------------------------------ MODULE RfNetwork ------------------------------
(***************************************************************************)
(* A network of nodes that each run Bt::Rf24::RfNetworkSocket on the       *)
(* thread of their execution context: packets are sent hop by hop along    *)
(* the tree of RfRouting, each hop with up to five writes.                 *)
(*                                                                         *)
(* Of the radio (Rf24DeviceController::write) only the outcome is kept: a  *)
(* write is heard or not by those who listen on its address, and a write   *)
(* that was heard may still be reported as failed (its acknowledgement was *)
(* lost), so that it is repeated and heard twice.  A write that succeeded  *)
(* was heard: so it is but for what Rf24Controller's SuccessMeansSent      *)
(* excepts.                                                                *)
(***************************************************************************)
EXTENDS RfRouting, Sequences, FiniteSets

CONSTANTS
    Nodes,          \* the ids of the nodes that exist
    Routes,         \* the <<source, destination>> of the packets that are sent
    None,           \* null
    MaxSends,       \* bound: calls of send at each node
    MaxStops,       \* bound: nodes that stop listening
    MaxQueue        \* bound: tasks of a node before it hears no more

ASSUME RfNetworkAssumption ==
    /\ Nodes \subseteq Ids /\ Routes \subseteq Nodes \X Ids
    /\ {MaxSends, MaxStops, MaxQueue} \subseteq Nat
    /\ None \notin [source : Nodes, destination : Ids, id : Ids]

MaxWrites == 5

VARIABLES
    tasks,          \* the queue of each node's execution context
    sending,        \* the packet in sendInternal, or None
    counter,        \* its failed writes
    mIdCounter,
    listening,      \* the callback is set and the radio receives
    calls, returns, \* of send
    accepted,       \* the packets for which send returned true
    delivered,      \* the packets handed to the callback of their destination
    abandoned       \* the packets some node gave up or threw away

application == <<calls, mIdCounter, listening>>
vars == <<tasks, sending, counter, application, returns, accepted, delivered, abandoned>>

Packets == [source : Nodes, destination : Ids, id : Ids]
Tasks == [op : {"send"}, destination : Ids] \cup [op : {"receive"}, packet : Packets]

Init ==
    /\ tasks = [n \in Nodes |-> <<>>]
    /\ sending = [n \in Nodes |-> None]
    /\ counter = [n \in Nodes |-> 0]
    /\ mIdCounter = [n \in Nodes |-> 0]
    /\ listening = [n \in Nodes |-> TRUE]
    /\ calls = [n \in Nodes |-> 0] /\ returns = [n \in Nodes |-> 0]
    /\ accepted = {}
    /\ delivered = {} /\ abandoned = {}

-----------------------------------------------------------------------------
(* The users of the socket. *)

\* RfPacketSocket::send: the call waits for a task of the execution context.
Send(n, destination) ==
    /\ <<n, destination>> \in Routes
    /\ calls[n] < MaxSends
    /\ calls' = [calls EXCEPT ![n] = @ + 1]
    /\ tasks' = [tasks EXCEPT ![n] = Append(@, [op |-> "send", destination |-> destination])]
    /\ UNCHANGED <<sending, counter, mIdCounter, listening, returns, accepted, delivered,
                   abandoned>>

StopListening(n) ==
    /\ listening[n]
    /\ Cardinality({m \in Nodes : ~listening[m]}) < MaxStops
    /\ listening' = [listening EXCEPT ![n] = FALSE]
    /\ UNCHANGED <<tasks, sending, counter, calls, mIdCounter, returns, accepted, delivered,
                   abandoned>>

-----------------------------------------------------------------------------
(* The tasks of a node. *)

TakeTask(n, op) ==
    /\ sending[n] = None
    /\ tasks[n] # <<>>
    /\ Head(tasks[n]).op = op
    /\ tasks' = [tasks EXCEPT ![n] = Tail(@)]

ReceiveInternal(n, packet) ==
    IF listening[n]
    THEN /\ delivered' = delivered \cup {packet}
         /\ UNCHANGED abandoned
    ELSE /\ abandoned' = abandoned \cup {packet}
         /\ UNCHANGED delivered

SendInternal(n, packet) ==
    /\ sending' = [sending EXCEPT ![n] = packet]
    /\ counter' = [counter EXCEPT ![n] = 0]

\* RfNetworkSocket::send: a packet to the node itself does not use the radio.
RunSend(n) ==
    /\ TakeTask(n, "send")
    /\ mIdCounter' = [mIdCounter EXCEPT ![n] = (@ + 1) % 256]
    /\ LET packet == [source |-> n, destination |-> Head(tasks[n]).destination,
                      id |-> mIdCounter[n]]
       IN  \/ /\ packet.destination = n
              /\ ReceiveInternal(n, packet)
              /\ returns' = [returns EXCEPT ![n] = @ + 1]
              /\ accepted' = accepted \cup {packet}
              /\ UNCHANGED <<sending, counter>>
           \/ /\ packet.destination # n
              /\ SendInternal(n, packet)
              /\ UNCHANGED <<returns, accepted, delivered, abandoned>>
    /\ UNCHANGED <<calls, listening>>

\* Mutant: a packet that is not for this node is not forwarded.
RunReceiveWithoutForward(n) ==
    /\ TakeTask(n, "receive")
    /\ LET packet == Head(tasks[n]).packet
       IN  IF packet.destination = n THEN ReceiveInternal(n, packet)
           ELSE UNCHANGED <<delivered, abandoned>>
    /\ UNCHANGED <<sending, counter, application, returns, accepted>>

\* Rf24DeviceController::handleReceiveData, RfNetworkSocket::onPacketReceived.
RunReceive(n) ==
    /\ TakeTask(n, "receive")
    /\ LET packet == Head(tasks[n]).packet
       IN  \/ /\ ~listening[n] \/ packet.destination = n
              /\ ReceiveInternal(n, packet)
              /\ UNCHANGED <<sending, counter>>
           \/ /\ listening[n] /\ packet.destination # n
              /\ SendInternal(n, packet)
              /\ UNCHANGED <<delivered, abandoned>>
    /\ UNCHANGED <<application, returns, accepted>>

-----------------------------------------------------------------------------
(* A write of the packet in sendInternal. *)

\* A node that has stopped may still hear: a write under way at that time puts
\* its radio back to receiving.
Listeners(n, address) ==
    {m \in Nodes \ {n} : /\ Len(tasks[m]) < MaxQueue
                         /\ \E p \in Pipes : Enabled(m, p) /\ PipeAddress(m, p) = address}

Heard(n, receivers) ==
    LET task == [op |-> "receive", packet |-> sending[n]]
    IN  tasks' = [m \in Nodes |-> IF m \in receivers THEN Append(tasks[m], task) ELSE tasks[m]]

\* sendInternal returns to send, or to onPacketReceived, which does not look.
Return(n) ==
    /\ sending' = [sending EXCEPT ![n] = None]
    /\ returns' = IF sending[n].source = n THEN [returns EXCEPT ![n] = @ + 1] ELSE returns

\* Mutant: the retries are not counted.
FailWithoutCount(n) ==
    UNCHANGED <<sending, counter, returns, abandoned>>

\* Mutant: five more writes are allowed after the first.
FailOneTooLate(n) ==
    \/ /\ counter[n] + 1 <= MaxWrites
       /\ counter' = [counter EXCEPT ![n] = @ + 1]
       /\ UNCHANGED <<sending, returns, abandoned>>
    \/ /\ counter[n] + 1 > MaxWrites
       /\ counter' = [counter EXCEPT ![n] = 0]
       /\ Return(n)
       /\ abandoned' = abandoned \cup {sending[n]}

Fail(n) ==
    \/ /\ counter[n] + 1 < MaxWrites
       /\ counter' = [counter EXCEPT ![n] = @ + 1]
       /\ UNCHANGED <<sending, returns, abandoned>>
    \/ /\ counter[n] + 1 >= MaxWrites
       /\ counter' = [counter EXCEPT ![n] = 0]
       /\ Return(n)
       /\ abandoned' = abandoned \cup {sending[n]}

Write(n) ==
    /\ sending[n] # None
    /\ LET pipe == RoutingPipe(n, sending[n].destination)
       IN  \E receivers \in SUBSET Listeners(n, PipeAddress(n, pipe)) :
             /\ Heard(n, receivers)
             /\ \/ /\ receivers # {}
                   /\ counter' = [counter EXCEPT ![n] = 0]
                   /\ Return(n)
                   /\ accepted' = IF sending[n].source = n THEN accepted \cup {sending[n]}
                                  ELSE accepted
                   /\ UNCHANGED abandoned
                \/ Fail(n) /\ UNCHANGED accepted
    /\ UNCHANGED <<application, delivered>>

-----------------------------------------------------------------------------
ExecutionContext(n) == RunSend(n) \/ RunReceive(n) \/ Write(n)

Next ==
    \E n \in Nodes :
        \/ \E d \in {r[2] : r \in Routes} : Send(n, d)
        \/ StopListening(n)
        \/ ExecutionContext(n)

Spec == Init /\ [][Next]_vars

\* A node's thread is scheduled if any has something to do (every one, as a
\* packet ends after finitely many writes); nothing is assumed of the radio.
FairSpec == Spec /\ WF_vars(\E n \in Nodes : ExecutionContext(n))

-----------------------------------------------------------------------------
(* Properties. *)

TypeOK ==
    /\ tasks \in [Nodes -> Seq(Tasks)]
    /\ sending \in [Nodes -> Packets \cup {None}]
    /\ counter \in [Nodes -> 0 .. MaxWrites - 1]
    /\ mIdCounter \in [Nodes -> Ids]
    /\ listening \in [Nodes -> BOOLEAN]
    /\ calls \in [Nodes -> 0 .. MaxSends] /\ returns \in [Nodes -> Nat]
    /\ (accepted \cup delivered \cup abandoned) \subseteq Packets

\* The packets a node has queued or is sending.
Held(n) ==
    ({sending[n]} \ {None}) \cup
    {tasks[n][i].packet : i \in {j \in DOMAIN tasks[n] : tasks[n][j].op = "receive"}}

(* However often a packet is repeated and whoever hears it, its copies are *)
(* only at nodes on the one path in the tree from its source to its        *)
(* destination: nothing wanders off or circles.                            *)
PacketsStayOnPath ==
    \A n \in Nodes : \A p \in Held(n) : OnPath(n, p.source, p.destination)

(* A call of send returns, whatever the radio loses.                       *)
SendReturns ==
    \A n \in {r[1] : r \in Routes} : \A k \in 1 .. MaxSends : calls[n] >= k ~> returns[n] >= k

(* A packet for which send returned true is delivered, or some node on its *)
(* way gave it up after all its writes, or threw it away as it had stopped *)
(* listening.                                                              *)
AcceptedArrives ==
    \A r \in Routes : \A i \in 0 .. MaxSends - 1 :
        LET p == [source |-> r[1], destination |-> r[2], id |-> i]
        IN  p \in accepted ~> p \in delivered \cup abandoned
=============================================================================
