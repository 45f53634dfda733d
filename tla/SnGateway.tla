------------------------------ MODULE SnGateway ------------------------------
(***************************************************************************)
(* Bt::Mqtt::SnGateway: the loop that hands the packets of each node to    *)
(* the node's GatewayConnection, the repository that owns the connections, *)
(* the worker that removes those that asked for it, and the shutdown.      *)
(*                                                                         *)
(* Four kinds of threads: run (the loop), worker (mWorker), main (which    *)
(* calls stop) and one per connection.  A connection is a shared_ptr held  *)
(* by the repository and, for the length of an iteration, by the loop;     *)
(* whoever drops the last one runs ~GatewayConnection: it queues the stop  *)
(* and joins the connection's thread, the repository under its own lock.   *)
(* Of a connection (module GatewayConnection) only its mailbox is kept:    *)
(* it handles what it is given in order, may ask to be removed at any      *)
(* time, and may block in a publish.                                       *)
(***************************************************************************)
EXTENDS Naturals, Sequences

CONSTANTS
    Nodes,          \* the ids of the nodes that send
    None,           \* a null pointer
    MaxConnections, \* bound: connections created
    MaxPackets,     \* bound: packets received
    MaxRequests     \* bound: length of the worker's queue before it is asked more

ASSUME SnGatewayAssumption ==
    /\ {MaxConnections, MaxPackets, MaxRequests} \subseteq Nat
    /\ None \notin Nodes \cup Nat \cup {"worker", "main"}

Connections == 1 .. MaxConnections

VARIABLES
    mRunning, mStopping,
    mEntities,          \* mConnections: the connection of each node, or None
    lock,               \* the owner of the repository's mutex, or None
    received,           \* mSocket: the packets to be received
    listening, packets, \* the socket is open; a counter
    requests,           \* mWorker: removals to be done, and the end
    run, nodeId, gatewayConnection,     \* the loop and its local variables
    worker, main,       \* where these threads are
    dying,              \* whom each of the three threads is destroying
    \* the connections
    node, thread, inbox, created,
    asked               \* those that called mDispose

flags == <<mRunning, mStopping>>
repository == <<mEntities, lock>>
socket == <<received, listening, packets>>
loop == <<run, nodeId, gatewayConnection>>
connections == <<dying, node, thread, inbox, created, asked>>
vars == <<flags, repository, requests, socket, loop, worker, main, connections>>

Owners == {"run", "worker", "main"}
Alive(c) == thread[c] \in {"fresh", "running", "publishing"}

\* The connections a shared_ptr points to.
Referenced == ({mEntities[n] : n \in Nodes} \cup {gatewayConnection}) \ {None}

-----------------------------------------------------------------------------
\* The two flags are not initialised by the constructor.
Init ==
    /\ mRunning \in BOOLEAN /\ mStopping \in BOOLEAN
    /\ mEntities = [n \in Nodes |-> None]
    /\ lock = None
    /\ received = <<>> /\ listening = TRUE /\ packets = 0
    /\ requests = <<>>
    /\ run = "start" /\ nodeId = None /\ gatewayConnection = None
    /\ worker = "waiting" /\ main = "waiting"
    /\ dying = [o \in Owners |-> None]
    /\ node = [c \in Connections |-> None]
    /\ thread = [c \in Connections |-> "none"]
    /\ inbox = [c \in Connections |-> <<>>]
    /\ created = 0
    /\ asked = {}

-----------------------------------------------------------------------------
(* ~GatewayConnection, by the thread that dropped the last shared_ptr.     *)

BeginDestroy(owner, c) ==
    /\ dying' = [dying EXCEPT ![owner] = c]
    /\ inbox' = [inbox EXCEPT ![c] = Append(@, "stop")]
    /\ UNCHANGED <<node, thread, created, asked>>

Joined(owner) ==
    /\ dying[owner] # None
    /\ thread[dying[owner]] = "ended"
    /\ thread' = [thread EXCEPT ![dying[owner]] = "joined"]
    /\ dying' = [dying EXCEPT ![owner] = None]
    /\ UNCHANGED <<node, inbox, created, asked>>

-----------------------------------------------------------------------------
(* The receive loop. *)

RunStep(from, to) ==
    /\ run = from
    /\ run' = to
    /\ UNCHANGED <<requests, worker, main>>

StartRun ==
    /\ RunStep("start", "test")
    /\ mRunning' = TRUE
    /\ UNCHANGED <<mStopping, repository, socket, nodeId, gatewayConnection, connections>>

TestRunning ==
    /\ RunStep("test", IF mRunning THEN "receive" ELSE "end")
    /\ UNCHANGED <<flags, repository, socket, nodeId, gatewayConnection, connections>>

EndRun ==
    /\ RunStep("end", "ended")
    /\ mStopping' = FALSE
    /\ UNCHANGED <<mRunning, repository, socket, nodeId, gatewayConnection, connections>>

\* The item of close(), or a packet that is no message, leads back to the test.
Receive ==
    /\ received # <<>>
    /\ received' = Tail(received)
    /\ \/ /\ RunStep("receive", "lookup")
          /\ Head(received) \in Nodes
          /\ nodeId' = Head(received)
       \/ /\ RunStep("receive", "test")
          /\ UNCHANGED nodeId
    /\ UNCHANGED <<flags, repository, listening, packets, gatewayConnection, connections>>

Lookup ==
    /\ RunStep("lookup", IF mEntities[nodeId] = None THEN "create" ELSE "handle")
    /\ lock = None
    /\ gatewayConnection' = mEntities[nodeId]
    /\ UNCHANGED <<flags, repository, socket, nodeId, connections>>

Create ==
    /\ RunStep("create", "add")
    /\ created < MaxConnections
    /\ created' = created + 1
    /\ node' = [node EXCEPT ![created + 1] = nodeId]
    /\ thread' = [thread EXCEPT ![created + 1] = "fresh"]
    /\ gatewayConnection' = created + 1
    /\ UNCHANGED <<flags, repository, socket, nodeId, dying, inbox, asked>>

\* The repository keeps what it has for a node; add's answer is not looked at.
Add ==
    /\ RunStep("add", "handle")
    /\ lock = None
    /\ mEntities' = IF mEntities[nodeId] = None
                    THEN [mEntities EXCEPT ![nodeId] = gatewayConnection]
                    ELSE mEntities
    /\ UNCHANGED <<flags, lock, socket, nodeId, gatewayConnection, connections>>

Handle ==
    /\ RunStep("handle", "release")
    /\ inbox' = [inbox EXCEPT ![gatewayConnection] = Append(@, "message")]
    /\ UNCHANGED <<flags, repository, socket, nodeId, gatewayConnection,
                   dying, node, thread, created, asked>>

\* Mutant: the last pointer is dropped and the connection forgotten.
ReleaseWithoutDestroy ==
    /\ RunStep("release", "test")
    /\ gatewayConnection' = None
    /\ UNCHANGED <<flags, repository, socket, nodeId, connections>>

\* The local shared_ptr goes out of scope: it may be the last one by now.
Release ==
    /\ \/ /\ RunStep("release", "test")
          /\ mEntities[nodeId] = gatewayConnection
          /\ UNCHANGED connections
       \/ /\ RunStep("release", "joining")
          /\ mEntities[nodeId] # gatewayConnection
          /\ BeginDestroy("run", gatewayConnection)
    /\ gatewayConnection' = None
    /\ UNCHANGED <<flags, repository, socket, nodeId>>

RunJoined ==
    /\ RunStep("joining", "test")
    /\ Joined("run")
    /\ UNCHANGED <<flags, repository, socket, nodeId, gatewayConnection>>

-----------------------------------------------------------------------------
(* The worker: Repository::remove, by id.  The erased shared_ptr is        *)
(* destroyed with the lock held.                                           *)

WorkerStep(from, to) ==
    /\ worker = from
    /\ worker' = to
    /\ UNCHANGED <<flags, socket, loop, main>>

TakeRequest(r) ==
    /\ requests # <<>>
    /\ Head(requests) = r
    /\ requests' = Tail(requests)

RemoveNothing(n) ==
    /\ WorkerStep("waiting", "waiting")
    /\ TakeRequest(n)
    /\ lock = None
    /\ mEntities[n] = None
    /\ UNCHANGED <<repository, connections>>

\* Mutants: the lock is released before the connection is destroyed; it is
\* destroyed whoever else still points to it.
RemoveAndDestroyUnlocked(n) ==
    /\ TakeRequest(n)
    /\ lock = None
    /\ mEntities[n] # None
    /\ mEntities' = [mEntities EXCEPT ![n] = None]
    /\ \/ /\ WorkerStep("waiting", "waiting")
          /\ gatewayConnection = mEntities[n]
          /\ UNCHANGED <<lock, connections>>
       \/ /\ WorkerStep("waiting", "joining")
          /\ gatewayConnection # mEntities[n]
          /\ UNCHANGED lock
          /\ BeginDestroy("worker", mEntities[n])

RemoveAndDestroyAnyway(n) ==
    /\ WorkerStep("waiting", "joining")
    /\ TakeRequest(n)
    /\ lock = None
    /\ mEntities[n] # None
    /\ mEntities' = [mEntities EXCEPT ![n] = None]
    /\ lock' = "worker"
    /\ BeginDestroy("worker", mEntities[n])

Remove(n) ==
    /\ TakeRequest(n)
    /\ lock = None
    /\ mEntities[n] # None
    /\ mEntities' = [mEntities EXCEPT ![n] = None]
    /\ \/ /\ WorkerStep("waiting", "waiting")
          /\ gatewayConnection = mEntities[n]
          /\ UNCHANGED <<lock, connections>>
       \/ /\ WorkerStep("waiting", "joining")
          /\ gatewayConnection # mEntities[n]
          /\ lock' = "worker"
          /\ BeginDestroy("worker", mEntities[n])

\* Mutant: the lock is kept.
WorkerJoinedKeepingLock ==
    /\ WorkerStep("joining", "waiting")
    /\ Joined("worker")
    /\ UNCHANGED <<repository, requests>>

WorkerJoined ==
    /\ WorkerStep("joining", "waiting")
    /\ Joined("worker")
    /\ lock' = None
    /\ UNCHANGED <<mEntities, requests>>

WorkerEnd ==
    /\ WorkerStep("waiting", "ended")
    /\ TakeRequest("quit")
    /\ UNCHANGED <<repository, connections>>

-----------------------------------------------------------------------------
(* The main thread: stop() after a signal, the join of the loop's thread   *)
(* and the destruction of the gateway.                                     *)

MainStep(from, to) ==
    /\ main = from
    /\ main' = to
    /\ UNCHANGED <<packets, loop, worker>>

Signal ==
    /\ MainStep("waiting", IF mRunning THEN "stop" ELSE "join")
    /\ UNCHANGED <<flags, repository, requests, received, listening, connections>>

\* Mutants: the flags are set in the other order; an empty packet, not an
\* invalid one, ends the receiving.
SetRunningFirst ==
    /\ \/ /\ MainStep("stop", "stopping")
          /\ mRunning' = FALSE
          /\ UNCHANGED mStopping
       \/ /\ MainStep("stopping", "close")
          /\ mStopping' = TRUE
          /\ UNCHANGED mRunning
    /\ UNCHANGED <<repository, requests, received, listening, connections>>

SetFlags ==
    /\ \/ /\ MainStep("stop", "stopping")
          /\ mStopping' = TRUE
          /\ UNCHANGED mRunning
       \/ /\ MainStep("stopping", "close")
          /\ mRunning' = FALSE
          /\ UNCHANGED mStopping
    /\ UNCHANGED <<repository, requests, received, listening, connections>>

CloseWithEmptyPacket ==
    /\ MainStep("close", "spin")
    /\ listening' = FALSE
    /\ received' = Append(received, None)
    /\ UNCHANGED <<flags, repository, requests, connections>>

\* RfPacketSocket::close.
Close ==
    /\ MainStep("close", "spin")
    /\ listening' = FALSE
    /\ received' = Append(received, "closed")
    /\ UNCHANGED <<flags, repository, requests, connections>>

\* The wait for mStopping to be cleared, and Repository::clear.
BeginClear ==
    /\ MainStep("spin", "clear")
    /\ ~mStopping
    /\ lock = None
    /\ lock' = "main"
    /\ UNCHANGED <<flags, mEntities, requests, received, listening, connections>>

ClearOne(n) ==
    /\ MainStep("clear", "clearing")
    /\ mEntities[n] # None
    /\ mEntities' = [mEntities EXCEPT ![n] = None]
    /\ BeginDestroy("main", mEntities[n])
    /\ UNCHANGED <<flags, lock, requests, received, listening>>

ClearJoined ==
    /\ MainStep("clearing", "clear")
    /\ Joined("main")
    /\ UNCHANGED <<flags, repository, requests, received, listening>>

EndClear ==
    /\ MainStep("clear", "join")
    /\ \A n \in Nodes : mEntities[n] = None
    /\ lock' = None
    /\ UNCHANGED <<flags, mEntities, requests, received, listening, connections>>

\* The thread of the loop is joined; of the members, mWorker is destroyed last,
\* after mConnections: a removal that still waits finds an empty map here, and a
\* destroyed one in the code.
Join ==
    /\ MainStep("join", "destroying")
    /\ run = "ended"
    /\ requests' = Append(requests, "quit")
    /\ UNCHANGED <<flags, repository, received, listening, connections>>

Down ==
    /\ MainStep("destroying", "down")
    /\ worker = "ended"
    /\ UNCHANGED <<flags, repository, requests, received, listening, connections>>

-----------------------------------------------------------------------------
(* Packets, and the connections' threads. *)

Packet(n) ==
    /\ listening
    /\ packets < MaxPackets
    /\ packets' = packets + 1
    /\ received' = Append(received, n)
    /\ UNCHANGED <<flags, repository, requests, listening, loop, worker, main, connections>>

ThreadStep(c) ==
    /\ thread[c] \in {"fresh", "running"}
    /\ UNCHANGED <<flags, repository, socket, loop, worker, main, dying, node, created>>

Take(c, action) ==
    /\ inbox[c] # <<>>
    /\ Head(inbox[c]) = action
    /\ inbox' = [inbox EXCEPT ![c] = Tail(@)]

\* mDispose: the removal of the connection's node is queued for the worker.
Dispose(c) ==
    /\ Len(requests) < MaxRequests
    /\ asked' = asked \cup {c}
    /\ requests' = Append(requests, node[c])

HandleMessage(c) ==
    /\ ThreadStep(c)
    /\ Take(c, "message")
    /\ \/ thread' = [thread EXCEPT ![c] = "running"] /\ UNCHANGED <<asked, requests>>
       \/ thread' = [thread EXCEPT ![c] = "publishing"] /\ UNCHANGED <<asked, requests>>
       \/ thread' = [thread EXCEPT ![c] = "running"] /\ Dispose(c)

Published(c) ==
    /\ thread[c] = "publishing"
    /\ thread' = [thread EXCEPT ![c] = "running"]
    /\ UNCHANGED <<flags, repository, requests, socket, loop, worker, main, dying, node,
                   inbox, created, asked>>

\* The keep alive timed out, or the broker's link was lost: neither happens to
\* a connection that has handled no message yet.
LoseClient(c) ==
    /\ ThreadStep(c)
    /\ thread[c] = "running"
    /\ Dispose(c)
    /\ UNCHANGED <<thread, inbox>>

StopThread(c) ==
    /\ ThreadStep(c)
    /\ Take(c, "stop")
    /\ thread' = [thread EXCEPT ![c] = "ended"]
    /\ UNCHANGED <<asked, requests>>

-----------------------------------------------------------------------------
RunLoop ==
    \/ StartRun \/ TestRunning \/ EndRun \/ Receive \/ Lookup \/ Create \/ Add
    \/ Handle \/ Release \/ RunJoined

Worker ==
    \/ \E n \in Nodes : RemoveNothing(n) \/ Remove(n)
    \/ WorkerJoined
    \/ WorkerEnd

Main ==
    \/ SetFlags \/ Close \/ BeginClear \/ ClearJoined \/ EndClear \/ Join \/ Down
    \/ \E n \in Nodes : ClearOne(n)

Connection(c) == HandleMessage(c) \/ StopThread(c)

Next ==
    \/ RunLoop \/ Worker \/ Signal \/ Main
    \/ \E n \in Nodes : Packet(n)
    \/ \E c \in Connections : Connection(c) \/ Published(c) \/ LoseClient(c)

Spec == Init /\ [][Next]_vars

\* Every thread is scheduled; no publish needs to complete.
FairSpec ==
    /\ Spec
    /\ WF_vars(RunLoop) /\ WF_vars(Worker) /\ WF_vars(Main)
    /\ \A c \in Connections : WF_vars(Connection(c))

-----------------------------------------------------------------------------
(* Properties. *)

TypeOK ==
    /\ mRunning \in BOOLEAN /\ mStopping \in BOOLEAN
    /\ mEntities \in [Nodes -> Connections \cup {None}]
    /\ lock \in {None, "worker", "main"}
    /\ received \in Seq(Nodes \cup {"closed"})
    /\ listening \in BOOLEAN /\ packets \in 0 .. MaxPackets
    /\ requests \in Seq(Nodes \cup {"quit"})
    /\ run \in {"start", "test", "receive", "lookup", "create", "add", "handle",
                "release", "joining", "end", "ended"}
    /\ nodeId \in Nodes \cup {None}
    /\ gatewayConnection \in Connections \cup {None}
    /\ worker \in {"waiting", "joining", "ended"}
    /\ main \in {"waiting", "stop", "stopping", "close", "spin", "clear", "clearing",
                 "join", "destroying", "down"}
    /\ dying \in [Owners -> Connections \cup {None}]
    /\ node \in [Connections -> Nodes \cup {None}]
    /\ thread \in [Connections -> {"none", "fresh", "running", "publishing", "ended", "joined"}]
    /\ inbox \in [Connections -> Seq({"message", "stop"})]
    /\ created \in 0 .. MaxConnections
    /\ asked \subseteq Connections

(* A node is never served by two threads at once, although connections are *)
(* removed by the worker while the loop creates new ones: whoever drops    *)
(* the last pointer joins before the loop can look the node up again.      *)
OneThreadPerNode ==
    \A c, d \in Connections : Alive(c) /\ Alive(d) /\ node[c] = node[d] => c = d

(* The loop never hands a message to a connection that is being destroyed  *)
(* (it would never be handled): what the repository or the loop points to  *)
(* has no stop in its queue, and its thread has not ended.                 *)
ReferencedIsAlive ==
    \A c \in Referenced : Alive(c) /\ \A i \in DOMAIN inbox[c] : inbox[c][i] # "stop"

(* When the gateway is down no thread of it is left.                       *)
DownMeansDown == main = "down" => run = "ended" /\ \A c \in Connections : ~Alive(c)

(* stop() returns and the gateway goes down, once the loop runs, unless a  *)
(* connection is stuck in a publish for ever.                              *)
StopReturns ==
    main = "stop" /\ run # "start"
        ~> (main = "down" \/ \E c \in Connections : [](thread[c] = "publishing"))

(* A connection that asked for its removal leaves the repository, unless a *)
(* connection is stuck in a publish for ever.                              *)
AskedIsRemoved ==
    \A c \in Connections :
        c \in asked ~> (c \notin {mEntities[n] : n \in Nodes}
                        \/ \E d \in Connections : [](thread[d] = "publishing"))
=============================================================================
