--------------------------- MODULE SnGatewayProofs ---------------------------
(***************************************************************************)
(* Proofs about SnGateway, for any nodes and any bounds.                   *)
(*                                                                         *)
(* The inductive invariant says where a connection can be: every live one  *)
(* is in the repository, held by the loop or being destroyed, and no two   *)
(* of these places hold connections of one node.                           *)
(***************************************************************************)
EXTENDS SnGateway, TLAPS

Serving(c) == Alive(c) /\ \A i \in DOMAIN inbox[c] : inbox[c][i] # "stop"

(* Who is destroying, who has the lock, and when the loop has a pointer.   *)
ControlOK ==
    /\ dying["run"] # None <=> run = "joining"
    /\ dying["worker"] # None <=> worker = "joining"
    /\ dying["main"] # None <=> main = "clearing"
    /\ lock = "worker" <=> worker = "joining"
    /\ lock = "main" <=> main \in {"clear", "clearing"}
    /\ gatewayConnection # None <=> run \in {"add", "handle", "release"}
    /\ run \in {"lookup", "create", "add", "handle", "release", "joining"} => nodeId \in Nodes

LoopRuns == run = "start" \/ (mRunning /\ run \notin {"end", "ended"})
AllCleared == run = "ended" /\ \A n \in Nodes : mEntities[n] = None

(* How far the shutdown is.                                                *)
ShutdownOK ==
    /\ main \in {"waiting", "stop", "stopping"} => LoopRuns
    /\ main \in {"stopping", "close", "spin"} => mStopping \/ run = "ended"
    /\ main \in {"clear", "clearing"} => run = "ended"
    /\ main = "join" => LoopRuns \/ AllCleared
    /\ main \in {"destroying", "down"} => AllCleared
    /\ main = "down" => worker = "ended"

(* What the repository and the loop point to serves its node.              *)
PointersOK ==
    /\ \A n \in Nodes :
           mEntities[n] # None => Serving(mEntities[n]) /\ node[mEntities[n]] = n
    /\ gatewayConnection # None =>
           Serving(gatewayConnection) /\ node[gatewayConnection] = nodeId

(* The repository holds, for the node the loop is at, nothing else than    *)
(* what the loop holds; nobody else is destroying a connection of it.      *)
LoopOK ==
    /\ run \in {"create", "add", "joining"} => mEntities[nodeId] = None
    /\ run \in {"handle", "release"} => mEntities[nodeId] \in {None, gatewayConnection}
    /\ run = "joining" => node[dying["run"]] = nodeId
    /\ run \in {"create", "add", "handle", "release", "joining"} =>
           \A o \in {"worker", "main"} : dying[o] # None => node[dying[o]] # nodeId

(* A connection that is being destroyed exists and has left the repository.*)
DyingOK ==
    \A o \in Owners :
        dying[o] # None => /\ thread[dying[o]] # "none"
                           /\ node[dying[o]] \in Nodes
                           /\ mEntities[node[dying[o]]] = None

(* No live connection is lost.                                             *)
AccountedFor ==
    \A c \in Connections :
        /\ c > created => thread[c] = "none" /\ inbox[c] = <<>>
        /\ Alive(c) => /\ node[c] \in Nodes
                       /\ \/ mEntities[node[c]] = c
                          \/ gatewayConnection = c
                          \/ \E o \in Owners : dying[o] = c

IInv == TypeOK /\ ControlOK /\ ShutdownOK /\ PointersOK /\ LoopOK /\ DyingOK /\ AccountedFor

-----------------------------------------------------------------------------
(* What the invariant implies. *)

(* A live connection of a node is found in the repository, at the loop or  *)
(* at one of the three destroying threads: no two of them are of one node. *)
LEMMA OneThreadImplied == IInv => OneThreadPerNode
<1> SUFFICES ASSUME IInv, NEW c \in Connections, NEW d \in Connections,
                    Alive(c), Alive(d), node[c] = node[d]
             PROVE  c = d
  BY DEF OneThreadPerNode
<1> USE SnGatewayAssumption
<1>1. /\ node[c] \in Nodes
      /\ \/ mEntities[node[c]] = c \/ gatewayConnection = c \/ \E o \in Owners : dying[o] = c
      /\ \/ mEntities[node[c]] = d \/ gatewayConnection = d \/ \E o \in Owners : dying[o] = d
      /\ c # None /\ d # None
  BY DEF IInv, AccountedFor, Connections
<1>2. ASSUME NEW e \in {c, d}, NEW o \in Owners, dying[o] = e
      PROVE  /\ mEntities[node[c]] = None
             /\ ~(gatewayConnection # None /\ node[gatewayConnection] = node[c])
  <2>1. /\ e # None /\ node[e] = node[c] /\ mEntities[node[c]] = None
    BY <1>1, <1>2 DEF IInv, DyingOK
  <2>2. CASE o = "run"
    BY <1>2, <2>1, <2>2 DEF IInv, ControlOK
  <2>3. CASE o = "worker"
    BY <1>2, <2>1, <2>3 DEF IInv, ControlOK, PointersOK, LoopOK
  <2>4. CASE o = "main"
    BY <1>2, <2>1, <2>4 DEF IInv, ControlOK, ShutdownOK
  <2>. QED  BY <2>1, <2>2, <2>3, <2>4 DEF Owners
<1>3. ASSUME NEW o \in Owners, NEW p \in Owners, dying[o] = c, dying[p] = d
      PROVE  o = p
  <2>1. ~(dying["worker"] # None /\ dying["main"] # None)
    BY DEF IInv, ControlOK
  <2>2. ~(dying["run"] # None /\ dying["main"] # None)
    BY DEF IInv, ControlOK, ShutdownOK
  <2>3. dying["run"] # None /\ dying["worker"] # None => node[dying["run"]] # node[dying["worker"]]
    BY DEF IInv, ControlOK, LoopOK
  <2>. QED  BY <1>1, <1>3, <2>1, <2>2, <2>3 DEF Owners
<1>4. gatewayConnection # None => mEntities[node[gatewayConnection]] \in {None, gatewayConnection}
  BY DEF IInv, ControlOK, LoopOK, PointersOK
<1>. QED  BY <1>1, <1>2, <1>3, <1>4

LEMMA ReferencedImplied == IInv => ReferencedIsAlive
  BY DEF IInv, PointersOK, ReferencedIsAlive, Referenced, Serving

LEMMA DownImplied == IInv => DownMeansDown
  BY SnGatewayAssumption
  DEF IInv, ControlOK, ShutdownOK, AllCleared, AccountedFor, DownMeansDown, Owners, Connections

-----------------------------------------------------------------------------
(* The steps keep the types. *)

LEMMA InitImplies == Init => IInv
  BY SnGatewayAssumption
  DEF Init, IInv, TypeOK, ControlOK, ShutdownOK, PointersOK, LoopOK, DyingOK, AccountedFor,
      LoopRuns, Alive, Owners, Connections

LEMMA AppendType ==
    ASSUME NEW S, NEW s \in Seq(S), NEW e \in S
    PROVE  Append(s, e) \in Seq(S)
  OBVIOUS

LEMMA TailType ==
    ASSUME NEW S, NEW s \in Seq(S), s # <<>>
    PROVE  Tail(s) \in Seq(S) /\ Head(s) \in S
  OBVIOUS

LEMMA BeginDestroyTypes ==
    ASSUME TypeOK, NEW o \in Owners, NEW c \in Connections, BeginDestroy(o, c)
    PROVE  /\ dying' \in [Owners -> Connections \cup {None}]
           /\ inbox' \in [Connections -> Seq({"message", "stop"})]
           /\ UNCHANGED <<node, thread, created, asked>>
<1>1. Append(inbox[c], "stop") \in Seq({"message", "stop"})
  BY AppendType DEF TypeOK
<1>. QED  BY <1>1 DEF TypeOK, BeginDestroy

LEMMA JoinedTypes ==
    ASSUME TypeOK, NEW o \in Owners, Joined(o)
    PROVE  /\ dying' \in [Owners -> Connections \cup {None}]
           /\ thread' \in [Connections -> {"none", "fresh", "running", "publishing", "ended",
                                           "joined"}]
           /\ UNCHANGED <<node, inbox, created, asked>>
  BY DEF TypeOK, Joined

LEMMA LoopTypes == TypeOK /\ ControlOK /\ RunLoop => TypeOK'
<1> SUFFICES ASSUME TypeOK, ControlOK, RunLoop PROVE TypeOK'
  OBVIOUS
<1> USE SnGatewayAssumption DEF TypeOK, RunStep, flags, repository, socket, connections
<1>1. CASE StartRun \/ EndRun
  BY <1>1 DEF StartRun, EndRun
<1>9. CASE TestRunning
  <2>1. run' \in {"receive", "end"}
    BY <1>9 DEF TestRunning
  <2>. QED  BY <1>9, <2>1 DEF TestRunning
<1>2. CASE Receive
  <2>1. received' \in Seq(Nodes \cup {"closed"})
    BY <1>2, TailType DEF Receive
  <2>. QED  BY <1>2, <2>1 DEF Receive
<1>3. CASE Lookup
  BY <1>3 DEF Lookup, ControlOK
<1>4. CASE Create
  BY <1>4 DEF Create, Connections
<1>5. CASE Add
  BY <1>5 DEF Add
<1>6. CASE Handle
  BY <1>6, AppendType DEF Handle, ControlOK
<1>7. CASE Release
  BY <1>7, BeginDestroyTypes DEF Release, ControlOK, Owners
<1>8. CASE RunJoined
  BY <1>8, JoinedTypes DEF RunJoined, Owners
<1>. QED  BY <1>1, <1>2, <1>3, <1>4, <1>5, <1>6, <1>7, <1>8, <1>9 DEF RunLoop

LEMMA WorkerTypes == TypeOK /\ Worker => TypeOK'
<1> SUFFICES ASSUME TypeOK, Worker PROVE TypeOK'
  OBVIOUS
<1> USE SnGatewayAssumption DEF TypeOK, WorkerStep, flags, repository, socket, loop, connections
<1>1. ASSUME NEW r, TakeRequest(r) PROVE requests' \in Seq(Nodes \cup {"quit"})
  BY <1>1, TailType DEF TakeRequest
<1>2. CASE \E n \in Nodes : RemoveNothing(n)
  BY <1>1, <1>2 DEF RemoveNothing
<1>3. ASSUME NEW n \in Nodes, Remove(n) PROVE TypeOK'
  BY <1>1, <1>3, BeginDestroyTypes DEF Remove, Owners
<1>4. CASE WorkerJoined
  BY <1>4, JoinedTypes DEF WorkerJoined, Owners
<1>5. CASE WorkerEnd
  BY <1>1, <1>5 DEF WorkerEnd
<1>. QED  BY <1>2, <1>3, <1>4, <1>5 DEF Worker

LEMMA MainTypes == TypeOK /\ (Signal \/ Main) => TypeOK'
<1> SUFFICES ASSUME TypeOK, Signal \/ Main PROVE TypeOK'
  OBVIOUS
<1> USE SnGatewayAssumption DEF TypeOK, MainStep, flags, repository, loop, connections
<1>1. CASE BeginClear \/ EndClear \/ Down
  BY <1>1 DEF BeginClear, EndClear, Down
<1>6. CASE SetFlags
  BY <1>6 DEF SetFlags
<1>7. CASE Signal
  <2>1. main' \in {"stop", "join"}
    BY <1>7 DEF Signal
  <2>. QED  BY <1>7, <2>1 DEF Signal
<1>2. CASE Close
  BY <1>2, AppendType DEF Close
<1>3. CASE Join
  BY <1>3, AppendType DEF Join
<1>4. ASSUME NEW n \in Nodes, ClearOne(n) PROVE TypeOK'
  <2>1. mEntities[n] \in Connections /\ BeginDestroy("main", mEntities[n])
    BY <1>4 DEF ClearOne
  <2>2. /\ dying' \in [Owners -> Connections \cup {None}]
        /\ inbox' \in [Connections -> Seq({"message", "stop"})]
        /\ UNCHANGED <<node, thread, created, asked>>
    BY <2>1, BeginDestroyTypes DEF Owners
  <2>. QED  BY <1>4, <2>2 DEF ClearOne
<1>5. CASE ClearJoined
  BY <1>5, JoinedTypes DEF ClearJoined, Owners
<1>. QED  BY <1>1, <1>2, <1>3, <1>4, <1>5, <1>6, <1>7 DEF Main

(* A connection that runs has a node: it was given one when it was created.*)
LEMMA ThreadTypes ==
    ASSUME TypeOK, AccountedFor, NEW c \in Connections,
           Connection(c) \/ Published(c) \/ LoseClient(c)
    PROVE  TypeOK'
<1> USE DEF TypeOK, ThreadStep, flags, repository, socket, loop
<1>1. ASSUME NEW a, Take(c, a) PROVE inbox' \in [Connections -> Seq({"message", "stop"})]
  BY <1>1, TailType DEF Take
<1>2. ASSUME Dispose(c), thread[c] \in {"fresh", "running"}
      PROVE  requests' \in Seq(Nodes \cup {"quit"}) /\ asked' \subseteq Connections
  BY <1>2, AppendType DEF Dispose, AccountedFor, Alive
<1>3. CASE HandleMessage(c)
  <2>1. thread' \in [Connections -> {"none", "fresh", "running", "publishing", "ended", "joined"}]
    BY <1>3 DEF HandleMessage
  <2>2. inbox' \in [Connections -> Seq({"message", "stop"})]
    BY <1>1, <1>3 DEF HandleMessage
  <2>3. requests' \in Seq(Nodes \cup {"quit"}) /\ asked' \subseteq Connections
    BY <1>2, <1>3 DEF HandleMessage
  <2>. QED  BY <1>3, <2>1, <2>2, <2>3 DEF HandleMessage
<1>4. CASE StopThread(c)
  BY <1>1, <1>4 DEF StopThread
<1>5. CASE Published(c)
  BY <1>5 DEF Published
<1>6. CASE LoseClient(c)
  BY <1>2, <1>6 DEF LoseClient
<1>. QED  BY <1>3, <1>4, <1>5, <1>6 DEF Connection

LEMMA TypeStep == IInv /\ [Next]_vars => TypeOK'
<1> SUFFICES ASSUME IInv, [Next]_vars PROVE TypeOK'
  OBVIOUS
<1>1. CASE UNCHANGED vars
  BY <1>1 DEF IInv, TypeOK, vars, flags, repository, socket, loop, connections
<1>2. ASSUME NEW n \in Nodes, Packet(n) PROVE TypeOK'
  <2>1. received' \in Seq(Nodes \cup {"closed"})
    BY <1>2, AppendType DEF Packet, IInv, TypeOK
  <2>. QED  BY <1>2, <2>1, SnGatewayAssumption
            DEF IInv, TypeOK, Packet, flags, repository, loop, connections
<1>. QED  BY <1>1, <1>2, LoopTypes, WorkerTypes, MainTypes, ThreadTypes DEF Next, IInv

-----------------------------------------------------------------------------
(* The threads' control states. *)

(* A connection's thread touches its own mailbox and the worker's queue.   *)
LEMMA ThreadFrame ==
    ASSUME NEW c \in Connections, Connection(c) \/ Published(c) \/ LoseClient(c)
    PROVE  UNCHANGED <<mRunning, mStopping, mEntities, lock, run, nodeId, gatewayConnection,
                       worker, main, dying, node, created>>
  BY DEF Connection, HandleMessage, StopThread, Published, LoseClient, ThreadStep,
         flags, repository, loop

LEMMA ControlStep == IInv /\ [Next]_vars => ControlOK'
<1> SUFFICES ASSUME IInv, [Next]_vars PROVE ControlOK'
  OBVIOUS
<1> TypeOK /\ ControlOK
  BY DEF IInv
<1> USE SnGatewayAssumption
<1> USE DEF ControlOK, flags, repository, socket, loop, connections
<1>1. CASE UNCHANGED vars \/ \E n \in Nodes : Packet(n)
  BY <1>1 DEF vars, Packet
<1>2. ASSUME NEW c \in Connections, Connection(c) \/ Published(c) \/ LoseClient(c)
      PROVE  ControlOK'
  BY <1>2, ThreadFrame
<1>3. CASE RunLoop
  <2>1. CASE StartRun \/ EndRun \/ Receive \/ Handle
    BY <2>1 DEF StartRun, EndRun, Receive, Handle, RunStep
  <2>2. CASE TestRunning
    <3>1. run' \in {"receive", "end"}
      BY <2>2 DEF TestRunning, RunStep
    <3>. QED  BY <2>2, <3>1 DEF TestRunning, RunStep
  <2>3. CASE Lookup
    BY <2>3 DEF Lookup, RunStep
  <2>4. CASE Create \/ Add
    BY <2>4 DEF Create, Add, RunStep, TypeOK
  <2>5. CASE Release
    BY <2>5 DEF Release, RunStep, BeginDestroy, TypeOK, Owners
  <2>6. CASE RunJoined
    BY <2>6 DEF RunJoined, RunStep, Joined, TypeOK, Owners
  <2>. QED  BY <1>3, <2>1, <2>2, <2>3, <2>4, <2>5, <2>6 DEF RunLoop
<1>4. CASE Worker
  <2>1. CASE WorkerEnd \/ \E n \in Nodes : RemoveNothing(n)
    BY <2>1 DEF WorkerEnd, RemoveNothing, WorkerStep
  <2>2. ASSUME NEW n \in Nodes, Remove(n) PROVE ControlOK'
    BY <2>2 DEF Remove, WorkerStep, BeginDestroy, TypeOK, Owners
  <2>3. CASE WorkerJoined
    BY <2>3 DEF WorkerJoined, WorkerStep, Joined, TypeOK, Owners
  <2>. QED  BY <1>4, <2>1, <2>2, <2>3 DEF Worker
<1>5. CASE Signal
  <2>1. main' \in {"stop", "join"}
    BY <1>5 DEF Signal, MainStep
  <2>. QED  BY <1>5, <2>1 DEF Signal, MainStep
<1>6. CASE Main
  <2>1. CASE SetFlags \/ Close \/ Join \/ Down
    BY <2>1 DEF SetFlags, Close, Join, Down, MainStep
  <2>2. CASE BeginClear \/ EndClear
    BY <2>2 DEF BeginClear, EndClear, MainStep
  <2>3. ASSUME NEW n \in Nodes, ClearOne(n) PROVE ControlOK'
    BY <2>3 DEF ClearOne, MainStep, BeginDestroy, TypeOK, Owners
  <2>4. CASE ClearJoined
    BY <2>4 DEF ClearJoined, MainStep, Joined, TypeOK, Owners
  <2>. QED  BY <1>6, <2>1, <2>2, <2>3, <2>4 DEF Main
<1>. QED  BY <1>1, <1>2, <1>3, <1>4, <1>5, <1>6 DEF Next

LEMMA ShutdownStep == IInv /\ [Next]_vars => ShutdownOK'
<1> SUFFICES ASSUME IInv, [Next]_vars PROVE ShutdownOK'
  OBVIOUS
<1> TypeOK /\ ControlOK /\ ShutdownOK
  BY DEF IInv
<1> USE DEF ShutdownOK, LoopRuns, AllCleared, flags, repository, socket, loop, connections
<1>1. CASE UNCHANGED vars \/ \E n \in Nodes : Packet(n)
  BY <1>1 DEF vars, Packet
<1>2. ASSUME NEW c \in Connections, Connection(c) \/ Published(c) \/ LoseClient(c)
      PROVE  ShutdownOK'
  BY <1>2, ThreadFrame
<1>3. CASE RunLoop
  <2>1. CASE StartRun \/ EndRun \/ Receive \/ Lookup \/ Create \/ Handle \/ Release \/ RunJoined
    BY <2>1 DEF StartRun, EndRun, Receive, Lookup, Create, Handle, Release, RunJoined, RunStep
  <2>2. CASE TestRunning
    BY <2>2 DEF TestRunning, RunStep
  <2>3. CASE Add
    BY <2>3 DEF Add, RunStep
  <2>. QED  BY <1>3, <2>1, <2>2, <2>3 DEF RunLoop
<1>4. CASE Worker
  <2>1. CASE WorkerEnd \/ WorkerJoined \/ \E n \in Nodes : RemoveNothing(n)
    BY <2>1 DEF WorkerEnd, WorkerJoined, RemoveNothing, WorkerStep
  <2>2. ASSUME NEW n \in Nodes, Remove(n) PROVE ShutdownOK'
    BY <2>2 DEF Remove, WorkerStep, TypeOK
  <2>. QED  BY <1>4, <2>1, <2>2 DEF Worker
<1>5. CASE Signal
  BY <1>5 DEF Signal, MainStep
<1>6. CASE Main
  <2>1. CASE SetFlags \/ Close
    BY <2>1 DEF SetFlags, Close, MainStep
  <2>2. CASE BeginClear \/ EndClear \/ ClearJoined
    BY <2>2 DEF BeginClear, EndClear, ClearJoined, MainStep
  <2>3. CASE \E n \in Nodes : ClearOne(n)
    BY <2>3 DEF ClearOne, MainStep
  <2>4. CASE Join \/ Down
    BY <2>4 DEF Join, Down, MainStep
  <2>. QED  BY <1>6, <2>1, <2>2, <2>3, <2>4 DEF Main
<1>. QED  BY <1>1, <1>2, <1>3, <1>4, <1>5, <1>6 DEF Next

-----------------------------------------------------------------------------
(* What is pointed to keeps serving. *)

(* The pointers of a step are the old ones, but for those it drops and the *)
(* one to a new connection.                                                *)
LEMMA PointerSteps == IInv /\ [Next]_vars =>
    \/ UNCHANGED <<mEntities, gatewayConnection, nodeId, dying, run>>
    \/ /\ RunLoop /\ UNCHANGED dying
       /\ UNCHANGED <<mEntities, gatewayConnection>>
    \/ Lookup \/ Create \/ Add \/ Release \/ RunJoined
    \/ \E n \in Nodes : Remove(n) \/ ClearOne(n)
    \/ WorkerJoined \/ ClearJoined
<1> SUFFICES ASSUME IInv, [Next]_vars
             PROVE  \/ UNCHANGED <<mEntities, gatewayConnection, nodeId, dying, run>>
                    \/ /\ RunLoop /\ UNCHANGED dying
                       /\ UNCHANGED <<mEntities, gatewayConnection>>
                    \/ Lookup \/ Create \/ Add \/ Release \/ RunJoined
                    \/ \E n \in Nodes : Remove(n) \/ ClearOne(n)
                    \/ WorkerJoined \/ ClearJoined
  OBVIOUS
<1> USE DEF flags, repository, socket, loop, connections
<1>1. CASE UNCHANGED vars \/ \E n \in Nodes : Packet(n)
  BY <1>1 DEF vars, Packet
<1>2. CASE \E c \in Connections : Connection(c) \/ Published(c) \/ LoseClient(c)
  BY <1>2, ThreadFrame
<1>3. CASE RunLoop
  BY <1>3 DEF RunLoop, RunStep, StartRun, TestRunning, EndRun, Receive, Handle
<1>4. CASE Worker
  BY <1>4 DEF Worker, WorkerStep, RemoveNothing, WorkerEnd
<1>5. CASE Signal
  BY <1>5 DEF Signal, MainStep
<1>6. CASE Main
  BY <1>6 DEF Main, MainStep, SetFlags, Close, BeginClear, EndClear, Join, Down
<1>. QED  BY <1>1, <1>2, <1>3, <1>4, <1>5, <1>6 DEF Next

(* Nobody destroys what is pointed to.                                     *)
LEMMA NotDying ==
    ASSUME IInv, NEW c \in Referenced, NEW o \in Owners
    PROVE  dying[o] # c
<1> SUFFICES ASSUME dying[o] = c PROVE FALSE
  OBVIOUS
<1>1. c # None /\ mEntities[node[c]] = None
  BY DEF Referenced, IInv, DyingOK
<1>2. c = gatewayConnection /\ node[c] = nodeId
  BY <1>1 DEF Referenced, IInv, PointersOK
<1>3. run \in {"add", "handle", "release"} /\ run # "ended"
  BY <1>1, <1>2 DEF IInv, ControlOK
<1>4. o # "run" /\ o # "main"
  BY <1>1, <1>3 DEF IInv, ControlOK, ShutdownOK
<1>. QED  BY <1>1, <1>2, <1>3, <1>4 DEF IInv, LoopOK, Owners

(* A step does not begin to destroy what it leaves pointed to.             *)
LEMMA StillNotDying ==
    ASSUME IInv, [Next]_vars, NEW c \in Referenced, c \in Referenced', NEW o \in Owners
    PROVE  dying'[o] # c
<1> USE SnGatewayAssumption DEF flags, repository, socket, loop, connections
<1>0. dying[o] # c /\ c # None
  BY NotDying DEF Referenced
<1>1. CASE UNCHANGED dying
  BY <1>0, <1>1
<1>2. CASE RunJoined \/ WorkerJoined \/ ClearJoined
  BY <1>0, <1>2 DEF RunJoined, WorkerJoined, ClearJoined, Joined, Owners, IInv, TypeOK
<1>3. CASE Release
  <2>1. CASE UNCHANGED dying
    BY <1>0, <2>1
  <2>2. CASE mEntities[nodeId] # gatewayConnection /\ BeginDestroy("run", gatewayConnection)
    <3>1. c = mEntities[node[c]] \/ c = gatewayConnection
      BY DEF Referenced, IInv, PointersOK
    <3>2. c # gatewayConnection
      <4>1. gatewayConnection # None /\ node[gatewayConnection] = nodeId
        BY <1>3 DEF Release, RunStep, IInv, ControlOK, PointersOK
      <4>2. c = gatewayConnection => \A n \in Nodes : mEntities[n] # c
        BY <2>2, <4>1 DEF IInv, PointersOK
      <4>3. gatewayConnection' = None /\ mEntities' = mEntities
        BY <1>3 DEF Release
      <4>. QED  BY <1>0, <4>2, <4>3 DEF Referenced
    <3>. QED  BY <1>0, <2>2, <3>2 DEF BeginDestroy, IInv, TypeOK, Owners
  <2>. QED  BY <1>3, <2>1, <2>2 DEF Release
<1>4. ASSUME NEW n \in Nodes, Remove(n) \/ ClearOne(n) PROVE dying'[o] # c
  <2>1. CASE UNCHANGED dying
    BY <1>0, <2>1
  <2>2. CASE /\ gatewayConnection # mEntities[n]
             /\ gatewayConnection' = gatewayConnection
             /\ mEntities[n] # None
             /\ mEntities' = [mEntities EXCEPT ![n] = None]
             /\ \E p \in Owners : BeginDestroy(p, mEntities[n])
    <3>1. c # mEntities[n]
      <4>1. \A m \in Nodes : mEntities'[m] # mEntities[n]
        BY <2>2 DEF IInv, TypeOK, PointersOK
      <4>. QED  BY <2>2, <4>1 DEF Referenced
    <3>. QED  BY <1>0, <2>2, <3>1 DEF BeginDestroy, IInv, TypeOK
  <2>3. CASE Remove(n)
    BY <2>1, <2>2, <2>3 DEF Remove, WorkerStep, Owners
  <2>4. CASE ClearOne(n)
    <3>1. gatewayConnection = None
      BY <2>4 DEF ClearOne, MainStep, IInv, ControlOK, ShutdownOK
    <3>. QED  BY <2>2, <2>4, <3>1 DEF ClearOne, MainStep, Owners
  <2>. QED  BY <1>4, <2>3, <2>4
<1>5. CASE Lookup \/ Create \/ Add
  BY <1>1, <1>5 DEF Lookup, Create, Add
<1>. QED  BY <1>1, <1>2, <1>3, <1>4, <1>5, PointerSteps

(* Without a stop in its queue a connection serves until it is destroyed.  *)
LEMMA NoStop ==
    ASSUME NEW s \in Seq({"message", "stop"}), \A i \in DOMAIN s : s[i] # "stop"
    PROVE  /\ \A i \in DOMAIN Append(s, "message") : Append(s, "message")[i] # "stop"
           /\ s # <<>> => /\ Head(s) # "stop"
                          /\ \A i \in DOMAIN Tail(s) : Tail(s)[i] # "stop"
  OBVIOUS

LEMMA ServingKept ==
    ASSUME IInv, [Next]_vars, NEW c \in Connections, Serving(c),
           \A o \in Owners : dying'[o] # c
    PROVE  Serving(c)' /\ node'[c] = node[c]
<1> USE DEF flags, repository, socket, loop, connections
<1> TypeOK /\ inbox[c] \in Seq({"message", "stop"})
  BY DEF IInv, TypeOK
<1>0. CASE UNCHANGED <<node, thread, inbox>>
  BY <1>0 DEF Serving, Alive
<1>1. ASSUME NEW o \in Owners, NEW d \in Connections, BeginDestroy(o, d)
      PROVE  Serving(c)' /\ node'[c] = node[c]
  <2>1. d # c
    BY <1>1 DEF BeginDestroy, TypeOK
  <2>. QED  BY <1>1, <2>1 DEF BeginDestroy, Serving, Alive, TypeOK
<1>2. ASSUME NEW o \in Owners, Joined(o)
      PROVE  Serving(c)' /\ node'[c] = node[c]
  <2>1. dying[o] # c
    BY <1>2 DEF Joined, Serving, Alive
  <2>. QED  BY <1>2, <2>1 DEF Joined, Serving, Alive, TypeOK
<1>3. CASE Create
  <2>1. c # created + 1
    BY DEF IInv, AccountedFor, Serving, Alive, TypeOK, Connections
  <2>. QED  BY <1>3, <2>1 DEF Create, Serving, Alive, TypeOK
<1>4. CASE Handle
  <2>1. inbox'[c] \in {inbox[c], Append(inbox[c], "message")} /\ UNCHANGED <<node, thread>>
    BY <1>4 DEF Handle, TypeOK
  <2>. QED  BY <2>1, NoStop DEF Serving, Alive
<1>5. ASSUME NEW d \in Connections, Connection(d) \/ Published(d) \/ LoseClient(d)
      PROVE  Serving(c)' /\ node'[c] = node[c]
  <2>1. UNCHANGED node
    BY <1>5, ThreadFrame
  <2>2. CASE UNCHANGED inbox /\ ~StopThread(d) /\ ~HandleMessage(d)
    <3>1. thread'[c] \in {thread[c], "running"}
      BY <1>5, <2>2 DEF Connection, Published, LoseClient, TypeOK
    <3>. QED  BY <2>1, <2>2, <3>1 DEF Serving, Alive
  <2>3. CASE HandleMessage(d)
    <3>1. thread'[c] \in {thread[c], "running", "publishing"}
      BY <2>3 DEF HandleMessage, TypeOK
    <3>2. \/ inbox'[c] = inbox[c]
          \/ inbox[c] # <<>> /\ inbox'[c] = Tail(inbox[c])
      BY <2>3 DEF HandleMessage, Take, TypeOK
    <3>. QED  BY <2>1, <3>1, <3>2, NoStop DEF Serving, Alive
  <2>4. CASE StopThread(d)
    <3>1. c # d
      BY <2>4, NoStop DEF StopThread, Take, Serving
    <3>. QED  BY <2>1, <2>4, <3>1 DEF StopThread, Take, Serving, Alive, TypeOK
  <2>. QED  BY <1>5, <2>2, <2>3, <2>4 DEF Connection, Published, LoseClient
<1>6. CASE RunLoop
  <2>1. CASE Release
    <3>1. run = "release"
      BY <2>1 DEF Release, RunStep
    <3>2. gatewayConnection \in Connections
      BY <3>1 DEF IInv, ControlOK, TypeOK
    <3>. QED  BY <1>0, <1>1, <2>1, <3>2 DEF Release, Owners
  <2>2. CASE RunJoined
    BY <1>2, <2>2 DEF RunJoined, Owners
  <2>. QED  BY <1>0, <1>3, <1>4, <1>6, <2>1, <2>2
            DEF RunLoop, StartRun, TestRunning, EndRun, Receive, Lookup, Add
<1>7. CASE Worker
  <2>1. ASSUME NEW n \in Nodes, Remove(n) PROVE Serving(c)' /\ node'[c] = node[c]
    <3>1. mEntities[n] \in Connections
      BY <2>1 DEF Remove, TypeOK
    <3>. QED  BY <1>0, <1>1, <2>1, <3>1 DEF Remove, Owners
  <2>2. CASE WorkerJoined
    BY <1>2, <2>2 DEF WorkerJoined, Owners
  <2>. QED  BY <1>0, <1>7, <2>1, <2>2 DEF Worker, WorkerEnd, RemoveNothing
<1>8. CASE Main
  <2>1. ASSUME NEW n \in Nodes, ClearOne(n) PROVE Serving(c)' /\ node'[c] = node[c]
    <3>1. mEntities[n] \in Connections
      BY <2>1 DEF ClearOne, TypeOK
    <3>. QED  BY <1>1, <2>1, <3>1 DEF ClearOne, Owners
  <2>2. CASE ClearJoined
    BY <1>2, <2>2 DEF ClearJoined, Owners
  <2>. QED  BY <1>0, <1>8, <2>1, <2>2 DEF Main, SetFlags, Close, BeginClear, EndClear, Join, Down
<1>. QED  BY <1>0, <1>5, <1>6, <1>7, <1>8 DEF Next, vars, Signal, Packet

LEMMA PointersStep == IInv /\ [Next]_vars => PointersOK'
<1> SUFFICES ASSUME IInv, [Next]_vars PROVE PointersOK'
  OBVIOUS
<1> USE SnGatewayAssumption DEF flags, repository, socket, loop, connections
<1> TypeOK /\ ControlOK /\ PointersOK
  BY DEF IInv
<1>1. ASSUME NEW c \in Referenced, c \in Referenced'
      PROVE  Serving(c)' /\ node'[c] = node[c]
  <2>1. c \in Connections /\ Serving(c)
    BY DEF Referenced, TypeOK, PointersOK
  <2>. QED  BY <1>1, <2>1, StillNotDying, ServingKept
<1>2. ASSUME NEW n \in Nodes, mEntities'[n] # None
      PROVE  Serving(mEntities[n])' /\ node'[mEntities'[n]] = n /\ mEntities'[n] \in Referenced
  <2>1. mEntities'[n] \in Referenced'
    BY <1>2 DEF Referenced
  <2>2. CASE mEntities'[n] = mEntities[n]
    <3>1. mEntities'[n] \in Referenced /\ node[mEntities[n]] = n
      BY <1>2, <2>2 DEF Referenced, PointersOK
    <3>. QED  BY <1>1, <2>1, <2>2, <3>1 DEF Serving, Alive
  <2>3. CASE mEntities'[n] # mEntities[n]
    <3>1. Add /\ n = nodeId /\ mEntities'[n] = gatewayConnection
      BY <1>2, <2>3, PointerSteps
      DEF Lookup, Create, Add, Release, RunJoined, Remove, ClearOne, WorkerJoined, ClearJoined,
          TypeOK
    <3>2. gatewayConnection \in Referenced /\ node[gatewayConnection] = nodeId
      BY <1>2, <3>1 DEF Referenced, PointersOK
    <3>. QED  BY <1>1, <2>1, <3>1, <3>2 DEF Serving, Alive
  <2>. QED  BY <2>2, <2>3
<1>3. ASSUME gatewayConnection' # None
      PROVE  Serving(gatewayConnection)' /\ node'[gatewayConnection'] = nodeId'
  <2>1. gatewayConnection' \in Referenced'
    BY <1>3 DEF Referenced
  <2>2. CASE Create
    <3>1. created + 1 \in Connections /\ inbox[created + 1] = <<>>
      BY <2>2 DEF Create, IInv, AccountedFor, TypeOK, Connections
    <3>. QED  BY <2>2, <3>1 DEF Create, Serving, Alive, TypeOK
  <2>3. CASE Lookup
    <3>1. gatewayConnection' \in Referenced /\ node[gatewayConnection'] = nodeId'
      BY <1>3, <2>3 DEF Lookup, RunStep, ControlOK, Referenced, PointersOK
    <3>. QED  BY <1>1, <2>1, <3>1 DEF Serving, Alive
  <2>4. CASE ~Create /\ ~Lookup
    <3>1. gatewayConnection' = gatewayConnection
      BY <1>3, <2>4, PointerSteps
      DEF Add, Release, RunJoined, Remove, ClearOne, WorkerJoined, ClearJoined, WorkerStep,
          MainStep
    <3>2. nodeId' = nodeId
      <4>1. run # "receive"
        BY <1>3, <3>1 DEF ControlOK
      <4>. QED  BY <4>1, ThreadFrame
                DEF Next, vars, RunLoop, Worker, Main, Signal, Packet, MainStep, WorkerStep,
                    StartRun, TestRunning, EndRun, Receive, Lookup, Create, Add, Handle, Release,
                    RunJoined, RemoveNothing, Remove, WorkerJoined, WorkerEnd, SetFlags, Close,
                    BeginClear, ClearOne, ClearJoined, EndClear, Join, Down, RunStep
    <3>3. gatewayConnection \in Referenced /\ node[gatewayConnection] = nodeId
      BY <1>3, <3>1 DEF Referenced, PointersOK
    <3>. QED  BY <1>1, <2>1, <3>1, <3>2, <3>3 DEF Serving, Alive
  <2>. QED  BY <2>2, <2>3, <2>4
<1>. QED  BY <1>2, <1>3 DEF PointersOK

-----------------------------------------------------------------------------
(* What is being destroyed, and the node the loop is at. *)

(* A connection that is being destroyed was pointed to or destroyed before.*)
LEMMA NewlyDying ==
    ASSUME IInv, [Next]_vars, NEW o \in Owners, dying'[o] # None
    PROVE  /\ dying'[o] \in Connections
           /\ \/ dying'[o] = dying[o]
              \/ /\ o = "run" /\ Release /\ dying'[o] = gatewayConnection
                 /\ mEntities[nodeId] # gatewayConnection
              \/ \E n \in Nodes : /\ (o = "worker" /\ Remove(n)) \/ (o = "main" /\ ClearOne(n))
                                  /\ dying'[o] = mEntities[n] /\ mEntities[n] # None
                                  /\ gatewayConnection # mEntities[n]
                                  /\ mEntities' = [mEntities EXCEPT ![n] = None]
                                  /\ UNCHANGED <<run, nodeId, node>>
<1> USE DEF flags, repository, socket, loop, connections
<1> TypeOK /\ TypeOK'
  BY TypeStep DEF IInv
<1>1. CASE UNCHANGED dying
  BY <1>1 DEF TypeOK
<1>2. CASE RunJoined \/ WorkerJoined \/ ClearJoined
  BY <1>2 DEF RunJoined, WorkerJoined, ClearJoined, Joined, TypeOK, Owners
<1>3. CASE Release
  BY <1>1, <1>3 DEF Release, BeginDestroy, TypeOK, Owners
<1>4. ASSUME NEW n \in Nodes, Remove(n)
      PROVE  \/ dying'[o] = dying[o]
             \/ /\ o = "worker" /\ dying'[o] = mEntities[n] /\ mEntities[n] # None
                /\ gatewayConnection # mEntities[n]
                /\ mEntities' = [mEntities EXCEPT ![n] = None]
                /\ UNCHANGED <<run, nodeId, node>>
  BY <1>4 DEF Remove, WorkerStep, BeginDestroy, TypeOK, Owners
<1>5. ASSUME NEW n \in Nodes, ClearOne(n)
      PROVE  \/ dying'[o] = dying[o]
             \/ /\ o = "main" /\ dying'[o] = mEntities[n] /\ mEntities[n] # None
                /\ gatewayConnection # mEntities[n]
                /\ mEntities' = [mEntities EXCEPT ![n] = None]
                /\ UNCHANGED <<run, nodeId, node>>
  <2>1. gatewayConnection = None
    BY <1>5 DEF ClearOne, MainStep, IInv, ControlOK, ShutdownOK
  <2>. QED  BY <1>5, <2>1 DEF ClearOne, MainStep, BeginDestroy, TypeOK, Owners
<1>6. dying'[o] \in Connections
  BY DEF TypeOK
<1>7. CASE Lookup \/ Create \/ Add
  BY <1>1, <1>7 DEF Lookup, Create, Add
<1>. QED  BY <1>1, <1>2, <1>3, <1>4, <1>5, <1>6, <1>7, PointerSteps

(* A connection keeps its node once it exists, and never stops to exist.   *)
LEMMA NodeKept ==
    ASSUME IInv, [Next]_vars, NEW c \in Connections, thread[c] # "none"
    PROVE  node'[c] = node[c] /\ thread'[c] # "none"
<1> USE DEF flags, repository, socket, loop, connections
<1> TypeOK
  BY DEF IInv
<1>0. CASE UNCHANGED <<node, thread>>
  BY <1>0
<1>1. CASE Create
  <2>1. c # created + 1
    BY DEF IInv, AccountedFor, TypeOK, Connections
  <2>. QED  BY <1>1, <2>1 DEF Create, TypeOK
<1>2. ASSUME NEW o \in Owners, Joined(o) PROVE node'[c] = node[c] /\ thread'[c] # "none"
  BY <1>2 DEF Joined, TypeOK
<1>3. ASSUME NEW d \in Connections, Connection(d) \/ Published(d) \/ LoseClient(d)
      PROVE  node'[c] = node[c] /\ thread'[c] # "none"
  <2>1. UNCHANGED node
    BY <1>3, ThreadFrame
  <2>2. thread'[c] \in {thread[c], "running", "publishing", "ended"}
    BY <1>3 DEF Connection, HandleMessage, StopThread, Published, LoseClient, TypeOK
  <2>. QED  BY <2>1, <2>2
<1>4. CASE RunLoop
  BY <1>0, <1>1, <1>2, <1>4
  DEF RunLoop, StartRun, TestRunning, EndRun, Receive, Lookup, Add, Handle, Release, BeginDestroy,
      RunJoined, Owners
<1>5. CASE Worker
  BY <1>0, <1>2, <1>5
  DEF Worker, RemoveNothing, Remove, BeginDestroy, WorkerJoined, WorkerEnd, Owners
<1>6. CASE Main
  BY <1>0, <1>2, <1>6
  DEF Main, SetFlags, Close, BeginClear, ClearOne, BeginDestroy, ClearJoined, EndClear, Join, Down,
      Owners
<1>. QED  BY <1>0, <1>3, <1>4, <1>5, <1>6 DEF Next, vars, Signal, Packet

(* Only Add puts a connection into the repository.                         *)
LEMMA EntitiesKept ==
    ASSUME IInv, [Next]_vars, NEW n \in Nodes, mEntities[n] = None, mEntities'[n] # None
    PROVE  Add /\ n = nodeId /\ mEntities'[n] = gatewayConnection
<1> USE DEF flags, repository, socket, loop, connections
<1>. QED
  BY PointerSteps
  DEF Lookup, Create, Add, Release, RunJoined, Remove, ClearOne, WorkerJoined, ClearJoined,
      IInv, TypeOK

LEMMA DyingStep == IInv /\ [Next]_vars => DyingOK'
<1> SUFFICES ASSUME IInv, [Next]_vars, NEW o \in Owners, dying'[o] # None
             PROVE  /\ thread'[dying'[o]] # "none"
                    /\ node'[dying'[o]] \in Nodes
                    /\ mEntities'[node'[dying'[o]]] = None
  BY DEF DyingOK
<1> DEFINE c == dying'[o]
<1>0. c \in Connections
  BY NewlyDying
<1>1. thread[c] # "none" /\ node[c] \in Nodes => thread'[c] # "none" /\ node'[c] = node[c]
  BY <1>0, NodeKept
<1>2. CASE dying'[o] = dying[o]
  <2>1. thread[c] # "none" /\ node[c] \in Nodes /\ mEntities[node[c]] = None
    BY <1>2 DEF IInv, DyingOK
  <2>2. run = "joining" \/ lock # None
    BY <1>2, SnGatewayAssumption DEF IInv, ControlOK, Owners
  <2>3. ~Add
    BY <2>2 DEF Add, RunStep
  <2>. QED  BY <1>1, <2>1, <2>3, EntitiesKept
<1>3. CASE Release /\ c = gatewayConnection /\ mEntities[nodeId] # gatewayConnection
  <2>1. Serving(c) /\ node[c] = nodeId /\ nodeId \in Nodes /\ run = "release"
    BY <1>3 DEF Release, RunStep, IInv, ControlOK, PointersOK
  <2>2. mEntities[nodeId] = None /\ mEntities' = mEntities
    BY <1>3, <2>1 DEF IInv, LoopOK, Release, repository
  <2>. QED  BY <1>1, <2>1, <2>2 DEF Serving, Alive
<1>4. ASSUME NEW n \in Nodes, c = mEntities[n], mEntities[n] # None,
             mEntities' = [mEntities EXCEPT ![n] = None]
      PROVE  thread'[c] # "none" /\ node'[c] \in Nodes /\ mEntities'[node'[c]] = None
  <2>1. Serving(c) /\ node[c] = n
    BY <1>4 DEF IInv, PointersOK
  <2>. QED  BY <1>1, <1>4, <2>1 DEF Serving, Alive, IInv, TypeOK
<1>. QED  BY <1>2, <1>3, <1>4, NewlyDying

LEMMA LoopStep == IInv /\ [Next]_vars => LoopOK'
<1> SUFFICES ASSUME IInv, [Next]_vars PROVE LoopOK'
  OBVIOUS
<1> USE SnGatewayAssumption DEF flags, repository, socket, loop, connections
<1> TypeOK /\ ControlOK /\ ControlOK' /\ LoopOK
  BY ControlStep DEF IInv
<1> DEFINE AtNode == run \in {"create", "add", "handle", "release", "joining"}
(* The loop comes to a node by a lookup and stays with it.                 *)
<1>1. AtNode' => Lookup \/ (AtNode /\ nodeId' = nodeId)
  <2>1. CASE RunLoop
    BY <2>1
    DEF RunLoop, RunStep, StartRun, TestRunning, EndRun, Receive, Lookup, Create, Add, Handle,
        Release, RunJoined
  <2>2. CASE ~RunLoop
    <3>1. UNCHANGED <<run, nodeId>>
      BY <2>2, ThreadFrame
      DEF Next, vars, Worker, WorkerStep, RemoveNothing, Remove, WorkerJoined, WorkerEnd, Main,
          Signal, MainStep, SetFlags, Close, BeginClear, ClearOne, ClearJoined, EndClear, Join, Down,
          Packet
    <3>. QED  BY <3>1
  <2>. QED  BY <2>1, <2>2
<1>2. AtNode' => nodeId \in Nodes /\ nodeId' = nodeId
  BY <1>1 DEF Lookup, RunStep, ControlOK
<1>3. ASSUME run' \in {"create", "add", "joining"} PROVE mEntities'[nodeId'] = None
  <2>1. mEntities[nodeId] = None
    <3>1. CASE run \in {"create", "add", "joining"}
      BY <3>1 DEF LoopOK
    <3>2. CASE Lookup
      BY <1>3, <3>2 DEF Lookup, RunStep
    <3>3. CASE run \in {"handle", "release"}
      <4>1. Release
        BY <1>3, <3>3, ThreadFrame
        DEF Next, vars, RunLoop, RunStep, StartRun, TestRunning, EndRun, Receive, Lookup, Create,
            Add, Handle, RunJoined, Worker, WorkerStep, RemoveNothing, Remove, WorkerJoined,
            WorkerEnd, Main, Signal, MainStep, SetFlags, Close, BeginClear, ClearOne, ClearJoined,
            EndClear, Join, Down, Packet
      <4>. QED  BY <1>3, <4>1 DEF Release, RunStep, LoopOK
    <3>. QED  BY <1>1, <1>3, <3>1, <3>2, <3>3
  <2>2. ~Add
    BY <1>3 DEF Add, RunStep
  <2>. QED  BY <1>2, <1>3, <2>1, <2>2, EntitiesKept
<1>4. ASSUME run' \in {"handle", "release"}
      PROVE  mEntities'[nodeId'] \in {None, gatewayConnection'}
  <2>1. CASE Lookup
    BY <2>1 DEF Lookup
  <2>2. CASE Add
    BY <1>2, <1>4, <2>2 DEF Add, RunStep, LoopOK, IInv, TypeOK
  <2>3. CASE ~Lookup /\ ~Add
    <3>1. run \in {"handle", "release"} /\ gatewayConnection' = gatewayConnection
      BY <1>4, <2>3, ThreadFrame
      DEF Next, vars, RunLoop, RunStep, StartRun, TestRunning, EndRun, Receive, Create,
          Handle, Release, RunJoined, Worker, WorkerStep, RemoveNothing, Remove, WorkerJoined,
          WorkerEnd, Main, Signal, MainStep, SetFlags, Close, BeginClear, ClearOne, ClearJoined,
          EndClear, Join, Down, Packet
    <3>2. mEntities'[nodeId] \in {None, mEntities[nodeId]}
      BY <1>2, <1>4, <2>3, PointerSteps
      DEF Create, Release, RunJoined, Remove, ClearOne, WorkerJoined, ClearJoined, IInv, TypeOK
    <3>. QED  BY <1>2, <1>4, <3>1, <3>2 DEF LoopOK
  <2>. QED  BY <2>1, <2>2, <2>3
<1>5. ASSUME run' = "joining" PROVE node'[dying'["run"]] = nodeId'
  <2>1. dying'["run"] # None /\ dying'["run"] \in Connections
    BY <1>5, NewlyDying DEF ControlOK, Owners
  <2>2. CASE dying'["run"] = dying["run"]
    BY <1>2, <1>5, <2>1, <2>2, NodeKept DEF ControlOK, LoopOK, IInv, DyingOK, Owners
  <2>3. CASE Release /\ dying'["run"] = gatewayConnection
    BY <1>2, <1>5, <2>1, <2>3, NodeKept DEF IInv, PointersOK, Serving, Alive
  <2>. QED  BY <2>1, <2>2, <2>3, NewlyDying DEF Owners
<1>6. ASSUME AtNode', NEW o \in {"worker", "main"}, dying'[o] # None
      PROVE  node'[dying'[o]] # nodeId'
  <2>1. CASE dying'[o] = dying[o]
    <3>1. ~Lookup
      BY <1>6, <2>1 DEF Lookup, ControlOK
    <3>2. node[dying[o]] # nodeId
      BY <1>1, <1>6, <2>1, <3>1 DEF LoopOK
    <3>. QED  BY <1>2, <1>6, <2>1, <3>2, NodeKept, NewlyDying DEF IInv, DyingOK, Owners
  <2>2. ASSUME NEW n \in Nodes, dying'[o] = mEntities[n], mEntities[n] # None,
               gatewayConnection # mEntities[n], UNCHANGED <<run, nodeId, node>>
        PROVE  node'[dying'[o]] # nodeId'
    <3>1. mEntities[nodeId] \in {None, gatewayConnection}
      BY <1>6, <2>2 DEF LoopOK
    <3>. QED  BY <2>2, <3>1 DEF IInv, PointersOK
  <2>. QED  BY <1>6, <2>1, <2>2, NewlyDying DEF Owners
<1>. QED  BY <1>3, <1>4, <1>5, <1>6 DEF LoopOK

-----------------------------------------------------------------------------
(* No live connection is lost. *)

LEMMA AccountedStep == IInv /\ [Next]_vars => AccountedFor'
<1> SUFFICES ASSUME IInv, [Next]_vars, NEW c \in Connections
             PROVE  /\ c > created' => thread'[c] = "none" /\ inbox'[c] = <<>>
                    /\ Alive(c)' => /\ node'[c] \in Nodes
                                    /\ \/ mEntities'[node'[c]] = c
                                       \/ gatewayConnection' = c
                                       \/ \E o \in Owners : dying'[o] = c
  BY DEF AccountedFor, Alive
<1> USE SnGatewayAssumption DEF flags, repository, socket, loop, connections
<1> TypeOK /\ ControlOK /\ PointersOK /\ AccountedFor /\ c # None
  BY DEF IInv, Connections
<1>1. ASSUME c > created' PROVE thread'[c] = "none" /\ inbox'[c] = <<>>
  <2>1. c > created
    <3>1. created' \in {created, created + 1}
      BY ThreadFrame
      DEF Next, vars, RunLoop, RunStep, StartRun, TestRunning, EndRun, Receive, Lookup, Create, Add,
          Handle, Release, RunJoined, Worker, WorkerStep, RemoveNothing, Remove, WorkerJoined,
          WorkerEnd, Main, Signal, MainStep, SetFlags, Close, BeginClear, ClearOne, ClearJoined,
          EndClear, Join, Down, Packet, BeginDestroy, Joined
    <3>. QED  BY <1>1, <3>1 DEF TypeOK, Connections
  <2>2. thread[c] = "none" /\ inbox[c] = <<>>
    BY <2>1 DEF AccountedFor
  <2>3. ASSUME NEW o \in Owners, NEW d \in Connections, Serving(d), BeginDestroy(o, d)
        PROVE  thread'[c] = "none" /\ inbox'[c] = <<>>
    BY <2>2, <2>3 DEF BeginDestroy, Serving, Alive, TypeOK
  <2>4. ASSUME NEW o \in Owners, Joined(o) PROVE thread'[c] = "none" /\ inbox'[c] = <<>>
    BY <2>2, <2>4 DEF Joined, TypeOK
  <2>5. ASSUME NEW d \in Connections, Connection(d) \/ Published(d) \/ LoseClient(d)
        PROVE  thread'[c] = "none" /\ inbox'[c] = <<>>
    <3>1. d # c
      BY <2>2, <2>5 DEF Connection, HandleMessage, StopThread, Published, LoseClient, ThreadStep
    <3>. QED  BY <2>2, <2>5, <3>1
              DEF Connection, HandleMessage, StopThread, Published, LoseClient, Take, TypeOK
  <2>6. CASE Create
    BY <1>1, <2>2, <2>6 DEF Create, TypeOK
  <2>7. CASE Handle \/ Release
    <3>1. gatewayConnection \in Connections /\ Serving(gatewayConnection)
      BY <2>7 DEF Handle, Release, RunStep, ControlOK, PointersOK, TypeOK
    <3>. QED  BY <2>2, <2>3, <2>7, <3>1 DEF Handle, Release, Serving, Alive, Owners, TypeOK
  <2>8. ASSUME NEW n \in Nodes, Remove(n) \/ ClearOne(n)
        PROVE  thread'[c] = "none" /\ inbox'[c] = <<>>
    <3>1. mEntities[n] \in Connections /\ Serving(mEntities[n])
      BY <2>8 DEF Remove, ClearOne, PointersOK, TypeOK
    <3>. QED  BY <2>2, <2>3, <2>8, <3>1 DEF Remove, ClearOne, Owners
  <2>9. CASE RunJoined \/ WorkerJoined \/ ClearJoined
    BY <2>4, <2>9 DEF RunJoined, WorkerJoined, ClearJoined, Owners
  <2>. QED
    BY <2>2, <2>5, <2>6, <2>7, <2>8, <2>9
    DEF Next, vars, RunLoop, StartRun, TestRunning, EndRun, Receive, Lookup, Add, Worker,
        RemoveNothing, WorkerEnd, Main, Signal, SetFlags, Close, BeginClear, EndClear, Join, Down,
        Packet
<1>2. ASSUME Alive(c)', ~Create PROVE Alive(c)
  <2>1. ASSUME NEW d \in Connections, Connection(d) \/ Published(d) \/ LoseClient(d)
        PROVE  Alive(c)
    <3>1. thread'[c] = thread[c] \/ c = d
      BY <2>1 DEF Connection, HandleMessage, StopThread, Published, LoseClient, TypeOK
    <3>2. Alive(d)
      BY <2>1 DEF Connection, HandleMessage, StopThread, Published, LoseClient, ThreadStep, Alive
    <3>. QED  BY <1>2, <3>1, <3>2 DEF Alive
  <2>2. ASSUME NEW o \in Owners, Joined(o) PROVE Alive(c)
    BY <1>2, <2>2 DEF Joined, Alive, TypeOK
  <2>3. CASE UNCHANGED thread
    BY <1>2, <2>3 DEF Alive
  <2>. QED
    BY <1>2, <2>1, <2>2, <2>3
    DEF Next, vars, RunLoop, StartRun, TestRunning, EndRun, Receive, Lookup, Add, Handle, Release,
        RunJoined, Worker, RemoveNothing, Remove, WorkerJoined, WorkerEnd, Main, Signal, SetFlags,
        Close, BeginClear, ClearOne, ClearJoined, EndClear, Join, Down, Packet, BeginDestroy, Owners
<1>3. ASSUME Alive(c)', Create, c = created + 1
      PROVE  node'[c] \in Nodes /\ gatewayConnection' = c
  BY <1>3 DEF Create, RunStep, ControlOK, TypeOK
<1>4. ASSUME Alive(c)', ~Create \/ c # created + 1
      PROVE  /\ node'[c] = node[c] /\ node[c] \in Nodes
             /\ \/ mEntities'[node[c]] = c
                \/ gatewayConnection' = c
                \/ \E o \in Owners : dying'[o] = c
  <2>1. Alive(c)
    BY <1>2, <1>4 DEF Create, Alive, TypeOK
  <2>2. node'[c] = node[c] /\ node[c] \in Nodes
    BY <2>1, NodeKept DEF Alive, AccountedFor
  <2>3. CASE mEntities[node[c]] = c
    <3>1. mEntities'[node[c]] = c \/ \E n \in Nodes : Remove(n) \/ ClearOne(n)
      BY <2>2, <2>3, PointerSteps
      DEF Lookup, Create, Add, Release, RunJoined, WorkerJoined, ClearJoined, TypeOK
    <3>2. ASSUME NEW n \in Nodes, Remove(n) \/ ClearOne(n), mEntities'[node[c]] # c
          PROVE  gatewayConnection' = c \/ \E o \in Owners : dying'[o] = c
      <4>1. n = node[c]
        BY <2>2, <2>3, <3>2 DEF Remove, ClearOne, TypeOK
      <4>. QED  BY <2>3, <3>2, <4>1
                DEF Remove, ClearOne, WorkerStep, BeginDestroy, TypeOK, Owners
    <3>. QED  BY <2>2, <3>1, <3>2
  <2>4. CASE gatewayConnection = c
    <3>1. run \in {"add", "handle", "release"} /\ node[c] = nodeId /\ nodeId \in Nodes
      BY <2>4 DEF ControlOK, PointersOK
    <3>2. CASE Release
      BY <2>4, <3>1, <3>2 DEF Release, RunStep, BeginDestroy, TypeOK, Owners
    <3>3. ASSUME ~Release PROVE gatewayConnection' = gatewayConnection
      BY <3>1, <3>3, PointerSteps
      DEF Lookup, Create, Add, RunStep, RunJoined, Remove, ClearOne, WorkerStep, MainStep,
          WorkerJoined, ClearJoined
    <3>. QED  BY <2>2, <2>4, <3>2, <3>3
  <2>5. ASSUME NEW o \in Owners, dying[o] = c PROVE dying'[o] = c
    <3>1. ASSUME NEW p \in Owners, Joined(p) PROVE dying'[o] = c
      BY <2>1, <2>5, <3>1 DEF Joined, Alive, TypeOK
    <3>2. ASSUME NEW p \in Owners, NEW d, BeginDestroy(p, d), dying[p] = None
          PROVE  dying'[o] = c
      BY <2>5, <3>2 DEF BeginDestroy, TypeOK
    <3>3. CASE Release
      BY <2>5, <3>2, <3>3 DEF Release, RunStep, ControlOK, Owners
    <3>4. ASSUME NEW n \in Nodes, Remove(n) \/ ClearOne(n) PROVE dying'[o] = c
      BY <2>5, <3>2, <3>4 DEF Remove, ClearOne, WorkerStep, MainStep, ControlOK, Owners
    <3>. QED  BY <2>5, <3>1, <3>3, <3>4, PointerSteps
              DEF Lookup, Create, Add, RunJoined, WorkerJoined, ClearJoined, Owners
  <2>. QED  BY <2>1, <2>2, <2>3, <2>4, <2>5 DEF AccountedFor
<1>. QED  BY <1>1, <1>3, <1>4

-----------------------------------------------------------------------------
(* Theorems. *)

LEMMA Invariance == Spec => []IInv
<1>1. IInv /\ [Next]_vars => IInv'
  BY TypeStep, ControlStep, ShutdownStep, PointersStep, LoopStep, DyingStep, AccountedStep
  DEF IInv
<1>. QED  BY <1>1, InitImplies, PTL DEF Spec

(* Every variable keeps its type.                                          *)
THEOREM TypeCorrect == Spec => []TypeOK
<1>1. IInv => TypeOK
  BY DEF IInv
<1>. QED  BY <1>1, Invariance, PTL

(* However many nodes send and however many removals are asked for, in     *)
(* whatever order the loop, the worker and stop() act, no node is served   *)
(* by two connection threads.                                              *)
THEOREM NodesHaveOneThread == Spec => []OneThreadPerNode
  BY Invariance, OneThreadImplied, PTL

(* The loop never hands a message to a connection that was told to stop.   *)
THEOREM ReferencedIsAlwaysAlive == Spec => []ReferencedIsAlive
  BY Invariance, ReferencedImplied, PTL

(* A gateway that is down has joined every thread it started.              *)
THEOREM DownAlwaysMeansDown == Spec => []DownMeansDown
  BY Invariance, DownImplied, PTL

=============================================================================
