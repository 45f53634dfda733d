-------------------------- MODULE RfNetworkProofs --------------------------
(***************************************************************************)
(* For every set of nodes, every destination and every number of copies,   *)
(* packets stay on the path of the tree.                                   *)
(***************************************************************************)
EXTENDS RfNetwork, TLAPS

-----------------------------------------------------------------------------
(* The tree of the ids. *)

(* The parent of a node is an id one level higher: Parent and the limits   *)
(* of RfNode's levels fit.                                                 *)
LEMMA ParentLevel ==
    ASSUME NEW x \in Ids, x # 0
    PROVE  Parent(x) \in Ids /\ Level(Parent(x)) = Level(x) - 1
BY DEF Ids, Parent, Level

(* Levels are 0 to 4, and only the top node is at level 0.                 *)
LEMMA LevelType ==
    ASSUME NEW x \in Nat
    PROVE  Level(x) \in 0 .. 4 /\ (Level(x) = 0 <=> x = 0)
BY DEF Level

(* One more level up in IdAtLevel is one more parent.                      *)
LEMMA OneLevelUp ==
    ASSUME NEW x \in Ids, NEW l \in 1 .. Level(x)
    PROVE  IdAtLevel(x, l - 1) = Parent(IdAtLevel(x, l))
<1>1. Level(x) \in 0 .. 4
    BY LevelType DEF Ids
<1>. DEFINE up == Level(x) - l
<1>2. up \in 0 .. 3 /\ Level(x) - (l - 1) = up + 1
    BY <1>1
<1>3. CASE up = 0
    BY <1>2, <1>3 DEF IdAtLevel
<1>4. CASE up = 1
    BY <1>2, <1>4 DEF IdAtLevel
<1>5. CASE up = 2
    BY <1>2, <1>5 DEF IdAtLevel
<1>6. CASE up = 3
    BY <1>2, <1>6 DEF IdAtLevel
<1>. QED
    BY <1>2, <1>3, <1>4, <1>5, <1>6

(* An ancestor at a level is an id of that level.                          *)
LEMMA IdAtLevelType ==
    ASSUME NEW x \in Ids, NEW l \in 0 .. Level(x)
    PROVE  IdAtLevel(x, l) \in Ids /\ Level(IdAtLevel(x, l)) = l
<1>1. Level(x) \in 0 .. 4 /\ (Level(x) = 0 <=> x = 0)
    BY LevelType DEF Ids
<1>. DEFINE a == Parent(x)  b == Parent(a)  c == Parent(b)
<1>2. Level(x) >= 1 => a \in Ids /\ Level(a) = Level(x) - 1
    BY <1>1, ParentLevel
<1>3. Level(x) >= 2 => b \in Ids /\ Level(b) = Level(x) - 2
    <2>. SUFFICES ASSUME Level(x) >= 2 PROVE b \in Ids /\ Level(b) = Level(x) - 2
        OBVIOUS
    <2>1. a \in Ids /\ a # 0 /\ Level(a) = Level(x) - 1
        BY <1>1, <1>2, LevelType DEF Ids
    <2>. QED
        BY <1>1, <2>1, ParentLevel
<1>4. Level(x) >= 3 => c \in Ids /\ Level(c) = Level(x) - 3
    <2>. SUFFICES ASSUME Level(x) >= 3 PROVE c \in Ids /\ Level(c) = Level(x) - 3
        OBVIOUS
    <2>1. b \in Ids /\ b # 0 /\ Level(b) = Level(x) - 2
        BY <1>1, <1>3, LevelType DEF Ids
    <2>. QED
        BY <1>1, <2>1, ParentLevel
<1>5. Level(x) >= 4 => Parent(c) \in Ids /\ Level(Parent(c)) = Level(x) - 4
    <2>. SUFFICES ASSUME Level(x) >= 4 PROVE Parent(c) \in Ids /\ Level(Parent(c)) = Level(x) - 4
        OBVIOUS
    <2>1. c \in Ids /\ c # 0 /\ Level(c) = Level(x) - 3
        BY <1>1, <1>4, LevelType DEF Ids
    <2>. QED
        BY <1>1, <2>1, ParentLevel
<1>. HIDE DEF a, b, c
<1>6. CASE Level(x) - l = 0
    BY <1>1, <1>6 DEF IdAtLevel
<1>7. CASE Level(x) - l = 1
    BY <1>1, <1>2, <1>7 DEF IdAtLevel, a
<1>8. CASE Level(x) - l = 2
    BY <1>1, <1>3, <1>8 DEF IdAtLevel, a, b
<1>9. CASE Level(x) - l = 3
    BY <1>1, <1>4, <1>9 DEF IdAtLevel, a, b, c
<1>10. CASE Level(x) - l = 4
    BY <1>1, <1>5, <1>10 DEF IdAtLevel, a, b, c
<1>. QED
    BY <1>1, <1>6, <1>7, <1>8, <1>9, <1>10

(* What is above an id is an id.                                           *)
LEMMA AboveIsId ==
    ASSUME NEW y \in Nat, NEW x \in Ids, Above(y, x)
    PROVE  y \in Ids
<1>1. Level(y) \in 0 .. Level(x) /\ IdAtLevel(x, Level(y)) = y
    BY LevelType DEF Above, Ids
<1>. QED
    BY <1>1, IdAtLevelType

(* Every id is above itself, and the top node above all.                   *)
LEMMA AboveSelf ==
    ASSUME NEW x \in Ids
    PROVE  Above(x, x) /\ Above(0, x)
<1>1. Level(x) \in 0 .. 4 /\ Level(0) = 0
    BY LevelType DEF Ids
<1>2. Above(x, x)
    BY <1>1 DEF Above, IdAtLevel
<1>3. IdAtLevel(x, 0) = 0
    <2>1. IdAtLevel(x, 0) \in Ids /\ Level(IdAtLevel(x, 0)) = 0
        BY <1>1, IdAtLevelType
    <2>. QED
        BY <2>1, LevelType DEF Ids
<1>. QED
    BY <1>1, <1>2, <1>3 DEF Above

(* At one level only one node is above an id.                              *)
LEMMA OneAbove ==
    ASSUME NEW a, NEW b, NEW x, Above(a, x), Above(b, x), Level(a) = Level(b)
    PROVE  a = b
BY DEF Above

(* The parent of a node above an id is above it, too.                      *)
LEMMA ParentAbove ==
    ASSUME NEW a \in Ids, a # 0, NEW x \in Ids, Above(a, x)
    PROVE  Above(Parent(a), x)
<1>1. Level(a) \in 1 .. Level(x) /\ IdAtLevel(x, Level(a)) = a
    BY LevelType DEF Above, Ids
<1>2. Level(Parent(a)) = Level(a) - 1
    BY ParentLevel
<1>3. Level(x) \in 0 .. 4
    BY LevelType DEF Ids
<1>4. IdAtLevel(x, Level(a) - 1) = Parent(a)
    BY <1>1, OneLevelUp
<1>. QED
    BY <1>1, <1>2, <1>3, <1>4 DEF Above

(* The children of a node are the ids whose parent it is.                  *)
LEMMA Children ==
    ASSUME NEW n \in Ids, NEW k \in 1 .. 5
    PROVE  Parent(5 * n + k) = n /\ (5 * n + k \in Ids => Level(5 * n + k) = Level(n) + 1)
BY DEF Ids, Parent, Level

(* calculateRoutingPipe down the tree: the chosen child is above the       *)
(* destination.                                                            *)
LEMMA RoutingDown ==
    ASSUME NEW n \in Ids, NEW x \in Ids, Above(n, x), n # x
    PROVE  /\ RoutingPipe(n, x) \in 1 .. 5
           /\ 5 * n + RoutingPipe(n, x) \in Ids
           /\ Above(5 * n + RoutingPipe(n, x), x)
<1>1. Level(n) \in 0 .. 4 /\ Level(x) \in 0 .. 4
    BY LevelType DEF Ids
<1>2. Level(n) < Level(x) /\ IdAtLevel(x, Level(n)) = n
    BY <1>1, AboveSelf, OneAbove DEF Above
<1>. DEFINE c == IdAtLevel(x, Level(n) + 1)
<1>3. c \in Ids /\ Level(c) = Level(n) + 1
    BY <1>1, <1>2, IdAtLevelType
<1>4. Parent(c) = n
    BY <1>1, <1>2, OneLevelUp
<1>5. RoutingPipe(n, x) = IF c % 5 = 0 THEN 5 ELSE c % 5
    BY <1>1, <1>2 DEF RoutingPipe
<1>6. Above(c, x)
    BY <1>1, <1>2, <1>3 DEF Above
<1>7. c # 0
    BY <1>1, <1>3, LevelType
<1>. HIDE DEF c
<1>8. RoutingPipe(n, x) \in 1 .. 5 /\ 5 * n + RoutingPipe(n, x) = c
    BY <1>3, <1>4, <1>5, <1>7 DEF Ids, Parent
<1>. QED
    BY <1>3, <1>6, <1>8

(* calculateRoutingPipe: a node that is not above the destination sends up. *)
LEMMA RoutingUp ==
    ASSUME NEW n \in Ids, NEW x \in Ids, ~Above(n, x)
    PROVE  RoutingPipe(n, x) = 0 /\ n # 0
<1>1. Level(n) \in 0 .. 4 /\ Level(x) \in 0 .. 4
    BY LevelType DEF Ids
<1>2. n # 0
    BY AboveSelf
<1>. QED
    BY <1>1, <1>2 DEF RoutingPipe, Above

(* Two nodes listen on an address: the one whose id it ends with, and its  *)
(* parent; the 8 bits of a leaf's children do not wrap, as leaves disable  *)
(* their pipes.                                                            *)
LEMMA AddressOfTwo ==
    ASSUME NEW m \in Ids, NEW p \in Pipes, NEW c \in Ids,
           Enabled(m, p), PipeAddress(m, p) = c
    PROVE  m = c \/ (c # 0 /\ m = Parent(c))
<1>1. CASE p = 0
    BY <1>1 DEF PipeAddress
<1>2. CASE p # 0
    <2>1. m \in 0 .. 50 /\ p \in 1 .. 5
        BY <1>2 DEF Enabled, IsLeafNode, Ids, Pipes
    <2>2. (m * 5) % 256 = 5 * m
        BY <2>1
    <2>3. (5 * m + p) % 256 = 5 * m + p
        BY <2>1
    <2>4. c = 5 * m + p
        BY <1>2, <2>2, <2>3 DEF PipeAddress
    <2>. QED
        BY <2>1, <2>4, Children DEF Ids
<1>. QED
    BY <1>1, <1>2

(* A node that is not the destination writes to an address that no other   *)
(* node hears but the next one on the path.                                *)
LEMMA NextOnPath ==
    ASSUME NEW n \in Ids, NEW s \in Ids, NEW d \in Ids, OnPath(n, s, d), n # d,
           NEW m \in Ids, m # n, NEW p \in Pipes, Enabled(m, p),
           PipeAddress(m, p) = PipeAddress(n, RoutingPipe(n, d))
    PROVE  OnPath(m, s, d)
<1>1. CASE Above(n, d)
    <2>. DEFINE k == RoutingPipe(n, d)  c == 5 * n + k
    <2>1. k \in 1 .. 5 /\ c \in Ids /\ Above(c, d)
        BY <1>1, RoutingDown
    <2>2. Parent(c) = n /\ Level(c) = Level(n) + 1 /\ c # 0
        BY <2>1, Children, LevelType DEF Ids
    <2>. HIDE DEF k
    <2>3. PipeAddress(n, k) = c
        BY <2>1 DEF PipeAddress, Ids
    <2>4. m = c
        BY <2>1, <2>2, <2>3, AddressOfTwo DEF k
    <2>5. ~Above(c, s)
        <3>. SUFFICES ASSUME Above(c, s) PROVE FALSE
            OBVIOUS
        <3>1. Above(n, s)
            BY <2>1, <2>2, ParentAbove
        <3>. QED
            BY <1>1, <2>1, <3>1 DEF OnPath
    <2>. QED
        BY <2>1, <2>4, <2>5 DEF OnPath
<1>2. CASE ~Above(n, d)
    <2>1. RoutingPipe(n, d) = 0 /\ n # 0
        BY <1>2, RoutingUp
    <2>2. m = Parent(n)
        BY <2>1, AddressOfTwo DEF PipeAddress
    <2>3. Above(n, s)
        BY <1>2 DEF OnPath
    <2>4. Above(m, s)
        BY <2>1, <2>2, <2>3, ParentAbove
    <2>5. ASSUME NEW k \in 1 .. 5, Above(5 * m + k, s), Above(5 * m + k, d)
          PROVE  FALSE
        <3>1. 5 * m + k \in Ids
            BY <2>5, AboveIsId DEF Ids
        <3>2. Level(5 * m + k) = Level(m) + 1
            BY <3>1, Children
        <3>3. Level(n) = Level(m) + 1
            <4>1. Level(m) = Level(n) - 1
                BY <2>1, <2>2, ParentLevel
            <4>2. Level(n) \in 0 .. 4
                BY LevelType DEF Ids
            <4>. QED
                BY <4>1, <4>2
        <3>4. 5 * m + k = n
            BY <2>3, <2>5, <3>2, <3>3, OneAbove
        <3>. QED
            BY <1>2, <2>5, <3>4
    <2>. QED
        BY <2>4, <2>5 DEF OnPath
<1>. QED
    BY <1>1, <1>2

(* The path begins at the source.                                          *)
LEMMA SourceOnPath ==
    ASSUME NEW s \in Ids, NEW d \in Ids
    PROVE  OnPath(s, s, d)
<1>1. Above(s, s)
    BY AboveSelf
<1>2. ASSUME NEW k \in 1 .. 5, Above(5 * s + k, s)
      PROVE  FALSE
    <2>1. 5 * s + k \in Ids
        BY <1>2, AboveIsId DEF Ids
    <2>2. Level(5 * s + k) = Level(s) + 1
        BY <2>1, Children
    <2>. QED
        BY <1>2, <2>2, LevelType DEF Above, Ids
<1>. QED
    BY <1>1, <1>2 DEF OnPath
-----------------------------------------------------------------------------
(* The inductive invariant: what the packets in the queues and in the      *)
(* sends have in common.                                                   *)

QueuesOnPath ==
    \A n \in Nodes : \A i \in 1 .. Len(tasks[n]) :
        tasks[n][i].op = "receive" =>
            OnPath(n, tasks[n][i].packet.source, tasks[n][i].packet.destination)

SendsOnPath ==
    \A n \in Nodes : sending[n] # None =>
        /\ OnPath(n, sending[n].source, sending[n].destination)
        /\ n # sending[n].destination

IInv == TypeOK /\ QueuesOnPath /\ SendsOnPath

(* An element more at the end of a sequence.                               *)
LEMMA AppendOne ==
    ASSUME NEW S, NEW q \in Seq(S), NEW t \in S
    PROVE  /\ Append(q, t) \in Seq(S)
           /\ Len(Append(q, t)) = Len(q) + 1
           /\ Append(q, t)[Len(q) + 1] = t
           /\ \A i \in 1 .. Len(q) : Append(q, t)[i] = q[i]
OBVIOUS

LEMMA InitIInv == Init => IInv
BY RfNetworkAssumption DEF Init, IInv, TypeOK, QueuesOnPath, SendsOnPath, Ids, MaxWrites

(* A call of send queues a task without a packet of another node.          *)
LEMMA SendKeeps ==
    ASSUME IInv, NEW n \in Nodes, NEW d, Send(n, d)
    PROVE  IInv'
<1>1. [op |-> "send", destination |-> d] \in Tasks
    BY RfNetworkAssumption DEF Send, Tasks
<1>2. TypeOK'
    <2>1. tasks' \in [Nodes -> Seq(Tasks)]
        BY <1>1 DEF IInv, TypeOK, Send
    <2>2. calls' \in [Nodes -> 0 .. MaxSends]
        BY RfNetworkAssumption DEF IInv, TypeOK, Send
    <2>. QED
        BY <2>1, <2>2 DEF IInv, TypeOK, Send
<1>3. QueuesOnPath'
    <2>. SUFFICES ASSUME NEW m \in Nodes, NEW i \in 1 .. Len(tasks'[m]), tasks'[m][i].op = "receive"
                  PROVE  OnPath(m, tasks'[m][i].packet.source, tasks'[m][i].packet.destination)
        BY DEF QueuesOnPath
    <2>1. i \in 1 .. Len(tasks[m]) /\ tasks'[m][i] = tasks[m][i]
        BY DEF IInv, TypeOK, Send
    <2>. QED
        BY <2>1 DEF IInv, QueuesOnPath
<1>4. SendsOnPath'
    BY DEF IInv, SendsOnPath, Send
<1>. QED
    BY <1>2, <1>3, <1>4 DEF IInv

LEMMA StopListeningKeeps ==
    ASSUME IInv, NEW n \in Nodes, StopListening(n)
    PROVE  IInv'
BY DEF IInv, TypeOK, QueuesOnPath, SendsOnPath, StopListening

(* Taking a task keeps the others.                                         *)
LEMMA TakeTaskKeeps ==
    ASSUME TypeOK, QueuesOnPath, NEW n \in Nodes, NEW op, TakeTask(n, op)
    PROVE  tasks' \in [Nodes -> Seq(Tasks)] /\ QueuesOnPath' /\ Head(tasks[n]) \in Tasks
<1>1. tasks[n] \in Seq(Tasks) /\ tasks[n] # <<>>
    BY DEF TypeOK, TakeTask
<1>2. Tail(tasks[n]) \in Seq(Tasks) /\ Head(tasks[n]) \in Tasks
    BY <1>1
<1>3. tasks' \in [Nodes -> Seq(Tasks)]
    BY <1>2 DEF TypeOK, TakeTask
<1>4. QueuesOnPath'
    <2>. SUFFICES ASSUME NEW m \in Nodes, NEW i \in 1 .. Len(tasks'[m]), tasks'[m][i].op = "receive"
                  PROVE  OnPath(m, tasks'[m][i].packet.source, tasks'[m][i].packet.destination)
        BY DEF QueuesOnPath
    <2>1. CASE m = n
        <3>1. tasks'[m] = Tail(tasks[m])
            BY <2>1 DEF TypeOK, TakeTask
        <3>2. i + 1 \in 1 .. Len(tasks[m]) /\ tasks'[m][i] = tasks[m][i + 1]
            BY <1>1, <2>1, <3>1
        <3>. QED
            BY <3>2 DEF QueuesOnPath
    <2>2. CASE m # n
        BY <2>2 DEF TypeOK, TakeTask, QueuesOnPath
    <2>. QED
        BY <2>1, <2>2
<1>. QED
    BY <1>2, <1>3, <1>4

(* A new packet starts on its path; one to the node itself is delivered.   *)
LEMMA RunSendKeeps ==
    ASSUME IInv, NEW n \in Nodes, RunSend(n)
    PROVE  IInv'
<1>. DEFINE packet == [source |-> n, destination |-> Head(tasks[n]).destination,
                       id |-> mIdCounter[n]]
<1>1. /\ tasks' \in [Nodes -> Seq(Tasks)]
      /\ QueuesOnPath'
      /\ Head(tasks[n]) \in Tasks
      /\ Head(tasks[n]).op = "send"
    BY TakeTaskKeeps DEF IInv, RunSend, TakeTask
<1>2. packet \in Packets
    BY <1>1 DEF IInv, TypeOK, Tasks, Packets
<1>3. mIdCounter' \in [Nodes -> Ids]
    <2>1. mIdCounter[n] \in Ids /\ mIdCounter' = [mIdCounter EXCEPT ![n] = (@ + 1) % 256]
        BY DEF IInv, TypeOK, RunSend
    <2>2. (mIdCounter[n] + 1) % 256 \in Ids
        BY <2>1 DEF Ids
    <2>. QED
        BY <2>1, <2>2 DEF IInv, TypeOK
<1>4. calls' = calls /\ listening' = listening
    BY DEF RunSend
<1>5. CASE packet.destination = n /\ ReceiveInternal(n, packet) /\ UNCHANGED <<sending, counter>>
           /\ returns' = [returns EXCEPT ![n] = @ + 1] /\ accepted' = accepted \cup {packet}
    <2>. HIDE DEF packet
    <2>1. (accepted' \cup delivered' \cup abandoned') \subseteq Packets
        BY <1>2, <1>5 DEF IInv, TypeOK, ReceiveInternal
    <2>2. returns' \in [Nodes -> Nat]
        BY <1>5 DEF IInv, TypeOK
    <2>3. TypeOK'
        BY <1>1, <1>3, <1>4, <1>5, <2>1, <2>2 DEF IInv, TypeOK
    <2>4. SendsOnPath'
        BY <1>5 DEF IInv, SendsOnPath
    <2>. QED
        BY <1>1, <2>3, <2>4 DEF IInv
<1>6. CASE packet.destination # n /\ SendInternal(n, packet)
           /\ UNCHANGED <<returns, accepted, delivered, abandoned>>
    <2>1. packet.source = n /\ packet.destination \in Ids /\ n \in Ids
        BY <1>2, RfNetworkAssumption DEF Packets
    <2>2. OnPath(n, packet.source, packet.destination)
        BY <2>1, SourceOnPath
    <2>. HIDE DEF packet
    <2>3. TypeOK'
        BY <1>1, <1>2, <1>3, <1>4, <1>6 DEF IInv, TypeOK, SendInternal, MaxWrites
    <2>4. SendsOnPath'
        BY <1>6, <2>2 DEF IInv, TypeOK, SendsOnPath, SendInternal
    <2>. QED
        BY <1>1, <2>3, <2>4 DEF IInv
<1>. QED
    BY <1>5, <1>6 DEF RunSend

(* A packet that was heard is delivered, thrown away or sent on from here. *)
LEMMA RunReceiveKeeps ==
    ASSUME IInv, NEW n \in Nodes, RunReceive(n)
    PROVE  IInv'
<1>. DEFINE packet == Head(tasks[n]).packet
<1>1. /\ tasks' \in [Nodes -> Seq(Tasks)]
      /\ QueuesOnPath'
      /\ Head(tasks[n]) \in Tasks
      /\ Head(tasks[n]).op = "receive"
    BY TakeTaskKeeps DEF IInv, RunReceive, TakeTask
<1>2. packet \in Packets
    BY <1>1 DEF Tasks
<1>3. OnPath(n, packet.source, packet.destination)
    <2>1. tasks[n] \in Seq(Tasks) /\ tasks[n] # <<>>
        BY DEF IInv, TypeOK, RunReceive, TakeTask
    <2>2. 1 \in 1 .. Len(tasks[n]) /\ Head(tasks[n]) = tasks[n][1]
        BY <2>1
    <2>. QED
        BY <1>1, <2>2 DEF IInv, QueuesOnPath
<1>4. UNCHANGED <<calls, mIdCounter, listening, returns, accepted>>
    BY DEF RunReceive, application
<1>5. CASE ReceiveInternal(n, packet) /\ UNCHANGED <<sending, counter>>
    <2>. HIDE DEF packet
    <2>1. (accepted' \cup delivered' \cup abandoned') \subseteq Packets
        BY <1>2, <1>4, <1>5 DEF IInv, TypeOK, ReceiveInternal
    <2>2. TypeOK'
        BY <1>1, <1>4, <1>5, <2>1 DEF IInv, TypeOK
    <2>3. SendsOnPath'
        BY <1>5 DEF IInv, SendsOnPath
    <2>. QED
        BY <1>1, <2>2, <2>3 DEF IInv
<1>6. CASE packet.destination # n /\ SendInternal(n, packet) /\ UNCHANGED <<delivered, abandoned>>
    <2>. HIDE DEF packet
    <2>1. TypeOK'
        BY <1>1, <1>2, <1>4, <1>6 DEF IInv, TypeOK, SendInternal, MaxWrites
    <2>2. SendsOnPath'
        BY <1>3, <1>6 DEF IInv, TypeOK, SendsOnPath, SendInternal
    <2>. QED
        BY <1>1, <2>1, <2>2 DEF IInv
<1>. QED
    BY <1>5, <1>6 DEF RunReceive

(* Whoever hears a write is the next on the path, and the sender goes on   *)
(* with the packet or drops it.                                            *)
LEMMA WriteKeeps ==
    ASSUME IInv, NEW n \in Nodes, Write(n)
    PROVE  IInv'
<1>. DEFINE packet == sending[n]
<1>1. packet \in Packets /\ packet # None
    BY DEF IInv, TypeOK, Write
<1>2. PICK receivers \in SUBSET Listeners(n, PipeAddress(n, RoutingPipe(n, packet.destination))) :
        /\ Heard(n, receivers)
        /\ \/ /\ counter' = [counter EXCEPT ![n] = 0]
              /\ Return(n)
              /\ accepted' = IF packet.source = n THEN accepted \cup {packet} ELSE accepted
              /\ UNCHANGED abandoned
           \/ Fail(n) /\ UNCHANGED accepted
    BY DEF Write
<1>3. UNCHANGED <<calls, mIdCounter, listening, delivered>>
    BY DEF Write, application
<1>. DEFINE task == [op |-> "receive", packet |-> packet]
<1>4. task \in Tasks /\ task.packet = packet
    BY <1>1 DEF Tasks
<1>5. \A m \in Nodes : tasks'[m] = IF m \in receivers THEN Append(tasks[m], task) ELSE tasks[m]
    BY <1>2 DEF Heard
<1>6. tasks' \in [Nodes -> Seq(Tasks)]
    <2>. HIDE DEF task
    <2>1. \A m \in Nodes : tasks'[m] \in Seq(Tasks)
        <3>. SUFFICES ASSUME NEW m \in Nodes PROVE tasks'[m] \in Seq(Tasks)
            OBVIOUS
        <3>1. tasks[m] \in Seq(Tasks)
            BY DEF IInv, TypeOK
        <3>2. Append(tasks[m], task) \in Seq(Tasks)
            BY <1>4, <3>1, AppendOne
        <3>. QED
            BY <1>5, <3>1, <3>2
    <2>. QED
        BY <1>2, <2>1 DEF Heard
<1>7. QueuesOnPath'
    <2>. SUFFICES ASSUME NEW m \in Nodes, NEW i \in 1 .. Len(tasks'[m]), tasks'[m][i].op = "receive"
                  PROVE  OnPath(m, tasks'[m][i].packet.source, tasks'[m][i].packet.destination)
        BY DEF QueuesOnPath
    <2>1. tasks[m] \in Seq(Tasks)
        BY DEF IInv, TypeOK
    <2>2. CASE i \in 1 .. Len(tasks[m])
        <3>1. tasks'[m][i] = tasks[m][i]
            <4>. HIDE DEF task
            <4>1. Append(tasks[m], task)[i] = tasks[m][i]
                BY <1>4, <2>1, <2>2, AppendOne
            <4>. QED
                BY <1>5, <4>1
        <3>. QED
            BY <2>2, <3>1 DEF IInv, QueuesOnPath
    <2>3. CASE i \notin 1 .. Len(tasks[m])
        <3>1. m \in receivers /\ tasks'[m][i] = task
            <4>. HIDE DEF task
            <4>1. m \in receivers
                BY <1>5, <2>3
            <4>2. tasks'[m] = Append(tasks[m], task)
                BY <1>5, <4>1
            <4>3. i = Len(tasks[m]) + 1
                BY <1>4, <2>1, <2>3, <4>2, AppendOne
            <4>. QED
                BY <1>4, <2>1, <4>1, <4>2, <4>3, AppendOne
        <3>2. m \in Listeners(n, PipeAddress(n, RoutingPipe(n, packet.destination)))
            BY <1>2, <3>1
        <3>3. PICK p \in Pipes : Enabled(m, p)
                   /\ PipeAddress(m, p) = PipeAddress(n, RoutingPipe(n, packet.destination))
            BY <3>2 DEF Listeners
        <3>4. m # n /\ m \in Ids /\ n \in Ids /\ packet.source \in Ids /\ packet.destination \in Ids
            BY <1>1, <3>2, RfNetworkAssumption DEF Listeners, Packets
        <3>5. OnPath(n, packet.source, packet.destination) /\ n # packet.destination
            BY <1>1 DEF IInv, SendsOnPath
        <3>6. OnPath(m, packet.source, packet.destination)
            BY <3>3, <3>4, <3>5, NextOnPath
        <3>. QED
            BY <1>4, <3>1, <3>6
    <2>. QED
        BY <2>2, <2>3
<1>8. /\ counter' \in [Nodes -> 0 .. MaxWrites - 1]
      /\ sending' \in [Nodes -> Packets \cup {None}]
      /\ returns' \in [Nodes -> Nat]
      /\ \A m \in Nodes : sending'[m] = sending[m] \/ sending'[m] = None
    <2>1. CASE Return(n)
        <3>1. counter' \in [Nodes -> 0 .. MaxWrites - 1]
            <4>1. counter[n] \in 0 .. 4 /\ (counter[n] + 1 < 5 => counter[n] + 1 \in 0 .. 4)
                BY DEF IInv, TypeOK, MaxWrites
            <4>2. \/ counter' = [counter EXCEPT ![n] = 0]
                  \/ counter[n] + 1 < 5 /\ counter' = [counter EXCEPT ![n] = counter[n] + 1]
                BY <1>2 DEF Fail, MaxWrites
            <4>3. counter \in [Nodes -> 0 .. 4] /\ MaxWrites - 1 = 4
                BY DEF IInv, TypeOK, MaxWrites
            <4>. HIDE DEF packet, task
            <4>. QED
                BY <4>1, <4>2, <4>3
        <3>2. returns' \in [Nodes -> Nat]
            BY <2>1 DEF Return, IInv, TypeOK
        <3>. QED
            BY <2>1, <3>1, <3>2 DEF Return, IInv, TypeOK
    <2>2. CASE UNCHANGED <<sending, returns>> /\ counter[n] + 1 < MaxWrites
               /\ counter' = [counter EXCEPT ![n] = @ + 1]
        <3>1. counter[n] \in 0 .. 4
            BY DEF IInv, TypeOK, MaxWrites
        <3>2. counter[n] + 1 \in 0 .. 4
            BY <2>2, <3>1 DEF MaxWrites
        <3>3. counter' \in [Nodes -> 0 .. MaxWrites - 1]
            BY <2>2, <3>2 DEF IInv, TypeOK, MaxWrites
        <3>. QED
            BY <2>2, <3>3 DEF IInv, TypeOK
    <2>. QED
        BY <1>2, <2>1, <2>2 DEF Fail
<1>9. accepted' \subseteq Packets /\ abandoned' \subseteq Packets
    BY <1>1, <1>2 DEF Fail, IInv, TypeOK
<1>10. TypeOK'
    BY <1>3, <1>6, <1>8, <1>9 DEF IInv, TypeOK
<1>11. SendsOnPath'
    BY <1>8 DEF IInv, SendsOnPath
<1>. QED
    BY <1>7, <1>10, <1>11 DEF IInv

LEMMA NextKeeps == IInv /\ [Next]_vars => IInv'
<1>. SUFFICES ASSUME IInv, [Next]_vars PROVE IInv'
    OBVIOUS
<1>1. CASE UNCHANGED vars
    BY <1>1 DEF IInv, TypeOK, QueuesOnPath, SendsOnPath, vars, application
<1>2. CASE Next
    BY <1>2, SendKeeps, StopListeningKeeps, RunSendKeeps, RunReceiveKeeps, WriteKeeps
       DEF Next, ExecutionContext
<1>. QED
    BY <1>1, <1>2

LEMMA Invariance == Spec => []IInv
BY InitIInv, NextKeeps, PTL DEF Spec

(* Every variable has its type; in particular no packet is written more    *)
(* than MaxWrites times in a row and the ids wrap at 8 bits.               *)
THEOREM TypeCorrect == Spec => []TypeOK
BY Invariance, PTL DEF IInv

(* Whatever nodes exist and whatever the radio loses or repeats, every copy*)
(* of a packet is at a node on the path from its source to its destination.*)
THEOREM StayOnPath == Spec => []PacketsStayOnPath
<1>1. IInv => PacketsStayOnPath
    <2>. SUFFICES ASSUME IInv, NEW n \in Nodes, NEW p \in Held(n)
                  PROVE  OnPath(n, p.source, p.destination)
        BY DEF PacketsStayOnPath
    <2>1. CASE p = sending[n] /\ p # None
        BY <2>1 DEF IInv, SendsOnPath
    <2>2. CASE \E i \in DOMAIN tasks[n] : tasks[n][i].op = "receive" /\ p = tasks[n][i].packet
        <3>1. DOMAIN tasks[n] = 1 .. Len(tasks[n])
            BY DEF IInv, TypeOK
        <3>. QED
            BY <2>2, <3>1 DEF IInv, QueuesOnPath
    <2>. QED
        BY <2>1, <2>2 DEF Held
<1>. QED
    BY <1>1, Invariance, PTL
=============================================================================
