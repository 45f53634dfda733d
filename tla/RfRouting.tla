------------------------------ MODULE RfRouting ------------------------------
(***************************************************************************)
(* Bt::Rf24::RfNode and Bt::Rf24::RfNetworkRoutingAlgorithm: the ids of    *)
(* the nodes form a tree with five children each; a node reaches its       *)
(* parent over pipe 0 and its k-th child over pipe k.                      *)
(***************************************************************************)
EXTENDS Integers

Ids == 0 .. 255
Pipes == 0 .. 5

-----------------------------------------------------------------------------
(* RfNode *)

Level(id) ==
    IF id < 1 THEN 0 ELSE IF id < 6 THEN 1 ELSE IF id < 31 THEN 2 ELSE IF id < 156 THEN 3 ELSE 4

-----------------------------------------------------------------------------
(* RfNetworkRoutingAlgorithm *)

Parent(id) == (id - 1) \div 5

\* idAtLevel: the ancestor at a level not below the node's own.
IdAtLevel(id, level) ==
    CASE Level(id) - level = 0 -> id
      [] Level(id) - level = 1 -> Parent(id)
      [] Level(id) - level = 2 -> Parent(Parent(id))
      [] Level(id) - level = 3 -> Parent(Parent(Parent(id)))
      [] OTHER -> Parent(Parent(Parent(Parent(id))))

\* Mutant: the branch is not tested, every deeper node is thought to be below.
RoutingPipeWithoutBranchTest(self, destination) ==
    IF Level(self) >= Level(destination) THEN 0
    ELSE LET digit == IdAtLevel(destination, Level(self) + 1) % 5
         IN  IF digit = 0 THEN 5 ELSE digit

RoutingPipe(self, destination) ==
    IF Level(self) >= Level(destination) \/ IdAtLevel(destination, Level(self)) # self THEN 0
    ELSE LET digit == IdAtLevel(destination, Level(self) + 1) % 5
         IN  IF digit = 0 THEN 5 ELSE digit

IsLeafNode(self) == self > 50

\* configurePipe, and the last byte of the address (of 8 bits).
Enabled(self, pipe) == ~(IsLeafNode(self) /\ pipe # 0)

PipeAddress(self, pipe) == IF pipe = 0 THEN self ELSE (((self * 5) % 256) + pipe) % 256

-----------------------------------------------------------------------------
(* The tree, for the properties. *)

\* The node is the other or one of its ancestors.
Above(node, other) == Level(node) <= Level(other) /\ IdAtLevel(other, Level(node)) = node

\* The node is on the way up from the source to the lowest node that is above
\* both, or on the way down from it.
OnPath(node, source, destination) ==
    \/ Above(node, source) /\ ~Above(node, destination)
    \/ Above(node, destination) /\ ~Above(node, source)
    \/ /\ Above(node, source) /\ Above(node, destination)
       /\ \A k \in 1 .. 5 :
              ~(Above(5 * node + k, source) /\ Above(5 * node + k, destination))
=============================================================================
