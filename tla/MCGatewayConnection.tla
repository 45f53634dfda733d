------------------------- MODULE MCGatewayConnection -------------------------
(* Instances of GatewayConnection for TLC. *)
EXTENDS GatewayConnection, TLC

CONSTANTS a, b, w     \* two topics and a filter with a wildcard

MCTwoTopics == {a, b}
MCOneTopic == {a}
MCWildcards == {w}
MCNoWildcards == {}

\* 0 is the duration that disables the timeouts.
MCDurations == {0, 1}
\* A keep alive of 1 s (from 1) is shorter than a sleep of 2 s.
MCSleepyDurations == {1, 2}

\* For the invariants: nothing tells one topic from another.
TopicSymmetry == Permutations(MCTwoTopics)
=============================================================================
