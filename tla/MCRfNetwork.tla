---------------------------- MODULE MCRfNetwork ----------------------------
(* Instances of RfNetwork for TLC. *)
EXTENDS RfNetwork

\* The top node, two children, and a child of each.
MCNodes == {0, 1, 2, 6, 11}
\* Over three hops, where the sender has a child (6) whose pipe has the number
\* of the destination's; and to the sender itself.
MCRoutes == {<<1, 11>>, <<1, 1>>}
============================================================================
