--------------------------- MODULE MCTopicStorage ---------------------------
(* Instances of TopicStorage for TLC. *)
EXTENDS TopicStorage

\* More names than ids: the vector outgrows the id type.
MCNames == {"a", "b", "c", "d", "e"}
=============================================================================
