-------------------------- MODULE MCMqttSnMessages --------------------------
(* Instances of MqttSnMessages for TLC. *)
EXTENDS MqttSnMessages

\* Strings around the capacity of a packet and around the wrap of the length.
MCStrings == {[i \in 1 .. n |-> 64 + (i % 3)] : n \in (0 .. 3) \cup (20 .. 26) \cup (246 .. 282)}
MCWords == {1, 513, 65535}
MCBytes == {0, 98}

MCMessages ==
    {[type |-> "CONNECT", body |-> <<b, 1, w, s>>] : b \in MCBytes, w \in MCWords, s \in MCStrings}
    \cup {[type |-> t, body |-> <<v, w, s>>] : t \in {"REGISTER"}, v, w \in MCWords, s \in MCStrings}
    \cup {[type |-> "PUBLISH", body |-> <<b, v, w, s>>] : b \in MCBytes, v, w \in MCWords, s \in MCStrings}
    \cup {[type |-> "SUBSCRIBE", body |-> <<b, w, s>>] : b \in MCBytes, w \in MCWords, s \in MCStrings}
    \cup {[type |-> "CONNACK", body |-> <<b>>] : b \in MCBytes}
    \cup {[type |-> "REGACK", body |-> <<v, w, b>>] : v, w \in MCWords, b \in MCBytes}
    \cup {[type |-> "SUBACK", body |-> <<b, v, w, c>>] : b, c \in MCBytes, v, w \in MCWords}
    \cup {[type |-> "PINGREQ", body |-> <<s>>] : s \in MCStrings}
    \cup {[type |-> t, body |-> <<>>] : t \in {"PINGREQ", "PINGRESP", "DISCONNECT"}}
    \cup {[type |-> "DISCONNECT", body |-> <<w>>] : w \in MCWords}

\* All packets of up to four of these bytes: short lengths and two types.
MCForeignPackets == UNION {[1 .. n -> {0, 1, 2, 3, 4, 22, 24}] : n \in 0 .. 4}
MCStale == {0, 255}
=============================================================================
