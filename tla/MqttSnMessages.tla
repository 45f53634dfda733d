---------------------------- MODULE MqttSnMessages ----------------------------
(***************************************************************************)
(* Bt::Net::MqttSn: how messages are written to packets and parsed again,  *)
(* with the two places that bound them: a packet of the radio carries      *)
(* PAYLOAD_CAPACITY bytes and the rest is cut off without an error, and    *)
(* SnGateway::run drops a packet whose length byte is not its size.        *)
(*                                                                         *)
(* A message is its type and the fields of its body.  Integers have their  *)
(* width: a length that does not fit into its byte wraps.  A field that is *)
(* read behind the end of the packet is an uninitialised local variable    *)
(* (Stale).  The clients, which are not in the repository, are taken to    *)
(* write like these classes, or to send whatever they like.                *)
(***************************************************************************)
EXTENDS Naturals, Sequences

CONSTANTS
    Messages,           \* the messages that are written
    ForeignPackets,     \* packets of other origin
    Stale               \* what an uninitialised byte may be

PAYLOAD_CAPACITY == 32 - 3

MsgType == [CONNECT |-> 4, CONNACK |-> 5, REGISTER |-> 10, REGACK |-> 11, PUBLISH |-> 12,
            SUBSCRIBE |-> 18, SUBACK |-> 19, PINGREQ |-> 22, PINGRESP |-> 23, DISCONNECT |-> 24]

\* The fields of a body: "rest" is a string up to the end of the packet.
Fields ==
    [CONNECT |-> <<"byte", "byte", "word", "rest">>,  \* flags, ProtocolId, duration, clientId
     CONNACK |-> <<"byte">>,                          \* returnCode
     REGISTER |-> <<"word", "word", "rest">>,         \* topicId, msgId, topicName
     REGACK |-> <<"word", "word", "byte">>,           \* topicId, msgId, returnCode
     PUBLISH |-> <<"byte", "word", "word", "rest">>,  \* flags, topicId, msgId, data
     SUBSCRIBE |-> <<"byte", "word", "rest">>,        \* flags, msgId, topicName
     SUBACK |-> <<"byte", "word", "word", "byte">>,   \* flags, topicId, msgId, returnCode
     PINGREQ |-> <<"rest">>,                          \* clientId, if there is one
     PINGRESP |-> <<>>,
     DISCONNECT |-> <<"word">>]                       \* duration, if there is one

\* The two optional fields.
Optional == {"PINGREQ", "DISCONNECT"}

Bytes == 0 .. 255
Words == {n \in Nat : n < 65536}
Values(kind) ==
    CASE kind = "byte" -> Bytes
      [] kind = "word" -> Words
      [] kind = "rest" -> Seq(Bytes)

\* What an object of one of the classes holds.
IsMessage(m) ==
    LET kinds == Fields[m.type]
    IN  /\ m.type \in DOMAIN Fields
        /\ m = [type |-> m.type, body |-> m.body]
        /\ \/ m.type \in Optional /\ m.body = <<>>
           \/ /\ m.body = [i \in DOMAIN kinds |-> m.body[i]]
              /\ \A i \in DOMAIN kinds : m.body[i] \in Values(kinds[i])

ASSUME MessagesAssumption ==
    /\ \A m \in Messages : IsMessage(m)
    /\ \A packet \in ForeignPackets : packet \in Seq(Bytes) /\ Len(packet) <= PAYLOAD_CAPACITY
    /\ Stale \subseteq Bytes

-----------------------------------------------------------------------------
(* Writing. *)

\* The string at the end of a body.
Text(m) == m.body[Len(m.body)]

\* Mutant: the header of SUBSCRIBE is counted like that of REGISTER.
LengthOfLikeRegister(m) ==
    CASE m.type \in {"CONNECT", "REGISTER", "SUBSCRIBE"} -> 6 + Len(Text(m))
      [] m.type = "PUBLISH" -> 7 + Len(Text(m))
      [] m.type = "CONNACK" -> 3
      [] m.type = "REGACK" -> 7
      [] m.type = "SUBACK" -> 8
      [] m.type = "DISCONNECT" -> IF m.body = <<>> THEN 2 ELSE 4
      [] m.type \in {"PINGREQ", "PINGRESP"} -> 2

\* As each write() counts it, before it is narrowed to a byte.
LengthOf(m) ==
    CASE m.type \in {"CONNECT", "REGISTER"} -> 6 + Len(Text(m))
      [] m.type = "SUBSCRIBE" -> 5 + Len(Text(m))
      [] m.type = "PUBLISH" -> 7 + Len(Text(m))
      [] m.type = "CONNACK" -> 3
      [] m.type = "REGACK" -> 7
      [] m.type = "SUBACK" -> 8
      [] m.type = "DISCONNECT" -> IF m.body = <<>> THEN 2 ELSE 4
      [] m.type \in {"PINGREQ", "PINGRESP"} -> 2

\* Pingreq::write leaves the client id out.
Transmitted(m) == IF m.type = "PINGREQ" THEN [m EXCEPT !.body = <<>>] ELSE m

WriteField(kind, value) ==
    CASE kind = "byte" -> <<value>>
      [] kind = "word" -> <<value \div 256, value % 256>>
      [] kind = "rest" -> value

\* The i-th field, if there is one: no body has more than four.
WrittenField(m, i) ==
    LET body == Transmitted(m).body
    IN  IF i \in DOMAIN body THEN WriteField(Fields[m.type][i], body[i]) ELSE <<>>

WriteMessage(m) ==
    <<LengthOf(m) % 256, MsgType[m.type]>>
        \o WrittenField(m, 1) \o WrittenField(m, 2) \o WrittenField(m, 3) \o WrittenField(m, 4)

-----------------------------------------------------------------------------
(* Parsing.  What is read depends on what was left in uninitialised        *)
(* variables: each operator gives the set of possible results.             *)

Word(high, low) == {256 * h + l : h \in high, l \in low}

ReadByte(buffer, position) ==
    IF position < Len(buffer) THEN {buffer[position + 1]} ELSE Stale

ReadField(kind, buffer, position) ==
    CASE kind = "byte" -> ReadByte(buffer, position)
      [] kind = "word" -> Word(ReadByte(buffer, position), ReadByte(buffer, position + 1))
      [] kind = "rest" -> {SubSeq(buffer, position + 1, Len(buffer))}

Size(kind) == IF kind = "word" THEN 2 ELSE 1

\* The fields one after the other.  No body has exactly two.
ReadBody(kinds, buffer, position) ==
    LET Second == position + Size(kinds[1])
        Third == Second + Size(kinds[2])
        Fourth == Third + Size(kinds[3])
        Read(i, start) == ReadField(kinds[i], buffer, start)
    IN  CASE Len(kinds) = 0 -> {<<>>}
          [] Len(kinds) = 1 -> {<<value>> : value \in Read(1, position)}
          [] Len(kinds) = 3 -> Read(1, position) \X Read(2, Second) \X Read(3, Third)
          [] Len(kinds) = 4 -> Read(1, position) \X Read(2, Second) \X Read(3, Third) \X Read(4, Fourth)

\* The two optional fields are there if anything is.
Present(type, buffer, position) ==
    IF type \in Optional /\ position = Len(buffer) THEN <<>> ELSE Fields[type]

Resize(buffer, size) == [i \in 1 .. size |-> IF i <= Len(buffer) THEN buffer[i] ELSE 0]

\* What the constructor for the type reads; "null" for an unknown type.
ParseBody(rawMsgType, buffer, position) ==
    LET types == {t \in DOMAIN MsgType : MsgType[t] = rawMsgType}
    IN  IF types = {} THEN {[type |-> "null", body |-> <<>>]}
        ELSE UNION {{[type |-> t, body |-> b] :
                       b \in ReadBody(Present(t, buffer, position), buffer, position)} : t \in types}

\* "undefined" if the reader is behind the end of what resize() left.
ParseFrame(buffer, position) ==
    IF Len(buffer) < position THEN {[type |-> "undefined", body |-> <<>>]}
    ELSE UNION {ParseBody(rawMsgType, buffer, position + 1) : rawMsgType \in ReadByte(buffer, position)}

Parse(mBuffer) ==
    IF mBuffer[1] # 1 THEN ParseFrame(Resize(mBuffer, mBuffer[1]), 1)
    ELSE UNION {ParseFrame(Resize(mBuffer, size), 3) :
                   size \in Word(ReadByte(mBuffer, 1), ReadByte(mBuffer, 2))}

-----------------------------------------------------------------------------
(* A message on its way: the writer's buffer, the radio's packet, what the *)
(* gateway's loop makes of it.                                             *)

VARIABLES
    stage,
    message,    \* the message that was written, <<>> if none was
    buffer,     \* the bytes: of the writer, then of the packet
    handled     \* the message the loop hands to a connection, <<>> if none

messageVars == <<stage, message, buffer, handled>>

MessageInit == stage = "idle" /\ message = <<>> /\ buffer = <<>> /\ handled = <<>>

\* GatewayConnection::send.
Write(m) ==
    /\ stage = "idle"
    /\ stage' = "written"
    /\ message' = <<m>>
    /\ buffer' = WriteMessage(m)
    /\ UNCHANGED handled

\* What fits into a packet.
Cut(bytes) == IF Len(bytes) <= PAYLOAD_CAPACITY THEN bytes ELSE SubSeq(bytes, 1, PAYLOAD_CAPACITY)

\* RfPacketSocket::send, and the radio.
Send ==
    /\ stage = "written"
    /\ stage' = "packet"
    /\ buffer' = Cut(buffer)
    /\ UNCHANGED <<message, handled>>

ForeignPacket(packet) ==
    /\ stage = "idle"
    /\ stage' = "packet"
    /\ buffer' = packet
    /\ UNCHANGED <<message, handled>>

\* Mutant: the length byte is not looked at.
ReceiveAnyLength ==
    /\ stage = "packet"
    /\ buffer # <<>>
    /\ stage' = "received"
    /\ \E m \in Parse(Resize(buffer, PAYLOAD_CAPACITY + 1)) :
          handled' = IF m.type = "null" THEN <<>> ELSE <<m>>
    /\ UNCHANGED <<message, buffer>>

\* SnGateway::run, with a MessageBuffer of the capacity and one byte, zeroed.
Receive ==
    /\ stage = "packet"
    /\ stage' = "received"
    /\ \/ /\ buffer # <<>> => buffer[1] # Len(buffer)
          /\ UNCHANGED handled
       \/ /\ buffer # <<>>
          /\ buffer[1] = Len(buffer)
          /\ \E m \in Parse(Resize(buffer, PAYLOAD_CAPACITY + 1)) :
                handled' = IF m.type = "null" THEN <<>> ELSE <<m>>
    /\ UNCHANGED <<message, buffer>>

NextMessage ==
    /\ stage = "received"
    /\ stage' = "idle" /\ message' = <<>> /\ buffer' = <<>> /\ handled' = <<>>

MessageNext ==
    \/ \E m \in Messages : Write(m)
    \/ \E packet \in ForeignPackets : ForeignPacket(packet)
    \/ Send \/ Receive \/ NextMessage

MessageSpec == MessageInit /\ [][MessageNext]_messageVars

-----------------------------------------------------------------------------
(* Properties. *)

(* A message is handed over exactly as it was written or, if it does not   *)
(* fit into a packet of the radio, not at all: the cut is noticed although *)
(* nobody reports it.  (From 256 bytes more than a packet holds on, the    *)
(* length byte may have wrapped to the size of the cut message.)           *)
HandledAsWritten ==
    stage = "received" /\ message # <<>> /\ LengthOf(message[1]) < PAYLOAD_CAPACITY + 256 =>
        handled = IF LengthOf(message[1]) <= PAYLOAD_CAPACITY
                  THEN <<Transmitted(message[1])>> ELSE <<>>

(* Of all packets that the loop accepts, by whomever they were sent, there *)
(* is only one that the parser has no defined behaviour for: the byte 1,   *)
(* the mark of a long length, alone.                                       *)
ParseIsDefined ==
    stage = "received" /\ handled # <<>> /\ handled[1].type = "undefined" => buffer = <<1>>
=============================================================================
