------------------------------ MODULE MqttProofs ------------------------------
(***************************************************************************)
(* Theorems about the two protocols that the gateway stands between: the   *)
(* messages of MQTT-SN on the radio (MqttSnMessages), for every content of *)
(* a message and every packet, and the client of the broker (MqttClient),  *)
(* for any number of publishes and tokens.                                 *)
(***************************************************************************)
EXTENDS MqttSnMessages, MqttClient, TLAPS

-----------------------------------------------------------------------------
(***************************************************************************)
(* Messages.                                                               *)
(***************************************************************************)

(* The values of the three kinds of fields. *)
LEMMA KindValues ==
    Values("byte") = Bytes /\ Values("word") = Words /\ Values("rest") = Seq(Bytes)
  BY DEF Values

-----------------------------------------------------------------------------
(***************************************************************************)
(* One field: what it holds, how it is written, and that it is read again  *)
(* behind whatever was written before.                                     *)
(***************************************************************************)
LEMMA Writing ==
    ASSUME NEW kind \in {"byte", "word", "rest"}, NEW value, value \in Values(kind)
    PROVE  /\ kind = "byte" => value \in Bytes /\ WriteField(kind, value) = <<value>>
           /\ kind = "word" => /\ value \in Words
                               /\ WriteField(kind, value) = <<value \div 256, value % 256>>
           /\ kind = "rest" => value \in Seq(Bytes) /\ WriteField(kind, value) = value
<1>1. /\ kind = "byte" => value \in Bytes
      /\ kind = "word" => value \in Words
      /\ kind = "rest" => value \in Seq(Bytes)
  BY KindValues
<1>2. /\ kind = "byte" => WriteField(kind, value) = <<value>>
      /\ kind = "word" => WriteField(kind, value) = <<value \div 256, value % 256>>
      /\ kind = "rest" => WriteField(kind, value) = value
  BY DEF WriteField
<1> QED
  BY <1>1, <1>2, Zenon

(* A word is its two bytes. *)
LEMMA Splitting ==
    ASSUME NEW value \in Words
    PROVE  /\ value \div 256 \in Bytes /\ value % 256 \in Bytes
           /\ value = 256 * (value \div 256) + (value % 256)
<1>0. value \in Nat /\ value < 65536
  BY DEF Words
<1>1. value = 256 * (value \div 256) + (value % 256) /\ value % 256 \in Bytes
  BY <1>0 DEF Bytes
<1>2. value \div 256 \in Bytes
  BY <1>0, <1>1 DEF Bytes
<1> QED
  BY <1>1, <1>2

Kinds == {"byte", "word", "rest"}
Width(kind, value) == IF kind = "rest" THEN Len(value) ELSE Size(kind)
Begins(p, q) == Len(p) <= Len(q) /\ \A i \in 1 .. Len(p) : q[i] = p[i]
Add(p, kind, value) == p \o WriteField(kind, value)

(* A field behind some bytes is read there, and moves nothing. *)
LEMMA OneMore ==
    ASSUME NEW p \in Seq(Bytes), NEW kind \in Kinds, NEW value, value \in Values(kind)
    PROVE  /\ Add(p, kind, value) \in Seq(Bytes)
           /\ Begins(p, Add(p, kind, value))
           /\ Len(Add(p, kind, value)) = Len(p) + Width(kind, value)
           /\ ReadField(kind, Add(p, kind, value), Len(p)) = {value}
<1> DEFINE q == Add(p, kind, value)
<1>q. q = p \o WriteField(kind, value)
  BY DEF Add
<1>k. kind \in {"byte", "word", "rest"}
  BY DEF Kinds
<1> SUFFICES /\ q \in Seq(Bytes) /\ Len(q) >= Len(p)
             /\ kind # "rest" => Len(q) = Len(p) + Size(kind)
             /\ kind = "rest" => Len(q) = Len(p) + Len(value)
             /\ \A i \in 1 .. Len(p) : q[i] = p[i]
             /\ ReadField(kind, q, Len(p)) = {value}
  BY DEF Begins, Width
<1> HIDE DEF q
<1>1. CASE kind = "byte"
  <2>1. value \in Bytes /\ q = p \o <<value>>
    BY <1>1, <1>k, <1>q, Writing, ZenonT(60)
  <2>2. /\ q \in Seq(Bytes) /\ Len(q) = Len(p) + 1 /\ q[Len(p) + 1] = value
        /\ \A i \in 1 .. Len(p) : q[i] = p[i]
    BY <2>1
  <2>3. ReadField(kind, q, Len(p)) = {value}
    BY <1>1, <2>2 DEF ReadField, ReadByte
  <2> QED
    BY <1>1, <2>2, <2>3 DEF Size
<1>2. CASE kind = "word"
  <2> DEFINE high == value \div 256
             low == value % 256
  <2>a. value \in Words
    BY <1>2, <1>k, <1>q, Writing, ZenonT(60)
  <2>1. q = p \o <<high, low>>
    BY <1>2, <1>k, <1>q, Writing, ZenonT(60)
  <2>2. high \in Bytes /\ low \in Bytes /\ value = 256 * high + low
    BY <2>a, Splitting, Zenon
  <2> HIDE DEF high, low
  <2>3. /\ q \in Seq(Bytes) /\ Len(q) = Len(p) + 2
        /\ q[Len(p) + 1] = high /\ q[Len(p) + 2] = low
        /\ \A i \in 1 .. Len(p) : q[i] = p[i]
    <3>1. <<high, low>> \in Seq(Bytes) /\ Len(<<high, low>>) = 2
      BY <2>2
    <3>2. <<high, low>>[1] = high /\ <<high, low>>[2] = low
      OBVIOUS
    <3> QED
      BY <2>1, <3>1, <3>2
  <2>4. ReadByte(q, Len(p)) = {high} /\ ReadByte(q, Len(p) + 1) = {low}
    BY <2>3 DEF ReadByte
  <2>5. Word({high}, {low}) = {value}
    BY <2>2 DEF Word
  <2>6. ReadField(kind, q, Len(p)) = {value}
    BY <1>2, <2>4, <2>5 DEF ReadField
  <2> QED
    BY <1>2, <2>3, <2>6 DEF Size
<1>3. CASE kind = "rest"
  <2>1. value \in Seq(Bytes) /\ q = p \o value
    BY <1>3, <1>k, <1>q, Writing, ZenonT(60)
  <2>2. /\ q \in Seq(Bytes) /\ Len(q) = Len(p) + Len(value)
        /\ \A i \in 1 .. Len(p) : q[i] = p[i]
    BY <2>1
  <2>3. SubSeq(q, Len(p) + 1, Len(q)) = value
    BY <2>1, <2>2
  <2>4. ReadField(kind, q, Len(p)) = {value}
    BY <1>3, <2>3 DEF ReadField
  <2> QED
    BY <1>3, <2>2, <2>4
<1> QED
  BY <1>1, <1>2, <1>3, <1>k

(* What was read of a byte or a word is read of what begins with it, too. *)
LEMMA Beginning ==
    ASSUME NEW p \in Seq(Bytes), NEW q \in Seq(Bytes), NEW kind \in {"byte", "word"},
           NEW position \in Nat,
           position + Size(kind) <= Len(p), Begins(p, q)
    PROVE  ReadField(kind, q, position) = ReadField(kind, p, position)
<1> USE DEF Begins
<1>1. CASE kind = "byte"
  <2>1. position < Len(p) /\ position < Len(q) /\ position + 1 \in 1 .. Len(p)
    BY <1>1 DEF Size
  <2> QED
    BY <1>1, <2>1 DEF ReadField, ReadByte
<1>2. CASE kind = "word"
  <2>1. ReadByte(q, position) = ReadByte(p, position) /\ ReadByte(q, position + 1) = ReadByte(p, position + 1)
    <3>1. /\ position < Len(p) /\ position < Len(q) /\ position + 1 \in 1 .. Len(p)
          /\ position + 1 < Len(p) /\ position + 1 < Len(q) /\ position + 1 + 1 \in 1 .. Len(p)
      BY <1>2 DEF Size
    <3> QED
      BY <3>1 DEF ReadByte
  <2> QED
    BY <1>2, <2>1 DEF ReadField
<1> QED
  BY <1>1, <1>2

-----------------------------------------------------------------------------
(***************************************************************************)
(* Whole bodies, by the number of their fields.                            *)
(***************************************************************************)

LEMMA BeginsTransitive ==
    ASSUME NEW p \in Seq(Bytes), NEW q \in Seq(Bytes), NEW r \in Seq(Bytes), Begins(p, q), Begins(q, r)
    PROVE  Begins(p, r)
  BY DEF Begins

\* A field that is not the last: still read when more follows.
LEMMA StillRead ==
    ASSUME NEW p \in Seq(Bytes), NEW kind \in Kinds \ {"rest"}, NEW value, value \in Values(kind),
           NEW r \in Seq(Bytes), Begins(Add(p, kind, value), r)
    PROVE  ReadField(kind, r, Len(p)) = {value} /\ Len(Add(p, kind, value)) = Len(p) + Size(kind)
<1> DEFINE q == Add(p, kind, value)
<1>1. /\ q \in Seq(Bytes) /\ Len(q) = Len(p) + Size(kind)
      /\ ReadField(kind, q, Len(p)) = {value}
  <2>1. kind \in Kinds /\ kind # "rest"
    OBVIOUS
  <2> QED
    BY <2>1, OneMore, Zenon DEF Width
<1>2. ReadField(kind, r, Len(p)) = ReadField(kind, q, Len(p))
  <2>1. kind \in {"byte", "word"} /\ Len(p) \in Nat /\ Len(p) + Size(kind) <= Len(q)
    BY <1>1 DEF Kinds
  <2> QED
    BY <1>1, <2>1, Beginning, SMT
<1> QED
  BY <1>1, <1>2

(* w is h and a body of so many bytes, from which the body is read. *)
Carries(w, h, kinds, body, length) ==
    /\ w \in Seq(Bytes) /\ Begins(h, w)
    /\ Len(w) = Len(h) + length
    /\ ReadBody(kinds, w, Len(h)) = {body}

LEMMA BodyOfOne ==
    ASSUME NEW h \in Seq(Bytes), NEW k1 \in Kinds, NEW v1, v1 \in Values(k1)
    PROVE  Carries(Add(h, k1, v1), h, <<k1>>, <<v1>>, Width(k1, v1))
<1> DEFINE w == Add(h, k1, v1)
<1>1. /\ w \in Seq(Bytes) /\ Begins(h, w) /\ Len(w) = Len(h) + Width(k1, v1)
      /\ ReadField(k1, w, Len(h)) = {v1}
  BY OneMore, ZenonT(60)
<1> HIDE DEF w
<1>2. Len(<<k1>>) = 1 /\ <<k1>>[1] = k1
  OBVIOUS
<1>3. ReadBody(<<k1>>, w, Len(h)) = {<<value>> : value \in ReadField(k1, w, Len(h))}
  BY <1>2 DEF ReadBody
<1> QED
  BY <1>1, <1>3 DEF w, Carries

LEMMA BodyOfThree ==
    ASSUME NEW h \in Seq(Bytes),
           NEW k1 \in Kinds \ {"rest"}, NEW k2 \in Kinds \ {"rest"}, NEW k3 \in Kinds,
           NEW v1, v1 \in Values(k1), NEW v2, v2 \in Values(k2), NEW v3, v3 \in Values(k3)
    PROVE  Carries(Add(Add(Add(h, k1, v1), k2, v2), k3, v3), h,
                   <<k1, k2, k3>>, <<v1, v2, v3>>, Size(k1) + Size(k2) + Width(k3, v3))
<1> DEFINE p1 == Add(h, k1, v1)
           p2 == Add(p1, k2, v2)
           p3 == Add(p2, k3, v3)
<1>k. k1 \in Kinds /\ k2 \in Kinds
  OBVIOUS
<1>1. p1 \in Seq(Bytes) /\ Begins(h, p1)
  BY <1>k, OneMore, ZenonT(60)
<1>2. p2 \in Seq(Bytes) /\ Begins(p1, p2)
  BY <1>k, <1>1, OneMore, ZenonT(60)
<1>3. /\ p3 \in Seq(Bytes) /\ Begins(p2, p3) /\ Len(p3) = Len(p2) + Width(k3, v3)
      /\ ReadField(k3, p3, Len(p2)) = {v3}
  BY <1>2, OneMore, ZenonT(60)
<1>4. Begins(p1, p3) /\ Begins(h, p3)
  BY <1>1, <1>2, <1>3, BeginsTransitive, ZenonT(60)
<1>5. ReadField(k1, p3, Len(h)) = {v1} /\ Len(p1) = Len(h) + Size(k1)
  BY <1>3, <1>4, StillRead, ZenonT(60)
<1>6. ReadField(k2, p3, Len(p1)) = {v2} /\ Len(p2) = Len(p1) + Size(k2)
  BY <1>1, <1>3, StillRead, ZenonT(60)
<1> DEFINE kinds == <<k1, k2, k3>>
<1>7. Len(kinds) = 3 /\ kinds[1] = k1 /\ kinds[2] = k2 /\ kinds[3] = k3
  OBVIOUS
<1> HIDE DEF kinds, p1, p2, p3
<1>8. ReadBody(kinds, p3, Len(h)) =
          ReadField(k1, p3, Len(h)) \X ReadField(k2, p3, Len(p1)) \X ReadField(k3, p3, Len(p2))
  BY <1>5, <1>6, <1>7 DEF ReadBody
<1>9. ReadBody(kinds, p3, Len(h)) = {<<v1, v2, v3>>}
  BY <1>3, <1>5, <1>6, <1>8
<1>10. Len(p3) = Len(h) + (Size(k1) + Size(k2) + Width(k3, v3))
  <2>1. Size(k1) \in Nat /\ Size(k2) \in Nat /\ Width(k3, v3) \in Nat
    BY KindValues DEF Size, Width, Kinds
  <2>2. Len(p3) = ((Len(h) + Size(k1)) + Size(k2)) + Width(k3, v3)
    BY <1>3, <1>5, <1>6, Zenon
  <2>3. Len(h) \in Nat
    OBVIOUS
  <2> QED
    BY <2>1, <2>2, <2>3, SMTT(30)
<1> QED
  BY <1>3, <1>4, <1>9, <1>10, Zenon DEF Carries, kinds, p1, p2, p3

LEMMA BodyOfFour ==
    ASSUME NEW h \in Seq(Bytes), NEW k1 \in Kinds \ {"rest"}, NEW k2 \in Kinds \ {"rest"},
           NEW k3 \in Kinds \ {"rest"}, NEW k4 \in Kinds,
           NEW v1, v1 \in Values(k1), NEW v2, v2 \in Values(k2), NEW v3, v3 \in Values(k3),
           NEW v4, v4 \in Values(k4)
    PROVE  Carries(Add(Add(Add(Add(h, k1, v1), k2, v2), k3, v3), k4, v4), h,
                   <<k1, k2, k3, k4>>, <<v1, v2, v3, v4>>, Size(k1) + Size(k2) + Size(k3) + Width(k4, v4))
<1> DEFINE p1 == Add(h, k1, v1)
           p2 == Add(p1, k2, v2)
           p3 == Add(p2, k3, v3)
           p4 == Add(p3, k4, v4)
<1>k. k1 \in Kinds /\ k2 \in Kinds /\ k3 \in Kinds
  OBVIOUS
<1>1. p1 \in Seq(Bytes) /\ Begins(h, p1)
  BY <1>k, OneMore, ZenonT(60)
<1>2. p2 \in Seq(Bytes) /\ Begins(p1, p2)
  BY <1>k, <1>1, OneMore, ZenonT(60)
<1>3. p3 \in Seq(Bytes) /\ Begins(p2, p3)
  BY <1>k, <1>2, OneMore, ZenonT(60)
<1>4. /\ p4 \in Seq(Bytes) /\ Begins(p3, p4) /\ Len(p4) = Len(p3) + Width(k4, v4)
      /\ ReadField(k4, p4, Len(p3)) = {v4}
  BY <1>3, OneMore, ZenonT(60)
<1>5. Begins(p2, p4)
  BY <1>2, <1>3, <1>4, BeginsTransitive, ZenonT(60)
<1>6. Begins(p1, p4)
  BY <1>1, <1>2, <1>4, <1>5, BeginsTransitive, ZenonT(60)
<1>7. Begins(h, p4)
  BY <1>1, <1>4, <1>6, BeginsTransitive, ZenonT(60)
<1>8. ReadField(k1, p4, Len(h)) = {v1} /\ Len(p1) = Len(h) + Size(k1)
  BY <1>4, <1>6, StillRead, ZenonT(60)
<1>9. ReadField(k2, p4, Len(p1)) = {v2} /\ Len(p2) = Len(p1) + Size(k2)
  BY <1>1, <1>4, <1>5, StillRead, ZenonT(60)
<1>10. ReadField(k3, p4, Len(p2)) = {v3} /\ Len(p3) = Len(p2) + Size(k3)
  BY <1>2, <1>4, StillRead, ZenonT(60)
<1> DEFINE kinds == <<k1, k2, k3, k4>>
<1>11. Len(kinds) = 4 /\ kinds[1] = k1 /\ kinds[2] = k2 /\ kinds[3] = k3 /\ kinds[4] = k4
  OBVIOUS
<1> HIDE DEF kinds, p1, p2, p3, p4
<1>12. ReadBody(kinds, p4, Len(h)) =
           ReadField(k1, p4, Len(h)) \X ReadField(k2, p4, Len(p1))
             \X ReadField(k3, p4, Len(p2)) \X ReadField(k4, p4, Len(p3))
  BY <1>8, <1>9, <1>10, <1>11 DEF ReadBody
<1>13. ReadBody(kinds, p4, Len(h)) = {<<v1, v2, v3, v4>>}
  BY <1>4, <1>8, <1>9, <1>10, <1>12
<1>14. Len(p4) = Len(h) + (Size(k1) + Size(k2) + Size(k3) + Width(k4, v4))
  <2>1. Size(k1) \in Nat /\ Size(k2) \in Nat /\ Size(k3) \in Nat /\ Width(k4, v4) \in Nat
    BY KindValues DEF Size, Width, Kinds
  <2>2. Len(p2) = (Len(h) + Size(k1)) + Size(k2)
    BY <1>8, <1>9, Zenon
  <2>3. Len(p4) = ((((Len(h) + Size(k1)) + Size(k2)) + Size(k3))) + Width(k4, v4)
    BY <1>4, <1>10, <2>2, Zenon
  <2>4. Len(h) \in Nat
    OBVIOUS
  <2> QED
    BY <2>1, <2>3, <2>4, SMTT(30)
<1> QED
  BY <1>4, <1>7, <1>13, <1>14, Zenon DEF Carries, kinds, p1, p2, p3, p4

-----------------------------------------------------------------------------
(***************************************************************************)
(* A message that is written is read again.                                *)
(***************************************************************************)
Header(m) == <<LengthOf(m) % 256, MsgType[m.type]>>

LEMMA Headers ==
    ASSUME NEW m, m.type \in DOMAIN Fields, LengthOf(m) \in Nat
    PROVE  /\ Header(m) \in Seq(Bytes) /\ Len(Header(m)) = 2
           /\ Header(m)[1] = LengthOf(m) % 256 /\ Header(m)[2] = MsgType[m.type]
<1>1. LengthOf(m) % 256 \in Bytes
  BY DEF Bytes
<1>2. MsgType[m.type] \in Bytes
  BY DEF MsgType, Fields, Bytes
<1> QED
  BY <1>1, <1>2 DEF Header

LEMMA EmptyBody ==
    ASSUME NEW m, m.type \in DOMAIN Fields, LengthOf(m) \in Nat, Transmitted(m).body = <<>>
    PROVE  WriteMessage(m) = Header(m)
<1>1. Header(m) \in Seq(Bytes)
  BY Headers
<1>2. WriteMessage(m) = Header(m) \o <<>> \o <<>> \o <<>> \o <<>>
  BY DEF WriteMessage, WrittenField, Header
<1>3. Header(m) \o <<>> = Header(m)
  BY <1>1
<1> QED
  BY <1>2, <1>3

LEMMA OneField ==
    ASSUME NEW m, IsMessage(m), m.type # "PINGREQ", m.body # <<>>, LengthOf(m) \in Nat,
           NEW k1 \in Kinds,
           Fields[m.type] = <<k1>>
    PROVE  /\ m.body = <<m.body[1]>>
           /\ m.body[1] \in Values(k1)
           /\ WriteMessage(m) = Add(Header(m), k1, m.body[1])
<1> DEFINE kinds == Fields[m.type]
<1>1. m.body = [i \in DOMAIN kinds |-> m.body[i]] /\ \A i \in DOMAIN kinds : m.body[i] \in Values(kinds[i])
  BY DEF IsMessage
<1>2. /\ DOMAIN kinds = 1 .. 1
      /\ kinds[1] = k1
  OBVIOUS
<1> HIDE DEF kinds
<1>3. DOMAIN m.body = 1 .. 1
  BY <1>1, <1>2
<1>4. m.body[1] \in Values(k1)
  BY <1>1, <1>2
<1>5. m.body = <<m.body[1]>>
  BY <1>1, <1>2
<1>6. Transmitted(m).body = m.body
  BY DEF Transmitted
<1>7. /\ WrittenField(m, 1) = WriteField(k1, m.body[1])
      /\ WrittenField(m, 2) = <<>>
      /\ WrittenField(m, 3) = <<>>
      /\ WrittenField(m, 4) = <<>>
  BY <1>2, <1>3, <1>6 DEF WrittenField, kinds
<1>8. Add(Header(m), k1, m.body[1]) \in Seq(Bytes)
  <2>0. Header(m) \in Seq(Bytes)
    BY Headers DEF IsMessage
  <2>1. Add(Header(m), k1, m.body[1]) \in Seq(Bytes)
    BY <2>0, <1>4, OneMore
  <2> QED
    BY <2>1
<1>9. WriteMessage(m) = Add(Header(m), k1, m.body[1]) \o <<>> \o <<>> \o <<>>
  BY <1>7, Zenon DEF WriteMessage, Header, Add
<1>10. \A p \in Seq(Bytes) : p \o <<>> = p
  OBVIOUS
<1>11. WriteMessage(m) = Add(Header(m), k1, m.body[1])
  BY <1>8, <1>9, <1>10, Zenon
<1> QED
  BY <1>4, <1>5, <1>11, Zenon

LEMMA ThreeFields ==
    ASSUME NEW m, IsMessage(m), m.type # "PINGREQ", m.body # <<>>, LengthOf(m) \in Nat,
           NEW k1 \in Kinds \ {"rest"}, NEW k2 \in Kinds \ {"rest"},
           NEW k3 \in Kinds,
           Fields[m.type] = <<k1, k2, k3>>
    PROVE  /\ m.body = <<m.body[1], m.body[2], m.body[3]>>
           /\ m.body[1] \in Values(k1) /\ m.body[2] \in Values(k2) /\ m.body[3] \in Values(k3)
           /\ WriteMessage(m) = Add(Add(Add(Header(m), k1, m.body[1]), k2, m.body[2]), k3, m.body[3])
<1> DEFINE kinds == Fields[m.type]
<1>1. m.body = [i \in DOMAIN kinds |-> m.body[i]] /\ \A i \in DOMAIN kinds : m.body[i] \in Values(kinds[i])
  BY DEF IsMessage
<1>2. /\ DOMAIN kinds = 1 .. 3
      /\ kinds[1] = k1 /\ kinds[2] = k2 /\ kinds[3] = k3
  OBVIOUS
<1> HIDE DEF kinds
<1>3. DOMAIN m.body = 1 .. 3
  BY <1>1, <1>2
<1>4. m.body[1] \in Values(k1) /\ m.body[2] \in Values(k2) /\ m.body[3] \in Values(k3)
  BY <1>1, <1>2
<1>5. m.body = <<m.body[1], m.body[2], m.body[3]>>
  BY <1>1, <1>2
<1>6. Transmitted(m).body = m.body
  BY DEF Transmitted
<1>7. /\ WrittenField(m, 1) = WriteField(k1, m.body[1])
      /\ WrittenField(m, 2) = WriteField(k2, m.body[2])
      /\ WrittenField(m, 3) = WriteField(k3, m.body[3])
      /\ WrittenField(m, 4) = <<>>
  BY <1>2, <1>3, <1>6 DEF WrittenField, kinds
<1>8. Add(Add(Add(Header(m), k1, m.body[1]), k2, m.body[2]), k3, m.body[3]) \in Seq(Bytes)
  <2>0. Header(m) \in Seq(Bytes)
    BY Headers DEF IsMessage
  <2>1. Add(Header(m), k1, m.body[1]) \in Seq(Bytes)
    BY <2>0, <1>4, OneMore
  <2>2. Add(Add(Header(m), k1, m.body[1]), k2, m.body[2]) \in Seq(Bytes)
    BY <2>1, <1>4, OneMore
  <2>3. Add(Add(Add(Header(m), k1, m.body[1]), k2, m.body[2]), k3, m.body[3]) \in Seq(Bytes)
    BY <2>2, <1>4, OneMore
  <2> QED
    BY <2>3
<1>9. WriteMessage(m) = Add(Add(Add(Header(m), k1, m.body[1]), k2, m.body[2]), k3, m.body[3]) \o <<>>
  BY <1>7, Zenon DEF WriteMessage, Header, Add
<1>10. \A p \in Seq(Bytes) : p \o <<>> = p
  OBVIOUS
<1>11. WriteMessage(m) = Add(Add(Add(Header(m), k1, m.body[1]), k2, m.body[2]), k3, m.body[3])
  BY <1>8, <1>9, <1>10, Zenon
<1> QED
  BY <1>4, <1>5, <1>11, Zenon

LEMMA FourFields ==
    ASSUME NEW m, IsMessage(m), m.type # "PINGREQ", m.body # <<>>, LengthOf(m) \in Nat,
           NEW k1 \in Kinds \ {"rest"}, NEW k2 \in Kinds \ {"rest"},
           NEW k3 \in Kinds \ {"rest"}, NEW k4 \in Kinds,
           Fields[m.type] = <<k1, k2, k3, k4>>
    PROVE  /\ m.body = <<m.body[1], m.body[2], m.body[3], m.body[4]>>
           /\ m.body[1] \in Values(k1) /\ m.body[2] \in Values(k2) /\ m.body[3] \in Values(k3) /\ m.body[4] \in Values(k4)
           /\ WriteMessage(m) = Add(Add(Add(Add(Header(m), k1, m.body[1]), k2, m.body[2]), k3, m.body[3]), k4, m.body[4])
<1> DEFINE kinds == Fields[m.type]
<1>1. m.body = [i \in DOMAIN kinds |-> m.body[i]] /\ \A i \in DOMAIN kinds : m.body[i] \in Values(kinds[i])
  BY DEF IsMessage
<1>2. /\ DOMAIN kinds = 1 .. 4
      /\ kinds[1] = k1 /\ kinds[2] = k2 /\ kinds[3] = k3 /\ kinds[4] = k4
  OBVIOUS
<1> HIDE DEF kinds
<1>3. DOMAIN m.body = 1 .. 4
  BY <1>1, <1>2
<1>4. m.body[1] \in Values(k1) /\ m.body[2] \in Values(k2) /\ m.body[3] \in Values(k3) /\ m.body[4] \in Values(k4)
  BY <1>1, <1>2
<1>5. m.body = <<m.body[1], m.body[2], m.body[3], m.body[4]>>
  BY <1>1, <1>2
<1>6. Transmitted(m).body = m.body
  BY DEF Transmitted
<1>7. /\ WrittenField(m, 1) = WriteField(k1, m.body[1])
      /\ WrittenField(m, 2) = WriteField(k2, m.body[2])
      /\ WrittenField(m, 3) = WriteField(k3, m.body[3])
      /\ WrittenField(m, 4) = WriteField(k4, m.body[4])
  BY <1>2, <1>3, <1>6 DEF WrittenField, kinds
<1>8. Add(Add(Add(Add(Header(m), k1, m.body[1]), k2, m.body[2]), k3, m.body[3]), k4, m.body[4]) \in Seq(Bytes)
  <2>0. Header(m) \in Seq(Bytes)
    BY Headers DEF IsMessage
  <2>1. Add(Header(m), k1, m.body[1]) \in Seq(Bytes)
    BY <2>0, <1>4, OneMore
  <2>2. Add(Add(Header(m), k1, m.body[1]), k2, m.body[2]) \in Seq(Bytes)
    BY <2>1, <1>4, OneMore
  <2>3. Add(Add(Add(Header(m), k1, m.body[1]), k2, m.body[2]), k3, m.body[3]) \in Seq(Bytes)
    BY <2>2, <1>4, OneMore
  <2>4. Add(Add(Add(Add(Header(m), k1, m.body[1]), k2, m.body[2]), k3, m.body[3]), k4, m.body[4]) \in Seq(Bytes)
    BY <2>3, <1>4, OneMore
  <2> QED
    BY <2>4
<1>9. WriteMessage(m) = Add(Add(Add(Add(Header(m), k1, m.body[1]), k2, m.body[2]), k3, m.body[3]), k4, m.body[4])
  BY <1>7, Zenon DEF WriteMessage, Header, Add
<1>10. \A p \in Seq(Bytes) : p \o <<>> = p
  OBVIOUS
<1>11. WriteMessage(m) = Add(Add(Add(Add(Header(m), k1, m.body[1]), k2, m.body[2]), k3, m.body[3]), k4, m.body[4])
  BY <1>8, <1>9, <1>10, Zenon
<1> QED
  BY <1>4, <1>5, <1>11, Zenon

ReadBack(m) ==
    /\ WriteMessage(m) \in Seq(Bytes)
    /\ Len(WriteMessage(m)) = LengthOf(m) /\ LengthOf(m) >= 2
    /\ WriteMessage(m)[1] = LengthOf(m) % 256
    /\ WriteMessage(m)[2] = MsgType[m.type]
    /\ ReadBody(Present(m.type, WriteMessage(m), 2), WriteMessage(m), 2) = {Transmitted(m).body}

\* What follows the header does not change it.
LEMMA Behind ==
    ASSUME NEW m, m.type \in DOMAIN Fields, LengthOf(m) \in Nat,
           NEW w, w \in Seq(Bytes), Begins(Header(m), w)
    PROVE  w[1] = LengthOf(m) % 256 /\ w[2] = MsgType[m.type]
  BY Headers DEF Begins

LEMMA OneBack ==
    ASSUME NEW m, IsMessage(m), m.type # "PINGREQ", m.body # <<>>, LengthOf(m) \in Nat,
           NEW k1 \in Kinds,
           Fields[m.type] = <<k1>>,
           LengthOf(m) = 2 + Width(k1, m.body[1]), LengthOf(m) > 2
    PROVE  ReadBack(m)
<1> DEFINE w == WriteMessage(m)
<1>1. /\ m.body = <<m.body[1]>>
      /\ m.body[1] \in Values(k1)
      /\ w = Add(Header(m), k1, m.body[1])
  BY OneField, Zenon
<1>2. Header(m) \in Seq(Bytes) /\ Len(Header(m)) = 2 /\ m.type \in DOMAIN Fields
  BY Headers DEF IsMessage
<1> HIDE DEF w
<1>3. Carries(w, Header(m), <<k1>>, <<m.body[1]>>,
              Width(k1, m.body[1]))
  BY <1>1, <1>2, BodyOfOne, Zenon
<1>4. Len(w) = LengthOf(m)
  BY <1>2, <1>3 DEF Carries
<1>5. w[1] = LengthOf(m) % 256 /\ w[2] = MsgType[m.type]
  BY <1>2, <1>3, Behind, Zenon DEF Carries
<1>6. Present(m.type, w, 2) = Fields[m.type]
  BY <1>4 DEF Present
<1>7. Transmitted(m).body = m.body
  BY DEF Transmitted
<1>8. ReadBody(Present(m.type, w, 2), w, 2) = {Transmitted(m).body}
  BY <1>1, <1>2, <1>3, <1>6, <1>7, Zenon DEF Carries
<1>9. LengthOf(m) >= 2
  OBVIOUS
<1> QED
  BY <1>3, <1>4, <1>5, <1>8, <1>9 DEF ReadBack, Carries, w

LEMMA ThreeBack ==
    ASSUME NEW m, IsMessage(m), m.type # "PINGREQ", m.body # <<>>, LengthOf(m) \in Nat,
           NEW k1 \in Kinds \ {"rest"}, NEW k2 \in Kinds \ {"rest"},
           NEW k3 \in Kinds,
           Fields[m.type] = <<k1, k2, k3>>,
           LengthOf(m) = 2 + (Size(k1) + Size(k2) + Width(k3, m.body[3])), LengthOf(m) > 2
    PROVE  ReadBack(m)
<1> DEFINE w == WriteMessage(m)
<1>1. /\ m.body = <<m.body[1], m.body[2], m.body[3]>>
      /\ m.body[1] \in Values(k1) /\ m.body[2] \in Values(k2) /\ m.body[3] \in Values(k3)
      /\ w = Add(Add(Add(Header(m), k1, m.body[1]), k2, m.body[2]), k3, m.body[3])
  BY ThreeFields, Zenon
<1>2. Header(m) \in Seq(Bytes) /\ Len(Header(m)) = 2 /\ m.type \in DOMAIN Fields
  BY Headers DEF IsMessage
<1> HIDE DEF w
<1>3. Carries(w, Header(m), <<k1, k2, k3>>, <<m.body[1], m.body[2], m.body[3]>>,
              Size(k1) + Size(k2) + Width(k3, m.body[3]))
  BY <1>1, <1>2, BodyOfThree, Zenon
<1>4. Len(w) = LengthOf(m)
  BY <1>2, <1>3 DEF Carries
<1>5. w[1] = LengthOf(m) % 256 /\ w[2] = MsgType[m.type]
  BY <1>2, <1>3, Behind, Zenon DEF Carries
<1>6. Present(m.type, w, 2) = Fields[m.type]
  BY <1>4 DEF Present
<1>7. Transmitted(m).body = m.body
  BY DEF Transmitted
<1>8. ReadBody(Present(m.type, w, 2), w, 2) = {Transmitted(m).body}
  BY <1>1, <1>2, <1>3, <1>6, <1>7, Zenon DEF Carries
<1>9. LengthOf(m) >= 2
  OBVIOUS
<1> QED
  BY <1>3, <1>4, <1>5, <1>8, <1>9 DEF ReadBack, Carries, w

LEMMA FourBack ==
    ASSUME NEW m, IsMessage(m), m.type # "PINGREQ", m.body # <<>>, LengthOf(m) \in Nat,
           NEW k1 \in Kinds \ {"rest"}, NEW k2 \in Kinds \ {"rest"},
           NEW k3 \in Kinds \ {"rest"}, NEW k4 \in Kinds,
           Fields[m.type] = <<k1, k2, k3, k4>>,
           LengthOf(m) = 2 + (Size(k1) + Size(k2) + Size(k3) + Width(k4, m.body[4])), LengthOf(m) > 2
    PROVE  ReadBack(m)
<1> DEFINE w == WriteMessage(m)
<1>1. /\ m.body = <<m.body[1], m.body[2], m.body[3], m.body[4]>>
      /\ m.body[1] \in Values(k1) /\ m.body[2] \in Values(k2) /\ m.body[3] \in Values(k3) /\ m.body[4] \in Values(k4)
      /\ w = Add(Add(Add(Add(Header(m), k1, m.body[1]), k2, m.body[2]), k3, m.body[3]), k4, m.body[4])
  BY FourFields, Zenon
<1>2. Header(m) \in Seq(Bytes) /\ Len(Header(m)) = 2 /\ m.type \in DOMAIN Fields
  BY Headers DEF IsMessage
<1> HIDE DEF w
<1>3. Carries(w, Header(m), <<k1, k2, k3, k4>>, <<m.body[1], m.body[2], m.body[3], m.body[4]>>,
              Size(k1) + Size(k2) + Size(k3) + Width(k4, m.body[4]))
  BY <1>1, <1>2, BodyOfFour, Zenon
<1>4. Len(w) = LengthOf(m)
  BY <1>2, <1>3 DEF Carries
<1>5. w[1] = LengthOf(m) % 256 /\ w[2] = MsgType[m.type]
  BY <1>2, <1>3, Behind, Zenon DEF Carries
<1>6. Present(m.type, w, 2) = Fields[m.type]
  BY <1>4 DEF Present
<1>7. Transmitted(m).body = m.body
  BY DEF Transmitted
<1>8. ReadBody(Present(m.type, w, 2), w, 2) = {Transmitted(m).body}
  BY <1>1, <1>2, <1>3, <1>6, <1>7, Zenon DEF Carries
<1>9. LengthOf(m) >= 2
  OBVIOUS
<1> QED
  BY <1>3, <1>4, <1>5, <1>8, <1>9 DEF ReadBack, Carries, w

LEMMA NoneBack ==
    ASSUME NEW m, IsMessage(m), Transmitted(m).body = <<>>, LengthOf(m) = 2,
           m.type \in Optional \/ Fields[m.type] = <<>>
    PROVE  ReadBack(m)
<1> DEFINE w == WriteMessage(m)
<1>1. m.type \in DOMAIN Fields /\ LengthOf(m) \in Nat
  BY DEF IsMessage
<1>2. w = Header(m)
  BY <1>1, EmptyBody
<1>3. /\ w \in Seq(Bytes) /\ Len(w) = 2
      /\ w[1] = LengthOf(m) % 256 /\ w[2] = MsgType[m.type]
  BY <1>1, <1>2, Headers
<1> HIDE DEF w
<1>4. Present(m.type, w, 2) = <<>>
  BY <1>3 DEF Present
<1>5. ReadBody(<<>>, w, 2) = {<<>>}
  BY DEF ReadBody
<1> QED
  BY <1>3, <1>4, <1>5 DEF ReadBack, w

-----------------------------------------------------------------------------
\* The last field of a body that is not left out.
LEMMA LastField ==
    ASSUME NEW m, IsMessage(m), m.body # <<>> \/ m.type \notin Optional,
           NEW n \in {1, 3, 4}, DOMAIN Fields[m.type] = 1 .. n
    PROVE  /\ m.body # <<>> /\ Len(m.body) = n
           /\ m.body[n] \in Values(Fields[m.type][n])
<1> DEFINE kinds == Fields[m.type]
<1>1. m.body = [i \in DOMAIN kinds |-> m.body[i]] /\ \A i \in DOMAIN kinds : m.body[i] \in Values(kinds[i])
  BY DEF IsMessage
<1> HIDE DEF kinds
<1>2. DOMAIN kinds = 1 .. n
  BY DEF kinds
<1>3. m.body[n] \in Values(kinds[n])
  BY <1>1, <1>2
<1>4. Len(m.body) = n /\ m.body # <<>>
  <2>1. n \in Nat /\ n > 0 /\ m.body = [i \in 1 .. n |-> m.body[i]]
    BY <1>1, <1>2
  <2>2. ASSUME NEW b, b = [i \in 1 .. n |-> b[i]]
        PROVE  Len(b) = n
    <3>1. b \in [1 .. n -> {b[i] : i \in 1 .. n}]
      BY <2>2
    <3>2. b \in Seq({b[i] : i \in 1 .. n}) /\ DOMAIN b = 1 .. n
      BY <3>1, <2>1
    <3> QED
      BY <3>2, <2>1
  <2> QED
    BY <2>1, <2>2
<1> QED
  BY <1>3, <1>4 DEF kinds

LEMMA Sizes ==
    /\ Size("byte") = 1 /\ Size("word") = 2
    /\ \A value : Width("byte", value) = 1 /\ Width("word", value) = 2
    /\ \A value \in Values("rest") : Width("rest", value) = Len(value) /\ Len(value) \in Nat
    /\ "byte" \in Kinds \ {"rest"} /\ "word" \in Kinds \ {"rest"} /\ "rest" \in Kinds
  BY KindValues DEF Size, Width, Kinds

LEMMA EveryMessage ==
    ASSUME NEW m, IsMessage(m)
    PROVE  ReadBack(m)
<1>t. m.type \in DOMAIN Fields
  BY DEF IsMessage
<1>1. CASE m.type = "CONNECT"
  <2>1. Fields[m.type] = <<"byte", "byte", "word", "rest">> /\ m.type \notin Optional
    BY <1>1 DEF Fields, Optional
  <2>2. m.body # <<>> /\ Len(m.body) = 4 /\ m.body[4] \in Values("rest")
    BY <2>1, LastField
  <2>3. LengthOf(m) = 6 + Len(m.body[4])
    BY <1>1, <2>2 DEF LengthOf, Text
  <2> QED
    BY <1>1, <2>1, <2>2, <2>3, Sizes, FourBack, SMTT(60)
<1>2. CASE m.type = "PUBLISH"
  <2>1. Fields[m.type] = <<"byte", "word", "word", "rest">> /\ m.type \notin Optional
    BY <1>2 DEF Fields, Optional
  <2>2. m.body # <<>> /\ Len(m.body) = 4 /\ m.body[4] \in Values("rest")
    BY <2>1, LastField
  <2>3. LengthOf(m) = 7 + Len(m.body[4])
    BY <1>2, <2>2 DEF LengthOf, Text
  <2> QED
    BY <1>2, <2>1, <2>2, <2>3, Sizes, FourBack, SMTT(60)
<1>3. CASE m.type = "REGISTER"
  <2>1. Fields[m.type] = <<"word", "word", "rest">> /\ m.type \notin Optional
    BY <1>3 DEF Fields, Optional
  <2>2. m.body # <<>> /\ Len(m.body) = 3 /\ m.body[3] \in Values("rest")
    BY <1>3, <2>1, LastField
  <2>3. LengthOf(m) = 6 + Len(m.body[3])
    BY <1>3, <2>2 DEF LengthOf, Text
  <2> QED
    BY <1>3, <2>1, <2>2, <2>3, Sizes, ThreeBack, SMTT(60)
<1>4. CASE m.type = "SUBSCRIBE"
  <2>1. Fields[m.type] = <<"byte", "word", "rest">> /\ m.type \notin Optional
    BY <1>4 DEF Fields, Optional
  <2>2. m.body # <<>> /\ Len(m.body) = 3 /\ m.body[3] \in Values("rest")
    BY <1>4, <2>1, LastField
  <2>3. LengthOf(m) = 5 + Len(m.body[3])
    BY <1>4, <2>2 DEF LengthOf, Text
  <2> QED
    BY <1>4, <2>1, <2>2, <2>3, Sizes, ThreeBack, SMTT(60)
<1>5. CASE m.type = "CONNACK"
  <2>1. Fields[m.type] = <<"byte">> /\ m.type \notin Optional
    BY <1>5 DEF Fields, Optional
  <2>2. m.body # <<>> /\ Len(m.body) = 1 /\ m.body[1] \in Values("byte")
    BY <1>5, <2>1, LastField
  <2>3. LengthOf(m) = 3
    BY <1>5, <2>2 DEF LengthOf
  <2> QED
    BY <1>5, <2>1, <2>2, <2>3, Sizes, OneBack
<1>6. CASE m.type = "REGACK"
  <2>1. Fields[m.type] = <<"word", "word", "byte">> /\ m.type \notin Optional
    BY <1>6 DEF Fields, Optional
  <2>2. m.body # <<>> /\ Len(m.body) = 3 /\ m.body[3] \in Values("byte")
    BY <1>6, <2>1, LastField
  <2>3. LengthOf(m) = 7
    BY <1>6, <2>2 DEF LengthOf
  <2> QED
    BY <1>6, <2>1, <2>2, <2>3, Sizes, ThreeBack, SMTT(60)
<1>7. CASE m.type = "SUBACK"
  <2>1. Fields[m.type] = <<"byte", "word", "word", "byte">> /\ m.type \notin Optional
    BY <1>7 DEF Fields, Optional
  <2>2. m.body # <<>> /\ Len(m.body) = 4 /\ m.body[4] \in Values("byte")
    BY <1>7, <2>1, LastField
  <2>3. LengthOf(m) = 8
    BY <1>7, <2>2 DEF LengthOf
  <2> QED
    BY <1>7, <2>1, <2>2, <2>3, Sizes, FourBack, SMTT(60)
<1>8. CASE m.type = "DISCONNECT" /\ m.body # <<>>
  <2>1. Fields[m.type] = <<"word">>
    BY <1>8 DEF Fields, Optional
  <2>2. m.body # <<>> /\ Len(m.body) = 1 /\ m.body[1] \in Values("word")
    BY <1>8, <2>1, LastField
  <2>3. LengthOf(m) = 4
    BY <1>8, <2>2 DEF LengthOf
  <2> QED
    BY <1>8, <2>1, <2>2, <2>3, Sizes, OneBack
<1>9. CASE m.type = "DISCONNECT" /\ m.body = <<>>
  <2>1. LengthOf(m) = 2 /\ Transmitted(m).body = <<>> /\ m.type \in Optional
    BY <1>9 DEF LengthOf, Transmitted, Optional
  <2> QED
    BY <2>1, NoneBack
<1>10. CASE m.type = "PINGREQ"
  <2>1. LengthOf(m) = 2 /\ m.type \in Optional
    BY <1>10 DEF LengthOf, Optional
  <2>2. m = [type |-> m.type, body |-> m.body]
    BY DEF IsMessage
  <2>3. Transmitted(m).body = <<>>
    BY <1>10, <2>2 DEF Transmitted
  <2> QED
    BY <2>1, <2>3, NoneBack
<1>11. CASE m.type = "PINGRESP"
  <2>1. LengthOf(m) = 2 /\ Fields[m.type] = <<>> /\ m.type \notin Optional
    BY <1>11 DEF LengthOf, Fields, Optional
  <2>2. m.body = <<>>
    <3>1. m.body = [i \in DOMAIN Fields[m.type] |-> m.body[i]]
      BY <2>1 DEF IsMessage
    <3> QED
      BY <2>1, <3>1
  <2>3. Transmitted(m).body = <<>>
    BY <1>11, <2>2 DEF Transmitted
  <2> QED
    BY <2>1, <2>3, NoneBack
<1> QED
  BY <1>t, <1>1, <1>2, <1>3, <1>4, <1>5, <1>6, <1>7, <1>8, <1>9, <1>10, <1>11 DEF Fields

-----------------------------------------------------------------------------
(***************************************************************************)
(* Parsing what fits, and what does not.                                   *)
(***************************************************************************)
LEMMA Capacity == PAYLOAD_CAPACITY = 29
  BY DEF PAYLOAD_CAPACITY

\* The length byte: what fits keeps its length, what is cut does not get 29.
LEMMA LengthByte ==
    ASSUME NEW length \in Nat, length < 285
    PROVE  /\ length <= 29 => length % 256 = length
           /\ length > 29 => length % 256 # 29
<1>1. CASE length < 256
  BY <1>1
<1>2. CASE length >= 256
  <2>1. length - 256 \in 0 .. 28 /\ length = (length - 256) + 256
    BY <1>2
  <2>2. length % 256 = length - 256
    BY <2>1
  <2> QED
    BY <2>1, <2>2
<1> QED
  BY <1>1, <1>2

\* No two types have the same number.
LEMMA TypesDiffer ==
    ASSUME NEW t \in DOMAIN Fields
    PROVE  {u \in DOMAIN MsgType : MsgType[u] = MsgType[t]} = {t}
<1>1. t \in DOMAIN MsgType
  BY DEF Fields, MsgType
<1>2. ASSUME NEW u \in DOMAIN MsgType, MsgType[u] = MsgType[t]
      PROVE  u = t
  BY <1>1, <1>2 DEF MsgType
<1> QED
  BY <1>1, <1>2

LEMMA ResizeBack ==
    ASSUME NEW w \in Seq(Bytes), NEW n \in Nat, Len(w) <= n
    PROVE  Resize(Resize(w, n), Len(w)) = w
<1> DEFINE r == Resize(w, n)
<1>1. Len(r) = n /\ \A i \in 1 .. Len(w) : r[i] = w[i]
  BY DEF Resize
<1> HIDE DEF r
<1>2. Resize(r, Len(w)) = [i \in 1 .. Len(w) |-> w[i]]
  BY <1>1 DEF Resize
<1> QED
  BY <1>2 DEF r

LEMMA Parsed ==
    ASSUME NEW m, IsMessage(m), LengthOf(m) <= PAYLOAD_CAPACITY
    PROVE  Parse(Resize(WriteMessage(m), PAYLOAD_CAPACITY + 1)) = {Transmitted(m)}
<1> DEFINE w == WriteMessage(m)
           r == Resize(w, PAYLOAD_CAPACITY + 1)
<1>1. /\ w \in Seq(Bytes) /\ Len(w) = LengthOf(m) /\ LengthOf(m) >= 2
      /\ w[1] = LengthOf(m) % 256 /\ w[2] = MsgType[m.type]
      /\ ReadBody(Present(m.type, w, 2), w, 2) = {Transmitted(m).body}
  BY EveryMessage DEF ReadBack
<1> HIDE DEF w
<1>2. LengthOf(m) \in Nat /\ LengthOf(m) <= 29 /\ LengthOf(m) # 1 /\ w[1] = LengthOf(m)
  <2>1. LengthOf(m) \in Nat /\ LengthOf(m) <= 29 /\ LengthOf(m) # 1
    BY <1>1, Capacity
  <2> QED
    BY <1>1, <2>1, LengthByte
<1>3. r[1] = LengthOf(m)
  BY <1>1, <1>2 DEF Resize, PAYLOAD_CAPACITY
<1>4. Resize(r, LengthOf(m)) = w
  BY <1>1, <1>2, ResizeBack DEF PAYLOAD_CAPACITY
<1>5. Parse(r) = ParseFrame(w, 1)
  BY <1>2, <1>3, <1>4 DEF Parse
<1>6. ReadByte(w, 1) = {MsgType[m.type]}
  BY <1>1, <1>2 DEF ReadByte
<1>7. ParseFrame(w, 1) = ParseBody(MsgType[m.type], w, 2)
  <2>1. ~(Len(w) < 1)
    BY <1>1
  <2> QED
    BY <1>6, <2>1 DEF ParseFrame
<1>8. ParseBody(MsgType[m.type], w, 2) = {[type |-> m.type, body |-> Transmitted(m).body]}
  <2>1. {t \in DOMAIN MsgType : MsgType[t] = MsgType[m.type]} = {m.type}
    BY TypesDiffer DEF IsMessage
  <2> QED
    BY <1>1, <2>1 DEF ParseBody
<1>9. Transmitted(m) = [type |-> m.type, body |-> Transmitted(m).body]
  BY DEF Transmitted, IsMessage
<1> QED
  BY <1>5, <1>7, <1>8, <1>9 DEF w

\* The length of what is cut is not the length of what is left.
LEMMA CutIsNoticed ==
    ASSUME NEW m, IsMessage(m),
           LengthOf(m) > PAYLOAD_CAPACITY, LengthOf(m) < PAYLOAD_CAPACITY + 256
    PROVE  LET packet == Cut(WriteMessage(m))
           IN  packet # <<>> /\ packet[1] # Len(packet)
<1> DEFINE w == WriteMessage(m)
<1>1. w \in Seq(Bytes) /\ Len(w) = LengthOf(m) /\ w[1] = LengthOf(m) % 256
  BY EveryMessage DEF ReadBack
<1> HIDE DEF w
<1>2. Len(w) \in Nat /\ Len(w) > 29 /\ Len(w) < 285
  BY <1>1, Capacity
<1>3. Cut(w) = SubSeq(w, 1, 29)
  BY <1>2, Capacity DEF Cut
<1>4. Len(Cut(w)) = 29 /\ Cut(w)[1] = w[1]
  BY <1>1, <1>2, <1>3
<1>5. w[1] # 29
  BY <1>1, <1>2, LengthByte
<1>6. Cut(w) # <<>>
  <2>1. Len(<<>>) # 29
    OBVIOUS
  <2> QED
    BY <1>4, <2>1, Zenon
<1> QED
  BY <1>4, <1>5, <1>6 DEF w

LEMMA FitsUncut ==
    ASSUME NEW m, IsMessage(m), LengthOf(m) <= PAYLOAD_CAPACITY
    PROVE  /\ Cut(WriteMessage(m)) = WriteMessage(m)
           /\ WriteMessage(m) # <<>> /\ WriteMessage(m)[1] = Len(WriteMessage(m))
  BY EveryMessage DEF ReadBack, Cut, PAYLOAD_CAPACITY

\* What the parser makes of an accepted packet of more than one byte.
LEMMA ParsedIsDefined ==
    ASSUME NEW packet \in Seq(Bytes), Len(packet) <= PAYLOAD_CAPACITY,
           packet # <<>>, packet[1] = Len(packet), packet # << 1 >>,
           NEW m \in Parse(Resize(packet, PAYLOAD_CAPACITY + 1))
    PROVE  m.type # "undefined"
<1> DEFINE r == Resize(packet, PAYLOAD_CAPACITY + 1)
<1>1. Len(packet) \in Nat /\ Len(packet) <= 29 /\ Len(packet) > 1
  <2>1. Len(packet) \in Nat /\ Len(packet) <= 29 /\ Len(packet) > 0
    BY Capacity
  <2>2. Len(packet) # 1
    <3>1. Len(packet) = 1 => packet = <<packet[1]>>
      OBVIOUS
    <3> QED
      BY <3>1
  <2>3. \A n \in Nat : n > 0 /\ n # 1 => n > 1
    OBVIOUS
  <2> QED
    BY <2>1, <2>2, <2>3, Zenon
<1>2. r[1] = Len(packet)
  BY <1>1 DEF Resize, PAYLOAD_CAPACITY
<1>3. Resize(r, Len(packet)) = packet
  BY <1>1, ResizeBack DEF PAYLOAD_CAPACITY
<1> HIDE DEF r
<1>4. m \in ParseFrame(packet, 1)
  <2>1. m \in Parse(r)
    BY DEF r
  <2>2. r[1] # 1
    <3>1. \A n \in Nat : n > 1 => n # 1
      OBVIOUS
    <3> QED
      BY <1>1, <1>2, <3>1, Zenon
  <2> QED
    BY <2>1, <2>2, <1>2, <1>3, Zenon DEF Parse
<1>5. PICK rawMsgType : m \in ParseBody(rawMsgType, packet, 2)
  BY <1>1, <1>4 DEF ParseFrame
<1>6. m.type = "null" \/ m.type \in DOMAIN MsgType
  BY <1>5 DEF ParseBody
<1> QED
  BY <1>6 DEF MsgType

-----------------------------------------------------------------------------
(***************************************************************************)
(* The bytes on their way are those of the message that was written.       *)
(***************************************************************************)
OnItsWay ==
    /\ stage \in {"idle", "written", "packet", "received"}
    /\ message = <<>> \/ \E m \in Messages : message = <<m>>
    /\ stage = "idle" => message = <<>>
    /\ stage # "received" => handled = <<>>
    /\ stage = "written" => message # <<>> /\ buffer = WriteMessage(message[1])
    /\ stage = "packet" =>
          /\ buffer \in Seq(Bytes) /\ Len(buffer) <= PAYLOAD_CAPACITY
          /\ message # <<>> => buffer = Cut(WriteMessage(message[1]))

LEMMA OnItsWayInit == MessageInit => OnItsWay
  BY DEF MessageInit, OnItsWay

LEMMA CutFits ==
    ASSUME NEW m, IsMessage(m)
    PROVE  Cut(WriteMessage(m)) \in Seq(Bytes) /\ Len(Cut(WriteMessage(m))) <= PAYLOAD_CAPACITY
<1> DEFINE w == WriteMessage(m)
<1>1. w \in Seq(Bytes)
  BY EveryMessage DEF ReadBack
<1> HIDE DEF w
<1>2. Cut(w) \in Seq(Bytes) /\ Len(Cut(w)) <= PAYLOAD_CAPACITY
  <2>1. CASE Len(w) <= PAYLOAD_CAPACITY
    BY <1>1, <2>1 DEF Cut
  <2>2. CASE ~(Len(w) <= PAYLOAD_CAPACITY)
    <3>1. Cut(w) = SubSeq(w, 1, 29) /\ Len(w) \in Nat /\ Len(w) > 29
      BY <1>1, <2>2, Capacity DEF Cut
    <3>2. SubSeq(w, 1, 29) \in Seq(Bytes) /\ Len(SubSeq(w, 1, 29)) = 29
      <4>1. ASSUME NEW i \in 1 .. 29 PROVE w[i] \in Bytes
        <5>1. i \in 1 .. Len(w)
          <6>1. \A n \in Nat : n > 29 => i \in 1 .. n
            OBVIOUS
          <6> QED
            BY <3>1, <6>1, Zenon
        <5>2. w \in [1 .. Len(w) -> Bytes]
          BY <1>1
        <5> QED
          BY <5>1, <5>2
      <4>2. Len(SubSeq(w, 1, 29)) = 29
        BY <1>1, <3>1
      <4>3. SubSeq(w, 1, 29) \in Seq(Bytes)
        BY <1>1, <3>1, <4>1
      <4> QED
        BY <4>2, <4>3
    <3>3. 29 <= PAYLOAD_CAPACITY
      BY Capacity
    <3> QED
      BY <3>1, <3>2, <3>3, Zenon
  <2> QED
    BY <2>1, <2>2
<1> QED
  BY <1>2 DEF w

LEMMA OnItsWayStep == OnItsWay /\ [MessageNext]_messageVars => OnItsWay'
<1> SUFFICES ASSUME OnItsWay, [MessageNext]_messageVars PROVE OnItsWay'
  OBVIOUS
<1> USE DEF OnItsWay
<1>1. ASSUME NEW m \in Messages, Write(m)
      PROVE  OnItsWay'
  BY <1>1 DEF Write
<1>2. ASSUME NEW packet \in ForeignPackets, ForeignPacket(packet)
      PROVE  OnItsWay'
  BY <1>2, MessagesAssumption DEF ForeignPacket
<1>3. CASE Send
  <2>1. PICK m \in Messages : message = <<m>> /\ buffer = WriteMessage(m)
    BY <1>3 DEF Send
  <2>2. Cut(buffer) \in Seq(Bytes) /\ Len(Cut(buffer)) <= PAYLOAD_CAPACITY
    BY <2>1, CutFits, MessagesAssumption
  <2> QED
    BY <1>3, <2>1, <2>2 DEF Send
<1>4. CASE Receive
  BY <1>4 DEF Receive
<1>5. CASE NextMessage
  BY <1>5 DEF NextMessage
<1>6. CASE UNCHANGED messageVars
  BY <1>6 DEF messageVars
<1> QED
  BY <1>1, <1>2, <1>3, <1>4, <1>5, <1>6 DEF MessageNext

LEMMA HandledStep == OnItsWay /\ HandledAsWritten /\ [MessageNext]_messageVars => HandledAsWritten'
<1> SUFFICES ASSUME OnItsWay, HandledAsWritten, [MessageNext]_messageVars,
                    stage' = "received", message' # <<>>,
                    LengthOf(message'[1]) < PAYLOAD_CAPACITY + 256
             PROVE  handled' = IF LengthOf(message'[1]) <= PAYLOAD_CAPACITY
                               THEN <<Transmitted(message'[1])>> ELSE <<>>
  BY DEF HandledAsWritten
<1>1. CASE Receive
  <2>1. stage = "packet" /\ message' = message
    BY <1>1 DEF Receive
  <2>2. PICK m \in Messages : message = <<m>> /\ buffer = Cut(WriteMessage(m)) /\ handled = <<>>
    BY <2>1 DEF OnItsWay
  <2>3. IsMessage(m) /\ message'[1] = m
    BY <2>1, <2>2, MessagesAssumption
  <2>4. CASE LengthOf(m) <= PAYLOAD_CAPACITY
    <3>1. buffer = WriteMessage(m) /\ buffer # <<>> /\ buffer[1] = Len(buffer)
      BY <2>2, <2>3, <2>4, FitsUncut, Zenon
    <3>2. PICK n \in Parse(Resize(buffer, PAYLOAD_CAPACITY + 1)) :
             handled' = IF n.type = "null" THEN <<>> ELSE <<n>>
      BY <1>1, <3>1 DEF Receive
    <3>3. n = Transmitted(m)
      BY <2>3, <2>4, <3>1, <3>2, Parsed
    <3>4. n.type # "null"
      BY <2>3, <3>3 DEF Transmitted, IsMessage, Fields
    <3> QED
      BY <2>3, <2>4, <3>2, <3>3, <3>4
  <2>5. CASE ~(LengthOf(m) <= PAYLOAD_CAPACITY)
    <3>1. LengthOf(m) > PAYLOAD_CAPACITY /\ LengthOf(m) < PAYLOAD_CAPACITY + 256
      <4>1. LengthOf(m) \in Nat
        BY <2>3, EveryMessage DEF ReadBack
      <4> QED
        BY <2>3, <2>5, <4>1, Capacity
    <3>2. buffer # <<>> /\ buffer[1] # Len(buffer)
      BY <2>2, <2>3, <3>1, CutIsNoticed
    <3>3. handled' = <<>>
      BY <1>1, <2>2, <3>2 DEF Receive
    <3> QED
      BY <2>3, <2>5, <3>3
  <2> QED
    BY <2>4, <2>5
<1>2. CASE UNCHANGED messageVars
  BY <1>2 DEF messageVars, HandledAsWritten
<1>3. CASE \/ \E m \in Messages : Write(m)
           \/ \E packet \in ForeignPackets : ForeignPacket(packet)
           \/ Send \/ NextMessage
  BY <1>3 DEF Write, ForeignPacket, Send, NextMessage
<1> QED
  BY <1>1, <1>2, <1>3 DEF MessageNext

LEMMA ParseStep == OnItsWay /\ ParseIsDefined /\ [MessageNext]_messageVars => ParseIsDefined'
<1> SUFFICES ASSUME OnItsWay, ParseIsDefined, [MessageNext]_messageVars,
                    stage' = "received", handled' # <<>>, handled'[1].type = "undefined"
             PROVE  buffer' = << 1 >>
  BY DEF ParseIsDefined
<1>1. CASE Receive
  <2>1. /\ buffer' = buffer /\ buffer \in Seq(Bytes) /\ Len(buffer) <= PAYLOAD_CAPACITY
        /\ handled = <<>>
    BY <1>1 DEF Receive, OnItsWay
  <2>2. /\ buffer # <<>> /\ buffer[1] = Len(buffer)
        /\ \E n \in Parse(Resize(buffer, PAYLOAD_CAPACITY + 1)) :
              handled' = IF n.type = "null" THEN <<>> ELSE <<n>>
    BY <1>1, <2>1 DEF Receive
  <2>3. PICK n \in Parse(Resize(buffer, PAYLOAD_CAPACITY + 1)) : handled' = <<n>>
    BY <2>2
  <2>4. n.type = "undefined"
    BY <2>3
  <2> QED
    BY <2>1, <2>2, <2>3, <2>4, ParsedIsDefined
<1>2. CASE UNCHANGED messageVars
  BY <1>2 DEF messageVars, ParseIsDefined
<1>3. CASE \/ \E m \in Messages : Write(m)
           \/ \E packet \in ForeignPackets : ForeignPacket(packet)
           \/ Send \/ NextMessage
  BY <1>3 DEF Write, ForeignPacket, Send, NextMessage
<1> QED
  BY <1>1, <1>2, <1>3 DEF MessageNext

LEMMA PropertiesInit == MessageInit => HandledAsWritten /\ ParseIsDefined
  BY DEF MessageInit, HandledAsWritten, ParseIsDefined

(* For messages of any content a packet is handed over exactly as the      *)
(* message was written, or not at all.                                     *)
THEOREM AlwaysHandledAsWritten == MessageSpec => []HandledAsWritten
  BY OnItsWayInit, PropertiesInit, OnItsWayStep, HandledStep, PTL DEF MessageSpec

(* Whatever bytes a packet has: only the byte 1 alone is beyond the        *)
(* parser.                                                                 *)
THEOREM ParseIsAlwaysDefined == MessageSpec => []ParseIsDefined
  BY OnItsWayInit, PropertiesInit, OnItsWayStep, ParseStep, PTL DEF MessageSpec

-----------------------------------------------------------------------------
(***************************************************************************)
(* The client of the broker.                                               *)
(*                                                                         *)
(* A token is given to one message at a time (TokensAreDistinct), so a     *)
(* promise in the map that is not the reported message's own is a leftover *)
(* of a message that was delivered.  A leftover exists only where a report *)
(* came too early for its token (LeftoversWereOvertaken); this is what the *)
(* theorem about broken futures rests on.                                  *)
(***************************************************************************)
USE DEF TokenWasOvertaken

-----------------------------------------------------------------------------
(* The inductive invariant. *)

\* What a call has done by the time it is at each place.
CallsFit ==
    \A p \in Publishes :
        /\ call[p] = "none" => token[p] = None /\ future[p] = "none"
        /\ call[p] = "accepted" => token[p] # None /\ future[p] = "pending"
        /\ p \in delivered => token[p] # None

\* The map holds pending promises of calls that have returned, each under the
\* token of its message.
MapFits ==
    \A t \in MQTTClient_deliveryToken :
        mTokens[t] # None =>
            /\ mTokens[t] \in Publishes
            /\ token[mTokens[t]] = t
            /\ call[mTokens[t]] = "returned"
            /\ future[mTokens[t]] = "pending"

TokensAreDistinct ==
    \A p, r \in InFlight : token[p] = token[r] => p = r

\* A message that is done with and whose promise is not yet fulfilled.
LeftoversWereOvertaken ==
    \A p \in Publishes :
        /\ p \notin InFlight
        /\ call[p] = "accepted" \/ \E t \in MQTTClient_deliveryToken : mTokens[t] = p
        => destroyed \/ TokenWasOvertaken(p)

IInv ==
    /\ TypeOK /\ CallsFit /\ MapFits /\ TokensAreDistinct /\ LeftoversWereOvertaken
    /\ TrueMeansDelivered /\ BrokenOnlyIfOvertaken

-----------------------------------------------------------------------------
LEMMA InitInv == Init => IInv
<1> USE MqttClientAssumption
<1> SUFFICES ASSUME Init PROVE IInv
  OBVIOUS
<1>1. TypeOK
  <2>1. connected \in BOOLEAN /\ destroyed \in BOOLEAN
    BY DEF Init
  <2> QED
    BY <2>1 DEF Init, TypeOK
<1>2. CallsFit /\ MapFits /\ TokensAreDistinct
  BY DEF Init, CallsFit, MapFits, InFlight, TokensAreDistinct
<1>3. LeftoversWereOvertaken
  BY DEF Init, LeftoversWereOvertaken
<1>4. TrueMeansDelivered /\ BrokenOnlyIfOvertaken
  BY DEF Init, TrueMeansDelivered, BrokenOnlyIfOvertaken
<1> QED
  BY <1>1, <1>2, <1>3, <1>4 DEF IInv

\* A step that only opens or closes the connection.
LEMMA ConnectionInv == ASSUME IInv, Connect \/ LoseConnection PROVE IInv'
<1>1. /\ connected' \in BOOLEAN
      /\ UNCHANGED <<call, qos, token, delivered, reports, mTokens, future, overtaken, destroyed>>
  BY DEF Connect, LoseConnection, client
<1>2. TypeOK'
  BY <1>1 DEF IInv, TypeOK
<1>3. CallsFit' /\ MapFits' /\ TokensAreDistinct' /\ LeftoversWereOvertaken'
  BY <1>1 DEF IInv, CallsFit, MapFits, InFlight, TokensAreDistinct, LeftoversWereOvertaken
<1>4. TrueMeansDelivered' /\ BrokenOnlyIfOvertaken'
  BY <1>1 DEF IInv, TrueMeansDelivered, BrokenOnlyIfOvertaken
<1> QED
  BY <1>2, <1>3, <1>4 DEF IInv

LEMMA RefusedInv ==
    ASSUME IInv, NEW p \in Publishes, NEW q \in 0 .. 2, PublishRefused(p, q)
    PROVE  IInv'
<1> USE DEF PublishRefused, library, InFlight
<1>1. TypeOK'
  BY DEF IInv, TypeOK
<1>2. CallsFit' /\ MapFits' /\ TokensAreDistinct'
  BY DEF IInv, TypeOK, CallsFit, MapFits, TokensAreDistinct
<1>3. LeftoversWereOvertaken'
  BY DEF IInv, TypeOK, CallsFit, MapFits, LeftoversWereOvertaken
<1>4. TrueMeansDelivered' /\ BrokenOnlyIfOvertaken'
  BY DEF IInv, TypeOK, CallsFit, TrueMeansDelivered, BrokenOnlyIfOvertaken
<1> QED
  BY <1>1, <1>2, <1>3, <1>4 DEF IInv

LEMMA PublishInv ==
    ASSUME IInv, NEW p \in Publishes, NEW q \in 0 .. 2, Publish(p, q)
    PROVE  IInv'
<1> USE MqttClientAssumption DEF library, InFlight
<1>0. p \notin delivered /\ p \notin overtaken /\ \A t \in MQTTClient_deliveryToken : mTokens[t] # p
  BY DEF Publish, IInv, TypeOK, CallsFit, MapFits
<1>1. TypeOK'
  BY DEF Publish, IInv, TypeOK
<1>2. CallsFit' /\ MapFits'
  BY <1>0 DEF Publish, IInv, TypeOK, CallsFit, MapFits
<1>3. TokensAreDistinct'
  BY <1>0 DEF Publish, IInv, TypeOK, CallsFit, TokensAreDistinct
<1>4. LeftoversWereOvertaken'
  BY <1>0 DEF Publish, IInv, TypeOK, CallsFit, LeftoversWereOvertaken
<1>5. TrueMeansDelivered' /\ BrokenOnlyIfOvertaken'
  BY <1>0 DEF Publish, IInv, TypeOK, CallsFit, TrueMeansDelivered, BrokenOnlyIfOvertaken
<1> QED
  BY <1>1, <1>2, <1>3, <1>4, <1>5 DEF IInv

LEMMA StoreInv ==
    ASSUME IInv, NEW p \in Publishes, Store(p)
    PROVE  IInv'
<1> USE MqttClientAssumption DEF library, InFlight
<1> DEFINE t == token[p]
           old == mTokens[t]
<1>0. t \in MQTTClient_deliveryToken /\ old # p
  BY DEF Store, IInv, TypeOK, CallsFit, MapFits
<1>1. old # None => /\ old \in Publishes /\ token[old] = t
                    /\ destroyed \/ TokenWasOvertaken(old)
  BY <1>0 DEF Store, IInv, TypeOK, CallsFit, MapFits, TokensAreDistinct, LeftoversWereOvertaken
<1>2. TypeOK'
  BY <1>0, <1>1 DEF Store, Break, IInv, TypeOK
<1>3. CallsFit'
  BY <1>0, <1>1 DEF Store, Break, IInv, TypeOK, CallsFit, MapFits
<1>4. MapFits'
  BY <1>0, <1>1 DEF Store, Break, IInv, TypeOK, CallsFit, MapFits
<1>5. TokensAreDistinct'
  BY DEF Store, IInv, TokensAreDistinct
<1>6. LeftoversWereOvertaken'
  BY <1>0 DEF Store, IInv, TypeOK, LeftoversWereOvertaken
<1>7. TrueMeansDelivered' /\ BrokenOnlyIfOvertaken'
  BY <1>0, <1>1 DEF Store, Break, IInv, TypeOK, TrueMeansDelivered, BrokenOnlyIfOvertaken
<1> QED
  BY <1>2, <1>3, <1>4, <1>5, <1>6, <1>7 DEF IInv

LEMMA AcknowledgeInv ==
    ASSUME IInv, NEW p \in Publishes, Acknowledge(p)
    PROVE  IInv'
BY DEF Acknowledge, client, IInv, TypeOK, CallsFit, MapFits, InFlight,
       TokensAreDistinct, LeftoversWereOvertaken, TrueMeansDelivered, BrokenOnlyIfOvertaken

LEMMA DeliveryCompleteInv ==
    ASSUME IInv, NEW p \in Publishes, DeliveryComplete(p)
    PROVE  IInv'
<1> USE MqttClientAssumption DEF InFlight
<1> DEFINE t == token[p]
           r == mTokens[t]
<1>0. t \in MQTTClient_deliveryToken /\ p \in delivered /\ p \in InFlight
  BY DEF DeliveryComplete, IInv, TypeOK, CallsFit
<1>1. r # None => /\ r \in Publishes /\ token[r] = t /\ r \in delivered
                  /\ r # p => destroyed \/ TokenWasOvertaken(r)
  BY <1>0 DEF IInv, TypeOK, MapFits, TokensAreDistinct, LeftoversWereOvertaken
<1>2. TypeOK'
  BY <1>0, <1>1 DEF DeliveryComplete, IInv, TypeOK
<1>3. CallsFit' /\ MapFits'
  BY <1>0, <1>1 DEF DeliveryComplete, IInv, TypeOK, CallsFit, MapFits
<1>4. TokensAreDistinct'
  BY DEF DeliveryComplete, IInv, TokensAreDistinct
<1>5. LeftoversWereOvertaken'
  BY <1>0, <1>1 DEF DeliveryComplete, IInv, TypeOK, MapFits, LeftoversWereOvertaken
<1>6. TrueMeansDelivered' /\ BrokenOnlyIfOvertaken'
  BY <1>0, <1>1 DEF DeliveryComplete, IInv, TypeOK, TrueMeansDelivered, BrokenOnlyIfOvertaken
<1> QED
  BY <1>2, <1>3, <1>4, <1>5, <1>6 DEF IInv

LEMMA DestroyInv == ASSUME IInv, Destroy PROVE IInv'
<1> USE MqttClientAssumption DEF Destroy, InFlight
<1>1. \A p \in Publishes : Break(future, p)[p] \in {future[p], "broken"}
  BY DEF Break, IInv, TypeOK
<1>2. \A p \in Publishes : future'[p] \in {future[p], "broken"}
  BY <1>1
<1>3. \A p \in Publishes : call[p] # "returned" => future'[p] = future[p]
  BY DEF IInv, MapFits
<1>4. TypeOK'
  BY <1>2 DEF IInv, TypeOK
<1>5. CallsFit' /\ MapFits'
  BY <1>3 DEF IInv, TypeOK, CallsFit, MapFits
<1>6. TokensAreDistinct' /\ LeftoversWereOvertaken' /\ TrueMeansDelivered' /\ BrokenOnlyIfOvertaken'
  BY <1>2 DEF IInv, TypeOK, TokensAreDistinct, LeftoversWereOvertaken, TrueMeansDelivered,
              BrokenOnlyIfOvertaken
<1> QED
  BY <1>4, <1>5, <1>6 DEF IInv

LEMMA StutterInv == ASSUME IInv, UNCHANGED vars PROVE IInv'
BY DEF vars, client, library, IInv, TypeOK, CallsFit, MapFits, InFlight, TokensAreDistinct,
       LeftoversWereOvertaken, TrueMeansDelivered, BrokenOnlyIfOvertaken

LEMMA NextInv == IInv /\ [Next]_vars => IInv'
BY ConnectionInv, RefusedInv, PublishInv, StoreInv, AcknowledgeInv, DeliveryCompleteInv,
   DestroyInv, StutterInv
   DEF Next

LEMMA SpecInv == Spec => []IInv
BY InitInv, NextInv, PTL DEF Spec

-----------------------------------------------------------------------------
(* Every value is of its type: in particular the map holds promises of     *)
(* calls only, and a report is about a delivered message.                  *)
THEOREM TypeCorrect == Spec => []TypeOK
BY SpecInv, PTL DEF IInv

(* The future of a publish with a QoS above 0 says true only if the broker *)
(* has acknowledged that very message.                                     *)
THEOREM TrueAlwaysMeansDelivered == Spec => []TrueMeansDelivered
BY SpecInv, PTL DEF IInv

(* A future is broken only by the destructor or where a delivery was       *)
(* reported before the promise of the token had been stored.               *)
THEOREM BrokenIsAlwaysOvertaken == Spec => []BrokenOnlyIfOvertaken
BY SpecInv, PTL DEF IInv
=============================================================================
