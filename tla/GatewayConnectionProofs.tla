----------------------- MODULE GatewayConnectionProofs -----------------------
(***************************************************************************)
(* Proofs about GatewayConnection, for all topics, durations and bounds.   *)
(***************************************************************************)
EXTENDS GatewayConnection, TLAPS

TSP == INSTANCE TopicStorageProofs WITH Names <- Topics

-----------------------------------------------------------------------------
(***************************************************************************)
(* The connection uses its topic table only through the table's own        *)
(* methods, so it inherits what TopicStorageProofs shows of them.          *)
(***************************************************************************)
StorageStep == [TS!Next]_(TS!vars)

LEMMA StorageSteps == TypeOK /\ [Next]_vars => StorageStep
<1> SUFFICES ASSUME TypeOK, [Next]_vars PROVE StorageStep
  OBVIOUS
<1> USE DEF StorageStep
<1>1. CASE UNCHANGED storage
  BY <1>1 DEF storage, TS!vars
<1>2. ASSUME NEW topic \in Topics, TS!GetOrCreateTopicId(topic)
      PROVE  StorageStep
  BY <1>2 DEF TS!Next
<1>3. CASE TS!Clear
  BY <1>3 DEF TS!Next
<1>h. /\ pc = "waiting" /\ mQueue # <<>> => Message \in Actions
      /\ messages # <<>> => Head(messages) \in BrokerMessages
  BY DEF TypeOK, Message
<1>4. CASE Environment
  <2>1. UNCHANGED storage
    BY <1>4 DEF Environment, Handle, MessageArrived, ConnectionLost, Destroy, Push
  <2> QED
    BY <2>1, <1>1
<1>5. CASE PublishComplete \/ Tick
  BY <1>5, <1>1 DEF PublishComplete, Tick, SameTopics
<1>6. CASE HandleConnect \/ ConnectFromSleep \/ HandlePublish \/ HandleOther
           \/ HandleDisconnect \/ HandleSleep \/ HandlePingreq \/ Awake
           \/ HandleConnectionLost \/ AllSent \/ TimedOut \/ Stop
  BY <1>6, <1>1 DEF HandleConnect, ConnectFromSleep, HandlePublish, HandleOther,
       HandleDisconnect, HandleSleep, HandlePingreq, Awake, HandleConnectionLost,
       AllSent, TimedOut, Stop, Dispose, SameTopics
<1>7. CASE ReconnectToBroker
  BY <1>7, <1>3 DEF ReconnectToBroker
<1>8. CASE HandleRegister
  <2>1. Message \in Actions /\ Message.type = "REGISTER"
    BY <1>8, <1>h DEF HandleRegister, Take, Message
  <2>2. Message.topicName \in Topics
    BY <2>1 DEF Actions, ClientMessages
  <2> QED
    BY <1>8, <2>2, <1>1, <1>2 DEF HandleRegister, SameTopics
<1>9. CASE HandleSubscribe
  BY <1>9, <1>1, <1>2 DEF HandleSubscribe, SameTopics
<1>10. CASE HandleMessageArrived
  <2>1. Message \in Actions /\ Message.type = "messageArrived"
    BY <1>10, <1>h DEF HandleMessageArrived, Take, Message
  <2>2. Message.message.topic \in Topics
    BY <2>1 DEF Actions, ClientMessages, BrokerMessages
  <2> QED
    BY <1>10, <2>2, <1>1, <1>2
    DEF HandleMessageArrived, ForwardMessageToClient, StoreMessage, SameTopics
<1>11. CASE SendBuffered
  <2>1. Head(messages).topic \in Topics
    BY <1>11, <1>h DEF SendBuffered, BrokerMessages
  <2> QED
    BY <1>11, <2>1, <1>2 DEF SendBuffered, ForwardMessageToClient
<1>12. CASE UNCHANGED vars
  BY <1>12, <1>1 DEF vars
<1> QED
  BY <1>4, <1>5, <1>6, <1>7, <1>8, <1>9, <1>10, <1>11, <1>12 DEF Next, Workcycle

-----------------------------------------------------------------------------
(***************************************************************************)
(* Types.  First what the handlers put together.                           *)
(***************************************************************************)
LEMMA SentTypes ==
    /\ Connack("ACCEPTED") \in ToClient
    /\ Connack("REJECTED_NOT_SUPPORTED") \in ToClient
    /\ DisconnectMessage \in ToClient
    /\ Pingresp \in ToClient
    /\ \A id \in TS!TopicIds :
          /\ Regack(id) \in ToClient
          /\ Suback(id) \in ToClient
          /\ \A topic \in Topics :
                Register(id, topic) \in ToClient /\ Publish(id, topic) \in ToClient
  BY DEF ToClient

LEMMA IdTypes ==
    ASSUME TypeOK, NEW topic \in Topics
    PROVE  /\ TS!GetOrCreated(topic) \in TS!TopicIds
           /\ TS!GetTopicId(topic) \in TS!TopicIds
           /\ TS!NO_TOPIC_ID \in TS!TopicIds
<1>1. TS!NextId \in TS!TopicIds
  <2>1. Len(mIdToName) \in Nat
    BY DEF TypeOK, TS!TypeOK
  <2>2. \A n \in Nat : n % IdModulus \in 0 .. IdModulus - 1
    BY GatewayConnectionAssumption
  <2> QED
    BY <2>1, <2>2 DEF TS!NextId, TS!TopicIds
<1>2. TS!NO_TOPIC_ID \in TS!TopicIds
  BY GatewayConnectionAssumption DEF TS!NO_TOPIC_ID, TS!TopicIds
<1> QED
  BY <1>1, <1>2 DEF TypeOK, TS!TypeOK, TS!GetOrCreated, TS!GetTopicId

AnnouncedOK ==
    /\ DOMAIN announced \subseteq TS!TopicIds
    /\ announced \in [DOMAIN announced -> Topics]

LEMMA ToldTypes ==
    ASSUME AnnouncedOK, NEW id \in TS!TopicIds, NEW topic \in Topics,
           announced' = Told(id, topic)
    PROVE  AnnouncedOK'
  BY DEF AnnouncedOK, Told, TS!TopicIds

(* The action at the head of the queue. *)
LEMMA HeadTypes ==
    ASSUME TypeOK, NEW type, Take(type)
    PROVE  /\ mQueue' \in Seq(Actions)
           /\ elapsed' \in Nat
           /\ Message \in Actions
           /\ Message.type = type
           /\ type = "REGISTER" => Message.topicName \in Topics
           /\ type = "SUBSCRIBE" => Message.topicName \in Topics \cup Wildcards
           /\ type = "CONNECT" => Message.cleanSession \in BOOLEAN /\ Message.duration \in Nat
           /\ type = "DISCONNECT" => Message.duration \in Durations \cup {NoDuration}
           /\ type = "messageArrived" => Message.message \in BrokerMessages
<1>1. Message \in Actions /\ mQueue' \in Seq(Actions) /\ elapsed' \in Nat /\ Message.type = type
  BY DEF TypeOK, Take, Message
<1> QED
  BY <1>1, GatewayConnectionAssumption DEF Actions, ClientMessages

LEMMA StorageTypes == TypeOK /\ [Next]_vars => TS!TypeOK'
<1> SUFFICES ASSUME TypeOK, [Next]_vars PROVE TS!TypeOK'
  OBVIOUS
<1>1. [TSP!Next]_(TSP!vars)
  BY StorageSteps DEF StorageStep, TS!Next, TSP!Next, TS!vars, TSP!vars,
     TS!GetOrCreateTopicId, TSP!GetOrCreateTopicId, TS!Clear, TSP!Clear,
     TS!NextId, TSP!NextId, TS!NO_TOPIC_ID, TSP!NO_TOPIC_ID
<1>2. TSP!TypeOK
  BY DEF TypeOK, TS!TypeOK, TSP!TypeOK, TS!TopicIds, TSP!TopicIds
<1>3. TSP!TypeOK'
  BY <1>1, <1>2, TSP!TypeStep, GatewayConnectionAssumption
<1> QED
  BY <1>3 DEF TS!TypeOK, TSP!TypeOK, TS!TopicIds, TSP!TopicIds

LEMMA AppendType ==
    ASSUME NEW S, NEW s \in Seq(S), NEW e \in S
    PROVE  Append(s, e) \in Seq(S)
  OBVIOUS

LEMMA ForwardTypes ==
    ASSUME TypeOK, NEW m \in BrokerMessages, ForwardMessageToClient(m)
    PROVE  /\ sent' \in Seq(ToClient)
           /\ AnnouncedOK'
           /\ delivered' \in Seq(1 .. MaxMessages)
<1> DEFINE id == TS!GetOrCreated(m.topic)
<1>1. m.topic \in Topics /\ m.nr \in 1 .. MaxMessages
  BY DEF BrokerMessages
<1>2. id \in TS!TopicIds
  BY <1>1, IdTypes
<1>3. Register(id, m.topic) \in ToClient /\ Publish(id, m.topic) \in ToClient
  BY <1>1, <1>2, SentTypes
<1>4. delivered' \in Seq(1 .. MaxMessages)
  <2>1. delivered' = delivered \/ delivered' = Append(delivered, m.nr)
    BY DEF ForwardMessageToClient
  <2>2. delivered \in Seq(1 .. MaxMessages)
    BY DEF TypeOK
  <2> QED
    BY <1>1, <2>1, <2>2, AppendType
<1>5. AnnouncedOK
  BY DEF TypeOK, AnnouncedOK
<1>6. CASE /\ sent' = <<Register(id, m.topic), Publish(id, m.topic)>>
           /\ announced' = Told(id, m.topic)
  BY <1>6, <1>1, <1>2, <1>3, <1>4, <1>5, ToldTypes
<1>7. CASE sent' = <<Publish(id, m.topic)>> /\ UNCHANGED announced
  BY <1>7, <1>3, <1>4, <1>5 DEF AnnouncedOK
<1> QED
  BY <1>6, <1>7 DEF ForwardMessageToClient

(***************************************************************************)
(* TypeOK is inductive.  The types of the storage come from StorageTypes;  *)
(* the rest is in OwnTypesOK, shown action by action.                      *)
(***************************************************************************)
OwnTypesOK ==
    /\ mRunning \in BOOLEAN
    /\ mQueue \in Seq(Actions)
    /\ mCurrentState \in {"Disconnected", "Active", "Asleep"}
    /\ mKeepAliveTimeout \in Nat
    /\ mAsleepTimeout \in Durations \cup {0}
    /\ mBufferedMessages \in Seq(BrokerMessages)
    /\ mBrokerClient \in {"none", "connected", "down"}
    /\ pc \in {"waiting", "flushing", "publishing", "ended"}
    /\ messages \in Seq(BrokerMessages)
    /\ reply \in {Connack("ACCEPTED"), Pingresp}
    /\ elapsed \in Nat
    /\ destroying \in BOOLEAN /\ disposed \in BOOLEAN
    /\ sent \in Seq(ToClient)
    /\ AnnouncedOK
    /\ session \in 0 .. MaxSessions
    /\ arrived \in 0 .. MaxMessages
    /\ accepted \in Seq(1 .. MaxMessages)
    /\ delivered \in Seq(1 .. MaxMessages)

LEMMA TypeSplit == TypeOK <=> OwnTypesOK /\ TS!TypeOK
  BY DEF TypeOK, OwnTypesOK, AnnouncedOK

(* Half as much again of a duration is a duration. *)
LEMMA HalfAgain ==
    ASSUME NEW duration \in Nat
    PROVE  duration + duration \div 2 \in Nat
  OBVIOUS

LEMMA EnvironmentTypes ==
    ASSUME TypeOK, Environment
    PROVE  OwnTypesOK'
<1> USE TypeSplit DEF OwnTypesOK
<1>1. ASSUME NEW action \in Actions, Push(action)
      PROVE  mQueue' \in Seq(Actions) /\ sent' \in Seq(ToClient)
  BY <1>1 DEF Push
<1>2. ASSUME NEW message \in ClientMessages, Handle(message)
      PROVE  OwnTypesOK'
  <2>1. message \in Actions
    BY DEF Actions
  <2> QED
    BY <1>1, <1>2, <2>1 DEF Handle, Push, AnnouncedOK, storage, thread
<1>3. ASSUME NEW topic \in Topics, MessageArrived(topic)
      PROVE  OwnTypesOK'
  <2> DEFINE action == [type |-> "messageArrived",
                        message |-> [topic |-> topic, nr |-> arrived + 1, session |-> session]]
  <2>1. arrived + 1 \in 1 .. MaxMessages
    BY <1>3, GatewayConnectionAssumption DEF MessageArrived
  <2>2. action \in Actions
    BY <2>1 DEF Actions, BrokerMessages
  <2>3. Push(action)
    BY <1>3 DEF MessageArrived
  <2> HIDE DEF action
  <2> QED
    BY <1>1, <1>3, <2>1, <2>2, <2>3 DEF MessageArrived, Push, AnnouncedOK, storage, thread
<1>4. CASE ConnectionLost
  <2>1. [type |-> "connectionLost"] \in Actions
    BY DEF Actions
  <2> QED
    BY <1>1, <1>4, <2>1 DEF ConnectionLost, Push, AnnouncedOK, storage, thread
<1>5. CASE Destroy
  <2>1. [type |-> "stop"] \in Actions
    BY DEF Actions
  <2> QED
    BY <1>1, <1>5, <2>1 DEF Destroy, Push, AnnouncedOK, storage, thread
<1> QED
  BY <1>2, <1>3, <1>4, <1>5 DEF Environment

LEMMA SessionTypes ==
    ASSUME TypeOK,
           \/ HandleConnectionLost \/ HandleDisconnect \/ HandleSleep \/ TimedOut
           \/ HandleConnect \/ ReconnectToBroker
    PROVE  OwnTypesOK'
<1> USE TypeSplit, SentTypes DEF OwnTypesOK
<1>d. ASSUME NEW farewell \in Seq(ToClient), Dispose(farewell),
             mQueue' \in Seq(Actions), elapsed' \in Nat, UNCHANGED <<destroying, arrived>>
      PROVE  OwnTypesOK'
  BY <1>d DEF Dispose, SameTimeouts, SameTopics, SameTraffic, SameThread, AnnouncedOK
<1>c. ASSUME NEW client \in {"none", "connected", "down"}, ConnectToBroker(client),
             Take("CONNECT"), AnnouncedOK'
      PROVE  OwnTypesOK'
  <2>1. /\ mQueue' \in Seq(Actions) /\ elapsed' \in Nat
        /\ Message.cleanSession \in BOOLEAN /\ Message.duration \in Nat
        /\ UNCHANGED <<destroying, arrived>>
    BY <1>c, HeadTypes DEF Take
  <2>2. UNCHANGED <<mRunning, pc, messages, reply, mAsleepTimeout, mBufferedMessages>>
    BY <1>c DEF ConnectToBroker, SameThread
  <2>3. Message.duration + Message.duration \div 2 \in Nat
    BY <2>1, HalfAgain, Zenon
  <2>4. mKeepAliveTimeout' \in Nat
    BY <1>c, <2>3 DEF ConnectToBroker
  <2>5. \/ RejectConnect(client) \/ RejectConnect("down") \/ AcceptConnect
    BY <1>c DEF ConnectToBroker
  <2>6. ASSUME NEW link \in {"none", "connected", "down"}, RejectConnect(link)
        PROVE  OwnTypesOK'
    BY <1>c, <2>1, <2>2, <2>4, <2>6 DEF RejectConnect
  <2>7. CASE AcceptConnect
    <3>1. session' \in 0 .. MaxSessions
      BY <2>7, GatewayConnectionAssumption DEF AcceptConnect
    <3> QED
      BY <1>c, <2>1, <2>2, <2>4, <2>7, <3>1 DEF AcceptConnect
  <2> QED
    BY <2>5, <2>6, <2>7
<1>f. <<DisconnectMessage>> \in Seq(ToClient)
  BY SentTypes
<1>1. CASE HandleConnectionLost
  <2>1. mQueue' \in Seq(Actions) /\ elapsed' \in Nat /\ UNCHANGED <<destroying, arrived>>
    BY <1>1, HeadTypes DEF HandleConnectionLost, Take
  <2> QED
    BY <1>1, <1>d, <1>f, <2>1 DEF HandleConnectionLost
<1>2. CASE HandleDisconnect
  <2>1. mQueue' \in Seq(Actions) /\ elapsed' \in Nat /\ UNCHANGED <<destroying, arrived>>
    BY <1>2, HeadTypes DEF HandleDisconnect, Take
  <2> QED
    BY <1>2, <1>d, <1>f, <2>1 DEF HandleDisconnect
<1>3. CASE HandleSleep
  <2>1. mQueue' \in Seq(Actions) /\ elapsed' \in Nat /\ Message.duration \in Durations
    BY <1>3, HeadTypes DEF HandleSleep
  <2> QED
    BY <1>3, <2>1 DEF HandleSleep, Take, SameTopics, SameTraffic, SameThread, AnnouncedOK
<1>4. CASE TimedOut
  <2>1. <<>> \in Seq(ToClient) /\ 0 \in Nat
    OBVIOUS
  <2> QED
    BY <1>4, <1>d, <2>1 DEF TimedOut
<1>5. CASE HandleConnect
  BY <1>5, <1>c DEF HandleConnect, SameTopics, AnnouncedOK
<1>6. CASE ReconnectToBroker
  <2>1. AnnouncedOK'
    BY <1>6 DEF ReconnectToBroker, NothingAnnounced, AnnouncedOK
  <2> QED
    BY <1>6, <1>c, <2>1 DEF ReconnectToBroker
<1> QED
  BY <1>1, <1>2, <1>3, <1>4, <1>5, <1>6

LEMMA TopicTypes ==
    ASSUME TypeOK, HandleRegister \/ HandleSubscribe
    PROVE  OwnTypesOK'
<1>1. /\ SameTimeouts /\ SameTraffic /\ SameThread /\ SameLife
      /\ Take("REGISTER") \/ Take("SUBSCRIBE")
  BY DEF HandleRegister, HandleSubscribe
<1>2. AnnouncedOK /\ OwnTypesOK
  BY TypeSplit DEF TypeOK, AnnouncedOK
<1>3. AnnouncedOK' /\ sent' \in Seq(ToClient)
  <2>1. CASE /\ Message.topicName \in Topics
             /\ \/ sent' = <<Regack(TS!GetOrCreated(Message.topicName))>>
                \/ sent' = <<Suback(TS!GetOrCreated(Message.topicName))>>
             /\ announced' = Told(TS!GetOrCreated(Message.topicName), Message.topicName)
    <3>1. TS!GetOrCreated(Message.topicName) \in TS!TopicIds
      BY <2>1, IdTypes
    <3>2. AnnouncedOK'
      BY <2>1, <3>1, <1>2, ToldTypes
    <3>3. /\ Regack(TS!GetOrCreated(Message.topicName)) \in ToClient
          /\ Suback(TS!GetOrCreated(Message.topicName)) \in ToClient
      BY <3>1, SentTypes
    <3>4. \A m \in ToClient : <<m>> \in Seq(ToClient)
      OBVIOUS
    <3>5. sent' \in Seq(ToClient)
      BY <2>1, <3>3, <3>4
    <3> QED
      BY <3>2, <3>5
  <2>2. CASE sent' = <<Suback(TS!NO_TOPIC_ID)>> /\ SameTopics
    <3>1. TS!NO_TOPIC_ID \in TS!TopicIds
      BY GatewayConnectionAssumption DEF TS!NO_TOPIC_ID, TS!TopicIds
    <3>2. Suback(TS!NO_TOPIC_ID) \in ToClient
      BY <3>1, SentTypes
    <3> QED
      BY <2>2, <3>2, <1>2 DEF SameTopics, AnnouncedOK
  <2>3. CASE sent' = <<>> /\ SameTopics
    BY <2>3, <1>2 DEF SameTopics, AnnouncedOK
  <2>4. Take("REGISTER") => Message.topicName \in Topics
    BY HeadTypes
  <2> QED
    BY <2>1, <2>2, <2>3, <2>4 DEF HandleRegister, HandleSubscribe
<1>4. mQueue' \in Seq(Actions) /\ elapsed' \in Nat /\ UNCHANGED <<destroying, arrived>>
  BY <1>1, HeadTypes DEF Take
<1> QED
  BY <1>1, <1>2, <1>3, <1>4
  DEF OwnTypesOK, SameTimeouts, SameTraffic, SameThread, SameLife

LEMMA TrafficTypes ==
    ASSUME TypeOK,
           \/ HandleMessageArrived \/ SendBuffered \/ AllSent
           \/ ConnectFromSleep \/ Awake \/ HandlePingreq
    PROVE  OwnTypesOK'
<1> USE TypeSplit DEF OwnTypesOK
<1>a. AnnouncedOK
  BY DEF TypeOK, AnnouncedOK
<1>1. CASE HandleMessageArrived
  <2> DEFINE m == Message.message
  <2>1. /\ mQueue' \in Seq(Actions) /\ elapsed' \in Nat /\ m \in BrokerMessages
        /\ UNCHANGED <<destroying, arrived>>
    BY <1>1, HeadTypes DEF HandleMessageArrived, Take
  <2>2. SameTimeouts /\ SameThread /\ SameLife
    BY <1>1 DEF HandleMessageArrived
  <2>3. m.nr \in 1 .. MaxMessages
    BY <2>1 DEF BrokerMessages
  <2>4. ASSUME Accept(m) PROVE accepted' \in Seq(1 .. MaxMessages)
    <3>1. accepted' = accepted \/ accepted' = Append(accepted, m.nr)
      BY <2>4 DEF Accept
    <3> QED
      BY <3>1, <2>3, AppendType
  <2>5. CASE /\ ForwardMessageToClient(m)
             /\ Accept(m)
             /\ UNCHANGED mBufferedMessages
    <3>1. sent' \in Seq(ToClient) /\ AnnouncedOK' /\ delivered' \in Seq(1 .. MaxMessages)
      BY <2>1, <2>5, ForwardTypes
    <3> QED
      BY <2>1, <2>2, <2>4, <2>5, <3>1 DEF SameTimeouts, SameThread, SameLife
  <2>6. CASE StoreMessage(m) /\ Accept(m) /\ UNCHANGED delivered
    <3>1. mBufferedMessages' \in Seq(BrokerMessages)
      BY <2>1, <2>6, AppendType DEF StoreMessage
    <3>2. sent' \in Seq(ToClient) /\ AnnouncedOK'
      BY <2>6, <1>a DEF StoreMessage, SameTopics, AnnouncedOK
    <3> QED
      BY <2>1, <2>2, <2>4, <2>6, <3>1, <3>2 DEF SameTimeouts, SameThread, SameLife
  <2>7. CASE sent' = <<>> /\ SameTopics /\ SameTraffic
    BY <2>1, <2>2, <2>7, <1>a
    DEF SameTopics, SameTraffic, SameTimeouts, SameThread, SameLife, AnnouncedOK
  <2> QED
    BY <1>1, <2>5, <2>6, <2>7 DEF HandleMessageArrived
<1>2. CASE SendBuffered
  <2>1. Head(messages) \in BrokerMessages /\ messages' \in Seq(BrokerMessages)
    BY <1>2 DEF SendBuffered
  <2>2. sent' \in Seq(ToClient) /\ AnnouncedOK' /\ delivered' \in Seq(1 .. MaxMessages)
    BY <1>2, <2>1, ForwardTypes DEF SendBuffered
  <2> QED
    BY <1>2, <2>1, <2>2 DEF SendBuffered, SameTimeouts, SameLife
<1>3. CASE AllSent
  <2>1. reply \in ToClient
    BY SentTypes
  <2>2. sent' \in Seq(ToClient)
    BY <1>3, <2>1 DEF AllSent
  <2> QED
    BY <1>3, <2>2, <1>a
    DEF AllSent, SameTimeouts, SameTopics, SameTraffic, SameLife, AnnouncedOK
<1>4. CASE ConnectFromSleep
  <2>1. mQueue' \in Seq(Actions) /\ elapsed' \in Nat /\ UNCHANGED <<destroying, arrived>>
    BY <1>4, HeadTypes DEF ConnectFromSleep, Take
  <2> QED
    BY <1>4, <2>1, <1>a
    DEF ConnectFromSleep, SendBufferedMessages, SameTimeouts, SameTopics, AnnouncedOK
<1>5. CASE Awake
  <2>1. mQueue' \in Seq(Actions) /\ elapsed' \in Nat /\ UNCHANGED <<destroying, arrived>>
    BY <1>5, HeadTypes DEF Awake, Take
  <2> QED
    BY <1>5, <2>1, <1>a
    DEF Awake, SendBufferedMessages, SameTimeouts, SameTopics, SameLife, AnnouncedOK
<1>6. CASE HandlePingreq
  <2>1. mQueue' \in Seq(Actions) /\ elapsed' \in Nat /\ UNCHANGED <<destroying, arrived>>
    BY <1>6, HeadTypes DEF HandlePingreq, Take
  <2>2. sent' \in Seq(ToClient)
    <3>1. <<Pingresp>> \in Seq(ToClient) /\ <<>> \in Seq(ToClient)
      BY SentTypes
    <3>2. sent' = <<Pingresp>> \/ sent' = <<>>
      BY <1>6 DEF HandlePingreq
    <3> QED
      BY <3>1, <3>2
  <2> QED
    BY <1>6, <2>1, <2>2, <1>a
    DEF HandlePingreq, SameTimeouts, SameTopics, SameTraffic, SameThread, SameLife, AnnouncedOK
<1> QED
  BY <1>1, <1>2, <1>3, <1>4, <1>5, <1>6

LEMMA QuietTypes ==
    ASSUME TypeOK,
           HandlePublish \/ PublishComplete \/ HandleOther \/ Tick \/ Stop \/ UNCHANGED vars
    PROVE  OwnTypesOK'
<1> USE TypeSplit DEF OwnTypesOK, AnnouncedOK
<1>1. CASE HandlePublish
  <2>1. mQueue' \in Seq(Actions) /\ elapsed' \in Nat /\ UNCHANGED <<destroying, arrived>>
    BY <1>1, HeadTypes DEF HandlePublish, Take
  <2>2. pc' \in {"waiting", "flushing", "publishing", "ended"}
    BY <1>1 DEF HandlePublish
  <2> QED
    BY <1>1, <2>1, <2>2 DEF HandlePublish, SameTimeouts, SameTopics, SameTraffic, SameLife
<1>2. CASE PublishComplete
  BY <1>2 DEF PublishComplete, SameTimeouts, SameTopics, SameTraffic, SameLife
<1>3. CASE HandleOther
  <2>1. mQueue' \in Seq(Actions) /\ elapsed' \in Nat /\ UNCHANGED <<destroying, arrived>>
    BY <1>3, HeadTypes DEF HandleOther, Take
  <2> QED
    BY <1>3, <2>1
    DEF HandleOther, SameTimeouts, SameTopics, SameTraffic, SameThread, SameLife
<1>4. CASE Tick
  BY <1>4 DEF Tick, SameTimeouts, SameTopics, SameTraffic, SameLife
<1>5. CASE Stop
  <2>1. mQueue' \in Seq(Actions) /\ elapsed' \in Nat /\ UNCHANGED <<destroying, arrived>>
    BY <1>5, HeadTypes DEF Stop, Take
  <2>2. mRunning' \in BOOLEAN
    BY <1>5 DEF Stop
  <2>3. /\ pc' = "ended" /\ sent' = <<>> /\ UNCHANGED <<messages, reply>>
        /\ SameTimeouts /\ SameTopics /\ SameTraffic /\ SameLife
    BY <1>5 DEF Stop
  <2> QED
    BY <2>1, <2>2, <2>3 DEF SameTimeouts, SameTopics, SameTraffic, SameLife
<1>6. CASE UNCHANGED vars
  BY <1>6 DEF vars, members, storage, thread, history
<1> QED
  BY <1>1, <1>2, <1>3, <1>4, <1>5, <1>6

LEMMA TypeInit == Init => TypeOK
<1> SUFFICES ASSUME Init PROVE OwnTypesOK /\ TS!TypeOK
  BY TypeSplit
<1>1. TS!TypeOK
  BY DEF Init, TS!Init, TS!TypeOK
<1>2. AnnouncedOK
  BY DEF Init, AnnouncedOK, NothingAnnounced
<1>3. /\ <<>> \in Seq(Actions) /\ <<>> \in Seq(BrokerMessages)
      /\ <<>> \in Seq(ToClient) /\ <<>> \in Seq(1 .. MaxMessages)
  OBVIOUS
<1>4. mRunning \in BOOLEAN /\ destroying \in BOOLEAN /\ disposed \in BOOLEAN
  BY DEF Init
<1>5. session \in 0 .. MaxSessions /\ arrived \in 0 .. MaxMessages
  BY GatewayConnectionAssumption DEF Init
<1>6. /\ mCurrentState = "Disconnected" /\ mBrokerClient = "none" /\ pc = "waiting"
      /\ mKeepAliveTimeout = 0 /\ mAsleepTimeout = 0 /\ elapsed = 0 /\ reply = Pingresp
      /\ mQueue = <<>> /\ mBufferedMessages = <<>> /\ messages = <<>> /\ sent = <<>>
      /\ accepted = <<>> /\ delivered = <<>>
  BY DEF Init
<1>7. OwnTypesOK
  BY <1>2, <1>3, <1>4, <1>5, <1>6 DEF OwnTypesOK
<1> QED
  BY <1>1, <1>7

LEMMA TypeStep == TypeOK /\ [Next]_vars => TypeOK'
<1> SUFFICES ASSUME TypeOK, [Next]_vars PROVE TypeOK'
  OBVIOUS
<1>1. TS!TypeOK'
  BY StorageTypes
<1>2. OwnTypesOK'
  BY EnvironmentTypes, SessionTypes, TopicTypes, TrafficTypes, QuietTypes
  DEF Next, Workcycle
<1> QED
  BY <1>1, <1>2 DEF TypeOK, OwnTypesOK, AnnouncedOK

(* Every member, the queued actions, the buffered messages and everything  *)
(* sent to the client keep their type, for all topics, durations, lengths  *)
(* of the queue and numbers of messages and sessions.                      *)
THEOREM TypeCorrect == Spec => []TypeOK
  BY TypeInit, TypeStep, PTL DEF Spec

-----------------------------------------------------------------------------
(***************************************************************************)
(* The life of a session.  ConnackIsTruthful is not inductive: the ACCEPTED *)
(* of a client that wakes up is sent only after its buffered messages, so  *)
(* nothing may end the session while they are being sent.                  *)
(***************************************************************************)
WakingIsActive ==
    pc = "flushing" /\ reply = Connack("ACCEPTED") => mCurrentState = "Active"

LifeInv == TypeOK /\ BrokerLinkMatchesState /\ EndedIsDisposed /\ WakingIsActive

LEMMA LifeInit == Init => LifeInv
<1> SUFFICES ASSUME Init PROVE LifeInv
  OBVIOUS
<1>1. TypeOK
  BY TypeInit
<1>2. mCurrentState = "Disconnected" /\ mBrokerClient = "none" /\ session = 0 /\ pc = "waiting"
  BY DEF Init
<1> QED
  BY <1>1, <1>2
  DEF LifeInv, BrokerLinkMatchesState, EndedIsDisposed, WakingIsActive, Connected

(* What a step can do to the life of a session. *)
Quiet == UNCHANGED <<mCurrentState, mBrokerClient, disposed, session>>
LosesLink ==
    /\ mBrokerClient = "connected" /\ mBrokerClient' = "down"
    /\ UNCHANGED <<mCurrentState, disposed, session>>
Wakes ==
    /\ mCurrentState \in {"Active", "Asleep"} /\ mCurrentState' \in {"Active", "Asleep"}
    /\ UNCHANGED <<mBrokerClient, disposed, session>>
Accepts ==
    /\ mCurrentState' = "Active" /\ mBrokerClient' = "connected" /\ UNCHANGED disposed
Ends ==
    /\ mCurrentState' = "Disconnected" /\ disposed' = TRUE
    /\ mBrokerClient' # "connected"

LEMMA LifeSteps ==
    ASSUME LifeInv, [Next]_vars
    PROVE  Quiet \/ LosesLink \/ Wakes \/ Accepts \/ Ends
<1>1. CASE Environment
  BY <1>1 DEF Environment, Handle, MessageArrived, ConnectionLost, Destroy, Push,
     Quiet, LosesLink
<1>2. ASSUME NEW client \in {"none", "connected", "down"}, ConnectToBroker(client),
             client # "connected"
      PROVE  Accepts \/ Ends
  BY <1>2 DEF ConnectToBroker, RejectConnect, AcceptConnect, Accepts, Ends
<1>3. CASE HandleConnect
  <2>1. mBrokerClient \in {"none", "connected", "down"} /\ mBrokerClient # "connected"
    BY <1>3 DEF HandleConnect, LifeInv, BrokerLinkMatchesState, TypeOK
  <2> QED
    BY <1>2, <1>3, <2>1 DEF HandleConnect
<1>4. CASE ReconnectToBroker
  BY <1>2, <1>4 DEF ReconnectToBroker
<1>5. CASE HandleConnectionLost \/ HandleDisconnect \/ TimedOut
  BY <1>5 DEF HandleConnectionLost, HandleDisconnect, TimedOut, Dispose, Ends
<1>6. CASE HandleSleep \/ ConnectFromSleep
  BY <1>6 DEF HandleSleep, ConnectFromSleep, Wakes
<1>7. CASE \/ HandleRegister \/ HandleSubscribe \/ HandlePublish \/ HandleOther
           \/ HandlePingreq \/ Awake \/ HandleMessageArrived \/ SendBuffered
           \/ AllSent \/ Stop \/ PublishComplete \/ Tick
  BY <1>7 DEF HandleRegister, HandleSubscribe, HandlePublish, HandleOther,
     HandlePingreq, Awake, HandleMessageArrived, SendBuffered, AllSent, Stop,
     PublishComplete, Tick, SameLife, Quiet
<1>8. CASE UNCHANGED vars
  BY <1>8 DEF vars, members, history, Quiet
<1> QED
  BY <1>1, <1>3, <1>4, <1>5, <1>6, <1>7, <1>8 DEF Next, Workcycle

LEMMA WakingStep ==
    ASSUME LifeInv, [Next]_vars
    PROVE  WakingIsActive'
<1> USE DEF WakingIsActive
<1>1. pc' = "flushing" =>
         \/ /\ pc = "flushing" /\ UNCHANGED <<reply, mCurrentState>>
         \/ mCurrentState' = "Active"
         \/ reply' = Pingresp
  <2>1. CASE Environment \/ UNCHANGED vars
    BY <2>1 DEF Environment, Handle, MessageArrived, ConnectionLost, Destroy, Push,
       vars, members, thread
  <2>2. CASE SendBuffered
    BY <2>2 DEF SendBuffered, SameLife
  <2>3. CASE AllSent \/ PublishComplete \/ Stop
    BY <2>3 DEF AllSent, PublishComplete, Stop
  <2>4. CASE Tick \/ TimedOut
    BY <2>4 DEF Tick, TimedOut, Dispose, SameThread
  <2>5. CASE ConnectFromSleep \/ Awake
    BY <2>5 DEF ConnectFromSleep, Awake, SendBufferedMessages
  <2>6. CASE HandlePublish
    BY <2>6 DEF HandlePublish, Take
  <2>7. CASE \/ HandleConnect \/ ReconnectToBroker \/ HandleRegister \/ HandleSubscribe
             \/ HandleOther \/ HandleDisconnect \/ HandleSleep \/ HandlePingreq
             \/ HandleMessageArrived \/ HandleConnectionLost
    <3>1. pc = "waiting" /\ UNCHANGED pc
      BY <2>7 DEF HandleConnect, ReconnectToBroker, HandleRegister, HandleSubscribe,
         HandleOther, HandleDisconnect, HandleSleep, HandlePingreq,
         HandleMessageArrived, HandleConnectionLost, ConnectToBroker, Dispose,
         Take, SameThread
    <3> QED
      BY <3>1
  <2> QED
    BY <2>1, <2>2, <2>3, <2>4, <2>5, <2>6, <2>7 DEF Next, Workcycle
<1>2. Pingresp # Connack("ACCEPTED")
  BY DEF Pingresp, Connack
<1> QED
  BY <1>1, <1>2 DEF LifeInv

LEMMA LifeStep == LifeInv /\ [Next]_vars => LifeInv'
<1> SUFFICES ASSUME LifeInv, [Next]_vars PROVE LifeInv'
  OBVIOUS
<1>1. TypeOK /\ TypeOK' /\ WakingIsActive'
  BY TypeStep, WakingStep DEF LifeInv
<1>2. mCurrentState' \in {"Disconnected", "Active", "Asleep"}
  BY <1>1 DEF TypeOK
<1>3. (BrokerLinkMatchesState /\ EndedIsDisposed)'
  <2> USE DEF BrokerLinkMatchesState, EndedIsDisposed, Connected
  <2>1. CASE Quiet
    BY <2>1 DEF Quiet, LifeInv
  <2>2. CASE LosesLink
    BY <2>2 DEF LosesLink, LifeInv
  <2>3. CASE Wakes
    BY <2>3 DEF Wakes, LifeInv
  <2>4. CASE Accepts
    BY <2>4 DEF Accepts
  <2>5. CASE Ends
    BY <2>5 DEF Ends
  <2> QED
    BY <2>1, <2>2, <2>3, <2>4, <2>5, LifeSteps
<1> QED
  BY <1>1, <1>3 DEF LifeInv

(* Whatever arrives from the client, the broker and the destructor, in any *)
(* order: a served state has a broker client to use, and a disconnected    *)
(* one no open link to the broker.                                         *)
THEOREM BrokerLinkAlwaysMatches == Spec => []BrokerLinkMatchesState
<1>1. LifeInv => BrokerLinkMatchesState
  BY DEF LifeInv
<1> QED
  BY <1>1, LifeInit, LifeStep, PTL DEF Spec

(* Every way out of a session asks for the removal of the connection. *)
THEOREM EndedIsAlwaysDisposed == Spec => []EndedIsDisposed
<1>1. LifeInv => EndedIsDisposed
  BY DEF LifeInv
<1> QED
  BY <1>1, LifeInit, LifeStep, PTL DEF Spec

-----------------------------------------------------------------------------
LEMMA ConnackStep ==
    ASSUME LifeInv, ConnackIsTruthful, [Next]_vars
    PROVE  ConnackIsTruthful'
<1> DEFINE NoConnack == \A i \in DOMAIN sent' : sent'[i].type # "CONNACK"
<1>1. ASSUME NoConnack PROVE ConnackIsTruthful'
  BY <1>1 DEF ConnackIsTruthful
<1>m. /\ DisconnectMessage.type # "CONNACK" /\ Pingresp.type # "CONNACK"
      /\ \A id : Regack(id).type # "CONNACK" /\ Suback(id).type # "CONNACK"
      /\ \A id, topic : /\ Register(id, topic).type # "CONNACK"
                        /\ Publish(id, topic).type # "CONNACK"
  BY DEF DisconnectMessage, Pingresp, Regack, Suback, Register, Publish
<1>e. sent' = <<>> => NoConnack
  OBVIOUS
<1>o. ASSUME NEW m, sent' = <<m>>, m.type # "CONNACK" PROVE NoConnack
  BY <1>o
<1>2. ASSUME NEW m, ForwardMessageToClient(m) PROVE NoConnack
  BY <1>2, <1>m DEF ForwardMessageToClient
<1>3. ASSUME NEW client, ConnectToBroker(client) PROVE ConnackIsTruthful'
  <2>1. ASSUME NEW link, RejectConnect(link) PROVE ConnackIsTruthful'
    BY <2>1 DEF RejectConnect, ConnackIsTruthful, Connack
  <2>2. CASE AcceptConnect
    BY <2>2 DEF AcceptConnect, ConnackIsTruthful, Connack
  <2> QED
    BY <1>3, <2>1, <2>2 DEF ConnectToBroker
<1>4. CASE HandleConnect \/ ReconnectToBroker
  BY <1>4, <1>3 DEF HandleConnect, ReconnectToBroker
<1>5. CASE Environment
  BY <1>5, <1>1, <1>e DEF Environment, Handle, MessageArrived, ConnectionLost, Destroy, Push
<1>6. CASE \/ HandlePublish \/ HandleOther \/ Stop \/ PublishComplete \/ Tick
           \/ ConnectFromSleep \/ Awake \/ TimedOut
  BY <1>6, <1>1, <1>e DEF HandlePublish, HandleOther, Stop, PublishComplete, Tick,
     ConnectFromSleep, Awake, SendBufferedMessages, TimedOut, Dispose
<1>7. CASE HandleConnectionLost \/ HandleDisconnect \/ HandleSleep
  BY <1>7, <1>1, <1>o, <1>m DEF HandleConnectionLost, HandleDisconnect, HandleSleep, Dispose
<1>8. CASE HandleRegister \/ HandleSubscribe
  BY <1>8, <1>1, <1>e, <1>o, <1>m DEF HandleRegister, HandleSubscribe
<1>9. CASE HandlePingreq
  BY <1>9, <1>1, <1>e, <1>o, <1>m DEF HandlePingreq
<1>10. CASE HandleMessageArrived
  BY <1>10, <1>1, <1>2, <1>e DEF HandleMessageArrived, StoreMessage
<1>11. CASE SendBuffered
  BY <1>11, <1>1, <1>2 DEF SendBuffered
<1>12. CASE AllSent
  <2>1. sent' = <<reply>> /\ UNCHANGED <<mCurrentState, mBrokerClient>> /\ pc = "flushing"
    BY <1>12 DEF AllSent, SameLife
  <2>2. CASE reply = Pingresp
    BY <2>1, <2>2, <1>1, <1>o, <1>m
  <2>3. CASE reply = Connack("ACCEPTED")
    <3>1. mCurrentState = "Active" /\ mBrokerClient # "none"
      BY <2>1, <2>3 DEF LifeInv, WakingIsActive, BrokerLinkMatchesState, Connected
    <3> QED
      BY <2>1, <2>3, <3>1 DEF ConnackIsTruthful, Connack
  <2>4. reply \in {Connack("ACCEPTED"), Pingresp}
    BY DEF LifeInv, TypeOK
  <2> QED
    BY <2>2, <2>3, <2>4
<1>13. CASE UNCHANGED vars
  BY <1>13 DEF vars, members, ConnackIsTruthful
<1> QED
  BY <1>4, <1>5, <1>6, <1>7, <1>8, <1>9, <1>10, <1>11, <1>12, <1>13 DEF Next, Workcycle

(* A CONNACK never promises a service the connection does not give, nor    *)
(* refuses one and keeps the connection.                                   *)
THEOREM ConnackIsAlwaysTruthful == Spec => []ConnackIsTruthful
<1>1. Init => LifeInv /\ ConnackIsTruthful
  BY LifeInit DEF Init, ConnackIsTruthful
<1>2. LifeInv /\ ConnackIsTruthful /\ [Next]_vars => (LifeInv /\ ConnackIsTruthful)'
  BY LifeStep, ConnackStep
<1> QED
  BY <1>1, <1>2, PTL DEF Spec

-----------------------------------------------------------------------------
(***************************************************************************)
(* Topic ids.  The table's invariant comes from TopicStorageProofs; with it *)
(* a new id is one the client has not been told for another topic.         *)
(***************************************************************************)
StorageInv == TypeOK /\ TSP!IndInv

LEMMA StorageInvariant ==
    /\ Init => StorageInv
    /\ StorageInv /\ [Next]_vars => StorageInv'
<1>1. ASSUME Init PROVE StorageInv
  <2>1. TSP!Init
    BY <1>1 DEF Init, TS!Init, TSP!Init, TS!NO_TOPIC_ID, TSP!NO_TOPIC_ID
  <2> QED
    BY <1>1, <2>1, TypeInit, TSP!IndInit, GatewayConnectionAssumption DEF StorageInv
<1>2. ASSUME StorageInv, [Next]_vars PROVE StorageInv'
  <2>1. [TSP!Next]_(TSP!vars)
    BY <1>2, StorageSteps DEF StorageInv, StorageStep, TS!Next, TSP!Next, TS!vars, TSP!vars,
       TS!GetOrCreateTopicId, TSP!GetOrCreateTopicId, TS!Clear, TSP!Clear,
       TS!NextId, TSP!NextId, TS!NO_TOPIC_ID, TSP!NO_TOPIC_ID
  <2>2. TSP!IndInv'
    BY <1>2, <2>1, TSP!IndStep, GatewayConnectionAssumption DEF StorageInv
  <2>3. TypeOK'
    BY <1>2, TypeStep DEF StorageInv
  <2> QED
    BY <2>2, <2>3 DEF StorageInv
<1> QED
  BY <1>1, <1>2

(* While the ids fit, a known topic has the position it is stored at, and  *)
(* the next id is none of those.                                           *)
LEMMA StoredIds ==
    ASSUME StorageInv, TS!IdsFit, NEW t \in DOMAIN mNameToId
    PROVE  /\ mNameToId[t] \in 1 .. Len(mIdToName) - 1
           /\ mNameToId[t] # TS!NO_TOPIC_ID
<1>1. Len(mIdToName) \in Nat /\ Len(mIdToName) <= IdModulus
  BY DEF StorageInv, TypeOK, TS!TypeOK, TS!IdsFit
<1>2. PICK i \in 2 .. Len(mIdToName) : mIdToName[i] = t
  BY DEF StorageInv, TSP!IndInv, TSP!NamesStored
<1>3. mNameToId[t] = (i - 1) % IdModulus
  BY <1>2 DEF StorageInv, TSP!IndInv, TSP!EntriesMapped
<1>4. (i - 1) % IdModulus = i - 1
  BY <1>1, <1>2, GatewayConnectionAssumption
<1> QED
  BY <1>1, <1>2, <1>3, <1>4 DEF TS!NO_TOPIC_ID

LEMMA ToldAgrees ==
    ASSUME StorageInv, IdsAgreeWithClient, NEW t \in Topics,
           TS!GetOrCreateTopicId(t), announced' = Told(TS!GetOrCreated(t), t)
    PROVE  /\ IdsAgreeWithClient'
           /\ TS!GetOrCreated(t) \in DOMAIN announced'
           /\ announced'[TS!GetOrCreated(t)] = t
<1> DEFINE id == TS!GetOrCreated(t)
<1>1. id \in DOMAIN announced' /\ announced'[id] = t
  BY DEF Told
<1>2. ASSUME TS!IdsFit', t \in DOMAIN mNameToId
      PROVE  /\ DOMAIN announced' = {mNameToId'[n] : n \in DOMAIN mNameToId'}
             /\ \A n \in DOMAIN mNameToId' : announced'[mNameToId'[n]] = n
  <2>1. UNCHANGED <<mIdToName, mNameToId>> /\ id = mNameToId[t]
    BY <1>2 DEF TS!GetOrCreateTopicId, TS!GetOrCreated, TS!vars
  <2>2. TS!IdsFit
    BY <1>2, <2>1 DEF TS!IdsFit
  <2> QED
    BY <1>2, <2>1, <2>2 DEF IdsAgreeWithClient, Told
<1>3. ASSUME TS!IdsFit', t \notin DOMAIN mNameToId
      PROVE  /\ DOMAIN announced' = {mNameToId'[n] : n \in DOMAIN mNameToId'}
             /\ \A n \in DOMAIN mNameToId' : announced'[mNameToId'[n]] = n
  <2>1. /\ mIdToName' = Append(mIdToName, t)
        /\ mNameToId' = [n \in DOMAIN mNameToId \cup {t} |->
                            IF n = t THEN id ELSE mNameToId[n]]
        /\ id = Len(mIdToName) % IdModulus
    BY <1>3 DEF TS!GetOrCreateTopicId, TS!GetOrCreated, TS!NextId
  <2>2. Len(mIdToName) \in Nat /\ Len(mIdToName') = Len(mIdToName) + 1
    BY <2>1 DEF StorageInv, TypeOK, TS!TypeOK
  <2>3. TS!IdsFit /\ Len(mIdToName) < IdModulus
    BY <1>3, <2>2, GatewayConnectionAssumption DEF TS!IdsFit
  <2>4. id = Len(mIdToName)
    BY <2>1, <2>2, <2>3, GatewayConnectionAssumption
  <2>5. \A n \in DOMAIN mNameToId : mNameToId[n] # id
    BY <2>2, <2>3, <2>4, StoredIds
  <2>6. /\ DOMAIN announced = {mNameToId[n] : n \in DOMAIN mNameToId}
        /\ \A n \in DOMAIN mNameToId : announced[mNameToId[n]] = n
    BY <2>3 DEF IdsAgreeWithClient
  <2> HIDE DEF id
  <2>7. \A n \in DOMAIN mNameToId' : announced'[mNameToId'[n]] = n
    BY <1>1, <2>1, <2>5, <2>6 DEF Told, id
  <2>8. DOMAIN announced' = {mNameToId'[n] : n \in DOMAIN mNameToId'}
    BY <1>3, <2>1, <2>6 DEF Told, id
  <2> QED
    BY <2>7, <2>8
<1> QED
  BY <1>1, <1>2, <1>3 DEF IdsAgreeWithClient

IdsInv == StorageInv /\ IdsAgreeWithClient

LEMMA SameTopicsAgree ==
    ASSUME IdsAgreeWithClient, SameTopics
    PROVE  IdsAgreeWithClient'
  BY DEF IdsAgreeWithClient, SameTopics, storage, TS!IdsFit

\* sent carries no PUBLISH.
NoPublish(s) == \A i \in DOMAIN s : s[i].type # "PUBLISH"

LEMMA ForwardAgrees ==
    ASSUME IdsInv, NEW m \in BrokerMessages, ForwardMessageToClient(m)
    PROVE  IdsAgreeWithClient' /\ PublishIsResolvable'
<1> DEFINE id == TS!GetOrCreated(m.topic)
<1>1. m.topic \in Topics /\ TS!GetOrCreateTopicId(m.topic)
  BY DEF BrokerMessages, ForwardMessageToClient
<1>2. CASE /\ sent' = <<Register(id, m.topic), Publish(id, m.topic)>>
           /\ announced' = Told(id, m.topic)
  <2>1. /\ IdsAgreeWithClient'
        /\ id \in DOMAIN announced' /\ announced'[id] = m.topic
    BY <1>1, <1>2, ToldAgrees DEF IdsInv
  <2>2. \A i \in DOMAIN sent' : sent'[i].type = "PUBLISH" =>
           sent'[i].topicId = id /\ sent'[i].topicName = m.topic
    BY <1>2 DEF Register, Publish
  <2> QED
    BY <2>1, <2>2 DEF PublishIsResolvable
<1>3. CASE /\ TS!GetTopicId(m.topic) # TS!NO_TOPIC_ID
           /\ sent' = <<Publish(id, m.topic)>>
           /\ UNCHANGED announced
  <2>1. m.topic \in DOMAIN mNameToId /\ id = mNameToId[m.topic]
    BY <1>3 DEF TS!GetTopicId, TS!GetOrCreated
  <2>2. UNCHANGED storage
    BY <1>1, <2>1 DEF TS!GetOrCreateTopicId, TS!vars, storage
  <2>3. IdsAgreeWithClient'
    BY <1>3, <2>2, SameTopicsAgree DEF IdsInv, SameTopics
  <2>4. TS!IdsFit' => id \in DOMAIN announced' /\ announced'[id] = m.topic
    BY <2>1, <2>2, <2>3 DEF IdsAgreeWithClient, storage
  <2>5. \A i \in DOMAIN sent' : sent'[i].type = "PUBLISH" =>
           sent'[i].topicId = id /\ sent'[i].topicName = m.topic
    BY <1>3 DEF Publish
  <2> QED
    BY <2>3, <2>4, <2>5 DEF PublishIsResolvable
<1> QED
  BY <1>2, <1>3 DEF ForwardMessageToClient

LEMMA IdsStep ==
    ASSUME IdsInv, PublishIsResolvable, [Next]_vars
    PROVE  IdsAgreeWithClient' /\ PublishIsResolvable'
<1>i. IdsAgreeWithClient /\ TypeOK
  BY DEF IdsInv, StorageInv
<1>1. NoPublish(sent') => PublishIsResolvable'
  BY DEF NoPublish, PublishIsResolvable
<1>m. /\ DisconnectMessage.type # "PUBLISH" /\ Pingresp.type # "PUBLISH"
      /\ \A code : Connack(code).type # "PUBLISH"
      /\ \A id : Regack(id).type # "PUBLISH" /\ Suback(id).type # "PUBLISH"
  BY DEF DisconnectMessage, Pingresp, Connack, Regack, Suback
<1>e. sent' = <<>> => NoPublish(sent')
  BY DEF NoPublish
<1>o. ASSUME NEW m, sent' = <<m>>, m.type # "PUBLISH" PROVE NoPublish(sent')
  BY <1>o DEF NoPublish
<1>c. ASSUME NEW client, ConnectToBroker(client) PROVE NoPublish(sent')
  BY <1>c, <1>m, <1>o DEF ConnectToBroker, RejectConnect, AcceptConnect
<1>2. CASE Environment
  BY <1>2, <1>i, <1>1, <1>e, SameTopicsAgree
  DEF Environment, Handle, MessageArrived, ConnectionLost, Destroy, Push, SameTopics
<1>3. CASE HandleConnect
  BY <1>3, <1>i, <1>1, <1>c, SameTopicsAgree DEF HandleConnect
<1>4. CASE ReconnectToBroker
  <2>1. DOMAIN announced' = {} /\ DOMAIN mNameToId' = {}
    BY <1>4 DEF ReconnectToBroker, TS!Clear, NothingAnnounced
  <2>2. IdsAgreeWithClient'
    BY <2>1 DEF IdsAgreeWithClient
  <2> QED
    BY <1>4, <2>2, <1>1, <1>c DEF ReconnectToBroker
<1>5. CASE HandleRegister \/ HandleSubscribe
  <2> DEFINE t == Message.topicName
             id == TS!GetOrCreated(Message.topicName)
  <2>1. NoPublish(sent')
    BY <1>5, <1>e, <1>o, <1>m DEF HandleRegister, HandleSubscribe
  <2>2. CASE t \in Topics /\ TS!GetOrCreateTopicId(t) /\ announced' = Told(id, t)
    BY <2>1, <2>2, <1>1, ToldAgrees DEF IdsInv
  <2>3. CASE SameTopics
    BY <2>1, <2>3, <1>i, <1>1, SameTopicsAgree
  <2>4. HandleRegister => t \in Topics
    BY <1>i, HeadTypes DEF HandleRegister
  <2> QED
    BY <1>5, <2>2, <2>3, <2>4 DEF HandleRegister, HandleSubscribe
<1>6. CASE \/ HandlePublish \/ HandleOther \/ Stop \/ PublishComplete \/ Tick
           \/ ConnectFromSleep \/ Awake \/ TimedOut
  BY <1>6, <1>i, <1>1, <1>e, SameTopicsAgree DEF HandlePublish, HandleOther, Stop,
     PublishComplete, Tick, ConnectFromSleep, Awake, SendBufferedMessages, TimedOut, Dispose
<1>7. CASE HandleConnectionLost \/ HandleDisconnect \/ HandleSleep
  BY <1>7, <1>i, <1>1, <1>o, <1>m, SameTopicsAgree
  DEF HandleConnectionLost, HandleDisconnect, HandleSleep, Dispose
<1>8. CASE HandlePingreq
  BY <1>8, <1>i, <1>1, <1>e, <1>o, <1>m, SameTopicsAgree DEF HandlePingreq
<1>9. CASE AllSent
  <2>1. reply.type # "PUBLISH"
    BY <1>i, <1>m DEF TypeOK
  <2> QED
    BY <1>9, <2>1, <1>i, <1>1, <1>o, SameTopicsAgree DEF AllSent
<1>10. CASE HandleMessageArrived
  <2>1. Message.message \in BrokerMessages
    BY <1>10, <1>i, HeadTypes DEF HandleMessageArrived
  <2>2. CASE ForwardMessageToClient(Message.message)
    BY <2>1, <2>2, ForwardAgrees
  <2>3. CASE sent' = <<>> /\ SameTopics
    BY <2>3, <1>i, <1>1, <1>e, SameTopicsAgree
  <2> QED
    BY <1>10, <2>2, <2>3 DEF HandleMessageArrived, StoreMessage
<1>11. CASE SendBuffered
  <2>1. Head(messages) \in BrokerMessages
    BY <1>11, <1>i DEF SendBuffered, TypeOK
  <2> QED
    BY <1>11, <2>1, ForwardAgrees DEF SendBuffered
<1>12. CASE UNCHANGED vars
  BY <1>12, <1>i, SameTopicsAgree DEF vars, storage, SameTopics, PublishIsResolvable, TS!IdsFit
<1> QED
  BY <1>2, <1>3, <1>4, <1>5, <1>6, <1>7, <1>8, <1>9, <1>10, <1>11, <1>12 DEF Next, Workcycle

LEMMA IdsInvariant == Spec => [](IdsInv /\ PublishIsResolvable)
<1>1. ASSUME Init PROVE IdsInv /\ PublishIsResolvable
  <2>1. DOMAIN announced = {} /\ DOMAIN mNameToId = {} /\ sent = <<>>
    BY <1>1 DEF Init, TS!Init, NothingAnnounced
  <2>2. IdsAgreeWithClient /\ PublishIsResolvable
    BY <2>1 DEF IdsAgreeWithClient, PublishIsResolvable
  <2> QED
    BY <1>1, <2>2, StorageInvariant DEF IdsInv
<1>2. ASSUME IdsInv, PublishIsResolvable, [Next]_vars
      PROVE  (IdsInv /\ PublishIsResolvable)'
  <2>1. StorageInv'
    BY <1>2, StorageInvariant DEF IdsInv
  <2>2. IdsAgreeWithClient' /\ PublishIsResolvable'
    BY <1>2, IdsStep
  <2> QED
    BY <2>1, <2>2 DEF IdsInv
<1> QED
  BY <1>1, <1>2, PTL DEF Spec

(* Gateway and client never disagree on what an id means, however the      *)
(* registrations of the client, the messages of the broker and the flushes *)
(* of reconnects follow each other, while a session has no more topics     *)
(* than ids.                                                               *)
THEOREM IdsAlwaysAgree == Spec => []IdsAgreeWithClient
<1>1. IdsInv => IdsAgreeWithClient
  BY DEF IdsInv
<1> QED
  BY <1>1, IdsInvariant, PTL

(* The client is never sent a PUBLISH whose topic it was not told. *)
THEOREM PublishIsAlwaysResolvable == Spec => []PublishIsResolvable
  BY IdsInvariant, PTL
-----------------------------------------------------------------------------
(***************************************************************************)
(* The order of the broker's messages.  A message keeps the session it     *)
(* arrived in, and sessions only grow, so what is pending and what is      *)
(* queued after it is sorted by session: those of this session come last.  *)
(***************************************************************************)
IsArrival(i) == mQueue[i].type = "messageArrived"

PendingSorted ==
    /\ \A i \in DOMAIN Pending : Pending[i].session <= session
    /\ \A i, j \in DOMAIN Pending : i < j => Pending[i].session <= Pending[j].session

QueueSorted ==
    /\ \A i \in DOMAIN mQueue : IsArrival(i) => mQueue[i].message.session <= session
    /\ \A i, j \in DOMAIN mQueue :
          i < j /\ IsArrival(i) /\ IsArrival(j)
              => mQueue[i].message.session <= mQueue[j].message.session

PendingBeforeQueue ==
    \A i \in DOMAIN Pending, j \in DOMAIN mQueue :
        IsArrival(j) => Pending[i].session <= mQueue[j].message.session

(* Only sendBufferedMessages has copies to send, and an awake client's     *)
(* messages are not buffered.                                              *)
CopiesOnlyInFlush ==
    /\ pc # "flushing" => messages = <<>>
    /\ pc = "flushing" => mBufferedMessages = <<>>
    /\ mCurrentState = "Active" =>
          \A i \in DOMAIN mBufferedMessages : ~OfThisSession(mBufferedMessages[i])

OrderInv == PendingSorted /\ QueueSorted /\ PendingBeforeQueue
FifoInv == TypeOK /\ OrderInv /\ CopiesOnlyInFlush /\ SessionFifo

LEMMA PendingTypes ==
    ASSUME TypeOK
    PROVE  /\ session \in Nat /\ Pending \in Seq(BrokerMessages)
           /\ \A i \in DOMAIN Pending : Pending[i].session \in Nat /\ Pending[i].nr \in 1 .. MaxMessages
           /\ \A i \in DOMAIN mQueue : IsArrival(i) => mQueue[i].message.session \in Nat
<1>1. \A m \in BrokerMessages : m.session \in Nat /\ m.nr \in 1 .. MaxMessages
  BY DEF BrokerMessages
<1>2. Pending \in Seq(BrokerMessages)
  BY DEF TypeOK, Pending
<1>3. ASSUME NEW i \in DOMAIN mQueue, IsArrival(i) PROVE mQueue[i].message \in BrokerMessages
  <2>1. mQueue[i] \in Actions /\ mQueue[i].type = "messageArrived"
    BY <1>3 DEF TypeOK, IsArrival
  <2> QED
    BY <2>1 DEF Actions, ClientMessages
<1>4. session \in Nat
  BY DEF TypeOK
<1> QED
  BY <1>1, <1>2, <1>3, <1>4

(* Handling an action takes it from the queue; the session may be newer.   *)
LEMMA OrderAfterTake ==
    ASSUME TypeOK, OrderInv, NEW type, Take(type), UNCHANGED Pending,
           session' \in Nat, session <= session'
    PROVE  OrderInv'
<1>1. /\ mQueue \in Seq(Actions) /\ mQueue # <<>> /\ mQueue' = Tail(mQueue)
  BY DEF Take, TypeOK
<1>2. DOMAIN mQueue' = 1 .. Len(mQueue) - 1 /\ DOMAIN mQueue = 1 .. Len(mQueue)
  BY <1>1
<1>3. \A i \in DOMAIN mQueue' :
         i + 1 \in DOMAIN mQueue /\ mQueue'[i] = mQueue[i + 1] /\ (IsArrival(i)' => IsArrival(i + 1))
  BY <1>1, <1>2 DEF IsArrival
<1> USE PendingTypes DEF OrderInv
<1>4. PendingSorted'
  BY DEF PendingSorted
<1>5. QueueSorted'
  <2>1. ASSUME NEW i \in DOMAIN mQueue', IsArrival(i)' PROVE mQueue'[i].message.session <= session'
    BY <1>3, <2>1 DEF QueueSorted
  <2>2. ASSUME NEW i \in DOMAIN mQueue', NEW j \in DOMAIN mQueue', i < j, IsArrival(i)', IsArrival(j)'
        PROVE  mQueue'[i].message.session <= mQueue'[j].message.session
    <3>1. i + 1 < j + 1
      BY <1>2, <2>2
    <3> QED
      BY <1>3, <2>2, <3>1 DEF QueueSorted
  <2> QED
    BY <2>1, <2>2 DEF QueueSorted
<1>6. PendingBeforeQueue'
  BY <1>2, <1>3 DEF PendingBeforeQueue
<1> QED
  BY <1>4, <1>5, <1>6

(* A pushed action comes last, with the newest session if it is an arrival. *)
LEMMA OrderAfterPush ==
    ASSUME TypeOK, OrderInv, NEW action, Push(action),
           action.type = "messageArrived" => action.message.session = session
    PROVE  OrderInv'
<1>1. /\ mQueue \in Seq(Actions) /\ mQueue' = Append(mQueue, action)
      /\ UNCHANGED <<messages, mBufferedMessages, session>>
  BY DEF Push, TypeOK, thread
<1>2. DOMAIN mQueue' = 1 .. Len(mQueue) + 1 /\ DOMAIN mQueue = 1 .. Len(mQueue) /\ Len(mQueue) \in Nat
  BY <1>1
<1>3. /\ \A i \in DOMAIN mQueue : mQueue'[i] = mQueue[i] /\ (IsArrival(i)' <=> IsArrival(i))
      /\ mQueue'[Len(mQueue) + 1] = action
  BY <1>1, <1>2 DEF IsArrival
<1>4. UNCHANGED Pending
  BY <1>1 DEF Pending
<1>5. \A i \in DOMAIN mQueue' : IsArrival(i)' => i \in DOMAIN mQueue \/ mQueue'[i].message.session = session
  BY <1>2, <1>3 DEF IsArrival
<1> USE PendingTypes DEF OrderInv
<1>6. PendingSorted'
  BY <1>1, <1>4 DEF PendingSorted
<1>7. QueueSorted'
  BY <1>1, <1>2, <1>3, <1>5 DEF QueueSorted
<1>8. PendingBeforeQueue'
  BY <1>1, <1>2, <1>3, <1>4, <1>5 DEF PendingBeforeQueue, PendingSorted
<1> QED
  BY <1>6, <1>7, <1>8

(* Concatenations. *)
LEMMA ConcatAppend ==
    ASSUME NEW S, NEW s \in Seq(S), NEW t \in Seq(S), NEW e \in S
    PROVE  s \o Append(t, e) = Append(s \o t, e)
  OBVIOUS

LEMMA ConcatTail ==
    ASSUME NEW S, NEW s \in Seq(S), NEW t \in Seq(S), s # <<>>
    PROVE  /\ s \o t # <<>> /\ Head(s \o t) = Head(s) /\ Tail(s \o t) = Tail(s) \o t
  OBVIOUS

LEMMA ConcatEmpty ==
    ASSUME NEW S, NEW s \in Seq(S)
    PROVE  s \o <<>> = s /\ <<>> \o s = s
  OBVIOUS

LEMMA ConcatShift ==
    ASSUME NEW S, NEW s \in Seq(S), NEW t \in Seq(S), t # <<>>
    PROVE  Append(s, Head(t)) \o Tail(t) = s \o t
  OBVIOUS

(* SessionFifo, with a name for what is owed after the first k pending     *)
(* messages.                                                               *)
Owed(k) == [i \in 1 .. Len(Pending) - k |-> Pending[k + i].nr]
OlderFirst(k) == \A i \in 1 .. Len(Pending) : Pending[i].session = session <=> i > k

FifoFrom(k) ==
    k \in 0 .. Len(Pending) /\ OlderFirst(k) /\ accepted = delivered \o Owed(k)

LEMMA FifoIs ==
    /\ SessionFifo /\ Connected => \E k : FifoFrom(k)
    /\ ~Connected' => SessionFifo'
    /\ \A k : FifoFrom(k)' => SessionFifo'
  BY DEF SessionFifo, FifoFrom, OlderFirst, Owed, OfThisSession

LEMMA ElementOfSeq ==
    ASSUME NEW S, NEW s \in Seq(S), NEW i \in 1 .. Len(s)
    PROVE  s[i] \in S
  OBVIOUS

LEMMA SameSeq ==
    ASSUME NEW S, NEW s \in Seq(S), NEW t \in Seq(S), Len(s) = Len(t),
           \A i \in 1 .. Len(s) : s[i] = t[i]
    PROVE  s = t
  OBVIOUS

LEMMA FunctionIsSeq ==
    ASSUME NEW S, NEW m \in Nat, NEW f \in [1 .. m -> S]
    PROVE  f \in Seq(S) /\ Len(f) = m
  OBVIOUS

LEMMA OwedTypes ==
    ASSUME TypeOK, NEW k \in 0 .. Len(Pending)
    PROVE  /\ Len(Pending) \in Nat /\ DOMAIN Pending = 1 .. Len(Pending)
           /\ Owed(k) \in Seq(1 .. MaxMessages) /\ Len(Owed(k)) = Len(Pending) - k
           /\ Owed(Len(Pending)) = <<>>
<1>1. Len(Pending) \in Nat /\ DOMAIN Pending = 1 .. Len(Pending)
  BY PendingTypes
<1>2. \A i \in 1 .. Len(Pending) - k : Pending[k + i].nr \in 1 .. MaxMessages
  <2>1. \A i \in 1 .. Len(Pending) - k : k + i \in DOMAIN Pending
    BY <1>1
  <2> QED
    BY <2>1, PendingTypes
<1>3. Len(Pending) - k \in Nat
  BY <1>1
<1>4. Owed(k) \in Seq(1 .. MaxMessages) /\ Len(Owed(k)) = Len(Pending) - k
  <2>1. Owed(k) \in [1 .. Len(Pending) - k -> 1 .. MaxMessages]
    BY <1>2 DEF Owed
  <2> QED
    BY <1>3, <2>1, FunctionIsSeq
<1>5. Owed(Len(Pending)) = <<>>
  BY <1>1 DEF Owed
<1> QED
  BY <1>1, <1>4, <1>5

(* Nothing is taken on or sent. *)
LEMMA FifoStays ==
    ASSUME SessionFifo, Connected' => Connected,
           UNCHANGED <<messages, mBufferedMessages, accepted, delivered, session>>
    PROVE  SessionFifo'
  BY DEF SessionFifo, Pending, OfThisSession

(* A new session owes nothing: what is pending is older. *)
LEMMA FifoOfNewSession ==
    ASSUME TypeOK, OrderInv, session' = session + 1, accepted' = <<>>, delivered' = <<>>,
           UNCHANGED Pending
    PROVE  SessionFifo'
<1>1. Len(Pending) \in 0 .. Len(Pending)
  BY PendingTypes
<1>2. \A i \in DOMAIN Pending : Pending[i].session # session'
  BY PendingTypes DEF OrderInv, PendingSorted
<1>3. OlderFirst(Len(Pending))' /\ Owed(Len(Pending))' = <<>>
  BY <1>1, <1>2, OwedTypes DEF OlderFirst, Owed
<1>4. accepted' = delivered' \o Owed(Len(Pending))' /\ Len(Pending) \in 0 .. Len(Pending')
  BY <1>1, <1>3
<1> QED
  BY <1>3, <1>4, FifoIs DEF FifoFrom

(* A message taken on and sent at once: nothing of this session is pending. *)
LEMMA FifoOfForward ==
    ASSUME TypeOK, SessionFifo, Connected, NEW m \in BrokerMessages,
           \A i \in DOMAIN Pending : ~OfThisSession(Pending[i]),
           accepted' = IF OfThisSession(m) THEN Append(accepted, m.nr) ELSE accepted,
           delivered' = IF OfThisSession(m) THEN Append(delivered, m.nr) ELSE delivered,
           UNCHANGED <<messages, mBufferedMessages, session>>
    PROVE  SessionFifo'
<1>1. PICK k : k \in 0 .. Len(Pending) /\ OlderFirst(k) /\ accepted = delivered \o Owed(k)
  BY FifoIs DEF FifoFrom
<1>2. k = Len(Pending)
  <2>1. PICK n \in Nat : n = Len(Pending)
    BY PendingTypes
  <2>2. k \in 0 .. n
    BY <1>1, <2>1
  <2>3. k < n => n \in 1 .. Len(Pending) /\ n > k
    BY <2>1, <2>2
  <2>4. k < n => OfThisSession(Pending[n])
    BY <1>1, <2>1, <2>3 DEF OlderFirst, OfThisSession
  <2>5. \A i \in 1 .. Len(Pending) : ~OfThisSession(Pending[i])
    BY PendingTypes
  <2>6. ~(k < n)
    BY <2>3, <2>4, <2>5
  <2> QED
    BY <2>1, <2>2, <2>6
<1>3. delivered \in Seq(1 .. MaxMessages) /\ m.nr \in 1 .. MaxMessages
  BY DEF TypeOK, BrokerMessages
<1>4. Owed(k) = <<>>
  <2>1. Len(Pending) \in 0 .. Len(Pending)
    BY PendingTypes
  <2> QED
    BY <1>2, <2>1, OwedTypes
<1>5. accepted = delivered
  BY <1>1, <1>3, <1>4, ConcatEmpty
<1>6. delivered' \in Seq(1 .. MaxMessages)
  <2>1. Append(delivered, m.nr) \in Seq(1 .. MaxMessages)
    BY <1>3
  <2>2. delivered' = delivered \/ delivered' = Append(delivered, m.nr)
    OBVIOUS
  <2> QED
    BY <1>3, <2>1, <2>2
<1>7. UNCHANGED Pending
  BY DEF Pending
<1>8. Owed(k)' = Owed(k) /\ OlderFirst(k)' /\ k \in 0 .. Len(Pending')
  BY <1>1, <1>7 DEF Owed, OlderFirst
<1>9. accepted' = delivered' \o Owed(k)'
  BY <1>4, <1>5, <1>6, <1>8, ConcatEmpty
<1> QED
  BY <1>8, <1>9, FifoIs DEF FifoFrom

(* A message taken on and buffered comes last. *)
LEMMA FifoOfStore ==
    ASSUME TypeOK, SessionFifo, Connected, NEW m \in BrokerMessages,
           \A i \in DOMAIN Pending : Pending[i].session <= m.session /\ m.session <= session,
           accepted' = IF OfThisSession(m) THEN Append(accepted, m.nr) ELSE accepted,
           mBufferedMessages' = Append(mBufferedMessages, m),
           UNCHANGED <<messages, delivered, session>>
    PROVE  SessionFifo'
<1>n. PICK n \in Nat : n = Len(Pending)
  BY PendingTypes
<1>1. PICK k : k \in 0 .. n /\ OlderFirst(k) /\ accepted = delivered \o Owed(k)
  BY <1>n, FifoIs DEF FifoFrom
<1>2. /\ n \in Nat /\ k \in 0 .. n /\ DOMAIN Pending = 1 .. n
      /\ Owed(k) \in Seq(1 .. MaxMessages) /\ Len(Owed(k)) = n - k
  BY <1>n, <1>1, OwedTypes
<1>3. delivered \in Seq(1 .. MaxMessages) /\ m.nr \in 1 .. MaxMessages /\ m.session \in Nat
  BY DEF TypeOK, BrokerMessages
<1>4. Pending' = Append(Pending, m) /\ Pending \in Seq(BrokerMessages)
  <2>1. messages \in Seq(BrokerMessages) /\ mBufferedMessages \in Seq(BrokerMessages)
    BY DEF TypeOK
  <2>2. messages \o Append(mBufferedMessages, m) = Append(messages \o mBufferedMessages, m)
    BY <2>1, ConcatAppend
  <2>3. Pending' = messages \o Append(mBufferedMessages, m)
    BY DEF Pending
  <2> QED
    BY <2>1, <2>2, <2>3 DEF Pending
<1>5. /\ Len(Pending') = n + 1 /\ DOMAIN Pending' = 1 .. n + 1
      /\ \A i \in 1 .. n : Pending'[i] = Pending[i]
      /\ Pending'[n + 1] = m
  BY <1>n, <1>2, <1>4
<1>6. CASE OfThisSession(m)
  <2>1. \A i \in 1 .. n + 1 - k : k + i \in 1 .. n + 1 /\ (i = n + 1 - k <=> k + i = n + 1)
    BY <1>2
  <2>2. Owed(k)' = Append(Owed(k), m.nr)
    <3> DEFINE owed == Append(Owed(k), m.nr)
    <3>1. /\ owed \in Seq(1 .. MaxMessages) /\ Len(owed) = n + 1 - k
          /\ \A i \in 1 .. n - k : owed[i] = Owed(k)[i]
          /\ owed[n + 1 - k] = m.nr
      BY <1>2, <1>3
    <3> HIDE DEF owed
    <3>2. \A i \in 1 .. n + 1 - k : owed[i] = Pending'[k + i].nr
      <4>1. \A i \in 1 .. n - k : Owed(k)[i] = Pending[k + i].nr
        BY <1>n DEF Owed
      <4>2. ASSUME NEW i \in 1 .. n - k PROVE owed[i] = Pending'[k + i].nr
        <5>1. owed[i] = Pending[k + i].nr
          BY <3>1, <4>1
        <5>2. k + i \in 1 .. n
          BY <1>2
        <5> QED
          BY <1>5, <5>1, <5>2
      <4>3. k + (n + 1 - k) = n + 1 /\ \A i \in 1 .. n + 1 - k : i \in 1 .. n - k \/ i = n + 1 - k
        BY <1>2
      <4>4. owed[n + 1 - k] = Pending'[k + (n + 1 - k)].nr
        BY <1>5, <3>1, <4>3
      <4> QED
        BY <4>2, <4>3, <4>4
    <3>3. Owed(k)' = [i \in 1 .. Len(Pending') - k |-> Pending'[k + i].nr]
      BY DEF Owed
    <3>4. Owed(k)' = [i \in 1 .. n + 1 - k |-> Pending'[k + i].nr]
      <4>1. Len(Pending') - k = n + 1 - k
        BY <1>2, <1>5
      <4> QED
        BY <3>3, <4>1
    <3>5. \A i \in 1 .. n + 1 - k : Owed(k)'[i] = owed[i] /\ owed[i] \in 1 .. MaxMessages
      <4>1. \A i \in 1 .. n + 1 - k : owed[i] \in 1 .. MaxMessages
        BY <3>1, ElementOfSeq
      <4> QED
        BY <3>2, <3>4, <4>1
    <3>6. Owed(k)' \in Seq(1 .. MaxMessages) /\ Len(Owed(k)') = n + 1 - k
      <4>1. Owed(k)' \in [1 .. n + 1 - k -> 1 .. MaxMessages]
        BY <3>4, <3>5
      <4>2. n + 1 - k \in Nat
        BY <1>2
      <4> QED
        BY <4>1, <4>2, FunctionIsSeq
    <3>7. Owed(k)' = owed
      BY <3>1, <3>5, <3>6, SameSeq
    <3> QED
      BY <3>7 DEF owed
  <2>3. accepted' = delivered \o Append(Owed(k), m.nr)
    <3>1. accepted' = Append(delivered \o Owed(k), m.nr)
      BY <1>1, <1>6
    <3>2. delivered \o Append(Owed(k), m.nr) = Append(delivered \o Owed(k), m.nr)
      BY <1>2, <1>3, ConcatAppend
    <3> QED
      BY <3>1, <3>2
  <2>4. OlderFirst(k)'
    <3>1. n + 1 > k /\ m.session = session
      BY <1>2, <1>6 DEF OfThisSession
    <3>2. \A i \in 1 .. n + 1 : i \in 1 .. n \/ i = n + 1
      OBVIOUS
    <3> QED
      BY <1>n, <1>1, <1>2, <1>5, <3>1, <3>2 DEF OlderFirst
  <2>5. k \in 0 .. Len(Pending')
    BY <1>2, <1>5
  <2>6. accepted' = delivered' \o Owed(k)'
    BY <2>2, <2>3
  <2> QED
    BY <2>4, <2>5, <2>6, FifoIs DEF FifoFrom
<1>7. CASE ~OfThisSession(m)
  <2>1. \A i \in DOMAIN Pending : Pending[i].session # session
    BY <1>3, <1>7, PendingTypes DEF OfThisSession
  <2>2. k = n
    <3>1. k < n => n \in 1 .. Len(Pending) /\ n > k
      BY <1>n, <1>2
    <3>2. k < n => Pending[n].session = session
      BY <1>1, <1>2, <3>1 DEF OlderFirst
    <3> QED
      BY <1>n, <1>2, <2>1, <3>1, <3>2
  <2>3. accepted' = delivered
    BY <1>1, <1>3, <1>7, <2>2, <1>n, OwedTypes, ConcatEmpty
  <2>4. Owed(n + 1)' = <<>>
    BY <1>2, <1>5 DEF Owed
  <2>5. OlderFirst(n + 1)'
    BY <1>2, <1>5, <1>7, <2>1 DEF OlderFirst, OfThisSession
  <2>6. n + 1 \in 0 .. Len(Pending')
    BY <1>2, <1>5
  <2>7. accepted' = delivered' \o Owed(n + 1)'
    BY <1>3, <2>3, <2>4, ConcatEmpty
  <2> QED
    BY <2>5, <2>6, <2>7, FifoIs DEF FifoFrom
<1> QED
  BY <1>6, <1>7

(* A pending message that is sent was the first. *)
LEMMA FifoOfSend ==
    ASSUME TypeOK, SessionFifo, Connected, messages # <<>>, messages' = Tail(messages),
           delivered' = IF OfThisSession(Head(messages))
                        THEN Append(delivered, Head(messages).nr) ELSE delivered,
           UNCHANGED <<mBufferedMessages, accepted, session>>
    PROVE  SessionFifo'
<1> DEFINE m == Head(messages)
<1>n. PICK n \in Nat : n = Len(Pending)
  BY PendingTypes
<1>1. PICK k : k \in 0 .. n /\ OlderFirst(k) /\ accepted = delivered \o Owed(k)
  BY <1>n, FifoIs DEF FifoFrom
<1>2. /\ n \in Nat /\ k \in 0 .. n /\ DOMAIN Pending = 1 .. n
      /\ Owed(k) \in Seq(1 .. MaxMessages) /\ Len(Owed(k)) = n - k
  BY <1>n, <1>1, OwedTypes
<1>3. Pending \in Seq(BrokerMessages) /\ Pending # <<>> /\ Head(Pending) = m /\ Pending' = Tail(Pending)
  <2>1. messages \in Seq(BrokerMessages) /\ mBufferedMessages \in Seq(BrokerMessages)
    BY DEF TypeOK
  <2>2. Pending' = Tail(messages) \o mBufferedMessages
    BY DEF Pending
  <2> QED
    BY <2>1, <2>2, ConcatTail DEF Pending
<1>4. /\ n > 0 /\ Pending[1] = m /\ Len(Pending') = n - 1 /\ DOMAIN Pending' = 1 .. n - 1
      /\ \A i \in 1 .. n - 1 : Pending'[i] = Pending[i + 1]
  BY <1>n, <1>3
<1>5. delivered \in Seq(1 .. MaxMessages)
  BY DEF TypeOK
<1>m. delivered' = IF OfThisSession(m) THEN Append(delivered, m.nr) ELSE delivered
  OBVIOUS
<1> HIDE DEF m
<1>6. CASE OfThisSession(m)
  <2>1. k = 0
    BY <1>1, <1>2, <1>4, <1>6 DEF OlderFirst, OfThisSession
  <2>2. Owed(0) = [i \in 1 .. n |-> Pending[i].nr]
    BY <1>n, <1>2 DEF Owed
  <2>3. Owed(0)' = [i \in 1 .. n - 1 |-> Pending'[i].nr]
    BY <1>2, <1>4 DEF Owed
  <2>4. Owed(0) # <<>> /\ Head(Owed(0)) = m.nr /\ Len(Owed(0)) = n
    BY <1>2, <1>4, <2>2
  <2>5. /\ Owed(0)' \in Seq(1 .. MaxMessages) /\ Len(Owed(0)') = n - 1
        /\ \A i \in 1 .. n - 1 : Owed(0)'[i] = Owed(0)[i + 1]
    <3>1. \A i \in 1 .. n - 1 : Pending'[i].nr = Owed(0)[i + 1] /\ Owed(0)[i + 1] \in 1 .. MaxMessages
      <4>1. \A i \in 1 .. n - 1 : i + 1 \in 1 .. n
        BY <1>4
      <4>2. \A i \in 1 .. n : Owed(0)[i] \in 1 .. MaxMessages
        BY <1>2, <2>1, <2>4, ElementOfSeq
      <4> QED
        BY <1>4, <2>2, <4>1, <4>2
    <3>2. Owed(0)' \in [1 .. n - 1 -> 1 .. MaxMessages]
      BY <2>3, <3>1
    <3>3. n - 1 \in Nat
      BY <1>4
    <3> QED
      BY <2>3, <3>1, <3>2, <3>3, FunctionIsSeq
  <2>6. Owed(0)' = Tail(Owed(0))
    <3>1. /\ Tail(Owed(0)) \in Seq(1 .. MaxMessages) /\ Len(Tail(Owed(0))) = n - 1
          /\ \A i \in 1 .. n - 1 : Tail(Owed(0))[i] = Owed(0)[i + 1]
      BY <1>2, <2>1, <2>4
    <3> QED
      BY <2>5, <3>1, SameSeq
  <2>7. accepted' = delivered' \o Owed(0)'
    <3>1. Append(delivered, Head(Owed(0))) \o Tail(Owed(0)) = delivered \o Owed(0)
      BY <1>2, <1>5, <2>1, <2>4, ConcatShift
    <3> QED
      BY <1>1, <1>6, <1>m, <2>1, <2>4, <2>6, <3>1
  <2>8. OlderFirst(0)'
    BY <1>1, <1>2, <1>4, <2>1 DEF OlderFirst
  <2>9. 0 \in 0 .. Len(Pending')
    BY <1>2, <1>4
  <2> QED
    BY <2>7, <2>8, <2>9, FifoIs DEF FifoFrom
<1>7. CASE ~OfThisSession(m)
  <2>1. k > 0
    BY <1>1, <1>2, <1>4, <1>7 DEF OlderFirst, OfThisSession
  <2>2. Owed(k - 1)' = Owed(k)
    <3>1. /\ Len(Pending') - (k - 1) = n - k
          /\ \A i \in 1 .. n - k : (k - 1) + i \in 1 .. n - 1 /\ (k - 1) + i + 1 = k + i
      BY <1>2, <1>4, <2>1
    <3>2. Owed(k - 1)' = [i \in 1 .. Len(Pending') - (k - 1) |-> Pending'[(k - 1) + i].nr]
      BY DEF Owed
    <3>3. Owed(k - 1)' = [i \in 1 .. n - k |-> Pending'[(k - 1) + i].nr]
      BY <3>1, <3>2
    <3>4. Owed(k) = [i \in 1 .. n - k |-> Pending[k + i].nr]
      BY <1>n DEF Owed
    <3>5. \A i \in 1 .. n - k : Owed(k - 1)'[i] = Owed(k)[i] /\ Owed(k)[i] \in 1 .. MaxMessages
      <4>1. \A i \in 1 .. n - k : Owed(k)[i] \in 1 .. MaxMessages
        BY <1>2, ElementOfSeq
      <4>2. \A i \in 1 .. n - k : Pending'[(k - 1) + i] = Pending[k + i]
        BY <1>4, <3>1
      <4> QED
        BY <3>3, <3>4, <4>1, <4>2
    <3>6. Owed(k - 1)' \in Seq(1 .. MaxMessages) /\ Len(Owed(k - 1)') = n - k
      <4>1. Owed(k - 1)' \in [1 .. n - k -> 1 .. MaxMessages]
        BY <3>3, <3>5
      <4>2. n - k \in Nat
        BY <1>2
      <4> QED
        BY <4>1, <4>2, FunctionIsSeq
    <3> QED
      BY <1>2, <3>5, <3>6, SameSeq
  <2>3. accepted' = delivered' \o Owed(k - 1)'
    BY <1>1, <1>7, <1>m, <2>2
  <2>4. OlderFirst(k - 1)'
    <3>1. \A i \in 1 .. n : Pending[i].session = session <=> i > k
      BY <1>1, <1>2, <1>n DEF OlderFirst
    <3>2. \A i \in 1 .. n - 1 : i + 1 \in 1 .. n /\ (i + 1 > k <=> i > k - 1)
      BY <1>2
    <3>3. \A i \in 1 .. n - 1 : Pending'[i].session = session <=> i > k - 1
      BY <1>4, <3>1, <3>2
    <3> QED
      BY <1>4, <3>3 DEF OlderFirst
  <2>5. k - 1 \in 0 .. Len(Pending')
    BY <1>2, <1>4, <2>1
  <2> QED
    BY <2>3, <2>4, <2>5, FifoIs DEF FifoFrom
<1> QED
  BY <1>6, <1>7

-----------------------------------------------------------------------------
(* Handlers that take an action and no message on. *)
LEMMA FifoOfQuietTake ==
    ASSUME FifoInv, NEW type, Take(type),
           UNCHANGED <<messages, mBufferedMessages, accepted, delivered, session>>,
           Connected' => Connected, pc' # "flushing",
           mCurrentState' = "Active" => mCurrentState = "Active"
    PROVE  OrderInv' /\ CopiesOnlyInFlush' /\ SessionFifo'
<1>1. OrderInv'
  BY PendingTypes, OrderAfterTake DEF FifoInv, Pending
<1>2. SessionFifo'
  BY FifoStays DEF FifoInv
<1>3. CopiesOnlyInFlush'
  BY DEF FifoInv, CopiesOnlyInFlush, Take, OfThisSession
<1> QED
  BY <1>1, <1>2, <1>3

(* Steps that leave the queue alone, too. *)
LEMMA FifoOfQuietStep ==
    ASSUME FifoInv,
           UNCHANGED <<mQueue, messages, mBufferedMessages, accepted, delivered, session>>,
           Connected' => Connected, pc' # "flushing" => messages = <<>>,
           pc' = "flushing" => pc = "flushing",
           mCurrentState' = "Active" => mCurrentState = "Active"
    PROVE  OrderInv' /\ CopiesOnlyInFlush' /\ SessionFifo'
<1>1. OrderInv'
  BY DEF FifoInv, OrderInv, PendingSorted, QueueSorted, PendingBeforeQueue, IsArrival, Pending
<1>2. SessionFifo'
  BY FifoStays DEF FifoInv
<1>3. CopiesOnlyInFlush'
  BY DEF FifoInv, CopiesOnlyInFlush, OfThisSession
<1> QED
  BY <1>1, <1>2, <1>3

LEMMA FifoOfPush ==
    ASSUME FifoInv, NEW action, Push(action),
           action.type = "messageArrived" => action.message.session = session
    PROVE  OrderInv' /\ CopiesOnlyInFlush' /\ SessionFifo'
<1>1. OrderInv'
  BY OrderAfterPush DEF FifoInv
<1>2. /\ UNCHANGED <<messages, mBufferedMessages, accepted, delivered, session>>
      /\ UNCHANGED <<mCurrentState, pc>>
  BY DEF Push, thread
<1>3. SessionFifo'
  BY <1>2, FifoStays DEF FifoInv, Connected
<1>4. CopiesOnlyInFlush'
  BY <1>2 DEF FifoInv, CopiesOnlyInFlush, OfThisSession
<1> QED
  BY <1>1, <1>3, <1>4

LEMMA FifoOfConnect ==
    ASSUME FifoInv, NEW client, Take("CONNECT"), ConnectToBroker(client)
    PROVE  OrderInv' /\ CopiesOnlyInFlush' /\ SessionFifo'
<1>1. UNCHANGED <<pc, messages, mBufferedMessages>> /\ pc = "waiting"
  BY DEF ConnectToBroker, SameThread, Take
<1>2. ASSUME NEW link, RejectConnect(link)
      PROVE  OrderInv' /\ CopiesOnlyInFlush' /\ SessionFifo'
  BY <1>1, <1>2, FifoOfQuietTake DEF RejectConnect, Connected
<1>3. CASE AcceptConnect
  <2>1. session' = session + 1 /\ session \in Nat /\ UNCHANGED Pending
    BY <1>1, <1>3, PendingTypes DEF AcceptConnect, Pending, FifoInv
  <2>2. OrderInv'
    BY <2>1, OrderAfterTake DEF FifoInv
  <2>3. SessionFifo'
    BY <1>3, <2>1, FifoOfNewSession DEF FifoInv, AcceptConnect
  <2>4. messages = <<>>
    BY <1>1 DEF FifoInv, CopiesOnlyInFlush
  <2>5. \A i \in DOMAIN mBufferedMessages : mBufferedMessages[i].session # session'
    <3>1. Pending = mBufferedMessages
      <4>1. mBufferedMessages \in Seq(BrokerMessages)
        BY DEF FifoInv, TypeOK
      <4> QED
        BY <2>4, <4>1, ConcatEmpty DEF Pending
    <3> QED
      BY <2>1, <3>1, PendingTypes DEF FifoInv, OrderInv, PendingSorted
  <2>6. CopiesOnlyInFlush'
    BY <1>1, <2>4, <2>5 DEF CopiesOnlyInFlush, OfThisSession
  <2> QED
    BY <2>2, <2>3, <2>6
<1> QED
  BY <1>2, <1>3 DEF ConnectToBroker

LEMMA OrderAfterStore ==
    ASSUME TypeOK, OrderInv, NEW m \in BrokerMessages, Take("messageArrived"),
           1 \in DOMAIN mQueue, IsArrival(1), mQueue[1].message = m,
           Pending' = Append(Pending, m), UNCHANGED session
    PROVE  OrderInv'
<1>1. /\ mQueue \in Seq(Actions) /\ mQueue # <<>> /\ mQueue' = Tail(mQueue)
  BY DEF Take, TypeOK
<1>2. DOMAIN mQueue' = 1 .. Len(mQueue) - 1 /\ DOMAIN mQueue = 1 .. Len(mQueue)
  BY <1>1
<1>3. \A i \in DOMAIN mQueue' :
         /\ i + 1 \in DOMAIN mQueue /\ 1 < i + 1
         /\ mQueue'[i] = mQueue[i + 1] /\ (IsArrival(i)' => IsArrival(i + 1))
  BY <1>1, <1>2 DEF IsArrival
<1>4. PICK n \in Nat : n = Len(Pending) /\ DOMAIN Pending = 1 .. n
  BY PendingTypes
<1>5. /\ DOMAIN Pending' = 1 .. n + 1
      /\ \A i \in 1 .. n : Pending'[i] = Pending[i]
      /\ Pending'[n + 1] = m
  BY <1>4, PendingTypes
<1>6. \A i \in 1 .. n + 1 : i \in 1 .. n \/ i = n + 1
  OBVIOUS
<1>7. /\ m.session \in Nat /\ m.session <= session
      /\ \A i \in DOMAIN Pending : Pending[i].session <= m.session
      /\ \A j \in DOMAIN mQueue' : IsArrival(j)' => m.session <= mQueue'[j].message.session
  <2>1. m.session \in Nat
    BY DEF BrokerMessages
  <2> QED
    BY <1>3, <2>1 DEF OrderInv, QueueSorted, PendingBeforeQueue
<1> USE PendingTypes DEF OrderInv
<1>8. PendingSorted'
  <2>1. \A i \in 1 .. n + 1 : Pending'[i].session <= session
    BY <1>4, <1>5, <1>6, <1>7 DEF PendingSorted
  <2>2. ASSUME NEW i \in 1 .. n + 1, NEW j \in 1 .. n + 1, i < j
        PROVE  Pending'[i].session <= Pending'[j].session
    <3>1. i \in 1 .. n
      BY <2>2
    <3>2. CASE j = n + 1
      BY <1>4, <1>5, <1>7, <3>1, <3>2
    <3>3. CASE j \in 1 .. n
      BY <1>4, <1>5, <2>2, <3>1, <3>3 DEF PendingSorted
    <3> QED
      BY <1>6, <3>2, <3>3
  <2> QED
    BY <1>5, <2>1, <2>2 DEF PendingSorted
<1>9. QueueSorted'
  <2>1. ASSUME NEW i \in DOMAIN mQueue', IsArrival(i)' PROVE mQueue'[i].message.session <= session'
    BY <1>3, <2>1 DEF QueueSorted
  <2>2. ASSUME NEW i \in DOMAIN mQueue', NEW j \in DOMAIN mQueue', i < j, IsArrival(i)', IsArrival(j)'
        PROVE  mQueue'[i].message.session <= mQueue'[j].message.session
    <3>1. i + 1 < j + 1
      BY <1>2, <2>2
    <3> QED
      BY <1>3, <2>2, <3>1 DEF QueueSorted
  <2> QED
    BY <2>1, <2>2 DEF QueueSorted
<1>10. PendingBeforeQueue'
  <2>1. ASSUME NEW i \in DOMAIN Pending', NEW j \in DOMAIN mQueue', IsArrival(j)'
        PROVE  Pending'[i].session <= mQueue'[j].message.session
    <3>1. CASE i = n + 1
      BY <1>5, <1>7, <2>1, <3>1
    <3>2. CASE i \in 1 .. n
      BY <1>3, <1>4, <1>5, <2>1, <3>2 DEF PendingBeforeQueue
    <3> QED
      BY <1>5, <1>6, <3>1, <3>2
  <2> QED
    BY <2>1 DEF PendingBeforeQueue
<1> QED
  BY <1>8, <1>9, <1>10

LEMMA FifoOfArrival ==
    ASSUME FifoInv, HandleMessageArrived
    PROVE  OrderInv' /\ CopiesOnlyInFlush' /\ SessionFifo'
<1> DEFINE m == Message.message
<1>t. TypeOK
  BY DEF FifoInv
<1>1. /\ Take("messageArrived") /\ m \in BrokerMessages
      /\ UNCHANGED <<mCurrentState, session, pc, messages>> /\ pc = "waiting"
  BY <1>t, HeadTypes DEF HandleMessageArrived, Take, SameThread, SameLife
<1>2. messages = <<>> /\ Pending = mBufferedMessages
  <2>1. messages = <<>> /\ mBufferedMessages \in Seq(BrokerMessages)
    BY <1>1, <1>t DEF FifoInv, CopiesOnlyInFlush, TypeOK
  <2> QED
    BY <2>1, ConcatEmpty DEF Pending
<1>3. /\ 1 \in DOMAIN mQueue /\ IsArrival(1) /\ mQueue[1].message = m
  BY <1>1, <1>t DEF Take, TypeOK, IsArrival, Message
<1>4. /\ m.session <= session
      /\ \A i \in DOMAIN Pending : Pending[i].session <= m.session
  BY <1>3 DEF FifoInv, OrderInv, QueueSorted, PendingBeforeQueue
<1>5. CASE mCurrentState = "Active" /\ ForwardMessageToClient(m) /\ Accept(m) /\ UNCHANGED mBufferedMessages
  <2>1. OrderInv'
    BY <1>1, <1>5, <1>t, PendingTypes, OrderAfterTake DEF FifoInv, Pending
  <2>2. \A i \in DOMAIN Pending : ~OfThisSession(Pending[i])
    BY <1>2, <1>5 DEF FifoInv, CopiesOnlyInFlush
  <2>3. SessionFifo'
    BY <1>1, <1>5, <1>t, <2>2, FifoOfForward DEF FifoInv, ForwardMessageToClient, Accept, Connected
  <2>4. CopiesOnlyInFlush'
    BY <1>1, <1>5 DEF FifoInv, CopiesOnlyInFlush, OfThisSession
  <2> QED
    BY <2>1, <2>3, <2>4
<1>6. CASE mCurrentState = "Asleep" /\ StoreMessage(m) /\ Accept(m) /\ UNCHANGED delivered
  <2>1. SessionFifo'
    BY <1>1, <1>4, <1>6, <1>t, FifoOfStore DEF FifoInv, StoreMessage, Accept, Connected
  <2>2. CopiesOnlyInFlush'
    BY <1>1, <1>2, <1>6 DEF CopiesOnlyInFlush
  <2>3. Pending' = Append(Pending, m)
    <3>1. mBufferedMessages \in Seq(BrokerMessages)
      BY <1>t DEF TypeOK
    <3>2. Append(mBufferedMessages, m) \in Seq(BrokerMessages)
      BY <1>1, <3>1
    <3>3. messages' = <<>> /\ mBufferedMessages' = Append(mBufferedMessages, m)
      BY <1>1, <1>2, <1>6 DEF StoreMessage
    <3> QED
      BY <1>2, <3>2, <3>3, ConcatEmpty DEF Pending
  <2>4. OrderInv'
    BY <1>1, <1>3, <1>4, <1>t, <2>3, OrderAfterStore DEF FifoInv
  <2> QED
    BY <2>1, <2>2, <2>4
<1>7. CASE mCurrentState = "Disconnected" /\ SameTraffic
  BY <1>1, <1>7, FifoOfQuietTake DEF SameTraffic, Connected
<1> QED
  BY <1>5, <1>6, <1>7 DEF HandleMessageArrived

LEMMA FifoOfWaking ==
    ASSUME FifoInv, ConnectFromSleep \/ Awake
    PROVE  OrderInv' /\ CopiesOnlyInFlush' /\ SessionFifo'
<1>1. /\ pc = "waiting" /\ pc' = "flushing" /\ mCurrentState = "Asleep"
      /\ messages' = mBufferedMessages /\ mBufferedMessages' = <<>>
      /\ UNCHANGED <<accepted, delivered, session>>
      /\ Take("CONNECT") \/ Take("PINGREQ")
  BY DEF ConnectFromSleep, Awake, SendBufferedMessages, Take, SameLife
<1>2. UNCHANGED Pending
  <2>1. messages = <<>> /\ mBufferedMessages \in Seq(BrokerMessages)
    BY <1>1 DEF FifoInv, CopiesOnlyInFlush, TypeOK
  <2>2. Pending = mBufferedMessages
    BY <2>1, ConcatEmpty DEF Pending
  <2>3. Pending' = mBufferedMessages
    BY <1>1, <2>1, ConcatEmpty DEF Pending
  <2> QED
    BY <2>2, <2>3
<1>3. OrderInv'
  BY <1>1, <1>2, PendingTypes, OrderAfterTake DEF FifoInv
<1>4. SessionFifo'
  BY <1>1, <1>2 DEF FifoInv, SessionFifo, Connected, OfThisSession
<1>5. CopiesOnlyInFlush'
  BY <1>1 DEF CopiesOnlyInFlush
<1> QED
  BY <1>3, <1>4, <1>5

LEMMA FifoOfSendBuffered ==
    ASSUME FifoInv, LifeInv, SendBuffered
    PROVE  OrderInv' /\ CopiesOnlyInFlush' /\ SessionFifo'
<1> DEFINE m == Head(messages)
<1>t. TypeOK
  BY DEF FifoInv
<1>1. /\ pc = "flushing" /\ messages # <<>> /\ messages' = Tail(messages)
      /\ UNCHANGED <<mQueue, pc, mCurrentState, mBufferedMessages, accepted, session>>
      /\ delivered' = IF OfThisSession(m) THEN Append(delivered, m.nr) ELSE delivered
  BY DEF SendBuffered, SameLife, ForwardMessageToClient
<1>2. Pending' = Tail(Pending) /\ Pending # <<>> /\ Pending \in Seq(BrokerMessages)
  <2>1. messages \in Seq(BrokerMessages) /\ mBufferedMessages \in Seq(BrokerMessages)
    BY <1>t DEF TypeOK
  <2>2. Pending' = Tail(messages) \o mBufferedMessages
    BY <1>1 DEF Pending
  <2>3. /\ messages \o mBufferedMessages # <<>>
        /\ Tail(messages \o mBufferedMessages) = Tail(messages) \o mBufferedMessages
    BY <1>1, <2>1, ConcatTail
  <2> QED
    BY <2>1, <2>2, <2>3 DEF Pending
<1>3. OrderInv'
  <2>1. \A i \in DOMAIN Pending' : i + 1 \in DOMAIN Pending /\ Pending'[i] = Pending[i + 1]
    BY <1>2
  <2>2. \A i, j \in DOMAIN Pending' : i < j => i + 1 < j + 1
    BY <1>2
  <2>3. PendingSorted'
    BY <1>1, <2>1, <2>2 DEF FifoInv, OrderInv, PendingSorted
  <2>4. QueueSorted'
    BY <1>1 DEF FifoInv, OrderInv, QueueSorted, IsArrival
  <2>5. PendingBeforeQueue'
    BY <1>1, <2>1 DEF FifoInv, OrderInv, PendingBeforeQueue, IsArrival
  <2> QED
    BY <2>3, <2>4, <2>5 DEF OrderInv
<1>4. CopiesOnlyInFlush'
  BY <1>1 DEF FifoInv, CopiesOnlyInFlush, OfThisSession
<1>5. SessionFifo'
  <2>1. CASE Connected
    BY <1>1, <1>t, <2>1, FifoOfSend DEF FifoInv
  <2>2. CASE ~Connected
    BY <1>1, <2>2 DEF SessionFifo, Connected
  <2> QED
    BY <2>1, <2>2
<1> QED
  BY <1>3, <1>4, <1>5

LEMMA FifoStep ==
    ASSUME FifoInv, LifeInv, [Next]_vars
    PROVE  FifoInv'
<1>t. TypeOK'
  BY TypeStep DEF FifoInv
<1> SUFFICES OrderInv' /\ CopiesOnlyInFlush' /\ SessionFifo'
  BY <1>t DEF FifoInv
<1>1. ASSUME NEW message \in ClientMessages, Handle(message)
      PROVE  OrderInv' /\ CopiesOnlyInFlush' /\ SessionFifo'
  <2>1. message.type # "messageArrived" /\ Push(message)
    BY <1>1 DEF ClientMessages, Handle
  <2> QED
    BY <2>1, FifoOfPush
<1>2. ASSUME NEW topic \in Topics, MessageArrived(topic)
      PROVE  OrderInv' /\ CopiesOnlyInFlush' /\ SessionFifo'
  BY <1>2, FifoOfPush DEF MessageArrived
<1>3. CASE ConnectionLost
  <2>1. [type |-> "connectionLost"].type # "messageArrived" /\ Push([type |-> "connectionLost"])
    BY <1>3 DEF ConnectionLost
  <2> QED
    BY <2>1, FifoOfPush
<1>4. CASE Destroy
  <2>1. [type |-> "stop"].type # "messageArrived" /\ Push([type |-> "stop"])
    BY <1>4 DEF Destroy
  <2> QED
    BY <2>1, FifoOfPush
<1>5. CASE HandleConnect \/ ReconnectToBroker
  BY <1>5, FifoOfConnect DEF HandleConnect, ReconnectToBroker
<1>6. CASE ConnectFromSleep \/ Awake
  BY <1>6, FifoOfWaking
<1>7. CASE HandleMessageArrived
  BY <1>7, FifoOfArrival
<1>8. CASE SendBuffered
  BY <1>8, FifoOfSendBuffered
<1>9. CASE HandleConnectionLost \/ HandleDisconnect
  <2>1. /\ Take("connectionLost") \/ Take("DISCONNECT")
        /\ UNCHANGED <<messages, mBufferedMessages, accepted, delivered, session>>
        /\ mCurrentState' = "Disconnected" /\ pc' # "flushing"
    BY <1>9 DEF HandleConnectionLost, HandleDisconnect, Dispose, SameTraffic, SameThread, Take
  <2> QED
    BY <2>1, FifoOfQuietTake DEF Connected
<1>10. CASE HandleSleep
  <2>1. /\ Take("DISCONNECT") /\ mCurrentState = "Active"
        /\ UNCHANGED <<messages, mBufferedMessages, accepted, delivered, session>>
        /\ mCurrentState' = "Asleep" /\ pc' # "flushing"
    BY <1>10 DEF HandleSleep, SameTraffic, SameThread, Take
  <2> QED
    BY <2>1, FifoOfQuietTake DEF Connected
<1>11. CASE HandleRegister \/ HandleSubscribe \/ HandlePublish \/ HandleOther \/ HandlePingreq \/ Stop
  <2>1. /\ \E type : Take(type)
        /\ UNCHANGED <<messages, mBufferedMessages, accepted, delivered, session, mCurrentState>>
    BY <1>11 DEF HandleRegister, HandleSubscribe, HandlePublish, HandleOther, HandlePingreq, Stop,
                 SameTraffic, SameThread, SameLife
  <2>2. pc' # "flushing"
    BY <1>11 DEF HandleRegister, HandleSubscribe, HandlePublish, HandleOther, HandlePingreq, Stop,
                 SameThread, Take
  <2> QED
    BY <2>1, <2>2, FifoOfQuietTake DEF Connected
<1>12. CASE PublishComplete \/ Tick \/ AllSent
  <2>1. /\ UNCHANGED <<mQueue, messages, mBufferedMessages, accepted, delivered, session, mCurrentState>>
        /\ messages = <<>> /\ pc' = "waiting"
    BY <1>12 DEF PublishComplete, Tick, AllSent, SameTraffic, SameLife, FifoInv, CopiesOnlyInFlush
  <2> QED
    BY <2>1, FifoOfQuietStep DEF Connected
<1>13. CASE TimedOut
  <2>1. /\ UNCHANGED <<mQueue, messages, mBufferedMessages, accepted, delivered, session>>
        /\ messages = <<>> /\ pc' = "waiting" /\ mCurrentState' = "Disconnected"
    BY <1>13 DEF TimedOut, Dispose, SameTraffic, SameThread, FifoInv, CopiesOnlyInFlush
  <2> QED
    BY <2>1, FifoOfQuietStep DEF Connected
<1>14. CASE UNCHANGED vars
  <2>1. UNCHANGED <<mQueue, messages, mBufferedMessages, accepted, delivered, session, mCurrentState, pc>>
    BY <1>14 DEF vars, members, thread, history
  <2> QED
    BY <2>1, FifoOfQuietStep DEF Connected, FifoInv, CopiesOnlyInFlush
<1> QED
  BY <1>1, <1>2, <1>3, <1>4, <1>5, <1>6, <1>7, <1>8, <1>9, <1>10, <1>11, <1>12, <1>13, <1>14
  DEF Next, Environment, Workcycle

(* What the broker sends during a session reaches the client in its order, *)
(* each message once, or is still pending in this order: for any number of *)
(* messages, sleeps, wake-ups and earlier sessions.                        *)
THEOREM SessionIsAlwaysFifo == Spec => []SessionFifo
<1>1. ASSUME Init PROVE FifoInv
  <2>1. /\ mQueue = <<>> /\ messages = <<>> /\ mBufferedMessages = <<>>
        /\ mCurrentState = "Disconnected" /\ Pending = <<>>
    BY <1>1 DEF Init, Pending
  <2>2. OrderInv
    BY <2>1 DEF OrderInv, PendingSorted, QueueSorted, PendingBeforeQueue
  <2>3. CopiesOnlyInFlush /\ SessionFifo
    BY <1>1, <2>1 DEF CopiesOnlyInFlush, SessionFifo, Connected
  <2> QED
    BY <1>1, <2>2, <2>3, TypeInit DEF FifoInv
<1>2. FifoInv => SessionFifo
  BY DEF FifoInv
<1> QED
  BY <1>1, <1>2, LifeInit, LifeStep, FifoStep, PTL DEF Spec
=============================================================================
