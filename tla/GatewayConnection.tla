-------------------------- MODULE GatewayConnection --------------------------
(***************************************************************************)
(* Bt::Mqtt::GatewayConnection: what the gateway keeps for one MQTT-SN     *)
(* client, and the thread that serves it.                                  *)
(*                                                                         *)
(* Three kinds of threads meet in mQueue.  The gateway's receive loop      *)
(* pushes the client's messages (handle), the broker library pushes        *)
(* messages and the loss of its link (messageArrived, connectionLost), and *)
(* whoever destroys the connection pushes the action that ends it.  The    *)
(* connection's own thread (workcycle) takes them one by one.  The others  *)
(* only append to mQueue while a handler runs, so a handler is one step,   *)
(* but for the two places where it stays visibly in the middle: it blocks  *)
(* on the future of a publish, and it sends buffered messages one by one.  *)
(***************************************************************************)
EXTENDS Naturals, Sequences

CONSTANTS
    Topics,         \* topic names without wildcards
    Wildcards,      \* topic filters with a wildcard, in SUBSCRIBE only
    Reserved,       \* the text TopicStorage keeps at id 0
    NoName,         \* the empty string
    IdModulus,      \* 2^16, the number of topic ids
    Durations,      \* the durations in CONNECT and DISCONNECT, in seconds
    NoDuration,     \* a DISCONNECT without the optional duration
    MaxQueue,       \* bound: no more is pushed into a queue of this length
    MaxMessages,    \* bound: messages from the broker
    MaxSessions     \* bound: the broker accepts no more connects than this

ASSUME GatewayConnectionAssumption ==
    /\ IdModulus \in Nat \ {0}
    /\ Durations \subseteq Nat
    /\ NoDuration \notin Durations
    /\ Topics \cap Wildcards = {}
    /\ {MaxQueue, MaxMessages, MaxSessions} \subseteq Nat

VARIABLES
    \* members of GatewayConnection, by their names
    mRunning, mQueue, mCurrentState, mKeepAliveTimeout, mAsleepTimeout,
    mBufferedMessages,
    mBrokerClient,      \* the pointer and the link of the client it points to
    mIdToName, mNameToId,               \* the members of mTopicStorage
    \* the thread inside workcycle()
    pc,                 \* where it is
    messages, reply,    \* sendBufferedMessages: the copy it still has to send,
                        \* and what its caller sends after it
    elapsed,            \* seconds waited for the queue, up to the limit
    destroying,         \* ~GatewayConnection was entered
    disposed,           \* mDispose(id()) was called
    \* what an observer saw
    sent,               \* the messages the last step sent to the client
    announced,          \* the ids told to the client since the last flush
    session, arrived,   \* counters: accepted connects, messages of the broker
    accepted, delivered \* of this session: messages taken on and sent on

members == <<mRunning, mQueue, mCurrentState, mKeepAliveTimeout, mAsleepTimeout,
             mBufferedMessages, mBrokerClient>>
storage == <<mIdToName, mNameToId>>
thread == <<pc, messages, reply, elapsed>>
history == <<session, arrived, accepted, delivered>>
vars == <<members, storage, thread, destroying, disposed, sent, announced, history>>

TS == INSTANCE TopicStorage WITH Names <- Topics

-----------------------------------------------------------------------------
(* Messages.  Of a message from the broker only its topic reaches this     *)
(* code; nr and session say which one it is.                               *)

BrokerMessages == [topic : Topics, nr : 1 .. MaxMessages, session : 0 .. MaxSessions]

ClientMessages ==
    [type : {"CONNECT"}, cleanSession : BOOLEAN, duration : Durations]
        \cup [type : {"REGISTER"}, topicName : Topics]
        \cup [type : {"SUBSCRIBE"}, topicName : Topics \cup Wildcards]
        \cup [type : {"PUBLISH"}, topicId : TS!TopicIds]
        \cup [type : {"DISCONNECT"}, duration : Durations \cup {NoDuration}]
        \cup [type : {"PINGREQ"}, withClientId : BOOLEAN]
        \cup [type : {"OTHER"}]    \* REGACK, PINGRESP, CONNACK or SUBACK

Actions ==
    ClientMessages
        \cup [type : {"messageArrived"}, message : BrokerMessages]
        \cup [type : {"connectionLost", "stop"}]

Connack(code) == [type |-> "CONNACK", returnCode |-> code]
Register(id, topic) == [type |-> "REGISTER", topicId |-> id, topicName |-> topic]
Regack(id) == [type |-> "REGACK", topicId |-> id]
\* The constructor stores ACCEPTED whatever return code it is given.
Suback(id) == [type |-> "SUBACK", topicId |-> id, returnCode |-> "ACCEPTED"]
Publish(id, topic) == [type |-> "PUBLISH", topicId |-> id, topicName |-> topic]
DisconnectMessage == [type |-> "DISCONNECT"]
Pingresp == [type |-> "PINGRESP"]

\* The ids the client knows once it is told that id stands for topic.
Told(id, topic) ==
    [i \in DOMAIN announced \cup {id} |-> IF i = id THEN topic ELSE announced[i]]

NothingAnnounced == [i \in {} |-> NoName]

Connected == mCurrentState \in {"Active", "Asleep"}

-----------------------------------------------------------------------------
Init ==
    /\ mRunning = TRUE
    /\ mQueue = <<>>
    /\ mCurrentState = "Disconnected"
    /\ mKeepAliveTimeout = 0
    /\ mAsleepTimeout = 0
    /\ mBufferedMessages = <<>>
    /\ mBrokerClient = "none"
    /\ TS!Init
    /\ pc = "waiting" /\ messages = <<>> /\ reply = Pingresp /\ elapsed = 0
    /\ destroying = FALSE /\ disposed = FALSE
    /\ sent = <<>> /\ announced = NothingAnnounced
    /\ session = 0 /\ arrived = 0 /\ accepted = <<>> /\ delivered = <<>>

-----------------------------------------------------------------------------
(* The other threads: they push, and never wait for the connection.        *)

Push(action) ==
    /\ Len(mQueue) < MaxQueue
    /\ mQueue' = Append(mQueue, action)
    /\ sent' = <<>>
    /\ UNCHANGED <<mRunning, mCurrentState, mKeepAliveTimeout, mAsleepTimeout,
                   mBufferedMessages, storage, thread, disposed, announced,
                   accepted, delivered, session>>

Handle(message) ==
    /\ ~destroying
    /\ Push(message)
    /\ UNCHANGED <<mBrokerClient, destroying, arrived>>

MessageArrived(topic) ==
    /\ mBrokerClient = "connected"
    /\ arrived < MaxMessages
    /\ arrived' = arrived + 1
    /\ Push([type |-> "messageArrived",
             message |-> [topic |-> topic, nr |-> arrived + 1, session |-> session]])
    /\ UNCHANGED <<mBrokerClient, destroying>>

ConnectionLost ==
    /\ mBrokerClient = "connected"
    /\ mBrokerClient' = "down"
    /\ Push([type |-> "connectionLost"])
    /\ UNCHANGED <<destroying, arrived>>

\* ~GatewayConnection up to the join of the thread.
Destroy ==
    /\ ~destroying
    /\ destroying' = TRUE
    /\ Push([type |-> "stop"])
    /\ UNCHANGED <<mBrokerClient, arrived>>

-----------------------------------------------------------------------------
(* The thread.  It waits without limit when the state's timeout is 0, and  *)
(* else for mKeepAliveTimeout, also when the state's timeout is another.   *)

Timeout ==
    CASE mCurrentState = "Disconnected" -> 0
      [] mCurrentState = "Active" -> mKeepAliveTimeout
      [] mCurrentState = "Asleep" -> mAsleepTimeout

WaitLimit == mKeepAliveTimeout

Take(type) ==
    /\ pc = "waiting"
    /\ mQueue # <<>>
    /\ Head(mQueue).type = type
    /\ mQueue' = Tail(mQueue)
    /\ elapsed' = 0
    /\ UNCHANGED <<destroying, arrived>>

Message == Head(mQueue)

\* What a handler leaves alone unless it says otherwise.
SameThread == UNCHANGED <<mRunning, pc, messages, reply>>
SameTimeouts == UNCHANGED <<mKeepAliveTimeout, mAsleepTimeout>>
SameTopics == UNCHANGED <<storage, announced>>
SameTraffic == UNCHANGED <<mBufferedMessages, accepted, delivered>>
SameLife == UNCHANGED <<mCurrentState, mBrokerClient, disposed, session>>

-----------------------------------------------------------------------------
(* The end of a session.  disconnect() closes the broker's link before it  *)
(* disposes, and ignores whether that worked.  Neither mTopicStorage nor   *)
(* mBufferedMessages is cleared.                                           *)

\* Mutant: mDispose is not called.
DisposeSilently(farewell) ==
    /\ mCurrentState' = "Disconnected"
    /\ mBrokerClient' = "none"
    /\ sent' = farewell
    /\ SameTimeouts /\ SameTopics /\ SameTraffic /\ SameThread
    /\ UNCHANGED <<session, disposed>>

Dispose(farewell) ==
    /\ mCurrentState' = "Disconnected"
    /\ mBrokerClient' = "none"
    /\ disposed' = TRUE
    /\ sent' = farewell
    /\ SameTimeouts /\ SameTopics /\ SameTraffic /\ SameThread
    /\ UNCHANGED session

HandleConnectionLost ==
    /\ Take("connectionLost")
    /\ Dispose(<<DisconnectMessage>>)

\* Without a duration the client leaves; so does it in Asleep with one.
HandleDisconnect ==
    /\ Take("DISCONNECT")
    /\ mCurrentState = "Active" => Message.duration = NoDuration
    /\ Dispose(<<DisconnectMessage>>)

\* Mutant: withDuration is not looked at.
SleepWithoutDuration ==
    /\ Take("DISCONNECT")
    /\ mCurrentState = "Active"
    /\ mAsleepTimeout' = Message.duration
    /\ mCurrentState' = "Asleep"
    /\ sent' = <<DisconnectMessage>>
    /\ UNCHANGED <<mKeepAliveTimeout, mBrokerClient, disposed, session>>
    /\ SameTopics /\ SameTraffic /\ SameThread

HandleSleep ==
    /\ Take("DISCONNECT")
    /\ mCurrentState = "Active"
    /\ Message.duration # NoDuration
    /\ mAsleepTimeout' = Message.duration
    /\ mCurrentState' = "Asleep"
    /\ sent' = <<DisconnectMessage>>
    /\ UNCHANGED <<mKeepAliveTimeout, mBrokerClient, disposed, session>>
    /\ SameTopics /\ SameTraffic /\ SameThread

-----------------------------------------------------------------------------
(* CONNECT.  client is what mBrokerClient is when connectToBroker begins.  *)

\* Mutant: the state is not changed back.
RejectWithoutStateChange(client) ==
    /\ mBrokerClient' = client
    /\ disposed' = TRUE
    /\ sent' = <<Connack("REJECTED_NOT_SUPPORTED")>>
    /\ UNCHANGED <<mCurrentState, session, accepted, delivered>>

RejectConnect(client) ==
    /\ mCurrentState' = "Disconnected"
    /\ mBrokerClient' = client
    /\ disposed' = TRUE
    /\ sent' = <<Connack("REJECTED_NOT_SUPPORTED")>>
    /\ UNCHANGED <<session, accepted, delivered>>

AcceptConnect ==
    /\ session < MaxSessions
    /\ session' = session + 1
    /\ mCurrentState' = "Active"
    /\ mBrokerClient' = "connected"
    /\ sent' = <<Connack("ACCEPTED")>>
    /\ accepted' = <<>> /\ delivered' = <<>>
    /\ UNCHANGED disposed

ConnectToBroker(client) ==
    /\ \/ /\ ~Message.cleanSession
          /\ RejectConnect(client)
          /\ UNCHANGED mKeepAliveTimeout
       \/ /\ Message.cleanSession
          /\ mKeepAliveTimeout' = Message.duration + Message.duration \div 2
          /\ \/ RejectConnect(client)      \* createClient or connect throws
             \/ RejectConnect("down")      \* the new client does not connect
             \/ AcceptConnect
    /\ UNCHANGED <<mAsleepTimeout, mBufferedMessages>>
    /\ SameThread

HandleConnect ==
    /\ Take("CONNECT")
    /\ mCurrentState = "Disconnected"
    /\ ConnectToBroker(mBrokerClient)
    /\ SameTopics

\* Mutants: the old link stays open; the topics are not flushed.
ReconnectKeepingLink ==
    /\ Take("CONNECT")
    /\ \/ mCurrentState = "Active"
       \/ mCurrentState = "Asleep" /\ Message.cleanSession
    /\ TS!Clear
    /\ announced' = NothingAnnounced
    /\ ConnectToBroker(mBrokerClient)

ReconnectKeepingTopics ==
    /\ Take("CONNECT")
    /\ \/ mCurrentState = "Active"
       \/ mCurrentState = "Asleep" /\ Message.cleanSession
    /\ UNCHANGED storage
    /\ announced' = NothingAnnounced
    /\ ConnectToBroker("down")

\* The old link is closed, and its client stays until a new one replaces it.
ReconnectToBroker ==
    /\ Take("CONNECT")
    /\ \/ mCurrentState = "Active"
       \/ mCurrentState = "Asleep" /\ Message.cleanSession
    /\ TS!Clear
    /\ announced' = NothingAnnounced
    /\ ConnectToBroker("down")

-----------------------------------------------------------------------------
(* Topics and messages of the client.                                      *)

HandleRegister ==
    /\ Take("REGISTER")
    /\ \/ /\ Connected
          /\ TS!GetOrCreateTopicId(Message.topicName)
          /\ LET id == TS!GetOrCreated(Message.topicName) IN
                /\ sent' = <<Regack(id)>>
                /\ announced' = Told(id, Message.topicName)
       \/ /\ ~Connected
          /\ sent' = <<>>
          /\ SameTopics
    /\ SameTimeouts /\ SameTraffic /\ SameThread /\ SameLife

\* Whether the broker grants the subscription does not reach the client.
HandleSubscribe ==
    /\ Take("SUBSCRIBE")
    /\ \/ /\ Connected
          /\ Message.topicName \in Topics
          /\ TS!GetOrCreateTopicId(Message.topicName)
          /\ LET id == TS!GetOrCreated(Message.topicName) IN
                /\ sent' = <<Suback(id)>>
                /\ announced' = Told(id, Message.topicName)
       \/ /\ Connected
          /\ Message.topicName \in Wildcards
          /\ sent' = <<Suback(TS!NO_TOPIC_ID)>>
          /\ SameTopics
       \/ /\ ~Connected
          /\ sent' = <<>>
          /\ SameTopics
    /\ SameTimeouts /\ SameTraffic /\ SameThread /\ SameLife

\* publishToBroker hands the message over and waits for its future.
HandlePublish ==
    /\ Take("PUBLISH")
    /\ pc' = IF Connected /\ TS!GetTopicName(Message.topicId) # NoName
             THEN "publishing" ELSE pc
    /\ sent' = <<>>
    /\ UNCHANGED <<mRunning, messages, reply>>
    /\ SameTimeouts /\ SameTopics /\ SameTraffic /\ SameLife

\* The broker library completes the future; true or false makes no difference.
PublishComplete ==
    /\ pc = "publishing"
    /\ pc' = "waiting"
    /\ sent' = <<>>
    /\ UNCHANGED <<mRunning, mQueue, messages, reply, elapsed, destroying, arrived>>
    /\ SameTimeouts /\ SameTopics /\ SameTraffic /\ SameLife

\* REGACK and PINGRESP are received and CONNACK and SUBACK dropped: nothing to do.
HandleOther ==
    /\ Take("OTHER")
    /\ sent' = <<>>
    /\ SameTimeouts /\ SameTopics /\ SameTraffic /\ SameThread /\ SameLife

-----------------------------------------------------------------------------
(* Messages of the broker.                                                 *)

\* The messages of the current session, in their order, by number.
OfThisSession(m) == m.session = session

Accept(m) ==
    accepted' = IF OfThisSession(m) THEN Append(accepted, m.nr) ELSE accepted

\* Mutant: a new id is not announced.
ForwardWithoutRegister(m) ==
    /\ TS!GetOrCreateTopicId(m.topic)
    /\ sent' = <<Publish(TS!GetOrCreated(m.topic), m.topic)>>
    /\ delivered' = IF OfThisSession(m) THEN Append(delivered, m.nr) ELSE delivered
    /\ UNCHANGED announced

\* A topic without an id is given one and announced first.
ForwardMessageToClient(m) ==
    LET id == TS!GetOrCreated(m.topic)
    IN  /\ TS!GetOrCreateTopicId(m.topic)
        /\ \/ /\ TS!GetTopicId(m.topic) = TS!NO_TOPIC_ID
              /\ sent' = <<Register(id, m.topic), Publish(id, m.topic)>>
              /\ announced' = Told(id, m.topic)
           \/ /\ TS!GetTopicId(m.topic) # TS!NO_TOPIC_ID
              /\ sent' = <<Publish(id, m.topic)>>
              /\ UNCHANGED announced
        /\ delivered' = IF OfThisSession(m) THEN Append(delivered, m.nr) ELSE delivered

StoreMessage(m) ==
    /\ mBufferedMessages' = Append(mBufferedMessages, m)
    /\ sent' = <<>>
    /\ SameTopics

HandleMessageArrived ==
    /\ Take("messageArrived")
    /\ \/ /\ mCurrentState = "Active"
          /\ ForwardMessageToClient(Message.message)
          /\ Accept(Message.message)
          /\ UNCHANGED mBufferedMessages
       \/ /\ mCurrentState = "Asleep"
          /\ StoreMessage(Message.message)
          /\ Accept(Message.message)
          /\ UNCHANGED delivered
       \/ /\ mCurrentState = "Disconnected"
          /\ sent' = <<>>
          /\ SameTopics /\ SameTraffic
    /\ SameTimeouts /\ SameThread /\ SameLife

-----------------------------------------------------------------------------
(* Waking up: sendBufferedMessages copies and clears the buffer, sends the *)
(* copies one by one, and its caller answers when all are sent.            *)

\* Mutant: the buffer is not cleared.
SendBufferedAgain(answer) ==
    /\ messages' = mBufferedMessages
    /\ UNCHANGED mBufferedMessages
    /\ reply' = answer
    /\ pc' = "flushing"
    /\ sent' = <<>>

SendBufferedMessages(answer) ==
    /\ messages' = mBufferedMessages
    /\ mBufferedMessages' = <<>>
    /\ reply' = answer
    /\ pc' = "flushing"
    /\ sent' = <<>>

ConnectFromSleep ==
    /\ Take("CONNECT")
    /\ mCurrentState = "Asleep"
    /\ ~Message.cleanSession
    /\ mCurrentState' = "Active"
    /\ SendBufferedMessages(Connack("ACCEPTED"))
    /\ UNCHANGED <<mRunning, mBrokerClient, disposed, session, accepted, delivered>>
    /\ SameTimeouts /\ SameTopics

Awake ==
    /\ Take("PINGREQ")
    /\ mCurrentState = "Asleep"
    /\ Message.withClientId
    /\ SendBufferedMessages(Pingresp)
    /\ UNCHANGED <<mRunning, accepted, delivered>>
    /\ SameTimeouts /\ SameTopics /\ SameLife

HandlePingreq ==
    /\ Take("PINGREQ")
    /\ mCurrentState = "Asleep" => ~Message.withClientId
    /\ sent' = IF Connected THEN <<Pingresp>> ELSE <<>>
    /\ SameTimeouts /\ SameTopics /\ SameTraffic /\ SameThread /\ SameLife

SendBuffered ==
    /\ pc = "flushing"
    /\ messages # <<>>
    /\ ForwardMessageToClient(Head(messages))
    /\ messages' = Tail(messages)
    /\ UNCHANGED <<mRunning, mQueue, mBufferedMessages, pc, reply, elapsed,
                   destroying, arrived, accepted>>
    /\ SameTimeouts /\ SameLife

AllSent ==
    /\ pc = "flushing"
    /\ messages = <<>>
    /\ sent' = <<reply>>
    /\ pc' = "waiting"
    /\ UNCHANGED <<mRunning, mQueue, messages, reply, elapsed, destroying, arrived>>
    /\ SameTimeouts /\ SameTopics /\ SameTraffic /\ SameLife

-----------------------------------------------------------------------------
(* Time, and the end of the thread.                                        *)

\* A second passes while the thread is in a wait that can time out.
Tick ==
    /\ pc = "waiting"
    /\ mQueue = <<>>
    /\ Timeout # 0
    /\ elapsed < WaitLimit
    /\ elapsed' = elapsed + 1
    /\ sent' = <<>>
    /\ UNCHANGED <<mRunning, mQueue, pc, messages, reply, destroying, arrived>>
    /\ SameTimeouts /\ SameTopics /\ SameTraffic /\ SameLife

\* Mutant: workcycle() goes back to waiting.
TimeoutIgnored ==
    /\ pc = "waiting"
    /\ mQueue = <<>>
    /\ Timeout # 0
    /\ elapsed >= WaitLimit
    /\ elapsed' = 0
    /\ sent' = <<>>
    /\ UNCHANGED <<mQueue, destroying, arrived>>
    /\ SameTimeouts /\ SameTopics /\ SameTraffic /\ SameThread /\ SameLife

\* tryPop gave up: the client is dropped, and not told.
TimedOut ==
    /\ pc = "waiting"
    /\ mQueue = <<>>
    /\ Timeout # 0
    /\ elapsed >= WaitLimit
    /\ elapsed' = 0
    /\ Dispose(<<>>)
    /\ UNCHANGED <<mQueue, destroying, arrived>>

\* Mutant: mRunning is not cleared.
StopIgnored ==
    /\ Take("stop")
    /\ sent' = <<>>
    /\ SameTimeouts /\ SameTopics /\ SameTraffic /\ SameThread /\ SameLife

Stop ==
    /\ Take("stop")
    /\ mRunning' = FALSE
    /\ pc' = "ended"
    /\ sent' = <<>>
    /\ UNCHANGED <<messages, reply>>
    /\ SameTimeouts /\ SameTopics /\ SameTraffic /\ SameLife

-----------------------------------------------------------------------------
Environment ==
    \/ \E message \in ClientMessages : Handle(message)
    \/ \E topic \in Topics : MessageArrived(topic)
    \/ ConnectionLost
    \/ Destroy

\* What the thread does without waiting for anyone else.
Workcycle ==
    \/ HandleConnect \/ ReconnectToBroker \/ ConnectFromSleep
    \/ HandleRegister \/ HandleSubscribe \/ HandlePublish \/ HandleOther
    \/ HandleDisconnect \/ HandleSleep \/ HandlePingreq \/ Awake
    \/ HandleMessageArrived \/ HandleConnectionLost
    \/ SendBuffered \/ AllSent
    \/ TimedOut \/ Stop

Next == Environment \/ Workcycle \/ PublishComplete \/ Tick

Spec == Init /\ [][Next]_vars

\* The thread is scheduled and time passes.  Nothing makes the broker library
\* complete a publish: its future stays open when the link is lost.
FairSpec == Spec /\ WF_vars(Workcycle) /\ WF_vars(Tick)

-----------------------------------------------------------------------------
(* Properties. *)

ToClient ==
    {Connack(code) : code \in {"ACCEPTED", "REJECTED_NOT_SUPPORTED"}}
        \cup {Register(id, topic) : id \in TS!TopicIds, topic \in Topics}
        \cup {Publish(id, topic) : id \in TS!TopicIds, topic \in Topics}
        \cup {Regack(id) : id \in TS!TopicIds}
        \cup {Suback(id) : id \in TS!TopicIds}
        \cup {DisconnectMessage, Pingresp}

TypeOK ==
    /\ mRunning \in BOOLEAN
    /\ mQueue \in Seq(Actions)
    /\ mCurrentState \in {"Disconnected", "Active", "Asleep"}
    /\ mKeepAliveTimeout \in Nat
    /\ mAsleepTimeout \in Durations \cup {0}
    /\ mBufferedMessages \in Seq(BrokerMessages)
    /\ mBrokerClient \in {"none", "connected", "down"}
    /\ TS!TypeOK
    /\ pc \in {"waiting", "flushing", "publishing", "ended"}
    /\ messages \in Seq(BrokerMessages)
    /\ reply \in {Connack("ACCEPTED"), Pingresp}
    /\ elapsed \in Nat
    /\ destroying \in BOOLEAN /\ disposed \in BOOLEAN
    /\ sent \in Seq(ToClient)
    /\ DOMAIN announced \subseteq TS!TopicIds
    /\ announced \in [DOMAIN announced -> Topics]
    /\ session \in 0 .. MaxSessions
    /\ arrived \in 0 .. MaxMessages
    /\ accepted \in Seq(1 .. MaxMessages)
    /\ delivered \in Seq(1 .. MaxMessages)

(* Active and Asleep use mBrokerClient unchecked (publishToBroker,         *)
(* subscribe, reconnectToBroker), so it must be there; and a disconnected  *)
(* session leaves no open link at the broker behind.                       *)
BrokerLinkMatchesState ==
    /\ Connected => mBrokerClient # "none"
    /\ mCurrentState = "Disconnected" => mBrokerClient # "connected"

(* CONNACK tells the client the truth: after ACCEPTED it is served by a    *)
(* broker client, after a rejection it is not and the connection has asked *)
(* to be disposed of.  Covers the three ways into Active and the four      *)
(* rejections.                                                             *)
ConnackIsTruthful ==
    \A i \in DOMAIN sent : sent[i].type = "CONNACK" =>
        IF sent[i].returnCode = "ACCEPTED"
        THEN mCurrentState = "Active" /\ mBrokerClient # "none"
        ELSE mCurrentState = "Disconnected" /\ disposed

(* A connection whose session is over has asked the gateway to remove it:  *)
(* no way out of a session leaves a thread behind that nobody ends.        *)
EndedIsDisposed == mCurrentState = "Disconnected" /\ session > 0 => disposed

(* The ids the client was told since the last flush are the ids of         *)
(* mTopicStorage, all of them and for the same names, so both ends always  *)
(* mean the same topic by an id.  A CONNECT to a connection that is only   *)
(* to be removed flushes nothing: what was told before it counts as told.  *)
IdsAgreeWithClient ==
    TS!IdsFit => /\ DOMAIN announced = {mNameToId[t] : t \in DOMAIN mNameToId}
                 /\ \A t \in DOMAIN mNameToId : announced[mNameToId[t]] = t

(* Every PUBLISH to the client carries an id it was told before, for the   *)
(* topic the broker named, whether it is forwarded at once or from the     *)
(* buffer of a sleeping client.                                            *)
PublishIsResolvable ==
    TS!IdsFit =>
        \A i \in DOMAIN sent : sent[i].type = "PUBLISH" =>
            /\ sent[i].topicId \in DOMAIN announced
            /\ announced[sent[i].topicId] = sent[i].topicName

\* What the thread took on and has not sent, in the order it will send it.
Pending == messages \o mBufferedMessages

(* While a session lasts, the messages of the session that the connection  *)
(* took on are the ones it sent, then those it is about to send, then the  *)
(* buffered ones: none is lost, doubled or overtaken, through any number   *)
(* of sleeps and wake-ups.  What earlier sessions left in the buffer, the  *)
(* first k, leaves before them.                                            *)
SessionFifo ==
    Connected =>
        \E k \in 0 .. Len(Pending) :
            /\ \A i \in 1 .. Len(Pending) : OfThisSession(Pending[i]) <=> i > k
            /\ accepted = delivered \o [i \in 1 .. Len(Pending) - k |-> Pending[k + i].nr]

(* A client with a keep alive that falls silent is dropped, unless it      *)
(* sends again (or another action arrives).                                *)
SilentClientDropped ==
    pc = "waiting" /\ mQueue = <<>> /\ Timeout # 0
        ~> mCurrentState = "Disconnected" \/ mQueue # <<>>

(* ~GatewayConnection joins the thread: the thread ends, whatever is still *)
(* queued before the stop, unless it is stuck in a publish for ever.       *)
DestructorReturns == destroying ~> (pc = "ended" \/ [](pc = "publishing"))

(* workcycle() logs "wait for a message with a timeout of" the timeout of  *)
(* the state: a client is not dropped before that time has passed.         *)
WaitsAsLongAsLogged ==
    [][pc = "waiting" /\ mQueue = <<>> /\ ~disposed /\ disposed' => elapsed >= Timeout]_vars
=============================================================================
