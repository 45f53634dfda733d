------------------------------ MODULE MqttClient ------------------------------
(***************************************************************************)
(* Bt::Net::Mqtt::MqttClient: publishing through the broker library, with  *)
(* a future that the library's thread fulfils when the message has been    *)
(* delivered.                                                              *)
(*                                                                         *)
(* publish hands the message to the library, which answers with a delivery *)
(* token, and only then stores the promise under the token: the library    *)
(* may report the delivery in between (overtaken).  A std::map entry that  *)
(* is overwritten or erased destroys its promise, which breaks a future    *)
(* that is still pending.                                                  *)
(*                                                                         *)
(* The library is external: a token belongs to one message until the       *)
(* callback of its delivery has returned, and may then be given again;     *)
(* when the connection is lost nothing more is delivered; no callback runs *)
(* after MQTTClient_destroy.  A client is connected once, as               *)
(* GatewayConnection does.                                                 *)
(***************************************************************************)
EXTENDS Naturals

CONSTANTS
    Publishes,      \* the calls of publish, by any threads
    MQTTClient_deliveryToken,
    None            \* no token, no promise

ASSUME MqttClientAssumption == None \notin Publishes \cup MQTTClient_deliveryToken

VARIABLES
    connected,          \* the library's connection to the broker
    call,               \* where each call is
    qos, token,         \* of the message of each call
    delivered,          \* the messages the broker has acknowledged
    reports,            \* those whose delivery the library will report
    mTokens,            \* the call whose promise is stored for a token, or None
    future,             \* what each call's future holds
    overtaken,          \* deliveries that were reported to nobody
    destroyed

client == <<mTokens, future, overtaken>>
library == <<connected, delivered, reports>>
vars == <<connected, call, qos, token, delivered, reports, client, destroyed>>

\* The messages that the library has not done with.
InFlight == {p \in Publishes : token[p] # None /\ (p \notin delivered \/ p \in reports)}

Init ==
    /\ connected = FALSE
    /\ call = [p \in Publishes |-> "none"]
    /\ qos = [p \in Publishes |-> 0]
    /\ token = [p \in Publishes |-> None]
    /\ delivered = {} /\ reports = {}
    /\ mTokens = [t \in MQTTClient_deliveryToken |-> None]
    /\ future = [p \in Publishes |-> "none"]
    /\ overtaken = {}
    /\ destroyed = FALSE

-----------------------------------------------------------------------------
Connect ==
    /\ ~connected /\ ~destroyed
    /\ \A p \in Publishes : call[p] = "none"
    /\ connected' = TRUE
    /\ UNCHANGED <<call, qos, token, delivered, reports, client, destroyed>>

\* disconnect, or connectionLost: no promise is touched.
LoseConnection ==
    /\ connected
    /\ connected' = FALSE
    /\ UNCHANGED <<call, qos, token, delivered, reports, client, destroyed>>

\* A message with QoS q that the library refuses.
PublishRefused(p, q) ==
    /\ call[p] = "none" /\ ~destroyed
    /\ qos' = [qos EXCEPT ![p] = q]
    /\ call' = [call EXCEPT ![p] = "returned"]
    /\ future' = [future EXCEPT ![p] = "false"]
    /\ UNCHANGED <<library, token, mTokens, overtaken, destroyed>>

\* Mutant: only QoS 2 waits for the delivery.
PublishTrusting(p, q) ==
    /\ connected
    /\ call[p] = "none" /\ ~destroyed
    /\ qos' = [qos EXCEPT ![p] = q]
    /\ \E t \in MQTTClient_deliveryToken \ {token[r] : r \in InFlight} :
          token' = [token EXCEPT ![p] = t]
    /\ call' = [call EXCEPT ![p] = IF q > 1 THEN "accepted" ELSE "returned"]
    /\ future' = [future EXCEPT ![p] = IF q > 1 THEN "pending" ELSE "true"]
    /\ UNCHANGED <<library, mTokens, overtaken, destroyed>>

\* One it takes.  There is no delivery to wait for with QoS 0.
Publish(p, q) ==
    /\ connected
    /\ call[p] = "none" /\ ~destroyed
    /\ qos' = [qos EXCEPT ![p] = q]
    /\ \/ /\ q = 0
          /\ call' = [call EXCEPT ![p] = "returned"]
          /\ future' = [future EXCEPT ![p] = "true"]
          /\ UNCHANGED token
       \/ /\ q > 0
          /\ call' = [call EXCEPT ![p] = "accepted"]
          /\ future' = [future EXCEPT ![p] = "pending"]
          /\ \E t \in MQTTClient_deliveryToken \ {token[r] : r \in InFlight} :
                token' = [token EXCEPT ![p] = t]
    /\ UNCHANGED <<library, mTokens, overtaken, destroyed>>

\* A promise of f that is destroyed.
Break(f, p) == IF p # None /\ f[p] = "pending" THEN [f EXCEPT ![p] = "broken"] ELSE f

\* Under mMutex, after MQTTClient_publishMessage.
Store(p) ==
    /\ call[p] = "accepted"
    /\ call' = [call EXCEPT ![p] = "returned"]
    /\ mTokens' = [mTokens EXCEPT ![token[p]] = p]
    /\ future' = Break(future, mTokens[token[p]])
    /\ UNCHANGED <<library, qos, token, overtaken, destroyed>>

-----------------------------------------------------------------------------
(* The library's thread. *)

Acknowledge(p) ==
    /\ connected
    /\ p \in InFlight \ delivered
    /\ delivered' = delivered \cup {p}
    /\ reports' = reports \cup {p}
    /\ UNCHANGED <<connected, call, qos, token, client, destroyed>>

\* Mutants: the promise is erased but not fulfilled; a wrong entry is erased.
DeliveryCompleteEraseOnly(p) ==
    /\ p \in reports
    /\ reports' = reports \ {p}
    /\ \/ /\ mTokens[token[p]] = None
          /\ overtaken' = overtaken \cup {p}
          /\ UNCHANGED <<mTokens, future>>
       \/ /\ mTokens[token[p]] # None
          /\ future' = Break(future, mTokens[token[p]])
          /\ mTokens' = [mTokens EXCEPT ![token[p]] = None]
          /\ UNCHANGED overtaken
    /\ UNCHANGED <<connected, call, qos, token, delivered, destroyed>>

DeliveryCompleteEraseOther(p) ==
    /\ p \in reports
    /\ reports' = reports \ {p}
    /\ \/ /\ mTokens[token[p]] = None
          /\ overtaken' = overtaken \cup {p}
          /\ UNCHANGED <<mTokens, future>>
       \/ /\ mTokens[token[p]] # None
          /\ \E t \in MQTTClient_deliveryToken :
                /\ mTokens' = [mTokens EXCEPT ![t] = None]
                /\ future' = Break([future EXCEPT ![mTokens[token[p]]] = "true"], mTokens[t])
          /\ UNCHANGED overtaken
    /\ UNCHANGED <<connected, call, qos, token, delivered, destroyed>>

\* Under mMutex: a token that is not found is logged.
DeliveryComplete(p) ==
    /\ p \in reports
    /\ reports' = reports \ {p}
    /\ \/ /\ mTokens[token[p]] = None
          /\ overtaken' = overtaken \cup {p}
          /\ UNCHANGED <<mTokens, future>>
       \/ /\ mTokens[token[p]] # None
          /\ future' = [future EXCEPT ![mTokens[token[p]]] = "true"]
          /\ mTokens' = [mTokens EXCEPT ![token[p]] = None]
          /\ UNCHANGED overtaken
    /\ UNCHANGED <<connected, call, qos, token, delivered, destroyed>>

-----------------------------------------------------------------------------
\* ~MqttClient, with no call in progress; mTokens goes with its promises.
Destroy ==
    /\ ~destroyed
    /\ \A p \in Publishes : call[p] # "accepted"
    /\ destroyed' = TRUE /\ connected' = FALSE /\ reports' = {}
    /\ future' = [p \in Publishes |->
                    IF \E t \in MQTTClient_deliveryToken : mTokens[t] = p
                    THEN Break(future, p)[p] ELSE future[p]]
    /\ mTokens' = [t \in MQTTClient_deliveryToken |-> None]
    /\ UNCHANGED <<call, qos, token, delivered, overtaken>>

-----------------------------------------------------------------------------
Next ==
    \/ Connect \/ LoseConnection \/ Destroy
    \/ \E p \in Publishes :
          \/ \E q \in 0 .. 2 : Publish(p, q) \/ PublishRefused(p, q)
          \/ Store(p) \/ Acknowledge(p) \/ DeliveryComplete(p)

Spec == Init /\ [][Next]_vars

\* A call goes on and the library reports; no acknowledgement need come.
FairSpec ==
    /\ Spec
    /\ \A p \in Publishes : WF_vars(Store(p)) /\ WF_vars(DeliveryComplete(p))

-----------------------------------------------------------------------------
(* Properties. *)

TypeOK ==
    /\ connected \in BOOLEAN /\ destroyed \in BOOLEAN
    /\ call \in [Publishes -> {"none", "accepted", "returned"}]
    /\ qos \in [Publishes -> 0 .. 2]
    /\ token \in [Publishes -> MQTTClient_deliveryToken \cup {None}]
    /\ delivered \subseteq Publishes /\ reports \subseteq delivered
    /\ mTokens \in [MQTTClient_deliveryToken -> Publishes \cup {None}]
    /\ future \in [Publishes -> {"none", "pending", "true", "false", "broken"}]
    /\ overtaken \subseteq delivered

\* The delivery of a message with p's token was reported before its promise
\* had been stored.
TokenWasOvertaken(p) == \E r \in overtaken : token[r] = token[p]

(* A future that says true belongs to a message that was delivered, if it  *)
(* waits for that (QoS above 0), whatever promises tokens of old messages  *)
(* have left behind in the map.                                            *)
TrueMeansDelivered ==
    \A p \in Publishes : future[p] = "true" /\ qos[p] > 0 => p \in delivered

(* While the client exists a future is broken (its get() throws in the     *)
(* caller's thread) only if a delivery was reported too early for this     *)
(* token: such a report leaves a promise in the map that nobody fulfils    *)
(* and that the next message with the token overwrites.                    *)
BrokenOnlyIfOvertaken ==
    \A p \in Publishes : future[p] = "broken" => destroyed \/ TokenWasOvertaken(p)

(* A delivered message's future becomes true, so that the wait for it      *)
(* ends, unless the report came before the promise was stored or the       *)
(* client is destroyed.                                                    *)
DeliveredIsAnswered ==
    \A p \in Publishes :
        p \in delivered ~> future[p] = "true" \/ TokenWasOvertaken(p) \/ destroyed
=============================================================================
