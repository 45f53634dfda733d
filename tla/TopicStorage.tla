---------------------------- MODULE TopicStorage ----------------------------
(***************************************************************************)
(* Bt::Mqtt::TopicStorage: the table that gives every topic name of one    *)
(* gateway connection a 16 bit MQTT-SN topic id.  The class guards each    *)
(* method with mMutex, so a method is one step.                            *)
(***************************************************************************)
EXTENDS Naturals, Sequences

CONSTANTS
    Names,          \* the topic names that are looked up
    Reserved,       \* the text stored at id 0
    NoName,         \* the empty string getTopicName answers for an unknown id
    IdModulus       \* 2^16: an id is a uint16_t

ASSUME IdModulusAssumption == IdModulus \in Nat \ {0}

VARIABLES
    mIdToName,      \* std::vector<std::string>: id i is at position i + 1
    mNameToId       \* std::map<std::string, uint16_t>

vars == <<mIdToName, mNameToId>>

NO_TOPIC_ID == 0
TopicIds == 0 .. IdModulus - 1

-----------------------------------------------------------------------------
(* The two lookups. *)

GetTopicId(name) ==
    IF name \in DOMAIN mNameToId THEN mNameToId[name] ELSE NO_TOPIC_ID

GetTopicName(id) ==
    IF id < Len(mIdToName) THEN mIdToName[id + 1] ELSE NoName

\* What the size of the vector becomes when it is narrowed to uint16_t.
NextId == Len(mIdToName) % IdModulus

(* What getOrCreateTopicId returns: of the state before the call. *)
GetOrCreated(name) ==
    IF name \in DOMAIN mNameToId THEN mNameToId[name] ELSE NextId

-----------------------------------------------------------------------------
(* The methods that change the table. *)

Init ==
    /\ mIdToName = <<Reserved>>
    /\ mNameToId = [name \in {} |-> NO_TOPIC_ID]

\* Mutant: a call that does not look the name up first.
GetOrCreateWithoutLookup(name) ==
    /\ mIdToName' = Append(mIdToName, name)
    /\ mNameToId' = [n \in DOMAIN mNameToId \cup {name} |->
                        IF n = name THEN NextId ELSE mNameToId[n]]

GetOrCreateTopicId(name) ==
    IF name \in DOMAIN mNameToId
    THEN UNCHANGED vars
    ELSE /\ mIdToName' = Append(mIdToName, name)
         /\ mNameToId' = [n \in DOMAIN mNameToId \cup {name} |->
                             IF n = name THEN NextId ELSE mNameToId[n]]

\* Mutant: clear() empties the vector only.
ClearVectorOnly ==
    /\ mIdToName' = SubSeq(mIdToName, 1, 1)
    /\ UNCHANGED mNameToId

\* Mutant: clear() drops the reserved entry too.
ClearToNothing ==
    /\ mIdToName' = <<>>
    /\ mNameToId' = [name \in {} |-> NO_TOPIC_ID]

Clear ==
    /\ mIdToName' = SubSeq(mIdToName, 1, 1)
    /\ mNameToId' = [name \in {} |-> NO_TOPIC_ID]

Next ==
    \/ \E name \in Names : GetOrCreateTopicId(name)
    \/ Clear

Spec == Init /\ [][Next]_vars

-----------------------------------------------------------------------------
(* Properties. *)

TypeOK ==
    /\ mIdToName \in Seq(Names \cup {Reserved})
    /\ mIdToName # <<>>
    /\ DOMAIN mNameToId \subseteq Names
    /\ mNameToId \in [DOMAIN mNameToId -> TopicIds]

\* As long as the ids fit in 16 bits.
IdsFit == Len(mIdToName) <= IdModulus

(* The vector and the map are inverse to each other: the gateway resolves  *)
(* the id it announced for a name back to that name, two names never share *)
(* an id, and no name has the reserved id.  getOrCreateTopicId updates     *)
(* both tables and clear empties both; 65535 names fit.                    *)
TablesAgree ==
    IdsFit =>
        /\ \A name \in DOMAIN mNameToId :
              /\ mNameToId[name] # NO_TOPIC_ID
              /\ GetTopicName(mNameToId[name]) = name
        /\ \A id \in 1 .. Len(mIdToName) - 1 : GetTopicId(GetTopicName(id)) = id

(* An id that was given stays with its name until clear() forgets them     *)
(* all: nothing re-registers a name under another id.                      *)
IdsAreStable ==
    [][ \/ mNameToId' = [name \in {} |-> NO_TOPIC_ID]
        \/ \A name \in DOMAIN mNameToId :
              /\ name \in DOMAIN mNameToId'
              /\ mNameToId'[name] = mNameToId[name] ]_vars

(* The constructor stores "0x0000 == RESERVED" at id 0: no name should be  *)
(* given that id, however many names there are.                            *)
ReservedIdIsNotGiven == \A name \in DOMAIN mNameToId : mNameToId[name] # NO_TOPIC_ID
=============================================================================
