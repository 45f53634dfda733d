------------------------- MODULE TopicStorageProofs -------------------------
(***************************************************************************)
(* Proofs about TopicStorage, for every set of names and every width of    *)
(* the id.                                                                 *)
(***************************************************************************)
EXTENDS TopicStorage, TLAPS

(* Narrowing to the id type yields an id, and is the identity on the       *)
(* numbers that fit.                                                       *)
LEMMA Narrowing ==
    ASSUME NEW n \in Nat
    PROVE  /\ n % IdModulus \in TopicIds
           /\ n < IdModulus => n % IdModulus = n
  BY IdModulusAssumption DEF TopicIds

(***************************************************************************)
(* TypeOK is inductive as it stands.                                       *)
(***************************************************************************)
LEMMA TypeInit == Init => TypeOK
  BY DEF Init, TypeOK

LEMMA TypeStep == TypeOK /\ [Next]_vars => TypeOK'
<1> SUFFICES ASSUME TypeOK, [Next]_vars PROVE TypeOK'
  OBVIOUS
<1>1. ASSUME NEW name \in Names, GetOrCreateTopicId(name)
      PROVE  TypeOK'
  <2>1. CASE name \in DOMAIN mNameToId
    BY <1>1, <2>1 DEF GetOrCreateTopicId, TypeOK, vars
  <2>2. CASE name \notin DOMAIN mNameToId
    <3>1. NextId \in TopicIds
      BY Narrowing DEF NextId, TypeOK
    <3>2. /\ mIdToName' = Append(mIdToName, name)
          /\ mNameToId' = [n \in DOMAIN mNameToId \cup {name} |->
                              IF n = name THEN NextId ELSE mNameToId[n]]
      BY <1>1, <2>2 DEF GetOrCreateTopicId
    <3>3. mIdToName' \in Seq(Names \cup {Reserved}) /\ mIdToName' # <<>>
      BY <3>2 DEF TypeOK
    <3>4. DOMAIN mNameToId' \subseteq Names /\ mNameToId' \in [DOMAIN mNameToId' -> TopicIds]
      BY <3>1, <3>2 DEF TypeOK
    <3> QED
      BY <3>3, <3>4 DEF TypeOK
  <2> QED
    BY <2>1, <2>2
<1>2. CASE Clear
  <2>1. mIdToName' \in Seq(Names \cup {Reserved}) /\ mIdToName' # <<>>
    BY <1>2 DEF Clear, TypeOK
  <2> QED
    BY <1>2, <2>1 DEF Clear, TypeOK
<1>3. CASE UNCHANGED vars
  BY <1>3 DEF vars, TypeOK
<1> QED
  BY <1>1, <1>2, <1>3 DEF Next

(* The vector starts with the reserved entry and grows by names only, and  *)
(* the map sends known names to 16 bit ids.                                *)
THEOREM TypeCorrect == Spec => []TypeOK
  BY TypeInit, TypeStep, PTL DEF Spec

-----------------------------------------------------------------------------
(***************************************************************************)
(* TablesAgree speaks of the tables only while the ids fit.  What every    *)
(* step preserves, beyond the limit too, is that the map holds the names   *)
(* of the vector, each with its narrowed position.                         *)
(***************************************************************************)
EntriesMapped ==
    \A i \in 2 .. Len(mIdToName) :
        /\ mIdToName[i] \in DOMAIN mNameToId
        /\ mNameToId[mIdToName[i]] = (i - 1) % IdModulus

NamesStored ==
    \A name \in DOMAIN mNameToId : \E i \in 2 .. Len(mIdToName) : mIdToName[i] = name

IndInv == TypeOK /\ EntriesMapped /\ NamesStored

LEMMA IndInit == Init => IndInv
  BY TypeInit DEF Init, IndInv, EntriesMapped, NamesStored

LEMMA IndStep == IndInv /\ [Next]_vars => IndInv'
<1> SUFFICES ASSUME IndInv, [Next]_vars PROVE IndInv'
  OBVIOUS
<1>t. TypeOK /\ TypeOK'
  BY TypeStep DEF IndInv
<1>1. ASSUME NEW name \in Names, GetOrCreateTopicId(name), name \notin DOMAIN mNameToId
      PROVE  (EntriesMapped /\ NamesStored)'
  <2>1. /\ mIdToName' = Append(mIdToName, name)
        /\ mNameToId' = [n \in DOMAIN mNameToId \cup {name} |->
                            IF n = name THEN NextId ELSE mNameToId[n]]
    BY <1>1 DEF GetOrCreateTopicId
  <2>2. /\ Len(mIdToName') = Len(mIdToName) + 1
        /\ mIdToName'[Len(mIdToName) + 1] = name
        /\ \A i \in 1 .. Len(mIdToName) : mIdToName'[i] = mIdToName[i]
        /\ Len(mIdToName) \in Nat \ {0}
    BY <2>1, <1>t DEF TypeOK
  <2>3. ASSUME NEW i \in 2 .. Len(mIdToName')
        PROVE  /\ mIdToName'[i] \in DOMAIN mNameToId'
               /\ mNameToId'[mIdToName'[i]] = (i - 1) % IdModulus
    <3>1. CASE i = Len(mIdToName) + 1
      BY <2>1, <2>2, <3>1 DEF NextId
    <3>2. CASE i \in 2 .. Len(mIdToName)
      <4>1. /\ mIdToName[i] \in DOMAIN mNameToId
            /\ mNameToId[mIdToName[i]] = (i - 1) % IdModulus
        BY <3>2 DEF IndInv, EntriesMapped
      <4>2. mIdToName'[i] = mIdToName[i] /\ mIdToName[i] # name
        BY <4>1, <1>1, <2>2, <3>2
      <4> QED
        BY <4>1, <4>2, <2>1
    <3> QED
      BY <3>1, <3>2, <2>2
  <2>4. ASSUME NEW n \in DOMAIN mNameToId'
        PROVE  \E i \in 2 .. Len(mIdToName') : mIdToName'[i] = n
    <3>1. CASE n = name
      BY <3>1, <2>2
    <3>2. CASE n \in DOMAIN mNameToId
      <4>1. PICK i \in 2 .. Len(mIdToName) : mIdToName[i] = n
        BY <3>2 DEF IndInv, NamesStored
      <4> QED
        BY <4>1, <2>2
    <3> QED
      BY <3>1, <3>2, <2>1
  <2> QED
    BY <2>3, <2>4 DEF EntriesMapped, NamesStored
<1>2. CASE Clear
  <2>1. Len(mIdToName') = 1 /\ DOMAIN mNameToId' = {}
    BY <1>2, <1>t DEF Clear, TypeOK
  <2> QED
    BY <2>1, <1>t DEF IndInv, EntriesMapped, NamesStored
<1>3. CASE UNCHANGED vars
  BY <1>3, <1>t DEF vars, IndInv, EntriesMapped, NamesStored
<1>4. ASSUME NEW name \in Names, GetOrCreateTopicId(name), name \in DOMAIN mNameToId
      PROVE  UNCHANGED vars
  BY <1>4 DEF GetOrCreateTopicId
<1> QED
  BY <1>1, <1>2, <1>3, <1>4, <1>t DEF Next, IndInv

LEMMA IndImpliesTablesAgree == IndInv => TablesAgree
<1> SUFFICES ASSUME IndInv, IdsFit PROVE TablesAgree
  BY DEF TablesAgree
<1>1. Len(mIdToName) \in Nat \ {0} /\ Len(mIdToName) <= IdModulus
  BY DEF IndInv, TypeOK, IdsFit
<1>2. ASSUME NEW i \in 2 .. Len(mIdToName)
      PROVE  /\ mIdToName[i] \in DOMAIN mNameToId
             /\ mNameToId[mIdToName[i]] = i - 1
  <2>1. (i - 1) % IdModulus = i - 1
    BY <1>1, Narrowing, IdModulusAssumption
  <2> QED
    BY <2>1 DEF IndInv, EntriesMapped
<1>3. ASSUME NEW name \in DOMAIN mNameToId
      PROVE  /\ mNameToId[name] # NO_TOPIC_ID
             /\ GetTopicName(mNameToId[name]) = name
  <2>1. PICK i \in 2 .. Len(mIdToName) : mIdToName[i] = name
    BY DEF IndInv, NamesStored
  <2>2. mNameToId[name] = i - 1
    BY <1>2, <2>1
  <2> QED
    BY <1>1, <2>1, <2>2 DEF GetTopicName, NO_TOPIC_ID
<1>4. ASSUME NEW id \in 1 .. Len(mIdToName) - 1
      PROVE  GetTopicId(GetTopicName(id)) = id
  <2>1. GetTopicName(id) = mIdToName[id + 1] /\ id + 1 \in 2 .. Len(mIdToName)
    BY <1>1 DEF GetTopicName
  <2> QED
    BY <2>1, <1>1, <1>2 DEF GetTopicId
<1> QED
  BY <1>3, <1>4 DEF TablesAgree

(* Below the limit of 16 bits the name an id stands for and the id of a    *)
(* name are inverse to each other.                                         *)
THEOREM TablesAlwaysAgree == Spec => []TablesAgree
  BY IndInit, IndStep, IndImpliesTablesAgree, PTL DEF Spec

(* No call but clear() takes an id away from a name or changes it, beyond  *)
(* the limit too.                                                          *)
THEOREM IdsStayStable == Spec => IdsAreStable
<1>1. ASSUME TypeOK, Next
      PROVE  \/ mNameToId' = [name \in {} |-> NO_TOPIC_ID]
             \/ \A name \in DOMAIN mNameToId :
                   /\ name \in DOMAIN mNameToId'
                   /\ mNameToId'[name] = mNameToId[name]
  BY <1>1 DEF Next, GetOrCreateTopicId, Clear, vars
<1>2. QED
  BY <1>1, TypeCorrect, PTL DEF Spec, IdsAreStable
=============================================================================
