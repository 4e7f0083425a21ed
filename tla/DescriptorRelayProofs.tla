----------------------- MODULE DescriptorRelayProofs -----------------------
(***************************************************************************)
(* What holds of DescriptorRelay for every configuration, every bound on   *)
(* the registrations and every content of fresh memory.                    *)
(***************************************************************************)
EXTENDS DescriptorRelay, ListLemmas

(* The metadata topic of an eCAL topic is one of the configured names.     *)
LEMMA MqttNameIsName ==
  ASSUME NEW e \in EcalTopic, NEW k \in Kind, Found(e, k)
  PROVE  MqttName(e, k) \in MetadataName
<1>1. Named(e, k) \in SUBSET (1 .. Len(ecal2mqtt_topics)) /\ Named(e, k) # {}
  BY RelayAssumption DEF Found, Named, Entry
<1>2. \E i \in Named(e, k) : \A j \in Named(e, k) : j <= i
  <2>1. Len(ecal2mqtt_topics) \in Nat
    BY RelayAssumption
  <2> QED
    BY <1>1, <2>1, LastExists
<1>3. PICK i \in Named(e, k) : MqttName(e, k) = ecal2mqtt_topics[i][k]
  BY <1>2 DEF MqttName
<1> QED
  BY <1>3 DEF Named, MetadataName

(* Storing a version in a map keeps both maps' type.                       *)
LEMMA StoreVersion ==
  ASSUME NEW maps \in [Kind -> [MetadataName -> Version]],
         NEW k \in Kind, NEW n \in MetadataName, NEW v \in Version
  PROVE  [maps EXCEPT ![k][n] = v] \in [Kind -> [MetadataName -> Version]]
OBVIOUS
-----------------------------------------------------------------------------
LEMMA TypeInit == Init => TypeOK
<1> SUFFICES ASSUME Init
             PROVE  TypeOK
  OBVIOUS
<1>1. 0 \in Version
  BY RelayAssumption DEF Version
<1>2. mqtt_desc_thread_active \in BOOLEAN /\ is_initialized \in BOOLEAN
      /\ is_connected_to_mqtt_broker \in BOOLEAN
  BY RelayAssumption DEF Init
<1>3. sample \in [topic : EcalTopic, version : Version]
  BY <1>1 DEF Init
<1> QED
  BY <1>1, <1>2, <1>3 DEF Init, TypeOK, Kind, flags

LEMMA TypeStep == TypeOK /\ [Next]_vars => TypeOK'
<1> SUFFICES ASSUME TypeOK, [Next]_vars
             PROVE  TypeOK'
  OBVIOUS
<1> USE DEF TypeOK, mainVars, ecalVars, regVars, descVars, dataVars, flags
<1>1. CASE MainStep \/ DestroyBegins
  <2>1. CASE ConstructActive
    BY <2>1 DEF ConstructActive
  <2>2. CASE ConstructInitialized
    BY <2>2 DEF ConstructInitialized
  <2>3. CASE ConstructConnected
    BY <2>3 DEF ConstructConnected
  <2>4. CASE initEcal
    <3>1. callback' \in BOOLEAN
      BY <2>4, Zenon DEF initEcal, CallbackNeeded
    <3> QED
      BY <2>4, <3>1 DEF initEcal
  <2>5. CASE initMqtt
    <3>1. loop_running' \in BOOLEAN /\ mainPc' \in {"initialize", "run"}
      BY <2>5, Zenon DEF initMqtt
    <3> QED
      BY <2>5, <3>1 DEF initMqtt
  <2>6. CASE initialize
    BY <2>6 DEF initialize
  <2>7. CASE DestroyBegins
    BY <2>7 DEF DestroyBegins
  <2>8. CASE DestroyInitialized
    BY <2>8 DEF DestroyInitialized
  <2>9. CASE DestroyJoin
    BY <2>9 DEF DestroyJoin
  <2>10. CASE DestroyDisconnect
    BY <2>10 DEF DestroyDisconnect
  <2>11. CASE DestroyLoopStop
    BY <2>11 DEF DestroyLoopStop
  <2>12. CASE DestroyFinalize
    <3>1. callback' \in BOOLEAN
      BY <2>12, Zenon DEF DestroyFinalize
    <3> QED
      BY <2>12, <3>1 DEF DestroyFinalize
  <2>13. CASE DestroyReturns
    BY <2>13 DEF DestroyReturns
  <2> QED
    BY <1>1, <2>1, <2>2, <2>3, <2>4, <2>5, <2>6, <2>7,
       <2>8, <2>9, <2>10, <2>11, <2>12, <2>13 DEF MainStep
<1>2. CASE FlagChanges
  BY <1>2 DEF FlagChanges
<1>3. ASSUME NEW e \in EcalTopic, Announce(e)
      PROVE  TypeOK'
  <2>1. announced[e] + 1 \in Version
    BY <1>3, RelayAssumption DEF Announce, Version
  <2> QED
    BY <1>3, <2>1 DEF Announce
<1>4. ASSUME NEW e \in EcalTopic, Registration(e)
      PROVE  TypeOK'
  BY <1>4 DEF Registration, Kind
<1>5. CASE RegistrationLock
  BY <1>5 DEF RegistrationLock
<1>6. CASE RegistrationWrite
  <2>1. mqtt_topics' \in [Kind -> [MetadataName -> Version]]
    BY <1>6 DEF RegistrationWrite
  <2> QED
    BY <1>6, <2>1 DEF RegistrationWrite, Kind
<1>7. CASE DescLock
  BY <1>7 DEF DescLock
<1>8. ASSUME NEW n \in MetadataName, PublishDelivered(n) \/ PublishLost(n)
      PROVE  TypeOK'
  <2>1. mqtt_topics[descKind][n] \in Version
    OBVIOUS
  <2>2. relayed' \in [Kind -> [MetadataName -> Version]]
    <3>1. [relayed EXCEPT ![descKind][n] = mqtt_topics[descKind][n]]
            \in [Kind -> [MetadataName -> Version]]
      BY <2>1, StoreVersion
    <3> QED
      BY <1>8, <3>1 DEF PublishDelivered, PublishLost
  <2>3. todo' \subseteq MetadataName
    BY <1>8 DEF PublishDelivered, PublishLost
  <2>4. UNCHANGED <<flags, mainVars, regVars, descPc, descKind, mutex, mqtt_topics, announced>>
    BY <1>8 DEF PublishDelivered, PublishLost
  <2> QED
    BY <2>2, <2>3, <2>4
<1>9. CASE LoopBegins \/ LoopCondition \/ GateInitialized \/ GateConnected \/ LoopSleep
  BY <1>9 DEF LoopBegins, LoopCondition, GateInitialized, GateConnected, LoopSleep
<1>10. CASE DescriptorsPublished \/ TypesPublished
  BY <1>10 DEF DescriptorsPublished, TypesPublished, Kind
<1>11. CASE UNCHANGED vars
  BY <1>11 DEF vars
<1> QED
  BY <1>1, <1>2, <1>3, <1>4, <1>5, <1>6, <1>7, <1>8, <1>9, <1>10, <1>11
     DEF Next, DescStep, Destroyed

(* Every variable of the relay keeps its type, whatever fresh memory held. *)
THEOREM TypeCorrect == Spec => []TypeOK
BY TypeInit, TypeStep, PTL DEF Spec
-----------------------------------------------------------------------------
(* Who holds which mutex, by the places of the two threads.  The thread    *)
(* that publishes types still holds the descriptors' mutex.                *)
MutexInv ==
  /\ \A k \in Kind : mutex[k] = "reg" <=> (regPc = "write" /\ regKind = k)
  /\ mutex["descriptor"] = "desc" <=>
       (descPc = "publish" \/ (descPc = "lock" /\ descKind = "type"))
  /\ mutex["type"] = "desc" <=> (descPc = "publish" /\ descKind = "type")
  /\ descKind = "type" => descPc \in {"lock", "publish"}

LEMMA MutexStep == TypeOK /\ MutexInv /\ [Next]_vars => MutexInv'
<1> SUFFICES ASSUME TypeOK, MutexInv, [Next]_vars
             PROVE  MutexInv'
  OBVIOUS
<1> USE DEF TypeOK, MutexInv, Kind, mainVars, ecalVars, regVars, descVars, dataVars
<1>1. CASE MainStep \/ DestroyBegins \/ FlagChanges
  BY <1>1 DEF MainStep, DestroyBegins, FlagChanges, ConstructActive,
     ConstructInitialized, ConstructConnected, initEcal, initMqtt, initialize,
     DestroyInitialized, DestroyJoin, DestroyDisconnect, DestroyLoopStop,
     DestroyFinalize, DestroyReturns
<1>2. ASSUME NEW e \in EcalTopic, Announce(e) \/ Registration(e)
      PROVE  MutexInv'
  BY <1>2 DEF Announce, Registration
<1>3. CASE RegistrationLock
  BY <1>3 DEF RegistrationLock
<1>4. CASE RegistrationWrite
  BY <1>4 DEF RegistrationWrite
<1>5. CASE DescLock
  BY <1>5 DEF DescLock
<1>6. ASSUME NEW n \in MetadataName, PublishDelivered(n) \/ PublishLost(n)
      PROVE  MutexInv'
  BY <1>6 DEF PublishDelivered, PublishLost
<1>7. CASE LoopBegins \/ LoopCondition \/ GateInitialized \/ GateConnected \/ LoopSleep
  BY <1>7 DEF LoopBegins, LoopCondition, GateInitialized, GateConnected, LoopSleep
<1>8. CASE DescriptorsPublished
  BY <1>8 DEF DescriptorsPublished
<1>9. CASE TypesPublished
  BY <1>9 DEF TypesPublished
<1>10. CASE UNCHANGED vars
  BY <1>10 DEF vars
<1> QED
  BY <1>1, <1>2, <1>3, <1>4, <1>5, <1>6, <1>7, <1>8, <1>9, <1>10
     DEF Next, DescStep, Destroyed

LEMMA MutexInit == Init => MutexInv
BY DEF Init, MutexInv, Kind

(* Nobody waits for a mutex whose holder waits too, for every              *)
(* configuration: only the descriptor thread waits with a mutex in hand,   *)
(* for the types' mutex, and the registration thread holds that one just   *)
(* to write.                                                               *)
THEOREM HoldersProceedCorrect == Spec => []HoldersProceed
<1>1. TypeOK /\ MutexInv => HoldersProceed
  <2> SUFFICES ASSUME TypeOK, MutexInv
               PROVE  HoldersProceed
    OBVIOUS
  <2>1. ASSUME regPc = "lock", mutex[regKind] # "free"
        PROVE  /\ mutex[regKind] = "desc"
               /\ descPc = "publish" \/ (descPc = "lock" /\ mutex[descKind] = "free")
    BY <2>1 DEF TypeOK, MutexInv, Kind
  <2>2. ASSUME descPc = "lock", mutex[descKind] # "free"
        PROVE  /\ mutex[descKind] = "reg"
               /\ regPc = "write" \/ (regPc = "lock" /\ mutex[regKind] = "free")
    BY <2>2 DEF TypeOK, MutexInv, Kind
  <2> QED
    BY <2>1, <2>2 DEF HoldersProceed
<1> QED
  BY <1>1, TypeInit, TypeStep, MutexInit, MutexStep, PTL DEF Spec

(* The maps that mqtt_desc_thread iterates over are not written meanwhile, *)
(* for every configuration.                                                *)
THEOREM IterationUndisturbedCorrect == Spec => IterationUndisturbed
<1> DEFINE Undisturbed ==
      \A k \in Kind : (descPc = "publish" /\ (descKind = k \/ k = "descriptor"))
                        => mqtt_topics'[k] = mqtt_topics[k]
<1>1. TypeOK /\ MutexInv /\ [Next]_vars => [Undisturbed]_vars
  <2> SUFFICES ASSUME TypeOK, MutexInv, Next,
                      NEW k \in Kind, descPc = "publish", descKind = k \/ k = "descriptor"
               PROVE  mqtt_topics'[k] = mqtt_topics[k]
    OBVIOUS
  <2>1. CASE RegistrationWrite
    <3>1. mutex[regKind] = "reg" /\ mutex[k] = "desc"
      BY <2>1 DEF RegistrationWrite, MutexInv, TypeOK, Kind
    <3>2. regKind # k
      BY <3>1
    <3> QED
      BY <2>1, <3>2 DEF RegistrationWrite, TypeOK
  <2>2. CASE mqtt_topics' = mqtt_topics
    BY <2>2
  <2> QED
    BY <2>1, <2>2 DEF Next, DescStep, Destroyed, vars, dataVars, MainStep, DestroyBegins,
       FlagChanges, ConstructActive, ConstructInitialized, ConstructConnected,
       initEcal, initMqtt, initialize, DestroyInitialized, DestroyJoin,
       DestroyDisconnect, DestroyLoopStop, DestroyFinalize, DestroyReturns,
       Announce, Registration, RegistrationLock, DescLock, PublishDelivered,
       PublishLost, LoopBegins, LoopCondition, GateInitialized, GateConnected,
       LoopSleep, DescriptorsPublished, TypesPublished
<1> QED
  BY <1>1, TypeInit, TypeStep, MutexInit, MutexStep, PTL DEF Spec, IterationUndisturbed
-----------------------------------------------------------------------------
(* The end of the destructor: mqtt_desc_thread stays where it was joined,  *)
(* and after eCAL's last Finalize no callback starts.                      *)
EndInv ==
  /\ Joined => descPc = "exit"
  /\ (mainPc \in {"finalized", "done"} /\ last_user) => ~callback
  /\ (mainPc = "done" /\ last_user) => regPc = "idle"

LEMMA EndInit == Init => EndInv
BY DEF Init, EndInv, Joined

LEMMA EndStep == EndInv /\ [Next]_vars => EndInv'
<1> SUFFICES ASSUME EndInv, [Next]_vars
             PROVE  EndInv'
  OBVIOUS
<1> USE DEF EndInv, Joined, mainVars, ecalVars, regVars, descVars
<1>1. CASE \/ ConstructActive \/ ConstructInitialized \/ ConstructConnected
           \/ initEcal \/ initMqtt \/ initialize \/ DestroyBegins
           \/ DestroyInitialized \/ DestroyJoin \/ DestroyDisconnect
           \/ DestroyLoopStop \/ FlagChanges
  BY <1>1 DEF DestroyBegins, FlagChanges, ConstructActive,
     ConstructInitialized, ConstructConnected, initEcal, initMqtt, initialize,
     DestroyInitialized, DestroyJoin, DestroyDisconnect, DestroyLoopStop
<1>7. CASE DestroyFinalize
  <2>1. last_user' => ~callback'
    BY <1>7, Zenon DEF DestroyFinalize
  <2> QED
    BY <1>7, <2>1 DEF DestroyFinalize
<1>8. CASE DestroyReturns
  BY <1>8 DEF DestroyReturns
<1>2. ASSUME NEW e \in EcalTopic, Announce(e) \/ Registration(e)
      PROVE  EndInv'
  BY <1>2 DEF Announce, Registration
<1>3. CASE RegistrationLock \/ RegistrationWrite
  BY <1>3 DEF RegistrationLock, RegistrationWrite
<1>4. ASSUME NEW n \in MetadataName, PublishDelivered(n) \/ PublishLost(n)
      PROVE  EndInv'
  BY <1>4 DEF PublishDelivered, PublishLost
<1>5. CASE LoopBegins \/ LoopCondition \/ GateInitialized \/ GateConnected
           \/ DescLock \/ DescriptorsPublished \/ TypesPublished \/ LoopSleep
  BY <1>5 DEF LoopBegins, LoopCondition, GateInitialized, GateConnected,
     DescLock, DescriptorsPublished, TypesPublished, LoopSleep
<1>6. CASE UNCHANGED vars
  BY <1>6 DEF vars
<1> QED
  BY <1>1, <1>2, <1>3, <1>4, <1>5, <1>6, <1>7, <1>8
     DEF Next, MainStep, DescStep, Destroyed

(* Only eCAL's registration thread may outlive the members it uses, and    *)
(* only as long as other bridges use eCAL: no other thread does, and no    *)
(* other holds a mutex that is destroyed.                                  *)
THEOREM DestroyedQuietCorrect == Spec => []DestroyedQuiet
<1>1. TypeOK /\ MutexInv /\ EndInv => DestroyedQuiet
  BY DEF TypeOK, MutexInv, EndInv, DestroyedQuiet, Joined, Kind
<1> QED
  BY <1>1, TypeInit, TypeStep, MutexInit, MutexStep, EndInit, EndStep, PTL DEF Spec
-----------------------------------------------------------------------------
(* Versions only move forward: a map lags behind the sample that is being  *)
(* written, and the sample behind the registrations.                       *)
VersionInv ==
  /\ \A e \in EcalTopic, k \in Kind :
       Found(e, k) => mqtt_topics[k][MqttName(e, k)] <= announced[e]
  /\ regPc # "idle" =>
       /\ Found(sample.topic, regKind)
       /\ sample.version <= announced[sample.topic]
       /\ \A k \in Kind : Found(sample.topic, k) =>
            mqtt_topics[k][MqttName(sample.topic, k)] <= sample.version

LEMMA VersionInit == Init => VersionInv
<1> SUFFICES ASSUME Init, NEW e \in EcalTopic, NEW k \in Kind, Found(e, k)
             PROVE  mqtt_topics[k][MqttName(e, k)] <= announced[e]
  BY DEF Init, VersionInv
<1> QED
  BY MqttNameIsName DEF Init

(* One registration writes one name of one map. *)
LEMMA WriteEffect ==
  ASSUME TypeOK, VersionInv, RegistrationWrite,
         NEW k \in Kind, NEW n \in MetadataName
  PROVE  mqtt_topics'[k][n] =
           IF k = regKind /\ n = MqttName(sample.topic, regKind)
             THEN sample.version ELSE mqtt_topics[k][n]
<1>1. MqttName(sample.topic, regKind) \in MetadataName
  BY MqttNameIsName DEF TypeOK, VersionInv, RegistrationWrite
<1> QED
  BY <1>1 DEF TypeOK, RegistrationWrite

LEMMA VersionStep ==
  ASSUME MetadataTopicsDistinct
  PROVE  TypeOK /\ VersionInv /\ [Next]_vars => VersionInv'
<1> SUFFICES ASSUME TypeOK, VersionInv, [Next]_vars
             PROVE  VersionInv'
  OBVIOUS
<1>1. ASSUME NEW e \in EcalTopic, Announce(e)
      PROVE  VersionInv'
  <2>1. \A f \in EcalTopic : announced[f] <= announced'[f] /\ announced'[f] \in Nat
                              /\ announced[f] \in Nat
    BY <1>1, RelayAssumption DEF Announce, TypeOK, Version
  <2>2. \A f \in EcalTopic, k \in Kind : Found(f, k) =>
          mqtt_topics[k][MqttName(f, k)] \in Nat
    BY MqttNameIsName DEF TypeOK, Version
  <2>3. sample.topic \in EcalTopic /\ sample.version \in Nat
    BY DEF TypeOK, Version
  <2>4. UNCHANGED <<mqtt_topics, regPc, regKind, sample>>
    BY <1>1 DEF Announce, regVars, dataVars
  <2> QED
    BY <2>1, <2>2, <2>3, <2>4 DEF VersionInv
<1>2. ASSUME NEW e \in EcalTopic, Registration(e)
      PROVE  VersionInv'
  <2>1. regKind' \in Kind /\ Found(e, regKind')
    BY <1>2 DEF Registration, Kind
  <2>2. sample'.topic = e /\ sample'.version = announced[e]
    BY <1>2 DEF Registration
  <2>3. announced[e] <= announced[e]
    BY DEF TypeOK, Version
  <2>4. UNCHANGED <<mqtt_topics, announced>>
    BY <1>2 DEF Registration, dataVars
  <2> QED
    BY <2>1, <2>2, <2>3, <2>4 DEF VersionInv
<1>3. CASE RegistrationWrite
  <2> DEFINE t == sample.topic
  <2>1. t \in EcalTopic /\ regKind \in Kind /\ Found(t, regKind)
        /\ sample.version <= announced[t]
    BY <1>3 DEF TypeOK, VersionInv, RegistrationWrite
  <2>2. UNCHANGED <<announced, sample>>
    BY <1>3 DEF RegistrationWrite
  <2>3. ASSUME NEW e \in EcalTopic, NEW k \in Kind, Found(e, k)
        PROVE  mqtt_topics'[k][MqttName(e, k)] <= announced'[e]
    <3>1. CASE k = regKind /\ MqttName(e, k) = MqttName(t, regKind)
      <4>1. e = t
        BY <2>1, <2>3, <3>1 DEF MetadataTopicsDistinct
      <4> QED
        BY <1>3, <2>1, <2>2, <2>3, <3>1, <4>1, WriteEffect, MqttNameIsName
    <3>2. CASE ~(k = regKind /\ MqttName(e, k) = MqttName(t, regKind))
      BY <1>3, <2>2, <2>3, <3>2, WriteEffect, MqttNameIsName DEF VersionInv
    <3> QED
      BY <3>1, <3>2
  <2>4. ASSUME NEW k \in Kind, Found(t, k)
        PROVE  mqtt_topics'[k][MqttName(t, k)] <= sample.version
    <3>1. sample.version <= sample.version
      BY DEF TypeOK, Version
    <3>2. mqtt_topics[k][MqttName(t, k)] <= sample.version
      BY <1>3, <2>4 DEF VersionInv, RegistrationWrite
    <3> QED
      BY <1>3, <2>1, <2>4, <3>1, <3>2, WriteEffect, MqttNameIsName
  <2>5. regPc' # "idle" => Found(t, regKind')
    BY <1>3 DEF RegistrationWrite
  <2> QED
    BY <2>1, <2>2, <2>3, <2>4, <2>5 DEF VersionInv
<1>4. CASE RegistrationLock
  BY <1>4 DEF RegistrationLock, VersionInv
<1>5. CASE UNCHANGED <<mqtt_topics, announced, regPc, regKind, sample>>
  BY <1>5 DEF VersionInv
<1> QED
  BY <1>1, <1>2, <1>3, <1>4, <1>5
     DEF Next, DescStep, Destroyed, vars, regVars, dataVars, MainStep, DestroyBegins,
     FlagChanges, ConstructActive, ConstructInitialized, ConstructConnected,
     initEcal, initMqtt, initialize, DestroyInitialized, DestroyJoin,
     DestroyDisconnect, DestroyLoopStop, DestroyFinalize, DestroyReturns,
     DescLock, PublishDelivered, PublishLost, LoopBegins, LoopCondition,
     GateInitialized, GateConnected, LoopSleep, DescriptorsPublished, TypesPublished
-----------------------------------------------------------------------------
(* Refinement.  A cell of the mirror has one source.                       *)
LEMMA CellSource ==
  ASSUME MetadataTopicsDistinct, NEW e \in EcalTopic, NEW k \in Kind, Found(e, k)
  PROVE  /\ <<k, MqttName(e, k)>> \in MirrorCell
         /\ MirrorSource[<<k, MqttName(e, k)>>] = e
<1> DEFINE c == <<k, MqttName(e, k)>>
<1>1. c \in MirrorCell /\ Belongs(c, e)
  BY MqttNameIsName DEF MirrorCell, Belongs
<1>2. \A f \in EcalTopic : Belongs(c, f) => f = e
  BY DEF Belongs, MetadataTopicsDistinct
<1> QED
  BY <1>1, <1>2 DEF MirrorSource

LEMMA MirrorInit == Init => Mirror!Init
BY DEF Init, Mirror!Init, MirrorHeld, MirrorRelayed, MirrorCell, Joined

(* A step that leaves maps and relayed alone leaves the mirror's cells.    *)
LEMMA CellsUnchanged ==
  ASSUME mqtt_topics' = mqtt_topics, relayed' = relayed
  PROVE  MirrorHeld' = MirrorHeld /\ MirrorRelayed' = MirrorRelayed
BY DEF MirrorHeld, MirrorRelayed

(* RegistrationWrite is Learn of the cell it writes.                       *)
LEMMA WriteIsLearn ==
  ASSUME MetadataTopicsDistinct, TypeOK, VersionInv, RegistrationWrite
  PROVE  \E c \in MirrorCell : Mirror!Learn(c)
<1> DEFINE t == sample.topic
           c == <<regKind, MqttName(t, regKind)>>
<1>1. t \in EcalTopic /\ regKind \in Kind /\ Found(t, regKind)
  BY DEF TypeOK, VersionInv, RegistrationWrite
<1>2. c \in MirrorCell /\ MirrorSource[c] = t
  BY <1>1, CellSource
<1>3. \A d \in MirrorCell :
        MirrorHeld'[d] = IF d = c THEN sample.version ELSE MirrorHeld[d]
  <2> TAKE d \in MirrorCell
  <2>1. d = <<d[1], d[2]>> /\ d[1] \in Kind /\ d[2] \in MetadataName
    BY DEF MirrorCell
  <2>2. mqtt_topics'[d[1]][d[2]] =
          IF d[1] = regKind /\ d[2] = MqttName(t, regKind)
            THEN sample.version ELSE mqtt_topics[d[1]][d[2]]
    BY <2>1, WriteEffect
  <2>3. d = c <=> (d[1] = regKind /\ d[2] = MqttName(t, regKind))
    BY <2>1
  <2>4. MirrorHeld'[d] = mqtt_topics'[d[1]][d[2]] /\ MirrorHeld[d] = mqtt_topics[d[1]][d[2]]
    BY DEF MirrorHeld
  <2> QED
    BY <2>2, <2>3, <2>4
<1>4. MirrorHeld'[c] = sample.version
  BY <1>2, <1>3
<1>5. MirrorHeld' = [MirrorHeld EXCEPT ![c] = MirrorHeld'[c]]
  <2>1. MirrorHeld' = [d \in MirrorCell |-> MirrorHeld'[d]]
    BY DEF MirrorHeld
  <2>2. MirrorHeld = [d \in MirrorCell |-> MirrorHeld[d]]
    BY DEF MirrorHeld
  <2> HIDE DEF c
  <2> QED
    BY <1>2, <1>3, <1>4, <2>1, <2>2
<1>6. MirrorHeld'[c] \in MirrorHeld[c] .. announced[MirrorSource[c]]
  <2>1. MirrorHeld[c] = mqtt_topics[regKind][MqttName(t, regKind)]
    BY <1>2 DEF MirrorHeld
  <2>2. mqtt_topics[regKind][MqttName(t, regKind)] \in Nat
    BY <1>1, MqttNameIsName DEF TypeOK, Version
  <2>3. sample.version \in Nat /\ announced[t] \in Nat
    BY <1>1 DEF TypeOK, Version
  <2>4. mqtt_topics[regKind][MqttName(t, regKind)] <= sample.version
        /\ sample.version <= announced[t]
    BY <1>1 DEF VersionInv, RegistrationWrite
  <2> HIDE DEF c, t
  <2> QED
    BY <1>2, <1>4, <2>1, <2>2, <2>3, <2>4
<1>7. announced' = announced /\ MirrorRelayed' = MirrorRelayed /\ Joined' = Joined
  BY DEF RegistrationWrite, MirrorRelayed, Joined, mainVars, ecalVars
<1> QED
  BY <1>2, <1>5, <1>6, <1>7 DEF Mirror!Learn

(* A delivered publish is Relay of its cell, before the thread is joined;  *)
(* or it is of a name that belongs to no topic, and nobody sees it.        *)
LEMMA PublishIsRelay ==
  ASSUME TypeOK, EndInv, NEW n \in MetadataName, PublishDelivered(n)
  PROVE  (\E c \in MirrorCell : Mirror!Relay(c)) \/ UNCHANGED Mirror!vars
<1> DEFINE c == <<descKind, n>>
<1>1. descKind \in Kind /\ ~Joined
  BY DEF TypeOK, EndInv, PublishDelivered
<1>2. announced' = announced /\ mqtt_topics' = mqtt_topics /\ Joined' = Joined
  BY DEF PublishDelivered, Joined, mainVars, ecalVars
<1>3. MirrorHeld' = MirrorHeld
  BY <1>2 DEF MirrorHeld
<1>4. \A d \in MirrorCell :
        MirrorRelayed'[d] = IF d = c THEN MirrorHeld[d] ELSE MirrorRelayed[d]
  <2> TAKE d \in MirrorCell
  <2>1. d = <<d[1], d[2]>> /\ d[1] \in Kind /\ d[2] \in MetadataName
    BY DEF MirrorCell
  <2>2. relayed'[d[1]][d[2]] =
          IF d[1] = descKind /\ d[2] = n THEN mqtt_topics[d[1]][d[2]] ELSE relayed[d[1]][d[2]]
    BY <1>1, <2>1 DEF PublishDelivered, TypeOK
  <2>3. d = c <=> (d[1] = descKind /\ d[2] = n)
    BY <2>1
  <2>4. /\ MirrorRelayed'[d] = relayed'[d[1]][d[2]]
        /\ MirrorRelayed[d] = relayed[d[1]][d[2]]
        /\ MirrorHeld[d] = mqtt_topics[d[1]][d[2]]
    BY DEF MirrorHeld, MirrorRelayed
  <2> QED
    BY <2>2, <2>3, <2>4
<1>5. MirrorRelayed' = [d \in MirrorCell |-> MirrorRelayed'[d]]
  BY DEF MirrorRelayed
<1>6. MirrorRelayed = [d \in MirrorCell |-> MirrorRelayed[d]]
  BY DEF MirrorRelayed
<1>7. CASE c \in MirrorCell
  <2> HIDE DEF c
  <2>1. MirrorRelayed' = [MirrorRelayed EXCEPT ![c] = MirrorHeld[c]]
    BY <1>4, <1>5, <1>6, <1>7
  <2> QED
    BY <1>1, <1>2, <1>3, <1>7, <2>1 DEF Mirror!Relay
<1>8. CASE c \notin MirrorCell
  <2> HIDE DEF c
  <2>1. MirrorRelayed' = MirrorRelayed
    BY <1>4, <1>5, <1>6, <1>8
  <2> QED
    BY <1>2, <1>3, <2>1 DEF Mirror!vars
<1> QED
  BY <1>7, <1>8

LEMMA MirrorStep ==
  ASSUME MetadataTopicsDistinct
  PROVE  TypeOK /\ EndInv /\ VersionInv /\ [Next]_vars => [Mirror!Next]_(Mirror!vars)
<1> SUFFICES ASSUME TypeOK, EndInv, VersionInv, [Next]_vars
             PROVE  [Mirror!Next]_(Mirror!vars)
  OBVIOUS
<1>1. ASSUME NEW e \in EcalTopic, Announce(e)
      PROVE  Mirror!Next
  <2>1. MirrorHeld' = MirrorHeld /\ MirrorRelayed' = MirrorRelayed
    BY <1>1, CellsUnchanged DEF Announce, dataVars
  <2>2. Joined' = Joined
    BY <1>1 DEF Announce, Joined, mainVars, ecalVars
  <2>3. Mirror!Announce(e)
    BY <1>1, <2>1, <2>2 DEF Announce, Mirror!Announce
  <2> QED
    BY <2>3 DEF Mirror!Next
<1>2. CASE RegistrationWrite
  BY <1>2, WriteIsLearn DEF Mirror!Next
<1>3. ASSUME NEW n \in MetadataName, PublishDelivered(n)
      PROVE  [Mirror!Next]_(Mirror!vars)
  BY <1>3, PublishIsRelay DEF Mirror!Next
<1>4. CASE DestroyJoin
  <2>1. MirrorHeld' = MirrorHeld /\ MirrorRelayed' = MirrorRelayed
    BY <1>4, CellsUnchanged DEF DestroyJoin, dataVars
  <2>2. Joined' /\ announced' = announced
    BY <1>4 DEF DestroyJoin, Joined
  <2>3. Mirror!Close
    BY <2>1, <2>2 DEF Mirror!Close
  <2> QED
    BY <2>3 DEF Mirror!Next
<1>5. CASE announced' = announced /\ mqtt_topics' = mqtt_topics
           /\ relayed' = relayed /\ Joined' = Joined
  BY <1>5, CellsUnchanged DEF Mirror!vars
<1>6. CASE (MainStep /\ ~DestroyJoin) \/ DestroyBegins \/ FlagChanges
  <2>1. announced' = announced /\ mqtt_topics' = mqtt_topics
           /\ relayed' = relayed /\ Joined' = Joined
    BY <1>6 DEF MainStep, DestroyBegins, FlagChanges, Joined, dataVars, mainVars, ecalVars,
       ConstructActive, ConstructInitialized, ConstructConnected, initEcal,
       initMqtt, initialize, DestroyInitialized, DestroyDisconnect,
       DestroyLoopStop, DestroyFinalize, DestroyReturns
  <2> QED
    BY <1>5, <2>1
<1> QED
  BY <1>1, <1>2, <1>3, <1>4, <1>5, <1>6
     DEF Next, DescStep, Destroyed, vars, dataVars, mainVars, ecalVars, Joined,
     Registration, RegistrationLock, DescLock, PublishLost, LoopBegins,
     LoopCondition, GateInitialized, GateConnected, LoopSleep,
     DescriptorsPublished, TypesPublished

(* The relay implements the mirror, for every configuration in which no    *)
(* two eCAL topics share a metadata topic: what MQTT shows never goes back *)
(* to an older registration, was announced, and does not change any more   *)
(* once the destructor has joined the thread.                              *)
THEOREM ImplementsMirrorCorrect ==
  ASSUME MetadataTopicsDistinct
  PROVE  Spec => ImplementsMirror
<1>1. TypeOK /\ VersionInv /\ [Next]_vars => VersionInv'
  BY VersionStep
<1>2. TypeOK /\ EndInv /\ VersionInv /\ [Next]_vars => [Mirror!Next]_(Mirror!vars)
  BY MirrorStep
<1> QED
  BY <1>1, <1>2, TypeInit, TypeStep, EndInit, EndStep, VersionInit, MirrorInit, PTL
     DEF Spec, ImplementsMirror, Mirror!Spec
-----------------------------------------------------------------------------
(* What follows of the mirror alone, and so of the relay. *)
LEMMA CellTypes ==
  ASSUME MetadataTopicsDistinct, TypeOK, NEW c \in MirrorCell
  PROVE  /\ MirrorSource[c] \in EcalTopic
         /\ MirrorHeld[c] \in Nat
         /\ MirrorRelayed[c] \in Nat
<1>1. PICK e \in EcalTopic : Belongs(c, e)
  BY DEF MirrorCell
<1>2. c[1] \in Kind /\ c[2] \in MetadataName
  BY DEF MirrorCell
<1>3. mqtt_topics[c[1]][c[2]] \in Version /\ relayed[c[1]][c[2]] \in Version
  BY <1>2 DEF TypeOK
<1>4. (CHOOSE f \in EcalTopic : Belongs(c, f)) \in EcalTopic
  BY <1>1
<1> QED
  BY <1>3, <1>4, RelayAssumption DEF MirrorSource, MirrorHeld, MirrorRelayed, Version

LEMMA OrderedStep ==
  ASSUME MetadataTopicsDistinct
  PROVE  TypeOK /\ TypeOK' /\ Mirror!Ordered /\ [Mirror!Next]_(Mirror!vars)
           => Mirror!Ordered'
<1> SUFFICES ASSUME TypeOK, TypeOK', Mirror!Ordered, [Mirror!Next]_(Mirror!vars),
                    NEW c \in MirrorCell
             PROVE  /\ MirrorRelayed'[c] <= MirrorHeld'[c]
                    /\ MirrorHeld'[c] <= announced'[MirrorSource[c]]
  BY DEF Mirror!Ordered, MirrorSource, MirrorCell
<1> DEFINE s == MirrorSource[c]
<1>1. /\ s \in EcalTopic /\ announced[s] \in Nat
      /\ MirrorHeld[c] \in Nat /\ MirrorRelayed[c] \in Nat
  BY CellTypes, RelayAssumption DEF TypeOK, Version
<1>2. MirrorRelayed[c] <= MirrorHeld[c] /\ MirrorHeld[c] <= announced[s]
  BY DEF Mirror!Ordered
<1>3. MirrorHeld \in [MirrorCell -> Nat] /\ MirrorRelayed \in [MirrorCell -> Nat]
  BY CellTypes DEF MirrorHeld, MirrorRelayed
<1> HIDE DEF s
<1>4. ASSUME NEW t \in EcalTopic, Mirror!Announce(t)
      PROVE  /\ MirrorRelayed'[c] <= MirrorHeld'[c]
             /\ MirrorHeld'[c] <= announced'[s]
  <2>1. announced' = [announced EXCEPT ![t] = @ + 1]
    BY <1>4 DEF Mirror!Announce
  <2>2. announced'[s] \in Nat /\ announced[s] <= announced'[s]
    BY <1>1, <2>1 DEF TypeOK, Version
  <2> QED
    BY <1>1, <1>2, <1>4, <2>2 DEF Mirror!Announce
<1>5. ASSUME NEW d \in MirrorCell, Mirror!Learn(d)
      PROVE  /\ MirrorRelayed'[c] <= MirrorHeld'[c]
             /\ MirrorHeld'[c] <= announced'[s]
  <2>1. /\ MirrorHeld' = [MirrorHeld EXCEPT ![d] = MirrorHeld'[d]]
        /\ MirrorHeld'[d] \in MirrorHeld[d] .. announced[MirrorSource[d]]
        /\ announced' = announced /\ MirrorRelayed' = MirrorRelayed
    BY <1>5 DEF Mirror!Learn
  <2>2. CASE d = c
    BY <1>1, <1>2, <2>1, <2>2 DEF s
  <2>3. CASE d # c
    BY <1>1, <1>2, <1>3, <2>1, <2>3
  <2> QED
    BY <2>2, <2>3
<1>6. ASSUME NEW d \in MirrorCell, Mirror!Relay(d)
      PROVE  /\ MirrorRelayed'[c] <= MirrorHeld'[c]
             /\ MirrorHeld'[c] <= announced'[s]
  BY <1>1, <1>2, <1>3, <1>6 DEF Mirror!Relay
<1>7. CASE Mirror!Close \/ UNCHANGED Mirror!vars
  <2>1. MirrorRelayed' = MirrorRelayed /\ MirrorHeld' = MirrorHeld /\ announced' = announced
    BY <1>7, Zenon DEF Mirror!Close, Mirror!vars
  <2> QED
    BY <1>2, <2>1 DEF s
<1> QED
  BY <1>4, <1>5, <1>6, <1>7 DEF Mirror!Next, s

LEMMA ForwardStep ==
  ASSUME MetadataTopicsDistinct
  PROVE  TypeOK /\ Mirror!Ordered /\ [Mirror!Next]_(Mirror!vars)
           => \A c \in MirrorCell : MirrorRelayed[c] <= MirrorRelayed'[c]
<1> SUFFICES ASSUME TypeOK, Mirror!Ordered, [Mirror!Next]_(Mirror!vars),
                    NEW c \in MirrorCell
             PROVE  MirrorRelayed[c] <= MirrorRelayed'[c]
  OBVIOUS
<1>1. MirrorHeld[c] \in Nat /\ MirrorRelayed \in [MirrorCell -> Nat]
  BY CellTypes DEF MirrorRelayed
<1>2. MirrorRelayed[c] <= MirrorHeld[c]
  BY DEF Mirror!Ordered
<1>3. ASSUME NEW d \in MirrorCell, Mirror!Relay(d)
      PROVE  MirrorRelayed[c] <= MirrorRelayed'[c]
  BY <1>1, <1>2, <1>3 DEF Mirror!Relay
<1>4. CASE MirrorRelayed' = MirrorRelayed
  BY <1>1, <1>4
<1> QED
  BY <1>3, <1>4 DEF Mirror!Next, Mirror!Announce, Mirror!Learn, Mirror!Close, Mirror!vars

(* No metadata topic goes back to an older registration or ahead of its    *)
(* eCAL topic, for every configuration without shared metadata topics:     *)
(* samples that are stale when they are written never undo a newer one.    *)
THEOREM MetadataMovesForward ==
  ASSUME MetadataTopicsDistinct
  PROVE  Spec => []Mirror!Ordered /\ Mirror!NeverGoesBack
<1>1. Init => Mirror!Ordered
  <2> SUFFICES ASSUME Init, NEW c \in MirrorCell
               PROVE  MirrorRelayed[c] <= MirrorHeld[c] /\ MirrorHeld[c] <= announced[MirrorSource[c]]
    BY DEF Mirror!Ordered
  <2>1. MirrorSource[c] \in EcalTopic
    BY TypeInit, CellTypes
  <2> QED
    BY <2>1, MirrorInit DEF Mirror!Init
<1>2. TypeOK /\ TypeOK' /\ Mirror!Ordered /\ [Mirror!Next]_(Mirror!vars) => Mirror!Ordered'
  BY OrderedStep
<1>3. TypeOK /\ Mirror!Ordered /\ [Mirror!Next]_(Mirror!vars)
        => [\A c \in MirrorCell : MirrorRelayed[c] <= MirrorRelayed'[c]]_(Mirror!vars)
  BY ForwardStep
<1>4. Spec => []TypeOK /\ ImplementsMirror
  BY TypeCorrect, ImplementsMirrorCorrect
<1> QED
  BY <1>1, <1>2, <1>3, <1>4, PTL DEF Spec, ImplementsMirror, Mirror!Spec, Mirror!NeverGoesBack
=============================================================================
