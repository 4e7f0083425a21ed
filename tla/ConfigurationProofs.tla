------------------------- MODULE ConfigurationProofs -------------------------
(***************************************************************************)
(* What holds of Configuration for every file, of any number of sections.  *)
(***************************************************************************)
EXTENDS Configuration, TLAPS

(* The values of good sections up to the n-th, without those whose name an *)
(* earlier good one has.                                                   *)
Firsts(values, good, n) ==
  {values[i] : i \in {j \in good :
     j <= n /\ \A h \in good : h < j => values[h].name # values[j].name}}

Named(map) == \A name \in DOMAIN map : map[name].name = name

(* A map into which the good values up to the n-th were inserted. *)
Holds(map, values, good, n) ==
  /\ Named(map)
  /\ Contents(map) = Firsts(values, good, n)
  /\ DOMAIN map = {values[i].name : i \in {j \in good : j <= n}}

LEMMA InsertValue ==
  ASSUME NEW map, NEW value
  PROVE  /\ DOMAIN Insert(map, value) = DOMAIN map \union {value.name}
         /\ \A name \in DOMAIN map : Insert(map, value)[name] = map[name]
         /\ value.name \notin DOMAIN map => Insert(map, value)[value.name] = value
BY DEF Insert

LEMMA EmptyHolds ==
  ASSUME NEW values, NEW good, good \subseteq Nat \ {0}
  PROVE  Holds(EmptyMap, values, good, 0)
<1>1. DOMAIN EmptyMap = {}
  BY DEF EmptyMap
<1>2. \A j \in good : ~(j <= 0)
  OBVIOUS
<1> QED
  BY <1>1, <1>2 DEF Holds, Named, Contents, Firsts

LEMMA InsertHolds ==
  ASSUME NEW values, NEW good, good \subseteq Nat, NEW n \in Nat, NEW map,
         Holds(map, values, good, n)
  PROVE  Holds(IF n + 1 \in good THEN Insert(map, values[n + 1]) ELSE map,
               values, good, n + 1)
<1>1. ASSUME NEW j \in good
      PROVE  j <= n + 1 <=> j <= n \/ j = n + 1
  BY <1>1
<1>2. CASE n + 1 \notin good
  <2>1. \A j \in good : j <= n + 1 <=> j <= n
    BY <1>1, <1>2
  <2>2. Firsts(values, good, n + 1) = Firsts(values, good, n)
    BY <2>1 DEF Firsts
  <2> QED
    BY <1>2, <2>1, <2>2 DEF Holds
<1>3. CASE n + 1 \in good
  <2> DEFINE value == values[n + 1]
             new   == Insert(map, value)
             Fresh == \A h \in good : h < n + 1 => values[h].name # value.name
  <2>1. /\ DOMAIN new = DOMAIN map \union {value.name}
        /\ \A name \in DOMAIN map : new[name] = map[name]
        /\ value.name \notin DOMAIN map => new[value.name] = value
    BY InsertValue
  <2>2. Fresh <=> value.name \notin DOMAIN map
    <3>1. \A h \in good : h < n + 1 <=> h <= n
      OBVIOUS
    <3> QED
      BY <3>1 DEF Holds
  <2>3. Firsts(values, good, n + 1) =
          IF Fresh THEN Firsts(values, good, n) \union {value}
                   ELSE Firsts(values, good, n)
    BY <1>1, <1>3 DEF Firsts
  <2>4. Contents(new) = IF Fresh THEN Contents(map) \union {value} ELSE Contents(map)
    BY <2>1, <2>2 DEF Contents
  <2>5. DOMAIN new = {values[i].name : i \in {j \in good : j <= n + 1}}
    BY <1>1, <1>3, <2>1 DEF Holds
  <2>6. Named(new)
    BY <2>1 DEF Named, Holds
  <2> QED
    BY <1>3, <2>3, <2>4, <2>5, <2>6 DEF Holds
<1> QED
  BY <1>2, <1>3
-----------------------------------------------------------------------------
BrokerValues == [i \in DOMAIN file.brokers |-> ReadBroker(file.brokers[i])]
BrokerGood   == {i \in DOMAIN file.brokers : BrokerValid(BrokerValues[i])}
MqttValues   == [i \in DOMAIN file.mqtt2ecal |-> ReadMqttTopic(file.mqtt2ecal[i])]
MqttGood     == {i \in DOMAIN file.mqtt2ecal : MqttTopicValid(MqttValues[i])}
EcalValues   == [i \in DOMAIN file.ecal2mqtt |-> ReadEcalTopic(file.ecal2mqtt[i])]
EcalGood     == {i \in DOMAIN file.ecal2mqtt : EcalTopicValid(EcalValues[i])}

BrokersRead(n) == Holds(brokers, BrokerValues, BrokerGood, n)
MqttRead(n)    == Holds(mqtt2ecal_topics, MqttValues, MqttGood, n)
EcalRead(n)    == Holds(ecal2mqtt_topics, EcalValues, EcalGood, n)

(* The good sections, and what the file asks for in terms of them. *)
LEMMA FileSections ==
  ASSUME file \in File
  PROVE  /\ Len(file.brokers) \in Nat /\ DOMAIN file.brokers = 1 .. Len(file.brokers)
         /\ Len(file.mqtt2ecal) \in Nat /\ DOMAIN file.mqtt2ecal = 1 .. Len(file.mqtt2ecal)
         /\ Len(file.ecal2mqtt) \in Nat /\ DOMAIN file.ecal2mqtt = 1 .. Len(file.ecal2mqtt)
         /\ BrokerGood \subseteq Nat \ {0}
         /\ MqttGood \subseteq Nat \ {0}
         /\ EcalGood \subseteq Nat \ {0}
BY FileAssumption DEF BrokerGood, MqttGood, EcalGood

LEMMA BrokerNames ==
  ASSUME file \in File
  PROVE  \A i \in BrokerGood : BrokerValues[i].name \in Nat \ {0}
<1>1. ASSUME NEW i \in BrokerGood
      PROVE  BrokerValues[i].name \in Nat \ {0}
  <2>1. /\ i \in DOMAIN file.brokers
        /\ "name" \in DOMAIN file.brokers[i]
        /\ file.brokers[i].name \in Nat \ {0}
    BY <1>1, FileAssumption DEF BrokerGood, Empty
  <2>2. BrokerValues[i].name = file.brokers[i].name
    BY <2>1 DEF BrokerValues, ReadBroker, Over
  <2> QED
    BY <2>1, <2>2
<1> QED
  BY <1>1

LEMMA FirstsOfRange ==
  ASSUME NEW n \in Nat, NEW values, NEW good, good \subseteq 1 .. n
  PROVE  Firsts(values, good, n) =
           {values[i] : i \in {j \in 1 .. n :
              j \in good /\ \A h \in 1 .. j - 1 :
                               h \in good => values[h].name # values[j].name}}
<1>1. \A j \in 1 .. n, h \in good : h < j <=> h \in 1 .. j - 1
  OBVIOUS
<1>2. \A j \in 1 .. n : j <= n
  OBVIOUS
<1> QED
  BY <1>1, <1>2 DEF Firsts

LEMMA WantedFirsts ==
  ASSUME file \in File
  PROVE  /\ WantedBrokers = Firsts(BrokerValues, BrokerGood, Len(file.brokers))
         /\ WantedMqtt2Ecal = Firsts(MqttValues, MqttGood, Len(file.mqtt2ecal))
         /\ WantedEcal2Mqtt = Firsts(EcalValues, EcalGood, Len(file.ecal2mqtt))
<1>1. WantedBrokers = Firsts(BrokerValues, BrokerGood, Len(file.brokers))
  <2> DEFINE Value(i) == ReadBroker(file.brokers[i])
             First(i) == /\ BrokerValid(Value(i))
                         /\ \A h \in 1 .. i - 1 :
                              BrokerValid(Value(h)) => Value(h).name # Value(i).name
  <2>1. WantedBrokers = {Value(i) : i \in {j \in DOMAIN file.brokers : First(j)}}
    BY DEF WantedBrokers, Wanted
  <2>2. \A i \in DOMAIN file.brokers :
          BrokerValues[i] = Value(i) /\ (i \in BrokerGood <=> BrokerValid(Value(i)))
    BY DEF BrokerValues, BrokerGood
  <2> HIDE DEF Value
  <2>3. \A i \in DOMAIN file.brokers : First(i) <=>
          i \in BrokerGood /\ \A h \in 1 .. i - 1 :
                            h \in BrokerGood => BrokerValues[h].name # BrokerValues[i].name
    <3>1. \A i \in DOMAIN file.brokers : \A h \in 1 .. i - 1 : h \in DOMAIN file.brokers
      BY FileSections
    <3> QED
      BY <2>2, <3>1
  <2> HIDE DEF First
  <2> QED
    BY <2>1, <2>2, <2>3, FileSections, FirstsOfRange DEF BrokerGood
<1>2. WantedMqtt2Ecal = Firsts(MqttValues, MqttGood, Len(file.mqtt2ecal))
  <2> DEFINE Value(i) == ReadMqttTopic(file.mqtt2ecal[i])
             First(i) == /\ MqttTopicValid(Value(i))
                         /\ \A h \in 1 .. i - 1 :
                              MqttTopicValid(Value(h)) => Value(h).name # Value(i).name
  <2>1. WantedMqtt2Ecal = {Value(i) : i \in {j \in DOMAIN file.mqtt2ecal : First(j)}}
    BY DEF WantedMqtt2Ecal, Wanted
  <2>2. \A i \in DOMAIN file.mqtt2ecal :
          MqttValues[i] = Value(i) /\ (i \in MqttGood <=> MqttTopicValid(Value(i)))
    BY DEF MqttValues, MqttGood
  <2> HIDE DEF Value
  <2>3. \A i \in DOMAIN file.mqtt2ecal : First(i) <=>
          i \in MqttGood /\ \A h \in 1 .. i - 1 :
                            h \in MqttGood => MqttValues[h].name # MqttValues[i].name
    <3>1. \A i \in DOMAIN file.mqtt2ecal : \A h \in 1 .. i - 1 : h \in DOMAIN file.mqtt2ecal
      BY FileSections
    <3> QED
      BY <2>2, <3>1
  <2> HIDE DEF First
  <2> QED
    BY <2>1, <2>2, <2>3, FileSections, FirstsOfRange DEF MqttGood
<1>3. WantedEcal2Mqtt = Firsts(EcalValues, EcalGood, Len(file.ecal2mqtt))
  <2> DEFINE Value(i) == ReadEcalTopic(file.ecal2mqtt[i])
             First(i) == /\ EcalTopicValid(Value(i))
                         /\ \A h \in 1 .. i - 1 :
                              EcalTopicValid(Value(h)) => Value(h).name # Value(i).name
  <2>1. WantedEcal2Mqtt = {Value(i) : i \in {j \in DOMAIN file.ecal2mqtt : First(j)}}
    BY DEF WantedEcal2Mqtt, Wanted
  <2>2. \A i \in DOMAIN file.ecal2mqtt :
          EcalValues[i] = Value(i) /\ (i \in EcalGood <=> EcalTopicValid(Value(i)))
    BY DEF EcalValues, EcalGood
  <2> HIDE DEF Value
  <2>3. \A i \in DOMAIN file.ecal2mqtt : First(i) <=>
          i \in EcalGood /\ \A h \in 1 .. i - 1 :
                            h \in EcalGood => EcalValues[h].name # EcalValues[i].name
    <3>1. \A i \in DOMAIN file.ecal2mqtt : \A h \in 1 .. i - 1 : h \in DOMAIN file.ecal2mqtt
      BY FileSections
    <3> QED
      BY <2>2, <3>1
  <2> HIDE DEF First
  <2> QED
    BY <2>1, <2>2, <2>3, FileSections, FirstsOfRange DEF EcalGood
<1> QED
  BY <1>1, <1>2, <1>3
-----------------------------------------------------------------------------
Asked(topics) == {t \in topics : \E b \in WantedBrokers : t.broker_name = b.name}

Needed(broker) ==
  OfBroker(WantedMqtt2Ecal, broker) # {} \/ OfBroker(WantedEcal2Mqtt, broker) # {}

BridgeOf(name) ==
  [broker    |-> brokers[name],
   mqtt2ecal |-> TopicsOf({name}, mqtt2ecal_topics),
   ecal2mqtt |-> TopicsOf({name}, ecal2mqtt_topics)]

Bridges == {BridgeOf(name) : name \in DOMAIN brokers}

Filling == {"brokers", "mqtt2ecal", "ecal2mqtt"}
Pruned  == {"erase_brokers", "defaults", "bridges", "supervise"}

(* What the maps hold while they are filled ... *)
FillInv ==
  /\ pc \in Filling => position \in Nat /\ list_of_bridges = <<>>
  /\ pc = "brokers" => /\ position <= Len(file.brokers)
                       /\ BrokersRead(position) /\ MqttRead(0) /\ EcalRead(0)
  /\ pc = "mqtt2ecal" => /\ position <= Len(file.mqtt2ecal)
                         /\ BrokersRead(Len(file.brokers))
                         /\ MqttRead(position) /\ EcalRead(0)
  /\ pc = "ecal2mqtt" => /\ position <= Len(file.ecal2mqtt)
                         /\ BrokersRead(Len(file.brokers))
                         /\ MqttRead(Len(file.mqtt2ecal)) /\ EcalRead(position)
  /\ pc = "erase_topics" => /\ position = 0 /\ list_of_bridges = <<>>
                            /\ BrokersRead(Len(file.brokers))
                            /\ MqttRead(Len(file.mqtt2ecal))
                            /\ EcalRead(Len(file.ecal2mqtt))
  /\ pc = "returned" => WantedBrokers = {} /\ list_of_bridges = <<>>

(* ... when what nobody needs is erased: brokers only if no route is theirs *)
PruneInv ==
  pc \in Pruned =>
    /\ Contents(mqtt2ecal_topics) = Asked(WantedMqtt2Ecal)
    /\ Contents(ecal2mqtt_topics) = Asked(WantedEcal2Mqtt)
    /\ Contents(brokers) \subseteq WantedBrokers
    /\ \A b \in WantedBrokers : Needed(b) => b \in Contents(brokers)
    /\ \A name \in DOMAIN brokers : name \in Nat \ {0}
    /\ pc \in {"erase_brokers", "defaults"} => list_of_bridges = <<>>
    /\ pc = "defaults" => position = 0

(* ... and the bridges built so far: one per broker visited. *)
BridgesInv ==
  pc \in {"bridges", "supervise"} =>
    /\ list_of_bridges \in Seq(Bridges)
    /\ \A i, j \in DOMAIN list_of_bridges :
         list_of_bridges[i].broker = list_of_bridges[j].broker => i = j
    /\ \A name \in DOMAIN brokers :
         (pc = "supervise" \/ name <= position)
           <=> \E i \in DOMAIN list_of_bridges : list_of_bridges[i].broker = brokers[name]

LEMMA TypeInit == Init => TypeOK
<1> SUFFICES ASSUME Init
             PROVE  TypeOK
  OBVIOUS
<1>1. DOMAIN EmptyMap = {}
  BY DEF EmptyMap
<1>2. DOMAIN list_of_bridges = 1 .. Len(list_of_bridges)
  BY DEF Init
<1> QED
  BY <1>1, <1>2 DEF Init, TypeOK

LEMMA Subnamed ==
  ASSUME NEW map, Named(map)
  PROVE  /\ \A names : Named(TopicsOf(names, map))
         /\ \A name : Named(Erase(map, name))
BY DEF Named, TopicsOf, Erase

IInv == TypeOK /\ FillInv /\ PruneInv /\ BridgesInv

LEMMA InvInit == Init => IInv
<1> SUFFICES ASSUME Init
             PROVE  IInv
  OBVIOUS
<1>1. file \in File
  BY DEF Init
<1>2. FillInv
  BY <1>1, FileSections, EmptyHolds
     DEF Init, FillInv, Filling, BrokersRead, MqttRead, EcalRead
<1> QED
  BY <1>2, TypeInit DEF Init, IInv, PruneInv, BridgesInv, Pruned
-----------------------------------------------------------------------------
(* The loops that fill the maps. *)
LEMMA FillBrokersStep ==
  ASSUME IInv, FillBrokers
  PROVE  IInv'
<1> USE DEF IInv, Filling, Pruned
<1>0. /\ pc = "brokers" /\ position \in Nat /\ file \in File /\ file' = file
      /\ UNCHANGED <<mqtt2ecal_topics, ecal2mqtt_topics, found, list_of_bridges>>
      /\ list_of_bridges = <<>>
      /\ Len(file.brokers) \in Nat /\ DOMAIN file.brokers = 1 .. Len(file.brokers)
  BY FileSections DEF FillBrokers, LoopDone, TypeOK, FillInv
<1>1. CASE position < Len(file.brokers)
  <2> DEFINE value == ReadBroker(file.brokers[position + 1])
  <2>1. /\ brokers' =
             IF BrokerValid(value) THEN Insert(brokers, value) ELSE brokers
        /\ position' = position + 1 /\ pc' = pc
    BY <1>0, <1>1 DEF FillBrokers
  <2>2. /\ position + 1 \in DOMAIN file.brokers
        /\ position + 1 <= Len(file.brokers) /\ position + 1 \in Nat
    BY <1>0, <1>1
  <2>3. /\ BrokerValues[position + 1] = value
        /\ position + 1 \in BrokerGood <=> BrokerValid(value)
    BY <2>2 DEF BrokerValues, BrokerGood
  <2>4. BrokersRead(position)'
    <3>1. Holds(brokers, BrokerValues, BrokerGood, position)
      BY <1>0 DEF FillInv, BrokersRead
    <3>2. BrokerGood \subseteq Nat
      BY <1>0, FileSections
    <3>3. Holds(brokers', BrokerValues, BrokerGood, position + 1)
      <4> HIDE DEF value
      <4> QED
        BY <1>0, <2>1, <2>3, <3>1, <3>2, InsertHolds
    <3> QED
      BY <1>0, <2>1, <3>3 DEF BrokersRead, BrokerValues, BrokerGood
  <2>5. TypeOK'
    BY <1>0, <2>1, <2>2, <2>4 DEF TypeOK, BrokersRead, Holds, Named
  <2>6. FillInv'
    BY <1>0, <2>1, <2>2, <2>4
       DEF FillInv, BrokersRead, MqttRead, EcalRead, BrokerValues, BrokerGood,
           MqttValues, MqttGood, EcalValues, EcalGood
  <2>7. PruneInv' /\ BridgesInv'
    BY <1>0, <2>1 DEF PruneInv, BridgesInv
  <2> QED
    BY <2>5, <2>6, <2>7
<1>2. CASE ~(position < Len(file.brokers))
  <2>1. /\ position = Len(file.brokers) /\ pc' = "mqtt2ecal" /\ position' = 0
        /\ brokers' = brokers
    BY <1>0, <1>2 DEF FillBrokers, LoopDone
  <2>2. TypeOK'
    BY <1>0, <2>1 DEF TypeOK
  <2>3. FillInv'
    BY <1>0, <2>1, FileSections
       DEF FillInv, BrokersRead, MqttRead, EcalRead, BrokerValues, BrokerGood,
           MqttValues, MqttGood, EcalValues, EcalGood
  <2>4. PruneInv' /\ BridgesInv'
    BY <2>1 DEF PruneInv, BridgesInv
  <2> QED
    BY <2>2, <2>3, <2>4
<1> QED
  BY <1>1, <1>2

LEMMA FillMqtt2EcalStep ==
  ASSUME IInv, FillMqtt2Ecal
  PROVE  IInv'
<1> USE DEF IInv, Filling, Pruned
<1>0. /\ pc = "mqtt2ecal" /\ position \in Nat /\ file \in File /\ file' = file
      /\ UNCHANGED <<brokers, ecal2mqtt_topics, found, list_of_bridges>>
      /\ list_of_bridges = <<>>
      /\ Len(file.mqtt2ecal) \in Nat /\ DOMAIN file.mqtt2ecal = 1 .. Len(file.mqtt2ecal)
  BY FileSections DEF FillMqtt2Ecal, LoopDone, TypeOK, FillInv
<1>1. CASE position < Len(file.mqtt2ecal)
  <2> DEFINE value == ReadMqttTopic(file.mqtt2ecal[position + 1])
  <2>1. /\ mqtt2ecal_topics' =
             IF MqttTopicValid(value) THEN Insert(mqtt2ecal_topics, value) ELSE mqtt2ecal_topics
        /\ position' = position + 1 /\ pc' = pc
    BY <1>0, <1>1 DEF FillMqtt2Ecal
  <2>2. /\ position + 1 \in DOMAIN file.mqtt2ecal
        /\ position + 1 <= Len(file.mqtt2ecal) /\ position + 1 \in Nat
    BY <1>0, <1>1
  <2>3. /\ MqttValues[position + 1] = value
        /\ position + 1 \in MqttGood <=> MqttTopicValid(value)
    BY <2>2 DEF MqttValues, MqttGood
  <2>4. MqttRead(position)'
    <3>1. Holds(mqtt2ecal_topics, MqttValues, MqttGood, position)
      BY <1>0 DEF FillInv, MqttRead
    <3>2. MqttGood \subseteq Nat
      BY <1>0, FileSections
    <3>3. Holds(mqtt2ecal_topics', MqttValues, MqttGood, position + 1)
      <4> HIDE DEF value
      <4> QED
        BY <1>0, <2>1, <2>3, <3>1, <3>2, InsertHolds
    <3> QED
      BY <1>0, <2>1, <3>3 DEF MqttRead, MqttValues, MqttGood
  <2>5. TypeOK'
    BY <1>0, <2>1, <2>2, <2>4 DEF TypeOK, MqttRead, Holds, Named
  <2>6. FillInv'
    BY <1>0, <2>1, <2>2, <2>4
       DEF FillInv, BrokersRead, MqttRead, EcalRead, BrokerValues, BrokerGood,
           MqttValues, MqttGood, EcalValues, EcalGood
  <2>7. PruneInv' /\ BridgesInv'
    BY <1>0, <2>1 DEF PruneInv, BridgesInv
  <2> QED
    BY <2>5, <2>6, <2>7
<1>2. CASE ~(position < Len(file.mqtt2ecal))
  <2>1. /\ position = Len(file.mqtt2ecal) /\ pc' = "ecal2mqtt" /\ position' = 0
        /\ mqtt2ecal_topics' = mqtt2ecal_topics
    BY <1>0, <1>2 DEF FillMqtt2Ecal, LoopDone
  <2>2. TypeOK'
    BY <1>0, <2>1 DEF TypeOK
  <2>3. FillInv'
    BY <1>0, <2>1, FileSections
       DEF FillInv, BrokersRead, MqttRead, EcalRead, BrokerValues, BrokerGood,
           MqttValues, MqttGood, EcalValues, EcalGood
  <2>4. PruneInv' /\ BridgesInv'
    BY <2>1 DEF PruneInv, BridgesInv
  <2> QED
    BY <2>2, <2>3, <2>4
<1> QED
  BY <1>1, <1>2

LEMMA FillEcal2MqttStep ==
  ASSUME IInv, FillEcal2Mqtt
  PROVE  IInv'
<1> USE DEF IInv, Filling, Pruned
<1>0. /\ pc = "ecal2mqtt" /\ position \in Nat /\ file \in File /\ file' = file
      /\ UNCHANGED <<brokers, mqtt2ecal_topics, found, list_of_bridges>>
      /\ list_of_bridges = <<>>
      /\ Len(file.ecal2mqtt) \in Nat /\ DOMAIN file.ecal2mqtt = 1 .. Len(file.ecal2mqtt)
  BY FileSections DEF FillEcal2Mqtt, LoopDone, TypeOK, FillInv
<1>1. CASE position < Len(file.ecal2mqtt)
  <2> DEFINE value == ReadEcalTopic(file.ecal2mqtt[position + 1])
  <2>1. /\ ecal2mqtt_topics' =
             IF EcalTopicValid(value) THEN Insert(ecal2mqtt_topics, value) ELSE ecal2mqtt_topics
        /\ position' = position + 1 /\ pc' = pc
    BY <1>0, <1>1 DEF FillEcal2Mqtt
  <2>2. /\ position + 1 \in DOMAIN file.ecal2mqtt
        /\ position + 1 <= Len(file.ecal2mqtt) /\ position + 1 \in Nat
    BY <1>0, <1>1
  <2>3. /\ EcalValues[position + 1] = value
        /\ position + 1 \in EcalGood <=> EcalTopicValid(value)
    BY <2>2 DEF EcalValues, EcalGood
  <2>4. EcalRead(position)'
    <3>1. Holds(ecal2mqtt_topics, EcalValues, EcalGood, position)
      BY <1>0 DEF FillInv, EcalRead
    <3>2. EcalGood \subseteq Nat
      BY <1>0, FileSections
    <3>3. Holds(ecal2mqtt_topics', EcalValues, EcalGood, position + 1)
      <4> HIDE DEF value
      <4> QED
        BY <1>0, <2>1, <2>3, <3>1, <3>2, InsertHolds
    <3> QED
      BY <1>0, <2>1, <3>3 DEF EcalRead, EcalValues, EcalGood
  <2>5. TypeOK'
    BY <1>0, <2>1, <2>2, <2>4 DEF TypeOK, EcalRead, Holds, Named
  <2>6. FillInv'
    BY <1>0, <2>1, <2>2, <2>4
       DEF FillInv, BrokersRead, MqttRead, EcalRead, BrokerValues, BrokerGood,
           MqttValues, MqttGood, EcalValues, EcalGood
  <2>7. PruneInv' /\ BridgesInv'
    BY <1>0, <2>1 DEF PruneInv, BridgesInv
  <2> QED
    BY <2>5, <2>6, <2>7
<1>2. CASE ~(position < Len(file.ecal2mqtt))
  <2>1. /\ position = Len(file.ecal2mqtt) /\ pc' = "erase_topics" /\ position' = 0
        /\ ecal2mqtt_topics' = ecal2mqtt_topics
    BY <1>0, <1>2 DEF FillEcal2Mqtt, LoopDone
  <2>2. TypeOK'
    BY <1>0, <2>1 DEF TypeOK
  <2>3. FillInv'
    BY <1>0, <2>1, FileSections
       DEF FillInv, BrokersRead, MqttRead, EcalRead, BrokerValues, BrokerGood,
           MqttValues, MqttGood, EcalValues, EcalGood
  <2>4. PruneInv' /\ BridgesInv'
    BY <2>1 DEF PruneInv, BridgesInv
  <2> QED
    BY <2>2, <2>3, <2>4
<1> QED
  BY <1>1, <1>2
-----------------------------------------------------------------------------
(* CheckYamlValidity. *)
LEMMA TopicsOfContents ==
  ASSUME NEW map, NEW names
  PROVE  Contents(TopicsOf(names, map)) = {t \in Contents(map) : t.broker_name \in names}
BY DEF Contents, TopicsOf

LEMMA EraseTopicsStep ==
  ASSUME IInv, EraseTopics
  PROVE  IInv'
<1>0. /\ pc = "erase_topics" /\ file \in File /\ file' = file /\ position = 0
      /\ UNCHANGED <<brokers, position, found, list_of_bridges>>
      /\ list_of_bridges = <<>>
      /\ pc' \in {"returned", "erase_brokers"}
  BY DEF EraseTopics, maps, IInv, FillInv, TypeOK
<1>1. /\ BrokersRead(Len(file.brokers))
      /\ Contents(brokers) = WantedBrokers
      /\ DOMAIN brokers = {BrokerValues[i].name :
                            i \in {j \in BrokerGood : j <= Len(file.brokers)}}
      /\ Named(brokers)
  BY <1>0, WantedFirsts DEF IInv, FillInv, BrokersRead, Holds
<1>2. /\ Contents(mqtt2ecal_topics) = WantedMqtt2Ecal /\ Named(mqtt2ecal_topics)
      /\ Contents(ecal2mqtt_topics) = WantedEcal2Mqtt /\ Named(ecal2mqtt_topics)
  BY <1>0, WantedFirsts DEF IInv, FillInv, MqttRead, EcalRead, Holds
<1>3. /\ WantedBrokers' = WantedBrokers
      /\ WantedMqtt2Ecal' = WantedMqtt2Ecal
      /\ WantedEcal2Mqtt' = WantedEcal2Mqtt
  BY <1>0 DEF WantedBrokers, WantedMqtt2Ecal, WantedEcal2Mqtt
<1>4. DOMAIN brokers = {b.name : b \in WantedBrokers}
  <2>1. \A name \in DOMAIN brokers : brokers[name] \in WantedBrokers
    BY <1>1 DEF Contents
  <2>2. \A b \in WantedBrokers : \E name \in DOMAIN brokers : b = brokers[name]
    BY <1>1 DEF Contents
  <2>3. \A name \in DOMAIN brokers : brokers[name].name = name
    BY <1>1 DEF Named
  <2>4. ASSUME NEW name \in DOMAIN brokers
        PROVE  name \in {b.name : b \in WantedBrokers}
    BY <2>1, <2>3
  <2>5. ASSUME NEW b \in WantedBrokers
        PROVE  b.name \in DOMAIN brokers
    BY <2>2, <2>3
  <2> QED
    BY <2>4, <2>5
<1>5. \A name \in DOMAIN brokers : name \in Nat \ {0}
  BY <1>0, <1>1, BrokerNames
<1>6. CASE DOMAIN brokers = {}
  <2>1. pc' = "returned" /\ UNCHANGED maps /\ WantedBrokers = {}
    BY <1>4, <1>6 DEF EraseTopics
  <2>2. TypeOK'
    BY <1>0, <2>1 DEF IInv, TypeOK, maps
  <2> QED
    BY <1>0, <1>3, <2>1, <2>2
       DEF IInv, FillInv, Filling, PruneInv, Pruned, BridgesInv
<1>7. CASE DOMAIN brokers # {}
  <2>1. /\ pc' = "erase_brokers"
        /\ mqtt2ecal_topics' = TopicsOf(DOMAIN brokers, mqtt2ecal_topics)
        /\ ecal2mqtt_topics' = TopicsOf(DOMAIN brokers, ecal2mqtt_topics)
    BY <1>7 DEF EraseTopics
  <2>2. /\ Contents(mqtt2ecal_topics') = Asked(WantedMqtt2Ecal)
        /\ Contents(ecal2mqtt_topics') = Asked(WantedEcal2Mqtt)
    BY <1>2, <1>4, <2>1, TopicsOfContents DEF Asked
  <2>3. /\ Asked(WantedMqtt2Ecal)' = Asked(WantedMqtt2Ecal)
        /\ Asked(WantedEcal2Mqtt)' = Asked(WantedEcal2Mqtt)
        /\ Contents(mqtt2ecal_topics)' = Contents(mqtt2ecal_topics')
        /\ Contents(ecal2mqtt_topics)' = Contents(ecal2mqtt_topics')
        /\ Contents(brokers)' = Contents(brokers)
    BY <1>0, <1>3 DEF Asked, Contents
  <2>4. Named(mqtt2ecal_topics') /\ Named(ecal2mqtt_topics')
    BY <1>2, <2>1, Subnamed
  <2>5. TypeOK'
    BY <1>0, <2>1, <2>4 DEF IInv, TypeOK, Named
  <2>6. PruneInv'
    BY <1>0, <1>1, <1>3, <1>5, <2>1, <2>2, <2>3 DEF PruneInv
  <2> QED
    BY <1>0, <2>1, <2>5, <2>6 DEF IInv, FillInv, Filling, BridgesInv
<1> QED
  BY <1>6, <1>7

LEMMA EraseBrokerStep ==
  ASSUME IInv, NEW name \in DOMAIN brokers, EraseBroker(name)
  PROVE  IInv'
<1>0. /\ pc = "erase_brokers" /\ pc' = pc /\ file' = file /\ position' = name
      /\ UNCHANGED <<mqtt2ecal_topics, ecal2mqtt_topics, list_of_bridges>>
      /\ list_of_bridges = <<>> /\ name \in Nat
  BY DEF EraseBroker, IInv, PruneInv, Pruned
<1>1. brokers' = brokers \/ (brokers' = Erase(brokers, name) /\ ~Used(name))
  BY DEF EraseBroker
<1>2. /\ Named(brokers) /\ Named(brokers')
      /\ DOMAIN brokers' \subseteq DOMAIN brokers
      /\ Contents(brokers') \subseteq Contents(brokers)
  <2>1. Named(brokers)
    BY DEF IInv, TypeOK, Named
  <2>2. /\ DOMAIN brokers' \subseteq DOMAIN brokers
        /\ \A n \in DOMAIN brokers' : brokers'[n] = brokers[n]
    BY <1>1 DEF Erase
  <2> QED
    BY <2>1, <2>2 DEF Named, Contents
<1>3. /\ WantedBrokers' = WantedBrokers
      /\ WantedMqtt2Ecal' = WantedMqtt2Ecal
      /\ WantedEcal2Mqtt' = WantedEcal2Mqtt
  BY <1>0 DEF WantedBrokers, WantedMqtt2Ecal, WantedEcal2Mqtt
<1>4. ASSUME NEW b \in WantedBrokers, Needed(b)
      PROVE  b \in Contents(brokers')
  <2>1. b \in Contents(brokers)
    BY <1>0, <1>4 DEF IInv, PruneInv, Pruned
  <2>2. b.name \in DOMAIN brokers /\ brokers[b.name] = b
    BY <1>2, <2>1 DEF Contents, Named
  <2>3. Used(b.name)
    BY <1>0, <1>4 DEF Needed, OfBroker, IInv, PruneInv, Pruned, Asked, Contents, Used, UsedBy
  <2>4. b.name \in DOMAIN brokers' /\ brokers'[b.name] = b
    BY <1>1, <2>2, <2>3 DEF Erase
  <2> QED
    BY <2>4 DEF Contents
<1>5. TypeOK'
  BY <1>0, <1>2 DEF IInv, TypeOK, Named, EraseBroker
<1>6. PruneInv'
  <2>1. /\ Asked(WantedMqtt2Ecal)' = Asked(WantedMqtt2Ecal)
        /\ Asked(WantedEcal2Mqtt)' = Asked(WantedEcal2Mqtt)
        /\ Contents(mqtt2ecal_topics)' = Contents(mqtt2ecal_topics)
        /\ Contents(ecal2mqtt_topics)' = Contents(ecal2mqtt_topics)
        /\ Contents(brokers)' = Contents(brokers')
        /\ \A b : Needed(b)' <=> Needed(b)
    BY <1>0, <1>3 DEF Asked, Contents, Needed, OfBroker
  <2> QED
    BY <1>0, <1>2, <1>3, <1>4, <2>1 DEF IInv, PruneInv, Pruned
<1> QED
  BY <1>0, <1>5, <1>6 DEF IInv, FillInv, Filling, BridgesInv

(* The maps do not change between the loops. *)
LEMMA MapsKept ==
  ASSUME IInv, pc \in Pruned, pc' \in Pruned, UNCHANGED <<file, maps>>,
         position' \in Nat, found' \in BOOLEAN,
         DOMAIN list_of_bridges' = 1 .. Len(list_of_bridges'),
         pc' \in {"erase_brokers", "defaults"} => list_of_bridges' = <<>>,
         pc' = "defaults" => position' = 0
  PROVE  TypeOK' /\ FillInv' /\ PruneInv'
<1>1. TypeOK'
  BY DEF IInv, TypeOK, Pruned, maps
<1>2. FillInv'
  BY DEF FillInv, Filling, Pruned
<1>3. PruneInv'
  <2>1. /\ WantedBrokers' = WantedBrokers
        /\ WantedMqtt2Ecal' = WantedMqtt2Ecal
        /\ WantedEcal2Mqtt' = WantedEcal2Mqtt
    BY DEF WantedBrokers, WantedMqtt2Ecal, WantedEcal2Mqtt
  <2>2. /\ Asked(WantedMqtt2Ecal)' = Asked(WantedMqtt2Ecal)
        /\ Asked(WantedEcal2Mqtt)' = Asked(WantedEcal2Mqtt)
        /\ Contents(mqtt2ecal_topics)' = Contents(mqtt2ecal_topics)
        /\ Contents(ecal2mqtt_topics)' = Contents(ecal2mqtt_topics)
        /\ Contents(brokers)' = Contents(brokers)
        /\ \A b : Needed(b)' <=> Needed(b)
    BY <2>1 DEF Asked, Contents, Needed, OfBroker, maps
  <2> QED
    BY <2>1, <2>2 DEF IInv, PruneInv, maps
<1> QED
  BY <1>1, <1>2, <1>3

LEMMA EraseBrokersDoneStep ==
  ASSUME IInv, EraseBrokersDone
  PROVE  IInv'
<1>1. /\ pc = "erase_brokers" /\ pc' = "defaults" /\ position' = 0
      /\ UNCHANGED <<file, maps, found, list_of_bridges>>
  BY DEF EraseBrokersDone, LoopDone
<1>2. list_of_bridges = <<>> /\ found \in BOOLEAN
      /\ DOMAIN list_of_bridges = 1 .. Len(list_of_bridges)
  BY <1>1 DEF IInv, PruneInv, Pruned, TypeOK
<1> QED
  BY <1>1, <1>2, MapsKept DEF IInv, Pruned, BridgesInv
-----------------------------------------------------------------------------
(* run(): the bridges. *)
LEMMA ApplyDefaultsStep ==
  ASSUME IInv, ApplyDefaults
  PROVE  IInv'
<1>1. /\ pc = "defaults" /\ pc' = "bridges" /\ position = 0
      /\ UNCHANGED <<file, position, maps, found, list_of_bridges>>
      /\ list_of_bridges = <<>>
  BY DEF ApplyDefaults, IInv, PruneInv, Pruned
<1>2. /\ position' \in Nat /\ found' \in BOOLEAN
      /\ DOMAIN list_of_bridges' = 1 .. Len(list_of_bridges')
  BY <1>1 DEF IInv, TypeOK
<1>3. TypeOK' /\ FillInv' /\ PruneInv'
  BY <1>1, <1>2, MapsKept DEF Pruned
<1>4. BridgesInv'
  <2>1. list_of_bridges' = <<>> /\ DOMAIN list_of_bridges' = {}
    BY <1>1
  <2>2. \A name \in DOMAIN brokers' : ~(name <= position')
    BY <1>1, <1>3 DEF PruneInv, Pruned
  <2>3. list_of_bridges' \in Seq(Bridges')
    BY <2>1
  <2> QED
    BY <1>1, <2>1, <2>2, <2>3 DEF BridgesInv
<1> QED
  BY <1>3, <1>4 DEF IInv

LEMMA SameBridges ==
  ASSUME UNCHANGED maps
  PROVE  Bridges' = Bridges
BY DEF maps, Bridges, BridgeOf, TopicsOf

LEMMA CreateBridgeStep ==
  ASSUME IInv, NEW name \in DOMAIN brokers, CreateBridge(name)
  PROVE  IInv'
<1>1. /\ pc = "bridges" /\ pc' = pc /\ position' = name
      /\ UNCHANGED <<file, maps, found>>
      /\ list_of_bridges' = Append(list_of_bridges, BridgeOf(name))
      /\ NextBroker(name)
  BY DEF CreateBridge, BridgeOf
<1>2. /\ list_of_bridges \in Seq(Bridges) /\ BridgeOf(name) \in Bridges
      /\ \A n \in DOMAIN brokers : n \in Nat
      /\ position \in Nat /\ found \in BOOLEAN
  BY <1>1 DEF IInv, BridgesInv, PruneInv, Pruned, TypeOK, Bridges
<1>3. /\ list_of_bridges' \in Seq(Bridges)
      /\ DOMAIN list_of_bridges' = 1 .. Len(list_of_bridges')
      /\ Len(list_of_bridges') = Len(list_of_bridges) + 1
      /\ \A i \in DOMAIN list_of_bridges :
           list_of_bridges'[i] = list_of_bridges[i] /\ i < Len(list_of_bridges) + 1
      /\ list_of_bridges'[Len(list_of_bridges) + 1] = BridgeOf(name)
      /\ DOMAIN list_of_bridges' = DOMAIN list_of_bridges \union {Len(list_of_bridges) + 1}
  BY <1>1, <1>2
<1>4. TypeOK' /\ FillInv' /\ PruneInv'
  BY <1>1, <1>2, <1>3, MapsKept DEF Pruned
<1>5. \A n \in DOMAIN brokers : n <= name <=> n <= position \/ n = name
  BY <1>1, <1>2 DEF NextBroker
<1>6. BridgeOf(name).broker = brokers[name]
  BY DEF BridgeOf
<1>7. \A n \in DOMAIN brokers : brokers[n] = brokers[name] => n = name
  BY DEF IInv, TypeOK
<1>8. ~ \E i \in DOMAIN list_of_bridges : list_of_bridges[i].broker = brokers[name]
  BY <1>1, <1>2 DEF NextBroker, IInv, BridgesInv
<1>9. \A i, j \in DOMAIN list_of_bridges' :
         list_of_bridges'[i].broker = list_of_bridges'[j].broker => i = j
  BY <1>1, <1>3, <1>6, <1>8 DEF IInv, BridgesInv
<1>10. \A n \in DOMAIN brokers :
         n <= name
           <=> \E i \in DOMAIN list_of_bridges' : list_of_bridges'[i].broker = brokers[n]
  BY <1>1, <1>3, <1>5, <1>6, <1>7 DEF IInv, BridgesInv
<1>11. BridgesInv'
  BY <1>1, <1>3, <1>9, <1>10, SameBridges DEF BridgesInv, maps
<1> QED
  BY <1>4, <1>11 DEF IInv

LEMMA BridgesDoneStep ==
  ASSUME IInv, BridgesDone
  PROVE  IInv'
<1>1. /\ pc = "bridges" /\ pc' = "supervise" /\ position' = 0
      /\ UNCHANGED <<file, maps, found, list_of_bridges>>
      /\ NoNextBroker
  BY DEF BridgesDone, LoopDone
<1>2. /\ found \in BOOLEAN
      /\ DOMAIN list_of_bridges = 1 .. Len(list_of_bridges)
  BY DEF IInv, TypeOK
<1>3. TypeOK' /\ FillInv' /\ PruneInv'
  BY <1>1, <1>2, MapsKept DEF Pruned
<1>4. BridgesInv'
  BY <1>1, SameBridges DEF IInv, BridgesInv, NoNextBroker, maps
<1> QED
  BY <1>3, <1>4 DEF IInv

LEMMA StutterStep ==
  ASSUME IInv, UNCHANGED vars
  PROVE  IInv'
BY DEF IInv, vars, maps, TypeOK, FillInv, PruneInv, BridgesInv, BrokersRead, MqttRead,
       EcalRead, BrokerValues, BrokerGood, MqttValues, MqttGood, EcalValues, EcalGood,
       Asked, Needed, WantedBrokers, WantedMqtt2Ecal, WantedEcal2Mqtt, OfBroker,
       Contents, Bridges, BridgeOf, TopicsOf

LEMMA Invariance == Spec => []IInv
<1>1. IInv /\ [Next]_vars => IInv'
  <2> SUFFICES ASSUME IInv, [Next]_vars
               PROVE  IInv'
    OBVIOUS
  <2>1. CASE FillBrokers
    BY <2>1, FillBrokersStep
  <2>2. CASE FillMqtt2Ecal
    BY <2>2, FillMqtt2EcalStep
  <2>3. CASE FillEcal2Mqtt
    BY <2>3, FillEcal2MqttStep
  <2>4. CASE EraseTopics
    BY <2>4, EraseTopicsStep
  <2>5. ASSUME NEW name \in DOMAIN brokers, EraseBroker(name)
        PROVE  IInv'
    BY <2>5, EraseBrokerStep
  <2>6. ASSUME NEW name \in DOMAIN brokers, CreateBridge(name)
        PROVE  IInv'
    BY <2>6, CreateBridgeStep
  <2>7. CASE EraseBrokersDone
    BY <2>7, EraseBrokersDoneStep
  <2>8. CASE ApplyDefaults
    BY <2>8, ApplyDefaultsStep
  <2>9. CASE BridgesDone
    BY <2>9, BridgesDoneStep
  <2>10. CASE Ended \/ UNCHANGED vars
    BY <2>10, StutterStep DEF Ended
  <2> QED
    BY <2>1, <2>2, <2>3, <2>4, <2>5, <2>6, <2>7, <2>8, <2>9, <2>10 DEF Next
<1> QED
  BY <1>1, InvInit, PTL DEF Spec
-----------------------------------------------------------------------------
(* Types, for every file: the maps stay keyed by the names of their values. *)
THEOREM TypeCorrect == Spec => []TypeOK
<1>1. IInv => TypeOK
  BY DEF IInv
<1> QED
  BY <1>1, Invariance, PTL

(* For every file, of whatever sections, the bridges get exactly the valid *)
(* routes of their brokers, each route one bridge.                         *)
THEOREM RoutesServedCorrect == Spec => []RoutesServed
<1>1. ASSUME IInv, pc = "supervise"
      PROVE  /\ \A i \in DOMAIN list_of_bridges : list_of_bridges[i].broker \in WantedBrokers
             /\ \A b \in WantedBrokers :
                  Needed(b) => \E i \in DOMAIN list_of_bridges : list_of_bridges[i].broker = b
             /\ \A i, j \in DOMAIN list_of_bridges :
                  list_of_bridges[i].broker = list_of_bridges[j].broker => i = j
             /\ \A i \in DOMAIN list_of_bridges :
                  LET broker == list_of_bridges[i].broker IN
                  /\ Contents(list_of_bridges[i].mqtt2ecal) = OfBroker(WantedMqtt2Ecal, broker)
                  /\ Contents(list_of_bridges[i].ecal2mqtt) = OfBroker(WantedEcal2Mqtt, broker)
  <2>1. /\ Contents(mqtt2ecal_topics) = Asked(WantedMqtt2Ecal)
        /\ Contents(ecal2mqtt_topics) = Asked(WantedEcal2Mqtt)
        /\ Contents(brokers) \subseteq WantedBrokers
        /\ \A b \in WantedBrokers : Needed(b) => b \in Contents(brokers)
        /\ Named(brokers)
    BY <1>1 DEF IInv, PruneInv, Pruned, TypeOK, Named
  <2>2. /\ list_of_bridges \in Seq(Bridges)
        /\ \A i, j \in DOMAIN list_of_bridges :
             list_of_bridges[i].broker = list_of_bridges[j].broker => i = j
        /\ \A name \in DOMAIN brokers :
             \E i \in DOMAIN list_of_bridges : list_of_bridges[i].broker = brokers[name]
    BY <1>1 DEF IInv, BridgesInv
  <2>3. ASSUME NEW i \in DOMAIN list_of_bridges
        PROVE  \E name \in DOMAIN brokers : list_of_bridges[i] = BridgeOf(name)
    <3>1. list_of_bridges[i] \in Bridges
      BY <2>2, <2>3
    <3> QED
      BY <3>1 DEF Bridges
  <2>4. ASSUME NEW name \in DOMAIN brokers
        PROVE  /\ BridgeOf(name).broker = brokers[name]
               /\ brokers[name] \in WantedBrokers
               /\ Contents(BridgeOf(name).mqtt2ecal)
                    = OfBroker(WantedMqtt2Ecal, brokers[name])
               /\ Contents(BridgeOf(name).ecal2mqtt)
                    = OfBroker(WantedEcal2Mqtt, brokers[name])
    <3>1. brokers[name] \in WantedBrokers /\ brokers[name].name = name
      BY <2>1, <2>4 DEF Contents, Named
    <3>2. /\ Contents(TopicsOf({name}, mqtt2ecal_topics))
               = {t \in Asked(WantedMqtt2Ecal) : t.broker_name \in {name}}
          /\ Contents(TopicsOf({name}, ecal2mqtt_topics))
               = {t \in Asked(WantedEcal2Mqtt) : t.broker_name \in {name}}
      BY <2>1, TopicsOfContents
    <3>3. /\ {t \in Asked(WantedMqtt2Ecal) : t.broker_name \in {name}}
               = OfBroker(WantedMqtt2Ecal, brokers[name])
          /\ {t \in Asked(WantedEcal2Mqtt) : t.broker_name \in {name}}
               = OfBroker(WantedEcal2Mqtt, brokers[name])
      BY <3>1 DEF Asked, OfBroker
    <3> QED
      BY <3>1, <3>2, <3>3 DEF BridgeOf
  <2>5. \A b \in WantedBrokers :
          Needed(b) => \E i \in DOMAIN list_of_bridges : list_of_bridges[i].broker = b
    BY <2>1, <2>2 DEF Contents
  <2> QED
    BY <2>2, <2>3, <2>4, <2>5
<1>2. ASSUME IInv
      PROVE  RoutesServed
  <2>1. pc = "returned" => WantedBrokers = {}
    BY <1>2 DEF IInv, FillInv
  <2> QED
    BY <1>1, <1>2, <2>1 DEF RoutesServed, Needed
<1> QED
  BY <1>2, Invariance, PTL
-----------------------------------------------------------------------------
(* What the flag that is not reset leaves of the brokers: some broker that *)
(* is used comes no later.                                                 *)
Led(name) == \E user \in DOMAIN brokers : user <= name /\ Used(user)

FoundInv ==
  /\ pc \in Filling \union {"erase_topics"} => ~found
  /\ pc = "erase_brokers" =>
       /\ found => Led(position)
       /\ \A name \in DOMAIN brokers : name <= position => Led(name)
  /\ pc \in {"defaults", "bridges", "supervise"} =>
       \A name \in DOMAIN brokers : Led(name)

(* The bridges come in the order of their brokers. *)
FirstInv ==
  (pc \in {"bridges", "supervise"} /\ list_of_bridges # <<>>)
    => \E first \in DOMAIN brokers :
         /\ list_of_bridges[1] = BridgeOf(first)
         /\ \A name \in DOMAIN brokers : first <= name

LEMMA FoundEraseBroker ==
  ASSUME IInv, FoundInv, NEW name \in DOMAIN brokers, EraseBroker(name)
  PROVE  FoundInv'
<1>1. /\ pc = "erase_brokers" /\ pc' = pc /\ position' = name
      /\ UNCHANGED <<mqtt2ecal_topics, ecal2mqtt_topics>>
      /\ NextBroker(name) /\ position \in Nat
      /\ \A n \in DOMAIN brokers : n \in Nat
  BY DEF EraseBroker, IInv, TypeOK, PruneInv, Pruned
<1>2. \A n : Used(n)' <=> Used(n)
  BY <1>1 DEF Used, UsedBy
<1>3. \A n \in DOMAIN brokers : n <= name => n <= position \/ n = name
  BY <1>1 DEF NextBroker
<1>4. CASE found \/ Used(name)
  <2>1. found' /\ brokers' = brokers
    BY <1>4 DEF EraseBroker
  <2>2. Led(name)
    <3>1. CASE Used(name)
      BY <1>1, <3>1 DEF Led
    <3>2. CASE found
      BY <1>1, <3>2 DEF FoundInv, Led, NextBroker
    <3> QED
      BY <1>4, <3>1, <3>2
  <2>3. \A n \in DOMAIN brokers : n <= name => Led(n)
    BY <1>1, <1>3, <2>2 DEF FoundInv
  <2>4. \A n : Led(n)' <=> Led(n)
    BY <1>2, <2>1 DEF Led
  <2> QED
    BY <1>1, <2>1, <2>2, <2>3, <2>4 DEF FoundInv, Filling
<1>5. CASE ~(found \/ Used(name))
  <2>1. ~found' /\ DOMAIN brokers' = DOMAIN brokers \ {name}
    BY <1>5 DEF EraseBroker, Erase
  <2>2. ASSUME NEW n \in DOMAIN brokers', n <= name
        PROVE  Led(n)'
    <3>1. n \in DOMAIN brokers /\ n <= position
      BY <1>3, <2>1, <2>2
    <3>2. PICK user \in DOMAIN brokers : user <= n /\ Used(user)
      BY <1>1, <3>1 DEF FoundInv, Led
    <3>3. user \in DOMAIN brokers' /\ Used(user)'
      BY <1>2, <1>5, <2>1, <3>2
    <3> QED
      BY <3>2, <3>3 DEF Led
  <2> QED
    BY <1>1, <2>1, <2>2 DEF FoundInv, Filling
<1> QED
  BY <1>4, <1>5

LEMMA FoundStep == IInv /\ IInv' /\ FoundInv /\ [Next]_vars => FoundInv'
<1> SUFFICES ASSUME IInv, IInv', FoundInv, [Next]_vars
             PROVE  FoundInv'
  OBVIOUS
<1>1. CASE FillBrokers \/ FillMqtt2Ecal \/ FillEcal2Mqtt
  BY <1>1 DEF FillBrokers, FillMqtt2Ecal, FillEcal2Mqtt, LoopDone, FoundInv, Filling
<1>2. CASE EraseTopics
  <2>1. /\ pc = "erase_topics" /\ pc' \in {"returned", "erase_brokers"}
        /\ found' = found /\ position' = 0
    BY <1>2 DEF EraseTopics, IInv, FillInv
  <2>2. pc' = "erase_brokers" => \A name \in DOMAIN brokers' : ~(name <= position')
    BY <2>1 DEF IInv, PruneInv, Pruned
  <2> QED
    BY <2>1, <2>2 DEF FoundInv, Filling
<1>3. ASSUME NEW name \in DOMAIN brokers, EraseBroker(name)
      PROVE  FoundInv'
  BY <1>3, FoundEraseBroker
<1>4. CASE \/ EraseBrokersDone \/ ApplyDefaults \/ BridgesDone \/ Ended \/ UNCHANGED vars
           \/ \E name \in DOMAIN brokers : CreateBridge(name)
  <2>1. UNCHANGED maps /\ found' = found
    BY <1>4 DEF EraseBrokersDone, ApplyDefaults, BridgesDone, Ended, CreateBridge, vars
  <2>2. \A n : Led(n)' <=> Led(n)
    BY <2>1 DEF Led, Used, UsedBy, maps
  <2>3. CASE EraseBrokersDone
    BY <2>1, <2>2, <2>3 DEF EraseBrokersDone, NoNextBroker, LoopDone, FoundInv, Filling, maps
  <2>4. CASE ApplyDefaults \/ BridgesDone \/ \E name \in DOMAIN brokers : CreateBridge(name)
    BY <2>1, <2>2, <2>4
       DEF ApplyDefaults, BridgesDone, LoopDone, CreateBridge, FoundInv, Filling, maps
  <2>5. CASE UNCHANGED vars
    BY <2>1, <2>2, <2>5 DEF vars, FoundInv, maps
  <2> QED
    BY <1>4, <2>3, <2>4, <2>5 DEF Ended
<1> QED
  BY <1>1, <1>2, <1>3, <1>4 DEF Next

LEMMA FirstStep == IInv /\ FirstInv /\ [Next]_vars => FirstInv'
<1> SUFFICES ASSUME IInv, FirstInv, [Next]_vars
             PROVE  FirstInv'
  OBVIOUS
<1>1. CASE \/ FillBrokers \/ FillMqtt2Ecal \/ FillEcal2Mqtt \/ EraseTopics
           \/ EraseBrokersDone \/ \E name \in DOMAIN brokers : EraseBroker(name)
  BY <1>1 DEF FillBrokers, FillMqtt2Ecal, FillEcal2Mqtt, EraseTopics, EraseBrokersDone,
              EraseBroker, LoopDone, FirstInv
<1>2. CASE ApplyDefaults
  BY <1>2 DEF ApplyDefaults, IInv, PruneInv, Pruned, FirstInv
<1>3. ASSUME NEW name \in DOMAIN brokers, CreateBridge(name)
      PROVE  FirstInv'
  <2>1. /\ pc = "bridges" /\ NextBroker(name) /\ UNCHANGED maps
        /\ list_of_bridges' = Append(list_of_bridges, BridgeOf(name))
    BY <1>3 DEF CreateBridge, BridgeOf
  <2>2. list_of_bridges \in Seq(Bridges) /\ \A n \in DOMAIN brokers : n \in Nat
    BY <2>1 DEF IInv, BridgesInv, PruneInv, Pruned
  <2>3. \A n : BridgeOf(n)' = BridgeOf(n)
    BY <2>1 DEF maps, BridgeOf, TopicsOf
  <2>4. CASE list_of_bridges = <<>>
    <3>1. list_of_bridges'[1] = BridgeOf(name)
      BY <2>1, <2>4
    <3>2. \A n \in DOMAIN brokers : n > position
      <4>1. \A n \in DOMAIN brokers : ~(n <= position)
        BY <2>1, <2>4 DEF IInv, BridgesInv
      <4> QED
        BY <2>2, <4>1 DEF IInv, TypeOK
    <3>3. \A n \in DOMAIN brokers : name <= n
      BY <2>1, <3>2 DEF NextBroker
    <3> QED
      BY <2>1, <2>3, <3>1, <3>3 DEF FirstInv, maps
  <2>5. CASE list_of_bridges # <<>>
    <3>1. list_of_bridges'[1] = list_of_bridges[1]
      BY <2>1, <2>2, <2>5
    <3> QED
      BY <2>1, <2>3, <2>5, <3>1 DEF FirstInv, maps
  <2> QED
    BY <2>4, <2>5
<1>4. CASE BridgesDone \/ Ended \/ UNCHANGED vars
  <2>1. UNCHANGED maps /\ list_of_bridges' = list_of_bridges
        /\ (pc' \in {"bridges", "supervise"} => pc \in {"bridges", "supervise"})
    BY <1>4 DEF BridgesDone, LoopDone, Ended, vars
  <2>2. \A n : BridgeOf(n)' = BridgeOf(n)
    BY <2>1 DEF maps, BridgeOf, TopicsOf
  <2> QED
    BY <2>1, <2>2 DEF FirstInv, maps
<1> QED
  BY <1>1, <1>2, <1>3, <1>4 DEF Next

(* The list of bridges does not begin with one that has nothing to do, for *)
(* every file: the first broker in the order of names is one that is used, *)
(* although later ones need not be.                                        *)
THEOREM FirstBridgeServesCorrect == Spec => []FirstBridgeServes
<1>1. Init => FoundInv /\ FirstInv
  BY DEF Init, FoundInv, FirstInv, Filling
<1>2. ASSUME IInv, FoundInv, FirstInv
      PROVE  FirstBridgeServes
  <2> SUFFICES ASSUME pc = "supervise", list_of_bridges # <<>>
               PROVE  \/ Contents(list_of_bridges[1].mqtt2ecal) # {}
                      \/ Contents(list_of_bridges[1].ecal2mqtt) # {}
    BY DEF FirstBridgeServes
  <2>1. PICK first \in DOMAIN brokers :
               /\ list_of_bridges[1] = BridgeOf(first)
               /\ \A name \in DOMAIN brokers : first <= name
    BY <1>2 DEF FirstInv
  <2>2. PICK user \in DOMAIN brokers : user <= first /\ Used(user)
    BY <1>2 DEF FoundInv, Led
  <2>3. user = first
    <3>1. first \in Nat /\ user \in Nat
      BY <1>2 DEF IInv, PruneInv, Pruned
    <3> QED
      BY <2>1, <2>2, <3>1
  <2>4. \/ DOMAIN TopicsOf({first}, mqtt2ecal_topics) # {}
        \/ DOMAIN TopicsOf({first}, ecal2mqtt_topics) # {}
    BY <2>2, <2>3 DEF Used, UsedBy, TopicsOf
  <2>5. /\ list_of_bridges[1].mqtt2ecal = TopicsOf({first}, mqtt2ecal_topics)
        /\ list_of_bridges[1].ecal2mqtt = TopicsOf({first}, ecal2mqtt_topics)
    BY <2>1 DEF BridgeOf
  <2>6. \A map : DOMAIN map # {} => Contents(map) # {}
    BY DEF Contents
  <2> QED
    BY <2>4, <2>5, <2>6
<1>3. IInv /\ FoundInv /\ FirstInv => FirstBridgeServes
  BY <1>2
<1> QED
  BY <1>1, <1>3, FoundStep, FirstStep, Invariance, PTL DEF Spec
=============================================================================
