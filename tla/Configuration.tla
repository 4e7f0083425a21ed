---------------------------- MODULE Configuration ----------------------------
(***************************************************************************)
(* From the YAML file to the bridges: run() of MqttEcalBridge.cpp reads    *)
(* the sections of the file into three std::maps, checks and prunes them   *)
(* (CheckYamlValidity), and constructs one Bridge per broker with the      *)
(* topics of that broker.                                                  *)
(*                                                                         *)
(* A string is its rank in the order of strings, so that a std::map is a   *)
(* function whose domain is iterated in increasing order; Empty is the     *)
(* empty string.  A section of the file is a record of the keys that it    *)
(* sets; a string that is set to "null" counts as not set.                 *)
(***************************************************************************)
EXTENDS Integers, Sequences, FiniteSets

CONSTANTS
  File       \* the files considered: records [brokers, mqtt2ecal, ecal2mqtt]
             \* of sequences of sections

Empty == 0

(* Whatever the file says, its sections have names; a key that is the      *)
(* empty string is left out, for an iterator has no place before it.       *)
ASSUME FileAssumption ==
  \A f \in File :
    \A sections \in {f.brokers, f.mqtt2ecal, f.ecal2mqtt} :
      /\ Len(sections) \in Nat
      /\ DOMAIN sections = 1 .. Len(sections)
      /\ \A i \in DOMAIN sections :
           /\ "name" \in DOMAIN sections[i]
           /\ sections[i].name \in Nat \ {Empty}

(* The constructors of Broker, MqttTopic and EcalTopic: what a section     *)
(* need not set.                                                           *)
BrokerDefaults ==
  [host |-> Empty, default_qos |-> 0, default_retain_flag |-> FALSE,
   ssl_use_psk |-> FALSE, psk_id |-> Empty, psk |-> Empty, tls_version |-> "tlsv1.2"]
MqttTopicDefaults ==
  [broker_name |-> Empty, mqtt_payload_name |-> Empty, ecal_out_topic_name |-> Empty,
   qos |-> -1]
EcalTopicDefaults ==
  [broker_name |-> Empty, ecal_topic_name |-> Empty, mqtt_out_payload_name |-> Empty,
   retain_flag |-> FALSE, is_set_retain_flag |-> FALSE, qos |-> -1]

(* operator>> of the three classes: the keys that are set, over the defaults. *)
Over(section, defaults) ==
  [key \in DOMAIN section \union DOMAIN defaults |->
     IF key \in DOMAIN section THEN section[key] ELSE defaults[key]]

ReadBroker(section)    == Over(section, BrokerDefaults)
ReadMqttTopic(section) == Over(section, MqttTopicDefaults)
ReadEcalTopic(section) ==
  Over(section, [EcalTopicDefaults EXCEPT
                  !.is_set_retain_flag = "retain_flag" \in DOMAIN section])

(* The range checks of qos ask for a number that is below 0 and above 2. *)
QosRejected(qos) == qos < 0 /\ qos > 2

BrokerValid(broker) ==
  /\ broker.host # Empty
  /\ broker.ssl_use_psk => broker.psk_id # Empty /\ broker.psk # Empty
  /\ ~QosRejected(broker.default_qos)
  /\ broker.tls_version \in {"tlsv1.2", "tlsv1.1", "tlsv1"}

MqttTopicValid(topic) ==
  /\ topic.broker_name # Empty
  /\ topic.mqtt_payload_name # Empty
  /\ topic.ecal_out_topic_name # Empty
  /\ ~QosRejected(topic.qos)

EcalTopicValid(topic) ==
  /\ topic.broker_name # Empty
  /\ topic.ecal_topic_name # Empty
  /\ topic.mqtt_out_payload_name # Empty
  /\ ~QosRejected(topic.qos)

(* std::map *)
EmptyMap == <<>>

(* Mutant: values are numbered instead of kept by name. *)
InsertNumbered(map, value) ==
  [n \in DOMAIN map \union {Cardinality(DOMAIN map) + 1} |->
     IF n \in DOMAIN map THEN map[n] ELSE value]

Insert(map, value) ==
  [n \in DOMAIN map \union {value.name} |-> IF n \in DOMAIN map THEN map[n] ELSE value]
TopicsOf(names, map) ==
  [t \in {n \in DOMAIN map : map[n].broker_name \in names} |-> map[t]]
Erase(map, name) == [n \in DOMAIN map \ {name} |-> map[n]]
-----------------------------------------------------------------------------
VARIABLES
  file,
  pc,                \* the loop of run() or CheckYamlValidity that runs
  position,          \* its iterator: section read last, or map key visited last
  brokers,
  mqtt2ecal_topics,
  ecal2mqtt_topics,
  found,             \* the flag of the loop that throws out unused brokers
  list_of_bridges

maps == <<brokers, mqtt2ecal_topics, ecal2mqtt_topics>>
vars == <<file, pc, position, maps, found, list_of_bridges>>

Init ==
  /\ file \in File
  /\ pc = "brokers"
  /\ position = 0
  /\ brokers = EmptyMap
  /\ mqtt2ecal_topics = EmptyMap
  /\ ecal2mqtt_topics = EmptyMap
  /\ found = FALSE
  /\ list_of_bridges = <<>>

(* A loop that has no element left hands over to the next one. *)
LoopDone(loop, next) == pc = loop /\ pc' = next /\ position' = 0

(* Fill the maps with the valid sections; insert() keeps what is there. *)
FillBrokers ==
  /\ UNCHANGED <<file, mqtt2ecal_topics, ecal2mqtt_topics, found, list_of_bridges>>
  /\ \/ /\ pc = "brokers" /\ position < Len(file.brokers)
        /\ LET broker == ReadBroker(file.brokers[position + 1])
           IN  brokers' = IF BrokerValid(broker) THEN Insert(brokers, broker) ELSE brokers
        /\ position' = position + 1
        /\ UNCHANGED pc
     \/ /\ position = Len(file.brokers)
        /\ LoopDone("brokers", "mqtt2ecal")
        /\ UNCHANGED brokers

FillMqtt2Ecal ==
  /\ UNCHANGED <<file, brokers, ecal2mqtt_topics, found, list_of_bridges>>
  /\ \/ /\ pc = "mqtt2ecal" /\ position < Len(file.mqtt2ecal)
        /\ LET topic == ReadMqttTopic(file.mqtt2ecal[position + 1])
           IN  mqtt2ecal_topics' = IF MqttTopicValid(topic)
                                     THEN Insert(mqtt2ecal_topics, topic)
                                     ELSE mqtt2ecal_topics
        /\ position' = position + 1
        /\ UNCHANGED pc
     \/ /\ position = Len(file.mqtt2ecal)
        /\ LoopDone("mqtt2ecal", "ecal2mqtt")
        /\ UNCHANGED mqtt2ecal_topics

FillEcal2Mqtt ==
  /\ UNCHANGED <<file, brokers, mqtt2ecal_topics, found, list_of_bridges>>
  /\ \/ /\ pc = "ecal2mqtt" /\ position < Len(file.ecal2mqtt)
        /\ LET topic == ReadEcalTopic(file.ecal2mqtt[position + 1])
           IN  ecal2mqtt_topics' = IF EcalTopicValid(topic)
                                     THEN Insert(ecal2mqtt_topics, topic)
                                     ELSE ecal2mqtt_topics
        /\ position' = position + 1
        /\ UNCHANGED pc
     \/ /\ position = Len(file.ecal2mqtt)
        /\ LoopDone("ecal2mqtt", "erase_topics")
        /\ UNCHANGED ecal2mqtt_topics
-----------------------------------------------------------------------------
(* CheckYamlValidity: without a valid broker run() returns.  Otherwise the *)
(* topics whose broker is not configured go, then the brokers ...          *)
EraseTopics ==
  /\ pc = "erase_topics"
  /\ \/ /\ DOMAIN brokers = {}
        /\ pc' = "returned"
        /\ UNCHANGED maps
     \/ /\ DOMAIN brokers # {}
        /\ pc' = "erase_brokers"
        /\ mqtt2ecal_topics' = TopicsOf(DOMAIN brokers, mqtt2ecal_topics)
        /\ ecal2mqtt_topics' = TopicsOf(DOMAIN brokers, ecal2mqtt_topics)
        /\ UNCHANGED brokers
  /\ UNCHANGED <<file, position, found, list_of_bridges>>

UsedBy(topics, name) == \E t \in DOMAIN topics : topics[t].broker_name = name

(* Mutant: only one of the two topic lists is searched. *)
UsedByMqtt2Ecal(name) == UsedBy(mqtt2ecal_topics, name)

Used(name) == UsedBy(mqtt2ecal_topics, name) \/ UsedBy(ecal2mqtt_topics, name)

NextBroker(name) ==
  /\ name \in DOMAIN brokers
  /\ name > position
  /\ \A other \in DOMAIN brokers : other > position => name <= other
NoNextBroker == \A name \in DOMAIN brokers : name <= position

(* Mutant: brokers that nothing uses stay. *)
EraseBrokerKeeps(name) ==
  /\ pc = "erase_brokers"
  /\ NextBroker(name)
  /\ found' = (found \/ Used(name))
  /\ position' = name
  /\ UNCHANGED <<file, pc, maps, list_of_bridges>>

(* ... that nothing uses; found is not reset from one to the next. *)
EraseBroker(name) ==
  /\ pc = "erase_brokers"
  /\ NextBroker(name)
  /\ found' = (found \/ Used(name))
  /\ brokers' = IF found' THEN brokers ELSE Erase(brokers, name)
  /\ position' = name
  /\ UNCHANGED <<file, pc, mqtt2ecal_topics, ecal2mqtt_topics, list_of_bridges>>

EraseBrokersDone ==
  /\ NoNextBroker
  /\ LoopDone("erase_brokers", "defaults")
  /\ UNCHANGED <<file, maps, found, list_of_bridges>>

(* The two loops that apply the broker's default qos and retain flag: they *)
(* iterate over copies and assign to these, so the maps stay as they are.  *)
ApplyDefaults ==
  /\ pc = "defaults"
  /\ pc' = "bridges"
  /\ UNCHANGED <<file, position, maps, found, list_of_bridges>>
-----------------------------------------------------------------------------
(* run(): one bridge per broker, with the topics of that broker in the     *)
(* order of their names.                                                   *)
CreateBridge(name) ==
  /\ pc = "bridges"
  /\ NextBroker(name)
  /\ list_of_bridges' = Append(list_of_bridges,
       [broker    |-> brokers[name],
        mqtt2ecal |-> TopicsOf({name}, mqtt2ecal_topics),
        ecal2mqtt |-> TopicsOf({name}, ecal2mqtt_topics)])
  /\ position' = name
  /\ UNCHANGED <<file, pc, maps, found>>

BridgesDone ==
  /\ NoNextBroker
  /\ LoopDone("bridges", "supervise")
  /\ UNCHANGED <<file, maps, found, list_of_bridges>>

Ended == pc \in {"returned", "supervise"} /\ UNCHANGED vars

Next ==
  \/ FillBrokers \/ FillMqtt2Ecal \/ FillEcal2Mqtt
  \/ EraseTopics
  \/ \E name \in DOMAIN brokers : EraseBroker(name) \/ CreateBridge(name)
  \/ EraseBrokersDone \/ ApplyDefaults \/ BridgesDone
  \/ Ended

Spec == Init /\ [][Next]_vars
-----------------------------------------------------------------------------
TypeOK ==
  /\ file \in File
  /\ pc \in {"brokers", "mqtt2ecal", "ecal2mqtt", "erase_topics", "erase_brokers",
             "defaults", "bridges", "supervise", "returned"}
  /\ position \in Nat
  /\ \A name \in DOMAIN brokers : brokers[name].name = name
  /\ \A name \in DOMAIN mqtt2ecal_topics : mqtt2ecal_topics[name].name = name
  /\ \A name \in DOMAIN ecal2mqtt_topics : ecal2mqtt_topics[name].name = name
  /\ found \in BOOLEAN
  /\ DOMAIN list_of_bridges = 1 .. Len(list_of_bridges)

(* What the file asks for: of the valid sections of one name the first.    *)
Wanted(sections, Read(_), Valid(_)) ==
  LET Value(i) == Read(sections[i])
      Good(i)  == Valid(Value(i))
  IN  {Value(i) : i \in {j \in DOMAIN sections :
         Good(j) /\ \A h \in 1 .. j - 1 : Good(h) => Value(h).name # Value(j).name}}

WantedBrokers   == Wanted(file.brokers, ReadBroker, BrokerValid)
WantedMqtt2Ecal == Wanted(file.mqtt2ecal, ReadMqttTopic, MqttTopicValid)
WantedEcal2Mqtt == Wanted(file.ecal2mqtt, ReadEcalTopic, EcalTopicValid)

OfBroker(topics, broker) == {t \in topics : t.broker_name = broker.name}
Contents(map) == {map[name] : name \in DOMAIN map}

(* Every route of the file whose broker the file configures is handed to   *)
(* one bridge, the bridge of that broker, and bridges get nothing else;    *)
(* run() gives up only if no broker is valid (MqttEcalBridge.cpp 66-137,   *)
(* 223-277, 307-330).                                                      *)
RoutesServed ==
  /\ pc = "returned" => WantedBrokers = {}
  /\ pc = "supervise" =>
       /\ \A i \in DOMAIN list_of_bridges : list_of_bridges[i].broker \in WantedBrokers
       /\ \A broker \in WantedBrokers :
            LET mqtt2ecal == OfBroker(WantedMqtt2Ecal, broker)
                ecal2mqtt == OfBroker(WantedEcal2Mqtt, broker)
                bridges   == {i \in DOMAIN list_of_bridges : list_of_bridges[i].broker = broker}
            IN  /\ (mqtt2ecal # {} \/ ecal2mqtt # {}) => bridges # {}
                /\ \A i, j \in bridges : i = j
                /\ \A i \in bridges :
                     /\ Contents(list_of_bridges[i].mqtt2ecal) = mqtt2ecal
                     /\ Contents(list_of_bridges[i].ecal2mqtt) = ecal2mqtt

(* run() supervises the first bridge of the list that is initialised: it   *)
(* does not begin with a bridge without routes.  Brokers that nothing uses *)
(* and that the loop spares, found not being reset, come after one that    *)
(* has routes (MqttEcalBridge.cpp 109-136, 303-336).                       *)
FirstBridgeServes ==
  (pc = "supervise" /\ list_of_bridges # <<>>)
    => \/ Contents(list_of_bridges[1].mqtt2ecal) # {}
       \/ Contents(list_of_bridges[1].ecal2mqtt) # {}

(* A route without a qos or a retain flag of its own has its broker's      *)
(* (settings.yaml 111-113, MqttEcalBridge.cpp 139-178).                    *)
DefaultsApplied ==
  \A i \in DOMAIN list_of_bridges :
    LET broker == list_of_bridges[i].broker
        mqtt2ecal == Contents(list_of_bridges[i].mqtt2ecal)
        ecal2mqtt == Contents(list_of_bridges[i].ecal2mqtt)
    IN  /\ \A t \in mqtt2ecal : t.qos = -1 => broker.default_qos = -1
        /\ \A t \in ecal2mqtt :
             /\ t.qos = -1 => broker.default_qos = -1
             /\ ~t.is_set_retain_flag => t.retain_flag = broker.default_retain_flag
=============================================================================
