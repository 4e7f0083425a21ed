---------------------------- MODULE BridgeTopics ----------------------------
(***************************************************************************)
(* What a Bridge derives from its topic lists (mqtt2ecal_topics and        *)
(* ecal2mqtt_topics, vectors in the order of the routes' names).           *)
(* A topic is a record; NoName is the empty string of an optional field.   *)
(***************************************************************************)
EXTENDS Sequences, SequencesExt

CONSTANT NoName

Column(topics, field) == [i \in DOMAIN topics |-> topics[i][field]]
Named(names) == SelectSeq(names, LAMBDA name : name # NoName)

(* The three loops of on_connect: every payload topic, then the descriptor *)
(* topics that have a name, then the type topics that have one.            *)
OnConnectSubscriptions(mqtt2ecal_topics) ==
  Column(mqtt2ecal_topics, "mqtt_payload_name")
    \o Named(Column(mqtt2ecal_topics, "mqtt_ecal_type_descriptor"))
    \o Named(Column(mqtt2ecal_topics, "mqtt_ecal_type_name"))
=============================================================================
