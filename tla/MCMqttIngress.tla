---------------------------- MODULE MCMqttIngress ----------------------------
(* MqttIngress for TLC: two routes to two eCAL topics that share a type    *)
(* topic.  The descriptor of the first one is retained, the type repeated, *)
(* and both change.                                                        *)
EXTENDS MqttIngress

MCMqtt2Ecal ==
  << [mqtt_payload_name         |-> "payload1",
      mqtt_ecal_type_descriptor |-> "descriptor1",
      mqtt_ecal_type_name       |-> "type",
      ecal_out_topic_name       |-> "out1"],
     [mqtt_payload_name         |-> "payload2",
      mqtt_ecal_type_descriptor |-> NoName,
      mqtt_ecal_type_name       |-> "type",
      ecal_out_topic_name       |-> "out2"] >>

Message(t, p) == [topic |-> t, payload |-> p]
MCMessages ==
  {Message("payload2", "a"), Message("type", "a"), Message("type", "b"),
   Message("descriptor1", "a"), Message("descriptor1", "b")}

MCRetained == {"descriptor1"}
MCRepeated == {"type"}
MChasher(p) == "hash of " \o p
MCNoHash == "no hash"
=============================================================================
