---------------------------- MODULE MCBridgeLink ----------------------------
(* BridgeLink for TLC: two routed topics, one with a descriptor topic and  *)
(* one with a type topic, and the subscriptions on_connect derives from    *)
(* them.                                                                   *)
EXTENDS BridgeLink

NoName == "none"
LOCAL Config == INSTANCE BridgeTopics

MCMqtt2Ecal ==
  << [mqtt_payload_name         |-> "payload1",
      mqtt_ecal_type_descriptor |-> "descriptor1",
      mqtt_ecal_type_name       |-> NoName],
     [mqtt_payload_name         |-> "payload2",
      mqtt_ecal_type_descriptor |-> NoName,
      mqtt_ecal_type_name       |-> "type2"] >>

MCSubscriptions == Config!OnConnectSubscriptions(MCMqtt2Ecal)
MCPayloadTopics == {"payload1", "payload2"}
=============================================================================
