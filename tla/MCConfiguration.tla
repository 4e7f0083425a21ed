--------------------------- MODULE MCConfiguration ---------------------------
(* Configuration for TLC: files of up to two sections of each kind, taken  *)
(* from sections that are valid, invalid for each reason, or share a name. *)
EXTENDS Configuration, SequencesExt

CONSTANT MaxSections

Names(a, b) == [name |-> a, broker_name |-> b]
Mqtt(a, b)  == Names(a, b) @@ [mqtt_payload_name |-> 1, ecal_out_topic_name |-> 1]
Ecal(a, b)  == Names(a, b) @@ [ecal_topic_name |-> 1, mqtt_out_payload_name |-> 1]

BrokerSections ==
  { [name |-> 1, host |-> 1],
    [name |-> 1, host |-> 2, default_qos |-> 3],
    [name |-> 2, host |-> 1, ssl_use_psk |-> TRUE, psk_id |-> 1, psk |-> 1,
     default_qos |-> 1, default_retain_flag |-> TRUE],
    [name |-> 2],
    [name |-> 2, host |-> 1, ssl_use_psk |-> TRUE, psk |-> 1],
    [name |-> 2, host |-> 1, tls_version |-> "tlsv1.0"] }
MqttSections ==
  { Mqtt(1, 1), Mqtt(1, 2), Mqtt(2, 1),
    [qos |-> 2] @@ Mqtt(2, 2),
    [ecal_out_topic_name |-> Empty] @@ Mqtt(1, 1) }
EcalSections ==
  { Ecal(1, 1), Ecal(2, 2),
    [retain_flag |-> TRUE, qos |-> 1] @@ Ecal(1, 2),
    Ecal(1, Empty) }

MCFile ==
  [brokers   : BoundedSeq(BrokerSections, MaxSections),
   mqtt2ecal : BoundedSeq(MqttSections, MaxSections),
   ecal2mqtt : BoundedSeq(EcalSections, MaxSections)]
=============================================================================
