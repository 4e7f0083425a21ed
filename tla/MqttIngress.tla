----------------------------- MODULE MqttIngress -----------------------------
(***************************************************************************)
(* MQTT to eCAL: Bridge::on_message, on top of a broker connection.        *)
(*                                                                         *)
(* The connection is SessionLink, whose actions are joined here with what  *)
(* they do to the messages under way: a new session starts with none, a    *)
(* subscription brings the topic's retained message.  Peers publish what   *)
(* they like, and repeat it; a message may be lost between the broker and  *)
(* the bridge (qos 0).  The counter of on_message is in BridgeLink.        *)
(***************************************************************************)
EXTENDS Naturals, Sequences

CONSTANTS
  mqtt2ecal_topics,  \* the bridge's routes, in the order of their names
  NoName,            \* the empty string of an optional topic name
  Messages,          \* what peers may publish: records of topic and payload
  NoPayload,
  Retained,          \* the topics they publish with the retain flag
  Repeated,          \* the topics on which a bridge repeats itself
  hasher(_),
  NoHash,            \* a topic without entry in from_mqtt_..._hash
  MaxInFlight        \* bound: published messages on their way to the bridge

Route        == DOMAIN mqtt2ecal_topics
MetadataKind == {"descriptor", "type"}
Kind         == MetadataKind \union {"payload"}

TopicName(i, kind) ==
  CASE kind = "descriptor" -> mqtt2ecal_topics[i].mqtt_ecal_type_descriptor
    [] kind = "type"       -> mqtt2ecal_topics[i].mqtt_ecal_type_name
    [] kind = "payload"    -> mqtt2ecal_topics[i].mqtt_payload_name

Topics    == {TopicName(i, kind) : i \in Route, kind \in Kind} \ {NoName}
Publisher == {mqtt2ecal_topics[i].ecal_out_topic_name : i \in Route}
Payload   == {m.payload : m \in Messages}
Hash      == {hasher(p) : p \in Payload}
Blank     == [topic |-> NoName, payload |-> NoPayload]

ASSUME ConstantsAssumption ==
  /\ mqtt2ecal_topics \in Seq([mqtt_payload_name : STRING,
                               mqtt_ecal_type_descriptor : STRING,
                               mqtt_ecal_type_name : STRING,
                               ecal_out_topic_name : STRING])
  /\ Messages \subseteq [topic : Topics, payload : Payload]
  /\ NoPayload \notin Payload
  /\ NoHash \notin Hash
  /\ Retained \subseteq Topics
  /\ Repeated \subseteq Topics
  /\ MaxInFlight \in Nat

VARIABLES
  is_initialized, is_connected_to_mqtt_broker, link, subscribed, greeting,
  content,         \* external: what the broker last got on each topic
  inbox,           \* external: the session's messages for on_message
  from_mqtt_hash,  \* from_mqtt_desc_hash and from_mqtt_type_hash
  shown            \* per eCAL publisher: its description and type name, and
                   \* what it sent last, each with the topic it came on

sessionVars == <<is_initialized, is_connected_to_mqtt_broker, link, subscribed,
                 greeting>>
routeVars   == <<from_mqtt_hash, shown>>
vars        == <<sessionVars, content, inbox, routeVars>>

Session == INSTANCE SessionLink

TypeOK ==
  /\ is_initialized \in BOOLEAN
  /\ is_connected_to_mqtt_broker \in BOOLEAN
  /\ link \in {"down", "connecting", "up", "lost"}
  /\ subscribed \subseteq Topics
  /\ greeting \in BOOLEAN
  /\ content \in [Topics -> Payload \union {NoPayload}]
  /\ inbox \in Seq([topic : Topics, payload : Payload])
  /\ from_mqtt_hash \in [MetadataKind -> [Topics -> Hash \union {NoHash}]]
  /\ shown \in [Publisher -> [Kind -> [topic : Topics, payload : Payload]
                                        \union {Blank}]]

Init ==
  /\ Session!Init
  /\ content = [t \in Topics |-> NoPayload]
  /\ inbox = <<>>
  /\ from_mqtt_hash = [k \in MetadataKind |-> [t \in Topics |-> NoHash]]
  /\ shown = [p \in Publisher |-> [k \in Kind |-> Blank]]
-----------------------------------------------------------------------------
Routing == is_initialized /\ is_connected_to_mqtt_broker

(* The role of a topic in a route that matches it: the else-if chain. *)
Role(i, topic) ==
  IF topic = TopicName(i, "descriptor") THEN "descriptor"
  ELSE IF topic = TopicName(i, "type") THEN "type" ELSE "payload"

Matches(topic) ==
  {i \in Route : \E kind \in Kind : topic = TopicName(i, kind)}

(* current_topic: the last route that matched, in whatever role.           *)
(* Mutant: the last route, matched or not.                                 *)
CurrentRouteLast(topic) == Len(mqtt2ecal_topics)

CurrentRoute(topic) ==
  CHOOSE i \in Matches(topic) : \A j \in Matches(topic) : j <= i

Found(kind, topic) == \E i \in Matches(topic) : Role(i, topic) = kind

(* found_descriptor is asked before found_type, and that before found_payload. *)
Purpose(topic) ==
  IF Found("descriptor", topic) THEN "descriptor"
  ELSE IF Found("type", topic) THEN "type" ELSE "payload"

PublisherOf(topic) == mqtt2ecal_topics[CurrentRoute(topic)].ecal_out_topic_name

(* SetDescription, SetTypeName or Send. *)
Show(m) == shown' = [shown EXCEPT ![PublisherOf(m.topic)][Purpose(m.topic)] = m]

(* Mutant: a topic with an entry is taken for known, whatever its hash. *)
KnownAny(m) == from_mqtt_hash[Purpose(m.topic)][m.topic] # NoHash

Known(m) == from_mqtt_hash[Purpose(m.topic)][m.topic] = hasher(m.payload)

(* Mutant: the payload is remembered instead of its hash. *)
RememberPayload(m) ==
  from_mqtt_hash' =
    [from_mqtt_hash EXCEPT ![Purpose(m.topic)][m.topic] = m.payload]

Remember(m) ==
  from_mqtt_hash' =
    [from_mqtt_hash EXCEPT ![Purpose(m.topic)][m.topic] = hasher(m.payload)]

RouteMetadata(m) ==
  /\ Purpose(m.topic) \in MetadataKind
  /\ \/ Known(m) /\ UNCHANGED routeVars
     \/ ~Known(m) /\ Remember(m) /\ Show(m)

RoutePayload(m) ==
  /\ Purpose(m.topic) = "payload"
  /\ Show(m)
  /\ UNCHANGED from_mqtt_hash

(* Mutant: the hash is remembered before the gate is asked. *)
on_messageHashFirst ==
  /\ link = "up" /\ ~greeting /\ inbox # <<>>
  /\ inbox' = Tail(inbox)
  /\ \/ ~Routing /\ Purpose(Head(inbox).topic) \in MetadataKind
        /\ Remember(Head(inbox)) /\ UNCHANGED shown
     \/ Routing /\ (RouteMetadata(Head(inbox)) \/ RoutePayload(Head(inbox)))
  /\ UNCHANGED <<sessionVars, content>>

(* Mutant: messages are handled while on_connect still subscribes. *)
on_messageGreeting ==
  /\ link = "up" /\ inbox # <<>>
  /\ inbox' = Tail(inbox)
  /\ \/ ~Routing /\ UNCHANGED routeVars
     \/ Routing /\ (RouteMetadata(Head(inbox)) \/ RoutePayload(Head(inbox)))
  /\ UNCHANGED <<sessionVars, content>>

(* The handler runs on the network thread, as on_connect does, and nobody  *)
(* else uses what it writes: it is one step.                               *)
on_message ==
  /\ link = "up" /\ ~greeting /\ inbox # <<>>
  /\ inbox' = Tail(inbox)
  /\ \/ ~Routing /\ UNCHANGED routeVars
     \/ Routing /\ (RouteMetadata(Head(inbox)) \/ RoutePayload(Head(inbox)))
  /\ UNCHANGED <<sessionVars, content>>
-----------------------------------------------------------------------------
(* The session, and what becomes of its messages. *)
SessionEnds ==
  /\ Session!Open \/ Session!Lose
  /\ inbox' = <<>>
  /\ UNCHANGED <<content, routeVars>>

Subscribes(t) ==
  /\ Session!Subscribe(t)
  /\ inbox' = IF t \in Retained \ subscribed /\ content[t] # NoPayload
              THEN Append(inbox, [topic |-> t, payload |-> content[t]])
              ELSE inbox
  /\ UNCHANGED <<content, routeVars>>

Initialize ==
  /\ Session!Initialize
  /\ UNCHANGED <<content, inbox, routeVars>>

Greeting ==
  /\ Session!Raise \/ Session!GiveUp
  /\ UNCHANGED <<content, inbox, routeVars>>

SessionChanges ==
  /\ Session!Greet \/ Session!Lower
  /\ UNCHANGED <<content, inbox, routeVars>>
-----------------------------------------------------------------------------
(* A peer publishes: the message reaches the bridge, or only the broker. *)
PublishDelivered(m) ==
  /\ content' = [content EXCEPT ![m.topic] = m.payload]
  /\ link = "up"
  /\ m.topic \in subscribed
  /\ Len(inbox) < MaxInFlight
  /\ inbox' = Append(inbox, m)
  /\ UNCHANGED <<sessionVars, routeVars>>

PublishLost(m) ==
  /\ content' = [content EXCEPT ![m.topic] = m.payload]
  /\ UNCHANGED <<sessionVars, inbox, routeVars>>

(* External: a peer that is a bridge repeats descriptors and types.        *)
RepeatDelivered(t) ==
  \E m \in Messages : m.topic = t /\ m.payload = content[t] /\ PublishDelivered(m)

Next ==
  \/ on_message
  \/ Initialize \/ SessionEnds \/ SessionChanges \/ Greeting
  \/ \E t \in Topics : Subscribes(t)
  \/ \E m \in Messages : PublishDelivered(m) \/ PublishLost(m)

(* The network thread is scheduled: on_connect comes to an end, and        *)
(* messages are handled.  Not every repetition on a topic is lost.         *)
Fairness ==
  /\ WF_vars(on_message)
  /\ WF_vars(Greeting \/ \E t \in Topics : Subscribes(t))
  /\ \A t \in Repeated : SF_vars(RepeatDelivered(t))

Spec     == Init /\ [][Next]_vars
FairSpec == Spec /\ Fairness
-----------------------------------------------------------------------------
Unambiguous(topic) ==
  \A i, j \in Matches(topic) : Role(i, topic) = Role(j, topic)

SoleSource(topic) ==
  \A t \in Topics :
    (PublisherOf(t) = PublisherOf(topic) /\ Purpose(t) = Purpose(topic))
      => t = topic

(* What a publisher shows as description, type name or payload came on a   *)
(* topic that one of its own routes names for that purpose: the last route *)
(* to match and the first flag to be asked belong together, unless routes  *)
(* of the bridge use the topic for different purposes (Bridge.cpp 586-651).*)
OwnContent ==
  \A p \in Publisher, kind \in Kind :
    LET m == shown[p][kind] IN
    (m # Blank /\ Unambiguous(m.topic))
      => \E i \in Route : /\ mqtt2ecal_topics[i].ecal_out_topic_name = p
                         /\ TopicName(i, kind) = m.topic

(* A hash is in the table only if the publisher shows what was hashed:     *)
(* whenever the table lets on_message skip an update, across reconnections *)
(* as well, the update had been made (Bridge.cpp 615-641).                 *)
CacheHonest ==
  \A t \in Topics : LET kind == Purpose(t) IN
    (kind \in MetadataKind /\ SoleSource(t) /\ from_mqtt_hash[kind][t] # NoHash)
      => LET m == shown[PublisherOf(t)][kind] IN
           m.topic = t /\ hasher(m.payload) = from_mqtt_hash[kind][t]

ShowsContent(t, p) ==
  LET m == shown[PublisherOf(t)][Purpose(t)] IN
  m.topic = t /\ hasher(m.payload) = hasher(p)

(* A message is skipped only if its content is on the publisher already:   *)
(* whatever was handled, lost or hashed before, in this session or an      *)
(* earlier one, the publisher shows what on_message last took with the     *)
(* gate open, up to a collision of hashes (Bridge.cpp 580-651).            *)
HandledShown ==
  [][\A m \in Messages :
       (/\ link = "up" /\ link' = "up"
        /\ inbox # <<>> /\ inbox' = Tail(inbox) /\ Head(inbox) = m
        /\ Routing /\ SoleSource(m.topic))
         => ShowsContent(m.topic, m.payload)']_vars

Serving(t) ==
  Routing /\ link = "up" /\ ~greeting /\ t \in subscribed

(* A peer that repeats itself is believed in the end: from some time on    *)
(* its last word is what the publisher shows, up to a collision of hashes. *)
(* Neither losses, nor older contents under way, nor the table keep it     *)
(* away, not even if it is a return to what was shown long before          *)
(* (Bridge.cpp 578-652).                                                   *)
CatchesUp ==
  \A m \in Messages :
    (m.topic \in Repeated /\ SoleSource(m.topic))
      => (<>[](Serving(m.topic) /\ content[m.topic] = m.payload)
            => <>[]ShowsContent(m.topic, m.payload))

(* What comes while on_connect still subscribes to other topics, such as a *)
(* retained message, which comes once in a session, waits until the flag   *)
(* is up.  Once the bridge is initialised it is shown, unless the session  *)
(* breaks or on_connect gives up (Bridge.cpp 580-583, 664-711).            *)
EarlyMessagesShown ==
  \A m \in Messages :
    SoleSource(m.topic)
      => ((/\ is_initialized /\ link = "up" /\ greeting
           /\ \E i \in DOMAIN inbox : inbox[i] = m)
            ~> \/ ShowsContent(m.topic, m.payload)
               \/ link # "up"
               \/ ~greeting /\ ~is_connected_to_mqtt_broker)
=============================================================================
