-------------------------- MODULE MqttIngressProofs --------------------------
(***************************************************************************)
(* What holds of MqttIngress for every list of routes, every set of        *)
(* messages and every hash function, collisions included.                  *)
(***************************************************************************)
EXTENDS MqttIngress, ListLemmas

Message == [topic : Topics, payload : Payload]

(* The kinds a topic is found for are kinds. *)
LEMMA PurposeIsKind ==
  ASSUME NEW t
  PROVE  Purpose(t) \in Kind
BY DEF Purpose, Kind, MetadataKind

LEMMA TopicMatches ==
  ASSUME NEW t \in Topics
  PROVE  Matches(t) \in SUBSET (1 .. Len(mqtt2ecal_topics)) /\ Matches(t) # {}
<1>1. Route = 1 .. Len(mqtt2ecal_topics)
  BY ConstantsAssumption DEF Route
<1>2. PICK i \in Route, kind \in Kind : t = TopicName(i, kind)
  BY DEF Topics
<1>3. i \in Matches(t)
  BY <1>2 DEF Matches
<1> QED
  BY <1>1, <1>3 DEF Matches

(* on_message finds a route for every topic it subscribed to. *)
LEMMA CurrentRouteMatches ==
  ASSUME NEW t \in Topics
  PROVE  CurrentRoute(t) \in Matches(t)
<1>1. Len(mqtt2ecal_topics) \in Nat
  BY ConstantsAssumption
<1>2. \E i \in Matches(t) : \A j \in Matches(t) : j <= i
  BY <1>1, TopicMatches, LastExists
<1> QED
  BY <1>2 DEF CurrentRoute

LEMMA PublisherOfIsPublisher ==
  ASSUME NEW t \in Topics
  PROVE  PublisherOf(t) \in Publisher
<1>1. CurrentRoute(t) \in Route
  BY CurrentRouteMatches DEF Matches
<1> QED
  BY <1>1 DEF PublisherOf, Publisher

(* The flag that decides was raised by some route; if all routes use the   *)
(* topic for one purpose, by the one that counts.                          *)
LEMMA PurposeIsRole ==
  ASSUME NEW t \in Topics, Unambiguous(t)
  PROVE  Role(CurrentRoute(t), t) = Purpose(t)
<1> DEFINE r == CurrentRoute(t)
<1>1. r \in Matches(t)
  BY CurrentRouteMatches
<1>2. \A i \in Matches(t) : Role(i, t) = Role(r, t)
  BY <1>1 DEF Unambiguous
<1>3. \A kind : Found(kind, t) <=> Role(r, t) = kind
  BY <1>1, <1>2 DEF Found
<1>4. Role(r, t) \in {"descriptor", "type", "payload"}
  BY DEF Role
<1> HIDE DEF r
<1> QED
  BY <1>3, <1>4 DEF Purpose, r

LEMMA RoleNames ==
  ASSUME NEW t \in Topics, NEW i \in Matches(t)
  PROVE  TopicName(i, Role(i, t)) = t
<1>1. PICK kind \in Kind : t = TopicName(i, kind)
  BY DEF Matches
<1>2. CASE t = TopicName(i, "descriptor")
  BY <1>2 DEF Role
<1>3. CASE t # TopicName(i, "descriptor") /\ t = TopicName(i, "type")
  BY <1>3 DEF Role
<1>4. CASE t # TopicName(i, "descriptor") /\ t # TopicName(i, "type")
  <2>1. kind = "payload"
    BY <1>1, <1>4 DEF Kind, MetadataKind
  <2> QED
    BY <1>1, <1>4, <2>1 DEF Role
<1> QED
  BY <1>2, <1>3, <1>4
-----------------------------------------------------------------------------
(* Types.  First what the pieces of on_message do to them.                 *)
LEMMA ShowType ==
  ASSUME TypeOK, NEW m \in Message, Show(m)
  PROVE  shown' \in [Publisher -> [Kind -> Message \union {Blank}]]
<1> DEFINE p == PublisherOf(m.topic)
           k == Purpose(m.topic)
           V == Message \union {Blank}
<1>1. p \in Publisher /\ k \in Kind
  BY PublisherOfIsPublisher, PurposeIsKind DEF Message
<1>2. shown \in [Publisher -> [Kind -> V]]
  BY DEF TypeOK, Message
<1>3. shown' = [shown EXCEPT ![p][k] = m]
  BY DEF Show
<1>4. m \in V
  OBVIOUS
<1> HIDE DEF p, k, V
<1>5. shown' \in [Publisher -> [Kind -> V]]
  BY <1>1, <1>2, <1>3, <1>4
<1> QED
  BY <1>5 DEF V

LEMMA RememberType ==
  ASSUME TypeOK, NEW m \in Message, Purpose(m.topic) \in MetadataKind, Remember(m)
  PROVE  from_mqtt_hash' \in [MetadataKind -> [Topics -> Hash \union {NoHash}]]
<1> DEFINE k == Purpose(m.topic)
           h == hasher(m.payload)
           V == Hash \union {NoHash}
<1>1. h \in V /\ k \in MetadataKind /\ m.topic \in Topics
  BY DEF Message, Hash
<1>2. from_mqtt_hash \in [MetadataKind -> [Topics -> V]]
  BY DEF TypeOK
<1>3. from_mqtt_hash' = [from_mqtt_hash EXCEPT ![k][m.topic] = h]
  BY DEF Remember
<1> HIDE DEF k, h, V
<1>4. from_mqtt_hash' \in [MetadataKind -> [Topics -> V]]
  BY <1>1, <1>2, <1>3
<1> QED
  BY <1>4 DEF V

LEMMA HeadIsMessage ==
  ASSUME TypeOK, inbox # <<>>
  PROVE  Head(inbox) \in Message /\ Tail(inbox) \in Seq(Message)
<1>1. \A S, q : (q \in Seq(S) /\ q # <<>>) => Head(q) \in S /\ Tail(q) \in Seq(S)
  OBVIOUS
<1>2. inbox \in Seq(Message)
  BY DEF TypeOK, Message
<1> QED
  BY <1>1, <1>2

LEMMA TypeInit == Init => TypeOK
<1> SUFFICES ASSUME Init
             PROVE  TypeOK
  OBVIOUS
<1>1. inbox \in Seq([topic : Topics, payload : Payload])
  BY DEF Init
<1>2. /\ content \in [Topics -> Payload \union {NoPayload}]
      /\ from_mqtt_hash \in [MetadataKind -> [Topics -> Hash \union {NoHash}]]
      /\ shown \in [Publisher -> [Kind -> [topic : Topics, payload : Payload]
                                            \union {Blank}]]
  BY DEF Init
<1> QED
  BY <1>1, <1>2 DEF Init, TypeOK, Session!Init

LEMMA SessionType ==
  ASSUME TypeOK,
         \/ Session!Open \/ Session!Lose \/ Session!Initialize \/ Session!Raise
         \/ Session!GiveUp \/ Session!Greet \/ Session!Lower
         \/ \E t \in Topics : Session!Subscribe(t)
  PROVE  /\ is_initialized' \in BOOLEAN
         /\ is_connected_to_mqtt_broker' \in BOOLEAN
         /\ link' \in {"down", "connecting", "up", "lost"}
         /\ subscribed' \subseteq Topics
         /\ greeting' \in BOOLEAN
BY DEF TypeOK, Session!Open, Session!Lose, Session!Initialize, Session!Raise,
       Session!GiveUp, Session!Greet, Session!Lower, Session!Subscribe,
       Session!linkVars

LEMMA TypeStep == TypeOK /\ [Next]_vars => TypeOK'
<1> SUFFICES ASSUME TypeOK, [Next]_vars
             PROVE  TypeOK'
  OBVIOUS
<1>1. CASE on_message
  <2> DEFINE m == Head(inbox)
  <2>1. m \in Message /\ inbox' \in Seq(Message)
    BY <1>1, HeadIsMessage DEF on_message
  <2>2. UNCHANGED routeVars \/ RouteMetadata(m) \/ RoutePayload(m)
    BY <1>1 DEF on_message
  <2> HIDE DEF m
  <2>3. /\ from_mqtt_hash' \in [MetadataKind -> [Topics -> Hash \union {NoHash}]]
        /\ shown' \in [Publisher -> [Kind -> Message \union {Blank}]]
    <3>1. CASE UNCHANGED routeVars
      BY <3>1 DEF TypeOK, routeVars, Message
    <3>2. CASE Purpose(m.topic) \in MetadataKind /\ Remember(m) /\ Show(m)
      BY <2>1, <3>2, RememberType, ShowType
    <3>3. CASE Show(m) /\ UNCHANGED from_mqtt_hash
      BY <2>1, <3>3, ShowType DEF TypeOK
    <3> QED
      BY <2>2, <3>1, <3>2, <3>3 DEF RouteMetadata, RoutePayload
  <2>4. UNCHANGED <<sessionVars, content>>
    BY <1>1 DEF on_message
  <2> QED
    BY <2>1, <2>3, <2>4 DEF TypeOK, sessionVars, Message
<1>2. CASE SessionEnds
  <2>1. inbox' \in Seq([topic : Topics, payload : Payload])
    BY <1>2 DEF SessionEnds
  <2> QED
    BY <1>2, <2>1, SessionType DEF SessionEnds, TypeOK, routeVars
<1>3. CASE Initialize \/ SessionChanges \/ Greeting
  <2>1. UNCHANGED <<content, inbox, routeVars>>
    BY <1>3 DEF Initialize, SessionChanges, Greeting
  <2> QED
    BY <1>3, <2>1, SessionType
       DEF Initialize, SessionChanges, Greeting, TypeOK, routeVars
<1>4. ASSUME NEW t \in Topics, Subscribes(t)
      PROVE  TypeOK'
  <2>1. inbox' \in Seq([topic : Topics, payload : Payload])
    <3>1. CASE t \in Retained \ subscribed /\ content[t] # NoPayload
      <4>1. content[t] \in Payload
        BY <3>1 DEF TypeOK
      <4>2. [topic |-> t, payload |-> content[t]] \in [topic : Topics, payload : Payload]
        BY <4>1
      <4> QED
        BY <1>4, <3>1, <4>2 DEF Subscribes, TypeOK
    <3> QED
      BY <1>4, <3>1 DEF Subscribes, TypeOK
  <2>2. UNCHANGED <<content, routeVars>> /\ Session!Subscribe(t)
    BY <1>4 DEF Subscribes
  <2> QED
    BY <2>1, <2>2, SessionType DEF TypeOK, routeVars
<1>5. ASSUME NEW m \in Messages, PublishDelivered(m) \/ PublishLost(m)
      PROVE  TypeOK'
  <2>1. m \in [topic : Topics, payload : Payload]
    BY ConstantsAssumption
  <2>2. content' \in [Topics -> Payload \union {NoPayload}]
    BY <1>5, <2>1 DEF PublishDelivered, PublishLost, TypeOK
  <2>3. inbox' \in Seq([topic : Topics, payload : Payload])
    <3>1. inbox' = inbox \/ inbox' = Append(inbox, m)
      BY <1>5 DEF PublishDelivered, PublishLost
    <3>2. inbox \in Seq([topic : Topics, payload : Payload])
      BY DEF TypeOK
    <3>3. \A S, q, x : (q \in Seq(S) /\ x \in S) => Append(q, x) \in Seq(S)
      OBVIOUS
    <3> QED
      BY <2>1, <3>1, <3>2, <3>3
  <2>4. UNCHANGED <<sessionVars, routeVars>>
    BY <1>5 DEF PublishDelivered, PublishLost
  <2> QED
    BY <2>2, <2>3, <2>4 DEF TypeOK, sessionVars, routeVars
<1>6. CASE UNCHANGED vars
  BY <1>6 DEF vars, sessionVars, routeVars, TypeOK
<1> QED
  BY <1>1, <1>2, <1>3, <1>4, <1>5, <1>6 DEF Next

(* Every variable keeps its type: the tables hold hashes of payloads, and  *)
(* publishers get messages of topics the bridge knows.                     *)
THEOREM TypeCorrect == Spec => []TypeOK
BY TypeInit, TypeStep, PTL DEF Spec
-----------------------------------------------------------------------------
(* Only on_message touches the tables and the publishers. *)
LEMMA RouteStep ==
  ASSUME TypeOK, [Next]_vars
  PROVE  \/ UNCHANGED routeVars
         \/ \E m \in Message :
              /\ Show(m)
              /\ \/ Purpose(m.topic) \in MetadataKind /\ Remember(m)
                 \/ Purpose(m.topic) = "payload" /\ UNCHANGED from_mqtt_hash
<1>1. CASE on_message
  BY <1>1, HeadIsMessage DEF on_message, RouteMetadata, RoutePayload
<1>2. CASE \/ SessionEnds \/ Initialize \/ SessionChanges \/ Greeting
           \/ \E t \in Topics : Subscribes(t)
           \/ \E m \in Messages : PublishDelivered(m) \/ PublishLost(m)
  BY <1>2 DEF SessionEnds, Initialize, SessionChanges, Greeting, Subscribes,
              PublishDelivered, PublishLost
<1>3. CASE UNCHANGED vars
  BY <1>3 DEF vars
<1> QED
  BY <1>1, <1>2, <1>3 DEF Next

LEMMA ShowOne ==
  ASSUME TypeOK, NEW m \in Message, Show(m),
         NEW p \in Publisher, NEW kind \in Kind
  PROVE  shown'[p][kind] =
           IF p = PublisherOf(m.topic) /\ kind = Purpose(m.topic)
           THEN m ELSE shown[p][kind]
<1>1. shown \in [Publisher -> [Kind -> Message \union {Blank}]]
  BY DEF TypeOK, Message
<1> QED
  BY <1>1 DEF Show

LEMMA OwnContentStep == TypeOK /\ OwnContent /\ [Next]_vars => OwnContent'
<1> SUFFICES ASSUME TypeOK, OwnContent, [Next]_vars,
                    NEW p \in Publisher, NEW kind \in Kind,
                    shown'[p][kind] # Blank, Unambiguous(shown'[p][kind].topic)
             PROVE  \E i \in Route :
                      /\ mqtt2ecal_topics[i].ecal_out_topic_name = p
                      /\ TopicName(i, kind) = shown'[p][kind].topic
  BY DEF OwnContent
<1>1. CASE shown'[p][kind] = shown[p][kind]
  BY <1>1 DEF OwnContent
<1>2. CASE shown'[p][kind] # shown[p][kind]
  <2>1. PICK m \in Message : Show(m)
    BY <1>2, RouteStep DEF routeVars
  <2>2. p = PublisherOf(m.topic) /\ kind = Purpose(m.topic) /\ shown'[p][kind] = m
    BY <1>2, <2>1, ShowOne
  <2>3. m.topic \in Topics
    BY DEF Message
  <2> DEFINE r == CurrentRoute(m.topic)
  <2>4. r \in Matches(m.topic) /\ r \in Route
    BY <2>3, CurrentRouteMatches DEF Matches
  <2>5. TopicName(r, kind) = m.topic
    BY <2>2, <2>3, <2>4, PurposeIsRole, RoleNames
  <2>6. mqtt2ecal_topics[r].ecal_out_topic_name = p
    BY <2>2 DEF PublisherOf
  <2> HIDE DEF r
  <2> QED
    BY <2>2, <2>4, <2>5, <2>6
<1> QED
  BY <1>1, <1>2

(* A publisher's description, type name and payload come on a topic that   *)
(* one of its own routes names for it, for every list of routes: only a    *)
(* topic that routes use for different purposes is excepted.               *)
THEOREM OwnContentCorrect == Spec => []OwnContent
<1>1. Init => OwnContent
  BY DEF Init, OwnContent
<1> QED
  BY <1>1, TypeInit, TypeStep, OwnContentStep, PTL DEF Spec
-----------------------------------------------------------------------------
LEMMA RememberOne ==
  ASSUME TypeOK, NEW m \in Message, Purpose(m.topic) \in MetadataKind, Remember(m),
         NEW kind \in MetadataKind, NEW t \in Topics
  PROVE  from_mqtt_hash'[kind][t] =
           IF t = m.topic /\ kind = Purpose(m.topic)
           THEN hasher(m.payload) ELSE from_mqtt_hash[kind][t]
<1>1. from_mqtt_hash \in [MetadataKind -> [Topics -> Hash \union {NoHash}]]
  BY DEF TypeOK
<1>2. m.topic \in Topics
  BY DEF Message
<1> QED
  BY <1>1, <1>2 DEF Remember

LEMMA CacheStep == TypeOK /\ CacheHonest /\ [Next]_vars => CacheHonest'
<1> SUFFICES ASSUME TypeOK, CacheHonest, [Next]_vars, NEW t \in Topics,
                    Purpose(t) \in MetadataKind, SoleSource(t),
                    from_mqtt_hash'[Purpose(t)][t] # NoHash
             PROVE  /\ shown'[PublisherOf(t)][Purpose(t)].topic = t
                    /\ hasher(shown'[PublisherOf(t)][Purpose(t)].payload)
                         = from_mqtt_hash'[Purpose(t)][t]
  BY DEF CacheHonest
<1>1. PublisherOf(t) \in Publisher /\ Purpose(t) \in Kind
  BY PublisherOfIsPublisher, PurposeIsKind
<1>2. CASE UNCHANGED routeVars
  BY <1>2 DEF CacheHonest, routeVars
<1>3. ASSUME NEW m \in Message, Show(m), m.topic = t
      PROVE  shown'[PublisherOf(t)][Purpose(t)] = m
  BY <1>1, <1>3, ShowOne
<1>4. ASSUME NEW m \in Message, Show(m), m.topic # t
      PROVE  shown'[PublisherOf(t)][Purpose(t)] = shown[PublisherOf(t)][Purpose(t)]
  <2>1. ~(PublisherOf(t) = PublisherOf(m.topic) /\ Purpose(t) = Purpose(m.topic))
    BY <1>4 DEF SoleSource, Message
  <2> QED
    BY <1>1, <1>4, <2>1, ShowOne
<1>5. ASSUME NEW m \in Message, Show(m),
             Purpose(m.topic) \in MetadataKind, Remember(m)
      PROVE  /\ shown'[PublisherOf(t)][Purpose(t)].topic = t
             /\ hasher(shown'[PublisherOf(t)][Purpose(t)].payload)
                  = from_mqtt_hash'[Purpose(t)][t]
  <2>1. CASE m.topic = t
    BY <1>3, <1>5, <2>1, RememberOne
  <2>2. CASE m.topic # t
    <3>1. from_mqtt_hash'[Purpose(t)][t] = from_mqtt_hash[Purpose(t)][t]
      BY <1>5, <2>2, RememberOne
    <3> QED
      BY <1>4, <1>5, <2>2, <3>1 DEF CacheHonest
  <2> QED
    BY <2>1, <2>2
<1>6. ASSUME NEW m \in Message, Show(m),
             Purpose(m.topic) = "payload", UNCHANGED from_mqtt_hash
      PROVE  /\ shown'[PublisherOf(t)][Purpose(t)].topic = t
             /\ hasher(shown'[PublisherOf(t)][Purpose(t)].payload)
                  = from_mqtt_hash'[Purpose(t)][t]
  <2>1. m.topic # t
    BY <1>6 DEF MetadataKind
  <2> QED
    BY <1>4, <1>6, <2>1 DEF CacheHonest
<1> QED
  BY <1>2, <1>5, <1>6, RouteStep

(* The tables of hashes may be trusted across sessions, for every hash     *)
(* function: what they let on_message skip is on the publisher, up to a    *)
(* collision.                                                              *)
THEOREM CacheHonestCorrect == Spec => []CacheHonest
<1>1. Init => CacheHonest
  <2> SUFFICES ASSUME Init, NEW t \in Topics, Purpose(t) \in MetadataKind
               PROVE  from_mqtt_hash[Purpose(t)][t] = NoHash
    BY DEF CacheHonest
  <2> QED
    BY DEF Init
<1> QED
  BY <1>1, TypeInit, TypeStep, CacheStep, PTL DEF Spec
-----------------------------------------------------------------------------
(* Only on_message takes a message from a session that stays up. *)
LEMMA OnMessageTakes ==
  ASSUME TypeOK, [Next]_vars, link' = "up", inbox # <<>>, inbox' = Tail(inbox)
  PROVE  on_message
<1>1. Len(inbox) \in Nat /\ Len(Tail(inbox)) = Len(inbox) - 1
  BY DEF TypeOK
<1>2. inbox' # inbox
  <2> SUFFICES ASSUME inbox' = inbox
               PROVE  FALSE
    OBVIOUS
  <2>1. Len(Tail(inbox)) = Len(inbox)
    OBVIOUS
  <2> QED
    BY <1>1, <2>1
<1>3. ASSUME NEW x
      PROVE  inbox' # Append(inbox, x)
  <2> SUFFICES ASSUME inbox' = Append(inbox, x)
               PROVE  FALSE
    OBVIOUS
  <2>1. Len(Append(inbox, x)) = Len(inbox) + 1
    BY DEF TypeOK
  <2>2. Len(Tail(inbox)) = Len(Append(inbox, x))
    OBVIOUS
  <2> QED
    BY <1>1, <2>1, <2>2
<1>4. ~SessionEnds
  BY DEF SessionEnds, Session!Open, Session!Lose
<1>5. ~Initialize /\ ~SessionChanges /\ ~Greeting /\ ~UNCHANGED vars
  BY <1>2 DEF Initialize, SessionChanges, Greeting, vars
<1>6. \A t \in Topics : ~Subscribes(t)
  BY <1>2, <1>3 DEF Subscribes
<1>7. \A m \in Messages : ~PublishDelivered(m) /\ ~PublishLost(m)
  BY <1>2, <1>3 DEF PublishDelivered, PublishLost
<1> QED
  BY <1>4, <1>5, <1>6, <1>7 DEF Next

LEMMA HandledStep ==
  TypeOK /\ CacheHonest /\ [Next]_vars
    => \A m \in Messages :
         (/\ link = "up" /\ link' = "up"
          /\ inbox # <<>> /\ inbox' = Tail(inbox) /\ Head(inbox) = m
          /\ Routing /\ SoleSource(m.topic))
           => ShowsContent(m.topic, m.payload)'
<1> SUFFICES ASSUME TypeOK, CacheHonest, [Next]_vars, NEW m \in Messages,
                    link' = "up", inbox # <<>>, inbox' = Tail(inbox),
                    Head(inbox) = m, Routing, SoleSource(m.topic)
             PROVE  LET new == shown'[PublisherOf(m.topic)][Purpose(m.topic)]
                    IN  new.topic = m.topic /\ hasher(new.payload) = hasher(m.payload)
  BY DEF ShowsContent
<1>1. m \in Message /\ m.topic \in Topics
  BY ConstantsAssumption DEF Message
<1>2. PublisherOf(m.topic) \in Publisher /\ Purpose(m.topic) \in Kind
  BY <1>1, PublisherOfIsPublisher, PurposeIsKind
<1>3. RouteMetadata(m) \/ RoutePayload(m)
  BY OnMessageTakes DEF on_message
<1>4. CASE Show(m)
  BY <1>1, <1>2, <1>4, ShowOne
<1>5. CASE Purpose(m.topic) \in MetadataKind /\ Known(m) /\ UNCHANGED routeVars
  <2>1. hasher(m.payload) \in Hash
    BY <1>1 DEF Message, Hash
  <2>2. from_mqtt_hash[Purpose(m.topic)][m.topic] = hasher(m.payload)
    BY <1>5 DEF Known
  <2>3. hasher(m.payload) # NoHash
    BY <2>1, ConstantsAssumption
  <2> QED
    BY <1>1, <1>5, <2>2, <2>3 DEF CacheHonest, routeVars
<1> QED
  BY <1>3, <1>4, <1>5 DEF RouteMetadata, RoutePayload

(* After on_message took a message with the gate open the publisher shows  *)
(* it, for every list of routes and every hash function, up to a collision *)
(* of hashes.                                                              *)
THEOREM HandledShownCorrect == Spec => HandledShown
<1>1. TypeOK /\ CacheHonest /\ [Next]_vars
        => [\A m \in Messages :
              (/\ link = "up" /\ link' = "up"
               /\ inbox # <<>> /\ inbox' = Tail(inbox) /\ Head(inbox) = m
               /\ Routing /\ SoleSource(m.topic))
                => ShowsContent(m.topic, m.payload)']_vars
  BY HandledStep
<1> QED
  BY <1>1, TypeCorrect, CacheHonestCorrect, PTL DEF Spec, HandledShown
=============================================================================
