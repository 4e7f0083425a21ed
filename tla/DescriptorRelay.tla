--------------------------- MODULE DescriptorRelay ---------------------------
(***************************************************************************)
(* How a Bridge relays the descriptor and the type name of eCAL topics to  *)
(* MQTT.  eCAL's registration thread runs onPublisherRegistration, which   *)
(* keeps the last values in two maps; the bridge's own thread runs         *)
(* descriptorUpdateLoop, which publishes both maps every five seconds.     *)
(* Each map has a mutex: mqtt_desc_mtx and mqtt_type_mtx.  Main constructs *)
(* and destroys the bridge around them.                                    *)
(*                                                                         *)
(* The two kinds of metadata are handled alike, so mutexes and maps are    *)
(* functions of the kind.  A registration's content is its version.        *)
(***************************************************************************)
EXTENDS Naturals, Sequences

CONSTANTS
  ecal2mqtt_topics,  \* entries [ecal, descriptor, type], by route name
  NoName,            \* an entry's field that is empty
  MaxVersion,        \* bound on the registrations of one eCAL topic
  FreshMemory        \* what an atomic<bool> may hold before its constructor

Kind  == {"descriptor", "type"}
Entry == DOMAIN ecal2mqtt_topics
EcalTopic    == {ecal2mqtt_topics[i].ecal : i \in Entry}
MetadataName == {ecal2mqtt_topics[i][k] : i \in Entry, k \in Kind} \ {NoName}
Version      == 0 .. MaxVersion

(* onPublisherRegistration: of the entries of an eCAL topic that name a    *)
(* metadata topic, the last one counts.                                    *)
Named(e, k) == {i \in Entry : ecal2mqtt_topics[i].ecal = e /\ ecal2mqtt_topics[i][k] # NoName}
Found(e, k) == Named(e, k) # {}
MqttName(e, k) ==
  ecal2mqtt_topics[CHOOSE i \in Named(e, k) : \A j \in Named(e, k) : j <= i][k]

(* initEcal: the registration callback is added for the sake of            *)
(* descriptors only.                                                       *)
CallbackNeeded == \E i \in Entry : ecal2mqtt_topics[i].descriptor # NoName

(* descriptorUpdateLoop: nothing to do without a metadata topic. *)
LoopNeeded == \E i \in Entry, k \in Kind : ecal2mqtt_topics[i][k] # NoName

ASSUME RelayAssumption ==
  /\ MaxVersion \in Nat
  /\ FreshMemory \subseteq BOOLEAN /\ FreshMemory # {}
  /\ ecal2mqtt_topics \in Seq([ecal : STRING, descriptor : STRING, type : STRING])

VARIABLES
  mainPc,                   \* where main is in constructor and destructor
  mqtt_desc_thread_active,
  is_initialized,
  is_connected_to_mqtt_broker,
  loop_running,             \* the network thread runs, so the flag may change
  callback,                 \* eCAL calls onPublisherRegistration
  last_user,                \* this bridge's eCAL::Finalize was eCAL's last
  announced,                \* external: version of each eCAL topic's registration
  regPc, regKind, sample,   \* the registration thread
  descPc, descKind, todo,   \* mqtt_desc_thread
  mutex,                    \* the holder of each kind's mutex
  mqtt_topics,              \* mqtt_descriptor_topics and mqtt_type_topics
  relayed                   \* external: version last seen on each MQTT topic

flags    == <<mqtt_desc_thread_active, is_initialized, is_connected_to_mqtt_broker>>
ecalVars == <<callback, last_user>>
mainVars == <<mainPc, loop_running, ecalVars>>
regVars  == <<regPc, regKind, sample>>
descVars == <<descPc, descKind, todo>>
dataVars == <<mutex, mqtt_topics, relayed>>
vars == <<flags, mainVars, regVars, descVars, dataVars, announced>>

TypeOK ==
  /\ mainPc \in {"active", "initialized", "connected", "init_ecal", "init_mqtt",
                 "initialize", "run", "deinitialize", "join", "disconnect",
                 "loop_stop", "finalize", "finalized", "done"}
  /\ mqtt_desc_thread_active \in BOOLEAN
  /\ is_initialized \in BOOLEAN
  /\ is_connected_to_mqtt_broker \in BOOLEAN
  /\ loop_running \in BOOLEAN
  /\ callback \in BOOLEAN
  /\ last_user \in BOOLEAN
  /\ announced \in [EcalTopic -> Version]
  /\ regPc \in {"idle", "lock", "write"}
  /\ regKind \in Kind
  /\ sample \in [topic : EcalTopic, version : Version]
  /\ regPc # "idle" => Found(sample.topic, regKind) \* no entry without a name
  /\ descPc \in {"start", "loop", "gate_initialized", "gate_connected", "lock",
                 "publish", "sleep", "exit"}
  /\ descKind \in Kind
  /\ todo \subseteq MetadataName
  /\ mutex \in [Kind -> {"free", "reg", "desc"}]
  /\ mqtt_topics \in [Kind -> [MetadataName -> Version]]
  /\ relayed \in [Kind -> [MetadataName -> Version]]

(* The thread is created before the atomics it reads are constructed. *)
Init ==
  /\ mainPc = "active"
  /\ mqtt_desc_thread_active \in FreshMemory
  /\ is_initialized \in FreshMemory
  /\ is_connected_to_mqtt_broker \in FreshMemory
  /\ loop_running = FALSE
  /\ callback = FALSE
  /\ last_user = FALSE
  /\ announced = [e \in EcalTopic |-> 0]
  /\ regPc = "idle"
  /\ regKind = "descriptor"
  /\ sample \in [topic : EcalTopic, version : {0}]
  /\ descPc = "start"
  /\ descKind = "descriptor"
  /\ todo = {}
  /\ mutex = [k \in Kind |-> "free"]
  /\ mqtt_topics = [k \in Kind |-> [n \in MetadataName |-> 0]]
  /\ relayed = [k \in Kind |-> [n \in MetadataName |-> 0]]
-----------------------------------------------------------------------------
(* Main: the member initialisers, initialize(), and the destructor. *)
ConstructActive ==
  /\ mainPc = "active"
  /\ mainPc' = "initialized"
  /\ mqtt_desc_thread_active' = TRUE
  /\ UNCHANGED <<is_initialized, is_connected_to_mqtt_broker, loop_running,
                 ecalVars, regVars, descVars, dataVars, announced>>

ConstructInitialized ==
  /\ mainPc = "initialized"
  /\ mainPc' = "connected"
  /\ is_initialized' = FALSE
  /\ UNCHANGED <<mqtt_desc_thread_active, is_connected_to_mqtt_broker,
                 loop_running, ecalVars, regVars, descVars, dataVars, announced>>

ConstructConnected ==
  /\ mainPc = "connected"
  /\ mainPc' = "init_ecal"
  /\ is_connected_to_mqtt_broker' = FALSE
  /\ UNCHANGED <<mqtt_desc_thread_active, is_initialized, loop_running,
                 ecalVars, regVars, descVars, dataVars, announced>>

initEcal ==
  /\ mainPc = "init_ecal"
  /\ \/ mainPc' = "init_mqtt" /\ callback' = CallbackNeeded
     \/ mainPc' = "run" /\ UNCHANGED callback
  /\ UNCHANGED <<flags, loop_running, last_user, regVars, descVars, dataVars, announced>>

(* initMqtt fails, or ends with the network thread started. *)
initMqtt ==
  /\ mainPc = "init_mqtt"
  /\ \/ mainPc' = "initialize" /\ loop_running' = TRUE
     \/ mainPc' = "run" /\ UNCHANGED loop_running
  /\ UNCHANGED <<flags, ecalVars, regVars, descVars, dataVars, announced>>

initialize ==
  /\ mainPc = "initialize"
  /\ mainPc' = "run"
  /\ is_initialized' = TRUE
  /\ UNCHANGED <<mqtt_desc_thread_active, is_connected_to_mqtt_broker,
                 loop_running, ecalVars, regVars, descVars, dataVars, announced>>

(* Mutant: the destructor forgets to stop the thread it joins. *)
DestroyBeginsActive ==
  /\ mainPc = "run"
  /\ mainPc' = "deinitialize"
  /\ UNCHANGED <<flags, loop_running, ecalVars, regVars, descVars, dataVars, announced>>

DestroyBegins ==
  /\ mainPc = "run"
  /\ mainPc' = "deinitialize"
  /\ mqtt_desc_thread_active' = FALSE
  /\ UNCHANGED <<is_initialized, is_connected_to_mqtt_broker, loop_running,
                 ecalVars, regVars, descVars, dataVars, announced>>

DestroyInitialized ==
  /\ mainPc = "deinitialize"
  /\ mainPc' = "join"
  /\ is_initialized' = FALSE
  /\ UNCHANGED <<mqtt_desc_thread_active, is_connected_to_mqtt_broker,
                 loop_running, ecalVars, regVars, descVars, dataVars, announced>>

(* Mutant: the thread is detached instead of joined. *)
DestroyDetach ==
  /\ mainPc = "join"
  /\ mainPc' = "disconnect"
  /\ UNCHANGED <<flags, loop_running, ecalVars, regVars, descVars, dataVars, announced>>

DestroyJoin ==
  /\ mainPc = "join"
  /\ descPc = "exit"
  /\ mainPc' = "disconnect"
  /\ UNCHANGED <<flags, loop_running, ecalVars, regVars, descVars, dataVars, announced>>

DestroyDisconnect ==
  /\ mainPc = "disconnect"
  /\ mainPc' = "loop_stop"
  /\ is_connected_to_mqtt_broker' = FALSE
  /\ UNCHANGED <<mqtt_desc_thread_active, is_initialized, loop_running,
                 ecalVars, regVars, descVars, dataVars, announced>>

DestroyLoopStop ==
  /\ mainPc = "loop_stop"
  /\ mainPc' = "finalize"
  /\ loop_running' = FALSE
  /\ UNCHANGED <<flags, ecalVars, regVars, descVars, dataVars, announced>>

(* The callback is never removed.  eCAL::Finalize ends the calls only if   *)
(* no other bridge uses eCAL any more (BridgeLifecycle counts them) ...    *)
DestroyFinalize ==
  /\ mainPc = "finalize"
  /\ mainPc' = "finalized"
  /\ last_user' \in BOOLEAN
  /\ callback' = (callback /\ ~last_user')
  /\ UNCHANGED <<flags, loop_running, regVars, descVars, dataVars, announced>>

(* ... and only then waits for one that is running.  Else the calls go on, *)
(* into maps and mutexes that are gone: in this model, as they were left.  *)
DestroyReturns ==
  /\ mainPc = "finalized"
  /\ last_user => regPc = "idle"
  /\ mainPc' = "done"
  /\ UNCHANGED <<flags, loop_running, ecalVars, regVars, descVars, dataVars, announced>>

MainStep ==
  \/ ConstructActive \/ ConstructInitialized \/ ConstructConnected
  \/ initEcal \/ initMqtt \/ initialize
  \/ DestroyInitialized \/ DestroyJoin \/ DestroyDisconnect
  \/ DestroyLoopStop \/ DestroyFinalize \/ DestroyReturns

(* on_connect and on_disconnect, as far as this thread sees them. *)
FlagChanges ==
  /\ loop_running
  /\ is_connected_to_mqtt_broker' = ~is_connected_to_mqtt_broker
  /\ UNCHANGED <<mqtt_desc_thread_active, is_initialized, mainVars, regVars,
                 descVars, dataVars, announced>>
-----------------------------------------------------------------------------
(* eCAL: a publisher appears or changes its type information. *)
Announce(e) ==
  /\ announced[e] < MaxVersion
  /\ announced' = [announced EXCEPT ![e] = @ + 1]
  /\ UNCHANGED <<flags, mainVars, regVars, descVars, dataVars>>

(* onPublisherRegistration is called with a copy of the registration of a  *)
(* topic of interest; eCAL repeats it for as long as the publisher exists. *)
Registration(e) ==
  /\ callback
  /\ regPc = "idle"
  /\ announced[e] > 0
  /\ \E k \in Kind : Found(e, k)
  /\ sample' = [topic |-> e, version |-> announced[e]]
  /\ regPc' = "lock"
  /\ regKind' = IF Found(e, "descriptor") THEN "descriptor" ELSE "type"
  /\ UNCHANGED <<flags, mainVars, descVars, dataVars, announced>>

(* Mutant: no lock_guard around the write to the map. *)
RegistrationUnlocked ==
  /\ regPc = "lock"
  /\ regPc' = "write"
  /\ UNCHANGED <<flags, mainVars, regKind, sample, descVars, dataVars, announced>>

RegistrationLock ==
  /\ regPc = "lock"
  /\ mutex[regKind] = "free"
  /\ mutex' = [mutex EXCEPT ![regKind] = "reg"]
  /\ regPc' = "write"
  /\ UNCHANGED <<flags, mainVars, regKind, sample, descVars, mqtt_topics, relayed, announced>>

(* Mutant: found_type is not asked. *)
RegistrationWriteBoth ==
  /\ regPc = "write"
  /\ mqtt_topics' = [mqtt_topics EXCEPT
       ![regKind][MqttName(sample.topic, regKind)] = sample.version]
  /\ mutex' = [mutex EXCEPT ![regKind] = "free"]
  /\ IF regKind = "descriptor"
       THEN regPc' = "lock" /\ regKind' = "type"
       ELSE regPc' = "idle" /\ UNCHANGED regKind
  /\ UNCHANGED <<flags, mainVars, sample, descVars, relayed, announced>>

RegistrationWrite ==
  /\ regPc = "write"
  /\ mqtt_topics' = [mqtt_topics EXCEPT
       ![regKind][MqttName(sample.topic, regKind)] = sample.version]
  /\ mutex' = [mutex EXCEPT ![regKind] = "free"]
  /\ IF regKind = "descriptor" /\ Found(sample.topic, "type")
       THEN regPc' = "lock" /\ regKind' = "type"
       ELSE regPc' = "idle" /\ UNCHANGED regKind
  /\ UNCHANGED <<flags, mainVars, sample, descVars, relayed, announced>>
-----------------------------------------------------------------------------
(* descriptorUpdateLoop *)
LoopBegins ==
  /\ descPc = "start"
  /\ descPc' = IF LoopNeeded THEN "loop" ELSE "exit"
  /\ UNCHANGED <<flags, mainVars, regVars, descKind, todo, dataVars, announced>>

LoopCondition ==
  /\ descPc = "loop"
  /\ descPc' = IF mqtt_desc_thread_active THEN "gate_initialized" ELSE "exit"
  /\ UNCHANGED <<flags, mainVars, regVars, descKind, todo, dataVars, announced>>

GateInitialized ==
  /\ descPc = "gate_initialized"
  /\ descPc' = IF is_initialized THEN "gate_connected" ELSE "sleep"
  /\ UNCHANGED <<flags, mainVars, regVars, descKind, todo, dataVars, announced>>

GateConnected ==
  /\ descPc = "gate_connected"
  /\ descPc' = IF is_connected_to_mqtt_broker THEN "lock" ELSE "sleep"
  /\ UNCHANGED <<flags, mainVars, regVars, descKind, todo, dataVars, announced>>

(* Mutant: a metadata topic is published only once. *)
DescLockOnce ==
  /\ descPc = "lock"
  /\ mutex[descKind] = "free"
  /\ mutex' = [mutex EXCEPT ![descKind] = "desc"]
  /\ todo' = {n \in MetadataName : mqtt_topics[descKind][n] > 0 /\ relayed[descKind][n] = 0}
  /\ descPc' = "publish"
  /\ UNCHANGED <<flags, mainVars, regVars, descKind, mqtt_topics, relayed, announced>>

DescLock ==
  /\ descPc = "lock"
  /\ mutex[descKind] = "free"
  /\ mutex' = [mutex EXCEPT ![descKind] = "desc"]
  /\ todo' = {n \in MetadataName : mqtt_topics[descKind][n] > 0}
  /\ descPc' = "publish"
  /\ UNCHANGED <<flags, mainVars, regVars, descKind, mqtt_topics, relayed, announced>>

(* publish() of one map entry, with its 10 ms sleep, under the lock. *)
PublishDelivered(n) ==
  /\ descPc = "publish"
  /\ n \in todo
  /\ todo' = todo \ {n}
  /\ relayed' = [relayed EXCEPT ![descKind][n] = mqtt_topics[descKind][n]]
  /\ UNCHANGED <<flags, mainVars, regVars, descPc, descKind, mutex, mqtt_topics, announced>>

(* Its result is ignored: the connection may be gone. *)
PublishLost(n) ==
  /\ descPc = "publish"
  /\ n \in todo
  /\ todo' = todo \ {n}
  /\ UNCHANGED <<flags, mainVars, regVars, descPc, descKind, dataVars, announced>>

(* The types follow while the descriptors' mutex is still held. *)
DescriptorsPublished ==
  /\ descPc = "publish"
  /\ todo = {}
  /\ descKind = "descriptor"
  /\ descKind' = "type"
  /\ descPc' = "lock"
  /\ UNCHANGED <<flags, mainVars, regVars, todo, dataVars, announced>>

(* Mutant: the descriptors' mutex is not released with the types'. *)
TypesPublishedKeeps ==
  /\ descPc = "publish"
  /\ todo = {}
  /\ descKind = "type"
  /\ descKind' = "descriptor"
  /\ descPc' = "sleep"
  /\ mutex' = [mutex EXCEPT !["type"] = "free"]
  /\ UNCHANGED <<flags, mainVars, regVars, todo, mqtt_topics, relayed, announced>>

TypesPublished ==
  /\ descPc = "publish"
  /\ todo = {}
  /\ descKind = "type"
  /\ descKind' = "descriptor"
  /\ descPc' = "sleep"
  /\ mutex' = [k \in Kind |-> "free"]
  /\ UNCHANGED <<flags, mainVars, regVars, todo, mqtt_topics, relayed, announced>>

(* Fifty sleeps of 100 ms, cut short when the thread is no longer active. *)
LoopSleep ==
  /\ descPc = "sleep"
  /\ descPc' = "loop"
  /\ UNCHANGED <<flags, mainVars, regVars, descKind, todo, dataVars, announced>>

DescStep ==
  \/ LoopBegins \/ LoopCondition \/ GateInitialized \/ GateConnected
  \/ \E n \in MetadataName : PublishDelivered(n) \/ PublishLost(n)
  \/ DescriptorsPublished \/ TypesPublished \/ LoopSleep

Destroyed == mainPc = "done" /\ UNCHANGED vars

Next ==
  \/ MainStep \/ DestroyBegins \/ Destroyed \/ FlagChanges
  \/ \E e \in EcalTopic : Announce(e) \/ Registration(e)
  \/ RegistrationLock \/ RegistrationWrite
  \/ DescStep \/ DescLock

(* Threads are scheduled.  A mutex reaches a waiting thread because its    *)
(* holders let go of it for longer (5 s, and eCAL's registration period)   *)
(* than a waiting thread takes to wake up.  eCAL repeats each registration,*)
(* and of the publishes that are repeated every five seconds some arrive.  *)
Fairness ==
  /\ WF_vars(MainStep)
  /\ WF_vars(DescStep)
  /\ SF_vars(DescLock)
  /\ SF_vars(RegistrationLock)
  /\ WF_vars(RegistrationWrite)
  /\ \A e \in EcalTopic : SF_vars(Registration(e))
  /\ \A n \in MetadataName, k \in Kind : SF_vars(PublishDelivered(n) /\ descKind = k)

Spec     == Init /\ [][Next]_vars
FairSpec == Spec /\ Fairness
-----------------------------------------------------------------------------
(* No map is written while mqtt_desc_thread iterates over it, although it  *)
(* sleeps and publishes between two entries (Bridge.cpp 76-87, 161-193):   *)
(* neither kind, for the descriptors' mutex outlives their loop.           *)
IterationUndisturbed ==
  [][\A k \in Kind :
       (descPc = "publish" /\ (descKind = k \/ k = "descriptor"))
         => mqtt_topics'[k] = mqtt_topics[k]]_vars

(* Nobody waits for a mutex in vain: who holds it is another thread, which *)
(* is working, or about to get the second mutex that it needs for that,    *)
(* although one takes the second with the first in hand                    *)
(* (Bridge.cpp 76-87, 161-193).                                            *)
HoldersProceed ==
  /\ (regPc = "lock" /\ mutex[regKind] # "free")
       => /\ mutex[regKind] = "desc"
          /\ descPc = "publish" \/ (descPc = "lock" /\ mutex[descKind] = "free")
  /\ (descPc = "lock" /\ mutex[descKind] # "free")
       => /\ mutex[descKind] = "reg"
          /\ regPc = "write" \/ (regPc = "lock" /\ mutex[regKind] = "free")

(* When the members are destroyed mqtt_desc_thread has ended and left no   *)
(* mutex locked.  If the bridge was eCAL's last user, no callback runs or  *)
(* will, and both mutexes are free; if other bridges still use eCAL, the   *)
(* registration thread may be anywhere in the callback, and stays the one  *)
(* thread that does (Bridge.cpp 136, 821-840).                             *)
DestroyedQuiet ==
  mainPc = "done" =>
    /\ descPc = "exit" /\ \A k \in Kind : mutex[k] # "desc"
    /\ last_user => /\ regPc = "idle" /\ ~callback
                    /\ \A k \in Kind : mutex[k] = "free"

(* The destructor returns: its join waits for a thread that may hold one   *)
(* mutex and wait for the other.                                           *)
DestructorReturns == (mainPc = "deinitialize") ~> (mainPc = "done")

(* Every metadata topic of the configuration shows the registration of its *)
(* eCAL topic in the end, if the bridge stays up and connected             *)
(* (settings.yaml 107-109).                                                *)
Serving == mainPc = "run" /\ is_initialized /\ is_connected_to_mqtt_broker

RelaysLatest ==
  (<>[]Serving) =>
    \A i \in Entry, k \in Kind :
      (ecal2mqtt_topics[i][k] # NoName) =>
        <>[](relayed[k][ecal2mqtt_topics[i][k]] = announced[ecal2mqtt_topics[i].ecal])

(* The metadata topics mirror the registrations: the bridge implements     *)
(* MetadataMirror, provided no two eCAL topics share a metadata topic      *)
(* (which the program does not check).                                     *)
MetadataTopicsDistinct ==
  \A k \in Kind : \A e, f \in EcalTopic :
    (Found(e, k) /\ Found(f, k) /\ MqttName(e, k) = MqttName(f, k)) => e = f

Belongs(c, e) == Found(e, c[1]) /\ MqttName(e, c[1]) = c[2]
MirrorCell    == {c \in Kind \X MetadataName : \E e \in EcalTopic : Belongs(c, e)}
MirrorSource  == [c \in MirrorCell |-> CHOOSE e \in EcalTopic : Belongs(c, e)]
MirrorHeld    == [c \in MirrorCell |-> mqtt_topics[c[1]][c[2]]]
MirrorRelayed == [c \in MirrorCell |-> relayed[c[1]][c[2]]]
Joined == mainPc \in {"disconnect", "loop_stop", "finalize", "finalized", "done"}

Mirror == INSTANCE MetadataMirror WITH
  Source   <- EcalTopic,
  Cell     <- MirrorCell,
  SourceOf <- MirrorSource,
  held     <- MirrorHeld,
  relayed  <- MirrorRelayed,
  open     <- ~Joined

ImplementsMirror == Mirror!Spec
=============================================================================
