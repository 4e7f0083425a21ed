--------------------------- MODULE BridgeLifecycle ---------------------------
(***************************************************************************)
(* The bridges of one program from construction to destruction (run() of   *)
(* MqttEcalBridge.cpp): main builds one per broker, supervises the first   *)
(* that is initialised for as long as eCAL runs, and destroys them in the  *)
(* order of the list.  Around it run the threads that enter a bridge:      *)
(*   net   its network thread, in on_message;                              *)
(*   recv  the receive callback of its eCAL subscribers (one stands for    *)
(*         all of them: they are alike, and deleted one by one);           *)
(*   desc  its own mqtt_desc_thread;                                       *)
(*   reg   eCAL's registration thread, in onPublisherRegistration.         *)
(*                                                                         *)
(* What the connection does is in BridgeLink, how the metadata's mutexes   *)
(* are used in DescriptorRelay.  is_connected_to_mqtt_broker is left out:  *)
(* on_connect may raise it again after the destructor lowered it, so no    *)
(* thread may count on it here, and each of them may find it up.           *)
(***************************************************************************)
EXTENDS Naturals

CONSTANTS
  N,          \* the number of brokers
  Relaying,   \* bridges with a descriptor or type topic: descriptorUpdateLoop runs
  Describing  \* bridges with a descriptor topic: the registration callback is added

Bridge == 1 .. N
NoBridge == 0

ASSUME ConstantsAssumption ==
  /\ N \in Nat \ {0}
  /\ Relaying \subseteq Bridge
  /\ Describing \subseteq Relaying

VARIABLES
  mainPc, current,          \* main, and the bridge it works on
  status,                   \* of the Bridge object
  is_initialized,
  mqtt_desc_thread_active,
  publishers,               \* ecal_publishers
  net, recv, desc, reg,     \* the threads
  callbacks,                \* external: bridges that eCAL calls on a registration
  ok,                       \* external: eCAL::Ok()
  ecal_refs, lib_refs,      \* external: users of eCAL and of the mosquitto library
  unmatched                 \* bridges whose lib_cleanup() has no lib_init()

mainVars   == <<mainPc, current>>
flagVars   == <<is_initialized, mqtt_desc_thread_active>>
threadVars == <<net, recv, desc, reg>>
ecalVars   == <<callbacks, ok, ecal_refs>>
libVars    == <<lib_refs, unmatched>>
vars == <<mainVars, status, flagVars, publishers, threadVars, ecalVars, libVars>>

Building   == {"construct", "init_ecal", "init_mqtt", "initialize"}
Destroying == {"deactivate", "deinitialize", "join", "loop_stop", "lib_cleanup",
               "publishers", "subscribers", "finalize", "finalized"}

TypeOK ==
  /\ mainPc \in Building \union {"supervise"} \union Destroying \union {"done"}
  /\ current \in Bridge
  /\ status \in [Bridge -> {"none", "alive", "destroyed"}]
  /\ is_initialized \in [Bridge -> BOOLEAN]
  /\ mqtt_desc_thread_active \in [Bridge -> BOOLEAN]
  /\ publishers \in [Bridge -> {"none", "exist", "deleted"}]
  /\ net \in [Bridge -> {"off", "idle", "handling"}]
  /\ recv \in [Bridge -> {"none", "idle", "publishing"}]
  /\ desc \in [Bridge -> {"off", "loop", "gate", "publishing", "exit"}]
  /\ reg \in Bridge \union {NoBridge}
  /\ callbacks \subseteq Bridge
  /\ ok \in BOOLEAN
  /\ ecal_refs \in 0 .. N
  /\ lib_refs \in 0 .. N
  /\ unmatched \subseteq Bridge

Init ==
  /\ mainPc = "construct"
  /\ current = 1
  /\ status = [b \in Bridge |-> "none"]
  /\ is_initialized = [b \in Bridge |-> FALSE]
  /\ mqtt_desc_thread_active = [b \in Bridge |-> FALSE]
  /\ publishers = [b \in Bridge |-> "none"]
  /\ net = [b \in Bridge |-> "off"]
  /\ recv = [b \in Bridge |-> "none"]
  /\ desc = [b \in Bridge |-> "off"]
  /\ reg = NoBridge
  /\ callbacks = {}
  /\ ok = TRUE
  /\ ecal_refs = 0
  /\ lib_refs = 0
  /\ unmatched = {}
-----------------------------------------------------------------------------
(* Mutant: one bridge too many. *)
NextBridgePast(again, over) ==
  IF current <= N
  THEN mainPc' = again /\ current' = current + 1
  ELSE mainPc' = over /\ current' = 1

(* A loop over the bridges: on to the next one, or past the end of the list. *)
NextBridge(again, over) ==
  IF current < N
  THEN mainPc' = again /\ current' = current + 1
  ELSE mainPc' = over /\ current' = 1

Goto(pc) == mainPc' = pc /\ UNCHANGED current

(* The constructor, with the thread that its initialisers start. *)
Construct ==
  /\ mainPc = "construct"
  /\ status' = [status EXCEPT ![current] = "alive"]
  /\ mqtt_desc_thread_active' = [mqtt_desc_thread_active EXCEPT ![current] = TRUE]
  /\ desc' = [desc EXCEPT ![current] = "loop"]
  /\ Goto("init_ecal")
  /\ UNCHANGED <<is_initialized, publishers, net, recv, reg, ecalVars, libVars>>

initEcal ==
  /\ mainPc = "init_ecal"
  /\ ecal_refs' = ecal_refs + 1
  /\ recv' = [recv EXCEPT ![current] = "idle"]
  /\ publishers' = [publishers EXCEPT ![current] = "exist"]
  /\ callbacks' = callbacks \union (Describing \intersect {current})
  /\ Goto("init_mqtt")
  /\ UNCHANGED <<status, flagVars, net, desc, reg, ok, libVars>>

(* eCAL::Initialize fails, so that lib_init() is not reached; or lib_init() *)
(* itself fails.                                                            *)
NoLibInit ==
  /\ mainPc \in {"init_ecal", "init_mqtt"}
  /\ unmatched' = unmatched \union {current}
  /\ NextBridge("construct", "supervise")
  /\ UNCHANGED <<status, flagVars, publishers, threadVars, ecalVars, lib_refs>>

(* A later step of initMqtt fails, or all succeed. *)
initMqttFails ==
  /\ mainPc = "init_mqtt"
  /\ lib_refs' = lib_refs + 1
  /\ NextBridge("construct", "supervise")
  /\ UNCHANGED <<status, flagVars, publishers, threadVars, ecalVars, unmatched>>

initMqtt ==
  /\ mainPc = "init_mqtt"
  /\ lib_refs' = lib_refs + 1
  /\ net' = [net EXCEPT ![current] = "idle"]
  /\ Goto("initialize")
  /\ UNCHANGED <<status, flagVars, publishers, recv, desc, reg, ecalVars, unmatched>>

initialize ==
  /\ mainPc = "initialize"
  /\ is_initialized' = [is_initialized EXCEPT ![current] = TRUE]
  /\ NextBridge("construct", "supervise")
  /\ UNCHANGED <<status, mqtt_desc_thread_active, publishers, threadVars,
                 ecalVars, libVars>>

(* The supervision loop leaves a bridge that is not initialised at once,   *)
(* and an initialised one when eCAL ends.                                  *)
SupervisionEnds ==
  /\ mainPc = "supervise"
  /\ is_initialized[current] => ~ok
  /\ NextBridge("supervise", "deactivate")
  /\ UNCHANGED <<status, flagVars, publishers, threadVars, ecalVars, libVars>>
-----------------------------------------------------------------------------
(* Mutant: the destructor does not end the descriptor thread's loop. *)
DestroyDeactivateForgotten ==
  /\ mainPc = "deactivate"
  /\ Goto("deinitialize")
  /\ UNCHANGED <<flagVars, status, publishers, threadVars, ecalVars, libVars>>

(* The destructor, in the order of its statements. *)
DestroyDeactivate ==
  /\ mainPc = "deactivate"
  /\ mqtt_desc_thread_active' = [mqtt_desc_thread_active EXCEPT ![current] = FALSE]
  /\ Goto("deinitialize")
  /\ UNCHANGED <<status, is_initialized, publishers, threadVars, ecalVars, libVars>>

(* Mutant: the destructor leaves is_initialized as it is. *)
DestroyDeinitializeForgotten ==
  /\ mainPc = "deinitialize"
  /\ Goto("join")
  /\ UNCHANGED <<status, flagVars, publishers, threadVars, ecalVars, libVars>>

DestroyDeinitialize ==
  /\ mainPc = "deinitialize"
  /\ is_initialized' = [is_initialized EXCEPT ![current] = FALSE]
  /\ Goto("join")
  /\ UNCHANGED <<status, mqtt_desc_thread_active, publishers, threadVars,
                 ecalVars, libVars>>

(* Mutant: the descriptor thread is detached instead of joined. *)
DestroyDetach ==
  /\ mainPc = "join"
  /\ Goto("loop_stop")
  /\ UNCHANGED <<status, flagVars, publishers, threadVars, ecalVars, libVars>>

DestroyJoin ==
  /\ mainPc = "join"
  /\ desc[current] = "exit"
  /\ Goto("loop_stop")
  /\ UNCHANGED <<status, flagVars, publishers, threadVars, ecalVars, libVars>>

(* Mutant: disconnect() is taken to end the network thread. *)
DestroyLoopStopForgotten ==
  /\ mainPc = "loop_stop"
  /\ Goto("lib_cleanup")
  /\ UNCHANGED <<status, flagVars, publishers, threadVars, ecalVars, libVars>>

(* disconnect() and loop_stop(true): the network thread is cancelled,      *)
(* wherever it is, and joined.                                             *)
DestroyLoopStop ==
  /\ mainPc = "loop_stop"
  /\ net' = [net EXCEPT ![current] = "off"]
  /\ Goto("lib_cleanup")
  /\ UNCHANGED <<status, flagVars, publishers, recv, desc, reg, ecalVars, libVars>>

(* Mutant: every bridge cleans up for the whole program. *)
DestroyLibCleanupAll ==
  /\ mainPc = "lib_cleanup"
  /\ lib_refs' = 0
  /\ Goto("publishers")
  /\ UNCHANGED <<status, flagVars, publishers, threadVars, ecalVars, unmatched>>

(* lib_cleanup() without users left does nothing. *)
DestroyLibCleanup ==
  /\ mainPc = "lib_cleanup"
  /\ lib_refs' = IF lib_refs = 0 THEN 0 ELSE lib_refs - 1
  /\ Goto("publishers")
  /\ UNCHANGED <<status, flagVars, publishers, threadVars, ecalVars, unmatched>>

(* It deletes what publishers initEcal created, if it got to it. *)
DestroyPublishers ==
  /\ mainPc = "publishers"
  /\ publishers' = [publishers EXCEPT ![current] =
                      IF @ = "exist" THEN "deleted" ELSE @]
  /\ Goto("subscribers")
  /\ UNCHANGED <<status, flagVars, threadVars, ecalVars, libVars>>

(* The destructor of a subscriber waits for its callback. *)
DestroySubscribers ==
  /\ mainPc = "subscribers"
  /\ recv[current] # "publishing"
  /\ recv' = [recv EXCEPT ![current] = "none"]
  /\ Goto("finalize")
  /\ UNCHANGED <<status, flagVars, publishers, net, desc, reg, ecalVars, libVars>>

(* Mutant: Finalize ends eCAL for the whole program. *)
DestroyFinalizeAll ==
  /\ mainPc = "finalize"
  /\ ecal_refs' = 0
  /\ callbacks' = {}
  /\ Goto("finalized")
  /\ UNCHANGED <<status, flagVars, publishers, threadVars, ok, libVars>>

(* eCAL::Finalize of the last user: eCAL calls back no more ... *)
DestroyFinalize ==
  /\ mainPc = "finalize"
  /\ ecal_refs' = IF ecal_refs = 0 THEN 0 ELSE ecal_refs - 1
  /\ callbacks' = IF ecal_refs' = 0 THEN {} ELSE callbacks
  /\ Goto("finalized")
  /\ UNCHANGED <<status, flagVars, publishers, threadVars, ok, libVars>>

(* ... and its registration thread is joined.  Then the members go. *)
Destroyed ==
  /\ mainPc = "finalized"
  /\ ecal_refs = 0 => reg = NoBridge
  /\ status' = [status EXCEPT ![current] = "destroyed"]
  /\ NextBridge("deactivate", "done")
  /\ UNCHANGED <<flagVars, publishers, threadVars, ecalVars, libVars>>

MainStep ==
  \/ Construct \/ initEcal \/ NoLibInit \/ initMqttFails \/ initMqtt \/ initialize
  \/ SupervisionEnds
  \/ DestroyDeactivate \/ DestroyDeinitialize \/ DestroyJoin \/ DestroyLoopStop
  \/ DestroyLibCleanup \/ DestroyPublishers \/ DestroySubscribers
  \/ DestroyFinalize \/ Destroyed

(* eCAL::Ok() turns FALSE: a signal, or eCAL's own shutdown command. *)
Shutdown ==
  /\ ok' = FALSE
  /\ UNCHANGED <<mainVars, status, flagVars, publishers, threadVars,
                 callbacks, ecal_refs, libVars>>
-----------------------------------------------------------------------------
(* The threads.  Each asks is_initialized before it goes on. *)
on_message(b) ==
  /\ net[b] = "idle"
  /\ is_initialized[b]
  /\ net' = [net EXCEPT ![b] = "handling"]
  /\ UNCHANGED <<mainVars, status, flagVars, publishers, recv, desc, reg,
                 ecalVars, libVars>>

MessageHandled(b) ==
  /\ net[b] = "handling"
  /\ net' = [net EXCEPT ![b] = "idle"]
  /\ UNCHANGED <<mainVars, status, flagVars, publishers, recv, desc, reg,
                 ecalVars, libVars>>

ecalMessageReceived(b) ==
  /\ recv[b] = "idle"
  /\ is_initialized[b]
  /\ recv' = [recv EXCEPT ![b] = "publishing"]
  /\ UNCHANGED <<mainVars, status, flagVars, publishers, net, desc, reg,
                 ecalVars, libVars>>

EcalPublished(b) ==
  /\ recv[b] = "publishing"
  /\ recv' = [recv EXCEPT ![b] = "idle"]
  /\ UNCHANGED <<mainVars, status, flagVars, publishers, net, desc, reg,
                 ecalVars, libVars>>

DescGoto(b, from, to) ==
  /\ desc[b] = from
  /\ desc' = [desc EXCEPT ![b] = to]
  /\ UNCHANGED <<mainVars, status, flagVars, publishers, net, recv, reg,
                 ecalVars, libVars>>

descriptorUpdateLoop(b) ==
  \/ DescGoto(b, "loop", "gate") /\ mqtt_desc_thread_active[b] /\ b \in Relaying
  \/ DescGoto(b, "loop", "exit") /\ (~mqtt_desc_thread_active[b] \/ b \notin Relaying)
  \/ DescGoto(b, "gate", "publishing") /\ is_initialized[b]
  \/ DescGoto(b, "gate", "loop") \* a flag is down; the sleep
  \/ DescGoto(b, "publishing", "loop")

onPublisherRegistration(b) ==
  /\ reg = NoBridge
  /\ b \in callbacks
  /\ reg' = b
  /\ UNCHANGED <<mainVars, status, flagVars, publishers, net, recv, desc,
                 ecalVars, libVars>>

RegistrationStored ==
  /\ reg # NoBridge
  /\ reg' = NoBridge
  /\ UNCHANGED <<mainVars, status, flagVars, publishers, net, recv, desc,
                 ecalVars, libVars>>

(* run() has returned. *)
Done == mainPc = "done" /\ UNCHANGED vars

Next ==
  \/ MainStep \/ Shutdown \/ Done
  \/ RegistrationStored
  \/ \E b \in Bridge :
       \/ on_message(b) \/ MessageHandled(b)
       \/ ecalMessageReceived(b) \/ EcalPublished(b)
       \/ descriptorUpdateLoop(b)
       \/ onPublisherRegistration(b)

(* Every thread is scheduled, and no callback runs for ever. *)
Fairness ==
  /\ WF_vars(MainStep)
  /\ WF_vars(RegistrationStored)
  /\ \A b \in Bridge :
       /\ WF_vars(MessageHandled(b))
       /\ WF_vars(EcalPublished(b))
       /\ WF_vars(descriptorUpdateLoop(b))

Spec     == Init /\ [][Next]_vars
FairSpec == Spec /\ Fairness
-----------------------------------------------------------------------------
(* Nobody can enter a bridge that is not there: no thread is in it, and    *)
(* nothing is left that calls back into it, before its constructor and     *)
(* after its destructor.  Only the registration callback, which is never   *)
(* removed, outlives its bridge, unless the bridge is the last one         *)
(* (Bridge.cpp 136, 821-840; MqttEcalBridge.cpp 307-330).                  *)
CallbacksHaveBridge ==
  \A b \in Bridge :
    /\ (net[b] # "off" \/ recv[b] # "none" \/ desc[b] \notin {"off", "exit"})
         => status[b] = "alive"
    /\ (reg = b \/ b \in callbacks)
         => status[b] = "alive" \/ (b < N /\ status[b] = "destroyed")

(* on_message never uses a deleted publisher, nor one not yet created      *)
(* (Bridge.cpp 620, 636, 645, 828-833).                                    *)
PublishersOutliveUse ==
  \A b \in Bridge : net[b] # "off" => publishers[b] = "exist"

(* The mosquitto library is not cleaned up while a network thread or a     *)
(* descriptor thread of a bridge uses it, provided that the bridges before *)
(* it in the list all got to their lib_init(): the destructor of one that  *)
(* did not takes away another's (Bridge.cpp 46, 366, 829).                 *)
LibraryHeld ==
  \A b \in Bridge :
    (/\ net[b] # "off" \/ desc[b] = "publishing"
     /\ \A u \in unmatched : u >= b)
      => lib_refs > 0

(* eCAL is not finalised while a bridge has subscribers, which are deleted *)
(* after its publishers, provided that the bridges before it in the list   *)
(* all got past eCAL::Initialize: the destructor of one that did not takes *)
(* away another's (Bridge.cpp 103, 112, 830-839).                          *)
EcalHeld ==
  \A b \in Bridge :
    (recv[b] # "none" /\ \A u \in Bridge : u < b => publishers[u] # "none")
      => ecal_refs > 0

(* What a destructor waits for only comes to an end: once main waits in a  *)
(* join, or in the destructor of a subscriber, or in eCAL's last Finalize, *)
(* no new round, callback or registration begins, and what had begun does  *)
(* not begin again (Bridge.cpp 823-825, 835-839).                          *)
WaitsOnlyShrink ==
  [][/\ (mainPc = "join" /\ desc[current] = "loop")
          => desc'[current] \in {"loop", "exit"}
     /\ (mainPc = "subscribers" /\ recv[current] = "idle")
          => recv'[current] # "publishing"
     /\ (mainPc = "finalized" /\ ecal_refs = 0 /\ reg = NoBridge)
          => reg' = NoBridge]_vars

(* The program ends when eCAL does, whichever bridges were initialised:    *)
(* every join and every wait of every destructor returns                   *)
(* (Bridge.cpp 821-840).                                                   *)
ShutdownEnds == ~ok ~> (mainPc = "done")
=============================================================================
