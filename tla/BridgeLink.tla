----------------------------- MODULE BridgeLink -----------------------------
(***************************************************************************)
(* The connection of one Bridge to its MQTT broker: construction           *)
(* (Bridge::initialize), the supervision loop of MqttEcalBridge.cpp, and   *)
(* the callbacks that the network thread of libmosquitto and the eCAL      *)
(* receive threads run.                                                    *)
(*                                                                         *)
(* Three actors share the atomics of the Bridge without any lock:          *)
(*   main    constructs the bridge, then supervises it every two seconds;  *)
(*   loop    libmosquitto's network thread: on_connect, on_disconnect,     *)
(*           on_message, and the library's own reconnection;               *)
(*   ecal    an eCAL receive thread: ecalMessageReceived.                  *)
(* Every read and write of shared state by one of them is a step of its    *)
(* own.  libmosquitto and the broker are not under src/: they are the      *)
(* variables link and subscribed and the actions marked external.          *)
(***************************************************************************)
EXTENDS Naturals, Sequences

CONSTANTS
  Subscriptions,           \* MQTT topics in the order on_connect subscribes them
  PayloadTopics,           \* those of them that carry payload
  IgnoreErrorFirstConnect, \* broker_settings.ignore_error_first_connect
  SubscribeMayFail,        \* may subscribe() fail while the session is up,
                           \* say for a qos that MQTT does not have?
  CounterModulus           \* number of values of a counter (2^32 in the program)

ASSUME ConstantsAssumption ==
  /\ IgnoreErrorFirstConnect \in BOOLEAN
  /\ SubscribeMayFail \in BOOLEAN
  /\ CounterModulus \in Nat \ {0, 1}
  /\ Subscriptions \in Seq(STRING)

VARIABLES
  mainPc,                       \* where the main thread is
  loop,                         \* what the network thread is doing
  subIndex,                     \* next subscription of a running on_connect
  ecal,                         \* where the eCAL receive thread is
  is_initialized,
  is_connected_to_mqtt_broker,
  loop_started,
  rx_counter,                   \* ecal_rx_counter and mqtt_rx_counter
  loaded,                       \* the value a thread loaded to increment it
  state,                        \* the bridge's state that main reports
  link,                         \* external: the client's connection
  subscribed                    \* external: the session's subscriptions

mainVars   == <<mainPc, is_initialized, loop_started, state>>
threadVars == <<loop, subIndex, ecal>>
countVars  == <<rx_counter, loaded>>
linkVars   == <<link, subscribed>>
vars == <<mainVars, threadVars, countVars, linkVars, is_connected_to_mqtt_broker>>

Direction == {"ecal", "mqtt"}
Counter   == 0 .. CounterModulus - 1
Topics    == {Subscriptions[i] : i \in DOMAIN Subscriptions}

TypeOK ==
  /\ mainPc \in {"init", "first_loop", "initialize", "supervise", "lost",
                 "connected", "reset", "reconnect", "loop_again", "dead"}
  /\ loop \in {"off", "idle", "subscribing", "counting"}
  /\ subIndex \in 1 .. Len(Subscriptions) + 1
  /\ ecal \in {"idle", "publishing", "counting"}
  /\ is_initialized \in BOOLEAN
  /\ is_connected_to_mqtt_broker \in BOOLEAN
  /\ loop_started \in BOOLEAN
  /\ rx_counter \in [Direction -> Counter]
  /\ loaded \in [Direction -> Counter]
  /\ state \in 0 .. 2
  /\ link \in {"down", "connecting", "up", "lost"}
  /\ subscribed \subseteq Topics

Init ==
  /\ mainPc = "init"
  /\ loop = "off"
  /\ subIndex = 1
  /\ ecal = "idle"
  /\ is_initialized = FALSE
  /\ is_connected_to_mqtt_broker = FALSE
  /\ loop_started = FALSE
  /\ rx_counter = [d \in Direction |-> 0]
  /\ loaded = [d \in Direction |-> 0]
  /\ state = 1
  /\ link = "down"
  /\ subscribed = {}
-----------------------------------------------------------------------------
(* The gate that on_message and ecalMessageReceived open with. *)
Routing == is_initialized /\ is_connected_to_mqtt_broker

(* A session that main or the library begins to open: the old socket is    *)
(* closed without on_disconnect, and a clean session has no subscriptions. *)
OpenSession ==
  /\ link' = "connecting"
  /\ subscribed' = {}

(* connect()/connect_async() returns an error: it did so before it touched *)
(* the socket, or after it closed the old one.                             *)
SessionNotOpened ==
  \/ UNCHANGED linkVars
  \/ link' = "down" /\ subscribed' = {}

connectOrReconnect(ignore_error, onTrue, onFalse) ==
  \/ OpenSession /\ mainPc' = onTrue
  \/ SessionNotOpened /\ mainPc' = IF ignore_error THEN onTrue ELSE onFalse

exclusiveLoopStart(onTrue, onFalse) ==
  \/ /\ loop_started
     /\ mainPc' = onTrue
     /\ UNCHANGED <<loop, loop_started>>
  \/ /\ ~loop_started
     /\ loop' = "idle"
     /\ loop_started' = TRUE
     /\ mainPc' = onTrue
  \/ /\ ~loop_started
     /\ mainPc' = onFalse
     /\ UNCHANGED <<loop, loop_started>>
-----------------------------------------------------------------------------
(* The constructor: initEcal, the options of initMqtt, the first connect,  *)
(* the loop, and only then is_initialized.                                 *)
InitFails ==
  /\ mainPc = "init"
  /\ mainPc' = "dead"
  /\ UNCHANGED <<is_initialized, loop_started, state, threadVars, countVars,
                 linkVars, is_connected_to_mqtt_broker>>

FirstConnect ==
  /\ mainPc = "init"
  /\ connectOrReconnect(IgnoreErrorFirstConnect, "first_loop", "dead")
  /\ UNCHANGED <<is_initialized, loop_started, state, threadVars, countVars,
                 is_connected_to_mqtt_broker>>

(* Mutant: initMqtt ignores that the loop did not start. *)
FirstLoopStartUnchecked ==
  /\ mainPc = "first_loop"
  /\ exclusiveLoopStart("initialize", "initialize")
  /\ UNCHANGED <<is_initialized, state, subIndex, ecal, countVars, linkVars,
                 is_connected_to_mqtt_broker>>

FirstLoopStart ==
  /\ mainPc = "first_loop"
  /\ exclusiveLoopStart("initialize", "dead")
  /\ UNCHANGED <<is_initialized, state, subIndex, ecal, countVars, linkVars,
                 is_connected_to_mqtt_broker>>

SetInitialized ==
  /\ mainPc = "initialize"
  /\ mainPc' = "supervise"
  /\ is_initialized' = TRUE
  /\ UNCHANGED <<loop_started, state, threadVars, countVars, linkVars,
                 is_connected_to_mqtt_broker>>

(* Mutant: the supervision loop reconnects without looking at the flag. *)
CheckConnectionUnchecked ==
  /\ mainPc = "supervise"
  /\ mainPc' = "lost"
  /\ UNCHANGED <<is_initialized, loop_started, state, threadVars, countVars,
                 linkVars, is_connected_to_mqtt_broker>>

(* One round of the supervision loop.  The two counters are read in one    *)
(* step: an increment between the two reads is as good as one after both.  *)
CheckConnection ==
  /\ mainPc = "supervise"
  /\ mainPc' = IF is_connected_to_mqtt_broker THEN "connected" ELSE "lost"
  /\ UNCHANGED <<is_initialized, loop_started, state, threadVars, countVars,
                 linkVars, is_connected_to_mqtt_broker>>

NoDataExchange == \A d \in Direction : rx_counter[d] = 0

CheckLost ==
  /\ mainPc = "lost"
  /\ state' = 0
  /\ mainPc' = IF NoDataExchange THEN "reset" ELSE "supervise"
  /\ UNCHANGED <<is_initialized, loop_started, threadVars, countVars, linkVars,
                 is_connected_to_mqtt_broker>>

CheckConnected ==
  /\ mainPc = "connected"
  /\ state' = IF NoDataExchange THEN 1 ELSE 2
  /\ mainPc' = "supervise"
  /\ UNCHANGED <<is_initialized, loop_started, threadVars, countVars, linkVars,
                 is_connected_to_mqtt_broker>>

(* Mutant: tryReconnectMqtt resets the flag along with the counters. *)
ResetCountersAndFlag ==
  /\ mainPc = "reset"
  /\ mainPc' = "reconnect"
  /\ rx_counter' = [d \in Direction |-> 0]
  /\ is_connected_to_mqtt_broker' = FALSE
  /\ UNCHANGED <<is_initialized, loop_started, state, threadVars, loaded,
                 linkVars>>

(* tryReconnectMqtt.  Its two assignments are one step, as are the two     *)
(* reads above; host and port are set, or initMqtt had failed.             *)
ResetCounters ==
  /\ mainPc = "reset"
  /\ mainPc' = "reconnect"
  /\ rx_counter' = [d \in Direction |-> 0]
  /\ UNCHANGED <<is_initialized, loop_started, state, threadVars, loaded,
                 linkVars, is_connected_to_mqtt_broker>>

Reconnect ==
  /\ mainPc = "reconnect"
  /\ connectOrReconnect(FALSE, "loop_again", "supervise")
  /\ UNCHANGED <<is_initialized, loop_started, state, threadVars, countVars,
                 is_connected_to_mqtt_broker>>

ReconnectLoopStart ==
  /\ mainPc = "loop_again"
  /\ exclusiveLoopStart("supervise", "supervise")
  /\ UNCHANGED <<is_initialized, state, subIndex, ecal, countVars, linkVars,
                 is_connected_to_mqtt_broker>>

MainStep ==
  \/ InitFails \/ FirstConnect \/ FirstLoopStart \/ SetInitialized
  \/ CheckConnection \/ CheckLost \/ CheckConnected
  \/ ResetCounters \/ Reconnect \/ ReconnectLoopStart
-----------------------------------------------------------------------------
(* Mutant: a bridge that believes to be connected does not subscribe anew. *)
ConnackAcceptResumes ==
  /\ loop = "idle"
  /\ link = "connecting"
  /\ loop' = "subscribing"
  /\ subIndex' = IF is_connected_to_mqtt_broker THEN Len(Subscriptions) + 1 ELSE 1
  /\ link' = "up"
  /\ UNCHANGED <<mainVars, ecal, countVars, subscribed, is_connected_to_mqtt_broker>>

(* The network thread.  The broker accepts: on_connect(0) begins.          *)
ConnackAccept ==
  /\ loop = "idle"
  /\ link = "connecting"
  /\ loop' = "subscribing"
  /\ subIndex' = 1
  /\ link' = "up"
  /\ UNCHANGED <<mainVars, ecal, countVars, subscribed, is_connected_to_mqtt_broker>>

(* on_connect(rc # 0) prints, and the library drops the connection. *)
ConnackRefuse ==
  /\ loop = "idle"
  /\ link = "connecting"
  /\ link' = "lost"
  /\ UNCHANGED <<mainVars, threadVars, countVars, subscribed, is_connected_to_mqtt_broker>>

(* subscribe() succeeds; it reaches the broker only in the session the     *)
(* callback runs for.                                                      *)
SubscribeOk ==
  /\ loop = "subscribing"
  /\ subIndex <= Len(Subscriptions)
  /\ subscribed' = IF link = "up" THEN subscribed \union {Subscriptions[subIndex]}
                                  ELSE subscribed
  /\ subIndex' = subIndex + 1
  /\ UNCHANGED <<mainVars, loop, ecal, countVars, link, is_connected_to_mqtt_broker>>

(* Mutant: a failed subscribe() is skipped instead of ending on_connect. *)
SubscribeFailsContinues ==
  /\ loop = "subscribing"
  /\ subIndex <= Len(Subscriptions)
  /\ link = "up" => SubscribeMayFail
  /\ subIndex' = subIndex + 1
  /\ UNCHANGED <<mainVars, loop, ecal, countVars, linkVars, is_connected_to_mqtt_broker>>

(* subscribe() fails: on_connect returns without touching the flag. *)
SubscribeFails ==
  /\ loop = "subscribing"
  /\ subIndex <= Len(Subscriptions)
  /\ link = "up" => SubscribeMayFail
  /\ loop' = "idle"
  /\ UNCHANGED <<mainVars, subIndex, ecal, countVars, linkVars, is_connected_to_mqtt_broker>>

SubscribesDone ==
  /\ loop = "subscribing"
  /\ subIndex = Len(Subscriptions) + 1
  /\ loop' = "idle"
  /\ is_connected_to_mqtt_broker' = TRUE
  /\ UNCHANGED <<mainVars, subIndex, ecal, countVars, linkVars>>

(* The connection breaks at any moment: only the loop thread notices.      *)
LinkLost ==
  /\ link \in {"connecting", "up"}
  /\ link' = "lost"
  /\ UNCHANGED <<mainVars, threadVars, countVars, subscribed, is_connected_to_mqtt_broker>>

on_disconnect ==
  /\ loop = "idle"
  /\ link = "lost"
  /\ link' = "down"
  /\ is_connected_to_mqtt_broker' = FALSE
  /\ UNCHANGED <<mainVars, threadVars, countVars, subscribed>>

LoopReconnect ==
  /\ loop = "idle"
  /\ link = "down"
  /\ OpenSession
  /\ UNCHANGED <<mainVars, threadVars, countVars, is_connected_to_mqtt_broker>>

(* mqtt_rx_counter and ecal_rx_counter are plain ints: an increment loads  *)
(* and stores in two steps, and main may reset the counter between them.   *)
Load(d)  == loaded' = [loaded EXCEPT ![d] = rx_counter[d]]
(* Mutant: a counter that does not wrap. *)
StoreUnbounded(d) == rx_counter' = [rx_counter EXCEPT ![d] = loaded[d] + 1]

Store(d) == rx_counter' = [rx_counter EXCEPT ![d] = (loaded[d] + 1) % CounterModulus]

on_message ==
  /\ loop = "idle"
  /\ link = "up"
  /\ \E topic \in PayloadTopics : topic \in subscribed
  /\ Routing
  /\ loop' = "counting"
  /\ Load("mqtt")
  /\ UNCHANGED <<mainVars, subIndex, ecal, rx_counter, linkVars, is_connected_to_mqtt_broker>>

MessageCounted ==
  /\ loop = "counting"
  /\ loop' = "idle"
  /\ Store("mqtt")
  /\ UNCHANGED <<mainVars, subIndex, ecal, loaded, linkVars, is_connected_to_mqtt_broker>>

LoopStep ==
  \/ SubscribeOk \/ SubscribeFails \/ SubscribesDone
  \/ on_disconnect \/ LoopReconnect \/ MessageCounted
-----------------------------------------------------------------------------
(* An eCAL receive thread: the gate, publish() whose result is ignored     *)
(* (the link may be gone by then), and the counter.                        *)
ecalMessageReceived ==
  /\ ecal = "idle"
  /\ Routing
  /\ ecal' = "publishing"
  /\ UNCHANGED <<mainVars, loop, subIndex, countVars, linkVars, is_connected_to_mqtt_broker>>

EcalPublished ==
  /\ ecal = "publishing"
  /\ ecal' = "counting"
  /\ Load("ecal")
  /\ UNCHANGED <<mainVars, loop, subIndex, rx_counter, linkVars, is_connected_to_mqtt_broker>>

EcalCounted ==
  /\ ecal = "counting"
  /\ ecal' = "idle"
  /\ Store("ecal")
  /\ UNCHANGED <<mainVars, loop, subIndex, loaded, linkVars, is_connected_to_mqtt_broker>>

(* A bridge that failed to initialise stays as it is. *)
Stopped == mainPc = "dead" /\ UNCHANGED vars

Next ==
  \/ MainStep \/ Stopped
  \/ LoopStep \/ ConnackAccept \/ ConnackRefuse \/ LinkLost \/ on_message
  \/ ecalMessageReceived \/ EcalPublished \/ EcalCounted

(* Every thread is scheduled.  The broker answers a connection attempt     *)
(* within one supervision period again and again: hence the strong         *)
(* fairness, for main may drop the attempt once per period.                *)
Fairness ==
  /\ WF_vars(MainStep)
  /\ WF_vars(LoopStep)
  /\ WF_vars(EcalPublished \/ EcalCounted)
  /\ SF_vars(ConnackAccept)

Spec     == Init /\ [][Next]_vars
FairSpec == Spec /\ Fairness
-----------------------------------------------------------------------------
(* What connects is heard: on_connect raises the flag for a session that   *)
(* is up only once every topic of that session is subscribed               *)
(* (Bridge.cpp 664-711).                                                   *)
FlagRaisedSubscribed ==
  [][(~is_connected_to_mqtt_broker /\ is_connected_to_mqtt_broker' /\ link' = "up")
       => Topics \subseteq subscribed']_vars

(* If subscribe() fails only for want of a connection, the flag never      *)
(* vouches for a live session that is missing a subscription, whatever     *)
(* main reconnected behind the network thread's back.                      *)
ConnectedMeansSubscribed ==
  (is_connected_to_mqtt_broker /\ link = "up" /\ loop # "subscribing")
    => Topics \subseteq subscribed

(* And the other way round: a live session with all its subscriptions is   *)
(* never left without the flag, for on_message would drop what the broker  *)
(* sends on it, retained messages among it, which come once per session    *)
(* (Bridge.cpp 580-583, 711, 748-760).                                     *)
SubscribedMeansConnected ==
  (link = "up" /\ loop # "subscribing" /\ Topics \subseteq subscribed)
    => is_connected_to_mqtt_broker

(* What the rest of the bridge needs to know of this is SessionLink.       *)
Session == INSTANCE SessionLink WITH greeting <- loop = "subscribing"

ImplementsSession == Session!Spec

(* A bridge is handed to the supervision loop only with a network thread   *)
(* running, and stays so: without it tryReconnectMqtt could connect but    *)
(* nothing would ever answer the broker (Bridge.cpp 44-50, 231-245).       *)
SupervisedHasLoop ==
  (is_initialized \/ mainPc \in {"supervise", "lost", "connected", "reset",
                                 "reconnect", "loop_again"})
    => loop_started /\ loop # "off"

ReconnectFails == Reconnect /\ mainPc' = "supervise"

Dead    == mainPc = "dead"
Healthy ==
  /\ link = "up"
  /\ is_connected_to_mqtt_broker
  /\ Topics \subseteq subscribed

(* If subscribe() fails only for want of a connection, every session that  *)
(* is up is healthy from the end of its on_connect on, whatever sessions   *)
(* main and the library dropped before it and wherever main is with its    *)
(* next reconnection (Bridge.cpp 567, 664-711, 748-760).                   *)
GreetedMeansHealthy == (link = "up" /\ loop # "subscribing") => Healthy

(* The bridge comes back: unless its connection keeps breaking, the broker *)
(* keeps refusing, or the calls keep failing, it ends up subscribed with   *)
(* the flag set, and main stops reporting "not connected" (state 0).       *)
Recovers ==
  \/ <>[](Dead \/ (Healthy /\ state \in {1, 2}))
  \/ []<><<LinkLost \/ ConnackRefuse \/ SubscribeFails>>_vars
  \/ []<><<ReconnectFails>>_vars

(* A session on which the flag stays down is not left as it is for ever:   *)
(* the supervision loop replaces it, the network thread raises the flag,   *)
(* or the connection breaks (MqttEcalBridge.cpp 339-347).  Excused if main *)
(* tries again and again and connect() itself fails.                       *)
UnconnectedIsRetried ==
  \/ ~ <>[](is_initialized /\ link = "up" /\ ~is_connected_to_mqtt_broker)
  \/ []<><<ReconnectFails>>_vars
=============================================================================
