-------------------------- MODULE BridgeLinkProofs --------------------------
(***************************************************************************)
(* What holds of BridgeLink for every list of subscriptions, every         *)
(* setting and every width of the counters.                                *)
(***************************************************************************)
EXTENDS BridgeLink, TLAPS

(* The range of an increment that wraps at the width of the counter. *)
LEMMA CounterWraps ==
  ASSUME NEW value \in Counter
  PROVE  (value + 1) % CounterModulus \in Counter
BY ConstantsAssumption DEF Counter

(* A subscription of the list is one of its topics, and all of them are    *)
(* reached when the index has passed the end.                              *)
LEMMA SubscriptionIsTopic ==
  ASSUME NEW i \in 1 .. Len(Subscriptions)
  PROVE  Subscriptions[i] \in Topics
BY ConstantsAssumption DEF Topics

LEMMA AllTopicsReached ==
  ASSUME NEW S, \A i \in 1 .. Len(Subscriptions) : Subscriptions[i] \in S
  PROVE  Topics \subseteq S
BY ConstantsAssumption DEF Topics
-----------------------------------------------------------------------------
(* Types.  One step per action. *)
LEMMA TypeInit == Init => TypeOK
<1> SUFFICES ASSUME Init
             PROVE  TypeOK
  OBVIOUS
<1>1. 0 \in Counter
  BY ConstantsAssumption DEF Counter
<1>2. subIndex \in 1 .. Len(Subscriptions) + 1
  BY ConstantsAssumption DEF Init
<1>3. rx_counter \in [Direction -> Counter] /\ loaded \in [Direction -> Counter]
  BY <1>1 DEF Init
<1>4. subscribed \subseteq Topics /\ state \in 0 .. 2
  BY DEF Init
<1> QED
  BY <1>2, <1>3, <1>4 DEF Init, TypeOK

LEMMA TypeStep == TypeOK /\ [Next]_vars => TypeOK'
<1> SUFFICES ASSUME TypeOK, [Next]_vars
             PROVE  TypeOK'
  OBVIOUS
<1> USE DEF TypeOK, mainVars, threadVars, countVars, linkVars
<1>1. CASE InitFails
  BY <1>1 DEF InitFails
<1>2. CASE FirstConnect
  BY <1>2, ConstantsAssumption
     DEF FirstConnect, connectOrReconnect, OpenSession, SessionNotOpened
<1>3. CASE FirstLoopStart
  BY <1>3 DEF FirstLoopStart, exclusiveLoopStart
<1>4. CASE SetInitialized
  BY <1>4 DEF SetInitialized
<1>5. CASE CheckConnection
  BY <1>5 DEF CheckConnection
<1>6. CASE CheckLost
  BY <1>6 DEF CheckLost
<1>7. CASE CheckConnected
  BY <1>7 DEF CheckConnected
<1>8. CASE ResetCounters
  <2>1. 0 \in Counter
    BY ConstantsAssumption DEF Counter
  <2> QED
    BY <1>8, <2>1 DEF ResetCounters
<1>9. CASE Reconnect
  BY <1>9 DEF Reconnect, connectOrReconnect, OpenSession, SessionNotOpened
<1>10. CASE ReconnectLoopStart
  BY <1>10 DEF ReconnectLoopStart, exclusiveLoopStart
<1>11. CASE ConnackAccept
  <2>1. 1 \in 1 .. Len(Subscriptions) + 1
    BY ConstantsAssumption
  <2> QED
    BY <1>11, <2>1 DEF ConnackAccept
<1>12. CASE ConnackRefuse
  BY <1>12 DEF ConnackRefuse
<1>13. CASE SubscribeOk
  <2>1. subIndex \in 1 .. Len(Subscriptions) /\ subIndex' \in 1 .. Len(Subscriptions) + 1
    BY <1>13, ConstantsAssumption DEF SubscribeOk
  <2>2. subscribed' \subseteq Topics
    BY <1>13, <2>1, SubscriptionIsTopic DEF SubscribeOk
  <2> QED
    BY <1>13, <2>1, <2>2 DEF SubscribeOk
<1>14. CASE SubscribeFails
  BY <1>14 DEF SubscribeFails
<1>15. CASE SubscribesDone
  BY <1>15 DEF SubscribesDone
<1>16. CASE LinkLost
  BY <1>16 DEF LinkLost
<1>17. CASE on_disconnect
  BY <1>17 DEF on_disconnect
<1>18. CASE LoopReconnect
  BY <1>18 DEF LoopReconnect, OpenSession
<1>19. CASE on_message
  BY <1>19 DEF on_message, Load, Direction
<1>20. CASE MessageCounted
  <2>1. (loaded["mqtt"] + 1) % CounterModulus \in Counter
    BY CounterWraps DEF Direction
  <2> QED
    BY <1>20, <2>1 DEF MessageCounted, Store
<1>21. CASE ecalMessageReceived
  BY <1>21 DEF ecalMessageReceived
<1>22. CASE EcalPublished
  BY <1>22 DEF EcalPublished, Load, Direction
<1>23. CASE EcalCounted
  <2>1. (loaded["ecal"] + 1) % CounterModulus \in Counter
    BY CounterWraps DEF Direction
  <2> QED
    BY <1>23, <2>1 DEF EcalCounted, Store
<1>24. CASE UNCHANGED vars
  BY <1>24 DEF vars
<1> QED
  BY <1>1, <1>2, <1>3, <1>4, <1>5, <1>6, <1>7, <1>8, <1>9, <1>10, <1>11, <1>12,
     <1>13, <1>14, <1>15, <1>16, <1>17, <1>18, <1>19, <1>20, <1>21, <1>22,
     <1>23, <1>24 DEF Next, MainStep, LoopStep, Stopped

(* Every variable keeps its type: the counters wrap at their width, the    *)
(* index of on_connect stays within the list, and the session holds only   *)
(* topics of the configuration.                                            *)
THEOREM TypeCorrect == Spec => []TypeOK
BY TypeInit, TypeStep, PTL DEF Spec
-----------------------------------------------------------------------------
(* The network thread runs whenever the bridge is supervised.              *)
LoopInv ==
  /\ loop_started <=> loop # "off"
  /\ is_initialized => loop_started
  /\ mainPc \in {"initialize", "supervise", "lost", "connected", "reset",
                 "reconnect", "loop_again"} => loop_started

LEMMA LoopStepInv == TypeOK /\ LoopInv /\ [Next]_vars => LoopInv'
<1> SUFFICES ASSUME TypeOK, LoopInv, [Next]_vars
             PROVE  LoopInv'
  OBVIOUS
<1> USE DEF LoopInv, mainVars, threadVars
<1>1. CASE FirstLoopStart \/ ReconnectLoopStart
  BY <1>1 DEF FirstLoopStart, ReconnectLoopStart, exclusiveLoopStart
<1>2. CASE InitFails \/ FirstConnect \/ SetInitialized
  BY <1>2 DEF InitFails, FirstConnect, SetInitialized, connectOrReconnect
<1>3. CASE CheckConnection \/ CheckLost \/ CheckConnected \/ ResetCounters \/ Reconnect
  BY <1>3 DEF CheckConnection, CheckLost, CheckConnected, ResetCounters,
              Reconnect, connectOrReconnect
<1>4. CASE ConnackAccept \/ ConnackRefuse \/ LinkLost
  BY <1>4 DEF ConnackAccept, ConnackRefuse, LinkLost
<1>5. CASE LoopStep
  BY <1>5 DEF LoopStep, SubscribeOk, SubscribeFails, SubscribesDone,
              on_disconnect, LoopReconnect, MessageCounted
<1>6. CASE on_message \/ ecalMessageReceived \/ EcalPublished \/ EcalCounted
  BY <1>6 DEF on_message, ecalMessageReceived, EcalPublished, EcalCounted
<1>7. CASE UNCHANGED vars
  BY <1>7 DEF vars
<1> QED
  BY <1>1, <1>2, <1>3, <1>4, <1>5, <1>6, <1>7 DEF Next, MainStep, Stopped

(* A bridge under supervision has a network thread to answer the broker,   *)
(* whichever way the first connection attempt went.                        *)
THEOREM SupervisedHasLoopCorrect == Spec => []SupervisedHasLoop
<1>1. Init => LoopInv
  BY DEF Init, LoopInv
<1>2. LoopInv => SupervisedHasLoop
  BY DEF LoopInv, SupervisedHasLoop
<1> QED
  BY <1>1, <1>2, TypeInit, TypeStep, LoopStepInv, PTL DEF Spec
-----------------------------------------------------------------------------
(* The progress of on_connect, as long as its session is up: every         *)
(* subscription before the index is in the session.  The session cannot be *)
(* replaced by one that is up while on_connect runs, for the thread that   *)
(* runs it is the one that would complete the handshake.                   *)
PrefixInv ==
  (loop = "subscribing" /\ link = "up")
    => \A i \in 1 .. Len(Subscriptions) :
         i < subIndex => Subscriptions[i] \in subscribed

LEMMA PrefixStep == TypeOK /\ PrefixInv /\ [Next]_vars => PrefixInv'
<1> SUFFICES ASSUME TypeOK, PrefixInv, [Next]_vars
             PROVE  PrefixInv'
  OBVIOUS
<1> USE DEF PrefixInv, mainVars, threadVars, linkVars
<1>1. CASE ConnackAccept
  <2>1. \A i \in 1 .. Len(Subscriptions) : ~(i < 1)
    BY ConstantsAssumption
  <2> QED
    BY <1>1, <2>1 DEF ConnackAccept
<1>2. CASE SubscribeOk
  <2> SUFFICES ASSUME loop = "subscribing", link = "up",
                      NEW i \in 1 .. Len(Subscriptions), i < subIndex'
               PROVE  Subscriptions[i] \in subscribed'
    BY <1>2 DEF SubscribeOk
  <2>1. subscribed' = subscribed \union {Subscriptions[subIndex]}
    BY <1>2 DEF SubscribeOk
  <2>2. i < subIndex \/ i = subIndex
    BY <1>2, ConstantsAssumption DEF SubscribeOk, TypeOK
  <2> QED
    BY <2>1, <2>2
<1>3. CASE SubscribeFails \/ SubscribesDone
  BY <1>3 DEF SubscribeFails, SubscribesDone
<1>4. CASE ConnackRefuse \/ LinkLost \/ on_disconnect \/ LoopReconnect
  BY <1>4 DEF ConnackRefuse, LinkLost, on_disconnect, LoopReconnect, OpenSession
<1>5. CASE FirstConnect \/ Reconnect
  BY <1>5 DEF FirstConnect, Reconnect, connectOrReconnect, OpenSession, SessionNotOpened
<1>6. CASE FirstLoopStart \/ ReconnectLoopStart
  BY <1>6 DEF FirstLoopStart, ReconnectLoopStart, exclusiveLoopStart
<1>7. CASE InitFails \/ SetInitialized \/ CheckConnection \/ CheckLost
             \/ CheckConnected \/ ResetCounters
  BY <1>7 DEF InitFails, SetInitialized, CheckConnection, CheckLost,
              CheckConnected, ResetCounters
<1>8. CASE on_message \/ MessageCounted
  BY <1>8 DEF on_message, MessageCounted
<1>9. CASE ecalMessageReceived \/ EcalPublished \/ EcalCounted
  BY <1>9 DEF ecalMessageReceived, EcalPublished, EcalCounted
<1>10. CASE UNCHANGED vars
  BY <1>10 DEF vars
<1> QED
  BY <1>1, <1>2, <1>3, <1>4, <1>5, <1>6, <1>7, <1>8, <1>9, <1>10
     DEF Next, MainStep, LoopStep, Stopped

(* Where on_connect ends in a session that is up, the whole list is in it. *)
LEMMA DoneSubscribed ==
  ASSUME TypeOK, PrefixInv, SubscribesDone, link = "up"
  PROVE  Topics \subseteq subscribed
<1>1. \A i \in 1 .. Len(Subscriptions) : Subscriptions[i] \in subscribed
  BY ConstantsAssumption DEF TypeOK, PrefixInv, SubscribesDone
<1> QED
  BY <1>1, AllTopicsReached

(* The flag rises for a session that is up only when every topic of the    *)
(* configuration is subscribed in it, even if subscribe() may fail and     *)
(* main replaces the session at any point of on_connect.                   *)
THEOREM FlagRaisedSubscribedCorrect == Spec => FlagRaisedSubscribed
<1> DEFINE Raise == (~is_connected_to_mqtt_broker /\ is_connected_to_mqtt_broker' /\ link' = "up")
                      => Topics \subseteq subscribed'
<1>1. Init => PrefixInv
  BY DEF Init, PrefixInv
<1>2. TypeOK /\ PrefixInv /\ [Next]_vars => [Raise]_vars
  <2> SUFFICES ASSUME TypeOK, PrefixInv, Next,
                      ~is_connected_to_mqtt_broker, is_connected_to_mqtt_broker', link' = "up"
               PROVE  Topics \subseteq subscribed'
    OBVIOUS
  <2>1. SubscribesDone
    BY DEF Next, MainStep, LoopStep, Stopped, vars, linkVars,
           InitFails, FirstConnect, FirstLoopStart, SetInitialized,
           CheckConnection, CheckLost, CheckConnected, ResetCounters, Reconnect,
           ReconnectLoopStart, ConnackAccept, ConnackRefuse, SubscribeOk,
           SubscribeFails, LinkLost, on_disconnect, LoopReconnect, on_message,
           MessageCounted, ecalMessageReceived, EcalPublished, EcalCounted
  <2>2. link = "up" /\ subscribed' = subscribed
    BY <2>1 DEF SubscribesDone, linkVars
  <2> QED
    BY <2>1, <2>2, DoneSubscribed
<1> QED
  BY <1>1, <1>2, TypeInit, TypeStep, PrefixStep, PTL DEF Spec, FlagRaisedSubscribed
-----------------------------------------------------------------------------
(* If subscribe() fails only for want of a connection, a session that is   *)
(* up has all its subscriptions as soon as on_connect is over, flag or no  *)
(* flag: this is what is inductive.                                        *)
SessionInv == (link = "up" /\ loop # "subscribing") => Topics \subseteq subscribed

LEMMA SessionStep ==
  ASSUME ~SubscribeMayFail
  PROVE  TypeOK /\ LoopInv /\ PrefixInv /\ SessionInv /\ [Next]_vars => SessionInv'
<1> SUFFICES ASSUME TypeOK, LoopInv, PrefixInv, SessionInv, [Next]_vars
             PROVE  SessionInv'
  OBVIOUS
<1> USE DEF SessionInv, mainVars, threadVars, linkVars
<1>1. CASE SubscribesDone
  <2>1. link = "up" => Topics \subseteq subscribed
    BY <1>1, DoneSubscribed
  <2> QED
    BY <1>1, <2>1 DEF SubscribesDone
<1>2. CASE SubscribeFails
  BY <1>2 DEF SubscribeFails
<1>3. CASE ConnackAccept \/ SubscribeOk
  BY <1>3 DEF ConnackAccept, SubscribeOk
<1>4. CASE ConnackRefuse \/ LinkLost \/ on_disconnect \/ LoopReconnect
  BY <1>4 DEF ConnackRefuse, LinkLost, on_disconnect, LoopReconnect, OpenSession
<1>5. CASE FirstConnect \/ Reconnect
  BY <1>5 DEF FirstConnect, Reconnect, connectOrReconnect, OpenSession, SessionNotOpened
<1>6. CASE FirstLoopStart \/ ReconnectLoopStart
  BY <1>6 DEF FirstLoopStart, ReconnectLoopStart, exclusiveLoopStart, LoopInv
<1>7. CASE InitFails \/ SetInitialized \/ CheckConnection \/ CheckLost
             \/ CheckConnected \/ ResetCounters
  BY <1>7 DEF InitFails, SetInitialized, CheckConnection, CheckLost,
              CheckConnected, ResetCounters
<1>8. CASE on_message \/ MessageCounted
  BY <1>8 DEF on_message, MessageCounted
<1>9. CASE ecalMessageReceived \/ EcalPublished \/ EcalCounted
  BY <1>9 DEF ecalMessageReceived, EcalPublished, EcalCounted
<1>10. CASE UNCHANGED vars
  BY <1>10 DEF vars
<1> QED
  BY <1>1, <1>2, <1>3, <1>4, <1>5, <1>6, <1>7, <1>8, <1>9, <1>10
     DEF Next, MainStep, LoopStep, Stopped

LEMMA SessionCorrect ==
  ASSUME ~SubscribeMayFail
  PROVE  Spec => []SessionInv
<1>1. Init => LoopInv /\ PrefixInv /\ SessionInv
  BY DEF Init, LoopInv, PrefixInv, SessionInv
<1>2. TypeOK /\ LoopInv /\ PrefixInv /\ SessionInv /\ [Next]_vars => SessionInv'
  BY SessionStep
<1> QED
  BY <1>1, <1>2, TypeInit, TypeStep, LoopStepInv, PrefixStep, PTL DEF Spec

(* With such an environment the flag never vouches for a session that is   *)
(* missing a subscription, for every list of topics.                       *)
THEOREM ConnectedMeansSubscribedCorrect ==
  ASSUME ~SubscribeMayFail
  PROVE  Spec => []ConnectedMeansSubscribed
<1>1. SessionInv => ConnectedMeansSubscribed
  BY DEF SessionInv, ConnectedMeansSubscribed
<1> QED
  BY <1>1, SessionCorrect, PTL
-----------------------------------------------------------------------------
(* The refinement of SessionLink: each step of the three threads is one of *)
(* its actions, or changes nothing that it shows.                          *)
LEMMA SessionUnchanged ==
  ASSUME UNCHANGED <<is_initialized, is_connected_to_mqtt_broker, linkVars>>,
         loop' = "subscribing" <=> loop = "subscribing"
  PROVE  UNCHANGED Session!vars
BY DEF Session!vars, Session!linkVars, linkVars

LEMMA ConnectRefines ==
  ASSUME OpenSession \/ SessionNotOpened,
         UNCHANGED <<is_initialized, is_connected_to_mqtt_broker, loop>>
  PROVE  [Session!Next]_(Session!vars)
BY DEF OpenSession, SessionNotOpened, linkVars, Session!Next, Session!Open,
       Session!vars, Session!linkVars

LEMMA OnConnectRefines ==
  ASSUME TypeOK, PrefixInv,
         ConnackAccept \/ SubscribeOk \/ SubscribeFails \/ SubscribesDone
  PROVE  [Session!Next]_(Session!vars)
<1> USE DEF mainVars, linkVars, Session!linkVars
<1>1. CASE ConnackAccept
  BY <1>1 DEF ConnackAccept, Session!Next, Session!Greet
<1>2. CASE SubscribeOk
  <2>1. CASE link = "up"
    <3> DEFINE t == Subscriptions[subIndex]
    <3>1. subIndex \in 1 .. Len(Subscriptions)
      BY <1>2, ConstantsAssumption DEF SubscribeOk, TypeOK
    <3>2. t \in Topics
      BY <3>1, SubscriptionIsTopic
    <3>3. Session!Subscribe(t)
      BY <1>2, <2>1 DEF SubscribeOk, Session!Subscribe
    <3> QED
      BY <3>2, <3>3 DEF Session!Next
  <2>2. CASE link # "up"
    <3>1. /\ UNCHANGED <<is_initialized, is_connected_to_mqtt_broker, linkVars>>
          /\ loop' = loop
      BY <1>2, <2>2 DEF SubscribeOk
    <3> QED
      BY <3>1, SessionUnchanged
  <2> QED
    BY <2>1, <2>2
<1>3. CASE SubscribeFails
  BY <1>3 DEF SubscribeFails, Session!Next, Session!GiveUp
<1>4. CASE SubscribesDone
  <2>1. link = "up" => Topics \subseteq subscribed
    BY <1>4, DoneSubscribed
  <2>2. Session!Raise
    BY <1>4, <2>1 DEF SubscribesDone, Session!Raise
  <2> QED
    BY <2>2 DEF Session!Next
<1> QED
  BY <1>1, <1>2, <1>3, <1>4

LEMMA RefinesStep ==
  TypeOK /\ LoopInv /\ PrefixInv /\ [Next]_vars => [Session!Next]_(Session!vars)
<1> SUFFICES ASSUME TypeOK, LoopInv, PrefixInv, [Next]_vars
             PROVE  [Session!Next]_(Session!vars)
  OBVIOUS
<1> USE DEF mainVars, threadVars, linkVars
<1>1. CASE FirstConnect \/ Reconnect \/ LoopReconnect
  <2>1. OpenSession \/ SessionNotOpened
    BY <1>1 DEF FirstConnect, Reconnect, LoopReconnect, connectOrReconnect
  <2>2. UNCHANGED <<is_initialized, is_connected_to_mqtt_broker, loop>>
    BY <1>1 DEF FirstConnect, Reconnect, LoopReconnect
  <2> QED
    BY <2>1, <2>2, ConnectRefines
<1>2. CASE FirstLoopStart \/ ReconnectLoopStart
  <2>1. UNCHANGED <<is_initialized, is_connected_to_mqtt_broker, linkVars>>
    BY <1>2 DEF FirstLoopStart, ReconnectLoopStart
  <2>2. loop' = loop \/ (loop = "off" /\ loop' = "idle")
    BY <1>2 DEF FirstLoopStart, ReconnectLoopStart, exclusiveLoopStart, LoopInv
  <2> QED
    BY <2>1, <2>2, SessionUnchanged
<1>3. CASE SetInitialized
  BY <1>3 DEF SetInitialized, Session!Next, Session!Initialize, Session!linkVars
<1>4. CASE InitFails \/ CheckConnection \/ CheckLost \/ CheckConnected \/ ResetCounters
  <2>1. UNCHANGED <<is_initialized, is_connected_to_mqtt_broker, linkVars, loop>>
    BY <1>4 DEF InitFails, CheckConnection, CheckLost, CheckConnected, ResetCounters
  <2> QED
    BY <2>1, SessionUnchanged
<1>5. CASE ConnackAccept \/ SubscribeOk \/ SubscribeFails \/ SubscribesDone
  BY <1>5, OnConnectRefines
<1>6. CASE ConnackRefuse \/ LinkLost
  BY <1>6 DEF ConnackRefuse, LinkLost, Session!Next, Session!Lose
<1>7. CASE on_disconnect
  BY <1>7 DEF on_disconnect, Session!Next, Session!Lower
<1>8. CASE on_message \/ MessageCounted
  <2>1. /\ UNCHANGED <<is_initialized, is_connected_to_mqtt_broker, linkVars>>
        /\ loop # "subscribing" /\ loop' # "subscribing"
    BY <1>8 DEF on_message, MessageCounted
  <2> QED
    BY <2>1, SessionUnchanged
<1>9. CASE ecalMessageReceived \/ EcalPublished \/ EcalCounted
  <2>1. UNCHANGED <<is_initialized, is_connected_to_mqtt_broker, linkVars, loop>>
    BY <1>9 DEF ecalMessageReceived, EcalPublished, EcalCounted
  <2> QED
    BY <2>1, SessionUnchanged
<1>10. CASE UNCHANGED vars
  BY <1>10, SessionUnchanged DEF vars
<1> QED
  BY <1>1, <1>2, <1>3, <1>4, <1>5, <1>6, <1>7, <1>8, <1>9, <1>10
     DEF Next, MainStep, LoopStep, Stopped

(* Three threads without a lock between them look to the rest of the       *)
(* bridge like the one state machine of SessionLink, for every list of     *)
(* subscriptions: what is built on SessionLink holds of the code.          *)
THEOREM ImplementsSessionCorrect == Spec => ImplementsSession
<1>1. Init => Session!Init
  BY DEF Init, Session!Init
<1>2. Init => LoopInv /\ PrefixInv
  BY DEF Init, LoopInv, PrefixInv
<1> QED
  BY <1>1, <1>2, TypeInit, TypeStep, LoopStepInv, PrefixStep, RefinesStep, PTL
     DEF Spec, ImplementsSession, Session!Spec
-----------------------------------------------------------------------------
(* The converse of PrefixInv: a session under way has no subscription      *)
(* beyond the index, and one that is not greeted yet has none.             *)
ExactInv ==
  /\ link = "connecting" => subscribed = {}
  /\ (loop = "subscribing" /\ link = "up")
       => \A t \in subscribed :
            \E i \in 1 .. Len(Subscriptions) : i < subIndex /\ t = Subscriptions[i]

LEMMA ExactStep == TypeOK /\ LoopInv /\ ExactInv /\ [Next]_vars => ExactInv'
<1> SUFFICES ASSUME TypeOK, LoopInv, ExactInv, [Next]_vars
             PROVE  ExactInv'
  OBVIOUS
<1> USE DEF ExactInv, mainVars, threadVars, linkVars
<1>1. CASE ConnackAccept
  BY <1>1 DEF ConnackAccept
<1>2. CASE SubscribeOk
  <2>1. subIndex \in 1 .. Len(Subscriptions) /\ subIndex' = subIndex + 1
    BY <1>2, ConstantsAssumption DEF SubscribeOk, TypeOK
  <2>2. CASE link = "up"
    <3> SUFFICES ASSUME NEW t \in subscribed'
                 PROVE  \E i \in 1 .. Len(Subscriptions) :
                          i < subIndex' /\ t = Subscriptions[i]
      BY <1>2, <2>2 DEF SubscribeOk
    <3>1. CASE t = Subscriptions[subIndex]
      <4>1. subIndex < subIndex'
        BY <2>1, ConstantsAssumption
      <4> QED
        BY <2>1, <3>1, <4>1
    <3>2. CASE t \in subscribed
      <4>1. PICK i \in 1 .. Len(Subscriptions) : i < subIndex /\ t = Subscriptions[i]
        BY <1>2, <2>2, <3>2 DEF SubscribeOk
      <4>2. i < subIndex'
        BY <2>1, <4>1, ConstantsAssumption
      <4> QED
        BY <4>1, <4>2
    <3> QED
      BY <1>2, <2>2, <3>1, <3>2 DEF SubscribeOk
  <2>3. CASE link # "up"
    BY <1>2, <2>3 DEF SubscribeOk
  <2> QED
    BY <2>2, <2>3
<1>3. CASE SubscribeFails \/ SubscribesDone
  BY <1>3 DEF SubscribeFails, SubscribesDone
<1>4. CASE ConnackRefuse \/ LinkLost \/ on_disconnect \/ LoopReconnect
  BY <1>4 DEF ConnackRefuse, LinkLost, on_disconnect, LoopReconnect, OpenSession
<1>5. CASE FirstConnect \/ Reconnect
  BY <1>5 DEF FirstConnect, Reconnect, connectOrReconnect, OpenSession, SessionNotOpened
<1>6. CASE FirstLoopStart \/ ReconnectLoopStart
  BY <1>6 DEF FirstLoopStart, ReconnectLoopStart, exclusiveLoopStart, LoopInv
<1>7. CASE InitFails \/ SetInitialized \/ CheckConnection \/ CheckLost
             \/ CheckConnected \/ ResetCounters
  BY <1>7 DEF InitFails, SetInitialized, CheckConnection, CheckLost,
              CheckConnected, ResetCounters
<1>8. CASE on_message \/ MessageCounted
  BY <1>8 DEF on_message, MessageCounted
<1>9. CASE ecalMessageReceived \/ EcalPublished \/ EcalCounted
  BY <1>9 DEF ecalMessageReceived, EcalPublished, EcalCounted
<1>10. CASE UNCHANGED vars
  BY <1>10 DEF vars
<1> QED
  BY <1>1, <1>2, <1>3, <1>4, <1>5, <1>6, <1>7, <1>8, <1>9, <1>10
     DEF Next, MainStep, LoopStep, Stopped

(* No topic is subscribed twice. *)
Distinct ==
  \A i, j \in 1 .. Len(Subscriptions) :
    Subscriptions[i] = Subscriptions[j] => i = j

LEMMA FailureLeavesOne ==
  ASSUME Distinct, TypeOK, ExactInv, SubscribeFails, link = "up"
  PROVE  ~(Topics \subseteq subscribed)
<1>1. subIndex \in 1 .. Len(Subscriptions)
  BY ConstantsAssumption DEF TypeOK, SubscribeFails
<1>2. Subscriptions[subIndex] \notin subscribed
  <2> SUFFICES ASSUME Subscriptions[subIndex] \in subscribed
               PROVE  FALSE
    OBVIOUS
  <2>1. PICK i \in 1 .. Len(Subscriptions) :
               i < subIndex /\ Subscriptions[subIndex] = Subscriptions[i]
    BY DEF ExactInv, SubscribeFails
  <2>2. i = subIndex
    BY <1>1, <2>1 DEF Distinct
  <2> QED
    BY <1>1, <2>1, <2>2, ConstantsAssumption
<1> QED
  BY <1>1, <1>2, SubscriptionIsTopic

LEMMA ConnectedStep ==
  ASSUME Distinct \/ ~SubscribeMayFail
  PROVE  TypeOK /\ LoopInv /\ ExactInv /\ SubscribedMeansConnected /\ [Next]_vars
           => SubscribedMeansConnected'
<1> SUFFICES ASSUME TypeOK, LoopInv, ExactInv, SubscribedMeansConnected, [Next]_vars
             PROVE  SubscribedMeansConnected'
  OBVIOUS
<1> USE DEF SubscribedMeansConnected, mainVars, threadVars, linkVars
<1>1. CASE SubscribeFails
  <2>1. link = "up" => SubscribeMayFail
    BY <1>1 DEF SubscribeFails
  <2>2. link = "up" => ~(Topics \subseteq subscribed)
    BY <1>1, <2>1, FailureLeavesOne
  <2> QED
    BY <1>1, <2>2 DEF SubscribeFails
<1>2. CASE SubscribesDone \/ ConnackAccept \/ SubscribeOk
  BY <1>2 DEF SubscribesDone, ConnackAccept, SubscribeOk
<1>3. CASE ConnackRefuse \/ LinkLost \/ on_disconnect \/ LoopReconnect
  BY <1>3 DEF ConnackRefuse, LinkLost, on_disconnect, LoopReconnect, OpenSession
<1>4. CASE FirstConnect \/ Reconnect
  BY <1>4 DEF FirstConnect, Reconnect, connectOrReconnect, OpenSession, SessionNotOpened
<1>5. CASE FirstLoopStart \/ ReconnectLoopStart
  BY <1>5 DEF FirstLoopStart, ReconnectLoopStart, exclusiveLoopStart, LoopInv
<1>6. CASE InitFails \/ SetInitialized \/ CheckConnection \/ CheckLost
             \/ CheckConnected \/ ResetCounters
  BY <1>6 DEF InitFails, SetInitialized, CheckConnection, CheckLost,
              CheckConnected, ResetCounters
<1>7. CASE on_message \/ MessageCounted
  BY <1>7 DEF on_message, MessageCounted
<1>8. CASE ecalMessageReceived \/ EcalPublished \/ EcalCounted
  BY <1>8 DEF ecalMessageReceived, EcalPublished, EcalCounted
<1>9. CASE UNCHANGED vars
  BY <1>9 DEF vars
<1> QED
  BY <1>1, <1>2, <1>3, <1>4, <1>5, <1>6, <1>7, <1>8, <1>9
     DEF Next, MainStep, LoopStep, Stopped

(* A live session with all its subscriptions is connected for the rest of  *)
(* the bridge, if no topic is subscribed twice or subscribe() fails only   *)
(* for want of a connection.  With neither, it may fail on the second time *)
(* a topic comes, with nothing missing and the flag down.                  *)
THEOREM SubscribedMeansConnectedCorrect ==
  ASSUME Distinct \/ ~SubscribeMayFail
  PROVE  Spec => []SubscribedMeansConnected
<1>1. Init => LoopInv /\ ExactInv /\ SubscribedMeansConnected
  BY DEF Init, LoopInv, ExactInv, SubscribedMeansConnected
<1>2. TypeOK /\ LoopInv /\ ExactInv /\ SubscribedMeansConnected /\ [Next]_vars
        => SubscribedMeansConnected'
  BY ConnectedStep
<1> QED
  BY <1>1, <1>2, TypeInit, TypeStep, LoopStepInv, ExactStep, PTL DEF Spec

(* In the same environment the two together: what recovers is not lost to  *)
(* the bridge's own threads.  Only the connection, or main when it begins  *)
(* another one, ends a healthy session.                                    *)
THEOREM GreetedMeansHealthyCorrect ==
  ASSUME ~SubscribeMayFail
  PROVE  Spec => []GreetedMeansHealthy
<1>1. SessionInv /\ SubscribedMeansConnected => GreetedMeansHealthy
  BY DEF SessionInv, SubscribedMeansConnected, GreetedMeansHealthy, Healthy
<1> QED
  BY <1>1, SessionCorrect, SubscribedMeansConnectedCorrect, PTL
=============================================================================
