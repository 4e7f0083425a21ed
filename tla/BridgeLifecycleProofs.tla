------------------------ MODULE BridgeLifecycleProofs ------------------------
(***************************************************************************)
(* What holds of BridgeLifecycle for every number of bridges, whichever of *)
(* them have metadata topics and whichever fail to initialise.             *)
(***************************************************************************)
EXTENDS BridgeLifecycle, TLAPS

(* The users of a library while main is at a place, if every bridge so far *)
(* became one on leaving the places "joining", and is none any more from   *)
(* the places "left" on.                                                   *)
Users(joining, left) ==
  IF mainPc \in Building
  THEN IF mainPc \in joining THEN current - 1 ELSE current
  ELSE IF mainPc = "supervise" THEN N
  ELSE IF mainPc \in Destroying
  THEN IF mainPc \in left THEN N - current ELSE N - current + 1
  ELSE 0

LibUsers  == Users({"construct", "init_ecal", "init_mqtt"},
                   {"publishers", "subscribers", "finalize", "finalized"})
EcalUsers == Users({"construct", "init_ecal"}, {"finalized"})

(* The counts of users are at most what main's place says. *)
CountInv ==
  /\ lib_refs <= LibUsers
  /\ ecal_refs <= EcalUsers
  /\ ecal_refs = 0 => callbacks = {}

ThreadStep ==
  \/ RegistrationStored
  \/ \E b \in Bridge :
       \/ on_message(b) \/ MessageHandled(b)
       \/ ecalMessageReceived(b) \/ EcalPublished(b)
       \/ descriptorUpdateLoop(b)
       \/ onPublisherRegistration(b)

LEMMA ThreadsLeave ==
  ASSUME ThreadStep
  PROVE  UNCHANGED <<mainVars, status, flagVars, publishers, ecalVars, libVars>>
BY DEF ThreadStep, RegistrationStored, on_message, MessageHandled,
       ecalMessageReceived, EcalPublished, descriptorUpdateLoop, DescGoto,
       onPublisherRegistration

LEMMA NextCases ==
  ASSUME [Next]_vars
  PROVE  MainStep \/ Shutdown \/ ThreadStep \/ UNCHANGED vars
BY DEF Next, Done, ThreadStep

(* At the last bridge a loop ends, before it there is a next one. *)
LEMMA BridgeRange ==
  ASSUME NEW b \in Bridge
  PROVE  /\ b \in Nat /\ 1 <= b /\ b <= N /\ N \in Nat
         /\ b < N => b + 1 \in Bridge
         /\ ~(b < N) => b = N
         /\ 1 \in Bridge
BY ConstantsAssumption DEF Bridge
-----------------------------------------------------------------------------
LEMMA CountInit == Init => CountInv
BY ConstantsAssumption
   DEF Init, CountInv, LibUsers, EcalUsers, Users, Building

LEMMA CountMain ==
  ASSUME TypeOK, CountInv, MainStep
  PROVE  CountInv'
<1> USE DEF CountInv, LibUsers, EcalUsers, Users, Building, Destroying,
            NextBridge, Goto, libVars, ecalVars
<1>0. /\ current \in Nat /\ 1 <= current /\ current <= N /\ N \in Nat
      /\ ~(current < N) => current = N
      /\ lib_refs \in Nat /\ ecal_refs \in Nat
  BY BridgeRange DEF TypeOK
<1>1. CASE Construct
  BY <1>0, <1>1 DEF Construct
<1>2. CASE initEcal
  BY <1>0, <1>2 DEF initEcal
<1>3. CASE NoLibInit
  BY <1>0, <1>3 DEF NoLibInit
<1>4. CASE initMqttFails
  BY <1>0, <1>4 DEF initMqttFails
<1>5. CASE initMqtt
  BY <1>0, <1>5 DEF initMqtt
<1>6. CASE initialize
  BY <1>0, <1>6 DEF initialize
<1>7. CASE SupervisionEnds
  BY <1>0, <1>7 DEF SupervisionEnds
<1>8. CASE DestroyDeactivate
  BY <1>0, <1>8 DEF DestroyDeactivate
<1>9. CASE DestroyDeinitialize
  BY <1>0, <1>9 DEF DestroyDeinitialize
<1>10. CASE DestroyJoin
  BY <1>0, <1>10 DEF DestroyJoin
<1>11. CASE DestroyLoopStop
  BY <1>0, <1>11 DEF DestroyLoopStop
<1>12. CASE DestroyLibCleanup
  BY <1>0, <1>12 DEF DestroyLibCleanup
<1>13. CASE DestroyPublishers
  BY <1>0, <1>13 DEF DestroyPublishers
<1>14. CASE DestroySubscribers
  BY <1>0, <1>14 DEF DestroySubscribers
<1>15. CASE DestroyFinalize
  BY <1>0, <1>15 DEF DestroyFinalize
<1>16. CASE Destroyed
  BY <1>0, <1>16 DEF Destroyed
<1> QED
  BY <1>1, <1>2, <1>3, <1>4, <1>5, <1>6, <1>7, <1>8, <1>9, <1>10, <1>11, <1>12,
     <1>13, <1>14, <1>15, <1>16 DEF MainStep

LEMMA CountStep == TypeOK /\ CountInv /\ [Next]_vars => CountInv'
<1> SUFFICES ASSUME TypeOK, CountInv, [Next]_vars
             PROVE  CountInv'
  OBVIOUS
<1>1. CASE MainStep
  BY <1>1, CountMain
<1>2. CASE Shutdown \/ ThreadStep \/ UNCHANGED vars
  <2>1. UNCHANGED <<mainVars, callbacks, ecal_refs, libVars>>
    BY <1>2, ThreadsLeave DEF Shutdown, vars, ecalVars
  <2> QED
    BY <2>1 DEF CountInv, LibUsers, EcalUsers, Users, mainVars, libVars
<1> QED
  BY <1>1, <1>2, NextCases
-----------------------------------------------------------------------------
LEMMA TypeInit == Init => TypeOK
BY ConstantsAssumption DEF Init, TypeOK, Bridge, Building, NoBridge

LEMMA NextBridgeType ==
  ASSUME current \in Bridge, NEW again, NEW over, NextBridge(again, over)
  PROVE  current' \in Bridge /\ mainPc' \in {again, over}
BY BridgeRange DEF NextBridge

LEMMA TypeMain ==
  ASSUME TypeOK, CountInv, MainStep
  PROVE  TypeOK'
<1> USE DEF TypeOK, Building, Destroying, Goto, flagVars, threadVars, libVars, ecalVars
<1>0. /\ current \in Nat /\ 1 <= current /\ current <= N /\ N \in Nat
      /\ lib_refs \in Nat /\ ecal_refs \in Nat
  BY BridgeRange
<1>a. mainPc \in {"init_ecal", "init_mqtt"} => lib_refs + 1 \in 0 .. N
  BY <1>0 DEF CountInv, LibUsers, Users
<1>b. mainPc = "init_ecal" => ecal_refs + 1 \in 0 .. N
  BY <1>0 DEF CountInv, EcalUsers, Users
<1>1. CASE Construct
  BY <1>1 DEF Construct
<1>2. CASE initEcal
  BY <1>2, <1>b DEF initEcal
<1>3. CASE NoLibInit
  BY <1>3, NextBridgeType DEF NoLibInit
<1>4. CASE initMqttFails
  BY <1>4, <1>a, NextBridgeType DEF initMqttFails
<1>5. CASE initMqtt
  BY <1>5, <1>a DEF initMqtt
<1>6. CASE initialize
  BY <1>6, NextBridgeType DEF initialize
<1>7. CASE SupervisionEnds
  BY <1>7, NextBridgeType DEF SupervisionEnds
<1>8. CASE DestroyDeactivate
  BY <1>8 DEF DestroyDeactivate
<1>9. CASE DestroyDeinitialize
  BY <1>9 DEF DestroyDeinitialize
<1>10. CASE DestroyJoin
  BY <1>10 DEF DestroyJoin
<1>11. CASE DestroyLoopStop
  BY <1>11 DEF DestroyLoopStop
<1>12. CASE DestroyLibCleanup
  BY <1>0, <1>12 DEF DestroyLibCleanup
<1>13. CASE DestroyPublishers
  BY <1>13 DEF DestroyPublishers
<1>14. CASE DestroySubscribers
  BY <1>14 DEF DestroySubscribers
<1>15. CASE DestroyFinalize
  <2>1. ecal_refs' \in 0 .. N
    BY <1>0, <1>15 DEF DestroyFinalize
  <2>2. callbacks' \subseteq Bridge
    BY <1>15 DEF DestroyFinalize
  <2> QED
    BY <1>15, <2>1, <2>2 DEF DestroyFinalize
<1>16. CASE Destroyed
  BY <1>16, NextBridgeType DEF Destroyed
<1> QED
  BY <1>1, <1>2, <1>3, <1>4, <1>5, <1>6, <1>7, <1>8, <1>9, <1>10, <1>11, <1>12,
     <1>13, <1>14, <1>15, <1>16 DEF MainStep

LEMMA TypeStep == TypeOK /\ CountInv /\ [Next]_vars => TypeOK'
<1> SUFFICES ASSUME TypeOK, CountInv, [Next]_vars
             PROVE  TypeOK'
  OBVIOUS
<1> USE DEF TypeOK, mainVars, flagVars, threadVars, libVars, ecalVars
<1>1. CASE MainStep
  BY <1>1, TypeMain
<1>2. CASE Shutdown
  BY <1>2 DEF Shutdown
<1>3. CASE RegistrationStored
  BY <1>3 DEF RegistrationStored
<1>4. ASSUME NEW b \in Bridge,
             \/ on_message(b) \/ MessageHandled(b)
             \/ ecalMessageReceived(b) \/ EcalPublished(b)
      PROVE  TypeOK'
  BY <1>4 DEF on_message, MessageHandled, ecalMessageReceived, EcalPublished
<1>5. ASSUME NEW b \in Bridge, descriptorUpdateLoop(b)
      PROVE  TypeOK'
  BY <1>5 DEF descriptorUpdateLoop, DescGoto
<1>6. ASSUME NEW b \in Bridge, onPublisherRegistration(b)
      PROVE  TypeOK'
  BY <1>6 DEF onPublisherRegistration
<1>7. CASE UNCHANGED vars
  BY <1>7 DEF vars
<1> QED
  BY <1>1, <1>2, <1>3, <1>4, <1>5, <1>6, <1>7, NextCases DEF ThreadStep

(* Types, for every number of bridges: the counts stay within the number   *)
(* of bridges although some bridges skip a step that counts up.            *)
THEOREM TypeCorrect == Spec => []TypeOK
<1>1. TypeOK /\ CountInv /\ [Next]_vars => (TypeOK /\ CountInv)'
  BY TypeStep, CountStep
<1> QED
  BY <1>1, TypeInit, CountInit, PTL DEF Spec
-----------------------------------------------------------------------------
(* Where main is with a bridge. *)
Before(b) ==
  mainPc \in Building /\ (b > current \/ (b = current /\ mainPc = "construct"))

After(b) == mainPc = "done" \/ (mainPc \in Destroying /\ b < current)

(* Main is at the bridge, at one of the places. *)
At(b, places) == b = current /\ mainPc \in places

Built(b) == ~Before(b) /\ ~After(b)

(* The network thread may run, from initMqtt to loop_stop.                 *)
Linked(b) ==
  /\ Built(b)
  /\ ~At(b, {"init_ecal", "init_mqtt", "lib_cleanup", "publishers", "subscribers",
             "finalize", "finalized"})

(* What runs and exists, by the place of main. *)
PlaceInv ==
  /\ \A b \in Bridge :
       /\ Built(b) => status[b] = "alive"
       /\ After(b) => status[b] = "destroyed"
       /\ net[b] # "off" => Linked(b) /\ publishers[b] = "exist"
       /\ (is_initialized[b] \/ desc[b] = "publishing") => Linked(b)
       /\ recv[b] # "none" => Built(b) /\ ~At(b, {"init_ecal", "finalize", "finalized"})
       /\ desc[b] \notin {"off", "exit"} =>
            Built(b) /\ ~At(b, Destroying \ {"deactivate", "deinitialize", "join"})
       /\ (b \in callbacks \/ reg = b) => ~Before(b) /\ b \in Describing
  /\ mainPc \in Destroying \ {"deactivate", "deinitialize"} => ~is_initialized[current]
  /\ mainPc = "init_mqtt" => publishers[current] = "exist"
  /\ mainPc = "initialize" => publishers[current] = "exist"
  /\ mainPc = "done" => callbacks = {} /\ reg = NoBridge

LEMMA PlaceInit == Init => PlaceInv
BY ConstantsAssumption
   DEF Init, PlaceInv, Built, Before, After, Linked, At, Bridge, Building,
       Destroying, NoBridge

(* Going on to the next bridge completes the one main was at, and no other. *)
LEMMA NextBridgePlaces ==
  ASSUME current \in Bridge, NEW b \in Bridge, NEW again, NEW over,
         NextBridge(again, over)
  PROVE  /\ current < N => mainPc' = again /\ (b < current' <=> b < current \/ b = current)
                              /\ (b > current' => b > current)
                              /\ (b = current' => b > current)
         /\ ~(current < N) => mainPc' = over /\ (b < current \/ b = current)
                                /\ (b > current' <=> b # current')
                                /\ ~(b < current')
<1>1. /\ current \in Nat /\ 1 <= current /\ current <= N /\ N \in Nat
      /\ b \in Nat /\ 1 <= b /\ b <= N
  BY BridgeRange
<1> QED
  BY <1>1 DEF NextBridge

(* In particular when a constructor ends. *)
LEMMA ConstructorEnds ==
  ASSUME current \in Bridge, NEW b \in Bridge,
         mainPc \in {"init_ecal", "init_mqtt", "initialize"},
         NextBridge("construct", "supervise")
  PROVE  /\ Before(b)' <=> Before(b)
         /\ (Built(b)' <=> Built(b)) /\ ~After(b)'
         /\ Linked(b)' <=> Built(b)
         /\ \A places : (At(b, places)' /\ Built(b)) => "supervise" \in places
<1>1. /\ current \in Nat /\ 1 <= current /\ current <= N /\ N \in Nat
      /\ b \in Nat /\ 1 <= b /\ b <= N
  BY BridgeRange
<1>2. CASE current < N
  <2>1. mainPc' = "construct" /\ current' = current + 1
    BY <1>2 DEF NextBridge
  <2> QED
    BY <1>1, <2>1 DEF Before, Built, After, Linked, At, Building, Destroying
<1>3. CASE ~(current < N)
  <2>1. mainPc' = "supervise" /\ ~(b > current)
    BY <1>1, <1>3 DEF NextBridge
  <2> QED
    BY <1>1, <2>1 DEF Before, Built, After, Linked, At, Building, Destroying
<1> QED
  BY <1>2, <1>3

LEMMA ConstructorLeaves ==
  ASSUME TypeOK, PlaceInv,
         mainPc \in {"init_ecal", "init_mqtt", "initialize"},
         NextBridge("construct", "supervise"),
         UNCHANGED <<status, publishers, threadVars, callbacks>>,
         \A b \in Bridge : is_initialized'[b] => is_initialized[b] \/ Built(b)
  PROVE  PlaceInv'
<1>1. mainPc' \in {"construct", "supervise"}
  BY DEF NextBridge
<1>2. ASSUME NEW b \in Bridge
      PROVE  /\ Built(b)' => status'[b] = "alive"
             /\ After(b)' => status'[b] = "destroyed"
             /\ net'[b] # "off" => Linked(b)' /\ publishers'[b] = "exist"
             /\ (is_initialized'[b] \/ desc'[b] = "publishing") => Linked(b)'
             /\ recv'[b] # "none" => Built(b)' /\ ~At(b, {"init_ecal", "finalize", "finalized"})'
             /\ desc'[b] \notin {"off", "exit"} =>
                  Built(b)' /\ ~At(b, Destroying \ {"deactivate", "deinitialize", "join"})'
             /\ (b \in callbacks' \/ reg' = b) => ~Before(b)' /\ b \in Describing
  <2>1. /\ Before(b)' <=> Before(b)
        /\ (Built(b)' <=> Built(b)) /\ ~After(b)'
        /\ Linked(b)' <=> Built(b)
        /\ \A places : (At(b, places)' /\ Built(b)) => "supervise" \in places
    BY ConstructorEnds DEF TypeOK
  <2>2. Linked(b) => Built(b)
    BY DEF Linked
  <2>3. ~At(b, {"init_ecal", "finalize", "finalized"})'
        /\ ~At(b, Destroying \ {"deactivate", "deinitialize", "join"})'
    BY <1>1 DEF At, Destroying
  <2> QED
    BY <2>1, <2>2, <2>3 DEF PlaceInv, threadVars
<1> QED
  BY <1>1, <1>2 DEF PlaceInv, Destroying

LEMMA PlaceConstructor ==
  ASSUME TypeOK, CountInv, PlaceInv,
         \/ Construct \/ initEcal \/ NoLibInit \/ initMqttFails \/ initMqtt \/ initialize
         \/ SupervisionEnds
  PROVE  PlaceInv'
<1> USE DEF PlaceInv, Built, Before, After, Linked, At, Building, Destroying,
            Goto, flagVars, threadVars, ecalVars, libVars
<1>0. /\ current \in Bridge
      /\ \A b \in Bridge : b \in Nat
      /\ NoBridge \notin Bridge
  BY BridgeRange DEF TypeOK, Bridge, NoBridge
<1>1. CASE Construct
  BY <1>0, <1>1 DEF Construct, TypeOK
<1>2. CASE initEcal
  BY <1>0, <1>2 DEF initEcal, TypeOK
<1>3. CASE NoLibInit
  BY <1>3, ConstructorLeaves DEF NoLibInit, TypeOK
<1>4. CASE initMqttFails
  BY <1>4, ConstructorLeaves DEF initMqttFails, TypeOK
<1>5. CASE initMqtt
  BY <1>0, <1>5 DEF initMqtt, TypeOK
<1>6. CASE initialize
  <2>1. /\ UNCHANGED <<status, publishers, threadVars, callbacks>>
        /\ is_initialized' = [is_initialized EXCEPT ![current] = TRUE]
        /\ mainPc = "initialize" /\ NextBridge("construct", "supervise")
    BY <1>6 DEF initialize
  <2>2. Built(current)
    BY <1>0, <2>1
  <2> QED
    BY <1>6, <2>1, <2>2, ConstructorLeaves DEF TypeOK
<1>7. CASE SupervisionEnds
  BY <1>0, <1>7, NextBridgePlaces DEF SupervisionEnds, TypeOK
<1> QED
  BY <1>1, <1>2, <1>3, <1>4, <1>5, <1>6, <1>7

LEMMA PlaceDestructor ==
  ASSUME TypeOK, CountInv, PlaceInv,
         \/ DestroyDeactivate \/ DestroyDeinitialize \/ DestroyJoin \/ DestroyLoopStop
         \/ DestroyLibCleanup \/ DestroyPublishers \/ DestroySubscribers
         \/ DestroyFinalize \/ Destroyed
  PROVE  PlaceInv'
<1> USE DEF PlaceInv, Built, Before, After, Linked, At, Building, Destroying,
            Goto, flagVars, threadVars, ecalVars, libVars
<1>0. /\ current \in Bridge
      /\ \A b \in Bridge : b \in Nat
      /\ NoBridge \notin Bridge
  BY BridgeRange DEF TypeOK, Bridge, NoBridge
<1>1. CASE DestroyDeactivate
  BY <1>0, <1>1 DEF DestroyDeactivate, TypeOK
<1>2. CASE DestroyDeinitialize
  BY <1>0, <1>2 DEF DestroyDeinitialize, TypeOK
<1>3. CASE DestroyJoin
  BY <1>0, <1>3 DEF DestroyJoin, TypeOK
<1>4. CASE DestroyLoopStop
  BY <1>0, <1>4 DEF DestroyLoopStop, TypeOK
<1>5. CASE DestroyLibCleanup
  BY <1>0, <1>5 DEF DestroyLibCleanup, TypeOK
<1>6. CASE DestroyPublishers
  BY <1>0, <1>6 DEF DestroyPublishers, TypeOK
<1>7. CASE DestroySubscribers
  BY <1>0, <1>7 DEF DestroySubscribers, TypeOK
<1>8. CASE DestroyFinalize
  BY <1>0, <1>8 DEF DestroyFinalize, TypeOK
<1>9. CASE Destroyed
  <2>1. ~(current < N) => callbacks = {} /\ reg = NoBridge
    <3>1. ~(current < N) => ecal_refs = 0
      BY <1>0, <1>9, BridgeRange DEF Destroyed, CountInv, EcalUsers, Users, TypeOK
    <3> QED
      BY <1>9, <3>1 DEF Destroyed, CountInv
  <2> QED
    BY <1>0, <1>9, <2>1, NextBridgePlaces DEF Destroyed, TypeOK
<1> QED
  BY <1>1, <1>2, <1>3, <1>4, <1>5, <1>6, <1>7, <1>8, <1>9

LEMMA PlaceThreads ==
  ASSUME TypeOK, CountInv, PlaceInv, ThreadStep
  PROVE  PlaceInv'
<1> USE DEF PlaceInv, Built, Before, After, Linked, At
<1>1. CASE RegistrationStored
  BY <1>1, ThreadsLeave DEF RegistrationStored, TypeOK, mainVars, flagVars, ecalVars,
                            Bridge, NoBridge
<1>2. ASSUME NEW b \in Bridge, on_message(b) \/ MessageHandled(b)
      PROVE  PlaceInv'
  BY <1>2 DEF on_message, MessageHandled, TypeOK, mainVars, flagVars, ecalVars
<1>3. ASSUME NEW b \in Bridge, ecalMessageReceived(b) \/ EcalPublished(b)
      PROVE  PlaceInv'
  BY <1>3 DEF ecalMessageReceived, EcalPublished, TypeOK, mainVars, flagVars, ecalVars
<1>4. ASSUME NEW b \in Bridge, descriptorUpdateLoop(b)
      PROVE  PlaceInv'
  BY <1>4 DEF descriptorUpdateLoop, DescGoto, TypeOK, mainVars, flagVars, ecalVars
<1>5. ASSUME NEW b \in Bridge, onPublisherRegistration(b)
      PROVE  PlaceInv'
  BY <1>5 DEF onPublisherRegistration, TypeOK, mainVars, flagVars, ecalVars
<1> QED
  BY <1>1, <1>2, <1>3, <1>4, <1>5 DEF ThreadStep

LEMMA PlaceStep == TypeOK /\ CountInv /\ PlaceInv /\ [Next]_vars => PlaceInv'
<1> SUFFICES ASSUME TypeOK, CountInv, PlaceInv, [Next]_vars
             PROVE  PlaceInv'
  OBVIOUS
<1>1. CASE MainStep
  BY <1>1, PlaceConstructor, PlaceDestructor DEF MainStep
<1>2. CASE ThreadStep
  BY <1>2, PlaceThreads
<1>3. CASE Shutdown \/ UNCHANGED vars
  BY <1>3 DEF Shutdown, vars, mainVars, flagVars, threadVars, ecalVars,
              PlaceInv, Built, Before, After, Linked, At
<1> QED
  BY <1>1, <1>2, <1>3, NextCases
-----------------------------------------------------------------------------
(* The bridges that have cleaned up the library, and whether a bridge is   *)
(* past the place of its lib_init.                                         *)
Cleaned ==
  IF mainPc \in {"publishers", "subscribers", "finalize", "finalized"} THEN current
  ELSE IF mainPc \in Destroying THEN current - 1 ELSE 0

Counted(b) ==
  mainPc \in Building => b < current \/ (b = current /\ mainPc = "initialize")

(* If no bridge up to b missed its lib_init, all of them have their user,  *)
(* as long as they do not give it up: whatever the bridges behind b did.   *)
HeldInv ==
  mainPc # "done" =>
    \A b \in Bridge :
      (Counted(b) /\ \A u \in unmatched : u > b) => b <= lib_refs + Cleaned

(* Who uses the library is in a bridge that got to its lib_init, for only  *)
(* bridges that main is done with missed it.                               *)
MatchedInv ==
  /\ \A b \in Bridge :
       (net[b] # "off" \/ desc[b] = "publishing" \/ is_initialized[b])
         => b \notin unmatched
  /\ mainPc \in Building => \A u \in unmatched : u < current

LEMMA HeldInit == Init => HeldInv /\ MatchedInv
BY ConstantsAssumption
   DEF Init, HeldInv, MatchedInv, Counted, Cleaned, Bridge, Building, Destroying

(* The step from a constructor to the next: the user it added, if it did.  *)
LEMMA HeldConstructorLeaves ==
  ASSUME TypeOK, HeldInv, NextBridge("construct", "supervise"),
         \/ mainPc = "initialize" /\ UNCHANGED libVars
         \/ /\ mainPc = "init_mqtt"
            /\ lib_refs' = lib_refs + 1 /\ UNCHANGED unmatched
         \/ /\ mainPc \in {"init_ecal", "init_mqtt"}
            /\ unmatched' = unmatched \union {current} /\ UNCHANGED lib_refs
  PROVE  HeldInv'
<1>0. /\ current \in Nat /\ 1 <= current /\ current <= N /\ N \in Nat
      /\ lib_refs \in Nat
  BY BridgeRange DEF TypeOK
<1>1. /\ mainPc \in Building /\ Cleaned = 0
      /\ mainPc' \in {"construct", "supervise"} /\ Cleaned' = 0
  BY DEF NextBridge, Building, Destroying, Cleaned
<1>6. lib_refs' \in Nat /\ lib_refs <= lib_refs'
  BY <1>0 DEF libVars
<1> SUFFICES ASSUME NEW b \in Bridge, Counted(b)', \A u \in unmatched' : u > b
             PROVE  b <= lib_refs'
  BY <1>1, <1>6 DEF HeldInv
<1>2. b \in Nat /\ 1 <= b /\ b <= N /\ (b # 1 => b - 1 \in Bridge)
  BY ConstantsAssumption DEF Bridge
<1>3. b < current \/ b = current
  BY <1>0, <1>1, <1>2 DEF NextBridge, Counted, Building
<1>4. \A u \in unmatched : u > b
  BY DEF libVars
<1>5. Counted(b) => b <= lib_refs
  BY <1>0, <1>1, <1>4 DEF HeldInv, Building
<1>7. CASE b < current \/ mainPc = "initialize"
  <2>1. Counted(b)
    BY <1>3, <1>7 DEF Counted
  <2>2. b <= lib_refs
    BY <1>5, <2>1
  <2> QED
    BY <1>0, <1>2, <1>6, <2>2
<1>8. CASE b = current /\ mainPc \in {"init_ecal", "init_mqtt"}
  <2>1. current \notin unmatched'
    BY <1>0, <1>8
  <2>2. lib_refs' = lib_refs + 1
    BY <1>8, <2>1
  <2>3. CASE b = 1
    BY <1>0, <2>2, <2>3
  <2>4. CASE b # 1
    <3> DEFINE a == b - 1
    <3>1. a \in Bridge /\ Counted(a) /\ \A u \in unmatched : u > a
      <4>1. unmatched \subseteq Nat
        BY BridgeRange DEF TypeOK
      <4> QED
        BY <1>0, <1>2, <1>4, <1>8, <2>4, <4>1 DEF Counted
    <3>2. a <= lib_refs + 0
      BY <1>1, <3>1 DEF HeldInv, Building
    <3> QED
      BY <1>0, <1>2, <2>2, <3>2
  <2> QED
    BY <2>3, <2>4
<1> QED
  BY <1>0, <1>1, <1>3, <1>6, <1>7, <1>8

LEMMA HeldMain ==
  ASSUME TypeOK, HeldInv, MainStep
  PROVE  HeldInv'
<1>0. /\ current \in Nat /\ 1 <= current /\ current <= N /\ N \in Nat
      /\ lib_refs \in Nat
      /\ \A b \in Bridge : b \in Nat /\ 1 <= b /\ b <= N
  BY BridgeRange DEF TypeOK
<1>1. CASE NoLibInit \/ initMqttFails \/ initialize
  BY <1>1, HeldConstructorLeaves DEF NoLibInit, initMqttFails, initialize, libVars
<1>2. CASE initMqtt
  <2> SUFFICES ASSUME NEW b \in Bridge, Counted(b)', \A u \in unmatched : u > b
               PROVE  b <= lib_refs + 1
    BY <1>2 DEF initMqtt, Goto, HeldInv, Cleaned, Destroying
  <2>1. b < current \/ b = current
    BY <1>2 DEF initMqtt, Goto, Counted, Building
  <2>2. \A a \in Bridge : (a < current /\ \A u \in unmatched : u > a) => a <= lib_refs
    BY <1>0, <1>2 DEF initMqtt, HeldInv, Counted, Cleaned, Building, Destroying
  <2>3. CASE b < current
    BY <1>0, <2>2, <2>3
  <2>4. CASE b = current
    <3> DEFINE a == b - 1
    <3>1. CASE b = 1
      BY <1>0, <3>1
    <3>2. CASE b # 1
      <4>1. a \in Bridge
        BY <1>0, <3>2 DEF Bridge
      <4>2. unmatched \subseteq Nat
        BY BridgeRange DEF TypeOK
      <4>3. a <= lib_refs
        BY <1>0, <2>2, <2>4, <4>1, <4>2
      <4> QED
        BY <1>0, <4>3
    <3> QED
      BY <3>1, <3>2
  <2> QED
    BY <2>1, <2>3, <2>4
<1>3. CASE Construct \/ initEcal
  BY <1>3 DEF Construct, initEcal, Goto, HeldInv, Counted, Cleaned, Building,
              Destroying, libVars
<1>4. CASE SupervisionEnds
  BY <1>0, <1>4 DEF SupervisionEnds, NextBridge, HeldInv, Counted, Cleaned, Building,
                    Destroying, libVars
<1>5. CASE DestroyLibCleanup
  BY <1>0, <1>5 DEF DestroyLibCleanup, Goto, HeldInv, Counted, Cleaned, Building,
                    Destroying
<1>6. CASE DestroyDeactivate \/ DestroyDeinitialize \/ DestroyJoin \/ DestroyLoopStop
  BY <1>6 DEF DestroyDeactivate, DestroyDeinitialize, DestroyJoin, DestroyLoopStop,
              Goto, HeldInv, Counted, Cleaned, Building, Destroying, libVars
<1>7. CASE DestroyPublishers \/ DestroySubscribers \/ DestroyFinalize
  BY <1>7 DEF DestroyPublishers, DestroySubscribers, DestroyFinalize,
              Goto, HeldInv, Counted, Cleaned, Building, Destroying, libVars
<1>8. CASE Destroyed
  BY <1>0, <1>8 DEF Destroyed, NextBridge, HeldInv, Counted, Cleaned, Building,
                    Destroying, libVars
<1> QED
  BY <1>1, <1>2, <1>3, <1>4, <1>5, <1>6, <1>7, <1>8 DEF MainStep

LEMMA HeldStep == TypeOK /\ HeldInv /\ [Next]_vars => HeldInv'
<1> SUFFICES ASSUME TypeOK, HeldInv, [Next]_vars
             PROVE  HeldInv'
  OBVIOUS
<1>1. CASE MainStep
  BY <1>1, HeldMain
<1>2. CASE Shutdown \/ ThreadStep \/ UNCHANGED vars
  <2>1. UNCHANGED <<mainVars, libVars>>
    BY <1>2, ThreadsLeave DEF Shutdown, vars
  <2> QED
    BY <2>1 DEF HeldInv, Counted, Cleaned, mainVars, libVars
<1> QED
  BY <1>1, <1>2, NextCases

LEMMA MatchedMain ==
  ASSUME TypeOK, PlaceInv, MatchedInv, MainStep
  PROVE  MatchedInv'
<1> USE DEF MatchedInv, flagVars, threadVars, libVars
<1>0. /\ current \in Bridge /\ current \in Nat /\ N \in Nat
      /\ \A b \in Bridge : b \in Nat /\ 1 <= b /\ b <= N
      /\ unmatched \subseteq Bridge
  BY BridgeRange DEF TypeOK
<1>1. CASE NoLibInit
  <2>1. net[current] = "off" /\ desc[current] # "publishing" /\ ~is_initialized[current]
    BY <1>0, <1>1 DEF NoLibInit, PlaceInv, Linked, At
  <2>2. \A u \in unmatched : u < current
    BY <1>1 DEF NoLibInit, Building
  <2>3. mainPc' \in Building => current' = current + 1
    BY <1>1 DEF NoLibInit, NextBridge, Building
  <2> QED
    BY <1>0, <1>1, <2>1, <2>2, <2>3 DEF NoLibInit
<1>2. CASE initMqttFails \/ initialize
  <2>1. mainPc \in Building /\ (mainPc' \in Building => current' = current + 1)
    BY <1>2 DEF initMqttFails, initialize, NextBridge, Building
  <2>2. current \notin unmatched /\ \A u \in unmatched : u < current
    BY <1>0, <2>1
  <2> QED
    <3>1. CASE initMqttFails
      BY <1>0, <2>1, <2>2, <3>1 DEF initMqttFails
    <3>2. CASE initialize
      BY <1>0, <2>1, <2>2, <3>2 DEF initialize, TypeOK
    <3> QED
      BY <1>2, <3>1, <3>2
<1>3. CASE initMqtt
  <2>1. current \notin unmatched
    BY <1>0, <1>3 DEF initMqtt, Building
  <2> QED
    BY <1>0, <1>3, <2>1 DEF initMqtt, Goto, Building, TypeOK
<1>4. CASE Construct \/ initEcal
  BY <1>4 DEF Construct, initEcal, Goto, Building, TypeOK
<1>5. CASE SupervisionEnds
  BY <1>5 DEF SupervisionEnds, NextBridge, Building
<1>6. CASE DestroyDeactivate \/ DestroyDeinitialize \/ DestroyJoin \/ DestroyLoopStop
  BY <1>6 DEF DestroyDeactivate, DestroyDeinitialize, DestroyJoin, DestroyLoopStop,
              Goto, Building, TypeOK
<1>7. CASE DestroyLibCleanup \/ DestroyPublishers \/ DestroySubscribers \/ DestroyFinalize
  BY <1>7 DEF DestroyLibCleanup, DestroyPublishers, DestroySubscribers, DestroyFinalize,
              Goto, Building
<1>8. CASE Destroyed
  BY <1>8 DEF Destroyed, NextBridge, Building
<1> QED
  BY <1>1, <1>2, <1>3, <1>4, <1>5, <1>6, <1>7, <1>8 DEF MainStep

LEMMA MatchedStep == TypeOK /\ PlaceInv /\ MatchedInv /\ [Next]_vars => MatchedInv'
<1> SUFFICES ASSUME TypeOK, PlaceInv, MatchedInv, [Next]_vars
             PROVE  MatchedInv'
  OBVIOUS
<1> USE DEF MatchedInv, mainVars, flagVars, threadVars, libVars
<1>1. CASE MainStep
  BY <1>1, MatchedMain
<1>2. CASE ThreadStep
  <2>1. UNCHANGED <<mainVars, is_initialized, unmatched>>
    BY <1>2, ThreadsLeave
  <2>2. \A b \in Bridge :
          (net'[b] # "off" \/ desc'[b] = "publishing")
            => net[b] # "off" \/ desc[b] = "publishing" \/ is_initialized[b]
    BY <1>2 DEF ThreadStep, RegistrationStored, on_message, MessageHandled,
                ecalMessageReceived, EcalPublished, descriptorUpdateLoop, DescGoto,
                onPublisherRegistration, TypeOK
  <2> QED
    BY <2>1, <2>2
<1>3. CASE Shutdown \/ UNCHANGED vars
  BY <1>3 DEF Shutdown, vars
<1> QED
  BY <1>1, <1>2, <1>3, NextCases

(* The destructor told the descriptor thread to stop before it joins it.   *)
StopInv ==
  mainPc \in Destroying \ {"deactivate"} => ~mqtt_desc_thread_active[current]

LEMMA StopStep == TypeOK /\ StopInv /\ [Next]_vars => StopInv'
<1> SUFFICES ASSUME TypeOK, StopInv, [Next]_vars
             PROVE  StopInv'
  OBVIOUS
<1> USE DEF StopInv, Destroying, mainVars, flagVars, Goto, NextBridge
<1>1. CASE Construct \/ initEcal \/ NoLibInit \/ initMqttFails \/ initMqtt \/ initialize
  BY <1>1 DEF Construct, initEcal, NoLibInit, initMqttFails, initMqtt, initialize
<1>2. CASE SupervisionEnds \/ Destroyed
  BY <1>2 DEF SupervisionEnds, Destroyed
<1>3. CASE DestroyDeactivate
  BY <1>3 DEF DestroyDeactivate, TypeOK
<1>4. CASE \/ DestroyDeinitialize \/ DestroyJoin \/ DestroyLoopStop \/ DestroyLibCleanup
           \/ DestroyPublishers \/ DestroySubscribers \/ DestroyFinalize
  BY <1>4 DEF DestroyDeinitialize, DestroyJoin, DestroyLoopStop, DestroyLibCleanup,
              DestroyPublishers, DestroySubscribers, DestroyFinalize
<1>5. CASE Shutdown \/ ThreadStep \/ UNCHANGED vars
  BY <1>5, ThreadsLeave DEF Shutdown, vars
<1> QED
  BY <1>1, <1>2, <1>3, <1>4, <1>5, NextCases DEF MainStep
-----------------------------------------------------------------------------
(* All bridges up to b were users of eCAL, and how many bridges have given *)
(* that up.                                                                *)
EcalUp(b) == \A u \in Bridge : u <= b => publishers[u] # "none"

Finalized ==
  IF mainPc = "finalized" THEN current
  ELSE IF mainPc \in Destroying THEN current - 1 ELSE 0

(* If no bridge up to b missed eCAL::Initialize, all of them have their    *)
(* use of eCAL until they give it up.                                      *)
EcalInv ==
  /\ mainPc # "done" =>
       \A b \in Bridge : EcalUp(b) => b <= ecal_refs + Finalized
  /\ mainPc \in Building => \A b \in Bridge : b > current => publishers[b] = "none"
  /\ \A b \in Bridge : recv[b] # "none" => publishers[b] # "none"

LEMMA EcalInit == Init => EcalInv
BY ConstantsAssumption, BridgeRange DEF Init, EcalInv, EcalUp, Bridge

LEMMA EcalMain ==
  ASSUME TypeOK, EcalInv, MainStep
  PROVE  EcalInv'
<1> USE DEF EcalInv, EcalUp, Finalized, Building, Destroying, Goto, NextBridge,
            threadVars, ecalVars
<1>0. /\ current \in Bridge /\ current \in Nat /\ 1 <= current /\ N \in Nat
      /\ current <= N /\ ecal_refs \in Nat
      /\ \A b \in Bridge : b \in Nat /\ 1 <= b /\ b <= N
  BY BridgeRange DEF TypeOK
<1>1. CASE initEcal
  <2>1. /\ publishers' = [publishers EXCEPT ![current] = "exist"]
        /\ ecal_refs' = ecal_refs + 1
        /\ mainPc = "init_ecal" /\ mainPc' = "init_mqtt" /\ current' = current
        /\ recv' = [recv EXCEPT ![current] = "idle"]
    BY <1>1 DEF initEcal
  <2>2. ASSUME NEW b \in Bridge, EcalUp(b)'
        PROVE  b <= ecal_refs'
    <3>1. b <= current
      <4>1. b > current => publishers'[b] = "none"
        BY <1>0, <2>1 DEF TypeOK
      <4> QED
        BY <1>0, <2>2, <4>1
    <3>2. \A u \in Bridge : u < b => publishers[u] # "none"
      BY <1>0, <2>1, <2>2, <3>1 DEF TypeOK
    <3>3. CASE b = 1
      BY <1>0, <2>1, <3>3
    <3>4. CASE b # 1
      <4> DEFINE a == b - 1
      <4>1. a \in Bridge /\ EcalUp(a)
        BY <1>0, <3>2, <3>4 DEF Bridge
      <4>2. a <= ecal_refs + Finalized
        BY <2>1, <4>1
      <4> QED
        BY <1>0, <2>1, <4>2
    <3> QED
      BY <3>3, <3>4
  <2>3. \A b \in Bridge : b > current => publishers'[b] = "none"
    BY <1>0, <2>1 DEF TypeOK
  <2>4. \A b \in Bridge : recv'[b] # "none" => publishers'[b] # "none"
    BY <2>1 DEF TypeOK
  <2>5. ecal_refs' + Finalized' = ecal_refs'
    BY <1>0, <2>1
  <2> QED
    BY <2>1, <2>2, <2>3, <2>4, <2>5
<1>2. CASE Construct \/ initMqtt
  BY <1>0, <1>2 DEF Construct, initMqtt
<1>3. CASE NoLibInit \/ initMqttFails \/ initialize
  BY <1>0, <1>3 DEF NoLibInit, initMqttFails, initialize
<1>4. CASE SupervisionEnds
  BY <1>0, <1>4 DEF SupervisionEnds
<1>5. CASE DestroyDeactivate \/ DestroyDeinitialize \/ DestroyJoin \/ DestroyLoopStop
  BY <1>0, <1>5 DEF DestroyDeactivate, DestroyDeinitialize, DestroyJoin, DestroyLoopStop
<1>6. CASE DestroyLibCleanup \/ DestroySubscribers
  BY <1>0, <1>6 DEF DestroyLibCleanup, DestroySubscribers, TypeOK
<1>7. CASE DestroyPublishers
  <2>1. \A b \in Bridge : publishers'[b] # "none" <=> publishers[b] # "none"
    BY <1>7 DEF DestroyPublishers, TypeOK
  <2> QED
    BY <1>0, <1>7, <2>1 DEF DestroyPublishers
<1>8. CASE DestroyFinalize
  <2>1. ecal_refs + Finalized <= ecal_refs' + Finalized'
    BY <1>0, <1>8 DEF DestroyFinalize
  <2>2. ecal_refs' \in Nat /\ Finalized' \in Nat /\ Finalized \in Nat
    BY <1>0, <1>8 DEF DestroyFinalize
  <2>3. \A b \in Bridge : EcalUp(b) => b <= ecal_refs' + Finalized'
    BY <1>0, <1>8, <2>1, <2>2 DEF DestroyFinalize
  <2> QED
    BY <1>8, <2>3 DEF DestroyFinalize
<1>9. CASE Destroyed
  BY <1>0, <1>9 DEF Destroyed
<1> QED
  BY <1>1, <1>2, <1>3, <1>4, <1>5, <1>6, <1>7, <1>8, <1>9 DEF MainStep

LEMMA EcalStep == TypeOK /\ EcalInv /\ [Next]_vars => EcalInv'
<1> SUFFICES ASSUME TypeOK, EcalInv, [Next]_vars
             PROVE  EcalInv'
  OBVIOUS
<1>1. CASE MainStep
  BY <1>1, EcalMain
<1>2. CASE Shutdown \/ ThreadStep \/ UNCHANGED vars
  <2>1. UNCHANGED <<mainVars, publishers, ecal_refs>>
    BY <1>2, ThreadsLeave DEF Shutdown, vars, ecalVars
  <2>2. \A b \in Bridge : recv'[b] # "none" => recv[b] # "none"
    BY <1>2 DEF ThreadStep, RegistrationStored, on_message, MessageHandled,
                ecalMessageReceived, EcalPublished, descriptorUpdateLoop, DescGoto,
                onPublisherRegistration, Shutdown, vars, threadVars, TypeOK
  <2> QED
    BY <2>1, <2>2 DEF EcalInv, EcalUp, Finalized, mainVars
<1> QED
  BY <1>1, <1>2, NextCases
-----------------------------------------------------------------------------
IInv ==
  TypeOK /\ CountInv /\ PlaceInv /\ HeldInv /\ MatchedInv /\ StopInv /\ EcalInv

LEMMA Invariance == Spec => []IInv
<1>1. Init => IInv
  BY TypeInit, CountInit, PlaceInit, HeldInit, EcalInit DEF IInv, StopInv, Init, Destroying
<1>2. IInv /\ [Next]_vars => IInv'
  BY TypeStep, CountStep, PlaceStep, HeldStep, MatchedStep, StopStep, EcalStep
     DEF IInv
<1> QED
  BY <1>1, <1>2, PTL DEF Spec

(* Publishers exist whenever a network thread may be in on_message.        *)
THEOREM PublishersOutliveUseCorrect == Spec => []PublishersOutliveUse
<1>1. IInv => PublishersOutliveUse
  BY DEF IInv, PlaceInv, PublishersOutliveUse
<1> QED
  BY <1>1, Invariance, PTL

(* The mosquitto library has users left as long as a network thread or a   *)
(* publishing descriptor thread of a bridge is there, if no bridge before  *)
(* it missed its lib_init: the bridges behind it still have to come to     *)
(* their destructors, and what they missed takes nothing away by then.     *)
THEOREM LibraryHeldCorrect == Spec => []LibraryHeld
<1>1. ASSUME IInv, NEW b \in Bridge, \A u \in unmatched : u >= b,
             net[b] # "off" \/ desc[b] = "publishing"
      PROVE  lib_refs > 0
  <2>1. Linked(b)
    BY <1>1 DEF IInv, PlaceInv
  <2>2. /\ current \in Nat /\ 1 <= current /\ current <= N /\ N \in Nat
        /\ b \in Nat /\ 1 <= b /\ b <= N
        /\ lib_refs \in Nat
        /\ unmatched \subseteq Nat
    BY <1>1, BridgeRange DEF IInv, TypeOK
  <2>3. \A u \in unmatched : u > b
    BY <1>1, <2>2 DEF IInv, MatchedInv
  <2>4. mainPc # "done" /\ Counted(b)
    BY <2>1, <2>2 DEF Linked, Built, Before, After, At, Counted, Building
  <2>5. b <= lib_refs + Cleaned
    BY <1>1, <2>3, <2>4 DEF IInv, HeldInv
  <2>6. Cleaned \in Nat /\ Cleaned < b
    BY <2>1, <2>2 DEF Linked, Built, After, At, Cleaned, Destroying
  <2> QED
    BY <2>2, <2>5, <2>6
<1>2. IInv => LibraryHeld
  BY <1>1 DEF LibraryHeld
<1> QED
  BY <1>2, Invariance, PTL

(* eCAL has users left as long as a bridge has subscribers, if no bridge   *)
(* before it missed eCAL::Initialize.                                      *)
THEOREM EcalHeldCorrect == Spec => []EcalHeld
<1>1. ASSUME IInv, NEW b \in Bridge, recv[b] # "none",
             \A u \in Bridge : u < b => publishers[u] # "none"
      PROVE  ecal_refs > 0
  <2>1. Built(b) /\ ~At(b, {"finalize", "finalized"})
    BY <1>1 DEF IInv, PlaceInv, At
  <2>2. /\ current \in Nat /\ 1 <= current /\ b \in Nat /\ 1 <= b
        /\ ecal_refs \in Nat
        /\ \A u \in Bridge : u \in Nat
    BY <1>1, BridgeRange DEF IInv, TypeOK
  <2>3. EcalUp(b)
    BY <1>1, <2>2 DEF IInv, EcalInv, EcalUp
  <2>4. mainPc # "done" /\ Finalized \in Nat /\ Finalized < b
    BY <2>1, <2>2 DEF Built, After, At, Finalized, Destroying
  <2>5. b <= ecal_refs + Finalized
    BY <1>1, <2>3, <2>4 DEF IInv, EcalInv
  <2> QED
    BY <2>2, <2>4, <2>5
<1>2. IInv => EcalHeld
  BY <1>1 DEF EcalHeld
<1> QED
  BY <1>2, Invariance, PTL

(* No thread finds a bridge that is not there.  A registration finds one   *)
(* that is, or that was and is not the last: main is done with the last    *)
(* only when eCAL has ended and its registration thread is joined.         *)
THEOREM CallbacksHaveBridgeCorrect == Spec => []CallbacksHaveBridge
<1>1. ASSUME IInv, NEW b \in Bridge
      PROVE  /\ (net[b] # "off" \/ recv[b] # "none" \/ desc[b] \notin {"off", "exit"})
                  => status[b] = "alive"
             /\ (reg = b \/ b \in callbacks)
                  => status[b] = "alive" \/ (b < N /\ status[b] = "destroyed")
  <2>1. Built(b) => status[b] = "alive"
    BY <1>1 DEF IInv, PlaceInv
  <2>2. ASSUME net[b] # "off" \/ recv[b] # "none" \/ desc[b] \notin {"off", "exit"}
        PROVE  Built(b)
    BY <1>1, <2>2 DEF IInv, PlaceInv, Linked
  <2>3. ASSUME reg = b \/ b \in callbacks, ~Built(b)
        PROVE  b < N /\ status[b] = "destroyed"
    <3>1. mainPc # "done"
      BY <1>1, <2>3, BridgeRange DEF IInv, PlaceInv, NoBridge
    <3>2. After(b)
      <4>1. ~Before(b)
        BY <1>1, <2>3 DEF IInv, PlaceInv
      <4> QED
        BY <2>3, <4>1 DEF Built
    <3>3. b < N
      <4>1. b < current
        BY <3>1, <3>2 DEF After
      <4>2. current \in Bridge
        BY <1>1 DEF IInv, TypeOK
      <4>3. /\ b \in Nat /\ current \in Nat /\ N \in Nat
            /\ current <= N
        BY <4>2, BridgeRange
      <4> QED
        BY <4>1, <4>3
    <3>4. status[b] = "destroyed"
      BY <1>1, <3>2 DEF IInv, PlaceInv
    <3> QED
      BY <3>3, <3>4
  <2> QED
    BY <2>1, <2>2, <2>3
<1>2. IInv => CallbacksHaveBridge
  BY <1>1 DEF CallbacksHaveBridge
<1> QED
  BY <1>2, Invariance, PTL

(* Nothing that a destructor waits for begins again while it waits.        *)
THEOREM WaitsOnlyShrinkCorrect == Spec => WaitsOnlyShrink
<1> DEFINE Shrink ==
      /\ (mainPc = "join" /\ desc[current] = "loop")
           => desc'[current] \in {"loop", "exit"}
      /\ (mainPc = "subscribers" /\ recv[current] = "idle")
           => recv'[current] # "publishing"
      /\ (mainPc = "finalized" /\ ecal_refs = 0 /\ reg = NoBridge)
           => reg' = NoBridge
<1>1. IInv /\ [Next]_vars => [Shrink]_vars
  <2> SUFFICES ASSUME IInv, Next
               PROVE  Shrink
    OBVIOUS
  <2> USE DEF Next, MainStep, Construct, initEcal, NoLibInit, initMqttFails, initMqtt,
              initialize, SupervisionEnds, DestroyDeactivate, DestroyDeinitialize,
              DestroyJoin, DestroyLoopStop, DestroyLibCleanup, DestroyPublishers,
              DestroySubscribers, DestroyFinalize, Destroyed, Shutdown, Done,
              RegistrationStored, on_message, MessageHandled, ecalMessageReceived,
              EcalPublished, descriptorUpdateLoop, DescGoto, onPublisherRegistration,
              IInv, TypeOK, threadVars, vars
  <2>1. ASSUME mainPc = "join", desc[current] = "loop"
        PROVE  desc'[current] \in {"loop", "exit"}
    <3>1. ~mqtt_desc_thread_active[current] /\ current \in Bridge
      BY <2>1 DEF IInv, StopInv, TypeOK, Destroying
    <3> QED
      BY <2>1, <3>1
  <2>2. ASSUME mainPc = "subscribers", recv[current] = "idle"
        PROVE  recv'[current] # "publishing"
    <3>1. ~is_initialized[current] /\ current \in Bridge
      BY <2>2 DEF IInv, PlaceInv, TypeOK, Destroying
    <3> QED
      BY <2>2, <3>1
  <2>3. ASSUME mainPc = "finalized", ecal_refs = 0, reg = NoBridge
        PROVE  reg' = NoBridge
    <3>1. callbacks = {}
      BY <2>3 DEF IInv, CountInv
    <3> QED
      BY <2>3, <3>1
  <2> QED
    BY <2>1, <2>2, <2>3
<1> QED
  BY <1>1, Invariance, PTL DEF Spec, WaitsOnlyShrink
=============================================================================
