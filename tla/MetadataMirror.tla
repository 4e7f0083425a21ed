--------------------------- MODULE MetadataMirror ---------------------------
(***************************************************************************)
(* What the users of the bridge may expect of the MQTT metadata topics     *)
(* (descriptor and type name of an eCAL topic): each of them follows the   *)
(* registrations of its eCAL topic.  It may lag and skip versions, never   *)
(* goes back to an older one, never shows one that was not announced, and  *)
(* falls silent for good once the bridge is closed.                        *)
(***************************************************************************)
EXTENDS Naturals

CONSTANTS
  Source,      \* eCAL topics
  Cell,        \* MQTT metadata topics
  SourceOf     \* the eCAL topic a metadata topic belongs to

VARIABLES
  announced,   \* version of the last registration of each eCAL topic, 0: none
  held,        \* version the bridge holds for each metadata topic, 0: none
  relayed,     \* version last seen on each metadata topic, 0: none
  open

vars == <<announced, held, relayed, open>>

Init ==
  /\ announced = [s \in Source |-> 0]
  /\ held = [c \in Cell |-> 0]
  /\ relayed = [c \in Cell |-> 0]
  /\ open = TRUE

Announce(s) ==
  /\ announced' = [announced EXCEPT ![s] = @ + 1]
  /\ UNCHANGED <<held, relayed, open>>

Learn(c) ==
  /\ held'[c] \in held[c] .. announced[SourceOf[c]]
  /\ held' = [held EXCEPT ![c] = held'[c]]
  /\ UNCHANGED <<announced, relayed, open>>

Relay(c) ==
  /\ open
  /\ relayed' = [relayed EXCEPT ![c] = held[c]]
  /\ UNCHANGED <<announced, held, open>>

Close ==
  /\ open' = FALSE
  /\ UNCHANGED <<announced, held, relayed>>

Next ==
  \/ \E s \in Source : Announce(s)
  \/ \E c \in Cell : Learn(c) \/ Relay(c)
  \/ Close

Spec == Init /\ [][Next]_vars
-----------------------------------------------------------------------------
(* A metadata topic lags behind the bridge, and the bridge behind eCAL: a  *)
(* topic never shows what was not announced (Bridge.cpp 76-87, 161-193).   *)
Ordered ==
  \A c \in Cell : relayed[c] <= held[c] /\ held[c] <= announced[SourceOf[c]]

(* A metadata topic never goes back to an older registration               *)
(* (Bridge.cpp 76-87, 161-193).                                            *)
NeverGoesBack == [][\A c \in Cell : relayed[c] <= relayed'[c]]_vars
=============================================================================
