----------------------------- MODULE SessionLink -----------------------------
(***************************************************************************)
(* What the rest of a bridge may expect of its broker connection, whoever  *)
(* opens, loses and replaces sessions in what order: a session is greeted  *)
(* by on_connect once, only on_connect subscribes, and it reports a live   *)
(* session as connected only if all topics of that session are subscribed. *)
(* BridgeLink implements this; MqttIngress is built on it.                 *)
(***************************************************************************)
CONSTANT Topics

VARIABLES
  is_initialized,
  is_connected_to_mqtt_broker,
  link,          \* the client's connection
  subscribed,    \* the subscriptions of its session
  greeting       \* on_connect runs

linkVars == <<link, subscribed>>
vars == <<is_initialized, is_connected_to_mqtt_broker, linkVars, greeting>>

Init ==
  /\ is_initialized = FALSE
  /\ is_connected_to_mqtt_broker = FALSE
  /\ link = "down"
  /\ subscribed = {}
  /\ greeting = FALSE

Initialize ==
  /\ is_initialized' = TRUE
  /\ UNCHANGED <<is_connected_to_mqtt_broker, linkVars, greeting>>

(* A new session replaces what was there; or the old one is closed and no  *)
(* new one is opened.                                                      *)
Open ==
  /\ link' \in {"connecting", "down"}
  /\ subscribed' = {}
  /\ UNCHANGED <<is_initialized, is_connected_to_mqtt_broker, greeting>>

Greet ==
  /\ ~greeting
  /\ link = "connecting"
  /\ link' = "up"
  /\ greeting' = TRUE
  /\ UNCHANGED <<is_initialized, is_connected_to_mqtt_broker, subscribed>>

Subscribe(t) ==
  /\ greeting
  /\ link = "up"
  /\ subscribed' = subscribed \union {t}
  /\ UNCHANGED <<is_initialized, is_connected_to_mqtt_broker, link, greeting>>

(* on_connect ends: it reached its end, or a subscribe() failed. *)
Raise ==
  /\ greeting
  /\ link = "up" => Topics \subseteq subscribed
  /\ greeting' = FALSE
  /\ is_connected_to_mqtt_broker' = TRUE
  /\ UNCHANGED <<is_initialized, linkVars>>

GiveUp ==
  /\ greeting
  /\ greeting' = FALSE
  /\ UNCHANGED <<is_initialized, is_connected_to_mqtt_broker, linkVars>>

Lose ==
  /\ link \in {"connecting", "up"}
  /\ link' = "lost"
  /\ UNCHANGED <<is_initialized, is_connected_to_mqtt_broker, subscribed, greeting>>

(* on_disconnect is for the session that was lost: nobody lowers the flag  *)
(* of a live one.                                                          *)
Lower ==
  /\ ~greeting
  /\ link = "lost"
  /\ link' = "down"
  /\ is_connected_to_mqtt_broker' = FALSE
  /\ UNCHANGED <<is_initialized, subscribed, greeting>>

Next ==
  \/ Initialize \/ Open \/ Greet \/ Raise \/ GiveUp \/ Lose \/ Lower
  \/ \E t \in Topics : Subscribe(t)

Spec == Init /\ [][Next]_vars
=============================================================================
