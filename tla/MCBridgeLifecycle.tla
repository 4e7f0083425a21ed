-------------------------- MODULE MCBridgeLifecycle --------------------------
(* BridgeLifecycle for TLC: three bridges, the first and the last of which *)
(* have a descriptor topic, so that one registration callback outlives its *)
(* bridge and the other does not.                                          *)
EXTENDS BridgeLifecycle

MCRelaying   == {1, 3}
MCDescribing == {1, 3}
=============================================================================
