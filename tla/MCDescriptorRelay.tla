-------------------------- MODULE MCDescriptorRelay --------------------------
(* DescriptorRelay for TLC: configurations small enough to explore. *)
EXTENDS DescriptorRelay

Topic(e, d, t) == [ecal |-> e, descriptor |-> d, type |-> t]

(* Two eCAL topics: both kinds of metadata for one, a descriptor for the   *)
(* other.                                                                  *)
TwoTopics == <<Topic("e1", "d1", "t1"), Topic("e2", "d2", "none")>>
(* One eCAL topic with both kinds. *)
OneTopic == <<Topic("e1", "d1", "t1")>>
(* One eCAL topic whose type name alone is relayed. *)
TypeOnly == <<Topic("e1", "none", "t1")>>
=============================================================================
