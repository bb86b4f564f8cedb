------------------------- MODULE MCEventDispatcher -------------------------
(* Instances of EventDispatcher for TLC. *)
EXTENDS EventDispatcher, TLC

(* Every event has the one type that has a handler slot.                   *)
OneType == [e \in Events |-> 0]

(* Addresses carry no order in the model, and events no content.           *)
Perms == Permutations(Addresses) \union Permutations(Events)
=============================================================================
