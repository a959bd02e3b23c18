------------------------------ MODULE MCPinStore ------------------------------
(* Instances of PinStore for TLC. *)
EXTENDS PinStore, TLC

MCWeight == [p \in Pins |-> 1]
MCSymmetry == Permutations(Pins) \cup Permutations(Calls) \cup Permutations(Servers)
=============================================================================
