------------------------- MODULE MCRefreshingPackage -------------------------
(* Instances of RefreshingPackage for TLC. *)
EXTENDS RefreshingPackage, TLC

\* Every layer tracked, and every layer at a full commit.
MCTracked == [l \in Layers |-> "tracked"]
MCPinned == [l \in Layers |-> "pinned"]
MCRejectedParent == {<<1, 1>>}
=============================================================================
