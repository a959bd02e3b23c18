--------------------------- MODULE MCRefreshSafety ---------------------------
(* The lifecycle over tracked layers and over layers that are all full      *)
(* commits, side by side: which of the two a behaviour is about is chosen    *)
(* when it starts.                                                          *)
EXTENDS MCRefreshingPackage

VARIABLE instance

Pinned == INSTANCE RefreshingPackage WITH Kind <- MCPinned

SafetyInit == instance \in {"tracked", "pinned"} /\ Init

TrackedNext == instance = "tracked" /\ Next /\ UNCHANGED instance
PinnedNext == instance = "pinned" /\ Pinned!Next /\ UNCHANGED instance

SafetySpec == SafetyInit /\ [][TrackedNext \/ PinnedNext]_<<vars, instance>>

\* A primary made of full commits is final: whoever asks for a refresh, and
\* however often, the package that serves is never loaded again
\* (PinnedIsFinal, of the behaviours over full commits).
PinnedStaysFinal ==
    [][instance = "pinned" /\ phase = "serving" /\ ~current.fallback => UNCHANGED current]_<<vars, instance>>
=============================================================================
