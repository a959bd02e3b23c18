---------------------------- MODULE LastKnownGood ----------------------------
(***************************************************************************)
(* What a refreshing package promises the code that resolves against it:    *)
(* once something serves, something always serves; what serves was accepted *)
(* by the load pipeline; it is replaced only by a package of the primary    *)
(* source, never by the fallback again; and no layer of it ever goes back   *)
(* to an older publication.                                                 *)
(***************************************************************************)
EXTENDS Integers

CONSTANTS Layers, MaxVersion, Rejected

VARIABLES
    offered,   \* the latest publication of every layer
    live,      \* whether a package serves
    serving    \* that package: its content and whether it is the fallback

lkgVars == <<offered, live, serving>>

Versions == 0..MaxVersion
Acceptable(content) == \A l \in Layers : <<l, content[l]>> \notin Rejected

Init ==
    /\ offered = [l \in Layers |-> 0]
    /\ live = FALSE
    /\ serving = [content |-> [l \in Layers |-> 0], fallback |-> FALSE]

Offer ==
    /\ \E l \in Layers : offered' = [offered EXCEPT ![l] = @ + 1]
    /\ UNCHANGED <<live, serving>>

\* A composition of publications no older than `floor`.
Composition(content, floor) ==
    /\ \A l \in Layers : floor[l] <= content[l] /\ content[l] <= offered[l]
    /\ Acceptable(content)

StartPrimary ==
    /\ ~live
    /\ live' = TRUE
    /\ \E content \in [Layers -> Versions] :
          /\ Composition(content, [l \in Layers |-> 0])
          /\ serving' = [content |-> content, fallback |-> FALSE]
    /\ UNCHANGED offered

StartFallback ==
    /\ ~live
    /\ live' = TRUE
    /\ serving' = [content |-> [l \in Layers |-> 0], fallback |-> TRUE]
    /\ UNCHANGED offered

Advance ==
    /\ live
    /\ \E content \in [Layers -> Versions] :
          /\ Composition(content, serving.content)
          /\ serving' = [content |-> content, fallback |-> FALSE]
    /\ UNCHANGED <<offered, live>>

Next == Offer \/ StartPrimary \/ StartFallback \/ Advance

Spec == Init /\ [][Next]_lkgVars
=============================================================================
