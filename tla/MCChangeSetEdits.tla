--------------------------- MODULE MCChangeSetEdits ---------------------------
(* Instances of ChangeSetEdits for TLC. *)
EXTENDS ChangeSetEdits, TLC

CONSTANTS alice, bob, carol, price, notes

\* alice created the change set, bob helps her, carol has the role of the price.
MCPeople == {alice, bob, carol}
MCFiles == {price, notes}
MCNeed == [f \in Files |-> IF f = price THEN "role" ELSE "second"]
=============================================================================
