--------------------------- MODULE MCPackageLayers ---------------------------
(* Instances of PackageLayers for TLC: the worlds.                          *)
EXTENDS PackageLayers, TLC

\* app extends left, left extends base; or app extends left and right; or both
\* of these extend base, or left alone; or left extends app again.
Shape(a, l, r) ==
    [app |-> a, left |-> l, right |-> r, base |-> << >>]
ChainShape == Shape(<<"left">>, <<"base">>, << >>)
ForkShape == Shape(<<"left", "right">>, << >>, << >>)
DiamondShape == Shape(<<"left", "right">>, <<"base">>, <<"base">>)
BentShape == Shape(<<"left", "right">>, <<"base">>, << >>)
CyclicShape == Shape(<<"left", "right">>, <<"app">>, << >>)

One == Landed([a |-> 1, b |-> 1])
Two == Landed([a |-> 2, b |-> 1])
Updates(update) == Ships(Absent, update, FALSE)
Contradictions(full, update) ==
    {Ships(full, update, FALSE), Ships(full, Absent, TRUE), Ships(Absent, update, TRUE)}
Deletes == Ships(Absent, Absent, TRUE)

Entries == {Silent, One, Two, Updates([a |-> 3]), Updates([b |-> 3]), Deletes}
            \cup Contradictions([a |-> 1, b |-> 1], [a |-> 3])
Resolves(n) == [type |-> 0, resolve |-> n]
Variables == {Silent, Landed(Resolves(1)), Landed(Resolves(2)), Landed(Resolves(3)), Updates([resolve |-> 3]),
              Updates([description |-> 3]), Updates([type |-> 1]),
              Ships(Resolves(1), [resolve |-> 3], FALSE)}
Members(set) == [members |-> set]
Lists == {Silent, Landed(Members({1})), Landed(Members({1, 2})), Landed(Members({1, 3})), Updates(Members({2})),
          Updates([deleted |-> {1}]), Updates([members |-> {3}, deleted |-> {1}]),
          Updates([members |-> {1}, deleted |-> {1}]), Ships(Members({1}), Members({3}), FALSE)}
Wholes == {Silent, One, Two}

Kinds == {"entry", "variable", "list", "layer", "schema", "lint"}
ShippedOf(kind) ==
    CASE kind = "entry" -> Entries
      [] kind = "variable" -> Variables
      [] kind = "list" -> Lists
      [] OTHER -> Wholes

Open(operations) == Gate(operations, {}, NoPolicy, NoPolicy)
OnlyField(f) == Policy(Anything, [allowed |-> {f}, denied |-> {}])
All == {"add", "update", "delete"}
Contracts == {
    NoContract,
    Contract(Open(All), NoGate),
    Contract(Open(All), Gate({}, {"update"}, NoPolicy, NoPolicy)),
    Contract(NoGate, Open({"update"})),
    Contract(NoGate, Gate({"update", "delete"}, {}, OnlyField("a"), NoPolicy))}

LeftContracts == {NoContract, Contract(Open(All), NoGate), Contract(NoGate, Open({"update"}))}

Everywhere(value) == [p \in {"app", "left", "right", "base"} |-> value]
World(shape, kind, ships, contracts, catalogued) ==
    [root |-> "app", extends |-> shape, kind |-> kind, ships |-> ships,
     contracts |-> contracts, catalogued |-> catalogued]

\* What the overlay on top and the base at the bottom of a chain may ship.
Clean(kind) == {s \in ShippedOf(kind) : s.full = Absent \/ ~Marks(s)}
Bottoms(kind) == {Silent} \cup {s \in ShippedOf(kind) : s.full # Absent /\ ~Marks(s)}
Tops(kind) == IF kind \in {"entry", "variable"} THEN Clean(kind) ELSE ShippedOf(kind)
Catalogued(kind) == IF kind = "entry" THEN {"base"} ELSE {}

ChainShips(a, l, b) == [Everywhere(Silent) EXCEPT !.app = a, !.left = l, !.base = b]
ChainContracts(cl, cb) == [Everywhere(NoContract) EXCEPT !.left = cl, !.base = cb]
ChainWorlds(kind) ==
    {World(ChainShape, kind, ChainShips(a, l, b), ChainContracts(cl, cb), Catalogued(kind)) :
       a \in Tops(kind), l \in ShippedOf(kind), b \in Bottoms(kind),
       cl \in IF kind = "entry" THEN LeftContracts ELSE {NoContract},
       cb \in IF kind = "entry" THEN Contracts ELSE LeftContracts}
\* Bases beside each other: two that are no overlays, two of one base, or one
\* that is an overlay and one that is not.
ForkShips(l, r) == [Everywhere(Silent) EXCEPT !.left = l, !.right = r]
ForkContracts(cr) ==
    [Everywhere(NoContract) EXCEPT !.left = Contract(Open(All), NoGate), !.right = cr]
ForkWorlds(kind) ==
    {World(ForkShape, kind, ForkShips(l, r), ForkContracts(cr), {}) :
       l \in ShippedOf(kind), r \in ShippedOf(kind), cr \in {NoContract, Contract(NoGate, Open({"update"}))}}
DiamondShips(l, r, b) == [Everywhere(Silent) EXCEPT !.left = l, !.right = r, !.base = b]
DiamondContracts == [Everywhere(NoContract) EXCEPT !.base = Contract(Open(All), NoGate)]
DiamondWorlds(kind) ==
    {World(DiamondShape, kind, DiamondShips(l, r, b), DiamondContracts, Catalogued(kind)) :
       l \in Clean(kind), r \in Clean(kind), b \in Bottoms(kind)}
BentWorlds(kind) ==
    {World(BentShape, kind, DiamondShips(l, r, b), DiamondContracts, Catalogued(kind)) :
       l \in Clean(kind), r \in ShippedOf(kind), b \in Bottoms(kind)}
CyclicWorlds == {World(CyclicShape, "lint", Everywhere(Silent), Everywhere(NoContract), {})}
LayerWorlds ==
    (UNION {ChainWorlds(kind) : kind \in Kinds})
      \cup (UNION {ForkWorlds(kind) \cup DiamondWorlds(kind) \cup BentWorlds(kind) : kind \in {"entry", "variable", "list"}})
      \cup CyclicWorlds
=============================================================================
