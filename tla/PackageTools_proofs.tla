------------------------ MODULE PackageTools_proofs ------------------------
(***************************************************************************)
(* The tools on a package side by side: each behaves beside the others as    *)
(* it does alone, so what is proved of resolution, of the diff, of the       *)
(* language server, of the composition of layers and of the edit engine is   *)
(* proved of them.                                                           *)
(***************************************************************************)
EXTENDS MCPackageTools, Resolution_proofs

-----------------------------------------------------------------------------
(* The tools side by side.                                                  *)

\* Every step of the tools is a step of the session, or leaves it alone.
LEMMA SessionAsAlone == ToolsSpec => Tool!SessionSpec
<1>1. ToolsInit => Tool!SessionInit
  BY DEF ToolsInit
<1>2. UNCHANGED serverVars => UNCHANGED Tool!sessionVars
  BY DEF serverVars, Tool!sessionVars
<1>3. [ServerStep \/ CompositionStep \/ ResolutionStep \/ DiffStep \/ EditStep]_<<
          focus, serverVars, layerVars, vars, diffVars, editVars>>
      => [Tool!SessionNext]_Tool!sessionVars
  BY <1>2 DEF ServerStep, CompositionStep, ResolutionStep, DiffStep, EditStep
<1> QED
  BY <1>1, <1>3, PTL DEF ToolsSpec, Tool!SessionSpec

\* No request is answered twice, and none is cancelled that nobody cancelled
\* (src/lsp/server.rs).
THEOREM AnswersComeOnce == ToolsSpec => []OneAnswer
BY SessionIds, SessionAsAlone, Tool!AnsweredOnce, PTL DEF OneAnswer, Tool!SessionAssumption

\* A read sees every edit sent before it and none that came after
\* (src/lsp/server.rs).
THEOREM EditsAreSeen == ToolsSpec => []ReadYourEdits
BY SessionIds, SessionAsAlone, Tool!EditsAreRead, PTL DEF ReadYourEdits, Tool!SessionAssumption

\* Ships made of a file and any markers have a file.
LEMMA ShipsOfFiles ==
    ASSUME NEW full, NEW update, NEW deleted \in BOOLEAN, Tool!IsFile(full)
    PROVE  Tool!IsShip(LayerData!Ships(full, update, deleted))
BY DEF Tool!IsShip, LayerData!Ships

\* What the packages of the worlds have is files.
LEMMA ShippedAreFiles ==
    ASSUME NEW kind, NEW s \in LayerData!ShippedOf(kind)
    PROVE  Tool!IsShip(s)
<1> DEFINE File(f) == Tool!IsFile(f)
<1>1. /\ File(LayerData!Absent)
      /\ File([a |-> 1, b |-> 1]) /\ File([a |-> 2, b |-> 1])
      /\ \A n : File(LayerData!Resolves(n))
      /\ \A set : File(LayerData!Members(set))
  BY DEF LayerData!Absent, LayerData!Resolves, LayerData!Members, Tool!IsFile
<1>2. \A f, u : \A d \in BOOLEAN : File(f) => Tool!IsShip(LayerData!Ships(f, u, d))
  BY ShipsOfFiles
<1> HIDE DEF File
<1>3. \A f, u : File(f) => /\ Tool!IsShip(LayerData!Landed(f))
                           /\ Tool!IsShip(LayerData!Ships(f, u, FALSE))
                           /\ Tool!IsShip(LayerData!Ships(f, u, TRUE))
  BY <1>2 DEF LayerData!Landed
<1>4. Tool!IsShip(LayerData!Silent) /\ \A u : Tool!IsShip(LayerData!Updates(u))
  BY <1>1, <1>3 DEF LayerData!Silent, LayerData!Updates
<1>5. CASE s \in LayerData!Entries
  BY <1>1, <1>3, <1>4, <1>5 DEF LayerData!Entries, LayerData!One, LayerData!Two,
     LayerData!Deletes, LayerData!Contradictions
<1>6. CASE s \in LayerData!Variables
  BY <1>1, <1>3, <1>4, <1>6 DEF LayerData!Variables
<1>7. CASE s \in LayerData!Lists
  BY <1>1, <1>3, <1>4, <1>7 DEF LayerData!Lists
<1>8. CASE s \in LayerData!Wholes
  BY <1>1, <1>3, <1>4, <1>8 DEF LayerData!Wholes, LayerData!One, LayerData!Two
<1> QED
  BY <1>5, <1>6, <1>7, <1>8 DEF LayerData!ShippedOf

\* The packages of a world extend each other in one of five ways, and have what
\* packages have of its kind, or nothing.
LEMMA WorldsAre ==
    ASSUME NEW w \in LayerWorlds
    PROVE  /\ w.root = "app"
           /\ w.extends \in {LayerData!ChainShape, LayerData!ForkShape, LayerData!DiamondShape,
                           LayerData!BentShape, LayerData!CyclicShape}
           /\ \A p \in {"app", "left", "right", "base"} :
                 w.ships[p] \in LayerData!ShippedOf(w.kind) \cup {LayerData!Silent}
<1> DEFINE Places == {"app", "left", "right", "base"}
           Has(kind) == LayerData!ShippedOf(kind) \cup {LayerData!Silent}
           Suits(ships, kind) == \A p \in Places : ships[p] \in Has(kind)
<1>1. \A kind : LayerData!Clean(kind) \cup LayerData!Bottoms(kind) \cup LayerData!Tops(kind) \subseteq Has(kind)
  BY DEF LayerData!Clean, LayerData!Bottoms, LayerData!Tops
<1>2. \A kind : LayerData!Silent \in Has(kind)
  OBVIOUS
<1> HIDE DEF Has
<1>3. ASSUME NEW shape, NEW kind, NEW ships, NEW contracts, NEW catalogued,
             w = LayerData!World(shape, kind, ships, contracts, catalogued)
      PROVE  w.root = "app" /\ w.extends = shape /\ w.kind = kind /\ w.ships = ships
  BY <1>3 DEF LayerData!World
<1>4. ASSUME NEW kind, NEW x \in Has(kind), NEW l \in Has(kind), NEW r \in Has(kind)
      PROVE  /\ Suits(LayerData!ChainShips(x, l, r), kind)
             /\ Suits(LayerData!ForkShips(l, r), kind)
             /\ Suits(LayerData!DiamondShips(l, r, x), kind)
             /\ Suits(LayerData!Everywhere(LayerData!Silent), kind)
  BY <1>2 DEF LayerData!Everywhere, LayerData!ChainShips, LayerData!ForkShips, LayerData!DiamondShips
<1> DEFINE Good == w.root = "app" /\ Suits(w.ships, w.kind)
<1>5. ASSUME NEW kind, w \in LayerData!ChainWorlds(kind) PROVE Good /\ w.extends = LayerData!ChainShape
  <2>1. PICK x \in LayerData!Tops(kind), l \in LayerData!ShippedOf(kind), r \in LayerData!Bottoms(kind) :
          \E contracts : w = LayerData!World(LayerData!ChainShape, kind,
                             LayerData!ChainShips(x, l, r), contracts, LayerData!Catalogued(kind))
    BY <1>5 DEF LayerData!ChainWorlds
  <2>2. x \in Has(kind) /\ l \in Has(kind) /\ r \in Has(kind)
    BY <1>1 DEF Has
  <2>3. Suits(LayerData!ChainShips(x, l, r), kind)
    BY <1>4, <2>2
  <2> HIDE DEF Suits
  <2> QED
    BY <1>3, <2>1, <2>3
<1>6. ASSUME NEW kind, w \in LayerData!ForkWorlds(kind) PROVE Good /\ w.extends = LayerData!ForkShape
  <2>1. PICK l \in LayerData!ShippedOf(kind), r \in LayerData!ShippedOf(kind) :
          \E contracts : w = LayerData!World(LayerData!ForkShape, kind, LayerData!ForkShips(l, r), contracts, {})
    BY <1>6 DEF LayerData!ForkWorlds
  <2>2. l \in Has(kind) /\ r \in Has(kind)
    BY DEF Has
  <2>3. Suits(LayerData!ForkShips(l, r), kind)
    BY <1>4, <2>2
  <2> HIDE DEF Suits
  <2> QED
    BY <1>3, <2>1, <2>3
<1>7. ASSUME NEW kind, w \in LayerData!DiamondWorlds(kind) PROVE Good /\ w.extends = LayerData!DiamondShape
  <2>1. PICK l \in LayerData!Clean(kind), r \in LayerData!Clean(kind), x \in LayerData!Bottoms(kind) :
          \E contracts : w = LayerData!World(LayerData!DiamondShape, kind,
                             LayerData!DiamondShips(l, r, x), contracts, LayerData!Catalogued(kind))
    BY <1>7 DEF LayerData!DiamondWorlds
  <2>2. l \in Has(kind) /\ r \in Has(kind) /\ x \in Has(kind)
    BY <1>1
  <2>3. Suits(LayerData!DiamondShips(l, r, x), kind)
    BY <1>4, <2>2
  <2> HIDE DEF Suits
  <2> QED
    BY <1>3, <2>1, <2>3
<1>8. ASSUME NEW kind, w \in LayerData!BentWorlds(kind) PROVE Good /\ w.extends = LayerData!BentShape
  <2>1. PICK l \in LayerData!Clean(kind), r \in LayerData!ShippedOf(kind), x \in LayerData!Bottoms(kind) :
          \E contracts : w = LayerData!World(LayerData!BentShape, kind,
                             LayerData!DiamondShips(l, r, x), contracts, LayerData!Catalogued(kind))
    BY <1>8 DEF LayerData!BentWorlds
  <2>2. l \in Has(kind) /\ r \in Has(kind) /\ x \in Has(kind)
    BY <1>1 DEF Has
  <2>3. Suits(LayerData!DiamondShips(l, r, x), kind)
    BY <1>4, <2>2
  <2> HIDE DEF Suits
  <2> QED
    BY <1>3, <2>1, <2>3
<1>9. CASE w \in LayerData!CyclicWorlds
  <2>1. w = LayerData!World(LayerData!CyclicShape, "lint", LayerData!Everywhere(LayerData!Silent),
                            LayerData!Everywhere(LayerData!NoContract), {})
    BY <1>9 DEF LayerData!CyclicWorlds
  <2>2. Suits(LayerData!Everywhere(LayerData!Silent), "lint")
    BY <1>2, <1>4
  <2> HIDE DEF Suits
  <2>3. Good /\ w.extends = LayerData!CyclicShape
    BY <1>3, <2>1, <2>2
  <2> QED
    BY <2>3 DEF Suits, Has
<1>10. \/ \E kind : \/ w \in LayerData!ChainWorlds(kind)
                   \/ w \in LayerData!ForkWorlds(kind)
                   \/ w \in LayerData!DiamondWorlds(kind)
                   \/ w \in LayerData!BentWorlds(kind)
      \/ w \in LayerData!CyclicWorlds
  <2>1. \/ w \in UNION {LayerData!ChainWorlds(kind) : kind \in LayerData!Kinds}
        \/ w \in UNION {LayerData!ForkWorlds(kind) \cup LayerData!DiamondWorlds(kind)
                            \cup LayerData!BentWorlds(kind) : kind \in {"entry", "variable", "list"}}
        \/ w \in LayerData!CyclicWorlds
    BY DEF LayerWorlds, LayerData!LayerWorlds
  <2> QED
    BY <2>1
<1> QED
  BY <1>5, <1>6, <1>7, <1>8, <1>9, <1>10 DEF Has

\* The five ways.
LEMMA ShapesAre ==
    ASSUME NEW shape \in {LayerData!ChainShape, LayerData!ForkShape, LayerData!DiamondShape,
                      LayerData!BentShape, LayerData!CyclicShape}
    PROVE  /\ DOMAIN shape = {"app", "left", "right", "base"}
           /\ shape \in [DOMAIN shape -> Seq(DOMAIN shape)]
<1> DEFINE Places == {"app", "left", "right", "base"}
<1>1. ASSUME NEW x \in Seq(Places), NEW l \in Seq(Places), NEW r \in Seq(Places)
      PROVE  LET made == LayerData!Shape(x, l, r) IN
             DOMAIN made = Places /\ made \in [Places -> Seq(Places)]
  <2>1. << >> \in Seq(Places)
    OBVIOUS
  <2> HIDE DEF Places
  <2>2. LayerData!Shape(x, l, r) \in [app : Seq(Places), left : Seq(Places), right : Seq(Places), base : Seq(Places)]
    BY <2>1 DEF LayerData!Shape
  <2>3. LayerData!Shape(x, l, r) = [p \in Places |-> LayerData!Shape(x, l, r)[p]]
    BY DEF LayerData!Shape, Places
  <2> QED
    BY <2>1, <2>3 DEF LayerData!Shape, Places
<1>2. /\ << >> \in Seq(Places) /\ <<"left">> \in Seq(Places) /\ <<"base">> \in Seq(Places)
      /\ <<"app">> \in Seq(Places) /\ <<"left", "right">> \in Seq(Places)
  OBVIOUS
<1> HIDE DEF Places
<1> DEFINE Suits(made) == DOMAIN made = Places /\ made \in [Places -> Seq(Places)]
<1>3. \A x, l, r \in Seq(Places) : Suits(LayerData!Shape(x, l, r))
  BY <1>1
<1> HIDE DEF Suits
<1>4. /\ Suits(LayerData!ChainShape) /\ Suits(LayerData!ForkShape) /\ Suits(LayerData!DiamondShape)
      /\ Suits(LayerData!BentShape) /\ Suits(LayerData!CyclicShape)
  BY <1>2, <1>3 DEF LayerData!ChainShape, LayerData!ForkShape, LayerData!DiamondShape,
     LayerData!BentShape, LayerData!CyclicShape
<1>5. Suits(shape)
  BY <1>4
<1> QED
  BY <1>5 DEF Suits, Places

\* So the worlds are as the theorems about layers assume.
LEMMA WorldsAsAssumed == Tool!WorldsAssumption
<1>1. ASSUME NEW w \in LayerWorlds, NEW p \in DOMAIN w.extends PROVE Tool!IsShip(w.ships[p])
  <2>1. w.ships[p] \in LayerData!ShippedOf(w.kind) \cup {LayerData!Silent}
    BY <1>1, WorldsAre, ShapesAre
  <2>2. LayerData!Silent \in LayerData!ShippedOf("entry")
    BY DEF LayerData!ShippedOf, LayerData!Entries
  <2> QED
    BY <2>1, <2>2, ShippedAreFiles
<1> QED
  BY <1>1, IdleAssumption DEF Tool!WorldsAssumption

\* Only entries are deleted, and only they, variables and lists are updated.
LEMMA ShippedAreOfKind ==
    ASSUME NEW w, NEW s \in LayerData!ShippedOf(w.kind) \cup {LayerData!Silent}
    PROVE  Tool!OfKind(w, s)
<1>1. /\ \A f, u : LayerData!Ships(f, u, FALSE).deleted = FALSE
      /\ \A f : LayerData!Landed(f).update = LayerData!Absent /\ LayerData!Landed(f).deleted = FALSE
      /\ \A u : LayerData!Updates(u).deleted = FALSE
  BY DEF LayerData!Ships, LayerData!Landed, LayerData!Updates
<1>2. LayerData!Absent = Tool!Absent
  BY DEF LayerData!Absent, Tool!Absent
<1>3. LayerData!Silent.update = LayerData!Absent /\ LayerData!Silent.deleted = FALSE
  BY <1>1 DEF LayerData!Silent
<1>4. CASE w.kind = "entry"
  BY <1>4 DEF Tool!OfKind
<1>5. CASE w.kind = "variable"
  <2>1. s \in LayerData!Variables \cup {LayerData!Silent}
    BY <1>5 DEF LayerData!ShippedOf
  <2>2. s.deleted = FALSE
    BY <1>1, <1>3, <2>1 DEF LayerData!Variables
  <2> QED
    BY <1>5, <2>2 DEF Tool!OfKind
<1>6. CASE w.kind = "list"
  <2>1. s \in LayerData!Lists \cup {LayerData!Silent}
    BY <1>6 DEF LayerData!ShippedOf
  <2>2. s.deleted = FALSE
    BY <1>1, <1>3, <2>1 DEF LayerData!Lists
  <2> QED
    BY <1>6, <2>2 DEF Tool!OfKind
<1>7. CASE w.kind \notin {"entry", "variable", "list"}
  <2>1. s \in LayerData!Wholes \cup {LayerData!Silent}
    BY <1>7 DEF LayerData!ShippedOf
  <2>2. s.deleted = FALSE /\ s.update = Tool!Absent
    BY <1>1, <1>2, <1>3, <2>1 DEF LayerData!Wholes, LayerData!One, LayerData!Two
  <2> QED
    BY <2>2 DEF Tool!OfKind
<1> QED
  BY <1>4, <1>5, <1>6, <1>7

\* And so are their graphs.
LEMMA GraphsAsAssumed == Tool!GraphsAssumption
<1>1. ASSUME NEW w \in LayerWorlds
      PROVE  /\ "" \notin DOMAIN w.extends /\ w.root \in DOMAIN w.extends
             /\ w.extends \in [DOMAIN w.extends -> Seq(DOMAIN w.extends)]
             /\ \A p \in DOMAIN w.extends : Tool!OfKind(w, w.ships[p])
  <2>1. DOMAIN w.extends = {"app", "left", "right", "base"} /\ w.extends \in [DOMAIN w.extends -> Seq(DOMAIN w.extends)]
    BY WorldsAre, ShapesAre
  <2>2. \A p \in DOMAIN w.extends : w.ships[p] \in LayerData!ShippedOf(w.kind) \cup {LayerData!Silent}
    BY <2>1, WorldsAre
  <2>3. \A p \in DOMAIN w.extends : Tool!OfKind(w, w.ships[p])
    BY <2>2, ShippedAreOfKind
  <2> QED
    BY <2>1, <2>3, WorldsAre
<1> QED
  BY <1>1 DEF Tool!GraphsAssumption

\* Every step of the tools is a step of the composition, or leaves it alone.
LEMMA CompositionAsAlone == ToolsSpec => Tool!LayersSpec
<1>1. ToolsInit => Tool!LayersInit
  BY DEF ToolsInit
<1>2. UNCHANGED layerVars => UNCHANGED Tool!layersVars
  BY DEF layerVars, Tool!layersVars
<1>3. [ServerStep \/ CompositionStep \/ ResolutionStep \/ DiffStep \/ EditStep]_<<
          focus, serverVars, layerVars, vars, diffVars, editVars>>
      => [Tool!LayersNext]_Tool!layersVars
  BY <1>2 DEF ServerStep, CompositionStep, ResolutionStep, DiffStep, EditStep
<1> QED
  BY <1>1, <1>3, PTL DEF ToolsSpec, Tool!LayersSpec

\* No overlay changes what its bases declare without their grant
\* (src/source/governance.rs).
THEOREM LayersAreGoverned == ToolsSpec => ChangesAreGranted
BY WorldsAsAssumed, CompositionAsAlone, Tool!OverlaysAreGoverned, PTL DEF ChangesAreGranted

\* In a chain of packages the topmost layer that says something of a field wins,
\* and a trace names the layer that resolves (src/source/layer/compose.rs).
THEOREM TopmostLayersWin == ToolsSpec => []TopmostLayerWins
BY WorldsAsAssumed, GraphsAsAssumed, CompositionAsAlone, Tool!ChainsReadFromTheTop, PTL DEF TopmostLayerWins

\* What the trees of the run are has one document at a path, and no stray has the
\* key of an entity.
LEMMA TreesAsAssumed == Tool!EditsAssumption
<1>1. ASSUME NEW t \in EditTrees
      PROVE  Tool!IsMap(t)
  BY <1>1 DEF EditTrees, EditData!MCTrees, Tool!IsMap
<1>2. {"default", "other"} \cap {"readme"} = {}
  OBVIOUS
<1> QED
  BY <1>1, <1>2 DEF Tool!EditsAssumption

\* Every step of the tools is a step of the edit engine, or leaves it alone.
LEMMA EditingAsAlone == ToolsSpec => Tool!Spec
<1>1. ToolsInit => Tool!Init
  BY DEF ToolsInit
<1>2. UNCHANGED editVars => UNCHANGED Tool!vars
  BY DEF editVars, Tool!vars
<1>3. [ServerStep \/ CompositionStep \/ ResolutionStep \/ DiffStep \/ EditStep]_<<
          focus, serverVars, layerVars, vars, diffVars, editVars>>
      => [Tool!Next]_Tool!vars
  BY <1>2 DEF ServerStep, CompositionStep, ResolutionStep, DiffStep, EditStep
<1> QED
  BY <1>1, <1>3, PTL DEF ToolsSpec, Tool!Spec

\* A batch of edits leaves the files that its operations leave one by one, and is
\* refused where one of them is (src/edit/mod.rs).
THEOREM BatchesAreTheirOperations == ToolsSpec => []BatchMeansOneByOne
BY TreesAsAssumed, EditingAsAlone, Tool!OneByOne, PTL DEF BatchMeansOneByOne

\* The change records of a batch name every file that its plan touches
\* (src/edit/mod.rs).
THEOREM BatchesAreOnRecord == ToolsSpec => []RecordsNameThePlan
BY TreesAsAssumed, EditingAsAlone, Tool!RecordsAreComplete, PTL DEF RecordsNameThePlan

\* Every step of the tools is a step of resolution, or leaves it alone.
LEMMA ResolutionAsAlone == ToolsSpec => Spec
<1>1. ToolsInit => Init
  BY DEF ToolsInit
<1>2. [ServerStep \/ CompositionStep \/ ResolutionStep \/ DiffStep \/ EditStep]_<<
          focus, serverVars, layerVars, vars, diffVars, editVars>>
      => [Next]_vars
  BY DEF ServerStep, CompositionStep, ResolutionStep, DiffStep, EditStep
<1> QED
  BY <1>1, <1>2, PTL DEF ToolsSpec, Spec

\* The invariant of a batch holds of the tools.
LEMMA BatchesHold == ToolsSpec => []IInv
BY ResolutionAsAlone, Invariance, PTL

\* The rule that lint calls shadowed is never the one that is chosen
\* (src/resolve.rs, src/lint/builtins/graph.rs): whatever the batch resolved
\* before, what came out of the condition it repeats comes out of its own.
THEOREM ShadowedRulesAreDead == ToolsSpec => []ShadowedNeverChosen
<1>1. IInv => ShadowedNeverChosen
  BY DEF IInv
<1> QED
  BY <1>1, BatchesHold, PTL

\* In a package that lints clean no resolution runs into a cycle or a variable that
\* is not there, but for what an eligibility or a trace policy reads.
THEOREM LintFindsBrokenReferences == ToolsSpec => []LintedNeverCycles
<1>1. IInv => LintedNeverCycles
  BY DEF IInv
<1> QED
  BY <1>1, BatchesHold, PTL

\* On a layer that lints clean a unit is in one arm of one allocation at most
\* (src/resolve.rs, src/lint/builtins/layers.rs): comparing neighbouring claims is
\* enough, and the arm that is chosen is one that claims the bucket.
THEOREM UnitsAreInOneArm == ToolsSpec => []OneArmPerLayer
BY OneArmHolds, ResolutionAsAlone, HitsInvariance, PTL

\* A batch means of each of its variables what that one means alone at the start
\* of the batch (src/resolve.rs): the cache and the order do not matter, and a
\* cycle is an error for whoever runs into it.
THEOREM BatchesMeanVariables == ToolsSpec => []BatchMeansEach
BY ResolutionAsAlone, BatchesMeanEach, PTL

\* What lints clean is never refused by the compiler (src/lint/runtime.rs), but for
\* what lint overlooks.
THEOREM LintedPackagesLoad == ToolsSpec => []LintedCompiles
BY LintedCompilesHolds, BatchesHold, PTL

\* Every step of the tools is a step of the diff, or leaves it alone.
LEMMA DiffAsAlone == ToolsSpec => DiffSpec
<1>1. ToolsInit => DiffInit
  BY DEF ToolsInit
<1>2. [ServerStep \/ CompositionStep \/ ResolutionStep \/ DiffStep \/ EditStep]_<<
          focus, serverVars, layerVars, vars, diffVars, editVars>>
      => [DiffNext]_diffVars
  BY DEF ServerStep, CompositionStep, ResolutionStep, DiffStep, EditStep
<1> QED
  BY <1>1, <1>2, PTL DEF ToolsSpec, DiffSpec

\* Where a variable comes out differently for a context, the diff lists a change of
\* something it depends on, or the time passed (src/lint/diff.rs): the diff looks at
\* each part by itself, and passes over no change that moves a value.
THEOREM ImpactsHaveCauses == ToolsSpec => []ImpactsAreExplained
BY DiffAsAlone, DiffsExplain, PTL

\* A diff that lists nothing but arms expanded into buckets that no arm had moves no
\* unit that was in an arm (src/lint/diff.rs).
THEOREM ExpansionsMoveNoOne == ToolsSpec => []ExpansionMovesNoOne
BY DiffAsAlone, ExpansionsAreQuiet, PTL
=============================================================================
