--------------------------- MODULE MCPackageTools ---------------------------
(* The parts of rototo that work on a package and share nothing while they   *)
(* run: the language server, the composition of layers, resolution and lint, *)
(* the semantic diff, and the edit engine.  Each keeps its own state; a      *)
(* behaviour is about the one that has the focus, and the others stay as     *)
(* they were at the start.                                                   *)
EXTENDS Resolution, PackageDiff

CONSTANTS Requests, Garbled, NoBuffer, Notices, Ranged, MaxEdits, MaxNotices, MaxCancels, Idle

VARIABLES
    focus,
    editor, disk, ahead, asked, wire, queue, cancellations, inflight, server, work,
    holder, cached, generation, published, answers, shown,
    world, order, layerStack, loaded, results,
    base, edits, records, count, phase, plan, tree, stepwise, aloneRefused, requested

serverVars == <<editor, disk, ahead, asked, wire, queue, cancellations, inflight, server, work,
                holder, cached, generation, published, answers, shown>>
layerVars == <<world, order, layerStack, loaded, results>>
editVars == <<base, edits, records, count, phase, plan, tree, stepwise, aloneRefused, requested>>

\* The ids of the reads are not those of the requests of a session, and no buffer
\* is not a text.
ASSUME SessionIds == "initialize" \notin Requests /\ "shutdown" \notin Requests /\ NoBuffer \notin Nat

LayerData == INSTANCE MCPackageLayers WITH Worlds <- {}, MaxDepth <- 4, stack <- layerStack
LayerWorlds == LayerData!LayerWorlds
ASSUME IdleAssumption == Idle \notin LayerWorlds

ResolutionData == INSTANCE MCResolution WITH Packages <- {}, Contexts <- {}
ResolvedPackages == ResolutionData!MCPackages
ResolvedContexts == ResolutionData!MCContexts

DiffData == INSTANCE MCPackageDiff WITH Versions <- {}, Panels <- {}
DiffedVersions == DiffData!MCVersions
DiffedPanels == DiffData!MCPanels

EditData == INSTANCE MCEditEngine WITH
    Trees <- {}, VariableIds <- {}, ListIds <- {}, LayerIds <- {}, CatalogIds <- {}, ContextIds <- {},
    Keys <- {}, Strays <- {}, Values <- {}, AllocationIds <- {}, Queries <- {}, Inherited <- {}, MaxIndex <- 3,
    MaxOps <- 2
EditTrees == EditData!MCTrees
EditQueries == EditData!MCQueries
EditInherited == EditData!MCInherited

\* The session, the composition and the edit engine (whose specification is the one
\* that is called Spec), with the theorems about them, so that they can be cited.
Tool == INSTANCE SessionLayersEdits_proofs WITH
    Worlds <- LayerWorlds, MaxDepth <- 4, stack <- layerStack,
    Trees <- EditTrees, VariableIds <- {"v", "i"}, ListIds <- {"m"}, LayerIds <- {"l"},
    CatalogIds <- {"c"}, ContextIds <- {"r"}, Keys <- {"default", "other"}, Strays <- {"readme"}, Values <- {"", "x"},
    AllocationIds <- {"s", "t", "u"}, Queries <- EditQueries, Inherited <- EditInherited, MaxIndex <- 3,
    MaxOps <- 2

ToolsInit ==
    /\ focus \in {"server", "composition", "resolution", "diff", "edit"}
    /\ Tool!SessionInit /\ Tool!LayersInit /\ Init /\ DiffInit /\ Tool!Init
    /\ focus # "edit" => base = CHOOSE t \in EditTrees : TRUE

ServerStep ==
    /\ focus = "server" /\ Tool!SessionNext
    /\ UNCHANGED <<focus, layerVars, vars, diffVars, editVars>>
CompositionStep ==
    /\ focus = "composition" /\ Tool!LayersNext
    /\ UNCHANGED <<focus, serverVars, vars, diffVars, editVars>>
ResolutionStep ==
    /\ focus = "resolution" /\ Next
    /\ UNCHANGED <<focus, serverVars, layerVars, diffVars, editVars>>
DiffStep ==
    /\ focus = "diff" /\ DiffNext
    /\ UNCHANGED <<focus, serverVars, layerVars, vars, editVars>>
EditStep ==
    /\ focus = "edit" /\ Tool!Next
    /\ UNCHANGED <<focus, serverVars, layerVars, vars, diffVars>>

ToolsSpec ==
    /\ ToolsInit
    /\ [][ServerStep \/ CompositionStep \/ ResolutionStep \/ DiffStep \/ EditStep]_<<
          focus, serverVars, layerVars, vars, diffVars, editVars>>

\* No request is answered twice: see LanguageServer.
OneAnswer == Tool!OneAnswer

\* A read sees the edits sent before it: see LanguageServer.
ReadYourEdits == Tool!ReadYourEdits

\* The order of siblings is no matter of precedence: see PackageLayers.
SiblingsCommute == Tool!SiblingsCommute

\* The topmost layer wins, field by field: see PackageLayers.
TopmostLayerWins == Tool!TopmostLayerWins

\* What an overlay changes was granted to it: see PackageLayers.
ChangesAreGranted == Tool!ChangesAreGranted

\* A batch of edits means its operations one by one: see EditEngine.
BatchMeansOneByOne == Tool!BatchMeansOneByOne

\* A rule or an allocation lands where it was asked: see EditEngine.
TablesLandWhereAsked == Tool!TablesLandWhereAsked

\* The change records name what the plan touches: see EditEngine.
RecordsNameThePlan == Tool!RecordsNameThePlan
=============================================================================
