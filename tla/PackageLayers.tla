---------------------------- MODULE PackageLayers ----------------------------
(***************************************************************************)
(* Loading a package that extends others (src/source/layer, governance.rs). *)
(* The graph is walked depth first; the bases of a package land on an empty *)
(* projection one after the other, then the package itself, once the        *)
(* contract that the projection carries has admitted it.                    *)
(*                                                                         *)
(* A world fixes the graph and what each package ships of ONE entity, of    *)
(* one kind, beside its governance.toml: entities compose independently of *)
(* each other.  A file is a function from its fields to values, so a table  *)
(* that is merged deeply is a set of fields.                                *)
(***************************************************************************)
EXTENDS Naturals, Sequences

CONSTANTS Worlds,      \* the inputs
          Idle,        \* no world yet
          MaxDepth     \* MAX_PACKAGE_EXTENDS_DEPTH

VARIABLES world,
          order,     \* extends, as this load finds it
          stack,     \* the packages being projected, innermost last
          loaded,    \* what the innermost call has returned, if it has
          results    \* of the loads so far

layersVars == <<world, order, stack, loaded, results>>

-----------------------------------------------------------------------------
(* Files                                                                    *)

Absent == [f \in {} |-> 0]
Merge(base, update) ==
    [f \in DOMAIN base \cup DOMAIN update |->
        IF f \in DOMAIN update THEN update[f] ELSE base[f]]

\* What a package has of the entity: the file, an update marker, a deleted
\* marker.  A projection has no markers.
Ships(full, update, deleted) == [full |-> full, update |-> update, deleted |-> deleted]
Landed(file) == Ships(file, Absent, FALSE)
Silent == Landed(Absent)
Marks(s) == s.update # Absent \/ s.deleted

Refused == [ok |-> FALSE]
Admitted(file) == [ok |-> TRUE, file |-> file]
If(condition, file) == IF condition THEN Admitted(file) ELSE Refused

-----------------------------------------------------------------------------
(* compose_package_layer_file: what a layer's files make of the one below.  *)

\* A bug: an update takes the place of the file.
ComposeEntryReplacing(below, s) ==
    If(/\ s.full # Absent => ~Marks(s)
       /\ ~(s.update # Absent /\ s.deleted)
       /\ Marks(s) => below # Absent,
       CASE s.deleted -> Absent
         [] s.full # Absent -> s.full
         [] OTHER -> IF s.update # Absent THEN s.update ELSE below)

ComposeEntry(below, s) ==
    If(/\ s.full # Absent => ~Marks(s)
       /\ ~(s.update # Absent /\ s.deleted)
       /\ Marks(s) => below # Absent,
       CASE s.deleted -> Absent
         [] s.full # Absent -> s.full
         [] OTHER -> Merge(below, s.update))

\* A file that is there may only be stated again as it is.
Restates(below, s) == s.full # Absent /\ below # Absent => s.full = below

ComposeVariable(below, s) ==
    If(/\ ~(s.full # Absent /\ s.update # Absent)
       /\ Restates(below, s)
       /\ s.update # Absent => below # Absent /\ DOMAIN s.update \subseteq {"resolve", "description"},
       IF s.full # Absent THEN s.full ELSE Merge(below, s.update))

ComposeMembers(members, update) ==
    LET added == IF "members" \in DOMAIN update THEN update.members ELSE {}
        removed == IF "deleted" \in DOMAIN update THEN update.deleted ELSE {}
    IN  If(/\ added \cap removed = {}
           /\ removed \subseteq members \cup added
           /\ "deleted" \in DOMAIN update => (members \cup added) \ removed # {},
           [members |-> (members \cup added) \ removed])

\* The update of a list lands on the list of its own layer too.
ComposeList(below, s) ==
    LET base == IF s.full # Absent THEN s.full ELSE below
    IN  IF ~Restates(below, s) \/ (s.update # Absent /\ base = Absent) THEN Refused
        ELSE IF s.update = Absent THEN Admitted(base)
        ELSE ComposeMembers(base.members, s.update)

ComposeWhole(below, s) == Admitted(IF s.full # Absent THEN s.full ELSE below)

Compose(below, s) ==
    CASE world.kind = "entry" -> ComposeEntry(below, s)
      [] world.kind = "variable" -> ComposeVariable(below, s)
      [] world.kind = "list" -> ComposeList(below, s)
      [] OTHER -> ComposeWhole(below, s)

\* The layer that a variable's [resolve] is attributed to; a projection's own
\* attribution wins over its label.
Attributes(below, s) ==
    /\ world.kind = "variable"
    /\ (s.full # Absent /\ below = Absent) \/ "resolve" \in DOMAIN s.update
Attribution(layer, label) == IF layer.from = "" THEN label ELSE layer.from

-----------------------------------------------------------------------------
(* Governance: a gate says what may be done to an entity, a policy to which *)
(* entries and fields.  A pattern is a literal or the glob "*".             *)

Unlisted == {"(no list)"}
Matches(pattern, name) == pattern \in {"*", name}
Passes(name, list) ==
    /\ \A pattern \in list.denied : ~Matches(pattern, name)
    /\ list.allowed = Unlisted \/ \E pattern \in list.allowed : Matches(pattern, name)

Anything == [allowed |-> Unlisted, denied |-> {}]
Policy(entries, fields) == [scoped |-> TRUE, entries |-> entries, fields |-> fields]
NoPolicy == [scoped |-> FALSE, entries |-> Anything, fields |-> Anything]
Gate(allowed, denied, update, delete) ==
    [declared |-> TRUE, allowed |-> allowed, denied |-> denied,
     policy |-> [update |-> update, delete |-> delete]]
NoGate == [Gate({}, {}, NoPolicy, NoPolicy) EXCEPT !.declared = FALSE]
Contract(defaults, block) == [there |-> TRUE, defaults |-> defaults, block |-> block]
NoContract == [Contract(NoGate, NoGate) EXCEPT !.there = FALSE]

OperationAllowed(c, operation) ==
    /\ operation \in c.block.allowed \cup c.defaults.allowed
    /\ operation \notin c.block.denied \cup c.defaults.denied

ScopeOf(c, operation) ==
    IF c.block.policy[operation].scoped THEN c.block.policy[operation]
    ELSE c.defaults.policy[operation]

Entity == "it"      \* the name of the entity; an entry's, in its catalog

Check(c, operation, entries, fields) ==
    /\ OperationAllowed(c, operation)
    /\ \A entry \in entries : Passes(entry, ScopeOf(c, operation).entries)
    /\ \A field \in fields : Passes(field, ScopeOf(c, operation).fields)

\* A literal must pass the ceiling; a glob must be granted word for word.
PatternWithin(pattern, list) ==
    IF pattern # "*" THEN Passes(pattern, list)
    ELSE (list.allowed = Unlisted \/ pattern \in list.allowed) /\ list.denied = {}

ListWithin(list, ceiling) ==
    list.allowed = Unlisted \/ \A pattern \in list.allowed : PatternWithin(pattern, ceiling)

PolicyWithin(policy, ceiling) ==
    policy.scoped /\ ceiling.scoped =>
        /\ ListWithin(policy.entries, ceiling.entries)
        /\ ListWithin(policy.fields, ceiling.fields)

CheckCeiling(c, lower, declaredBelow, anyDeclaredBelow) ==
    /\ anyDeclaredBelow => lower.defaults.allowed \subseteq c.defaults.allowed \ c.defaults.denied
    /\ declaredBelow =>
         /\ \A operation \in lower.block.allowed : OperationAllowed(c, operation)
         /\ \A operation \in {"update", "delete"} :
              PolicyWithin(lower.block.policy[operation], c.block.policy[operation])

-----------------------------------------------------------------------------
(* check_governed_file: what the projection's contract says of a layer.     *)

\* What a package is: its files (catalogued: it ships the schema of the entry's
\* catalog), and the layer its variable's [resolve] is attributed to.
Nothing == [ship |-> Silent, contract |-> NoContract, catalogued |-> FALSE, from |-> ""]
Own(p) == [ship |-> world.ships[p], contract |-> world.contracts[p],
           catalogued |-> p \in world.catalogued, from |-> ""]

\* A bug: a file over one that is there passes for a new one.
AdmitsEntryRestated(c, below, s) ==
    /\ s.deleted => ~(s.full # Absent \/ s.update # Absent) /\ Check(c, "delete", {Entity}, {})
    /\ s.update # Absent => s.full = Absent /\ Check(c, "update", {Entity}, DOMAIN s.update)
    /\ s.full \notin {Absent, below} => Check(c, "add", {}, {})

AdmitsEntry(c, below, s) ==
    /\ s.deleted => ~(s.full # Absent \/ s.update # Absent) /\ Check(c, "delete", {Entity}, {})
    /\ s.update # Absent => s.full = Absent /\ Check(c, "update", {Entity}, DOMAIN s.update)
    /\ s.full \notin {Absent, below} => below = Absent /\ Check(c, "add", {}, {})

Admits(target, s) ==
    LET c == target.contract
        below == target.ship.full
        restated == below # Absent /\ s.full \notin {Absent, below}
        updated == below # Absent /\ s.update # Absent
    IN  CASE world.kind = "entry" -> target.catalogued => AdmitsEntry(c, below, s)
          [] world.kind = "variable" -> ~restated /\ (updated => Check(c, "update", {}, {}))
          [] world.kind = "list" -> updated => Check(c, "update", {}, {})
          [] world.kind = "layer" -> restated => Check(c, "update", {}, {})
          [] OTHER -> ~restated      \* a schema, a context, a sample, a lint file

DeclaredBelow(target) ==
    IF world.kind = "entry" THEN target.catalogued
    ELSE world.kind \in {"variable", "list", "layer", "schema"} /\ target.ship.full # Absent
\* The directories this looks for are model, variables, data and layers.
AnyDeclaredBelow(target) ==
    target.catalogued \/ (target.ship.full # Absent /\ world.kind \notin {"list", "lint"})

Enforce(target, layer) ==
    /\ Admits(target, layer.ship)
    /\ layer.contract \notin {NoContract, target.contract} =>
         CheckCeiling(target.contract, layer.contract, DeclaredBelow(target), AnyDeclaredBelow(target))

-----------------------------------------------------------------------------
(* copy_package_layer: a layer lands on a projection.                       *)

Projection(target, ship, layer, label) ==
    [ship |-> Landed(ship), contract |-> IF layer.contract.there THEN layer.contract ELSE target.contract,
     catalogued |-> target.catalogued \/ layer.catalogued,
     from |-> IF Attributes(target.ship.full, layer.ship) THEN Attribution(layer, label) ELSE target.from]

\* A bug: the bases of one package are taken for overlays of each other.
TakenByNobody(owner, label) == FALSE

\* What another sibling has provided a base may only have the same, which is
\* skipped.
Taken(owner, label) == owner \notin {Idle, label}

Top == stack[Len(stack)]
Running == [is |-> "running"]
Failed == [is |-> "failed"]
Returned(layer) == [is |-> "ok", layer |-> layer]

\* An error leaves every level of the recursion.
Fail == loaded' = Failed /\ stack' = << >>
Keep == UNCHANGED <<world, order, results>>

-----------------------------------------------------------------------------
(* The walk.                                                                *)

LayersInit ==
    /\ world = Idle /\ order = Idle
    /\ stack = << >> /\ loaded = Failed /\ results = << >>

Choose(w) ==
    /\ world = Idle
    /\ world' = w /\ order' = w.extends /\ loaded' = Running
    /\ UNCHANGED <<stack, results>>

\* A package that is being projected: the bases that are left, the projection,
\* and the bases that provided the entity and the contract.
Frame(p) ==
    [package |-> p, bases |-> order[p], target |-> Nothing,
     owner |-> [ship |-> Idle, contract |-> Idle]]

\* The package to be loaded: the root, or the next base.
Called(p) ==
    /\ loaded = Running
    /\ IF stack = << >> THEN p = world.root
       ELSE Top.bases # << >> /\ p = Head(Top.bases)
Deep == Len(stack) >= MaxDepth
Cyclic(p) == \E i \in DOMAIN stack : stack[i].package = p

RefuseGraph(p) == Called(p) /\ (Deep \/ Cyclic(p)) /\ Fail /\ Keep

LoadLeaf(p) ==
    /\ Called(p) /\ ~Deep /\ ~Cyclic(p)
    /\ order[p] = << >>
    /\ loaded' = Returned(Own(p)) /\ UNCHANGED stack /\ Keep

Descend(p) ==
    /\ Called(p) /\ ~Deep /\ ~Cyclic(p)
    /\ order[p] # << >>
    /\ stack' = Append(stack, Frame(p)) /\ UNCHANGED loaded /\ Keep

\* A base lands beside its siblings, with no governance between them.
LandBase ==
    /\ loaded.is = "ok" /\ stack # << >>
    /\ LET layer == loaded.layer
           s == layer.ship
           target == Top.target
           label == Head(Top.bases)
           taken == s # Silent /\ Taken(Top.owner.ship, label)
           governed == layer.contract.there /\ Taken(Top.owner.contract, label)
           composed == Compose(target.ship.full, s)
           landed == [Top EXCEPT
                !.bases = Tail(@),
                !.target = IF taken THEN Projection(target, target.ship.full, [layer EXCEPT !.ship = Silent], label)
                           ELSE Projection(target, composed.file, layer, label),
                !.owner.ship = IF s = Silent \/ taken THEN @ ELSE label,
                !.owner.contract = IF ~layer.contract.there \/ governed THEN @ ELSE label]
       IN  IF /\ IF taken THEN ~Marks(s) /\ s.full = target.ship.full ELSE composed.ok
              /\ governed => layer.contract = target.contract
           THEN stack' = [stack EXCEPT ![Len(stack)] = landed] /\ loaded' = Running
           ELSE Fail
    /\ Keep

\* The package itself lands on its bases, if their contract admits it.
LandOverlay ==
    /\ loaded = Running /\ stack # << >>
    /\ Top.bases = << >>
    /\ LET layer == Own(Top.package)
           composed == Compose(Top.target.ship.full, layer.ship)
       IN  IF Enforce(Top.target, layer) /\ composed.ok
           THEN /\ loaded' = Returned(Projection(Top.target, composed.file, layer, Top.package))
                /\ stack' = SubSeq(stack, 1, Len(stack) - 1)
           ELSE Fail
    /\ Keep

\* The load ends; an author lists the bases the other way round and it is done
\* once more.
Flip(bases) == [i \in DOMAIN bases |-> bases[Len(bases) + 1 - i]]
Finish ==
    /\ world # Idle /\ stack = << >> /\ loaded # Running
    /\ Len(results) < 2
    /\ results' = Append(results, loaded)
    /\ IF results = << >>
       THEN order' = [p \in DOMAIN order |-> Flip(order[p])] /\ loaded' = Running
       ELSE UNCHANGED <<order, loaded>>
    /\ UNCHANGED <<world, stack>>

LayersNext ==
    \/ world = Idle /\ \E w \in Worlds : Choose(w)
    \/ world # Idle /\ \E p \in DOMAIN order : RefuseGraph(p) \/ LoadLeaf(p) \/ Descend(p)
    \/ LandBase \/ LandOverlay
    \/ Finish

LayersSpec == LayersInit /\ [][LayersNext]_layersVars

-----------------------------------------------------------------------------
(* Properties                                                               *)

\* Bases that one extends list names are no overlays of each other: in either
\* order they make the same projection, or are refused.  Only when two of them
\* bring the same variable does a trace name the one that is listed first, and
\* that one has set its [resolve]; and a base that updates a list of its own may
\* be refused in one order alone: the list it composes is one that its sibling
\* may state again, its own marker is not.
SetsResolve(p) == world.ships[p].full # Absent \/ "resolve" \in DOMAIN world.ships[p].update
UpdatesItsOwnList ==
    world.kind = "list" /\ \E p \in DOMAIN order : Absent \notin {world.ships[p].full, world.ships[p].update}
SiblingsCommute ==
    Len(results) = 2 =>
        /\ results[1].is = results[2].is \/ UpdatesItsOwnList
        /\ results[1].is = "ok" /\ results[2].is = "ok" =>
             LET one == results[1].layer
                 other == results[2].layer
             IN  /\ one = [other EXCEPT !.from = one.from]
                 /\ one.from # other.from => SetsResolve(one.from) /\ SetsResolve(other.from)

\* What an overlay changed of the entity, judged by the files before and after
\* it landed, is an operation that the contract c grants.
Granted(c, before, after) ==
    LET changed == {f \in DOMAIN before.ship.full \cup DOMAIN after.ship.full :
                      ~(/\ f \in DOMAIN before.ship.full \cap DOMAIN after.ship.full
                        /\ before.ship.full[f] = after.ship.full[f])}
        entry == world.kind = "entry"
    IN  \/ before.ship = after.ship
        \/ entry /\ ~before.catalogued
        \/ before.ship = Silent /\ (entry => Check(c, "add", {}, {}))
        \/ before.ship # Silent /\ after.ship = Silent /\ entry /\ Check(c, "delete", {Entity}, {})
        \/ /\ Silent \notin {before.ship, after.ship}
           /\ world.kind \in {"entry", "variable", "list", "layer"}
           /\ Check(c, "update", IF entry THEN {Entity} ELSE {}, IF entry THEN changed ELSE {})

Lands == stack # << >> /\ Top.bases = << >> /\ loaded'.is = "ok"

\* No overlay ends up changing what its bases declare without a grant of the
\* contract they carry, whatever files it changes it with.
ChangesAreGranted == [][Lands => Granted(Top.target.contract, Top.target, loaded'.layer)]_layersVars

\* The packages that each one extends, as far down as a load goes.
Under[depth \in Nat] ==
    [p \in DOMAIN order |->
        IF depth = 0 THEN {}
        ELSE UNION {{order[p][i]} \cup Under[depth - 1][order[p][i]] : i \in DOMAIN order[p]}]
Declares(p) == world.ships[p].full # Absent \/ p \in world.catalogued

\* The governance "dial" (docs/src/package-format.md): an overlay, however far
\* above, never gets more than was granted by the contract of the base under it
\* that declares the entity.
GrantsOnlyNarrow ==
    [][Lands => \A p \in Under[MaxDepth][Top.package] :
         order[p] = << >> /\ Declares(p) /\ world.contracts[p].there =>
             Granted(world.contracts[p], Top.target, loaded'.layer)]_layersVars

\* A chain of packages read from the top down, as an author reads it.
Chain == \A p \in DOMAIN order : Len(order[p]) <= 1
Spine[i \in Nat] ==
    IF i = 0 THEN world.root
    ELSE IF order[Spine[i - 1]] = << >> THEN Spine[i - 1] ELSE Head(order[Spine[i - 1]])
Written(i) == world.ships[Spine[i]]
Levels == {i \in 0..MaxDepth : \A j \in 0..i - 1 : order[Spine[j]] # << >>}
Topmost(levels) == CHOOSE i \in levels : \A j \in levels : i <= j
Lowest(levels) == CHOOSE i \in levels : \A j \in levels : j <= i

\* The layer that says something of a field last, down to the one that has the
\* whole file.
Says(i, f) == f \in DOMAIN Written(i).update
Adds(i, m) == Says(i, "members") /\ m \in Written(i).update.members
Drops(i, m) == Says(i, "deleted") /\ m \in Written(i).update.deleted
ReadsAs(file) ==
    LET whole == {i \in Levels : Written(i).full # Absent \/ Written(i).deleted}
        floor == Topmost(whole)
        above == {i \in Levels : i <= floor}
        fields == DOMAIN Written(floor).full \cup UNION {DOMAIN Written(i).update : i \in above}
        saying(f) == {i \in above : Says(i, f)}
        moving(m) == {i \in above : Adds(i, m) \/ Drops(i, m)}
    IN  IF whole = {} THEN file = Absent
        ELSE IF world.kind = "list"
        THEN \A m \in (UNION {Written(i).full.members : i \in {j \in whole : Written(j).full # Absent}})
                      \cup (UNION {Written(i).update.members : i \in {j \in above : Says(j, "members")}}) :
               m \in file.members <=> IF moving(m) # {} THEN Adds(Topmost(moving(m)), m)
                                      ELSE m \in Written(floor).full.members
        ELSE /\ DOMAIN file = fields
             /\ \A f \in fields : file[f] = IF saying(f) # {} THEN Written(Topmost(saying(f))).update[f]
                                            ELSE Written(floor).full[f]

\* In a chain the projection reads as if every field were looked up from the
\* top, and a trace names the layer whose [resolve] it is.
TopmostLayerWins ==
    (results # << >> /\ Chain /\ Levels # {0}) => (results[1].is = "ok" =>
        LET layer == results[1].layer
            resolving == {i \in Levels : Says(i, "resolve")}
            declaring == {i \in Levels : Written(i).full # Absent}
        IN  /\ ReadsAs(layer.ship.full)
            /\ layer.from = IF world.kind # "variable" \/ declaring = {} THEN ""
                            ELSE IF resolving # {} THEN Spine[Topmost(resolving)]
                            ELSE Spine[Lowest(declaring)])

=============================================================================
