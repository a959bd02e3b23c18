------------------------------ MODULE PackageDiff ------------------------------
(***************************************************************************)
(* The semantic diff of two versions of a package (src/lint/diff.rs), what a *)
(* reviewer reads in place of the files: the changes of the model, and what  *)
(* each of a set of contexts resolves differently.                           *)
(*                                                                         *)
(* The two lists are computed apart, the changes from the linted models and  *)
(* the impacts from the compiled packages.  A layer is known by its place.   *)
(***************************************************************************)
EXTENDS VariableMeaning

CONSTANTS Versions,      \* pairs of versions of a package
          Panels         \* the contexts asked of a diff, as sequences

VARIABLES before, after,
          lenient,       \* diff_packages_with_contexts, or diff_packages
          moment,        \* of the clock
          changes,       \* PackageDiff.changes
          panel,         \* the contexts that are left
          baseline,      \* of the version before, for the first of them
          impacts        \* ContextImpact, context by context

\* Entries are numbered by their keys, and a layer without a unit has a malformed
\* one.  A query and an entry are structs, an entry
\* says how many references an expression of it follows, and what the app receives of
\* a catalog is no literal of a package.
EntryValues == {"entry", "entries", "entry with id", "entries with id"}
Projected(p) ==
    /\ \A c \in DOMAIN p.catalogs : DOMAIN p.catalogs[c] \subseteq Nat
    /\ \A layer \in Elements(p.layers) : layer.unit # None
    /\ \A c \in DOMAIN p.catalogs :
         p.catalogs[c] = [n \in DOMAIN p.catalogs[c] |->
                            LET entry == p.catalogs[c][n]
                            IN  [flag |-> entry.flag, rank |-> entry.rank, ref |-> entry.ref]]
    /\ \A id \in Variables(p) :
         LET v == p.variables[id]
             q == v.resolve.query
         IN  HasResolve(v) =>
                /\ q # None => q = [from |-> q.from, filter |-> q.filter, sort |-> q.sort,
                                   order |-> q.order, limit |-> q.limit]
                /\ \A e \in QueryExpressions(v) : ReadsEntry(e) => e.v.is[1] \in Nat
                /\ \A value \in ResolveValues(v) : value.type \notin EntryValues
ASSUME VersionsAssumption ==
    \A p \in UNION {{pair[1], pair[2]} : pair \in Versions} : Authored(p) /\ Projected(p)

diffVars == <<before, after, lenient, moment, changes, panel, baseline, impacts>>

-----------------------------------------------------------------------------
(* Changes.                                                                 *)

Change(kind, at) == [kind |-> kind, at |-> at]

\* One field; the code has an absent one as None.
DiffField(kind, at, old, new) == IF old = new THEN {} ELSE {Change(kind, at)}

\* What one side has and the other has not, and what both have.
AddedOrRemoved(added, removed, old, new, at(_)) ==
    {Change(added, at(x)) : x \in new \ old} \cup {Change(removed, at(x)) : x \in old \ new}

Absent(field) == IF field = Malformed THEN None ELSE field

\* A bug: the parameters of a query are not part of the shape.
ResolveShapeOfMethod(v) ==
    IF ~HasResolve(v) THEN None
    ELSE [method |-> Method(v),
          query |-> None,
          allocation |-> IF v.resolve.assign = None THEN None
                         ELSE <<Absent(v.resolve.assign.allocation),
                                {a \in Elements(Assigns(v)) \ {Malformed} : a.arm # Malformed /\ Present(a.value)}>>]

\* resolve_shape: the method and its parameters as one value.
ResolveShape(v) ==
    IF ~HasResolve(v) THEN None
    ELSE [method |-> Method(v),
          query |-> IF v.resolve.query = None THEN None
                    ELSE [f \in DOMAIN v.resolve.query |-> Absent(v.resolve.query[f])],
          allocation |-> IF v.resolve.assign = None THEN None
                         ELSE <<Absent(v.resolve.assign.allocation),
                                {a \in Elements(Assigns(v)) \ {Malformed} : a.arm # Malformed /\ Present(a.value)}>>]

RulesOf(v) == IF HasResolve(v) THEN Rules(v) ELSE << >>
DefaultOf(v) == IF HasResolve(v) THEN Absent(v.resolve.default) ELSE None

\* Rules are compared place by place.
DiffRules(id, old, new) ==
    AddedOrRemoved("variable_rule_added", "variable_rule_removed", DOMAIN old, DOMAIN new,
                   LAMBDA i : <<"variable", id>>)
    \cup UNION {LET part(rule, f) == IF rule = Malformed THEN None ELSE Absent(rule[f])
                IN  DiffField("variable_rule_when_changed", <<"variable", id>>,
                              part(old[i], "when"), part(new[i], "when"))
                    \cup DiffField("variable_rule_value_changed", <<"variable", id>>,
                                   part(old[i], "value"), part(new[i], "value"))
                : i \in DOMAIN old \cap DOMAIN new}

DiffVariables(p, q) ==
    AddedOrRemoved("variable_added", "variable_removed", Variables(p), Variables(q),
                   LAMBDA id : <<"variable", id>>)
    \cup UNION {LET v == p.variables[id]
                    w == q.variables[id]
                    at == <<"variable", id>>
                IN  DiffField("variable_type_changed", at, Absent(v.type), Absent(w.type))
                    \cup DiffField("variable_resolve_default_changed", at, DefaultOf(v), DefaultOf(w))
                    \cup DiffRules(id, RulesOf(v), RulesOf(w))
                    \cup DiffField("variable_resolution_changed", at, ResolveShape(v), ResolveShape(w))
                : id \in Variables(p) \cap Variables(q)}

\* Entries are compared field by field, and a schema by what it says of them.
DiffCatalogs(p, q) ==
    AddedOrRemoved("catalog_added", "catalog_removed", DOMAIN p.catalogs, DOMAIN q.catalogs,
                   LAMBDA c : <<"catalog", c>>)
    \cup UNION {LET old == EntriesOf(p, c)
                    new == EntriesOf(q, c)
                IN  AddedOrRemoved("catalog_entry_added", "catalog_entry_removed", old, new,
                                   LAMBDA n : <<"catalog", c>>)
                    \cup UNION {UNION {DiffField("catalog_entry_changed", <<"catalog", c>>,
                                                 p.catalogs[c][n][f], q.catalogs[c][n][f])
                                       : f \in DOMAIN p.catalogs[c][n]}
                                : n \in old \cap new}
                : c \in DOMAIN p.catalogs \cup DOMAIN q.catalogs}

DiffLists(p, q) ==
    AddedOrRemoved("list_added", "list_removed", DOMAIN p.lists, DOMAIN q.lists, LAMBDA l : <<"list", l>>)
    \cup UNION {DiffField("list_changed", <<"list", l>>, p.lists[l], q.lists[l])
                : l \in DOMAIN p.lists \cap DOMAIN q.lists}

-----------------------------------------------------------------------------
(* Changes of layers.                                                       *)

\* The arms that have both a name and buckets.
NamedArms(a) == {arm \in Elements(Arms(a)) \ {Malformed} : Malformed \notin {arm.name, arm.buckets}}

\* bucket_claims: the arm that has a bucket.
Claimed(arms) == UNION {arm.buckets[1]..arm.buckets[2] : arm \in arms}
ClaimOf(arms, bucket) == (CHOOSE arm \in arms : bucket \in arm.buckets[1]..arm.buckets[2]).name

Released(old, new) == Claimed(old) \ Claimed(new)
Reassigned(old, new) == {b \in Claimed(old) \cap Claimed(new) : ClaimOf(old, b) # ClaimOf(new, b)}

\* A bug: a bucket that goes to another arm is not looked at.
ArmsKindOfReleases(old, new) ==
    IF Released(old, new) # {} THEN "allocation_arms_reassigned" ELSE "allocation_arms_expanded"

\* push_arms_change: whether units that are enrolled change hands.
ArmsKind(old, new) ==
    IF Released(old, new) # {} \/ Reassigned(old, new) # {}
    THEN "allocation_arms_reassigned" ELSE "allocation_arms_expanded"

Diversion(layer) == <<Absent(layer.unit), Absent(layer.buckets)>>
StatusOf(a) == IF Present(a.status) THEN a.status ELSE "running"

\* The allocations that have an id, as layer and id.
AllocationKeys(p) ==
    {<<at[1], AllocationAt(p, at).id>> : at \in {x \in Allocations(p) :
        AllocationAt(p, x) # Malformed /\ AllocationAt(p, x).id # Malformed}}
AllocationOn(p, key) ==
    LET at == {x \in Named(p, key[2]) : x[1] = key[1]}
    IN  AllocationAt(p, CHOOSE x \in at : \A y \in at : y[2] <= x[2])

DiffLayers(p, q) ==
    AddedOrRemoved("layer_added", "layer_removed", DOMAIN p.layers, DOMAIN q.layers, LAMBDA i : <<"layer", i>>)
    \cup (UNION {DiffField("layer_diversion_changed", <<"layer", i>>, Diversion(p.layers[i]), Diversion(q.layers[i]))
                 : i \in DOMAIN p.layers \cap DOMAIN q.layers})
    \cup AddedOrRemoved("allocation_added", "allocation_removed", AllocationKeys(p), AllocationKeys(q),
                        LAMBDA key : <<"layer", key[1]>>)
    \cup UNION {LET a == AllocationOn(p, key)
                    b == AllocationOn(q, key)
                    at == <<"layer", key[1]>>
                IN  DiffField("allocation_status_changed", at, StatusOf(a), StatusOf(b))
                    \cup DiffField("allocation_eligibility_changed", at, Absent(a.eligibility), Absent(b.eligibility))
                    \cup DiffField(ArmsKind(NamedArms(a), NamedArms(b)), at, NamedArms(a), NamedArms(b))
                : key \in AllocationKeys(p) \cap AllocationKeys(q)}

Changes(p, q) == DiffVariables(p, q) \cup DiffCatalogs(p, q) \cup DiffLists(p, q) \cup DiffLayers(p, q)

-----------------------------------------------------------------------------
(* Impacts.                                                                 *)

\* The resolution the app receives: the value, and for a catalog the entries.
Received(p, id, outcome) ==
    IF outcome.do = "fail" THEN [resolved |-> FALSE, value |-> <<Value(outcome.error, << >>)>>]
    ELSE [resolved |-> TRUE,
          value |-> IF outcome.value.type \in EntryValues
                    THEN <<outcome.value, [i \in DOMAIN outcome.value.is |->
                                             p.catalogs[p.variables[id].type.of][outcome.value.is[i]]]>>
                    ELSE <<outcome.value>>]

\* One batch: what each variable of the package resolves to, at one time.
Outcomes(p, c, time) ==
    LET meanings == Meanings(p, c, time)
    IN  [id \in Variables(p) |-> Received(p, id, meanings[id])]

\* context_impact: a variable that is not in both versions, or comes out
\* differently.  Compared are those that resolve in both.
ContextImpact(c, old, new) ==
    LET both == DOMAIN old \cap DOMAIN new
    IN  [context |-> c,
         impacts |-> {id \in DOMAIN old \cup DOMAIN new : id \in both => old[id] # new[id]},
         compared |-> Cardinality({id \in both : old[id].resolved /\ new[id].resolved})]

\* resolution_impacts: of the variables of both versions.
ResolutionImpacts(c, old, new) ==
    [context |-> c, impacts |-> {id \in DOMAIN old \cap DOMAIN new : old[id] # new[id]}, compared |-> 0]

-----------------------------------------------------------------------------
(* A diff: the changes, and then the contexts one by one, each resolved      *)
(* before and after, by batches that take the time for themselves.           *)

DiffInit ==
    /\ before = None /\ after = None /\ lenient = TRUE /\ moment = 0
    /\ changes = {} /\ panel = << >> /\ baseline = None /\ impacts = << >>

\* Without a version that compiles, or with none to compile, the lenient diff
\* leaves the impacts out; the other one fails, and shows nothing.
Diff(p, q, all, contexts) ==
    /\ before' = p /\ after' = q /\ lenient' = all
    /\ LET compile == Compiles(p) /\ Compiles(q)
       IN  /\ changes' = IF all \/ compile THEN Changes(p, q) ELSE {}
           /\ panel' = IF compile THEN contexts ELSE << >>
    /\ UNCHANGED <<moment, baseline, impacts>>

AllResolved(results) == \A id \in DOMAIN results : results[id].resolved

\* The strict diff gives up at the first variable that fails.
GiveUp == changes' = {} /\ panel' = << >> /\ baseline' = None /\ impacts' = << >>

ResolveBefore ==
    /\ panel # << >> /\ baseline = None
    /\ LET results == Outcomes(before, Head(panel), moment)
       IN  IF lenient \/ AllResolved(results)
           THEN baseline' = results /\ UNCHANGED <<changes, panel, impacts>>
           ELSE GiveUp
    /\ UNCHANGED <<before, after, lenient, moment>>

ResolveAfter ==
    /\ panel # << >> /\ baseline # None
    /\ LET results == Outcomes(after, Head(panel), moment)
           impact == IF lenient THEN ContextImpact(Head(panel), baseline, results)
                     ELSE ResolutionImpacts(Head(panel), baseline, results)
       IN  IF lenient \/ AllResolved(results)
           THEN /\ impacts' = Append(impacts, impact)
                /\ panel' = Tail(panel) /\ baseline' = None /\ UNCHANGED changes
           ELSE GiveUp
    /\ UNCHANGED <<before, after, lenient, moment>>

\* All the expressions a variable is resolved by.
Expressions(p, id) ==
    RuleExpressions(p.variables[id]) \cup QueryExpressions(p.variables[id])
    \cup AllocationExpressions(p, p.variables[id])

\* Time passes; if no expression asks for it, nobody can tell.
ReadsTime(p, id) == \E e \in Expressions(p, id) : e.op = "now"
TimePasses ==
    /\ panel # << >> /\ moment < MaxClock
    /\ \E p \in {before, after} : \E id \in Variables(p) : ReadsTime(p, id)
    /\ moment' = moment + 1
    /\ UNCHANGED <<before, after, lenient, changes, panel, baseline, impacts>>

DiffNext ==
    \/ before = None /\ \E pair \in Versions, contexts \in Panels :
         \/ Diff(pair[1], pair[2], TRUE, contexts)
         \/ Len(contexts) = 1 /\ Diff(pair[1], pair[2], FALSE, contexts)
    \/ ResolveBefore \/ ResolveAfter \/ TimePasses

DiffSpec == DiffInit /\ [][DiffNext]_diffVars

-----------------------------------------------------------------------------
(* Properties                                                               *)

\* The layer whose allocation a variable consumes.
LayersOf(p, id) ==
    IF Method(p.variables[id]) = "allocation"
    THEN {FindAllocation(p, p.variables[id].resolve.assign.allocation)[1]} ELSE {}

\* What the steps of next lead to from a start: what is in every set that has the
\* start and is closed under them.
Reached(start, next) ==
    {x \in DOMAIN next :
        \A s \in SUBSET DOMAIN next : start \in s /\ (\A y \in s : next[y] \subseteq s) => x \in s}

\* The variables it is resolved by, itself among them.
VariablesRead(p, id) == UNION {Reads(e) : e \in Expressions(p, id)}
ReadFrom(p, id) ==
    Reached(id, [x \in {id} \cup Variables(p) \cup UNION {VariablesRead(p, y) : y \in Variables(p)} |->
                   IF x \in Variables(p) THEN VariablesRead(p, x) ELSE {}])

\* A catalog and those its entries lead to.
RefersTo(p, c) == {p.catalogs[c][n].ref[1] : n \in {m \in DOMAIN p.catalogs[c] : p.catalogs[c][m].ref # None}}
CatalogsFrom(p, c) ==
    Reached(c, [d \in {c} \cup DOMAIN p.catalogs \cup UNION {RefersTo(p, e) : e \in DOMAIN p.catalogs} |->
                  IF d \in DOMAIN p.catalogs THEN RefersTo(p, d) ELSE {}])

\* What a reviewer would look at to see why a variable comes out as it does.
DependsOn(p, id) ==
    UNION {{<<"variable", x>>}
           \cup (IF x \notin Variables(p) THEN {}
                 ELSE {<<"layer", i>> : i \in LayersOf(p, x)}
                      \cup {<<"list", l>> : l \in UNION {ListsOf(e) : e \in Expressions(p, x)}}
                      \cup (IF p.variables[x].type.class = "catalog"
                            THEN {<<"catalog", c>> : c \in CatalogsFrom(p, p.variables[x].type.of)} ELSE {}))
           : x \in ReadFrom(p, id)}

Timeless(p, id) == \A x \in ReadFrom(p, id) \cap Variables(p) : ~ReadsTime(p, x)

\* A variable that comes out differently, in whatever context, does so by a
\* change that the diff lists, of the variable or of something it depends on:
\* no change the diff passes over moves a value.  A variable that reads the
\* time may also come out differently because the two batches ran at two times.
\* Layers that do not lint compile, and may have what the diff does not see: a
\* second allocation of an id, and arms that overlap and change their order.
ImpactsAreExplained ==
    impacts # << >> /\ LintLayerShapes(before) /\ LintLayerShapes(after) =>
        \A k \in DOMAIN impacts : \A id \in impacts[k].impacts :
            \/ \E p \in {before, after} : id \in Variables(p) /\ ~Timeless(p, id)
            \/ \E change \in changes : \E p \in {before, after} :
                 id \in Variables(p) /\ change.at \in DependsOn(p, id)

\* A diff whose every change is an expansion of arms moves no unit that was in an
\* arm: what it received before it receives after ("claims into previously
\* unclaimed buckets only enroll new units", diff.rs).  The one exception is an
\* allocation that is not expanded itself, whose eligibility asks a variable
\* that another allocation's expansion moves, or the time, which has passed.
ExpansionMovesNoOne ==
    /\ impacts # << >>
    /\ \A change \in changes : change.kind = "allocation_arms_expanded"
    /\ Linted(before) /\ Linted(after)
    =>
        \A k \in DOMAIN impacts : \A id \in impacts[k].impacts :
            Method(before.variables[id]) = "allocation" =>
                \/ \E time \in 0..moment :
                     LET was == Meanings(before, impacts[k].context, time)[id]
                     IN  was.do = "choose" /\ was.by = 0
                \/ \E e \in AllocationExpressions(before, before.variables[id]) :
                     Reads(e) \cap impacts[k].impacts # {} \/ (e.op = "now" /\ moment > 0)
==============================================================================
