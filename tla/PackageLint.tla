----------------------------- MODULE PackageLint -----------------------------
(***************************************************************************)
(* What the linter (src/lint/builtins) says of a package and what the       *)
(* runtime compiler (src/lint/runtime.rs) makes of it: two readers of one   *)
(* model, of which the second is meant to take all that the first passes.   *)
(*                                                                         *)
(* Variables are numbered in the order of their ids, catalog entries in     *)
(* that of their keys.  A field the code has as not Present is Malformed; an *)
(* optional one that is not there is None.  A warning is no error, and the  *)
(* two rules of the graph stage that only warn are left to ShadowedRules.   *)
(***************************************************************************)
EXTENDS Naturals, Sequences, TLC

CONSTANTS None, Malformed

Present(field) == field \notin {None, Malformed}
Positions(s) == DOMAIN s
Elements(s) == {s[i] : i \in DOMAIN s}

-----------------------------------------------------------------------------
(* Values: a JSON value is a type and the numbers that stand for it.        *)

Value(type, is) == [type |-> type, is |-> is]
Bool(b) == Value("bool", <<IF b THEN 1 ELSE 0>>)
Number(n) == Value("number", <<n>>)
String(n) == Value("string", <<n>>)
Strings(s) == Value("array", s)      \* an array of strings
Numbers(s) == Value("numbers", s)

\* Variable types: array wraps the class that often.
Type(class, of, array) == [class |-> class, of |-> of, array |-> array]

Primitives == {"bool", "number", "string", "array"}

Matches(type, value) ==
    IF type = "array" THEN value.type \in {"array", "numbers"} ELSE value.type = type

\* Expressions: what the linter and the evaluator tell apart.
Expression(op, x, of, v) == [op |-> op, x |-> x, of |-> of, v |-> v]
Reads(e) == IF e.op \in {"is", "guarded"} THEN e.x ELSE {}      \* references().variables
ListsOf(e) == IF e.op = "member" THEN {e.of} ELSE {}
InvalidRoot(e) == e.op = "wild"
UsesResolving(e) == e.op = "resolving"
ReadsEntry(e) == e.op \in {"flag", "rank"}

-----------------------------------------------------------------------------
(* The parts of a variable.                                                 *)

HasResolve(v) == v.resolve \notin {None, Malformed}
Method(v) == IF v.resolve.method = None THEN "rules" ELSE v.resolve.method
Rules(v) == IF v.resolve.rules = Malformed THEN << >> ELSE v.resolve.rules
Assigns(v) ==
    IF v.resolve.assign = None \/ v.resolve.assign.assigns = Malformed THEN << >>
    ELSE v.resolve.assign.assigns

\* The filter, the sort and the conditions of a variable: what the graph reads.
QueryExpressions(v) ==
    IF v.resolve.query = None THEN {} ELSE {v.resolve.query.filter, v.resolve.query.sort} \ {None, Malformed}
RuleExpressions(v) == {r.when : r \in Elements(Rules(v)) \ {Malformed}} \ {None, Malformed}

\* for_each_resolve_value
ResolveValues(v) ==
    ({v.resolve.default} \cup {a.value : a \in Elements(Assigns(v)) \ {Malformed}}
     \cup {r.value : r \in Elements(Rules(v)) \ {Malformed}}) \ {None, Malformed}

\* The first allocation with that id, in the order of the layers.
AllocationsOf(layer) == IF layer.allocations = Malformed THEN << >> ELSE layer.allocations
Arms(a) == IF a.arms = Malformed THEN << >> ELSE a.arms
Allocations(p) == UNION {{i} \X Positions(AllocationsOf(p.layers[i])) : i \in Positions(p.layers)}
AllocationAt(p, at) == p.layers[at[1]].allocations[at[2]]
Named(p, id) == {at \in Allocations(p) : AllocationAt(p, at) # Malformed /\ AllocationAt(p, at).id = id}
FindAllocation(p, id) ==
    CHOOSE at \in Named(p, id) :
        \A other \in Named(p, id) : at[1] < other[1] \/ (at[1] = other[1] /\ at[2] <= other[2])
\* variable_allocation_expressions: the unit and the eligibility behind a variable.
AllocationExpressions(p, v) ==
    IF Method(v) # "allocation" \/ v.resolve.assign = None \/ v.resolve.assign.allocation = Malformed
       \/ Named(p, v.resolve.assign.allocation) = {}
    THEN {}
    ELSE LET at == FindAllocation(p, v.resolve.assign.allocation)
         IN  {p.layers[at[1]].unit, AllocationAt(p, at).eligibility} \ {None, Malformed}
ArmNames(a) == {arm.name : arm \in Elements(Arms(a)) \ {Malformed}} \ {Malformed}

-----------------------------------------------------------------------------
(* Project stage: the shape of a variable.                                  *)

LintTypeSource(v) == v.type # Malformed

LintRuleShape(rule) == rule # Malformed /\ Present(rule.when) /\ Present(rule.value)

QueryCatalog(v) ==
    IF v.type # Malformed /\ v.type.class = "catalog" /\ v.type.array \in {0, 1} THEN v.type.of ELSE None

LintQueryShape(p, v) ==
    LET q == v.resolve.query
    IN  /\ v.resolve.rules = << >>
        /\ QueryCatalog(v) # None
        /\ q # None
        /\ q.from \in DOMAIN p.catalogs /\ q.from = QueryCatalog(v)
        /\ Malformed \notin {q.filter, q.sort}
        /\ q.order # None => q.order \in {"asc", "desc"} /\ Present(q.sort)
        /\ q.limit # None => q.limit # Malformed /\ q.limit >= 1

\* A bug: an arm that no [[resolve.assign]] names is let through.
LintAllocationShapePartial(p, v) ==
    LET assign == v.resolve.assign
        named == {a.arm : a \in Elements(Assigns(v)) \ {Malformed}}
    IN  /\ v.resolve.rules = << >>
        /\ Present(v.resolve.default)
        /\ assign # None /\ assign.assigns # Malformed
        /\ assign.allocation # Malformed /\ Named(p, assign.allocation) # {}
        /\ \A a \in Elements(Assigns(v)) : a # Malformed /\ a.arm # Malformed /\ Present(a.value)
        /\ \A i, j \in Positions(Assigns(v)) : Assigns(v)[i].arm = Assigns(v)[j].arm => i = j
        /\ named \subseteq ArmNames(AllocationAt(p, FindAllocation(p, assign.allocation)))

LintAllocationShape(p, v) ==
    LET assign == v.resolve.assign
        named == {a.arm : a \in Elements(Assigns(v)) \ {Malformed}}
    IN  /\ v.resolve.rules = << >>
        /\ Present(v.resolve.default)
        /\ assign # None /\ assign.assigns # Malformed
        /\ assign.allocation # Malformed /\ Named(p, assign.allocation) # {}
        /\ \A a \in Elements(Assigns(v)) : a # Malformed /\ a.arm # Malformed /\ Present(a.value)
        /\ \A i, j \in Positions(Assigns(v)) : Assigns(v)[i].arm = Assigns(v)[j].arm => i = j
        /\ named = ArmNames(AllocationAt(p, FindAllocation(p, assign.allocation)))

LintResolveShape(p, v) ==
    /\ HasResolve(v)
    /\ Method(v) \in {"rules", "query", "allocation"}
    /\ Method(v) # "query" => v.resolve.query = None
    /\ Method(v) # "allocation" => v.resolve.assign = None
    /\ CASE Method(v) = "query" -> LintQueryShape(p, v)
         [] Method(v) = "allocation" -> LintAllocationShape(p, v)
         [] OTHER -> /\ Present(v.resolve.default)
                     /\ v.resolve.rules # Malformed
                     /\ \A rule \in Elements(Rules(v)) : LintRuleShape(rule)

LintVariableShape(p, v) == v.versioned /\ LintTypeSource(v) /\ LintResolveShape(p, v)

\* The roots of an expression: known ones, and lists that are there.
LintRoots(p, e) == ~InvalidRoot(e) /\ ListsOf(e) \subseteq DOMAIN p.lists
LintVariableExpressionRoots(p, v) ==
    HasResolve(v) => \A e \in QueryExpressions(v) \cup RuleExpressions(v) : LintRoots(p, e) /\ ~UsesResolving(e)

LintTracePolicies(p) == \A e \in Elements(p.policies) : e # Malformed /\ LintRoots(p, e)

-----------------------------------------------------------------------------
(* Project stage: layers.                                                   *)

\* The claims of a layer's arms on its buckets, by allocation and arm.
ArmAt(layer, c) == layer.allocations[c[1]].arms[c[2]]
Claims(layer) ==
    LET allocations == {i \in Positions(AllocationsOf(layer)) : layer.allocations[i] # Malformed}
        arms == UNION {{i} \X Positions(Arms(layer.allocations[i])) : i \in allocations}
    IN  {c \in arms : ArmAt(layer, c) # Malformed /\ ArmAt(layer, c).buckets # Malformed}

\* By start, by end, and by label: the place stands for that.
Before(layer, c, d) ==
    LET x == ArmAt(layer, c).buckets
        y == ArmAt(layer, d).buckets
    IN  \/ x[1] < y[1]
        \/ x[1] = y[1] /\ x[2] < y[2]
        \/ x[1] = y[1] /\ x[2] = y[2] /\ c[1] < d[1]
        \/ x[1] = y[1] /\ x[2] = y[2] /\ c[1] = d[1] /\ c[2] < d[2]

\* claims.sort() and claims.windows(2): only neighbours are compared.
ClaimsApart(layer, claims) ==
    \A c, d \in claims :
        /\ Before(layer, c, d)
        /\ \A e \in claims : ~(Before(layer, c, e) /\ Before(layer, e, d))
        => ArmAt(layer, d).buckets[1] > ArmAt(layer, c).buckets[2]

\* A bug: each allocation is looked at alone.
BucketsApartWithin(layer) ==
    \A i \in Positions(AllocationsOf(layer)) : ClaimsApart(layer, {c \in Claims(layer) : c[1] = i})

BucketsApart(layer) == ClaimsApart(layer, Claims(layer))

LintLayerExpression(p, e) == LintRoots(p, e) /\ ~ReadsEntry(e) /\ ~UsesResolving(e)

LintArms(layer, a) ==
    /\ a.arms \notin {Malformed, << >>}
    /\ \A arm \in Elements(a.arms) :
         /\ arm # Malformed /\ arm.name # Malformed /\ arm.buckets # Malformed
         /\ layer.buckets # Malformed => arm.buckets[2] < layer.buckets
    /\ \A i, j \in Positions(a.arms) : a.arms[i].name = a.arms[j].name => i = j

LintLayer(p, layer) ==
    /\ layer.versioned
    /\ layer.unit # Malformed /\ LintLayerExpression(p, layer.unit) /\ Reads(layer.unit) = {}
    /\ layer.buckets # Malformed
    /\ layer.allocations # Malformed
    /\ \A a \in Elements(layer.allocations) :
         /\ a # Malformed /\ a.id # Malformed
         /\ a.status # None => a.status \in {"draft", "running", "concluded"}
         /\ a.eligibility # None => a.eligibility # Malformed /\ LintLayerExpression(p, a.eligibility)
         /\ LintArms(layer, a)
    /\ BucketsApart(layer)

LintLayerShapes(p) ==
    /\ \A layer \in Elements(p.layers) : LintLayer(p, layer)
    /\ \A at, other \in Allocations(p) : AllocationAt(p, at).id = AllocationAt(p, other).id => at = other

-----------------------------------------------------------------------------
(* Reference and value stages.                                              *)

EntriesOf(p, catalog) == IF catalog \in DOMAIN p.catalogs THEN DOMAIN p.catalogs[catalog] ELSE {}

\* A default or a rule's value names an entry when the type is the catalog
\* itself: an array's values and an assign's push no edge.
EntryReferences(v) ==
    IF v.type.class = "catalog" /\ v.type.array = 0
    THEN ({v.resolve.default} \cup {r.value : r \in Elements(Rules(v)) \ {Malformed}}) \ {None, Malformed}
    ELSE {}

LintVariableReferences(p, v) ==
    /\ v.type # Malformed /\ v.type.class = "catalog" => v.type.of \in DOMAIN p.catalogs
    /\ HasResolve(v) =>
         /\ \A e \in QueryExpressions(v) \cup RuleExpressions(v) : Reads(e) \subseteq DOMAIN p.variables
         /\ v.type # Malformed => \A value \in EntryReferences(v) :
              value.type = "string" /\ v.type.of \in DOMAIN p.catalogs => value.is[1] \in EntriesOf(p, v.type.of)

\* One literal of the variable against its type.
LintValue(p, type, value) ==
    CASE type.class = "primitive" /\ type.array = 0 -> Matches(type.of, value)
      [] type.class = "primitive" /\ type.array # 0 ->
            /\ value.type \in {"array", "numbers"}
            /\ value.is = << >> \/ type.of = IF value.type = "array" THEN "string" ELSE "number"
      [] type.class = "catalog" -> value.type = IF type.array = 0 THEN "string" ELSE "array"
      [] OTHER -> /\ value.type = IF type.array = 0 THEN "string" ELSE "array"
                  /\ Elements(value.is) \subseteq p.lists[type.of]

LintVariableValues(p, v) ==
    v.type # Malformed /\ v.type.class # "none" =>
        /\ v.type.array < 2
        /\ v.type.class = "primitive" => v.type.of \in Primitives
        /\ v.type.class = "list" => v.type.of \in DOMAIN p.lists
        /\ HasResolve(v) => \A value \in ResolveValues(v) : LintValue(p, v.type, value)

-----------------------------------------------------------------------------
(* Graph stage: no variable on a cycle of references.                       *)

\* A bug: what a query reads is forgotten.
ReferenceEdgesOfRules(p) ==
    [id \in DOMAIN p.variables |->
        IF ~HasResolve(p.variables[id]) THEN {}
        ELSE DOMAIN p.variables \cap UNION {Reads(e) : e \in RuleExpressions(p.variables[id])}]

\* variable_reference_graph: the conditions and the query of a variable, but
\* not the eligibility of the allocation it consumes.
ReferenceEdges(p) ==
    [id \in DOMAIN p.variables |->
        IF ~HasResolve(p.variables[id]) THEN {}
        ELSE DOMAIN p.variables
             \cap UNION {Reads(e) : e \in QueryExpressions(p.variables[id]) \cup RuleExpressions(p.variables[id])}]

\* A strongly connected component with an edge inside: each of its variables
\* refers to one of them.
LintVariableCycles(p) ==
    LET edges == ReferenceEdges(p)
    IN  \A component \in (SUBSET DOMAIN p.variables) \ {{}} :
            \E id \in component : edges[id] \cap component = {}

\* The rules that lint_shadowed_variable_rules warns of.
ShadowedRules(v) ==
    {i \in Positions(Rules(v)) : \E j \in 1..i - 1 :
        Malformed \notin {Rules(v)[i], Rules(v)[j]} /\ Rules(v)[i].when = Rules(v)[j].when}

\* A lint without errors.
Linted(p) ==
    /\ \A id \in DOMAIN p.variables :
         /\ LintVariableShape(p, p.variables[id])
         /\ LintVariableExpressionRoots(p, p.variables[id])
         /\ LintVariableReferences(p, p.variables[id])
         /\ LintVariableValues(p, p.variables[id])
    /\ LintLayerShapes(p)
    /\ LintTracePolicies(p)
    /\ LintVariableCycles(p)

-----------------------------------------------------------------------------
(* The compiler: what it refuses, with or without a lint before it.         *)

ValidType(p, type) ==
    CASE type.class = "primitive" -> type.of \in Primitives
      [] type.class = "catalog" -> type.of \in DOMAIN p.catalogs
      [] type.class = "list" -> type.of \in DOMAIN p.lists
      [] OTHER -> FALSE

CompilesValue(p, type, value) ==
    type.class = "catalog" /\ type.array \in {0, 1} =>
        /\ value.type = IF type.array = 0 THEN "string" ELSE "array"
        /\ Elements(value.is) \subseteq EntriesOf(p, type.of)

CompilesRule(p, v, rule) ==
    rule # Malformed /\ Present(rule.when) /\ Present(rule.value) /\ CompilesValue(p, v.type, rule.value)

CompilesQuery(p, v) ==
    LET q == v.resolve.query
    IN  /\ v.resolve.rules = << >>
        /\ QueryCatalog(v) # None
        /\ q # None /\ q.from = QueryCatalog(v)
        /\ Malformed \notin {q.filter, q.sort}
        /\ q.order \in {None, "asc", "desc"} /\ (q.order = "desc" => q.sort # None)
        /\ q.limit # None => q.limit # Malformed /\ q.limit >= 1
        /\ v.resolve.default # None => CompilesValue(p, v.type, v.resolve.default)

CompilesAllocation(p, v) ==
    LET assign == v.resolve.assign
        at == FindAllocation(p, assign.allocation)
        layer == p.layers[at[1]]
        allocation == AllocationAt(p, at)
    IN  /\ v.resolve.rules = << >>
        /\ assign # None
        /\ assign.allocation # Malformed /\ Named(p, assign.allocation) # {}
        /\ Malformed \notin {layer.unit, layer.buckets, allocation.status, allocation.eligibility}
        /\ \A a \in Elements(Assigns(v)) :
             a # Malformed /\ a.arm # Malformed /\ Present(a.value) /\ CompilesValue(p, v.type, a.value)
        /\ \A i, j \in Positions(Assigns(v)) : Assigns(v)[i].arm = Assigns(v)[j].arm => i = j
        /\ \A arm \in Elements(Arms(allocation)) : arm # Malformed /\ Malformed \notin {arm.name, arm.buckets}
        /\ \A i, j \in Positions(Arms(allocation)) : Arms(allocation)[i].name = Arms(allocation)[j].name => i = j
        /\ {a.arm : a \in Elements(Assigns(v))} = ArmNames(allocation)
        /\ Present(v.resolve.default) /\ CompilesValue(p, v.type, v.resolve.default)

CompilesResolve(p, v) ==
    /\ HasResolve(v)
    /\ CASE Method(v) = "rules" ->
              /\ v.resolve.query = None
              /\ Present(v.resolve.default) /\ CompilesValue(p, v.type, v.resolve.default)
              /\ v.resolve.rules # Malformed
              /\ \A rule \in Elements(Rules(v)) : CompilesRule(p, v, rule)
         [] Method(v) = "query" -> CompilesQuery(p, v)
         [] Method(v) = "allocation" -> CompilesAllocation(p, v)
         [] OTHER -> FALSE

Compiles(p) ==
    /\ \A id \in DOMAIN p.variables :
         LET v == p.variables[id]
         IN  v.versioned /\ v.type # Malformed /\ ValidType(p, v.type) /\ CompilesResolve(p, v)
    /\ \A e \in Elements(p.policies) : e # Malformed
==============================================================================
