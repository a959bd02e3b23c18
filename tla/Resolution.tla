------------------------------ MODULE Resolution ------------------------------
(***************************************************************************)
(* Resolving variables against a compiled package (src/resolve.rs).         *)
(*                                                                         *)
(* One ResolutionState serves a whole batch: it takes the time once, keeps  *)
(* the values of referenced variables in a cache and finds cycles by the    *)
(* set of the variables that are being resolved.  A variable is resolved by *)
(* asking expressions, which resolve the variables they read first, whether *)
(* the evaluation would come to need them or not.                           *)
(***************************************************************************)
EXTENDS VariableMeaning

CONSTANTS Packages, Contexts

VARIABLES package, context,
          clean,         \* the package lints without errors
          clock,
          mode,          \* which of the entry points is running; "" is none
          now,           \* ResolutionState.now
          todo,          \* the variables left to the batch
          stack,         \* the variables being resolved, innermost last
          cache,         \* ResolutionState.variable_cache
          resolving,     \* ResolutionState.resolving
          outcomes       \* of the batch so far

vars == <<package, clean, context, clock, mode, now, todo, stack, cache, resolving, outcomes>>

ASSUME MarksAssumption ==
    /\ None # Malformed
    /\ None # "desc" /\ Malformed \notin {"draft", "running", "concluded", "asc", "desc"}
ASSUME PackagesAssumption == \A p \in Packages : Authored(p)

-----------------------------------------------------------------------------
(* The evaluator.                                                           *)

Init ==
    /\ package = None /\ clean = FALSE /\ context = None /\ clock = 0 /\ mode = "" /\ now = 0
    /\ todo = << >> /\ stack = << >> /\ cache = << >> /\ resolving = {} /\ outcomes = << >>

\* compile_runtime_package: what does not compile is not resolved.
Load(p) ==
    /\ package' = p /\ clean' = Linted(p)
    /\ mode' = IF Compiles(p) THEN "" ELSE "refused"
    /\ UNCHANGED <<context, clock, now, todo, stack, cache, resolving, outcomes>>

\* ResolutionState::new.  Traced resolves one variable and then asks the trace
\* policies; strict gives up at the first error; outcomes goes on.
Start(m, ids, c) ==
    /\ package # None /\ mode = "" /\ (package.layers = << >> => c.hash = None)
    /\ mode' = m /\ todo' = ids /\ context' = c /\ now' = clock
    /\ UNCHANGED <<package, clean, clock, stack, cache, resolving, outcomes>>

\* Time passes; if the package never asks for it, nobody can tell.
ReadsTheTime(p) ==
    \E e \in (Elements(p.policies) \ {Malformed})
             \cup UNION {LET v == p.variables[id]
                        IN  RuleExpressions(v) \cup QueryExpressions(v) \cup AllocationExpressions(p, v)
                        : id \in Variables(p)} :
        e.op = "now"
Tick ==
    /\ todo # << >> /\ clock < MaxClock /\ ReadsTheTime(package)
    /\ clock' = clock + 1
    /\ UNCHANGED <<package, clean, context, mode, now, todo, stack, cache, resolving, outcomes>>

Keep == UNCHANGED <<package, clean, context, clock, mode, now>>

\* A bug: every expression reads the clock.
EnvNowLate == clock
EnvNow == now

Frame(id) == [id |-> id, results |-> << >>, bound |-> << >>]
With(f, x, value) == [y \in {x} \cup DOMAIN f |-> IF y = x THEN value ELSE f[y]]
Top == stack[Len(stack)]
Below == SubSeq(stack, 1, Len(stack) - 1)
Pending == AskNext(package, context, Top.id, Top.results)
Unbound == Reads(Pending.expression) \ DOMAIN Top.bound
NextRead == CHOOSE x \in Unbound : \A y \in Unbound : x <= y
Bind(frame, id, value) == [frame EXCEPT !.bound = With(@, id, value)]

\* The outcome of the variable the batch is at.
Settle(outcome) ==
    /\ outcomes' = With(outcomes, Head(todo), outcome)
    /\ todo' = IF outcome.do = "fail" /\ mode = "strict" THEN << >> ELSE Tail(todo)

\* A bug: an error leaves the variables it passes marked as being resolved.
ThrowMarked(error) ==
    /\ stack' = << >> /\ UNCHANGED <<cache, resolving>>
    /\ Settle(Wrong(error))

\* An error ends every resolution it passes, each of which unmarks its variable.
Throw(error) ==
    /\ stack' = << >> /\ UNCHANGED cache
    /\ resolving' = resolving \ {stack[i].id : i \in 2..Len(stack)}
    /\ Settle(Wrong(error))

\* The batch comes to a variable, which is not marked as being resolved.
Call ==
    /\ todo # << >> /\ stack = << >>
    /\ IF Head(todo) \in Variables(package)
       THEN stack' = <<Frame(Head(todo))>> /\ UNCHANGED <<todo, cache, resolving, outcomes>>
       ELSE Throw("not found")
    /\ Keep

Inquiring == stack # << >> /\ Pending.do = "ask"

\* resolve_variable_value: from the cache, or by a resolution of its own.
ReadCached ==
    /\ Inquiring /\ Unbound # {} /\ NextRead \in DOMAIN cache
    /\ stack' = Append(Below, Bind(Top, NextRead, cache[NextRead]))
    /\ UNCHANGED <<todo, cache, resolving, outcomes>> /\ Keep

ReadResolving ==
    /\ Inquiring /\ Unbound # {} /\ NextRead \notin DOMAIN cache
    /\ IF NextRead \in resolving THEN Throw("cycle")
       ELSE IF NextRead \notin Variables(package) THEN Throw("not found")
       ELSE /\ resolving' = resolving \cup {NextRead}
            /\ stack' = Append(stack, Frame(NextRead))
            /\ UNCHANGED <<todo, cache, outcomes>>
    /\ Keep

EvaluateTop ==
    /\ Inquiring /\ Unbound = {}
    /\ LET target == IF Top.id = Nobody THEN Head(todo) ELSE Nobody
           value == Answer(Pending, Evaluate(package, context, EnvNow, Pending.expression, Top.bound,
                                             Pending.at, target))
       IN  IF value = Fails THEN Throw("evaluation")
           ELSE /\ stack' = Append(Below, [Top EXCEPT !.results = Append(@, value), !.bound = << >>])
                /\ UNCHANGED <<todo, cache, resolving, outcomes>>
    /\ Keep

Return ==
    /\ stack # << >> /\ Pending.do # "ask"
    /\ IF Pending.do = "fail" THEN Throw(Pending.error)
       ELSE IF Len(stack) > 1
       THEN LET id == Top.id
                caller == Below[Len(Below)]
            IN  /\ resolving' = resolving \ {id}
                /\ cache' = With(cache, id, Pending.value)
                /\ stack' = Append(SubSeq(stack, 1, Len(stack) - 2), Bind(caller, id, Pending.value))
                /\ UNCHANGED <<todo, outcomes>>
       ELSE IF Top.id = Nobody
       THEN stack' = << >> /\ todo' = Tail(todo) /\ UNCHANGED <<cache, resolving, outcomes>>
       ELSE IF mode = "traced"
       THEN /\ stack' = <<Frame(Nobody)>>
            /\ outcomes' = With(outcomes, Top.id, Pending)
            /\ UNCHANGED <<todo, cache, resolving>>
       ELSE stack' = << >> /\ Settle(Pending) /\ UNCHANGED <<cache, resolving>>
    /\ Keep

Next ==
    \/ package = None /\ \E p \in Packages : Load(p)
    \/ \E c \in Contexts :
         \/ package # None /\ \E m \in {"strict", "outcomes"} : Start(m, Ascending(Variables(package)), c)
         \/ package # None /\ \E id \in Variables(package) \cup {Unknown} : Start("traced", <<id>>, c)
    \/ Tick
    \/ Call \/ ReadCached \/ ReadResolving \/ EvaluateTop \/ Return

Spec == Init /\ [][Next]_vars

-----------------------------------------------------------------------------
(* Properties                                                               *)

\* Whatever was resolved before it in the batch, and however the clock moved
\* meanwhile, a variable comes out as it would alone at the start of the batch;
\* a failing trace policy is all that tracing can add.
BatchMeansEach ==
    todo = << >> /\ outcomes # << >> =>
        LET meaning == Meanings(package, context, now)
        IN  \A id \in DOMAIN outcomes :
                LET policies == Meant(package, context, now, Nobody, meaning, id)
                IN  outcomes[id] = IF mode = "traced" /\ Known(meaning, id).do # "fail" /\ policies.do = "fail"
                                   THEN policies ELSE Known(meaning, id)

\* The rule that lint calls shadowed is never the one that is chosen.
ShadowedNeverChosen ==
    \A id \in DOMAIN outcomes : outcomes[id].do = "choose" /\ Method(package.variables[id]) = "rules" =>
        outcomes[id].by \notin ShadowedRules(package.variables[id])

\* Some allocation that a variable consumes reads variables to tell who is
\* eligible.
EligibilityReads(p) ==
    \E at \in Allocations(p) : AllocationAt(p, at) # Malformed
        /\ Present(AllocationAt(p, at).eligibility) /\ Reads(AllocationAt(p, at).eligibility) # {}

BrokenReference(id) == outcomes[id].do = "fail" /\ outcomes[id].error \in {"cycle", "not found"}

\* Trace policies may read any id: lint does not look.
PoliciesRead == mode = "traced" /\ \E e \in Elements(package.policies) : Reads(e) # {}

ReferencesHold ==
    \A id \in DOMAIN outcomes \cap Variables(package) :
        outcomes[id].do = "fail" => outcomes[id].error \notin {"cycle", "not found"}

\* In a package that lints clean no resolution runs into a cycle or a variable
\* that is not there: lint finds them all but those of an eligibility.
LintedNeverCycles ==
    clean /\ ~EligibilityReads(package) /\ ~PoliciesRead => ReferencesHold

\* "Lint catches cycles at edit time, and resolution refuses them too"
\* (docs/src/expressions.md).
LintCatchesCycles ==
    clean /\ ~PoliciesRead =>
        \A id \in DOMAIN outcomes : outcomes[id].do = "fail" => outcomes[id].error # "cycle"

\* What lint does not look into: the entries that an array names or an assign
\* picks, and a type that names nothing.
Overlooked(v) ==
    \/ v.type.class = "none"
    \/ v.type.class = "catalog" /\ HasResolve(v) /\ (v.type.array = 1 \/ Assigns(v) # << >>)

\* What lints clean compiles, but for that.
LintedCompiles ==
    clean /\ (\A id \in Variables(package) : ~Overlooked(package.variables[id]))
        => mode # "refused"

\* On a layer that lints clean a unit is in one arm of one allocation at most.
OneArmPerLayer ==
    \A id, other \in DOMAIN outcomes :
        LET v == package.variables[id]
            w == package.variables[other]
        IN  /\ clean
            /\ outcomes[id].do = "choose" /\ outcomes[other].do = "choose"
            /\ Method(v) = "allocation" /\ Method(w) = "allocation"
            /\ outcomes[id].by > 0 /\ outcomes[other].by > 0
            /\ FindAllocation(package, v.resolve.assign.allocation)[1]
                 = FindAllocation(package, w.resolve.assign.allocation)[1]
            => v.resolve.assign.allocation = w.resolve.assign.allocation /\ outcomes[id].by = outcomes[other].by
==============================================================================
