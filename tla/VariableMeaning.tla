---------------------------- MODULE VariableMeaning ----------------------------
(***************************************************************************)
(* What a variable of a compiled package resolves to: the expressions, the  *)
(* three methods of src/resolve.rs (rules, a query over a catalog, an        *)
(* allocation of a layer), each as the expressions it asks one after the     *)
(* other, and the meaning that follows when nothing else goes on.            *)
(***************************************************************************)
EXTENDS PackageLint, FiniteSets
LOCAL INSTANCE SequencesExt

CONSTANT MaxClock      \* bound: the times the clock is seen to move

Nobody == 0         \* no variable; on the stack, the trace policies
Unknown == 9        \* an id the package does not have
Variables(p) == DOMAIN p.variables
The(s) == CHOOSE x \in s : TRUE      \* the one element of s
Ascending(s) == [i \in 1..Cardinality(s) |-> CHOOSE x \in s : Cardinality({y \in s : y < x}) = i - 1]

\* What the projection of an author's files makes: ids are numbers from one, a
\* list is a list, a string has one number, and a default is any JSON value.
Listed(s) == s \in Seq(Elements(s))
AuthoredVariable(v) ==
    /\ v.type # Malformed => v.type.class \in {"primitive", "catalog", "list", "none"}
    /\ HasResolve(v) =>
         /\ v.resolve.default # Malformed
         /\ Listed(Rules(v))
         /\ \A e \in QueryExpressions(v) \cup RuleExpressions(v) : Reads(e) \subseteq Nat
         /\ \A value \in ResolveValues(v) : value.type = "string" => DOMAIN value.is = {1}
AuthoredLayer(layer) ==
    /\ layer.unit # Malformed => Reads(layer.unit) \subseteq Nat
    /\ Listed(AllocationsOf(layer))
    /\ \A a \in Elements(AllocationsOf(layer)) \ {Malformed} :
         /\ Present(a.eligibility) => Reads(a.eligibility) \subseteq Nat
         /\ Listed(Arms(a))
         /\ \A arm \in Elements(Arms(a)) \ {Malformed} : arm.buckets # Malformed => arm.buckets \in Nat \X Nat
Authored(p) ==
    /\ p # None /\ IsFiniteSet(Variables(p))
    /\ \A catalog \in DOMAIN p.catalogs : IsFiniteSet(DOMAIN p.catalogs[catalog])
    /\ \A id \in Variables(p) : id \in Nat \ {Nobody} /\ AuthoredVariable(p.variables[id])
    /\ Listed(p.layers) /\ \A layer \in Elements(p.layers) : AuthoredLayer(layer)
    /\ Listed(p.policies) /\ \A e \in Elements(p.policies) \ {Malformed} : Reads(e) \subseteq Nat

-----------------------------------------------------------------------------
(* Expressions.                                                             *)

Fails == Value("failed", << >>)

End(path) == path[Len(path)]

\* catalog_entry_view: the references from an entry, n of them.  One that
\* dangles, or leads back to an entry of the path, is left as it is.
Climb(p, at, n) ==
    LET next(from) == p.catalogs[from[1]][from[2]].ref
        path[k \in 0..n] ==
            IF k = 0 THEN <<at>>
            ELSE IF path[k - 1] = << >> THEN << >>
            ELSE LET to == next(End(path[k - 1]))
                 IN  IF to # None /\ to \notin Elements(path[k - 1]) /\ to[2] \in EntriesOf(p, to[1])
                     THEN Append(path[k - 1], to) ELSE << >>
    IN  path[n]

Field(p, at, e) ==
    LET path == Climb(p, at, e.v.is[1])
    IN  IF path = << >> THEN Fails
        ELSE IF e.op = "flag" THEN Bool(p.catalogs[End(path)[1]][End(path)[2]].flag)
        ELSE p.catalogs[End(path)[1]][End(path)[2]].rank

\* cel_evaluate, once the variables are bound.  c is the context, at the entry
\* in play and target the variable a trace policy is asked about.
Evaluate(p, c, time, e, bound, at, target) ==
    CASE e.op = "constant" -> e.v
      [] e.op = "is" -> Bool(\A x \in e.x : bound[x] = e.v)
      [] e.op = "guarded" -> Bool(FALSE)      \* false && variables[...] == ...
      [] e.op = "fact" -> IF c.fact = None THEN Fails ELSE Bool(c.fact)
      [] e.op = "unit" -> IF c.hash = None THEN Fails ELSE Number(0)
      [] e.op = "now" -> Bool(time = e.v.is[1])
      [] e.op = "member" /\ e.of \in DOMAIN p.lists -> Bool(e.v.is[1] \in p.lists[e.of])
      [] e.op \in {"flag", "rank"} /\ at # None -> Field(p, at, e)
      [] e.op = "resolving" /\ target # Nobody -> Bool(target \in e.x)
      [] OTHER -> Fails

-----------------------------------------------------------------------------
(* A resolution asks for the next expression, or is done.                   *)

Ask(e, at, bool) == [do |-> "ask", expression |-> e, at |-> at, bool |-> bool]
Chosen(value, by) == [do |-> "choose", value |-> value, by |-> by]
Wrong(error) == [do |-> "fail", error |-> error]

\* compile_variable_value: a literal of the package as the app receives it.
Selected(v, literal) ==
    IF v.type.class # "catalog" \/ v.type.array = 2 THEN literal
    ELSE Value(IF v.type.array = 0 THEN "entry" ELSE "entries", literal.is)
Default(v) == Selected(v, v.resolve.default)

AskRules(v, results) ==
    LET n == Len(results)
    IN  IF n > 0 /\ results[n] = Bool(TRUE) THEN Chosen(Selected(v, Rules(v)[n].value), n)
        ELSE IF n < Len(Rules(v)) THEN Ask(Rules(v)[n + 1].when, None, TRUE)
        ELSE Chosen(Default(v), 0)

Comparable(a, b) == a.type = b.type /\ a.type \in {"number", "string"}
ByKey(keys, i, j) == keys[i].is[1] < keys[j].is[1] \/ (keys[i].is[1] = keys[j].is[1] /\ i < j)

\* Sorted by key, entries with one key as they were; "desc" turns that round.
Arranged(q, names, keys) ==
    LET sorted == [i \in DOMAIN names |->
                     names[SortSeq([j \in DOMAIN names |-> j], LAMBDA a, b : ByKey(keys, a, b))[i]]]
        ordered == IF q.sort = None THEN names ELSE IF q.order = "desc" THEN Reverse(sorted) ELSE sorted
    IN  IF q.limit # None /\ q.limit < Len(ordered) THEN SubSeq(ordered, 1, q.limit) ELSE ordered

SelectMatches(v, matches) ==
    LET default == v.resolve.default
    IN  IF v.type.array = 0
        THEN CASE matches = << >> /\ default = None -> Wrong("no match")
               [] matches = << >> -> Chosen(Default(v), 0)
               [] Len(matches) > 1 /\ v.resolve.query.sort = None -> Wrong("many matches")
               [] OTHER -> Chosen(Value("entry with id", <<Head(matches)>>), 0)
        ELSE IF matches = << >> /\ default # None THEN Chosen(Default(v), 0)
        ELSE Chosen(Value("entries with id", matches), 0)

AskQuery(p, v, results) ==
    LET q == v.resolve.query
        names == Ascending(DOMAIN p.catalogs[q.from])
        filters == IF q.filter = None THEN 0 ELSE Len(names)
        kept == Ascending({names[j] : j \in {k \in DOMAIN names : k > filters \/ results[k] = Bool(TRUE)}})
        keys == SubSeq(results, filters + 1, Len(results))
    IN  IF names = << >> THEN Wrong("no entries")
        ELSE IF Len(results) < filters THEN Ask(q.filter, <<q.from, names[Len(results) + 1]>>, TRUE)
        ELSE IF q.sort # None /\ Len(keys) < Len(kept) THEN Ask(q.sort, <<q.from, kept[Len(keys) + 1]>>, FALSE)
        ELSE IF \E i \in 1..Len(keys) - 1 : ~Comparable(keys[i], keys[i + 1]) THEN Wrong("keys")
        ELSE SelectMatches(v, Arranged(q, kept, keys))

\* allocation_bucket: the hash of the unit on a layer is the context's to say.
Bucket(p, c, i) == c.hash[i] % p.layers[i].buckets

AskAllocation(p, c, v, results) ==
    LET at == FindAllocation(p, v.resolve.assign.allocation)
        a == AllocationAt(p, at)
        first == IF a.eligibility = None THEN 0 ELSE 1
        hit == {i \in Positions(Arms(a)) :
                  Bucket(p, c, at[1]) \in a.arms[i].buckets[1]..a.arms[i].buckets[2]}
        arm == CHOOSE i \in hit : \A j \in hit : i <= j
        value == (CHOOSE g \in Elements(Assigns(v)) : g.arm = a.arms[arm].name).value
    IN  IF a.status \notin {None, "running"} THEN Chosen(Default(v), 0)
        ELSE IF Len(results) < first THEN Ask(a.eligibility, None, TRUE)
        ELSE IF first = 1 /\ results[1] = Bool(FALSE) THEN Chosen(Default(v), 0)
        ELSE IF Len(results) = first THEN Ask(p.layers[at[1]].unit, None, FALSE)
        ELSE IF hit = {} THEN Chosen(Default(v), 0)
        ELSE Chosen(Selected(v, value), arm)

\* evaluate_trace_policies, each asked about the variable that was resolved.
AskPolicies(p, results) ==
    IF Len(results) = Len(p.policies) THEN Chosen(None, 0)
    ELSE Ask(p.policies[Len(results) + 1], None, TRUE)

AskNext(p, c, id, results) ==
    IF id = Nobody THEN AskPolicies(p, results)
    ELSE LET v == p.variables[id]
         IN  CASE Method(v) = "rules" -> AskRules(v, results)
               [] Method(v) = "query" -> AskQuery(p, v, results)
               [] OTHER -> AskAllocation(p, c, v, results)

\* evaluate_bool refuses what is no bool.
Answer(ask, value) == IF ask.bool /\ value.type # "bool" THEN Fails ELSE value

-----------------------------------------------------------------------------
(* What a variable means, with no cache, no marks and no order of batches.  *)

\* The variables of meaning are all there are.
Known(meaning, x) == IF x \in DOMAIN meaning THEN meaning[x] ELSE Wrong("not found")

\* What an expression that is asked adds to the results.  The variables it reads
\* come first, in their order, and the first that fails is what comes of it.
Heard(p, c, time, meaning, target, results, ask) ==
    LET wrong == {x \in Reads(ask.expression) : Known(meaning, x).do = "fail"}
        bound == [x \in Reads(ask.expression) |-> Known(meaning, x).value]
        value == Answer(ask, Evaluate(p, c, time, ask.expression, bound, ask.at, target))
    IN  IF wrong # {} THEN Known(meaning, CHOOSE x \in wrong : \A y \in wrong : x <= y)
        ELSE IF value = Fails THEN Wrong("evaluation")
        ELSE [do |-> "go on", results |-> Append(results, value)]

\* One expression more of a resolution that has come this far.
Further(p, c, time, id, meaning, target, far) ==
    IF far.do # "go on" THEN far
    ELSE The({IF ask.do = "ask" THEN Heard(p, c, time, meaning, target, far.results, ask) ELSE ask :
                ask \in {AskNext(p, c, id, far.results)}})

\* How far the asking of one resolution is after n expressions, given the meaning
\* of the variables it reads.
Asking(p, c, time, id, meaning, target) ==
    LET asked[n \in Nat] ==
            IF n = 0 THEN [do |-> "go on", results |-> << >>]
            ELSE Further(p, c, time, id, meaning, target, asked[n - 1])
    IN  asked

\* As many expressions as it can come to ask.
MostAsks(p, id) ==
    IF id = Nobody THEN Len(p.policies)
    ELSE LET v == p.variables[id]
         IN  CASE Method(v) = "rules" -> Len(Rules(v))
               [] Method(v) = "query" -> 2 * Cardinality(DOMAIN p.catalogs[v.resolve.query.from])
               [] OTHER -> 2
Meant(p, c, time, id, meaning, target) == Asking(p, c, time, id, meaning, target)[MostAsks(p, id) + 1]

\* What variables mean if references are followed n times and no further.
Following(p, c, time) ==
    LET followed[n \in Nat] ==
            IF n = 0 THEN [id \in Variables(p) |-> Wrong("cycle")]
            ELSE [id \in Variables(p) |-> Meant(p, c, time, id, followed[n - 1], Nobody)]
    IN  followed

\* A chain of references longer than there are variables comes back to one.
Meanings(p, c, time) == Following(p, c, time)[Cardinality(Variables(p))]
==============================================================================
