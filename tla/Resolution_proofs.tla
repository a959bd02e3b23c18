------------------------- MODULE Resolution_proofs -------------------------
(***************************************************************************)
(* Theorems about resolution and lint, for every set of packages that        *)
(* authors can write: what lints clean compiles, the rule that lint calls    *)
(* shadowed is never chosen, no reference of a package that lints clean is   *)
(* broken, a unit is in one arm of a layer, and each variable of a batch     *)
(* comes out as it would alone at the start of the batch.  And about the     *)
(* diff of any two versions of a package: what it lists explains what        *)
(* resolves differently.                                                     *)
(***************************************************************************)
EXTENDS Resolution, PackageDiff, FiniteSetTheorems, TLAPS

-----------------------------------------------------------------------------
(* The first of several.                                                    *)

Induction == INSTANCE WellFoundedInduction
Lower == {pair \in Nat \X Nat : pair[1] < pair[2]}

\* Some numbers have a least one.
LEMMA Least == ASSUME NEW S, S \subseteq Nat, S # {} PROVE \E x \in S : \A y \in S : x <= y
<1>1. Induction!IsWellFoundedOn(Lower, Nat)
  BY Induction!NatLessThanWellFounded DEF Induction!OpToRel, Lower
<1>2. PICK x \in S : \A y \in S : ~(<<y, x>> \in Lower)
  BY <1>1, Induction!WFMin
<1>3. ASSUME NEW y \in S
      PROVE  x <= y
  <2>1. <<y, x>>[1] = y /\ <<y, x>>[2] = x /\ <<y, x>> \in Nat \X Nat
    OBVIOUS
  <2>2. ~(y < x)
    BY <1>2, <2>1 DEF Lower
  <2> QED
    BY <2>2
<1> QED
  BY <1>3

\* The allocation that is found has the id.
LEMMA FoundIsNamed ==
    ASSUME NEW p, NEW id, Listed(p.layers), Named(p, id) # {},
           \A layer \in Elements(p.layers) : Listed(AllocationsOf(layer))
    PROVE  FindAllocation(p, id) \in Named(p, id)
<1>1. ASSUME NEW at \in Named(p, id)
      PROVE  at \in Nat \X Nat
  <2>1. PICK i \in Positions(p.layers) : at \in {i} \X Positions(AllocationsOf(p.layers[i]))
    BY DEF Named, Allocations
  <2>2. i \in Nat /\ p.layers[i] \in Elements(p.layers)
    BY <2>1 DEF Listed, Positions, Elements
  <2>3. Listed(AllocationsOf(p.layers[i]))
    BY <2>2
  <2>4. Positions(AllocationsOf(p.layers[i])) \subseteq Nat
    BY <2>3 DEF Listed, Positions
  <2> QED
    BY <2>1, <2>2, <2>4
<1>2. PICK first \in {at[1] : at \in Named(p, id)} : \A y \in {at[1] : at \in Named(p, id)} : first <= y
  <2>1. {at[1] : at \in Named(p, id)} \subseteq Nat
    BY <1>1
  <2> QED
    BY <2>1, Least
<1> DEFINE Nearest == {at \in Named(p, id) : at[1] = first}
<1>3. PICK second \in {at[2] : at \in Nearest} : \A y \in {at[2] : at \in Nearest} : second <= y
  <2>1. {at[2] : at \in Nearest} \subseteq Nat
    BY <1>1
  <2>2. Nearest # {}
    BY <1>2
  <2> QED
    BY <2>1, <2>2, Least
<1>4. PICK at \in Nearest : at[2] = second
  BY <1>3
<1>5. \A other \in Named(p, id) : at[1] < other[1] \/ (at[1] = other[1] /\ at[2] <= other[2])
  BY <1>1, <1>2, <1>3, <1>4
<1> QED
  BY <1>4, <1>5 DEF FindAllocation

-----------------------------------------------------------------------------
(* Lint and the compiler.                                                   *)

\* The literals of a variable that lints clean, but for what is overlooked: a
\* default or the value of a rule compiles,
LEMMA LintedValues ==
    ASSUME NEW p, NEW v, AuthoredVariable(v), HasResolve(v), v.type # Malformed, ~Overlooked(v),
           LintVariableReferences(p, v), LintVariableValues(p, v)
    PROVE  /\ ValidType(p, v.type)
           /\ Present(v.resolve.default) => CompilesValue(p, v.type, v.resolve.default)
           /\ \A rule \in Elements(Rules(v)) \ {Malformed} :
                Present(rule.value) => CompilesValue(p, v.type, rule.value)
<1>1. ValidType(p, v.type)
  BY DEF AuthoredVariable, Overlooked, LintVariableReferences, LintVariableValues, ValidType
<1>2. ASSUME NEW value \in ResolveValues(v),
             v.type.class = "catalog" /\ v.type.array = 0 => value \in EntryReferences(v)
      PROVE  CompilesValue(p, v.type, value)
  <2>1. SUFFICES ASSUME v.type.class = "catalog", v.type.array \in {0, 1}
                 PROVE  /\ value.type = IF v.type.array = 0 THEN "string" ELSE "array"
                        /\ Elements(value.is) \subseteq EntriesOf(p, v.type.of)
    BY DEF CompilesValue
  <2>2. v.type.array = 0 /\ v.type.class # "none"
    BY <2>1 DEF Overlooked
  <2>3. LintValue(p, v.type, value)
    BY <2>2 DEF LintVariableValues
  <2>4. value.type = "string"
    BY <2>1, <2>2, <2>3 DEF LintValue
  <2>5. value.is[1] \in EntriesOf(p, v.type.of)
    BY <1>2, <2>1, <2>2, <2>4 DEF LintVariableReferences
  <2>6. Elements(value.is) = {value.is[1]}
    BY <2>4 DEF AuthoredVariable, Elements
  <2> QED
    BY <2>2, <2>4, <2>5, <2>6
<1>3. Present(v.resolve.default) => CompilesValue(p, v.type, v.resolve.default)
  BY <1>2 DEF ResolveValues, EntryReferences, Present
<1>4. ASSUME NEW rule \in Elements(Rules(v)) \ {Malformed}, Present(rule.value)
      PROVE  CompilesValue(p, v.type, rule.value)
  BY <1>2, <1>4 DEF ResolveValues, EntryReferences, Present
<1> QED
  BY <1>1, <1>3, <1>4

\* and so does the value of an assign.
LEMMA LintedAssigns ==
    ASSUME NEW p, NEW v, HasResolve(v), ~Overlooked(v), NEW a \in Elements(Assigns(v))
    PROVE  CompilesValue(p, v.type, a.value)
<1>1. Assigns(v) # << >>
  BY DEF Elements
<1>2. v.type.class = "catalog" => v.type.array # 0
  BY <1>1 DEF Overlooked
<1>3. v.type.class = "catalog" => v.type.array # 1
  BY DEF Overlooked
<1> QED
  BY <1>2, <1>3 DEF CompilesValue

\* A variable that takes the first rule that holds, or its default.
LEMMA LintedRulesCompile ==
    ASSUME NEW p, NEW v, AuthoredVariable(v), ~Overlooked(v), Method(v) = "rules",
           LintVariableShape(p, v), LintVariableReferences(p, v), LintVariableValues(p, v)
    PROVE  CompilesResolve(p, v)
<1>1. HasResolve(v) /\ v.type # Malformed /\ LintResolveShape(p, v)
  BY DEF LintVariableShape, LintTypeSource, LintResolveShape
<1>2. /\ v.resolve.query = None /\ Present(v.resolve.default) /\ v.resolve.rules # Malformed
      /\ \A rule \in Elements(Rules(v)) : LintRuleShape(rule)
  BY <1>1 DEF LintResolveShape
<1>3. \A rule \in Elements(Rules(v)) : CompilesRule(p, v, rule)
  BY <1>1, <1>2, LintedValues DEF LintRuleShape, CompilesRule
<1> QED
  BY <1>1, <1>2, <1>3, LintedValues DEF CompilesResolve

\* One that takes the entries a query finds.
LEMMA LintedQueryCompiles ==
    ASSUME NEW p, NEW v, AuthoredVariable(v), ~Overlooked(v), Method(v) = "query",
           LintVariableShape(p, v), LintVariableReferences(p, v), LintVariableValues(p, v)
    PROVE  CompilesResolve(p, v)
<1>1. HasResolve(v) /\ v.type # Malformed /\ LintResolveShape(p, v)
  BY DEF LintVariableShape, LintTypeSource, LintResolveShape
<1>2. LintQueryShape(p, v)
  BY <1>1 DEF LintResolveShape
<1>3. v.resolve.query.order \in {None, "asc", "desc"}
      /\ (v.resolve.query.order = "desc" => v.resolve.query.sort # None)
  BY <1>2, MarksAssumption DEF LintQueryShape, Present
<1>4. v.resolve.default # None => CompilesValue(p, v.type, v.resolve.default)
  BY <1>1, LintedValues DEF AuthoredVariable, Present
<1>5. CompilesQuery(p, v)
  BY <1>2, <1>3, <1>4 DEF LintQueryShape, CompilesQuery
<1> QED
  BY <1>1, <1>5 DEF CompilesResolve

\* One that takes the arm of an allocation.
LEMMA LintedAllocationCompiles ==
    ASSUME NEW p, NEW v, Authored(p), AuthoredVariable(v), ~Overlooked(v), Method(v) = "allocation",
           LintLayerShapes(p),
           LintVariableShape(p, v), LintVariableReferences(p, v), LintVariableValues(p, v)
    PROVE  CompilesResolve(p, v)
<1> DEFINE at == FindAllocation(p, v.resolve.assign.allocation)
           layer == p.layers[at[1]]
           a == AllocationAt(p, at)
<1>1. HasResolve(v) /\ v.type # Malformed /\ LintResolveShape(p, v)
  BY DEF LintVariableShape, LintTypeSource, LintResolveShape
<1>2. LintAllocationShape(p, v)
  BY <1>1 DEF LintResolveShape
<1>3. at \in Named(p, v.resolve.assign.allocation)
  BY <1>2, FoundIsNamed DEF LintAllocationShape, Authored, AuthoredLayer
<1>4. at[1] \in Positions(p.layers) /\ at[2] \in Positions(AllocationsOf(layer))
  BY <1>3 DEF Named, Allocations
<1>5. LintLayer(p, layer)
  BY <1>4 DEF LintLayerShapes, Positions, Elements
<1>6. a \in Elements(layer.allocations)
  BY <1>4, <1>5 DEF LintLayer, AllocationsOf, AllocationAt, Positions, Elements
<1> HIDE DEF at, layer, a
<1>7. Malformed \notin {layer.unit, layer.buckets, a.status, a.eligibility}
  <2>1. layer.unit # Malformed /\ layer.buckets # Malformed
    BY <1>5 DEF LintLayer
  <2>2. a.status # None => a.status \in {"draft", "running", "concluded"}
    BY <1>5, <1>6 DEF LintLayer
  <2>3. a.eligibility # None => a.eligibility # Malformed
    BY <1>5, <1>6 DEF LintLayer
  <2> QED
    BY <2>1, <2>2, <2>3, MarksAssumption
<1>8. /\ Arms(a) = a.arms
      /\ \A arm \in Elements(Arms(a)) : arm # Malformed /\ Malformed \notin {arm.name, arm.buckets}
      /\ \A i, j \in Positions(Arms(a)) : Arms(a)[i].name = Arms(a)[j].name => i = j
  <2>1. LintArms(layer, a)
    BY <1>5, <1>6 DEF LintLayer
  <2>2. Arms(a) = a.arms
    BY <2>1 DEF LintArms, Arms
  <2> QED
    BY <2>1, <2>2 DEF LintArms
<1>9. {g.arm : g \in Elements(Assigns(v))} = ArmNames(a)
  BY <1>2 DEF LintAllocationShape, at, a
<1>10. \A g \in Elements(Assigns(v)) :
         g # Malformed /\ g.arm # Malformed /\ Present(g.value) /\ CompilesValue(p, v.type, g.value)
  BY <1>1, <1>2, LintedAssigns DEF LintAllocationShape
<1>11. Present(v.resolve.default) /\ CompilesValue(p, v.type, v.resolve.default)
  BY <1>1, <1>2, LintedValues DEF LintAllocationShape
<1>12. CompilesAllocation(p, v)
  BY <1>2, <1>7, <1>8, <1>9, <1>10, <1>11 DEF LintAllocationShape, CompilesAllocation, at, layer, a
<1> QED
  BY <1>1, <1>12 DEF CompilesResolve

\* So the compiler takes what lint passes, for every package.
THEOREM LintedPackagesCompile ==
    ASSUME NEW p, Authored(p), Linted(p), \A id \in Variables(p) : ~Overlooked(p.variables[id])
    PROVE  Compiles(p)
<1>1. ASSUME NEW id \in DOMAIN p.variables
      PROVE  LET v == p.variables[id]
             IN  v.versioned /\ v.type # Malformed /\ ValidType(p, v.type) /\ CompilesResolve(p, v)
  <2> DEFINE v == p.variables[id]
  <2>1. /\ AuthoredVariable(v) /\ ~Overlooked(v)
        /\ LintVariableShape(p, v) /\ LintVariableReferences(p, v) /\ LintVariableValues(p, v)
        /\ LintLayerShapes(p)
    BY DEF Authored, Linted, Variables
  <2> HIDE DEF v
  <2>2. v.versioned /\ v.type # Malformed /\ HasResolve(v) /\ LintResolveShape(p, v)
    BY <2>1 DEF LintVariableShape, LintTypeSource, LintResolveShape
  <2>3. ValidType(p, v.type)
    BY <2>1, <2>2, LintedValues
  <2>4. Method(v) \in {"rules", "query", "allocation"}
    BY <2>2 DEF LintResolveShape
  <2>5. CompilesResolve(p, v)
    BY <2>1, <2>4, LintedRulesCompile, LintedQueryCompiles, LintedAllocationCompiles
  <2> QED
    BY <2>2, <2>3, <2>5 DEF v
<1>2. \A e \in Elements(p.policies) : e # Malformed
  BY DEF Linted, LintTracePolicies
<1> QED
  BY <1>1, <1>2 DEF Compiles

-----------------------------------------------------------------------------
(* The invariant of a batch.                                                *)

\* What a resolution asks next, and the variables it has to know for it.
NextOf(p, c, frame) == AskNext(p, c, frame.id, frame.results)
ReadBy(p, c, frame) ==
    IF NextOf(p, c, frame).do = "ask" THEN Reads(NextOf(p, c, frame).expression) ELSE {}

\* A condition, over the variables that are known.
Weighed(p, c, time, known, e) ==
    Answer(Ask(e, None, TRUE), Evaluate(p, c, time, e, [x \in Reads(e) |-> known[x]], None, Nobody))

\* The answer to a condition is that it holds.
Held(heard, k) == heard[k] = Bool(TRUE)

\* A package is loaded before anything is resolved; one that does not compile is
\* never resolved.
Loaded ==
    /\ package = None => mode = ""
    /\ package # None => package \in Packages /\ clean = Linted(package)
    /\ package # None => (mode = "refused" <=> ~Compiles(package))
    /\ mode \in {"", "refused"} =>
         todo = << >> /\ stack = << >> /\ resolving = {} /\ cache = << >> /\ outcomes = << >>

\* The rules that a resolution has been through were heard over what is known and
\* did not hold, but perhaps the last.
RulesHeard(p, c, time, known, frame) ==
    LET rules == Rules(p.variables[frame.id])
    IN  \A k \in 1..Len(frame.results) :
          /\ k <= Len(rules)
          /\ Reads(rules[k].when) \subseteq DOMAIN known
          /\ frame.results[k] = Weighed(p, c, time, known, rules[k].when)
          /\ k < Len(frame.results) => ~Held(frame.results, k)

\* What is bound of a resolution was read for what it asks, and is what is known.
FrameHolds(p, c, time, m, known, frame) ==
    /\ frame = [id |-> frame.id, results |-> frame.results, bound |-> frame.bound]
    /\ Listed(frame.results)
    /\ frame.bound = [x \in DOMAIN frame.bound |-> known[x]]
    /\ DOMAIN frame.bound \subseteq ReadBy(p, c, frame) \cap DOMAIN known
    /\ frame.id = Nobody => m = "traced" /\ Len(frame.results) <= Len(p.policies)
    /\ frame.id # Nobody =>
         /\ frame.id \in Variables(p)
         /\ Method(p.variables[frame.id]) = "rules" => RulesHeard(p, c, time, known, frame)

Stacked ==
    /\ Listed(stack)
    /\ \A i \in 1..Len(stack) : FrameHolds(package, context, now, mode, cache, stack[i])
    /\ stack # << >> => Head(todo) \in Variables(package) /\ stack[1].id \in {Nobody, Head(todo)}

\* Whoever is being resolved for another is read by it, is marked, is not known
\* and is there once; and nobody else is marked.
MarksHold(p, c, frames, marks, known) ==
    /\ \A i \in 2..Len(frames) :
         /\ frames[i].id \in ReadBy(p, c, frames[i - 1]) \cap marks \cap Variables(p)
         /\ frames[i].id \notin DOMAIN known
    /\ \A i, j \in 2..Len(frames) : frames[i].id = frames[j].id => i = j
    /\ marks \subseteq {frames[i].id : i \in 2..Len(frames)}
Marked == MarksHold(package, context, stack, resolving, cache)

IInv == Loaded /\ Stacked /\ Marked /\ ShadowedNeverChosen /\ LintedNeverCycles

-----------------------------------------------------------------------------
(* Lists.                                                                   *)

\* A sequence of anything is a list,
LEMMA SequencesAreListed == ASSUME NEW S, NEW s \in Seq(S) PROVE Listed(s)
<1>1. Len(s) \in Nat /\ DOMAIN s = 1..Len(s) /\ s \in [1..Len(s) -> Elements(s)]
  BY DEF Elements
<1> QED
  BY <1>1 DEF Listed

\* and a list is one, of its elements:
LEMMA Lists ==
    ASSUME NEW s, Listed(s)
    PROVE  /\ Len(s) \in Nat /\ DOMAIN s = 1..Len(s)
           /\ s = << >> <=> Len(s) = 0
           /\ \A i \in 1..Len(s) : s[i] \in Elements(s)
BY DEF Listed, Elements

\* with one more,
LEMMA Appended ==
    ASSUME NEW s, Listed(s), NEW x
    PROVE  /\ Listed(Append(s, x)) /\ Len(Append(s, x)) = Len(s) + 1
           /\ \A i \in 1..Len(s) : Append(s, x)[i] = s[i]
           /\ Append(s, x)[Len(s) + 1] = x
<1> DEFINE S == Elements(s) \cup {x}
<1>1. s \in Seq(S)
  BY Lists DEF Listed
<1>2. /\ Append(s, x) \in Seq(S) /\ Len(Append(s, x)) = Len(s) + 1
      /\ \A i \in 1..Len(s) : Append(s, x)[i] = s[i]
      /\ Append(s, x)[Len(s) + 1] = x
  BY <1>1
<1>3. Listed(Append(s, x))
  BY <1>2, SequencesAreListed
<1> QED
  BY <1>2, <1>3

\* or the first of it.
LEMMA Shortened ==
    ASSUME NEW s, Listed(s), NEW n \in 0..Len(s)
    PROVE  /\ Listed(SubSeq(s, 1, n)) /\ Len(SubSeq(s, 1, n)) = n
           /\ \A i \in 1..n : SubSeq(s, 1, n)[i] = s[i]
<1>1. s \in Seq(Elements(s)) /\ Len(s) \in Nat
  BY Lists DEF Listed
<1>2. /\ SubSeq(s, 1, n) \in Seq(Elements(s)) /\ Len(SubSeq(s, 1, n)) = n
      /\ \A i \in 1..n : SubSeq(s, 1, n)[i] = s[i]
  BY <1>1
<1>3. Listed(SubSeq(s, 1, n))
  BY <1>2, SequencesAreListed
<1> QED
  BY <1>2, <1>3

-----------------------------------------------------------------------------
(* What a resolution asks.                                                  *)

\* A function with one more entry.
LEMMA Entered ==
    ASSUME NEW f, NEW x, NEW value
    PROVE  /\ DOMAIN With(f, x, value) = {x} \cup DOMAIN f
           /\ With(f, x, value)[x] = value
           /\ \A y \in DOMAIN f : y # x => With(f, x, value)[y] = f[y]
BY DEF With

\* The rules go on after those that were heard, unless the last of these holds.
LEMMA RulesAsk ==
    ASSUME NEW v, NEW heard, Listed(heard), NEW next, next = AskRules(v, heard), NEW n, n = Len(heard)
    PROVE  \/ n # 0 /\ Held(heard, n) /\ next.do = "choose" /\ next.by = n
           \/ /\ n = 0 \/ ~Held(heard, n)
              /\ Listed(Rules(v)) => n + 1 \in DOMAIN Rules(v)
              /\ next = Ask(Rules(v)[n + 1].when, None, TRUE)
           \/ next.do = "choose" /\ next.by = 0
<1>1. n \in Nat
  BY Lists
<1>2. CASE n # 0 /\ Held(heard, n)
  <2>1. n > 0 /\ heard[n] = Bool(TRUE)
    BY <1>1, <1>2 DEF Held
  <2>2. next = Chosen(Selected(v, Rules(v)[n].value), n)
    BY <2>1 DEF AskRules
  <2>3. next.do = "choose" /\ next.by = n
    BY ONLY <2>2 DEF Chosen
  <2> QED
    BY <1>2, <2>3
<1>3. CASE n = 0 \/ ~Held(heard, n)
  <2>1. ~(n > 0 /\ heard[n] = Bool(TRUE))
    <3>1. n = 0 => ~(n > 0)
      BY ONLY <1>1
    <3>2. ~Held(heard, n) => heard[n] # Bool(TRUE)
      BY ONLY DEF Held
    <3> QED
      BY ONLY <1>3, <3>1, <3>2
  <2>2. CASE n < Len(Rules(v))
    <3>1. next = Ask(Rules(v)[n + 1].when, None, TRUE)
      BY <2>1, <2>2 DEF AskRules
    <3>2. Listed(Rules(v)) => n + 1 \in DOMAIN Rules(v)
      BY <1>1, <2>2, Lists
    <3> QED
      BY <1>3, <3>1, <3>2
  <2>3. CASE ~(n < Len(Rules(v)))
    <3>1. next = Chosen(Default(v), 0)
      BY <2>1, <2>3 DEF AskRules
    <3>2. next.do = "choose" /\ next.by = 0
      BY ONLY <3>1 DEF Chosen
    <3> QED
      BY <3>2
  <2> QED
    BY <2>2, <2>3
<1> QED
  BY <1>2, <1>3

\* A rule that is chosen is the last that was heard.
LEMMA RulesChoose ==
    ASSUME NEW v, NEW heard, Listed(heard), NEW next, next = AskRules(v, heard), next.do = "choose"
    PROVE  \/ Len(heard) # 0 /\ Held(heard, Len(heard)) /\ next.by = Len(heard)
           \/ next.by = 0
<1>1. \/ Len(heard) # 0 /\ Held(heard, Len(heard)) /\ next.do = "choose" /\ next.by = Len(heard)
      \/ \E e : next = Ask(e, None, TRUE)
      \/ next.do = "choose" /\ next.by = 0
  BY RulesAsk
<1>2. ASSUME \E e : next = Ask(e, None, TRUE)
      PROVE  FALSE
  <2>1. next.do = "ask"
    BY ONLY <1>2 DEF Ask
  <2> QED
    BY <2>1
<1> QED
  BY <1>1, <1>2

\* What a query has found is the default, an entry or some, or is no match or too
\* many of them:
LEMMA MatchesAre ==
    ASSUME NEW v, NEW matches
    PROVE  \/ SelectMatches(v, matches) = Wrong("no match")
           \/ SelectMatches(v, matches) = Wrong("many matches")
           \/ SelectMatches(v, matches) = Chosen(Default(v), 0)
           \/ SelectMatches(v, matches) = Chosen(Value("entry with id", <<Head(matches)>>), 0)
           \/ SelectMatches(v, matches) = Chosen(Value("entries with id", matches), 0)
BY DEF SelectMatches

\* a choice, or an error of its own.
LEMMA MatchesEnd ==
    ASSUME NEW v, NEW matches, NEW next, next = SelectMatches(v, matches)
    PROVE  next.do = "choose" \/ (next.do = "fail" /\ next.error \notin {"cycle", "not found"})
<1>1. \/ next = Wrong("no match")
      \/ next = Wrong("many matches")
      \/ next = Chosen(Default(v), 0)
      \/ next = Chosen(Value("entry with id", <<Head(matches)>>), 0)
      \/ next = Chosen(Value("entries with id", matches), 0)
  BY MatchesAre, Zenon
<1>2. CASE next = Wrong("no match")
  BY ONLY <1>2 DEF Wrong
<1>3. CASE next = Wrong("many matches")
  BY ONLY <1>3 DEF Wrong
<1>4. CASE next = Chosen(Default(v), 0)
  BY ONLY <1>4 DEF Chosen
<1>5. CASE next = Chosen(Value("entry with id", <<Head(matches)>>), 0)
  BY ONLY <1>5 DEF Chosen
<1>6. CASE next = Chosen(Value("entries with id", matches), 0)
  BY ONLY <1>6 DEF Chosen
<1> QED
  BY <1>1, <1>2, <1>3, <1>4, <1>5, <1>6

\* A query asks for its filter or its sort, if it has them, or is done.
LEMMA QueryAsks ==
    ASSUME NEW p, NEW v, NEW heard, Listed(heard), NEW next, next = AskQuery(p, v, heard)
    PROVE  \/ next.do = "ask" /\ v.resolve.query.filter # None /\ next.expression = v.resolve.query.filter
           \/ next.do = "ask" /\ v.resolve.query.sort # None /\ next.expression = v.resolve.query.sort
           \/ next.do = "choose"
           \/ next.do = "fail" /\ next.error \notin {"cycle", "not found"}
<1> DEFINE q == v.resolve.query
           names == Ascending(DOMAIN p.catalogs[q.from])
           filters == IF q.filter = None THEN 0 ELSE Len(names)
           kept == Ascending({names[j] : j \in {k \in DOMAIN names : k > filters \/ heard[k] = Bool(TRUE)}})
           keys == SubSeq(heard, filters + 1, Len(heard))
           matches == Arranged(q, kept, keys)
<1>1. Len(heard) \in Nat
  BY Lists
<1>2. \/ next = Wrong("no entries")
      \/ Len(heard) < filters /\ next = Ask(q.filter, <<q.from, names[Len(heard) + 1]>>, TRUE)
      \/ q.sort # None /\ next = Ask(q.sort, <<q.from, kept[Len(keys) + 1]>>, FALSE)
      \/ next = Wrong("keys")
      \/ next = SelectMatches(v, matches)
  BY DEF AskQuery
<1>3. Len(heard) < filters => q.filter # None
  BY <1>1
<1> HIDE DEF names, filters, kept, keys, matches
<1>4. CASE Len(heard) < filters /\ next = Ask(q.filter, <<q.from, names[Len(heard) + 1]>>, TRUE)
  BY ONLY <1>3, <1>4 DEF Ask
<1>5. CASE q.sort # None /\ next = Ask(q.sort, <<q.from, kept[Len(keys) + 1]>>, FALSE)
  BY ONLY <1>5 DEF Ask
<1>6. CASE next = Wrong("no entries")
  BY ONLY <1>6 DEF Wrong
<1>7. CASE next = Wrong("keys")
  BY ONLY <1>7 DEF Wrong
<1>8. CASE next = SelectMatches(v, matches)
  BY <1>8, MatchesEnd
<1> QED
  BY <1>2, <1>4, <1>5, <1>6, <1>7, <1>8

\* An allocation asks for its eligibility, if it has one, for the unit of its
\* layer, or is done.
LEMMA AllocationAsks ==
    ASSUME NEW p, NEW c, NEW v, NEW heard, Listed(heard), NEW next, next = AskAllocation(p, c, v, heard),
           NEW at, at = FindAllocation(p, v.resolve.assign.allocation)
    PROVE  \/ /\ next.do = "ask" /\ AllocationAt(p, at).eligibility # None
              /\ next.expression = AllocationAt(p, at).eligibility
           \/ next.do = "ask" /\ next.expression = p.layers[at[1]].unit
           \/ next.do = "choose"
<1> DEFINE eligibility == AllocationAt(p, at).eligibility
           first == IF eligibility = None THEN 0 ELSE 1
<1>1. Len(heard) \in Nat
  BY Lists
<1>2. \/ Len(heard) < first /\ next = Ask(eligibility, None, TRUE)
      \/ next = Ask(p.layers[at[1]].unit, None, FALSE)
      \/ \E value, by : next = Chosen(value, by)
  BY DEF AskAllocation
<1>3. Len(heard) < first => eligibility # None
  BY <1>1
<1> HIDE DEF first
<1>4. CASE Len(heard) < first /\ next = Ask(eligibility, None, TRUE)
  BY ONLY <1>3, <1>4 DEF Ask
<1>5. CASE next = Ask(p.layers[at[1]].unit, None, FALSE)
  BY ONLY <1>5 DEF Ask
<1>6. CASE \E value, by : next = Chosen(value, by)
  BY ONLY <1>6 DEF Chosen
<1> QED
  BY <1>2, <1>4, <1>5, <1>6

\* It is a condition or the query of the variable, the eligibility of an
\* allocation or the unit of a layer.
LEMMA Asked ==
    ASSUME NEW p, Authored(p), Compiles(p), NEW c, NEW id \in Variables(p), NEW heard, Listed(heard),
           NEW next, next = AskNext(p, c, id, heard), next.do = "ask"
    PROVE  /\ HasResolve(p.variables[id])
           /\ \/ next.expression \in QueryExpressions(p.variables[id]) \cup RuleExpressions(p.variables[id])
              \/ \E at \in Allocations(p) :
                   AllocationAt(p, at) # Malformed /\ Present(AllocationAt(p, at).eligibility)
                   /\ next.expression = AllocationAt(p, at).eligibility
              \/ \E layer \in Elements(p.layers) : layer.unit # Malformed /\ next.expression = layer.unit
<1> DEFINE v == p.variables[id]
           e == next.expression
<1>1. id # Nobody /\ AuthoredVariable(v) /\ CompilesResolve(p, v)
  BY DEF Authored, Compiles, Variables
<1>2. HasResolve(v)
  BY <1>1 DEF CompilesResolve
<1>3. Len(heard) \in Nat
  BY Lists
<1>4. CASE Method(v) = "rules"
  <2>1. next = AskRules(v, heard)
    BY <1>1, <1>4 DEF AskNext
  <2>2. Listed(Rules(v))
    BY <1>1, <1>2 DEF AuthoredVariable
  <2>3. Len(heard) + 1 \in DOMAIN Rules(v) /\ e = Rules(v)[Len(heard) + 1].when
    <3>1. Len(heard) + 1 \in DOMAIN Rules(v) /\ next = Ask(Rules(v)[Len(heard) + 1].when, None, TRUE)
      BY <2>1, <2>2, RulesAsk
    <3> QED
      BY ONLY <3>1 DEF Ask
  <2>4. Rules(v)[Len(heard) + 1] \in Elements(Rules(v))
    BY <2>3 DEF Elements
  <2>5. CompilesRule(p, v, Rules(v)[Len(heard) + 1])
    BY <1>1, <1>4, <2>4 DEF CompilesResolve
  <2>6. e \in RuleExpressions(v)
    BY <2>3, <2>4, <2>5 DEF CompilesRule, RuleExpressions, Present
  <2> QED
    BY <1>2, <2>6
<1>5. CASE Method(v) = "query"
  <2>1. next = AskQuery(p, v, heard)
    BY <1>1, <1>5 DEF AskNext
  <2>2. CompilesQuery(p, v)
    BY <1>1, <1>5 DEF CompilesResolve
  <2>3. \/ v.resolve.query.filter # None /\ e = v.resolve.query.filter
        \/ v.resolve.query.sort # None /\ e = v.resolve.query.sort
    <3>1. Listed(heard) /\ next.do = "ask"
      OBVIOUS
    <3> QED
      BY ONLY <2>1, <3>1, QueryAsks
  <2>4. e \in QueryExpressions(v)
    BY <2>2, <2>3 DEF CompilesQuery, QueryExpressions
  <2> QED
    BY <1>2, <2>4
<1>6. CASE Method(v) \notin {"rules", "query"}
  <2> DEFINE at == FindAllocation(p, v.resolve.assign.allocation)
             a == AllocationAt(p, at)
             layer == p.layers[at[1]]
  <2>1. next = AskAllocation(p, c, v, heard)
    BY <1>1, <1>6 DEF AskNext
  <2>2. CompilesAllocation(p, v)
    BY <1>1, <1>6 DEF CompilesResolve
  <2>3. at \in Named(p, v.resolve.assign.allocation)
    BY <2>2, FoundIsNamed DEF CompilesAllocation, Authored, AuthoredLayer
  <2>4. at \in Allocations(p) /\ a # Malformed
    BY <2>3 DEF Named
  <2>5. layer \in Elements(p.layers)
    BY <2>4 DEF Allocations, Positions, Elements
  <2>6. layer.unit # Malformed /\ a.eligibility # Malformed
    BY <2>2 DEF CompilesAllocation
  <2>7. (a.eligibility # None /\ e = a.eligibility) \/ e = layer.unit
    BY <2>1, AllocationAsks
  <2> QED
    BY <1>2, <2>4, <2>5, <2>6, <2>7 DEF Present
<1> QED
  BY <1>4, <1>5, <1>6

\* So it reads variables by numbers,
LEMMA AskedIsCounted ==
    ASSUME NEW p, Authored(p), Compiles(p), NEW c, NEW id \in Variables(p), NEW heard, Listed(heard),
           AskNext(p, c, id, heard).do = "ask"
    PROVE  Reads(AskNext(p, c, id, heard).expression) \subseteq Nat
<1> DEFINE next == AskNext(p, c, id, heard)
           v == p.variables[id]
<1>1. next.do = "ask"
  OBVIOUS
<1> HIDE DEF next
<1>2. HasResolve(v) => \A e \in QueryExpressions(v) \cup RuleExpressions(v) : Reads(e) \subseteq Nat
  BY DEF Authored, AuthoredVariable
<1>3. ASSUME NEW at \in Allocations(p), AllocationAt(p, at) # Malformed, Present(AllocationAt(p, at).eligibility)
      PROVE  Reads(AllocationAt(p, at).eligibility) \subseteq Nat
  <2>1. p.layers[at[1]] \in Elements(p.layers) /\ at[2] \in Positions(AllocationsOf(p.layers[at[1]]))
    BY DEF Allocations, Positions, Elements
  <2>2. AllocationsOf(p.layers[at[1]]) = p.layers[at[1]].allocations
    BY <2>1 DEF AllocationsOf, Positions
  <2>3. AllocationAt(p, at) \in Elements(AllocationsOf(p.layers[at[1]]))
    BY <2>1, <2>2 DEF AllocationAt, Positions, Elements
  <2> QED
    BY <1>3, <2>1, <2>3 DEF Authored, AuthoredLayer
<1>4. \A layer \in Elements(p.layers) : layer.unit # Malformed => Reads(layer.unit) \subseteq Nat
  BY DEF Authored, AuthoredLayer
<1>5. Reads(next.expression) \subseteq Nat
  BY <1>1, <1>2, <1>3, <1>4, Asked DEF next
<1> QED
  BY <1>5 DEF next

\* and so do the trace policies.
LEMMA PolicyAsks ==
    ASSUME NEW p, NEW c, NEW heard, Listed(heard), Listed(p.policies), Len(heard) <= Len(p.policies),
           NEW next, next = AskNext(p, c, Nobody, heard)
    PROVE  \/ /\ next.do = "ask" /\ Len(heard) < Len(p.policies)
              /\ next.expression = p.policies[Len(heard) + 1]
              /\ next.expression \in Elements(p.policies)
           \/ next.do = "choose"
<1>1. Len(heard) \in Nat /\ Len(p.policies) \in Nat /\ Len(heard) <= Len(p.policies)
  BY Lists
<1>2. next = AskPolicies(p, heard)
  BY DEF AskNext
<1>3. \/ next = Chosen(None, 0)
      \/ Len(heard) < Len(p.policies) /\ next = Ask(p.policies[Len(heard) + 1], None, TRUE)
  <2>1. CASE Len(heard) = Len(p.policies)
    BY <1>2, <2>1 DEF AskPolicies
  <2>2. CASE Len(heard) # Len(p.policies)
    <3>1. next = Ask(p.policies[Len(heard) + 1], None, TRUE)
      BY <1>2, <2>2 DEF AskPolicies
    <3>2. Len(heard) < Len(p.policies)
      BY <1>1, <2>2
    <3> QED
      BY <3>1, <3>2
  <2> QED
    BY <2>1, <2>2
<1>4. CASE next = Chosen(None, 0)
  BY ONLY <1>4 DEF Chosen
<1>5. CASE Len(heard) < Len(p.policies) /\ next = Ask(p.policies[Len(heard) + 1], None, TRUE)
  <2>1. next.do = "ask" /\ next.expression = p.policies[Len(heard) + 1]
    BY ONLY <1>5 DEF Ask
  <2>2. p.policies[Len(heard) + 1] \in Elements(p.policies)
    BY <1>1, <1>5, Lists
  <2> QED
    BY <1>5, <2>1, <2>2
<1> QED
  BY <1>3, <1>4, <1>5

\* Asking ends in no cycle and finds every variable there: such errors come of
\* what is read.
LEMMA OwnErrors ==
    ASSUME NEW p, Authored(p), Compiles(p), NEW c, NEW id, NEW heard, Listed(heard),
           id # Nobody => id \in Variables(p), id = Nobody => Len(heard) <= Len(p.policies),
           NEW next, next = AskNext(p, c, id, heard), next.do = "fail"
    PROVE  next.error \notin {"cycle", "not found"}
<1>1. CASE id = Nobody
  <2>1. next.do = "ask" \/ next.do = "choose"
    BY <1>1, PolicyAsks DEF Authored
  <2> QED
    BY <2>1
<1>2. CASE id # Nobody
  <2> DEFINE v == p.variables[id]
  <2>1. \/ next = AskRules(v, heard)
        \/ next = AskQuery(p, v, heard)
        \/ next = AskAllocation(p, c, v, heard)
    BY <1>2 DEF AskNext
  <2>2. Listed(heard) /\ next.do = "fail"
    OBVIOUS
  <2> HIDE DEF v
  <2>3. CASE next = AskRules(v, heard)
    <3>1. next.do = "choose" \/ \E e : next = Ask(e, None, TRUE)
      BY ONLY <2>2, <2>3, RulesAsk
    <3>2. CASE \E e : next = Ask(e, None, TRUE)
      <4>1. next.do = "ask"
        BY ONLY <3>2 DEF Ask
      <4> QED
        BY <2>2, <4>1
    <3> QED
      BY <2>2, <3>1, <3>2
  <2>4. CASE next = AskQuery(p, v, heard)
    BY ONLY <2>2, <2>4, QueryAsks
  <2>5. CASE next = AskAllocation(p, c, v, heard)
    <3>1. next.do = "ask" \/ next.do = "choose"
      BY ONLY <2>2, <2>5, AllocationAsks
    <3> QED
      BY <2>2, <3>1
  <2> QED
    BY <2>1, <2>3, <2>4, <2>5
<1> QED
  BY <1>1, <1>2

\* In a package that lints clean, where no eligibility reads a variable, what a
\* resolution reads is there, and the graph that lint looks at has it.
LEMMA ReadsAreEdges ==
    ASSUME NEW p, Authored(p), Compiles(p), Linted(p), ~EligibilityReads(p),
           NEW c, NEW id \in Variables(p), NEW heard, Listed(heard),
           NEW next, next = AskNext(p, c, id, heard), next.do = "ask",
           NEW x \in Reads(next.expression)
    PROVE  x \in ReferenceEdges(p)[id] /\ x \in Variables(p)
<1> DEFINE v == p.variables[id]
           e == next.expression
<1>1. HasResolve(v)
  BY Asked
<1>2. CASE e \in QueryExpressions(v) \cup RuleExpressions(v)
  <2>1. x \in DOMAIN p.variables
    BY <1>1, <1>2 DEF Linted, LintVariableReferences, Variables
  <2> DEFINE read == UNION {Reads(f) : f \in QueryExpressions(v) \cup RuleExpressions(v)}
  <2>2. x \in read
    BY <1>2
  <2>3. ReferenceEdges(p)[id] = DOMAIN p.variables \cap read
    <3>1. id \in DOMAIN p.variables
      BY DEF Variables
    <3>2. ReferenceEdges(p)[id] = IF ~HasResolve(v) THEN {} ELSE DOMAIN p.variables \cap read
      BY <3>1, Zenon DEF ReferenceEdges
    <3> QED
      BY <1>1, <3>2
  <2> HIDE DEF read
  <2>4. x \in ReferenceEdges(p)[id]
    BY <2>1, <2>2, <2>3
  <2> QED
    BY <2>1, <2>4 DEF Variables
<1>3. CASE \E at \in Allocations(p) :
             AllocationAt(p, at) # Malformed /\ Present(AllocationAt(p, at).eligibility)
             /\ e = AllocationAt(p, at).eligibility
  BY <1>3 DEF EligibilityReads
<1>4. CASE \E layer \in Elements(p.layers) : layer.unit # Malformed /\ e = layer.unit
  BY <1>4 DEF Linted, LintLayerShapes, LintLayer
<1> QED
  BY <1>2, <1>3, <1>4, Asked

-----------------------------------------------------------------------------
(* One resolution of a stack.                                               *)

\* A resolution holds on when more is known.
LEMMA KnowingMore ==
    ASSUME NEW p, NEW c, NEW time, NEW m, NEW known, NEW more, NEW frame,
           FrameHolds(p, c, time, m, known, frame),
           \A x \in DOMAIN known : x \in DOMAIN more /\ more[x] = known[x]
    PROVE  FrameHolds(p, c, time, m, more, frame)
<1>1. frame.bound = [x \in DOMAIN frame.bound |-> more[x]]
  <2>1. \A x \in DOMAIN frame.bound : known[x] = more[x]
    BY DEF FrameHolds
  <2>2. [x \in DOMAIN frame.bound |-> known[x]] = [x \in DOMAIN frame.bound |-> more[x]]
    BY <2>1
  <2> QED
    BY <2>2 DEF FrameHolds
<1>2. ASSUME NEW e, Reads(e) \subseteq DOMAIN known
      PROVE  Weighed(p, c, time, more, e) = Weighed(p, c, time, known, e)
  <2>1. \A x \in Reads(e) : known[x] = more[x]
    BY <1>2
  <2>2. [x \in Reads(e) |-> known[x]] = [x \in Reads(e) |-> more[x]]
    BY <2>1
  <2> QED
    BY <2>2 DEF Weighed
<1>3. ASSUME RulesHeard(p, c, time, known, frame)
      PROVE  RulesHeard(p, c, time, more, frame)
  <2> DEFINE rules == Rules(p.variables[frame.id])
  <2>1. ASSUME NEW k \in 1..Len(frame.results)
        PROVE  /\ k <= Len(rules)
               /\ Reads(rules[k].when) \subseteq DOMAIN more
               /\ frame.results[k] = Weighed(p, c, time, more, rules[k].when)
               /\ k < Len(frame.results) => ~Held(frame.results, k)
    <3>1. /\ k <= Len(rules)
          /\ Reads(rules[k].when) \subseteq DOMAIN known
          /\ frame.results[k] = Weighed(p, c, time, known, rules[k].when)
          /\ k < Len(frame.results) => ~Held(frame.results, k)
      BY <1>3 DEF RulesHeard
    <3>2. Weighed(p, c, time, more, rules[k].when) = Weighed(p, c, time, known, rules[k].when)
      BY <3>1, <1>2
    <3>3. Reads(rules[k].when) \subseteq DOMAIN more
      BY <3>1
    <3> QED
      BY <3>1, <3>2, <3>3
  <2> QED
    BY <2>1 DEF RulesHeard
<1>4. DOMAIN frame.bound \subseteq ReadBy(p, c, frame) \cap DOMAIN more
  BY DEF FrameHolds
<1> QED
  BY <1>1, <1>3, <1>4 DEF FrameHolds

\* One that comes to know a variable it reads.
LEMMA BindHolds ==
    ASSUME NEW p, NEW c, NEW time, NEW m, NEW known, NEW frame,
           FrameHolds(p, c, time, m, known, frame),
           NEW x \in ReadBy(p, c, frame) \cap DOMAIN known, NEW value, value = known[x]
    PROVE  /\ FrameHolds(p, c, time, m, known, Bind(frame, x, value))
           /\ Bind(frame, x, value).id = frame.id
<1> DEFINE bound == With(frame.bound, x, value)
           g == Bind(frame, x, value)
<1>1. frame = [id |-> frame.id, results |-> frame.results, bound |-> frame.bound]
  BY DEF FrameHolds
<1>2. g = [frame EXCEPT !.bound = bound]
  BY DEF Bind
<1> HIDE DEF bound, g
<1>3. /\ g.id = frame.id /\ g.results = frame.results /\ g.bound = bound
      /\ g = [id |-> g.id, results |-> g.results, bound |-> g.bound]
  BY <1>1, <1>2
<1>4. DOMAIN bound = {x} \cup DOMAIN frame.bound
  BY Entered DEF bound
<1>5. bound = [y \in DOMAIN bound |-> known[y]]
  <2>1. \A y \in DOMAIN frame.bound : frame.bound[y] = known[y]
    BY DEF FrameHolds
  <2>2. \A y \in {x} \cup DOMAIN frame.bound : (IF y = x THEN value ELSE frame.bound[y]) = known[y]
    BY <2>1
  <2>3. bound = [y \in {x} \cup DOMAIN frame.bound |-> known[y]]
    BY <2>2 DEF bound, With
  <2> QED
    BY <1>4, <2>3
<1>6. ReadBy(p, c, g) = ReadBy(p, c, frame)
  BY <1>3 DEF ReadBy, NextOf
<1>7. RulesHeard(p, c, time, known, frame) => RulesHeard(p, c, time, known, g)
  BY <1>3 DEF RulesHeard
<1>8. /\ Listed(frame.results)
      /\ DOMAIN frame.bound \subseteq ReadBy(p, c, frame) \cap DOMAIN known
      /\ frame.id = Nobody => m = "traced" /\ Len(frame.results) <= Len(p.policies)
      /\ frame.id # Nobody =>
           /\ frame.id \in Variables(p)
           /\ Method(p.variables[frame.id]) = "rules" => RulesHeard(p, c, time, known, frame)
  BY DEF FrameHolds
<1>9. DOMAIN g.bound \subseteq ReadBy(p, c, g) \cap DOMAIN known
  BY <1>3, <1>4, <1>6, <1>8
<1>10. FrameHolds(p, c, time, m, known, g)
  BY <1>3, <1>5, <1>7, <1>8, <1>9 DEF FrameHolds
<1> QED
  BY <1>3, <1>10 DEF g

\* One that begins.
LEMMA FrameBegins ==
    ASSUME NEW p, NEW c, NEW time, NEW m, NEW known, NEW id,
           id \in Variables(p) \ {Nobody} \/ (id = Nobody /\ m = "traced" /\ Listed(p.policies))
    PROVE  FrameHolds(p, c, time, m, known, Frame(id)) /\ Frame(id).id = id
<1> DEFINE frame == Frame(id)
<1>1. /\ frame.id = id /\ frame.results = << >> /\ frame.bound = << >>
      /\ frame = [id |-> frame.id, results |-> frame.results, bound |-> frame.bound]
  BY DEF Frame
<1> HIDE DEF frame
<1>2. Listed(<< >>) /\ Len(<< >>) = 0 /\ DOMAIN << >> = {}
  <2>1. << >> \in Seq(Nat)
    OBVIOUS
  <2>2. Listed(<< >>)
    BY <2>1, SequencesAreListed
  <2> QED
    BY <2>2
<1>3. << >> = [x \in DOMAIN << >> |-> known[x]]
  BY <1>2
<1>4. RulesHeard(p, c, time, known, frame)
  BY <1>1, <1>2 DEF RulesHeard
<1>5. Listed(p.policies) => Len(<< >>) <= Len(p.policies)
  BY <1>2, Lists
<1>6. FrameHolds(p, c, time, m, known, frame)
  BY <1>1, <1>2, <1>3, <1>4, <1>5 DEF FrameHolds
<1> QED
  BY <1>1, <1>6 DEF frame

\* The answer to what a resolution asks, and the resolution once it has heard it.
IsAnswer(value, p, c, time, next, frame, target) ==
    value = Answer(next, Evaluate(p, c, time, next.expression, frame.bound, next.at, target))
Hears(g, frame, value) == g = [frame EXCEPT !.results = Append(@, value), !.bound = << >>]

\* One that has heard the answer to what it asks.
LEMMA AnswerHeard ==
    ASSUME NEW p, Authored(p), Compiles(p), NEW c, NEW time, NEW m, NEW known, NEW frame,
           FrameHolds(p, c, time, m, known, frame),
           NEW next, next = NextOf(p, c, frame), next.do = "ask",
           Reads(next.expression) \subseteq DOMAIN frame.bound,
           NEW target, frame.id # Nobody => target = Nobody,
           NEW value, IsAnswer(value, p, c, time, next, frame, target),
           NEW g, Hears(g, frame, value)
    PROVE  FrameHolds(p, c, time, m, known, g) /\ g.id = frame.id
<1> DEFINE heard == Append(frame.results, value)
           n == Len(frame.results)
<1>1. /\ frame = [id |-> frame.id, results |-> frame.results, bound |-> frame.bound]
      /\ Listed(frame.results)
      /\ frame.bound = [x \in DOMAIN frame.bound |-> known[x]]
      /\ DOMAIN frame.bound \subseteq ReadBy(p, c, frame) \cap DOMAIN known
      /\ frame.id = Nobody => m = "traced" /\ Len(frame.results) <= Len(p.policies)
      /\ frame.id # Nobody =>
           /\ frame.id \in Variables(p)
           /\ Method(p.variables[frame.id]) = "rules" => RulesHeard(p, c, time, known, frame)
  BY DEF FrameHolds
<1>2. g = [frame EXCEPT !.results = heard, !.bound = << >>]
  BY DEF Hears
<1>3. /\ Listed(heard) /\ n \in Nat /\ Len(heard) = n + 1
      /\ \A i \in 1..n : heard[i] = frame.results[i]
      /\ heard[n + 1] = value
  BY <1>1, Appended, Lists
<1> HIDE DEF heard
<1>4. /\ g.id = frame.id /\ g.results = heard /\ g.bound = << >>
      /\ g = [id |-> g.id, results |-> g.results, bound |-> g.bound]
  BY <1>1, <1>2
<1>5. DOMAIN g.bound = {} /\ g.bound = [x \in DOMAIN g.bound |-> known[x]]
  BY <1>4
<1>6. ASSUME frame.id = Nobody
      PROVE  Len(heard) <= Len(p.policies)
  <2>1. Listed(p.policies) /\ next = AskNext(p, c, Nobody, frame.results)
    BY <1>6 DEF Authored, NextOf
  <2>2. n < Len(p.policies)
    BY <1>1, <1>6, <2>1, PolicyAsks
  <2>3. Len(p.policies) \in Nat
    BY <2>1, Lists
  <2> QED
    BY <1>3, <2>2, <2>3
<1>7. ASSUME frame.id # Nobody, Method(p.variables[frame.id]) = "rules"
      PROVE  RulesHeard(p, c, time, known, g)
  <2> DEFINE v == p.variables[frame.id]
             rules == Rules(v)
             e == next.expression
  <2>1. next = AskRules(v, frame.results)
    BY <1>7 DEF NextOf, AskNext
  <2>2. /\ n = 0 \/ ~Held(frame.results, n)
        /\ n + 1 \in DOMAIN rules
        /\ next = Ask(rules[n + 1].when, None, TRUE)
    <3>1. next.do = "ask" /\ next.do # "choose"
      OBVIOUS
    <3>2. Listed(frame.results) /\ Listed(rules)
      <4>1. AuthoredVariable(v) /\ HasResolve(v)
        BY <1>1, <1>7 DEF Authored, Compiles, CompilesResolve, Variables
      <4> QED
        BY <1>1, <4>1 DEF AuthoredVariable
    <3>3. \/ n # 0 /\ Held(frame.results, n) /\ next.do = "choose" /\ next.by = n
          \/ /\ n = 0 \/ ~Held(frame.results, n)
             /\ Listed(rules) => n + 1 \in DOMAIN rules
             /\ next = Ask(rules[n + 1].when, None, TRUE)
          \/ next.do = "choose" /\ next.by = 0
      BY <2>1, <3>2, RulesAsk
    <3> QED
      BY ONLY <3>1, <3>2, <3>3
  <2>3. e = rules[n + 1].when /\ next.at = None
    <3>1. next = Ask(rules[n + 1].when, None, TRUE)
      BY <2>2
    <3> QED
      BY ONLY <3>1 DEF Ask
  <2>4. frame.bound = [x \in Reads(e) |-> known[x]] /\ Reads(e) \subseteq DOMAIN known
    <3>1. ReadBy(p, c, frame) = Reads(e)
      BY DEF ReadBy
    <3>2. DOMAIN frame.bound = Reads(e)
      BY <1>1, <3>1
    <3>3. [x \in DOMAIN frame.bound |-> known[x]] = [x \in Reads(e) |-> known[x]]
      BY <3>2
    <3> QED
      BY <1>1, <3>2, <3>3
  <2>5. value = Weighed(p, c, time, known, rules[n + 1].when)
    <3>1. target = Nobody
      BY <1>7
    <3>2. value = Answer(next, Evaluate(p, c, time, e, frame.bound, None, Nobody))
      BY <2>3, <3>1 DEF IsAnswer
    <3>3. Weighed(p, c, time, known, e)
            = Answer(Ask(e, None, TRUE), Evaluate(p, c, time, e, [x \in Reads(e) |-> known[x]], None, Nobody))
      BY DEF Weighed
    <3>4. next = Ask(e, None, TRUE)
      BY <2>2, <2>3
    <3> QED
      BY <2>3, <2>4, <3>2, <3>3, <3>4
  <2> HIDE DEF rules, v, e
  <2>6. ASSUME NEW k \in 1..n + 1
        PROVE  /\ k <= Len(rules)
               /\ Reads(rules[k].when) \subseteq DOMAIN known
               /\ heard[k] = Weighed(p, c, time, known, rules[k].when)
               /\ k < n + 1 => ~Held(heard, k)
    <3>1. CASE k = n + 1
      <4>1. n + 1 <= Len(rules)
        <5>1. Listed(rules)
          <6>1. AuthoredVariable(v) /\ HasResolve(v)
            BY <1>1, <1>7 DEF Authored, Compiles, CompilesResolve, Variables, v
          <6> QED
            BY <6>1 DEF AuthoredVariable, rules
        <5>2. DOMAIN rules = 1..Len(rules) /\ Len(rules) \in Nat
          BY <5>1, Lists
        <5> QED
          BY <1>3, <2>2, <5>2
      <4>2. ~(k < n + 1) /\ heard[k] = value
        BY <1>3, <3>1
      <4> QED
        BY ONLY <2>3, <2>4, <2>5, <3>1, <4>1, <4>2
    <3>2. CASE k \in 1..n
      <4>1. /\ k <= Len(rules)
            /\ Reads(rules[k].when) \subseteq DOMAIN known
            /\ frame.results[k] = Weighed(p, c, time, known, rules[k].when)
            /\ k < n => ~Held(frame.results, k)
        BY <1>1, <1>7, <3>2 DEF RulesHeard, rules, v
      <4>2. ~Held(frame.results, k)
        <5>1. k < n \/ (k = n /\ n > 0)
          BY ONLY <1>3, <3>2
        <5> QED
          BY ONLY <2>2, <4>1, <5>1
      <4>3. heard[k] = frame.results[k]
        BY ONLY <1>3, <3>2
      <4> QED
        BY ONLY <4>1, <4>2, <4>3 DEF Held
    <3>3. k \in 1..n \/ k = n + 1
      BY ONLY <1>3, <2>6
    <3> QED
      BY ONLY <3>1, <3>2, <3>3
  <2> QED
    BY <1>3, <1>4, <2>6 DEF RulesHeard, rules, v
<1>8. FrameHolds(p, c, time, m, known, g)
  BY <1>1, <1>3, <1>4, <1>5, <1>6, <1>7 DEF FrameHolds
<1> QED
  BY <1>4, <1>8

\* The rule that one chooses is none that lint calls shadowed: what came out of
\* the condition it repeats is what comes out of its own.
LEMMA NotShadowed ==
    ASSUME NEW p, Authored(p), Compiles(p), NEW c, NEW time, NEW m, NEW known, NEW frame,
           FrameHolds(p, c, time, m, known, frame), frame.id # Nobody,
           Method(p.variables[frame.id]) = "rules",
           NEW next, next = NextOf(p, c, frame), next.do = "choose"
    PROVE  next.by \notin ShadowedRules(p.variables[frame.id])
<1> DEFINE v == p.variables[frame.id]
           rules == Rules(v)
           n == Len(frame.results)
<1>1. Listed(frame.results) /\ frame.id \in Variables(p) /\ RulesHeard(p, c, time, known, frame)
  BY DEF FrameHolds
<1>2. Listed(rules)
  <2>1. AuthoredVariable(v) /\ HasResolve(v)
    BY <1>1 DEF Authored, Compiles, CompilesResolve, Variables
  <2> QED
    BY <2>1 DEF AuthoredVariable
<1>3. next = AskRules(v, frame.results)
  BY DEF NextOf, AskNext
<1>4. (n # 0 /\ Held(frame.results, n) /\ next.by = n) \/ next.by = 0
  <2>1. next.do = "choose"
    OBVIOUS
  <2> QED
    BY ONLY <1>1, <1>3, <2>1, RulesChoose
<1> HIDE DEF v
<1>5. DOMAIN rules = 1..Len(rules) /\ Len(rules) \in Nat /\ n \in Nat
  BY <1>1, <1>2, Lists
<1>6. ASSUME n # 0, Held(frame.results, n), NEW j \in 1..n - 1, rules[n].when = rules[j].when
      PROVE  FALSE
  <2>1. n \in 1..n /\ j \in 1..n /\ j < n
    BY <1>5, <1>6
  <2>2. frame.results[n] = Weighed(p, c, time, known, rules[n].when)
    BY <1>1, <2>1 DEF RulesHeard, v
  <2>3. frame.results[j] = Weighed(p, c, time, known, rules[j].when) /\ ~Held(frame.results, j)
    BY <1>1, <2>1 DEF RulesHeard, v
  <2> QED
    BY <1>6, <2>2, <2>3 DEF Held
<1>7. ASSUME next.by \in ShadowedRules(v)
      PROVE  FALSE
  <2>1. next.by \in DOMAIN rules /\ \E j \in 1..next.by - 1 : rules[next.by].when = rules[j].when
    BY <1>7 DEF ShadowedRules, Positions
  <2>2. next.by # 0
    BY <1>5, <2>1
  <2> QED
    BY <1>4, <1>6, <2>1, <2>2
<1> QED
  BY <1>7 DEF v

-----------------------------------------------------------------------------
(* The steps of a batch.                                                    *)

\* While something is resolved, the package compiles and every resolution holds.
LEMMA Running ==
    ASSUME IInv, stack # << >>
    PROVE  /\ package \in Packages /\ Authored(package) /\ Compiles(package) /\ clean = Linted(package)
           /\ mode \notin {"", "refused"}
           /\ Listed(stack) /\ Len(stack) \in Nat \ {0}
           /\ \A i \in 1..Len(stack) : FrameHolds(package, context, now, mode, cache, stack[i])
           /\ Head(todo) \in Variables(package) /\ stack[1].id \in {Nobody, Head(todo)}
<1>1. Listed(stack) /\ Len(stack) \in Nat \ {0}
  BY Lists DEF IInv, Stacked
<1>2. mode \notin {"", "refused"} /\ package # None
  BY DEF IInv, Loaded
<1>3. package \in Packages /\ Authored(package) /\ Compiles(package) /\ clean = Linted(package)
  BY <1>2, PackagesAssumption DEF IInv, Loaded
<1> QED
  BY <1>1, <1>2, <1>3 DEF IInv, Stacked

\* The one on top is at what it asks next, and what it reads has numbers.
LEMMA TopHolds ==
    ASSUME IInv, stack # << >>
    PROVE  /\ FrameHolds(package, context, now, mode, cache, Top)
           /\ Pending = NextOf(package, context, Top)
           /\ Listed(Top.results)
           /\ Top.id = Nobody => Listed(package.policies) /\ Len(Top.results) <= Len(package.policies)
           /\ Top.id # Nobody => Top.id \in Variables(package)
           /\ Pending.do = "ask" => Reads(Pending.expression) \subseteq Nat
<1>1. FrameHolds(package, context, now, mode, cache, Top)
  <2>1. Len(stack) \in 1..Len(stack)
    <3>1. Len(stack) \in Nat \ {0}
      BY Running
    <3> QED
      BY ONLY <3>1
  <2> QED
    BY <2>1, Running DEF Top
<1>2. Pending = NextOf(package, context, Top)
  BY DEF Pending, NextOf
<1>3. /\ Listed(Top.results)
      /\ Top.id = Nobody => Len(Top.results) <= Len(package.policies)
      /\ Top.id # Nobody => Top.id \in Variables(package)
  BY <1>1 DEF FrameHolds
<1>4. Authored(package) /\ Compiles(package) /\ Listed(package.policies)
  BY Running DEF Authored
<1>5. ASSUME Pending.do = "ask"
      PROVE  Reads(Pending.expression) \subseteq Nat
  <2>1. CASE Top.id = Nobody
    <3>1. Pending = AskNext(package, context, Nobody, Top.results)
      BY <2>1 DEF Pending
    <3>2. Pending.expression \in Elements(package.policies)
      BY <1>3, <1>4, <1>5, <2>1, <3>1, PolicyAsks
    <3>3. Pending.expression # Malformed
      BY <1>4, <3>2 DEF Compiles
    <3> QED
      BY <1>4, <3>2, <3>3 DEF Authored
  <2>2. CASE Top.id # Nobody
    <3>1. AskNext(package, context, Top.id, Top.results).do = "ask"
      BY <1>5 DEF Pending
    <3>2. Reads(AskNext(package, context, Top.id, Top.results).expression) \subseteq Nat
      BY <1>3, <1>4, <2>2, <3>1, AskedIsCounted
    <3> QED
      BY <3>2 DEF Pending
  <2> QED
    BY <2>1, <2>2
<1> QED
  BY <1>1, <1>2, <1>3, <1>4, <1>5

\* What is read next is among what it still has to know.
LEMMA NextIsUnbound ==
    ASSUME IInv, Inquiring, Unbound # {}
    PROVE  NextRead \in Unbound /\ NextRead \in ReadBy(package, context, Top)
<1>1. stack # << >> /\ Pending.do = "ask"
  BY DEF Inquiring
<1>2. Unbound \subseteq Nat
  BY <1>1, TopHolds DEF Unbound
<1>3. NextRead \in Unbound
  BY <1>2, Least DEF NextRead
<1>4. ReadBy(package, context, Top) = Reads(Pending.expression)
  BY <1>1, TopHolds DEF ReadBy
<1> QED
  BY <1>3, <1>4 DEF Unbound

\* A list with another last element.
ReplacesLast(changed, s, last) == changed = Append(SubSeq(s, 1, Len(s) - 1), last)

\* The one on top can change, if its variable stays.
LEMMA TopChanges ==
    ASSUME NEW p, NEW c, NEW frames, NEW marks, NEW known, MarksHold(p, c, frames, marks, known),
           Listed(frames), Len(frames) # 0, NEW top, top.id = frames[Len(frames)].id,
           NEW changed, ReplacesLast(changed, frames, top)
    PROVE  /\ MarksHold(p, c, changed, marks, known)
           /\ Listed(changed) /\ Len(changed) = Len(frames) /\ changed # << >>
           /\ \A i \in 1..Len(frames) - 1 : changed[i] = frames[i]
           /\ changed[Len(frames)] = top
           /\ changed[1].id = frames[1].id
<1> DEFINE n == Len(frames)
           below == SubSeq(frames, 1, n - 1)
<1>1. n \in Nat \ {0}
  BY Lists
<1>2. Listed(below) /\ Len(below) = n - 1 /\ \A i \in 1..n - 1 : below[i] = frames[i]
  <2>1. n - 1 \in 0..Len(frames)
    BY <1>1
  <2> QED
    BY <2>1, Shortened
<1> HIDE DEF below
<1>3. /\ Listed(changed) /\ Len(changed) = n
      /\ \A i \in 1..n - 1 : changed[i] = frames[i]
      /\ changed[n] = top
  <2>1. /\ Listed(Append(below, top)) /\ Len(Append(below, top)) = Len(below) + 1
        /\ \A i \in 1..Len(below) : Append(below, top)[i] = below[i]
        /\ Append(below, top)[Len(below) + 1] = top
    BY <1>2, Appended
  <2>2. changed = Append(below, top)
    BY DEF ReplacesLast, below
  <2> HIDE DEF n
  <2> QED
    BY ONLY <1>1, <1>2, <2>1, <2>2
<1>4. changed # << >>
  BY <1>1, <1>3, Lists
<1> HIDE DEF n
<1>5. \A i \in 1..n : changed[i].id = frames[i].id
  BY <1>1, <1>3 DEF n
<1>6. {changed[i].id : i \in 2..n} = {frames[i].id : i \in 2..n}
  <2>1. \A i \in 2..n : i \in 1..n
    BY <1>1
  <2>2. \A i \in 2..n : changed[i].id = frames[i].id
    BY <1>5, <2>1
  <2> QED
    BY ONLY <2>2
<1>7. ASSUME NEW i \in 2..n
      PROVE  ReadBy(p, c, changed[i - 1]) = ReadBy(p, c, frames[i - 1]) /\ changed[i].id = frames[i].id
  <2>1. i - 1 \in 1..n - 1 /\ i \in 1..n
    BY <1>1
  <2> QED
    BY <1>3, <1>5, <2>1
<1>8. MarksHold(p, c, changed, marks, known)
  BY <1>1, <1>3, <1>5, <1>6, <1>7 DEF MarksHold, n
<1> QED
  BY <1>1, <1>3, <1>4, <1>5, <1>8 DEF n

\* The variables a resolution runs into, in a package that lints clean and where
\* lint sees what is read.
LintSees == clean /\ ~EligibilityReads(package) /\ ~PoliciesRead

\* An outcome keeps what is said of outcomes if it does itself.
LEMMA OutcomeSettled ==
    ASSUME ShadowedNeverChosen, LintedNeverCycles,
           UNCHANGED <<package, clean, mode>>,
           NEW id, NEW outcome, outcomes' = With(outcomes, id, outcome),
           outcome.do = "choose" /\ Method(package.variables[id]) = "rules"
             => outcome.by \notin ShadowedRules(package.variables[id]),
           LintSees /\ id \in Variables(package) /\ outcome.do = "fail"
             => outcome.error \notin {"cycle", "not found"}
    PROVE  (ShadowedNeverChosen /\ LintedNeverCycles)'
<1>1. /\ DOMAIN outcomes' = {id} \cup DOMAIN outcomes
      /\ outcomes'[id] = outcome
      /\ \A other \in DOMAIN outcomes : other # id => outcomes'[other] = outcomes[other]
  <2>1. outcomes' = With(outcomes, id, outcome)
    OBVIOUS
  <2> DEFINE f == With(outcomes, id, outcome)
  <2>2. /\ DOMAIN f = {id} \cup DOMAIN outcomes
        /\ f[id] = outcome
        /\ \A other \in DOMAIN outcomes : other # id => f[other] = outcomes[other]
    BY ONLY DEF With
  <2> HIDE DEF f
  <2> QED
    BY ONLY <2>1, <2>2 DEF f
<1>2. package' = package /\ clean' = clean /\ mode' = mode
  OBVIOUS
<1>3. ASSUME NEW other \in DOMAIN outcomes', outcomes'[other].do = "choose",
             Method(package.variables[other]) = "rules"
      PROVE  outcomes'[other].by \notin ShadowedRules(package.variables[other])
  BY <1>1, <1>3 DEF ShadowedNeverChosen
<1>4. ASSUME clean', ~EligibilityReads(package'), ~PoliciesRead',
             NEW other \in DOMAIN outcomes', other \in Variables(package), outcomes'[other].do = "fail"
      PROVE  outcomes'[other].error \notin {"cycle", "not found"}
  <2>1. LintSees
    <3>1. PoliciesRead' = PoliciesRead
      BY <1>2 DEF PoliciesRead
    <3>2. clean /\ ~EligibilityReads(package)
      BY ONLY <1>2, <1>4
    <3> QED
      BY <1>4, <3>1, <3>2 DEF LintSees
  <2>2. CASE other = id
    BY <1>1, <1>4, <2>1, <2>2
  <2>3. CASE other # id
    <3>1. other \in DOMAIN outcomes \cap Variables(package) /\ outcomes[other].do = "fail"
          /\ outcomes'[other] = outcomes[other]
      BY <1>1, <1>4, <2>3
    <3> QED
      BY <2>1, <3>1 DEF LintedNeverCycles, ReferencesHold, LintSees
  <2> QED
    BY <2>2, <2>3
<1>5. ShadowedNeverChosen'
  BY <1>2, <1>3 DEF ShadowedNeverChosen
<1>6. LintedNeverCycles'
  BY <1>2, <1>4 DEF LintedNeverCycles, ReferencesHold
<1> QED
  BY <1>5, <1>6

\* The empty list.
LEMMA Nothing == Listed(<< >>) /\ Len(<< >>) = 0
<1>1. << >> \in Seq(Nat)
  OBVIOUS
<1> QED
  BY <1>1, SequencesAreListed

\* The list of one.
LEMMA One ==
    /\ \A x : Listed(<<x>>) /\ Len(<<x>>) = 1 /\ <<x>>[1] = x
    /\ 2..1 = {} /\ 1..1 = {1}
<1>1. ASSUME NEW x
      PROVE  Listed(<<x>>) /\ Len(<<x>>) = 1 /\ <<x>>[1] = x
  <2>1. <<x>> \in Seq({x}) /\ Len(<<x>>) = 1 /\ <<x>>[1] = x
    OBVIOUS
  <2> QED
    BY <2>1, SequencesAreListed
<1> QED
  BY <1>1

\* Where nothing is resolved, nothing is marked.
LEMMA NothingStacked == ASSUME stack' = << >>, resolving' = {} PROVE (Stacked /\ Marked)'
<1>1. Listed(stack') /\ Len(stack') = 0 /\ stack' = << >> /\ resolving' = {}
  BY Nothing
<1>2. 1..0 = {} /\ 2..0 = {}
  OBVIOUS
<1>3. Stacked'
  BY ONLY <1>1, <1>2 DEF Stacked
<1>4. Marked'
  BY ONLY <1>1, <1>2 DEF Marked, MarksHold
<1> QED
  BY <1>3, <1>4

\* An error unmarks what was being resolved.
LEMMA ThrowKeeps ==
    ASSUME IInv, mode \notin {"", "refused"}, NEW error, Throw(error), Keep,
           LintSees /\ Head(todo) \in Variables(package) => error \notin {"cycle", "not found"}
    PROVE  IInv'
<1>1. stack' = << >> /\ UNCHANGED <<package, clean, context, now, mode>>
  BY DEF Throw, Keep
<1>2. resolving' = {}
  <2>1. resolving' = resolving \ {stack[i].id : i \in 2..Len(stack)}
    BY DEF Throw
  <2>2. resolving \subseteq {stack[i].id : i \in 2..Len(stack)}
    BY DEF IInv, Marked, MarksHold
  <2> HIDE DEF IInv
  <2> QED
    BY ONLY <2>1, <2>2
<1>3. (Loaded /\ Stacked /\ Marked)'
  <2>1. Loaded'
    BY <1>1 DEF IInv, Loaded
  <2> QED
    BY <1>1, <1>2, <2>1, NothingStacked
<1>4. (ShadowedNeverChosen /\ LintedNeverCycles)'
  <2>1. outcomes' = With(outcomes, Head(todo), Wrong(error))
    BY DEF Throw, Settle
  <2>2. Wrong(error).do = "fail" /\ Wrong(error).error = error
    BY DEF Wrong
  <2>3. ShadowedNeverChosen /\ LintedNeverCycles
    BY DEF IInv
  <2> QED
    BY <1>1, <2>1, <2>2, <2>3, OutcomeSettled
<1> QED
  BY <1>3, <1>4 DEF IInv

\* Nothing is said anew of the outcomes when there is none.
LEMMA OutcomesKept ==
    ASSUME ShadowedNeverChosen, LintedNeverCycles, UNCHANGED <<package, clean, mode, outcomes>>
    PROVE  (ShadowedNeverChosen /\ LintedNeverCycles)'
<1>1. package' = package /\ clean' = clean /\ mode' = mode /\ outcomes' = outcomes
  OBVIOUS
<1>2. PoliciesRead' = PoliciesRead
  BY <1>1 DEF PoliciesRead
<1>3. ShadowedNeverChosen'
  BY <1>1 DEF ShadowedNeverChosen
<1>4. ReferencesHold' = ReferencesHold
  BY <1>1 DEF ReferencesHold
<1>5. ASSUME clean', ~EligibilityReads(package'), ~PoliciesRead'
      PROVE  ReferencesHold'
  <2>1. clean /\ ~EligibilityReads(package) /\ ~PoliciesRead
    BY ONLY <1>1, <1>2, <1>5
  <2>2. ReferencesHold
    BY <2>1 DEF LintedNeverCycles
  <2> QED
    BY ONLY <1>4, <2>2
<1>6. LintedNeverCycles'
  BY <1>5 DEF LintedNeverCycles
<1> QED
  BY <1>3, <1>6

\* Nothing is said where there are no outcomes.
LEMMA NoOutcomes == ASSUME outcomes' = << >> PROVE (ShadowedNeverChosen /\ LintedNeverCycles)'
<1>1. DOMAIN outcomes' = {}
  OBVIOUS
<1> QED
  BY ONLY <1>1 DEF ShadowedNeverChosen, LintedNeverCycles, ReferencesHold

\* A package is loaded.
LEMMA LoadKeeps == ASSUME IInv, package = None, NEW p \in Packages, Load(p) PROVE IInv'
<1>1. p # None
  BY PackagesAssumption DEF Authored
<1>2. todo = << >> /\ stack = << >> /\ resolving = {} /\ cache = << >> /\ outcomes = << >>
  BY DEF IInv, Loaded
<1>3. /\ package' = p /\ clean' = Linted(p) /\ mode' = IF Compiles(p) THEN "" ELSE "refused"
      /\ UNCHANGED <<context, clock, now, todo, stack, cache, resolving, outcomes>>
  BY DEF Load
<1>4. Loaded'
  BY <1>1, <1>2, <1>3 DEF Loaded
<1> QED
  BY <1>2, <1>3, <1>4, NothingStacked, NoOutcomes DEF IInv

\* A batch begins.
LEMMA StartKeeps ==
    ASSUME IInv, NEW m \in {"strict", "outcomes", "traced"}, NEW ids, NEW c, Start(m, ids, c)
    PROVE  IInv'
<1>1. /\ package # None /\ mode = "" /\ mode' = m
      /\ UNCHANGED <<package, clean, stack, cache, resolving, outcomes>>
  BY DEF Start
<1>2. stack = << >> /\ resolving = {} /\ cache = << >> /\ outcomes = << >>
  BY <1>1 DEF IInv, Loaded
<1>3. Loaded'
  BY <1>1 DEF IInv, Loaded
<1> QED
  BY <1>1, <1>2, <1>3, NothingStacked, NoOutcomes DEF IInv

\* A stack whose top changed holds, if the top does.
LEMMA TopKeeps ==
    ASSUME IInv, stack # << >>, NEW top, top.id = Top.id,
           FrameHolds(package, context, now, mode, cache, top),
           stack' = Append(Below, top), UNCHANGED <<todo, cache, resolving, outcomes>>, Keep
    PROVE  IInv'
<1> DEFINE n == Len(stack)
<1>1. package' = package /\ clean' = clean /\ context' = context /\ now' = now /\ mode' = mode
      /\ todo' = todo /\ cache' = cache /\ resolving' = resolving /\ outcomes' = outcomes
  BY DEF Keep
<1>2. /\ Listed(stack) /\ n \in Nat \ {0} /\ mode \notin {"", "refused"}
      /\ \A i \in 1..n : FrameHolds(package, context, now, mode, cache, stack[i])
      /\ Head(todo) \in Variables(package) /\ stack[1].id \in {Nobody, Head(todo)}
  BY Running
<1>3. /\ MarksHold(package, context, stack', resolving, cache)
      /\ Listed(stack') /\ Len(stack') = n /\ stack' # << >>
      /\ \A i \in 1..n - 1 : stack'[i] = stack[i]
      /\ stack'[n] = top
      /\ stack'[1].id = stack[1].id
  <2>1. ReplacesLast(stack', stack, top) /\ top.id = stack[Len(stack)].id
    BY DEF ReplacesLast, Below, Top
  <2>2. MarksHold(package, context, stack, resolving, cache) /\ Listed(stack) /\ Len(stack) # 0
    BY <1>2 DEF IInv, Marked
  <2> QED
    BY ONLY <2>1, <2>2, TopChanges
<1> HIDE DEF n
<1>4. \A i \in 1..n : FrameHolds(package, context, now, mode, cache, stack'[i])
  <2>1. \A i \in 1..n : i \in 1..n - 1 \/ i = n
    <3>1. n \in Nat \ {0}
      BY <1>2
    <3> QED
      BY ONLY <3>1
  <2>2. FrameHolds(package, context, now, mode, cache, top)
    OBVIOUS
  <2> QED
    BY ONLY <1>2, <1>3, <2>1, <2>2
<1>5. Loaded'
  BY <1>1, <1>2 DEF IInv, Loaded
<1>6. Stacked'
  BY ONLY <1>1, <1>2, <1>3, <1>4 DEF Stacked
<1>7. Marked'
  BY ONLY <1>1, <1>3 DEF Marked
<1> QED
  BY <1>1, <1>5, <1>6, <1>7, OutcomesKept DEF IInv

\* A variable that is known is bound.
LEMMA ReadCachedKeeps == ASSUME IInv, ReadCached PROVE IInv'
<1> DEFINE top == Bind(Top, NextRead, cache[NextRead])
<1>1. /\ Inquiring /\ Unbound # {} /\ NextRead \in DOMAIN cache /\ stack # << >>
      /\ stack' = Append(Below, top) /\ UNCHANGED <<todo, cache, resolving, outcomes>> /\ Keep
  BY DEF ReadCached, Inquiring
<1>2. NextRead \in ReadBy(package, context, Top) \cap DOMAIN cache
  BY <1>1, NextIsUnbound
<1>3. FrameHolds(package, context, now, mode, cache, Top)
  BY <1>1, TopHolds
<1>4. FrameHolds(package, context, now, mode, cache, top) /\ top.id = Top.id
  BY <1>2, <1>3, BindHolds
<1> QED
  BY <1>1, <1>4, TopKeeps

\* The answer to what the top asks.
LEMMA EvaluateKeeps == ASSUME IInv, EvaluateTop PROVE IInv'
<1> DEFINE target == IF Top.id = Nobody THEN Head(todo) ELSE Nobody
           value == Answer(Pending, Evaluate(package, context, EnvNow, Pending.expression, Top.bound,
                                             Pending.at, target))
           top == [Top EXCEPT !.results = Append(@, value), !.bound = << >>]
<1>1. /\ stack # << >> /\ Pending.do = "ask" /\ Unbound = {} /\ Keep
      /\ IF value = Fails THEN Throw("evaluation")
         ELSE stack' = Append(Below, top) /\ UNCHANGED <<todo, cache, resolving, outcomes>>
  BY DEF EvaluateTop, Inquiring
<1>2. mode \notin {"", "refused"} /\ Authored(package) /\ Compiles(package)
  BY <1>1, Running
<1>3. CASE value = Fails
  BY <1>1, <1>2, <1>3, ThrowKeeps
<1>4. CASE value # Fails
  <2>1. FrameHolds(package, context, now, mode, cache, Top) /\ Pending = NextOf(package, context, Top)
    BY <1>1, TopHolds
  <2>2. Reads(Pending.expression) \subseteq DOMAIN Top.bound
    BY <1>1 DEF Unbound
  <2>3. IsAnswer(value, package, context, now, Pending, Top, target)
    BY DEF EnvNow, IsAnswer
  <2>4. Top.id # Nobody => target = Nobody
    OBVIOUS
  <2>5. Hears(top, Top, value)
    BY DEF Hears
  <2> HIDE DEF top, value, target
  <2>6. FrameHolds(package, context, now, mode, cache, top) /\ top.id = Top.id
    <3>1. Authored(package) /\ Compiles(package) /\ Pending.do = "ask"
      BY <1>1, <1>2
    <3> QED
      BY ONLY <2>1, <2>2, <2>3, <2>4, <2>5, <3>1, AnswerHeard
  <2> QED
    BY <1>1, <1>4, <2>6, TopKeeps
<1> QED
  BY <1>3, <1>4

\* A stack of one, with nobody marked.
LEMMA OneResolved ==
    ASSUME IInv, mode \notin {"", "refused"}, UNCHANGED <<package, clean, context, now, mode, todo, cache>>,
           (ShadowedNeverChosen /\ LintedNeverCycles)',
           NEW frame, stack' = <<frame>>, resolving' = {},
           FrameHolds(package, context, now, mode, cache, frame),
           frame.id \in {Nobody, Head(todo)}, Head(todo) \in Variables(package)
    PROVE  IInv'
<1>1. package' = package /\ clean' = clean /\ context' = context /\ now' = now /\ mode' = mode
      /\ todo' = todo /\ cache' = cache /\ resolving' = {}
  OBVIOUS
<1>2. Listed(stack') /\ Len(stack') = 1 /\ stack'[1] = frame
  <2>1. stack' = <<frame>>
    OBVIOUS
  <2> QED
    BY ONLY <2>1, One
<1>3. 2..1 = {} /\ 1..1 = {1}
  BY ONLY One
<1>4. Loaded'
  BY DEF IInv, Loaded
<1>5. Stacked'
  <2>1. FrameHolds(package, context, now, mode, cache, frame)
        /\ frame.id \in {Nobody, Head(todo)} /\ Head(todo) \in Variables(package)
    OBVIOUS
  <2> QED
    BY ONLY <1>1, <1>2, <1>3, <2>1 DEF Stacked
<1>6. Marked'
  BY ONLY <1>1, <1>2, <1>3 DEF Marked, MarksHold
<1> QED
  BY <1>4, <1>5, <1>6 DEF IInv

\* The batch comes to a variable.
LEMMA CallKeeps == ASSUME IInv, Call PROVE IInv'
<1>1. /\ todo # << >> /\ stack = << >> /\ Keep
      /\ IF Head(todo) \in Variables(package)
         THEN stack' = <<Frame(Head(todo))>> /\ UNCHANGED <<todo, cache, resolving, outcomes>>
         ELSE Throw("not found")
  BY DEF Call
<1>2. mode \notin {"", "refused"}
  BY <1>1 DEF IInv, Loaded
<1>3. CASE Head(todo) \notin Variables(package)
  BY <1>1, <1>2, <1>3, ThrowKeeps
<1>4. CASE Head(todo) \in Variables(package)
  <2>1. package' = package /\ clean' = clean /\ context' = context /\ now' = now /\ mode' = mode
        /\ todo' = todo /\ cache' = cache /\ resolving' = resolving /\ outcomes' = outcomes
        /\ stack' = <<Frame(Head(todo))>>
    BY <1>1, <1>4 DEF Keep
  <2>2. resolving = {}
    <3>1. Len(stack) = 0 /\ resolving \subseteq {stack[i].id : i \in 2..Len(stack)}
      BY <1>1, Nothing DEF IInv, Marked, MarksHold
    <3>2. 2..0 = {}
      OBVIOUS
    <3> QED
      BY ONLY <3>1, <3>2
  <2>3. Authored(package)
    BY <1>2, PackagesAssumption DEF IInv, Loaded
  <2>4. FrameHolds(package, context, now, mode, cache, Frame(Head(todo))) /\ Frame(Head(todo)).id = Head(todo)
    <3>1. Head(todo) \in Variables(package) \ {Nobody}
      BY <1>4, <2>3 DEF Authored
    <3> QED
      BY <3>1, FrameBegins
  <2>5. (ShadowedNeverChosen /\ LintedNeverCycles)'
    BY <2>1, OutcomesKept DEF IInv
  <2> QED
    BY <1>2, <1>4, <2>1, <2>2, <2>4, <2>5, OneResolved
<1> QED
  BY <1>3, <1>4

\* What is read in a package that lints clean is an edge of the graph that lint
\* looks at.
LEMMA ReadsAreSeen ==
    ASSUME IInv, stack # << >>, LintSees, NEW i \in 1..Len(stack),
           NEW x \in ReadBy(package, context, stack[i])
    PROVE  /\ stack[i].id \in Variables(package) /\ x \in Variables(package)
           /\ x \in ReferenceEdges(package)[stack[i].id]
<1> DEFINE frame == stack[i]
           next == NextOf(package, context, frame)
<1>1. /\ Authored(package) /\ Compiles(package) /\ Linted(package)
      /\ FrameHolds(package, context, now, mode, cache, frame)
  BY Running DEF LintSees
<1>2. ~EligibilityReads(package) /\ ~PoliciesRead
  BY DEF LintSees
<1>3. /\ Listed(frame.results)
      /\ frame.id = Nobody => mode = "traced" /\ Len(frame.results) <= Len(package.policies)
      /\ frame.id # Nobody => frame.id \in Variables(package)
  BY <1>1 DEF FrameHolds
<1>4. next.do = "ask" /\ x \in Reads(next.expression)
  BY DEF ReadBy
<1>5. next = AskNext(package, context, frame.id, frame.results)
  BY DEF NextOf
<1> HIDE DEF next, frame
<1>6. ASSUME frame.id = Nobody
      PROVE  FALSE
  <2>1. next = AskNext(package, context, Nobody, frame.results)
    BY <1>5, <1>6
  <2>2. Listed(package.policies) /\ Len(frame.results) <= Len(package.policies) /\ next.do # "choose"
    BY <1>1, <1>3, <1>4, <1>6 DEF Authored
  <2>3. next.expression \in Elements(package.policies)
    BY ONLY <1>3, <2>1, <2>2, PolicyAsks
  <2> QED
    BY <1>2, <1>3, <1>4, <1>6, <2>3 DEF PoliciesRead
<1>7. x \in ReferenceEdges(package)[frame.id] /\ x \in Variables(package)
  BY ONLY <1>1, <1>2, <1>3, <1>4, <1>5, <1>6, ReadsAreEdges
<1> QED
  BY <1>3, <1>6, <1>7 DEF frame

\* So no resolution of such a package comes back to where it is.
LEMMA NoCycle == ASSUME IInv, Inquiring, Unbound # {}, LintSees PROVE NextRead \notin resolving
<1> DEFINE n == Len(stack)
           edges == ReferenceEdges(package)
<1>1. stack # << >>
  BY DEF Inquiring
<1>2. n \in Nat \ {0} /\ Linted(package)
  BY <1>1, Running DEF LintSees
<1>3. NextRead \in ReadBy(package, context, stack[n])
  BY NextIsUnbound DEF Top
<1>4. /\ \A i \in 2..n : stack[i].id \in ReadBy(package, context, stack[i - 1])
      /\ resolving \subseteq {stack[i].id : i \in 2..n}
  BY DEF IInv, Marked, MarksHold
<1>5. \A i \in 1..n : \A x \in ReadBy(package, context, stack[i]) :
        stack[i].id \in Variables(package) /\ x \in edges[stack[i].id]
  BY <1>1, ReadsAreSeen
<1>6. SUFFICES ASSUME NextRead \in resolving
               PROVE  FALSE
  OBVIOUS
<1>7. PICK k \in 2..n : stack[k].id = NextRead
  BY <1>4, <1>6
<1> DEFINE component == {stack[i].id : i \in k..n}
<1> HIDE DEF n, edges
<1>8. ASSUME NEW i \in k..n
      PROVE  stack[i].id \in Variables(package) /\ edges[stack[i].id] \cap component # {}
  <2>1. i \in 1..n /\ k \in k..n
    BY <1>2, <1>7
  <2>2. CASE i = n
    BY <1>3, <1>5, <1>7, <2>1, <2>2
  <2>3. CASE i # n
    <3>1. i + 1 \in k..n /\ i + 1 \in 2..n /\ (i + 1) - 1 = i
      BY <1>2, <1>7, <2>3
    <3>2. stack[i + 1].id \in ReadBy(package, context, stack[i])
      BY <1>4, <3>1
    <3>3. stack[i + 1].id \in component
      BY <3>1
    <3> QED
      BY <1>5, <2>1, <3>2, <3>3
  <2> QED
    BY <2>2, <2>3
<1>9. component \in (SUBSET DOMAIN package.variables) \ {{}}
  <2>1. k \in k..n
    BY <1>2, <1>7
  <2> QED
    BY <1>8, <2>1 DEF Variables
<1>10. \E id \in component : edges[id] \cap component = {}
  <2> HIDE DEF component
  <2> QED
    BY <1>2, <1>9 DEF Linted, LintVariableCycles, edges
<1> QED
  BY <1>8, <1>10

\* A variable that is not known is resolved first.
LEMMA ReadResolvingKeeps == ASSUME IInv, ReadResolving PROVE IInv'
<1> DEFINE n == Len(stack)
           frame == Frame(NextRead)
<1>1. /\ Inquiring /\ Unbound # {} /\ NextRead \notin DOMAIN cache /\ stack # << >> /\ Keep
      /\ IF NextRead \in resolving THEN Throw("cycle")
         ELSE IF NextRead \notin Variables(package) THEN Throw("not found")
         ELSE /\ resolving' = resolving \cup {NextRead}
              /\ stack' = Append(stack, frame)
              /\ UNCHANGED <<todo, cache, outcomes>>
  BY DEF ReadResolving, Inquiring
<1>2. /\ mode \notin {"", "refused"} /\ Authored(package) /\ Listed(stack) /\ n \in Nat \ {0}
      /\ \A i \in 1..n : FrameHolds(package, context, now, mode, cache, stack[i])
      /\ Head(todo) \in Variables(package) /\ stack[1].id \in {Nobody, Head(todo)}
  BY <1>1, Running
<1>3. NextRead \in ReadBy(package, context, stack[n])
  BY <1>1, NextIsUnbound DEF Top
<1>4. CASE NextRead \in resolving
  <2>1. ~LintSees
    BY <1>1, <1>4, NoCycle
  <2> QED
    BY <1>1, <1>2, <1>4, <2>1, ThrowKeeps
<1>5. CASE NextRead \notin resolving /\ NextRead \notin Variables(package)
  <2>1. ~LintSees
    <3>1. n \in 1..Len(stack)
      <4>1. n \in Nat \ {0}
        BY <1>2
      <4> QED
        BY ONLY <4>1
    <3> QED
      BY <1>1, <1>3, <1>5, <3>1, ReadsAreSeen
  <2> QED
    BY <1>1, <1>2, <1>5, <2>1, ThrowKeeps
<1>6. CASE NextRead \notin resolving /\ NextRead \in Variables(package)
  <2>1. package' = package /\ clean' = clean /\ context' = context /\ now' = now /\ mode' = mode
        /\ todo' = todo /\ cache' = cache /\ outcomes' = outcomes /\ resolving' = resolving \cup {NextRead}
    BY <1>1, <1>6 DEF Keep
  <2>2. /\ Listed(stack') /\ Len(stack') = n + 1 /\ \A i \in 1..n : stack'[i] = stack[i]
        /\ stack'[n + 1] = frame
    <3>1. /\ Listed(Append(stack, frame)) /\ Len(Append(stack, frame)) = Len(stack) + 1
          /\ \A i \in 1..Len(stack) : Append(stack, frame)[i] = stack[i]
          /\ Append(stack, frame)[Len(stack) + 1] = frame
      BY <1>2, Appended
    <3>2. stack' = Append(stack, frame)
      BY <1>1, <1>6
    <3> HIDE DEF frame
    <3> QED
      BY ONLY <3>1, <3>2
  <2>3. NextRead \in Variables(package) \ {Nobody}
    BY <1>2, <1>6 DEF Authored
  <2>4. FrameHolds(package, context, now, mode, cache, frame) /\ frame.id = NextRead
    BY <2>3, FrameBegins
  <2>5. n \in Nat \ {0}
    BY <1>2
  <2>6. /\ 1 \in 1..n /\ \A i \in 1..n + 1 : i \in 1..n \/ i = n + 1
        /\ \A i \in 2..n + 1 : i \in 2..n \/ i = n + 1
        /\ \A i \in 2..n : i \in 1..n /\ i - 1 \in 1..n
        /\ (n + 1) - 1 = n /\ n \in 1..n
    <3> HIDE DEF n
    <3> QED
      BY ONLY <2>5
  <2> HIDE DEF n, frame
  <2>7. \A i \in 1..n + 1 : FrameHolds(package, context, now, mode, cache, stack'[i])
    BY ONLY <1>2, <2>2, <2>4, <2>6
  <2>8. stack' # << >> /\ stack'[1].id \in {Nobody, Head(todo)}
    <3>1. Len(stack') # 0
      BY ONLY <2>2, <2>5
    <3>2. stack' # << >>
      BY ONLY <2>2, <3>1, Lists
    <3> QED
      BY ONLY <1>2, <2>2, <2>6, <3>2
  <2>9. Stacked'
    BY ONLY <1>2, <2>1, <2>2, <2>7, <2>8 DEF Stacked
  <2>10. Marked'
    <3>1. /\ \A i \in 2..n :
               /\ stack[i].id \in ReadBy(package, context, stack[i - 1]) \cap resolving \cap Variables(package)
               /\ stack[i].id \notin DOMAIN cache
          /\ \A i, j \in 2..n : stack[i].id = stack[j].id => i = j
          /\ resolving \subseteq {stack[i].id : i \in 2..n}
      BY DEF IInv, Marked, MarksHold, n
    <3>2. \A i \in 2..n + 1 :
            /\ stack'[i].id \in ReadBy(package, context, stack'[i - 1]) \cap resolving' \cap Variables(package)
            /\ stack'[i].id \notin DOMAIN cache
      <4>1. \A i \in 2..n : stack'[i] = stack[i] /\ stack'[i - 1] = stack[i - 1]
        BY ONLY <2>2, <2>6
      <4>2. stack'[n + 1].id = NextRead /\ stack'[(n + 1) - 1] = stack[n]
        BY ONLY <2>2, <2>4, <2>6
      <4>3. /\ NextRead \in ReadBy(package, context, stack[n]) \cap Variables(package)
            /\ NextRead \in resolving' /\ NextRead \notin DOMAIN cache
        BY <1>1, <1>3, <1>6, <2>1 DEF n
      <4> QED
        BY ONLY <2>1, <2>6, <3>1, <4>1, <4>2, <4>3
    <3>3. \A i, j \in 2..n + 1 : stack'[i].id = stack'[j].id => i = j
      <4>1. \A i \in 2..n : stack'[i].id = stack[i].id /\ stack[i].id # NextRead
        BY <1>6, <2>2, <2>6, <3>1
      <4> QED
        BY ONLY <2>2, <2>4, <2>6, <3>1, <4>1
    <3>4. resolving' \subseteq {stack'[i].id : i \in 2..n + 1}
      <4>1. ASSUME NEW x \in resolving
            PROVE  x \in {stack'[i].id : i \in 2..n + 1}
        <5>1. PICK i \in 2..n : x = stack[i].id
          BY <3>1
        <5>2. i \in 2..n + 1 /\ stack'[i].id = x
          BY <2>2, <2>5, <2>6, <5>1
        <5> QED
          BY ONLY <5>2
      <4>2. n + 1 \in 2..n + 1 /\ stack'[n + 1].id = NextRead
        BY <2>2, <2>4, <2>5
      <4> QED
        BY ONLY <2>1, <4>1, <4>2
    <3> QED
      BY ONLY <2>1, <2>2, <3>2, <3>3, <3>4 DEF Marked, MarksHold
  <2>11. Loaded'
    BY <1>2, <2>1 DEF IInv, Loaded
  <2> QED
    BY <2>1, <2>9, <2>10, <2>11, OutcomesKept DEF IInv
<1> QED
  BY <1>4, <1>5, <1>6

\* A resolution that is done for another gives it its value.
LEMMA ReturnToCaller ==
    ASSUME IInv, Len(stack) > 1, stack # << >>, NEW value, NEW caller, caller = stack[Len(stack) - 1],
           resolving' = resolving \ {Top.id}, cache' = With(cache, Top.id, value),
           stack' = Append(SubSeq(stack, 1, Len(stack) - 2), Bind(caller, Top.id, value)),
           UNCHANGED <<todo, outcomes>>, Keep
    PROVE  IInv'
<1> DEFINE n == Len(stack)
           id == Top.id
           bound == Bind(caller, id, value)
           more == With(cache, id, value)
           short == SubSeq(stack, 1, n - 2)
<1>1. package' = package /\ clean' = clean /\ context' = context /\ now' = now /\ mode' = mode
      /\ todo' = todo /\ outcomes' = outcomes
  BY DEF Keep
<1>2. /\ mode \notin {"", "refused"} /\ Listed(stack) /\ n \in Nat \ {0}
      /\ \A i \in 1..n : FrameHolds(package, context, now, mode, cache, stack[i])
      /\ Head(todo) \in Variables(package) /\ stack[1].id \in {Nobody, Head(todo)}
  BY Running
<1>3. n > 1 /\ id = stack[n].id /\ caller = stack[n - 1]
  BY DEF Top
<1>4. /\ \A i \in 2..n :
           /\ stack[i].id \in ReadBy(package, context, stack[i - 1]) \cap resolving \cap Variables(package)
           /\ stack[i].id \notin DOMAIN cache
      /\ \A i, j \in 2..n : stack[i].id = stack[j].id => i = j
      /\ resolving \subseteq {stack[i].id : i \in 2..n}
  BY DEF IInv, Marked, MarksHold
<1>5. DOMAIN more = {id} \cup DOMAIN cache /\ more[id] = value /\ \A x \in DOMAIN cache : x # id => more[x] = cache[x]
  BY ONLY DEF With
<1>6. cache' = more /\ resolving' = resolving \ {id}
  OBVIOUS
<1>7. /\ Listed(stack') /\ Len(stack') = n - 1 /\ \A i \in 1..n - 2 : stack'[i] = stack[i]
      /\ stack'[n - 1] = bound
  <2>1. n - 2 \in 0..n /\ (n - 2) + 1 = n - 1
    <3>1. n \in Nat \ {0} /\ n > 1
      BY <1>2, <1>3
    <3> HIDE DEF n
    <3> QED
      BY ONLY <3>1
  <2>2. Listed(short) /\ Len(short) = n - 2 /\ \A i \in 1..n - 2 : short[i] = stack[i]
    BY ONLY <1>2, <2>1, Shortened
  <2>3. /\ Listed(Append(short, bound)) /\ Len(Append(short, bound)) = Len(short) + 1
        /\ \A i \in 1..Len(short) : Append(short, bound)[i] = short[i]
        /\ Append(short, bound)[Len(short) + 1] = bound
    <3>1. Listed(short)
      BY <2>2
    <3> HIDE DEF short, bound
    <3> QED
      BY ONLY <3>1, Appended
  <2>4. stack' = Append(short, bound)
    OBVIOUS
  <2> HIDE DEF n, short, bound
  <2> QED
    BY ONLY <2>1, <2>2, <2>3, <2>4
<1>8. n \in Nat \ {0, 1}
  <2>1. n \in Nat /\ n > 1
    BY <1>2, <1>3
  <2> HIDE DEF n
  <2> QED
    BY ONLY <2>1
<1> HIDE DEF n, id, bound, more, short
<1>9. /\ n \in 2..n /\ n - 1 \in 1..n
      /\ \A i \in 1..n - 1 : i \in 1..n /\ (i \in 1..n - 2 \/ i = n - 1)
      /\ \A i \in 2..n - 1 : i \in 2..n /\ i # n /\ i - 1 \in 1..n - 2 /\ i \in 1..n - 1
      /\ \A i \in 2..n : i \in 2..n - 1 \/ i = n
  BY ONLY <1>8
<1>10. id \in ReadBy(package, context, caller) /\ id \in resolving /\ id \notin DOMAIN cache
  BY ONLY <1>3, <1>4, <1>9
<1>11. \A frame : FrameHolds(package, context, now, mode, cache, frame)
                    => FrameHolds(package, context, now, mode, more, frame)
  <2>1. \A x \in DOMAIN cache : x \in DOMAIN more /\ more[x] = cache[x]
    BY ONLY <1>5, <1>10
  <2> QED
    BY ONLY <2>1, KnowingMore
<1>12. FrameHolds(package, context, now, mode, more, bound) /\ bound.id = caller.id
  <2>1. FrameHolds(package, context, now, mode, more, caller)
    BY ONLY <1>2, <1>3, <1>9, <1>11
  <2>2. id \in ReadBy(package, context, caller) \cap DOMAIN more /\ more[id] = value
    BY ONLY <1>5, <1>10
  <2>3. value = more[id]
    BY <2>2
  <2> QED
    BY ONLY <2>1, <2>2, <2>3, BindHolds DEF bound
<1>13. \A i \in 1..n - 1 : FrameHolds(package, context, now, mode, more, stack'[i])
  BY ONLY <1>2, <1>7, <1>9, <1>11, <1>12
<1>14. \A i \in 1..n - 1 : stack'[i].id = stack[i].id
  BY ONLY <1>3, <1>7, <1>9, <1>12
<1>15. Stacked'
  <2>1. stack' # << >>
    <3>1. Len(stack') # 0
      BY ONLY <1>7, <1>8
    <3> QED
      BY ONLY <1>7, <3>1, Lists
  <2>2. 1 \in 1..n - 1
    BY ONLY <1>8
  <2> QED
    BY ONLY <1>1, <1>2, <1>6, <1>7, <1>13, <1>14, <2>1, <2>2 DEF Stacked
<1>16. Marked'
  <2>1. \A i \in 2..n - 1 :
          /\ stack'[i].id \in ReadBy(package, context, stack'[i - 1]) \cap resolving' \cap Variables(package)
          /\ stack'[i].id \notin DOMAIN more
    <3>1. \A i \in 2..n - 1 : stack'[i].id = stack[i].id /\ stack'[i - 1] = stack[i - 1]
      BY ONLY <1>7, <1>9, <1>14
    <3>2. \A i \in 2..n - 1 : stack[i].id # id
      BY ONLY <1>3, <1>4, <1>9
    <3> QED
      BY ONLY <1>4, <1>5, <1>6, <1>9, <3>1, <3>2
  <2>2. \A i, j \in 2..n - 1 : stack'[i].id = stack'[j].id => i = j
    BY ONLY <1>4, <1>9, <1>14
  <2>3. resolving' \subseteq {stack'[i].id : i \in 2..n - 1}
    <3>1. ASSUME NEW x \in resolving, x # id
          PROVE  x \in {stack'[i].id : i \in 2..n - 1}
      <4>1. PICK i \in 2..n : x = stack[i].id
        BY <1>4
      <4>2. i \in 2..n - 1 /\ stack'[i].id = x
        BY ONLY <1>3, <1>9, <1>14, <3>1, <4>1
      <4> QED
        BY ONLY <4>2
    <3> QED
      BY ONLY <1>6, <3>1
  <2> QED
    BY ONLY <1>1, <1>6, <1>7, <2>1, <2>2, <2>3 DEF Marked, MarksHold
<1>17. Loaded'
  BY <1>1, <1>2 DEF IInv, Loaded
<1> QED
  BY <1>1, <1>15, <1>16, <1>17, OutcomesKept DEF IInv

\* A resolution is done.
LEMMA ReturnKeeps == ASSUME IInv, Return PROVE IInv'
<1>1. /\ stack # << >> /\ Pending.do # "ask" /\ Keep
      /\ IF Pending.do = "fail" THEN Throw(Pending.error)
         ELSE IF Len(stack) > 1
         THEN /\ resolving' = resolving \ {Top.id}
              /\ cache' = With(cache, Top.id, Pending.value)
              /\ stack' = Append(SubSeq(stack, 1, Len(stack) - 2),
                                 Bind(Below[Len(Below)], Top.id, Pending.value))
              /\ UNCHANGED <<todo, outcomes>>
         ELSE IF Top.id = Nobody
         THEN stack' = << >> /\ todo' = Tail(todo) /\ UNCHANGED <<cache, resolving, outcomes>>
         ELSE IF mode = "traced"
         THEN /\ stack' = <<Frame(Nobody)>>
              /\ outcomes' = With(outcomes, Top.id, Pending)
              /\ UNCHANGED <<todo, cache, resolving>>
         ELSE stack' = << >> /\ Settle(Pending) /\ UNCHANGED <<cache, resolving>>
  BY DEF Return
<1>2. /\ mode \notin {"", "refused"} /\ Authored(package) /\ Compiles(package)
      /\ Listed(stack) /\ Len(stack) \in Nat \ {0}
      /\ Head(todo) \in Variables(package) /\ stack[1].id \in {Nobody, Head(todo)}
  BY <1>1, Running
<1>3. /\ FrameHolds(package, context, now, mode, cache, Top)
      /\ Pending = NextOf(package, context, Top) /\ Listed(Top.results)
      /\ Top.id = Nobody => Listed(package.policies) /\ Len(Top.results) <= Len(package.policies)
      /\ Top.id # Nobody => Top.id \in Variables(package)
  BY <1>1, TopHolds
<1>4. package' = package /\ clean' = clean /\ context' = context /\ now' = now /\ mode' = mode
  BY <1>1 DEF Keep
<1>5. CASE Pending.do = "fail"
  <2>1. Pending = AskNext(package, context, Top.id, Top.results)
    BY DEF Pending
  <2>2. Pending.error \notin {"cycle", "not found"}
    BY ONLY <1>2, <1>3, <1>5, <2>1, OwnErrors
  <2> QED
    BY <1>1, <1>2, <1>5, <2>2, ThrowKeeps
<1>6. CASE Pending.do # "fail" /\ Len(stack) > 1
  <2>1. Below[Len(Below)] = stack[Len(stack) - 1]
    <3>1. Len(stack) - 1 \in 0..Len(stack) /\ Len(stack) - 1 \in 1..Len(stack) - 1
      <4>1. Len(stack) \in Nat /\ Len(stack) > 1
        BY <1>2, <1>6
      <4> QED
        BY ONLY <4>1
    <3>2. Len(Below) = Len(stack) - 1 /\ \A i \in 1..Len(stack) - 1 : Below[i] = stack[i]
      BY ONLY <1>2, <3>1, Shortened DEF Below
    <3> QED
      BY ONLY <3>1, <3>2
  <2>2. PICK caller : caller = Below[Len(Below)]
    OBVIOUS
  <2>3. caller = stack[Len(stack) - 1]
    BY <2>1, <2>2
  <2>4. /\ resolving' = resolving \ {Top.id}
        /\ cache' = With(cache, Top.id, Pending.value)
        /\ stack' = Append(SubSeq(stack, 1, Len(stack) - 2), Bind(caller, Top.id, Pending.value))
        /\ UNCHANGED <<todo, outcomes>>
    BY <1>1, <1>6, <2>2
  <2>5. Len(stack) > 1 /\ stack # << >> /\ Keep /\ IInv
    BY <1>1, <1>6
  <2> QED
    BY ONLY <2>3, <2>4, <2>5, ReturnToCaller
<1>7. CASE Pending.do # "fail" /\ ~(Len(stack) > 1)
  <2>1. Len(stack) = 1
    <3>1. Len(stack) \in Nat \ {0} /\ ~(Len(stack) > 1)
      BY <1>2, <1>7
    <3>2. PICK depth : depth = Len(stack)
      OBVIOUS
    <3>3. depth = 1
      BY ONLY <3>1, <3>2
    <3> QED
      BY ONLY <3>2, <3>3
  <2>2. Top.id = Nobody \/ Top.id = Head(todo)
    BY <1>2, <2>1 DEF Top
  <2>3. resolving = {}
    <3>1. resolving \subseteq {stack[i].id : i \in 2..Len(stack)}
      BY DEF IInv, Marked, MarksHold
    <3> QED
      BY ONLY <2>1, <3>1, One
  <2>4. resolving' = {} /\ cache' = cache
    BY <1>1, <1>7, <2>3
  <2>5. ASSUME stack' = << >>, (ShadowedNeverChosen /\ LintedNeverCycles)'
        PROVE  IInv'
    <3>1. Loaded'
      BY <1>2, <1>4 DEF IInv, Loaded
    <3> QED
      BY <2>4, <2>5, <3>1, NothingStacked DEF IInv
  <2>6. CASE Top.id = Nobody
    <3>1. stack' = << >> /\ outcomes' = outcomes
      BY <1>1, <1>7, <2>6
    <3> QED
      BY <1>4, <2>5, <3>1, OutcomesKept DEF IInv
  <2>7. CASE Top.id # Nobody
    <3>1. outcomes' = With(outcomes, Head(todo), Pending)
      BY <1>1, <1>7, <2>2, <2>7 DEF Settle
    <3>2. ASSUME Pending.do = "choose", Method(package.variables[Head(todo)]) = "rules"
          PROVE  Pending.by \notin ShadowedRules(package.variables[Head(todo)])
      <4>1. Top.id = Head(todo)
        BY <2>2, <2>7
      <4>2. Pending.by \notin ShadowedRules(package.variables[Top.id])
        <5>1. Method(package.variables[Top.id]) = "rules" /\ Pending.do = "choose"
          BY <3>2, <4>1
        <5> QED
          BY ONLY <1>2, <1>3, <2>7, <5>1, NotShadowed
      <4> QED
        BY <4>1, <4>2
    <3>3. (ShadowedNeverChosen /\ LintedNeverCycles)'
      <4>1. Pending.do # "fail" /\ ShadowedNeverChosen /\ LintedNeverCycles
        BY <1>7 DEF IInv
      <4>2. UNCHANGED <<package, clean, mode>>
        BY <1>4
      <4> QED
        BY ONLY <3>1, <3>2, <4>1, <4>2, OutcomeSettled
    <3>4. CASE mode # "traced"
      BY <1>1, <1>7, <2>5, <2>7, <3>3, <3>4
    <3>5. CASE mode = "traced"
      <4>1. stack' = <<Frame(Nobody)>> /\ todo' = todo
        BY <1>1, <1>7, <2>7, <3>5
      <4>2. FrameHolds(package, context, now, mode, cache, Frame(Nobody)) /\ Frame(Nobody).id = Nobody
        <5>1. Listed(package.policies)
          BY <1>2 DEF Authored
        <5> QED
          BY <3>5, <5>1, FrameBegins
      <4> QED
        BY <1>2, <1>4, <2>4, <3>3, <4>1, <4>2, OneResolved
    <3> QED
      BY <3>4, <3>5
  <2> QED
    BY <2>6, <2>7
<1> QED
  BY <1>5, <1>6, <1>7

-----------------------------------------------------------------------------
(* What holds of every batch.                                               *)

\* The invariant holds of every behaviour of the resolution of variables.
LEMMA Invariance == Spec => []IInv
<1>1. Init => IInv
  <2> SUFFICES ASSUME Init
               PROVE  IInv
    OBVIOUS
  <2>1. Loaded
    BY DEF Init, Loaded
  <2>2. Listed(stack) /\ Len(stack) = 0 /\ stack = << >> /\ resolving = {} /\ 1..0 = {} /\ 2..0 = {}
    <3>1. stack = << >> /\ resolving = {}
      BY DEF Init
    <3>2. 1..0 = {} /\ 2..0 = {}
      OBVIOUS
    <3> QED
      BY ONLY <3>1, <3>2, Nothing
  <2>3. Stacked
    BY ONLY <2>2 DEF Stacked
  <2>4. Marked
    BY ONLY <2>2 DEF Marked, MarksHold
  <2>5. ShadowedNeverChosen /\ LintedNeverCycles
    <3>1. DOMAIN outcomes = {}
      <4>1. outcomes = << >>
        BY DEF Init
      <4> QED
        BY ONLY <4>1
    <3> QED
      BY ONLY <3>1 DEF ShadowedNeverChosen, LintedNeverCycles, ReferencesHold
  <2> QED
    BY <2>1, <2>3, <2>4, <2>5 DEF IInv
<1>2. IInv /\ [Next]_vars => IInv'
  <2> SUFFICES ASSUME IInv, [Next]_vars
               PROVE  IInv'
    OBVIOUS
  <2>1. CASE UNCHANGED vars
    <3>1. /\ package' = package /\ clean' = clean /\ context' = context /\ now' = now /\ mode' = mode
          /\ todo' = todo /\ stack' = stack /\ cache' = cache /\ resolving' = resolving /\ outcomes' = outcomes
      BY <2>1 DEF vars
    <3>2. Loaded' /\ Stacked' /\ Marked'
      BY <3>1 DEF IInv, Loaded, Stacked, Marked
    <3> QED
      BY <3>1, <3>2, OutcomesKept DEF IInv
  <2>2. CASE package = None /\ \E p \in Packages : Load(p)
    BY <2>2, LoadKeeps
  <2>3. CASE \E c \in Contexts :
               \/ package # None
                    /\ \E m \in {"strict", "outcomes"} : Start(m, Ascending(Variables(package)), c)
               \/ package # None /\ \E id \in Variables(package) \cup {Unknown} : Start("traced", <<id>>, c)
    BY <2>3, StartKeeps
  <2>4. CASE Tick
    <3>1. /\ package' = package /\ clean' = clean /\ context' = context /\ now' = now /\ mode' = mode
          /\ todo' = todo /\ stack' = stack /\ cache' = cache /\ resolving' = resolving /\ outcomes' = outcomes
      BY <2>4 DEF Tick
    <3>2. Loaded' /\ Stacked' /\ Marked'
      BY <3>1 DEF IInv, Loaded, Stacked, Marked
    <3> QED
      BY <3>1, <3>2, OutcomesKept DEF IInv
  <2>5. CASE Call
    BY <2>5, CallKeeps
  <2>6. CASE ReadCached
    BY <2>6, ReadCachedKeeps
  <2>7. CASE ReadResolving
    BY <2>7, ReadResolvingKeeps
  <2>8. CASE EvaluateTop
    BY <2>8, EvaluateKeeps
  <2>9. CASE Return
    BY <2>9, ReturnKeeps
  <2> QED
    BY <2>1, <2>2, <2>3, <2>4, <2>5, <2>6, <2>7, <2>8, <2>9 DEF Next
<1> QED
  BY <1>1, <1>2, PTL DEF Spec

\* What lints clean compiles, but for what lint overlooks.
LEMMA LintedCompilesHolds == IInv => LintedCompiles
<1> SUFFICES ASSUME IInv, clean, \A id \in Variables(package) : ~Overlooked(package.variables[id])
             PROVE  mode # "refused"
  BY DEF LintedCompiles
<1>1. CASE package = None
  BY <1>1 DEF IInv, Loaded
<1>2. CASE package # None
  <2>1. Linted(package) /\ Authored(package)
    BY <1>2, PackagesAssumption DEF IInv, Loaded
  <2>2. Compiles(package)
    BY <2>1, LintedPackagesCompile
  <2> QED
    BY <1>2, <2>2 DEF IInv, Loaded
<1> QED
  BY <1>1, <1>2

-----------------------------------------------------------------------------
(* One arm of a layer.                                                      *)

\* Of places with natural numbers there is a first one.
LEMMA LeastBy ==
    ASSUME NEW S, S # {}, NEW f, \A x \in S : f[x] \in Nat
    PROVE  \E x \in S : \A y \in S : f[x] <= f[y]
<1> DEFINE T == {f[x] : x \in S}
<1>1. T \subseteq Nat /\ T # {}
  OBVIOUS
<1>2. PICK n \in T : \A m \in T : n <= m
  BY ONLY <1>1, Least
<1> QED
  BY <1>2

\* What the author of a layer claims is ranges of buckets.
LEMMA ClaimsAreRanges ==
    ASSUME NEW layer, AuthoredLayer(layer), NEW c \in Claims(layer)
    PROVE  /\ ArmAt(layer, c).buckets[1] \in Nat /\ ArmAt(layer, c).buckets[2] \in Nat
           /\ c[1] \in Nat /\ c[2] \in Nat /\ c = <<c[1], c[2]>>
<1>1. PICK i \in Positions(AllocationsOf(layer)) :
        layer.allocations[i] # Malformed /\ c \in {i} \X Positions(Arms(layer.allocations[i]))
  BY DEF Claims
<1>2. c[1] = i /\ c[2] \in Positions(Arms(layer.allocations[i])) /\ c = <<c[1], c[2]>>
  BY <1>1
<1>3. layer.allocations # Malformed
  <2>1. Positions(<< >>) = {}
    BY DEF Positions
  <2> QED
    BY <1>1, <2>1 DEF AllocationsOf
<1>4. layer.allocations[i] \in Elements(AllocationsOf(layer)) \ {Malformed} /\ i \in Nat
  BY <1>1, <1>3 DEF AuthoredLayer, AllocationsOf, Listed, Positions, Elements
<1>5. Listed(Arms(layer.allocations[i]))
  BY <1>4 DEF AuthoredLayer
<1>6. layer.allocations[i].arms # Malformed
  <2>1. Positions(<< >>) = {}
    BY DEF Positions
  <2> QED
    BY <1>2, <2>1 DEF Arms
<1>7. ArmAt(layer, c) # Malformed /\ ArmAt(layer, c).buckets # Malformed
  BY DEF Claims
<1>8. ArmAt(layer, c) \in Elements(Arms(layer.allocations[i])) /\ c[2] \in Nat
  BY <1>2, <1>5, <1>6 DEF ArmAt, Arms, Listed, Positions, Elements
<1>9. ArmAt(layer, c).buckets \in Nat \X Nat
  BY <1>4, <1>7, <1>8 DEF AuthoredLayer
<1> QED
  BY <1>2, <1>4, <1>8, <1>9

\* Some claims have a first one.
LEMMA FirstClaim ==
    ASSUME NEW layer, AuthoredLayer(layer), NEW S, S \subseteq Claims(layer), S # {}
    PROVE  \E x \in S : /\ \A y \in S : ~Before(layer, y, x)
                        /\ \A y \in S : ArmAt(layer, x).buckets[1] <= ArmAt(layer, y).buckets[1]
<1> DEFINE From(x) == ArmAt(layer, x).buckets[1]
           To(x) == ArmAt(layer, x).buckets[2]
<1>1. \A x \in S : From(x) \in Nat /\ To(x) \in Nat /\ x[1] \in Nat /\ x[2] \in Nat
  BY ClaimsAreRanges
<1> HIDE DEF From, To
<1>2. PICK a \in S : \A y \in S : From(a) <= From(y)
  <2> DEFINE f == [x \in S |-> From(x)]
  <2>1. S # {} /\ \A x \in S : f[x] = From(x) /\ f[x] \in Nat
    BY <1>1
  <2> HIDE DEF f
  <2>2. \E x \in S : \A y \in S : f[x] <= f[y]
    BY ONLY <2>1, LeastBy
  <2> QED
    BY ONLY <2>1, <2>2
<1> DEFINE T == {x \in S : From(x) = From(a)}
<1>3. PICK b \in T : \A y \in T : To(b) <= To(y)
  <2> DEFINE f == [x \in T |-> To(x)]
  <2>1. T # {} /\ \A x \in T : f[x] = To(x) /\ f[x] \in Nat
    BY <1>1
  <2> HIDE DEF f, T
  <2>2. \E x \in T : \A y \in T : f[x] <= f[y]
    BY ONLY <2>1, LeastBy
  <2> QED
    BY ONLY <2>1, <2>2
<1> DEFINE U == {x \in T : To(x) = To(b)}
<1>4. PICK c \in U : \A y \in U : c[1] <= y[1]
  <2> DEFINE f == [x \in U |-> x[1]]
  <2>1. U # {} /\ \A x \in U : f[x] = x[1] /\ f[x] \in Nat
    BY <1>1
  <2> HIDE DEF f, U
  <2>2. \E x \in U : \A y \in U : f[x] <= f[y]
    BY ONLY <2>1, LeastBy
  <2> QED
    BY ONLY <2>1, <2>2
<1> DEFINE V == {x \in U : x[1] = c[1]}
<1>5. PICK d \in V : \A y \in V : d[2] <= y[2]
  <2> DEFINE f == [x \in V |-> x[2]]
  <2>1. V # {} /\ \A x \in V : f[x] = x[2] /\ f[x] \in Nat
    BY <1>1
  <2> HIDE DEF f, V
  <2>2. \E x \in V : \A y \in V : f[x] <= f[y]
    BY ONLY <2>1, LeastBy
  <2> QED
    BY ONLY <2>1, <2>2
<1>6. d \in S /\ From(d) = From(a) /\ To(d) = To(b) /\ d[1] = c[1]
  BY <1>5
<1>7. ASSUME NEW y \in S
      PROVE  ~Before(layer, y, d)
  <2>1. From(d) <= From(y)
    BY <1>2, <1>6
  <2>2. From(y) = From(d) => To(d) <= To(y)
    BY <1>3, <1>6
  <2>3. From(y) = From(d) /\ To(y) = To(d) => d[1] <= y[1]
    BY <1>4, <1>6
  <2>4. From(y) = From(d) /\ To(y) = To(d) /\ y[1] = d[1] => d[2] <= y[2]
    BY <1>5, <1>6
  <2>5. Before(layer, y, d) <=>
          \/ From(y) < From(d)
          \/ From(y) = From(d) /\ To(y) < To(d)
          \/ From(y) = From(d) /\ To(y) = To(d) /\ y[1] < d[1]
          \/ From(y) = From(d) /\ To(y) = To(d) /\ y[1] = d[1] /\ y[2] < d[2]
    BY DEF Before, From, To
  <2>6. \A x \in {y, d} : From(x) \in Nat /\ To(x) \in Nat /\ x[1] \in Nat /\ x[2] \in Nat
    BY <1>1, <1>6
  <2> QED
    BY ONLY <2>1, <2>2, <2>3, <2>4, <2>5, <2>6
<1>8. \A y \in S : From(d) <= From(y)
  BY <1>2, <1>6
<1> QED
  BY <1>6, <1>7, <1>8 DEF From

\* Comparing neighbours is enough: where lint finds the buckets apart, a claim ends
\* before every later one starts (windows(2) over the sorted claims,
\* src/lint/builtins/layers.rs).
LEMMA LaterClaims ==
    ASSUME NEW layer, AuthoredLayer(layer), BucketsApart(layer),
           NEW c \in Claims(layer), NEW d \in Claims(layer), Before(layer, c, d)
    PROVE  ArmAt(layer, d).buckets[1] > ArmAt(layer, c).buckets[2]
<1> DEFINE After == {e \in Claims(layer) : Before(layer, c, e)}
<1>1. After # {} /\ After \subseteq Claims(layer) /\ d \in After
  OBVIOUS
<1> HIDE DEF After
<1>2. PICK next \in After : /\ \A y \in After : ~Before(layer, y, next)
                            /\ \A y \in After : ArmAt(layer, next).buckets[1] <= ArmAt(layer, y).buckets[1]
  BY <1>1, FirstClaim
<1>3. next \in Claims(layer) /\ Before(layer, c, next)
      /\ \A e \in Claims(layer) : ~(Before(layer, c, e) /\ Before(layer, e, next))
  BY <1>2 DEF After
<1>4. ArmAt(layer, next).buckets[1] > ArmAt(layer, c).buckets[2]
  BY <1>3 DEF BucketsApart, ClaimsApart
<1>5. ArmAt(layer, next).buckets[1] <= ArmAt(layer, d).buckets[1]
  BY <1>1, <1>2
<1>6. /\ ArmAt(layer, next).buckets[1] \in Nat /\ ArmAt(layer, d).buckets[1] \in Nat
      /\ ArmAt(layer, c).buckets[2] \in Nat
  BY <1>3, ClaimsAreRanges
<1> QED
  BY ONLY <1>4, <1>5, <1>6

\* So no bucket is claimed twice.
LEMMA ClaimedOnce ==
    ASSUME NEW layer, AuthoredLayer(layer), BucketsApart(layer),
           NEW c \in Claims(layer), NEW d \in Claims(layer), NEW bucket,
           bucket \in ArmAt(layer, c).buckets[1]..ArmAt(layer, c).buckets[2],
           bucket \in ArmAt(layer, d).buckets[1]..ArmAt(layer, d).buckets[2]
    PROVE  c = d
<1> DEFINE x == ArmAt(layer, c).buckets
           y == ArmAt(layer, d).buckets
<1>1. /\ x[1] \in Nat /\ x[2] \in Nat /\ y[1] \in Nat /\ y[2] \in Nat
      /\ c[1] \in Nat /\ c[2] \in Nat /\ d[1] \in Nat /\ d[2] \in Nat
      /\ c = <<c[1], c[2]>> /\ d = <<d[1], d[2]>>
  BY ClaimsAreRanges
<1>2. bucket \in x[1]..x[2] /\ bucket \in y[1]..y[2]
  OBVIOUS
<1>3. ~(y[1] > x[2]) /\ ~(x[1] > y[2])
  <2> HIDE DEF x, y
  <2> QED
    BY ONLY <1>1, <1>2
<1>4. ~Before(layer, c, d) /\ ~Before(layer, d, c)
  BY <1>3, LaterClaims
<1>5. c[1] = d[1] /\ c[2] = d[2]
  <2>1. ~(\/ x[1] < y[1]
          \/ x[1] = y[1] /\ x[2] < y[2]
          \/ x[1] = y[1] /\ x[2] = y[2] /\ c[1] < d[1]
          \/ x[1] = y[1] /\ x[2] = y[2] /\ c[1] = d[1] /\ c[2] < d[2])
    BY <1>4 DEF Before
  <2>2. ~(\/ y[1] < x[1]
          \/ y[1] = x[1] /\ y[2] < x[2]
          \/ y[1] = x[1] /\ y[2] = x[2] /\ d[1] < c[1]
          \/ y[1] = x[1] /\ y[2] = x[2] /\ d[1] = c[1] /\ d[2] < c[2])
    BY <1>4 DEF Before
  <2> HIDE DEF x, y
  <2> QED
    BY ONLY <1>1, <2>1, <2>2
<1> QED
  BY ONLY <1>1, <1>5

\* The arms of the allocation of a variable that the bucket of a context is in.
Hits(p, c, v) ==
    LET at == FindAllocation(p, v.resolve.assign.allocation)
        a == AllocationAt(p, at)
    IN  {i \in Positions(Arms(a)) :
           Bucket(p, c, at[1]) \in a.arms[i].buckets[1]..a.arms[i].buckets[2]}

\* Whoever is in an arm was found there by the bucket.
ArmsHit ==
    clean => \A id \in DOMAIN outcomes :
        outcomes[id].do = "choose" /\ Method(package.variables[id]) = "allocation" =>
            id \in Variables(package) /\ outcomes[id].by \in {0} \cup Hits(package, context, package.variables[id])

\* The allocation that a variable of a linted package consumes is there, and so are
\* its arms.
ArmsAreThere(p, named, at, a, layer) ==
    /\ at \in Allocations(p) /\ a.id = named
    /\ at[1] \in Positions(p.layers) /\ at[2] \in Positions(AllocationsOf(layer))
    /\ a # Malformed /\ a = layer.allocations[at[2]]
    /\ AuthoredLayer(layer) /\ BucketsApart(layer)
    /\ Arms(a) = a.arms /\ Listed(Arms(a))
    /\ \A i \in Positions(Arms(a)) : a.arms[i] # Malformed /\ a.arms[i].buckets # Malformed
LEMMA LintedAllocation ==
    ASSUME NEW p, Authored(p), Linted(p), NEW id \in Variables(p), Method(p.variables[id]) = "allocation",
           NEW named, named = p.variables[id].resolve.assign.allocation, NEW at, at = FindAllocation(p, named),
           NEW a, a = AllocationAt(p, at), NEW layer, layer = p.layers[at[1]]
    PROVE  ArmsAreThere(p, named, at, a, layer)
<1> DEFINE v == p.variables[id]
<1>1. LintVariableShape(p, v) /\ LintLayerShapes(p)
  BY DEF Linted, Variables
<1>2. LintResolveShape(p, v)
  BY <1>1 DEF LintVariableShape
<1>3. LintAllocationShape(p, v)
  BY <1>2 DEF LintResolveShape
<1>4. at \in Named(p, named)
  BY <1>3, FoundIsNamed DEF LintAllocationShape, Authored, AuthoredLayer
<1>5. at \in Allocations(p) /\ a # Malformed /\ a.id = named
  BY <1>4 DEF Named
<1>6. at[1] \in Positions(p.layers) /\ at[2] \in Positions(AllocationsOf(layer))
  BY <1>5 DEF Allocations
<1>7. layer \in Elements(p.layers)
  BY <1>6 DEF Positions, Elements
<1>8. AuthoredLayer(layer) /\ LintLayer(p, layer)
  BY <1>1, <1>7 DEF Authored, LintLayerShapes
<1>9. a \in Elements(layer.allocations) /\ a \in Elements(AllocationsOf(layer)) \ {Malformed}
  BY <1>5, <1>6, <1>8 DEF LintLayer, AllocationsOf, AllocationAt, Positions, Elements
<1>10. LintArms(layer, a) /\ BucketsApart(layer)
  BY <1>8, <1>9 DEF LintLayer
<1>11. Listed(Arms(a))
  BY <1>8, <1>9 DEF AuthoredLayer
<1>12. Arms(a) = a.arms
  BY <1>10 DEF LintArms, Arms
<1>13. \A i \in Positions(Arms(a)) : a.arms[i] # Malformed /\ a.arms[i].buckets # Malformed
  BY <1>10, <1>12 DEF LintArms, Positions, Elements
<1>14. a = layer.allocations[at[2]]
  BY DEF AllocationAt
<1> QED
  BY ONLY <1>5, <1>6, <1>8, <1>10, <1>11, <1>12, <1>13, <1>14 DEF ArmsAreThere

\* An allocation gives the default or an arm that the bucket is in.
LEMMA ArmIsHit ==
    ASSUME NEW p, Authored(p), Linted(p), NEW id \in Variables(p), Method(p.variables[id]) = "allocation",
           NEW c, NEW heard, NEW next, next = AskNext(p, c, id, heard), next.do = "choose"
    PROVE  next.by \in {0} \cup Hits(p, c, p.variables[id])
<1> DEFINE v == p.variables[id]
           at == FindAllocation(p, v.resolve.assign.allocation)
           a == AllocationAt(p, at)
           hit == {i \in Positions(Arms(a)) :
                     Bucket(p, c, at[1]) \in a.arms[i].buckets[1]..a.arms[i].buckets[2]}
           arm == CHOOSE i \in hit : \A j \in hit : i <= j
           value == (CHOOSE g \in Elements(Assigns(v)) : g.arm = a.arms[arm].name).value
           first == IF a.eligibility = None THEN 0 ELSE 1
<1>1. hit = Hits(p, c, v)
  BY DEF Hits
<1>2. hit \subseteq Nat
  <2>1. ArmsAreThere(p, v.resolve.assign.allocation, at, a, p.layers[at[1]])
    BY LintedAllocation
  <2>2. Listed(Arms(a))
    BY ONLY <2>1 DEF ArmsAreThere
  <2>3. Positions(Arms(a)) \subseteq Nat
    BY ONLY <2>2, Lists DEF Positions
  <2> QED
    BY <2>3
<1>3. hit # {} => arm \in hit
  <2>1. hit # {} => \E i \in hit : \A j \in hit : i <= j
    BY <1>2, Least
  <2> QED
    BY <2>1
<1>4. next = AskAllocation(p, c, v, heard)
  <2>1. id # Nobody
    BY DEF Authored
  <2> QED
    BY <2>1 DEF AskNext
<1>5. AskAllocation(p, c, v, heard) =
        IF a.status \notin {None, "running"} THEN Chosen(Default(v), 0)
        ELSE IF Len(heard) < first THEN Ask(a.eligibility, None, TRUE)
        ELSE IF first = 1 /\ heard[1] = Bool(FALSE) THEN Chosen(Default(v), 0)
        ELSE IF Len(heard) = first THEN Ask(p.layers[at[1]].unit, None, FALSE)
        ELSE IF hit = {} THEN Chosen(Default(v), 0)
        ELSE Chosen(Selected(v, value), arm)
  BY DEF AskAllocation
<1> HIDE DEF v, at, a, hit, arm, value, first
<1>6. \/ next = Chosen(Default(v), 0)
      \/ next = Ask(a.eligibility, None, TRUE)
      \/ next = Ask(p.layers[at[1]].unit, None, FALSE)
      \/ hit # {} /\ next = Chosen(Selected(v, value), arm)
  BY ONLY <1>4, <1>5
<1>7. next.by = 0 \/ (hit # {} /\ next.by = arm)
  <2>1. next.do = "choose"
    OBVIOUS
  <2> QED
    BY ONLY <1>6, <2>1 DEF Chosen, Ask
<1>8. next.by \in {0} \cup Hits(p, c, v)
  BY ONLY <1>1, <1>3, <1>7
<1> QED
  BY <1>8 DEF v

\* An outcome keeps the arms found by the bucket if its own was.
LEMMA ArmSettled ==
    ASSUME ArmsHit, UNCHANGED <<package, clean, context>>,
           NEW id, NEW outcome, outcomes' = With(outcomes, id, outcome),
           clean /\ outcome.do = "choose" /\ Method(package.variables[id]) = "allocation" =>
               id \in Variables(package) /\ outcome.by \in {0} \cup Hits(package, context, package.variables[id])
    PROVE  ArmsHit'
<1>1. /\ DOMAIN outcomes' = {id} \cup DOMAIN outcomes
      /\ outcomes'[id] = outcome
      /\ \A other \in DOMAIN outcomes : other # id => outcomes'[other] = outcomes[other]
  <2>1. outcomes' = With(outcomes, id, outcome)
    OBVIOUS
  <2> DEFINE f == With(outcomes, id, outcome)
  <2>2. /\ DOMAIN f = {id} \cup DOMAIN outcomes
        /\ f[id] = outcome
        /\ \A other \in DOMAIN outcomes : other # id => f[other] = outcomes[other]
    BY ONLY DEF With
  <2> HIDE DEF f
  <2> QED
    BY ONLY <2>1, <2>2 DEF f
<1>2. package' = package /\ clean' = clean /\ context' = context
  OBVIOUS
<1>3. ASSUME clean, NEW other \in DOMAIN outcomes', outcomes'[other].do = "choose",
             Method(package.variables[other]) = "allocation"
      PROVE  /\ other \in Variables(package)
             /\ outcomes'[other].by \in {0} \cup Hits(package, context, package.variables[other])
  <2>1. CASE other = id
    BY <1>1, <1>3, <2>1
  <2>2. CASE other # id
    BY <1>1, <1>3, <2>2 DEF ArmsHit
  <2> QED
    BY <2>1, <2>2
<1> QED
  BY <1>2, <1>3 DEF ArmsHit

\* An error chooses nothing.
LEMMA ThrowHits == ASSUME ArmsHit, NEW error, Throw(error), UNCHANGED <<package, clean, context>> PROVE ArmsHit'
<1>1. outcomes' = With(outcomes, Head(todo), Wrong(error))
  BY DEF Throw, Settle
<1>2. Wrong(error).do # "choose"
  BY DEF Wrong
<1> QED
  BY <1>1, <1>2, ArmSettled

\* A variable comes to its end.
LEMMA ReturnHits == ASSUME IInv, ArmsHit, Return PROVE ArmsHit'
<1>1. stack # << >> /\ Pending.do # "ask" /\ Keep
  BY DEF Return
<1>2. UNCHANGED <<package, clean, context>>
  BY <1>1 DEF Keep
<1>3. /\ mode \notin {"", "refused"} /\ Authored(package)
      /\ Len(stack) \in Nat \ {0} /\ stack[1].id \in {Nobody, Head(todo)}
  BY <1>1, Running
<1>4. Top.id # Nobody => Top.id \in Variables(package)
  BY <1>1, TopHolds
<1>5. CASE Pending.do = "fail"
  <2>1. Throw(Pending.error)
    BY <1>5 DEF Return
  <2> QED
    BY <1>2, <2>1, ThrowHits
<1>6. CASE outcomes' = outcomes
  BY <1>2, <1>6 DEF ArmsHit
<1>7. CASE Pending.do # "fail" /\ outcomes' # outcomes
  <2>1. ~(Len(stack) > 1) /\ Top.id # Nobody
    BY <1>7 DEF Return
  <2>2. outcomes' = With(outcomes, Top.id, Pending)
    <3>1. outcomes' = With(outcomes, Top.id, Pending) \/ Settle(Pending)
      BY <1>7, <2>1 DEF Return
    <3>2. Top.id = Head(todo)
      <4>1. Len(stack) = 1
        <5>1. Len(stack) \in Nat \ {0} /\ ~(Len(stack) > 1)
          BY <1>3, <2>1
        <5>2. PICK depth : depth = Len(stack)
          OBVIOUS
        <5>3. depth = 1
          BY ONLY <5>1, <5>2
        <5> QED
          BY ONLY <5>2, <5>3
      <4> QED
        BY <1>3, <2>1, <4>1 DEF Top
    <3> QED
      BY <3>1, <3>2 DEF Settle
  <2>3. ASSUME clean, Pending.do = "choose", Method(package.variables[Top.id]) = "allocation"
        PROVE  Top.id \in Variables(package)
               /\ Pending.by \in {0} \cup Hits(package, context, package.variables[Top.id])
    <3>1. Linted(package)
      BY <1>3, <2>3 DEF IInv, Loaded
    <3>2. Pending = AskNext(package, context, Top.id, Top.results)
      BY DEF Pending
    <3> QED
      BY <1>3, <1>4, <2>1, <2>3, <3>1, <3>2, ArmIsHit
  <2> QED
    BY <1>2, <2>2, <2>3, ArmSettled
<1> QED
  BY <1>5, <1>6, <1>7

\* Arms are found by the bucket all along.
LEMMA HitsInvariance == Spec => [](IInv /\ ArmsHit)
<1>1. Init => ArmsHit
  BY DEF Init, ArmsHit
<1>2. IInv /\ ArmsHit /\ [Next]_vars => ArmsHit'
  <2> SUFFICES ASSUME IInv, ArmsHit, [Next]_vars
               PROVE  ArmsHit'
    OBVIOUS
  <2>1. ASSUME UNCHANGED <<package, clean, context, outcomes>>
        PROVE  ArmsHit'
    BY <2>1 DEF ArmsHit
  <2>2. ASSUME outcomes' = << >>
        PROVE  ArmsHit'
    BY <2>2 DEF ArmsHit
  <2>3. CASE UNCHANGED vars
    BY <2>1, <2>3 DEF vars
  <2>4. ASSUME NEW p \in Packages, package = None, Load(p)
        PROVE  ArmsHit'
    <3>1. outcomes = << >> /\ outcomes' = outcomes
      BY <2>4 DEF IInv, Loaded, Load
    <3> QED
      BY <2>2, <3>1
  <2>5. ASSUME NEW m, NEW ids, NEW c, Start(m, ids, c)
        PROVE  ArmsHit'
    <3>1. outcomes = << >> /\ outcomes' = outcomes
      BY <2>5 DEF IInv, Loaded, Start
    <3> QED
      BY <2>2, <3>1
  <2>6. CASE Tick
    BY <2>1, <2>6 DEF Tick
  <2>7. CASE Call
    BY <2>1, <2>7, ThrowHits DEF Call, Keep
  <2>8. CASE ReadCached
    BY <2>1, <2>8 DEF ReadCached, Keep
  <2>9. CASE ReadResolving
    BY <2>1, <2>9, ThrowHits DEF ReadResolving, Keep
  <2>10. CASE EvaluateTop
    BY <2>1, <2>10, ThrowHits DEF EvaluateTop, Keep
  <2>11. CASE Return
    BY <2>11, ReturnHits
  <2> QED
    BY <2>3, <2>4, <2>5, <2>6, <2>7, <2>8, <2>9, <2>10, <2>11 DEF Next
<1> QED
  BY <1>1, <1>2, Invariance, PTL DEF Spec

\* Two arms that one bucket is in are one arm.
LEMMA OneArmHolds == IInv /\ ArmsHit => OneArmPerLayer
<1> SUFFICES ASSUME IInv, ArmsHit, clean,
                    NEW id \in DOMAIN outcomes, NEW other \in DOMAIN outcomes,
                    outcomes[id].do = "choose", outcomes[other].do = "choose",
                    Method(package.variables[id]) = "allocation", Method(package.variables[other]) = "allocation",
                    outcomes[id].by > 0, outcomes[other].by > 0,
                    FindAllocation(package, package.variables[id].resolve.assign.allocation)[1]
                      = FindAllocation(package, package.variables[other].resolve.assign.allocation)[1]
             PROVE  /\ package.variables[id].resolve.assign.allocation
                         = package.variables[other].resolve.assign.allocation
                    /\ outcomes[id].by = outcomes[other].by
  BY DEF OneArmPerLayer
<1> DEFINE Found(x) == FindAllocation(package, package.variables[x].resolve.assign.allocation)
           Place(x) == <<Found(x)[2], outcomes[x].by>>
           layer == package.layers[Found(id)[1]]
           bucket == Bucket(package, context, Found(id)[1])
<1>1. Authored(package) /\ Linted(package)
  <2>1. package # None
    <3>1. package = None => outcomes = << >>
      BY DEF IInv, Loaded
    <3>2. outcomes # << >>
      OBVIOUS
    <3> QED
      BY ONLY <3>1, <3>2
  <2> QED
    BY <2>1, PackagesAssumption DEF IInv, Loaded
<1>2. Found(other)[1] = Found(id)[1]
  OBVIOUS
<1>3. ASSUME NEW x \in {id, other}
      PROVE  /\ Place(x) \in Claims(layer)
             /\ bucket \in ArmAt(layer, Place(x)).buckets[1]..ArmAt(layer, Place(x)).buckets[2]
             /\ AllocationAt(package, Found(x)).id = package.variables[x].resolve.assign.allocation
             /\ AuthoredLayer(layer) /\ BucketsApart(layer)
  <2> DEFINE at == Found(x)
             a == AllocationAt(package, at)
             by == outcomes[x].by
  <2>1. x \in Variables(package) /\ by \in Hits(package, context, package.variables[x])
        /\ Method(package.variables[x]) = "allocation"
    BY DEF ArmsHit
  <2>2. /\ a.id = package.variables[x].resolve.assign.allocation
        /\ at[1] = Found(id)[1] /\ at[2] \in Positions(AllocationsOf(layer))
        /\ a # Malformed /\ a = layer.allocations[at[2]]
        /\ AuthoredLayer(layer) /\ BucketsApart(layer)
        /\ Arms(a) = a.arms
        /\ \A i \in Positions(Arms(a)) : a.arms[i] # Malformed /\ a.arms[i].buckets # Malformed
    <3>1. PICK p, named : p = package /\ named = package.variables[x].resolve.assign.allocation
      OBVIOUS
    <3>2. Authored(p) /\ Linted(p) /\ x \in Variables(p) /\ Method(p.variables[x]) = "allocation"
      BY ONLY <1>1, <2>1, <3>1
    <3>3. PICK to, b, l : to = FindAllocation(p, named) /\ b = AllocationAt(p, to) /\ l = p.layers[to[1]]
      OBVIOUS
    <3>4. ArmsAreThere(p, named, to, b, l)
      BY ONLY <3>1, <3>2, <3>3, LintedAllocation
    <3>5. at = to /\ a = b
      BY ONLY <3>1, <3>3
    <3>6. at[1] = Found(id)[1]
      BY <1>2
    <3>7. layer = l
      BY ONLY <3>1, <3>3, <3>5, <3>6
    <3> HIDE DEF at, a, layer
    <3> QED
      BY ONLY <3>1, <3>4, <3>5, <3>6, <3>7 DEF ArmsAreThere
  <2>3. by \in Positions(Arms(a)) /\ bucket \in a.arms[by].buckets[1]..a.arms[by].buckets[2]
    BY <2>1, <2>2 DEF Hits
  <2>4. ArmAt(layer, Place(x)) = a.arms[by]
    BY <2>2 DEF ArmAt
  <2>5. Place(x) \in Claims(layer)
    <3>1. Place(x) \in {at[2]} \X Positions(Arms(layer.allocations[at[2]]))
      BY <2>2, <2>3
    <3>2. at[2] \in {i \in Positions(AllocationsOf(layer)) : layer.allocations[i] # Malformed}
      BY <2>2
    <3>3. ArmAt(layer, Place(x)) # Malformed /\ ArmAt(layer, Place(x)).buckets # Malformed
      BY <2>2, <2>3, <2>4
    <3> HIDE DEF Place, at, layer
    <3> QED
      BY <3>1, <3>2, <3>3 DEF Claims
  <2> QED
    BY <2>2, <2>3, <2>4, <2>5
<1>4. Place(id) = Place(other)
  BY <1>3, ClaimedOnce
<1>5. Found(id)[2] = Found(other)[2] /\ outcomes[id].by = outcomes[other].by
  BY <1>4
<1>6. AllocationAt(package, Found(id)) = AllocationAt(package, Found(other))
  BY <1>2, <1>5 DEF AllocationAt
<1>7. AllocationAt(package, Found(id)).id = package.variables[id].resolve.assign.allocation
      /\ AllocationAt(package, Found(other)).id = package.variables[other].resolve.assign.allocation
  BY <1>3
<1> QED
  BY <1>5, <1>6, <1>7

-----------------------------------------------------------------------------
\* What holds of zero, and of the next of a number it holds of, holds of all.
LEMMA Inductive ==
    ASSUME NEW S, 0 \in S, \A n \in Nat : n \in S => n + 1 \in S
    PROVE  \A n \in Nat : n \in S
<1> DEFINE Out == {n \in Nat : n \notin S}
<1>1. SUFFICES ASSUME Out # {} PROVE FALSE
  OBVIOUS
<1>2. PICK m \in Out : \A k \in Out : m <= k
  <2>1. Out \subseteq Nat
    OBVIOUS
  <2> HIDE DEF Out
  <2> QED
    BY <1>1, <2>1, Least
<1>3. m \in Nat /\ m # 0
  OBVIOUS
<1>4. m - 1 \in Nat /\ (m - 1) + 1 = m /\ ~(m <= m - 1)
  BY ONLY <1>3
<1>5. m - 1 \in S
  BY <1>2, <1>4
<1> QED
  BY <1>4, <1>5

-----------------------------------------------------------------------------
(* The recursions of the meaning, as their definitions say.                  *)

\* Nothing has been asked, and no reference followed.
Bottom == Wrong("cycle")
Nowhere(p) == [id \in Variables(p) |-> Bottom]
Outset == [do |-> "go on", results |-> << >>]

\* One reference more of a path from an entry.
Climbing(p, path) ==
    IF path = << >> THEN << >>
    ELSE LET to == p.catalogs[End(path)[1]][End(path)[2]].ref
         IN  IF to # None /\ to \notin Elements(path) /\ to[2] \in EntriesOf(p, to[1])
             THEN Append(path, to) ELSE << >>

\* What each of them starts from, and what a step of theirs makes of what there is.
Begin(s) ==
    IF s.of = "asking" THEN Outset ELSE IF s.of = "climbing" THEN <<s.at>> ELSE Nowhere(s.p)
Go(s, x) ==
    IF s.of = "asking" THEN Further(s.p, s.c, s.time, s.id, s.meaning, s.target, x)
    ELSE IF s.of = "climbing" THEN Climbing(s.p, x)
    ELSE [id \in Variables(s.p) |-> Meant(s.p, s.c, s.time, id, x, Nobody)]

\* One of them, down to some step.
Upto(s, n, f) == f = [i \in 0..n |-> IF i = 0 THEN Begin(s) ELSE Go(s, f[i - 1])]

\* What such a function says.
LEMMA UptoValues ==
    ASSUME NEW s, NEW n \in Nat, NEW f, Upto(s, n, f)
    PROVE  f[0] = Begin(s) /\ \A i \in 1..n : f[i] = Go(s, f[i - 1])
<1> DEFINE Entry(i) == IF i = 0 THEN Begin(s) ELSE Go(s, f[i - 1])
<1>1. f = [i \in 0..n |-> Entry(i)]
  BY DEF Upto
<1>2. \A i \in 0..n : f[i] = Entry(i)
  <2> HIDE DEF Entry
  <2> QED
    BY <1>1
<1> QED
  BY <1>2

\* Two of them agree where both are defined.
LEMMA UptoAgree ==
    ASSUME NEW s, NEW n \in Nat, NEW m \in Nat, n <= m, NEW f, NEW g, Upto(s, n, f), Upto(s, m, g), NEW i \in 0..n
    PROVE  f[i] = g[i]
<1> DEFINE Differ == {j \in 0..n : f[j] # g[j]}
<1>1. SUFFICES ASSUME Differ # {} PROVE FALSE
  OBVIOUS
<1>2. PICK j \in Differ : \A k \in Differ : j <= k
  <2>1. Differ \subseteq Nat
    OBVIOUS
  <2> HIDE DEF Differ
  <2> QED
    BY <1>1, <2>1, Least
<1>3. j \in 0..n /\ j # 0
  BY UptoValues
<1>4. f[j - 1] = g[j - 1]
  BY <1>2, <1>3
<1>5. f[j] = Go(s, f[j - 1]) /\ g[j] = Go(s, g[j - 1])
  BY <1>3, UptoValues
<1> QED
  BY <1>2, <1>4, <1>5

\* There is one down to any step.
LEMMA UptoIs == ASSUME NEW s, NEW n \in Nat PROVE \E f : Upto(s, n, f)
<1> DEFINE Without == {m \in Nat : ~ \E f : Upto(s, m, f)}
<1>1. SUFFICES ASSUME Without # {} PROVE FALSE
  OBVIOUS
<1>2. PICK m \in Without : \A k \in Without : m <= k
  <2>1. Without \subseteq Nat
    OBVIOUS
  <2> HIDE DEF Without
  <2> QED
    BY <1>1, <2>1, Least
<1>3. m # 0
  <2> DEFINE f == [i \in 0..0 |-> Begin(s)]
  <2>1. f = [i \in 0..0 |-> IF i = 0 THEN Begin(s) ELSE Go(s, f[i - 1])]
    OBVIOUS
  <2> HIDE DEF f
  <2>2. Upto(s, 0, f)
    BY <2>1 DEF Upto
  <2> QED
    BY <2>2
<1>4. PICK f : Upto(s, m - 1, f)
  BY <1>2, <1>3
<1> DEFINE g == [i \in 0..m |-> IF i = m THEN Go(s, f[m - 1]) ELSE f[i]]
<1>5. ASSUME NEW i \in 0..m PROVE g[i] = IF i = 0 THEN Begin(s) ELSE Go(s, g[i - 1])
  <2>1. f[0] = Begin(s) /\ \A j \in 1..m - 1 : f[j] = Go(s, f[j - 1])
    BY <1>3, <1>4, UptoValues
  <2> QED
    BY <1>3, <2>1
<1>6. g = [i \in 0..m |-> g[i]]
  OBVIOUS
<1> HIDE DEF g
<1>7. g = [i \in 0..m |-> IF i = 0 THEN Begin(s) ELSE Go(s, g[i - 1])]
  BY <1>5, <1>6
<1>8. Upto(s, m, g)
  BY <1>7 DEF Upto
<1> QED
  BY <1>8

\* So there is the whole of it.
LEMMA Recursion == ASSUME NEW s PROVE \E f : f = [n \in Nat |-> IF n = 0 THEN Begin(s) ELSE Go(s, f[n - 1])]
<1> DEFINE To(n) == CHOOSE f : Upto(s, n, f)
           whole == [n \in Nat |-> To(n)[n]]
<1>1. \A n \in Nat : Upto(s, n, To(n))
  BY UptoIs
<1> HIDE DEF To
<1>2. ASSUME NEW n \in Nat PROVE whole[n] = IF n = 0 THEN Begin(s) ELSE Go(s, whole[n - 1])
  <2>1. CASE n = 0
    BY <1>1, <2>1, UptoValues
  <2>2. CASE n # 0
    <3>1. To(n)[n] = Go(s, To(n)[n - 1])
      BY <1>1, <2>2, UptoValues
    <3>2. To(n - 1)[n - 1] = To(n)[n - 1]
      BY <1>1, <2>2, UptoAgree
    <3> QED
      BY <2>2, <3>1, <3>2
  <2> QED
    BY <2>1, <2>2
<1>3. whole = [n \in Nat |-> whole[n]]
  OBVIOUS
<1> HIDE DEF whole
<1>4. whole = [n \in Nat |-> IF n = 0 THEN Begin(s) ELSE Go(s, whole[n - 1])]
  BY <1>2, <1>3
<1> QED
  BY <1>4

\* One expression more, said in two steps: what is asked, and what comes of it.
LEMMA FurtherIs ==
    ASSUME NEW p, NEW c, NEW time, NEW id, NEW meaning, NEW target, NEW far
    PROVE  Further(p, c, time, id, meaning, target, far) =
             (LET ask == AskNext(p, c, id, far.results)
              IN  IF far.do # "go on" THEN far
                  ELSE IF ask.do = "ask" THEN Heard(p, c, time, meaning, target, far.results, ask) ELSE ask)
<1> DEFINE come(ask) == IF ask.do = "ask" THEN Heard(p, c, time, meaning, target, far.results, ask) ELSE ask
<1>1. \A x, y : y \in {come(ask) : ask \in {x}} <=> y = come(x)
  OBVIOUS
<1> HIDE DEF come
<1>2. \A x : The({come(ask) : ask \in {x}}) = come(x)
  BY <1>1 DEF The
<1>3. The({come(ask) : ask \in {AskNext(p, c, id, far.results)}}) = come(AskNext(p, c, id, far.results))
  BY <1>2
<1>4. Further(p, c, time, id, meaning, target, far) =
        IF far.do # "go on" THEN far ELSE The({come(ask) : ask \in {AskNext(p, c, id, far.results)}})
  BY DEF Further, come
<1> QED
  BY <1>3, <1>4 DEF come

\* Asking goes on one expression at a time.
LEMMA AskingIs ==
    ASSUME NEW p, NEW c, NEW time, NEW id, NEW meaning, NEW target, NEW asked,
           asked = Asking(p, c, time, id, meaning, target)
    PROVE  /\ asked[0] = Outset
           /\ \A n \in Nat : asked[n + 1] = Further(p, c, time, id, meaning, target, asked[n])
<1> DEFINE s == [of |-> "asking", p |-> p, c |-> c, time |-> time, id |-> id, meaning |-> meaning, target |-> target]
           Entry(f, n) == IF n = 0 THEN Outset
                          ELSE Further(p, c, time, id, meaning, target, f[n - 1])
<1>1. Begin(s) = Outset
  BY DEF Begin
<1>2. \A x : Go(s, x) = Further(p, c, time, id, meaning, target, x)
  BY DEF Go
<1> HIDE DEF s
<1>3. PICK f : f = [n \in Nat |-> IF n = 0 THEN Begin(s) ELSE Go(s, f[n - 1])]
  BY Recursion
<1>4. f = [n \in Nat |-> Entry(f, n)]
  BY <1>1, <1>2, <1>3
<1>5. asked = CHOOSE g : g = [n \in Nat |-> Entry(g, n)]
  BY DEF Asking, Outset
<1> HIDE DEF Entry
<1>6. asked = [n \in Nat |-> Entry(asked, n)]
  BY ONLY <1>4, <1>5
<1>7. \A n \in Nat : asked[n] = Entry(asked, n)
  BY ONLY <1>6
<1>8. 0 \in Nat /\ \A n \in Nat : n + 1 \in Nat /\ n + 1 # 0 /\ (n + 1) - 1 = n
  OBVIOUS
<1>9. ASSUME NEW n \in Nat PROVE asked[n + 1] = Further(p, c, time, id, meaning, target, asked[n])
  <2>1. asked[n + 1] = Entry(asked, n + 1)
    BY ONLY <1>7, <1>8
  <2>2. Entry(asked, n + 1) = Further(p, c, time, id, meaning, target, asked[(n + 1) - 1])
    BY ONLY <1>8 DEF Entry
  <2> QED
    BY ONLY <1>8, <2>1, <2>2
<1>10. asked[0] = Entry(asked, 0)
  BY ONLY <1>7, <1>8
<1> QED
  BY ONLY <1>9, <1>10 DEF Entry

\* References followed once more.
Follows(p, c, time, meaning) == [id \in Variables(p) |-> Meant(p, c, time, id, meaning, Nobody)]

\* The meanings, one after the other.
LEMMA FollowingIs ==
    ASSUME NEW p, NEW c, NEW time, NEW followed, followed = Following(p, c, time)
    PROVE  /\ followed[0] = Nowhere(p)
           /\ \A n \in Nat : followed[n + 1] = Follows(p, c, time, followed[n])
<1> DEFINE s == [of |-> "following", p |-> p, c |-> c, time |-> time]
           Entry(f, n) == IF n = 0 THEN Nowhere(p)
                          ELSE Follows(p, c, time, f[n - 1])
<1>1. Begin(s) = Nowhere(p)
  BY DEF Begin
<1>2. \A x : Go(s, x) = Follows(p, c, time, x)
  BY DEF Go, Follows
<1> HIDE DEF s
<1>3. PICK f : f = [n \in Nat |-> IF n = 0 THEN Begin(s) ELSE Go(s, f[n - 1])]
  BY Recursion
<1>4. f = [n \in Nat |-> Entry(f, n)]
  BY <1>1, <1>2, <1>3
<1>5. followed = CHOOSE g : g = [n \in Nat |-> Entry(g, n)]
  BY DEF Following, Follows, Nowhere, Bottom
<1> HIDE DEF Entry
<1>6. followed = [n \in Nat |-> Entry(followed, n)]
  BY ONLY <1>4, <1>5
<1>7. \A n \in Nat : followed[n] = Entry(followed, n)
  BY ONLY <1>6
<1>8. 0 \in Nat /\ \A n \in Nat : n + 1 \in Nat /\ n + 1 # 0 /\ (n + 1) - 1 = n
  OBVIOUS
<1>9. ASSUME NEW n \in Nat
      PROVE  followed[n + 1] = Follows(p, c, time, followed[n])
  <2>1. followed[n + 1] = Entry(followed, n + 1)
    BY ONLY <1>7, <1>8
  <2>2. Entry(followed, n + 1) = Follows(p, c, time, followed[(n + 1) - 1])
    BY ONLY <1>8 DEF Entry
  <2> QED
    BY ONLY <1>8, <2>1, <2>2
<1>10. followed[0] = Entry(followed, 0)
  BY ONLY <1>7, <1>8
<1> QED
  BY ONLY <1>9, <1>10 DEF Entry

-----------------------------------------------------------------------------
(* Knowing the meaning of more variables.                                    *)

\* What comes out of less says nothing else, but that it did not come to anything.
NoMore(x, y) == x = Bottom \/ x = y
Less(meaning, more) == \A x : NoMore(Known(meaning, x), Known(more, x))

\* The least of some numbers is the only one.
LEMMA LeastIs ==
    ASSUME NEW S, S \subseteq Nat, NEW x \in S, \A y \in S : x <= y
    PROVE  (CHOOSE z \in S : \A y \in S : z <= y) = x
<1>1. \A z \in S : (\A y \in S : z <= y) => z = x
  BY SMT
<1> QED
  BY <1>1

\* What is bound of the variables that are read, if none of them fails, and what
\* comes of it.
Binds(bound, meaning, reads) ==
    /\ \A x \in reads : Known(meaning, x).do # "fail"
    /\ bound = [x \in reads |-> Known(meaning, x).value]
Says(value, p, c, time, ask, bound, target) ==
    value = Answer(ask, Evaluate(p, c, time, ask.expression, bound, ask.at, target))
Hearing(results, value) ==
    IF value = Fails THEN Wrong("evaluation") ELSE [do |-> "go on", results |-> Append(results, value)]

\* The first variable that fails is what is heard,
LEMMA HeardWrong ==
    ASSUME NEW p, NEW c, NEW time, NEW meaning, NEW target, NEW results, NEW ask,
           Reads(ask.expression) \subseteq Nat,
           NEW w \in Reads(ask.expression), Known(meaning, w).do = "fail",
           \A y \in Reads(ask.expression) : Known(meaning, y).do = "fail" => w <= y
    PROVE  Heard(p, c, time, meaning, target, results, ask) = Known(meaning, w)
<1> DEFINE wrong == {x \in Reads(ask.expression) : Known(meaning, x).do = "fail"}
           first == CHOOSE x \in wrong : \A y \in wrong : x <= y
<1>1. wrong \subseteq Nat /\ w \in wrong /\ \A y \in wrong : w <= y
  OBVIOUS
<1>2. Heard(p, c, time, meaning, target, results, ask) = Known(meaning, first)
  BY <1>1 DEF Heard
<1>3. first = w
  <2> HIDE DEF wrong
  <2> QED
    BY <1>1, LeastIs
<1> QED
  BY <1>2, <1>3

\* or it is the answer, over what the variables come to.
LEMMA HeardRight ==
    ASSUME NEW p, NEW c, NEW time, NEW meaning, NEW target, NEW results, NEW ask,
           NEW bound, Binds(bound, meaning, Reads(ask.expression)),
           NEW value, Says(value, p, c, time, ask, bound, target)
    PROVE  Heard(p, c, time, meaning, target, results, ask) = Hearing(results, value)
<1>1. {x \in Reads(ask.expression) : Known(meaning, x).do = "fail"} = {}
  BY DEF Binds
<1> QED
  BY <1>1 DEF Heard, Binds, Says, Hearing

\* An expression heard by who knows less.
LEMMA HeardGrows ==
    ASSUME NEW p, NEW c, NEW time, NEW meaning, NEW more, Less(meaning, more), NEW target, NEW results, NEW ask,
           Reads(ask.expression) \subseteq Nat
    PROVE  NoMore(Heard(p, c, time, meaning, target, results, ask), Heard(p, c, time, more, target, results, ask))
<1> DEFINE reads == Reads(ask.expression)
           wrong == {x \in reads : Known(meaning, x).do = "fail"}
           heard == Heard(p, c, time, meaning, target, results, ask)
           other == Heard(p, c, time, more, target, results, ask)
<1>1. \A x : Known(meaning, x) = Bottom \/ Known(meaning, x) = Known(more, x)
  BY DEF Less, NoMore
<1>2. Bottom.do = "fail"
  BY DEF Bottom, Wrong
<1>3. CASE wrong = {}
  <2>1. \A x \in reads : Known(meaning, x).do # "fail"
    BY <1>3
  <2>2. \A x \in reads : Known(meaning, x) = Known(more, x)
    BY <1>1, <1>2, <2>1
  <2>3. PICK bound : Binds(bound, meaning, reads)
    BY <2>1 DEF Binds
  <2>4. Binds(bound, more, reads)
    BY <2>2, <2>3 DEF Binds
  <2>5. PICK value : Says(value, p, c, time, ask, bound, target)
    BY DEF Says
  <2>6. heard = Hearing(results, value)
    BY <2>3, <2>5, HeardRight
  <2>7. other = Hearing(results, value)
    BY <2>4, <2>5, HeardRight
  <2> QED
    BY ONLY <2>6, <2>7 DEF NoMore
<1>4. CASE wrong # {}
  <2>1. PICK w \in wrong : \A y \in wrong : w <= y
    <3>1. wrong \subseteq Nat
      OBVIOUS
    <3> HIDE DEF wrong
    <3> QED
      BY <1>4, <3>1, Least
  <2>2. w \in reads /\ Known(meaning, w).do = "fail" /\ \A y \in reads : Known(meaning, y).do = "fail" => w <= y
    BY <2>1
  <2>3. reads \subseteq Nat
    OBVIOUS
  <2>4. heard = Known(meaning, w)
    BY ONLY <2>2, <2>3, HeardWrong
  <2>5. ASSUME Known(meaning, w) # Bottom
        PROVE  other = Known(meaning, w)
    <3>1. Known(meaning, w) = Known(more, w)
      BY <1>1, <2>5
    <3>2. Known(more, w).do = "fail" /\ \A y \in reads : Known(more, y).do = "fail" => w <= y
      BY <1>1, <1>2, <2>2, <3>1
    <3>3. other = Known(more, w)
      BY ONLY <2>2, <2>3, <3>2, HeardWrong
    <3> QED
      BY <3>1, <3>3
  <2> QED
    BY <2>4, <2>5 DEF NoMore
<1> QED
  BY <1>3, <1>4

\* A resolution asks, chooses or fails.
LEMMA AskEnds ==
    ASSUME NEW p, Authored(p), NEW c, NEW id \in Variables(p), NEW heard, Listed(heard),
           NEW next, next = AskNext(p, c, id, heard)
    PROVE  next.do \in {"ask", "choose", "fail"}
<1> DEFINE v == p.variables[id]
<1>1. id # Nobody
  BY DEF Authored
<1>2. CASE Method(v) = "rules"
  <2>1. next = AskRules(v, heard) /\ Listed(heard)
    BY <1>1, <1>2 DEF AskNext
  <2>2. next.do = "choose" \/ \E e : next = Ask(e, None, TRUE)
    BY ONLY <2>1, RulesAsk
  <2>3. (\E e : next = Ask(e, None, TRUE)) => next.do = "ask"
    BY ONLY DEF Ask
  <2> QED
    BY ONLY <2>2, <2>3
<1>3. CASE Method(v) = "query"
  <2>1. next = AskQuery(p, v, heard)
    BY <1>1, <1>3 DEF AskNext
  <2>2. next.do = "ask" \/ next.do = "choose" \/ next.do = "fail"
    BY <2>1, QueryAsks
  <2> QED
    BY ONLY <2>2
<1>4. CASE Method(v) \notin {"rules", "query"}
  <2>1. next = AskAllocation(p, c, v, heard)
    BY <1>1, <1>4 DEF AskNext
  <2>2. next.do = "ask" \/ next.do = "choose"
    BY <2>1, AllocationAsks
  <2> QED
    BY ONLY <2>2
<1> QED
  BY <1>2, <1>3, <1>4

\* What goes on is a list.
LEMMA HeardListed ==
    ASSUME NEW p, NEW c, NEW time, NEW meaning, NEW target, NEW results, Listed(results),
           NEW ask, Reads(ask.expression) \subseteq Nat,
           NEW next, next = Heard(p, c, time, meaning, target, results, ask), next.do = "go on"
    PROVE  Listed(next.results)
<1>1. CASE \E y \in Reads(ask.expression) : Known(meaning, y).do = "fail"
  <2> DEFINE wrong == {x \in Reads(ask.expression) : Known(meaning, x).do = "fail"}
  <2>1. PICK w \in wrong : \A y \in wrong : w <= y
    <3>1. wrong \subseteq Nat /\ wrong # {}
      BY <1>1
    <3> HIDE DEF wrong
    <3> QED
      BY <3>1, Least
  <2>2. /\ w \in Reads(ask.expression) /\ Known(meaning, w).do = "fail"
        /\ \A y \in Reads(ask.expression) : Known(meaning, y).do = "fail" => w <= y
    BY <2>1
  <2>3. next = Heard(p, c, time, meaning, target, results, ask) /\ Reads(ask.expression) \subseteq Nat
    OBVIOUS
  <2>4. next = Known(meaning, w)
    BY ONLY <2>2, <2>3, HeardWrong
  <2> QED
    BY <2>2, <2>4
<1>2. CASE \A y \in Reads(ask.expression) : Known(meaning, y).do # "fail"
  <2>1. PICK bound : Binds(bound, meaning, Reads(ask.expression))
    BY <1>2 DEF Binds
  <2>2. PICK value : Says(value, p, c, time, ask, bound, target)
    BY DEF Says
  <2>3. next = Hearing(results, value)
    <3>1. next = Heard(p, c, time, meaning, target, results, ask)
      OBVIOUS
    <3> QED
      BY ONLY <2>1, <2>2, <3>1, HeardRight
  <2>4. value # Fails
    <3>1. Wrong("evaluation").do = "fail"
      BY ONLY DEF Wrong
    <3> QED
      BY <2>3, <3>1 DEF Hearing
  <2>5. next.results = Append(results, value)
    <3>1. next = [do |-> "go on", results |-> Append(results, value)]
      BY ONLY <2>3, <2>4 DEF Hearing
    <3> QED
      BY ONLY <3>1
  <2>6. Listed(Append(results, value))
    BY Appended
  <2> QED
    BY <2>5, <2>6
<1> QED
  BY <1>1, <1>2

\* One that goes on has heard a list.
LEMMA AskingListed ==
    ASSUME NEW p, Authored(p), Compiles(p), NEW c, NEW time, NEW id \in Variables(p), NEW meaning, NEW target,
           NEW asked, asked = Asking(p, c, time, id, meaning, target)
    PROVE  \A n \in Nat : asked[n].do = "go on" => Listed(asked[n].results)
<1> DEFINE Fine(far) == far.do = "go on" => Listed(far.results)
           Good == {n \in Nat : Fine(asked[n])}
<1>1. asked = Asking(p, c, time, id, meaning, target)
  OBVIOUS
<1>2. asked[0] = Outset
  BY ONLY <1>1, AskingIs
<1>3. \A n \in Nat : asked[n + 1] = Further(p, c, time, id, meaning, target, asked[n])
  BY ONLY <1>1, AskingIs
<1>4. 0 \in Good
  <2>1. Outset.results = << >>
    BY ONLY DEF Outset
  <2> QED
    BY <1>2, <2>1, Nothing
<1>5. ASSUME NEW n \in Nat, n \in Good
      PROVE  n + 1 \in Good
  <2>1. PICK far : far = asked[n]
    OBVIOUS
  <2>2. PICK next : next = asked[n + 1]
    OBVIOUS
  <2>3. PICK ask : ask = AskNext(p, c, id, far.results)
    OBVIOUS
  <2>4. next = Further(p, c, time, id, meaning, target, far)
    BY ONLY <1>3, <2>1, <2>2
  <2>5. far.do = "go on" => Listed(far.results)
    BY <1>5, <2>1
  <2>6. ASSUME far.do # "go on" PROVE Fine(next)
    <3>1. next = far
      BY ONLY <2>4, <2>6, FurtherIs
    <3> QED
      BY ONLY <2>6, <3>1
  <2>7. ASSUME far.do = "go on" /\ ask.do # "ask" PROVE Fine(next)
    <3>1. next = ask
      BY ONLY <2>3, <2>4, <2>7, FurtherIs
    <3>2. ask.do # "go on"
      BY <2>3, <2>5, <2>7, AskEnds
    <3> QED
      BY ONLY <3>1, <3>2
  <2>8. ASSUME far.do = "go on" /\ ask.do = "ask" PROVE Fine(next)
    <3>1. next = Heard(p, c, time, meaning, target, far.results, ask)
      BY ONLY <2>3, <2>4, <2>8, FurtherIs
    <3>2. Listed(far.results)
      BY <2>5, <2>8
    <3>3. Reads(ask.expression) \subseteq Nat
      BY <2>3, <2>8, <3>2, AskedIsCounted
    <3>4. next.do = "go on" => Listed(next.results)
      BY <3>1, <3>2, <3>3, HeardListed
    <3> QED
      BY <3>4
  <2>9. Fine(next)
    BY <2>6, <2>7, <2>8
  <2> HIDE DEF Fine
  <2> QED
    BY <2>2, <2>9
<1>6. \A n \in Nat : n \in Good
  <2> HIDE DEF Good
  <2> QED
    BY <1>4, <1>5, Inductive
<1> QED
  BY <1>6

\* A resolution in which less is known says the same, or comes to nothing.
LEMMA AskingGrows ==
    ASSUME NEW p, Authored(p), Compiles(p), NEW c, NEW time, NEW id \in Variables(p), NEW target,
           NEW meaning, NEW more, Less(meaning, more),
           NEW asked, asked = Asking(p, c, time, id, meaning, target),
           NEW other, other = Asking(p, c, time, id, more, target)
    PROVE  \A n \in Nat : NoMore(asked[n], other[n])
<1> DEFINE Good == {n \in Nat : NoMore(asked[n], other[n])}
<1>1. asked = Asking(p, c, time, id, meaning, target) /\ other = Asking(p, c, time, id, more, target)
  OBVIOUS
<1>2. asked[0] = Outset /\ other[0] = Outset
  BY ONLY <1>1, AskingIs
<1>3. \A n \in Nat : asked[n + 1] = Further(p, c, time, id, meaning, target, asked[n])
  BY ONLY <1>1, AskingIs
<1>4. \A n \in Nat : other[n + 1] = Further(p, c, time, id, more, target, other[n])
  BY ONLY <1>1, AskingIs
<1>5. 0 \in Good
  BY <1>2 DEF NoMore
<1>6. ASSUME NEW n \in Nat, n \in Good
      PROVE  n + 1 \in Good
  <2>1. PICK far : far = asked[n]
    OBVIOUS
  <2>2. PICK next : next = asked[n + 1]
    OBVIOUS
  <2>3. PICK then : then = other[n + 1]
    OBVIOUS
  <2>4. next = Further(p, c, time, id, meaning, target, far)
    BY ONLY <1>3, <2>1, <2>2
  <2>5. far = Bottom \/ then = Further(p, c, time, id, more, target, far)
    <3>1. far = Bottom \/ far = other[n]
      BY <1>6, <2>1 DEF NoMore
    <3> QED
      BY ONLY <1>4, <2>3, <3>1
  <2>6. ASSUME far = Bottom PROVE NoMore(next, then)
    <3>1. far.do # "go on"
      BY ONLY <2>6 DEF Bottom, Wrong
    <3>2. next = Bottom
      BY ONLY <2>4, <2>6, <3>1, FurtherIs
    <3> QED
      BY ONLY <3>2 DEF NoMore
  <2>7. ASSUME then = Further(p, c, time, id, more, target, far) PROVE NoMore(next, then)
    <3>1. PICK ask : ask = AskNext(p, c, id, far.results)
      OBVIOUS
    <3>2. CASE far.do = "go on" /\ ask.do = "ask"
      <4>1. next = Heard(p, c, time, meaning, target, far.results, ask)
        BY ONLY <2>4, <3>1, <3>2, FurtherIs
      <4>2. then = Heard(p, c, time, more, target, far.results, ask)
        BY ONLY <2>7, <3>1, <3>2, FurtherIs
      <4>3. Listed(far.results)
        BY <2>1, <3>2, AskingListed
      <4>4. Reads(ask.expression) \subseteq Nat
        BY <3>1, <3>2, <4>3, AskedIsCounted
      <4> QED
        BY <4>1, <4>2, <4>4, HeardGrows
    <3>3. CASE ~(far.do = "go on" /\ ask.do = "ask")
      <4>1. next = then
        BY ONLY <2>4, <2>7, <3>1, <3>3, FurtherIs
      <4> QED
        BY ONLY <4>1 DEF NoMore
    <3> QED
      BY <3>2, <3>3
  <2>8. NoMore(next, then)
    BY <2>5, <2>6, <2>7
  <2> QED
    BY <2>2, <2>3, <2>8
<1>7. \A n \in Nat : n \in Good
  <2> HIDE DEF Good
  <2> QED
    BY <1>5, <1>6, Inductive
<1> QED
  BY <1>7

\* So does what a variable means when less is known.
LEMMA MeantGrows ==
    ASSUME NEW p, Authored(p), Compiles(p), NEW c, NEW time, NEW id \in Variables(p), NEW target,
           NEW meaning, NEW more, Less(meaning, more), MostAsks(p, id) \in Nat
    PROVE  NoMore(Meant(p, c, time, id, meaning, target), Meant(p, c, time, id, more, target))
<1>1. PICK asked : asked = Asking(p, c, time, id, meaning, target)
  OBVIOUS
<1>2. PICK other : other = Asking(p, c, time, id, more, target)
  OBVIOUS
<1>3. \A n \in Nat : NoMore(asked[n], other[n])
  BY <1>1, <1>2, AskingGrows
<1>4. MostAsks(p, id) + 1 \in Nat
  OBVIOUS
<1>5. NoMore(asked[MostAsks(p, id) + 1], other[MostAsks(p, id) + 1])
  BY <1>3, <1>4
<1> QED
  BY <1>1, <1>2, <1>5 DEF Meant

-----------------------------------------------------------------------------
(* Following references.                                                    *)

\* The variables all have as many expressions as a number says.
Counted(p) == \A id \in Variables(p) : MostAsks(p, id) \in Nat

\* What that makes of each variable.
LEMMA FollowsIs ==
    ASSUME NEW p, NEW c, NEW time, NEW meaning
    PROVE  /\ DOMAIN Follows(p, c, time, meaning) = Variables(p)
           /\ \A id \in Variables(p) : Follows(p, c, time, meaning)[id] = Meant(p, c, time, id, meaning, Nobody)
BY DEF Follows

\* It grows with the meaning that it is taken of.
LEMMA FollowsGrows ==
    ASSUME NEW p, Authored(p), Compiles(p), Counted(p), NEW c, NEW time, NEW meaning, NEW more, Less(meaning, more)
    PROVE  Less(Follows(p, c, time, meaning), Follows(p, c, time, more))
<1> DEFINE one == Follows(p, c, time, meaning)
           two == Follows(p, c, time, more)
<1>1. DOMAIN one = Variables(p) /\ DOMAIN two = Variables(p)
  BY FollowsIs
<1>2. ASSUME NEW id \in Variables(p)
      PROVE  NoMore(one[id], two[id])
  <2>1. one[id] = Meant(p, c, time, id, meaning, Nobody) /\ two[id] = Meant(p, c, time, id, more, Nobody)
    BY FollowsIs
  <2>2. MostAsks(p, id) \in Nat
    BY DEF Counted
  <2>3. NoMore(Meant(p, c, time, id, meaning, Nobody), Meant(p, c, time, id, more, Nobody))
    BY <2>2, MeantGrows
  <2> QED
    BY ONLY <2>1, <2>3
<1> HIDE DEF one, two
<1>3. ASSUME NEW x
      PROVE  NoMore(Known(one, x), Known(two, x))
  <2>1. CASE x \in Variables(p)
    BY <1>1, <1>2, <2>1 DEF Known
  <2>2. CASE x \notin Variables(p)
    BY <1>1, <2>2 DEF Known, NoMore
  <2> QED
    BY <2>1, <2>2
<1> QED
  BY <1>3 DEF Less, one, two

\* More than more is more.
LEMMA LessThrough ==
    ASSUME NEW one, NEW two, NEW three, Less(one, two), Less(two, three)
    PROVE  Less(one, three)
BY DEF Less, NoMore

\* Each of them is about the variables.
LEMMA FollowingAll ==
    ASSUME NEW p, NEW c, NEW time, NEW f, f = Following(p, c, time)
    PROVE  /\ \A n \in Nat : DOMAIN f[n] = Variables(p) /\ f[n + 1] = Follows(p, c, time, f[n])
           /\ \A n \in Nat : f[n] = [id \in Variables(p) |-> f[n][id]]
           /\ \A id \in Variables(p) : f[0][id] = Bottom
<1>1. f = Following(p, c, time)
  OBVIOUS
<1>2. f[0] = Nowhere(p)
  BY ONLY <1>1, FollowingIs
<1>3. \A n \in Nat : f[n + 1] = Follows(p, c, time, f[n])
  BY ONLY <1>1, FollowingIs
<1>4. DOMAIN f[0] = Variables(p) /\ \A id \in Variables(p) : f[0][id] = Bottom
  BY ONLY <1>2 DEF Nowhere
<1>5. ASSUME NEW n \in Nat
      PROVE  DOMAIN f[n] = Variables(p) /\ f[n] = [id \in Variables(p) |-> f[n][id]]
  <2>1. CASE n = 0
    <3>1. PICK g : g = f[0]
      OBVIOUS
    <3>2. g = Nowhere(p)
      BY ONLY <1>2, <3>1
    <3>3. g = [id \in Variables(p) |-> g[id]]
      BY ONLY <3>2 DEF Nowhere
    <3> QED
      BY <1>4, <2>1, <3>1, <3>3
  <2>2. CASE n # 0
    <3>1. n - 1 \in Nat /\ (n - 1) + 1 = n
      BY <2>2
    <3>2. f[n] = Follows(p, c, time, f[n - 1])
      BY <1>3, <3>1
    <3>3. PICK g : g = f[n]
      OBVIOUS
    <3>4. g = Follows(p, c, time, f[n - 1])
      BY <3>2, <3>3
    <3>5. g = [id \in Variables(p) |-> g[id]] /\ DOMAIN g = Variables(p)
      BY ONLY <3>4 DEF Follows
    <3> QED
      BY <3>3, <3>5
  <2> QED
    BY <2>1, <2>2
<1> QED
  BY <1>3, <1>4, <1>5

\* Each is more than the ones before.
LEMMA FollowingGrows ==
    ASSUME NEW p, Authored(p), Compiles(p), Counted(p), NEW c, NEW time, NEW f, f = Following(p, c, time)
    PROVE  \A n \in Nat : Less(f[n], f[n + 1])
<1> DEFINE Good == {n \in Nat : Less(f[n], f[n + 1])}
<1>1. \A n \in Nat : DOMAIN f[n] = Variables(p) /\ f[n + 1] = Follows(p, c, time, f[n])
  BY FollowingAll
<1>2. \A id \in Variables(p) : f[0][id] = Bottom
  BY FollowingAll
<1>3. 0 \in Good
  <2>1. DOMAIN f[0] = Variables(p) /\ DOMAIN f[0 + 1] = Variables(p)
    BY <1>1
  <2>2. \A x : NoMore(Known(f[0], x), Known(f[0 + 1], x))
    BY <1>2, <2>1 DEF Known, NoMore
  <2> QED
    BY <2>2 DEF Less
<1>4. ASSUME NEW n \in Nat, n \in Good
      PROVE  n + 1 \in Good
  <2>1. PICK one : one = f[n]
    OBVIOUS
  <2>2. PICK two : two = f[n + 1]
    OBVIOUS
  <2>3. Less(one, two)
    BY <1>4, <2>1, <2>2
  <2>4. Less(Follows(p, c, time, one), Follows(p, c, time, two))
    BY <2>3, FollowsGrows
  <2>5. f[n + 1] = Follows(p, c, time, one) /\ f[(n + 1) + 1] = Follows(p, c, time, two)
    BY <1>1, <2>1, <2>2
  <2> QED
    BY <2>4, <2>5
<1>5. \A n \in Nat : n \in Good
  <2> HIDE DEF Good
  <2> QED
    BY <1>3, <1>4, Inductive
<1> QED
  BY <1>5

\* So each is more than all the ones before.
LEMMA FollowingClimbs ==
    ASSUME NEW p, Authored(p), Compiles(p), Counted(p), NEW c, NEW time, NEW f, f = Following(p, c, time)
    PROVE  \A n \in Nat : \A m \in 0..n : Less(f[m], f[n])
<1> DEFINE Good == {n \in Nat : \A m \in 0..n : Less(f[m], f[n])}
<1>1. \A n \in Nat : Less(f[n], f[n + 1])
  BY FollowingGrows
<1>2. \A x : Less(x, x)
  BY DEF Less, NoMore
<1>3. 0 \in Good
  BY <1>2
<1>4. ASSUME NEW n \in Nat, n \in Good
      PROVE  n + 1 \in Good
  <2>1. ASSUME NEW m \in 0..n + 1
        PROVE  Less(f[m], f[n + 1])
    <3>1. CASE m = n + 1
      BY <1>2, <3>1
    <3>2. CASE m # n + 1
      <4>1. m \in 0..n
        BY <3>2
      <4>2. Less(f[m], f[n]) /\ Less(f[n], f[n + 1])
        BY <1>1, <1>4, <4>1
      <4> QED
        BY <4>2, LessThrough
    <3> QED
      BY <3>1, <3>2
  <2> QED
    BY <2>1
<1>5. \A n \in Nat : n \in Good
  <2> HIDE DEF Good
  <2> QED
    BY <1>3, <1>4, Inductive
<1> QED
  BY <1>5

\* The variables that come to something after so many references.
Come(p, meaning) == {id \in Variables(p) : meaning[id] # Bottom}

\* A reference more that brings no variable to something changes nothing, and
\* neither does the next.
LEMMA Standing ==
    ASSUME NEW p, NEW c, NEW time, NEW f, f = Following(p, c, time), NEW n \in Nat, Less(f[n], f[n + 1])
    PROVE  /\ Come(p, f[n]) \subseteq Come(p, f[n + 1])
           /\ Come(p, f[n]) = Come(p, f[n + 1]) => f[n] = f[n + 1]
           /\ f[n] = f[n + 1] => f[n + 1] = f[(n + 1) + 1]
<1> DEFINE V == Variables(p)
<1>1. \A k \in Nat : DOMAIN f[k] = V /\ f[k + 1] = Follows(p, c, time, f[k])
  BY FollowingAll
<1>2. PICK one : one = f[n]
  OBVIOUS
<1>3. PICK two : two = f[n + 1]
  OBVIOUS
<1>4. DOMAIN one = V /\ DOMAIN two = V /\ two = Follows(p, c, time, one)
  BY <1>1, <1>2, <1>3
<1>5. f[(n + 1) + 1] = Follows(p, c, time, two)
  BY <1>1, <1>3
<1>6. \A id \in V : one[id] = Bottom \/ one[id] = two[id]
  <2>1. \A id : Known(one, id) = Bottom \/ Known(one, id) = Known(two, id)
    BY <1>2, <1>3 DEF Less, NoMore
  <2> QED
    BY <1>4, <2>1 DEF Known
<1>7. one = [id \in V |-> one[id]] /\ two = [id \in V |-> two[id]]
  BY <1>2, <1>3, FollowingAll
<1>8. Come(p, one) \subseteq Come(p, two)
  BY <1>6 DEF Come
<1>9. ASSUME Come(p, one) = Come(p, two)
      PROVE  one = two
  <2>1. \A id \in V : one[id] = two[id]
    BY <1>6, <1>9 DEF Come
  <2> QED
    BY <1>7, <2>1
<1>10. one = two => two = Follows(p, c, time, two)
  BY <1>4
<1> QED
  BY <1>2, <1>3, <1>5, <1>8, <1>9, <1>10

\* Among numbers up to some, those that something holds of do not end where it
\* goes on from each to the next.
LEMMA Onward ==
    ASSUME NEW n \in Nat, NEW k \in 0..n, NEW S, k \in S, \A m \in Nat : m \in S => m + 1 \in S
    PROVE  n \in S
<1> DEFINE Good == {m \in Nat : k + m \in S}
<1>1. 0 \in Good
  OBVIOUS
<1>2. ASSUME NEW m \in Nat, m \in Good PROVE m + 1 \in Good
  <2>1. k + m \in Nat /\ (k + m) + 1 = k + (m + 1) /\ k + m \in S
    BY <1>2
  <2> QED
    BY <2>1
<1>3. \A m \in Nat : m \in Good
  <2> HIDE DEF Good
  <2> QED
    BY <1>1, <1>2, Inductive
<1>4. n - k \in Nat /\ k + (n - k) = n
  OBVIOUS
<1> QED
  BY <1>3, <1>4

\* References followed as often as there are variables, and once more: nothing
\* changes.
LEMMA FollowingStands ==
    ASSUME NEW p, Authored(p), Compiles(p), Counted(p), NEW c, NEW time, NEW f, f = Following(p, c, time),
           NEW size, size = Cardinality(Variables(p))
    PROVE  size \in Nat /\ f[size] = f[size + 1]
<1> DEFINE V == Variables(p)
<1>1. IsFiniteSet(V) /\ size \in Nat
  <2>1. IsFiniteSet(V)
    BY DEF Authored
  <2> QED
    BY <2>1, FS_CardinalityType
<1>2. \A n \in Nat : /\ Come(p, f[n]) \subseteq Come(p, f[n + 1])
                     /\ Come(p, f[n]) = Come(p, f[n + 1]) => f[n] = f[n + 1]
                     /\ f[n] = f[n + 1] => f[n + 1] = f[(n + 1) + 1]
  <2>1. \A n \in Nat : Less(f[n], f[n + 1])
    BY FollowingGrows
  <2> TAKE n \in Nat
  <2>2. Less(f[n], f[n + 1]) /\ f = Following(p, c, time)
    BY <2>1
  <2> QED
    BY ONLY <2>2, Standing, n \in Nat
<1>3. SUFFICES ASSUME f[size] # f[size + 1]
               PROVE  FALSE
  BY <1>1
<1>4. ASSUME NEW k \in 0..size
      PROVE  f[k] # f[k + 1]
  <2> DEFINE Same == {n \in Nat : f[n] = f[n + 1]}
  <2>1. \A n \in Nat : n \in Same => n + 1 \in Same
    BY <1>2
  <2>2. size \notin Same
    BY <1>3
  <2>3. k \in Nat
    BY <1>1
  <2>4. k \notin Same
    <3> HIDE DEF Same
    <3> QED
      BY <1>1, <2>1, <2>2, Onward
  <2> QED
    BY <2>3, <2>4
<1>5. \A n \in Nat : Come(p, f[n]) \subseteq V /\ IsFiniteSet(Come(p, f[n])) /\ Cardinality(Come(p, f[n])) \in Nat
  <2>1. \A n \in Nat : Come(p, f[n]) \subseteq V
    BY DEF Come
  <2> QED
    BY <1>1, <2>1, FS_Subset, FS_CardinalityType
<1> DEFINE Many == {n \in Nat : n <= size + 1 => Cardinality(Come(p, f[n])) >= n}
<1>6. 0 \in Many
  <2>1. Cardinality(Come(p, f[0])) \in Nat
    BY <1>5
  <2> QED
    BY <2>1
<1>7. ASSUME NEW n \in Nat, n \in Many
      PROVE  n + 1 \in Many
  <2> DEFINE A == Come(p, f[n])
             B == Come(p, f[n + 1])
  <2>1. ASSUME n + 1 <= size + 1
        PROVE  Cardinality(B) >= n + 1
    <3>1. n \in 0..size /\ n <= size + 1
      BY <1>1, <2>1
    <3>2. Cardinality(A) >= n
      BY <1>7, <3>1
    <3>3. A \subseteq B /\ A # B
      BY <1>2, <1>4, <3>1
    <3>4. IsFiniteSet(B) /\ Cardinality(A) \in Nat /\ Cardinality(B) \in Nat
      BY <1>5
    <3> HIDE DEF A, B
    <3>5. Cardinality(A) <= Cardinality(B) /\ Cardinality(B) # Cardinality(A)
      BY <3>3, <3>4, FS_Subset
    <3> QED
      BY ONLY <3>2, <3>4, <3>5, n \in Nat
  <2> QED
    BY <2>1
<1>8. \A n \in Nat : n \in Many
  <2> HIDE DEF Many
  <2> QED
    BY <1>6, <1>7, Inductive
<1>9. size + 1 \in Nat
  BY <1>1
<1>10. Cardinality(Come(p, f[size + 1])) >= size + 1
  BY <1>8, <1>9
<1>11. Cardinality(Come(p, f[size + 1])) <= size
  BY <1>1, <1>5, <1>9, FS_Subset
<1> QED
  BY <1>1, <1>5, <1>9, <1>10, <1>11

\* So what a variable means is what its resolution comes to when what it reads
\* means that; and to follow fewer references says the same or nothing.
LEMMA MeaningsAre ==
    ASSUME NEW p, Authored(p), Compiles(p), Counted(p), NEW c, NEW time, NEW meaning, meaning = Meanings(p, c, time)
    PROVE  /\ DOMAIN meaning = Variables(p)
           /\ \A id \in Variables(p) : meaning[id] = Meant(p, c, time, id, meaning, Nobody)
           /\ \E n \in Nat : /\ meaning = Following(p, c, time)[n]
                             /\ \A m \in 0..n : Less(Following(p, c, time)[m], meaning)
<1> DEFINE size == Cardinality(Variables(p))
<1>1. PICK f : f = Following(p, c, time)
  OBVIOUS
<1>2. meaning = f[size]
  BY <1>1 DEF Meanings
<1>3. size \in Nat /\ f[size] = f[size + 1]
  BY <1>1, FollowingStands
<1> HIDE DEF size
<1>4. DOMAIN f[size] = Variables(p) /\ f[size + 1] = Follows(p, c, time, f[size])
  BY <1>1, <1>3, FollowingAll
<1>5. meaning = Follows(p, c, time, meaning)
  BY <1>2, <1>3, <1>4
<1>6. \A id \in Variables(p) : meaning[id] = Meant(p, c, time, id, meaning, Nobody)
  BY <1>5, FollowsIs
<1>7. \A m \in 0..size : Less(f[m], f[size])
  BY <1>1, <1>3, FollowingClimbs
<1> QED
  BY <1>1, <1>2, <1>3, <1>4, <1>6, <1>7

-----------------------------------------------------------------------------
(* How many expressions are asked.                                          *)

\* Numbers in their order are as many.
LEMMA AscendingLen ==
    ASSUME NEW S, IsFiniteSet(S)
    PROVE  /\ Cardinality(S) \in Nat /\ Len(Ascending(S)) = Cardinality(S)
           /\ DOMAIN Ascending(S) = 1..Cardinality(S) /\ Listed(Ascending(S))
<1>1. Cardinality(S) \in Nat
  BY FS_CardinalityType
<1> DEFINE At(i) == CHOOSE x \in S : Cardinality({y \in S : y < x}) = i - 1
           s == Ascending(S)
<1>2. s = [i \in 1..Cardinality(S) |-> At(i)]
  BY DEF Ascending
<1> HIDE DEF At, s
<1>3. s \in Seq({At(i) : i \in 1..Cardinality(S)})
  BY <1>1, <1>2
<1>4. Listed(s) /\ DOMAIN s = 1..Cardinality(S) /\ Len(s) = Cardinality(S)
  BY <1>1, <1>2, <1>3, SequencesAreListed
<1> QED
  BY <1>1, <1>4 DEF s

\* There are no more pictures than there is to picture.
LEMMA PicturesAreFew ==
    ASSUME NEW names, NEW n \in Nat, NEW J \in SUBSET (1..n)
    PROVE  /\ IsFiniteSet({names[j] : j \in J})
           /\ Cardinality({names[j] : j \in J}) <= n
<1> DEFINE Of(m) == {names[j] : j \in J \cap 1..m}
           Few(m) == IsFiniteSet(Of(m)) /\ Cardinality(Of(m)) \in Nat /\ Cardinality(Of(m)) <= m
           Good == {m \in Nat : Few(m)}
<1>1. 0 \in Good
  <2>1. Of(0) = {}
    OBVIOUS
  <2>2. IsFiniteSet({}) /\ Cardinality({}) = 0
    BY FS_EmptySet
  <2> HIDE DEF Of
  <2> QED
    BY <2>1, <2>2
<1>2. ASSUME NEW m \in Nat, m \in Good
      PROVE  m + 1 \in Good
  <2>1. 1..m + 1 = (1..m) \cup {m + 1}
    BY ONLY m \in Nat
  <2>2. Of(m + 1) = Of(m) \/ Of(m + 1) = Of(m) \cup {names[m + 1]}
    BY <2>1
  <2>3. Few(m)
    BY <1>2
  <2> HIDE DEF Of
  <2>4. IsFiniteSet(Of(m) \cup {names[m + 1]})
    BY <2>3, FS_AddElement
  <2>5. Cardinality(Of(m) \cup {names[m + 1]}) \in {Cardinality(Of(m)), Cardinality(Of(m)) + 1}
    BY <2>3, FS_AddElement
  <2>6. Few(m + 1)
    BY <2>2, <2>3, <2>4, <2>5
  <2> QED
    BY <2>6
<1>3. n \in Good
  <2> HIDE DEF Good
  <2> QED
    BY <1>1, <1>2, Inductive
<1>4. Few(n) /\ Of(n) = {names[j] : j \in J}
  BY <1>3
<1> QED
  BY <1>4

\* A query asks its filter of each entry, and its sort of those that are kept.
LEMMA QueryIsBounded ==
    ASSUME NEW p, NEW v, NEW heard, Listed(heard), NEW next, next = AskQuery(p, v, heard), next.do = "ask",
           NEW entries, entries = DOMAIN p.catalogs[v.resolve.query.from], IsFiniteSet(entries)
    PROVE  Len(heard) < 2 * Cardinality(entries)
<1> DEFINE q == v.resolve.query
           names == Ascending(entries)
           filters == IF q.filter = None THEN 0 ELSE Len(names)
           J == {k \in DOMAIN names : k > filters \/ heard[k] = Bool(TRUE)}
           K == {names[j] : j \in J}
           kept == Ascending(K)
           keys == SubSeq(heard, filters + 1, Len(heard))
           matches == Arranged(q, kept, keys)
           size == Cardinality(entries)
<1>1. \/ next = Wrong("no entries")
      \/ Len(heard) < filters
      \/ ~(Len(heard) < filters) /\ Len(keys) < Len(kept)
      \/ next = Wrong("keys")
      \/ next = SelectMatches(v, matches)
  BY DEF AskQuery
<1>2. size \in Nat /\ Len(names) = size /\ DOMAIN names = 1..size
  BY AscendingLen
<1>3. J \in SUBSET (1..size)
  BY <1>2
<1>4. IsFiniteSet(K) /\ Cardinality(K) <= size /\ Cardinality(K) \in Nat
  <2> HIDE DEF J, names, size
  <2> QED
    BY <1>2, <1>3, PicturesAreFew, FS_CardinalityType
<1>5. Len(kept) = Cardinality(K)
  BY <1>4, AscendingLen
<1>6. Len(heard) \in Nat /\ heard \in Seq(Elements(heard))
  BY Lists DEF Listed
<1>7. filters \in Nat /\ filters <= size
  BY <1>2
<1> HIDE DEF names, J, K, kept, matches, size, filters, q
<1>8. ~(Len(heard) < filters) => Len(keys) = Len(heard) - filters
  BY <1>6, <1>7
<1>9. ~(next = Wrong("no entries") \/ next = Wrong("keys"))
  <2>1. Wrong("no entries").do = "fail" /\ Wrong("keys").do = "fail"
    BY ONLY DEF Wrong
  <2> QED
    BY <2>1
<1>10. next # SelectMatches(v, matches)
  <2>1. next = SelectMatches(v, matches) => next.do = "choose" \/ next.do = "fail"
    BY MatchesEnd
  <2> QED
    BY <2>1
<1> HIDE DEF keys
<1>11. Len(heard) < filters \/ (~(Len(heard) < filters) /\ Len(keys) < Cardinality(K))
  BY <1>1, <1>5, <1>9, <1>10
<1>12. Len(heard) < 2 * size
  <2>1. PICK n : n = Len(heard)
    OBVIOUS
  <2>2. PICK some : some = Cardinality(K)
    OBVIOUS
  <2>3. n \in Nat /\ some \in Nat /\ size \in Nat /\ filters \in Nat
    BY <1>2, <1>4, <1>6, <1>7, <2>1, <2>2
  <2>4. some <= size /\ filters <= size /\ (n < filters \/ (~(n < filters) /\ n - filters < some))
    BY <1>4, <1>7, <1>8, <1>11, <2>1, <2>2
  <2>5. n < 2 * size
    BY ONLY <2>3, <2>4
  <2> QED
    BY <2>1, <2>5
<1> QED
  BY <1>12 DEF size

\* An allocation asks for its eligibility and for the unit.
LEMMA AllocationIsBounded ==
    ASSUME NEW p, NEW c, NEW v, NEW heard, Listed(heard), NEW next, next = AskAllocation(p, c, v, heard),
           next.do = "ask"
    PROVE  Len(heard) < 2
<1> DEFINE a == AllocationAt(p, FindAllocation(p, v.resolve.assign.allocation))
           first == IF a.eligibility = None THEN 0 ELSE 1
<1>1. Len(heard) \in Nat
  BY Lists
<1>2. \/ Len(heard) < first
      \/ Len(heard) = first
      \/ \E value, by : next = Chosen(value, by)
  BY DEF AskAllocation
<1>3. first \in 0..1
  OBVIOUS
<1> HIDE DEF first
<1>4. ~ \E value, by : next = Chosen(value, by)
  BY DEF Chosen
<1> QED
  BY ONLY <1>1, <1>2, <1>3, <1>4

\* What a resolution asks is less than it can come to ask.
LEMMA AsksAreBounded ==
    ASSUME NEW p, Authored(p), Compiles(p), NEW c, NEW id \in Variables(p)
    PROVE  /\ MostAsks(p, id) \in Nat
           /\ \A heard : Listed(heard) /\ AskNext(p, c, id, heard).do = "ask" => Len(heard) < MostAsks(p, id)
<1> DEFINE v == p.variables[id]
<1>1. id # Nobody /\ AuthoredVariable(v) /\ CompilesResolve(p, v) /\ v.type # Malformed /\ ValidType(p, v.type)
  BY DEF Authored, Compiles, Variables
<1>2. HasResolve(v)
  BY <1>1 DEF CompilesResolve
<1>3. CASE Method(v) = "rules"
  <2>1. MostAsks(p, id) = Len(Rules(v))
    BY <1>1, <1>3 DEF MostAsks
  <2>2. Listed(Rules(v)) /\ Len(Rules(v)) \in Nat
    BY <1>1, <1>2, Lists DEF AuthoredVariable
  <2>3. ASSUME NEW heard, Listed(heard), AskNext(p, c, id, heard).do = "ask"
        PROVE  Len(heard) < Len(Rules(v))
    <3>1. PICK next : next = AskRules(v, heard)
      OBVIOUS
    <3>2. next.do = "ask" /\ next.do # "choose"
      BY <1>1, <1>3, <2>3, <3>1 DEF AskNext
    <3>3. Len(heard) + 1 \in DOMAIN Rules(v)
      BY ONLY <2>2, <2>3, <3>1, <3>2, RulesAsk
    <3>4. DOMAIN Rules(v) = 1..Len(Rules(v)) /\ Len(heard) \in Nat
      BY <2>2, <2>3, Lists
    <3> QED
      BY ONLY <2>2, <3>3, <3>4
  <2> QED
    BY <2>1, <2>2, <2>3
<1>4. CASE Method(v) = "query"
  <2> DEFINE entries == DOMAIN p.catalogs[v.resolve.query.from]
  <2>1. MostAsks(p, id) = 2 * Cardinality(entries)
    BY <1>1, <1>4 DEF MostAsks
  <2>2. CompilesQuery(p, v)
    BY <1>1, <1>4 DEF CompilesResolve
  <2>3. v.resolve.query.from \in DOMAIN p.catalogs
    <3>1. v.resolve.query.from = QueryCatalog(v) /\ QueryCatalog(v) # None
      BY <2>2 DEF CompilesQuery
    <3>2. v.type.class = "catalog" /\ v.resolve.query.from = v.type.of
      BY <3>1 DEF QueryCatalog
    <3> QED
      BY <1>1, <3>2 DEF ValidType
  <2>4. IsFiniteSet(entries) /\ Cardinality(entries) \in Nat
    BY <2>3, FS_CardinalityType DEF Authored
  <2> HIDE DEF entries
  <2>5. ASSUME NEW heard, Listed(heard), AskNext(p, c, id, heard).do = "ask"
        PROVE  Len(heard) < 2 * Cardinality(entries)
    <3>1. PICK next : next = AskQuery(p, v, heard)
      OBVIOUS
    <3>2. next.do = "ask"
      BY <1>1, <1>4, <2>5, <3>1 DEF AskNext
    <3> QED
      BY <2>4, <2>5, <3>1, <3>2, QueryIsBounded DEF entries
  <2> QED
    BY <2>1, <2>4, <2>5
<1>5. CASE Method(v) \notin {"rules", "query"}
  <2>1. MostAsks(p, id) = 2
    BY <1>1, <1>5 DEF MostAsks
  <2>2. ASSUME NEW heard, Listed(heard), AskNext(p, c, id, heard).do = "ask"
        PROVE  Len(heard) < 2
    <3>1. PICK next : next = AskAllocation(p, c, v, heard)
      OBVIOUS
    <3>2. next.do = "ask"
      BY <1>1, <1>5, <2>2, <3>1 DEF AskNext
    <3> QED
      BY <2>2, <3>1, <3>2, AllocationIsBounded
  <2> QED
    BY <2>1, <2>2
<1> QED
  BY <1>3, <1>4, <1>5

\* What any variable of a package that compiles can come to ask is counted.
LEMMA AllCounted == ASSUME NEW p, Authored(p), Compiles(p) PROVE Counted(p)
BY AsksAreBounded DEF Counted

-----------------------------------------------------------------------------
(* Resolutions on the way to what their variables mean.                      *)

\* A resolution with these results goes on.
GoingOn(results) == [do |-> "go on", results |-> results]

\* Whose resolution it can be: a variable's, or that of the trace policies.
Fits(p, id, heard) ==
    /\ Listed(heard)
    /\ id \in Variables(p) \/ (id = Nobody /\ Len(heard) <= Len(p.policies))

\* It asks what it can come to ask, or ends.
LEMMA FitAsks ==
    ASSUME NEW p, Authored(p), Compiles(p), NEW c, NEW id, NEW heard, Fits(p, id, heard),
           NEW next, next = AskNext(p, c, id, heard)
    PROVE  /\ MostAsks(p, id) \in Nat
           /\ next.do \in {"ask", "choose", "fail"}
           /\ next.do = "ask" => Len(heard) < MostAsks(p, id) /\ Reads(next.expression) \subseteq Nat
<1>1. Listed(heard)
  BY DEF Fits
<1>2. CASE id \in Variables(p)
  <2>1. next.do \in {"ask", "choose", "fail"}
    BY <1>1, <1>2, AskEnds
  <2>2. MostAsks(p, id) \in Nat /\ (next.do = "ask" => Len(heard) < MostAsks(p, id))
    BY <1>1, <1>2, AsksAreBounded
  <2>3. next.do = "ask" => Reads(next.expression) \subseteq Nat
    BY <1>1, <1>2, AskedIsCounted
  <2> QED
    BY <2>1, <2>2, <2>3
<1>3. CASE id = Nobody /\ Len(heard) <= Len(p.policies)
  <2>1. Listed(p.policies)
    BY DEF Authored
  <2>2. MostAsks(p, id) = Len(p.policies) /\ Len(p.policies) \in Nat
    BY <1>3, <2>1, Lists DEF MostAsks
  <2>3. next = AskNext(p, c, Nobody, heard)
    BY <1>3
  <2>4. \/ /\ next.do = "ask" /\ Len(heard) < Len(p.policies)
           /\ next.expression \in Elements(p.policies)
        \/ next.do = "choose"
    BY <1>1, <1>3, <2>1, <2>3, PolicyAsks
  <2>5. next.do = "ask" => Reads(next.expression) \subseteq Nat
    <3>1. ASSUME next.do = "ask" PROVE Reads(next.expression) \subseteq Nat
      <4>1. next.expression \in Elements(p.policies)
        BY <2>4, <3>1
      <4>2. next.expression # Malformed
        BY <4>1 DEF Compiles
      <4> QED
        BY <4>1, <4>2 DEF Authored
    <3> QED
      BY <3>1
  <2> QED
    BY <2>2, <2>4, <2>5
<1> QED
  BY <1>2, <1>3 DEF Fits

\* Nothing comes after the end.
EndsOnce(asked) == \A n \in Nat : \A k \in 0..n : asked[k].do # "go on" => asked[n] = asked[k]

\* So it is with what asking goes through.
LEMMA EndStays ==
    ASSUME NEW p, NEW c, NEW time, NEW id, NEW meaning, NEW target,
           NEW asked, asked = Asking(p, c, time, id, meaning, target)
    PROVE  EndsOnce(asked)
<1>1. asked = Asking(p, c, time, id, meaning, target)
  OBVIOUS
<1>2. \A m \in Nat : asked[m + 1] = Further(p, c, time, id, meaning, target, asked[m])
  BY ONLY <1>1, AskingIs
<1>3. ASSUME NEW n \in Nat, NEW k \in 0..n, asked[k].do # "go on"
      PROVE  asked[n] = asked[k]
  <2> DEFINE S == {m \in Nat : asked[m] = asked[k]}
  <2>1. ASSUME NEW m \in Nat, asked[m] = asked[k]
        PROVE  asked[m + 1] = asked[k]
    <3>1. PICK last : last = asked[k]
      OBVIOUS
    <3>2. last.do # "go on" /\ asked[m] = last
      BY ONLY <1>3, <2>1, <3>1
    <3>3. Further(p, c, time, id, meaning, target, last) = last
      BY ONLY <3>2, FurtherIs
    <3>4. asked[m + 1] = Further(p, c, time, id, meaning, target, last)
      BY ONLY <1>2, <3>2, m \in Nat
    <3> QED
      BY ONLY <3>1, <3>3, <3>4
  <2>2. \A m \in Nat : m \in S => m + 1 \in S
    BY ONLY <2>1
  <2>3. k \in Nat
    BY ONLY n \in Nat, k \in 0..n
  <2>4. k \in S
    BY ONLY <2>3
  <2>5. n \in S
    <3> HIDE DEF S
    <3> QED
      BY ONLY <2>2, <2>4, n \in Nat, k \in 0..n, Onward
  <2> QED
    BY ONLY <2>5
<1> QED
  BY ONLY <1>3 DEF EndsOnce

\* A resolution has come this far, if what it reads means what it means.
OnCourse(p, c, time, meaning, id, heard, target) ==
    /\ Asking(p, c, time, id, meaning, target)[Len(heard)] = GoingOn(heard)
    /\ Len(heard) <= MostAsks(p, id)

\* It has in the beginning.
LEMMA CourseBegins ==
    ASSUME NEW p, NEW c, NEW time, NEW meaning, NEW id, MostAsks(p, id) \in Nat, NEW target
    PROVE  OnCourse(p, c, time, meaning, id, << >>, target)
<1>1. PICK asked : asked = Asking(p, c, time, id, meaning, target)
  OBVIOUS
<1>2. asked[0] = Outset
  BY ONLY <1>1, AskingIs
<1>3. Len(<< >>) = 0
  BY ONLY Nothing
<1>4. GoingOn(<< >>) = Outset
  BY ONLY DEF GoingOn, Outset
<1> QED
  BY <1>1, <1>2, <1>3, <1>4 DEF OnCourse

\* What comes of it next.
LEMMA CourseGoes ==
    ASSUME NEW p, NEW c, NEW time, NEW meaning, NEW id, NEW heard, Listed(heard), NEW target,
           OnCourse(p, c, time, meaning, id, heard, target),
           NEW asked, asked = Asking(p, c, time, id, meaning, target),
           NEW next, next = AskNext(p, c, id, heard)
    PROVE  /\ next.do # "ask" => asked[Len(heard) + 1] = next
           /\ next.do = "ask" => asked[Len(heard) + 1] = Heard(p, c, time, meaning, target, heard, next)
<1>1. asked = Asking(p, c, time, id, meaning, target)
  OBVIOUS
<1>2. Len(heard) \in Nat
  BY Lists
<1>3. PICK n : n = Len(heard)
  OBVIOUS
<1>4. asked[n + 1] = Further(p, c, time, id, meaning, target, asked[n])
  BY ONLY <1>1, <1>2, <1>3, AskingIs
<1>5. asked[n] = GoingOn(heard)
  BY <1>3 DEF OnCourse
<1>6. GoingOn(heard).do = "go on" /\ GoingOn(heard).results = heard
  BY ONLY DEF GoingOn
<1>7. PICK far : far = GoingOn(heard)
  OBVIOUS
<1>8. asked[n + 1] = Further(p, c, time, id, meaning, target, far) /\ far.do = "go on" /\ far.results = heard
  BY ONLY <1>4, <1>5, <1>6, <1>7
<1>9. next = AskNext(p, c, id, heard)
  OBVIOUS
<1>10. /\ next.do # "ask" => asked[n + 1] = next
       /\ next.do = "ask" => asked[n + 1] = Heard(p, c, time, meaning, target, heard, next)
  BY ONLY <1>8, <1>9, FurtherIs
<1> QED
  BY ONLY <1>3, <1>10

\* What it ends with is what the variable means: the end of the method,
LEMMA CourseEnds ==
    ASSUME NEW p, Authored(p), Compiles(p), NEW c, NEW time, NEW meaning,
           NEW id, NEW heard, Fits(p, id, heard), NEW target,
           OnCourse(p, c, time, meaning, id, heard, target),
           NEW next, next = AskNext(p, c, id, heard), next.do # "ask"
    PROVE  Meant(p, c, time, id, meaning, target) = next
<1>1. PICK asked : asked = Asking(p, c, time, id, meaning, target)
  OBVIOUS
<1>2. Listed(heard) /\ Len(heard) \in Nat
  BY Lists DEF Fits
<1>3. asked[Len(heard) + 1] = next
  BY <1>1, <1>2, CourseGoes
<1>4. next.do # "go on"
  BY FitAsks
<1>5. MostAsks(p, id) \in Nat /\ Len(heard) <= MostAsks(p, id)
  BY FitAsks DEF OnCourse
<1>6. MostAsks(p, id) + 1 \in Nat /\ Len(heard) + 1 \in 0..(MostAsks(p, id) + 1)
  BY ONLY <1>2, <1>5
<1>7. asked[MostAsks(p, id) + 1] = next
  <2>1. EndsOnce(asked)
    BY ONLY <1>1, EndStays
  <2> QED
    BY ONLY <1>3, <1>4, <1>6, <2>1 DEF EndsOnce
<1> QED
  BY <1>1, <1>7 DEF Meant

\* It goes no further.
Ended(last) == last.do # "go on"

\* or with an expression that fails,
LEMMA CourseFails ==
    ASSUME NEW p, Authored(p), Compiles(p), NEW c, NEW time, NEW meaning,
           NEW id, NEW heard, Fits(p, id, heard), NEW target,
           OnCourse(p, c, time, meaning, id, heard, target),
           NEW next, next = AskNext(p, c, id, heard), next.do = "ask",
           NEW last, last = Heard(p, c, time, meaning, target, heard, next), Ended(last)
    PROVE  Meant(p, c, time, id, meaning, target) = last
<1>1. PICK asked : asked = Asking(p, c, time, id, meaning, target)
  OBVIOUS
<1>2. Listed(heard) /\ Len(heard) \in Nat
  BY Lists DEF Fits
<1>3. last = Heard(p, c, time, meaning, target, heard, next) /\ last.do # "go on"
  BY DEF Ended
<1>4. asked[Len(heard) + 1] = last /\ last.do # "go on"
  <2>1. next.do = "ask" => asked[Len(heard) + 1] = Heard(p, c, time, meaning, target, heard, next)
    BY ONLY <1>1, <1>2, CourseGoes, OnCourse(p, c, time, meaning, id, heard, target), next = AskNext(p, c, id, heard)
  <2> QED
    BY <1>3, <2>1
<1>5. MostAsks(p, id) \in Nat /\ Len(heard) <= MostAsks(p, id)
  BY FitAsks DEF OnCourse
<1>6. MostAsks(p, id) + 1 \in Nat /\ Len(heard) + 1 \in 0..(MostAsks(p, id) + 1)
  BY ONLY <1>2, <1>5
<1>7. asked[MostAsks(p, id) + 1] = last
  <2>1. EndsOnce(asked)
    BY ONLY <1>1, EndStays
  <2> QED
    BY ONLY <1>4, <1>6, <2>1 DEF EndsOnce
<1> QED
  BY <1>1, <1>3, <1>7 DEF Meant

\* or goes on with one answer more.
LEMMA CourseStays ==
    ASSUME NEW p, Authored(p), Compiles(p), NEW c, NEW time, NEW meaning,
           NEW id, NEW heard, Fits(p, id, heard), NEW target,
           OnCourse(p, c, time, meaning, id, heard, target),
           NEW next, next = AskNext(p, c, id, heard), next.do = "ask",
           NEW value, Heard(p, c, time, meaning, target, heard, next) = GoingOn(Append(heard, value))
    PROVE  OnCourse(p, c, time, meaning, id, Append(heard, value), target)
<1>1. PICK asked : asked = Asking(p, c, time, id, meaning, target)
  OBVIOUS
<1>2. Listed(heard) /\ Len(heard) \in Nat
  BY Lists DEF Fits
<1>3. asked[Len(heard) + 1] = GoingOn(Append(heard, value))
  BY <1>1, <1>2, CourseGoes
<1>4. MostAsks(p, id) \in Nat /\ Len(heard) < MostAsks(p, id)
  BY FitAsks
<1>5. Len(Append(heard, value)) = Len(heard) + 1
  BY <1>2, Appended
<1>6. Len(heard) + 1 <= MostAsks(p, id)
  BY ONLY <1>2, <1>4
<1> QED
  BY <1>1, <1>3, <1>5, <1>6 DEF OnCourse

\* A variable that is read and fails, and none before it that does.
FailsFirst(meaning, w, reads) ==
    /\ w \in reads /\ Known(meaning, w).do = "fail"
    /\ \A y \in reads : y < w => Known(meaning, y).do # "fail"

\* Of the variables that are read and fail, the first is the one that is heard.
LEMMA FirstIsHeard ==
    ASSUME NEW p, NEW c, NEW time, NEW meaning, NEW target, NEW results, NEW ask,
           Reads(ask.expression) \subseteq Nat, NEW w, FailsFirst(meaning, w, Reads(ask.expression))
    PROVE  Heard(p, c, time, meaning, target, results, ask) = Known(meaning, w)
<1>1. w \in Reads(ask.expression) /\ Known(meaning, w).do = "fail"
  BY DEF FailsFirst
<1>2. \A y \in Reads(ask.expression) : Known(meaning, y).do = "fail" => w <= y
  <2>1. \A y \in Reads(ask.expression) : y \in Nat /\ w \in Nat /\ (y < w => Known(meaning, y).do # "fail")
    BY DEF FailsFirst
  <2> QED
    BY <2>1
<1>3. Reads(ask.expression) \subseteq Nat
  OBVIOUS
<1> QED
  BY ONLY <1>1, <1>2, <1>3, HeardWrong

\* The variable fails as the first that it reads and that fails.
LEMMA ReadFails ==
    ASSUME NEW p, Authored(p), Compiles(p), NEW c, NEW time, NEW meaning,
           NEW id, NEW heard, Fits(p, id, heard), NEW target,
           OnCourse(p, c, time, meaning, id, heard, target),
           NEW next, next = AskNext(p, c, id, heard), next.do = "ask",
           NEW w, FailsFirst(meaning, w, Reads(next.expression))
    PROVE  Meant(p, c, time, id, meaning, target) = Known(meaning, w)
<1>1. Reads(next.expression) \subseteq Nat
  BY FitAsks
<1>2. Heard(p, c, time, meaning, target, heard, next) = Known(meaning, w)
  BY <1>1, FirstIsHeard
<1>3. PICK last : last = Known(meaning, w)
  OBVIOUS
<1>4. Ended(last) /\ last = Heard(p, c, time, meaning, target, heard, next)
  <2>1. Known(meaning, w).do = "fail"
    BY DEF FailsFirst
  <2> QED
    BY <1>2, <1>3, <2>1 DEF Ended
<1>5. /\ Authored(p) /\ Compiles(p) /\ Fits(p, id, heard) /\ OnCourse(p, c, time, meaning, id, heard, target)
      /\ next = AskNext(p, c, id, heard) /\ next.do = "ask"
  OBVIOUS
<1>6. Meant(p, c, time, id, meaning, target) = last
  BY ONLY <1>4, <1>5, CourseFails
<1> QED
  BY <1>3, <1>6

\* A resolution that asks and reads one of these variables before any that fails.
Leads(p, c, time, meaning, id, C) ==
    \E heard, w :
        /\ Fits(p, id, heard) /\ OnCourse(p, c, time, meaning, id, heard, Nobody)
        /\ AskNext(p, c, id, heard).do = "ask"
        /\ w \in C \cap Reads(AskNext(p, c, id, heard).expression)
        /\ \A y \in Reads(AskNext(p, c, id, heard).expression) : y < w => Known(meaning, y).do # "fail"

\* It comes to nothing if less is known, and nothing of these.
LEMMA LeadsNowhere ==
    ASSUME NEW p, Authored(p), Compiles(p), NEW c, NEW time, NEW meaning, NEW less, Less(less, meaning),
           NEW C, \A x \in C : Known(less, x) = Bottom,
           NEW id \in Variables(p), Leads(p, c, time, meaning, id, C)
    PROVE  Meant(p, c, time, id, less, Nobody) = Bottom
<1>1. PICK heard, w :
        /\ Fits(p, id, heard) /\ OnCourse(p, c, time, meaning, id, heard, Nobody)
        /\ AskNext(p, c, id, heard).do = "ask"
        /\ w \in C \cap Reads(AskNext(p, c, id, heard).expression)
        /\ \A y \in Reads(AskNext(p, c, id, heard).expression) : y < w => Known(meaning, y).do # "fail"
  BY DEF Leads
<1>2. PICK next : next = AskNext(p, c, id, heard)
  OBVIOUS
<1>3. MostAsks(p, id) \in Nat /\ Len(heard) < MostAsks(p, id) /\ Reads(next.expression) \subseteq Nat
  BY <1>1, <1>2, FitAsks
<1>4. PICK asked : asked = Asking(p, c, time, id, meaning, Nobody)
  OBVIOUS
<1>5. PICK under : under = Asking(p, c, time, id, less, Nobody)
  OBVIOUS
<1>6. PICK n : n = Len(heard)
  OBVIOUS
<1>7. n \in Nat /\ MostAsks(p, id) + 1 \in Nat /\ n \in 0..MostAsks(p, id) + 1 /\ Listed(heard)
  <2>1. Listed(heard) /\ Len(heard) \in Nat
    BY <1>1, Lists DEF Fits
  <2> QED
    BY ONLY <1>3, <1>6, <2>1
<1>8. asked[n] = GoingOn(heard)
  BY <1>1, <1>4, <1>6 DEF OnCourse
<1>9. under[n] = Bottom \/ under[n] = GoingOn(heard)
  <2>1. NoMore(under[n], asked[n])
    BY <1>4, <1>5, <1>7, AskingGrows
  <2> QED
    BY <1>8, <2>1 DEF NoMore
<1>10. Bottom.do = "fail" /\ Bottom.do # "go on"
  BY ONLY DEF Bottom, Wrong
<1>11. CASE under[n] = Bottom
  <2>1. EndsOnce(under)
    BY ONLY <1>5, EndStays
  <2>2. under[MostAsks(p, id) + 1] = Bottom
    BY ONLY <1>7, <1>10, <1>11, <2>1 DEF EndsOnce
  <2> QED
    BY <1>5, <2>2 DEF Meant
<1>12. CASE under[n] = GoingOn(heard)
  <2>1. OnCourse(p, c, time, less, id, heard, Nobody)
    <3>1. Len(heard) <= MostAsks(p, id)
      BY <1>1 DEF OnCourse
    <3> QED
      BY <1>5, <1>6, <1>12, <3>1 DEF OnCourse
  <2>2. \A y : Known(less, y) = Bottom \/ Known(less, y) = Known(meaning, y)
    BY DEF Less, NoMore
  <2> DEFINE wrong == {y \in Reads(next.expression) : Known(less, y).do = "fail"}
  <2>3. w \in wrong
    BY <1>1, <1>2, <1>10
  <2>4. PICK first \in wrong : \A y \in wrong : first <= y
    <3>1. wrong \subseteq Nat
      BY <1>3
    <3> HIDE DEF wrong
    <3> QED
      BY <2>3, <3>1, Least
  <2>5. FailsFirst(less, first, Reads(next.expression))
    <3>1. \A y \in Reads(next.expression) : y \in Nat /\ first \in Nat
      BY <1>3
    <3>2. \A y \in Reads(next.expression) : y < first => Known(less, y).do # "fail"
      BY <2>4, <3>1
    <3> QED
      BY <2>4, <3>2 DEF FailsFirst
  <2>6. Known(less, first) = Bottom
    <3>1. CASE first = w
      BY <1>1, <3>1
    <3>2. CASE first # w
      <4>1. first < w
        <5>1. first \in Nat /\ w \in Nat /\ first <= w
          BY <1>3, <2>3, <2>4
        <5> QED
          BY ONLY <3>2, <5>1
      <4>2. Known(meaning, first).do # "fail" /\ Known(less, first).do = "fail"
        BY <1>1, <1>2, <2>4, <4>1
      <4> QED
        BY <2>2, <4>2
    <3> QED
      BY <3>1, <3>2
  <2>7. Meant(p, c, time, id, less, Nobody) = Known(less, first)
    BY <1>1, <1>2, <2>1, <2>5, ReadFails
  <2> QED
    BY <2>6, <2>7
<1> QED
  BY <1>9, <1>11, <1>12

\* Variables that lead to one another mean that there is a cycle.
LEMMA CirclesFail ==
    ASSUME NEW p, Authored(p), Compiles(p), NEW c, NEW time, NEW meaning, meaning = Meanings(p, c, time),
           NEW C \in SUBSET Variables(p), \A id \in C : Leads(p, c, time, meaning, id, C)
    PROVE  \A id \in C : Known(meaning, id) = Bottom
<1>1. Counted(p)
  BY AllCounted
<1>2. PICK f : f = Following(p, c, time)
  OBVIOUS
<1>3. PICK n \in Nat : meaning = f[n] /\ \A m \in 0..n : Less(f[m], meaning)
  BY <1>1, <1>2, MeaningsAre
<1>4. \A m \in Nat : DOMAIN f[m] = Variables(p) /\ f[m + 1] = Follows(p, c, time, f[m])
  BY <1>2, FollowingAll
<1>5. \A id \in Variables(p) : f[0][id] = Bottom
  BY <1>2, FollowingAll
<1> DEFINE Good == {m \in Nat : m <= n => \A id \in C : Known(f[m], id) = Bottom}
<1>6. 0 \in Good
  BY <1>4, <1>5 DEF Known
<1>7. ASSUME NEW m \in Nat, m \in Good
      PROVE  m + 1 \in Good
  <2>1. SUFFICES ASSUME m + 1 <= n, NEW id \in C
                 PROVE  Known(f[m + 1], id) = Bottom
    OBVIOUS
  <2>2. m \in 0..n /\ m <= n
    BY ONLY <2>1, m \in Nat, n \in Nat
  <2>3. PICK less : less = f[m]
    OBVIOUS
  <2>4. Less(less, meaning) /\ \A x \in C : Known(less, x) = Bottom
    BY <1>3, <1>7, <2>2, <2>3
  <2>5. id \in Variables(p) /\ Leads(p, c, time, meaning, id, C)
    OBVIOUS
  <2>6. Meant(p, c, time, id, less, Nobody) = Bottom
    BY <2>4, <2>5, LeadsNowhere
  <2>7. f[m + 1][id] = Meant(p, c, time, id, less, Nobody)
    BY <1>4, <2>3, <2>5, FollowsIs
  <2>8. DOMAIN f[m + 1] = Variables(p)
    BY <1>4
  <2> QED
    BY <2>5, <2>6, <2>7, <2>8 DEF Known
<1>8. n \in Good
  <2> HIDE DEF Good
  <2> QED
    BY <1>6, <1>7, Inductive
<1> QED
  BY <1>3, <1>8

-----------------------------------------------------------------------------
(* The evaluator computes the meaning.                                       *)

\* A trace policy is asked about the variable that was resolved.
Target(frame, ids) == IF frame.id = Nobody THEN Head(ids) ELSE Nobody

\* What is in the cache is what the variable means.
CacheRight(known, meaning) ==
    \A x \in DOMAIN known : Known(meaning, x).do # "fail" /\ known[x] = Known(meaning, x).value

\* Each resolution has come as far as it does when variables mean what they mean,
\* and what it reads before the variable it waits for is bound.
FramesRight(p, c, time, meaning, frames, ids) ==
    /\ \A i \in 1..Len(frames) :
         OnCourse(p, c, time, meaning, frames[i].id, frames[i].results, Target(frames[i], ids))
    /\ \A i \in 2..Len(frames) : \A y \in ReadBy(p, c, frames[i - 1]) :
         y < frames[i].id => y \in DOMAIN frames[i - 1].bound

\* What a batch comes to for a variable: what it means, or the failure of a trace
\* policy.
Expected(p, c, time, meaning, m, id) ==
    LET policies == Meant(p, c, time, Nobody, meaning, id)
    IN  IF m = "traced" /\ Known(meaning, id).do # "fail" /\ policies.do = "fail"
        THEN policies ELSE Known(meaning, id)

\* While the policies are asked the outcome is that of the variable alone.
Interim(frames) == frames # << >> /\ frames[1].id = Nobody
OutcomesRight(p, c, time, meaning, m, frames, ids, found) ==
    /\ \A id \in DOMAIN found :
         (Interim(frames) /\ id = Head(ids)) \/ found[id] = Expected(p, c, time, meaning, m, id)
    /\ Interim(frames) =>
         /\ Head(ids) \in DOMAIN found /\ found[Head(ids)] = Known(meaning, Head(ids))
         /\ Known(meaning, Head(ids)).do # "fail"

MeansInv ==
    LET meaning == Meanings(package, context, now)
    IN  /\ CacheRight(cache, meaning)
        /\ FramesRight(package, context, now, meaning, stack, todo)
        /\ OutcomesRight(package, context, now, meaning, mode, stack, todo, outcomes)
        /\ stack # << >> => todo # << >>

\* A resolution that the invariant holds of is one of a variable, or of the trace
\* policies.
LEMMA FrameFits ==
    ASSUME NEW p, Authored(p), NEW c, NEW time, NEW m, NEW known, NEW frame,
           FrameHolds(p, c, time, m, known, frame)
    PROVE  Fits(p, frame.id, frame.results)
BY DEF FrameHolds, Fits

\* A method that fails says why.
LEMMA QueryErrors ==
    ASSUME NEW p, NEW v, NEW heard, NEW next, next = AskQuery(p, v, heard), next.do = "fail"
    PROVE  next = Wrong(next.error)
<1> DEFINE Error(x) == \E e : x = Wrong(e)
<1>1. \A matches : Error(SelectMatches(v, matches)) \/ \E value, by : SelectMatches(v, matches) = Chosen(value, by)
  BY MatchesAre
<1>2. \/ next = Wrong("no entries")
      \/ next = Wrong("keys")
      \/ \E e, at, bool : next = Ask(e, at, bool)
      \/ \E matches : next = SelectMatches(v, matches)
  BY DEF AskQuery
<1>3. Error(next) \/ (\E e, at, bool : next = Ask(e, at, bool)) \/ (\E value, by : next = Chosen(value, by))
  BY <1>1, <1>2
<1>4. Error(next)
  <2>1. next.do = "fail"
    OBVIOUS
  <2>2. ~ \E e, at, bool : next = Ask(e, at, bool)
    BY ONLY <2>1 DEF Ask
  <2>3. ~ \E value, by : next = Chosen(value, by)
    BY ONLY <2>1 DEF Chosen
  <2> QED
    BY <1>3, <2>2, <2>3
<1>5. \A e : Wrong(e).error = e
  BY ONLY DEF Wrong
<1> QED
  BY <1>4, <1>5

\* A resolution that fails says why, and nothing else.
LEMMA ErrorsAreWrong ==
    ASSUME NEW p, Authored(p), NEW c, NEW id, NEW heard, Fits(p, id, heard),
           NEW next, next = AskNext(p, c, id, heard), next.do = "fail"
    PROVE  next = Wrong(next.error)
<1>1. Listed(heard)
  BY DEF Fits
<1>2. CASE id = Nobody
  <2>1. Nobody \notin Variables(p) /\ Listed(p.policies)
    BY DEF Authored
  <2>2. Len(heard) <= Len(p.policies)
    BY <1>2, <2>1 DEF Fits
  <2>3. next.do = "ask" \/ next.do = "choose"
    BY <1>1, <1>2, <2>1, <2>2, PolicyAsks
  <2> QED
    BY <2>3
<1>3. CASE id # Nobody
  <2> DEFINE v == p.variables[id]
  <2>1. \/ next = AskRules(v, heard)
        \/ next = AskQuery(p, v, heard)
        \/ next = AskAllocation(p, c, v, heard)
    BY <1>3 DEF AskNext
  <2>2. next.do = "fail"
    OBVIOUS
  <2> HIDE DEF v
  <2>3. CASE next = AskRules(v, heard)
    <3>1. next.do = "choose" \/ \E e : next = Ask(e, None, TRUE)
      BY ONLY <1>1, <2>3, RulesAsk
    <3>2. ~ \E e : next = Ask(e, None, TRUE)
      BY ONLY <2>2 DEF Ask
    <3> QED
      BY <2>2, <3>1, <3>2
  <2>4. CASE next = AskQuery(p, v, heard)
    BY ONLY <2>2, <2>4, QueryErrors
  <2>5. CASE next = AskAllocation(p, c, v, heard)
    <3>1. next.do = "ask" \/ next.do = "choose"
      BY ONLY <1>1, <2>5, AllocationAsks
    <3> QED
      BY <2>2, <3>1
  <2> QED
    BY <2>1, <2>3, <2>4, <2>5
<1> QED
  BY <1>2, <1>3

\* What is said of each of the resolutions under way.
LEMMA Underway ==
    ASSUME IInv, MeansInv, stack # << >>, NEW meaning, meaning = Meanings(package, context, now),
           NEW i \in 1..Len(stack)
    PROVE  /\ Fits(package, stack[i].id, stack[i].results)
           /\ OnCourse(package, context, now, meaning, stack[i].id, stack[i].results, Target(stack[i], todo))
           /\ \A y \in DOMAIN stack[i].bound : Known(meaning, y).do # "fail" /\ stack[i].bound[y] = Known(meaning, y).value
<1>1. Authored(package) /\ FrameHolds(package, context, now, mode, cache, stack[i])
  BY Running
<1>2. CacheRight(cache, meaning) /\ FramesRight(package, context, now, meaning, stack, todo)
  BY DEF MeansInv
<1>3. Fits(package, stack[i].id, stack[i].results)
  BY <1>1, FrameFits
<1>4. OnCourse(package, context, now, meaning, stack[i].id, stack[i].results, Target(stack[i], todo))
  BY <1>2 DEF FramesRight
<1>5. /\ stack[i].bound = [x \in DOMAIN stack[i].bound |-> cache[x]]
      /\ DOMAIN stack[i].bound \subseteq ReadBy(package, context, stack[i]) \cap DOMAIN cache
  BY <1>1 DEF FrameHolds
<1>6. \A y \in DOMAIN stack[i].bound : y \in DOMAIN cache /\ stack[i].bound[y] = cache[y]
  BY <1>5
<1>7. \A y \in DOMAIN stack[i].bound : Known(meaning, y).do # "fail" /\ stack[i].bound[y] = Known(meaning, y).value
  BY <1>2, <1>6 DEF CacheRight
<1> QED
  BY <1>3, <1>4, <1>7

\* The one below waits for the one above.
LEMMA Waiting ==
    ASSUME IInv, MeansInv, stack # << >>, NEW meaning, meaning = Meanings(package, context, now),
           NEW i \in 2..Len(stack)
    PROVE  /\ stack[i].id \in Variables(package) \ {Nobody}
           /\ NextOf(package, context, stack[i - 1]).do = "ask"
           /\ stack[i].id \in Reads(NextOf(package, context, stack[i - 1]).expression)
           /\ \A y \in Reads(NextOf(package, context, stack[i - 1]).expression) :
                y < stack[i].id => Known(meaning, y).do # "fail"
<1>1. Authored(package) /\ Len(stack) \in Nat
  BY Running
<1>2. i - 1 \in 1..Len(stack)
  BY <1>1
<1>3. stack[i].id \in ReadBy(package, context, stack[i - 1]) /\ stack[i].id \in Variables(package)
  BY DEF IInv, Marked, MarksHold
<1>4. /\ NextOf(package, context, stack[i - 1]).do = "ask"
      /\ ReadBy(package, context, stack[i - 1]) = Reads(NextOf(package, context, stack[i - 1]).expression)
  BY <1>3 DEF ReadBy
<1>5. \A y \in ReadBy(package, context, stack[i - 1]) : y < stack[i].id => y \in DOMAIN stack[i - 1].bound
  BY DEF MeansInv, FramesRight
<1>6. \A y \in DOMAIN stack[i - 1].bound : Known(meaning, y).do # "fail"
  BY <1>2, Underway
<1>7. stack[i].id # Nobody
  BY <1>1, <1>3 DEF Authored
<1> QED
  BY <1>3, <1>4, <1>5, <1>6, <1>7

\* What a variable is known to mean.
LEMMA KnownIsMeant ==
    ASSUME IInv, package # None, mode # "refused", NEW meaning, meaning = Meanings(package, context, now)
    PROVE  /\ Authored(package) /\ Compiles(package)
           /\ DOMAIN meaning = Variables(package)
           /\ \A id \in Variables(package) : Known(meaning, id) = Meant(package, context, now, id, meaning, Nobody)
           /\ \A id : id \notin Variables(package) => Known(meaning, id) = Wrong("not found")
<1>1. Authored(package) /\ Compiles(package)
  BY PackagesAssumption DEF IInv, Loaded
<1>2. Counted(package)
  BY <1>1, AllCounted
<1>3. /\ DOMAIN meaning = Variables(package)
      /\ \A id \in Variables(package) : meaning[id] = Meant(package, context, now, id, meaning, Nobody)
  BY <1>1, <1>2, MeaningsAre
<1> QED
  BY <1>1, <1>3 DEF Known

\* A failure passes to who waits,
LEMMA FailurePasses ==
    ASSUME IInv, MeansInv, stack # << >>, NEW meaning, meaning = Meanings(package, context, now),
           NEW last, last.do = "fail",
           Meant(package, context, now, Top.id, meaning, Target(Top, todo)) = last
    PROVE  Meant(package, context, now, stack[1].id, meaning, Target(stack[1], todo)) = last
<1> DEFINE Fallen(i) == Meant(package, context, now, stack[i].id, meaning, Target(stack[i], todo)) = last
           n == Len(stack)
           S == {k \in Nat : k < n => Fallen(n - k)}
<1>1. n \in Nat \ {0} /\ Authored(package) /\ Compiles(package) /\ package # None /\ mode # "refused"
  BY Running DEF Authored
<1>2. \A id \in Variables(package) : Known(meaning, id) = Meant(package, context, now, id, meaning, Nobody)
  BY <1>1, KnownIsMeant
<1>3. ASSUME NEW i \in 2..n, Fallen(i)
      PROVE  Fallen(i - 1)
  <2>1. /\ stack[i].id \in Variables(package) \ {Nobody}
        /\ NextOf(package, context, stack[i - 1]).do = "ask"
        /\ stack[i].id \in Reads(NextOf(package, context, stack[i - 1]).expression)
        /\ \A y \in Reads(NextOf(package, context, stack[i - 1]).expression) :
             y < stack[i].id => Known(meaning, y).do # "fail"
    BY Waiting
  <2>2. Known(meaning, stack[i].id) = last
    BY <1>2, <1>3, <2>1 DEF Target
  <2>3. PICK next : next = AskNext(package, context, stack[i - 1].id, stack[i - 1].results)
    OBVIOUS
  <2>4. next.do = "ask" /\ FailsFirst(meaning, stack[i].id, Reads(next.expression))
    BY <2>1, <2>2, <2>3 DEF NextOf, FailsFirst
  <2>5. i - 1 \in 1..n
    BY <1>1
  <2>6. /\ Fits(package, stack[i - 1].id, stack[i - 1].results)
        /\ OnCourse(package, context, now, meaning, stack[i - 1].id, stack[i - 1].results, Target(stack[i - 1], todo))
    BY <2>5, Underway
  <2>7. Meant(package, context, now, stack[i - 1].id, meaning, Target(stack[i - 1], todo)) = Known(meaning, stack[i].id)
    BY ONLY <1>1, <2>3, <2>4, <2>6, ReadFails
  <2> QED
    BY <2>2, <2>7
<1>4. 0 \in S
  BY <1>1 DEF Top
<1>5. ASSUME NEW k \in Nat, k \in S
      PROVE  k + 1 \in S
  <2>1. ASSUME k + 1 < n PROVE Fallen(n - (k + 1))
    <3>1. Fallen(n - k)
      BY <1>1, <1>5, <2>1
    <3>2. n - k \in 2..n /\ (n - k) - 1 = n - (k + 1)
      BY <1>1, <2>1
    <3>3. Fallen((n - k) - 1)
      <4> HIDE DEF Fallen
      <4> QED
        BY <1>3, <3>1, <3>2
    <3> QED
      BY <3>2, <3>3
  <2> QED
    BY <2>1
<1>6. n - 1 \in S
  <2>1. \A k \in Nat : k \in S
    <3> HIDE DEF S
    <3> QED
      BY <1>4, <1>5, Inductive
  <2> QED
    BY <1>1, <2>1
<1>7. n - 1 \in Nat /\ n - 1 < n /\ n - (n - 1) = 1
  BY <1>1
<1>8. Fallen(1)
  BY <1>6, <1>7
<1> QED
  BY <1>8

\* and is what the batch comes to.
LEMMA FailureIsExpected ==
    ASSUME IInv, MeansInv, stack # << >>, NEW meaning, meaning = Meanings(package, context, now),
           NEW last, last.do = "fail",
           Meant(package, context, now, Top.id, meaning, Target(Top, todo)) = last
    PROVE  Expected(package, context, now, meaning, mode, Head(todo)) = last
<1>1. /\ package # None /\ mode # "refused" /\ 1 \in 1..Len(stack)
      /\ Head(todo) \in Variables(package) /\ stack[1].id \in {Nobody, Head(todo)}
  <2>1. Len(stack) \in Nat \ {0}
    BY Running
  <2>2. 1 \in 1..Len(stack)
    BY ONLY <2>1
  <2> QED
    BY <2>2, Running DEF Authored
<1>2. Meant(package, context, now, stack[1].id, meaning, Target(stack[1], todo)) = last
  BY FailurePasses
<1>3. CASE stack[1].id = Nobody
  <2>1. Meant(package, context, now, Nobody, meaning, Head(todo)) = last
    BY <1>2, <1>3 DEF Target
  <2>2. mode = "traced"
    BY <1>1, <1>3, Running DEF FrameHolds
  <2>3. Known(meaning, Head(todo)).do # "fail"
    BY <1>3 DEF MeansInv, OutcomesRight, Interim
  <2> QED
    BY <2>1, <2>2, <2>3 DEF Expected
<1>4. CASE stack[1].id # Nobody
  <2>1. Meant(package, context, now, Head(todo), meaning, Nobody) = last
    BY <1>1, <1>2, <1>4 DEF Target
  <2>2. Known(meaning, Head(todo)) = last
    BY <1>1, <2>1, KnownIsMeant
  <2> QED
    BY <2>2 DEF Expected
<1> QED
  BY <1>3, <1>4

\* The next state, in the terms of this one.
LEMMA MeansKept ==
    ASSUME UNCHANGED <<package, context, now, mode>>, NEW meaning, meaning = Meanings(package, context, now),
           CacheRight(cache', meaning),
           FramesRight(package, context, now, meaning, stack', todo'),
           OutcomesRight(package, context, now, meaning, mode, stack', todo', outcomes'),
           stack' # << >> => todo' # << >>
    PROVE  MeansInv'
BY DEF MeansInv

\* With no resolution under way there is nothing to say of any.
LEMMA NoFrames == ASSUME NEW p, NEW c, NEW time, NEW meaning, NEW ids PROVE FramesRight(p, c, time, meaning, << >>, ids)
<1>1. 1..0 = {} /\ 2..0 = {} /\ Len(<< >>) = 0
  BY Nothing
<1> QED
  BY <1>1 DEF FramesRight

\* The outcome of a variable is the one it should have.
LEMMA SettledRight ==
    ASSUME MeansInv, todo # << >>, NEW meaning, meaning = Meanings(package, context, now),
           NEW outcome, outcome = Expected(package, context, now, meaning, mode, Head(todo)),
           outcomes' = With(outcomes, Head(todo), outcome), NEW ids
    PROVE  OutcomesRight(package, context, now, meaning, mode, << >>, ids, outcomes')
<1>1. ~Interim(<< >>)
  BY DEF Interim
<1>2. ASSUME NEW id \in DOMAIN outcomes'
      PROVE  outcomes'[id] = Expected(package, context, now, meaning, mode, id)
  <2>0. /\ DOMAIN outcomes' = {Head(todo)} \cup DOMAIN outcomes /\ outcomes'[Head(todo)] = outcome
        /\ \A y \in DOMAIN outcomes : y # Head(todo) => outcomes'[y] = outcomes[y]
    <3>1. outcomes' = With(outcomes, Head(todo), outcome)
      OBVIOUS
    <3> DEFINE f == With(outcomes, Head(todo), outcome)
    <3>2. /\ DOMAIN f = {Head(todo)} \cup DOMAIN outcomes /\ f[Head(todo)] = outcome
          /\ \A y \in DOMAIN outcomes : y # Head(todo) => f[y] = outcomes[y]
      BY ONLY DEF With
    <3> HIDE DEF f
    <3> QED
      BY ONLY <3>1, <3>2 DEF f
  <2>1. CASE id = Head(todo)
    BY <2>0, <2>1
  <2>2. CASE id # Head(todo)
    <3>1. id \in DOMAIN outcomes /\ outcomes'[id] = outcomes[id]
      BY <2>0, <2>2
    <3>2. outcomes[id] = Expected(package, context, now, meaning, mode, id)
      BY <2>2, <3>1 DEF MeansInv, OutcomesRight
    <3> QED
      BY <3>1, <3>2
  <2> QED
    BY <2>1, <2>2
<1> QED
  BY <1>1, <1>2 DEF OutcomesRight

\* An error that ends the resolution of a variable keeps the invariant, when it is
\* what the variable comes to.
LEMMA ThrowMeans ==
    ASSUME MeansInv, todo # << >>, NEW meaning, meaning = Meanings(package, context, now), NEW error,
           Wrong(error) = Expected(package, context, now, meaning, mode, Head(todo)), Throw(error), Keep
    PROVE  MeansInv'
<1>1. /\ stack' = << >> /\ cache' = cache /\ outcomes' = With(outcomes, Head(todo), Wrong(error))
      /\ UNCHANGED <<package, context, now, mode>>
  BY DEF Throw, Settle, Keep
<1>2. OutcomesRight(package, context, now, meaning, mode, << >>, todo', outcomes')
  BY <1>1, SettledRight
<1>3. FramesRight(package, context, now, meaning, << >>, todo')
  BY NoFrames
<1>4. CacheRight(cache', meaning)
  BY <1>1 DEF MeansInv
<1> QED
  BY <1>1, <1>2, <1>3, <1>4, MeansKept

\* An error is a failure with its kind.
LEMMA WrongFails == ASSUME NEW error PROVE Wrong(error).do = "fail" /\ Wrong(error).error = error
BY DEF Wrong

\* The top goes on, for the same variable.
LEMMA TopMeans ==
    ASSUME IInv, MeansInv, stack # << >>, NEW meaning, meaning = Meanings(package, context, now),
           NEW top, top.id = Top.id,
           OnCourse(package, context, now, meaning, top.id, top.results, Target(top, todo)),
           stack' = Append(Below, top), UNCHANGED <<todo, cache, outcomes>>, Keep
    PROVE  MeansInv'
<1> DEFINE n == Len(stack)
<1>1. /\ todo' = todo /\ cache' = cache /\ outcomes' = outcomes
      /\ UNCHANGED <<package, context, now, mode>>
  BY DEF Keep
<1>2. n \in Nat \ {0} /\ Listed(stack)
  BY Running
<1>3. PICK frames : frames = stack'
  OBVIOUS
<1>4. /\ Len(frames) = n /\ frames # << >> /\ frames[n] = top
      /\ \A i \in 1..n - 1 : frames[i] = stack[i]
      /\ frames[1].id = stack[1].id
  <2>1. ReplacesLast(frames, stack, top)
    BY <1>3 DEF ReplacesLast, Below
  <2>2. MarksHold(package, context, stack, resolving, cache) /\ Listed(stack) /\ Len(stack) # 0
        /\ top.id = stack[Len(stack)].id
    BY <1>2 DEF IInv, Marked, Top
  <2> QED
    BY ONLY <2>1, <2>2, TopChanges
<1>5. /\ CacheRight(cache, meaning) /\ FramesRight(package, context, now, meaning, stack, todo)
      /\ OutcomesRight(package, context, now, meaning, mode, stack, todo, outcomes)
      /\ todo # << >>
  BY DEF MeansInv
<1>6. top.id = stack[n].id
  BY DEF Top
<1> HIDE DEF n
<1>7. /\ \A i \in 1..n : i \in 1..n - 1 \/ i = n
      /\ \A i \in 2..n : i \in 1..n /\ i - 1 \in 1..n - 1
  BY ONLY <1>2
<1>8. \A i \in 1..n : OnCourse(package, context, now, meaning, frames[i].id, frames[i].results, Target(frames[i], todo))
  <2>1. \A i \in 1..n : OnCourse(package, context, now, meaning, stack[i].id, stack[i].results, Target(stack[i], todo))
    BY <1>5 DEF FramesRight, n
  <2>2. OnCourse(package, context, now, meaning, top.id, top.results, Target(top, todo))
    OBVIOUS
  <2>3. n \in Nat
    BY <1>2
  <2>4. \A i \in 1..n : i \in 1..n - 1 => i \in 1..n
    OBVIOUS
  <2> QED
    BY ONLY <1>4, <1>7, <2>1, <2>2
<1>9. \A i \in 2..n : \A y \in ReadBy(package, context, frames[i - 1]) :
        y < frames[i].id => y \in DOMAIN frames[i - 1].bound
  <2>1. \A i \in 2..n : \A y \in ReadBy(package, context, stack[i - 1]) :
          y < stack[i].id => y \in DOMAIN stack[i - 1].bound
    BY <1>5 DEF FramesRight, n
  <2>2. \A i \in 2..n : frames[i - 1] = stack[i - 1] /\ frames[i].id = stack[i].id
    BY ONLY <1>4, <1>6, <1>7
  <2> QED
    BY ONLY <2>1, <2>2
<1>10. FramesRight(package, context, now, meaning, frames, todo)
  BY ONLY <1>4, <1>8, <1>9 DEF FramesRight
<1>11. Interim(frames) <=> Interim(stack)
  BY <1>4 DEF Interim
<1>12. OutcomesRight(package, context, now, meaning, mode, frames, todo, outcomes)
  BY ONLY <1>5, <1>11 DEF OutcomesRight
<1> QED
  BY <1>1, <1>3, <1>5, <1>10, <1>12, MeansKept

\* From the cache.
LEMMA ReadCachedMeans == ASSUME IInv, MeansInv, ReadCached PROVE MeansInv'
<1> DEFINE top == Bind(Top, NextRead, cache[NextRead])
<1>1. stack # << >> /\ stack' = Append(Below, top) /\ UNCHANGED <<todo, cache, outcomes>> /\ Keep
      /\ Inquiring /\ Unbound # {} /\ NextRead \in DOMAIN cache
  BY DEF ReadCached, Inquiring
<1>2. PICK meaning : meaning = Meanings(package, context, now)
  OBVIOUS
<1>3. FrameHolds(package, context, now, mode, cache, Top)
  BY <1>1, TopHolds
<1>4. top.id = Top.id /\ top.results = Top.results
  <2>1. Top = [id |-> Top.id, results |-> Top.results, bound |-> Top.bound]
    BY <1>3 DEF FrameHolds
  <2> QED
    BY ONLY <2>1 DEF Bind
<1>5. OnCourse(package, context, now, meaning, top.id, top.results, Target(top, todo))
  <2>1. Len(stack) \in 1..Len(stack)
    <3>1. Len(stack) \in Nat \ {0}
      BY <1>1, Running
    <3> QED
      BY ONLY <3>1
  <2>2. OnCourse(package, context, now, meaning, Top.id, Top.results, Target(Top, todo))
    BY <1>1, <1>2, <2>1, Underway DEF Top
  <2>3. Target(top, todo) = Target(Top, todo)
    BY ONLY <1>4 DEF Target
  <2> QED
    BY ONLY <1>4, <2>2, <2>3
<1> HIDE DEF top
<1> QED
  BY <1>1, <1>2, <1>4, <1>5, TopMeans

\* What is said of the top.
LEMMA TopIs ==
    ASSUME IInv, MeansInv, stack # << >>, NEW meaning, meaning = Meanings(package, context, now)
    PROVE  /\ Authored(package) /\ Compiles(package) /\ todo # << >>
           /\ package # None /\ mode # "refused"
           /\ Top = [id |-> Top.id, results |-> Top.results, bound |-> Top.bound]
           /\ Fits(package, Top.id, Top.results)
           /\ OnCourse(package, context, now, meaning, Top.id, Top.results, Target(Top, todo))
           /\ \A y \in DOMAIN Top.bound : Known(meaning, y).do # "fail" /\ Top.bound[y] = Known(meaning, y).value
           /\ Pending = AskNext(package, context, Top.id, Top.results)
           /\ Pending.do = "ask" => Reads(Pending.expression) \subseteq Nat
<1>1. Len(stack) \in 1..Len(stack)
  <2>1. Len(stack) \in Nat \ {0}
    BY Running
  <2> QED
    BY ONLY <2>1
<1>2. /\ Fits(package, Top.id, Top.results)
      /\ OnCourse(package, context, now, meaning, Top.id, Top.results, Target(Top, todo))
      /\ \A y \in DOMAIN Top.bound : Known(meaning, y).do # "fail" /\ Top.bound[y] = Known(meaning, y).value
  BY <1>1, Underway DEF Top
<1>3. Authored(package) /\ Compiles(package) /\ package # None /\ mode # "refused"
  BY Running DEF Authored
<1>4. Top = [id |-> Top.id, results |-> Top.results, bound |-> Top.bound]
      /\ (Pending.do = "ask" => Reads(Pending.expression) \subseteq Nat)
  BY TopHolds DEF FrameHolds
<1> QED
  BY <1>2, <1>3, <1>4 DEF MeansInv, Pending

\* What is read next is the first that is not bound; and if it fails, so does the
\* top.
LEMMA NextFails ==
    ASSUME IInv, MeansInv, Inquiring, Unbound # {}, NEW meaning, meaning = Meanings(package, context, now)
    PROVE  /\ NextRead \in Reads(Pending.expression)
           /\ \A y \in Reads(Pending.expression) : y < NextRead => y \in DOMAIN Top.bound
           /\ \A y \in Reads(Pending.expression) : y < NextRead => Known(meaning, y).do # "fail"
           /\ Known(meaning, NextRead).do = "fail" =>
                Meant(package, context, now, Top.id, meaning, Target(Top, todo)) = Known(meaning, NextRead)
<1>1. stack # << >> /\ Pending.do = "ask"
  BY DEF Inquiring
<1>2. Unbound \subseteq Nat /\ Reads(Pending.expression) \subseteq Nat
  BY <1>1, TopHolds DEF Unbound
<1>3. NextRead \in Unbound /\ \A y \in Unbound : NextRead <= y
  BY <1>2, Least DEF NextRead
<1>4. ASSUME NEW y \in Reads(Pending.expression), y < NextRead
      PROVE  y \in DOMAIN Top.bound
  <2>1. y \in Nat /\ NextRead \in Nat
    BY <1>2, <1>3
  <2>2. y \notin Unbound
    BY <1>3, <1>4, <2>1
  <2> QED
    BY <2>2 DEF Unbound
<1>5. \A y \in Reads(Pending.expression) : y < NextRead => Known(meaning, y).do # "fail"
  BY <1>1, <1>4, TopIs
<1>6. NextRead \in Reads(Pending.expression)
  BY <1>3 DEF Unbound
<1>7. ASSUME Known(meaning, NextRead).do = "fail"
      PROVE  Meant(package, context, now, Top.id, meaning, Target(Top, todo)) = Known(meaning, NextRead)
  <2>1. /\ Authored(package) /\ Compiles(package)
        /\ Fits(package, Top.id, Top.results)
        /\ OnCourse(package, context, now, meaning, Top.id, Top.results, Target(Top, todo))
        /\ Pending = AskNext(package, context, Top.id, Top.results)
    BY <1>1, TopIs
  <2>2. FailsFirst(meaning, NextRead, Reads(Pending.expression))
    BY <1>5, <1>6, <1>7 DEF FailsFirst
  <2> HIDE DEF Pending
  <2> QED
    BY ONLY <1>1, <2>1, <2>2, ReadFails
<1> QED
  BY <1>4, <1>5, <1>6, <1>7

\* A variable that is read while it is being resolved means that there is a cycle.
LEMMA CycleIsMeant ==
    ASSUME IInv, MeansInv, Inquiring, Unbound # {}, NextRead \in resolving,
           NEW meaning, meaning = Meanings(package, context, now)
    PROVE  Known(meaning, NextRead) = Bottom
<1> DEFINE n == Len(stack)
<1>1. stack # << >> /\ Pending.do = "ask"
  BY DEF Inquiring
<1>2. n \in Nat \ {0} /\ Authored(package) /\ Compiles(package)
  BY <1>1, Running
<1>3. PICK k \in 2..n : stack[k].id = NextRead
  BY DEF IInv, Marked, MarksHold
<1> DEFINE C == {stack[i].id : i \in k..n}
<1>4. /\ \A i \in k..n : i \in 2..n /\ i \in 1..n /\ (i # n => i + 1 \in 2..n /\ i + 1 \in k..n /\ (i + 1) - 1 = i)
      /\ k \in k..n
  <2> HIDE DEF n
  <2> QED
    BY ONLY <1>2, k \in 2..n
<1>5. NextRead \in C
  BY <1>3, <1>4
<1>6. ASSUME NEW i \in k..n
      PROVE  stack[i].id \in Variables(package) /\ Leads(package, context, now, meaning, stack[i].id, C)
  <2> DEFINE id == stack[i].id
             heard == stack[i].results
             reads == Reads(AskNext(package, context, id, heard).expression)
  <2>1. id \in Variables(package) \ {Nobody}
    BY <1>1, <1>4, Waiting
  <2>2. Fits(package, id, heard) /\ OnCourse(package, context, now, meaning, id, heard, Nobody)
    <3>1. i \in 1..Len(stack)
      BY <1>4
    <3>2. Fits(package, id, heard) /\ OnCourse(package, context, now, meaning, id, heard, Target(stack[i], todo))
      BY <1>1, <3>1, Underway
    <3>3. Target(stack[i], todo) = Nobody
      BY <2>1 DEF Target
    <3> QED
      BY <3>2, <3>3
  <2>3. \E w : /\ AskNext(package, context, id, heard).do = "ask"
               /\ w \in C \cap reads
               /\ \A y \in reads : y < w => Known(meaning, y).do # "fail"
    <3>1. CASE i = n
      <4>1. AskNext(package, context, id, heard) = Pending
        BY <3>1 DEF Pending, Top
      <4>2. /\ NextRead \in Reads(Pending.expression)
            /\ \A y \in Reads(Pending.expression) : y < NextRead => Known(meaning, y).do # "fail"
        BY NextFails
      <4> HIDE DEF C, id, heard
      <4> QED
        BY <1>1, <1>5, <4>1, <4>2
    <3>2. CASE i # n
      <4>1. i + 1 \in 2..Len(stack) /\ i + 1 \in k..n /\ (i + 1) - 1 = i
        BY <1>4, <3>2
      <4>2. PICK j : j = i + 1
        OBVIOUS
      <4>3. j \in 2..Len(stack) /\ j \in k..n /\ j - 1 = i
        BY ONLY <4>1, <4>2
      <4>4. /\ NextOf(package, context, stack[j - 1]).do = "ask"
            /\ stack[j].id \in Reads(NextOf(package, context, stack[j - 1]).expression)
            /\ \A y \in Reads(NextOf(package, context, stack[j - 1]).expression) :
                 y < stack[j].id => Known(meaning, y).do # "fail"
        BY <1>1, <4>3, Waiting
      <4>5. AskNext(package, context, id, heard) = NextOf(package, context, stack[j - 1])
        BY <4>3 DEF NextOf
      <4>6. stack[j].id \in C
        BY <4>3
      <4> HIDE DEF C, id, heard
      <4> QED
        BY ONLY <4>4, <4>5, <4>6
    <3> QED
      BY <3>1, <3>2
  <2> HIDE DEF C, id, heard
  <2>4. Leads(package, context, now, meaning, id, C)
    BY <2>2, <2>3 DEF Leads
  <2> QED
    BY <2>1, <2>4 DEF id
<1>7. C \in SUBSET Variables(package) /\ \A id \in C : Leads(package, context, now, meaning, id, C)
  <2>1. \A i \in k..n : stack[i].id \in Variables(package)
    BY <1>6
  <2>2. C \in SUBSET Variables(package)
    BY <2>1
  <2>3. ASSUME NEW id \in C PROVE Leads(package, context, now, meaning, id, C)
    <3>1. PICK i \in k..n : id = stack[i].id
      OBVIOUS
    <3> HIDE DEF C
    <3> QED
      BY <1>6, <3>1
  <2> QED
    BY <2>2, <2>3
<1> HIDE DEF C
<1> QED
  BY <1>2, <1>5, <1>7, CirclesFail

\* A new frame has its variable, and no results.
LEMMA FrameIs == ASSUME NEW id PROVE Frame(id).id = id /\ Frame(id).results = << >>
BY DEF Frame

\* The frame of a resolution that begins.
LEMMA FrameBeginsRight ==
    ASSUME NEW p, Authored(p), Compiles(p), NEW c, NEW time, NEW meaning,
           NEW id, id \in Variables(p) \/ id = Nobody, NEW target
    PROVE  OnCourse(p, c, time, meaning, Frame(id).id, Frame(id).results, target)
<1>1. Listed(p.policies) /\ Listed(<< >>) /\ Len(<< >>) = 0
  BY Nothing DEF Authored
<1>2. Len(p.policies) \in Nat
  BY <1>1, Lists
<1>3. Fits(p, id, << >>)
  <2>1. Len(<< >>) <= Len(p.policies)
    BY ONLY <1>1, <1>2
  <2> QED
    BY <1>1, <2>1 DEF Fits
<1>4. MostAsks(p, id) \in Nat
  BY <1>3, FitAsks
<1>5. OnCourse(p, c, time, meaning, id, << >>, target)
  BY <1>4, CourseBegins
<1> QED
  BY <1>5, FrameIs

\* What is read comes first.
LEMMA ReadResolvingMeans == ASSUME IInv, MeansInv, ReadResolving PROVE MeansInv'
<1> DEFINE n == Len(stack)
           frame == Frame(NextRead)
<1>1. /\ Inquiring /\ Unbound # {} /\ NextRead \notin DOMAIN cache /\ stack # << >> /\ Keep
      /\ IF NextRead \in resolving THEN Throw("cycle")
         ELSE IF NextRead \notin Variables(package) THEN Throw("not found")
         ELSE /\ stack' = Append(stack, frame)
              /\ UNCHANGED <<todo, cache, outcomes>>
  BY DEF ReadResolving, Inquiring
<1>2. PICK meaning : meaning = Meanings(package, context, now)
  OBVIOUS
<1>3. /\ Authored(package) /\ Compiles(package) /\ todo # << >> /\ package # None /\ mode # "refused"
  BY <1>1, <1>2, TopIs
<1>4. ASSUME NEW error, Throw(error), Known(meaning, NextRead) = Wrong(error)
      PROVE  MeansInv'
  <2>1. PICK last : last = Wrong(error)
    OBVIOUS
  <2>2. last.do = "fail" /\ Known(meaning, NextRead) = last
    BY <1>4, <2>1, WrongFails
  <2>3. Meant(package, context, now, Top.id, meaning, Target(Top, todo)) = last
    BY <1>1, <1>2, <2>2, NextFails
  <2>4. Expected(package, context, now, meaning, mode, Head(todo)) = last
    BY <1>1, <1>2, <2>2, <2>3, FailureIsExpected
  <2> QED
    BY <1>1, <1>2, <1>3, <1>4, <2>1, <2>4, ThrowMeans
<1>5. CASE NextRead \in resolving
  <2>1. Known(meaning, NextRead) = Wrong("cycle")
    BY <1>1, <1>2, <1>5, CycleIsMeant DEF Bottom
  <2> QED
    BY <1>1, <1>4, <1>5, <2>1
<1>6. CASE NextRead \notin resolving /\ NextRead \notin Variables(package)
  <2>1. Known(meaning, NextRead) = Wrong("not found")
    BY <1>2, <1>3, <1>6, KnownIsMeant
  <2> QED
    BY <1>1, <1>4, <1>6, <2>1
<1>7. CASE NextRead \notin resolving /\ NextRead \in Variables(package)
  <2>1. /\ todo' = todo /\ cache' = cache /\ outcomes' = outcomes /\ UNCHANGED <<package, context, now, mode>>
    BY <1>1, <1>7 DEF Keep
  <2>2. n \in Nat \ {0} /\ Listed(stack)
    BY <1>1, Running
  <2>3. PICK frames : frames = stack'
    OBVIOUS
  <2>4. Len(frames) = n + 1 /\ (\A i \in 1..n : frames[i] = stack[i]) /\ frames[n + 1] = frame /\ Listed(frames)
    <3>1. /\ Listed(Append(stack, frame)) /\ Len(Append(stack, frame)) = Len(stack) + 1
          /\ \A i \in 1..Len(stack) : Append(stack, frame)[i] = stack[i]
          /\ Append(stack, frame)[Len(stack) + 1] = frame
      BY <2>2, Appended
    <3>2. frames = Append(stack, frame)
      BY <1>1, <1>7, <2>3
    <3> HIDE DEF frame
    <3> QED
      BY ONLY <3>1, <3>2
  <2>5. OnCourse(package, context, now, meaning, frame.id, frame.results, Target(frame, todo))
    BY <1>3, <1>7, FrameBeginsRight
  <2>6. frame.id = NextRead
    BY FrameIs
  <2>7. \A y \in ReadBy(package, context, stack[n]) : y < NextRead => y \in DOMAIN stack[n].bound
    <3>1. \A y \in Reads(Pending.expression) : y < NextRead => y \in DOMAIN Top.bound
      BY <1>1, <1>2, NextFails
    <3>2. ReadBy(package, context, stack[n]) = Reads(Pending.expression)
      BY <1>1 DEF ReadBy, NextOf, Pending, Top, Inquiring
    <3> QED
      BY <3>1, <3>2 DEF Top
  <2>8. /\ CacheRight(cache, meaning) /\ FramesRight(package, context, now, meaning, stack, todo)
        /\ OutcomesRight(package, context, now, meaning, mode, stack, todo, outcomes)
    BY <1>2 DEF MeansInv
  <2>9. /\ \A i \in 1..n : OnCourse(package, context, now, meaning, stack[i].id, stack[i].results, Target(stack[i], todo))
        /\ \A i \in 2..n : \A y \in ReadBy(package, context, stack[i - 1]) :
             y < stack[i].id => y \in DOMAIN stack[i - 1].bound
    BY <2>8 DEF FramesRight
  <2> HIDE DEF n, frame
  <2>10. /\ \A i \in 1..n + 1 : i \in 1..n \/ i = n + 1
         /\ \A i \in 2..n + 1 : i \in 2..n \/ i = n + 1
         /\ \A i \in 2..n : i \in 1..n /\ i - 1 \in 1..n
         /\ (n + 1) - 1 = n /\ n \in 1..n /\ 1 \in 1..n
    BY ONLY <2>2
  <2>11. \A i \in 1..n + 1 :
           OnCourse(package, context, now, meaning, frames[i].id, frames[i].results, Target(frames[i], todo))
    BY ONLY <2>4, <2>5, <2>9, <2>10
  <2>12. \A i \in 2..n + 1 : \A y \in ReadBy(package, context, frames[i - 1]) :
           y < frames[i].id => y \in DOMAIN frames[i - 1].bound
    BY ONLY <2>4, <2>6, <2>7, <2>9, <2>10
  <2>13. FramesRight(package, context, now, meaning, frames, todo)
    BY ONLY <2>4, <2>11, <2>12 DEF FramesRight
  <2>14. Interim(frames) <=> Interim(stack)
    <3>1. frames[1] = stack[1]
      BY <2>4, <2>10
    <3>2. frames # << >>
      <4>1. Len(frames) # 0
        BY ONLY <2>2, <2>4
      <4> QED
        BY <2>4, <4>1, Lists
    <3> QED
      BY <1>1, <3>1, <3>2 DEF Interim
  <2>15. OutcomesRight(package, context, now, meaning, mode, frames, todo, outcomes)
    BY ONLY <2>8, <2>14 DEF OutcomesRight
  <2> QED
    BY <1>2, <1>3, <2>1, <2>3, <2>8, <2>13, <2>15, MeansKept
<1> QED
  BY <1>5, <1>6, <1>7

\* The answer to what the top asks.
LEMMA EvaluateMeans == ASSUME IInv, MeansInv, EvaluateTop PROVE MeansInv'
<1> DEFINE target == IF Top.id = Nobody THEN Head(todo) ELSE Nobody
           value == Answer(Pending, Evaluate(package, context, EnvNow, Pending.expression, Top.bound,
                                             Pending.at, target))
           top == [Top EXCEPT !.results = Append(@, value), !.bound = << >>]
<1>1. /\ stack # << >> /\ Pending.do = "ask" /\ Unbound = {} /\ Keep /\ Inquiring
      /\ IF value = Fails THEN Throw("evaluation")
         ELSE stack' = Append(Below, top) /\ UNCHANGED <<todo, cache, outcomes>>
  BY DEF EvaluateTop, Inquiring
<1>2. PICK meaning : meaning = Meanings(package, context, now)
  OBVIOUS
<1>3. /\ Authored(package) /\ Compiles(package) /\ todo # << >>
      /\ Top = [id |-> Top.id, results |-> Top.results, bound |-> Top.bound]
      /\ Fits(package, Top.id, Top.results)
      /\ OnCourse(package, context, now, meaning, Top.id, Top.results, Target(Top, todo))
      /\ \A y \in DOMAIN Top.bound : Known(meaning, y).do # "fail" /\ Top.bound[y] = Known(meaning, y).value
      /\ Pending = AskNext(package, context, Top.id, Top.results)
  BY <1>1, <1>2, TopIs
<1>4. Binds(Top.bound, meaning, Reads(Pending.expression))
  <2>1. FrameHolds(package, context, now, mode, cache, Top) /\ Pending = NextOf(package, context, Top)
    BY <1>1, TopHolds
  <2>2. ReadBy(package, context, Top) = Reads(Pending.expression)
    BY <1>1, <2>1 DEF ReadBy
  <2>3. DOMAIN Top.bound = Reads(Pending.expression)
    BY <1>1, <2>1, <2>2 DEF FrameHolds, Unbound
  <2>4. Top.bound = [x \in DOMAIN Top.bound |-> Top.bound[x]]
    <3>1. Top.bound = [x \in DOMAIN Top.bound |-> cache[x]]
      BY <2>1 DEF FrameHolds
    <3> QED
      BY ONLY <3>1
  <2>5. PICK bound : bound = Top.bound
    OBVIOUS
  <2>6. /\ bound = [x \in Reads(Pending.expression) |-> bound[x]]
        /\ \A y \in Reads(Pending.expression) : Known(meaning, y).do # "fail" /\ bound[y] = Known(meaning, y).value
    BY ONLY <1>3, <2>3, <2>4, <2>5
  <2>7. bound = [x \in Reads(Pending.expression) |-> Known(meaning, x).value]
    BY ONLY <2>6
  <2> QED
    BY <2>5, <2>6, <2>7 DEF Binds
<1>5. target = Target(Top, todo)
  BY DEF Target
<1>6. Says(value, package, context, now, Pending, Top.bound, target)
  BY DEF Says, EnvNow
<1> HIDE DEF target, value
<1>7. Heard(package, context, now, meaning, target, Top.results, Pending) = Hearing(Top.results, value)
  BY <1>4, <1>6, HeardRight
<1>8. CASE value = Fails
  <2>1. PICK last : last = Wrong("evaluation")
    OBVIOUS
  <2>2. last.do = "fail" /\ Ended(last)
    BY <2>1, WrongFails DEF Ended
  <2>3. last = Heard(package, context, now, meaning, Target(Top, todo), Top.results, Pending)
    BY <1>5, <1>7, <1>8, <2>1 DEF Hearing
  <2>4. Meant(package, context, now, Top.id, meaning, Target(Top, todo)) = last
    <3> HIDE DEF Pending
    <3> QED
      BY ONLY <1>1, <1>3, <2>2, <2>3, CourseFails
  <2>5. Expected(package, context, now, meaning, mode, Head(todo)) = last
    BY <1>1, <1>2, <2>2, <2>4, FailureIsExpected
  <2> QED
    BY <1>1, <1>2, <1>3, <1>8, <2>1, <2>5, ThrowMeans
<1>9. CASE value # Fails
  <2>1. Heard(package, context, now, meaning, Target(Top, todo), Top.results, Pending) = GoingOn(Append(Top.results, value))
    BY <1>5, <1>7, <1>9 DEF Hearing, GoingOn
  <2>2. OnCourse(package, context, now, meaning, Top.id, Append(Top.results, value), Target(Top, todo))
    <3> HIDE DEF Pending
    <3> QED
      BY ONLY <1>1, <1>3, <2>1, CourseStays
  <2>3. top.id = Top.id /\ top.results = Append(Top.results, value)
    BY ONLY <1>3
  <2> HIDE DEF top
  <2>4. Target(top, todo) = Target(Top, todo)
    BY <2>3 DEF Target
  <2>5. OnCourse(package, context, now, meaning, top.id, top.results, Target(top, todo))
    BY <2>2, <2>3, <2>4
  <2> QED
    BY <1>1, <1>2, <1>9, <2>3, <2>5, TopMeans
<1> QED
  BY <1>8, <1>9

\* The batch comes to a variable.
LEMMA CallMeans == ASSUME IInv, MeansInv, Call PROVE MeansInv'
<1>1. /\ todo # << >> /\ stack = << >> /\ Keep
      /\ IF Head(todo) \in Variables(package)
         THEN stack' = <<Frame(Head(todo))>> /\ UNCHANGED <<todo, cache, resolving, outcomes>>
         ELSE Throw("not found")
  BY DEF Call
<1>2. mode \notin {"", "refused"} /\ package # None
  BY <1>1 DEF IInv, Loaded
<1>3. PICK meaning : meaning = Meanings(package, context, now)
  OBVIOUS
<1>4. /\ Authored(package) /\ Compiles(package)
      /\ \A id : id \notin Variables(package) => Known(meaning, id) = Wrong("not found")
  BY <1>2, <1>3, KnownIsMeant
<1>5. CASE Head(todo) \notin Variables(package)
  <2>1. Known(meaning, Head(todo)) = Wrong("not found")
    BY <1>4, <1>5
  <2>2. Expected(package, context, now, meaning, mode, Head(todo)) = Wrong("not found")
    BY <2>1, WrongFails DEF Expected
  <2> QED
    BY <1>1, <1>3, <1>5, <2>2, ThrowMeans
<1>6. CASE Head(todo) \in Variables(package)
  <2>1. /\ todo' = todo /\ cache' = cache /\ outcomes' = outcomes /\ UNCHANGED <<package, context, now, mode>>
        /\ stack' = <<Frame(Head(todo))>>
    BY <1>1, <1>6 DEF Keep
  <2>2. /\ CacheRight(cache, meaning)
        /\ OutcomesRight(package, context, now, meaning, mode, stack, todo, outcomes)
    BY <1>3 DEF MeansInv
  <2>3. PICK frame : frame = Frame(Head(todo))
    OBVIOUS
  <2>4. OnCourse(package, context, now, meaning, frame.id, frame.results, Target(frame, todo))
    BY <1>4, <1>6, <2>3, FrameBeginsRight
  <2>5. Len(<<frame>>) = 1 /\ <<frame>>[1] = frame /\ 2..1 = {} /\ 1..1 = {1}
    BY ONLY One
  <2>6. FramesRight(package, context, now, meaning, <<frame>>, todo)
    BY ONLY <2>4, <2>5 DEF FramesRight
  <2>7. ~Interim(<<frame>>) /\ ~Interim(stack)
    <3>1. frame.id # Nobody
      BY <1>4, <1>6, <2>3, FrameIs DEF Authored
    <3> QED
      BY <1>1, <2>5, <3>1 DEF Interim
  <2>8. OutcomesRight(package, context, now, meaning, mode, <<frame>>, todo, outcomes)
    BY ONLY <2>2, <2>7 DEF OutcomesRight
  <2> QED
    BY <1>1, <1>3, <2>1, <2>2, <2>3, <2>6, <2>8, MeansKept
<1> QED
  BY <1>5, <1>6

\* A variable that was read is resolved.
LEMMA ReturnMeansMore ==
    ASSUME IInv, MeansInv, stack # << >>, Len(stack) > 1, NEW meaning, meaning = Meanings(package, context, now),
           NEW value, Known(meaning, Top.id).do # "fail", value = Known(meaning, Top.id).value,
           cache' = With(cache, Top.id, value),
           stack' = Append(SubSeq(stack, 1, Len(stack) - 2), Bind(stack[Len(stack) - 1], Top.id, value)),
           UNCHANGED <<todo, outcomes>>, Keep
    PROVE  MeansInv'
<1> DEFINE n == Len(stack)
           caller == stack[n - 1]
           bound == Bind(caller, Top.id, value)
           short == SubSeq(stack, 1, n - 2)
<1>1. /\ todo' = todo /\ outcomes' = outcomes /\ UNCHANGED <<package, context, now, mode>> /\ todo # << >>
  BY DEF Keep, MeansInv
<1>2. Listed(stack) /\ n \in Nat \ {0, 1}
  <2>1. Listed(stack) /\ n \in Nat \ {0} /\ n > 1
    BY Running
  <2> HIDE DEF n
  <2> QED
    BY ONLY <2>1
<1>3. bound.id = caller.id /\ bound.results = caller.results
  <2>1. n - 1 \in 1..n
    <3> HIDE DEF n
    <3> QED
      BY ONLY <1>2
  <2>2. FrameHolds(package, context, now, mode, cache, caller)
    BY <2>1, Running
  <2>3. caller = [id |-> caller.id, results |-> caller.results, bound |-> caller.bound]
    BY <2>2 DEF FrameHolds
  <2> HIDE DEF caller
  <2> QED
    BY ONLY <2>3 DEF Bind
<1>4. PICK frames : frames = stack'
  OBVIOUS
<1>5. /\ Listed(frames) /\ Len(frames) = n - 1 /\ \A i \in 1..n - 2 : frames[i] = stack[i]
      /\ frames[n - 1] = bound
  <2>1. n - 2 \in 0..n /\ (n - 2) + 1 = n - 1
    <3> HIDE DEF n
    <3> QED
      BY ONLY <1>2
  <2>2. Listed(short) /\ Len(short) = n - 2 /\ \A i \in 1..n - 2 : short[i] = stack[i]
    BY ONLY <1>2, <2>1, Shortened
  <2>3. frames = Append(short, bound)
    BY <1>4
  <2> HIDE DEF n, short, bound
  <2>4. /\ Listed(Append(short, bound)) /\ Len(Append(short, bound)) = Len(short) + 1
        /\ \A i \in 1..Len(short) : Append(short, bound)[i] = short[i]
        /\ Append(short, bound)[Len(short) + 1] = bound
    BY ONLY <2>2, Appended
  <2> QED
    BY ONLY <2>1, <2>2, <2>3, <2>4
<1>6. /\ CacheRight(cache, meaning) /\ FramesRight(package, context, now, meaning, stack, todo)
      /\ OutcomesRight(package, context, now, meaning, mode, stack, todo, outcomes)
  BY DEF MeansInv
<1>7. /\ \A i \in 1..n : OnCourse(package, context, now, meaning, stack[i].id, stack[i].results, Target(stack[i], todo))
      /\ \A i \in 2..n : \A y \in ReadBy(package, context, stack[i - 1]) :
           y < stack[i].id => y \in DOMAIN stack[i - 1].bound
  BY <1>6 DEF FramesRight
<1>8. CacheRight(cache', meaning)
  <2> DEFINE more == With(cache, Top.id, value)
  <2>1. DOMAIN more = {Top.id} \cup DOMAIN cache /\ more[Top.id] = value
        /\ \A x \in DOMAIN cache : x # Top.id => more[x] = cache[x]
    BY ONLY DEF With
  <2>2. cache' = more
    OBVIOUS
  <2> HIDE DEF more
  <2>3. \A x \in DOMAIN more : Known(meaning, x).do # "fail" /\ more[x] = Known(meaning, x).value
    BY <1>6, <2>1 DEF CacheRight
  <2> QED
    BY <2>2, <2>3 DEF CacheRight
<1> HIDE DEF n
<1>9. /\ \A i \in 1..n - 1 : i \in 1..n /\ (i \in 1..n - 2 \/ i = n - 1)
      /\ \A i \in 2..n - 1 : i \in 2..n /\ i - 1 \in 1..n - 2 /\ i \in 1..n - 1
      /\ n - 1 \in 1..n /\ 1 \in 1..n - 1
  BY ONLY <1>2
<1>10. \A i \in 1..n - 1 : frames[i].id = stack[i].id /\ frames[i].results = stack[i].results
  <2> HIDE DEF bound
  <2> QED
    BY ONLY <1>3, <1>5, <1>9 DEF caller
<1>11. \A i \in 1..n - 1 :
         OnCourse(package, context, now, meaning, frames[i].id, frames[i].results, Target(frames[i], todo))
  <2>1. \A i \in 1..n - 1 : Target(frames[i], todo) = Target(stack[i], todo)
    BY ONLY <1>10 DEF Target
  <2> QED
    BY ONLY <1>7, <1>9, <1>10, <2>1
<1>12. \A i \in 2..n - 1 : \A y \in ReadBy(package, context, frames[i - 1]) :
         y < frames[i].id => y \in DOMAIN frames[i - 1].bound
  BY ONLY <1>5, <1>7, <1>9, <1>10
<1>13. FramesRight(package, context, now, meaning, frames, todo)
  BY ONLY <1>5, <1>11, <1>12 DEF FramesRight
<1>14. Interim(frames) <=> Interim(stack)
  <2>1. frames[1].id = stack[1].id
    BY <1>9, <1>10
  <2>2. frames # << >>
    <3>1. Len(frames) # 0
      BY ONLY <1>2, <1>5
    <3> QED
      BY <1>5, <3>1, Lists
  <2> QED
    BY <2>1, <2>2 DEF Interim
<1>15. OutcomesRight(package, context, now, meaning, mode, frames, todo, outcomes)
  BY ONLY <1>6, <1>14 DEF OutcomesRight
<1> QED
  BY <1>1, <1>4, <1>8, <1>13, <1>15, MeansKept

\* A resolution is done.
LEMMA ReturnMeans == ASSUME IInv, MeansInv, Return PROVE MeansInv'
<1>1. /\ stack # << >> /\ Pending.do # "ask" /\ Keep
      /\ IF Pending.do = "fail" THEN Throw(Pending.error)
         ELSE IF Len(stack) > 1
         THEN /\ cache' = With(cache, Top.id, Pending.value)
              /\ stack' = Append(SubSeq(stack, 1, Len(stack) - 2),
                                 Bind(Below[Len(Below)], Top.id, Pending.value))
              /\ UNCHANGED <<todo, outcomes>>
         ELSE IF Top.id = Nobody
         THEN stack' = << >> /\ todo' = Tail(todo) /\ UNCHANGED <<cache, outcomes>>
         ELSE IF mode = "traced"
         THEN /\ stack' = <<Frame(Nobody)>>
              /\ outcomes' = With(outcomes, Top.id, Pending)
              /\ UNCHANGED <<todo, cache>>
         ELSE stack' = << >> /\ Settle(Pending) /\ UNCHANGED cache
  BY DEF Return
<1>2. PICK meaning : meaning = Meanings(package, context, now)
  OBVIOUS
<1>3. /\ Authored(package) /\ Compiles(package) /\ todo # << >> /\ package # None /\ mode # "refused"
      /\ Fits(package, Top.id, Top.results)
      /\ OnCourse(package, context, now, meaning, Top.id, Top.results, Target(Top, todo))
      /\ Pending = AskNext(package, context, Top.id, Top.results)
  BY <1>1, <1>2, TopIs
<1>4. Meant(package, context, now, Top.id, meaning, Target(Top, todo)) = Pending
  <2> HIDE DEF Pending
  <2> QED
    BY ONLY <1>1, <1>3, CourseEnds
<1>5. ASSUME Top.id # Nobody
      PROVE  Known(meaning, Top.id) = Pending
  <2>1. Top.id \in Variables(package) /\ Target(Top, todo) = Nobody
    BY <1>1, <1>5, TopHolds DEF Target
  <2>2. Known(meaning, Top.id) = Meant(package, context, now, Top.id, meaning, Nobody)
    BY <1>2, <1>3, <2>1, KnownIsMeant
  <2> QED
    BY <1>4, <2>1, <2>2
<1>6. Len(stack) \in Nat \ {0} /\ Listed(stack) /\ stack[1].id \in {Nobody, Head(todo)}
  BY <1>1, Running
<1>7. /\ CacheRight(cache, meaning)
      /\ OutcomesRight(package, context, now, meaning, mode, stack, todo, outcomes)
  BY <1>2 DEF MeansInv
<1>8. CASE Pending.do = "fail"
  <2>1. Pending = Wrong(Pending.error)
    <3> HIDE DEF Pending
    <3> QED
      BY ONLY <1>3, <1>8, ErrorsAreWrong
  <2>2. PICK last : last = Pending
    OBVIOUS
  <2>3. Expected(package, context, now, meaning, mode, Head(todo)) = last
    BY <1>1, <1>2, <1>4, <1>8, <2>2, FailureIsExpected
  <2>4. PICK error : error = Pending.error
    OBVIOUS
  <2>5. Throw(error)
    BY <1>1, <1>8, <2>4
  <2>6. Wrong(error) = Expected(package, context, now, meaning, mode, Head(todo))
    BY <2>1, <2>2, <2>3, <2>4
  <2> QED
    BY <1>1, <1>2, <1>3, <2>5, <2>6, ThrowMeans
<1>9. CASE Pending.do # "fail" /\ Len(stack) > 1
  <2>1. Below[Len(Below)] = stack[Len(stack) - 1]
    <3>1. Len(stack) - 1 \in 0..Len(stack) /\ Len(stack) - 1 \in 1..Len(stack) - 1
      <4>1. Len(stack) \in Nat /\ Len(stack) > 1
        BY <1>6, <1>9
      <4> QED
        BY ONLY <4>1
    <3>2. Len(Below) = Len(stack) - 1 /\ \A i \in 1..Len(stack) - 1 : Below[i] = stack[i]
      BY ONLY <1>6, <3>1, Shortened DEF Below
    <3> QED
      BY ONLY <3>1, <3>2
  <2>2. Top.id # Nobody
    <3>1. Len(stack) \in 2..Len(stack)
      <4>1. Len(stack) \in Nat /\ Len(stack) > 1
        BY <1>6, <1>9
      <4> QED
        BY ONLY <4>1
    <3> QED
      BY <1>1, <1>2, <3>1, Waiting DEF Top
  <2>3. PICK value : value = Pending.value
    OBVIOUS
  <2>4. Known(meaning, Top.id).do # "fail" /\ value = Known(meaning, Top.id).value
    BY <1>5, <1>9, <2>2, <2>3
  <2>5. /\ cache' = With(cache, Top.id, value)
        /\ stack' = Append(SubSeq(stack, 1, Len(stack) - 2), Bind(stack[Len(stack) - 1], Top.id, value))
        /\ UNCHANGED <<todo, outcomes>>
    BY <1>1, <1>9, <2>1, <2>3
  <2>6. IInv /\ MeansInv /\ stack # << >> /\ Len(stack) > 1 /\ Keep
    BY <1>1, <1>9
  <2> QED
    BY ONLY <1>2, <2>4, <2>5, <2>6, ReturnMeansMore
<1>10. CASE Pending.do # "fail" /\ ~(Len(stack) > 1)
  <2>1. Len(stack) = 1
    <3>1. Len(stack) \in Nat \ {0} /\ ~(Len(stack) > 1)
      BY <1>6, <1>10
    <3>2. PICK depth : depth = Len(stack)
      OBVIOUS
    <3>3. depth = 1
      BY ONLY <3>1, <3>2
    <3> QED
      BY ONLY <3>2, <3>3
  <2>2. Top = stack[1]
    BY <2>1 DEF Top
  <2>3. UNCHANGED <<package, context, now, mode>>
    BY <1>1 DEF Keep
  <2>4. cache' = cache
    BY <1>1, <1>10
  <2>5. CASE Top.id = Nobody
    <3>1. stack' = << >> /\ todo' = Tail(todo) /\ outcomes' = outcomes
      BY <1>1, <1>10, <2>5
    <3>2. Interim(stack)
      BY <1>1, <2>2, <2>5 DEF Interim
    <3>3. Expected(package, context, now, meaning, mode, Head(todo)) = outcomes[Head(todo)]
      <4>1. Meant(package, context, now, Nobody, meaning, Head(todo)) = Pending
        BY <1>4, <2>5 DEF Target
      <4>2. outcomes[Head(todo)] = Known(meaning, Head(todo))
        BY <1>7, <3>2 DEF OutcomesRight
      <4> HIDE DEF Pending
      <4> QED
        BY <1>10, <4>1, <4>2 DEF Expected
    <3>4. \A id \in DOMAIN outcomes : outcomes[id] = Expected(package, context, now, meaning, mode, id)
      BY <1>7, <3>3 DEF OutcomesRight
    <3>5. OutcomesRight(package, context, now, meaning, mode, << >>, todo', outcomes)
      BY <3>4 DEF OutcomesRight, Interim
    <3>6. FramesRight(package, context, now, meaning, << >>, todo')
      BY NoFrames
    <3> QED
      BY <1>2, <1>7, <2>3, <2>4, <3>1, <3>5, <3>6, MeansKept
  <2>6. CASE Top.id # Nobody
    <3>1. Top.id = Head(todo)
      BY <1>6, <2>2, <2>6
    <3>2. Known(meaning, Head(todo)) = Pending
      BY <1>5, <2>6, <3>1
    <3>3. CASE mode # "traced"
      <4>1. Pending = Expected(package, context, now, meaning, mode, Head(todo))
        BY <3>2, <3>3 DEF Expected
      <4>2. stack' = << >> /\ outcomes' = With(outcomes, Head(todo), Pending)
        BY <1>1, <1>10, <2>6, <3>3 DEF Settle
      <4>3. PICK outcome : outcome = Pending
        OBVIOUS
      <4>4. OutcomesRight(package, context, now, meaning, mode, << >>, todo', outcomes')
        BY <1>2, <1>3, <4>1, <4>2, <4>3, SettledRight
      <4>5. FramesRight(package, context, now, meaning, << >>, todo')
        BY NoFrames
      <4> QED
        BY <1>2, <1>7, <2>3, <2>4, <4>2, <4>4, <4>5, MeansKept
    <3>4. CASE mode = "traced"
      <4>1. stack' = <<Frame(Nobody)>> /\ outcomes' = With(outcomes, Head(todo), Pending) /\ todo' = todo
        BY <1>1, <1>10, <2>6, <3>1, <3>4
      <4>2. PICK outcome : outcome = Pending
        OBVIOUS
      <4>3. PICK first : first = Head(todo)
        OBVIOUS
      <4>4. PICK found : found = outcomes'
        OBVIOUS
      <4>5. /\ DOMAIN found = {first} \cup DOMAIN outcomes
            /\ found[first] = outcome
            /\ \A y \in DOMAIN outcomes : y # first => found[y] = outcomes[y]
        <5>1. found = With(outcomes, first, outcome)
          BY <4>1, <4>2, <4>3, <4>4
        <5> QED
          BY ONLY <5>1 DEF With
      <4>6. PICK frame : frame = Frame(Nobody)
        OBVIOUS
      <4>7. frame.id = Nobody
        BY <4>6, FrameIs
      <4>8. OnCourse(package, context, now, meaning, frame.id, frame.results, Target(frame, todo))
        BY <1>3, <4>6, FrameBeginsRight
      <4>9. Len(<<frame>>) = 1 /\ <<frame>>[1] = frame /\ 2..1 = {} /\ 1..1 = {1}
        BY ONLY One
      <4>10. FramesRight(package, context, now, meaning, <<frame>>, todo)
        BY ONLY <4>8, <4>9 DEF FramesRight
      <4>11. Interim(<<frame>>) /\ ~Interim(stack)
        <5>1. <<frame>> # << >>
          BY ONLY <4>9, Nothing
        <5> QED
          BY <2>2, <2>6, <4>7, <4>9, <5>1 DEF Interim
      <4>12. Known(meaning, first) = outcome /\ outcome.do # "fail"
        BY <1>10, <3>2, <4>2, <4>3
      <4>13. \A id \in DOMAIN found : id = first \/ found[id] = Expected(package, context, now, meaning, mode, id)
        BY <1>7, <4>5, <4>11 DEF OutcomesRight
      <4>14. OutcomesRight(package, context, now, meaning, mode, <<frame>>, todo, found)
        BY ONLY <4>3, <4>5, <4>11, <4>12, <4>13 DEF OutcomesRight
      <4> QED
        BY <1>2, <1>3, <1>7, <2>3, <2>4, <4>1, <4>4, <4>6, <4>10, <4>14, MeansKept
    <3> QED
      BY <3>3, <3>4
  <2> QED
    BY <2>5, <2>6
<1> QED
  BY <1>8, <1>9, <1>10

\* Before a batch there is nothing to mean.
Blank(known, frames, found) == known = << >> /\ frames = << >> /\ found = << >>

\* A batch in which nothing is resolved yet has the invariant.
LEMMA BlankMeans ==
    ASSUME NEW p, NEW c, NEW time, NEW meaning, NEW m, NEW ids, NEW known, NEW frames, NEW found,
           Blank(known, frames, found)
    PROVE  /\ CacheRight(known, meaning) /\ FramesRight(p, c, time, meaning, frames, ids)
           /\ OutcomesRight(p, c, time, meaning, m, frames, ids, found)
           /\ frames = << >>
<1>1. DOMAIN << >> = {}
  OBVIOUS
<1>2. known = << >> /\ frames = << >> /\ found = << >>
  BY DEF Blank
<1>3. FramesRight(p, c, time, meaning, frames, ids)
  BY <1>2, NoFrames
<1>4. CacheRight(known, meaning) /\ OutcomesRight(p, c, time, meaning, m, frames, ids, found)
  BY <1>1, <1>2 DEF CacheRight, OutcomesRight, Interim
<1> QED
  BY <1>2, <1>3, <1>4

\* What variables mean, they come to in every behaviour.
LEMMA MeansInvariance == Spec => [](IInv /\ MeansInv)
<1>1. Init => MeansInv
  <2> SUFFICES ASSUME Init
               PROVE  MeansInv
    OBVIOUS
  <2>1. Blank(cache, stack, outcomes)
    BY DEF Init, Blank
  <2> QED
    BY <2>1, BlankMeans DEF MeansInv
<1>2. IInv /\ MeansInv /\ [Next]_vars => MeansInv'
  <2> SUFFICES ASSUME IInv, MeansInv, [Next]_vars
               PROVE  MeansInv'
    OBVIOUS
  <2>1. ASSUME Blank(cache', stack', outcomes')
        PROVE  MeansInv'
    BY <2>1, BlankMeans DEF MeansInv
  <2>2. mode \in {"", "refused"} => Blank(cache, stack, outcomes)
    BY DEF IInv, Loaded, Blank
  <2>3. ASSUME /\ package' = package /\ context' = context /\ now' = now /\ mode' = mode
               /\ todo' = todo /\ stack' = stack /\ cache' = cache /\ outcomes' = outcomes
        PROVE  MeansInv'
    BY <2>3 DEF MeansInv
  <2>4. CASE UNCHANGED vars
    BY <2>3, <2>4 DEF vars
  <2>5. CASE package = None /\ \E p \in Packages : Load(p)
    <3>1. mode = ""
      BY <2>5 DEF IInv, Loaded
    <3>2. cache' = cache /\ stack' = stack /\ outcomes' = outcomes
      BY <2>5 DEF Load
    <3> QED
      BY <2>1, <2>2, <3>1, <3>2
  <2>6. CASE \E c \in Contexts :
               \/ package # None
                    /\ \E m \in {"strict", "outcomes"} : Start(m, Ascending(Variables(package)), c)
               \/ package # None /\ \E id \in Variables(package) \cup {Unknown} : Start("traced", <<id>>, c)
    <3>1. mode = "" /\ cache' = cache /\ stack' = stack /\ outcomes' = outcomes
      BY <2>6 DEF Start
    <3> QED
      BY <2>1, <2>2, <3>1
  <2>7. CASE Tick
    BY <2>3, <2>7 DEF Tick
  <2>8. CASE Call
    BY <2>8, CallMeans
  <2>9. CASE ReadCached
    BY <2>9, ReadCachedMeans
  <2>10. CASE ReadResolving
    BY <2>10, ReadResolvingMeans
  <2>11. CASE EvaluateTop
    BY <2>11, EvaluateMeans
  <2>12. CASE Return
    BY <2>12, ReturnMeans
  <2> QED
    BY <2>4, <2>5, <2>6, <2>7, <2>8, <2>9, <2>10, <2>11, <2>12 DEF Next
<1> QED
  BY <1>1, <1>2, Invariance, PTL DEF Spec

\* So a batch that is done means of each variable what it means.
LEMMA BatchMeansHolds == IInv /\ MeansInv => BatchMeansEach
<1> SUFFICES ASSUME MeansInv, todo = << >>, NEW meaning, meaning = Meanings(package, context, now),
                    NEW id \in DOMAIN outcomes
             PROVE  outcomes[id] = Expected(package, context, now, meaning, mode, id)
  BY DEF BatchMeansEach, Expected
<1>1. stack = << >> /\ OutcomesRight(package, context, now, meaning, mode, stack, todo, outcomes)
  BY DEF MeansInv
<1> QED
  BY <1>1 DEF OutcomesRight, Interim

\* Whatever was resolved before it in the batch, and however the clock moved, a
\* variable comes out as it would alone at the start of the batch.
THEOREM BatchesMeanEach == Spec => []BatchMeansEach
BY MeansInvariance, BatchMeansHolds, PTL


-----------------------------------------------------------------------------
(* Two versions of a package.                                               *)

\* What is reached from a start has it, and what its steps lead to.
LEMMA ReachedCloses ==
    ASSUME NEW start, NEW next, start \in DOMAIN next, \A y \in DOMAIN next : next[y] \subseteq DOMAIN next
    PROVE  /\ start \in Reached(start, next) /\ Reached(start, next) \subseteq DOMAIN next
           /\ \A y \in Reached(start, next) : next[y] \subseteq Reached(start, next)
BY DEF Reached

\* Two ends of a resolution that the app cannot tell apart: the rule or the arm that
\* was chosen may have another place.
Same(x, y) ==
    \/ x = y
    \/ x.do = "fail" /\ y.do = "fail" /\ x.error = y.error
    \/ x.do = "choose" /\ y.do = "choose" /\ x.value = y.value

\* They fail alike, and their values are one.
LEMMA SameEnds ==
    ASSUME NEW x, NEW y, Same(x, y)
    PROVE  /\ x.do = y.do
           /\ x.do = "fail" => x.error = y.error
           /\ x.do # "fail" => x.value = y.value
           /\ x.do = "go on" \/ x.do = "ask" => x = y
BY DEF Same

\* What a variable reads and what the app receives of two ends of a resolution is one.
Like(x, y) ==
    /\ x.do = "fail" <=> y.do = "fail"
    /\ x.do = "fail" => x.error = y.error
    /\ x.do # "fail" => x.value = y.value

\* The values of some variables in two versions.
Agree(meaning, other, ids) == \A x \in ids : Like(Known(meaning, x), Known(other, x))

\* An expression heard in two versions, where what it reads means the same and what
\* it is made of evaluates to the same.
LEMMA HeardSame ==
    ASSUME NEW p, NEW q, NEW c, NEW time, NEW then, NEW meaning, NEW other, NEW target, NEW sofar, NEW ask,
           Reads(ask.expression) \subseteq Nat, Agree(meaning, other, Reads(ask.expression)),
           \A bound : Evaluate(p, c, time, ask.expression, bound, ask.at, target)
                      = Evaluate(q, c, then, ask.expression, bound, ask.at, target)
    PROVE  Same(Heard(p, c, time, meaning, target, sofar, ask), Heard(q, c, then, other, target, sofar, ask))
<1> DEFINE reads == Reads(ask.expression)
           wrong == {x \in reads : Known(meaning, x).do = "fail"}
           one == Heard(p, c, time, meaning, target, sofar, ask)
           two == Heard(q, c, then, other, target, sofar, ask)
<1>1. \A x \in reads : /\ Known(meaning, x).do = "fail" <=> Known(other, x).do = "fail"
                       /\ Known(meaning, x).do # "fail" => Known(meaning, x).value = Known(other, x).value
  BY DEF Agree, Like
<1>2. CASE wrong = {}
  <2>1. \A x \in reads : Known(meaning, x).do # "fail"
    BY <1>2
  <2>2. PICK bound : Binds(bound, meaning, reads)
    BY <2>1 DEF Binds
  <2>3. Binds(bound, other, reads)
    BY <1>1, <2>1, <2>2 DEF Binds
  <2>4. PICK value : Says(value, p, c, time, ask, bound, target)
    BY DEF Says
  <2>5. Says(value, q, c, then, ask, bound, target)
    BY <2>4 DEF Says
  <2>6. one = Hearing(sofar, value)
    BY <2>2, <2>4, HeardRight
  <2>7. two = Hearing(sofar, value)
    BY <2>3, <2>5, HeardRight
  <2> QED
    BY ONLY <2>6, <2>7 DEF Same
<1>3. CASE wrong # {}
  <2>1. PICK w \in wrong : \A y \in wrong : w <= y
    <3>1. wrong \subseteq Nat
      OBVIOUS
    <3> HIDE DEF wrong
    <3> QED
      BY <1>3, <3>1, Least
  <2>2. w \in reads /\ Known(meaning, w).do = "fail" /\ \A y \in reads : Known(meaning, y).do = "fail" => w <= y
    BY <2>1
  <2>3. reads \subseteq Nat
    OBVIOUS
  <2>4. one = Known(meaning, w)
    BY ONLY <2>2, <2>3, HeardWrong
  <2>5. Known(other, w).do = "fail" /\ \A y \in reads : Known(other, y).do = "fail" => w <= y
    BY <1>1, <2>2
  <2>6. two = Known(other, w)
    BY ONLY <2>2, <2>3, <2>5, HeardWrong
  <2>7. Known(meaning, w).do = "fail" /\ Known(other, w).do = "fail" /\ Known(meaning, w).error = Known(other, w).error
    BY <2>2, <2>5 DEF Agree, Like
  <2> QED
    BY ONLY <2>4, <2>6, <2>7 DEF Same
<1> QED
  BY <1>2, <1>3

\* What goes on has one answer more.
OneMore(next, sofar) == \E value : next.results = Append(sofar, value)
LEMMA HeardGoesOn ==
    ASSUME NEW p, NEW c, NEW time, NEW meaning, NEW target, NEW sofar,
           NEW ask, Reads(ask.expression) \subseteq Nat,
           NEW next, next = Heard(p, c, time, meaning, target, sofar, ask)
    PROVE  \/ next.do = "fail"
           \/ next.do = "go on" /\ OneMore(next, sofar)
<1>1. CASE \E y \in Reads(ask.expression) : Known(meaning, y).do = "fail"
  <2> DEFINE wrong == {x \in Reads(ask.expression) : Known(meaning, x).do = "fail"}
  <2>1. PICK w \in wrong : \A y \in wrong : w <= y
    <3>1. wrong \subseteq Nat /\ wrong # {}
      BY <1>1
    <3> HIDE DEF wrong
    <3> QED
      BY <3>1, Least
  <2>2. /\ w \in Reads(ask.expression) /\ Known(meaning, w).do = "fail"
        /\ \A y \in Reads(ask.expression) : Known(meaning, y).do = "fail" => w <= y
    BY <2>1
  <2>3. next = Heard(p, c, time, meaning, target, sofar, ask) /\ Reads(ask.expression) \subseteq Nat
    OBVIOUS
  <2>4. next = Known(meaning, w)
    BY ONLY <2>2, <2>3, HeardWrong
  <2> QED
    BY ONLY <2>2, <2>4
<1>2. CASE \A y \in Reads(ask.expression) : Known(meaning, y).do # "fail"
  <2>1. PICK bound : Binds(bound, meaning, Reads(ask.expression))
    BY <1>2 DEF Binds
  <2>2. PICK value : Says(value, p, c, time, ask, bound, target)
    BY DEF Says
  <2>3. next = Hearing(sofar, value)
    <3>1. next = Heard(p, c, time, meaning, target, sofar, ask)
      OBVIOUS
    <3> QED
      BY ONLY <2>1, <2>2, <3>1, HeardRight
  <2>4. CASE value = Fails
    BY ONLY <2>3, <2>4 DEF Hearing, Wrong
  <2>5. CASE value # Fails
    <3>1. next = [do |-> "go on", results |-> Append(sofar, value)]
      BY ONLY <2>3, <2>5 DEF Hearing
    <3>2. next.do = "go on" /\ next.results = Append(sofar, value)
      BY ONLY <3>1
    <3> QED
      BY ONLY <3>2 DEF OneMore
  <2> QED
    BY <2>4, <2>5
<1> QED
  BY <1>1, <1>2

\* Two resolutions that end alike, or, if laxly compared, the first by the default;
\* and if plain, with a literal of the package.
Alike(x, y, lax, plain) ==
    /\ Same(x, y) \/ (lax /\ x.do = "choose" /\ x.by = 0)
    /\ x.do = "choose" /\ plain => x.value.type \notin EntryValues

\* A variable asks the same in two versions, of the variables of a set and of what
\* evaluates to the same.
AsksAlike(p, q, c, time, then, id, ids, lax, plain) ==
    \A heard : Listed(heard) /\ Len(heard) <= MostAsks(p, id) =>
        LET next == AskNext(p, c, id, heard)
        IN  /\ Alike(next, AskNext(q, c, id, heard), lax, plain)
            /\ next.do = "ask" =>
                 /\ Reads(next.expression) \subseteq ids
                 /\ \A bound : Evaluate(p, c, time, next.expression, bound, next.at, Nobody)
                               = Evaluate(q, c, then, next.expression, bound, next.at, Nobody)

\* Then the resolution goes the same way,
LEMMA AskingSame ==
    ASSUME NEW p, Authored(p), Compiles(p), NEW q, NEW c, NEW time, NEW then, NEW id \in Variables(p),
           NEW ids, NEW lax, NEW plain, AsksAlike(p, q, c, time, then, id, ids, lax, plain),
           NEW meaning, NEW other, Agree(meaning, other, ids),
           NEW posed, posed = Asking(p, c, time, id, meaning, Nobody),
           NEW again, again = Asking(q, c, then, id, other, Nobody)
    PROVE  \A n \in Nat : Alike(posed[n], again[n], lax, plain)
<1> DEFINE most == MostAsks(p, id)
           Fine(far) == far.do = "go on" => Listed(far.results) /\ Len(far.results) <= most
           Good == {n \in Nat : Alike(posed[n], again[n], lax, plain) /\ Fine(posed[n])}
<1>1. posed = Asking(p, c, time, id, meaning, Nobody) /\ again = Asking(q, c, then, id, other, Nobody)
  OBVIOUS
<1>2. posed[0] = Outset /\ again[0] = Outset
  BY ONLY <1>1, AskingIs
<1>3. \A n \in Nat : posed[n + 1] = Further(p, c, time, id, meaning, Nobody, posed[n])
  BY ONLY <1>1, AskingIs
<1>4. \A n \in Nat : again[n + 1] = Further(q, c, then, id, other, Nobody, again[n])
  BY ONLY <1>1, AskingIs
<1>5. most \in Nat
  BY AsksAreBounded
<1>6. 0 \in Good
  <2>1. Outset.do = "go on" /\ Outset.results = << >>
    BY ONLY DEF Outset
  <2>2. Alike(Outset, Outset, lax, plain)
    BY ONLY <2>1 DEF Alike, Same
  <2>3. Fine(Outset)
    <3>1. Listed(Outset.results) /\ Len(Outset.results) = 0
      BY ONLY <2>1, Nothing
    <3>2. Len(Outset.results) <= most
      <4> HIDE DEF most
      <4> QED
        BY ONLY <1>5, <3>1
    <3> QED
      BY ONLY <3>1, <3>2
  <2> HIDE DEF Fine
  <2> QED
    BY <1>2, <2>2, <2>3
<1>7. ASSUME NEW n \in Nat, n \in Good
      PROVE  n + 1 \in Good
  <2>1. PICK far, near : far = posed[n] /\ near = again[n]
    OBVIOUS
  <2>2. PICK next, last : next = posed[n + 1] /\ last = again[n + 1]
    OBVIOUS
  <2>3. next = Further(p, c, time, id, meaning, Nobody, far) /\ last = Further(q, c, then, id, other, Nobody, near)
    BY ONLY <1>3, <1>4, <2>1, <2>2, n \in Nat
  <2>4. Alike(far, near, lax, plain) /\ Fine(far)
    BY <1>7, <2>1
  <2>5. ASSUME far.do # "go on" PROVE Alike(next, last, lax, plain) /\ Fine(next)
    <3>1. next = far
      BY ONLY <2>3, <2>5, FurtherIs
    <3>2. Fine(next)
      BY ONLY <2>5, <3>1
    <3>3. CASE lax /\ far.do = "choose" /\ far.by = 0
      BY ONLY <2>4, <3>1, <3>2, <3>3 DEF Alike
    <3>4. CASE Same(far, near)
      <4>1. near.do # "go on"
        BY ONLY <2>5, <3>4, SameEnds
      <4>2. last = near
        BY ONLY <2>3, <4>1, FurtherIs
      <4> QED
        BY ONLY <2>4, <3>1, <3>2, <4>2
    <3> QED
      BY <2>4, <3>3, <3>4 DEF Alike
  <2>6. ASSUME far.do = "go on" PROVE Alike(next, last, lax, plain) /\ Fine(next)
    <3>1. near = far
      <4>1. Same(far, near)
        BY ONLY <2>4, <2>6 DEF Alike
      <4> QED
        BY ONLY <4>1, <2>6, SameEnds
    <3>2. Listed(far.results) /\ Len(far.results) <= most
      BY ONLY <2>4, <2>6
    <3>3. PICK ask, too : ask = AskNext(p, c, id, far.results) /\ too = AskNext(q, c, id, far.results)
      OBVIOUS
    <3>4. next = IF ask.do = "ask" THEN Heard(p, c, time, meaning, Nobody, far.results, ask) ELSE ask
      BY ONLY <2>3, <2>6, <3>3, FurtherIs
    <3>5. last = IF too.do = "ask" THEN Heard(q, c, then, other, Nobody, far.results, too) ELSE too
      BY ONLY <2>3, <2>6, <3>1, <3>3, FurtherIs
    <3>6. /\ Alike(ask, too, lax, plain)
          /\ ask.do = "ask" =>
               /\ Reads(ask.expression) \subseteq ids
               /\ \A bound : Evaluate(p, c, time, ask.expression, bound, ask.at, Nobody)
                             = Evaluate(q, c, then, ask.expression, bound, ask.at, Nobody)
      BY <3>2, <3>3 DEF AsksAlike
    <3>7. CASE ask.do # "ask"
      <4>1. ask.do # "go on"
        BY <3>2, <3>3, AskEnds
      <4>2. next = ask
        BY ONLY <3>4, <3>7
      <4>3. Fine(next)
        BY ONLY <4>1, <4>2
      <4>4. CASE lax /\ ask.do = "choose" /\ ask.by = 0
        BY ONLY <3>6, <4>2, <4>3, <4>4 DEF Alike
      <4>5. CASE Same(ask, too)
        <5>1. too.do # "ask"
          BY ONLY <3>7, <4>5, SameEnds
        <5>2. last = too
          BY ONLY <3>5, <5>1
        <5> QED
          BY ONLY <3>6, <4>2, <4>3, <5>2
      <4> QED
        BY <3>6, <4>4, <4>5 DEF Alike
    <3>8. CASE ask.do = "ask"
      <4>1. too = ask
        <5>1. Same(ask, too)
          BY ONLY <3>6, <3>8 DEF Alike
        <5> QED
          BY ONLY <3>8, <5>1, SameEnds
      <4>2. Reads(ask.expression) \subseteq Nat /\ Len(far.results) < most
        BY <3>2, <3>3, <3>8, AskedIsCounted, AsksAreBounded
      <4>3. Agree(meaning, other, Reads(ask.expression))
        BY <3>6, <3>8 DEF Agree
      <4>4. Same(Heard(p, c, time, meaning, Nobody, far.results, ask), Heard(q, c, then, other, Nobody, far.results, ask))
        BY ONLY <3>6, <3>8, <4>2, <4>3, HeardSame
      <4>5. next = Heard(p, c, time, meaning, Nobody, far.results, ask) /\ Same(next, last)
        BY ONLY <3>4, <3>5, <3>8, <4>1, <4>4
      <4>6. next.do = "fail" \/ (next.do = "go on" /\ OneMore(next, far.results))
        <5>1. PICK sofar : sofar = far.results
          OBVIOUS
        <5>2. next = Heard(p, c, time, meaning, Nobody, sofar, ask) /\ Reads(ask.expression) \subseteq Nat
          BY ONLY <4>2, <4>5, <5>1
        <5>3. next.do = "fail" \/ (next.do = "go on" /\ OneMore(next, sofar))
          BY ONLY <5>2, HeardGoesOn
        <5> QED
          BY ONLY <5>1, <5>3
      <4>7. Fine(next)
        <5>1. \A value : Listed(Append(far.results, value)) /\ Len(Append(far.results, value)) = Len(far.results) + 1
          BY ONLY <3>2, Appended
        <5>2. Len(far.results) \in Nat
          BY ONLY <3>2, Lists
        <5>3. Len(far.results) + 1 <= most
          <6> HIDE DEF most
          <6> QED
            BY ONLY <1>5, <4>2, <5>2
        <5> QED
          BY ONLY <4>6, <5>1, <5>3 DEF OneMore
      <4>8. Alike(next, last, lax, plain)
        BY ONLY <4>5, <4>6 DEF Alike
      <4> QED
        BY ONLY <4>7, <4>8
    <3> QED
      BY ONLY <3>7, <3>8
  <2>7. Alike(next, last, lax, plain) /\ Fine(next)
    BY ONLY <2>5, <2>6
  <2> HIDE DEF Fine
  <2> QED
    BY <2>2, <2>7
<1>8. \A n \in Nat : n \in Good
  <2> HIDE DEF Good
  <2> QED
    BY ONLY <1>6, <1>7, Inductive
<1> QED
  BY <1>8

\* and comes to the same.
LEMMA MeantSame ==
    ASSUME NEW p, Authored(p), Compiles(p), NEW q, NEW c, NEW time, NEW then, NEW id \in Variables(p),
           NEW ids, NEW lax, NEW plain, AsksAlike(p, q, c, time, then, id, ids, lax, plain),
           MostAsks(p, id) = MostAsks(q, id), NEW meaning, NEW other, Agree(meaning, other, ids)
    PROVE  Alike(Meant(p, c, time, id, meaning, Nobody), Meant(q, c, then, id, other, Nobody), lax, plain)
<1>1. PICK posed, again : /\ posed = Asking(p, c, time, id, meaning, Nobody)
                          /\ again = Asking(q, c, then, id, other, Nobody)
  OBVIOUS
<1>2. \A n \in Nat : Alike(posed[n], again[n], lax, plain)
  BY <1>1, AskingSame
<1>3. MostAsks(p, id) + 1 \in Nat
  BY AsksAreBounded
<1>4. Alike(posed[MostAsks(p, id) + 1], again[MostAsks(p, id) + 1], lax, plain)
  BY <1>2, <1>3
<1> QED
  BY <1>1, <1>4 DEF Meant

\* References followed more often than there are variables change nothing.
LEMMA FollowingStays ==
    ASSUME NEW p, Authored(p), Compiles(p), NEW c, NEW time, NEW f, f = Following(p, c, time)
    PROVE  /\ Cardinality(Variables(p)) \in Nat
           /\ \A k \in Nat : f[Cardinality(Variables(p)) + k] = Meanings(p, c, time)
<1>1. PICK size : size = Cardinality(Variables(p))
  OBVIOUS
<1>2. size \in Nat /\ f[size] = f[size + 1]
  BY <1>1, AllCounted, FollowingStands
<1> DEFINE Good == {k \in Nat : f[size + k] = f[size]}
<1>3. 0 \in Good
  BY <1>2
<1>4. ASSUME NEW k \in Nat, k \in Good PROVE k + 1 \in Good
  <2>1. \A n \in Nat : f[n + 1] = Follows(p, c, time, f[n])
    BY FollowingAll
  <2>2. size + k \in Nat /\ (size + k) + 1 = size + (k + 1)
    BY ONLY <1>2, k \in Nat
  <2>3. f[size + (k + 1)] = Follows(p, c, time, f[size + k])
    BY ONLY <2>1, <2>2
  <2>4. f[size + 1] = Follows(p, c, time, f[size])
    BY ONLY <1>2, <2>1
  <2>5. f[size + k] = f[size]
    BY ONLY <1>4
  <2> QED
    BY ONLY <1>2, <2>3, <2>4, <2>5, k \in Nat
<1>5. \A k \in Nat : k \in Good
  <2> HIDE DEF Good
  <2> QED
    BY ONLY <1>3, <1>4, Inductive
<1>6. Meanings(p, c, time) = f[size]
  BY <1>1 DEF Meanings
<1> QED
  BY <1>1, <1>2, <1>5, <1>6

\* Ends that are alike, not laxly, are one for who reads them.
LEMMA AlikeIsLike ==
    ASSUME NEW x, NEW y, NEW plain, Alike(x, y, FALSE, plain)
    PROVE  Like(x, y)
<1>1. Same(x, y)
  BY DEF Alike
<1>2. x.do = y.do /\ (x.do = "fail" => x.error = y.error) /\ (x.do # "fail" => x.value = y.value)
  BY ONLY <1>1, SameEnds
<1> QED
  BY ONLY <1>2 DEF Like

\* The variables of one type are literals of the package, as the app receives them.
Plain(p, id) == p.variables[id].type.class # "catalog"

\* If variables of a set ask alike and of each other only, they mean the same.
LEMMA MeaningsSame ==
    ASSUME NEW p, Authored(p), Compiles(p), NEW q, Authored(q), Compiles(q), NEW c, NEW time, NEW then, NEW ids,
           \A x \in ids : x \in Variables(p) <=> x \in Variables(q),
           \A x \in ids \cap Variables(p) : /\ MostAsks(p, x) = MostAsks(q, x)
                                            /\ AsksAlike(p, q, c, time, then, x, ids, FALSE, Plain(p, x)),
           NEW meaning, meaning = Meanings(p, c, time), NEW other, other = Meanings(q, c, then)
    PROVE  \A x \in ids \cap Variables(p) : Alike(meaning[x], other[x], FALSE, Plain(p, x))
<1>1. PICK f, g : f = Following(p, c, time) /\ g = Following(q, c, then)
  OBVIOUS
<1> DEFINE Good == {n \in Nat : Agree(f[n], g[n], ids)}
<1>2. \A n \in Nat : DOMAIN f[n] = Variables(p) /\ f[n + 1] = Follows(p, c, time, f[n])
  BY <1>1, FollowingAll
<1>3. \A n \in Nat : DOMAIN g[n] = Variables(q) /\ g[n + 1] = Follows(q, c, then, g[n])
  BY <1>1, FollowingAll
<1>4. ASSUME NEW one, NEW two, DOMAIN one = Variables(p), DOMAIN two = Variables(q),
             \A x \in ids \cap Variables(p) : Like(one[x], two[x])
      PROVE  Agree(one, two, ids)
  <2>1. ASSUME NEW x \in ids PROVE Like(Known(one, x), Known(two, x))
    <3>1. CASE x \in Variables(p)
      BY <1>4, <3>1 DEF Known
    <3>2. CASE x \notin Variables(p)
      <4>1. Known(one, x) = Wrong("not found") /\ Known(two, x) = Wrong("not found")
        BY <1>4, <3>2 DEF Known
      <4>2. Wrong("not found").do = "fail"
        BY ONLY DEF Wrong
      <4> QED
        BY ONLY <4>1, <4>2 DEF Like
    <3> QED
      BY <3>1, <3>2
  <2> QED
    BY <2>1 DEF Agree
<1>5. ASSUME NEW one, NEW two, Agree(one, two, ids), NEW x \in ids \cap Variables(p)
      PROVE  Alike(Meant(p, c, time, x, one, Nobody), Meant(q, c, then, x, two, Nobody), FALSE, Plain(p, x))
  <2>1. /\ MostAsks(p, x) = MostAsks(q, x) /\ x \in Variables(p)
        /\ AsksAlike(p, q, c, time, then, x, ids, FALSE, Plain(p, x))
    OBVIOUS
  <2> QED
    BY <1>5, <2>1, MeantSame
<1>6. 0 \in Good
  <2>1. \A x \in ids \cap Variables(p) : Like(f[0][x], g[0][x])
    <3>1. f[0] = Nowhere(p) /\ g[0] = Nowhere(q)
      BY <1>1, FollowingIs
    <3>2. \A x \in ids \cap Variables(p) : Nowhere(p)[x] = Bottom /\ Nowhere(q)[x] = Bottom
      BY DEF Nowhere
    <3>3. Like(Bottom, Bottom)
      <4>1. Bottom.do = "fail"
        BY ONLY DEF Bottom, Wrong
      <4> QED
        BY ONLY <4>1 DEF Like
    <3> QED
      BY ONLY <3>1, <3>2, <3>3
  <2>2. DOMAIN f[0] = Variables(p) /\ DOMAIN g[0] = Variables(q)
    BY <1>2, <1>3
  <2> QED
    BY <1>4, <2>1, <2>2
<1>7. ASSUME NEW n \in Nat, n \in Good PROVE n + 1 \in Good
  <2>1. PICK one, two : one = f[n] /\ two = g[n]
    OBVIOUS
  <2>2. Agree(one, two, ids)
    BY <1>7, <2>1
  <2>3. PICK more, further : more = f[n + 1] /\ further = g[n + 1]
    OBVIOUS
  <2>4. /\ DOMAIN more = Variables(p) /\ DOMAIN further = Variables(q)
        /\ more = Follows(p, c, time, one) /\ further = Follows(q, c, then, two)
    BY ONLY <1>2, <1>3, <2>1, <2>3, n \in Nat
  <2>5. ASSUME NEW x \in ids \cap Variables(p) PROVE Like(more[x], further[x])
    <3>1. more[x] = Meant(p, c, time, x, one, Nobody) /\ further[x] = Meant(q, c, then, x, two, Nobody)
      BY <2>4, FollowsIs
    <3>2. Alike(more[x], further[x], FALSE, Plain(p, x))
      BY <1>5, <2>2, <3>1
    <3> QED
      BY <3>2, AlikeIsLike
  <2>6. Agree(more, further, ids)
    BY <1>4, <2>4, <2>5
  <2> QED
    BY <2>3, <2>6
<1>8. \A n \in Nat : n \in Good
  <2> HIDE DEF Good
  <2> QED
    BY ONLY <1>6, <1>7, Inductive
<1>9. PICK m, n : m = Cardinality(Variables(p)) /\ n = Cardinality(Variables(q))
  OBVIOUS
<1>10. m \in Nat /\ \A k \in Nat : f[m + k] = meaning
  BY <1>1, <1>9, FollowingStays
<1>11. n \in Nat /\ \A k \in Nat : g[n + k] = other
  BY <1>1, <1>9, FollowingStays
<1>12. f[m + n] = meaning /\ g[m + n] = other
  <2>1. m + n = n + m
    BY <1>10, <1>11
  <2> QED
    BY <1>10, <1>11, <2>1
<1>13. Agree(meaning, other, ids)
  <2>1. m + n \in Nat
    BY <1>10, <1>11
  <2> QED
    BY <1>8, <1>12, <2>1
<1>14. \A x \in Variables(p) : meaning[x] = Meant(p, c, time, x, meaning, Nobody)
  BY AllCounted, MeaningsAre
<1>15. \A x \in Variables(q) : other[x] = Meant(q, c, then, x, other, Nobody)
  BY AllCounted, MeaningsAre
<1> QED
  BY <1>5, <1>13, <1>14, <1>15

-----------------------------------------------------------------------------
(* What an expression evaluates to.                                          *)

\* A list, or a catalog, that two versions have alike or both do not have.
SameList(p, q, l) ==
    /\ l \in DOMAIN p.lists <=> l \in DOMAIN q.lists
    /\ l \in DOMAIN p.lists => p.lists[l] = q.lists[l]
SameCatalog(p, q, d) ==
    /\ d \in DOMAIN p.catalogs <=> d \in DOMAIN q.catalogs
    /\ d \in DOMAIN p.catalogs => p.catalogs[d] = q.catalogs[d]

\* A path of references, from an entry up to one.
Path(p, at, n, path) ==
    /\ Climb(p, at, n) = path[n] /\ path[0] = <<at>>
    /\ \A i \in 1..n : path[i] = Climbing(p, path[i - 1])

\* The view of an entry follows one.
LEMMA ClimbIs ==
    ASSUME NEW p, NEW at, NEW n \in Nat
    PROVE  \E path : Path(p, at, n, path)
<1> DEFINE s == [of |-> "climbing", p |-> p, at |-> at]
           Entry(f, i) == IF i = 0 THEN <<at>> ELSE Climbing(p, f[i - 1])
           path == CHOOSE f : f = [i \in 0..n |-> Entry(f, i)]
<1>1. Begin(s) = <<at>>
  BY DEF Begin
<1>2. \A x : Go(s, x) = Climbing(p, x)
  BY DEF Go
<1> HIDE DEF s
<1>3. PICK f : Upto(s, n, f)
  BY UptoIs
<1>4. f = [i \in 0..n |-> Entry(f, i)]
  BY <1>1, <1>2, <1>3 DEF Upto
<1>5. Climb(p, at, n) = path[n]
  BY DEF Climb, Climbing
<1> HIDE DEF Entry
<1>6. path = [i \in 0..n |-> Entry(path, i)]
  BY ONLY <1>4
<1>7. \A i \in 0..n : path[i] = Entry(path, i)
  <2> HIDE DEF path
  <2> QED
    BY ONLY <1>6
<1>8. path[0] = <<at>>
  <2> HIDE DEF path
  <2>1. 0 \in 0..n
    BY ONLY n \in Nat
  <2> QED
    BY ONLY <1>7, <2>1 DEF Entry
<1>9. ASSUME NEW i \in 1..n PROVE path[i] = Climbing(p, path[i - 1])
  <2> HIDE DEF path
  <2>1. i \in 0..n /\ i # 0
    BY ONLY n \in Nat, i \in 1..n
  <2> QED
    BY ONLY <1>7, <2>1 DEF Entry
<1>10. Path(p, at, n, path)
  <2> HIDE DEF path
  <2> QED
    BY ONLY <1>5, <1>8, <1>9 DEF Path
<1> QED
  BY ONLY <1>10

\* An entry of a catalog of some.
Within(p, K, at) == at[1] \in K /\ at[1] \in DOMAIN p.catalogs /\ at[2] \in DOMAIN p.catalogs[at[1]]

\* Over catalogs that are alike, whose entries lead to each other, it is the same.
LEMMA ClimbSame ==
    ASSUME NEW p, NEW q, NEW K, \A d \in K : SameCatalog(p, q, d),
           \A d \in K \cap DOMAIN p.catalogs : RefersTo(p, d) \subseteq K,
           NEW at, Within(p, K, at), NEW n \in Nat
    PROVE  /\ Climb(p, at, n) = Climb(q, at, n)
           /\ Climb(p, at, n) # << >> => Within(p, K, End(Climb(p, at, n)))
<1> DEFINE There(end) == Within(p, K, end)
           Fine(path) == path # << >> => Listed(path) /\ There(End(path))
<1>1. PICK f : Path(p, at, n, f)
  BY ClimbIs
<1>2. PICK g : Path(q, at, n, g)
  BY ClimbIs
<1> DEFINE Good == {i \in Nat : i <= n => f[i] = g[i] /\ Fine(f[i])}
<1>3. 0 \in Good
  <2>1. <<at>> \in Seq({at}) /\ Len(<<at>>) = 1 /\ <<at>>[1] = at
    OBVIOUS
  <2>2. Listed(<<at>>) /\ End(<<at>>) = at
    BY ONLY <2>1, SequencesAreListed DEF End
  <2>3. Fine(<<at>>)
    BY <2>2
  <2> HIDE DEF Fine
  <2> QED
    BY <1>1, <1>2, <2>3 DEF Path
<1>4. ASSUME NEW path, Fine(path)
      PROVE  Climbing(p, path) = Climbing(q, path) /\ Fine(Climbing(p, path))
  <2>1. CASE path = << >>
    BY ONLY <2>1 DEF Climbing
  <2>2. CASE path # << >>
    <3>1. PICK end : end = End(path)
      OBVIOUS
    <3>2. PICK to, step : to = p.catalogs[end[1]][end[2]].ref /\ step = Climbing(p, path)
      OBVIOUS
    <3>3. Listed(path) /\ There(end)
      BY <1>4, <2>2, <3>1
    <3>4. to = q.catalogs[end[1]][end[2]].ref
      BY <3>2, <3>3 DEF SameCatalog, Within
    <3>5. to # None => to[1] \in RefersTo(p, end[1])
      BY <3>2, <3>3 DEF RefersTo, Within
    <3>6. to # None => to[1] \in K
      BY <3>3, <3>5 DEF Within
    <3>7. to # None => EntriesOf(p, to[1]) = EntriesOf(q, to[1])
      BY <3>6 DEF SameCatalog, EntriesOf
    <3>8. step = IF to # None /\ to \notin Elements(path) /\ to[2] \in EntriesOf(p, to[1])
                 THEN Append(path, to) ELSE << >>
      BY <2>2, <3>1, <3>2 DEF Climbing
    <3>9. Climbing(q, path) = IF to # None /\ to \notin Elements(path) /\ to[2] \in EntriesOf(q, to[1])
                              THEN Append(path, to) ELSE << >>
      BY <2>2, <3>1, <3>4 DEF Climbing
    <3>10. Climbing(q, path) = step
      BY ONLY <3>7, <3>8, <3>9
    <3>11. ASSUME step # << >> PROVE Listed(step) /\ There(End(step))
      <4>1. to # None /\ to[2] \in EntriesOf(p, to[1]) /\ step = Append(path, to)
        BY ONLY <3>8, <3>11
      <4>2. There(to)
        BY <3>6, <4>1 DEF EntriesOf, Within
      <4>3. Listed(step) /\ Len(step) = Len(path) + 1 /\ step[Len(path) + 1] = to
        BY ONLY <3>3, <4>1, Appended
      <4>4. End(step) = to
        BY ONLY <4>3 DEF End
      <4> QED
        BY ONLY <4>2, <4>3, <4>4
    <3> QED
      BY <3>2, <3>10, <3>11
  <2> QED
    BY <2>1, <2>2
<1>5. ASSUME NEW i \in Nat, i \in Good PROVE i + 1 \in Good
  <2>1. ASSUME i + 1 <= n PROVE f[i + 1] = g[i + 1] /\ Fine(f[i + 1])
    <3>1. i + 1 \in 1..n /\ (i + 1) - 1 = i /\ i <= n
      BY ONLY <2>1, i \in Nat, n \in Nat
    <3>2. f[i] = g[i] /\ Fine(f[i])
      BY ONLY <1>5, <3>1
    <3>3. f[i + 1] = Climbing(p, f[i]) /\ g[i + 1] = Climbing(q, g[i])
      BY ONLY <1>1, <1>2, <3>1 DEF Path
    <3>4. PICK path : path = f[i]
      OBVIOUS
    <3>5. Climbing(p, path) = Climbing(q, path) /\ Fine(Climbing(p, path))
      <4>1. Fine(path)
        BY ONLY <3>2, <3>4
      <4> HIDE DEF Fine
      <4> QED
        BY ONLY <1>4, <4>1
    <3> HIDE DEF Fine
    <3> QED
      BY ONLY <3>2, <3>3, <3>4, <3>5
  <2> HIDE DEF Fine
  <2> QED
    BY <2>1
<1>6. \A i \in Nat : i \in Good
  <2> HIDE DEF Good
  <2> QED
    BY ONLY <1>3, <1>5, Inductive
<1>7. f[n] = g[n] /\ Fine(f[n])
  <2>1. n \in Good /\ n <= n
    BY <1>6
  <2> HIDE DEF Fine
  <2> QED
    BY ONLY <2>1
<1> QED
  BY ONLY <1>1, <1>2, <1>7 DEF Path

\* So what an expression sees of an entry is.
LEMMA FieldSame ==
    ASSUME NEW p, NEW q, NEW K, \A d \in K : SameCatalog(p, q, d),
           \A d \in K \cap DOMAIN p.catalogs : RefersTo(p, d) \subseteq K,
           NEW at, Within(p, K, at), NEW e, e.v.is[1] \in Nat
    PROVE  Field(p, at, e) = Field(q, at, e)
<1>1. PICK n : n = e.v.is[1] /\ n \in Nat
  OBVIOUS
<1>2. PICK path : path = Climb(p, at, n)
  OBVIOUS
<1>3. /\ Climb(q, at, n) = path
      /\ path # << >> => Within(p, K, End(path))
  BY <1>1, <1>2, ClimbSame
<1>4. path # << >> => p.catalogs[End(path)[1]][End(path)[2]] = q.catalogs[End(path)[1]][End(path)[2]]
  BY <1>3 DEF SameCatalog, Within
<1> QED
  BY <1>1, <1>2, <1>3, <1>4 DEF Field

\* An expression evaluates the same if its list and its entry are the same, and the
\* time if it asks for that.
LEMMA EvaluateSame ==
    ASSUME NEW p, NEW q, NEW c, NEW time, NEW then, NEW e, NEW at,
           e.op = "now" => time = then, e.op = "member" => SameList(p, q, e.of),
           ReadsEntry(e) /\ at # None => Field(p, at, e) = Field(q, at, e)
    PROVE  \A bound : Evaluate(p, c, time, e, bound, at, Nobody) = Evaluate(q, c, then, e, bound, at, Nobody)
<1>1. TAKE bound
<1> DEFINE one == Evaluate(p, c, time, e, bound, at, Nobody)
           two == Evaluate(q, c, then, e, bound, at, Nobody)
<1>2. e.op = "member" => (e.of \in DOMAIN p.lists <=> e.of \in DOMAIN q.lists)
  BY DEF SameList
<1>3. e.op = "member" /\ e.of \in DOMAIN p.lists => p.lists[e.of] = q.lists[e.of]
  BY DEF SameList
<1>4. e.op = "now" => (time = e.v.is[1] <=> then = e.v.is[1])
  OBVIOUS
<1>5. e.op \in {"flag", "rank"} /\ at # None => Field(p, at, e) = Field(q, at, e)
  BY DEF ReadsEntry
<1> QED
  BY ONLY <1>2, <1>3, <1>4, <1>5, Zenon DEF Evaluate

-----------------------------------------------------------------------------
(* What the diff passes over.                                                *)

\* Of a place the diff has nothing to say, but that arms expanded.
Quiet(p, q, at) == \A change \in Changes(p, q) : change.at = at => change.kind = "allocation_arms_expanded"

\* Then no other change is one of that place.
LEMMA NotSaid ==
    ASSUME NEW p, NEW q, NEW at, Quiet(p, q, at), NEW kind, kind # "allocation_arms_expanded",
           Change(kind, at) \in DiffVariables(p, q) \cup DiffCatalogs(p, q) \cup DiffLists(p, q) \cup DiffLayers(p, q)
    PROVE  FALSE
<1>1. Change(kind, at) \in Changes(p, q)
  BY DEF Changes
<1>2. Change(kind, at).at = at /\ Change(kind, at).kind = kind
  BY DEF Change
<1> QED
  BY <1>1, <1>2 DEF Quiet

\* A field that differs is a change.
LEMMA FieldSaid ==
    ASSUME NEW kind, NEW at, NEW old, NEW new, old # new
    PROVE  Change(kind, at) \in DiffField(kind, at, old, new)
BY DEF DiffField

\* A variable that nothing is said of is in both versions or in none,
LEMMA VariableStays ==
    ASSUME NEW p, NEW q, NEW x, Quiet(p, q, <<"variable", x>>)
    PROVE  x \in Variables(p) <=> x \in Variables(q)
<1>1. x \in Variables(q) \ Variables(p) => Change("variable_added", <<"variable", x>>) \in DiffVariables(p, q)
  BY DEF DiffVariables, AddedOrRemoved
<1>2. x \in Variables(p) \ Variables(q) => Change("variable_removed", <<"variable", x>>) \in DiffVariables(p, q)
  BY DEF DiffVariables, AddedOrRemoved
<1> QED
  BY <1>1, <1>2, NotSaid

\* and if it is in both,
PartOf(rule, f) == IF rule = Malformed THEN None ELSE Absent(rule[f])
RulesAlike(old, new) ==
    /\ DOMAIN old = DOMAIN new
    /\ \A i \in DOMAIN old : \A f \in {"when", "value"} : PartOf(old[i], f) = PartOf(new[i], f)

\* so are its rules
LEMMA RulesStay ==
    ASSUME NEW p, NEW q, NEW x, Quiet(p, q, <<"variable", x>>), NEW old, NEW new,
           DiffRules(x, old, new) \subseteq DiffVariables(p, q)
    PROVE  RulesAlike(old, new)
<1> DEFINE at == <<"variable", x>>
<1>1. \A i \in DOMAIN new \ DOMAIN old : Change("variable_rule_added", at) \in DiffRules(x, old, new)
  BY DEF DiffRules, AddedOrRemoved
<1>2. \A i \in DOMAIN old \ DOMAIN new : Change("variable_rule_removed", at) \in DiffRules(x, old, new)
  BY DEF DiffRules, AddedOrRemoved
<1>3. DOMAIN old = DOMAIN new
  BY <1>1, <1>2, NotSaid
<1>4. ASSUME NEW i \in DOMAIN old
      PROVE  PartOf(old[i], "when") = PartOf(new[i], "when") /\ PartOf(old[i], "value") = PartOf(new[i], "value")
  <2> DEFINE Differing(j) ==
                 DiffField("variable_rule_when_changed", at, PartOf(old[j], "when"), PartOf(new[j], "when"))
                 \cup DiffField("variable_rule_value_changed", at, PartOf(old[j], "value"), PartOf(new[j], "value"))
  <2>1. UNION {Differing(j) : j \in DOMAIN old \cap DOMAIN new} \subseteq DiffRules(x, old, new)
    BY DEF DiffRules, PartOf, AddedOrRemoved
  <2>2. Differing(i) \subseteq UNION {Differing(j) : j \in DOMAIN old \cap DOMAIN new}
    <3> HIDE DEF Differing
    <3> QED
      BY <1>3
  <2>3. Differing(i) \subseteq DiffVariables(p, q)
    BY <2>1, <2>2
  <2> QED
    BY <2>3, FieldSaid, NotSaid
<1> QED
  BY <1>3, <1>4 DEF RulesAlike

\* and what else it resolves by.
LEMMA FieldsStay ==
    ASSUME NEW p, NEW q, NEW x \in Variables(p) \cap Variables(q), Quiet(p, q, <<"variable", x>>),
           NEW v, NEW w, v = p.variables[x], w = q.variables[x]
    PROVE  /\ Absent(v.type) = Absent(w.type) /\ DefaultOf(v) = DefaultOf(w) /\ ResolveShape(v) = ResolveShape(w)
           /\ RulesAlike(RulesOf(v), RulesOf(w))
<1> DEFINE at == <<"variable", x>>
           Differing(y) ==
               LET a == p.variables[y]
                   b == q.variables[y]
                   place == <<"variable", y>>
               IN  DiffField("variable_type_changed", place, Absent(a.type), Absent(b.type))
                   \cup DiffField("variable_resolve_default_changed", place, DefaultOf(a), DefaultOf(b))
                   \cup DiffRules(y, RulesOf(a), RulesOf(b))
                   \cup DiffField("variable_resolution_changed", place, ResolveShape(a), ResolveShape(b))
<1>0. Differing(x) \subseteq DiffVariables(p, q)
  <2>1. UNION {Differing(y) : y \in Variables(p) \cap Variables(q)} \subseteq DiffVariables(p, q)
    BY DEF DiffVariables, AddedOrRemoved
  <2> HIDE DEF Differing
  <2> QED
    BY <2>1
<1>1. /\ DiffField("variable_type_changed", at, Absent(v.type), Absent(w.type)) \subseteq DiffVariables(p, q)
      /\ DiffField("variable_resolve_default_changed", at, DefaultOf(v), DefaultOf(w)) \subseteq DiffVariables(p, q)
      /\ DiffRules(x, RulesOf(v), RulesOf(w)) \subseteq DiffVariables(p, q)
      /\ DiffField("variable_resolution_changed", at, ResolveShape(v), ResolveShape(w)) \subseteq DiffVariables(p, q)
  BY <1>0
<1>2. RulesAlike(RulesOf(v), RulesOf(w))
  BY <1>1, RulesStay
<1>3. Absent(v.type) = Absent(w.type)
  BY <1>1, FieldSaid, NotSaid
<1>4. DefaultOf(v) = DefaultOf(w)
  BY <1>1, FieldSaid, NotSaid
<1>5. ResolveShape(v) = ResolveShape(w)
  BY <1>1, FieldSaid, NotSaid
<1> QED
  BY <1>2, <1>3, <1>4, <1>5

\* A list that nothing is said of is the same, or in none of them,
LEMMA ListStays ==
    ASSUME NEW p, NEW q, NEW l, Quiet(p, q, <<"list", l>>)
    PROVE  SameList(p, q, l)
<1> DEFINE at == <<"list", l>>
<1>1. l \in DOMAIN q.lists \ DOMAIN p.lists => Change("list_added", at) \in DiffLists(p, q)
  BY DEF DiffLists, AddedOrRemoved
<1>2. l \in DOMAIN p.lists \ DOMAIN q.lists => Change("list_removed", at) \in DiffLists(p, q)
  BY DEF DiffLists, AddedOrRemoved
<1>3. l \in DOMAIN p.lists \cap DOMAIN q.lists =>
        DiffField("list_changed", at, p.lists[l], q.lists[l]) \subseteq DiffLists(p, q)
  <2> DEFINE Differing(m) == DiffField("list_changed", <<"list", m>>, p.lists[m], q.lists[m])
  <2>1. UNION {Differing(m) : m \in DOMAIN p.lists \cap DOMAIN q.lists} \subseteq DiffLists(p, q)
    BY DEF DiffLists, AddedOrRemoved
  <2>2. l \in DOMAIN p.lists \cap DOMAIN q.lists => Differing(l) \subseteq DiffLists(p, q)
    <3> HIDE DEF Differing
    <3> QED
      BY <2>1
  <2> QED
    BY <2>2
<1>4. l \in DOMAIN p.lists \cap DOMAIN q.lists => p.lists[l] = q.lists[l]
  BY <1>3, FieldSaid, NotSaid
<1> QED
  BY <1>1, <1>2, <1>4, NotSaid DEF SameList

\* and so is a catalog,
LEMMA CatalogStays ==
    ASSUME NEW p, Projected(p), NEW q, Projected(q), NEW d, Quiet(p, q, <<"catalog", d>>)
    PROVE  SameCatalog(p, q, d)
<1> DEFINE at == <<"catalog", d>>
           old == p.catalogs[d]
           new == q.catalogs[d]
<1>1. d \in DOMAIN q.catalogs \ DOMAIN p.catalogs => Change("catalog_added", at) \in DiffCatalogs(p, q)
  BY DEF DiffCatalogs, AddedOrRemoved
<1>2. d \in DOMAIN p.catalogs \ DOMAIN q.catalogs => Change("catalog_removed", at) \in DiffCatalogs(p, q)
  BY DEF DiffCatalogs, AddedOrRemoved
<1>3. d \in DOMAIN p.catalogs <=> d \in DOMAIN q.catalogs
  BY <1>1, <1>2, NotSaid
<1>4. ASSUME d \in DOMAIN p.catalogs PROVE old = new
  <2>1. d \in DOMAIN q.catalogs /\ EntriesOf(p, d) = DOMAIN old /\ EntriesOf(q, d) = DOMAIN new
    BY <1>3, <1>4 DEF EntriesOf
  <2>2. \A n \in EntriesOf(q, d) \ EntriesOf(p, d) : Change("catalog_entry_added", at) \in DiffCatalogs(p, q)
    BY <2>1 DEF DiffCatalogs, AddedOrRemoved
  <2>3. \A n \in EntriesOf(p, d) \ EntriesOf(q, d) : Change("catalog_entry_removed", at) \in DiffCatalogs(p, q)
    BY <1>4 DEF DiffCatalogs, AddedOrRemoved
  <2>4. DOMAIN old = DOMAIN new
    BY <2>1, <2>2, <2>3, NotSaid
  <2>5. ASSUME NEW n \in DOMAIN old, NEW f \in DOMAIN old[n]
        PROVE  old[n][f] = new[n][f]
    <3>1. n \in EntriesOf(p, d) \cap EntriesOf(q, d) /\ d \in DOMAIN p.catalogs \cup DOMAIN q.catalogs
      BY <1>4, <2>1, <2>4
    <3> DEFINE FieldSays(c, m, g) == DiffField("catalog_entry_changed", <<"catalog", c>>,
                                            p.catalogs[c][m][g], q.catalogs[c][m][g])
               EntrySays(c, m) == UNION {FieldSays(c, m, g) : g \in DOMAIN p.catalogs[c][m]}
               CatalogSays(c) == AddedOrRemoved("catalog_entry_added", "catalog_entry_removed", EntriesOf(p, c), EntriesOf(q, c),
                                        LAMBDA m : <<"catalog", c>>)
                         \cup UNION {EntrySays(c, m) : m \in EntriesOf(p, c) \cap EntriesOf(q, c)}
    <3>2. UNION {CatalogSays(c) : c \in DOMAIN p.catalogs \cup DOMAIN q.catalogs} \subseteq DiffCatalogs(p, q)
      BY DEF DiffCatalogs, AddedOrRemoved
    <3>3. CatalogSays(d) \subseteq DiffCatalogs(p, q)
      <4> HIDE DEF CatalogSays
      <4> QED
        BY ONLY <3>1, <3>2
    <3>4. EntrySays(d, n) \subseteq CatalogSays(d)
      <4> HIDE DEF EntrySays
      <4> QED
        BY ONLY <3>1 DEF AddedOrRemoved
    <3>5. FieldSays(d, n, f) \subseteq EntrySays(d, n)
      <4> HIDE DEF FieldSays
      <4> QED
        BY ONLY f \in DOMAIN old[n]
    <3>6. FieldSays(d, n, f) \subseteq DiffCatalogs(p, q)
      <4> HIDE DEF CatalogSays, EntrySays, FieldSays
      <4> QED
        BY ONLY <3>3, <3>4, <3>5
    <3> QED
      BY <3>6, FieldSaid, NotSaid
  <2>6. /\ old = [n \in DOMAIN old |-> [flag |-> old[n].flag, rank |-> old[n].rank, ref |-> old[n].ref]]
        /\ new = [n \in DOMAIN new |-> [flag |-> new[n].flag, rank |-> new[n].rank, ref |-> new[n].ref]]
    BY <1>4, <2>1 DEF Projected
  <2>7. ASSUME NEW n \in DOMAIN old PROVE old[n] = new[n]
    <3>1. old[n] = [flag |-> old[n].flag, rank |-> old[n].rank, ref |-> old[n].ref]
      BY <2>6
    <3>2. new[n] = [flag |-> new[n].flag, rank |-> new[n].rank, ref |-> new[n].ref]
      BY <2>4, <2>6
    <3>3. \A f \in {"flag", "rank", "ref"} : f \in DOMAIN old[n]
      BY ONLY <3>1
    <3>4. old[n].flag = new[n].flag /\ old[n].rank = new[n].rank /\ old[n].ref = new[n].ref
      BY <2>5, <3>3
    <3> QED
      BY ONLY <3>1, <3>2, <3>4
  <2> HIDE DEF old, new
  <2> QED
    BY ONLY <2>4, <2>6, <2>7
<1> QED
  BY <1>3, <1>4 DEF SameCatalog

\* What is said of layers, of their buckets, of which allocations there are, and of
\* each that is in both versions.
LayersSay(p, q) ==
    {Change("layer_added", <<"layer", i>>) : i \in DOMAIN q.layers \ DOMAIN p.layers}
    \cup {Change("layer_removed", <<"layer", i>>) : i \in DOMAIN p.layers \ DOMAIN q.layers}
DiversionSays(p, q, i) ==
    DiffField("layer_diversion_changed", <<"layer", i>>, Diversion(p.layers[i]), Diversion(q.layers[i]))
KeysSay(p, q) ==
    {Change("allocation_added", <<"layer", key[1]>>) : key \in AllocationKeys(q) \ AllocationKeys(p)}
    \cup {Change("allocation_removed", <<"layer", key[1]>>) : key \in AllocationKeys(p) \ AllocationKeys(q)}
AllocationSays(p, q, key) ==
    LET a == AllocationOn(p, key)
        b == AllocationOn(q, key)
        at == <<"layer", key[1]>>
    IN  DiffField("allocation_status_changed", at, StatusOf(a), StatusOf(b))
        \cup DiffField("allocation_eligibility_changed", at, Absent(a.eligibility), Absent(b.eligibility))
        \cup DiffField(ArmsKind(NamedArms(a), NamedArms(b)), at, NamedArms(a), NamedArms(b))

\* What is united is part of the union.
LEMMA PartsOfUnion ==
    ASSUME NEW A, NEW B, NEW C, NEW D, NEW W, W = A \cup (UNION B) \cup C \cup (UNION D)
    PROVE  A \subseteq W /\ C \subseteq W /\ \A s \in B \cup D : s \subseteq W
<1>1. \A x : x \in UNION B => x \in W
  OBVIOUS
<1>2. \A x : x \in UNION D => x \in W
  OBVIOUS
<1>3. \A s \in B : \A x \in s : x \in UNION B
  OBVIOUS
<1>4. \A s \in D : \A x \in s : x \in UNION D
  OBVIOUS
<1>5. A \subseteq W /\ C \subseteq W
  OBVIOUS
<1> QED
  BY ONLY <1>1, <1>2, <1>3, <1>4, <1>5

\* These are the changes of layers.
LEMMA LayersAreSaid ==
    ASSUME NEW p, NEW q
    PROVE  /\ LayersSay(p, q) \subseteq DiffLayers(p, q)
           /\ \A i \in DOMAIN p.layers \cap DOMAIN q.layers : DiversionSays(p, q, i) \subseteq DiffLayers(p, q)
           /\ KeysSay(p, q) \subseteq DiffLayers(p, q)
           /\ \A key \in AllocationKeys(p) \cap AllocationKeys(q) : AllocationSays(p, q, key) \subseteq DiffLayers(p, q)
<1> DEFINE diversions == {DiversionSays(p, q, i) : i \in DOMAIN p.layers \cap DOMAIN q.layers}
           allocations == {AllocationSays(p, q, key) : key \in AllocationKeys(p) \cap AllocationKeys(q)}
<1>1. DiffLayers(p, q) = LayersSay(p, q) \cup (UNION diversions) \cup KeysSay(p, q) \cup (UNION allocations)
  BY Zenon DEF DiffLayers, AddedOrRemoved, LayersSay, DiversionSays, KeysSay, AllocationSays
<1>2. \A i \in DOMAIN p.layers \cap DOMAIN q.layers : DiversionSays(p, q, i) \in diversions
  OBVIOUS
<1>3. \A key \in AllocationKeys(p) \cap AllocationKeys(q) : AllocationSays(p, q, key) \in allocations
  OBVIOUS
<1> HIDE DEF diversions, allocations
<1>4. PICK whole, layers, keys : whole = DiffLayers(p, q) /\ layers = LayersSay(p, q) /\ keys = KeysSay(p, q)
  OBVIOUS
<1>5. whole = layers \cup (UNION diversions) \cup keys \cup (UNION allocations)
  BY ONLY <1>1, <1>4
<1>6. layers \subseteq whole /\ keys \subseteq whole
  BY ONLY <1>5, PartsOfUnion
<1>7. \A s \in diversions \cup allocations : s \subseteq whole
  BY ONLY <1>5, PartsOfUnion
<1>8. \A i \in DOMAIN p.layers \cap DOMAIN q.layers : DiversionSays(p, q, i) \subseteq whole
  BY ONLY <1>2, <1>7
<1>9. \A key \in AllocationKeys(p) \cap AllocationKeys(q) : AllocationSays(p, q, key) \subseteq whole
  BY ONLY <1>3, <1>7
<1> QED
  BY ONLY <1>4, <1>6, <1>8, <1>9

\* and so is a layer, but for its allocations,
LEMMA LayerStays ==
    ASSUME NEW p, NEW q, NEW i, Quiet(p, q, <<"layer", i>>)
    PROVE  /\ i \in DOMAIN p.layers <=> i \in DOMAIN q.layers
           /\ i \in DOMAIN p.layers => Diversion(p.layers[i]) = Diversion(q.layers[i])
           /\ \A key : key[1] = i => (key \in AllocationKeys(p) <=> key \in AllocationKeys(q))
<1> DEFINE at == <<"layer", i>>
<1>1. i \in DOMAIN q.layers \ DOMAIN p.layers => Change("layer_added", at) \in DiffLayers(p, q)
  BY LayersAreSaid DEF LayersSay
<1>2. i \in DOMAIN p.layers \ DOMAIN q.layers => Change("layer_removed", at) \in DiffLayers(p, q)
  BY LayersAreSaid DEF LayersSay
<1>3. i \in DOMAIN p.layers <=> i \in DOMAIN q.layers
  BY <1>1, <1>2, NotSaid
<1>4. i \in DOMAIN p.layers => DiversionSays(p, q, i) \subseteq DiffLayers(p, q)
  BY <1>3, LayersAreSaid
<1>5. i \in DOMAIN p.layers => Diversion(p.layers[i]) = Diversion(q.layers[i])
  BY <1>4, FieldSaid, NotSaid DEF DiversionSays
<1>6. ASSUME NEW key, key[1] = i
      PROVE  key \in AllocationKeys(p) <=> key \in AllocationKeys(q)
  <2>1. key \in AllocationKeys(q) \ AllocationKeys(p) => Change("allocation_added", <<"layer", key[1]>>) \in KeysSay(p, q)
    BY ONLY DEF KeysSay
  <2>2. key \in AllocationKeys(p) \ AllocationKeys(q) => Change("allocation_removed", <<"layer", key[1]>>) \in KeysSay(p, q)
    BY ONLY DEF KeysSay
  <2>3. KeysSay(p, q) \subseteq DiffLayers(p, q)
    BY ONLY LayersAreSaid
  <2> QED
    BY <1>6, <2>1, <2>2, <2>3, NotSaid
<1> QED
  BY <1>3, <1>5, <1>6

\* Arms whose units stay where they are.
Keeps(old, new) == Released(old, new) = {} /\ Reassigned(old, new) = {}

\* which may have other arms, if those that are in them stay.
StaysBut(p, q, key, a, b) ==
    /\ StatusOf(a) = StatusOf(b) /\ Absent(a.eligibility) = Absent(b.eligibility)
    /\ NamedArms(a) = NamedArms(b) \/ Keeps(NamedArms(a), NamedArms(b))
    /\ (\A change \in Changes(p, q) : change.at # <<"layer", key[1]>>) => NamedArms(a) = NamedArms(b)

\* An allocation on a layer of which the diff says nothing but expansions is as it was,
\* but for its arms.
LEMMA AllocationStays ==
    ASSUME NEW p, NEW q, NEW key \in AllocationKeys(p) \cap AllocationKeys(q), Quiet(p, q, <<"layer", key[1]>>),
           NEW a, a = AllocationOn(p, key), NEW b, b = AllocationOn(q, key)
    PROVE  StaysBut(p, q, key, a, b)
<1> DEFINE at == <<"layer", key[1]>>
           kind == ArmsKind(NamedArms(a), NamedArms(b))
<1>2. AllocationSays(p, q, key) \subseteq DiffLayers(p, q)
  BY ONLY LayersAreSaid, key \in AllocationKeys(p) \cap AllocationKeys(q)
<1>3. /\ DiffField("allocation_status_changed", at, StatusOf(a), StatusOf(b)) \subseteq DiffLayers(p, q)
      /\ DiffField("allocation_eligibility_changed", at, Absent(a.eligibility), Absent(b.eligibility)) \subseteq DiffLayers(p, q)
      /\ DiffField(kind, at, NamedArms(a), NamedArms(b)) \subseteq DiffLayers(p, q)
  BY <1>2 DEF AllocationSays
<1>4. StatusOf(a) = StatusOf(b) /\ Absent(a.eligibility) = Absent(b.eligibility)
  BY <1>3, FieldSaid, NotSaid
<1>5. ASSUME NamedArms(a) # NamedArms(b)
      PROVE  Change(kind, at) \in Changes(p, q)
  BY <1>3, <1>5, FieldSaid DEF Changes
<1>6. Change(kind, at).at = at /\ Change(kind, at).kind = kind
  BY DEF Change
<1>7. NamedArms(a) # NamedArms(b) => kind = "allocation_arms_expanded"
  <2> HIDE DEF kind
  <2> QED
    BY <1>5, <1>6 DEF Quiet
<1>8. kind = "allocation_arms_expanded" => Keeps(NamedArms(a), NamedArms(b))
  BY DEF ArmsKind, Keeps
<1>9. (\A change \in Changes(p, q) : change.at # at) => NamedArms(a) = NamedArms(b)
  <2> HIDE DEF kind
  <2> QED
    BY <1>5, <1>6
<1> QED
  BY <1>4, <1>7, <1>8, <1>9 DEF StaysBut

-----------------------------------------------------------------------------
(* Entries in their order.                                                   *)

\* In a finite set of numbers there is one above as many others,
Above(S, k, x) == x \in S /\ Cardinality({y \in S : y < x}) = k
LEMMA AboveSome ==
    ASSUME NEW S, IsFiniteSet(S), S \subseteq Nat
    PROVE  \A k \in Nat : k < Cardinality(S) => \E x : Above(S, k, x)
<1> DEFINE Good == {k \in Nat : k < Cardinality(S) => \E x : Above(S, k, x)}
<1>1. Cardinality(S) \in Nat
  BY FS_CardinalityType
<1>2. 0 \in Good
  <2>1. ASSUME 0 < Cardinality(S) PROVE \E x : Above(S, 0, x)
    <3>1. S # {}
      BY <2>1, FS_EmptySet
    <3>2. PICK x \in S : \A y \in S : x <= y
      BY <3>1, Least
    <3>3. {y \in S : y < x} = {}
      <4>1. ASSUME NEW y \in S PROVE ~(y < x)
        <5>1. x \in Nat /\ y \in Nat /\ x <= y
          BY <3>2
        <5> QED
          BY ONLY <5>1
      <4> QED
        BY ONLY <4>1
    <3> QED
      BY <3>3, FS_EmptySet DEF Above
  <2> QED
    BY <2>1
<1>3. ASSUME NEW k \in Nat, k \in Good PROVE k + 1 \in Good
  <2>1. ASSUME k + 1 < Cardinality(S) PROVE \E x : Above(S, k + 1, x)
    <3>1. k < Cardinality(S)
      BY <1>1, <2>1
    <3>2. PICK x : Above(S, k, x)
      BY <1>3, <3>1
    <3> DEFINE below == {y \in S : y < x}
               more == {y \in S : x < y}
    <3>3. x \in S /\ x \in Nat /\ IsFiniteSet(below) /\ x \notin below /\ Cardinality(below) = k
      <4>1. IsFiniteSet(below)
        BY FS_Subset
      <4> QED
        BY <3>2, <4>1 DEF Above
    <3>4. Cardinality(below \cup {x}) = k + 1
      <4> HIDE DEF below
      <4> QED
        BY <3>3, FS_AddElement
    <3>5. more # {}
      <4>1. ASSUME more = {} PROVE S = below \cup {x}
        <5>1. ASSUME NEW y \in S PROVE y < x \/ y = x
          <6>1. ~(x < y)
            BY <4>1
          <6>2. x \in Nat /\ y \in Nat
            BY <3>3
          <6> QED
            BY ONLY <6>1, <6>2
        <5> QED
          BY ONLY <3>3, <5>1
      <4>2. S # below \cup {x}
        BY <1>1, <2>1, <3>4
      <4> QED
        BY <4>1, <4>2
    <3>6. PICK z \in more : \A y \in more : z <= y
      <4>1. more \subseteq Nat
        OBVIOUS
      <4> HIDE DEF more
      <4> QED
        BY <3>5, <4>1, Least
    <3>7. {y \in S : y < z} = below \cup {x}
      <4>1. z \in S /\ z \in Nat /\ x < z
        BY <3>6
      <4>2. ASSUME NEW y \in S PROVE y < z <=> y < x \/ y = x
        <5>1. x < y => z <= y
          BY <3>6
        <5>2. x \in Nat /\ y \in Nat
          BY <3>3
        <5> QED
          BY ONLY <4>1, <5>1, <5>2
      <4>3. x \in S
        BY <3>3
      <4> QED
        BY ONLY <4>2, <4>3
    <3> QED
      BY <3>4, <3>6, <3>7 DEF Above
  <2> QED
    BY <2>1
<1>4. \A k \in Nat : k \in Good
  <2> HIDE DEF Good
  <2> QED
    BY ONLY <1>2, <1>3, Inductive
<1> QED
  BY <1>4

\* so what is in order is of the set.
LEMMA AscendingIn ==
    ASSUME NEW S, IsFiniteSet(S), S \subseteq Nat
    PROVE  \A i \in DOMAIN Ascending(S) : Ascending(S)[i] \in S
<1> DEFINE At(i) == CHOOSE x \in S : Cardinality({y \in S : y < x}) = i - 1
<1>1. Ascending(S) = [i \in 1..Cardinality(S) |-> At(i)]
  BY DEF Ascending
<1>2. Cardinality(S) \in Nat
  BY FS_CardinalityType
<1>3. ASSUME NEW i \in 1..Cardinality(S) PROVE At(i) \in S
  <2>1. i - 1 \in Nat /\ i - 1 < Cardinality(S)
    BY <1>2
  <2>2. \E x \in S : Cardinality({y \in S : y < x}) = i - 1
    BY <2>1, AboveSome DEF Above
  <2> QED
    BY <2>2
<1> HIDE DEF At
<1> QED
  BY <1>1, <1>3

-----------------------------------------------------------------------------
(* A variable that the diff says nothing of.                                 *)

\* What lint passes in the layers, what compiles and what an author writes.
Sound(p) == Authored(p) /\ Projected(p) /\ Compiles(p) /\ LintLayerShapes(p)

\* Two versions of a variable that are one but for the layer.
SameVariable(v, w) ==
    /\ v.type = w.type /\ v.resolve.default = w.resolve.default /\ Method(v) = Method(w)
    /\ Method(v) = "rules" =>
         /\ Listed(Rules(v)) /\ Listed(Rules(w)) /\ DOMAIN Rules(v) = DOMAIN Rules(w)
         /\ \A i \in DOMAIN Rules(v) : Rules(v)[i].when = Rules(w)[i].when /\ Rules(v)[i].value = Rules(w)[i].value
    /\ Method(v) = "query" => v.resolve.query = w.resolve.query
    /\ Method(v) = "allocation" =>
         v.resolve.assign.allocation = w.resolve.assign.allocation /\ Elements(Assigns(v)) = Elements(Assigns(w))

\* The parts of a variable that compiles are there.
LEMMA CompiledVariable ==
    ASSUME NEW p, Authored(p), Projected(p), Compiles(p), NEW x \in Variables(p), NEW v, v = p.variables[x]
    PROVE  /\ x # Nobody /\ AuthoredVariable(v) /\ HasResolve(v) /\ CompilesResolve(p, v) /\ ValidType(p, v.type)
           /\ Absent(v.type) = v.type /\ DefaultOf(v) = v.resolve.default
           /\ Method(v) \in {"rules", "query", "allocation"}
           /\ Method(v) = "rules" => Listed(Rules(v)) /\ \A i \in DOMAIN Rules(v) : CompilesRule(p, v, Rules(v)[i])
           /\ Method(v) = "query" => CompilesQuery(p, v)
           /\ Method(v) = "allocation" => CompilesAllocation(p, v)
<1>1. x # Nobody /\ AuthoredVariable(v) /\ CompilesResolve(p, v) /\ v.type # Malformed /\ ValidType(p, v.type)
  BY DEF Authored, Compiles, Variables
<1>2. HasResolve(v)
  BY <1>1 DEF CompilesResolve
<1>3. Listed(Rules(v)) /\ v.resolve.default # Malformed
  BY <1>1, <1>2 DEF AuthoredVariable
<1>4. Absent(v.type) = v.type /\ DefaultOf(v) = v.resolve.default
  BY <1>1, <1>2, <1>3 DEF Absent, DefaultOf
<1>5. Method(v) \in {"rules", "query", "allocation"}
  BY <1>1 DEF CompilesResolve
<1>6. Method(v) = "rules" => \A i \in DOMAIN Rules(v) : CompilesRule(p, v, Rules(v)[i])
  BY <1>1 DEF CompilesResolve, Elements
<1>7. Method(v) = "query" => CompilesQuery(p, v)
  BY <1>1 DEF CompilesResolve
<1>8. Method(v) = "allocation" => CompilesAllocation(p, v)
  BY <1>1 DEF CompilesResolve
<1> QED
  BY <1>1, <1>2, <1>3, <1>4, <1>5, <1>6, <1>7, <1>8

\* A variable of which the diff says nothing has the same type and is resolved the same
\* way.
LEMMA VariableSame ==
    ASSUME NEW p, Sound(p), NEW q, Sound(q), NEW x \in Variables(p) \cap Variables(q), Quiet(p, q, <<"variable", x>>),
           NEW v, NEW w, v = p.variables[x], w = q.variables[x]
    PROVE  SameVariable(v, w)
<1>1. /\ Absent(v.type) = Absent(w.type) /\ DefaultOf(v) = DefaultOf(w) /\ ResolveShape(v) = ResolveShape(w)
      /\ RulesAlike(RulesOf(v), RulesOf(w))
  BY FieldsStay
<1>2. /\ HasResolve(v) /\ Absent(v.type) = v.type /\ DefaultOf(v) = v.resolve.default
      /\ Method(v) = "rules" => Listed(Rules(v)) /\ \A i \in DOMAIN Rules(v) : CompilesRule(p, v, Rules(v)[i])
      /\ Method(v) = "query" => CompilesQuery(p, v)
      /\ Method(v) = "allocation" => CompilesAllocation(p, v)
  BY CompiledVariable DEF Sound
<1>3. /\ HasResolve(w) /\ Absent(w.type) = w.type /\ DefaultOf(w) = w.resolve.default
      /\ Method(w) = "rules" => Listed(Rules(w)) /\ \A i \in DOMAIN Rules(w) : CompilesRule(q, w, Rules(w)[i])
      /\ Method(w) = "query" => CompilesQuery(q, w)
      /\ Method(w) = "allocation" => CompilesAllocation(q, w)
  BY CompiledVariable DEF Sound
<1>4. v.type = w.type /\ v.resolve.default = w.resolve.default
  BY <1>1, <1>2, <1>3
<1> DEFINE QueryShape(u) == IF u.resolve.query = None THEN None
                            ELSE [f \in DOMAIN u.resolve.query |-> Absent(u.resolve.query[f])]
           AllocationShape(u) == IF u.resolve.assign = None THEN None
                                 ELSE <<Absent(u.resolve.assign.allocation),
                                        {a \in Elements(Assigns(u)) \ {Malformed} : a.arm # Malformed /\ Present(a.value)}>>
           Shape(u) == [method |-> Method(u), query |-> QueryShape(u), allocation |-> AllocationShape(u)]
<1>5. Shape(v) = Shape(w)
  BY <1>1, <1>2, <1>3 DEF ResolveShape
<1>6. Method(v) = Method(w) /\ QueryShape(v) = QueryShape(w) /\ AllocationShape(v) = AllocationShape(w)
  <2> HIDE DEF QueryShape, AllocationShape
  <2> QED
    BY <1>5
<1>7. ASSUME Method(v) = "rules"
      PROVE  /\ Listed(Rules(v)) /\ Listed(Rules(w)) /\ DOMAIN Rules(v) = DOMAIN Rules(w)
             /\ \A i \in DOMAIN Rules(v) : Rules(v)[i].when = Rules(w)[i].when /\ Rules(v)[i].value = Rules(w)[i].value
  <2>1. RulesAlike(Rules(v), Rules(w))
    BY <1>1, <1>2, <1>3 DEF RulesOf
  <2>2. ASSUME NEW i \in DOMAIN Rules(v)
        PROVE  Rules(v)[i].when = Rules(w)[i].when /\ Rules(v)[i].value = Rules(w)[i].value
    <3>1. PICK r, s : r = Rules(v)[i] /\ s = Rules(w)[i]
      OBVIOUS
    <3>2. PartOf(r, "when") = PartOf(s, "when") /\ PartOf(r, "value") = PartOf(s, "value")
      BY <2>1, <3>1 DEF RulesAlike
    <3>3. CompilesRule(p, v, r) /\ CompilesRule(q, w, s)
      BY <1>2, <1>3, <1>6, <1>7, <2>1, <3>1 DEF RulesAlike
    <3>4. PartOf(r, "when") = r.when /\ PartOf(r, "value") = r.value /\ PartOf(s, "when") = s.when /\ PartOf(s, "value") = s.value
      BY <3>3 DEF CompilesRule, Present, PartOf, Absent
    <3> QED
      BY <3>1, <3>2, <3>4
  <2> QED
    BY <1>2, <1>3, <1>6, <1>7, <2>1, <2>2 DEF RulesAlike
<1>8. ASSUME Method(v) = "query" PROVE v.resolve.query = w.resolve.query
  <2>1. PICK a, b : a = v.resolve.query /\ b = w.resolve.query
    OBVIOUS
  <2>2. CompilesQuery(p, v) /\ CompilesQuery(q, w)
    BY <1>2, <1>3, <1>6, <1>8
  <2>3. a # None /\ b # None /\ a.from = b.from
    BY <1>4, <2>1, <2>2 DEF CompilesQuery, QueryCatalog
  <2>4. /\ a = [from |-> a.from, filter |-> a.filter, sort |-> a.sort, order |-> a.order, limit |-> a.limit]
        /\ b = [from |-> b.from, filter |-> b.filter, sort |-> b.sort, order |-> b.order, limit |-> b.limit]
    BY <1>2, <1>3, <2>1, <2>3 DEF Sound, Projected
  <2>5. [f \in DOMAIN a |-> Absent(a[f])] = [f \in DOMAIN b |-> Absent(b[f])]
    BY <1>6, <2>1, <2>3
  <2>6. \A f \in DOMAIN a : f \in DOMAIN b /\ Absent(a[f]) = Absent(b[f])
    BY ONLY <2>5
  <2>7. \A f \in {"filter", "sort", "order", "limit"} : f \in DOMAIN a
    BY ONLY <2>4
  <2>8. Absent(a.filter) = Absent(b.filter) /\ Absent(a.sort) = Absent(b.sort) /\ Absent(a.order) = Absent(b.order) /\ Absent(a.limit) = Absent(b.limit)
    BY ONLY <2>6, <2>7
  <2>9. /\ Malformed \notin {a.filter, a.sort, a.order, a.limit}
        /\ Malformed \notin {b.filter, b.sort, b.order, b.limit}
    BY <2>1, <2>2, MarksAssumption DEF CompilesQuery
  <2>10. a.filter = b.filter /\ a.sort = b.sort /\ a.order = b.order /\ a.limit = b.limit
    BY ONLY <2>8, <2>9 DEF Absent
  <2> QED
    BY ONLY <2>1, <2>3, <2>4, <2>10
<1>9. ASSUME Method(v) = "allocation"
      PROVE  v.resolve.assign.allocation = w.resolve.assign.allocation /\ Elements(Assigns(v)) = Elements(Assigns(w))
  <2>1. ASSUME NEW r, NEW u, CompilesAllocation(r, u)
        PROVE  AllocationShape(u) = <<u.resolve.assign.allocation, Elements(Assigns(u))>>
    <3>1. {a \in Elements(Assigns(u)) \ {Malformed} : a.arm # Malformed /\ Present(a.value)} = Elements(Assigns(u))
      BY <2>1 DEF CompilesAllocation
    <3>2. u.resolve.assign # None /\ Absent(u.resolve.assign.allocation) = u.resolve.assign.allocation
      BY <2>1 DEF CompilesAllocation, Absent
    <3> QED
      BY <3>1, <3>2
  <2>2. CompilesAllocation(p, v) /\ CompilesAllocation(q, w)
    BY <1>2, <1>3, <1>6, <1>9
  <2>3. AllocationShape(v) = <<v.resolve.assign.allocation, Elements(Assigns(v))>>
        /\ AllocationShape(w) = <<w.resolve.assign.allocation, Elements(Assigns(w))>>
    BY <2>1, <2>2
  <2>4. PICK one, all, two, every :
          /\ one = v.resolve.assign.allocation /\ all = Elements(Assigns(v))
          /\ two = w.resolve.assign.allocation /\ every = Elements(Assigns(w))
    OBVIOUS
  <2> HIDE DEF AllocationShape
  <2>5. <<one, all>> = <<two, every>>
    BY ONLY <1>6, <2>3, <2>4
  <2>6. one = two /\ all = every
    BY ONLY <2>5
  <2> QED
    BY ONLY <2>4, <2>6
<1> QED
  BY <1>4, <1>6, <1>7, <1>8, <1>9 DEF SameVariable

-----------------------------------------------------------------------------
(* An allocation that the diff says nothing of, or an expansion.             *)

\* What a variable of an allocation is resolved by: the allocation, the place it has
\* and its layer.
Consumes(p, x, v, named, at, a, layer) ==
    /\ x \in Variables(p) /\ v = p.variables[x] /\ Method(v) = "allocation"
    /\ named = v.resolve.assign.allocation /\ at = FindAllocation(p, named)
    /\ a = AllocationAt(p, at) /\ layer = p.layers[at[1]]

\* They are there and well formed.
ConsumesWell(p, v, named, at, a, layer) ==
    /\ named # Malformed /\ at \in Named(p, named) /\ \A other \in Named(p, named) : other = at
    /\ a # Malformed /\ a = layer.allocations[at[2]] /\ at[1] \in DOMAIN p.layers
    /\ layer.allocations # Malformed /\ at[2] \in Positions(layer.allocations)
    /\ AuthoredLayer(layer) /\ BucketsApart(layer)
    /\ Malformed \notin {layer.unit, layer.buckets, a.status, a.eligibility}
    /\ Arms(a) = a.arms /\ Listed(a.arms)
    /\ \A i \in Positions(a.arms) : a.arms[i] # Malformed /\ Malformed \notin {a.arms[i].name, a.arms[i].buckets}
    /\ {g.arm : g \in Elements(Assigns(v))} = ArmNames(a)
    /\ <<at[1], named>> \in AllocationKeys(p) /\ AllocationOn(p, <<at[1], named>>) = a
LEMMA CompiledAllocation ==
    ASSUME NEW p, Sound(p), NEW x, NEW v, NEW named, NEW at, NEW a, NEW layer, Consumes(p, x, v, named, at, a, layer)
    PROVE  ConsumesWell(p, v, named, at, a, layer)
<1>0. x \in Variables(p) /\ v = p.variables[x] /\ Method(v) = "allocation"
  BY DEF Consumes
<1>1. CompilesAllocation(p, v)
  BY ONLY <1>0, Sound(p), CompiledVariable DEF Sound
<1>2. /\ named # Malformed /\ Named(p, named) # {}
      /\ Malformed \notin {layer.unit, layer.buckets, a.status, a.eligibility}
      /\ {g.arm : g \in Elements(Assigns(v))} = ArmNames(a)
      /\ \A arm \in Elements(Arms(a)) : arm # Malformed /\ Malformed \notin {arm.name, arm.buckets}
  BY ONLY <1>1, Consumes(p, x, v, named, at, a, layer) DEF CompilesAllocation, Consumes
<1>3. Listed(p.layers) /\ \A l \in Elements(p.layers) : AuthoredLayer(l) /\ Listed(AllocationsOf(l))
  BY ONLY Sound(p) DEF Sound, Authored, AuthoredLayer
<1>4. at \in Named(p, named)
  <2>1. FindAllocation(p, named) \in Named(p, named)
    BY ONLY <1>2, <1>3, FoundIsNamed
  <2> QED
    BY <2>1 DEF Consumes
<1>5. at \in Allocations(p) /\ a # Malformed /\ a.id = named /\ a = p.layers[at[1]].allocations[at[2]] /\ layer = p.layers[at[1]]
  BY <1>4 DEF Named, Consumes, AllocationAt
<1>6. \A other \in Named(p, named) : other = at
  <2>1. \A one, two \in Allocations(p) : AllocationAt(p, one).id = AllocationAt(p, two).id => one = two
    BY ONLY Sound(p) DEF Sound, LintLayerShapes
  <2> QED
    BY ONLY <1>4, <2>1 DEF Named
<1>7. at[1] \in DOMAIN p.layers /\ at[2] \in Positions(AllocationsOf(layer))
  BY ONLY <1>5 DEF Allocations, Positions
<1>8. layer \in Elements(p.layers)
  BY ONLY <1>5, <1>7 DEF Elements
<1>9. AuthoredLayer(layer) /\ LintLayer(p, layer)
  <2>1. \A l \in Elements(p.layers) : LintLayer(p, l)
    BY ONLY Sound(p) DEF Sound, LintLayerShapes
  <2> QED
    BY ONLY <1>3, <1>8, <2>1
<1>10. a = layer.allocations[at[2]] /\ layer.allocations # Malformed /\ AllocationsOf(layer) = layer.allocations
  BY ONLY <1>5, <1>9 DEF LintLayer, AllocationsOf
<1>11. a \in Elements(layer.allocations)
  BY ONLY <1>7, <1>10 DEF Positions, Elements
<1>12. LintArms(layer, a) /\ BucketsApart(layer)
  BY ONLY <1>9, <1>11 DEF LintLayer
<1>13. Arms(a) = a.arms
  BY ONLY <1>12 DEF LintArms, Arms
<1>14. Listed(a.arms)
  BY ONLY <1>5, <1>9, <1>10, <1>11, <1>13 DEF AuthoredLayer
<1>16. \A i \in Positions(a.arms) : a.arms[i] # Malformed /\ Malformed \notin {a.arms[i].name, a.arms[i].buckets}
  <2>1. PICK arms : arms = a.arms
    OBVIOUS
  <2>2. \A arm \in Elements(arms) : arm # Malformed /\ Malformed \notin {arm.name, arm.buckets}
    BY ONLY <1>2, <1>13, <2>1
  <2>3. \A i \in Positions(arms) : arms[i] # Malformed /\ Malformed \notin {arms[i].name, arms[i].buckets}
    BY ONLY <2>2 DEF Positions, Elements
  <2> QED
    BY ONLY <2>1, <2>3
<1>17. <<at[1], named>> \in AllocationKeys(p)
  <2>1. AllocationAt(p, at) = a
    BY DEF Consumes
  <2> QED
    BY ONLY <1>2, <1>5, <2>1 DEF AllocationKeys
<1>18. AllocationOn(p, <<at[1], named>>) = a
  <2> DEFINE those == {y \in Named(p, named) : y[1] = at[1]}
             last == CHOOSE y \in those : \A z \in those : z[2] <= y[2]
  <2>1. AllocationOn(p, <<at[1], named>>) = AllocationAt(p, last)
    BY ONLY DEF AllocationOn
  <2>2. those = {at}
    BY ONLY <1>4, <1>6
  <2>3. at[2] <= at[2]
    <3>1. at[2] \in Nat
      BY ONLY <1>3, <1>7, <1>8, Lists DEF Positions
    <3> QED
      BY ONLY <3>1
  <2>4. last = at
    <3> HIDE DEF those
    <3> QED
      BY ONLY <2>2, <2>3
  <2>5. AllocationAt(p, at) = a
    BY DEF Consumes
  <2> HIDE DEF last
  <2> QED
    BY ONLY <2>1, <2>4, <2>5
<1> QED
  BY ONLY <1>2, <1>4, <1>5, <1>6, <1>7, <1>9, <1>10, <1>12, <1>13, <1>14, <1>16, <1>17, <1>18 DEF ConsumesWell

\* Of two versions, where the diff says at most that arms of its layer expanded.
AllocationAlike(p, q, at, a, layer, to, b, other) ==
    /\ to[1] = at[1]
    /\ layer.unit = other.unit /\ layer.buckets = other.buckets
    /\ a.eligibility = b.eligibility
    /\ (a.status \in {None, "running"}) <=> (b.status \in {None, "running"})
    /\ NamedArms(a) = NamedArms(b) \/ Keeps(NamedArms(a), NamedArms(b))
    /\ (\A change \in Changes(p, q) : change.at # <<"layer", at[1]>>) => NamedArms(a) = NamedArms(b)

\* The allocations that a variable is assigned by in both are alike.
LEMMA AllocationSame ==
    ASSUME NEW p, Sound(p), NEW q, Sound(q), NEW x, NEW named,
           NEW v, NEW at, NEW a, NEW layer, Consumes(p, x, v, named, at, a, layer),
           NEW w, NEW to, NEW b, NEW other, Consumes(q, x, w, named, to, b, other),
           Quiet(p, q, <<"layer", at[1]>>)
    PROVE  AllocationAlike(p, q, at, a, layer, to, b, other)
<1>1. PICK i : i = at[1]
  OBVIOUS
<1>2. /\ i \in DOMAIN p.layers /\ layer = p.layers[i] /\ Malformed \notin {layer.unit, layer.buckets, a.status, a.eligibility}
      /\ <<i, named>> \in AllocationKeys(p) /\ AllocationOn(p, <<i, named>>) = a
  <2>1. layer = p.layers[i]
    BY <1>1 DEF Consumes
  <2>2. ConsumesWell(p, v, named, at, a, layer)
    BY CompiledAllocation
  <2> QED
    BY ONLY <1>1, <2>1, <2>2 DEF ConsumesWell
<1>3. /\ Malformed \notin {other.unit, other.buckets, b.status, b.eligibility}
      /\ \A else \in Named(q, named) : else = to
      /\ AllocationOn(q, <<to[1], named>>) = b /\ other = q.layers[to[1]]
  <2>1. other = q.layers[to[1]]
    BY DEF Consumes
  <2>2. ConsumesWell(q, w, named, to, b, other)
    BY CompiledAllocation
  <2> QED
    BY ONLY <2>1, <2>2 DEF ConsumesWell
<1>4. PICK key : key = <<i, named>>
  OBVIOUS
<1>5. key[1] = i /\ key[2] = named
  BY ONLY <1>4
<1>6. Quiet(p, q, <<"layer", i>>)
  BY <1>1
<1>7. /\ i \in DOMAIN q.layers /\ Diversion(p.layers[i]) = Diversion(q.layers[i])
      /\ key \in AllocationKeys(q)
  BY ONLY <1>2, <1>4, <1>5, <1>6, LayerStays
<1>8. to[1] = i
  <2>1. PICK else \in Allocations(q) : /\ AllocationAt(q, else) # Malformed
                                       /\ key = <<else[1], AllocationAt(q, else).id>>
    BY ONLY <1>7 DEF AllocationKeys
  <2>2. else[1] = i /\ AllocationAt(q, else).id = named
    BY ONLY <1>5, <2>1
  <2>3. else \in Named(q, named)
    BY ONLY <2>1, <2>2 DEF Named
  <2> QED
    BY ONLY <1>3, <2>2, <2>3
<1>9. /\ key \in AllocationKeys(p) \cap AllocationKeys(q) /\ Quiet(p, q, <<"layer", key[1]>>)
      /\ a = AllocationOn(p, key) /\ b = AllocationOn(q, key)
  BY ONLY <1>2, <1>3, <1>4, <1>5, <1>6, <1>7, <1>8
<1>10. /\ StatusOf(a) = StatusOf(b) /\ Absent(a.eligibility) = Absent(b.eligibility)
       /\ NamedArms(a) = NamedArms(b) \/ Keeps(NamedArms(a), NamedArms(b))
       /\ (\A change \in Changes(p, q) : change.at # <<"layer", key[1]>>) => NamedArms(a) = NamedArms(b)
  <2>1. StaysBut(p, q, key, a, b)
    BY ONLY <1>9, AllocationStays
  <2> QED
    BY ONLY <2>1 DEF StaysBut
<1>11. (a.status \in {None, "running"}) <=> (b.status \in {None, "running"})
  <2>1. \A c : c.status # Malformed => (c.status \in {None, "running"} <=> StatusOf(c) = "running")
    BY ONLY DEF StatusOf, Present
  <2> QED
    BY ONLY <1>2, <1>3, <1>10, <2>1
<1>12. a.eligibility = b.eligibility
  BY ONLY <1>2, <1>3, <1>10 DEF Absent
<1>13. layer.unit = other.unit /\ layer.buckets = other.buckets
  <2>1. <<Absent(layer.unit), Absent(layer.buckets)>> = <<Absent(other.unit), Absent(other.buckets)>>
    BY ONLY <1>2, <1>3, <1>7, <1>8 DEF Diversion
  <2>2. Absent(layer.unit) = Absent(other.unit) /\ Absent(layer.buckets) = Absent(other.buckets)
    BY ONLY <2>1
  <2> QED
    BY ONLY <1>2, <1>3, <2>2 DEF Absent
<1> QED
  BY ONLY <1>1, <1>5, <1>8, <1>10, <1>11, <1>12, <1>13 DEF AllocationAlike

\* A bucket is in one arm at most: the arm that is hit is the one that claims it.
LEMMA HitClaims ==
    ASSUME NEW p, Sound(p), NEW x, NEW v, NEW named, NEW at, NEW a, NEW layer, Consumes(p, x, v, named, at, a, layer),
           NEW c, NEW bucket, bucket = Bucket(p, c, at[1]), NEW hits, hits = Hits(p, c, v)
    PROVE  /\ hits = {} <=> bucket \notin Claimed(NamedArms(a))
           /\ \A arm \in hits : a.arms[arm].name = ClaimOf(NamedArms(a), bucket) /\ a.arms[arm].name \in ArmNames(a)
           /\ hits \subseteq Nat
<1> DEFINE Holds(arm) == bucket \in arm.buckets[1]..arm.buckets[2]
<1>1. /\ a # Malformed /\ a = layer.allocations[at[2]]
      /\ layer.allocations # Malformed /\ at[2] \in Positions(layer.allocations)
      /\ AuthoredLayer(layer) /\ BucketsApart(layer) /\ Arms(a) = a.arms /\ Listed(a.arms)
      /\ \A i \in Positions(a.arms) : a.arms[i] # Malformed /\ Malformed \notin {a.arms[i].name, a.arms[i].buckets}
  <2>1. ConsumesWell(p, v, named, at, a, layer)
    BY CompiledAllocation
  <2> QED
    BY ONLY <2>1 DEF ConsumesWell
<1>2. PICK list, arms, names : list = a.arms /\ arms = NamedArms(a) /\ names = ArmNames(a)
  OBVIOUS
<1>3. hits = {i \in Positions(list) : Holds(list[i])}
  <2>1. Hits(p, c, v) = {i \in Positions(Arms(a)) : Bucket(p, c, at[1]) \in a.arms[i].buckets[1]..a.arms[i].buckets[2]}
    BY ONLY Consumes(p, x, v, named, at, a, layer) DEF Consumes, Hits
  <2> QED
    BY ONLY <1>1, <1>2, <2>1, hits = Hits(p, c, v), bucket = Bucket(p, c, at[1])
<1>4. \A one : one \in arms <=> \E i \in Positions(list) : one = list[i]
  <2>1. arms = {arm \in Elements(list) \ {Malformed} : Malformed \notin {arm.name, arm.buckets}}
    BY ONLY <1>1, <1>2 DEF NamedArms
  <2>2. \A i \in Positions(list) : list[i] # Malformed /\ Malformed \notin {list[i].name, list[i].buckets}
    BY ONLY <1>1, <1>2
  <2> QED
    BY ONLY <2>1, <2>2 DEF Elements, Positions
<1>5. bucket \in Claimed(arms) <=> \E one \in arms : Holds(one)
  BY ONLY DEF Claimed
<1>6. ASSUME NEW i \in Positions(list), NEW j \in Positions(list), Holds(list[i]), Holds(list[j])
      PROVE  i = j
  <2>1. PICK c1, c2 : c1 = <<at[2], i>> /\ c2 = <<at[2], j>>
    OBVIOUS
  <2>2. c1[1] = at[2] /\ c1[2] = i /\ c2[1] = at[2] /\ c2[2] = j
    BY ONLY <2>1
  <2>3. ArmAt(layer, c1) = list[i] /\ ArmAt(layer, c2) = list[j]
    BY ONLY <1>1, <1>2, <2>2 DEF ArmAt
  <2>4. ASSUME NEW k \in Positions(list), NEW d, d = <<at[2], k>>, ArmAt(layer, d) = list[k]
        PROVE  d \in Claims(layer)
    <3> DEFINE whole == {m \in Positions(layer.allocations) : layer.allocations[m] # Malformed}
               places(m) == {m} \X Positions(Arms(layer.allocations[m]))
    <3>1. Claims(layer) = {e \in UNION {places(m) : m \in whole} : ArmAt(layer, e) # Malformed /\ ArmAt(layer, e).buckets # Malformed}
      BY ONLY <1>1 DEF Claims, AllocationsOf
    <3>2. at[2] \in whole
      BY ONLY <1>1
    <3>3. d \in places(at[2])
      BY ONLY <1>1, <1>2, <2>4
    <3>4. ArmAt(layer, d) # Malformed /\ ArmAt(layer, d).buckets # Malformed
      BY ONLY <1>1, <1>2, <2>4
    <3>5. d \in UNION {places(m) : m \in whole}
      <4> HIDE DEF whole, places
      <4> QED
        BY ONLY <3>2, <3>3
    <3> HIDE DEF whole, places
    <3> QED
      BY ONLY <3>1, <3>4, <3>5
  <2>5. c1 \in Claims(layer) /\ c2 \in Claims(layer)
    BY ONLY <2>1, <2>3, <2>4, i \in Positions(list), j \in Positions(list)
  <2>6. c1 = c2
    <3>1. /\ bucket \in ArmAt(layer, c1).buckets[1]..ArmAt(layer, c1).buckets[2]
          /\ bucket \in ArmAt(layer, c2).buckets[1]..ArmAt(layer, c2).buckets[2]
      BY ONLY <1>6, <2>3
    <3> QED
      BY ONLY <1>1, <2>5, <3>1, ClaimedOnce
  <2> QED
    BY ONLY <2>2, <2>6
<1> HIDE DEF Holds
<1>7. ASSUME NEW arm \in hits
      PROVE  list[arm].name = ClaimOf(arms, bucket) /\ list[arm].name \in names
  <2>1. PICK one : one = list[arm]
    OBVIOUS
  <2>2. arm \in Positions(list) /\ one \in arms /\ Holds(one)
    BY ONLY <1>3, <1>4, <2>1, arm \in hits
  <2>3. \A else \in arms : Holds(else) => else = one
    BY ONLY <1>4, <1>6, <2>1, <2>2
  <2>4. (CHOOSE else \in arms : Holds(else)) = one
    BY ONLY <2>2, <2>3
  <2>5. ClaimOf(arms, bucket) = one.name
    BY ONLY <2>4 DEF ClaimOf, Holds
  <2>6. one \in Elements(Arms(a)) \ {Malformed} /\ one.name # Malformed
    BY ONLY <1>1, <1>2, <2>1, <2>2 DEF Elements, Positions
  <2>7. one.name \in names
    BY ONLY <1>2, <2>6 DEF ArmNames
  <2> QED
    BY ONLY <2>1, <2>5, <2>7
<1>8. hits \subseteq Nat
  BY ONLY <1>1, <1>2, <1>3, Lists DEF Positions
<1>9. hits = {} <=> bucket \notin Claimed(arms)
  BY ONLY <1>3, <1>4, <1>5
<1> QED
  BY ONLY <1>2, <1>7, <1>8, <1>9

-----------------------------------------------------------------------------
(* Such variables ask alike.                                                 *)

\* A value is selected by the type.
LEMMA SelectedSame ==
    ASSUME NEW v, NEW w, SameVariable(v, w)
    PROVE  Default(v) = Default(w) /\ \A literal : Selected(v, literal) = Selected(w, literal)
BY DEF SameVariable, Default, Selected

\* Rules that are one choose and ask the same.
LEMMA RulesAskSame ==
    ASSUME NEW v, NEW w, SameVariable(v, w), Method(v) = "rules", NEW heard, Listed(heard), Len(heard) <= Len(Rules(v))
    PROVE  AskRules(v, heard) = AskRules(w, heard)
<1>1. PICK old, new, n, m, k : old = Rules(v) /\ new = Rules(w) /\ n = Len(heard) /\ m = Len(old) /\ k = Len(new)
  OBVIOUS
<1>2. /\ Listed(old) /\ Listed(new) /\ DOMAIN old = DOMAIN new
      /\ \A i \in DOMAIN old : old[i].when = new[i].when /\ old[i].value = new[i].value
  BY <1>1 DEF SameVariable
<1>3. n \in Nat /\ m \in Nat /\ k \in Nat /\ DOMAIN old = 1..m /\ DOMAIN new = 1..k /\ n <= m
  BY <1>1, <1>2, Lists
<1>31. k = m
  <2>1. \A i \in Nat : i \in 1..m <=> i \in 1..k
    BY ONLY <1>2, <1>3
  <2>2. m > 0 => m \in 1..k
    BY ONLY <1>3, <2>1
  <2>3. k > 0 => k \in 1..m
    BY ONLY <1>3, <2>1
  <2> QED
    BY ONLY <1>3, <2>2, <2>3
<1>4. n > 0 => old[n].value = new[n].value
  BY ONLY <1>2, <1>3
<1>5. n < m => old[n + 1].when = new[n + 1].when
  BY ONLY <1>2, <1>3
<1>6. AskRules(v, heard) = IF n > 0 /\ heard[n] = Bool(TRUE) THEN Chosen(Selected(v, old[n].value), n)
                           ELSE IF n < m THEN Ask(old[n + 1].when, None, TRUE) ELSE Chosen(Default(v), 0)
  BY ONLY <1>1 DEF AskRules
<1>7. AskRules(w, heard) = IF n > 0 /\ heard[n] = Bool(TRUE) THEN Chosen(Selected(w, new[n].value), n)
                           ELSE IF n < m THEN Ask(new[n + 1].when, None, TRUE) ELSE Chosen(Default(w), 0)
  BY ONLY <1>1, <1>31 DEF AskRules
<1>8. Default(v) = Default(w) /\ \A literal : Selected(v, literal) = Selected(w, literal)
  BY SelectedSame
<1>9. CASE n > 0 /\ heard[n] = Bool(TRUE)
  <2>1. PICK literal : literal = old[n].value
    OBVIOUS
  <2>2. AskRules(v, heard) = Chosen(Selected(v, literal), n)
    BY ONLY <1>6, <1>9, <2>1
  <2>3. AskRules(w, heard) = Chosen(Selected(w, literal), n)
    BY ONLY <1>4, <1>7, <1>9, <2>1
  <2>4. Selected(v, literal) = Selected(w, literal)
    BY ONLY <1>8
  <2> QED
    BY ONLY <2>2, <2>3, <2>4
<1>10. CASE ~(n > 0 /\ heard[n] = Bool(TRUE)) /\ n < m
  <2>1. AskRules(v, heard) = Ask(old[n + 1].when, None, TRUE)
    BY ONLY <1>6, <1>10
  <2>2. AskRules(w, heard) = Ask(new[n + 1].when, None, TRUE)
    BY ONLY <1>7, <1>10
  <2> QED
    BY ONLY <1>5, <1>10, <2>1, <2>2
<1>11. CASE ~(n > 0 /\ heard[n] = Bool(TRUE)) /\ ~(n < m)
  <2>1. AskRules(v, heard) = Chosen(Default(v), 0)
    BY ONLY <1>6, <1>11
  <2>2. AskRules(w, heard) = Chosen(Default(w), 0)
    BY ONLY <1>7, <1>11
  <2> QED
    BY ONLY <1>8, <2>1, <2>2
<1> QED
  BY ONLY <1>9, <1>10, <1>11

\* What a query selects is a matter of the type, the default and the query.
Selecting(type, default, query, usual, matches) ==
    IF type.array = 0
    THEN CASE matches = << >> /\ default = None -> Wrong("no match")
           [] matches = << >> -> Chosen(usual, 0)
           [] Len(matches) > 1 /\ query.sort = None -> Wrong("many matches")
           [] OTHER -> Chosen(Value("entry with id", <<Head(matches)>>), 0)
    ELSE IF matches = << >> /\ default # None THEN Chosen(usual, 0)
    ELSE Chosen(Value("entries with id", matches), 0)

\* The matches of a query are selected by nothing else of a variable than these.
LEMMA Selects ==
    ASSUME NEW v, NEW matches
    PROVE  SelectMatches(v, matches) = Selecting(v.type, v.resolve.default, v.resolve.query, Default(v), matches)
BY DEF SelectMatches, Selecting

\* The matches of a query, from the entries it is asked of and what was heard.
Matching(q, keyed, heard) ==
    LET names == Ascending(keyed)
        filters == IF q.filter = None THEN 0 ELSE Len(names)
        kept == Ascending({names[j] : j \in {k \in DOMAIN names : k > filters \/ heard[k] = Bool(TRUE)}})
        keys == SubSeq(heard, filters + 1, Len(heard))
    IN  Arranged(q, kept, keys)

\* What it asks, until it chooses.
Querying(q, keyed, heard, choice) ==
    LET names == Ascending(keyed)
        filters == IF q.filter = None THEN 0 ELSE Len(names)
        kept == Ascending({names[j] : j \in {k \in DOMAIN names : k > filters \/ heard[k] = Bool(TRUE)}})
        keys == SubSeq(heard, filters + 1, Len(heard))
    IN  IF names = << >> THEN Wrong("no entries")
        ELSE IF Len(heard) < filters THEN Ask(q.filter, <<q.from, names[Len(heard) + 1]>>, TRUE)
        ELSE IF q.sort # None /\ Len(keys) < Len(kept) THEN Ask(q.sort, <<q.from, kept[Len(keys) + 1]>>, FALSE)
        ELSE IF \E i \in 1..Len(keys) - 1 : ~Comparable(keys[i], keys[i + 1]) THEN Wrong("keys")
        ELSE choice

\* What a query asks and gives depends on nothing else than these.
LEMMA QueryIs ==
    ASSUME NEW p, NEW v, NEW heard
    PROVE  AskQuery(p, v, heard) = Querying(v.resolve.query, DOMAIN p.catalogs[v.resolve.query.from], heard,
               SelectMatches(v, Matching(v.resolve.query, DOMAIN p.catalogs[v.resolve.query.from], heard)))
BY DEF AskQuery, Querying, Matching

\* So does a query over the same entries.
LEMMA QueryAsksSame ==
    ASSUME NEW p, NEW q, NEW v, NEW w, SameVariable(v, w), Method(v) = "query",
           DOMAIN p.catalogs[v.resolve.query.from] = DOMAIN q.catalogs[v.resolve.query.from], NEW heard
    PROVE  AskQuery(p, v, heard) = AskQuery(q, w, heard)
<1>1. v.resolve.query = w.resolve.query /\ v.resolve.default = w.resolve.default /\ v.type = w.type
  BY DEF SameVariable
<1>2. Default(v) = Default(w)
  BY SelectedSame
<1>3. PICK query, keyed : query = v.resolve.query /\ keyed = DOMAIN p.catalogs[query.from]
  OBVIOUS
<1>4. query = w.resolve.query /\ keyed = DOMAIN q.catalogs[query.from]
  BY <1>1, <1>3
<1>5. PICK matches : matches = Matching(query, keyed, heard)
  OBVIOUS
<1>6. AskQuery(p, v, heard) = Querying(query, keyed, heard, SelectMatches(v, matches))
  BY ONLY <1>3, <1>5, QueryIs
<1>7. AskQuery(q, w, heard) = Querying(query, keyed, heard, SelectMatches(w, matches))
  BY ONLY <1>4, <1>5, QueryIs
<1>8. SelectMatches(v, matches) = SelectMatches(w, matches)
  <2>1. SelectMatches(v, matches) = Selecting(v.type, v.resolve.default, v.resolve.query, Default(v), matches)
    BY ONLY Selects
  <2>2. SelectMatches(w, matches) = Selecting(w.type, w.resolve.default, w.resolve.query, Default(w), matches)
    BY ONLY Selects
  <2> QED
    BY ONLY <1>1, <1>2, <2>1, <2>2
<1> QED
  BY ONLY <1>6, <1>7, <1>8

\* What an allocation asks and gives.
FirstOf(hits) == CHOOSE i \in hits : \A j \in hits : i <= j
AssignedTo(v, name) == (CHOOSE g \in Elements(Assigns(v)) : g.arm = name).value
Eligibilities(a) == IF a.eligibility = None THEN 0 ELSE 1
AllocationGives(v, a, layer, hits, first, value, heard) ==
    IF a.status \notin {None, "running"} THEN Chosen(Default(v), 0)
    ELSE IF Len(heard) < first THEN Ask(a.eligibility, None, TRUE)
    ELSE IF first = 1 /\ heard[1] = Bool(FALSE) THEN Chosen(Default(v), 0)
    ELSE IF Len(heard) = first THEN Ask(layer.unit, None, FALSE)
    ELSE IF hits = {} THEN Chosen(Default(v), 0)
    ELSE Chosen(Selected(v, value), FirstOf(hits))

\* It does ask and give that.
LEMMA AllocationGivesIt ==
    ASSUME NEW p, NEW x, NEW v, NEW named, NEW at, NEW a, NEW layer, Consumes(p, x, v, named, at, a, layer),
           NEW c, NEW heard, NEW hits, hits = Hits(p, c, v)
    PROVE  AskAllocation(p, c, v, heard) = AllocationGives(v, a, layer, hits, Eligibilities(a),
                                                           AssignedTo(v, a.arms[FirstOf(hits)].name), heard)
<1> DEFINE to == FindAllocation(p, v.resolve.assign.allocation)
           b == AllocationAt(p, to)
           hit == {i \in Positions(Arms(b)) :
                     Bucket(p, c, to[1]) \in b.arms[i].buckets[1]..b.arms[i].buckets[2]}
           arm == CHOOSE i \in hit : \A j \in hit : i <= j
           value == (CHOOSE g \in Elements(Assigns(v)) : g.arm = b.arms[arm].name).value
           first == IF b.eligibility = None THEN 0 ELSE 1
<1>1. hit = hits
  BY DEF Hits
<1>2. AskAllocation(p, c, v, heard) =
        IF b.status \notin {None, "running"} THEN Chosen(Default(v), 0)
        ELSE IF Len(heard) < first THEN Ask(b.eligibility, None, TRUE)
        ELSE IF first = 1 /\ heard[1] = Bool(FALSE) THEN Chosen(Default(v), 0)
        ELSE IF Len(heard) = first THEN Ask(p.layers[to[1]].unit, None, FALSE)
        ELSE IF hit = {} THEN Chosen(Default(v), 0)
        ELSE Chosen(Selected(v, value), arm)
  BY DEF AskAllocation
<1>3. to = at /\ b = a /\ p.layers[to[1]] = layer
  BY DEF Consumes
<1> HIDE DEF hit
<1>4. arm = FirstOf(hits)
  BY ONLY <1>1 DEF FirstOf
<1> HIDE DEF arm
<1>5. value = AssignedTo(v, a.arms[FirstOf(hits)].name)
  BY ONLY <1>3, <1>4 DEF AssignedTo
<1>6. PICK given : given = AssignedTo(v, a.arms[FirstOf(hits)].name)
  OBVIOUS
<1>7. PICK start : start = Eligibilities(a)
  OBVIOUS
<1>8. first = start
  BY ONLY <1>3, <1>7 DEF Eligibilities
<1> HIDE DEF value, to, b, first
<1>9. AskAllocation(p, c, v, heard) = AllocationGives(v, a, layer, hits, start, given, heard)
  BY ONLY <1>1, <1>2, <1>3, <1>4, <1>5, <1>6, <1>8 DEF AllocationGives
<1>10. AskAllocation(p, c, v, heard) = AllocationGives(v, a, layer, hits, Eligibilities(a),
                                                       AssignedTo(v, a.arms[FirstOf(hits)].name), heard)
  BY ONLY <1>6, <1>7, <1>9
<1> QED
  BY <1>10

\* An allocation asks the same and gives the same arm, but that arms which expanded
\* may give one where the default was.
LEMMA AllocationAsksSame ==
    ASSUME NEW p, Sound(p), NEW q, Sound(q), NEW x, NEW named,
           NEW v, NEW at, NEW a, NEW layer, Consumes(p, x, v, named, at, a, layer),
           NEW w, NEW to, NEW b, NEW other, Consumes(q, x, w, named, to, b, other),
           SameVariable(v, w), AllocationAlike(p, q, at, a, layer, to, b, other), NEW lax \in BOOLEAN,
           lax \/ \A change \in Changes(p, q) : change.at # <<"layer", at[1]>>,
           NEW c, NEW heard
    PROVE  Alike(AskAllocation(p, c, v, heard), AskAllocation(q, c, w, heard), lax, FALSE)
<1>1. PICK hits, others : hits = Hits(p, c, v) /\ others = Hits(q, c, w)
  OBVIOUS
<1>2. PICK first : first = Eligibilities(a)
  OBVIOUS
<1>3. PICK arm, one : arm = FirstOf(hits) /\ one = FirstOf(others)
  OBVIOUS
<1>4. PICK value, else : value = AssignedTo(v, a.arms[arm].name) /\ else = AssignedTo(w, b.arms[one].name)
  OBVIOUS
<1>5. AskAllocation(p, c, v, heard) =
        IF a.status \notin {None, "running"} THEN Chosen(Default(v), 0)
        ELSE IF Len(heard) < first THEN Ask(a.eligibility, None, TRUE)
        ELSE IF first = 1 /\ heard[1] = Bool(FALSE) THEN Chosen(Default(v), 0)
        ELSE IF Len(heard) = first THEN Ask(layer.unit, None, FALSE)
        ELSE IF hits = {} THEN Chosen(Default(v), 0)
        ELSE Chosen(Selected(v, value), arm)
  <2>1. hits = Hits(p, c, v)
    BY ONLY <1>1
  <2>2. AskAllocation(p, c, v, heard) = AllocationGives(v, a, layer, hits, Eligibilities(a),
                                                        AssignedTo(v, a.arms[FirstOf(hits)].name), heard)
    BY ONLY <2>1, Consumes(p, x, v, named, at, a, layer), AllocationGivesIt
  <2>3. AskAllocation(p, c, v, heard) = AllocationGives(v, a, layer, hits, first, value, heard)
    BY ONLY <1>2, <1>3, <1>4, <2>2
  <2> QED
    BY ONLY <1>3, <2>3 DEF AllocationGives
<1>6. first = Eligibilities(b)
  BY <1>2 DEF AllocationAlike, Eligibilities
<1>7. AskAllocation(q, c, w, heard) =
        IF b.status \notin {None, "running"} THEN Chosen(Default(w), 0)
        ELSE IF Len(heard) < first THEN Ask(b.eligibility, None, TRUE)
        ELSE IF first = 1 /\ heard[1] = Bool(FALSE) THEN Chosen(Default(w), 0)
        ELSE IF Len(heard) = first THEN Ask(other.unit, None, FALSE)
        ELSE IF others = {} THEN Chosen(Default(w), 0)
        ELSE Chosen(Selected(w, else), one)
  <2>1. others = Hits(q, c, w)
    BY ONLY <1>1
  <2>2. AskAllocation(q, c, w, heard) = AllocationGives(w, b, other, others, Eligibilities(b),
                                                        AssignedTo(w, b.arms[FirstOf(others)].name), heard)
    BY ONLY <2>1, Consumes(q, x, w, named, to, b, other), AllocationGivesIt
  <2>3. AskAllocation(q, c, w, heard) = AllocationGives(w, b, other, others, first, else, heard)
    BY ONLY <1>3, <1>4, <1>6, <2>2
  <2> QED
    BY ONLY <1>3, <2>3 DEF AllocationGives
<1>8. PICK bucket : bucket = Bucket(p, c, at[1])
  OBVIOUS
<1>9. bucket = Bucket(q, c, to[1])
  BY ONLY <1>8, AllocationAlike(p, q, at, a, layer, to, b, other), Consumes(p, x, v, named, at, a, layer),
          Consumes(q, x, w, named, to, b, other) DEF Bucket, AllocationAlike, Consumes
<1>10. PICK arms, more : arms = NamedArms(a) /\ more = NamedArms(b)
  OBVIOUS
<1>11. /\ hits = {} <=> bucket \notin Claimed(arms)
       /\ \A i \in hits : a.arms[i].name = ClaimOf(arms, bucket)
       /\ hits \subseteq Nat
  BY ONLY <1>1, <1>8, <1>10, Sound(p), Consumes(p, x, v, named, at, a, layer), HitClaims
<1>12. /\ others = {} <=> bucket \notin Claimed(more)
       /\ \A i \in others : b.arms[i].name = ClaimOf(more, bucket)
       /\ others \subseteq Nat
  BY ONLY <1>1, <1>9, <1>10, Sound(q), Consumes(q, x, w, named, to, b, other), HitClaims
<1>13. \A S : S \subseteq Nat /\ S # {} => FirstOf(S) \in S
  <2>1. ASSUME NEW S, S \subseteq Nat, S # {} PROVE FirstOf(S) \in S
    <3>1. \E i \in S : \A j \in S : i <= j
      BY ONLY <2>1, Least
    <3> QED
      BY ONLY <3>1 DEF FirstOf
  <2> QED
    BY ONLY <2>1
<1>14. hits # {} => a.arms[arm].name = ClaimOf(arms, bucket)
  BY ONLY <1>3, <1>11, <1>13
<1>15. others # {} => b.arms[one].name = ClaimOf(more, bucket)
  BY ONLY <1>3, <1>12, <1>13
<1>16. arms = more \/ (lax /\ Keeps(arms, more))
  BY ONLY <1>10, AllocationAlike(p, q, at, a, layer, to, b, other),
          lax \/ \A change \in Changes(p, q) : change.at # <<"layer", at[1]>> DEF AllocationAlike
<1>17. Keeps(arms, more) /\ bucket \in Claimed(arms) =>
         bucket \in Claimed(more) /\ ClaimOf(arms, bucket) = ClaimOf(more, bucket)
  BY ONLY DEF Keeps, Released, Reassigned
<1>18. hits # {} => others # {} /\ a.arms[arm].name = b.arms[one].name
  BY ONLY <1>11, <1>12, <1>14, <1>15, <1>16, <1>17
<1>19. hits = {} => lax \/ others = {}
  BY ONLY <1>11, <1>12, <1>16
<1>20. hits # {} => value = else
  <2>1. Elements(Assigns(v)) = Elements(Assigns(w))
    BY DEF SameVariable, Consumes
  <2>2. PICK name : name = a.arms[arm].name
    OBVIOUS
  <2>3. AssignedTo(v, name) = AssignedTo(w, name)
    BY ONLY <2>1 DEF AssignedTo
  <2> QED
    BY ONLY <1>4, <1>18, <2>2, <2>3
<1>21. Default(v) = Default(w) /\ \A literal : Selected(v, literal) = Selected(w, literal)
  BY SelectedSame
<1>22. /\ a.status \in {None, "running"} <=> b.status \in {None, "running"}
       /\ a.eligibility = b.eligibility /\ layer.unit = other.unit
  BY ONLY AllocationAlike(p, q, at, a, layer, to, b, other) DEF AllocationAlike
<1>23. PICK next, too : next = AskAllocation(p, c, v, heard) /\ too = AskAllocation(q, c, w, heard)
  OBVIOUS
<1>24. \/ next = too
       \/ lax /\ next = Chosen(Default(v), 0)
       \/ next = Chosen(Selected(v, value), arm) /\ too = Chosen(Selected(v, value), one)
  BY ONLY <1>5, <1>7, <1>18, <1>19, <1>20, <1>21, <1>22, <1>23
<1>25. \A val, by : Chosen(val, by).do = "choose" /\ Chosen(val, by).value = val /\ Chosen(val, by).by = by
  BY ONLY DEF Chosen
<1>26. Same(next, too) \/ (lax /\ next.do = "choose" /\ next.by = 0)
  BY ONLY <1>24, <1>25 DEF Same
<1> QED
  BY ONLY <1>23, <1>26 DEF Alike

\* A query asks of the entries of its catalog.
LEMMA QueryAsksEntries ==
    ASSUME NEW p, NEW v, NEW heard, Listed(heard), NEW next, next = AskQuery(p, v, heard), next.do = "ask",
           NEW entries, entries = DOMAIN p.catalogs[v.resolve.query.from], IsFiniteSet(entries), entries \subseteq Nat
    PROVE  next.at[1] = v.resolve.query.from /\ next.at[2] \in entries
<1> DEFINE q == v.resolve.query
           names == Ascending(entries)
           filters == IF q.filter = None THEN 0 ELSE Len(names)
           J == {k \in DOMAIN names : k > filters \/ heard[k] = Bool(TRUE)}
           K == {names[j] : j \in J}
           kept == Ascending(K)
           keys == SubSeq(heard, filters + 1, Len(heard))
           matches == Arranged(q, kept, keys)
           size == Cardinality(entries)
<1>1. \/ next = Wrong("no entries")
      \/ Len(heard) < filters /\ next = Ask(q.filter, <<q.from, names[Len(heard) + 1]>>, TRUE)
      \/ ~(Len(heard) < filters) /\ Len(keys) < Len(kept) /\ next = Ask(q.sort, <<q.from, kept[Len(keys) + 1]>>, FALSE)
      \/ next = Wrong("keys")
      \/ next = SelectMatches(v, matches)
  BY DEF AskQuery
<1>2. size \in Nat /\ Len(names) = size /\ DOMAIN names = 1..size /\ \A i \in DOMAIN names : names[i] \in entries
  BY AscendingLen, AscendingIn
<1>3. J \in SUBSET (1..size)
  BY <1>2
<1>4. IsFiniteSet(K) /\ K \subseteq entries /\ Cardinality(K) \in Nat
  <2>1. K \subseteq entries
    <3> HIDE DEF names, size
    <3> QED
      BY ONLY <1>2, <1>3
  <2> HIDE DEF K
  <2> QED
    BY ONLY <2>1, IsFiniteSet(entries), FS_Subset, FS_CardinalityType
<1>5. Len(kept) = Cardinality(K) /\ DOMAIN kept = 1..Cardinality(K) /\ \A i \in DOMAIN kept : kept[i] \in entries
  <2>1. K \subseteq Nat
    BY ONLY <1>4, entries \subseteq Nat
  <2> HIDE DEF K
  <2>2. Len(kept) = Cardinality(K) /\ DOMAIN kept = 1..Cardinality(K)
    BY ONLY <1>4, AscendingLen
  <2>3. \A i \in DOMAIN kept : kept[i] \in K
    BY ONLY <1>4, <2>1, AscendingIn
  <2> QED
    BY ONLY <1>4, <2>2, <2>3
<1>6. Len(heard) \in Nat /\ heard \in Seq(Elements(heard))
  BY Lists DEF Listed
<1>7. filters \in Nat /\ filters <= size
  BY <1>2
<1> HIDE DEF names, J, K, kept, matches, size, filters, q
<1>8. ~(Len(heard) < filters) => Len(keys) \in Nat
  BY <1>6, <1>7
<1>9. ~(next = Wrong("no entries") \/ next = Wrong("keys"))
  <2>1. Wrong("no entries").do = "fail" /\ Wrong("keys").do = "fail"
    BY ONLY DEF Wrong
  <2> QED
    BY <2>1
<1>10. next # SelectMatches(v, matches)
  <2>1. next = SelectMatches(v, matches) => next.do = "choose" \/ next.do = "fail"
    BY MatchesEnd
  <2> QED
    BY <2>1
<1> HIDE DEF keys
<1>12. CASE Len(heard) < filters /\ next = Ask(q.filter, <<q.from, names[Len(heard) + 1]>>, TRUE)
  <2>1. Len(heard) + 1 \in DOMAIN names
    BY ONLY <1>2, <1>6, <1>7, <1>12
  <2>2. names[Len(heard) + 1] \in entries
    BY ONLY <1>2, <2>1
  <2>3. PICK name, e : name = names[Len(heard) + 1] /\ e = q.filter
    OBVIOUS
  <2>4. next = Ask(e, <<q.from, name>>, TRUE)
    BY ONLY <1>12, <2>3
  <2>5. next.at = <<q.from, name>>
    BY ONLY <2>4 DEF Ask
  <2>6. next.at[1] = q.from /\ next.at[2] = name
    BY ONLY <2>5
  <2> QED
    BY <2>2, <2>3, <2>6 DEF q
<1>13. CASE ~(Len(heard) < filters) /\ Len(keys) < Len(kept) /\ next = Ask(q.sort, <<q.from, kept[Len(keys) + 1]>>, FALSE)
  <2>1. Len(keys) + 1 \in DOMAIN kept
    BY ONLY <1>4, <1>5, <1>8, <1>13
  <2>2. kept[Len(keys) + 1] \in entries
    BY ONLY <1>5, <2>1
  <2>3. PICK name, e : name = kept[Len(keys) + 1] /\ e = q.sort
    OBVIOUS
  <2>4. next = Ask(e, <<q.from, name>>, FALSE)
    BY ONLY <1>13, <2>3
  <2>5. next.at = <<q.from, name>>
    BY ONLY <2>4 DEF Ask
  <2>6. next.at[1] = q.from /\ next.at[2] = name
    BY ONLY <2>5
  <2> QED
    BY <2>2, <2>3, <2>6 DEF q
<1> QED
  BY ONLY <1>1, <1>9, <1>10, <1>12, <1>13

\* What is asked is of the variable, and of no entry or, by a query, of one that the
\* variable's catalog has.
OfEntry(p, v, next) ==
    /\ v.type.class = "catalog" /\ v.type.of \in DOMAIN p.catalogs
    /\ next.at[1] = v.type.of /\ next.at[2] \in DOMAIN p.catalogs[v.type.of]
    /\ next.expression \in QueryExpressions(v) /\ HasResolve(v)
LEMMA AskedIsOf ==
    ASSUME NEW p, Sound(p), NEW c, NEW id \in Variables(p), NEW v, v = p.variables[id],
           NEW heard, Listed(heard), NEW next, next = AskNext(p, c, id, heard), next.do = "ask"
    PROVE  /\ next.expression \in Expressions(p, id)
           /\ next.at = None \/ OfEntry(p, v, next)
<1>1. /\ id # Nobody /\ HasResolve(v) /\ ValidType(p, v.type) /\ Method(v) \in {"rules", "query", "allocation"}
      /\ Method(v) = "rules" => Listed(Rules(v)) /\ \A i \in DOMAIN Rules(v) : CompilesRule(p, v, Rules(v)[i])
      /\ Method(v) = "query" => CompilesQuery(p, v)
      /\ Method(v) = "allocation" => CompilesAllocation(p, v)
  BY CompiledVariable DEF Sound
<1>2. CASE Method(v) = "rules"
  <2>1. next = AskRules(v, heard)
    BY <1>1, <1>2 DEF AskNext
  <2>2. PICK n : n = Len(heard)
    OBVIOUS
  <2>3. n + 1 \in DOMAIN Rules(v) /\ next = Ask(Rules(v)[n + 1].when, None, TRUE)
    <3>1. Listed(heard) /\ Listed(Rules(v)) /\ next.do = "ask" /\ next.do # "choose"
      BY <1>1, <1>2
    <3> QED
      BY ONLY <2>1, <2>2, <3>1, RulesAsk
  <2>4. PICK rule : rule = Rules(v)[n + 1]
    OBVIOUS
  <2>5. rule \in Elements(Rules(v)) /\ rule # Malformed /\ Present(rule.when)
    BY <1>1, <1>2, <2>3, <2>4 DEF Elements, CompilesRule
  <2>6. next.expression = rule.when /\ next.at = None
    BY ONLY <2>3, <2>4 DEF Ask
  <2>7. rule.when \in RuleExpressions(v)
    BY ONLY <2>5 DEF RuleExpressions, Present
  <2> QED
    BY <2>6, <2>7 DEF Expressions
<1>3. CASE Method(v) = "query"
  <2>1. next = AskQuery(p, v, heard) /\ CompilesQuery(p, v)
    BY <1>1, <1>3 DEF AskNext
  <2>2. PICK q : q = v.resolve.query
    OBVIOUS
  <2>3. q # None /\ q.from = QueryCatalog(v) /\ QueryCatalog(v) # None /\ Malformed \notin {q.filter, q.sort}
    BY ONLY <2>1, <2>2 DEF CompilesQuery
  <2>4. v.type.class = "catalog" /\ q.from = v.type.of
    BY ONLY <2>3 DEF QueryCatalog
  <2>5. v.type.of \in DOMAIN p.catalogs
    BY ONLY <1>1, <2>4 DEF ValidType
  <2>6. next.expression \in QueryExpressions(v)
    <3>1. Listed(heard) /\ next.do = "ask"
      OBVIOUS
    <3>2. \/ q.filter # None /\ next.expression = q.filter
          \/ q.sort # None /\ next.expression = q.sort
      BY ONLY <2>1, <2>2, <3>1, QueryAsks
    <3> QED
      BY ONLY <2>2, <2>3, <3>2 DEF QueryExpressions
  <2>7. PICK entries : entries = DOMAIN p.catalogs[q.from]
    OBVIOUS
  <2>8. IsFiniteSet(entries) /\ entries \subseteq Nat
    BY ONLY Sound(p), <2>4, <2>5, <2>7 DEF Sound, Authored, Projected
  <2>9. next.at[1] = q.from /\ next.at[2] \in entries
    <3>1. Listed(heard) /\ next.do = "ask"
      OBVIOUS
    <3> QED
      BY ONLY <2>1, <2>2, <2>7, <2>8, <3>1, QueryAsksEntries
  <2>10. OfEntry(p, v, next)
    BY ONLY <1>1, <2>4, <2>5, <2>6, <2>7, <2>9 DEF OfEntry
  <2> QED
    BY <2>6, <2>10 DEF Expressions
<1>4. CASE Method(v) = "allocation"
  <2>1. next = AskAllocation(p, c, v, heard) /\ CompilesAllocation(p, v)
    BY <1>1, <1>4 DEF AskNext
  <2>2. PICK at, a, layer, named : Consumes(p, id, v, named, at, a, layer)
    BY <1>4 DEF Consumes
  <2>3. ConsumesWell(p, v, named, at, a, layer)
    BY <2>2, CompiledAllocation
  <2>4. at = FindAllocation(p, v.resolve.assign.allocation) /\ a = AllocationAt(p, at) /\ layer = p.layers[at[1]]
        /\ named = v.resolve.assign.allocation
    BY <2>2 DEF Consumes
  <2>5. (a.eligibility # None /\ next.expression = a.eligibility) \/ next.expression = layer.unit
    <3>1. Listed(heard) /\ next.do = "ask"
      OBVIOUS
    <3> QED
      BY ONLY <2>1, <2>4, <3>1, AllocationAsks
  <2>6. Malformed \notin {layer.unit, a.eligibility} /\ named # Malformed /\ Named(p, named) # {}
        /\ layer \in Elements(p.layers)
    <3>1. at[1] \in DOMAIN p.layers
      BY ONLY <2>3 DEF ConsumesWell
    <3> QED
      BY ONLY <2>3, <2>4, <3>1 DEF ConsumesWell, Elements
  <2>7. v.resolve.assign # None
    BY ONLY <2>1 DEF CompilesAllocation
  <2>8. layer.unit # None
    BY ONLY <2>6, Sound(p) DEF Sound, Projected
  <2>9. AllocationExpressions(p, v) = {layer.unit, a.eligibility} \ {None, Malformed}
    BY ONLY <1>4, <2>4, <2>6, <2>7 DEF AllocationExpressions
  <2>10. next.expression \in AllocationExpressions(p, v)
    BY ONLY <2>5, <2>6, <2>8, <2>9
  <2>11. next.at = None
    <3>1. PICK hits : hits = Hits(p, c, v)
      OBVIOUS
    <3>2. PICK first, given : first = Eligibilities(a) /\ given = AssignedTo(v, a.arms[FirstOf(hits)].name)
      OBVIOUS
    <3>3. next = AllocationGives(v, a, layer, hits, first, given, heard)
      BY ONLY <2>1, <2>2, <3>1, <3>2, AllocationGivesIt
    <3>4. \/ next = Ask(a.eligibility, None, TRUE) \/ next = Ask(layer.unit, None, FALSE)
          \/ \E value, by : next = Chosen(value, by)
      BY ONLY <3>3 DEF AllocationGives
    <3>5. next.do = "ask"
      OBVIOUS
    <3> QED
      BY ONLY <3>4, <3>5 DEF Ask, Chosen
  <2> QED
    BY <2>10, <2>11 DEF Expressions
<1> QED
  BY <1>1, <1>2, <1>3, <1>4

\* What a variable of another class than a catalog chooses is a literal.
LEMMA PlainChoice ==
    ASSUME NEW p, Sound(p), NEW c, NEW id \in Variables(p), NEW v, v = p.variables[id], v.type.class # "catalog",
           NEW heard, Listed(heard), Len(heard) <= MostAsks(p, id),
           NEW next, next = AskNext(p, c, id, heard), next.do = "choose"
    PROVE  next.value.type \notin EntryValues
<1>1. /\ id # Nobody /\ HasResolve(v) /\ Method(v) \in {"rules", "query", "allocation"} /\ CompilesResolve(p, v)
      /\ Method(v) = "rules" => Listed(Rules(v)) /\ \A i \in DOMAIN Rules(v) : CompilesRule(p, v, Rules(v)[i])
      /\ Method(v) = "query" => CompilesQuery(p, v)
      /\ Method(v) = "allocation" => CompilesAllocation(p, v)
  BY CompiledVariable DEF Sound
<1>2. \A value \in ResolveValues(v) : value.type \notin EntryValues
  BY <1>1 DEF Sound, Projected
<1>3. \A literal : Selected(v, literal) = literal
  BY DEF Selected
<1>4. Present(v.resolve.default) => Default(v) \in ResolveValues(v)
  BY <1>3 DEF Default, ResolveValues, Present
<1>5. \A value, by : Chosen(value, by).value = value
  BY ONLY DEF Chosen
<1>6. CASE Method(v) = "rules"
  <2>1. next = AskRules(v, heard) /\ Len(heard) <= Len(Rules(v))
    BY <1>1, <1>6 DEF AskNext, MostAsks
  <2>2. Present(v.resolve.default)
    BY <1>1, <1>6 DEF CompilesResolve
  <2>3. PICK n, rules, size : n = Len(heard) /\ rules = Rules(v) /\ size = Len(rules)
    OBVIOUS
  <2>4. n \in Nat /\ size \in Nat /\ DOMAIN rules = 1..size /\ n <= size /\ \A i \in DOMAIN rules : CompilesRule(p, v, rules[i])
    BY <1>1, <1>6, <2>1, <2>3, Lists
  <2>5. \/ n > 0 /\ next = Chosen(Selected(v, rules[n].value), n)
        \/ next = Ask(rules[n + 1].when, None, TRUE)
        \/ next = Chosen(Default(v), 0)
    BY ONLY <2>1, <2>3 DEF AskRules
  <2>6. next.do # "ask"
    OBVIOUS
  <2>7. n > 0 => rules[n].value \in ResolveValues(v)
    <3>1. ASSUME n > 0 PROVE rules[n].value \in ResolveValues(v)
      <4>1. n \in DOMAIN rules
        BY ONLY <2>4, <3>1
      <4>2. CompilesRule(p, v, rules[n])
        BY ONLY <2>4, <4>1
      <4>3. PICK rule : rule = rules[n]
        OBVIOUS
      <4>4. rule \in Elements(Rules(v)) /\ rule # Malformed /\ Present(rule.value)
        BY ONLY <2>3, <4>1, <4>2, <4>3 DEF CompilesRule, Elements
      <4> QED
        BY ONLY <4>3, <4>4 DEF ResolveValues, Present
    <3> QED
      BY ONLY <3>1
  <2>8. next # Ask(rules[n + 1].when, None, TRUE)
    BY ONLY <2>6 DEF Ask
  <2>9. CASE n > 0 /\ next = Chosen(Selected(v, rules[n].value), n)
    <3>1. next.value = rules[n].value
      BY ONLY <1>3, <1>5, <2>9
    <3> QED
      BY ONLY <1>2, <2>7, <2>9, <3>1
  <2>10. CASE next = Chosen(Default(v), 0)
    <3>1. next.value = Default(v)
      BY ONLY <1>5, <2>10
    <3> QED
      BY ONLY <1>2, <1>4, <2>2, <3>1
  <2> QED
    BY ONLY <2>5, <2>8, <2>9, <2>10
<1>7. Method(v) # "query"
  <2>1. CompilesQuery(p, v) => v.type.class = "catalog"
    BY ONLY DEF CompilesQuery, QueryCatalog
  <2> QED
    BY <1>1, <2>1
<1>8. CASE Method(v) = "allocation"
  <2>1. next = AskAllocation(p, c, v, heard) /\ CompilesAllocation(p, v)
    BY <1>1, <1>8 DEF AskNext
  <2>2. PICK at, a, layer, named : Consumes(p, id, v, named, at, a, layer)
    BY <1>8 DEF Consumes
  <2>3. PICK hits : hits = Hits(p, c, v)
    OBVIOUS
  <2>4. PICK first, given, arm : /\ first = Eligibilities(a) /\ arm = FirstOf(hits)
                                 /\ given = AssignedTo(v, a.arms[arm].name)
    OBVIOUS
  <2>5. next = AllocationGives(v, a, layer, hits, first, given, heard)
    BY ONLY <2>1, <2>2, <2>3, <2>4, AllocationGivesIt
  <2>6. \/ next = Ask(a.eligibility, None, TRUE) \/ next = Ask(layer.unit, None, FALSE)
        \/ next = Chosen(Default(v), 0) \/ (hits # {} /\ next = Chosen(Selected(v, given), arm))
    BY ONLY <2>4, <2>5 DEF AllocationGives
  <2>7. next # Ask(a.eligibility, None, TRUE) /\ next # Ask(layer.unit, None, FALSE)
    <3>1. next.do = "choose"
      OBVIOUS
    <3> QED
      BY ONLY <3>1 DEF Ask
  <2>8. Present(v.resolve.default) /\ \A g \in Elements(Assigns(v)) : g # Malformed /\ Present(g.value)
    BY ONLY <2>1 DEF CompilesAllocation
  <2>9. hits # {} => given \in ResolveValues(v)
    <3>1. ASSUME hits # {} PROVE given \in ResolveValues(v)
      <4>1. PICK bucket : bucket = Bucket(p, c, at[1])
        OBVIOUS
      <4>2. hits \subseteq Nat /\ \A i \in hits : a.arms[i].name \in ArmNames(a)
        BY ONLY Sound(p), <2>2, <2>3, <4>1, HitClaims
      <4>3. arm \in hits
        <5>1. \E i \in hits : \A j \in hits : i <= j
          BY ONLY <3>1, <4>2, Least
        <5> QED
          BY ONLY <2>4, <5>1 DEF FirstOf
      <4>4. {g.arm : g \in Elements(Assigns(v))} = ArmNames(a)
        <5>1. ConsumesWell(p, v, named, at, a, layer)
          BY <2>2, CompiledAllocation
        <5> QED
          BY ONLY <5>1 DEF ConsumesWell
      <4>5. PICK name : name = a.arms[arm].name
        OBVIOUS
      <4>6. \E g \in Elements(Assigns(v)) : g.arm = name
        BY ONLY <4>2, <4>3, <4>4, <4>5
      <4>7. PICK g : g = (CHOOSE one \in Elements(Assigns(v)) : one.arm = name)
        OBVIOUS
      <4>8. g \in Elements(Assigns(v)) /\ given = g.value
        BY ONLY <2>4, <4>5, <4>6, <4>7 DEF AssignedTo
      <4> QED
        BY ONLY <2>8, <4>8 DEF ResolveValues, Present
    <3> QED
      BY ONLY <3>1
  <2>10. next.value \in ResolveValues(v)
    <3>1. CASE next = Chosen(Default(v), 0)
      <4>1. next.value = Default(v)
        BY ONLY <1>5, <3>1
      <4> QED
        BY ONLY <1>4, <2>8, <4>1
    <3>2. CASE hits # {} /\ next = Chosen(Selected(v, given), arm)
      <4>1. next.value = Selected(v, given)
        BY ONLY <1>5, <3>2
      <4>2. next.value = given
        BY ONLY <1>3, <4>1
      <4> QED
        BY ONLY <2>9, <3>2, <4>2
    <3> QED
      BY ONLY <2>6, <2>7, <3>1, <3>2
  <2> QED
    BY <1>2, <2>10
<1> QED
  BY <1>1, <1>6, <1>7, <1>8

\* The variables it is resolved by are closed under what they read, and the catalogs
\* under what their entries refer to.
LEMMA ReadsClose ==
    ASSUME NEW p, NEW id
    PROVE  /\ id \in ReadFrom(p, id)
           /\ \A x \in ReadFrom(p, id) \cap Variables(p) : VariablesRead(p, x) \subseteq ReadFrom(p, id)
<1> DEFINE all == {id} \cup Variables(p) \cup UNION {VariablesRead(p, y) : y \in Variables(p)}
           next == [x \in all |-> IF x \in Variables(p) THEN VariablesRead(p, x) ELSE {}]
<1>1. ReadFrom(p, id) = Reached(id, next)
  BY DEF ReadFrom
<1>2. id \in DOMAIN next /\ \A y \in DOMAIN next : next[y] \subseteq DOMAIN next
  <2>1. \A y \in Variables(p) : VariablesRead(p, y) \subseteq all
    BY ONLY Zenon
  <2> QED
    BY ONLY <2>1
<1>3. \A x \in all \cap Variables(p) : next[x] = VariablesRead(p, x)
  OBVIOUS
<1>4. DOMAIN next = all
  OBVIOUS
<1> HIDE DEF next, all
<1>5. id \in Reached(id, next) /\ Reached(id, next) \subseteq all /\ \A y \in Reached(id, next) : next[y] \subseteq Reached(id, next)
  BY ONLY <1>2, <1>4, ReachedCloses
<1> QED
  BY ONLY <1>1, <1>3, <1>5

\* The catalogs from one are closed under reference.
LEMMA CatalogsClose ==
    ASSUME NEW p, NEW c
    PROVE  /\ c \in CatalogsFrom(p, c)
           /\ \A d \in CatalogsFrom(p, c) \cap DOMAIN p.catalogs : RefersTo(p, d) \subseteq CatalogsFrom(p, c)
<1> DEFINE all == {c} \cup DOMAIN p.catalogs \cup UNION {RefersTo(p, e) : e \in DOMAIN p.catalogs}
           next == [d \in all |-> IF d \in DOMAIN p.catalogs THEN RefersTo(p, d) ELSE {}]
<1>1. CatalogsFrom(p, c) = Reached(c, next)
  BY DEF CatalogsFrom
<1>2. c \in DOMAIN next /\ \A y \in DOMAIN next : next[y] \subseteq DOMAIN next
  <2>1. \A y \in DOMAIN p.catalogs : RefersTo(p, y) \subseteq all
    BY ONLY Zenon
  <2> QED
    BY ONLY <2>1
<1>3. \A d \in all \cap DOMAIN p.catalogs : next[d] = RefersTo(p, d)
  OBVIOUS
<1>4. DOMAIN next = all
  OBVIOUS
<1> HIDE DEF next, all
<1>5. c \in Reached(c, next) /\ Reached(c, next) \subseteq all /\ \A y \in Reached(c, next) : next[y] \subseteq Reached(c, next)
  BY ONLY <1>2, <1>4, ReachedCloses
<1> QED
  BY ONLY <1>1, <1>3, <1>5

\* A variable of which the diff says nothing, nor of what it is resolved by itself,
\* but that arms expanded; the layer is to stay unless the comparison is lax.
Untouched(p, q, x, time, then, lax) ==
    /\ Quiet(p, q, <<"variable", x>>)
    /\ \A e \in Expressions(p, x) : /\ e.op = "now" => time = then
                                    /\ e.op = "member" => Quiet(p, q, <<"list", e.of>>)
    /\ p.variables[x].type.class = "catalog" =>
         \A d \in CatalogsFrom(p, p.variables[x].type.of) : Quiet(p, q, <<"catalog", d>>)
    /\ \A i \in LayersOf(p, x) : /\ Quiet(p, q, <<"layer", i>>)
                                 /\ lax \/ \A change \in Changes(p, q) : change.at # <<"layer", i>>

\* What it asks evaluates to the same,
Evaluates(p, q, c, time, then, ask) ==
    \A bound : Evaluate(p, c, time, ask.expression, bound, ask.at, Nobody)
              = Evaluate(q, c, then, ask.expression, bound, ask.at, Nobody)
LEMMA AskedSame ==
    ASSUME NEW p, Sound(p), NEW q, Sound(q), NEW c, NEW time, NEW then, NEW x \in Variables(p), NEW lax,
           Untouched(p, q, x, time, then, lax), NEW heard, Listed(heard),
           NEW next, next = AskNext(p, c, x, heard), next.do = "ask"
    PROVE  Reads(next.expression) \subseteq VariablesRead(p, x) /\ Evaluates(p, q, c, time, then, next)
<1>1. PICK v, e, at : v = p.variables[x] /\ e = next.expression /\ at = next.at
  OBVIOUS
<1>2. e \in Expressions(p, x) /\ (at = None \/ OfEntry(p, v, next))
  BY <1>1, AskedIsOf
<1>3. Reads(e) \subseteq VariablesRead(p, x)
  BY ONLY <1>2 DEF VariablesRead
<1>4. e.op = "now" => time = then
  BY <1>2 DEF Untouched
<1>5. e.op = "member" => SameList(p, q, e.of)
  BY <1>2, ListStays DEF Untouched
<1>6. ASSUME ReadsEntry(e), at # None
      PROVE  Field(p, at, e) = Field(q, at, e)
  <2>1. OfEntry(p, v, next)
    BY <1>2, <1>6
  <2>2. PICK K : K = CatalogsFrom(p, v.type.of)
    OBVIOUS
  <2>3. v.type.class = "catalog" /\ v.type.of \in DOMAIN p.catalogs /\ at[1] = v.type.of /\ at[2] \in DOMAIN p.catalogs[v.type.of]
        /\ e \in QueryExpressions(v) /\ HasResolve(v)
    BY ONLY <1>1, <2>1 DEF OfEntry
  <2>4. \A d \in K : Quiet(p, q, <<"catalog", d>>)
    BY <1>1, <2>2, <2>3 DEF Untouched
  <2>5. \A d \in K : SameCatalog(p, q, d)
    BY <2>4, CatalogStays DEF Sound
  <2>6. v.type.of \in K /\ \A d \in K \cap DOMAIN p.catalogs : RefersTo(p, d) \subseteq K
    BY ONLY <2>2, CatalogsClose
  <2>7. Within(p, K, at)
    BY ONLY <2>3, <2>6 DEF Within
  <2>8. e.v.is[1] \in Nat
    BY <1>1, <1>6, <2>3 DEF Sound, Projected
  <2> QED
    BY ONLY <2>5, <2>6, <2>7, <2>8, FieldSame
<1>7. \A bound : Evaluate(p, c, time, e, bound, at, Nobody) = Evaluate(q, c, then, e, bound, at, Nobody)
  <2>1. ReadsEntry(e) /\ at # None => Field(p, at, e) = Field(q, at, e)
    BY ONLY <1>6
  <2> QED
    BY ONLY <1>4, <1>5, <2>1, EvaluateSame
<1> QED
  BY ONLY <1>1, <1>3, <1>7 DEF Evaluates

\* and what it chooses is the same, but, laxly, where the default was.
LEMMA AsksTheSame ==
    ASSUME NEW p, Sound(p), NEW q, Sound(q), NEW c, NEW time, NEW then, NEW x \in Variables(p) \cap Variables(q),
           NEW lax \in BOOLEAN, Untouched(p, q, x, time, then, lax), NEW ids, VariablesRead(p, x) \subseteq ids
    PROVE  /\ MostAsks(p, x) = MostAsks(q, x)
           /\ AsksAlike(p, q, c, time, then, x, ids, lax, Plain(p, x))
<1>1. PICK v, w : v = p.variables[x] /\ w = q.variables[x]
  OBVIOUS
<1>2. SameVariable(v, w)
  BY <1>1, VariableSame DEF Untouched
<1>3. v.type = w.type /\ Method(v) = Method(w)
  BY ONLY <1>2 DEF SameVariable
<1>4. x # Nobody /\ Method(v) \in {"rules", "query", "allocation"} /\ HasResolve(v) /\ ValidType(p, v.type)
      /\ (Method(v) = "query" => CompilesQuery(p, v))
  BY <1>1, CompiledVariable DEF Sound
<1>5. ASSUME Method(v) = "query"
      PROVE  DOMAIN p.catalogs[v.resolve.query.from] = DOMAIN q.catalogs[v.resolve.query.from]
  <2>1. v.type.class = "catalog" /\ v.resolve.query.from = v.type.of
    BY ONLY <1>4, <1>5 DEF CompilesQuery, QueryCatalog
  <2>2. v.type.of \in DOMAIN p.catalogs
    BY ONLY <1>4, <2>1 DEF ValidType
  <2>3. v.type.of \in CatalogsFrom(p, v.type.of)
    BY ONLY CatalogsClose
  <2>4. Quiet(p, q, <<"catalog", v.type.of>>)
    BY <1>1, <2>1, <2>3 DEF Untouched
  <2>5. SameCatalog(p, q, v.type.of)
    BY <2>4, CatalogStays DEF Sound
  <2> QED
    BY ONLY <2>1, <2>2, <2>5 DEF SameCatalog
<1>6. MostAsks(p, x) = MostAsks(q, x)
  <2>1. CASE Method(v) = "rules"
    <3>1. MostAsks(p, x) = Len(Rules(v)) /\ MostAsks(q, x) = Len(Rules(w))
      BY ONLY <1>1, <1>3, <1>4, <2>1 DEF MostAsks
    <3>2. Listed(Rules(v)) /\ Listed(Rules(w)) /\ DOMAIN Rules(v) = DOMAIN Rules(w)
      BY ONLY <1>2, <2>1 DEF SameVariable
    <3>3. PICK m, k : m = Len(Rules(v)) /\ k = Len(Rules(w))
      OBVIOUS
    <3>4. m \in Nat /\ k \in Nat /\ 1..m = 1..k
      BY ONLY <3>2, <3>3, Lists
    <3>5. \A i \in Nat : i \in 1..m <=> i \in 1..k
      BY ONLY <3>4
    <3>6. m > 0 => m \in 1..k
      BY ONLY <3>4, <3>5
    <3>7. k > 0 => k \in 1..m
      BY ONLY <3>4, <3>5
    <3>8. m = k
      BY ONLY <3>4, <3>6, <3>7
    <3> QED
      BY ONLY <3>1, <3>3, <3>8
  <2>2. CASE Method(v) = "query"
    <3>1. /\ MostAsks(p, x) = 2 * Cardinality(DOMAIN p.catalogs[v.resolve.query.from])
          /\ MostAsks(q, x) = 2 * Cardinality(DOMAIN q.catalogs[w.resolve.query.from])
      BY ONLY <1>1, <1>3, <1>4, <2>2 DEF MostAsks
    <3>2. v.resolve.query = w.resolve.query
      BY ONLY <1>2, <2>2 DEF SameVariable
    <3> QED
      BY ONLY <1>5, <2>2, <3>1, <3>2
  <2>3. CASE Method(v) = "allocation"
    BY ONLY <1>1, <1>3, <1>4, <2>3 DEF MostAsks
  <2> QED
    BY ONLY <1>4, <2>1, <2>2, <2>3
<1>7. ASSUME NEW heard, Listed(heard), Len(heard) <= MostAsks(p, x)
      PROVE  LET next == AskNext(p, c, x, heard)
             IN  /\ Alike(next, AskNext(q, c, x, heard), lax, Plain(p, x))
                 /\ next.do = "ask" =>
                      /\ Reads(next.expression) \subseteq ids
                      /\ \A bound : Evaluate(p, c, time, next.expression, bound, next.at, Nobody)
                                    = Evaluate(q, c, then, next.expression, bound, next.at, Nobody)
  <2>1. PICK next, too : next = AskNext(p, c, x, heard) /\ too = AskNext(q, c, x, heard)
    OBVIOUS
  <2>2. Same(next, too) \/ (lax /\ next.do = "choose" /\ next.by = 0)
    <3>1. CASE Method(v) = "rules"
      <4>1. next = AskRules(v, heard) /\ too = AskRules(w, heard)
        BY ONLY <1>1, <1>3, <1>4, <2>1, <3>1 DEF AskNext
      <4>2. Len(heard) <= Len(Rules(v))
        BY <1>1, <1>4, <1>7, <3>1 DEF MostAsks
      <4>3. next = too
        BY ONLY <1>2, <1>7, <3>1, <4>1, <4>2, RulesAskSame
      <4> QED
        BY ONLY <4>3 DEF Same
    <3>2. CASE Method(v) = "query"
      <4>1. next = AskQuery(p, v, heard) /\ too = AskQuery(q, w, heard)
        BY ONLY <1>1, <1>3, <1>4, <2>1, <3>2 DEF AskNext
      <4>2. DOMAIN p.catalogs[v.resolve.query.from] = DOMAIN q.catalogs[v.resolve.query.from]
        BY ONLY <1>5, <3>2
      <4>3. AskQuery(p, v, heard) = AskQuery(q, w, heard)
        BY ONLY <1>2, <3>2, <4>2, QueryAsksSame
      <4>4. next = too
        BY ONLY <4>1, <4>3
      <4> QED
        BY ONLY <4>4 DEF Same
    <3>3. CASE Method(v) = "allocation"
      <4>1. next = AskAllocation(p, c, v, heard) /\ too = AskAllocation(q, c, w, heard)
        BY ONLY <1>1, <1>3, <1>4, <2>1, <3>3 DEF AskNext
      <4>2. PICK named, at, a, layer : Consumes(p, x, v, named, at, a, layer)
        BY <1>1, <3>3 DEF Consumes
      <4>3. named = w.resolve.assign.allocation
        BY <1>2, <3>3, <4>2 DEF Consumes, SameVariable
      <4>4. PICK to, b, other : Consumes(q, x, w, named, to, b, other)
        BY <1>1, <1>3, <3>3, <4>3 DEF Consumes
      <4>5. at[1] \in LayersOf(p, x)
        BY ONLY <1>1, <3>3, <4>2 DEF LayersOf, Consumes
      <4>6. Quiet(p, q, <<"layer", at[1]>>) /\ (lax \/ \A change \in Changes(p, q) : change.at # <<"layer", at[1]>>)
        BY <4>5 DEF Untouched
      <4>7. AllocationAlike(p, q, at, a, layer, to, b, other)
        BY ONLY Sound(p), Sound(q), <4>2, <4>4, <4>6, AllocationSame
      <4>8. Alike(next, too, lax, FALSE)
        <5>1. lax \/ \A change \in Changes(p, q) : change.at # <<"layer", at[1]>>
          BY ONLY <4>6
        <5> QED
          BY ONLY Sound(p), Sound(q), lax \in BOOLEAN, <1>2, <4>1, <4>2, <4>4, <4>7, <5>1, AllocationAsksSame
      <4> QED
        BY ONLY <4>8 DEF Alike
    <3> QED
      BY ONLY <1>4, <3>1, <3>2, <3>3
  <2>3. ASSUME next.do = "choose", Plain(p, x) PROVE next.value.type \notin EntryValues
    <3>1. v.type.class # "catalog"
      BY ONLY <1>1, <2>3 DEF Plain
    <3> QED
      BY <1>1, <1>7, <2>1, <2>3, <3>1, PlainChoice
  <2>4. Alike(next, too, lax, Plain(p, x))
    BY ONLY <2>2, <2>3 DEF Alike
  <2>5. next.do = "ask" => Reads(next.expression) \subseteq VariablesRead(p, x) /\ Evaluates(p, q, c, time, then, next)
    <3>1. ASSUME next.do = "ask"
          PROVE  Reads(next.expression) \subseteq VariablesRead(p, x) /\ Evaluates(p, q, c, time, then, next)
      <4>1. next = AskNext(p, c, x, heard) /\ Listed(heard) /\ x \in Variables(p)
        BY <1>7, <2>1
      <4> QED
        BY ONLY <3>1, <4>1, Sound(p), Sound(q), Untouched(p, q, x, time, then, lax), AskedSame
    <3> QED
      BY ONLY <3>1
  <2> QED
    BY ONLY <2>1, <2>4, <2>5, VariablesRead(p, x) \subseteq ids DEF Evaluates
<1> QED
  BY ONLY <1>6, <1>7 DEF AsksAlike

-----------------------------------------------------------------------------
(* What the app receives of two versions.                                    *)

\* A resolution that goes on has heard as many answers as it has asked, and no
\* more than it can ask.
Far(p, id, n, far) ==
    \/ far.do \in {"fail", "choose"}
    \/ far.do = "go on" /\ Listed(far.results) /\ Len(far.results) = n /\ n <= MostAsks(p, id)

\* What a variable means is an end.
LEMMA MeantEnds ==
    ASSUME NEW p, Authored(p), Compiles(p), NEW c, NEW time, NEW id \in Variables(p), NEW meaning,
           NEW last, last = Meant(p, c, time, id, meaning, Nobody)
    PROVE  last.do \in {"fail", "choose"}
<1>1. PICK posed : posed = Asking(p, c, time, id, meaning, Nobody)
  OBVIOUS
<1>2. PICK most : most = MostAsks(p, id)
  OBVIOUS
<1>3. most \in Nat
  BY <1>2, AsksAreBounded
<1> DEFINE Good == {n \in Nat : Far(p, id, n, posed[n])}
<1>4. posed[0] = Outset /\ \A n \in Nat : posed[n + 1] = Further(p, c, time, id, meaning, Nobody, posed[n])
  BY ONLY <1>1, AskingIs
<1>5. 0 \in Good
  <2>1. Outset.do = "go on" /\ Outset.results = << >>
    BY ONLY DEF Outset
  <2>2. Listed(<< >>) /\ Len(<< >>) = 0
    BY ONLY Nothing
  <2>3. 0 <= most
    BY ONLY <1>3
  <2>4. Far(p, id, 0, posed[0])
    BY ONLY <1>2, <1>4, <2>1, <2>2, <2>3 DEF Far
  <2> QED
    BY ONLY <2>4
<1>6. ASSUME NEW n \in Nat, Far(p, id, n, posed[n]) PROVE Far(p, id, n + 1, posed[n + 1])
  <2>1. PICK far, next, ask : far = posed[n] /\ next = posed[n + 1] /\ ask = AskNext(p, c, id, far.results)
    OBVIOUS
  <2>2. next = Further(p, c, time, id, meaning, Nobody, far)
    BY ONLY <1>4, <2>1, n \in Nat
  <2>3. Far(p, id, n, far)
    BY ONLY <1>6, <2>1
  <2>4. CASE far.do \in {"fail", "choose"}
    <3>1. next = far
      BY ONLY <2>2, <2>4, FurtherIs
    <3> QED
      BY ONLY <2>1, <2>4, <3>1 DEF Far
  <2>5. CASE far.do = "go on"
    <3>1. Listed(far.results) /\ Len(far.results) = n /\ n <= most
      BY ONLY <1>2, <2>3, <2>5 DEF Far
    <3>2. ask.do \in {"ask", "choose", "fail"}
      BY <2>1, <3>1, AskEnds
    <3>3. CASE ask.do = "ask"
      <4>1. next = Heard(p, c, time, meaning, Nobody, far.results, ask)
        BY ONLY <2>1, <2>2, <2>5, <3>3, FurtherIs
      <4>2. n < most
        BY <1>2, <2>1, <3>1, <3>3, AsksAreBounded
      <4>3. Reads(ask.expression) \subseteq Nat
        BY <2>1, <3>1, <3>3, AskedIsCounted
      <4>4. next.do = "fail" \/ (next.do = "go on" /\ OneMore(next, far.results))
        BY ONLY <4>1, <4>3, HeardGoesOn
      <4>5. n + 1 <= most
        BY ONLY <1>3, <4>2, n \in Nat
      <4>6. \A value : Listed(Append(far.results, value)) /\ Len(Append(far.results, value)) = n + 1
        BY ONLY <3>1, Appended
      <4> QED
        BY ONLY <1>2, <2>1, <4>4, <4>5, <4>6 DEF Far, OneMore
    <3>4. CASE ask.do # "ask"
      <4>1. next = ask
        BY ONLY <2>1, <2>2, <2>5, <3>4, FurtherIs
      <4> QED
        BY ONLY <2>1, <3>2, <3>4, <4>1 DEF Far
    <3> QED
      BY ONLY <3>3, <3>4
  <2> QED
    BY ONLY <2>3, <2>4, <2>5 DEF Far
<1>7. \A n \in Nat : n \in Good
  <2>1. \A n \in Nat : n \in Good => n + 1 \in Good
    BY ONLY <1>6
  <2> HIDE DEF Good
  <2> QED
    BY ONLY <1>5, <2>1, Inductive
<1>8. Far(p, id, most + 1, posed[most + 1])
  BY ONLY <1>3, <1>7
<1>9. ~(most + 1 <= most)
  BY ONLY <1>3
<1>10. last = posed[most + 1]
  BY <1>1, <1>2 DEF Meant
<1> QED
  BY ONLY <1>2, <1>8, <1>9, <1>10 DEF Far

\* One outcome, over one catalog, is received as one,
OneOutcome(p, q, x, type, one, two) ==
    /\ type = p.variables[x].type /\ type = q.variables[x].type
    /\ type.class = "catalog" => p.catalogs[type.of] = q.catalogs[type.of]
    /\ Same(one, two) /\ one.do \in {"fail", "choose"}
    /\ one.do = "choose" /\ type.class # "catalog" => one.value.type \notin EntryValues
LEMMA ReceivedSame ==
    ASSUME NEW p, NEW q, NEW x, NEW type, NEW one, NEW two, OneOutcome(p, q, x, type, one, two)
    PROVE  Received(p, x, one) = Received(q, x, two)
<1>0. /\ type = p.variables[x].type /\ type = q.variables[x].type
      /\ type.class = "catalog" => p.catalogs[type.of] = q.catalogs[type.of]
      /\ Same(one, two) /\ one.do \in {"fail", "choose"}
      /\ one.do = "choose" /\ type.class # "catalog" => one.value.type \notin EntryValues
  BY DEF OneOutcome
<1>1. one.do = two.do /\ (one.do = "fail" => one.error = two.error) /\ (one.do # "fail" => one.value = two.value)
  BY ONLY <1>0, SameEnds
<1>2. CASE one.do = "fail"
  BY ONLY <1>1, <1>2 DEF Received
<1>3. CASE one.do = "choose" /\ one.value.type \notin EntryValues
  <2>1. one.do # "fail" /\ two.do # "fail" /\ one.value = two.value
    BY ONLY <1>1, <1>3
  <2> QED
    BY ONLY <1>3, <2>1 DEF Received
<1>4. CASE one.do = "choose" /\ one.value.type \in EntryValues
  <2>1. one.do # "fail" /\ two.do # "fail" /\ one.value = two.value
    BY ONLY <1>1, <1>4
  <2>2. p.catalogs[type.of] = q.catalogs[type.of]
    BY ONLY <1>0, <1>4
  <2>3. PICK entries : entries = p.catalogs[p.variables[x].type.of] /\ entries = q.catalogs[q.variables[x].type.of]
    BY ONLY <1>0, <2>2
  <2> QED
    BY ONLY <1>4, <2>1, <2>3 DEF Received
<1> QED
  BY ONLY <1>0, <1>2, <1>3, <1>4

\* and outcomes that are received as one are one for who reads them.
LEMMA ReceivedIsLike ==
    ASSUME NEW p, NEW q, NEW x, NEW one, NEW two, Received(p, x, one) = Received(q, x, two)
    PROVE  Like(one, two)
<1>1. \A r, o : Received(r, x, o).resolved <=> o.do # "fail"
  BY ONLY DEF Received
<1>2. \A r, o : o.do = "fail" => Received(r, x, o).value[1].type = o.error
  BY ONLY DEF Received, Value
<1>3. \A r, o : o.do # "fail" => Received(r, x, o).value[1] = o.value
  BY ONLY DEF Received
<1> QED
  BY ONLY Received(p, x, one) = Received(q, x, two), <1>1, <1>2, <1>3 DEF Like

\* Two versions of a variable come to the same, and not by the default where
\* that is all a lax comparison tells.
EndsAlike(p, q, c, time, then, x, lax) ==
    /\ Alike(Meanings(p, c, time)[x], Meanings(q, c, then)[x], lax, Plain(p, x))
    /\ Meanings(p, c, time)[x].do \in {"fail", "choose"}

\* Where nothing is said of some variables, nor of what they are resolved by, and
\* they read each other only, all of them come to the same.
LEMMA UnchangedMeans ==
    ASSUME NEW p, Sound(p), NEW q, Sound(q), NEW c, NEW time, NEW then, NEW ids,
           \A x \in ids : Quiet(p, q, <<"variable", x>>),
           \A x \in ids \cap Variables(p) : Untouched(p, q, x, time, then, FALSE) /\ VariablesRead(p, x) \subseteq ids
    PROVE  \A x \in ids \cap Variables(p) : x \in Variables(q) /\ EndsAlike(p, q, c, time, then, x, FALSE)
<1>1. \A x \in ids : x \in Variables(p) <=> x \in Variables(q)
  BY VariableStays
<1>2. ASSUME NEW x \in ids \cap Variables(p)
      PROVE  MostAsks(p, x) = MostAsks(q, x) /\ AsksAlike(p, q, c, time, then, x, ids, FALSE, Plain(p, x))
  <2>1. x \in Variables(p) \cap Variables(q) /\ FALSE \in BOOLEAN
    BY <1>1
  <2>2. Untouched(p, q, x, time, then, FALSE) /\ VariablesRead(p, x) \subseteq ids
    OBVIOUS
  <2> QED
    BY ONLY Sound(p), Sound(q), <2>1, <2>2, AsksTheSame
<1>3. PICK meaning, other : meaning = Meanings(p, c, time) /\ other = Meanings(q, c, then)
  OBVIOUS
<1>4. Authored(p) /\ Compiles(p) /\ Authored(q) /\ Compiles(q)
  BY DEF Sound
<1>5. \A x \in ids \cap Variables(p) : Alike(meaning[x], other[x], FALSE, Plain(p, x))
  BY ONLY <1>1, <1>2, <1>3, <1>4, MeaningsSame
<1>6. \A x \in Variables(p) : meaning[x] = Meant(p, c, time, x, meaning, Nobody)
  BY ONLY <1>3, <1>4, AllCounted, MeaningsAre
<1>7. \A x \in Variables(p) : meaning[x].do \in {"fail", "choose"}
  BY ONLY <1>4, <1>6, MeantEnds
<1> QED
  BY ONLY <1>1, <1>3, <1>5, <1>7 DEF EndsAlike

\* It comes to an end, with a literal of the package where that is all it can give.
EndsPlainly(p, x, one) ==
    one.do \in {"fail", "choose"} /\ (one.do = "choose" /\ Plain(p, x) => one.value.type \notin EntryValues)

\* Ends that are the same are received as one.
LEMMA ReceivedAsOne ==
    ASSUME NEW p, Sound(p), NEW q, Sound(q), NEW c, NEW time, NEW then, NEW x \in Variables(p) \cap Variables(q),
           Quiet(p, q, <<"variable", x>>),
           p.variables[x].type.class = "catalog" => Quiet(p, q, <<"catalog", p.variables[x].type.of>>),
           EndsPlainly(p, x, Meanings(p, c, time)[x]), Same(Meanings(p, c, time)[x], Meanings(q, c, then)[x])
    PROVE  Outcomes(p, c, time)[x] = Outcomes(q, c, then)[x]
<1>1. PICK v, w : v = p.variables[x] /\ w = q.variables[x]
  OBVIOUS
<1>2. PICK one, two : one = Meanings(p, c, time)[x] /\ two = Meanings(q, c, then)[x]
  OBVIOUS
<1>3. PICK type : type = v.type /\ type = w.type
  <2>1. SameVariable(v, w)
    BY <1>1, VariableSame
  <2> QED
    BY ONLY <2>1 DEF SameVariable
<1>4. ValidType(p, v.type)
  BY <1>1, CompiledVariable DEF Sound
<1>5. type.class = "catalog" => p.catalogs[type.of] = q.catalogs[type.of]
  <2>1. ASSUME type.class = "catalog" PROVE p.catalogs[type.of] = q.catalogs[type.of]
    <3>1. SameCatalog(p, q, type.of)
      BY <1>1, <1>3, <2>1, CatalogStays DEF Sound
    <3>2. type.of \in DOMAIN p.catalogs
      BY ONLY <1>3, <1>4, <2>1 DEF ValidType
    <3> QED
      BY ONLY <3>1, <3>2 DEF SameCatalog
  <2> QED
    BY ONLY <2>1
<1>6. /\ Same(one, two) /\ one.do \in {"fail", "choose"}
      /\ one.do = "choose" /\ type.class # "catalog" => one.value.type \notin EntryValues
  <2>1. Same(one, two)
    BY ONLY <1>2, Same(Meanings(p, c, time)[x], Meanings(q, c, then)[x])
  <2>2. EndsPlainly(p, x, one)
    BY ONLY <1>2, EndsPlainly(p, x, Meanings(p, c, time)[x])
  <2>3. Plain(p, x) <=> type.class # "catalog"
    BY ONLY <1>1, <1>3 DEF Plain
  <2> QED
    BY ONLY <2>1, <2>2, <2>3 DEF EndsPlainly
<1>7. type = p.variables[x].type /\ type = q.variables[x].type
  BY ONLY <1>1, <1>3
<1>8. Received(p, x, one) = Received(q, x, two)
  <2>1. OneOutcome(p, q, x, type, one, two)
    BY ONLY <1>5, <1>6, <1>7 DEF OneOutcome
  <2> QED
    BY ONLY <2>1, ReceivedSame
<1>9. \A r, at : x \in Variables(r) => Outcomes(r, c, at)[x] = Received(r, x, Meanings(r, c, at)[x])
  BY ONLY DEF Outcomes
<1> QED
  BY ONLY <1>2, <1>8, <1>9, x \in Variables(p) \cap Variables(q)

\* A variable that reads no time and depends on nothing that the diff lists comes
\* out as before.
LEMMA Unmoved ==
    ASSUME NEW p, Sound(p), NEW q, Sound(q), NEW c, NEW time, NEW then, NEW id \in Variables(p),
           Timeless(p, id), \A change \in Changes(p, q) : change.at \notin DependsOn(p, id)
    PROVE  id \in Variables(q) /\ Outcomes(p, c, time)[id] = Outcomes(q, c, then)[id]
<1>1. PICK ids : ids = ReadFrom(p, id)
  OBVIOUS
<1>2. id \in ids /\ \A x \in ids \cap Variables(p) : VariablesRead(p, x) \subseteq ids
  BY ONLY <1>1, ReadsClose
<1>3. \A at \in DependsOn(p, id) : Quiet(p, q, at)
  BY DEF Quiet
<1> DEFINE On(x) == {<<"variable", x>>}
                    \cup (IF x \notin Variables(p) THEN {}
                          ELSE {<<"layer", i>> : i \in LayersOf(p, x)}
                               \cup {<<"list", l>> : l \in UNION {ListsOf(e) : e \in Expressions(p, x)}}
                               \cup (IF p.variables[x].type.class = "catalog"
                                     THEN {<<"catalog", d>> : d \in CatalogsFrom(p, p.variables[x].type.of)} ELSE {}))
<1>4. DependsOn(p, id) = UNION {On(x) : x \in ids}
  BY ONLY <1>1 DEF DependsOn
<1>5. \A x \in ids : On(x) \subseteq DependsOn(p, id)
  <2> HIDE DEF On
  <2> QED
    BY ONLY <1>4
<1>6. \A x : <<"variable", x>> \in On(x)
  OBVIOUS
<1>7. \A x \in Variables(p) : /\ \A i \in LayersOf(p, x) : <<"layer", i>> \in On(x)
                              /\ \A l \in UNION {ListsOf(e) : e \in Expressions(p, x)} : <<"list", l>> \in On(x)
                              /\ p.variables[x].type.class = "catalog" =>
                                   \A d \in CatalogsFrom(p, p.variables[x].type.of) : <<"catalog", d>> \in On(x)
  OBVIOUS
<1> HIDE DEF On
<1>8. \A x \in ids : Quiet(p, q, <<"variable", x>>)
  BY ONLY <1>3, <1>5, <1>6
<1>9. ASSUME NEW x \in ids \cap Variables(p) PROVE Untouched(p, q, x, time, then, FALSE)
  <2>1. x \in ids /\ x \in Variables(p) /\ On(x) \subseteq DependsOn(p, id)
    BY <1>5
  <2>2. \A e \in Expressions(p, x) : e.op # "now"
    BY <1>1, <2>1 DEF Timeless, ReadsTime
  <2>3. ASSUME NEW e \in Expressions(p, x), e.op = "member" PROVE Quiet(p, q, <<"list", e.of>>)
    <3>1. e.of \in ListsOf(e)
      BY ONLY <2>3 DEF ListsOf
    <3>2. <<"list", e.of>> \in On(x)
      BY ONLY <1>7, <2>1, <3>1, e \in Expressions(p, x)
    <3> QED
      BY ONLY <1>3, <2>1, <3>2
  <2>4. p.variables[x].type.class = "catalog" =>
          \A d \in CatalogsFrom(p, p.variables[x].type.of) : Quiet(p, q, <<"catalog", d>>)
    BY ONLY <1>3, <1>7, <2>1
  <2>5. \A i \in LayersOf(p, x) : /\ Quiet(p, q, <<"layer", i>>)
                                  /\ \A change \in Changes(p, q) : change.at # <<"layer", i>>
    <3>1. \A i \in LayersOf(p, x) : <<"layer", i>> \in DependsOn(p, id)
      BY ONLY <1>7, <2>1
    <3> QED
      BY <1>3, <3>1
  <2>6. Quiet(p, q, <<"variable", x>>)
    BY ONLY <1>8, <2>1
  <2> QED
    BY ONLY <2>2, <2>3, <2>4, <2>5, <2>6 DEF Untouched
<1>10. \A x \in ids \cap Variables(p) : x \in Variables(q) /\ EndsAlike(p, q, c, time, then, x, FALSE)
  BY ONLY Sound(p), Sound(q), <1>2, <1>8, <1>9, UnchangedMeans
<1>11. id \in Variables(q) /\ EndsAlike(p, q, c, time, then, id, FALSE)
  BY <1>2, <1>10
<1>12. EndsPlainly(p, id, Meanings(p, c, time)[id]) /\ Same(Meanings(p, c, time)[id], Meanings(q, c, then)[id])
  BY ONLY <1>11 DEF EndsAlike, Alike, EndsPlainly
<1>13. p.variables[id].type.class = "catalog" => Quiet(p, q, <<"catalog", p.variables[id].type.of>>)
  <2>1. Untouched(p, q, id, time, then, FALSE)
    BY <1>2, <1>9
  <2>2. p.variables[id].type.of \in CatalogsFrom(p, p.variables[id].type.of)
    BY ONLY CatalogsClose
  <2> QED
    BY ONLY <2>1, <2>2 DEF Untouched
<1>14. Quiet(p, q, <<"variable", id>>) /\ id \in Variables(p) \cap Variables(q)
  BY <1>2, <1>8, <1>11
<1>15. Outcomes(p, c, time)[id] = Outcomes(q, c, then)[id]
  BY ONLY Sound(p), Sound(q), <1>12, <1>13, <1>14, ReceivedAsOne
<1> QED
  BY <1>11, <1>15

\* Every change is an expansion of arms.
OnlyExpands(p, q) == \A change \in Changes(p, q) : change.kind = "allocation_arms_expanded"

\* Those that are moved are all that come out differently.
MovedAreIn(p, q, c, time, then, moved) ==
    \A x \in Variables(p) \cap Variables(q) : Outcomes(p, c, time)[x] # Outcomes(q, c, then)[x] => x \in moved

\* What tells who is eligible reads none of them, nor two times.
SaysSame(p, id, moved, time, then) ==
    \A e \in AllocationExpressions(p, p.variables[id]) : Reads(e) \cap moved = {} /\ (e.op = "now" => time = then)

\* By expansions of arms alone a variable on an allocation comes out as before, or
\* had the default, if what tells who is eligible is read to say the same.
LEMMA ExpansionKeeps ==
    ASSUME NEW p, Sound(p), Linted(p), NEW q, Sound(q), OnlyExpands(p, q), NEW c, NEW time, NEW then,
           NEW id \in Variables(p), Method(p.variables[id]) = "allocation",
           NEW moved, MovedAreIn(p, q, c, time, then, moved), SaysSame(p, id, moved, time, then)
    PROVE  \/ id \in Variables(q) /\ Outcomes(p, c, time)[id] = Outcomes(q, c, then)[id]
           \/ Meanings(p, c, time)[id].do = "choose" /\ Meanings(p, c, time)[id].by = 0
<1>1. PICK v : v = p.variables[id]
  OBVIOUS
<1>2. \A at : Quiet(p, q, at)
  BY ONLY OnlyExpands(p, q) DEF OnlyExpands, Quiet
<1>3. \A x : x \in Variables(p) <=> x \in Variables(q)
  BY ONLY <1>2, VariableStays
<1>4. Expressions(p, id) = AllocationExpressions(p, v)
  <2>1. CompilesAllocation(p, v)
    BY <1>1, CompiledVariable DEF Sound
  <2>2. Rules(v) = << >>
    BY ONLY <2>1 DEF CompilesAllocation, Rules
  <2>3. v.resolve.query = None
    BY <1>1 DEF Linted, LintVariableShape, LintResolveShape, Variables
  <2>4. RuleExpressions(v) = {}
    <3>1. Elements(<< >>) = {}
      BY ONLY DEF Elements
    <3> QED
      BY ONLY <2>2, <3>1 DEF RuleExpressions
  <2>5. QueryExpressions(v) = {}
    BY ONLY <2>3 DEF QueryExpressions
  <2> QED
    BY ONLY <1>1, <2>4, <2>5 DEF Expressions
<1>5. PICK ids : ids = VariablesRead(p, id)
  OBVIOUS
<1>6. Untouched(p, q, id, time, then, TRUE)
  <2>1. \A e \in Expressions(p, id) : e.op = "now" => time = then
    BY <1>1, <1>4 DEF SaysSame
  <2> QED
    BY ONLY <1>2, <2>1 DEF Untouched
<1>7. MostAsks(p, id) = MostAsks(q, id) /\ AsksAlike(p, q, c, time, then, id, ids, TRUE, Plain(p, id))
  <2>1. id \in Variables(p) \cap Variables(q) /\ TRUE \in BOOLEAN
    BY <1>3
  <2>2. VariablesRead(p, id) \subseteq ids
    BY ONLY <1>5
  <2> QED
    BY ONLY Sound(p), Sound(q), <1>6, <2>1, <2>2, AsksTheSame
<1>8. PICK meaning, other : meaning = Meanings(p, c, time) /\ other = Meanings(q, c, then)
  OBVIOUS
<1>9. Authored(p) /\ Compiles(p) /\ Authored(q) /\ Compiles(q)
  BY DEF Sound
<1>10. /\ DOMAIN meaning = Variables(p) /\ DOMAIN other = Variables(q)
       /\ \A x \in Variables(p) : meaning[x] = Meant(p, c, time, x, meaning, Nobody)
       /\ \A x \in Variables(q) : other[x] = Meant(q, c, then, x, other, Nobody)
  BY ONLY <1>8, <1>9, AllCounted, MeaningsAre
<1>11. \A r, at : \A x \in Variables(r) : Outcomes(r, c, at)[x] = Received(r, x, Meanings(r, c, at)[x])
  BY ONLY DEF Outcomes
<1>12. ASSUME NEW x \in ids PROVE Like(Known(meaning, x), Known(other, x))
  <2>1. x \notin moved
    <3>1. PICK e \in Expressions(p, id) : x \in Reads(e)
      BY ONLY <1>5, x \in ids DEF VariablesRead
    <3>2. Reads(e) \cap moved = {}
      BY <1>1, <1>4, <3>1 DEF SaysSame
    <3> QED
      BY ONLY <3>1, <3>2
  <2>2. CASE x \in Variables(p)
    <3>1. Outcomes(p, c, time)[x] = Outcomes(q, c, then)[x]
      BY <1>3, <2>1, <2>2 DEF MovedAreIn
    <3>2. Received(p, x, meaning[x]) = Received(q, x, other[x])
      BY ONLY <1>3, <1>8, <1>11, <2>2, <3>1
    <3>3. Like(meaning[x], other[x])
      BY ONLY <3>2, ReceivedIsLike
    <3> QED
      BY ONLY <1>3, <1>10, <2>2, <3>3 DEF Known
  <2>3. CASE x \notin Variables(p)
    <3>1. Known(meaning, x) = Wrong("not found") /\ Known(other, x) = Wrong("not found")
      BY ONLY <1>3, <1>10, <2>3 DEF Known
    <3>2. Wrong("not found").do = "fail"
      BY ONLY DEF Wrong
    <3> QED
      BY ONLY <3>1, <3>2 DEF Like
  <2> QED
    BY ONLY <2>2, <2>3
<1>13. Agree(meaning, other, ids)
  BY ONLY <1>12 DEF Agree
<1>14. Alike(Meant(p, c, time, id, meaning, Nobody), Meant(q, c, then, id, other, Nobody), TRUE, Plain(p, id))
  BY ONLY id \in Variables(p), <1>7, <1>9, <1>13, MeantSame
<1>15. PICK one, two : one = meaning[id] /\ two = other[id]
  OBVIOUS
<1>16. Alike(one, two, TRUE, Plain(p, id))
  BY ONLY id \in Variables(p), <1>3, <1>10, <1>14, <1>15
<1>17. one.do \in {"fail", "choose"}
  BY ONLY id \in Variables(p), <1>9, <1>10, <1>15, MeantEnds
<1>18. ASSUME Same(one, two) PROVE Outcomes(p, c, time)[id] = Outcomes(q, c, then)[id]
  <2>1. EndsPlainly(p, id, one)
    BY ONLY <1>16, <1>17 DEF Alike, EndsPlainly
  <2>2. /\ id \in Variables(p) \cap Variables(q) /\ Quiet(p, q, <<"variable", id>>)
        /\ p.variables[id].type.class = "catalog" => Quiet(p, q, <<"catalog", p.variables[id].type.of>>)
    BY <1>2, <1>3
  <2>3. EndsPlainly(p, id, Meanings(p, c, time)[id]) /\ Same(Meanings(p, c, time)[id], Meanings(q, c, then)[id])
    BY ONLY <1>8, <1>15, <1>18, <2>1
  <2> QED
    BY ONLY Sound(p), Sound(q), <2>2, <2>3, ReceivedAsOne
<1>19. Same(one, two) \/ (one.do = "choose" /\ one.by = 0)
  BY ONLY <1>16 DEF Alike
<1> QED
  BY <1>3, <1>8, <1>15, <1>18, <1>19

-----------------------------------------------------------------------------
(* A diff.                                                                   *)

\* An impact is of two batches, one of each version, that ran by now.
BetweenBatches(p, q, upto, impact) ==
    \E t, u \in 0..upto :
        LET old == Outcomes(p, impact.context, t)
            new == Outcomes(q, impact.context, u)
        IN  /\ \A id \in Variables(p) \cap Variables(q) : old[id] # new[id] => id \in impact.impacts
            /\ \A id \in impact.impacts :
                 /\ id \in Variables(p) \cup Variables(q)
                 /\ id \in Variables(p) \cap Variables(q) => old[id] # new[id]

\* While contexts are resolved the changes are those of two versions that compile.
DiffInv ==
    /\ moment \in Nat /\ Listed(impacts)
    /\ before = None => panel = << >> /\ impacts = << >> /\ baseline = None
    /\ panel # << >> \/ impacts # << >> =>
         /\ changes = Changes(before, after)
         /\ \A p \in {before, after} : Authored(p) /\ Projected(p) /\ Compiles(p)
    /\ baseline # None => \E t \in 0..moment : baseline = Outcomes(before, Head(panel), t)
    /\ \A k \in DOMAIN impacts : BetweenBatches(before, after, moment, impacts[k])

\* Both kinds of an impact are of two batches.
LEMMA ImpactsAreOfBatches ==
    ASSUME NEW p, NEW q, NEW upto, NEW c, NEW t \in 0..upto, NEW u \in 0..upto,
           NEW old, old = Outcomes(p, c, t), NEW new, new = Outcomes(q, c, u)
    PROVE  /\ BetweenBatches(p, q, upto, ContextImpact(c, old, new))
           /\ BetweenBatches(p, q, upto, ResolutionImpacts(c, old, new))
<1>1. DOMAIN old = Variables(p) /\ DOMAIN new = Variables(q)
  BY DEF Outcomes
<1>2. PICK both, moved : /\ both = DOMAIN old \cap DOMAIN new
                         /\ moved = {id \in DOMAIN old \cup DOMAIN new : id \in both => old[id] # new[id]}
  OBVIOUS
<1>3. PICK impact : impact = ContextImpact(c, old, new)
  OBVIOUS
<1>4. impact.context = c /\ impact.impacts = moved
  BY ONLY <1>2, <1>3 DEF ContextImpact
<1>5. PICK other : other = ResolutionImpacts(c, old, new)
  OBVIOUS
<1>6. other.context = c /\ other.impacts = {id \in DOMAIN old \cap DOMAIN new : old[id] # new[id]}
  BY ONLY <1>5 DEF ResolutionImpacts
<1>7. ASSUME NEW any, any.context = c,
             \A id \in Variables(p) \cap Variables(q) : old[id] # new[id] => id \in any.impacts,
             \A id \in any.impacts : /\ id \in Variables(p) \cup Variables(q)
                                     /\ id \in Variables(p) \cap Variables(q) => old[id] # new[id]
      PROVE  BetweenBatches(p, q, upto, any)
  <2>1. old = Outcomes(p, any.context, t) /\ new = Outcomes(q, any.context, u)
    BY <1>7
  <2> QED
    BY ONLY t \in 0..upto, u \in 0..upto, <1>7, <2>1 DEF BetweenBatches
<1>8. BetweenBatches(p, q, upto, impact)
  <2>1. /\ \A id \in Variables(p) \cap Variables(q) : old[id] # new[id] => id \in impact.impacts
        /\ \A id \in impact.impacts : /\ id \in Variables(p) \cup Variables(q)
                                      /\ id \in Variables(p) \cap Variables(q) => old[id] # new[id]
    BY ONLY <1>1, <1>2, <1>4
  <2> QED
    BY ONLY <1>4, <1>7, <2>1
<1>9. BetweenBatches(p, q, upto, other)
  <2>1. /\ \A id \in Variables(p) \cap Variables(q) : old[id] # new[id] => id \in other.impacts
        /\ \A id \in other.impacts : /\ id \in Variables(p) \cup Variables(q)
                                     /\ id \in Variables(p) \cap Variables(q) => old[id] # new[id]
    BY ONLY <1>1, <1>6
  <2> QED
    BY ONLY <1>6, <1>7, <2>1
<1> QED
  BY ONLY <1>3, <1>5, <1>8, <1>9

\* At the start there is no diff.
LEMMA DiffStarts == DiffInit => DiffInv
<1>1. Listed(<< >>) /\ DOMAIN << >> = {}
  BY ONLY Nothing
<1> QED
  BY <1>1 DEF DiffInit, DiffInv

\* A diff that begins has listed what there is to list.
LEMMA DiffBegins ==
    ASSUME DiffInv, before = None, NEW pair \in Versions, NEW all, NEW contexts, Diff(pair[1], pair[2], all, contexts)
    PROVE  DiffInv'
<1>1. PICK p, q : p = pair[1] /\ q = pair[2]
  OBVIOUS
<1>2. Authored(p) /\ Projected(p) /\ Authored(q) /\ Projected(q)
  BY <1>1, VersionsAssumption
<1>3. impacts = << >> /\ baseline = None /\ impacts' = << >> /\ baseline' = None /\ moment' = moment
  BY DEF DiffInv, Diff
<1>4. before' = p /\ after' = q /\ p # None
  BY <1>1, <1>2 DEF Diff, Authored
<1>5. panel' # << >> => Compiles(p) /\ Compiles(q) /\ changes' = Changes(p, q)
  BY <1>1 DEF Diff
<1>6. DOMAIN << >> = {}
  OBVIOUS
<1>7. moment \in Nat /\ Listed(impacts)
  BY DEF DiffInv
<1> QED
  BY ONLY <1>2, <1>3, <1>4, <1>5, <1>6, <1>7 DEF DiffInv

\* The batch of the version before keeps the invariant,
LEMMA DiffStaysBefore ==
    ASSUME DiffInv, ResolveBefore
    PROVE  DiffInv'
<1>1. before # None /\ UNCHANGED <<before, after, moment>>
  BY DEF DiffInv, ResolveBefore
<1>2. CASE GiveUp
  <2>1. Listed(<< >>) /\ DOMAIN << >> = {}
    BY ONLY Nothing
  <2> QED
    BY <1>1, <1>2, <2>1 DEF DiffInv, GiveUp
<1>3. CASE baseline' = Outcomes(before, Head(panel), moment) /\ UNCHANGED <<changes, panel, impacts>>
  <2>1. moment \in 0..moment
    BY DEF DiffInv
  <2> QED
    BY <1>1, <1>3, <2>1 DEF DiffInv
<1> QED
  BY <1>2, <1>3 DEF ResolveBefore

\* and so do the one of the version after, which notes the impact,
LEMMA DiffStaysAfter ==
    ASSUME DiffInv, ResolveAfter
    PROVE  DiffInv'
<1>1. before # None /\ UNCHANGED <<before, after, moment>>
  BY DEF DiffInv, ResolveAfter
<1>2. CASE GiveUp
  <2>1. Listed(<< >>) /\ DOMAIN << >> = {}
    BY ONLY Nothing
  <2> QED
    BY <1>1, <1>2, <2>1 DEF DiffInv, GiveUp
<1>3. ASSUME NEW impact, BetweenBatches(before, after, moment, impact),
             impacts' = Append(impacts, impact), panel # << >>, baseline' = None, UNCHANGED changes
      PROVE  DiffInv'
  <2>1. Listed(impacts) /\ Len(impacts) \in Nat /\ DOMAIN impacts = 1..Len(impacts)
    BY Lists DEF DiffInv
  <2>2. /\ Listed(impacts') /\ Len(impacts') = Len(impacts) + 1
        /\ \A i \in 1..Len(impacts) : impacts'[i] = impacts[i]
        /\ impacts'[Len(impacts) + 1] = impact
    BY ONLY <1>3, <2>1, Appended
  <2>3. DOMAIN impacts' = 1..(Len(impacts) + 1)
    BY ONLY <2>2, Lists
  <2>4. ASSUME NEW k \in DOMAIN impacts' PROVE BetweenBatches(before, after, moment, impacts'[k])
    <3>1. k \in DOMAIN impacts \/ k = Len(impacts) + 1
      BY ONLY <2>1, <2>3, k \in DOMAIN impacts'
    <3> QED
      BY ONLY <1>3, <2>1, <2>2, <3>1, DiffInv DEF DiffInv
  <2>5. /\ changes = Changes(before, after)
        /\ \A p \in {before, after} : Authored(p) /\ Projected(p) /\ Compiles(p)
    BY <1>3 DEF DiffInv
  <2>6. moment \in Nat
    BY DEF DiffInv
  <2> QED
    BY ONLY <1>1, <1>3, <2>2, <2>4, <2>5, <2>6 DEF DiffInv
<1>4. CASE \E impact \in {ContextImpact(Head(panel), baseline, Outcomes(after, Head(panel), moment)),
                          ResolutionImpacts(Head(panel), baseline, Outcomes(after, Head(panel), moment))} :
             impacts' = Append(impacts, impact) /\ baseline' = None /\ UNCHANGED changes
  <2>1. panel # << >> /\ baseline # None
    BY DEF ResolveAfter
  <2>2. PICK t \in 0..moment : baseline = Outcomes(before, Head(panel), t)
    BY <2>1 DEF DiffInv
  <2>3. moment \in 0..moment
    BY DEF DiffInv
  <2>4. PICK sofar : sofar = Outcomes(after, Head(panel), moment)
    OBVIOUS
  <2>5. /\ BetweenBatches(before, after, moment, ContextImpact(Head(panel), baseline, sofar))
        /\ BetweenBatches(before, after, moment, ResolutionImpacts(Head(panel), baseline, sofar))
    BY ONLY <2>2, <2>3, <2>4, ImpactsAreOfBatches
  <2> QED
    BY ONLY <1>3, <1>4, <2>1, <2>4, <2>5
<1>5. GiveUp \/ \E impact \in {ContextImpact(Head(panel), baseline, Outcomes(after, Head(panel), moment)),
                               ResolutionImpacts(Head(panel), baseline, Outcomes(after, Head(panel), moment))} :
                  impacts' = Append(impacts, impact) /\ baseline' = None /\ UNCHANGED changes
  BY DEF ResolveAfter
<1> QED
  BY ONLY <1>2, <1>4, <1>5

\* and the time that passes.
LEMMA DiffStaysInTime ==
    ASSUME DiffInv, TimePasses
    PROVE  DiffInv'
<1>1. moment' = moment + 1 /\ UNCHANGED <<before, after, lenient, changes, panel, baseline, impacts>>
  BY DEF TimePasses
<1>2. moment \in Nat
  BY DEF DiffInv
<1>3. moment' \in Nat /\ 0..moment \subseteq 0..moment'
  BY ONLY <1>1, <1>2
<1>4. \A impact : BetweenBatches(before, after, moment, impact) => BetweenBatches(before, after, moment', impact)
  BY ONLY <1>3 DEF BetweenBatches
<1>5. baseline' # None => \E t \in 0..moment' : baseline' = Outcomes(before', Head(panel'), t)
  BY <1>1, <1>3 DEF DiffInv
<1>6. \A k \in DOMAIN impacts' : BetweenBatches(before', after', moment', impacts'[k])
  BY <1>1, <1>4 DEF DiffInv
<1> QED
  BY <1>1, <1>3, <1>5, <1>6 DEF DiffInv

\* So it is of every diff.
LEMMA DiffInvariance == DiffSpec => []DiffInv
<1>1. ASSUME DiffInv, [DiffNext]_diffVars PROVE DiffInv'
  <2>1. CASE UNCHANGED diffVars
    BY <1>1, <2>1 DEF DiffInv, diffVars
  <2>2. CASE DiffNext
    <3>1. CASE ResolveBefore
      BY <1>1, <3>1, DiffStaysBefore
    <3>2. CASE ResolveAfter
      BY <1>1, <3>2, DiffStaysAfter
    <3>3. CASE TimePasses
      BY <1>1, <3>3, DiffStaysInTime
    <3>4. ASSUME NEW pair \in Versions, NEW contexts \in Panels, NEW all \in BOOLEAN, before = None,
                 Diff(pair[1], pair[2], all, contexts)
          PROVE  DiffInv'
      BY <1>1, <3>4, DiffBegins
    <3> QED
      BY <2>2, <3>1, <3>2, <3>3, <3>4 DEF DiffNext
  <2> QED
    BY <1>1, <2>1, <2>2
<1> QED
  BY <1>1, DiffStarts, PTL DEF DiffSpec

\* What comes out differently is on account of a change that the diff lists, or of
\* the time.
LEMMA ImpactsExplain == DiffInv => ImpactsAreExplained
<1>1. SUFFICES ASSUME DiffInv, impacts # << >>, LintLayerShapes(before), LintLayerShapes(after),
                      NEW k \in DOMAIN impacts, NEW id \in impacts[k].impacts,
                      \A p \in {before, after} : id \in Variables(p) => Timeless(p, id),
                      \A change \in changes : \A p \in {before, after} :
                          id \in Variables(p) => change.at \notin DependsOn(p, id)
               PROVE  FALSE
  BY DEF ImpactsAreExplained
<1>2. PICK p, q : p = before /\ q = after
  OBVIOUS
<1>3. Sound(p) /\ Sound(q)
  <2>1. \A r \in {before, after} : Authored(r) /\ Projected(r) /\ Compiles(r)
    BY <1>1 DEF DiffInv
  <2> QED
    BY ONLY <1>1, <1>2, <2>1 DEF Sound
<1>4. PICK said : said = Changes(p, q) /\ said = changes
  BY <1>1, <1>2 DEF DiffInv
<1>5. PICK impact : impact = impacts[k]
  OBVIOUS
<1>6. BetweenBatches(p, q, moment, impact)
  BY <1>1, <1>2, <1>5 DEF DiffInv
<1>7. PICK t, u \in 0..moment :
        LET old == Outcomes(p, impact.context, t)
            new == Outcomes(q, impact.context, u)
        IN  \A x \in impact.impacts : /\ x \in Variables(p) \cup Variables(q)
                                      /\ x \in Variables(p) \cap Variables(q) => old[x] # new[x]
  BY ONLY <1>6 DEF BetweenBatches
<1>8. PICK c : c = impact.context
  OBVIOUS
<1>9. /\ id \in Variables(p) \cup Variables(q)
      /\ id \in Variables(p) \cap Variables(q) => Outcomes(p, c, t)[id] # Outcomes(q, c, u)[id]
  BY ONLY id \in impacts[k].impacts, <1>5, <1>7, <1>8
<1>10. CASE id \in Variables(p)
  <2>1. Timeless(p, id) /\ \A change \in Changes(p, q) : change.at \notin DependsOn(p, id)
    BY <1>1, <1>2, <1>4, <1>10
  <2>2. id \in Variables(q) /\ Outcomes(p, c, t)[id] = Outcomes(q, c, u)[id]
    BY ONLY <1>3, <1>10, <2>1, Unmoved
  <2> QED
    BY ONLY <1>9, <1>10, <2>2
<1>11. CASE id \in Variables(q) /\ id \notin Variables(p)
  <2>1. \A change \in Changes(p, q) : change.at \notin DependsOn(q, id)
    BY <1>1, <1>2, <1>4, <1>11
  <2>2. <<"variable", id>> \in DependsOn(q, id)
    <3>1. id \in ReadFrom(q, id)
      BY ONLY ReadsClose
    <3> QED
      BY ONLY <3>1 DEF DependsOn
  <2>3. Quiet(p, q, <<"variable", id>>)
    BY ONLY <2>1, <2>2 DEF Quiet
  <2> QED
    BY ONLY <1>11, <2>3, VariableStays
<1> QED
  BY ONLY <1>9, <1>10, <1>11

\* A diff whose every change is an expansion of arms moves no unit that was in one.
LEMMA ExpansionsMove == DiffInv => ExpansionMovesNoOne
<1>1. SUFFICES ASSUME DiffInv, impacts # << >>, \A change \in changes : change.kind = "allocation_arms_expanded",
                      Linted(before), Linted(after),
                      NEW k \in DOMAIN impacts, NEW id \in impacts[k].impacts,
                      Method(before.variables[id]) = "allocation",
                      \A e \in AllocationExpressions(before, before.variables[id]) :
                          Reads(e) \cap impacts[k].impacts = {} /\ ~(e.op = "now" /\ moment > 0)
               PROVE  \E time \in 0..moment :
                        LET was == Meanings(before, impacts[k].context, time)[id]
                        IN  was.do = "choose" /\ was.by = 0
  BY DEF ExpansionMovesNoOne
<1>2. PICK p, q : p = before /\ q = after
  OBVIOUS
<1>3. Sound(p) /\ Sound(q) /\ Linted(p)
  <2>1. \A r \in {before, after} : Authored(r) /\ Projected(r) /\ Compiles(r)
    BY <1>1 DEF DiffInv
  <2>2. LintLayerShapes(before) /\ LintLayerShapes(after)
    BY <1>1 DEF Linted
  <2> QED
    BY ONLY <1>1, <1>2, <2>1, <2>2 DEF Sound
<1>4. OnlyExpands(p, q)
  <2>1. changes = Changes(p, q)
    BY <1>1, <1>2 DEF DiffInv
  <2> QED
    BY <1>1, <2>1 DEF OnlyExpands
<1>5. PICK impact : impact = impacts[k]
  OBVIOUS
<1>6. BetweenBatches(p, q, moment, impact)
  BY <1>1, <1>2, <1>5 DEF DiffInv
<1>7. PICK c, moved : c = impact.context /\ moved = impact.impacts
  OBVIOUS
<1>8. PICK t, u \in 0..moment :
        /\ \A x \in Variables(p) \cap Variables(q) : Outcomes(p, c, t)[x] # Outcomes(q, c, u)[x] => x \in moved
        /\ \A x \in moved : /\ x \in Variables(p) \cup Variables(q)
                            /\ x \in Variables(p) \cap Variables(q) => Outcomes(p, c, t)[x] # Outcomes(q, c, u)[x]
  BY ONLY <1>6, <1>7 DEF BetweenBatches
<1>9. id \in moved
  BY <1>5, <1>7
<1>10. id \in Variables(p)
  <2>1. Quiet(p, q, <<"variable", id>>)
    BY ONLY <1>4 DEF OnlyExpands, Quiet
  <2>2. id \in Variables(p) <=> id \in Variables(q)
    BY ONLY <2>1, VariableStays
  <2> QED
    BY ONLY <1>8, <1>9, <2>2
<1>11. moment > 0 \/ t = u
  <2>1. moment \in Nat
    BY <1>1 DEF DiffInv
  <2> QED
    BY ONLY <2>1, t \in 0..moment, u \in 0..moment
<1>12. \A e \in AllocationExpressions(p, p.variables[id]) : Reads(e) \cap moved = {} /\ (e.op = "now" => t = u)
  BY <1>1, <1>2, <1>5, <1>7, <1>11
<1>13. Method(p.variables[id]) = "allocation"
  BY <1>1, <1>2
<1>14. \/ id \in Variables(q) /\ Outcomes(p, c, t)[id] = Outcomes(q, c, u)[id]
       \/ Meanings(p, c, t)[id].do = "choose" /\ Meanings(p, c, t)[id].by = 0
  <2>1. MovedAreIn(p, q, c, t, u, moved)
    BY ONLY <1>8 DEF MovedAreIn
  <2>2. SaysSame(p, id, moved, t, u)
    BY ONLY <1>12 DEF SaysSame
  <2> QED
    BY ONLY <1>3, <1>4, <1>10, <1>13, <2>1, <2>2, ExpansionKeeps
<1>15. Meanings(p, c, t)[id].do = "choose" /\ Meanings(p, c, t)[id].by = 0
  BY ONLY <1>8, <1>9, <1>10, <1>14
<1>16. p = before /\ c = impacts[k].context /\ t \in 0..moment
  BY <1>2, <1>5, <1>7
<1> QED
  BY ONLY <1>15, <1>16

\* Whatever two versions are compared, and for whichever contexts, what comes out
\* differently has a cause that the diff lists, or the time passed
\* (src/lint/diff.rs).
THEOREM DiffsExplain == DiffSpec => []ImpactsAreExplained
BY DiffInvariance, ImpactsExplain, PTL

\* Whatever two versions are compared, expanding arms into buckets that no arm had
\* moves no unit that was in an arm (src/lint/diff.rs).
THEOREM ExpansionsAreQuiet == DiffSpec => []ExpansionMovesNoOne
BY DiffInvariance, ExpansionsMove, PTL
=============================================================================
