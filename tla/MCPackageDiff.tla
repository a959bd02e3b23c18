---------------------------- MODULE MCPackageDiff ----------------------------
(***************************************************************************)
(* Versions of small packages: rules and the lists and variables they read,  *)
(* queries and the entries they range over, allocations and their layers.    *)
(***************************************************************************)
EXTENDS PackageDiff

Is(x) == Expression("is", x, "", Number(1))
Fact == Expression("fact", {}, "", Number(0))
Now == Expression("now", {}, "", Number(1))
Member == Expression("member", {}, "tiers", Number(2))
Flag(n) == Expression("flag", {}, "", Number(n))
Rank == Expression("rank", {}, "", Number(0))

Package(variables, catalogs, lists, layers) ==
    [variables |-> variables, catalogs |-> catalogs, lists |-> lists, layers |-> layers, policies |-> << >>]
NoCatalogs == [c \in {} |-> 0]
Tiers(s) == [tiers |-> s]

Rule(when, value) == [when |-> when, value |-> value]
Variable(type, default, rules) ==
    [versioned |-> TRUE, type |-> type,
     resolve |-> [method |-> None, default |-> default, rules |-> rules, query |-> None, assign |-> None]]
Number0 == Type("primitive", "number", 0)
ByRules(n, rules) == Variable(Number0, Number(n), rules)

\* Rules of one variable on another, on a list and on the time.
RuleSets == {<< >>, <<Rule(Fact, Number(1))>>, <<Rule(Is({2}), Number(1))>>, <<Rule(Member, Number(1))>>,
             <<Rule(Now, Number(1))>>, <<Rule(Fact, Number(2)), Rule(Member, Number(1))>>}
Ruled ==
    {Package(<<ByRules(0, r), v2>>, NoCatalogs, Tiers(t), << >>) :
        r \in RuleSets, v2 \in {ByRules(1, << >>), ByRules(0, <<Rule(Fact, Number(1))>>)}, t \in {{1}, {1, 2}}}
    \cup {Package(<<ByRules(0, << >>)>>, NoCatalogs, Tiers({1}), << >>)}

\* A query of the plans, and a variable that names one.
Plan(n) == <<"plans", n>>
Entry(flag, rank, ref) == [flag |-> flag, rank |-> Number(rank), ref |-> ref]
PlanSets == {<<Entry(TRUE, 1, None), Entry(FALSE, 2, Plan(1))>>, <<Entry(TRUE, 1, None), Entry(TRUE, 2, Plan(1))>>,
             <<Entry(FALSE, 1, None), Entry(FALSE, 2, Plan(1))>>, <<Entry(TRUE, 1, None)>>}
Query(array, filter, order, limit) ==
    [Variable(Type("catalog", "plans", array), None, << >>) EXCEPT
        !.resolve.method = "query",
        !.resolve.query = [from |-> "plans", filter |-> filter, sort |-> Rank, order |-> order, limit |-> limit]]
Queried ==
    {Package(<<Query(array, f, o, l), Variable(Type("catalog", "plans", 0), String(1), << >>)>>,
             [plans |-> plans], Tiers({1}), << >>) :
        array \in 0..1, f \in {None, Flag(0), Flag(1)}, o \in {None, "desc"}, l \in {None, 1}, plans \in PlanSets}

\* A variable on an allocation, its arms as they grow, shrink and change hands.
Arm(name, from, to) == [name |-> name, buckets |-> <<from, to>>]
Assign(arm, value) == [arm |-> arm, value |-> value]
ArmSets == {<<Arm("on", 0, to), Arm("off", from, 2)>> : to \in 0..1, from \in 1..2}
Experiments ==
    {Package(<<[Variable(Number0, Number(0), << >>) EXCEPT
                  !.resolve.method = "allocation",
                  !.resolve.assign = [allocation |-> "a",
                                      assigns |-> <<Assign("on", Number(n)), Assign("off", Number(2))>>]],
               ByRules(0, <<Rule(Is({1}), Number(1))>>)>>,
             NoCatalogs, Tiers({1}),
             <<[versioned |-> TRUE, unit |-> Expression("unit", {}, "", Number(0)), buckets |-> buckets,
                allocations |-> <<[id |-> "a", status |-> status, eligibility |-> e, arms |-> arms]>>]>>) :
        n \in {1, 3}, buckets \in 3..4, status \in {None, "running", "draft"}, e \in {None, Fact, Now}, arms \in ArmSets}

\* Who is eligible for the second experiment may depend on the first.
Consumer(allocation, default, n) ==
    [Variable(Number0, Number(default), << >>) EXCEPT
        !.resolve.method = "allocation",
        !.resolve.assign = [allocation |-> allocation, assigns |-> <<Assign("on", Number(n))>>]]
LayerOf(id, eligibility, to) ==
    [versioned |-> TRUE, unit |-> Expression("unit", {}, "", Number(0)), buckets |-> 3,
     allocations |-> <<[id |-> id, status |-> None, eligibility |-> eligibility, arms |-> <<Arm("on", 0, to)>>]>>]
Chained ==
    {Package(<<Consumer("a", default, 1 - default), Consumer("b", 0, 2)>>, NoCatalogs, Tiers({1}),
             <<LayerOf("a", None, to), LayerOf("b", e, until)>>) :
        default \in 0..1, e \in {None, Is({1}), Now}, to \in 0..1, until \in 0..1}

\* A query that asks of what its entries lead to, two references away.
Deep ==
    {Package(<<[Query(1, Flag(k), None, None) EXCEPT !.resolve.query.sort = None]>>,
             [plans |-> <<Entry(TRUE, 1, <<"tiers", 1>>)>>, tiers |-> <<Entry(FALSE, 1, <<"perks", n>>)>>,
              perks |-> <<Entry(flag, 1, None)>>], Tiers({1}), << >>) :
        k \in 1..2, n \in 1..2, flag \in BOOLEAN}

\* Layers that do not lint: the diff knows the last allocation of an id, and arms
\* by their names.
Repeated ==
    LET arms(to) == <<Arm("on", 0, to), Arm("off", 1, 1)>>
        unlinted(lists) ==
            Package(<<[Consumer("a", 0, 1) EXCEPT
                         !.resolve.assign.assigns = <<Assign("on", Number(1)), Assign("off", Number(2))>>]>>,
                    NoCatalogs, Tiers({1}),
                    <<[LayerOf("a", None, 0) EXCEPT
                         !.allocations = [i \in DOMAIN lists |->
                             [id |-> "a", status |-> None, eligibility |-> None, arms |-> lists[i]]]]>>)
    IN  {unlinted(lists) : lists \in {<<arms(1)>>, <<<<arms(1)[2], arms(1)[1]>>>>,
                                      <<arms(0), arms(0)>>, <<<<Arm("off", 0, 0), Arm("on", 1, 1)>>, arms(0)>>}}

Untyped == Package(<<Variable(Malformed, Number(0), << >>)>>, NoCatalogs, Tiers({1}), << >>)

\* The version before is one of fewer: what can differ from it is all the same.
MCVersions ==
    (Ruled \X Ruled)
    \cup ({p \in Queried : p.catalogs.plans[1].flag /\ Len(p.catalogs.plans) = 2 /\ ~p.catalogs.plans[2].flag
                           /\ p.variables[1].resolve.query.limit = None} \X Queried)
    \cup ({p \in Experiments : p.layers[1].buckets = 4 /\ p.variables[1].resolve.assign.assigns[1].value = Number(1)
                               /\ p.layers[1].allocations[1].status # "running"}
           \X Experiments)
    \cup (Chained \X Chained) \cup (Deep \X Deep) \cup (Repeated \X Repeated)
    \cup ({Untyped} \X {Untyped, CHOOSE p \in Ruled : TRUE})
MCPanels ==
    LET at(fact, h) == [fact |-> fact, hash |-> <<h, 0>>]
    IN  {<<at(TRUE, 0), at(None, 1)>>, <<at(TRUE, 2)>>}
==============================================================================
