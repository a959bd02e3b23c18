---------------------------- MODULE MCResolution ----------------------------
(***************************************************************************)
(* Packages in four families: references between rules, queries,            *)
(* allocations, and one variable with whatever an author can get wrong.     *)
(***************************************************************************)
EXTENDS Resolution

E(op, x, n) == Expression(op, x, "", Number(n))
Is(x) == E("is", x, 1)
Fact == E("fact", {}, 0)
Now == E("now", {}, 1)
Flag(n) == E("flag", {}, n)
Rank(n) == E("rank", {}, n)

Number0 == Type("primitive", "number", 0)
ByRules(type, default, rules) ==
    [versioned |-> TRUE, type |-> type,
     resolve |-> [method |-> None, default |-> default, rules |-> rules, query |-> None, assign |-> None]]
Rule(when, value) == [when |-> when, value |-> value]
Constant(n) == ByRules(Number0, Number(n), << >>)
When(e) == ByRules(Number0, Number(0), <<Rule(e, Number(1))>>)

Package(variables, catalogs, layers, policies) ==
    [variables |-> variables, catalogs |-> catalogs, lists |-> [tiers |-> {1, 2}],
     layers |-> layers, policies |-> policies]
NoCatalogs == [c \in {} |-> 0]

\* References.
Dated == ByRules(Number0, Number(0), <<Rule(Now, Number(1)), Rule(Now, Number(2))>>)
Either(x, y) == ByRules(Number0, Number(0), <<Rule(Is({x}), Number(1)), Rule(Is({y}), Number(2))>>)
Guarded(x) == When(E("guarded", {x}, 0))
References ==
    {Package(<<v1, v2, v3>>, NoCatalogs, << >>, << >>) :
        v1 \in {Constant(1), When(Fact), When(Is({1})), When(Is({2})), When(Is({2, 3})), Dated, Guarded(2), Either(2, 3)},
        v2 \in {Constant(1), When(Fact), When(Is({1})), When(Is({3})), When(Is({Unknown})), When(Is({1, 3})), Either(3, 1)},
        v3 \in {Constant(1), When(Fact), When(Is({1})), When(Is({2})), Guarded(1), Dated}}
    \cup {Package(v, NoCatalogs, << >>, ps) :
            v \in [1..2 -> {When(Fact), When(Is({1})), When(Is({2})), When(E("wild", {}, 0)),
                            When(Expression("member", {}, "tiers", Number(2)))}],
            ps \in {<<E("resolving", {1}, 0), Is({2})>>, <<Is({Unknown})>>, <<Malformed>>}}

\* Queries over a catalog of plans, whose entries refer to each other.
Entry(flag, rank, ref) == [flag |-> flag, rank |-> rank, ref |-> ref]
Plan(n) == <<"plans", n>>
Plans == [plans |-> <<Entry(TRUE, Number(2), Plan(2)), Entry(FALSE, Number(1), Plan(3)), Entry(TRUE, Number(1), Plan(2))>>]
Uneven == [plans |-> <<Entry(TRUE, Number(2), None), Entry(TRUE, String(1), Plan(7))>>]
Empty == [plans |-> << >>]
Of(array) == Type("catalog", "plans", array)
Query(type, default, filter, sort, order, limit) ==
    [ByRules(type, default, << >>) EXCEPT
        !.resolve.method = "query",
        !.resolve.query = [from |-> "plans", filter |-> filter, sort |-> sort, order |-> order, limit |-> limit]]
Queries ==
    {Package(<<v, q>>, catalogs, << >>, << >>) :
        v \in {When(Fact), When(Is({2}))}, catalogs \in {Plans, Uneven, Empty},
        q \in {Query(t, d, f, s, o, l) :
                 t \in {Of(0), Of(1)}, d \in {None, String(1), Strings(<<1>>)},
                 f \in {None, Flag(0), Flag(1), Flag(2), Is({1}), Is({2}), Rank(0)},
                 s \in {None, Rank(0)}, o \in {None, "desc"}, l \in {None, 1}}}

\* Two variables on the allocations of one layer.
Arm(name, from, to) == [name |-> name, buckets |-> <<from, to>>]
Allocation(id, status, eligibility, arms) ==
    [id |-> id, status |-> status, eligibility |-> eligibility, arms |-> arms]
Layer(buckets, allocations) ==
    [versioned |-> TRUE, unit |-> E("unit", {}, 0), buckets |-> buckets, allocations |-> allocations]
Assign(arm, value) == [arm |-> arm, value |-> value]
Allocated(id, assigns) ==
    [ByRules(Number0, Number(0), << >>) EXCEPT
        !.resolve.method = "allocation", !.resolve.assign = [allocation |-> id, assigns |-> assigns]]
Both == <<Assign("on", Number(1)), Assign("off", Number(2))>>
Experiments ==
    {Package(<<v, Allocated("a", g), Allocated(id, h)>>, NoCatalogs,
             <<Layer(n, <<Allocation("a", status, e, <<Arm("on", 2, 2), Arm("off", 0, to)>>),
                          Allocation("b", None, None, <<Arm("on", 1, 1), Arm("off", 3, 3)>>)>>)>>, << >>) :
        v \in {When(Fact), When(Is({2}))}, id \in {"a", "b", "z"}, n \in {4, 3},
        status \in {None, "draft"}, e \in {None, Fact, Now, Is({1}), Is({Unknown}), Flag(0)}, to \in 0..1,
        g \in {Both, <<Assign("on", Number(1))>>}, h \in {Both, Both \o <<Assign("on", Number(1))>>}}

\* One variable, with what an author can get wrong.
Types ==
    {Malformed, Number0, Type("primitive", "text", 0), Type("primitive", "string", 1), Type("primitive", "bool", 2),
     Type("list", "tiers", 0), Type("list", "tiers", 1), Type("list", "none", 0),
     Of(0), Of(1), Of(2), Type("catalog", "none", 0), Type("none", "", 1)}
Literals == {Number(1), String(1), String(8), Strings(<<1, 2>>), Strings(<<8>>), Numbers(<<1>>)}
Wrong1(t, m, d, r, q, a) ==
    Package(<<[versioned |-> TRUE, type |-> t, resolve |->
                 [method |-> m, default |-> d, rules |-> r, query |-> q, assign |-> a]]>>,
            Plans, <<Layer(4, <<Allocation("a", None, None, <<Arm("on", 0, 1)>>)>>)>>, << >>)
Wrongs ==
    {Wrong1(t, None, d, r, None, None) :
        t \in Types, d \in {None} \cup Literals,
        r \in {<< >>, Malformed, <<Malformed>>, <<Rule(None, Number(1))>>, <<Rule(Fact, None)>>}
              \cup {<<Rule(Fact, value)>> : value \in {Number(1), String(8)}}}
    \cup {Wrong1(t, m, d, r, q, a) :
        t \in {Number0, Of(0)}, m \in {None, "query", "allocation", "other"}, d \in {None, Number(1), String(1)},
        r \in {<< >>, Malformed, <<Rule(Fact, Number(1))>>},
        q \in {None, [from |-> "plans", filter |-> Malformed, sort |-> None, order |-> None, limit |-> None],
               [from |-> "plans", filter |-> None, sort |-> Rank(0), order |-> "up", limit |-> None]},
        a \in {None, [allocation |-> "a", assigns |-> Malformed], [allocation |-> Malformed, assigns |-> << >>]}
              \cup {[allocation |-> "a", assigns |-> <<g>>] :
                      g \in {Malformed, Assign("on", Number(1)), Assign("on", String(8)), Assign("up", Number(1))}}}

MCPackages == References \cup Queries \cup Experiments \cup Wrongs
MCContexts == [fact : {None, TRUE}, hash : {None} \cup {<<h>> : h \in 0..4}]
==============================================================================
