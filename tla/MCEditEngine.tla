---- MODULE MCEditEngine ----
EXTENDS EditEngine

MCRule(when, value) == TableText("rule", Rule(when, value))
MCArm(name) == TableText("arm", Arm(name, "0-1"))
MCAllocation(id) == TableText("allocation", [id |-> id])

MCVariable(fields, rules) == Document(Over([type |-> "x", default |-> "x"], fields), rules)

\* A package with one of everything, a package whose catalog and context hold
\* a stray file each, and one with a schema missing above its sample.
MCTrees == {
  [path \in {<<"variable", "v">>, <<"layer", "l">>, <<"list", "m">>} |->
     CASE path[1] = "variable" ->
            MCVariable(<< >>, <<MCRule("x", "x"), MCRule("x", "y"), MCRule("y", "x")>>)
       [] path[1] = "layer" ->
            Document([unit |-> "x"], <<MCAllocation("s"), MCArm("a"), MCArm("b"), MCAllocation("t"), MCArm("a")>>)
       [] path[1] = "list" ->
            [Document([type |-> "string"], << >>) EXCEPT !.members = <<"x">>]],
  [path \in {<<"variable", "v">>, <<"catalog", "c">>, <<"context", "r">>, <<"catalog", "c", "default">>,
              <<"catalog", "c", "other">>, <<"catalog", "c", "readme">>, <<"context", "r", "other">>,
              <<"context", "r", "readme">>} |->
     CASE path[Len(path)] = "v" -> MCVariable([method |-> "allocation"], << >>)
       [] path[Len(path)] \in {"c", "r"} -> Document([schema |-> "x"], << >>)
       [] path[Len(path)] = "readme" -> Document(<< >>, << >>)
       [] path[Len(path)] \in {"default", "other"} ->
            Document(IF path[1] = "catalog" THEN [field |-> "x"] ELSE [facts |-> "x"], << >>)],
  [path \in {<<"variable", "v">>, <<"context", "r", "default">>} |->
     CASE path[1] = "variable" -> MCVariable([method |-> "query", from |-> "x", filter |-> "x"], << >>)
       [] path[1] = "context" -> Document([facts |-> "x"], << >>)]}

MCQuery(from, sort, order) == [from |-> from, filter |-> "x", sort |-> sort, order |-> order]
MCQueries == {MCQuery("x", {}, {}), MCQuery("x", {"x"}, {"asc"}), MCQuery("x", {}, {"asc"}), MCQuery("", {}, {})}
MCInherited == {<<"variable", "i">>}
====
