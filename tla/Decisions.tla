------------------------------ MODULE Decisions ------------------------------
(***************************************************************************)
(* The decision point of the console server (src/decide.ts): may a principal *)
(* take an action on a resource?  A resource is its path in the tree        *)
(* deployment / source tree / package / entity, so its ancestors are its    *)
(* prefixes and the deployment is the empty path.  The answers are pure;    *)
(* Accounts asks them of the grants there are.                              *)
(***************************************************************************)
EXTENDS Sequences, SequencesExt, Graphs

CONSTANTS
    Trees,         \* source trees
    Packages,      \* paths of packages, the same in every tree
    Links          \* pairs <<p, q>> of packages: p extends q

\* The four verbs are strictly ordered: a grant at a level implies those below.
ACTION_RANK == [view |-> 0, propose |-> 1, approve |-> 2, administer |-> 3]
Verbs == DOMAIN ACTION_RANK
ActionImplies(granted, requested) == ACTION_RANK[granted] >= ACTION_RANK[requested]

Deployment == <<>>
TreeOf(t) == <<t>>
PackageOf(t, p) == <<t, p>>
Resources ==
    {Deployment} \cup {TreeOf(t) : t \in Trees} \cup {PackageOf(t, p) : t \in Trees, p \in Packages}

\* Resources the admin surface can name: an entity does not parse.
ParseResource(resource) == Len(resource) <= 2

\* A grant reaches its resource and everything below it.
Covers(grant, action, resource) ==
    /\ ActionImplies(grant.action, action)
    /\ IsPrefix(grant.resource, resource)

\* A lookup in which the grant nearest to the resource decides alone.
GrantsAllowNearest(held, action, resource) ==
    \E g \in held :
        /\ Covers(g, action, resource)
        /\ \A h \in held : IsPrefix(h.resource, resource) =>
               Len(h.resource) <= Len(g.resource)

GrantsAllow(held, action, resource) == \E g \in held : Covers(g, action, resource)

\* Packages joined by the extends graph, read in both directions.
ExtendsGraph == [node |-> Packages, edge |-> Links \cup {<<l[2], l[1]>> : l \in Links}]
ConnectedPath ==
    {two \in Packages \X Packages : ConnectionsIn(ExtendsGraph)[two[1], two[2]]}

\* Propose on a package, or on an entity in it, derives view over its relatives.
DerivedView(held, action, resource) ==
    /\ action = "view" /\ Len(resource) = 2
    /\ \E g \in held :
           /\ ActionImplies(g.action, "propose")
           /\ Len(g.resource) > 1 /\ g.resource[1] = resource[1]
           /\ <<g.resource[2], resource[2]>> \in ConnectedPath

\* What GitHub says of a repository: "unseen" when it does not show it.
GrantedByPermissions ==
    [pull |-> "view", push |-> "propose", maintain |-> "approve", admin |-> "administer"]
Facts == DOMAIN GrantedByPermissions \cup {"none", "unseen"}
GitHubAllows(facts, action) ==
    facts \in DOMAIN GrantedByPermissions /\ ActionImplies(GrantedByPermissions[facts], action)

\* decide() of an active principal: facts is what GitHub answers, "none" when it
\* is not asked; contributed, that she helped write the change she approves.
Decide(held, action, resource, contributed, facts) ==
    IF GrantsAllow(held, action, resource)
    THEN ~(contributed /\ action = "approve")
    ELSE \/ DerivedView(held, action, resource)
         \/ resource # Deployment /\ GitHubAllows(facts, action)
=============================================================================
