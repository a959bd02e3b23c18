------------------------------- MODULE Accounts -------------------------------
(***************************************************************************)
(* Who may do what in the console server: sign-in and enrolment             *)
(* (src/enroll.ts, src/routes/auth.ts), sessions (src/sessions.ts),         *)
(* principals, groups, grants and invitations (src/routes/admin.ts), the    *)
(* registration of source trees (src/app.ts) and their tables (src/store.ts).*)
(*                                                                         *)
(* The tables are changed by synchronous statements; what interleaves is    *)
(* what a handler awaits: the body of its request, an answer of GitHub, the *)
(* exchange of a code.  A handler that awaits nothing between its decision  *)
(* and its last write is one step here; one that does is a step per stretch,*)
(* and its task says what it carries across.  A refusal leaves everything   *)
(* as it was, so it is no step of its own but the request's end.            *)
(***************************************************************************)
EXTENDS Decisions, Integers, FiniteSets

CONSTANTS
    Principals,    \* ids of principals, in the order they are made: 1..n
    Accounts,      \* people at an identity provider: one (provider, subject) each
    GitHubUsers,   \* the accounts whose provider is GitHub, the others are OIDC
    Admins,        \* accounts that ROTOTO_CONSOLE_ADMINS lists
    Enrollment,    \* "invite-only", "domain-allowlist" or "open"
    Verified,      \* OIDC accounts whose email the provider has verified
    Allowlisted,   \* those of them with an email in an allowed domain
    Groups,        \* ids of groups
    Names,         \* names of groups
    Offers,        \* what administrators put into an invitation
    Asked,         \* grants that administrators think of
    Browsers,      \* each holds at most one session cookie
    Requests,      \* handlers in flight
    MaxGrants,     \* bound: grants ever made
    MaxInvitations, \* bound: invitations ever made
    MaxHandlers    \* bound: handlers with an await in them ever begun

VARIABLES
    status,        \* principals: "none", "active" or "disabled"
    holder,        \* identities: the principal an account is attached to
    session,       \* sessions: the principal whose cookie a browser holds
    groups,        \* groups: the name of a group, or Unmade, or Deleted
    members,       \* group_members: pairs of a group and a principal
    grants,        \* grants: records with an id
    invitations,   \* invitations: records with an id
    trees,         \* source_trees: "unknown", "active" or "deregistered"
    open,          \* change_sets: the trees with a draft or proposed one
    minted,        \* ids of grants used so far
    sent,          \* ids of invitations used so far
    task,          \* what each handler is in the middle of
    begun          \* counter of the bound

people == <<status, holder, session>>
access == <<groups, members, grants, minted>>
letters == <<invitations, sent>>
places == <<trees, open>>
vars == <<people, access, letters, places, task, begun>>

Nobody == 0
Unmade == "unmade"
Deleted == "deleted"
Idle == [op |-> "idle"]
Known == {p \in Principals : status[p] # "none"}
Living == {g \in Groups : groups[g] \in Names}
Grantees == Known \cup Living

Init ==
    /\ status = [p \in Principals |-> "none"]
    /\ holder = [a \in Accounts |-> Nobody]
    /\ session = [b \in Browsers |-> Nobody]
    /\ groups = [g \in Groups |-> Unmade]
    /\ members = {} /\ grants = {} /\ minted = 0
    /\ invitations = {} /\ sent = 0
    /\ trees = [t \in Trees |-> "unknown"] /\ open = {}
    /\ task = [r \in Requests |-> Idle] /\ begun = 0

-----------------------------------------------------------------------------
(* Decisions.                                                               *)

\* grantsForPrincipal: held directly or through a group.
GrantsFor(p) == {g \in grants : g.grantee = p \/ <<g.grantee, p>> \in members}

\* The grants say yes, without asking anybody.
Granted(p, action, resource) ==
    status[p] = "active" /\ GrantsAllow(GrantsFor(p), action, resource)

\* The grants are silent and GitHub is asked, with the principal's credential.
AsksGitHub(p, action, resource) ==
    /\ status[p] = "active" /\ ~Granted(p, action, resource)
    /\ resource # Deployment /\ trees[resource[1]] # "unknown"
    /\ \E a \in GitHubUsers : holder[a] = p

Administers(b) == session[b] # Nobody /\ Granted(session[b], "administer", Deployment)

-----------------------------------------------------------------------------
(* Handlers.                                                                *)
Begin(r, job) ==
    /\ task[r] = Idle /\ task' = [task EXCEPT ![r] = job]
    /\ begun < MaxHandlers /\ begun' = begun + 1
    /\ UNCHANGED <<people, access, letters, places>>
At(r, op) == task[r].op = op
End(r) == task' = [task EXCEPT ![r] = Idle] /\ UNCHANGED begun
Still == UNCHANGED <<task, begun>>

\* A body that is no JSON, a refusal, a failed call: the handler ends.
GiveUp(r) == task[r] # Idle /\ End(r) /\ UNCHANGED <<people, access, letters, places>>

\* insertGrant: two equal grants are two rows.
Insert(new) ==
    /\ minted + Len(new) <= MaxGrants
    /\ grants' = grants \cup
           {[id |-> minted + i, grantee |-> new[i].grantee, action |-> new[i].action,
             resource |-> new[i].resource] : i \in DOMAIN new}
    /\ minted' = minted + Len(new)

-----------------------------------------------------------------------------
(* Sign-in.  A flow ends with the account the provider names.               *)

Provider(a) == IF a \in GitHubUsers THEN "github" ELSE "oidc"
RedeemableAgain(i) == ~i.expired
Redeemable(i) == i.redeemedBy = Nobody /\ ~i.expired

\* By the token of the link, and by a verified email when that finds nothing.
InvitationFor(a, token) ==
    LET named == {i \in invitations : i.id = token /\ Redeemable(i)}
        mailed == {i \in invitations :
            /\ Redeemable(i) /\ i.email = a /\ a \in Verified
            /\ i.provider \in {"any", Provider(a)}}
        found == IF named # {} THEN named ELSE mailed
    IN  {i \in found : \A j \in found : i.id <= j.id}

AdministerAll == [action |-> "administer", resource |-> Deployment]
GrantTo(grantee, wish) ==
    [grantee |-> grantee, action |-> wish.action, resource |-> wish.resource]

\* bootstrapAdmin: what is minted for a principal who signs in with a listed account.
Bootstrap(p, a) ==
    IF a \in Admins /\ ~\E g \in GrantsFor(p) :
           g.action = "administer" /\ g.resource = Deployment
    THEN <<GrantTo(p, AdministerAll)>>
    ELSE <<>>

BeginFlow(r, b, intent, token) ==
    /\ intent = "link" => session[b] # Nobody /\ token = 0
    /\ Begin(r, [op |-> intent, browser |-> b, token |-> token])

\* completeFlow of a link: an account of another principal is refused.
Link(r, a) ==
    LET p == session[task[r].browser]
    IN  /\ At(r, "link") /\ p # Nobody /\ holder[a] \in {p, Nobody}
        /\ holder' = [holder EXCEPT ![a] = p]
        /\ End(r) /\ UNCHANGED <<status, session, access, letters, places>>

SignIn(r, a) ==
    LET b == task[r].browser
        p == holder[a]
    IN  /\ At(r, "signin") /\ p # Nobody
        /\ Insert(Bootstrap(p, a))
        /\ session' = [session EXCEPT ![b] = p]
        /\ End(r) /\ UNCHANGED <<status, holder, groups, members, letters, places>>

\* An unattached account: policy decides, and the invitation's groups and
\* grants are handed over as far as they still exist.
Enroll(r, a) ==
    LET b == task[r].browser
        invitation == InvitationFor(a, task[r].token)
        p == CHOOSE q \in Principals : status[q] = "none" /\ \A o \in 1..(q - 1) : o \in Known
        offered == Living \cap UNION {i.groups : i \in invitation}
        gifts == UNION {i.grants : i \in invitation}
        given == [i \in 1..Cardinality(gifts) |-> GrantTo(p, SetToSeq(gifts)[i])]
        again == IF AdministerAll \in gifts \/ \E g \in grants :
                        g.grantee \in offered /\ g.action = "administer" /\ g.resource = Deployment
                 THEN <<>> ELSE Bootstrap(p, a)
    IN  /\ At(r, "signin") /\ holder[a] = Nobody /\ Known # Principals
        /\ \/ invitation # {} \/ a \in Admins \/ Enrollment = "open"
           \/ Enrollment = "domain-allowlist" /\ a \in Allowlisted
        /\ status' = [status EXCEPT ![p] = "active"]
        /\ holder' = [holder EXCEPT ![a] = p]
        /\ invitations' = {IF i \in invitation /\ i.redeemedBy = Nobody
                            THEN [i EXCEPT !.redeemedBy = p] ELSE i : i \in invitations}
        /\ members' = members \cup {<<g, p>> : g \in offered}
        /\ Insert(given \o again)
        /\ session' = [session EXCEPT ![b] = p]
        /\ End(r) /\ UNCHANGED <<groups, sent, places>>

\* Logout, or the end of a session's fourteen days.
EndSession(b) ==
    /\ session[b] # Nobody /\ session' = [session EXCEPT ![b] = Nobody]
    /\ UNCHANGED <<status, holder, access, letters, places>> /\ Still

-----------------------------------------------------------------------------
(* Principals and identities.                                               *)

AskStatus(r, b, p) == Administers(b) /\ p \in Known /\ Begin(r, [op |-> "status", whom |-> p])

\* Disabling removes the sessions the principal has now.
SetStatus(r, to) ==
    /\ At(r, "status")
    /\ status' = [status EXCEPT ![task[r].whom] = to]
    /\ session' = [b \in Browsers |->
           IF to = "disabled" /\ session[b] = task[r].whom THEN Nobody ELSE session[b]]
    /\ End(r) /\ UNCHANGED <<holder, access, letters, places>>

Siblings(a) == {s \in Accounts : holder[s] = holder[a]}

\* The last identity of a principal stays.
Unlinkable(a) == holder[a] # Nobody /\ \E s \in Accounts \ {a} : holder[s] = holder[a]

Unlink(b, a) ==
    /\ Administers(b) /\ Unlinkable(a)
    /\ holder' = [holder EXCEPT ![a] = Nobody]
    /\ UNCHANGED <<status, session, access, letters, places>> /\ Still

-----------------------------------------------------------------------------
(* Groups.                                                                  *)

AskGroup(r, b) == Administers(b) /\ Begin(r, [op |-> "group"])

CreateGroup(r, g, name) ==
    /\ At(r, "group") /\ groups[g] = Unmade
    /\ \A h \in Groups : groups[h] # name
    /\ groups' = [groups EXCEPT ![g] = name]
    /\ End(r) /\ UNCHANGED <<people, members, grants, minted, letters, places>>

AskRename(r, b, g) == Administers(b) /\ g \in Living /\ Begin(r, [op |-> "rename", group |-> g])

\* The row may be gone by now: the update then finds nothing.
UpdateGroup(r, name) ==
    LET g == task[r].group
    IN  /\ At(r, "rename") /\ \A h \in Groups \ {g} : groups[h] # name
        /\ groups' = [groups EXCEPT ![g] = IF g \in Living THEN name ELSE @]
        /\ End(r) /\ UNCHANGED <<people, members, grants, minted, letters, places>>

\* A group that a grant names is refused: access changes by grants only.
DeletableAlways(g) == g \in Living
Deletable(g) == g \in Living /\ ~\E x \in grants : x.grantee = g

DeleteGroup(b, g) ==
    /\ Administers(b) /\ Deletable(g)
    /\ members' = {m \in members : m[1] # g}
    /\ groups' = [groups EXCEPT ![g] = Deleted]
    /\ UNCHANGED <<people, grants, minted, letters, places>> /\ Still

AskMember(r, b, g) == Administers(b) /\ g \in Living /\ Begin(r, [op |-> "member", group |-> g])

\* Adding to a group deleted meanwhile fails on its foreign key.
Member(r, p, remove) ==
    LET m == <<task[r].group, p>>
    IN  /\ At(r, "member") /\ p \in Known
        /\ \/ remove /\ members' = members \ {m}
           \/ ~remove /\ m[1] \in Living /\ members' = members \cup {m}
        /\ End(r) /\ UNCHANGED <<people, groups, grants, minted, letters, places>>

-----------------------------------------------------------------------------
(* Grants.                                                                  *)

AskGrant(r, b) == session[b] # Nobody /\ Begin(r, [op |-> "grant", by |-> session[b]])

\* The body has come: the grantee is looked up before the decision is awaited.
ReadGrant(r, grantee, wish) ==
    LET new == GrantTo(grantee, wish)
    IN  /\ At(r, "grant") /\ grantee \in Grantees /\ ParseResource(wish.resource)
        /\ \/ /\ Granted(task[r].by, "administer", wish.resource)
              /\ Insert(<<new>>) /\ End(r)
           \/ /\ AsksGitHub(task[r].by, "administer", wish.resource)
              /\ task' = [task EXCEPT ![r] = [op |-> "granting", new |-> new]]
              /\ UNCHANGED <<grants, minted, begun>>
        /\ UNCHANGED <<people, groups, members, letters, places>>

\* GitHub has answered that the principal administers the repository.
CreateGrant(r) ==
    /\ At(r, "granting") /\ Insert(<<task[r].new>>)
    /\ End(r) /\ UNCHANGED <<people, groups, members, letters, places>>

RevokeGrant(b, g) ==
    /\ session[b] # Nobody /\ Granted(session[b], "administer", g.resource)
    /\ grants' = grants \ {g}
    /\ UNCHANGED <<people, groups, members, minted, letters, places>> /\ Still

AskRevoke(r, b, g) ==
    /\ session[b] # Nobody /\ AsksGitHub(session[b], "administer", g.resource)
    /\ Begin(r, [op |-> "revoking", grant |-> g])

RevokeLater(r) ==
    /\ At(r, "revoking") /\ grants' = grants \ {task[r].grant}
    /\ End(r) /\ UNCHANGED <<people, groups, members, minted, letters, places>>

-----------------------------------------------------------------------------
(* Invitations.                                                             *)

AskInvitation(r, b) == Administers(b) /\ Begin(r, [op |-> "invite", by |-> session[b]])

\* Inviting with grants is granting: each of them is decided, by the grants or
\* by an answer of GitHub, before the groups are looked up.
CreateInvitation(r, offer) ==
    /\ At(r, "invite") /\ sent < MaxInvitations
    /\ offer.groups \subseteq Living
    /\ \A g \in offer.grants : LET by == task[r].by IN
           \/ Granted(by, "administer", g.resource)
           \/ AsksGitHub(by, "administer", g.resource)
    /\ invitations' = invitations \cup
           {[id |-> sent + 1, redeemedBy |-> Nobody, expired |-> FALSE,
             email |-> offer.email, provider |-> offer.provider,
             groups |-> offer.groups, grants |-> offer.grants]}
    /\ sent' = sent + 1
    /\ End(r) /\ UNCHANGED <<people, access, places>>

Revocable(i) == i.redeemedBy = Nobody

RevokeInvitation(b, i) ==
    /\ Administers(b) /\ Revocable(i)
    /\ invitations' = invitations \ {i}
    /\ UNCHANGED <<people, access, sent, places>> /\ Still

Expire(i) ==
    /\ ~i.expired /\ invitations' = (invitations \ {i}) \cup {[i EXCEPT !.expired = TRUE]}
    /\ UNCHANGED <<people, access, sent, places>> /\ Still

-----------------------------------------------------------------------------
(* Source trees.                                                            *)

AskRegister(r, b) == Administers(b) /\ Begin(r, [op |-> "register"])

\* The row of a repository is found again, whatever its status.
Register(r, t) ==
    /\ At(r, "register") /\ trees' = [trees EXCEPT ![t] = "active"]
    /\ End(r) /\ UNCHANGED <<people, access, letters, open>>

Deregister(b, t) ==
    /\ Administers(b) /\ trees[t] # "unknown" /\ t \notin open
    /\ trees' = [trees EXCEPT ![t] = "deregistered"]
    /\ UNCHANGED <<people, access, letters, open>> /\ Still

\* A grant on a package of the tree is enough to carry a change set in it.
MayPropose(p, t) ==
    \/ Granted(p, "propose", TreeOf(t)) \/ AsksGitHub(p, "propose", TreeOf(t))
    \/ \E g \in GrantsFor(p) :
           /\ ActionImplies(g.action, "propose")
           /\ Len(g.resource) > 1 /\ g.resource[1] = t

\* The tree is looked at now, and the branch is made on GitHub before the row.
AskChangeSet(r, b, t) ==
    /\ session[b] # Nobody /\ trees[t] = "active" /\ MayPropose(session[b], t)
    /\ Begin(r, [op |-> "changeSet", tree |-> t])

CreateChangeSet(r) ==
    /\ At(r, "changeSet") /\ open' = open \cup {task[r].tree}
    /\ End(r) /\ UNCHANGED <<people, access, letters, trees>>

\* The last open change set of the tree is merged or abandoned.
CloseChangeSets(t) ==
    /\ t \in open /\ open' = open \ {t}
    /\ UNCHANGED <<people, access, letters, trees>> /\ Still

-----------------------------------------------------------------------------
Arrive(r, b) ==
    \/ \E intent \in {"signin", "link"}, token \in 0..sent : BeginFlow(r, b, intent, token)
    \/ \E p \in Principals : AskStatus(r, b, p)
    \/ AskGroup(r, b) \/ AskGrant(r, b) \/ AskInvitation(r, b) \/ AskRegister(r, b)
    \/ \E g \in Groups : AskRename(r, b, g) \/ AskMember(r, b, g)
    \/ \E g \in grants : AskRevoke(r, b, g)
    \/ \E t \in Trees : AskChangeSet(r, b, t)

Resume(r) ==
    \/ \E a \in Accounts : Link(r, a) \/ SignIn(r, a) \/ Enroll(r, a)
    \/ \E to \in {"active", "disabled"} : SetStatus(r, to)
    \/ \E g \in Groups, name \in Names : CreateGroup(r, g, name)
    \/ \E name \in Names : UpdateGroup(r, name)
    \/ \E p \in Principals, remove \in BOOLEAN : Member(r, p, remove)
    \/ \E grantee \in Grantees, wish \in Asked : ReadGrant(r, grantee, wish)
    \/ \E offer \in Offers : CreateInvitation(r, offer)
    \/ \E t \in Trees : Register(r, t)
    \/ CreateGrant(r) \/ RevokeLater(r) \/ CreateChangeSet(r) \/ GiveUp(r)

AtOnce(b) ==
    \/ EndSession(b)
    \/ \E a \in Accounts : Unlink(b, a)
    \/ \E g \in Groups : DeleteGroup(b, g)
    \/ \E g \in grants : RevokeGrant(b, g)
    \/ \E i \in invitations : RevokeInvitation(b, i)
    \/ \E t \in Trees : Deregister(b, t)

Next ==
    \/ \E r \in Requests : Resume(r) \/ \E b \in Browsers : Arrive(r, b)
    \/ \E b \in Browsers : AtOnce(b)
    \/ \E i \in invitations : Expire(i)
    \/ \E t \in Trees : CloseChangeSets(t)

Spec == Init /\ [][Next]_vars

-----------------------------------------------------------------------------
(* Properties.                                                              *)

\* Every principal has an identity to sign in with, every session a principal,
\* and the rows that name others name rows that are there.
TypeOK ==
    /\ status \in [Principals -> {"none", "active", "disabled"}]
    /\ holder \in [Accounts -> Known \cup {Nobody}]
    /\ \A p \in Known : \E a \in Accounts : holder[a] = p
    /\ session \in [Browsers -> Known \cup {Nobody}]
    /\ groups \in [Groups -> Names \cup {Unmade, Deleted}]
    /\ members \subseteq Living \X Known
    /\ open \subseteq {t \in Trees : trees[t] # "unknown"}

\* What the grants let a principal do.
Access(p) ==
    {may \in Verbs \X Resources : Granted(p, may[1], may[2])}

\* Making, renaming and deleting groups, signing in, linking and unlinking,
\* invitations and source trees leave everybody's access alone, also when a
\* handler finishes late: only grants, membership and standing change it
\* (routes/admin.ts:219-220).
AccessByGrantsOnly ==
    [][groups' # groups \/ trees' # trees \/ (holder' # holder /\ grants' = grants) =>
           \A p \in Known : Access(p)' = Access(p)]_vars

\* Nobody is enrolled whom policy does not let in: by the bootstrap list, by the
\* domain, or by an invitation that was open until then, is now hers alone, and
\* stays on record as hers (enroll.ts, routes/admin.ts:482).
EnrolmentIsPaidFor ==
    [][/\ \A i \in invitations : i.redeemedBy # Nobody =>
              \E j \in invitations' : j.id = i.id /\ j.redeemedBy = i.redeemedBy
       /\ status' # status => \A p \in Known' \ Known :
              \/ Enrollment = "open"
              \/ \E a \in Accounts : holder'[a] = p /\
                     (a \in Admins \/ (Enrollment = "domain-allowlist" /\ a \in Allowlisted))
              \/ \E i \in invitations, j \in invitations' :
                     i.id = j.id /\ i.redeemedBy = Nobody /\ j.redeemedBy = p]_vars

\* A grant takes nothing away: who comes to hold more, by a grant of her own or
\* by joining a group, may do whatever she could, whatever GitHub says.  The one
\* exception is the approval of a change she helped write (decide.ts:179-188).
GrantsOnlyAllow ==
    [][\A p \in Known : LET held == GrantsFor(p) more == GrantsFor(p)' IN
           held # more /\ held \subseteq more =>
               \A action \in Verbs, resource \in Resources, facts \in Facts :
                   Decide(held, action, resource, FALSE, facts) =>
                       Decide(more, action, resource, FALSE, facts)]_<<grants, members>>

=============================================================================
