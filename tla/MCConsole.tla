------------------------------ MODULE MCConsole ------------------------------
(* The console: one of its change sets looked at from its two sides, the     *)
(* edits, approvals and the merge of its branch (ChangeSetEdits) and its row *)
(* under requests, the reconciler and GitHub (ChangeSetLifecycle), and the   *)
(* people who may work on it (Accounts).  Each keeps its own state; a        *)
(* behaviour is about the one that has the focus, and the others stay as     *)
(* they were at the start.  The row is looked at twice: under handlers, two  *)
(* requests at once and nobody on GitHub, and under outsiders, one request   *)
(* at a time and all the interventions of the bound.                         *)
EXTENDS MCChangeSetEdits, Sequences, FiniteSets

CONSTANTS
    Requests, Timer, MaxPulls, MaxHead, MaxOutside, MaxFaults,
    root, tree, shared, own, crew,
    Principals, Accounts, GitHubUsers, Verified, Allowlisted, Admins, Enrollment,
    Groups, Names, Browsers, MaxGrants, MaxInvitations, MaxHandlers

ASSUME RequestsAssumption == Timer \notin Requests
ASSUME PullsAssumption ==
    MaxPulls \in Nat \ {0} /\ MaxHead \in Nat \ {0} /\ MaxOutside \in Nat /\ MaxFaults \in Nat
ASSUME PrincipalsAreNumbered ==
    IsFiniteSet(Principals) /\ Principals = 1..Cardinality(Principals)

VARIABLES
    focus, branch, pulls, drift, record, diary, duty, truths, outside, faults,
    status, holder, session, groups, members, grants, invitations, trees, open,
    minted, sent, handling, begun

\* The components come with their theorems, which Console_proofs cites.
Life == INSTANCE ChangeSetLifecycle_proofs WITH row <- record, task <- duty

\* Who the root may invite, and the grants people think of.
Trees == {tree}
Packages == {shared, own}
Links == {<<own, shared>>}
Asked == {
    [action |-> "administer", resource |-> <<tree>>],
    [action |-> "propose", resource |-> <<tree, own>>]}
Offers == {
    [email |-> alice, provider |-> "any", groups |-> {},
     grants |-> {[action |-> "view", resource |-> <<tree>>]}],
    [email |-> alice, provider |-> "oidc", groups |-> {crew}, grants |-> {}]}
Who == INSTANCE Accounts_proofs WITH task <- handling

lifeVars == <<branch, pulls, drift, record, diary, duty, truths, outside, faults>>
whoVars ==
    <<status, holder, session, groups, members, grants, invitations, trees, open,
      minted, sent, handling, begun>>
\* Requests are alike: the one that comes alone is always the same one.
First == CHOOSE r \in Requests : TRUE
consoleVars == <<focus, vars, lifeVars, whoVars>>

ConsoleInit ==
    /\ focus \in {"edits", "handlers", "outsiders", "accounts"}
    /\ Init /\ Life!Init /\ Who!Init
    /\ focus # "edits" => commit[1].files = Files

EditsStep == focus = "edits" /\ Next /\ UNCHANGED <<focus, lifeVars, whoVars>>
LifecycleStep ==
    /\ focus \in {"handlers", "outsiders"} /\ Life!Next
    /\ focus = "handlers" => outside' = 0
    /\ focus = "outsiders" => \A r \in Requests \ {First} : duty'[r].pc = "idle"
    /\ UNCHANGED <<focus, vars, whoVars>>
AccountsStep ==
    /\ focus = "accounts" /\ Who!Next
    /\ \A r \in Requests \ {First} :
           handling[First].op = "idle" /\ handling[r].op = "idle" => handling'[r].op = "idle"
    /\ UNCHANGED <<focus, vars, lifeVars>>

ConsoleSpec == ConsoleInit /\ [][EditsStep \/ LifecycleStep \/ AccountsStep]_consoleVars

\* The row says what GitHub said, merged only of what was merged there, and the
\* diary tells of it: see ChangeSetLifecycle.
RowTellsTruth == Life!RowTellsTruth

\* Groups, names and identities come and go without access: see Accounts.
AccessByGrantsOnly == Who!AccessByGrantsOnly

\* Policy lets in whoever is enrolled: see Accounts.
EnrolmentIsPaidFor == Who!EnrolmentIsPaidFor

\* A grant takes nothing away: see Accounts.
GrantsOnlyAllow == Who!GrantsOnlyAllow
=============================================================================
