\* The author edits and merges, a collaborator edits, approves and merges; two
\* more commits, and one raw push, reset or failed call.  Or the timer beside two
\* requests, or beside one and two interventions on GitHub.  Or three accounts of
\* which the root is enrolled by the bootstrap list, two browsers, two handlers at
\* once, five that wait in all, one grant or two, and one invitation.  The edits
\* and the row stop once the change set is merged, or closed with its branch gone.
SPECIFICATION ConsoleSpec
CONSTANTS
    alice = alice
    bob = bob
    carol = carol
    price = price
    notes = notes
    People = {alice, bob}
    Author = alice
    Editors = {alice, bob}
    Approvers = {bob}
    RoleMembers = {bob}
    Files <- MCFiles
    Need <- MCNeed
    MaxCommits = 3
    MaxMishaps = 1
    Requests = {r1, r2}
    Timer = timer
    MaxPulls = 1
    MaxHead = 1
    MaxOutside = 2
    MaxFaults = 0
    root = root
    tree = tree
    shared = shared
    own = own
    crew = crew
    Principals = {1, 2, 3}
    Accounts = {root, alice, bob}
    GitHubUsers = {root}
    Verified = {alice, bob}
    Allowlisted = {}
    Admins = {root}
    Enrollment = "invite-only"
    Groups = {crew}
    Names = {"crew"}
    Browsers = {b1, b2}
    MaxGrants = 2
    MaxInvitations = 1
    MaxHandlers = 5
INVARIANTS
    EveryCommitIsSigned
    RowTellsTruth
PROPERTIES
    GrantsOnlyAllow
    AccessByGrantsOnly
    EnrolmentIsPaidFor
    NoSilentOverwrite
    ApprovedBySecondPerson
CHECK_DEADLOCK FALSE
