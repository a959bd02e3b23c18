\* Nothing fails: three people, and one commit after the author's own.
SPECIFICATION Spec
CONSTANTS
    alice = alice
    bob = bob
    carol = carol
    price = price
    notes = notes
    People <- MCPeople
    Author = alice
    Editors = {alice, bob}
    Approvers = {bob, carol}
    RoleMembers = {carol}
    Files <- MCFiles
    Need <- MCNeed
    MaxCommits = 2
    MaxMishaps = 0
INVARIANTS
    MergedIsApproved
CHECK_DEADLOCK FALSE
