---------------------------- MODULE ChangeSetEdits ----------------------------
(***************************************************************************)
(* The contents of one proposed change set of the console server: edits     *)
(* that land as commits on its branch (src/change-sets.ts, edit), and the   *)
(* approvals that let it be merged (src/approvals.ts, the approve and merge *)
(* routes of src/routes/change-sets.ts).  The rows' own life is the subject *)
(* of ChangeSetLifecycle.                                                   *)
(*                                                                         *)
(* A commit is a number; its record says which files it touches and which   *)
(* commits it contains.  What planAt and compare return depends only on     *)
(* commits, never on the branch, so reading the head, checking the plan     *)
(* against it and building the commit are one step, and moving the branch   *)
(* is another.                                                              *)
(***************************************************************************)
EXTENDS Integers, FiniteSets

CONSTANTS
    People,        \* with at most one request in flight each
    Author,        \* who created the change set
    Editors,       \* the author and the collaborators
    Approvers,     \* who decide() lets approve
    RoleMembers,   \* the active members of the role the surfaces name
    Files,
    Need,          \* what the surfaces ask for a file: see Needs
    MaxCommits,    \* bound: commits made after the base
    MaxMishaps     \* bound: raw pushes, resets of the branch, failed calls

Needs == {"role", "second", "none"}
ASSUME PeopleAssumption ==
    /\ Author \in Editors
    /\ Editors \subseteq People /\ Approvers \subseteq People
    /\ RoleMembers \subseteq People
    /\ "git" \notin People
ASSUME FilesAssumption == Need \in [Files -> Needs]
ASSUME BoundsAssumption ==
    MaxCommits \in Nat \ {0} /\ MaxMishaps \in Nat

VARIABLES
    commit,      \* GitHub: the commits there are, a function on 0..n
    head,        \* GitHub: the branch, Gone once it is deleted
    merged,      \* GitHub: the commit whose content was merged, Gone for none
    row,         \* store: the state of the change set
    signed,      \* store: actors of "committed" entries of the diary
    approvals,   \* store: change_set_approvals
    task,        \* what each person's request is doing
    lost,        \* history: commits that landed without an answer
    mishaps      \* counter of the bound

github == <<commit, head, merged>>
store == <<row, signed, approvals>>
vars == <<commit, head, merged, row, signed, approvals, task, lost, mishaps>>

Gone == -1
Base == 0
Shas == 0..MaxCommits
Attempts == 1..3

\* History includes the commit itself; raw commits are git's own business.
Commits == [history: SUBSET Shas, files: SUBSET Files, by: People \cup {"git"}]
Labels == {"idle", "readHead", "move", "record", "addApproval", "readPolicy",
           "judge", "merge", "deleteMerged", "recordMerge", "withdraw"}
Tasks == [pc: Labels, pin: Shas, plan: SUBSET Files,
          attempt: Attempts, sha: Shas, files: SUBSET Files]
Idle == [pc |-> "idle", pin |-> Base, plan |-> {}, attempt |-> 1,
         sha |-> Base, files |-> {}]

At(p, label) == task[p].pc = label
Goto(p, label) == task' = [task EXCEPT ![p].pc = label]
Become(p, t) == task' = [task EXCEPT ![p] = t]

Known == DOMAIN commit
History(c) == commit[c].history
\* compare: the files changed on c since the merge base with b.
Changed(b, c) == UNION {commit[n].files : n \in History(c) \ History(b)}

-----------------------------------------------------------------------------
(* Edits.                                                                   *)

\* A save, computed by the client against a commit the branch has shown.
StartEdit(p) ==
    /\ At(p, "idle") /\ p \in Editors /\ row = "proposed"
    /\ \E pin \in Known, plan \in (SUBSET Files) \ {{}} :
         Become(p, [Idle EXCEPT !.pc = "readHead", !.pin = pin, !.plan = plan])
    /\ UNCHANGED <<github, store, lost, mishaps>>

\* planAt: what the plan touches at the pin, and may touch at another head.
\* Whole files are the same plan everywhere, operations may plan other files.
PlansAt(t, h) == IF h = t.pin THEN {t.plan} ELSE SUBSET Files
\* Seeded defect: a retry trusts the check of the first attempt.
OverlapsAtFirst(t, h) ==
    t.attempt = 1 /\ h # t.pin /\ Changed(t.pin, h) \cap t.plan # {}

\* The staleness check, against the plan as the client computed it.
Overlaps(t, h) == h # t.pin /\ Changed(t.pin, h) \cap t.plan # {}
CanCommit == Cardinality(Known) <= MaxCommits
Fresh == Cardinality(Known)
Made(parent, files, by) ==
    [history |-> History(parent) \cup {Fresh}, files |-> files, by |-> by]
\* A commit gets its number when the branch first points at it; one that never
\* lands is seen by nobody.
Land(c) ==
    /\ commit' = [n \in Known \cup {Fresh} |-> IF n \in Known THEN commit[n] ELSE c]
    /\ head' = Fresh

ReadHead(p) ==
    /\ At(p, "readHead")
    /\ LET t == task[p] IN
       IF head = Gone THEN Become(p, Idle)
       ELSE IF Overlaps(t, head) THEN Become(p, Idle)
       ELSE \E files \in PlansAt(t, head) :
              Become(p, IF files = {} THEN Idle
                        ELSE [t EXCEPT !.pc = "move", !.sha = head, !.files = files])
    /\ UNCHANGED <<github, store, lost, mishaps>>

\* The third refusal ends the edit.
Retried(t) == IF t.attempt = 3 THEN Idle
              ELSE [t EXCEPT !.pc = "readHead", !.attempt = t.attempt + 1,
                             !.sha = Base, !.files = {}]

\* updateRef: GitHub refuses what is not a fast forward, and a branch that is
\* gone.
Move(p) ==
    /\ At(p, "move")
    /\ LET t == task[p] IN
       \/ /\ head \in History(t.sha) /\ CanCommit
          /\ Land(Made(t.sha, t.files, p))
          /\ Become(p, [Idle EXCEPT !.pc = "record", !.sha = Fresh])
       \/ /\ head \notin History(t.sha)
          /\ Become(p, Retried(t))
          /\ UNCHANGED <<commit, head>>
    /\ UNCHANGED <<merged, store, lost, mishaps>>

\* Seeded defect: the diary entry waits for the lint, which may throw.
RecordAfterLint(p) ==
    /\ At(p, "record")
    /\ signed' \in {signed, signed \cup {p}}
    /\ Become(p, Idle)
    /\ UNCHANGED <<github, row, approvals, lost, mishaps>>

\* The "committed" entry names the actor; the lint that follows changes nothing.
Record(p) ==
    /\ At(p, "record")
    /\ signed' = signed \cup {p}
    /\ Become(p, Idle)
    /\ UNCHANGED <<github, row, approvals, lost, mishaps>>

-----------------------------------------------------------------------------
(* Approvals and the merge.                                                 *)

\* contributorsOf: from the console's own records.
Contributors == {Author} \cup signed

\* decide() refuses a contributor, as the diary has them now; then the token
\* is awaited.
StartApprove(p) ==
    /\ At(p, "idle") /\ row = "proposed"
    /\ p \in Approvers \ Contributors
    /\ Goto(p, "addApproval")
    /\ UNCHANGED <<github, store, lost, mishaps>>

AddApproval(p) ==
    /\ At(p, "addApproval")
    /\ approvals' = approvals \cup {p}
    /\ Goto(p, "readPolicy")
    /\ UNCHANGED <<github, row, signed, lost, mishaps>>

\* The merge route, for a console that acts with the App's token.
StartMerge(p) ==
    /\ At(p, "idle") /\ row = "proposed"
    /\ Goto(p, "readPolicy")
    /\ UNCHANGED <<github, store, lost, mishaps>>

\* approvalPolicy: the files on the branch against the base; no files stand for
\* a branch that is gone.
ReadPolicy(p) ==
    /\ At(p, "readPolicy")
    /\ Become(p, [Idle EXCEPT !.pc = "judge",
                              !.files = IF head = Gone THEN {} ELSE Changed(Base, head)])
    /\ UNCHANGED <<github, store, lost, mishaps>>

\* Without files, and for a file no surface covers, the deployment's default.
Requirements(files) ==
    {Need[f] : f \in files} \cup (IF files = {} THEN {"second"} ELSE {})

\* Seeded defect: approvals count whoever they are from.
CountedWithContributors(approved, contributors) == approved

\* Contributors never count toward any requirement.
Counted(approved, contributors) == approved \ contributors

\* policyStatus.
Satisfied(files) ==
    LET counted == Counted(approvals, Contributors) IN
    /\ "second" \in Requirements(files) => counted # {}
    /\ "role" \in Requirements(files) => counted \cap RoleMembers # {}

Judge(p) ==
    /\ At(p, "judge")
    /\ IF Satisfied(task[p].files) THEN Become(p, [Idle EXCEPT !.pc = "merge"])
                                    ELSE Become(p, Idle)
    /\ UNCHANGED <<github, store, lost, mishaps>>

\* mergePull: GitHub merges the head of the branch as it is by now, if there is
\* anything to merge.
Merge(p) ==
    /\ At(p, "merge")
    /\ IF merged # Gone \/ head \in {Gone, Base}
       THEN Become(p, Idle) /\ UNCHANGED merged
       ELSE merged' = head /\ Goto(p, "deleteMerged")
    /\ UNCHANGED <<commit, head, store, lost, mishaps>>

\* The pull request is read again and its branch deleted, with whatever landed on
\* it meanwhile; if that fails the branch stays.
DeleteMerged(p) ==
    /\ At(p, "deleteMerged")
    /\ head' \in {head, Gone}
    /\ Goto(p, "recordMerge")
    /\ UNCHANGED <<commit, merged, store, lost, mishaps>>

RecordMerge(p) ==
    /\ At(p, "recordMerge")
    /\ row' = "merged"
    /\ Become(p, Idle)
    /\ UNCHANGED <<github, signed, approvals, lost, mishaps>>

\* The reconciler, when the console did not live to record its merge.
Reconcile ==
    /\ row = "proposed" /\ merged # Gone
    /\ row' = "merged"
    /\ UNCHANGED <<github, signed, approvals, task, lost, mishaps>>

\* Withdrawing: the state was read when the request came in.
StartWithdraw(p) ==
    /\ At(p, "idle") /\ row = "proposed"
    /\ Goto(p, "withdraw")
    /\ UNCHANGED <<github, store, lost, mishaps>>

Withdraw(p) ==
    /\ At(p, "withdraw")
    /\ approvals' = approvals \ {p}
    /\ Become(p, Idle)
    /\ UNCHANGED <<github, row, signed, lost, mishaps>>

-----------------------------------------------------------------------------
Mishap == mishaps < MaxMishaps /\ mishaps' = mishaps + 1

\* A call fails, its answer is lost, or the process dies.
Fail(p) ==
    /\ ~At(p, "idle") /\ Mishap
    /\ lost' = IF At(p, "record") THEN lost \cup {task[p].sha} ELSE lost
    /\ Become(p, Idle)
    /\ UNCHANGED <<github, store>>

\* Somebody edits in vim and pushes.
PushOutside ==
    /\ head # Gone /\ Mishap /\ CanCommit
    /\ \E files \in (SUBSET Files) \ {{}} : Land(Made(head, files, "git"))
    /\ UNCHANGED <<merged, store, task, lost>>

\* Somebody resets the branch to an earlier commit and pushes with force.
ResetOutside ==
    /\ head # Gone /\ Mishap
    /\ head' \in History(head) \ {head}
    /\ UNCHANGED <<commit, merged, store, task, lost>>

\* The author has made one commit and submitted.
Init ==
    /\ \E files \in (SUBSET Files) \ {{}} :
         commit = [n \in {Base, 1} |->
                     [history |-> 0..n, files |-> IF n = Base THEN {} ELSE files,
                      by |-> IF n = Base THEN "git" ELSE Author]]
    /\ head = 1 /\ merged = Gone
    /\ row = "proposed" /\ signed = {Author} /\ approvals = {}
    /\ task = [p \in People |-> Idle]
    /\ lost = {}
    /\ mishaps = 0

Next ==
    \/ \E p \in People :
         \/ StartEdit(p) \/ ReadHead(p) \/ Move(p) \/ Record(p)
         \/ StartApprove(p) \/ AddApproval(p) \/ StartMerge(p) \/ ReadPolicy(p)
         \/ Judge(p) \/ Merge(p) \/ DeleteMerged(p) \/ RecordMerge(p)
         \/ StartWithdraw(p) \/ Withdraw(p) \/ Fail(p)
    \/ Reconcile \/ PushOutside \/ ResetOutside

Spec == Init /\ [][Next]_vars

-----------------------------------------------------------------------------
\* The variables keep their types; an edit makes three attempts at most.
TypeOK ==
    /\ Known \subseteq Shas
    /\ \A n \in Known : commit[n] \in Commits
    /\ head \in Known \cup {Gone} /\ merged \in Known \cup {Gone}
    /\ row \in {"proposed", "merged"}
    /\ signed \subseteq People /\ approvals \subseteq People
    /\ task \in [People -> Tasks]
    /\ lost \subseteq Known
    /\ mishaps \in 0..MaxMishaps

\* An edit that lands has seen everything it could overwrite or take away: what
\* its new commit is built on, and what the branch holds at that moment, beyond
\* the pin its client loaded, touches none of the files of its plan, however often
\* the write was retried and whoever pushed, reset or edited in between.
NoSilentOverwrite ==
    [][\A p \in People : Move(p) /\ head' # head =>
          \A k \in (History(task[p].sha) \cup History(head)) \ History(task[p].pin) :
              commit[k].files \cap task[p].plan = {}]_vars

\* Every commit of the console has its author among the contributors, unless
\* the answer is still under way or was lost.
EveryCommitIsSigned ==
    \A n \in Known \ lost :
        \/ commit[n].by = "git"
        \/ commit[n].by \in Contributors
        \/ At(commit[n].by, "record") /\ task[commit[n].by].sha = n

\* What a merge is allowed on: each file it read that asks for an approval has
\* one from somebody who wrote no commit that is on the branch at that moment,
\* but for the commits the console does not know of yet.
ApprovedBySecondPerson ==
    [][\A p \in People : Judge(p) /\ task'[p].pc = "merge" =>
          \A f \in task[p].files : Need[f] # "none" =>
              \E q \in approvals :
                  /\ Need[f] = "role" => q \in RoleMembers
                  /\ head # Gone => \A n \in History(head) \ lost :
                       commit[n].by = q => At(q, "record") /\ task[q].sha = n]_vars

\* The header of src/approvals.ts: a change set "must satisfy every touched
\* surface's requirement" and "contributors never count".  What was merged is
\* covered by approvals of people who wrote none of it.
MergedIsApproved ==
    merged # Gone =>
        \A f \in Changed(Base, merged) : Need[f] # "none" =>
            \E q \in approvals :
                /\ Need[f] = "role" => q \in RoleMembers
                /\ \A n \in History(merged) : commit[n].by # q
=============================================================================
