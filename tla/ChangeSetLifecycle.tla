------------------------- MODULE ChangeSetLifecycle -------------------------
(***************************************************************************)
(* The life of one change set of the console server: one branch, its pull   *)
(* requests, and one row of the store.  Request handlers                    *)
(* (src/change-sets.ts, src/routes/change-sets.ts) and passes of the        *)
(* reconciler (src/reconciler.ts) interleave at every await; the store is   *)
(* synchronous, so what a handler writes between two awaits is one step.    *)
(*                                                                         *)
(* GitHub is external: people push, open, close, reopen and merge pull      *)
(* requests and delete branches there without the console.  A commit is     *)
(* abstracted to its number on the branch.                                  *)
(***************************************************************************)
EXTENDS Integers, FiniteSets

CONSTANTS
    Requests,     \* HTTP requests in flight at a time
    Timer,        \* the interval timer of the reconciler
    MaxPulls,     \* bound: pull requests ever opened for the branch
    MaxHead,      \* bound: commits on the branch
    MaxOutside,   \* bound: interventions on GitHub, not through the console
    MaxFaults     \* bound: failed calls, crashes, losses of the store

ASSUME ProcessesAssumption == Timer \notin Requests
ASSUME BoundsAssumption ==
    /\ MaxPulls \in Nat \ {0}
    /\ MaxHead \in Nat \ {0}
    /\ MaxOutside \in Nat
    /\ MaxFaults \in Nat

VARIABLES
    branch,     \* GitHub: the head of rototo-console/<id>, 0 when there is none
    pulls,      \* GitHub: the pull requests whose head is the branch
    drift,      \* GitHub: the branch against its base
    row,        \* store: the change_sets row
    diary,      \* store: the states its change_set_events tell of
    task,       \* what each request, and the timer, is doing
    truths,     \* history: what GitHub has said since each pass began
    outside, faults   \* counters of the bounds

github == <<branch, pulls, drift>>
store == <<row, diary>>
counters == <<outside, faults>>
vars == <<branch, pulls, drift, row, diary, task, truths, outside, faults>>

Processes == Requests \cup {Timer}
PullIds == 1..MaxPulls
Heads == 0..MaxHead
Null == 0     \* no commit, no pull request

OpenStates == {"draft", "proposed"}
TerminalStates == {"merged", "abandoned"}
States == OpenStates \cup TerminalStates

Pulls == [state: {"none", "open", "closed", "merged"}, head: Heads]
Rows == [state: States \cup {"none"}, pr: PullIds \cup {Null}, head: Heads,
         behind: BOOLEAN, conflicted: BOOLEAN]
NoPull == [state |-> "none", head |-> Null]
NoRow == [state |-> "none", pr |-> Null, head |-> Null, behind |-> FALSE,
          conflicted |-> FALSE]

\* The columns of a row that its reader goes on to use.
Snaps == [state: States \cup {"none"}, pr: PullIds \cup {Null}, head: Heads]
SnapOf(r) == [state |-> r.state, pr |-> r.pr, head |-> r.head]
NoSnap == SnapOf(NoRow)

Labels == {"idle", "insert", "findHead", "createPull", "recordSubmit",
           "findPull", "closePull", "deleteRef", "recordAbandon", "mergePull",
           "deleteMerged", "recordMerge", "readBranch", "readPull", "compare",
           "write", "drillPull", "drillInsert"}

\* What a task holds across its awaits: the row it read, and what GitHub said.
Tasks == [pc: Labels, snap: Snaps, head: Heads, number: PullIds \cup {Null},
          pull: Pulls, dirty: BOOLEAN, behind: BOOLEAN]
Idle == [pc |-> "idle", snap |-> NoSnap, head |-> Null, number |-> Null,
         pull |-> NoPull, dirty |-> FALSE, behind |-> FALSE]

PassLabels == {"readBranch", "readPull", "compare", "write"}
InPass(w) == task[w].pc \in PassLabels

-----------------------------------------------------------------------------
(* GitHub, as the calls of src/git.ts see it.                               *)

Opened(p) == {n \in PullIds : p[n].state # "none"}
\* pullForBranch: the newest pull request in any state.
Newest(p) == IF Opened(p) = {} THEN Null
             ELSE CHOOSE n \in Opened(p) : \A k \in Opened(p) : k <= n
HasOpenPull(p) == \E n \in PullIds : p[n].state = "open"
PullAt(p, n) == IF n = Null THEN NoPull ELSE p[n]

\* The pull request a task looks at: by the number of its row, or the newest.
Tracked(p, r) == IF r.pr # Null THEN r.pr ELSE Newest(p)

\* What the facts on GitHub say a change set is, by the design: merged and
\* closed pull requests decide, then an open one, then the branch.
Truth(b, pull) ==
    CASE pull.state = "merged" -> "merged"
      [] pull.state = "closed" -> "abandoned"
      [] pull.state = "open"   -> "proposed"
      [] pull.state = "none"   -> IF b = Null THEN "abandoned" ELSE "draft"

\* GitHub changes, and every pass under way could have seen it.
GitHubBecomes(b, p) ==
    /\ branch' = b
    /\ pulls' = p
    /\ truths' = [w \in Processes |->
                    IF InPass(w)
                    THEN truths[w] \cup
                         {Truth(b, PullAt(p, Tracked(p, task[w].snap)))}
                    ELSE truths[w]]

\* A pull request follows its branch while it is open.
Pushed(p, b) == [n \in PullIds |-> IF p[n].state = "open"
                                   THEN [p[n] EXCEPT !.head = b] ELSE p[n]]
WithPull(p) == [p EXCEPT ![Newest(p) + 1] = [state |-> "open", head |-> branch]]
CanOpenPull == branch # Null /\ ~HasOpenPull(pulls) /\ Newest(pulls) < MaxPulls
\* Deleting the head branch may close the open pull request on it.
Closed(p) == [n \in PullIds |-> IF p[n].state = "open"
                                THEN [p[n] EXCEPT !.state = "closed"] ELSE p[n]]

Outside ==
    /\ outside < MaxOutside
    /\ outside' = outside + 1
    /\ UNCHANGED <<row, diary, task, faults>>

\* A commit lands on the branch: an edit in the console, or a raw push.  After
\* a deletion a push creates the branch again.
Push ==
    /\ row.state # "none" \/ branch # Null \/ Opened(pulls) # {}
    /\ branch < MaxHead
    /\ GitHubBecomes(branch + 1, Pushed(pulls, branch + 1))
    /\ UNCHANGED drift
    /\ Outside

BaseMoves ==
    /\ drift' \in {"none", "behind", "dirty"} \ {drift}
    /\ UNCHANGED <<branch, pulls, truths>>
    /\ Outside

OpenPullOutside ==
    /\ CanOpenPull
    /\ GitHubBecomes(branch, WithPull(pulls))
    /\ UNCHANGED drift
    /\ Outside

TogglePullOutside ==
    /\ \E n \in PullIds :
         \/ /\ pulls[n].state = "open"
            /\ GitHubBecomes(branch, [pulls EXCEPT ![n].state = "closed"])
         \/ /\ pulls[n].state = "closed"
            /\ branch # Null /\ ~HasOpenPull(pulls)
            /\ GitHubBecomes(branch, [pulls EXCEPT ![n] = [state |-> "open", head |-> branch]])
    /\ UNCHANGED drift
    /\ Outside

\* The merge button, with or without delete-branch-on-merge.
MergePullOutside ==
    /\ branch # Null /\ drift # "dirty"
    /\ \E n \in PullIds, b \in {branch, Null} :
         /\ pulls[n].state = "open"
         /\ GitHubBecomes(b, [pulls EXCEPT ![n].state = "merged"])
    /\ UNCHANGED drift
    /\ Outside

DeleteBranchOutside ==
    /\ branch # Null
    /\ \E p \in {pulls, Closed(pulls)} : GitHubBecomes(Null, p)
    /\ UNCHANGED drift
    /\ Outside

-----------------------------------------------------------------------------
(* Steps of tasks.  Each one is a call to GitHub as it takes effect, or the *)
(* code that runs to the next call once the answer is there.                *)

At(w, label) == task[w].pc = label
Goto(w, label) == task' = [task EXCEPT ![w].pc = label]
Become(w, t) == task' = [task EXCEPT ![w] = t]
Finish(w) ==
    /\ Become(w, Idle)
    /\ truths' = [truths EXCEPT ![w] = {}]
Quiet == UNCHANGED counters

\* reconcile() with the row the caller holds: a terminal one is returned as it
\* is, and a missing one throws.
BeginPass(w, r) ==
    IF r.state \in OpenStates
    THEN /\ Become(w, [Idle EXCEPT !.pc = "readBranch", !.snap = SnapOf(r)])
         /\ truths' = [truths EXCEPT ![w] =
                          {Truth(branch, PullAt(pulls, Tracked(pulls, r)))}]
    ELSE Finish(w)

\* create: the branch first, then the row; the id is fresh, so no other
\* request knows it before the row is there.
CreateBranch(w) ==
    /\ At(w, "idle")
    /\ row.state = "none" /\ branch = Null /\ Opened(pulls) = {}
    /\ \A v \in Requests : At(v, "idle")
    /\ GitHubBecomes(1, pulls)
    /\ Goto(w, "insert")
    /\ UNCHANGED <<drift, row, diary>> /\ Quiet

\* The id is the primary key of change_sets.
Inserted(state) ==
    /\ row' = [NoRow EXCEPT !.state = state]
    /\ diary' = diary \cup {state}

InsertRow(w) ==
    /\ At(w, "insert")
    /\ IF row.state = "none" THEN Inserted("draft") ELSE UNCHANGED store
    /\ Become(w, Idle)
    /\ UNCHANGED <<github, truths>> /\ Quiet

\* submit: the row was read when the request came in, several awaits ago.
StartSubmit(w) ==
    /\ At(w, "idle") /\ row.state = "draft"
    /\ Goto(w, "findHead")
    /\ UNCHANGED <<github, store, truths>> /\ Quiet

FindHead(w) ==
    /\ At(w, "findHead")
    /\ IF branch = Null THEN Become(w, Idle) ELSE Goto(w, "createPull")
    /\ UNCHANGED <<github, store, truths>> /\ Quiet

\* GitHub refuses without a branch, and while a pull request is open.
CreatePull(w) ==
    /\ At(w, "createPull")
    /\ \/ /\ CanOpenPull
          /\ GitHubBecomes(branch, WithPull(pulls))
          /\ Goto(w, "recordSubmit")
       \/ /\ branch = Null \/ HasOpenPull(pulls)
          /\ Become(w, Idle)
          /\ UNCHANGED <<branch, pulls, truths>>
    /\ UNCHANGED <<drift, store>> /\ Quiet

Recorded(state) ==
    /\ row' = [row EXCEPT !.state = state]
    /\ diary' = diary \cup {state}

\* The state, the diary, and at once a pass with the fresh row.
RecordSubmit(w) ==
    /\ At(w, "recordSubmit")
    /\ Recorded("proposed")
    /\ BeginPass(w, row')
    /\ UNCHANGED github /\ Quiet

\* abandon: also for a row whose pull request is not known yet.
StartAbandon(w) ==
    /\ At(w, "idle") /\ row.state \in OpenStates
    /\ Become(w, [Idle EXCEPT !.pc = "findPull", !.snap = SnapOf(row)])
    /\ UNCHANGED <<github, store, truths>> /\ Quiet

FindPull(w) ==
    /\ At(w, "findPull")
    /\ LET n == Tracked(pulls, task[w].snap)
           open == PullAt(pulls, n).state = "open"
       IN Become(w, IF open THEN [Idle EXCEPT !.pc = "closePull", !.number = n]
                            ELSE [Idle EXCEPT !.pc = "deleteRef"])
    /\ UNCHANGED <<github, store, truths>> /\ Quiet

\* Closing a pull request that is closed or merged changes nothing.
ClosePull(w) ==
    /\ At(w, "closePull")
    /\ LET n == task[w].number
       IN GitHubBecomes(branch, IF pulls[n].state = "open"
                                THEN [pulls EXCEPT ![n].state = "closed"] ELSE pulls)
    /\ Become(w, [Idle EXCEPT !.pc = "deleteRef"])
    /\ UNCHANGED <<drift, store>> /\ Quiet

DeleteRef(w) ==
    /\ At(w, "deleteRef")
    /\ \E p \in {pulls, Closed(pulls)} : GitHubBecomes(Null, p)
    /\ Goto(w, "recordAbandon")
    /\ UNCHANGED <<drift, store>> /\ Quiet

RecordAbandon(w) ==
    /\ At(w, "recordAbandon")
    /\ Recorded("abandoned")
    /\ Become(w, Idle)
    /\ UNCHANGED <<github, truths>> /\ Quiet

\* merge, and the end of approve: the policy is ChangeSetEdits' subject, here
\* it lets the request through.
StartMerge(w) ==
    /\ At(w, "idle") /\ row.state = "proposed" /\ row.pr # Null
    /\ Become(w, [Idle EXCEPT !.pc = "mergePull", !.number = row.pr])
    /\ UNCHANGED <<github, store, truths>> /\ Quiet

MergePull(w) ==
    /\ At(w, "mergePull")
    /\ LET n == task[w].number
       IN IF pulls[n].state = "open" /\ branch # Null /\ drift # "dirty"
          THEN /\ GitHubBecomes(branch, [pulls EXCEPT ![n].state = "merged"])
               /\ Become(w, [Idle EXCEPT !.pc = "deleteMerged"])
          ELSE /\ Become(w, Idle)
               /\ UNCHANGED <<branch, pulls, truths>>
    /\ UNCHANGED <<drift, store>> /\ Quiet

\* The deletion of the merged branch is best effort.
DeleteMerged(w) ==
    /\ At(w, "deleteMerged")
    /\ \/ \E p \in {pulls, Closed(pulls)} : GitHubBecomes(Null, p)
       \/ UNCHANGED <<branch, pulls, truths>>
    /\ Goto(w, "recordMerge")
    /\ UNCHANGED <<drift, store>> /\ Quiet

\* No state is written here: the pass that follows writes what GitHub says.
RecordMerge(w) ==
    /\ At(w, "recordMerge")
    /\ diary' = diary \cup {"merged"}
    /\ BeginPass(w, row)
    /\ UNCHANGED <<github, row>> /\ Quiet

-----------------------------------------------------------------------------
(* A pass of the reconciler: two reads of GitHub, one comparison, one write. *)

\* Seeded defect: the work list leaves the drafts out.
StartSweepOfProposed(w) ==
    /\ At(w, "idle") /\ row.state = "proposed"
    /\ BeginPass(w, row)
    /\ UNCHANGED <<github, store>> /\ Quiet

\* The timer and every webhook list the open rows; then the token is awaited.
StartSweep(w) ==
    /\ At(w, "idle") /\ row.state \in OpenStates
    /\ BeginPass(w, row)
    /\ UNCHANGED <<github, store>> /\ Quiet

ReadBranch(w) ==
    /\ At(w, "readBranch")
    /\ Become(w, [task[w] EXCEPT !.pc = "readPull", !.head = branch])
    /\ UNCHANGED <<github, store, truths>> /\ Quiet

\* Seeded defect: a branch that is gone is taken for an abandonment before the
\* pull request is looked at.
VerdictBranchFirst(head, pull, known) ==
    IF head = Null THEN "abandoned"
    ELSE IF pull.state = "merged" THEN "merged"
    ELSE IF pull.state = "closed" THEN "abandoned"
    ELSE IF pull.state = "open" THEN "proposed"
    ELSE known

\* The four states, from what the two reads returned; without a pull request,
\* and with a branch, the state stays what the caller's row says.
Verdict(head, pull, known) ==
    IF pull.state = "merged" THEN "merged"
    ELSE IF pull.state = "closed" THEN "abandoned"
    ELSE IF pull.state = "open" THEN "proposed"
    ELSE IF head = Null THEN "abandoned"
    ELSE known
Decided(w) == Verdict(task[w].head, task[w].pull, task[w].snap.state)

ReadPull(w) ==
    /\ At(w, "readPull")
    /\ LET n == Tracked(pulls, task[w].snap)
           pull == PullAt(pulls, n)
           open == Verdict(task[w].head, pull, task[w].snap.state) \in OpenStates
       IN Become(w, [task[w] EXCEPT
                       !.pc = IF open /\ task[w].head # Null THEN "compare" ELSE "write",
                       !.number = n, !.pull = pull,
                       !.dirty = (open /\ pull.state = "open" /\ drift = "dirty")])
    /\ UNCHANGED <<github, store, truths>> /\ Quiet

Compare(w) ==
    /\ At(w, "compare")
    /\ Become(w, [task[w] EXCEPT !.pc = "write", !.behind = (drift # "none")])
    /\ UNCHANGED <<github, store, truths>> /\ Quiet

\* a ?? b ?? c
FirstOf(a, b, c) == IF a # Null THEN a ELSE IF b # Null THEN b ELSE c

\* The number of the row the caller held is the number of the pull request read.
\* updateChangeSetObserved: no condition on what the row has become meanwhile.
Write(w) ==
    /\ At(w, "write")
    /\ row' = [state |-> Decided(w),
               pr |-> task[w].number,
               head |-> FirstOf(task[w].head, task[w].pull.head, task[w].snap.head),
               behind |-> task[w].behind, conflicted |-> task[w].dirty]
    /\ diary' = IF Decided(w) # task[w].snap.state THEN diary \cup {Decided(w)}
                                                   ELSE diary
    /\ Finish(w)
    /\ UNCHANGED github /\ Quiet

-----------------------------------------------------------------------------
(* The fire drill, which rebuilds a lost store from GitHub.                 *)

ListBranches(w) ==
    /\ At(w, "idle") /\ branch # Null
    /\ Goto(w, "drillPull")
    /\ UNCHANGED <<github, store, truths>> /\ Quiet

DrillPull(w) ==
    /\ At(w, "drillPull")
    /\ Become(w, [task[w] EXCEPT !.pc = "drillInsert",
                                 !.pull = PullAt(pulls, Newest(pulls))])
    /\ UNCHANGED <<github, store, truths>> /\ Quiet

\* A pull request decides, and the branch alone is a draft.
Rebuilt(pull) ==
    CASE pull.state = "none" -> "draft"
      [] pull.state = "merged" -> "merged"
      [] pull.state = "open" -> "proposed"
      [] OTHER -> "abandoned"

DrillInsert(w) ==
    /\ At(w, "drillInsert")
    /\ IF row.state = "none" THEN Inserted(Rebuilt(task[w].pull)) ELSE UNCHANGED store
    /\ Become(w, Idle)
    /\ UNCHANGED <<github, truths>> /\ Quiet

-----------------------------------------------------------------------------
(* A call fails, its answer is lost, or the process dies: the task is gone, *)
(* and what it had done stays done.                                         *)
Fail(w) ==
    /\ ~At(w, "idle") /\ faults < MaxFaults
    /\ faults' = faults + 1
    /\ Finish(w)
    /\ UNCHANGED <<github, store, outside>>

\* The database is lost while the server is down.
LoseStore ==
    /\ row.state # "none" /\ faults < MaxFaults
    /\ faults' = faults + 1
    /\ row' = NoRow /\ diary' = {}
    /\ task' = [w \in Processes |-> Idle]
    /\ truths' = [w \in Processes |-> {}]
    /\ UNCHANGED <<github, outside>>

Init ==
    /\ branch = Null
    /\ pulls = [n \in PullIds |-> NoPull]
    /\ drift = "none"
    /\ row = NoRow
    /\ diary = {}
    /\ task = [w \in Processes |-> Idle]
    /\ truths = [w \in Processes |-> {}]
    /\ outside = 0 /\ faults = 0

PassStep(w) == ReadBranch(w) \/ ReadPull(w) \/ Compare(w) \/ Write(w)
RequestStep(w) ==
    \/ InsertRow(w) \/ FindHead(w) \/ CreatePull(w) \/ RecordSubmit(w)
    \/ FindPull(w) \/ ClosePull(w) \/ DeleteRef(w) \/ RecordAbandon(w)
    \/ MergePull(w) \/ DeleteMerged(w) \/ RecordMerge(w)
    \/ DrillPull(w) \/ DrillInsert(w)
StartRequest(w) ==
    \/ CreateBranch(w) \/ StartSubmit(w) \/ StartAbandon(w) \/ StartMerge(w)
    \/ StartSweep(w) \/ ListBranches(w)
OutsideStep ==
    \/ Push \/ BaseMoves \/ OpenPullOutside \/ TogglePullOutside
    \/ MergePullOutside \/ DeleteBranchOutside

Next ==
    \/ \E w \in Requests : StartRequest(w) \/ RequestStep(w)
    \/ StartSweep(Timer)
    \/ \E w \in Processes : PassStep(w) \/ Fail(w)
    \/ OutsideStep
    \/ LoseStore

\* Calls are answered or fail, and the timer fires for as long as the server
\* runs; nobody has to send a request.
Fairness ==
    /\ WF_vars(StartSweep(Timer))
    /\ \A w \in Processes : WF_vars(PassStep(w))
    /\ \A w \in Requests : WF_vars(RequestStep(w))

Spec == Init /\ [][Next]_vars
FairSpec == Spec /\ Fairness

-----------------------------------------------------------------------------
\* The variables keep their types; the diary tells of states there are.
TypeOK ==
    /\ branch \in Heads /\ pulls \in [PullIds -> Pulls]
    /\ drift \in {"none", "behind", "dirty"}
    /\ row \in Rows /\ diary \subseteq States
    /\ task \in [Processes -> Tasks]
    /\ truths \in [Processes -> SUBSET States]
    /\ outside \in 0..MaxOutside /\ faults \in 0..MaxFaults

\* reconcile() reads the branch and the pull request at two moments and writes
\* at a third.  What it is about to write was true of both at one moment since
\* the pass began: no merge that deletes the branch between the two reads is
\* taken for an abandonment.
VerdictsWereTrue ==
    \A w \in Processes : At(w, "write") => Decided(w) \in truths[w]

\* A row that says merged had its change merged on GitHub, whichever handlers
\* and late passes have written the row since.
MergedMeansMerged ==
    row.state = "merged" => \E n \in PullIds : pulls[n].state = "merged"

\* The diary has an entry for the state the row is in, although a pass makes one
\* only when its verdict differs from the row its caller held, which may be old.
DiaryTellsState == row.state # "none" => row.state \in diary

\* The row, its diary and what is about to be written to them.
RowTellsTruth == VerdictsWereTrue /\ MergedMeansMerged /\ DiaryTellsState

\* The observed columns against GitHub.
MatchesGitHub ==
    LET n == Tracked(pulls, row) IN
    /\ row.state = Truth(branch, PullAt(pulls, n))
    /\ row.pr = n
    /\ branch # Null => row.head = branch /\ row.behind = (drift # "none")
    /\ row.conflicted = (n # Null /\ drift = "dirty")

\* "A loop with one job: make our rows match GitHub".  People and calls fail
\* only so often, and then the row is closed for good or says what GitHub says,
\* whatever crashes, lost answers and late passes left in it.
RowSettles == <>[](row.state \in OpenStates => MatchesGitHub)

\* The header of src/reconciler.ts: "every pass is idempotent, so running it
\* twice, late, or after a crash changes nothing".  A pass that finishes late
\* leaves a closed change set closed.
LatePassChangesNothing ==
    [][\A w \in Processes : Write(w) /\ row.state \in TerminalStates
          => row'.state = row.state]_vars
=============================================================================
