--------------------------- MODULE Console_proofs ---------------------------
(***************************************************************************)
(* Theorems about the console.  First the edits of a change set, for any     *)
(* people, files and requirements and any number of commits and mishaps;     *)
(* then the whole: each component behaves in it as it does alone, so its     *)
(* theorems, these and those about the row and the accounts, are its own.    *)
(***************************************************************************)
EXTENDS MCConsole, FiniteSetTheorems, TLAPS

\* Commits are numbered without a gap, so the next number is a fresh one.
Numbered == \E n \in 1..MaxCommits : Known = 0..n

\* A commit contains commits there are, and all that they contain.
Closed ==
    \A n \in Known :
        /\ History(n) \subseteq Known
        /\ \A k \in History(n) : History(k) \subseteq History(n)

\* What a request goes on from exists, and an edit that is about to move the
\* branch has seen what lies between its pin and the commit it is built on.
Checked ==
    \A p \in People :
        /\ task[p].pin \in Known /\ task[p].sha \in Known
        /\ At(p, "move") =>
              \A k \in History(task[p].sha) \ History(task[p].pin) :
                  commit[k].files \cap task[p].plan = {}

IInv == TypeOK /\ Numbered /\ Closed /\ Checked /\ EveryCommitIsSigned

-----------------------------------------------------------------------------
(* Operators.                                                               *)

\* An idle task is a task, and so is what becomes of one field by field.
LEMMA TaskTypes ==
    /\ Idle \in Tasks
    /\ \A t \in Tasks, l \in Labels : [t EXCEPT !.pc = l] \in Tasks
    /\ \A t \in Tasks, n \in Shas : [t EXCEPT !.pin = n] \in Tasks /\ [t EXCEPT !.sha = n] \in Tasks
    /\ \A t \in Tasks, fs \in SUBSET Files :
          [t EXCEPT !.plan = fs] \in Tasks /\ [t EXCEPT !.files = fs] \in Tasks
    /\ \A t \in Tasks, n \in Attempts : [t EXCEPT !.attempt = n] \in Tasks
<1>1. Idle \in Tasks
  BY BoundsAssumption DEF Idle, Tasks, Labels, Shas, Base, Attempts
<1>2. \A t \in Tasks, l \in Labels : [t EXCEPT !.pc = l] \in Tasks
  BY DEF Tasks
<1>3. \A t \in Tasks, n \in Shas : [t EXCEPT !.pin = n] \in Tasks /\ [t EXCEPT !.sha = n] \in Tasks
  BY DEF Tasks
<1>4. \A t \in Tasks, fs \in SUBSET Files :
          [t EXCEPT !.plan = fs] \in Tasks /\ [t EXCEPT !.files = fs] \in Tasks
  BY DEF Tasks
<1>5. \A t \in Tasks, n \in Attempts : [t EXCEPT !.attempt = n] \in Tasks
  BY DEF Tasks
<1> QED
  BY <1>1, <1>2, <1>3, <1>4, <1>5

\* The first number that is not used.
LEMMA FreshNumber ==
    ASSUME Numbered
    PROVE  /\ Fresh \in Nat /\ Fresh \notin Known
           /\ Known \subseteq Shas /\ Base \in Known /\ 1 \in Known
           /\ CanCommit => Fresh \in Shas
<1>1. PICK n \in 1..MaxCommits : Known = 0..n
  BY DEF Numbered
<1>2. Cardinality(0..n) = n + 1
  BY <1>1, FS_Interval, BoundsAssumption
<1>3. Fresh = n + 1
  BY <1>1, <1>2 DEF Fresh
<1> QED
  BY <1>1, <1>3, BoundsAssumption DEF CanCommit, Fresh, Shas, Base

\* Landing a commit adds it under a fresh number and leaves the others alone.
LEMMA LandAdds ==
    ASSUME Numbered, CanCommit, NEW c, Land(c)
    PROVE  /\ Known' = Known \cup {Fresh}
           /\ commit'[Fresh] = c
           /\ \A n \in Known : commit'[n] = commit[n]
           /\ head' = Fresh
           /\ Numbered'
<1>1. PICK n \in 1..MaxCommits : Known = 0..n
  BY DEF Numbered
<1>2. Fresh = n + 1
  BY <1>1, FS_Interval, BoundsAssumption DEF Fresh
<1>3. Known' = Known \cup {Fresh}
  BY DEF Land, Known
<1>4. n + 1 \in 1..MaxCommits
  BY <1>1, <1>2, BoundsAssumption DEF CanCommit, Fresh
<1>5. Known' = 0..(n + 1)
  BY <1>1, <1>2, <1>3, BoundsAssumption
<1>6. Numbered'
  BY <1>4, <1>5 DEF Numbered
<1> QED
  BY <1>3, <1>6, FreshNumber DEF Land, Known

-----------------------------------------------------------------------------
(* How a step may change the commits: it leaves them, or lands one.         *)

CommitsStay == UNCHANGED commit
CommitLands ==
    /\ CanCommit
    /\ \/ \E p \in People :
            /\ At(p, "move") /\ head \in History(task[p].sha)
            /\ Land(Made(task[p].sha, task[p].files, p))
            /\ Become(p, [Idle EXCEPT !.pc = "record", !.sha = Fresh])
            /\ UNCHANGED <<merged, signed, lost>>
       \/ /\ head # Gone
          /\ \E files \in SUBSET Files : Land(Made(head, files, "git"))
          /\ UNCHANGED <<merged, signed, lost, task>>

\* What every step does to the commits: none is lost or rewritten, one may land.
LEMMA Commits2 ==
    ASSUME Next
    PROVE  CommitsStay \/ CommitLands
<1>1. CASE \E p \in People : Move(p)
  <2>1. PICK p \in People : Move(p)
    BY <1>1
  <2>2. CASE head \in History(task[p].sha) /\ CanCommit
               /\ Land(Made(task[p].sha, task[p].files, p))
               /\ Become(p, [Idle EXCEPT !.pc = "record", !.sha = Fresh])
    BY <2>1, <2>2 DEF Move, CommitLands, store
  <2>3. CASE UNCHANGED <<commit, head>>
    BY <2>3 DEF CommitsStay
  <2> QED
    BY <2>1, <2>2, <2>3 DEF Move
<1>2. CASE PushOutside
  BY <1>2 DEF PushOutside, CommitLands, store
<1>3. CASE ~(\E p \in People : Move(p)) /\ ~PushOutside
  BY <1>3 DEF Next, StartEdit, ReadHead, Record, StartApprove, AddApproval, StartMerge,
     ReadPolicy, Judge, Merge, DeleteMerged, RecordMerge, StartWithdraw, Withdraw, Fail, Reconcile,
     ResetOutside, CommitsStay, github
<1> QED
  BY <1>1, <1>2, <1>3

-----------------------------------------------------------------------------
(* The type invariant.                                                      *)

\* The files changed on a commit are files.
LEMMA ChangedFiles ==
    ASSUME TypeOK, Closed, NEW b, NEW c \in Known
    PROVE  Changed(b, c) \in SUBSET Files
BY DEF Changed, Closed, TypeOK, Commits

\* Whoever becomes a task, and whoever goes to a label, has a task.
LEMMA Becomes ==
    ASSUME TypeOK, NEW p \in People
    PROVE  /\ \A t \in Tasks : Become(p, t) => task' \in [People -> Tasks]
           /\ \A l \in Labels : Goto(p, l) => task' \in [People -> Tasks]
<1>1. task \in [People -> Tasks]
  BY DEF TypeOK
<1>2. \A l \in Labels : [task[p] EXCEPT !.pc = l] \in Tasks
  BY <1>1, TaskTypes
<1> QED
  BY <1>1, <1>2 DEF Become, Goto

\* The task of whoever moves stays one.
LEMMA TasksTyped ==
    ASSUME TypeOK, Numbered, Closed, Next
    PROVE  task' \in [People -> Tasks]
<1>0. /\ task \in [People -> Tasks]
      /\ Known \subseteq Shas /\ Idle \in Tasks
  BY FreshNumber, TaskTypes DEF TypeOK
<1>1. ASSUME NEW p \in People, StartEdit(p)  PROVE task' \in [People -> Tasks]
  <2>1. PICK pin \in Known, plan \in SUBSET Files :
          Become(p, [Idle EXCEPT !.pc = "readHead", !.pin = pin, !.plan = plan])
    BY <1>1 DEF StartEdit
  <2>2. [Idle EXCEPT !.pc = "readHead"] \in Tasks
    BY TaskTypes DEF Labels
  <2>3. [[Idle EXCEPT !.pc = "readHead"] EXCEPT !.pin = pin] \in Tasks
    BY <1>0, <2>2, TaskTypes
  <2>4. [Idle EXCEPT !.pc = "readHead", !.pin = pin, !.plan = plan] \in Tasks
    BY <2>3, TaskTypes
  <2> QED
    BY <2>1, <2>4, Becomes
<1>2. ASSUME NEW p \in People, ReadHead(p)  PROVE task' \in [People -> Tasks]
  <2>1. CASE Become(p, Idle)
    BY <1>0, <2>1, Becomes
  <2>2. ASSUME head \in Known, NEW files \in SUBSET Files,
               Become(p, [task[p] EXCEPT !.pc = "move", !.sha = head, !.files = files])
        PROVE  task' \in [People -> Tasks]
    <3>1. [task[p] EXCEPT !.pc = "move"] \in Tasks
      BY <1>0, TaskTypes DEF Labels
    <3>2. [[task[p] EXCEPT !.pc = "move"] EXCEPT !.sha = head] \in Tasks
      BY <1>0, <2>2, <3>1, TaskTypes
    <3>3. [task[p] EXCEPT !.pc = "move", !.sha = head, !.files = files] \in Tasks
      BY <3>2, TaskTypes
    <3> QED
      BY <2>2, <3>3, Becomes
  <2>3. task[p].plan \in SUBSET Files
    BY <1>0 DEF Tasks
  <2>4. CASE ~Become(p, Idle)
    <3>1. head \in Known
      BY <1>2, <2>4 DEF ReadHead, TypeOK
    <3>2. PICK files \in PlansAt(task[p], head) :
            Become(p, IF files = {} THEN Idle
                      ELSE [task[p] EXCEPT !.pc = "move", !.sha = head, !.files = files])
      BY <1>2, <2>4 DEF ReadHead
    <3>3. files \in SUBSET Files
      BY <2>3, <3>2 DEF PlansAt
    <3>4. Become(p, [task[p] EXCEPT !.pc = "move", !.sha = head, !.files = files])
      BY <2>4, <3>2
    <3> QED
      BY <2>2, <3>1, <3>3, <3>4
  <2> QED
    BY <2>1, <2>4
<1>3. ASSUME NEW p \in People, Move(p)  PROVE task' \in [People -> Tasks]
  <2>1. CASE CanCommit /\ Become(p, [Idle EXCEPT !.pc = "record", !.sha = Fresh])
    <3>1. [Idle EXCEPT !.pc = "record"] \in Tasks
      BY TaskTypes DEF Labels
    <3>2. [Idle EXCEPT !.pc = "record", !.sha = Fresh] \in Tasks
      BY <2>1, <3>1, FreshNumber, TaskTypes
    <3> QED
      BY <2>1, <3>2, Becomes
  <2>2. CASE Become(p, Retried(task[p]))
    <3> DEFINE t == task[p]
    <3>1. t \in Tasks /\ t.attempt \in Attempts
      BY <1>0 DEF Tasks
    <3>2. CASE t.attempt # 3
      <4>1. t.attempt + 1 \in Attempts /\ Base \in Shas
        BY <3>1, <3>2, BoundsAssumption DEF Attempts, Base, Shas
      <4>2. [t EXCEPT !.pc = "readHead"] \in Tasks
        BY <3>1, TaskTypes DEF Labels
      <4>3. [[t EXCEPT !.pc = "readHead"] EXCEPT !.attempt = t.attempt + 1] \in Tasks
        BY <4>1, <4>2, TaskTypes
      <4>4. [t EXCEPT !.pc = "readHead", !.attempt = t.attempt + 1, !.sha = Base] \in Tasks
        BY <4>1, <4>3, TaskTypes
      <4>5. [t EXCEPT !.pc = "readHead", !.attempt = t.attempt + 1, !.sha = Base, !.files = {}]
              \in Tasks
        BY <4>4, TaskTypes
      <4>6. Retried(t) \in Tasks
        BY <3>2, <4>5 DEF Retried
      <4> QED
        BY <2>2, <4>6, Becomes
    <3>3. CASE t.attempt = 3
      BY <1>0, <2>2, <3>3, Becomes DEF Retried
    <3> QED
      BY <3>2, <3>3
  <2> QED
    BY <1>3, <2>1, <2>2 DEF Move
<1>4. ASSUME NEW p \in People, ReadPolicy(p)  PROVE task' \in [People -> Tasks]
  <2> DEFINE files == IF head = Gone THEN {} ELSE Changed(Base, head)
  <2>1. files \in SUBSET Files
    BY ChangedFiles DEF TypeOK
  <2>2. [Idle EXCEPT !.pc = "judge"] \in Tasks
    BY TaskTypes DEF Labels
  <2>3. [Idle EXCEPT !.pc = "judge", !.files = files] \in Tasks
    BY <2>1, <2>2, TaskTypes
  <2> QED
    BY <1>4, <2>3, Becomes DEF ReadPolicy
<1>5. ASSUME NEW p \in People, Judge(p) \/ Merge(p) \/ DeleteMerged(p)
      PROVE  task' \in [People -> Tasks]
  <2>1. /\ [Idle EXCEPT !.pc = "merge"] \in Tasks
        /\ {"deleteMerged", "recordMerge"} \subseteq Labels
    BY TaskTypes DEF Labels
  <2> QED
    BY <1>0, <1>5, <2>1, Becomes DEF Judge, Merge, DeleteMerged
<1>6. ASSUME NEW p \in People,
             \/ StartApprove(p) \/ AddApproval(p) \/ StartMerge(p) \/ StartWithdraw(p)
             \/ Withdraw(p) \/ Record(p) \/ RecordMerge(p) \/ Fail(p)
      PROVE  task' \in [People -> Tasks]
  <2>1. {"addApproval", "readPolicy", "withdraw"} \subseteq Labels
    BY DEF Labels
  <2> QED
    BY <1>0, <1>6, <2>1, Becomes
    DEF StartApprove, AddApproval, StartMerge, StartWithdraw, Withdraw, Record, RecordMerge, Fail
<1>7. CASE Reconcile \/ PushOutside \/ ResetOutside
  BY <1>0, <1>7 DEF Reconcile, PushOutside, ResetOutside
<1> QED
  BY <1>1, <1>2, <1>3, <1>4, <1>5, <1>6, <1>7 DEF Next

\* A commit that is made is a commit.
LEMMA MadeIsCommit ==
    ASSUME TypeOK, Numbered, CanCommit, NEW parent \in Known, NEW files \in SUBSET Files,
           NEW by \in People \cup {"git"}
    PROVE  /\ Made(parent, files, by) \in Commits
           /\ Made(parent, files, by).history = History(parent) \cup {Fresh}
           /\ Made(parent, files, by).files = files
           /\ Made(parent, files, by).by = by
BY FreshNumber DEF Made, Commits, History, TypeOK

\* What a step leaves of the commits.
LEMMA CommitsTyped ==
    ASSUME TypeOK, Numbered, Closed, Checked, Next
    PROVE  /\ Known \subseteq Known'
           /\ \A n \in Known : commit'[n] = commit[n]
           /\ \A n \in Known' : commit'[n] \in Commits
           /\ Numbered' /\ Closed'
<1>1. CASE CommitsStay
  BY <1>1 DEF CommitsStay, Known, Numbered, Closed, History, TypeOK
<1>2. ASSUME NEW parent \in Known, NEW files \in SUBSET Files, NEW by \in People \cup {"git"},
             CanCommit, Land(Made(parent, files, by))
      PROVE  /\ Known \subseteq Known'
             /\ \A n \in Known : commit'[n] = commit[n]
             /\ \A n \in Known' : commit'[n] \in Commits
             /\ Numbered' /\ Closed'
  <2>1. /\ Known' = Known \cup {Fresh}
        /\ commit'[Fresh] = Made(parent, files, by)
        /\ \A n \in Known : commit'[n] = commit[n]
        /\ Numbered'
    BY <1>2, LandAdds
  <2>2. Made(parent, files, by) \in Commits
    BY <1>2, MadeIsCommit
  <2>3. /\ commit'[Fresh].history = History(parent) \cup {Fresh}
        /\ History(parent) \subseteq Known
        /\ \A k \in History(parent) : History(k) \subseteq History(parent)
    BY <1>2, <2>1, MadeIsCommit DEF Closed
  <2>4. \A n \in Known : History(n)' = History(n)
    BY <2>1 DEF History
  <2>5. ASSUME NEW n \in Known'
        PROVE  /\ History(n)' \subseteq Known'
               /\ \A k \in History(n)' : History(k)' \subseteq History(n)'
    <3>1. CASE n \in Known
      <4>1. History(n) \subseteq Known /\ \A k \in History(n) : History(k) \subseteq History(n)
        BY <3>1 DEF Closed
      <4> QED
        BY <2>1, <2>4, <3>1, <4>1
    <3>2. CASE n = Fresh
      <4>1. History(n)' = History(parent) \cup {n}
        BY <2>3, <3>2 DEF History
      <4> QED
        BY <2>1, <2>3, <2>4, <3>2, <4>1
    <3> QED
      BY <2>1, <2>5, <3>1, <3>2
  <2>6. Closed'
    BY <2>5 DEF Closed
  <2> QED
    BY <2>1, <2>2, <2>6 DEF TypeOK
<1>3. CASE CommitLands
  <2>1. CASE \E p \in People : Land(Made(task[p].sha, task[p].files, p))
    <3>1. PICK p \in People : Land(Made(task[p].sha, task[p].files, p))
      BY <2>1
    <3>2. task[p].sha \in Known /\ task[p].files \in SUBSET Files
      BY DEF Checked, TypeOK, Tasks
    <3> QED
      BY <1>2, <1>3, <3>1, <3>2 DEF CommitLands
  <2>2. CASE head # Gone /\ \E files \in SUBSET Files : Land(Made(head, files, "git"))
    <3>1. PICK files \in SUBSET Files : Land(Made(head, files, "git"))
      BY <2>2
    <3>2. head \in Known /\ "git" \in People \cup {"git"}
      BY <2>2 DEF TypeOK
    <3> QED
      BY <1>2, <1>3, <3>1, <3>2 DEF CommitLands
  <2> QED
    BY <1>3, <2>1, <2>2 DEF CommitLands
<1> QED
  BY <1>1, <1>3, Commits2

\* The variables keep their types.
LEMMA TypeStep ==
    ASSUME IInv, Next
    PROVE  TypeOK'
<1> USE DEF IInv
<1>1. /\ Known \subseteq Known' /\ Known' \subseteq Shas
      /\ \A n \in Known' : commit'[n] \in Commits
      /\ task' \in [People -> Tasks]
  <2>1. Numbered' => Known' \subseteq Shas
    BY BoundsAssumption DEF Numbered, Shas
  <2> QED
    BY <2>1, CommitsTyped, TasksTyped
<1>2. head' \in Known' \cup {Gone} /\ merged' \in Known' \cup {Gone}
  <2>1. CASE CommitLands
    <3>1. head' = Fresh /\ merged' = merged /\ Fresh \in Known'
      BY <2>1, LandAdds DEF CommitLands
    <3> QED
      BY <1>1, <3>1 DEF TypeOK
  <2>2. CASE CommitsStay
    <3>1. Known' = Known
      BY <2>2 DEF CommitsStay, Known
    <3>2. CASE \E p \in People : Merge(p) \/ DeleteMerged(p)
      BY <3>1, <3>2 DEF Merge, DeleteMerged, TypeOK
    <3>3. CASE ResetOutside
      BY <3>1, <3>3 DEF ResetOutside, TypeOK, Closed
    <3>4. CASE UNCHANGED <<head, merged>>
      BY <3>1, <3>4 DEF TypeOK
    <3>5. ASSUME NEW p \in People, Move(p) PROVE UNCHANGED <<head, merged>>
      <4>1. CASE CanCommit /\ Land(Made(task[p].sha, task[p].files, p))
        <5>1. Fresh \notin Known /\ Known' = Known \cup {Fresh}
          BY <4>1, LandAdds, FreshNumber
        <5> QED
          BY <3>1, <5>1
      <4> QED
        BY <3>5, <4>1 DEF Move
    <3>6. CASE PushOutside
      <4>1. CanCommit /\ \E c : Land(c)
        BY <3>6 DEF PushOutside
      <4>2. Fresh \notin Known /\ Known' = Known \cup {Fresh}
        BY <4>1, LandAdds, FreshNumber
      <4> QED
        BY <3>1, <4>2
    <3>7. CASE /\ ~(\E p \in People : Move(p) \/ Merge(p) \/ DeleteMerged(p))
                /\ ~PushOutside /\ ~ResetOutside
      BY <3>7, <3>4 DEF Next, StartEdit, ReadHead, Record, StartApprove, AddApproval,
         StartMerge, ReadPolicy, Judge, RecordMerge, StartWithdraw, Withdraw, Fail,
         Reconcile, github
    <3> QED
      BY <3>2, <3>3, <3>4, <3>5, <3>6, <3>7
  <2> QED
    BY <2>1, <2>2, Commits2
<1>3. row' \in {"proposed", "merged"}
  BY DEF TypeOK, Next, StartEdit, ReadHead, Move, Record, StartApprove, AddApproval,
     StartMerge, ReadPolicy, Judge, Merge, DeleteMerged, RecordMerge, StartWithdraw, Withdraw, Fail,
     Reconcile, PushOutside, ResetOutside, store
<1>4. signed' \subseteq People /\ approvals' \subseteq People
  BY DEF TypeOK, Next, StartEdit, ReadHead, Move, Record, StartApprove, AddApproval,
     StartMerge, ReadPolicy, Judge, Merge, DeleteMerged, RecordMerge, StartWithdraw, Withdraw, Fail,
     Reconcile, PushOutside, ResetOutside, store
<1>5. lost' \subseteq Known' /\ mishaps' \in 0..MaxMishaps
  <2>1. \A p \in People : task[p].sha \in Known
    BY DEF Checked
  <2>2. CASE \E p \in People : Fail(p)
    BY <1>1, <2>1, <2>2, BoundsAssumption DEF Fail, Mishap, TypeOK
  <2>3. CASE PushOutside \/ ResetOutside
    BY <1>1, <2>3, BoundsAssumption DEF PushOutside, ResetOutside, Mishap, TypeOK
  <2>4. CASE UNCHANGED <<lost, mishaps>>
    BY <1>1, <2>4 DEF TypeOK
  <2> QED
    BY <2>2, <2>3, <2>4 DEF Next, StartEdit, ReadHead, Move, Record, StartApprove,
       AddApproval, StartMerge, ReadPolicy, Judge, Merge, DeleteMerged, RecordMerge,
       StartWithdraw, Withdraw,
       Reconcile
<1> QED
  BY <1>1, <1>2, <1>3, <1>4, <1>5 DEF TypeOK

-----------------------------------------------------------------------------
(* The rest of the invariant.                                               *)

\* The task of another person stays as it is.
LEMMA OthersStay ==
    ASSUME TypeOK, NEW p \in People, NEW q \in People, NEW t, NEW l,
           Become(p, t) \/ Goto(p, l), q # p
    PROVE  task'[q] = task[q]
BY DEF Become, Goto, TypeOK

\* A request goes on from commits there are, and from files it has checked.
LEMMA CheckedStep ==
    ASSUME IInv, Next
    PROVE  Checked'
<1> USE DEF IInv
<1> SUFFICES ASSUME NEW q \in People
             PROVE  /\ task'[q].pin \in Known' /\ task'[q].sha \in Known'
                    /\ At(q, "move")' =>
                          \A k \in History(task[q].sha)' \ History(task[q].pin)' :
                              commit'[k].files \cap task'[q].plan = {}
  BY DEF Checked
<1>0. /\ Known \subseteq Known' /\ \A n \in Known : commit'[n] = commit[n]
      /\ task \in [People -> Tasks] /\ Base \in Known
      /\ \A n \in Known : History(n) \subseteq Known
  BY CommitsTyped, FreshNumber DEF TypeOK, Closed
\* As long as its files, plan and commits stay, so does what it has checked.
<1>1. ASSUME task'[q].pin = task[q].pin, task'[q].sha = task[q].sha,
             task'[q].plan = task[q].plan, At(q, "move")' => At(q, "move")
      PROVE  /\ task'[q].pin \in Known' /\ task'[q].sha \in Known'
             /\ At(q, "move")' =>
                   \A k \in History(task[q].sha)' \ History(task[q].pin)' :
                       commit'[k].files \cap task'[q].plan = {}
  BY <1>0, <1>1 DEF Checked, History
<1>2. ASSUME task'[q].pin \in Known', task'[q].sha \in Known', task'[q].pc # "move"
      PROVE  /\ task'[q].pin \in Known' /\ task'[q].sha \in Known'
             /\ At(q, "move")' =>
                   \A k \in History(task[q].sha)' \ History(task[q].pin)' :
                       commit'[k].files \cap task'[q].plan = {}
  BY <1>2 DEF At
<1>3. ASSUME NEW p \in People, StartEdit(p)
      PROVE  /\ task'[q].pin \in Known' /\ task'[q].sha \in Known'
             /\ (q = p => task'[q].pc # "move")
             /\ (q # p => task'[q] = task[q])
  <2>1. PICK pin \in Known, plan \in SUBSET Files :
          Become(p, [Idle EXCEPT !.pc = "readHead", !.pin = pin, !.plan = plan])
    BY <1>3 DEF StartEdit
  <2>2. CASE q = p
    <3>1. task'[q] = [Idle EXCEPT !.pc = "readHead", !.pin = pin, !.plan = plan]
      BY <1>0, <2>1, <2>2 DEF Become
    <3>2. /\ task'[q].pc = "readHead" /\ task'[q].pin = pin /\ task'[q].sha = Base
      BY <3>1 DEF Idle
    <3> QED
      BY <1>0, <2>2, <3>2
  <2>3. CASE q # p
    BY <1>0, <2>1, <2>3 DEF Become, Checked
  <2> QED
    BY <2>2, <2>3
<1>4. ASSUME NEW p \in People, ReadHead(p)
      PROVE  /\ task'[q].pin \in Known' /\ task'[q].sha \in Known'
             /\ At(q, "move")' =>
                   \A k \in History(task[q].sha)' \ History(task[q].pin)' :
                       commit'[k].files \cap task'[q].plan = {}
  <2>1. CASE q # p
    <3>1. task'[q] = task[q]
      BY <1>0, <1>4, <2>1 DEF ReadHead, Become
    <3> QED
      BY <1>1, <3>1 DEF At
  <2>2. CASE q = p /\ Become(p, Idle)
    <3>1. task'[q] = Idle
      BY <1>0, <2>2 DEF Become
    <3> QED
      BY <1>0, <1>2, <3>1 DEF Idle
  <2>3. CASE q = p /\ ~Become(p, Idle)
    <3>1. /\ head \in Known /\ ~Overlaps(task[p], head)
          /\ \E files : Become(p, [task[p] EXCEPT !.pc = "move", !.sha = head, !.files = files])
      BY <1>4, <2>3 DEF ReadHead, TypeOK
    <3>2. PICK files : task' = [task EXCEPT ![p] =
                          [task[p] EXCEPT !.pc = "move", !.sha = head, !.files = files]]
      BY <3>1 DEF Become
    <3>3. task[p] \in Tasks
      BY <1>0
    <3>4. task'[p] = [task[p] EXCEPT !.pc = "move", !.sha = head, !.files = files]
      BY <1>0, <3>2
    <3>5. /\ task'[p].sha = head /\ task'[p].pin = task[p].pin /\ task'[p].plan = task[p].plan
      BY <3>3, <3>4 DEF Tasks
    <3>6. task[p].pin \in Known
      BY DEF Checked
    <3>7. head # task[p].pin => Changed(task[p].pin, head) \cap task[p].plan = {}
      BY <3>1 DEF Overlaps
    <3>8. \A k \in History(head) \ History(task[p].pin) :
             commit[k].files \cap task[p].plan = {}
      BY <3>7 DEF Changed
    <3>9. commit' = commit
      BY <1>4 DEF ReadHead, github
    <3> QED
      BY <2>3, <3>1, <3>5, <3>6, <3>8, <3>9, <1>0 DEF History
  <2> QED
    BY <2>1, <2>2, <2>3
<1>5. ASSUME NEW p \in People, Move(p)
      PROVE  /\ task'[q].pin \in Known' /\ task'[q].sha \in Known'
             /\ (q = p => task'[q].pc # "move")
             /\ (q # p => task'[q] = task[q])
  <2>1. CASE CanCommit /\ Land(Made(task[p].sha, task[p].files, p))
               /\ Become(p, [Idle EXCEPT !.pc = "record", !.sha = Fresh])
    <3>1. Fresh \in Known'
      BY <2>1, LandAdds
    <3>2. CASE q = p
      <4>1. task'[q] = [Idle EXCEPT !.pc = "record", !.sha = Fresh]
        BY <1>0, <2>1, <3>2 DEF Become
      <4>2. task'[q].pc = "record" /\ task'[q].sha = Fresh /\ task'[q].pin = Base
        BY <4>1 DEF Idle
      <4> QED
        BY <1>0, <3>1, <3>2, <4>2
    <3>3. CASE q # p
      BY <1>0, <2>1, <3>3 DEF Become, Checked
    <3> QED
      BY <3>2, <3>3
  <2>2. CASE Become(p, Retried(task[p]))
    <3>1. CASE q # p
      BY <1>0, <2>2, <3>1 DEF Become, Checked
    <3>2. CASE q = p
      <4>1. task'[q] = Retried(task[p])
        BY <1>0, <2>2, <3>2 DEF Become
      <4>2. task[p] \in Tasks /\ task[p].pin \in Known
        BY <1>0 DEF Checked
      <4>3. Retried(task[p]).pc # "move" /\ Retried(task[p]).pin \in {Base, task[p].pin}
            /\ Retried(task[p]).sha = Base
        BY <4>2 DEF Retried, Idle, Tasks
      <4> QED
        BY <1>0, <3>2, <4>1, <4>2, <4>3
    <3> QED
      BY <3>1, <3>2
  <2> QED
    BY <1>5, <2>1, <2>2 DEF Move
<1>6. ASSUME NEW p \in People, Fail(p) \/ Record(p) \/ RecordMerge(p) \/ Withdraw(p)
      PROVE  q = p => task'[q] = Idle
  BY <1>0, <1>6 DEF Fail, Record, RecordMerge, Withdraw, Become
<1>7. ASSUME NEW p \in People, ReadPolicy(p) \/ Judge(p)
      PROVE  q = p => /\ task'[q].pin = Base /\ task'[q].sha = Base
                      /\ task'[q].pc # "move"
  <2>1. CASE ReadPolicy(p)
    <3>1. PICK files : task' = [task EXCEPT ![p] = [Idle EXCEPT !.pc = "judge", !.files = files]]
      BY <2>1 DEF ReadPolicy, Become
    <3>2. task'[p] = [Idle EXCEPT !.pc = "judge", !.files = files]
      BY <1>0, <3>1
    <3> QED
      BY <3>2 DEF Idle
  <2>2. CASE Judge(p)
    <3>1. task'[p] = Idle \/ task'[p] = [Idle EXCEPT !.pc = "merge"]
      BY <1>0, <2>2 DEF Judge, Become
    <3> QED
      BY <3>1 DEF Idle
  <2> QED
    BY <1>7, <2>1, <2>2
<1>8. ASSUME NEW p \in People, NEW l \in Labels, l # "move", Goto(p, l)
      PROVE  q = p => /\ task'[q].pin = task[q].pin /\ task'[q].sha = task[q].sha
                      /\ task'[q].pc # "move"
  <2>1. task[p] \in Tasks
    BY <1>0
  <2>2. task'[p] = [task[p] EXCEPT !.pc = l]
    BY <1>0, <1>8 DEF Goto
  <2> QED
    BY <1>8, <2>1, <2>2 DEF Tasks
<1>9. ASSUME NEW p \in People,
             \/ Fail(p) \/ Record(p) \/ RecordMerge(p) \/ Withdraw(p) \/ ReadPolicy(p)
             \/ Judge(p) \/ Merge(p) \/ DeleteMerged(p) \/ StartApprove(p)
             \/ AddApproval(p) \/ StartMerge(p)
             \/ StartWithdraw(p)
      PROVE  /\ q # p => task'[q] = task[q]
             /\ q = p => /\ task'[q].pin \in Known' /\ task'[q].sha \in Known'
                         /\ task'[q].pc # "move"
  <2>1. q # p => task'[q] = task[q]
    BY <1>0, <1>9 DEF Fail, Record, RecordMerge, Withdraw, ReadPolicy, Judge, Merge, DeleteMerged,
       StartApprove, AddApproval, StartMerge, StartWithdraw, Become, Goto
  <2>2. Idle.pin = Base /\ Idle.sha = Base /\ Idle.pc # "move"
    BY DEF Idle
  <2>3. /\ task[q].pin \in Known /\ task[q].sha \in Known
        /\ {"addApproval", "readPolicy", "withdraw", "deleteMerged", "recordMerge"}
             \subseteq Labels \ {"move"}
    BY DEF Checked, Labels
  <2>4. CASE Fail(p) \/ Record(p) \/ RecordMerge(p) \/ Withdraw(p)
    BY <1>0, <1>6, <2>1, <2>2, <2>4
  <2>5. CASE ReadPolicy(p) \/ Judge(p)
    BY <1>0, <1>7, <2>1, <2>5
  <2>6. CASE StartApprove(p) \/ AddApproval(p) \/ StartMerge(p) \/ StartWithdraw(p)
    <3>1. \E l \in Labels \ {"move"} : Goto(p, l)
      BY <2>3, <2>6 DEF StartApprove, AddApproval, StartMerge, StartWithdraw
    <3> QED
      BY <1>0, <1>8, <2>1, <2>3, <3>1
  <2>7. CASE Merge(p)
    <3>1. CASE Become(p, Idle)
      <4>1. task'[p] = Idle
        BY <1>0, <3>1 DEF Become
      <4> QED
        BY <1>0, <2>1, <2>2, <4>1
    <3>2. CASE Goto(p, "deleteMerged")
      BY <1>0, <1>8, <2>1, <2>3, <3>2
    <3> QED
      BY <2>7, <3>1, <3>2 DEF Merge
  <2>8. CASE DeleteMerged(p)
    BY <1>0, <1>8, <2>1, <2>3, <2>8 DEF DeleteMerged
  <2> QED
    BY <1>9, <2>4, <2>5, <2>6, <2>7, <2>8
<1>10. CASE Reconcile \/ PushOutside \/ ResetOutside
  <2>1. task' = task
    BY <1>10 DEF Reconcile, PushOutside, ResetOutside
  <2> QED
    BY <1>1, <2>1 DEF At
<1>11. ASSUME NEW p \in People,
              /\ q # p => task'[q] = task[q]
              /\ q = p => /\ task'[q].pin \in Known' /\ task'[q].sha \in Known'
                          /\ task'[q].pc # "move"
       PROVE  /\ task'[q].pin \in Known' /\ task'[q].sha \in Known'
              /\ At(q, "move")' =>
                    \A k \in History(task[q].sha)' \ History(task[q].pin)' :
                        commit'[k].files \cap task'[q].plan = {}
  <2>1. CASE q # p
    BY <1>1, <1>11, <2>1 DEF At
  <2>2. CASE q = p
    BY <1>2, <1>11, <2>2
  <2> QED
    BY <2>1, <2>2
<1> QED
  BY <1>3, <1>4, <1>5, <1>9, <1>10, <1>11 DEF Next

\* A commit that lands is signed for at once by a request that is about to
\* write its diary entry; the entry, or the loss of the answer, keeps it so.
LEMMA SignedStep ==
    ASSUME IInv, Next
    PROVE  EveryCommitIsSigned'
<1> USE DEF IInv
<1>0. /\ Known \subseteq Known' /\ \A n \in Known : commit'[n] = commit[n]
      /\ task \in [People -> Tasks]
      /\ \A n \in Known : commit[n].by \in People \cup {"git"}
  BY CommitsTyped DEF TypeOK, Commits
<1>1. CASE CommitLands
  <2>1. /\ Known' = Known \cup {Fresh} /\ signed' = signed /\ lost' = lost
        /\ Fresh \notin Known /\ lost \subseteq Known
    BY <1>1, LandAdds, FreshNumber DEF CommitLands, TypeOK
  <2>2. CASE \E p \in People :
               /\ At(p, "move") /\ Land(Made(task[p].sha, task[p].files, p))
               /\ Become(p, [Idle EXCEPT !.pc = "record", !.sha = Fresh])
    <3>1. PICK p \in People :
            /\ At(p, "move") /\ Land(Made(task[p].sha, task[p].files, p))
            /\ Become(p, [Idle EXCEPT !.pc = "record", !.sha = Fresh])
      BY <2>2
    <3>2. commit'[Fresh] = Made(task[p].sha, task[p].files, p)
      BY <1>1, <3>1, LandAdds DEF CommitLands
    <3>3. commit'[Fresh].by = p
      BY <3>2 DEF Made
    <3>4. task'[p] = [Idle EXCEPT !.pc = "record", !.sha = Fresh]
      BY <1>0, <3>1 DEF Become
    <3>5. task'[p].pc = "record" /\ task'[p].sha = Fresh
      BY <3>4 DEF Idle
    <3>6. \A x \in People \ {p} : task'[x] = task[x]
      BY <1>0, <3>1 DEF Become
    <3>7. task[p].pc # "record"
      BY <3>1 DEF At
    <3>8. ASSUME NEW n \in Known \ lost
          PROVE  \/ commit'[n].by = "git"
                 \/ commit'[n].by \in Contributors'
                 \/ At(commit[n].by, "record")' /\ task'[commit'[n].by].sha = n
      <4>1. commit'[n] = commit[n] /\ commit[n].by \in People \cup {"git"}
        BY <1>0
      <4>2. CASE commit[n].by = p
        BY <2>1, <3>7, <4>1, <4>2 DEF EveryCommitIsSigned, At, Contributors
      <4>3. CASE commit[n].by # p
        BY <2>1, <3>6, <4>1, <4>3 DEF EveryCommitIsSigned, At, Contributors
      <4> QED
        BY <4>2, <4>3
    <3> QED
      BY <2>1, <3>3, <3>5, <3>8 DEF EveryCommitIsSigned, At
  <2>3. CASE \E parent, files : Land(Made(parent, files, "git")) /\ UNCHANGED task
    <3>1. commit'[Fresh].by = "git" /\ task' = task
      BY <1>1, <2>3, LandAdds DEF CommitLands, Made
    <3> QED
      BY <1>0, <2>1, <3>1 DEF EveryCommitIsSigned, At, Contributors
  <2> QED
    BY <1>1, <2>2, <2>3 DEF CommitLands
<1>2. CASE CommitsStay
  <2>1. Known' = Known /\ commit' = commit
    BY <1>2 DEF CommitsStay, Known
  \* Only what a request in "record" does bears on the entries.
  <2>2. ASSUME signed \subseteq signed', lost \subseteq lost',
               \A p \in People : At(p, "record") =>
                   \/ task'[p] = task[p]
                   \/ p \in signed' \/ task[p].sha \in lost'
        PROVE  EveryCommitIsSigned'
    <3>1. SUFFICES ASSUME NEW n \in Known \ lost', commit[n].by # "git"
                   PROVE  \/ commit[n].by \in Contributors'
                          \/ At(commit[n].by, "record")' /\ task'[commit[n].by].sha = n
      BY <2>1 DEF EveryCommitIsSigned
    <3>2. commit[n].by \in People
      BY <1>0, <3>1
    <3>3. \/ commit[n].by \in Contributors
          \/ At(commit[n].by, "record") /\ task[commit[n].by].sha = n
      BY <2>2, <3>1 DEF EveryCommitIsSigned
    <3>4. CASE commit[n].by \in Contributors
      BY <2>2, <3>4 DEF Contributors
    <3>5. CASE At(commit[n].by, "record") /\ task[commit[n].by].sha = n
      BY <2>1, <2>2, <3>1, <3>2, <3>5 DEF At, Contributors
    <3> QED
      BY <3>3, <3>4, <3>5
  <2>3. ASSUME NEW p \in People, Record(p) \/ Fail(p)
        PROVE  EveryCommitIsSigned'
    <3>1. /\ signed \subseteq signed' /\ lost \subseteq lost'
          /\ At(p, "record") => p \in signed' \/ task[p].sha \in lost'
          /\ \A x \in People \ {p} : task'[x] = task[x]
      BY <1>0, <2>3 DEF Record, Fail, Become, store
    <3> QED
      BY <2>2, <3>1
  <2>4. ASSUME NEW p \in People,
               \/ StartEdit(p) \/ ReadHead(p) \/ StartApprove(p) \/ AddApproval(p)
               \/ StartMerge(p) \/ ReadPolicy(p) \/ Judge(p) \/ Merge(p) \/ DeleteMerged(p)
               \/ RecordMerge(p)
               \/ StartWithdraw(p) \/ Withdraw(p)
        PROVE  EveryCommitIsSigned'
    <3>1. /\ signed' = signed /\ lost' = lost /\ ~At(p, "record")
          /\ \A x \in People \ {p} : task'[x] = task[x]
      BY <1>0, <2>4 DEF StartEdit, ReadHead, StartApprove, AddApproval, StartMerge,
         ReadPolicy, Judge, Merge, DeleteMerged, RecordMerge, StartWithdraw, Withdraw, Become, Goto,
         At, store
    <3> QED
      BY <2>2, <3>1
  <2>5. ASSUME NEW p \in People, Move(p)
        PROVE  EveryCommitIsSigned'
    <3>1. /\ signed' = signed /\ lost' = lost /\ ~At(p, "record")
          /\ \A x \in People \ {p} : task'[x] = task[x]
      BY <1>0, <2>5 DEF Move, Become, At, store
    <3> QED
      BY <2>2, <3>1
  <2>6. CASE Reconcile \/ PushOutside \/ ResetOutside
    <3>1. signed' = signed /\ lost' = lost /\ task' = task
      BY <2>6 DEF Reconcile, PushOutside, ResetOutside, store
    <3> QED
      BY <2>2, <3>1
  <2> QED
    BY <2>3, <2>4, <2>5, <2>6 DEF Next
<1> QED
  BY <1>1, <1>2, Commits2

-----------------------------------------------------------------------------
(* The invariant, and what follows from it.                                 *)

\* The invariant holds at first.
LEMMA InitInvariant ==
    ASSUME Init
    PROVE  IInv
<1>0. 1 \in Shas /\ 0 \in Shas /\ 0..0 = {0} /\ 0..1 = {0, 1} /\ Idle \in Tasks
  BY BoundsAssumption, TaskTypes DEF Shas
<1>1. PICK files \in SUBSET Files :
        commit = [n \in {Base, 1} |->
                    [history |-> 0..n, files |-> IF n = Base THEN {} ELSE files,
                     by |-> IF n = Base THEN "git" ELSE Author]]
  BY DEF Init
<1>2. /\ Known = {0, 1}
      /\ commit[0] = [history |-> {0}, files |-> {}, by |-> "git"]
      /\ commit[1] = [history |-> {0, 1}, files |-> files, by |-> Author]
  BY <1>0, <1>1 DEF Known, Base
<1>3. Author \in People
  BY PeopleAssumption
<1>4. commit[0] \in Commits /\ commit[1] \in Commits
  BY <1>0, <1>2, <1>3 DEF Commits
<1>5. TypeOK
  BY <1>0, <1>2, <1>3, <1>4, BoundsAssumption DEF Init, TypeOK
<1>6. Numbered /\ Closed
  BY <1>0, <1>2, BoundsAssumption DEF Numbered, Closed, History
<1>7. Checked
  BY <1>2 DEF Init, Checked, At, Idle, Base
<1>8. EveryCommitIsSigned
  BY <1>2 DEF EveryCommitIsSigned, Contributors
<1> QED
  BY <1>5, <1>6, <1>7, <1>8 DEF IInv

\* A stuttering step keeps the invariant.
LEMMA StutterKeeps ==
    ASSUME IInv, UNCHANGED vars
    PROVE  IInv'
BY DEF IInv, vars, TypeOK, Known, Numbered, Closed, History, Checked, At,
   EveryCommitIsSigned, Contributors

\* The inductive invariant holds throughout.
THEOREM Invariance == Spec => []IInv
<1>1. Init => IInv
  BY InitInvariant
<1>2. IInv /\ [Next]_vars => IInv'
  <2>1. ASSUME IInv, Next PROVE IInv'
    BY <2>1, TypeStep, CommitsTyped, CheckedStep, SignedStep DEF IInv
  <2> QED
    BY <2>1, StutterKeeps
<1> QED
  BY <1>1, <1>2, PTL DEF Spec

\* The variables keep their types, whatever the people do at the same time.
THEOREM TypeCorrect == Spec => []TypeOK
<1>1. IInv => TypeOK
  BY DEF IInv
<1> QED
  BY <1>1, Invariance, PTL

\* Every commit the console made has its author among the contributors, or the
\* diary entry is still to be written, or the request was lost before it.
THEOREM CommitsAreSigned == Spec => []EveryCommitIsSigned
<1>1. IInv => EveryCommitIsSigned
  BY DEF IInv
<1> QED
  BY <1>1, Invariance, PTL

\* An edit that lands overwrites nothing it has not seen, and takes nothing off
\* the branch: GitHub moves a branch to commits that contain what it is on.
THEOREM NothingOverwritten == Spec => NoSilentOverwrite
<1>1. ASSUME IInv, NEW p \in People, Move(p), head' # head,
             NEW k \in (History(task[p].sha) \cup History(head)) \ History(task[p].pin)
      PROVE  commit[k].files \cap task[p].plan = {}
  <2>1. At(p, "move") /\ head \in History(task[p].sha) /\ task[p].sha \in Known
    BY <1>1 DEF Move, IInv, Checked
  <2>2. History(head) \subseteq History(task[p].sha)
    BY <1>1, <2>1 DEF IInv, Closed
  <2> QED
    BY <1>1, <2>1, <2>2 DEF IInv, Checked
<1>2. IInv /\ [Next]_vars =>
        [\A p \in People : Move(p) /\ head' # head =>
            \A k \in (History(task[p].sha) \cup History(head)) \ History(task[p].pin) :
                commit[k].files \cap task[p].plan = {}]_vars
  BY <1>1
<1> QED
  BY <1>2, Invariance, PTL DEF Spec, NoSilentOverwrite

\* A merge goes on only over the approval of somebody who has no commit on the
\* branch that the console knows of, for every file that asks for one.
THEOREM SecondPersonApproved == Spec => ApprovedBySecondPerson
<1>1. ASSUME IInv, NEW p \in People, Judge(p), task'[p].pc = "merge",
             NEW f \in task[p].files, Need[f] # "none"
      PROVE  \E q \in approvals :
                /\ Need[f] = "role" => q \in RoleMembers
                /\ head # Gone => \A n \in History(head) \ lost :
                     commit[n].by = q => At(q, "record") /\ task[q].sha = n
  <2>1. Satisfied(task[p].files)
    <3>1. CASE Become(p, Idle)
      BY <1>1, <3>1 DEF Become, IInv, TypeOK, Idle
    <3> QED
      BY <1>1, <3>1 DEF Judge
  <2>2. Need[f] \in Requirements(task[p].files) /\ Need[f] \in {"role", "second"}
    <3>1. f \in Files
      BY <1>1 DEF IInv, TypeOK, Tasks
    <3> QED
      BY <1>1, <3>1, FilesAssumption DEF Requirements, Needs
  <2>3. PICK q \in approvals \ Contributors : Need[f] = "role" => q \in RoleMembers
    BY <2>1, <2>2 DEF Satisfied, Counted
  <2>4. ASSUME head # Gone, NEW n \in History(head) \ lost, commit[n].by = q
        PROVE  At(q, "record") /\ task[q].sha = n
    <3>1. n \in Known \ lost
      BY <1>1, <2>4 DEF IInv, TypeOK, Closed
    <3>2. q \in People /\ q # "git"
      BY <1>1, <2>3, PeopleAssumption DEF IInv, TypeOK
    <3> QED
      BY <1>1, <2>3, <2>4, <3>1, <3>2 DEF IInv, EveryCommitIsSigned
  <2> QED
    BY <2>3, <2>4
<1>2. IInv /\ [Next]_vars =>
        [\A p \in People : Judge(p) /\ task'[p].pc = "merge" =>
          \A f \in task[p].files : Need[f] # "none" =>
              \E q \in approvals :
                  /\ Need[f] = "role" => q \in RoleMembers
                  /\ head # Gone => \A n \in History(head) \ lost :
                       commit[n].by = q => At(q, "record") /\ task[q].sha = n]_vars
  BY <1>1
<1> QED
  BY <1>2, Invariance, PTL DEF Spec, ApprovedBySecondPerson

-----------------------------------------------------------------------------
(* The console.                                                             *)

\* Every step of the console is a step of the edits, or leaves them alone.
LEMMA EditsAsAlone == ConsoleSpec => Spec
<1>1. ConsoleInit => Init
  BY DEF ConsoleInit
<1>2. [EditsStep \/ LifecycleStep \/ AccountsStep]_consoleVars => [Next]_vars
  BY DEF EditsStep, LifecycleStep, AccountsStep, consoleVars
<1> QED
  BY <1>1, <1>2, PTL DEF ConsoleSpec, Spec

\* So it is with the row of the change set and GitHub.
LEMMA LifecycleAsAlone == ConsoleSpec => Life!Spec
<1>1. ConsoleInit => Life!Init
  BY DEF ConsoleInit
<1>2. UNCHANGED lifeVars => UNCHANGED Life!vars
  BY DEF lifeVars, Life!vars
<1>3. [EditsStep \/ LifecycleStep \/ AccountsStep]_consoleVars => [Life!Next]_Life!vars
  BY <1>2 DEF EditsStep, LifecycleStep, AccountsStep, consoleVars
<1> QED
  BY <1>1, <1>3, PTL DEF ConsoleSpec, Life!Spec

\* And with the accounts.
LEMMA AccountsAsAlone == ConsoleSpec => Who!Spec
<1>1. ConsoleInit => Who!Init
  BY DEF ConsoleInit
<1>2. UNCHANGED whoVars => UNCHANGED Who!vars
  BY DEF whoVars, Who!vars, Who!people, Who!access, Who!letters, Who!places
<1>3. [EditsStep \/ LifecycleStep \/ AccountsStep]_consoleVars => [Who!Next]_Who!vars
  BY <1>2 DEF EditsStep, LifecycleStep, AccountsStep, consoleVars
<1> QED
  BY <1>1, <1>3, PTL DEF ConsoleSpec, Who!Spec

\* Principals are numbered from one.
LEMMA Numbers == Who!PrincipalsAssumption
BY PrincipalsAreNumbered, FS_CardinalityType DEF Who!PrincipalsAssumption

\* The row says what GitHub said, is merged only of what was merged there, and
\* the diary tells of it (change-sets.ts, reconciler.ts).
THEOREM ConsoleRowsAreTrue == ConsoleSpec => []RowTellsTruth
<1>1. Life!Spec => []Life!RowTellsTruth
  BY RequestsAssumption, PullsAssumption, Life!RowIsTrue
<1> QED
  BY <1>1, LifecycleAsAlone, PTL DEF RowTellsTruth

\* Groups, names, identities, invitations and source trees come and go without
\* anybody's access changing (routes/admin.ts:219-220).
THEOREM ConsoleAccess == ConsoleSpec => AccessByGrantsOnly
BY Numbers, AccountsAsAlone, Who!AccessNeedsAGrant, PTL DEF AccessByGrantsOnly

\* Nobody is enrolled whom policy does not let in, and who redeemed an
\* invitation stays on record (enroll.ts, routes/admin.ts:482).
THEOREM ConsoleEnrolment == ConsoleSpec => EnrolmentIsPaidFor
BY Numbers, AccountsAsAlone, Who!PolicyLetsIn, PTL DEF EnrolmentIsPaidFor

\* Who comes to hold more grants may do whatever she could (decide.ts:179-188).
THEOREM ConsoleGrants == ConsoleSpec => GrantsOnlyAllow
BY AccountsAsAlone, Who!GrantsAllowMore, PTL DEF GrantsOnlyAllow

\* Edits by console and by people, saves, approvals and the merge
\* (change-sets.ts, routes/change-sets.ts).
THEOREM ConsoleEdits ==
    ConsoleSpec =>
        /\ []EveryCommitIsSigned
        /\ NoSilentOverwrite /\ ApprovedBySecondPerson
BY EditsAsAlone, CommitsAreSigned, NothingOverwritten, SecondPersonApproved, PTL
=============================================================================
