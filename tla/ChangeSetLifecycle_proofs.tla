---------------------- MODULE ChangeSetLifecycle_proofs ----------------------
(***************************************************************************)
(* Theorems about ChangeSetLifecycle, for any number of requests, pull       *)
(* requests, commits, interventions on GitHub and failed calls.              *)
(***************************************************************************)
EXTENDS ChangeSetLifecycle, TLAPS

\* Pull requests are numbered as they are opened.
NumberedIn(p) == \E k \in 0..MaxPulls : Opened(p) = 1..k
MergedIn(p) == \E n \in PullIds : p[n].state = "merged"

\* A pull request stays opened, and stays merged.
Onward(p, q) ==
    \A n \in PullIds : /\ p[n].state # "none" => q[n].state # "none"
                       /\ p[n].state = "merged" => q[n].state = "merged"

\* What a task t goes on from is about pull requests there are in p and states
\* the diary d tells of.
Told(t, p, d) ==
    /\ t.snap.state # "none" => t.snap.state \in d
    /\ t.snap.state = "proposed" => Opened(p) # {}
    /\ t.snap.pr \in Opened(p) \cup {Null}
    /\ t.number \in Opened(p) \cup {Null}
    /\ t.pull.state = "merged" => MergedIn(p)
    /\ t.pull.state # "none" => Opened(p) # {}
    /\ t.pc = "recordSubmit" => Opened(p) # {}
    /\ t.pc \in {"closePull", "mergePull"} => t.number # Null

\* What a pass has read by now, against what was true since it began: GitHub as
\* it is counts; as long as there is no pull request, so does the branch as it
\* was read; and the verdict does once both reads are done.
Seen(t, b, p, truth) ==
    LET pull == PullAt(p, Tracked(p, t.snap)) IN
    /\ t.pc \in PassLabels => t.snap.state \in OpenStates /\ Truth(b, pull) \in truth
    /\ t.pc = "readPull" /\ pull.state = "none" => Truth(t.head, NoPull) \in truth
    /\ t.pc \in {"compare", "write"} => Verdict(t.head, t.pull, t.snap.state) \in truth

\* The row is about pull requests there are.
RowTold ==
    /\ row.state = "proposed" => Opened(pulls) # {}
    /\ row.pr \in Opened(pulls) \cup {Null}
    /\ MergedMeansMerged
    /\ DiaryTellsState

IInv ==
    /\ TypeOK /\ NumberedIn(pulls) /\ RowTold
    /\ \A w \in Processes : Told(task[w], pulls, diary)
                            /\ Seen(task[w], branch, pulls, truths[w])

-----------------------------------------------------------------------------
(* Pull requests.                                                           *)

PullMaps == [PullIds -> Pulls]

\* The newest pull request is the last one that was opened.
LEMMA NewestIsLast ==
    ASSUME NEW p \in PullMaps, NEW k \in 0..MaxPulls, Opened(p) = 1..k
    PROVE  Newest(p) = k
<1>1. CASE k = 0
  BY <1>1 DEF Newest, Null
<1>2. CASE k # 0
  <2>1. k \in Opened(p) /\ \A j \in Opened(p) : j <= k
    BY <1>2, BoundsAssumption
  <2>2. \A n \in Opened(p) : (\A j \in Opened(p) : j <= n) => n = k
    BY <2>1, BoundsAssumption
  <2> QED
    BY <2>1, <2>2 DEF Newest
<1> QED
  BY <1>1, <1>2

\* What a task looks at has been opened, and there is nothing to look at only
\* as long as the row names none and none was ever opened.
LEMMA TrackedIsOpened ==
    ASSUME NEW p \in PullMaps, NumberedIn(p), NEW r, r.pr \in Opened(p) \cup {Null}
    PROVE  /\ Tracked(p, r) \in Opened(p) \cup {Null}
           /\ PullAt(p, Tracked(p, r)) \in Pulls
           /\ Opened(p) # {} => PullAt(p, Tracked(p, r)).state # "none"
           /\ PullAt(p, Tracked(p, r)).state # "none" => Tracked(p, r) \in Opened(p)
<1>1. PICK k \in 0..MaxPulls : Opened(p) = 1..k
  BY DEF NumberedIn
<1>2. Newest(p) = k
  BY <1>1, NewestIsLast
<1>3. Newest(p) \in Opened(p) \cup {Null} /\ (Opened(p) # {} => Newest(p) \in Opened(p))
  BY <1>1, <1>2, BoundsAssumption DEF Null
<1>4. NoPull \in Pulls /\ NoPull.state = "none"
  BY BoundsAssumption DEF NoPull, Pulls, Heads, Null
<1>5. \A n \in Opened(p) : n # Null /\ n \in PullIds /\ p[n] \in Pulls /\ p[n].state # "none"
  BY BoundsAssumption DEF Opened, Null, PullIds, PullMaps
<1> QED
  BY <1>3, <1>4, <1>5 DEF Tracked, PullAt

\* Onward keeps what is opened opened, what is merged merged, and makes nothing
\* that was looked at disappear.
LEMMA OnwardOpened ==
    ASSUME NEW p \in PullMaps, NEW q \in PullMaps, Onward(p, q)
    PROVE  /\ Opened(p) \subseteq Opened(q)
           /\ MergedIn(p) => MergedIn(q)
BY DEF Onward, Opened, MergedIn

\* Nothing changes is onward.
LEMMA OnwardStay == \A p : Onward(p, p)
BY DEF Onward

-----------------------------------------------------------------------------
(* What tasks know, while GitHub moves on.                                  *)

\* What a task was told stays true.
LEMMA ToldStays ==
    ASSUME NEW p \in PullMaps, NEW q \in PullMaps, Onward(p, q),
           NEW d, NEW e, d \subseteq e, NEW t, Told(t, p, d)
    PROVE  Told(t, q, e)
BY OnwardOpened DEF Told

\* What a pass has seen stays true, since it is told what becomes of GitHub.
LEMMA SeenStays ==
    ASSUME NEW p \in PullMaps, NEW q \in PullMaps, Onward(p, q), NumberedIn(p), NumberedIn(q),
           NEW b, NEW c, NEW truth, NEW d, NEW t \in Tasks, Told(t, p, d), Seen(t, b, p, truth)
    PROVE  /\ Seen(t, c, q, truth \cup {Truth(c, PullAt(q, Tracked(q, t.snap)))})
           /\ t.pc \notin PassLabels => Seen(t, c, q, truth)
<1>1. PullAt(q, Tracked(q, t.snap)).state = "none" => PullAt(p, Tracked(p, t.snap)).state = "none"
  <2>1. t.snap.pr \in Opened(p) \cup {Null} /\ t.snap.pr \in Opened(q) \cup {Null}
    BY OnwardOpened DEF Told
  <2>2. PullAt(q, Tracked(q, t.snap)).state = "none" => Opened(q) = {}
    BY <2>1, TrackedIsOpened
  <2>3. Opened(q) = {} => Opened(p) = {}
    BY OnwardOpened
  <2>4. PullAt(p, Tracked(p, t.snap)).state # "none" => Tracked(p, t.snap) \in Opened(p)
    BY <2>1, TrackedIsOpened
  <2> QED
    BY <2>2, <2>3, <2>4
<1>2. {"readPull", "compare", "write"} \subseteq PassLabels
  BY DEF PassLabels
<1> QED
  BY <1>1, <1>2 DEF Seen

\* Nothing is asked of an idle task.
LEMMA IdleKnows ==
    \A p, d, b, truth : Told(Idle, p, d) /\ Seen(Idle, b, p, truth)
<1>1. /\ Idle.pc = "idle" /\ Idle.snap = NoSnap /\ Idle.number = Null /\ Idle.pull = NoPull
      /\ NoSnap.state = "none" /\ NoSnap.pr = Null /\ NoPull.state = "none"
  BY DEF Idle, NoSnap, SnapOf, NoRow, NoPull
<1>2. "idle" \notin PassLabels
  BY DEF PassLabels
<1> QED
  BY <1>1, <1>2 DEF Told, Seen

\* Nor of a task outside a pass is anything seen.
LEMMA UnseenOutside ==
    \A t, p, b, truth : t.pc \notin PassLabels => Seen(t, b, p, truth)
BY DEF Seen, PassLabels

-----------------------------------------------------------------------------
(* Tasks, field by field.                                                   *)

\* The labels at which nothing more is asked of a task.
Plain == Labels \ {"recordSubmit", "closePull", "mergePull"}

\* An idle task, and what becomes of a task field by field.
LEMMA TaskFields ==
    /\ Idle \in Tasks
    /\ \A t \in Tasks, l \in Labels :
          LET u == [t EXCEPT !.pc = l] IN
          /\ u \in Tasks /\ u.pc = l
          /\ \A p, d : Told(t, p, d) /\ (l \in Plain \/ (l = "recordSubmit" /\ Opened(p) # {}))
                       => Told(u, p, d)
<1>1. Idle \in Tasks
  BY BoundsAssumption DEF Idle, Tasks, Labels, NoSnap, SnapOf, NoRow, Snaps, States,
     OpenStates, TerminalStates, NoPull, Pulls, Heads, PullIds, Null
<1>2. ASSUME NEW t \in Tasks, NEW l \in Labels
      PROVE  LET u == [t EXCEPT !.pc = l] IN
             /\ u \in Tasks /\ u.pc = l /\ u.snap = t.snap /\ u.number = t.number
             /\ u.pull = t.pull
  BY DEF Tasks
<1> QED
  BY <1>1, <1>2 DEF Told, Plain

\* An idle task that is given a label and one more field.
LEMMA BegunFields ==
    ASSUME NEW l \in Labels
    PROVE  /\ \A n \in PullIds \cup {Null} :
                LET u == [Idle EXCEPT !.pc = l, !.number = n] IN
                /\ u \in Tasks /\ u.pc = l /\ u.number = n
                /\ \A p, d : /\ n \in Opened(p) \cup {Null}
                             /\ l \in Plain \/ (l # "recordSubmit" /\ n # Null)
                             => Told(u, p, d)
           /\ \A s \in Snaps :
                LET u == [Idle EXCEPT !.pc = l, !.snap = s] IN
                /\ u \in Tasks /\ u.pc = l /\ u.snap = s
                /\ \A p, d :
                      /\ s.pr \in Opened(p) \cup {Null} /\ l \in Plain
                      /\ s.state # "none" => s.state \in d
                      /\ s.state = "proposed" => Opened(p) # {}
                      => Told(u, p, d)
           /\ LET u == [Idle EXCEPT !.pc = l] IN
              /\ u \in Tasks /\ u.pc = l
              /\ \A p, d : l \in Plain => Told(u, p, d)
<1>1. /\ NoSnap \in Snaps /\ NoSnap.state = "none" /\ NoSnap.pr = Null
      /\ NoPull \in Pulls /\ NoPull.state = "none" /\ Null \in Heads
  BY BoundsAssumption DEF NoSnap, SnapOf, NoRow, Snaps, States, NoPull, Pulls, Heads, Null
<1>2. ASSUME NEW n \in PullIds \cup {Null}
      PROVE  LET u == [Idle EXCEPT !.pc = l, !.number = n] IN
             /\ u \in Tasks /\ u.pc = l /\ u.number = n /\ u.snap = NoSnap /\ u.pull = NoPull
  BY <1>1 DEF Idle, Tasks
<1>3. ASSUME NEW s \in Snaps
      PROVE  LET u == [Idle EXCEPT !.pc = l, !.snap = s] IN
             /\ u \in Tasks /\ u.pc = l /\ u.snap = s /\ u.number = Null /\ u.pull = NoPull
  BY <1>1 DEF Idle, Tasks
<1>4. LET u == [Idle EXCEPT !.pc = l] IN
      /\ u \in Tasks /\ u.pc = l /\ u.snap = NoSnap /\ u.number = Null /\ u.pull = NoPull
  BY <1>1 DEF Idle, Tasks
<1>5. ASSUME NEW u, NEW n, u.pc = l, u.number = n, u.snap = NoSnap, u.pull = NoPull
      PROVE  \A p, d : /\ n \in Opened(p) \cup {Null}
                       /\ l \in Plain \/ (l # "recordSubmit" /\ n # Null)
                       => Told(u, p, d)
  BY <1>1, <1>5 DEF Told, Plain
<1>6. ASSUME NEW u, NEW s, u.pc = l, u.snap = s, u.number = Null, u.pull = NoPull
      PROVE  \A p, d : /\ s.pr \in Opened(p) \cup {Null} /\ l \in Plain
                       /\ s.state # "none" => s.state \in d
                       /\ s.state = "proposed" => Opened(p) # {}
                       => Told(u, p, d)
  BY <1>1, <1>6 DEF Told, Plain
<1>7. \A n \in PullIds \cup {Null} :
         LET u == [Idle EXCEPT !.pc = l, !.number = n] IN
         /\ u \in Tasks /\ u.pc = l /\ u.number = n
         /\ \A p, d : /\ n \in Opened(p) \cup {Null}
                      /\ l \in Plain \/ (l # "recordSubmit" /\ n # Null)
                      => Told(u, p, d)
  BY <1>2, <1>5
<1>8. \A s \in Snaps :
         LET u == [Idle EXCEPT !.pc = l, !.snap = s] IN
         /\ u \in Tasks /\ u.pc = l /\ u.snap = s
         /\ \A p, d : /\ s.pr \in Opened(p) \cup {Null} /\ l \in Plain
                      /\ s.state # "none" => s.state \in d
                      /\ s.state = "proposed" => Opened(p) # {}
                      => Told(u, p, d)
  BY <1>3, <1>6
<1>9. LET u == [Idle EXCEPT !.pc = l] IN
      /\ u \in Tasks /\ u.pc = l
      /\ \A p, d : l \in Plain => Told(u, p, d)
  BY <1>1, <1>4, <1>6
<1> QED
  BY <1>7, <1>8, <1>9

\* A task that begins with what a request read of the row.
BegunOver(l, snap) == [Idle EXCEPT !.pc = l, !.snap = snap]

\* It is a task, at that place and with that row, and told of where the row is.
LEMMA BegunOverFields ==
    ASSUME NEW l \in Labels, l \in Plain, NEW snap \in Snaps
    PROVE  /\ BegunOver(l, snap) \in Tasks
           /\ BegunOver(l, snap).pc = l /\ BegunOver(l, snap).snap = snap
           /\ \A p, d :
                 /\ snap.pr \in Opened(p) \cup {Null}
                 /\ snap.state # "none" => snap.state \in d
                 /\ snap.state = "proposed" => Opened(p) # {}
                 => Told(BegunOver(l, snap), p, d)
BY BegunFields DEF BegunOver

\* The columns of a row that is kept.
LEMMA SnapFields ==
    ASSUME NEW r \in Rows
    PROVE  SnapOf(r) \in Snaps /\ SnapOf(r).state = r.state /\ SnapOf(r).pr = r.pr
BY DEF SnapOf, Snaps, Rows

\* Going to a label is becoming the task with that label.
LEMMA GotoBecomes ==
    ASSUME NEW w, NEW l, Goto(w, l)
    PROVE  Become(w, [task[w] EXCEPT !.pc = l])
BY DEF Goto, Become

-----------------------------------------------------------------------------
(* Steps.  A step moves GitHub onward, which every pass is told of, or       *)
(* leaves it as it is.                                                      *)

Moves ==
    \E b \in Heads, p \in PullMaps :
        GitHubBecomes(b, p) /\ Onward(pulls, p) /\ NumberedIn(p)
Stands(w) ==
    /\ UNCHANGED <<branch, pulls>> /\ truths' \in [Processes -> SUBSET States]
    /\ \A v \in Processes \ {w} : truths'[v] = truths[v]

\* The truth is a state.
LEMMA TruthIsState ==
    ASSUME NEW b, NEW pull \in Pulls
    PROVE  Truth(b, pull) \in States /\ (b = Null \/ pull.state # "none" \/ Truth(b, pull) = "draft")
BY DEF Truth, Pulls, States, OpenStates, TerminalStates

\* GitHub keeps its types and its numbering, and goes onward.
LEMMA GitHubKeeps ==
    ASSUME IInv, NEW w, Moves \/ Stands(w)
    PROVE  /\ branch' \in Heads /\ pulls' \in PullMaps
           /\ truths' \in [Processes -> SUBSET States]
           /\ Onward(pulls, pulls') /\ NumberedIn(pulls')
<1>1. CASE Stands(w)
  BY <1>1, OnwardStay DEF Stands, IInv, TypeOK, PullMaps
<1>2. CASE Moves
  <2>1. PICK b \in Heads, p \in PullMaps :
          GitHubBecomes(b, p) /\ Onward(pulls, p) /\ NumberedIn(p)
    BY <1>2 DEF Moves
  <2>2. \A v \in Processes : Truth(b, PullAt(p, Tracked(p, task[v].snap))) \in States
    <3> SUFFICES ASSUME NEW v \in Processes
                 PROVE  Truth(b, PullAt(p, Tracked(p, task[v].snap))) \in States
      OBVIOUS
    <3>1. task[v].snap.pr \in Opened(p) \cup {Null}
      BY <2>1, OnwardOpened DEF IInv, Told, TypeOK, PullMaps
    <3>2. PullAt(p, Tracked(p, task[v].snap)) \in Pulls
      BY <2>1, <3>1, TrackedIsOpened
    <3> QED
      BY <3>2, TruthIsState
  <2>3. truths \in [Processes -> SUBSET States]
    BY DEF IInv, TypeOK
  <2> QED
    BY <2>1, <2>2, <2>3 DEF GitHubBecomes
<1> QED
  BY <1>1, <1>2

\* What a task that does not move was told and has seen stays true.
LEMMA OthersKeep ==
    ASSUME IInv, NEW w, Moves \/ Stands(w), diary \subseteq diary',
           NEW v \in Processes, Moves \/ v # w, task'[v] = task[v]
    PROVE  Told(task'[v], pulls', diary') /\ Seen(task'[v], branch', pulls', truths'[v])
<1>1. /\ task[v] \in Tasks /\ pulls \in PullMaps /\ NumberedIn(pulls)
      /\ Told(task[v], pulls, diary) /\ Seen(task[v], branch, pulls, truths[v])
  BY DEF IInv, TypeOK, PullMaps
<1>2. pulls' \in PullMaps /\ Onward(pulls, pulls') /\ NumberedIn(pulls')
  BY GitHubKeeps
<1>3. Told(task'[v], pulls', diary')
  BY <1>1, <1>2, ToldStays
<1>4. CASE Stands(w) /\ v # w
  BY <1>1, <1>3, <1>4 DEF Stands
<1>5. CASE Moves
  <2>1. /\ task[v].pc \in PassLabels => truths'[v] = truths[v] \cup
             {Truth(branch', PullAt(pulls', Tracked(pulls', task[v].snap)))}
        /\ task[v].pc \notin PassLabels => truths'[v] = truths[v]
    BY <1>5 DEF Moves, GitHubBecomes, InPass
  <2>2. /\ Seen(task[v], branch', pulls', truths[v] \cup
              {Truth(branch', PullAt(pulls', Tracked(pulls', task[v].snap)))})
        /\ task[v].pc \notin PassLabels => Seen(task[v], branch', pulls', truths[v])
    BY <1>1, <1>2, SeenStays
  <2>3. Seen(task[v], branch', pulls', truths'[v])
    BY <2>1, <2>2
  <2> QED
    BY <1>3, <2>3
<1> QED
  BY <1>4, <1>5

\* What is true of the row stays true while it is not written.
LEMMA RowStays ==
    ASSUME IInv, NEW w, Moves \/ Stands(w), row' = row, diary \subseteq diary'
    PROVE  RowTold'
<1>1. Onward(pulls, pulls') /\ pulls \in PullMaps /\ pulls' \in PullMaps /\ RowTold
  BY GitHubKeeps DEF IInv, TypeOK, PullMaps
<1>2. Opened(pulls) \subseteq Opened(pulls)' /\ (MergedIn(pulls) => MergedIn(pulls)')
  BY <1>1, OnwardOpened
<1> QED
  BY <1>1, <1>2 DEF RowTold, MergedMeansMerged, DiaryTellsState, MergedIn

\* The step of a task: what it becomes, and the row it writes.
LEMMA StepKeeps ==
    ASSUME IInv, NEW w \in Processes, NEW t \in Tasks, Become(w, t), Moves \/ Stands(w),
           diary \subseteq diary', diary' \subseteq States, row' \in Rows, RowTold',
           Told(t, pulls', diary'), Seen(t, branch', pulls', truths'[w]),
           drift' = drift, outside' = outside, faults' \in 0..MaxFaults
    PROVE  IInv'
<1>1. task \in [Processes -> Tasks]
  BY DEF IInv, TypeOK
<1>2. task' \in [Processes -> Tasks] /\ task'[w] = t /\ \A v \in Processes \ {w} : task'[v] = task[v]
  BY <1>1 DEF Become
<1>3. TypeOK'
  BY <1>2, GitHubKeeps DEF IInv, TypeOK, PullMaps
<1>4. \A v \in Processes : Told(task'[v], pulls', diary')
                           /\ Seen(task'[v], branch', pulls', truths'[v])
  BY <1>2, OthersKeep
<1> QED
  BY <1>3, <1>4, GitHubKeeps DEF IInv

\* The step of a task outside a pass that writes nothing.
LEMMA QuietStepKeeps ==
    ASSUME IInv, NEW w \in Processes, NEW t \in Tasks, Become(w, t), Moves \/ Stands(w),
           Told(t, pulls', diary), t.pc \notin PassLabels,
           UNCHANGED <<row, diary, drift, outside, faults>>
    PROVE  IInv'
<1>1. row \in Rows /\ diary \subseteq States /\ faults \in 0..MaxFaults
  BY DEF IInv, TypeOK
<1>2. RowTold' /\ Seen(t, branch', pulls', truths'[w])
  BY RowStays, UnseenOutside
<1> QED
  BY <1>1, <1>2, StepKeeps

-----------------------------------------------------------------------------
(* What the calls of GitHub make of the pull requests.                      *)

Follows(p) == p \in PullMaps /\ Onward(pulls, p) /\ NumberedIn(p)

\* Without a new pull request, and with the merged ones left alone.
LEMMA FollowsSame ==
    ASSUME IInv, NEW p \in PullMaps,
           \A n \in PullIds : /\ (p[n].state = "none") <=> (pulls[n].state = "none")
                              /\ pulls[n].state = "merged" => p[n].state = "merged"
    PROVE  Follows(p)
<1>1. Opened(p) = Opened(pulls)
  BY DEF Opened
<1> QED
  BY <1>1 DEF Follows, Onward, NumberedIn, IInv

\* Pushing, closing with the branch, and leaving them alone.
LEMMA FollowsAll ==
    ASSUME IInv
    PROVE  /\ Follows(pulls) /\ Follows(Closed(pulls))
           /\ \A b \in Heads : Follows(Pushed(pulls, b))
<1>0. pulls \in PullMaps
  BY DEF IInv, TypeOK, PullMaps
<1>1. Follows(pulls)
  BY <1>0, FollowsSame
<1>2. Follows(Closed(pulls))
  <2>1. \A n \in PullIds : pulls[n].state = "open" =>
          /\ [pulls[n] EXCEPT !.state = "closed"] \in Pulls
          /\ [pulls[n] EXCEPT !.state = "closed"].state = "closed"
    BY <1>0 DEF PullMaps, Pulls
  <2> QED
    BY <1>0, <2>1, FollowsSame DEF PullMaps, Closed
<1>3. ASSUME NEW b \in Heads PROVE Follows(Pushed(pulls, b))
  <2>1. \A n \in PullIds : pulls[n].state = "open" =>
          /\ [pulls[n] EXCEPT !.head = b] \in Pulls
          /\ [pulls[n] EXCEPT !.head = b].state = "open"
    BY <1>0 DEF PullMaps, Pulls
  <2> QED
    BY <1>0, <2>1, FollowsSame DEF PullMaps, Pushed
<1> QED
  BY <1>1, <1>2, <1>3

\* Closing, merging and reopening one.
LEMMA FollowsOne ==
    ASSUME IInv, NEW n \in PullIds
    PROVE  /\ pulls[n].state = "open" => /\ Follows([pulls EXCEPT ![n].state = "closed"])
                                         /\ Follows([pulls EXCEPT ![n].state = "merged"])
           /\ pulls[n].state = "closed" =>
                Follows([pulls EXCEPT ![n] = [state |-> "open", head |-> branch]])
<1>0. pulls \in PullMaps /\ pulls[n] \in Pulls /\ branch \in Heads
  BY DEF IInv, TypeOK, PullMaps
<1>1. ASSUME NEW s \in {"closed", "merged"}, pulls[n].state = "open"
      PROVE  Follows([pulls EXCEPT ![n].state = s])
  <2> DEFINE p == [pulls EXCEPT ![n] = [pulls[n] EXCEPT !.state = s]]
  <2>1. [pulls[n] EXCEPT !.state = s] \in Pulls /\ [pulls[n] EXCEPT !.state = s].state = s
    BY <1>0 DEF Pulls
  <2>2. p \in PullMaps /\ p[n].state = s /\ \A k \in PullIds \ {n} : p[k] = pulls[k]
    BY <1>0, <2>1 DEF PullMaps
  <2>3. Follows(p)
    BY <1>1, <2>2, FollowsSame
  <2> QED
    BY <2>3
<1>2. ASSUME pulls[n].state = "closed"
      PROVE  Follows([pulls EXCEPT ![n] = [state |-> "open", head |-> branch]])
  <2> DEFINE p == [pulls EXCEPT ![n] = [state |-> "open", head |-> branch]]
  <2>1. [state |-> "open", head |-> branch] \in Pulls
    BY <1>0 DEF Pulls
  <2>2. p \in PullMaps /\ p[n].state = "open" /\ \A k \in PullIds \ {n} : p[k] = pulls[k]
    BY <1>0, <2>1 DEF PullMaps
  <2>3. Follows(p)
    BY <1>2, <2>2, FollowsSame
  <2> QED
    BY <2>3
<1> QED
  BY <1>1, <1>2

\* Opening one takes the next number, which no pull request has had.
LEMMA FollowsNew ==
    ASSUME IInv, CanOpenPull
    PROVE  Follows(WithPull(pulls)) /\ Opened(WithPull(pulls)) # {}
<1>0. pulls \in PullMaps /\ branch \in Heads
  BY DEF IInv, TypeOK, PullMaps
<1>1. PICK k \in 0..MaxPulls : Opened(pulls) = 1..k
  BY DEF IInv, NumberedIn
<1>2. Newest(pulls) = k /\ k < MaxPulls
  BY <1>0, <1>1, NewestIsLast DEF CanOpenPull
<1> DEFINE p == [pulls EXCEPT ![k + 1] = [state |-> "open", head |-> branch]]
<1>3. WithPull(pulls) = p
  BY <1>2 DEF WithPull
<1>4. k + 1 \in PullIds /\ k + 1 \notin Opened(pulls)
  BY <1>1, <1>2, BoundsAssumption DEF PullIds
<1>5. [state |-> "open", head |-> branch] \in Pulls
  BY <1>0 DEF Pulls
<1>6. p \in PullMaps /\ p[k + 1].state = "open" /\ \A n \in PullIds \ {k + 1} : p[n] = pulls[n]
  BY <1>0, <1>4, <1>5 DEF PullMaps
<1>7. Opened(p) = Opened(pulls) \cup {k + 1}
  BY <1>4, <1>6 DEF Opened
<1>8. Opened(p) = 1..(k + 1) /\ k + 1 \in 0..MaxPulls
  <2>1. k \in Nat /\ k + 1 \in 0..MaxPulls
    BY <1>1, <1>2, BoundsAssumption
  <2>2. (1..k) \cup {k + 1} = 1..(k + 1)
    BY <2>1
  <2> QED
    BY <1>1, <1>7, <2>1, <2>2
<1>9. Onward(pulls, p)
  BY <1>4, <1>6 DEF Onward, Opened
<1> QED
  BY <1>3, <1>6, <1>7, <1>8, <1>9 DEF Follows, NumberedIn

\* GitHub becoming what follows is a move of it.
LEMMA BecomesMoves ==
    ASSUME NEW b \in Heads, NEW p, Follows(p), GitHubBecomes(b, p)
    PROVE  Moves /\ branch' = b /\ pulls' = p
BY DEF Moves, Follows, GitHubBecomes

-----------------------------------------------------------------------------
(* Requests.                                                                *)

\* Where nothing is said about GitHub, it stands.
LEMMA StandsStill ==
    ASSUME IInv, NEW w, UNCHANGED <<branch, pulls, truths>>
    PROVE  Stands(w)
BY DEF Stands, IInv, TypeOK

\* Ending a task, whatever has become of GitHub and of the row meanwhile.
LEMMA IdleKeeps ==
    ASSUME IInv, NEW w \in Processes, Become(w, Idle), Moves \/ Stands(w),
           diary \subseteq diary', diary' \subseteq States, row' \in Rows, RowTold',
           drift' = drift, outside' = outside, faults' \in 0..MaxFaults
    PROVE  IInv'
BY StepKeeps, IdleKnows, TaskFields

\* The requests that only go on to their next call.
LEMMA GoingOn ==
    ASSUME IInv, NEW w \in Requests,
           \/ StartSubmit(w) \/ FindHead(w) \/ ListBranches(w)
    PROVE  IInv'
<1>0. UNCHANGED <<branch, pulls, truths, row, diary, drift, outside, faults>>
  BY DEF StartSubmit, FindHead, ListBranches, github, store, Quiet, counters
<1>1. /\ w \in Processes /\ Stands(w) /\ UNCHANGED <<row, diary, drift, outside, faults>>
      /\ pulls' = pulls /\ task[w] \in Tasks /\ Told(task[w], pulls, diary)
  BY <1>0, StandsStill DEF Processes, IInv, TypeOK
<1>2. ASSUME NEW l \in Plain \ PassLabels, Goto(w, l) PROVE IInv'
  <2> DEFINE t == [task[w] EXCEPT !.pc = l]
  <2>1. t \in Tasks /\ t.pc = l /\ Told(t, pulls, diary)
    BY <1>1, TaskFields DEF Plain
  <2>2. Become(w, t)
    BY <1>2, GotoBecomes
  <2> QED
    BY <1>1, <2>1, <2>2, QuietStepKeeps
<1>3. CASE Become(w, Idle)
  BY <1>1, <1>3, QuietStepKeeps, IdleKnows, TaskFields DEF Idle, PassLabels
<1>4. {"findHead", "createPull", "drillPull"} \subseteq Plain \ PassLabels
  BY DEF Plain, Labels, PassLabels
<1> QED
  BY <1>2, <1>3, <1>4 DEF StartSubmit, FindHead, ListBranches

\* A task that GitHub has answered goes on to a label outside a pass.
LEMMA AnsweredGoesOn ==
    ASSUME IInv, NEW w \in Processes, NEW b \in Heads, NEW p, Follows(p), GitHubBecomes(b, p),
           NEW l \in Labels \ PassLabels,
           \/ Goto(w, l) /\ (l \in Plain \/ (l = "recordSubmit" /\ Opened(p) # {}))
           \/ Become(w, [Idle EXCEPT !.pc = l]) /\ l \in Plain,
           UNCHANGED <<row, diary, drift, outside, faults>>
    PROVE  IInv'
<1>1. Moves /\ pulls' = p
  BY BecomesMoves
<1>2. task[w] \in Tasks /\ Told(task[w], p, diary)
  BY <1>1, ToldStays DEF IInv, TypeOK, Follows, PullMaps
<1>3. CASE Goto(w, l) /\ (l \in Plain \/ (l = "recordSubmit" /\ Opened(p) # {}))
  <2> DEFINE t == [task[w] EXCEPT !.pc = l]
  <2>1. t \in Tasks /\ t.pc = l /\ Told(t, p, diary)
    BY <1>2, <1>3, TaskFields
  <2> QED
    BY <1>1, <1>3, <2>1, GotoBecomes, QuietStepKeeps
<1>4. CASE Become(w, [Idle EXCEPT !.pc = l]) /\ l \in Plain
  <2> DEFINE t == [Idle EXCEPT !.pc = l]
  <2>1. t \in Tasks /\ t.pc = l /\ Told(t, p, diary)
    BY <1>4, BegunFields
  <2> QED
    BY <1>1, <1>4, <2>1, QuietStepKeeps
<1> QED
  BY <1>3, <1>4

\* The requests that change GitHub.
LEMMA GitHubCalls ==
    ASSUME IInv, NEW w \in Requests,
           \/ CreateBranch(w) \/ CreatePull(w) \/ ClosePull(w) \/ DeleteRef(w)
           \/ MergePull(w) \/ DeleteMerged(w)
    PROVE  IInv'
<1>0. /\ UNCHANGED <<row, diary, drift, outside, faults>> /\ w \in Processes
      /\ task[w] \in Tasks /\ Told(task[w], pulls, diary)
  BY DEF CreateBranch, CreatePull, ClosePull, DeleteRef, MergePull, DeleteMerged, store, Quiet,
     counters, Processes, IInv, TypeOK
<1>1. /\ branch \in Heads /\ 1 \in Heads /\ Null \in Heads
      /\ {"insert", "deleteRef", "recordAbandon", "deleteMerged", "recordMerge"}
            \subseteq Plain \ PassLabels
      /\ "recordSubmit" \in Labels \ PassLabels /\ Plain \subseteq Labels
  BY BoundsAssumption DEF IInv, TypeOK, Heads, Null, Labels, PassLabels, Plain
<1>2. ASSUME Become(w, Idle), UNCHANGED <<branch, pulls, truths>> PROVE IInv'
  BY <1>0, <1>2, StandsStill, QuietStepKeeps, IdleKnows, TaskFields DEF Idle, PassLabels
<1>3. CASE CreateBranch(w)
  BY <1>0, <1>1, <1>3, FollowsAll, AnsweredGoesOn DEF CreateBranch
<1>4. CASE CreatePull(w)
  <2>1. CASE CanOpenPull /\ GitHubBecomes(branch, WithPull(pulls)) /\ Goto(w, "recordSubmit")
    BY <1>0, <1>1, <2>1, FollowsNew, AnsweredGoesOn
  <2> QED
    BY <1>2, <1>4, <2>1 DEF CreatePull
<1>5. CASE ClosePull(w)
  <2> DEFINE n == task[w].number
             p == IF pulls[n].state = "open" THEN [pulls EXCEPT ![n].state = "closed"] ELSE pulls
  <2>1. GitHubBecomes(branch, p) /\ Become(w, [Idle EXCEPT !.pc = "deleteRef"])
    BY <1>5 DEF ClosePull
  <2>2. n \in PullIds
    BY <1>0, <1>5 DEF ClosePull, At, Told, Opened
  <2>3. Follows(p)
    BY <2>2, FollowsAll, FollowsOne
  <2> QED
    BY <1>0, <1>1, <2>1, <2>3, AnsweredGoesOn
<1>6. CASE DeleteRef(w)
  <2>1. PICK p \in {pulls, Closed(pulls)} : GitHubBecomes(Null, p)
    BY <1>6 DEF DeleteRef
  <2>2. Follows(p)
    BY <2>1, FollowsAll
  <2>3. Goto(w, "recordAbandon")
    BY <1>6 DEF DeleteRef
  <2> QED
    BY <1>0, <1>1, <2>1, <2>2, <2>3, AnsweredGoesOn
<1>7. CASE MergePull(w)
  <2> DEFINE n == task[w].number
             p == [pulls EXCEPT ![n].state = "merged"]
  <2>1. n \in PullIds
    BY <1>0, <1>7 DEF MergePull, At, Told, Opened
  <2>2. CASE /\ pulls[n].state = "open" /\ GitHubBecomes(branch, p)
             /\ Become(w, [Idle EXCEPT !.pc = "deleteMerged"])
    <3>1. Follows(p)
      BY <2>1, <2>2, FollowsOne
    <3> QED
      BY <1>0, <1>1, <2>2, <3>1, AnsweredGoesOn
  <2> QED
    BY <1>2, <1>7, <2>2 DEF MergePull
<1>8. CASE DeleteMerged(w)
  <2>1. Goto(w, "recordMerge")
    BY <1>8 DEF DeleteMerged
  <2>2. CASE \E p \in {pulls, Closed(pulls)} : GitHubBecomes(Null, p)
    <3>1. PICK p \in {pulls, Closed(pulls)} : GitHubBecomes(Null, p)
      BY <2>2
    <3>2. Follows(p)
      BY <3>1, FollowsAll
    <3> QED
      BY <1>0, <1>1, <2>1, <3>1, <3>2, AnsweredGoesOn
  <2>3. CASE UNCHANGED <<branch, pulls, truths>>
    <3> DEFINE t == [task[w] EXCEPT !.pc = "recordMerge"]
    <3>1. t \in Tasks /\ t.pc = "recordMerge" /\ Told(t, pulls, diary)
      BY <1>0, <1>1, TaskFields
    <3> QED
      BY <1>0, <1>1, <2>1, <2>3, <3>1, StandsStill, GotoBecomes, QuietStepKeeps
  <2> QED
    BY <1>8, <2>2, <2>3 DEF DeleteMerged
<1> QED
  BY <1>3, <1>4, <1>5, <1>6, <1>7, <1>8

\* A row with a state of its own and the pull request of the old row, or none.
LEMMA RowFields ==
    ASSUME NEW s \in States
    PROVE  /\ \A r \in Rows : LET u == [r EXCEPT !.state = s] IN
                 u \in Rows /\ u.state = s /\ u.pr = r.pr
           /\ LET u == [NoRow EXCEPT !.state = s] IN u \in Rows /\ u.state = s /\ u.pr = Null
<1>1. NoRow \in Rows /\ NoRow.pr = Null
  BY BoundsAssumption DEF NoRow, Rows, Heads, Null, PullIds
<1>2. \A r \in Rows : LET u == [r EXCEPT !.state = s] IN
         u \in Rows /\ u.state = s /\ u.pr = r.pr
  BY DEF Rows
<1> QED
  BY <1>1, <1>2

\* What a handler records about the row is told in the diary too.
LEMMA RecordedIsTold ==
    ASSUME IInv, NEW s \in States, UNCHANGED <<branch, pulls>>,
           diary' = diary \cup {s},
           \/ row' = [row EXCEPT !.state = s]
           \/ row' = [NoRow EXCEPT !.state = s],
           s = "proposed" => Opened(pulls) # {}, s = "merged" => MergedIn(pulls)
    PROVE  /\ row' \in Rows /\ row'.state = s /\ diary \subseteq diary' /\ diary' \subseteq States
           /\ RowTold'
<1>1. row \in Rows /\ diary \subseteq States /\ RowTold
  BY DEF IInv, TypeOK
<1>2. row' \in Rows /\ row'.state = s /\ row'.pr \in {row.pr, Null}
  <2>1. LET u == [row EXCEPT !.state = s] IN u \in Rows /\ u.state = s /\ u.pr = row.pr
    BY <1>1, RowFields
  <2>2. LET u == [NoRow EXCEPT !.state = s] IN u \in Rows /\ u.state = s /\ u.pr = Null
    BY RowFields
  <2> QED
    BY <2>1, <2>2
<1> QED
  BY <1>1, <1>2 DEF RowTold, MergedMeansMerged, DiaryTellsState, MergedIn

\* A pass begins with what GitHub is by now, or does not begin.
LEMMA BeginPassKeeps ==
    ASSUME IInv, NEW w \in Processes, NEW r \in Rows, BeginPass(w, r),
           r.pr \in Opened(pulls) \cup {Null}, r.state = "proposed" => Opened(pulls) # {},
           r.state # "none" => r.state \in diary', UNCHANGED <<branch, pulls>>,
           diary \subseteq diary', diary' \subseteq States, row' \in Rows, RowTold',
           UNCHANGED <<drift, outside, faults>>
    PROVE  IInv'
<1>0. /\ pulls \in PullMaps /\ NumberedIn(pulls) /\ truths \in [Processes -> SUBSET States]
      /\ faults' \in 0..MaxFaults
  BY DEF IInv, TypeOK, PullMaps
<1>1. CASE r.state \in OpenStates
  <2> DEFINE t == [Idle EXCEPT !.pc = "readBranch", !.snap = SnapOf(r)]
             truth == Truth(branch, PullAt(pulls, Tracked(pulls, r)))
  <2>1. /\ "readBranch" \in Labels /\ "readBranch" \in Plain /\ "readBranch" \in PassLabels
    BY DEF Labels, Plain, PassLabels
  <2>2. SnapOf(r) \in Snaps /\ SnapOf(r).state = r.state /\ SnapOf(r).pr = r.pr
    BY SnapFields
  <2>3. t \in Tasks /\ t.pc = "readBranch" /\ t.snap = SnapOf(r) /\ Told(t, pulls', diary')
    <3>1. PICK snap : snap = SnapOf(r)
      OBVIOUS
    <3>2. PICK u : u = BegunOver("readBranch", snap)
      OBVIOUS
    <3>3. /\ snap.pr \in Opened(pulls') \cup {Null}
          /\ snap.state # "none" => snap.state \in diary'
          /\ snap.state = "proposed" => Opened(pulls') # {}
      BY <2>2, <3>1
    <3>4. u \in Tasks /\ u.pc = "readBranch" /\ u.snap = snap /\ Told(u, pulls', diary')
      <4>1. /\ u \in Tasks /\ u.pc = "readBranch" /\ u.snap = snap
            /\ \A p, d :
                  /\ snap.pr \in Opened(p) \cup {Null}
                  /\ snap.state # "none" => snap.state \in d
                  /\ snap.state = "proposed" => Opened(p) # {}
                  => Told(u, p, d)
        BY ONLY <2>1, <2>2, <3>1, <3>2, BegunOverFields
      <4> QED
        BY ONLY <3>3, <4>1
    <3>5. t = u
      BY ONLY <3>1, <3>2 DEF BegunOver
    <3> QED
      BY ONLY <3>1, <3>4, <3>5
  <2>4. Become(w, t) /\ truths' = [truths EXCEPT ![w] = {truth}]
    BY <1>1 DEF BeginPass
  <2>5. truth \in States
    BY <1>0, TrackedIsOpened, TruthIsState
  <2>6. Stands(w)
    BY <1>0, <2>4, <2>5 DEF Stands
  <2>7. Tracked(pulls, t.snap) = Tracked(pulls, r)
    BY <2>2, <2>3 DEF Tracked
  <2>8. Seen(t, branch', pulls', truths'[w])
    BY <1>0, <1>1, <2>2, <2>3, <2>4, <2>7 DEF Seen
  <2> HIDE DEF t
  <2> QED
    BY <1>0, <2>3, <2>4, <2>6, <2>8, StepKeeps
<1>2. CASE r.state \notin OpenStates
  <2>1. Become(w, Idle) /\ Stands(w)
    BY <1>0, <1>2 DEF BeginPass, Finish, Stands
  <2> QED
    BY <1>0, <2>1, IdleKeeps
<1> QED
  BY <1>1, <1>2

\* The requests that write the row or the diary.
LEMMA Records ==
    ASSUME IInv, NEW w \in Requests,
           \/ InsertRow(w) \/ RecordSubmit(w) \/ RecordAbandon(w) \/ RecordMerge(w)
           \/ DrillInsert(w)
    PROVE  IInv'
<1>0. /\ UNCHANGED <<branch, pulls, drift, outside, faults>> /\ w \in Processes
      /\ task[w] \in Tasks /\ Told(task[w], pulls, diary) /\ row \in Rows
      /\ diary \subseteq States /\ faults' \in 0..MaxFaults /\ RowTold
      /\ States = {"draft", "proposed", "merged", "abandoned"}
  BY DEF InsertRow, RecordSubmit, RecordAbandon, RecordMerge, DrillInsert, github, Quiet,
     counters, Processes, IInv, TypeOK, States, OpenStates, TerminalStates
<1>1. ASSUME UNCHANGED truths, Become(w, Idle), UNCHANGED <<row, diary>> PROVE IInv'
  BY <1>0, <1>1, StandsStill, QuietStepKeeps, IdleKnows, TaskFields DEF Idle, PassLabels
<1>2. ASSUME NEW s \in States, UNCHANGED truths, Become(w, Idle), diary' = diary \cup {s},
             \/ row' = [row EXCEPT !.state = s]
             \/ row' = [NoRow EXCEPT !.state = s],
             s = "proposed" => Opened(pulls) # {}, s = "merged" => MergedIn(pulls)
      PROVE  IInv'
  BY <1>0, <1>2, StandsStill, RecordedIsTold, IdleKeeps
<1>3. CASE InsertRow(w)
  BY <1>0, <1>1, <1>2, <1>3 DEF InsertRow, Inserted, store
<1>4. CASE RecordAbandon(w)
  BY <1>0, <1>2, <1>4 DEF RecordAbandon, Recorded
<1>5. CASE DrillInsert(w)
  <2> DEFINE s == Rebuilt(task[w].pull)
  <2>1. task[w].pull \in Pulls
    BY <1>0 DEF Tasks
  <2>2. /\ s \in States
        /\ s = "proposed" => Opened(pulls) # {}
        /\ s = "merged" => MergedIn(pulls)
    BY <1>0, <2>1 DEF Rebuilt, Told, Pulls
  <2> HIDE DEF s
  <2>3. CASE row.state = "none"
    BY <1>0, <1>2, <1>5, <2>2, <2>3 DEF DrillInsert, Inserted, s
  <2> QED
    BY <1>1, <1>5, <2>3 DEF DrillInsert, store
<1>6. CASE RecordSubmit(w)
  <2>1. /\ row' = [row EXCEPT !.state = "proposed"] /\ diary' = diary \cup {"proposed"}
        /\ BeginPass(w, row') /\ Opened(pulls) # {}
    BY <1>0, <1>6 DEF RecordSubmit, Recorded, At, Told
  <2>2. /\ row' \in Rows /\ row'.state = "proposed" /\ diary \subseteq diary'
        /\ diary' \subseteq States /\ RowTold'
    BY <1>0, <2>1, RecordedIsTold
  <2>3. row'.pr \in Opened(pulls) \cup {Null}
    BY <1>0, <2>2 DEF RowTold
  <2>4. PICK r \in Rows : r = row'
    BY <2>2
  <2>5. BeginPass(w, r)
    BY <2>1, <2>4 DEF BeginPass
  <2>6. /\ r.state = "proposed" /\ "proposed" \in diary'
        /\ r.pr \in Opened(pulls) \cup {Null}
    BY <2>1, <2>2, <2>3, <2>4
  <2> QED
    BY <1>0, <2>1, <2>2, <2>5, <2>6, BeginPassKeeps
<1>7. CASE RecordMerge(w)
  <2>1. row' = row /\ diary' = diary \cup {"merged"} /\ BeginPass(w, row)
    BY <1>7 DEF RecordMerge
  <2>2. RowTold'
    BY <1>0, <2>1 DEF RowTold, MergedMeansMerged, DiaryTellsState
  <2> QED
    BY <1>0, <2>1, <2>2, BeginPassKeeps DEF RowTold, DiaryTellsState
<1> QED
  BY <1>3, <1>4, <1>5, <1>6, <1>7

\* A sweep begins a pass for the row as it is.
LEMMA SweepKeeps ==
    ASSUME IInv, NEW w \in Processes, StartSweep(w)
    PROVE  IInv'
<1>1. /\ UNCHANGED <<branch, pulls, drift, row, diary, outside, faults>> /\ BeginPass(w, row)
  BY DEF StartSweep, github, store, Quiet, counters
<1>2. row \in Rows /\ diary \subseteq States /\ RowTold
  BY DEF IInv, TypeOK
<1>3. RowTold'
  BY <1>1, <1>2 DEF RowTold, MergedMeansMerged, DiaryTellsState
<1> QED
  BY <1>1, <1>2, <1>3, BeginPassKeeps DEF RowTold, DiaryTellsState

\* The requests that keep the row they read, or look for a pull request.
LEMMA Lookups ==
    ASSUME IInv, NEW w \in Requests,
           StartAbandon(w) \/ StartMerge(w) \/ FindPull(w) \/ DrillPull(w)
    PROVE  IInv'
<1>0. UNCHANGED <<branch, pulls, truths, row, diary, drift, outside, faults>>
  BY DEF StartAbandon, StartMerge, FindPull, DrillPull, github, store, Quiet, counters
<1>1. /\ w \in Processes /\ Stands(w) /\ pulls \in PullMaps /\ NumberedIn(pulls)
      /\ task[w] \in Tasks /\ Told(task[w], pulls, diary) /\ row \in Rows /\ RowTold
  BY <1>0, StandsStill DEF Processes, IInv, TypeOK, PullMaps
<1>2. ASSUME NEW t \in Tasks, Become(w, t), Told(t, pulls, diary), t.pc \notin PassLabels
      PROVE  IInv'
  BY <1>0, <1>1, <1>2, QuietStepKeeps
<1>3. /\ {"findPull", "deleteRef", "drillInsert"} \subseteq Plain
      /\ {"findPull", "closePull", "deleteRef", "mergePull", "drillInsert"} \subseteq Labels \ PassLabels
  BY DEF Plain, Labels, PassLabels
<1>4. CASE StartAbandon(w)
  <2> DEFINE t == [Idle EXCEPT !.pc = "findPull", !.snap = SnapOf(row)]
  <2>1. SnapOf(row) \in Snaps /\ SnapOf(row).state = row.state /\ SnapOf(row).pr = row.pr
    BY <1>1, SnapFields
  <2>2. t \in Tasks /\ t.pc = "findPull" /\ Told(t, pulls, diary)
    <3>1. PICK snap : snap = SnapOf(row)
      OBVIOUS
    <3>2. PICK u : u = BegunOver("findPull", snap)
      OBVIOUS
    <3>3. /\ snap.pr \in Opened(pulls) \cup {Null}
          /\ snap.state # "none" => snap.state \in diary
          /\ snap.state = "proposed" => Opened(pulls) # {}
      BY <1>1, <2>1, <3>1 DEF RowTold, DiaryTellsState
    <3>4. u \in Tasks /\ u.pc = "findPull" /\ u.snap = snap /\ Told(u, pulls, diary)
      <4>1. "findPull" \in Labels /\ "findPull" \in Plain
        BY <1>3
      <4>2. /\ u \in Tasks /\ u.pc = "findPull" /\ u.snap = snap
            /\ \A p, d :
                  /\ snap.pr \in Opened(p) \cup {Null}
                  /\ snap.state # "none" => snap.state \in d
                  /\ snap.state = "proposed" => Opened(p) # {}
                  => Told(u, p, d)
        BY ONLY <2>1, <3>1, <3>2, <4>1, BegunOverFields
      <4> QED
        BY ONLY <3>3, <4>2
    <3>5. t = u
      BY ONLY <3>1, <3>2 DEF BegunOver
    <3> QED
      BY ONLY <3>4, <3>5
  <2> QED
    BY <1>2, <1>3, <1>4, <2>2 DEF StartAbandon
<1>5. CASE StartMerge(w)
  <2> DEFINE t == [Idle EXCEPT !.pc = "mergePull", !.number = row.pr]
  <2>1. row.pr \in PullIds \cup {Null} /\ row.pr \in Opened(pulls) \cup {Null} /\ row.pr # Null
    BY <1>1, <1>5 DEF Rows, RowTold, StartMerge
  <2>2. t \in Tasks /\ t.pc = "mergePull" /\ Told(t, pulls, diary)
    BY <1>3, <2>1, BegunFields
  <2> QED
    BY <1>2, <1>3, <1>5, <2>2 DEF StartMerge
<1>6. CASE FindPull(w)
  <2> DEFINE n == Tracked(pulls, task[w].snap)
             open == PullAt(pulls, n).state = "open"
             t == [Idle EXCEPT !.pc = "closePull", !.number = n]
             u == [Idle EXCEPT !.pc = "deleteRef"]
  <2>1. task[w].snap.pr \in Opened(pulls) \cup {Null}
    BY <1>1 DEF Told
  <2>2. open => n \in Opened(pulls)
    BY <1>1, <2>1, TrackedIsOpened
  <2>3. open => n \in PullIds /\ n # Null
    BY <2>2, BoundsAssumption DEF Opened, PullIds, Null
  <2>4. open => t \in Tasks /\ t.pc = "closePull" /\ Told(t, pulls, diary)
    BY <1>3, <2>2, <2>3, BegunFields
  <2>5. u \in Tasks /\ u.pc = "deleteRef" /\ Told(u, pulls, diary)
    BY <1>3, BegunFields
  <2>6. IF open THEN Become(w, t) ELSE Become(w, u)
    BY <1>6 DEF FindPull
  <2> QED
    BY <1>2, <1>3, <2>4, <2>5, <2>6
<1>7. CASE DrillPull(w)
  <2> DEFINE t == [task[w] EXCEPT !.pc = "drillInsert", !.pull = PullAt(pulls, Newest(pulls))]
  <2>1. PICK k \in 0..MaxPulls : Opened(pulls) = 1..k
    BY <1>1 DEF NumberedIn
  <2>2. Newest(pulls) = k
    BY <1>1, <2>1, NewestIsLast
  <2>3. /\ PullAt(pulls, Newest(pulls)) \in Pulls
        /\ k # 0 => k \in Opened(pulls)
        /\ k = 0 => PullAt(pulls, Newest(pulls)) = NoPull
    BY <1>1, <2>1, <2>2, BoundsAssumption DEF PullAt, PullMaps, PullIds, Null, NoPull, Pulls, Heads
  <2>4. /\ PullAt(pulls, Newest(pulls)).state # "none" => Opened(pulls) # {}
        /\ PullAt(pulls, Newest(pulls)).state = "merged" => MergedIn(pulls)
    BY <2>2, <2>3 DEF NoPull, PullAt, Opened, MergedIn, Null
  <2>5. /\ t \in Tasks /\ t.pc = "drillInsert" /\ t.snap = task[w].snap
        /\ t.number = task[w].number /\ t.pull = PullAt(pulls, Newest(pulls))
    BY <1>1, <1>3, <2>3 DEF Tasks
  <2>6. Told(t, pulls, diary)
    BY <1>1, <1>3, <2>4, <2>5 DEF Told
  <2> QED
    BY <1>2, <1>3, <1>7, <2>5, <2>6 DEF DrillPull
<1> QED
  BY <1>4, <1>5, <1>6, <1>7

-----------------------------------------------------------------------------
(* A pass.                                                                  *)

\* The two reads and the comparison keep what was true since the pass began in
\* sight, so that the verdict is one of those truths.
LEMMA ReadBranchKeeps ==
    ASSUME IInv, NEW w \in Processes, ReadBranch(w)
    PROVE  IInv'
<1> DEFINE t == [task[w] EXCEPT !.pc = "readPull", !.head = branch]
<1>0. /\ UNCHANGED <<branch, pulls, truths, row, diary, drift, outside, faults>>
      /\ At(w, "readBranch") /\ Become(w, t)
  BY DEF ReadBranch, github, store, Quiet, counters
<1>1. /\ Stands(w) /\ pulls \in PullMaps /\ branch \in Heads /\ task[w] \in Tasks
      /\ Told(task[w], pulls, diary) /\ Seen(task[w], branch, pulls, truths[w])
      /\ row \in Rows /\ diary \subseteq States /\ faults \in 0..MaxFaults
  BY <1>0, StandsStill DEF IInv, TypeOK, PullMaps
<1>2. {"readBranch", "readPull"} \subseteq Labels \cap PassLabels
  BY DEF Labels, PassLabels
<1>3. /\ t \in Tasks /\ t.pc = "readPull" /\ t.head = branch /\ t.snap = task[w].snap
      /\ t.number = task[w].number /\ t.pull = task[w].pull
  BY <1>1, <1>2 DEF Tasks
<1>4. Told(t, pulls, diary)
  BY <1>1, <1>3 DEF Told
<1> DEFINE pull == PullAt(pulls, Tracked(pulls, task[w].snap))
<1>5. task[w].snap.state \in OpenStates /\ Truth(branch, pull) \in truths[w]
  BY <1>0, <1>1, <1>2 DEF Seen, At
<1>6. pull.state = "none" => Truth(branch, NoPull) = Truth(branch, pull)
  BY DEF Truth, NoPull
<1>7. Seen(t, branch, pulls, truths[w])
  BY <1>3, <1>5, <1>6 DEF Seen
<1>8. RowTold'
  BY <1>0, <1>1, RowStays
<1> HIDE DEF t
<1> QED
  BY <1>0, <1>1, <1>3, <1>4, <1>7, <1>8, StepKeeps

\* The verdict on the two reads is the truth by now, or, without a pull request,
\* the truth when the branch was read.
LEMMA VerdictIsSeen ==
    ASSUME NEW p \in PullMaps, NumberedIn(p), NEW b, NEW truth, NEW d, NEW t \in Tasks,
           Told(t, p, d), Seen(t, b, p, truth), t.pc = "readPull"
    PROVE  Verdict(t.head, PullAt(p, Tracked(p, t.snap)), t.snap.state) \in truth
<1> DEFINE pull == PullAt(p, Tracked(p, t.snap))
<1>1. t.snap.pr \in Opened(p) \cup {Null}
  BY DEF Told
<1>2. pull \in Pulls /\ (Opened(p) # {} => pull.state # "none")
  BY <1>1, TrackedIsOpened
<1>3. /\ t.snap.state \in OpenStates /\ Truth(b, pull) \in truth
      /\ pull.state = "none" => Truth(t.head, NoPull) \in truth
  BY DEF Seen, PassLabels
<1>4. CASE pull.state # "none"
  <2>1. Verdict(t.head, pull, t.snap.state) = Truth(b, pull)
    BY <1>2, <1>4 DEF Verdict, Truth, Pulls
  <2> QED
    BY <1>3, <2>1
<1>5. CASE pull.state = "none"
  <2>1. t.snap.state = "draft"
    BY <1>2, <1>3, <1>5 DEF OpenStates, Told
  <2>2. Verdict(t.head, pull, t.snap.state) = Truth(t.head, NoPull)
    BY <1>5, <2>1 DEF Verdict, Truth, NoPull
  <2> QED
    BY <1>3, <1>5, <2>2
<1> QED
  BY <1>4, <1>5

\* The second read of a pass, which gives the verdict (reconciler.ts:58-77).
LEMMA ReadPullKeeps ==
    ASSUME IInv, NEW w \in Processes, ReadPull(w)
    PROVE  IInv'
<1> DEFINE n == Tracked(pulls, task[w].snap)
           pull == PullAt(pulls, n)
           open == Verdict(task[w].head, pull, task[w].snap.state) \in OpenStates
           l == IF open /\ task[w].head # Null THEN "compare" ELSE "write"
           dirty == open /\ pull.state = "open" /\ drift = "dirty"
           t == [task[w] EXCEPT !.pc = l, !.number = n, !.pull = pull, !.dirty = dirty]
<1>0. /\ UNCHANGED <<branch, pulls, truths, row, diary, drift, outside, faults>>
      /\ At(w, "readPull") /\ Become(w, t)
  BY DEF ReadPull, github, store, Quiet, counters
<1>1. /\ Stands(w) /\ pulls \in PullMaps /\ NumberedIn(pulls) /\ task[w] \in Tasks
      /\ Told(task[w], pulls, diary) /\ Seen(task[w], branch, pulls, truths[w])
      /\ row \in Rows /\ diary \subseteq States /\ faults \in 0..MaxFaults
  BY <1>0, StandsStill DEF IInv, TypeOK, PullMaps
<1>2. {"readPull", "compare", "write"} \subseteq Labels \cap PassLabels
  BY DEF Labels, PassLabels
<1>3. task[w].snap.pr \in Opened(pulls) \cup {Null}
  BY <1>1 DEF Told
<1>4. /\ n \in Opened(pulls) \cup {Null} /\ pull \in Pulls
      /\ pull.state # "none" => n \in Opened(pulls) /\ pull = pulls[n]
  <2>1. /\ n \in Opened(pulls) \cup {Null} /\ pull \in Pulls
        /\ pull.state # "none" => n \in Opened(pulls)
    BY <1>1, <1>3, TrackedIsOpened
  <2>2. n \in Opened(pulls) => pull = pulls[n]
    BY BoundsAssumption DEF PullAt, Opened, PullIds, Null
  <2> QED
    BY <2>1, <2>2
<1>5. n \in PullIds \cup {Null} /\ dirty \in BOOLEAN /\ l \in Labels /\ l \in {"compare", "write"}
  BY <1>2, <1>4 DEF Opened
<1>6. /\ t \in Tasks /\ t.pc = l /\ t.head = task[w].head /\ t.snap = task[w].snap
      /\ t.number = n /\ t.pull = pull
  <2> HIDE DEF n, pull, dirty, l
  <2> QED
    BY <1>1, <1>4, <1>5 DEF Tasks
<1>7. Told(t, pulls, diary)
  <2>1. pull.state = "merged" => MergedIn(pulls)
    BY <1>4, <1>5 DEF MergedIn, Opened
  <2>2. pull.state # "none" => Opened(pulls) # {}
    BY <1>4
  <2> HIDE DEF n, pull, l, t
  <2> QED
    BY <1>1, <1>4, <1>5, <1>6, <2>1, <2>2 DEF Told
<1>8. task[w].snap.state \in OpenStates /\ Truth(branch, pull) \in truths[w]
  BY <1>0, <1>1, <1>2 DEF Seen, At
<1>9. Verdict(task[w].head, pull, task[w].snap.state) \in truths[w]
  BY <1>0, <1>1, VerdictIsSeen DEF At
<1>10. Seen(t, branch, pulls, truths[w])
  <2> HIDE DEF l, t
  <2> QED
    BY <1>5, <1>6, <1>8, <1>9 DEF Seen
<1>11. RowTold'
  BY <1>0, <1>1, RowStays
<1> HIDE DEF t
<1> QED
  BY <1>0, <1>1, <1>6, <1>7, <1>10, <1>11, StepKeeps

\* The third, which tells only how far behind the branch is.
LEMMA CompareKeeps ==
    ASSUME IInv, NEW w \in Processes, Compare(w)
    PROVE  IInv'
<1> DEFINE t == [task[w] EXCEPT !.pc = "write", !.behind = (drift # "none")]
<1>0. /\ UNCHANGED <<branch, pulls, truths, row, diary, drift, outside, faults>>
      /\ At(w, "compare") /\ Become(w, t)
  BY DEF Compare, github, store, Quiet, counters
<1>1. /\ Stands(w) /\ task[w] \in Tasks
      /\ Told(task[w], pulls, diary) /\ Seen(task[w], branch, pulls, truths[w])
      /\ row \in Rows /\ diary \subseteq States /\ faults \in 0..MaxFaults
  BY <1>0, StandsStill DEF IInv, TypeOK
<1>2. {"compare", "write"} \subseteq Labels \cap PassLabels
  BY DEF Labels, PassLabels
<1>3. /\ t \in Tasks /\ t.pc = "write" /\ t.head = task[w].head /\ t.snap = task[w].snap
      /\ t.number = task[w].number /\ t.pull = task[w].pull
  BY <1>1, <1>2 DEF Tasks
<1>4. Told(t, pulls, diary) /\ Seen(t, branch, pulls, truths[w])
  BY <1>0, <1>1, <1>2, <1>3 DEF Told, Seen, At
<1>5. RowTold'
  BY <1>0, <1>1, RowStays
<1> HIDE DEF t
<1> QED
  BY <1>0, <1>1, <1>3, <1>4, <1>5, StepKeeps

\* The write: its verdict is told of, by this pass or by whoever wrote the row
\* that the pass began with, and merged only over a pull request that is.
LEMMA WriteKeeps ==
    ASSUME IInv, NEW w \in Processes, Write(w)
    PROVE  IInv'
<1> DEFINE t == task[w]
<1>0. /\ UNCHANGED <<branch, pulls, drift, outside, faults>> /\ At(w, "write")
      /\ diary' = IF Decided(w) # t.snap.state THEN diary \cup {Decided(w)} ELSE diary
      /\ row' = [state |-> Decided(w), pr |-> t.number,
                 head |-> FirstOf(t.head, t.pull.head, t.snap.head),
                 behind |-> t.behind, conflicted |-> t.dirty]
      /\ Finish(w)
  BY DEF Write, github, Quiet, counters
<1>1. /\ t \in Tasks /\ Told(t, pulls, diary) /\ Seen(t, branch, pulls, truths[w])
      /\ truths \in [Processes -> SUBSET States] /\ diary \subseteq States
      /\ faults \in 0..MaxFaults
  BY DEF IInv, TypeOK
<1>2. t.snap.state \in OpenStates /\ Decided(w) \in truths[w] /\ Decided(w) \in States
  BY <1>0, <1>1 DEF Seen, At, PassLabels, Decided
<1>3. /\ t.number \in PullIds \cup {Null} /\ t.behind \in BOOLEAN /\ t.dirty \in BOOLEAN
      /\ t.head \in Heads /\ t.pull \in Pulls /\ t.snap \in Snaps
  BY <1>1 DEF Tasks
<1>4. FirstOf(t.head, t.pull.head, t.snap.head) \in Heads
  BY <1>3 DEF FirstOf, Pulls, Snaps
<1>5. row' \in Rows
  BY <1>0, <1>2, <1>3, <1>4 DEF Rows
<1>6. /\ Decided(w) = "merged" => MergedIn(pulls)
      /\ Decided(w) = "proposed" => Opened(pulls) # {}
      /\ Decided(w) \in diary'
  BY <1>0, <1>1, <1>2 DEF Decided, Verdict, Told, OpenStates
<1>7. row'.state = Decided(w) /\ row'.pr = t.number
  BY <1>0
<1>8. RowTold'
  BY <1>0, <1>1, <1>6, <1>7 DEF RowTold, MergedMeansMerged, DiaryTellsState, MergedIn, Told
<1>9. Become(w, Idle) /\ Stands(w)
  BY <1>0, <1>1 DEF Finish, Stands
<1> QED
  BY <1>0, <1>1, <1>2, <1>5, <1>8, <1>9, IdleKeeps

-----------------------------------------------------------------------------
(* Failures, and what happens on GitHub without the console.                *)

\* A task that fails, and the loss of the store, which ends them all.
LEMMA FailuresKeep ==
    ASSUME IInv, (\E w \in Processes : Fail(w)) \/ LoseStore
    PROVE  IInv'
<1>0. /\ truths \in [Processes -> SUBSET States] /\ diary \subseteq States /\ row \in Rows
      /\ pulls \in PullMaps /\ NumberedIn(pulls)
  BY DEF IInv, TypeOK, PullMaps
<1>1. ASSUME NEW w \in Processes, Fail(w) PROVE IInv'
  <2>1. /\ UNCHANGED <<branch, pulls, drift, row, diary, outside>> /\ Become(w, Idle)
        /\ truths' = [truths EXCEPT ![w] = {}] /\ faults' \in 0..MaxFaults
    BY <1>1, BoundsAssumption DEF Fail, Finish, github, store, IInv, TypeOK
  <2>2. Stands(w)
    BY <1>0, <2>1 DEF Stands
  <2>3. RowTold'
    BY <2>1, <2>2, RowStays
  <2> QED
    BY <1>0, <2>1, <2>2, <2>3, IdleKeeps
<1>2. CASE LoseStore
  <2>1. /\ UNCHANGED <<branch, pulls, drift, outside>> /\ row' = NoRow /\ diary' = {}
        /\ task' = [w \in Processes |-> Idle] /\ truths' = [w \in Processes |-> {}]
        /\ faults' \in 0..MaxFaults
    BY <1>2, BoundsAssumption DEF LoseStore, github, IInv, TypeOK
  <2>2. NoRow \in Rows /\ NoRow.pr = Null /\ NoRow.state = "none"
    BY BoundsAssumption DEF NoRow, Rows, Heads, Null, PullIds
  <2>3. TypeOK'
    BY <2>1, <2>2, TaskFields DEF IInv, TypeOK
  <2>4. RowTold'
    BY <2>1, <2>2 DEF RowTold, MergedMeansMerged, DiaryTellsState
  <2>5. \A w \in Processes : Told(task'[w], pulls', diary')
                             /\ Seen(task'[w], branch', pulls', truths'[w])
    BY <2>1, IdleKnows
  <2> QED
    BY <1>0, <2>1, <2>3, <2>4, <2>5 DEF IInv
<1> QED
  BY <1>1, <1>2

\* GitHub moves on and the console does nothing.
LEMMA OutsideMoves ==
    ASSUME IInv, Moves, UNCHANGED <<row, diary, task, faults>>,
           drift' \in {"none", "behind", "dirty"}, outside' \in 0..MaxOutside
    PROVE  IInv'
<1>1. RowTold'
  BY RowStays
<1>2. TypeOK'
  BY GitHubKeeps DEF IInv, TypeOK, PullMaps
<1>3. \A w \in Processes : Told(task'[w], pulls', diary')
                           /\ Seen(task'[w], branch', pulls', truths'[w])
  BY OthersKeep
<1> QED
  BY <1>1, <1>2, <1>3, GitHubKeeps DEF IInv

\* What people do on GitHub, in the middle of whatever the console does.
LEMMA OutsideKeeps ==
    ASSUME IInv, OutsideStep
    PROVE  IInv'
<1>0. /\ UNCHANGED <<row, diary, task, faults>> /\ outside' \in 0..MaxOutside
      /\ branch \in Heads /\ Null \in Heads /\ drift \in {"none", "behind", "dirty"}
  BY BoundsAssumption DEF OutsideStep, Push, BaseMoves, OpenPullOutside, TogglePullOutside,
     MergePullOutside, DeleteBranchOutside, Outside, IInv, TypeOK, Heads, Null
<1>1. ASSUME NEW b \in Heads, NEW p, Follows(p), GitHubBecomes(b, p), UNCHANGED drift
      PROVE  IInv'
  BY <1>0, <1>1, BecomesMoves, OutsideMoves
<1>2. CASE Push
  <2>1. branch + 1 \in Heads
    BY <1>0, <1>2, BoundsAssumption DEF Push, Heads
  <2> QED
    BY <1>1, <1>2, <2>1, FollowsAll DEF Push
<1>3. CASE BaseMoves
  <2>1. UNCHANGED <<branch, pulls, truths>> /\ drift' \in {"none", "behind", "dirty"}
    BY <1>3 DEF BaseMoves
  <2> QED
    BY <1>0, <2>1 DEF IInv, TypeOK, RowTold, MergedMeansMerged, DiaryTellsState
<1>4. CASE OpenPullOutside
  BY <1>0, <1>1, <1>4, FollowsNew DEF OpenPullOutside
<1>5. CASE TogglePullOutside
  <2>1. PICK n \in PullIds :
         \/ /\ pulls[n].state = "open"
            /\ GitHubBecomes(branch, [pulls EXCEPT ![n].state = "closed"])
         \/ /\ pulls[n].state = "closed"
            /\ GitHubBecomes(branch, [pulls EXCEPT ![n] = [state |-> "open", head |-> branch]])
    BY <1>5 DEF TogglePullOutside
  <2>2. UNCHANGED drift
    BY <1>5 DEF TogglePullOutside
  <2> QED
    BY <1>0, <1>1, <2>1, <2>2, FollowsOne
<1>6. CASE MergePullOutside
  <2>1. PICK n \in PullIds, b \in {branch, Null} :
         /\ pulls[n].state = "open"
         /\ GitHubBecomes(b, [pulls EXCEPT ![n].state = "merged"])
    BY <1>6 DEF MergePullOutside
  <2>2. UNCHANGED drift
    BY <1>6 DEF MergePullOutside
  <2> QED
    BY <1>0, <1>1, <2>1, <2>2, FollowsOne
<1>7. CASE DeleteBranchOutside
  BY <1>0, <1>1, <1>7, FollowsAll DEF DeleteBranchOutside
<1> QED
  BY <1>2, <1>3, <1>4, <1>5, <1>6, <1>7 DEF OutsideStep

-----------------------------------------------------------------------------
(* The invariant, and what follows from it.                                 *)

\* The invariant holds at first.
LEMMA InitInvariant ==
    ASSUME Init
    PROVE  IInv
<1>1. /\ NoRow \in Rows /\ NoRow.pr = Null /\ NoRow.state = "none" /\ Null \in Heads
      /\ NoPull \in Pulls /\ NoPull.state = "none" /\ 0 \in 0..MaxOutside /\ 0 \in 0..MaxFaults
  BY BoundsAssumption DEF NoRow, Rows, Heads, Null, PullIds, NoPull, Pulls
<1>2. TypeOK
  BY <1>1, TaskFields DEF Init, TypeOK
<1>3. NumberedIn(pulls)
  <2>1. Opened(pulls) = {} /\ 1..0 = {} /\ 0 \in 0..MaxPulls
    BY <1>1, BoundsAssumption DEF Init, Opened
  <2> QED
    BY <2>1 DEF NumberedIn
<1>4. RowTold
  BY <1>1 DEF Init, RowTold, MergedMeansMerged, DiaryTellsState
<1>5. \A w \in Processes : Told(task[w], pulls, diary) /\ Seen(task[w], branch, pulls, truths[w])
  BY IdleKnows DEF Init
<1> QED
  BY <1>2, <1>3, <1>4, <1>5 DEF IInv

\* The inductive invariant holds throughout.
THEOREM Invariance == Spec => []IInv
<1>1. Init => IInv
  BY InitInvariant
<1>2. IInv /\ [Next]_vars => IInv'
  <2>1. ASSUME IInv, Next PROVE IInv'
    <3>1. ASSUME NEW w \in Requests, StartRequest(w) PROVE IInv'
      <4>1. w \in Processes
        BY DEF Processes
      <4> QED
        BY <2>1, <3>1, <4>1, GitHubCalls, GoingOn, Lookups, SweepKeeps DEF StartRequest
    <3>2. ASSUME NEW w \in Requests, RequestStep(w) PROVE IInv'
      BY <2>1, <3>2, GitHubCalls, GoingOn, Lookups, Records DEF RequestStep
    <3>3. CASE StartSweep(Timer)
      BY <2>1, <3>3, SweepKeeps DEF Processes
    <3>4. ASSUME NEW w \in Processes, PassStep(w) PROVE IInv'
      BY <2>1, <3>4, ReadBranchKeeps, ReadPullKeeps, CompareKeeps, WriteKeeps DEF PassStep
    <3> QED
      BY <2>1, <3>1, <3>2, <3>3, <3>4, FailuresKeep, OutsideKeeps DEF Next
  <2>2. ASSUME IInv, UNCHANGED vars PROVE IInv'
    BY <2>2 DEF vars, IInv, TypeOK, RowTold, MergedMeansMerged, DiaryTellsState
  <2> QED
    BY <2>1, <2>2
<1> QED
  BY <1>1, <1>2, PTL DEF Spec

\* The variables keep their types, whatever handlers, passes, people on GitHub
\* and failures do at the same time.
THEOREM TypeCorrect == Spec => []TypeOK
<1>1. IInv => TypeOK
  BY DEF IInv
<1> QED
  BY <1>1, Invariance, PTL

\* Whatever is about to be written to the row was true on GitHub since the pass
\* began; a row that says merged was merged there; and the diary has an entry
\* for the state of the row.
THEOREM RowIsTrue == Spec => []RowTellsTruth
<1>1. IInv => RowTellsTruth
  <2>1. ASSUME IInv PROVE VerdictsWereTrue
    BY <2>1 DEF VerdictsWereTrue, IInv, Seen, At, Decided
  <2> QED
    BY <2>1 DEF RowTellsTruth, IInv, RowTold
<1> QED
  BY <1>1, Invariance, PTL
=============================================================================
