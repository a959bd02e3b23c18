----------------------- MODULE RefreshingPackage_proofs -----------------------
(***************************************************************************)
(* Proofs about RefreshingPackage, for every graph of layers, every set of  *)
(* callers and readers, and every bound.                                    *)
(***************************************************************************)
EXTENDS RefreshingPackage, FiniteSetTheorems, TLAPS

\* The steps of a refresh that run with the refresh lock held.
Holding == {"probe", "pin", "fetch", "lint", "install", "publish", "fail",
            "emit", "send", "finish"}

Refreshers == Tasks \ {Boot}

\* A handle has been returned.
Live == phase \notin {"loading", "failed"}

\* Who may be where in each phase of the handle, and who holds the lock.
Control ==
    /\ lock # Boot
    /\ \A t \in Refreshers : pc[t] \in Holding <=> lock = t
    /\ pc[Boot] \in {"fetch", "lint", "install", "fail", "done"}
    /\ pc[Boot] = "done" <=> phase # "loading"
    /\ ~Live => lock = Nobody /\ pc[Loop] = "unborn"
    /\ \A c \in Callers : pc[c] \in Holding \cup {"idle", "lock"}
    /\ phase # "serving" => \A c \in Callers : pc[c] = "idle"
    /\ phase = "stopped" => pc[Loop] = "exited"
    /\ \A t \in Tasks : pc[t] \notin {"probe", "fetch"} => at[t] = 1

\* The layers a load in progress has staged.
Staged(t) ==
    IF pc[t] = "fetch" THEN {l \in Layers : IF l = Child THEN at[t] > 1 ELSE l < at[t] - 1}
    ELSE IF pc[t] \in {"lint", "install"} THEN Layers
    ELSE {}

\* A load in progress is a composition of publications no older than the ones
\* that serve; it is never the fallback.
Load(t) ==
    /\ ~got[t].fallback
    /\ \A l \in Staged(t) :
          current.content[l] <= got[t].content[l] /\ got[t].content[l] <= source[l]
    /\ pc[t] \in {"lint", "install"} => got[t].loadedAt = current.loadedAt + 1
    /\ pc[t] = "install" => Accepted(got[t].content)
    /\ pc[t] = "publish" => current = got[t]

\* Nothing serves that was not published.
Loads ==
    /\ \A l \in Layers : current.content[l] <= source[l]
    /\ ~Live => current = Blank
    /\ \A t \in Tasks : Load(t)

\* What the lock holder has read, and is about to say, is about `current`.
Word(t) ==
    /\ pc[t] \in {"probe", "pin"} => seen[t] = current /\ ~current.fallback
    /\ pc[t] \in {"emit", "send", "finish"} =>
          note[t].loadedAt = current.loadedAt /\ note[t].type # "shutdown"
    /\ ImmutableSource /\ ~current.fallback =>
          pc[t] \notin {"fetch", "lint", "install"}

Words ==
    /\ lastEvent.loadedAt <= current.loadedAt
    /\ lastEvent.type = "shutdown" => phase = "stopped"
    /\ \A t \in Refreshers : Word(t)

\* The status is about `current`, except between the swap and the status.
StatusFollows ==
    /\ Live => status.lastSuccess <= current.loadedAt
    /\ Live /\ (\A t \in Refreshers : pc[t] # "publish") =>
          /\ status.lastSuccess = current.loadedAt
          /\ status.servingFallback = current.fallback
          /\ status.immutable => ~current.fallback
    /\ Live /\ current.fallback => status.servingFallback
    /\ streak <= status.failures
    /\ ~Live => streak = 0

\* What a snapshot has read so far.
View(r) ==
    /\ view[r].stage > 0 => Live
    /\ view[r].lastSuccess <= current.loadedAt
    /\ view[r].eventAt <= current.loadedAt
    /\ view[r].stage > 0 /\ current.fallback => view[r].servingFallback
    /\ view[r].stage = 3 =>
          /\ view[r].lastSuccess <= view[r].identityAt
          /\ view[r].eventAt <= view[r].identityAt
          /\ view[r].identityFallback => view[r].servingFallback

ViewsFollow == \A r \in Readers : View(r)
-----------------------------------------------------------------------------
(***************************************************************************)
(* Arithmetic of the backoff, and the broadcast channel.                    *)
(***************************************************************************)
LEMMA LesserFact ==
    ASSUME NEW a \in Nat, NEW b \in Nat
    PROVE  /\ Lesser(a, b) \in Nat
           /\ Lesser(a, b) <= a /\ Lesser(a, b) <= b
           /\ Lesser(a, b) \in {a, b}
BY DEF Lesser

\* 2 ^ n counts the subsets of 1..n.
LEMMA PowerCounts ==
    ASSUME NEW n \in Nat
    PROVE  /\ IsFiniteSet(SUBSET (1..n))
           /\ Cardinality(SUBSET (1..n)) = 2 ^ n
<1>1. IsFiniteSet(1..n) /\ Cardinality(1..n) = n
  BY FS_Interval
<1> QED BY <1>1, FS_SUBSET

\* A power of two is a number,
LEMMA PowerNat == ASSUME NEW n \in Nat PROVE 2 ^ n \in Nat
BY PowerCounts, FS_CardinalityType

\* and grows with the exponent.
LEMMA PowerMonotone ==
    ASSUME NEW m \in Nat, NEW n \in Nat, m <= n
    PROVE  2 ^ m <= 2 ^ n
<1>1. SUBSET (1..m) \subseteq SUBSET (1..n)
  OBVIOUS
<1>2. /\ IsFiniteSet(SUBSET (1..n))
      /\ Cardinality(SUBSET (1..m)) = 2 ^ m
      /\ Cardinality(SUBSET (1..n)) = 2 ^ n
  BY PowerCounts
<1>3. Cardinality(SUBSET (1..m)) <= Cardinality(SUBSET (1..n))
  BY <1>1, <1>2, FS_Subset
<1> QED BY <1>2, <1>3

\* A backoff is a number of ticks.
LEMMA BackoffNat == ASSUME NEW failures \in Nat PROVE FailureBackoff(failures) \in Nat
<1>1. CASE failures = 0
  BY <1>1 DEF FailureBackoff
<1>2. CASE failures # 0
  <2>1. Lesser(failures - 1, 20) \in Nat
    BY <1>2 DEF Lesser
  <2>2. MinBackoff * 2 ^ Lesser(failures - 1, 20) \in Nat
    BY <2>1, PowerNat, OptionsAssumption
  <2> QED BY <1>2, <2>2, OptionsAssumption DEF FailureBackoff, Lesser
<1> QED BY <1>1, <1>2

\* More failures never make the loop retry sooner.
LEMMA BackoffMonotone ==
    ASSUME NEW m \in Nat, NEW n \in Nat, m <= n
    PROVE  FailureBackoff(m) <= FailureBackoff(n)
<1>1. CASE m = 0
  BY <1>1, BackoffNat DEF FailureBackoff
<1>2. CASE m # 0
  <2> DEFINE p == 2 ^ Lesser(m - 1, 20)
             q == 2 ^ Lesser(n - 1, 20)
  <2>1. /\ Lesser(m - 1, 20) \in Nat
        /\ Lesser(n - 1, 20) \in Nat
        /\ Lesser(m - 1, 20) <= Lesser(n - 1, 20)
    BY <1>2 DEF Lesser
  <2>2. p \in Nat /\ q \in Nat /\ p <= q
    BY <2>1, PowerNat, PowerMonotone
  <2> HIDE DEF p, q
  <2>3. /\ MinBackoff * p \in Nat
        /\ MinBackoff * q \in Nat
        /\ MinBackoff * p <= MinBackoff * q
    BY <2>2, OptionsAssumption
  <2>4. Lesser(MinBackoff * p, MaxBackoff) <= Lesser(MinBackoff * q, MaxBackoff)
    BY <2>3, OptionsAssumption DEF Lesser
  <2>5. /\ FailureBackoff(m) = Lesser(MinBackoff * p, MaxBackoff)
        /\ FailureBackoff(n) = Lesser(MinBackoff * q, MaxBackoff)
    BY <1>2 DEF FailureBackoff, p, q
  <2> QED BY <2>4, <2>5
<1> QED BY <1>1, <1>2

LEMMA BroadcastType ==
    ASSUME NEW queue \in Seq(Events), NEW event \in Events
    PROVE  Broadcast(queue, event) \in Seq(Events)
BY OptionsAssumption DEF Broadcast
-----------------------------------------------------------------------------
(***************************************************************************)
(* Type correctness.                                                        *)
(***************************************************************************)
LEMMA InitType == Init => TypeOK
  BY LayersAssumption, OptionsAssumption, BoundsAssumption
  DEF Init, TypeOK, Labels, Contents, Versions, Packages, Statuses, Events, EventTypes,
      Views, Tasks, Boot, Loop, Layers, Blank, NoEvent, NoView

\* What there is at the start is of the types.
LEMMA BlankType ==
    /\ Blank \in Packages
    /\ Bundled \in Packages
    /\ NoEvent \in Events
    /\ NoView \in Views
  BY BoundsAssumption
  DEF Blank, Bundled, NoEvent, NoView, Packages, Contents, Versions, Events,
      EventTypes, Views

\* One field at a time: an update of several is a chain of these.
LEMMA ViewUpdates ==
    ASSUME NEW v \in Views, NEW n \in Nat, NEW b \in BOOLEAN
    PROVE  /\ [v EXCEPT !.stage = 1, !.lastSuccess = n, !.servingFallback = b] \in Views
           /\ [v EXCEPT !.stage = 2, !.eventAt = n] \in Views
           /\ [v EXCEPT !.stage = 3, !.identityAt = n, !.identityFallback = b] \in Views
<1>1. \A w \in Views : [w EXCEPT !.lastSuccess = n] \in Views
  BY DEF Views
<1>2. \A w \in Views : [w EXCEPT !.servingFallback = b] \in Views
  BY DEF Views
<1>3. \A w \in Views : [w EXCEPT !.eventAt = n] \in Views
  BY DEF Views
<1>4. \A w \in Views : [w EXCEPT !.identityAt = n] \in Views
  BY DEF Views
<1>5. \A w \in Views : [w EXCEPT !.identityFallback = b] \in Views
  BY DEF Views
<1>6. [v EXCEPT !.stage = 1, !.lastSuccess = n, !.servingFallback = b] \in Views
  <2>1. [v EXCEPT !.stage = 1] \in Views
    BY DEF Views
  <2>2. [v EXCEPT !.stage = 1, !.lastSuccess = n] \in Views
    BY <2>1, <1>1
  <2> QED BY <2>2, <1>2
<1>7. [v EXCEPT !.stage = 2, !.eventAt = n] \in Views
  <2>1. [v EXCEPT !.stage = 2] \in Views
    BY DEF Views
  <2> QED BY <2>1, <1>3
<1>8. [v EXCEPT !.stage = 3, !.identityAt = n, !.identityFallback = b] \in Views
  <2>1. [v EXCEPT !.stage = 3] \in Views
    BY DEF Views
  <2>2. [v EXCEPT !.stage = 3, !.identityAt = n] \in Views
    BY <2>1, <1>4
  <2> QED BY <2>2, <1>5
<1> QED BY <1>6, <1>7, <1>8

\* A package with another content, or loaded at another time, is a package.
LEMMA PackageUpdates ==
    ASSUME NEW p \in Packages, NEW content \in Contents, NEW n \in Nat
    PROVE  /\ [p EXCEPT !.content = content] \in Packages
           /\ [p EXCEPT !.content = content, !.loadedAt = n] \in Packages
BY DEF Packages

\* A status with another value in one field is a status.
LEMMA StatusUpdates ==
    /\ \A s \in Statuses, n \in Nat : [s EXCEPT !.lastSuccess = n] \in Statuses
    /\ \A s \in Statuses : [s EXCEPT !.failures = 0] \in Statuses
    /\ \A s \in Statuses, b \in BOOLEAN : [s EXCEPT !.lastError = b] \in Statuses
    /\ \A s \in Statuses, b \in BOOLEAN : [s EXCEPT !.immutable = b] \in Statuses
    /\ \A s \in Statuses, b \in BOOLEAN : [s EXCEPT !.servingFallback = b] \in Statuses
BY OptionsAssumption DEF Statuses

\* Beginning to serve leaves every variable in its type,
LEMMA StartType ==
    ASSUME TypeOK, NEW package \in Packages, StartServing(package)
    PROVE  TypeOK'
<1>1. package.loadedAt \in Nat /\ package.fallback \in BOOLEAN
  BY DEF Packages
<1>2. (ImmutableSource /\ ~package.fallback) \in BOOLEAN
  BY DEF ImmutableSource
<1>3. status' \in Statuses
  BY <1>1, <1>2, OptionsAssumption DEF StartServing, Statuses
<1>4. lastEvent' \in Events
  BY <1>1 DEF StartServing, Events, EventTypes
<1>5. got' \in [Tasks -> Packages]
  BY BlankType DEF StartServing, TypeOK
<1>6. pc' \in [Tasks -> {"done", "sleep", "exited"} \cup {pc[u] : u \in Tasks}]
  BY DEF StartServing, TypeOK
<1> QED
  BY <1>3, <1>4, <1>5, <1>6 DEF StartServing, TypeOK, Labels, env

\* and so does every step.
LEMMA TypeStep == TypeOK /\ [Next]_vars => TypeOK'
<1> SUFFICES ASSUME TypeOK, [Next]_vars PROVE TypeOK'
  OBVIOUS
<1> USE DEF TypeOK, Labels, Tasks, Boot, Loop, Goto, env, locals
<1>1. ASSUME NEW l \in Layers, Publish(l) PROVE TypeOK'
  BY <1>1, BoundsAssumption DEF Publish, Contents, Versions
<1>2. ASSUME Outage PROVE TypeOK'
  BY <1>2 DEF Outage
<1>3. ASSUME NEW t \in Tasks, AcquireLock(t) PROVE TypeOK'
  BY <1>3 DEF AcquireLock, Statuses
<1>4. ASSUME NEW t \in Tasks, ProbeLayer(t) PROVE TypeOK'
  <2>1. [type |-> "unchanged", loadedAt |-> seen[t].loadedAt] \in Events
    BY DEF Events, EventTypes, Packages
  <2>2. note' \in [Tasks -> Events]
    BY <1>4, <2>1 DEF ProbeLayer
  <2>3. at' \in [Tasks -> Layers]
    <3>1. /\ at[t] \in Layers /\ 1 \in Layers
          /\ at[t] < NumLayers => at[t] + 1 \in Layers
      BY LayersAssumption DEF Layers
    <3>2. \/ at[t] < NumLayers /\ at' = [at EXCEPT ![t] = @ + 1]
          \/ at' = [at EXCEPT ![t] = 1]
          \/ at' = at
      BY <1>4 DEF ProbeLayer
    <3> QED BY <3>1, <3>2
  <2>4. pc' \in [Tasks -> {"pin", "fetch", "emit"} \cup {pc[u] : u \in Tasks}]
    BY <1>4 DEF ProbeLayer
  <2>5. streak' \in 0..FailureLimit
    BY <1>4, OptionsAssumption DEF ProbeLayer
  <2> QED BY <1>4, <2>2, <2>3, <2>4, <2>5 DEF ProbeLayer
<1>5. ASSUME NEW t \in Tasks, PinImmutable(t) PROVE TypeOK'
  <2>1. status' \in Statuses
    BY <1>5 DEF PinImmutable, Statuses
  <2>2. [type |-> "immutable", loadedAt |-> current.loadedAt] \in Events
    BY DEF Events, EventTypes, Packages
  <2>3. note' \in [Tasks -> Events]
    BY <1>5, <2>2 DEF PinImmutable
  <2> QED BY <1>5, <2>1, <2>3, OptionsAssumption DEF PinImmutable
<1>6. ASSUME NEW t \in Tasks, FetchLayer(t) PROVE TypeOK'
  <2> DEFINE layer == FetchOrder(at[t])
             staged == [got[t].content EXCEPT ![layer] = source[layer]]
  <2>1. layer \in Layers /\ 1 \in Layers
    BY LayersAssumption DEF Layers, FetchOrder, Child
  <2>2. got[t] \in Packages /\ current.loadedAt \in Nat
    BY DEF Packages
  <2>3. staged \in Contents
    BY <2>1, <2>2 DEF Packages, Contents
  <2>4. CASE at[t] < NumLayers
    <3>1. at' \in [Tasks -> Layers]
      <4>1. at[t] \in Layers /\ at[t] + 1 \in Layers
        BY <2>4, LayersAssumption DEF Layers
      <4>2. at' = [at EXCEPT ![t] = @ + 1]
        BY <1>6, <2>4 DEF FetchLayer
      <4> QED BY <4>1, <4>2
    <3>2. [got[t] EXCEPT !.content = staged] \in Packages
      BY <2>2, <2>3 DEF Packages
    <3>3. got' \in [Tasks -> Packages]
      BY <1>6, <2>4, <3>2 DEF FetchLayer
    <3> QED BY <1>6, <2>4, <3>1, <3>3 DEF FetchLayer
  <2>5. CASE ~(at[t] < NumLayers)
    <3>1. at' \in [Tasks -> Layers]
      BY <1>6, <2>1, <2>5 DEF FetchLayer
    <3>2. [got[t] EXCEPT !.content = staged, !.loadedAt = current.loadedAt + 1] \in Packages
      <4> HIDE DEF staged
      <4>1. current.loadedAt + 1 \in Nat
        BY <2>2
      <4> QED BY <2>2, <2>3, <4>1, PackageUpdates
    <3>3. got' \in [Tasks -> Packages]
      BY <1>6, <2>5, <3>2 DEF FetchLayer
    <3> QED BY <1>6, <2>5, <3>1, <3>3 DEF FetchLayer
  <2> QED BY <2>4, <2>5
<1>7. ASSUME NEW t \in Tasks, LintPasses(t) PROVE TypeOK'
  BY <1>7 DEF LintPasses
<1>8. ASSUME NEW t \in Tasks, PipelineFails(t) PROVE TypeOK'
  BY <1>8, LayersAssumption DEF PipelineFails, Layers
<1>9. ASSUME NEW t \in Tasks, SwapCurrent(t) PROVE TypeOK'
  BY <1>9 DEF SwapCurrent
<1>10. ASSUME NEW t \in Tasks, PublishStatus(t) PROVE TypeOK'
  <2>1. got[t].loadedAt \in Nat
    BY DEF Packages
  <2>2. status' \in Statuses
    <3>1. ImmutableSource \in BOOLEAN
      BY DEF ImmutableSource
    <3>2. status \in Statuses
      OBVIOUS
    <3> QED BY <1>10, <2>1, <3>1, <3>2, StatusUpdates DEF PublishStatus
  <2>3. [type |-> "refreshed", loadedAt |-> got[t].loadedAt] \in Events
    BY <2>1 DEF Events, EventTypes
  <2>4. note' \in [Tasks -> Events]
    BY <1>10, <2>3 DEF PublishStatus
  <2> QED BY <1>10, <2>2, <2>4, OptionsAssumption DEF PublishStatus
<1>11. ASSUME NEW t \in Tasks, RecordFailure(t) PROVE TypeOK'
  <2>1. /\ CountFailure(status.failures) \in 0..FailureLimit
        /\ Lesser(streak + 1, FailureLimit) \in 0..FailureLimit
    BY OptionsAssumption DEF CountFailure, Lesser, Statuses
  <2>2. status' \in Statuses
    BY <1>11, <2>1 DEF RecordFailure, Statuses
  <2>3. [type |-> "failed", loadedAt |-> current.loadedAt] \in Events
    BY DEF Events, EventTypes, Packages
  <2>4. note' \in [Tasks -> Events]
    BY <1>11, <2>3 DEF RecordFailure
  <2> QED BY <1>11, <2>1, <2>2, <2>4 DEF RecordFailure
<1>12. ASSUME NEW t \in Tasks, EmitSummary(t) PROVE TypeOK'
  BY <1>12 DEF EmitSummary
<1>13. ASSUME NEW t \in Tasks, EmitBroadcast(t) PROVE TypeOK'
  BY <1>13, BroadcastType DEF EmitBroadcast
<1>14. ASSUME NEW t \in Tasks, FinishRefresh(t) PROVE TypeOK'
  <2>1. status' \in Statuses
    BY <1>14 DEF FinishRefresh, Statuses
  <2>2. /\ seen' \in [Tasks -> Packages]
        /\ got' \in [Tasks -> Packages]
        /\ note' \in [Tasks -> Events]
    BY <1>14, BlankType DEF FinishRefresh
  <2>3. pc' \in [Tasks -> {"idle", "reckon", "halt", "sleep"} \cup {pc[u] : u \in Tasks}]
    BY <1>14 DEF FinishRefresh, Wait
  <2> QED BY <1>14, <2>1, <2>2, <2>3 DEF FinishRefresh, Nobody
<1>15. ASSUME ServePrimary PROVE TypeOK'
  <2>1. got[Boot] \in Packages
    BY DEF Packages
  <2> QED BY <1>15, <2>1, StartType DEF ServePrimary
<1>16. ASSUME ServeFallback PROVE TypeOK'
  <2> QED BY <1>16, BlankType, StartType DEF ServeFallback
<1>17. ASSUME LoadFails PROVE TypeOK'
  BY <1>17, BlankType DEF LoadFails
<1>18. ASSUME PeriodElapses PROVE TypeOK'
  BY <1>18 DEF PeriodElapses
<1>19. ASSUME ChooseBackoff PROVE TypeOK'
  <2>1. FailureBackoff(status.failures) \in Nat
    BY BackoffNat, OptionsAssumption DEF Statuses
  <2> QED BY <1>19, <2>1 DEF ChooseBackoff, Wait
<1>20. ASSUME BackoffElapses PROVE TypeOK'
  BY <1>20 DEF BackoffElapses, Wait
<1>21. ASSUME LoopStops PROVE TypeOK'
  BY <1>21 DEF LoopStops
<1>22. ASSUME AbortLoop PROVE TypeOK'
  BY <1>22, BlankType, LayersAssumption DEF AbortLoop, DropFuture, Awaiting,
     Layers, Nobody
<1>23. ASSUME NEW c \in Callers, RefreshNow(c) PROVE TypeOK'
  BY <1>23 DEF RefreshNow
<1>24. ASSUME NEW c \in Callers, CancelRefreshNow(c) PROVE TypeOK'
  BY <1>24, BlankType, LayersAssumption DEF CancelRefreshNow, DropFuture,
     Awaiting, Layers, Nobody
<1>25. ASSUME NEW r \in Readers, ReadStatus(r) PROVE TypeOK'
  <2>1. status.lastSuccess \in Nat /\ status.servingFallback \in BOOLEAN
    BY DEF Statuses
  <2>2. [NoView EXCEPT !.stage = 1, !.lastSuccess = status.lastSuccess,
                       !.servingFallback = status.servingFallback] \in Views
    BY <2>1, BlankType, ViewUpdates
  <2> QED BY <1>25, <2>2 DEF ReadStatus
<1>26. ASSUME NEW r \in Readers, ReadLastEvent(r) PROVE TypeOK'
  <2>0. view[r] \in Views
    OBVIOUS
  <2>1. lastEvent.loadedAt \in Nat
    BY DEF Events
  <2>2. [view[r] EXCEPT !.stage = 2, !.eventAt = lastEvent.loadedAt] \in Views
    BY <2>1, <2>0, ViewUpdates
  <2> QED BY <1>26, <2>2 DEF ReadLastEvent
<1>27. ASSUME NEW r \in Readers, ReadIdentity(r) PROVE TypeOK'
  <2>0. view[r] \in Views
    OBVIOUS
  <2>1. current.loadedAt \in Nat /\ current.fallback \in BOOLEAN
    BY DEF Packages
  <2>2. [view[r] EXCEPT !.stage = 3, !.identityAt = current.loadedAt,
                        !.identityFallback = current.fallback] \in Views
    BY <2>1, <2>0, ViewUpdates
  <2> QED BY <1>27, <2>2 DEF ReadIdentity
<1>28. ASSUME NEW r \in Readers, ReturnSnapshot(r) PROVE TypeOK'
  BY <1>28, BlankType DEF ReturnSnapshot
<1>29. ASSUME ReceiveEvent PROVE TypeOK'
  BY <1>29 DEF ReceiveEvent
<1>30. ASSUME Shutdown PROVE TypeOK'
  BY <1>30 DEF Shutdown, Owned
<1>31. ASSUME EmitShutdown PROVE TypeOK'
  BY <1>31, BroadcastType DEF EmitShutdown, Events, EventTypes, Packages,
     Contents
<1>32. ASSUME DropHandle PROVE TypeOK'
  BY <1>32 DEF DropHandle, Owned
<1>33. CASE UNCHANGED vars
  BY <1>33 DEF vars
<1> QED
  BY <1>1, <1>2, <1>3, <1>4, <1>5, <1>6, <1>7, <1>8, <1>9, <1>10, <1>11,
     <1>12, <1>13, <1>14, <1>15, <1>16, <1>17, <1>18, <1>19, <1>20, <1>21,
     <1>22, <1>23, <1>24, <1>25, <1>26, <1>27, <1>28, <1>29, <1>30, <1>31,
     <1>32, <1>33 DEF Next, RefreshStep, LoadStep, LoopStep, ReaderStep

\* The variables keep their types, and the failure counter its width.
THEOREM TypeCorrect == Spec => []TypeOK
<1>1. Init => TypeOK
  BY InitType
<1>2. TypeOK /\ [Next]_vars => TypeOK'
  BY TypeStep
<1> QED BY <1>1, <1>2, PTL DEF Spec
-----------------------------------------------------------------------------
(***************************************************************************)
(* The refresh lock, and where every task may be.                           *)
(***************************************************************************)
LEMMA InitControl == Init => Control
  BY TasksAssumption
  DEF Init, Control, Holding, Refreshers, Live, Tasks, Boot, Loop, Nobody

\* Every step leaves each task where its control may be.
LEMMA ControlStep == TypeOK /\ Control /\ [Next]_vars => Control'
<1> SUFFICES ASSUME TypeOK, Control, [Next]_vars PROVE Control'
  OBVIOUS
<1> USE DEF TypeOK, Labels, Control, Holding, Refreshers, Live, Tasks, Boot,
    Loop, Nobody, Goto, env, locals
<1>1. ASSUME NEW l \in Layers, Publish(l) PROVE Control'
  BY <1>1, TasksAssumption DEF Publish
<1>2. ASSUME Outage PROVE Control'
  BY <1>2, TasksAssumption DEF Outage
<1>3. ASSUME NEW t \in Tasks, AcquireLock(t) PROVE Control'
  BY <1>3, TasksAssumption DEF AcquireLock
<1>4. ASSUME NEW t \in Tasks, ProbeLayer(t) PROVE Control'
  <2>1. pc[t] = "probe" /\ t \in Refreshers
    BY <1>4 DEF ProbeLayer
  <2>2. \/ pc' = pc
        \/ /\ pc' \in {[pc EXCEPT ![t] = "emit"], [pc EXCEPT ![t] = "pin"],
                     [pc EXCEPT ![t] = "fetch"]}
           /\ at' = [at EXCEPT ![t] = 1]
    BY <1>4, LayersAssumption DEF ProbeLayer, Layers
  <2>3. \A u \in Tasks : u # t => at'[u] = at[u]
    BY <1>4 DEF ProbeLayer
  <2>4. UNCHANGED <<lock, phase>>
    BY <1>4 DEF ProbeLayer
  <2> QED BY <2>1, <2>2, <2>3, <2>4, TasksAssumption
<1>5. ASSUME NEW t \in Tasks, PinImmutable(t) PROVE Control'
  BY <1>5, TasksAssumption DEF PinImmutable
<1>6. ASSUME NEW t \in Tasks, FetchLayer(t) PROVE Control'
  BY <1>6, TasksAssumption, LayersAssumption DEF FetchLayer, Layers
<1>7. ASSUME NEW t \in Tasks, LintPasses(t) PROVE Control'
  BY <1>7, TasksAssumption DEF LintPasses
<1>8. ASSUME NEW t \in Tasks, PipelineFails(t) PROVE Control'
  BY <1>8, TasksAssumption DEF PipelineFails
<1>9. ASSUME NEW t \in Tasks, SwapCurrent(t) PROVE Control'
  BY <1>9, TasksAssumption DEF SwapCurrent
<1>10. ASSUME NEW t \in Tasks, PublishStatus(t) PROVE Control'
  BY <1>10, TasksAssumption DEF PublishStatus
<1>11. ASSUME NEW t \in Tasks, RecordFailure(t) PROVE Control'
  BY <1>11, TasksAssumption DEF RecordFailure
<1>12. ASSUME NEW t \in Tasks, EmitSummary(t) PROVE Control'
  BY <1>12, TasksAssumption DEF EmitSummary
<1>13. ASSUME NEW t \in Tasks, EmitBroadcast(t) PROVE Control'
  BY <1>13, TasksAssumption DEF EmitBroadcast, Broadcast
<1>14. ASSUME NEW t \in Tasks, FinishRefresh(t) PROVE Control'
  BY <1>14, TasksAssumption DEF FinishRefresh, Wait
<1>15. ASSUME ServePrimary PROVE Control'
  BY <1>15, TasksAssumption DEF ServePrimary, StartServing
<1>16. ASSUME ServeFallback PROVE Control'
  BY <1>16, TasksAssumption DEF ServeFallback, StartServing
<1>17. ASSUME LoadFails PROVE Control'
  BY <1>17, TasksAssumption DEF LoadFails
<1>18. ASSUME PeriodElapses PROVE Control'
  BY <1>18, TasksAssumption DEF PeriodElapses
<1>19. ASSUME ChooseBackoff PROVE Control'
  BY <1>19, TasksAssumption DEF ChooseBackoff, Wait
<1>20. ASSUME BackoffElapses PROVE Control'
  BY <1>20, TasksAssumption DEF BackoffElapses, Wait
<1>21. ASSUME LoopStops PROVE Control'
  BY <1>21, TasksAssumption DEF LoopStops
<1>22. ASSUME AbortLoop PROVE Control'
  BY <1>22, TasksAssumption DEF AbortLoop, DropFuture, Awaiting
<1>23. ASSUME NEW c \in Callers, RefreshNow(c) PROVE Control'
  BY <1>23, TasksAssumption DEF RefreshNow
<1>24. ASSUME NEW c \in Callers, CancelRefreshNow(c) PROVE Control'
  BY <1>24, TasksAssumption DEF CancelRefreshNow, DropFuture, Awaiting
<1>25. ASSUME NEW r \in Readers, ReadStatus(r) PROVE Control'
  BY <1>25, TasksAssumption DEF ReadStatus
<1>26. ASSUME NEW r \in Readers, ReadLastEvent(r) PROVE Control'
  BY <1>26, TasksAssumption DEF ReadLastEvent
<1>27. ASSUME NEW r \in Readers, ReadIdentity(r) PROVE Control'
  BY <1>27, TasksAssumption DEF ReadIdentity
<1>28. ASSUME NEW r \in Readers, ReturnSnapshot(r) PROVE Control'
  BY <1>28, TasksAssumption DEF ReturnSnapshot
<1>29. ASSUME ReceiveEvent PROVE Control'
  BY <1>29, TasksAssumption DEF ReceiveEvent
<1>30. ASSUME Shutdown PROVE Control'
  BY <1>30, TasksAssumption DEF Shutdown, Owned
<1>31. ASSUME EmitShutdown PROVE Control'
  BY <1>31, TasksAssumption DEF EmitShutdown, Broadcast
<1>32. ASSUME DropHandle PROVE Control'
  BY <1>32, TasksAssumption DEF DropHandle, Owned
<1>33. CASE UNCHANGED vars
  BY <1>33, TasksAssumption DEF vars
<1> QED
  BY <1>1, <1>2, <1>3, <1>4, <1>5, <1>6, <1>7, <1>8, <1>9, <1>10, <1>11,
     <1>12, <1>13, <1>14, <1>15, <1>16, <1>17, <1>18, <1>19, <1>20, <1>21,
     <1>22, <1>23, <1>24, <1>25, <1>26, <1>27, <1>28, <1>29, <1>30, <1>31,
     <1>32, <1>33 DEF Next, RefreshStep, LoadStep, LoopStep, ReaderStep
-----------------------------------------------------------------------------
(***************************************************************************)
(* Loads: what is staged, and what serves.                                  *)
(***************************************************************************)
LEMMA Numbers ==
    ASSUME TypeOK
    PROVE  \A l \in Layers :
              /\ source[l] \in Int
              /\ current.content[l] \in Int
              /\ \A t \in Tasks : got[t].content[l] \in Int
<1>1. Versions \subseteq Int
  BY BoundsAssumption DEF Versions
<1>2. \A p \in Packages, l \in Layers : p.content[l] \in Int
  BY <1>1 DEF Packages, Contents
<1> QED BY <1>1, <1>2 DEF TypeOK, Contents

\* What fetching one layer does to the package in hand.
LEMMA FetchedLayer ==
    ASSUME TypeOK, NEW t \in Tasks, FetchLayer(t)
    PROVE  LET layer == FetchOrder(at[t])
           IN  /\ layer \in Layers
               /\ \A k \in Layers \ {layer} : got'[t].content[k] = got[t].content[k]
               /\ got'[t].content[layer] = source[layer]
               /\ got'[t].fallback = got[t].fallback
               /\ at[t] = NumLayers => got'[t].loadedAt = current.loadedAt + 1
<1> DEFINE layer == FetchOrder(at[t])
           staged == [got[t].content EXCEPT ![layer] = source[layer]]
<1>1. layer \in Layers
  BY LayersAssumption DEF TypeOK, Layers, FetchOrder, Child
<1>2. got[t] \in Packages /\ got[t].content \in Contents
  BY DEF TypeOK, Packages
<1>3. /\ \A k \in Layers \ {layer} : staged[k] = got[t].content[k]
      /\ staged[layer] = source[layer]
  BY <1>1, <1>2 DEF Contents
<1>4. \/ /\ at[t] < NumLayers
         /\ got'[t] = [got[t] EXCEPT !.content = staged]
      \/ /\ ~(at[t] < NumLayers)
         /\ got'[t] = [got[t] EXCEPT !.content = staged,
                                     !.loadedAt = current.loadedAt + 1]
  BY DEF FetchLayer, TypeOK
<1> HIDE DEF staged
<1>5. /\ got'[t].content = staged
      /\ got'[t].fallback = got[t].fallback
      /\ ~(at[t] < NumLayers) => got'[t].loadedAt = current.loadedAt + 1
  BY <1>2, <1>4 DEF Packages
<1>6. at[t] = NumLayers => ~(at[t] < NumLayers)
  BY LayersAssumption
<1> QED BY <1>1, <1>3, <1>5, <1>6

\* At the start no load has fetched anything,
LEMMA InitLoads == Init => Loads
  BY LayersAssumption
  DEF Init, Loads, Load, Staged, Live, Blank, Layers, Child, Tasks, Boot, Loop

\* and nothing serves, or is about to, that was not published, after every step.
LEMMA LoadsStep == TypeOK /\ Control /\ Loads /\ [Next]_vars => Loads'
<1> SUFFICES ASSUME TypeOK, Control, Loads, [Next]_vars PROVE Loads'
  OBVIOUS
<1> USE DEF TypeOK, Labels, Control, Loads, Load, Staged, Holding, Refreshers,
    Live, Tasks, Boot, Loop, Nobody, Goto, env, locals
<1>1. ASSUME NEW l \in Layers, Publish(l) PROVE Loads'
  <2>1. \A k \in Layers : source[k] <= source'[k]
    BY <1>1, Numbers DEF Publish
  <2>2. UNCHANGED <<current, phase, pc, at, got>>
    BY <1>1 DEF Publish
  <2>3. /\ \A k \in Layers : source'[k] \in Int
        /\ \A u \in Tasks : Staged(u) \subseteq Layers
    BY <1>1, Numbers DEF Publish
  <2>4. \A k \in Layers : current.content[k] <= source'[k]
    BY <2>1, <2>3, Numbers
  <2>5. \A u \in Tasks : \A k \in Staged(u) : /\ current.content[k] <= got[u].content[k]
                                            /\ got[u].content[k] <= source'[k]
    <3> SUFFICES ASSUME NEW u \in Tasks, NEW k \in Staged(u)
                 PROVE  /\ current.content[k] <= got[u].content[k]
                        /\ got[u].content[k] <= source'[k]
      OBVIOUS
    <3>1. k \in Layers
      BY <2>3
    <3>2. Load(u)
      OBVIOUS
    <3> QED BY <2>1, <2>3, <3>1, <3>2, Numbers
  <2> QED BY <2>2, <2>4, <2>5
<1>2. ASSUME Outage PROVE Loads'
  BY <1>2, TasksAssumption DEF Outage
<1>3. ASSUME NEW t \in Tasks, AcquireLock(t) PROVE Loads'
  <2>1. at[t] = 1 /\ pc'[t] \in {"fetch", "probe"}
    BY <1>3 DEF AcquireLock
  <2>2. UNCHANGED <<current, source, phase, at, got>>
    BY <1>3 DEF AcquireLock
  <2>3. Staged(t)' = {}
    BY <2>1, <2>2, LayersAssumption DEF Layers, Child
  <2>4. \A u \in Tasks : u # t => pc'[u] = pc[u]
    BY <1>3 DEF AcquireLock
  <2> QED BY <2>1, <2>2, <2>3, <2>4
<1>4. ASSUME NEW t \in Tasks, ProbeLayer(t) PROVE Loads'
  <2>1. \/ pc'[t] \in {"probe", "emit", "pin"}
        \/ pc'[t] = "fetch" /\ at'[t] = 1
    BY <1>4 DEF ProbeLayer
  <2>2. UNCHANGED <<current, source, phase, got>>
    BY <1>4 DEF ProbeLayer
  <2>3. Staged(t)' = {}
    BY <2>1, LayersAssumption DEF Layers, Child
  <2>4. \A u \in Tasks : u # t => pc'[u] = pc[u] /\ at'[u] = at[u]
    BY <1>4 DEF ProbeLayer
  <2> QED BY <2>1, <2>2, <2>3, <2>4
<1>5. ASSUME NEW t \in Tasks, PinImmutable(t) PROVE Loads'
  BY <1>5, TasksAssumption DEF PinImmutable
<1>6. ASSUME NEW t \in Tasks, FetchLayer(t) PROVE Loads'
  <2> DEFINE layer == FetchOrder(at[t])
  <2>1. /\ \A k \in Layers \ {layer} : got'[t].content[k] = got[t].content[k]
        /\ got'[t].content[layer] = source[layer]
        /\ got'[t].fallback = got[t].fallback
    BY <1>6, FetchedLayer
  <2>2. Staged(t)' \subseteq Staged(t) \cup {layer} /\ Staged(t)' \subseteq Layers
    <3>1. CASE at[t] < NumLayers
      <4>1. pc'[t] = "fetch" /\ at'[t] = at[t] + 1 /\ at[t] \in Layers
        BY <1>6, <3>1 DEF FetchLayer
      <4>2. Staged(t)' = {l \in Layers : IF l = Child THEN at[t] + 1 > 1 ELSE l < at[t]}
        BY <4>1, LayersAssumption DEF Layers
      <4>3. Staged(t) = {l \in Layers : IF l = Child THEN at[t] > 1 ELSE l < at[t] - 1}
        BY <1>6 DEF FetchLayer
      <4> QED BY <4>1, <4>2, <4>3, LayersAssumption DEF FetchOrder, Layers, Child
    <3>2. CASE ~(at[t] < NumLayers)
      <4>1. pc'[t] = "lint" /\ pc[t] = "fetch" /\ at[t] = NumLayers
        BY <1>6, <3>2, LayersAssumption DEF FetchLayer, Layers
      <4>2. Staged(t)' = Layers
        BY <4>1
      <4>3. Staged(t) = {l \in Layers : IF l = Child THEN at[t] > 1 ELSE l < at[t] - 1}
        BY <4>1
      <4>4. PICK n : n = at[t]
        OBVIOUS
      <4>5. layer = IF n = 1 THEN NumLayers ELSE n - 1
        BY ONLY <4>4 DEF FetchOrder, Child
      <4>6. n = NumLayers /\ Staged(t) = {l \in 1..NumLayers : IF l = NumLayers THEN n > 1 ELSE l < n - 1}
        BY ONLY <4>1, <4>3, <4>4 DEF Layers, Child
      <4> HIDE DEF Staged, layer
      <4> QED BY ONLY <4>2, <4>5, <4>6, LayersAssumption DEF Layers
    <3> QED BY <3>1, <3>2
  <2>3. \/ pc'[t] = "fetch"
        \/ pc'[t] = "lint" /\ got'[t].loadedAt = current.loadedAt + 1
    <3>1. at[t] < NumLayers \/ at[t] = NumLayers
      BY LayersAssumption DEF Layers
    <3>2. at[t] < NumLayers => pc'[t] = "fetch"
      BY <1>6 DEF FetchLayer
    <3>3. at[t] = NumLayers => pc'[t] \in {"fetch", "lint"}
      BY <1>6 DEF FetchLayer
    <3>4. at[t] = NumLayers => got'[t].loadedAt = current.loadedAt + 1
      BY <1>6, FetchedLayer
    <3> HIDE DEF Load, Loads, Control, TypeOK
    <3> QED BY <3>1, <3>2, <3>3, <3>4
  <2>4. UNCHANGED <<current, source, phase>>
    BY <1>6 DEF FetchLayer
  <2>5. \A u \in Tasks : u # t => pc'[u] = pc[u] /\ at'[u] = at[u] /\ got'[u] = got[u]
    BY <1>6 DEF FetchLayer
  <2>6. \A k \in Staged(t)' : /\ current.content[k] <= got'[t].content[k]
                             /\ got'[t].content[k] <= source[k]
    BY <2>1, <2>2, Numbers
  <2>7. Load(t)'
    BY <2>1, <2>3, <2>4, <2>6
  <2>8. \A u \in Tasks : u # t => Load(u)'
    BY <2>4, <2>5
  <2> QED BY <2>4, <2>7, <2>8
<1>7. ASSUME NEW t \in Tasks, LintPasses(t) PROVE Loads'
  BY <1>7, TasksAssumption DEF LintPasses
<1>8. ASSUME NEW t \in Tasks, PipelineFails(t) PROVE Loads'
  BY <1>8, TasksAssumption DEF PipelineFails
<1>9. ASSUME NEW t \in Tasks, SwapCurrent(t) PROVE Loads'
  BY <1>9, TasksAssumption DEF SwapCurrent
<1>10. ASSUME NEW t \in Tasks, PublishStatus(t) PROVE Loads'
  BY <1>10, TasksAssumption DEF PublishStatus
<1>11. ASSUME NEW t \in Tasks, RecordFailure(t) PROVE Loads'
  BY <1>11, TasksAssumption DEF RecordFailure
<1>12. ASSUME NEW t \in Tasks, EmitSummary(t) PROVE Loads'
  BY <1>12, TasksAssumption DEF EmitSummary
<1>13. ASSUME NEW t \in Tasks, EmitBroadcast(t) PROVE Loads'
  BY <1>13, TasksAssumption DEF EmitBroadcast, Broadcast
<1>14. ASSUME NEW t \in Tasks, FinishRefresh(t) PROVE Loads'
  <2>1. ~got'[t].fallback /\ Staged(t)' = {}
    BY <1>14, TasksAssumption DEF FinishRefresh, Wait, Blank
  <2>2. \A u \in Tasks : u # t => pc'[u] = pc[u] /\ at'[u] = at[u] /\ got'[u] = got[u]
    BY <1>14 DEF FinishRefresh
  <2>3. UNCHANGED <<current, source, phase>> /\ pc'[t] \notin {"lint", "install", "publish"}
    BY <1>14 DEF FinishRefresh, Wait
  <2> QED BY <2>1, <2>2, <2>3
<1>15. ASSUME ServePrimary PROVE Loads'
  <2>1. current' = got[Boot] /\ UNCHANGED source
    BY <1>15 DEF ServePrimary, StartServing
  <2>2. \A l \in Layers : got[Boot].content[l] <= source[l]
    BY <1>15 DEF ServePrimary
  <2>3. pc[Boot] # "done" /\ phase' = "serving" /\ phase = "loading"
    BY <1>15 DEF ServePrimary, StartServing
  <2>4. \A t \in Tasks : ~got'[t].fallback
    BY <1>15, TasksAssumption DEF ServePrimary, StartServing, Blank
  <2>5. \A t \in Tasks : pc'[t] \in {"done", "sleep", "exited", "idle"}
    BY <1>15, <2>3, TasksAssumption DEF ServePrimary, StartServing
  <2> QED BY <2>1, <2>2, <2>3, <2>4, <2>5
<1>16. ASSUME ServeFallback PROVE Loads'
  <2>1. current' = Bundled /\ UNCHANGED source
    BY <1>16 DEF ServeFallback, StartServing
  <2>2. pc[Boot] # "done" /\ phase' = "serving" /\ phase = "loading"
    BY <1>16 DEF ServeFallback, StartServing
  <2>3. \A l \in Layers : Bundled.content[l] <= source[l]
    BY <2>2 DEF Blank, Bundled
  <2>4. \A t \in Tasks : ~got'[t].fallback
    BY <1>16, TasksAssumption DEF ServeFallback, StartServing, Blank
  <2>5. \A t \in Tasks : pc'[t] \in {"done", "sleep", "exited", "idle"}
    BY <1>16, <2>2, TasksAssumption DEF ServeFallback, StartServing
  <2> QED BY <2>1, <2>2, <2>3, <2>4, <2>5
<1>17. ASSUME LoadFails PROVE Loads'
  <2>1. ~got'[Boot].fallback /\ Staged(Boot)' = {} /\ pc'[Boot] = "done"
    BY <1>17 DEF LoadFails, Blank
  <2>2. \A u \in Tasks : u # Boot => pc'[u] = pc[u] /\ got'[u] = got[u]
    BY <1>17 DEF LoadFails
  <2>3. UNCHANGED <<current, source, at>> /\ phase' = "failed" /\ phase = "loading"
    BY <1>17 DEF LoadFails
  <2> QED BY <2>1, <2>2, <2>3
<1>18. ASSUME PeriodElapses PROVE Loads'
  BY <1>18, TasksAssumption DEF PeriodElapses
<1>19. ASSUME ChooseBackoff PROVE Loads'
  BY <1>19, TasksAssumption DEF ChooseBackoff, Wait
<1>20. ASSUME BackoffElapses PROVE Loads'
  BY <1>20, TasksAssumption DEF BackoffElapses, Wait
<1>21. ASSUME LoopStops PROVE Loads'
  BY <1>21, TasksAssumption DEF LoopStops
<1>22. ASSUME AbortLoop PROVE Loads'
  <2>1. ~got'[Loop].fallback /\ Staged(Loop)' = {}
    BY <1>22, TasksAssumption DEF AbortLoop, DropFuture, Blank
  <2>2. \A u \in Tasks : u # Loop => pc'[u] = pc[u] /\ at'[u] = at[u] /\ got'[u] = got[u]
    BY <1>22 DEF AbortLoop, DropFuture
  <2>3. UNCHANGED <<current, source, phase>> /\ pc'[Loop] \notin {"lint", "install", "publish"}
    BY <1>22 DEF AbortLoop, DropFuture
  <2> QED BY <2>1, <2>2, <2>3
<1>23. ASSUME NEW c \in Callers, RefreshNow(c) PROVE Loads'
  BY <1>23, TasksAssumption DEF RefreshNow
<1>24. ASSUME NEW c \in Callers, CancelRefreshNow(c) PROVE Loads'
  <2>1. ~got'[c].fallback /\ Staged(c)' = {}
    BY <1>24, TasksAssumption DEF CancelRefreshNow, DropFuture, Blank
  <2>2. \A u \in Tasks : u # c => pc'[u] = pc[u] /\ at'[u] = at[u] /\ got'[u] = got[u]
    BY <1>24 DEF CancelRefreshNow, DropFuture
  <2>3. UNCHANGED <<current, source, phase>> /\ pc'[c] \notin {"lint", "install", "publish"}
    BY <1>24 DEF CancelRefreshNow, DropFuture
  <2> QED BY <2>1, <2>2, <2>3
<1>25. ASSUME NEW r \in Readers, ReadStatus(r) PROVE Loads'
  BY <1>25, TasksAssumption DEF ReadStatus
<1>26. ASSUME NEW r \in Readers, ReadLastEvent(r) PROVE Loads'
  BY <1>26, TasksAssumption DEF ReadLastEvent
<1>27. ASSUME NEW r \in Readers, ReadIdentity(r) PROVE Loads'
  BY <1>27, TasksAssumption DEF ReadIdentity
<1>28. ASSUME NEW r \in Readers, ReturnSnapshot(r) PROVE Loads'
  BY <1>28, TasksAssumption DEF ReturnSnapshot
<1>29. ASSUME ReceiveEvent PROVE Loads'
  BY <1>29, TasksAssumption DEF ReceiveEvent
<1>30. ASSUME Shutdown PROVE Loads'
  BY <1>30, TasksAssumption DEF Shutdown, Owned
<1>31. ASSUME EmitShutdown PROVE Loads'
  BY <1>31, TasksAssumption DEF EmitShutdown, Broadcast
<1>32. ASSUME DropHandle PROVE Loads'
  BY <1>32, TasksAssumption DEF DropHandle, Owned
<1>33. CASE UNCHANGED vars
  BY <1>33, TasksAssumption DEF vars
<1> QED
  BY <1>1, <1>2, <1>3, <1>4, <1>5, <1>6, <1>7, <1>8, <1>9, <1>10, <1>11,
     <1>12, <1>13, <1>14, <1>15, <1>16, <1>17, <1>18, <1>19, <1>20, <1>21,
     <1>22, <1>23, <1>24, <1>25, <1>26, <1>27, <1>28, <1>29, <1>30, <1>31,
     <1>32, <1>33 DEF Next, RefreshStep, LoadStep, LoopStep, ReaderStep
-----------------------------------------------------------------------------
(***************************************************************************)
(* What a refresh is about to say.                                          *)
(***************************************************************************)
LEMMA InitWords == Init => Words
  BY DEF Init, Words, Word, Refreshers, Tasks, Boot, Loop, Blank, NoEvent

\* What the lock holder has read and is about to say is of what serves, after every
\* step.
LEMMA WordsStep == TypeOK /\ Control /\ Loads /\ Words /\ [Next]_vars => Words'
<1> SUFFICES ASSUME TypeOK, Control, Loads, Words, [Next]_vars PROVE Words'
  OBVIOUS
<1> USE DEF TypeOK, Labels, Control, Loads, Load, Words, Word, Holding,
    Refreshers, Live, Tasks, Boot, Loop, Nobody, Goto, env, locals
<1>1. ASSUME NEW l \in Layers, Publish(l) PROVE Words'
  BY <1>1, TasksAssumption DEF Publish
<1>2. ASSUME Outage PROVE Words'
  BY <1>2, TasksAssumption DEF Outage
<1>3. ASSUME NEW t \in Tasks, AcquireLock(t) PROVE Words'
  BY <1>3, TasksAssumption DEF AcquireLock
<1>4. ASSUME NEW t \in Tasks, ProbeLayer(t) PROVE Words'
  <2>1. t \in Refreshers /\ seen[t] = current /\ ~current.fallback
    BY <1>4 DEF ProbeLayer
  <2>2. UNCHANGED <<current, lastEvent, phase, seen>>
    BY <1>4 DEF ProbeLayer
  <2>3. \A u \in Refreshers : u # t => pc'[u] = pc[u] /\ note'[u] = note[u]
    BY <1>4 DEF ProbeLayer
  <2>4. ImmutableSource => pc'[t] \in {"probe", "pin", "emit"}
    BY <1>4 DEF ProbeLayer, Probe, ImmutableSource
  <2>5. \/ pc'[t] \in {"probe", "pin", "fetch"}
        \/ /\ pc'[t] = "emit"
           /\ note'[t] = [type |-> "unchanged", loadedAt |-> seen[t].loadedAt]
    BY <1>4 DEF ProbeLayer
  <2>6. Word(t)'
    BY <2>1, <2>2, <2>4, <2>5 DEF ImmutableSource
  <2> QED BY <2>2, <2>3, <2>6 DEF ImmutableSource
<1>5. ASSUME NEW t \in Tasks, PinImmutable(t) PROVE Words'
  BY <1>5, TasksAssumption DEF PinImmutable
<1>6. ASSUME NEW t \in Tasks, FetchLayer(t) PROVE Words'
  BY <1>6, TasksAssumption DEF FetchLayer
<1>7. ASSUME NEW t \in Tasks, LintPasses(t) PROVE Words'
  BY <1>7, TasksAssumption DEF LintPasses
<1>8. ASSUME NEW t \in Tasks, PipelineFails(t) PROVE Words'
  BY <1>8, TasksAssumption DEF PipelineFails
<1>9. ASSUME NEW t \in Tasks, SwapCurrent(t) PROVE Words'
  <2>1. t \in Refreshers /\ lock = t /\ pc'[t] = "publish"
    BY <1>9 DEF SwapCurrent
  <2>2. current'.loadedAt = current.loadedAt + 1
    BY <1>9 DEF SwapCurrent
  <2>3. current.loadedAt \in Nat /\ lastEvent.loadedAt \in Nat
    BY DEF Packages, Events
  <2>4. \A u \in Refreshers : u # t => pc'[u] = pc[u] /\ pc[u] \notin Holding
    BY <1>9, <2>1 DEF SwapCurrent
  <2>5. UNCHANGED <<lastEvent, phase>>
    BY <1>9 DEF SwapCurrent
  <2> QED BY <2>1, <2>2, <2>3, <2>4, <2>5
<1>10. ASSUME NEW t \in Tasks, PublishStatus(t) PROVE Words'
  BY <1>10, TasksAssumption DEF PublishStatus
<1>11. ASSUME NEW t \in Tasks, RecordFailure(t) PROVE Words'
  BY <1>11, TasksAssumption DEF RecordFailure
<1>12. ASSUME NEW t \in Tasks, EmitSummary(t) PROVE Words'
  <2>1. t \in Refreshers /\ lastEvent' = note[t]
    BY <1>12 DEF EmitSummary
  <2>2. note[t].loadedAt = current.loadedAt /\ note[t].type # "shutdown"
    BY <1>12, <2>1 DEF EmitSummary
  <2>3. UNCHANGED <<current, note, seen, phase>> /\ current.loadedAt \in Nat
    BY <1>12 DEF EmitSummary, Packages
  <2>4. \A u \in Refreshers : Word(u)'
    BY <1>12, <2>2, <2>3 DEF EmitSummary, ImmutableSource
  <2> QED BY <2>1, <2>2, <2>3, <2>4
<1>13. ASSUME NEW t \in Tasks, EmitBroadcast(t) PROVE Words'
  BY <1>13, TasksAssumption DEF EmitBroadcast, Broadcast
<1>14. ASSUME NEW t \in Tasks, FinishRefresh(t) PROVE Words'
  BY <1>14, TasksAssumption DEF FinishRefresh, Wait
<1>15. ASSUME ServePrimary PROVE Words'
  <2>1. current'.loadedAt \in Nat /\ lastEvent'.loadedAt = current'.loadedAt
    BY <1>15, TypeStep DEF ServePrimary, StartServing, Packages
  <2>2. lastEvent'.type # "shutdown"
    BY <1>15 DEF ServePrimary, StartServing
  <2>3. \A t \in Refreshers : pc'[t] \in {"idle", "sleep", "exited"}
    BY <1>15, TasksAssumption DEF ServePrimary, StartServing
  <2> QED BY <2>1, <2>2, <2>3
<1>16. ASSUME ServeFallback PROVE Words'
  <2>1. current'.loadedAt \in Nat /\ lastEvent'.loadedAt = current'.loadedAt
    BY <1>16, TypeStep DEF ServeFallback, StartServing, Packages
  <2>2. lastEvent'.type # "shutdown"
    BY <1>16 DEF ServeFallback, StartServing
  <2>3. \A t \in Refreshers : pc'[t] \in {"idle", "sleep", "exited"}
    BY <1>16, TasksAssumption DEF ServeFallback, StartServing
  <2> QED BY <2>1, <2>2, <2>3
<1>17. ASSUME LoadFails PROVE Words'
  BY <1>17, TasksAssumption DEF LoadFails
<1>18. ASSUME PeriodElapses PROVE Words'
  BY <1>18, TasksAssumption DEF PeriodElapses
<1>19. ASSUME ChooseBackoff PROVE Words'
  BY <1>19, TasksAssumption DEF ChooseBackoff, Wait
<1>20. ASSUME BackoffElapses PROVE Words'
  BY <1>20, TasksAssumption DEF BackoffElapses, Wait
<1>21. ASSUME LoopStops PROVE Words'
  BY <1>21, TasksAssumption DEF LoopStops
<1>22. ASSUME AbortLoop PROVE Words'
  BY <1>22, TasksAssumption DEF AbortLoop, DropFuture, Awaiting
<1>23. ASSUME NEW c \in Callers, RefreshNow(c) PROVE Words'
  BY <1>23, TasksAssumption DEF RefreshNow
<1>24. ASSUME NEW c \in Callers, CancelRefreshNow(c) PROVE Words'
  BY <1>24, TasksAssumption DEF CancelRefreshNow, DropFuture, Awaiting
<1>25. ASSUME NEW r \in Readers, ReadStatus(r) PROVE Words'
  BY <1>25, TasksAssumption DEF ReadStatus
<1>26. ASSUME NEW r \in Readers, ReadLastEvent(r) PROVE Words'
  BY <1>26, TasksAssumption DEF ReadLastEvent
<1>27. ASSUME NEW r \in Readers, ReadIdentity(r) PROVE Words'
  BY <1>27, TasksAssumption DEF ReadIdentity
<1>28. ASSUME NEW r \in Readers, ReturnSnapshot(r) PROVE Words'
  BY <1>28, TasksAssumption DEF ReturnSnapshot
<1>29. ASSUME ReceiveEvent PROVE Words'
  BY <1>29, TasksAssumption DEF ReceiveEvent
<1>30. ASSUME Shutdown PROVE Words'
  BY <1>30, TasksAssumption DEF Shutdown, Owned
<1>31. ASSUME EmitShutdown PROVE Words'
  <2>1. lastEvent' = [type |-> "shutdown", loadedAt |-> current.loadedAt]
    BY <1>31 DEF EmitShutdown
  <2>2. UNCHANGED <<current, note, seen, pc>> /\ phase' = "stopped"
    BY <1>31 DEF EmitShutdown
  <2>3. current.loadedAt \in Nat
    BY DEF Packages
  <2> QED BY <2>1, <2>2, <2>3 DEF ImmutableSource
<1>32. ASSUME DropHandle PROVE Words'
  BY <1>32, TasksAssumption DEF DropHandle, Owned
<1>33. CASE UNCHANGED vars
  BY <1>33, TasksAssumption DEF vars
<1> QED
  BY <1>1, <1>2, <1>3, <1>4, <1>5, <1>6, <1>7, <1>8, <1>9, <1>10, <1>11,
     <1>12, <1>13, <1>14, <1>15, <1>16, <1>17, <1>18, <1>19, <1>20, <1>21,
     <1>22, <1>23, <1>24, <1>25, <1>26, <1>27, <1>28, <1>29, <1>30, <1>31,
     <1>32, <1>33 DEF Next, RefreshStep, LoadStep, LoopStep, ReaderStep
-----------------------------------------------------------------------------
(***************************************************************************)
(* The status against the package that serves.                              *)
(***************************************************************************)
LEMMA InitStatus == Init => StatusFollows
  BY DEF Init, StatusFollows, Live, Blank

\* The status follows what serves, after every step.
LEMMA StatusStep ==
    TypeOK /\ Control /\ Loads /\ Words /\ StatusFollows /\ [Next]_vars => StatusFollows'
<1> SUFFICES ASSUME TypeOK, Control, Loads, Words, StatusFollows, [Next]_vars PROVE StatusFollows'
  OBVIOUS
<1> USE DEF TypeOK, Labels, Control, Loads, Load, Words, Word, StatusFollows,
    Holding, Refreshers, Live, Tasks, Boot, Loop, Nobody, Goto, env, locals
<1>1. ASSUME NEW l \in Layers, Publish(l) PROVE StatusFollows'
  BY <1>1, TasksAssumption DEF Publish
<1>2. ASSUME Outage PROVE StatusFollows'
  BY <1>2, TasksAssumption DEF Outage
<1>3. ASSUME NEW t \in Tasks, AcquireLock(t) PROVE StatusFollows'
  BY <1>3, TasksAssumption DEF AcquireLock
<1>4. ASSUME NEW t \in Tasks, ProbeLayer(t) PROVE StatusFollows'
  <2>1. pc[t] = "probe" /\ pc'[t] # "publish"
    BY <1>4 DEF ProbeLayer
  <2>2. \A u \in Tasks : u # t => pc'[u] = pc[u]
    BY <1>4 DEF ProbeLayer
  <2>3. UNCHANGED <<current, status, phase>> /\ streak' \in {streak, 0}
    BY <1>4 DEF ProbeLayer
  <2>4. status.failures \in Nat
    BY OptionsAssumption DEF Statuses
  <2> QED BY <2>1, <2>2, <2>3, <2>4
<1>5. ASSUME NEW t \in Tasks, PinImmutable(t) PROVE StatusFollows'
  <2>1. /\ t \in Refreshers /\ ~current.fallback
        /\ pc[t] # "publish" /\ pc'[t] # "publish"
    BY <1>5 DEF PinImmutable
  <2>2. \A u \in Tasks : u # t => pc'[u] = pc[u]
    BY <1>5 DEF PinImmutable
  <2>3. /\ UNCHANGED <<current, phase>> /\ streak' = 0
        /\ status'.lastSuccess = status.lastSuccess
        /\ status'.servingFallback = status.servingFallback
        /\ status'.failures = status.failures
    BY <1>5 DEF PinImmutable, Statuses
  <2>4. status.failures \in Nat
    BY OptionsAssumption DEF Statuses
  <2> QED BY <2>1, <2>2, <2>3, <2>4
<1>6. ASSUME NEW t \in Tasks, FetchLayer(t) PROVE StatusFollows'
  BY <1>6, TasksAssumption DEF FetchLayer
<1>7. ASSUME NEW t \in Tasks, LintPasses(t) PROVE StatusFollows'
  BY <1>7, TasksAssumption DEF LintPasses
<1>8. ASSUME NEW t \in Tasks, PipelineFails(t) PROVE StatusFollows'
  BY <1>8, TasksAssumption DEF PipelineFails
<1>9. ASSUME NEW t \in Tasks, SwapCurrent(t) PROVE StatusFollows'
  <2>1. t \in Refreshers /\ pc'[t] = "publish" /\ UNCHANGED <<status, phase, streak>>
    BY <1>9 DEF SwapCurrent
  <2>2. current'.loadedAt = current.loadedAt + 1 /\ ~current'.fallback /\ Live
    BY <1>9, <2>1 DEF SwapCurrent
  <2>3. current.loadedAt \in Nat /\ status.lastSuccess \in Nat
    BY DEF Packages, Statuses
  <2> QED BY <2>1, <2>2, <2>3
<1>10. ASSUME NEW t \in Tasks, PublishStatus(t) PROVE StatusFollows'
  <2>1. /\ current.loadedAt = got[t].loadedAt
        /\ current.fallback = FALSE /\ current.loadedAt \in Nat
    BY <1>10 DEF PublishStatus, Packages
  <2>2. /\ UNCHANGED <<current, phase>> /\ streak' = 0
        /\ status'.lastSuccess = got[t].loadedAt
        /\ status'.servingFallback = FALSE
        /\ status'.failures = 0
    BY <1>10 DEF PublishStatus, Statuses
  <2>3. /\ status'.lastSuccess = current'.loadedAt
        /\ status'.servingFallback = current'.fallback
        /\ ~current'.fallback
    BY <2>1, <2>2
  <2> QED BY <2>1, <2>2, <2>3
<1>11. ASSUME NEW t \in Tasks, RecordFailure(t) PROVE StatusFollows'
  <2>1. t \in Refreshers /\ pc[t] # "publish" /\ pc'[t] # "publish" /\ Live
    BY <1>11 DEF RecordFailure
  <2>2. \A u \in Tasks : u # t => pc'[u] = pc[u]
    BY <1>11 DEF RecordFailure
  <2>3. /\ UNCHANGED <<current, phase>>
        /\ streak' = Lesser(streak + 1, FailureLimit)
        /\ status'.failures = CountFailure(status.failures)
        /\ status'.lastSuccess = status.lastSuccess
        /\ status'.servingFallback = status.servingFallback
        /\ status'.immutable = status.immutable
    BY <1>11 DEF RecordFailure, Statuses
  <2>4. streak' <= status'.failures
    BY <2>3, OptionsAssumption DEF CountFailure, Lesser, Statuses
  <2> QED BY <2>1, <2>2, <2>3, <2>4
<1>12. ASSUME NEW t \in Tasks, EmitSummary(t) PROVE StatusFollows'
  BY <1>12, TasksAssumption DEF EmitSummary
<1>13. ASSUME NEW t \in Tasks, EmitBroadcast(t) PROVE StatusFollows'
  BY <1>13, TasksAssumption DEF EmitBroadcast, Broadcast
<1>14. ASSUME NEW t \in Tasks, FinishRefresh(t) PROVE StatusFollows'
  BY <1>14, TasksAssumption DEF FinishRefresh, Wait
<1>15. ASSUME ServePrimary PROVE StatusFollows'
  <2>1. /\ current' = got[Boot] /\ phase' = "serving" /\ phase = "loading"
        /\ status'.lastSuccess = got[Boot].loadedAt
        /\ status'.servingFallback = got[Boot].fallback
        /\ status'.immutable => ~got[Boot].fallback
        /\ status'.failures = 0 /\ streak' = streak
    BY <1>15 DEF ServePrimary, StartServing
  <2>2. current'.loadedAt \in Nat
    BY TypeStep DEF Packages
  <2> QED BY <2>1, <2>2
<1>16. ASSUME ServeFallback PROVE StatusFollows'
  <2>1. /\ current' = Bundled /\ phase' = "serving" /\ phase = "loading"
        /\ status'.lastSuccess = Bundled.loadedAt
        /\ status'.servingFallback = Bundled.fallback
        /\ status'.immutable => ~Bundled.fallback
        /\ status'.failures = 0 /\ streak' = streak
    BY <1>16 DEF ServeFallback, StartServing
  <2>2. current'.loadedAt \in Nat
    BY TypeStep DEF Packages
  <2> QED BY <2>1, <2>2
<1>17. ASSUME LoadFails PROVE StatusFollows'
  BY <1>17, TasksAssumption DEF LoadFails
<1>18. ASSUME PeriodElapses PROVE StatusFollows'
  BY <1>18, TasksAssumption DEF PeriodElapses
<1>19. ASSUME ChooseBackoff PROVE StatusFollows'
  BY <1>19, TasksAssumption DEF ChooseBackoff, Wait
<1>20. ASSUME BackoffElapses PROVE StatusFollows'
  BY <1>20, TasksAssumption DEF BackoffElapses, Wait
<1>21. ASSUME LoopStops PROVE StatusFollows'
  BY <1>21, TasksAssumption DEF LoopStops
<1>22. ASSUME AbortLoop PROVE StatusFollows'
  BY <1>22, TasksAssumption DEF AbortLoop, DropFuture, Awaiting
<1>23. ASSUME NEW c \in Callers, RefreshNow(c) PROVE StatusFollows'
  BY <1>23, TasksAssumption DEF RefreshNow
<1>24. ASSUME NEW c \in Callers, CancelRefreshNow(c) PROVE StatusFollows'
  BY <1>24, TasksAssumption DEF CancelRefreshNow, DropFuture, Awaiting
<1>25. ASSUME NEW r \in Readers, ReadStatus(r) PROVE StatusFollows'
  BY <1>25, TasksAssumption DEF ReadStatus
<1>26. ASSUME NEW r \in Readers, ReadLastEvent(r) PROVE StatusFollows'
  BY <1>26, TasksAssumption DEF ReadLastEvent
<1>27. ASSUME NEW r \in Readers, ReadIdentity(r) PROVE StatusFollows'
  BY <1>27, TasksAssumption DEF ReadIdentity
<1>28. ASSUME NEW r \in Readers, ReturnSnapshot(r) PROVE StatusFollows'
  BY <1>28, TasksAssumption DEF ReturnSnapshot
<1>29. ASSUME ReceiveEvent PROVE StatusFollows'
  BY <1>29, TasksAssumption DEF ReceiveEvent
<1>30. ASSUME Shutdown PROVE StatusFollows'
  BY <1>30, TasksAssumption DEF Shutdown, Owned
<1>31. ASSUME EmitShutdown PROVE StatusFollows'
  BY <1>31, TasksAssumption DEF EmitShutdown, Broadcast
<1>32. ASSUME DropHandle PROVE StatusFollows'
  BY <1>32, TasksAssumption DEF DropHandle, Owned
<1>33. CASE UNCHANGED vars
  BY <1>33, TasksAssumption DEF vars
<1> QED
  BY <1>1, <1>2, <1>3, <1>4, <1>5, <1>6, <1>7, <1>8, <1>9, <1>10, <1>11,
     <1>12, <1>13, <1>14, <1>15, <1>16, <1>17, <1>18, <1>19, <1>20, <1>21,
     <1>22, <1>23, <1>24, <1>25, <1>26, <1>27, <1>28, <1>29, <1>30, <1>31,
     <1>32, <1>33 DEF Next, RefreshStep, LoadStep, LoopStep, ReaderStep
-----------------------------------------------------------------------------
(***************************************************************************)
(* The package that serves only moves forward.                              *)
(***************************************************************************)
LEMMA Forward ==
    ASSUME TypeOK, Control, Loads, [Next]_vars
    PROVE  /\ current.loadedAt <= current'.loadedAt
           /\ Live => Live' /\ (current'.fallback => current.fallback)
<1> USE DEF Live, Goto, env
<1>1. current.loadedAt \in Nat
  BY DEF TypeOK, Packages
<1>2. ASSUME NEW t \in Tasks, SwapCurrent(t)
      PROVE  current'.loadedAt = current.loadedAt + 1 /\ ~current'.fallback /\ phase' = phase
  BY <1>2 DEF SwapCurrent, Loads, Load
<1>3. ASSUME LoadStep
      PROVE  ~Live /\ current.loadedAt = 0
  BY <1>3 DEF LoadStep, ServePrimary, ServeFallback, LoadFails, Control, Loads, Blank
<1>4. current'.loadedAt \in Nat
  BY TypeStep DEF TypeOK, Packages
<1>5. ASSUME NEW t \in Tasks, RefreshStep(t), ~SwapCurrent(t)
      PROVE  UNCHANGED <<current, phase>>
  BY <1>5
  DEF RefreshStep, AcquireLock, ProbeLayer, PinImmutable, FetchLayer, LintPasses,
      PipelineFails, PublishStatus, RecordFailure, EmitSummary, EmitBroadcast,
      FinishRefresh
<1>6. ASSUME LoopStep
      PROVE  UNCHANGED <<current, phase>>
  BY <1>6
  DEF LoopStep, PeriodElapses, ChooseBackoff, BackoffElapses, LoopStops,
      AbortLoop, DropFuture
<1>7. ASSUME NEW r \in Readers, ReaderStep(r)
      PROVE  UNCHANGED <<current, phase>>
  BY <1>7
  DEF ReaderStep, ReadStatus, ReadLastEvent, ReadIdentity, ReturnSnapshot
<1>8. ASSUME \/ \E l \in Layers : Publish(l)
             \/ Outage
             \/ \E c \in Callers : RefreshNow(c) \/ CancelRefreshNow(c)
             \/ ReceiveEvent
      PROVE  UNCHANGED <<current, phase>>
  BY <1>8
  DEF Publish, Outage, RefreshNow, CancelRefreshNow, DropFuture, ReceiveEvent
<1>9. ASSUME Shutdown \/ EmitShutdown \/ DropHandle
      PROVE  current' = current /\ Live'
  BY <1>9 DEF Shutdown, EmitShutdown, DropHandle, Owned
<1>10. CASE UNCHANGED vars
  BY <1>1, <1>10 DEF vars
<1> QED
  BY <1>1, <1>2, <1>3, <1>4, <1>5, <1>6, <1>7, <1>8, <1>9, <1>10 DEF Next
-----------------------------------------------------------------------------
(***************************************************************************)
(* Snapshots.                                                               *)
(***************************************************************************)
LEMMA InitViews == Init => ViewsFollow
  BY DEF Init, ViewsFollow, View, NoView, Blank

\* A view changes by a step of its reader only.
LEMMA OnlyReadersRead ==
    ASSUME [Next]_vars
    PROVE  UNCHANGED view \/ \E r \in Readers : ReaderStep(r)
<1> USE DEF env
<1>1. ASSUME NEW t \in Tasks, RefreshStep(t) PROVE UNCHANGED view
  BY <1>1
  DEF RefreshStep, AcquireLock, ProbeLayer, PinImmutable, FetchLayer, LintPasses,
      PipelineFails, SwapCurrent, PublishStatus, RecordFailure, EmitSummary,
      EmitBroadcast, FinishRefresh
<1>2. ASSUME LoadStep \/ LoopStep PROVE UNCHANGED view
  BY <1>2
  DEF LoadStep, ServePrimary, ServeFallback, StartServing, LoadFails, LoopStep,
      PeriodElapses, ChooseBackoff, BackoffElapses, LoopStops, AbortLoop,
      DropFuture
<1>3. ASSUME \/ \E l \in Layers : Publish(l)
             \/ Outage
             \/ \E c \in Callers : RefreshNow(c) \/ CancelRefreshNow(c)
             \/ ReceiveEvent \/ Shutdown \/ EmitShutdown \/ DropHandle
      PROVE  UNCHANGED view
  BY <1>3
  DEF Publish, Outage, RefreshNow, CancelRefreshNow, DropFuture, ReceiveEvent,
      Shutdown, EmitShutdown, DropHandle
<1>4. CASE UNCHANGED vars
  BY <1>4 DEF vars
<1> QED BY <1>1, <1>2, <1>3, <1>4 DEF Next

\* What a reader has seen is in the order it was written, after every step.
LEMMA ViewsStep ==
    TypeOK /\ Control /\ Loads /\ Words /\ StatusFollows /\ ViewsFollow /\ [Next]_vars
        => ViewsFollow'
<1> SUFFICES ASSUME TypeOK, Control, Loads, Words, StatusFollows, ViewsFollow, [Next]_vars
             PROVE  ViewsFollow'
  OBVIOUS
<1>1. /\ current.loadedAt \in Nat /\ current'.loadedAt \in Nat
      /\ status.lastSuccess \in Nat /\ lastEvent.loadedAt \in Nat
  BY TypeStep DEF TypeOK, Packages, Statuses, Events
<1>2. CASE UNCHANGED view
  <2> SUFFICES ASSUME NEW r \in Readers PROVE View(r)'
    BY DEF ViewsFollow
  <2>1. View(r) /\ view[r] \in Views
    BY DEF ViewsFollow, TypeOK
  <2>2. /\ view'[r] = view[r]
        /\ view[r].lastSuccess \in Nat
        /\ view[r].eventAt \in Nat
    BY <1>2, <2>1 DEF Views
  <2> QED BY <1>1, <2>1, <2>2, Forward DEF View
<1>3. ASSUME NEW r \in Readers, ReaderStep(r) PROVE ViewsFollow'
  <2>1. UNCHANGED <<current, phase>>
    BY <1>3
    DEF ReaderStep, ReadStatus, ReadLastEvent, ReadIdentity, ReturnSnapshot
  <2>2. \A q \in Readers : q # r => view'[q] = view[q]
    BY <1>3
    DEF ReaderStep, ReadStatus, ReadLastEvent, ReadIdentity, ReturnSnapshot, TypeOK
  <2>3. \A q \in Readers : q # r => View(q)'
    BY <2>1, <2>2 DEF ViewsFollow, View, Live
  <2>4. View(r) /\ view[r] \in Views
    BY DEF ViewsFollow, TypeOK
  <2>5. ASSUME ReadStatus(r) PROVE View(r)'
    <3>1. /\ view'[r].stage = 1 /\ view'[r].eventAt = 0
          /\ view'[r].lastSuccess = status.lastSuccess
          /\ view'[r].servingFallback = status.servingFallback
      BY <2>5 DEF ReadStatus, NoView, TypeOK
    <3>2. phase = "serving"
      BY <2>5 DEF ReadStatus
    <3> QED BY <1>1, <2>1, <3>1, <3>2 DEF StatusFollows, Live, View
  <2>6. ASSUME ReadLastEvent(r) PROVE View(r)'
    <3>1. /\ view[r].stage = 1
          /\ view'[r].stage = 2
          /\ view'[r].eventAt = lastEvent.loadedAt
          /\ view'[r].lastSuccess = view[r].lastSuccess
          /\ view'[r].servingFallback = view[r].servingFallback
      BY <2>4, <2>6 DEF ReadLastEvent, TypeOK, Views
    <3> QED BY <2>1, <2>4, <3>1 DEF Words, View, Live
  <2>7. ASSUME ReadIdentity(r) PROVE View(r)'
    <3>1. /\ view[r].stage = 2
          /\ view'[r].stage = 3
          /\ view'[r].identityAt = current.loadedAt
          /\ view'[r].identityFallback = current.fallback
          /\ view'[r].eventAt = view[r].eventAt
          /\ view'[r].lastSuccess = view[r].lastSuccess
          /\ view'[r].servingFallback = view[r].servingFallback
      BY <2>4, <2>7 DEF ReadIdentity, TypeOK, Views
    <3> QED BY <2>1, <2>4, <3>1 DEF View, Live
  <2>8. ASSUME ReturnSnapshot(r) PROVE View(r)'
    <3>1. view'[r] = NoView
      BY <2>8 DEF ReturnSnapshot, TypeOK
    <3> QED BY <1>1, <2>1, <3>1 DEF View, NoView
  <2>9. View(r)'
    BY <1>3, <2>5, <2>6, <2>7, <2>8 DEF ReaderStep
  <2> QED BY <2>3, <2>9 DEF ViewsFollow
<1> QED BY <1>2, <1>3, OnlyReadersRead
-----------------------------------------------------------------------------
(***************************************************************************)
(* The event stream.                                                        *)
(***************************************************************************)
\* The events of a channel are in order, none before `low` nor after `high`.
Ordered(queue, low, high) ==
    /\ low <= high
    /\ \A i \in 1..Len(queue) :
          /\ low <= queue[i].loadedAt
          /\ queue[i].loadedAt <= high
          /\ \A j \in i..Len(queue) : queue[i].loadedAt <= queue[j].loadedAt

\* Events in order are in order without the first one, and no earlier than that.
LEMMA OrderedTail ==
    ASSUME NEW queue \in Seq(Events), NEW low \in Nat, NEW high \in Nat,
           queue # <<>>, Ordered(queue, low, high)
    PROVE  /\ Ordered(Tail(queue), low, high)
           /\ Ordered(Tail(queue), Head(queue).loadedAt, high)
<1>1. /\ Len(queue) \in Nat /\ Len(queue) > 0
      /\ Tail(queue) \in Seq(Events) /\ Len(Tail(queue)) = Len(queue) - 1
      /\ Head(queue) = queue[1]
      /\ \A i \in 1..(Len(queue) - 1) : Tail(queue)[i] = queue[i + 1]
  OBVIOUS
<1>2. \A i \in 1..(Len(queue) - 1) :
          /\ i + 1 \in 1..Len(queue)
          /\ \A j \in i..(Len(queue) - 1) : j + 1 \in (i + 1)..Len(queue)
  BY <1>1
<1>3. \A i \in 1..Len(queue) : 1 \in 1..Len(queue) /\ i \in 1..Len(queue)
  BY <1>1
<1> QED BY <1>1, <1>2, <1>3 DEF Ordered

\* They stay in order when the event of the newest package is appended.
LEMMA OrderedAppend ==
    ASSUME NEW queue \in Seq(Events), NEW event \in Events,
           NEW low \in Nat, NEW high \in Nat,
           Ordered(queue, low, high), event.loadedAt = high
    PROVE  Ordered(Append(queue, event), low, high)
<1>1. /\ Len(queue) \in Nat
      /\ Len(Append(queue, event)) = Len(queue) + 1
      /\ \A i \in 1..Len(queue) : Append(queue, event)[i] = queue[i]
      /\ Append(queue, event)[Len(queue) + 1] = event
  OBVIOUS
<1>2. \A i \in 1..(Len(queue) + 1) : i \in 1..Len(queue) \/ i = Len(queue) + 1
  BY <1>1
<1> QED BY <1>1, <1>2 DEF Ordered

\* A broadcast keeps the order, although a full channel drops its oldest event.
LEMMA OrderedBroadcast ==
    ASSUME NEW queue \in Seq(Events), NEW event \in Events,
           NEW low \in Nat, NEW high \in Nat,
           Ordered(queue, low, high), event.loadedAt = high
    PROVE  Ordered(Broadcast(queue, event), low, high)
<1>1. CASE Len(queue) < Capacity
  BY <1>1, OrderedAppend DEF Broadcast
<1>2. CASE ~(Len(queue) < Capacity)
  <2>1. queue # <<>>
    BY <1>2, OptionsAssumption
  <2>2. Tail(queue) \in Seq(Events) /\ Ordered(Tail(queue), low, high)
    BY <2>1, OrderedTail
  <2>3. Broadcast(queue, event) = Append(Tail(queue), event)
    BY <1>2 DEF Broadcast
  <2> QED BY <2>2, <2>3, OrderedAppend
<1> QED BY <1>1, <1>2

Stream == Ordered(channel, heard.loadedAt, current.loadedAt)

\* At the start the stream of events is in order.
LEMMA InitStream == Init => Stream
  BY DEF Init, Stream, Ordered, NoEvent, Blank

\* The channel changes by an event that is sent, by the shutdown or by the listener.
LEMMA OnlyEventsMove ==
    ASSUME [Next]_vars
    PROVE  \/ UNCHANGED <<channel, heard>>
           \/ \E t \in Tasks : EmitBroadcast(t)
           \/ EmitShutdown
           \/ ReceiveEvent
<1> USE DEF env
<1>1. ASSUME NEW t \in Tasks, RefreshStep(t), ~EmitBroadcast(t)
      PROVE  UNCHANGED <<channel, heard>>
  BY <1>1
  DEF RefreshStep, AcquireLock, ProbeLayer, PinImmutable, FetchLayer, LintPasses,
      PipelineFails, SwapCurrent, PublishStatus, RecordFailure, EmitSummary,
      FinishRefresh
<1>2. ASSUME LoadStep \/ LoopStep
      PROVE  UNCHANGED <<channel, heard>>
  BY <1>2
  DEF LoadStep, ServePrimary, ServeFallback, StartServing, LoadFails, LoopStep,
      PeriodElapses, ChooseBackoff, BackoffElapses, LoopStops, AbortLoop,
      DropFuture
<1>3. ASSUME NEW r \in Readers, ReaderStep(r)
      PROVE  UNCHANGED <<channel, heard>>
  BY <1>3
  DEF ReaderStep, ReadStatus, ReadLastEvent, ReadIdentity, ReturnSnapshot
<1>4. ASSUME \/ \E l \in Layers : Publish(l)
             \/ Outage
             \/ \E c \in Callers : RefreshNow(c) \/ CancelRefreshNow(c)
             \/ Shutdown \/ DropHandle
      PROVE  UNCHANGED <<channel, heard>>
  BY <1>4
  DEF Publish, Outage, RefreshNow, CancelRefreshNow, DropFuture, Shutdown,
      DropHandle
<1>5. CASE UNCHANGED vars
  BY <1>5 DEF vars
<1> QED BY <1>1, <1>2, <1>3, <1>4, <1>5 DEF Next

\* Events are in order after every step.
LEMMA StreamStep ==
    TypeOK /\ Control /\ Loads /\ Words /\ Stream /\ [Next]_vars => Stream'
<1> SUFFICES ASSUME TypeOK, Control, Loads, Words, Stream, [Next]_vars PROVE Stream'
  OBVIOUS
<1>1. /\ channel \in Seq(Events) /\ heard.loadedAt \in Nat
      /\ current.loadedAt \in Nat /\ current'.loadedAt \in Nat
  BY TypeStep DEF TypeOK, Packages, Events
<1>a. \A i \in 1..Len(channel) : channel[i].loadedAt \in Nat
  <2>1. \A i \in 1..Len(channel) : channel[i] \in Events
    BY <1>1
  <2>2. \A event \in Events : event.loadedAt \in Nat
    BY DEF Events
  <2> QED BY <2>1, <2>2
<1>2. current.loadedAt <= current'.loadedAt
  BY Forward
<1>3. CASE UNCHANGED <<channel, heard>>
  BY <1>1, <1>a, <1>2, <1>3 DEF Stream, Ordered
<1>4. ASSUME NEW t \in Tasks, EmitBroadcast(t) PROVE Stream'
  <2>1. t \in Refreshers
    BY <1>4 DEF EmitBroadcast, Control, Refreshers
  <2>2. note[t] \in Events /\ note[t].loadedAt = current.loadedAt
    BY <1>4, <2>1 DEF EmitBroadcast, TypeOK, Words, Word
  <2>3. Ordered(Broadcast(channel, note[t]), heard.loadedAt, current.loadedAt)
    BY <1>1, <2>2, OrderedBroadcast DEF Stream
  <2>4. channel' = Broadcast(channel, note[t]) /\ UNCHANGED <<heard, current>>
    BY <1>4 DEF EmitBroadcast
  <2> QED BY <2>3, <2>4 DEF Stream
<1>5. CASE EmitShutdown
  <2> DEFINE event == [type |-> "shutdown", loadedAt |-> current.loadedAt]
  <2>1. event \in Events /\ event.loadedAt = current.loadedAt
    BY <1>1 DEF Events, EventTypes
  <2>2. channel' = Broadcast(channel, event) /\ UNCHANGED <<heard, current>>
    BY <1>5 DEF EmitShutdown
  <2> HIDE DEF event
  <2>3. Ordered(Broadcast(channel, event), heard.loadedAt, current.loadedAt)
    BY <1>1, <2>1, OrderedBroadcast DEF Stream
  <2> QED BY <2>2, <2>3 DEF Stream
<1>6. CASE ReceiveEvent
  <2>1. /\ channel # <<>> /\ channel' = Tail(channel)
        /\ heard' = Head(channel) /\ UNCHANGED current
    BY <1>6 DEF ReceiveEvent
  <2> QED BY <1>1, <2>1, OrderedTail DEF Stream
<1> QED BY <1>3, <1>4, <1>5, <1>6, OnlyEventsMove
-----------------------------------------------------------------------------
(***************************************************************************)
(* The inductive invariant, and what follows from it.                       *)
(***************************************************************************)
Inv == TypeOK /\ Control /\ Loads /\ Words /\ StatusFollows /\ ViewsFollow /\ Stream

\* The lock, the loads, the words, the status, the snapshots and the stream
\* hold each other up: together they are inductive.
THEOREM Invariance == Spec => []Inv
<1>1. Init => Inv
  BY InitType, InitControl, InitLoads, InitWords, InitStatus, InitViews, InitStream
  DEF Inv
<1>2. Inv /\ [Next]_vars => Inv'
  BY TypeStep, ControlStep, LoadsStep, WordsStep, StatusStep, ViewsStep, StreamStep
  DEF Inv
<1> QED BY <1>1, <1>2, PTL DEF Spec

\* A snapshot is never older than the success and the event it reports.
THEOREM SnapshotsNeverBehind == Spec => []SnapshotNeverBehind
<1>1. Inv => SnapshotNeverBehind
  BY DEF Inv, ViewsFollow, View, SnapshotNeverBehind
<1> QED BY <1>1, Invariance, PTL

\* Between refreshes the status is about the package that serves, however the
\* refreshes before ended.
THEOREM StatusIsAboutCurrent == Spec => []StatusDescribesCurrent
<1>1. Inv => StatusDescribesCurrent
  <2> SUFFICES ASSUME Inv, lock = Nobody, phase = "serving"
               PROVE  /\ status.lastSuccess = current.loadedAt
                      /\ status.servingFallback = current.fallback
                      /\ status.immutable => ~current.fallback
    BY DEF StatusDescribesCurrent
  <2>1. \A t \in Refreshers : t # Nobody
    BY TasksAssumption DEF Refreshers, Tasks, Boot, Loop, Nobody
  <2>2. \A t \in Refreshers : pc[t] # "publish"
    BY <2>1 DEF Inv, Control, Holding
  <2> QED BY <2>2 DEF Inv, StatusFollows, Live
<1> QED BY <1>1, Invariance, PTL

\* The event stream is in order, and never ahead of the package that serves.
THEOREM EventsInOrder == Spec => []EventsFollowCurrent
<1>1. Inv => EventsFollowCurrent
  BY DEF Inv, Words, Stream, Ordered, EventsFollowCurrent
<1> QED BY <1>1, Invariance, PTL
-----------------------------------------------------------------------------
(***************************************************************************)
(* Action properties.                                                       *)
(***************************************************************************)
LEMMA OnlyChooseBackoffLeavesReckon ==
    ASSUME Inv, [Next]_vars, pc[Loop] = "reckon", pc'[Loop] # "reckon"
    PROVE  ChooseBackoff
<1> USE DEF Goto, env, locals
<1>1. /\ pc \in [Tasks -> Labels] /\ Loop \in Tasks /\ Loop # Boot /\ Loop \notin Callers
      /\ phase # "loading" /\ pc[Boot] = "done"
  BY TasksAssumption DEF Inv, TypeOK, Control, Live, Tasks, Boot, Loop
<1>2. ASSUME NEW t \in Tasks, RefreshStep(t) PROVE pc'[Loop] = pc[Loop]
  <2>1. t # Loop
    BY <1>2
    DEF RefreshStep, AcquireLock, ProbeLayer, PinImmutable, FetchLayer, LintPasses,
        PipelineFails, SwapCurrent, PublishStatus, RecordFailure, EmitSummary,
        EmitBroadcast, FinishRefresh
  <2> QED BY <1>1, <1>2, <2>1
    DEF RefreshStep, AcquireLock, ProbeLayer, PinImmutable, FetchLayer, LintPasses,
        PipelineFails, SwapCurrent, PublishStatus, RecordFailure, EmitSummary,
        EmitBroadcast, FinishRefresh
<1>3. ~LoadStep
  BY <1>1 DEF LoadStep, ServePrimary, ServeFallback, LoadFails
<1>4. LoopStep => ChooseBackoff
  BY DEF LoopStep, PeriodElapses, BackoffElapses, LoopStops, AbortLoop, Awaiting
<1>5. ASSUME NEW c \in Callers, RefreshNow(c) \/ CancelRefreshNow(c)
      PROVE  pc'[Loop] = pc[Loop]
  BY <1>1, <1>5 DEF RefreshNow, CancelRefreshNow, DropFuture
<1>6. ASSUME \/ \E l \in Layers : Publish(l)
             \/ Outage
             \/ \E r \in Readers : ReaderStep(r)
             \/ ReceiveEvent \/ Shutdown \/ EmitShutdown \/ DropHandle
      PROVE  pc' = pc
  BY <1>6
  DEF Publish, Outage, ReaderStep, ReadStatus, ReadLastEvent, ReadIdentity,
      ReturnSnapshot, ReceiveEvent, Shutdown, EmitShutdown, DropHandle
<1>7. CASE UNCHANGED vars
  BY <1>7 DEF vars
<1> QED BY <1>2, <1>3, <1>4, <1>5, <1>6, <1>7 DEF Next

\* The loop never retries sooner than the failures since the last refresh that
\* did not fail call for.
THEOREM BackoffCovers == Spec => BackoffCoversStreak
<1>1. Inv /\ [Next]_vars
        => [pc[Loop] = "reckon" /\ pc'[Loop] # "reckon" => delay' >= FailureBackoff(streak)]_vars
  <2> SUFFICES ASSUME Inv, [Next]_vars, pc[Loop] = "reckon", pc'[Loop] # "reckon"
               PROVE  delay' >= FailureBackoff(streak)
    OBVIOUS
  <2>1. delay' = FailureBackoff(status.failures)
    BY OnlyChooseBackoffLeavesReckon DEF ChooseBackoff
  <2>2. streak \in Nat /\ status.failures \in Nat /\ streak <= status.failures
    BY OptionsAssumption DEF Inv, TypeOK, Statuses, StatusFollows
  <2>3. FailureBackoff(streak) <= FailureBackoff(status.failures)
    BY <2>2, BackoffMonotone
  <2> QED BY <2>1, <2>2, <2>3, BackoffNat
<1> QED BY <1>1, Invariance, PTL DEF Spec, BackoffCoversStreak

\* Once the shutdown event is out, nothing is swapped in and nothing is said.
THEOREM ShutdownSaysLast == Spec => ShutdownIsLast
<1> DEFINE Silent == /\ UNCHANGED <<current, status, lastEvent>>
                     /\ Len(channel') <= Len(channel)
<1>1. Inv /\ [Next]_vars => [lastEvent.type = "shutdown" => Silent]_vars
  <2> SUFFICES ASSUME Inv, [Next]_vars, lastEvent.type = "shutdown"
               PROVE  Silent
    OBVIOUS
  <2> USE DEF env, locals
  <2>1. /\ phase = "stopped" /\ pc[Boot] = "done" /\ pc[Loop] = "exited"
        /\ \A c \in Callers : pc[c] = "idle"
    BY DEF Inv, Words, Control
  <2>2. channel \in Seq(Events) /\ Len(channel) \in Nat
    BY DEF Inv, TypeOK
  <2>3. \A t \in Tasks : pc[t] \in {"done", "exited", "idle"}
    BY <2>1 DEF Tasks
  <2>4. \A t \in Tasks : ~RefreshStep(t)
    BY <2>3
    DEF RefreshStep, AcquireLock, ProbeLayer, PinImmutable, FetchLayer, LintPasses,
        PipelineFails, SwapCurrent, PublishStatus, RecordFailure, EmitSummary,
        EmitBroadcast, FinishRefresh
  <2>5. ~LoadStep /\ ~LoopStep
    BY <2>1
    DEF LoadStep, ServePrimary, ServeFallback, LoadFails, LoopStep, PeriodElapses,
        ChooseBackoff, BackoffElapses, LoopStops, AbortLoop, Awaiting
  <2>6. /\ ~Shutdown /\ ~EmitShutdown /\ ~DropHandle
        /\ \A c \in Callers : ~RefreshNow(c) /\ ~CancelRefreshNow(c)
    BY <2>1 DEF Shutdown, EmitShutdown, DropHandle, Owned, RefreshNow, CancelRefreshNow, Awaiting
  <2>7. ASSUME \/ \E l \in Layers : Publish(l)
               \/ Outage
               \/ \E r \in Readers : ReaderStep(r)
        PROVE  Silent
    <3>1. UNCHANGED <<current, status, lastEvent, channel>>
      BY <2>7
      DEF Publish, Outage, ReaderStep, ReadStatus, ReadLastEvent, ReadIdentity,
          ReturnSnapshot
    <3> QED BY <2>2, <3>1
  <2>8. CASE ReceiveEvent
    BY <2>2, <2>8 DEF ReceiveEvent
  <2>9. CASE UNCHANGED vars
    BY <2>2, <2>9 DEF vars
  <2> QED BY <2>4, <2>5, <2>6, <2>7, <2>8, <2>9 DEF Next
<1> QED BY <1>1, Invariance, PTL DEF Spec, ShutdownIsLast

\* What is served changes by the first load or by a swap.
LEMMA OnlySwapsAndLoads ==
    ASSUME [Next]_vars
    PROVE  \/ UNCHANGED current
           \/ LoadStep
           \/ \E t \in Tasks : SwapCurrent(t)
<1> USE DEF env, locals
<1>1. ASSUME NEW t \in Tasks, RefreshStep(t), ~SwapCurrent(t)
      PROVE  UNCHANGED current
  BY <1>1
  DEF RefreshStep, AcquireLock, ProbeLayer, PinImmutable, FetchLayer, LintPasses,
      PipelineFails, PublishStatus, RecordFailure, EmitSummary, EmitBroadcast,
      FinishRefresh
<1>2. ASSUME LoopStep PROVE UNCHANGED current
  BY <1>2
  DEF LoopStep, PeriodElapses, ChooseBackoff, BackoffElapses, LoopStops,
      AbortLoop, DropFuture
<1>3. ASSUME \/ \E l \in Layers : Publish(l)
             \/ Outage
             \/ \E c \in Callers : RefreshNow(c) \/ CancelRefreshNow(c)
             \/ \E r \in Readers : ReaderStep(r)
             \/ ReceiveEvent \/ Shutdown \/ EmitShutdown \/ DropHandle
      PROVE  UNCHANGED current
  BY <1>3
  DEF Publish, Outage, RefreshNow, CancelRefreshNow, DropFuture, ReaderStep,
      ReadStatus, ReadLastEvent, ReadIdentity, ReturnSnapshot, ReceiveEvent,
      Shutdown, EmitShutdown, DropHandle
<1>4. CASE UNCHANGED vars
  BY <1>4 DEF vars
<1> QED BY <1>1, <1>2, <1>3, <1>4 DEF Next

\* A primary made of full commits is never loaded again.
THEOREM PinnedStays == Spec => PinnedIsFinal
<1>1. Inv /\ [Next]_vars
        => [phase = "serving" /\ ImmutableSource /\ ~current.fallback => UNCHANGED current]_vars
  <2> SUFFICES ASSUME Inv, [Next]_vars, phase = "serving", ImmutableSource, ~current.fallback
               PROVE  UNCHANGED current
    OBVIOUS
  <2>1. ~LoadStep
    BY DEF Inv, Control, LoadStep, ServePrimary, ServeFallback, LoadFails
  <2>2. ASSUME NEW t \in Tasks PROVE ~SwapCurrent(t)
    BY DEF SwapCurrent, Inv, Words, Word, Refreshers
  <2> QED BY <2>1, <2>2, OnlySwapsAndLoads
<1> QED BY <1>1, Invariance, PTL DEF Spec, PinnedIsFinal
-----------------------------------------------------------------------------
(***************************************************************************)
(* Refinement: a refreshing package implements LastKnownGood.               *)
(***************************************************************************)
LEMMA OnlyPublishMovesSource ==
    ASSUME [Next]_vars
    PROVE  \/ UNCHANGED source
           \/ \E l \in Layers : Publish(l)
<1> USE DEF env, locals
<1>1. ASSUME NEW t \in Tasks, RefreshStep(t) PROVE UNCHANGED source
  BY <1>1
  DEF RefreshStep, AcquireLock, ProbeLayer, PinImmutable, FetchLayer, LintPasses,
      PipelineFails, SwapCurrent, PublishStatus, RecordFailure, EmitSummary,
      EmitBroadcast, FinishRefresh
<1>2. ASSUME LoadStep \/ LoopStep PROVE UNCHANGED source
  BY <1>2
  DEF LoadStep, ServePrimary, ServeFallback, StartServing, LoadFails, LoopStep,
      PeriodElapses, ChooseBackoff, BackoffElapses, LoopStops, AbortLoop,
      DropFuture
<1>3. ASSUME \/ Outage
             \/ \E c \in Callers : RefreshNow(c) \/ CancelRefreshNow(c)
             \/ \E r \in Readers : ReaderStep(r)
             \/ ReceiveEvent \/ Shutdown \/ EmitShutdown \/ DropHandle
      PROVE  UNCHANGED source
  BY <1>3
  DEF Outage, RefreshNow, CancelRefreshNow, DropFuture, ReaderStep, ReadStatus,
      ReadLastEvent, ReadIdentity, ReturnSnapshot, ReceiveEvent, Shutdown,
      EmitShutdown, DropHandle
<1>4. CASE UNCHANGED vars
  BY <1>4 DEF vars
<1> QED BY <1>1, <1>2, <1>3, <1>4 DEF Next

\* A handle that is not returned becomes live only by serving a package.
LEMMA LiveOnlyByLoad ==
    ASSUME Inv, [Next]_vars, ~ServePrimary, ~ServeFallback
    PROVE  Live' = Live
<1> USE DEF env, locals, Live
<1>1. ASSUME NEW t \in Tasks, RefreshStep(t) PROVE UNCHANGED phase
  BY <1>1
  DEF RefreshStep, AcquireLock, ProbeLayer, PinImmutable, FetchLayer, LintPasses,
      PipelineFails, SwapCurrent, PublishStatus, RecordFailure, EmitSummary,
      EmitBroadcast, FinishRefresh
<1>2. ASSUME LoopStep PROVE UNCHANGED phase
  BY <1>2
  DEF LoopStep, PeriodElapses, ChooseBackoff, BackoffElapses, LoopStops,
      AbortLoop, DropFuture
<1>3. ASSUME LoadFails PROVE ~Live /\ ~Live'
  BY <1>3 DEF LoadFails, Inv, Control
<1>4. ASSUME \/ \E l \in Layers : Publish(l)
             \/ Outage
             \/ \E c \in Callers : RefreshNow(c) \/ CancelRefreshNow(c)
             \/ \E r \in Readers : ReaderStep(r)
             \/ ReceiveEvent
      PROVE  UNCHANGED phase
  BY <1>4
  DEF Publish, Outage, RefreshNow, CancelRefreshNow, DropFuture, ReaderStep,
      ReadStatus, ReadLastEvent, ReadIdentity, ReturnSnapshot, ReceiveEvent
<1>5. ASSUME Shutdown \/ EmitShutdown \/ DropHandle PROVE Live /\ Live'
  BY <1>5 DEF Shutdown, EmitShutdown, DropHandle, Owned
<1>6. CASE UNCHANGED vars
  BY <1>6 DEF vars
<1> QED BY <1>1, <1>2, <1>3, <1>4, <1>5, <1>6 DEF Next, LoadStep

\* Every reader is served as LastKnownGood promises: what serves was accepted,
\* comes from the primary once it does, and never goes back in any layer.
THEOREM ImplementsLastKnownGood == Spec => ServesLastKnownGood
<1>1. Init => LKG!Init
  BY DEF Init, LKG!Init, Blank
<1>2. Inv /\ [Next]_vars => [LKG!Next]_(LKG!lkgVars)
  <2> SUFFICES ASSUME Inv, [Next]_vars
               PROVE  LKG!Next \/ UNCHANGED LKG!lkgVars
    OBVIOUS
  <2>1. CASE \E l \in Layers : Publish(l)
    <3>1. PICK l \in Layers : Publish(l)
      BY <2>1
    <3>2. LKG!Offer
      BY <3>1 DEF Publish, LKG!Offer
    <3> QED BY <3>2 DEF LKG!Next
  <2>2. CASE ServePrimary
    <3> DEFINE content == got[Boot].content
    <3>1. /\ pc[Boot] = "install" /\ ~Live /\ Live' /\ UNCHANGED source
          /\ current' = got[Boot]
      BY <2>2 DEF ServePrimary, StartServing, Inv, Control, Live, env
    <3>2. /\ content \in [Layers -> LKG!Versions]
          /\ \A l \in Layers : 0 <= content[l]
      <4>1. got[Boot] \in Packages
        BY DEF Inv, TypeOK, Tasks, Boot
      <4>2. content \in Contents
        BY <4>1 DEF Packages
      <4> QED BY <4>2, BoundsAssumption DEF Contents, Versions, LKG!Versions
    <3>3. /\ ~got[Boot].fallback /\ Accepted(content)
          /\ \A l \in Layers : content[l] <= source[l]
      BY <3>1 DEF Inv, Loads, Load, Staged, Tasks, Boot
    <3>4. LKG!Composition(content, [l \in Layers |-> 0])
      BY <3>2, <3>3 DEF LKG!Composition, LKG!Acceptable, Accepted
    <3>5. current'.content = content /\ current'.fallback = FALSE
      <4>1. got[Boot].fallback \in BOOLEAN
        BY DEF Inv, TypeOK, Packages, Tasks, Boot
      <4> QED BY <3>1, <3>3, <4>1
    <3> HIDE DEF content
    <3>6. LKG!StartPrimary
      BY <3>1, <3>2, <3>4, <3>5 DEF LKG!StartPrimary, Live
    <3> QED BY <3>6 DEF LKG!Next
  <2>3. CASE ServeFallback
    <3>1. /\ ~Live /\ Live' /\ UNCHANGED source /\ current' = Bundled
      BY <2>3 DEF ServeFallback, StartServing, Inv, Control, Live, env
    <3>2. LKG!StartFallback
      BY <3>1 DEF LKG!StartFallback, Live, Bundled
    <3> QED BY <3>2 DEF LKG!Next
  <2>4. CASE \E t \in Tasks : SwapCurrent(t)
    <3>1. PICK t \in Tasks : SwapCurrent(t)
      BY <2>4
    <3> DEFINE content == got[t].content
    <3>2. /\ t \in Refreshers /\ pc[t] = "install" /\ UNCHANGED <<source, phase>>
          /\ current' = got[t]
      BY <3>1 DEF SwapCurrent, Refreshers, env
    <3>3. Live
      BY <3>2, TasksAssumption DEF Inv, Control, Holding, Refreshers, Tasks, Boot, Loop, Nobody
    <3>4. got[t] \in Packages /\ content \in [Layers -> LKG!Versions]
      <4>1. got[t] \in Packages
        BY DEF Inv, TypeOK
      <4>2. content \in Contents
        BY <4>1 DEF Packages
      <4> QED BY <4>1, <4>2 DEF Contents, Versions, LKG!Versions
    <3>5. /\ ~got[t].fallback /\ Accepted(content)
          /\ \A l \in Layers : current.content[l] <= content[l] /\ content[l] <= source[l]
      BY <3>2 DEF Inv, Loads, Load, Staged
    <3>6. LKG!Composition(content, current.content)
      BY <3>5 DEF LKG!Composition, LKG!Acceptable, Accepted
    <3>7. current'.content = content /\ current'.fallback = FALSE
      <4>1. got[t].fallback \in BOOLEAN
        BY <3>4 DEF Packages
      <4> QED BY <3>2, <3>5, <4>1
    <3> HIDE DEF content
    <3>8. LKG!Advance
      BY <3>2, <3>3, <3>4, <3>6, <3>7 DEF LKG!Advance, Live
    <3> QED BY <3>8 DEF LKG!Next
  <2>5. CASE /\ ~\E l \in Layers : Publish(l)
             /\ ~ServePrimary /\ ~ServeFallback
             /\ ~\E t \in Tasks : SwapCurrent(t)
    <3>1. UNCHANGED source
      BY <2>5, OnlyPublishMovesSource
    <3>2. UNCHANGED current
      BY <2>5, OnlySwapsAndLoads DEF LoadStep, LoadFails
    <3>3. Live' = Live
      BY <2>5, LiveOnlyByLoad
    <3> QED BY <3>1, <3>2, <3>3 DEF LKG!lkgVars, Live
  <2> QED BY <2>1, <2>2, <2>3, <2>4, <2>5
<1> QED BY <1>1, <1>2, Invariance, PTL DEF Spec, ServesLastKnownGood, LKG!Spec
=============================================================================
