-------------------------- MODULE RefreshingPackage --------------------------
(***************************************************************************)
(* The refresh lifecycle of src/sdk/refresh.rs: a package that is loaded    *)
(* once (from the primary source, or from a bundled fallback), and is then  *)
(* replaced in place by a background loop and by refresh_now() callers      *)
(* while other threads read it, its status and its event stream.            *)
(*                                                                         *)
(* A package is a graph of layers (parents first, the extending child       *)
(* last).  The content of a layer is abstracted to the number of its        *)
(* publication, which stands for its fingerprint too: every publication     *)
(* has a fresh one.  Time is abstracted to loadedAt, the number of packages *)
(* that have been installed before.                                         *)
(***************************************************************************)
EXTENDS Integers, Sequences, FiniteSets

CONSTANTS
    Callers,       \* tasks of the application that call refresh_now()
    Readers,       \* threads of the application that call snapshot()
    NumLayers,     \* layers of the extends graph; the last is the child
    Kind,          \* how each layer is addressed: see LayerKinds
    Rejected,      \* pairs <<layer, version>> the load pipeline rejects
    HasFallback,   \* LoadOptions names a fallback source
    Periodic,      \* RefreshOptions names a period
    FailureLimit,  \* the largest value of the failure counter (u64::MAX)
    MinBackoff, MaxBackoff,
    Capacity,      \* of the broadcast channel of events
    MaxVersion,    \* bound: publications per layer
    MaxLoads       \* bound: packages installed

Layers == 1..NumLayers
Child == NumLayers

\* A branch or a tag, or an archive with a validator; a full commit; a path,
\* a repository without a ref, or an archive without a validator.
LayerKinds == {"tracked", "pinned", "untracked"}

ASSUME LayersAssumption ==
    /\ NumLayers \in Nat \ {0}
    /\ Kind \in [Layers -> LayerKinds]
ASSUME OptionsAssumption ==
    /\ HasFallback \in BOOLEAN
    /\ Periodic \in BOOLEAN
    /\ FailureLimit \in Nat \ {0}
    /\ Capacity \in Nat \ {0}
    /\ MinBackoff \in Nat
    /\ MaxBackoff \in Nat
ASSUME BoundsAssumption == MaxVersion \in Nat /\ MaxLoads \in Nat
ASSUME TasksAssumption == {"boot", "loop", "nobody"} \cap Callers = {}

Boot == "boot"   \* load_with_options
Loop == "loop"   \* the task spawn_refresh_loop spawns
Tasks == Callers \cup {Boot, Loop}
Nobody == "nobody"

VARIABLES
    source,     \* the version every layer's source serves
    up,         \* whether the sources answer
    phase,      \* of the handle: loading, serving, stopping, stopped, dropped, failed
    current,    \* RefreshState.current
    status,     \* RefreshState.status
    lastEvent,  \* RefreshState.last_event
    lock,       \* RefreshState.refresh_lock: its holder
    pc,         \* where each task is
    at,         \* the layer a task probes, or its place in the fetch order
    seen,       \* `current` as a task read it when its refresh began
    got,        \* the package a task is loading
    note,       \* the event a task is about to emit
    delay,      \* the backoff the loop waits
    channel,    \* the events a subscriber has not received
    heard,      \* the last event the subscriber received
    view,       \* what each snapshot() call has read
    streak      \* history: refreshes that failed since one that did not

env == <<source, up>>
locals == <<at, seen, got, note>>
vars == <<source, up, phase, current, status, lastEvent, lock, pc, at, seen,
          got, note, delay, channel, heard, view, streak>>

Versions == 0..MaxVersion
Contents == [Layers -> Versions]
Packages == [content: Contents, loadedAt: Nat, fallback: BOOLEAN]
EventTypes == {"none", "loaded", "fallback_loaded", "unchanged", "immutable",
               "refreshed", "failed", "shutdown"}
Events == [type: EventTypes, loadedAt: Nat]
Views == [stage: 0..3, lastSuccess: Nat, servingFallback: BOOLEAN,
          eventAt: Nat, identityAt: Nat, identityFallback: BOOLEAN]
Statuses == [lastSuccess: Nat, failures: 0..FailureLimit, lastError: BOOLEAN,
             refreshing: BOOLEAN, immutable: BOOLEAN, servingFallback: BOOLEAN]

Labels == {"unborn", "idle", "sleep", "lock", "probe", "pin", "fetch", "lint",
           "install", "publish", "fail", "emit", "send", "finish", "reckon",
           "backoff", "halt", "exited", "done"}

\* The bundle was built from the package the application was tested against.
Bundled == [content |-> [l \in Layers |-> 0], loadedAt |-> 1, fallback |-> TRUE]
Blank == [content |-> [l \in Layers |-> 0], loadedAt |-> 0, fallback |-> FALSE]
NoEvent == [type |-> "none", loadedAt |-> 0]
NoView == [stage |-> 0, lastSuccess |-> 0, servingFallback |-> FALSE,
           eventAt |-> 0, identityAt |-> 0, identityFallback |-> FALSE]

\* Every layer of the graph is a full commit, so it can never change.
ImmutableSource == \A l \in Layers : Kind[l] = "pinned"

\* The lint gate and the compilation, which see the composed layers.
Accepted(content) == \A l \in Layers : <<l, content[l]>> \notin Rejected

\* The extending child is staged first, then its parents in extends order.
FetchOrder(i) == IF i = 1 THEN Child ELSE i - 1

\* Seeded defect: a full commit is fetched again like any other ref.
ProbeFetchingPinned(l, content) ==
    IF Kind[l] = "tracked" /\ source[l] = content[l] THEN "unchanged" ELSE "changed"

\* One probe of one layer against the fingerprint recorded at the last load.
Probe(l, content) ==
    CASE Kind[l] = "untracked" -> "unknown"
      [] Kind[l] = "pinned"    -> "pinned"
      [] Kind[l] = "tracked"   -> IF source[l] = content[l] THEN "unchanged"
                                                            ELSE "changed"

Lesser(a, b) == IF a < b THEN a ELSE b

FailureBackoff(failures) ==
    IF failures = 0 THEN 0
    ELSE Lesser(MinBackoff * 2 ^ Lesser(failures - 1, 20), MaxBackoff)

\* Seeded defect: the counter wraps past its type instead of saturating.
CountFailureUnsaturated(failures) == failures + 1

CountFailure(failures) == Lesser(failures + 1, FailureLimit)

\* What a bounded broadcast channel holds after a send.
Broadcast(queue, event) ==
    IF Len(queue) < Capacity THEN Append(queue, event)
                             ELSE Append(Tail(queue), event)

Goto(t, label) == pc' = [pc EXCEPT ![t] = label]

\* Where the loop waits: a wait it enters after the shutdown signal was sent
\* ends at once with the signal, whatever its timer.
Wait(label) == IF phase = "stopping" THEN "halt" ELSE label

Init ==
    /\ source = [l \in Layers |-> 0]
    /\ up = TRUE
    /\ phase = "loading"
    /\ current = Blank
    /\ status = [lastSuccess |-> 0, failures |-> 0, lastError |-> FALSE,
                 refreshing |-> FALSE, immutable |-> FALSE,
                 servingFallback |-> FALSE]
    /\ lastEvent = NoEvent
    /\ lock = Nobody
    /\ pc = [t \in Tasks |-> IF t = Boot THEN "fetch"
                             ELSE IF t = Loop THEN "unborn" ELSE "idle"]
    /\ at = [t \in Tasks |-> 1]
    /\ seen = [t \in Tasks |-> Blank]
    /\ got = [t \in Tasks |-> Blank]
    /\ note = [t \in Tasks |-> NoEvent]
    /\ delay = 0
    /\ channel = <<>>
    /\ heard = NoEvent
    /\ view = [r \in Readers |-> NoView]
    /\ streak = 0
-----------------------------------------------------------------------------
(***************************************************************************)
(* The sources, external to the SDK: they publish and they have outages.    *)
(***************************************************************************)
Publish(l) ==
    /\ Kind[l] # "pinned"
    /\ source[l] < MaxVersion
    /\ source' = [source EXCEPT ![l] = @ + 1]
    /\ UNCHANGED <<up, phase, current, status, lastEvent, lock, pc, locals,
                   delay, channel, heard, view, streak>>

Outage ==
    /\ up' = ~up
    /\ UNCHANGED <<source, phase, current, status, lastEvent, lock, pc, locals,
                   delay, channel, heard, view, streak>>
-----------------------------------------------------------------------------
(***************************************************************************)
(* The load pipeline, load_snapshot_with_options: stage one layer after the *)
(* other, each at the version its source serves at that moment, then lint   *)
(* and compile the composition.  Shared by the first load and a refresh.    *)
(***************************************************************************)
FetchLayer(t) ==
    LET layer == FetchOrder(at[t])
        staged == [got[t].content EXCEPT ![layer] = source[layer]]
    IN  /\ pc[t] = "fetch"
        /\ up
        /\ IF at[t] < NumLayers
           THEN /\ at' = [at EXCEPT ![t] = @ + 1]
                /\ got' = [got EXCEPT ![t].content = staged]
                /\ UNCHANGED pc
           ELSE /\ current.loadedAt < MaxLoads
                /\ at' = [at EXCEPT ![t] = 1]
                /\ got' = [got EXCEPT ![t].content = staged,
                                      ![t].loadedAt = current.loadedAt + 1]
                /\ Goto(t, "lint")
        /\ UNCHANGED <<env, phase, current, status, lastEvent, lock, seen, note,
                       delay, channel, heard, view, streak>>

\* Seeded defect: the success is recorded as soon as the package has compiled.
LintPassesRecordingEarly(t) ==
    /\ pc[t] = "lint"
    /\ Accepted(got[t].content)
    /\ status' = [status EXCEPT !.lastSuccess = got[t].loadedAt,
                                !.servingFallback = FALSE]
    /\ Goto(t, "install")
    /\ UNCHANGED <<env, phase, current, lastEvent, lock, locals, delay, channel,
                   heard, view, streak>>

LintPasses(t) ==
    /\ pc[t] = "lint"
    /\ Accepted(got[t].content)
    /\ Goto(t, "install")
    /\ UNCHANGED <<env, phase, current, status, lastEvent, lock, locals, delay,
                   channel, heard, view, streak>>

\* Any await of the pipeline, or of the probe before it, may return an error.
PipelineFails(t) ==
    /\ \/ pc[t] = "fetch" /\ ~up
       \/ pc[t] = "probe" /\ ~up /\ Kind[at[t]] = "tracked"
       \/ pc[t] = "lint" /\ ~Accepted(got[t].content)
    /\ Goto(t, "fail")
    /\ at' = [at EXCEPT ![t] = 1]
    /\ UNCHANGED <<env, phase, current, status, lastEvent, lock, seen, got, note,
                   delay, channel, heard, view, streak>>

(***************************************************************************)
(* load_with_options, from the package in hand to the handle it returns.    *)
(* Nothing is shared before it returns, so this is one step.                *)
(***************************************************************************)
StartServing(package) ==
    LET immutable == ImmutableSource /\ ~package.fallback
    IN  /\ current' = package
        /\ status' = [lastSuccess |-> package.loadedAt, failures |-> 0,
                      lastError |-> package.fallback, refreshing |-> FALSE,
                      immutable |-> immutable,
                      servingFallback |-> package.fallback]
        /\ lastEvent' = [type |-> IF package.fallback THEN "fallback_loaded"
                                                      ELSE "loaded",
                         loadedAt |-> package.loadedAt]
        /\ phase' = "serving"
        /\ pc' = [pc EXCEPT ![Boot] = "done",
                            ![Loop] = IF Periodic /\ ~immutable THEN "sleep"
                                                                ELSE "exited"]
        /\ got' = [got EXCEPT ![Boot] = Blank]
        /\ UNCHANGED <<env, lock, at, seen, note, delay, channel, heard, view,
                       streak>>

ServePrimary == pc[Boot] = "install" /\ StartServing(got[Boot])

ServeFallback == pc[Boot] = "fail" /\ HasFallback /\ StartServing(Bundled)

\* No fallback, or the fallback fails the same pipeline.
LoadFails ==
    /\ pc[Boot] = "fail"
    /\ phase' = "failed"
    /\ Goto(Boot, "done")
    /\ got' = [got EXCEPT ![Boot] = Blank]
    /\ UNCHANGED <<env, current, status, lastEvent, lock, at, seen, note, delay,
                   channel, heard, view, streak>>
-----------------------------------------------------------------------------
(***************************************************************************)
(* refresh_once: what a refresh_now() caller and the loop both run.         *)
(***************************************************************************)
RefreshNow(c) ==
    /\ phase = "serving"
    /\ pc[c] = "idle"
    /\ Goto(c, "lock")
    /\ UNCHANGED <<env, phase, current, status, lastEvent, lock, locals, delay,
                   channel, heard, view, streak>>

\* Seeded defects: two refreshes may run at a time; the failure count is reset
\* when a refresh starts; the fingerprint of the fallback is probed.
AcquireLockUnguarded(t) ==
    /\ pc[t] = "lock"
    /\ lock' = t
    /\ status' = [status EXCEPT !.refreshing = TRUE]
    /\ seen' = [seen EXCEPT ![t] = current]
    /\ Goto(t, IF current.fallback THEN "fetch" ELSE "probe")
    /\ UNCHANGED <<env, phase, current, lastEvent, at, got, note, delay, channel,
                   heard, view, streak>>

AcquireLockForgettingFailures(t) ==
    /\ pc[t] = "lock"
    /\ lock = Nobody
    /\ lock' = t
    /\ status' = [status EXCEPT !.refreshing = TRUE, !.failures = 0]
    /\ seen' = [seen EXCEPT ![t] = current]
    /\ Goto(t, IF current.fallback THEN "fetch" ELSE "probe")
    /\ UNCHANGED <<env, phase, current, lastEvent, at, got, note, delay, channel,
                   heard, view, streak>>

AcquireLockProbingFallback(t) ==
    /\ pc[t] = "lock"
    /\ lock = Nobody
    /\ lock' = t
    /\ status' = [status EXCEPT !.refreshing = TRUE]
    /\ seen' = [seen EXCEPT ![t] = current]
    /\ Goto(t, "probe")
    /\ UNCHANGED <<env, phase, current, lastEvent, at, got, note, delay, channel,
                   heard, view, streak>>

\* While the fallback serves, the fingerprint is not the primary's: the probe
\* is skipped and the primary is loaded.
AcquireLock(t) ==
    /\ pc[t] = "lock"
    /\ lock = Nobody
    /\ lock' = t
    /\ status' = [status EXCEPT !.refreshing = TRUE]
    /\ seen' = [seen EXCEPT ![t] = current]
    /\ Goto(t, IF current.fallback THEN "fetch" ELSE "probe")
    /\ UNCHANGED <<env, phase, current, lastEvent, at, got, note, delay, channel,
                   heard, view, streak>>

\* probe_package_source_graph: one layer after the other, until one decides.
ProbeLayer(t) ==
    LET answer == Probe(at[t], seen[t].content)
    IN  /\ pc[t] = "probe"
        /\ up \/ answer \in {"unknown", "pinned"}
        /\ \/ /\ answer = "unchanged" \/ (answer = "pinned" /\ NumLayers > 1)
              /\ at[t] < NumLayers
              /\ at' = [at EXCEPT ![t] = @ + 1]
              /\ UNCHANGED <<pc, note, streak>>
           \/ /\ answer = "unchanged" \/ (answer = "pinned" /\ NumLayers > 1)
              /\ at[t] = NumLayers
              /\ at' = [at EXCEPT ![t] = 1]
              /\ note' = [note EXCEPT ![t] = [type |-> "unchanged",
                                              loadedAt |-> seen[t].loadedAt]]
              /\ streak' = 0
              /\ Goto(t, "emit")
           \/ /\ answer = "pinned" /\ NumLayers = 1
              /\ Goto(t, "pin")
              /\ UNCHANGED <<at, note, streak>>
           \/ /\ answer \in {"changed", "unknown"}
              /\ at' = [at EXCEPT ![t] = 1]
              /\ Goto(t, "fetch")
              /\ UNCHANGED <<note, streak>>
        /\ UNCHANGED <<env, phase, current, status, lastEvent, lock, seen, got,
                       delay, channel, heard, view>>

\* The only layer is a full commit: say so in the status.
PinImmutable(t) ==
    /\ pc[t] = "pin"
    /\ status' = [status EXCEPT !.immutable = TRUE]
    /\ note' = [note EXCEPT ![t] = [type |-> "immutable",
                                    loadedAt |-> current.loadedAt]]
    /\ streak' = 0
    /\ Goto(t, "emit")
    /\ UNCHANGED <<env, phase, current, lastEvent, lock, at, seen, got, delay,
                   channel, heard, view>>

SwapCurrent(t) ==
    /\ t # Boot
    /\ pc[t] = "install"
    /\ current' = got[t]
    /\ Goto(t, "publish")
    /\ UNCHANGED <<env, phase, status, lastEvent, lock, locals, delay, channel,
                   heard, view, streak>>

PublishStatus(t) ==
    /\ pc[t] = "publish"
    /\ status' = [status EXCEPT !.lastSuccess = got[t].loadedAt,
                                !.failures = 0,
                                !.lastError = FALSE,
                                !.immutable = ImmutableSource,
                                !.servingFallback = FALSE]
    /\ note' = [note EXCEPT ![t] = [type |-> "refreshed",
                                    loadedAt |-> got[t].loadedAt]]
    /\ streak' = 0
    /\ Goto(t, "emit")
    /\ UNCHANGED <<env, phase, current, lastEvent, lock, at, seen, got, delay,
                   channel, heard, view>>

\* Seeded defect: the failed package is reported as the current one.
RecordFailureNamingFailed(t) ==
    /\ t # Boot
    /\ pc[t] = "fail"
    /\ status' = [status EXCEPT !.refreshing = FALSE,
                                !.failures = CountFailure(@),
                                !.lastError = TRUE]
    /\ streak' = Lesser(streak + 1, FailureLimit)
    /\ note' = [note EXCEPT ![t] = [type |-> "failed",
                                    loadedAt |-> got[t].loadedAt]]
    /\ Goto(t, "emit")
    /\ UNCHANGED <<env, phase, current, lastEvent, lock, at, seen, got, delay,
                   channel, heard, view>>

\* The last known good package keeps serving; the event names it as current.
RecordFailure(t) ==
    /\ t # Boot
    /\ pc[t] = "fail"
    /\ status' = [status EXCEPT !.refreshing = FALSE,
                                !.failures = CountFailure(@),
                                !.lastError = TRUE]
    /\ streak' = Lesser(streak + 1, FailureLimit)
    /\ note' = [note EXCEPT ![t] = [type |-> "failed",
                                    loadedAt |-> current.loadedAt]]
    /\ Goto(t, "emit")
    /\ UNCHANGED <<env, phase, current, lastEvent, lock, at, seen, got, delay,
                   channel, heard, view>>

\* emit_event: first the summary a snapshot reads, then the broadcast.
EmitSummary(t) ==
    /\ pc[t] = "emit"
    /\ lastEvent' = note[t]
    /\ Goto(t, "send")
    /\ UNCHANGED <<env, phase, current, status, lock, locals, delay, channel,
                   heard, view, streak>>

EmitBroadcast(t) ==
    /\ pc[t] = "send"
    /\ channel' = Broadcast(channel, note[t])
    /\ Goto(t, "finish")
    /\ UNCHANGED <<env, phase, current, status, lastEvent, lock, locals, delay,
                   heard, view, streak>>

\* Seeded defect: a refresh that found nothing new leaves the flag as it was.
FinishRefreshUnlessUnchanged(t) ==
    LET failed == note[t].type = "failed"
    IN  /\ pc[t] = "finish"
        /\ status' = [status EXCEPT !.refreshing = note[t].type = "unchanged" /\ @]
        /\ lock' = Nobody
        /\ seen' = [seen EXCEPT ![t] = Blank]
        /\ got' = [got EXCEPT ![t] = Blank]
        /\ note' = [note EXCEPT ![t] = NoEvent]
        /\ Goto(t, IF t # Loop THEN "idle"
                   ELSE IF failed THEN "reckon" ELSE Wait("sleep"))
        /\ UNCHANGED <<env, phase, current, lastEvent, at, delay, channel, heard,
                       view, streak>>

\* The end of refresh_once, and with it the guard of the lock.  The loop reads
\* the failure count for its backoff only after the guard is gone.
FinishRefresh(t) ==
    LET failed == note[t].type = "failed"
    IN  /\ pc[t] = "finish"
        /\ status' = [status EXCEPT !.refreshing = FALSE]
        /\ lock' = Nobody
        /\ seen' = [seen EXCEPT ![t] = Blank]
        /\ got' = [got EXCEPT ![t] = Blank]
        /\ note' = [note EXCEPT ![t] = NoEvent]
        /\ Goto(t, IF t # Loop THEN "idle"
                   ELSE IF failed THEN "reckon" ELSE Wait("sleep"))
        /\ UNCHANGED <<env, phase, current, lastEvent, at, delay, channel, heard,
                       view, streak>>

\* Seeded defects: an await between the swap and the status; a lock that is
\* not a guard.
AwaitingAfterSwap == {"lock", "probe", "fetch", "lint", "publish"}

DropFutureHoldingLock(t, label) ==
    /\ Goto(t, label)
    /\ at' = [at EXCEPT ![t] = 1]
    /\ seen' = [seen EXCEPT ![t] = Blank]
    /\ got' = [got EXCEPT ![t] = Blank]
    /\ UNCHANGED <<env, phase, current, status, lastEvent, lock, note, channel,
                   heard, view, streak>>

\* Dropping the future of a refresh stops it at the await it is suspended in,
\* and its lock guard is dropped with it.  Nothing else runs.
Awaiting == {"lock", "probe", "fetch", "lint"}

DropFuture(t, label) ==
    /\ Goto(t, label)
    /\ lock' = IF lock = t THEN Nobody ELSE lock
    /\ at' = [at EXCEPT ![t] = 1]
    /\ seen' = [seen EXCEPT ![t] = Blank]
    /\ got' = [got EXCEPT ![t] = Blank]
    /\ UNCHANGED <<env, phase, current, status, lastEvent, note, channel, heard,
                   view, streak>>

\* A caller gives up on refresh_now(): a timeout around it, or a lost select.
CancelRefreshNow(c) ==
    /\ c \in Callers
    /\ pc[c] \in Awaiting
    /\ DropFuture(c, "idle")
    /\ UNCHANGED delay
-----------------------------------------------------------------------------
(***************************************************************************)
(* The background loop: sleep, refresh, back off after an error.            *)
(***************************************************************************)
PeriodElapses ==
    /\ pc[Loop] = "sleep"   \* also when the signal was sent but not polled yet
    /\ Goto(Loop, "lock")
    /\ UNCHANGED <<env, phase, current, status, lastEvent, lock, locals, delay,
                   channel, heard, view, streak>>

ChooseBackoff ==
    /\ pc[Loop] = "reckon"
    /\ delay' = FailureBackoff(status.failures)
    /\ Goto(Loop, Wait("backoff"))
    /\ UNCHANGED <<env, phase, current, status, lastEvent, lock, locals, channel,
                   heard, view, streak>>

BackoffElapses ==
    /\ pc[Loop] = "backoff"
    /\ delay' = 0
    /\ Goto(Loop, Wait("sleep"))
    /\ UNCHANGED <<env, phase, current, status, lastEvent, lock, locals, channel,
                   heard, view, streak>>

\* Seeded defect: the signal is only looked at in the sleep between refreshes.
LoopStopsFromSleepOnly ==
    /\ phase = "stopping"
    /\ pc[Loop] = "sleep"
    /\ delay' = 0
    /\ Goto(Loop, "exited")
    /\ UNCHANGED <<env, phase, current, status, lastEvent, lock, locals, channel,
                   heard, view, streak>>

LoopStops ==
    /\ phase = "stopping"
    /\ pc[Loop] \in {"sleep", "backoff", "halt"}
    /\ delay' = 0
    /\ Goto(Loop, "exited")
    /\ UNCHANGED <<env, phase, current, status, lastEvent, lock, locals, channel,
                   heard, view, streak>>
-----------------------------------------------------------------------------
(***************************************************************************)
(* snapshot(): three locks taken one after the other.                       *)
(***************************************************************************)
ReadStatus(r) ==
    /\ phase = "serving"
    /\ view[r].stage = 0
    /\ view' = [view EXCEPT ![r] =
                   [NoView EXCEPT !.stage = 1,
                                  !.lastSuccess = status.lastSuccess,
                                  !.servingFallback = status.servingFallback]]
    /\ UNCHANGED <<env, phase, current, status, lastEvent, lock, pc, locals,
                   delay, channel, heard, streak>>

ReadLastEvent(r) ==
    /\ view[r].stage = 1
    /\ view' = [view EXCEPT ![r].stage = 2, ![r].eventAt = lastEvent.loadedAt]
    /\ UNCHANGED <<env, phase, current, status, lastEvent, lock, pc, locals,
                   delay, channel, heard, streak>>

ReadIdentity(r) ==
    /\ view[r].stage = 2
    /\ view' = [view EXCEPT ![r].stage = 3,
                            ![r].identityAt = current.loadedAt,
                            ![r].identityFallback = current.fallback]
    /\ UNCHANGED <<env, phase, current, status, lastEvent, lock, pc, locals,
                   delay, channel, heard, streak>>

ReturnSnapshot(r) ==
    /\ view[r].stage = 3
    /\ view' = [view EXCEPT ![r] = NoView]
    /\ UNCHANGED <<env, phase, current, status, lastEvent, lock, pc, locals,
                   delay, channel, heard, streak>>

\* The subscriber takes the oldest event the channel still holds.
ReceiveEvent ==
    /\ channel # <<>>
    /\ heard' = Head(channel)
    /\ channel' = Tail(channel)
    /\ UNCHANGED <<env, phase, current, status, lastEvent, lock, pc, locals,
                   delay, view, streak>>
-----------------------------------------------------------------------------
(***************************************************************************)
(* shutdown() and Drop.  Both own the handle, so nothing borrows it.        *)
(***************************************************************************)
Owned ==
    /\ phase = "serving"
    /\ \A c \in Callers : pc[c] = "idle"
    /\ \A r \in Readers : view[r].stage = 0

Shutdown ==
    /\ Owned
    /\ phase' = "stopping"
    /\ UNCHANGED <<env, current, status, lastEvent, lock, pc, locals, delay,
                   channel, heard, view, streak>>

\* Seeded defect: the last event does not wait for the task.
EmitShutdownUnjoined ==
    LET event == [type |-> "shutdown", loadedAt |-> current.loadedAt]
    IN  /\ phase = "stopping"
        /\ phase' = "stopped"
        /\ lastEvent' = event
        /\ channel' = Broadcast(channel, event)
        /\ UNCHANGED <<env, current, status, lock, pc, locals, delay, heard,
                       view, streak>>

\* The task has been joined: the last event goes out.
EmitShutdown ==
    LET event == [type |-> "shutdown", loadedAt |-> current.loadedAt]
    IN  /\ phase = "stopping"
        /\ pc[Loop] = "exited"
        /\ phase' = "stopped"
        /\ lastEvent' = event
        /\ channel' = Broadcast(channel, event)
        /\ UNCHANGED <<env, current, status, lock, pc, locals, delay, heard,
                       view, streak>>

DropHandle ==
    /\ Owned
    /\ phase' = "dropped"
    /\ UNCHANGED <<env, current, status, lastEvent, lock, pc, locals, delay,
                   channel, heard, view, streak>>

\* abort() takes effect at the await the task is suspended in or reaches next.
AbortLoop ==
    /\ phase = "dropped"
    /\ pc[Loop] \in Awaiting \cup {"sleep", "backoff"}
    /\ DropFuture(Loop, "exited")
    /\ delay' = 0
-----------------------------------------------------------------------------
RefreshStep(t) ==
    \/ AcquireLock(t)
    \/ ProbeLayer(t)
    \/ PinImmutable(t)
    \/ FetchLayer(t)
    \/ LintPasses(t)
    \/ PipelineFails(t)
    \/ SwapCurrent(t)
    \/ PublishStatus(t)
    \/ RecordFailure(t)
    \/ EmitSummary(t)
    \/ EmitBroadcast(t)
    \/ FinishRefresh(t)

LoadStep == ServePrimary \/ ServeFallback \/ LoadFails

LoopStep ==
    \/ PeriodElapses
    \/ ChooseBackoff
    \/ BackoffElapses
    \/ LoopStops
    \/ AbortLoop

ReaderStep(r) ==
    \/ ReadStatus(r)
    \/ ReadLastEvent(r)
    \/ ReadIdentity(r)
    \/ ReturnSnapshot(r)

Next ==
    \/ \E l \in Layers : Publish(l)
    \/ Outage
    \/ \E t \in Tasks : RefreshStep(t)
    \/ LoadStep
    \/ LoopStep
    \/ \E c \in Callers : RefreshNow(c) \/ CancelRefreshNow(c)
    \/ \E r \in Readers : ReaderStep(r)
    \/ ReceiveEvent
    \/ Shutdown
    \/ EmitShutdown
    \/ DropHandle

Spec == Init /\ [][Next]_vars
-----------------------------------------------------------------------------
TypeOK ==
    /\ source \in Contents
    /\ up \in BOOLEAN
    /\ phase \in {"loading", "serving", "stopping", "stopped", "dropped", "failed"}
    /\ current \in Packages
    /\ status \in Statuses
    /\ lastEvent \in Events
    /\ lock \in Tasks \cup {Nobody}
    /\ pc \in [Tasks -> Labels]
    /\ at \in [Tasks -> Layers]
    /\ seen \in [Tasks -> Packages]
    /\ got \in [Tasks -> Packages]
    /\ note \in [Tasks -> Events]
    /\ delay \in Nat
    /\ channel \in Seq(Events)
    /\ heard \in Events
    /\ view \in [Readers -> Views]
    /\ streak \in 0..FailureLimit

\* A snapshot joins three reads taken one after the other, and may be torn by
\* a refresh between them; but its identity is never older than the success
\* and the event it is reported with, and a snapshot that says the primary
\* serves never carries the identity of the fallback.
SnapshotNeverBehind ==
    \A r \in Readers :
        view[r].stage = 3 =>
            /\ view[r].lastSuccess <= view[r].identityAt
            /\ view[r].eventAt <= view[r].identityAt
            /\ view[r].identityFallback => view[r].servingFallback

\* When no refresh runs, the status is about the package that serves, however
\* the refreshes before it ended: finished, failed, or dropped half way.
StatusDescribesCurrent ==
    lock = Nobody /\ phase = "serving" =>
        /\ status.lastSuccess = current.loadedAt
        /\ status.servingFallback = current.fallback
        /\ status.immutable => ~current.fallback

\* An event never runs ahead of the package it announces, and the stream never
\* goes back in time: a consumer that lagged recovers from the current package.
EventsFollowCurrent ==
    /\ lastEvent.loadedAt <= current.loadedAt
    /\ heard.loadedAt <= current.loadedAt
    /\ \A i \in 1..Len(channel) :
          /\ channel[i].loadedAt <= current.loadedAt
          /\ heard.loadedAt <= channel[i].loadedAt
          /\ \A j \in i..Len(channel) : channel[i].loadedAt <= channel[j].loadedAt

\* After the shutdown event nothing is swapped in and nothing else is said.
ShutdownIsLast ==
    [][lastEvent.type = "shutdown" =>
          /\ UNCHANGED <<current, status, lastEvent>>
          /\ Len(channel') <= Len(channel)]_vars

\* The loop never retries sooner than the failures since the last refresh that
\* did not fail call for, whoever ran them.
BackoffCoversStreak ==
    [][pc[Loop] = "reckon" /\ pc'[Loop] # "reckon" =>
          delay' >= FailureBackoff(streak)]_vars

\* A primary made of full commits is final: whoever asks for a refresh, and
\* however often, the package that serves is never loaded again.
PinnedIsFinal ==
    [][phase = "serving" /\ ImmutableSource /\ ~current.fallback =>
          UNCHANGED current]_vars

\* The last known good package, as its readers are promised it.
LKG == INSTANCE LastKnownGood WITH
           offered <- source,
           live <- phase \notin {"loading", "failed"},
           serving <- [content |-> current.content, fallback |-> current.fallback]

ServesLastKnownGood == LKG!Spec
-----------------------------------------------------------------------------
(***************************************************************************)
(* Fairness.  A spawned task that can run is run by the executor, and the   *)
(* timers fire.  The lock is a tokio Mutex, which serves its waiters in the *)
(* order they asked: a waiter is not overtaken for ever, hence SF.  Nothing *)
(* is assumed of the callers, the readers or the sources.                   *)
(***************************************************************************)
Fairness ==
    /\ \A t \in Tasks : WF_vars(RefreshStep(t)) /\ SF_vars(AcquireLock(t))
    /\ WF_vars(LoadStep)
    /\ WF_vars(LoopStep)
    /\ WF_vars(EmitShutdown)

FairSpec == Spec /\ Fairness

Healthy == up /\ Accepted(source)

\* If the sources settle on a publication that loads and stay reachable, a
\* handle that keeps serving with a period ends up serving that publication
\* from the primary, whatever it started on and whatever failed before.
ConvergesToSource ==
    <>[](Healthy /\ phase = "serving" /\ Periodic) =>
        <>[](~current.fallback /\ current.content = source)

\* A refresh_now() that is not dropped returns.
RefreshNowReturns ==
    \A c \in Callers : pc[c] # "idle" ~> pc[c] = "idle"

\* A status that says a refresh is running does not say so for ever: what a
\* dropped refresh_now() left behind, the next refresh of the loop puts right,
\* however it ends.  Without a loop nothing does.
RefreshingEnds == status.refreshing ~> ~status.refreshing \/ pc[Loop] = "exited"

\* shutdown() returns, whatever the loop was doing when it was called.
ShutdownReturns == phase = "stopping" ~> phase = "stopped"
-----------------------------------------------------------------------------
(***************************************************************************)
(* What the documents say and the code does not do.                         *)
(***************************************************************************)

\* tests/docs/refresh-matrix.md, R3: "the outcome is Immutable, periodic
\* refresh stands down".  A loop that recovered a pinned primary runs on.
StandsDownWhenImmutable ==
    [][pc[Loop] = "sleep" /\ pc'[Loop] = "lock" =>
          ~(lastEvent.type = "immutable")]_vars
=============================================================================
