----------------------------- MODULE MCLiveness -----------------------------
(* What must happen in the end, of three components that are scheduled      *)
(* apart from each other: the reconciler with its requests, the refreshing   *)
(* package, and the language server.  A behaviour is about the one that has  *)
(* the focus, and fairness is asked of that one alone.                       *)
EXTENDS ChangeSetLifecycle

CONSTANTS Garbled, NoBuffer

VARIABLES
    focus,
    source, up, phase, current, status, lastEvent, lock, pc, at, seen,
    got, note, delay, channel, heard, view, streak,
    editor, disk, ahead, asked, wire, queue, cancellations, inflight, server, work,
    holder, cached, generation, published, answers, shown

refreshVars == <<source, up, phase, current, status, lastEvent, lock, pc, at, seen,
                 got, note, delay, channel, heard, view, streak>>
serverVars == <<editor, disk, ahead, asked, wire, queue, cancellations, inflight, server, work,
                holder, cached, generation, published, answers, shown>>

\* A tracked child over a parent at a full commit, and no reader: snapshots
\* change nothing.  MaxLoads is never reached, because a tracked source is only
\* reloaded after a publication.
Handle == INSTANCE RefreshingPackage WITH
    Callers <- {"c1"}, Readers <- {}, NumLayers <- 2,
    Kind <- <<"pinned", "tracked">>, Rejected <- {<<2, 1>>},
    HasFallback <- TRUE, Periodic <- TRUE, FailureLimit <- 1,
    MinBackoff <- 1, MaxBackoff <- 1, Capacity <- 1, MaxVersion <- 2, MaxLoads <- 4

\* One read, and an editor that opens the document, changes it and cancels.  The
\* session is looked at twice: reads, with one notice and so two passes of
\* diagnostics beside them, and diagnostics, with no read and both notices: three
\* passes, the last of them over another text.
Server == INSTANCE LanguageServer WITH
    Requests <- {"q1"}, Notices <- {"didOpen", "didChange"}, Ranged <- {TRUE},
    MaxEdits <- 1, MaxNotices <- 2, MaxCancels <- 1

allVars == <<focus, vars, refreshVars, serverVars>>

LivenessInit ==
    /\ focus \in {"lifecycle", "handle", "reads", "diagnostics"}
    /\ Init /\ Handle!Init /\ Server!SessionInit

InLifecycle(A) == focus = "lifecycle" /\ A /\ UNCHANGED <<focus, refreshVars, serverVars>>
InHandle(A) == focus = "handle" /\ A /\ UNCHANGED <<focus, vars, serverVars>>
InServer(A) == focus \in {"reads", "diagnostics"} /\ A /\ UNCHANGED <<focus, vars, refreshVars>>

LifecycleStep == InLifecycle(Next)
HandleStep == InHandle(Handle!Next)
ServerStep ==
    /\ InServer(Server!SessionNext)
    /\ IF focus = "reads" THEN editor'.notices <= 1 ELSE UNCHANGED asked

\* The fairness of each component's specification, while it has the focus.  Two
\* actions that never have it together share one conjunct, which then asks the
\* same of both.  The boot task never takes the lock.
LivenessFairness ==
    /\ WF_allVars(\/ InLifecycle(StartSweep(Timer))
                  \/ InHandle(Handle!LoadStep)
                  \/ InServer(Server!LoopStep))
    /\ WF_allVars(\/ InLifecycle(PassStep(Timer))
                  \/ InHandle(Handle!LoopStep)
                  \/ InServer(Server!TaskStep))
    /\ \A r \in Requests :
          /\ WF_allVars(InLifecycle(PassStep(r)) \/ InHandle(Handle!EmitShutdown))
          /\ WF_allVars(InLifecycle(RequestStep(r)) \/ InHandle(Handle!RefreshStep("boot")))
    /\ \A t \in {"c1", "loop"} :
          /\ WF_allVars(InHandle(Handle!RefreshStep(t)))
          /\ SF_allVars(InHandle(Handle!AcquireLock(t)))

LivenessSpec ==
    LivenessInit /\ [][LifecycleStep \/ HandleStep \/ ServerStep]_allVars /\ LivenessFairness

\* The handle ends up on what its sources settle on: see RefreshingPackage.
ConvergesToSource == Handle!ConvergesToSource

\* A refresh_now() that is not dropped returns: see RefreshingPackage.
RefreshNowReturns == Handle!RefreshNowReturns

\* A refresh that was dropped is not reported for ever: see RefreshingPackage.
RefreshingEnds == Handle!RefreshingEnds

\* shutdown() returns: see RefreshingPackage.
ShutdownReturns == Handle!ShutdownReturns

\* Every request is answered: see LanguageServer.
EveryRequestIsAnswered == Server!EveryRequestIsAnswered

\* The diagnostics become those of the buffers: see LanguageServer.
DiagnosticsSettle == Server!DiagnosticsSettle
=============================================================================
