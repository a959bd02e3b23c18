---------------------------- MODULE LanguageServer ----------------------------
(***************************************************************************)
(* One session of the language server (src/lsp/server.rs) with its editor.  *)
(* One loop owns the buffers: it drains the wire into a queue, recording     *)
(* cancellations as it goes, and handles the queue in order.  Reads run on   *)
(* tasks of their own over what the loop has captured for them; every        *)
(* mutation schedules a diagnostics pass behind a debounce; both build their *)
(* snapshots of the package under one lock, or take the cached one.          *)
(*                                                                         *)
(* There is one document; its texts are numbered as the editor makes them.  *)
(***************************************************************************)
EXTENDS Naturals, Sequences, FiniteSets, SequencesExt

CONSTANTS
    Requests,      \* ids of the reads, and of requests of an unknown method
    Garbled,       \* a text the editor never had
    NoBuffer,        \* no buffer
    Notices,       \* what the editor tells of the document
    Ranged,        \* which changes it sends: of a range, of the whole
    MaxEdits,      \* bound: texts after the first
    MaxNotices,    \* bound: notifications about the document
    MaxCancels     \* bound: cancellations

VARIABLES
    editor,        \* [open, text, notices, cancels, leaving]: the client
    disk,          \* the text of the file
    ahead,         \* the buffer once all that was sent is handled: a history variable
    asked,         \* what a request was sent over: a history variable
    wire,          \* sent and not drained
    queue, cancellations, inflight,
    server,        \* LspServer: [root, overlay, revision, shutdown], and serving
    work,          \* the spawned tasks
    holder,        \* of the lock of the snapshot cache
    cached,        \* [revision, text]
    generation, published,
    answers,       \* what the editor has received for a request
    shown          \* the text whose diagnostics it shows

sessionVars == <<editor, disk, ahead, asked, wire, queue, cancellations, inflight, server, work,
                 holder, cached, generation, published, answers, shown>>
clientVars == <<editor, disk, ahead, asked>>
loopVars == <<wire, queue, cancellations, inflight, server>>
taskVars == <<work, holder, cached, generation, published, answers, shown>>

Unbuilt == [revision |-> NoBuffer, text |-> NoBuffer]
Unasked == [disk |-> NoBuffer, text |-> NoBuffer]
Outcome(is) == [is |-> is, text |-> NoBuffer]
Of(text) == [is |-> "built", text |-> text]
Nobody == <<"nobody">>
Read(r) == <<"read", r>>
Pass(g) == <<"pass", g>>

-----------------------------------------------------------------------------
(* Buffers                                                                  *)

\* A change of a range is spliced into the text the server has, at positions of
\* the text the editor had; a buffer that is not there is empty.
Splice(text, change) ==
    IF change.ranged /\ text # change.from THEN Garbled ELSE change.to

\* A notification without the document it names, or about one outside the
\* package, is logged.
Mutates(message) == server.root /\ ~message.malformed

Spliced(overlay, changes) == FoldLeft(Splice, overlay, changes)
Edited(overlay, message) ==
    IF message.malformed THEN overlay
    ELSE CASE message.method = "didOpen" -> message.text
           [] message.method = "didChange" -> Spliced(overlay, message.changes)
           [] message.method \in {"didSave", "didClose"} -> NoBuffer
           [] OTHER -> overlay

\* What the package reads as: its documents on disk, under the buffers.
Text(overlay) == IF overlay = NoBuffer THEN disk ELSE overlay

-----------------------------------------------------------------------------
(* The editor                                                               *)

Notify(message) == wire' = Append(wire, message)
Notice(method) == [kind |-> "notice", method |-> method, malformed |-> FALSE]
Request(r, method) == [kind |-> "request", id |-> r, method |-> method]

SessionInit ==
    /\ editor = [open |-> FALSE, text |-> 0, notices |-> 0, cancels |-> {},
                 started |-> FALSE, leaving |-> FALSE]
    /\ disk = 0 /\ ahead = NoBuffer
    /\ asked = [r \in Requests |-> Unasked]
    /\ wire = <<Request("initialize", "initialize")>>
    /\ queue = << >> /\ cancellations = {} /\ inflight = {}
    /\ server = [root |-> FALSE, overlay |-> NoBuffer, revision |-> 0, shutdown |-> FALSE, serving |-> TRUE]
    /\ work = << >> /\ holder = Nobody /\ cached = Unbuilt
    /\ generation = 0 /\ published = 0
    /\ answers = [r \in Requests \cup {"initialize"} |-> << >>] /\ shown = NoBuffer

\* The editor waits for the answer to initialize before it says anything else.
EditorStarts ==
    /\ ~editor.started /\ answers["initialize"] # << >>
    /\ Notify(Notice("initialized"))
    /\ editor' = [editor EXCEPT !.started = TRUE]
    /\ UNCHANGED <<disk, ahead, asked, queue, cancellations, inflight, server, taskVars>>

Talks == editor.started /\ ~editor.leaving
Told(message, fields) ==
    /\ Talks /\ message.method \in Notices /\ editor.notices < MaxNotices
    /\ Notify(message)
    /\ ahead' = Edited(ahead, message)
    /\ editor' = [fields EXCEPT !.notices = @ + 1]
    /\ UNCHANGED <<asked, queue, cancellations, inflight, server, taskVars>>

EditorOpens ==
    /\ ~editor.open
    /\ Told([kind |-> "notice", method |-> "didOpen", malformed |-> FALSE, text |-> disk],
            [editor EXCEPT !.open = TRUE, !.text = disk])
    /\ UNCHANGED disk

\* One message carries one change or two.
EditorChanges(ranged, count) ==
    /\ editor.open /\ editor.text + count <= MaxEdits
    /\ LET change(i) == [ranged |-> ranged, from |-> editor.text + i - 1, to |-> editor.text + i]
       IN  Told([kind |-> "notice", method |-> "didChange", malformed |-> FALSE,
                 changes |-> [i \in 1..count |-> change(i)]],
                [editor EXCEPT !.text = @ + count])
    /\ UNCHANGED disk

EditorSaves ==
    /\ editor.open
    /\ Told(Notice("didSave"), editor)
    /\ disk' = editor.text

EditorCloses ==
    /\ editor.open
    /\ Told(Notice("didClose"), [editor EXCEPT !.open = FALSE])
    /\ UNCHANGED disk

EditorMistakes ==
    /\ Told([Notice("didSave") EXCEPT !.malformed = TRUE], editor)
    /\ UNCHANGED disk

\* Of a request it is kept what was sent before it, and the file at this time.
EditorAsks(r, method) ==
    /\ Talks /\ asked[r] = Unasked
    /\ Notify(Request(r, method))
    /\ asked' = [asked EXCEPT ![r] = [disk |-> disk, text |-> ahead]]
    /\ UNCHANGED <<editor, disk, ahead, queue, cancellations, inflight, server, taskVars>>

\* Whether or not the answer has come.
EditorCancels(r) ==
    /\ Talks /\ asked[r] # Unasked /\ r \notin editor.cancels
    /\ Cardinality(editor.cancels) < MaxCancels
    /\ Notify([kind |-> "cancel", id |-> r])
    /\ editor' = [editor EXCEPT !.cancels = @ \cup {r}]
    /\ UNCHANGED <<disk, ahead, asked, queue, cancellations, inflight, server, taskVars>>

\* shutdown and exit, or the end of the stream.
Farewells == {<<Request("shutdown", "shutdown"), Notice("exit")>>, << >>}
EditorLeaves(farewell) ==
    /\ Talks
    /\ wire' = wire \o farewell
    /\ editor' = [editor EXCEPT !.leaving = TRUE]
    /\ UNCHANGED <<disk, ahead, asked, queue, cancellations, inflight, server, taskVars>>

-----------------------------------------------------------------------------
(* The loop                                                                 *)

\* A bug: the loop answers for the read it cancels, which answers too.
IntakeAnswering ==
    /\ server.serving /\ wire # << >>
    /\ wire' = Tail(wire)
    /\ LET message == Head(wire)
       IN  CASE message.kind # "cancel" ->
                    queue' = Append(queue, message) /\ UNCHANGED <<cancellations, inflight, work, answers>>
             [] message.kind = "cancel" /\ message.id \in inflight ->
                    /\ inflight' = inflight \ {message.id}
                    /\ work' = [work EXCEPT ![Read(message.id)].cancelled = TRUE]
                    /\ answers' = [answers EXCEPT ![message.id] = Append(@, Outcome("cancelled"))]
                    /\ UNCHANGED <<queue, cancellations>>
             [] OTHER ->
                    /\ cancellations' = cancellations \cup {message.id}
                    /\ UNCHANGED <<queue, inflight, work, answers>>
    /\ UNCHANGED <<clientVars, server, holder, cached, generation, published, shown>>

\* intake: a cancellation interrupts a running read or is kept for a queued one.
Intake ==
    /\ server.serving /\ wire # << >>
    /\ wire' = Tail(wire)
    /\ LET message == Head(wire)
       IN  CASE message.kind # "cancel" ->
                    queue' = Append(queue, message) /\ UNCHANGED <<cancellations, inflight, work>>
             [] message.kind = "cancel" /\ message.id \in inflight ->
                    /\ inflight' = inflight \ {message.id}
                    /\ work' = [work EXCEPT ![Read(message.id)].cancelled = TRUE]
                    /\ UNCHANGED <<queue, cancellations>>
             [] OTHER ->
                    cancellations' = cancellations \cup {message.id} /\ UNCHANGED <<queue, inflight, work>>
    /\ UNCHANGED <<clientVars, server, holder, cached, generation, published, answers, shown>>

\* The message in turn, unless the client has cancelled it in the queue.
Dispatched(kind, methods) ==
    /\ server.serving /\ queue # << >>
    /\ Head(queue).kind = kind /\ Head(queue).method \in methods
    /\ kind = "request" => Head(queue).id \notin cancellations
    /\ queue' = Tail(queue)
    /\ UNCHANGED <<clientVars, wire>>
Send(r, outcome) == answers' = [answers EXCEPT ![r] = Append(@, outcome)]

HandleCancelled ==
    /\ server.serving /\ queue # << >>
    /\ Head(queue).kind = "request" /\ Head(queue).id \in cancellations
    /\ queue' = Tail(queue)
    /\ cancellations' = cancellations \ {Head(queue).id}
    /\ Send(Head(queue).id, Outcome("cancelled"))
    /\ UNCHANGED <<clientVars, wire, inflight, server, work, holder, cached, generation, published, shown>>

HandleInitialize(found) ==
    /\ Dispatched("request", {"initialize"})
    /\ server' = [server EXCEPT !.root = found]
    /\ Send(Head(queue).id, Outcome(IF found THEN "ready" ELSE "error"))
    /\ UNCHANGED <<cancellations, inflight, work, holder, cached, generation, published, shown>>

HandleShutdown ==
    /\ Dispatched("request", {"shutdown"})
    /\ server' = [server EXCEPT !.shutdown = TRUE]
    /\ UNCHANGED <<cancellations, inflight, taskVars>>

\* read_context: what a task captures of the session.
Task(stage, session) ==
    [stage |-> stage, root |-> session.root, revision |-> session.revision,
     overlay |-> session.overlay, cancelled |-> FALSE, outcome |-> Outcome("none")]
Spawn(t, task) == work' = [u \in DOMAIN work \cup {t} |-> IF u = t THEN task ELSE work[u]]

HandleRead ==
    /\ Dispatched("request", {"read"})
    /\ LET r == Head(queue).id
       IN  /\ inflight' = inflight \cup {r}
           /\ Spawn(Read(r), Task("waiting", server))
    /\ UNCHANGED <<cancellations, server, holder, cached, generation, published, answers, shown>>

HandleUnknown ==
    /\ Dispatched("request", {"unknown"})
    /\ Send(Head(queue).id, Outcome("unknown"))
    /\ UNCHANGED <<cancellations, inflight, server, work, holder, cached, generation, published, shown>>

\* DiagnosticsScheduler::schedule, over the session as it is by then.
Schedule(session) ==
    /\ generation' = generation + 1
    /\ Spawn(Pass(generation'), Task("sleeping", session))
    /\ UNCHANGED <<cancellations, inflight, holder, cached, published, answers, shown>>

HandleInitialized ==
    /\ Dispatched("notice", {"initialized"})
    /\ Schedule(server) /\ UNCHANGED server

\* A bug: a change of the buffers leaves the revision.
HandleDocumentUnrevised ==
    /\ Dispatched("notice", {"didOpen", "didChange", "didSave", "didClose"})
    /\ server' = [server EXCEPT !.overlay = IF Mutates(Head(queue)) THEN Edited(@, Head(queue)) ELSE @]
    /\ Schedule(server')

HandleDocument ==
    /\ Dispatched("notice", {"didOpen", "didChange", "didSave", "didClose"})
    /\ LET message == Head(queue)
       IN  server' = IF Mutates(message)
                     THEN [server EXCEPT !.overlay = Edited(@, message), !.revision = @ + 1]
                     ELSE server
    /\ Schedule(server')

HandleExit ==
    /\ Dispatched("notice", {"exit"})
    /\ server' = [server EXCEPT !.serving = FALSE]
    /\ UNCHANGED <<cancellations, inflight, taskVars>>

EndOfInput ==
    /\ server.serving /\ editor.leaving /\ wire = << >> /\ queue = << >>
    /\ server' = [server EXCEPT !.serving = FALSE]
    /\ UNCHANGED <<clientVars, wire, queue, cancellations, inflight, taskVars>>

-----------------------------------------------------------------------------
(* Tasks.  The tasks hold the channel to the writer, which waits for them    *)
(* when the loop has ended.                                                 *)

Tasks == DOMAIN work
IsRead(t) == t[1] = "read"
Step(t, from) == t \in Tasks /\ work[t].stage = from
Moves(t, stage, outcome) == work' = [work EXCEPT ![t].stage = stage, ![t].outcome = outcome]
\* Of a task that has ended nothing is left but whether its build failed.
Ends(t, outcome) ==
    work' = [work EXCEPT ![t] = [Task("gone", [server EXCEPT !.root = FALSE, !.overlay = NoBuffer, !.revision = 0])
                                    EXCEPT !.outcome = outcome]]
Rests == UNCHANGED <<clientVars, loopVars, generation>>

\* A built snapshot, or none, as the two kinds of task go on.
Built(t, text) == Moves(t, IF IsRead(t) THEN "answering" ELSE "checking", Of(text))
\* A bug: a read that has no snapshot ends as a pass does.
NotBuiltSilently(t) == Ends(t, Outcome("error"))

NotBuilt(t) ==
    IF IsRead(t) THEN Moves(t, "answering", Outcome("error")) ELSE Ends(t, Outcome("error"))

Wakes(g) ==
    /\ Step(Pass(g), "sleeping")
    /\ IF generation = g THEN Moves(Pass(g), "waiting", Outcome("none")) ELSE Ends(Pass(g), Outcome("none"))
    /\ Rests /\ UNCHANGED <<holder, cached, published, answers, shown>>

Rootless(t) ==
    /\ Step(t, "waiting") /\ ~work[t].root
    /\ NotBuilt(t)
    /\ Rests /\ UNCHANGED <<holder, cached, published, answers, shown>>

TakesCached(t) ==
    /\ Step(t, "waiting") /\ work[t].root
    /\ holder = Nobody /\ cached.revision = work[t].revision
    /\ Built(t, cached.text)
    /\ Rests /\ UNCHANGED <<holder, cached, published, answers, shown>>

StartsBuild(t) ==
    /\ Step(t, "waiting") /\ work[t].root
    /\ holder = Nobody /\ cached.revision # work[t].revision
    /\ holder' = t
    /\ Moves(t, "building", Outcome("none"))
    /\ Rests /\ UNCHANGED <<cached, published, answers, shown>>

EndsBuild(t) ==
    /\ Step(t, "building")
    /\ holder' = Nobody
    /\ LET text == Text(work[t].overlay)
       IN  /\ Built(t, text)
           /\ cached' = IF cached = Unbuilt \/ cached.revision < work[t].revision
                        THEN [revision |-> work[t].revision, text |-> text] ELSE cached
    /\ Rests /\ UNCHANGED <<published, answers, shown>>

FailsBuild(t) ==
    /\ Step(t, "building")
    /\ holder' = Nobody
    /\ NotBuilt(t)
    /\ Rests /\ UNCHANGED <<cached, published, answers, shown>>

\* The work of a read is dropped, and with it the lock it may hold.
Interrupted(t) ==
    /\ t \in Tasks /\ work[t].cancelled
    /\ work[t].stage \in {"waiting", "building"}
    /\ Moves(t, "answering", Outcome("cancelled"))
    /\ holder' = IF holder = t THEN Nobody ELSE holder
    /\ Rests /\ UNCHANGED <<cached, published, answers, shown>>

Answers(r) ==
    /\ Step(Read(r), "answering")
    /\ inflight' = inflight \ {r}
    /\ Send(r, work[Read(r)].outcome)
    /\ Ends(Read(r), Outcome("none"))
    /\ UNCHANGED <<clientVars, wire, queue, cancellations, server, holder, cached, generation, published, shown>>

Rechecks(g) ==
    /\ Step(Pass(g), "checking")
    /\ IF generation = g THEN Moves(Pass(g), "claiming", work[Pass(g)].outcome) ELSE Ends(Pass(g), Outcome("none"))
    /\ Rests /\ UNCHANGED <<holder, cached, published, answers, shown>>

\* A bug: what has been published since the check does not matter.
ClaimsTurnBlindly(g) ==
    /\ Step(Pass(g), "claiming")
    /\ published' = g
    /\ Moves(Pass(g), "publishing", work[Pass(g)].outcome)
    /\ Rests /\ UNCHANGED <<holder, cached, answers, shown>>

\* A newer pass that has claimed ends this one.
ClaimsTurn(g) ==
    /\ Step(Pass(g), "claiming")
    /\ IF published > g
       THEN Ends(Pass(g), Outcome("none")) /\ UNCHANGED published
       ELSE Moves(Pass(g), "publishing", work[Pass(g)].outcome) /\ published' = g
    /\ Rests /\ UNCHANGED <<holder, cached, answers, shown>>

\* No await is between the claim and the sends, and nothing else either: the
\* runtime has several threads, and a newer pass may claim and send in between.
Publishes(g) ==
    /\ Step(Pass(g), "publishing")
    /\ shown' = work[Pass(g)].outcome.text
    /\ Ends(Pass(g), Outcome("none"))
    /\ Rests /\ UNCHANGED <<holder, cached, published, answers>>

-----------------------------------------------------------------------------
EditorStep ==
    \/ EditorStarts \/ EditorOpens \/ EditorSaves \/ EditorCloses \/ EditorMistakes
    \/ \E ranged \in Ranged, count \in 1..2 : EditorChanges(ranged, count)
    \/ \E r \in Requests, method \in {"read", "unknown"} : EditorAsks(r, method)
    \/ \E r \in Requests : EditorCancels(r)
    \/ \E farewell \in Farewells : EditorLeaves(farewell)

LoopStep ==
    \/ Intake
    \/ HandleCancelled \/ HandleShutdown \/ HandleRead \/ HandleUnknown
    \/ HandleInitialized \/ HandleDocument \/ HandleExit \/ EndOfInput
    \/ \E found \in BOOLEAN : HandleInitialize(found)

SnapshotStep(t) ==
    Rootless(t) \/ TakesCached(t) \/ StartsBuild(t) \/ EndsBuild(t) \/ FailsBuild(t)
ReadStep(r) == SnapshotStep(Read(r)) \/ Interrupted(Read(r)) \/ Answers(r)
PassStep(g) == Wakes(g) \/ SnapshotStep(Pass(g)) \/ Rechecks(g) \/ ClaimsTurn(g) \/ Publishes(g)

Generations == 1..MaxNotices + 1
TaskStep == (\E r \in Requests : ReadStep(r)) \/ (\E g \in Generations : PassStep(g))
SessionNext == EditorStep \/ LoopStep \/ TaskStep

SessionSpec == SessionInit /\ [][SessionNext]_sessionVars

\* The runtime polls the loop, and some task while one can move; that is enough,
\* because every task is over after a few steps.  Nothing makes the editor act.
SessionFairness == WF_sessionVars(LoopStep) /\ WF_sessionVars(TaskStep)
FairSessionSpec == SessionSpec /\ SessionFairness

-----------------------------------------------------------------------------
(* Properties                                                               *)

\* A request is answered at most once, and cancelled only for a client that asked
\* for it, wherever the cancellation meets it: on the wire, in the queue, running,
\* leaving or gone.
OneAnswer ==
    \A r \in Requests :
        /\ Len(answers[r]) <= 1
        /\ answers[r] # << >> => asked[r] # Unasked
        /\ Outcome("cancelled") \in Range(answers[r]) => r \in editor.cancels

\* A read sees every edit that was sent before it and none that came after,
\* however late its task runs, whatever it finds cached, and whoever built that;
\* of a document that has no buffer it sees what is on disk at the time.
ReadYourEdits ==
    \A r \in Requests : \A answer \in Range(answers[r]) : answer.is = "built" =>
        IF asked[r].text = NoBuffer THEN answer.text \in asked[r].disk..disk ELSE answer.text = asked[r].text

\* Every request is answered, unless the session ends before its turn; one whose
\* turn has come is answered even then.
Pending(r) == \E i \in DOMAIN (queue \o wire) : LET message == (queue \o wire)[i]
                                               IN  message.kind = "request" /\ message.id = r
EveryRequestIsAnswered ==
    \A r \in Requests : asked[r] # Unasked ~> answers[r] # << >> \/ (~server.serving /\ Pending(r))

\* Once the editor pauses, the diagnostics it shows are those of its buffers, as
\* the server has them, or the last pass has failed; in whichever order the passes
\* come to their claims, as long as none claims while an older one still sends.
LastPassFailed == generation > 0 /\ work[Pass(generation)].outcome = Outcome("error")
OneSendsAtATime == Cardinality({g \in Generations : Step(Pass(g), "publishing")}) <= 1
DiagnosticsSettle ==
    (<>[](editor.started /\ server.serving /\ server.root) /\ []OneSendsAtATime) =>
        <>[](shown = Text(server.overlay) \/ LastPassFailed)

\* The code's aim ("apply each change to the running buffer in order"): once the
\* server has handled all that was sent, an open document reads as in the editor.
BuffersMatchEditor ==
    (server.serving /\ server.root /\ editor.open /\ queue = << >> /\ wire = << >>) =>
        Text(server.overlay) = editor.text

=============================================================================
