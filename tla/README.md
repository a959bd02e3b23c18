# A verification development for rototo

rototo keeps configuration as packages of files in git: a Rust core loads,
lints, composes and resolves packages, an SDK keeps one loaded and fresh inside
an application, and a console server lets people propose, approve and merge
changes to packages through branches and pull requests. The TLA+ modules here
model the parts of it where several actors share state over time, and the pure
parts whose readers must agree with each other: composition, lint, compilation,
resolution, diff and edits.

## The parts of the system

| Part | State it keeps | Operations | Interacts with | What is hard | What makes it correct |
|---|---|---|---|---|---|
| Refreshing package (`src/sdk/refresh.rs`) | current package, status, last event, refresh lock, failure counter, event channel | load with fallback, `refresh_now`, background loop, `snapshot`, `subscribe_refresh_events`, `shutdown`, `Drop` | loads through the staging pipeline; read by application threads | two refreshers, dropped futures, torn snapshots, backoff, shutdown in the middle of a refresh | the last known good package always serves; status, events and snapshots are about it; it converges to the source |
| Package loading and staging (`src/sdk.rs`, `src/source/load.rs`, `git.rs`, `archive.rs`, `local.rs`, `auth.rs`, `uri.rs`) | none, but for staged files | probe, stage, lint, compile | git, HTTP, the file system | layers fetched one after the other while sources move | what is accepted was linted; a pinned source never changes |
| Pin store (`src/source/pin.rs`) | a directory with an entry per commit; a lock per commit in each process | `stage`, `build`, `evict_to_budget` | several servers share the directory; the console reads trees from it | eviction without a lock under readers, two processes, a removal that stops half way | a tree appears whole and once; what was just used stays |
| Layer composition and governance (`src/source/layer/*`, `governance.rs`) | none | order the graph, compose, enforce the base's policy, record provenance | staging before it, lint after it | cycles, diamonds, who may override what | a parent's policy holds in the composition; provenance names the layer that won |
| Resolution (`src/resolve.rs`, `resolve/hydrate.rs`, `predicate.rs`, `src/expression/*`) | none | select a rule, evaluate, allocate, hydrate references | a compiled package and a context | order of rules, boundaries of buckets, cyclic references | one outcome for one input; buckets partition the population |
| Lint (`src/lint/*`, `lua_lint.rs`) | an index of the package | stages of checks | every load, edit and document change | breadth | a package that passes can be compiled |
| Edit engine (`src/edit/*`) | documents while a plan is made | create, entry, variable, layer, list and value operations | the console's `edit` | keeping the rest of a document as it was | a plan does what its operations say |
| Language server (`src/lsp/*`) | open documents with versions | open, change, close, requests | an editor, or the console's bridge | answers about an older text | diagnostics of the latest version win |
| Change sets: life cycle (`apps/console-server/src/change-sets.ts`, `routes/change-sets.ts`, `fire-drill.ts`) | rows and diary of the store; branch and pull request on GitHub | create, submit, abandon, merge, rebuild after a loss | GitHub, the reconciler, people who use GitHub directly | every await is an interleaving; crashes between GitHub and the store | rows tell what GitHub says; nothing becomes merged that was not |
| Reconciler (`reconciler.ts`) | the observed columns | timer, sweep, pass | the same rows and GitHub | stale rows, torn reads, late passes | an open row ends up right |
| Change sets: edits (`change-sets.ts`) | commits of the branch | `edit` with staleness check and retries | the pin store, GitHub, other editors | two editors, raw pushes, lost answers | nobody's change is overwritten unseen; contributors are on record |
| Approvals and merge (`approvals.ts`, `routes/change-sets.ts`, `decide.ts`) | approvals, diary | approve, withdraw, merge | surfaces of the touched packages, GitHub | the branch moves between judging and merging | no change is merged on the word of those who wrote it |
| Store, GitHub client (`store.ts`, `git.ts`) | SQLite tables; none | synchronous statements; HTTP calls | everything in the console | a call that took effect and whose answer is lost | modelled where it is used |
| Accounts, sessions, enrolment (`enroll.ts`, `sessions.ts`, `oidc.ts`, `local-auth.ts`, `token-crypto.ts`, `routes/auth.ts`) | identities, tokens, sessions | sign in, link, refresh tokens, expire | GitHub, identity providers | refresh of a single-use token by two requests | one identity per person, no session of a disabled one |
| Decisions and grants (`decide.ts`, `grant-diagnostics.ts`) | grants, memberships | `decide` | GitHub permissions or the console's grants | two sources of authority | the two-person rule |
| Surfaces, review, packages (`surfaces.ts`, `review.ts`, `packages.ts`, `native.ts`) | composed copies on disk | views | pin store, Rust core | a composed copy of an evicted tree | they show what the commit holds |
| Application, language bridge (`app.ts`, `lsp-bridge.ts`, `routes/lsp.ts`, `routes/admin.ts`, `config.ts`) | one child process per open workspace | wiring, websocket to stdio | language server | a late answer for a closed socket | messages stay in order |
| Command line, packs, fixtures, SDK bindings, console web | none to speak of | one command, one rendering | the core | parsing and printing | not modelled |

`PROJECT.json` lists every part with its status, and under `hazards` the places
where the code can go wrong in a way a test hardly reaches.

## Modules

| Module | Models | Checked by |
|---|---|---|
| `LastKnownGood` | the promise of a refreshing package: what serves was accepted, only moves forward, and is the fallback at the start at most | as a property of `RefreshingPackage` |
| `RefreshingPackage` | `src/sdk/refresh.rs` with the load pipeline it runs | `RefreshSafety`, `Liveness`, `RefreshStandsDown` |
| `RefreshingPackage_proofs` | the theorems about it | the proof system |
| `PinStore` | the store of staged trees | `PinStoreSafety`, `PinStoreGrace` |
| `PinStore_proofs` | the theorems about it | the proof system |
| `ChangeSetLifecycle` | one change set: branch, pull requests, row and diary; handlers, reconciler, fire drill | `ConsoleSafety`, `Liveness`, `LifecycleLatePass` |
| `ChangeSetEdits` | the commits, approvals and merge of one proposed change set | `ConsoleSafety`, `EditsMerged` |
| `ChangeSetLifecycle_proofs` | the theorems about a change set's row | the proof system |
| `Decisions` | the decision point: grants, derived view, GitHub's permissions | through `Accounts` |
| `Accounts` | sign-in, enrolment, sessions, groups, members, grants, invitations, source trees | `ConsoleSafety` |
| `Accounts_proofs` | the theorems about both | the proof system |
| `Console_proofs` | the theorems about `ChangeSetEdits`, and all of them of the console as a whole | the proof system |
| `LanguageServer` | one session of the language server with its editor | `PackageTools`, `Liveness`, `LspBuffers` |
| `PackageLayers` | the walk over an extends graph, composition, governance, provenance | `PackageTools`, `LayersNarrow` |
| `PackageLint` | what the linter refuses and what the runtime compiler refuses | through `Resolution` |
| `VariableMeaning` | expressions, the three methods of resolution, and the meaning they define | through `Resolution` and `PackageDiff` |
| `Resolution` | the evaluator: batches, cache, cycle detection, trace policies | `PackageTools`, `LintCycles` |
| `PackageDiff` | the semantic diff of two versions and its impacts on contexts | `PackageTools` |
| `EditEngine` | batches of operations on a package tree, the plan, and writing it | `PackageTools` |
| `SessionLayersEdits_proofs` | the theorems about the language server, layers and the edit engine | the proof system |
| `Resolution_proofs` | the theorems about lint, the compiler, resolution and the diff | the proof system |
| `PackageTools_proofs` | all of them of the tools beside each other | the proof system |
| `MC...` | the instances that TLC checks | |

Four of the `MC` modules are sums: `MCRefreshSafety`, `MCConsole`,
`MCPackageTools` and `MCLiveness` put components side by side that do not act on
each other. A variable, `focus` (`instance` in the first), is chosen at the
start and says which of them a behaviour is about; the others stay as they were.
A sum asks one question of several parts in one run, and no state of one part is
ever combined with the states of another. Where components do act on each other
they are in one module: loading is part of `RefreshingPackage`, the reconciler
part of `ChangeSetLifecycle`, approvals part of `ChangeSetEdits`, lint and
compilation part of `Resolution`.

### RefreshingPackage

`current`, `status`, `lastEvent` and `lock` are the fields of `RefreshState`.
`pc` says where each task is: the boot task runs `load_with_options`, the loop
is the task `spawn_refresh_loop` spawns, and every caller is a task in
`refresh_now()`. One action is the code between two points where another task
can be seen: an await, or the acquisition of one of the standard locks that
`snapshot()` takes one after the other. `refresh_once` is therefore ten actions
(`AcquireLock` to `FinishRefresh`), and `snapshot()` three. `DropFuture` drops a
refresh at any await, as a timeout around `refresh_now()` or `abort()` does.

A package is its layers' publication numbers, which stand for their
fingerprints: every publication has a fresh one. `loaded_at` is the number of
packages installed before. The extends graph is flat: parents of one child, in
the order in which the code stages and probes them. Left out, because no
property reads them: `current_fingerprint` and `last_attempt` of the status,
trace events, and resolution itself. `streak` is a history variable.

### ChangeSetLifecycle

`branch`, `pulls` and `drift` are GitHub; `row` and `diary` are the store, whose
statements are synchronous, so that all of them between two awaits are one
step; `task` is what each request, and the reconciler's timer, is doing. A call
to GitHub is one step at the moment it takes effect, and `Fail` ends the task
before or after it, which covers errors, lost answers and crashes. People on
GitHub push, open, close, reopen and merge pull requests and delete branches
(`OutsideStep`). A pass of the reconciler is four steps (`ReadBranch`,
`ReadPull`, `Compare`, `Write`) with the row its caller held.

`truths` is a history variable: what GitHub has said, by the design's reading of
it, at each moment since a pass began. Titles, sharing and comments are left
out; change sets are independent of each other, so there is one.

### ChangeSetEdits

A commit is a number; its record has the files it touches and the commits it
contains. What `planAt` and `compare` return depends on commits only, so reading
the head and building a commit on it are one step and moving the branch is
another. An edit by operations may plan other files on another head (`PlansAt`),
which covers raw edits too. Approving, judging the policy, merging, deleting the
merged branch and recording the merge are steps of their own, since the branch can
move between them; the deletion is best effort, so the branch may stay. A person has one request
in flight; the console acts with its App credential, the mode in which its
policy is the only one. Surfaces, roles and collaborators do not change while
the change set is open.

### Decisions and Accounts

`Decisions` is `decide()` without its caches: a resource is its path from the
deployment down, so a grant covers what its path is a prefix of; a grant to
propose derives view over the packages its package is joined to by `extends`;
GitHub is asked last. `Decide` has the order of the code, in which a grant that
covers an approval refuses it to a contributor before GitHub is asked.

The variables of `Accounts` are the tables of the store: `status` principals,
`holder` identities, `session` cookies, `groups`, `members`, `grants`,
`invitations`, `trees` and `open` source trees and their open change sets. SQLite
statements are synchronous, so a handler that decides and writes without an await
is one action (`RevokeInvitation`, `Unlink`), and one that awaits its body, a code
exchange or GitHub is a `Begin...` or `Ask...` that decides and a second action
that writes, with the rows it read before carried in `task` (`AskGrant` and
`CreateGrant`, `BeginFlow` and `SignIn`). Whether the principal may still do it is
asked again by the second action exactly where the code asks again. `GiveUp` ends
any of them. Left out: the exchange with the identity provider beyond the account
it names, tokens and their refresh, local mode, the audit log, listings, and the
caches of GitHub's answers, which an environment that answers anything covers.

### PinStore

An entry is a directory whose parts (the tree, `size` with `remote`, `used`) can
disappear one by one. Every await of `stage()` and of `evict_to_budget` is a
step; a removal goes through the parts in any order and may stop after any. A
server may crash. The scratch directory of a build is private to it and left
out, and so is the garbage a crash leaves there, which nothing reads.

Two history variables say what the disk does not: `builder`, which server moved a
whole tree in place, and `handed`, whose tree some `stage()` has returned since.
The grace window is about those: the stamp of a tree that is not handed out yet
is the time at which its build had written it, before the rename, so a slow
builder can put a tree in place that is old from the start.

### LanguageServer

`wire` is what the editor has sent, `queue`, `cancellations` and `inflight` are
the loop's own, `server` has the fields of `LspServer` that the session changes.
`work` maps every spawned task, a read or a pass of diagnostics, to its stage and
to what `read_context` captured for it; `holder` and `cached` are the snapshot
cache with its lock. `Intake` is the drain of the reader's channel, which
records a cancellation before its turn; one action handles one message of the
queue; the steps of a task are its awaits. An interrupted read drops its work,
and the lock with it, at any of them.

One history variable, `ahead`, is the buffer the server will have once all that was
sent is handled; what a request was sent over, its `asked`, is taken from it.

There is one document and its texts are numbered. A change of a range carries
the text it was made on, so a splice into any other text is `Garbled`. A pass
checks that no newer one was scheduled, claims its turn and sends in three steps
(`Rechecks`, `ClaimsTurn`, `Publishes`): no await is between them, but the runtime
has several threads, so other passes may go on in between. What a pass sends is
one step.

### PackageLayers

A world fixes the graph, what each package ships of one entity, and its
contract. `stack` is the recursion of `load_package_layers`: one frame per
package whose bases are being projected. `LandBase` lets a base land beside its
siblings, `LandOverlay` the package on its bases after the contract that the
projection carries has admitted it; `RefuseGraph` has the depth limit and the
cycle. A file is a function from its fields to values, which is what a deep merge
of tables is. After the first load the author lists all bases the other way
round and loads again, for `SiblingsCommute`. The order does show in two places,
which that property names: a trace names the base listed first among those that
bring the same variable, and a base that updates a list it declares itself can
only be listed before a sibling that states the composed list
(`provenance.rs:51` compares a file with the projection, and refuses a marker
where the entity is taken). Entities compose independently of
each other, so one is enough.

### PackageLint, VariableMeaning and Resolution

`PackageLint` reads one package twice: `Linted` is a lint without errors,
`Compiles` what `compile_runtime_package` takes. A field the linter finds not to
be what it should be is `Malformed`, one that is not there `None`. An expression
is what a reader can tell of it: the variables, lists and entries it refers to,
and its answer. Warnings, wording and spans are left out.

`VariableMeaning` has the methods (`AskRules`, `AskQuery`, `AskAllocation`) as
what a resolution asks next given the answers so far, and `Meanings`, the value of
every variable: at first each is a cycle, and then each is asked over what the
others come to (`Asking`, `Meant`), as many times over as there are variables
(`Following`): no cache, no marks, no order. `Resolution` is the code's evaluator over the same
questions: `stack` is the recursion of `resolve_variable_value`, `cache`,
`resolving` and `now` are the fields of `ResolutionState`; one action is the
reading of one variable or the evaluation of one expression. A batch is strict,
an outcome map, or one traced variable with its trace policies. The hash of a
unit is a function of the context, and its remainder is taken in the model.

### PackageDiff

`Changes` compares two linted models as `diff.rs` does, and `impacts` resolves
the panel of contexts on either side, batch by batch, each at the time the clock
has by then. A catalog is compared by its entries; schemas, contexts and
governance are compared as files by the code and left out. What a variable depends
on (`DependsOn`) is closed under reading and referring: the variables it reads and those
they read, the catalog of its type and the catalogs that its entries lead to. Two
things the properties say of the diff came from counterexamples. A package whose
layers do not lint may compile all the same, and the diff does not see all of such a layer: a
second allocation with the id of another, or arms that overlap and change their order, move values with
no change listed, so `ImpactsAreExplained` is about layers that lint. And an expansion of one
allocation can move a unit out of an arm of another, whose eligibility reads the variable that
the first one decides (`docs/src/expressions.md` has such an eligibility), so
`ExpansionMovesNoOne` excepts it. The two batches of a context may run at two times, so
the unit was in no arm at some time up to that of the diff. Versions are what the
projection makes of files (`Authored`), with a few facts that only the diff needs
(`Projected`): the keys of entries, the fields of a query and of an entry, a unit or
a malformed one in every layer.

### EditEngine

`edits` is the working tree of `apply`, over the snapshot `base`. An operation is
a function from a working tree to its outcomes, of which there is none when it
refuses; `Apply` runs it in the batch and, for comparison, alone on the tree that
the operations before it left (`stepwise`). A document has its fields, the
members of a list, and its `[[...]]` tables in the order of the text.
`toml_edit` prints tables by the position it gave them when it parsed them, not
by their place in the array, so `Parsed` and `Printed` are explicit.
`WriteFile`, `RemoveFile` and `WriteFails` are `write_plan`. Left out: comments and
white space, pointers deeper than one level, the `limit` of a query, tables
nested under a rule, and the operations on `governance.toml` and surfaces.

## What the runs check

| Run | Question | Bounds, and why they are enough |
|---|---|---|
| `RefreshSafety` | Do status, snapshots, events and backoff stay consistent with the package that serves, does the handle implement `LastKnownGood`, and is a pinned primary final? | a loop and one caller are every pair of refreshers; two layers can be torn; three loads are fallback, primary, refresh; a counter limit of 2 is reached; the layers are tracked or full commits |
| `PinStoreSafety` | What can a reader of the store see, and what may eviction take? | two calls in one server or two, two pins, room for one, a window that can elapse |
| `ConsoleSafety` | Do concurrent edits respect each other, does the policy judge what it reads, are the reconciler's verdicts true at one moment, do row and diary agree, and does access follow grants and enrolment follow policy? | edits: two people, two files, two commits more, and a push, reset or lost answer, so three refused attempts are reached. Rows: two requests beside the timer while nobody else is on GitHub, or one request at a time and two interventions: a torn read needs one change between two reads. Accounts: three people of whom one is on the bootstrap list, two browsers, two handlers at once and five that wait in all, two grants, one invitation and one group: a stale handler needs one other to overtake it, and a second redemption a second person |
| `PackageTools` | Do the tools of a package agree with their reference? | a session with one read, two notices and one cancellation; chains, forks, diamonds and a cycle of four packages; packages of three variables, three entries or one layer with two allocations; pairs of versions and one or two contexts; batches of two operations on three trees |
| `Liveness` | Does an open row end up saying what GitHub says, does a settled healthy source end up serving, do `refresh_now()` and `shutdown()` return, does a status stop saying that a refresh is running, is every request of an editor answered, and do diagnostics settle? | one request, one failure, crash or loss of the store, one intervention; a pinned parent and a rejected publication in between. The session is looked at twice: one read and a cancellation beside an `initialized` and a `didOpen`, so that passes and a read contend for the snapshot; and no read, but a `didOpen` and a `didChange`, so that there are three passes, the last of them over another text, and the earlier ones end late with diagnostics that are stale |
| `RefreshStandsDown` | Does the loop stop when the source is immutable? It does not | one layer |
| `LifecycleLatePass` | Does a late pass leave a closed change set closed? It does not | one request, nobody else |
| `EditsMerged` | Was what is merged approved? Not always | three people, nothing fails |
| `PinStoreGrace` | Is a tree that was just handed out safe from eviction? It is not | one server, two calls |
| `LayersNarrow` | Do grants only narrow along a chain of overlays? They do not | the worlds of `PackageTools` |
| `LspBuffers` | Does an open buffer read as in the editor? Not after a save | three notices |
| `LintCycles` | Does lint find every cycle a resolution can run into? It does not | the packages of `PackageTools` |

Two of the properties have a premise that a reader should know of.
`DiagnosticsSettle` is about sessions in which no pass claims its turn while an older
one still sends (`OneSendsAtATime`): the code does not exclude it, see below. It asks
that diagnostics end up right in whichever order the passes come to their claims,
which is what the claim is for. `RefreshingEnds` is about a handle with a loop, whose
next refresh clears the flag that a dropped `refresh_now()` left set; without a loop
nothing does.

The properties of `PackageTools` compare two readings of one thing that are
written apart from each other: a batch with a single resolution
(`BatchMeansEach`) or with single edits (`BatchMeansOneByOne`), the linter with
the compiler (`LintedCompiles`) and the evaluator (`LintedNeverCycles`,
`OneArmPerLayer`), the listed changes with the values that move
(`ImpactsAreExplained`, `ExpansionMovesNoOne`), the printed text with what was
asked (`TablesLandWhereAsked`), the composed file with a lookup from the top
(`TopmostLayerWins`), and what an overlay changed with what it was granted
(`ChangesAreGranted`).

Each passing run checks properties that a seeded defect of the code breaks:
the operators marked "A bug" or "Seeded defect" are those variants, and are used
by no specification. The configurations say where a system may really stop, and
only there is deadlock allowed.

### Fairness

Safety runs assume none. In `Liveness` each component is fair while it has the
focus.

* The handle: a spawned task which can run is run and timers fire (weak fairness
  of the steps of tasks); the refresh lock is a tokio `Mutex` that serves its
  waiters in the order they came, so a waiter gets it in the end (strong
  fairness of `AcquireLock`). Nothing is assumed of callers, readers or sources.
* The console: calls are answered or fail, and the interval timer fires for as
  long as the server runs; nobody has to send a request, and people and failures
  are limited by the bounds.
* The language server: its loop is polled, and some task is run while one can
  move. No task can starve another, as each ends after a few steps. Nothing makes
  the editor act.

## Findings

* `RefreshStandsDown`: a loop that recovered a pinned primary from the fallback
  goes on refreshing, with the outcome `Immutable` each time
  (`tests/docs/refresh-matrix.md`, R3).
* `LifecycleLatePass`: a pass that read GitHub before an abandonment writes the
  open state back over the closed row (`reconciler.ts:4-5`). The next pass that
  sees the branch gone repairs it.
* `EditsMerged`: the merge names no commit, so an edit that lands after the
  policy was judged is merged with it (`approvals.ts:2-8`).
* `PinStoreGrace`: an evictor judges the grace window by a last use it read
  earlier, and removes a tree that has just been handed out (`pin.rs:19-21`).
* `LayersNarrow`: an overlay that restates `[defaults]` and leaves out the
  denials of one entity's block hands on more than it was given
  (`docs/src/package-format.md:441-451`).
* `LspBuffers`: `didSave` drops the buffer of a document that stays open, and
  the next ranged change is spliced into an empty text (`lsp/server.rs:597-599`).
* `LintCycles`: the reference graph has no edge for the eligibility of an
  allocation, so a cycle through it lints clean and fails at every resolve
  (`docs/src/expressions.md:75-77`).

Seen while modelling, and not turned into runs:

* an unchanged refresh leaves `consecutive_failures` as it is, so the first
  failure after it waits longer than `min` (`docs/src/sdk.md:383`);
* a query over an empty catalog fails the resolve (`resolve.rs:397-400`), where
  `tests/docs/resolution-matrix.md` (Q3, Q5) lets the default answer;
* values of an `array<catalog>` and of `[[resolve.assign]]` that name unknown
  entries lint clean, and the compiler refuses the package; so does
  `array<catalog=>`;
* the variables an expression refers to are resolved before it is evaluated
  (`expression/eval.rs:30-36`), where `docs/src/expressions.md` speaks of a lazy
  reading;
* a trace policy that fails makes the resolve fail when somebody listens, and
  only then;
* deleting a catalog asks only whether the catalog itself is inherited, not its
  entries (`edit/engine.rs`, near 196);
* moving a rule moves its table and not the tables nested in it
  (`edit/value.rs:122`);
* the number of buckets of a layer is cut to 32 bits (`lint/runtime.rs:517`);
* a disabled principal who signs in gets a session, with which nothing is decided in
  her favour, where `design/console-lifecycle.md:212-213` has the sign-in refused;
* the bootstrap grant is minted again at the next sign-in after it was revoked
  (`enroll.ts:141-145`);
* `status().refreshing` stays set after a `refresh_now()` was dropped, until another
  refresh ends (`sdk/refresh.rs:432`), where `docs/src/sdk.md:392-394` has it say
  whether a refresh is running right now;
* two passes of diagnostics that have both claimed their turn may send in either
  order (`lsp/server.rs:265-276`), so a pass that is held up between its claim and
  its sends for longer than the debounce and the build of the next one overwrites the
  newer diagnostics, which the comment at `lsp/server.rs:232-235` rules out;
* an edit that lands between a merge and the deletion of its branch gets its diary
  entry and is on a branch that goes (`git.ts:399-404`);
* a change set can be opened on a source tree that is deregistered while its handler
  waits for GitHub (`design/console-lifecycle.md:174`);
* a grant to approve refuses a contributor an approval GitHub would have allowed her
  without it (`decide.ts:179-188`), where `routes/admin.ts:3-5` has grants only allow.

## What is proved

A theorem holds for every value of the constants that its assumptions allow, where
a run shows an instance. Each is about the unbounded system but for the counters
the guards bound, whose bounds are arbitrary numbers. Every invariant below was
checked by TLC as an invariant of a small instance before it was proved.

### The refreshing package

`RefreshingPackage_proofs`, for every number of layers and every way they are
addressed, every set of callers and readers and every bound, under the named
assumptions `LayersAssumption`, `OptionsAssumption`, `BoundsAssumption` and
`TasksAssumption`:

* `TypeCorrect`: the type invariant, with the failure counter in its width.
* `Invariance`: the inductive invariant `IInv`, the type invariant with six
  parts. `Control` says which task can be where, and that whoever is past
  `AcquireLock` holds the lock; `Loads` that the package in hand is the
  successor of the one that serves; `Words` that an event about to be said is
  about the current package; `StatusFollows` that the status is about the
  current package, except between the swap and its publication;
  `ViewsFollow` that what a snapshot has read so far is not ahead of the
  package it has yet to read; `Stream` that the events are in order. None of
  the safety properties is inductive alone: a snapshot half taken is about the
  future, and an event in a task's hand is sent long after it was made.
* `SnapshotsNeverBehind`, `StatusIsAboutCurrent`, `EventsInOrder`,
  `BackoffCovers` and `ShutdownSaysLast`: the properties of the same meaning that
  the runs check, and `PinnedStays`, of `PinnedIsFinal`, whose instance over full
  commits `RefreshSafety` checks as `PinnedStaysFinal`.
* `ImplementsLastKnownGood`: the refresh lifecycle implements `LastKnownGood`.

### The pin store

`PinStore_proofs`, for every set of servers, calls and pins, every weight,
budget and grace window, any number of crashes and every bound on the clock, under
`NamesAssumption`, `BudgetAssumption` and `BoundsAssumption`:

* `TypeCorrect`, `OneFetch` and `TreesAppear`, from the inductive invariant `IInv`:
  a call past `Lock` holds the lock of its pin on its server (`Locked`), and one
  that is about to build is not facing a whole tree of its own server's
  (`Fresh`). `OneFetchPerPin` alone is not inductive: it does not say that the
  call that is about to look holds the lock. A step is then judged by what it
  does to one call (`StepFacts`) and to one entry (`DiskFacts`).
* `GraceHolds`, from `IInv` and `GraceInv`: what an evictor has listed for a tree
  that was handed out is the use on record, unless that record is gone or
  younger than the eviction (`Marked`), and what it removes was a full window
  old by its list (`Judged`). `JustStagedIsSafe` is what is missing, and
  `PinStoreGrace` shows that it does not hold.

### The console

The first part of `Console_proofs`, of `ChangeSetEdits`, for any people, files and
requirements:

* `Invariance`: commits are numbered without a gap (`Numbered`), so that a new one
  is fresh; what a commit contains exists, and with it all that contains (`Closed`);
  and a request goes on from
  commits that exist, an edit about to move the branch having found none of its
  files touched between its pin and the commit it is built on (`Checked`). The
  last is what makes `NoSilentOverwrite` hold of a retry: the check is repeated
  with each new head, and its result is stale only if the move is refused. The
  property speaks of the branch as it is at the move too, which somebody may have
  reset since the head was read; `Closed` has that in what was checked.
* `CommitsAreSigned`, `NothingOverwritten`, `SecondPersonApproved`.

`ChangeSetLifecycle_proofs`, for any number of requests, pull requests, commits,
interventions and failures:

* `Invariance`: pull requests are numbered as they are opened (`NumberedIn`); the
  row is about one that was opened, and merged only if one was (`RowTold`); what a
  task carries, a stale row included, is about pull requests and states the diary
  tells of (`Told`); and what a pass has read of GitHub so far was so at a moment
  since it began, or can no longer be contradicted by what it will read (`Seen`).
  `RowTellsTruth` says nothing of a pass that has read the branch only, so it is
  not inductive.
* `TypeCorrect` and `RowIsTrue`.

`Accounts_proofs`, for any people, trees, packages, groups, browsers and offers and
each policy of enrolment, the principals being numbered (`PrincipalsAssumption`):

* `MoreGrantsMoreAllowed`: `Decide` is monotone in the grants that are held, but for
  the approval of a change one contributed to; `GrantsAllowMore` of every step.
* `Invariance`: the rows name rows that are there, principals are made in order, and
  what a handler carries across an await is still there when it goes on (`Carried`),
  which holds because nothing deletes a principal or forgets a tree.
* `TypeCorrect`, `AccessNeedsAGrant` and `PolicyLetsIn`.

The second part of `Console_proofs` takes all of these to `MCConsole`, where the components stand beside each
other: every step of the console is a step of one of them and leaves the others
alone (`EditsAsAlone`, `LifecycleAsAlone`, `AccountsAsAlone`).

### The tools

The first part of `SessionLayersEdits_proofs`, for any requests, notices and bounds, the ids of the
protocol's own requests not being those of reads (`SessionAssumption`):

* `SessionInvariance`: a request that was asked is in one place, the wire, the queue, the
  running tasks or among the answers, and a cancellation that waits is for a request
  the editor cancelled. `AnsweredOnce` alone is not inductive: it does not say that
  a task that is about to answer has not been answered for.
* `AnsweredOnce`, and in `PackageTools_proofs` `AnswersComeOnce` of the tools.
* `EditsAreRead`, of `ReadYourEdits`, from `EditsInv`: the messages on the wire and in
  the queue lead from the buffer the server has to the one the editor counts on
  (`Buffers`), and each request finds on its way there the buffer it was sent over;
  a revision of the session has one buffer, for whoever captured it and for the cache
  (`Captured`); and what is cached is not older than the last save, or a message that
  is on its way will outdate it, and likewise for the save that each request was sent
  over (`Fresh`). Without the last, a read could be given a snapshot built before
  the save that its editor had announced. `EditsAreSeen` of the tools.

The second part, for any worlds, of whatever shape and depth, in which what a
package ships of the entity is a file with a marker or none (`WorldsAssumption`):

* `LayersInvariance`: what is being projected is a file without markers, and a package of the
  graph.
* `OverlaysAreGoverned`, of `ChangesAreGranted`: what `Enforce` reads of the files an
  overlay ships covers what `Compose` then makes of them, kind by kind
  (`EntryGranted`, `OthersGranted`). The property judges the files before and after,
  so the two have to agree on what a merge, a restatement and a marker change.
* `ChainInvariance` and, from it, `ChainsReadFromTheTop` of `TopmostLayerWins`. They
  assume besides that the bases a package names are of the graph and that only
  entries, variables and lists have markers (`GraphsAssumption`). While a chain is
  walked, the frames on the stack are the levels of its spine in order, every frame
  but the topmost still waits for its base, and the topmost one waits too or has a
  projection that reads as all the levels below it do (`ReadsFrom`), which a lookup
  from the top finds. So the walk, which composes from the bottom, and the lookup
  agree level by level (`FieldsLand`, `MembersLand`, `ProvenanceLands`). That `Spine`,
  a recursive function, is what its definition says (`SpineIs`) is shown by a least
  level at which two unfoldings of it differ.
* `LayersAreGoverned` and `TopmostLayersWin` in `PackageTools_proofs` are about the
  worlds of the run, which are shown to be as assumed (`WorldsAsAssumed`,
  `GraphsAsAssumed`).

The third part, for any package trees and any identifiers, a tree having one
document at a path and no stray file the key of an entry (`EditsAssumption`):

* `Invariance`: while operations are applied, every one of them finds at each path
  what it would find in a directory that was written after each operation
  (`SameFiles`). An operation reads single files and the list of the files under an
  entity; both come out the same (`SameReads`), so the operation is refused in both
  or changes the same files to the same documents. From the end of the
  batch on, that directory is the snapshot with the plan written, and the files so
  far are between the two (`Planned`). The batch is refused exactly where one of its
  operations is.
* `OneByOne` of `BatchMeansOneByOne`; `RecordsAreComplete` of `RecordsNameThePlan`.
  The latter is about a delete of an entity in particular, which takes with it the
  strays of its directory and records only the entity. In `PackageTools_proofs`,
  `BatchesAreTheirOperations` and `BatchesAreOnRecord`.

`Resolution_proofs`, for every set of packages an author can write
(`PackagesAssumption`: what the projection of `src/lint/project/fields.rs` makes of
files has ids, lists and values where it has them at all, and finitely many
variables and entries) and all contexts; `PackageTools_proofs` has the same of
the tools:

* `LintedPackagesCompile`: what lints without errors compiles, rules, queries and
  allocations alike, but for the fields `Overlooked` names; `LintedPackagesLoad` of
  what is loaded.
* `Invariance`: what is bound in a frame of the stack was read for the frame below
  and is what the cache knows (`FrameHolds`); the rules a resolution has been through
  were heard over that and did not hold, but perhaps the last (`RulesHeard`); each
  frame is read by the one below it, is marked, is not in the cache and is there
  once, and nobody else is marked (`Marked`). The cache only grows during a batch, so
  what was heard stays heard.
* `ShadowedRulesAreDead`: by `RulesHeard`, the rule with the same condition came to
  the same answer before. `LintFindsBrokenReferences`: a cycle met at run time is a
  set of variables in which each is read by another, which is what lint looks for.
* `UnitsAreInOneArm`, of `OneArmPerLayer`. Lint sorts the claims on a layer by where
  they start and compares each with the next one only (`BucketsApart`). Where those
  are apart all are (`ClaimedOnce`): the claims between two of them on the sorted list
  are found one least claim at a time (`LaterClaims`). The other half is about the
  evaluator: what it chose by an allocation was an arm whose range has the bucket of
  the unit, of an allocation that the layer lists (`ArmsHit`).
* `BatchesMeanEach`, of `BatchMeansEach`, from `MeansInvariance`: what is cached is what
  the variable means, and each resolution on the stack has come as far as the asking
  of its variable does when every other means what it means (`OnCourse`), with all
  that it reads before the variable it waits for bound. The property speaks of
  batches that are done only, and says nothing of how a resolution got where it is.
  Three facts about the meaning carry it. Asking ends: nobody asks more expressions than
  `MostAsks` (`AsksAreBounded`), and more steps change nothing (`EndStays`). Following
  one more reference changes nothing but what was a cycle (`FollowingGrows`, because
  a resolution over less says the same or nothing, `MeantGrows`), so that after as
  many references as there are variables nothing changes any more
  (`FollowingStands`, by counting those that have come to something), and `Meanings` is
  a fixpoint (`MeaningsAre`). And variables that wait for one another in a circle
  are cycles however far they are followed (`CirclesFail`), so whoever meets a marked
  variable gets what that variable means (`CycleIsMeant`), and the error is what
  everyone below on the stack means too (`FailurePasses`). The recursive functions have no
  library theorem that can be instantiated here; `Recursion` builds them from their
  finite parts, which a least number at which two of them differ shows to agree.
* `DiffsExplain`, of `ImpactsAreExplained`, for any versions (`VersionsAssumption`)
  and any panels, from `DiffInvariance`: what is listed is what `Changes` says of two versions that
  compile, and what was noted of a context is where two batches differ, each at a
  time between the beginning of the diff and now (`BetweenBatches`). The diff
  compares each part by itself, and what moves a value is the whole. A part of
  which no change is listed (`Quiet`) is the same in both versions, a variable, list,
  catalog or allocation alike (`RulesStay`, `FieldsStay`, `ListStays`,
  `CatalogStays`, `AllocationStays`), but for the order of its arms; and on a layer
  that lints that order is no matter, since one arm at most has a bucket (`HitClaims`). Where that is so of
  everything a variable depends on (`Untouched`), it asks the same expressions in the
  same order and ends the same (`AsksTheSame`), for two versions in which everything it
  reads does too; by induction on how far references are followed, and over as many
  as there are variables in either version, it means the same (`MeaningsSame`), and so does what the
  app receives of it, entries with their references resolved (`Unmoved`).
* `ExpansionsAreQuiet`, of `ExpansionMovesNoOne`, from the same invariant. Where arms
  only expand, an arm that had the unit's bucket still has it and no other does
  (`AllocationAsksSame`); an allocation that comes out differently either had no arm
  for the unit or asks, in an eligibility, something that moved (`ExpansionKeeps`).
* `ImpactsHaveCauses` and `ExpansionsMoveNoOne` are the two of the tools.

### What stays with TLC

* Liveness, enabledness and the real-time length of a backoff.
* The printed text (`TablesLandWhereAsked`, whose tables are sorted by the library's
  recursion before they are printed).
* `SiblingsCommute`, which compares the results of two whole walks over a graph: an
  induction over its depth.

## Not modelled

* Package, model, inspection; command line, packs, fixtures; the web client:
  data structures, parsing, printing and rendering.
* Staging of sources beyond its order and its probe: credentials, archive
  limits, URIs. They are I/O or plain parsing.
* Lint rules on schemas, samples, manifests and surfaces, Lua lints: each looks
  at one file, and a test says more than a small instance.
* The syntax and the operators of CEL, and JSON Schema.
