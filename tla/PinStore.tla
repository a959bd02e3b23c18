------------------------------- MODULE PinStore -------------------------------
(***************************************************************************)
(* The pin store of src/source/pin.rs: a directory of staged git trees, one *)
(* entry per commit, that several servers share and that every stage() call *)
(* cuts back to a size budget.  A tree is abstracted to how much of it is   *)
(* on disk, a size to a weight, and time to a clock that may stand still    *)
(* between any two steps.                                                   *)
(***************************************************************************)
EXTENDS Integers

CONSTANTS
    Servers,     \* processes that share the directory
    Calls,       \* stage() calls in flight
    Pins,        \* the keys (remote, commit)
    Weight,      \* of the tree of each pin
    MaxWeight,
    MaxBytes,    \* the budget
    Grace,       \* EVICTION_GRACE
    MaxClock     \* bound: the clock

ASSUME NamesAssumption == "nobody" \notin Calls \cup Servers \cup Pins
ASSUME BudgetAssumption ==
    /\ MaxWeight \in Nat /\ Weight \in [Pins -> 0..MaxWeight]
    /\ MaxBytes \in Nat
    /\ Grace \in Nat
ASSUME BoundsAssumption == MaxClock \in Nat \ {0}

VARIABLES
    entry,      \* disk: the directory of each pin
    builder,    \* history: the server that moved a whole tree in place
    handed,     \* history: the pins whose tree, still whole, stage() returned
    lock,       \* PinStore.building, of each server
    call,       \* what each stage() call is doing
    clock

disk == <<entry, builder, handed>>
vars == <<entry, builder, handed, lock, call, clock>>

Nobody == "nobody"
Times == 0..MaxClock
Never == 0      \* a missing file `used`, which counts as the epoch

\* An entry may lose its parts one by one.  A tree that is there in part is a
\* directory like any other.
Entries == [dir: BOOLEAN, tree: {"none", "partial", "whole"}, size: BOOLEAN,
            used: Times]
NoEntry == [dir |-> FALSE, tree |-> "none", size |-> FALSE, used |-> Never]
Whole(used) == [dir |-> TRUE, tree |-> "whole", size |-> TRUE, used |-> used]
IsEmpty(e) == e.tree = "none" /\ ~e.size /\ e.used = Never

Labels == {"idle", "lock", "check", "fetch", "rename", "recheck", "touch",
           "list", "evict", "remove"}
Parts == {"tree", "size", "used"}
Unlisted == [used |-> -1, size |-> 0]
Sizes == 0..MaxWeight
CallStates ==
    [pc: Labels, home: Servers \cup {Nobody}, pin: Pins \cup {Nobody}, built: Times,
     listed: [Pins -> [used: Times \cup {-1}, size: Sizes]],
     unread: SUBSET Pins, total: Nat, since: Times, now: Times,
     victim: Pins \cup {Nobody}, left: SUBSET Parts,
     open: BOOLEAN]
Idle == [pc |-> "idle", home |-> Nobody, pin |-> Nobody, built |-> Never,
         listed |-> [p \in Pins |-> Unlisted], unread |-> {}, total |-> 0,
         since |-> Never, now |-> Never, victim |-> Nobody, left |-> {},
         open |-> FALSE]

At(c, label) == call[c].pc = label
Become(c, s) == call' = [call EXCEPT ![c] = s]
Goto(c, label) == call' = [call EXCEPT ![c].pc = label]
Pin(c) == call[c].pin
Home(c) == call[c].home
Unlock(c) == lock' = [lock EXCEPT ![Home(c)][Pin(c)] = Nobody]

-----------------------------------------------------------------------------
(* stage: under the lock of the pin, find the tree or build it.             *)

Stage(c) ==
    /\ At(c, "idle")
    /\ \E s \in Servers, p \in Pins :
         Become(c, [Idle EXCEPT !.pc = "lock", !.home = s, !.pin = p])
    /\ UNCHANGED <<disk, lock, clock>>

\* Seeded defect: every call makes a lock of its own.
LockAlone(c) ==
    /\ At(c, "lock")
    /\ lock' = [lock EXCEPT ![Home(c)][Pin(c)] = c]
    /\ Goto(c, "check")
    /\ UNCHANGED <<disk, clock>>

Lock(c) ==
    /\ At(c, "lock")
    /\ lock[Home(c)][Pin(c)] = Nobody
    /\ lock' = [lock EXCEPT ![Home(c)][Pin(c)] = c]
    /\ Goto(c, "check")
    /\ UNCHANGED <<disk, clock>>

\* is_dir: a directory is enough.
CheckTree(c) ==
    /\ At(c, "check")
    /\ Goto(c, IF entry[Pin(c)].tree = "none" THEN "fetch" ELSE "touch")
    /\ UNCHANGED <<disk, lock, clock>>

\* Seeded defect: the tree is checked out at its final place.
FetchInPlace(c) ==
    /\ At(c, "fetch")
    /\ Become(c, [call[c] EXCEPT !.pc = "rename", !.built = clock])
    /\ entry' = [entry EXCEPT ![Pin(c)].dir = TRUE, ![Pin(c)].tree = "partial"]
    /\ UNCHANGED <<builder, handed, lock, clock>>

\* The tree is built in a scratch directory beside the entries, together with
\* the files `size` and `used`, and `remote`, which nobody reads: it is taken to
\* come and go with `size`.
Fetch(c) ==
    /\ At(c, "fetch")
    /\ Become(c, [call[c] EXCEPT !.pc = "rename", !.built = clock])
    /\ UNCHANGED <<disk, lock, clock>>

\* No git, no remote, no such commit, or a timeout.
FetchFails(c) ==
    /\ At(c, "fetch")
    /\ Unlock(c)
    /\ Become(c, Idle)
    /\ UNCHANGED <<disk, clock>>

\* An evictor that has opened a directory does not see the one that replaces it.
Detached(p) == [c \in Calls |-> IF At(c, "remove") /\ call[c].victim = p
                                THEN [call[c] EXCEPT !.open = FALSE] ELSE call[c]]

\* rename(2) takes the place of nothing, or of an empty directory.
Rename(c) ==
    /\ At(c, "rename")
    /\ LET p == Pin(c) IN
       \/ /\ IsEmpty(entry[p])
          /\ entry' = [entry EXCEPT ![p] = Whole(call[c].built)]
          /\ builder' = [builder EXCEPT ![p] = Home(c)]
          /\ handed' = handed \ {p}
          /\ call' = [Detached(p) EXCEPT ![c].pc = "touch"]
       \/ /\ ~IsEmpty(entry[p])
          /\ Goto(c, "recheck")
          /\ UNCHANGED disk
    /\ UNCHANGED <<lock, clock>>

\* Another server may have been first, and its tree is as good.
Recheck(c) ==
    /\ At(c, "recheck")
    /\ IF entry[Pin(c)].tree # "none"
       THEN Goto(c, "touch") /\ UNCHANGED lock
       ELSE Become(c, Idle) /\ Unlock(c)
    /\ UNCHANGED <<disk, clock>>

\* Seeded defect: the use is recorded beside an entry that is gone.
TouchBlindly(c) ==
    /\ At(c, "touch")
    /\ entry' = [entry EXCEPT ![Pin(c)].used = clock]
    /\ Unlock(c)
    /\ Become(c, [Idle EXCEPT !.pc = "list", !.home = Home(c), !.pin = Pin(c),
                              !.unread = Pins, !.since = clock])
    /\ UNCHANGED <<builder, handed, clock>>

\* The use is recorded if the entry is still there, and the guard dropped.
Touch(c) ==
    /\ At(c, "touch")
    /\ entry' = [entry EXCEPT ![Pin(c)].used =
                                   IF entry[Pin(c)].dir THEN clock ELSE @]
    /\ handed' = handed \cup {p \in {Pin(c)} : entry[p].tree = "whole"}
    /\ Unlock(c)
    /\ Become(c, [Idle EXCEPT !.pc = "list", !.home = Home(c), !.pin = Pin(c),
                              !.unread = Pins, !.since = clock])
    /\ UNCHANGED <<builder, clock>>

-----------------------------------------------------------------------------
(* evict_to_budget, outside of any lock.                                    *)

\* The file `size`, or what is left of the tree.
SizesOf(p) == CASE entry[p].size \/ entry[p].tree = "whole" -> {Weight[p]}
                [] ~entry[p].size /\ entry[p].tree = "partial" -> 0..Weight[p]
                [] OTHER -> {0}

\* read_dir yields the entries in any order, and each is read as it is then.
ListEntry(c) ==
    /\ At(c, "list")
    /\ \E p \in call[c].unread :
         IF ~entry[p].dir
         THEN Become(c, [call[c] EXCEPT !.unread = @ \ {p}])
         ELSE \E size \in SizesOf(p) :
                Become(c, [call[c] EXCEPT
                             !.unread = @ \ {p}, !.total = @ + size,
                             !.listed[p] = [used |-> entry[p].used, size |-> size]])
    /\ UNCHANGED <<disk, lock, clock>>

StartEvicting(c) ==
    /\ At(c, "list") /\ call[c].unread = {}
    /\ Become(c, [call[c] EXCEPT !.pc = "evict", !.now = clock])
    /\ UNCHANGED <<disk, lock, clock>>

Candidates(c) == {p \in Pins : call[c].listed[p].used # -1}
\* The next of the entries sorted by use.
IsNext(c, p) ==
    /\ call[c].total > MaxBytes /\ p \in Candidates(c)
    /\ \A q \in Candidates(c) : call[c].listed[p].used <= call[c].listed[q].used

\* Seeded defect: only the entry just staged is spared.
SparedOnlyIfKept(c, p) == p = Pin(c)

\* The entry just staged, and one that was used within the grace window.
Spared(c, p) == p = Pin(c) \/ call[c].now - call[c].listed[p].used < Grace

\* remove_dir_all opens the entry that is there by now, or fails without one.
EvictNext(c) ==
    /\ At(c, "evict")
    /\ \E p \in Pins :
         /\ IsNext(c, p)
         /\ IF Spared(c, p) \/ ~entry[p].dir
            THEN Become(c, [call[c] EXCEPT !.listed[p] = Unlisted])
            ELSE Become(c, [call[c] EXCEPT !.pc = "remove", !.victim = p,
                                         !.left = Parts, !.open = TRUE])
    /\ UNCHANGED <<disk, lock, clock>>

StopEvicting(c) ==
    /\ At(c, "evict")
    /\ call[c].total <= MaxBytes \/ Candidates(c) = {}
    /\ Become(c, Idle)
    /\ UNCHANGED <<disk, lock, clock>>

\* What an entry is when one more file of a part, or the last one, is gone.
Without(e, part) ==
    CASE part = "tree" -> [e EXCEPT !.tree = IF e.tree = "whole" THEN "partial"
                                             ELSE "none"]
      [] part = "size" -> [e EXCEPT !.size = FALSE]
      [] part = "used" -> [e EXCEPT !.used = Never]

\* The parts go in the order the system lists them, and each one once: a file
\* that comes back stays.
RemovePart(c) ==
    /\ At(c, "remove") /\ call[c].open
    /\ LET p == call[c].victim IN
       \E part \in call[c].left :
         LET e == Without(entry[p], part) IN
         /\ entry' = [entry EXCEPT ![p] = e]
         /\ builder' = [builder EXCEPT ![p] =
                          IF e.tree = "whole" THEN @ ELSE Nobody]
         /\ handed' = IF e.tree = "whole" THEN handed ELSE handed \ {p}
         /\ Become(c, IF part = "tree" /\ e.tree = "partial" THEN call[c]
                      ELSE [call[c] EXCEPT !.left = @ \ {part}])
    /\ UNCHANGED <<lock, clock>>

\* The total is cut back by what has been freed, saturating.
Evicted(s, freed) == [s EXCEPT !.pc = "evict", !.open = FALSE, !.left = {},
                               !.total = IF @ < freed THEN 0 ELSE @ - freed,
                               !.listed[s.victim] = Unlisted, !.victim = Nobody]

RemoveDir(c) ==
    /\ At(c, "remove") /\ call[c].open /\ call[c].left = {}
    /\ LET p == call[c].victim IN
       /\ IsEmpty(entry[p])
       /\ entry' = [entry EXCEPT ![p] = NoEntry]
       /\ call' = [Detached(p) EXCEPT
                     ![c] = Evicted(call[c], call[c].listed[p].size)]
    /\ UNCHANGED <<builder, handed, lock, clock>>

\* Another evictor was there first, a file came back, or the disk refuses: what
\* has been removed is gone.
RemoveFails(c) ==
    /\ At(c, "remove")
    /\ Become(c, Evicted(call[c], 0))
    /\ UNCHANGED <<disk, lock, clock>>

-----------------------------------------------------------------------------
Tick ==
    /\ clock < MaxClock
    /\ clock' = clock + 1
    /\ UNCHANGED <<disk, lock, call>>

Crash(s) ==
    /\ lock' = [lock EXCEPT ![s] = [p \in Pins |-> Nobody]]
    /\ call' = [c \in Calls |-> IF Home(c) = s THEN Idle ELSE call[c]]
    /\ UNCHANGED <<disk, clock>>

\* The directory has been used before, at time 1, or not at all.
Init ==
    /\ clock = 1
    /\ \E present \in SUBSET Pins :
         /\ entry = [p \in Pins |-> IF p \in present THEN Whole(clock) ELSE NoEntry]
         /\ handed = present
    /\ builder = [p \in Pins |-> Nobody]
    /\ lock = [s \in Servers |-> [p \in Pins |-> Nobody]]
    /\ call = [c \in Calls |-> Idle]

CallStep(c) ==
    \/ Lock(c) \/ CheckTree(c) \/ Fetch(c) \/ FetchFails(c)
    \/ Rename(c) \/ Recheck(c) \/ Touch(c)
    \/ ListEntry(c) \/ StartEvicting(c) \/ EvictNext(c) \/ StopEvicting(c)
    \/ RemovePart(c) \/ RemoveDir(c) \/ RemoveFails(c)

Next ==
    \/ \E c \in Calls : Stage(c) \/ CallStep(c)
    \/ \E s \in Servers : Crash(s)
    \/ Tick

Spec == Init /\ [][Next]_vars

-----------------------------------------------------------------------------
\* The variables keep their types, and a record of use lies in an entry that is
\* there.
TypeOK ==
    /\ entry \in [Pins -> Entries]
    /\ \A p \in Pins : entry[p].dir \/ IsEmpty(entry[p])
    /\ builder \in [Pins -> Servers \cup {Nobody}]
    /\ handed \subseteq Pins
    /\ lock \in [Servers -> [Pins -> Calls \cup {Nobody}]]
    /\ call \in [Calls -> CallStates]
    /\ clock \in Times

Building(c) == At(c, "fetch") \/ At(c, "rename")

\* "One shallow fetch per pin even under concurrent requests in this process":
\* two calls never build one pin, and none builds a tree that its own server
\* has put in place and that is still whole.
OneFetchPerPin ==
    \A c \in Calls : Building(c) =>
        /\ entry[Pin(c)].tree = "whole" => builder[Pin(c)] # Home(c)
        /\ \A d \in Calls \ {c} :
              Home(d) = Home(c) /\ Pin(d) = Pin(c) => ~Building(d)

\* A tree appears whole, whichever servers build it at once and wherever one of
\* them dies; only a removal under way takes parts from it, and nothing puts
\* parts back.
TreesAppearWhole ==
    [][\A p \in Pins :
         \/ entry'[p].tree = entry[p].tree
         \/ entry[p].tree = "none" /\ entry'[p].tree = "whole"
         \/ /\ <<entry[p].tree, entry'[p].tree>> \in
                  {<<"whole", "partial">>, <<"partial", "none">>}
            /\ \E c \in Calls : At(c, "remove") /\ call[c].victim = p]_vars

Breaks(p) == entry[p].tree = "whole" /\ entry'[p].tree = "partial"

\* What the grace window is good for: a tree that a stage() has returned, and
\* that is broken up, was last used a full window ago, or after the eviction
\* that takes it had begun.
GraceHoldsUntilListed ==
    [][\A p \in handed :
         Breaks(p) =>
             \/ clock - entry[p].used >= Grace
             \/ \E c \in Calls : /\ At(c, "remove") /\ call[c].victim = p
                                 /\ entry[p].used >= call[c].since]_vars

\* The comment on EVICTION_GRACE: "a caller that just staged a pin can read the
\* returned tree without racing the size budget".
JustStagedIsSafe ==
    [][\A p \in handed : Breaks(p) => clock - entry[p].used >= Grace]_vars
=============================================================================
