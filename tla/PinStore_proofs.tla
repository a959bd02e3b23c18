----------------------------- MODULE PinStore_proofs -----------------------------
(***************************************************************************)
(* Proofs about PinStore, for every set of servers, calls and pins, every   *)
(* budget, grace window and weight of the trees, and every bound.           *)
(***************************************************************************)
EXTENDS PinStore, TLAPS

\* The steps of stage() that run with the lock of the pin held.
Holding == {"check", "fetch", "rename", "recheck", "touch"}

\* A call knows what it works on.
Bound(c) ==
    /\ call[c].pc # "idle" => Home(c) \in Servers /\ Pin(c) \in Pins
    /\ At(c, "remove") => call[c].victim \in Pins

\* One holder of each lock of each server.
Locked(c) == call[c].pc \in Holding => lock[Home(c)][Pin(c)] = c

\* Who is about to build has found nothing of its own server's that is whole.
Fresh(c) == Building(c) /\ entry[Pin(c)].tree = "whole" => builder[Pin(c)] # Home(c)

IInv ==
    /\ TypeOK
    /\ \A c \in Calls : Bound(c) /\ Locked(c) /\ Fresh(c)

Evicting == {"list", "evict", "remove"}

\* A tree that was returned is whole until it is broken up.
HandedWhole == \A p \in handed : entry[p].tree = "whole"

\* The last use that an evictor has listed, of a tree that was returned, is the
\* one on record, unless that is gone or younger than the eviction.
Marked(c) ==
    call[c].pc \in Evicting =>
        /\ call[c].since <= clock
        /\ \A p \in handed :
              call[c].listed[p].used # -1 =>
                  \/ entry[p].used \in {Never, call[c].listed[p].used}
                  \/ call[c].since <= entry[p].used

\* It removes what has not been used for a window, by what it has listed.
Judged(c) ==
    /\ call[c].pc \in {"evict", "remove"} => call[c].now <= clock
    /\ At(c, "remove") =>
          /\ call[c].listed[call[c].victim].used # -1
          /\ Grace <= call[c].now - call[c].listed[call[c].victim].used

GraceInv == HandedWhole /\ \A c \in Calls : Marked(c) /\ Judged(c)
-----------------------------------------------------------------------------
(***************************************************************************)
(* Updates of a call and of an entry keep their types.                      *)
(***************************************************************************)
LEMMA IdleType == Idle \in CallStates
BY BudgetAssumption, BoundsAssumption
DEF Idle, CallStates, Unlisted, Labels, Sizes, Times, Never

\* One field at a time: an update of several is a chain of these.
LEMMA CallUpdates ==
    ASSUME NEW s \in CallStates
    PROVE  /\ \A l \in Labels : [s EXCEPT !.pc = l] \in CallStates
           /\ \A h \in Servers : [s EXCEPT !.home = h] \in CallStates
           /\ \A p \in Pins : [s EXCEPT !.pin = p] \in CallStates
           /\ \A t \in Times : [s EXCEPT !.built = t] \in CallStates
           /\ \A t \in Times : [s EXCEPT !.since = t] \in CallStates
           /\ \A t \in Times : [s EXCEPT !.now = t] \in CallStates
           /\ \A n \in Nat : [s EXCEPT !.total = n] \in CallStates
           /\ \A u \in SUBSET Pins : [s EXCEPT !.unread = u] \in CallStates
           /\ \A p \in Pins \cup {Nobody} : [s EXCEPT !.victim = p] \in CallStates
           /\ \A l \in SUBSET Parts : [s EXCEPT !.left = l] \in CallStates
           /\ \A b \in BOOLEAN : [s EXCEPT !.open = b] \in CallStates
BY DEF CallStates

\* A call that lists a pin is still a call.
LEMMA ListingUpdates ==
    ASSUME NEW s \in CallStates, NEW p \in Pins,
           NEW used \in Times \cup {-1}, NEW size \in Sizes
    PROVE  [s EXCEPT !.listed[p] = [used |-> used, size |-> size]] \in CallStates
BY DEF CallStates

\* A directory that is placed, touched or loses a part is still a directory.
LEMMA EntryUpdates ==
    /\ NoEntry \in Entries
    /\ \A t \in Times : Whole(t) \in Entries
    /\ \A e \in Entries, t \in Times : [e EXCEPT !.used = t] \in Entries
    /\ \A e \in Entries, part \in Parts : Without(e, part) \in Entries
<1>1. NoEntry \in Entries /\ \A t \in Times : Whole(t) \in Entries
  BY BoundsAssumption DEF NoEntry, Whole, Entries, Times, Never
<1>2. \A e \in Entries, t \in Times : [e EXCEPT !.used = t] \in Entries
  BY DEF Entries
<1>3. ASSUME NEW e \in Entries, NEW part \in Parts PROVE Without(e, part) \in Entries
  <2>1. CASE part = "tree"
    BY <2>1 DEF Without, Entries
  <2>2. CASE part = "size"
    BY <2>2 DEF Without, Entries
  <2>3. CASE part = "used"
    <3>1. Never \in Times
      BY BoundsAssumption DEF Never, Times
    <3> QED BY <2>3, <3>1, <1>2 DEF Without
  <2> QED BY <2>1, <2>2, <2>3 DEF Parts
<1> QED BY <1>1, <1>2, <1>3

\* What is gone of a directory leaves a directory.
LEMMA WithoutKeepsDir ==
    ASSUME NEW e \in Entries, NEW part \in Parts
    PROVE  Without(e, part).dir = e.dir
BY DEF Without, Entries, Parts

\* The sizes a directory may be read to have are sizes.
LEMMA SizesFit ==
    ASSUME TypeOK, NEW p \in Pins
    PROVE  SizesOf(p) \subseteq Sizes
BY BudgetAssumption DEF TypeOK, Entries, SizesOf, Sizes

\* A call that has evicted its victim is still a call.
LEMMA EvictedType ==
    ASSUME NEW s \in CallStates, s.victim \in Pins, NEW freed \in Nat
    PROVE  Evicted(s, freed) \in CallStates
<1> DEFINE n == IF s.total < freed THEN 0 ELSE s.total - freed
           s1 == [s EXCEPT !.pc = "evict"]
           s2 == [s1 EXCEPT !.open = FALSE]
           s3 == [s2 EXCEPT !.left = {}]
           s4 == [s3 EXCEPT !.total = n]
           s5 == [s4 EXCEPT !.listed[s.victim] = Unlisted]
<1>1. s.total \in Nat
  BY DEF CallStates
<1>2. n \in Nat
  BY <1>1
<1>3. s1 \in CallStates
  BY CallUpdates DEF Labels
<1>4. s2 \in CallStates
  BY <1>3, CallUpdates
<1>5. s3 \in CallStates
  BY <1>4, CallUpdates
<1>6. s4 \in CallStates
  BY <1>2, <1>5, CallUpdates
<1>7. s5 \in CallStates
  <2>1. 0 \in Sizes
    BY BudgetAssumption DEF Sizes
  <2>2. [s4 EXCEPT !.listed[s.victim] = [used |-> -1, size |-> 0]] \in CallStates
    BY <1>6, <2>1, ListingUpdates
  <2> QED BY <2>2 DEF Unlisted
<1>8. [s5 EXCEPT !.victim = Nobody] \in CallStates
  BY <1>7, CallUpdates
<1>9. Evicted(s, freed) = [s5 EXCEPT !.victim = Nobody]
  BY DEF Evicted, CallStates
<1> QED BY <1>8, <1>9
-----------------------------------------------------------------------------
(***************************************************************************)
(* Type correctness.                                                        *)
(***************************************************************************)
\* What an action that moves one call on has to show of the call.
LEMMA BecomeType ==
    ASSUME TypeOK, NEW c \in Calls, NEW s \in CallStates, Become(c, s)
    PROVE  call' \in [Calls -> CallStates]
BY DEF TypeOK, Become

\* So is one that goes to another place in its code.
LEMMA GotoType ==
    ASSUME TypeOK, NEW c \in Calls, NEW l \in Labels, Goto(c, l)
    PROVE  call' \in [Calls -> CallStates]
<1>1. [call[c] EXCEPT !.pc = l] \in CallStates
  BY CallUpdates DEF TypeOK
<1>2. call' = [call EXCEPT ![c] = [call[c] EXCEPT !.pc = l]]
  BY DEF Goto, TypeOK
<1> QED BY <1>1, <1>2 DEF TypeOK

\* A lock that is given back is held by a call or by nobody.
LEMMA UnlockType ==
    ASSUME TypeOK, NEW c \in Calls, Unlock(c)
    PROVE  lock' \in [Servers -> [Pins -> Calls \cup {Nobody}]]
BY DEF TypeOK, Unlock

\* A disk that an update of one entry leaves well typed.
DiskOK ==
    /\ entry \in [Pins -> Entries]
    /\ \A p \in Pins : entry[p].dir \/ IsEmpty(entry[p])
    /\ builder \in [Pins -> Servers \cup {Nobody}]
    /\ handed \subseteq Pins

\* A change of one directory leaves the disk in order.
LEMMA DiskUpdate ==
    ASSUME DiskOK, NEW p \in Pins, NEW e \in Entries, e.dir \/ IsEmpty(e),
           NEW b \in Servers \cup {Nobody},
           entry' = [entry EXCEPT ![p] = e], builder' = [builder EXCEPT ![p] = b],
           handed' \subseteq Pins
    PROVE  DiskOK'
BY DEF DiskOK, IsEmpty

\* Where a directory is replaced calls stay calls, and only those that remove it
\* change.
LEMMA DetachedType ==
    ASSUME TypeOK, NEW p
    PROVE  /\ Detached(p) \in [Calls -> CallStates]
           /\ \A c \in Calls : At(c, "remove") \/ Detached(p)[c] = call[c]
<1>1. \A c \in Calls : [call[c] EXCEPT !.open = FALSE] \in CallStates
  BY CallUpdates DEF TypeOK
<1> QED BY <1>1 DEF TypeOK, Detached

\* A call that an eviction elsewhere detaches is where it was.
LEMMA DetachedSame ==
    ASSUME TypeOK, NEW p, NEW c \in Calls
    PROVE  /\ Detached(p)[c].pc = call[c].pc
           /\ Detached(p)[c].home = call[c].home
           /\ Detached(p)[c].pin = call[c].pin
           /\ Detached(p)[c].victim = call[c].victim
           /\ Detached(p)[c].listed = call[c].listed
           /\ Detached(p)[c].since = call[c].since
           /\ Detached(p)[c].now = call[c].now
BY DEF TypeOK, Detached, CallStates

\* The steps of a call, one by one, leave every variable in its type: stage(),
LEMMA StageType ==
    ASSUME TypeOK, NEW c \in Calls, Stage(c)
    PROVE  TypeOK'
<1>1. PICK s \in Servers, p \in Pins :
         Become(c, [Idle EXCEPT !.pc = "lock", !.home = s, !.pin = p])
  BY DEF Stage
<1> DEFINE s1 == [Idle EXCEPT !.pc = "lock"]
           s2 == [s1 EXCEPT !.home = s]
           s3 == [s2 EXCEPT !.pin = p]
<1>2. s1 \in CallStates
  BY IdleType, CallUpdates DEF Labels
<1>3. s2 \in CallStates
  BY <1>2, CallUpdates
<1>4. s3 \in CallStates
  BY <1>3, CallUpdates
<1>5. s3 = [Idle EXCEPT !.pc = "lock", !.home = s, !.pin = p]
  BY DEF Idle
<1>6. call' \in [Calls -> CallStates]
  BY <1>1, <1>4, <1>5, BecomeType
<1> QED BY <1>6 DEF TypeOK, Stage, disk

\* the touch of a pin that is there,
LEMMA TouchType ==
    ASSUME TypeOK, NEW c \in Calls, Bound(c), Touch(c)
    PROVE  TypeOK'
<1>1. Home(c) \in Servers /\ Pin(c) \in Pins
  BY DEF Bound, Touch, At
<1> DEFINE s1 == [Idle EXCEPT !.pc = "list"]
           s2 == [s1 EXCEPT !.home = Home(c)]
           s3 == [s2 EXCEPT !.pin = Pin(c)]
           s4 == [s3 EXCEPT !.unread = Pins]
           s5 == [s4 EXCEPT !.since = clock]
<1>2. s1 \in CallStates
  BY IdleType, CallUpdates DEF Labels
<1>3. s2 \in CallStates
  BY <1>1, <1>2, CallUpdates
<1>4. s3 \in CallStates
  BY <1>1, <1>3, CallUpdates
<1>5. s4 \in CallStates
  BY <1>4, CallUpdates
<1>6. s5 \in CallStates
  BY <1>5, CallUpdates DEF TypeOK
<1>7. s5 = [Idle EXCEPT !.pc = "list", !.home = Home(c), !.pin = Pin(c),
                        !.unread = Pins, !.since = clock]
  BY DEF Idle
<1>8. call' \in [Calls -> CallStates]
  BY <1>6, <1>7, BecomeType DEF Touch
<1>9. lock' \in [Servers -> [Pins -> Calls \cup {Nobody}]]
  BY UnlockType DEF Touch
<1>10. DiskOK'
  <2> DEFINE e == [entry[Pin(c)] EXCEPT !.used = IF entry[Pin(c)].dir THEN clock ELSE @]
  <2>1. entry[Pin(c)] \in Entries
    BY <1>1 DEF TypeOK
  <2>2. e \in Entries
    BY <2>1, EntryUpdates DEF TypeOK, Entries
  <2>3. e.dir \/ IsEmpty(e)
    BY <1>1, <2>1 DEF TypeOK, IsEmpty, Entries
  <2>4. entry' = [entry EXCEPT ![Pin(c)] = e]
    BY DEF Touch, TypeOK
  <2> HIDE DEF e
  <2> QED BY <1>1, <2>2, <2>3, <2>4 DEF DiskOK, TypeOK, IsEmpty, Touch
<1> QED BY <1>8, <1>9, <1>10 DEF TypeOK, DiskOK, Touch

\* the rename of a staged tree into place,
LEMMA RenameType ==
    ASSUME TypeOK, NEW c \in Calls, Bound(c), Rename(c)
    PROVE  TypeOK'
<1> DEFINE p == Pin(c)
<1>1. Home(c) \in Servers /\ p \in Pins
  BY DEF Bound, Rename, At
<1>2. CASE ~IsEmpty(entry[p])
  <2>1. call' \in [Calls -> CallStates]
    BY <1>2, GotoType DEF Rename, Labels
  <2> QED BY <1>2, <2>1 DEF TypeOK, Rename, disk
<1>3. CASE IsEmpty(entry[p])
  <2>1. /\ entry' = [entry EXCEPT ![p] = Whole(call[c].built)]
        /\ builder' = [builder EXCEPT ![p] = Home(c)]
        /\ call' = [Detached(p) EXCEPT ![c].pc = "touch"]
    BY <1>3 DEF Rename
  <2>2. call[c].built \in Times
    BY DEF TypeOK, CallStates
  <2>3. Whole(call[c].built) \in Entries /\ Whole(call[c].built).dir
    BY <2>2, EntryUpdates DEF Whole
  <2>4. DiskOK'
    <3>1. DiskOK
      BY DEF TypeOK, DiskOK
    <3>2. handed' \subseteq Pins
      BY <1>3 DEF TypeOK, Rename
    <3> QED BY <1>1, <2>1, <2>3, <3>1, <3>2, DiskUpdate
  <2>5. Detached(p) \in [Calls -> CallStates]
    BY DetachedType
  <2>6. [Detached(p)[c] EXCEPT !.pc = "touch"] \in CallStates
    BY <2>5, CallUpdates DEF Labels
  <2>7. call' = [Detached(p) EXCEPT ![c] = [Detached(p)[c] EXCEPT !.pc = "touch"]]
    BY <2>1
  <2>8. call' \in [Calls -> CallStates]
    BY <2>5, <2>6, <2>7
  <2> QED BY <2>4, <2>8 DEF TypeOK, DiskOK, Rename
<1> QED BY <1>2, <1>3

\* the reading of one entry of the directory,
LEMMA ListType ==
    ASSUME TypeOK, NEW c \in Calls, ListEntry(c)
    PROVE  TypeOK'
<1>1. PICK p \in call[c].unread :
        IF ~entry[p].dir
        THEN Become(c, [call[c] EXCEPT !.unread = @ \ {p}])
        ELSE \E size \in SizesOf(p) :
               Become(c, [call[c] EXCEPT
                            !.unread = @ \ {p}, !.total = @ + size,
                            !.listed[p] = [used |-> entry[p].used, size |-> size]])
  BY DEF ListEntry
<1>2. /\ call[c] \in CallStates /\ p \in Pins
      /\ call[c].unread \ {p} \in SUBSET Pins
      /\ call[c].total \in Nat
  BY DEF TypeOK, CallStates
<1> DEFINE s1 == [call[c] EXCEPT !.unread = @ \ {p}]
<1>3. s1 \in CallStates
  BY <1>2, CallUpdates
<1>4. CASE ~entry[p].dir
  <2>1. call' \in [Calls -> CallStates]
    BY <1>1, <1>3, <1>4, BecomeType
  <2> QED BY <2>1 DEF TypeOK, ListEntry, disk
<1>5. CASE entry[p].dir
  <2>1. PICK size \in SizesOf(p) :
          Become(c, [call[c] EXCEPT
                       !.unread = @ \ {p}, !.total = @ + size,
                       !.listed[p] = [used |-> entry[p].used, size |-> size]])
    BY <1>1, <1>5
  <2> DEFINE s2 == [s1 EXCEPT !.total = call[c].total + size]
             s3 == [s2 EXCEPT !.listed[p] = [used |-> entry[p].used, size |-> size]]
  <2>2. size \in Sizes /\ size \in Nat
    BY <1>2, SizesFit, BudgetAssumption DEF Sizes
  <2>3. s2 \in CallStates
    <3>1. call[c].total + size \in Nat
      BY <1>2, <2>2
    <3> HIDE DEF s1
    <3> QED BY <1>3, <3>1, CallUpdates
  <2>4. entry[p].used \in Times \cup {-1}
    BY <1>2 DEF TypeOK, Entries
  <2>5. s3 \in CallStates
    BY <1>2, <2>2, <2>3, <2>4, ListingUpdates
  <2>6. s3 = [call[c] EXCEPT
                !.unread = @ \ {p}, !.total = @ + size,
                !.listed[p] = [used |-> entry[p].used, size |-> size]]
    BY <1>2 DEF CallStates
  <2>7. call' \in [Calls -> CallStates]
    BY <2>1, <2>5, <2>6, BecomeType
  <2> QED BY <2>7 DEF TypeOK, ListEntry, disk
<1> QED BY <1>4, <1>5

\* the choice of the next victim,
LEMMA EvictNextType ==
    ASSUME TypeOK, NEW c \in Calls, EvictNext(c)
    PROVE  TypeOK'
<1>1. PICK p \in Pins :
        IF Spared(c, p) \/ ~entry[p].dir
        THEN Become(c, [call[c] EXCEPT !.listed[p] = Unlisted])
        ELSE Become(c, [call[c] EXCEPT !.pc = "remove", !.victim = p,
                                       !.left = Parts, !.open = TRUE])
  BY DEF EvictNext
<1>2. call[c] \in CallStates
  BY DEF TypeOK
<1>3. [call[c] EXCEPT !.listed[p] = Unlisted] \in CallStates
  <2>1. 0 \in Sizes
    BY BudgetAssumption DEF Sizes
  <2>2. [call[c] EXCEPT !.listed[p] = [used |-> -1, size |-> 0]] \in CallStates
    BY <1>2, <2>1, ListingUpdates
  <2> QED BY <2>2 DEF Unlisted
<1> DEFINE s1 == [call[c] EXCEPT !.pc = "remove"]
           s2 == [s1 EXCEPT !.victim = p]
           s3 == [s2 EXCEPT !.left = Parts]
           s4 == [s3 EXCEPT !.open = TRUE]
<1>4. s4 \in CallStates
  <2>1. s1 \in CallStates
    BY <1>2, CallUpdates DEF Labels
  <2>2. s2 \in CallStates
    BY <2>1, CallUpdates
  <2>3. s3 \in CallStates
    BY <2>2, CallUpdates
  <2> QED BY <2>3, CallUpdates
<1>5. s4 = [call[c] EXCEPT !.pc = "remove", !.victim = p,
                           !.left = Parts, !.open = TRUE]
  BY <1>2 DEF CallStates
<1>6. call' \in [Calls -> CallStates]
  <2>1. CASE Spared(c, p) \/ ~entry[p].dir
    BY <1>1, <1>3, <2>1, BecomeType
  <2>2. CASE ~(Spared(c, p) \/ ~entry[p].dir)
    BY <1>1, <1>4, <1>5, <2>2, BecomeType
  <2> QED BY <2>1, <2>2
<1> QED BY <1>6 DEF TypeOK, EvictNext, disk

\* the removal of a part of a tree,
LEMMA RemovePartType ==
    ASSUME TypeOK, NEW c \in Calls, Bound(c), RemovePart(c)
    PROVE  TypeOK'
<1> DEFINE p == call[c].victim
<1>1. p \in Pins /\ call[c] \in CallStates
  BY DEF TypeOK, Bound, RemovePart
<1>2. PICK part \in call[c].left :
        LET e == Without(entry[p], part) IN
        /\ entry' = [entry EXCEPT ![p] = e]
        /\ builder' = [builder EXCEPT ![p] = IF e.tree = "whole" THEN @ ELSE Nobody]
        /\ Become(c, IF part = "tree" /\ e.tree = "partial" THEN call[c]
                     ELSE [call[c] EXCEPT !.left = @ \ {part}])
  BY DEF RemovePart
<1> DEFINE e == Without(entry[p], part)
<1>3. part \in Parts /\ call[c].left \ {part} \in SUBSET Parts
  BY <1>1 DEF CallStates
<1>4. call' \in [Calls -> CallStates]
  <2>1. [call[c] EXCEPT !.left = @ \ {part}] \in CallStates
    BY <1>1, <1>3, CallUpdates
  <2>2. CASE part = "tree" /\ e.tree = "partial"
    BY <1>1, <1>2, <2>2, BecomeType
  <2>3. CASE ~(part = "tree" /\ e.tree = "partial")
    BY <1>2, <2>1, <2>3, BecomeType
  <2> QED BY <2>2, <2>3
<1>5. DiskOK'
  <2>1. entry[p] \in Entries /\ (entry[p].dir \/ IsEmpty(entry[p]))
    BY <1>1 DEF TypeOK
  <2>2. e \in Entries
    BY <1>3, <2>1, EntryUpdates
  <2>3. e.dir \/ IsEmpty(e)
    <3>1. CASE entry[p].dir
      BY <1>3, <2>1, <3>1, WithoutKeepsDir
    <3>2. CASE IsEmpty(entry[p])
      BY <1>3, <2>1, <3>2 DEF IsEmpty, Without, Parts, Entries
    <3> QED BY <2>1, <3>1, <3>2
  <2> DEFINE b == IF e.tree = "whole" THEN builder[p] ELSE Nobody
  <2>4. b \in Servers \cup {Nobody}
    BY <1>1 DEF TypeOK
  <2>5. entry' = [entry EXCEPT ![p] = e] /\ builder' = [builder EXCEPT ![p] = b]
    BY <1>2
  <2>6. DiskOK
    BY DEF TypeOK, DiskOK
  <2>7. handed' \subseteq Pins
    BY DEF TypeOK, RemovePart
  <2> HIDE DEF e, b
  <2> QED BY <1>1, <2>2, <2>3, <2>4, <2>5, <2>6, <2>7, DiskUpdate
<1> QED BY <1>4, <1>5 DEF TypeOK, DiskOK, RemovePart

\* and of the directory it was in.
LEMMA RemoveDirType ==
    ASSUME TypeOK, NEW c \in Calls, Bound(c), RemoveDir(c)
    PROVE  TypeOK'
<1> DEFINE p == call[c].victim
           freed == call[c].listed[p].size
<1>1. p \in Pins /\ call[c] \in CallStates
  BY DEF TypeOK, Bound, RemoveDir
<1>2. /\ entry' = [entry EXCEPT ![p] = NoEntry]
      /\ call' = [Detached(p) EXCEPT ![c] = Evicted(call[c], freed)]
  BY DEF RemoveDir
<1>3. freed \in Nat
  BY <1>1, BudgetAssumption DEF CallStates, Sizes
<1>4. Evicted(call[c], freed) \in CallStates
  BY <1>1, <1>3, EvictedType
<1>5. call' \in [Calls -> CallStates]
  BY <1>2, <1>4, DetachedType
<1>6. DiskOK'
  BY <1>1, <1>2, EntryUpdates DEF TypeOK, DiskOK, RemoveDir, IsEmpty, NoEntry
<1> QED BY <1>5, <1>6 DEF TypeOK, DiskOK, RemoveDir

\* At the start every variable is in its type,
LEMMA InitType == Init => TypeOK
<1> SUFFICES ASSUME Init PROVE TypeOK
  OBVIOUS
<1>1. clock \in Times
  BY BoundsAssumption DEF Init, Times
<1>2. entry \in [Pins -> Entries] /\ \A p \in Pins : entry[p].dir \/ IsEmpty(entry[p])
  <2>1. PICK present \in SUBSET Pins :
          entry = [p \in Pins |-> IF p \in present THEN Whole(clock) ELSE NoEntry]
    BY DEF Init
  <2>2. \A p \in Pins : entry[p] = Whole(clock) \/ entry[p] = NoEntry
    BY <2>1
  <2>3. Whole(clock) \in Entries /\ NoEntry \in Entries
    BY <1>1, EntryUpdates
  <2>4. Whole(clock).dir /\ IsEmpty(NoEntry)
    BY DEF Whole, IsEmpty, NoEntry
  <2>5. \A p \in Pins : entry[p].dir \/ IsEmpty(entry[p])
    BY <2>2, <2>4
  <2> QED BY <2>1, <2>3, <2>5
<1> QED BY <1>1, <1>2, IdleType DEF Init, TypeOK

\* and every step leaves it there, where calls are bound to their pins.
LEMMA TypeStep ==
    ASSUME TypeOK, \A c \in Calls : Bound(c), [Next]_vars
    PROVE  TypeOK'
<1>1. ASSUME NEW c \in Calls, Stage(c) PROVE TypeOK'
  BY <1>1, StageType
<1>2. ASSUME NEW c \in Calls, Lock(c) PROVE TypeOK'
  <2>1. call' \in [Calls -> CallStates]
    BY <1>2, GotoType DEF Lock, Labels
  <2> QED BY <1>2, <2>1 DEF TypeOK, Lock, disk
<1>3. ASSUME NEW c \in Calls, CheckTree(c) PROVE TypeOK'
  <2>1. call' \in [Calls -> CallStates]
    BY <1>3, GotoType DEF CheckTree, Labels
  <2> QED BY <1>3, <2>1 DEF TypeOK, CheckTree, disk
<1>4. ASSUME NEW c \in Calls, Fetch(c) PROVE TypeOK'
  <2> DEFINE s1 == [call[c] EXCEPT !.pc = "rename"]
             s2 == [s1 EXCEPT !.built = clock]
  <2>1. s1 \in CallStates
    BY CallUpdates DEF TypeOK, Labels
  <2>2. s2 \in CallStates
    BY <2>1, CallUpdates DEF TypeOK
  <2>3. call' \in [Calls -> CallStates]
    BY <1>4, <2>2, BecomeType DEF Fetch
  <2> QED BY <1>4, <2>3 DEF TypeOK, Fetch, disk
<1>5. ASSUME NEW c \in Calls, FetchFails(c) PROVE TypeOK'
  <2>1. call' \in [Calls -> CallStates]
    BY <1>5, IdleType, BecomeType DEF FetchFails
  <2>2. lock' \in [Servers -> [Pins -> Calls \cup {Nobody}]]
    BY <1>5, UnlockType DEF FetchFails
  <2> QED BY <1>5, <2>1, <2>2 DEF TypeOK, FetchFails, disk
<1>6. ASSUME NEW c \in Calls, Rename(c) PROVE TypeOK'
  BY <1>6, RenameType
<1>7. ASSUME NEW c \in Calls, Recheck(c) PROVE TypeOK'
  <2>1. call' \in [Calls -> CallStates]
    BY <1>7, IdleType, BecomeType, GotoType DEF Recheck, Labels
  <2>2. lock' \in [Servers -> [Pins -> Calls \cup {Nobody}]]
    BY <1>7, UnlockType DEF Recheck, TypeOK
  <2> QED BY <1>7, <2>1, <2>2 DEF TypeOK, Recheck, disk
<1>8. ASSUME NEW c \in Calls, Touch(c) PROVE TypeOK'
  BY <1>8, TouchType
<1>9. ASSUME NEW c \in Calls, ListEntry(c) PROVE TypeOK'
  BY <1>9, ListType
<1>10. ASSUME NEW c \in Calls, StartEvicting(c) PROVE TypeOK'
  <2> DEFINE s1 == [call[c] EXCEPT !.pc = "evict"]
             s2 == [s1 EXCEPT !.now = clock]
  <2>1. s1 \in CallStates
    BY CallUpdates DEF TypeOK, Labels
  <2>2. s2 \in CallStates
    BY <2>1, CallUpdates DEF TypeOK
  <2>3. call' \in [Calls -> CallStates]
    BY <1>10, <2>2, BecomeType DEF StartEvicting
  <2> QED BY <1>10, <2>3 DEF TypeOK, StartEvicting, disk
<1>11. ASSUME NEW c \in Calls, EvictNext(c) PROVE TypeOK'
  BY <1>11, EvictNextType
<1>12. ASSUME NEW c \in Calls, StopEvicting(c) PROVE TypeOK'
  <2>1. call' \in [Calls -> CallStates]
    BY <1>12, IdleType, BecomeType DEF StopEvicting
  <2> QED BY <1>12, <2>1 DEF TypeOK, StopEvicting, disk
<1>13. ASSUME NEW c \in Calls, RemovePart(c) PROVE TypeOK'
  BY <1>13, RemovePartType
<1>14. ASSUME NEW c \in Calls, RemoveDir(c) PROVE TypeOK'
  BY <1>14, RemoveDirType
<1>15. ASSUME NEW c \in Calls, RemoveFails(c) PROVE TypeOK'
  <2>1. call[c] \in CallStates /\ call[c].victim \in Pins
    BY <1>15 DEF TypeOK, Bound, RemoveFails
  <2>2. Evicted(call[c], 0) \in CallStates
    BY <2>1, EvictedType
  <2>3. call' \in [Calls -> CallStates]
    BY <1>15, <2>2, BecomeType DEF RemoveFails
  <2> QED BY <1>15, <2>3 DEF TypeOK, RemoveFails, disk
<1>16. ASSUME NEW s \in Servers, Crash(s) PROVE TypeOK'
  <2>1. call' \in [Calls -> CallStates]
    BY <1>16, IdleType DEF TypeOK, Crash
  <2>2. lock' \in [Servers -> [Pins -> Calls \cup {Nobody}]]
    BY <1>16 DEF TypeOK, Crash
  <2> QED BY <1>16, <2>1, <2>2 DEF TypeOK, Crash, disk
<1>17. ASSUME Tick PROVE TypeOK'
  <2>1. clock' \in Times
    BY <1>17, BoundsAssumption DEF TypeOK, Tick, Times
  <2> QED BY <1>17, <2>1 DEF TypeOK, Tick, disk
<1>18. ASSUME UNCHANGED vars PROVE TypeOK'
  BY <1>18 DEF TypeOK, vars
<1> QED
  BY <1>1, <1>2, <1>3, <1>4, <1>5, <1>6, <1>7, <1>8, <1>9, <1>10, <1>11, <1>12,
     <1>13, <1>14, <1>15, <1>16, <1>17, <1>18 DEF Next, CallStep
-----------------------------------------------------------------------------
(***************************************************************************)
(* The lock and what a builder has found.                                   *)
(***************************************************************************)
\* How a step of call c may move the calls: no other call gets anywhere.
Alone(c) ==
    \A d \in Calls \ {c} :
        /\ call'[d].pc = call[d].pc
        /\ call'[d].home = call[d].home
        /\ call'[d].pin = call[d].pin
        /\ call'[d].victim = call[d].victim
        /\ call'[d].listed = call[d].listed
        /\ call'[d].since = call[d].since
        /\ call'[d].now = call[d].now

\* A call that becomes something leaves the others as they are.
LEMMA BecomeAlone ==
    ASSUME TypeOK, NEW c \in Calls, NEW s, Become(c, s)
    PROVE  Alone(c) /\ call'[c] = s
BY DEF TypeOK, Become, Alone

\* Likewise one that only goes to another place.
LEMMA GotoAlone ==
    ASSUME TypeOK, NEW c \in Calls, NEW l \in Labels, Goto(c, l)
    PROVE  /\ Alone(c)
           /\ call'[c].pc = l
           /\ call'[c].home = call[c].home
           /\ call'[c].pin = call[c].pin
           /\ call'[c].victim = call[c].victim
BY DEF TypeOK, Goto, Alone, CallStates

\* One call holds the lock of a pin on a server.
LEMMA OneHolder ==
    ASSUME \A c \in Calls : Locked(c),
           NEW c \in Calls, NEW d \in Calls,
           call[c].pc \in Holding, call[d].pc \in Holding,
           Home(c) = Home(d), Pin(c) = Pin(d)
    PROVE  c = d
BY DEF Locked

\* A lock that is given back is not the one another call holds.
LEMMA UnlockOther ==
    ASSUME TypeOK, \A c \in Calls : Bound(c) /\ Locked(c),
           NEW c \in Calls, call[c].pc \in Holding, Unlock(c),
           NEW d \in Calls \ {c}, call[d].pc \in Holding
    PROVE  lock'[Home(d)][Pin(d)] = d
BY DEF TypeOK, Bound, Locked, Unlock, Holding

\* A call keeps what it works on, and the lock while it is needed.
LEMMA StepFacts ==
    ASSUME TypeOK, NEW c \in Calls, Bound(c), CallStep(c)
    PROVE  /\ Alone(c)
           /\ call[c].pc # "idle"
           /\ call'[c].pc # "idle" => /\ call'[c].home = call[c].home
                                      /\ call'[c].pin = call[c].pin
           /\ call'[c].pc = "remove" => call'[c].victim \in Pins
           /\ call'[c].pc \in {"fetch", "rename"} => CheckTree(c) \/ Fetch(c)
           /\ \/ Lock(c) /\ call'[c].pc \in Holding
              \/ lock' = lock /\ (call'[c].pc \in Holding => call[c].pc \in Holding)
              \/ Unlock(c) /\ call[c].pc \in Holding /\ call'[c].pc \notin Holding
<1> DEFINE Facts ==
      /\ Alone(c)
      /\ call[c].pc # "idle"
      /\ call'[c].pc # "idle" => /\ call'[c].home = call[c].home
                                 /\ call'[c].pin = call[c].pin
      /\ call'[c].pc = "remove" => call'[c].victim \in Pins
      /\ call'[c].pc \in {"fetch", "rename"} => CheckTree(c) \/ Fetch(c)
      /\ \/ Lock(c) /\ call'[c].pc \in Holding
         \/ lock' = lock /\ (call'[c].pc \in Holding => call[c].pc \in Holding)
         \/ Unlock(c) /\ call[c].pc \in Holding /\ call'[c].pc \notin Holding
<1>0. call[c] \in CallStates
  BY DEF TypeOK
<1> USE DEF Holding
<1>1. CASE Lock(c)
  BY <1>1, GotoAlone DEF Lock, At, Labels
<1>2. CASE CheckTree(c)
  BY <1>2, GotoAlone DEF CheckTree, At, Labels
<1>3. CASE Fetch(c)
  <2>1. Alone(c) /\ call'[c] = [call[c] EXCEPT !.pc = "rename", !.built = clock]
    BY <1>3, BecomeAlone DEF Fetch
  <2> QED BY <1>0, <1>3, <2>1 DEF Fetch, At, CallStates
<1>4. CASE FetchFails(c)
  BY <1>4, BecomeAlone DEF FetchFails, At, Idle
<1>5. CASE Rename(c)
  <2>1. CASE ~IsEmpty(entry[Pin(c)])
    BY <1>5, <2>1, GotoAlone DEF Rename, At, Labels
  <2>2. CASE IsEmpty(entry[Pin(c)])
    <3>1. call' = [Detached(Pin(c)) EXCEPT ![c].pc = "touch"]
      BY <1>5, <2>2 DEF Rename
    <3>2. \A d \in Calls : Detached(Pin(c))[d] \in CallStates
      BY DetachedType
    <3>3. \A d \in Calls \ {c} : call'[d] = Detached(Pin(c))[d]
      BY <3>1, DetachedType
    <3>4. call'[c] = [Detached(Pin(c))[c] EXCEPT !.pc = "touch"]
      BY <3>1, DetachedType
    <3>5. Alone(c)
      BY <3>3, DetachedSame DEF Alone
    <3>6. /\ call'[c].pc = "touch"
          /\ call'[c].home = call[c].home
          /\ call'[c].pin = call[c].pin
      BY <3>2, <3>4, DetachedSame DEF CallStates
    <3> QED BY <1>5, <3>5, <3>6 DEF Rename, At
  <2> QED BY <2>1, <2>2
<1>6. CASE Recheck(c)
  <2>1. CASE entry[Pin(c)].tree # "none"
    BY <1>6, <2>1, GotoAlone DEF Recheck, At, Labels
  <2>2. CASE entry[Pin(c)].tree = "none"
    BY <1>6, <2>2, BecomeAlone DEF Recheck, At, Idle
  <2> QED BY <2>1, <2>2
<1>7. CASE Touch(c)
  <2>1. /\ Alone(c)
        /\ call'[c] = [Idle EXCEPT !.pc = "list", !.home = Home(c), !.pin = Pin(c),
                                   !.unread = Pins, !.since = clock]
    BY <1>7, BecomeAlone DEF Touch
  <2> QED BY <1>7, <2>1 DEF Touch, At, Idle, Home, Pin
<1>8. CASE ListEntry(c)
  <2> DEFINE Skipped(p) == [call[c] EXCEPT !.unread = @ \ {p}]
             Read(p, size) ==
               [call[c] EXCEPT
                  !.unread = @ \ {p}, !.total = @ + size,
                  !.listed[p] = [used |-> entry[p].used, size |-> size]]
             Same(s) == /\ s.pc = call[c].pc /\ s.home = call[c].home
                        /\ s.pin = call[c].pin
  <2>1. \A p : Same(Skipped(p))
    BY <1>0 DEF CallStates
  <2>2. \A p, size : Same(Read(p, size))
    BY <1>0 DEF CallStates
  <2>3. \E p : Become(c, Skipped(p)) \/ \E size : Become(c, Read(p, size))
    BY <1>8 DEF ListEntry
  <2> HIDE DEF Skipped, Read
  <2>4. \E s : Become(c, s) /\ Same(s)
    BY <2>1, <2>2, <2>3
  <2> QED BY <1>8, <2>4, BecomeAlone DEF ListEntry, At
<1>9. CASE StartEvicting(c)
  <2>1. Alone(c) /\ call'[c] = [call[c] EXCEPT !.pc = "evict", !.now = clock]
    BY <1>9, BecomeAlone DEF StartEvicting
  <2> QED BY <1>0, <1>9, <2>1 DEF StartEvicting, At, CallStates
<1>10. CASE EvictNext(c)
  <2> DEFINE Skipped(p) == [call[c] EXCEPT !.listed[p] = Unlisted]
             Chosen(p) == [call[c] EXCEPT !.pc = "remove", !.victim = p,
                                          !.left = Parts, !.open = TRUE]
             Same(s) == /\ s.home = call[c].home /\ s.pin = call[c].pin
                        /\ s.pc = "evict" \/ (s.pc = "remove" /\ s.victim \in Pins)
  <2>1. \A p \in Pins : Same(Skipped(p))
    BY <1>0, <1>10 DEF EvictNext, At, CallStates
  <2>2. \A p \in Pins : Same(Chosen(p))
    BY <1>0 DEF CallStates
  <2>3. \E p \in Pins : Become(c, Skipped(p)) \/ Become(c, Chosen(p))
    BY <1>10 DEF EvictNext
  <2> HIDE DEF Skipped, Chosen
  <2>4. \E s : Become(c, s) /\ Same(s)
    BY <2>1, <2>2, <2>3
  <2> QED BY <1>10, <2>4, BecomeAlone DEF EvictNext, At
<1>11. CASE StopEvicting(c)
  BY <1>11, BecomeAlone DEF StopEvicting, At, Idle
<1>12. CASE RemovePart(c)
  <2>1. \E s : /\ Become(c, s)
               /\ s.pc = "remove" /\ s.victim = call[c].victim
               /\ s.home = call[c].home /\ s.pin = call[c].pin
    BY <1>0, <1>12 DEF RemovePart, At, CallStates
  <2> QED BY <1>12, <2>1, BecomeAlone DEF RemovePart, At, Bound
<1>13. CASE RemoveDir(c)
  <2> DEFINE s == Evicted(call[c], call[c].listed[call[c].victim].size)
  <2>1. call' = [Detached(call[c].victim) EXCEPT ![c] = s]
    BY <1>13 DEF RemoveDir
  <2>2. s.pc = "evict" /\ s.home = call[c].home /\ s.pin = call[c].pin
    BY <1>0 DEF Evicted, CallStates
  <2> HIDE DEF s
  <2>3. call'[c] = s /\ \A d \in Calls \ {c} : call'[d] = Detached(call[c].victim)[d]
    BY <2>1, DetachedType
  <2>4. Alone(c)
    BY <2>3, DetachedSame DEF Alone
  <2> QED BY <1>13, <2>2, <2>3, <2>4 DEF RemoveDir, At
<1>14. CASE RemoveFails(c)
  <2> DEFINE s == Evicted(call[c], 0)
  <2>1. s.pc = "evict" /\ s.home = call[c].home /\ s.pin = call[c].pin
    BY <1>0 DEF Evicted, CallStates
  <2> HIDE DEF s
  <2>2. Become(c, s)
    BY <1>14 DEF RemoveFails, s
  <2> QED BY <1>14, <2>1, <2>2, BecomeAlone DEF RemoveFails, At
<1>15. Facts
  BY <1>1, <1>2, <1>3, <1>4, <1>5, <1>6, <1>7, <1>8, <1>9, <1>10, <1>11, <1>12,
     <1>13, <1>14 DEF CallStep
<1> QED BY <1>15

\* What a call may do to the tree of a pin, and whom it names as its builder.
Dismantles(c, p) ==
    /\ At(c, "remove") /\ p = call[c].victim
    /\ entry'[p].tree # "whole"
    /\ \/ entry'[p].tree = entry[p].tree
       \/ <<entry[p].tree, entry'[p].tree>> \in
             {<<"whole", "partial">>, <<"partial", "none">>}
Places(c, p) ==
    /\ At(c, "rename") /\ p = Pin(c)
    /\ entry[p].tree = "none" /\ entry'[p].tree = "whole"
    /\ builder'[p] = Home(c)
Keeps(p) == entry'[p].tree = entry[p].tree /\ builder'[p] = builder[p]

\* A step of a call keeps the tree of a pin, places it, or takes it apart.
LEMMA DiskFacts ==
    ASSUME TypeOK, NEW c \in Calls, Bound(c), CallStep(c), NEW p \in Pins
    PROVE  Keeps(p) \/ Places(c, p) \/ Dismantles(c, p)
<1>1. CASE UNCHANGED disk
  BY <1>1 DEF disk, Keeps
<1>2. CASE Rename(c) /\ IsEmpty(entry[Pin(c)])
  <2>1. Pin(c) \in Pins
    BY <1>2 DEF Rename, Bound, At
  <2> QED BY <1>2, <2>1 DEF Rename, IsEmpty, Whole, Keeps, Places, TypeOK
<1>3. CASE Touch(c)
  BY <1>3 DEF Touch, Keeps, TypeOK, Entries
<1>4. CASE RemovePart(c)
  <2>1. entry[call[c].victim] \in Entries /\ call[c] \in CallStates
    BY <1>4 DEF TypeOK, Bound, RemovePart
  <2>2. PICK part \in call[c].left :
          LET e == Without(entry[call[c].victim], part) IN
          /\ entry' = [entry EXCEPT ![call[c].victim] = e]
          /\ builder' = [builder EXCEPT ![call[c].victim] =
                           IF e.tree = "whole" THEN @ ELSE Nobody]
    BY <1>4 DEF RemovePart
  <2> DEFINE e == Without(entry[call[c].victim], part)
  <2>3. part \in Parts
    BY <2>1 DEF CallStates
  <2>4. \/ e.tree = entry[call[c].victim].tree
        \/ <<entry[call[c].victim].tree, e.tree>> \in
              {<<"whole", "partial">>, <<"partial", "none">>}
    BY <2>1, <2>3 DEF Without, Parts, Entries
  <2> HIDE DEF e
  <2>5. CASE p = call[c].victim
    <3>1. /\ entry'[p] = e
          /\ builder'[p] = IF e.tree = "whole" THEN builder[p] ELSE Nobody
      BY <2>2, <2>5 DEF TypeOK, e
    <3> QED BY <1>4, <2>4, <2>5, <3>1 DEF Keeps, Dismantles, RemovePart
  <2>6. CASE p # call[c].victim
    BY <2>2, <2>6 DEF TypeOK, Keeps
  <2> QED BY <2>5, <2>6
<1>5. CASE RemoveDir(c)
  BY <1>5 DEF RemoveDir, IsEmpty, NoEntry, Keeps, TypeOK
<1> QED
  BY <1>1, <1>2, <1>3, <1>4, <1>5
  DEF CallStep, Lock, CheckTree, Fetch, FetchFails, Rename, Recheck, ListEntry,
      StartEvicting, EvictNext, StopEvicting, RemoveFails

\* Who comes to build has just found nothing, or was building.
LEMMA BuildingFacts ==
    ASSUME TypeOK, NEW c \in Calls, Bound(c), CallStep(c), Building(c)'
    PROVE  /\ UNCHANGED disk
           /\ Building(c) \/ entry[Pin(c)].tree = "none"
<1>1. CheckTree(c) \/ Fetch(c)
  BY StepFacts DEF Building, At
<1> QED
  BY <1>1 DEF CheckTree, Fetch, Building, Goto, TypeOK, At, CallStates
-----------------------------------------------------------------------------
(***************************************************************************)
(* The inductive invariant, and what follows from it.                       *)
(***************************************************************************)
LEMMA InitInv == Init => IInv
<1>1. Idle.pc = "idle"
  BY DEF Idle
<1>2. Init => \A c \in Calls : call[c].pc = "idle"
  BY <1>1 DEF Init
<1> QED BY <1>2, InitType DEF IInv, Bound, Locked, Fresh, Building, At, Holding

\* A step of a call leaves every call bound, with its lock held and what it knows
\* fresh.
LEMMA CallInv ==
    ASSUME IInv, NEW c \in Calls, CallStep(c), NEW d \in Calls
    PROVE  Bound(d)' /\ Locked(d)' /\ Fresh(d)'
<1>1. TypeOK /\ \A e \in Calls : Bound(e) /\ Locked(e) /\ Fresh(e)
  BY DEF IInv
<1>2. d # c => /\ call'[d].pc = call[d].pc
               /\ call'[d].home = call[d].home
               /\ call'[d].pin = call[d].pin
               /\ call'[d].victim = call[d].victim
  BY <1>1, StepFacts DEF Alone
<1>3. call'[c].pc # "idle" => /\ call'[c].home = call[c].home
                              /\ call'[c].pin = call[c].pin
  BY <1>1, StepFacts
<1>4. Bound(d)'
  <2>1. CASE d = c
    BY <1>1, <1>3, <2>1, StepFacts DEF Bound, Home, Pin, At
  <2>2. CASE d # c
    BY <1>1, <1>2, <2>2 DEF Bound, Home, Pin, At
  <2> QED BY <2>1, <2>2
<1>5. Locked(d)'
  <2>1. CASE Lock(c)
    <3>1. Home(c) \in Servers /\ Pin(c) \in Pins
      BY <1>1, <2>1 DEF Bound, Lock, At
    <3>2. /\ lock[Home(c)][Pin(c)] = Nobody
          /\ lock' = [lock EXCEPT ![Home(c)][Pin(c)] = c]
      BY <2>1 DEF Lock
    <3>3. CASE d = c
      <4>1. lock'[Home(c)][Pin(c)] = c
        BY <1>1, <3>1, <3>2 DEF TypeOK
      <4> QED BY <1>3, <3>3, <4>1 DEF Locked, Home, Pin, Holding
    <3>4. CASE d # c
      <4>1. ASSUME call[d].pc \in Holding PROVE lock'[Home(d)][Pin(d)] = d
        <5>1. lock[Home(d)][Pin(d)] = d /\ d # Nobody
          BY <1>1, <4>1, NamesAssumption DEF Locked, Nobody
        <5>2. ~(Home(d) = Home(c) /\ Pin(d) = Pin(c))
          BY <3>2, <5>1
        <5>3. Home(d) \in Servers /\ Pin(d) \in Pins
          BY <1>1, <4>1 DEF Bound, Holding
        <5> QED BY <1>1, <3>1, <3>2, <5>1, <5>2, <5>3 DEF TypeOK
      <4> QED BY <1>2, <3>4, <4>1 DEF Locked, Home, Pin
    <3> QED BY <3>3, <3>4
  <2>2. CASE lock' = lock /\ (call'[c].pc \in Holding => call[c].pc \in Holding)
    <3>1. CASE d = c
      BY <1>1, <1>3, <2>2, <3>1 DEF Locked, Home, Pin, Holding
    <3>2. CASE d # c
      BY <1>1, <1>2, <2>2, <3>2 DEF Locked, Home, Pin
    <3> QED BY <3>1, <3>2
  <2>3. CASE Unlock(c) /\ call[c].pc \in Holding /\ call'[c].pc \notin Holding
    <3>1. CASE d = c
      BY <2>3, <3>1 DEF Locked
    <3>2. CASE d # c
      <4>1. call[d].pc \in Holding => lock'[Home(d)][Pin(d)] = d
        BY <1>1, <2>3, <3>2, UnlockOther
      <4> QED BY <1>2, <3>2, <4>1 DEF Locked, Home, Pin
    <3> QED BY <3>1, <3>2
  <2> QED BY <1>1, <2>1, <2>2, <2>3, StepFacts
<1>6. Fresh(d)'
  <2> SUFFICES ASSUME Building(d)', (entry[Pin(d)].tree = "whole")'
               PROVE  (builder[Pin(d)] # Home(d))'
    BY DEF Fresh
  <2>1. CASE d = c
    <3>1. UNCHANGED disk /\ (Building(c) \/ entry[Pin(c)].tree = "none")
      BY <1>1, <2>1, BuildingFacts
    <3>2. Pin(c)' = Pin(c) /\ Home(c)' = Home(c)
      BY <1>3, <2>1 DEF Building, At, Home, Pin
    <3> QED BY <1>1, <2>1, <3>1, <3>2 DEF Fresh, disk
  <2>2. CASE d # c
    <3>1. Building(d) /\ Pin(d)' = Pin(d) /\ Home(d)' = Home(d)
      BY <1>2, <2>2 DEF Building, At, Home, Pin
    <3>2. Pin(d) \in Pins
      BY <1>1, <3>1 DEF Bound, Building, At
    <3>3. entry'[Pin(d)].tree = "whole"
      BY <3>1
    <3>4. CASE Keeps(Pin(d))
      BY <1>1, <3>1, <3>3, <3>4 DEF Keeps, Fresh
    <3>5. CASE Places(c, Pin(d))
      <4>1. Home(c) # Home(d)
        <5>1. call[c].pc \in Holding /\ call[d].pc \in Holding
          BY <3>1, <3>5 DEF Places, Building, At, Holding
        <5>2. Pin(c) = Pin(d)
          BY <3>5 DEF Places
        <5> QED BY <1>1, <2>2, <5>1, <5>2, OneHolder
      <4> QED BY <3>1, <3>5, <4>1 DEF Places
    <3>6. CASE Dismantles(c, Pin(d))
      BY <3>3, <3>6 DEF Dismantles
    <3> QED BY <1>1, <3>2, <3>4, <3>5, <3>6, DiskFacts
  <2> QED BY <2>1, <2>2
<1> QED BY <1>4, <1>5, <1>6

\* Every step keeps the invariant,
LEMMA InvStep == IInv /\ [Next]_vars => IInv'
<1> SUFFICES ASSUME IInv, [Next]_vars PROVE IInv'
  OBVIOUS
<1>1. TypeOK /\ \A e \in Calls : Bound(e) /\ Locked(e) /\ Fresh(e)
  BY DEF IInv
<1>2. TypeOK'
  BY <1>1, TypeStep
<1>3. ASSUME NEW d \in Calls PROVE Bound(d)' /\ Locked(d)' /\ Fresh(d)'
  <2>1. ASSUME NEW c \in Calls, Stage(c) PROVE Bound(d)' /\ Locked(d)' /\ Fresh(d)'
    <3>1. PICK s \in Servers, p \in Pins :
            Become(c, [Idle EXCEPT !.pc = "lock", !.home = s, !.pin = p])
      BY <2>1 DEF Stage
    <3>2. CASE d = c
      <4>1. call'[c] = [Idle EXCEPT !.pc = "lock", !.home = s, !.pin = p]
        BY <1>1, <3>1, BecomeAlone
      <4>2. call'[c].pc = "lock" /\ call'[c].home = s /\ call'[c].pin = p
        BY <4>1 DEF Idle
      <4> QED BY <3>2, <4>2
              DEF Bound, Locked, Fresh, Building, Holding, At, Home, Pin
    <3>3. CASE d # c
      <4>1. call'[d] = call[d]
        BY <1>1, <3>1, <3>3 DEF Become, TypeOK
      <4> QED BY <1>1, <2>1, <4>1
              DEF Bound, Locked, Fresh, Building, At, Home, Pin, Stage, disk
    <3> QED BY <3>2, <3>3
  <2>2. ASSUME NEW c \in Calls, CallStep(c)
        PROVE  Bound(d)' /\ Locked(d)' /\ Fresh(d)'
    BY <2>2, CallInv
  <2>3. ASSUME NEW s \in Servers, Crash(s)
        PROVE  Bound(d)' /\ Locked(d)' /\ Fresh(d)'
    <3>1. CASE Home(d) = s
      BY <2>3, <3>1 DEF Crash, Bound, Locked, Fresh, Building, Holding, At, Idle
    <3>2. CASE Home(d) # s
      <4>1. call'[d] = call[d]
        BY <2>3, <3>2 DEF Crash
      <4>2. call[d].pc \in Holding => lock'[Home(d)] = lock[Home(d)]
        BY <1>1, <2>3, <3>2 DEF Crash, Bound, Holding, TypeOK
      <4> QED BY <1>1, <2>3, <4>1, <4>2
              DEF Bound, Locked, Fresh, Building, At, Home, Pin, Crash, disk
    <3> QED BY <3>1, <3>2
  <2>4. CASE Tick \/ UNCHANGED vars
    BY <1>1, <2>4
    DEF Bound, Locked, Fresh, Building, At, Home, Pin, Tick, vars, disk
  <2> QED BY <2>1, <2>2, <2>3, <2>4 DEF Next
<1> QED BY <1>2, <1>3 DEF IInv

\* which therefore always holds.
LEMMA Invariant == Spec => []IInv
BY InitInv, InvStep, PTL DEF Spec

\* The variables keep their types, however evictions free more than they have
\* counted: the total they cut back never runs below zero.
THEOREM TypeCorrect == Spec => []TypeOK
<1>1. IInv => TypeOK
  BY DEF IInv
<1> QED BY <1>1, Invariant, PTL

\* "One shallow fetch per pin even under concurrent requests in this process",
\* for any number of calls, servers and crashes: a server does not build a tree
\* twice at once, nor one of its own that is still whole.
THEOREM OneFetch == Spec => []OneFetchPerPin
<1>1. IInv => OneFetchPerPin
  <2> SUFFICES ASSUME IInv, NEW c \in Calls, Building(c)
               PROVE  /\ entry[Pin(c)].tree = "whole" => builder[Pin(c)] # Home(c)
                      /\ \A d \in Calls \ {c} :
                           Home(d) = Home(c) /\ Pin(d) = Pin(c) => ~Building(d)
    BY DEF OneFetchPerPin
  <2>1. entry[Pin(c)].tree = "whole" => builder[Pin(c)] # Home(c)
    BY DEF IInv, Fresh
  <2>2. ASSUME NEW d \in Calls \ {c}, Home(d) = Home(c), Pin(d) = Pin(c), Building(d)
        PROVE  FALSE
    <3>1. call[c].pc \in Holding /\ call[d].pc \in Holding
      BY <2>2 DEF Building, At, Holding
    <3> QED BY <2>2, <3>1, OneHolder DEF IInv
  <2> QED BY <2>1, <2>2
<1> QED BY <1>1, Invariant, PTL

\* A tree that is not there appears whole, and one that is there loses its parts
\* to a removal only, whatever the servers and the evictions of all of them do.
THEOREM TreesAppear == Spec => TreesAppearWhole
<1> DEFINE Appears(p) ==
      \/ entry'[p].tree = entry[p].tree
      \/ entry[p].tree = "none" /\ entry'[p].tree = "whole"
      \/ /\ <<entry[p].tree, entry'[p].tree>> \in
               {<<"whole", "partial">>, <<"partial", "none">>}
         /\ \E c \in Calls : At(c, "remove") /\ call[c].victim = p
<1>1. ASSUME IInv, Next, NEW p \in Pins PROVE Appears(p)
  <2>1. CASE UNCHANGED disk
    BY <2>1 DEF disk
  <2>2. ASSUME NEW c \in Calls, CallStep(c) PROVE Appears(p)
    <3>1. Keeps(p) \/ Places(c, p) \/ Dismantles(c, p)
      BY <1>1, <2>2, DiskFacts DEF IInv
    <3> QED BY <3>1 DEF Keeps, Places, Dismantles
  <2> QED BY <1>1, <2>1, <2>2 DEF Next, Stage, Crash, Tick
<1>2. IInv /\ [Next]_vars => [\A p \in Pins : Appears(p)]_vars
  BY <1>1
<1> HIDE DEF Appears
<1>3. Spec => [][\A p \in Pins : Appears(p)]_vars
  BY <1>2, Invariant, PTL DEF Spec
<1> QED BY <1>3 DEF TreesAppearWhole, Appears
-----------------------------------------------------------------------------
(***************************************************************************)
(* The grace window.                                                        *)
(***************************************************************************)
\* What a call may do to the record of the last use of a tree that is returned.
LEMMA UseFacts ==
    ASSUME TypeOK, HandedWhole, NEW c \in Calls, Bound(c), CallStep(c),
           NEW p \in handed'
    PROVE  /\ entry'[p].tree = "whole"
           /\ \/ p \in handed /\ entry'[p].used \in {entry[p].used, Never}
              \/ entry'[p].used = clock
<1>1. CASE UNCHANGED disk
  BY <1>1 DEF disk, HandedWhole
<1>2. CASE Rename(c) /\ IsEmpty(entry[Pin(c)])
  BY <1>2 DEF Rename, TypeOK, HandedWhole
<1>3. CASE Touch(c)
  <2>1. /\ entry' = [entry EXCEPT ![Pin(c)].used = IF entry[Pin(c)].dir THEN clock ELSE @]
        /\ handed' = handed \cup {q \in {Pin(c)} : entry[q].tree = "whole"}
    BY <1>3 DEF Touch
  <2>2. p \in Pins /\ entry[p] \in Entries /\ entry[p].tree = "whole"
    BY <1>3, <2>1 DEF TypeOK, HandedWhole, Bound, Touch, At
  <2>3. entry[p].dir
    BY <2>2 DEF TypeOK, IsEmpty
  <2>4. CASE p = Pin(c)
    BY <2>1, <2>2, <2>3, <2>4 DEF TypeOK, Entries
  <2>5. CASE p # Pin(c)
    BY <2>1, <2>2, <2>5 DEF TypeOK
  <2> QED BY <2>4, <2>5
<1>4. CASE RemovePart(c)
  <2> DEFINE v == call[c].victim
  <2>1. PICK part \in call[c].left :
          LET e == Without(entry[v], part) IN
          /\ entry' = [entry EXCEPT ![v] = e]
          /\ handed' = IF e.tree = "whole" THEN handed ELSE handed \ {v}
    BY <1>4 DEF RemovePart
  <2> DEFINE e == Without(entry[v], part)
  <2>2. v \in Pins /\ entry[v] \in Entries /\ part \in Parts
    BY <1>4 DEF TypeOK, Bound, RemovePart, CallStates
  <2>3. p \in handed /\ p \in Pins
    BY <2>1 DEF TypeOK
  <2>4. CASE p = v
    <3>1. e.tree = "whole" /\ entry'[p] = e
      BY <2>1, <2>2, <2>4 DEF TypeOK, e
    <3>2. e.used \in {entry[v].used, Never}
      BY <2>2 DEF Without, Parts, Entries
    <3> QED BY <2>3, <2>4, <3>1, <3>2
  <2>5. CASE p # v
    BY <2>1, <2>2, <2>3, <2>5 DEF TypeOK, HandedWhole
  <2> QED BY <2>4, <2>5
<1>5. CASE RemoveDir(c)
  <2>1. /\ entry' = [entry EXCEPT ![call[c].victim] = NoEntry]
        /\ handed' = handed /\ entry[call[c].victim].tree = "none"
    BY <1>5 DEF RemoveDir, IsEmpty
  <2>2. p # call[c].victim /\ p \in Pins
    BY <2>1 DEF HandedWhole, TypeOK
  <2> QED BY <2>1, <2>2 DEF HandedWhole, TypeOK
<1> QED
  BY <1>1, <1>2, <1>3, <1>4, <1>5
  DEF CallStep, Lock, CheckTree, Fetch, FetchFails, Rename, Recheck, ListEntry,
      StartEvicting, EvictNext, StopEvicting, RemoveFails

\* How a call goes through an eviction: it begins with nothing listed, lists
\* what is on record, and judges by what it has listed.
Begins(c) ==
    /\ call'[c].pc = "list" /\ call'[c].since = clock
    /\ \A p \in Pins : call'[c].listed[p].used = -1
Lists(c) ==
    /\ call[c].pc \in Evicting /\ call'[c].pc \in Evicting
    /\ call'[c].since = call[c].since
    /\ \A p \in Pins :
          \/ call'[c].listed[p].used \in {-1, call[c].listed[p].used}
          \/ UNCHANGED disk /\ call'[c].listed[p].used = entry[p].used
Judges(c) ==
    /\ call'[c].pc \in {"evict", "remove"} =>
          \/ call'[c].now = clock
          \/ call[c].pc \in {"evict", "remove"} /\ call'[c].now = call[c].now
    /\ call'[c].pc = "remove" =>
          /\ call'[c].listed = call[c].listed /\ call'[c].now = call[c].now
          /\ \/ At(c, "remove") /\ call'[c].victim = call[c].victim
             \/ /\ call[c].listed[call'[c].victim].used # -1
                /\ Grace <= call[c].now - call[c].listed[call'[c].victim].used

\* A step of a call begins an eviction, lists or judges in one, or ends outside of any.
LEMMA EvictFacts ==
    ASSUME TypeOK, NEW c \in Calls, Bound(c), CallStep(c)
    PROVE  Begins(c) \/ (Lists(c) /\ Judges(c)) \/ call'[c].pc \notin Evicting
<1>0. call[c] \in CallStates
  BY DEF TypeOK
<1> USE DEF Evicting
<1>1. CASE Lock(c) \/ CheckTree(c)
  BY <1>1, GotoAlone DEF Lock, CheckTree, Labels
<1>2. CASE Fetch(c)
  <2>1. call'[c] = [call[c] EXCEPT !.pc = "rename", !.built = clock]
    BY <1>2, BecomeAlone DEF Fetch
  <2> QED BY <1>0, <2>1 DEF CallStates
<1>3. CASE FetchFails(c) \/ StopEvicting(c)
  BY <1>3, BecomeAlone DEF FetchFails, StopEvicting, Idle
<1>4. CASE Rename(c)
  <2>1. CASE ~IsEmpty(entry[Pin(c)])
    BY <1>4, <2>1, GotoAlone DEF Rename, Labels
  <2>2. CASE IsEmpty(entry[Pin(c)])
    <3>1. call' = [Detached(Pin(c)) EXCEPT ![c].pc = "touch"]
      BY <1>4, <2>2 DEF Rename
    <3>2. call'[c] = [Detached(Pin(c))[c] EXCEPT !.pc = "touch"]
      BY <3>1, DetachedType
    <3> QED BY <3>2, DetachedType DEF CallStates
  <2> QED BY <2>1, <2>2
<1>5. CASE Recheck(c)
  BY <1>5, BecomeAlone, GotoAlone DEF Recheck, Labels, Idle
<1>6. CASE Touch(c)
  <2>1. call'[c] = [Idle EXCEPT !.pc = "list", !.home = Home(c), !.pin = Pin(c),
                                !.unread = Pins, !.since = clock]
    BY <1>6, BecomeAlone DEF Touch
  <2>2. call'[c].pc = "list" /\ call'[c].since = clock /\ call'[c].listed = Idle.listed
    BY <2>1 DEF Idle
  <2>3. \A p \in Pins : Idle.listed[p].used = -1
    BY DEF Idle, Unlisted
  <2> QED BY <2>2, <2>3 DEF Begins
<1>7. CASE ListEntry(c)
  <2>0. At(c, "list") /\ UNCHANGED disk
    BY <1>7 DEF ListEntry
  <2>1. PICK p \in call[c].unread :
          \/ Become(c, [call[c] EXCEPT !.unread = @ \ {p}])
          \/ \E size : Become(c, [call[c] EXCEPT
                  !.unread = @ \ {p}, !.total = @ + size,
                  !.listed[p] = [used |-> entry[p].used, size |-> size]])
    BY <1>7 DEF ListEntry
  <2>2. p \in Pins
    BY <1>0 DEF CallStates
  <2>3. CASE Become(c, [call[c] EXCEPT !.unread = @ \ {p}])
    <3>1. call'[c] = [call[c] EXCEPT !.unread = @ \ {p}]
      BY <2>3, BecomeAlone
    <3>2. /\ call'[c].pc = "list" /\ call'[c].since = call[c].since
          /\ call'[c].listed = call[c].listed
      BY <1>0, <2>0, <3>1 DEF CallStates, At
    <3> QED BY <2>0, <3>2 DEF Lists, Judges, At
  <2>4. ASSUME NEW size,
               Become(c, [call[c] EXCEPT
                  !.unread = @ \ {p}, !.total = @ + size,
                  !.listed[p] = [used |-> entry[p].used, size |-> size]])
        PROVE  Lists(c) /\ Judges(c)
    <3>1. call'[c] = [call[c] EXCEPT
                  !.unread = @ \ {p}, !.total = @ + size,
                  !.listed[p] = [used |-> entry[p].used, size |-> size]]
      BY <2>4, BecomeAlone
    <3>2. /\ call'[c].pc = "list" /\ call'[c].since = call[c].since
          /\ call'[c].listed =
               [call[c].listed EXCEPT ![p] = [used |-> entry[p].used, size |-> size]]
      BY <1>0, <2>0, <3>1 DEF CallStates, At
    <3>3. \A q \in Pins : call'[c].listed[q].used \in {call[c].listed[q].used, entry[q].used}
      BY <1>0, <2>2, <3>2 DEF CallStates
    <3> QED BY <2>0, <3>2, <3>3 DEF Lists, Judges, At
  <2> QED BY <2>1, <2>3, <2>4
<1>8. CASE StartEvicting(c)
  <2>1. At(c, "list") /\ call'[c] = [call[c] EXCEPT !.pc = "evict", !.now = clock]
    BY <1>8, BecomeAlone DEF StartEvicting
  <2>2. /\ call'[c].pc = "evict" /\ call'[c].now = clock
        /\ call'[c].since = call[c].since /\ call'[c].listed = call[c].listed
    BY <1>0, <2>1 DEF CallStates
  <2> QED BY <2>1, <2>2 DEF Lists, Judges, At
<1>9. CASE EvictNext(c)
  <2>1. PICK p \in Pins :
          /\ IsNext(c, p)
          /\ IF Spared(c, p) \/ ~entry[p].dir
             THEN Become(c, [call[c] EXCEPT !.listed[p] = Unlisted])
             ELSE Become(c, [call[c] EXCEPT !.pc = "remove", !.victim = p,
                                            !.left = Parts, !.open = TRUE])
    BY <1>9 DEF EvictNext
  <2>2. At(c, "evict")
    BY <1>9 DEF EvictNext
  <2>3. CASE Spared(c, p) \/ ~entry[p].dir
    <3>1. call'[c] = [call[c] EXCEPT !.listed[p] = Unlisted]
      BY <2>1, <2>3, BecomeAlone
    <3>2. /\ call'[c].pc = "evict" /\ call'[c].since = call[c].since
          /\ call'[c].now = call[c].now
          /\ call'[c].listed = [call[c].listed EXCEPT ![p] = Unlisted]
      BY <1>0, <2>2, <3>1 DEF CallStates, At
    <3>3. \A q \in Pins : call'[c].listed[q].used \in {-1, call[c].listed[q].used}
      BY <1>0, <3>2 DEF CallStates, Unlisted
    <3> QED BY <2>2, <3>2, <3>3 DEF Lists, Judges, At
  <2>4. CASE ~(Spared(c, p) \/ ~entry[p].dir)
    <3>1. call'[c] = [call[c] EXCEPT !.pc = "remove", !.victim = p,
                                     !.left = Parts, !.open = TRUE]
      BY <2>1, <2>4, BecomeAlone
    <3>2. /\ call'[c].pc = "remove" /\ call'[c].victim = p
          /\ call'[c].since = call[c].since /\ call'[c].now = call[c].now
          /\ call'[c].listed = call[c].listed
      BY <1>0, <3>1 DEF CallStates
    <3>3. call[c].listed[p].used # -1
      BY <2>1 DEF IsNext, Candidates
    <3>4. Grace <= call[c].now - call[c].listed[p].used
      <4>1. ~(call[c].now - call[c].listed[p].used < Grace)
        BY <2>4 DEF Spared
      <4>2. call[c].now \in Int /\ call[c].listed[p].used \in Int /\ Grace \in Int
        BY <1>0, BudgetAssumption, BoundsAssumption DEF CallStates, Times
      <4> QED BY <4>1, <4>2
    <3> QED BY <2>2, <3>2, <3>3, <3>4 DEF Lists, Judges, At
  <2> QED BY <2>3, <2>4
<1>10. CASE RemovePart(c)
  <2>1. At(c, "remove")
    BY <1>10 DEF RemovePart
  <2>2. PICK part : call'[c] \in {call[c], [call[c] EXCEPT !.left = @ \ {part}]}
    BY <1>10, BecomeAlone DEF RemovePart
  <2>3. /\ call'[c].pc = "remove" /\ call'[c].victim = call[c].victim
        /\ call'[c].since = call[c].since /\ call'[c].now = call[c].now
        /\ call'[c].listed = call[c].listed
    BY <1>0, <2>1, <2>2 DEF CallStates, At
  <2> QED BY <2>1, <2>3 DEF Lists, Judges, At
<1>11. CASE RemoveDir(c) \/ RemoveFails(c)
  <2>1. At(c, "remove") /\ call[c].victim \in Pins
    BY <1>11 DEF RemoveDir, RemoveFails, Bound
  <2>2. PICK freed : call'[c] = Evicted(call[c], freed)
    BY <1>11, BecomeAlone, DetachedType DEF RemoveDir, RemoveFails
  <2>3. /\ call'[c].pc = "evict"
        /\ call'[c].since = call[c].since /\ call'[c].now = call[c].now
        /\ call'[c].listed = [call[c].listed EXCEPT ![call[c].victim] = Unlisted]
    BY <1>0, <2>2 DEF Evicted, CallStates
  <2>4. \A q \in Pins : call'[c].listed[q].used \in {-1, call[c].listed[q].used}
    BY <1>0, <2>1, <2>3 DEF CallStates, Unlisted
  <2> QED BY <2>1, <2>3, <2>4 DEF Lists, Judges, At
<1> QED
  BY <1>1, <1>2, <1>3, <1>4, <1>5, <1>6, <1>7, <1>8, <1>9, <1>10, <1>11 DEF CallStep

\* At the start no eviction has judged anything.
LEMMA InitGrace == Init => GraceInv
<1>1. Idle.pc = "idle"
  BY DEF Idle
<1>2. Init => \A c \in Calls : call[c].pc = "idle"
  BY <1>1 DEF Init
<1>3. Init => HandedWhole
  BY DEF Init, HandedWhole, Whole
<1> QED BY <1>2, <1>3 DEF GraceInv, Marked, Judged, Evicting, At

\* A step of a call leaves every victim older than the grace period,
LEMMA CallGrace ==
    ASSUME IInv, GraceInv, NEW c \in Calls, CallStep(c)
    PROVE  GraceInv'
<1>1. TypeOK /\ Bound(c) /\ HandedWhole /\ \A d \in Calls : Marked(d) /\ Judged(d)
  BY DEF IInv, GraceInv
<1>2. clock' = clock
  BY DEF CallStep, Lock, CheckTree, Fetch, FetchFails, Rename, Recheck, Touch, ListEntry,
         StartEvicting, EvictNext, StopEvicting, RemovePart, RemoveDir, RemoveFails
<1>3. \A p \in handed' :
        /\ p \in Pins /\ entry'[p].tree = "whole"
        /\ \/ p \in handed /\ entry'[p].used \in {entry[p].used, Never}
           \/ entry'[p].used = clock
  <2>1. TypeOK'
    BY CallInv, TypeStep DEF IInv, Next
  <2> QED BY <1>1, <2>1, UseFacts DEF TypeOK
<1>4. HandedWhole'
  BY <1>3 DEF HandedWhole
<1>5. ASSUME NEW d \in Calls PROVE Marked(d)' /\ Judged(d)'
  <2>1. CASE d # c
    <3>1. /\ call'[d].pc = call[d].pc
          /\ call'[d].victim = call[d].victim
          /\ call'[d].listed = call[d].listed
          /\ call'[d].since = call[d].since
          /\ call'[d].now = call[d].now
      BY <1>1, <2>1, StepFacts DEF Alone
    <3>2. Judged(d)'
      BY <1>1, <1>2, <3>1 DEF Judged, At
    <3>3. Marked(d)'
      <4> SUFFICES ASSUME call[d].pc \in Evicting
                   PROVE  /\ call[d].since <= clock
                          /\ \A p \in handed' :
                                call[d].listed[p].used # -1 =>
                                  \/ entry'[p].used \in {Never, call[d].listed[p].used}
                                  \/ call[d].since <= entry'[p].used
        BY <1>2, <3>1 DEF Marked
      <4> QED BY <1>1, <1>3 DEF Marked
    <3> QED BY <3>2, <3>3
  <2>2. CASE d = c
    <3>1. CASE call'[c].pc \notin Evicting
      BY <2>2, <3>1 DEF Marked, Judged, At, Evicting
    <3>2. CASE Begins(c)
      <4>1. Judged(c)'
        BY <3>2 DEF Begins, Judged, At
      <4>2. clock <= clock
        BY <1>1 DEF TypeOK, Times
      <4>3. Marked(c)'
        BY <1>2, <1>3, <3>2, <4>2 DEF Begins, Marked
      <4> QED BY <2>2, <4>1, <4>3
    <3>3. CASE Lists(c) /\ Judges(c)
      <4>1. clock <= clock
        BY <1>1 DEF TypeOK, Times
      <4>2. Judged(c)'
        BY <1>1, <1>2, <3>3, <4>1 DEF Judges, Judged, At
      <4>3. call[c].since <= clock
        BY <1>1, <3>3 DEF Lists, Marked
      <4>4. ASSUME NEW p \in handed', call'[c].listed[p].used # -1
            PROVE  \/ entry'[p].used \in {Never, call'[c].listed[p].used}
                   \/ call[c].since <= entry'[p].used
        <5>1. CASE entry'[p].used = clock
          BY <4>3, <5>1
        <5>2. CASE p \in handed /\ entry'[p].used \in {entry[p].used, Never}
          <6>1. CASE call'[c].listed[p].used = call[c].listed[p].used
            BY <1>1, <3>3, <4>4, <5>2, <6>1 DEF Lists, Marked
          <6>2. CASE UNCHANGED disk /\ call'[c].listed[p].used = entry[p].used
            BY <6>2 DEF disk
          <6> QED BY <1>3, <3>3, <4>4, <6>1, <6>2 DEF Lists
        <5> QED BY <1>3, <5>1, <5>2
      <4>5. Marked(c)'
        BY <1>2, <3>3, <4>3, <4>4 DEF Lists, Marked
      <4> QED BY <2>2, <4>2, <4>5
    <3> QED BY <1>1, <3>1, <3>2, <3>3, EvictFacts
  <2> QED BY <2>1, <2>2
<1> QED BY <1>4, <1>5 DEF GraceInv

\* and so does every step.
LEMMA GraceStep == IInv /\ GraceInv /\ [Next]_vars => GraceInv'
<1> SUFFICES ASSUME IInv, GraceInv, [Next]_vars PROVE GraceInv'
  OBVIOUS
<1>1. TypeOK /\ HandedWhole /\ \A d \in Calls : Marked(d) /\ Judged(d)
  BY DEF IInv, GraceInv
<1>2. ASSUME NEW c \in Calls, CallStep(c) PROVE GraceInv'
  BY <1>2, CallGrace
<1>3. ASSUME NEW c \in Calls, Stage(c) PROVE GraceInv'
  <2>1. PICK s \in Servers, p \in Pins :
          Become(c, [Idle EXCEPT !.pc = "lock", !.home = s, !.pin = p])
    BY <1>3 DEF Stage
  <2>2. call'[c].pc = "lock"
    <3>1. call'[c] = [Idle EXCEPT !.pc = "lock", !.home = s, !.pin = p]
      BY <1>1, <2>1, BecomeAlone
    <3> QED BY <3>1 DEF Idle
  <2>3. \A d \in Calls \ {c} : call'[d] = call[d]
    BY <1>1, <2>1 DEF Become, TypeOK
  <2>4. UNCHANGED <<entry, handed, clock>>
    BY <1>3 DEF Stage, disk
  <2>5. ASSUME NEW d \in Calls PROVE Marked(d)' /\ Judged(d)'
    <3>1. CASE d = c
      BY <2>2, <3>1 DEF Marked, Judged, Evicting, At
    <3>2. CASE d # c
      BY <1>1, <2>3, <2>4, <3>2 DEF Marked, Judged, At
    <3> QED BY <3>1, <3>2
  <2> QED BY <1>1, <2>4, <2>5 DEF GraceInv, HandedWhole
<1>4. ASSUME NEW s \in Servers, Crash(s) PROVE GraceInv'
  <2>1. \A d \in Calls : call'[d] = call[d] \/ call'[d].pc = "idle"
    <3>1. Idle.pc = "idle"
      BY DEF Idle
    <3> QED BY <1>4, <3>1 DEF Crash
  <2>2. UNCHANGED <<entry, handed, clock>>
    BY <1>4 DEF Crash, disk
  <2>3. ASSUME NEW d \in Calls PROVE Marked(d)' /\ Judged(d)'
    <3>1. CASE call'[d] = call[d]
      BY <1>1, <2>2, <3>1 DEF Marked, Judged, At
    <3>2. CASE call'[d].pc = "idle"
      BY <3>2 DEF Marked, Judged, Evicting, At
    <3> QED BY <2>1, <3>1, <3>2
  <2> QED BY <1>1, <2>2, <2>3 DEF GraceInv, HandedWhole
<1>5. CASE Tick
  <2>1. UNCHANGED <<entry, handed, call>> /\ clock' = clock + 1
    BY <1>5 DEF Tick, disk
  <2>2. ASSUME NEW d \in Calls PROVE Marked(d)' /\ Judged(d)'
    <3>1. clock \in Int /\ call[d].since \in Int /\ call[d].now \in Int
      BY <1>1, BoundsAssumption DEF TypeOK, CallStates, Times
    <3>2. /\ call[d].since <= clock => call[d].since <= clock'
          /\ call[d].now <= clock => call[d].now <= clock'
      BY <2>1, <3>1
    <3>3. Marked(d)'
      BY <1>1, <2>1, <3>2 DEF Marked
    <3>4. Judged(d)'
      BY <1>1, <2>1, <3>2 DEF Judged, At
    <3> QED BY <3>3, <3>4
  <2> QED BY <1>1, <2>1, <2>2 DEF GraceInv, HandedWhole
<1>6. CASE UNCHANGED vars
  BY <1>1, <1>6 DEF vars, GraceInv, HandedWhole, Marked, Judged, At
<1> QED BY <1>2, <1>3, <1>4, <1>5, <1>6 DEF Next

\* A tree that was handed out is broken up a full window after its last use, or
\* by an eviction that had begun before that use: for every window, any number of
\* servers and evictions, and removals that stop anywhere.
THEOREM GraceHolds == Spec => GraceHoldsUntilListed
<1> DEFINE Late(p) ==
      Breaks(p) =>
         \/ clock - entry[p].used >= Grace
         \/ \E c \in Calls : /\ At(c, "remove") /\ call[c].victim = p
                             /\ entry[p].used >= call[c].since
<1>1. Spec => []GraceInv
  <2>1. IInv /\ IInv' /\ GraceInv /\ [Next]_vars => GraceInv'
    BY GraceStep
  <2> QED BY <2>1, InitGrace, Invariant, PTL DEF Spec
<1>2. ASSUME IInv, GraceInv, Next, NEW p \in handed PROVE Late(p)
  <2>1. TypeOK /\ p \in Pins
    BY <1>2 DEF IInv, TypeOK
  <2>2. CASE UNCHANGED disk
    BY <2>2 DEF disk, Breaks
  <2>3. ASSUME NEW c \in Calls, CallStep(c), Breaks(p) PROVE Late(p)
    <3>1. At(c, "remove") /\ call[c].victim = p
      BY <1>2, <2>1, <2>3, DiskFacts DEF IInv, Keeps, Places, Dismantles, Breaks
    <3>2. /\ call[c].now <= clock
          /\ call[c].listed[p].used # -1
          /\ Grace <= call[c].now - call[c].listed[p].used
          /\ \/ entry[p].used \in {Never, call[c].listed[p].used}
             \/ call[c].since <= entry[p].used
      BY <1>2, <3>1 DEF GraceInv, Marked, Judged, Evicting, At
    <3>3. /\ clock \in Nat /\ call[c].now \in Nat /\ call[c].since \in Nat
          /\ entry[p].used \in Nat /\ call[c].listed[p].used \in Nat \cup {-1}
          /\ Grace \in Nat
      BY <2>1, BoundsAssumption, BudgetAssumption
      DEF TypeOK, CallStates, Entries, Times
    <3>4. CASE entry[p].used \in {Never, call[c].listed[p].used}
      BY <3>2, <3>3, <3>4 DEF Never
    <3>5. CASE call[c].since <= entry[p].used
      BY <3>1, <3>3, <3>5
    <3> QED BY <3>2, <3>4, <3>5
  <2> QED BY <1>2, <2>2, <2>3 DEF Next, Stage, Crash, Tick
<1>3. IInv /\ GraceInv /\ [Next]_vars => [\A p \in handed : Late(p)]_vars
  BY <1>2
<1> HIDE DEF Late
<1>4. Spec => [][\A p \in handed : Late(p)]_vars
  BY <1>1, <1>3, Invariant, PTL DEF Spec
<1> QED BY <1>4 DEF GraceHoldsUntilListed, Late
=============================================================================
