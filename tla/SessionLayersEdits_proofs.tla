--------------------- MODULE SessionLayersEdits_proofs ---------------------
(***************************************************************************)
(* Theorems about three of the tools on a package.  A session of the         *)
(* language server, for any requests, any bounds and any notices of the      *)
(* editor: a request is answered at most once, and a read sees the edits     *)
(* that were sent before it and no others.  Loading a package that extends   *)
(* others, for any worlds: no overlay changes what its bases declare without *)
(* a grant, and in a chain the topmost layer wins, field by field.  The edit *)
(* engine, for any package trees and any names: a batch means its operations *)
(* one by one, and its records name every file that its plan touches.        *)
(***************************************************************************)
EXTENDS LanguageServer, PackageLayers, EditEngine, SequenceTheorems, TLAPS

\* Ids of requests are the editor's, beside the two of the protocol; texts are
\* numbered.
SessionAssumption ==
    /\ "initialize" \notin Requests /\ "shutdown" \notin Requests
    /\ NoBuffer \notin Nat

-----------------------------------------------------------------------------
(* Messages.                                                                *)

Asking ==
    [kind : {"request"}, id : Requests, method : {"read", "unknown"}]
        \cup {Request("initialize", "initialize"), Request("shutdown", "shutdown")}
Telling ==
    [kind : {"notice"}, malformed : BOOLEAN,
     method : {"initialized", "didSave", "didClose", "exit"}]
        \cup [kind : {"notice"}, malformed : {FALSE}, method : {"didOpen"}, text : Nat]
        \cup [kind : {"notice"}, malformed : {FALSE}, method : {"didChange"},
              changes : Seq([ranged : Ranged, from : Nat, to : Nat])]
Cancelling == [kind : {"cancel"}, id : Requests]
Messages == Asking \cup Telling \cup Cancelling

Asks(message, r) == message.kind = "request" /\ message.id = r
Waits(s, r) == \E i \in DOMAIN s : Asks(s[i], r)
Once(s, r) == \A i, j \in DOMAIN s : Asks(s[i], r) /\ Asks(s[j], r) => i = j

\* What each kind of message names.
LEMMA Kinds ==
    ASSUME NEW x \in Messages
    PROVE  /\ x.kind = "cancel" => x.id \in Requests
           /\ x.kind = "request" =>
                /\ x.method \in {"read", "unknown"} => x.id \in Requests
                /\ x.method = "initialize" => x.id = "initialize"
<1>1. CASE x \in Asking
  BY <1>1 DEF Asking, Request
<1>2. CASE x \in Telling
  <2>1. x.kind = "notice"
    BY <1>2 DEF Telling
  <2> QED
    BY <2>1
<1>3. CASE x \in Cancelling
  BY <1>3 DEF Cancelling
<1> QED
  BY <1>1, <1>2, <1>3 DEF Messages

\* A message that comes last.
LEMMA Arrives ==
    ASSUME NEW S, NEW s \in Seq(S), NEW message \in S, NEW r
    PROVE  /\ Append(s, message) \in Seq(S)
           /\ Waits(Append(s, message), r) <=> (Waits(s, r) \/ Asks(message, r))
           /\ Once(s, r) /\ ~(Waits(s, r) /\ Asks(message, r)) => Once(Append(s, message), r)
<1> DEFINE t == Append(s, message)
<1>1. /\ t \in Seq(S) /\ DOMAIN s = 1..Len(s) /\ DOMAIN t = 1..Len(s) + 1 /\ Len(s) \in Nat
      /\ t[Len(s) + 1] = message
      /\ \A i \in DOMAIN s : t[i] = s[i]
  OBVIOUS
<1> HIDE DEF t
<1>2. Waits(t, r) <=> (Waits(s, r) \/ Asks(message, r))
  <2>1. \A i \in DOMAIN t : i \in DOMAIN s \/ i = Len(s) + 1
    BY <1>1
  <2>2. DOMAIN s \subseteq DOMAIN t /\ Len(s) + 1 \in DOMAIN t
    BY <1>1
  <2> QED
    BY <1>1, <2>1, <2>2 DEF Waits
<1>3. ASSUME Once(s, r), ~(Waits(s, r) /\ Asks(message, r)) PROVE Once(t, r)
  <2>1. \A i \in DOMAIN t : i \in DOMAIN s \/ i = Len(s) + 1
    BY <1>1
  <2> QED
    BY <1>1, <1>3, <2>1 DEF Once, Waits
<1> QED
  BY <1>1, <1>2, <1>3 DEF t

\* The message that came first leaves.
LEMMA Departs ==
    ASSUME NEW S, NEW s \in Seq(S), s # << >>, NEW r
    PROVE  /\ Head(s) \in S /\ Tail(s) \in Seq(S)
           /\ Waits(Tail(s), r) => Waits(s, r)
           /\ Asks(Head(s), r) => Waits(s, r)
           /\ Once(s, r) => Once(Tail(s), r)
           /\ Once(s, r) /\ Asks(Head(s), r) => ~Waits(Tail(s), r)
           /\ \A i \in DOMAIN Tail(s) : i + 1 \in DOMAIN s /\ Tail(s)[i] = s[i + 1]
<1> DEFINE t == Tail(s)
<1>1. /\ Head(s) \in S /\ t \in Seq(S) /\ Head(s) = s[1] /\ 1 \in DOMAIN s
      /\ \A i \in DOMAIN t : i \in Nat \ {0} /\ i + 1 \in DOMAIN s /\ t[i] = s[i + 1]
  OBVIOUS
<1> HIDE DEF t
<1>2. (Waits(t, r) => Waits(s, r)) /\ (Asks(Head(s), r) => Waits(s, r))
  BY <1>1 DEF Waits
<1>3. Once(s, r) => Once(t, r)
  BY <1>1 DEF Once
<1>4. Once(s, r) /\ Asks(Head(s), r) => ~Waits(t, r)
  BY <1>1 DEF Once, Waits
<1> QED
  BY <1>1, <1>2, <1>3, <1>4 DEF t

-----------------------------------------------------------------------------
(* The invariant.                                                           *)

Editors ==
    [open : BOOLEAN, text : Nat, notices : Nat, cancels : SUBSET Requests,
     started : BOOLEAN, leaving : BOOLEAN]

Typed ==
    /\ editor \in Editors
    /\ disk \in Nat
    /\ wire \in Seq(Messages) /\ queue \in Seq(Messages)
    /\ DOMAIN asked = Requests /\ asked = [r \in Requests |-> asked[r]]
    /\ DOMAIN answers = Requests \cup {"initialize"}
    /\ answers = [r \in DOMAIN answers |-> answers[r]]
    /\ work = [t \in DOMAIN work |-> work[t]]
    /\ \A t \in DOMAIN work : {"stage", "cancelled", "outcome"} \subseteq DOMAIN work[t]

\* Whatever is kept of a cancellation is of one that the editor has made.
CancelsAreAsked ==
    /\ cancellations \subseteq editor.cancels
    /\ \A i \in DOMAIN wire : wire[i].kind = "cancel" => wire[i].id \in editor.cancels

\* A request is on its way, or in the queue, or running, or answered: never two.
OnePlace(r) ==
    /\ Once(wire, r) /\ Once(queue, r) /\ ~(Waits(wire, r) /\ Waits(queue, r))
    /\ Waits(wire, r) \/ Waits(queue, r) =>
         asked[r] # Unasked /\ answers[r] = << >> /\ Read(r) \notin DOMAIN work
    /\ Read(r) \in DOMAIN work =>
         /\ asked[r] # Unasked
         /\ work[Read(r)].stage # "gone" => answers[r] = << >>
         /\ work[Read(r)].cancelled \/ work[Read(r)].outcome = Outcome("cancelled") =>
              r \in editor.cancels
    /\ r \in inflight => Read(r) \in DOMAIN work
    /\ answers[r] # << >> =>
         /\ asked[r] # Unasked /\ answers[r] = <<answers[r][1]>>
         /\ answers[r][1] = Outcome("cancelled") => r \in editor.cancels

SessionInv == Typed /\ CancelsAreAsked /\ \A r \in Requests : OnePlace(r)

\* It says what is promised.
LEMMA InvariantImplies == SessionInv => OneAnswer
<1> SUFFICES ASSUME SessionInv, NEW r \in Requests
             PROVE  /\ Len(answers[r]) <= 1
                    /\ answers[r] # << >> => asked[r] # Unasked
                    /\ Outcome("cancelled") \in Range(answers[r]) => r \in editor.cancels
  BY DEF OneAnswer
<1>1. OnePlace(r)
  BY DEF SessionInv
<1>2. CASE answers[r] = << >>
  BY <1>2 DEF Range
<1>3. CASE answers[r] # << >>
  <2>1. PICK o : answers[r] = <<o>> /\ (o = Outcome("cancelled") => r \in editor.cancels)
    BY <1>1, <1>3 DEF OnePlace
  <2>2. Len(answers[r]) = 1 /\ Range(answers[r]) = {o}
    BY <2>1 DEF Range
  <2> QED
    BY <1>1, <1>3, <2>1, <2>2 DEF OnePlace
<1> QED
  BY <1>2, <1>3

\* A session begins with nothing asked.
LEMMA InitInvariant == ASSUME SessionAssumption, SessionInit PROVE SessionInv
<1>1. wire = <<Request("initialize", "initialize")>> /\ queue = << >>
  BY DEF SessionInit
<1>2. Typed
  BY DEF SessionInit, Typed, Editors, Messages, Asking
<1>3. \A r \in Requests : ~Waits(wire, r) /\ ~Waits(queue, r) /\ Once(wire, r) /\ Once(queue, r)
  BY <1>1 DEF Waits, Once, Asks, Request, SessionAssumption
<1>4. CancelsAreAsked
  BY <1>1 DEF SessionInit, CancelsAreAsked, Request
<1> QED
  BY <1>2, <1>3, <1>4 DEF SessionInit, SessionInv, OnePlace

-----------------------------------------------------------------------------
(* The editor.                                                              *)

\* A message is sent.
LEMMA Notified ==
    ASSUME SessionInv, NEW message \in Messages, Notify(message), Typed',
           editor.cancels \subseteq editor'.cancels,
           message.kind = "cancel" => message.id \in editor'.cancels,
           \A r \in Requests :
               /\ asked[r] # Unasked => asked'[r] # Unasked
               /\ Asks(message, r) => asked[r] = Unasked /\ asked'[r] # Unasked,
           UNCHANGED <<queue, cancellations, inflight, taskVars>>
    PROVE  SessionInv'
<1>1. wire' = Append(wire, message) /\ wire \in Seq(Messages)
  BY DEF Notify, SessionInv, Typed
<1>2. UNCHANGED <<queue, cancellations, inflight, work, answers>>
  BY DEF taskVars
<1>3. ASSUME NEW r \in Requests PROVE OnePlace(r)'
  <2>1. OnePlace(r)
    BY DEF SessionInv
  <2>2. /\ Waits(wire', r) <=> (Waits(wire, r) \/ Asks(message, r))
        /\ Once(wire, r) /\ ~(Waits(wire, r) /\ Asks(message, r)) => Once(wire', r)
    BY <1>1, Arrives
  <2>3. Asks(message, r) => /\ ~Waits(wire, r) /\ ~Waits(queue, r) /\ answers[r] = << >>
                            /\ Read(r) \notin DOMAIN work
    BY <2>1 DEF OnePlace
  <2> QED
    BY <1>2, <2>1, <2>2, <2>3 DEF OnePlace
<1>4. CancelsAreAsked'
  <2>1. \A i \in DOMAIN wire' : (i \in DOMAIN wire /\ wire'[i] = wire[i]) \/ wire'[i] = message
    BY <1>1
  <2> QED
    BY <1>2, <2>1 DEF SessionInv, CancelsAreAsked
<1> QED
  BY <1>3, <1>4 DEF SessionInv

\* The editor leaves: by two messages, or by none.
LEMMA Leaves ==
    ASSUME wire \in Seq(Messages), NEW farewell \in Farewells, wire' = wire \o farewell
    PROVE  \/ wire' = wire
           \/ wire' = Append(Append(wire, Request("shutdown", "shutdown")), Notice("exit"))
<1> DEFINE bye == Request("shutdown", "shutdown")
           out == Notice("exit")
<1>1. bye \in Messages /\ out \in Messages
  BY DEF Request, Notice, Messages, Asking, Telling
<1>2. wire' = wire \o farewell /\ farewell \in {<<bye, out>>, << >>}
  BY DEF Farewells
<1> HIDE DEF bye, out
<1>3. wire \o << >> = wire
  OBVIOUS
<1>4. wire \o <<bye, out>> = Append(Append(wire, bye), out)
  <2>1. <<bye, out>> \in Seq(Messages) /\ Len(<<bye, out>>) = 2
    BY <1>1
  <2>2. /\ wire \o <<bye, out>> \in Seq(Messages)
        /\ Len(wire \o <<bye, out>>) = Len(wire) + 2
        /\ \A i \in 1..Len(wire) + 2 : (wire \o <<bye, out>>)[i] =
               IF i <= Len(wire) THEN wire[i] ELSE <<bye, out>>[i - Len(wire)]
    BY <2>1, ConcatProperties
  <2>3. /\ Append(wire, bye) \in Seq(Messages) /\ Len(Append(wire, bye)) = Len(wire) + 1
        /\ \A i \in 1..Len(wire) : Append(wire, bye)[i] = wire[i]
        /\ Append(wire, bye)[Len(wire) + 1] = bye
    BY <1>1
  <2>4. /\ Append(Append(wire, bye), out) \in Seq(Messages)
        /\ Len(Append(Append(wire, bye), out)) = Len(wire) + 2
        /\ \A i \in 1..Len(wire) + 1 : Append(Append(wire, bye), out)[i] = Append(wire, bye)[i]
        /\ Append(Append(wire, bye), out)[Len(wire) + 2] = out
    BY <1>1, <2>3
  <2>5. \A i \in 1..Len(wire) + 2 : (wire \o <<bye, out>>)[i] = Append(Append(wire, bye), out)[i]
    BY <2>2, <2>3, <2>4
  <2> QED
    BY <2>2, <2>4, <2>5, SeqEqual
<1> QED
  BY <1>2, <1>3, <1>4 DEF bye, out

\* What the editor tells, asks and cancels.
LEMMA EditorKeeps == ASSUME SessionAssumption, SessionInv, EditorStep PROVE SessionInv'
<1>1. ASSUME NEW message \in Telling, NEW fields \in Editors, fields.cancels = editor.cancels,
             Told(message, fields), disk' \in Nat
      PROVE  SessionInv'
  <2>1. message \in Messages /\ message.kind = "notice"
    BY <1>1 DEF Messages, Telling
  <2>2. /\ Notify(message) /\ UNCHANGED <<asked, queue, cancellations, inflight, taskVars>>
        /\ editor' = [fields EXCEPT !.notices = @ + 1]
    BY <1>1 DEF Told
  <2>3. wire' \in Seq(Messages)
    BY <2>1, <2>2 DEF Notify, SessionInv, Typed
  <2>4. editor' \in Editors /\ editor'.cancels = editor.cancels
    BY <1>1, <2>2 DEF Editors
  <2>5. Typed'
    BY <1>1, <2>2, <2>3, <2>4 DEF SessionInv, Typed, taskVars
  <2>6. \A r : ~Asks(message, r)
    BY <2>1 DEF Asks
  <2> QED
    BY <2>1, <2>2, <2>4, <2>5, <2>6, Notified
<1>2. editor \in Editors /\ disk \in Nat /\ wire \in Seq(Messages)
  BY DEF SessionInv, Typed
<1>3. CASE EditorStarts
  <2>1. /\ Notice("initialized") \in Messages /\ Notice("initialized").kind = "notice"
        /\ Notify(Notice("initialized"))
    BY <1>3 DEF EditorStarts, Notice, Messages, Telling
  <2>2. /\ UNCHANGED <<disk, asked, queue, cancellations, inflight, taskVars>>
        /\ editor' = [editor EXCEPT !.started = TRUE]
    BY <1>3 DEF EditorStarts
  <2>3. wire' \in Seq(Messages)
    BY <1>2, <2>1 DEF Notify
  <2>4. editor' \in Editors /\ editor'.cancels = editor.cancels
    BY <1>2, <2>2 DEF Editors
  <2>5. Typed'
    BY <2>2, <2>3, <2>4 DEF SessionInv, Typed, taskVars
  <2>6. \A r : ~Asks(Notice("initialized"), r)
    BY <2>1 DEF Asks
  <2> QED
    BY <2>1, <2>2, <2>4, <2>5, <2>6, Notified
<1>4. CASE EditorOpens
  <2>1. [kind |-> "notice", method |-> "didOpen", malformed |-> FALSE, text |-> disk] \in Telling
    BY <1>2 DEF Telling
  <2>2. /\ [editor EXCEPT !.open = TRUE, !.text = disk] \in Editors
        /\ [editor EXCEPT !.open = TRUE, !.text = disk].cancels = editor.cancels
    BY <1>2 DEF Editors
  <2> QED
    BY <1>1, <1>2, <1>4, <2>1, <2>2 DEF EditorOpens
<1>5. ASSUME NEW ranged \in Ranged, NEW times \in 1..2, EditorChanges(ranged, times) PROVE SessionInv'
  <2> DEFINE change(i) == [ranged |-> ranged, from |-> editor.text + i - 1, to |-> editor.text + i]
             message == [kind |-> "notice", method |-> "didChange", malformed |-> FALSE,
                         changes |-> [i \in 1..times |-> change(i)]]
             fields == [editor EXCEPT !.text = @ + times]
  <2>1. \A i \in 1..times : change(i) \in [ranged : Ranged, from : Nat, to : Nat]
    BY <1>2 DEF Editors
  <2>2. [i \in 1..times |-> change(i)] \in Seq([ranged : Ranged, from : Nat, to : Nat])
    BY <2>1
  <2>3. message \in Telling
    BY <2>2 DEF Telling
  <2>4. Told(message, fields) /\ UNCHANGED disk
    BY <1>5 DEF EditorChanges
  <2>5. fields \in Editors /\ fields.cancels = editor.cancels
    BY <1>2 DEF Editors
  <2> HIDE DEF message, fields
  <2> QED
    BY <1>1, <1>2, <2>3, <2>4, <2>5
<1>6. CASE EditorSaves
  <2>1. Notice("didSave") \in Telling /\ editor.text \in Nat
    BY <1>2 DEF Notice, Telling, Editors
  <2> QED
    BY <1>1, <1>2, <1>6, <2>1 DEF EditorSaves
<1>7. CASE EditorCloses
  <2>1. Notice("didClose") \in Telling
    BY DEF Notice, Telling
  <2>2. [editor EXCEPT !.open = FALSE] \in Editors /\ [editor EXCEPT !.open = FALSE].cancels = editor.cancels
    BY <1>2 DEF Editors
  <2> QED
    BY <1>1, <1>2, <1>7, <2>1, <2>2 DEF EditorCloses
<1>8. CASE EditorMistakes
  <2>1. [Notice("didSave") EXCEPT !.malformed = TRUE] \in Telling
    BY DEF Notice, Telling
  <2> QED
    BY <1>1, <1>2, <1>8, <2>1 DEF EditorMistakes
<1>9. ASSUME NEW r \in Requests, NEW method \in {"read", "unknown"}, EditorAsks(r, method) PROVE SessionInv'
  <2>1. /\ Notify(Request(r, method)) /\ Request(r, method) \in Messages
        /\ Request(r, method).kind = "request"
    BY <1>9 DEF EditorAsks, Request, Messages, Asking
  <2>2. \A q : Asks(Request(r, method), q) => q = r
    BY DEF Asks, Request
  <2>3. PICK text : asked' = [asked EXCEPT ![r] = [disk |-> disk, text |-> text]]
    BY <1>9 DEF EditorAsks
  <2>4. asked[r] = Unasked /\ asked'[r] # Unasked /\ \A q \in Requests \ {r} : asked'[q] = asked[q]
    BY <1>2, <1>9, <2>3 DEF EditorAsks, Unasked, SessionAssumption, SessionInv, Typed
  <2>5. wire' \in Seq(Messages)
    BY <1>2, <2>1 DEF Notify
  <2>6. UNCHANGED <<editor, disk, queue, cancellations, inflight, taskVars>>
    BY <1>9 DEF EditorAsks
  <2>7. DOMAIN asked = Requests /\ asked = [q \in Requests |-> asked[q]]
    BY DEF SessionInv, Typed
  <2>8. DOMAIN asked' = Requests /\ asked' = [q \in Requests |-> asked'[q]]
    BY <2>3, <2>7
  <2>9. Typed'
    BY <2>5, <2>6, <2>8 DEF SessionInv, Typed, taskVars
  <2> QED
    BY <2>1, <2>2, <2>4, <2>6, <2>9, Notified
<1>10. ASSUME NEW r \in Requests, EditorCancels(r) PROVE SessionInv'
  <2> DEFINE message == [kind |-> "cancel", id |-> r]
  <2>1. message \in Messages /\ Notify(message) /\ message.kind = "cancel"
        /\ message.id = r
    BY <1>10 DEF EditorCancels, Messages, Cancelling
  <2>2. \A q : ~Asks(message, q)
    BY DEF Asks
  <2> HIDE DEF message
  <2>3. /\ editor' = [editor EXCEPT !.cancels = @ \cup {r}]
        /\ UNCHANGED <<disk, asked, queue, cancellations, inflight, taskVars>>
    BY <1>10 DEF EditorCancels
  <2>4. wire' \in Seq(Messages)
    BY <1>2, <2>1 DEF Notify
  <2>5. /\ editor.cancels \subseteq editor'.cancels /\ r \in editor'.cancels
        /\ editor' \in Editors
    BY <1>2, <2>3 DEF Editors
  <2>6. Typed'
    BY <2>3, <2>4, <2>5 DEF SessionInv, Typed, taskVars
  <2> QED
    BY <2>1, <2>2, <2>3, <2>5, <2>6, Notified
<1>11. ASSUME NEW farewell \in Farewells, EditorLeaves(farewell) PROVE SessionInv'
  <2> DEFINE bye == Request("shutdown", "shutdown")
             out == Notice("exit")
  <2>1. bye \in Messages /\ bye.kind = "request" /\ bye.id = "shutdown"
    BY DEF Request, Messages, Asking
  <2>2. out \in Messages /\ out.kind = "notice"
    BY DEF Notice, Messages, Telling
  <2> HIDE DEF bye, out
  <2>3. wire' = wire \/ wire' = Append(Append(wire, bye), out)
    BY <1>2, <1>11, Leaves DEF EditorLeaves, bye, out
  <2>4. /\ wire' \in Seq(Messages)
        /\ \A r \in Requests : (Waits(wire', r) <=> Waits(wire, r)) /\ (Once(wire, r) => Once(wire', r))
    <3>1. Append(wire, bye) \in Seq(Messages)
      BY <1>2, <2>1
    <3>2. ASSUME NEW r \in Requests
          PROVE  (Waits(wire', r) <=> Waits(wire, r)) /\ (Once(wire, r) => Once(wire', r))
      <4>1. ~Asks(bye, r) /\ ~Asks(out, r)
        BY <2>1, <2>2 DEF Asks, SessionAssumption
      <4>2. /\ Waits(Append(wire, bye), r) <=> Waits(wire, r)
            /\ Once(wire, r) => Once(Append(wire, bye), r)
        BY <1>2, <2>1, <4>1, Arrives
      <4>3. /\ Waits(Append(Append(wire, bye), out), r) <=> Waits(Append(wire, bye), r)
            /\ Once(Append(wire, bye), r) => Once(Append(Append(wire, bye), out), r)
        BY <2>2, <3>1, <4>1, Arrives
      <4> QED
        BY <2>3, <4>2, <4>3
    <3> QED
      BY <1>2, <2>2, <2>3, <3>1, <3>2
  <2>5. /\ UNCHANGED <<disk, asked, queue, cancellations, inflight, work, answers>>
        /\ editor'.cancels = editor.cancels
        /\ editor' \in Editors
    BY <1>2, <1>11 DEF EditorLeaves, taskVars, Editors
  <2>6. \A i \in DOMAIN wire' : wire'[i].kind = "cancel" => wire'[i].id \in editor.cancels
    <3>1. \A i \in DOMAIN wire : wire[i].kind = "cancel" => wire[i].id \in editor.cancels
      BY DEF SessionInv, CancelsAreAsked
    <3>2. \A i \in DOMAIN wire' : \/ i \in DOMAIN wire /\ wire'[i] = wire[i]
                                  \/ wire'[i] = bye \/ wire'[i] = out
      <4>1. CASE wire' = Append(Append(wire, bye), out)
        <5>1. /\ Append(wire, bye) \in Seq(Messages) /\ Len(Append(wire, bye)) = Len(wire) + 1
              /\ \A i \in DOMAIN Append(wire, bye) :
                   \/ i \in DOMAIN wire /\ Append(wire, bye)[i] = wire[i]
                   \/ Append(wire, bye)[i] = bye
          BY <1>2, <2>1
        <5>2. \A i \in DOMAIN wire' :
                 \/ i \in DOMAIN Append(wire, bye) /\ wire'[i] = Append(wire, bye)[i]
                 \/ wire'[i] = out
          BY <2>2, <4>1, <5>1
        <5> QED
          BY <5>1, <5>2
      <4> QED
        BY <2>3, <4>1
    <3> QED
      BY <2>1, <2>2, <3>1, <3>2
  <2>7. Typed' /\ CancelsAreAsked'
    BY <2>4, <2>5, <2>6 DEF SessionInv, Typed, CancelsAreAsked
  <2>8. ASSUME NEW r \in Requests PROVE OnePlace(r)'
    BY <2>4, <2>5 DEF SessionInv, OnePlace
  <2> QED
    BY <2>7, <2>8 DEF SessionInv
<1> QED
  BY <1>3, <1>4, <1>5, <1>6, <1>7, <1>8, <1>9, <1>10, <1>11 DEF EditorStep

-----------------------------------------------------------------------------
(* The loop and the tasks.                                                  *)

\* A task that the loop has handed over, whatever it captured.
LEMMA Spawned ==
    ASSUME Typed, NEW t, NEW stage, NEW session, Spawn(t, Task(stage, session))
    PROVE  /\ DOMAIN work' = DOMAIN work \cup {t}
           /\ work' = [u \in DOMAIN work' |-> work'[u]]
           /\ \A u \in DOMAIN work \ {t} : work'[u] = work[u]
           /\ work'[t].stage = stage /\ work'[t].cancelled = FALSE
           /\ work'[t].outcome = Outcome("none")
           /\ \A u \in DOMAIN work' : {"stage", "cancelled", "outcome"} \subseteq DOMAIN work'[u]
<1> DEFINE task == Task(stage, session)
<1>1. /\ task.stage = stage /\ task.cancelled = FALSE /\ task.outcome = Outcome("none")
      /\ {"stage", "cancelled", "outcome"} \subseteq DOMAIN task
  BY DEF Task
<1> HIDE DEF task
<1>2. work' = [u \in DOMAIN work \cup {t} |-> IF u = t THEN task ELSE work[u]]
  BY DEF Spawn, task
<1>3. \A u \in DOMAIN work : {"stage", "cancelled", "outcome"} \subseteq DOMAIN work[u]
  BY DEF Typed
<1> QED
  BY <1>1, <1>2, <1>3

\* A task that goes on to another stage.
LEMMA Moved ==
    ASSUME Typed, NEW t \in DOMAIN work, NEW stage, NEW outcome, Moves(t, stage, outcome)
    PROVE  /\ DOMAIN work' = DOMAIN work
           /\ work' = [u \in DOMAIN work' |-> work'[u]]
           /\ \A u \in DOMAIN work \ {t} : work'[u] = work[u]
           /\ work'[t].stage = stage /\ work'[t].outcome = outcome
           /\ work'[t].cancelled = work[t].cancelled
           /\ \A u \in DOMAIN work' : {"stage", "cancelled", "outcome"} \subseteq DOMAIN work'[u]
<1>1. /\ work = [u \in DOMAIN work |-> work[u]]
      /\ \A u \in DOMAIN work : {"stage", "cancelled", "outcome"} \subseteq DOMAIN work[u]
  BY DEF Typed
<1>2. work' = [work EXCEPT ![t] = [[work[t] EXCEPT !.stage = stage] EXCEPT !.outcome = outcome]]
  BY <1>1 DEF Moves
<1> DEFINE one == [work[t] EXCEPT !.stage = stage]
           two == [one EXCEPT !.outcome = outcome]
<1>3. /\ DOMAIN one = DOMAIN work[t] /\ one.stage = stage /\ one.cancelled = work[t].cancelled
  BY <1>1
<1> HIDE DEF one
<1>4. /\ DOMAIN two = DOMAIN work[t] /\ two.outcome = outcome /\ two.stage = stage
      /\ two.cancelled = work[t].cancelled
  BY <1>1, <1>3
<1>5. work' = [work EXCEPT ![t] = two]
  BY <1>2 DEF one
<1> HIDE DEF two
<1> QED
  BY <1>1, <1>4, <1>5

\* A task that is over.
LEMMA Ended ==
    ASSUME Typed, NEW t \in DOMAIN work, NEW outcome, Ends(t, outcome)
    PROVE  /\ DOMAIN work' = DOMAIN work
           /\ work' = [u \in DOMAIN work' |-> work'[u]]
           /\ \A u \in DOMAIN work \ {t} : work'[u] = work[u]
           /\ work'[t].stage = "gone" /\ work'[t].outcome = outcome /\ work'[t].cancelled = FALSE
           /\ \A u \in DOMAIN work' : {"stage", "cancelled", "outcome"} \subseteq DOMAIN work'[u]
<1>1. /\ work = [u \in DOMAIN work |-> work[u]]
      /\ \A u \in DOMAIN work : {"stage", "cancelled", "outcome"} \subseteq DOMAIN work[u]
  BY DEF Typed
<1> DEFINE over == [Task("gone", [server EXCEPT !.root = FALSE, !.overlay = NoBuffer, !.revision = 0])
                       EXCEPT !.outcome = outcome]
<1>2. /\ over.stage = "gone" /\ over.outcome = outcome /\ over.cancelled = FALSE
      /\ {"stage", "cancelled", "outcome"} \subseteq DOMAIN over
  BY DEF Task
<1>3. work' = [work EXCEPT ![t] = over]
  BY DEF Ends
<1> HIDE DEF over
<1> QED
  BY <1>1, <1>2, <1>3

\* Reads and passes are different tasks.
LEMMA Apart == \A r, g, q : Read(r) # Pass(g) /\ (Read(r) = Read(q) => r = q)
BY DEF Read, Pass

\* The tasks as a step leaves them when it answers nobody.
WorkKeeps ==
    /\ work' = [t \in DOMAIN work' |-> work'[t]]
    /\ \A t \in DOMAIN work' : {"stage", "cancelled", "outcome"} \subseteq DOMAIN work'[t]
    /\ \A r \in Requests : LET t == Read(r) IN
         /\ t \in DOMAIN work' <=> t \in DOMAIN work
         /\ t \in DOMAIN work =>
              /\ work'[t].stage # "gone" => work[t].stage # "gone"
              /\ work'[t].cancelled \/ work'[t].outcome = Outcome("cancelled") =>
                   r \in editor.cancels

\* A step that answers nobody, whether or not it takes a message from the queue.
LEMMA Quiet ==
    ASSUME SessionInv, WorkKeeps, UNCHANGED <<clientVars, wire, cancellations, inflight, answers>>,
           queue' = queue \/ (queue # << >> /\ queue' = Tail(queue))
    PROVE  SessionInv'
<1>1. UNCHANGED <<editor, disk, asked>>
  BY DEF clientVars
<1>2. queue \in Seq(Messages)
  BY DEF SessionInv, Typed
<1>3. queue' \in Seq(Messages)
  BY <1>2, Departs
<1>4. Typed' /\ CancelsAreAsked'
  BY <1>1, <1>3 DEF SessionInv, Typed, CancelsAreAsked, WorkKeeps
<1>5. ASSUME NEW r \in Requests PROVE OnePlace(r)'
  <2>1. (Waits(queue', r) => Waits(queue, r)) /\ (Once(queue, r) => Once(queue', r))
    <3>1. CASE queue' = queue
      BY <3>1
    <3>2. CASE queue # << >> /\ queue' = Tail(queue)
      <4>1. /\ Waits(Tail(queue), r) => Waits(queue, r)
            /\ Once(queue, r) => Once(Tail(queue), r)
        BY <1>2, <3>2, Departs
      <4> QED
        BY <3>2, <4>1
    <3> QED
      BY <3>1, <3>2
  <2> QED
    BY <1>1, <2>1 DEF SessionInv, OnePlace, WorkKeeps
<1> QED
  BY <1>4, <1>5 DEF SessionInv

\* What has been kept of the running reads.
LEMMA ReadsKept ==
    ASSUME SessionInv, NEW r \in Requests, Read(r) \in DOMAIN work
    PROVE  work[Read(r)].cancelled \/ work[Read(r)].outcome = Outcome("cancelled") =>
               r \in editor.cancels
BY DEF SessionInv, OnePlace

\* A task moves, or is over, and answers nobody; a read does not end so.
LEMMA TaskKeeps ==
    ASSUME SessionInv, NEW t \in DOMAIN work, work[t].stage # "gone",
           UNCHANGED <<clientVars, wire, queue, cancellations, inflight, answers>>,
           \/ \E stage, outcome : /\ Moves(t, stage, outcome)
                                  /\ outcome = Outcome("cancelled") =>
                                       work[t].cancelled \/ work[t].outcome = outcome
           \/ ~IsRead(t) /\ \E outcome : Ends(t, outcome)
    PROVE  SessionInv'
<1>0. Typed
  BY DEF SessionInv
<1>1. CASE \E stage, outcome : /\ Moves(t, stage, outcome)
                               /\ outcome = Outcome("cancelled") =>
                                    work[t].cancelled \/ work[t].outcome = outcome
  <2>1. PICK stage, outcome : /\ Moves(t, stage, outcome)
                              /\ outcome = Outcome("cancelled") =>
                                   work[t].cancelled \/ work[t].outcome = outcome
    BY <1>1
  <2>2. WorkKeeps
    BY <1>0, <2>1, Moved, ReadsKept DEF WorkKeeps
  <2> QED
    BY <2>2, Quiet
<1>2. CASE ~IsRead(t) /\ \E outcome : Ends(t, outcome)
  <2>1. \A r : Read(r) # t
    BY <1>2 DEF IsRead, Read
  <2>2. WorkKeeps
    BY <1>0, <1>2, <2>1, Ended, ReadsKept DEF WorkKeeps
  <2> QED
    BY <2>2, Quiet
<1> QED
  BY <1>1, <1>2

\* Building and taking snapshots.
LEMMA SnapshotKeeps == ASSUME SessionInv, NEW t, SnapshotStep(t) PROVE SessionInv'
<1>1. ASSUME NEW from, Step(t, from), from # "gone" PROVE t \in DOMAIN work /\ work[t].stage # "gone"
  BY <1>1 DEF Step, Tasks
<1>2. \A text : Of(text) # Outcome("cancelled") 
  BY DEF Of, Outcome
<1>3. Outcome("error") # Outcome("cancelled") /\ Outcome("none") # Outcome("cancelled")
  BY DEF Outcome
<1>4. t \in DOMAIN work /\ work[t].stage # "gone"
  BY <1>1 DEF SnapshotStep, Rootless, TakesCached, StartsBuild, EndsBuild, FailsBuild
<1>5. UNCHANGED <<clientVars, wire, queue, cancellations, inflight, answers>>
  BY DEF SnapshotStep, Rootless, TakesCached, StartsBuild, EndsBuild, FailsBuild, Rests, loopVars
<1>6. ASSUME NotBuilt(t) PROVE SessionInv'
  BY <1>3, <1>4, <1>5, <1>6, TaskKeeps DEF NotBuilt
<1>7. ASSUME NEW text, Built(t, text) PROVE SessionInv'
  BY <1>2, <1>4, <1>5, <1>7, TaskKeeps DEF Built
<1>8. ASSUME Moves(t, "building", Outcome("none")) PROVE SessionInv'
  BY <1>3, <1>4, <1>5, <1>8, TaskKeeps
<1> QED
  BY <1>6, <1>7, <1>8 DEF SnapshotStep, Rootless, TakesCached, StartsBuild, EndsBuild, FailsBuild

\* The passes answer nobody.
LEMMA PassKeeps == ASSUME SessionInv, NEW g, PassStep(g) PROVE SessionInv'
<1>1. CASE SnapshotStep(Pass(g))
  BY <1>1, SnapshotKeeps
<1>2. CASE Wakes(g) \/ Rechecks(g) \/ ClaimsTurn(g) \/ Publishes(g)
  <2>1. Pass(g) \in DOMAIN work /\ work[Pass(g)].stage # "gone" /\ ~IsRead(Pass(g))
    BY <1>2 DEF Wakes, Rechecks, ClaimsTurn, Publishes, Step, Tasks, IsRead, Pass
  <2>2. UNCHANGED <<clientVars, wire, queue, cancellations, inflight, answers>>
    BY <1>2 DEF Wakes, Rechecks, ClaimsTurn, Publishes, Rests, loopVars
  <2>3. \/ \E outcome : Ends(Pass(g), outcome)
        \/ \E stage : \/ Moves(Pass(g), stage, Outcome("none"))
                      \/ Moves(Pass(g), stage, work[Pass(g)].outcome)
    BY <1>2 DEF Wakes, Rechecks, ClaimsTurn, Publishes
  <2>4. Outcome("none") # Outcome("cancelled")
    BY DEF Outcome
  <2> QED
    BY <2>1, <2>2, <2>3, <2>4, TaskKeeps
<1> QED
  BY <1>1, <1>2 DEF PassStep

\* A message that is not for a request, or a request that spawns nothing.
LEMMA SessionKeeps ==
    ASSUME SessionInv,
           \/ HandleShutdown \/ HandleInitialized \/ HandleDocument \/ HandleExit \/ EndOfInput
    PROVE  SessionInv'
<1>1. UNCHANGED <<clientVars, wire, cancellations, inflight, answers>>
  BY DEF HandleShutdown, HandleInitialized, HandleDocument, HandleExit, EndOfInput, Dispatched,
     Schedule, taskVars
<1>2. queue' = queue \/ (queue # << >> /\ queue' = Tail(queue))
  BY DEF HandleShutdown, HandleInitialized, HandleDocument, HandleExit, EndOfInput, Dispatched
<1>3. work' = work \/ \E session, g : Spawn(Pass(g), Task("sleeping", session))
  BY DEF HandleShutdown, HandleInitialized, HandleDocument, HandleExit, EndOfInput, Schedule,
     taskVars
<1>4. WorkKeeps
  <2>1. CASE work' = work
    BY <2>1, ReadsKept DEF WorkKeeps, SessionInv, Typed
  <2>2. ASSUME NEW session, NEW g, Spawn(Pass(g), Task("sleeping", session)) PROVE WorkKeeps
    <3>1. Typed
      BY DEF SessionInv
    <3>2. /\ DOMAIN work' = DOMAIN work \cup {Pass(g)}
          /\ work' = [u \in DOMAIN work' |-> work'[u]]
          /\ \A u \in DOMAIN work \ {Pass(g)} : work'[u] = work[u]
          /\ \A u \in DOMAIN work' : {"stage", "cancelled", "outcome"} \subseteq DOMAIN work'[u]
      BY <2>2, <3>1, Spawned
    <3>3. \A r : Read(r) # Pass(g)
      BY Apart
    <3> QED
      BY <3>2, <3>3, ReadsKept DEF WorkKeeps
  <2> QED
    BY <1>3, <2>1, <2>2
<1> QED
  BY <1>1, <1>2, <1>4, Quiet

\* The wire is drained: a cancellation meets its read or is kept.
LEMMA IntakeKeeps == ASSUME SessionInv, Intake PROVE SessionInv'
<1> DEFINE message == Head(wire)
<1>0. Typed /\ wire \in Seq(Messages) /\ queue \in Seq(Messages) /\ wire # << >>
  BY DEF SessionInv, Typed, Intake
<1>1. message \in Messages /\ wire' = Tail(wire) /\ wire' \in Seq(Messages)
  BY <1>0 DEF Intake
<1>2. UNCHANGED <<clientVars, editor, disk, asked, answers>>
  BY DEF Intake, clientVars
<1>3. \/ /\ message.kind # "cancel"
         /\ queue' = Append(queue, message) /\ UNCHANGED <<cancellations, inflight, work>>
      \/ /\ message.kind = "cancel" /\ message.id \in inflight
         /\ inflight' = inflight \ {message.id}
         /\ work' = [work EXCEPT ![Read(message.id)].cancelled = TRUE]
         /\ UNCHANGED <<queue, cancellations>>
      \/ /\ message.kind = "cancel"
         /\ cancellations' = cancellations \cup {message.id}
         /\ UNCHANGED <<queue, inflight, work>>
  BY DEF Intake
<1>4. message.kind = "cancel" => message.id \in editor.cancels /\ message.id \in Requests
  <2>1. message = wire[1] /\ 1 \in DOMAIN wire
    BY <1>0
  <2>2. \A x \in Messages : x.kind = "cancel" => x.id \in Requests
    BY Kinds
  <2> QED
    BY <1>1, <2>1, <2>2 DEF SessionInv, CancelsAreAsked
<1>5. \A i \in DOMAIN wire' : wire'[i].kind = "cancel" => wire'[i].id \in editor.cancels
  <2>1. \A i \in DOMAIN wire' : i + 1 \in DOMAIN wire /\ wire'[i] = wire[i + 1]
    BY <1>0, <1>1, Departs
  <2> QED
    BY <2>1 DEF SessionInv, CancelsAreAsked
<1>6. ASSUME NEW r \in Requests
      PROVE  /\ Waits(wire', r) => Waits(wire, r)
             /\ Asks(message, r) => Waits(wire, r)
             /\ Once(wire, r) => Once(wire', r)
             /\ Once(wire, r) /\ Asks(message, r) => ~Waits(wire', r)
  BY <1>0, <1>1, Departs
<1> HIDE DEF message
<1>7. CASE message.kind # "cancel"
  <2>1. queue' = Append(queue, message) /\ UNCHANGED <<cancellations, inflight, work>>
    BY <1>3, <1>7
  <2>2. queue' \in Seq(Messages)
    BY <1>0, <1>1, <2>1
  <2>3. Typed' /\ CancelsAreAsked'
    BY <1>0, <1>1, <1>2, <1>5, <2>1, <2>2 DEF Typed, SessionInv, CancelsAreAsked
  <2>4. ASSUME NEW r \in Requests PROVE OnePlace(r)'
    <3>1. OnePlace(r)
      BY DEF SessionInv
    <3>2. /\ Waits(queue', r) <=> (Waits(queue, r) \/ Asks(message, r))
          /\ Once(queue, r) /\ ~(Waits(queue, r) /\ Asks(message, r)) => Once(queue', r)
      BY <1>0, <1>1, <2>1, Arrives
    <3> QED
      BY <1>2, <1>6, <2>1, <3>1, <3>2 DEF OnePlace
  <2> QED
    BY <2>3, <2>4 DEF SessionInv
<1>8. CASE message.kind = "cancel"
  <2> DEFINE c == message.id
  <2>1. \A r : ~Asks(message, r)
    BY <1>8 DEF Asks
  <2>2. /\ inflight' \subseteq inflight /\ queue' = queue
        /\ cancellations' \subseteq cancellations \cup {c}
    BY <1>3, <1>8
  <2>3. /\ DOMAIN work' = DOMAIN work
        /\ work' = [t \in DOMAIN work' |-> work'[t]]
        /\ \A t \in DOMAIN work : {"stage", "cancelled", "outcome"} \subseteq DOMAIN work'[t]
        /\ \A t \in DOMAIN work : /\ work'[t].stage = work[t].stage /\ work'[t].outcome = work[t].outcome
                                  /\ work'[t].cancelled = work[t].cancelled \/ t = Read(c)
    <3>1. CASE work' = work
      BY <1>0, <3>1 DEF Typed
    <3>2. CASE work' = [work EXCEPT ![Read(c)].cancelled = TRUE]
      <4> DEFINE told == [work[Read(c)] EXCEPT !.cancelled = TRUE]
      <4>1. /\ work' = [work EXCEPT ![Read(c)] = told]
            /\ work = [t \in DOMAIN work |-> work[t]]
        BY <1>0, <3>2 DEF Typed
      <4>2. Read(c) \in DOMAIN work => /\ {"stage", "cancelled", "outcome"} \subseteq DOMAIN told
                                       /\ told.stage = work[Read(c)].stage
                                       /\ told.outcome = work[Read(c)].outcome
        BY <1>0 DEF Typed
      <4> HIDE DEF told
      <4> QED
        BY <1>0, <4>1, <4>2 DEF Typed
    <3> QED
      BY <1>3, <1>8, <3>1, <3>2
  <2>4. Typed' /\ CancelsAreAsked'
    BY <1>0, <1>1, <1>2, <1>4, <1>5, <1>8, <2>2, <2>3 DEF Typed, SessionInv, CancelsAreAsked
  <2>5. ASSUME NEW r \in Requests PROVE OnePlace(r)'
    <3>1. OnePlace(r) /\ (Read(r) = Read(c) => r = c)
      BY Apart DEF SessionInv
    <3> QED
      BY <1>2, <1>4, <1>6, <1>8, <2>1, <2>2, <2>3, <3>1 DEF OnePlace
  <2> QED
    BY <2>4, <2>5 DEF SessionInv
<1> QED
  BY <1>7, <1>8

\* The first request of the queue is answered at once, or handed to a task.
LEMMA RequestKeeps ==
    ASSUME SessionAssumption, SessionInv,
           \/ HandleCancelled \/ HandleUnknown \/ HandleRead
           \/ \E found \in BOOLEAN : HandleInitialize(found)
    PROVE  SessionInv'
<1> DEFINE message == Head(queue)
           q == message.id
<1>0. Typed /\ queue \in Seq(Messages) /\ queue # << >>
  BY DEF SessionInv, Typed, HandleCancelled, HandleUnknown, HandleRead, HandleInitialize, Dispatched
<1>1. message \in Messages /\ queue' = Tail(queue) /\ queue' \in Seq(Messages)
  BY <1>0 DEF HandleCancelled, HandleUnknown, HandleRead, HandleInitialize, Dispatched
<1>2. UNCHANGED <<editor, disk, asked, wire>>
  BY DEF HandleCancelled, HandleUnknown, HandleRead, HandleInitialize, Dispatched, clientVars
<1>3. message.kind = "request"
  BY DEF HandleCancelled, HandleUnknown, HandleRead, HandleInitialize, Dispatched
<1>4. ASSUME NEW r \in Requests
      PROVE  /\ Waits(queue', r) => Waits(queue, r)
             /\ q = r => Waits(queue, r)
             /\ Once(queue, r) => Once(queue', r)
             /\ Once(queue, r) /\ q = r => ~Waits(queue', r)
  <2>1. q = r => Asks(message, r)
    BY <1>3 DEF Asks
  <2> QED
    BY <1>0, <1>1, <2>1, Departs
<1>5. \A x \in Messages : x.kind = "request" =>
        /\ x.method \in {"read", "unknown"} => x.id \in Requests
        /\ x.method = "initialize" => x.id = "initialize"
  BY Kinds
<1> HIDE DEF message
<1>6. CASE HandleRead
  <2>1. q \in Requests
    BY <1>1, <1>3, <1>5, <1>6 DEF HandleRead, Dispatched, message
  <2>2. /\ inflight' = inflight \cup {q} /\ Spawn(Read(q), Task("waiting", server))
        /\ UNCHANGED <<cancellations, answers>>
    BY <1>6 DEF HandleRead, message
  <2>3. /\ DOMAIN work' = DOMAIN work \cup {Read(q)}
        /\ work' = [u \in DOMAIN work' |-> work'[u]]
        /\ \A u \in DOMAIN work \ {Read(q)} : work'[u] = work[u]
        /\ work'[Read(q)].cancelled = FALSE /\ work'[Read(q)].outcome = Outcome("none")
        /\ \A u \in DOMAIN work' : {"stage", "cancelled", "outcome"} \subseteq DOMAIN work'[u]
    BY <1>0, <2>2, Spawned
  <2>4. Typed' /\ CancelsAreAsked'
    BY <1>0, <1>1, <1>2, <2>2, <2>3 DEF Typed, SessionInv, CancelsAreAsked
  <2>5. ASSUME NEW r \in Requests PROVE OnePlace(r)'
    <3>1. OnePlace(r) /\ (Read(r) = Read(q) => r = q)
      BY Apart DEF SessionInv
    <3>2. Outcome("none") # Outcome("cancelled")
      BY DEF Outcome
    <3>3. CASE r = q
      <4>1. /\ asked[r] # Unasked /\ answers[r] = << >>
            /\ ~Waits(wire, r) /\ ~Waits(queue', r)
        BY <1>4, <3>1, <3>3 DEF OnePlace
      <4> QED
        BY <1>2, <1>4, <2>2, <2>3, <3>1, <3>2, <3>3, <4>1 DEF OnePlace
    <3>4. CASE r # q
      <4>1. Read(r) # Read(q)
        BY <3>1, <3>4
      <4>2. /\ Read(r) \in DOMAIN work' <=> Read(r) \in DOMAIN work
            /\ Read(r) \in DOMAIN work => work'[Read(r)] = work[Read(r)]
        BY <2>3, <4>1
      <4>3. r \in inflight' => r \in inflight
        BY <2>2, <3>4
      <4> QED
        BY <1>2, <1>4, <2>2, <3>1, <4>2, <4>3 DEF OnePlace
    <3> QED
      BY <3>3, <3>4
  <2> QED
    BY <2>4, <2>5 DEF SessionInv
<1>7. CASE ~HandleRead
  <2>1. PICK outcome :
          /\ Send(q, outcome)
          /\ outcome = Outcome("cancelled") => q \in cancellations
    <3>1. \A is : is # "cancelled" => Outcome(is) # Outcome("cancelled")
      BY DEF Outcome
    <3> QED
      BY <1>7, <3>1 DEF HandleCancelled, HandleUnknown, HandleInitialize, message
  <2>2. cancellations' \subseteq cancellations /\ UNCHANGED <<inflight, work>>
    BY <1>7 DEF HandleCancelled, HandleUnknown, HandleInitialize
  <2>3. /\ DOMAIN answers' = DOMAIN answers
        /\ answers' = [r \in DOMAIN answers' |-> answers'[r]]
        /\ \A r \in DOMAIN answers \ {q} : answers'[r] = answers[r]
        /\ q \in DOMAIN answers => answers'[q] = Append(answers[q], outcome)
    BY <1>0, <2>1 DEF Send, Typed
  <2>4. Typed' /\ CancelsAreAsked'
    BY <1>0, <1>1, <1>2, <2>2, <2>3 DEF Typed, SessionInv, CancelsAreAsked
  <2>5. ASSUME NEW r \in Requests PROVE OnePlace(r)'
    <3>1. OnePlace(r) /\ r \in DOMAIN answers
      BY <1>0 DEF SessionInv, Typed
    <3>2. CASE r = q
      <4>1. /\ asked[r] # Unasked /\ answers[r] = << >> /\ Read(r) \notin DOMAIN work
            /\ ~Waits(wire, r) /\ ~Waits(queue', r)
        BY <1>4, <3>1, <3>2 DEF OnePlace
      <4>2. answers'[r] = <<outcome>>
        BY <2>3, <3>1, <3>2, <4>1
      <4>3. outcome = Outcome("cancelled") => r \in editor.cancels
        BY <2>1, <3>2 DEF SessionInv, CancelsAreAsked
      <4> QED
        BY <1>2, <1>4, <2>2, <3>1, <4>1, <4>2, <4>3 DEF OnePlace
    <3>3. CASE r # q
      <4>1. answers'[r] = answers[r]
        BY <2>3, <3>1, <3>3
      <4> QED
        BY <1>2, <1>4, <2>2, <3>1, <4>1 DEF OnePlace
    <3> QED
      BY <3>2, <3>3
  <2> QED
    BY <2>4, <2>5 DEF SessionInv
<1> QED
  BY <1>6, <1>7

\* A running read answers, and is gone.
LEMMA AnswersKeep == ASSUME SessionInv, NEW q \in Requests, Answers(q) PROVE SessionInv'
<1> DEFINE t == Read(q)
<1>0. Typed /\ OnePlace(q) /\ t \in DOMAIN work /\ work[t].stage # "gone"
  BY DEF SessionInv, Answers, Step, Tasks
<1>1. /\ UNCHANGED <<editor, disk, asked, wire, queue, cancellations>>
      /\ inflight' \subseteq inflight /\ Send(q, work[t].outcome) /\ Ends(t, Outcome("none"))
  BY DEF Answers, clientVars
<1>2. /\ DOMAIN work' = DOMAIN work
      /\ work' = [u \in DOMAIN work' |-> work'[u]]
      /\ \A u \in DOMAIN work \ {t} : work'[u] = work[u]
      /\ work'[t].stage = "gone" /\ work'[t].outcome = Outcome("none") /\ work'[t].cancelled = FALSE
      /\ \A u \in DOMAIN work' : {"stage", "cancelled", "outcome"} \subseteq DOMAIN work'[u]
  BY <1>0, <1>1, Ended
<1>3. /\ DOMAIN answers' = DOMAIN answers /\ q \in DOMAIN answers
      /\ answers' = [r \in DOMAIN answers' |-> answers'[r]]
      /\ \A r \in DOMAIN answers \ {q} : answers'[r] = answers[r]
      /\ answers'[q] = Append(answers[q], work[t].outcome)
  BY <1>0, <1>1 DEF Send, Typed
<1>4. Typed' /\ CancelsAreAsked'
  BY <1>0, <1>1, <1>2, <1>3 DEF Typed, SessionInv, CancelsAreAsked
<1>5. ASSUME NEW r \in Requests PROVE OnePlace(r)'
  <2>1. OnePlace(r) /\ r \in DOMAIN answers /\ (Read(r) = t => r = q)
    BY <1>0, Apart DEF SessionInv, Typed
  <2>2. CASE r = q
    <3>1. answers'[r] = <<work[t].outcome>>
      BY <1>0, <1>3, <2>2 DEF OnePlace
    <3>2. Outcome("none") # Outcome("cancelled")
      BY DEF Outcome
    <3> QED
      BY <1>0, <1>1, <1>2, <2>2, <3>1, <3>2 DEF OnePlace
  <2>3. CASE r # q
    <3>1. answers'[r] = answers[r] /\ Read(r) # t
      BY <1>3, <2>1, <2>3
    <3>2. Read(r) \in DOMAIN work => work'[Read(r)] = work[Read(r)]
      BY <1>2, <3>1
    <3> QED
      BY <1>1, <1>2, <2>1, <3>1, <3>2 DEF OnePlace
  <2> QED
    BY <2>2, <2>3
<1> QED
  BY <1>4, <1>5 DEF SessionInv

\* Every step keeps the invariant.
LEMMA NextInvariant == ASSUME SessionAssumption, SessionInv, [SessionNext]_sessionVars PROVE SessionInv'
<1>1. CASE UNCHANGED sessionVars
  BY <1>1, ReadsKept DEF sessionVars, SessionInv, Typed, CancelsAreAsked, OnePlace
<1>2. CASE LoopStep
  BY <1>2, IntakeKeeps, RequestKeeps, SessionKeeps DEF LoopStep
<1>3. ASSUME NEW r \in Requests, ReadStep(r) PROVE SessionInv'
  <2>1. CASE Interrupted(Read(r))
    <3>1. /\ Read(r) \in DOMAIN work /\ work[Read(r)].stage # "gone"
          /\ UNCHANGED <<clientVars, wire, queue, cancellations, inflight, answers>>
          /\ Moves(Read(r), "answering", Outcome("cancelled")) /\ work[Read(r)].cancelled
      BY <2>1 DEF Interrupted, Tasks, Rests, loopVars
    <3> QED
      BY <3>1, TaskKeeps
  <2> QED
    BY <1>3, <2>1, SnapshotKeeps, AnswersKeep DEF ReadStep
<1>4. CASE TaskStep
  BY <1>3, <1>4, PassKeeps DEF TaskStep
<1> QED
  BY <1>1, <1>2, <1>4, EditorKeeps DEF SessionNext

\* Wherever a cancellation meets it, a request is in one place at a time.
THEOREM SessionInvariance == ASSUME SessionAssumption PROVE SessionSpec => []SessionInv
<1>1. SessionInit => SessionInv
  BY InitInvariant
<1>2. SessionInv /\ [SessionNext]_sessionVars => SessionInv'
  BY NextInvariant
<1> QED
  BY <1>1, <1>2, PTL DEF SessionSpec

\* A request is answered at most once, and cancelled only for a client that
\* asked for it (src/lsp/server.rs).
THEOREM AnsweredOnce == ASSUME SessionAssumption PROVE SessionSpec => []OneAnswer
BY SessionInvariance, InvariantImplies, PTL
-----------------------------------------------------------------------------
(* What a read sees.                                                        *)

Documents == {"didOpen", "didChange", "didSave", "didClose"}
Mutating(message) ==
    message.kind = "notice" /\ message.method \in Documents /\ ~message.malformed

\* What a message leaves of a buffer b.
After(b, message) == IF message.kind = "notice" THEN Edited(b, message) ELSE b

\* The messages s lead from the buffer b to the buffer c, and a request among
\* them was sent, by a, over the buffer it will meet.
Carries(s, a, b, c) ==
    \E h : /\ h[1] = b /\ h[Len(s) + 1] = c
           /\ \A i \in 1..Len(s) :
                /\ h[i + 1] = After(h[i], s[i])
                /\ \A r \in Requests : Asks(s[i], r) => a[r].text = h[i]

\* Some of the messages s, and some of the first n, will move the revision on.
Revising(s) == \E j \in 1..Len(s) : Mutating(s[j])
Before(s, n) == \E j \in 1..n : Mutating(s[j])

\* Each request in s comes after such a message, of s or of those before s, or
\* is among up.
Paced(s, late, up) ==
    \A i \in 1..Len(s), r \in Requests : Asks(s[i], r) => late \/ Before(s, i - 1) \/ r \in up

\* Whatever leaves the revision alone leaves the buffer alone.
LEMMA AfterOthers == ASSUME NEW b, NEW message, ~Mutating(message) PROVE After(b, message) = b
<1>1. CASE message.malformed
  BY <1>1 DEF After, Edited
<1>2. CASE ~message.malformed /\ message.method \notin Documents
  BY <1>2 DEF After, Edited, Documents
<1> QED
  BY <1>1, <1>2 DEF After, Mutating

\* A message more.
LEMMA CarriesMore ==
    ASSUME NEW S, NEW s \in Seq(S), NEW message \in S, NEW a, NEW b, NEW c, Carries(s, a, b, c),
           \A r \in Requests : Asks(message, r) => a[r].text = c
    PROVE  Carries(Append(s, message), a, b, After(c, message))
<1> DEFINE t == Append(s, message)
           n == Len(s)
<1>1. /\ n \in Nat /\ Len(t) = n + 1 /\ t[n + 1] = message
      /\ \A i \in 1..n : t[i] = s[i]
  OBVIOUS
<1>2. PICK h : /\ h[1] = b /\ h[n + 1] = c
               /\ \A i \in 1..n :
                    /\ h[i + 1] = After(h[i], s[i])
                    /\ \A r \in Requests : Asks(s[i], r) => a[r].text = h[i]
  BY DEF Carries
<1> HIDE DEF t, n
<1> DEFINE d == After(c, message)
           g == [i \in 1..n + 2 |-> IF i = n + 2 THEN d ELSE h[i]]
<1> HIDE DEF d
<1>3. /\ g[1] = b /\ g[n + 2] = d /\ g[n + 1] = c
      /\ \A i \in 1..n : g[i] = h[i] /\ g[i + 1] = h[i + 1]
  BY <1>1, <1>2
<1> HIDE DEF g
<1>4. ASSUME NEW i \in 1..n + 1
      PROVE  /\ g[i + 1] = After(g[i], t[i])
             /\ \A r \in Requests : Asks(t[i], r) => a[r].text = g[i]
  <2>1. CASE i \in 1..n
    BY <1>1, <1>2, <1>3, <2>1
  <2>2. CASE i = n + 1
    <3>1. t[i] = message /\ g[i] = c /\ g[i + 1] = d
      BY <1>1, <1>3, <2>2
    <3> QED
      BY <3>1 DEF d
  <2> QED
    BY <1>1, <2>1, <2>2
<1>5. Len(t) = n + 1 /\ Len(t) + 1 = n + 2
  BY <1>1
<1>6. Carries(t, a, b, d)
  BY <1>3, <1>4, <1>5 DEF Carries
<1> QED
  BY <1>6 DEF t, d

\* A message less.
LEMMA CarriesLess ==
    ASSUME NEW S, NEW s \in Seq(S), s # << >>, NEW a, NEW b, NEW c, Carries(s, a, b, c)
    PROVE  /\ Carries(Tail(s), a, After(b, Head(s)), c)
           /\ \A r \in Requests : Asks(Head(s), r) => a[r].text = b
<1> DEFINE t == Tail(s)
           n == Len(s)
<1>1. /\ n \in Nat \ {0} /\ Len(t) = n - 1 /\ Head(s) = s[1]
      /\ \A i \in 1..n - 1 : t[i] = s[i + 1]
  OBVIOUS
<1>2. PICK h : /\ h[1] = b /\ h[n + 1] = c
               /\ \A i \in 1..n :
                    /\ h[i + 1] = After(h[i], s[i])
                    /\ \A r \in Requests : Asks(s[i], r) => a[r].text = h[i]
  BY DEF Carries
<1> HIDE DEF t, n
<1> DEFINE g == [i \in 1..n |-> h[i + 1]]
<1>3. /\ g[1] = h[2] /\ g[n] = h[n + 1] /\ 1 \in 1..n
      /\ \A i \in 1..n - 1 : g[i] = h[i + 1] /\ g[i + 1] = h[i + 1 + 1] /\ i + 1 \in 1..n
  BY <1>1
<1> HIDE DEF g
<1>4. h[1 + 1] = After(b, s[1]) /\ \A r \in Requests : Asks(s[1], r) => a[r].text = b
  BY <1>2, <1>3
<1>5. ASSUME NEW i \in 1..n - 1
      PROVE  /\ g[i + 1] = After(g[i], t[i])
             /\ \A r \in Requests : Asks(t[i], r) => a[r].text = g[i]
  BY <1>1, <1>2, <1>3
<1>6. Len(t) = n - 1 /\ Len(t) + 1 = n /\ 1 + 1 = 2
  BY <1>1
<1> DEFINE d == After(b, Head(s))
<1>7. g[1] = d
  BY <1>1, <1>3, <1>4, <1>6
<1> HIDE DEF d
<1>8. Carries(t, a, d, c)
  BY <1>2, <1>3, <1>5, <1>6, <1>7 DEF Carries
<1> QED
  BY <1>1, <1>4, <1>8 DEF t, d

\* What was asked of others does not matter.
LEMMA CarriesAlike ==
    ASSUME NEW s, NEW a, NEW d, NEW b, NEW c, Carries(s, a, b, c), Len(s) \in Nat, DOMAIN s = 1..Len(s),
           \A r \in Requests : Waits(s, r) => d[r] = a[r]
    PROVE  Carries(s, d, b, c)
<1>1. \A i \in 1..Len(s), r \in Requests : Asks(s[i], r) => d[r] = a[r]
  BY DEF Waits
<1> QED
  BY <1>1 DEF Carries

\* Nothing leads nowhere.
LEMMA CarriesNone == ASSUME NEW a, NEW b PROVE Carries(<< >>, a, b, b)
<1>1. [i \in {1} |-> b][1] = b /\ Len(<< >>) = 0 /\ 0 + 1 = 1 /\ 1..0 = {}
  OBVIOUS
<1> QED
  BY <1>1 DEF Carries

\* A message more, and a message less, of those that move the revision on.
LEMMA RevisingMore ==
    ASSUME NEW S, NEW s \in Seq(S), NEW message \in S
    PROVE  Revising(Append(s, message)) <=> (Revising(s) \/ Mutating(message))
<1> DEFINE t == Append(s, message)
<1>1. /\ Len(s) \in Nat /\ Len(t) = Len(s) + 1 /\ t[Len(s) + 1] = message
      /\ \A i \in 1..Len(s) : t[i] = s[i]
      /\ \A i \in 1..Len(t) : i \in 1..Len(s) \/ i = Len(s) + 1
      /\ Len(s) + 1 \in 1..Len(t) /\ \A i \in 1..Len(s) : i \in 1..Len(t)
  OBVIOUS
<1> HIDE DEF t
<1>2. Revising(t) <=> (Revising(s) \/ Mutating(message))
  BY <1>1 DEF Revising
<1> QED
  BY <1>2 DEF t

\* Messages move the revision on where the first does or the others do.
LEMMA RevisingLess ==
    ASSUME NEW S, NEW s \in Seq(S), s # << >>
    PROVE  Revising(s) <=> (Revising(Tail(s)) \/ Mutating(Head(s)))
<1> DEFINE t == Tail(s)
<1>1. /\ Len(s) \in Nat \ {0} /\ Len(t) = Len(s) - 1 /\ Head(s) = s[1]
      /\ \A i \in 1..Len(t) : t[i] = s[i + 1] /\ i + 1 \in 1..Len(s)
      /\ \A i \in 1..Len(s) : i = 1 \/ (i - 1 \in 1..Len(t) /\ s[i] = t[i - 1])
      /\ 1 \in 1..Len(s)
  OBVIOUS
<1> HIDE DEF t
<1>2. Revising(s) <=> (Revising(t) \/ Mutating(Head(s)))
  BY <1>1 DEF Revising
<1> QED
  BY <1>2 DEF t

\* The same of requests behind them.
LEMMA PacedMore ==
    ASSUME NEW S, NEW s \in Seq(S), NEW message \in S, NEW late, NEW up, Paced(s, late, up),
           \A r \in Requests : Asks(message, r) => late \/ Revising(s) \/ r \in up
    PROVE  Paced(Append(s, message), late, up)
<1> DEFINE t == Append(s, message)
<1>1. /\ Len(s) \in Nat /\ Len(t) = Len(s) + 1 /\ t[Len(s) + 1] = message
      /\ \A i \in 1..Len(s) : t[i] = s[i]
  OBVIOUS
<1> HIDE DEF t
<1>2. ASSUME NEW i \in 1..Len(t), NEW r \in Requests, Asks(t[i], r)
      PROVE  late \/ Before(t, i - 1) \/ r \in up
  <2>1. CASE i \in 1..Len(s)
    <3>1. Asks(s[i], r) /\ \A j \in 1..i - 1 : j \in 1..Len(s) /\ t[j] = s[j]
      BY <1>1, <1>2, <2>1
    <3>2. late \/ Before(s, i - 1) \/ r \in up
      BY <2>1, <3>1 DEF Paced
    <3> QED
      BY <3>1, <3>2 DEF Before
  <2>2. CASE i = Len(s) + 1
    <3>1. Asks(message, r) /\ i - 1 = Len(s)
      BY <1>1, <1>2, <2>2
    <3>2. Revising(s) => Before(t, i - 1)
      BY <1>1, <3>1 DEF Revising, Before
    <3> QED
      BY <3>1, <3>2
  <2> QED
    BY <1>1, <2>1, <2>2
<1>3. Paced(t, late, up)
  BY <1>2 DEF Paced
<1> QED
  BY <1>3 DEF t

\* Messages that are paced are so without the first, which may have moved the revision
\* on.
LEMMA PacedLess ==
    ASSUME NEW S, NEW s \in Seq(S), s # << >>, NEW late, NEW up, Paced(s, late, up)
    PROVE  /\ Paced(Tail(s), late \/ Mutating(Head(s)), up)
           /\ \A r \in Requests : Asks(Head(s), r) => late \/ r \in up
<1> DEFINE t == Tail(s)
<1>1. /\ Len(s) \in Nat \ {0} /\ Len(t) = Len(s) - 1 /\ Head(s) = s[1]
      /\ \A i \in 1..Len(t) : t[i] = s[i + 1] /\ i + 1 \in 1..Len(s)
      /\ 1 \in 1..Len(s)
  OBVIOUS
<1> HIDE DEF t
<1>2. ASSUME NEW i \in 1..Len(t), NEW r \in Requests, Asks(t[i], r)
      PROVE  (late \/ Mutating(Head(s))) \/ Before(t, i - 1) \/ r \in up
  <2>1. Asks(s[i + 1], r) /\ i + 1 \in 1..Len(s)
    BY <1>1, <1>2
  <2>2. late \/ Before(s, (i + 1) - 1) \/ r \in up
    BY <2>1 DEF Paced
  <2>3. (i + 1) - 1 = i /\ i \in Nat
    BY <1>1
  <2>4. ASSUME Before(s, i) PROVE Mutating(Head(s)) \/ Before(t, i - 1)
    <3>1. PICK j \in 1..i : Mutating(s[j])
      BY <2>4 DEF Before
    <3>2. CASE j = 1
      BY <1>1, <3>1, <3>2
    <3>3. CASE j # 1
      <4>1. j - 1 \in 1..i - 1 /\ j - 1 \in 1..Len(t) /\ (j - 1) + 1 = j
        BY <1>1, <2>3, <3>1, <3>3
      <4>2. t[j - 1] = s[(j - 1) + 1]
        BY <1>1, <4>1
      <4> QED
        BY <3>1, <4>1, <4>2 DEF Before
    <3> QED
      BY <3>2, <3>3
  <2> QED
    BY <2>2, <2>3, <2>4
<1>3. ASSUME NEW r \in Requests, Asks(Head(s), r) PROVE late \/ r \in up
  <2>1. late \/ Before(s, 1 - 1) \/ r \in up
    BY <1>1, <1>3 DEF Paced
  <2>2. ~Before(s, 1 - 1)
    BY DEF Before
  <2> QED
    BY <2>1, <2>2
<1>4. Paced(t, late \/ Mutating(Head(s)), up)
  BY <1>2 DEF Paced
<1> QED
  BY <1>3, <1>4 DEF t
-----------------------------------------------------------------------------
(* The invariant of the edits.                                              *)

First == "initialize"

\* The session starts once: before that there is no package and nothing is told,
\* and after the answer nothing is waiting for it.
Begun ==
    /\ Once(wire, First) /\ Once(queue, First) /\ ~(Waits(wire, First) /\ Waits(queue, First))
    /\ Waits(wire, First) \/ Waits(queue, First) => answers[First] = << >>
    /\ editor.started \/ server.root => answers[First] # << >>
    /\ ~editor.started => ~Revising(wire) /\ ~Revising(queue)

\* The file is the editor's, and requests have been made over earlier files.
Saved ==
    /\ editor.text >= disk
    /\ \A r \in Requests : asked[r] # Unasked => asked[r].disk \in 0..disk

\* What is on its way leads to the buffer that the editor counts on.
Buffers ==
    server.root \/ ~editor.started =>
        \E between : /\ Carries(queue, asked, server.overlay, between)
                     /\ Carries(wire, asked, between, ahead)

\* What is cached for the revision was not built before the file was d.
NewerThan(d) ==
    cached.revision = server.revision /\ server.overlay = NoBuffer => cached.text >= d
Up == {r \in Requests : NewerThan(asked[r].disk)}

\* The cache is not older than the last save, or a message will outdate it; and so
\* it is for each request.
Fresh ==
    /\ Paced(queue, FALSE, Up) /\ Paced(wire, Revising(queue), Up)
    /\ Revising(queue) \/ Revising(wire) \/ NewerThan(disk)

\* The text a document has under the buffer b.
Shows(b, text) == IF b = NoBuffer THEN text \in 0..disk ELSE text = b

\* A revision has one buffer, for whoever has captured it.
OneBuffer(buffer) ==
    /\ server.overlay = buffer[server.revision]
    /\ cached # Unbuilt => /\ cached.revision \in 0..server.revision
                           /\ Shows(buffer[cached.revision], cached.text)
    /\ \A t \in DOMAIN work : work[t].root =>
         /\ work[t].revision \in 0..server.revision
         /\ work[t].overlay = buffer[work[t].revision]
Captured == \E buffer : OneBuffer(buffer)

\* A read has captured what it was sent over, and what it may find is not older.
Captures(r) ==
    /\ work[Read(r)].overlay = asked[r].text
    /\ cached.revision = work[Read(r)].revision /\ work[Read(r)].overlay = NoBuffer =>
         cached.text >= asked[r].disk

\* What a read sees.
Sees(r, answer) ==
    answer.is = "built" =>
        IF asked[r].text = NoBuffer THEN answer.text \in asked[r].disk..disk
        ELSE answer.text = asked[r].text

Reading ==
    /\ \A t \in DOMAIN work : work[t].stage = "building" => work[t].root
    /\ \A r \in Requests :
         /\ Read(r) \in DOMAIN work => /\ work[Read(r)].root => Captures(r)
                                       /\ Sees(r, work[Read(r)].outcome)
         /\ answers[r] # << >> => Sees(r, answers[r][1])

Fields ==
    /\ {"root", "overlay", "revision", "shutdown", "serving"} \subseteq DOMAIN server
    /\ server = [x \in DOMAIN server |-> server[x]]
    /\ server.root \in BOOLEAN /\ server.revision \in Nat
    /\ \A t \in DOMAIN work : {"root", "overlay", "revision"} \subseteq DOMAIN work[t]
    /\ ~server.root => cached = Unbuilt /\ \A t \in DOMAIN work : ~work[t].root

EditsInv == Fields /\ Begun /\ Saved /\ Buffers /\ Fresh /\ Captured /\ Reading

\* It says what is promised.
LEMMA EditsInvImplies == SessionInv /\ EditsInv => ReadYourEdits
<1> SUFFICES ASSUME SessionInv, EditsInv, NEW r \in Requests, NEW answer \in Range(answers[r]),
                    answer.is = "built"
             PROVE  IF asked[r].text = NoBuffer THEN answer.text \in asked[r].disk..disk
                    ELSE answer.text = asked[r].text
  BY DEF ReadYourEdits
<1>1. answers[r] # << >>
  BY DEF Range
<1>2. PICK o : answers[r] = <<o>> /\ answers[r][1] = o
  BY <1>1 DEF SessionInv, OnePlace
<1>3. Range(answers[r]) = {o}
  BY <1>2 DEF Range
<1>4. Sees(r, answer)
  BY <1>1, <1>2, <1>3 DEF EditsInv, Reading
<1> QED
  BY <1>4 DEF Sees

\* At the start.
LEMMA InitEdits == ASSUME SessionAssumption, SessionInit PROVE EditsInv
<1>1. /\ wire = <<Request(First, First)>> /\ queue = << >> /\ answers[First] = << >>
      /\ wire \in Seq({Request(First, First)}) /\ Len(wire) = 1 /\ wire[1] = Request(First, First)
  BY DEF SessionInit, First
<1>2. /\ ~Mutating(Request(First, First))
      /\ \A r \in Requests : ~Asks(Request(First, First), r)
  BY DEF Mutating, Request, Asks, First, SessionAssumption
<1>3. /\ server = [root |-> FALSE, overlay |-> NoBuffer, revision |-> 0, shutdown |-> FALSE, serving |-> TRUE]
      /\ cached = Unbuilt /\ work = << >> /\ ahead = NoBuffer /\ disk = 0 /\ ~editor.started
      /\ editor.text = 0
  BY DEF SessionInit
<1>4. Begun
  <2>1. Once(wire, First) /\ Once(queue, First) /\ ~Waits(queue, First)
    BY <1>1 DEF Once, Waits
  <2>2. ~Revising(wire) /\ ~Revising(queue)
    BY <1>1, <1>2 DEF Revising
  <2> QED
    BY <1>1, <1>3, <2>1, <2>2 DEF Begun
<1>5. Carries(queue, asked, server.overlay, NoBuffer)
  BY <1>1, <1>3, CarriesNone
<1>6. Carries(wire, asked, NoBuffer, ahead)
  <2>1. wire = Append(<< >>, Request(First, First)) /\ << >> \in Seq({Request(First, First)})
    BY <1>1
  <2>2. Carries(wire, asked, NoBuffer, After(NoBuffer, Request(First, First)))
    BY <1>2, <2>1, CarriesNone, CarriesMore
  <2> QED
    BY <1>2, <1>3, <2>2, AfterOthers
<1>7. NewerThan(disk)
  BY <1>3 DEF NewerThan, Unbuilt, SessionAssumption
<1>8. Paced(queue, FALSE, Up) /\ Paced(wire, Revising(queue), Up)
  BY <1>1, <1>2 DEF Paced
<1>9. Captured
  <2>1. OneBuffer([i \in {0} |-> NoBuffer])
    BY <1>3 DEF OneBuffer
  <2> QED
    BY <2>1 DEF Captured
<1>10. Fields
  BY <1>3 DEF Fields
<1>11. Saved
  BY <1>3 DEF Saved, SessionInit, Unasked
<1>12. Reading
  BY <1>3 DEF Reading, SessionInit
<1> QED
  BY <1>4, <1>5, <1>6, <1>7, <1>8, <1>9, <1>10, <1>11, <1>12 DEF EditsInv, Buffers, Fresh

-----------------------------------------------------------------------------
(* The steps of the tasks.                                                  *)

\* Requests that wait may count on another set of those that are up.
LEMMA PacedAlike ==
    ASSUME NEW s, Len(s) \in Nat, DOMAIN s = 1..Len(s), NEW late, NEW up, NEW late2, NEW up2,
           Paced(s, late, up), late => late2, \A r \in Requests : Waits(s, r) /\ r \in up => r \in up2
    PROVE  Paced(s, late2, up2)
<1>1. \A i \in 1..Len(s), r \in Requests : Asks(s[i], r) => Waits(s, r)
  BY DEF Waits
<1> QED
  BY <1>1 DEF Paced

\* What a task has captured stays with it.
LEMMA MovedSession ==
    ASSUME Typed, Fields, NEW t \in DOMAIN work, NEW stage, NEW outcome, Moves(t, stage, outcome)
    PROVE  /\ work'[t].root = work[t].root /\ work'[t].revision = work[t].revision
           /\ work'[t].overlay = work[t].overlay
           /\ {"root", "overlay", "revision"} \subseteq DOMAIN work'[t]
<1>1. /\ work = [u \in DOMAIN work |-> work[u]]
      /\ {"root", "overlay", "revision", "stage", "cancelled", "outcome"} \subseteq DOMAIN work[t]
  BY DEF Typed, Fields
<1>2. work' = [work EXCEPT ![t] = [[work[t] EXCEPT !.stage = stage] EXCEPT !.outcome = outcome]]
  BY <1>1 DEF Moves
<1> DEFINE one == [work[t] EXCEPT !.stage = stage]
           two == [one EXCEPT !.outcome = outcome]
<1>3. /\ DOMAIN one = DOMAIN work[t] /\ one.root = work[t].root
      /\ one.revision = work[t].revision /\ one.overlay = work[t].overlay
  BY <1>1
<1> HIDE DEF one
<1>4. /\ DOMAIN two = DOMAIN work[t] /\ two.root = work[t].root
      /\ two.revision = work[t].revision /\ two.overlay = work[t].overlay
  BY <1>1, <1>3
<1>5. work' = [work EXCEPT ![t] = two]
  BY <1>2 DEF one
<1> HIDE DEF two
<1> QED
  BY <1>1, <1>4, <1>5

\* One that is over has captured nothing.
LEMMA EndedSession ==
    ASSUME Typed, Fields, NEW t \in DOMAIN work, NEW outcome, Ends(t, outcome)
    PROVE  ~work'[t].root /\ {"root", "overlay", "revision"} \subseteq DOMAIN work'[t]
<1>1. work = [u \in DOMAIN work |-> work[u]]
  BY DEF Typed
<1> DEFINE none == [server EXCEPT !.root = FALSE, !.overlay = NoBuffer, !.revision = 0]
           over == [Task("gone", none) EXCEPT !.outcome = outcome]
<1>2. none.root = FALSE
  BY DEF Fields
<1> HIDE DEF none
<1>3. over.root = FALSE /\ {"root", "overlay", "revision"} \subseteq DOMAIN over
  BY <1>2 DEF Task
<1>4. work' = [work EXCEPT ![t] = over]
  BY DEF Ends, none
<1> HIDE DEF over
<1> QED
  BY <1>1, <1>3, <1>4

\* The tasks as a step of one leaves them.
WorkLeft ==
    /\ DOMAIN work' = DOMAIN work
    /\ \A u \in DOMAIN work :
         /\ {"root", "overlay", "revision"} \subseteq DOMAIN work'[u]
         /\ work'[u].root => /\ work[u].root /\ work'[u].revision = work[u].revision
                             /\ work'[u].overlay = work[u].overlay
         /\ work'[u].stage = "building" => work'[u].root
    /\ \A r \in Requests : Read(r) \in DOMAIN work => Sees(r, work'[Read(r)].outcome)

\* What a build leaves in the cache.
CacheLeft ==
    \/ cached' = cached
    \/ \E t \in DOMAIN work : /\ work[t].root
                              /\ cached' = [revision |-> work[t].revision, text |-> Text(work[t].overlay)]

\* What a build finds is of its revision, and not older than the last save.
LEMMA CacheKeeps ==
    ASSUME SessionAssumption, SessionInv, EditsInv, CacheLeft, UNCHANGED <<disk, asked, server>>
    PROVE  /\ \A buffer : OneBuffer(buffer) /\ cached' # Unbuilt =>
                /\ cached'.revision \in 0..server.revision
                /\ Shows(buffer[cached'.revision], cached'.text)
           /\ \A d \in 0..disk : NewerThan(d) => NewerThan(d)'
           /\ \A r \in Requests : Read(r) \in DOMAIN work /\ work[Read(r)].root /\
                cached'.revision = work[Read(r)].revision /\ work[Read(r)].overlay = NoBuffer =>
                  cached'.text >= asked[r].disk
<1>1. CASE cached' = cached
  BY <1>1 DEF EditsInv, OneBuffer, NewerThan, Reading, Captures
<1>2. ASSUME NEW t \in DOMAIN work, work[t].root,
             cached' = [revision |-> work[t].revision, text |-> Text(work[t].overlay)]
      PROVE  /\ \A buffer : OneBuffer(buffer) /\ cached' # Unbuilt =>
                  /\ cached'.revision \in 0..server.revision
                  /\ Shows(buffer[cached'.revision], cached'.text)
             /\ \A d \in 0..disk : NewerThan(d)'
             /\ \A r \in Requests : Read(r) \in DOMAIN work /\ work[Read(r)].root /\
                  cached'.revision = work[Read(r)].revision /\ work[Read(r)].overlay = NoBuffer =>
                    cached'.text >= asked[r].disk
  <2>1. disk \in Nat
    BY DEF SessionInv, Typed
  <2>2. /\ cached'.revision = work[t].revision
        /\ cached'.text = IF work[t].overlay = NoBuffer THEN disk ELSE work[t].overlay
    BY <1>2 DEF Text
  <2>3. ASSUME NEW buffer, OneBuffer(buffer)
        PROVE  /\ cached'.revision \in 0..server.revision
               /\ Shows(buffer[cached'.revision], cached'.text)
    <3>1. work[t].revision \in 0..server.revision /\ work[t].overlay = buffer[work[t].revision]
      BY <1>2, <2>3 DEF OneBuffer
    <3> QED
      BY <2>1, <2>2, <3>1 DEF Shows
  <2>4. PICK buffer : OneBuffer(buffer)
    BY DEF EditsInv, Captured
  <2>5. work[t].overlay = buffer[work[t].revision] /\ server.overlay = buffer[server.revision]
    BY <1>2, <2>4 DEF OneBuffer
  <2>6. ASSUME NEW d \in 0..disk PROVE NewerThan(d)'
    BY <2>1, <2>2, <2>5 DEF NewerThan
  <2>7. ASSUME NEW r \in Requests, Read(r) \in DOMAIN work, work[Read(r)].root,
               cached'.revision = work[Read(r)].revision, work[Read(r)].overlay = NoBuffer
        PROVE  cached'.text >= asked[r].disk
    <3>1. work[Read(r)].overlay = buffer[work[Read(r)].revision]
      BY <2>4, <2>7 DEF OneBuffer
    <3>2. cached'.text = disk
      BY <2>2, <2>5, <2>7, <3>1
    <3>3. asked[r] # Unasked
      BY <2>7 DEF SessionInv, OnePlace
    <3>4. asked[r].disk \in 0..disk
      BY <3>3 DEF EditsInv, Saved
    <3> QED
      BY <2>1, <3>2, <3>4
  <2> QED
    BY <2>3, <2>6, <2>7
<1> QED
  BY <1>1, <1>2 DEF CacheLeft

\* A step of a task.
LEMMA TaskEdits ==
    ASSUME SessionAssumption, SessionInv, EditsInv, WorkLeft, CacheLeft,
           UNCHANGED <<clientVars, wire, queue, server>>,
           cached' # cached => server.root,
           answers'[First] = answers[First],
           \A r \in Requests : answers'[r] # << >> => Sees(r, answers'[r][1])
    PROVE  EditsInv'
<1>1. UNCHANGED <<editor, disk, ahead, asked, wire, queue, server>>
  BY DEF clientVars
<1>2. /\ Fields /\ Begun /\ Saved /\ Buffers /\ Fresh /\ Reading
      /\ wire \in Seq(Messages) /\ queue \in Seq(Messages)
      /\ \A r \in Requests : OnePlace(r)
  BY DEF EditsInv, SessionInv, Typed
<1>3. /\ \A buffer : OneBuffer(buffer) /\ cached' # Unbuilt =>
           /\ cached'.revision \in 0..server.revision
           /\ Shows(buffer[cached'.revision], cached'.text)
      /\ \A d \in 0..disk : NewerThan(d) => NewerThan(d)'
      /\ \A r \in Requests : Read(r) \in DOMAIN work /\ work[Read(r)].root /\
           cached'.revision = work[Read(r)].revision /\ work[Read(r)].overlay = NoBuffer =>
             cached'.text >= asked[r].disk
  BY <1>1, CacheKeeps
<1>4. Fields'
  BY <1>1, <1>2 DEF Fields, WorkLeft
<1>5. Begun' /\ Saved' /\ Buffers'
  BY <1>1, <1>2 DEF Begun, Saved, Buffers
<1>6. Captured'
  <2>1. PICK buffer : OneBuffer(buffer)
    BY DEF EditsInv, Captured
  <2>2. \A b, text : Shows(b, text) => Shows(b, text)'
    BY <1>1 DEF Shows
  <2>3. OneBuffer(buffer)'
    BY <1>1, <1>3, <2>1, <2>2 DEF OneBuffer, WorkLeft
  <2> QED
    BY <2>3 DEF Captured
<1>7. Reading'
  <2>1. \A r, answer : Sees(r, answer)' <=> Sees(r, answer)
    BY <1>1 DEF Sees
  <2>2. ASSUME NEW r \in Requests, Read(r) \in DOMAIN work'
        PROVE  /\ work'[Read(r)].root => Captures(r)'
               /\ Sees(r, work[Read(r)].outcome)'
    <3>1. Read(r) \in DOMAIN work /\ Sees(r, work'[Read(r)].outcome)
      BY <2>2 DEF WorkLeft
    <3>2. ASSUME work'[Read(r)].root PROVE Captures(r)'
      <4>1. /\ work[Read(r)].root /\ work'[Read(r)].revision = work[Read(r)].revision
            /\ work'[Read(r)].overlay = work[Read(r)].overlay
        BY <3>1, <3>2 DEF WorkLeft
      <4>2. Captures(r)
        BY <1>2, <3>1, <4>1 DEF Reading
      <4> QED
        BY <1>1, <1>3, <3>1, <4>1, <4>2 DEF Captures
    <3> QED
      BY <2>1, <3>1, <3>2
  <2>3. \A t \in DOMAIN work' : work'[t].stage = "building" => work'[t].root
    BY DEF WorkLeft
  <2> QED
    BY <2>1, <2>2, <2>3 DEF Reading
<1>8. Fresh'
  <2>1. ASSUME NEW s, s = wire \/ s = queue, NEW r \in Requests, Waits(s, r), r \in Up
        PROVE  r \in Up'
    <3>1. asked[r].disk \in 0..disk
      BY <1>2, <2>1 DEF Saved, OnePlace
    <3> QED
      BY <1>1, <1>3, <2>1, <3>1 DEF Up
  <2>2. /\ Len(wire) \in Nat /\ DOMAIN wire = 1..Len(wire)
        /\ Len(queue) \in Nat /\ DOMAIN queue = 1..Len(queue)
    BY <1>2
  <2>3. Paced(queue, FALSE, Up') /\ Paced(wire, Revising(queue), Up')
    <3>1. Paced(queue, FALSE, Up) /\ Paced(wire, Revising(queue), Up)
      BY <1>2 DEF Fresh
    <3>2. Paced(queue, FALSE, Up')
      BY ONLY <2>1, <2>2, <3>1, PacedAlike
    <3>3. Paced(wire, Revising(queue), Up')
      BY ONLY <2>1, <2>2, <3>1, PacedAlike
    <3> QED
      BY <3>2, <3>3
  <2>4. NewerThan(disk) => NewerThan(disk)'
    BY <1>1, <1>3 DEF SessionInv, Typed
  <2>5. Revising(queue) \/ Revising(wire) \/ NewerThan(disk)
    BY <1>2 DEF Fresh
  <2> QED
    BY <1>1, <2>3, <2>4, <2>5 DEF Fresh
<1> QED
  BY <1>4, <1>5, <1>6, <1>7, <1>8 DEF EditsInv

\* A task goes on: with a snapshot only if it is the right one.
LEMMA MovesLeft ==
    ASSUME SessionInv, EditsInv, NEW t \in DOMAIN work, NEW stage, NEW outcome, Moves(t, stage, outcome),
           stage = "building" => work[t].root,
           \A r \in Requests : t = Read(r) => Sees(r, outcome)
    PROVE  WorkLeft
<1>1. Typed /\ Fields /\ Reading
  BY DEF SessionInv, EditsInv
<1>2. /\ DOMAIN work' = DOMAIN work
      /\ \A u \in DOMAIN work \ {t} : work'[u] = work[u]
      /\ work'[t].stage = stage /\ work'[t].outcome = outcome
  BY <1>1, Moved
<1>3. /\ work'[t].root = work[t].root /\ work'[t].revision = work[t].revision
      /\ work'[t].overlay = work[t].overlay
      /\ {"root", "overlay", "revision"} \subseteq DOMAIN work'[t]
  BY <1>1, MovedSession
<1> QED
  BY <1>1, <1>2, <1>3 DEF WorkLeft, Fields, Reading

\* A task is over.
LEMMA EndsLeft ==
    ASSUME SessionInv, EditsInv, NEW t \in DOMAIN work, NEW outcome, Ends(t, outcome), outcome.is # "built"
    PROVE  WorkLeft
<1>1. Typed /\ Fields /\ Reading
  BY DEF SessionInv, EditsInv
<1>2. /\ DOMAIN work' = DOMAIN work
      /\ \A u \in DOMAIN work \ {t} : work'[u] = work[u]
      /\ work'[t].stage = "gone" /\ work'[t].outcome = outcome
  BY <1>1, Ended
<1>3. ~work'[t].root /\ {"root", "overlay", "revision"} \subseteq DOMAIN work'[t]
  BY <1>1, EndedSession
<1>4. \A r : Sees(r, outcome)
  BY DEF Sees
<1> QED
  BY <1>1, <1>2, <1>3, <1>4 DEF WorkLeft, Fields, Reading

\* What a task finds cached for its revision is what it was sent over.
LEMMA CachedIsSeen ==
    ASSUME SessionAssumption, SessionInv, EditsInv, NEW r \in Requests, Read(r) \in DOMAIN work,
           work[Read(r)].root, cached.revision = work[Read(r)].revision
    PROVE  Sees(r, Of(cached.text))
<1>1. PICK buffer : OneBuffer(buffer)
  BY DEF EditsInv, Captured
<1>2. /\ work[Read(r)].revision \in 0..server.revision /\ server.revision \in Nat
      /\ work[Read(r)].overlay = buffer[work[Read(r)].revision]
  BY <1>1 DEF OneBuffer, EditsInv, Fields
<1>3. cached # Unbuilt
  BY <1>2 DEF Unbuilt, SessionAssumption
<1>4. Shows(buffer[cached.revision], cached.text)
  BY <1>1, <1>3 DEF OneBuffer
<1>5. Captures(r)
  BY DEF EditsInv, Reading
<1>6. asked[r].disk \in 0..disk /\ disk \in Nat
  BY DEF SessionInv, Typed, OnePlace, EditsInv, Saved
<1>7. CASE asked[r].text = NoBuffer
  <2>1. cached.text \in 0..disk /\ cached.text >= asked[r].disk
    BY <1>2, <1>4, <1>5, <1>7 DEF Shows, Captures
  <2> QED
    BY <1>6, <1>7, <2>1 DEF Sees, Of
<1>8. CASE asked[r].text # NoBuffer
  BY <1>2, <1>4, <1>5, <1>8 DEF Shows, Captures, Sees, Of
<1> QED
  BY <1>7, <1>8

\* So is what it builds.
LEMMA BuiltIsSeen ==
    ASSUME SessionAssumption, SessionInv, EditsInv, NEW r \in Requests, Read(r) \in DOMAIN work,
           work[Read(r)].root
    PROVE  Sees(r, Of(Text(work[Read(r)].overlay)))
<1>1. Captures(r)
  BY DEF EditsInv, Reading
<1>2. asked[r].disk \in 0..disk /\ disk \in Nat
  BY DEF SessionInv, Typed, OnePlace, EditsInv, Saved
<1> QED
  BY <1>1, <1>2 DEF Captures, Sees, Of, Text

\* Building and taking snapshots.
LEMMA SnapshotEdits ==
    ASSUME SessionAssumption, SessionInv, EditsInv, NEW t, SnapshotStep(t)
    PROVE  EditsInv'
<1>1. t \in DOMAIN work
  BY DEF SnapshotStep, Rootless, TakesCached, StartsBuild, EndsBuild, FailsBuild, Step, Tasks
<1>2. UNCHANGED <<clientVars, wire, queue, server, answers, asked>>
  BY DEF SnapshotStep, Rootless, TakesCached, StartsBuild, EndsBuild, FailsBuild, Rests, loopVars,
     clientVars
<1>3. \A r \in Requests : answers[r] # << >> => Sees(r, answers[r][1])
  BY DEF EditsInv, Reading
<1>4. \A r, is : is # "built" => Sees(r, Outcome(is))
  BY DEF Sees, Outcome
<1>5. ASSUME NotBuilt(t), cached' = cached PROVE EditsInv'
  <2>1. WorkLeft
    <3>1. CASE Moves(t, "answering", Outcome("error"))
      BY <1>1, <1>4, <3>1, MovesLeft
    <3>2. CASE Ends(t, Outcome("error"))
      <4>1. Outcome("error").is # "built"
        BY DEF Outcome
      <4> QED
        BY <1>1, <3>2, <4>1, EndsLeft
    <3> QED
      BY <1>5, <3>1, <3>2 DEF NotBuilt
  <2> QED
    BY <1>2, <1>3, <1>5, <2>1, TaskEdits DEF CacheLeft
<1>6. CASE TakesCached(t)
  <2>1. /\ work[t].root /\ cached.revision = work[t].revision /\ cached' = cached
        /\ Moves(t, IF IsRead(t) THEN "answering" ELSE "checking", Of(cached.text))
    BY <1>6 DEF TakesCached, Built
  <2>2. \A r \in Requests : t = Read(r) => Sees(r, Of(cached.text))
    BY <1>1, <2>1, CachedIsSeen
  <2>3. WorkLeft
    BY <1>1, <2>1, <2>2, MovesLeft
  <2> QED
    BY <1>2, <1>3, <2>1, <2>3, TaskEdits DEF CacheLeft
<1>7. CASE StartsBuild(t)
  <2>1. work[t].root /\ cached' = cached /\ Moves(t, "building", Outcome("none"))
    BY <1>7 DEF StartsBuild
  <2>2. WorkLeft
    BY <1>1, <1>4, <2>1, MovesLeft
  <2> QED
    BY <1>2, <1>3, <2>1, <2>2, TaskEdits DEF CacheLeft
<1>8. CASE EndsBuild(t)
  <2>1. work[t].root
    BY <1>1, <1>8 DEF EndsBuild, Step, EditsInv, Reading
  <2>2. Moves(t, IF IsRead(t) THEN "answering" ELSE "checking", Of(Text(work[t].overlay)))
    BY <1>8 DEF EndsBuild, Built
  <2>3. \A r \in Requests : t = Read(r) => Sees(r, Of(Text(work[t].overlay)))
    BY <1>1, <2>1, BuiltIsSeen
  <2>4. WorkLeft
    BY <1>1, <2>1, <2>2, <2>3, MovesLeft
  <2>5. CacheLeft
    BY <1>1, <1>8, <2>1 DEF EndsBuild, CacheLeft
  <2>6. server.root
    BY <1>1, <2>1 DEF EditsInv, Fields
  <2> QED
    BY <1>2, <1>3, <2>4, <2>5, <2>6, TaskEdits
<1>9. CASE Rootless(t) \/ FailsBuild(t)
  BY <1>5, <1>9 DEF Rootless, FailsBuild
<1> QED
  BY <1>6, <1>7, <1>8, <1>9 DEF SnapshotStep

\* A read is interrupted, a pass goes on or publishes.
LEMMA OthersEdit ==
    ASSUME SessionAssumption, SessionInv, EditsInv, NEW t,
           Interrupted(t) \/ \E g : t = Pass(g) /\ (Wakes(g) \/ Rechecks(g) \/ ClaimsTurn(g) \/ Publishes(g))
    PROVE  EditsInv'
<1>1. t \in DOMAIN work
  BY DEF Interrupted, Wakes, Rechecks, ClaimsTurn, Publishes, Step, Tasks
<1>2. UNCHANGED <<clientVars, wire, queue, server, answers, cached>>
  BY DEF Interrupted, Wakes, Rechecks, ClaimsTurn, Publishes, Rests, loopVars
<1>3. \A r \in Requests : answers[r] # << >> => Sees(r, answers[r][1])
  BY DEF EditsInv, Reading
<1>4. /\ \A r, is : is # "built" => Sees(r, Outcome(is))
      /\ Outcome("none").is # "built"
  BY DEF Sees, Outcome
<1>5. WorkLeft
  <2>1. CASE Interrupted(t)
    <3>1. Moves(t, "answering", Outcome("cancelled"))
      BY <2>1 DEF Interrupted
    <3> QED
      BY <1>1, <1>4, <3>1, MovesLeft
  <2>2. ASSUME NEW g, t = Pass(g), Wakes(g) \/ Rechecks(g) \/ ClaimsTurn(g) \/ Publishes(g)
        PROVE  WorkLeft
    <3>1. \A r : t # Read(r)
      BY <2>2, Apart
    <3>2. \/ Ends(t, Outcome("none"))
          \/ \E outcome : \E stage \in {"waiting", "claiming", "publishing"} : Moves(t, stage, outcome)
      BY <2>2 DEF Wakes, Rechecks, ClaimsTurn, Publishes
    <3>3. CASE Ends(t, Outcome("none"))
      BY <1>1, <1>4, <3>3, EndsLeft
    <3>4. ASSUME NEW stage \in {"waiting", "claiming", "publishing"}, NEW outcome, Moves(t, stage, outcome)
          PROVE  WorkLeft
      BY <1>1, <3>1, <3>4, MovesLeft
    <3> QED
      BY <3>2, <3>3, <3>4
  <2> QED
    BY <2>1, <2>2
<1> QED
  BY <1>2, <1>3, <1>5, TaskEdits DEF CacheLeft, clientVars

\* A read answers with what it has seen.
LEMMA AnswersEdit ==
    ASSUME SessionAssumption, SessionInv, EditsInv, NEW q \in Requests, Answers(q)
    PROVE  EditsInv'
<1> DEFINE t == Read(q)
<1>1. /\ t \in DOMAIN work /\ work[t].stage # "gone" /\ OnePlace(q) /\ Typed
      /\ Ends(t, Outcome("none")) /\ Send(q, work[t].outcome)
  BY DEF Answers, Step, Tasks, SessionInv
<1>2. UNCHANGED <<clientVars, wire, queue, server, cached, asked, disk>>
  BY DEF Answers, clientVars
<1>3. WorkLeft
  <2>1. Outcome("none").is # "built"
    BY DEF Outcome
  <2> QED
    BY <1>1, <2>1, EndsLeft
<1>4. /\ answers' = [answers EXCEPT ![q] = Append(@, work[t].outcome)]
      /\ answers[q] = << >> /\ q \in DOMAIN answers /\ q # First
  BY <1>1 DEF Send, OnePlace, Typed, First, SessionAssumption
<1>5. answers'[q] = <<work[t].outcome>> /\ \A r \in DOMAIN answers \ {q} : answers'[r] = answers[r]
  BY <1>1, <1>4 DEF Typed
<1>6. \A r \in Requests : answers'[r] # << >> => Sees(r, answers'[r][1])
  <2>1. Sees(q, work[t].outcome) /\ \A r \in Requests : answers[r] # << >> => Sees(r, answers[r][1])
    BY <1>1 DEF EditsInv, Reading
  <2> QED
    BY <1>1, <1>5, <2>1 DEF Typed
<1>7. answers'[First] = answers[First]
  BY <1>1, <1>4, <1>5 DEF Typed, First
<1> QED
  BY <1>2, <1>3, <1>6, <1>7, TaskEdits DEF CacheLeft

-----------------------------------------------------------------------------
(* The steps of the loop.                                                   *)

\* The session as the handling of a message leaves it.
SessionLeft(message) ==
    /\ {"root", "overlay", "revision", "shutdown", "serving"} \subseteq DOMAIN server'
    /\ server' = [x \in DOMAIN server' |-> server'[x]]
    /\ server'.root \in BOOLEAN
    /\ server.root => server'.root
    /\ server'.root => server.root \/ (~editor.started /\ answers'[First] # << >>)
    /\ \/ /\ server'.revision = server.revision /\ server'.overlay = server.overlay
          /\ ~Mutating(message) \/ ~server'.root
       \/ /\ server'.revision = server.revision + 1 /\ server'.root
          /\ server'.overlay = After(server.overlay, message)

\* The tasks: one more at most, over this session.
SpawnLeft(message) ==
    \A u \in DOMAIN work' :
        \/ u \in DOMAIN work /\ work'[u] = work[u]
        \/ /\ {"root", "overlay", "revision"} \subseteq DOMAIN work'[u]
           /\ work'[u].root = server'.root /\ work'[u].revision = server'.revision
           /\ work'[u].overlay = server'.overlay
           /\ work'[u].stage # "building" /\ work'[u].outcome.is # "built"
           /\ \A r \in Requests : u = Read(r) => Asks(message, r) /\ server' = server

\* And the answers: none of them with a snapshot.
AnswersLeft(message) ==
    /\ answers'[First] = answers[First] \/ (answers'[First] # << >> /\ Asks(message, First))
    /\ \A r \in Requests : answers'[r] = answers[r] \/ answers'[r][1].is # "built"

\* A session that has no snapshot of its revision has no stale one.
LEMMA NothingCached ==
    ASSUME NEW s, NEW up, \A r \in Requests : r \in up, NEW late
    PROVE  Paced(s, late, up)
BY DEF Paced

\* A message changes the session before the next is handled: a buffer for the new
\* revision, if it is one.
LEMMA QueueCaptured ==
    ASSUME SessionInv, EditsInv, UNCHANGED <<disk, cached>>, NEW message, SessionLeft(message), SpawnLeft(message)
    PROVE  Captured'
<1>1. PICK buffer : OneBuffer(buffer)
  BY DEF EditsInv, Captured
<1>2. server.revision \in Nat /\ \A b, text : Shows(b, text) => Shows(b, text)'
  BY DEF EditsInv, Fields, Shows
<1>3. CASE server'.revision = server.revision /\ server'.overlay = server.overlay
  <2>1. OneBuffer(buffer)'
    BY <1>1, <1>2, <1>3 DEF OneBuffer, SpawnLeft
  <2> QED
    BY <2>1 DEF Captured
<1>4. CASE server'.revision = server.revision + 1
  <2>1. PICK next :
          /\ next[server'.revision] = server'.overlay
          /\ \A i \in 0..server.revision : next[i] = buffer[i] /\ i \in 0..server'.revision
          /\ server'.revision \in 0..server'.revision
    <3> DEFINE f == [i \in 0..server.revision + 1 |->
                       IF i = server.revision + 1 THEN server'.overlay ELSE buffer[i]]
    <3>1. /\ f[server'.revision] = server'.overlay
          /\ \A i \in 0..server.revision : f[i] = buffer[i] /\ i \in 0..server'.revision
          /\ server'.revision \in 0..server'.revision
      BY <1>2, <1>4
    <3> QED
      BY <3>1
  <2>2. cached' # Unbuilt => /\ cached'.revision \in 0..server'.revision
                             /\ Shows(next[cached'.revision], cached'.text)
    BY <1>1, <2>1 DEF OneBuffer
  <2>3. ASSUME NEW t \in DOMAIN work', work'[t].root
        PROVE  /\ work'[t].revision \in 0..server'.revision
               /\ work'[t].overlay = next[work'[t].revision]
    BY <1>1, <2>1, <2>3 DEF OneBuffer, SpawnLeft
  <2>4. OneBuffer(next)'
    BY <1>2, <2>1, <2>2, <2>3 DEF OneBuffer
  <2> QED
    BY <2>4 DEF Captured
<1> QED
  BY <1>3, <1>4 DEF SessionLeft

\* The first message of the queue is handled.
LEMMA QueueEdits ==
    ASSUME SessionAssumption, SessionInv, EditsInv, queue # << >>, queue' = Tail(queue),
           UNCHANGED <<clientVars, wire, cached>>,
           SessionLeft(Head(queue)), SpawnLeft(Head(queue)), AnswersLeft(Head(queue))
    PROVE  EditsInv'
<1> DEFINE message == Head(queue)
<1>1. UNCHANGED <<editor, disk, ahead, asked, wire, cached>>
  BY DEF clientVars
<1>2. /\ Fields /\ Begun /\ Saved /\ Buffers /\ Fresh /\ Reading
      /\ wire \in Seq(Messages) /\ queue \in Seq(Messages)
      /\ disk \in Nat /\ server.revision \in Nat
      /\ \A r \in Requests : OnePlace(r)
  BY DEF EditsInv, SessionInv, Typed, Fields
<1>3. Captured'
  BY <1>1, QueueCaptured
<1>4. /\ Waits(queue', First) => Waits(queue, First)
      /\ Asks(message, First) => Waits(queue, First)
      /\ Once(queue, First) => Once(queue', First)
      /\ Once(queue, First) /\ Asks(message, First) => ~Waits(queue', First)
  BY <1>2, Departs
<1>5. Revising(queue) <=> (Revising(queue') \/ Mutating(message))
  BY <1>2, RevisingLess
<1>6. /\ Paced(queue', FALSE \/ Mutating(message), Up)
      /\ \A r \in Requests : Asks(message, r) => r \in Up
  <2>1. Paced(queue, FALSE, Up)
    BY <1>2 DEF Fresh
  <2> QED
    BY <1>2, <2>1, PacedLess
<1>7. server'.root \/ ~editor.started => server.root \/ ~editor.started
  BY DEF SessionLeft
<1>8. ASSUME server.root \/ ~editor.started
      PROVE  \E between : /\ Carries(queue', asked, After(server.overlay, message), between)
                          /\ Carries(wire, asked, between, ahead)
                          /\ \A r \in Requests : Asks(message, r) => asked[r].text = server.overlay
  <2>1. PICK between : Carries(queue, asked, server.overlay, between) /\ Carries(wire, asked, between, ahead)
    BY <1>2, <1>8 DEF Buffers
  <2>2. /\ Carries(Tail(queue), asked, After(server.overlay, message), between)
        /\ \A r \in Requests : Asks(message, r) => asked[r].text = server.overlay
    BY <1>2, <2>1, CarriesLess
  <2> QED
    BY <2>1, <2>2
<1> HIDE DEF message
<1>9. SessionLeft(message) /\ SpawnLeft(message) /\ AnswersLeft(message)
  BY DEF message
<1>10. Fields'
  <2>1. server'.revision \in Nat
    BY <1>2, <1>9 DEF SessionLeft
  <2> QED
    BY <1>1, <1>2, <1>9, <2>1 DEF Fields, SessionLeft, SpawnLeft
<1>11. Begun'
  BY <1>1, <1>2, <1>4, <1>5, <1>9 DEF Begun, AnswersLeft, SessionLeft
<1>12. Saved'
  BY <1>1, <1>2 DEF Saved
<1>13. Buffers'
  <2>1. ASSUME server'.root \/ ~editor.started PROVE server'.overlay = After(server.overlay, message)
    <3>1. ~editor.started => ~Mutating(message)
      BY <1>2, <1>5 DEF Begun
    <3> QED
      BY <1>9, <2>1, <3>1, AfterOthers DEF SessionLeft
  <2> QED
    BY <1>1, <1>7, <1>8, <2>1 DEF Buffers
<1>14. Fresh'
  <2>1. CASE \A d : NewerThan(d)'
    <3>1. \A r \in Requests : r \in Up'
      BY <2>1 DEF Up
    <3> QED
      BY <2>1, <3>1, NothingCached DEF Fresh
  <2>2. CASE /\ server'.revision = server.revision /\ server'.overlay = server.overlay
             /\ ~Mutating(message)
    <3>1. Up' = Up /\ (NewerThan(disk)' <=> NewerThan(disk))
      BY <1>1, <2>2 DEF Up, NewerThan
    <3>2. Revising(queue') <=> Revising(queue)
      BY <1>5, <2>2
    <3>3. Paced(queue', FALSE, Up')
      <4>1. (FALSE \/ Mutating(message)) = FALSE
        BY <2>2
      <4> QED
        BY <1>6, <3>1, <4>1
    <3>4. Paced(wire, Revising(queue'), Up')
      <4>1. Len(wire) \in Nat /\ DOMAIN wire = 1..Len(wire) /\ Paced(wire, Revising(queue), Up)
        BY <1>2 DEF Fresh
      <4> QED
        BY ONLY <3>1, <3>2, <4>1, PacedAlike
    <3>5. Revising(queue) \/ Revising(wire) \/ NewerThan(disk)
      BY <1>2 DEF Fresh
    <3> QED
      BY <1>1, <3>1, <3>2, <3>3, <3>4, <3>5 DEF Fresh
  <2>3. CASE ~server.root
    <3>1. cached.revision = NoBuffer
      BY <1>2, <2>3 DEF Fields, Unbuilt
    <3>2. server'.revision \in Nat
      BY <1>10 DEF Fields
    <3>3. \A d : NewerThan(d)'
      BY <1>1, <3>1, <3>2 DEF NewerThan, SessionAssumption
    <3> QED
      BY <2>1, <3>3
  <2>4. CASE server'.revision = server.revision + 1
    <3>1. cached.revision # server.revision + 1
      <4>1. cached = Unbuilt \/ cached.revision \in 0..server.revision
        BY DEF EditsInv, Captured, OneBuffer
      <4> QED
        BY <1>2, <4>1 DEF Unbuilt, SessionAssumption
    <3>2. \A d : NewerThan(d)'
      BY <1>1, <2>4, <3>1 DEF NewerThan
    <3> QED
      BY <2>1, <3>2
  <2> QED
    BY <1>9, <2>2, <2>3, <2>4 DEF SessionLeft
<1>15. Reading'
  <2>1. \A r, answer : Sees(r, answer)' <=> Sees(r, answer)
    BY <1>1 DEF Sees
  <2>2. ASSUME NEW r \in Requests, Read(r) \in DOMAIN work'
        PROVE  /\ work'[Read(r)].root => Captures(r)'
               /\ Sees(r, work[Read(r)].outcome)'
    <3>1. CASE Read(r) \in DOMAIN work /\ work'[Read(r)] = work[Read(r)]
      <4>1. /\ work[Read(r)].root => Captures(r)
            /\ Sees(r, work[Read(r)].outcome)
        BY <1>2, <3>1 DEF Reading
      <4>2. Captures(r) => Captures(r)'
        BY <1>1, <3>1 DEF Captures
      <4>3. Sees(r, work[Read(r)].outcome)'
        BY <1>1, <3>1, <4>1 DEF Sees
      <4> QED
        BY <3>1, <4>1, <4>2, <4>3
    <3>2. CASE /\ work'[Read(r)].root = server.root /\ work'[Read(r)].revision = server.revision
               /\ work'[Read(r)].overlay = server.overlay
               /\ work'[Read(r)].outcome.is # "built" /\ Asks(message, r)
      <4>1. ASSUME work'[Read(r)].root PROVE Captures(r)'
        <5>1. server.root /\ asked[r].text = server.overlay
          BY <1>8, <3>2, <4>1
        <5>2. NewerThan(asked[r].disk)
          BY <1>6, <3>2 DEF Up
        <5> QED
          BY <1>1, <3>2, <5>1, <5>2 DEF Captures, NewerThan
      <4>2. Sees(r, work[Read(r)].outcome)'
        BY <3>2 DEF Sees
      <4> QED
        BY <4>1, <4>2
    <3> QED
      BY <1>9, <2>2, <3>1, <3>2 DEF SpawnLeft
  <2>3. ASSUME NEW t \in DOMAIN work', work'[t].stage = "building" PROVE work'[t].root
    BY <1>2, <1>9, <2>3 DEF Reading, SpawnLeft
  <2>4. ASSUME NEW r \in Requests, answers'[r] # << >> PROVE Sees(r, answers[r][1])'
    <3>1. CASE answers'[r] = answers[r]
      BY <1>1, <1>2, <2>4, <3>1 DEF Reading, Sees
    <3>2. CASE answers'[r][1].is # "built"
      BY <3>2 DEF Sees
    <3> QED
      BY <1>9, <3>1, <3>2 DEF AnswersLeft
  <2> QED
    BY <2>2, <2>3, <2>4 DEF Reading
<1> QED
  BY <1>3, <1>10, <1>11, <1>12, <1>13, <1>14, <1>15 DEF EditsInv

\* What the wire holds goes on to the queue, and the cancellations go their way.
LEMMA IntakeEdits == ASSUME SessionAssumption, SessionInv, EditsInv, Intake PROVE EditsInv'
<1> DEFINE message == Head(wire)
<1>1. /\ Fields /\ Begun /\ Saved /\ Buffers /\ Fresh /\ Reading /\ Captured
      /\ wire \in Seq(Messages) /\ queue \in Seq(Messages) /\ wire # << >> /\ Typed
  BY DEF EditsInv, SessionInv, Typed, Intake
<1>2. /\ UNCHANGED <<editor, disk, ahead, asked, server, cached, answers>>
      /\ wire' = Tail(wire)
  BY DEF Intake, clientVars
<1>3. \/ message.kind # "cancel" /\ queue' = Append(queue, message) /\ work' = work
      \/ /\ message.kind = "cancel" /\ queue' = queue
         /\ work' = work \/ work' = [work EXCEPT ![Read(message.id)].cancelled = TRUE]
  BY DEF Intake
<1>4. /\ Waits(wire', First) => Waits(wire, First)
      /\ Asks(message, First) => Waits(wire, First)
      /\ Once(wire, First) => Once(wire', First)
      /\ Once(wire, First) /\ Asks(message, First) => ~Waits(wire', First)
      /\ message \in Messages /\ wire' \in Seq(Messages)
  BY <1>1, <1>2, Departs
<1>5. Revising(wire) <=> (Revising(wire') \/ Mutating(message))
  BY <1>1, <1>2, RevisingLess
<1>6. /\ Paced(wire', Revising(queue) \/ Mutating(message), Up)
      /\ \A r \in Requests : Asks(message, r) => Revising(queue) \/ r \in Up
      /\ Paced(queue, FALSE, Up)
  <2>1. Paced(queue, FALSE, Up) /\ Paced(wire, Revising(queue), Up)
    BY <1>1 DEF Fresh
  <2>2. wire \in Seq(Messages) /\ wire # << >>
    BY <1>1
  <2>3. /\ Paced(Tail(wire), Revising(queue) \/ Mutating(Head(wire)), Up)
        /\ \A r \in Requests : Asks(Head(wire), r) => Revising(queue) \/ r \in Up
    BY ONLY <2>1, <2>2, PacedLess
  <2> QED
    BY <1>2, <2>1, <2>3
<1>7. ASSUME server.root \/ ~editor.started
      PROVE  \E between : /\ Carries(queue, asked, server.overlay, between)
                          /\ Carries(wire', asked, After(between, message), ahead)
                          /\ \A r \in Requests : Asks(message, r) => asked[r].text = between
  <2>1. PICK between : Carries(queue, asked, server.overlay, between) /\ Carries(wire, asked, between, ahead)
    BY <1>1, <1>7 DEF Buffers
  <2>2. /\ Carries(Tail(wire), asked, After(between, message), ahead)
        /\ \A r \in Requests : Asks(message, r) => asked[r].text = between
    BY <1>1, <2>1, CarriesLess
  <2> QED
    BY <1>2, <2>1, <2>2
<1> HIDE DEF message
<1>8. Up' = Up /\ (NewerThan(disk)' <=> NewerThan(disk)) /\ (Revising(queue) \/ Revising(wire) \/ NewerThan(disk))
  BY <1>1, <1>2 DEF Up, NewerThan, Fresh
<1>9. CASE message.kind # "cancel"
  <2>1. queue' = Append(queue, message) /\ work' = work
    BY <1>3, <1>9
  <2>2. Fields' /\ Saved' /\ Captured' /\ Reading'
    BY <1>1, <1>2, <2>1 DEF Fields, Saved, Captured, OneBuffer, Shows, Reading, Captures, Sees
  <2>3. /\ Waits(queue', First) <=> (Waits(queue, First) \/ Asks(message, First))
        /\ Once(queue, First) /\ ~(Waits(queue, First) /\ Asks(message, First)) => Once(queue', First)
        /\ queue' \in Seq(Messages)
    BY <1>1, <1>4, <2>1, Arrives
  <2>4. Revising(queue') <=> (Revising(queue) \/ Mutating(message))
    BY <1>1, <1>4, <2>1, RevisingMore
  <2>5. Begun'
    BY <1>1, <1>2, <1>4, <1>5, <2>3, <2>4 DEF Begun
  <2>6. Buffers'
    <3>1. ASSUME server.root \/ ~editor.started
          PROVE  \E between : /\ Carries(queue', asked, server.overlay, between)
                              /\ Carries(wire', asked, between, ahead)
      <4>1. PICK between : /\ Carries(queue, asked, server.overlay, between)
                           /\ Carries(wire', asked, After(between, message), ahead)
                           /\ \A r \in Requests : Asks(message, r) => asked[r].text = between
        BY <1>7, <3>1
      <4>2. Carries(Append(queue, message), asked, server.overlay, After(between, message))
        BY <1>1, <1>4, <4>1, CarriesMore
      <4> QED
        BY <2>1, <4>1, <4>2
    <3> QED
      BY <1>2, <3>1 DEF Buffers
  <2>7. Fresh'
    <3>1. Paced(queue', FALSE, Up')
      <4>1. Paced(Append(queue, message), FALSE, Up)
        BY <1>1, <1>4, <1>6, PacedMore
      <4> QED
        BY <1>8, <2>1, <4>1
    <3>2. Paced(wire', Revising(queue'), Up')
      <4>1. Len(wire') \in Nat /\ DOMAIN wire' = 1..Len(wire')
        BY <1>4
      <4> QED
        BY ONLY <1>6, <1>8, <2>4, <4>1, PacedAlike
    <3> QED
      BY <1>2, <1>5, <1>8, <2>4, <3>1, <3>2 DEF Fresh
  <2> QED
    BY <2>2, <2>5, <2>6, <2>7 DEF EditsInv
<1>10. CASE message.kind = "cancel"
  <2>1. /\ \A r : ~Asks(message, r)
        /\ ~Mutating(message) /\ queue' = queue
    BY <1>3, <1>10 DEF Asks, Mutating
  <2>2. \A b : After(b, message) = b
    BY <2>1, AfterOthers
  <2>3. /\ DOMAIN work' = DOMAIN work
        /\ \A t \in DOMAIN work :
             /\ {"root", "overlay", "revision"} \subseteq DOMAIN work'[t]
             /\ work'[t].stage = work[t].stage /\ work'[t].outcome = work[t].outcome
             /\ work'[t].root = work[t].root /\ work'[t].revision = work[t].revision
             /\ work'[t].overlay = work[t].overlay
    <3>1. CASE work' = work
      BY <1>1, <3>1 DEF Fields
    <3>2. CASE work' = [work EXCEPT ![Read(message.id)].cancelled = TRUE]
      <4> DEFINE t == Read(message.id)
                 told == [work[t] EXCEPT !.cancelled = TRUE]
      <4>1. work' = [work EXCEPT ![t] = told] /\ work = [u \in DOMAIN work |-> work[u]]
        BY <1>1, <3>2 DEF Typed
      <4>2. t \in DOMAIN work =>
              /\ {"root", "overlay", "revision"} \subseteq DOMAIN told
              /\ told.stage = work[t].stage /\ told.outcome = work[t].outcome
              /\ told.root = work[t].root /\ told.revision = work[t].revision
              /\ told.overlay = work[t].overlay
        BY <1>1 DEF Typed, Fields
      <4> HIDE DEF told
      <4> QED
        BY <1>1, <4>1, <4>2 DEF Fields
    <3> QED
      BY <1>3, <1>10, <3>1, <3>2
  <2>4. Fields' /\ Saved' /\ Captured'
    BY <1>1, <1>2, <2>3 DEF Fields, Saved, Captured, OneBuffer, Shows
  <2>5. Reading'
    BY <1>1, <1>2, <2>3 DEF Reading, Captures, Sees
  <2>6. Begun'
    BY <1>1, <1>2, <1>4, <1>5, <2>1 DEF Begun
  <2>7. Buffers'
    BY <1>2, <1>7, <2>1, <2>2 DEF Buffers
  <2>8. Fresh'
    <3>1. Paced(wire', Revising(queue'), Up')
      <4>1. Len(wire') \in Nat /\ DOMAIN wire' = 1..Len(wire')
        BY <1>4
      <4> QED
        BY ONLY <1>6, <1>8, <2>1, <4>1, PacedAlike
    <3> QED
      BY <1>2, <1>5, <1>6, <1>8, <2>1, <3>1 DEF Fresh
  <2> QED
    BY <2>4, <2>5, <2>6, <2>7, <2>8 DEF EditsInv
<1> QED
  BY <1>9, <1>10

\* Every message of the loop, in turn, and the end of its input.
LEMMA LoopEdits == ASSUME SessionAssumption, SessionInv, EditsInv, LoopStep PROVE EditsInv'
<1> DEFINE message == Head(queue)
<1>1. /\ Fields /\ Begun /\ Reading /\ Typed /\ queue \in Seq(Messages)
      /\ \A r \in Requests : OnePlace(r)
      /\ cancellations \subseteq Requests
  BY DEF EditsInv, SessionInv, Typed, Fields, CancelsAreAsked, Editors
<1>2. queue # << >> => message \in Messages /\ \A r \in Requests \cup {First} : Asks(message, r) => Waits(queue, r)
  BY <1>1, Departs
<1>3. message \in Messages =>
        /\ message.kind = "request" =>
             /\ message.method \in {"read", "unknown"} => message.id \in Requests
             /\ message.method = "initialize" => message.id = First
  BY Kinds DEF First
<1>4. First \notin Requests /\ DOMAIN answers = Requests \cup {First}
  BY <1>1 DEF First, SessionAssumption, Typed
<1>5. (\A u \in DOMAIN work : work[u] = work[u]) /\ work = [u \in DOMAIN work |-> work[u]]
  BY <1>1 DEF Typed
<1> HIDE DEF message
<1>6. ASSUME work' = work PROVE SpawnLeft(message)
  BY <1>6 DEF SpawnLeft
<1>7. ASSUME answers' = answers PROVE AnswersLeft(message)
  BY <1>7 DEF AnswersLeft
<1>8. ASSUME server' = server, ~Mutating(message) PROVE SessionLeft(message)
  BY <1>1, <1>8 DEF SessionLeft, Fields
<1>9. ASSUME NEW r \in Requests \cup {First}, NEW outcome, queue # << >>,
             message.kind = "request", message.id = r, outcome.is # "built",
             Send(r, outcome)
      PROVE  AnswersLeft(message)
  <2>1. Asks(message, r) /\ Waits(queue, r)
    BY <1>2, <1>9 DEF Asks
  <2>2. answers[r] = << >>
    BY <1>1, <1>9, <2>1 DEF OnePlace, Begun
  <2>3. answers'[r] = <<outcome>> /\ \A q \in DOMAIN answers \ {r} : answers'[q] = answers[q]
    BY <1>1, <1>4, <1>9, <2>2 DEF Send, Typed
  <2>4. answers'[r] # << >> /\ answers'[r][1] = outcome
    BY <2>3
  <2> QED
    BY <1>4, <1>9, <2>1, <2>3, <2>4 DEF AnswersLeft
<1>10. ASSUME NEW t, NEW stage, Spawn(t, Task(stage, server')), stage # "building",
              \A r \in Requests : t = Read(r) => Asks(message, r) /\ server' = server
       PROVE  SpawnLeft(message)
  <2> DEFINE task == Task(stage, server')
  <2>1. /\ task.root = server'.root /\ task.revision = server'.revision
        /\ task.overlay = server'.overlay /\ task.stage # "building" /\ task.outcome.is # "built"
        /\ {"root", "overlay", "revision"} \subseteq DOMAIN task
    BY <1>10 DEF Task, Outcome
  <2>2. work' = [u \in DOMAIN work \cup {t} |-> IF u = t THEN task ELSE work[u]]
    BY <1>10 DEF Spawn
  <2> HIDE DEF task
  <2> QED
    BY <1>10, <2>1, <2>2 DEF SpawnLeft
<1>11. \A is : is # "built" => Outcome(is).is # "built"
  BY DEF Outcome
<1>12. CASE HandleCancelled
  <2>1. /\ queue # << >> /\ queue' = Tail(queue) /\ UNCHANGED <<clientVars, wire, cached, server, work>>
        /\ message.kind = "request" /\ message.id \in Requests /\ Send(message.id, Outcome("cancelled"))
    BY <1>1, <1>12 DEF HandleCancelled, message
  <2>2. SessionLeft(message) /\ SpawnLeft(message) /\ AnswersLeft(message)
    BY <1>6, <1>8, <1>9, <1>11, <2>1 DEF Mutating
  <2> QED
    BY <2>1, <2>2, QueueEdits DEF message
<1>13. CASE HandleUnknown
  <2>1. /\ queue # << >> /\ queue' = Tail(queue) /\ UNCHANGED <<clientVars, wire, cached, server, work>>
        /\ message.kind = "request" /\ message.id \in Requests /\ Send(message.id, Outcome("unknown"))
    BY <1>2, <1>3, <1>13 DEF HandleUnknown, Dispatched, message
  <2>2. SessionLeft(message) /\ SpawnLeft(message) /\ AnswersLeft(message)
    BY <1>6, <1>8, <1>9, <1>11, <2>1 DEF Mutating
  <2> QED
    BY <2>1, <2>2, QueueEdits DEF message
<1>14. ASSUME NEW found \in BOOLEAN, HandleInitialize(found) PROVE EditsInv'
  <2>1. /\ queue # << >> /\ queue' = Tail(queue) /\ UNCHANGED <<clientVars, wire, cached>>
        /\ message.kind = "request" /\ message.method = "initialize" /\ work' = work
        /\ server' = [server EXCEPT !.root = found]
        /\ Send(message.id, Outcome(IF found THEN "ready" ELSE "error"))
    BY <1>14 DEF HandleInitialize, Dispatched, message
  <2>2. message.id = First /\ Asks(message, First)
    BY <1>2, <1>3, <2>1 DEF Asks
  <2>3. ~editor.started
    BY <1>1, <1>2, <2>1, <2>2 DEF Begun
  <2>4. Outcome(IF found THEN "ready" ELSE "error").is # "built"
    BY <1>11
  <2>5. AnswersLeft(message) /\ SpawnLeft(message)
    BY <1>6, <1>9, <2>1, <2>2, <2>4
  <2>6. SessionLeft(message)
    <3>1. ~Mutating(message)
      BY <2>1 DEF Mutating
    <3>2. ~server.root /\ answers[First] = << >>
      BY <1>1, <1>2, <2>1, <2>2 DEF Begun
    <3>3. answers'[First] # << >>
      BY <1>1, <1>4, <2>1, <2>2, <3>2 DEF Send, Typed
    <3> QED
      BY <1>1, <2>1, <2>3, <3>1, <3>2, <3>3 DEF SessionLeft, Fields
  <2> QED
    BY <2>1, <2>5, <2>6, QueueEdits DEF message
<1>15. CASE HandleShutdown \/ HandleExit
  <2>1. /\ queue # << >> /\ queue' = Tail(queue) /\ UNCHANGED <<clientVars, wire, cached, work, answers>>
        /\ ~Mutating(message)
        /\ server' = [server EXCEPT !.shutdown = TRUE] \/ server' = [server EXCEPT !.serving = FALSE]
    BY <1>15 DEF HandleShutdown, HandleExit, Dispatched, message, Mutating, Documents, taskVars
  <2>2. SessionLeft(message)
    BY <1>1, <2>1 DEF SessionLeft, Fields
  <2> QED
    BY <1>6, <1>7, <2>1, <2>2, QueueEdits DEF message
<1>16. CASE HandleRead
  <2>1. /\ queue # << >> /\ queue' = Tail(queue)
        /\ UNCHANGED <<clientVars, wire, cached, server, answers>>
        /\ message.kind = "request" /\ message.id \in Requests
        /\ Spawn(Read(message.id), Task("waiting", server))
    BY <1>2, <1>3, <1>16 DEF HandleRead, Dispatched, message
  <2>2. \A r \in Requests : Read(message.id) = Read(r) => Asks(message, r)
    BY <2>1, Apart DEF Asks
  <2>3. SessionLeft(message) /\ SpawnLeft(message)
    BY <1>8, <1>10, <2>1, <2>2 DEF Mutating
  <2> QED
    BY <1>7, <2>1, <2>3, QueueEdits DEF message
<1>17. CASE HandleInitialized
  <2>1. /\ queue # << >> /\ queue' = Tail(queue)
        /\ UNCHANGED <<clientVars, wire, cached, server, answers>>
        /\ ~Mutating(message)
        /\ Spawn(Pass(generation'), Task("sleeping", server))
    BY <1>17 DEF HandleInitialized, Schedule, Dispatched, message, Mutating, Documents
  <2>2. SessionLeft(message) /\ SpawnLeft(message)
    BY <1>8, <1>10, <2>1, Apart
  <2> QED
    BY <1>7, <2>1, <2>2, QueueEdits DEF message
<1>18. CASE HandleDocument
  <2>1. /\ queue # << >> /\ queue' = Tail(queue) /\ UNCHANGED <<clientVars, wire, cached, answers>>
        /\ message.kind = "notice" /\ message.method \in Documents
        /\ server' = IF Mutates(message)
                     THEN [server EXCEPT !.overlay = Edited(@, message), !.revision = @ + 1]
                     ELSE server
        /\ Spawn(Pass(generation'), Task("sleeping", server'))
    BY <1>18 DEF HandleDocument, Schedule, Dispatched, message, Documents
  <2>2. SpawnLeft(message)
    BY <1>10, <2>1, Apart
  <2>3. SessionLeft(message)
    <3>1. CASE Mutates(message)
      <4>1. server' = [[server EXCEPT !.overlay = After(server.overlay, message)]
                          EXCEPT !.revision = server.revision + 1]
        BY <1>1, <2>1, <3>1 DEF Fields, After
      <4>2. server.root
        BY <3>1 DEF Mutates
      <4> QED
        BY <1>1, <4>1, <4>2 DEF Fields, SessionLeft
    <3>2. CASE ~Mutates(message)
      <4>1. server' = server /\ (~Mutating(message) \/ ~server.root)
        BY <2>1, <3>2 DEF Mutates, Mutating
      <4> QED
        BY <1>1, <4>1 DEF Fields, SessionLeft
    <3> QED
      BY <3>1, <3>2
  <2> QED
    BY <1>7, <2>1, <2>2, <2>3, QueueEdits DEF message
<1>19. CASE EndOfInput
  <2>1. /\ UNCHANGED <<editor, disk, ahead, asked, wire, queue, work, cached, answers>>
        /\ server' = [server EXCEPT !.serving = FALSE]
    BY <1>19 DEF EndOfInput, clientVars, taskVars
  <2>2. /\ DOMAIN server' = DOMAIN server /\ server' = [x \in DOMAIN server' |-> server'[x]]
        /\ server'.root = server.root /\ server'.revision = server.revision
        /\ server'.overlay = server.overlay
    BY <1>1, <2>1 DEF Fields
  <2>3. Fields' /\ Begun' /\ Saved'
    BY <1>1, <2>1, <2>2 DEF EditsInv, Fields, Begun, Saved
  <2>4. Up' = Up /\ (NewerThan(disk)' <=> NewerThan(disk))
    BY <2>1, <2>2 DEF Up, NewerThan
  <2>5. Buffers' /\ Fresh'
    BY <2>1, <2>2, <2>4 DEF EditsInv, Buffers, Fresh
  <2>6. Captured' /\ Reading'
    BY <2>1, <2>2 DEF EditsInv, Captured, OneBuffer, Shows, Reading, Captures, Sees
  <2> QED
    BY <2>3, <2>5, <2>6 DEF EditsInv
<1> QED
  BY <1>12, <1>13, <1>14, <1>15, <1>16, <1>17, <1>18, <1>19, IntakeEdits DEF LoopStep

-----------------------------------------------------------------------------
(* The steps of the editor.                                                 *)

\* The editor's part of what it may leave: later texts, a later file, and requests
\* made over the file as it was.
EditorLeft ==
    /\ disk' \in Nat /\ disk' >= disk /\ editor'.text >= disk'
    /\ editor.started => editor'.started
    /\ editor'.started => answers[First] # << >>
    /\ \A r \in Requests : asked'[r] = asked[r] \/ (asked[r] = Unasked /\ asked'[r].disk = disk)

\* And the wire's.
WireLeft ==
    /\ Once(wire', First) /\ (Waits(wire', First) <=> Waits(wire, First))
    /\ \A b : Carries(wire, asked, b, ahead) => Carries(wire', asked', b, ahead')
    /\ Paced(wire', Revising(queue), Up')
    /\ Revising(wire) => Revising(wire')
    /\ Revising(wire') => Revising(wire) \/ editor'.started
    /\ disk' # disk => Revising(wire')

\* What was asked before, and what it counts on, stays.
LEMMA AskedStays ==
    ASSUME SessionInv, EditsInv, EditorLeft, UNCHANGED <<server, cached>>
    PROVE  /\ \A r \in Requests : asked[r] # Unasked => asked'[r] = asked[r] /\ (r \in Up => r \in Up')
           /\ \A r \in Requests : Waits(wire, r) \/ Waits(queue, r) => asked[r] # Unasked
<1>1. \A r \in Requests : asked[r] # Unasked => asked'[r] = asked[r]
  BY DEF EditorLeft
<1>2. \A r \in Requests : asked'[r] = asked[r] /\ r \in Up => r \in Up'
  BY DEF Up, NewerThan
<1>3. \A r \in Requests : Waits(wire, r) \/ Waits(queue, r) => asked[r] # Unasked
  BY DEF SessionInv, OnePlace
<1> QED
  BY <1>1, <1>2, <1>3

\* Then the rest holds as it did.
LEMMA EditorEdits ==
    ASSUME SessionAssumption, SessionInv, EditsInv, EditorLeft, WireLeft,
           UNCHANGED <<queue, server, work, cached, answers>>
    PROVE  EditsInv'
<1>1. /\ Fields /\ Begun /\ Saved /\ Buffers /\ Fresh /\ Captured /\ Reading
      /\ queue \in Seq(Messages) /\ disk \in Nat
      /\ Len(queue) \in Nat /\ DOMAIN queue = 1..Len(queue)
      /\ \A r \in Requests : OnePlace(r)
  BY DEF EditsInv, SessionInv, Typed
<1>2. \A r \in Requests : Waits(queue, r) => asked'[r] = asked[r] /\ (r \in Up => r \in Up')
  BY AskedStays
<1>3. UNCHANGED <<queue, server, work, cached, answers>>
  OBVIOUS
<1>4. /\ disk' \in Nat /\ disk' >= disk
      /\ \A r \in Requests : asked[r] # Unasked => asked'[r] = asked[r]
  BY DEF EditorLeft
<1>5. Fields' /\ Begun'
  BY <1>1, <1>3 DEF Fields, Begun, EditorLeft, WireLeft
<1>6. Saved'
  <2>1. ASSUME NEW r \in Requests PROVE asked'[r] # Unasked => asked'[r].disk \in 0..disk'
    BY <1>1, <1>4 DEF Saved, EditorLeft
  <2> QED
    BY <2>1 DEF Saved, EditorLeft
<1>7. Buffers'
  <2>1. ASSUME server.root \/ ~editor'.started
        PROVE  \E between : /\ Carries(queue, asked', server.overlay, between)
                            /\ Carries(wire', asked', between, ahead')
    <3>1. server.root \/ ~editor.started
      BY <2>1 DEF EditorLeft
    <3>2. PICK between : Carries(queue, asked, server.overlay, between) /\ Carries(wire, asked, between, ahead)
      BY <1>1, <3>1 DEF Buffers
    <3>3. Carries(queue, asked', server.overlay, between)
      BY <1>1, <1>2, <3>2, CarriesAlike
    <3> QED
      BY <3>2, <3>3 DEF WireLeft
  <2> QED
    BY <1>3, <2>1 DEF Buffers
<1>8. Fresh'
  <2>1. Paced(queue, FALSE, Up')
    <3>1. Paced(queue, FALSE, Up)
      BY <1>1 DEF Fresh
    <3> QED
      BY ONLY <1>1, <1>2, <3>1, PacedAlike
  <2>2. Revising(queue) \/ Revising(wire') \/ NewerThan(disk)'
    <3>1. disk' = disk => (NewerThan(disk)' <=> NewerThan(disk))
      BY <1>3 DEF NewerThan
    <3> QED
      BY <1>1, <3>1 DEF Fresh, WireLeft
  <2> QED
    BY <1>3, <2>1, <2>2 DEF Fresh, WireLeft
<1>9. Captured'
  <2>1. PICK buffer : OneBuffer(buffer)
    BY <1>1 DEF Captured
  <2>2. \A b, text : Shows(b, text) => Shows(b, text)'
    BY <1>1, <1>4 DEF Shows
  <2>3. OneBuffer(buffer)'
    BY <1>3, <2>1, <2>2 DEF OneBuffer
  <2> QED
    BY <2>3 DEF Captured
<1>10. Reading'
  <2>1. ASSUME NEW r \in Requests, asked[r] # Unasked, NEW answer, Sees(r, answer) PROVE Sees(r, answer)'
    <3>1. asked[r].disk \in 0..disk /\ asked'[r] = asked[r]
      BY <1>1, <1>4, <2>1 DEF Saved
    <3> QED
      BY <1>1, <1>4, <2>1, <3>1 DEF Sees
  <2>2. ASSUME NEW r \in Requests, Read(r) \in DOMAIN work'
        PROVE  /\ work'[Read(r)].root => Captures(r)'
               /\ Sees(r, work[Read(r)].outcome)'
    <3>1. /\ Read(r) \in DOMAIN work /\ asked[r] # Unasked /\ asked'[r] = asked[r]
      BY <1>1, <1>3, <1>4, <2>2 DEF OnePlace
    <3>2. (work[Read(r)].root => Captures(r)) /\ Sees(r, work[Read(r)].outcome)
      BY <1>1, <3>1 DEF Reading
    <3>3. Sees(r, work[Read(r)].outcome)'
      <4>1. \A answer : Sees(r, answer) => Sees(r, answer)'
        BY <2>1, <3>1
      <4> QED
        BY <1>3, <3>2, <4>1
    <3> QED
      BY <1>3, <3>1, <3>2, <3>3 DEF Captures
  <2>3. ASSUME NEW r \in Requests, answers'[r] # << >> PROVE Sees(r, answers[r][1])'
    <3>1. asked[r] # Unasked /\ Sees(r, answers[r][1])
      BY <1>1, <1>3, <2>3 DEF OnePlace, Reading
    <3>2. \A answer : Sees(r, answer) => Sees(r, answer)'
      BY <2>1, <3>1
    <3> QED
      BY <1>3, <3>1, <3>2
  <2> QED
    BY <1>1, <1>3, <2>2, <2>3 DEF Reading
<1> QED
  BY <1>5, <1>6, <1>7, <1>8, <1>9, <1>10 DEF EditsInv

\* One message is sent.
LEMMA Sent ==
    ASSUME SessionAssumption, SessionInv, EditsInv, EditorLeft, NEW message \in Messages, Notify(message),
           UNCHANGED <<queue, server, work, cached, answers>>,
           ahead' = After(ahead, message), ~Asks(message, First),
           Mutating(message) => editor'.started,
           disk' # disk => Mutating(message),
           \A r \in Requests : Asks(message, r) =>
               asked'[r] = [disk |-> disk, text |-> ahead]
    PROVE  EditsInv'
<1>1. /\ wire \in Seq(Messages) /\ wire' = Append(wire, message)
      /\ Len(wire) \in Nat /\ DOMAIN wire = 1..Len(wire)
  BY DEF SessionInv, Typed, Notify
<1>2. \A r \in Requests : Waits(wire, r) => asked'[r] = asked[r] /\ (r \in Up => r \in Up')
  BY AskedStays
<1>3. Once(wire', First) /\ (Waits(wire', First) <=> Waits(wire, First))
  <2>1. Once(wire, First)
    BY DEF EditsInv, Begun
  <2> QED
    BY <1>1, <2>1, Arrives
<1>4. ASSUME NEW b, Carries(wire, asked, b, ahead) PROVE Carries(wire', asked', b, ahead')
  <2>1. Carries(wire, asked', b, ahead)
    BY <1>1, <1>2, <1>4, CarriesAlike
  <2>2. \A r \in Requests : Asks(message, r) => asked'[r].text = ahead
    OBVIOUS
  <2>3. Carries(Append(wire, message), asked', b, After(ahead, message))
    BY <1>1, <2>1, <2>2, CarriesMore
  <2> QED
    BY <1>1, <2>3
<1>5. Revising(wire') <=> (Revising(wire) \/ Mutating(message))
  BY <1>1, RevisingMore
<1>6. Paced(wire', Revising(queue), Up')
  <2>1. Paced(wire, Revising(queue), Up)
    BY DEF EditsInv, Fresh
  <2>2. Paced(wire, Revising(queue), Up')
    BY ONLY <1>1, <1>2, <2>1, PacedAlike
  <2>3. ASSUME NEW r \in Requests, Asks(message, r) PROVE Revising(queue) \/ Revising(wire) \/ r \in Up'
    <3>1. asked'[r].disk = disk
      BY <2>3
    <3>2. NewerThan(disk) => r \in Up'
      BY <3>1 DEF Up, NewerThan
    <3> QED
      BY <3>2 DEF EditsInv, Fresh
  <2>4. Paced(Append(wire, message), Revising(queue), Up')
    BY ONLY <1>1, <2>2, <2>3, PacedMore, message \in Messages
  <2> QED
    BY <1>1, <2>4
<1>7. WireLeft
  BY <1>3, <1>4, <1>5, <1>6 DEF WireLeft
<1> QED
  BY <1>7, EditorEdits

\* Everything the editor does.
LEMMA EditorStepEdits == ASSUME SessionAssumption, SessionInv, EditsInv, EditorStep PROVE EditsInv'
<1>1. /\ editor \in Editors /\ disk \in Nat /\ wire \in Seq(Messages) /\ Typed
      /\ editor.text >= disk /\ (editor.started => answers[First] # << >>)
      /\ \A r \in Requests : OnePlace(r)
  BY DEF SessionInv, Typed, EditsInv, Saved, Begun
<1>2. ASSUME NEW message \in Telling, NEW fields \in Editors, Told(message, fields),
             fields.started = editor.started, disk' \in Nat, disk' >= disk, fields.text >= disk',
             disk' # disk => Mutating(message)
      PROVE  EditsInv'
  <2>1. message \in Messages /\ message.kind = "notice"
    BY <1>2 DEF Messages, Telling
  <2>2. /\ Notify(message) /\ editor.started
        /\ UNCHANGED <<asked, queue, server, work, cached, answers>>
        /\ editor' = [fields EXCEPT !.notices = @ + 1]
        /\ ahead' = After(ahead, message)
    BY <1>2, <2>1 DEF Told, Talks, taskVars, After
  <2>3. editor'.text = fields.text /\ editor'.started = fields.started
    BY <1>2, <2>2 DEF Editors
  <2>4. EditorLeft
    BY <1>1, <1>2, <2>2, <2>3 DEF EditorLeft
  <2>5. \A r : ~Asks(message, r)
    BY <2>1 DEF Asks
  <2> QED
    BY <1>2, <2>1, <2>2, <2>3, <2>4, <2>5, Sent
<1>3. CASE EditorStarts
  <2> DEFINE message == Notice("initialized")
  <2>1. /\ message \in Messages /\ ~Mutating(message) /\ \A r : ~Asks(message, r)
    BY DEF Notice, Messages, Telling, Mutating, Asks, Documents
  <2>2. /\ Notify(message) /\ answers[First] # << >>
        /\ UNCHANGED <<disk, ahead, asked, queue, server, work, cached, answers>>
        /\ editor' = [editor EXCEPT !.started = TRUE]
    BY <1>3 DEF EditorStarts, taskVars, First
  <2> HIDE DEF message
  <2>3. EditorLeft
    BY <1>1, <2>2 DEF EditorLeft, Editors
  <2>4. ahead' = After(ahead, message)
    BY <2>1, <2>2, AfterOthers
  <2> QED
    BY <2>1, <2>2, <2>3, <2>4, Sent
<1>4. CASE EditorOpens
  <2> DEFINE message == [kind |-> "notice", method |-> "didOpen", malformed |-> FALSE, text |-> disk]
             fields == [editor EXCEPT !.open = TRUE, !.text = disk]
  <2>1. message \in Telling
    BY <1>1 DEF Telling
  <2>2. fields \in Editors /\ fields.started = editor.started /\ fields.text = disk
    BY <1>1 DEF Editors
  <2>3. Told(message, fields) /\ disk' = disk
    BY <1>4 DEF EditorOpens
  <2> HIDE DEF message, fields
  <2> QED
    BY <1>1, <1>2, <2>1, <2>2, <2>3
<1>5. ASSUME NEW ranged \in Ranged, NEW times \in 1..2, EditorChanges(ranged, times) PROVE EditsInv'
  <2> DEFINE change(i) == [ranged |-> ranged, from |-> editor.text + i - 1, to |-> editor.text + i]
             message == [kind |-> "notice", method |-> "didChange", malformed |-> FALSE,
                         changes |-> [i \in 1..times |-> change(i)]]
             fields == [editor EXCEPT !.text = @ + times]
  <2>1. \A i \in 1..times : change(i) \in [ranged : Ranged, from : Nat, to : Nat]
    BY <1>1 DEF Editors
  <2>2. [i \in 1..times |-> change(i)] \in Seq([ranged : Ranged, from : Nat, to : Nat])
    BY <2>1
  <2>3. message \in Telling
    BY <2>2 DEF Telling
  <2>4. Told(message, fields) /\ disk' = disk
    BY <1>5 DEF EditorChanges
  <2>5. fields \in Editors /\ fields.started = editor.started /\ fields.text >= disk
    BY <1>1 DEF Editors
  <2> HIDE DEF message, fields
  <2> QED
    BY <1>1, <1>2, <2>3, <2>4, <2>5
<1>6. CASE EditorSaves
  <2>1. Notice("didSave") \in Telling /\ Mutating(Notice("didSave")) /\ editor.text \in Nat
    BY <1>1 DEF Notice, Telling, Editors, Mutating, Documents
  <2>2. Told(Notice("didSave"), editor) /\ disk' = editor.text
    BY <1>6 DEF EditorSaves
  <2> QED
    BY <1>1, <1>2, <2>1, <2>2
<1>7. CASE EditorCloses
  <2>1. Notice("didClose") \in Telling
    BY DEF Notice, Telling
  <2> DEFINE fields == [editor EXCEPT !.open = FALSE]
  <2>2. fields \in Editors /\ fields.started = editor.started /\ fields.text = editor.text
    BY <1>1 DEF Editors
  <2>3. Told(Notice("didClose"), fields) /\ disk' = disk
    BY <1>7 DEF EditorCloses
  <2> HIDE DEF fields
  <2> QED
    BY <1>1, <1>2, <2>1, <2>2, <2>3
<1>8. CASE EditorMistakes
  <2>1. [Notice("didSave") EXCEPT !.malformed = TRUE] \in Telling
    BY DEF Notice, Telling
  <2>2. Told([Notice("didSave") EXCEPT !.malformed = TRUE], editor) /\ disk' = disk
    BY <1>8 DEF EditorMistakes
  <2> QED
    BY <1>1, <1>2, <2>1, <2>2
<1>9. ASSUME NEW q \in Requests, NEW method \in {"read", "unknown"}, EditorAsks(q, method) PROVE EditsInv'
  <2> DEFINE message == Request(q, method)
  <2>1. /\ message \in Messages /\ ~Mutating(message) /\ \A r : Asks(message, r) => r = q
    BY DEF Request, Messages, Asking, Mutating, Asks
  <2>2. q # First
    BY DEF First, SessionAssumption
  <2>3. /\ Notify(message) /\ asked[q] = Unasked
        /\ UNCHANGED <<editor, disk, ahead, queue, server, work, cached, answers>>
        /\ asked' = [asked EXCEPT ![q] = [disk |-> disk, text |-> ahead]]
    BY <1>9 DEF EditorAsks, taskVars
  <2> HIDE DEF message
  <2>4. asked'[q] = [disk |-> disk, text |-> ahead] /\ \A r \in Requests \ {q} : asked'[r] = asked[r]
    BY <1>1, <2>3 DEF Typed
  <2>5. asked'[q].disk = disk
    BY <2>4
  <2>6. EditorLeft
    BY <1>1, <2>3, <2>4, <2>5 DEF EditorLeft
  <2>7. ahead' = After(ahead, message)
    BY <2>1, <2>3, AfterOthers
  <2> QED
    BY <2>1, <2>2, <2>3, <2>4, <2>6, <2>7, Sent
<1>10. ASSUME NEW q \in Requests, EditorCancels(q) PROVE EditsInv'
  <2> DEFINE message == [kind |-> "cancel", id |-> q]
  <2>1. /\ message \in Messages /\ ~Mutating(message) /\ \A r : ~Asks(message, r)
    BY DEF Messages, Cancelling, Mutating, Asks
  <2>2. /\ Notify(message)
        /\ UNCHANGED <<disk, ahead, asked, queue, server, work, cached, answers>>
        /\ editor' = [editor EXCEPT !.cancels = @ \cup {q}]
    BY <1>10 DEF EditorCancels, taskVars
  <2> HIDE DEF message
  <2>3. EditorLeft
    BY <1>1, <2>2 DEF EditorLeft, Editors
  <2>4. ahead' = After(ahead, message)
    BY <2>1, <2>2, AfterOthers
  <2> QED
    BY <2>1, <2>2, <2>3, <2>4, Sent
<1>11. ASSUME NEW farewell \in Farewells, EditorLeaves(farewell) PROVE EditsInv'
  <2> DEFINE bye == Request("shutdown", "shutdown")
             out == Notice("exit")
             one == Append(wire, bye)
             two == Append(one, out)
  <2>1. /\ bye \in Messages /\ ~Mutating(bye) /\ \A r \in Requests \cup {First} : ~Asks(bye, r)
        /\ out \in Messages /\ ~Mutating(out) /\ \A r \in Requests \cup {First} : ~Asks(out, r)
    BY DEF Request, Notice, Messages, Asking, Telling, Mutating, Documents, Asks, First, SessionAssumption
  <2>2. /\ wire' = wire \/ wire' = two
        /\ UNCHANGED <<disk, ahead, asked, queue, server, work, cached, answers>>
        /\ editor' = [editor EXCEPT !.leaving = TRUE]
    BY <1>1, <1>11, Leaves DEF EditorLeaves, taskVars
  <2>3. EditorLeft
    BY <1>1, <2>2 DEF EditorLeft, Editors
  <2>4. Up' = Up
    BY <2>2 DEF Up, NewerThan
  <2>5. one \in Seq(Messages)
    BY <1>1, <2>1
  <2> HIDE DEF bye, out
  <2>6. Once(wire, First) /\ Paced(wire, Revising(queue), Up)
    BY DEF EditsInv, Begun, Fresh
  <2>7. /\ Once(one, First) /\ (Waits(one, First) <=> Waits(wire, First))
        /\ Once(two, First) /\ (Waits(two, First) <=> Waits(one, First))
    <3>1. Once(one, First) /\ (Waits(one, First) <=> Waits(wire, First))
      BY <1>1, <2>1, <2>6, Arrives
    <3> HIDE DEF one
    <3>2. Once(two, First) /\ (Waits(two, First) <=> Waits(one, First))
      BY <2>1, <2>5, <3>1, Arrives
    <3> QED
      BY <3>1, <3>2
  <2>8. (Revising(one) <=> Revising(wire)) /\ (Revising(two) <=> Revising(one))
    <3>1. Revising(one) <=> Revising(wire)
      BY <1>1, <2>1, RevisingMore
    <3> HIDE DEF one
    <3>2. Revising(two) <=> Revising(one)
      BY <2>1, <2>5, RevisingMore
    <3> QED
      BY <3>1, <3>2
  <2>9. Paced(two, Revising(queue), Up)
    <3>1. Paced(one, Revising(queue), Up)
      BY <1>1, <2>1, <2>6, PacedMore
    <3> HIDE DEF one
    <3> QED
      BY <2>1, <2>5, <3>1, PacedMore
  <2>10. ASSUME NEW b, Carries(wire, asked, b, ahead) PROVE Carries(two, asked, b, ahead)
    <3>1. Carries(one, asked, b, After(ahead, bye))
      BY <1>1, <2>1, <2>10, CarriesMore
    <3>2. After(ahead, bye) = ahead /\ After(ahead, out) = ahead
      BY <2>1, AfterOthers
    <3> HIDE DEF one
    <3>3. Carries(two, asked, b, After(ahead, out))
      BY <2>1, <2>5, <3>1, <3>2, CarriesMore
    <3> QED
      BY <3>2, <3>3
  <2> HIDE DEF two, one
  <2>11. WireLeft
    BY <2>2, <2>4, <2>6, <2>7, <2>8, <2>9, <2>10 DEF WireLeft
  <2> QED
    BY <2>2, <2>3, <2>11, EditorEdits
<1> QED
  BY <1>3, <1>4, <1>5, <1>6, <1>7, <1>8, <1>9, <1>10, <1>11 DEF EditorStep

\* Every step keeps the invariant of the edits.
LEMMA NextEdits ==
    ASSUME SessionAssumption, SessionInv, EditsInv, [SessionNext]_sessionVars PROVE EditsInv'
<1>1. CASE UNCHANGED sessionVars
  BY <1>1 DEF sessionVars, EditsInv, Fields, Begun, Saved, Buffers, Fresh, NewerThan, Up, Shows,
     OneBuffer, Captured, Captures, Sees, Reading
<1>2. CASE EditorStep
  BY <1>2, EditorStepEdits
<1>3. CASE LoopStep
  BY <1>3, LoopEdits
<1>4. CASE TaskStep
  BY <1>4, SnapshotEdits, OthersEdit, AnswersEdit DEF TaskStep, ReadStep, PassStep
<1> QED
  BY <1>1, <1>2, <1>3, <1>4 DEF SessionNext

\* A read sees every edit that was sent before it and none that came after, however
\* late its task runs, whatever it finds cached and whoever built that
\* (src/lsp/server.rs).
THEOREM EditsAreRead == ASSUME SessionAssumption PROVE SessionSpec => []ReadYourEdits
<1>1. SessionInit => SessionInv /\ EditsInv
  BY InitInvariant, InitEdits
<1>2. SessionInv /\ EditsInv /\ [SessionNext]_sessionVars => (SessionInv /\ EditsInv)'
  BY NextInvariant, NextEdits
<1>3. SessionInv /\ EditsInv => ReadYourEdits
  BY EditsInvImplies
<1> QED
  BY <1>1, <1>2, <1>3, PTL DEF SessionSpec
-----------------------------------------------------------------------------
(* Layers.                                                                  *)

\* Files are functions from fields to values.
IsFile(file) == file = [f \in DOMAIN file |-> file[f]]
IsShip(s) == IsFile(s.full) /\ s.deleted \in BOOLEAN

\* What a package has of the entity is files and markers.
WorldsAssumption ==
    /\ Idle \notin Worlds
    /\ \A w \in Worlds : \A p \in DOMAIN w.extends : IsShip(w.ships[p])

-----------------------------------------------------------------------------
(* Composition.                                                             *)

\* The file that is not there is one without fields.
LEMMA AbsentIsFile == IsFile(Absent) /\ DOMAIN Absent = {}
BY DEF IsFile, Absent

\* A file without fields is none.
LEMMA NoFields == ASSUME NEW file, IsFile(file), DOMAIN file = {} PROVE file = Absent
BY DEF IsFile, Absent

\* A merge is a file, with the fields of both, and changes those of the update.
LEMMA Merges ==
    ASSUME NEW beneath, NEW update, IsFile(beneath)
    PROVE  /\ IsFile(Merge(beneath, update))
           /\ DOMAIN Merge(beneath, update) = DOMAIN beneath \cup DOMAIN update
           /\ \A f \in DOMAIN beneath \ DOMAIN update : Merge(beneath, update)[f] = beneath[f]
           /\ update = Absent => Merge(beneath, update) = beneath
<1> DEFINE m == Merge(beneath, update)
<1>1. m = [f \in DOMAIN beneath \cup DOMAIN update |-> IF f \in DOMAIN update THEN update[f] ELSE beneath[f]]
  BY DEF Merge
<1>2. /\ DOMAIN m = DOMAIN beneath \cup DOMAIN update
      /\ \A f \in DOMAIN beneath \ DOMAIN update : m[f] = beneath[f]
      /\ m = [f \in DOMAIN m |-> m[f]]
  BY <1>1
<1>3. ASSUME update = Absent PROVE m = beneath
  <2>1. DOMAIN update = {}
    BY <1>3, AbsentIsFile
  <2>2. m = [f \in DOMAIN beneath |-> beneath[f]]
    BY <1>1, <2>1
  <2> QED
    BY <2>2 DEF IsFile
<1> QED
  BY <1>2, <1>3 DEF IsFile

\* An answer that admits, and what it admits.
LEMMA Admissions ==
    /\ \A condition, file : If(condition, file).ok => condition /\ If(condition, file).file = file
    /\ \A file : Admitted(file).ok /\ Admitted(file).file = file
    /\ ~Refused.ok
BY DEF If, Admitted, Refused

\* What each kind makes of a file and a layer over it.
LEMMA EntryComposed ==
    ASSUME NEW below, NEW s, IsFile(below), IsShip(s), ComposeEntry(below, s).ok
    PROVE  LET file == ComposeEntry(below, s).file IN
           /\ IsFile(file)
           /\ s.deleted => below # Absent /\ s.full = Absent /\ s.update = Absent /\ file = Absent
           /\ ~s.deleted /\ s.full # Absent => s.update = Absent /\ file = s.full
           /\ ~s.deleted /\ s.full = Absent => file = Merge(below, s.update)
           /\ s.update # Absent => below # Absent
<1> DEFINE made == CASE s.deleted -> Absent
                     [] s.full # Absent -> s.full
                     [] OTHER -> Merge(below, s.update)
<1>1. /\ s.full # Absent => ~Marks(s)
      /\ ~(s.update # Absent /\ s.deleted)
      /\ Marks(s) => below # Absent
      /\ ComposeEntry(below, s).file = made
  BY Admissions DEF ComposeEntry
<1>2. /\ s.deleted => made = Absent
      /\ ~s.deleted /\ s.full # Absent => made = s.full
      /\ ~s.deleted /\ s.full = Absent => made = Merge(below, s.update)
  BY <1>1 DEF Marks, IsShip
<1>3. IsFile(made)
  BY <1>2, Merges, AbsentIsFile DEF IsShip
<1> HIDE DEF made
<1> QED
  BY <1>1, <1>2, <1>3 DEF Marks

\* A variable is restated as it is or merged with an update, never both.
LEMMA VariableComposed ==
    ASSUME NEW below, NEW s, IsFile(below), IsShip(s), ComposeVariable(below, s).ok
    PROVE  LET file == ComposeVariable(below, s).file IN
           /\ IsFile(file)
           /\ s.full # Absent => file = s.full /\ s.update = Absent /\ (below # Absent => s.full = below)
           /\ s.full = Absent => file = Merge(below, s.update)
<1> DEFINE made == IF s.full # Absent THEN s.full ELSE Merge(below, s.update)
<1>1. /\ ~(s.full # Absent /\ s.update # Absent)
      /\ Restates(below, s)
      /\ ComposeVariable(below, s).file = made
  BY Admissions DEF ComposeVariable
<1>2. IsFile(made)
  BY Merges DEF IsShip
<1> QED
  BY <1>1, <1>2 DEF Restates

\* An edited list is there.
LEMMA MembersComposed ==
    ASSUME NEW now, NEW update, ComposeMembers(now, update).ok
    PROVE  IsFile(ComposeMembers(now, update).file) /\ ComposeMembers(now, update).file # Absent
<1> DEFINE added == IF "members" \in DOMAIN update THEN update.members ELSE {}
           removed == IF "deleted" \in DOMAIN update THEN update.deleted ELSE {}
           left == (now \cup added) \ removed
           condition == /\ added \cap removed = {}
                        /\ removed \subseteq now \cup added
                        /\ "deleted" \in DOMAIN update => left # {}
<1>1. ComposeMembers(now, update) = If(condition, [members |-> left])
  BY DEF ComposeMembers
<1> HIDE DEF condition, left
<1>2. ComposeMembers(now, update).file = [members |-> left]
  BY <1>1 DEF If, Refused, Admitted
<1>3. IsFile([members |-> left]) /\ DOMAIN [members |-> left] = {"members"}
  BY DEF IsFile
<1> QED
  BY <1>2, <1>3, AbsentIsFile

\* A list is restated as it is; an update needs a list to edit.
LEMMA ListComposed ==
    ASSUME NEW below, NEW s, IsFile(below), IsShip(s), ComposeList(below, s).ok
    PROVE  LET file == ComposeList(below, s).file IN
           /\ IsFile(file)
           /\ s.full # Absent /\ below # Absent => s.full = below
           /\ s.update = Absent => file = IF s.full # Absent THEN s.full ELSE below
           /\ s.update # Absent => file # Absent /\ (s.full # Absent \/ below # Absent)
<1> DEFINE beneath == IF s.full # Absent THEN s.full ELSE below
<1>1. /\ Restates(below, s) /\ (s.update # Absent => beneath # Absent)
      /\ s.update = Absent => ComposeList(below, s) = Admitted(beneath)
      /\ s.update # Absent => ComposeList(below, s) = ComposeMembers(beneath.members, s.update)
  BY Admissions DEF ComposeList
<1>2. CASE s.update = Absent
  <2>1. ComposeList(below, s).file = beneath
    BY <1>1, <1>2, Admissions
  <2> QED
    BY <1>1, <1>2, <2>1 DEF Restates, IsShip
<1>3. CASE s.update # Absent
  <2>1. ComposeList(below, s) = ComposeMembers(beneath.members, s.update)
    BY <1>1, <1>3
  <2>2. IsFile(ComposeList(below, s).file) /\ ComposeList(below, s).file # Absent
    BY <2>1, MembersComposed
  <2> QED
    BY <1>1, <1>3, <2>1, <2>2 DEF Restates
<1> QED
  BY <1>2, <1>3

\* Anything else replaces what is below it.
LEMMA WholeComposed ==
    ASSUME NEW below, NEW s, IsFile(below), IsShip(s)
    PROVE  LET file == ComposeWhole(below, s).file IN
           IsFile(file) /\ file = IF s.full # Absent THEN s.full ELSE below
BY Admissions DEF ComposeWhole, IsShip

\* So what lands is a file.
LEMMA ComposedIsFile ==
    ASSUME NEW below, NEW s, IsFile(below), IsShip(s), Compose(below, s).ok
    PROVE  IsFile(Compose(below, s).file)
<1>1. CASE world.kind = "entry"
  BY <1>1, EntryComposed DEF Compose
<1>2. CASE world.kind = "variable"
  BY <1>2, VariableComposed DEF Compose
<1>3. CASE world.kind = "list"
  BY <1>3, ListComposed DEF Compose
<1>4. CASE world.kind \notin {"entry", "variable", "list"}
  <2>1. Compose(below, s) = ComposeWhole(below, s)
    BY <1>4 DEF Compose
  <2> QED
    BY <2>1, WholeComposed
<1> QED
  BY <1>1, <1>2, <1>3, <1>4

-----------------------------------------------------------------------------
(* Governance.                                                              *)

\* Scopes only restrict.
LEMMA FewerFields ==
    ASSUME NEW c, NEW operation, NEW entries, NEW fields, NEW few, few \subseteq fields,
           Check(c, operation, entries, fields)
    PROVE  Check(c, operation, entries, few)
BY DEF Check

\* The fields in which two files differ.
Changed(below, file) ==
    {f \in DOMAIN below \cup DOMAIN file :
       ~(f \in DOMAIN below \cap DOMAIN file /\ below[f] = file[f])}

\* What the contract c has to grant of a change of the entity, catalogued or not.
Grants(c, catalogued, below, file) ==
    LET entry == world.kind = "entry"
    IN  \/ below = file
        \/ entry /\ ~catalogued
        \/ below = Absent /\ (entry => Check(c, "add", {}, {}))
        \/ below # Absent /\ file = Absent /\ entry /\ Check(c, "delete", {Entity}, {})
        \/ /\ Absent \notin {below, file}
           /\ world.kind \in {"entry", "variable", "list", "layer"}
           /\ Check(c, "update", IF entry THEN {Entity} ELSE {}, IF entry THEN Changed(below, file) ELSE {})

\* What the gates admit of an entry, they grant.
LEMMA EntryGranted ==
    ASSUME NEW target, NEW s, IsFile(target.ship.full), IsShip(s),
           world.kind = "entry", Admits(target, s), ComposeEntry(target.ship.full, s).ok
    PROVE  Grants(target.contract, target.catalogued, target.ship.full, ComposeEntry(target.ship.full, s).file)
<1> DEFINE below == target.ship.full
           c == target.contract
           file == ComposeEntry(below, s).file
<1>0. SUFFICES Grants(c, target.catalogued, below, file)
  OBVIOUS
<1>1. /\ s.deleted => below # Absent /\ s.full = Absent /\ s.update = Absent /\ file = Absent
      /\ ~s.deleted /\ s.full # Absent => s.update = Absent /\ file = s.full
      /\ ~s.deleted /\ s.full = Absent => file = Merge(below, s.update)
      /\ s.update # Absent => below # Absent
      /\ IsFile(file) /\ s.deleted \in BOOLEAN
  BY EntryComposed DEF IsShip
<1>2. target.catalogued =>
        /\ s.deleted => Check(c, "delete", {Entity}, {})
        /\ s.update # Absent => Check(c, "update", {Entity}, DOMAIN s.update)
        /\ s.full \notin {Absent, below} => below = Absent /\ Check(c, "add", {}, {})
  BY DEF Admits, AdmitsEntry
<1>3. /\ IsFile(Merge(below, s.update))
      /\ DOMAIN Merge(below, s.update) = DOMAIN below \cup DOMAIN s.update
      /\ \A f \in DOMAIN below \ DOMAIN s.update : Merge(below, s.update)[f] = below[f]
      /\ s.update = Absent => Merge(below, s.update) = below
  BY Merges
<1> HIDE DEF file
<1>4. CASE ~target.catalogued
  BY <1>4 DEF Grants
<1>5. CASE target.catalogued /\ s.deleted
  BY <1>1, <1>2, <1>5 DEF Grants
<1>6. CASE target.catalogued /\ ~s.deleted /\ s.full # Absent
  BY <1>1, <1>2, <1>6 DEF Grants
<1>7. CASE target.catalogued /\ ~s.deleted /\ s.full = Absent
  <2>1. file = Merge(below, s.update)
    BY <1>1, <1>7
  <2>2. CASE s.update = Absent
    BY <1>3, <2>1, <2>2 DEF Grants
  <2>3. CASE s.update # Absent
    <3>1. below # Absent /\ Check(c, "update", {Entity}, DOMAIN s.update)
      BY <1>1, <1>2, <1>7, <2>3
    <3>2. file # Absent
      <4>1. DOMAIN below # {}
        BY <3>1, NoFields
      <4> QED
        BY <1>3, <2>1, <4>1, AbsentIsFile
    <3>3. Changed(below, file) \subseteq DOMAIN s.update
      BY <1>3, <2>1 DEF Changed
    <3>4. Check(c, "update", {Entity}, Changed(below, file))
      BY <3>1, <3>3, FewerFields
    <3> QED
      BY <3>1, <3>2, <3>4 DEF Grants
  <2> QED
    BY <2>2, <2>3
<1> QED
  BY <1>1, <1>4, <1>5, <1>6, <1>7

\* And of anything else.
LEMMA OthersGranted ==
    ASSUME NEW target, NEW s, IsFile(target.ship.full), IsShip(s),
           world.kind # "entry", Admits(target, s), Compose(target.ship.full, s).ok
    PROVE  Grants(target.contract, target.catalogued, target.ship.full, Compose(target.ship.full, s).file)
<1> DEFINE below == target.ship.full
           c == target.contract
           file == Compose(below, s).file
           restated == below # Absent /\ s.full \notin {Absent, below}
           updated == below # Absent /\ s.update # Absent
<1>1. CASE below = Absent
  BY <1>1 DEF Grants
<1>2. CASE below # Absent /\ world.kind = "variable"
  <2>1. /\ s.full # Absent => file = s.full /\ s.full = below
        /\ s.full = Absent => file = Merge(below, s.update)
    BY <1>2, VariableComposed DEF Compose
  <2>2. updated => Check(c, "update", {}, {})
    BY <1>2 DEF Admits
  <2>3. CASE s.full # Absent
    BY <2>1, <2>3 DEF Grants
  <2>4. CASE s.full = Absent
    <3>1. /\ DOMAIN file = DOMAIN below \cup DOMAIN s.update
          /\ s.update = Absent => file = below
      <4>1. file = Merge(below, s.update)
        BY <2>1, <2>4
      <4> HIDE DEF file
      <4>2. /\ DOMAIN Merge(below, s.update) = DOMAIN below \cup DOMAIN s.update
            /\ s.update = Absent => Merge(below, s.update) = below
        BY Merges
      <4> QED
        BY <4>1, <4>2
    <3>2. DOMAIN below # {}
      BY <1>2, NoFields
    <3>3. file # Absent
      BY <3>1, <3>2, AbsentIsFile
    <3> QED
      BY <1>2, <2>2, <3>1, <3>3 DEF Grants
  <2> QED
    BY <2>3, <2>4
<1>3. CASE below # Absent /\ world.kind = "list"
  <2>1. /\ s.full # Absent => s.full = below
        /\ s.update = Absent => file = IF s.full # Absent THEN s.full ELSE below
        /\ s.update # Absent => file # Absent
    BY <1>3, ListComposed DEF Compose
  <2>2. updated => Check(c, "update", {}, {})
    BY <1>3 DEF Admits
  <2> QED
    BY <1>3, <2>1, <2>2 DEF Grants
<1>4. CASE below # Absent /\ world.kind \notin {"variable", "list"}
  <2>1. file = IF s.full # Absent THEN s.full ELSE below
    BY <1>4, WholeComposed DEF Compose
  <2>2. IF world.kind = "layer" THEN restated => Check(c, "update", {}, {}) ELSE ~restated
    BY <1>4 DEF Admits
  <2> QED
    BY <1>4, <2>1, <2>2 DEF Grants
<1> QED
  BY <1>1, <1>2, <1>3, <1>4

\* Of projections it says the same.
LEMMA GrantsOfFiles ==
    ASSUME NEW c, NEW before, NEW after, before.ship = Landed(before.ship.full),
           after.ship = Landed(after.ship.full),
           Grants(c, before.catalogued, before.ship.full, after.ship.full)
    PROVE  Granted(c, before, after)
<1>1. \A one, other : Landed(one) = Landed(other) <=> one = other
  BY DEF Landed, Ships
<1>2. /\ before.ship = after.ship <=> before.ship.full = after.ship.full
      /\ before.ship = Silent <=> before.ship.full = Absent
      /\ after.ship = Silent <=> after.ship.full = Absent
  BY <1>1 DEF Silent
<1> QED
  BY <1>2 DEF Grants, Granted, Changed

-----------------------------------------------------------------------------
(* The walk.                                                                *)

\* A package that is being projected is one of the graph, over a projection of
\* a file without markers.
FrameHolds(frame) ==
    /\ {"package", "bases", "target", "owner"} \subseteq DOMAIN frame
    /\ frame.package \in DOMAIN order
    /\ frame.target.ship = Landed(frame.target.ship.full)
    /\ IsFile(frame.target.ship.full)

LayersInv ==
    /\ world = Idle => stack = << >> /\ loaded = Failed
    /\ world # Idle => world \in Worlds /\ DOMAIN order = DOMAIN world.extends
    /\ \E S : stack \in Seq(S)
    /\ \A i \in 1..Len(stack) : FrameHolds(stack[i])
    /\ loaded.is = "ok" => IsShip(loaded.layer.ship)

\* What the packages ship, and what has landed.
LEMMA Shipped ==
    ASSUME WorldsAssumption, LayersInv, NEW p \in DOMAIN order, world # Idle
    PROVE  IsShip(Own(p).ship)
BY DEF WorldsAssumption, LayersInv, Own

\* A file that has landed has no markers beside it.
LEMMA LandedIsShip ==
    ASSUME NEW file, IsFile(file)
    PROVE  /\ IsShip(Landed(file)) /\ Landed(file).full = file
           /\ IsFile(Absent)
BY AbsentIsFile DEF IsShip, Landed, Ships

\* A projection keeps what has landed on it.
LEMMA Projected ==
    ASSUME NEW target, NEW file, NEW layer, NEW label
    PROVE  /\ Projection(target, file, layer, label).ship = Landed(file)
           /\ Projection(target, file, layer, label).ship.full = file
BY DEF Projection, Landed, Ships

\* The package on top.
LEMMA OnTop ==
    ASSUME LayersInv, stack # << >>
    PROVE  /\ world # Idle /\ FrameHolds(Top)
           /\ Len(stack) \in Nat \ {0}
BY DEF LayersInv, Top

\* The bases land as files.
LEMMA LandBaseKeeps == ASSUME WorldsAssumption, LayersInv, LandBase PROVE LayersInv'
<1> DEFINE layer == loaded.layer
           s == layer.ship
           target == Top.target
           label == Head(Top.bases)
           taken == s # Silent /\ Taken(Top.owner.ship, label)
           governed == layer.contract.there /\ Taken(Top.owner.contract, label)
           composed == Compose(target.ship.full, s)
           projection == IF taken THEN Projection(target, target.ship.full, [layer EXCEPT !.ship = Silent], label)
                         ELSE Projection(target, composed.file, layer, label)
           landed == [Top EXCEPT
                !.bases = Tail(@),
                !.target = projection,
                !.owner.ship = IF s = Silent \/ taken THEN @ ELSE label,
                !.owner.contract = IF ~layer.contract.there \/ governed THEN @ ELSE label]
<1>1. /\ loaded.is = "ok" /\ stack # << >> /\ UNCHANGED <<world, order>>
      /\ \/ /\ IF taken THEN ~Marks(s) /\ s.full = target.ship.full ELSE composed.ok
            /\ stack' = [stack EXCEPT ![Len(stack)] = landed] /\ loaded' = Running
         \/ Fail
  BY DEF LandBase, Keep
<1>2. world # Idle /\ FrameHolds(Top) /\ Len(stack) \in Nat \ {0} /\ IsShip(s)
  BY <1>1, OnTop DEF LayersInv
<1>3. CASE Fail
  <2>1. stack' = << >> /\ loaded' = Failed /\ loaded'.is # "ok"
    BY <1>3 DEF Fail, Failed
  <2>2. stack' \in Seq({}) /\ 1..Len(stack') = {}
    BY <2>1
  <2> QED
    BY <1>1, <2>1, <2>2 DEF LayersInv
<1>4. CASE /\ IF taken THEN ~Marks(s) /\ s.full = target.ship.full ELSE composed.ok
           /\ stack' = [stack EXCEPT ![Len(stack)] = landed] /\ loaded' = Running
  <2>1. IsFile(target.ship.full) /\ Top.package \in DOMAIN order
    BY <1>2 DEF FrameHolds
  <2>2. IsFile(projection.ship.full) /\ projection.ship = Landed(projection.ship.full)
    <3>1. CASE taken
      BY <2>1, <3>1, Projected
    <3>2. CASE ~taken
      <4>1. composed.ok
        BY <1>4, <3>2
      <4>2. IsFile(composed.file)
        BY <1>2, <2>1, <4>1, ComposedIsFile
      <4> QED
        BY <3>2, <4>2, Projected
    <3> QED
      BY <3>1, <3>2
  <2> HIDE DEF projection
  <2>3. /\ landed.package = Top.package /\ landed.target = projection
        /\ {"package", "bases", "target", "owner"} \subseteq DOMAIN landed
    BY <1>2 DEF FrameHolds
  <2> HIDE DEF landed
  <2>4. FrameHolds(landed)
    BY <2>1, <2>2, <2>3 DEF FrameHolds
  <2>5. PICK S : stack \in Seq(S)
    BY DEF LayersInv
  <2>6. stack' = [stack EXCEPT ![Len(stack)] = landed]
    BY <1>4
  <2>7. /\ Len(stack') = Len(stack) /\ stack' \in Seq(S \cup {landed})
        /\ \A i \in 1..Len(stack) : stack'[i] = landed \/ stack'[i] = stack[i]
    BY <1>2, <2>5, <2>6
  <2>8. (\A i \in 1..Len(stack) : FrameHolds(stack[i]))'
    <3>1. \A i \in 1..Len(stack) : FrameHolds(stack[i])
      BY DEF LayersInv
    <3>2. \A frame : FrameHolds(frame) => FrameHolds(frame)'
      BY <1>1 DEF FrameHolds
    <3>3. \A i \in 1..Len(stack') : FrameHolds(stack'[i])
      BY <2>4, <2>7, <3>1
    <3> QED
      BY <1>1, <3>3 DEF FrameHolds
  <2>9. loaded'.is # "ok"
    BY <1>4 DEF Running
  <2> QED
    BY <1>1, <1>2, <2>7, <2>8, <2>9 DEF LayersInv
<1> QED
  BY <1>1, <1>3, <1>4

\* The overlay lands as a file.
LEMMA LandOverlayKeeps == ASSUME WorldsAssumption, LayersInv, LandOverlay PROVE LayersInv'
<1> DEFINE layer == Own(Top.package)
           composed == Compose(Top.target.ship.full, layer.ship)
           projection == Projection(Top.target, composed.file, layer, Top.package)
<1>1. /\ stack # << >> /\ UNCHANGED <<world, order>>
      /\ \/ /\ composed.ok /\ loaded' = Returned(projection)
            /\ stack' = SubSeq(stack, 1, Len(stack) - 1)
         \/ Fail
  BY DEF LandOverlay, Keep
<1>2. world # Idle /\ FrameHolds(Top) /\ Len(stack) \in Nat \ {0}
  BY <1>1, OnTop
<1>3. CASE Fail
  <2>1. stack' = << >> /\ loaded'.is # "ok"
    BY <1>3 DEF Fail, Failed
  <2>2. stack' \in Seq({}) /\ 1..Len(stack') = {}
    BY <2>1
  <2> QED
    BY <1>1, <1>2, <2>1, <2>2 DEF LayersInv
<1>4. CASE /\ composed.ok /\ loaded' = Returned(projection)
           /\ stack' = SubSeq(stack, 1, Len(stack) - 1)
  <2>1. IsShip(layer.ship) /\ IsFile(Top.target.ship.full)
    BY <1>2, Shipped DEF FrameHolds
  <2>2. IsFile(composed.file)
    BY <1>4, <2>1, ComposedIsFile
  <2>3. IsShip(loaded'.layer.ship)
    <3>1. loaded'.layer = projection
      BY <1>4 DEF Returned
    <3>2. projection.ship = Landed(composed.file)
      BY Projected
    <3> HIDE DEF composed, projection
    <3> QED
      BY <2>2, <3>1, <3>2, LandedIsShip
  <2>4. PICK S : stack \in Seq(S)
    BY DEF LayersInv
  <2> HIDE DEF composed, projection, layer
  <2>5. /\ Len(stack') = Len(stack) - 1 /\ stack' \in Seq(S)
        /\ \A i \in 1..Len(stack) - 1 : stack'[i] = stack[i]
    <3>1. stack' = SubSeq(stack, 1, Len(stack) - 1)
      BY <1>4
    <3> DEFINE left == Len(stack) - 1
    <3>2. left \in Nat /\ Len(stack) = left + 1
      BY <1>2
    <3> HIDE DEF left
    <3>3. SubSeq(stack, 1, left) \in Seq(S) /\ Len(SubSeq(stack, 1, left)) = left
      BY ONLY <2>4, <3>2
    <3>4. \A i \in 1..left : SubSeq(stack, 1, left)[i] = stack[i]
      BY ONLY <2>4, <3>2
    <3> QED
      BY <3>1, <3>3, <3>4 DEF left
  <2>6. (\A i \in 1..Len(stack) : FrameHolds(stack[i]))'
    <3>1. \A i \in 1..Len(stack) : FrameHolds(stack[i])
      BY DEF LayersInv
    <3>2. \A i \in 1..Len(stack') : FrameHolds(stack'[i])
      BY <1>2, <2>5, <3>1
    <3> QED
      BY <1>1, <3>2 DEF FrameHolds
  <2> QED
    BY <1>1, <1>2, <2>3, <2>5, <2>6 DEF LayersInv
<1> QED
  BY <1>1, <1>3, <1>4

\* Going down, and the leaves.
LEMMA WalkKeeps ==
    ASSUME WorldsAssumption, LayersInv, world # Idle, NEW p \in DOMAIN order,
           RefuseGraph(p) \/ LoadLeaf(p) \/ Descend(p)
    PROVE  LayersInv'
<1>1. UNCHANGED <<world, order>>
  BY DEF RefuseGraph, LoadLeaf, Descend, Keep
<1>2. CASE RefuseGraph(p)
  <2>1. stack' = << >> /\ loaded'.is # "ok"
    BY <1>2 DEF RefuseGraph, Fail, Failed
  <2>2. stack' \in Seq({}) /\ 1..Len(stack') = {}
    BY <2>1
  <2> QED
    BY <1>1, <2>1, <2>2 DEF LayersInv
<1>3. CASE LoadLeaf(p)
  <2>1. stack' = stack /\ IsShip(loaded'.layer.ship)
    BY <1>3, Shipped DEF LoadLeaf, Returned
  <2> QED
    BY <1>1, <2>1 DEF LayersInv, FrameHolds
<1>4. CASE Descend(p)
  <2>1. stack' = Append(stack, Frame(p)) /\ loaded' = loaded
    BY <1>4 DEF Descend
  <2>2. FrameHolds(Frame(p))
    <3>1. /\ {"package", "bases", "target", "owner"} \subseteq DOMAIN Frame(p)
          /\ Frame(p).package = p /\ Frame(p).target.ship = Silent
      BY DEF Frame, Nothing
    <3>2. Silent = Landed(Silent.full) /\ IsFile(Silent.full)
      BY AbsentIsFile, LandedIsShip DEF Silent
    <3> QED
      BY <3>1, <3>2 DEF FrameHolds
  <2>3. PICK S : stack \in Seq(S)
    BY DEF LayersInv
  <2> DEFINE frame == Frame(p)
  <2> HIDE DEF frame
  <2>4. stack' = Append(stack, frame)
    BY <2>1 DEF frame
  <2>5. /\ stack' \in Seq(S \cup {frame}) /\ Len(stack') = Len(stack) + 1 /\ Len(stack) \in Nat
        /\ stack'[Len(stack) + 1] = frame
        /\ \A i \in 1..Len(stack) : stack'[i] = stack[i]
    BY <2>3, <2>4
  <2>6. \A i \in 1..Len(stack') : FrameHolds(stack'[i])
    <3>1. \A i \in 1..Len(stack') : i \in 1..Len(stack) \/ i = Len(stack) + 1
      BY <2>5
    <3>2. \A i \in 1..Len(stack) : FrameHolds(stack[i])
      BY DEF LayersInv
    <3>3. FrameHolds(frame)
      BY <2>2 DEF frame
    <3> QED
      BY <2>5, <3>1, <3>2, <3>3
  <2>7. (\A i \in 1..Len(stack) : FrameHolds(stack[i]))'
    BY <1>1, <2>6 DEF FrameHolds
  <2> QED
    BY <1>1, <2>1, <2>5, <2>7 DEF LayersInv
<1> QED
  BY <1>2, <1>3, <1>4

\* The load of a world begins, and ends, and begins again.
LEMMA LoadKeeps ==
    ASSUME WorldsAssumption, LayersInv, Finish \/ (world = Idle /\ \E w \in Worlds : Choose(w))
    PROVE  LayersInv'
<1>1. CASE world = Idle /\ \E w \in Worlds : Choose(w)
  <2>1. /\ world' \in Worlds /\ order' = world'.extends /\ stack' = stack /\ stack = << >>
        /\ loaded'.is # "ok"
    BY <1>1 DEF Choose, Running, LayersInv
  <2>2. world' # Idle
    BY <2>1 DEF WorldsAssumption
  <2> QED
    BY <2>1, <2>2 DEF LayersInv
<1>2. CASE Finish
  <2>1. /\ world # Idle /\ stack = << >> /\ UNCHANGED <<world, stack>>
        /\ loaded' = loaded \/ loaded'.is # "ok"
        /\ DOMAIN order' = DOMAIN order
    BY <1>2 DEF Finish, Running
  <2> QED
    BY <2>1 DEF LayersInv
<1> QED
  BY <1>1, <1>2

\* What is being projected are files.
THEOREM LayersInvariance == ASSUME WorldsAssumption PROVE LayersSpec => []LayersInv
<1>1. LayersInit => LayersInv
  <2>1. << >> \in Seq({}) /\ 1..Len(<< >>) = {}
    OBVIOUS
  <2> QED
    BY <2>1 DEF LayersInit, LayersInv, Failed
<1>2. LayersInv /\ [LayersNext]_layersVars => LayersInv'
  <2> SUFFICES ASSUME LayersInv, [LayersNext]_layersVars PROVE LayersInv'
    OBVIOUS
  <2>1. CASE UNCHANGED layersVars
    BY <2>1 DEF layersVars, LayersInv, FrameHolds
  <2>2. CASE LayersNext
    BY <2>2, LandBaseKeeps, LandOverlayKeeps, WalkKeeps, LoadKeeps DEF LayersNext
  <2> QED
    BY <2>1, <2>2
<1> QED
  BY <1>1, <1>2, PTL DEF LayersSpec

\* Only an overlay that lands returns from a package that has bases.
LEMMA OnlyOverlaysLand == ASSUME LayersInv, LayersNext, Lands PROVE LandOverlay
<1>1. ASSUME NEW w, Choose(w) PROVE FALSE
  BY <1>1 DEF Choose, Lands, Running
<1>2. ASSUME NEW p, RefuseGraph(p) \/ LoadLeaf(p) \/ Descend(p) PROVE FALSE
  BY <1>2 DEF RefuseGraph, LoadLeaf, Descend, Called, Lands, Fail, Failed, Running
<1>3. ~LandBase
  BY DEF LandBase, Lands, Fail, Failed, Running
<1>4. ~Finish
  BY DEF Finish, Lands
<1> QED
  BY <1>1, <1>2, <1>3, <1>4 DEF LayersNext

\* What an overlay changes, the contract of its bases grants.
LEMMA OverlayIsGranted ==
    ASSUME WorldsAssumption, LayersInv, LandOverlay, Lands
    PROVE  Granted(Top.target.contract, Top.target, loaded'.layer)
<1> DEFINE target == Top.target
           layer == Own(Top.package)
           composed == Compose(target.ship.full, layer.ship)
           projection == Projection(target, composed.file, layer, Top.package)
<1>1. /\ stack # << >> /\ composed.ok /\ Enforce(target, layer) /\ loaded' = Returned(projection)
  BY DEF LandOverlay, Lands, Fail, Failed
<1>2. /\ IsShip(layer.ship) /\ IsFile(target.ship.full) /\ target.ship = Landed(target.ship.full)
  BY <1>1, OnTop, Shipped DEF FrameHolds
<1>3. Admits(target, layer.ship)
  BY <1>1 DEF Enforce
<1>4. Grants(target.contract, target.catalogued, target.ship.full, composed.file)
  <2>1. CASE world.kind = "entry"
    <3>1. composed = ComposeEntry(target.ship.full, layer.ship)
      BY <2>1 DEF Compose
    <3> QED
      BY <1>1, <1>2, <1>3, <2>1, <3>1, EntryGranted
  <2>2. CASE world.kind # "entry"
    BY <1>1, <1>2, <1>3, <2>2, OthersGranted
  <2> QED
    BY <2>1, <2>2
<1>5. loaded'.layer = projection /\ projection.ship = Landed(composed.file) /\ projection.ship.full = composed.file
  BY <1>1, Projected DEF Returned
<1> HIDE DEF composed, projection, layer, target
<1>6. Granted(target.contract, target, projection)
  BY <1>2, <1>4, <1>5, GrantsOfFiles
<1> QED
  BY <1>5, <1>6 DEF target

\* No overlay ends up changing what its bases declare without a grant of the
\* contract they carry, whatever files it changes it with (source/governance.rs,
\* source/layer/compose.rs).
THEOREM OverlaysAreGoverned == ASSUME WorldsAssumption PROVE LayersSpec => ChangesAreGranted
<1>1. LayersInv /\ [LayersNext]_layersVars => [Lands => Granted(Top.target.contract, Top.target, loaded'.layer)]_layersVars
  BY OnlyOverlaysLand, OverlayIsGranted
<1> QED
  BY <1>1, LayersInvariance, PTL DEF LayersSpec, ChangesAreGranted

-----------------------------------------------------------------------------
(* The first and the last of some levels.                                    *)

Induction == INSTANCE WellFoundedInduction
Below == {pair \in Nat \X Nat : pair[1] < pair[2]}

\* Some numbers have a least one.
LEMMA Least == ASSUME NEW S, S \subseteq Nat, S # {} PROVE \E x \in S : \A y \in S : x <= y
<1>1. Induction!IsWellFoundedOn(Below, Nat)
  BY Induction!NatLessThanWellFounded DEF Induction!OpToRel, Below
<1>2. PICK x \in S : \A y \in S : ~(<<y, x>> \in Below)
  BY <1>1, Induction!WFMin
<1>3. ASSUME NEW y \in S
      PROVE  x <= y
  <2>1. <<y, x>>[1] = y /\ <<y, x>>[2] = x /\ <<y, x>> \in Nat \X Nat
    OBVIOUS
  <2>2. ~(y < x)
    BY <1>2, <2>1 DEF Below
  <2> QED
    BY <2>2
<1> QED
  BY <1>3

\* And those below a bound have a greatest.
LEMMA Greatest ==
    ASSUME NEW n \in Nat, NEW S, S \subseteq 0..n, S # {}
    PROVE  \E x \in S : \A y \in S : y <= x
<1> DEFINE T == {n - y : y \in S}
<1>1. T \subseteq Nat /\ T # {}
  OBVIOUS
<1>2. PICK t \in T : \A u \in T : t <= u
  <2> HIDE DEF T
  <2> QED
    BY <1>1, Least
<1>3. PICK x \in S : t = n - x
  OBVIOUS
<1>4. ASSUME NEW y \in S PROVE y <= x
  BY <1>2, <1>3
<1> QED
  BY <1>4

\* The first of some levels.
LEMMA TopmostIs == ASSUME NEW L, L \subseteq Nat, NEW i \in L, \A j \in L : i <= j PROVE Topmost(L) = i
<1>1. \A k \in L : (\A j \in L : k <= j) => k = i
  OBVIOUS
<1> QED
  BY <1>1 DEF Topmost

\* Of some levels there is a first.
LEMMA TopmostOf == ASSUME NEW L, L \subseteq Nat, L # {} PROVE Topmost(L) \in L /\ \A j \in L : Topmost(L) <= j
BY Least DEF Topmost

\* The last of some levels.
LEMMA LowestIs == ASSUME NEW L, L \subseteq Nat, NEW i \in L, \A j \in L : j <= i PROVE Lowest(L) = i
<1>1. \A k \in L : (\A j \in L : j <= k) => k = i
  OBVIOUS
<1> QED
  BY <1>1 DEF Lowest

-----------------------------------------------------------------------------
(* The spine of a chain, as its definition says.                             *)

\* One level further down.
Down(p) == IF order[p] = << >> THEN p ELSE Head(order[p])

\* The spine, down to a level.
Upto(n, f) == f = [i \in 0..n |-> IF i = 0 THEN world.root ELSE Down(f[i - 1])]

\* What such a function says.
LEMMA UptoValues ==
    ASSUME NEW n \in Nat, NEW f, Upto(n, f)
    PROVE  f[0] = world.root /\ \A i \in 1..n : f[i] = Down(f[i - 1])
<1> DEFINE Value(i) == IF i = 0 THEN world.root ELSE Down(f[i - 1])
<1>1. f = [i \in 0..n |-> Value(i)]
  BY DEF Upto
<1>2. \A i \in 0..n : f[i] = Value(i)
  <2> HIDE DEF Value
  <2> QED
    BY <1>1
<1> QED
  BY <1>2

\* Two of them agree where both are defined.
LEMMA UptoAgree ==
    ASSUME NEW n \in Nat, NEW m \in Nat, n <= m, NEW f, NEW g, Upto(n, f), Upto(m, g), NEW i \in 0..n
    PROVE  f[i] = g[i]
<1> DEFINE Differ == {j \in 0..n : f[j] # g[j]}
<1>1. SUFFICES ASSUME Differ # {} PROVE FALSE
  OBVIOUS
<1>2. PICK j \in Differ : \A k \in Differ : j <= k
  <2>1. Differ \subseteq Nat
    OBVIOUS
  <2> HIDE DEF Differ
  <2> QED
    BY <1>1, <2>1, Least
<1>3. j \in 0..n /\ j # 0
  BY UptoValues
<1>4. f[j - 1] = g[j - 1]
  BY <1>2, <1>3
<1>5. f[j] = Down(f[j - 1]) /\ g[j] = Down(g[j - 1])
  BY <1>3, UptoValues
<1> QED
  BY <1>2, <1>4, <1>5

\* There is one to any level.
LEMMA UptoIs == ASSUME NEW n \in Nat PROVE \E f : Upto(n, f)
<1> DEFINE Without == {m \in Nat : ~ \E f : Upto(m, f)}
<1>1. SUFFICES ASSUME Without # {} PROVE FALSE
  OBVIOUS
<1>2. PICK m \in Without : \A k \in Without : m <= k
  <2>1. Without \subseteq Nat
    OBVIOUS
  <2> HIDE DEF Without
  <2> QED
    BY <1>1, <2>1, Least
<1>3. m # 0
  <2> DEFINE f == [i \in 0..0 |-> world.root]
  <2>1. f = [i \in 0..0 |-> IF i = 0 THEN world.root ELSE Down(f[i - 1])]
    OBVIOUS
  <2> HIDE DEF f
  <2>2. Upto(0, f)
    BY <2>1 DEF Upto
  <2> QED
    BY <2>2
<1>4. PICK f : Upto(m - 1, f)
  BY <1>2, <1>3
<1> DEFINE g == [i \in 0..m |-> IF i = m THEN Down(f[m - 1]) ELSE f[i]]
<1>5. ASSUME NEW i \in 0..m PROVE g[i] = IF i = 0 THEN world.root ELSE Down(g[i - 1])
  <2>1. f[0] = world.root /\ \A j \in 1..m - 1 : f[j] = Down(f[j - 1])
    BY <1>3, <1>4, UptoValues
  <2> QED
    BY <1>3, <2>1
<1>6. g = [i \in 0..m |-> g[i]]
  OBVIOUS
<1> HIDE DEF g
<1>7. g = [i \in 0..m |-> IF i = 0 THEN world.root ELSE Down(g[i - 1])]
  BY <1>5, <1>6
<1>8. Upto(m, g)
  BY <1>7 DEF Upto
<1> QED
  BY <1>8

\* The spine is what its recursion says.
LEMMA SpineIs == Spine[0] = world.root /\ \A i \in Nat \ {0} : Spine[i] = Down(Spine[i - 1])
<1> DEFINE To(n) == CHOOSE f : Upto(n, f)
           whole == [n \in Nat |-> To(n)[n]]
<1>1. \A n \in Nat : Upto(n, To(n))
  BY UptoIs
<1> HIDE DEF To
<1>2. ASSUME NEW n \in Nat PROVE whole[n] = IF n = 0 THEN world.root ELSE Down(whole[n - 1])
  <2>1. CASE n = 0
    BY <1>1, <2>1, UptoValues
  <2>2. CASE n # 0
    <3>1. To(n)[n] = Down(To(n)[n - 1])
      BY <1>1, <2>2, UptoValues
    <3>2. To(n - 1)[n - 1] = To(n)[n - 1]
      BY <1>1, <2>2, UptoAgree
    <3> QED
      BY <2>2, <3>1, <3>2
  <2> QED
    BY <2>1, <2>2
<1>3. whole = [n \in Nat |-> whole[n]]
  OBVIOUS
<1> HIDE DEF whole
<1>4. whole = [n \in Nat |-> IF n = 0 THEN world.root ELSE Down(whole[n - 1])]
  BY <1>2, <1>3
<1>5. Spine = [i \in Nat |-> IF i = 0 THEN world.root ELSE Down(Spine[i - 1])]
  BY <1>4 DEF Spine, Down
<1> DEFINE Value(i) == IF i = 0 THEN world.root ELSE Down(Spine[i - 1])
<1>6. \A i \in Nat : Spine[i] = Value(i)
  <2>1. Spine = [i \in Nat |-> Value(i)]
    BY <1>5
  <2> HIDE DEF Value
  <2> QED
    BY <2>1
<1> QED
  BY <1>6

-----------------------------------------------------------------------------
(* A chain, read from the top down to one level.                            *)

\* Markers are of the kinds that have them, and bases are of the graph.
OfKind(w, s) ==
    /\ w.kind # "entry" => ~s.deleted
    /\ w.kind \notin {"entry", "variable", "list"} => s.update = Absent
GraphsAssumption ==
    /\ MaxDepth \in Nat
    /\ \A w \in Worlds :
         /\ "" \notin DOMAIN w.extends /\ w.root \in DOMAIN w.extends
         /\ w.extends \in [DOMAIN w.extends -> Seq(DOMAIN w.extends)]
         /\ \A p \in DOMAIN w.extends : OfKind(w, w.ships[p])

\* The levels of L that have the whole file, and from the topmost of them up.
HasWhole(i) == Written(i).full # Absent \/ Written(i).deleted
Whole(L) == {i \in L : HasWhole(i)}
Floor(L) == Topmost(Whole(L))
FromFloor(L) == {i \in L : i <= Floor(L)}
Saying(L, f) == {i \in FromFloor(L) : Says(i, f)}
Concerns(i, m) == Adds(i, m) \/ Drops(i, m)
Moving(L, m) == {i \in FromFloor(L) : Concerns(i, m)}

\* The file is what the levels of L say, and nothing marks what is not there.
FieldsAsSaid(L, file) ==
    /\ DOMAIN file = DOMAIN Written(Floor(L)).full \cup UNION {DOMAIN Written(i).update : i \in FromFloor(L)}
    /\ \A f \in DOMAIN file :
          file[f] = IF Saying(L, f) # {} THEN Written(Topmost(Saying(L, f))).update[f] ELSE Written(Floor(L)).full[f]
MembersAsSaid(L, file) ==
    \A m : m \in file.members <=> IF Moving(L, m) # {} THEN Adds(Topmost(Moving(L, m)), m)
                                  ELSE m \in Written(Floor(L)).full.members
ReadsFrom(L, file) ==
    IF Whole(L) = {} THEN file = Absent /\ \A i \in L : Written(i).update = Absent
    ELSE IF world.kind = "list" THEN MembersAsSaid(L, file) ELSE FieldsAsSaid(L, file)

\* The layer a trace names.
Resolving(L) == {i \in L : Says(i, "resolve")}
Declaring(L) == {i \in L : Written(i).full # Absent}
ResolvedBy(L) ==
    IF world.kind # "variable" \/ Declaring(L) = {} THEN ""
    ELSE IF Resolving(L) # {} THEN Spine[Topmost(Resolving(L))] ELSE Spine[Lowest(Declaring(L))]

\* Levels with one more on top.
LEMMA OneMore ==
    ASSUME NEW d \in Nat, NEW L, L \subseteq Nat, \A i \in L : d < i
    PROVE  LET M == {d} \cup L IN
           /\ M \subseteq Nat
           /\ HasWhole(d) => Whole(M) # {} /\ Floor(M) = d /\ FromFloor(M) = {d}
           /\ ~HasWhole(d) => /\ Whole(M) = Whole(L) /\ Floor(M) = Floor(L)
                              /\ Whole(L) # {} => FromFloor(M) = {d} \cup FromFloor(L)
<1> DEFINE M == {d} \cup L
<1>1. M \subseteq Nat /\ \A i \in M : d <= i
  OBVIOUS
<1>2. ASSUME HasWhole(d) PROVE Whole(M) # {} /\ Floor(M) = d /\ FromFloor(M) = {d}
  <2>1. d \in Whole(M) /\ Whole(M) \subseteq Nat /\ \A i \in Whole(M) : d <= i
    BY <1>1, <1>2 DEF Whole
  <2>2. Floor(M) = d
    BY <2>1, TopmostIs DEF Floor
  <2>3. d \in M
    OBVIOUS
  <2> HIDE DEF M
  <2>4. {i \in M : i <= d} = {d}
    <3>1. \A i \in M : i <= d <=> i = d
      BY <1>1
    <3> QED
      BY <2>3, <3>1
  <2> QED
    BY <2>1, <2>2, <2>4 DEF FromFloor
<1>3. ASSUME ~HasWhole(d)
      PROVE  /\ Whole(M) = Whole(L) /\ Floor(M) = Floor(L)
             /\ Whole(L) # {} => FromFloor(M) = {d} \cup FromFloor(L)
  <2>1. Whole(M) = Whole(L) /\ Floor(M) = Floor(L)
    BY <1>3 DEF Whole, Floor
  <2>2. ASSUME Whole(L) # {} PROVE FromFloor(M) = {d} \cup FromFloor(L)
    <3>1. Whole(L) \subseteq L
      BY DEF Whole
    <3>2. Floor(L) \in Whole(L)
      BY <2>2, <3>1, TopmostOf DEF Floor
    <3>3. d < Floor(L) /\ Floor(L) \in Nat
      BY <3>1, <3>2
    <3> QED
      BY <2>1, <3>3 DEF FromFloor
  <2> QED
    BY <2>1, <2>2
<1> QED
  BY <1>1, <1>2, <1>3

\* What a level makes of a file that is no list.
LEMMA FileLands ==
    ASSUME NEW below, NEW s, IsFile(below), IsShip(s), OfKind(world, s), world.kind # "list", Compose(below, s).ok
    PROVE  LET file == Compose(below, s).file IN
           /\ s.full # Absent \/ s.deleted => file = s.full /\ s.update = Absent
           /\ ~(s.full # Absent \/ s.deleted) =>
                /\ DOMAIN file = DOMAIN below \cup DOMAIN s.update
                /\ \A f \in DOMAIN file : file[f] = IF f \in DOMAIN s.update THEN s.update[f] ELSE below[f]
                /\ IsFile(file)
                /\ below = Absent => s.update = Absent
<1>1. /\ DOMAIN Merge(below, s.update) = DOMAIN below \cup DOMAIN s.update
      /\ \A f \in DOMAIN below \cup DOMAIN s.update :
            Merge(below, s.update)[f] = IF f \in DOMAIN s.update THEN s.update[f] ELSE below[f]
      /\ IsFile(Merge(below, s.update))
      /\ s.update = Absent => Merge(below, s.update) = below
  <2> DEFINE Value(f) == IF f \in DOMAIN s.update THEN s.update[f] ELSE below[f]
             fields == DOMAIN below \cup DOMAIN s.update
  <2>1. Merge(below, s.update) = [f \in fields |-> Value(f)]
    BY DEF Merge
  <2> HIDE DEF Value, fields
  <2>2. \A f \in fields : Merge(below, s.update)[f] = Value(f)
    BY <2>1
  <2> QED
    BY <2>2, Merges DEF Value, fields
<1>2. CASE world.kind = "entry"
  <2>1. ComposeEntry(below, s).ok /\ Compose(below, s) = ComposeEntry(below, s)
    BY <1>2 DEF Compose
  <2>2. LET file == ComposeEntry(below, s).file IN
        /\ s.deleted => s.full = Absent /\ s.update = Absent /\ file = Absent
        /\ ~s.deleted /\ s.full # Absent => s.update = Absent /\ file = s.full
        /\ ~s.deleted /\ s.full = Absent => file = Merge(below, s.update)
        /\ s.update # Absent => below # Absent
    BY <2>1, EntryComposed
  <2> QED
    BY <1>1, <2>1, <2>2
<1>3. CASE world.kind = "variable"
  <2>1. ComposeVariable(below, s).ok /\ Compose(below, s) = ComposeVariable(below, s) /\ ~s.deleted
    BY <1>3 DEF Compose, OfKind
  <2>2. LET file == ComposeVariable(below, s).file IN
        /\ s.full # Absent => file = s.full /\ s.update = Absent
        /\ s.full = Absent => file = Merge(below, s.update)
    BY <2>1, VariableComposed
  <2>3. s.update # Absent => below # Absent
    BY <2>1, Admissions DEF ComposeVariable
  <2> QED
    BY <1>1, <2>1, <2>2, <2>3
<1>4. CASE world.kind \notin {"entry", "variable", "list"}
  <2>1. Compose(below, s) = ComposeWhole(below, s) /\ ~s.deleted /\ s.update = Absent
    BY <1>4 DEF Compose, OfKind
  <2>2. ComposeWhole(below, s).file = IF s.full # Absent THEN s.full ELSE below
    BY WholeComposed
  <2>3. DOMAIN s.update = {}
    BY <2>1, AbsentIsFile
  <2> QED
    BY <1>1, <2>1, <2>2, <2>3
<1> QED
  BY <1>2, <1>3, <1>4

\* What a level makes of a list.
LEMMA ListLands ==
    ASSUME NEW d, NEW below, IsFile(below), IsShip(Written(d)), world.kind = "list", Compose(below, Written(d)).ok
    PROVE  LET file == Compose(below, Written(d)).file
               beneath == IF Written(d).full # Absent THEN Written(d).full ELSE below
           IN  /\ Written(d).update = Absent => file = beneath
               /\ \A m : ~(Adds(d, m) /\ Drops(d, m))
               /\ \A m : m \in file.members <=> IF Concerns(d, m) THEN Adds(d, m) ELSE m \in beneath.members
               /\ beneath = Absent => Written(d).update = Absent
<1> DEFINE s == Written(d)
           file == Compose(below, s).file
           beneath == IF s.full # Absent THEN s.full ELSE below
           added == IF "members" \in DOMAIN s.update THEN s.update.members ELSE {}
           removed == IF "deleted" \in DOMAIN s.update THEN s.update.deleted ELSE {}
           left == (beneath.members \cup added) \ removed
<1>1. /\ s.update # Absent => beneath # Absent
      /\ s.update = Absent => Compose(below, s) = Admitted(beneath)
      /\ s.update # Absent => Compose(below, s) = ComposeMembers(beneath.members, s.update)
  BY Admissions DEF ComposeList, Compose
<1>2. \A m : (Adds(d, m) <=> m \in added) /\ (Drops(d, m) <=> m \in removed)
  BY DEF Adds, Drops, Says
<1>3. CASE s.update = Absent
  <2>1. file = beneath
    BY <1>1, <1>3, Admissions
  <2>2. added = {} /\ removed = {}
    BY <1>3, AbsentIsFile
  <2> HIDE DEF file, beneath, added, removed
  <2>3. \A m : ~Adds(d, m) /\ ~Drops(d, m)
    BY <1>2, <2>2
  <2> QED
    BY <1>3, <2>1, <2>3 DEF Concerns, file, beneath
<1>4. CASE s.update # Absent
  <2> DEFINE condition == /\ added \cap removed = {}
                          /\ removed \subseteq beneath.members \cup added
                          /\ "deleted" \in DOMAIN s.update => left # {}
  <2>1. Compose(below, s) = If(condition, [members |-> left])
    <3>1. Compose(below, s) = ComposeMembers(beneath.members, s.update)
      BY <1>1, <1>4
    <3> QED
      BY <3>1 DEF ComposeMembers
  <2> HIDE DEF condition, left
  <2>2. condition /\ file = [members |-> left]
    BY <2>1, Admissions
  <2>3. file.members = left
    BY <2>2
  <2>4. added \cap removed = {}
    BY <2>2 DEF condition
  <2> HIDE DEF file, beneath, added, removed
  <2>5. \A m : m \in left <=> (m \in beneath.members \/ m \in added) /\ m \notin removed
    BY DEF left
  <2> QED
    BY <1>1, <1>2, <1>4, <2>3, <2>4, <2>5 DEF Concerns, file, beneath
<1> QED
  BY <1>3, <1>4

\* So the file reads as before with one level more.
LEMMA FieldsLand ==
    ASSUME NEW d \in Nat, NEW L, L \subseteq Nat, \A i \in L : d < i,
           NEW below, IsFile(below), ReadsFrom(L, below), world.kind # "list",
           IsShip(Written(d)), OfKind(world, Written(d)), Compose(below, Written(d)).ok
    PROVE  ReadsFrom({d} \cup L, Compose(below, Written(d)).file)
<1> DEFINE s == Written(d)
           M == {d} \cup L
           file == Compose(below, s).file
<1>1. /\ HasWhole(d) => file = s.full /\ s.update = Absent
      /\ ~HasWhole(d) =>
           /\ DOMAIN file = DOMAIN below \cup DOMAIN s.update
           /\ \A f \in DOMAIN file : file[f] = IF f \in DOMAIN s.update THEN s.update[f] ELSE below[f]
           /\ IsFile(file)
           /\ below = Absent => s.update = Absent
  BY FileLands DEF HasWhole
<1>2. /\ HasWhole(d) => Whole(M) # {} /\ Floor(M) = d /\ FromFloor(M) = {d}
      /\ ~HasWhole(d) => /\ Whole(M) = Whole(L) /\ Floor(M) = Floor(L)
                         /\ Whole(L) # {} => FromFloor(M) = {d} \cup FromFloor(L)
      /\ M \subseteq Nat
  BY OneMore
<1> SUFFICES ReadsFrom(M, file)
  OBVIOUS
<1>3. \A i \in M : i \in L \/ i = d
  OBVIOUS
<1>4. \A i \in FromFloor(L) : d < i /\ i \in Nat
  BY DEF FromFloor
<1> HIDE DEF file, M
<1>5. CASE HasWhole(d)
  <2>1. DOMAIN s.update = {}
    BY <1>1, <1>5, AbsentIsFile
  <2>2. \A f : Saying(M, f) = {}
    BY <1>2, <1>5, <2>1 DEF Saying, Says
  <2>3. UNION {DOMAIN Written(i).update : i \in FromFloor(M)} = {}
    BY <1>2, <1>5, <2>1
  <2>4. FieldsAsSaid(M, file)
    BY <1>1, <1>2, <1>5, <2>2, <2>3 DEF FieldsAsSaid
  <2> QED
    BY <1>2, <1>5, <2>4 DEF ReadsFrom
<1>6. CASE ~HasWhole(d) /\ Whole(L) = {}
  <2>1. below = Absent /\ \A i \in L : Written(i).update = Absent
    BY <1>6 DEF ReadsFrom
  <2>2. s.update = Absent /\ DOMAIN file = {}
    BY <1>1, <1>6, <2>1, AbsentIsFile
  <2>3. file = Absent
    BY <1>1, <1>6, <2>2, NoFields
  <2> QED
    BY <1>2, <1>3, <1>6, <2>1, <2>2, <2>3 DEF ReadsFrom
<1>7. CASE ~HasWhole(d) /\ Whole(L) # {}
  <2>1. FieldsAsSaid(L, below)
    BY <1>7 DEF ReadsFrom
  <2>2. FromFloor(M) = {d} \cup FromFloor(L)
    BY <1>2, <1>7
  <2>3. UNION {DOMAIN Written(i).update : i \in FromFloor(M)}
          = DOMAIN s.update \cup UNION {DOMAIN Written(i).update : i \in FromFloor(L)}
    BY <2>2
  <2>4. DOMAIN file = DOMAIN Written(Floor(M)).full \cup UNION {DOMAIN Written(i).update : i \in FromFloor(M)}
    BY <1>1, <1>2, <1>7, <2>1, <2>3 DEF FieldsAsSaid
  <2>5. ASSUME NEW f \in DOMAIN file
        PROVE  file[f] = IF Saying(M, f) # {} THEN Written(Topmost(Saying(M, f))).update[f] ELSE Written(Floor(M)).full[f]
    <3>1. CASE f \in DOMAIN s.update
      <4>1. d \in Saying(M, f) /\ Saying(M, f) \subseteq Nat /\ \A i \in Saying(M, f) : d <= i
        BY <1>4, <2>2, <3>1 DEF Saying, Says
      <4>2. Topmost(Saying(M, f)) = d
        BY <4>1, TopmostIs
      <4> QED
        BY <1>1, <1>7, <3>1, <4>1, <4>2
    <3>2. CASE f \notin DOMAIN s.update
      <4>1. Saying(M, f) = Saying(L, f)
        BY <2>2, <3>2 DEF Saying, Says
      <4>2. file[f] = below[f] /\ f \in DOMAIN below
        BY <1>1, <1>7, <3>2
      <4> QED
        BY <1>2, <1>7, <2>1, <4>1, <4>2 DEF FieldsAsSaid
    <3> QED
      BY <3>1, <3>2
  <2>6. FieldsAsSaid(M, file)
    BY <2>4, <2>5 DEF FieldsAsSaid
  <2> QED
    BY <1>2, <1>7, <2>6 DEF ReadsFrom
<1> QED
  BY <1>5, <1>6, <1>7

\* And so does a list.
LEMMA MembersLand ==
    ASSUME NEW d \in Nat, NEW L, L \subseteq Nat, \A i \in L : d < i,
           NEW below, IsFile(below), ReadsFrom(L, below), world.kind = "list",
           IsShip(Written(d)), OfKind(world, Written(d)), Compose(below, Written(d)).ok
    PROVE  ReadsFrom({d} \cup L, Compose(below, Written(d)).file)
<1> DEFINE s == Written(d)
           M == {d} \cup L
           file == Compose(below, s).file
           beneath == IF s.full # Absent THEN s.full ELSE below
<1>1. /\ s.update = Absent => file = beneath
      /\ \A m : m \in file.members <=> IF Concerns(d, m) THEN Adds(d, m) ELSE m \in beneath.members
      /\ beneath = Absent => s.update = Absent
  BY ListLands
<1>2. /\ HasWhole(d) => Whole(M) # {} /\ Floor(M) = d /\ FromFloor(M) = {d}
      /\ ~HasWhole(d) => /\ Whole(M) = Whole(L) /\ Floor(M) = Floor(L)
                         /\ Whole(L) # {} => FromFloor(M) = {d} \cup FromFloor(L)
      /\ M \subseteq Nat
  BY OneMore
<1>3. HasWhole(d) <=> s.full # Absent
  BY DEF HasWhole, OfKind
<1> SUFFICES ReadsFrom(M, file)
  OBVIOUS
<1>4. \A i \in M : i \in L \/ i = d
  OBVIOUS
<1>5. \A i \in FromFloor(L) : d < i /\ i \in Nat
  BY DEF FromFloor
<1>6. \A m : Concerns(d, m) /\ d \in FromFloor(M) /\ FromFloor(M) \subseteq {d} \cup FromFloor(L)
               => Moving(M, m) # {} /\ Topmost(Moving(M, m)) = d
  <2> SUFFICES ASSUME NEW m, Concerns(d, m), d \in FromFloor(M), FromFloor(M) \subseteq {d} \cup FromFloor(L)
               PROVE  Moving(M, m) # {} /\ Topmost(Moving(M, m)) = d
    OBVIOUS
  <2>1. d \in Moving(M, m) /\ Moving(M, m) \subseteq Nat /\ \A i \in Moving(M, m) : d <= i
    BY <1>5 DEF Moving
  <2> QED
    BY <2>1, TopmostIs
<1> HIDE DEF file, M
<1>7. CASE HasWhole(d)
  <2>1. ASSUME NEW m PROVE m \in file.members <=> IF Moving(M, m) # {} THEN Adds(Topmost(Moving(M, m)), m)
                                                  ELSE m \in Written(Floor(M)).full.members
    <3>1. CASE Concerns(d, m)
      BY <1>1, <1>2, <1>6, <1>7, <3>1
    <3>2. CASE ~Concerns(d, m)
      <4>1. Moving(M, m) = {}
        BY <1>2, <1>7, <3>2 DEF Moving
      <4> QED
        BY <1>1, <1>2, <1>3, <1>7, <3>2, <4>1
    <3> QED
      BY <3>1, <3>2
  <2>2. MembersAsSaid(M, file)
    BY <2>1 DEF MembersAsSaid
  <2> QED
    BY <1>2, <1>7, <2>2 DEF ReadsFrom
<1>8. CASE ~HasWhole(d) /\ Whole(L) = {}
  <2>1. below = Absent /\ \A i \in L : Written(i).update = Absent
    BY <1>8 DEF ReadsFrom
  <2>2. s.update = Absent /\ file = Absent
    BY <1>1, <1>3, <1>8, <2>1
  <2> QED
    BY <1>2, <1>4, <1>8, <2>1, <2>2 DEF ReadsFrom
<1>9. CASE ~HasWhole(d) /\ Whole(L) # {}
  <2>1. MembersAsSaid(L, below)
    BY <1>9 DEF ReadsFrom
  <2>2. FromFloor(M) = {d} \cup FromFloor(L)
    BY <1>2, <1>9
  <2>3. ASSUME NEW m PROVE m \in file.members <=> IF Moving(M, m) # {} THEN Adds(Topmost(Moving(M, m)), m)
                                                  ELSE m \in Written(Floor(M)).full.members
    <3>1. CASE Concerns(d, m)
      BY <1>1, <1>6, <2>2, <3>1
    <3>2. CASE ~Concerns(d, m)
      <4>1. Moving(M, m) = Moving(L, m)
        BY <2>2, <3>2 DEF Moving
      <4>2. m \in file.members <=> m \in below.members
        BY <1>1, <1>3, <1>9, <3>2
      <4> QED
        BY <1>2, <1>9, <2>1, <4>1, <4>2 DEF MembersAsSaid
    <3> QED
      BY <3>1, <3>2
  <2>4. MembersAsSaid(M, file)
    BY <2>3 DEF MembersAsSaid
  <2> QED
    BY <1>2, <1>9, <2>4 DEF ReadsFrom
<1> QED
  BY <1>7, <1>8, <1>9

\* What is there of a variable was declared, and what is not was not.
LEMMA DeclaredIsThere ==
    ASSUME NEW L, L \subseteq Nat, NEW file, ReadsFrom(L, file), world.kind = "variable",
           \A i \in L : IsShip(Written(i)) /\ OfKind(world, Written(i))
    PROVE  /\ Whole(L) = Declaring(L)
           /\ file = Absent <=> Declaring(L) = {}
<1>1. Whole(L) = Declaring(L)
  BY DEF Whole, Declaring, HasWhole, OfKind
<1>2. ASSUME Whole(L) # {} PROVE file # Absent
  <2>1. Floor(L) \in Whole(L)
    BY <1>2, TopmostOf DEF Floor, Whole
  <2>2. Written(Floor(L)).full # Absent /\ IsFile(Written(Floor(L)).full)
    BY <1>1, <2>1 DEF Declaring, IsShip
  <2>3. DOMAIN Written(Floor(L)).full # {}
    BY <2>2, NoFields
  <2>4. FieldsAsSaid(L, file)
    BY <1>2 DEF ReadsFrom
  <2> QED
    BY <2>3, <2>4, AbsentIsFile DEF FieldsAsSaid
<1> QED
  BY <1>1, <1>2 DEF ReadsFrom

\* And a trace names the layer that resolves it, with one level more.
LEMMA ProvenanceLands ==
    ASSUME NEW n \in Nat, NEW d \in Nat, NEW L, L \subseteq 0..n, \A i \in L : d < i,
           NEW below, IsFile(below), ReadsFrom(L, below),
           \A i \in {d} \cup L : IsShip(Written(i)) /\ OfKind(world, Written(i)), Compose(below, Written(d)).ok
    PROVE  ResolvedBy({d} \cup L) = IF Attributes(below, Written(d)) THEN Spine[d] ELSE ResolvedBy(L)
<1> DEFINE s == Written(d)
           M == {d} \cup L
<1>0. SUFFICES ASSUME world.kind = "variable"
               PROVE  ResolvedBy(M) = IF Attributes(below, s) THEN Spine[d] ELSE ResolvedBy(L)
  BY DEF ResolvedBy, Attributes
<1>1. (below = Absent <=> Declaring(L) = {}) /\ Whole(L) = Declaring(L) /\ L \subseteq Nat
  <2>1. L \subseteq Nat
    OBVIOUS
  <2>2. \A i \in L : IsShip(Written(i)) /\ OfKind(world, Written(i))
    OBVIOUS
  <2> QED
    BY <1>0, <2>1, <2>2, DeclaredIsThere
<1>2. /\ s.full # Absent => s.update = Absent
      /\ s.update # Absent => below # Absent
  <2>1. ComposeVariable(below, s).ok
    BY <1>0 DEF Compose
  <2> QED
    BY <2>1, VariableComposed, Admissions DEF ComposeVariable
<1>3. "resolve" \in DOMAIN s.update => s.update # Absent
  BY AbsentIsFile
<1>4. /\ Declaring(M) = IF s.full # Absent THEN {d} \cup Declaring(L) ELSE Declaring(L)
      /\ Resolving(M) = IF "resolve" \in DOMAIN s.update THEN {d} \cup Resolving(L) ELSE Resolving(L)
      /\ Declaring(L) \subseteq L /\ Resolving(L) \subseteq L
  BY DEF Declaring, Resolving, Says
<1>5. Attributes(below, s) <=> (s.full # Absent /\ below = Absent) \/ "resolve" \in DOMAIN s.update
  BY <1>0 DEF Attributes
<1>6. \A K : ResolvedBy(K) = IF Declaring(K) = {} THEN ""
                             ELSE IF Resolving(K) # {} THEN Spine[Topmost(Resolving(K))] ELSE Spine[Lowest(Declaring(K))]
  BY <1>0 DEF ResolvedBy
<1> HIDE DEF M
<1>7. CASE "resolve" \in DOMAIN s.update
  <2>1. Declaring(M) # {}
    BY <1>1, <1>2, <1>3, <1>4, <1>7
  <2>2. d \in Resolving(M) /\ Resolving(M) \subseteq Nat /\ \A i \in Resolving(M) : d <= i
    <3>1. Resolving(M) = {d} \cup Resolving(L)
      BY <1>4, <1>7
    <3>2. \A i \in Resolving(L) : d < i /\ i \in Nat
      BY <1>1, <1>4
    <3> HIDE DEF Attributes
    <3> QED
      BY ONLY <3>1, <3>2, d \in Nat
  <2>3. Topmost(Resolving(M)) = d
    BY <2>2, TopmostIs
  <2> QED
    BY <1>5, <1>6, <1>7, <2>1, <2>2, <2>3
<1>8. CASE s.full # Absent /\ below = Absent
  <2>1. \A i \in L : Written(i).update = Absent
    BY <1>1, <1>8 DEF ReadsFrom
  <2>2. Resolving(M) = {}
    BY <1>2, <1>3, <1>4, <1>8, <2>1, AbsentIsFile DEF Resolving, Says
  <2>3. Declaring(M) = {d}
    BY <1>1, <1>4, <1>8
  <2>4. Lowest(Declaring(M)) = d
    BY <2>3, LowestIs
  <2> QED
    BY <1>5, <1>6, <1>8, <2>2, <2>3, <2>4
<1>9. CASE "resolve" \notin DOMAIN s.update /\ s.full # Absent /\ below # Absent
  <2>1. Resolving(M) = Resolving(L) /\ Declaring(M) = {d} \cup Declaring(L) /\ Declaring(L) # {}
    BY <1>1, <1>4, <1>9
  <2>2. PICK i \in Declaring(L) : \A j \in Declaring(L) : j <= i
    BY <1>4, <2>1, Greatest
  <2>3. d < i /\ i \in Nat /\ Declaring(L) \subseteq Nat
    BY <1>1, <1>4
  <2>4. Lowest(Declaring(L)) = i /\ Lowest(Declaring(M)) = i
    <3>1. Lowest(Declaring(L)) = i
      BY <2>2, <2>3, LowestIs
    <3>2. Declaring(M) \subseteq Nat /\ i \in Declaring(M) /\ \A j \in Declaring(M) : j <= i
      BY <2>1, <2>2, <2>3
    <3> QED
      BY <3>1, <3>2, LowestIs
  <2> QED
    BY <1>5, <1>6, <1>9, <2>1, <2>4
<1>10. CASE "resolve" \notin DOMAIN s.update /\ s.full = Absent
  BY <1>4, <1>5, <1>6, <1>10
<1> QED
  BY <1>7, <1>8, <1>9, <1>10 DEF M

-----------------------------------------------------------------------------
(* The walk over a chain.                                                   *)

LevelsFrom(d) == {i \in Levels : d <= i}

\* A projection of the levels from d on, and what the package there returns.
AsRead(d, layer) ==
    /\ layer.ship = Landed(layer.ship.full) /\ IsFile(layer.ship.full)
    /\ ReadsFrom(LevelsFrom(d), layer.ship.full)
    /\ layer.from = ResolvedBy(LevelsFrom(d))
ReturnedFrom(d, layer) == IF order[Spine[d]] = << >> THEN layer = Own(Spine[d]) ELSE AsRead(d, layer)

\* The frames follow the spine; the one on top has its base or waits for it.
Unbased(frame) == frame.bases = order[frame.package] /\ frame.target = Nothing /\ frame.owner.ship = Idle
Based(i) == loaded = Running /\ stack[i].bases = << >> /\ AsRead(i, stack[i].target)
Climbs(i) ==
    /\ stack[i].package = Spine[i - 1] /\ order[Spine[i - 1]] # << >>
    /\ Unbased(stack[i]) \/ (i = Len(stack) /\ Based(i))

ChainHolds ==
    /\ order = world.extends
    /\ Len(stack) <= MaxDepth
    /\ \A i \in 1..Len(stack) : Climbs(i)
    /\ loaded.is = "ok" => ReturnedFrom(Len(stack), loaded.layer)
    /\ results # << >> /\ results[1].is = "ok" => ReturnedFrom(0, results[1].layer)

ChainInv ==
    /\ world = Idle => results = << >>
    /\ world # Idle => order \in [DOMAIN order -> Seq(DOMAIN order)]
    /\ \E S : results \in Seq(S)
    /\ world # Idle /\ Chain => ChainHolds

\* All of this is about the world and the order of its bases.
LEMMA SameWorld ==
    ASSUME UNCHANGED <<world, order>>
    PROVE  /\ Spine' = Spine /\ Chain' = Chain
           /\ \A d, layer : AsRead(d, layer)' <=> AsRead(d, layer)
           /\ \A d, layer : ReturnedFrom(d, layer)' <=> ReturnedFrom(d, layer)
           /\ \A frame : Unbased(frame)' <=> Unbased(frame)
<1>1. Spine' = Spine /\ Chain' = Chain
  BY DEF Spine, Chain
<1>2. Levels' = Levels /\ \A i : Written(i)' = Written(i)
  BY <1>1 DEF Levels, Written
<1>3. \A d : LevelsFrom(d)' = LevelsFrom(d)
  BY <1>2 DEF LevelsFrom
<1>4. \A L : Whole(L)' = Whole(L) /\ Resolving(L)' = Resolving(L) /\ Declaring(L)' = Declaring(L)
  BY <1>2 DEF Whole, HasWhole, Resolving, Declaring, Says
<1>5. \A L : Floor(L)' = Floor(L) /\ FromFloor(L)' = FromFloor(L)
  BY <1>4 DEF Floor, FromFloor
<1>6. \A L, x : Saying(L, x)' = Saying(L, x) /\ Moving(L, x)' = Moving(L, x)
  BY <1>2, <1>5 DEF Saying, Moving, Concerns, Adds, Drops, Says
<1>7. \A L, file : ReadsFrom(L, file)' <=> ReadsFrom(L, file)
  <2>1. \A L, file : FieldsAsSaid(L, file)' <=> FieldsAsSaid(L, file)
    BY <1>2, <1>5, <1>6 DEF FieldsAsSaid
  <2>2. \A i, m : Adds(i, m)' <=> Adds(i, m)
    BY <1>2 DEF Adds, Says
  <2>3. \A L, m : Adds(Topmost(Moving(L, m)), m)' <=> Adds(Topmost(Moving(L, m)), m)
    BY <1>2, <1>6 DEF Adds, Says
  <2>4. \A L, file : MembersAsSaid(L, file)' <=> MembersAsSaid(L, file)
    BY <1>2, <1>5, <1>6, <2>3 DEF MembersAsSaid
  <2> QED
    BY <1>2, <1>4, <2>1, <2>4 DEF ReadsFrom
<1>8. \A L : ResolvedBy(L)' = ResolvedBy(L)
  BY <1>1, <1>4 DEF ResolvedBy
<1>9. \A d, layer : AsRead(d, layer)' <=> AsRead(d, layer)
  BY <1>3, <1>7, <1>8 DEF AsRead
<1> QED
  BY <1>1, <1>9 DEF ReturnedFrom, Own, Unbased

\* The spine is one of packages of the graph.
LEMMA OnSpine ==
    ASSUME WorldsAssumption, GraphsAssumption, world \in Worlds, order = world.extends
    PROVE  \A i \in Nat : Spine[i] \in DOMAIN order /\ IsShip(Written(i)) /\ OfKind(world, Written(i))
<1> DEFINE Off == {i \in Nat : Spine[i] \notin DOMAIN order}
<1>1. ASSUME Off # {} PROVE FALSE
  <2>1. PICK i \in Off : \A j \in Off : i <= j
    <3>1. Off \subseteq Nat
      OBVIOUS
    <3> HIDE DEF Off
    <3> QED
      BY <1>1, <3>1, Least
  <2>2. Spine[0] \in DOMAIN order
    BY SpineIs DEF GraphsAssumption
  <2>3. i \in Nat \ {0} /\ i - 1 \in Nat /\ i - 1 \notin Off
    BY <2>1, <2>2
  <2>4. Spine[i - 1] \in DOMAIN order /\ Spine[i] = Down(Spine[i - 1])
    BY <2>3, SpineIs
  <2>5. \A p \in DOMAIN order : order[p] \in Seq(DOMAIN order)
    BY DEF GraphsAssumption
  <2>6. \A s : s \in Seq(DOMAIN order) /\ s # << >> => Head(s) \in DOMAIN order
    OBVIOUS
  <2>7. Spine[i] \in DOMAIN order
    BY <2>4, <2>5, <2>6 DEF Down
  <2> QED
    BY <2>1, <2>7
<1>2. \A i \in Nat : Spine[i] \in DOMAIN order
  BY <1>1
<1> QED
  BY <1>2 DEF Written, WorldsAssumption, GraphsAssumption

\* The levels from one on are it and those below it.
LEMMA LevelsBelow ==
    ASSUME GraphsAssumption, NEW d \in Nat, d <= MaxDepth, \A j \in 0..d - 1 : order[Spine[j]] # << >>
    PROVE  /\ LevelsFrom(d) = {d} \cup LevelsFrom(d + 1)
           /\ LevelsFrom(d + 1) \subseteq 0..MaxDepth /\ \A i \in LevelsFrom(d + 1) : d < i
           /\ order[Spine[d]] = << >> => LevelsFrom(d + 1) = {}
<1>1. MaxDepth \in Nat
  BY DEF GraphsAssumption
<1>2. d \in Levels /\ Levels \subseteq 0..MaxDepth
  BY <1>1 DEF Levels
<1>3. \A i \in Levels : i \in Nat /\ (d <= i <=> i = d \/ d + 1 <= i)
  BY <1>1, <1>2
<1>4. ASSUME order[Spine[d]] = << >>, NEW i \in Levels, d + 1 <= i PROVE FALSE
  <2>1. d \in 0..i - 1
    BY <1>3, <1>4
  <2> QED
    BY <1>4, <2>1 DEF Levels
<1>5. LevelsFrom(d) = {d} \cup LevelsFrom(d + 1)
  BY <1>2, <1>3 DEF LevelsFrom
<1>6. \A i \in LevelsFrom(d + 1) : i \in Levels /\ d + 1 <= i /\ d < i
  BY <1>3 DEF LevelsFrom
<1>7. order[Spine[d]] = << >> => LevelsFrom(d + 1) = {}
  BY <1>4, <1>6
<1> QED
  BY <1>2, <1>5, <1>6, <1>7

\* A level lands on those below it.
LEMMA LevelLands ==
    ASSUME WorldsAssumption, GraphsAssumption, world \in Worlds, order = world.extends,
           NEW d \in Nat, d <= MaxDepth, \A j \in 0..d - 1 : order[Spine[j]] # << >>,
           NEW below, IsFile(below), ReadsFrom(LevelsFrom(d + 1), below), Compose(below, Written(d)).ok
    PROVE  LET file == Compose(below, Written(d)).file IN
           /\ IsFile(file) /\ ReadsFrom(LevelsFrom(d), file)
           /\ ResolvedBy(LevelsFrom(d))
                = IF Attributes(below, Written(d)) THEN Spine[d] ELSE ResolvedBy(LevelsFrom(d + 1))
<1> DEFINE L == LevelsFrom(d + 1)
<1>1. LevelsFrom(d) = {d} \cup L /\ L \subseteq 0..MaxDepth /\ (\A i \in L : d < i) /\ MaxDepth \in Nat
  BY LevelsBelow DEF GraphsAssumption
<1>2. \A i \in {d} \cup L : i \in Nat
  BY <1>1
<1>3. \A i \in {d} \cup L : IsShip(Written(i)) /\ OfKind(world, Written(i))
  BY <1>2, OnSpine
<1> HIDE DEF L
<1>4. L \subseteq Nat /\ IsShip(Written(d)) /\ OfKind(world, Written(d)) /\ ReadsFrom(L, below)
  BY <1>2, <1>3 DEF L
<1>5. IsFile(Compose(below, Written(d)).file)
  BY <1>4, ComposedIsFile
<1>6. ReadsFrom({d} \cup L, Compose(below, Written(d)).file)
  BY <1>1, <1>4, FieldsLand, MembersLand
<1>7. ResolvedBy({d} \cup L) = IF Attributes(below, Written(d)) THEN Spine[d] ELSE ResolvedBy(L)
  BY <1>1, <1>3, <1>4, ProvenanceLands
<1> QED
  BY <1>1, <1>5, <1>6, <1>7 DEF L

\* On nothing a projection lands as it is.
LEMMA LandsOnNothing ==
    ASSUME NEW file, IsFile(file), Compose(Absent, Landed(file)).ok
    PROVE  /\ Compose(Absent, Landed(file)).file = file
           /\ Attributes(Absent, Landed(file)) <=> world.kind = "variable" /\ file # Absent
<1> DEFINE s == Landed(file)
           made == Compose(Absent, s).file
<1>1. s.full = file /\ s.update = Absent /\ ~s.deleted /\ IsShip(s) /\ IsFile(Absent)
  BY AbsentIsFile DEF Landed, Ships, IsShip
<1>2. Attributes(Absent, s) <=> world.kind = "variable" /\ file # Absent
  BY <1>1, AbsentIsFile DEF Attributes
<1>0. Compose(Absent, s).ok
  OBVIOUS
<1> HIDE DEF s
<1>3. Merge(Absent, Absent) = Absent
  BY Merges, AbsentIsFile
<1>4. made = file
  <2>1. CASE world.kind = "entry"
    <3>1. Compose(Absent, s) = ComposeEntry(Absent, s)
      BY <2>1 DEF Compose
    <3>2. LET one == ComposeEntry(Absent, s).file IN
          /\ s.full # Absent => one = s.full
          /\ s.full = Absent => one = Merge(Absent, s.update)
      BY <1>0, <1>1, <3>1, EntryComposed
    <3> QED
      BY <1>1, <1>3, <3>1, <3>2
  <2>2. CASE world.kind = "variable"
    <3>1. Compose(Absent, s) = ComposeVariable(Absent, s)
      BY <2>2 DEF Compose
    <3>2. LET one == ComposeVariable(Absent, s).file IN
          /\ s.full # Absent => one = s.full
          /\ s.full = Absent => one = Merge(Absent, s.update)
      BY <1>0, <1>1, <3>1, VariableComposed
    <3> QED
      BY <1>1, <1>3, <3>1, <3>2
  <2>3. CASE world.kind = "list"
    <3>1. Compose(Absent, s) = ComposeList(Absent, s)
      BY <2>3 DEF Compose
    <3>2. s.update = Absent => ComposeList(Absent, s).file = IF s.full # Absent THEN s.full ELSE Absent
      BY <1>0, <1>1, <3>1, ListComposed
    <3> QED
      BY <1>1, <3>1, <3>2
  <2>4. CASE world.kind \notin {"entry", "variable", "list"}
    <3>1. Compose(Absent, s) = ComposeWhole(Absent, s)
      BY <2>4 DEF Compose
    <3> QED
      BY <1>1, <3>1, WholeComposed
  <2> QED
    BY <2>1, <2>2, <2>3, <2>4
<1> QED
  BY <1>2, <1>4 DEF s

\* A load that fails says nothing of a chain.
LEMMA FailureHolds ==
    ASSUME GraphsAssumption, ChainInv, world # Idle, UNCHANGED <<world, order, results>>, Fail
    PROVE  ChainInv'
<1>1. stack' = << >> /\ loaded'.is # "ok" /\ Len(stack') = 0
  BY DEF Fail, Failed
<1>2. Chain' = Chain /\ \A d, layer : ReturnedFrom(d, layer)' <=> ReturnedFrom(d, layer)
  BY SameWorld
<1>3. ASSUME ChainHolds PROVE ChainHolds'
  <2>1. Len(stack') <= MaxDepth /\ 1..Len(stack') = {}
    <3>1. MaxDepth \in Nat
      BY DEF GraphsAssumption
    <3> QED
      BY <1>1, <3>1
  <2> QED
    BY <1>1, <1>2, <1>3, <2>1 DEF ChainHolds
<1> QED
  BY <1>2, <1>3 DEF ChainInv

\* The base of a chain lands on nothing, and reads as it was returned.
LEMMA BaseLands ==
    ASSUME WorldsAssumption, GraphsAssumption, world \in Worlds, order = world.extends,
           NEW d \in Nat \ {0}, d <= MaxDepth, \A j \in 0..d - 1 : order[Spine[j]] # << >>,
           NEW layer, ReturnedFrom(d, layer), Compose(Absent, layer.ship).ok
    PROVE  AsRead(d, Projection(Nothing, Compose(Absent, layer.ship).file, layer, Spine[d]))
<1> DEFINE file == Compose(Absent, layer.ship).file
           projection == Projection(Nothing, file, layer, Spine[d])
           L == LevelsFrom(d + 1)
<1>1. Nothing.ship.full = Absent /\ Nothing.from = ""
  BY DEF Nothing, Silent, Landed, Ships
<1>2. /\ projection.ship = Landed(file) /\ projection.ship.full = file
      /\ projection.from = IF Attributes(Absent, layer.ship) THEN Attribution(layer, Spine[d]) ELSE ""
  BY <1>1, Projected DEF Projection
<1>3. /\ LevelsFrom(d) = {d} \cup L /\ L \subseteq 0..MaxDepth /\ (\A i \in L : d < i) /\ MaxDepth \in Nat
      /\ order[Spine[d]] = << >> => L = {}
  BY LevelsBelow DEF GraphsAssumption
<1> SUFFICES IsFile(file) /\ ReadsFrom(LevelsFrom(d), file) /\ projection.from = ResolvedBy(LevelsFrom(d))
  <2> HIDE DEF projection, file
  <2> QED
    BY <1>2 DEF AsRead, projection, file
<1>4. CASE order[Spine[d]] = << >>
  <2>1. layer = Own(Spine[d])
    BY <1>4 DEF ReturnedFrom
  <2>2. layer.ship = Written(d) /\ layer.from = ""
    BY <2>1 DEF Own, Written
  <2>3. L = {}
    BY <1>3, <1>4
  <2>4. Whole(L) = {} /\ Declaring(L) = {}
    BY <2>3 DEF Whole, Declaring
  <2>5. ReadsFrom(L, Absent) /\ ResolvedBy(L) = ""
    BY <2>3, <2>4 DEF ReadsFrom, ResolvedBy
  <2> HIDE DEF L
  <2>6. ReadsFrom(LevelsFrom(d + 1), Absent) /\ Compose(Absent, Written(d)).ok /\ IsFile(Absent)
    BY <2>2, <2>5, AbsentIsFile DEF L
  <2>7. /\ IsFile(file) /\ ReadsFrom(LevelsFrom(d), file)
        /\ ResolvedBy(LevelsFrom(d)) = IF Attributes(Absent, Written(d)) THEN Spine[d] ELSE ResolvedBy(L)
    BY <2>2, <2>6, LevelLands DEF L
  <2> QED
    BY <1>2, <2>2, <2>5, <2>7 DEF Attribution
<1>5. CASE order[Spine[d]] # << >>
  <2>1. AsRead(d, layer)
    BY <1>5 DEF ReturnedFrom
  <2> DEFINE full == layer.ship.full
  <2>2. layer.ship = Landed(full) /\ IsFile(full) /\ ReadsFrom(LevelsFrom(d), full)
        /\ layer.from = ResolvedBy(LevelsFrom(d))
    BY <2>1 DEF AsRead
  <2> HIDE DEF full
  <2>3. file = full /\ (Attributes(Absent, layer.ship) <=> world.kind = "variable" /\ full # Absent)
    BY <2>2, LandsOnNothing
  <2>4. \A i \in LevelsFrom(d) : i \in Nat
    BY <1>3
  <2>5. \A i \in LevelsFrom(d) : IsShip(Written(i)) /\ OfKind(world, Written(i)) /\ Spine[i] \in DOMAIN order
    BY <2>4, OnSpine
  <2>6. world.kind = "variable" => (full = Absent <=> Declaring(LevelsFrom(d)) = {})
    <3>1. LevelsFrom(d) \subseteq Nat
      BY <2>4
    <3> QED
      BY <2>2, <2>5, <3>1, DeclaredIsThere
  <2>7. "" \notin DOMAIN order
    BY DEF GraphsAssumption
  <2>8. ASSUME world.kind = "variable", Declaring(LevelsFrom(d)) # {} PROVE ResolvedBy(LevelsFrom(d)) # ""
    <3>1. /\ Declaring(LevelsFrom(d)) \subseteq LevelsFrom(d) /\ Resolving(LevelsFrom(d)) \subseteq LevelsFrom(d)
      BY DEF Declaring, Resolving
    <3>2. \E i \in LevelsFrom(d) : ResolvedBy(LevelsFrom(d)) = Spine[i]
      <4>1. CASE Resolving(LevelsFrom(d)) # {}
        <5>1. Resolving(LevelsFrom(d)) \subseteq Nat
          BY <2>4, <3>1
        <5>2. Topmost(Resolving(LevelsFrom(d))) \in LevelsFrom(d)
          BY <3>1, <4>1, <5>1, TopmostOf
        <5> QED
          BY <2>8, <4>1, <5>2 DEF ResolvedBy
      <4>2. CASE Resolving(LevelsFrom(d)) = {}
        <5>1. Declaring(LevelsFrom(d)) \subseteq 0..MaxDepth
          <6>1. LevelsFrom(d) \subseteq 0..MaxDepth
            BY <1>3
          <6> QED
            BY <3>1, <6>1
        <5>2. PICK i \in Declaring(LevelsFrom(d)) : \A j \in Declaring(LevelsFrom(d)) : j <= i
          BY <1>3, <2>8, <5>1, Greatest
        <5>3. Lowest(Declaring(LevelsFrom(d))) = i
          <6>1. Declaring(LevelsFrom(d)) \subseteq Nat
            BY <2>4, <3>1
          <6> QED
            BY <5>2, <6>1, LowestIs
        <5> QED
          BY <2>8, <3>1, <4>2, <5>3 DEF ResolvedBy
      <4> QED
        BY <4>1, <4>2
    <3> QED
      BY <2>5, <2>7, <3>2
  <2>9. projection.from = ResolvedBy(LevelsFrom(d))
    <3>1. CASE Attributes(Absent, layer.ship)
      BY <1>2, <2>2, <2>3, <2>6, <2>8, <3>1 DEF Attribution
    <3>2. CASE ~Attributes(Absent, layer.ship)
      BY <1>2, <2>3, <2>6, <3>2 DEF ResolvedBy
    <3> QED
      BY <3>1, <3>2
  <2> QED
    BY <2>2, <2>3, <2>9
<1> QED
  BY <1>4, <1>5

\* The package on top of a chain, and the level it is at.
LEMMA TopOfChain ==
    ASSUME WorldsAssumption, GraphsAssumption, LayersInv, ChainInv, ChainHolds, stack # << >>
    PROVE  /\ world \in Worlds /\ world # Idle /\ order = world.extends
           /\ Len(stack) \in Nat \ {0} /\ Len(stack) <= MaxDepth
           /\ \A j \in 0..Len(stack) - 1 : order[Spine[j]] # << >>
           /\ Top = stack[Len(stack)] /\ Climbs(Len(stack)) /\ FrameHolds(Top)
<1>1. world # Idle /\ FrameHolds(Top) /\ Len(stack) \in Nat \ {0}
  BY OnTop
<1>2. \A i \in 1..Len(stack) : Climbs(i)
  BY DEF ChainHolds
<1>3. ASSUME NEW j \in 0..Len(stack) - 1 PROVE order[Spine[j]] # << >>
  <2>1. j + 1 \in 1..Len(stack) /\ (j + 1) - 1 = j
    BY <1>1
  <2> QED
    BY <1>2, <2>1 DEF Climbs
<1> QED
  BY <1>1, <1>2, <1>3 DEF ChainHolds, LayersInv, Top

\* A base that lands leaves the frame on top with what was returned.
LEMMA LandBaseClimbs ==
    ASSUME WorldsAssumption, GraphsAssumption, LayersInv, ChainInv, LandBase
    PROVE  ChainInv'
<1> DEFINE layer == loaded.layer
           s == layer.ship
           target == Top.target
           label == Head(Top.bases)
           taken == s # Silent /\ Taken(Top.owner.ship, label)
           governed == layer.contract.there /\ Taken(Top.owner.contract, label)
           composed == Compose(target.ship.full, s)
           projection == IF taken THEN Projection(target, target.ship.full, [layer EXCEPT !.ship = Silent], label)
                         ELSE Projection(target, composed.file, layer, label)
           landed == [Top EXCEPT
                !.bases = Tail(@),
                !.target = projection,
                !.owner.ship = IF s = Silent \/ taken THEN @ ELSE label,
                !.owner.contract = IF ~layer.contract.there \/ governed THEN @ ELSE label]
           d == Len(stack)
<1>1. /\ loaded.is = "ok" /\ stack # << >> /\ UNCHANGED <<world, order, results>>
      /\ \/ /\ IF taken THEN ~Marks(s) /\ s.full = target.ship.full ELSE composed.ok
            /\ stack' = [stack EXCEPT ![Len(stack)] = landed] /\ loaded' = Running
         \/ Fail
  BY DEF LandBase, Keep
<1>2. world # Idle /\ FrameHolds(Top)
  BY <1>1, OnTop
<1>3. CASE Fail
  BY <1>1, <1>2, <1>3, FailureHolds
<1>4. CASE /\ IF taken THEN ~Marks(s) /\ s.full = target.ship.full ELSE composed.ok
           /\ stack' = [stack EXCEPT ![Len(stack)] = landed] /\ loaded' = Running
  <2>1. ASSUME Chain, ChainHolds PROVE ChainHolds'
    <3>1. /\ world \in Worlds /\ order = world.extends /\ d \in Nat \ {0} /\ d <= MaxDepth
          /\ \A j \in 0..d - 1 : order[Spine[j]] # << >>
          /\ Top = stack[d] /\ Climbs(d)
      BY <1>1, <2>1, TopOfChain
    <3>2. loaded # Running /\ ReturnedFrom(d, layer)
      BY <1>1, <2>1 DEF Running, ChainHolds
    <3>3. Unbased(Top) /\ Top.package = Spine[d - 1] /\ order[Spine[d - 1]] # << >>
      BY <3>1, <3>2 DEF Climbs, Based
    <3>4. Spine[d - 1] \in DOMAIN order /\ order[Spine[d - 1]] \in Seq(DOMAIN order)
      <4>1. d - 1 \in Nat
        BY ONLY <3>1
      <4>2. \A i \in Nat : Spine[i] \in DOMAIN order
        BY <3>1, OnSpine DEF ChainInv
      <4>3. Spine[d - 1] \in DOMAIN order
        BY ONLY <4>1, <4>2
      <4> QED
        BY <1>2, <3>1, <4>3 DEF ChainInv
    <3>5. Top.bases = order[Spine[d - 1]] /\ target = Nothing /\ ~taken
      BY <3>3 DEF Unbased, Taken
    <3>6. label = Spine[d]
      BY <3>1, <3>3, <3>5, SpineIs DEF Down
    <3>7. Tail(Top.bases) = << >>
      <4>1. Len(order[Spine[d - 1]]) <= 1
        BY <2>1, <3>4 DEF Chain
      <4> QED
        BY <3>4, <3>5, <4>1
    <3>8. composed = Compose(Absent, s) /\ composed.ok
      <4>1. Nothing.ship.full = Absent
        BY DEF Nothing, Silent, Landed, Ships
      <4>2. target.ship.full = Absent
        BY <3>5, <4>1
      <4> HIDE DEF target, taken
      <4> QED
        BY <1>4, <3>5, <4>2
    <3>9. projection = Projection(Nothing, Compose(Absent, s).file, layer, Spine[d])
      BY <3>5, <3>6, <3>8
    <3>10. AsRead(d, projection)
      BY <3>1, <3>2, <3>8, <3>9, BaseLands
    <3> HIDE DEF projection, composed, target
    <3>11. landed.package = Top.package /\ landed.target = projection /\ landed.bases = Tail(Top.bases)
      BY <1>2 DEF FrameHolds
    <3> HIDE DEF landed
    <3>12. PICK S : stack \in Seq(S)
      BY DEF LayersInv
    <3>13. /\ Len(stack') = d /\ stack'[d] = landed
           /\ \A i \in 1..d : i # d => stack'[i] = stack[i]
      BY <1>4, <3>1, <3>12
    <3>14. ASSUME NEW i \in 1..d PROVE Climbs(i)'
      <4>1. Spine' = Spine /\ order' = order /\ \A frame : Unbased(frame)' <=> Unbased(frame)
        BY <1>1, SameWorld
      <4>2. CASE i = d
        <5>1. PICK there : there = projection
          OBVIOUS
        <5>2. AsRead(i, there)
          BY <3>10, <4>2, <5>1
        <5>3. AsRead(i, there)'
          BY <1>1, <5>2, SameWorld
        <5>4. stack'[i].target = there /\ stack'[i].bases = << >> /\ stack'[i].package = Spine[i - 1] /\ i = Len(stack')
          BY <3>3, <3>7, <3>11, <3>13, <4>2, <5>1
        <5>5. Based(i)'
          BY <1>4, <5>3, <5>4 DEF Based
        <5> QED
          BY <3>3, <4>1, <4>2, <5>4, <5>5 DEF Climbs
      <4>3. CASE i # d
        <5>1. Climbs(i)
          BY <2>1 DEF ChainHolds
        <5> QED
          BY <3>13, <4>1, <4>3, <5>1 DEF Climbs
      <4> QED
        BY <4>2, <4>3
    <3>15. loaded'.is # "ok"
      BY <1>4 DEF Running
    <3>16. \A e, l : ReturnedFrom(e, l)' <=> ReturnedFrom(e, l)
      BY <1>1, SameWorld
    <3> QED
      BY <1>1, <2>1, <3>13, <3>14, <3>15, <3>16 DEF ChainHolds
  <2>2. Chain' = Chain
    BY <1>1, SameWorld
  <2> QED
    BY <1>1, <2>1, <2>2 DEF ChainInv
<1> QED
  BY <1>1, <1>3, <1>4

\* The package itself lands on it, and returns the levels from its own on.
LEMMA LandOverlayClimbs ==
    ASSUME WorldsAssumption, GraphsAssumption, LayersInv, ChainInv, LandOverlay
    PROVE  ChainInv'
<1> DEFINE layer == Own(Top.package)
           composed == Compose(Top.target.ship.full, layer.ship)
           projection == Projection(Top.target, composed.file, layer, Top.package)
           d == Len(stack)
           e == Len(stack) - 1
<1>1. /\ stack # << >> /\ UNCHANGED <<world, order, results>> /\ Top.bases = << >>
      /\ \/ /\ composed.ok /\ loaded' = Returned(projection)
            /\ stack' = SubSeq(stack, 1, Len(stack) - 1)
         \/ Fail
  BY DEF LandOverlay, Keep
<1>2. world # Idle /\ FrameHolds(Top)
  BY <1>1, OnTop
<1>3. CASE Fail
  BY <1>1, <1>2, <1>3, FailureHolds
<1>4. CASE /\ composed.ok /\ loaded' = Returned(projection)
           /\ stack' = SubSeq(stack, 1, Len(stack) - 1)
  <2>1. ASSUME Chain, ChainHolds PROVE ChainHolds'
    <3>1. /\ world \in Worlds /\ order = world.extends /\ d \in Nat \ {0} /\ d <= MaxDepth
          /\ \A j \in 0..d - 1 : order[Spine[j]] # << >>
          /\ Top = stack[d] /\ Climbs(d)
      BY <1>1, <2>1, TopOfChain
    <3>2. Top.package = Spine[e] /\ order[Spine[e]] # << >> /\ Based(d)
      BY <1>1, <3>1 DEF Climbs, Unbased
    <3>3. AsRead(d, Top.target)
      BY <3>1, <3>2 DEF Based
    <3>4. e \in Nat /\ e + 1 = d /\ e <= MaxDepth /\ \A j \in 0..e - 1 : order[Spine[j]] # << >>
      <4>1. MaxDepth \in Nat
        BY DEF GraphsAssumption
      <4> QED
        BY <3>1, <4>1
    <3>5. layer.ship = Written(e) /\ layer.from = ""
      BY <3>2 DEF Own, Written
    <3> DEFINE below == Top.target.ship.full
    <3>6. IsFile(below) /\ ReadsFrom(LevelsFrom(e + 1), below) /\ Top.target.from = ResolvedBy(LevelsFrom(e + 1))
      BY <3>3, <3>4 DEF AsRead
    <3>7. composed = Compose(below, Written(e)) /\ composed.ok
      BY <1>4, <3>5
    <3> HIDE DEF e, below
    <3>8. /\ IsFile(composed.file) /\ ReadsFrom(LevelsFrom(e), composed.file)
          /\ ResolvedBy(LevelsFrom(e)) = IF Attributes(below, Written(e)) THEN Spine[e] ELSE ResolvedBy(LevelsFrom(e + 1))
      BY <3>1, <3>4, <3>6, <3>7, LevelLands
    <3>9. /\ projection.ship = Landed(composed.file) /\ projection.ship.full = composed.file
          /\ projection.from = ResolvedBy(LevelsFrom(e))
      <4>1. projection.ship = Landed(composed.file) /\ projection.ship.full = composed.file
        BY Projected
      <4>2. projection.from = IF Attributes(below, layer.ship) THEN Attribution(layer, Top.package) ELSE Top.target.from
        BY DEF Projection, below
      <4> QED
        BY <3>2, <3>5, <3>6, <3>8, <4>1, <4>2 DEF Attribution, e
    <3> HIDE DEF projection, composed
    <3>10. ReturnedFrom(e, projection)
      <4>1. AsRead(e, projection)
        BY <3>8, <3>9 DEF AsRead
      <4> QED
        BY <3>2, <4>1 DEF ReturnedFrom, e
    <3>11. PICK S : stack \in Seq(S)
      BY DEF LayersInv
    <3>12. Len(stack') = e /\ \A i \in 1..e : stack'[i] = stack[i]
      <4>1. stack' = SubSeq(stack, 1, e)
        BY <1>4 DEF e
      <4>2. Len(stack) = e + 1
        BY <3>4
      <4> QED
        BY ONLY <3>4, <3>11, <4>1, <4>2
    <3>13. ASSUME NEW i \in 1..e PROVE Climbs(i)'
      <4>1. Spine' = Spine /\ order' = order /\ \A frame : Unbased(frame)' <=> Unbased(frame)
        BY <1>1, SameWorld
      <4>2. i \in 1..d /\ i # d
        BY <3>4
      <4>3. Climbs(i)
        BY <2>1, <4>2 DEF ChainHolds
      <4> QED
        BY <3>12, <4>1, <4>2, <4>3 DEF Climbs
    <3>14. loaded'.layer = projection
      BY <1>4 DEF Returned
    <3>15. \A x, l : ReturnedFrom(x, l)' <=> ReturnedFrom(x, l)
      BY <1>1, SameWorld
    <3> QED
      BY <1>1, <2>1, <3>4, <3>10, <3>12, <3>13, <3>14, <3>15 DEF ChainHolds
  <2>2. Chain' = Chain
    BY <1>1, SameWorld
  <2> QED
    BY <1>1, <2>1, <2>2 DEF ChainInv
<1> QED
  BY <1>1, <1>3, <1>4

\* The next package that is called is the next of the spine, and its frames wait.
LEMMA NextOfSpine ==
    ASSUME WorldsAssumption, GraphsAssumption, LayersInv, ChainInv, ChainHolds, world # Idle, NEW p, Called(p)
    PROVE  p = Spine[Len(stack)] /\ \A i \in 1..Len(stack) : Climbs(i) /\ Unbased(stack[i])
<1>1. \A i \in 1..Len(stack) : Climbs(i)
  BY DEF ChainHolds
<1>2. CASE stack = << >>
  BY <1>2, SpineIs DEF Called
<1>3. CASE stack # << >>
  <2>1. p = Head(Top.bases) /\ Top.bases # << >>
    BY <1>3 DEF Called
  <2>2. /\ order = world.extends /\ Len(stack) \in Nat \ {0} /\ Top = stack[Len(stack)]
        /\ Climbs(Len(stack))
    BY <1>3, TopOfChain
  <2>3. ASSUME NEW i \in 1..Len(stack) PROVE Unbased(stack[i])
    BY <1>1, <2>1, <2>2 DEF Climbs, Based
  <2>4. Top.bases = order[Spine[Len(stack) - 1]] /\ order[Spine[Len(stack) - 1]] # << >>
    BY <2>2, <2>3 DEF Unbased, Climbs
  <2>5. Spine[Len(stack)] = Head(Top.bases)
    BY <2>2, <2>4, SpineIs DEF Down
  <2> QED
    BY <1>1, <2>1, <2>3, <2>5
<1> QED
  BY <1>2, <1>3

\* Going down a chain, and its last base.
LEMMA WalkClimbs ==
    ASSUME WorldsAssumption, GraphsAssumption, LayersInv, ChainInv, world # Idle, NEW p \in DOMAIN order,
           RefuseGraph(p) \/ LoadLeaf(p) \/ Descend(p)
    PROVE  ChainInv'
<1>1. UNCHANGED <<world, order, results>>
  BY DEF RefuseGraph, LoadLeaf, Descend, Keep
<1>2. Spine' = Spine /\ Chain' = Chain /\ order' = order
      /\ (\A frame : Unbased(frame)' <=> Unbased(frame))
      /\ \A d, layer : ReturnedFrom(d, layer)' <=> ReturnedFrom(d, layer)
  BY <1>1, SameWorld
<1>3. CASE RefuseGraph(p)
  BY <1>1, <1>3, FailureHolds DEF RefuseGraph
<1>4. CASE LoadLeaf(p)
  <2>1. ASSUME ChainHolds PROVE ChainHolds'
    <3>1. p = Spine[Len(stack)] /\ \A i \in 1..Len(stack) : Climbs(i) /\ Unbased(stack[i])
      BY <1>4, <2>1, NextOfSpine DEF LoadLeaf
    <3>2. stack' = stack /\ loaded' = Returned(Own(p)) /\ order[p] = << >>
      BY <1>4 DEF LoadLeaf
    <3>3. loaded'.layer = Own(p)
      BY <3>2 DEF Returned
    <3>4. ReturnedFrom(Len(stack), Own(p))
      BY <3>1, <3>2 DEF ReturnedFrom
    <3>5. ASSUME NEW i \in 1..Len(stack) PROVE Climbs(i)'
      BY <1>2, <3>1, <3>2 DEF Climbs
    <3>6. PICK n, own : n = Len(stack) /\ own = Own(p)
      OBVIOUS
    <3>7. ReturnedFrom(n, own)'
      BY <1>2, <3>4, <3>6
    <3>8. ReturnedFrom(Len(stack), loaded.layer)'
      BY <3>2, <3>3, <3>6, <3>7
    <3> QED
      BY <1>1, <1>2, <2>1, <3>2, <3>5, <3>8 DEF ChainHolds
  <2> QED
    BY <1>1, <1>2, <2>1 DEF ChainInv
<1>5. CASE Descend(p)
  <2>1. ASSUME ChainHolds PROVE ChainHolds'
    <3>1. p = Spine[Len(stack)] /\ \A i \in 1..Len(stack) : Climbs(i) /\ Unbased(stack[i])
      BY <1>5, <2>1, NextOfSpine DEF Descend
    <3>2. stack' = Append(stack, Frame(p)) /\ loaded' = loaded /\ order[p] # << >> /\ loaded = Running
          /\ ~(Len(stack) >= MaxDepth)
      BY <1>5 DEF Descend, Called, Deep
    <3>3. /\ Frame(p).package = p /\ Unbased(Frame(p))
      BY DEF Frame, Unbased
    <3> DEFINE frame == Frame(p)
    <3>4. stack' = Append(stack, frame)
      BY <3>2
    <3>5. PICK S : stack \in Seq(S)
      BY DEF LayersInv
    <3> HIDE DEF frame
    <3>6. /\ Len(stack') = Len(stack) + 1 /\ Len(stack) \in Nat
          /\ stack'[Len(stack) + 1] = frame
          /\ \A i \in 1..Len(stack) : stack'[i] = stack[i]
      BY <3>4, <3>5
    <3>7. ASSUME NEW i \in 1..Len(stack') PROVE Climbs(i)'
      <4>1. CASE i \in 1..Len(stack)
        BY <1>2, <3>1, <3>6, <4>1 DEF Climbs
      <4>2. CASE i = Len(stack) + 1
        <5>1. i - 1 = Len(stack)
          BY <3>6, <4>2
        <5>2. stack'[i] = frame /\ frame.package = Spine[i - 1] /\ order[Spine[i - 1]] # << >> /\ Unbased(frame)
          BY <3>1, <3>2, <3>3, <3>6, <4>2, <5>1 DEF frame
        <5>3. PICK new : new = frame
          OBVIOUS
        <5>4. Unbased(new)'
          BY <1>2, <5>2, <5>3
        <5> QED
          BY <1>2, <5>2, <5>3, <5>4 DEF Climbs
      <4> QED
        BY <3>6, <4>1, <4>2
    <3>8. Len(stack') <= MaxDepth /\ loaded'.is # "ok"
      <4>1. MaxDepth \in Nat
        BY DEF GraphsAssumption
      <4> QED
        BY <3>2, <3>6, <4>1 DEF Running
    <3> QED
      BY <1>1, <1>2, <2>1, <3>7, <3>8 DEF ChainHolds
  <2> QED
    BY <1>1, <1>2, <2>1 DEF ChainInv
<1> QED
  BY <1>3, <1>4, <1>5

\* The bases the other way round are as many, and one base is the same.
LEMMA Flipped ==
    ASSUME NEW S, NEW s \in Seq(S)
    PROVE  Flip(s) \in Seq(S) /\ Len(Flip(s)) = Len(s) /\ (Len(s) <= 1 => Flip(s) = s)
<1> DEFINE n == Len(s)
<1>1. n \in Nat /\ DOMAIN s = 1..n /\ \A i \in 1..n : s[i] \in S
  OBVIOUS
<1>2. Flip(s) = [i \in 1..n |-> s[n + 1 - i]]
  BY <1>1 DEF Flip
<1>3. \A i \in 1..n : n + 1 - i \in 1..n
  BY <1>1
<1> HIDE DEF n
<1>4. [i \in 1..n |-> s[n + 1 - i]] \in Seq(S) /\ Len([i \in 1..n |-> s[n + 1 - i]]) = n
  BY <1>1, <1>3
<1>5. ASSUME n <= 1 PROVE Flip(s) = s
  <2>1. \A i \in 1..n : n + 1 - i = i
    BY <1>1, <1>5
  <2>2. [i \in 1..n |-> s[n + 1 - i]] = [i \in 1..n |-> s[i]]
    BY <2>1
  <2>3. s = [i \in 1..n |-> s[i]]
    BY <1>1
  <2> QED
    BY <1>2, <2>2, <2>3
<1> QED
  BY <1>2, <1>4, <1>5 DEF n

\* The load of a chain ends, and its author lists the bases the same way again.
LEMMA FinishClimbs ==
    ASSUME WorldsAssumption, GraphsAssumption, LayersInv, ChainInv, Finish
    PROVE  ChainInv'
<1>1. /\ world # Idle /\ stack = << >> /\ loaded # Running /\ UNCHANGED <<world, stack>>
      /\ results' = Append(results, loaded)
  BY DEF Finish
<1>2. PICK S : results \in Seq(S)
  BY DEF ChainInv
<1>3. /\ results' \in Seq(S \cup {loaded}) /\ results' # << >>
      /\ results'[1] = IF results = << >> THEN loaded ELSE results[1]
  BY <1>1, <1>2
<1>4. order \in [DOMAIN order -> Seq(DOMAIN order)]
  BY <1>1 DEF ChainInv
<1>5. CASE results # << >>
  <2>1. UNCHANGED <<world, order, stack, loaded>>
    BY <1>1, <1>5 DEF Finish
  <2>2. Chain' = Chain /\ (\A i : Climbs(i)' <=> Climbs(i)) /\ \A d, layer : ReturnedFrom(d, layer)' <=> ReturnedFrom(d, layer)
    <3>1. \A i : Based(i)' <=> Based(i)
      BY <2>1, SameWorld DEF Based
    <3> QED
      BY <2>1, <3>1, SameWorld DEF Climbs
  <2>3. ChainHolds => ChainHolds'
    BY <1>3, <1>5, <2>1, <2>2 DEF ChainHolds
  <2> QED
    BY <1>1, <1>3, <1>4, <2>1, <2>2, <2>3 DEF ChainInv
<1>6. CASE results = << >>
  <2>1. order' = [p \in DOMAIN order |-> Flip(order[p])] /\ loaded' = Running
    BY <1>6 DEF Finish
  <2>2. \A p \in DOMAIN order : /\ Flip(order[p]) \in Seq(DOMAIN order) /\ Len(Flip(order[p])) = Len(order[p])
                                /\ Len(order[p]) <= 1 => Flip(order[p]) = order[p]
    BY <1>4, Flipped
  <2>3. order' \in [DOMAIN order' -> Seq(DOMAIN order')]
    BY <2>1, <2>2
  <2>4. ASSUME Chain' PROVE ChainHolds'
    <3>1. Chain
      BY <2>1, <2>2, <2>4 DEF Chain
    <3>2. ChainHolds
      BY <1>1, <3>1 DEF ChainInv
    <3>3. order' = order
      <4>1. \A p \in DOMAIN order : Flip(order[p]) = order[p]
        BY <2>2, <3>1 DEF Chain
      <4> QED
        BY <1>4, <2>1, <4>1
    <3>4. \A d, layer : ReturnedFrom(d, layer)' <=> ReturnedFrom(d, layer)
      BY <1>1, <3>3, SameWorld
    <3>5. loaded.is = "ok" => ReturnedFrom(0, loaded.layer)
      BY <1>1, <3>2 DEF ChainHolds
    <3>6. Len(stack') = 0 /\ 1..Len(stack') = {} /\ loaded'.is # "ok"
      BY <1>1, <2>1 DEF Running
    <3>7. results'[1] = loaded
      BY <1>3, <1>6
    <3>8. PICK first : first = loaded
      OBVIOUS
    <3>9. first.is = "ok" => ReturnedFrom(0, first.layer)'
      BY <3>4, <3>5, <3>8
    <3>10. (results # << >> /\ results[1].is = "ok" => ReturnedFrom(0, results[1].layer))'
      BY <3>7, <3>8, <3>9
    <3> QED
      BY <1>1, <3>2, <3>3, <3>6, <3>10 DEF ChainHolds
  <2> QED
    BY <1>1, <1>3, <2>3, <2>4 DEF ChainInv
<1> QED
  BY <1>5, <1>6

\* It begins.
LEMMA ChooseClimbs ==
    ASSUME WorldsAssumption, GraphsAssumption, LayersInv, ChainInv, world = Idle, NEW w \in Worlds, Choose(w)
    PROVE  ChainInv'
<1>1. world' = w /\ order' = w.extends /\ loaded' = Running /\ stack' = << >> /\ results' = << >>
  BY DEF Choose, LayersInv, ChainInv
<1>2. w # Idle /\ w.extends \in [DOMAIN w.extends -> Seq(DOMAIN w.extends)] /\ MaxDepth \in Nat
  BY DEF WorldsAssumption, GraphsAssumption
<1>3. Len(stack') = 0 /\ 1..Len(stack') = {} /\ loaded'.is # "ok" /\ results' \in Seq({})
  BY <1>1 DEF Running
<1>4. ChainHolds'
  BY <1>1, <1>2, <1>3 DEF ChainHolds
<1> QED
  BY <1>1, <1>2, <1>3, <1>4 DEF ChainInv

\* So it is with every step.
THEOREM ChainInvariance == ASSUME WorldsAssumption, GraphsAssumption PROVE LayersSpec => [](LayersInv /\ ChainInv)
<1>1. LayersInit => ChainInv
  <2>1. << >> \in Seq({})
    OBVIOUS
  <2> QED
    BY <2>1 DEF LayersInit, ChainInv
<1>2. LayersInv /\ ChainInv /\ [LayersNext]_layersVars => ChainInv'
  <2> SUFFICES ASSUME LayersInv, ChainInv, [LayersNext]_layersVars PROVE ChainInv'
    OBVIOUS
  <2>1. CASE UNCHANGED layersVars
    <3>1. UNCHANGED <<world, order, stack, loaded, results>>
      BY <2>1 DEF layersVars
    <3>2. Chain' = Chain /\ (\A i : Climbs(i)' <=> Climbs(i)) /\ \A d, layer : ReturnedFrom(d, layer)' <=> ReturnedFrom(d, layer)
      <4>1. \A i : Based(i)' <=> Based(i)
        BY <3>1, SameWorld DEF Based
      <4> QED
        BY <3>1, <4>1, SameWorld DEF Climbs
    <3>3. ChainHolds => ChainHolds'
      BY <3>1, <3>2 DEF ChainHolds
    <3> QED
      BY <3>1, <3>2, <3>3 DEF ChainInv
  <2>2. CASE LayersNext
    BY <2>2, LandBaseClimbs, LandOverlayClimbs, WalkClimbs, FinishClimbs, ChooseClimbs DEF LayersNext
  <2> QED
    BY <2>1, <2>2
<1> QED
  BY <1>1, <1>2, LayersInvariance, PTL DEF LayersSpec

\* In a chain, the topmost layer that says something wins, field by field, and a
\* trace names the layer that resolves (source/layer/compose.rs, provenance.rs).
THEOREM ChainsReadFromTheTop == ASSUME WorldsAssumption, GraphsAssumption PROVE LayersSpec => []TopmostLayerWins
<1>1. LayersInv /\ ChainInv => TopmostLayerWins
  <2> SUFFICES ASSUME LayersInv, ChainInv, results # << >>, Chain, Levels # {0}, results[1].is = "ok"
               PROVE  LET layer == results[1].layer
                          resolving == {i \in Levels : Says(i, "resolve")}
                          declaring == {i \in Levels : Written(i).full # Absent}
                      IN  /\ ReadsAs(layer.ship.full)
                          /\ layer.from = IF world.kind # "variable" \/ declaring = {} THEN ""
                                          ELSE IF resolving # {} THEN Spine[Topmost(resolving)]
                                          ELSE Spine[Lowest(declaring)]
    BY DEF TopmostLayerWins
  <2> DEFINE layer == results[1].layer
             file == layer.ship.full
  <2>1. ReturnedFrom(0, layer)
    BY DEF ChainInv, ChainHolds
  <2>2. MaxDepth \in Nat
    BY DEF GraphsAssumption
  <2>3. order[Spine[0]] # << >>
    <3>1. 0 \in Levels
      BY <2>2 DEF Levels
    <3>2. PICK i \in Levels : i # 0
      BY <3>1
    <3>3. 0 \in 0..i - 1
      BY <2>2, <3>2 DEF Levels
    <3> QED
      BY <3>2, <3>3 DEF Levels
  <2>4. AsRead(0, layer) /\ LevelsFrom(0) = Levels
    BY <2>1, <2>2, <2>3 DEF ReturnedFrom, LevelsFrom, Levels
  <2>5. ReadsFrom(Levels, file) /\ layer.from = ResolvedBy(Levels)
    BY <2>4 DEF AsRead
  <2>6. ReadsAs(file)
    <3>1. CASE Whole(Levels) = {}
      BY <2>5, <3>1 DEF ReadsFrom, ReadsAs, Whole, HasWhole
    <3>2. CASE Whole(Levels) # {} /\ world.kind = "list"
      <4>1. MembersAsSaid(Levels, file)
        BY <2>5, <3>2 DEF ReadsFrom
      <4> QED
        BY <3>2, <4>1 DEF ReadsAs, MembersAsSaid, Whole, HasWhole, Floor, FromFloor, Moving, Concerns
    <3>3. CASE Whole(Levels) # {} /\ world.kind # "list"
      <4>1. FieldsAsSaid(Levels, file)
        BY <2>5, <3>3 DEF ReadsFrom
      <4> QED
        BY <3>3, <4>1 DEF ReadsAs, FieldsAsSaid, Whole, HasWhole, Floor, FromFloor, Saying
    <3> QED
      BY <3>1, <3>2, <3>3
  <2> QED
    BY <2>5, <2>6 DEF ResolvedBy, Resolving, Declaring
<1> QED
  BY <1>1, ChainInvariance, PTL

-----------------------------------------------------------------------------
(* Batches of edits.                                                        *)

IsMap(f) == f = [x \in DOMAIN f |-> f[x]]

\* A tree has one document at a path, and no stray has the key of an entity.
EditsAssumption ==
    /\ \A t \in Trees : IsMap(t)
    /\ Keys \cap Strays = {}

\* What is at a path of a snapshot with edits.
Has(b, e, p) == Content([base |-> b, edits |-> e], p)

\* What an operation does to files: of each, it leaves one document or none.
IsChange(change) ==
    /\ IsMap(change)
    /\ \A p \in DOMAIN change : \A c, d \in change[p] : c = d

\* A record is about the file, or about the entity whose stray it is.
Names(recs, p) ==
    \/ \E r \in recs : r.address = p
    \/ p[Len(p)] \in Strays /\ [op |-> "delete", address |-> Front(p)] \in recs

\* Nothing is planned, and nothing written.
Unplanned ==
    /\ tree = base
    /\ plan = [writes |-> << >>, deletes |-> {}]

\* An operation reads the same files in the batch as in the directory.
SameFiles ==
    \A p \in DOMAIN base \cup DOMAIN edits \cup DOMAIN stepwise : Has(base, edits, p) = Has(stepwise, << >>, p)

\* The plan, and a directory between the snapshot and it.
Planned ==
    /\ stepwise = CarriedOut(base, plan)
    /\ IsMap(plan.writes)
    /\ DOMAIN plan.writes \cap plan.deletes = {}
    /\ \A p \in DOMAIN tree :
          \/ p \in DOMAIN base /\ tree[p] = base[p]
          \/ p \in DOMAIN plan.writes /\ tree[p] = plan.writes[p]
    /\ DOMAIN base \subseteq DOMAIN tree \cup plan.deletes
    /\ NothingLostHalfWay

\* The invariant of a batch.
IInv ==
    /\ IsMap(base) /\ IsMap(tree) /\ IsMap(stepwise) /\ IsChange(edits)
    /\ phase \in {"applying", "refused", "writing", "stopped", "written"}
    /\ (phase = "refused") <=> aloneRefused
    /\ phase \in {"applying", "refused"} => Unplanned
    /\ phase = "applying" => SameFiles
    /\ phase \in {"writing", "stopped", "written"} => Planned
    /\ phase = "written" => tree = stepwise
    /\ \A p \in DOMAIN edits \cup DOMAIN plan.writes \cup plan.deletes : Names(records, p)

-----------------------------------------------------------------------------
(* Trees and changes.                                                       *)

\* A change over another is each of them where it is, the first one first.
LEMMA Overlaid ==
    ASSUME NEW f, NEW g
    PROVE  /\ IsMap(Over(f, g))
           /\ DOMAIN Over(f, g) = DOMAIN f \cup DOMAIN g
           /\ \A x \in DOMAIN f : Over(f, g)[x] = f[x]
           /\ \A x \in DOMAIN g \ DOMAIN f : Over(f, g)[x] = g[x]
BY DEF IsMap, Over

\* Nothing is changed by the change of no file.
LEMMA NoChange == DOMAIN << >> = {} /\ IsChange(<< >>)
<1>1. DOMAIN << >> = {} /\ IsMap(<< >>)
  BY DEF IsMap
<1> QED
  BY <1>1 DEF IsChange

\* What a working tree has at a path.
LEMMA Contents ==
    /\ \A b, e, p : p \in DOMAIN e => Has(b, e, p) = e[p]
    /\ \A b, e, p : p \notin DOMAIN e /\ p \in DOMAIN b => Has(b, e, p) = {b[p]}
    /\ \A b, e, p : p \notin DOMAIN e /\ p \notin DOMAIN b => Has(b, e, p) = {}
BY DEF Has, Content, Snapshot

\* The same, where nothing is edited.
LEMMA Files ==
    /\ \A t, p : p \in DOMAIN t => Has(t, << >>, p) = {t[p]}
    /\ \A t, p : p \notin DOMAIN t => Has(t, << >>, p) = {}
BY NoChange, Contents

\* A directory is the documents it has.
LEMMA SameDirectory ==
    ASSUME NEW t, NEW u, IsMap(t), IsMap(u),
           \A p : Has(t, << >>, p) = Has(u, << >>, p)
    PROVE  t = u
<1>1. ASSUME NEW p PROVE p \in DOMAIN t <=> p \in DOMAIN u
  <2>1. Has(t, << >>, p) = Has(u, << >>, p)
    OBVIOUS
  <2>2. p \in DOMAIN t <=> Has(t, << >>, p) # {}
    BY Files
  <2>3. p \in DOMAIN u <=> Has(u, << >>, p) # {}
    BY Files
  <2> QED
    BY <2>1, <2>2, <2>3
<1>2. ASSUME NEW p \in DOMAIN t PROVE t[p] = u[p]
  <2>1. {t[p]} = {u[p]}
    BY <1>1, Files
  <2> QED
    BY <2>1
<1>3. DOMAIN t = DOMAIN u
  BY <1>1
<1> QED
  BY <1>2, <1>3 DEF IsMap

\* There is one document in a working tree at a path, or none.
LEMMA OneDocument ==
    ASSUME NEW b, NEW e, IsChange(e), NEW p
    PROVE  \/ Has(b, e, p) = {}
           \/ \E d : Has(b, e, p) = {d}
<1>1. CASE p \in DOMAIN e
  <2>1. \A c, d \in e[p] : c = d
    BY <1>1 DEF IsChange
  <2>2. e[p] = {} \/ \E d : e[p] = {d}
    BY <2>1
  <2> QED
    BY <1>1, <2>2, Contents
<1>2. CASE p \notin DOMAIN e
  BY <1>2, Contents
<1> QED
  BY <1>1, <1>2

\* What a plan writes and deletes.
LEMMA Plans ==
    ASSUME NEW b, NEW e, IsChange(e)
    PROVE  LET w == [base |-> b, edits |-> e]
               made == IntoPlan(w)
           IN  /\ IsMap(made.writes)
               /\ \A p : p \in DOMAIN made.writes <=>
                       p \in DOMAIN e /\ e[p] # {} /\ e[p] # Has(b, << >>, p)
               /\ \A p \in DOMAIN made.writes : e[p] = {made.writes[p]}
               /\ \A p : p \in made.deletes <=> p \in DOMAIN e /\ e[p] = {} /\ p \in DOMAIN b
<1> DEFINE w == [base |-> b, edits |-> e]
           made == IntoPlan(w)
           changed == {q \in DOMAIN e : e[q] \notin {{}, Snapshot(w, q)}}
<1>1. ASSUME NEW p PROVE Snapshot(w, p) = Has(b, << >>, p)
  BY Files DEF Snapshot
<1>2. /\ made.writes = [p \in changed |-> CHOOSE c \in e[p] : TRUE]
      /\ made.deletes = {p \in DOMAIN e : e[p] = {} /\ Snapshot(w, p) # {}}
  BY DEF IntoPlan
<1>3. IsMap(made.writes) /\ DOMAIN made.writes = changed
  BY <1>2 DEF IsMap
<1>4. ASSUME NEW p
      PROVE  p \in DOMAIN made.writes <=>
                 p \in DOMAIN e /\ e[p] # {} /\ e[p] # Has(b, << >>, p)
  BY <1>1, <1>3
<1>5. ASSUME NEW p \in DOMAIN made.writes PROVE e[p] = {made.writes[p]}
  <2>1. p \in DOMAIN e /\ e[p] # {} /\ p \in changed
    BY <1>3, <1>4
  <2>2. made.writes[p] = CHOOSE c \in e[p] : TRUE
    BY <1>2, <2>1
  <2>3. made.writes[p] \in e[p]
    BY <2>1, <2>2
  <2>4. \A c, d \in e[p] : c = d
    BY <2>1 DEF IsChange
  <2> QED
    BY <2>3, <2>4
<1>6. ASSUME NEW p PROVE p \in made.deletes <=> p \in DOMAIN e /\ e[p] = {} /\ p \in DOMAIN b
  BY <1>2 DEF Snapshot
<1> QED
  BY <1>3, <1>4, <1>5, <1>6

\* A plan that is written leaves what the working tree had.
LEMMA WrittenHas ==
    ASSUME NEW b, NEW e, IsMap(b), IsChange(e)
    PROVE  LET w == [base |-> b, edits |-> e]
               t == CarriedOut(b, IntoPlan(w))
           IN  IsMap(t) /\ \A p : Has(t, << >>, p) = Has(b, e, p)
<1> DEFINE w == [base |-> b, edits |-> e]
           made == IntoPlan(w)
           t == CarriedOut(b, made)
<1>1. /\ IsMap(t)
      /\ DOMAIN t = (DOMAIN b \cup DOMAIN made.writes) \ made.deletes
      /\ \A p \in DOMAIN t : t[p] = IF p \in DOMAIN made.writes THEN made.writes[p] ELSE b[p]
  BY DEF CarriedOut, IsMap
<1>2. /\ \A p : p \in DOMAIN made.writes <=>
                p \in DOMAIN e /\ e[p] # {} /\ e[p] # Has(b, << >>, p)
      /\ \A p \in DOMAIN made.writes : e[p] = {made.writes[p]}
      /\ \A p : p \in made.deletes <=> p \in DOMAIN e /\ e[p] = {} /\ p \in DOMAIN b
  BY Plans
<1> HIDE DEF t, made
<1>3. ASSUME NEW p PROVE Has(t, << >>, p) = Has(b, e, p)
  <2>1. CASE p \notin DOMAIN e
    <3>1. p \in DOMAIN t <=> p \in DOMAIN b
      BY <1>1, <1>2, <2>1
    <3>2. p \in DOMAIN t => t[p] = b[p]
      BY <1>1, <1>2, <2>1
    <3>3. CASE p \in DOMAIN t
      <4>1. Has(t, << >>, p) = {b[p]}
        BY <3>2, <3>3, Files
      <4>2. Has(b, e, p) = {b[p]}
        BY <2>1, <3>1, <3>3, Contents
      <4> QED
        BY <4>1, <4>2
    <3>4. CASE p \notin DOMAIN t
      <4>1. Has(t, << >>, p) = {}
        BY <3>4, Files
      <4>2. Has(b, e, p) = {}
        BY <2>1, <3>1, <3>4, Contents
      <4> QED
        BY <4>1, <4>2
    <3> QED
      BY <3>3, <3>4
  <2>2. CASE p \in DOMAIN e /\ e[p] = {}
    <3>1. p \notin DOMAIN t
      BY <1>1, <1>2, <2>2
    <3>2. Has(t, << >>, p) = {}
      BY <3>1, Files
    <3>3. Has(b, e, p) = e[p]
      BY <2>2, Contents
    <3> QED
      BY <2>2, <3>2, <3>3
  <2>3. CASE p \in DOMAIN made.writes
    <3>1. p \in DOMAIN t /\ t[p] = made.writes[p]
      BY <1>1, <1>2, <2>3
    <3>2. Has(t, << >>, p) = {made.writes[p]}
      BY <3>1, Files
    <3>3. Has(b, e, p) = e[p]
      BY <1>2, <2>3, Contents
    <3>4. e[p] = {made.writes[p]}
      BY <1>2, <2>3
    <3> QED
      BY <3>2, <3>3, <3>4
  <2>4. CASE p \in DOMAIN e /\ e[p] # {} /\ p \notin DOMAIN made.writes
    <3>1. e[p] = Has(b, << >>, p)
      BY <1>2, <2>4
    <3>2. p \in DOMAIN b
      BY <2>4, <3>1, Files
    <3>3. p \in DOMAIN t /\ t[p] = b[p]
      BY <1>1, <1>2, <2>4, <3>2
    <3>4. Has(t, << >>, p) = {b[p]}
      BY <3>3, Files
    <3>5. Has(b, << >>, p) = {b[p]}
      BY <3>2, Files
    <3>6. Has(b, e, p) = e[p]
      BY <2>4, Contents
    <3> QED
      BY <3>1, <3>4, <3>5, <3>6
  <2> QED
    BY <2>1, <2>2, <2>3, <2>4
<1> QED
  BY <1>1, <1>3 DEF t, made
-----------------------------------------------------------------------------
(* One operation.                                                           *)

\* Everywhere, the batch has what the directory has.
LEMMA SameEverywhere ==
    ASSUME IInv, phase = "applying"
    PROVE  \A p : Has(base, edits, p) = Has(stepwise, << >>, p)
<1> SUFFICES ASSUME NEW p PROVE Has(base, edits, p) = Has(stepwise, << >>, p)
  OBVIOUS
<1>1. CASE p \in DOMAIN base \cup DOMAIN edits \cup DOMAIN stepwise
  BY <1>1 DEF IInv, SameFiles
<1>2. CASE p \notin DOMAIN base \cup DOMAIN edits \cup DOMAIN stepwise
  <2>1. Has(base, edits, p) = {}
    BY <1>2, Contents
  <2>2. Has(stepwise, << >>, p) = {}
    BY <1>2, Files
  <2> QED
    BY <2>1, <2>2
<1> QED
  BY <1>1, <1>2

\* A change over a change is a change.
LEMMA OneChange ==
    ASSUME NEW change, NEW e, IsChange(change), IsChange(e)
    PROVE  IsChange(Over(change, e))
<1> DEFINE f == Over(change, e)
<1>1. /\ IsMap(f) /\ DOMAIN f = DOMAIN change \cup DOMAIN e
      /\ \A x \in DOMAIN change : f[x] = change[x]
      /\ \A x \in DOMAIN e \ DOMAIN change : f[x] = e[x]
  BY Overlaid
<1> HIDE DEF f
<1>2. IsChange(f)
  BY <1>1 DEF IsChange
<1> QED
  BY <1>2 DEF f

\* A change decides what is at its paths, and what it does not touch stays.
LEMMA ChangedOver ==
    ASSUME NEW b, NEW e, NEW change, IsChange(change), IsChange(e)
    PROVE  /\ \A p : p \in DOMAIN change => Has(b, Over(change, e), p) = change[p]
           /\ \A p : p \notin DOMAIN change => Has(b, Over(change, e), p) = Has(b, e, p)
<1> DEFINE f == Over(change, e)
<1>1. /\ IsMap(f) /\ DOMAIN f = DOMAIN change \cup DOMAIN e
      /\ \A x \in DOMAIN change : f[x] = change[x]
      /\ \A x \in DOMAIN e \ DOMAIN change : f[x] = e[x]
  BY Overlaid
<1> HIDE DEF f
<1>3. ASSUME NEW p, p \in DOMAIN change PROVE Has(b, f, p) = change[p]
  <2>1. p \in DOMAIN f /\ f[p] = change[p]
    BY <1>1, <1>3
  <2>2. Has(b, f, p) = f[p]
    BY <2>1, Contents
  <2> QED
    BY <2>1, <2>2
<1>4. ASSUME NEW p, p \notin DOMAIN change PROVE Has(b, f, p) = Has(b, e, p)
  <2>1. CASE p \in DOMAIN e
    <3>1. Has(b, f, p) = f[p]
      BY <1>1, <2>1, Contents
    <3>2. Has(b, e, p) = e[p]
      BY <2>1, Contents
    <3> QED
      BY <1>1, <1>4, <2>1, <3>1, <3>2
  <2>2. CASE p \notin DOMAIN e /\ p \in DOMAIN b
    <3>1. Has(b, f, p) = {b[p]}
      BY <1>1, <1>4, <2>2, Contents
    <3>2. Has(b, e, p) = {b[p]}
      BY <2>2, Contents
    <3> QED
      BY <3>1, <3>2
  <2>3. CASE p \notin DOMAIN e /\ p \notin DOMAIN b
    <3>1. Has(b, f, p) = {}
      BY <1>1, <1>4, <2>3, Contents
    <3>2. Has(b, e, p) = {}
      BY <2>3, Contents
    <3> QED
      BY <3>1, <3>2
  <2> QED
    BY <2>1, <2>2, <2>3
<1> QED
  BY <1>3, <1>4 DEF f

\* An operation that changes the same files the same way in the batch and
\* alone, and that records them all, keeps the invariant.
LEMMA ChangeKeeps ==
    ASSUME IInv, NEW change, IsChange(change), NEW recs, NEW path, NEW tables,
           \A p \in DOMAIN change : Names(recs, p),
           Applied({Effect([Batch EXCEPT !.edits = Over(change, @)], recs, path, tables)},
                   {Effect([Alone EXCEPT !.edits = Over(change, @)], recs, path, tables)})
    PROVE  IInv'
<1> DEFINE together == Effect([Batch EXCEPT !.edits = Over(change, @)], recs, path, tables)
           apart == Effect([Alone EXCEPT !.edits = Over(change, @)], recs, path, tables)
<1>0. /\ together.work.edits = Over(change, edits) /\ together.records = recs
      /\ apart.work = [base |-> stepwise, edits |-> Over(change, << >>)]
  BY DEF Effect, Batch, Alone
<1>1. /\ phase = "applying" /\ phase' = "applying" /\ ~aloneRefused'
      /\ edits' = Over(change, edits)
      /\ records' = records \cup recs
      /\ stepwise' = CarriedOut(stepwise, IntoPlan([base |-> stepwise, edits |-> Over(change, << >>)]))
      /\ UNCHANGED <<base, plan, tree>>
  <2>1. Applied({together}, {apart})
    OBVIOUS
  <2> HIDE DEF together, apart
  <2>2. {apart} # {} /\ {together} # {}
    OBVIOUS
  <2>3. ~aloneRefused' /\ phase = "applying"
    BY <2>1, <2>2 DEF Applied
  <2>4. stepwise' = CarriedOut(stepwise, IntoPlan(apart.work))
    BY <2>1, <2>2 DEF Applied
  <2>5. /\ edits' = together.work.edits /\ records' = records \cup together.records
        /\ phase' = phase /\ UNCHANGED <<base, plan, tree>>
    BY <2>1, <2>2 DEF Applied
  <2> QED
    BY <1>0, <2>3, <2>4, <2>5
<1> HIDE DEF together, apart
<1>2. IsChange(edits) /\ IsMap(stepwise) /\ IsMap(base) /\ IsMap(tree) /\ Unplanned
  BY <1>1 DEF IInv
<1>3. IsChange(Over(change, << >>)) /\ IsChange(Over(change, edits))
  BY <1>2, NoChange, OneChange
<1>4. /\ IsMap(stepwise')
      /\ \A p : Has(stepwise', << >>, p) = Has(stepwise, Over(change, << >>), p)
  BY <1>1, <1>2, <1>3, WrittenHas
<1>5. ASSUME NEW p PROVE Has(base, edits', p) = Has(stepwise', << >>, p)
  <2>1. Has(stepwise', << >>, p) = Has(stepwise, Over(change, << >>), p)
    BY <1>4
  <2>2. CASE p \in DOMAIN change
    <3>1. Has(stepwise, Over(change, << >>), p) = change[p]
      BY <2>2, NoChange, ChangedOver
    <3>2. Has(base, Over(change, edits), p) = change[p]
      BY <1>2, <2>2, ChangedOver
    <3> QED
      BY <1>1, <2>1, <3>1, <3>2
  <2>3. CASE p \notin DOMAIN change
    <3>1. Has(stepwise, Over(change, << >>), p) = Has(stepwise, << >>, p)
      BY <2>3, NoChange, ChangedOver
    <3>2. Has(base, Over(change, edits), p) = Has(base, edits, p)
      BY <1>2, <2>3, ChangedOver
    <3>3. Has(base, edits, p) = Has(stepwise, << >>, p)
      BY <1>1, SameEverywhere
    <3> QED
      BY <1>1, <2>1, <3>1, <3>2, <3>3
  <2> QED
    BY <2>2, <2>3
<1>6. SameFiles'
  BY <1>1, <1>5 DEF SameFiles
<1>7. ASSUME NEW p \in DOMAIN edits' \cup DOMAIN plan'.writes \cup plan'.deletes
      PROVE  Names(records', p)
  <2>1. DOMAIN edits' = DOMAIN change \cup DOMAIN edits
    BY <1>1, Overlaid
  <2>2. DOMAIN plan'.writes = {} /\ plan'.deletes = {}
    BY <1>1, <1>2, NoChange DEF Unplanned
  <2>3. Names(records, p) \/ Names(recs, p)
    BY <2>1, <2>2 DEF IInv
  <2> QED
    BY <1>1, <2>3 DEF Names
<1>8. Unplanned'
  BY <1>1, <1>2 DEF Unplanned
<1> QED
  BY <1>1, <1>2, <1>3, <1>4, <1>6, <1>7, <1>8 DEF IInv

\* An operation that is refused in the batch and alone keeps the invariant.
LEMMA RefusalKeeps == ASSUME IInv, Applied({}, {}) PROVE IInv'
<1>1. /\ phase = "applying" /\ phase' = "refused" /\ aloneRefused' /\ edits' = << >>
      /\ UNCHANGED <<base, plan, tree, stepwise>>
  BY DEF Applied
<1>2. Unplanned /\ Unplanned'
  BY <1>1 DEF IInv, Unplanned
<1>3. DOMAIN edits' = {} /\ DOMAIN plan'.writes = {} /\ plan'.deletes = {} /\ IsChange(edits')
  BY <1>1, <1>2, NoChange DEF Unplanned
<1> QED
  BY <1>1, <1>2, <1>3 DEF IInv
\* An operation reads in the batch what it reads alone: the same document at a
\* path, or none, and the same paths beneath a directory.
LEMMA SameReads ==
    ASSUME IInv, phase = "applying"
    PROVE  /\ \A p : Content(Batch, p) = Content(Alone, p)
           /\ \A p : Content(Batch, p) = {} \/ \E d : Content(Batch, p) = {d}
           /\ \A dir : PathsUnder(Batch, dir) = PathsUnder(Alone, dir)
<1>1. ASSUME NEW p PROVE Content(Batch, p) = Has(base, edits, p) /\ Content(Alone, p) = Has(stepwise, << >>, p)
  BY DEF Has, Batch, Alone
<1>2. ASSUME NEW p PROVE Has(base, edits, p) = Has(stepwise, << >>, p)
  BY SameEverywhere
<1>3. ASSUME NEW p PROVE Content(Batch, p) = {} \/ \E d : Content(Batch, p) = {d}
  <2>1. IsChange(edits)
    BY DEF IInv
  <2> QED
    BY <1>1, <2>1, OneDocument
<1>4. ASSUME NEW dir PROVE PathsUnder(Batch, dir) = PathsUnder(Alone, dir)
  <2>1. PathsUnder(Batch, dir) =
            {p \in DOMAIN base \cup DOMAIN edits : Beneath(dir, p)} \ {p \in DOMAIN edits : edits[p] = {}}
    BY DEF PathsUnder, Batch
  <2>2. PathsUnder(Alone, dir) =
            {p \in DOMAIN stepwise \cup DOMAIN << >> : Beneath(dir, p)} \ {p \in DOMAIN << >> : << >>[p] = {}}
    BY DEF PathsUnder, Alone
  <2>3. PathsUnder(Alone, dir) = {p \in DOMAIN stepwise : Beneath(dir, p)}
    BY <2>2, NoChange
  <2>4. ASSUME NEW p
        PROVE  p \in DOMAIN stepwise <=> p \in DOMAIN base \cup DOMAIN edits /\ ~(p \in DOMAIN edits /\ edits[p] = {})
    <3>1. Has(base, edits, p) = Has(stepwise, << >>, p)
      BY <1>2
    <3>2. p \in DOMAIN stepwise <=> Has(stepwise, << >>, p) # {}
      BY Files
    <3>3. CASE p \in DOMAIN edits
      <4>1. Has(base, edits, p) = edits[p]
        BY <3>3, Contents
      <4> QED
        BY <3>1, <3>2, <3>3, <4>1
    <3>4. CASE p \notin DOMAIN edits
      <4>1. p \in DOMAIN base => Has(base, edits, p) = {base[p]}
        BY <3>4, Contents
      <4>2. p \notin DOMAIN base => Has(base, edits, p) = {}
        BY <3>4, Contents
      <4> QED
        BY <3>1, <3>2, <3>4, <4>1, <4>2
    <3> QED
      BY <3>3, <3>4
  <2> QED
    BY <2>1, <2>3, <2>4
<1> QED
  BY <1>1, <1>2, <1>3, <1>4

\* Of the documents at a path, an operation is about one or about none.
LEMMA AboutOne ==
    ASSUME IInv, phase = "applying", NEW path, NEW S, S \subseteq Content(Batch, path)
    PROVE  S = {} \/ \E d : S = {d}
BY SameReads

\* One file is written and recorded.
Rewrite(w, op, path, content, tables) ==
    Effect(WriteTo(w, path, content), {Record(op, path)}, path, tables)

\* What an operation is refused, or writes, in the batch and alone: the same
\* document at its path.
Rewritten(outcome, alone, op, path) ==
    \/ outcome = {} /\ alone = {}
    \/ \E content, tables :
          /\ outcome = {Rewrite(Batch, op, path, content, tables)}
          /\ alone = {Rewrite(Alone, op, path, content, tables)}

\* An operation that writes one file keeps the invariant.
LEMMA RewriteKeeps ==
    ASSUME IInv, NEW outcome, NEW alone, NEW op, NEW path,
           Applied(outcome, alone), Rewritten(outcome, alone, op, path)
    PROVE  IInv'
<1>1. CASE outcome = {} /\ alone = {}
  BY <1>1, RefusalKeeps
<1>2. ASSUME NEW content, NEW tables,
             outcome = {Rewrite(Batch, op, path, content, tables)},
             alone = {Rewrite(Alone, op, path, content, tables)}
      PROVE  IInv'
  <2> DEFINE change == [p \in {path} |-> {content}]
  <2>1. /\ IsChange(change)
        /\ WriteTo(Batch, path, content) = [Batch EXCEPT !.edits = Over(change, @)]
        /\ WriteTo(Alone, path, content) = [Alone EXCEPT !.edits = Over(change, @)]
    BY DEF IsChange, IsMap, WriteTo
  <2>2. \A p \in DOMAIN change : Names({Record(op, path)}, p)
    BY DEF Names, Record
  <2> HIDE DEF change
  <2>3. Applied({Effect([Batch EXCEPT !.edits = Over(change, @)], {Record(op, path)}, path, tables)},
                {Effect([Alone EXCEPT !.edits = Over(change, @)], {Record(op, path)}, path, tables)})
    BY <1>2, <2>1 DEF Rewrite
  <2> QED
    BY <2>1, <2>2, <2>3, ChangeKeeps
<1> QED
  BY <1>1, <1>2 DEF Rewritten

\* An operation that creates a file keeps the invariant.
LEMMA CreatesKeeps ==
    ASSUME IInv, NEW op, NEW path, NEW content,
           Applied(Creates(Batch, op, path, content), Creates(Alone, op, path, content))
    PROVE  IInv'
<1>1. phase = "applying"
  BY DEF Applied
<1>2. \A p : Exists(Batch, p) <=> Exists(Alone, p)
  BY <1>1, SameReads DEF Exists
<1>3. Rewritten(Creates(Batch, op, path, content), Creates(Alone, op, path, content), op, path)
  BY <1>2 DEF Creates, Rewritten, Rewrite
<1> QED
  BY <1>3, RewriteKeeps
\* replace_sample keeps the invariant.
LEMMA ReplaceSampleKeeps == ASSUME IInv, ReplaceSample PROVE IInv'
<1> DEFINE Path(x, k, facts) == <<"context", x, k>>
           Ok(c, x, k, facts) == Always(c)
           New(d, x, k, facts) == Document([facts |-> facts], << >>)
           Wished(d, x, k, facts) == Meaning(d)
           Opened(w, x, k, facts) == {c \in Content(w, Path(x, k, facts)) : Owned(Path(x, k, facts)) /\ Ok(c, x, k, facts)}
           Outs(w, x, k, facts) ==
               {Rewrite(w, "replace_sample", Path(x, k, facts), New(d, x, k, facts), Wished(d, x, k, facts)) : d \in Opened(w, x, k, facts)}
<1>1. PICK x \in ContextIds, k \in Keys, facts \in Values :
          Applied(Outs(Batch, x, k, facts), Outs(Alone, x, k, facts))
  BY DEF ReplaceSample, Apply, Edits, Rewrite
<1> HIDE DEF Path, Ok, New, Wished
<1>2. /\ Opened(Alone, x, k, facts) = Opened(Batch, x, k, facts)
      /\ Opened(Batch, x, k, facts) = {} \/ \E d : Opened(Batch, x, k, facts) = {d}
  BY <1>1, SameReads, AboutOne DEF Applied
<1> HIDE DEF Opened
<1>3. CASE Opened(Batch, x, k, facts) = {}
  <2>1. Outs(Batch, x, k, facts) = {} /\ Outs(Alone, x, k, facts) = {}
    BY <1>2, <1>3
  <2> QED
    BY <1>1, <2>1, RewriteKeeps DEF Rewritten
<1>4. ASSUME NEW d, Opened(Batch, x, k, facts) = {d} PROVE IInv'
  <2>1. /\ Outs(Batch, x, k, facts) = {Rewrite(Batch, "replace_sample", Path(x, k, facts), New(d, x, k, facts), Wished(d, x, k, facts))}
        /\ Outs(Alone, x, k, facts) = {Rewrite(Alone, "replace_sample", Path(x, k, facts), New(d, x, k, facts), Wished(d, x, k, facts))}
    BY <1>2, <1>4
  <2> HIDE DEF Outs
  <2>2. Rewritten(Outs(Batch, x, k, facts), Outs(Alone, x, k, facts), "replace_sample", Path(x, k, facts))
    BY <2>1 DEF Rewritten
  <2> QED
    BY <1>1, <2>2, RewriteKeeps
<1> QED
  BY <1>2, <1>3, <1>4

\* set_description keeps the invariant.
LEMMA SetDescriptionKeeps == ASSUME IInv, SetDescription PROVE IInv'
<1> DEFINE Path(path, text) == path
           Ok(c, path, text) == Always(c)
           New(d, path, text) == [d EXCEPT !.fields = SetOrRemoved(@, "description", text)]
           Wished(d, path, text) == Meaning(d)
           Opened(w, path, text) == {c \in Content(w, Path(path, text)) : Owned(Path(path, text)) /\ Ok(c, path, text)}
           Outs(w, path, text) ==
               {Rewrite(w, "set_description", Path(path, text), New(d, path, text), Wished(d, path, text)) : d \in Opened(w, path, text)}
<1>1. PICK path \in ({"variable"} \X VariableIds) \cup ({"list"} \X ListIds), text \in Optional(Values) :
          Applied(Outs(Batch, path, text), Outs(Alone, path, text))
  BY DEF SetDescription, Apply, Edits, Rewrite
<1> HIDE DEF Path, Ok, New, Wished
<1>2. /\ Opened(Alone, path, text) = Opened(Batch, path, text)
      /\ Opened(Batch, path, text) = {} \/ \E d : Opened(Batch, path, text) = {d}
  BY <1>1, SameReads, AboutOne DEF Applied
<1> HIDE DEF Opened
<1>3. CASE Opened(Batch, path, text) = {}
  <2>1. Outs(Batch, path, text) = {} /\ Outs(Alone, path, text) = {}
    BY <1>2, <1>3
  <2> QED
    BY <1>1, <2>1, RewriteKeeps DEF Rewritten
<1>4. ASSUME NEW d, Opened(Batch, path, text) = {d} PROVE IInv'
  <2>1. /\ Outs(Batch, path, text) = {Rewrite(Batch, "set_description", Path(path, text), New(d, path, text), Wished(d, path, text))}
        /\ Outs(Alone, path, text) = {Rewrite(Alone, "set_description", Path(path, text), New(d, path, text), Wished(d, path, text))}
    BY <1>2, <1>4
  <2> HIDE DEF Outs
  <2>2. Rewritten(Outs(Batch, path, text), Outs(Alone, path, text), "set_description", Path(path, text))
    BY <2>1 DEF Rewritten
  <2> QED
    BY <1>1, <2>2, RewriteKeeps
<1> QED
  BY <1>2, <1>3, <1>4

\* set_type keeps the invariant.
LEMMA SetTypeKeeps == ASSUME IInv, SetType PROVE IInv'
<1> DEFINE Path(v, type) == <<"variable", v>>
           Ok(c, v, type) == type # ""
           New(d, v, type) == [d EXCEPT !.fields = Set(@, "type", type)]
           Wished(d, v, type) == Meaning(d)
           Opened(w, v, type) == {c \in Content(w, Path(v, type)) : Owned(Path(v, type)) /\ Ok(c, v, type)}
           Outs(w, v, type) ==
               {Rewrite(w, "set_type", Path(v, type), New(d, v, type), Wished(d, v, type)) : d \in Opened(w, v, type)}
<1>1. PICK v \in VariableIds, type \in Values :
          Applied(Outs(Batch, v, type), Outs(Alone, v, type))
  BY DEF SetType, Apply, Edits, Rewrite
<1> HIDE DEF Path, Ok, New, Wished
<1>2. /\ Opened(Alone, v, type) = Opened(Batch, v, type)
      /\ Opened(Batch, v, type) = {} \/ \E d : Opened(Batch, v, type) = {d}
  BY <1>1, SameReads, AboutOne DEF Applied
<1> HIDE DEF Opened
<1>3. CASE Opened(Batch, v, type) = {}
  <2>1. Outs(Batch, v, type) = {} /\ Outs(Alone, v, type) = {}
    BY <1>2, <1>3
  <2> QED
    BY <1>1, <2>1, RewriteKeeps DEF Rewritten
<1>4. ASSUME NEW d, Opened(Batch, v, type) = {d} PROVE IInv'
  <2>1. /\ Outs(Batch, v, type) = {Rewrite(Batch, "set_type", Path(v, type), New(d, v, type), Wished(d, v, type))}
        /\ Outs(Alone, v, type) = {Rewrite(Alone, "set_type", Path(v, type), New(d, v, type), Wished(d, v, type))}
    BY <1>2, <1>4
  <2> HIDE DEF Outs
  <2>2. Rewritten(Outs(Batch, v, type), Outs(Alone, v, type), "set_type", Path(v, type))
    BY <2>1 DEF Rewritten
  <2> QED
    BY <1>1, <2>2, RewriteKeeps
<1> QED
  BY <1>2, <1>3, <1>4

\* set_default keeps the invariant.
LEMMA SetDefaultKeeps == ASSUME IInv, SetDefault PROVE IInv'
<1> DEFINE Path(v, value) == <<"variable", v>>
           Ok(c, v, value) == Always(c)
           New(d, v, value) == [d EXCEPT !.fields = Set(@, "default", value)]
           Wished(d, v, value) == Meaning(d)
           Opened(w, v, value) == {c \in Content(w, Path(v, value)) : Owned(Path(v, value)) /\ Ok(c, v, value)}
           Outs(w, v, value) ==
               {Rewrite(w, "set_default", Path(v, value), New(d, v, value), Wished(d, v, value)) : d \in Opened(w, v, value)}
<1>1. PICK v \in VariableIds, value \in Values :
          Applied(Outs(Batch, v, value), Outs(Alone, v, value))
  BY DEF SetDefault, Apply, Edits, Rewrite
<1> HIDE DEF Path, Ok, New, Wished
<1>2. /\ Opened(Alone, v, value) = Opened(Batch, v, value)
      /\ Opened(Batch, v, value) = {} \/ \E d : Opened(Batch, v, value) = {d}
  BY <1>1, SameReads, AboutOne DEF Applied
<1> HIDE DEF Opened
<1>3. CASE Opened(Batch, v, value) = {}
  <2>1. Outs(Batch, v, value) = {} /\ Outs(Alone, v, value) = {}
    BY <1>2, <1>3
  <2> QED
    BY <1>1, <2>1, RewriteKeeps DEF Rewritten
<1>4. ASSUME NEW d, Opened(Batch, v, value) = {d} PROVE IInv'
  <2>1. /\ Outs(Batch, v, value) = {Rewrite(Batch, "set_default", Path(v, value), New(d, v, value), Wished(d, v, value))}
        /\ Outs(Alone, v, value) = {Rewrite(Alone, "set_default", Path(v, value), New(d, v, value), Wished(d, v, value))}
    BY <1>2, <1>4
  <2> HIDE DEF Outs
  <2>2. Rewritten(Outs(Batch, v, value), Outs(Alone, v, value), "set_default", Path(v, value))
    BY <2>1 DEF Rewritten
  <2> QED
    BY <1>1, <2>2, RewriteKeeps
<1> QED
  BY <1>2, <1>3, <1>4

\* clear_query keeps the invariant.
LEMMA ClearQueryKeeps == ASSUME IInv, ClearQuery PROVE IInv'
<1> DEFINE Path(v) == <<"variable", v>>
           Ok(c, v) == "method" \in DOMAIN c.fields /\ c.fields.method = "query"
           New(d, v) == [d EXCEPT !.fields = Removed(@, {"method", "from", "filter", "sort", "order"})]
           Wished(d, v) == Meaning(d)
           Opened(w, v) == {c \in Content(w, Path(v)) : Owned(Path(v)) /\ Ok(c, v)}
           Outs(w, v) ==
               {Rewrite(w, "clear_query", Path(v), New(d, v), Wished(d, v)) : d \in Opened(w, v)}
<1>1. PICK v \in VariableIds :
          Applied(Outs(Batch, v), Outs(Alone, v))
  BY DEF ClearQuery, Apply, Edits, Rewrite
<1> HIDE DEF Path, Ok, New, Wished
<1>2. /\ Opened(Alone, v) = Opened(Batch, v)
      /\ Opened(Batch, v) = {} \/ \E d : Opened(Batch, v) = {d}
  BY <1>1, SameReads, AboutOne DEF Applied
<1> HIDE DEF Opened
<1>3. CASE Opened(Batch, v) = {}
  <2>1. Outs(Batch, v) = {} /\ Outs(Alone, v) = {}
    BY <1>2, <1>3
  <2> QED
    BY <1>1, <2>1, RewriteKeeps DEF Rewritten
<1>4. ASSUME NEW d, Opened(Batch, v) = {d} PROVE IInv'
  <2>1. /\ Outs(Batch, v) = {Rewrite(Batch, "clear_query", Path(v), New(d, v), Wished(d, v))}
        /\ Outs(Alone, v) = {Rewrite(Alone, "clear_query", Path(v), New(d, v), Wished(d, v))}
    BY <1>2, <1>4
  <2> HIDE DEF Outs
  <2>2. Rewritten(Outs(Batch, v), Outs(Alone, v), "clear_query", Path(v))
    BY <2>1 DEF Rewritten
  <2> QED
    BY <1>1, <2>2, RewriteKeeps
<1> QED
  BY <1>2, <1>3, <1>4

\* set_field keeps the invariant.
LEMMA SetFieldKeeps == ASSUME IInv, SetField PROVE IInv'
<1> DEFINE Path(c0, k, value) == <<"catalog", c0, k>>
           Ok(c, c0, k, value) == Always(c)
           New(d, c0, k, value) == [d EXCEPT !.fields = Set(@, "field", value)]
           Wished(d, c0, k, value) == Meaning(d)
           Opened(w, c0, k, value) == {c \in Content(w, Path(c0, k, value)) : Owned(Path(c0, k, value)) /\ Ok(c, c0, k, value)}
           Outs(w, c0, k, value) ==
               {Rewrite(w, "set_field", Path(c0, k, value), New(d, c0, k, value), Wished(d, c0, k, value)) : d \in Opened(w, c0, k, value)}
<1>1. PICK c0 \in CatalogIds, k \in Keys, value \in Values :
          Applied(Outs(Batch, c0, k, value), Outs(Alone, c0, k, value))
  BY DEF SetField, Apply, Edits, Rewrite
<1> HIDE DEF Path, Ok, New, Wished
<1>2. /\ Opened(Alone, c0, k, value) = Opened(Batch, c0, k, value)
      /\ Opened(Batch, c0, k, value) = {} \/ \E d : Opened(Batch, c0, k, value) = {d}
  BY <1>1, SameReads, AboutOne DEF Applied
<1> HIDE DEF Opened
<1>3. CASE Opened(Batch, c0, k, value) = {}
  <2>1. Outs(Batch, c0, k, value) = {} /\ Outs(Alone, c0, k, value) = {}
    BY <1>2, <1>3
  <2> QED
    BY <1>1, <2>1, RewriteKeeps DEF Rewritten
<1>4. ASSUME NEW d, Opened(Batch, c0, k, value) = {d} PROVE IInv'
  <2>1. /\ Outs(Batch, c0, k, value) = {Rewrite(Batch, "set_field", Path(c0, k, value), New(d, c0, k, value), Wished(d, c0, k, value))}
        /\ Outs(Alone, c0, k, value) = {Rewrite(Alone, "set_field", Path(c0, k, value), New(d, c0, k, value), Wished(d, c0, k, value))}
    BY <1>2, <1>4
  <2> HIDE DEF Outs
  <2>2. Rewritten(Outs(Batch, c0, k, value), Outs(Alone, c0, k, value), "set_field", Path(c0, k, value))
    BY <2>1 DEF Rewritten
  <2> QED
    BY <1>1, <2>2, RewriteKeeps
<1> QED
  BY <1>2, <1>3, <1>4

\* unset_field keeps the invariant.
LEMMA UnsetFieldKeeps == ASSUME IInv, UnsetField PROVE IInv'
<1> DEFINE Path(c0, k) == <<"catalog", c0, k>>
           Ok(c, c0, k) == "field" \in DOMAIN c.fields
           New(d, c0, k) == [d EXCEPT !.fields = Removed(@, {"field"})]
           Wished(d, c0, k) == Meaning(d)
           Opened(w, c0, k) == {c \in Content(w, Path(c0, k)) : Owned(Path(c0, k)) /\ Ok(c, c0, k)}
           Outs(w, c0, k) ==
               {Rewrite(w, "unset_field", Path(c0, k), New(d, c0, k), Wished(d, c0, k)) : d \in Opened(w, c0, k)}
<1>1. PICK c0 \in CatalogIds, k \in Keys :
          Applied(Outs(Batch, c0, k), Outs(Alone, c0, k))
  BY DEF UnsetField, Apply, Edits, Rewrite
<1> HIDE DEF Path, Ok, New, Wished
<1>2. /\ Opened(Alone, c0, k) = Opened(Batch, c0, k)
      /\ Opened(Batch, c0, k) = {} \/ \E d : Opened(Batch, c0, k) = {d}
  BY <1>1, SameReads, AboutOne DEF Applied
<1> HIDE DEF Opened
<1>3. CASE Opened(Batch, c0, k) = {}
  <2>1. Outs(Batch, c0, k) = {} /\ Outs(Alone, c0, k) = {}
    BY <1>2, <1>3
  <2> QED
    BY <1>1, <2>1, RewriteKeeps DEF Rewritten
<1>4. ASSUME NEW d, Opened(Batch, c0, k) = {d} PROVE IInv'
  <2>1. /\ Outs(Batch, c0, k) = {Rewrite(Batch, "unset_field", Path(c0, k), New(d, c0, k), Wished(d, c0, k))}
        /\ Outs(Alone, c0, k) = {Rewrite(Alone, "unset_field", Path(c0, k), New(d, c0, k), Wished(d, c0, k))}
    BY <1>2, <1>4
  <2> HIDE DEF Outs
  <2>2. Rewritten(Outs(Batch, c0, k), Outs(Alone, c0, k), "unset_field", Path(c0, k))
    BY <2>1 DEF Rewritten
  <2> QED
    BY <1>1, <2>2, RewriteKeeps
<1> QED
  BY <1>2, <1>3, <1>4

\* add_member keeps the invariant.
LEMMA AddMemberKeeps == ASSUME IInv, AddMember PROVE IInv'
<1> DEFINE Path(l, value) == <<"list", l>>
           Ok(c, l, value) == value \notin ToSet(c.members)
           New(d, l, value) == [d EXCEPT !.members = Append(@, value)]
           Wished(d, l, value) == Meaning(d)
           Opened(w, l, value) == {c \in Content(w, Path(l, value)) : Owned(Path(l, value)) /\ Ok(c, l, value)}
           Outs(w, l, value) ==
               {Rewrite(w, "add_member", Path(l, value), New(d, l, value), Wished(d, l, value)) : d \in Opened(w, l, value)}
<1>1. PICK l \in ListIds, value \in Values :
          Applied(Outs(Batch, l, value), Outs(Alone, l, value))
  BY DEF AddMember, Apply, Edits, Rewrite
<1> HIDE DEF Path, Ok, New, Wished
<1>2. /\ Opened(Alone, l, value) = Opened(Batch, l, value)
      /\ Opened(Batch, l, value) = {} \/ \E d : Opened(Batch, l, value) = {d}
  BY <1>1, SameReads, AboutOne DEF Applied
<1> HIDE DEF Opened
<1>3. CASE Opened(Batch, l, value) = {}
  <2>1. Outs(Batch, l, value) = {} /\ Outs(Alone, l, value) = {}
    BY <1>2, <1>3
  <2> QED
    BY <1>1, <2>1, RewriteKeeps DEF Rewritten
<1>4. ASSUME NEW d, Opened(Batch, l, value) = {d} PROVE IInv'
  <2>1. /\ Outs(Batch, l, value) = {Rewrite(Batch, "add_member", Path(l, value), New(d, l, value), Wished(d, l, value))}
        /\ Outs(Alone, l, value) = {Rewrite(Alone, "add_member", Path(l, value), New(d, l, value), Wished(d, l, value))}
    BY <1>2, <1>4
  <2> HIDE DEF Outs
  <2>2. Rewritten(Outs(Batch, l, value), Outs(Alone, l, value), "add_member", Path(l, value))
    BY <2>1 DEF Rewritten
  <2> QED
    BY <1>1, <2>2, RewriteKeeps
<1> QED
  BY <1>2, <1>3, <1>4

\* remove_member keeps the invariant.
LEMMA RemoveMemberKeeps == ASSUME IInv, RemoveMember PROVE IInv'
<1> DEFINE Path(l, value) == <<"list", l>>
           Ok(c, l, value) == value \in ToSet(c.members)
           New(d, l, value) == [d EXCEPT !.members = RemoveFirst(@, value)]
           Wished(d, l, value) == Meaning(d)
           Opened(w, l, value) == {c \in Content(w, Path(l, value)) : Owned(Path(l, value)) /\ Ok(c, l, value)}
           Outs(w, l, value) ==
               {Rewrite(w, "remove_member", Path(l, value), New(d, l, value), Wished(d, l, value)) : d \in Opened(w, l, value)}
<1>1. PICK l \in ListIds, value \in Values :
          Applied(Outs(Batch, l, value), Outs(Alone, l, value))
  BY DEF RemoveMember, Apply, Edits, Rewrite
<1> HIDE DEF Path, Ok, New, Wished
<1>2. /\ Opened(Alone, l, value) = Opened(Batch, l, value)
      /\ Opened(Batch, l, value) = {} \/ \E d : Opened(Batch, l, value) = {d}
  BY <1>1, SameReads, AboutOne DEF Applied
<1> HIDE DEF Opened
<1>3. CASE Opened(Batch, l, value) = {}
  <2>1. Outs(Batch, l, value) = {} /\ Outs(Alone, l, value) = {}
    BY <1>2, <1>3
  <2> QED
    BY <1>1, <2>1, RewriteKeeps DEF Rewritten
<1>4. ASSUME NEW d, Opened(Batch, l, value) = {d} PROVE IInv'
  <2>1. /\ Outs(Batch, l, value) = {Rewrite(Batch, "remove_member", Path(l, value), New(d, l, value), Wished(d, l, value))}
        /\ Outs(Alone, l, value) = {Rewrite(Alone, "remove_member", Path(l, value), New(d, l, value), Wished(d, l, value))}
    BY <1>2, <1>4
  <2> HIDE DEF Outs
  <2>2. Rewritten(Outs(Batch, l, value), Outs(Alone, l, value), "remove_member", Path(l, value))
    BY <2>1 DEF Rewritten
  <2> QED
    BY <1>1, <2>2, RewriteKeeps
<1> QED
  BY <1>2, <1>3, <1>4

\* add_rule keeps the invariant.
LEMMA AddRuleKeeps == ASSUME IInv, AddRule PROVE IInv'
<1> DEFINE Path(v, i, when, value) == <<"variable", v>>
           Ok(c, v, i, when, value) == when # "" /\ i <= Len(Parsed(c)) + 1
           New(d, v, i, when, value) == [d EXCEPT !.tables = Printed(
                           Reorder(MaxTablePosition(Parsed(d)), Parsed(d),
                                   InsertAt(Parsed(d), i, Table("rule", Rule(when, value), << >>))))]
           Wished(d, v, i, when, value) == InsertAt(Meaning(d), i, [fields |-> Rule(when, value), arms |-> << >>])
           Opened(w, v, i, when, value) == {c \in Content(w, Path(v, i, when, value)) : Owned(Path(v, i, when, value)) /\ Ok(c, v, i, when, value)}
           Outs(w, v, i, when, value) ==
               {Rewrite(w, "add_rule", Path(v, i, when, value), New(d, v, i, when, value), Wished(d, v, i, when, value)) : d \in Opened(w, v, i, when, value)}
<1>1. PICK v \in VariableIds, i \in 1..(MaxIndex + 1), when \in Values, value \in Values :
          Applied(Outs(Batch, v, i, when, value), Outs(Alone, v, i, when, value))
  BY DEF AddRule, Apply, EditsTables, Rewrite
<1> HIDE DEF Path, Ok, New, Wished
<1>2. /\ Opened(Alone, v, i, when, value) = Opened(Batch, v, i, when, value)
      /\ Opened(Batch, v, i, when, value) = {} \/ \E d : Opened(Batch, v, i, when, value) = {d}
  BY <1>1, SameReads, AboutOne DEF Applied
<1> HIDE DEF Opened
<1>3. CASE Opened(Batch, v, i, when, value) = {}
  <2>1. Outs(Batch, v, i, when, value) = {} /\ Outs(Alone, v, i, when, value) = {}
    BY <1>2, <1>3
  <2> QED
    BY <1>1, <2>1, RewriteKeeps DEF Rewritten
<1>4. ASSUME NEW d, Opened(Batch, v, i, when, value) = {d} PROVE IInv'
  <2>1. /\ Outs(Batch, v, i, when, value) = {Rewrite(Batch, "add_rule", Path(v, i, when, value), New(d, v, i, when, value), Wished(d, v, i, when, value))}
        /\ Outs(Alone, v, i, when, value) = {Rewrite(Alone, "add_rule", Path(v, i, when, value), New(d, v, i, when, value), Wished(d, v, i, when, value))}
    BY <1>2, <1>4
  <2> HIDE DEF Outs
  <2>2. Rewritten(Outs(Batch, v, i, when, value), Outs(Alone, v, i, when, value), "add_rule", Path(v, i, when, value))
    BY <2>1 DEF Rewritten
  <2> QED
    BY <1>1, <2>2, RewriteKeeps
<1> QED
  BY <1>2, <1>3, <1>4

\* remove_rule keeps the invariant.
LEMMA RemoveRuleKeeps == ASSUME IInv, RemoveRule PROVE IInv'
<1> DEFINE Path(v, i) == <<"variable", v>>
           Ok(c, v, i) == i <= Len(Parsed(c))
           New(d, v, i) == [d EXCEPT !.tables = Printed(RemoveAt(Parsed(d), i))]
           Wished(d, v, i) == RemoveAt(Meaning(d), i)
           Opened(w, v, i) == {c \in Content(w, Path(v, i)) : Owned(Path(v, i)) /\ Ok(c, v, i)}
           Outs(w, v, i) ==
               {Rewrite(w, "remove_rule", Path(v, i), New(d, v, i), Wished(d, v, i)) : d \in Opened(w, v, i)}
<1>1. PICK v \in VariableIds, i \in 1..MaxIndex :
          Applied(Outs(Batch, v, i), Outs(Alone, v, i))
  BY DEF RemoveRule, Apply, EditsTables, Rewrite
<1> HIDE DEF Path, Ok, New, Wished
<1>2. /\ Opened(Alone, v, i) = Opened(Batch, v, i)
      /\ Opened(Batch, v, i) = {} \/ \E d : Opened(Batch, v, i) = {d}
  BY <1>1, SameReads, AboutOne DEF Applied
<1> HIDE DEF Opened
<1>3. CASE Opened(Batch, v, i) = {}
  <2>1. Outs(Batch, v, i) = {} /\ Outs(Alone, v, i) = {}
    BY <1>2, <1>3
  <2> QED
    BY <1>1, <2>1, RewriteKeeps DEF Rewritten
<1>4. ASSUME NEW d, Opened(Batch, v, i) = {d} PROVE IInv'
  <2>1. /\ Outs(Batch, v, i) = {Rewrite(Batch, "remove_rule", Path(v, i), New(d, v, i), Wished(d, v, i))}
        /\ Outs(Alone, v, i) = {Rewrite(Alone, "remove_rule", Path(v, i), New(d, v, i), Wished(d, v, i))}
    BY <1>2, <1>4
  <2> HIDE DEF Outs
  <2>2. Rewritten(Outs(Batch, v, i), Outs(Alone, v, i), "remove_rule", Path(v, i))
    BY <2>1 DEF Rewritten
  <2> QED
    BY <1>1, <2>2, RewriteKeeps
<1> QED
  BY <1>2, <1>3, <1>4

\* move_rule keeps the invariant.
LEMMA MoveRuleKeeps == ASSUME IInv, MoveRule PROVE IInv'
<1> DEFINE Path(v, from, to) == <<"variable", v>>
           Ok(c, v, from, to) == from # to /\ from <= Len(Parsed(c)) /\ to <= Len(Parsed(c))
           New(d, v, from, to) == [d EXCEPT !.tables = Printed(
                           Reorder(MaxTablePosition(Parsed(d)), Parsed(d), InsertAt(RemoveAt(Parsed(d), from), to, Parsed(d)[from])))]
           Wished(d, v, from, to) == InsertAt(RemoveAt(Meaning(d), from), to, Meaning(d)[from])
           Opened(w, v, from, to) == {c \in Content(w, Path(v, from, to)) : Owned(Path(v, from, to)) /\ Ok(c, v, from, to)}
           Outs(w, v, from, to) ==
               {Rewrite(w, "move_rule", Path(v, from, to), New(d, v, from, to), Wished(d, v, from, to)) : d \in Opened(w, v, from, to)}
<1>1. PICK v \in VariableIds, from \in 1..MaxIndex, to \in 1..MaxIndex :
          Applied(Outs(Batch, v, from, to), Outs(Alone, v, from, to))
  BY DEF MoveRule, Apply, EditsTables, Rewrite
<1> HIDE DEF Path, Ok, New, Wished
<1>2. /\ Opened(Alone, v, from, to) = Opened(Batch, v, from, to)
      /\ Opened(Batch, v, from, to) = {} \/ \E d : Opened(Batch, v, from, to) = {d}
  BY <1>1, SameReads, AboutOne DEF Applied
<1> HIDE DEF Opened
<1>3. CASE Opened(Batch, v, from, to) = {}
  <2>1. Outs(Batch, v, from, to) = {} /\ Outs(Alone, v, from, to) = {}
    BY <1>2, <1>3
  <2> QED
    BY <1>1, <2>1, RewriteKeeps DEF Rewritten
<1>4. ASSUME NEW d, Opened(Batch, v, from, to) = {d} PROVE IInv'
  <2>1. /\ Outs(Batch, v, from, to) = {Rewrite(Batch, "move_rule", Path(v, from, to), New(d, v, from, to), Wished(d, v, from, to))}
        /\ Outs(Alone, v, from, to) = {Rewrite(Alone, "move_rule", Path(v, from, to), New(d, v, from, to), Wished(d, v, from, to))}
    BY <1>2, <1>4
  <2> HIDE DEF Outs
  <2>2. Rewritten(Outs(Batch, v, from, to), Outs(Alone, v, from, to), "move_rule", Path(v, from, to))
    BY <2>1 DEF Rewritten
  <2> QED
    BY <1>1, <2>2, RewriteKeeps
<1> QED
  BY <1>2, <1>3, <1>4

\* remove_allocation keeps the invariant.
LEMMA RemoveAllocationKeeps == ASSUME IInv, RemoveAllocation PROVE IInv'
<1> DEFINE Path(l, id) == <<"layer", l>>
           Ok(c, l, id) == IndexOf(Parsed(c), id) # 0
           New(d, l, id) == [d EXCEPT !.tables = Printed(RemoveAt(Parsed(d), IndexOf(Parsed(d), id)))]
           Wished(d, l, id) == RemoveAt(Meaning(d), IndexOf(Meaning(d), id))
           Opened(w, l, id) == {c \in Content(w, Path(l, id)) : Owned(Path(l, id)) /\ Ok(c, l, id)}
           Outs(w, l, id) ==
               {Rewrite(w, "remove_allocation", Path(l, id), New(d, l, id), Wished(d, l, id)) : d \in Opened(w, l, id)}
<1>1. PICK l \in LayerIds, id \in AllocationIds :
          Applied(Outs(Batch, l, id), Outs(Alone, l, id))
  BY DEF RemoveAllocation, Apply, EditsTables, Rewrite
<1> HIDE DEF Path, Ok, New, Wished
<1>2. /\ Opened(Alone, l, id) = Opened(Batch, l, id)
      /\ Opened(Batch, l, id) = {} \/ \E d : Opened(Batch, l, id) = {d}
  BY <1>1, SameReads, AboutOne DEF Applied
<1> HIDE DEF Opened
<1>3. CASE Opened(Batch, l, id) = {}
  <2>1. Outs(Batch, l, id) = {} /\ Outs(Alone, l, id) = {}
    BY <1>2, <1>3
  <2> QED
    BY <1>1, <2>1, RewriteKeeps DEF Rewritten
<1>4. ASSUME NEW d, Opened(Batch, l, id) = {d} PROVE IInv'
  <2>1. /\ Outs(Batch, l, id) = {Rewrite(Batch, "remove_allocation", Path(l, id), New(d, l, id), Wished(d, l, id))}
        /\ Outs(Alone, l, id) = {Rewrite(Alone, "remove_allocation", Path(l, id), New(d, l, id), Wished(d, l, id))}
    BY <1>2, <1>4
  <2> HIDE DEF Outs
  <2>2. Rewritten(Outs(Batch, l, id), Outs(Alone, l, id), "remove_allocation", Path(l, id))
    BY <2>1 DEF Rewritten
  <2> QED
    BY <1>1, <2>2, RewriteKeeps
<1> QED
  BY <1>2, <1>3, <1>4

\* set_allocation_status keeps the invariant.
LEMMA SetAllocationStatusKeeps == ASSUME IInv, SetAllocationStatus PROVE IInv'
<1> DEFINE Path(l, id, status) == <<"layer", l>>
           Ok(c, l, id, status) == status # "" /\ IndexOf(Parsed(c), id) # 0
           New(d, l, id, status) == [d EXCEPT !.tables = Printed([Parsed(d) EXCEPT ![IndexOf(Parsed(d), id)].fields = Set(@, "status", status)])]
           Wished(d, l, id, status) == [Meaning(d) EXCEPT ![IndexOf(Meaning(d), id)].fields = Set(@, "status", status)]
           Opened(w, l, id, status) == {c \in Content(w, Path(l, id, status)) : Owned(Path(l, id, status)) /\ Ok(c, l, id, status)}
           Outs(w, l, id, status) ==
               {Rewrite(w, "set_allocation_status", Path(l, id, status), New(d, l, id, status), Wished(d, l, id, status)) : d \in Opened(w, l, id, status)}
<1>1. PICK l \in LayerIds, id \in AllocationIds, status \in Values :
          Applied(Outs(Batch, l, id, status), Outs(Alone, l, id, status))
  BY DEF SetAllocationStatus, Apply, EditsTables, Rewrite
<1> HIDE DEF Path, Ok, New, Wished
<1>2. /\ Opened(Alone, l, id, status) = Opened(Batch, l, id, status)
      /\ Opened(Batch, l, id, status) = {} \/ \E d : Opened(Batch, l, id, status) = {d}
  BY <1>1, SameReads, AboutOne DEF Applied
<1> HIDE DEF Opened
<1>3. CASE Opened(Batch, l, id, status) = {}
  <2>1. Outs(Batch, l, id, status) = {} /\ Outs(Alone, l, id, status) = {}
    BY <1>2, <1>3
  <2> QED
    BY <1>1, <2>1, RewriteKeeps DEF Rewritten
<1>4. ASSUME NEW d, Opened(Batch, l, id, status) = {d} PROVE IInv'
  <2>1. /\ Outs(Batch, l, id, status) = {Rewrite(Batch, "set_allocation_status", Path(l, id, status), New(d, l, id, status), Wished(d, l, id, status))}
        /\ Outs(Alone, l, id, status) = {Rewrite(Alone, "set_allocation_status", Path(l, id, status), New(d, l, id, status), Wished(d, l, id, status))}
    BY <1>2, <1>4
  <2> HIDE DEF Outs
  <2>2. Rewritten(Outs(Batch, l, id, status), Outs(Alone, l, id, status), "set_allocation_status", Path(l, id, status))
    BY <2>1 DEF Rewritten
  <2> QED
    BY <1>1, <2>2, RewriteKeeps
<1> QED
  BY <1>2, <1>3, <1>4

\* set_allocation_eligibility keeps the invariant.
LEMMA SetAllocationEligibilityKeeps == ASSUME IInv, SetAllocationEligibility PROVE IInv'
<1> DEFINE Path(l, id, when) == <<"layer", l>>
           Ok(c, l, id, when) == when # {""} /\ IndexOf(Parsed(c), id) # 0
           New(d, l, id, when) == [d EXCEPT !.tables = Printed([Parsed(d) EXCEPT ![IndexOf(Parsed(d), id)].fields = SetOrRemoved(@, "eligibility", when)])]
           Wished(d, l, id, when) == [Meaning(d) EXCEPT ![IndexOf(Meaning(d), id)].fields = SetOrRemoved(@, "eligibility", when)]
           Opened(w, l, id, when) == {c \in Content(w, Path(l, id, when)) : Owned(Path(l, id, when)) /\ Ok(c, l, id, when)}
           Outs(w, l, id, when) ==
               {Rewrite(w, "set_allocation_eligibility", Path(l, id, when), New(d, l, id, when), Wished(d, l, id, when)) : d \in Opened(w, l, id, when)}
<1>1. PICK l \in LayerIds, id \in AllocationIds, when \in Optional(Values) :
          Applied(Outs(Batch, l, id, when), Outs(Alone, l, id, when))
  BY DEF SetAllocationEligibility, Apply, EditsTables, Rewrite
<1> HIDE DEF Path, Ok, New, Wished
<1>2. /\ Opened(Alone, l, id, when) = Opened(Batch, l, id, when)
      /\ Opened(Batch, l, id, when) = {} \/ \E d : Opened(Batch, l, id, when) = {d}
  BY <1>1, SameReads, AboutOne DEF Applied
<1> HIDE DEF Opened
<1>3. CASE Opened(Batch, l, id, when) = {}
  <2>1. Outs(Batch, l, id, when) = {} /\ Outs(Alone, l, id, when) = {}
    BY <1>2, <1>3
  <2> QED
    BY <1>1, <2>1, RewriteKeeps DEF Rewritten
<1>4. ASSUME NEW d, Opened(Batch, l, id, when) = {d} PROVE IInv'
  <2>1. /\ Outs(Batch, l, id, when) = {Rewrite(Batch, "set_allocation_eligibility", Path(l, id, when), New(d, l, id, when), Wished(d, l, id, when))}
        /\ Outs(Alone, l, id, when) = {Rewrite(Alone, "set_allocation_eligibility", Path(l, id, when), New(d, l, id, when), Wished(d, l, id, when))}
    BY <1>2, <1>4
  <2> HIDE DEF Outs
  <2>2. Rewritten(Outs(Batch, l, id, when), Outs(Alone, l, id, when), "set_allocation_eligibility", Path(l, id, when))
    BY <2>1 DEF Rewritten
  <2> QED
    BY <1>1, <2>2, RewriteKeeps
<1> QED
  BY <1>2, <1>3, <1>4

\* add_allocation keeps the invariant.
LEMMA AddAllocationKeeps == ASSUME IInv, AddAllocation PROVE IInv'
<1> DEFINE Path(l, id, status, arms) == <<"layer", l>>
           Ok(c, l, id, status, arms) == arms # << >> /\ IndexOf(Parsed(c), id) = 0
           New(d, l, id, status, arms) == [d EXCEPT !.tables = Printed(Added(Parsed(d), SetOrRemoved([id |-> id], "status", status), arms))]
           Wished(d, l, id, status, arms) == Append(Meaning(d), [fields |-> SetOrRemoved([id |-> id], "status", status), arms |-> arms])
           Opened(w, l, id, status, arms) == {c \in Content(w, Path(l, id, status, arms)) : Owned(Path(l, id, status, arms)) /\ Ok(c, l, id, status, arms)}
           Outs(w, l, id, status, arms) ==
               {Rewrite(w, "add_allocation", Path(l, id, status, arms), New(d, l, id, status, arms), Wished(d, l, id, status, arms)) : d \in Opened(w, l, id, status, arms)}
<1>1. PICK l \in LayerIds, id \in AllocationIds, status \in Optional(Values), arms \in SeqOf({Arm("a", "0-4"), Arm("b", "5-9")}, 2) :
          Applied(Outs(Batch, l, id, status, arms), Outs(Alone, l, id, status, arms))
  BY DEF AddAllocation, Apply, EditsTables, Rewrite
<1> HIDE DEF Path, Ok, New, Wished
<1>2. /\ Opened(Alone, l, id, status, arms) = Opened(Batch, l, id, status, arms)
      /\ Opened(Batch, l, id, status, arms) = {} \/ \E d : Opened(Batch, l, id, status, arms) = {d}
  BY <1>1, SameReads, AboutOne DEF Applied
<1> HIDE DEF Opened
<1>3. CASE Opened(Batch, l, id, status, arms) = {}
  <2>1. Outs(Batch, l, id, status, arms) = {} /\ Outs(Alone, l, id, status, arms) = {}
    BY <1>2, <1>3
  <2> QED
    BY <1>1, <2>1, RewriteKeeps DEF Rewritten
<1>4. ASSUME NEW d, Opened(Batch, l, id, status, arms) = {d} PROVE IInv'
  <2>1. /\ Outs(Batch, l, id, status, arms) = {Rewrite(Batch, "add_allocation", Path(l, id, status, arms), New(d, l, id, status, arms), Wished(d, l, id, status, arms))}
        /\ Outs(Alone, l, id, status, arms) = {Rewrite(Alone, "add_allocation", Path(l, id, status, arms), New(d, l, id, status, arms), Wished(d, l, id, status, arms))}
    BY <1>2, <1>4
  <2> HIDE DEF Outs
  <2>2. Rewritten(Outs(Batch, l, id, status, arms), Outs(Alone, l, id, status, arms), "add_allocation", Path(l, id, status, arms))
    BY <2>1 DEF Rewritten
  <2> QED
    BY <1>1, <2>2, RewriteKeeps
<1> QED
  BY <1>2, <1>3, <1>4

\* set_arm_buckets keeps the invariant.
LEMMA SetArmBucketsKeeps == ASSUME IInv, SetArmBuckets PROVE IInv'
<1> DEFINE Path(l, id, name, buckets) == <<"layer", l>>
           Ok(c, l, id, name, buckets) == buckets # "" /\ IndexOf(Parsed(c), id) # 0 /\ ArmOf(Parsed(c)[IndexOf(Parsed(c), id)].arms, name) # 0
           New(d, l, id, name, buckets) == [d EXCEPT !.tables = Printed(
               LET k == IndexOf(Parsed(d), id)
               IN  [Parsed(d) EXCEPT ![k].arms[ArmOf(Parsed(d)[k].arms, name)].fields = Set(@, "buckets", buckets)])]
           Wished(d, l, id, name, buckets) == 
               LET k == IndexOf(Meaning(d), id)
                   j == ArmMeant(Meaning(d)[k].arms, name)
               IN  [Meaning(d) EXCEPT ![k].arms[j] = Set(@, "buckets", buckets)]
           Opened(w, l, id, name, buckets) == {c \in Content(w, Path(l, id, name, buckets)) : Owned(Path(l, id, name, buckets)) /\ Ok(c, l, id, name, buckets)}
           Outs(w, l, id, name, buckets) ==
               {Rewrite(w, "set_arm_buckets", Path(l, id, name, buckets), New(d, l, id, name, buckets), Wished(d, l, id, name, buckets)) : d \in Opened(w, l, id, name, buckets)}
<1>1. PICK l \in LayerIds, id \in AllocationIds, name \in {"a", "b"}, buckets \in Values :
          Applied(Outs(Batch, l, id, name, buckets), Outs(Alone, l, id, name, buckets))
  BY DEF SetArmBuckets, Apply, EditsTables, Rewrite
<1> HIDE DEF Path, Ok, New, Wished
<1>2. /\ Opened(Alone, l, id, name, buckets) = Opened(Batch, l, id, name, buckets)
      /\ Opened(Batch, l, id, name, buckets) = {} \/ \E d : Opened(Batch, l, id, name, buckets) = {d}
  BY <1>1, SameReads, AboutOne DEF Applied
<1> HIDE DEF Opened
<1>3. CASE Opened(Batch, l, id, name, buckets) = {}
  <2>1. Outs(Batch, l, id, name, buckets) = {} /\ Outs(Alone, l, id, name, buckets) = {}
    BY <1>2, <1>3
  <2> QED
    BY <1>1, <2>1, RewriteKeeps DEF Rewritten
<1>4. ASSUME NEW d, Opened(Batch, l, id, name, buckets) = {d} PROVE IInv'
  <2>1. /\ Outs(Batch, l, id, name, buckets) = {Rewrite(Batch, "set_arm_buckets", Path(l, id, name, buckets), New(d, l, id, name, buckets), Wished(d, l, id, name, buckets))}
        /\ Outs(Alone, l, id, name, buckets) = {Rewrite(Alone, "set_arm_buckets", Path(l, id, name, buckets), New(d, l, id, name, buckets), Wished(d, l, id, name, buckets))}
    BY <1>2, <1>4
  <2> HIDE DEF Outs
  <2>2. Rewritten(Outs(Batch, l, id, name, buckets), Outs(Alone, l, id, name, buckets), "set_arm_buckets", Path(l, id, name, buckets))
    BY <2>1 DEF Rewritten
  <2> QED
    BY <1>1, <2>2, RewriteKeeps
<1> QED
  BY <1>2, <1>3, <1>4
\* update_rule keeps the invariant.
LEMMA UpdateRuleKeeps == ASSUME IInv, UpdateRule PROVE IInv'
<1> DEFINE Updated(fields, when, value) ==
               LET f == IF when = {} THEN fields ELSE SetOrRemoved(fields, "when", when)
               IN  IF value = {} THEN f ELSE SetOrRemoved(f, "value", value)
           Path(v, i, when, value) == <<"variable", v>>
           Ok(c, v, i, when, value) == when \cup value # {} /\ when # {""} /\ i <= Len(Parsed(c))
           New(d, v, i, when, value) == [d EXCEPT !.tables = Printed([Parsed(d) EXCEPT ![i].fields = Updated(@, when, value)])]
           Wished(d, v, i, when, value) == [Meaning(d) EXCEPT ![i].fields = Updated(@, when, value)]
           Opened(w, v, i, when, value) == {c \in Content(w, Path(v, i, when, value)) : Owned(Path(v, i, when, value)) /\ Ok(c, v, i, when, value)}
           Outs(w, v, i, when, value) ==
               {Rewrite(w, "update_rule", Path(v, i, when, value), New(d, v, i, when, value), Wished(d, v, i, when, value)) : d \in Opened(w, v, i, when, value)}
<1>1. PICK v \in VariableIds, i \in 1..MaxIndex, when \in Optional(Values), value \in Optional(Values) :
          Applied(Outs(Batch, v, i, when, value), Outs(Alone, v, i, when, value))
  BY DEF UpdateRule, Apply, EditsTables, Rewrite
<1> HIDE DEF Path, Ok, New, Wished
<1>2. /\ Opened(Alone, v, i, when, value) = Opened(Batch, v, i, when, value)
      /\ Opened(Batch, v, i, when, value) = {} \/ \E d : Opened(Batch, v, i, when, value) = {d}
  BY <1>1, SameReads, AboutOne DEF Applied
<1> HIDE DEF Opened
<1>3. CASE Opened(Batch, v, i, when, value) = {}
  <2>1. Outs(Batch, v, i, when, value) = {} /\ Outs(Alone, v, i, when, value) = {}
    BY <1>2, <1>3
  <2> QED
    BY <1>1, <2>1, RewriteKeeps DEF Rewritten
<1>4. ASSUME NEW d, Opened(Batch, v, i, when, value) = {d} PROVE IInv'
  <2>1. /\ Outs(Batch, v, i, when, value) = {Rewrite(Batch, "update_rule", Path(v, i, when, value), New(d, v, i, when, value), Wished(d, v, i, when, value))}
        /\ Outs(Alone, v, i, when, value) = {Rewrite(Alone, "update_rule", Path(v, i, when, value), New(d, v, i, when, value), Wished(d, v, i, when, value))}
    BY <1>2, <1>4
  <2> HIDE DEF Outs
  <2>2. Rewritten(Outs(Batch, v, i, when, value), Outs(Alone, v, i, when, value), "update_rule", Path(v, i, when, value))
    BY <2>1 DEF Rewritten
  <2> QED
    BY <1>1, <2>2, RewriteKeeps
<1> QED
  BY <1>2, <1>3, <1>4

\* An outcome about which nothing was asked.
LEMMA Unrequested ==
    ASSUME NEW w, NEW recs, NEW path, NEW tables
    PROVE  [Effect(w, recs, path, tables) EXCEPT !.requested.tables = << >>] = Effect(w, recs, path, << >>)
<1> DEFINE o == Effect(w, recs, path, tables)
<1>1. [[path |-> path, tables |-> tables] EXCEPT !.tables = << >>] = [path |-> path, tables |-> << >>]
  OBVIOUS
<1>2. o.requested = [path |-> path, tables |-> tables]
  BY DEF Effect
<1>3. [o EXCEPT !.requested.tables = << >>] = [o EXCEPT !.requested = [o.requested EXCEPT !.tables = << >>]]
  OBVIOUS
<1>4. [o EXCEPT !.requested = [path |-> path, tables |-> << >>]] = Effect(w, recs, path, << >>)
  BY DEF Effect
<1> QED
  BY <1>1, <1>2, <1>3, <1>4

\* set_query keeps the invariant.
LEMMA SetQueryKeeps == ASSUME IInv, SetQuery PROVE IInv'
<1> DEFINE Path(v, q) == <<"variable", v>>
           Ok(c, v, q) == 
               /\ "" \notin {q.from, q.filter}
               /\ q.order # {} => q.sort # {}
               /\ "method" \in DOMAIN c.fields => c.fields.method # "allocation"
           New(d, v, q) == 
               [d EXCEPT !.fields = SetOrRemoved(SetOrRemoved(
                             Set(Set(Set(@, "method", "query"), "from", q.from), "filter", q.filter),
                             "sort", q.sort), "order", q.order),
                         !.tables = << >>]
           Opened(w, v, q) == {c \in Content(w, Path(v, q)) : Owned(Path(v, q)) /\ Ok(c, v, q)}
           Outs(w, v, q) ==
               {[o EXCEPT !.requested.tables = << >>]
                   : o \in {Rewrite(w, "set_query", Path(v, q), New(d, v, q), Meaning(d)) : d \in Opened(w, v, q)}}
<1>1. PICK v \in VariableIds, q \in Queries :
          Applied(Outs(Batch, v, q), Outs(Alone, v, q))
  BY DEF SetQuery, Apply, Edits, Rewrite
<1> HIDE DEF Path, Ok, New
<1>2. /\ Opened(Alone, v, q) = Opened(Batch, v, q)
      /\ Opened(Batch, v, q) = {} \/ \E d : Opened(Batch, v, q) = {d}
  BY <1>1, SameReads, AboutOne DEF Applied
<1> HIDE DEF Opened
<1>3. CASE Opened(Batch, v, q) = {}
  <2>1. Outs(Batch, v, q) = {} /\ Outs(Alone, v, q) = {}
    BY <1>2, <1>3
  <2> QED
    BY <1>1, <2>1, RewriteKeeps DEF Rewritten
<1>4. ASSUME NEW d, Opened(Batch, v, q) = {d} PROVE IInv'
  <2>1. /\ Outs(Batch, v, q) = {Rewrite(Batch, "set_query", Path(v, q), New(d, v, q), << >>)}
        /\ Outs(Alone, v, q) = {Rewrite(Alone, "set_query", Path(v, q), New(d, v, q), << >>)}
    <3> DEFINE Outspoken(w) == Rewrite(w, "set_query", Path(v, q), New(d, v, q), Meaning(d))
               Unspoken(w) == Rewrite(w, "set_query", Path(v, q), New(d, v, q), << >>)
    <3>1. ASSUME NEW w PROVE [Outspoken(w) EXCEPT !.requested.tables = << >>] = Unspoken(w)
      BY Unrequested DEF Rewrite
    <3>2. /\ Outs(Batch, v, q) = {[Outspoken(Batch) EXCEPT !.requested.tables = << >>]}
          /\ Outs(Alone, v, q) = {[Outspoken(Alone) EXCEPT !.requested.tables = << >>]}
      BY <1>2, <1>4
    <3> QED
      BY <3>1, <3>2
  <2> HIDE DEF Outs
  <2>2. Rewritten(Outs(Batch, v, q), Outs(Alone, v, q), "set_query", Path(v, q))
    BY <2>1 DEF Rewritten
  <2> QED
    BY <1>1, <2>2, RewriteKeeps
<1> QED
  BY <1>2, <1>3, <1>4

\* create_variable keeps the invariant.
LEMMA CreateVariableKeeps == ASSUME IInv, CreateVariable PROVE IInv'
<1>1. PICK v \in VariableIds, type \in Values, default \in Values :
          Applied(IF type = "" THEN {}
                  ELSE Creates(Batch, "create_variable", <<"variable", v>>, Document([type |-> type, default |-> default], << >>)),
                  IF type = "" THEN {}
                  ELSE Creates(Alone, "create_variable", <<"variable", v>>, Document([type |-> type, default |-> default], << >>)))
  BY DEF CreateVariable, Apply
<1> QED
  BY <1>1, RefusalKeeps, CreatesKeeps

\* create_catalog keeps the invariant.
LEMMA CreateCatalogKeeps == ASSUME IInv, CreateCatalog PROVE IInv'
<1>1. PICK c \in CatalogIds, schema \in Values :
          Applied(Creates(Batch, "create_catalog", <<"catalog", c>>, Document([schema |-> schema], << >>)),
                  Creates(Alone, "create_catalog", <<"catalog", c>>, Document([schema |-> schema], << >>)))
  BY DEF CreateCatalog, Apply
<1> QED
  BY <1>1, CreatesKeeps

\* create_entry keeps the invariant.
LEMMA CreateEntryKeeps == ASSUME IInv, CreateEntry PROVE IInv'
<1>1. PICK c \in CatalogIds, k \in Keys, x \in Values :
          Applied(Creates(Batch, "create_entry", <<"catalog", c, k>>, Document([field |-> x], << >>)),
                  Creates(Alone, "create_entry", <<"catalog", c, k>>, Document([field |-> x], << >>)))
  BY DEF CreateEntry, Apply
<1> QED
  BY <1>1, CreatesKeeps

\* create_list keeps the invariant.
LEMMA CreateListKeeps == ASSUME IInv, CreateList PROVE IInv'
<1>1. PICK l \in ListIds, members \in SeqOf(Values, 2) :
          Applied(IF members = << >> \/ Cardinality(ToSet(members)) < Len(members) THEN {}
                  ELSE Creates(Batch, "create_list", <<"list", l>>, [Document([type |-> "string"], << >>) EXCEPT !.members = members]),
                  IF members = << >> \/ Cardinality(ToSet(members)) < Len(members) THEN {}
                  ELSE Creates(Alone, "create_list", <<"list", l>>, [Document([type |-> "string"], << >>) EXCEPT !.members = members]))
  BY DEF CreateList, Apply
<1> QED
  BY <1>1, RefusalKeeps, CreatesKeeps

\* create_layer keeps the invariant.
LEMMA CreateLayerKeeps == ASSUME IInv, CreateLayer PROVE IInv'
<1>1. PICK l \in LayerIds, unit \in Values :
          Applied(IF unit = "" THEN {}
                  ELSE Creates(Batch, "create_layer", <<"layer", l>>, Document([unit |-> unit, buckets |-> "10"], << >>)),
                  IF unit = "" THEN {}
                  ELSE Creates(Alone, "create_layer", <<"layer", l>>, Document([unit |-> unit, buckets |-> "10"], << >>)))
  BY DEF CreateLayer, Apply
<1> QED
  BY <1>1, RefusalKeeps, CreatesKeeps

\* create_sample keeps the invariant.
LEMMA CreateSampleKeeps == ASSUME IInv, CreateSample PROVE IInv'
<1>1. PICK x \in ContextIds, k \in Keys, facts \in Values :
          Applied(Creates(Batch, "create_sample", <<"context", x, k>>, Document([facts |-> facts], << >>)),
                  Creates(Alone, "create_sample", <<"context", x, k>>, Document([facts |-> facts], << >>)))
  BY DEF CreateSample, Apply
<1> QED
  BY <1>1, CreatesKeeps
\* A change over a change over edits is the one over the other, over the edits.
LEMMA OverOver == ASSUME NEW f, NEW g, NEW h PROVE Over(f, Over(g, h)) = Over(Over(f, g), h)
<1> DEFINE l == Over(f, Over(g, h))
           r == Over(Over(f, g), h)
<1>1. IsMap(l) /\ IsMap(r) /\ DOMAIN l = DOMAIN r
  <2>1. IsMap(l) /\ DOMAIN l = DOMAIN f \cup DOMAIN Over(g, h)
    BY ONLY Overlaid
  <2>2. IsMap(r) /\ DOMAIN r = DOMAIN Over(f, g) \cup DOMAIN h
    BY ONLY Overlaid
  <2>3. DOMAIN Over(g, h) = DOMAIN g \cup DOMAIN h /\ DOMAIN Over(f, g) = DOMAIN f \cup DOMAIN g
    BY ONLY Overlaid
  <2> QED
    BY ONLY <2>1, <2>2, <2>3
<1>2. ASSUME NEW x \in DOMAIN l PROVE l[x] = r[x]
  <2>1. CASE x \in DOMAIN f
    BY <2>1 DEF Over
  <2>2. CASE x \in DOMAIN g \ DOMAIN f
    BY <2>2 DEF Over
  <2>3. CASE x \in DOMAIN h \ (DOMAIN f \cup DOMAIN g)
    BY <2>3 DEF Over
  <2>4. DOMAIN l = DOMAIN f \cup DOMAIN g \cup DOMAIN h
    BY DEF Over
  <2> HIDE DEF l, r
  <2> QED
    BY <2>1, <2>2, <2>3, <2>4
<1> HIDE DEF l, r
<1> QED
  BY <1>1, <1>2 DEF IsMap, l, r

\* create_context keeps the invariant: the starter sample is written with the
\* schema, or is left as it is, in the batch and alone.
LEMMA CreateContextKeeps == ASSUME IInv, CreateContext PROVE IInv'
<1> DEFINE Path(x) == <<"context", x>>
           Sample(x) == <<"context", x, "default">>
           Schema(schema) == Document([schema |-> schema], << >>)
           Starter == Document(<< >>, << >>)
           Started(o, x) ==
               IF Exists(o.work, Sample(x)) THEN o
               ELSE Effect(WriteTo(o.work, Sample(x), Starter),
                            o.records \cup {Record("create_context", Sample(x))}, o.requested.path, o.requested.tables)
           Outs(w, x, schema) ==
               {Started(o, x) : o \in Creates(w, "create_context", Path(x), Schema(schema))}
<1>1. PICK x \in ContextIds, schema \in Values : Applied(Outs(Batch, x, schema), Outs(Alone, x, schema))
  BY DEF CreateContext, Apply
<1> HIDE DEF Starter, Schema
<1> DEFINE Allowed(w) == Owned(Path(x)) /\ ~Exists(w, Path(x))
           Earlier(w) ==
               Effect(WriteTo(w, Path(x), Schema(schema)), {Record("create_context", Path(x))},
                       Path(x), Meaning(Schema(schema)))
           Second(w) ==
               Effect(WriteTo(WriteTo(w, Path(x), Schema(schema)), Sample(x), Starter),
                       {Record("create_context", Path(x)), Record("create_context", Sample(x))},
                       Path(x), Meaning(Schema(schema)))
<1>2. phase = "applying" /\ \A p : Exists(Batch, p) <=> Exists(Alone, p)
  BY <1>1, SameReads DEF Applied, Exists
<1>3. ASSUME NEW w
      PROVE  Creates(w, "create_context", Path(x), Schema(schema)) = IF Allowed(w) THEN {Earlier(w)} ELSE {}
  <2>1. Len(Path(x)) # 3
    OBVIOUS
  <2> QED
    BY <2>1 DEF Creates
<1>4. ASSUME NEW w
      PROVE  Earlier(w).work = WriteTo(w, Path(x), Schema(schema)) /\ Earlier(w).records = {Record("create_context", Path(x))}
  BY DEF Effect
<1>5. ASSUME NEW w
      PROVE  Effect(WriteTo(Earlier(w).work, Sample(x), Starter),
                     Earlier(w).records \cup {Record("create_context", Sample(x))},
                     Earlier(w).requested.path, Earlier(w).requested.tables) = Second(w)
  <2>1. {Record("create_context", Path(x))} \cup {Record("create_context", Sample(x))}
           = {Record("create_context", Path(x)), Record("create_context", Sample(x))}
    OBVIOUS
  <2>2. Earlier(w).requested.path = Path(x) /\ Earlier(w).requested.tables = Meaning(Schema(schema))
    BY DEF Effect
  <2> QED
    BY <1>4, <2>1, <2>2
<1>6. Exists(Earlier(Batch).work, Sample(x)) <=> Exists(Earlier(Alone).work, Sample(x))
  <2> DEFINE change == [p \in {Path(x)} |-> {Schema(schema)}]
  <2>1. /\ IsChange(change) /\ DOMAIN change = {Path(x)}
        /\ WriteTo(Batch, Path(x), Schema(schema)) = [base |-> base, edits |-> Over(change, edits)]
        /\ WriteTo(Alone, Path(x), Schema(schema)) = [base |-> stepwise, edits |-> Over(change, << >>)]
    BY DEF IsChange, IsMap, WriteTo, Batch, Alone
  <2> HIDE DEF change
  <2>2. Sample(x) \notin DOMAIN change
    <3>1. Len(Sample(x)) # Len(Path(x))
      OBVIOUS
    <3> QED
      BY <2>1, <3>1
  <2>3. IsChange(edits)
    BY DEF IInv
  <2>4. Has(base, Over(change, edits), Sample(x)) = Has(base, edits, Sample(x))
    BY <2>1, <2>2, <2>3, ChangedOver
  <2>5. Has(stepwise, Over(change, << >>), Sample(x)) = Has(stepwise, << >>, Sample(x))
    BY <2>1, <2>2, NoChange, ChangedOver
  <2>6. Has(base, edits, Sample(x)) = Has(stepwise, << >>, Sample(x))
    BY <1>2, SameEverywhere
  <2> QED
    BY <1>4, <2>1, <2>4, <2>5, <2>6 DEF Exists, Has
<1> HIDE DEF Path, Sample, Earlier, Second
<1>7. CASE ~Allowed(Batch)
  <2>1. Outs(Batch, x, schema) = {} /\ Outs(Alone, x, schema) = {}
    BY <1>2, <1>3, <1>7
  <2> QED
    BY <1>1, <2>1, RefusalKeeps
<1>8. CASE Allowed(Batch) /\ Exists(Earlier(Batch).work, Sample(x))
  <2>1. Outs(Batch, x, schema) = {Earlier(Batch)} /\ Outs(Alone, x, schema) = {Earlier(Alone)}
    BY <1>2, <1>3, <1>6, <1>8
  <2> HIDE DEF Outs
  <2>2. Rewritten(Outs(Batch, x, schema), Outs(Alone, x, schema), "create_context", Path(x))
    BY <2>1 DEF Rewritten, Rewrite, Earlier
  <2> QED
    BY <1>1, <2>2, RewriteKeeps
<1>9. CASE Allowed(Batch) /\ ~Exists(Earlier(Batch).work, Sample(x))
  <2>1. Outs(Batch, x, schema) = {Second(Batch)} /\ Outs(Alone, x, schema) = {Second(Alone)}
    BY <1>2, <1>3, <1>5, <1>6, <1>9
  <2> DEFINE recs == {Record("create_context", Path(x)), Record("create_context", Sample(x))}
             lower == [p \in {Path(x)} |-> {Schema(schema)}]
             upper == [p \in {Sample(x)} |-> {Starter}]
             change == Over(upper, lower)
  <2>2. IsChange(lower) /\ IsChange(upper) /\ DOMAIN lower = {Path(x)} /\ DOMAIN upper = {Sample(x)}
    BY DEF IsChange, IsMap
  <2>3. ASSUME NEW w \in {Batch, Alone}
        PROVE  WriteTo(WriteTo(w, Path(x), Schema(schema)), Sample(x), Starter) = [w EXCEPT !.edits = Over(change, @)]
    <3>1. w = [base |-> w.base, edits |-> w.edits]
      BY DEF Batch, Alone
    <3>2. WriteTo(w, Path(x), Schema(schema)) = [base |-> w.base, edits |-> Over(lower, w.edits)]
      BY <3>1 DEF WriteTo
    <3>3. WriteTo(WriteTo(w, Path(x), Schema(schema)), Sample(x), Starter)
             = [base |-> w.base, edits |-> Over(upper, Over(lower, w.edits))]
      <4> DEFINE inner == Over(lower, w.edits)
      <4>1. WriteTo(w, Path(x), Schema(schema)) = [base |-> w.base, edits |-> inner]
        BY <3>2
      <4> HIDE DEF inner
      <4>2. WriteTo([base |-> w.base, edits |-> inner], Sample(x), Starter)
               = [base |-> w.base, edits |-> Over(upper, inner)]
        BY DEF WriteTo
      <4> QED
        BY <4>1, <4>2 DEF inner
    <3>4. [w EXCEPT !.edits = Over(change, @)] = [base |-> w.base, edits |-> Over(change, w.edits)]
      BY <3>1
    <3> QED
      BY <3>3, <3>4, OverOver
  <2> HIDE DEF lower, upper
  <2>4. IsChange(change) /\ DOMAIN change = {Path(x), Sample(x)}
    <3>1. IsChange(change)
      BY <2>2, OneChange
    <3>2. DOMAIN change = DOMAIN upper \cup DOMAIN lower
      BY Overlaid
    <3> QED
      BY <2>2, <3>1, <3>2
  <2> HIDE DEF change
  <2>5. \A p \in DOMAIN change : Names(recs, p)
    BY <2>4 DEF Names, Record
  <2>6. Applied({Effect([Batch EXCEPT !.edits = Over(change, @)], recs, Path(x), Meaning(Schema(schema)))},
                {Effect([Alone EXCEPT !.edits = Over(change, @)], recs, Path(x), Meaning(Schema(schema)))})
    BY <1>1, <2>1, <2>3 DEF Second
  <2> QED
    BY <2>4, <2>5, <2>6, ChangeKeeps
<1> QED
  BY <1>7, <1>8, <1>9
\* What is beneath an entity is an entity of it, or a stray whose front is the
\* entity.
LEMMA BeneathIsNamed ==
    ASSUME EditsAssumption, NEW path, NEW p, Beneath(path, p), p[3] \in Strays,
           \/ \E kind, x : path = <<kind, x>>
           \/ \E kind, x : \E k \in Keys : path = <<kind, x, k>>
    PROVE  p[Len(p)] \in Strays /\ Front(p) = path
<1>1. Len(p) = Len(path) + 1 /\ SubSeq(path, 1, Len(path)) = SubSeq(p, 1, Len(path))
  BY DEF Beneath, IsStrictPrefix, IsPrefix
<1>2. ASSUME NEW kind, NEW x, path = <<kind, x>> PROVE p[Len(p)] \in Strays /\ Front(p) = path
  <2>0. path \in Seq({kind, x}) /\ Len(path) = 2
    BY <1>2
  <2>1. SubSeq(path, 1, 2) = path
    BY <2>0, SubSeqFull
  <2>2. Len(p) = 3 /\ Front(p) = SubSeq(p, 1, 2)
    BY <1>1, <2>0 DEF Front
  <2> QED
    BY <1>1, <2>0, <2>1, <2>2
<1>3. ASSUME NEW kind, NEW x, NEW k \in Keys, path = <<kind, x, k>> PROVE FALSE
  <2>0. path \in Seq({kind, x, k}) /\ Len(path) = 3 /\ path[3] = k
    BY <1>3
  <2>1. SubSeq(path, 1, 3) = path
    BY <2>0, SubSeqFull
  <2>2. SubSeq(p, 1, 3) = path
    BY <1>1, <2>0, <2>1
  <2>3. SubSeq(p, 1, 3)[3] = p[3]
    BY <2>2
  <2> QED
    BY <2>0, <2>2, <2>3 DEF EditsAssumption
<1> QED
  BY <1>2, <1>3
\* delete keeps the invariant: with the entity goes what is beneath it, the same
\* files in the batch and alone.
LEMMA DeleteEntityKeeps == ASSUME EditsAssumption, IInv, DeleteEntity PROVE IInv'
<1> DEFINE Entities == ({"variable"} \X VariableIds) \cup ({"list"} \X ListIds) \cup ({"layer"} \X LayerIds)
                       \cup ({"catalog"} \X CatalogIds) \cup ({"context"} \X ContextIds)
                       \cup ({"catalog"} \X CatalogIds \X Keys) \cup ({"context"} \X ContextIds \X Keys)
           Recorded(w, path) == {path} \cup {p \in PathsUnder(w, path) : p[3] \notin Strays}
           Gone(w, path) ==
               Effect(Delete(w, {path} \cup PathsUnder(w, path)),
                       {Record("delete", p) : p \in Recorded(w, path)}, path, << >>)
           Outs(w, path) ==
               IF Owned(path) /\ \A p \in Recorded(w, path) : Exists(w, p) THEN {Gone(w, path)} ELSE {}
<1>1. PICK path \in Entities : Applied(Outs(Batch, path), Outs(Alone, path))
  BY DEF DeleteEntity, Apply
<1>2. \/ \E kind, x : path = <<kind, x>>
      \/ \E kind, x : \E k \in Keys : path = <<kind, x, k>>
  OBVIOUS
<1> HIDE DEF Entities
<1>3. phase = "applying"
  BY <1>1 DEF Applied
<1>4. PathsUnder(Batch, path) = PathsUnder(Alone, path) /\ \A p : Exists(Batch, p) <=> Exists(Alone, p)
  BY <1>3, SameReads DEF Exists
<1> DEFINE under == PathsUnder(Batch, path)
           entities == {path} \cup {p \in under : p[3] \notin Strays}
           recs == {Record("delete", p) : p \in entities}
           change == [p \in {path} \cup under |-> {}]
<1>5. Recorded(Batch, path) = entities /\ Recorded(Alone, path) = entities
  BY <1>4
<1>6. /\ Gone(Batch, path) = Effect(Delete(Batch, {path} \cup under), recs, path, << >>)
      /\ Gone(Alone, path) = Effect(Delete(Alone, {path} \cup under), recs, path, << >>)
  BY <1>4, <1>5
<1>7. /\ Delete(Batch, {path} \cup under) = [Batch EXCEPT !.edits = Over(change, @)]
      /\ Delete(Alone, {path} \cup under) = [Alone EXCEPT !.edits = Over(change, @)]
  BY DEF Delete
<1>8. IsChange(change) /\ DOMAIN change = {path} \cup under
  BY DEF IsChange, IsMap
<1>9. ASSUME NEW p \in DOMAIN change PROVE Names(recs, p)
  <2>1. CASE p \in entities
    <3>1. Record("delete", p) \in recs /\ Record("delete", p).address = p
      BY <2>1 DEF Record
    <3> QED
      BY <3>1 DEF Names
  <2>2. CASE p \notin entities
    <3>1. p \in under /\ p[3] \in Strays
      BY <1>8, <2>2
    <3>2. Beneath(path, p)
      BY <3>1 DEF PathsUnder
    <3>3. p[Len(p)] \in Strays /\ Front(p) = path
      BY <1>2, <3>1, <3>2, BeneathIsNamed
    <3>4. [op |-> "delete", address |-> path] \in recs
      BY DEF Record
    <3> QED
      BY <3>3, <3>4 DEF Names
  <2> QED
    BY <2>1, <2>2
<1>10. (Owned(path) /\ \A p \in Recorded(Batch, path) : Exists(Batch, p))
          <=> (Owned(path) /\ \A p \in Recorded(Alone, path) : Exists(Alone, p))
  BY <1>4, <1>5
<1> HIDE DEF Recorded, Gone, under, entities, recs, change
<1>11. CASE Owned(path) /\ \A p \in Recorded(Batch, path) : Exists(Batch, p)
  <2>1. Outs(Batch, path) = {Gone(Batch, path)} /\ Outs(Alone, path) = {Gone(Alone, path)}
    BY <1>10, <1>11
  <2> HIDE DEF Outs
  <2>2. Applied({Effect([Batch EXCEPT !.edits = Over(change, @)], recs, path, << >>)},
                {Effect([Alone EXCEPT !.edits = Over(change, @)], recs, path, << >>)})
    BY <1>1, <1>6, <1>7, <2>1
  <2> QED
    BY <1>8, <1>9, <2>2, ChangeKeeps
<1>12. CASE ~(Owned(path) /\ \A p \in Recorded(Batch, path) : Exists(Batch, p))
  <2>1. Outs(Batch, path) = {} /\ Outs(Alone, path) = {}
    BY <1>10, <1>12
  <2> QED
    BY <1>1, <2>1, RefusalKeeps
<1> QED
  BY <1>11, <1>12

-----------------------------------------------------------------------------
(* The plan, and its way into the directory.                                *)

\* The plan of a batch writes into the snapshot what its operations, one by one,
\* have left.
LEMMA PlanKeeps == ASSUME IInv, Plan PROVE IInv'
<1>1. /\ phase = "applying" /\ phase' = "writing" /\ edits' = << >>
      /\ plan' = IntoPlan([base |-> base, edits |-> edits])
      /\ UNCHANGED <<base, records, tree, stepwise, aloneRefused>>
  BY DEF Plan, Batch
<1>2. /\ IsMap(base) /\ IsMap(stepwise) /\ IsMap(tree) /\ IsChange(edits) /\ tree = base
      /\ \A p \in DOMAIN edits : Names(records, p)
      /\ ~aloneRefused
  BY <1>1 DEF IInv, Unplanned
<1>3. /\ IsMap(plan'.writes)
      /\ \A p : p \in DOMAIN plan'.writes => p \in DOMAIN edits /\ edits[p] # {}
      /\ \A p : p \in plan'.deletes => p \in DOMAIN edits /\ edits[p] = {}
  <2>1. IsChange(edits)
    BY <1>2
  <2> QED
    BY <1>1, <2>1, Plans
<1>4. stepwise = CarriedOut(base, plan')
  <2> DEFINE t == CarriedOut(base, IntoPlan([base |-> base, edits |-> edits]))
  <2>1. IsMap(t) /\ \A p : Has(t, << >>, p) = Has(base, edits, p)
    BY <1>2, WrittenHas
  <2>2. \A p : Has(base, edits, p) = Has(stepwise, << >>, p)
    BY <1>1, SameEverywhere
  <2> HIDE DEF t
  <2>3. \A p : Has(stepwise, << >>, p) = Has(t, << >>, p)
    BY <2>1, <2>2
  <2>4. stepwise = t
    BY <1>2, <2>1, <2>3, SameDirectory
  <2> QED
    BY <1>1, <2>4 DEF t
<1>5. Planned'
  BY <1>1, <1>2, <1>3, <1>4 DEF Planned, NothingLostHalfWay
<1>6. DOMAIN edits' = {} /\ IsChange(edits')
  BY <1>1, NoChange
<1>7. \A p \in DOMAIN edits' \cup DOMAIN plan'.writes \cup plan'.deletes : Names(records', p)
  BY <1>1, <1>2, <1>3, <1>6 DEF Names
<1> QED
  BY <1>1, <1>2, <1>5, <1>6, <1>7 DEF IInv

\* While the plan is under way, the directory is between the snapshot and it.
LEMMA WriteFileKeeps == ASSUME IInv, WriteFile PROVE IInv'
<1>1. PICK p \in Unwritten : tree' = Over([q \in {p} |-> plan.writes[p]], tree)
  BY DEF WriteFile
<1>2. phase = "writing" /\ UNCHANGED <<base, edits, records, phase, plan, stepwise, aloneRefused>>
  BY DEF WriteFile
<1>3. Planned /\ p \in DOMAIN plan.writes
  BY <1>1, <1>2 DEF IInv, Unwritten
<1>4. /\ IsMap(tree') /\ DOMAIN tree' = DOMAIN tree \cup {p} /\ tree'[p] = plan.writes[p]
      /\ \A q \in DOMAIN tree \ {p} : tree'[q] = tree[q]
  BY <1>1 DEF Over, IsMap
<1>5. Unwritten # {}
  BY <1>1
<1>6. DOMAIN base \subseteq DOMAIN tree
  BY <1>3, <1>5 DEF Planned, NothingLostHalfWay
<1>7. Planned'
  BY <1>2, <1>3, <1>4, <1>6 DEF Planned, NothingLostHalfWay
<1> QED
  BY <1>2, <1>4, <1>7 DEF IInv, IsMap, IsChange, Names

\* A file is removed only when all the new content is there, and stays there.
LEMMA RemoveFileKeeps == ASSUME IInv, RemoveFile PROVE IInv'
<1>1. PICK p \in Undeleted : tree' = [q \in DOMAIN tree \ {p} |-> tree[q]]
  BY DEF RemoveFile
<1>2. /\ phase = "writing" /\ Unwritten = {}
      /\ UNCHANGED <<base, edits, records, phase, plan, stepwise, aloneRefused>>
  BY DEF RemoveFile
<1>3. Planned /\ p \in plan.deletes
  BY <1>1, <1>2 DEF IInv, Undeleted
<1>4. /\ IsMap(tree') /\ DOMAIN tree' = DOMAIN tree \ {p}
      /\ \A q \in DOMAIN tree' : tree'[q] = tree[q]
  BY <1>1 DEF IsMap
<1>5. p \notin DOMAIN plan.writes
  BY <1>3 DEF Planned
<1>6. Unwritten' = {}
  BY <1>2, <1>4, <1>5 DEF Unwritten
<1>7. Planned'
  BY <1>2, <1>3, <1>4, <1>6 DEF Planned, NothingLostHalfWay
<1> QED
  BY <1>2, <1>4, <1>7 DEF IInv, IsMap, IsChange, Names

\* A plan that stops leaves the directory as it is.
LEMMA WriteFailsKeeps == ASSUME IInv, WriteFails PROVE IInv'
<1>1. phase = "writing" /\ phase' = "stopped" /\ UNCHANGED <<base, edits, records, plan, tree, stepwise, aloneRefused>>
  BY DEF WriteFails
<1>2. Planned /\ Planned'
  BY <1>1 DEF IInv, Planned, NothingLostHalfWay, Unwritten
<1> QED
  BY <1>1, <1>2 DEF IInv, IsMap, IsChange, Names

\* A plan that is done has left what the operations have, one by one.
LEMMA WriteEndsKeeps == ASSUME IInv, WriteEnds PROVE IInv'
<1>1. /\ phase = "writing" /\ phase' = "written" /\ Unwritten = {} /\ Undeleted = {}
      /\ UNCHANGED <<base, edits, records, plan, tree, stepwise, aloneRefused>>
  BY DEF WriteEnds
<1>2. Planned /\ Planned'
  BY <1>1 DEF IInv, Planned, NothingLostHalfWay, Unwritten
<1>3. tree = stepwise
  <2> DEFINE t == CarriedOut(base, plan)
  <2>1. /\ IsMap(t) /\ DOMAIN t = (DOMAIN base \cup DOMAIN plan.writes) \ plan.deletes
        /\ \A p \in DOMAIN t : t[p] = IF p \in DOMAIN plan.writes THEN plan.writes[p] ELSE base[p]
    BY DEF CarriedOut, IsMap
  <2> HIDE DEF t
  <2>2. \A p \in DOMAIN plan.writes : p \in DOMAIN tree /\ tree[p] = plan.writes[p]
    BY <1>1 DEF Unwritten
  <2>3. \A p \in plan.deletes : p \notin DOMAIN tree
    BY <1>1 DEF Undeleted
  <2>4. DOMAIN t = DOMAIN tree
    BY <1>2, <2>1, <2>2, <2>3 DEF Planned
  <2>5. \A p \in DOMAIN t : t[p] = tree[p]
    BY <1>2, <2>1, <2>2, <2>4 DEF Planned
  <2>6. IsMap(tree) /\ stepwise = t
    BY <1>2 DEF IInv, Planned, t
  <2> QED
    BY <2>1, <2>4, <2>5, <2>6 DEF IsMap
<1> QED
  BY <1>1, <1>2, <1>3 DEF IInv, IsMap, IsChange, Names

-----------------------------------------------------------------------------
(* The theorems.                                                            *)

\* The invariant holds of every batch.
THEOREM Invariance == ASSUME EditsAssumption PROVE Spec => []IInv
<1>1. Init => IInv
  <2> SUFFICES ASSUME Init PROVE IInv
    OBVIOUS
  <2>1. /\ IsMap(base) /\ tree = base /\ stepwise = base /\ edits = << >> /\ phase = "applying" /\ ~aloneRefused
        /\ plan = [writes |-> << >>, deletes |-> {}]
    BY DEF Init, EditsAssumption
  <2>2. IsChange(edits) /\ DOMAIN edits = {} /\ DOMAIN plan.writes = {} /\ plan.deletes = {}
    BY <2>1, NoChange
  <2>3. Unplanned /\ SameFiles
    BY <2>1 DEF Unplanned, SameFiles
  <2> QED
    BY <2>1, <2>2, <2>3 DEF IInv
<1>2. IInv /\ [Next]_vars => IInv'
  <2> SUFFICES ASSUME IInv, [Next]_vars PROVE IInv'
    OBVIOUS
  <2>1. CASE UNCHANGED vars
    BY <2>1 DEF vars, IInv, IsMap, IsChange, Unplanned, SameFiles, Has, Planned, NothingLostHalfWay, Unwritten, Names
  <2>2. CASE \/ CreateVariable \/ CreateCatalog \/ CreateEntry \/ CreateList \/ CreateContext \/ CreateLayer
             \/ CreateSample \/ ReplaceSample \/ DeleteEntity
    BY <2>2, CreateVariableKeeps, CreateCatalogKeeps, CreateEntryKeeps, CreateListKeeps, CreateContextKeeps,
       CreateLayerKeeps, CreateSampleKeeps, ReplaceSampleKeeps, DeleteEntityKeeps
  <2>3. CASE \/ SetDescription \/ SetType \/ SetDefault \/ SetQuery \/ ClearQuery \/ SetField \/ UnsetField
             \/ AddMember \/ RemoveMember
    BY <2>3, SetDescriptionKeeps, SetTypeKeeps, SetDefaultKeeps, SetQueryKeeps, ClearQueryKeeps, SetFieldKeeps,
       UnsetFieldKeeps, AddMemberKeeps, RemoveMemberKeeps
  <2>4. CASE \/ AddRule \/ UpdateRule \/ RemoveRule \/ MoveRule
             \/ AddAllocation \/ RemoveAllocation \/ SetAllocationStatus \/ SetAllocationEligibility \/ SetArmBuckets
    BY <2>4, AddRuleKeeps, UpdateRuleKeeps, RemoveRuleKeeps, MoveRuleKeeps, AddAllocationKeeps,
       RemoveAllocationKeeps, SetAllocationStatusKeeps, SetAllocationEligibilityKeeps, SetArmBucketsKeeps
  <2>5. CASE Plan \/ WriteFile \/ RemoveFile \/ WriteFails \/ WriteEnds
    BY <2>5, PlanKeeps, WriteFileKeeps, RemoveFileKeeps, WriteFailsKeeps, WriteEndsKeeps
  <2> QED
    BY <2>1, <2>2, <2>3, <2>4, <2>5 DEF Next
<1> QED
  BY <1>1, <1>2, PTL DEF Spec

\* A batch means its operations one by one.
THEOREM OneByOne == ASSUME EditsAssumption PROVE Spec => []BatchMeansOneByOne
<1>1. IInv => BatchMeansOneByOne
  BY NoChange DEF IInv, BatchMeansOneByOne, Planned, Unplanned, NothingLostHalfWay
<1> QED
  BY <1>1, Invariance, PTL

\* The records name every file that the plan touches.
THEOREM RecordsAreComplete == ASSUME EditsAssumption PROVE Spec => []RecordsNameThePlan
<1>1. IInv => RecordsNameThePlan
  BY DEF IInv, RecordsNameThePlan, Names
<1> QED
  BY <1>1, Invariance, PTL
=============================================================================
