----------------------------- MODULE Accounts_proofs -----------------------------
(***************************************************************************)
(* Theorems about Decisions and Accounts, for any trees, packages, accounts, *)
(* groups, browsers and handlers, any policy of enrolment and any offers.    *)
(***************************************************************************)
EXTENDS Accounts, TLAPS

\* Principals are numbered from one.
PrincipalsAssumption == \E n \in Nat : Principals = 1..n

\* They are made one after the other.
Numbered == \E k \in Nat : Known = 1..k

\* What a handler carries across an await is still there, among the principals
\* known and the trees t.
Carried(job, known, t) ==
    /\ job.op \in {"signin", "link"} => job.browser \in Browsers
    /\ job.op = "status" => job.whom \in known
    /\ job.op = "changeSet" => job.tree \in Trees /\ t[job.tree] # "unknown"

IInv ==
    /\ TypeOK /\ Numbered
    /\ trees \in [Trees -> {"unknown", "active", "deregistered"}]
    /\ task = [r \in Requests |-> task[r]]
    /\ \A r \in Requests : Carried(task[r], Known, trees)
    /\ \A i \in invitations : {"id", "redeemedBy"} \subseteq DOMAIN i

-----------------------------------------------------------------------------
(* Decisions.                                                               *)

\* Whoever holds more may do whatever she could, except that approving her own
\* change is refused once a grant, and not GitHub, is what would allow it.
THEOREM MoreGrantsMoreAllowed ==
    ASSUME NEW held, NEW more, held \subseteq more,
           NEW action, NEW resource, NEW contributed, NEW facts,
           Decide(held, action, resource, contributed, facts),
           ~(contributed /\ action = "approve")
    PROVE  Decide(more, action, resource, contributed, facts)
<1>1. GrantsAllow(held, action, resource) => GrantsAllow(more, action, resource)
  BY DEF GrantsAllow
<1>2. DerivedView(held, action, resource) => DerivedView(more, action, resource)
  BY DEF DerivedView
<1> QED
  BY <1>1, <1>2 DEF Decide

\* No step that leaves somebody with more grants takes anything from her.
THEOREM GrantsAllowMore == Spec => GrantsOnlyAllow
<1> DEFINE More(p) == LET held == GrantsFor(p) more == GrantsFor(p)' IN
              held # more /\ held \subseteq more =>
                  \A action \in Verbs, resource \in Resources, facts \in Facts :
                      Decide(held, action, resource, FALSE, facts) =>
                          Decide(more, action, resource, FALSE, facts)
<1>1. \A held, more : held \subseteq more =>
         \A action, resource, facts :
             Decide(held, action, resource, FALSE, facts) =>
                 Decide(more, action, resource, FALSE, facts)
  BY MoreGrantsMoreAllowed
<1>2. [Next]_vars => [\A p \in Known : More(p)]_<<grants, members>>
  BY <1>1
<1> QED
  BY <1>2, PTL DEF Spec, GrantsOnlyAllow

-----------------------------------------------------------------------------
(* Handlers.                                                                *)

\* The principals there are, the groups and the trees stay there.
Stays ==
    /\ Known \subseteq Known'
    /\ \A t \in Trees : trees[t] # "unknown" => trees'[t] # "unknown"

\* A handler that begins or ends with a job that is carried leaves the others.
LEMMA HandlersKeep ==
    ASSUME IInv, Stays, NEW r, NEW job, task' = [task EXCEPT ![r] = job],
           Carried(job, Known', trees')
    PROVE  /\ task' = [s \in Requests |-> task'[s]]
           /\ \A s \in Requests : Carried(task'[s], Known', trees')
<1>1. DOMAIN task = Requests
  BY DEF IInv
<1>2. \A s \in Requests : task'[s] = task[s] \/ task'[s] = job
  BY <1>1
<1>3. task' = [s \in Requests |-> task'[s]]
  BY <1>1
<1>4. \A s \in Requests : Carried(task[s], Known', trees')
  BY DEF IInv, Stays, Carried
<1> QED
  BY <1>2, <1>3, <1>4

\* Nothing is carried by an idle handler.
LEMMA IdleCarries == \A known, t : Carried(Idle, known, t)
BY DEF Idle, Carried

Lettered == \A i \in invitations : {"id", "redeemedBy"} \subseteq DOMAIN i

\* A step of a handler, or of none, from what it leaves of the rows.
LEMMA StepKeeps ==
    ASSUME IInv, Stays, TypeOK', Numbered', Lettered',
           trees' \in [Trees -> {"unknown", "active", "deregistered"}],
           \/ task' = task
           \/ \E r, job : task' = [task EXCEPT ![r] = job] /\ Carried(job, Known', trees')
    PROVE  IInv'
<1>1. CASE task' = task
  <2>1. \A s \in Requests : Carried(task[s], Known', trees')
    BY DEF IInv, Stays, Carried
  <2> QED
    BY <1>1, <2>1 DEF IInv, Lettered
<1>2. CASE \E r, job : task' = [task EXCEPT ![r] = job] /\ Carried(job, Known', trees')
  <2>1. /\ task' = [s \in Requests |-> task'[s]]
        /\ \A s \in Requests : Carried(task'[s], Known', trees')
    BY <1>2, HandlersKeep
  <2> QED
    BY <2>1 DEF IInv, Lettered
<1> QED
  BY <1>1, <1>2

\* Steps that leave the rows alone, but for grants and invitations.
LEMMA RowsStay ==
    ASSUME IInv, UNCHANGED <<people, groups, members, places>>
    PROVE  /\ Stays /\ TypeOK' /\ Numbered'
           /\ trees' \in [Trees -> {"unknown", "active", "deregistered"}]
BY DEF IInv, Stays, TypeOK, Numbered, Known, Living, people, places

\* A handler that begins and awaits.
LEMMA ArriveKeeps ==
    ASSUME IInv, NEW r \in Requests, NEW b \in Browsers, Arrive(r, b)
    PROVE  IInv'
<1>1. ASSUME NEW job, Begin(r, job), Carried(job, Known, trees)
      PROVE  IInv'
  <2>1. /\ UNCHANGED <<people, groups, members, places>> /\ invitations' = invitations
        /\ task' = [task EXCEPT ![r] = job]
    BY <1>1 DEF Begin, access, letters
  <2>2. Known' = Known /\ trees' = trees /\ Lettered'
    BY <2>1 DEF Known, people, places, IInv, Lettered
  <2> QED
    BY <1>1, <2>1, <2>2, RowsStay, StepKeeps
<1>2. ASSUME NEW intent \in {"signin", "link"}, NEW token, BeginFlow(r, b, intent, token)
      PROVE  IInv'
  BY <1>1, <1>2 DEF BeginFlow, Carried
<1>3. ASSUME NEW p, AskStatus(r, b, p) PROVE IInv'
  BY <1>1, <1>3 DEF AskStatus, Carried
<1>4. CASE AskGroup(r, b) \/ AskGrant(r, b) \/ AskInvitation(r, b) \/ AskRegister(r, b)
  BY <1>1, <1>4 DEF AskGroup, AskGrant, AskInvitation, AskRegister, Carried
<1>5. ASSUME NEW g, AskRename(r, b, g) \/ AskMember(r, b, g) \/ AskRevoke(r, b, g) PROVE IInv'
  BY <1>1, <1>5 DEF AskRename, AskMember, AskRevoke, Carried
<1>6. ASSUME NEW t \in Trees, AskChangeSet(r, b, t) PROVE IInv'
  BY <1>1, <1>6 DEF AskChangeSet, Carried
<1> QED
  BY <1>2, <1>3, <1>4, <1>5, <1>6 DEF Arrive

\* Handlers that give up, or change grants and invitations only.
LEMMA LettersKeep ==
    ASSUME IInv,
           \/ \E r \in Requests :
                \/ GiveUp(r) \/ CreateGrant(r) \/ RevokeLater(r)
                \/ \E grantee \in Grantees, wish \in Asked : ReadGrant(r, grantee, wish)
                \/ \E offer \in Offers : CreateInvitation(r, offer)
           \/ \E b \in Browsers :
                \/ \E g \in grants : RevokeGrant(b, g)
                \/ \E i \in invitations : RevokeInvitation(b, i)
           \/ \E i \in invitations : Expire(i)
    PROVE  IInv'
<1>1. UNCHANGED <<people, groups, members, places>>
  BY DEF GiveUp, CreateGrant, RevokeLater, ReadGrant, CreateInvitation, RevokeGrant,
     RevokeInvitation, Expire, access
<1>2. Lettered'
  <2>1. CASE \E i \in invitations : Expire(i)
    BY <2>1 DEF Expire, IInv, Lettered
  <2>2. CASE \E r \in Requests, offer \in Offers : CreateInvitation(r, offer)
    BY <2>2 DEF CreateInvitation, IInv, Lettered
  <2>3. CASE invitations' \subseteq invitations
    BY <2>3 DEF IInv, Lettered
  <2>4. CASE \E b \in Browsers, i \in invitations : RevokeInvitation(b, i)
    BY <2>3, <2>4 DEF RevokeInvitation
  <2> QED
    BY <2>1, <2>2, <2>3, <2>4 DEF GiveUp, CreateGrant, RevokeLater, ReadGrant, RevokeGrant,
       letters
<1>3. \/ task' = task
      \/ \E r, job : task' = [task EXCEPT ![r] = job] /\ Carried(job, Known', trees')
  <2>1. ASSUME NEW r, End(r)
        PROVE  \E s, job : task' = [task EXCEPT ![s] = job] /\ Carried(job, Known', trees')
    BY <2>1, IdleCarries DEF End
  <2>2. ASSUME NEW r, NEW new, task' = [task EXCEPT ![r] = [op |-> "granting", new |-> new]]
        PROVE  \E s, job : task' = [task EXCEPT ![s] = job] /\ Carried(job, Known', trees')
    <3>1. Carried([op |-> "granting", new |-> new], Known', trees')
      BY DEF Carried
    <3> QED
      BY <2>2, <3>1
  <2> QED
    BY <2>1, <2>2 DEF GiveUp, CreateGrant, RevokeLater, ReadGrant, CreateInvitation, RevokeGrant,
       RevokeInvitation, Expire, Still
<1> QED
  BY <1>1, <1>2, <1>3, RowsStay, StepKeeps

\* Groups and their members.
LEMMA GroupsKeep ==
    ASSUME IInv,
           \/ \E r \in Requests :
                \/ \E g \in Groups, name \in Names : CreateGroup(r, g, name)
                \/ \E name \in Names : UpdateGroup(r, name)
                \/ \E p \in Principals, remove \in BOOLEAN : Member(r, p, remove)
           \/ \E b \in Browsers, g \in Groups : DeleteGroup(b, g)
    PROVE  IInv'
<1>1. UNCHANGED <<people, places, letters>>
  BY DEF CreateGroup, UpdateGroup, Member, DeleteGroup
<1>2. Known' = Known /\ trees' = trees /\ invitations' = invitations
  BY <1>1 DEF people, places, letters, Known
<1>3. \/ task' = task
      \/ \E r, job : task' = [task EXCEPT ![r] = job] /\ Carried(job, Known', trees')
  BY IdleCarries DEF CreateGroup, UpdateGroup, Member, DeleteGroup, End, Still
<1>4. /\ groups' \in [Groups -> Names \cup {Unmade, Deleted}]
      /\ members' \subseteq Living' \X Known
  <2>0. groups \in [Groups -> Names \cup {Unmade, Deleted}] /\ members \subseteq Living \X Known
    BY DEF IInv, TypeOK
  <2>1. ASSUME NEW r, NEW g \in Groups, NEW name \in Names, CreateGroup(r, g, name)
        PROVE  /\ groups' \in [Groups -> Names \cup {Unmade, Deleted}]
               /\ members' \subseteq Living' \X Known
    <3>1. groups' = [groups EXCEPT ![g] = name] /\ members' = members
      BY <2>1 DEF CreateGroup
    <3>2. Living \subseteq Living'
      BY <2>0, <3>1 DEF Living
    <3> QED
      BY <2>0, <3>1, <3>2
  <2>2. ASSUME NEW r, NEW name \in Names, UpdateGroup(r, name)
        PROVE  /\ groups' \in [Groups -> Names \cup {Unmade, Deleted}]
               /\ members' \subseteq Living' \X Known
    <3> DEFINE g == task[r].group
    <3>1. /\ groups' = [groups EXCEPT ![g] = IF g \in Living THEN name ELSE @]
          /\ members' = members
      BY <2>2 DEF UpdateGroup
    <3> HIDE DEF g
    <3>2. Living \subseteq Living' /\ groups' \in [Groups -> Names \cup {Unmade, Deleted}]
      BY <2>0, <3>1 DEF Living
    <3> QED
      BY <2>0, <3>1, <3>2
  <2>3. ASSUME NEW r, NEW p, NEW remove, Member(r, p, remove)
        PROVE  /\ groups' \in [Groups -> Names \cup {Unmade, Deleted}]
               /\ members' \subseteq Living' \X Known
    <3>1. groups' = groups /\ Living' = Living /\ p \in Known
      BY <2>3 DEF Member, Living
    <3>2. \/ members' \subseteq members
          \/ task[r].group \in Living /\ members' = members \cup {<<task[r].group, p>>}
      BY <2>3 DEF Member
    <3> QED
      BY <2>0, <3>1, <3>2
  <2>4. ASSUME NEW b, NEW g \in Groups, DeleteGroup(b, g)
        PROVE  /\ groups' \in [Groups -> Names \cup {Unmade, Deleted}]
               /\ members' \subseteq Living' \X Known
    <3>1. groups' = [groups EXCEPT ![g] = Deleted] /\ members' = {m \in members : m[1] # g}
      BY <2>4 DEF DeleteGroup
    <3>2. Living \ {g} \subseteq Living' /\ groups' \in [Groups -> Names \cup {Unmade, Deleted}]
      BY <2>0, <3>1 DEF Living
    <3>3. \A m \in members' : m \in Living' \X Known
      BY <2>0, <3>1, <3>2
    <3> QED
      BY <3>2, <3>3
  <2> QED
    BY <2>1, <2>2, <2>3, <2>4
<1>5. TypeOK' /\ Numbered' /\ Lettered' /\ Stays
  BY <1>1, <1>2, <1>4 DEF IInv, TypeOK, Numbered, Lettered, Stays, people, places
<1> QED
  BY <1>2, <1>3, <1>5, StepKeeps DEF IInv

\* Source trees and their change sets.
LEMMA TreesKeep ==
    ASSUME IInv,
           \/ \E r \in Requests : CreateChangeSet(r) \/ \E t \in Trees : Register(r, t)
           \/ \E b \in Browsers, t \in Trees : Deregister(b, t)
           \/ \E t \in Trees : CloseChangeSets(t)
    PROVE  IInv'
<1>1. UNCHANGED <<people, access, letters>>
  BY DEF CreateChangeSet, Register, Deregister, CloseChangeSets
<1>2. Known' = Known /\ Living' = Living /\ invitations' = invitations
  BY <1>1 DEF people, access, letters, Known, Living
<1>3. /\ trees' \in [Trees -> {"unknown", "active", "deregistered"}]
      /\ \A t \in Trees : trees[t] # "unknown" => trees'[t] # "unknown"
  BY DEF CreateChangeSet, Register, Deregister, CloseChangeSets, IInv
<1>4. open' \subseteq {t \in Trees : trees'[t] # "unknown"}
  <2>1. \A t \in open : t \in Trees /\ trees'[t] # "unknown"
    BY <1>3 DEF IInv, TypeOK
  <2>2. ASSUME NEW r \in Requests, CreateChangeSet(r)
        PROVE  task[r].tree \in Trees /\ trees'[task[r].tree] # "unknown"
    BY <1>3, <2>2 DEF CreateChangeSet, At, IInv, Carried
  <2> QED
    BY <2>1, <2>2 DEF CreateChangeSet, Register, Deregister, CloseChangeSets
<1>5. \/ task' = task
      \/ \E r, job : task' = [task EXCEPT ![r] = job] /\ Carried(job, Known', trees')
  BY IdleCarries DEF CreateChangeSet, Register, Deregister, CloseChangeSets, End, Still
<1>6. TypeOK' /\ Numbered' /\ Lettered' /\ Stays
  BY <1>1, <1>2, <1>3, <1>4 DEF IInv, TypeOK, Numbered, Lettered, Stays, people, access
<1> QED
  BY <1>3, <1>5, <1>6, StepKeeps

\* An account that moves to another principal, or is detached from one.
LEMMA LinkKeeps ==
    ASSUME IInv,
           \/ \E r \in Requests, a \in Accounts : Link(r, a)
           \/ \E b \in Browsers, a \in Accounts : Unlink(b, a)
    PROVE  IInv'
<1>1. UNCHANGED <<status, session, access, letters, places>>
  BY DEF Link, Unlink
<1>2. /\ Known' = Known /\ Living' = Living /\ invitations' = invitations
      /\ trees' = trees /\ session' = session
  BY <1>1 DEF access, letters, places, Known, Living
<1>3. /\ holder' \in [Accounts -> Known \cup {Nobody}]
      /\ \A p \in Known : \E a \in Accounts : holder'[a] = p
  <2>0. /\ holder \in [Accounts -> Known \cup {Nobody}]
        /\ \A p \in Known : \E a \in Accounts : holder[a] = p
        /\ session \in [Browsers -> Known \cup {Nobody}]
    BY DEF IInv, TypeOK
  <2>1. ASSUME NEW r \in Requests, NEW a \in Accounts, Link(r, a)
        PROVE  /\ holder' \in [Accounts -> Known \cup {Nobody}]
               /\ \A p \in Known : \E s \in Accounts : holder'[s] = p
    <3>1. task[r].browser \in Browsers
      BY <2>1 DEF Link, At, IInv, Carried
    <3>2. PICK p \in Known : holder[a] \in {p, Nobody} /\ holder' = [holder EXCEPT ![a] = p]
      BY <2>0, <2>1, <3>1 DEF Link
    <3>3. Nobody \notin Known
      BY DEF IInv, Numbered, Nobody
    <3>4. \A s \in Accounts : holder[s] \in Known => holder'[s] = holder[s]
      BY <2>0, <3>2, <3>3
    <3> QED
      BY <2>0, <3>2, <3>4
  <2>2. ASSUME NEW b \in Browsers, NEW a \in Accounts, Unlink(b, a)
        PROVE  /\ holder' \in [Accounts -> Known \cup {Nobody}]
               /\ \A p \in Known : \E s \in Accounts : holder'[s] = p
    <3>1. holder' = [holder EXCEPT ![a] = Nobody]
      BY <2>2 DEF Unlink
    <3>2. PICK o \in Accounts \ {a} : holder[o] = holder[a]
      BY <2>2 DEF Unlink, Unlinkable
    <3>3. ASSUME NEW p \in Known PROVE \E s \in Accounts : holder'[s] = p
      <4>1. PICK s \in Accounts : holder[s] = p
        BY <2>0
      <4>2. CASE s = a
        BY <2>0, <3>1, <3>2, <4>1, <4>2
      <4>3. CASE s # a
        BY <2>0, <3>1, <4>1, <4>3
      <4> QED
        BY <4>2, <4>3
    <3> QED
      BY <2>0, <3>1, <3>3
  <2> QED
    BY <2>1, <2>2
<1>4. TypeOK' /\ Numbered' /\ Lettered' /\ Stays
  BY <1>1, <1>2, <1>3 DEF IInv, TypeOK, Numbered, Lettered, Stays, access, places
<1>5. \/ task' = task
      \/ \E r, job : task' = [task EXCEPT ![r] = job] /\ Carried(job, Known', trees')
  BY IdleCarries DEF Link, Unlink, End, Still
<1> QED
  BY <1>2, <1>4, <1>5, StepKeeps DEF IInv

\* Sessions that begin and end, and principals who are disabled.
LEMMA SessionsKeep ==
    ASSUME IInv,
           \/ \E r \in Requests :
                \/ \E a \in Accounts : SignIn(r, a)
                \/ \E to \in {"active", "disabled"} : SetStatus(r, to)
           \/ \E b \in Browsers : EndSession(b)
    PROVE  IInv'
<1>0. /\ status \in [Principals -> {"none", "active", "disabled"}]
      /\ holder \in [Accounts -> Known \cup {Nobody}]
      /\ session \in [Browsers -> Known \cup {Nobody}]
  BY DEF IInv, TypeOK
<1>1. UNCHANGED <<holder, groups, members, letters, places>>
  BY DEF SignIn, SetStatus, EndSession, access
<1>2. /\ status' \in [Principals -> {"none", "active", "disabled"}]
      /\ Known' = Known
      /\ session' \in [Browsers -> Known \cup {Nobody}]
  <2>1. ASSUME NEW r, NEW a \in Accounts, SignIn(r, a)
        PROVE  status' = status /\ session' \in [Browsers -> Known \cup {Nobody}]
    BY <1>0, <2>1 DEF SignIn
  <2>2. ASSUME NEW b, EndSession(b)
        PROVE  status' = status /\ session' \in [Browsers -> Known \cup {Nobody}]
    BY <1>0, <2>2 DEF EndSession
  <2>3. ASSUME NEW r \in Requests, NEW to \in {"active", "disabled"}, SetStatus(r, to)
        PROVE  /\ status' \in [Principals -> {"none", "active", "disabled"}]
               /\ Known' = Known
               /\ session' \in [Browsers -> Known \cup {Nobody}]
    <3>1. PICK p \in Known : status' = [status EXCEPT ![p] = to]
      BY <2>3 DEF SetStatus, At, IInv, Carried
    <3>2. Known' = Known /\ status' \in [Principals -> {"none", "active", "disabled"}]
      BY <1>0, <3>1 DEF Known
    <3> QED
      BY <1>0, <2>3, <3>2 DEF SetStatus
  <2>4. status' = status => Known' = Known
    BY DEF Known
  <2> QED
    BY <1>0, <2>1, <2>2, <2>3, <2>4
<1>3. Living' = Living /\ invitations' = invitations /\ trees' = trees
  BY <1>1 DEF Living, letters, places
<1>4. TypeOK' /\ Numbered' /\ Lettered' /\ Stays
  BY <1>1, <1>2, <1>3 DEF IInv, TypeOK, Numbered, Lettered, Stays, places
<1>5. \/ task' = task
      \/ \E r, job : task' = [task EXCEPT ![r] = job] /\ Carried(job, Known', trees')
  BY IdleCarries DEF SignIn, SetStatus, EndSession, End, Still
<1> QED
  BY <1>3, <1>4, <1>5, StepKeeps DEF IInv

\* The principal who is made is the one after the last.
LEMMA NextPrincipal ==
    ASSUME PrincipalsAssumption, Numbered, Known # Principals
    PROVE  LET p == CHOOSE q \in Principals :
                       status[q] = "none" /\ \A o \in 1..(q - 1) : o \in Known
           IN  p \in Principals \ Known /\ \E k \in Nat : Known = 1..k /\ p = k + 1
<1>1. PICK n \in Nat : Principals = 1..n
  BY DEF PrincipalsAssumption
<1>2. PICK k \in Nat : Known = 1..k
  BY DEF Numbered
<1>3. Known \subseteq Principals
  BY DEF Known
<1>4. k < n
  BY <1>1, <1>2, <1>3
<1> DEFINE P(q) == status[q] = "none" /\ \A o \in 1..(q - 1) : o \in Known
<1>5. P(k + 1) /\ k + 1 \in Principals
  BY <1>1, <1>2, <1>4 DEF Known
<1> DEFINE p == CHOOSE q \in Principals : P(q)
<1>6. p \in Principals /\ P(p)
  BY <1>5
<1> HIDE DEF p
<1>7. p \notin Known
  BY <1>6 DEF Known
<1>8. p = k + 1
  <2>1. p \in 1..n /\ ~(p \in 1..k)
    BY <1>1, <1>2, <1>6, <1>7
  <2>2. p > k + 1 => k + 1 \in 1..(p - 1)
    BY <2>1
  <2>3. ~(p > k + 1)
    BY <1>2, <1>6, <2>1, <2>2
  <2> QED
    BY <2>1, <2>3
<1>9. p \in Principals \ Known /\ \E j \in Nat : Known = 1..j /\ p = j + 1
  BY <1>2, <1>6, <1>7, <1>8
<1> QED
  BY <1>9 DEF p

\* What an enrolment writes, for the principal p it makes.
Enrols(r, a, p) ==
    /\ \E k \in Nat : Known = 1..k /\ p = k + 1
    /\ holder[a] = Nobody
    /\ \/ InvitationFor(a, task[r].token) # {} \/ a \in Admins \/ Enrollment = "open"
       \/ Enrollment = "domain-allowlist" /\ a \in Allowlisted
    /\ status' = [status EXCEPT ![p] = "active"]
    /\ holder' = [holder EXCEPT ![a] = p]
    /\ invitations' = {IF i \in InvitationFor(a, task[r].token) /\ i.redeemedBy = Nobody
                        THEN [i EXCEPT !.redeemedBy = p] ELSE i : i \in invitations}
    /\ session' = [session EXCEPT ![task[r].browser] = p]
    /\ \E offered \in SUBSET Living : members' = members \cup {<<g, p>> : g \in offered}
    /\ UNCHANGED <<groups, places>>
    /\ task' = [task EXCEPT ![r] = Idle]

\* An enrolment makes the principal after the last.
LEMMA Enrolled ==
    ASSUME PrincipalsAssumption, IInv, NEW r \in Requests, NEW a \in Accounts, Enroll(r, a)
    PROVE  \E p \in Principals \ Known : Enrols(r, a, p)
<1> DEFINE p == CHOOSE q \in Principals :
                   status[q] = "none" /\ \A o \in 1..(q - 1) : o \in Known
           offered == Living \cap UNION {i.groups : i \in InvitationFor(a, task[r].token)}
<1>1. Known # Principals
  BY DEF Enroll
<1>2. p \in Principals \ Known /\ \E k \in Nat : Known = 1..k /\ p = k + 1
  BY <1>1, NextPrincipal DEF IInv
<1>3. /\ holder[a] = Nobody
      /\ \/ InvitationFor(a, task[r].token) # {} \/ a \in Admins \/ Enrollment = "open"
         \/ Enrollment = "domain-allowlist" /\ a \in Allowlisted
      /\ status' = [status EXCEPT ![p] = "active"]
      /\ holder' = [holder EXCEPT ![a] = p]
      /\ invitations' = {IF i \in InvitationFor(a, task[r].token) /\ i.redeemedBy = Nobody
                          THEN [i EXCEPT !.redeemedBy = p] ELSE i : i \in invitations}
      /\ session' = [session EXCEPT ![task[r].browser] = p]
      /\ members' = members \cup {<<g, p>> : g \in offered}
      /\ UNCHANGED <<groups, places>>
      /\ task' = [task EXCEPT ![r] = Idle]
  BY ZenonT(30) DEF Enroll, End
<1>4. offered \in SUBSET Living
  OBVIOUS
<1> HIDE DEF p, offered
<1> QED
  BY <1>2, <1>3, <1>4 DEF Enrols

\* An account that is enrolled.
LEMMA EnrollKeeps ==
    ASSUME PrincipalsAssumption, IInv, NEW r \in Requests, NEW a \in Accounts, Enroll(r, a)
    PROVE  IInv'
<1> PICK p \in Principals \ Known : Enrols(r, a, p)
  BY Enrolled
<1> USE DEF Enrols
<1>0. TypeOK /\ Nobody \notin Known /\ p # Nobody
  BY DEF IInv, Numbered, Nobody
<1>1. /\ status' \in [Principals -> {"none", "active", "disabled"}]
      /\ Known' = Known \cup {p}
  BY <1>0 DEF TypeOK, Known
<1>2. Numbered'
  BY <1>1 DEF Numbered
<1>3. /\ holder' \in [Accounts -> Known' \cup {Nobody}]
      /\ \A o \in Known' : \E s \in Accounts : holder'[s] = o
  <2>1. ASSUME NEW o \in Known PROVE \E s \in Accounts : holder'[s] = o
    <3>1. PICK s \in Accounts : holder[s] = o
      BY <1>0 DEF TypeOK
    <3> QED
      BY <1>0, <3>1 DEF TypeOK
  <2> QED
    BY <1>0, <1>1, <2>1 DEF TypeOK
<1>4. session' \in [Browsers -> Known' \cup {Nobody}]
  BY <1>0, <1>1 DEF TypeOK
<1>5. Living' = Living
  BY DEF Living
<1>6. members' \subseteq Living' \X Known'
  BY <1>0, <1>1, <1>5 DEF TypeOK
<1>7. trees' = trees /\ open' = open
  BY DEF places
<1>8. TypeOK' /\ Stays
  BY <1>0, <1>1, <1>3, <1>4, <1>5, <1>6, <1>7 DEF TypeOK, Stays
<1>9. Lettered'
  BY DEF Lettered, IInv
<1>10. \E s, job : task' = [task EXCEPT ![s] = job] /\ Carried(job, Known', trees')
  BY IdleCarries
<1> QED
  BY <1>2, <1>7, <1>8, <1>9, <1>10, StepKeeps DEF IInv

-----------------------------------------------------------------------------
(* The invariant.                                                           *)

\* The tables begin empty.
LEMMA InitInvariant == ASSUME PrincipalsAssumption, Init PROVE IInv
<1>1. Known = {}
  BY DEF Init, Known
<1>2. Known = 1..0
  BY <1>1
<1>3. Numbered
  BY <1>2 DEF Numbered
<1>4. TypeOK
  BY <1>1 DEF Init, TypeOK
<1>5. \A r \in Requests : Carried(task[r], Known, trees)
  BY IdleCarries DEF Init
<1> QED
  BY <1>3, <1>4, <1>5 DEF Init, IInv

\* Every step keeps it.
LEMMA NextInvariant == ASSUME PrincipalsAssumption, IInv, [Next]_vars PROVE IInv'
<1>1. CASE UNCHANGED vars
  <2>1. UNCHANGED <<status, holder, session, groups, members, invitations, trees, open, task>>
    BY <1>1 DEF vars, people, access, letters, places
  <2>2. Known' = Known /\ Living' = Living
    BY <2>1 DEF Known, Living
  <2> QED
    BY <2>1, <2>2 DEF IInv, TypeOK, Numbered
<1>2. ASSUME NEW r \in Requests, Resume(r) PROVE IInv'
  BY <1>2, LinkKeeps, SessionsKeep, EnrollKeeps, GroupsKeep, LettersKeep, TreesKeep DEF Resume
<1>3. ASSUME NEW b \in Browsers, AtOnce(b) PROVE IInv'
  BY <1>3, LinkKeeps, SessionsKeep, GroupsKeep, LettersKeep, TreesKeep DEF AtOnce
<1> QED
  BY <1>1, <1>2, <1>3, ArriveKeeps, LettersKeep, TreesKeep DEF Next

\* The rows and what the handlers carry agree.
THEOREM Invariance == ASSUME PrincipalsAssumption PROVE Spec => []IInv
<1>1. Init => IInv
  BY InitInvariant
<1>2. IInv /\ [Next]_vars => IInv'
  BY NextInvariant
<1> QED
  BY <1>1, <1>2, PTL DEF Spec

\* Every principal keeps an account to sign in with, and the rows that name
\* others name rows that are there (store.ts, routes/admin.ts).
THEOREM TypeCorrect == ASSUME PrincipalsAssumption PROVE Spec => []TypeOK
<1>1. IInv => TypeOK
  BY DEF IInv
<1> QED
  BY <1>1, Invariance, PTL

-----------------------------------------------------------------------------
(* Access.                                                                  *)

\* Deleting a group takes no grant from anybody, since no grant names it, and
\* to be enrolled without a grant gives none to who was there.
LEMMA HeldStays ==
    ASSUME PrincipalsAssumption, IInv, Next,
           groups' # groups \/ trees' # trees \/ (holder' # holder /\ grants' = grants),
           NEW q \in Known
    PROVE  status'[q] = status[q] /\ GrantsFor(q)' = GrantsFor(q)
<1> DEFINE Held == status'[q] = status[q] /\ GrantsFor(q)' = GrantsFor(q)
<1>1. ASSUME UNCHANGED <<status, members, grants>> PROVE Held
  BY <1>1 DEF GrantsFor
<1>2. ASSUME UNCHANGED <<groups, trees, holder>> PROVE FALSE
  BY <1>2
<1>3. ASSUME NEW r \in Requests, Resume(r) PROVE Held
  <2>1. ASSUME NEW a \in Accounts, Link(r, a) PROVE Held
    BY <1>1, <2>1 DEF Link, access
  <2>2. ASSUME NEW a \in Accounts, SignIn(r, a) PROVE Held
    BY <1>2, <2>2 DEF SignIn, places
  <2>3. ASSUME NEW a \in Accounts, Enroll(r, a) PROVE Held
    <3>1. PICK p \in Principals \ Known : Enrols(r, a, p)
      BY <2>3, Enrolled
    <3> USE DEF Enrols
    <3>2. grants' = grants /\ p # q
      BY <3>1 DEF places
    <3>3. status'[q] = status[q]
      BY <3>1, <3>2 DEF IInv, TypeOK
    <3>4. \A g \in grants : <<g.grantee, q>> \in members' <=> <<g.grantee, q>> \in members
      BY <3>1, <3>2
    <3> QED
      BY <3>2, <3>3, <3>4 DEF GrantsFor
  <2>4. ASSUME NEW to, SetStatus(r, to) PROVE Held
    BY <1>2, <2>4 DEF SetStatus, access, places
  <2>5. ASSUME NEW g, NEW name, CreateGroup(r, g, name) \/ UpdateGroup(r, name) PROVE Held
    BY <1>1, <2>5 DEF CreateGroup, UpdateGroup, people
  <2>6. ASSUME NEW p, NEW remove, Member(r, p, remove) PROVE Held
    BY <1>2, <2>6 DEF Member, people, places
  <2>7. ASSUME NEW grantee, NEW wish,
               ReadGrant(r, grantee, wish) \/ CreateGrant(r) \/ RevokeLater(r) PROVE Held
    BY <1>2, <2>7 DEF ReadGrant, CreateGrant, RevokeLater, people, places
  <2>8. ASSUME NEW offer, CreateInvitation(r, offer) \/ GiveUp(r) \/ CreateChangeSet(r) PROVE Held
    BY <1>2, <2>8 DEF CreateInvitation, GiveUp, CreateChangeSet, people, access, places
  <2>9. ASSUME NEW t, Register(r, t) PROVE Held
    BY <1>1, <2>9 DEF Register, people, access
  <2> QED
    BY <1>3, <2>1, <2>2, <2>3, <2>4, <2>5, <2>6, <2>7, <2>8, <2>9 DEF Resume
<1>4. ASSUME NEW r, NEW b, Arrive(r, b) PROVE Held
  <2>1. ASSUME NEW job, Begin(r, job) PROVE Held
    BY <1>2, <2>1 DEF Begin, people, access, places
  <2> QED
    BY <1>4, <2>1 DEF Arrive, BeginFlow, AskStatus, AskGroup, AskGrant, AskInvitation,
       AskRegister, AskRename, AskMember, AskRevoke, AskChangeSet
<1>5. ASSUME NEW b \in Browsers, AtOnce(b) PROVE Held
  <2>1. ASSUME EndSession(b) PROVE Held
    BY <1>2, <2>1 DEF EndSession, access, places
  <2>2. ASSUME NEW a, Unlink(b, a) PROVE Held
    BY <1>1, <2>2 DEF Unlink, access
  <2>3. ASSUME NEW g \in Groups, DeleteGroup(b, g) PROVE Held
    <3>1. /\ status' = status /\ grants' = grants
          /\ members' = {m \in members : m[1] # g}
          /\ \A x \in grants : x.grantee # g
      BY <2>3 DEF DeleteGroup, Deletable, people
    <3>2. \A x \in grants : <<x.grantee, q>> \in members' <=> <<x.grantee, q>> \in members
      BY <3>1
    <3> QED
      BY <3>1, <3>2 DEF GrantsFor
  <2>4. ASSUME NEW g, RevokeGrant(b, g) PROVE Held
    BY <1>2, <2>4 DEF RevokeGrant, people, places
  <2>5. ASSUME NEW i, RevokeInvitation(b, i) PROVE Held
    BY <1>2, <2>5 DEF RevokeInvitation, people, access, places
  <2>6. ASSUME NEW t, Deregister(b, t) PROVE Held
    BY <1>1, <2>6 DEF Deregister, people, access
  <2> QED
    BY <1>5, <2>1, <2>2, <2>3, <2>4, <2>5, <2>6 DEF AtOnce
<1>6. ASSUME NEW i, Expire(i) PROVE Held
  BY <1>2, <1>6 DEF Expire, people, access, places
<1>7. ASSUME NEW t, CloseChangeSets(t) PROVE Held
  BY <1>2, <1>7 DEF CloseChangeSets, people, access
<1> QED
  BY <1>3, <1>4, <1>5, <1>6, <1>7 DEF Next

\* Groups, names, identities, invitations and source trees come and go without
\* anybody's access changing (routes/admin.ts:219-220).
THEOREM AccessNeedsAGrant == ASSUME PrincipalsAssumption PROVE Spec => AccessByGrantsOnly
<1> DEFINE Same ==
      groups' # groups \/ trees' # trees \/ (holder' # holder /\ grants' = grants) =>
          \A p \in Known : Access(p)' = Access(p)
<1>1. ASSUME NEW q, status'[q] = status[q], GrantsFor(q)' = GrantsFor(q)
      PROVE  Access(q)' = Access(q)
  BY <1>1 DEF Access, Granted
<1>2. IInv /\ Next => Same
  BY <1>1, HeldStays
<1> HIDE DEF Same
<1>3. IInv /\ [Next]_vars => [Same]_vars
  BY <1>2
<1> QED
  BY <1>3, Invariance, PTL DEF Spec, AccessByGrantsOnly, Same

\* An invitation that was redeemed stays on record as who redeemed it.
LEMMA RedeemedStays ==
    ASSUME PrincipalsAssumption, IInv, Next, NEW i \in invitations, i.redeemedBy # Nobody
    PROVE  \E j \in invitations' : j.id = i.id /\ j.redeemedBy = i.redeemedBy
<1>1. CASE i \in invitations'
  BY <1>1
<1>2. CASE \E r \in Requests, a \in Accounts : Enroll(r, a)
  <2>1. PICK r \in Requests, a \in Accounts : Enroll(r, a)
    BY <1>2
  <2>2. PICK p : Enrols(r, a, p)
    BY <2>1, Enrolled
  <2>3. i \in invitations'
    BY <2>2 DEF Enrols
  <2> QED
    BY <2>3
<1>3. CASE \E x \in invitations : Expire(x)
  <2>1. PICK x \in invitations :
           invitations' = (invitations \ {x}) \cup {[x EXCEPT !.expired = TRUE]}
    BY <1>3 DEF Expire
  <2>2. [x EXCEPT !.expired = TRUE] \in invitations'
    BY <2>1
  <2>3. {"id", "redeemedBy"} \subseteq DOMAIN x
    BY DEF IInv
  <2>4. /\ [x EXCEPT !.expired = TRUE].id = x.id
        /\ [x EXCEPT !.expired = TRUE].redeemedBy = x.redeemedBy
    BY <2>3
  <2> QED
    BY <1>1, <2>1, <2>2, <2>4
<1>4. ASSUME invitations \subseteq invitations' PROVE i \in invitations'
  BY <1>4
<1>5. ASSUME NEW r \in Requests, Resume(r), i \notin invitations'
      PROVE  \E a \in Accounts : Enroll(r, a)
  BY <1>4, <1>5 DEF Resume, Link, SignIn, SetStatus, CreateGroup, UpdateGroup, Member, ReadGrant,
     CreateInvitation, Register, CreateGrant, RevokeLater, CreateChangeSet, GiveUp, letters
<1>6. ASSUME NEW r, NEW b, Arrive(r, b) PROVE i \in invitations'
  <2>1. ASSUME NEW job, Begin(r, job) PROVE i \in invitations'
    BY <2>1 DEF Begin, letters
  <2> QED
    BY <1>6, <2>1 DEF Arrive, BeginFlow, AskStatus, AskGroup, AskGrant, AskInvitation,
       AskRegister, AskRename, AskMember, AskRevoke, AskChangeSet
<1>7. ASSUME NEW b, AtOnce(b) PROVE i \in invitations'
  BY <1>7 DEF AtOnce, EndSession, Unlink, DeleteGroup, RevokeGrant, RevokeInvitation, Revocable,
     Deregister, letters
<1>8. ASSUME NEW t, CloseChangeSets(t) PROVE i \in invitations'
  BY <1>8 DEF CloseChangeSets, letters
<1> QED
  BY <1>1, <1>2, <1>3, <1>5, <1>6, <1>7, <1>8 DEF Next

\* Only an enrolment makes a principal.
LEMMA OnlyEnrolmentMakes ==
    ASSUME IInv, Next, NEW p \in Known' \ Known
    PROVE  \E r \in Requests, a \in Accounts : Enroll(r, a)
<1>1. ASSUME status' = status PROVE FALSE
  BY <1>1 DEF Known
<1>2. ASSUME NEW r \in Requests, Resume(r) PROVE \E a \in Accounts : Enroll(r, a)
  <2>1. ASSUME NEW to \in {"active", "disabled"}, SetStatus(r, to) PROVE FALSE
    <3>1. PICK q \in Known : status' = [status EXCEPT ![q] = to]
      BY <2>1 DEF SetStatus, At, IInv, Carried
    <3> QED
      BY <3>1 DEF Known, IInv, TypeOK
  <2> QED
    BY <1>1, <1>2, <2>1 DEF Resume, Link, SignIn, CreateGroup, UpdateGroup, Member, ReadGrant,
       CreateInvitation, Register, CreateGrant, RevokeLater, CreateChangeSet, GiveUp, people
<1>3. ASSUME NEW r, NEW b, Arrive(r, b) PROVE FALSE
  <2>1. ASSUME NEW job, Begin(r, job) PROVE FALSE
    BY <1>1, <2>1 DEF Begin, people
  <2> QED
    BY <1>3, <2>1 DEF Arrive, BeginFlow, AskStatus, AskGroup, AskGrant, AskInvitation,
       AskRegister, AskRename, AskMember, AskRevoke, AskChangeSet
<1>4. ASSUME NEW b, AtOnce(b) PROVE FALSE
  BY <1>1, <1>4 DEF AtOnce, EndSession, Unlink, DeleteGroup, RevokeGrant, RevokeInvitation,
     Deregister, people
<1>5. ASSUME NEW i, Expire(i) PROVE FALSE
  BY <1>1, <1>5 DEF Expire, people
<1>6. ASSUME NEW t, CloseChangeSets(t) PROVE FALSE
  BY <1>1, <1>6 DEF CloseChangeSets, people
<1> QED
  BY <1>2, <1>3, <1>4, <1>5, <1>6 DEF Next

\* Whoever is new has been let in: the policy, a list, or an invitation that was
\* open and is now hers.
LEMMA NewIsLetIn ==
    ASSUME PrincipalsAssumption, IInv, Next, NEW q \in Known' \ Known
    PROVE  \/ Enrollment = "open"
           \/ \E a \in Accounts : holder'[a] = q /\
                  (a \in Admins \/ (Enrollment = "domain-allowlist" /\ a \in Allowlisted))
           \/ \E i \in invitations, j \in invitations' :
                  i.id = j.id /\ i.redeemedBy = Nobody /\ j.redeemedBy = q
<1>1. PICK r \in Requests, a \in Accounts : Enroll(r, a)
  BY OnlyEnrolmentMakes
<1> DEFINE found == InvitationFor(a, task[r].token)
<1>2. \A i \in found : i \in invitations /\ i.redeemedBy = Nobody
  BY DEF InvitationFor, Redeemable
<1>3. PICK p \in Principals \ Known : Enrols(r, a, p)
  BY <1>1, Enrolled
<1> USE DEF Enrols
<1>4. q = p
  BY <1>3 DEF Known, IInv, TypeOK
<1>5. holder'[a] = p
  BY <1>3 DEF IInv, TypeOK
<1>6. CASE found # {}
  <2>1. PICK i \in found : i \in invitations /\ i.redeemedBy = Nobody
    BY <1>2, <1>6
  <2>2. [i EXCEPT !.redeemedBy = p] \in invitations'
    BY <1>3, <2>1
  <2>3. {"id", "redeemedBy"} \subseteq DOMAIN i
    BY <2>1 DEF IInv
  <2>4. [i EXCEPT !.redeemedBy = p].id = i.id /\ [i EXCEPT !.redeemedBy = p].redeemedBy = p
    BY <2>3
  <2> QED
    BY <1>4, <2>1, <2>2, <2>4
<1> QED
  BY <1>3, <1>4, <1>5, <1>6

\* Nobody is enrolled whom policy does not let in, and what an invitation was
\* redeemed for stays on record (enroll.ts, routes/admin.ts:482).
THEOREM PolicyLetsIn == ASSUME PrincipalsAssumption PROVE Spec => EnrolmentIsPaidFor
<1> DEFINE Paid ==
      /\ \A i \in invitations : i.redeemedBy # Nobody =>
             \E j \in invitations' : j.id = i.id /\ j.redeemedBy = i.redeemedBy
      /\ status' # status => \A p \in Known' \ Known :
             \/ Enrollment = "open"
             \/ \E a \in Accounts : holder'[a] = p /\
                    (a \in Admins \/ (Enrollment = "domain-allowlist" /\ a \in Allowlisted))
             \/ \E i \in invitations, j \in invitations' :
                    i.id = j.id /\ i.redeemedBy = Nobody /\ j.redeemedBy = p
<1>1. IInv /\ Next => Paid
  BY RedeemedStays, NewIsLetIn
<1> HIDE DEF Paid
<1>2. IInv /\ [Next]_vars => [Paid]_vars
  BY <1>1
<1> QED
  BY <1>2, Invariance, PTL DEF Spec, EnrolmentIsPaidFor, Paid
=============================================================================
