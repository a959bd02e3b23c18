----------------------------- MODULE EditEngine -----------------------------
(***************************************************************************)
(* The edit engine: edit::apply compiles a batch of semantic operations    *)
(* into an edit plan over a snapshot of the package tree, and write_plan   *)
(* writes the plan, file by file, into the directory.                      *)
(*                                                                         *)
(* A path is the address of the entity whose file it is: <<"variable", v>>,*)
(* <<"catalog", c>> for the schema, <<"catalog", c, k>> for an entry, and  *)
(* so on; a file under an entity's directory that is nobody's entity has a *)
(* key in Strays.  A document keeps its keys, a list's members, and its    *)
(* [[...]] tables in the order of the text: toml_edit gives each parsed    *)
(* table its position, and prints the tables in the order of positions.    *)
(***************************************************************************)
EXTENDS Naturals, FiniteSets, SequencesExt

CONSTANTS
  Trees,       \* the package trees a batch may start from
  VariableIds, ListIds, LayerIds, CatalogIds, ContextIds, Keys, Strays,
  Values,      \* what a scalar may be; "" is the empty text
  AllocationIds, Queries,
  Inherited,   \* EditOptions.inherited
  MaxIndex,    \* bound on the rule index an operation names
  MaxOps       \* bound on the operations of one batch

VARIABLES
  base,        \* the snapshot: path -> document
  edits,       \* WorkingTree.edits: path -> {document}, or {} for a deletion
  records,     \* the change records, as [op, address]
  count,       \* operations applied so far
  phase,       \* "applying", "refused", "writing", "stopped", "written"
  plan,        \* EditPlan
  tree,        \* the package directory
  stepwise,    \* the directory had each operation been applied and written alone
  aloneRefused,\* whether the last operation, alone, was refused
  requested    \* the tables the last operation asked of one document

vars == <<base, edits, records, count, phase, plan, tree, stepwise, aloneRefused, requested>>

\* A map with the entries of another where it has none itself.
Over(f, g) == [x \in DOMAIN f \cup DOMAIN g |-> IF x \in DOMAIN f THEN f[x] ELSE g[x]]

-----------------------------------------------------------------------------
(* The working tree.                                                        *)

Snapshot(w, path) == IF path \in DOMAIN w.base THEN {w.base[path]} ELSE {}

Content(w, path) == IF path \in DOMAIN w.edits THEN w.edits[path] ELSE Snapshot(w, path)

Exists(w, path) == Content(w, path) # {}

Beneath(dir, path) == Len(path) = Len(dir) + 1 /\ IsStrictPrefix(dir, path)

\* A bug: what the batch has deleted is still listed.
PathsUnderSnapshot(w, dir) ==
    {p \in DOMAIN w.base \cup DOMAIN w.edits : Beneath(dir, p)}

PathsUnder(w, dir) ==
    {p \in DOMAIN w.base \cup DOMAIN w.edits : Beneath(dir, p)} \ {p \in DOMAIN w.edits : w.edits[p] = {}}

WriteTo(w, path, content) == [w EXCEPT !.edits = Over([p \in {path} |-> {content}], @)]

Delete(w, paths) == [w EXCEPT !.edits = Over([p \in paths |-> {}], @)]

\* A file that ends as it was is not written, and one that was never there is
\* not deleted.
IntoPlan(w) ==
    [writes |-> [p \in {q \in DOMAIN w.edits : w.edits[q] \notin {{}, Snapshot(w, q)}} |->
                    CHOOSE c \in w.edits[p] : TRUE],
     deletes |-> {p \in DOMAIN w.edits : w.edits[p] = {} /\ Snapshot(w, p) # {}}]

CarriedOut(t, thePlan) ==
    [p \in (DOMAIN t \cup DOMAIN thePlan.writes) \ thePlan.deletes |->
        IF p \in DOMAIN thePlan.writes THEN thePlan.writes[p] ELSE t[p]]

-----------------------------------------------------------------------------
(* Documents.                                                               *)

Document(fields, tables) == [fields |-> fields, members |-> << >>, tables |-> tables]

TableText(head, fields) == [head |-> head, fields |-> fields]

\* The [[rule]] or [[allocation]] tables, each with the [[allocation.arm]]
\* tables that follow it in the text, and all with their positions.
Parsed(d) ==
    LET outer == SelectSeq([i \in DOMAIN d.tables |-> i], LAMBDA i : d.tables[i].head # "arm")
        end(k) == IF k < Len(outer) THEN outer[k + 1] ELSE Len(d.tables) + 1
    IN  [k \in DOMAIN outer |->
            [head |-> d.tables[outer[k]].head, fields |-> d.tables[outer[k]].fields, position |-> outer[k],
             arms |-> [j \in 1..(end(k) - outer[k] - 1) |->
                         [fields |-> d.tables[outer[k] + j].fields, position |-> outer[k] + j]]]]

\* The printer walks the document and sorts what it meets by position.
Printed(array) ==
    LET walk == FlattenSeq([k \in DOMAIN array |->
                    <<[text |-> TableText(array[k].head, array[k].fields), position |-> array[k].position]>>
                    \o [j \in DOMAIN array[k].arms |->
                          [text |-> TableText("arm", array[k].arms[j].fields), position |-> array[k].arms[j].position]]])
        order == SortSeq([i \in DOMAIN walk |-> i], LAMBDA i, j :
                    \/ walk[i].position < walk[j].position
                    \/ walk[i].position = walk[j].position /\ i < j)
    IN  [i \in DOMAIN order |-> walk[order[i]].text]

MaxTablePosition(array) ==
    Max({0} \cup {array[k].position : k \in DOMAIN array}
        \cup UNION {{array[k].arms[j].position : j \in DOMAIN array[k].arms} : k \in DOMAIN array})

\* A bug: the array is put in the new order, and each table keeps its position.
ReorderInPlace(maxPosition, array, newOrder) ==
    [i \in DOMAIN newOrder |->
        IF newOrder[i].position # 0 THEN newOrder[i]
        ELSE [newOrder[i] EXCEPT !.position = maxPosition + i - Len(array)]]

\* reorder_array_of_tables: the places in the text stay, the tables move
\* between them; a new table's place is past all others.
Reorder(maxPosition, array, newOrder) ==
    LET positions == SortSeq([k \in DOMAIN array |-> array[k].position], LAMBDA a, b : a < b)
    IN  [i \in DOMAIN newOrder |->
            [newOrder[i] EXCEPT !.position =
                IF i <= Len(positions) THEN positions[i] ELSE maxPosition + i - Len(positions)]]

\* What a reader of the text finds: the tables in order, with their arms.
Meaning(d) ==
    LET array == Parsed(d)
    IN  [k \in DOMAIN array |->
            [fields |-> array[k].fields,
             arms |-> [j \in DOMAIN array[k].arms |-> array[k].arms[j].fields]]]

Set(fields, name, value) == Over([n \in {name} |-> value], fields)
Removed(fields, names) == [n \in DOMAIN fields \ names |-> fields[n]]
SetOrRemoved(fields, name, option) ==
    IF option = {} THEN Removed(fields, {name}) ELSE Set(fields, name, CHOOSE x \in option : TRUE)
Optional(S) == {{}} \cup {{x} : x \in S}

-----------------------------------------------------------------------------
(* One operation: the set of its outcomes, empty when it is refused.        *)

Effect(w, recs, path, tables) ==
    [work |-> w, records |-> recs, requested |-> [path |-> path, tables |-> tables]]

Record(op, path) == [op |-> op, address |-> path]

\* ensure_owned, of the entity and of the one it belongs to.
Owned(path) == \A n \in 2..Len(path) : SubSeq(path, 1, n) \notin Inherited

\* A new file; an entry and a sample need the schema they belong to.
Creates(w, op, path, content) ==
    IF Owned(path) /\ ~Exists(w, path) /\ (Len(path) = 3 => Exists(w, Front(path)))
    THEN {Effect(WriteTo(w, path, content), {Record(op, path)}, path, Meaning(content))}
    ELSE {}

\* An existing document with other fields or members: F makes the new one.
Edits(w, op, path, Allows(_), F(_)) ==
    {Effect(WriteTo(w, path, F(d)), {Record(op, path)}, path, Meaning(d))
        : d \in {c \in Content(w, path) : Owned(path) /\ Allows(c)}}

\* An existing document with other tables: F makes the new array, Asks says
\* what was asked for.
EditsTables(w, op, path, Allows(_), F(_), Asks(_)) ==
    {Effect(WriteTo(w, path, [d EXCEPT !.tables = Printed(F(Parsed(d)))]), {Record(op, path)},
             path, Asks(Meaning(d)))
        : d \in {c \in Content(w, path) : Owned(path) /\ Allows(Parsed(c))}}

Always(x) == TRUE

-----------------------------------------------------------------------------
Init ==
    /\ base \in Trees
    /\ edits = << >>
    /\ records = {}
    /\ count = 0
    /\ phase = "applying"
    /\ plan = [writes |-> << >>, deletes |-> {}]
    /\ tree = base
    /\ stepwise = base
    /\ aloneRefused = FALSE
    /\ requested = [path |-> << >>, tables |-> << >>]

\* The batch so far, and the directory with each operation written alone.
Batch == [base |-> base, edits |-> edits]
Alone == [base |-> stepwise, edits |-> << >>]

\* engine::apply: the operation sees what earlier ones wrote, and a refusal
\* ends the batch with nothing planned.
Applied(outcome, alone) ==
    /\ phase = "applying"
    /\ count < MaxOps
    /\ aloneRefused' = (alone = {})
    /\ stepwise' \in IF alone = {} THEN {stepwise}
                     ELSE {CarriedOut(stepwise, IntoPlan(o.work)) : o \in alone}
    /\ \/ /\ outcome = {}
          /\ phase' = "refused"
          /\ edits' = << >>
          /\ records' = {}
          /\ UNCHANGED requested
       \/ \E o \in outcome :
             /\ edits' = o.work.edits
             /\ records' = records \cup o.records
             /\ requested' = o.requested
             /\ UNCHANGED phase
    /\ count' = count + 1
    /\ UNCHANGED <<base, plan, tree>>

Apply(Operation(_)) == Applied(Operation(Batch), Operation(Alone))

-----------------------------------------------------------------------------
(* Entities.                                                                *)

CreateVariable ==
    \E v \in VariableIds, type \in Values, default \in Values :
        Apply(LAMBDA w : IF type = "" THEN {}
                         ELSE Creates(w, "create_variable", <<"variable", v>>,
                                      Document([type |-> type, default |-> default], << >>)))

CreateCatalog ==
    \E c \in CatalogIds, schema \in Values :
        Apply(LAMBDA w : Creates(w, "create_catalog", <<"catalog", c>>, Document([schema |-> schema], << >>)))

CreateEntry ==
    \E c \in CatalogIds, k \in Keys, x \in Values :
        Apply(LAMBDA w : Creates(w, "create_entry", <<"catalog", c, k>>, Document([field |-> x], << >>)))

\* At least one member, none of them twice.
CreateList ==
    \E l \in ListIds, members \in SeqOf(Values, 2) :
        Apply(LAMBDA w : IF members = << >> \/ Cardinality(ToSet(members)) < Len(members) THEN {}
                         ELSE Creates(w, "create_list", <<"list", l>>,
                                      [Document([type |-> "string"], << >>) EXCEPT !.members = members]))

\* A bug: the starter sample has no record of its own.
CreateContextUnrecorded ==
    \E x \in ContextIds, schema \in Values :
        Apply(LAMBDA w :
            {IF Exists(o.work, <<"context", x, "default">>) THEN o
             ELSE [o EXCEPT !.work = WriteTo(o.work, <<"context", x, "default">>, Document(<< >>, << >>))]
             : o \in Creates(w, "create_context", <<"context", x>>, Document([schema |-> schema], << >>))})

\* With a starter sample, unless one is there.
CreateContext ==
    \E x \in ContextIds, schema \in Values :
        Apply(LAMBDA w :
            LET sample == <<"context", x, "default">>
            IN  {IF Exists(o.work, sample) THEN o
                 ELSE Effect(WriteTo(o.work, sample, Document(<< >>, << >>)),
                             o.records \cup {Record("create_context", sample)}, o.requested.path, o.requested.tables)
                 : o \in Creates(w, "create_context", <<"context", x>>, Document([schema |-> schema], << >>))})

CreateLayer ==
    \E l \in LayerIds, unit \in Values :
        Apply(LAMBDA w : IF unit = "" THEN {}
                         ELSE Creates(w, "create_layer", <<"layer", l>>,
                                      Document([unit |-> unit, buckets |-> "10"], << >>)))

CreateSample ==
    \E x \in ContextIds, k \in Keys, facts \in Values :
        Apply(LAMBDA w : Creates(w, "create_sample", <<"context", x, k>>, Document([facts |-> facts], << >>)))

ReplaceSample ==
    \E x \in ContextIds, k \in Keys, facts \in Values :
        Apply(LAMBDA w : Edits(w, "replace_sample", <<"context", x, k>>, Always,
                               LAMBDA d : Document([facts |-> facts], << >>)))

\* With a catalog or a context goes everything beneath it: its entries or
\* samples, each with a record, and the strays.
DeleteEntity ==
    \E path \in ({"variable"} \X VariableIds) \cup ({"list"} \X ListIds) \cup ({"layer"} \X LayerIds)
                \cup ({"catalog"} \X CatalogIds) \cup ({"context"} \X ContextIds)
                \cup ({"catalog"} \X CatalogIds \X Keys) \cup ({"context"} \X ContextIds \X Keys) :
        Apply(LAMBDA w :
            LET under == PathsUnder(w, path)
                entities == {path} \cup {p \in under : p[3] \notin Strays}
            IN  IF Owned(path) /\ \A p \in entities : Exists(w, p)
                THEN {Effect(Delete(w, {path} \cup under), {Record("delete", p) : p \in entities}, path, << >>)}
                ELSE {})

-----------------------------------------------------------------------------
(* Fields.                                                                  *)

SetDescription ==
    \E path \in ({"variable"} \X VariableIds) \cup ({"list"} \X ListIds), text \in Optional(Values) :
        Apply(LAMBDA w : Edits(w, "set_description", path, Always,
                               LAMBDA d : [d EXCEPT !.fields = SetOrRemoved(@, "description", text)]))

SetType ==
    \E v \in VariableIds, type \in Values :
        Apply(LAMBDA w : Edits(w, "set_type", <<"variable", v>>, LAMBDA d : type # "",
                               LAMBDA d : [d EXCEPT !.fields = Set(@, "type", type)]))

SetDefault ==
    \E v \in VariableIds, value \in Values :
        Apply(LAMBDA w : Edits(w, "set_default", <<"variable", v>>, Always,
                               LAMBDA d : [d EXCEPT !.fields = Set(@, "default", value)]))

\* Nothing ends an allocation on its way to a query; the rules go.
SetQuery ==
    \E v \in VariableIds, q \in Queries :
        Apply(LAMBDA w :
            {[o EXCEPT !.requested.tables = << >>]
             : o \in Edits(w, "set_query", <<"variable", v>>,
                  LAMBDA d : /\ "" \notin {q.from, q.filter}
                             /\ q.order # {} => q.sort # {}
                             /\ "method" \in DOMAIN d.fields => d.fields.method # "allocation",
                  LAMBDA d : [d EXCEPT !.fields = SetOrRemoved(SetOrRemoved(
                                  Set(Set(Set(@, "method", "query"), "from", q.from), "filter", q.filter),
                                  "sort", q.sort), "order", q.order),
                                !.tables = << >>])})

ClearQuery ==
    \E v \in VariableIds :
        Apply(LAMBDA w : Edits(w, "clear_query", <<"variable", v>>,
                               LAMBDA d : "method" \in DOMAIN d.fields /\ d.fields.method = "query",
                               LAMBDA d : [d EXCEPT !.fields =
                                             Removed(@, {"method", "from", "filter", "sort", "order"})]))

SetField ==
    \E c \in CatalogIds, k \in Keys, value \in Values :
        Apply(LAMBDA w : Edits(w, "set_field", <<"catalog", c, k>>, Always,
                               LAMBDA d : [d EXCEPT !.fields = Set(@, "field", value)]))

UnsetField ==
    \E c \in CatalogIds, k \in Keys :
        Apply(LAMBDA w : Edits(w, "unset_field", <<"catalog", c, k>>, LAMBDA d : "field" \in DOMAIN d.fields,
                               LAMBDA d : [d EXCEPT !.fields = Removed(@, {"field"})]))

AddMember ==
    \E l \in ListIds, value \in Values :
        Apply(LAMBDA w : Edits(w, "add_member", <<"list", l>>, LAMBDA d : value \notin ToSet(d.members),
                               LAMBDA d : [d EXCEPT !.members = Append(@, value)]))

RemoveMember ==
    \E l \in ListIds, value \in Values :
        Apply(LAMBDA w : Edits(w, "remove_member", <<"list", l>>, LAMBDA d : value \in ToSet(d.members),
                               LAMBDA d : [d EXCEPT !.members = RemoveFirst(@, value)]))

-----------------------------------------------------------------------------
(* Rules.                                                                   *)

Rule(when, value) == [when |-> when, value |-> value]
Table(head, fields, arms) == [head |-> head, fields |-> fields, position |-> 0, arms |-> arms]

AddRule ==
    \E v \in VariableIds, i \in 1..(MaxIndex + 1), when \in Values, value \in Values :
        Apply(LAMBDA w : EditsTables(w, "add_rule", <<"variable", v>>,
            LAMBDA rules : when # "" /\ i <= Len(rules) + 1,
            LAMBDA rules : Reorder(MaxTablePosition(rules), rules,
                                   InsertAt(rules, i, Table("rule", Rule(when, value), << >>))),
            LAMBDA rules : InsertAt(rules, i, [fields |-> Rule(when, value), arms |-> << >>])))

UpdateRule ==
    \E v \in VariableIds, i \in 1..MaxIndex, when \in Optional(Values), value \in Optional(Values) :
        LET updated(fields) == LET f == IF when = {} THEN fields ELSE SetOrRemoved(fields, "when", when)
                               IN  IF value = {} THEN f ELSE SetOrRemoved(f, "value", value)
        IN  Apply(LAMBDA w : EditsTables(w, "update_rule", <<"variable", v>>,
                LAMBDA rules : when \cup value # {} /\ when # {""} /\ i <= Len(rules),
                LAMBDA rules : [rules EXCEPT ![i].fields = updated(@)],
                LAMBDA rules : [rules EXCEPT ![i].fields = updated(@)]))

RemoveRule ==
    \E v \in VariableIds, i \in 1..MaxIndex :
        Apply(LAMBDA w : EditsTables(w, "remove_rule", <<"variable", v>>, LAMBDA rules : i <= Len(rules),
                                     LAMBDA rules : RemoveAt(rules, i), LAMBDA rules : RemoveAt(rules, i)))

MoveRule ==
    \E v \in VariableIds, from \in 1..MaxIndex, to \in 1..MaxIndex :
        LET moved(rules) == InsertAt(RemoveAt(rules, from), to, rules[from])
        IN  Apply(LAMBDA w : EditsTables(w, "move_rule", <<"variable", v>>,
                LAMBDA rules : from # to /\ from <= Len(rules) /\ to <= Len(rules),
                LAMBDA rules : Reorder(MaxTablePosition(rules), rules, moved(rules)),
                LAMBDA rules : moved(rules)))

-----------------------------------------------------------------------------
(* Allocations.                                                               *)

Arm(name, buckets) == [name |-> name, buckets |-> buckets]

\* The first allocation of that id, or the first arm of that name; 0 if none.
IndexOf(array, id) ==
    SelectInSeq(array, LAMBDA a : a.fields.id = id)
ArmOf(arms, name) == SelectInSeq(arms, LAMBDA a : a.fields.name = name)
ArmMeant(arms, name) == SelectInSeq(arms, LAMBDA a : a.name = name)

Added(array, fields, arms) ==
    LET last == MaxTablePosition(array)
    IN  Append(array, [Table("allocation", fields,
                             [j \in DOMAIN arms |-> [fields |-> arms[j], position |-> last + 1 + j]])
                        EXCEPT !.position = last + 1])

AddAllocation ==
    \E l \in LayerIds, id \in AllocationIds, status \in Optional(Values), arms \in SeqOf({Arm("a", "0-4"), Arm("b", "5-9")}, 2) :
        LET fields == SetOrRemoved([id |-> id], "status", status)
        IN  Apply(LAMBDA w : EditsTables(w, "add_allocation", <<"layer", l>>,
                LAMBDA array : arms # << >> /\ IndexOf(array, id) = 0,
                LAMBDA array : Added(array, fields, arms),
                LAMBDA array : Append(array, [fields |-> fields, arms |-> arms])))

RemoveAllocation ==
    \E l \in LayerIds, id \in AllocationIds :
        Apply(LAMBDA w : EditsTables(w, "remove_allocation", <<"layer", l>>,
            LAMBDA array : IndexOf(array, id) # 0,
            LAMBDA array : RemoveAt(array, IndexOf(array, id)),
            LAMBDA array : RemoveAt(array, IndexOf(array, id))))

SetAllocationStatus ==
    \E l \in LayerIds, id \in AllocationIds, status \in Values :
        Apply(LAMBDA w : EditsTables(w, "set_allocation_status", <<"layer", l>>,
            LAMBDA array : status # "" /\ IndexOf(array, id) # 0,
            LAMBDA array : [array EXCEPT ![IndexOf(array, id)].fields = Set(@, "status", status)],
            LAMBDA array : [array EXCEPT ![IndexOf(array, id)].fields = Set(@, "status", status)]))

SetAllocationEligibility ==
    \E l \in LayerIds, id \in AllocationIds, when \in Optional(Values) :
        Apply(LAMBDA w : EditsTables(w, "set_allocation_eligibility", <<"layer", l>>,
            LAMBDA array : when # {""} /\ IndexOf(array, id) # 0,
            LAMBDA array : [array EXCEPT ![IndexOf(array, id)].fields = SetOrRemoved(@, "eligibility", when)],
            LAMBDA array : [array EXCEPT ![IndexOf(array, id)].fields = SetOrRemoved(@, "eligibility", when)]))

SetArmBuckets ==
    \E l \in LayerIds, id \in AllocationIds, name \in {"a", "b"}, buckets \in Values :
        Apply(LAMBDA w : EditsTables(w, "set_arm_buckets", <<"layer", l>>,
            LAMBDA array : /\ buckets # "" /\ IndexOf(array, id) # 0
                           /\ ArmOf(array[IndexOf(array, id)].arms, name) # 0,
            LAMBDA array : LET k == IndexOf(array, id)
                           IN  [array EXCEPT ![k].arms[ArmOf(array[k].arms, name)].fields =
                                    Set(@, "buckets", buckets)],
            LAMBDA array : LET k == IndexOf(array, id)
                               j == ArmMeant(array[k].arms, name)
                           IN  [array EXCEPT ![k].arms[j] = Set(@, "buckets", buckets)]))

-----------------------------------------------------------------------------
(* The plan, and its way into the directory.                                *)

Plan ==
    /\ phase = "applying"
    /\ phase' = "writing"
    /\ plan' = IntoPlan(Batch)
    /\ edits' = << >>
    /\ UNCHANGED <<base, records, count, tree, stepwise, aloneRefused, requested>>

Unwritten == {p \in DOMAIN plan.writes : p \notin DOMAIN tree \/ tree[p] # plan.writes[p]}
Undeleted == plan.deletes \cap DOMAIN tree

WriteFile ==
    /\ phase = "writing"
    /\ \E p \in Unwritten : tree' = Over([q \in {p} |-> plan.writes[p]], tree)
    /\ UNCHANGED <<base, edits, records, count, phase, plan, stepwise, aloneRefused, requested>>

RemoveFile ==
    /\ phase = "writing"
    /\ Unwritten = {}
    /\ \E p \in Undeleted : tree' = [q \in DOMAIN tree \ {p} |-> tree[q]]
    /\ UNCHANGED <<base, edits, records, count, phase, plan, stepwise, aloneRefused, requested>>

\* A write or a removal fails, and nothing undoes the ones before it.
WriteFails ==
    /\ phase = "writing"
    /\ Unwritten \cup Undeleted # {}
    /\ phase' = "stopped"
    /\ UNCHANGED <<base, edits, records, count, plan, tree, stepwise, aloneRefused, requested>>

WriteEnds ==
    /\ phase = "writing"
    /\ Unwritten \cup Undeleted = {}
    /\ phase' = "written"
    /\ UNCHANGED <<base, edits, records, count, plan, tree, stepwise, aloneRefused, requested>>

Next ==
    \/ CreateVariable \/ CreateCatalog \/ CreateEntry \/ CreateList \/ CreateContext \/ CreateLayer
    \/ CreateSample \/ ReplaceSample \/ DeleteEntity
    \/ SetDescription \/ SetType \/ SetDefault \/ SetQuery \/ ClearQuery \/ SetField \/ UnsetField
    \/ AddMember \/ RemoveMember
    \/ AddRule \/ UpdateRule \/ RemoveRule \/ MoveRule
    \/ AddAllocation \/ RemoveAllocation \/ SetAllocationStatus \/ SetAllocationEligibility \/ SetArmBuckets
    \/ Plan \/ WriteFile \/ RemoveFile \/ WriteFails \/ WriteEnds

Spec == Init /\ [][Next]_vars

-----------------------------------------------------------------------------
\* A plan cut short loses nothing: wherever write_plan stops, a file is missing
\* from the directory only if all the new content is there.
NothingLostHalfWay == DOMAIN base \subseteq DOMAIN tree \/ Unwritten = {}

(* A batch means its operations one by one: the plan of the whole batch,    *)
(* written into the directory, leaves the files that applying and writing   *)
(* every operation by itself would have left, and the batch is refused      *)
(* exactly when its last operation by itself would be.  On the way there,   *)
(* and where a failed write leaves the directory, nothing is in neither     *)
(* place.  The console shows an author one batch and commits one commit.    *)
BatchMeansOneByOne ==
    /\ phase = "written" => tree = stepwise
    /\ (phase = "refused") <=> aloneRefused
    /\ NothingLostHalfWay

(* A table lands where it was asked: read again, the text an operation      *)
(* printed has the rules, or the allocations and their arms, in the order   *)
(* the operation promised, and every other operation leaves them alone.     *)
(* The printer follows the positions of the tables and not their order in   *)
(* the array, so an insert or a move that leaves a position behind prints   *)
(* the old order, and the first rule that matches is another one.           *)
TablesLandWhereAsked ==
    \A content \in Content(Batch, requested.path) :
        phase = "applying" => Meaning(content) = requested.tables

(* The records name what the plan touches: every file of the plan is the    *)
(* file of an entity some record is about, or a stray beneath a deleted     *)
(* one.  The console asks the grants about the addresses of the records     *)
(* (enforce, routes/change-sets.ts), so a file without a record is an edit  *)
(* nobody was asked about.                                                  *)
RecordsNameThePlan ==
    \A p \in DOMAIN plan.writes \cup plan.deletes :
        \/ \E r \in records : r.address = p
        \/ p[Len(p)] \in Strays /\ [op |-> "delete", address |-> Front(p)] \in records

=============================================================================
