------------------------- MODULE ConstraintRecords -------------------------
(***************************************************************************)
(* How a model stores its constraints.  Five native registries hold the    *)
(* rows the solvers read.  Beside them a registry of semantic entries      *)
(* remembers what was declared, in order: a model of plain scalar rows     *)
(* keeps only their number (`implicit_scalars`); the first other record    *)
(* materialises it as runs of consecutive entries, with overrides, an      *)
(* extension table for pairs no row can reproduce, and compressed origins. *)
(* A reader's record is put together again from row, entry and tables.     *)
(***************************************************************************)
EXTENDS Integers, Sequences, FiniteSets, SequencesExt, Functions

CONSTANTS
  Declarations,   \* what a call may register: kind, name, fn, set, origin, view
  Ranges,         \* pairs of declarations written as one range
  FunctionValues, \* function values: kind of storage and expression root
  SetValues,      \* set values: kind and bounds
  Origins,        \* provenance records
  ZeroRoot,       \* the constant zero expression
  MaxRecords,     \* bound on the number of constraints
  MaxCalls        \* bound on the number of constraints and edits together

VARIABLES
  rows,        \* kind -> native rows
  registry,    \* the semantic registry
  names,       \* the shared table of constraint names
  inactive,    \* inactive_scalar_views: view of a deactivated scalar row
  alternative, \* alternative_scalar_views: view that is not the declared pair
  locked,      \* constraints a reformulation depends on
  cursor,      \* an iteration over the entries, or NoCursor
  edits        \* number of edits so far

vars == <<rows, registry, names, inactive, alternative, locked, cursor, edits>>

Kinds == {"alg", "soc", "psd", "sos", "ind"}

\* The function that a registry other than the scalar ones stores.
NativeFn == [soc |-> "vector", psd |-> "matrix", sos |-> "variables"]

IsFunction(fn) == fn = [kind |-> fn.kind, root |-> fn.root]
IsSet(set) == set = [kind |-> set.kind, lower |-> set.lower, upper |-> set.upper]
IsView(view) ==
  view = [root |-> view.root, bounds |-> [lower |-> view.bounds.lower, upper |-> view.bounds.upper]]

\* A declaration is for one registry, a range for two algebraic rows.
IsDeclaration(d) ==
  /\ d = [kind |-> d.kind, name |-> d.name, fn |-> d.fn, set |-> d.set,
          origin |-> d.origin, view |-> d.view]
  /\ d.kind \in Kinds /\ IsFunction(d.fn) /\ IsSet(d.set) /\ IsView(d.view)
  /\ d.kind \in DOMAIN NativeFn => d.fn.kind \in {NativeFn[d.kind], "custom"}

ASSUME DeclarationsAssumption ==
  /\ \A d \in Declarations : IsDeclaration(d)
  /\ \A pair \in Ranges :
       /\ pair = <<pair[1], pair[2]>> /\ pair[1].name # pair[2].name
       /\ \A i \in 1..2 : IsDeclaration(pair[i]) /\ pair[i].kind = "alg"
  /\ \A fn \in FunctionValues : IsFunction(fn)
  /\ \A set \in SetValues : IsSet(set)

Scalars == {"alg", "ind"}
Free == [lower |-> "-inf", upper |-> "inf"]
Declared == [tag |-> "declared", name |-> ""]
RangeOf(name) == [tag |-> "range", name |-> name]
NoSignature == [fn |-> "none", set |-> "none"]
NoCursor == [front |-> 0, back |-> 0, frontRun |-> 0, backRun |-> 0]

Bounds(set) == [lower |-> set.lower, upper |-> set.upper]
View(fn, set) == [root |-> fn.root, bounds |-> Bounds(set)]

\* Function values of kind "custom" have no built-in storage; those of the
\* kinds "any_affine" and "any_quadratic" share one type.
Type(fn) == IF fn.kind \in {"any_affine", "any_quadratic"} THEN "any" ELSE fn.kind

Signature(fn, set) ==
  IF fn.kind = "custom" THEN NoSignature ELSE [fn |-> fn.kind, set |-> set.kind]

(***************************************************************************)
(* Semantic entries: an id, a representation and a compressed origin.      *)
(***************************************************************************)
NoRep == [tag |-> "none", sig |-> NoSignature, index |-> 0]
Native(sig) == [NoRep EXCEPT !.tag = "native", !.sig = sig]
Extension(index) == [NoRep EXCEPT !.tag = "extension", !.index = index]

Representation(kind, fn, set) ==
  IF fn.kind = "custom" THEN NoRep
  ELSE Native(IF kind = "ind" THEN Signature(fn, set) ELSE NoSignature)

\* Origins by number; DECLARED and ROW_NAME are the two largest of the word.
WordMax == 65535
DECLARED == WordMax
ROW_NAME == WordMax - 1

\* store_origin asserts that the numbers do not run into them.
ASSUME WordAssumption == MaxRecords \in Nat /\ MaxRecords < ROW_NAME

Id(kind, index) == [kind |-> kind, index |-> index]

SemanticEntry(id, rep, origin) == [id |-> id, rep |-> rep, origin |-> origin]

DeclaredScalar(position) ==
  SemanticEntry(Id("alg", position), Native(NoSignature), DECLARED)

Shifted(entry, offset) ==
  [entry EXCEPT !.id.index = @ + offset,
                !.rep.index = IF entry.rep.tag = "extension" THEN @ + offset ELSE @]

\* Fault: a run may mix constraints of different origins.
FollowsAnyOrigin(entry, first, offset) ==
  [entry EXCEPT !.origin = 0] = [Shifted(first, offset) EXCEPT !.origin = 0]

Follows(entry, first, offset) == entry = Shifted(first, offset)

\* Runs of consecutive entries; a position that differs has an override.
RunAt(entries, position) ==
  Cardinality({i \in DOMAIN entries.runs : entries.runs[i].start <= position})

InRun(entries, position, run) ==
  IF position \in DOMAIN entries.overrides
  THEN entries.overrides[position]
  ELSE Shifted(entries.runs[run].first, position - entries.runs[run].start)

EntryAt(entries, position) == InRun(entries, position, RunAt(entries, position))

PushEntry(entries, entry) ==
  LET n == Len(entries.runs)
      extends == n > 0 /\ Follows(entry, entries.runs[n].first, entries.runs[n].len)
  IN [entries EXCEPT
        !.runs = IF extends THEN [entries.runs EXCEPT ![n].len = @ + 1]
                 ELSE Append(@, [first |-> entry, start |-> entries.len, len |-> 1]),
        !.len = @ + 1]

ReplaceEntry(entries, position, entry) ==
  LET base == Shifted(entries.runs[RunAt(entries, position)].first,
                      position - entries.runs[RunAt(entries, position)].start)
      others == Restrict(entries.overrides, DOMAIN entries.overrides \ {position})
  IN [entries EXCEPT !.overrides =
        IF base = entry THEN others
        ELSE [p \in DOMAIN others \cup {position} |->
                IF p = position THEN entry ELSE others[p]]]

\* Positions of the ids of one registry, again as runs.
\* Fault: two runs of ids are joined wherever they stand in the list.
JoinsById(a, b) == a.first + a.len = b.first

Joins(a, b) == a.first + a.len = b.first /\ a.position + a.len = b.position

Joined(a, b) == [a EXCEPT !.len = @ + b.len]

InsertRun(runs, run) ==
  LET n == Len(runs)
      at == Cardinality({i \in 1..n : runs[i].first < run.first}) + 1
      placed == InsertAt(runs, at, run)
  IN IF n > 0 /\ Joins(runs[n], run) THEN [runs EXCEPT ![n] = Joined(@, run)]
     ELSE IF at <= n /\ Joins(run, runs[at]) THEN [runs EXCEPT ![at] = Joined(run, @)]
     ELSE placed

PositionsOf(runs, index) ==
  {runs[i].position + index - runs[i].first :
     i \in {j \in DOMAIN runs : runs[j].first <= index /\ index < runs[j].first + runs[j].len}}

(***************************************************************************)
(* The registry: implicit prefix, entries, positions, extensions, origins. *)
(***************************************************************************)
EmptyRegistry ==
  [implicit |-> TRUE, declarations |-> 0,
   entries |-> [runs |-> <<>>, overrides |-> <<>>, len |-> 0],
   positions |-> [k \in Kinds |-> <<>>],
   extensions |-> <<>>, origins |-> <<>>, originOverrides |-> <<>>]

\* `semantic_writer`: the first writer turns the scalar count into a run.
Materialised(reg) ==
  LET n == reg.declarations
      run == [first |-> DeclaredScalar(0), start |-> 0, len |-> n]
  IN IF ~reg.implicit THEN reg
     ELSE IF n = 0 THEN [reg EXCEPT !.implicit = FALSE]
     ELSE [reg EXCEPT !.implicit = FALSE,
             !.entries.runs = <<run>>, !.entries.len = n,
             !.positions["alg"] = InsertRun(<<>>, [first |-> 0, position |-> 0, len |-> n])]

Push(reg, entry) ==
  [reg EXCEPT
     !.positions[entry.id.kind] =
        InsertRun(@, [first |-> entry.id.index, position |-> reg.entries.len, len |-> 1]),
     !.entries = PushEntry(@, entry)]

\* An origin equal to the row's name costs nothing, one equal to the last
\* stored range is shared.
PushNamed(reg, id, rep, origin, name) ==
  LET n == Len(reg.origins)
      shared == n > 0 /\ origin.tag = "range" /\ reg.origins[n] = origin
  IN CASE origin = RangeOf(name) -> Push(reg, SemanticEntry(id, rep, ROW_NAME))
       [] origin = Declared -> Push(reg, SemanticEntry(id, rep, DECLARED))
       [] origin \notin {RangeOf(name), Declared} /\ shared ->
            Push(reg, SemanticEntry(id, rep, n))
       [] origin \notin {RangeOf(name), Declared} /\ ~shared ->
            Push([reg EXCEPT !.origins = Append(@, origin)], SemanticEntry(id, rep, n + 1))

PushExtension(reg, id, d) ==
  LET pushed == Push(reg, SemanticEntry(id, Extension(Len(reg.extensions) + 1), DECLARED))
  IN [pushed EXCEPT !.extensions =
        Append(@, [name |-> d.name, fn |-> d.fn, set |-> d.set, origin |-> d.origin])]

IsAlternative(d) == d.kind \in Scalars /\ d.view # View(d.fn, d.set)

\* One declaration is recorded; plain scalars stay implicit while they can.
Record(reg, id, d) ==
  LET rep == Representation(d.kind, d.fn, d.set)
      direct == rep # NoRep /\ ~IsAlternative(d)
      plain == reg.implicit /\ d.kind = "alg" /\ d.origin = Declared
  IN CASE direct /\ plain  -> [reg EXCEPT !.declarations = id.index + 1]
       [] direct /\ ~plain -> PushNamed(Materialised(reg), id, rep, d.origin, d.name)
       [] ~direct          -> PushExtension(Materialised(reg), id, d)

Length(reg) == IF reg.implicit THEN reg.declarations ELSE reg.entries.len

EntryOf(reg, position) ==
  IF reg.implicit THEN DeclaredScalar(position) ELSE EntryAt(reg.entries, position)

Positions(reg, id) ==
  IF reg.implicit
  THEN {id.index : k \in {x \in {"alg"} : id.kind = x /\ id.index < reg.declarations}}
  ELSE PositionsOf(reg.positions[id.kind], id.index)

Position(reg, id) == CHOOSE p \in Positions(reg, id) : TRUE

BaseOrigin(reg, entry, name) ==
  IF entry.rep.tag = "extension" THEN reg.extensions[entry.rep.index].origin
  ELSE CASE entry.origin = DECLARED -> Declared
         [] entry.origin = ROW_NAME -> RangeOf(name)
         [] OTHER                   -> reg.origins[entry.origin]

OriginOf(reg, entry, name) ==
  IF entry.id \in DOMAIN reg.originOverrides THEN reg.originOverrides[entry.id]
  ELSE BaseOrigin(reg, entry, name)

Forget(f, id) == Restrict(f, DOMAIN f \ {id})
Remember(f, id, x) == [i \in DOMAIN f \cup {id} |-> IF i = id THEN x ELSE f[i]]

WithOrigin(reg, position, origin, name) ==
  LET entry == EntryAt(reg.entries, position)
  IN IF entry.rep.tag = "extension"
     THEN [reg EXCEPT !.extensions[entry.rep.index].origin = origin]
     ELSE [reg EXCEPT !.originOverrides =
             IF BaseOrigin(reg, entry, name) = origin THEN Forget(@, entry.id)
             ELSE Remember(@, entry.id, origin)]

\* A record that no row can hold any more moves to the extensions, for good.
WithRecord(reg, position, record) ==
  LET entry == EntryAt(reg.entries, position)
      rep == Representation(entry.id.kind, record.fn, record.set)
  IN IF entry.rep.tag = "extension"
     THEN [reg EXCEPT !.extensions[entry.rep.index] = record]
     ELSE IF rep # NoRep
     THEN [reg EXCEPT !.entries = ReplaceEntry(@, position, [entry EXCEPT !.rep = rep])]
     ELSE [reg EXCEPT
             !.originOverrides = Forget(@, entry.id),
             !.extensions = Append(@, record),
             !.entries = ReplaceEntry(@, position,
                [entry EXCEPT !.rep = Extension(Len(reg.extensions) + 1)])]

(***************************************************************************)
(* Names: one table for the five registries; a name used by several is a   *)
(* collision list.                                                         *)
(***************************************************************************)
Ids(table, name) ==
  IF name \notin DOMAIN table.entries THEN <<>>
  ELSE IF table.entries[name].many THEN table.collisions[table.entries[name].at]
  ELSE <<table.entries[name].id>>

InRegistry(table, name, kind) == {id \in ToSet(Ids(table, name)) : id.kind = kind}

Single(id) == [many |-> FALSE, at |-> 0, id |-> id]
Many(at) == [many |-> TRUE, at |-> at, id |-> Id("alg", 0)]

Bind(table, name, id) ==
  LET old == table.entries[name]
  IN CASE name \notin DOMAIN table.entries ->
            [table EXCEPT !.entries = Remember(@, name, Single(id))]
       [] name \in DOMAIN table.entries /\ old.many ->
            [table EXCEPT !.collisions[old.at] = Append(@, id)]
       [] OTHER ->
            [table EXCEPT !.collisions = Append(@, <<old.id, id>>),
                          !.entries[name] = Many(Len(table.collisions) + 1)]

(***************************************************************************)
(* Readers                                                                 *)
(***************************************************************************)
\* The reader's record at a position (`SemanticConstraints::view`).
RecordAt(position) ==
  LET entry == EntryOf(registry, position)
      id == entry.id
      row == rows[id.kind][id.index + 1]
      stored == registry.extensions[entry.rep.index]
      sig == CASE id.kind = "alg" -> row.sig
               [] id.kind = "ind" -> entry.rep.sig
               [] OTHER -> [fn |-> NativeFn[id.kind], set |-> row.sig.set]
      view == IF id \in DOMAIN inactive THEN inactive[id] ELSE row.view
      origin == OriginOf(registry, entry, row.name)
  IN IF entry.rep.tag = "extension"
     THEN [id |-> id, name |-> stored.name, fn |-> stored.fn, set |-> stored.set,
           origin |-> stored.origin, active |-> row.active]
     ELSE [id |-> id, name |-> row.name, active |-> row.active, origin |-> origin,
           fn |-> [kind |-> sig.fn, root |-> view.root],
           set |-> [kind |-> sig.set, lower |-> view.bounds.lower, upper |-> view.bounds.upper]]

Records == [p \in 1..Length(registry) |-> RecordAt(p - 1)]

Stored(record) ==
  [name |-> record.name, fn |-> record.fn, set |-> record.set, origin |-> record.origin]

(***************************************************************************)
(* Registration                                                            *)
(***************************************************************************)
NewRow(d) ==
  [name |-> d.name, active |-> TRUE,
   sig |-> IF d.kind = "alg" /\ IsAlternative(d) THEN NoSignature ELSE Signature(d.fn, d.set),
   view |-> IF d.kind \in Scalars THEN d.view ELSE View(d.fn, d.set)]

Init ==
  /\ rows = [k \in Kinds |-> <<>>]
  /\ registry = EmptyRegistry
  /\ names = [entries |-> <<>>, collisions |-> <<>>]
  /\ inactive = <<>> /\ alternative = <<>> /\ locked = {}
  /\ cursor = NoCursor /\ edits = 0

\* The calls register one constraint or a batch of one kind; the names of a
\* batch are checked before anything is stored.
Batches ==
  {<<d>> : d \in Declarations} \cup
  {pair \in {<<d, e>> : d, e \in Declarations} :
     pair[1].kind = pair[2].kind /\ pair[1].name # pair[2].name}

\* The table of names after the names of a batch, whose first row has index base.
NamesWith(batch, base) ==
  LET table[i \in 0..Len(batch)] ==
        IF i = 0 THEN names
        ELSE Bind(table[i - 1], batch[i].name, Id(batch[1].kind, base + i - 1))
  IN table[Len(batch)]

\* The alternative views of a batch join those of the other rows.
WithViews(batch, base) ==
  LET new == {i \in DOMAIN batch : IsAlternative(batch[i])}
      ids == {Id(batch[1].kind, base + i - 1) : i \in new}
  IN [id \in DOMAIN alternative \cup ids |->
        IF id \in ids THEN batch[id.index - base + 1].view ELSE alternative[id]]

\* The rows, names and alternative views of a batch.
RegisterRows(batch) ==
  LET kind == batch[1].kind
      base == Len(rows[kind])
  IN /\ cursor = NoCursor
     /\ Length(registry) + Len(batch) <= MaxRecords
     /\ Length(registry) + Len(batch) + edits <= MaxCalls
     /\ \A i \in DOMAIN batch : InRegistry(names, batch[i].name, kind) = {}
     /\ rows' = [rows EXCEPT ![kind] = @ \o [i \in DOMAIN batch |-> NewRow(batch[i])]]
     /\ names' = NamesWith(batch, base)
     /\ alternative' = WithViews(batch, base)
     /\ UNCHANGED <<inactive, locked, cursor, edits>>

Recorded(batch) ==
  LET base == Len(rows[batch[1].kind])
      reg[i \in 0..Len(batch)] ==
        IF i = 0 THEN registry
        ELSE Record(reg[i - 1], Id(batch[i].kind, base + i - 1), batch[i])
  IN reg[Len(batch)]

Register(batch) == RegisterRows(batch) /\ registry' = Recorded(batch)

AddScalars(batch) == batch[1].kind = "alg" /\ Register(batch)

AddCones(batch) == batch[1].kind \in {"soc", "psd"} /\ Register(batch)

AddSpecialOrderedSets(batch) == batch[1].kind = "sos" /\ Register(batch)

AddIndicators(batch) == batch[1].kind = "ind" /\ Register(batch)

\* Bounds that are not both constant make two rows, which then share the
\* range they were written as.
AddRange(pair) ==
  LET IdOf(i) == Id("alg", Len(rows["alg"]) + i - 1)
      Named(reg, i) ==
        WithOrigin(Materialised(reg), Position(reg, IdOf(i)), pair[i].origin, pair[i].name)
  IN /\ RegisterRows(pair)
     /\ registry' = Named(Named(Recorded([i \in 1..2 |-> [pair[i] EXCEPT !.origin = Declared]]), 1), 2)

(***************************************************************************)
(* Edits                                                                   *)
(***************************************************************************)
Editable(id) ==
  /\ cursor = NoCursor /\ Length(registry) + edits < MaxCalls /\ edits' = edits + 1
  /\ Positions(registry, id) # {}
  /\ UNCHANGED <<names, locked, cursor>>

\* The view a scalar row is given by `set_constraint_active`.
\* Fault: activation restores the declared pair of every constraint.
ActivationOfPair(id, record) == View(record.fn, record.set)

Activation(id, record) ==
  IF id \in DOMAIN alternative THEN alternative[id] ELSE View(record.fn, record.set)

\* Deactivating a scalar row parks its view and frees the row; activating it
\* restores the alternative view or the declared pair.
SetConstraintActive(id, active) ==
  LET record == RecordAt(Position(registry, id))
      i == id.index + 1
      free == [root |-> ZeroRoot, bounds |-> Free]
  IN /\ Editable(id) /\ id \notin locked /\ record.active # active
     /\ IF id.kind = "alg"
        THEN /\ rows' = [rows EXCEPT !["alg"][i].active = active,
                          !["alg"][i].view = IF active THEN Activation(id, record) ELSE free]
             /\ inactive' = IF active THEN Forget(inactive, id)
                            ELSE Remember(inactive, id, rows["alg"][i].view)
        ELSE rows' = [rows EXCEPT ![id.kind][i].active = active] /\ UNCHANGED inactive
     /\ UNCHANGED <<registry, alternative>>

\* `replace_semantic_record`: an implicit scalar needs no record of its own.
Replaced(reg, id, record) ==
  IF reg.implicit /\ Signature(record.fn, record.set) # NoSignature /\ record.origin = Declared
  THEN reg
  ELSE WithRecord(Materialised(reg), Position(reg, id), Stored(record))

Updatable(id) == Editable(id) /\ id \notin locked /\ id \notin DOMAIN alternative

\* The view of an inactive scalar row is edited where it is parked.
EditRow(id, record) ==
  LET i == id.index + 1
      view == View(record.fn, record.set)
      parked == id \in DOMAIN inactive
      sig == Signature(record.fn, record.set)
  IN /\ rows' = [rows EXCEPT ![id.kind][i].view = IF parked THEN @ ELSE view,
                             ![id.kind][i].sig = sig]
     /\ inactive' = IF parked THEN [inactive EXCEPT ![id] = view] ELSE inactive
     /\ registry' = Replaced(registry, id, record)
     /\ UNCHANGED alternative

\* The set keeps its type; a cone keeps its dimension, hence its value.
SetConstraintSet(id, set) ==
  LET record == RecordAt(Position(registry, id))
  IN /\ Updatable(id)
     /\ id.kind \in {"soc", "psd"} => set = record.set
     /\ id.kind = "alg" => set.kind = record.set.kind
     /\ id.kind = "sos" <=> set.kind = "sos"
     /\ EditRow(id, [record EXCEPT !.set = set])

\* The function keeps its type; an indicator's consequent may be of any.
SetConstraintFunction(id, fn) ==
  LET record == RecordAt(Position(registry, id))
  IN /\ Updatable(id)
     /\ IF id.kind = "ind" THEN fn.kind \notin {NativeFn[k] : k \in DOMAIN NativeFn}
        ELSE Type(fn) = Type(record.fn)
     /\ EditRow(id, [record EXCEPT !.fn = fn])

SetConstraintOrigin(id, origin) ==
  LET position == Position(registry, id)
  IN /\ Editable(id)
     /\ registry' = IF registry.implicit /\ origin = Declared THEN registry
                    ELSE WithOrigin(Materialised(registry), position, origin,
                                    RecordAt(position).name)
     /\ UNCHANGED <<rows, inactive, alternative>>

\* A reformulation that reads a constraint refuses its later edits.
LockSource(id) ==
  /\ cursor = NoCursor /\ Length(registry) + edits < MaxCalls /\ edits' = edits + 1
  /\ id.kind \in {"alg", "sos", "ind"} /\ Positions(registry, id) # {} /\ id \notin locked
  /\ locked' = locked \cup {id}
  /\ UNCHANGED <<rows, registry, names, inactive, alternative, cursor>>

(***************************************************************************)
(* Iteration: a double-ended cursor that caches the run it stands in.      *)
(***************************************************************************)
Entries == registry.entries

StartIteration ==
  /\ cursor = NoCursor /\ ~registry.implicit /\ Entries.len > 0
  /\ cursor' = [front |-> 0, back |-> Entries.len, frontRun |-> 1, backRun |-> Len(Entries.runs)]
  /\ UNCHANGED <<rows, registry, names, inactive, alternative, locked, edits>>

\* The run in which the next entry from the front, or from the back, is read.
FrontRun(c) ==
  LET run == Entries.runs[c.frontRun]
  IN IF c.front = run.start + run.len THEN c.frontRun + 1 ELSE c.frontRun

BackRun(c) ==
  IF c.back - 1 < Entries.runs[c.backRun].start THEN c.backRun - 1 ELSE c.backRun

\* `nth` and `nth_back` skip n entries and look the run up again.
Skip(c, n) ==
  IF n = 0 THEN c ELSE [c EXCEPT !.front = @ + n, !.frontRun = RunAt(Entries, c.front + n)]

SkipBack(c, n) ==
  IF n = 0 THEN c
  ELSE [c EXCEPT !.back = @ - n,
          !.backRun = Cardinality({i \in DOMAIN Entries.runs : Entries.runs[i].start < c.back - n})]

Iterate(c) ==
  /\ cursor # NoCursor
  /\ cursor' = IF c.front = c.back THEN NoCursor ELSE c
  /\ UNCHANGED <<rows, registry, names, inactive, alternative, locked, edits>>

Nth(n) ==
  LET c == Skip(cursor, n)
  IN n < cursor.back - cursor.front /\ Iterate([c EXCEPT !.front = @ + 1, !.frontRun = FrontRun(c)])

NthBack(n) ==
  LET c == SkipBack(cursor, n)
  IN n < cursor.back - cursor.front /\ Iterate([c EXCEPT !.back = @ - 1, !.backRun = BackRun(c)])

AllIds == UNION {{Id(k, i - 1) : i \in DOMAIN rows[k]} : k \in Kinds}

Next ==
  \/ \E batch \in Batches :
        \/ AddScalars(batch)
        \/ AddCones(batch)
        \/ AddSpecialOrderedSets(batch)
        \/ AddIndicators(batch)
  \/ \E pair \in Ranges : AddRange(pair)
  \/ \E id \in AllIds :
        \/ \E active \in BOOLEAN : SetConstraintActive(id, active)
        \/ \E set \in SetValues : SetConstraintSet(id, set)
        \/ \E fn \in FunctionValues : SetConstraintFunction(id, fn)
        \/ \E origin \in Origins : SetConstraintOrigin(id, origin)
        \/ LockSource(id)
  \/ StartIteration
  \/ \E n \in 0..MaxRecords : Nth(n) \/ NthBack(n)

Spec == Init /\ [][Next]_vars

(***************************************************************************)
(* Properties                                                              *)
(***************************************************************************)
\* Whatever tables hold it, the list a reader rebuilds is the list of
\* declarations with the edits made to it, and refused edits change nothing.
Declarative ==
  INSTANCE DeclaredConstraints WITH
    records <- Records,
    frozen <- [locked |-> locked, alternative |-> DOMAIN alternative],
    Functions <- FunctionValues, Sets <- SetValues,
    Declarations <-
      {[kind |-> d.kind, name |-> d.name, fn |-> d.fn, set |-> d.set, origin |-> d.origin,
        alternative |-> IsAlternative(d)] :
          d \in Declarations \cup UNION {ToSet(pair) : pair \in Ranges}}

ImplementsDeclaredConstraints == Declarative!Spec

\* The row a solver reads is the lowering of the record a reader sees: its
\* alternative view or its pair when active, no restriction when a scalar row
\* is not; and a parked view is the one activation will restore.
RowsLowerRecords ==
  \A p \in 0..Length(registry) - 1 :
    LET record == RecordAt(p)
        id == record.id
        row == rows[id.kind][id.index + 1]
        view == IF id \in DOMAIN alternative THEN alternative[id]
                ELSE View(record.fn, record.set)
    IN /\ (row.active \/ id.kind # "alg") => row.view = view
       /\ ~row.active /\ id.kind = "alg" =>
            /\ row.view = [root |-> ZeroRoot, bounds |-> Free]
            /\ id \in DOMAIN inactive /\ inactive[id] = view

\* Every way to look a constraint up agrees: positions invert the entries, the
\* name table gives exactly the ids that bear a name, and a cursor reads at
\* both ends the entry that indexing would return.
LookupsAgree ==
  /\ \A p \in 0..Length(registry) - 1 : Positions(registry, EntryOf(registry, p).id) = {p}
  /\ \A id \in AllIds : Positions(registry, id) # {}
  /\ \A name \in DOMAIN names.entries :
        /\ ToSet(Ids(names, name)) = {id \in AllIds : rows[id.kind][id.index + 1].name = name}
        /\ names.entries[name].many <=> Len(Ids(names, name)) > 1
  /\ \A id \in AllIds : rows[id.kind][id.index + 1].name \in DOMAIN names.entries
  /\ cursor.front < cursor.back =>
        /\ InRun(Entries, cursor.front, FrontRun(cursor)) = EntryAt(Entries, cursor.front)
        /\ InRun(Entries, cursor.back - 1, BackRun(cursor)) = EntryAt(Entries, cursor.back - 1)

---------------------------------------------------------------------------
(***************************************************************************)
(* Instance: declarations of every kind and representation.                *)
(***************************************************************************)

Fn(kind, root) == [kind |-> kind, root |-> root]
Less(b) == [kind |-> "less", lower |-> "-inf", upper |-> b]
Interval(a, b) == [kind |-> "interval", lower |-> a, upper |-> b]
Cone(kind) == [kind |-> kind, lower |-> "", upper |-> ""]
Sos(weights) == [kind |-> "sos", lower |-> weights, upper |-> weights]

Decl(kind, name, fn, set, origin) ==
  [kind |-> kind, name |-> name, fn |-> fn, set |-> set, origin |-> origin,
   view |-> View(fn, set)]

Generated == [tag |-> "generated", name |-> "sos"]

MCFunctionValues ==
  {Fn("affine", "r2"), Fn("any_quadratic", "r2"), Fn("custom", "r1"), Fn("vector", "r2"),
   Fn("variables", "r2")}

MCSetValues == {Less("1"), Interval("0", "1"), Sos("w2")}

MCOrigins == {Declared, RangeOf("a"), Generated}

MCDeclarations ==
  {Decl("alg", n, Fn("affine", "r1"), Less("0"), Declared) : n \in {"a", "b"}}
  \cup {Decl("alg", "c", Fn("affine", "r1"), Interval("0", "1"), RangeOf("c")),
        Decl("alg", "d", Fn("any_affine", "r1"), Less("0"), RangeOf("a")),
        Decl("alg", "e", Fn("affine", "r1"), Less("0"), RangeOf("a")),
        [Decl("alg", "f", Fn("affine", "r1"), Less("0"), Declared) EXCEPT
           !.view = View(Fn("affine", "r2"), Less("1"))]}
  \cup {Decl("ind", "a", Fn("affine", "r1"), Less("0"), Declared),
        Decl("soc", "a", Fn("vector", "r1"), Cone("soc"), Declared),
        Decl("psd", "b", Fn("custom", "r1"), Cone("psd"), Declared),
        Decl("sos", "b", Fn("variables", "r1"), Sos("w1"), Declared)}

MCRanges ==
  {<<Decl("alg", "x_lo", Fn("affine", "r1"), Interval("0", "inf"), RangeOf("x")),
     Decl("alg", "x_hi", Fn("affine", "r1"), Less("1"), RangeOf("x"))>>}
=============================================================================
