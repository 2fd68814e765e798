------------------------ MODULE DeclaredConstraints ------------------------
(***************************************************************************)
(* What the constraint registries of a model promise to a reader of        *)
(* `semantic_constraints`: a list of the constraints in the order in which *)
(* they were declared, each with the name, function, set and origin it was *)
(* last given and whether it is active.  How the list is stored - native   *)
(* rows, run-length entries, side tables - is left to ConstraintRecords.   *)
(***************************************************************************)
EXTENDS Naturals, FiniteSets, SequencesExt

CONSTANTS Kinds, Declarations, Functions, Sets, Origins, MaxRecords

VARIABLES
  records,  \* the constraints, in order of declaration
  frozen    \* constraints whose lowering no edit may touch, and why

vars == <<records, frozen>>

Of(kind) == {p \in DOMAIN records : records[p].id.kind = kind}

Count(kind) == Cardinality(Of(kind))

\* A declaration as a record: active, and numbered within its own registry.
Entry(d, index) ==
  [id |-> [kind |-> d.kind, index |-> index], name |-> d.name, fn |-> d.fn,
   set |-> d.set, origin |-> d.origin, active |-> TRUE]

Init == records = <<>> /\ frozen = [locked |-> {}, alternative |-> {}]

\* A call registers one constraint, or a batch of one kind, at the end of the
\* list; no two constraints of a kind share a name.
Register ==
  LET kept == Len(records)
      new == kept + 1 .. Len(records')
      kind == records'[kept + 1].id.kind
  IN /\ Len(records') > kept
     /\ Len(records') <= MaxRecords
     /\ IsPrefix(records, records')
     /\ \A p \in new : \E d \in Declarations :
           /\ records'[p] = Entry(d, Count(kind) + p - kept - 1)
           /\ d.kind = kind
           /\ records'[p].id \in frozen'.alternative <=> d.alternative
     /\ \A p \in new : \A q \in Of(kind) \cup (new \ {p}) :
           records'[p].name # records'[q].name
     /\ frozen'.locked = frozen.locked
     /\ frozen'.alternative \ {records'[p].id : p \in new} = frozen.alternative

\* What one edit may make of a record r: a new value s.
SetActive(r, s) ==
  r.id \notin frozen.locked /\ \E active \in BOOLEAN : s = [r EXCEPT !.active = active]

SetPair(r, s) ==
  /\ r.id \notin frozen.locked \cup frozen.alternative
  /\ \/ \E fn \in Functions : s = [r EXCEPT !.fn = fn]
     \/ \E set \in Sets : s = [r EXCEPT !.set = set]

SetOrigin(r, s) == \E origin \in Origins : s = [r EXCEPT !.origin = origin]

Edit ==
  /\ \E p \in DOMAIN records :
        LET r == records[p]
            s == records'[p]
        IN /\ SetActive(r, s) \/ SetPair(r, s) \/ SetOrigin(r, s)
           /\ records' = [records EXCEPT ![p] = s]
  /\ UNCHANGED frozen

Lock ==
  /\ \E id \in {records[p].id : p \in DOMAIN records} :
        frozen' = [frozen EXCEPT !.locked = @ \cup {id}]
  /\ UNCHANGED records

Next == Register \/ Edit \/ Lock

Spec == Init /\ [][Next]_vars
=============================================================================
