--------------------------- MODULE ModelRegistry ---------------------------
(***************************************************************************)
(* The registries of oximo models (crates/oximo-core/src/shared.rs) and    *)
(* the operations of Model that share them: forking, snapshotting, writing *)
(* and dropping.                                                           *)
(*                                                                         *)
(* A SharedCell owns its data until the model is forked or snapshotted;    *)
(* the data then moves into an Arc that several cells may reference, and   *)
(* the first write through a cell that is not the only owner detaches that *)
(* cell.  Each cell counts its mutable borrows in a revision, and the      *)
(* revisions together are the ModelUpdateKey by which a persistent solver  *)
(* decides that a model has not changed since the last solve.              *)
(*                                                                         *)
(* A registry's rows are abstracted to one value.  A RefMut lives only     *)
(* inside one method of Model, so a write is one step; a Ref is handed to  *)
(* callers (Model::variables, Model::objective, ...) and may be held       *)
(* across any other call.                                                  *)
(***************************************************************************)
EXTENDS Integers, FiniteSets, TLC

CONSTANTS Models,       \* model identities
          Registries,   \* the SharedCell fields of Model
          Values,       \* contents of a registry
          Arcs,         \* heap allocations
          Handles,      \* slots for snapshots held by callers
          Empty,        \* content of a registry of a new model
          None,         \* absent snapshot, absent baseline
          MaxRevision   \* last revision before the overflow panic

ASSUME EmptyAssumption == Empty \in Values
ASSUME NoneAssumption == None \notin Arcs /\ None \notin Values
ASSUME MaxRevisionAssumption == MaxRevision \in Nat

Cells == Models \X Registries

Owned(v) == [tag |-> "Owned", value |-> v]
Shared(a) == [tag |-> "Shared", arc |-> a]
Storage == [tag : {"Owned"}, value : Values] \cup [tag : {"Shared"}, arc : Arcs]

Revisions == 0 .. MaxRevision
Keys == [revision : [Registries -> Revisions], content : [Registries -> Values]]

VARIABLES
    live,      \* models in existence
    retired,   \* models that were dropped: their identities are never reused
    storage,   \* storage[<<m, r>>]: the CellStorage of registry r of model m
    heap,      \* heap[a]: the data inside Arc a
    revision,  \* revision[<<m, r>>]: mutable borrows of the cell so far
    reading,   \* cells with an outstanding Ref
    handle,    \* handle[h]: the Arc a snapshot holds, or None
    baseline   \* history: what a caller recorded of each model with its last update key

registryVars == <<live, retired, storage, heap, revision, reading, handle, baseline>>

Content(c) == IF storage[c].tag = "Owned" THEN storage[c].value
                                          ELSE heap[storage[c].arc]

CellRefs(a) == {c \in Cells : storage[c] = Shared(a)}
HandleRefs(a) == {h \in Handles : handle[h] = a}
Free(a) == CellRefs(a) = {} /\ HandleRefs(a) = {}

\* Fault: the owner count forgets the snapshots, or the cells of forks.
UniqueAmongCells(c, a) == CellRefs(a) = {c}
UniqueAmongHandles(c, a) == c \in CellRefs(a) /\ HandleRefs(a) = {}

\* Arc::get_mut succeeds: the cell is the only owner of the allocation.
UniqueIn(c, a) == CellRefs(a) = {c} /\ HandleRefs(a) = {}

RegistryInit ==
        /\ live = {}
        /\ retired = {}
        /\ storage = [c \in Cells |-> Owned(Empty)]
        /\ heap = [a \in Arcs |-> Empty]
        /\ revision = [c \in Cells |-> 0]
        /\ reading = {}
        /\ handle = [h \in Handles |-> None]
        /\ baseline = [m \in Models |-> None]

Fresh(m) == m \notin live \cup retired

New(m) == /\ Fresh(m)
          /\ live' = live \cup {m}
          /\ UNCHANGED <<retired, storage, heap, revision, reading, handle,
                         baseline>>

(***************************************************************************)
(* SharedCell::borrow_mut and the assignment made through the guard.  An   *)
(* outstanding Ref makes RefCell panic before anything changes, and so     *)
(* does an exhausted revision.  The value may be the old one: a method     *)
(* that panics after the borrow (a duplicate name, say) has advanced the   *)
(* revision and changed nothing.                                           *)
(***************************************************************************)
Write(m, r, v) ==
    LET c == <<m, r>> IN
    /\ m \in live
    /\ c \notin reading
    /\ revision[c] < MaxRevision
    /\ revision' = [revision EXCEPT ![c] = @ + 1]
    /\ IF storage[c].tag = "Shared" /\ UniqueIn(c, storage[c].arc)
       THEN /\ heap' = [heap EXCEPT ![storage[c].arc] = v]
            /\ UNCHANGED storage
       ELSE /\ storage' = [storage EXCEPT ![c] = Owned(v)]
            /\ UNCHANGED heap
    /\ UNCHANGED <<live, retired, reading, handle, baseline>>

BeginRead(m, r) == /\ m \in live
                   /\ reading' = reading \cup {<<m, r>>}
                   /\ UNCHANGED <<live, retired, storage, heap, revision, handle,
                                  baseline>>

EndRead(m, r) == /\ <<m, r>> \in reading
                 /\ reading' = reading \ {<<m, r>>}
                 /\ UNCHANGED <<live, retired, storage, heap, revision, handle,
                                baseline>>

\* Fault: share_registry ignores an outstanding Ref.
PromotedWhileRead(m) == {c \in {m} \X Registries : storage[c].tag = "Owned"}

\* Cells of m that share_registry moves into a new Arc when m is forked.
Promoted(m) == {c \in {m} \X Registries : c \notin reading /\ storage[c].tag = "Owned"}

\* The storage of a cell once share_registry promoted it; arcOf names the new Arcs.
AfterSharing(m, c, arcOf) == IF c \in Promoted(m) THEN Shared(arcOf[c]) ELSE storage[c]

(***************************************************************************)
(* The registries of the fork: a copy for a cell that is being read (with  *)
(* a revision of its own, from 0), the shared Arc and the source's         *)
(* revision otherwise.  The registries in grow are then borrowed mutably   *)
(* to reserve capacity for the rows a reformulation will append, which     *)
(* detaches them and advances their revision.                              *)
(***************************************************************************)
ForkedStorage(m, r, arcOf, grow) ==
    LET c == <<m, r>> IN
    IF c \in reading \/ r \in grow THEN Owned(Content(c)) ELSE AfterSharing(m, c, arcOf)

ForkedRevision(m, r, grow) ==
    (IF <<m, r>> \in reading THEN 0 ELSE revision[<<m, r>>]) + (IF r \in grow THEN 1 ELSE 0)

\* Model::fork and the reformulations, all through clone_preserving_ids_with_capacity.
Fork(m, n, grow) ==
    /\ m \in live
    /\ Fresh(n)
    /\ \A r \in Registries : ForkedRevision(m, r, grow) <= MaxRevision
    /\ \E arcOf \in [Promoted(m) -> {a \in Arcs : Free(a)}] :
          /\ \A c, d \in Promoted(m) : arcOf[c] = arcOf[d] => c = d
          /\ heap' = [a \in Arcs |-> IF \E c \in Promoted(m) : arcOf[c] = a
                                     THEN storage[CHOOSE c \in Promoted(m) : arcOf[c] = a].value
                                     ELSE heap[a]]
          /\ storage' = [c \in Cells |->
                CASE c[1] = m -> AfterSharing(m, c, arcOf)
                  [] c[1] = n -> ForkedStorage(m, c[2], arcOf, grow)
                  [] OTHER    -> storage[c]]
    /\ revision' = [c \in Cells |-> IF c[1] = n THEN ForkedRevision(m, c[2], grow)
                                                ELSE revision[c]]
    /\ live' = live \cup {n}
    /\ UNCHANGED <<retired, reading, handle, baseline>>

\* SharedCell::snapshot: shares without a mutable borrow, hence without a revision.
Snapshot(h, m, r) ==
    LET c == <<m, r>> IN
    /\ m \in live
    /\ handle[h] = None
    /\ \/ /\ storage[c].tag = "Shared"
          /\ handle' = [handle EXCEPT ![h] = storage[c].arc]
          /\ UNCHANGED <<heap, storage>>
       \/ /\ storage[c].tag = "Owned"
          /\ \E a \in Arcs :
                /\ Free(a)
                /\ heap' = [heap EXCEPT ![a] = Content(c)]
                /\ handle' = [handle EXCEPT ![h] = a]
                /\ storage' = IF c \in reading THEN storage
                                               ELSE [storage EXCEPT ![c] = Shared(a)]
    /\ UNCHANGED <<live, retired, revision, reading, baseline>>

Release(h) == /\ handle[h] # None
              /\ handle' = [handle EXCEPT ![h] = None]
              /\ UNCHANGED <<live, retired, storage, heap, revision, reading, baseline>>

\* A Model is dropped only when no borrow of it is left.
Drop(m) == /\ m \in live
           /\ reading \cap ({m} \X Registries) = {}
           /\ live' = live \ {m}
           /\ retired' = retired \cup {m}
           /\ storage' = [c \in Cells |-> IF c[1] = m THEN Owned(Empty) ELSE storage[c]]
           /\ revision' = [c \in Cells |-> IF c[1] = m THEN 0 ELSE revision[c]]
           /\ UNCHANGED <<heap, reading, handle, baseline>>

\* Model::__update_key, recorded by PersistentPreparation with what it saw.
CaptureKey(m) ==
    /\ m \in live
    /\ baseline' = [baseline EXCEPT ![m] =
          [revision |-> [r \in Registries |-> revision[<<m, r>>]],
           content  |-> [r \in Registries |-> Content(<<m, r>>)]]]
    /\ UNCHANGED <<live, retired, storage, heap, revision, reading, handle>>

RegistryNext ==
        \/ \E m \in Models : New(m) \/ Drop(m) \/ CaptureKey(m)
        \/ \E m, n \in Models, grow \in SUBSET Registries : Fork(m, n, grow)
        \/ \E m \in Models, r \in Registries, v \in Values : Write(m, r, v)
        \/ \E m \in Models, r \in Registries : BeginRead(m, r) \/ EndRead(m, r)
        \/ \E h \in Handles, m \in Models, r \in Registries : Snapshot(h, m, r)
        \/ \E h \in Handles : Release(h)

RegistrySpec == RegistryInit /\ [][RegistryNext]_registryVars

-----------------------------------------------------------------------------
(* Properties *)

\* Every variable keeps its type: the cells, the heap and the history.
TypeOK == /\ live \subseteq Models
          /\ retired \subseteq Models \ live
          /\ storage \in [Cells -> Storage]
          /\ heap \in [Arcs -> Values]
          /\ revision \in [Cells -> Revisions]
          /\ reading \subseteq live \X Registries
          /\ handle \in [Handles -> Arcs \cup {None}]
          /\ baseline \in [Models -> Keys \cup {None}]

\* ModelUpdateKey is sound: a model whose revisions all equal the recorded ones
\* still has the recorded content, so PersistentPreparation::prepare may answer
\* "Unchanged" from the key alone.  A write to another model that reached this
\* one through shared storage would advance no revision here.
KeySound ==
    \A m \in live : baseline[m] # None =>
        \A r \in Registries :
            baseline[m].revision[r] = revision[<<m, r>>]
                => baseline[m].content[r] = Content(<<m, r>>)

\* While a caller holds a Ref into a registry, forks and snapshots do not move
\* the data it points to (share_registry takes the value out of the cell) and
\* nothing it can read through the guard changes.
GuardedStable ==
    [][\A c \in reading \cap reading' :
          storage'[c] = storage[c] /\ Content(c)' = Content(c)]_registryVars

\* Shared storage is not observable: forks are separate from their source and
\* from each other, and a snapshot (Model::parameter_declarations) shows what it
\* showed when it was taken for as long as it is held.
Abstract == INSTANCE IndependentModels
            WITH content <- [c \in Cells |-> Content(c)],
                 view <- [h \in Handles |-> IF handle[h] = None THEN None
                                                                ELSE heap[handle[h]]]
ImplementsIndependentModels == Abstract!Spec

\* Identities are interchangeable, for model checking.
Symmetry == Permutations(Models) \cup Permutations(Registries)
            \cup Permutations(Arcs) \cup Permutations(Handles)
=============================================================================
