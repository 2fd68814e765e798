----------------------------- MODULE ModelProofs -----------------------------
(***************************************************************************)
(* Proofs about one model, for any number of models, registries, heap      *)
(* allocations, variables, parameters, rows and sources.                   *)
(*                                                                         *)
(* Registries.  The argument rests on what each action of ModelRegistry    *)
(* does to the CONTENT of every cell (the lemmas ...Content below): a      *)
(* write in place happens only when the cell is the only owner of its Arc, *)
(* and a new Arc is always one nobody references.                          *)
(*                                                                         *)
(* Edits.  Every action of Reformulations, with whatever bounds and        *)
(* parameter values a caller passes, keeps StepInv: the shapes of the      *)
(* lists, the arena's index of bounds exact, every bound feasible, what    *)
(* active generated rows embed locked, and the remembered class current.   *)
(* EditInv and LocksInv support each other: a parameter write is checked   *)
(* against the index, and a lock only stands for a bound while the index   *)
(* finds the variable behind it.                                           *)
(*                                                                         *)
(* The disjunctive part.  FInv says what records are and that the starts   *)
(* of the pending work agree with them; NestingEnds that every disjunct    *)
(* can be given a depth greater than that of the one around it, which is   *)
(* what makes the ancestors of a disjunct a list at all.                   *)
(***************************************************************************)
EXTENDS ModelRegistry, Reformulations, GdpForest, Queues

-----------------------------------------------------------------------------
(* Registries                                                              *)

\* What the update keys need to be sound in every later state: revisions only
\* grow, and a key is only ever recorded of a model that exists or existed.
KeyInv ==
    \A m \in Models : baseline[m] # None =>
        /\ m \in live \cup retired
        /\ m \in live => \A r \in Registries :
              /\ baseline[m].revision[r] <= revision[<<m, r>>]
              /\ baseline[m].revision[r] = revision[<<m, r>>]
                    => baseline[m].content[r] = Content(<<m, r>>)

IInv == TypeOK /\ KeyInv

\* A shared cell is one of the references to its Arc, and its Arc is not free.
LEMMA SharedCellReferences ==
    ASSUME TypeOK, NEW c \in Cells, storage[c].tag = "Shared"
    PROVE  /\ storage[c].arc \in Arcs
           /\ storage[c] = Shared(storage[c].arc)
           /\ c \in CellRefs(storage[c].arc)
           /\ ~ Free(storage[c].arc)
BY DEF TypeOK, Storage, Shared, CellRefs, Free

\* A cell that is not shared owns a value.
LEMMA CellKinds ==
    ASSUME TypeOK, NEW c \in Cells
    PROVE  /\ \/ storage[c].tag = "Owned" /\ storage[c].value \in Values
              \/ storage[c].tag = "Shared" /\ storage[c].arc \in Arcs
           /\ Content(c) \in Values
           /\ storage[c] \in Storage
BY DEF TypeOK, Storage, Content

\* The Arc held by a snapshot is not free.
LEMMA HandleReferences ==
    ASSUME TypeOK, NEW h \in Handles, handle[h] # None
    PROVE  /\ handle[h] \in Arcs
           /\ h \in HandleRefs(handle[h])
           /\ ~ Free(handle[h])
BY DEF TypeOK, HandleRefs, Free

\* The two constructors build members of Storage and can be told apart.
LEMMA Constructors ==
    /\ \A v \in Values : /\ Owned(v) \in Storage /\ Owned(v).tag = "Owned"
                         /\ Owned(v).value = v
    /\ \A a \in Arcs : /\ Shared(a) \in Storage /\ Shared(a).tag = "Shared"
                       /\ Shared(a).arc = a
BY DEF Owned, Shared, Storage

-----------------------------------------------------------------------------
(* What each action does to the contents *)

\* A write changes the content of one cell and of no other, in this model or
\* another, and no snapshot.
LEMMA WriteContent ==
    ASSUME TypeOK, NEW m \in Models, NEW r \in Registries, NEW v \in Values,
           Write(m, r, v)
    PROVE  /\ storage' \in [Cells -> Storage]
           /\ heap' \in [Arcs -> Values]
           /\ \A c \in Cells : Content(c)' = IF c = <<m, r>> THEN v ELSE Content(c)
           /\ \A h \in Handles : handle[h] # None => heap'[handle[h]] = heap[handle[h]]
<1> DEFINE w == <<m, r>>
<1> USE EmptyAssumption
<1>0. w \in Cells
  BY DEF Cells
<1>1. CASE storage[w].tag = "Shared" /\ UniqueIn(w, storage[w].arc)
  <2> DEFINE a == storage[w].arc
  <2>1. /\ a \in Arcs /\ CellRefs(a) = {w} /\ HandleRefs(a) = {}
    BY <1>0, <1>1, SharedCellReferences DEF UniqueIn
  <2>2. heap' = [heap EXCEPT ![a] = v] /\ storage' = storage
    BY <1>1 DEF Write
  <2>3. ASSUME NEW c \in Cells
        PROVE  Content(c)' = IF c = w THEN v ELSE Content(c)
    <3>1. CASE c = w
      BY <3>1, <2>1, <2>2, <1>1 DEF Content, TypeOK
    <3>2. CASE c # w /\ storage[c].tag = "Shared"
      <4>1. storage[c].arc # a
        BY <3>2, <2>1, SharedCellReferences
      <4> QED
        BY <4>1, <3>2, <2>1, <2>2, SharedCellReferences DEF Content, TypeOK
    <3>3. CASE c # w /\ storage[c].tag # "Shared"
      BY <3>3, <2>2, CellKinds DEF Content
    <3> QED
      BY <3>1, <3>2, <3>3
  <2>4. ASSUME NEW h \in Handles, handle[h] # None
        PROVE  heap'[handle[h]] = heap[handle[h]]
    BY <2>4, <2>1, <2>2, HandleReferences DEF TypeOK
  <2> QED
    BY <2>1, <2>2, <2>3, <2>4 DEF TypeOK
<1>2. CASE ~ (storage[w].tag = "Shared" /\ UniqueIn(w, storage[w].arc))
  <2>1. storage' = [storage EXCEPT ![w] = Owned(v)] /\ heap' = heap
    BY <1>2 DEF Write
  <2>2. storage' \in [Cells -> Storage] /\ heap' \in [Arcs -> Values]
    BY <2>1, Constructors DEF TypeOK
  <2>3. ASSUME NEW c \in Cells
        PROVE  Content(c)' = IF c = w THEN v ELSE Content(c)
    BY <1>0, <2>1, Constructors DEF Content, TypeOK
  <2> QED
    BY <2>1, <2>2, <2>3
<1> QED
  BY <1>1, <1>2

\* A fork gives the new model the content of its source and leaves every other
\* model and every snapshot as it was.
LEMMA ForkContent ==
    ASSUME TypeOK, NEW m \in Models, NEW n \in Models, NEW grow \in SUBSET Registries,
           Fork(m, n, grow)
    PROVE  /\ storage' \in [Cells -> Storage]
           /\ heap' \in [Arcs -> Values]
           /\ m # n
           /\ \A c \in Cells :
                 Content(c)' = IF c[1] = n THEN Content(<<m, c[2]>>) ELSE Content(c)
           /\ \A h \in Handles : handle[h] # None => heap'[handle[h]] = heap[handle[h]]
<1> DEFINE P == Promoted(m)
<1>1. PICK arcOf \in [P -> {a \in Arcs : Free(a)}] :
        /\ \A c, d \in P : arcOf[c] = arcOf[d] => c = d
        /\ heap' = [a \in Arcs |-> IF \E c \in P : arcOf[c] = a
                                   THEN storage[CHOOSE c \in P : arcOf[c] = a].value
                                   ELSE heap[a]]
        /\ storage' = [c \in Cells |->
              CASE c[1] = m -> AfterSharing(m, c, arcOf)
                [] c[1] = n -> ForkedStorage(m, c[2], arcOf, grow)
                [] OTHER    -> storage[c]]
  BY DEF Fork
<1>2. m # n /\ m \in live
  BY DEF Fork, Fresh
<1>3. \A c \in P : /\ c \in Cells /\ c[1] = m /\ c \notin reading
                   /\ storage[c].tag = "Owned"
  BY DEF Promoted, Cells
<1>4. \A c \in P : /\ arcOf[c] \in Arcs /\ Free(arcOf[c])
                   /\ heap'[arcOf[c]] = Content(c)
  <2> SUFFICES ASSUME NEW c \in P
               PROVE  /\ arcOf[c] \in Arcs /\ Free(arcOf[c])
                      /\ heap'[arcOf[c]] = Content(c)
    OBVIOUS
  <2>1. arcOf[c] \in Arcs /\ Free(arcOf[c])
    BY <1>1
  <2>2. (CHOOSE d \in P : arcOf[d] = arcOf[c]) = c
    BY <1>1
  <2>3. heap'[arcOf[c]] = storage[c].value
    BY <1>1, <2>1, <2>2
  <2> QED
    BY <1>3, <2>1, <2>3 DEF Content
<1>5. \A a \in Arcs : ~ Free(a) => heap'[a] = heap[a]
  BY <1>1
<1>6. heap' \in [Arcs -> Values]
  <2> SUFFICES ASSUME NEW a \in Arcs  PROVE heap'[a] \in Values
    BY <1>1
  <2>1. CASE \E c \in P : arcOf[c] = a
    <3>1. PICK c \in P : arcOf[c] = a
      BY <2>1
    <3> QED
      BY <3>1, <1>3, <1>4, CellKinds
  <2>2. CASE ~ \E c \in P : arcOf[c] = a
    BY <2>2, <1>1 DEF TypeOK
  <2> QED
    BY <2>1, <2>2
<1> DEFINE ContentIn(s) == IF s.tag = "Owned" THEN s.value ELSE heap'[s.arc]
\* Sharing a cell does not change what it shows.
<1>7. ASSUME NEW c \in Cells, c[1] = m
      PROVE  /\ AfterSharing(m, c, arcOf) \in Storage
             /\ ContentIn(AfterSharing(m, c, arcOf)) = Content(c)
  <2>1. CASE c \in P
    BY <2>1, <1>4, Constructors DEF AfterSharing
  <2>2. CASE c \notin P /\ storage[c].tag = "Shared"
    BY <2>2, <1>5, SharedCellReferences, CellKinds DEF AfterSharing, Content
  <2>3. CASE c \notin P /\ storage[c].tag # "Shared"
    BY <2>3, CellKinds DEF AfterSharing, Content
  <2> QED
    BY <2>1, <2>2, <2>3
<1>8. ASSUME NEW r \in Registries
      PROVE  /\ ForkedStorage(m, r, arcOf, grow) \in Storage
             /\ ContentIn(ForkedStorage(m, r, arcOf, grow)) = Content(<<m, r>>)
  <2>1. <<m, r>> \in Cells /\ <<m, r>>[1] = m
    BY DEF Cells
  <2>2. CASE <<m, r>> \in reading \/ r \in grow
    BY <2>1, <2>2, CellKinds, Constructors DEF ForkedStorage
  <2>3. CASE ~ (<<m, r>> \in reading \/ r \in grow)
    BY <2>1, <2>3, <1>7 DEF ForkedStorage
  <2> QED
    BY <2>2, <2>3
<1>9. ASSUME NEW c \in Cells
      PROVE  /\ storage'[c] \in Storage
             /\ Content(c)' = IF c[1] = n THEN Content(<<m, c[2]>>) ELSE Content(c)
  <2>0. c[1] \in Models /\ c[2] \in Registries
    BY DEF Cells
  <2>1. Content(c)' = ContentIn(storage'[c])
    BY DEF Content
  <2>2. CASE c[1] = m
    <3>1. storage'[c] = AfterSharing(m, c, arcOf)
      BY <1>1, <1>2, <2>2
    <3> QED
      BY <1>2, <1>7, <2>1, <2>2, <3>1
  <2>3. CASE c[1] = n
    <3>1. storage'[c] = ForkedStorage(m, c[2], arcOf, grow)
      BY <1>1, <1>2, <2>3
    <3> QED
      BY <1>8, <2>0, <2>1, <2>3, <3>1
  <2>4. CASE c[1] # m /\ c[1] # n
    <3>1. storage'[c] = storage[c]
      BY <1>1, <2>4
    <3>2. CASE storage[c].tag = "Shared"
      BY <3>1, <3>2, <2>1, <2>4, <1>5, SharedCellReferences, CellKinds DEF Content
    <3>3. CASE storage[c].tag # "Shared"
      BY <3>1, <3>3, <2>1, <2>4, CellKinds DEF Content
    <3> QED
      BY <3>2, <3>3
  <2> QED
    BY <2>2, <2>3, <2>4
<1>10. storage' \in [Cells -> Storage]
  BY <1>1, <1>9
<1>11. \A h \in Handles : handle[h] # None => heap'[handle[h]] = heap[handle[h]]
  BY <1>5, HandleReferences
<1> QED
  BY <1>2, <1>6, <1>9, <1>10, <1>11

\* Taking a snapshot changes the content of no cell; the new snapshot shows the
\* content of the cell it was taken of, and the others show what they showed.
LEMMA SnapshotContent ==
    ASSUME TypeOK, NEW h \in Handles, NEW m \in Models, NEW r \in Registries,
           Snapshot(h, m, r)
    PROVE  /\ storage' \in [Cells -> Storage]
           /\ heap' \in [Arcs -> Values]
           /\ handle' \in [Handles -> Arcs \cup {None}]
           /\ \A c \in Cells : Content(c)' = Content(c)
           /\ handle'[h] # None /\ heap'[handle'[h]] = Content(<<m, r>>)
           /\ \A g \in Handles \ {h} :
                 /\ handle'[g] = handle[g]
                 /\ handle[g] # None => heap'[handle[g]] = heap[handle[g]]
<1> DEFINE s == <<m, r>>
<1> USE NoneAssumption
<1>0. s \in Cells
  BY DEF Cells
<1>1. CASE storage[s].tag = "Shared"
  <2>1. /\ handle' = [handle EXCEPT ![h] = storage[s].arc]
        /\ heap' = heap /\ storage' = storage
    BY <1>1 DEF Snapshot
  <2>2. storage[s].arc \in Arcs
    BY <1>0, <1>1, SharedCellReferences
  <2> QED
    BY <1>0, <1>1, <2>1, <2>2 DEF TypeOK, Content
<1>2. CASE storage[s].tag = "Owned"
  <2>1. PICK a \in Arcs :
          /\ Free(a)
          /\ heap' = [heap EXCEPT ![a] = Content(s)]
          /\ handle' = [handle EXCEPT ![h] = a]
          /\ storage' = IF s \in reading THEN storage
                                         ELSE [storage EXCEPT ![s] = Shared(a)]
    BY <1>2 DEF Snapshot
  <2>2. heap' \in [Arcs -> Values] /\ handle' \in [Handles -> Arcs \cup {None}]
    BY <1>0, <2>1, CellKinds DEF TypeOK
  <2>3. storage' \in [Cells -> Storage]
    BY <2>1, Constructors DEF TypeOK
  <2>4. ASSUME NEW c \in Cells
        PROVE  Content(c)' = Content(c)
    <3>1. CASE c = s /\ s \notin reading
      <4>1. storage'[c] = Shared(a) /\ heap'[a] = Content(s)
        BY <1>0, <2>1, <3>1 DEF TypeOK
      <4> QED
        BY <3>1, <4>1, <2>1, Constructors DEF Content
    <3>2. CASE ~ (c = s /\ s \notin reading)
      <4>1. storage'[c] = storage[c]
        BY <2>1, <3>2 DEF TypeOK
      <4>2. CASE storage[c].tag = "Shared"
        <5>1. storage[c].arc # a /\ storage[c].arc \in Arcs
          BY <4>2, <2>1, SharedCellReferences
        <5>2. heap'[storage[c].arc] = heap[storage[c].arc]
          BY <5>1, <2>1 DEF TypeOK
        <5> QED
          BY <4>1, <5>2 DEF Content
      <4>3. CASE storage[c].tag # "Shared"
        BY <4>1, <4>3, CellKinds DEF Content
      <4> QED
        BY <4>2, <4>3
    <3> QED
      BY <3>1, <3>2
  <2>5. handle'[h] = a /\ heap'[a] = Content(s) /\ a # None
    BY <2>1 DEF TypeOK
  <2>6. ASSUME NEW g \in Handles \ {h}
        PROVE  /\ handle'[g] = handle[g]
               /\ handle[g] # None => heap'[handle[g]] = heap[handle[g]]
    <3>1. handle'[g] = handle[g]
      BY <2>1 DEF TypeOK
    <3>2. ASSUME handle[g] # None
          PROVE  heap'[handle[g]] = heap[handle[g]]
      <4>1. handle[g] # a /\ handle[g] \in Arcs
        BY <3>2, <2>1, HandleReferences
      <4> QED
        BY <4>1, <2>1 DEF TypeOK
    <3> QED
      BY <3>1, <3>2
  <2> QED
    BY <2>2, <2>3, <2>4, <2>5, <2>6
<1> QED
  BY <1>0, <1>1, <1>2, CellKinds

\* Dropping a model empties its cells and leaves all other content alone.
LEMMA DropContent ==
    ASSUME TypeOK, NEW m \in Models, Drop(m)
    PROVE  /\ storage' \in [Cells -> Storage]
           /\ \A c \in Cells : Content(c)' = IF c[1] = m THEN Empty ELSE Content(c)
<1>1. storage' = [c \in Cells |-> IF c[1] = m THEN Owned(Empty) ELSE storage[c]]
      /\ heap' = heap
  BY DEF Drop
<1>2. Owned(Empty) \in Storage /\ Owned(Empty).tag = "Owned" /\ Owned(Empty).value = Empty
  BY EmptyAssumption, Constructors
<1>3. ASSUME NEW c \in Cells
      PROVE  Content(c)' = IF c[1] = m THEN Empty ELSE Content(c)
  BY <1>1, <1>2 DEF Content
<1> QED
  BY <1>1, <1>2, <1>3 DEF TypeOK

-----------------------------------------------------------------------------
(* The inductive invariant *)

LEMMA InitInvariant == RegistryInit => IInv
BY EmptyAssumption, NoneAssumption, MaxRevisionAssumption
   DEF RegistryInit, IInv, TypeOK, KeyInv, Storage, Owned, Revisions

LEMMA TypeStep ==
    ASSUME TypeOK, [RegistryNext]_registryVars
    PROVE  TypeOK'
<1> USE EmptyAssumption, NoneAssumption, MaxRevisionAssumption
<1>1. ASSUME NEW m \in Models, New(m)
      PROVE  TypeOK'
  BY <1>1 DEF New, Fresh, TypeOK
<1>2. ASSUME NEW m \in Models, Drop(m)
      PROVE  TypeOK'
  <2>1. storage' \in [Cells -> Storage]
    BY <1>2, DropContent
  <2>2. revision' \in [Cells -> Revisions]
    BY <1>2 DEF Drop, TypeOK, Revisions
  <2>3. reading' \subseteq live' \X Registries
    BY <1>2 DEF Drop, TypeOK
  <2> QED
    BY <1>2, <2>1, <2>2, <2>3 DEF Drop, TypeOK
<1>3. ASSUME NEW m \in Models, CaptureKey(m)
      PROVE  TypeOK'
  <2>1. \A r \in Registries : <<m, r>> \in Cells
    BY DEF Cells
  <2>2. [revision |-> [r \in Registries |-> revision[<<m, r>>]],
         content  |-> [r \in Registries |-> Content(<<m, r>>)]] \in Keys
    BY <2>1, CellKinds DEF Keys, TypeOK
  <2> QED
    BY <1>3, <2>2 DEF CaptureKey, TypeOK
<1>4. ASSUME NEW m \in Models, NEW n \in Models, NEW grow \in SUBSET Registries,
             Fork(m, n, grow)
      PROVE  TypeOK'
  <2>1. /\ storage' \in [Cells -> Storage]
        /\ heap' \in [Arcs -> Values]
    BY <1>4, ForkContent
  <2>2. \A r \in Registries : ForkedRevision(m, r, grow) \in Revisions
    <3> SUFFICES ASSUME NEW r \in Registries
                 PROVE  ForkedRevision(m, r, grow) \in Revisions
      OBVIOUS
    <3>1. revision[<<m, r>>] \in Nat /\ ForkedRevision(m, r, grow) <= MaxRevision
      BY <1>4 DEF Fork, TypeOK, Revisions, Cells
    <3> QED
      BY <3>1 DEF ForkedRevision, Revisions
  <2>3. revision' \in [Cells -> Revisions]
    BY <1>4, <2>2 DEF Fork, TypeOK, Cells
  <2>4. live' \subseteq Models /\ retired' \subseteq Models \ live'
        /\ reading' \subseteq live' \X Registries
    BY <1>4 DEF Fork, Fresh, TypeOK
  <2> QED
    BY <1>4, <2>1, <2>3, <2>4 DEF Fork, TypeOK
<1>5. ASSUME NEW m \in Models, NEW r \in Registries, NEW v \in Values, Write(m, r, v)
      PROVE  TypeOK'
  <2>1. /\ storage' \in [Cells -> Storage]
        /\ heap' \in [Arcs -> Values]
    BY <1>5, WriteContent
  <2>2. revision' \in [Cells -> Revisions]
    <3>1. <<m, r>> \in Cells
      BY DEF Cells
    <3>2. revision[<<m, r>>] + 1 \in Revisions
      BY <1>5, <3>1 DEF Write, TypeOK, Revisions
    <3> QED
      BY <1>5, <3>1, <3>2 DEF Write, TypeOK
  <2> QED
    BY <1>5, <2>1, <2>2 DEF Write, TypeOK
<1>6. ASSUME NEW m \in Models, NEW r \in Registries, BeginRead(m, r) \/ EndRead(m, r)
      PROVE  TypeOK'
  BY <1>6 DEF BeginRead, EndRead, TypeOK
<1>7. ASSUME NEW h \in Handles, NEW m \in Models, NEW r \in Registries, Snapshot(h, m, r)
      PROVE  TypeOK'
  <2>1. /\ storage' \in [Cells -> Storage]
        /\ heap' \in [Arcs -> Values]
        /\ handle' \in [Handles -> Arcs \cup {None}]
    BY <1>7, SnapshotContent
  <2> QED
    BY <1>7, <2>1 DEF Snapshot, TypeOK
<1>8. ASSUME NEW h \in Handles, Release(h)
      PROVE  TypeOK'
  BY <1>8 DEF Release, TypeOK
<1>9. CASE UNCHANGED registryVars
  BY <1>9 DEF registryVars, TypeOK
<1> QED
  BY <1>1, <1>2, <1>3, <1>4, <1>5, <1>6, <1>7, <1>8, <1>9 DEF RegistryNext

\* A step that keeps the recorded keys, gives no model a second life and changes
\* no live cell's content without advancing its revision keeps the keys sound.
LEMMA KeyFrame ==
    ASSUME IInv, TypeOK', baseline' = baseline,
           live \cup retired \subseteq live' \cup retired',
           \A m \in live' : baseline[m] # None => m \in live,
           \A m \in live \cap live', r \in Registries :
              /\ revision[<<m, r>>] <= revision'[<<m, r>>]
              /\ revision'[<<m, r>>] = revision[<<m, r>>]
                    => Content(<<m, r>>)' = Content(<<m, r>>)
    PROVE  KeyInv'
<1> SUFFICES ASSUME NEW m \in Models, baseline[m] # None
             PROVE  /\ m \in live' \cup retired'
                    /\ m \in live' => \A r \in Registries :
                          /\ baseline[m].revision[r] <= revision'[<<m, r>>]
                          /\ baseline[m].revision[r] = revision'[<<m, r>>]
                                => baseline[m].content[r] = Content(<<m, r>>)'
  BY DEF KeyInv
<1>1. m \in live \cup retired
  BY DEF IInv, KeyInv
<1>2. ASSUME m \in live', NEW r \in Registries
      PROVE  /\ baseline[m].revision[r] <= revision'[<<m, r>>]
             /\ baseline[m].revision[r] = revision'[<<m, r>>]
                   => baseline[m].content[r] = Content(<<m, r>>)'
  <2>1. m \in live
    BY <1>2
  <2>2. /\ baseline[m].revision[r] <= revision[<<m, r>>]
        /\ baseline[m].revision[r] = revision[<<m, r>>]
              => baseline[m].content[r] = Content(<<m, r>>)
    BY <1>2, <2>1 DEF IInv, KeyInv
  <2>3. /\ baseline[m].revision[r] \in Nat
        /\ revision[<<m, r>>] \in Nat
        /\ revision'[<<m, r>>] \in Nat
    BY <1>2 DEF IInv, TypeOK, Cells, Keys, Revisions
  <2>4. /\ revision[<<m, r>>] <= revision'[<<m, r>>]
        /\ revision'[<<m, r>>] = revision[<<m, r>>]
              => Content(<<m, r>>)' = Content(<<m, r>>)
    BY <1>2, <2>1
  <2> QED
    BY <2>2, <2>3, <2>4
<1> QED
  BY <1>1, <1>2

LEMMA KeyStep ==
    ASSUME IInv, [RegistryNext]_registryVars
    PROVE  KeyInv'
<1> USE EmptyAssumption, NoneAssumption, MaxRevisionAssumption
<1>0. TypeOK /\ TypeOK'
  BY TypeStep DEF IInv
<1>c. \A m \in Models, r \in Registries :
         <<m, r>> \in Cells /\ <<m, r>>[1] = m /\ <<m, r>>[2] = r
  BY DEF Cells
<1>n. \A m \in Models, r \in Registries : revision[<<m, r>>] \in Nat
  <2>1. revision \in [Cells -> Revisions]
    BY <1>0 DEF TypeOK
  <2>2. Revisions \subseteq Nat
    BY DEF Revisions
  <2>3. ASSUME NEW m \in Models, NEW r \in Registries
        PROVE  revision[<<m, r>>] \in Nat
    <3>1. <<m, r>> \in Cells
      BY DEF Cells
    <3> QED
      BY <2>1, <2>2, <3>1
  <2> QED
    BY <2>3
<1>l. live \subseteq Models /\ live' \subseteq Models
  BY <1>0 DEF TypeOK
<1>b. \A m \in Models : Fresh(m) => baseline[m] = None
  BY DEF Fresh, IInv, KeyInv
<1>1. ASSUME NEW m \in Models, New(m)
      PROVE  KeyInv'
  BY <1>1, <1>0, <1>b, <1>n, <1>l, KeyFrame DEF New, Content
<1>2. ASSUME NEW m \in Models, Drop(m)
      PROVE  KeyInv'
  <2>1. \A c \in Cells : c[1] # m => /\ Content(c)' = Content(c)
                                     /\ revision'[c] = revision[c]
    BY <1>2, <1>0, DropContent DEF Drop
  <2>2. /\ baseline' = baseline /\ live' = live \ {m}
        /\ retired' = retired \cup {m}
    BY <1>2 DEF Drop
  <2> QED
    BY <2>1, <2>2, <1>0, <1>c, <1>n, <1>l, KeyFrame
<1>3. ASSUME NEW m \in Models, CaptureKey(m)
      PROVE  KeyInv'
  <2>1. /\ live' = live /\ retired' = retired /\ revision' = revision
        /\ \A c \in Cells : Content(c)' = Content(c)
        /\ m \in live
    BY <1>3 DEF CaptureKey, Content
  <2>2. ASSUME NEW k \in Models, baseline'[k] # None, k # m
        PROVE  baseline'[k] = baseline[k]
    BY <1>3, <1>0, <2>2 DEF CaptureKey, TypeOK
  <2>3. \A r \in Registries : /\ baseline'[m].revision[r] = revision[<<m, r>>]
                              /\ baseline'[m].content[r] = Content(<<m, r>>)
    BY <1>3, <1>0 DEF CaptureKey, TypeOK
  <2>4. SUFFICES ASSUME NEW k \in Models, baseline'[k] # None
                 PROVE  /\ k \in live \cup retired
                        /\ k \in live => \A r \in Registries :
                              /\ baseline'[k].revision[r] <= revision[<<k, r>>]
                              /\ baseline'[k].revision[r] = revision[<<k, r>>]
                                    => baseline'[k].content[r] = Content(<<k, r>>)
    BY <2>1, <1>c DEF KeyInv
  <2>5. CASE k = m
    BY <2>1, <2>3, <2>5, <1>n
  <2>6. CASE k # m
    BY <2>2, <2>4, <2>6 DEF IInv, KeyInv
  <2> QED
    BY <2>5, <2>6
<1>4. ASSUME NEW m \in Models, NEW n \in Models, NEW grow \in SUBSET Registries,
             Fork(m, n, grow)
      PROVE  KeyInv'
  <2>0. revision' = [c \in Cells |-> IF c[1] = n THEN ForkedRevision(m, c[2], grow)
                                                 ELSE revision[c]]
    BY <1>4 DEF Fork
  <2>1. \A c \in Cells : c[1] # n => revision'[c] = revision[c]
    BY <2>0
  <2>3. \A c \in Cells : c[1] # n => Content(c)' = Content(c)
    <3>1. \A c \in Cells :
             Content(c)' = IF c[1] = n THEN Content(<<m, c[2]>>) ELSE Content(c)
      BY <1>4, <1>0, ForkContent
    <3> QED
      BY <3>1
  <2>2. /\ baseline' = baseline /\ live' = live \cup {n} /\ retired' = retired
        /\ n \notin live /\ baseline[n] = None
    BY <1>4, <1>b DEF Fork, Fresh
  <2> QED
    BY <2>1, <2>2, <2>3, <1>0, <1>c, <1>n, <1>l, KeyFrame
<1>5. ASSUME NEW m \in Models, NEW r \in Registries, NEW v \in Values, Write(m, r, v)
      PROVE  KeyInv'
  <2> DEFINE w == <<m, r>>
  <2>1. /\ \A c \in Cells : Content(c)' = IF c = w THEN v ELSE Content(c)
        /\ w \in Cells
    BY <1>5, <1>0, <1>c, WriteContent
  <2>2. /\ baseline' = baseline /\ live' = live /\ retired' = retired
        /\ revision' = [revision EXCEPT ![w] = revision[w] + 1]
    BY <1>5 DEF Write
  <2>3. \A c \in Cells : /\ revision[c] <= revision'[c]
                         /\ revision'[c] = revision[c] => Content(c)' = Content(c)
    BY <2>1, <2>2, <1>0 DEF TypeOK, Revisions
  <2> QED
    BY <2>2, <2>3, <1>0, <1>c, <1>l, KeyFrame
<1>6. ASSUME NEW m \in Models, NEW r \in Registries, BeginRead(m, r) \/ EndRead(m, r)
      PROVE  KeyInv'
  BY <1>6, <1>0, <1>n, <1>l, KeyFrame DEF BeginRead, EndRead, Content
<1>7. ASSUME NEW h \in Handles, NEW m \in Models, NEW r \in Registries, Snapshot(h, m, r)
      PROVE  KeyInv'
  <2>1. \A c \in Cells : Content(c)' = Content(c)
    BY <1>7, <1>0, SnapshotContent
  <2>2. /\ baseline' = baseline /\ live' = live /\ retired' = retired
        /\ revision' = revision
    BY <1>7 DEF Snapshot
  <2> QED
    BY <2>1, <2>2, <1>0, <1>c, <1>n, <1>l, KeyFrame
<1>8. ASSUME NEW h \in Handles, Release(h)
      PROVE  KeyInv'
  BY <1>8, <1>0, <1>n, <1>l, KeyFrame DEF Release, Content
<1>9. CASE UNCHANGED registryVars
  BY <1>9, <1>0, <1>n, <1>l, KeyFrame DEF registryVars, Content
<1> QED
  BY <1>1, <1>2, <1>3, <1>4, <1>5, <1>6, <1>7, <1>8, <1>9 DEF RegistryNext

LEMMA Invariance == RegistrySpec => []IInv
<1>1. IInv /\ [RegistryNext]_registryVars => IInv'
  BY TypeStep, KeyStep DEF IInv
<1> QED
  BY InitInvariant, <1>1, PTL DEF RegistrySpec

-----------------------------------------------------------------------------
(* The theorems *)

\* Cells, heap, revisions and snapshots keep their types: no reference dangles.
THEOREM TypeCorrect == RegistrySpec => []TypeOK
<1>1. IInv => TypeOK
  BY DEF IInv
<1> QED
  BY Invariance, <1>1, PTL

\* Equal update keys mean equal content (Model::__update_key): a persistent
\* solver that compares keys never solves a model that changed behind its back.
THEOREM UpdateKeysAreSound == RegistrySpec => []KeySound
<1>1. IInv => KeySound
  BY DEF IInv, TypeOK, KeyInv, KeySound
<1> QED
  BY Invariance, <1>1, PTL

\* Under a held Ref, neither the data nor its place changes.
THEOREM GuardsAreStable == RegistrySpec => GuardedStable
<1>1. ASSUME IInv, [RegistryNext]_registryVars
      PROVE  \A c \in reading \cap reading' :
                storage'[c] = storage[c] /\ Content(c)' = Content(c)
  <2> SUFFICES ASSUME NEW c \in reading, c \in reading'
               PROVE  storage'[c] = storage[c] /\ Content(c)' = Content(c)
    OBVIOUS
  <2>0. TypeOK /\ c \in Cells /\ c[1] \in live
    BY <1>1 DEF IInv, TypeOK, Cells
  <2>1. CASE \E m \in Models : New(m) \/ CaptureKey(m)
    BY <2>1 DEF New, CaptureKey, Content
  <2>2. ASSUME NEW m \in Models, Drop(m)
        PROVE  storage'[c] = storage[c] /\ Content(c)' = Content(c)
    <3>1. c[1] # m
      BY <2>2, <2>0 DEF Drop, Cells
    <3> QED
      BY <2>2, <2>0, <3>1 DEF Drop, Content
  <2>3. ASSUME NEW m \in Models, NEW n \in Models, NEW grow \in SUBSET Registries,
               Fork(m, n, grow)
        PROVE  storage'[c] = storage[c] /\ Content(c)' = Content(c)
    <3>1. c[1] # n /\ n # m
      BY <2>3, <2>0 DEF Fork, Fresh
    <3>2. Content(c)' = Content(c)
      <4>1. \A d \in Cells :
               Content(d)' = IF d[1] = n THEN Content(<<m, d[2]>>) ELSE Content(d)
        BY <2>3, <2>0, ForkContent
      <4>2. Content(c)' = IF c[1] = n THEN Content(<<m, c[2]>>) ELSE Content(c)
        BY ONLY <4>1, <2>0
      <4>3. QED
        BY ONLY <4>2, <3>1
    <3>3. c \notin Promoted(m)
      BY DEF Promoted
    <3>4. storage'[c] = storage[c]
      BY <2>3, <2>0, <3>1, <3>3 DEF Fork, AfterSharing
    <3> QED
      BY <3>2, <3>4
  <2>4. ASSUME NEW m \in Models, NEW r \in Registries, NEW v \in Values, Write(m, r, v)
        PROVE  storage'[c] = storage[c] /\ Content(c)' = Content(c)
    <3>1. c # <<m, r>>
      BY <2>4 DEF Write
    <3>2. storage'[c] = storage[c]
      BY <2>4, <2>0, <3>1 DEF Write, TypeOK
    <3> QED
      BY <2>4, <2>0, <3>1, <3>2, WriteContent
  <2>5. CASE \E m \in Models, r \in Registries : BeginRead(m, r) \/ EndRead(m, r)
    BY <2>5 DEF BeginRead, EndRead, Content
  <2>6. ASSUME NEW h \in Handles, NEW m \in Models, NEW r \in Registries,
               Snapshot(h, m, r)
        PROVE  storage'[c] = storage[c] /\ Content(c)' = Content(c)
    <3>1. storage'[c] = storage[c]
      BY <2>6, <2>0 DEF Snapshot, TypeOK
    <3> QED
      BY <2>6, <2>0, <3>1, SnapshotContent
  <2>7. CASE \E h \in Handles : Release(h)
    BY <2>7 DEF Release, Content
  <2>8. CASE UNCHANGED registryVars
    BY <2>8 DEF registryVars, Content
  <2> QED
    BY <1>1, <2>1, <2>2, <2>3, <2>4, <2>5, <2>6, <2>7, <2>8 DEF RegistryNext
<1> QED
  BY Invariance, <1>1, PTL DEF RegistrySpec, GuardedStable

-----------------------------------------------------------------------------
(* Refinement *)

\* The content and the snapshots of the abstract state, in one place.
AbstractContent == [c \in Cells |-> Content(c)]
AbstractView == [h \in Handles |-> IF handle[h] = None THEN None ELSE heap[handle[h]]]

\* A step that changes neither contents nor snapshots nor models is a stutter.
LEMMA Stutter ==
    ASSUME live' = live, retired' = retired,
           \A c \in Cells : Content(c)' = Content(c),
           \A h \in Handles : /\ handle'[h] = handle[h]
                              /\ handle[h] # None => heap'[handle[h]] = heap[handle[h]]
    PROVE  UNCHANGED Abstract!vars
<1>1. AbstractContent' = AbstractContent
  BY DEF AbstractContent
<1>2. AbstractView' = AbstractView
  BY DEF AbstractView
<1> QED
  BY <1>1, <1>2 DEF Abstract!vars, AbstractContent, AbstractView

LEMMA RefinementStep ==
    ASSUME IInv, [RegistryNext]_registryVars
    PROVE  [Abstract!Next]_(Abstract!vars)
<1> USE DEF Cells
<1>0. TypeOK
  BY DEF IInv
<1>1. ASSUME NEW m \in Models, New(m)
      PROVE  Abstract!New(m)
  BY <1>1 DEF New, Fresh, Abstract!New, Content
<1>2. ASSUME NEW m \in Models, Drop(m)
      PROVE  Abstract!Drop(m)
  <2>1. AbstractContent' = [c \in Cells |-> IF c[1] = m THEN Empty ELSE AbstractContent[c]]
    <3>1. \A c \in Cells : Content(c)' = IF c[1] = m THEN Empty ELSE Content(c)
      BY <1>0, <1>2, DropContent
    <3> QED
      BY <3>1 DEF AbstractContent
  <2> QED
    BY <1>2, <2>1 DEF Drop, Abstract!Drop, AbstractContent
<1>3. ASSUME NEW m \in Models, CaptureKey(m)
      PROVE  UNCHANGED Abstract!vars
  BY <1>3, Stutter DEF CaptureKey, Content
<1>4. ASSUME NEW m \in Models, NEW n \in Models, NEW grow \in SUBSET Registries,
             Fork(m, n, grow)
      PROVE  Abstract!Fork(m, n)
  <2>1. /\ \A c \in Cells :
              Content(c)' = IF c[1] = n THEN Content(<<m, c[2]>>) ELSE Content(c)
        /\ \A h \in Handles : handle[h] # None => heap'[handle[h]] = heap[handle[h]]
    BY <1>4, <1>0, ForkContent
  <2>2. /\ m \in live /\ n \notin live \cup retired /\ live' = live \cup {n}
        /\ retired' = retired /\ handle' = handle
    BY <1>4 DEF Fork, Fresh
  <2>3. AbstractContent' = [c \in Cells |->
              IF c[1] = n THEN AbstractContent[<<m, c[2]>>] ELSE AbstractContent[c]]
    BY <2>1 DEF AbstractContent
  <2>4. AbstractView' = AbstractView
    BY <2>1, <2>2 DEF AbstractView
  <2> QED
    BY <2>2, <2>3, <2>4 DEF Abstract!Fork, AbstractContent, AbstractView
<1>5. ASSUME NEW m \in Models, NEW r \in Registries, NEW v \in Values, Write(m, r, v)
      PROVE  Abstract!Write(m, r, v)
  <2>1. /\ \A c \in Cells : Content(c)' = IF c = <<m, r>> THEN v ELSE Content(c)
        /\ \A h \in Handles : handle[h] # None => heap'[handle[h]] = heap[handle[h]]
    BY <1>5, <1>0, WriteContent
  <2>2. /\ m \in live /\ live' = live /\ retired' = retired /\ handle' = handle
    BY <1>5 DEF Write
  <2>3. AbstractContent' = [AbstractContent EXCEPT ![<<m, r>>] = v]
    BY <2>1 DEF AbstractContent
  <2>4. AbstractView' = AbstractView
    BY <2>1, <2>2 DEF AbstractView
  <2> QED
    BY <2>2, <2>3, <2>4 DEF Abstract!Write, AbstractContent, AbstractView
<1>6. ASSUME NEW m \in Models, NEW r \in Registries, BeginRead(m, r) \/ EndRead(m, r)
      PROVE  UNCHANGED Abstract!vars
  BY <1>6, Stutter DEF BeginRead, EndRead, Content
<1>7. ASSUME NEW h \in Handles, NEW m \in Models, NEW r \in Registries, Snapshot(h, m, r)
      PROVE  Abstract!Snapshot(h, m, r)
  <2>1. /\ \A c \in Cells : Content(c)' = Content(c)
        /\ handle'[h] # None /\ heap'[handle'[h]] = Content(<<m, r>>)
        /\ \A g \in Handles \ {h} :
              /\ handle'[g] = handle[g]
              /\ handle[g] # None => heap'[handle[g]] = heap[handle[g]]
    BY <1>7, <1>0, SnapshotContent
  <2>2. m \in live /\ handle[h] = None /\ live' = live /\ retired' = retired
    BY <1>7 DEF Snapshot
  <2>3. AbstractContent' = AbstractContent /\ AbstractContent[<<m, r>>] = Content(<<m, r>>)
    BY <2>1 DEF AbstractContent
  <2>4. AbstractView' = [AbstractView EXCEPT ![h] = Content(<<m, r>>)]
    BY <2>1, <2>2 DEF AbstractView
  <2>5. AbstractView[h] = None
    BY <2>2 DEF AbstractView
  <2> QED
    BY <2>2, <2>3, <2>4, <2>5 DEF Abstract!Snapshot, AbstractContent, AbstractView
<1>8. ASSUME NEW h \in Handles, Release(h)
      PROVE  Abstract!Release(h)
  <2>1. AbstractView' = [AbstractView EXCEPT ![h] = None]
    BY <1>8, <1>0 DEF Release, AbstractView, TypeOK
  <2>2. AbstractContent' = AbstractContent /\ live' = live /\ retired' = retired
    BY <1>8 DEF Release, AbstractContent, Content
  <2> QED
    BY <2>1, <2>2 DEF Abstract!Release, AbstractContent, AbstractView
<1>9. CASE UNCHANGED registryVars
  BY <1>9, Stutter DEF registryVars, Content
<1> QED
  BY <1>1, <1>2, <1>3, <1>4, <1>5, <1>6, <1>7, <1>8, <1>9 DEF RegistryNext, Abstract!Next

LEMMA RefinementInit == RegistryInit => Abstract!Init
<1> SUFFICES ASSUME RegistryInit PROVE Abstract!Init
  OBVIOUS
<1>1. AbstractContent = [c \in Cells |-> Empty]
  BY DEF RegistryInit, AbstractContent, Content, Owned
<1>2. AbstractView = [h \in Handles |-> None]
  BY DEF RegistryInit, AbstractView
<1> QED
  BY <1>1, <1>2 DEF RegistryInit, Abstract!Init, AbstractContent, AbstractView, Cells

\* Copy-on-write storage implements independent models, for any number of
\* models, registries and allocations.
THEOREM CopyOnWriteIsInvisible == RegistrySpec => ImplementsIndependentModels
<1>1. IInv /\ [RegistryNext]_registryVars => [Abstract!Next]_(Abstract!vars)
  BY RefinementStep
<1> QED
  BY RefinementInit, Invariance, <1>1, PTL DEF RegistrySpec, ImplementsIndependentModels, Abstract!Spec

-----------------------------------------------------------------------------
BoundOver(n) == [parameter : 0..n, value : Int]

\* A variable whose bounds are numbers or one of the first n parameters.
IsVariable(x, n) ==
    /\ x = [name |-> x.name, domain |-> x.domain, threshold |-> x.threshold,
            lb |-> x.lb, ub |-> x.ub]
    /\ x.lb \in BoundOver(n) /\ x.ub \in BoundOver(n)

Shape ==
    /\ values \in Seq(Int)
    /\ IsList(vars) /\ \A v \in 1..Len(vars) : IsVariable(vars[v], Len(values))
    /\ IsList(dependents) /\ Len(dependents) = Len(values)

\* Bounds of a variable that a model accepts.
Feasible(x, assignment) ==
    LET lower == Resolve(x.lb, assignment)
        upper == Resolve(x.ub, assignment)
    IN /\ ValidBounds(lower, upper)
       /\ x.domain = "Binary" => {lower, upper} \subseteq {0, 1} /\ ParametersOf({x.lb, x.ub}) = {}

EditInv ==
    /\ Shape
    /\ BoundIndexExact
    /\ \A v \in 1..Len(vars) : Feasible(vars[v], values)

LEMMA BoundsFollow == EditInv => BoundsStayFeasible
  <1> SUFFICES ASSUME EditInv PROVE BoundsStayFeasible
    OBVIOUS
  <1>1. DOMAIN vars = 1..Len(vars)
    BY ListFacts DEF EditInv, Shape
  <1> QED BY <1>1 DEF EditInv, BoundsStayFeasible, Feasible, Lower, Upper

\* What the parameters of two bounds are.
LEMMA TwoParameters ==
    ASSUME NEW a, NEW b, NEW p
    PROVE  p \in ParametersOf({a, b}) <=> p # 0 /\ (p = a.parameter \/ p = b.parameter)
  BY DEF ParametersOf

\* A bound resolves to a number, and to the same under values that agree on its parameter.
LEMMA ResolveType ==
    ASSUME NEW f \in Seq(Int), NEW b \in BoundOver(Len(f))
    PROVE  Resolve(b, f) \in Int
  <1>1. b.parameter \in 0..Len(f) /\ b.value \in Int /\ Len(f) \in Nat
    BY DEF BoundOver
  <1>2. b.parameter # 0 => f[b.parameter] \in Int
    BY <1>1
  <1> QED BY <1>1, <1>2 DEF Resolve

LEMMA ResolveAgrees ==
    ASSUME NEW f, NEW g, NEW n \in Nat, NEW b \in BoundOver(n), \A p \in 1..n : g[p] = f[p]
    PROVE  Resolve(b, g) = Resolve(b, f)
  <1>1. b.parameter \in 0..n
    BY DEF BoundOver
  <1> QED BY <1>1 DEF Resolve

\* The arena forgets a variable's old bounds wherever they are indexed.
LEMMA Forgotten ==
    ASSUME Shape, BoundIndexExact, NEW v \in 1..Len(vars), NEW p \in 1..Len(values)
    PROVE  ForgetCheck(v, dependents)[p] = dependents[p] \ {v}
  <1>1. DOMAIN vars = 1..Len(vars) /\ DOMAIN dependents = 1..Len(values) /\ DOMAIN values = 1..Len(values)
    BY ListFacts DEF Shape
  <1>2. dependents[p] = {w \in 1..Len(vars) : p \in ParametersOf({vars[w].lb, vars[w].ub})}
    BY <1>1 DEF BoundIndexExact
  <1>3. v \in DOMAIN checks <=> ParametersOf({vars[v].lb, vars[v].ub}) # {}
    BY <1>1 DEF BoundIndexExact
  <1>4. CASE v \in DOMAIN checks
    <2>1. checks[v] = [lower |-> vars[v].lb, upper |-> vars[v].ub]
      BY <1>4 DEF BoundIndexExact
    <2>2. checks[v].lower = vars[v].lb /\ checks[v].upper = vars[v].ub
      BY <2>1
    <2>3. p \in ParametersOf({checks[v].lower, checks[v].upper}) <=> p \in ParametersOf({vars[v].lb, vars[v].ub})
      BY <2>2
    <2>4. v \in dependents[p] <=> p \in ParametersOf({vars[v].lb, vars[v].ub})
      BY <1>2
    <2>5. ForgetCheck(v, dependents)[p] = IF p \in ParametersOf({checks[v].lower, checks[v].upper})
                                        THEN dependents[p] \ {v} ELSE dependents[p]
      BY <1>1, <1>4 DEF ForgetCheck
    <2> QED BY <2>3, <2>4, <2>5
  <1>5. CASE v \notin DOMAIN checks
    <2>1. v \notin dependents[p]
      BY <1>2, <1>3, <1>5
    <2> QED BY <1>5, <2>1 DEF ForgetCheck
  <1> QED BY <1>4, <1>5

\* Storing bounds keeps the arena's checks and index exact.
LEMMA StoreBoundsKeeps ==
    ASSUME EditInv, NEW v \in 1..Len(vars), NEW lb \in BoundOver(Len(values)),
           NEW ub \in BoundOver(Len(values)), StoreBounds(v, lb, ub),
           Feasible([vars[v] EXCEPT !.lb = lb, !.ub = ub], values)
    PROVE  /\ EditInv' /\ Len(vars') = Len(vars)
           /\ \A w \in 1..Len(vars) : w # v => vars'[w] = vars[w]
           /\ vars'[v] = [vars[v] EXCEPT !.lb = lb, !.ub = ub]
  <1>1. PICK n, x : n = Len(vars) /\ x = [vars[v] EXCEPT !.lb = lb, !.ub = ub]
    OBVIOUS
  <1>2. n \in Nat /\ DOMAIN vars = 1..n /\ values \in Seq(Int) /\ DOMAIN values = 1..Len(values)
    BY <1>1, ListFacts DEF EditInv, Shape
  <1>3. vars' = [vars EXCEPT ![v] = x]
    <2>1. vars' = [vars EXCEPT ![v].lb = lb, ![v].ub = ub]
      BY DEF StoreBounds
    <2> QED BY <1>1, <1>2, <2>1
  <1>4. IsVariable(vars[v], Len(values))
    BY DEF EditInv, Shape
  <1>5. /\ x = [name |-> vars[v].name, domain |-> vars[v].domain, threshold |-> vars[v].threshold,
                lb |-> lb, ub |-> ub]
        /\ x.lb = lb /\ x.ub = ub
    BY <1>1, <1>4 DEF IsVariable
  <1>6. IsVariable(x, Len(values))
    BY <1>5 DEF IsVariable
  <1>7. /\ DOMAIN vars' = 1..n /\ vars' = [w \in 1..n |-> vars'[w]] /\ vars'[v] = x
        /\ \A w \in 1..n : w # v => vars'[w] = vars[w]
    BY <1>1, <1>2, <1>3
  <1>8. IsList(vars') /\ Len(vars') = n
    BY <1>2, <1>7, ListOf
  <1>9. UNCHANGED values /\ Len(values') = Len(values)
    BY DEF StoreBounds
  <1>10. /\ DOMAIN dependents' = DOMAIN dependents
         /\ \A p \in 1..Len(values) : dependents'[p] = IF p \in ParametersOf({lb, ub})
                                                     THEN (dependents[p] \ {v}) \cup {v}
                                                     ELSE dependents[p] \ {v}
    <2>1. dependents' = [p \in DOMAIN dependents |->
                           IF p \in ParametersOf({lb, ub})
                           THEN ForgetCheck(v, dependents)[p] \cup {v} ELSE ForgetCheck(v, dependents)[p]]
      BY DEF StoreBounds, SetBoundCheck
    <2>2. DOMAIN dependents = 1..Len(values)
      BY ListFacts DEF EditInv, Shape
    <2>3. \A p \in 1..Len(values) : ForgetCheck(v, dependents)[p] = dependents[p] \ {v}
      BY Forgotten DEF EditInv
    <2> QED BY <2>1, <2>2, <2>3
  <1>11. IsList(dependents') /\ Len(dependents') = Len(values)
    <2>1. DOMAIN dependents = 1..Len(values) /\ Len(values) \in Nat
      BY ListFacts DEF EditInv, Shape
    <2>2. dependents' = [p \in DOMAIN dependents |-> dependents'[p]]
      BY DEF StoreBounds, SetBoundCheck
    <2> QED BY <1>10, <2>1, <2>2, ListOf
  <1>12. Shape'
    <2>1. \A w \in 1..n : IsVariable(vars'[w], Len(values))
      BY <1>1, <1>6, <1>7 DEF EditInv, Shape
    <2> QED BY <1>2, <1>8, <1>9, <1>11, <2>1 DEF Shape
  <1>13. \A w \in 1..n : Feasible(vars'[w], values)
    BY <1>1, <1>7 DEF EditInv
  <1>14. BoundIndexExact'
    <2>1. \A p \in 1..Len(values) : dependents[p] = {w \in 1..n : p \in ParametersOf({vars[w].lb, vars[w].ub})}
      BY <1>2 DEF EditInv, BoundIndexExact
    <2>2. \A p \in 1..Len(values) :
             dependents'[p] = {w \in 1..n : p \in ParametersOf({vars'[w].lb, vars'[w].ub})}
      <3> SUFFICES ASSUME NEW p \in 1..Len(values)
                   PROVE  dependents'[p] = {w \in 1..n : p \in ParametersOf({vars'[w].lb, vars'[w].ub})}
        OBVIOUS
      <3>1. \A w \in 1..n : w # v => (w \in dependents'[p] <=> p \in ParametersOf({vars'[w].lb, vars'[w].ub}))
        BY <1>7, <1>10, <2>1
      <3>2. v \in dependents'[p] <=> p \in ParametersOf({lb, ub})
        BY <1>10
      <3>3. vars'[v].lb = lb /\ vars'[v].ub = ub /\ v \in 1..n
        BY <1>1, <1>5, <1>7
      <3>4. \A w \in dependents'[p] : w \in 1..n
        BY <1>1, <1>10, <2>1
      <3> QED BY <3>1, <3>2, <3>3, <3>4
    <2>3. DOMAIN checks = {w \in 1..n : ParametersOf({vars[w].lb, vars[w].ub}) # {}}
      BY <1>2 DEF EditInv, BoundIndexExact
    <2>4. /\ DOMAIN checks' = IF ParametersOf({lb, ub}) = {} THEN DOMAIN checks \ {v}
                              ELSE (DOMAIN checks \ {v}) \cup {v}
          /\ \A w \in DOMAIN checks' :
                checks'[w] = IF w = v THEN [lower |-> lb, upper |-> ub] ELSE checks[w]
      BY DEF StoreBounds, SetBoundCheck
    <2>5. DOMAIN checks' = {w \in 1..n : ParametersOf({vars'[w].lb, vars'[w].ub}) # {}}
      <3>1. vars'[v].lb = lb /\ vars'[v].ub = ub /\ v \in 1..n
        BY <1>1, <1>5, <1>7
      <3> QED BY <1>7, <2>3, <2>4, <3>1
    <2>6. \A w \in DOMAIN checks' : checks'[w] = [lower |-> vars'[w].lb, upper |-> vars'[w].ub]
      <3>1. \A w \in DOMAIN checks : checks[w] = [lower |-> vars[w].lb, upper |-> vars[w].ub]
        BY DEF EditInv, BoundIndexExact
      <3>2. vars'[v].lb = lb /\ vars'[v].ub = ub
        BY <1>1, <1>5, <1>7
      <3> QED BY <1>7, <2>3, <2>4, <2>5, <3>1, <3>2
    <2> QED BY <1>2, <1>7, <1>9, <2>2, <2>5, <2>6 DEF BoundIndexExact
  <1> QED BY <1>1, <1>7, <1>8, <1>9, <1>12, <1>13, <1>14 DEF EditInv

-----------------------------------------------------------------------------
(* The actions on variables and parameters *)

LEMMA FixVarKeeps ==
    ASSUME EditInv, NEW v \in 1..Len(vars), NEW n \in Numbers, NEW frozen, FixVar(v, n, frozen)
    PROVE  EditInv' /\ v \notin frozen /\ StoreBounds(v, Fixed(n), Fixed(n))
  <1>1. n \in Int /\ n # Huge /\ n # -Huge /\ Huge \in Nat
    BY HugeAssumption
  <1>2. Len(values) \in Nat
    BY DEF EditInv, Shape
  <1>3. PICK b : b = Fixed(n)
    OBVIOUS
  <1>4. b \in BoundOver(Len(values)) /\ b.parameter = 0 /\ b.value = n
    BY <1>1, <1>2, <1>3 DEF Fixed, BoundOver
  <1>5. IsVariable(vars[v], Len(values))
    BY DEF EditInv, Shape
  <1>6. PICK x : x = [vars[v] EXCEPT !.lb = b, !.ub = b]
    OBVIOUS
  <1>7. x.lb = b /\ x.ub = b /\ x.domain = vars[v].domain
    BY <1>5, <1>6 DEF IsVariable
  <1>8. Resolve(x.lb, values) = n /\ Resolve(x.ub, values) = n
    BY <1>4, <1>7 DEF Resolve
  <1>9. ParametersOf({x.lb, x.ub}) = {}
    BY <1>4, <1>7 DEF ParametersOf
  <1>10. x.domain = "Binary" => n \in {0, 1}
    <2> SUFFICES ASSUME x.domain = "Binary" PROVE n \in {0, 1}
      OBVIOUS
    <2>1. Lower(v) \in {0, 1} /\ Upper(v) \in {0, 1}
      BY <1>7 DEF EditInv, Feasible, Lower, Upper
    <2>2. Lower(v) <= n /\ n <= Upper(v)
      BY <1>7 DEF FixVar, MayFix, IsSemi
    <2> QED BY <1>1, <2>1, <2>2
  <1>11. Feasible(x, values)
    <2>1. ValidBounds(n, n)
      BY <1>1 DEF ValidBounds
    <2>2. x.domain = "Binary" => {n, n} \subseteq {0, 1}
      BY <1>10
    <2> QED BY <1>8, <1>9, <2>1, <2>2 DEF Feasible
  <1>12. StoreBounds(v, b, b) /\ v \notin frozen
    BY <1>3 DEF FixVar
  <1>13. EditInv'
    BY <1>4, <1>6, <1>11, <1>12, StoreBoundsKeeps
  <1> QED BY <1>3, <1>12, <1>13

LEMMA SetBoundsKeeps ==
    ASSUME EditInv, NEW v \in 1..Len(vars), NEW lb \in BoundOver(Len(values)),
           NEW ub \in BoundOver(Len(values)), NEW frozen, SetBounds(v, lb, ub, frozen)
    PROVE  EditInv' /\ v \notin frozen /\ StoreBounds(v, lb, ub)
  <1>1. IsVariable(vars[v], Len(values))
    BY DEF EditInv, Shape
  <1>2. PICK x : x = [vars[v] EXCEPT !.lb = lb, !.ub = ub]
    OBVIOUS
  <1>3. x.lb = lb /\ x.ub = ub /\ x.domain = vars[v].domain
    BY <1>1, <1>2 DEF IsVariable
  <1>4. BoundsFit(v, lb, ub) /\ StoreBounds(v, lb, ub) /\ v \notin frozen
    BY DEF SetBounds
  <1>5. Feasible(x, values)
    BY <1>3, <1>4 DEF BoundsFit, Feasible, MayTakeParameters
  <1>6. EditInv'
    BY <1>2, <1>4, <1>5, StoreBoundsKeeps
  <1> QED BY <1>4, <1>6

\* Variables added at the end, with bounds that fit: their checks are recorded
\* when their bounds take parameters.
Adds(more) ==
    /\ IsList(more) /\ vars' = vars \o more
    /\ \A i \in 1..Len(more) : IsVariable(more[i], Len(values)) /\ Feasible(more[i], values)

LEMMA GrownVariables ==
    ASSUME EditInv, NEW more, Adds(more), UNCHANGED values
    PROVE  /\ Len(vars) \in Nat /\ Len(more) \in Nat
           /\ Len(vars') = Len(vars) + Len(more) /\ DOMAIN vars' = 1..Len(vars) + Len(more)
           /\ IsList(vars')
           /\ \A v \in 1..Len(vars) : vars'[v] = vars[v]
           /\ \A i \in 1..Len(more) : vars'[Len(vars) + i] = more[i]
           /\ \A v \in 1..Len(vars') :
                IsVariable(vars'[v], Len(values)) /\ Feasible(vars'[v], values)
  <1>1. IsList(vars) /\ IsList(more)
    BY DEF EditInv, Shape, Adds
  <1>2. /\ IsList(vars') /\ Len(vars') = Len(vars) + Len(more)
        /\ \A v \in 1..Len(vars) : vars'[v] = vars[v]
        /\ \A i \in 1..Len(more) : vars'[Len(vars) + i] = more[i]
    BY <1>1, JoinedLists DEF Adds
  <1>3. Len(vars) \in Nat /\ Len(more) \in Nat /\ DOMAIN vars' = 1..Len(vars')
    BY <1>1, <1>2, ListFacts
  <1>4. ASSUME NEW v \in 1..Len(vars')
        PROVE  IsVariable(vars'[v], Len(values)) /\ Feasible(vars'[v], values)
    <2>1. CASE v <= Len(vars)
      <3>1. v \in 1..Len(vars)
        BY <1>3, <2>1
      <3> QED BY <1>2, <3>1 DEF EditInv, Shape
    <2>2. CASE ~ (v <= Len(vars))
      <3>1. v - Len(vars) \in 1..Len(more) /\ Len(vars) + (v - Len(vars)) = v
        BY <1>2, <1>3, <2>2
      <3>2. vars'[v] = more[v - Len(vars)]
        BY <1>2, <3>1
      <3> QED BY <3>1, <3>2 DEF Adds
    <2> QED BY <2>1, <2>2
  <1> QED BY <1>2, <1>3, <1>4

LEMMA RegisterVarsKeeps ==
    ASSUME EditInv, NEW batch, IsList(batch), NEW lb \in BoundOver(Len(values)),
           NEW ub \in BoundOver(Len(values)), RegisterVars(batch, "Real", 0, lb, ub)
    PROVE  EditInv' /\ Len(vars) <= Len(vars') /\ \A v \in 1..Len(vars) : vars'[v] = vars[v]
  <1> DEFINE Of(name) == [name |-> name, domain |-> "Real", threshold |-> 0, lb |-> lb, ub |-> ub]
  <1>1. PICK more, k : more = [i \in DOMAIN batch |-> Of(batch[i])] /\ k = Len(batch)
    OBVIOUS
  <1>2. k \in Nat /\ DOMAIN batch = 1..k
    BY <1>1, ListFacts
  <1>3. /\ DOMAIN more = 1..k /\ more = [i \in 1..k |-> more[i]]
        /\ \A i \in 1..k : more[i] = Of(batch[i])
    BY <1>1, <1>2
  <1>4. IsList(more) /\ Len(more) = k
    BY <1>2, <1>3, ListOf
  <1>5. vars' = vars \o more
    BY <1>1 DEF RegisterVars
  <1>6. ASSUME NEW i \in 1..k PROVE IsVariable(more[i], Len(values)) /\ Feasible(more[i], values)
    <2>1. more[i] = Of(batch[i])
      BY <1>3
    <2>2. more[i].lb = lb /\ more[i].ub = ub /\ more[i].domain = "Real"
      BY <2>1
    <2>3. IsVariable(more[i], Len(values))
      BY <2>1 DEF IsVariable
    <2>4. ValidBounds(Resolve(lb, values), Resolve(ub, values))
      BY DEF RegisterVars, DeclarationFits
    <2> QED BY <2>2, <2>3, <2>4 DEF Feasible
  <1>7. UNCHANGED values /\ Adds(more)
    BY <1>4, <1>5, <1>6 DEF RegisterVars, Adds
  <1>8. PICK n : n = Len(vars)
    OBVIOUS
  <1>9. /\ n \in Nat /\ Len(vars') = n + k /\ DOMAIN vars' = 1..n + k /\ IsList(vars')
        /\ \A v \in 1..n : vars'[v] = vars[v]
        /\ \A i \in 1..k : vars'[n + i] = more[i]
        /\ \A v \in 1..n + k : IsVariable(vars'[v], Len(values)) /\ Feasible(vars'[v], values)
    BY <1>4, <1>7, <1>8, GrownVariables
  <1>10. \A v \in n + 1..n + k : vars'[v].lb = lb /\ vars'[v].ub = ub
    <2> SUFFICES ASSUME NEW v \in n + 1..n + k PROVE vars'[v].lb = lb /\ vars'[v].ub = ub
      OBVIOUS
    <2>1. v - n \in 1..k /\ n + (v - n) = v
      BY <1>2, <1>9
    <2>2. vars'[v] = Of(batch[v - n])
      BY <1>3, <1>9, <2>1
    <2> QED BY <2>2
  <1>11. PICK used : used = ParametersOf({lb, ub})
    OBVIOUS
  <1>12. /\ DOMAIN dependents = 1..Len(values) /\ DOMAIN dependents' = 1..Len(values)
         /\ Len(values) \in Nat /\ DOMAIN values = 1..Len(values)
         /\ dependents' = [p \in 1..Len(values) |-> dependents'[p]]
         /\ \A p \in 1..Len(values) :
               dependents'[p] = IF p \in used THEN dependents[p] \cup (n + 1..n + k) ELSE dependents[p]
    <2>1. DOMAIN dependents = 1..Len(values) /\ Len(values) \in Nat /\ DOMAIN values = 1..Len(values)
      BY ListFacts DEF EditInv, Shape
    <2>2. dependents' = [p \in DOMAIN dependents |->
                           IF p \in used THEN dependents[p] \cup (n + 1..n + k) ELSE dependents[p]]
      BY <1>1, <1>8, <1>11 DEF RegisterVars
    <2> QED BY <2>1, <2>2
  <1>13. IsList(dependents') /\ Len(dependents') = Len(values)
    BY <1>12, ListOf
  <1>14. Shape'
    BY <1>7, <1>9, <1>13 DEF EditInv, Shape
  <1>15. \A v \in 1..n + k : v \in 1..n \/ v \in n + 1..n + k
    BY <1>2, <1>9
  <1>16. ASSUME NEW p \in 1..Len(values)
         PROVE  dependents'[p] = {v \in 1..n + k : p \in ParametersOf({vars'[v].lb, vars'[v].ub})}
    <2>1. dependents[p] = {v \in 1..n : p \in ParametersOf({vars[v].lb, vars[v].ub})}
      BY <1>8, <1>12, ListFacts DEF EditInv, Shape, BoundIndexExact
    <2>2. \A v \in 1..n : v \in dependents'[p] <=> p \in ParametersOf({vars'[v].lb, vars'[v].ub})
      BY <1>2, <1>9, <1>12, <2>1
    <2>3. \A v \in n + 1..n + k : v \in dependents'[p] <=> p \in ParametersOf({vars'[v].lb, vars'[v].ub})
      <3>1. \A v \in n + 1..n + k : v \notin 1..n
        BY <1>2, <1>9
      <3> QED BY <1>10, <1>11, <1>12, <2>1, <3>1
    <2>4. \A v \in dependents'[p] : v \in 1..n + k
      <3>1. (\A v \in 1..n : v \in 1..n + k) /\ (\A v \in n + 1..n + k : v \in 1..n + k)
        BY <1>2, <1>9
      <3>2. \A v \in dependents'[p] : v \in dependents[p] \/ v \in n + 1..n + k
        BY <1>12
      <3> QED BY <2>1, <3>1, <3>2
    <2> QED BY <1>15, <2>2, <2>3, <2>4
  <1>17. DOMAIN checks = {v \in 1..n : ParametersOf({vars[v].lb, vars[v].ub}) # {}}
         /\ \A v \in DOMAIN checks : checks[v] = [lower |-> vars[v].lb, upper |-> vars[v].ub]
    BY <1>8, ListFacts DEF EditInv, Shape, BoundIndexExact
  <1>18. checks' = IF used = {} THEN checks
                   ELSE [w \in DOMAIN checks \cup (n + 1..n + k) |->
                           IF w \in n + 1..n + k THEN [lower |-> lb, upper |-> ub] ELSE checks[w]]
    BY <1>1, <1>8, <1>11 DEF RegisterVars
  <1>19. \A v \in 1..n : v \notin n + 1..n + k /\ v \in 1..n + k
    BY <1>2, <1>9
  <1>20. DOMAIN checks' = {v \in 1..n + k : ParametersOf({vars'[v].lb, vars'[v].ub}) # {}}
    <2>1. DOMAIN checks' = IF used = {} THEN DOMAIN checks ELSE DOMAIN checks \cup (n + 1..n + k)
      BY <1>18
    <2>2. \A v \in 1..n : v \in DOMAIN checks' <=> ParametersOf({vars'[v].lb, vars'[v].ub}) # {}
      BY <1>9, <1>17, <1>19, <2>1
    <2>3. \A v \in n + 1..n + k : v \in DOMAIN checks' <=> ParametersOf({vars'[v].lb, vars'[v].ub}) # {}
      BY <1>10, <1>11, <1>17, <1>19, <2>1
    <2>4. \A v \in DOMAIN checks' : v \in 1..n + k
      <3>1. \A v \in n + 1..n + k : v \in 1..n + k
        BY <1>2, <1>9
      <3> QED BY <1>17, <1>19, <2>1, <3>1
    <2> QED BY <1>15, <2>2, <2>3, <2>4
  <1>21. \A v \in DOMAIN checks' : checks'[v] = [lower |-> vars'[v].lb, upper |-> vars'[v].ub]
    BY <1>9, <1>10, <1>15, <1>17, <1>18, <1>19, <1>20
  <1>22. BoundIndexExact'
    BY <1>7, <1>9, <1>12, <1>16, <1>20, <1>21 DEF BoundIndexExact
  <1>23. \A v \in 1..Len(vars') : Feasible(vars'[v], values')
    BY <1>7, <1>9
  <1> QED BY <1>2, <1>8, <1>9, <1>14, <1>22, <1>23 DEF EditInv

\* Parameters declared at the end, which no bound takes yet.
Declares(more) ==
    /\ more \in Seq(Int) /\ values' = values \o more
    /\ IsList(dependents') /\ Len(dependents') = Len(values) + Len(more)
    /\ \A p \in 1..Len(values) : dependents'[p] = dependents[p]
    /\ \A i \in 1..Len(more) : dependents'[Len(values) + i] = {}
    /\ UNCHANGED <<vars, checks>>

LEMMA DeclaredValues ==
    ASSUME values \in Seq(Int), NEW more \in Seq(Int), values' = values \o more
    PROVE  /\ values' \in Seq(Int) /\ Len(values') = Len(values) + Len(more)
           /\ Len(values) \in Nat /\ Len(more) \in Nat /\ Len(values) <= Len(values')
           /\ \A p \in 1..Len(values) : values'[p] = values[p]
  <1>1. Len(values) \in Nat /\ Len(more) \in Nat
    OBVIOUS
  <1>2. values' \in Seq(Int) /\ Len(values') = Len(values) + Len(more)
    OBVIOUS
  <1>3. \A p \in 1..Len(values) : values'[p] = values[p]
    BY <1>1, ConcatProperties
  <1> QED BY <1>1, <1>2, <1>3

LEMMA WiderBounds ==
    ASSUME NEW n \in Nat, NEW m \in Nat, n <= m
    PROVE  /\ \A b \in BoundOver(n) : b \in BoundOver(m)
           /\ \A x : IsVariable(x, n) => IsVariable(x, m)
  <1>1. \A b \in BoundOver(n) : b \in BoundOver(m)
    <2>1. 0..n \subseteq 0..m
      OBVIOUS
    <2> QED BY <2>1 DEF BoundOver
  <1> QED BY <1>1 DEF IsVariable

LEMMA DeclaringKeeps ==
    ASSUME EditInv, NEW more, Declares(more)
    PROVE  EditInv'
  <1>1. PICK n, m : n = Len(values) /\ m = Len(values')
    OBVIOUS
  <1>2. /\ values \in Seq(Int) /\ values' \in Seq(Int) /\ n \in Nat /\ m \in Nat /\ n <= m
        /\ m = n + Len(more) /\ Len(more) \in Nat
        /\ \A p \in 1..n : values'[p] = values[p]
    BY <1>1, DeclaredValues DEF Declares, EditInv, Shape
  <1>3. UNCHANGED <<vars, checks>> /\ IsList(vars) /\ DOMAIN vars = 1..Len(vars)
    BY ListFacts DEF Declares, EditInv, Shape
  <1>4. \A v \in 1..Len(vars) : IsVariable(vars[v], n)
    BY <1>1 DEF EditInv, Shape
  <1>5. IsList(dependents') /\ Len(dependents') = m /\ DOMAIN values' = 1..m /\ DOMAIN values = 1..n
    BY <1>1, <1>2 DEF Declares
  <1>6. Shape'
    <2>1. \A v \in 1..Len(vars) : IsVariable(vars[v], m)
      BY <1>2, <1>4, WiderBounds
    <2> QED BY <1>1, <1>2, <1>3, <1>5, <2>1 DEF Shape
  <1>7. ASSUME NEW v \in 1..Len(vars) PROVE Feasible(vars[v], values')
    <2>1. vars[v].lb \in BoundOver(n) /\ vars[v].ub \in BoundOver(n)
      BY <1>4 DEF IsVariable
    <2>2. /\ Resolve(vars[v].lb, values') = Resolve(vars[v].lb, values)
          /\ Resolve(vars[v].ub, values') = Resolve(vars[v].ub, values)
      BY <1>2, <2>1, ResolveAgrees
    <2> QED BY <2>2 DEF EditInv, Feasible
  <1>8. BoundIndexExact'
    <2>1. ASSUME NEW p \in 1..m
          PROVE  dependents'[p] = {v \in 1..Len(vars) : p \in ParametersOf({vars[v].lb, vars[v].ub})}
      <3>1. CASE p <= n
        <4>1. p \in 1..n
          BY <1>2, <3>1
        <4> QED BY <1>1, <1>3, <1>5, <4>1 DEF Declares, EditInv, BoundIndexExact
      <3>2. CASE ~ (p <= n)
        <4>1. p - n \in 1..Len(more) /\ n + (p - n) = p /\ p # 0
          BY <1>2, <3>2
        <4>2. dependents'[p] = {}
          BY <1>1, <4>1 DEF Declares
        <4>3. ASSUME NEW v \in 1..Len(vars) PROVE vars[v].lb.parameter # p /\ vars[v].ub.parameter # p
          <5>1. vars[v].lb \in BoundOver(n) /\ vars[v].ub \in BoundOver(n)
            BY <1>4 DEF IsVariable
          <5>2. \A b \in BoundOver(n) : b.parameter \in 0..n
            BY DEF BoundOver
          <5>3. vars[v].lb.parameter \in 0..n /\ vars[v].ub.parameter \in 0..n
            BY <5>1, <5>2
          <5> QED BY <1>2, <3>2, <5>3
        <4>4. \A v \in 1..Len(vars) : p \notin ParametersOf({vars[v].lb, vars[v].ub})
          BY <4>3, TwoParameters
        <4> QED BY <4>2, <4>4
      <3> QED BY <3>1, <3>2
    <2>2. /\ DOMAIN checks = {v \in 1..Len(vars) : ParametersOf({vars[v].lb, vars[v].ub}) # {}}
          /\ \A v \in DOMAIN checks : checks[v] = [lower |-> vars[v].lb, upper |-> vars[v].ub]
      BY <1>3 DEF EditInv, BoundIndexExact
    <2>3. vars' = vars /\ checks' = checks /\ DOMAIN values' = 1..m /\ DOMAIN vars = 1..Len(vars)
      BY <1>3, <1>5
    <2> QED BY <2>1, <2>2, <2>3 DEF BoundIndexExact
  <1> QED BY <1>3, <1>6, <1>7, <1>8 DEF EditInv

LEMMA RegisterParamKeeps ==
    ASSUME EditInv, NEW n \in Int, RegisterParam(n)
    PROVE  EditInv' /\ values' = values \o <<n>> /\ vars' = vars
  <1>1. IsList(dependents) /\ Len(dependents) = Len(values) /\ values \in Seq(Int)
    BY DEF EditInv, Shape
  <1>2. PICK more, none : more = <<n>> /\ none = <<{}>>
    OBVIOUS
  <1>3. more \in Seq(Int) /\ Len(more) = 1
    BY <1>2
  <1>4. values' = values \o more
    <2>1. values' = Append(values, n)
      BY DEF RegisterParam
    <2> QED BY <1>1, <1>2, <2>1
  <1>5. dependents' = dependents \o none
    <2>1. dependents' = Append(dependents, {})
      BY DEF RegisterParam
    <2>2. PICK S : dependents \in Seq(S)
      BY <1>1 DEF IsList
    <2>3. PICK e, T : e = {} /\ T = S \cup {e}
      OBVIOUS
    <2>4. dependents \in Seq(T) /\ e \in T
      <3>1. dependents \in [1..Len(dependents) -> T] /\ Len(dependents) \in Nat
        BY <2>2, <2>3
      <3> QED BY <2>3, <3>1
    <2>5. Append(dependents, e) = dependents \o <<e>>
      BY <2>4
    <2> QED BY <1>2, <2>1, <2>3, <2>5
  <1>6. IsList(none) /\ Len(none) = 1 /\ none[1] = {}
    <2>1. none \in Seq({{}})
      BY <1>2
    <2> QED BY <1>2, <2>1 DEF IsList
  <1>7. /\ IsList(dependents') /\ Len(dependents') = Len(values) + 1
        /\ \A p \in 1..Len(values) : dependents'[p] = dependents[p]
        /\ \A i \in 1..1 : dependents'[Len(values) + i] = none[i]
    <2>1. /\ IsList(dependents \o none) /\ Len(dependents \o none) = Len(dependents) + Len(none)
          /\ \A p \in 1..Len(dependents) : (dependents \o none)[p] = dependents[p]
          /\ \A i \in 1..Len(none) : (dependents \o none)[Len(dependents) + i] = none[i]
      <3>1. IsList(dependents) /\ IsList(none)
        BY <1>1, <1>6
      <3> QED BY ONLY <3>1, JoinedLists
    <2> QED BY <1>1, <1>5, <1>6, <2>1
  <1>8. \A i \in 1..1 : i = 1
    OBVIOUS
  <1>9. UNCHANGED <<vars, checks>>
    BY DEF RegisterParam
  <1>10. Declares(more)
    BY <1>3, <1>4, <1>6, <1>7, <1>8, <1>9 DEF Declares
  <1> QED BY <1>2, <1>4, <1>9, <1>10, DeclaringKeeps

LEMMA RegisterParamsBatchKeeps ==
    ASSUME EditInv, NEW batch \in Seq(Int), RegisterParamsBatch(batch)
    PROVE  EditInv' /\ values' = values \o batch /\ vars' = vars
  <1>1. IsList(dependents) /\ Len(dependents) = Len(values)
    BY DEF EditInv, Shape
  <1>2. PICK none, k : none = [i \in DOMAIN batch |-> {}] /\ k = Len(batch)
    OBVIOUS
  <1>3. k \in Nat /\ DOMAIN none = 1..k /\ none = [i \in 1..k |-> none[i]] /\ \A i \in 1..k : none[i] = {}
    BY <1>2
  <1>4. IsList(none) /\ Len(none) = k
    BY <1>3, ListOf
  <1>5. dependents' = dependents \o none /\ UNCHANGED <<vars, checks>> /\ values' = values \o batch
    BY <1>2 DEF RegisterParamsBatch
  <1>6. /\ IsList(dependents') /\ Len(dependents') = Len(values) + k
        /\ \A p \in 1..Len(values) : dependents'[p] = dependents[p]
        /\ \A i \in 1..k : dependents'[Len(values) + i] = none[i]
    <2>1. /\ IsList(dependents \o none) /\ Len(dependents \o none) = Len(dependents) + Len(none)
          /\ \A p \in 1..Len(dependents) : (dependents \o none)[p] = dependents[p]
          /\ \A i \in 1..Len(none) : (dependents \o none)[Len(dependents) + i] = none[i]
      <3>1. IsList(dependents) /\ IsList(none)
        BY <1>1, <1>4
      <3> QED BY ONLY <3>1, JoinedLists
    <2> QED BY <1>1, <1>4, <1>5, <2>1
  <1>7. Declares(batch)
    BY <1>2, <1>3, <1>5, <1>6 DEF Declares
  <1> QED BY <1>5, <1>7, DeclaringKeeps

\* A parameter write judges the variables its index lists, and they are all
\* whose bounds it moves.
LEMMA SetParamsKeeps ==
    ASSUME EditInv, NEW updates, DOMAIN updates \subseteq 1..Len(values),
           \A p \in DOMAIN updates : updates[p] \in Int, SetParams(updates)
    PROVE  /\ EditInv' /\ vars' = vars /\ Len(values') = Len(values)
           /\ DOMAIN updates \cap locked = {}
           /\ \A p \in 1..Len(values) : p \notin DOMAIN updates => values'[p] = values[p]
  <1>1. PICK n : n = Len(values)
    OBVIOUS
  <1>2. values \in Seq(Int) /\ n \in Nat /\ DOMAIN values = 1..n /\ \A p \in 1..n : values[p] \in Int
    BY <1>1 DEF EditInv, Shape
  <1>3. values' = [p \in 1..n |-> IF p \in DOMAIN updates THEN updates[p] ELSE values[p]]
    BY <1>2 DEF SetParams
  <1>4. values' \in [1..n -> Int]
    BY <1>2, <1>3
  <1>5. values' \in Seq(Int) /\ Len(values') = n
    BY <1>2, <1>4
  <1>6. \A p \in 1..n : p \notin DOMAIN updates => values'[p] = values[p]
    BY <1>3
  <1>7. UNCHANGED <<vars, checks, dependents>> /\ BatchFits(updates)
    BY DEF SetParams
  <1>8. IsList(vars) /\ DOMAIN vars = 1..Len(vars) /\ \A v \in 1..Len(vars) : IsVariable(vars[v], n)
    BY <1>1, ListFacts DEF EditInv, Shape
  <1>9. Shape'
    BY <1>1, <1>5, <1>7, <1>8 DEF EditInv, Shape
  <1>10. BoundIndexExact'
    BY <1>2, <1>4, <1>7 DEF EditInv, BoundIndexExact
  <1>11. ASSUME NEW v \in 1..Len(vars) PROVE Feasible(vars[v], values')
    <2>1. IsVariable(vars[v], n) /\ Feasible(vars[v], values)
      BY <1>8 DEF EditInv
    <2>2. PICK lb, ub : lb = vars[v].lb /\ ub = vars[v].ub
      OBVIOUS
    <2>3. lb \in BoundOver(n) /\ ub \in BoundOver(n)
      BY <2>1, <2>2 DEF IsVariable
    <2>4. CASE \E p \in DOMAIN updates : p \in ParametersOf({lb, ub})
      <3>1. PICK p \in DOMAIN updates : p \in ParametersOf({lb, ub})
        BY <2>4
      <3>2. v \in dependents[p]
        BY <1>1, <1>2, <1>8, <2>2, <3>1 DEF EditInv, BoundIndexExact
      <3>3. v \in DOMAIN checks /\ checks[v] = [lower |-> lb, upper |-> ub]
        BY <1>8, <2>2, <3>1 DEF EditInv, BoundIndexExact
      <3>4. checks[v].lower = lb /\ checks[v].upper = ub
        BY <3>3
      <3>5. ValidBounds(Resolve(checks[v].lower, values'), Resolve(checks[v].upper, values'))
        BY <1>2, <1>3, <1>7, <3>1, <3>2 DEF BatchFits
      <3>6. vars[v].domain # "Binary"
        BY <2>1, <2>2, <3>1 DEF Feasible
      <3> QED BY <2>2, <3>4, <3>5, <3>6 DEF Feasible
    <2>5. CASE ~ \E p \in DOMAIN updates : p \in ParametersOf({lb, ub})
      <3>1. lb.parameter \in 0..n /\ ub.parameter \in 0..n
        BY <2>3 DEF BoundOver
      <3>2. /\ lb.parameter # 0 => lb.parameter \in 1..n /\ lb.parameter \notin DOMAIN updates
            /\ ub.parameter # 0 => ub.parameter \in 1..n /\ ub.parameter \notin DOMAIN updates
        BY <1>2, <2>5, <3>1, TwoParameters
      <3>3. Resolve(lb, values') = Resolve(lb, values) /\ Resolve(ub, values') = Resolve(ub, values)
        BY <1>6, <3>2 DEF Resolve
      <3> QED BY <2>1, <2>2, <3>3 DEF Feasible
    <2> QED BY <2>4, <2>5
  <1>12. EditInv'
    BY <1>7, <1>8, <1>9, <1>10, <1>11 DEF EditInv
  <1> QED BY <1>1, <1>5, <1>6, <1>7, <1>12 DEF BatchFits

-----------------------------------------------------------------------------
(* Rewriting *)

SourcesShape ==
    /\ IsList(sos)
    /\ \A s \in 1..Len(sos) :
         /\ sos[s] = [type |-> sos[s].type, members |-> sos[s].members,
                      active |-> sos[s].active, rewritten |-> sos[s].rewritten]
         /\ IsList(sos[s].members) /\ MembersOf(s) \subseteq 1..Len(vars)
    /\ \A k \in DOMAIN indicators :
         /\ indicators[k] = [trigger |-> indicators[k].trigger, on |-> indicators[k].on,
                             coefficients |-> indicators[k].coefficients,
                             lower |-> indicators[k].lower, upper |-> indicators[k].upper,
                             active |-> indicators[k].active, rewritten |-> indicators[k].rewritten]
         /\ BodyOf(k) \subseteq 1..Len(vars)

LEMMA ActivationsAreCounted ==
    ASSUME NEW s, IsList(sos[s].members)
    PROVE  ActivationCount(s) \in Nat
  <1>1. PICK E : sos[s].members \in Seq(E)
    BY DEF IsList
  <1>2. CASE GatedMembers(s) = <<>>
    BY <1>2 DEF ActivationCount
  <1>3. CASE GatedMembers(s) # <<>> /\ sos[s].type = "Sos1"
    <2> DEFINE potential == SelectSeq(sos[s].members, LAMBDA m : PotentiallyNonzero(m.variable))
    <2>1. GatedMembers(s) = potential
      BY <1>3 DEF GatedMembers
    <2>2. Len(potential) \in Nat
      BY <1>1
    <2> HIDE DEF potential
    <2> QED BY <1>3, <2>1, <2>2 DEF ActivationCount
  <1>4. CASE GatedMembers(s) # <<>> /\ sos[s].type # "Sos1"
    <2>1. Len(sos[s].members) >= 3
      BY <1>4 DEF GatedMembers
    <2> QED BY <1>1, <1>4, <2>1 DEF ActivationCount
  <1> QED BY <1>2, <1>3, <1>4

IsActivation(x) ==
    \E name : x = [name |-> name, domain |-> "Binary", threshold |-> 0,
                   lb |-> Fixed(0), ub |-> Fixed(1)]

\* The variables with activations after them.
Extended(x) ==
    /\ IsList(x) /\ Len(vars) <= Len(x)
    /\ \A v \in 1..Len(vars) : x[v] = vars[v]
    /\ \A v \in 1..Len(x) : Len(vars) < v => IsActivation(x[v])

WithSource(x, k, sources) ==
    IF k \in sources THEN x \o ActivationVariables(k, {x[v].name : v \in DOMAIN x}) ELSE x

LEMMA SourceExtends ==
    ASSUME IsList(vars), SourcesShape, NEW sources, NEW k \in 1..Len(sos), NEW x, Extended(x)
    PROVE  Extended(WithSource(x, k, sources))
  <1>1. CASE k \notin sources
    BY <1>1 DEF WithSource
  <1>2. CASE k \in sources
    <2>1. PICK n, m, l : n = ActivationCount(k) /\ m = Len(x) /\ l = Len(vars)
      OBVIOUS
    <2>2. n \in Nat /\ m \in Nat /\ l \in Nat /\ l <= m
      BY <2>1, ActivationsAreCounted, ListFacts DEF SourcesShape, Extended
    <2>3. PICK more, taken : /\ taken = {x[v].name : v \in DOMAIN x}
                             /\ more = ActivationVariables(k, taken)
      OBVIOUS
    <2>4. /\ DOMAIN more = 1..n /\ more = [i \in 1..n |-> more[i]]
          /\ \A i \in 1..n : IsActivation(more[i])
      BY <2>1, <2>3 DEF ActivationVariables, IsActivation
    <2>5. IsList(x) /\ IsList(more) /\ Len(more) = n
      BY <2>2, <2>4, ListOf DEF Extended
    <2>6. /\ IsList(x \o more) /\ Len(x \o more) = m + n
          /\ \A v \in 1..m : (x \o more)[v] = x[v]
          /\ \A i \in 1..n : (x \o more)[m + i] = more[i]
      <3>1. /\ IsList(x \o more) /\ Len(x \o more) = Len(x) + Len(more)
            /\ \A v \in 1..Len(x) : (x \o more)[v] = x[v]
            /\ \A i \in 1..Len(more) : (x \o more)[Len(x) + i] = more[i]
        <4>1. IsList(x) /\ IsList(more)
          BY <2>5
        <4> QED BY ONLY <4>1, JoinedLists
      <3> QED BY <2>1, <2>5, <3>1
    <2>7. PICK y : y = x \o more
      OBVIOUS
    <2>8. \A v \in 1..l : y[v] = vars[v]
      <3>1. \A v \in 1..l : v \in 1..m
        BY <2>2
      <3> QED BY <2>1, <2>6, <2>7, <3>1 DEF Extended
    <2>9. ASSUME NEW v \in 1..(m + n), l < v PROVE IsActivation(y[v])
      <3>1. CASE v <= m
        <4>1. v \in 1..m
          BY <2>2, <3>1
        <4> QED BY <2>1, <2>6, <2>7, <2>9, <4>1 DEF Extended
      <3>2. CASE ~ (v <= m)
        <4>1. v - m \in 1..n /\ m + (v - m) = v
          BY <2>2, <3>2
        <4> QED BY <2>4, <2>6, <2>7, <4>1
      <3> QED BY <3>1, <3>2
    <2>10. Extended(y)
      <3>1. Len(y) = m + n /\ IsList(y) /\ l <= m + n
        BY <2>2, <2>6, <2>7
      <3> QED BY <2>1, <2>8, <2>9, <3>1 DEF Extended
    <2> QED BY <1>2, <2>3, <2>7, <2>10 DEF WithSource
  <1> QED BY <1>1, <1>2

LEMMA ActivationsExtend ==
    ASSUME IsList(vars), SourcesShape, NEW sources
    PROVE  Extended(WithActivations(sources)[Len(sos)])
  <1>1. PICK n : n = Len(sos)
    OBVIOUS
  <1>2. n \in Nat
    BY <1>1, ListFacts DEF SourcesShape
  <1> DEFINE Grows(f, m) == f = [i \in 0..m |-> IF i = 0 THEN vars ELSE WithSource(f[i - 1], i, sources)]
             S == {m \in Nat : \E f : Grows(f, m)}
  <1>3. 0 \in S
    <2>1. PICK f : f = [i \in 0..0 |-> vars]
      OBVIOUS
    <2>2. f = [i \in 0..0 |-> IF i = 0 THEN vars ELSE WithSource(f[i - 1], i, sources)]
      BY <2>1
    <2> QED BY <2>2
  <1>4. ASSUME NEW m \in Nat, NEW f, Grows(f, m) PROVE \E g : Grows(g, m + 1)
    <2> HIDE DEF S
    <2>1. PICK g : g = [i \in 0..(m + 1) |-> IF i <= m THEN f[i] ELSE WithSource(f[m], m + 1, sources)]
      OBVIOUS
    <2>2. \A i \in 0..m : f[i] = IF i = 0 THEN vars ELSE WithSource(f[i - 1], i, sources)
      BY <1>4
    <2>3. ASSUME NEW i \in 0..(m + 1)
          PROVE  g[i] = IF i = 0 THEN vars ELSE WithSource(g[i - 1], i, sources)
      <3>1. CASE i = 0 BY <2>1, <2>2, <3>1
      <3>2. CASE i \in 1..m
        <4>1. g[i] = f[i] /\ g[i - 1] = f[i - 1] /\ i \in 0..m /\ i # 0
          BY <2>1, <3>2
        <4> QED BY <2>2, <4>1
      <3>3. CASE i = m + 1
        <4>1. g[i] = WithSource(f[m], m + 1, sources) /\ g[i - 1] = f[m] /\ i # 0
          BY <2>1, <3>3
        <4> QED BY <3>3, <4>1
      <3> QED BY <3>1, <3>2, <3>3
    <2>4. g = [i \in 0..(m + 1) |-> g[i]]
      BY <2>1
    <2> QED BY <2>3, <2>4
  <1>5. \A m \in Nat : m \in S => m + 1 \in S
    <2> HIDE DEF Grows
    <2> QED BY <1>4
  <1>6. \E f : Grows(f, n)
    <2>1. n \in S
      <3> HIDE DEF S
      <3> QED BY <1>2, <1>3, <1>5, SetInduction
    <2> QED BY <2>1
  <1>7. Grows(WithActivations(sources), n)
    <2>1. WithActivations(sources) = CHOOSE f : Grows(f, n)
      BY <1>1 DEF WithActivations, WithSource
    <2> HIDE DEF Grows
    <2> QED BY <1>6, <2>1
  <1>8. PICK all : all = WithActivations(sources)
    OBVIOUS
  <1>9. all[0] = vars /\ \A i \in 1..n : all[i] = WithSource(all[i - 1], i, sources)
    <2>1. all = [i \in 0..n |-> IF i = 0 THEN vars ELSE WithSource(all[i - 1], i, sources)]
      BY <1>7, <1>8
    <2>2. 0 \in 0..n /\ \A i \in 1..n : i \in 0..n /\ i # 0
      BY <1>2
    <2>3. \A i \in 0..n : all[i] = IF i = 0 THEN vars ELSE WithSource(all[i - 1], i, sources)
      BY <2>1
    <2> QED BY <2>2, <2>3
  <1> HIDE DEF Grows, S
  <1> DEFINE T == {i \in Nat : i <= n => Extended(all[i])}
  <1>10. 0 \in T
    <2>1. Len(vars) \in Nat
      BY ListFacts
    <2>2. Extended(vars)
      BY <2>1 DEF Extended
    <2> QED BY <1>9, <2>2
  <1>11. ASSUME NEW i \in Nat, i \in T PROVE i + 1 \in T
    <2> SUFFICES ASSUME i + 1 <= n PROVE Extended(all[i + 1])
      OBVIOUS
    <2>1. i + 1 \in 1..n /\ (i + 1) - 1 = i /\ i <= n
      BY <1>2
    <2>2. all[i + 1] = WithSource(all[i], i + 1, sources)
      BY <1>9, <2>1
    <2>3. Extended(all[i])
      BY <1>11, <2>1
    <2> HIDE DEF T
    <2> QED BY <1>1, <2>1, <2>2, <2>3, SourceExtends
  <1>12. n \in T
    <2> HIDE DEF T
    <2> QED BY <1>2, <1>10, <1>11, SetInduction
  <1> QED BY <1>1, <1>2, <1>8, <1>12

LEMMA ApplySosKeeps ==
    ASSUME EditInv, SourcesShape, NEW sources, NEW fallback, ApplySos(sources, fallback)
    PROVE  EditInv' /\ Len(vars) <= Len(vars') /\ \A v \in 1..Len(vars) : vars'[v] = vars[v]
  <1>1. PICK n, m : n = Len(vars) /\ m = Len(vars')
    OBVIOUS
  <1>2. Extended(vars')
    <2>1. vars' = WithActivations(sources)[Len(sos)]
      BY DEF ApplySos
    <2>2. IsList(vars)
      BY DEF EditInv, Shape
    <2> QED BY <2>1, <2>2, ActivationsExtend
  <1>3. IsList(vars) /\ IsList(vars') /\ values \in Seq(Int)
    BY <1>2 DEF EditInv, Shape, Extended
  <1>4. n \in Nat /\ m \in Nat /\ DOMAIN vars = 1..n /\ DOMAIN vars' = 1..m /\ n <= m
        /\ Len(values) \in Nat
    BY <1>1, <1>2, <1>3, ListFacts DEF Extended
  <1>5. \A v \in 1..n : vars'[v] = vars[v]
    BY <1>1, <1>2 DEF Extended
  <1>6. ASSUME NEW v \in 1..m, n < v
        PROVE  /\ IsVariable(vars'[v], Len(values)) /\ Feasible(vars'[v], values)
               /\ ParametersOf({vars'[v].lb, vars'[v].ub}) = {}
    <2>1. PICK name : vars'[v] = [name |-> name, domain |-> "Binary", threshold |-> 0,
                                  lb |-> Fixed(0), ub |-> Fixed(1)]
      BY <1>1, <1>2, <1>6 DEF Extended, IsActivation
    <2>2. PICK a, b, x : a = Fixed(0) /\ b = Fixed(1) /\ x = vars'[v]
      OBVIOUS
    <2>3. /\ x = [name |-> name, domain |-> "Binary", threshold |-> 0, lb |-> a, ub |-> b]
          /\ x.lb = a /\ x.ub = b /\ x.domain = "Binary"
      BY <2>1, <2>2
    <2>4. /\ a \in BoundOver(Len(values)) /\ b \in BoundOver(Len(values))
          /\ a.parameter = 0 /\ b.parameter = 0 /\ a.value = 0 /\ b.value = 1
      BY <1>4, <2>2 DEF Fixed, BoundOver
    <2>5. Resolve(a, values) = 0 /\ Resolve(b, values) = 1
      BY <2>4 DEF Resolve
    <2>6. ParametersOf({a, b}) = {}
      BY <2>4 DEF ParametersOf
    <2>7. IsVariable(x, Len(values))
      BY <2>3, <2>4 DEF IsVariable
    <2>8. ValidBounds(0, 1)
      <3> QED BY HugeAssumption DEF ValidBounds
    <2>9. Feasible(x, values)
      BY <2>3, <2>5, <2>6, <2>8 DEF Feasible
    <2> QED BY <2>2, <2>3, <2>6, <2>7, <2>9
  <1>7. UNCHANGED <<values, checks, dependents>>
    BY DEF ApplySos
  <1>8. \A v \in 1..m : v \in 1..n \/ n < v
    BY <1>4
  <1>9. Shape'
    <2>1. \A v \in 1..m : IsVariable(vars'[v], Len(values))
      BY <1>1, <1>5, <1>6, <1>8 DEF EditInv, Shape
    <2> QED BY <1>1, <1>3, <1>7, <2>1 DEF EditInv, Shape
  <1>10. \A v \in 1..m : Feasible(vars'[v], values)
    BY <1>1, <1>5, <1>6, <1>8 DEF EditInv
  <1>11. BoundIndexExact'
    <2>1. /\ DOMAIN checks = {v \in 1..n : ParametersOf({vars[v].lb, vars[v].ub}) # {}}
          /\ \A v \in DOMAIN checks : checks[v] = [lower |-> vars[v].lb, upper |-> vars[v].ub]
          /\ \A p \in DOMAIN values : dependents[p] = {v \in 1..n : p \in ParametersOf({vars[v].lb, vars[v].ub})}
      BY <1>4 DEF EditInv, BoundIndexExact
    <2>2. \A v \in 1..n : v \in 1..m
      BY <1>4
    <2>3. DOMAIN checks = {v \in 1..m : ParametersOf({vars'[v].lb, vars'[v].ub}) # {}}
      BY <1>5, <1>6, <1>8, <2>1, <2>2
    <2>4. \A v \in DOMAIN checks : checks[v] = [lower |-> vars'[v].lb, upper |-> vars'[v].ub]
      BY <1>5, <2>1
    <2>5. ASSUME NEW p \in DOMAIN values
          PROVE  dependents[p] = {v \in 1..m : p \in ParametersOf({vars'[v].lb, vars'[v].ub})}
      <3>1. dependents[p] = {v \in 1..n : p \in ParametersOf({vars[v].lb, vars[v].ub})}
        BY <2>1
      <3> QED BY <1>5, <1>6, <1>8, <2>2, <3>1
    <2> QED BY <1>4, <1>7, <2>3, <2>4, <2>5 DEF BoundIndexExact
  <1>12. EditInv'
    BY <1>1, <1>7, <1>9, <1>10, <1>11 DEF EditInv
  <1> QED BY <1>1, <1>4, <1>5, <1>12

-----------------------------------------------------------------------------
(* Locks *)

\* The parameters that bound a frozen variable are locked.
LocksInv == \A v \in Frozen : ParametersOf({vars[v].lb, vars[v].ub}) \subseteq locked

LEMMA FrozenIs ==
    ASSUME NEW v
    PROVE  v \in Frozen <=> \/ \E s \in DOMAIN sos : sos[s].rewritten /\ v \in MembersOf(s)
                            \/ \E k \in DOMAIN indicators : indicators[k].rewritten /\ v \in BodyOf(k)
  BY DEF Frozen

LEMMA FrozenAreDeclared ==
    ASSUME SourcesShape, NEW v \in Frozen
    PROVE  v \in 1..Len(vars)
  <1>1. DOMAIN sos = 1..Len(sos)
    BY ListFacts DEF SourcesShape
  <1> QED BY <1>1, FrozenIs DEF SourcesShape

\* What a step does to the sources that may freeze the variables fresh: none
\* changes what it ranges over, and none returns from being rewritten.
SourcesStep(fresh) ==
    /\ IsList(sos') /\ Len(sos') = Len(sos)
    /\ \A s \in 1..Len(sos) :
         /\ sos'[s] = [type |-> sos'[s].type, members |-> sos[s].members,
                       active |-> sos'[s].active, rewritten |-> sos'[s].rewritten]
         /\ sos[s].rewritten => sos'[s].rewritten
         /\ sos'[s].rewritten => sos[s].rewritten \/ MembersOf(s) \subseteq fresh
    /\ DOMAIN indicators' = DOMAIN indicators
    /\ \A k \in DOMAIN indicators :
         /\ indicators'[k] = [trigger |-> indicators[k].trigger, on |-> indicators'[k].on,
                              coefficients |-> indicators[k].coefficients,
                              lower |-> indicators'[k].lower, upper |-> indicators'[k].upper,
                              active |-> indicators'[k].active, rewritten |-> indicators'[k].rewritten]
         /\ indicators[k].rewritten => indicators'[k].rewritten
         /\ indicators'[k].rewritten => indicators[k].rewritten \/ BodyOf(k) \subseteq fresh

\* What a step does to the bounds of frozen variables: nothing.
FrozenStep(fresh) ==
    /\ SourcesStep(fresh)
    /\ fresh \subseteq 1..Len(vars) /\ Len(vars) \in Nat /\ Len(vars') \in Nat /\ Len(vars) <= Len(vars')
    /\ \A v \in 1..Len(vars) : v \in Frozen \/ v \in fresh => vars'[v] = vars[v]
    /\ \A v \in fresh : ParametersOf({vars[v].lb, vars[v].ub}) \subseteq locked'
    /\ locked \subseteq locked'
    /\ \A p \in 1..Len(values) : p \in locked => values'[p] = values[p]

LEMMA SourcesKeepTheirShape ==
    ASSUME SourcesShape, NEW fresh, FrozenStep(fresh)
    PROVE  /\ SourcesShape'
           /\ DOMAIN sos = 1..Len(sos) /\ DOMAIN sos' = 1..Len(sos)
           /\ \A s \in 1..Len(sos) : MembersOf(s)' = MembersOf(s)
           /\ \A k \in DOMAIN indicators : BodyOf(k)' = BodyOf(k)
  <1>1. DOMAIN sos = 1..Len(sos) /\ DOMAIN sos' = 1..Len(sos)
    BY ListFacts DEF SourcesShape, FrozenStep, SourcesStep
  <1>2. \A s \in 1..Len(sos) : sos'[s].members = sos[s].members
    <2> SUFFICES ASSUME NEW s \in 1..Len(sos) PROVE sos'[s].members = sos[s].members
      OBVIOUS
    <2>1. sos'[s] = [type |-> sos'[s].type, members |-> sos[s].members,
                     active |-> sos'[s].active, rewritten |-> sos'[s].rewritten]
      BY DEF FrozenStep, SourcesStep
    <2> QED BY <2>1
  <1>3. \A s \in 1..Len(sos) : MembersOf(s)' = MembersOf(s)
    BY <1>2 DEF MembersOf
  <1>4. \A k \in DOMAIN indicators :
           indicators'[k].coefficients = indicators[k].coefficients /\ indicators'[k].trigger = indicators[k].trigger
    <2> SUFFICES ASSUME NEW k \in DOMAIN indicators
                 PROVE  /\ indicators'[k].coefficients = indicators[k].coefficients
                        /\ indicators'[k].trigger = indicators[k].trigger
      OBVIOUS
    <2>1. indicators'[k] = [trigger |-> indicators[k].trigger, on |-> indicators'[k].on,
                            coefficients |-> indicators[k].coefficients,
                            lower |-> indicators'[k].lower, upper |-> indicators'[k].upper,
                            active |-> indicators'[k].active, rewritten |-> indicators'[k].rewritten]
      BY DEF FrozenStep, SourcesStep
    <2> QED BY <2>1
  <1>5. \A k \in DOMAIN indicators : BodyOf(k)' = BodyOf(k)
    BY <1>4 DEF BodyOf
  <1>6. \A v \in 1..Len(vars) : v \in 1..Len(vars')
    BY DEF FrozenStep
  <1>7. ASSUME NEW s \in 1..Len(sos)
        PROVE  /\ sos'[s] = [type |-> sos'[s].type, members |-> sos'[s].members,
                             active |-> sos'[s].active, rewritten |-> sos'[s].rewritten]
               /\ IsList(sos'[s].members) /\ MembersOf(s)' \subseteq 1..Len(vars')
    <2>1. IsList(sos[s].members) /\ MembersOf(s) \subseteq 1..Len(vars)
      BY DEF SourcesShape
    <2>2. sos'[s].members = sos[s].members /\ MembersOf(s)' = MembersOf(s)
      BY <1>2, <1>3
    <2>3. sos'[s] = [type |-> sos'[s].type, members |-> sos[s].members,
                     active |-> sos'[s].active, rewritten |-> sos'[s].rewritten]
      BY DEF FrozenStep, SourcesStep
    <2> QED BY <1>6, <2>1, <2>2, <2>3
  <1>8. ASSUME NEW k \in DOMAIN indicators
        PROVE  /\ indicators'[k] = [trigger |-> indicators'[k].trigger, on |-> indicators'[k].on,
                                    coefficients |-> indicators'[k].coefficients,
                                    lower |-> indicators'[k].lower, upper |-> indicators'[k].upper,
                                    active |-> indicators'[k].active,
                                    rewritten |-> indicators'[k].rewritten]
               /\ BodyOf(k)' \subseteq 1..Len(vars')
    <2>1. BodyOf(k) \subseteq 1..Len(vars) /\ BodyOf(k)' = BodyOf(k)
      BY <1>5 DEF SourcesShape
    <2>2. indicators'[k] = [trigger |-> indicators[k].trigger, on |-> indicators'[k].on,
                            coefficients |-> indicators[k].coefficients,
                            lower |-> indicators'[k].lower, upper |-> indicators'[k].upper,
                            active |-> indicators'[k].active, rewritten |-> indicators'[k].rewritten]
      BY DEF FrozenStep, SourcesStep
    <2> QED BY <1>4, <1>6, <2>1, <2>2
  <1>9. IsList(sos') /\ Len(sos') = Len(sos) /\ DOMAIN indicators' = DOMAIN indicators
    BY DEF FrozenStep, SourcesStep
  <1>10. SourcesShape'
    BY <1>7, <1>8, <1>9 DEF SourcesShape
  <1> QED BY <1>1, <1>3, <1>5, <1>10

LEMMA FrozenStay ==
    ASSUME EditInv, SourcesShape, LocksInv, NEW fresh, FrozenStep(fresh)
    PROVE  /\ LocksInv'
           /\ \A v \in Frozen : v \in Frozen' /\ RawEffectiveBounds(v)' = RawEffectiveBounds(v)
  <1>1. /\ DOMAIN sos = 1..Len(sos) /\ DOMAIN sos' = 1..Len(sos)
        /\ \A s \in 1..Len(sos) : MembersOf(s)' = MembersOf(s)
        /\ \A k \in DOMAIN indicators : BodyOf(k)' = BodyOf(k)
        /\ DOMAIN indicators' = DOMAIN indicators
    BY SourcesKeepTheirShape DEF FrozenStep, SourcesStep
  <1>2. ASSUME NEW v
        PROVE  v \in Frozen' <=> \/ \E s \in DOMAIN sos' : sos'[s].rewritten /\ v \in MembersOf(s)'
                                 \/ \E k \in DOMAIN indicators' : indicators'[k].rewritten /\ v \in BodyOf(k)'
    BY DEF Frozen
  <1>3. ASSUME NEW v, v \in Frozen PROVE v \in Frozen'
    <2>1. CASE \E s \in DOMAIN sos : sos[s].rewritten /\ v \in MembersOf(s)
      <3>1. PICK s \in DOMAIN sos : sos[s].rewritten /\ v \in MembersOf(s)
        BY <2>1
      <3>2. sos'[s].rewritten /\ s \in DOMAIN sos' /\ v \in MembersOf(s)'
        BY <1>1, <3>1 DEF FrozenStep, SourcesStep
      <3> QED BY <1>2, <3>2
    <2>2. CASE \E k \in DOMAIN indicators : indicators[k].rewritten /\ v \in BodyOf(k)
      <3>1. PICK k \in DOMAIN indicators : indicators[k].rewritten /\ v \in BodyOf(k)
        BY <2>2
      <3>2. indicators'[k].rewritten /\ k \in DOMAIN indicators' /\ v \in BodyOf(k)'
        BY <1>1, <3>1 DEF FrozenStep, SourcesStep
      <3> QED BY <1>2, <3>2
    <2> QED BY <1>3, <2>1, <2>2, FrozenIs
  <1>4. ASSUME NEW v, v \in Frozen' PROVE v \in Frozen \/ v \in fresh
    <2>1. CASE \E s \in DOMAIN sos' : sos'[s].rewritten /\ v \in MembersOf(s)'
      <3>1. PICK s \in DOMAIN sos' : sos'[s].rewritten /\ v \in MembersOf(s)'
        BY <2>1
      <3>2. v \in MembersOf(s) /\ (sos[s].rewritten \/ MembersOf(s) \subseteq fresh)
        BY <1>1, <3>1 DEF FrozenStep, SourcesStep
      <3> QED BY <1>1, <3>1, <3>2, FrozenIs
    <2>2. CASE \E k \in DOMAIN indicators' : indicators'[k].rewritten /\ v \in BodyOf(k)'
      <3>1. PICK k \in DOMAIN indicators' : indicators'[k].rewritten /\ v \in BodyOf(k)'
        BY <2>2
      <3>2. v \in BodyOf(k) /\ (indicators[k].rewritten \/ BodyOf(k) \subseteq fresh)
        BY <1>1, <3>1 DEF FrozenStep, SourcesStep
      <3> QED BY <1>1, <3>1, <3>2, FrozenIs
    <2> QED BY <1>2, <1>4, <2>1, <2>2
  <1>5. ASSUME NEW v, v \in Frozen \/ v \in fresh PROVE v \in 1..Len(vars) /\ vars'[v] = vars[v]
    <2>1. v \in 1..Len(vars)
      BY <1>5, FrozenAreDeclared DEF FrozenStep
    <2> QED BY <1>5, <2>1 DEF FrozenStep
  <1>6. LocksInv'
    <2> SUFFICES ASSUME NEW v \in Frozen' PROVE ParametersOf({vars'[v].lb, vars'[v].ub}) \subseteq locked'
      BY DEF LocksInv
    <2>1. (v \in Frozen \/ v \in fresh) /\ vars'[v] = vars[v]
      BY <1>4, <1>5
    <2>2. locked \subseteq locked'
      BY DEF FrozenStep
    <2>3. ParametersOf({vars[v].lb, vars[v].ub}) \subseteq locked'
      BY <2>1, <2>2 DEF LocksInv, FrozenStep
    <2> QED BY <2>1, <2>3
  <1>7. ASSUME NEW v \in Frozen PROVE RawEffectiveBounds(v)' = RawEffectiveBounds(v)
    <2>1. v \in 1..Len(vars) /\ vars'[v] = vars[v]
      BY <1>5
    <2>2. PICK lb, ub, n : lb = vars[v].lb /\ ub = vars[v].ub /\ n = Len(values)
      OBVIOUS
    <2>3. n \in Nat /\ lb \in BoundOver(n) /\ ub \in BoundOver(n)
      <3>1. values \in Seq(Int) /\ IsVariable(vars[v], n)
        BY <2>1, <2>2 DEF EditInv, Shape
      <3> QED BY <2>2, <3>1 DEF IsVariable
    <2>4. ParametersOf({lb, ub}) \subseteq locked /\ \A p \in 1..n : p \in locked => values'[p] = values[p]
      BY <2>2 DEF LocksInv, FrozenStep
    <2>5. lb.parameter \in 0..n /\ ub.parameter \in 0..n
      BY <2>3 DEF BoundOver
    <2>6. /\ lb.parameter # 0 => values'[lb.parameter] = values[lb.parameter]
          /\ ub.parameter # 0 => values'[ub.parameter] = values[ub.parameter]
      <3>1. /\ lb.parameter # 0 => lb.parameter \in locked /\ lb.parameter \in 1..n
            /\ ub.parameter # 0 => ub.parameter \in locked /\ ub.parameter \in 1..n
        BY <2>3, <2>4, <2>5, TwoParameters
      <3> QED BY <2>4, <3>1
    <2>7. Resolve(lb, values') = Resolve(lb, values) /\ Resolve(ub, values') = Resolve(ub, values)
      BY <2>6 DEF Resolve
    <2>8. Lower(v)' = Lower(v) /\ Upper(v)' = Upper(v)
      BY <2>1, <2>2, <2>7 DEF Lower, Upper
    <2> QED BY <2>1, <2>8 DEF RawEffectiveBounds
  <1> QED BY <1>3, <1>6, <1>7

-----------------------------------------------------------------------------
(* The class *)

RowsShape ==
    \A r \in DOMAIN rows :
      /\ rows[r] = [degree |-> rows[r].degree, bound |-> rows[r].bound,
                    scale |-> rows[r].scale, active |-> rows[r].active]
      /\ rows[r].bound \in 1..Len(vars) /\ rows[r].scale \in 1..Len(values)

LEMMA RowsStay ==
    ASSUME RowsShape, UNCHANGED rows,
           \A v \in 1..Len(vars) : v \in 1..Len(vars'),
           \A p \in 1..Len(values) : p \in 1..Len(values')
    PROVE  RowsShape'
  BY DEF RowsShape

\* The class of variables vs and rows rs, of which those of soc are cones.
KindGiven(vs, rs, goal, soc, b) ==
    LET discrete == b \/ \E v \in DOMAIN vs : vs[v].domain # "Real"
        Has(degree) == \E r \in DOMAIN rs : rs[r].active /\ rs[r].degree = degree
        Pick(name) == [class |-> name, integer |-> discrete]
        Found(good) == \E r \in DOMAIN rs : rs[r].active /\ rs[r].degree = "Quadratic" /\ (r \in soc <=> good)
    IN IF goal = "Nonlinear" \/ Has("Nonlinear") THEN Pick("NLP")
       ELSE IF Found(FALSE) THEN Pick("QCP")
       ELSE IF Has("Matrix") THEN Pick("SDP")
       ELSE IF Has("Cone") \/ Found(TRUE) THEN Pick("SOCP")
       ELSE IF goal = "Quadratic" THEN Pick("QP")
       ELSE Pick("LP")

Socs == {r \in DOMAIN rows : IsDetectedSoc(rows[r])}

LEMMA KindIsGiven == InferKind(SosActive) = KindGiven(vars, rows, objective, Socs, SosActive)
  <1> DEFINE discrete == SosActive \/ \E v \in DOMAIN vars : vars[v].domain # "Real"
             active == {r \in DOMAIN rows : rows[r].active}
             quadratic == {r \in active : rows[r].degree = "Quadratic"}
             detected == {r \in quadratic : IsDetectedSoc(rows[r])}
             Has(degree) == \E r \in active : rows[r].degree = degree
             Pick(name) == [class |-> name, integer |-> discrete]
  <1>1. InferKind(SosActive) =
          IF objective = "Nonlinear" \/ Has("Nonlinear") THEN Pick("NLP")
          ELSE IF quadratic \ detected # {} THEN Pick("QCP")
          ELSE IF Has("Matrix") THEN Pick("SDP")
          ELSE IF Has("Cone") \/ detected # {} THEN Pick("SOCP")
          ELSE IF objective = "Quadratic" THEN Pick("QP")
          ELSE Pick("LP")
    BY DEF InferKind
  <1>2. \A degree : Has(degree) <=> \E r \in DOMAIN rows : rows[r].active /\ rows[r].degree = degree
    OBVIOUS
  <1>3. quadratic \ detected # {} <=>
          \E r \in DOMAIN rows : rows[r].active /\ rows[r].degree = "Quadratic" /\ (r \in Socs <=> FALSE)
    BY DEF Socs
  <1>4. detected # {} <=>
          \E r \in DOMAIN rows : rows[r].active /\ rows[r].degree = "Quadratic" /\ (r \in Socs <=> TRUE)
    BY DEF Socs
  <1> HIDE DEF Has, quadratic, detected
  <1> QED BY <1>1, <1>2, <1>3, <1>4 DEF KindGiven

LEMMA KindIsGivenNext == InferKind(SosActive)' = KindGiven(vars', rows', objective', Socs', SosActive')
  <1>1. (InferKind(SosActive) = KindGiven(vars, rows, objective, Socs, SosActive))'
    BY KindIsGiven, PTL
  <1> QED BY <1>1
\* The class depends on the variables, the rows and the objective, and on the
\* parameters a row is judged by.
LEMMA KindDependsOnRows ==
    ASSUME EditInv, RowsShape, UNCHANGED <<vars, rows, objective, sos>>,
           \A p \in 1..Len(values) : values'[p] = values[p]
    PROVE  InferKind(SosActive)' = InferKind(SosActive)
  <1>1. vars' = vars /\ rows' = rows /\ objective' = objective /\ sos' = sos
    OBVIOUS
  <1>2. SosActive' = SosActive
    BY <1>1 DEF SosActive
  <1>3. ASSUME NEW r \in DOMAIN rows PROVE IsDetectedSoc(rows[r])' = IsDetectedSoc(rows[r])
    <2>1. PICK v, p, n : v = rows[r].bound /\ p = rows[r].scale /\ n = Len(values)
      OBVIOUS
    <2>2. v \in 1..Len(vars) /\ p \in 1..n
      BY <2>1 DEF RowsShape
    <2>3. n \in Nat /\ IsVariable(vars[v], n)
      BY <2>1, <2>2 DEF EditInv, Shape
    <2>4. vars[v].lb \in BoundOver(n)
      BY <2>3 DEF IsVariable
    <2>5. Resolve(vars[v].lb, values') = Resolve(vars[v].lb, values)
      BY <2>1, <2>3, <2>4, ResolveAgrees
    <2>6. Lower(v)' = Lower(v) /\ values'[p] = values[p]
      BY <1>1, <2>1, <2>2, <2>5 DEF Lower
    <2> QED BY <1>1, <2>1, <2>6 DEF IsDetectedSoc
  <1>4. Socs' = Socs
    <2>1. PICK all : all = DOMAIN rows
      OBVIOUS
    <2>2. \A r : r \in Socs <=> r \in all /\ IsDetectedSoc(rows[r])
      BY <2>1 DEF Socs
    <2>3. \A r : r \in Socs' <=> r \in all /\ IsDetectedSoc(rows[r])'
      BY <1>1, <2>1 DEF Socs
    <2>4. \A r : r \in Socs' <=> r \in Socs
      BY <1>3, <2>1, <2>2, <2>3
    <2> QED BY <2>4 DEF Socs
  <1>5. InferKind(SosActive)' = KindGiven(vars', rows', objective', Socs', SosActive')
    BY KindIsGivenNext
  <1>6. InferKind(SosActive) = KindGiven(vars, rows, objective, Socs, SosActive)
    BY KindIsGiven
  <1> QED BY <1>1, <1>2, <1>4, <1>5, <1>6

LEMMA KindKeeps ==
    ASSUME EditInv, RowsShape, KindIsCurrent, Kind(SosActive), UNCHANGED rewriting
    PROVE  KindIsCurrent'
  <1>1. /\ UNCHANGED <<vars, values, parameterRevision, rows, objective, sos>>
        /\ cached' = IF CacheValid THEN cached
                     ELSE {[kind |-> InferKind(SosActive), revision |-> parameterRevision]}
    BY DEF Kind, arena, rewriting
  <1>2. InferKind(SosActive)' = InferKind(SosActive)
    BY <1>1, KindDependsOnRows
  <1>3. ASSUME NEW c \in cached', c.revision = parameterRevision PROVE c.kind = InferKind(SosActive)
    <2>1. CASE CacheValid
      BY <1>1, <1>3, <2>1 DEF KindIsCurrent
    <2>2. CASE ~ CacheValid
      <3>1. c = [kind |-> InferKind(SosActive), revision |-> parameterRevision]
        BY <1>1, <2>2
      <3> QED BY <3>1
    <2> QED BY <2>1, <2>2
  <1> QED BY <1>1, <1>2, <1>3 DEF KindIsCurrent

LEMMA ForgottenKind == ASSUME InvalidateKind PROVE KindIsCurrent'
  BY DEF InvalidateKind, KindIsCurrent

-----------------------------------------------------------------------------
(* Steps *)

StepInv == EditInv /\ SourcesShape /\ RowsShape /\ LocksInv /\ KindIsCurrent

Kept ==
    /\ EditInv' /\ RowsShape' /\ KindIsCurrent' /\ Len(values) <= Len(values')
    /\ \E fresh : FrozenStep(fresh)

LEMMA KeptIsEnough ==
    ASSUME StepInv, Kept
    PROVE  /\ StepInv'
           /\ \A v \in Frozen : v \in Frozen' /\ RawEffectiveBounds(v)' = RawEffectiveBounds(v)
  <1>1. PICK fresh : FrozenStep(fresh)
    BY DEF Kept
  <1>2. SourcesShape'
    BY <1>1, SourcesKeepTheirShape DEF StepInv
  <1> QED BY <1>1, <1>2, FrozenStay DEF StepInv, Kept

LEMMA SourcesUnchanged ==
    ASSUME SourcesShape, UNCHANGED <<sos, indicators>>, NEW fresh
    PROVE  SourcesStep(fresh)
  <1>1. sos' = sos /\ indicators' = indicators
    OBVIOUS
  <1> QED BY <1>1 DEF SourcesShape, SourcesStep

\* An action that keeps the sources and every frozen variable.
LEMMA PlainStep ==
    ASSUME StepInv, EditInv', KindIsCurrent', UNCHANGED <<sos, indicators>>,
           Len(vars) <= Len(vars'), Len(values) <= Len(values'),
           \A v \in 1..Len(vars) : v \in Frozen => vars'[v] = vars[v],
           UNCHANGED locked, \A p \in 1..Len(values) : p \in locked => values'[p] = values[p],
           UNCHANGED rows \/ RowsShape'
    PROVE  Kept
  <1>1. Len(vars) \in Nat /\ Len(vars') \in Nat /\ Len(values) \in Nat /\ Len(values') \in Nat
    BY ListFacts DEF StepInv, EditInv, Shape
  <1>2. RowsShape'
    <2>1. /\ \A v \in 1..Len(vars) : v \in 1..Len(vars')
          /\ \A p \in 1..Len(values) : p \in 1..Len(values')
      BY <1>1
    <2> QED BY <2>1, RowsStay DEF StepInv
  <1>3. PICK fresh : fresh = {}
    OBVIOUS
  <1>4. SourcesStep(fresh)
    BY SourcesUnchanged DEF StepInv
  <1>5. FrozenStep(fresh)
    BY <1>1, <1>3, <1>4 DEF FrozenStep
  <1> QED BY <1>2, <1>5 DEF Kept

\* Storing the bounds of a variable that is not frozen.
LEMMA StoreBoundsStep ==
    ASSUME StepInv, EditInv', NEW v \in 1..Len(vars), NEW lb, NEW ub, StoreBounds(v, lb, ub),
           v \notin Frozen, UNCHANGED rewriting
    PROVE  Kept
  <1>1. PICK x : x = [vars[v] EXCEPT !.lb = lb, !.ub = ub]
    OBVIOUS
  <1>2. IsList(vars) /\ DOMAIN vars = 1..Len(vars) /\ Len(vars) \in Nat /\ Len(values) \in Nat
    BY ListFacts DEF StepInv, EditInv, Shape
  <1>3. vars' = [vars EXCEPT ![v] = x]
    <2>1. vars' = [vars EXCEPT ![v].lb = lb, ![v].ub = ub]
      BY DEF StoreBounds
    <2> QED BY <1>1, <1>2, <2>1
  <1>4. /\ DOMAIN vars' = 1..Len(vars) /\ vars' = [w \in 1..Len(vars) |-> vars'[w]]
        /\ \A w \in 1..Len(vars) : w # v => vars'[w] = vars[w]
    BY <1>2, <1>3
  <1>5. Len(vars') = Len(vars)
    BY <1>2, <1>4, ListOf
  <1>6. /\ UNCHANGED <<values, locked, rows, sos, indicators>> /\ KindIsCurrent'
    BY ForgottenKind DEF StoreBounds, rewriting
  <1>7. Len(vars) <= Len(vars') /\ Len(values) <= Len(values')
    BY <1>2, <1>5, <1>6
  <1>8. \A w \in 1..Len(vars) : w \in Frozen => vars'[w] = vars[w]
    BY <1>4
  <1>9. \A p \in 1..Len(values) : p \in locked => values'[p] = values[p]
    BY <1>6
  <1> QED BY <1>6, <1>7, <1>8, <1>9, PlainStep

LEMMA KindStep ==
    ASSUME StepInv, Kind(SosActive), UNCHANGED <<rewriting, calls>>
    PROVE  Kept
  <1>1. /\ vars' = vars /\ values' = values /\ checks' = checks /\ dependents' = dependents
        /\ locked' = locked /\ rows' = rows /\ sos' = sos /\ indicators' = indicators
    BY DEF Kind, arena, rewriting
  <1>2. EditInv'
    BY <1>1 DEF StepInv, EditInv, Shape, BoundIndexExact
  <1>3. KindIsCurrent'
    BY KindKeeps DEF StepInv
  <1>4. Len(vars) \in Nat /\ Len(values) \in Nat
    BY ListFacts DEF StepInv, EditInv, Shape
  <1>5. Len(vars) <= Len(vars') /\ Len(values) <= Len(values')
    BY <1>1, <1>4
  <1> QED BY <1>1, <1>2, <1>3, <1>5, PlainStep

LEMMA FixVarStep ==
    ASSUME StepInv, NEW v \in DOMAIN vars, NEW n \in Numbers, FixVar(v, n, Frozen), UNCHANGED rewriting
    PROVE  Kept
  <1>1. v \in 1..Len(vars)
    BY ListFacts DEF StepInv, EditInv, Shape
  <1>2. PICK b : b = Fixed(n)
    OBVIOUS
  <1>3. EditInv' /\ v \notin Frozen /\ StoreBounds(v, b, b)
    BY <1>1, <1>2, FixVarKeeps DEF StepInv
  <1> QED BY <1>1, <1>3, StoreBoundsStep

LEMMA SetBoundsStep ==
    ASSUME StepInv, NEW v \in DOMAIN vars, NEW lb \in BoundOver(Len(values)),
           NEW ub \in BoundOver(Len(values)), SetBounds(v, lb, ub, Frozen), UNCHANGED rewriting
    PROVE  Kept
  <1>1. v \in 1..Len(vars)
    BY ListFacts DEF StepInv, EditInv, Shape
  <1>2. EditInv' /\ v \notin Frozen /\ StoreBounds(v, lb, ub)
    BY <1>1, SetBoundsKeeps DEF StepInv
  <1> QED BY <1>1, <1>2, StoreBoundsStep

LEMMA RegisterVarsStep ==
    ASSUME StepInv, NEW batch, IsList(batch), NEW lb \in BoundOver(Len(values)),
           NEW ub \in BoundOver(Len(values)), RegisterVars(batch, "Real", 0, lb, ub), UNCHANGED rewriting
    PROVE  Kept
  <1>1. EditInv' /\ Len(vars) <= Len(vars') /\ \A v \in 1..Len(vars) : vars'[v] = vars[v]
    BY RegisterVarsKeeps DEF StepInv
  <1>2. /\ values' = values /\ locked' = locked /\ rows' = rows
        /\ UNCHANGED <<sos, indicators>> /\ KindIsCurrent'
    BY ForgottenKind DEF RegisterVars, rewriting
  <1>3. Len(values) \in Nat
    BY DEF StepInv, EditInv, Shape
  <1>4. Len(values) <= Len(values')
    BY <1>2, <1>3
  <1> QED BY <1>1, <1>2, <1>4, PlainStep

LEMMA RegisterParamStep ==
    ASSUME StepInv, NEW n \in Int, RegisterParam(n), UNCHANGED rewriting
    PROVE  Kept
  <1>1. EditInv' /\ vars' = vars /\ values' = values \o <<n>>
    BY RegisterParamKeeps DEF StepInv
  <1>2. locked' = locked /\ rows' = rows /\ UNCHANGED <<sos, indicators>> /\ KindIsCurrent'
    BY ForgottenKind DEF RegisterParam, rewriting
  <1>3. PICK more : more = <<n>>
    OBVIOUS
  <1>4. more \in Seq(Int)
    BY <1>3
  <1>5. Len(values) <= Len(values') /\ \A p \in 1..Len(values) : values'[p] = values[p]
    BY <1>1, <1>3, <1>4, DeclaredValues DEF StepInv, EditInv, Shape
  <1>6. Len(vars) \in Nat
    BY ListFacts DEF StepInv, EditInv, Shape
  <1>7. Len(vars) <= Len(vars')
    BY <1>1, <1>6
  <1> QED BY <1>1, <1>2, <1>5, <1>7, PlainStep

\* A batch of parameters keeps the cached class, and the class.
LEMMA RegisterParamsBatchStep ==
    ASSUME StepInv, NEW batch \in Seq(Int), RegisterParamsBatch(batch), UNCHANGED rewriting
    PROVE  Kept
  <1>1. EditInv' /\ vars' = vars /\ values' = values \o batch
    BY RegisterParamsBatchKeeps DEF StepInv
  <1>2. /\ UNCHANGED <<vars, rows, objective, sos>> /\ UNCHANGED <<sos, indicators>>
        /\ locked' = locked /\ rows' = rows /\ cached' = cached /\ parameterRevision' = parameterRevision
    BY DEF RegisterParamsBatch, rewriting
  <1>3. Len(values) <= Len(values') /\ \A p \in 1..Len(values) : values'[p] = values[p]
    BY <1>1, DeclaredValues DEF StepInv, EditInv, Shape
  <1>4. Len(vars) \in Nat
    BY ListFacts DEF StepInv, EditInv, Shape
  <1>5. Len(vars) <= Len(vars')
    BY <1>1, <1>4
  <1>6. InferKind(SosActive)' = InferKind(SosActive)
    BY <1>2, <1>3, KindDependsOnRows DEF StepInv
  <1>7. KindIsCurrent'
    BY <1>2, <1>6 DEF StepInv, KindIsCurrent
  <1> QED BY <1>1, <1>2, <1>3, <1>5, <1>7, PlainStep

LEMMA SetParamsStep ==
    ASSUME StepInv, NEW updates, DOMAIN updates \subseteq 1..Len(values),
           \A p \in DOMAIN updates : updates[p] \in Int, SetParams(updates), UNCHANGED rewriting
    PROVE  Kept
  <1>1. /\ EditInv' /\ vars' = vars /\ Len(values') = Len(values)
        /\ DOMAIN updates \cap locked = {}
        /\ \A p \in 1..Len(values) : p \notin DOMAIN updates => values'[p] = values[p]
    BY SetParamsKeeps DEF StepInv
  <1>2. locked' = locked /\ rows' = rows /\ UNCHANGED <<sos, indicators>> /\ KindIsCurrent'
    BY ForgottenKind DEF SetParams, rewriting
  <1>3. Len(vars) \in Nat /\ Len(values) \in Nat
    BY ListFacts DEF StepInv, EditInv, Shape
  <1>4. Len(vars) <= Len(vars') /\ Len(values) <= Len(values')
    BY <1>1, <1>3
  <1>5. \A p \in 1..Len(values) : p \in locked => values'[p] = values[p]
    BY <1>1
  <1> QED BY <1>1, <1>2, <1>4, <1>5, PlainStep

\* An action that leaves the variables and the arena alone.
LEMMA ArenaStays ==
    ASSUME StepInv, UNCHANGED <<vars, arena>>
    PROVE  /\ EditInv' /\ vars' = vars /\ values' = values /\ locked' = locked
           /\ Len(vars) \in Nat /\ Len(values) \in Nat
           /\ Len(vars) <= Len(vars') /\ Len(values) <= Len(values')
  <1>1. vars' = vars /\ values' = values /\ checks' = checks /\ dependents' = dependents /\ locked' = locked
    BY DEF arena
  <1>2. EditInv'
    BY <1>1 DEF StepInv, EditInv, Shape, BoundIndexExact
  <1>3. Len(vars) \in Nat /\ Len(values) \in Nat
    BY ListFacts DEF StepInv, EditInv, Shape
  <1> QED BY <1>1, <1>2, <1>3

LEMMA SetRowActiveStep ==
    ASSUME StepInv, NEW r \in DOMAIN rows, NEW active, SetRowActive(r, active), UNCHANGED rewriting
    PROVE  Kept
  <1>1. /\ EditInv' /\ vars' = vars /\ values' = values /\ locked' = locked
        /\ Len(vars) <= Len(vars') /\ Len(values) <= Len(values')
    BY ArenaStays DEF SetRowActive
  <1>2. KindIsCurrent' /\ UNCHANGED <<sos, indicators>>
    BY ForgottenKind DEF SetRowActive, rewriting
  <1>3. rows' = [rows EXCEPT ![r].active = active]
    BY DEF SetRowActive
  <1>4. RowsShape'
    <2> SUFFICES ASSUME NEW q \in DOMAIN rows'
                 PROVE  /\ rows'[q] = [degree |-> rows'[q].degree, bound |-> rows'[q].bound,
                                       scale |-> rows'[q].scale, active |-> rows'[q].active]
                        /\ rows'[q].bound \in 1..Len(vars') /\ rows'[q].scale \in 1..Len(values')
      BY DEF RowsShape
    <2>1. q \in DOMAIN rows
      BY <1>3
    <2>2. /\ rows[q] = [degree |-> rows[q].degree, bound |-> rows[q].bound,
                        scale |-> rows[q].scale, active |-> rows[q].active]
          /\ rows[q].bound \in 1..Len(vars) /\ rows[q].scale \in 1..Len(values)
      BY <2>1 DEF StepInv, RowsShape
    <2>3. CASE q # r
      <3>1. rows'[q] = rows[q]
        BY <1>3, <2>1, <2>3
      <3> QED BY <1>1, <2>2, <3>1
    <2>4. CASE q = r
      <3>1. rows'[q] = [rows[q] EXCEPT !.active = active]
        BY <1>3, <2>1, <2>4
      <3>2. rows'[q] = [degree |-> rows[q].degree, bound |-> rows[q].bound,
                        scale |-> rows[q].scale, active |-> active]
        BY <2>2, <3>1
      <3> QED BY <1>1, <2>2, <3>2
    <2> QED BY <2>3, <2>4
  <1> QED BY <1>1, <1>2, <1>4, PlainStep

LEMMA SetObjectiveStep ==
    ASSUME StepInv, NEW degree, SetObjective(degree), UNCHANGED rewriting
    PROVE  Kept
  <1>1. /\ EditInv' /\ vars' = vars /\ values' = values /\ locked' = locked
        /\ Len(vars) <= Len(vars') /\ Len(values) <= Len(values')
    BY ArenaStays DEF SetObjective
  <1>2. KindIsCurrent' /\ UNCHANGED <<sos, indicators>> /\ rows' = rows
    BY ForgottenKind DEF SetObjective, rewriting
  <1> QED BY <1>1, <1>2, PlainStep

-----------------------------------------------------------------------------
(* Steps of the sources *)

LEMMA BoundsOfFresh ==
    ASSUME NEW fresh, NEW v \in fresh
    PROVE  ParametersOf({vars[v].lb, vars[v].ub}) \subseteq BoundParameters(fresh)
  BY DEF BoundParameters

LEMMA ReformulateSosStep ==
    ASSUME StepInv, NEW asked \in SUBSET DOMAIN sos, NEW fallback, ReformulateSos(asked, fallback)
    PROVE  Kept
  <1>1. PICK sources, fresh : /\ sources = {s \in asked : sos[s].active}
                              /\ fresh = UNION {MembersOf(s) : s \in sources}
    OBVIOUS
  <1>2. DOMAIN sos = 1..Len(sos) /\ IsList(sos) /\ sources \subseteq 1..Len(sos) /\ Len(sos) \in Nat
    BY <1>1, ListFacts DEF StepInv, SourcesShape
  <1>3. ApplySos(sources, fallback)
    BY <1>1 DEF ReformulateSos
  <1>4. EditInv' /\ Len(vars) <= Len(vars') /\ \A v \in 1..Len(vars) : vars'[v] = vars[v]
    BY <1>3, ApplySosKeeps DEF StepInv
  <1>5. /\ locked' = locked \cup BoundParameters(fresh)
        /\ sos' = [s \in DOMAIN sos |-> IF s \in sources
                     THEN [sos[s] EXCEPT !.active = FALSE, !.rewritten = TRUE] ELSE sos[s]]
        /\ indicators' = indicators /\ values' = values /\ rows' = rows /\ KindIsCurrent'
    BY <1>1, <1>3, ForgottenKind DEF ApplySos
  <1>6. /\ DOMAIN sos' = 1..Len(sos) /\ sos' = [s \in 1..Len(sos) |-> sos'[s]]
        /\ \A s \in 1..Len(sos) :
             sos'[s] = IF s \in sources THEN [sos[s] EXCEPT !.active = FALSE, !.rewritten = TRUE] ELSE sos[s]
    BY <1>2, <1>5
  <1>7. IsList(sos') /\ Len(sos') = Len(sos)
    BY <1>2, <1>6, ListOf
  <1>8. ASSUME NEW s \in 1..Len(sos)
        PROVE  /\ sos'[s] = [type |-> sos'[s].type, members |-> sos[s].members,
                             active |-> sos'[s].active, rewritten |-> sos'[s].rewritten]
               /\ sos[s].rewritten => sos'[s].rewritten
               /\ sos'[s].rewritten => sos[s].rewritten \/ MembersOf(s) \subseteq fresh
    <2>1. sos[s] = [type |-> sos[s].type, members |-> sos[s].members,
                    active |-> sos[s].active, rewritten |-> sos[s].rewritten]
      BY DEF StepInv, SourcesShape
    <2>2. CASE s \notin sources
      <3>1. sos'[s] = sos[s]
        BY <1>6, <2>2
      <3> QED BY <2>1, <3>1
    <2>3. CASE s \in sources
      <3>1. sos'[s] = [sos[s] EXCEPT !.active = FALSE, !.rewritten = TRUE]
        BY <1>6, <2>3
      <3>2. sos'[s] = [type |-> sos[s].type, members |-> sos[s].members,
                       active |-> FALSE, rewritten |-> TRUE]
        BY <2>1, <3>1
      <3>3. sos'[s].rewritten = TRUE
        BY <3>2
      <3>4. MembersOf(s) \subseteq fresh
        BY <1>1, <2>3
      <3> QED BY <3>2, <3>3, <3>4
    <2> QED BY <2>2, <2>3
  <1>9. SourcesStep(fresh)
    <2>1. \A k \in DOMAIN indicators : indicators'[k] = indicators[k]
      BY <1>5
    <2> QED BY <1>5, <1>7, <1>8, <2>1 DEF SourcesStep, StepInv, SourcesShape
  <1>10. fresh \subseteq 1..Len(vars)
    BY <1>1, <1>2 DEF StepInv, SourcesShape
  <1>11. Len(vars) \in Nat /\ Len(vars') \in Nat /\ Len(values) \in Nat
    BY <1>4, ListFacts DEF StepInv, EditInv, Shape
  <1>12. FrozenStep(fresh)
    <2>1. \A v \in fresh : ParametersOf({vars[v].lb, vars[v].ub}) \subseteq locked'
      BY <1>5, BoundsOfFresh
    <2> QED BY <1>4, <1>5, <1>9, <1>10, <1>11, <2>1 DEF FrozenStep
  <1>13. RowsShape'
    <2>1. \A v \in 1..Len(vars) : v \in 1..Len(vars')
      BY <1>4, <1>11
    <2>2. \A p \in 1..Len(values) : p \in 1..Len(values')
      <3>1. values' = values
        BY <1>5
      <3> QED BY <3>1
    <2> QED BY <1>5, <2>1, <2>2, RowsStay DEF StepInv
  <1>14. Len(values) <= Len(values')
    <2>1. values' = values
      BY <1>5
    <2> QED BY <1>11, <2>1
  <1> QED BY <1>4, <1>5, <1>12, <1>13, <1>14 DEF Kept

LEMMA ReformulateIndicatorsStep ==
    ASSUME StepInv, NEW asked \in SUBSET DOMAIN indicators, NEW fallback,
           ReformulateIndicators(asked, fallback)
    PROVE  Kept
  <1>1. PICK sources, fresh : /\ sources = {k \in asked : indicators[k].active}
                              /\ fresh = UNION {BodyOf(k) : k \in sources}
    OBVIOUS
  <1>2. sources \subseteq DOMAIN indicators
    BY <1>1
  <1>3. /\ locked' = locked \cup BoundParameters(fresh)
        /\ indicators' = [k \in DOMAIN indicators |-> IF k \in sources
                            THEN [indicators[k] EXCEPT !.active = FALSE, !.rewritten = TRUE]
                            ELSE indicators[k]]
        /\ sos' = sos /\ values' = values /\ rows' = rows /\ vars' = vars
        /\ checks' = checks /\ dependents' = dependents /\ KindIsCurrent'
    BY <1>1, ForgottenKind DEF ReformulateIndicators
  <1>4. EditInv'
    BY <1>3 DEF StepInv, EditInv, Shape, BoundIndexExact
  <1>5. /\ DOMAIN indicators' = DOMAIN indicators
        /\ \A k \in DOMAIN indicators :
             indicators'[k] = IF k \in sources
                              THEN [indicators[k] EXCEPT !.active = FALSE, !.rewritten = TRUE]
                              ELSE indicators[k]
    BY <1>3
  <1>6. ASSUME NEW k \in DOMAIN indicators
        PROVE  /\ indicators'[k] = [trigger |-> indicators[k].trigger, on |-> indicators'[k].on,
                                    coefficients |-> indicators[k].coefficients,
                                    lower |-> indicators'[k].lower, upper |-> indicators'[k].upper,
                                    active |-> indicators'[k].active,
                                    rewritten |-> indicators'[k].rewritten]
               /\ indicators[k].rewritten => indicators'[k].rewritten
               /\ indicators'[k].rewritten => indicators[k].rewritten \/ BodyOf(k) \subseteq fresh
    <2>1. indicators[k] = [trigger |-> indicators[k].trigger, on |-> indicators[k].on,
                           coefficients |-> indicators[k].coefficients,
                           lower |-> indicators[k].lower, upper |-> indicators[k].upper,
                           active |-> indicators[k].active, rewritten |-> indicators[k].rewritten]
      BY DEF StepInv, SourcesShape
    <2>2. CASE k \notin sources
      <3>1. indicators'[k] = indicators[k]
        BY <1>5, <2>2
      <3> QED BY <2>1, <3>1
    <2>3. CASE k \in sources
      <3>1. indicators'[k] = [indicators[k] EXCEPT !.active = FALSE, !.rewritten = TRUE]
        BY <1>5, <2>3
      <3>2. indicators'[k] = [trigger |-> indicators[k].trigger, on |-> indicators[k].on,
                              coefficients |-> indicators[k].coefficients,
                              lower |-> indicators[k].lower, upper |-> indicators[k].upper,
                              active |-> FALSE, rewritten |-> TRUE]
        BY <2>1, <3>1
      <3>3. indicators'[k].rewritten = TRUE
        BY <3>2
      <3>4. BodyOf(k) \subseteq fresh
        BY <1>1, <2>3
      <3> QED BY <3>2, <3>3, <3>4
    <2> QED BY <2>2, <2>3
  <1>7. SourcesStep(fresh)
    <2>1. \A s \in 1..Len(sos) : sos'[s] = sos[s]
      BY <1>3
    <2> QED BY <1>3, <1>5, <1>6, <2>1 DEF SourcesStep, StepInv, SourcesShape
  <1>8. fresh \subseteq 1..Len(vars)
    BY <1>1, <1>2 DEF StepInv, SourcesShape
  <1>9. Len(vars) \in Nat /\ Len(values) \in Nat
    BY ListFacts DEF StepInv, EditInv, Shape
  <1>10. FrozenStep(fresh)
    <2>1. \A v \in fresh : ParametersOf({vars[v].lb, vars[v].ub}) \subseteq locked'
      BY <1>3, BoundsOfFresh
    <2>2. vars' = vars /\ values' = values /\ locked \subseteq locked'
      BY <1>3
    <2>3. Len(vars') \in Nat /\ Len(vars) <= Len(vars')
      BY <1>9, <2>2
    <2>4. /\ \A v \in 1..Len(vars) : vars'[v] = vars[v]
          /\ \A p \in 1..Len(values) : values'[p] = values[p]
      BY <2>2
    <2> QED BY ONLY <1>7, <1>8, <1>9, <2>1, <2>2, <2>3, <2>4 DEF FrozenStep
  <1>11. RowsShape'
    BY <1>3 DEF StepInv, RowsShape
  <1>12. Len(values) <= Len(values')
    <2>1. values' = values
      BY <1>3
    <2> QED BY <1>9, <2>1
  <1> QED BY <1>3, <1>4, <1>10, <1>11, <1>12 DEF Kept

\* An edit of one SOS that is not rewritten, which keeps its members.
LEMMA SosEditStep ==
    ASSUME StepInv, NEW s \in DOMAIN sos, ~ sos[s].rewritten, NEW x, sos' = [sos EXCEPT ![s] = x],
           x = [type |-> x.type, members |-> sos[s].members, active |-> x.active,
                rewritten |-> sos[s].rewritten],
           InvalidateKind, UNCHANGED <<vars, arena, rows, objective, indicators>>
    PROVE  Kept
  <1>1. /\ EditInv' /\ vars' = vars /\ values' = values /\ locked' = locked
        /\ Len(vars) \in Nat /\ Len(values) \in Nat
        /\ Len(vars) <= Len(vars') /\ Len(values) <= Len(values')
    BY ArenaStays
  <1>2. DOMAIN sos = 1..Len(sos) /\ IsList(sos) /\ Len(sos) \in Nat
    BY ListFacts DEF StepInv, SourcesShape
  <1>3. /\ DOMAIN sos' = 1..Len(sos) /\ sos' = [t \in 1..Len(sos) |-> sos'[t]]
        /\ \A t \in 1..Len(sos) : sos'[t] = IF t = s THEN x ELSE sos[t]
    BY <1>2
  <1>4. IsList(sos') /\ Len(sos') = Len(sos)
    BY <1>2, <1>3, ListOf
  <1>5. PICK fresh : fresh = {}
    OBVIOUS
  <1>6. ASSUME NEW t \in 1..Len(sos)
        PROVE  /\ sos'[t] = [type |-> sos'[t].type, members |-> sos[t].members,
                             active |-> sos'[t].active, rewritten |-> sos'[t].rewritten]
               /\ sos'[t].rewritten = sos[t].rewritten
    <2>1. sos[t] = [type |-> sos[t].type, members |-> sos[t].members,
                    active |-> sos[t].active, rewritten |-> sos[t].rewritten]
      BY DEF StepInv, SourcesShape
    <2>2. CASE t # s
      <3>1. sos'[t] = sos[t]
        BY <1>3, <2>2
      <3> QED BY <2>1, <3>1
    <2>3. CASE t = s
      <3>1. sos'[t] = x
        BY <1>3, <2>3
      <3>2. x.rewritten = sos[s].rewritten
        OBVIOUS
      <3> QED BY <2>3, <3>1, <3>2
    <2> QED BY <2>2, <2>3
  <1>7. SourcesStep(fresh)
    BY <1>4, <1>6 DEF SourcesStep, StepInv, SourcesShape
  <1>8. FrozenStep(fresh)
    BY <1>1, <1>5, <1>7 DEF FrozenStep
  <1>9. RowsShape' /\ KindIsCurrent'
    BY <1>1, ForgottenKind DEF StepInv, RowsShape
  <1> QED BY <1>1, <1>8, <1>9 DEF Kept

LEMMA SetSosActiveStep ==
    ASSUME StepInv, NEW s \in DOMAIN sos, NEW active, SetSosActive(s, active)
    PROVE  Kept
  <1>1. sos[s] = [type |-> sos[s].type, members |-> sos[s].members,
                  active |-> sos[s].active, rewritten |-> sos[s].rewritten]
    BY ListFacts DEF StepInv, SourcesShape
  <1>2. PICK x : x = [sos[s] EXCEPT !.active = active]
    OBVIOUS
  <1>3. x = [type |-> sos[s].type, members |-> sos[s].members, active |-> active,
             rewritten |-> sos[s].rewritten]
    BY <1>1, <1>2
  <1>4. x = [type |-> x.type, members |-> sos[s].members, active |-> x.active,
             rewritten |-> sos[s].rewritten]
    BY <1>3
  <1>5. sos' = [sos EXCEPT ![s] = x]
    BY <1>2 DEF SetSosActive
  <1>6. ~ sos[s].rewritten /\ InvalidateKind /\ UNCHANGED <<vars, arena, rows, objective, indicators>>
    BY DEF SetSosActive
  <1> QED BY <1>4, <1>5, <1>6, SosEditStep

LEMMA SetSosSetStep ==
    ASSUME StepInv, NEW s \in DOMAIN sos, NEW type, SetSosSet(s, type, sos[s].members)
    PROVE  Kept
  <1>1. sos[s] = [type |-> sos[s].type, members |-> sos[s].members,
                  active |-> sos[s].active, rewritten |-> sos[s].rewritten]
    BY ListFacts DEF StepInv, SourcesShape
  <1>2. PICK x, y : y = [sos[s] EXCEPT !.type = type] /\ x = [y EXCEPT !.members = sos[s].members]
    OBVIOUS
  <1>3. y = [type |-> type, members |-> sos[s].members, active |-> sos[s].active,
             rewritten |-> sos[s].rewritten]
    BY <1>1, <1>2
  <1>4. x = [type |-> type, members |-> sos[s].members, active |-> sos[s].active,
             rewritten |-> sos[s].rewritten]
    BY <1>2, <1>3
  <1>5. x = [type |-> x.type, members |-> sos[s].members, active |-> x.active,
             rewritten |-> sos[s].rewritten]
    BY <1>4
  <1>6. sos' = [sos EXCEPT ![s] = x]
    <2>1. sos' = [sos EXCEPT ![s].type = type, ![s].members = sos[s].members]
      BY DEF SetSosSet
    <2> QED BY <1>2, <2>1
  <1>7. ~ sos[s].rewritten /\ InvalidateKind /\ UNCHANGED <<vars, arena, rows, objective, indicators>>
    BY DEF SetSosSet
  <1> QED BY <1>5, <1>6, <1>7, SosEditStep

LEMMA SetIndicatorSetStep ==
    ASSUME StepInv, NEW k \in DOMAIN indicators, NEW on, NEW lower, NEW upper,
           SetIndicatorSet(k, on, lower, upper)
    PROVE  Kept
  <1>1. /\ EditInv' /\ vars' = vars /\ values' = values /\ locked' = locked
        /\ Len(vars) \in Nat /\ Len(values) \in Nat
        /\ Len(vars) <= Len(vars') /\ Len(values) <= Len(values')
    BY ArenaStays DEF SetIndicatorSet
  <1>2. sos' = sos /\ rows' = rows /\ KindIsCurrent'
    BY ForgottenKind DEF SetIndicatorSet
  <1>3. indicators[k] = [trigger |-> indicators[k].trigger, on |-> indicators[k].on,
                         coefficients |-> indicators[k].coefficients,
                         lower |-> indicators[k].lower, upper |-> indicators[k].upper,
                         active |-> indicators[k].active, rewritten |-> indicators[k].rewritten]
    BY DEF StepInv, SourcesShape
  <1>4. PICK x, y, z : /\ x = [indicators[k] EXCEPT !.on = on]
                       /\ y = [x EXCEPT !.lower = lower]
                       /\ z = [y EXCEPT !.upper = upper]
    OBVIOUS
  <1>5. x = [trigger |-> indicators[k].trigger, on |-> on,
             coefficients |-> indicators[k].coefficients,
             lower |-> indicators[k].lower, upper |-> indicators[k].upper,
             active |-> indicators[k].active, rewritten |-> indicators[k].rewritten]
    BY <1>3, <1>4
  <1>6. y = [trigger |-> indicators[k].trigger, on |-> on,
             coefficients |-> indicators[k].coefficients,
             lower |-> lower, upper |-> indicators[k].upper,
             active |-> indicators[k].active, rewritten |-> indicators[k].rewritten]
    BY <1>4, <1>5
  <1>7. z = [trigger |-> indicators[k].trigger, on |-> on,
             coefficients |-> indicators[k].coefficients, lower |-> lower, upper |-> upper,
             active |-> indicators[k].active, rewritten |-> indicators[k].rewritten]
    BY <1>4, <1>6
  <1>8. indicators' = [indicators EXCEPT ![k] = z]
    <2>1. indicators' = [indicators EXCEPT ![k].on = on, ![k].lower = lower, ![k].upper = upper]
      BY DEF SetIndicatorSet
    <2> QED BY <1>4, <2>1
  <1>9. PICK fresh : fresh = {}
    OBVIOUS
  <1>10. ASSUME NEW j \in DOMAIN indicators
         PROVE  /\ indicators'[j] = [trigger |-> indicators[j].trigger, on |-> indicators'[j].on,
                                     coefficients |-> indicators[j].coefficients,
                                     lower |-> indicators'[j].lower, upper |-> indicators'[j].upper,
                                     active |-> indicators'[j].active,
                                     rewritten |-> indicators'[j].rewritten]
                /\ indicators'[j].rewritten = indicators[j].rewritten
    <2>1. CASE j # k
      <3>1. indicators'[j] = indicators[j]
        BY <1>8, <2>1
      <3>2. indicators[j] = [trigger |-> indicators[j].trigger, on |-> indicators[j].on,
                             coefficients |-> indicators[j].coefficients,
                             lower |-> indicators[j].lower, upper |-> indicators[j].upper,
                             active |-> indicators[j].active, rewritten |-> indicators[j].rewritten]
        BY DEF StepInv, SourcesShape
      <3> QED BY <3>1, <3>2
    <2>2. CASE j = k
      <3>1. indicators'[j] = z
        BY <1>8, <2>2
      <3> QED BY <1>7, <2>2, <3>1
    <2> QED BY <2>1, <2>2
  <1>11. SourcesStep(fresh)
    <2>1. \A s \in 1..Len(sos) : sos'[s] = sos[s]
      BY <1>2
    <2>2. DOMAIN indicators' = DOMAIN indicators
      BY <1>8
    <2> QED BY <1>2, <1>10, <2>1, <2>2 DEF SourcesStep, StepInv, SourcesShape
  <1>12. FrozenStep(fresh)
    BY <1>1, <1>9, <1>11 DEF FrozenStep
  <1>13. RowsShape'
    BY <1>1, <1>2 DEF StepInv, RowsShape
  <1> QED BY <1>1, <1>2, <1>12, <1>13 DEF Kept

-----------------------------------------------------------------------------
(* The specification *)

\* The bounds and assignments a caller passes name declared parameters.
Inputs(bounds, assignments) ==
    /\ \A pair \in bounds : pair[1] \in BoundOver(Len(values)) /\ pair[2] \in BoundOver(Len(values))
    /\ \A a \in assignments : DOMAIN a \subseteq 1..Len(values) /\ \A p \in DOMAIN a : a[p] \in Int

LEMMA NextKeeps ==
    ASSUME StepInv, NEW bounds, NEW assignments, Inputs(bounds, assignments),
           Next(bounds, assignments)
    PROVE  Kept
  <1>1. CASE Kind(SosActive) /\ UNCHANGED <<rewriting, calls>>
    BY <1>1, KindStep
  <1>2. ASSUME NEW v \in DOMAIN vars, NEW n \in Numbers, FixVar(v, n, Frozen), UNCHANGED rewriting
        PROVE  Kept
    BY <1>2, FixVarStep
  <1>3. ASSUME NEW v \in DOMAIN vars, NEW pair \in bounds, SetBounds(v, pair[1], pair[2], Frozen),
               UNCHANGED rewriting
        PROVE  Kept
    <2>1. PICK lb, ub : lb = pair[1] /\ ub = pair[2]
      OBVIOUS
    <2>2. lb \in BoundOver(Len(values)) /\ ub \in BoundOver(Len(values))
      BY <2>1 DEF Inputs
    <2>3. SetBounds(v, lb, ub, Frozen)
      BY <1>3, <2>1
    <2> QED BY <1>3, <2>2, <2>3, SetBoundsStep
  <1>4. ASSUME NEW batch \in {<<n>> : n \in Names} \cup {<<n, m>> : n, m \in Names}, NEW pair \in bounds,
               RegisterVars(batch, "Real", 0, pair[1], pair[2]), UNCHANGED rewriting
        PROVE  Kept
    <2>1. PICK lb, ub : lb = pair[1] /\ ub = pair[2]
      OBVIOUS
    <2>2. lb \in BoundOver(Len(values)) /\ ub \in BoundOver(Len(values))
      BY <2>1 DEF Inputs
    <2>3. batch \in Seq(Names)
      <3>1. CASE \E n \in Names : batch = <<n>>
        <4>1. PICK n \in Names : batch = <<n>>
          BY <3>1
        <4> QED BY <4>1
      <3>2. CASE \E n, m \in Names : batch = <<n, m>>
        <4>1. PICK n \in Names, m \in Names : batch = <<n, m>>
          BY <3>2
        <4> QED BY <4>1
      <3> QED BY <3>1, <3>2
    <2>4. IsList(batch)
      BY <2>3 DEF IsList
    <2>5. RegisterVars(batch, "Real", 0, lb, ub)
      BY <1>4, <2>1
    <2> QED BY <1>4, <2>2, <2>4, <2>5, RegisterVarsStep
  <1>5. CASE RegisterParam(0) /\ UNCHANGED rewriting
    <2>1. PICK n \in Int : n = 0
      OBVIOUS
    <2>2. RegisterParam(n)
      BY <1>5, <2>1
    <2> QED BY <1>5, <2>2, RegisterParamStep
  <1>6. CASE RegisterParamsBatch(<<1, 0>>) /\ UNCHANGED rewriting
    <2>1. PICK batch : batch = <<1, 0>>
      OBVIOUS
    <2>2. batch \in Seq(Int) /\ RegisterParamsBatch(batch)
      BY <1>6, <2>1
    <2> QED BY <1>6, <2>2, RegisterParamsBatchStep
  <1>7. ASSUME NEW a \in assignments, SetParams(a), UNCHANGED rewriting PROVE Kept
    BY <1>7, SetParamsStep DEF Inputs
  <1>8. ASSUME NEW r \in DOMAIN rows, SetRowActive(r, ~ rows[r].active), UNCHANGED rewriting PROVE Kept
    <2>1. PICK active : active = ~ rows[r].active
      OBVIOUS
    <2>2. SetRowActive(r, active)
      BY <1>8, <2>1
    <2> QED BY <1>8, <2>2, SetRowActiveStep
  <1>9. ASSUME NEW d \in {"Linear", "Quadratic", "Nonlinear"}, SetObjective(d), UNCHANGED rewriting PROVE Kept
    BY <1>9, SetObjectiveStep
  <1>10. ASSUME NEW asked \in SUBSET DOMAIN sos, NEW m \in Fallbacks, ReformulateSos(asked, m) PROVE Kept
    BY <1>10, ReformulateSosStep
  <1>11. ASSUME NEW asked \in SUBSET DOMAIN indicators, NEW m \in Fallbacks,
                ReformulateIndicators(asked, m)
         PROVE  Kept
    BY <1>11, ReformulateIndicatorsStep
  <1>12. ASSUME NEW s \in DOMAIN sos, SetSosActive(s, ~ sos[s].active) PROVE Kept
    <2>1. PICK active : active = ~ sos[s].active
      OBVIOUS
    <2>2. SetSosActive(s, active)
      BY <1>12, <2>1
    <2> QED BY <2>2, SetSosActiveStep
  <1>13. ASSUME NEW s \in DOMAIN sos, NEW t \in {"Sos1", "Sos2"}, SetSosSet(s, t, sos[s].members)
         PROVE  Kept
    BY <1>13, SetSosSetStep
  <1>14. ASSUME NEW k \in DOMAIN indicators, NEW on \in {0, 1}, NEW n \in Numbers,
                SetIndicatorSet(k, on, n, Huge)
         PROVE  Kept
    <2>1. PICK upper : upper = Huge
      OBVIOUS
    <2>2. SetIndicatorSet(k, on, n, upper)
      BY <1>14, <2>1
    <2> QED BY <2>2, SetIndicatorSetStep
  <1> QED BY <1>1, <1>2, <1>3, <1>4, <1>5, <1>6, <1>7, <1>8, <1>9, <1>10, <1>11, <1>12, <1>13, <1>14
          DEF Next

SpecInv == StepInv /\ 2 <= Len(values)

LEMMA DeclaredVariable ==
    ASSUME NEW n \in Nat, NEW name, NEW domain, NEW threshold, NEW lb \in BoundOver(n), NEW ub \in BoundOver(n)
    PROVE  /\ IsVariable(Declared(name, domain, threshold, lb, ub), n)
           /\ Declared(name, domain, threshold, lb, ub).lb = lb
           /\ Declared(name, domain, threshold, lb, ub).ub = ub
           /\ Declared(name, domain, threshold, lb, ub).domain = domain
  BY DEF Declared, IsVariable

LEMMA SmallBounds ==
    ASSUME NEW n \in Nat, 2 <= n
    PROVE  /\ \A k \in Int : /\ Fixed(k) \in BoundOver(n) /\ Fixed(k).parameter = 0
                             /\ Fixed(k).value = k
           /\ \A p \in {1, 2} : /\ ByParameter(p) \in BoundOver(n) /\ ByParameter(p).parameter = p
  BY DEF Fixed, ByParameter, BoundOver

LEMMA CallersInputs == ASSUME SpecInv PROVE Inputs(Bounds, Assignments)
  <1>1. PICK n : n = Len(values)
    OBVIOUS
  <1>2. n \in Nat /\ 2 <= n
    BY <1>1 DEF SpecInv, StepInv, EditInv, Shape
  <1>3. /\ \A k \in Int : Fixed(k) \in BoundOver(n)
        /\ \A p \in {1, 2} : ByParameter(p) \in BoundOver(n)
    BY <1>2, SmallBounds
  <1>4. Huge \in Int /\ -1 \in Int /\ 0 \in Int /\ 1 \in Int
    BY HugeAssumption
  <1>5. \A pair \in Bounds : pair[1] \in BoundOver(n) /\ pair[2] \in BoundOver(n)
    <2>1. PICK a, b, c, d, e, f : /\ a = Fixed(-1) /\ b = Fixed(1) /\ c = Fixed(0) /\ d = Fixed(Huge)
                                  /\ e = ByParameter(1) /\ f = ByParameter(2)
      OBVIOUS
    <2>2. /\ a \in BoundOver(n) /\ b \in BoundOver(n) /\ c \in BoundOver(n) /\ d \in BoundOver(n)
          /\ e \in BoundOver(n) /\ f \in BoundOver(n)
      BY <1>3, <1>4, <2>1
    <2>3. Bounds = {<<a, b>>, <<b, c>>, <<c, e>>, <<f, e>>, <<c, d>>, <<c, c>>}
      BY <2>1 DEF Bounds
    <2> QED BY <2>2, <2>3
  <1>6. \A a \in Assignments : DOMAIN a \subseteq 1..n /\ \A p \in DOMAIN a : a[p] \in Int
    <2>1. 1 \in 1..n /\ 2 \in 1..n
      BY <1>2
    <2> QED BY <2>1 DEF Assignments
  <1> QED BY <1>1, <1>5, <1>6 DEF Inputs

LEMMA InitEstablishes == Init => SpecInv
  <1> SUFFICES ASSUME Init PROVE SpecInv
    OBVIOUS
  <1>1. PICK a, b, c, p, q, n : /\ a = Fixed(0) /\ b = Fixed(1) /\ c = Fixed(2)
                                /\ p = ByParameter(1) /\ q = ByParameter(2) /\ n = 2
    OBVIOUS
  <1>2. PICK lower \in {Fixed(-Huge), Fixed(-1)}, second \in {"Real", "SemiContinuous"} :
           vars = <<Declared("x1", "Real", 0, lower, p), Declared("x2", second, 2, a, c),
                    Declared("x3", "Integer", 0, q, c), Declared("b", "Binary", 0, a, b)>>
    BY <1>1 DEF Init
  <1>3. PICK low \in {-Huge, -1} : lower = Fixed(low)
    OBVIOUS
  <1>4. Huge \in Nat \ {0} /\ low \in Int /\ low <= 1 /\ low # Huge /\ 0 # Huge /\ 1 # -Huge /\ 2 # -Huge /\ -1 # Huge
    BY HugeAssumption
  <1>5. /\ n \in Nat /\ 2 <= n
        /\ \A k \in Int : /\ Fixed(k) \in BoundOver(n) /\ Fixed(k).parameter = 0
                          /\ Fixed(k).value = k
        /\ \A k \in {1, 2} : ByParameter(k) \in BoundOver(n) /\ ByParameter(k).parameter = k
    <2>1. n \in Nat /\ 2 <= n
      BY <1>1
    <2> QED BY <2>1, SmallBounds
  <1>6. /\ a \in BoundOver(n) /\ a.parameter = 0 /\ a.value = 0
        /\ b \in BoundOver(n) /\ b.parameter = 0 /\ b.value = 1
        /\ c \in BoundOver(n) /\ c.parameter = 0 /\ c.value = 2
        /\ lower \in BoundOver(n) /\ lower.parameter = 0 /\ lower.value = low
        /\ p \in BoundOver(n) /\ p.parameter = 1 /\ q \in BoundOver(n) /\ q.parameter = 2
    BY <1>1, <1>3, <1>4, <1>5
  <1>7. PICK x1, x2, x3, x4 : /\ x1 = Declared("x1", "Real", 0, lower, p) /\ x2 = Declared("x2", second, 2, a, c)
                              /\ x3 = Declared("x3", "Integer", 0, q, c) /\ x4 = Declared("b", "Binary", 0, a, b)
    OBVIOUS
  <1>8. /\ IsVariable(x1, n) /\ x1.lb = lower /\ x1.ub = p /\ x1.domain = "Real"
        /\ IsVariable(x2, n) /\ x2.lb = a /\ x2.ub = c /\ x2.domain = second
        /\ IsVariable(x3, n) /\ x3.lb = q /\ x3.ub = c /\ x3.domain = "Integer"
        /\ IsVariable(x4, n) /\ x4.lb = a /\ x4.ub = b /\ x4.domain = "Binary"
    BY <1>5, <1>6, <1>7, DeclaredVariable
  <1>9. vars = <<x1, x2, x3, x4>>
    BY <1>2, <1>7
  <1>10. /\ Len(vars) = 4 /\ DOMAIN vars = 1..4 /\ IsList(vars)
         /\ vars[1] = x1 /\ vars[2] = x2 /\ vars[3] = x3 /\ vars[4] = x4
    <2>1. IsList(vars) /\ Len(vars) = 4
      BY <1>9, ShortLists
    <2>2. vars[1] = x1 /\ vars[2] = x2 /\ vars[3] = x3 /\ vars[4] = x4
      BY <1>9
    <2> QED BY <2>1, <2>2, ListFacts
  <1>11. /\ values = <<1, -1>> /\ dependents = <<{1}, {3}>> /\ locked = {} /\ cached = {} /\ parameterRevision = 0
         /\ checks = [v \in {1, 3} |-> [lower |-> vars[v].lb, upper |-> vars[v].ub]]
    BY DEF Init
  <1>12. /\ values \in Seq(Int) /\ Len(values) = n /\ DOMAIN values = 1..2 /\ values[1] = 1 /\ values[2] = -1
         /\ Len(dependents) = n /\ IsList(dependents) /\ dependents[1] = {1} /\ dependents[2] = {3}
    <2>1. PICK one, three : one = {1} /\ three = {3}
      OBVIOUS
    <2>2. dependents = <<one, three>>
      BY <1>11, <2>1
    <2>3. IsList(dependents) /\ Len(dependents) = 2
      BY <2>2, ShortLists
    <2>4. values \in Seq(Int) /\ Len(values) = 2 /\ DOMAIN values = 1..2 /\ values[1] = 1 /\ values[2] = -1
      BY <1>11
    <2>5. dependents[1] = one /\ dependents[2] = three
      BY <2>2
    <2> QED BY <1>1, <2>1, <2>3, <2>4, <2>5
  <1>13. \A v \in 1..4 : v = 1 \/ v = 2 \/ v = 3 \/ v = 4
    OBVIOUS
  <1>14. Shape
    <2>1. \A v \in 1..4 : IsVariable(vars[v], n)
      BY <1>8, <1>10, <1>13
    <2> QED BY <1>10, <1>12, <2>1 DEF Shape
  <1>15. /\ ParametersOf({x1.lb, x1.ub}) = {1} /\ ParametersOf({x2.lb, x2.ub}) = {}
         /\ ParametersOf({x3.lb, x3.ub}) = {2} /\ ParametersOf({x4.lb, x4.ub}) = {}
    BY <1>6, <1>8 DEF ParametersOf
  <1>16. BoundIndexExact
    <2>1. DOMAIN checks = {v \in 1..4 : ParametersOf({vars[v].lb, vars[v].ub}) # {}}
      <3>1. DOMAIN checks = {1, 3}
        BY <1>11
      <3> QED BY <1>10, <1>13, <1>15, <3>1
    <2>2. \A v \in DOMAIN checks : checks[v] = [lower |-> vars[v].lb, upper |-> vars[v].ub]
      BY <1>11
    <2>3. ASSUME NEW k \in DOMAIN values
          PROVE  dependents[k] = {v \in 1..4 : k \in ParametersOf({vars[v].lb, vars[v].ub})}
      <3>1. \A v \in 1..4 : /\ 1 \in ParametersOf({vars[v].lb, vars[v].ub}) <=> v = 1
                            /\ 2 \in ParametersOf({vars[v].lb, vars[v].ub}) <=> v = 3
        BY <1>10, <1>13, <1>15
      <3>2. CASE k = 1
        <4>1. \A v : v \in dependents[1] <=> v \in 1..4 /\ 1 \in ParametersOf({vars[v].lb, vars[v].ub})
          <5>1. dependents[1] = {1} /\ 1 \in 1..4
            BY <1>12
          <5> QED BY <3>1, <5>1
        <4>2. dependents[1] = {v \in 1..4 : 1 \in ParametersOf({vars[v].lb, vars[v].ub})}
          BY <4>1
        <4> QED BY <3>2, <4>2
      <3>3. CASE k = 2
        <4>1. \A v : v \in dependents[2] <=> v \in 1..4 /\ 2 \in ParametersOf({vars[v].lb, vars[v].ub})
          <5>1. dependents[2] = {3} /\ 3 \in 1..4
            BY <1>12
          <5> QED BY <3>1, <5>1
        <4>2. dependents[2] = {v \in 1..4 : 2 \in ParametersOf({vars[v].lb, vars[v].ub})}
          BY <4>1
        <4> QED BY <3>3, <4>2
      <3>4. k = 1 \/ k = 2
        <4>1. DOMAIN values = 1..2
          BY <1>12
        <4> QED BY <4>1
      <3> QED BY <3>2, <3>3, <3>4
    <2> QED BY <1>10, <2>1, <2>2, <2>3 DEF BoundIndexExact
  <1>17. \A v \in 1..4 : Feasible(vars[v], values)
    <2>1. /\ Resolve(lower, values) = low /\ Resolve(p, values) = 1 /\ Resolve(q, values) = -1
          /\ Resolve(a, values) = 0 /\ Resolve(b, values) = 1 /\ Resolve(c, values) = 2
      BY <1>6, <1>12 DEF Resolve
    <2>2. ValidBounds(low, 1) /\ ValidBounds(0, 2) /\ ValidBounds(-1, 2) /\ ValidBounds(0, 1)
      BY <1>4 DEF ValidBounds
    <2>3. Feasible(x1, values) /\ Feasible(x2, values) /\ Feasible(x3, values)
      BY <1>8, <2>1, <2>2 DEF Feasible
    <2>4. Feasible(x4, values)
      BY <1>8, <1>15, <2>1, <2>2 DEF Feasible
    <2> QED BY <1>10, <1>13, <2>3, <2>4
  <1>18. EditInv
    BY <1>10, <1>14, <1>16, <1>17 DEF EditInv
  <1>19. SourcesShape /\ Frozen = {}
    <2>1. PICK type \in {"Sos1", "Sos2"} :
            sos = <<[type |-> type, active |-> TRUE, rewritten |-> FALSE,
                     members |-> <<[variable |-> 1, weight |-> 1], [variable |-> 2, weight |-> 3],
                                   [variable |-> 3, weight |-> 2]>>]>>
      BY DEF Init
    <2>2. PICK members : members = <<[variable |-> 1, weight |-> 1], [variable |-> 2, weight |-> 3],
                                     [variable |-> 3, weight |-> 2]>>
      OBVIOUS
    <2>3. PICK x : x = [type |-> type, active |-> TRUE, rewritten |-> FALSE, members |-> members]
      OBVIOUS
    <2>4. sos = <<x>>
      BY <2>1, <2>2, <2>3
    <2>5. IsList(members) /\ \A i \in DOMAIN members : members[i].variable \in 1..4
      <3>1. PICK e, f, g : /\ e = [variable |-> 1, weight |-> 1] /\ f = [variable |-> 2, weight |-> 3]
                           /\ g = [variable |-> 3, weight |-> 2]
        OBVIOUS
      <3>2. members = <<e, f, g>> /\ e.variable = 1 /\ f.variable = 2 /\ g.variable = 3
        BY <2>2, <3>1
      <3>3. IsList(members)
        BY <3>2, ShortLists
      <3>4. \A i \in DOMAIN members : members[i] \in {e, f, g}
        BY <3>2
      <3>5. \A w \in {e, f, g} : w.variable \in 1..4
        BY <3>2
      <3> QED BY <3>3, <3>4, <3>5
    <2>6. IsList(sos) /\ Len(sos) = 1 /\ DOMAIN sos = {1} /\ sos[1] = x
      <3>1. sos \in Seq({x}) /\ Len(sos) = 1
        BY <2>4
      <3>2. DOMAIN sos = 1..1 /\ sos[1] = x
        BY <2>4, <3>1
      <3> QED BY <3>1, <3>2 DEF IsList
    <2>7. /\ x = [type |-> x.type, members |-> x.members, active |-> x.active, rewritten |-> x.rewritten]
          /\ x.members = members /\ x.rewritten = FALSE
      BY <2>3
    <2>8. MembersOf(1) \subseteq 1..4
      BY <2>5, <2>6, <2>7 DEF MembersOf
    <2>9. PICK body : indicators = <<[trigger |-> 4, on |-> 1, lower |-> -Huge, upper |-> 1,
                                      coefficients |-> [v \in {1, 2, 4} |-> IF v = 4 THEN body[3] ELSE body[v]],
                                      active |-> TRUE, rewritten |-> FALSE]>>
      BY DEF Init
    <2>10. PICK terms, y : /\ terms = [v \in {1, 2, 4} |-> IF v = 4 THEN body[3] ELSE body[v]]
                           /\ y = [trigger |-> 4, on |-> 1, lower |-> -Huge, upper |-> 1,
                                   coefficients |-> terms, active |-> TRUE, rewritten |-> FALSE]
      OBVIOUS
    <2>11. indicators = <<y>> /\ DOMAIN indicators = {1} /\ indicators[1] = y
      BY <2>9, <2>10
    <2>12. /\ y = [trigger |-> y.trigger, on |-> y.on, coefficients |-> y.coefficients,
                   lower |-> y.lower, upper |-> y.upper, active |-> y.active, rewritten |-> y.rewritten]
           /\ y.coefficients = terms /\ DOMAIN terms = {1, 2, 4} /\ y.rewritten = FALSE
      BY <2>10
    <2>13. BodyOf(1) \subseteq 1..4
      BY <2>11, <2>12 DEF BodyOf
    <2>14. \A s \in 1..1 : s = 1
      OBVIOUS
    <2>15. SourcesShape
      BY <1>10, <2>5, <2>6, <2>7, <2>8, <2>11, <2>12, <2>13, <2>14 DEF SourcesShape
    <2>16. \A v : v \notin Frozen
      BY <2>6, <2>7, <2>11, <2>12, FrozenIs
    <2> QED BY <2>15, <2>16
  <1>20. RowsShape
    <2>1. PICK x, y, z : /\ x = [degree |-> "Quadratic", bound |-> 1, scale |-> 1, active |-> TRUE]
                         /\ y = [degree |-> "Cone", bound |-> 1, scale |-> 1, active |-> FALSE]
                         /\ z = [degree |-> "Matrix", bound |-> 1, scale |-> 1, active |-> FALSE]
      OBVIOUS
    <2>2. rows = <<x, y, z>>
      BY <2>1 DEF Init
    <2>3. \A w \in {x, y, z} : /\ w = [degree |-> w.degree, bound |-> w.bound, scale |-> w.scale, active |-> w.active]
                               /\ w.bound = 1 /\ w.scale = 1
      BY <2>1
    <2>4. \A r \in DOMAIN rows : rows[r] \in {x, y, z}
      BY <2>2
    <2>5. 1 \in 1..Len(vars) /\ 1 \in 1..Len(values)
      BY <1>1, <1>10, <1>12
    <2> QED BY <2>3, <2>4, <2>5 DEF RowsShape
  <1>21. LocksInv /\ KindIsCurrent
    BY <1>11, <1>19 DEF LocksInv, KindIsCurrent
  <1> QED BY <1>1, <1>12, <1>18, <1>19, <1>20, <1>21 DEF SpecInv, StepInv

LEMMA StepKeeps ==
    ASSUME SpecInv, [Next(Bounds, Assignments)]_allVars
    PROVE  /\ SpecInv'
           /\ \A v \in Frozen : v \in Frozen' /\ RawEffectiveBounds(v)' = RawEffectiveBounds(v)
  <1>1. CASE Next(Bounds, Assignments)
    <2>1. Kept
      BY <1>1, CallersInputs, NextKeeps DEF SpecInv
    <2>2. Len(values) \in Nat /\ Len(values') \in Nat /\ Len(values) <= Len(values') /\ 2 <= Len(values)
      BY <2>1 DEF Kept, SpecInv, StepInv, EditInv, Shape
    <2>3. 2 <= Len(values')
      BY <2>2
    <2> QED BY <2>1, <2>3, KeptIsEnough DEF SpecInv
  <1>2. CASE UNCHANGED allVars
    <2>1. /\ vars' = vars /\ values' = values /\ checks' = checks /\ dependents' = dependents
          /\ locked' = locked /\ parameterRevision' = parameterRevision /\ cached' = cached /\ rows' = rows
          /\ objective' = objective /\ sos' = sos /\ indicators' = indicators
      BY <1>2 DEF allVars, editVars, arena, rewriting
    <2>2. EditInv'
      BY <2>1 DEF SpecInv, StepInv, EditInv, Shape, BoundIndexExact
    <2>3. InferKind(SosActive)' = InferKind(SosActive)
      BY <2>1, KindDependsOnRows DEF SpecInv, StepInv
    <2>4. KindIsCurrent'
      BY <2>1, <2>3 DEF SpecInv, StepInv, KindIsCurrent
    <2>5. Len(vars) \in Nat /\ Len(values) \in Nat
      BY ListFacts DEF SpecInv, StepInv, EditInv, Shape
    <2>6. Len(vars) <= Len(vars') /\ Len(values) <= Len(values') /\ 2 <= Len(values')
      BY <2>1, <2>5 DEF SpecInv
    <2>7. Kept
      BY <2>1, <2>2, <2>4, <2>6, PlainStep DEF SpecInv
    <2> QED BY <2>6, <2>7, KeptIsEnough DEF SpecInv
  <1> QED BY <1>1, <1>2

\* No sequence of bound edits, fixings, rewritings and parameter writes leaves a
\* variable with crossed or empty bounds, or a binary outside {0, 1}, or the
\* arena's index of bounds behind the variables.
THEOREM BoundsAreFeasible == Spec => []BoundsStayFeasible
  <1>1. Init => SpecInv
    BY InitEstablishes
  <1>2. SpecInv /\ [Next(Bounds, Assignments)]_allVars => SpecInv'
    BY StepKeeps
  <1>3. SpecInv => BoundsStayFeasible
    BY BoundsFollow DEF SpecInv, StepInv
  <1> QED BY <1>1, <1>2, <1>3, PTL DEF Spec

\* A class that is handed out is the class of the model as it stands: every edit,
\* rewriting and parameter write that changes the class forgets the remembered one.
THEOREM KindsAreCurrent == Spec => []KindIsCurrent
  <1>1. Init => SpecInv
    BY InitEstablishes
  <1>2. SpecInv /\ [Next(Bounds, Assignments)]_allVars => SpecInv'
    BY StepKeeps
  <1>3. SpecInv => KindIsCurrent
    BY DEF SpecInv, StepInv
  <1> QED BY <1>1, <1>2, <1>3, PTL DEF Spec

\* The bounds that generated rows embed never change again.
THEOREM EmbeddedBoundsStay ==
    Spec => [][\A v \in Frozen : v \in Frozen' /\ RawEffectiveBounds(v)' = RawEffectiveBounds(v)]_allVars
  <1>1. Init => SpecInv
    BY InitEstablishes
  <1>2. SpecInv /\ [Next(Bounds, Assignments)]_allVars => SpecInv'
    BY StepKeeps
  <1>3. SpecInv /\ [Next(Bounds, Assignments)]_allVars
          => [\A v \in Frozen : v \in Frozen' /\ RawEffectiveBounds(v)' = RawEffectiveBounds(v)]_allVars
    BY StepKeeps
  <1> QED BY <1>1, <1>2, <1>3, PTL DEF Spec

-----------------------------------------------------------------------------
(* The disjunctive part                                                    *)

\* What the records of the forest are.
BooleansFit ==
    /\ IsList(booleans)
    /\ \A b \in 1..Len(booleans) :
          /\ booleans[b] = [owner |-> booleans[b].owner, parent |-> booleans[b].parent,
                            sealed |-> booleans[b].sealed]
          /\ booleans[b].owner \in 0..Len(disjunctions)
          /\ booleans[b].parent \in 0..Len(booleans)
          /\ booleans[b].sealed \in BOOLEAN

DisjunctionsFit ==
    /\ IsList(disjunctions)
    /\ \A d \in 1..Len(disjunctions) :
          /\ disjunctions[d] = [branches |-> disjunctions[d].branches,
                                parent |-> disjunctions[d].parent,
                                kind |-> disjunctions[d].kind, done |-> disjunctions[d].done]
          /\ BranchSet(d) \subseteq 1..Len(booleans)
          /\ disjunctions[d].parent \in 0..Len(booleans)
          /\ disjunctions[d].done \in BOOLEAN

ConditionalFit ==
    /\ IsList(conditional)
    /\ \A r \in 1..Len(conditional) :
          /\ conditional[r] = [indicator |-> conditional[r].indicator, body |-> conditional[r].body,
                               lower |-> conditional[r].lower, upper |-> conditional[r].upper,
                               done |-> conditional[r].done]
          /\ conditional[r].indicator \in 1..Len(booleans)
          /\ conditional[r].done \in BOOLEAN

LogicFit ==
    /\ IsList(logic)
    /\ \A l \in 1..Len(logic) :
          /\ logic[l] = [expression |-> logic[l].expression, parent |-> logic[l].parent,
                         done |-> logic[l].done]
          /\ logic[l].parent \in 0..Len(booleans)
          /\ logic[l].done \in BOOLEAN

StartsFit ==
    /\ starts.rows \in 0..Len(conditional)
    /\ starts.disjunctions \in 0..Len(disjunctions)
    /\ starts.logic \in 0..Len(logic)

\* A Boolean names a disjunction as its owner exactly if the disjunction lists
\* it, and lies in the disjunct that the disjunction lies in.
OwnersMatch ==
    \A b \in 1..Len(booleans) :
        /\ booleans[b].owner = 0 => booleans[b].parent = 0
        /\ booleans[b].owner # 0 => booleans[b].parent = disjunctions[booleans[b].owner].parent
        /\ \A d \in 1..Len(disjunctions) : booleans[b].owner = d <=> b \in BranchSet(d)

\* Every disjunct lies deeper than the one around it.
Ranks(rank) ==
    \A b \in 1..Len(booleans) :
        booleans[b].parent # 0 => rank[booleans[b].parent] < rank[b]

NestingEnds == \E k \in Nat : \E rank \in [1..Len(booleans) -> 0..k] : Ranks(rank)

FInv == /\ BooleansFit /\ DisjunctionsFit /\ ConditionalFit /\ LogicFit /\ StartsFit
        /\ PendingMatchesRecords

InForest == FInv /\ OwnersMatch /\ NestingEnds

-----------------------------------------------------------------------------
LEMMA ForestLists ==
    ASSUME BooleansFit, DisjunctionsFit, ConditionalFit, LogicFit
    PROVE  /\ Len(booleans) \in Nat /\ DOMAIN booleans = 1..Len(booleans)
           /\ Len(disjunctions) \in Nat /\ DOMAIN disjunctions = 1..Len(disjunctions)
           /\ Len(conditional) \in Nat /\ DOMAIN conditional = 1..Len(conditional)
           /\ Len(logic) \in Nat /\ DOMAIN logic = 1..Len(logic)
  BY ListFacts DEF BooleansFit, DisjunctionsFit, ConditionalFit, LogicFit

LEMMA ForestInitially == ForestInit => InForest
  <1> SUFFICES ASSUME ForestInit PROVE InForest
    OBVIOUS
  <1>1. /\ IsList(booleans) /\ Len(booleans) = 0 /\ DOMAIN booleans = {}
        /\ IsList(disjunctions) /\ Len(disjunctions) = 0 /\ DOMAIN disjunctions = {}
        /\ IsList(conditional) /\ Len(conditional) = 0 /\ DOMAIN conditional = {}
        /\ IsList(logic) /\ Len(logic) = 0 /\ DOMAIN logic = {}
    <2>1. <<>> \in Seq({}) /\ Len(<<>>) = 0 /\ DOMAIN <<>> = {}
      OBVIOUS
    <2> QED BY <2>1 DEF ForestInit, IsList
  <1>2. 1..0 = {}
    OBVIOUS
  <1>3. FInv
    BY <1>1, <1>2 DEF ForestInit, FInv, BooleansFit, DisjunctionsFit, ConditionalFit, LogicFit, StartsFit,
          PendingMatchesRecords, RowsMatch, DisjunctionsMatch, LogicMatches
  <1>4. OwnersMatch
    BY <1>1, <1>2 DEF OwnersMatch
  <1>5. NestingEnds
    <2>1. PICK rank : rank = [b \in 1..Len(booleans) |-> 0]
      OBVIOUS
    <2>2. rank \in [1..Len(booleans) -> 0..0] /\ Ranks(rank)
      BY <2>1, <1>1, <1>2 DEF Ranks
    <2> QED BY <2>2 DEF NestingEnds
  <1> QED BY <1>3, <1>4, <1>5 DEF InForest

\* Where Booleans only become sealed, untouched records still match.
Grown == /\ Len(booleans') \in Nat /\ Len(booleans) <= Len(booleans')
         /\ \A b \in 1..Len(booleans) : booleans[b].sealed => booleans'[b].sealed

LEMMA RecordsStay ==
    ASSUME FInv, Grown, UNCHANGED <<conditional, starts>>
    PROVE  ConditionalFit' /\ RowsMatch'
  <1>1. /\ Len(booleans) \in Nat /\ DOMAIN conditional = 1..Len(conditional)
    BY ForestLists DEF FInv
  <1>2. ConditionalFit'
    BY <1>1 DEF FInv, Grown, ConditionalFit
  <1>3. RowsMatch'
    BY <1>1 DEF FInv, Grown, ConditionalFit, PendingMatchesRecords, RowsMatch, PendingRows, Open
  <1> QED BY <1>2, <1>3

LEMMA DisjunctionsStay ==
    ASSUME FInv, Grown, UNCHANGED <<disjunctions, starts>>
    PROVE  DisjunctionsFit' /\ DisjunctionsMatch'
  <1>1. /\ Len(booleans) \in Nat /\ DOMAIN disjunctions = 1..Len(disjunctions)
    BY ForestLists DEF FInv
  <1>2. \A d : BranchSet(d)' = BranchSet(d)
    BY DEF BranchSet
  <1>3. DisjunctionsFit'
    BY <1>1, <1>2 DEF FInv, Grown, DisjunctionsFit
  <1>4. ASSUME NEW d \in 1..Len(disjunctions)
        PROVE  /\ disjunctions[d].done <=> d \notin PendingDisjunctions'
               /\ disjunctions[d].done =>
                     \A b \in BranchSet(d) \cup ({disjunctions[d].parent} \ {0}) : ~Open(b)'
    <2>1. disjunctions[d].done <=> d \notin PendingDisjunctions'
      BY <1>1 DEF FInv, PendingMatchesRecords, DisjunctionsMatch, PendingDisjunctions
    <2>2. ASSUME disjunctions[d].done, NEW b \in BranchSet(d) \cup ({disjunctions[d].parent} \ {0})
          PROVE  ~Open(b)'
      <3>1. b \in 1..Len(booleans)
        BY <1>1 DEF FInv, DisjunctionsFit
      <3>2. ~Open(b)
        BY <1>1, <2>2 DEF FInv, PendingMatchesRecords, DisjunctionsMatch
      <3> QED BY <3>1, <3>2 DEF Open, Grown
    <2> QED BY <2>1, <2>2
  <1>5. DisjunctionsMatch'
    BY <1>1, <1>2, <1>4 DEF DisjunctionsMatch
  <1> QED BY <1>3, <1>5

LEMMA LogicStays ==
    ASSUME FInv, Grown, UNCHANGED <<logic, starts>>
    PROVE  LogicFit' /\ LogicMatches'
  <1>1. /\ Len(booleans) \in Nat /\ DOMAIN logic = 1..Len(logic)
    BY ForestLists DEF FInv
  <1>2. LogicFit'
    BY <1>1 DEF FInv, Grown, LogicFit
  <1>3. LogicMatches'
    BY <1>1 DEF FInv, Grown, LogicFit, PendingMatchesRecords, LogicMatches, PendingLogic, Open
  <1> QED BY <1>2, <1>3

\* A Boolean made in an open disjunct.
LEMMA AddBooleanKeeps ==
    ASSUME FInv, NEW context, AddBoolean(context)
    PROVE  FInv'
  <1>1. /\ IsList(booleans') /\ Len(booleans') = Len(booleans) + 1
        /\ booleans'[Len(booleans) + 1] = [owner |-> 0, parent |-> 0, sealed |-> FALSE]
        /\ \A b \in 1..Len(booleans) : booleans'[b] = booleans[b]
    BY AppendedList DEF FInv, BooleansFit, AddBoolean
  <1>2. /\ Len(booleans) \in Nat /\ Len(disjunctions) \in Nat
        /\ DOMAIN disjunctions = 1..Len(disjunctions) /\ DOMAIN conditional = 1..Len(conditional)
        /\ DOMAIN logic = 1..Len(logic)
    BY ForestLists DEF FInv
  <1>3. UNCHANGED <<disjunctions, conditional, logic, starts>>
    BY DEF AddBoolean
  <1>4. BooleansFit'
    <2>1. IsList(booleans)'
      BY <1>1
    <2>2. ASSUME NEW b \in 1..(Len(booleans) + 1)
          PROVE  /\ booleans'[b] = [owner |-> booleans'[b].owner, parent |-> booleans'[b].parent,
                                    sealed |-> booleans'[b].sealed]
                 /\ booleans'[b].owner \in 0..Len(disjunctions)
                 /\ booleans'[b].parent \in 0..(Len(booleans) + 1)
                 /\ booleans'[b].sealed \in BOOLEAN
      <3>1. CASE b = Len(booleans) + 1
        BY <3>1, <1>1, <1>2
      <3>2. CASE b # Len(booleans) + 1
        <4>1. b \in 1..Len(booleans)
          BY <3>2, <1>2
        <4>2. booleans'[b] = booleans[b]
          BY <4>1, <1>1
        <4> QED BY <4>1, <4>2, <1>2 DEF FInv, BooleansFit
      <3> QED BY <3>1, <3>2
    <2> QED BY <2>1, <2>2, <1>1, <1>3 DEF BooleansFit
  <1>5. Grown
    BY <1>1, <1>2 DEF Grown
  <1>6. StartsFit'
    BY <1>3 DEF FInv, StartsFit
  <1> QED BY <1>3, <1>4, <1>5, <1>6, RecordsStay, DisjunctionsStay, LogicStays DEF FInv, PendingMatchesRecords

LEMMA RegisterDisjunctionKeeps ==
    ASSUME FInv, NEW branches \in Seq(DOMAIN booleans), NEW kind \in Kinds, NEW parent \in Contexts,
           RegisterDisjunction(branches, kind, parent)
    PROVE  FInv'
  <1>1. /\ Len(booleans) \in Nat /\ DOMAIN booleans = 1..Len(booleans)
        /\ Len(disjunctions) \in Nat /\ DOMAIN disjunctions = 1..Len(disjunctions)
    BY ForestLists DEF FInv
  <1>2. PICK new : new = [branches |-> branches, parent |-> parent, kind |-> kind, done |-> FALSE]
    OBVIOUS
  <1>3. /\ IsList(disjunctions') /\ Len(disjunctions') = Len(disjunctions) + 1
        /\ disjunctions'[Len(disjunctions) + 1] = new
        /\ \A d \in 1..Len(disjunctions) : disjunctions'[d] = disjunctions[d]
    <2>1. disjunctions' = Append(disjunctions, new)
      BY <1>2 DEF RegisterDisjunction
    <2>2. IsList(disjunctions)
      BY DEF FInv, DisjunctionsFit
    <2> QED BY ONLY <2>1, <2>2, AppendedList
  <1>4. booleans' = [b \in DOMAIN booleans |->
               IF \E i \in DOMAIN branches : branches[i] = b
               THEN [booleans[b] EXCEPT !.owner = Len(disjunctions) + 1, !.parent = parent]
               ELSE booleans[b]]
    BY DEF RegisterDisjunction
  <1>5. IsList(booleans') /\ Len(booleans') = Len(booleans) /\ DOMAIN booleans' = 1..Len(booleans)
    BY <1>1, <1>4, ListOf
  <1>6. parent \in 0..Len(booleans)
    BY <1>1 DEF Contexts
  <1>7. ASSUME NEW b \in 1..Len(booleans)
        PROVE  /\ booleans'[b] = [owner |-> booleans'[b].owner, parent |-> booleans'[b].parent,
                                  sealed |-> booleans'[b].sealed]
               /\ booleans'[b].owner \in 0..(Len(disjunctions) + 1)
               /\ booleans'[b].parent \in 0..Len(booleans)
               /\ booleans'[b].sealed = booleans[b].sealed
    <2>1. /\ booleans[b] = [owner |-> booleans[b].owner, parent |-> booleans[b].parent,
                            sealed |-> booleans[b].sealed]
          /\ booleans[b].owner \in 0..Len(disjunctions)
          /\ booleans[b].parent \in 0..Len(booleans)
      BY DEF FInv, BooleansFit
    <2>2. CASE \E i \in DOMAIN branches : branches[i] = b
      <3>1. booleans'[b] = [booleans[b] EXCEPT !.owner = Len(disjunctions) + 1, !.parent = parent]
        BY <1>1, <1>4, <2>2
      <3>2. booleans'[b] = [owner |-> Len(disjunctions) + 1, parent |-> parent,
                            sealed |-> booleans[b].sealed]
        BY <3>1, <2>1
      <3> QED BY <3>2, <1>1, <1>6
    <2>3. CASE ~\E i \in DOMAIN branches : branches[i] = b
      <3>1. booleans'[b] = booleans[b]
        BY <1>1, <1>4, <2>3
      <3> QED BY <3>1, <2>1, <1>1
    <2> QED BY <2>2, <2>3
  <1>8. BooleansFit'
    BY <1>3, <1>5, <1>7 DEF FInv, BooleansFit
  <1>9. Grown
    BY <1>1, <1>5, <1>7 DEF Grown
  <1>10. UNCHANGED <<conditional, logic, starts>>
    BY DEF RegisterDisjunction
  <1>11. StartsFit'
    BY <1>1, <1>3, <1>10 DEF FInv, StartsFit
  <1>120. PICK n : n = Len(disjunctions) + 1
    OBVIOUS
  <1>12. /\ \A d \in 1..Len(disjunctions) : BranchSet(d)' = BranchSet(d)
         /\ BranchSet(n)' \subseteq 1..Len(booleans)
    <2>1. \A d \in 1..Len(disjunctions) : BranchSet(d)' = BranchSet(d)
      BY <1>3 DEF BranchSet
    <2>2. BranchSet(n)' = {new.branches[i] : i \in DOMAIN new.branches}
      BY <1>120, <1>3 DEF BranchSet
    <2>3. new.branches = branches /\ \A i \in DOMAIN branches : branches[i] \in 1..Len(booleans)
      BY <1>1, <1>2
    <2> QED BY <2>1, <2>2, <2>3
  <1>13. DisjunctionsFit'
    <2>1. ASSUME NEW d \in 1..(Len(disjunctions) + 1)
          PROVE  /\ disjunctions'[d] = [branches |-> disjunctions'[d].branches,
                                parent |-> disjunctions'[d].parent,
                                kind |-> disjunctions'[d].kind, done |-> disjunctions'[d].done]
                 /\ BranchSet(d)' \subseteq 1..Len(booleans)
                 /\ disjunctions'[d].parent \in 0..Len(booleans)
                 /\ disjunctions'[d].done \in BOOLEAN
      <3>1. CASE d = Len(disjunctions) + 1
        <4>1. disjunctions'[d] = new
          BY <3>1, <1>3
        <4>2. /\ new = [branches |-> new.branches, parent |-> new.parent, kind |-> new.kind,
                        done |-> new.done]
              /\ new.parent = parent /\ new.done = FALSE
          BY <1>2
        <4>3. BranchSet(d)' \subseteq 1..Len(booleans)
          BY <3>1, <1>120, <1>12
        <4> QED BY ONLY <4>1, <4>2, <4>3, <1>6
      <3>2. CASE d # Len(disjunctions) + 1
        <4>1. d \in 1..Len(disjunctions)
          BY <3>2, <1>1
        <4> QED BY <4>1, <1>3, <1>12 DEF FInv, DisjunctionsFit
      <3> QED BY <3>1, <3>2
    <2> QED BY <2>1, <1>3, <1>5 DEF DisjunctionsFit
  <1>14. DisjunctionsMatch'
    <2>1. DOMAIN disjunctions' = 1..(Len(disjunctions) + 1)
      BY <1>3, ListFacts
    <2>2. ASSUME NEW d \in 1..(Len(disjunctions) + 1)
          PROVE  /\ disjunctions'[d].done <=> d \notin PendingDisjunctions'
                 /\ disjunctions'[d].done =>
                      \A b \in BranchSet(d)' \cup ({disjunctions'[d].parent} \ {0}) : ~Open(b)'
      <3>1. CASE d = Len(disjunctions) + 1
        <4>1. d \in PendingDisjunctions'
          BY <3>1, <1>1, <1>3, <1>10 DEF PendingDisjunctions, FInv, StartsFit
        <4> QED BY <4>1, <3>1, <1>2, <1>3
      <3>2. CASE d # Len(disjunctions) + 1
        <4>1. d \in 1..Len(disjunctions)
          BY <3>2, <1>1
        <4>2. /\ disjunctions[d].done <=> d \notin PendingDisjunctions
              /\ disjunctions[d].done =>
                      \A b \in BranchSet(d) \cup ({disjunctions[d].parent} \ {0}) : ~Open(b)
          BY <4>1, <1>1 DEF FInv, PendingMatchesRecords, DisjunctionsMatch
        <4>3. d \notin PendingDisjunctions' <=> d \notin PendingDisjunctions
          BY <4>1, <1>1, <1>3, <1>10 DEF PendingDisjunctions, FInv, StartsFit
        <4>4. ASSUME NEW b \in BranchSet(d) \cup ({disjunctions[d].parent} \ {0}), ~Open(b)
              PROVE  ~Open(b)'
          <5>1. b \in 1..Len(booleans)
            BY <4>1, <1>1 DEF FInv, DisjunctionsFit
          <5> QED BY <5>1, <4>4, <1>7 DEF Open
        <4>5. disjunctions'[d] = disjunctions[d] /\ BranchSet(d)' = BranchSet(d)
          BY <4>1, <1>3, <1>12
        <4> QED BY <4>2, <4>3, <4>4, <4>5
      <3> QED BY <3>1, <3>2
    <2> QED BY <2>1, <2>2 DEF DisjunctionsMatch
  <1> QED BY <1>8, <1>9, <1>10, <1>11, <1>13, <1>14, RecordsStay, LogicStays DEF FInv, PendingMatchesRecords

LEMMA RegisterRowKeeps ==
    ASSUME FInv, NEW indicator \in DOMAIN booleans, NEW body, NEW lower, NEW upper,
           RegisterRow(indicator, body, lower, upper)
    PROVE  FInv'
  <1>1. /\ Len(booleans) \in Nat /\ DOMAIN booleans = 1..Len(booleans)
        /\ Len(conditional) \in Nat /\ DOMAIN conditional = 1..Len(conditional)
    BY ForestLists DEF FInv
  <1>2. PICK new : new = [indicator |-> indicator, body |-> body, lower |-> lower, upper |-> upper,
                          done |-> FALSE]
    OBVIOUS
  <1>3. /\ IsList(conditional') /\ Len(conditional') = Len(conditional) + 1
        /\ conditional'[Len(conditional) + 1] = new
        /\ \A r \in 1..Len(conditional) : conditional'[r] = conditional[r]
    BY <1>2, AppendedList DEF FInv, ConditionalFit, RegisterRow
  <1>4. UNCHANGED <<booleans, disjunctions, logic, starts>>
    BY DEF RegisterRow
  <1>5. Grown /\ BooleansFit'
    BY <1>1, <1>4 DEF Grown, FInv, BooleansFit
  <1>6. StartsFit'
    BY <1>1, <1>3, <1>4 DEF FInv, StartsFit
  <1>7. DOMAIN conditional' = 1..(Len(conditional) + 1)
    BY <1>3, ListFacts
  <1>8. ASSUME NEW r \in 1..(Len(conditional) + 1)
        PROVE  /\ conditional'[r] = [indicator |-> conditional'[r].indicator,
                      body |-> conditional'[r].body, lower |-> conditional'[r].lower,
                      upper |-> conditional'[r].upper, done |-> conditional'[r].done]
               /\ conditional'[r].indicator \in 1..Len(booleans)
               /\ conditional'[r].done \in BOOLEAN
               /\ conditional'[r].done <=> r \notin PendingRows'
               /\ conditional'[r].done => booleans'[conditional'[r].indicator].sealed
    <2>1. CASE r = Len(conditional) + 1
      <3>1. r \in PendingRows'
        BY <2>1, <1>1, <1>3, <1>4 DEF PendingRows, FInv, StartsFit
      <3> QED BY <3>1, <2>1, <1>1, <1>2, <1>3
    <2>2. CASE r # Len(conditional) + 1
      <3>1. r \in 1..Len(conditional)
        BY <2>2, <1>1
      <3>2. r \notin PendingRows' <=> r \notin PendingRows
        BY <3>1, <1>1, <1>3, <1>4 DEF PendingRows, FInv, StartsFit
      <3>3. conditional'[r] = conditional[r]
        BY <3>1, <1>3
      <3>4. /\ conditional[r].done <=> r \notin PendingRows
            /\ conditional[r].done => booleans[conditional[r].indicator].sealed
        BY <3>1, <1>1 DEF FInv, PendingMatchesRecords, RowsMatch, Open
      <3> QED BY <3>1, <3>2, <3>3, <3>4, <1>4 DEF FInv, ConditionalFit
    <2> QED BY <2>1, <2>2
  <1>9. ConditionalFit' /\ RowsMatch'
    BY <1>3, <1>4, <1>7, <1>8 DEF ConditionalFit, RowsMatch, Open
  <1> QED BY <1>4, <1>5, <1>6, <1>9, DisjunctionsStay, LogicStays DEF FInv, PendingMatchesRecords

LEMMA RegisterLogicKeeps ==
    ASSUME FInv, NEW parent \in Contexts, NEW expression, RegisterLogic(expression, parent)
    PROVE  FInv'
  <1>1. /\ Len(booleans) \in Nat /\ DOMAIN booleans = 1..Len(booleans)
        /\ Len(logic) \in Nat /\ DOMAIN logic = 1..Len(logic)
    BY ForestLists DEF FInv
  <1>2. PICK new : new = [expression |-> expression, parent |-> parent, done |-> FALSE]
    OBVIOUS
  <1>3. /\ IsList(logic') /\ Len(logic') = Len(logic) + 1
        /\ logic'[Len(logic) + 1] = new
        /\ \A l \in 1..Len(logic) : logic'[l] = logic[l]
    BY <1>2, AppendedList DEF FInv, LogicFit, RegisterLogic
  <1>4. UNCHANGED <<booleans, disjunctions, conditional, starts>>
    BY DEF RegisterLogic
  <1>5. Grown /\ BooleansFit'
    BY <1>1, <1>4 DEF Grown, FInv, BooleansFit
  <1>6. StartsFit'
    BY <1>1, <1>3, <1>4 DEF FInv, StartsFit
  <1>7. DOMAIN logic' = 1..(Len(logic) + 1)
    BY <1>3, ListFacts
  <1>8. ASSUME NEW l \in 1..(Len(logic) + 1)
        PROVE  /\ logic'[l] = [expression |-> logic'[l].expression, parent |-> logic'[l].parent,
                               done |-> logic'[l].done]
               /\ logic'[l].parent \in 0..Len(booleans)
               /\ logic'[l].done \in BOOLEAN
               /\ logic'[l].done <=> l \notin PendingLogic'
               /\ logic'[l].done /\ logic'[l].parent # 0 => booleans'[logic'[l].parent].sealed
    <2>1. CASE l = Len(logic) + 1
      <3>1. l \in PendingLogic'
        BY <2>1, <1>1, <1>3, <1>4 DEF PendingLogic, FInv, StartsFit
      <3>2. parent \in 0..Len(booleans)
        BY <1>1 DEF Contexts
      <3> QED BY <3>1, <3>2, <2>1, <1>1, <1>2, <1>3
    <2>2. CASE l # Len(logic) + 1
      <3>1. l \in 1..Len(logic)
        BY <2>2, <1>1
      <3>2. l \notin PendingLogic' <=> l \notin PendingLogic
        BY <3>1, <1>1, <1>3, <1>4 DEF PendingLogic, FInv, StartsFit
      <3>3. logic'[l] = logic[l]
        BY <3>1, <1>3
      <3>4. /\ logic[l].done <=> l \notin PendingLogic
            /\ logic[l].done /\ logic[l].parent # 0 => booleans[logic[l].parent].sealed
        BY <3>1, <1>1 DEF FInv, PendingMatchesRecords, LogicMatches, Open
      <3> QED BY <3>1, <3>2, <3>3, <3>4, <1>4 DEF FInv, LogicFit
    <2> QED BY <2>1, <2>2
  <1>9. LogicFit' /\ LogicMatches'
    BY <1>3, <1>4, <1>7, <1>8 DEF LogicFit, LogicMatches, Open
  <1> QED BY <1>4, <1>5, <1>6, <1>9, DisjunctionsStay, RecordsStay DEF FInv, PendingMatchesRecords

LEMMA FinishKeeps ==
    ASSUME FInv, Finish
    PROVE  FInv' /\ Grown
  <1>1. /\ Len(booleans) \in Nat /\ DOMAIN booleans = 1..Len(booleans)
        /\ Len(disjunctions) \in Nat /\ DOMAIN disjunctions = 1..Len(disjunctions)
        /\ Len(conditional) \in Nat /\ DOMAIN conditional = 1..Len(conditional)
        /\ Len(logic) \in Nat /\ DOMAIN logic = 1..Len(logic)
    BY ForestLists DEF FInv
  <1>2. /\ IsList(booleans') /\ Len(booleans') = Len(booleans) /\ DOMAIN booleans' = 1..Len(booleans)
        /\ \A b \in 1..Len(booleans) :
              booleans'[b] = IF b \in Touched THEN [booleans[b] EXCEPT !.sealed = TRUE] ELSE booleans[b]
    <2>1. booleans' = [b \in DOMAIN booleans |->
                         IF b \in Touched THEN [booleans[b] EXCEPT !.sealed = TRUE] ELSE booleans[b]]
      BY DEF Finish
    <2> QED BY <1>1, <2>1, ListOf
  <1>3. /\ IsList(disjunctions') /\ Len(disjunctions') = Len(disjunctions)
        /\ DOMAIN disjunctions' = 1..Len(disjunctions)
        /\ \A d \in 1..Len(disjunctions) : disjunctions'[d] = [disjunctions[d] EXCEPT !.done = TRUE]
    <2>1. disjunctions' = [d \in DOMAIN disjunctions |-> [disjunctions[d] EXCEPT !.done = TRUE]]
      BY DEF Finish
    <2> QED BY <1>1, <2>1, ListOf
  <1>4. /\ IsList(conditional') /\ Len(conditional') = Len(conditional)
        /\ DOMAIN conditional' = 1..Len(conditional)
        /\ \A r \in 1..Len(conditional) : conditional'[r] = [conditional[r] EXCEPT !.done = TRUE]
    <2>1. conditional' = [r \in DOMAIN conditional |-> [conditional[r] EXCEPT !.done = TRUE]]
      BY DEF Finish
    <2> QED BY <1>1, <2>1, ListOf
  <1>5. /\ IsList(logic') /\ Len(logic') = Len(logic) /\ DOMAIN logic' = 1..Len(logic)
        /\ \A l \in 1..Len(logic) : logic'[l] = [logic[l] EXCEPT !.done = TRUE]
    <2>1. logic' = [l \in DOMAIN logic |-> [logic[l] EXCEPT !.done = TRUE]]
      BY DEF Finish
    <2> QED BY <1>1, <2>1, ListOf
  <1>6. /\ starts'.rows = Len(conditional) /\ starts'.disjunctions = Len(disjunctions)
        /\ starts'.logic = Len(logic)
    BY DEF Finish, Lengths
  <1>7. ASSUME NEW b \in 1..Len(booleans)
        PROVE  /\ booleans'[b] = [owner |-> booleans[b].owner, parent |-> booleans[b].parent,
                                  sealed |-> booleans'[b].sealed]
               /\ booleans'[b].owner = booleans[b].owner /\ booleans'[b].parent = booleans[b].parent
               /\ booleans'[b].sealed \in BOOLEAN
               /\ booleans'[b].sealed <=> b \in Touched \/ booleans[b].sealed
    <2>1. /\ booleans[b] = [owner |-> booleans[b].owner, parent |-> booleans[b].parent,
                            sealed |-> booleans[b].sealed]
          /\ booleans[b].sealed \in BOOLEAN
      BY DEF FInv, BooleansFit
    <2>2. CASE b \in Touched
      <3>1. booleans'[b] = [booleans[b] EXCEPT !.sealed = TRUE]
        BY <1>2, <2>2
      <3>2. booleans'[b] = [owner |-> booleans[b].owner, parent |-> booleans[b].parent, sealed |-> TRUE]
        BY ONLY <3>1, <2>1
      <3> QED BY <3>2, <2>2
    <2>3. CASE b \notin Touched
      <3>1. booleans'[b] = booleans[b]
        BY <1>2, <2>3
      <3> QED BY ONLY <3>1, <2>1, <2>3
    <2> QED BY <2>2, <2>3
  <1>8. Grown
    BY <1>1, <1>2, <1>7 DEF Grown
  <1>9. BooleansFit'
    <2>1. \A b \in 1..Len(booleans) :
             /\ booleans[b].owner \in 0..Len(disjunctions) /\ booleans[b].parent \in 0..Len(booleans)
      BY DEF FInv, BooleansFit
    <2> QED BY <2>1, <1>2, <1>3, <1>7 DEF BooleansFit
  <1>10. StartsFit'
    BY <1>1, <1>3, <1>4, <1>5, <1>6 DEF StartsFit
  <1>11. ASSUME NEW r \in 1..Len(conditional)
         PROVE  /\ conditional'[r] = [indicator |-> conditional'[r].indicator,
                      body |-> conditional'[r].body, lower |-> conditional'[r].lower,
                      upper |-> conditional'[r].upper, done |-> conditional'[r].done]
                /\ conditional'[r].indicator \in 1..Len(booleans)
                /\ conditional'[r].done = TRUE
                /\ booleans'[conditional'[r].indicator].sealed
    <2>1. /\ conditional[r] = [indicator |-> conditional[r].indicator, body |-> conditional[r].body,
                               lower |-> conditional[r].lower, upper |-> conditional[r].upper,
                               done |-> conditional[r].done]
          /\ conditional[r].indicator \in 1..Len(booleans)
      BY DEF FInv, ConditionalFit
    <2>2. conditional'[r] = [indicator |-> conditional[r].indicator, body |-> conditional[r].body,
                             lower |-> conditional[r].lower, upper |-> conditional[r].upper,
                             done |-> TRUE]
      BY <2>1, <1>4
    <2>3. CASE r \in PendingRows
      <3>1. conditional[r].indicator \in Touched
        BY <2>3 DEF Touched
      <3>2. booleans'[conditional[r].indicator].sealed
        BY <3>1, <2>1, <1>1, <1>7
      <3> QED BY ONLY <3>2, <2>1, <2>2
    <2>4. CASE r \notin PendingRows
      <3>1. booleans[conditional[r].indicator].sealed
        BY <2>4, <1>1 DEF FInv, PendingMatchesRecords, RowsMatch, Open
      <3>2. booleans'[conditional[r].indicator].sealed
        BY <3>1, <2>1, <1>1, <1>7
      <3> QED BY ONLY <3>2, <2>1, <2>2
    <2> QED BY <2>3, <2>4
  <1>12. ConditionalFit' /\ RowsMatch'
    <2>1. PendingRows' = {}
      BY <1>1, <1>4, <1>6 DEF PendingRows
    <2> QED BY <2>1, <1>2, <1>4, <1>11 DEF ConditionalFit, RowsMatch, Open
  <1>13. ASSUME NEW l \in 1..Len(logic)
         PROVE  /\ logic'[l] = [expression |-> logic'[l].expression, parent |-> logic'[l].parent,
                                done |-> logic'[l].done]
                /\ logic'[l].parent \in 0..Len(booleans)
                /\ logic'[l].done = TRUE
                /\ logic'[l].parent # 0 => booleans'[logic'[l].parent].sealed
    <2>1. /\ logic[l] = [expression |-> logic[l].expression, parent |-> logic[l].parent,
                         done |-> logic[l].done]
          /\ logic[l].parent \in 0..Len(booleans)
      BY DEF FInv, LogicFit
    <2>2. logic'[l] = [expression |-> logic[l].expression, parent |-> logic[l].parent, done |-> TRUE]
      BY <2>1, <1>5
    <2>5. logic[l].parent # 0 => logic[l].parent \in 1..Len(booleans)
      BY <2>1, <1>1
    <2>3. CASE l \in PendingLogic
      <3>1. logic[l].parent \in Touched
        BY <2>3 DEF Touched
      <3>2. logic[l].parent # 0 => booleans'[logic[l].parent].sealed
        BY <3>1, <2>5, <1>7
      <3> QED BY ONLY <3>2, <2>1, <2>2
    <2>4. CASE l \notin PendingLogic
      <3>1. logic[l].parent # 0 => booleans[logic[l].parent].sealed
        BY <2>4, <1>1 DEF FInv, PendingMatchesRecords, LogicMatches, Open
      <3>2. logic[l].parent # 0 => booleans'[logic[l].parent].sealed
        BY <3>1, <2>5, <1>7
      <3> QED BY ONLY <3>2, <2>1, <2>2
    <2> QED BY <2>3, <2>4
  <1>14. LogicFit' /\ LogicMatches'
    <2>1. PendingLogic' = {}
      BY <1>1, <1>5, <1>6 DEF PendingLogic
    <2> QED BY <2>1, <1>2, <1>5, <1>13 DEF LogicFit, LogicMatches, Open
  <1>15. ASSUME NEW d \in 1..Len(disjunctions)
         PROVE  /\ disjunctions'[d] = [branches |-> disjunctions'[d].branches,
                      parent |-> disjunctions'[d].parent, kind |-> disjunctions'[d].kind,
                      done |-> disjunctions'[d].done]
                /\ BranchSet(d)' = BranchSet(d) /\ BranchSet(d) \subseteq 1..Len(booleans)
                /\ disjunctions'[d].parent = disjunctions[d].parent
                /\ disjunctions'[d].parent \in 0..Len(booleans)
                /\ disjunctions'[d].done = TRUE
                /\ \A b \in BranchSet(d) \cup ({disjunctions[d].parent} \ {0}) : booleans'[b].sealed
    <2>1. /\ disjunctions[d] = [branches |-> disjunctions[d].branches,
                                parent |-> disjunctions[d].parent,
                                kind |-> disjunctions[d].kind, done |-> disjunctions[d].done]
          /\ BranchSet(d) \subseteq 1..Len(booleans)
          /\ disjunctions[d].parent \in 0..Len(booleans)
      BY DEF FInv, DisjunctionsFit
    <2>2. disjunctions'[d] = [branches |-> disjunctions[d].branches, parent |-> disjunctions[d].parent,
                              kind |-> disjunctions[d].kind, done |-> TRUE]
      BY <2>1, <1>3
    <2>3. BranchSet(d)' = BranchSet(d)
      BY <2>2 DEF BranchSet
    <2>4. ASSUME NEW b \in BranchSet(d) \cup ({disjunctions[d].parent} \ {0})
          PROVE  booleans'[b].sealed
      <3>1. b \in 1..Len(booleans)
        BY <2>1, <1>1
      <3>2. CASE d \in PendingDisjunctions
        <4>1. b \in Touched
          BY <3>2 DEF Touched
        <4> QED BY <3>1, <4>1, <1>7
      <3>3. CASE d \notin PendingDisjunctions
        <4>1. booleans[b].sealed
          BY <3>3, <1>1 DEF FInv, PendingMatchesRecords, DisjunctionsMatch, Open
        <4> QED BY <3>1, <4>1, <1>7
      <3> QED BY <3>2, <3>3
    <2> QED BY <2>1, <2>2, <2>3, <2>4
  <1>16. DisjunctionsFit'
    <2>1. \A d \in 1..Len(disjunctions) : BranchSet(d)' \subseteq 1..Len(booleans)
      BY <1>15
    <2> HIDE DEF BranchSet
    <2> QED BY <2>1, <1>2, <1>3, <1>15 DEF DisjunctionsFit
  <1>17. DisjunctionsMatch'
    <2>1. PendingDisjunctions' = {}
      BY <1>1, <1>3, <1>6 DEF PendingDisjunctions
    <2> QED BY <2>1, <1>3, <1>15 DEF DisjunctionsMatch, Open
  <1> QED BY <1>8, <1>9, <1>10, <1>12, <1>14, <1>16, <1>17 DEF FInv, PendingMatchesRecords

LEMMA ForestInvariance == ForestSpec => []FInv
  <1>1. ForestInit => FInv
    BY ForestInitially DEF InForest
  <1>2. FInv /\ [ForestNext]_forestVars => FInv'
    <2> SUFFICES ASSUME FInv, [ForestNext]_forestVars PROVE FInv'
      OBVIOUS
    <2>1. ASSUME NEW context \in Contexts, AddBoolean(context) PROVE FInv'
      BY <2>1, AddBooleanKeeps
    <2>2. ASSUME NEW branches \in Seq(DOMAIN booleans), NEW kind \in Kinds, NEW parent \in Contexts,
                 RegisterDisjunction(branches, kind, parent)
          PROVE  FInv'
      BY <2>2, RegisterDisjunctionKeeps
    <2>3. ASSUME NEW indicator \in DOMAIN booleans, NEW body, NEW lower, NEW upper,
                 RegisterRow(indicator, body, lower, upper)
          PROVE  FInv'
      BY <2>3, RegisterRowKeeps
    <2>4. ASSUME NEW parent \in Contexts, NEW expression, RegisterLogic(expression, parent) PROVE FInv'
      BY <2>4, RegisterLogicKeeps
    <2>5. CASE HasPending /\ Finish
      BY <2>5, FinishKeeps
    <2>6. CASE UNCHANGED forestVars
      <3>1. UNCHANGED <<booleans, disjunctions, conditional, logic, starts>>
        BY <2>6 DEF forestVars, forest
      <3> QED BY <3>1 DEF FInv, BooleansFit, DisjunctionsFit, ConditionalFit, LogicFit, StartsFit,
            PendingMatchesRecords, RowsMatch, DisjunctionsMatch, LogicMatches, PendingRows,
            PendingDisjunctions, PendingLogic, BranchSet, Open
    <2> QED BY <2>1, <2>2, <2>3, <2>4, <2>5, <2>6 DEF ForestNext
  <1> QED BY <1>1, <1>2, PTL DEF ForestSpec

(* A reformulation takes exactly the records that are not done, since the  *)
(* positions it starts from agree with the state kept in each record, and  *)
(* it leaves no disjunct open that a done record depends on (finish).      *)
THEOREM PendingIsExact == ForestSpec => []PendingMatchesRecords
  <1>1. FInv => PendingMatchesRecords
    BY DEF FInv
  <1> QED BY <1>1, ForestInvariance, PTL

\* What a step does to what a sealed disjunct is made of.
SealedStay ==
    \A b \in DOMAIN booleans :
        ~Open(b) =>
          /\ RowsIn(b)' = RowsIn(b)
          /\ ChildrenIn(b)' = ChildrenIn(b)
          /\ LogicIn(b)' = LogicIn(b)
          /\ booleans'[b] = booleans[b]

LEMMA SealedStep ==
    ASSUME FInv, ForestNext
    PROVE  SealedStay
  <1>1. /\ Len(booleans) \in Nat /\ DOMAIN booleans = 1..Len(booleans)
        /\ Len(disjunctions) \in Nat /\ DOMAIN disjunctions = 1..Len(disjunctions)
        /\ Len(conditional) \in Nat /\ DOMAIN conditional = 1..Len(conditional)
        /\ Len(logic) \in Nat /\ DOMAIN logic = 1..Len(logic)
    BY ForestLists DEF FInv
  <1>2. UNCHANGED conditional => \A b : RowsIn(b)' = RowsIn(b)
    BY DEF RowsIn
  <1>3. UNCHANGED disjunctions => \A b : ChildrenIn(b)' = ChildrenIn(b)
    BY DEF ChildrenIn
  <1>4. UNCHANGED logic => \A b : LogicIn(b)' = LogicIn(b)
    BY DEF LogicIn
  <1>5. ASSUME NEW context \in Contexts, AddBoolean(context) PROVE SealedStay
    <2>1. \A b \in 1..Len(booleans) : booleans'[b] = booleans[b]
      BY <1>5, AppendedList DEF FInv, BooleansFit, AddBoolean
    <2> QED BY <1>5, <2>1, <1>1, <1>2, <1>3, <1>4 DEF SealedStay, AddBoolean
  <1>6. ASSUME NEW branches \in Seq(DOMAIN booleans), NEW kind \in Kinds, NEW parent \in Contexts,
               RegisterDisjunction(branches, kind, parent)
        PROVE  SealedStay
    <2>1. PICK new : new = [branches |-> branches, parent |-> parent, kind |-> kind, done |-> FALSE]
      OBVIOUS
    <2>2. disjunctions' = Append(disjunctions, new)
      BY <1>6, <2>1 DEF RegisterDisjunction
    <2>3. /\ IsList(disjunctions') /\ Len(disjunctions') = Len(disjunctions) + 1
          /\ disjunctions'[Len(disjunctions) + 1] = new
          /\ \A d \in 1..Len(disjunctions) : disjunctions'[d] = disjunctions[d]
      BY <2>2, AppendedList DEF FInv, DisjunctionsFit
    <2>4. DOMAIN disjunctions' = 1..(Len(disjunctions) + 1)
      BY <2>3, ListFacts
    <2>5. ASSUME NEW b \in DOMAIN booleans, ~Open(b)
          PROVE  ChildrenIn(b)' = ChildrenIn(b) /\ booleans'[b] = booleans[b]
      <3>1. new.parent # b
        <4>1. OpenParent(parent)
          BY <1>6 DEF RegisterDisjunction
        <4>2. b # 0
          BY <1>1
        <4> QED BY <4>1, <4>2, <2>1, <2>5 DEF OpenParent
      <3>2. ChildrenIn(b)' = ChildrenIn(b)
        BY <3>1, <2>3, <2>4, <1>1 DEF ChildrenIn
      <3>3. ~\E i \in DOMAIN branches : branches[i] = b
        BY <1>6, <2>5 DEF RegisterDisjunction, Adoptable
      <3>4. booleans'[b] = booleans[b]
        BY <1>6, <3>3 DEF RegisterDisjunction
      <3> QED BY <3>2, <3>4
    <2> QED BY <1>6, <2>5, <1>2, <1>4 DEF SealedStay, RegisterDisjunction
  <1>7. ASSUME NEW indicator \in DOMAIN booleans, NEW body, NEW lower, NEW upper,
               RegisterRow(indicator, body, lower, upper)
        PROVE  SealedStay
    <2>1. PICK new : new = [indicator |-> indicator, body |-> body, lower |-> lower, upper |-> upper,
                            done |-> FALSE]
      OBVIOUS
    <2>2. conditional' = Append(conditional, new) /\ Open(indicator)
      BY <1>7, <2>1 DEF RegisterRow
    <2>3. /\ IsList(conditional') /\ Len(conditional') = Len(conditional) + 1
          /\ conditional'[Len(conditional) + 1] = new
          /\ \A r \in 1..Len(conditional) : conditional'[r] = conditional[r]
      BY <2>2, AppendedList DEF FInv, ConditionalFit
    <2>4. DOMAIN conditional' = 1..(Len(conditional) + 1)
      BY <2>3, ListFacts
    <2>5. ASSUME NEW b \in DOMAIN booleans, ~Open(b)
          PROVE  RowsIn(b)' = RowsIn(b)
      <3>1. new.indicator # b
        BY <2>1, <2>2, <2>5
      <3> QED BY <3>1, <2>3, <2>4, <1>1 DEF RowsIn
    <2> QED BY <1>7, <2>5, <1>3, <1>4 DEF SealedStay, RegisterRow
  <1>8. ASSUME NEW parent \in Contexts, NEW expression, RegisterLogic(expression, parent)
        PROVE  SealedStay
    <2>1. PICK new : new = [expression |-> expression, parent |-> parent, done |-> FALSE]
      OBVIOUS
    <2>2. logic' = Append(logic, new) /\ OpenParent(parent)
      BY <1>8, <2>1 DEF RegisterLogic
    <2>3. /\ IsList(logic') /\ Len(logic') = Len(logic) + 1
          /\ logic'[Len(logic) + 1] = new
          /\ \A l \in 1..Len(logic) : logic'[l] = logic[l]
      BY <2>2, AppendedList DEF FInv, LogicFit
    <2>4. DOMAIN logic' = 1..(Len(logic) + 1)
      BY <2>3, ListFacts
    <2>5. ASSUME NEW b \in DOMAIN booleans, ~Open(b)
          PROVE  LogicIn(b)' = LogicIn(b)
      <3>1. new.parent # b
        <4>1. b # 0
          BY <1>1
        <4> QED BY <4>1, <2>1, <2>2, <2>5 DEF OpenParent
      <3> QED BY <3>1, <2>3, <2>4, <1>1 DEF LogicIn
    <2> QED BY <1>8, <2>5, <1>2, <1>3 DEF SealedStay, RegisterLogic
  <1>9. CASE HasPending /\ Finish
    <2>1. \A r \in 1..Len(conditional) :
              /\ conditional'[r] = [conditional[r] EXCEPT !.done = TRUE]
              /\ conditional'[r].indicator = conditional[r].indicator
      BY <1>1, <1>9 DEF Finish, FInv, ConditionalFit
    <2>2. \A d \in 1..Len(disjunctions) :
              /\ disjunctions'[d] = [disjunctions[d] EXCEPT !.done = TRUE]
              /\ disjunctions'[d].parent = disjunctions[d].parent
      BY <1>1, <1>9 DEF Finish, FInv, DisjunctionsFit
    <2>3. \A l \in 1..Len(logic) :
              /\ logic'[l] = [logic[l] EXCEPT !.done = TRUE]
              /\ logic'[l].parent = logic[l].parent
      BY <1>1, <1>9 DEF Finish, FInv, LogicFit
    <2>4. /\ DOMAIN conditional' = DOMAIN conditional /\ DOMAIN disjunctions' = DOMAIN disjunctions
          /\ DOMAIN logic' = DOMAIN logic
      BY <1>9 DEF Finish
    <2>5. \A b : RowsIn(b)' = RowsIn(b)
      BY <2>1, <2>4, <1>1 DEF RowsIn
    <2>6. \A b : ChildrenIn(b)' = ChildrenIn(b)
      BY <2>2, <2>4, <1>1 DEF ChildrenIn
    <2>7. \A b : LogicIn(b)' = LogicIn(b)
      BY <2>3, <2>4, <1>1 DEF LogicIn
    <2>8. ASSUME NEW b \in 1..Len(booleans), ~Open(b)
          PROVE  booleans'[b] = booleans[b]
      <3>1. /\ booleans[b] = [owner |-> booleans[b].owner, parent |-> booleans[b].parent,
                              sealed |-> booleans[b].sealed]
            /\ booleans[b].sealed = TRUE
        BY <2>8 DEF FInv, BooleansFit, Open
      <3>2. [booleans[b] EXCEPT !.sealed = TRUE] = booleans[b]
        BY ONLY <3>1
      <3>3. booleans'[b] = IF b \in Touched THEN [booleans[b] EXCEPT !.sealed = TRUE] ELSE booleans[b]
        BY <1>1, <1>9 DEF Finish
      <3> QED BY <3>2, <3>3
    <2> QED BY <2>5, <2>6, <2>7, <2>8, <1>1 DEF SealedStay
  <1> QED BY <1>5, <1>6, <1>7, <1>8, <1>9 DEF ForestNext

(* Once a disjunct is sealed nothing is put into it and it stays where it  *)
(* is, whatever is registered or reformulated (register_row,               *)
(* register_disjunction, register_logic, finish).                          *)
THEOREM SealedIsFinal == ForestSpec => SealedDisjunctsStay
  <1>1. FInv /\ [ForestNext]_forestVars => [SealedStay]_forestVars
    BY SealedStep
  <1> QED BY <1>1, ForestInvariance, PTL DEF ForestSpec, SealedDisjunctsStay, SealedStay

-----------------------------------------------------------------------------
(* Nesting                                                                 *)

\* What a list of the disjuncts around b has to be, given those of its parent.
Around(f, b) == IF b = 0 THEN <<>> ELSE <<b>> \o f[booleans[b].parent]

\* Where every disjunct lies deeper than the one around it, Ancestry is defined.
LEMMA AncestryIs ==
    ASSUME BooleansFit, NestingEnds
    PROVE  /\ DOMAIN Ancestry = 0..Len(booleans)
           /\ \A b \in 0..Len(booleans) : Ancestry[b] = Around(Ancestry, b)
           /\ \A b \in 0..Len(booleans) : Ancestry[b] \in Seq(1..Len(booleans))
  <1>1. Len(booleans) \in Nat /\ DOMAIN booleans = 1..Len(booleans)
    BY ListFacts DEF BooleansFit
  <1>2. PICK k \in Nat : \E rank \in [1..Len(booleans) -> 0..k] : Ranks(rank)
    BY DEF NestingEnds
  <1>3. PICK rank \in [1..Len(booleans) -> 0..k] : Ranks(rank)
    BY <1>2
  <1>4. PICK B, L : B = 0..Len(booleans) /\ L = Seq(1..Len(booleans))
    OBVIOUS
  <1>5. PICK up : up = [b \in B |-> IF b = 0 THEN 0 ELSE booleans[b].parent]
    OBVIOUS
  <1>6. /\ 0 \in B /\ \A b \in B : up[b] \in B
        /\ \A b \in B : b # 0 => up[b] = booleans[b].parent
        /\ \A b \in B : b # 0 => b \in 1..Len(booleans) /\ rank[b] \in 0..k
        /\ \A b \in B : b # 0 /\ up[b] # 0 => rank[up[b]] < rank[b]
    <2>1. 0 \in B /\ \A b \in B : b # 0 => b \in 1..Len(booleans)
      BY <1>1, <1>4
    <2>2. \A b \in 1..Len(booleans) : booleans[b].parent \in B
      BY <1>4 DEF BooleansFit
    <2>3. \A b \in B : b # 0 => up[b] = booleans[b].parent /\ rank[b] \in 0..k
      BY <2>1, <1>5, <1>3
    <2>4. \A b \in B : up[b] \in B
      BY <2>1, <2>2, <1>5
    <2>5. \A b \in B : b # 0 /\ up[b] # 0 => rank[up[b]] < rank[b]
      BY <2>1, <2>3, <1>3 DEF Ranks
    <2> QED BY <2>1, <2>3, <2>4, <2>5
  <1>7. \A f : \A b \in B : Around(f, b) = IF b = 0 THEN <<>> ELSE <<b>> \o f[up[b]]
    BY <1>6 DEF Around
  <1>8. ASSUME NEW f \in [B -> L], NEW b \in B
        PROVE  Around(f, b) \in L
    <2>1. CASE b = 0
      <3>1. <<>> \in Seq(1..Len(booleans))
        OBVIOUS
      <3>2. Around(f, b) = <<>>
        BY <2>1 DEF Around
      <3> QED BY <3>1, <3>2, <1>4
    <2>2. CASE b # 0
      <3>1. PICK q : q = f[up[b]]
        OBVIOUS
      <3>2. q \in Seq(1..Len(booleans)) /\ b \in 1..Len(booleans)
        BY <2>2, <3>1, <1>4, <1>6
      <3>3. <<b>> \o q \in Seq(1..Len(booleans))
        BY ONLY <3>2
      <3> QED BY <2>2, <3>1, <3>3, <1>4, <1>7
    <2> QED BY <2>1, <2>2
  <1> DEFINE Deep(b, n) == b = 0 \/ rank[b] < n
             S == {n \in Nat : \E f \in [B -> L] : \A b \in B : Deep(b, n) => f[b] = Around(f, b)}
  <1>9. ASSUME NEW n \in Nat, NEW b \in B, b # 0, Deep(b, n + 1)
        PROVE  Deep(up[b], n)
    <2>1. CASE up[b] = 0
      BY <2>1
    <2>2. CASE up[b] # 0
      <3>1. /\ rank[up[b]] \in 0..k /\ rank[b] \in 0..k /\ rank[up[b]] < rank[b]
            /\ rank[b] < n + 1
        BY <2>2, <1>6, <1>9
      <3> QED BY <3>1, <1>2
    <2> QED BY <2>1, <2>2
  <1>10. \A b \in B : Deep(b, k + 1)
    BY <1>2, <1>6
  <1>11. \A b \in B : b # 0 => ~Deep(b, 0)
    BY <1>2, <1>6
  <1> HIDE DEF Deep
  <1>12. Deep(0, 0)
    BY DEF Deep
  <1>13. 0 \in S
    <2>1. PICK f : f = [b \in B |-> <<>>]
      OBVIOUS
    <2>2. f \in [B -> L]
      BY <2>1, <1>4
    <2>3. \A b \in B : Deep(b, 0) => f[b] = Around(f, b)
      BY <2>1, <1>7, <1>11
    <2> QED BY <2>2, <2>3
  <1>14. ASSUME NEW n \in Nat, n \in S
         PROVE  n + 1 \in S
    <2>1. PICK f \in [B -> L] : \A b \in B : Deep(b, n) => f[b] = Around(f, b)
      BY <1>14
    <2>2. PICK g : g = [b \in B |-> Around(f, b)]
      OBVIOUS
    <2>3. g \in [B -> L]
      BY <2>2, <1>8
    <2>4. ASSUME NEW b \in B, Deep(b, n + 1)
          PROVE  g[b] = Around(g, b)
      <3>1. CASE b = 0
        BY <3>1, <2>2, <1>7
      <3>2. CASE b # 0
        <4>1. Deep(up[b], n) /\ up[b] \in B
          BY <3>2, <2>4, <1>6, <1>9
        <4>2. g[up[b]] = f[up[b]]
          BY <4>1, <2>1, <2>2
        <4> QED BY <3>2, <4>2, <2>2, <1>7
      <3> QED BY <3>1, <3>2
    <2> QED BY <2>3, <2>4
  <1>15. k + 1 \in S
    <2>1. k + 1 \in Nat
      BY <1>2
    <2> HIDE DEF S
    <2> QED BY <1>13, <1>14, <2>1, SetInduction
  <1>16. PICK f \in [B -> L] : \A b \in B : f[b] = Around(f, b)
    BY <1>10, <1>15
  <1>17. f = [b \in 0..Len(booleans) |-> IF b = 0 THEN <<>> ELSE <<b>> \o f[booleans[b].parent]]
    BY <1>4, <1>16 DEF Around
  <1>18. Ancestry = [b \in 0..Len(booleans) |->
                       IF b = 0 THEN <<>> ELSE <<b>> \o Ancestry[booleans[b].parent]]
    BY <1>17 DEF Ancestry
  <1>19. DOMAIN Ancestry = B /\ \A b \in B : Ancestry[b] = Around(Ancestry, b)
    BY <1>4, <1>18 DEF Around
  <1> DEFINE T == {n \in Nat : \A b \in B : Deep(b, n) => Ancestry[b] = f[b]}
  <1>20. 0 \in T
    BY <1>7, <1>11, <1>16, <1>19
  <1>21. ASSUME NEW n \in Nat, n \in T
         PROVE  n + 1 \in T
    <2>1. ASSUME NEW b \in B, Deep(b, n + 1)
          PROVE  Ancestry[b] = f[b]
      <3>1. CASE b = 0
        BY <3>1, <1>7, <1>16, <1>19
      <3>2. CASE b # 0
        <4>1. Ancestry[up[b]] = f[up[b]]
          BY <3>2, <2>1, <1>6, <1>9, <1>21
        <4>2. f[b] = <<b>> \o f[up[b]]
          BY <3>2, <1>7, <1>16
        <4>3. Ancestry[b] = Around(Ancestry, b)
          BY <1>19
        <4>4. Around(Ancestry, b) = <<b>> \o Ancestry[up[b]]
          BY <3>2, <1>6 DEF Around
        <4> QED BY <4>1, <4>2, <4>3, <4>4
      <3> QED BY <3>1, <3>2
    <2> QED BY <2>1
  <1>22. k + 1 \in T
    <2>1. k + 1 \in Nat
      BY <1>2
    <2> HIDE DEF T
    <2> QED BY <1>20, <1>21, <2>1, SetInduction
  <1>23. \A b \in B : Ancestry[b] \in L
    BY <1>10, <1>22
  <1> QED BY <1>4, <1>19, <1>23

\* b lies within y if it is y, or the disjunct around it lies within y.
LEMMA WithinIs ==
    ASSUME BooleansFit, NestingEnds, NEW b \in 0..Len(booleans), NEW y
    PROVE  Within(b, y) <=> b # 0 /\ (y = b \/ Within(booleans[b].parent, y))
  <1>1. Ancestry[b] = Around(Ancestry, b)
    BY AncestryIs
  <1>2. CASE b = 0
    <2>1. DOMAIN Ancestry[b] = {}
      BY <1>1, <1>2 DEF Around
    <2> QED BY <2>1, <1>2 DEF Within
  <1>3. CASE b # 0
    <2>1. booleans[b].parent \in 0..Len(booleans)
      <3>1. b \in 1..Len(booleans)
        BY <1>3, ListFacts DEF BooleansFit
      <3> QED BY <3>1 DEF BooleansFit
    <2>2. PICK q : q = Ancestry[booleans[b].parent]
      OBVIOUS
    <2>3. q \in Seq(1..Len(booleans)) /\ Len(q) \in Nat /\ DOMAIN q = 1..Len(q)
      BY <2>1, <2>2, AncestryIs
    <2>4. PICK s : s = Ancestry[b]
      OBVIOUS
    <2>5. s = <<b>> \o q
      BY <1>1, <1>3, <2>2, <2>4 DEF Around
    <2>6. IsList(<<b>>) /\ Len(<<b>>) = 1 /\ <<b>>[1] = b /\ IsList(q)
      BY <2>3, ShortLists DEF IsList
    <2>7. PICK h : h = <<b>>
      OBVIOUS
    <2>8. /\ IsList(h \o q) /\ Len(h \o q) = Len(h) + Len(q)
          /\ \A i \in 1..Len(h) : (h \o q)[i] = h[i]
          /\ \A i \in 1..Len(q) : (h \o q)[Len(h) + i] = q[i]
      BY <2>6, <2>7, JoinedLists
    <2>9. /\ DOMAIN s = 1..(Len(q) + 1) /\ s[1] = b
          /\ \A i \in 1..Len(q) : s[i + 1] = q[i]
      <3>1. DOMAIN s = 1..(Len(q) + 1)
        BY <2>3, <2>5, <2>6, <2>7, <2>8, ListFacts
      <3>2. s[1] = b
        BY <2>5, <2>6, <2>7, <2>8
      <3>3. \A i \in 1..Len(q) : s[i + 1] = q[i]
        BY <2>3, <2>5, <2>6, <2>7, <2>8
      <3> QED BY <3>1, <3>2, <3>3
    <2>10. (\E i \in DOMAIN s : s[i] = y) <=> y = b \/ \E i \in DOMAIN q : q[i] = y
      <3>1. ASSUME NEW i \in DOMAIN s, s[i] = y
            PROVE  y = b \/ \E j \in DOMAIN q : q[j] = y
        <4>1. CASE i = 1
          BY <4>1, <3>1, <2>9
        <4>2. CASE i # 1
          <5>1. i - 1 \in 1..Len(q) /\ (i - 1) + 1 = i
            BY <4>2, <2>3, <2>9
          <5> QED BY <5>1, <3>1, <2>3, <2>9
        <4> QED BY <4>1, <4>2
      <3>2. ASSUME NEW i \in DOMAIN q, q[i] = y
            PROVE  \E j \in DOMAIN s : s[j] = y
        <4>1. i + 1 \in DOMAIN s
          BY <2>3, <2>9
        <4> QED BY <4>1, <3>2, <2>3, <2>9
      <3>3. y = b => \E i \in DOMAIN s : s[i] = y
        BY <2>3, <2>9
      <3> QED BY <3>1, <3>2, <3>3
    <2> QED BY <1>3, <2>2, <2>4, <2>10 DEF Within
  <1> QED BY <1>2, <1>3

\* What a disjunct lies within is at most as deep.
LEMMA WithinRises ==
    ASSUME BooleansFit, NEW k \in Nat, NEW rank \in [1..Len(booleans) -> 0..k], Ranks(rank),
           NEW y \in 1..Len(booleans)
    PROVE  \A b \in 1..Len(booleans) : Within(b, y) => rank[y] <= rank[b]
  <1>1. NestingEnds
    BY DEF NestingEnds
  <1> DEFINE S == {n \in Nat : \A b \in 1..Len(booleans) : rank[b] < n /\ Within(b, y) => rank[y] <= rank[b]}
  <1>2. 0 \in S
    OBVIOUS
  <1>3. ASSUME NEW n \in Nat, n \in S
        PROVE  n + 1 \in S
    <2>1. ASSUME NEW b \in 1..Len(booleans), rank[b] < n + 1, Within(b, y)
          PROVE  rank[y] <= rank[b]
      <3>1. b \in 0..Len(booleans) /\ Len(booleans) \in Nat
        BY ListFacts DEF BooleansFit
      <3>2. PICK q : q = booleans[b].parent
        OBVIOUS
      <3>3. y = b \/ Within(q, y)
        BY <2>1, <3>1, <3>2, <1>1, WithinIs
      <3>4. CASE y = b
        BY <3>4
      <3>5. CASE Within(q, y)
        <4>1. q \in 0..Len(booleans)
          BY <3>2 DEF BooleansFit
        <4>2. q # 0
          BY <3>5, <4>1, <1>1, WithinIs
        <4>3. q \in 1..Len(booleans) /\ rank[q] < rank[b]
          BY <3>1, <3>2, <4>1, <4>2 DEF Ranks
        <4>4. rank[q] \in 0..k /\ rank[b] \in 0..k /\ rank[y] \in 0..k
          BY <4>3
        <4>5. rank[q] < n
          BY <4>3, <4>4, <2>1
        <4>6. rank[y] <= rank[q]
          BY <4>3, <4>5, <3>5, <1>3
        <4> QED BY <4>3, <4>4, <4>6
      <3> QED BY <3>3, <3>4, <3>5
    <2> QED BY <2>1
  <1>4. k + 1 \in S
    <2>1. k + 1 \in Nat
      OBVIOUS
    <2> HIDE DEF S
    <2> QED BY <1>2, <1>3, <2>1, SetInduction
  <1>5. \A b \in 1..Len(booleans) : rank[b] < k + 1
    OBVIOUS
  <1> QED BY <1>4, <1>5

\* A Boolean made in an open disjunct has no owner and nothing lies in it.
LEMMA AddBooleanNests ==
    ASSUME InForest, NEW context, AddBoolean(context)
    PROVE  OwnersMatch' /\ NestingEnds'
  <1>1. /\ Len(booleans') = Len(booleans) + 1 /\ Len(booleans) \in Nat
        /\ booleans'[Len(booleans) + 1] = [owner |-> 0, parent |-> 0, sealed |-> FALSE]
        /\ \A b \in 1..Len(booleans) : booleans'[b] = booleans[b]
    BY AppendedList, ListFacts DEF InForest, FInv, BooleansFit, AddBoolean
  <1>2. UNCHANGED disjunctions
    BY DEF AddBoolean
  <1>3. \A d : BranchSet(d)' = BranchSet(d)
    BY <1>2 DEF BranchSet
  <1>4. \A d \in 1..Len(disjunctions) : d # 0 /\ Len(booleans) + 1 \notin BranchSet(d)
    <2>1. Len(booleans) + 1 \notin 1..Len(booleans)
      BY <1>1
    <2>2. \A d \in 1..Len(disjunctions) : BranchSet(d) \subseteq 1..Len(booleans)
      BY DEF InForest, FInv, DisjunctionsFit
    <2>3. \A d \in 1..Len(disjunctions) : d # 0
      BY ListFacts DEF InForest, FInv, DisjunctionsFit
    <2> QED BY <2>1, <2>2, <2>3
  <1>5. OwnersMatch'
    <2>1. ASSUME NEW b \in 1..(Len(booleans) + 1)
          PROVE  /\ booleans'[b].owner = 0 => booleans'[b].parent = 0
                 /\ booleans'[b].owner # 0
                       => booleans'[b].parent = disjunctions[booleans'[b].owner].parent
                 /\ \A d \in 1..Len(disjunctions) : booleans'[b].owner = d <=> b \in BranchSet(d)
      <3>1. CASE b = Len(booleans) + 1
        <4>1. booleans'[b].owner = 0 /\ booleans'[b].parent = 0
          BY <3>1, <1>1
        <4> QED BY <4>1, <3>1, <1>4
      <3>2. CASE b # Len(booleans) + 1
        <4>1. b \in 1..Len(booleans)
          BY <3>2, <1>1
        <4> QED BY <4>1, <1>1 DEF InForest, OwnersMatch
      <3> QED BY <3>1, <3>2
    <2> QED BY <2>1, <1>1, <1>2, <1>3 DEF OwnersMatch
  <1>6. NestingEnds'
    <2>1. PICK k \in Nat : \E rank \in [1..Len(booleans) -> 0..k] : Ranks(rank)
      BY DEF InForest, NestingEnds
    <2>2. PICK rank \in [1..Len(booleans) -> 0..k] : Ranks(rank)
      BY <2>1
    <2>3. PICK deeper : deeper = [b \in 1..(Len(booleans) + 1) |->
                                    IF b = Len(booleans) + 1 THEN 0 ELSE rank[b]]
      OBVIOUS
    <2>4. \A b \in 1..Len(booleans) : b # Len(booleans) + 1 /\ b \in 1..(Len(booleans) + 1)
      BY <1>1
    <2>5. \A b \in 1..(Len(booleans) + 1) : b # Len(booleans) + 1 => b \in 1..Len(booleans)
      BY <1>1
    <2>6. deeper \in [1..Len(booleans') -> 0..k]
      BY <2>1, <2>2, <2>3, <2>5, <1>1
    <2>7. ASSUME NEW b \in 1..Len(booleans'), booleans'[b].parent # 0
          PROVE  deeper[booleans'[b].parent] < deeper[b]
      <3>1. b # Len(booleans) + 1
        BY <2>7, <1>1
      <3>2. b \in 1..Len(booleans) /\ booleans'[b] = booleans[b]
        BY <3>1, <2>5, <1>1
      <3>3. booleans[b].parent \in 1..Len(booleans)
        <4>1. booleans[b].parent \in 0..Len(booleans)
          BY <3>2 DEF InForest, FInv, BooleansFit
        <4> QED BY <4>1, <3>2, <2>7, <1>1
      <3>4. rank[booleans[b].parent] < rank[b]
        BY <3>2, <2>7, <2>2 DEF Ranks
      <3> QED BY <3>2, <3>3, <3>4, <2>3, <2>4
    <2>8. Ranks(deeper)'
      BY <2>7 DEF Ranks
    <2> QED BY <2>6, <2>8 DEF NestingEnds
  <1> QED BY <1>5, <1>6

\* The disjuncts of a disjunction had no owner, and the disjunct around them
\* lies in none of them: all that lies in them becomes deeper by one amount.
LEMMA RegisterDisjunctionNests ==
    ASSUME InForest, NEW branches \in Seq(DOMAIN booleans), NEW kind \in Kinds, NEW parent \in Contexts,
           RegisterDisjunction(branches, kind, parent)
    PROVE  OwnersMatch' /\ NestingEnds'
  <1>1. /\ Len(booleans) \in Nat /\ DOMAIN booleans = 1..Len(booleans)
        /\ Len(disjunctions) \in Nat /\ DOMAIN disjunctions = 1..Len(disjunctions)
    BY ForestLists DEF InForest, FInv
  <1>2. PICK new, n : /\ new = [branches |-> branches, parent |-> parent, kind |-> kind, done |-> FALSE]
                      /\ n = Len(disjunctions) + 1
    OBVIOUS
  <1>3. /\ Len(disjunctions') = n /\ disjunctions'[n] = new
        /\ \A d \in 1..Len(disjunctions) : disjunctions'[d] = disjunctions[d]
    <2>1. disjunctions' = Append(disjunctions, new)
      BY <1>2 DEF RegisterDisjunction
    <2>2. IsList(disjunctions)
      BY DEF InForest, FInv, DisjunctionsFit
    <2> QED BY ONLY <1>2, <2>1, <2>2, AppendedList
  <1>4. PICK fresh : fresh = {branches[i] : i \in DOMAIN branches}
    OBVIOUS
  <1>5. /\ booleans' = [b \in DOMAIN booleans |->
               IF b \in fresh THEN [booleans[b] EXCEPT !.owner = n, !.parent = parent]
               ELSE booleans[b]]
        /\ \A b \in fresh : b \in 1..Len(booleans) /\ booleans[b].owner = 0 /\ ~Within(parent, b)
    <2>1. \A b : b \in fresh <=> \E i \in DOMAIN branches : branches[i] = b
      BY <1>4
    <2>2. booleans' = [b \in DOMAIN booleans |->
               IF b \in fresh THEN [booleans[b] EXCEPT !.owner = n, !.parent = parent]
               ELSE booleans[b]]
      BY <2>1, <1>2 DEF RegisterDisjunction
    <2>3. \A b \in fresh : b \in 1..Len(booleans)
      BY <2>1, <1>1
    <2>4. \A b \in fresh : booleans[b].owner = 0 /\ ~Within(parent, b)
      BY <2>1 DEF RegisterDisjunction, Adoptable
    <2> QED BY <2>2, <2>3, <2>4
  <1>6. Len(booleans') = Len(booleans)
    BY <1>1, <1>5, ListOf
  <1>7. parent \in 0..Len(booleans)
    BY <1>1 DEF Contexts
  <1>8. \A b \in 1..Len(booleans) :
           /\ b \in fresh => booleans'[b].owner = n /\ booleans'[b].parent = parent
           /\ b \notin fresh => booleans'[b] = booleans[b]
    <2>1. \A b \in 1..Len(booleans) :
             booleans[b] = [owner |-> booleans[b].owner, parent |-> booleans[b].parent,
                            sealed |-> booleans[b].sealed]
      BY DEF InForest, FInv, BooleansFit
    <2>2. ASSUME NEW b \in 1..Len(booleans), b \in fresh
          PROVE  booleans'[b].owner = n /\ booleans'[b].parent = parent
      <3>1. booleans'[b] = [booleans[b] EXCEPT !.owner = n, !.parent = parent]
        BY <2>2, <1>1, <1>5
      <3>2. booleans'[b] = [owner |-> n, parent |-> parent, sealed |-> booleans[b].sealed]
        BY <2>1, <3>1
      <3> QED BY ONLY <3>2
    <2>3. \A b \in 1..Len(booleans) : b \notin fresh => booleans'[b] = booleans[b]
      BY <1>1, <1>5
    <2> QED BY <2>2, <2>3
  <1>9. /\ BranchSet(n)' = fresh
        /\ \A d \in 1..Len(disjunctions) : BranchSet(d)' = BranchSet(d)
    <2>1. BranchSet(n)' = {new.branches[i] : i \in DOMAIN new.branches}
      BY <1>3 DEF BranchSet
    <2> QED BY <2>1, <1>2, <1>3, <1>4 DEF BranchSet
  <1>10. /\ n # 0 /\ n \notin 1..Len(disjunctions) /\ \A d \in 1..Len(disjunctions) : d # 0 /\ d # n
         /\ \A d \in 1..n : d # n => d \in 1..Len(disjunctions)
    BY <1>1, <1>2
  <1>11. OwnersMatch'
    <2>1. ASSUME NEW b \in 1..Len(booleans)
          PROVE  /\ booleans'[b].owner = 0 => booleans'[b].parent = 0
                 /\ booleans'[b].owner # 0
                       => booleans'[b].parent = disjunctions'[booleans'[b].owner].parent
                 /\ \A d \in 1..n : booleans'[b].owner = d <=> b \in BranchSet(d)'
      <3>1. /\ booleans[b].owner = 0 => booleans[b].parent = 0
            /\ booleans[b].owner # 0 => booleans[b].parent = disjunctions[booleans[b].owner].parent
            /\ \A d \in 1..Len(disjunctions) : booleans[b].owner = d <=> b \in BranchSet(d)
        BY DEF InForest, OwnersMatch
      <3>2. CASE b \in fresh
        <4>1. booleans'[b].owner = n /\ booleans'[b].parent = parent /\ new.parent = parent
          BY <3>2, <1>2, <1>8
        <4>2. \A d \in 1..Len(disjunctions) : b \notin BranchSet(d)
          BY <3>1, <3>2, <1>5, <1>10
        <4> QED BY <4>1, <4>2, <3>2, <1>3, <1>9, <1>10
      <3>3. CASE b \notin fresh
        <4>1. booleans'[b] = booleans[b]
          BY <3>3, <1>8
        <4>2. booleans[b].owner \in 0..Len(disjunctions)
          BY DEF InForest, FInv, BooleansFit
        <4>3. booleans[b].owner # n
          BY <4>2, <1>1, <1>2
        <4>4. booleans[b].owner # 0 => booleans[b].owner \in 1..Len(disjunctions)
          BY <4>2, <1>1
        <4> QED BY <4>1, <4>3, <4>4, <3>1, <3>3, <1>3, <1>9, <1>10
      <3> QED BY <3>2, <3>3
    <2> QED BY <2>1, <1>3, <1>6 DEF OwnersMatch
  <1>12. NestingEnds'
    <2>1. PICK k \in Nat : \E rank \in [1..Len(booleans) -> 0..k] : Ranks(rank)
      BY DEF InForest, NestingEnds
    <2>2. PICK rank \in [1..Len(booleans) -> 0..k] : Ranks(rank)
      BY <2>1
    <2>3. PICK inside : inside = {b \in 1..Len(booleans) : \E y \in fresh : Within(b, y)}
      OBVIOUS
    <2>4. PICK deeper : deeper = [b \in 1..Len(booleans) |->
                                    IF b \in inside THEN rank[b] + (k + 1) ELSE rank[b]]
      OBVIOUS
    <2>5. \A b \in 1..Len(booleans) : rank[b] \in 0..k
      BY <2>2
    <2>6. PICK m : m = k + (k + 1)
      OBVIOUS
    <2>7. m \in Nat /\ deeper \in [1..Len(booleans) -> 0..m]
      BY <2>1, <2>4, <2>5, <2>6
    <2>8. ASSUME NEW b \in 1..Len(booleans), booleans'[b].parent # 0
          PROVE  deeper[booleans'[b].parent] < deeper[b]
      <3>1. /\ booleans[b].parent \in 0..Len(booleans) /\ b \in 0..Len(booleans) /\ b # 0
            /\ BooleansFit /\ NestingEnds
        BY <1>1 DEF InForest, FInv, BooleansFit
      <3>2. \A y : Within(b, y) <=> y = b \/ Within(booleans[b].parent, y)
        BY <3>1, WithinIs
      <3>3. CASE b \in fresh
        <4>1. b \in inside
          BY <3>2, <3>3, <2>3
        <4>2. parent \in 1..Len(booleans) /\ parent \notin inside /\ booleans'[b].parent = parent
          <5>1. booleans'[b].parent = parent
            BY <3>3, <1>8
          <5>2. parent \in 1..Len(booleans)
            BY <5>1, <2>8, <1>1, <1>7
          <5>3. parent \notin inside
            BY <1>5, <2>3
          <5> QED BY <5>1, <5>2, <5>3
        <4>3. deeper[parent] = rank[parent] /\ deeper[b] = rank[b] + (k + 1)
          BY <4>1, <4>2, <2>4
        <4> QED BY <4>2, <4>3, <2>1, <2>5
      <3>4. CASE b \notin fresh
        <4>1. booleans'[b] = booleans[b]
          BY <3>4, <1>8
        <4>2. PICK p : p = booleans[b].parent
          OBVIOUS
        <4>3. p \in 1..Len(booleans)
          BY <4>1, <4>2, <3>1, <2>8, <1>1
        <4>4. rank[p] < rank[b]
          BY <4>1, <4>2, <2>2, <2>8 DEF Ranks
        <4>5. b \in inside <=> p \in inside
          BY <4>2, <4>3, <3>2, <3>4, <2>3
        <4>6. deeper[p] < deeper[b]
          BY <4>3, <4>4, <4>5, <2>1, <2>4, <2>5
        <4> QED BY <4>1, <4>2, <4>6
      <3> QED BY <3>3, <3>4
    <2>9. Ranks(deeper)'
      BY <2>8, <1>6 DEF Ranks
    <2> QED BY <2>7, <2>9, <1>6 DEF NestingEnds
  <1> QED BY <1>11, <1>12

\* A reformulation moves nothing.
LEMMA FinishNests ==
    ASSUME InForest, Finish
    PROVE  OwnersMatch' /\ NestingEnds'
  <1>1. /\ Len(booleans) \in Nat /\ DOMAIN booleans = 1..Len(booleans)
        /\ Len(disjunctions) \in Nat /\ DOMAIN disjunctions = 1..Len(disjunctions)
    BY ForestLists DEF InForest, FInv
  <1>2. /\ Len(booleans') = Len(booleans)
        /\ \A b \in 1..Len(booleans) :
              booleans'[b].owner = booleans[b].owner /\ booleans'[b].parent = booleans[b].parent
    <2>1. booleans' = [b \in DOMAIN booleans |->
                         IF b \in Touched THEN [booleans[b] EXCEPT !.sealed = TRUE] ELSE booleans[b]]
      BY DEF Finish
    <2>2. \A b \in 1..Len(booleans) :
             booleans[b] = [owner |-> booleans[b].owner, parent |-> booleans[b].parent,
                            sealed |-> booleans[b].sealed]
      BY DEF InForest, FInv, BooleansFit
    <2>3. Len(booleans') = Len(booleans)
      BY <1>1, <2>1, ListOf
    <2> QED BY <1>1, <2>1, <2>2, <2>3
  <1>3. /\ Len(disjunctions') = Len(disjunctions)
        /\ \A d \in 1..Len(disjunctions) :
              /\ disjunctions'[d].branches = disjunctions[d].branches
              /\ disjunctions'[d].parent = disjunctions[d].parent
    <2>1. disjunctions' = [d \in DOMAIN disjunctions |-> [disjunctions[d] EXCEPT !.done = TRUE]]
      BY DEF Finish
    <2>2. \A d \in 1..Len(disjunctions) :
             disjunctions[d] = [branches |-> disjunctions[d].branches, parent |-> disjunctions[d].parent,
                                kind |-> disjunctions[d].kind, done |-> disjunctions[d].done]
      BY DEF InForest, FInv, DisjunctionsFit
    <2>3. Len(disjunctions') = Len(disjunctions)
      BY <1>1, <2>1, ListOf
    <2> QED BY <1>1, <2>1, <2>2, <2>3
  <1>4. \A d \in 1..Len(disjunctions) : BranchSet(d)' = BranchSet(d)
    BY <1>3 DEF BranchSet
  <1>5. OwnersMatch'
    <2>1. ASSUME NEW b \in 1..Len(booleans)
          PROVE  /\ booleans'[b].owner = 0 => booleans'[b].parent = 0
                 /\ booleans'[b].owner # 0
                       => booleans'[b].parent = disjunctions'[booleans'[b].owner].parent
                 /\ \A d \in 1..Len(disjunctions) : booleans'[b].owner = d <=> b \in BranchSet(d)'
      <3>1. /\ booleans[b].owner = 0 => booleans[b].parent = 0
            /\ booleans[b].owner # 0 => booleans[b].parent = disjunctions[booleans[b].owner].parent
            /\ \A d \in 1..Len(disjunctions) : booleans[b].owner = d <=> b \in BranchSet(d)
        BY DEF InForest, OwnersMatch
      <3>2. booleans[b].owner \in 0..Len(disjunctions)
        BY DEF InForest, FInv, BooleansFit
      <3>3. booleans[b].owner # 0 => booleans[b].owner \in 1..Len(disjunctions)
        BY <3>2, <1>1
      <3> QED BY <3>1, <3>3, <1>2, <1>3, <1>4
    <2> QED BY <2>1, <1>2, <1>3 DEF OwnersMatch
  <1>6. NestingEnds'
    BY <1>2 DEF InForest, NestingEnds, Ranks
  <1> QED BY <1>5, <1>6

LEMMA NestingInvariance == ForestSpec => []InForest
  <1>1. ForestInit => InForest
    BY ForestInitially
  <1>2. InForest /\ [ForestNext]_forestVars => OwnersMatch' /\ NestingEnds'
    <2> SUFFICES ASSUME InForest, [ForestNext]_forestVars PROVE OwnersMatch' /\ NestingEnds'
      OBVIOUS
    <2>1. ASSUME NEW context \in Contexts, AddBoolean(context) PROVE OwnersMatch' /\ NestingEnds'
      BY <2>1, AddBooleanNests
    <2>2. ASSUME NEW branches \in Seq(DOMAIN booleans), NEW kind \in Kinds, NEW parent \in Contexts,
                 RegisterDisjunction(branches, kind, parent)
          PROVE  OwnersMatch' /\ NestingEnds'
      BY <2>2, RegisterDisjunctionNests
    <2>3. UNCHANGED <<booleans, disjunctions>> => OwnersMatch' /\ NestingEnds'
      BY DEF InForest, OwnersMatch, NestingEnds, Ranks, BranchSet
    <2>4. ASSUME NEW indicator, NEW body, NEW lower, NEW upper,
                 RegisterRow(indicator, body, lower, upper)
          PROVE  OwnersMatch' /\ NestingEnds'
      BY <2>3, <2>4 DEF RegisterRow
    <2>5. ASSUME NEW parent, NEW expression, RegisterLogic(expression, parent)
          PROVE  OwnersMatch' /\ NestingEnds'
      BY <2>3, <2>5 DEF RegisterLogic
    <2>6. CASE HasPending /\ Finish
      BY <2>6, FinishNests
    <2>7. CASE UNCHANGED forestVars
      BY <2>3, <2>7 DEF forestVars, forest
    <2> QED BY <2>1, <2>2, <2>4, <2>5, <2>6, <2>7 DEF ForestNext
  <1> QED BY <1>1, <1>2, ForestInvariance, PTL DEF ForestSpec, InForest

(* A Boolean belongs to at most one disjunction, and what it records of    *)
(* it (owner, parent) agrees with the disjunction's own record: the two    *)
(* sides that register_disjunction writes never part.                      *)
THEOREM OwnersAgree == ForestSpec => []OwnersMatch
  <1>1. InForest => OwnersMatch
    BY DEF InForest
  <1> QED BY <1>1, NestingInvariance, PTL

\* The disjuncts around a disjunct are a list that ends, and it is not among
\* those around itself.
DisjunctsNest ==
    \A b \in 1..Len(booleans) :
        /\ Ancestry[b] \in Seq(1..Len(booleans))
        /\ Ancestry[b] = <<b>> \o Ancestry[booleans[b].parent]
        /\ ~Within(booleans[b].parent, b)

LEMMA NestedDisjuncts == InForest => DisjunctsNest
  <1> SUFFICES ASSUME InForest, NEW b \in 1..Len(booleans)
               PROVE  /\ Ancestry[b] \in Seq(1..Len(booleans))
                      /\ Ancestry[b] = <<b>> \o Ancestry[booleans[b].parent]
                      /\ ~Within(booleans[b].parent, b)
    BY DEF DisjunctsNest
  <1>1. BooleansFit /\ NestingEnds /\ Len(booleans) \in Nat
    BY ListFacts DEF InForest, FInv, BooleansFit
  <1>2. b \in 0..Len(booleans) /\ b # 0
    BY <1>1
  <1>3. Ancestry[b] \in Seq(1..Len(booleans)) /\ Ancestry[b] = Around(Ancestry, b)
    BY <1>1, <1>2, AncestryIs
  <1>4. Around(Ancestry, b) = <<b>> \o Ancestry[booleans[b].parent]
    BY <1>2 DEF Around
  <1>5. ASSUME Within(booleans[b].parent, b)
        PROVE  FALSE
    <2>1. PICK p : p = booleans[b].parent
      OBVIOUS
    <2>2. p \in 0..Len(booleans)
      BY <2>1, <1>1 DEF BooleansFit
    <2>3. p # 0
      BY <1>1, <1>5, <2>1, <2>2, WithinIs
    <2>4. p \in 1..Len(booleans)
      BY <2>2, <2>3, <1>1
    <2>5. PICK k \in Nat : \E rank \in [1..Len(booleans) -> 0..k] : Ranks(rank)
      BY <1>1 DEF NestingEnds
    <2>6. PICK rank \in [1..Len(booleans) -> 0..k] : Ranks(rank)
      BY <2>5
    <2>7. rank[b] <= rank[p]
      BY <1>1, <1>5, <2>1, <2>4, <2>6, WithinRises
    <2>8. rank[p] < rank[b]
      BY <2>1, <2>3, <2>6 DEF Ranks
    <2>9. rank[p] \in 0..k /\ rank[b] \in 0..k
      BY <2>4, <2>6
    <2> QED BY <2>5, <2>7, <2>8, <2>9
  <1> QED BY <1>3, <1>4, <1>5

(* The walk from a disjunct to the disjuncts around it ends in every       *)
(* reachable model, and never comes back to where it started: a new        *)
(* disjunction is refused inside its own disjuncts (the loop over          *)
(* ancestors in register_disjunction, on which every later walk relies).   *)
THEOREM NestingIsFinite == ForestSpec => []DisjunctsNest
  BY NestedDisjuncts, NestingInvariance, PTL

=============================================================================
