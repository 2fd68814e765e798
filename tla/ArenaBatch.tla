----------------------------- MODULE ArenaBatch -----------------------------
(***************************************************************************)
(* ExprArenaCell (crates/oximo-expr/src/arena.rs) and the indexed builders *)
(* that construct a family of constraints on it in parallel                *)
(* (crates/oximo-core/src/model/indexed.rs).                               *)
(*                                                                         *)
(* The cell is an arena behind a mutex, and a word of two bits that is     *)
(* read before the mutex is taken.  BATCH_ACTIVE sends the expression      *)
(* operations of a worker to the private fork on its thread and rejects    *)
(* every other access; WRITE_GUARD_ACTIVE makes a thread look for the      *)
(* guard it may itself hold.  A builder holds the mutex for the whole      *)
(* batch, the workers of the thread pool evaluate the rule on chunks of    *)
(* keys, each in a fork of one snapshot, and merge appends the forks in    *)
(* key order with their identifiers moved.                                 *)
(*                                                                         *)
(* Identifiers count from 1 here and from 0 in the code.  The rule of a    *)
(* key pushes two nodes, one over a node of the arena and one over both.   *)
(* A rule stays on its thread: one that yields to the thread pool is       *)
(* outside the model.                                                      *)
(***************************************************************************)
EXTENDS Integers, Sequences, FiniteSets

CONSTANTS
    Outsiders,   \* threads that build expressions and start batches
    Workers,     \* threads of the pool that runs par_chunks
    NKeys,       \* keys of an indexed family
    ChunkSize,   \* keys a worker takes at a time
    MaxCalls     \* bound: calls an outsider makes

ASSUME ThreadAssumption == Outsiders \cap Workers = {}
ASSUME SizeAssumption == NKeys \in Nat \ {0} /\ ChunkSize \in Nat \ {0} /\ MaxCalls \in Nat

VARIABLES
    nodes,      \* inner: the nodes of the canonical arena
    param,      \* inner: the value of a parameter
    batchBit,   \* state: BATCH_ACTIVE
    writeBit,   \* state: WRITE_GUARD_ACTIVE
    owner,      \* the thread that holds the mutex, a set of at most one
    guard,      \* per thread: the guard it holds
    call,       \* per thread: the operation it is in, and where
    fork,       \* per thread: the chunk its ACTIVE_FORKS entry is for, or 0
    status,     \* per chunk of keys: how far its worker is
    snapshot,   \* the frozen arena the forks of the batch were made from
    local,      \* per chunk of keys: the nodes pushed to its fork
    handles,    \* history: identifiers given out, and the terms they stand for
    calls       \* bound: calls made so far

vars == <<nodes, param, batchBit, writeBit, owner, guard, call, fork,
          status, snapshot, local, handles, calls>>
batchVars == <<status, snapshot, local>>

Threads == Outsiders \cup Workers
Ops == {"borrow", "borrow_mut", "with_ref", "with_mut", "begin"}
Idle == [at |-> "none", op |-> "none"]
In(t, place) == call[t].at = place

NChunks == (NKeys + ChunkSize - 1) \div ChunkSize
ChunkIds == 1..NChunks
ChunkKeys(c) == {k \in 1..NKeys : (k - 1) \div ChunkSize + 1 = c}
FirstKey(c) == (c - 1) * ChunkSize + 1

-----------------------------------------------------------------------------
(* Expressions.                                                            *)

Variable == 1
Node(op, of, children) == [op |-> op, of |-> of, children |-> children]
FirstArena == <<Node("Var", 0, <<>>)>>

\* The j-th node (0 or 1) that the rule of key k pushes, when push returns id.
RuleNode(k, j, id) ==
    IF j = 0 THEN Node("Unary", k, <<Variable>>)
             ELSE Node("Add", k, <<Variable, id - 1>>)

\* The term below each node: a child precedes its parent.
Terms(ns) ==
    LET T[i \in DOMAIN ns] ==
            <<ns[i].op, ns[i].of, [j \in DOMAIN ns[i].children |-> T[ns[i].children[j]]]>>
    IN T

VariableTerm == <<"Var", 0, <<>>>>
OwnTerm(t) == <<"Unary", t, <<VariableTerm>>>>
KeyTerm(k) == <<"Add", k, <<VariableTerm, <<"Unary", k, <<VariableTerm>>>>>>>>

Handle(id, term) == [id |-> id, term |-> term]

-----------------------------------------------------------------------------
(* Forks and their merge.                                                  *)

NoSnapshot == [nodes |-> <<>>, param |-> 0]
LocalBase == Len(snapshot.nodes)

\* Fault: the last node of the snapshot counts as one of the fork's own.
ApplyFromBase(id, localBase, globalBase) ==
    IF id < localBase THEN id ELSE globalBase + (id - localBase)

\* ExprIdRemap::apply.
Apply(id, localBase, globalBase) ==
    IF id <= localBase THEN id ELSE globalBase + (id - localBase)

\* remap_node.
RemapNode(n, localBase, globalBase) ==
    [n EXCEPT !.children =
        [j \in DOMAIN n.children |-> Apply(n.children[j], localBase, globalBase)]]

\* Fault: every fork is merged as if it were the first.
RemappedAtBase(c, globalBase) ==
    [i \in DOMAIN local[c] |-> RemapNode(local[c][i], LocalBase, LocalBase)]

Remapped(c, globalBase) ==
    [i \in DOMAIN local[c] |-> RemapNode(local[c][i], LocalBase, globalBase)]

\* merge: the arena after the first c forks; its length is the next global base.
MergedUpTo ==
    LET A[c \in 0..NChunks] ==
            IF c = 0 THEN nodes ELSE A[c - 1] \o Remapped(c, Len(A[c - 1]))
    IN A

\* The roots the rule returned in chunk c, moved to the canonical arena.
MergedRoots(c) ==
    {LET root == LocalBase + 2 * (k - FirstKey(c) + 1)
     IN Handle(Apply(root, LocalBase, Len(MergedUpTo[c - 1])), KeyTerm(k)) : k \in ChunkKeys(c)}

Current == snapshot = [nodes |-> nodes, param |-> param]
Validated(c) ==
    \A i \in DOMAIN local[c] : \A j \in DOMAIN local[c][i].children :
        local[c][i].children[j] <= LocalBase + Len(local[c])

\* The builders without a pool: the rule of every key in order, on the arena.
Sequential(ns) ==
    ns \o [i \in 1..2 * NKeys |-> RuleNode((i - 1) \div 2 + 1, (i - 1) % 2, Len(ns) + i)]

-----------------------------------------------------------------------------
(* Entering the cell: the word is read, then the mutex is taken.           *)

InFork(t) == fork[t] # 0
DuringBatch(op) == batchBit /\ op # "begin"

\* assert_no_write_reentry fails.
ReentersWrite(t) == writeBit /\ guard[t] = "write"

\* with_ref and with_mut find a fork of this arena on their thread.
Routed(t, op) == DuringBatch(op) /\ op \in {"with_ref", "with_mut"} /\ InFork(t)

\* Fault: a batch starts without the check.
RejectedUnlessBegin(t, op) ==
    \/ DuringBatch(op) /\ ~Routed(t, op)
    \/ ~batchBit /\ op # "begin" /\ ReentersWrite(t)

\* The call panics after its load of the word.
Rejected(t, op) ==
    \/ DuringBatch(op) /\ ~Routed(t, op)
    \/ ~DuringBatch(op) /\ ReentersWrite(t)

Enter(t, op) == call' = [call EXCEPT ![t] = [at |-> IF op = "begin" THEN "fetch" ELSE "lock", op |-> op]]
Return(t) == call' = [call EXCEPT ![t] = Idle]

\* Fault: a panicking rule leaves its fork on the thread.
UnwindLeaving(w) ==
    /\ status' = [status EXCEPT ![fork[w]] = "panicked"]
    /\ UNCHANGED fork

\* InstalledFork::drop: a panicking rule ends its chunk and the routing.
Unwind(w) ==
    /\ status' = [status EXCEPT ![fork[w]] = "panicked"]
    /\ fork' = [fork EXCEPT ![w] = 0]

Panic(t) == IF InFork(t) THEN Unwind(t) ELSE UNCHANGED <<fork, status>>

\* An outsider may call while it holds a guard, but not from a drop.  When the
\* call panics its guards stay, to be dropped by unwinding or later.
OutsiderCall(t, op) ==
    /\ calls[t] < MaxCalls /\ In(t, "none") /\ guard[t] # "closing" /\ ~InFork(t)
    /\ calls' = [calls EXCEPT ![t] = @ + 1]
    /\ \/ Rejected(t, op) /\ UNCHANGED call
       \/ ~Rejected(t, op) /\ Enter(t, op)
    /\ UNCHANGED <<nodes, param, batchBit, writeBit, owner, guard, fork, batchVars, handles>>

\* The rule pushes the next node of its chunk.
NextNode(w) ==
    LET n == Len(local[fork[w]])
    IN RuleNode(FirstKey(fork[w]) + n \div 2, n % 2, LocalBase + n + 1)
Complete(w) == Len(local[fork[w]]) = 2 * Cardinality(ChunkKeys(fork[w]))
Push(w) == local' = [local EXCEPT ![fork[w]] = Append(@, NextNode(w))]

\* A rule calls the cell: with_mut as it should, or anything else.
RuleCall(w, op) ==
    /\ InFork(w) /\ In(w, "none") /\ (op = "with_mut" => ~Complete(w))
    /\ \/ Routed(w, op) /\ op = "with_mut" /\ Push(w) /\ UNCHANGED <<call, fork, status>>
       \/ Rejected(w, op) /\ Unwind(w) /\ UNCHANGED <<call, local>>
       \/ ~Routed(w, op) /\ ~Rejected(w, op) /\ Enter(w, op) /\ UNCHANGED <<fork, status, local>>
    /\ UNCHANGED <<nodes, param, batchBit, writeBit, owner, guard, snapshot, handles, calls>>

\* The rule fails for a reason of its own.
RulePanics(w) ==
    /\ InFork(w) /\ In(w, "none") /\ Unwind(w)
    /\ UNCHANGED <<nodes, param, batchBit, writeBit, owner, guard, call, snapshot, local, handles, calls>>

\* __begin_batch: fetch_or, then the assertion that no batch was active.
FetchOr(t) ==
    /\ In(t, "fetch") /\ batchBit' = TRUE
    /\ \/ batchBit /\ Return(t) /\ Panic(t)
       \/ ~batchBit /\ call' = [call EXCEPT ![t].at = "lock"] /\ UNCHANGED <<fork, status>>
    /\ UNCHANGED <<nodes, param, writeBit, owner, guard, snapshot, local, handles, calls>>

-----------------------------------------------------------------------------
(* Holding the mutex.                                                      *)

PushOwn(t) ==
    /\ nodes' = Append(nodes, Node("Unary", t, <<Variable>>))
    /\ handles' = handles \cup {Handle(Len(nodes) + 1, OwnTerm(t))}

\* borrow, with_ref and with_mut hold the mutex for one access.
AcquireAndRelease(t) ==
    /\ In(t, "lock") /\ owner = {} /\ call[t].op \in {"borrow", "with_ref", "with_mut"}
    /\ IF call[t].op = "with_mut" THEN PushOwn(t) ELSE UNCHANGED <<nodes, handles>>
    /\ Return(t)
    /\ UNCHANGED <<param, batchBit, writeBit, owner, guard, fork, batchVars, calls>>

AcquireToWrite(t) ==
    /\ In(t, "lock") /\ owner = {} /\ call[t].op = "borrow_mut"
    /\ owner' = {t}
    /\ call' = [call EXCEPT ![t].at = "bit"]
    /\ UNCHANGED <<nodes, param, batchBit, writeBit, guard, fork, batchVars, handles, calls>>

\* snapshot, and the chunks that par_chunks makes of the keys.
TakeSnapshot ==
    /\ snapshot' = [nodes |-> nodes, param |-> param]
    /\ status' = [c \in ChunkIds |-> "todo"]
    /\ local' = [c \in ChunkIds |-> <<>>]

\* Fault: the batch does not take the mutex.
AcquireToBatchUnlocked(t) ==
    /\ In(t, "lock") /\ call[t].op = "begin"
    /\ guard' = [guard EXCEPT ![t] = "batch"]
    /\ TakeSnapshot
    /\ Return(t)
    /\ UNCHANGED <<nodes, param, batchBit, writeBit, owner, fork, handles, calls>>

\* The batch guard, and what the builder does first.
AcquireToBatch(t) ==
    /\ In(t, "lock") /\ owner = {} /\ call[t].op = "begin"
    /\ owner' = {t}
    /\ guard' = [guard EXCEPT ![t] = "batch"]
    /\ TakeSnapshot
    /\ Return(t)
    /\ UNCHANGED <<nodes, param, batchBit, writeBit, fork, handles, calls>>

SetWriteBit(t) ==
    /\ In(t, "bit") /\ writeBit' = TRUE
    /\ guard' = [guard EXCEPT ![t] = "write"]
    /\ Return(t)
    /\ UNCHANGED <<nodes, param, batchBit, owner, fork, batchVars, handles, calls>>

\* push and set_param_value through the write guard.
WriteThroughGuard(t) ==
    /\ guard[t] = "write" /\ In(t, "none") /\ calls[t] < MaxCalls
    /\ calls' = [calls EXCEPT ![t] = @ + 1]
    /\ \/ PushOwn(t) /\ UNCHANGED param
       \/ param' = 1 - param /\ UNCHANGED <<nodes, handles>>
    /\ UNCHANGED <<batchBit, writeBit, owner, guard, call, fork, batchVars>>

\* Fault: the word is stored, and a bit another thread has set is lost.
DropWriteGuardStoring(t) ==
    /\ guard[t] = "write" /\ In(t, "none")
    /\ writeBit' = FALSE /\ batchBit' = FALSE
    /\ guard' = [guard EXCEPT ![t] = "closing"]
    /\ UNCHANGED <<nodes, param, owner, call, fork, batchVars, handles, calls>>

\* The drops clear the bit first; the mutex is released after.
DropWriteGuard(t) ==
    /\ guard[t] = "write" /\ In(t, "none")
    /\ writeBit' = FALSE
    /\ guard' = [guard EXCEPT ![t] = "closing"]
    /\ UNCHANGED <<nodes, param, batchBit, owner, call, fork, batchVars, handles, calls>>

Unlock(t) ==
    /\ guard[t] = "closing"
    /\ owner' = {}
    /\ guard' = [guard EXCEPT ![t] = "none"]
    /\ UNCHANGED <<nodes, param, batchBit, writeBit, call, fork, batchVars, handles, calls>>

-----------------------------------------------------------------------------
(* The batch.                                                              *)

\* __with_fork on a thread of the pool or, in a small family, on the builder.
StartChunk(w, c) ==
    /\ w \in Workers \/ guard[w] = "batch"
    /\ ~InFork(w) /\ In(w, "none") /\ status[c] = "todo"
    /\ fork' = [fork EXCEPT ![w] = c]
    /\ status' = [status EXCEPT ![c] = "running"]
    /\ UNCHANGED <<nodes, param, batchBit, writeBit, owner, guard, call, snapshot, local, handles, calls>>

FinishChunk(w) ==
    /\ InFork(w) /\ In(w, "none") /\ Complete(w)
    /\ fork' = [fork EXCEPT ![w] = 0]
    /\ status' = [status EXCEPT ![fork[w]] = "done"]
    /\ UNCHANGED <<nodes, param, batchBit, writeBit, owner, guard, call, snapshot, local, handles, calls>>

AllDone == \A c \in ChunkIds : status[c] = "done"
Merged == \A c \in ChunkIds : status[c] = "merged"

\* merge: every fork is checked before the first is appended.
Merge(t) ==
    /\ guard[t] = "batch" /\ In(t, "none") /\ AllDone
    /\ Current /\ \A c \in ChunkIds : Validated(c)
    /\ nodes' = MergedUpTo[NChunks]
    /\ handles' = handles \cup UNION {MergedRoots(c) : c \in ChunkIds}
    /\ status' = [c \in ChunkIds |-> "merged"]
    /\ snapshot' = NoSnapshot /\ local' = [c \in ChunkIds |-> <<>>]
    /\ UNCHANGED <<param, batchBit, writeBit, owner, guard, call, fork, calls>>

\* Fault: a batch whose rule panicked is not released.
JoinedUnlessPanicked ==
    \A c \in ChunkIds : status[c] \in {"done", "merged"}

\* par_chunks has joined: a chunk that panicked leaves others not started.
Joined ==
    /\ \A c \in ChunkIds : status[c] # "running"
    /\ \/ \A c \in ChunkIds : status[c] # "todo"
       \/ \E c \in ChunkIds : status[c] = "panicked"

\* The guard is dropped after the merge, or without one when a rule, the check
\* of names or the merge itself panics.
DropBatchGuard(t) ==
    /\ guard[t] = "batch" /\ In(t, "none") /\ Joined
    /\ batchBit' = FALSE
    /\ guard' = [guard EXCEPT ![t] = "closing"]
    /\ status' = [c \in ChunkIds |-> "idle"]
    /\ snapshot' = NoSnapshot /\ local' = [c \in ChunkIds |-> <<>>]
    /\ UNCHANGED <<nodes, param, writeBit, owner, call, fork, handles, calls>>

-----------------------------------------------------------------------------
Init ==
    /\ nodes = FirstArena /\ param = 0
    /\ batchBit = FALSE /\ writeBit = FALSE /\ owner = {}
    /\ guard = [t \in Threads |-> "none"]
    /\ call = [t \in Threads |-> Idle]
    /\ fork = [t \in Threads |-> 0]
    /\ status = [c \in ChunkIds |-> "idle"]
    /\ snapshot = NoSnapshot /\ local = [c \in ChunkIds |-> <<>>]
    /\ handles = {Handle(Variable, VariableTerm)}
    /\ calls = [t \in Outsiders |-> 0]

Acquire(t) == AcquireAndRelease(t) \/ AcquireToWrite(t) \/ AcquireToBatch(t)
Release(t) == DropWriteGuard(t) \/ Merge(t) \/ DropBatchGuard(t) \/ Unlock(t)

Next ==
    \/ \E t \in Outsiders : WriteThroughGuard(t) \/ \E op \in Ops : OutsiderCall(t, op)
    \/ \E t \in Threads : \/ FetchOr(t) \/ Acquire(t) \/ SetWriteBit(t) \/ Release(t)
                          \/ \E op \in Ops : RuleCall(t, op)
                          \/ RulePanics(t) \/ FinishChunk(t)
                          \/ \E c \in ChunkIds : StartChunk(t, c)

Spec == Init /\ [][Next]_vars

\* Threads run, guards are dropped and rules end; parking_lot hands a contended
\* mutex over in the end, to every thread that waits.
FairSpec ==
    /\ Spec
    /\ \A t \in Outsiders : SF_vars(Acquire(t)) /\ WF_vars(SetWriteBit(t)) /\ WF_vars(Release(t))
    /\ \A t \in Threads : WF_vars(FetchOr(t)) /\ WF_vars(RuleCall(t, "with_mut") \/ FinishChunk(t))
    /\ \A w \in Workers : WF_vars(\E c \in ChunkIds : StartChunk(w, c))

-----------------------------------------------------------------------------
(* Properties.                                                             *)

Statuses == {"idle", "todo", "running", "done", "panicked", "merged"}
NodeType == [op : {"Var", "Unary", "Add"}, of : {0} \cup 1..NKeys \cup Outsiders \cup Workers,
             children : Seq(Nat)]
ArenaType == [nodes : Seq(NodeType), param : {0, 1}]
CallType == [at : {"none", "fetch", "lock", "bit"}, op : Ops \cup {"none"}]

\* The mutex has an owner exactly when a guard or a call holds it, the bits are
\* set exactly while a batch or a write guard is in force, and the forks on the
\* workers are those of running chunks, one worker each.
TypeOK ==
    /\ nodes \in Seq(NodeType) /\ param \in {0, 1}
    /\ batchBit \in BOOLEAN /\ writeBit \in BOOLEAN
    /\ owner \subseteq Threads
    /\ guard \in [Threads -> {"none", "write", "batch", "closing"}]
    /\ call \in [Threads -> CallType]
    /\ fork \in [Threads -> 0..NChunks]
    /\ status \in [ChunkIds -> Statuses]
    /\ snapshot \in ArenaType /\ local \in [ChunkIds -> Seq(NodeType)]
    /\ calls \in [Outsiders -> 0..MaxCalls]
    /\ \A h \in handles : h.id \in 1..Len(nodes)

Holds(t) == guard[t] # "none" \/ In(t, "bit")
Batching(t) == guard[t] = "batch" \/ (In(t, "lock") /\ call[t].op = "begin")
BitsMatchGuards ==
    /\ \A t \in Threads : Holds(t) <=> t \in owner
    /\ \A t, s \in owner : t = s
    /\ batchBit <=> \E t \in Threads : Batching(t)
    /\ \A t, s \in Threads : Batching(t) /\ Batching(s) => t = s
    /\ writeBit <=> \E t \in Threads : guard[t] = "write"

\* A thread that waits for the mutex holds neither the mutex nor a fork, so no
\* thread waits for itself and no batch for a worker that waits for the batch:
\* what the two bits and the lists of forks and guards of a thread are for.
WaitersHoldNothing ==
    \A t \in Threads : In(t, "lock") => t \notin owner /\ ~InFork(t)

\* A fork on a thread belongs to a running chunk of a batch in force, and no
\* chunk runs twice: routing ends with the rule, also when it panics.
RoutingEndsWithRule ==
    \A t \in Threads : InFork(t) =>
        /\ status[fork[t]] = "running" /\ \E s \in Threads : guard[s] = "batch"
        /\ \A s \in Threads \ {t} : fork[s] # fork[t]

\* Nothing is written to the arena between the snapshot of a batch and its
\* merge, so merge never refuses a fork as stale.
ForksAreCurrent ==
    (\E c \in ChunkIds : status[c] \in {"todo", "running", "done"}) => Current

\* Every identifier given out denotes, then and ever after, the term its
\* builder meant, whether it pushed the node itself or merge moved it.
HandlesDenote ==
    LET terms == Terms(nodes) IN \A h \in handles : terms[h.id] = h.term

\* Whatever order the workers ran in, the merge leaves the arena that building
\* the keys one after another leaves.
ParallelMatchesSequential ==
    [][(AllDone /\ Merged') => nodes' = Sequential(nodes)]_vars

\* A call that waits returns and a batch ends, rules that panic included.
CallsAndBatchesEnd ==
    \A t \in Outsiders : (~In(t, "none") \/ guard[t] = "batch")
                           ~> (In(t, "none") /\ guard[t] # "batch")

\* An access to the arena while a batch holds it is rejected and never waits
\* for the batch, as ExprArenaCell::borrow says of snapshots and __with_fork of
\* every access from another thread.
AccessRejectedDuringBatch ==
    \A t, s \in Threads : guard[s] = "batch" => ~In(t, "lock")
=============================================================================
