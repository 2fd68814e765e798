-------------------------- MODULE ArenaBatchProofs --------------------------
(***************************************************************************)
(* What the two bits, the mutex and the lists of forks guarantee, for any  *)
(* number of threads, workers and keys, and that the merge of the forks    *)
(* gives the arena, and every identifier the term, that building the keys  *)
(* one after another gives.                                                *)
(***************************************************************************)
EXTENDS ArenaBatch, Queues

ControlType ==
    /\ batchBit \in BOOLEAN /\ writeBit \in BOOLEAN
    /\ owner \subseteq Threads
    /\ guard \in [Threads -> {"none", "write", "batch", "closing"}]
    /\ call \in [Threads -> CallType]
    /\ fork \in [Threads -> 0..NChunks]
    /\ status \in [ChunkIds -> Statuses]

\* Where a call may be, given what its thread holds: a thread with a write
\* guard never gets past its load of the word, one with a batch or a fork gets
\* only as far as fetch_or, which refuses it.
CallsFitGuards ==
    \A t \in Threads :
        /\ In(t, "fetch") => call[t].op = "begin" /\ guard[t] \in {"none", "batch"}
        /\ In(t, "lock") => guard[t] = "none" /\ ~InFork(t)
        /\ In(t, "bit") => guard[t] = "none"

\* A chunk that is not yet merged or given up belongs to a batch in force, and
\* was cut from the arena as it is.
ChunksAreLive ==
    \A c \in ChunkIds : status[c] \in {"todo", "running", "done"} =>
        Current /\ \E t \in Threads : guard[t] = "batch"

IInv ==
    /\ ControlType
    /\ CallsFitGuards
    /\ BitsMatchGuards
    /\ RoutingEndsWithRule
    /\ ChunksAreLive

-----------------------------------------------------------------------------
\* There is a number of chunks.
LEMMA ChunkCount == NChunks \in Nat
  <1>1. NKeys + ChunkSize - 1 \in Nat /\ ChunkSize \in Nat \ {0}
    BY SizeAssumption
  <1>2. \A n \in Nat, d \in Nat \ {0} : n \div d \in Nat
    OBVIOUS
  <1>3. QED
    BY <1>1, <1>2 DEF NChunks

\* A fork is for a chunk.
LEMMA ForkIsChunk ==
    ASSUME ControlType, NEW t \in Threads, InFork(t)
    PROVE  fork[t] \in ChunkIds
  BY DEF ControlType, InFork, ChunkIds

\* While a thread has a fork or the batch guard, the bit is set.
LEMMA BatchSetsBit ==
    ASSUME IInv, NEW t \in Threads, InFork(t) \/ guard[t] = "batch"
    PROVE  batchBit
  BY DEF IInv, RoutingEndsWithRule, BitsMatchGuards, Batching

\* One thread holds the mutex at a time.
LEMMA OneHolder ==
    ASSUME IInv, NEW t \in Threads, NEW s \in Threads, Holds(t), Holds(s)
    PROVE  t = s /\ owner = {t}
  BY DEF IInv, BitsMatchGuards, ControlType

\* The control state starts idle.
LEMMA InitIInv == Init => IInv
  <1> SUFFICES ASSUME Init PROVE IInv
    OBVIOUS
  <1>1. ControlType
    <2>1. 0 \in 0..NChunks
      BY ChunkCount
    <2>2. QED
      BY <2>1 DEF Init, ControlType, CallType, Idle, Statuses
  <1>2. CallsFitGuards
    BY DEF Init, CallsFitGuards, In, Idle
  <1>3. BitsMatchGuards
    BY DEF Init, BitsMatchGuards, Holds, Batching, In, Idle
  <1>4. RoutingEndsWithRule
    BY DEF Init, RoutingEndsWithRule, InFork
  <1>5. ChunksAreLive
    BY DEF Init, ChunksAreLive
  <1>6. QED
    BY <1>1, <1>2, <1>3, <1>4, <1>5 DEF IInv

\* A call that passes its checks leaves for fetch_or or the mutex.
LEMMA OutsiderCallKeeps ==
    ASSUME IInv, NEW t \in Outsiders, NEW op \in Ops, OutsiderCall(t, op)
    PROVE  IInv'
  <1> USE DEF OutsiderCall, Enter, Rejected, Routed, DuringBatch, ReentersWrite, batchVars
  <1>1. t \in Threads
    BY DEF Threads
  <1>2. ControlType'
    BY <1>1, ForkIsChunk, ChunkCount
       DEF IInv, ControlType, CallType, Idle, In, InFork, Statuses, Ops, ChunkIds
  <1>3. CallsFitGuards'
    BY <1>1, <1>2, BatchSetsBit, ForkIsChunk
       DEF IInv, ControlType, CallsFitGuards, BitsMatchGuards, Batching, CallType, Idle, In, InFork, Ops
  <1>4. BitsMatchGuards'
    <2>1. \A s \in Threads : (Batching(s)' <=> Batching(s)) /\ (Holds(s)' <=> Holds(s))
      BY <1>1, BatchSetsBit, ForkIsChunk
         DEF IInv, ControlType, CallsFitGuards, Holds, Batching, Idle, In, InFork
    <2>2. UNCHANGED <<batchBit, writeBit, owner, guard>>
      BY BatchSetsBit DEF IInv, ControlType
    <2>3. QED
      BY <2>1, <2>2 DEF IInv, BitsMatchGuards
  <1>5. RoutingEndsWithRule'
    BY <1>1, <1>2, ForkIsChunk
       DEF IInv, ControlType, CallsFitGuards, RoutingEndsWithRule, In, InFork, ChunkIds
  <1>6. ChunksAreLive'
    BY <1>1, <1>2, OneHolder, ForkIsChunk
       DEF IInv, ControlType, CallsFitGuards, ChunksAreLive, Current, Holds, In, InFork
  <1>7. QED
    BY <1>2, <1>3, <1>4, <1>5, <1>6 DEF IInv

\* A rule reaches its own fork, fetch_or, or unwinds.
LEMMA RuleCallKeeps ==
    ASSUME IInv, NEW t \in Threads, NEW op \in Ops, RuleCall(t, op)
    PROVE  IInv'
  <1> USE DEF RuleCall, Enter, Rejected, Routed, DuringBatch, ReentersWrite, Push, Unwind, batchVars
  <1>1. t \in Threads
    BY DEF Threads
  <1>2. ControlType'
    <2>1. call' \in [Threads -> CallType]
      BY <1>1 DEF IInv, ControlType, CallType, Idle, In, Ops
    <2>2. fork' \in [Threads -> 0..NChunks] /\ status' \in [ChunkIds -> Statuses]
      BY <1>1, ForkIsChunk, ChunkCount DEF IInv, ControlType, Statuses
    <2>3. QED
      BY <2>1, <2>2 DEF IInv, ControlType
  <1>3. CallsFitGuards'
    <2>1. batchBit /\ guard[t] \in {"none", "batch"}
      BY <1>1, BatchSetsBit, OneHolder
         DEF IInv, ControlType, RoutingEndsWithRule, Holds, InFork
    <2>2. CASE op = "begin"
      BY <1>1, <2>1, <2>2 DEF IInv, ControlType, CallsFitGuards, CallType, In, InFork
    <2>3. CASE op # "begin"
      <3>1. UNCHANGED <<call, guard>>
        BY <2>1, <2>3 DEF IInv
      <3>2. \A s \in Threads : InFork(s)' => InFork(s)
        BY <1>1, <2>1, <2>3, ForkIsChunk DEF IInv, ControlType, InFork
      <3>3. QED
        BY <3>1, <3>2 DEF IInv, CallsFitGuards, In
    <2>4. QED
      BY <2>2, <2>3
  <1>4. BitsMatchGuards'
    <2>1. \A s \in Threads : (Batching(s)' <=> Batching(s)) /\ (Holds(s)' <=> Holds(s))
      <3>1. batchBit /\ UNCHANGED guard
        BY <1>1, BatchSetsBit
      <3>2. CASE op = "begin"
        <4>1. /\ call' = call \/ call' = [call EXCEPT ![t] = [at |-> "fetch", op |-> "begin"]]
              /\ call[t].at = "none"
          BY <3>1, <3>2 DEF In
        <4>2. call' \in [Threads -> CallType] /\ call \in [Threads -> CallType]
          BY <1>2 DEF IInv, ControlType
        <4>3. \A s \in Threads \ {t} : call'[s] = call[s]
          BY ONLY <4>1, <4>2
        <4>4. call'[t] = call[t] \/ call'[t].at = "fetch"
          BY ONLY <1>1, <4>1, <4>2
        <4>5. \A s \in Threads : call'[s] = call[s] \/ (call'[s].at = "fetch" /\ call[s].at = "none")
          BY ONLY <4>1, <4>3, <4>4
        <4>6. \A s \in Threads : (Batching(s)' <=> Batching(s)) /\ (Holds(s)' <=> Holds(s))
          <5> SUFFICES ASSUME NEW s \in Threads
                       PROVE  (Batching(s)' <=> Batching(s)) /\ (Holds(s)' <=> Holds(s))
            OBVIOUS
          <5>1. CASE call'[s] = call[s]
            BY ONLY <3>1, <5>1 DEF Holds, Batching, In
          <5>2. CASE call'[s].at = "fetch" /\ call[s].at = "none"
            BY ONLY <3>1, <5>2 DEF Holds, Batching, In
          <5>3. QED
            BY <4>5, <5>1, <5>2
        <4>7. QED
          BY <4>6
      <3>3. CASE op # "begin"
        <4>1. UNCHANGED call
          BY <3>1, <3>3
        <4>2. QED
          BY <3>1, <4>1 DEF Holds, Batching, In
      <3>4. QED
        BY <3>2, <3>3
    <2>2. UNCHANGED <<batchBit, writeBit, owner, guard>>
      BY BatchSetsBit DEF IInv, ControlType
    <2>3. QED
      BY <2>1, <2>2 DEF IInv, BitsMatchGuards
  <1>5. RoutingEndsWithRule'
    BY <1>1, <1>2, ForkIsChunk
       DEF IInv, ControlType, CallsFitGuards, RoutingEndsWithRule, In, InFork, ChunkIds
  <1>6. ChunksAreLive'
    BY <1>1, <1>2, OneHolder, ForkIsChunk
       DEF IInv, ControlType, CallsFitGuards, ChunksAreLive, Current, Holds, In, InFork
  <1>7. QED
    BY <1>2, <1>3, <1>4, <1>5, <1>6 DEF IInv

\* A failing rule takes its fork off the thread.
LEMMA RulePanicsKeeps ==
    ASSUME IInv, NEW t \in Threads, RulePanics(t)
    PROVE  IInv'
  <1> USE DEF RulePanics, Unwind, batchVars
  <1>1. t \in Threads
    BY DEF Threads
  <1>2. ControlType'
    BY <1>1, ForkIsChunk, ChunkCount
       DEF IInv, ControlType, CallType, Idle, In, InFork, Statuses, Ops, ChunkIds
  <1>3. CallsFitGuards'
    BY <1>1, <1>2, BatchSetsBit, ForkIsChunk
       DEF IInv, ControlType, CallsFitGuards, BitsMatchGuards, Batching, CallType, Idle, In, InFork, Ops
  <1>4. BitsMatchGuards'
    BY <1>1, <1>2, BatchSetsBit, OneHolder
       DEF IInv, ControlType, CallsFitGuards, BitsMatchGuards, Holds, Batching, CallType, Idle, In, InFork, Ops
  <1>5. RoutingEndsWithRule'
    BY <1>1, <1>2, ForkIsChunk
       DEF IInv, ControlType, CallsFitGuards, RoutingEndsWithRule, In, InFork, ChunkIds
  <1>6. ChunksAreLive'
    BY <1>1, <1>2, OneHolder, ForkIsChunk
       DEF IInv, ControlType, CallsFitGuards, ChunksAreLive, Current, Holds, In, InFork
  <1>7. QED
    BY <1>2, <1>3, <1>4, <1>5, <1>6 DEF IInv

\* fetch_or lets one thread through to the mutex.
LEMMA FetchOrKeeps ==
    ASSUME IInv, NEW t \in Threads, FetchOr(t)
    PROVE  IInv'
  <1> USE DEF FetchOr, Return, Panic, Unwind, batchVars
  <1>1. t \in Threads
    BY DEF Threads
  <1>2. ControlType'
    <2>1. call' \in [Threads -> CallType]
      BY <1>1 DEF IInv, ControlType, CallType, Idle, In, Ops
    <2>2. fork' \in [Threads -> 0..NChunks] /\ status' \in [ChunkIds -> Statuses]
      BY <1>1, ForkIsChunk, ChunkCount DEF IInv, ControlType, Statuses
    <2>3. QED
      BY <2>1, <2>2 DEF IInv, ControlType
  <1>3. CallsFitGuards'
    BY <1>1, <1>2, BatchSetsBit, ForkIsChunk
       DEF IInv, ControlType, CallsFitGuards, BitsMatchGuards, Batching, CallType, Idle, In, InFork, Ops
  <1>4. BitsMatchGuards'
    <2>1. CASE batchBit
      <3>1. \A s \in Threads : (Batching(s)' <=> Batching(s)) /\ (Holds(s)' <=> Holds(s))
        BY <1>1, <2>1 DEF IInv, ControlType, Holds, Batching, Idle, In
      <3>2. UNCHANGED <<batchBit, writeBit, owner, guard>>
        BY <2>1
      <3>3. QED
        BY <3>1, <3>2 DEF IInv, BitsMatchGuards
    <2>2. CASE ~batchBit
      <3>1. Batching(t)' /\ \A s \in Threads \ {t} : Batching(s)' <=> Batching(s)
        BY <1>1, <2>2 DEF IInv, ControlType, CallType, CallsFitGuards, Batching, In
      <3>2. \A s \in Threads : ~Batching(s) /\ (Holds(s)' <=> Holds(s))
        BY <1>1, <2>2 DEF IInv, ControlType, CallType, BitsMatchGuards, Holds, In
      <3>3. QED
        BY <1>1, <3>1, <3>2 DEF IInv, BitsMatchGuards
    <2>3. QED
      BY <2>1, <2>2
  <1>5. RoutingEndsWithRule'
    BY <1>1, <1>2, ForkIsChunk
       DEF IInv, ControlType, CallsFitGuards, RoutingEndsWithRule, In, InFork, ChunkIds
  <1>6. ChunksAreLive'
    BY <1>1, <1>2, OneHolder, ForkIsChunk
       DEF IInv, ControlType, CallsFitGuards, ChunksAreLive, Current, Holds, In, InFork
  <1>7. QED
    BY <1>2, <1>3, <1>4, <1>5, <1>6 DEF IInv

\* The mutex is free, so no batch is in force.
LEMMA AcquireAndReleaseKeeps ==
    ASSUME IInv, NEW t \in Threads, AcquireAndRelease(t)
    PROVE  IInv'
  <1> USE DEF AcquireAndRelease, Return, PushOwn, batchVars
  <1>1. t \in Threads
    BY DEF Threads
  <1>2. ControlType'
    BY <1>1, ForkIsChunk, ChunkCount
       DEF IInv, ControlType, CallType, Idle, In, InFork, Statuses, Ops, ChunkIds
  <1>3. CallsFitGuards'
    BY <1>1, <1>2, BatchSetsBit, ForkIsChunk
       DEF IInv, ControlType, CallsFitGuards, BitsMatchGuards, Batching, CallType, Idle, In, InFork, Ops
  <1>4. BitsMatchGuards'
    BY <1>1, <1>2, BatchSetsBit, OneHolder
       DEF IInv, ControlType, CallsFitGuards, BitsMatchGuards, Holds, Batching, CallType, Idle, In, InFork, Ops
  <1>5. RoutingEndsWithRule'
    BY <1>1, <1>2, ForkIsChunk
       DEF IInv, ControlType, CallsFitGuards, RoutingEndsWithRule, In, InFork, ChunkIds
  <1>6. ChunksAreLive'
    BY <1>1, <1>2, OneHolder, ForkIsChunk
       DEF IInv, ControlType, CallsFitGuards, ChunksAreLive, Current, Holds, In, InFork
  <1>7. QED
    BY <1>2, <1>3, <1>4, <1>5, <1>6 DEF IInv

\* The thread becomes the owner, its bit not yet set.
LEMMA AcquireToWriteKeeps ==
    ASSUME IInv, NEW t \in Threads, AcquireToWrite(t)
    PROVE  IInv'
  <1> USE DEF AcquireToWrite, batchVars
  <1>1. t \in Threads
    BY DEF Threads
  <1>2. ControlType'
    BY <1>1, ForkIsChunk, ChunkCount
       DEF IInv, ControlType, CallType, Idle, In, InFork, Statuses, Ops, ChunkIds
  <1>3. CallsFitGuards'
    BY <1>1, <1>2, BatchSetsBit, ForkIsChunk
       DEF IInv, ControlType, CallsFitGuards, BitsMatchGuards, Batching, CallType, Idle, In, InFork, Ops
  <1>4. BitsMatchGuards'
    BY <1>1, <1>2, BatchSetsBit, OneHolder
       DEF IInv, ControlType, CallsFitGuards, BitsMatchGuards, Holds, Batching, CallType, Idle, In, InFork, Ops
  <1>5. RoutingEndsWithRule'
    BY <1>1, <1>2, ForkIsChunk
       DEF IInv, ControlType, CallsFitGuards, RoutingEndsWithRule, In, InFork, ChunkIds
  <1>6. ChunksAreLive'
    BY <1>1, <1>2, OneHolder, ForkIsChunk
       DEF IInv, ControlType, CallsFitGuards, ChunksAreLive, Current, Holds, In, InFork
  <1>7. QED
    BY <1>2, <1>3, <1>4, <1>5, <1>6 DEF IInv

\* The batch takes the mutex and its snapshot in one.
LEMMA AcquireToBatchKeeps ==
    ASSUME IInv, NEW t \in Threads, AcquireToBatch(t)
    PROVE  IInv'
  <1> USE DEF AcquireToBatch, TakeSnapshot, Return, batchVars
  <1>1. t \in Threads
    BY DEF Threads
  <1>2. ControlType'
    BY <1>1, ForkIsChunk, ChunkCount
       DEF IInv, ControlType, CallType, Idle, In, InFork, Statuses, Ops, ChunkIds
  <1>3. CallsFitGuards'
    BY <1>1, <1>2, BatchSetsBit, ForkIsChunk
       DEF IInv, ControlType, CallsFitGuards, BitsMatchGuards, Batching, CallType, Idle, In, InFork, Ops
  <1>4. BitsMatchGuards'
    BY <1>1, <1>2, BatchSetsBit, OneHolder
       DEF IInv, ControlType, CallsFitGuards, BitsMatchGuards, Holds, Batching, CallType, Idle, In, InFork, Ops
  <1>5. RoutingEndsWithRule'
    <2>1. \A s \in Threads : ~Holds(s)
      BY DEF IInv, BitsMatchGuards
    <2>2. \A s \in Threads : ~InFork(s)
      BY <2>1 DEF IInv, RoutingEndsWithRule, Holds
    <2>3. QED
      BY <2>2 DEF RoutingEndsWithRule, InFork
  <1>6. ChunksAreLive'
    BY <1>1, <1>2, OneHolder, ForkIsChunk
       DEF IInv, ControlType, CallsFitGuards, ChunksAreLive, Current, Holds, In, InFork
  <1>7. QED
    BY <1>2, <1>3, <1>4, <1>5, <1>6 DEF IInv

\* The bit of a write guard is set by the owner.
LEMMA SetWriteBitKeeps ==
    ASSUME IInv, NEW t \in Threads, SetWriteBit(t)
    PROVE  IInv'
  <1> USE DEF SetWriteBit, Return, batchVars
  <1>1. t \in Threads
    BY DEF Threads
  <1>2. ControlType'
    BY <1>1, ForkIsChunk, ChunkCount
       DEF IInv, ControlType, CallType, Idle, In, InFork, Statuses, Ops, ChunkIds
  <1>3. CallsFitGuards'
    BY <1>1, <1>2, BatchSetsBit, ForkIsChunk
       DEF IInv, ControlType, CallsFitGuards, BitsMatchGuards, Batching, CallType, Idle, In, InFork, Ops
  <1>4. BitsMatchGuards'
    BY <1>1, <1>2, BatchSetsBit, OneHolder
       DEF IInv, ControlType, CallsFitGuards, BitsMatchGuards, Holds, Batching, CallType, Idle, In, InFork, Ops
  <1>5. RoutingEndsWithRule'
    BY <1>1, <1>2, ForkIsChunk
       DEF IInv, ControlType, CallsFitGuards, RoutingEndsWithRule, In, InFork, ChunkIds
  <1>6. ChunksAreLive'
    BY <1>1, <1>2, OneHolder, ForkIsChunk
       DEF IInv, ControlType, CallsFitGuards, ChunksAreLive, Current, Holds, In, InFork
  <1>7. QED
    BY <1>2, <1>3, <1>4, <1>5, <1>6 DEF IInv

\* A write guard excludes a batch.
LEMMA WriteThroughGuardKeeps ==
    ASSUME IInv, NEW t \in Outsiders, WriteThroughGuard(t)
    PROVE  IInv'
  <1> USE DEF WriteThroughGuard, PushOwn, batchVars
  <1>1. t \in Threads
    BY DEF Threads
  <1>2. ControlType'
    BY <1>1, ForkIsChunk, ChunkCount
       DEF IInv, ControlType, CallType, Idle, In, InFork, Statuses, Ops, ChunkIds
  <1>3. CallsFitGuards'
    BY <1>1, <1>2, BatchSetsBit, ForkIsChunk
       DEF IInv, ControlType, CallsFitGuards, BitsMatchGuards, Batching, CallType, Idle, In, InFork, Ops
  <1>4. BitsMatchGuards'
    BY <1>1, <1>2, BatchSetsBit, OneHolder
       DEF IInv, ControlType, CallsFitGuards, BitsMatchGuards, Holds, Batching, CallType, Idle, In, InFork, Ops
  <1>5. RoutingEndsWithRule'
    BY <1>1, <1>2, ForkIsChunk
       DEF IInv, ControlType, CallsFitGuards, RoutingEndsWithRule, In, InFork, ChunkIds
  <1>6. ChunksAreLive'
    BY <1>1, <1>2, OneHolder, ForkIsChunk
       DEF IInv, ControlType, CallsFitGuards, ChunksAreLive, Current, Holds, In, InFork
  <1>7. QED
    BY <1>2, <1>3, <1>4, <1>5, <1>6 DEF IInv

\* The bit is cleared by the only holder.
LEMMA DropWriteGuardKeeps ==
    ASSUME IInv, NEW t \in Threads, DropWriteGuard(t)
    PROVE  IInv'
  <1> USE DEF DropWriteGuard, batchVars
  <1>1. t \in Threads
    BY DEF Threads
  <1>2. ControlType'
    BY <1>1, ForkIsChunk, ChunkCount
       DEF IInv, ControlType, CallType, Idle, In, InFork, Statuses, Ops, ChunkIds
  <1>3. CallsFitGuards'
    BY <1>1, <1>2, BatchSetsBit, ForkIsChunk
       DEF IInv, ControlType, CallsFitGuards, BitsMatchGuards, Batching, CallType, Idle, In, InFork, Ops
  <1>4. BitsMatchGuards'
    BY <1>1, <1>2, BatchSetsBit, OneHolder
       DEF IInv, ControlType, CallsFitGuards, BitsMatchGuards, Holds, Batching, CallType, Idle, In, InFork, Ops
  <1>5. RoutingEndsWithRule'
    BY <1>1, <1>2, ForkIsChunk
       DEF IInv, ControlType, CallsFitGuards, RoutingEndsWithRule, In, InFork, ChunkIds
  <1>6. ChunksAreLive'
    BY <1>1, <1>2, OneHolder, ForkIsChunk
       DEF IInv, ControlType, CallsFitGuards, ChunksAreLive, Current, Holds, In, InFork
  <1>7. QED
    BY <1>2, <1>3, <1>4, <1>5, <1>6 DEF IInv

\* The mutex is released by its owner.
LEMMA UnlockKeeps ==
    ASSUME IInv, NEW t \in Threads, Unlock(t)
    PROVE  IInv'
  <1> USE DEF Unlock, batchVars
  <1>1. t \in Threads
    BY DEF Threads
  <1>2. ControlType'
    BY <1>1, ForkIsChunk, ChunkCount
       DEF IInv, ControlType, CallType, Idle, In, InFork, Statuses, Ops, ChunkIds
  <1>3. CallsFitGuards'
    BY <1>1, <1>2, BatchSetsBit, ForkIsChunk
       DEF IInv, ControlType, CallsFitGuards, BitsMatchGuards, Batching, CallType, Idle, In, InFork, Ops
  <1>4. BitsMatchGuards'
    BY <1>1, <1>2, BatchSetsBit, OneHolder
       DEF IInv, ControlType, CallsFitGuards, BitsMatchGuards, Holds, Batching, CallType, Idle, In, InFork, Ops
  <1>5. RoutingEndsWithRule'
    BY <1>1, <1>2, ForkIsChunk
       DEF IInv, ControlType, CallsFitGuards, RoutingEndsWithRule, In, InFork, ChunkIds
  <1>6. ChunksAreLive'
    BY <1>1, <1>2, OneHolder, ForkIsChunk
       DEF IInv, ControlType, CallsFitGuards, ChunksAreLive, Current, Holds, In, InFork
  <1>7. QED
    BY <1>2, <1>3, <1>4, <1>5, <1>6 DEF IInv

\* After the merge no chunk is live and no fork is left.
LEMMA MergeKeeps ==
    ASSUME IInv, NEW t \in Threads, Merge(t)
    PROVE  IInv'
  <1> USE DEF Merge, AllDone, batchVars
  <1>1. t \in Threads
    BY DEF Threads
  <1>2. ControlType'
    BY <1>1, ForkIsChunk, ChunkCount
       DEF IInv, ControlType, CallType, Idle, In, InFork, Statuses, Ops, ChunkIds
  <1>3. CallsFitGuards'
    BY <1>1, <1>2, BatchSetsBit, ForkIsChunk
       DEF IInv, ControlType, CallsFitGuards, BitsMatchGuards, Batching, CallType, Idle, In, InFork, Ops
  <1>4. BitsMatchGuards'
    BY <1>1, <1>2, BatchSetsBit, OneHolder
       DEF IInv, ControlType, CallsFitGuards, BitsMatchGuards, Holds, Batching, CallType, Idle, In, InFork, Ops
  <1>5. RoutingEndsWithRule'
    BY <1>1, <1>2, ForkIsChunk
       DEF IInv, ControlType, CallsFitGuards, RoutingEndsWithRule, In, InFork, ChunkIds
  <1>6. ChunksAreLive'
    BY <1>1, <1>2, OneHolder, ForkIsChunk
       DEF IInv, ControlType, CallsFitGuards, ChunksAreLive, Current, Holds, In, InFork
  <1>7. QED
    BY <1>2, <1>3, <1>4, <1>5, <1>6 DEF IInv

\* A batch that has joined leaves no fork behind.
LEMMA DropBatchGuardKeeps ==
    ASSUME IInv, NEW t \in Threads, DropBatchGuard(t)
    PROVE  IInv'
  <1> USE DEF DropBatchGuard, Joined, batchVars
  <1>1. t \in Threads
    BY DEF Threads
  <1>2. ControlType'
    BY <1>1, ForkIsChunk, ChunkCount
       DEF IInv, ControlType, CallType, Idle, In, InFork, Statuses, Ops, ChunkIds
  <1>3. CallsFitGuards'
    BY <1>1, <1>2, BatchSetsBit, ForkIsChunk
       DEF IInv, ControlType, CallsFitGuards, BitsMatchGuards, Batching, CallType, Idle, In, InFork, Ops
  <1>4. BitsMatchGuards'
    BY <1>1, <1>2, BatchSetsBit, OneHolder
       DEF IInv, ControlType, CallsFitGuards, BitsMatchGuards, Holds, Batching, CallType, Idle, In, InFork, Ops
  <1>5. RoutingEndsWithRule'
    BY <1>1, <1>2, ForkIsChunk
       DEF IInv, ControlType, CallsFitGuards, RoutingEndsWithRule, In, InFork, ChunkIds
  <1>6. ChunksAreLive'
    BY <1>1, <1>2, OneHolder, ForkIsChunk
       DEF IInv, ControlType, CallsFitGuards, ChunksAreLive, Current, Holds, In, InFork
  <1>7. QED
    BY <1>2, <1>3, <1>4, <1>5, <1>6 DEF IInv

\* A chunk is started once.
LEMMA StartChunkKeeps ==
    ASSUME IInv, NEW t \in Threads, NEW c \in ChunkIds, StartChunk(t, c)
    PROVE  IInv'
  <1> USE DEF StartChunk, batchVars
  <1>1. t \in Threads
    BY DEF Threads
  <1>2. ControlType'
    BY <1>1, ForkIsChunk, ChunkCount
       DEF IInv, ControlType, CallType, Idle, In, InFork, Statuses, Ops, ChunkIds
  <1>3. CallsFitGuards'
    BY <1>1, <1>2, BatchSetsBit, ForkIsChunk
       DEF IInv, ControlType, CallsFitGuards, BitsMatchGuards, Batching, CallType, Idle, In, InFork, Ops
  <1>4. BitsMatchGuards'
    BY <1>1, <1>2, BatchSetsBit, OneHolder
       DEF IInv, ControlType, CallsFitGuards, BitsMatchGuards, Holds, Batching, CallType, Idle, In, InFork, Ops
  <1>5. RoutingEndsWithRule'
    <2>1. \E s \in Threads : guard'[s] = "batch"
      BY DEF IInv, ChunksAreLive
    <2>2. \A s \in Threads : InFork(s) => fork[s] # c /\ fork[s] \in ChunkIds
      BY ForkIsChunk DEF IInv, RoutingEndsWithRule
    <2>3. QED
      BY <1>1, <2>1, <2>2 DEF IInv, ControlType, RoutingEndsWithRule, InFork
  <1>6. ChunksAreLive'
    BY <1>1, <1>2, OneHolder, ForkIsChunk
       DEF IInv, ControlType, CallsFitGuards, ChunksAreLive, Current, Holds, In, InFork
  <1>7. QED
    BY <1>2, <1>3, <1>4, <1>5, <1>6 DEF IInv

\* A finished chunk is no longer routed.
LEMMA FinishChunkKeeps ==
    ASSUME IInv, NEW t \in Threads, FinishChunk(t)
    PROVE  IInv'
  <1> USE DEF FinishChunk, batchVars
  <1>1. t \in Threads
    BY DEF Threads
  <1>2. ControlType'
    BY <1>1, ForkIsChunk, ChunkCount
       DEF IInv, ControlType, CallType, Idle, In, InFork, Statuses, Ops, ChunkIds
  <1>3. CallsFitGuards'
    BY <1>1, <1>2, BatchSetsBit, ForkIsChunk
       DEF IInv, ControlType, CallsFitGuards, BitsMatchGuards, Batching, CallType, Idle, In, InFork, Ops
  <1>4. BitsMatchGuards'
    BY <1>1, <1>2, BatchSetsBit, OneHolder
       DEF IInv, ControlType, CallsFitGuards, BitsMatchGuards, Holds, Batching, CallType, Idle, In, InFork, Ops
  <1>5. RoutingEndsWithRule'
    BY <1>1, <1>2, ForkIsChunk
       DEF IInv, ControlType, CallsFitGuards, RoutingEndsWithRule, In, InFork, ChunkIds
  <1>6. ChunksAreLive'
    <2>1. fork[t] \in ChunkIds /\ status[fork[t]] = "running"
      BY <1>1, ForkIsChunk DEF IInv, RoutingEndsWithRule
    <2>2. Current /\ \E s \in Threads : guard[s] = "batch"
      BY <2>1 DEF IInv, ChunksAreLive
    <2>3. QED
      BY <2>2 DEF ChunksAreLive, Current
  <1>7. QED
    BY <1>2, <1>3, <1>4, <1>5, <1>6 DEF IInv

-----------------------------------------------------------------------------
\* Every step keeps the invariant.
LEMMA StepIInv == IInv /\ [Next]_vars => IInv'
  <1> SUFFICES ASSUME IInv, [Next]_vars PROVE IInv'
    OBVIOUS
  <1>1. CASE UNCHANGED vars
    BY <1>1 DEF vars, IInv, ControlType, CallsFitGuards, BitsMatchGuards, RoutingEndsWithRule,
                ChunksAreLive, Current, Holds, Batching, In, InFork
  <1>2. CASE Next
    BY <1>2, OutsiderCallKeeps, RuleCallKeeps, RulePanicsKeeps, FetchOrKeeps,
       AcquireAndReleaseKeeps, AcquireToWriteKeeps, AcquireToBatchKeeps, SetWriteBitKeeps,
       WriteThroughGuardKeeps, DropWriteGuardKeeps, UnlockKeeps, MergeKeeps,
       DropBatchGuardKeeps, StartChunkKeeps, FinishChunkKeeps
       DEF Next, Acquire, Release
  <1>3. QED
    BY <1>1, <1>2

\* The control state of the cell is inductive.
LEMMA ControlInvariant == Spec => []IInv
  BY InitIInv, StepIInv, PTL DEF Spec

\* The bits of the word, the owner of the mutex and the guards agree in every
\* reachable state.
THEOREM BitsAreExact == Spec => []BitsMatchGuards
  <1>1. IInv => BitsMatchGuards
    BY DEF IInv
  <1>2. QED
    BY <1>1, ControlInvariant, PTL

\* No thread waits for a mutex that it holds itself, or that waits for its fork.
THEOREM NoWaitForOneself == Spec => []WaitersHoldNothing
  <1>1. IInv => WaitersHoldNothing
    BY DEF IInv, CallsFitGuards, BitsMatchGuards, Holds, In, WaitersHoldNothing
  <1>2. QED
    BY <1>1, ControlInvariant, PTL

\* Forks exist only for running chunks of a batch in force.
THEOREM RoutingEnds == Spec => []RoutingEndsWithRule
  <1>1. IInv => RoutingEndsWithRule
    BY DEF IInv
  <1>2. QED
    BY <1>1, ControlInvariant, PTL

\* The arena a batch was snapshotted from is the arena it is merged into.
THEOREM BatchIsIsolated == Spec => []ForksAreCurrent
  <1>1. IInv => ForksAreCurrent
    BY DEF IInv, ChunksAreLive, ForksAreCurrent
  <1>2. QED
    BY <1>1, ControlInvariant, PTL

-----------------------------------------------------------------------------
(* Terms                                                                   *)

\* A node's term, given those of its children.
TermOver(n, T) == <<n.op, n.of, [j \in DOMAIN n.children |-> T[n.children[j]]]>>

\* A child precedes its parent.
Ordered(ns) == /\ Len(ns) \in Nat /\ DOMAIN ns = 1..Len(ns)
               /\ \A i \in 1..Len(ns) : \A j \in DOMAIN ns[i].children :
                     ns[i].children[j] \in 1..(i - 1)

LEMMA TermsAreDefined ==
    ASSUME NEW ns, Ordered(ns)
    PROVE  /\ DOMAIN Terms(ns) = 1..Len(ns)
           /\ \A i \in 1..Len(ns) : Terms(ns)[i] = TermOver(ns[i], Terms(ns))
  <1> DEFINE Solves(T, m) == T = [i \in 1..m |-> TermOver(ns[i], T)]
             S == {m \in Nat : m <= Len(ns) => \E T : Solves(T, m)}
  <1>1. 0 \in S
    <2> DEFINE T == [i \in 1..0 |-> 0]
    <2>1. T = [i \in 1..0 |-> TermOver(ns[i], T)]
      OBVIOUS
    <2> QED BY <2>1
  <1>2. ASSUME NEW m \in Nat, m \in S PROVE m + 1 \in S
    <2> SUFFICES ASSUME m + 1 <= Len(ns) PROVE \E T : Solves(T, m + 1)
      OBVIOUS
    <2>1. PICK T : Solves(T, m)
      BY <1>2 DEF Ordered
    <2> DEFINE U == [i \in 1..(m + 1) |-> TermOver(ns[i], T)]
    <2>2. \A i \in 1..m : U[i] = T[i]
      <3> HIDE DEF U
      <3>1. \A i \in 1..m : U[i] = TermOver(ns[i], T)
        BY DEF U
      <3>2. \A i \in 1..m : T[i] = TermOver(ns[i], T)
        BY <2>1
      <3> QED BY <3>1, <3>2
    <2>3. ASSUME NEW i \in 1..(m + 1) PROVE TermOver(ns[i], U) = TermOver(ns[i], T)
      <3>1. \A j \in DOMAIN ns[i].children : ns[i].children[j] \in 1..m
        BY DEF Ordered
      <3> HIDE DEF U
      <3>2. \A j \in DOMAIN ns[i].children : U[ns[i].children[j]] = T[ns[i].children[j]]
        BY <2>2, <3>1
      <3> QED BY <3>2 DEF TermOver
    <2>4. U = [i \in 1..(m + 1) |-> TermOver(ns[i], U)]
      <3> HIDE DEF U
      <3>1. U = [i \in 1..(m + 1) |-> TermOver(ns[i], T)]
        BY DEF U
      <3> QED BY <2>3, <3>1
    <2> QED BY <2>4
  <1>3. Len(ns) \in S
    <2> HIDE DEF S
    <2> QED BY <1>1, <1>2, SetInduction DEF Ordered
  <1>4. \E T : T = [i \in DOMAIN ns |-> TermOver(ns[i], T)]
    BY <1>3 DEF Ordered
  <1>5. Terms(ns) = CHOOSE T : T = [i \in DOMAIN ns |-> TermOver(ns[i], T)]
    BY DEF Terms, TermOver
  <1>6. Terms(ns) = [i \in DOMAIN ns |-> TermOver(ns[i], Terms(ns))]
    BY <1>4, <1>5
  <1> QED BY <1>6 DEF Ordered

\* Nodes that come later do not change a term.
LEMMA TermsAgree ==
    ASSUME NEW ns, Ordered(ns), NEW ms, Ordered(ms), NEW n \in Nat, n <= Len(ns), n <= Len(ms),
           \A i \in 1..n : ms[i] = ns[i]
    PROVE  \A i \in 1..n : Terms(ms)[i] = Terms(ns)[i]
  <1> DEFINE S == {m \in Nat : \A i \in 1..n : i <= m => Terms(ms)[i] = Terms(ns)[i]}
  <1>1. 0 \in S
    OBVIOUS
  <1>2. ASSUME NEW m \in Nat, m \in S PROVE m + 1 \in S
    <2> SUFFICES ASSUME m + 1 \in 1..n PROVE Terms(ms)[m + 1] = Terms(ns)[m + 1]
      BY <1>2
    <2>1. PICK node : node = ns[m + 1] /\ node = ms[m + 1]
      OBVIOUS
    <2>2. m + 1 \in 1..Len(ns) /\ m + 1 \in 1..Len(ms)
      BY DEF Ordered
    <2>3. Terms(ms)[m + 1] = TermOver(node, Terms(ms)) /\ Terms(ns)[m + 1] = TermOver(node, Terms(ns))
      BY <2>1, <2>2, TermsAreDefined
    <2>4. \A j \in DOMAIN node.children : node.children[j] \in 1..m
      BY <2>1, <2>2 DEF Ordered
    <2>5. \A j \in DOMAIN node.children :
             Terms(ms)[node.children[j]] = Terms(ns)[node.children[j]]
      BY <1>2, <2>4
    <2> QED BY <2>3, <2>5 DEF TermOver
  <1>3. n \in S
    <2> HIDE DEF S
    <2> QED BY <1>1, <1>2, SetInduction
  <1> QED BY <1>3

-----------------------------------------------------------------------------
(* The keys of a chunk                                                     *)

\* The key of a position, in chunks of a given size.
LEMMA Division ==
    ASSUME NEW n \in Nat, NEW d \in Nat \ {0}
    PROVE  /\ n \div d \in Nat /\ d * (n \div d) <= n /\ n < d * (n \div d) + d
  OBVIOUS

\* The keys of the first c chunks.
KeysBefore(c) == IF c * ChunkSize < NKeys THEN c * ChunkSize ELSE NKeys

LEMMA KeysOfChunks ==
    /\ NChunks \in Nat \ {0}
    /\ KeysBefore(0) = 0 /\ KeysBefore(NChunks) = NKeys
    /\ \A c \in 0..NChunks : KeysBefore(c) \in 0..NKeys
    /\ \A c \in ChunkIds :
          /\ c - 1 \in 0..NChunks /\ FirstKey(c) = KeysBefore(c - 1) + 1
          /\ FirstKey(c) <= KeysBefore(c)
          /\ ChunkKeys(c) = FirstKey(c)..KeysBefore(c)
          /\ Cardinality(ChunkKeys(c)) = KeysBefore(c) - KeysBefore(c - 1)
  <1>1. PICK d, n, m : d = ChunkSize /\ n = NKeys /\ m = NChunks
    OBVIOUS
  <1>2. d \in Nat \ {0} /\ n \in Nat \ {0} /\ n + d - 1 \in Nat /\ m = (n + d - 1) \div d
    BY <1>1, SizeAssumption DEF NChunks
  <1>3. m \in Nat /\ d * m <= n + d - 1 /\ n + d - 1 < d * m + d
    BY <1>2, Division
  <1>4. m # 0
    BY <1>2, <1>3
  <1>5. n <= d * m /\ d * (m - 1) < n /\ d * (m - 1) = d * m - d
    BY <1>2, <1>3
  <1>6. ASSUME NEW c \in 0..m PROVE d * c \in Nat
    BY <1>2, <1>3
  <1>7. ASSUME NEW c \in 0..m PROVE KeysBefore(c) = IF d * c < n THEN d * c ELSE n
    BY <1>1, <1>2, <1>3 DEF KeysBefore
  <1>8. KeysBefore(0) = 0 /\ KeysBefore(m) = n
    BY <1>2, <1>3, <1>5, <1>7
  <1>9. \A c \in 0..m : KeysBefore(c) \in 0..n
    BY <1>2, <1>6, <1>7
  <1>10. ASSUME NEW c \in 1..m
         PROVE  /\ c - 1 \in 0..m /\ FirstKey(c) = KeysBefore(c - 1) + 1
                /\ FirstKey(c) <= KeysBefore(c)
                /\ ChunkKeys(c) = FirstKey(c)..KeysBefore(c)
                /\ Cardinality(ChunkKeys(c)) = KeysBefore(c) - KeysBefore(c - 1)
    <2>1. PICK b, a : b = c - 1 /\ a = d * b
      OBVIOUS
    <2>2. b \in 0..m /\ c \in 0..m /\ b <= m - 1 /\ c = b + 1 /\ b \in Nat
      BY <1>3, <2>1
    <2>3. a \in Nat /\ d * c = a + d /\ a <= d * (m - 1)
      BY <1>2, <1>3, <2>1, <2>2
    <2>4. a < n
      BY <1>2, <1>3, <1>5, <2>3
    <2>5. KeysBefore(b) = a /\ FirstKey(c) = a + 1
      BY <1>1, <1>2, <1>7, <2>1, <2>2, <2>3, <2>4 DEF FirstKey
    <2>6. PICK z : z = KeysBefore(c)
      OBVIOUS
    <2>7. z = IF a + d < n THEN a + d ELSE n
      BY <1>7, <2>2, <2>3, <2>6
    <2>8. z \in Nat /\ a + 1 <= z
      BY <1>2, <2>3, <2>4, <2>7
    <2>9. ASSUME NEW k \in 1..n
          PROVE  (k - 1) \div d + 1 = c <=> k \in (a + 1)..z
      <3>1. PICK q : q = (k - 1) \div d
        OBVIOUS
      <3>2. k - 1 \in Nat /\ k \in Nat
        BY <1>2
      <3>3. q \in Nat /\ d * q <= k - 1 /\ k - 1 < d * q + d
        BY <1>2, <3>1, <3>2, Division
      <3>4. CASE q = b
        BY <1>2, <2>1, <2>2, <2>3, <2>7, <3>1, <3>2, <3>3, <3>4
      <3>5. CASE q < b
        <4>1. d * (q + 1) <= a /\ d * (q + 1) = d * q + d
          BY <1>2, <2>1, <2>2, <3>3, <3>5
        <4> QED BY <1>2, <2>2, <2>3, <2>7, <3>1, <3>2, <3>3, <3>5, <4>1
      <3>6. CASE q > b
        <4>1. a + d <= d * q
          BY <1>2, <2>1, <2>2, <2>3, <3>3, <3>6
        <4> QED BY <1>2, <2>2, <2>3, <2>7, <3>1, <3>2, <3>3, <3>6, <4>1
      <3> QED BY <2>2, <3>3, <3>4, <3>5, <3>6
    <2>10. ChunkKeys(c) = (a + 1)..z
      <3>1. z <= n
        BY <1>2, <2>3, <2>7
      <3>2. \A k \in (a + 1)..z : k \in 1..n
        BY <1>2, <2>3, <2>8, <3>1
      <3> QED BY <1>1, <2>9, <3>2 DEF ChunkKeys
    <2>11. Cardinality((a + 1)..z) = z - a
      <3>1. a + 1 \in Int /\ z \in Int
        BY <2>3, <2>8
      <3>2. Cardinality((a + 1)..z) = IF a + 1 > z THEN 0 ELSE z - (a + 1) + 1
        BY <3>1, FS_Interval
      <3> QED BY <2>3, <2>8, <3>2
    <2> QED BY <2>1, <2>2, <2>5, <2>6, <2>8, <2>10, <2>11
  <1> QED BY <1>1, <1>2, <1>3, <1>4, <1>8, <1>9, <1>10 DEF ChunkIds

-----------------------------------------------------------------------------
(* Nodes, and the forks that hold them                                     *)

\* The nodes that the model pushes.
AnyNode == [op : {"Var", "Unary", "Add"}, of : Int \cup Threads, children : Seq(Int)]

\* What a chunk's rule pushes, from the first key of the chunk on, when the nodes get the
\* identifiers after base.
PushedFrom(first, base, i) == RuleNode(first + (i - 1) \div 2, (i - 1) % 2, base + i)

\* A fork holds what its rule has pushed so far; one that is done holds the nodes of all
\* its keys.
ForksHoldRules ==
    \A c \in ChunkIds :
        /\ local[c] \in Seq(AnyNode)
        /\ \A i \in 1..Len(local[c]) : local[c][i] = PushedFrom(FirstKey(c), LocalBase, i)
        /\ status[c] = "done" => Len(local[c]) = 2 * Cardinality(ChunkKeys(c))

LEMMA RuleNodeType ==
    ASSUME NEW k \in Int, NEW j, NEW id \in Int
    PROVE  RuleNode(k, j, id) \in AnyNode
  <1>1. <<Variable>> \in Seq(Int) /\ <<Variable, id - 1>> \in Seq(Int)
    BY DEF Variable
  <1> QED BY <1>1 DEF RuleNode, Node, AnyNode

\* Two sequences of nodes joined.
LEMMA JoinedNodes ==
    ASSUME NEW s \in Seq(AnyNode), NEW t \in Seq(AnyNode)
    PROVE  /\ s \o t \in Seq(AnyNode) /\ Len(s \o t) = Len(s) + Len(t)
           /\ \A i \in 1..Len(s) : (s \o t)[i] = s[i]
           /\ \A i \in 1..Len(t) : (s \o t)[Len(s) + i] = t[i]
  <1> DEFINE D == AnyNode
  <1>1. s \in Seq(D) /\ t \in Seq(D)
    OBVIOUS
  <1> HIDE DEF D
  <1>2. Len(s) \in Nat /\ Len(t) \in Nat
    BY <1>1
  <1>3. s \o t \in Seq(D) /\ Len(s \o t) = Len(s) + Len(t)
    BY <1>1
  <1>4. \A i \in 1..Len(s) + Len(t) : (s \o t)[i] = IF i <= Len(s) THEN s[i] ELSE t[i - Len(s)]
    BY <1>1, ConcatProperties
  <1>5. \A i \in 1..Len(t) : Len(s) + i \in 1..Len(s) + Len(t) /\ ~ (Len(s) + i <= Len(s)) /\ (Len(s) + i) - Len(s) = i
    BY <1>2
  <1>6. \A i \in 1..Len(s) : i \in 1..Len(s) + Len(t) /\ i <= Len(s)
    BY <1>2
  <1>7. \A i \in 1..Len(s) : (s \o t)[i] = s[i]
    BY <1>4, <1>6
  <1>8. \A i \in 1..Len(t) : (s \o t)[Len(s) + i] = t[i]
    BY <1>4, <1>5
  <1> QED BY <1>3, <1>7, <1>8 DEF D

\* The arena that building the keys one after another leaves.
LEMMA SequentialNodes ==
    ASSUME NEW ns \in Seq(AnyNode)
    PROVE  /\ Sequential(ns) \in Seq(AnyNode)
           /\ Len(Sequential(ns)) = Len(ns) + 2 * NKeys
           /\ \A i \in 1..Len(ns) : Sequential(ns)[i] = ns[i]
           /\ \A i \in 1..2 * NKeys : Sequential(ns)[Len(ns) + i] = PushedFrom(1, Len(ns), i)
  <1> DEFINE own == [i \in 1..2 * NKeys |-> RuleNode((i - 1) \div 2 + 1, (i - 1) % 2, Len(ns) + i)]
  <1>1. NKeys \in Nat /\ 2 * NKeys \in Nat /\ Len(ns) \in Nat
    BY SizeAssumption
  <1>2. ASSUME NEW i \in 1..2 * NKeys
        PROVE  /\ own[i] = PushedFrom(1, Len(ns), i) /\ own[i] \in AnyNode
    <2>1. (i - 1) \div 2 + 1 = 1 + (i - 1) \div 2 /\ (i - 1) \div 2 + 1 \in Int /\ Len(ns) + i \in Int
      BY <1>1
    <2>2. own[i] = RuleNode((i - 1) \div 2 + 1, (i - 1) % 2, Len(ns) + i)
      OBVIOUS
    <2> HIDE DEF own
    <2> QED BY <2>1, <2>2, RuleNodeType DEF PushedFrom
  <1>3. own \in [1..2 * NKeys -> AnyNode]
    <2>1. DOMAIN own = 1..2 * NKeys /\ own = [i \in 1..2 * NKeys |-> own[i]]
      OBVIOUS
    <2> HIDE DEF own
    <2> QED BY <1>2, <2>1
  <1>4. own \in Seq(AnyNode) /\ Len(own) = 2 * NKeys
    <2> HIDE DEF own
    <2> QED BY <1>1, <1>3
  <1>5. PICK q, o : q = Sequential(ns) /\ o = own
    OBVIOUS
  <1>6. q = ns \o o
    BY <1>5 DEF Sequential
  <1> HIDE DEF own
  <1>7. o \in Seq(AnyNode) /\ Len(o) = 2 * NKeys
    BY <1>4, <1>5
  <1>8. /\ q \in Seq(AnyNode) /\ Len(q) = Len(ns) + Len(o)
        /\ \A i \in 1..Len(ns) : q[i] = ns[i]
        /\ \A i \in 1..Len(o) : q[Len(ns) + i] = o[i]
    BY <1>6, <1>7, JoinedNodes
  <1> QED BY <1>2, <1>5, <1>7, <1>8

\* Moving a rule's nodes to where they are appended gives what the rule pushes there.
LEMMA RemappedNode ==
    ASSUME NEW first \in Int, NEW base \in Nat, base >= 1, NEW to \in Nat, NEW i \in Nat \ {0}
    PROVE  RemapNode(PushedFrom(first, base, i), base, to) = PushedFrom(first, to, i)
  <1>1. PICK k, j : k = first + (i - 1) \div 2 /\ j = (i - 1) % 2
    OBVIOUS
  <1>2. j \in {0, 1} /\ (j = 1 => i > 1)
    BY <1>1
  <1>3. Apply(Variable, base, to) = Variable
    BY DEF Apply, Variable
  <1>4. CASE j = 0
    <2>1. PICK n : n = Node("Unary", k, <<Variable>>)
      OBVIOUS
    <2>2. PushedFrom(first, base, i) = n /\ PushedFrom(first, to, i) = n
      BY <1>1, <1>4, <2>1 DEF PushedFrom, RuleNode
    <2>3. n.children = <<Variable>>
      BY <2>1 DEF Node
    <2>4. [c \in DOMAIN n.children |-> Apply(n.children[c], base, to)] = <<Variable>>
      BY <1>3, <2>3
    <2>5. RemapNode(n, base, to) = Node("Unary", k, <<Variable>>)
      BY <2>1, <2>4 DEF RemapNode, Node
    <2> QED BY <2>1, <2>2, <2>5
  <1>5. CASE j = 1
    <2>1. PICK n, m : n = Node("Add", k, <<Variable, base + i - 1>>) /\ m = <<Variable, to + i - 1>>
      OBVIOUS
    <2>2. PushedFrom(first, base, i) = n /\ PushedFrom(first, to, i) = Node("Add", k, m)
      BY <1>1, <1>5, <2>1 DEF PushedFrom, RuleNode
    <2>3. n.children = <<Variable, base + i - 1>>
      BY <2>1 DEF Node
    <2>4. Apply(base + i - 1, base, to) = to + i - 1
      BY <1>2, <1>5 DEF Apply
    <2>5. [c \in DOMAIN n.children |-> Apply(n.children[c], base, to)] = m
      BY <1>3, <2>1, <2>3, <2>4
    <2>6. RemapNode(n, base, to) = Node("Add", k, m)
      BY <2>1, <2>5 DEF RemapNode, Node
    <2> QED BY <2>2, <2>6
  <1> QED BY <1>2, <1>4, <1>5

\* The steps of the merge are well defined.
LEMMA MergedSteps ==
    /\ MergedUpTo[0] = nodes
    /\ \A c \in ChunkIds : MergedUpTo[c] = MergedUpTo[c - 1] \o Remapped(c, Len(MergedUpTo[c - 1]))
  <1>1. PICK n : n = NChunks
    OBVIOUS
  <1>2. n \in Nat
    BY <1>1, ChunkCount
  <1> DEFINE Solves(A, m) == A = [c \in 0..m |-> IF c = 0 THEN nodes
                                                 ELSE A[c - 1] \o Remapped(c, Len(A[c - 1]))]
             S == {m \in Nat : \E A : Solves(A, m)}
  <1>3. 0 \in S
    <2> DEFINE A == [c \in 0..0 |-> nodes]
    <2>1. A = [c \in 0..0 |-> IF c = 0 THEN nodes ELSE A[c - 1] \o Remapped(c, Len(A[c - 1]))]
      OBVIOUS
    <2> QED BY <2>1
  <1>4. ASSUME NEW m \in Nat, m \in S PROVE m + 1 \in S
    <2>1. PICK A : Solves(A, m)
      BY <1>4
    <2> DEFINE B == [c \in 0..(m + 1) |-> IF c = 0 THEN nodes
                                          ELSE A[c - 1] \o Remapped(c, Len(A[c - 1]))]
    <2>2. \A c \in 0..m : B[c] = A[c]
      <3>1. \A c \in 0..m : B[c] = IF c = 0 THEN nodes ELSE A[c - 1] \o Remapped(c, Len(A[c - 1]))
        OBVIOUS
      <3>2. \A c \in 0..m : A[c] = IF c = 0 THEN nodes ELSE A[c - 1] \o Remapped(c, Len(A[c - 1]))
        BY <2>1
      <3> HIDE DEF B
      <3> QED BY <3>1, <3>2
    <2>3. B = [c \in 0..(m + 1) |-> IF c = 0 THEN nodes ELSE B[c - 1] \o Remapped(c, Len(B[c - 1]))]
      <3>1. \A c \in 0..(m + 1) : c # 0 => c - 1 \in 0..m
        OBVIOUS
      <3>2. B = [c \in 0..(m + 1) |-> IF c = 0 THEN nodes
                                      ELSE A[c - 1] \o Remapped(c, Len(A[c - 1]))]
        OBVIOUS
      <3> HIDE DEF B
      <3> QED BY <2>2, <3>1, <3>2
    <2>4. Solves(B, m + 1)
      BY <2>3
    <2>5. m + 1 \in Nat
      OBVIOUS
    <2> HIDE DEF Solves, B
    <2> QED BY <2>4, <2>5
  <1>5. \A m \in Nat : m \in S
    <2> HIDE DEF S
    <2> QED BY <1>3, <1>4, SetInduction
  <1>6. \E A : Solves(A, n)
    <2>1. n \in S
      BY <1>2, <1>5
    <2> HIDE DEF Solves
    <2> QED BY <2>1
  <1>7. MergedUpTo = CHOOSE A : Solves(A, n)
    BY <1>1 DEF MergedUpTo
  <1>8. Solves(MergedUpTo, n)
    <2> HIDE DEF Solves
    <2> QED BY <1>6, <1>7
  <1>9. PICK A : A = MergedUpTo
    OBVIOUS
  <1>10. A = [c \in 0..n |-> IF c = 0 THEN nodes ELSE A[c - 1] \o Remapped(c, Len(A[c - 1]))]
    BY <1>8, <1>9
  <1>11. A[0] = nodes /\ \A c \in 1..n : A[c] = A[c - 1] \o Remapped(c, Len(A[c - 1]))
    BY <1>2, <1>10
  <1> QED BY <1>1, <1>9, <1>11 DEF ChunkIds

\* A fork that is done, with its nodes moved.
LEMMA MovedFork ==
    ASSUME ForksHoldRules, LocalBase \in Nat \ {0}, NEW c \in ChunkIds, status[c] = "done",
           NEW to \in Nat
    PROVE  /\ Remapped(c, to) \in Seq(AnyNode)
           /\ Len(Remapped(c, to)) = 2 * Cardinality(ChunkKeys(c))
           /\ \A i \in 1..Len(Remapped(c, to)) : Remapped(c, to)[i] = PushedFrom(FirstKey(c), to, i)
  <1>1. PICK q, b, f : q = local[c] /\ b = LocalBase /\ f = FirstKey(c)
    OBVIOUS
  <1>2. /\ q \in Seq(AnyNode) /\ Len(q) = 2 * Cardinality(ChunkKeys(c))
        /\ \A i \in 1..Len(q) : q[i] = PushedFrom(f, b, i)
    BY <1>1 DEF ForksHoldRules
  <1>3. b \in Nat /\ b >= 1 /\ f \in Int
    <2>1. c \in Int /\ ChunkSize \in Int
      BY SizeAssumption, ChunkCount DEF ChunkIds
    <2> QED BY <1>1, <2>1 DEF FirstKey
  <1>4. PICK r : r = Remapped(c, to)
    OBVIOUS
  <1>5. r = [i \in DOMAIN q |-> RemapNode(q[i], b, to)]
    BY <1>1, <1>4 DEF Remapped
  <1>6. DOMAIN q = 1..Len(q) /\ Len(q) \in Nat
    BY <1>2
  <1>7. ASSUME NEW i \in 1..Len(q) PROVE r[i] = PushedFrom(f, to, i) /\ r[i] \in AnyNode
    <2>1. r[i] = RemapNode(PushedFrom(f, b, i), b, to)
      BY <1>2, <1>5, <1>6
    <2>2. i \in Nat \ {0}
      BY <1>6
    <2>3. r[i] = PushedFrom(f, to, i)
      BY <1>3, <2>1, <2>2, RemappedNode
    <2>4. f + (i - 1) \div 2 \in Int /\ to + i \in Int
      BY <1>3, <2>2
    <2> QED BY <2>3, <2>4, RuleNodeType DEF PushedFrom
  <1>8. r \in [1..Len(q) -> AnyNode]
    <2>1. DOMAIN r = 1..Len(q) /\ r = [i \in 1..Len(q) |-> r[i]]
      BY <1>5, <1>6
    <2> QED BY <1>7, <2>1
  <1>9. r \in Seq(AnyNode) /\ Len(r) = Len(q)
    BY <1>6, <1>8
  <1> QED BY <1>1, <1>2, <1>4, <1>7, <1>9

\* Counting the nodes of a fork from the first of all forks.
LEMMA PushedShift ==
    ASSUME NEW b \in Nat, NEW n \in Nat, NEW i \in Nat \ {0}
    PROVE  PushedFrom(b + 1, n + 2 * b, i) = PushedFrom(1, n, 2 * b + i)
  <1>1. (2 * b + i - 1) \div 2 = b + (i - 1) \div 2 /\ (2 * b + i - 1) % 2 = (i - 1) % 2
    OBVIOUS
  <1>2. b + 1 + (i - 1) \div 2 = 1 + (2 * b + i - 1) \div 2 /\ n + 2 * b + i = n + (2 * b + i)
    BY <1>1
  <1> QED BY <1>1, <1>2 DEF PushedFrom

\* Every step of the merge appends what building its keys in order appends.
LEMMA MergedNodes ==
    ASSUME ForksHoldRules, AllDone, nodes \in Seq(AnyNode), Len(nodes) >= 1, LocalBase = Len(nodes)
    PROVE  \A c \in 0..NChunks :
              /\ MergedUpTo[c] \in Seq(AnyNode)
              /\ Len(MergedUpTo[c]) = Len(nodes) + 2 * KeysBefore(c)
              /\ \A i \in 1..Len(nodes) : MergedUpTo[c][i] = nodes[i]
              /\ \A i \in 1..2 * KeysBefore(c) :
                    MergedUpTo[c][Len(nodes) + i] = PushedFrom(1, Len(nodes), i)
  <1>1. PICK m, ns, n : m = MergedUpTo /\ ns = nodes /\ n = Len(nodes)
    OBVIOUS
  <1> DEFINE Good(c) == /\ m[c] \in Seq(AnyNode)
                        /\ Len(m[c]) = n + 2 * KeysBefore(c)
                        /\ \A i \in 1..n : m[c][i] = ns[i]
                        /\ \A i \in 1..2 * KeysBefore(c) : m[c][n + i] = PushedFrom(1, n, i)
             S == {c \in Nat : c <= NChunks => Good(c)}
  <1>2. n \in Nat \ {0} /\ LocalBase \in Nat \ {0} /\ ns \in Seq(AnyNode) /\ n = Len(ns)
    BY <1>1
  <1>3. 0 \in S
    <2>1. m[0] = ns /\ KeysBefore(0) = 0
      BY <1>1, MergedSteps, KeysOfChunks
    <2>2. \A i \in 1..2 * KeysBefore(0) : FALSE
      BY <2>1
    <2>3. Good(0)
      BY <1>2, <2>1, <2>2
    <2> HIDE DEF Good
    <2> QED BY <2>3
  <1>4. ASSUME NEW c \in Nat, c \in S PROVE c + 1 \in S
    <2> SUFFICES ASSUME c + 1 <= NChunks PROVE Good(c + 1)
      OBVIOUS
    <2>1. Good(c)
      BY <1>4, ChunkCount
    <2>2. PICK d : d = c + 1
      OBVIOUS
    <2>3. d \in ChunkIds /\ d - 1 = c /\ d \in Nat
      BY <2>2, ChunkCount DEF ChunkIds
    <2>4. PICK a, b, p : a = KeysBefore(c) /\ b = KeysBefore(d) /\ p = m[c]
      OBVIOUS
    <2>5. /\ a \in Nat /\ b \in Nat /\ a <= b /\ FirstKey(d) = a + 1
          /\ Cardinality(ChunkKeys(d)) = b - a
      <3>1. /\ FirstKey(d) = KeysBefore(d - 1) + 1 /\ FirstKey(d) <= KeysBefore(d)
            /\ Cardinality(ChunkKeys(d)) = KeysBefore(d) - KeysBefore(d - 1)
            /\ d - 1 \in 0..NChunks
        BY <2>3, KeysOfChunks
      <3>2. KeysBefore(d) \in 0..NKeys /\ KeysBefore(d - 1) \in 0..NKeys
        <4>1. d \in 0..NChunks
          BY <2>3, ChunkCount DEF ChunkIds
        <4> QED BY <3>1, <4>1, KeysOfChunks
      <3>3. a = KeysBefore(d - 1)
        BY <2>3, <2>4
      <3> HIDE DEF Good
      <3> QED BY <2>4, <3>1, <3>2, <3>3
    <2>6. /\ p \in Seq(AnyNode) /\ Len(p) = n + 2 * a /\ \A i \in 1..n : p[i] = ns[i]
          /\ \A i \in 1..2 * a : p[n + i] = PushedFrom(1, n, i)
      BY <2>1, <2>4
    <2> HIDE DEF Good
    <2>7. PICK r, to : to = n + 2 * a /\ r = Remapped(d, to)
      OBVIOUS
    <2>8. /\ r \in Seq(AnyNode) /\ Len(r) = 2 * (b - a)
          /\ \A i \in 1..Len(r) : r[i] = PushedFrom(a + 1, n + 2 * a, i)
      <3>1. status[d] = "done" /\ to \in Nat
        BY <1>2, <2>3, <2>5, <2>7 DEF AllDone
      <3>2. /\ r \in Seq(AnyNode) /\ Len(r) = 2 * Cardinality(ChunkKeys(d))
            /\ \A i \in 1..Len(r) : r[i] = PushedFrom(FirstKey(d), to, i)
        BY <1>2, <2>3, <2>7, <3>1, MovedFork
      <3> QED BY <2>5, <2>7, <3>2
    <2>9. m[d] = p \o r
      <3>1. m[d] = m[d - 1] \o Remapped(d, Len(m[d - 1]))
        BY <1>1, <2>3, MergedSteps
      <3> QED BY <2>3, <2>4, <2>6, <2>7, <3>1
    <2>10. PICK q : q = m[d]
      OBVIOUS
    <2>11. /\ q \in Seq(AnyNode) /\ Len(q) = Len(p) + Len(r)
           /\ \A i \in 1..Len(p) : q[i] = p[i]
           /\ \A i \in 1..Len(r) : q[Len(p) + i] = r[i]
      <3>1. p \in Seq(AnyNode) /\ r \in Seq(AnyNode)
        BY <2>6, <2>8
      <3>2. q = p \o r
        BY <2>9, <2>10
      <3> QED BY <3>1, <3>2, JoinedNodes
    <2>12. Len(q) = n + 2 * b
      BY <1>2, <2>5, <2>6, <2>8, <2>11
    <2>13. \A i \in 1..n : q[i] = ns[i]
      BY <1>2, <2>5, <2>6, <2>11
    <2>14. ASSUME NEW i \in 1..2 * b PROVE q[n + i] = PushedFrom(1, n, i)
      <3>1. CASE i <= 2 * a
        <4>1. i \in 1..2 * a /\ n + i \in 1..Len(p)
          BY <1>2, <2>5, <2>6, <3>1
        <4> QED BY <2>6, <2>11, <4>1
      <3>2. CASE ~ (i <= 2 * a)
        <4>1. PICK j : j = i - 2 * a
          OBVIOUS
        <4>2. /\ j \in 1..Len(r) /\ j \in Nat \ {0} /\ n + i = Len(p) + j /\ i = 2 * a + j
          <5>1. Len(p) = n + 2 * a /\ Len(r) = 2 * (b - a) /\ n \in Nat /\ a \in Nat /\ b \in Nat /\ i \in Int
            BY <1>2, <2>5, <2>6, <2>8
          <5>2. j \in Int /\ j >= 1 /\ j <= 2 * b - 2 * a
            BY <3>2, <4>1, <5>1
          <5>3. i = 2 * a + j
            BY <4>1, <5>1
          <5> QED BY <5>1, <5>2, <5>3
        <4>3. q[n + i] = PushedFrom(a + 1, n + 2 * a, j)
          BY <2>8, <2>11, <4>2
        <4>4. PushedFrom(a + 1, n + 2 * a, j) = PushedFrom(1, n, 2 * a + j)
          BY <1>2, <2>5, <4>2, PushedShift
        <4> QED BY <4>2, <4>3, <4>4
      <3> QED BY <3>1, <3>2
    <2> QED BY <2>2, <2>4, <2>10, <2>11, <2>12, <2>13, <2>14 DEF Good
  <1>5. \A c \in Nat : c \in S
    <2> HIDE DEF S
    <2> QED BY <1>3, <1>4, SetInduction
  <1>6. \A c \in 0..NChunks : Good(c)
    <2>1. \A c \in 0..NChunks : c \in Nat /\ c <= NChunks
      BY ChunkCount
    <2> HIDE DEF Good
    <2> QED BY <1>5, <2>1
  <1> QED BY <1>1, <1>6

\* The merge leaves what building the keys in order leaves.
LEMMA MergeIsSequential ==
    ASSUME ForksHoldRules, AllDone, nodes \in Seq(AnyNode), Len(nodes) >= 1, LocalBase = Len(nodes)
    PROVE  MergedUpTo[NChunks] = Sequential(nodes)
  <1>1. PICK p, q, n : p = MergedUpTo[NChunks] /\ q = Sequential(nodes) /\ n = Len(nodes)
    OBVIOUS
  <1>2. n \in Nat /\ NKeys \in Nat
    BY <1>1, SizeAssumption
  <1>3. /\ p \in Seq(AnyNode) /\ Len(p) = n + 2 * NKeys /\ \A i \in 1..n : p[i] = nodes[i]
        /\ \A i \in 1..2 * NKeys : p[n + i] = PushedFrom(1, n, i)
    <2>1. NChunks \in 0..NChunks /\ KeysBefore(NChunks) = NKeys
      BY ChunkCount, KeysOfChunks
    <2> QED BY <1>1, <2>1, MergedNodes
  <1>4. /\ q \in Seq(AnyNode) /\ Len(q) = n + 2 * NKeys /\ \A i \in 1..n : q[i] = nodes[i]
        /\ \A i \in 1..2 * NKeys : q[n + i] = PushedFrom(1, n, i)
    BY <1>1, SequentialNodes
  <1>5. \A i \in 1..n + 2 * NKeys : p[i] = q[i]
    <2> SUFFICES ASSUME NEW i \in 1..n + 2 * NKeys PROVE p[i] = q[i]
      OBVIOUS
    <2>1. CASE i <= n
      BY <1>2, <1>3, <1>4, <2>1
    <2>2. CASE ~ (i <= n)
      <3>1. i - n \in 1..2 * NKeys /\ n + (i - n) = i
        BY <1>2, <2>2
      <3>2. p[n + (i - n)] = q[n + (i - n)]
        BY <1>3, <1>4, <3>1
      <3> QED BY <3>1, <3>2
    <2> QED BY <2>1, <2>2
  <1>6. p = q
    <2>1. p \in [1..Len(p) -> AnyNode] /\ q \in [1..Len(q) -> AnyNode]
      <3> DEFINE D == AnyNode
      <3>1. p \in Seq(D) /\ q \in Seq(D)
        BY <1>3, <1>4
      <3> HIDE DEF D
      <3>2. p \in [1..Len(p) -> D] /\ q \in [1..Len(q) -> D]
        BY <3>1
      <3> QED BY <3>2 DEF D
    <2> QED BY <1>3, <1>4, <1>5, <2>1
  <1> QED BY <1>1, <1>6

-----------------------------------------------------------------------------
(* The terms of an arena                                                   *)

\* An arena begins with the variable.
WellFormed(ns) ==
    /\ ns \in Seq(AnyNode) /\ Len(ns) >= 1 /\ Ordered(ns)
    /\ ns[1] = Node("Var", 0, <<>>)

\* The terms of the nodes that rules push.
LEMMA TermOfVariable ==
    ASSUME NEW ns, WellFormed(ns)
    PROVE  Terms(ns)[1] = VariableTerm
  <1>1. 1 \in 1..Len(ns) /\ Ordered(ns)
    BY DEF WellFormed, Ordered
  <1>2. PICK T : T = Terms(ns)
    OBVIOUS
  <1>3. T[1] = TermOver(ns[1], T)
    BY <1>1, <1>2, TermsAreDefined
  <1>4. PICK n : n = ns[1]
    OBVIOUS
  <1>5. n.op = "Var" /\ n.of = 0 /\ n.children = <<>>
    BY <1>4 DEF WellFormed, Node
  <1>6. [j \in DOMAIN n.children |-> T[n.children[j]]] = <<>>
    BY <1>5
  <1> QED BY <1>2, <1>3, <1>4, <1>5, <1>6 DEF TermOver, VariableTerm

LEMMA TermOfUnary ==
    ASSUME NEW ns, WellFormed(ns), NEW i \in 1..Len(ns), NEW k, ns[i] = Node("Unary", k, <<Variable>>)
    PROVE  Terms(ns)[i] = <<"Unary", k, <<VariableTerm>>>>
  <1>1. PICK T, n : T = Terms(ns) /\ n = ns[i]
    OBVIOUS
  <1>2. T[i] = TermOver(n, T)
    BY <1>1, TermsAreDefined DEF WellFormed
  <1>3. n.op = "Unary" /\ n.of = k /\ n.children = <<1>>
    BY <1>1 DEF Node, Variable
  <1>4. T[1] = VariableTerm
    BY <1>1, TermOfVariable
  <1>5. [j \in DOMAIN n.children |-> T[n.children[j]]] = <<VariableTerm>>
    BY <1>3, <1>4
  <1> QED BY <1>1, <1>2, <1>3, <1>5 DEF TermOver

LEMMA TermOfAdd ==
    ASSUME NEW ns, WellFormed(ns), NEW i \in 1..Len(ns), NEW k, NEW m,
           ns[i] = Node("Add", k, <<Variable, m>>)
    PROVE  Terms(ns)[i] = <<"Add", k, <<VariableTerm, Terms(ns)[m]>>>>
  <1>1. PICK T, n : T = Terms(ns) /\ n = ns[i]
    OBVIOUS
  <1>2. T[i] = TermOver(n, T)
    BY <1>1, TermsAreDefined DEF WellFormed
  <1>3. n.op = "Add" /\ n.of = k /\ n.children = <<1, m>>
    BY <1>1 DEF Node, Variable
  <1>4. T[1] = VariableTerm
    BY <1>1, TermOfVariable
  <1>5. [j \in DOMAIN n.children |-> T[n.children[j]]] = <<VariableTerm, T[m]>>
    BY <1>3, <1>4
  <1> QED BY <1>1, <1>2, <1>3, <1>5 DEF TermOver

\* The two nodes of a key.
LEMMA NodesOfKey ==
    ASSUME NEW n \in Nat, NEW k \in Nat \ {0}
    PROVE  /\ PushedFrom(1, n, 2 * k - 1) = Node("Unary", k, <<Variable>>)
           /\ PushedFrom(1, n, 2 * k) = Node("Add", k, <<Variable, n + 2 * k - 1>>)
  <1>1. ((2 * k - 1) - 1) \div 2 = k - 1 /\ ((2 * k - 1) - 1) % 2 = 0
    OBVIOUS
  <1>2. (2 * k - 1) \div 2 = k - 1 /\ (2 * k - 1) % 2 = 1
    OBVIOUS
  <1>3. 1 + (k - 1) = k
    OBVIOUS
  <1>4. RuleNode(k, 0, n + (2 * k - 1)) = Node("Unary", k, <<Variable>>)
    BY DEF RuleNode
  <1>5. RuleNode(k, 1, n + 2 * k) = Node("Add", k, <<Variable, n + 2 * k - 1>>)
    BY DEF RuleNode
  <1> QED BY <1>1, <1>2, <1>3, <1>4, <1>5 DEF PushedFrom

\* Appending one node over the variable keeps an arena well formed, and its terms.
LEMMA OwnNode ==
    ASSUME NEW ns, WellFormed(ns), NEW t \in Threads
    PROVE  LET ms == Append(ns, Node("Unary", t, <<Variable>>))
           IN  /\ WellFormed(ms) /\ Len(ms) = Len(ns) + 1
               /\ \A i \in 1..Len(ns) : Terms(ms)[i] = Terms(ns)[i]
               /\ Terms(ms)[Len(ns) + 1] = OwnTerm(t)
  <1>1. PICK ms, own, n : ms = Append(ns, own) /\ own = Node("Unary", t, <<Variable>>) /\ n = Len(ns)
    OBVIOUS
  <1>2. n \in Nat \ {0} /\ ns \in Seq(AnyNode)
    BY <1>1 DEF WellFormed, Ordered
  <1>3. own \in AnyNode /\ own.children = <<1>>
    <2>1. <<Variable>> \in Seq(Int)
      BY DEF Variable
    <2> QED BY <1>1, <2>1 DEF Node, AnyNode, Variable
  <1>4. /\ ms \in Seq(AnyNode) /\ Len(ms) = n + 1 /\ DOMAIN ms = 1..Len(ms)
        /\ \A i \in 1..n : ms[i] = ns[i]
        /\ ms[n + 1] = own
    <2> DEFINE D == AnyNode
    <2>1. ns \in Seq(D) /\ own \in D
      BY <1>2, <1>3
    <2> HIDE DEF D
    <2>2. /\ ms \in Seq(D) /\ Len(ms) = n + 1 /\ DOMAIN ms = 1..Len(ms)
          /\ \A i \in 1..n : ms[i] = ns[i]
          /\ ms[n + 1] = own
      BY <1>1, <2>1
    <2> QED BY <2>2 DEF D
  <1>5. Ordered(ms)
    <2> SUFFICES ASSUME NEW i \in 1..Len(ms), NEW j \in DOMAIN ms[i].children
                 PROVE  ms[i].children[j] \in 1..(i - 1)
      BY <1>2, <1>4 DEF Ordered
    <2>1. CASE i \in 1..n
      BY <1>1, <1>4, <2>1 DEF WellFormed, Ordered
    <2>2. CASE i = n + 1
      BY <1>2, <1>3, <1>4, <2>2
    <2> QED BY <1>2, <1>4, <2>1, <2>2
  <1>6. WellFormed(ms)
    <2>1. ms[1] = ns[1] /\ Len(ms) >= 1
      BY <1>2, <1>4
    <2> QED BY <1>4, <1>5, <2>1 DEF WellFormed
  <1>7. \A i \in 1..n : Terms(ms)[i] = Terms(ns)[i]
    <2>1. n <= Len(ns) /\ n <= Len(ms) /\ Ordered(ns)
      BY <1>1, <1>2, <1>4 DEF WellFormed
    <2> QED BY <1>2, <1>4, <1>5, <2>1, TermsAgree
  <1>8. Terms(ms)[n + 1] = OwnTerm(t)
    <2>1. PICK i : i = n + 1
      OBVIOUS
    <2>2. i \in 1..Len(ms) /\ ms[i] = Node("Unary", t, <<Variable>>)
      BY <1>1, <1>2, <1>4, <2>1
    <2>3. Terms(ms)[i] = <<"Unary", t, <<VariableTerm>>>>
      BY <1>6, <2>2, TermOfUnary
    <2> QED BY <2>1, <2>3 DEF OwnTerm
  <1> QED BY <1>1, <1>4, <1>6, <1>7, <1>8

\* Building the keys in order keeps the arena well formed, and its terms.
LEMMA SequentialTerms ==
    ASSUME NEW ns, WellFormed(ns)
    PROVE  /\ WellFormed(Sequential(ns)) /\ Len(Sequential(ns)) = Len(ns) + 2 * NKeys
           /\ \A i \in 1..Len(ns) : Terms(Sequential(ns))[i] = Terms(ns)[i]
           /\ \A k \in 1..NKeys : Terms(Sequential(ns))[Len(ns) + 2 * k] = KeyTerm(k)
  <1>1. PICK q, n : q = Sequential(ns) /\ n = Len(ns)
    OBVIOUS
  <1>2. n \in Nat \ {0} /\ NKeys \in Nat /\ ns \in Seq(AnyNode)
    BY <1>1, SizeAssumption DEF WellFormed, Ordered
  <1>3. /\ q \in Seq(AnyNode) /\ Len(q) = n + 2 * NKeys
        /\ \A i \in 1..n : q[i] = ns[i]
        /\ \A i \in 1..2 * NKeys : q[n + i] = PushedFrom(1, n, i)
    BY <1>1, <1>2, SequentialNodes
  <1>4. DOMAIN q = 1..Len(q) /\ Len(q) \in Nat
    BY <1>3
  <1>5. ASSUME NEW k \in 1..NKeys
        PROVE  /\ n + 2 * k \in 1..Len(q) /\ n + 2 * k - 1 \in 1..Len(q)
               /\ q[n + 2 * k - 1] = Node("Unary", k, <<Variable>>)
               /\ q[n + 2 * k] = Node("Add", k, <<Variable, n + 2 * k - 1>>)
    <2>1. /\ 2 * k \in 1..2 * NKeys /\ 2 * k - 1 \in 1..2 * NKeys /\ n + (2 * k - 1) = n + 2 * k - 1
          /\ k \in Nat \ {0} /\ n + 2 * k \in 1..Len(q) /\ n + 2 * k - 1 \in 1..Len(q)
      BY <1>2, <1>3
    <2>2. /\ q[n + (2 * k - 1)] = PushedFrom(1, n, 2 * k - 1)
          /\ q[n + 2 * k] = PushedFrom(1, n, 2 * k)
      BY <1>3, <2>1
    <2> QED BY <1>2, <2>1, <2>2, NodesOfKey
  <1>6. Ordered(q)
    <2> SUFFICES ASSUME NEW i \in 1..Len(q), NEW j \in DOMAIN q[i].children
                 PROVE  q[i].children[j] \in 1..(i - 1)
      BY <1>4 DEF Ordered
    <2>1. CASE i <= n
      <3>1. i \in 1..Len(ns) /\ q[i] = ns[i]
        BY <1>1, <1>2, <1>3, <2>1
      <3> QED BY <3>1 DEF WellFormed, Ordered
    <2>2. CASE ~ (i <= n)
      <3>1. PICK r, k : r = i - n /\ k = (r + 1) \div 2
        OBVIOUS
      <3>2. r \in 1..2 * NKeys /\ i = n + r
        BY <1>2, <1>3, <2>2, <3>1
      <3>3. k \in 1..NKeys /\ (r = 2 * k - 1 \/ r = 2 * k)
        BY <1>2, <3>1, <3>2
      <3>4. CASE r = 2 * k - 1
        <4>1. q[i] = Node("Unary", k, <<Variable>>)
          <5>1. i = n + 2 * k - 1
            BY <1>2, <3>2, <3>3, <3>4
          <5> QED BY <1>5, <3>3, <5>1
        <4>2. q[i].children = <<1>>
          BY <4>1 DEF Node, Variable
        <4> QED BY <1>2, <3>2, <4>2
      <3>5. CASE r = 2 * k
        <4>1. PICK m : m = i - 1
          OBVIOUS
        <4>2. q[i] = Node("Add", k, <<Variable, m>>)
          <5>1. i = n + 2 * k /\ m = n + 2 * k - 1
            BY <1>2, <3>2, <3>3, <3>5, <4>1
          <5> QED BY <1>5, <3>3, <5>1
        <4>3. q[i].children = <<1, m>>
          BY <4>2 DEF Node, Variable
        <4> QED BY <1>2, <3>2, <4>1, <4>3
      <3> QED BY <3>3, <3>4, <3>5
    <2> QED BY <2>1, <2>2
  <1>7. WellFormed(q)
    <2>1. q[1] = ns[1] /\ Len(q) >= 1
      BY <1>2, <1>3
    <2> QED BY <1>3, <1>6, <2>1 DEF WellFormed
  <1>8. \A i \in 1..n : Terms(q)[i] = Terms(ns)[i]
    <2>1. n <= Len(ns) /\ n <= Len(q) /\ Ordered(ns)
      BY <1>1, <1>2, <1>3 DEF WellFormed
    <2> QED BY <1>2, <1>3, <1>6, <2>1, TermsAgree
  <1>9. ASSUME NEW k \in 1..NKeys PROVE Terms(q)[n + 2 * k] = KeyTerm(k)
    <2>1. Terms(q)[n + 2 * k - 1] = <<"Unary", k, <<VariableTerm>>>>
      BY <1>5, <1>7, TermOfUnary
    <2>2. Terms(q)[n + 2 * k] = <<"Add", k, <<VariableTerm, Terms(q)[n + 2 * k - 1]>>>>
      BY <1>5, <1>7, TermOfAdd
    <2> QED BY <2>1, <2>2 DEF KeyTerm
  <1> QED BY <1>1, <1>3, <1>7, <1>8, <1>9

\* The roots that the merge gives out.
LEMMA RootsOfKeys ==
    ASSUME ForksHoldRules, AllDone, nodes \in Seq(AnyNode), Len(nodes) >= 1, LocalBase = Len(nodes),
           NEW c \in ChunkIds, NEW h \in MergedRoots(c)
    PROVE  \E k \in 1..NKeys : h = Handle(Len(nodes) + 2 * k, KeyTerm(k))
  <1>1. PICK k \in ChunkKeys(c) :
          h = Handle(Apply(LocalBase + 2 * (k - FirstKey(c) + 1), LocalBase, Len(MergedUpTo[c - 1])),
                     KeyTerm(k))
    BY DEF MergedRoots
  <1>2. PICK n, a, f, g : n = Len(nodes) /\ a = KeysBefore(c - 1) /\ f = FirstKey(c)
                          /\ g = Len(MergedUpTo[c - 1])
    OBVIOUS
  <1>3. f = a + 1 /\ c - 1 \in 0..NChunks /\ a \in Nat /\ k \in 1..NKeys /\ k >= f /\ k \in Int
    <2>1. c - 1 \in 0..NChunks /\ f = a + 1 /\ ChunkKeys(c) = f..KeysBefore(c)
      BY <1>2, KeysOfChunks
    <2>2. a \in 0..NKeys
      BY <1>2, <2>1, KeysOfChunks
    <2>3. k \in 1..NKeys
      BY DEF ChunkKeys
    <2>4. KeysBefore(c) \in Int
      BY SizeAssumption, ChunkCount DEF KeysBefore, ChunkIds
    <2> QED BY <2>1, <2>2, <2>3, <2>4, SizeAssumption
  <1>4. g = n + 2 * a /\ n \in Nat
    BY <1>2, <1>3, MergedNodes
  <1>5. Apply(n + 2 * (k - f + 1), n, g) = n + 2 * k
    <2>1. ~ (n + 2 * (k - f + 1) <= n) /\ g + ((n + 2 * (k - f + 1)) - n) = n + 2 * k
      BY <1>3, <1>4
    <2> QED BY <2>1 DEF Apply
  <1> QED BY <1>1, <1>2, <1>3, <1>5

-----------------------------------------------------------------------------
(* The identifiers given out                                               *)

\* Every identifier given out is that of a node with the term that was meant.
HandlesFit == \A h \in handles : h.id \in 1..Len(nodes) /\ Terms(nodes)[h.id] = h.term

DInv == WellFormed(nodes) /\ HandlesFit /\ ForksHoldRules

LEMMA InitDInv == Init => DInv
  <1> SUFFICES ASSUME Init PROVE DInv
    OBVIOUS
  <1>1. PICK v : v = Node("Var", 0, <<>>)
    OBVIOUS
  <1>2. v \in AnyNode /\ v.children = <<>> /\ nodes = <<v>>
    BY <1>1 DEF Node, AnyNode, Init, FirstArena
  <1>3. /\ nodes \in Seq(AnyNode) /\ Len(nodes) = 1 /\ DOMAIN nodes = 1..Len(nodes) /\ nodes[1] = v
    BY <1>2
  <1>4. Ordered(nodes)
    <2>1. \A i \in 1..Len(nodes) : nodes[i].children = <<>>
      BY <1>2, <1>3
    <2>2. \A i \in 1..Len(nodes) : DOMAIN nodes[i].children = {}
      BY <2>1
    <2> QED BY <1>3, <2>2 DEF Ordered
  <1>5. WellFormed(nodes)
    BY <1>1, <1>3, <1>4 DEF WellFormed
  <1>6. HandlesFit
    <2>1. Terms(nodes)[1] = VariableTerm
      BY <1>5, TermOfVariable
    <2> QED BY <1>3, <2>1 DEF HandlesFit, Init, Handle, Variable
  <1>7. ForksHoldRules
    <2> SUFFICES ASSUME NEW c \in ChunkIds
                 PROVE  /\ local[c] \in Seq(AnyNode)
                        /\ \A i \in 1..Len(local[c]) : local[c][i] = PushedFrom(FirstKey(c), LocalBase, i)
                        /\ status[c] = "done" => Len(local[c]) = 2 * Cardinality(ChunkKeys(c))
      BY DEF ForksHoldRules
    <2>1. local[c] = <<>> /\ status[c] # "done"
      BY DEF Init
    <2> QED BY <2>1
  <1> QED BY <1>5, <1>6, <1>7 DEF DInv

\* A step that leaves arena and forks alone.
LEMMA UntouchedKeeps ==
    ASSUME DInv, UNCHANGED <<nodes, handles, snapshot, local>>,
           \A c \in ChunkIds : status'[c] = "done" => status[c] = "done"
    PROVE  DInv'
  <1>1. WellFormed(nodes)' /\ HandlesFit'
    BY DEF DInv, HandlesFit
  <1>2. LocalBase' = LocalBase
    BY DEF LocalBase
  <1>3. ForksHoldRules'
    BY <1>2 DEF DInv, ForksHoldRules
  <1> QED BY <1>1, <1>3 DEF DInv

\* A step that empties the forks.
LEMMA ResetKeeps ==
    ASSUME DInv, UNCHANGED <<nodes, handles>>, local' = [c \in ChunkIds |-> <<>>],
           \A c \in ChunkIds : status'[c] # "done"
    PROVE  DInv'
  <1>1. WellFormed(nodes)' /\ HandlesFit'
    BY DEF DInv, HandlesFit
  <1>2. ForksHoldRules'
    <2> SUFFICES ASSUME NEW c \in ChunkIds
                 PROVE  /\ local'[c] \in Seq(AnyNode)
                        /\ \A i \in 1..Len(local'[c]) : local'[c][i] = PushedFrom(FirstKey(c), LocalBase', i)
                        /\ status'[c] = "done" => Len(local'[c]) = 2 * Cardinality(ChunkKeys(c))
      BY DEF ForksHoldRules
    <2>1. local'[c] = <<>>
      OBVIOUS
    <2> QED BY <2>1
  <1> QED BY <1>1, <1>2 DEF DInv

\* A node pushed to the arena itself.
LEMMA PushOwnKeeps ==
    ASSUME DInv, NEW t \in Threads, PushOwn(t), UNCHANGED batchVars
    PROVE  DInv'
  <1>1. PICK ns, ms, n : ns = nodes /\ ms = nodes' /\ n = Len(nodes)
    OBVIOUS
  <1>2. WellFormed(ns) /\ ms = Append(ns, Node("Unary", t, <<Variable>>)) /\ n = Len(ns)
    BY <1>1 DEF DInv, PushOwn
  <1>3. /\ WellFormed(ms) /\ Len(ms) = n + 1
        /\ \A i \in 1..n : Terms(ms)[i] = Terms(ns)[i]
        /\ Terms(ms)[n + 1] = OwnTerm(t)
    BY <1>2, OwnNode
  <1>4. n \in Nat
    BY <1>2 DEF WellFormed, Ordered
  <1>5. ASSUME NEW h \in handles' PROVE h.id \in 1..Len(ms) /\ Terms(ms)[h.id] = h.term
    <2>1. CASE h \in handles
      <3>1. h.id \in 1..n /\ Terms(ns)[h.id] = h.term
        BY <1>1, <2>1 DEF DInv, HandlesFit
      <3> QED BY <1>3, <1>4, <3>1
    <2>2. CASE h = Handle(n + 1, OwnTerm(t))
      <3>1. h.id = n + 1 /\ h.term = OwnTerm(t)
        BY <2>2 DEF Handle
      <3> QED BY <1>3, <1>4, <3>1
    <2> QED BY <1>1, <2>1, <2>2 DEF PushOwn
  <1>6. WellFormed(nodes)' /\ HandlesFit'
    BY <1>1, <1>3, <1>5 DEF HandlesFit
  <1>7. ForksHoldRules'
    <2>1. LocalBase' = LocalBase /\ UNCHANGED <<local, status>>
      BY DEF LocalBase, batchVars
    <2> QED BY <2>1 DEF DInv, ForksHoldRules
  <1> QED BY <1>6, <1>7 DEF DInv

\* A node pushed to a fork.
LEMMA PushKeeps ==
    ASSUME IInv, DInv, NEW w \in Threads, InFork(w), Push(w),
           UNCHANGED <<nodes, handles, snapshot, status>>
    PROVE  DInv'
  <1>1. PICK c, b, q : c = fork[w] /\ b = LocalBase /\ q = local[c]
    OBVIOUS
  <1>2. c \in ChunkIds /\ status[c] = "running"
    BY <1>1, ForkIsChunk DEF IInv, RoutingEndsWithRule
  <1>3. b \in Nat
    <2>1. snapshot.nodes = nodes
      BY <1>2 DEF IInv, ChunksAreLive, Current
    <2> QED BY <1>1, <2>1 DEF LocalBase, DInv, WellFormed, Ordered
  <1>4. FirstKey(c) \in Int
    <2>1. c \in Int /\ ChunkSize \in Int
      BY <1>2, SizeAssumption, ChunkCount DEF ChunkIds
    <2> QED BY <2>1 DEF FirstKey
  <1>5. q \in Seq(AnyNode) /\ \A i \in 1..Len(q) : q[i] = PushedFrom(FirstKey(c), b, i)
    BY <1>1, <1>2 DEF DInv, ForksHoldRules
  <1>6. PICK p : p = PushedFrom(FirstKey(c), b, Len(q) + 1)
    OBVIOUS
  <1>7. p \in AnyNode
    <2>1. Len(q) \in Nat
      BY <1>5
    <2>2. FirstKey(c) + (Len(q) + 1 - 1) \div 2 \in Int /\ b + (Len(q) + 1) \in Int
      BY <1>3, <1>4, <2>1
    <2> QED BY <1>6, <2>2, RuleNodeType DEF PushedFrom
  <1>8. NextNode(w) = p
    <2>1. PICK l : l = Len(q)
      OBVIOUS
    <2>2. (l + 1) - 1 = l /\ b + l + 1 = b + (l + 1)
      BY <1>3, <1>5, <2>1
    <2>3. NextNode(w) = RuleNode(FirstKey(c) + l \div 2, l % 2, b + l + 1)
      BY <1>1, <2>1 DEF NextNode
    <2>4. p = RuleNode(FirstKey(c) + ((l + 1) - 1) \div 2, ((l + 1) - 1) % 2, b + (l + 1))
      BY <1>6, <2>1 DEF PushedFrom
    <2> QED BY <2>2, <2>3, <2>4
  <1>9. PICK r : r = Append(q, p)
    OBVIOUS
  <1>10. /\ r \in Seq(AnyNode) /\ Len(r) = Len(q) + 1
         /\ \A i \in 1..Len(q) : r[i] = q[i]
         /\ r[Len(q) + 1] = p
    <2> DEFINE D == AnyNode
    <2>1. q \in Seq(D) /\ p \in D
      BY <1>5, <1>7
    <2> HIDE DEF D
    <2>2. /\ r \in Seq(D) /\ Len(r) = Len(q) + 1
          /\ \A i \in 1..Len(q) : r[i] = q[i]
          /\ r[Len(q) + 1] = p
      BY <1>9, <2>1
    <2> QED BY <2>2 DEF D
  <1>11. \A i \in 1..Len(r) : r[i] = PushedFrom(FirstKey(c), b, i)
    <2> SUFFICES ASSUME NEW i \in 1..Len(r) PROVE r[i] = PushedFrom(FirstKey(c), b, i)
      OBVIOUS
    <2>1. i \in 1..Len(q) \/ i = Len(q) + 1
      <3>1. Len(q) \in Nat
        BY <1>5
      <3> QED BY <1>10, <3>1
    <2> QED BY <1>5, <1>6, <1>10, <2>1
  <1>12. \A d \in ChunkIds : local'[d] = IF d = c THEN IF c \in DOMAIN local THEN r ELSE local'[d] ELSE local'[d]
    BY <1>1, <1>8, <1>9 DEF Push
  <1>13. ASSUME NEW d \in ChunkIds
         PROVE  /\ local'[d] \in Seq(AnyNode)
                /\ \A i \in 1..Len(local'[d]) : local'[d][i] = PushedFrom(FirstKey(d), b, i)
                /\ status'[d] = "done" => Len(local'[d]) = 2 * Cardinality(ChunkKeys(d))
    <2>1. CASE d = c /\ c \in DOMAIN local
      <3>1. local'[d] = r
        BY <1>12, <2>1
      <3> QED BY <1>2, <1>10, <1>11, <2>1, <3>1
    <2>2. CASE ~ (d = c /\ c \in DOMAIN local)
      <3>1. local'[d] = local[d]
        BY <1>1, <2>2 DEF Push
      <3> QED BY <1>1, <3>1 DEF DInv, ForksHoldRules
    <2> QED BY <2>1, <2>2
  <1>14. LocalBase' = b
    BY <1>1 DEF LocalBase
  <1>15. ForksHoldRules'
    BY <1>13, <1>14 DEF ForksHoldRules
  <1> QED BY <1>15 DEF DInv, HandlesFit

\* A fork that is complete.
LEMMA FinishKeeps ==
    ASSUME IInv, DInv, NEW w \in Threads, FinishChunk(w)
    PROVE  DInv'
  <1>1. LocalBase' = LocalBase /\ UNCHANGED <<nodes, handles, local>>
    BY DEF FinishChunk, LocalBase
  <1>2. \A c \in ChunkIds : status'[c] = "done" => status[c] = "done" \/ c = fork[w]
    BY DEF FinishChunk
  <1>3. Len(local[fork[w]]) = 2 * Cardinality(ChunkKeys(fork[w]))
    BY DEF FinishChunk, Complete
  <1>4. ForksHoldRules'
    BY <1>1, <1>2, <1>3 DEF DInv, ForksHoldRules
  <1> QED BY <1>1, <1>4 DEF DInv, HandlesFit

\* The merge.
LEMMA MergeKeepsTerms ==
    ASSUME DInv, NEW t \in Threads, Merge(t)
    PROVE  DInv' /\ nodes' = Sequential(nodes)
  <1>1. /\ ForksHoldRules /\ AllDone /\ nodes \in Seq(AnyNode) /\ Len(nodes) >= 1
        /\ LocalBase = Len(nodes) /\ WellFormed(nodes)
    BY DEF DInv, WellFormed, Merge, Current, LocalBase
  <1>2. nodes' = Sequential(nodes)
    BY <1>1, MergeIsSequential DEF Merge
  <1>3. PICK ns, ms, n : ns = nodes /\ ms = nodes' /\ n = Len(nodes)
    OBVIOUS
  <1>4. /\ WellFormed(ms) /\ Len(ms) = n + 2 * NKeys
        /\ \A i \in 1..n : Terms(ms)[i] = Terms(ns)[i]
        /\ \A k \in 1..NKeys : Terms(ms)[n + 2 * k] = KeyTerm(k)
    BY <1>1, <1>2, <1>3, SequentialTerms
  <1>5. n \in Nat /\ NKeys \in Nat
    BY <1>1, <1>3, SizeAssumption DEF WellFormed, Ordered
  <1>6. ASSUME NEW h \in handles' PROVE h.id \in 1..Len(ms) /\ Terms(ms)[h.id] = h.term
    <2>1. CASE h \in handles
      <3>1. h.id \in 1..n /\ Terms(ns)[h.id] = h.term
        BY <1>3, <2>1 DEF DInv, HandlesFit
      <3> QED BY <1>4, <1>5, <3>1
    <2>2. CASE h \notin handles
      <3>1. PICK c \in ChunkIds : h \in MergedRoots(c)
        BY <2>2 DEF Merge
      <3>2. PICK k \in 1..NKeys : h = Handle(n + 2 * k, KeyTerm(k))
        BY <1>1, <1>3, <3>1, RootsOfKeys
      <3>3. h.id = n + 2 * k /\ h.term = KeyTerm(k)
        BY <3>2 DEF Handle
      <3> QED BY <1>4, <1>5, <3>3
    <2> QED BY <2>1, <2>2
  <1>7. WellFormed(nodes)' /\ HandlesFit'
    BY <1>3, <1>4, <1>6 DEF HandlesFit
  <1>8. ForksHoldRules'
    <2> SUFFICES ASSUME NEW c \in ChunkIds
                 PROVE  /\ local'[c] \in Seq(AnyNode)
                        /\ \A i \in 1..Len(local'[c]) : local'[c][i] = PushedFrom(FirstKey(c), LocalBase', i)
                        /\ status'[c] = "done" => Len(local'[c]) = 2 * Cardinality(ChunkKeys(c))
      BY DEF ForksHoldRules
    <2>1. local'[c] = <<>> /\ status'[c] # "done"
      BY DEF Merge
    <2> QED BY <2>1
  <1> QED BY <1>2, <1>7, <1>8 DEF DInv

\* Every step keeps arena, identifiers and forks.
LEMMA StepDInv ==
    ASSUME IInv, DInv, [Next]_vars
    PROVE  DInv'
  <1> USE DEF batchVars
  <1>1. CASE UNCHANGED vars
    BY <1>1, UntouchedKeeps DEF vars
  <1>2. ASSUME NEW t \in Outsiders, WriteThroughGuard(t) PROVE DInv'
    <2>1. t \in Threads
      BY DEF Threads
    <2>2. CASE PushOwn(t)
      BY <1>2, <2>1, <2>2, PushOwnKeeps DEF WriteThroughGuard
    <2>3. CASE ~PushOwn(t)
      BY <1>2, <2>3, UntouchedKeeps DEF WriteThroughGuard
    <2> QED BY <2>2, <2>3
  <1>3. ASSUME NEW t \in Outsiders, NEW op \in Ops, OutsiderCall(t, op) PROVE DInv'
    BY <1>3, UntouchedKeeps DEF OutsiderCall
  <1>4. ASSUME NEW t \in Threads, NEW op \in Ops, RuleCall(t, op) PROVE DInv'
    <2>1. CASE Push(t) /\ UNCHANGED <<call, fork, status>>
      BY <1>4, <2>1, PushKeeps DEF RuleCall
    <2>2. CASE Unwind(t) /\ UNCHANGED local
      <3>1. \A c \in ChunkIds : status'[c] = "done" => status[c] = "done"
        BY <2>2 DEF Unwind
      <3> QED BY <1>4, <2>2, <3>1, UntouchedKeeps DEF RuleCall
    <2>3. CASE UNCHANGED <<fork, status, local>>
      BY <1>4, <2>3, UntouchedKeeps DEF RuleCall
    <2> QED BY <1>4, <2>1, <2>2, <2>3 DEF RuleCall
  <1>5. ASSUME NEW t \in Threads, RulePanics(t) PROVE DInv'
    <2>1. \A c \in ChunkIds : status'[c] = "done" => status[c] = "done"
      BY <1>5 DEF RulePanics, Unwind
    <2> QED BY <1>5, <2>1, UntouchedKeeps DEF RulePanics
  <1>6. ASSUME NEW t \in Threads, FetchOr(t) PROVE DInv'
    <2>1. \A c \in ChunkIds : status'[c] = "done" => status[c] = "done"
      <3>1. CASE Unwind(t)
        BY <3>1 DEF Unwind, IInv, ControlType
      <3>2. CASE UNCHANGED status
        BY <3>2
      <3> QED BY <1>6, <3>1, <3>2 DEF FetchOr, Panic
    <2> QED BY <1>6, <2>1, UntouchedKeeps DEF FetchOr
  <1>7. ASSUME NEW t \in Threads, Acquire(t) PROVE DInv'
    <2>1. CASE AcquireAndRelease(t) /\ PushOwn(t)
      BY <2>1, PushOwnKeeps DEF AcquireAndRelease
    <2>2. CASE AcquireAndRelease(t) /\ ~PushOwn(t)
      BY <2>2, UntouchedKeeps DEF AcquireAndRelease
    <2>3. CASE AcquireToWrite(t)
      BY <2>3, UntouchedKeeps DEF AcquireToWrite
    <2>4. CASE AcquireToBatch(t)
      BY <2>4, ResetKeeps DEF AcquireToBatch, TakeSnapshot
    <2> QED BY <1>7, <2>1, <2>2, <2>3, <2>4 DEF Acquire
  <1>8. ASSUME NEW t \in Threads, SetWriteBit(t) PROVE DInv'
    BY <1>8, UntouchedKeeps DEF SetWriteBit
  <1>9. ASSUME NEW t \in Threads, Release(t) PROVE DInv'
    <2>1. CASE DropWriteGuard(t)
      BY <2>1, UntouchedKeeps DEF DropWriteGuard
    <2>2. CASE Merge(t)
      BY <2>2, MergeKeepsTerms
    <2>3. CASE DropBatchGuard(t)
      BY <2>3, ResetKeeps DEF DropBatchGuard
    <2>4. CASE Unlock(t)
      BY <2>4, UntouchedKeeps DEF Unlock
    <2> QED BY <1>9, <2>1, <2>2, <2>3, <2>4 DEF Release
  <1>10. ASSUME NEW t \in Threads, FinishChunk(t) PROVE DInv'
    BY <1>10, FinishKeeps
  <1>11. ASSUME NEW t \in Threads, NEW c \in ChunkIds, StartChunk(t, c) PROVE DInv'
    <2>1. \A d \in ChunkIds : status'[d] = "done" => status[d] = "done"
      BY <1>11 DEF StartChunk
    <2> QED BY <1>11, <2>1, UntouchedKeeps DEF StartChunk
  <1> QED BY <1>1, <1>2, <1>3, <1>4, <1>5, <1>6, <1>7, <1>8, <1>9, <1>10, <1>11 DEF Next

LEMMA DataInvariant == Spec => []DInv
  <1>1. IInv /\ DInv /\ [Next]_vars => DInv'
    BY StepDInv
  <1> QED BY InitDInv, <1>1, ControlInvariant, PTL DEF Spec

\* A chunk becomes merged only in the merge.
LEMMA OnlyMergeMerges ==
    ASSUME IInv, [Next]_vars, AllDone, Merged'
    PROVE  \E t \in Threads : Merge(t)
  <1> USE DEF batchVars
  <1>1. 1 \in ChunkIds /\ status[1] = "done" /\ status'[1] = "merged"
    BY KeysOfChunks DEF ChunkIds, AllDone, Merged
  <1>2. ASSUME status' = status \/ \E c : \E v \in {"running", "done", "panicked"} :
                                            status' = [status EXCEPT ![c] = v]
        PROVE  FALSE
    <2>1. CASE status' = status
      BY <1>1, <2>1
    <2>2. ASSUME NEW c, NEW v \in {"running", "done", "panicked"}, status' = [status EXCEPT ![c] = v]
          PROVE  FALSE
      <3>1. status \in [ChunkIds -> Statuses]
        BY DEF IInv, ControlType
      <3>2. status'[1] = v \/ status'[1] = status[1]
        BY <1>1, <2>2, <3>1
      <3> QED BY <1>1, <2>2, <3>2
    <2> QED BY <1>2, <2>1, <2>2
  <1>3. ASSUME \E v \in {"todo", "idle"} : status' = [c \in ChunkIds |-> v]
        PROVE  FALSE
    BY <1>1, <1>3
  <1>4. CASE UNCHANGED vars
    BY <1>2, <1>4 DEF vars
  <1>5. ASSUME NEW t \in Outsiders, WriteThroughGuard(t) PROVE FALSE
    BY <1>2, <1>5 DEF WriteThroughGuard
  <1>6. ASSUME NEW t \in Outsiders, NEW op \in Ops, OutsiderCall(t, op) PROVE FALSE
    BY <1>2, <1>6 DEF OutsiderCall
  <1>7. ASSUME NEW t \in Threads, FetchOr(t) \/ (\E op \in Ops : RuleCall(t, op)) \/ RulePanics(t)
        PROVE  FALSE
    BY <1>2, <1>7 DEF FetchOr, RuleCall, RulePanics, Panic, Unwind
  <1>8. ASSUME NEW t \in Threads, Acquire(t) \/ SetWriteBit(t) PROVE FALSE
    BY <1>2, <1>3, <1>8 DEF Acquire, AcquireAndRelease, AcquireToWrite, AcquireToBatch, TakeSnapshot, SetWriteBit
  <1>9. ASSUME NEW t \in Threads, DropWriteGuard(t) \/ DropBatchGuard(t) \/ Unlock(t) PROVE FALSE
    BY <1>2, <1>3, <1>9 DEF DropWriteGuard, DropBatchGuard, Unlock
  <1>10. ASSUME NEW t \in Threads, FinishChunk(t) \/ \E c \in ChunkIds : StartChunk(t, c) PROVE FALSE
    BY <1>2, <1>10 DEF FinishChunk, StartChunk
  <1> QED BY <1>4, <1>5, <1>6, <1>7, <1>8, <1>9, <1>10 DEF Next, Release

\* An identifier given out denotes its term for ever, whoever pushed the node and
\* wherever the merge moved it.
THEOREM HandlesKeepTheirMeaning == Spec => []HandlesDenote
  <1>1. DInv => HandlesDenote
    BY DEF DInv, HandlesFit, HandlesDenote
  <1> QED BY <1>1, DataInvariant, PTL

\* However the workers interleave, the merge leaves the arena of the sequential builder.
THEOREM ParallelIsSequential == Spec => ParallelMatchesSequential
  <1>1. IInv /\ DInv /\ [Next]_vars => ((AllDone /\ Merged') => nodes' = Sequential(nodes))
    BY OnlyMergeMerges, MergeKeepsTerms
  <1>2. IInv /\ DInv /\ [Next]_vars => [(AllDone /\ Merged') => nodes' = Sequential(nodes)]_vars
    BY <1>1
  <1> QED BY <1>2, ControlInvariant, DataInvariant, PTL DEF Spec, ParallelMatchesSequential
=============================================================================
