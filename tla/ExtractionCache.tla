--------------------------- MODULE ExtractionCache ---------------------------
(***************************************************************************)
(* ExtractionCache (crates/oximo-solver/src/prepare.rs): one shard of the  *)
(* bounded cache of expression decompositions that lowering threads share. *)
(* An expression is cached when it is asked for twice in a row (the        *)
(* admission slots), extraction runs outside the shard's lock, failures    *)
(* are cached too, and a failure may later be replaced by terms recovered  *)
(* from a quadratic decomposition.  Old entries leave first.               *)
(*                                                                         *)
(* A step of a thread is one lock section or one atomic operation.  An Arc *)
(* is named by the thread that published it.                               *)
(***************************************************************************)
EXTENDS Integers, SequencesExt, Queues

CONSTANTS Threads, Exprs,
          Size,          \* Size[e]: coefficients of the terms of e
          Slot,          \* Slot[e]: admission slot of e
          Unextractable, \* expressions whose own extraction fails
          Recoverable,   \* ... of which a quadratic decomposition may be affine
          Capacity,      \* CACHE_EXPRESSIONS / CACHE_SHARDS
          Budget,        \* CACHE_COEFFICIENTS / CACHE_SHARDS
          Failure, None

\* Nothing larger than the budget is ever offered to the queue, so that it has to be
\* able to hold one entry.
ConstantsAreApart == /\ Capacity \in Nat \ {0} /\ Budget \in Nat /\ Size \in [Exprs -> Nat]
                     /\ Failure \notin Threads

VARIABLES shards,        \* the shards exist (OnceLock)
          recent,        \* last expression seen by each admission slot, or None
          values,        \* the cached expressions: an Arc or Failure
          order,         \* the entries with their sizes, oldest first
          coefficients,  \* sum of the retained sizes, kept incrementally
          pc, expr,      \* what each thread is doing, and for which expression
          quadratic      \* the thread's call found affine terms in a quadratic cache

vars == <<shards, recent, values, order, coefficients, pc, expr, quadratic>>
cache == <<shards, recent, values, order, coefficients>>

Slots == {Slot[e] : e \in Exprs}
IsCached(e) == e \in DOMAIN values /\ values[e] # Failure

Step(t, next) == pc' = [pc EXCEPT ![t] = next] /\ UNCHANGED <<expr, quadratic>>

\* extract, as compound_linear passes it.
Extracts(t) == expr[t] \notin Unextractable \/ quadratic[t]

Init == /\ shards = FALSE
        /\ recent = [s \in Slots |-> None]
        /\ values = [e \in {} |-> Failure]
        /\ order = <<>>
        /\ coefficients = 0
        /\ pc = [t \in Threads |-> "idle"]
        /\ expr = [t \in Threads |-> None]
        /\ quadratic = [t \in Threads |-> FALSE]

\* extract reads the OnceLock: without shards the admission hint comes first.  A
\* cached quadratic with a Hessian is answered before this cache is asked.
Call(t, e) == /\ pc[t] = "idle"
              /\ pc' = [pc EXCEPT ![t] = IF shards THEN "lookup" ELSE "admitFirst"]
              /\ expr' = [expr EXCEPT ![t] = e]
              /\ \E found \in BOOLEAN : /\ found => e \in Recoverable
                                      /\ quadratic' = [quadratic EXCEPT ![t] = found]
              /\ UNCHANGED cache

\* A hit returns the shared value; a cached failure may be recovered by the caller.
Lookup(t) == /\ pc[t] \in {"lookup", "lookupAdmitted"}
             /\ UNCHANGED cache
             /\ Step(t, IF expr[t] \notin DOMAIN values
                        THEN IF pc[t] = "lookup" THEN "admit" ELSE "extract"
                        ELSE IF values[expr[t]] = Failure THEN "failed" ELSE "shared")

\* recent[slot].swap(key) == key.
Admit(t) == /\ pc[t] \in {"admit", "admitFirst"}
            /\ recent' = [recent EXCEPT ![Slot[expr[t]]] = expr[t]]
            /\ UNCHANGED <<values, order, coefficients>>
            /\ \/ /\ recent[Slot[expr[t]]] # expr[t]
                  /\ Step(t, IF Extracts(t) THEN "owned" ELSE "failed")
                  /\ UNCHANGED shards
               \/ /\ recent[Slot[expr[t]]] = expr[t]
                  /\ shards' = TRUE
                  /\ Step(t, IF pc[t] = "admit" THEN "extract" ELSE "lookupAdmitted")

Sizes(entries) == [i \in DOMAIN entries |-> entries[i].size]

\* Fault: the entry of the failure stays in the queue.
InsertKeepingStale(t, e, value, size) ==
    LET Left(k) == DOMAIN values \ ({e} \cup {order[i].expr : i \in 1..k})
        Freed(k) == Partials(Sizes(order))[k]
        Fits(k) == Cardinality(Left(k)) < Capacity /\ coefficients - Freed(k) + size <= Budget
        k == CHOOSE i \in 0..Len(order) : Fits(i) /\ \A j \in 0..(i - 1) : ~ Fits(j)
    IN /\ order' = Append(SubSeq(order, k + 1, Len(order)), [expr |-> e, size |-> size])
       /\ coefficients' = coefficients - Freed(k) + size
       /\ values' = [x \in Left(k) \cup {e} |-> IF x = e THEN value ELSE values[x]]

\* Replace a failure, whose entry is in the queue once, evict from the front until the
\* entry fits (the code panics if the queue runs empty first; then no k would exist),
\* append the entry.
Insert(t, e, value, size) ==
    LET stale == {e} \cap DOMAIN values
        kept == IF stale = {} THEN order
                ELSE RemoveAt(order, CHOOSE i \in DOMAIN order : order[i].expr = e)
        Left(k) == DOMAIN values \ (stale \cup {kept[i].expr : i \in 1..k})
        Freed(k) == Partials(Sizes(kept))[k]
        Fits(k) == Cardinality(Left(k)) < Capacity /\ coefficients - Freed(k) + size <= Budget
        k == CHOOSE i \in 0..Len(kept) : Fits(i) /\ \A j \in 0..(i - 1) : ~ Fits(j)
    IN /\ order' = Append(SubSeq(kept, k + 1, Len(kept)), [expr |-> e, size |-> size])
       /\ coefficients' = coefficients - Freed(k) + size
       /\ values' = [x \in Left(k) \cup {e} |-> IF x = e THEN value ELSE values[x]]

\* Fault: the last thread to publish wins.
PublishLast(t, e, success) ==
    LET size == IF success THEN Size[e] ELSE 0
    IN \/ size > Budget /\ UNCHANGED cache /\ Step(t, "owned")
       \/ /\ size <= Budget
          /\ Insert(t, e, IF success THEN t ELSE Failure, size)
          /\ Step(t, IF success THEN "shared" ELSE "failed")
          /\ UNCHANGED <<shards, recent>>

\* publish, in one lock section; terms beyond the budget are never retained.
Publish(t, e, success) ==
    LET size == IF success THEN Size[e] ELSE 0
        settled == e \in DOMAIN values /\ (values[e] # Failure \/ ~ success)
    IN \/ /\ size > Budget
          /\ UNCHANGED cache
          /\ Step(t, "owned")
       \/ /\ size <= Budget /\ settled
          /\ UNCHANGED cache
          /\ Step(t, IF values[e] = Failure THEN "failed" ELSE "shared")
       \/ /\ size <= Budget /\ ~ settled
          /\ Insert(t, e, IF success THEN t ELSE Failure, size)
          /\ Step(t, IF success THEN "shared" ELSE "failed")
          /\ UNCHANGED <<shards, recent>>

\* The extraction itself touches nothing shared; publishing is its visible step.
ExtractAndPublish(t) == /\ pc[t] = "extract"
                        /\ Publish(t, expr[t], Extracts(t))

\* compound_linear replaces a failure it was given by the terms it found.
Recover(t) == /\ pc[t] = "failed" /\ quadratic[t]
              /\ shards' = TRUE
              /\ UNCHANGED <<recent, values, order, coefficients>>
              /\ Step(t, "recovered")

PublishRecovered(t) == pc[t] = "recovered" /\ Publish(t, expr[t], TRUE)

Return(t) == /\ pc[t] \in {"owned", "shared", "failed"}
             /\ pc[t] = "failed" => ~ quadratic[t]
             /\ pc' = [pc EXCEPT ![t] = "idle"]
             /\ expr' = [expr EXCEPT ![t] = None]
             /\ quadratic' = [quadratic EXCEPT ![t] = FALSE]
             /\ UNCHANGED cache

Next == \E t \in Threads :
           \/ \E e \in Exprs : Call(t, e)
           \/ Lookup(t) \/ Admit(t) \/ ExtractAndPublish(t)
           \/ Recover(t) \/ PublishRecovered(t) \/ Return(t)

Spec == Init /\ [][Next]_vars
-----------------------------------------------------------------------------
(* Properties *)

\* The queue, the map and the running sum describe the same entries, within both
\* limits: eviction always finds an entry to evict and never subtracts too much.
\* Replacing a failure relies on failures having no size.
QueuesAccount ==
    /\ \A i \in DOMAIN order : order[i].expr \in DOMAIN values
    /\ \A e \in DOMAIN values : \E i \in DOMAIN order : order[i].expr = e
    /\ \A i, j \in DOMAIN order : order[i].expr = order[j].expr => i = j
    /\ \A i \in DOMAIN order :
          order[i].size = IF values[order[i].expr] = Failure THEN 0 ELSE Size[order[i].expr]
    /\ coefficients = Total(Sizes(order))
    /\ Cardinality(DOMAIN values) <= Capacity /\ coefficients <= Budget

\* Threads that miss the same expression together may extract it twice, but share
\* one published value: published terms are never replaced, by a failure or by a copy.
SuccessSticks ==
    [][\A e \in Exprs : IsCached(e) /\ e \in DOMAIN values' => values'[e] = values[e]]_vars
=============================================================================
