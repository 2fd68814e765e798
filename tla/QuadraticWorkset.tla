-------------------------- MODULE QuadraticWorkset --------------------------
(***************************************************************************)
(* QuadraticWorkset (crates/oximo-solver/src/prepare/workset.rs): one      *)
(* shard of the quadratic decompositions that the threads of one           *)
(* preparation share.  Every root has a OnceLock of its own, so threads    *)
(* that ask for the same root extract it once and threads that ask for     *)
(* different roots extract at the same time; the shard's lock protects     *)
(* publication and byte accounting only.                                   *)
(*                                                                         *)
(* A cell stands for the Arc<OnceLock> of a root; a cell that nothing      *)
(* refers to is free and may be allocated again, and there is always one.  *)
(* A step of a thread is one section of the shard's lock or one transition *)
(* of a OnceLock.                                                          *)
(***************************************************************************)
EXTENDS Integers, SequencesExt, Queues

CONSTANTS Threads, Exprs, Cells,
          Bytes,      \* Bytes[e]: what a decomposition of e retains, 0 for a failure
          MaxRoots,   \* ROOTS_PER_SHARD
          Budget,     \* BYTES_PER_SHARD
          None

\* An empty OnceLock, a ready one and one that a thread initializes are different
\* things, and so are a cell and no cell.
ConstantsAreApart == /\ Budget \in Nat /\ MaxRoots \in Nat /\ Bytes \in [Exprs -> Nat]
                     /\ None \notin Cells /\ Threads \cap {"empty", "ready"} = {}

VARIABLES roots,  \* the registered roots: the cell that holds the value, or None
          bytes,  \* what each registered root has reserved
          order,  \* the roots with a reservation, oldest first
          total,  \* the shard's running sum of reservations
          lock,   \* the OnceLocks: "empty", "ready", or the initializing thread
          pc, expr, cell   \* the threads: what they do, for which root, holding which cell

vars == <<roots, bytes, order, total, lock, pc, expr, cell>>
shard == <<roots, bytes, order, total>>

Registered == DOMAIN roots
InUse == {roots[e] : e \in Registered} \cup {cell[t] : t \in Threads}
FreshCell == CHOOSE c \in Cells \ InUse : TRUE
IsReady(c) == c # None /\ lock[c] = "ready"

Initializing == {"reserve", "publish", "publishUnkept"}
Goto(t, next) == pc' = [pc EXCEPT ![t] = next]

Init == /\ roots = [e \in {} |-> None]
        /\ bytes = [e \in {} |-> 0]
        /\ order = <<>>
        /\ total = 0
        /\ lock = [c \in Cells |-> "empty"]
        /\ pc = [t \in Threads |-> "idle"]
        /\ expr = [t \in Threads |-> None]
        /\ cell = [t \in Threads |-> None]

\* quadratic enters at extract; quadratic_once looks first and does not register.
Call(t, e, entry) == /\ pc[t] = "idle" /\ entry \in {"extract", "lookup"}
                     /\ Goto(t, entry)
                     /\ expr' = [expr EXCEPT ![t] = e]
                     /\ UNCHANGED <<shard, lock, cell>>

\* Ready returns the value, Retry goes through extract, Missing extracts unregistered.
Lookup(t) == /\ pc[t] = "lookup"
             /\ Goto(t, CASE expr[t] \notin Registered -> "streamed"
                          [] expr[t] \in Registered /\ IsReady(roots[expr[t]]) -> "shared"
                          [] OTHER -> "extract")
             /\ UNCHANGED <<shard, lock, expr, cell>>

\* The first lock section of extract: join the root's cell, give it a new one, or
\* pass by a shard that is full of roots.
Join(t) == /\ pc[t] = "extract"
           /\ expr[t] \in Registered /\ roots[expr[t]] # None
           /\ cell' = [cell EXCEPT ![t] = roots[expr[t]]]
           /\ Goto(t, "wait")
           /\ UNCHANGED <<shard, lock, expr>>

Register(t) == /\ pc[t] = "extract"
               /\ \/ expr[t] \in Registered /\ roots[expr[t]] = None
                  \/ expr[t] \notin Registered /\ Cardinality(Registered) < MaxRoots
               /\ Cells \ InUse # {}
               /\ LET c == FreshCell IN
                     /\ roots' = [e \in Registered \cup {expr[t]} |->
                                     IF e = expr[t] THEN c ELSE roots[e]]
                     /\ bytes' = [e \in Registered \cup {expr[t]} |->
                                     IF e \in Registered THEN bytes[e] ELSE 0]
                     /\ cell' = [cell EXCEPT ![t] = c]
                     /\ lock' = [lock EXCEPT ![c] = "empty"]
               /\ Goto(t, "wait")
               /\ UNCHANGED <<order, total, expr>>

Bypass(t) == /\ pc[t] = "extract"
             /\ expr[t] \notin Registered /\ Cardinality(Registered) >= MaxRoots
             /\ Goto(t, "streamed")
             /\ UNCHANGED <<shard, lock, expr, cell>>

\* OnceLock::get_or_init: take the value, or become the one initializer.
TakeValue(t) == /\ pc[t] = "wait" /\ IsReady(cell[t])
                /\ Goto(t, "shared")
                /\ UNCHANGED <<shard, lock, expr, cell>>

Initialize(t) == /\ pc[t] = "wait" /\ lock[cell[t]] = "empty"
                 /\ lock' = [lock EXCEPT ![cell[t]] = t]
                 /\ Goto(t, "reserve")
                 /\ UNCHANGED <<shard, expr, cell>>

(***************************************************************************)
(* The initializer, after extracting outside the lock, reserves its bytes. *)
(* The scan visits the queue once, from its front: it drops values that    *)
(* are published and puts back those that are pending, until the bytes     *)
(* fit.  "gone" are the dropped roots.                                     *)
(***************************************************************************)
\* Fault: pending values are evicted too.
RemovableAny(e) == roots[e] # None

Removable(e) == IsReady(roots[e])

\* What a queue of roots has reserved.
Reserved(queue) == TotalOf(bytes, queue)

Visit(scan, need) ==
    LET e == Head(scan.queue) IN
    IF scan.total + need <= Budget THEN scan
    ELSE IF Removable(e) THEN [queue |-> Tail(scan.queue), gone |-> scan.gone \cup {e},
                               total |-> scan.total - bytes[e]]
    ELSE [scan EXCEPT !.queue = Append(Tail(scan.queue), e)]

Scan(need) ==
    LET after[i \in 0..Len(order)] ==
            IF i = 0 THEN [queue |-> order, gone |-> {}, total |-> total]
                     ELSE Visit(after[i - 1], need)
    IN after[Len(order)]

Reserve(t) ==
    LET e == expr[t]
        scan == Scan(Bytes[e])
    IN /\ pc[t] = "reserve" /\ Bytes[e] <= Budget
       /\ \/ /\ scan.total + Bytes[e] <= Budget
             /\ order' = Append(scan.queue, e)
             /\ total' = scan.total + Bytes[e]
             /\ roots' = [x \in Registered |-> IF x \in scan.gone THEN None ELSE roots[x]]
             /\ bytes' = [x \in Registered |-> CASE x = e -> Bytes[e]
                                                 [] x \in scan.gone \ {e} -> 0
                                                 [] OTHER -> bytes[x]]
             /\ Goto(t, "publish")
          \/ /\ scan.total + Bytes[e] > Budget
             /\ order' = scan.queue
             /\ total' = scan.total
             /\ roots' = [x \in Registered |-> IF x \in scan.gone \cup {e} THEN None
                                                                         ELSE roots[x]]
             /\ bytes' = [x \in Registered |-> IF x \in scan.gone THEN 0 ELSE bytes[x]]
             /\ Goto(t, "publishUnkept")
       /\ UNCHANGED <<lock, expr, cell>>

\* A decomposition larger than the budget evicts nobody.
Oversize(t) == /\ pc[t] = "reserve" /\ Bytes[expr[t]] > Budget
               /\ roots' = [roots EXCEPT ![expr[t]] = None]
               /\ Goto(t, "publishUnkept")
               /\ UNCHANGED <<bytes, order, total, lock, expr, cell>>

\* Fault: a value that is not kept is not published either.
PublishKept(t) == /\ pc[t] \in {"publish", "publishUnkept"}
                  /\ lock' = IF pc[t] = "publish" THEN [lock EXCEPT ![cell[t]] = "ready"]
                                                  ELSE lock
                  /\ Goto(t, "shared")
                  /\ UNCHANGED <<shard, expr, cell>>

\* The closure returns and the OnceLock becomes ready.
Publish(t) == /\ pc[t] \in {"publish", "publishUnkept"}
              /\ lock' = [lock EXCEPT ![cell[t]] = "ready"]
              /\ Goto(t, "shared")
              /\ UNCHANGED <<shard, expr, cell>>

\* The value is cloned and the thread's reference to the cell dropped.
Return(t) == /\ pc[t] \in {"shared", "streamed"}
             /\ Goto(t, "idle")
             /\ expr' = [expr EXCEPT ![t] = None]
             /\ cell' = [cell EXCEPT ![t] = None]
             /\ UNCHANGED <<shard, lock>>

Step(t) == \/ Lookup(t) \/ Join(t) \/ Register(t) \/ Bypass(t) \/ TakeValue(t) \/ Initialize(t)
           \/ Reserve(t) \/ Oversize(t) \/ Publish(t) \/ Return(t)

Next == \E t \in Threads : Step(t) \/ \E e \in Exprs, entry \in {"extract", "lookup"} :
                                          Call(t, e, entry)

\* Threads of the pool keep running; nothing forces one to call again.
Spec == Init /\ [][Next]_vars /\ \A t \in Threads : WF_vars(Step(t))

-----------------------------------------------------------------------------
(* Properties *)

\* The queue holds each root once, only roots that keep a value, and every root with
\* a reservation or a published value: what is kept can be evicted.  The bytes are the
\* running sum and fit in the budget.
QueuesAccount ==
    /\ IsInjective(order)
    /\ \A e \in ToSet(order) : e \in Registered /\ roots[e] # None
    /\ total = Reserved(order)
    /\ total <= Budget
    /\ \A e \in Registered : bytes[e] # 0 \/ IsReady(roots[e]) => e \in ToSet(order)
    /\ Cardinality(Registered) <= MaxRoots

\* From the moment it claims the OnceLock until the value is published, an
\* initializer's root stays registered with its own cell, unless it gave the root up
\* itself: no eviction and no other thread's cell comes between a pending extraction,
\* its reservation and its publication.
InitializerOwnsRoot ==
    \A t \in Threads : pc[t] \in {"reserve", "publish"} => /\ expr[t] \in Registered
                                                           /\ roots[expr[t]] = cell[t]

\* Every call returns: a thread that waits for another's extraction gets its value.
CallsReturn == \A t \in Threads : pc[t] # "idle" ~> pc[t] = "idle"
=============================================================================
