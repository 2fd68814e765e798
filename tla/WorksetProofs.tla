---------------------------- MODULE WorksetProofs ----------------------------
(***************************************************************************)
(* The shard of quadratic decompositions keeps its accounts and never      *)
(* takes a root away from the thread that extracts it, whatever the        *)
(* numbers of threads, roots and bytes.                                    *)
(***************************************************************************)
EXTENDS QuadraticWorkset

States == {"idle", "lookup", "extract", "wait", "shared", "streamed"} \cup Initializing

TypeOK ==
    /\ Registered \subseteq Exprs /\ IsFiniteSet(Registered)
    /\ roots \in [Registered -> Cells \cup {None}]
    /\ bytes \in [Registered -> Nat]
    /\ order \in Seq(Exprs)
    /\ total \in Int
    /\ lock \in [Cells -> {"empty", "ready"} \cup Threads]
    /\ pc \in [Threads -> States]
    /\ expr \in [Threads -> Exprs \cup {None}]
    /\ cell \in [Threads -> Cells \cup {None}]
    /\ \A t \in Threads : pc[t] # "idle" => expr[t] \in Exprs

\* A root keeps its cell for itself.
OwnCells == \A e, f \in Registered : roots[e] # None /\ roots[e] = roots[f] => e = f

\* A thread that waits for a value, or computes it, holds the cell; its OnceLock is
\* empty, ready, or names the one thread that computes the value.
Holding == \A t \in Threads :
    /\ pc[t] \in {"wait"} \cup Initializing => cell[t] \in Cells
    /\ pc[t] \in Initializing => lock[cell[t]] = t

\* Nobody drops a cell that has no value yet, except the thread that computes it.
Pending == \A t \in Threads :
    /\ pc[t] = "wait" /\ lock[cell[t]] = "empty" => expr[t] \in Registered /\ roots[expr[t]] = cell[t]
    /\ pc[t] \in {"reserve", "publish"} => expr[t] \in Registered /\ roots[expr[t]] = cell[t]
    /\ pc[t] = "publishUnkept" => \A e \in Registered : roots[e] # cell[t]

Queued == ToSet(order)

\* A root is in the queue from its reservation to its eviction.
InQueue ==
    /\ \A t \in Threads : pc[t] = "publish" => expr[t] \in Queued
    /\ \A e \in Queued : e \in Registered /\ roots[e] # None
    /\ \A e \in Queued : IsReady(roots[e]) \/ \E t \in Threads : pc[t] = "publish" /\ expr[t] = e
    /\ \A e \in Registered : bytes[e] # 0 \/ IsReady(roots[e]) => e \in Queued

IInv == /\ TypeOK /\ OwnCells /\ Holding /\ Pending /\ InQueue
        /\ IsInjective(order) /\ total = Reserved(order) /\ total <= Budget
        /\ Cardinality(Registered) <= MaxRoots

-----------------------------------------------------------------------------
(* The scan                                                                *)

\* What holds of a scan that started with n roots and has visited i of them.
Scanning(scan, i) ==
    /\ scan = [queue |-> scan.queue, gone |-> scan.gone, total |-> scan.total]
    /\ scan.queue \in Seq(Registered) /\ IsInjective(scan.queue)
    /\ Len(scan.queue) >= Len(order) - i
    /\ ToSet(scan.queue) = Queued \ scan.gone /\ scan.gone \subseteq Queued
    /\ \A e \in scan.gone : Removable(e)
    /\ scan.total = Reserved(scan.queue) /\ scan.total \in Int /\ scan.total <= total

\* A visit keeps these facts.
LEMMA VisitScans ==
  ASSUME TypeOK, NEW need \in Nat, ConstantsAreApart,
         NEW i \in Nat, i < Len(order), NEW scan, Scanning(scan, i)
  PROVE  Scanning(Visit(scan, need), i + 1)
<1> DEFINE q == scan.queue
           e == Head(q)
<1>1. /\ bytes \in [Registered -> Int] /\ Len(order) \in Nat /\ Budget \in Int /\ need \in Int
      /\ Len(q) \in Nat /\ q # <<>>
  BY DEF Scanning, TypeOK, ConstantsAreApart
<1>2. /\ Tail(q) \in Seq(Registered) /\ Len(Tail(q)) = Len(q) - 1 /\ IsInjective(Tail(q))
      /\ e \in ToSet(q) /\ e \in Registered /\ ToSet(Tail(q)) = ToSet(q) \ {e}
  BY <1>1, TailOfQueue DEF Scanning
<1>3. Reserved(Tail(q)) = Reserved(q) - bytes[e] /\ bytes[e] \in Int
  BY <1>1, <1>2, TotalOfTail DEF Scanning, Reserved
<1>4. CASE scan.total + need <= Budget
  <2>1. Visit(scan, need) = scan
    BY <1>4 DEF Visit
  <2>2. Len(q) >= Len(order) - (i + 1)
    BY <1>1 DEF Scanning
  <2> QED BY <2>1, <2>2 DEF Scanning
<1>5. CASE ~ (scan.total + need <= Budget) /\ Removable(e)
  <2> DEFINE gone == scan.gone \cup {e}
             rest == scan.total - bytes[e]
             next == [queue |-> Tail(q), gone |-> gone, total |-> rest]
  <2>1. Visit(scan, need) = next
    BY <1>5 DEF Visit
  <2>2. next.queue = Tail(q) /\ next.gone = gone /\ next.total = rest
    OBVIOUS
  <2>3. next = [queue |-> next.queue, gone |-> next.gone, total |-> next.total]
    OBVIOUS
  <2>4. Len(Tail(q)) >= Len(order) - (i + 1)
    BY <1>1, <1>2 DEF Scanning
  <2>5. ToSet(Tail(q)) = Queued \ gone /\ gone \subseteq Queued
    BY <1>2 DEF Scanning
  <2>6. \A f \in gone : Removable(f)
    BY <1>5 DEF Scanning
  <2>7. rest = Reserved(Tail(q)) /\ rest \in Int /\ rest <= total
    <3> bytes[e] \in Nat /\ total \in Int
      BY <1>2 DEF TypeOK
    <3> QED BY <1>3 DEF Scanning
  <2> HIDE DEF next, gone, rest, e, q
  <2>8. Scanning(next, i + 1)
    BY <1>2, <2>2, <2>3, <2>4, <2>5, <2>6, <2>7 DEF Scanning
  <2> QED BY <2>1, <2>8
<1>6. CASE ~ (scan.total + need <= Budget) /\ ~ Removable(e)
  <2> DEFINE back == Append(Tail(q), e)
             next == [queue |-> back, gone |-> scan.gone, total |-> scan.total]
  <2>1. Visit(scan, need) = next
    <3> DEFINE b == back
    <3>1. Visit(scan, need) = [scan EXCEPT !.queue = b]
      BY <1>6 DEF Visit
    <3>2. scan = [queue |-> scan.queue, gone |-> scan.gone, total |-> scan.total]
      BY DEF Scanning
    <3> HIDE DEF b
    <3>3. [scan EXCEPT !.queue = b] = [queue |-> b, gone |-> scan.gone, total |-> scan.total]
      BY <3>2
    <3> QED BY <3>1, <3>3 DEF b
  <2>2. next.queue = back /\ next.gone = scan.gone /\ next.total = scan.total
    OBVIOUS
  <2>3. next = [queue |-> next.queue, gone |-> next.gone, total |-> next.total]
    OBVIOUS
  <2>4. /\ back \in Seq(Registered) /\ Len(back) = Len(q) /\ IsInjective(back)
        /\ ToSet(back) = ToSet(q)
    <3> DEFINE t == Tail(q)
    <3>1. t \in Seq(Registered) /\ e \in Registered /\ IsInjective(t) /\ e \notin ToSet(t)
      BY <1>2
    <3>2. Len(t) + 1 = Len(q) /\ ToSet(t) \cup {e} = ToSet(q)
      BY <1>1, <1>2
    <3> HIDE DEF t, e
    <3>3. /\ Append(t, e) \in Seq(Registered) /\ Len(Append(t, e)) = Len(t) + 1
          /\ ToSet(Append(t, e)) = ToSet(t) \cup {e} /\ IsInjective(Append(t, e))
      BY <3>1, AppendToQueue
    <3> QED BY <3>2, <3>3 DEF t
  <2>5. Reserved(back) = Reserved(q)
    <3> DEFINE t == Tail(q)
    <3>1. t \in Seq(Registered) /\ e \in Registered
      BY <1>2
    <3>2. Reserved(t) = Reserved(q) - bytes[e]
      BY <1>3
    <3>3. Reserved(q) \in Int
      BY DEF Scanning
    <3> HIDE DEF t, e
    <3>4. TotalOf(bytes, t) \in Int /\ TotalOf(bytes, Append(t, e)) = TotalOf(bytes, t) + bytes[e]
      BY <1>1, <3>1, TotalOfAppend
    <3>5. Reserved(Append(t, e)) = Reserved(q)
      BY <1>3, <3>2, <3>3, <3>4 DEF Reserved
    <3> QED BY <3>5 DEF t
  <2>6. Len(back) >= Len(order) - (i + 1)
    BY <1>1, <2>4 DEF Scanning
  <2> HIDE DEF next, back, e
  <2>7. Scanning(next, i + 1)
    BY <2>2, <2>3, <2>4, <2>5, <2>6 DEF Scanning
  <2> QED BY <2>1, <2>7
<1> QED BY <1>4, <1>5, <1>6

\* Visiting the queue from its front is well defined, and ends with these facts.
LEMMA ScanIsExact ==
  ASSUME TypeOK, NEW need \in Nat, ConstantsAreApart,
         IsInjective(order), total = Reserved(order), Queued \subseteq Registered
  PROVE  Scanning(Scan(need), Len(order))
<1> DEFINE n == Len(order)
           start == [queue |-> order, gone |-> {}, total |-> total]
           D == [queue : Seq(Registered), gone : SUBSET Registered, total : Int]
           G == [i \in 1..n |-> [x \in D |-> IF Scanning(x, i - 1) THEN Visit(x, need) ELSE x]]
           Defines(f) == f = [i \in 0..n |-> IF i = 0 THEN start ELSE Visit(f[i - 1], need)]
<1>1. n \in Nat
  BY DEF TypeOK
<1>2. Scanning(start, 0) /\ start \in D
  <2>1. start.queue = order /\ start.gone = {} /\ start.total = total
    OBVIOUS
  <2>2. order \in Seq(Registered)
    <3>1. order \in [1..n -> Exprs] /\ \A i \in 1..n : order[i] \in Registered
      BY DEF TypeOK, ToSet, Queued
    <3>2. order \in [1..n -> Registered]
      BY <3>1
    <3> QED BY <1>1, <3>2
  <2>3. total \in Int /\ n >= n - 0 /\ total <= total
    BY <1>1 DEF TypeOK
  <2>4. start \in D /\ start = [queue |-> start.queue, gone |-> start.gone, total |-> start.total]
    BY <2>2, <2>3
  <2>5. ToSet(order) = Queued \ {}
    BY DEF Queued
  <2> HIDE DEF start
  <2> QED BY <2>1, <2>2, <2>3, <2>4, <2>5 DEF Scanning
<1>3. ASSUME NEW x, NEW i \in Nat, Scanning(x, i) PROVE x \in D
  <2>1. x = [queue |-> x.queue, gone |-> x.gone, total |-> x.total]
    BY <1>3 DEF Scanning
  <2>2. x.queue \in Seq(Registered) /\ x.gone \subseteq Registered /\ x.total \in Int
    BY <1>3 DEF Scanning
  <2> QED BY <2>1, <2>2
<1>4. ASSUME NEW x, NEW i \in 1..n, Scanning(x, i - 1) PROVE Scanning(Visit(x, need), i)
  <2>1. i - 1 \in Nat /\ i - 1 < Len(order) /\ (i - 1) + 1 = i
    BY <1>1
  <2> DEFINE k == i - 1
  <2>2. k \in Nat /\ k < Len(order) /\ Scanning(x, k) /\ k + 1 = i
    BY <1>4, <2>1
  <2> HIDE DEF k
  <2>3. Scanning(Visit(x, need), k + 1)
    BY <2>2, VisitScans
  <2> QED BY <2>2, <2>3
<1> HIDE DEF D, start, n
<1>5. PICK f \in [0..n -> D] : Repeats(f, n, start, G)
  <2>1. ASSUME NEW i \in 1..n, NEW x \in D
        PROVE  (IF Scanning(x, i - 1) THEN Visit(x, need) ELSE x) \in D
    <3>1. CASE Scanning(x, i - 1)
      <4>1. Scanning(Visit(x, need), i) /\ i \in Nat
        BY <1>1, <1>4, <3>1
      <4> QED BY <1>3, <3>1, <4>1
    <3>2. CASE ~ Scanning(x, i - 1)
      BY <3>2
    <3> QED BY <3>1, <3>2
  <2>2. G \in [1..n -> [D -> D]]
    BY <2>1
  <2> HIDE DEF G
  <2> QED BY <1>1, <1>2, <2>2, Recursion
\* What holds of every function that starts and steps like the scan.
<1>6. ASSUME NEW g, g[0] = start,
             \A i \in 1..n : Scanning(g[i - 1], i - 1) => g[i] = Visit(g[i - 1], need)
      PROVE  \A i \in 0..n : Scanning(g[i], i)
  <2> DEFINE S == {i \in Nat : i <= n => Scanning(g[i], i)}
  <2>1. 0 \in S
    BY <1>2, <1>6
  <2>2. ASSUME NEW i \in Nat, i \in S PROVE i + 1 \in S
    <3> SUFFICES ASSUME i + 1 <= n PROVE Scanning(g[i + 1], i + 1)
      OBVIOUS
    <3>1. i + 1 \in 1..n /\ (i + 1) - 1 = i /\ i <= n
      BY <1>1
    <3>2. Scanning(g[(i + 1) - 1], (i + 1) - 1)
      BY <2>2, <3>1
    <3>3. g[i + 1] = Visit(g[(i + 1) - 1], need)
      BY <1>6, <3>1, <3>2
    <3>4. Scanning(Visit(g[(i + 1) - 1], need), i + 1)
      BY <1>4, <3>1, <3>2
    <3> QED BY <3>3, <3>4
  <2>3. \A i \in Nat : i \in S
    <3> HIDE DEF S
    <3> QED BY <2>1, <2>2, SetInduction
  <2> QED BY <1>1, <2>3
<1>7. Defines(f)
  <2>1. f = [i \in 0..n |-> IF i = 0 THEN start ELSE G[i][f[i - 1]]]
    BY <1>5 DEF Repeats
  <2>2. f[0] = start
    <3> 0 \in 0..n
      BY <1>1
    <3> QED BY <2>1
  <2>3. ASSUME NEW i \in 1..n PROVE f[i] = IF Scanning(f[i - 1], i - 1) THEN Visit(f[i - 1], need) ELSE f[i - 1]
    <3>1. i \in 0..n /\ i # 0 /\ i - 1 \in 0..n /\ f[i - 1] \in D
      BY <1>1, <1>5
    <3>2. f[i] = G[i][f[i - 1]]
      BY <2>1, <3>1
    <3> QED BY <3>1, <3>2
  <2>4. \A i \in 0..n : Scanning(f[i], i)
    <3> HIDE DEF G
    <3> QED BY <1>6, <2>2, <2>3
  <2>5. ASSUME NEW i \in 0..n PROVE f[i] = IF i = 0 THEN start ELSE Visit(f[i - 1], need)
    <3>1. CASE i = 0
      BY <2>2, <3>1
    <3>2. CASE i # 0
      <4>1. i \in 1..n /\ i - 1 \in 0..n
        BY <1>1, <3>2
      <4> QED BY <2>3, <2>4, <3>2, <4>1
    <3> QED BY <3>1, <3>2
  <2>6. f = [i \in 0..n |-> f[i]]
    BY <1>5
  <2> HIDE DEF G
  <2> QED BY <2>5, <2>6
<1> DEFINE after == CHOOSE g : Defines(g)
<1>8. Defines(after)
  <2> HIDE DEF Defines
  <2> QED BY <1>7
<1>9. Scan(need) = after[n]
  BY DEF Scan, start, n
<1>10. Scanning(after[n], n)
  <2> HIDE DEF after
  <2>1. after[0] = start /\ \A i \in 1..n : after[i] = Visit(after[i - 1], need)
    <3>1. 0 \in 0..n /\ \A i \in 1..n : i \in 0..n /\ i # 0
      BY <1>1
    <3> DEFINE a == after
    <3>2. a = [i \in 0..n |-> IF i = 0 THEN start ELSE Visit(a[i - 1], need)]
      BY <1>8
    <3> HIDE DEF a
    <3>3. a[0] = start /\ \A i \in 1..n : a[i] = Visit(a[i - 1], need)
      BY <3>1, <3>2
    <3> QED BY <3>3 DEF a
  <2> QED BY <1>1, <1>6, <2>1
<1> QED BY <1>9, <1>10 DEF n

-----------------------------------------------------------------------------
(* The invariant                                                           *)

LEMMA InitKeeps == ASSUME ConstantsAreApart, Init PROVE IInv
<1>1. Registered = {} /\ Queued = {} /\ Cardinality({}) = 0 /\ IsFiniteSet({})
  BY FS_EmptySet DEF Init, Registered, Queued, ToSet
<1>2. TypeOK
  <2>1. roots \in [Registered -> Cells \cup {None}] /\ bytes \in [Registered -> Nat]
    BY DEF Init, Registered
  <2>2. lock \in [Cells -> {"empty", "ready"} \cup Threads] /\ order \in Seq(Exprs) /\ total \in Int
    BY DEF Init
  <2>3. /\ pc \in [Threads -> States] /\ expr \in [Threads -> Exprs \cup {None}]
        /\ cell \in [Threads -> Cells \cup {None}]
        /\ \A t \in Threads : pc[t] # "idle" => expr[t] \in Exprs
    BY DEF Init, States
  <2> QED BY <1>1, <2>1, <2>2, <2>3 DEF TypeOK
<1>3. OwnCells /\ InQueue
  BY <1>1 DEF OwnCells, InQueue, Init
<1>4. Holding /\ Pending
  BY DEF Holding, Pending, Init, Initializing
<1>5. IsInjective(order) /\ total = Reserved(order)
  BY TotalOfEmpty DEF Init, IsInjective, Reserved
<1>6. total <= Budget /\ Cardinality(Registered) <= MaxRoots
  BY <1>1 DEF Init, ConstantsAreApart
<1> QED BY <1>2, <1>3, <1>4, <1>5, <1>6 DEF IInv

\* Steps that change neither the shard nor a OnceLock.
LEMMA QuietKeeps ==
  ASSUME IInv, NEW t \in Threads, UNCHANGED <<shard, lock>>,
         NEW s \in States \ Initializing, pc' = [pc EXCEPT ![t] = s], pc[t] \notin Initializing,
         \A u \in Threads : u # t => expr'[u] = expr[u] /\ cell'[u] = cell[u],
         expr' \in [Threads -> Exprs \cup {None}], cell' \in [Threads -> Cells \cup {None}],
         s # "idle" => expr'[t] \in Exprs,
         s = "wait" => /\ cell'[t] \in Cells
                       /\ expr'[t] \in Registered /\ roots[expr'[t]] = cell'[t]
  PROVE  IInv'
<1>1. /\ roots' = roots /\ bytes' = bytes /\ order' = order /\ total' = total /\ lock' = lock
      /\ Registered' = Registered /\ Queued' = Queued
  BY DEF shard, Registered, Queued
<1>2. /\ pc'[t] = s /\ \A u \in Threads : u # t => pc'[u] = pc[u]
      /\ pc' \in [Threads -> States]
  BY DEF IInv, TypeOK
<1>3. TypeOK'
  BY <1>1, <1>2 DEF IInv, TypeOK
<1>4. OwnCells' /\ IsInjective(order)' /\ (total = Reserved(order))' /\ (total <= Budget)'
      /\ (Cardinality(Registered) <= MaxRoots)'
  BY <1>1 DEF IInv, OwnCells, Reserved
<1>5. Holding' /\ Pending'
  BY <1>1, <1>2 DEF IInv, Holding, Pending, Initializing
<1>6. InQueue'
  <2>1. \A e \in Queued : IsReady(roots[e]) => IsReady(roots[e])'
    BY <1>1 DEF IsReady
  <2>2. ASSUME NEW e \in Queued, ~ IsReady(roots[e])
        PROVE  \E u \in Threads : pc'[u] = "publish" /\ expr'[u] = e
    <3>1. PICK u \in Threads : pc[u] = "publish" /\ expr[u] = e
      BY <2>2 DEF IInv, InQueue
    <3>2. u # t
      BY <3>1 DEF Initializing
    <3> QED BY <1>2, <3>1, <3>2
  <2>3. \A e \in Registered : IsReady(roots[e])' => IsReady(roots[e])
    BY <1>1 DEF IsReady
  <2>4. \A u \in Threads : pc'[u] = "publish" => expr'[u] \in Queued
    BY <1>2 DEF IInv, InQueue, Initializing
  <2> QED BY <1>1, <2>1, <2>2, <2>3, <2>4 DEF IInv, InQueue
<1> QED BY <1>3, <1>4, <1>5, <1>6 DEF IInv

LEMMA QuietSteps ==
  ASSUME IInv, NEW t \in Threads,
         \/ \E e \in Exprs, entry \in {"extract", "lookup"} : Call(t, e, entry)
         \/ Lookup(t) \/ Join(t) \/ Bypass(t) \/ TakeValue(t) \/ Return(t)
  PROVE  IInv'
<1>0. /\ pc \in [Threads -> States] /\ expr \in [Threads -> Exprs \cup {None}]
      /\ cell \in [Threads -> Cells \cup {None}]
      /\ \A u \in Threads : pc[u] # "idle" => expr[u] \in Exprs
  BY DEF IInv, TypeOK
<1>1. CASE \E e \in Exprs, entry \in {"extract", "lookup"} : Call(t, e, entry)
  <2>1. PICK e \in Exprs, entry \in {"extract", "lookup"} : Call(t, e, entry)
    BY <1>1
  <2>2. /\ pc[t] \notin Initializing /\ entry \in States \ Initializing /\ entry # "wait"
        /\ pc' = [pc EXCEPT ![t] = entry] /\ UNCHANGED <<shard, lock>>
        /\ expr' = [expr EXCEPT ![t] = e] /\ cell' = cell
    BY <2>1 DEF Call, Goto, States, Initializing
  <2> QED BY <1>0, <2>2, QuietKeeps
<1>2. CASE Lookup(t)
  <2>1. \E s \in {"streamed", "shared", "extract"} : pc' = [pc EXCEPT ![t] = s]
    <3>1. CASE expr[t] \notin Registered
      BY <1>2, <3>1 DEF Lookup, Goto
    <3>2. CASE expr[t] \in Registered /\ IsReady(roots[expr[t]])
      BY <1>2, <3>2 DEF Lookup, Goto
    <3>3. CASE expr[t] \in Registered /\ ~ IsReady(roots[expr[t]])
      BY <1>2, <3>3 DEF Lookup, Goto
    <3> QED BY <3>1, <3>2, <3>3
  <2>2. PICK s \in {"streamed", "shared", "extract"} : pc' = [pc EXCEPT ![t] = s]
    BY <2>1
  <2>3. /\ pc[t] \notin Initializing /\ s \in States \ Initializing /\ s # "wait" /\ pc[t] # "idle"
        /\ UNCHANGED <<shard, lock>> /\ expr' = expr /\ cell' = cell
    BY <1>2 DEF Lookup, States, Initializing
  <2> QED BY <1>0, <2>2, <2>3, QuietKeeps
<1>3. CASE Join(t)
  <2>1. /\ pc[t] \notin Initializing /\ "wait" \in States \ Initializing /\ pc[t] # "idle"
        /\ pc' = [pc EXCEPT ![t] = "wait"] /\ UNCHANGED <<shard, lock>> /\ expr' = expr
        /\ cell' = [cell EXCEPT ![t] = roots[expr[t]]]
        /\ expr[t] \in Registered /\ roots[expr[t]] # None
    BY <1>3 DEF Join, Goto, States, Initializing
  <2>2. roots[expr[t]] \in Cells
    BY <2>1 DEF IInv, TypeOK
  <2>3. cell'[t] = roots[expr[t]] /\ cell' \in [Threads -> Cells \cup {None}]
    BY <1>0, <2>1, <2>2
  <2> QED BY <1>0, <2>1, <2>2, <2>3, QuietKeeps
<1>4. CASE Bypass(t) \/ TakeValue(t)
  <2>1. PICK s \in {"streamed", "shared"} : pc' = [pc EXCEPT ![t] = s]
    BY <1>4 DEF Bypass, TakeValue, Goto
  <2>2. /\ pc[t] \notin Initializing /\ s \in States \ Initializing /\ s # "wait" /\ pc[t] # "idle"
        /\ UNCHANGED <<shard, lock>> /\ expr' = expr /\ cell' = cell
    BY <1>4 DEF Bypass, TakeValue, States, Initializing
  <2> QED BY <1>0, <2>1, <2>2, QuietKeeps
<1>5. CASE Return(t)
  <2>1. /\ pc[t] \notin Initializing /\ "idle" \in States \ Initializing
        /\ pc' = [pc EXCEPT ![t] = "idle"] /\ UNCHANGED <<shard, lock>>
        /\ expr' = [expr EXCEPT ![t] = None] /\ cell' = [cell EXCEPT ![t] = None]
    BY <1>5 DEF Return, Goto, States, Initializing
  <2>2. /\ expr' \in [Threads -> Exprs \cup {None}] /\ cell' \in [Threads -> Cells \cup {None}]
        /\ \A u \in Threads : u # t => expr'[u] = expr[u] /\ cell'[u] = cell[u]
    BY <1>0, <2>1
  <2> QED BY <2>1, <2>2, QuietKeeps
<1> QED BY <1>1, <1>2, <1>3, <1>4, <1>5

\* A new cell belongs to nobody else.
LEMMA RegisterKeeps ==
  ASSUME IInv, ConstantsAreApart, NEW t \in Threads, Register(t)
  PROVE  IInv'
<1>0. PICK e : e = expr[t]
  OBVIOUS
<1>c. PICK c : c = FreshCell
  OBVIOUS
<1>1. c \in Cells /\ c \notin InUse
  <2> Cells \ InUse # {}
    BY DEF Register
  <2> QED BY <1>c DEF FreshCell
<1>2. /\ (\A x \in Registered : roots[x] # c) /\ (\A u \in Threads : cell[u] # c) /\ c # None
  BY <1>1 DEF InUse, ConstantsAreApart
<1>3. /\ pc[t] = "extract" /\ pc' = [pc EXCEPT ![t] = "wait"] /\ UNCHANGED <<order, total, expr>>
      /\ roots' = [x \in Registered \cup {e} |-> IF x = e THEN c ELSE roots[x]]
      /\ bytes' = [x \in Registered \cup {e} |-> IF x \in Registered THEN bytes[x] ELSE 0]
      /\ cell' = [cell EXCEPT ![t] = c] /\ lock' = [lock EXCEPT ![c] = "empty"]
      /\ \/ e \in Registered /\ roots[e] = None
         \/ e \notin Registered /\ Cardinality(Registered) < MaxRoots
  BY <1>0, <1>c DEF Register, Goto
<1>4. /\ e \in Exprs /\ e = expr[t] /\ t \in Threads
      /\ Registered' = Registered \cup {e} /\ Queued' = Queued
  BY <1>0, <1>3 DEF IInv, TypeOK, Registered, Queued
<1>5. /\ roots'[e] = c /\ \A x \in Registered : x # e => roots'[x] = roots[x]
  BY <1>3
<1>6. /\ lock'[c] = "empty" /\ \A d \in Cells : d # c => lock'[d] = lock[d]
      /\ cell'[t] = c /\ \A u \in Threads : u # t => cell'[u] = cell[u]
      /\ pc'[t] = "wait" /\ \A u \in Threads : u # t => pc'[u] = pc[u]
  BY <1>1, <1>3 DEF IInv, TypeOK
<1>7. e \notin Queued
  BY <1>3 DEF IInv, InQueue
<1>8. TypeOK'
  <2>1. IsFiniteSet(Registered \cup {e})
    BY FS_AddElement DEF IInv, TypeOK
  <2>2. roots' \in [Registered \cup {e} -> Cells \cup {None}]
    BY <1>1, <1>3 DEF IInv, TypeOK
  <2>3. bytes' \in [Registered \cup {e} -> Nat]
    BY <1>3 DEF IInv, TypeOK
  <2>4. /\ lock' \in [Cells -> {"empty", "ready"} \cup Threads]
        /\ cell' \in [Threads -> Cells \cup {None}] /\ pc' \in [Threads -> States]
    BY <1>1, <1>3 DEF IInv, TypeOK, States
  <2>5. \A u \in Threads : pc'[u] # "idle" => expr'[u] \in Exprs
    BY <1>3, <1>4, <1>6 DEF IInv, TypeOK
  <2> QED BY <1>3, <1>4, <2>1, <2>2, <2>3, <2>4, <2>5 DEF IInv, TypeOK
<1>9. OwnCells'
  BY <1>2, <1>4, <1>5 DEF IInv, OwnCells
<1>10. Holding'
  BY <1>1, <1>2, <1>3, <1>6 DEF IInv, Holding, Initializing
<1>11. Pending'
  <2> SUFFICES ASSUME NEW u \in Threads
               PROVE  /\ pc'[u] = "wait" /\ lock'[cell'[u]] = "empty" =>
                            expr'[u] \in Registered' /\ roots'[expr'[u]] = cell'[u]
                      /\ pc'[u] \in {"reserve", "publish"} =>
                            expr'[u] \in Registered' /\ roots'[expr'[u]] = cell'[u]
                      /\ pc'[u] = "publishUnkept" => \A x \in Registered' : roots'[x] # cell'[u]
    BY DEF Pending
  <2>1. CASE u = t
    BY <1>3, <1>4, <1>5, <1>6, <2>1
  <2>2. CASE u # t
    <3>1. pc'[u] = pc[u] /\ cell'[u] = cell[u] /\ cell[u] # c /\ expr'[u] = expr[u]
      BY <1>2, <1>3, <1>6, <2>2
    <3>2. pc[u] \in {"wait"} \cup Initializing => cell[u] \in Cells /\ lock'[cell[u]] = lock[cell[u]]
      BY <1>6, <3>1 DEF IInv, Holding
    <3>3. pc[u] \in {"wait"} \cup Initializing /\ expr[u] \in Registered /\ roots[expr[u]] = cell[u] =>
             expr[u] \in Registered' /\ roots'[expr[u]] = cell[u]
      <4> SUFFICES ASSUME pc[u] \in {"wait"} \cup Initializing, expr[u] \in Registered,
                          roots[expr[u]] = cell[u]
                   PROVE  expr[u] \in Registered' /\ roots'[expr[u]] = cell[u]
        OBVIOUS
      <4>1. roots[expr[u]] # None
        BY <3>2 DEF ConstantsAreApart
      <4>2. expr[u] # e
        BY <1>3, <4>1
      <4> QED BY <1>4, <1>5, <4>2
    <3>4. (\A x \in Registered : roots[x] # cell[u]) => \A x \in Registered' : roots'[x] # cell[u]
      BY <1>4, <1>5, <3>1
    <3> QED BY <3>1, <3>2, <3>3, <3>4 DEF IInv, Pending, Initializing
  <2> QED BY <2>1, <2>2
<1>12. InQueue'
  <2>1. ASSUME NEW x \in Registered', x # e
        PROVE  /\ x \in Registered /\ bytes'[x] = bytes[x] /\ roots'[x] = roots[x]
               /\ IsReady(roots[x])' <=> IsReady(roots[x])
    <3>1. x \in Registered /\ bytes'[x] = bytes[x] /\ roots'[x] = roots[x] /\ roots[x] # c
      BY <1>2, <1>3, <1>4, <2>1
    <3>2. roots[x] # None => lock'[roots[x]] = lock[roots[x]]
      BY <1>6, <3>1 DEF IInv, TypeOK
    <3> QED BY <3>1, <3>2 DEF IsReady
  <2>2. ~ IsReady(roots[e])' /\ bytes'[e] = 0
    <3>1. bytes'[e] = IF e \in Registered THEN bytes[e] ELSE 0
      BY <1>3
    <3>2. e \in Registered => bytes[e] = 0
      BY <1>7 DEF IInv, InQueue
    <3>3. bytes'[e] = 0
      BY <3>1, <3>2
    <3>4. ~ (roots'[e] # None /\ lock'[roots'[e]] = "ready")
      BY <1>5, <1>6
    <3> QED BY <3>3, <3>4 DEF IsReady
  <2>3. \A x \in Queued : x \in Registered /\ x # e
    BY <1>7 DEF IInv, InQueue
  <2>4. \A u \in Threads : (pc'[u] = "publish" <=> pc[u] = "publish") /\ expr'[u] = expr[u]
    BY <1>3, <1>6
  <2>5. \A x \in Registered : x \in Registered'
    BY <1>4
  <2>6. \A u \in Threads : pc'[u] = "publish" => expr'[u] \in Queued'
    BY <1>4, <2>4 DEF IInv, InQueue
  <2>7. \A x \in Queued' : x \in Registered' /\ roots'[x] # None
    BY <1>4, <2>1, <2>3, <2>5 DEF IInv, InQueue
  <2>8. \A x \in Queued' : IsReady(roots[x])' \/ \E u \in Threads : pc'[u] = "publish" /\ expr'[u] = x
    <3> SUFFICES ASSUME NEW x \in Queued, ~ IsReady(roots[x])'
                 PROVE  \E u \in Threads : pc'[u] = "publish" /\ expr'[u] = x
      BY <1>4
    <3>1. ~ IsReady(roots[x])
      BY <2>1, <2>3, <2>5
    <3>2. PICK u \in Threads : pc[u] = "publish" /\ expr[u] = x
      BY <3>1 DEF IInv, InQueue
    <3> QED BY <2>4, <3>2
  <2>9. \A x \in Registered' : bytes'[x] # 0 \/ IsReady(roots[x])' => x \in Queued'
    <3> SUFFICES ASSUME NEW x \in Registered', bytes'[x] # 0 \/ IsReady(roots[x])'
                 PROVE  x \in Queued
      BY <1>4
    <3>1. x # e
      BY <2>2
    <3>2. x \in Registered /\ (bytes[x] # 0 \/ IsReady(roots[x]))
      BY <2>1, <3>1
    <3> QED BY <3>2 DEF IInv, InQueue
  <2> QED BY <2>6, <2>7, <2>8, <2>9 DEF InQueue
<1>13. Cardinality(Registered)' <= MaxRoots
  <2>1. Cardinality(Registered \cup {e}) =
           IF e \in Registered THEN Cardinality(Registered) ELSE Cardinality(Registered) + 1
    BY FS_AddElement DEF IInv, TypeOK
  <2>2. Cardinality(Registered) \in Nat
    BY FS_CardinalityType DEF IInv, TypeOK
  <2> QED BY <1>3, <1>4, <2>1, <2>2 DEF IInv, ConstantsAreApart
<1>14. IsInjective(order)' /\ (total = Reserved(order))' /\ (total <= Budget)'
  <2>1. order' = order /\ total' = total
    BY <1>3
  <2>2. ASSUME NEW i \in DOMAIN order PROVE bytes'[order[i]] = bytes[order[i]]
    <3>1. order[i] \in Queued
      BY DEF Queued, ToSet
    <3>2. order[i] \in Registered
      BY <3>1 DEF IInv, InQueue
    <3> QED BY <1>3, <3>2
  <2>3. [i \in DOMAIN order |-> bytes'[order[i]]] = [i \in DOMAIN order |-> bytes[order[i]]]
    BY <2>2
  <2>4. Reserved(order)' = Reserved(order)
    BY <2>1, <2>3 DEF Reserved, TotalOf
  <2> QED BY <2>1, <2>4 DEF IInv
<1> QED BY <1>8, <1>9, <1>10, <1>11, <1>12, <1>13, <1>14 DEF IInv

\* The root of a thread that computes its value is registered, not ready and not in
\* the queue: it cannot be dropped.
LEMMA ReservingRoot ==
  ASSUME IInv, ConstantsAreApart, NEW t \in Threads, pc[t] = "reserve"
  PROVE  /\ expr[t] \in Registered /\ roots[expr[t]] = cell[t] /\ cell[t] \in Cells
         /\ lock[cell[t]] = t /\ ~ IsReady(roots[expr[t]])
         /\ expr[t] \notin Queued /\ bytes[expr[t]] = 0
<1>1. /\ expr[t] \in Registered /\ roots[expr[t]] = cell[t] /\ cell[t] \in Cells /\ lock[cell[t]] = t
  BY DEF IInv, Pending, Holding, Initializing
<1>2. ~ IsReady(roots[expr[t]])
  BY <1>1 DEF IsReady, ConstantsAreApart
<1>3. expr[t] \notin Queued
  <2> SUFFICES ASSUME expr[t] \in Queued PROVE FALSE
    OBVIOUS
  <2>1. PICK u \in Threads : pc[u] = "publish" /\ expr[u] = expr[t]
    BY <1>2 DEF IInv, InQueue
  <2>2. cell[u] = cell[t] /\ lock[cell[u]] = u
    BY <1>1, <2>1 DEF IInv, Pending, Holding, Initializing
  <2> QED BY <1>1, <2>1, <2>2
<1> QED BY <1>1, <1>2, <1>3 DEF IInv, InQueue

\* The thread's reservation, made or refused, with the roots it evicts.
LEMMA ReservationKeeps ==
  ASSUME IInv, ConstantsAreApart, NEW t \in Threads, pc[t] = "reserve", NEW e, e = expr[t],
         NEW gone, gone \subseteq Queued, \A x \in gone : IsReady(roots[x]),
         NEW kept \in BOOLEAN, NEW need \in Nat,
         roots' \in [Registered -> Cells \cup {None}], bytes' \in [Registered -> Nat],
         \A x \in Registered :
            /\ roots'[x] = IF x \in gone \/ (x = e /\ ~ kept) THEN None ELSE roots[x]
            /\ bytes'[x] = IF x \in gone THEN 0 ELSE IF x = e /\ kept THEN need ELSE bytes[x],
         order' \in Seq(Exprs), IsInjective(order'),
         ToSet(order') = IF kept THEN (Queued \ gone) \cup {e} ELSE Queued \ gone,
         total' \in Int, total' = TotalOf(bytes', order'), total' <= Budget,
         NEW s, s = IF kept THEN "publish" ELSE "publishUnkept", pc' = [pc EXCEPT ![t] = s],
         UNCHANGED <<lock, expr, cell>>
  PROVE  IInv'
<1>1. /\ e \in Registered /\ roots[e] = cell[t] /\ cell[t] \in Cells /\ lock[cell[t]] = t
      /\ ~ IsReady(roots[e]) /\ e \notin Queued /\ e \notin gone /\ bytes[e] = 0
      /\ gone \subseteq Registered
  BY ReservingRoot DEF IInv, InQueue
<1>2. /\ Registered' = Registered /\ Queued' = IF kept THEN (Queued \ gone) \cup {e} ELSE Queued \ gone
  BY DEF Registered, Queued
<1>3. /\ \A x \in gone : roots'[x] = None /\ bytes'[x] = 0
      /\ roots'[e] = IF kept THEN cell[t] ELSE None
      /\ bytes'[e] = IF kept THEN need ELSE 0
      /\ \A x \in Registered : x \notin gone /\ x # e => roots'[x] = roots[x] /\ bytes'[x] = bytes[x]
  BY <1>1
<1>4. /\ pc'[t] = IF kept THEN "publish" ELSE "publishUnkept"
      /\ \A u \in Threads : u # t => pc'[u] = pc[u]
      /\ pc' \in [Threads -> States]
  BY DEF IInv, TypeOK, States, Initializing
<1>5. /\ lock' = lock /\ expr' = expr /\ cell' = cell
  OBVIOUS
<1>6. TypeOK'
  <2>1. roots' \in [Registered -> Cells \cup {None}] /\ bytes' \in [Registered -> Nat]
    BY DEF IInv, TypeOK
  <2>2. \A u \in Threads : pc'[u] # "idle" => expr'[u] \in Exprs
    BY <1>4, <1>5 DEF IInv, TypeOK
  <2> QED BY <1>2, <1>4, <1>5, <2>1, <2>2 DEF IInv, TypeOK
<1>7. \A x \in Registered : roots'[x] # None => roots'[x] = roots[x]
  BY <1>1, <1>3
<1>8. OwnCells'
  BY <1>2, <1>7 DEF IInv, OwnCells
<1>9. Holding'
  BY <1>4, <1>5 DEF IInv, Holding, Initializing
\* Whoever waits for a cell, or computes its value, and is not t keeps its root.
<1>10. ASSUME NEW u \in Threads, u # t, expr[u] \in Registered, roots[expr[u]] = cell[u],
              cell[u] \in Cells, lock[cell[u]] \notin {"ready", t}
       PROVE  roots'[expr[u]] = cell[u]
  <2>1. expr[u] \notin gone
    BY <1>10 DEF IsReady
  <2>2. expr[u] # e
    BY <1>1, <1>10
  <2> QED BY <1>3, <1>10, <2>1, <2>2
<1>11. Pending'
  <2> SUFFICES ASSUME NEW u \in Threads
               PROVE  /\ pc'[u] = "wait" /\ lock[cell[u]] = "empty" =>
                            expr[u] \in Registered /\ roots'[expr[u]] = cell[u]
                      /\ pc'[u] \in {"reserve", "publish"} =>
                            expr[u] \in Registered /\ roots'[expr[u]] = cell[u]
                      /\ pc'[u] = "publishUnkept" => \A x \in Registered : roots'[x] # cell[u]
    BY <1>2, <1>5 DEF Pending
  <2>1. CASE u = t /\ kept
    BY <1>1, <1>3, <1>4, <2>1
  <2>2. CASE u = t /\ ~ kept
    <3>1. \A x \in Registered : roots'[x] # cell[t]
      <4> SUFFICES ASSUME NEW x \in Registered, roots'[x] = cell[t] PROVE FALSE
        OBVIOUS
      <4>1. cell[t] # None
        BY <1>1 DEF ConstantsAreApart
      <4>2. roots[x] = cell[t]
        BY <1>7, <4>1
      <4>3. x = e
        BY <1>1, <4>1, <4>2 DEF IInv, OwnCells
      <4> QED BY <1>3, <2>2, <4>1, <4>3
    <3> QED BY <1>4, <2>2, <3>1
  <2>3. CASE u # t
    <3>1. pc'[u] = pc[u]
      BY <1>4, <2>3
    <3>2. pc[u] = "wait" /\ lock[cell[u]] = "empty" =>
             /\ expr[u] \in Registered /\ roots[expr[u]] = cell[u] /\ cell[u] \in Cells
             /\ lock[cell[u]] \notin {"ready", t}
      BY DEF IInv, Pending, Holding, ConstantsAreApart
    <3>3. pc[u] \in {"reserve", "publish"} =>
             /\ expr[u] \in Registered /\ roots[expr[u]] = cell[u] /\ cell[u] \in Cells
             /\ lock[cell[u]] \notin {"ready", t}
      BY <2>3 DEF IInv, Pending, Holding, Initializing, ConstantsAreApart
    <3>4. pc[u] = "publishUnkept" => \A x \in Registered : roots'[x] # cell[u]
      <4> SUFFICES ASSUME pc[u] = "publishUnkept", NEW x \in Registered, roots'[x] = cell[u] PROVE FALSE
        OBVIOUS
      <4>1. cell[u] \in Cells /\ cell[u] # None /\ roots[x] # cell[u]
        BY DEF IInv, Holding, Pending, Initializing, ConstantsAreApart
      <4> QED BY <1>7, <4>1
    <3> QED BY <1>10, <2>3, <3>1, <3>2, <3>3, <3>4
  <2> QED BY <2>1, <2>2, <2>3
<1>12. InQueue'
  <2>1. \A u \in Threads : pc'[u] = "publish" => expr'[u] \in Queued'
    <3> SUFFICES ASSUME NEW u \in Threads, pc'[u] = "publish" PROVE expr[u] \in Queued'
      BY <1>5
    <3>1. CASE u = t
      BY <1>2, <1>4, <3>1
    <3>2. CASE u # t
      <4>1. pc[u] = "publish" /\ expr[u] \in Queued /\ roots[expr[u]] = cell[u] /\ lock[cell[u]] = u
        BY <1>4, <3>2 DEF IInv, InQueue, Pending, Holding, Initializing
      <4>2. expr[u] \notin gone
        BY <4>1 DEF IsReady, ConstantsAreApart
      <4> QED BY <1>2, <4>1, <4>2
    <3> QED BY <3>1, <3>2
  <2>2. \A x \in Queued' : x \in Registered' /\ roots'[x] # None
    <3>1. ASSUME NEW x \in Queued, x \notin gone PROVE x \in Registered /\ roots'[x] # None
      <4> x \in Registered /\ roots[x] # None /\ x # e
        BY <1>1, <3>1 DEF IInv, InQueue
      <4> QED BY <1>3, <3>1
    <3>2. kept => roots'[e] # None
      BY <1>1, <1>3 DEF ConstantsAreApart
    <3> QED BY <1>1, <1>2, <3>1, <3>2
  <2>3. ASSUME NEW x \in Registered, x \notin gone, x # e
        PROVE  bytes'[x] = bytes[x] /\ (IsReady(roots[x])' <=> IsReady(roots[x]))
    BY <1>3, <1>5, <2>3 DEF IsReady
  <2>4. \A x \in Queued' : IsReady(roots[x])' \/ \E u \in Threads : pc'[u] = "publish" /\ expr'[u] = x
    <3> SUFFICES ASSUME NEW x \in Queued'
                 PROVE  IsReady(roots[x])' \/ \E u \in Threads : pc'[u] = "publish" /\ expr[u] = x
      BY <1>5
    <3>1. CASE x = e
      <4> kept
        BY <1>1, <1>2, <3>1
      <4> QED BY <1>4, <3>1
    <3>2. CASE x # e
      <4>1. x \in Queued /\ x \notin gone /\ x \in Registered
        BY <1>2, <3>2 DEF IInv, InQueue
      <4>2. CASE IsReady(roots[x])
        BY <2>3, <3>2, <4>1, <4>2
      <4>3. CASE ~ IsReady(roots[x])
        <5>1. PICK u \in Threads : pc[u] = "publish" /\ expr[u] = x
          BY <4>1, <4>3 DEF IInv, InQueue
        <5>2. pc'[u] = "publish"
          BY <1>4, <5>1
        <5> QED BY <5>1, <5>2
      <4> QED BY <4>2, <4>3
    <3> QED BY <3>1, <3>2
  <2>5. ASSUME NEW x \in Registered, bytes'[x] # 0 \/ IsReady(roots[x])' PROVE x \in Queued'
    <3>1. CASE x = e
      <4>1. ~ IsReady(roots[x])'
        BY <1>1, <1>3, <1>5, <3>1 DEF IsReady
      <4>2. kept
        BY <1>3, <2>5, <3>1, <4>1
      <4> QED BY <1>2, <3>1, <4>2
    <3>2. CASE x \in gone
      BY <1>3, <2>5, <3>2 DEF IsReady
    <3>3. CASE x # e /\ x \notin gone
      <4>1. bytes[x] # 0 \/ IsReady(roots[x])
        BY <2>3, <2>5, <3>3
      <4>2. x \in Queued
        BY <4>1 DEF IInv, InQueue
      <4> QED BY <1>2, <3>3, <4>2
    <3> QED BY <3>1, <3>2, <3>3
  <2> QED BY <1>2, <2>1, <2>2, <2>4, <2>5 DEF InQueue
<1>13. (IsInjective(order) /\ total = Reserved(order) /\ total <= Budget
        /\ Cardinality(Registered) <= MaxRoots)'
  BY <1>2 DEF Reserved, IInv
<1> QED BY <1>6, <1>8, <1>9, <1>11, <1>12, <1>13 DEF IInv

LEMMA ReserveKeeps ==
  ASSUME IInv, ConstantsAreApart, NEW t \in Threads, Reserve(t)
  PROVE  IInv'
<1>1. PICK e : e = expr[t]
  OBVIOUS
<1>2. PICK need : need = Bytes[e]
  OBVIOUS
<1>3. PICK scan : scan = Scan(need)
  OBVIOUS
<1>4. PICK queue, gone, sum : queue = scan.queue /\ gone = scan.gone /\ sum = scan.total
  OBVIOUS
<1>5. /\ e \in Registered /\ e \in Exprs /\ ~ IsReady(roots[e]) /\ e \notin Queued
      /\ pc[t] = "reserve" /\ need \in Nat /\ Registered \subseteq Exprs
  BY <1>1, <1>2, ReservingRoot DEF Reserve, IInv, TypeOK, ConstantsAreApart
<1>6. Scanning(scan, Len(order))
  BY <1>3, <1>5, ScanIsExact DEF IInv, InQueue
<1>7. /\ queue \in Seq(Registered) /\ IsInjective(queue)
      /\ ToSet(queue) = Queued \ gone /\ gone \subseteq Queued
      /\ \A x \in gone : IsReady(roots[x])
      /\ sum = TotalOf(bytes, queue) /\ sum \in Int /\ sum <= Budget
  <2>1. total \in Int /\ total <= Budget /\ Budget \in Int
    BY DEF IInv, TypeOK, ConstantsAreApart
  <2> QED BY <1>4, <1>6, <2>1 DEF Scanning, Removable, Reserved
<1>8. /\ e \notin gone /\ e \notin ToSet(queue) /\ Budget \in Int
      /\ bytes \in [Registered -> Nat] /\ roots \in [Registered -> Cells \cup {None}]
  BY <1>5, <1>7 DEF ConstantsAreApart, IInv, TypeOK
<1>9. queue \in Seq(Exprs)
  BY <1>5, <1>7, SeqMonotonic
<1>10. \A x \in ToSet(queue) : x \in Registered /\ x \notin gone /\ x # e
  BY <1>5, <1>7, <1>8 DEF IInv, InQueue
<1>11. CASE sum + need <= Budget
  <2>1. PICK kept \in BOOLEAN : kept = TRUE
    OBVIOUS
  <2>2. PICK s : s = "publish"
    OBVIOUS
  <2>3. /\ order' = Append(queue, e) /\ total' = sum + need
        /\ roots' = [x \in Registered |-> IF x \in gone THEN None ELSE roots[x]]
        /\ bytes' = [x \in Registered |-> CASE x = e -> need
                                            [] x \in gone \ {e} -> 0
                                            [] OTHER -> bytes[x]]
        /\ pc' = [pc EXCEPT ![t] = s] /\ UNCHANGED <<lock, expr, cell>>
    <3>1. ~ (sum + need > Budget)
      BY <1>5, <1>7, <1>8, <1>11
    <3> QED BY <1>1, <1>2, <1>3, <1>4, <2>2, <3>1 DEF Reserve, Goto
  <2>4. ASSUME NEW x \in Registered
        PROVE  bytes'[x] = IF x \in gone THEN 0 ELSE IF x = e /\ kept THEN need ELSE bytes[x]
    <3>1. CASE x = e
      BY <1>8, <2>1, <2>3, <3>1
    <3>2. CASE x # e /\ x \in gone
      BY <2>3, <3>2
    <3>3. CASE x # e /\ x \notin gone
      BY <2>3, <3>3
    <3> QED BY <3>1, <3>2, <3>3
  <2>5. \A x \in Registered :
           roots'[x] = IF x \in gone \/ (x = e /\ ~ kept) THEN None ELSE roots[x]
    BY <2>1, <2>3
  <2>6. roots' \in [Registered -> Cells \cup {None}] /\ bytes' \in [Registered -> Nat]
    <3>1. bytes' = [x \in Registered |-> bytes'[x]] /\ \A x \in Registered : bytes'[x] \in Nat
      BY <1>5, <1>8, <2>3, <2>4
    <3> QED BY <1>8, <2>3, <3>1
  <2>7. /\ order' \in Seq(Exprs) /\ IsInjective(order')
        /\ ToSet(order') = IF kept THEN (Queued \ gone) \cup {e} ELSE Queued \ gone
    <3>1. /\ Append(queue, e) \in Seq(Exprs) /\ IsInjective(Append(queue, e))
          /\ ToSet(Append(queue, e)) = ToSet(queue) \cup {e}
      BY <1>5, <1>7, <1>8, <1>9, AppendToQueue
    <3> QED BY <1>7, <2>1, <2>3, <3>1
  <2>8. total' \in Int /\ total' = TotalOf(bytes', order') /\ total' <= Budget
    <3>1. PICK w : w = bytes'
      OBVIOUS
    <3>2. w \in [Registered -> Int] /\ w[e] = need
      BY <1>5, <1>8, <2>1, <2>4, <2>6, <3>1
    <3>3. TotalOf(w, Append(queue, e)) = TotalOf(w, queue) + w[e]
      BY <1>5, <1>7, <3>2, TotalOfAppend
    <3>4. \A x \in ToSet(queue) : w[x] = bytes[x]
      BY <1>10, <2>4, <3>1
    <3>5. TotalOf(w, queue) = TotalOf(bytes, queue)
      BY <1>7, <3>4, TotalOfAgree
    <3> QED BY <1>5, <1>7, <1>8, <1>11, <2>3, <3>1, <3>2, <3>3, <3>5
  <2> QED BY <1>1, <1>5, <1>7, <2>1, <2>2, <2>3, <2>4, <2>5, <2>6, <2>7, <2>8, ReservationKeeps
<1>12. CASE sum + need > Budget
  <2>1. PICK kept \in BOOLEAN : kept = FALSE
    OBVIOUS
  <2>2. PICK s : s = "publishUnkept"
    OBVIOUS
  <2>3. /\ order' = queue /\ total' = sum
        /\ roots' = [x \in Registered |-> IF x \in gone \cup {e} THEN None ELSE roots[x]]
        /\ bytes' = [x \in Registered |-> IF x \in gone THEN 0 ELSE bytes[x]]
        /\ pc' = [pc EXCEPT ![t] = s] /\ UNCHANGED <<lock, expr, cell>>
    <3>1. ~ (sum + need <= Budget)
      BY <1>5, <1>7, <1>8, <1>12
    <3> QED BY <1>1, <1>2, <1>3, <1>4, <2>2, <3>1 DEF Reserve, Goto
  <2>4. \A x \in Registered :
           /\ bytes'[x] = IF x \in gone THEN 0 ELSE IF x = e /\ kept THEN need ELSE bytes[x]
           /\ roots'[x] = IF x \in gone \/ (x = e /\ ~ kept) THEN None ELSE roots[x]
    BY <2>1, <2>3
  <2>5. roots' \in [Registered -> Cells \cup {None}] /\ bytes' \in [Registered -> Nat]
    BY <1>8, <2>3
  <2>6. /\ order' \in Seq(Exprs) /\ IsInjective(order')
        /\ ToSet(order') = IF kept THEN (Queued \ gone) \cup {e} ELSE Queued \ gone
    BY <1>7, <1>9, <2>1, <2>3
  <2>7. total' \in Int /\ total' = TotalOf(bytes', order') /\ total' <= Budget
    <3>1. \A x \in ToSet(queue) : bytes'[x] = bytes[x]
      BY <1>10, <2>3
    <3>2. TotalOf(bytes', queue) = TotalOf(bytes, queue)
      <4>1. PICK w : w = bytes'
        OBVIOUS
      <4>2. TotalOf(w, queue) = TotalOf(bytes, queue)
        BY <1>7, <3>1, <4>1, TotalOfAgree
      <4> QED BY <4>1, <4>2
    <3> QED BY <1>7, <2>3, <3>2
  <2> QED BY <1>1, <1>5, <1>7, <2>1, <2>2, <2>3, <2>4, <2>5, <2>6, <2>7, ReservationKeeps
<1> QED BY <1>5, <1>7, <1>8, <1>11, <1>12

LEMMA OversizeKeeps ==
  ASSUME IInv, ConstantsAreApart, NEW t \in Threads, Oversize(t)
  PROVE  IInv'
<1>1. PICK e, gone : e = expr[t] /\ gone = {}
  OBVIOUS
<1>2. PICK kept \in BOOLEAN : kept = FALSE
  OBVIOUS
<1>3. PICK s : s = "publishUnkept"
  OBVIOUS
<1>4. PICK need \in Nat : need = 0
  OBVIOUS
<1>5. /\ pc[t] = "reserve" /\ pc' = [pc EXCEPT ![t] = s] /\ roots' = [roots EXCEPT ![e] = None]
      /\ UNCHANGED <<bytes, order, total, lock, expr, cell>>
  BY <1>1, <1>3 DEF Oversize, Goto
<1>6. /\ bytes \in [Registered -> Nat] /\ roots \in [Registered -> Cells \cup {None}]
      /\ order \in Seq(Exprs) /\ total \in Int
  BY DEF IInv, TypeOK
<1>7. /\ \A x \in Registered :
            /\ bytes'[x] = IF x \in gone THEN 0 ELSE IF x = e /\ kept THEN need ELSE bytes[x]
            /\ roots'[x] = IF x \in gone \/ (x = e /\ ~ kept) THEN None ELSE roots[x]
      /\ roots' \in [Registered -> Cells \cup {None}] /\ bytes' \in [Registered -> Nat]
  BY <1>1, <1>2, <1>5, <1>6
<1>8. /\ order' \in Seq(Exprs) /\ IsInjective(order')
      /\ ToSet(order') = IF kept THEN (Queued \ gone) \cup {e} ELSE Queued \ gone
  BY <1>1, <1>2, <1>5, <1>6 DEF IInv, Queued
<1>9. total' \in Int /\ total' = TotalOf(bytes', order') /\ total' <= Budget
  BY <1>5, <1>6 DEF IInv, Reserved
<1> QED BY <1>1, <1>2, <1>3, <1>4, <1>5, <1>7, <1>8, <1>9, ReservationKeeps

\* The one thread that finds the OnceLock empty.
LEMMA InitializeKeeps ==
  ASSUME IInv, ConstantsAreApart, NEW t \in Threads, Initialize(t)
  PROVE  IInv'
<1>1. PICK e, c : e = expr[t] /\ c = cell[t]
  OBVIOUS
<1>2. /\ pc[t] = "wait" /\ lock[c] = "empty" /\ lock' = [lock EXCEPT ![c] = t]
      /\ pc' = [pc EXCEPT ![t] = "reserve"]
      /\ roots' = roots /\ bytes' = bytes /\ order' = order /\ total' = total
      /\ expr' = expr /\ cell' = cell /\ Registered' = Registered /\ Queued' = Queued
  BY <1>1 DEF Initialize, Goto, shard, Registered, Queued
<1>3. c \in Cells /\ e \in Registered /\ roots[e] = c
  BY <1>1, <1>2 DEF IInv, Holding, Pending
<1>4. /\ pc'[t] = "reserve" /\ \A u \in Threads : u # t => pc'[u] = pc[u]
      /\ pc' \in [Threads -> States]
  BY <1>2 DEF IInv, TypeOK, States, Initializing
<1>5. /\ lock'[c] = t /\ \A d \in Cells : d # c => lock'[d] = lock[d]
      /\ lock' \in [Cells -> {"empty", "ready"} \cup Threads]
  BY <1>2, <1>3 DEF IInv, TypeOK
<1>6. TypeOK'
  BY <1>2, <1>4, <1>5 DEF IInv, TypeOK
<1>7. OwnCells' /\ (IsInjective(order) /\ total = Reserved(order) /\ total <= Budget
      /\ Cardinality(Registered) <= MaxRoots)'
  BY <1>2 DEF IInv, OwnCells, Reserved
<1>8. Holding'
  <2> SUFFICES ASSUME NEW u \in Threads
               PROVE  /\ pc'[u] \in {"wait"} \cup Initializing => cell[u] \in Cells
                      /\ pc'[u] \in Initializing => lock'[cell[u]] = u
    BY <1>2 DEF Holding
  <2>1. CASE u = t
    BY <1>1, <1>3, <1>5, <2>1
  <2>2. CASE u # t
    <3>1. /\ pc[u] \in {"wait"} \cup Initializing => cell[u] \in Cells
          /\ pc[u] \in Initializing => lock[cell[u]] = u
      BY DEF IInv, Holding
    <3>2. pc[u] \in Initializing => cell[u] # c
      BY <1>2, <3>1 DEF ConstantsAreApart
    <3> QED BY <1>4, <1>5, <2>2, <3>1, <3>2
  <2> QED BY <2>1, <2>2
<1>9. Pending'
  <2> SUFFICES ASSUME NEW u \in Threads
               PROVE  /\ pc'[u] = "wait" /\ lock'[cell[u]] = "empty" =>
                            expr[u] \in Registered /\ roots[expr[u]] = cell[u]
                      /\ pc'[u] \in {"reserve", "publish"} =>
                            expr[u] \in Registered /\ roots[expr[u]] = cell[u]
                      /\ pc'[u] = "publishUnkept" => \A x \in Registered : roots[x] # cell[u]
    BY <1>2 DEF Pending
  <2>1. CASE u = t
    BY <1>1, <1>3, <1>4, <2>1
  <2>2. CASE u # t
    <3>1. pc'[u] = pc[u]
      BY <1>4, <2>2
    <3>2. ASSUME pc[u] = "wait", lock'[cell[u]] = "empty" PROVE lock[cell[u]] = "empty"
      <4>1. cell[u] \in Cells
        BY <3>2 DEF IInv, Holding
      <4>2. cell[u] # c
        BY <1>5, <3>2 DEF ConstantsAreApart
      <4> QED BY <1>5, <3>2, <4>1, <4>2
    <3> QED BY <3>1, <3>2 DEF IInv, Pending
  <2> QED BY <2>1, <2>2
\* Neither the old content of the cell nor the new one is a value.
<1>10. \A d \in Cells \cup {None} : IsReady(d)' <=> IsReady(d)
  BY <1>2, <1>5 DEF IsReady, ConstantsAreApart
<1>11. InQueue'
  <2>1. \A x \in Registered : roots[x] \in Cells \cup {None}
    BY DEF IInv, TypeOK
  <2>2. \A x \in Registered : IsReady(roots[x])' <=> IsReady(roots[x])
    BY <1>2, <1>10, <2>1 DEF IsReady
  <2>3. \A u \in Threads : pc'[u] = "publish" <=> pc[u] = "publish"
    BY <1>2, <1>4
  <2>4. \A x \in Queued : x \in Registered
    BY DEF IInv, InQueue
  <2>5. \A x \in Queued : IsReady(roots[x])' \/ \E u \in Threads : pc'[u] = "publish" /\ expr[u] = x
    <3> SUFFICES ASSUME NEW x \in Queued, ~ IsReady(roots[x])'
                 PROVE  \E u \in Threads : pc'[u] = "publish" /\ expr[u] = x
      OBVIOUS
    <3>1. ~ IsReady(roots[x])
      BY <2>2, <2>4
    <3>2. PICK u \in Threads : pc[u] = "publish" /\ expr[u] = x
      BY <3>1 DEF IInv, InQueue
    <3> QED BY <2>3, <3>2
  <2>6. \A x \in Registered : bytes[x] # 0 \/ IsReady(roots[x])' => x \in Queued
    BY <2>2 DEF IInv, InQueue
  <2> QED BY <1>2, <2>3, <2>5, <2>6 DEF IInv, InQueue
<1> QED BY <1>6, <1>7, <1>8, <1>9, <1>11 DEF IInv

\* The value that becomes ready is the queue's, or nobody's.
LEMMA PublishKeeps ==
  ASSUME IInv, ConstantsAreApart, NEW t \in Threads, Publish(t)
  PROVE  IInv'
<1>1. PICK e, c : e = expr[t] /\ c = cell[t]
  OBVIOUS
<1>2. /\ pc[t] \in {"publish", "publishUnkept"} /\ lock' = [lock EXCEPT ![c] = "ready"]
      /\ pc' = [pc EXCEPT ![t] = "shared"]
      /\ roots' = roots /\ bytes' = bytes /\ order' = order /\ total' = total
      /\ expr' = expr /\ cell' = cell /\ Registered' = Registered /\ Queued' = Queued
  BY <1>1 DEF Publish, Goto, shard, Registered, Queued
<1>3. c \in Cells /\ lock[c] = t
  BY <1>1, <1>2 DEF IInv, Holding, Initializing
<1>4. /\ pc'[t] = "shared" /\ \A u \in Threads : u # t => pc'[u] = pc[u]
      /\ pc' \in [Threads -> States]
  BY <1>2 DEF IInv, TypeOK, States
<1>5. /\ lock'[c] = "ready" /\ \A d \in Cells : d # c => lock'[d] = lock[d]
      /\ lock' \in [Cells -> {"empty", "ready"} \cup Threads]
  BY <1>2, <1>3 DEF IInv, TypeOK
<1>6. TypeOK'
  <2>1. \A u \in Threads : pc'[u] # "idle" => expr'[u] \in Exprs
    BY <1>2, <1>4 DEF IInv, TypeOK
  <2> QED BY <1>2, <1>4, <1>5, <2>1 DEF IInv, TypeOK
<1>7. OwnCells' /\ (IsInjective(order) /\ total = Reserved(order) /\ total <= Budget
      /\ Cardinality(Registered) <= MaxRoots)'
  BY <1>2 DEF IInv, OwnCells, Reserved
<1>8. Holding'
  <2> SUFFICES ASSUME NEW u \in Threads, u # t
               PROVE  /\ pc[u] \in {"wait"} \cup Initializing => cell[u] \in Cells
                      /\ pc[u] \in Initializing => lock'[cell[u]] = u
    BY <1>2, <1>4 DEF Holding, Initializing
  <2>1. /\ pc[u] \in {"wait"} \cup Initializing => cell[u] \in Cells
        /\ pc[u] \in Initializing => lock[cell[u]] = u
    BY DEF IInv, Holding
  <2>2. pc[u] \in Initializing => cell[u] # c
    BY <1>3, <2>1
  <2> QED BY <1>5, <2>1, <2>2
<1>9. Pending'
  <2> SUFFICES ASSUME NEW u \in Threads, u # t
               PROVE  /\ pc[u] = "wait" /\ lock'[cell[u]] = "empty" =>
                            expr[u] \in Registered /\ roots[expr[u]] = cell[u]
                      /\ pc[u] \in {"reserve", "publish"} =>
                            expr[u] \in Registered /\ roots[expr[u]] = cell[u]
                      /\ pc[u] = "publishUnkept" => \A x \in Registered : roots[x] # cell[u]
    BY <1>2, <1>4 DEF Pending
  <2>1. ASSUME pc[u] = "wait", lock'[cell[u]] = "empty" PROVE lock[cell[u]] = "empty"
    <3>1. cell[u] \in Cells
      BY <2>1 DEF IInv, Holding
    <3> QED BY <1>5, <2>1, <3>1
  <2> QED BY <2>1 DEF IInv, Pending
<1>10. \A d \in Cells \cup {None} : d # c => (IsReady(d)' <=> IsReady(d))
  BY <1>5 DEF IsReady
<1>11. InQueue'
  <2>1. \A x \in Registered : roots[x] \in Cells \cup {None}
    BY DEF IInv, TypeOK
  <2>2. \A x \in Registered : roots[x] # c => (IsReady(roots[x])' <=> IsReady(roots[x]))
    BY <1>2, <1>10, <2>1 DEF IsReady
  <2>3. \A u \in Threads : pc'[u] = "publish" => expr[u] \in Queued
    BY <1>4 DEF IInv, InQueue
  <2>4. \A x \in Queued : x \in Registered
    BY DEF IInv, InQueue
  <2>5. \A x \in Queued : IsReady(roots[x])' \/ \E u \in Threads : pc'[u] = "publish" /\ expr[u] = x
    <3> SUFFICES ASSUME NEW x \in Queued, ~ IsReady(roots[x])'
                 PROVE  \E u \in Threads : pc'[u] = "publish" /\ expr[u] = x
      OBVIOUS
    <3>1. roots[x] # c
      BY <1>2, <1>3, <1>5 DEF IsReady, ConstantsAreApart
    <3>2. ~ IsReady(roots[x])
      BY <2>2, <2>4, <3>1
    <3>3. PICK u \in Threads : pc[u] = "publish" /\ expr[u] = x
      BY <3>2 DEF IInv, InQueue
    <3>4. u # t
      <4>1. roots[expr[u]] = cell[u]
        BY <3>3 DEF IInv, Pending
      <4> QED BY <1>1, <3>1, <3>3, <4>1
    <3> QED BY <1>4, <3>3, <3>4
  <2>6. \A x \in Registered : bytes[x] # 0 \/ IsReady(roots[x])' => x \in Queued
    <3> SUFFICES ASSUME NEW x \in Registered, bytes[x] # 0 \/ IsReady(roots[x])', x \notin Queued
                 PROVE  FALSE
      OBVIOUS
    <3>1. bytes[x] = 0 /\ ~ IsReady(roots[x])
      BY DEF IInv, InQueue
    <3>2. roots[x] = c
      BY <2>2, <3>1
    <3>3. pc[t] = "publish"
      BY <1>1, <1>2, <3>2 DEF IInv, Pending
    <3>4. e \in Queued /\ e \in Registered /\ roots[e] = c
      BY <1>1, <3>3 DEF IInv, InQueue, Pending
    <3>5. x = e
      BY <1>3, <3>2, <3>4 DEF IInv, OwnCells, ConstantsAreApart
    <3> QED BY <3>4, <3>5
  <2>7. \A x \in Queued : x \in Registered /\ roots[x] # None
    BY DEF IInv, InQueue
  <2> QED BY <1>2, <2>3, <2>5, <2>6, <2>7 DEF InQueue
<1> QED BY <1>6, <1>7, <1>8, <1>9, <1>11 DEF IInv

-----------------------------------------------------------------------------
(* Every step                                                              *)

LEMMA StutteringKeeps == ASSUME IInv, UNCHANGED vars PROVE IInv'
<1>1. TypeOK' /\ OwnCells' /\ Holding'
  BY DEF vars, IInv, TypeOK, OwnCells, Holding, Registered
<1>2. Pending' /\ InQueue'
  BY DEF vars, IInv, Pending, InQueue, Registered, Queued, IsReady
<1>3. IsInjective(order)' /\ (total = Reserved(order))' /\ (total <= Budget)'
  BY DEF vars, IInv, Reserved
<1>4. (Cardinality(Registered) <= MaxRoots)'
  BY DEF vars, IInv, Registered
<1> QED BY <1>1, <1>2, <1>3, <1>4 DEF IInv

LEMMA NextKeeps == ASSUME IInv, ConstantsAreApart, [Next]_vars PROVE IInv'
<1>1. CASE UNCHANGED vars
  BY <1>1, StutteringKeeps
<1>2. ASSUME NEW t \in Threads, NEW e \in Exprs, NEW entry \in {"extract", "lookup"},
             Call(t, e, entry)
      PROVE  IInv'
  BY <1>2, QuietSteps
<1>3. ASSUME NEW t \in Threads, Step(t) PROVE IInv'
  BY <1>3, QuietSteps, RegisterKeeps, InitializeKeeps, OversizeKeeps, ReserveKeeps, PublishKeeps
     DEF Step
<1> QED BY <1>1, <1>2, <1>3 DEF Next

\* The eviction queue, the registered roots and the running byte count agree after every
\* step of every thread, however the reservations, evictions and publications of any
\* number of threads interleave: whatever is kept can be evicted, and it fits the budget.
THEOREM WorksetAccounts == ASSUME ConstantsAreApart PROVE Spec => []QueuesAccount
<1>1. Init => IInv
  BY InitKeeps
<1>2. IInv /\ [Next]_vars => IInv'
  BY NextKeeps
<1>3. IInv => QueuesAccount
  BY DEF IInv, InQueue, Queued, QueuesAccount
<1> QED BY <1>1, <1>2, <1>3, PTL DEF Spec

\* No eviction and no other thread's cell comes between a thread's claim of a root, its
\* reservation and its publication.
THEOREM InitializersOwnTheirRoots == ASSUME ConstantsAreApart PROVE Spec => []InitializerOwnsRoot
<1>1. Init => IInv
  BY InitKeeps
<1>2. IInv /\ [Next]_vars => IInv'
  BY NextKeeps
<1>3. IInv => InitializerOwnsRoot
  BY DEF IInv, Pending, InitializerOwnsRoot
<1> QED BY <1>1, <1>2, <1>3, PTL DEF Spec
=============================================================================
