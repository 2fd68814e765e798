--------------------------- MODULE ExtractionProofs ---------------------------
(***************************************************************************)
(* A shard of the extraction cache keeps its accounts, so that eviction    *)
(* finds an entry whenever it needs one, and never replaces a published    *)
(* success, whatever the numbers of threads, expressions and coefficients. *)
(***************************************************************************)
EXTENDS ExtractionCache

Entries == [expr : Exprs, size : Nat]

States == {"idle", "lookup", "admitFirst", "admit", "lookupAdmitted", "extract", "failed",
           "shared", "owned", "recovered"}

CacheType == /\ DOMAIN values \subseteq Exprs /\ IsFiniteSet(DOMAIN values)
             /\ order \in Seq(Entries) /\ coefficients \in Int

ThreadType == /\ pc \in [Threads -> States] /\ DOMAIN expr = Threads
              /\ \A t \in Threads : pc[t] # "idle" => expr[t] \in Exprs

IInv == CacheType /\ ThreadType /\ QueuesAccount

-----------------------------------------------------------------------------
(* The queue of entries                                                    *)

\* The entries of q, each of an expression of its own, are those of the expressions X,
\* and their sizes those of the values v.
Accounts(q, X, v) ==
    /\ q \in Seq(Entries)
    /\ \A i \in 1..Len(q) : q[i].expr \in X
    /\ \A x \in X : \E i \in 1..Len(q) : q[i].expr = x
    /\ \A i, j \in 1..Len(q) : q[i].expr = q[j].expr => i = j
    /\ \A i \in 1..Len(q) :
          q[i].size = IF v[q[i].expr] = Failure THEN 0 ELSE Size[q[i].expr]

LEMMA SizesOfQueue ==
  ASSUME NEW q \in Seq(Entries)
  PROVE  /\ Sizes(q) \in Seq(Int) /\ Len(Sizes(q)) = Len(q)
         /\ \A i \in 1..Len(q) : Sizes(q)[i] = q[i].size
<1>1. DOMAIN q = 1..Len(q) /\ Len(q) \in Nat /\ \A i \in 1..Len(q) : q[i].size \in Int
  <2>1. DOMAIN q = 1..Len(q) /\ Len(q) \in Nat /\ \A i \in 1..Len(q) : q[i] \in Entries
    OBVIOUS
  <2>2. \A x \in Entries : x.size \in Int
    BY DEF Entries
  <2> QED BY <2>1, <2>2
<1> DEFINE s == [i \in 1..Len(q) |-> q[i].size]
<1>2. s \in [1..Len(q) -> Int]
  BY <1>1
<1>3. s \in Seq(Int) /\ Len(s) = Len(q)
  BY <1>1, <1>2
<1> QED BY <1>1, <1>3 DEF Sizes

\* The sizes of the entries are summed as they come and go.
LEMMA TotalOfMore ==
  ASSUME NEW q \in Seq(Entries), NEW x \in Entries
  PROVE  Total(Sizes(Append(q, x))) = Total(Sizes(q)) + x.size
<1>1. PICK o, n : o = Append(q, x) /\ n = Len(q)
  OBVIOUS
<1>2. /\ o \in Seq(Entries) /\ Len(o) = n + 1 /\ n \in Nat /\ o[n + 1] = x
      /\ \A i \in 1..n : o[i] = q[i]
  BY <1>1, AppendProperties
<1>3. PICK a, s, z : a = Sizes(o) /\ s = Sizes(q) /\ z = x.size
  OBVIOUS
<1>4. /\ a \in Seq(Int) /\ Len(a) = n + 1 /\ \A i \in 1..(n + 1) : a[i] = o[i].size
      /\ s \in Seq(Int) /\ Len(s) = n /\ \A i \in 1..n : s[i] = q[i].size
  BY <1>1, <1>2, <1>3, SizesOfQueue
<1>5. z \in Int
  BY <1>3 DEF Entries
<1>6. PICK b : b = Append(s, z)
  OBVIOUS
<1>7. b \in Seq(Int) /\ Len(b) = n + 1 /\ b[n + 1] = z /\ \A i \in 1..n : b[i] = s[i]
  BY <1>4, <1>5, <1>6
<1>8. ASSUME NEW i \in 1..(n + 1) PROVE a[i] = b[i]
  <2>1. CASE i = n + 1
    BY <1>2, <1>3, <1>4, <1>7, <2>1
  <2>2. CASE i # n + 1
    <3>1. i \in 1..n
      BY <1>2, <2>2
    <3> QED BY <1>2, <1>4, <1>7, <3>1
  <2> QED BY <2>1, <2>2
<1>9. a = b
  BY <1>4, <1>7, <1>8
<1>10. Total(b) = Total(s) + z
  BY <1>4, <1>5, <1>6, TotalAppend
<1> QED BY <1>1, <1>3, <1>9, <1>10

LEMMA TotalOfFewer ==
  ASSUME NEW q \in Seq(Entries), NEW k \in 0..Len(q)
  PROVE  /\ Total(Sizes(SubSeq(q, k + 1, Len(q)))) = Total(Sizes(q)) - Partials(Sizes(q))[k]
         /\ Total(Sizes(q)) \in Int /\ Partials(Sizes(q))[k] \in Int
<1>1. PICK r : r = SubSeq(q, k + 1, Len(q))
  OBVIOUS
<1>2. r \in Seq(Entries) /\ Len(r) = Len(q) - k /\ \A i \in 1..Len(r) : r[i] = q[k + i]
  BY <1>1, RestOfQueue
<1>3. PICK s, t : s = Sizes(q) /\ t = Sizes(r)
  OBVIOUS
<1>4. /\ s \in Seq(Int) /\ Len(s) = Len(q) /\ \A i \in 1..Len(q) : s[i] = q[i].size
      /\ t \in Seq(Int) /\ Len(t) = Len(r) /\ \A i \in 1..Len(r) : t[i] = r[i].size
  BY <1>2, <1>3, SizesOfQueue
<1>5. ASSUME NEW i \in 1..Len(t) PROVE t[i] = s[k + i]
  <2>1. i \in 1..Len(r) /\ k + i \in 1..Len(q)
    BY <1>2, <1>4
  <2> QED BY <1>2, <1>4, <2>1
<1>6. k \in 0..Len(s) /\ Len(t) = Len(s) - k
  BY <1>2, <1>4
<1>7. Total(t) = Total(s) - Partials(s)[k] /\ Total(s) \in Int /\ Partials(s)[k] \in Int
  BY <1>4, <1>5, <1>6, TotalOfRest
<1> QED BY <1>1, <1>3, <1>7

\* What is left of the queue when the failure of e, which has no size, is removed.
LEMMA RetainedQueue ==
  ASSUME Accounts(order, DOMAIN values, values), NEW e \in DOMAIN values, values[e] = Failure,
         NEW i \in DOMAIN order, order[i].expr = e
  PROVE  /\ Accounts(RemoveAt(order, i), DOMAIN values \ {e}, values)
         /\ Total(Sizes(RemoveAt(order, i))) = Total(Sizes(order))
<1>1. PICK q : q = RemoveAt(order, i)
  OBVIOUS
<1>2. /\ order \in Seq(Entries) /\ i \in 1..Len(order) /\ order[i].size = 0 /\ Len(order) \in Nat
      /\ \A j, l \in 1..Len(order) : order[j].expr = order[l].expr => j = l
  BY DEF Accounts
<1>3. /\ q \in Seq(Entries) /\ Len(q) = Len(order) - 1
      /\ \A j \in 1..Len(q) : q[j] = IF j < i THEN order[j] ELSE order[j + 1]
  BY <1>1, <1>2, RemoveFromQueue
<1>4. ASSUME NEW j \in 1..Len(q)
      PROVE  \E l \in 1..Len(order) : l # i /\ q[j] = order[l] /\ l = IF j < i THEN j ELSE j + 1
  <2>1. CASE j < i
    <3> j \in 1..Len(order) /\ j # i /\ q[j] = order[j]
      BY <1>2, <1>3, <2>1
    <3> QED BY <2>1
  <2>2. CASE ~ (j < i)
    <3>1. j + 1 \in 1..Len(order) /\ j + 1 # i /\ q[j] = order[j + 1]
      BY <1>2, <1>3, <2>2
    <3> QED BY <2>2, <3>1
  <2> QED BY <2>1, <2>2
<1>5. ASSUME NEW x \in DOMAIN values \ {e} PROVE \E j \in 1..Len(q) : q[j].expr = x
  <2>1. PICK l \in 1..Len(order) : order[l].expr = x
    BY DEF Accounts
  <2>2. l # i
    BY <2>1
  <2>3. CASE l < i
    <3> l \in 1..Len(q) /\ q[l] = order[l]
      BY <1>2, <1>3, <2>3
    <3> QED BY <2>1
  <2>4. CASE l > i
    <3>1. l - 1 \in 1..Len(q) /\ ~ (l - 1 < i) /\ (l - 1) + 1 = l
      BY <1>2, <1>3, <2>4
    <3>2. q[l - 1] = order[l]
      BY <1>3, <3>1
    <3> QED BY <2>1, <3>1, <3>2
  <2> QED BY <1>2, <2>2, <2>3, <2>4
<1>6. ASSUME NEW j \in 1..Len(q), NEW l \in 1..Len(q), q[j].expr = q[l].expr PROVE j = l
  <2>1. PICK a \in 1..Len(order) : q[j] = order[a] /\ a = IF j < i THEN j ELSE j + 1
    BY <1>4
  <2>2. PICK b \in 1..Len(order) : q[l] = order[b] /\ b = IF l < i THEN l ELSE l + 1
    BY <1>4
  <2>3. a = b
    BY <1>2, <1>6, <2>1, <2>2
  <2> QED BY <1>2, <2>1, <2>2, <2>3
<1>7. ASSUME NEW j \in 1..Len(q)
      PROVE  /\ q[j].expr \in DOMAIN values \ {e}
             /\ q[j].size = IF values[q[j].expr] = Failure THEN 0 ELSE Size[q[j].expr]
  <2>1. PICK l \in 1..Len(order) : l # i /\ q[j] = order[l]
    BY <1>4
  <2>2. order[l].expr # e
    BY <1>2, <2>1
  <2> QED BY <2>1, <2>2 DEF Accounts
<1>8. Accounts(q, DOMAIN values \ {e}, values)
  BY <1>3, <1>5, <1>6, <1>7 DEF Accounts
<1>9. Total(Sizes(q)) = Total(Sizes(order)) - Sizes(order)[i]
  <2>1. /\ Sizes(order) \in Seq(Int) /\ Len(Sizes(order)) = Len(order)
        /\ \A j \in 1..Len(order) : Sizes(order)[j] = order[j].size
    BY <1>2, SizesOfQueue
  <2>2. /\ Sizes(q) \in Seq(Int) /\ Len(Sizes(q)) = Len(q)
        /\ \A j \in 1..Len(q) : Sizes(q)[j] = q[j].size
    BY <1>3, SizesOfQueue
  <2>3. PICK s, t : s = Sizes(order) /\ t = Sizes(q)
    OBVIOUS
  <2>4. ASSUME NEW j \in 1..Len(t) PROVE t[j] = IF j < i THEN s[j] ELSE s[j + 1]
    <3>1. j \in 1..Len(q) /\ t[j] = q[j].size
      BY <2>2, <2>3
    <3>2. CASE j < i
      <4> j \in 1..Len(order) /\ q[j] = order[j]
        BY <1>2, <1>3, <3>1, <3>2
      <4> QED BY <2>1, <2>3, <3>1, <3>2
    <3>3. CASE ~ (j < i)
      <4> j + 1 \in 1..Len(order) /\ q[j] = order[j + 1]
        BY <1>2, <1>3, <3>1, <3>3
      <4> QED BY <2>1, <2>3, <3>1, <3>3
    <3> QED BY <3>2, <3>3
  <2>5. s \in Seq(Int) /\ t \in Seq(Int) /\ i \in 1..Len(s) /\ Len(t) = Len(s) - 1
    BY <1>2, <1>3, <2>1, <2>2, <2>3
  <2>6. Total(t) = Total(s) - s[i]
    BY <2>4, <2>5, TotalWithout
  <2> QED BY <2>3, <2>6
<1>10. Sizes(order)[i] = 0 /\ Total(Sizes(order)) \in Int
  <2>1. Sizes(order) \in Seq(Int) /\ Sizes(order)[i] = 0
    BY <1>2, SizesOfQueue
  <2>2. Total(Sizes(order)) \in Int
    BY <2>1, TotalAppend
  <2> QED BY <2>1, <2>2
<1> QED BY <1>1, <1>8, <1>9, <1>10

\* The entries of the values that stay, when the first k leave and e's is appended.
LEMMA AppendedEntry ==
  ASSUME NEW X, NEW v, NEW q, Accounts(q, X, v), NEW k \in 0..Len(q), NEW L \in SUBSET X,
         \A x \in X : x \in L <=> \A i \in 1..k : q[i].expr # x,
         NEW new \in Entries, new.expr \notin X, NEW w,
         new.size = IF w[new.expr] = Failure THEN 0 ELSE Size[new.expr],
         \A x \in L : w[x] = v[x]
  PROVE  Accounts(Append(SubSeq(q, k + 1, Len(q)), new), L \cup {new.expr}, w)
<1>1. PICK r, m : r = SubSeq(q, k + 1, Len(q)) /\ m = Len(q) - k
  OBVIOUS
<1>2. /\ q \in Seq(Entries) /\ Len(q) \in Nat /\ k \in Nat /\ m \in Nat /\ k + m = Len(q)
      /\ \A i \in 1..Len(q) : q[i].expr \in X
      /\ \A x \in X : \E i \in 1..Len(q) : q[i].expr = x
      /\ \A i, j \in 1..Len(q) : q[i].expr = q[j].expr => i = j
      /\ \A i \in 1..Len(q) :
            q[i].size = IF v[q[i].expr] = Failure THEN 0 ELSE Size[q[i].expr]
  BY <1>1 DEF Accounts
<1>3. r \in Seq(Entries) /\ Len(r) = m /\ \A i \in 1..m : r[i] = q[k + i]
  BY <1>1, <1>2, RestOfQueue
<1>4. PICK o : o = Append(r, new)
  OBVIOUS
<1>5. /\ o \in Seq(Entries) /\ Len(o) = m + 1 /\ o[m + 1] = new
      /\ \A i \in 1..m : o[i] = q[k + i]
  BY <1>2, <1>3, <1>4, AppendProperties
<1>6. \A i \in 1..(m + 1) : i \in 1..m \/ i = m + 1
  BY <1>2
\* The expressions that stay are those of the entries that stay.
<1>7. ASSUME NEW i \in 1..m PROVE k + i \in 1..Len(q) /\ q[k + i].expr \in L
  <2>1. k + i \in 1..Len(q)
    BY <1>2
  <2>2. ASSUME NEW j \in 1..k, q[k + i].expr = q[j].expr PROVE FALSE
    <3>1. j \in 1..Len(q) /\ k + i # j
      BY <1>2
    <3> QED BY <1>2, <2>1, <2>2, <3>1
  <2> QED BY <1>2, <2>1, <2>2
<1>8. ASSUME NEW x \in L PROVE \E i \in 1..m : o[i].expr = x
  <2>1. PICK j \in 1..Len(q) : q[j].expr = x
    BY <1>2
  <2>2. j \notin 1..k
    BY <2>1
  <2>3. j - k \in 1..m /\ k + (j - k) = j
    BY <1>2, <2>2
  <2> QED BY <1>5, <2>1, <2>3
<1>9. ASSUME NEW i \in 1..m
      PROVE  /\ o[i].expr \in L /\ o[i].expr # new.expr
             /\ o[i].size = IF w[o[i].expr] = Failure THEN 0 ELSE Size[o[i].expr]
  <2>1. PICK l \in 1..Len(q) : l = k + i /\ o[i] = q[l] /\ q[l].expr \in L
    BY <1>5, <1>7
  <2> QED BY <1>2, <2>1
<1>10. \A i \in 1..(m + 1) : /\ o[i].expr \in L \cup {new.expr}
                             /\ o[i].size = IF w[o[i].expr] = Failure THEN 0 ELSE Size[o[i].expr]
  BY <1>5, <1>6, <1>9
<1>11. \A x \in L \cup {new.expr} : \E i \in 1..(m + 1) : o[i].expr = x
  <2>1. 1..m \subseteq 1..(m + 1) /\ m + 1 \in 1..(m + 1)
    BY <1>2
  <2> QED BY <1>5, <1>8, <2>1
<1>12. ASSUME NEW i \in 1..(m + 1), NEW j \in 1..(m + 1), o[i].expr = o[j].expr PROVE i = j
  <2>1. CASE i \in 1..m /\ j \in 1..m
    <3>1. PICK a, b : a = k + i /\ b = k + j
      OBVIOUS
    <3>2. a \in 1..Len(q) /\ b \in 1..Len(q) /\ o[i] = q[a] /\ o[j] = q[b]
      BY <1>5, <1>7, <2>1, <3>1
    <3>3. a = b
      BY <1>2, <1>12, <3>2
    <3> QED BY <1>2, <2>1, <3>1, <3>3
  <2>2. CASE i = m + 1 /\ j \in 1..m
    BY <1>5, <1>9, <1>12, <2>2
  <2>3. CASE i \in 1..m /\ j = m + 1
    BY <1>5, <1>9, <1>12, <2>3
  <2> QED BY <1>6, <2>1, <2>2, <2>3
<1>13. Accounts(o, L \cup {new.expr}, w)
  BY <1>5, <1>10, <1>11, <1>12 DEF Accounts
<1> QED BY <1>1, <1>4, <1>13

\* The accounts of the shard after a step.
LEMMA AccountsOfShard ==
  ASSUME Accounts(order', DOMAIN values', values'), coefficients' = Total(Sizes(order')),
         Cardinality(DOMAIN values') <= Capacity, coefficients' <= Budget
  PROVE  QueuesAccount'
<1>1. DOMAIN order' = 1..Len(order')
  BY DEF Accounts
<1> QED BY <1>1 DEF Accounts, QueuesAccount

\* Insert finds room: with every entry gone, any size within the budget fits.
LEMMA InsertKeeps ==
  ASSUME CacheType, QueuesAccount, ConstantsAreApart, NEW e \in Exprs, NEW t, NEW value,
         NEW size \in Nat, size <= Budget, size = IF value = Failure THEN 0 ELSE Size[e],
         e \in DOMAIN values => values[e] = Failure,
         Insert(t, e, value, size)
  PROVE  CacheType' /\ QueuesAccount'
<1> DEFINE stale == {e} \cap DOMAIN values
           kept == IF stale = {} THEN order
                   ELSE RemoveAt(order, CHOOSE i \in DOMAIN order : order[i].expr = e)
           Left(k) == DOMAIN values \ (stale \cup {kept[i].expr : i \in 1..k})
           Freed(k) == Partials(Sizes(kept))[k]
           Fits(k) == Cardinality(Left(k)) < Capacity /\ coefficients - Freed(k) + size <= Budget
           k == CHOOSE i \in 0..Len(kept) : Fits(i) /\ \A j \in 0..(i - 1) : ~ Fits(j)
<1>1. /\ order' = Append(SubSeq(kept, k + 1, Len(kept)), [expr |-> e, size |-> size])
      /\ coefficients' = coefficients - Freed(k) + size
      /\ values' = [x \in Left(k) \cup {e} |-> IF x = e THEN value ELSE values[x]]
  BY DEF Insert
<1>2. PICK q, X : q = kept /\ X = DOMAIN values \ stale
  <2> HIDE DEF kept, stale
  <2> QED OBVIOUS
<1>3. Accounts(order, DOMAIN values, values) /\ coefficients = Total(Sizes(order))
  <2>1. DOMAIN order = 1..Len(order) /\ order \in Seq(Entries)
    BY DEF CacheType
  <2> QED BY <2>1 DEF Accounts, QueuesAccount
<1>4. Accounts(q, X, values) /\ Total(Sizes(q)) = coefficients
  <2>1. CASE e \notin DOMAIN values
    <3> stale = {} /\ kept = order /\ X = DOMAIN values
      BY <1>2, <2>1
    <3> QED BY <1>2, <1>3
  <2>2. CASE e \in DOMAIN values
    <3>1. PICK i : i = CHOOSE j \in DOMAIN order : order[j].expr = e
      OBVIOUS
    <3>2. i \in DOMAIN order /\ order[i].expr = e
      <4>1. \E j \in DOMAIN order : order[j].expr = e
        BY <2>2 DEF QueuesAccount
      <4> QED BY <3>1, <4>1
    <3>3. q = RemoveAt(order, i) /\ X = DOMAIN values \ {e}
      <4> stale = {e} /\ stale # {}
        BY <2>2
      <4> QED BY <1>2, <3>1
    <3>4. /\ Accounts(RemoveAt(order, i), DOMAIN values \ {e}, values)
          /\ Total(Sizes(RemoveAt(order, i))) = Total(Sizes(order))
      BY <1>3, <2>2, <3>2, RetainedQueue
    <3> QED BY <1>3, <3>3, <3>4
  <2> QED BY <2>1, <2>2
<1>5. /\ X \subseteq DOMAIN values /\ IsFiniteSet(X) /\ X \subseteq Exprs /\ e \notin X
      /\ q \in Seq(Entries) /\ Len(q) \in Nat /\ coefficients \in Int
      /\ Budget \in Int /\ Capacity \in Nat \ {0}
  <2>1. X \subseteq DOMAIN values /\ e \notin X
    BY <1>2
  <2> QED BY <1>4, <2>1, FS_Subset DEF CacheType, Accounts, ConstantsAreApart
<1>6. ASSUME NEW i \in 0..Len(q)
      PROVE  Left(i) = X \ {q[j].expr : j \in 1..i} /\ Freed(i) = Partials(Sizes(q))[i]
  BY <1>2
<1> HIDE DEF Left, Freed, kept, stale
<1>7. Fits(Len(q))
  <2>1. Len(q) \in 0..Len(q)
    BY <1>5
  <2>2. \A x \in X : \E j \in 1..Len(q) : q[j].expr = x
    BY <1>4 DEF Accounts
  <2>3. Left(Len(q)) = {}
    BY <1>6, <2>1, <2>2
  <2>4. Freed(Len(q)) = Total(Sizes(q))
    <3>1. Len(Sizes(q)) = Len(q)
      BY <1>5, SizesOfQueue
    <3> QED BY <1>6, <2>1, <3>1 DEF Total
  <2>5. Cardinality({}) = 0
    BY FS_EmptySet
  <2> QED BY <1>4, <1>5, <2>3, <2>4, <2>5
<1> HIDE DEF Fits
<1>8. k \in 0..Len(q) /\ Fits(k)
  <2> DEFINE S == {i \in Nat : i <= Len(q) /\ Fits(i)}
  <2>1. S \in SUBSET Nat /\ Len(q) \in S
    BY <1>5, <1>7
  <2>2. \E i \in S : \A j \in 0..(i - 1) : j \notin S
    <3> HIDE DEF S
    <3> QED BY <2>1, LeastNumber
  <2>3. \E i \in 0..Len(q) : Fits(i) /\ \A j \in 0..(i - 1) : ~ Fits(j)
    <3>1. PICK i \in S : \A j \in 0..(i - 1) : j \notin S
      BY <2>2
    <3>2. \A j \in 0..(i - 1) : j \in Nat /\ j <= Len(q)
      BY <1>5, <3>1
    <3> QED BY <1>5, <3>1, <3>2
  <2> QED BY <1>2, <2>3
<1> HIDE DEF k
<1>9. PICK c, L : c = k /\ L = Left(c)
  OBVIOUS
<1>10. /\ c \in 0..Len(q) /\ L \in SUBSET X /\ Cardinality(L) < Capacity
       /\ \A x \in X : x \in L <=> \A i \in 1..c : q[i].expr # x
       /\ coefficients - Partials(Sizes(q))[c] + size <= Budget
  BY <1>6, <1>8, <1>9 DEF Fits
<1>11. PICK r, new : r = SubSeq(q, c + 1, Len(q)) /\ new = [expr |-> e, size |-> size]
  OBVIOUS
<1>12. new \in Entries /\ new.expr = e /\ new.size = size
  BY <1>11 DEF Entries
<1>13. PICK o, n, w : o = order' /\ n = coefficients' /\ w = values'
  OBVIOUS
<1>14. /\ o = Append(r, new) /\ n = coefficients - Partials(Sizes(q))[c] + size /\ n <= Budget
       /\ DOMAIN w = L \cup {e} /\ w[e] = value /\ \A x \in L : w[x] = values[x]
  <2>1. e \notin L
    BY <1>5, <1>10
  <2> QED BY <1>1, <1>2, <1>6, <1>9, <1>10, <1>11, <1>13, <2>1
<1>15. Accounts(o, L \cup {e}, w)
  <2>1. new.expr \notin X /\ new.size = IF w[new.expr] = Failure THEN 0 ELSE Size[new.expr]
    BY <1>5, <1>12, <1>14
  <2>2. Accounts(Append(SubSeq(q, c + 1, Len(q)), new), L \cup {new.expr}, w)
    BY <1>4, <1>10, <1>12, <1>14, <2>1, AppendedEntry
  <2> QED BY <1>11, <1>12, <1>14, <2>2
<1>16. n = Total(Sizes(o)) /\ n \in Int
  <2>1. /\ Total(Sizes(r)) = Total(Sizes(q)) - Partials(Sizes(q))[c]
        /\ Partials(Sizes(q))[c] \in Int
    BY <1>5, <1>10, <1>11, TotalOfFewer
  <2>2. r \in Seq(Entries)
    BY <1>5, <1>10, <1>11, RestOfQueue
  <2>3. Total(Sizes(o)) = Total(Sizes(r)) + size
    BY <1>12, <1>14, <2>2, TotalOfMore
  <2> QED BY <1>4, <1>5, <1>14, <2>1, <2>3
<1>17. L \cup {e} \subseteq Exprs /\ IsFiniteSet(L \cup {e}) /\ Cardinality(L \cup {e}) <= Capacity
  <2>1. IsFiniteSet(L) /\ e \notin L
    BY <1>5, <1>10, FS_Subset
  <2>2. /\ IsFiniteSet(L \cup {e}) /\ Cardinality(L \cup {e}) = Cardinality(L) + 1
        /\ Cardinality(L) \in Nat
    BY <2>1, FS_AddElement, FS_CardinalityType
  <2> QED BY <1>5, <1>10, <2>2
<1>18. CacheType'
  BY <1>13, <1>14, <1>15, <1>16, <1>17 DEF CacheType, Accounts
<1>19. Accounts(order', DOMAIN values', values')
  BY <1>13, <1>14, <1>15
<1>20. coefficients' = Total(Sizes(order')) /\ Cardinality(DOMAIN values') <= Capacity
  BY <1>13, <1>14, <1>16, <1>17
<1> QED BY <1>13, <1>14, <1>18, <1>19, <1>20, AccountsOfShard

-----------------------------------------------------------------------------
(* The steps of a thread                                                   *)

LEMMA InitKeeps == ASSUME ConstantsAreApart, Init PROVE IInv
<1>1. PICK D : D = DOMAIN values
  OBVIOUS
<1>2. D = {}
  BY <1>1 DEF Init
<1>3. IsFiniteSet(D) /\ Cardinality(D) = 0
  BY <1>2, FS_EmptySet
<1>4. CacheType
  BY <1>1, <1>2, <1>3 DEF Init, CacheType
<1>5. ThreadType
  BY DEF Init, ThreadType, States
<1>6. Total(Sizes(order)) = 0
  <2>1. Sizes(order) = <<>>
    BY DEF Init, Sizes
  <2> QED BY <2>1, TotalEmpty
<1>7. QueuesAccount
  BY <1>1, <1>2, <1>3, <1>6 DEF Init, QueuesAccount, ConstantsAreApart
<1> QED BY <1>4, <1>5, <1>7 DEF IInv

\* A step that leaves the shard's entries alone.
LEMMA QuietKeeps ==
  ASSUME IInv, UNCHANGED <<values, order, coefficients>>, ThreadType'
  PROVE  IInv'
BY DEF IInv, CacheType, QueuesAccount

LEMMA StepTypes ==
  ASSUME ThreadType, NEW t \in Threads, pc[t] # "idle", NEW next \in States, Step(t, next)
  PROVE  ThreadType'
BY DEF ThreadType, Step

LEMMA PublishKeeps ==
  ASSUME IInv, ConstantsAreApart, NEW t \in Threads, pc[t] # "idle", NEW success \in BOOLEAN,
         Publish(t, expr[t], success)
  PROVE  IInv'
<1>1. PICK e, size, value : /\ e = expr[t] /\ size = IF success THEN Size[e] ELSE 0
                            /\ value = IF success THEN t ELSE Failure
  OBVIOUS
<1>2. e \in Exprs /\ size \in Nat /\ size = IF value = Failure THEN 0 ELSE Size[e]
  BY <1>1 DEF IInv, ThreadType, ConstantsAreApart
<1>3. \E next \in States : Step(t, next)
  BY DEF Publish, States
<1>4. ThreadType'
  BY <1>3, StepTypes DEF IInv
<1>5. \/ UNCHANGED cache
      \/ /\ size <= Budget /\ ~ (e \in DOMAIN values /\ (values[e] # Failure \/ ~ success))
         /\ Insert(t, e, value, size)
  BY <1>1 DEF Publish
<1>6. CASE UNCHANGED cache
  BY <1>4, <1>6, QuietKeeps DEF cache
<1>7. CASE ~ UNCHANGED cache
  <2>1. e \in DOMAIN values => values[e] = Failure
    BY <1>5, <1>7
  <2>2. CacheType' /\ QueuesAccount'
    BY <1>2, <1>5, <1>7, <2>1, InsertKeeps DEF IInv
  <2> QED BY <1>4, <2>2 DEF IInv
<1> QED BY <1>6, <1>7

LEMMA NextKeeps == ASSUME IInv, ConstantsAreApart, [Next]_vars PROVE IInv'
<1>1. CASE UNCHANGED vars
  <2> ThreadType'
    BY <1>1 DEF IInv, ThreadType, vars
  <2> QED BY <1>1, QuietKeeps DEF vars
<1>2. ASSUME NEW t \in Threads, NEW e \in Exprs, Call(t, e) PROVE IInv'
  <2>1. ThreadType'
    BY <1>2 DEF IInv, ThreadType, States, Call
  <2> QED BY <1>2, <2>1, QuietKeeps DEF Call, cache
<1>3. ASSUME NEW t \in Threads, Lookup(t) PROVE IInv'
  <2>1. \E next \in States : pc[t] # "idle" /\ Step(t, next)
    BY <1>3 DEF Lookup, States
  <2> QED BY <1>3, <2>1, StepTypes, QuietKeeps DEF IInv, Lookup, cache
<1>4. ASSUME NEW t \in Threads, Admit(t) PROVE IInv'
  <2>1. \E next \in States : pc[t] # "idle" /\ Step(t, next)
    BY <1>4 DEF Admit, States
  <2> QED BY <1>4, <2>1, StepTypes, QuietKeeps DEF IInv, Admit
<1>5. ASSUME NEW t \in Threads, ExtractAndPublish(t) PROVE IInv'
  BY <1>5, PublishKeeps DEF ExtractAndPublish, Extracts, IInv, ThreadType
<1>6. ASSUME NEW t \in Threads, Recover(t) PROVE IInv'
  <2>1. \E next \in States : pc[t] # "idle" /\ Step(t, next)
    BY <1>6 DEF Recover, States
  <2> QED BY <1>6, <2>1, StepTypes, QuietKeeps DEF IInv, Recover
<1>7. ASSUME NEW t \in Threads, PublishRecovered(t) PROVE IInv'
  BY <1>7, PublishKeeps DEF PublishRecovered
<1>8. ASSUME NEW t \in Threads, Return(t) PROVE IInv'
  <2>1. ThreadType'
    BY <1>8 DEF IInv, ThreadType, States, Return
  <2> QED BY <1>8, <2>1, QuietKeeps DEF Return, cache
<1> QED BY <1>1, <1>2, <1>3, <1>4, <1>5, <1>6, <1>7, <1>8 DEF Next

\* Queue, map and running sum of a shard describe the same entries within both limits,
\* for every number of threads and expressions: publish never panics on an empty queue.
THEOREM ShardAccounts == ASSUME ConstantsAreApart PROVE Spec => []QueuesAccount
<1>1. Init => IInv
  BY InitKeeps
<1>2. IInv /\ [Next]_vars => IInv'
  BY NextKeeps
<1>3. IInv => QueuesAccount
  BY DEF IInv
<1> QED BY <1>1, <1>2, <1>3, PTL DEF Spec

-----------------------------------------------------------------------------
(* What is published stays                                                 *)

\* A publication inserts only what is not cached, and evicts or keeps every other entry.
LEMMA PublishSticks ==
  ASSUME NEW t, NEW e, NEW success \in BOOLEAN, Publish(t, e, success),
         NEW x \in DOMAIN values, values[x] # Failure, x \in DOMAIN values'
  PROVE  values'[x] = values[x]
<1>1. CASE UNCHANGED cache
  BY <1>1 DEF cache
<1>2. CASE ~ UNCHANGED cache
  <2>1. ~ (e \in DOMAIN values /\ values[e] # Failure)
    BY <1>2 DEF Publish
  <2>2. x # e
    BY <2>1
  <2>3. PICK value, size : Insert(t, e, value, size)
    BY <1>2 DEF Publish
  <2> DEFINE stale == {e} \cap DOMAIN values
             kept == IF stale = {} THEN order
                     ELSE RemoveAt(order, CHOOSE i \in DOMAIN order : order[i].expr = e)
             Left(k) == DOMAIN values \ (stale \cup {kept[i].expr : i \in 1..k})
             Freed(k) == Partials(Sizes(kept))[k]
             Fits(k) == Cardinality(Left(k)) < Capacity /\ coefficients - Freed(k) + size <= Budget
             k == CHOOSE i \in 0..Len(kept) : Fits(i) /\ \A j \in 0..(i - 1) : ~ Fits(j)
  <2>4. values' = [y \in Left(k) \cup {e} |-> IF y = e THEN value ELSE values[y]]
    BY <2>3 DEF Insert
  <2> HIDE DEF Left
  <2> QED BY <2>2, <2>4
<1> QED BY <1>1, <1>2

\* A published decomposition is never replaced, by a failure or by another thread's copy,
\* whatever the threads do between looking an expression up and publishing it.
THEOREM PublishedTermsStay == Spec => SuccessSticks
<1> DEFINE Kept == \A e \in Exprs : IsCached(e) /\ e \in DOMAIN values' => values'[e] = values[e]
<1>1. Next => Kept
  <2> SUFFICES ASSUME Next, NEW x \in Exprs, IsCached(x), x \in DOMAIN values'
               PROVE  values'[x] = values[x]
    OBVIOUS
  <2>1. PICK t \in Threads : \/ \E e \in Exprs : Call(t, e)
                             \/ Lookup(t) \/ Admit(t) \/ ExtractAndPublish(t)
                             \/ Recover(t) \/ PublishRecovered(t) \/ Return(t)
    BY DEF Next
  <2>2. CASE UNCHANGED values
    BY <2>2
  <2>3. CASE values' # values
    <3>1. \E success \in BOOLEAN : Publish(t, expr[t], success)
      <4>1. ExtractAndPublish(t) \/ PublishRecovered(t)
        BY <2>1, <2>3 DEF Call, Lookup, Admit, Recover, Return, cache
      <4>2. Extracts(t) \in BOOLEAN
        BY DEF Extracts
      <4> QED BY <4>1, <4>2 DEF ExtractAndPublish, PublishRecovered
    <3> QED BY <3>1, PublishSticks DEF IsCached
  <2> QED BY <2>2, <2>3
<1>2. Next => [Kept]_vars
  BY <1>1
<1>3. Spec => [][Kept]_vars
  BY <1>1, PTL DEF Spec
<1> QED BY <1>3 DEF SuccessSticks
=============================================================================
