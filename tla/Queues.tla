-------------------------------- MODULE Queues --------------------------------
(***************************************************************************)
(* The queues in which the caches of crates/oximo-solver/src/prepare.rs    *)
(* and prepare/workset.rs keep their entries, oldest first: sequences      *)
(* without repetition, taken from the front and appended to, and the       *)
(* running sums kept beside them.  A sum is a recursive function; what is  *)
(* proved of it rests on induction over a set of numbers (SetInduction).   *)
(***************************************************************************)
EXTENDS Integers, SequencesExt, SequenceTheorems, FiniteSetTheorems, TLAPS

\* Partials(s)[i] is the sum of the first i elements.
Partials(s) == LET sum[i \in 0..Len(s)] == IF i = 0 THEN 0 ELSE sum[i - 1] + s[i] IN sum
Total(s) == Partials(s)[Len(s)]

-----------------------------------------------------------------------------
(* Induction and recursion                                                 *)

\* A set that holds 0 and, with every natural number, its successor holds them all:
\* below a number it lacked, adding one would map its members into the positive ones.
LEMMA SetInduction ==
  ASSUME NEW S, 0 \in S, \A n \in Nat : n \in S => n + 1 \in S
  PROVE  \A n \in Nat : n \in S
<1> SUFFICES ASSUME NEW n \in Nat, n \notin S PROVE FALSE
  OBVIOUS
<1> DEFINE T == (0..n) \cap S
           next == [i \in T |-> i + 1]
<1>1. IsFiniteSet(T) /\ 0 \in T
  <2>1. T \subseteq 0..n /\ 0 \in T OBVIOUS
  <2>2. IsFiniteSet(0..n) BY FS_Interval
  <2> QED BY <2>1, <2>2, FS_Subset
<1>2. IsFiniteSet(T \ {0}) /\ Cardinality(T \ {0}) < Cardinality(T)
  <2> HIDE DEF T
  <2>1. IsFiniteSet(T \ {0}) /\ Cardinality(T \ {0}) = Cardinality(T) - 1
    BY <1>1, FS_RemoveElement
  <2>2. Cardinality(T) \in Nat
    BY <1>1, FS_CardinalityType
  <2> QED BY <2>1, <2>2
<1>3. next \in [T -> T \ {0}]
  <2> SUFFICES ASSUME NEW i \in T PROVE i + 1 \in T \ {0}
    OBVIOUS
  <2> QED OBVIOUS
<1>4. \A i, j \in T : next[i] = next[j] => i = j
  OBVIOUS
<1> HIDE DEF T, next
<1> QED BY <1>1, <1>2, <1>3, <1>4, FS_PigeonHole

\* f is what repeating the steps G on a gives, n times.
Repeats(f, n, a, G) == f = [i \in 0..n |-> IF i = 0 THEN a ELSE G[i][f[i - 1]]]

\* A function on 0..n may be given by its first value and its steps.
LEMMA Recursion ==
  ASSUME NEW D, NEW n \in Nat, NEW a \in D, NEW G \in [1..n -> [D -> D]]
  PROVE  \E f \in [0..n -> D] : Repeats(f, n, a, G)
<1> DEFINE Defines(f, m) == f = [i \in 0..m |-> IF i = 0 THEN a ELSE G[i][f[i - 1]]]
           S == {m \in Nat : m <= n => \E f \in [0..m -> D] : Defines(f, m)}
<1>1. 0 \in S
  <2> DEFINE f == [i \in 0..0 |-> a]
  <2>1. f \in [0..0 -> D] /\ f = [i \in 0..0 |-> IF i = 0 THEN a ELSE G[i][f[i - 1]]]
    OBVIOUS
  <2> QED BY <2>1
<1>2. ASSUME NEW m \in Nat, m \in S, m + 1 <= n PROVE \E f \in [0..(m + 1) -> D] : Defines(f, m + 1)
  <2>1. PICK f \in [0..m -> D] : Defines(f, m)
    BY <1>2
  <2> DEFINE g == [i \in 0..(m + 1) |-> IF i <= m THEN f[i] ELSE G[i][f[m]]]
  <2>2. m + 1 \in 1..n /\ f[m] \in D
    BY <1>2
  <2>3. g \in [0..(m + 1) -> D]
    <3> SUFFICES ASSUME NEW i \in 0..(m + 1) PROVE (IF i <= m THEN f[i] ELSE G[i][f[m]]) \in D
      OBVIOUS
    <3>1. CASE i <= m BY <3>1
    <3>2. CASE i = m + 1 BY <2>2, <3>2
    <3> QED BY <3>1, <3>2
  <2>4. \A i \in 0..(m + 1) : g[i] = IF i = 0 THEN a ELSE G[i][g[i - 1]]
    <3> SUFFICES ASSUME NEW i \in 0..(m + 1) PROVE g[i] = IF i = 0 THEN a ELSE G[i][g[i - 1]]
      OBVIOUS
    <3>1. CASE i = 0 BY <2>1, <3>1
    <3>2. CASE i \in 1..m BY <2>1, <3>2
    <3>3. CASE i = m + 1 BY <3>3
    <3> QED BY <3>1, <3>2, <3>3
  <2>5. g = [i \in 0..(m + 1) |-> g[i]]
    OBVIOUS
  <2> HIDE DEF g
  <2>6. Defines(g, m + 1)
    BY <2>4, <2>5
  <2> QED BY <2>3, <2>6
<1>3. \A m \in Nat : m \in S => m + 1 \in S
  <2> HIDE DEF Defines
  <2> QED BY <1>2
<1>4. n \in S
  <2> HIDE DEF S
  <2> QED BY <1>1, <1>3, SetInduction
<1> QED BY <1>4 DEF Repeats

-----------------------------------------------------------------------------
(* Sums                                                                    *)

\* The recursive definition of the partial sums defines them.
LEMMA PartialsDefined ==
  ASSUME NEW s \in Seq(Int)
  PROVE  /\ Partials(s) \in [0..Len(s) -> Int]
         /\ Partials(s)[0] = 0
         /\ \A i \in 1..Len(s) : Partials(s)[i] = Partials(s)[i - 1] + s[i]
<1> DEFINE n == Len(s)
           G == [i \in 1..n |-> [x \in Int |-> x + s[i]]]
           Defines(f) == f = [i \in 0..n |-> IF i = 0 THEN 0 ELSE f[i - 1] + s[i]]
<1>1. G \in [1..n -> [Int -> Int]] /\ n \in Nat
  OBVIOUS
<1>2. PICK f \in [0..n -> Int] : f = [i \in 0..n |-> IF i = 0 THEN 0 ELSE G[i][f[i - 1]]]
  <2> DEFINE D == Int
             zero == 0
  <2>1. zero \in D /\ G \in [1..n -> [D -> D]]
    BY <1>1
  <2>2. \E f \in [0..n -> D] : Repeats(f, n, zero, G)
    <3> HIDE DEF D, zero, G, n
    <3> QED BY <1>1, <2>1, Recursion
  <2> HIDE DEF G, n
  <2> QED BY <2>2 DEF Repeats
<1>3. \A i \in 1..n : G[i][f[i - 1]] = f[i - 1] + s[i]
  <2> SUFFICES ASSUME NEW i \in 1..n PROVE G[i][f[i - 1]] = f[i - 1] + s[i]
    OBVIOUS
  <2>1. f[i - 1] \in Int
    <3> HIDE DEF n
    <3> QED BY <1>1
  <2> QED BY <2>1
<1>4. \A i \in 0..n : f[i] = IF i = 0 THEN 0 ELSE f[i - 1] + s[i]
  <2> HIDE DEF G
  <2> SUFFICES ASSUME NEW i \in 0..n PROVE f[i] = IF i = 0 THEN 0 ELSE f[i - 1] + s[i]
    OBVIOUS
  <2>1. f[i] = IF i = 0 THEN 0 ELSE G[i][f[i - 1]]
    BY <1>2
  <2>2. i # 0 => i \in 1..n
    BY <1>1
  <2> QED BY <1>3, <2>1, <2>2
<1>5. f = [i \in 0..n |-> IF i = 0 THEN 0 ELSE f[i - 1] + s[i]]
  <2> HIDE DEF n
  <2> QED BY <1>4
<1>6. Partials(s) = [i \in 0..n |-> IF i = 0 THEN 0 ELSE Partials(s)[i - 1] + s[i]]
  <2>1. Partials(s) = CHOOSE g : Defines(g)
    BY DEF Partials
  <2>2. Defines(f)
    BY <1>5
  <2> HIDE DEF Defines
  <2>3. Defines(Partials(s))
    BY <2>1, <2>2
  <2> QED BY <2>3 DEF Defines
<1> DEFINE sums == Partials(s)
           S == {i \in Nat : i <= n => sums[i] \in Int}
<1> HIDE DEF sums, n, G
<1>7. /\ sums[0] = 0
      /\ \A i \in 1..n : sums[i] = sums[i - 1] + s[i]
      /\ sums = [i \in 0..n |-> sums[i]]
  <2>1. sums = [i \in 0..n |-> IF i = 0 THEN 0 ELSE sums[i - 1] + s[i]]
    BY <1>6 DEF sums
  <2>2. 0 \in 0..n /\ \A i \in 1..n : i \in 0..n /\ i # 0
    BY <1>1
  <2>3. \A i \in 0..n : sums[i] = IF i = 0 THEN 0 ELSE sums[i - 1] + s[i]
    BY <2>1
  <2>4. sums = [i \in 0..n |-> sums[i]]
    BY <2>1
  <2> QED BY <2>2, <2>3, <2>4
<1>8. 0 \in S /\ \A i \in Nat : i \in S => i + 1 \in S
  <2>1. 0 \in S BY <1>7
  <2>2. ASSUME NEW i \in Nat, i \in S, i + 1 <= n PROVE sums[i + 1] \in Int
    <3>1. i + 1 \in 1..n /\ sums[i] \in Int /\ s[i + 1] \in Int
      BY <1>1, <2>2 DEF n
    <3>2. sums[i + 1] = sums[(i + 1) - 1] + s[i + 1]
      BY <1>7, <3>1
    <3> QED BY <3>1, <3>2
  <2> QED BY <2>1, <2>2
<1>9. \A i \in 0..n : sums[i] \in Int
  <2>1. \A i \in Nat : i \in S
    <3> HIDE DEF S
    <3> QED BY <1>8, SetInduction
  <2> QED BY <1>1, <2>1
<1> QED BY <1>7, <1>9 DEF sums, n

\* The sum of no numbers.
LEMMA TotalEmpty == Total(<<>>) = 0
<1>1. <<>> \in Seq(Int) /\ Len(<<>>) = 0
  OBVIOUS
<1> QED BY <1>1, PartialsDefined DEF Total

\* Sequences that agree on a prefix have the same partial sums there.
LEMMA PartialsAgree ==
  ASSUME NEW s \in Seq(Int), NEW t \in Seq(Int), NEW n \in Nat, n <= Len(s), n <= Len(t),
         NEW d \in Nat, d + n <= Len(s),
         \A i \in 1..n : t[i] = s[d + i]
  PROVE  Partials(s)[d + n] = Partials(s)[d] + Partials(t)[n]
<1> DEFINE sums == Partials(s)
           more == Partials(t)
           c == sums[d]
           S == {i \in Nat : i <= n => sums[d + i] = c + more[i]}
<1>1. Len(s) \in Nat /\ Len(t) \in Nat
  OBVIOUS
<1>2. /\ sums \in [0..Len(s) -> Int] /\ \A i \in 1..Len(s) : sums[i] = sums[i - 1] + s[i]
      /\ more \in [0..Len(t) -> Int] /\ more[0] = 0 /\ \A i \in 1..Len(t) : more[i] = more[i - 1] + t[i]
  BY PartialsDefined
<1> HIDE DEF sums, more
<1>3. sums[d] = c /\ c \in Int
  <2>1. d \in 0..Len(s) /\ d + 0 = d
    BY <1>1
  <2> QED BY <1>2, <2>1
<1> HIDE DEF c
<1>4. 0 \in S
  BY <1>2, <1>3
<1>5. ASSUME NEW i \in Nat, i \in S, i + 1 <= n PROVE sums[d + (i + 1)] = c + more[i + 1]
  <2>1. sums[d + i] = c + more[i]
    BY <1>5
  <2>2. d + (i + 1) \in 1..Len(s) /\ i + 1 \in 1..Len(t) /\ i + 1 \in 1..n
    BY <1>1, <1>5
  <2>3. sums[d + (i + 1)] = sums[(d + (i + 1)) - 1] + s[d + (i + 1)] /\ more[i + 1] = more[(i + 1) - 1] + t[i + 1]
    BY <1>2, <2>2
  <2>4. (d + (i + 1)) - 1 = d + i /\ (i + 1) - 1 = i
    OBVIOUS
  <2>5. t[i + 1] = s[d + (i + 1)]
    BY <2>2
  <2>6. more[i] \in Int /\ t[i + 1] \in Int
    <3>1. i \in 0..Len(t)
      BY <1>1, <2>2
    <3>2. more[i] \in Int
      BY <1>2, <3>1
    <3>3. t[i + 1] \in Int
      BY <2>2
    <3> QED BY <3>2, <3>3
  <2> QED BY <1>3, <2>1, <2>3, <2>4, <2>5, <2>6
<1>6. \A i \in Nat : i \in S
  <2>1. ASSUME NEW i \in Nat, i \in S PROVE i + 1 \in S
    <3>1. i + 1 <= n => sums[d + (i + 1)] = c + more[i + 1]
      <4> HIDE DEF S
      <4> QED BY <1>5, <2>1
    <3> QED BY <3>1
  <2> HIDE DEF S
  <2> QED BY <1>4, <2>1, SetInduction
<1> QED BY <1>6 DEF sums, more, c

\* A sum is a number, and grows by what is appended.
LEMMA TotalAppend ==
  ASSUME NEW s \in Seq(Int), NEW x \in Int
  PROVE  Total(s) \in Int /\ Total(Append(s, x)) = Total(s) + x
<1> DEFINE t == Append(s, x)
           n == Len(s)
<1>1. n \in Nat /\ t \in Seq(Int) /\ Len(t) = n + 1 /\ t[n + 1] = x /\ \A i \in 1..n : t[i] = s[i]
  OBVIOUS
<1>2. Partials(t)[0] = 0 /\ Partials(s) \in [0..n -> Int]
  BY <1>1, PartialsDefined
<1>3. Partials(t)[0 + n] = 0 + Partials(s)[n]
  <2> DEFINE zero == 0
  <2>1. /\ n <= Len(t) /\ n <= Len(s) /\ zero + n <= Len(t) /\ zero \in Nat
        /\ \A i \in 1..n : s[i] = t[zero + i]
    BY <1>1
  <2>2. Partials(t)[zero] = zero
    BY <1>2
  <2> HIDE DEF t, n, zero
  <2>3. Partials(t)[zero + n] = Partials(t)[zero] + Partials(s)[n]
    BY <1>1, <2>1, PartialsAgree
  <2> QED BY <2>2, <2>3 DEF zero
<1>4. Partials(t)[n + 1] = Partials(t)[(n + 1) - 1] + t[n + 1]
  <2>1. n + 1 \in 1..Len(t)
    BY <1>1
  <2> QED BY <1>1, <2>1, PartialsDefined
<1>5. Partials(s)[n] \in Int /\ (n + 1) - 1 = n /\ 0 + n = n
  BY <1>1, <1>2
<1> HIDE DEF t
<1>6. Total(t) = Partials(t)[n + 1] /\ Total(s) = Partials(s)[n]
  BY <1>1 DEF Total
<1>7. Total(t) = Total(s) + x
  BY <1>1, <1>3, <1>4, <1>5, <1>6
<1> QED BY <1>5, <1>6, <1>7 DEF t

\* The sum shrinks by what is taken from the front.
LEMMA TotalTail ==
  ASSUME NEW s \in Seq(Int), s # <<>>
  PROVE  Total(Tail(s)) = Total(s) - Head(s)
<1> DEFINE t == Tail(s)
           n == Len(t)
<1>1. /\ n \in Nat /\ t \in Seq(Int) /\ Len(s) = n + 1 /\ Head(s) = s[1] /\ s[1] \in Int
      /\ \A i \in 1..n : t[i] = s[1 + i]
  BY HeadTailProperties
<1>2. Partials(s)[1] = s[1] /\ Partials(t) \in [0..n -> Int]
  <2>1. 1 \in 1..Len(s) /\ 1 - 1 = 0
    BY <1>1
  <2>2. Partials(s)[0] = 0 /\ Partials(s)[1] = Partials(s)[1 - 1] + s[1]
    BY <2>1, PartialsDefined
  <2> QED BY <1>1, <2>1, <2>2, PartialsDefined
<1>3. Partials(s)[1 + n] = s[1] + Partials(t)[n]
  <2> HIDE DEF t
  <2>1. n <= Len(s) /\ n <= Len(t) /\ 1 + n <= Len(s) /\ 1 \in Nat
    BY <1>1
  <2> HIDE DEF n
  <2>2. Partials(s)[1 + n] = Partials(s)[1] + Partials(t)[n]
    BY <1>1, <2>1, PartialsAgree
  <2> QED BY <1>2, <2>2
<1>4. Total(s) = Partials(s)[1 + n] /\ Total(t) = Partials(t)[n] /\ Partials(t)[n] \in Int
  <2> HIDE DEF t
  <2>1. Partials(t)[n] \in Int /\ n + 1 = 1 + n
    BY <1>1, <1>2
  <2> QED BY <1>1, <2>1 DEF Total
<1>5. Total(t) = Total(s) - s[1]
  BY <1>1, <1>3, <1>4
<1> QED BY <1>1, <1>5

-----------------------------------------------------------------------------
(* Queues                                                                  *)

\* A front entry that occurs once is gone when it is taken, and only it.
LEMMA TailOfQueue ==
  ASSUME NEW E, NEW q \in Seq(E), q # <<>>, IsInjective(q)
  PROVE  /\ Tail(q) \in Seq(E) /\ Len(Tail(q)) = Len(q) - 1
         /\ IsInjective(Tail(q))
         /\ Head(q) \in ToSet(q) /\ Head(q) \in E
         /\ ToSet(Tail(q)) = ToSet(q) \ {Head(q)}
<1> DEFINE t == Tail(q)
<1>1. /\ t \in Seq(E) /\ Len(t) = Len(q) - 1 /\ Len(q) \in Nat \ {0} /\ Head(q) = q[1]
      /\ \A i \in 1..Len(t) : t[i] = q[i + 1]
      /\ DOMAIN t = 1..Len(t) /\ DOMAIN q = 1..Len(q) /\ q[1] \in E
  BY HeadTailProperties
<1>2. \A i, j \in 1..Len(q) : q[i] = q[j] => i = j
  BY <1>1 DEF IsInjective
<1> HIDE DEF t
<1>3. IsInjective(t)
  <2> SUFFICES ASSUME NEW i \in 1..Len(t), NEW j \in 1..Len(t), t[i] = t[j] PROVE i = j
    BY <1>1 DEF IsInjective
  <2>1. i + 1 \in 1..Len(q) /\ j + 1 \in 1..Len(q) /\ q[i + 1] = q[j + 1]
    BY <1>1
  <2>2. i + 1 = j + 1
    BY <1>2, <2>1
  <2> QED BY <2>2
<1>4. ToSet(t) = ToSet(q) \ {q[1]}
  <2>1. ASSUME NEW i \in 1..Len(t) PROVE t[i] \in ToSet(q) \ {q[1]}
    <3>1. i + 1 \in 1..Len(q) /\ 1 \in 1..Len(q) /\ i + 1 # 1
      BY <1>1
    <3>2. t[i] = q[i + 1] /\ q[i + 1] # q[1]
      BY <1>1, <1>2, <3>1
    <3> QED BY <1>1, <3>1, <3>2 DEF ToSet
  <2>2. ASSUME NEW i \in 1..Len(q), q[i] # q[1] PROVE q[i] \in ToSet(t)
    <3>1. i # 1
      BY <2>2
    <3>2. i - 1 \in 1..Len(t) /\ (i - 1) + 1 = i
      BY <1>1, <3>1
    <3>3. t[i - 1] = q[i]
      BY <1>1, <3>2
    <3> QED BY <1>1, <3>2, <3>3 DEF ToSet
  <2> QED BY <1>1, <2>1, <2>2 DEF ToSet
<1>5. q[1] \in ToSet(q)
  <2> 1 \in 1..Len(q)
    BY <1>1
  <2> QED BY <1>1 DEF ToSet
<1> QED BY <1>1, <1>3, <1>4, <1>5 DEF t

\* An entry that is not in the queue may be appended.
LEMMA AppendToQueue ==
  ASSUME NEW E, NEW q \in Seq(E), NEW e \in E
  PROVE  /\ Append(q, e) \in Seq(E) /\ Len(Append(q, e)) = Len(q) + 1
         /\ ToSet(Append(q, e)) = ToSet(q) \cup {e}
         /\ IsInjective(q) /\ e \notin ToSet(q) => IsInjective(Append(q, e))
<1> DEFINE t == Append(q, e)
           n == Len(q)
<1>1. /\ t \in Seq(E) /\ Len(t) = n + 1 /\ n \in Nat /\ t[n + 1] = e
      /\ \A i \in 1..n : t[i] = q[i]
      /\ DOMAIN t = 1..(n + 1) /\ DOMAIN q = 1..n
  BY AppendProperties
<1> HIDE DEF t, n
<1>2. ToSet(t) = ToSet(q) \cup {e}
  <2>1. \A i \in 1..(n + 1) : i \in 1..n \/ i = n + 1
    BY <1>1
  <2>2. n + 1 \in 1..(n + 1) /\ 1..n \subseteq 1..(n + 1)
    BY <1>1
  <2> QED BY <1>1, <2>1, <2>2 DEF ToSet
<1>3. ASSUME IsInjective(q), e \notin ToSet(q) PROVE IsInjective(t)
  <2> SUFFICES ASSUME NEW i \in 1..(n + 1), NEW j \in 1..(n + 1), t[i] = t[j] PROVE i = j
    BY <1>1 DEF IsInjective
  <2>1. \A k \in 1..n : q[k] # e
    BY <1>1, <1>3 DEF ToSet
  <2>2. CASE i \in 1..n /\ j \in 1..n
    BY <1>1, <1>3, <2>2 DEF IsInjective
  <2>3. CASE i = n + 1 /\ j \in 1..n
    BY <1>1, <2>1, <2>3
  <2>4. CASE i \in 1..n /\ j = n + 1
    BY <1>1, <2>1, <2>4
  <2>5. i \in 1..n \/ i = n + 1
    BY <1>1
  <2>6. j \in 1..n \/ j = n + 1
    BY <1>1
  <2> QED BY <2>2, <2>3, <2>4, <2>5, <2>6
<1> QED BY <1>1, <1>2, <1>3 DEF t, n

\* The sum of the weights of the entries of a queue.
TotalOf(w, q) == Total([i \in DOMAIN q |-> w[q[i]]])

\* Only the weights of the entries matter.
LEMMA TotalOfAgree ==
  ASSUME NEW q, NEW w, NEW v, \A x \in ToSet(q) : w[x] = v[x]
  PROVE  TotalOf(w, q) = TotalOf(v, q)
<1>1. ASSUME NEW i \in DOMAIN q PROVE w[q[i]] = v[q[i]]
  BY DEF ToSet
<1>2. [i \in DOMAIN q |-> w[q[i]]] = [i \in DOMAIN q |-> v[q[i]]]
  BY <1>1
<1> QED BY <1>2 DEF TotalOf

LEMMA TotalOfEmpty == ASSUME NEW w PROVE TotalOf(w, <<>>) = 0
<1>1. [i \in DOMAIN <<>> |-> w[<<>>[i]]] = <<>>
  OBVIOUS
<1> QED BY <1>1, TotalEmpty DEF TotalOf

LEMMA TotalOfTail ==
  ASSUME NEW E, NEW w \in [E -> Int], NEW q \in Seq(E), q # <<>>
  PROVE  TotalOf(w, Tail(q)) = TotalOf(w, q) - w[Head(q)]
<1> DEFINE s == [i \in DOMAIN q |-> w[q[i]]]
           u == [i \in DOMAIN Tail(q) |-> w[Tail(q)[i]]]
<1>1. /\ Len(q) \in Nat \ {0} /\ DOMAIN q = 1..Len(q) /\ \A i \in 1..Len(q) : q[i] \in E
      /\ Tail(q) \in Seq(E) /\ Len(Tail(q)) = Len(q) - 1 /\ Head(q) = q[1]
      /\ DOMAIN Tail(q) = 1..(Len(q) - 1) /\ \A i \in 1..(Len(q) - 1) : Tail(q)[i] = q[i + 1]
  BY HeadTailProperties
<1>2. s \in Seq(Int) /\ Len(s) = Len(q) /\ s # <<>> /\ Head(s) = s[1] /\ s[1] = w[q[1]]
  <2>1. s \in [1..Len(q) -> Int]
    BY <1>1
  <2>2. s \in Seq(Int) /\ Len(s) = Len(q)
    BY <1>1, <2>1
  <2>3. 1 \in 1..Len(q)
    BY <1>1
  <2> QED BY <1>1, <2>1, <2>2, <2>3
<1>3. u = Tail(s)
  <2>1. /\ Tail(s) \in Seq(Int) /\ Len(Tail(s)) = Len(q) - 1
        /\ \A i \in 1..(Len(q) - 1) : Tail(s)[i] = s[i + 1]
    <3> HIDE DEF s
    <3> QED BY <1>2, HeadTailProperties
  <2>2. u \in [1..(Len(q) - 1) -> Int]
    <3> SUFFICES ASSUME NEW i \in 1..(Len(q) - 1) PROVE w[Tail(q)[i]] \in Int
      BY <1>1
    <3> i + 1 \in 1..Len(q)
      BY <1>1
    <3> QED BY <1>1
  <2>3. u \in Seq(Int) /\ Len(u) = Len(q) - 1
    BY <1>1, <2>2
  <2>4. ASSUME NEW i \in 1..(Len(q) - 1) PROVE u[i] = Tail(s)[i]
    <3> i + 1 \in 1..Len(q)
      BY <1>1
    <3> QED BY <1>1, <2>1
  <2> HIDE DEF u, s
  <2> QED BY <2>1, <2>3, <2>4, SeqEqual
<1> HIDE DEF s
<1>4. Total(u) = Total(s) - w[q[1]]
  BY <1>2, <1>3, TotalTail
<1> QED BY <1>1, <1>4 DEF TotalOf, s

LEMMA TotalOfAppend ==
  ASSUME NEW E, NEW w \in [E -> Int], NEW q \in Seq(E), NEW e \in E
  PROVE  TotalOf(w, q) \in Int /\ TotalOf(w, Append(q, e)) = TotalOf(w, q) + w[e]
<1> DEFINE s == [i \in DOMAIN q |-> w[q[i]]]
           u == [i \in DOMAIN Append(q, e) |-> w[Append(q, e)[i]]]
           n == Len(q)
<1>1. /\ n \in Nat /\ DOMAIN q = 1..n /\ (\A i \in 1..n : q[i] \in E) /\ w[e] \in Int
      /\ Append(q, e) \in Seq(E) /\ DOMAIN Append(q, e) = 1..(n + 1) /\ Append(q, e)[n + 1] = e
      /\ \A i \in 1..n : Append(q, e)[i] = q[i]
  BY AppendProperties
<1>2. s \in Seq(Int) /\ Len(s) = n
  <2>1. s \in [1..n -> Int]
    BY <1>1
  <2> QED BY <1>1, <2>1
<1>3. u = Append(s, w[e])
  <2>1. /\ Append(s, w[e]) \in Seq(Int) /\ Len(Append(s, w[e])) = n + 1
        /\ Append(s, w[e])[n + 1] = w[e] /\ \A i \in 1..n : Append(s, w[e])[i] = s[i]
    <3> HIDE DEF s
    <3> QED BY <1>1, <1>2, AppendProperties
  <2>2. \A i \in 1..(n + 1) : i \in 1..n \/ i = n + 1
    BY <1>1
  <2>3. u \in [1..(n + 1) -> Int]
    <3> SUFFICES ASSUME NEW i \in 1..(n + 1) PROVE w[Append(q, e)[i]] \in Int
      BY <1>1
    <3> QED BY <1>1, <2>2
  <2>4. u \in Seq(Int) /\ Len(u) = n + 1
    BY <1>1, <2>3
  <2>5. ASSUME NEW i \in 1..(n + 1) PROVE u[i] = Append(s, w[e])[i]
    BY <1>1, <2>1, <2>2
  <2> HIDE DEF u, s
  <2> QED BY <2>1, <2>4, <2>5, SeqEqual
<1> HIDE DEF s
<1>4. Total(s) \in Int /\ Total(u) = Total(s) + w[e]
  BY <1>1, <1>2, <1>3, TotalAppend
<1> QED BY <1>4 DEF TotalOf, s

-----------------------------------------------------------------------------
(* Taking several entries from the front, or one from the middle           *)

\* A set of natural numbers with a member has a least one.
LEMMA LeastNumber ==
  ASSUME NEW S \in SUBSET Nat, NEW m \in S
  PROVE  \E k \in S : \A j \in 0..(k - 1) : j \notin S
<1> SUFFICES ASSUME \A k \in S : \E j \in 0..(k - 1) : j \in S PROVE FALSE
  OBVIOUS
<1> DEFINE T == {n \in Nat : \A j \in 0..n : j \notin S}
<1>1. 0 \in T
  OBVIOUS
<1>2. ASSUME NEW n \in Nat, n \in T PROVE n + 1 \in T
  <2>1. n + 1 \notin S
    BY <1>2
  <2>2. \A j \in 0..(n + 1) : j \in 0..n \/ j = n + 1
    OBVIOUS
  <2> QED BY <1>2, <2>1, <2>2
<1>3. \A n \in Nat : n \in T
  <2> HIDE DEF T
  <2> QED BY <1>1, <1>2, SetInduction
<1> QED BY <1>3

\* The sum of the first k entries depends on them only.
LEMMA PrefixSum ==
  ASSUME NEW s \in Seq(Int), NEW t \in Seq(Int), NEW k \in Nat, k <= Len(s), k <= Len(t),
         \A j \in 1..k : t[j] = s[j]
  PROVE  Partials(s)[k] = Partials(t)[k]
<1>1. PICK zero \in Nat : zero = 0
  OBVIOUS
<1>2. zero + k = k /\ zero + k <= Len(s) /\ \A j \in 1..k : t[j] = s[zero + j]
  BY <1>1
<1>3. Partials(s)[zero] = 0 /\ Partials(t) \in [0..Len(t) -> Int]
  BY <1>1, PartialsDefined
<1>4. Partials(t)[k] \in Int
  <2> k \in 0..Len(t)
    OBVIOUS
  <2> QED BY <1>3
<1>5. Partials(s)[zero + k] = Partials(s)[zero] + Partials(t)[k]
  BY <1>2, PartialsAgree
<1> QED BY <1>2, <1>3, <1>4, <1>5

\* The sum that is left when the first k entries are taken.
LEMMA TotalOfRest ==
  ASSUME NEW s \in Seq(Int), NEW t \in Seq(Int), NEW k \in 0..Len(s), Len(t) = Len(s) - k,
         \A i \in 1..Len(t) : t[i] = s[k + i]
  PROVE  /\ Partials(s)[k] \in Int /\ Total(s) \in Int
         /\ Total(t) = Total(s) - Partials(s)[k]
<1>1. /\ Len(s) \in Nat /\ Len(t) \in Nat /\ k \in Nat /\ Len(t) <= Len(s)
      /\ k + Len(t) = Len(s)
  OBVIOUS
<1>2. Partials(s)[k] \in Int /\ Partials(s)[Len(s)] \in Int /\ Partials(t)[Len(t)] \in Int
  <2>1. Partials(s) \in [0..Len(s) -> Int] /\ Partials(t) \in [0..Len(t) -> Int]
    BY PartialsDefined
  <2>2. k \in 0..Len(s) /\ Len(s) \in 0..Len(s) /\ Len(t) \in 0..Len(t)
    BY <1>1
  <2> QED BY <2>1, <2>2
<1>3. Partials(s)[k + Len(t)] = Partials(s)[k] + Partials(t)[Len(t)]
  <2> DEFINE n == Len(t)
  <2>1. n \in Nat /\ n <= Len(s) /\ n <= Len(t) /\ k + n <= Len(s) /\ \A i \in 1..n : t[i] = s[k + i]
    <3>1. \A i \in 1..n : t[i] = s[k + i]
      OBVIOUS
    <3>2. n = Len(t)
      OBVIOUS
    <3> HIDE DEF n
    <3> QED BY <1>1, <3>1, <3>2
  <2> HIDE DEF n
  <2>2. Partials(s)[k + n] = Partials(s)[k] + Partials(t)[n]
    BY <1>1, <2>1, PartialsAgree
  <2> QED BY <2>2 DEF n
<1> QED BY <1>1, <1>2, <1>3 DEF Total

\* What is left of a queue when its first k entries are taken.
LEMMA RestOfQueue ==
  ASSUME NEW E, NEW q \in Seq(E), NEW k \in 0..Len(q)
  PROVE  LET t == SubSeq(q, k + 1, Len(q)) IN
         t \in Seq(E) /\ Len(t) = Len(q) - k /\ \A i \in 1..Len(t) : t[i] = q[k + i]
<1> DEFINE t == SubSeq(q, k + 1, Len(q))
<1>1. /\ k + 1 \in Int /\ Len(q) \in Int /\ \A i \in (k + 1)..Len(q) : q[i] \in E
      /\ Len(q) \in Nat /\ k \in Nat /\ k <= Len(q)
  OBVIOUS
<1>2. /\ t \in Seq(E) /\ Len(t) = IF k + 1 <= Len(q) THEN Len(q) - (k + 1) + 1 ELSE 0
      /\ \A i \in 1..(Len(q) - (k + 1) + 1) : t[i] = q[(k + 1) + i - 1]
  BY <1>1, SubSeqProperties
<1> HIDE DEF t
<1>3. Len(t) = Len(q) - k
  BY <1>1, <1>2
<1>4. ASSUME NEW i \in 1..Len(t) PROVE t[i] = q[k + i]
  <2>1. i \in 1..(Len(q) - (k + 1) + 1) /\ (k + 1) + i - 1 = k + i
    BY <1>1, <1>3
  <2> QED BY <1>2, <2>1
<1> QED BY <1>2, <1>3, <1>4 DEF t

\* The sum that is left when the i-th entry is removed.
LEMMA TotalWithout ==
  ASSUME NEW s \in Seq(Int), NEW t \in Seq(Int), NEW i \in 1..Len(s), Len(t) = Len(s) - 1,
         \A j \in 1..Len(t) : t[j] = IF j < i THEN s[j] ELSE s[j + 1]
  PROVE  Total(t) = Total(s) - s[i]
<1>1. PICK k, n, r : k = i - 1 /\ n = Len(s) - i /\ r = SubSeq(s, i + 1, Len(s))
  OBVIOUS
<1>2. /\ Len(s) \in Nat /\ k \in Nat /\ n \in Nat /\ k <= Len(t) /\ k <= Len(s)
      /\ k + n = Len(t) /\ i + n = Len(s) /\ i \in Nat /\ k + 1 = i /\ s[i] \in Int
      /\ Len(t) \in Nat /\ n <= Len(s) /\ n <= Len(t)
  BY <1>1
<1>3. r \in Seq(Int) /\ Len(r) = n /\ \A j \in 1..n : r[j] = s[i + j]
  <2>1. i \in 0..Len(s)
    BY <1>2
  <2>2. r \in Seq(Int) /\ Len(r) = Len(s) - i /\ \A j \in 1..Len(r) : r[j] = s[i + j]
    <3> DEFINE D == Int
    <3>1. s \in Seq(D)
      OBVIOUS
    <3>2. r \in Seq(D) /\ Len(r) = Len(s) - i /\ \A j \in 1..Len(r) : r[j] = s[i + j]
      <4> HIDE DEF D
      <4> QED BY <1>1, <2>1, <3>1, RestOfQueue
    <3> QED BY <3>2
  <2> QED BY <1>1, <2>2
<1>4. \A j \in 1..k : t[j] = s[j]
  <2> SUFFICES ASSUME NEW j \in 1..k PROVE t[j] = s[j]
    OBVIOUS
  <2>1. j \in 1..Len(t) /\ j < i
    BY <1>2
  <2> QED BY <2>1
<1>5. \A j \in 1..n : r[j] = t[k + j]
  <2> SUFFICES ASSUME NEW j \in 1..n PROVE r[j] = t[k + j]
    OBVIOUS
  <2>1. k + j \in 1..Len(t) /\ ~ (k + j < i) /\ (k + j) + 1 = i + j
    <3>1. k + j <= Len(t) /\ k + j >= 1 /\ k + j \in Nat
      BY <1>2
    <3>2. (k + j) + 1 = i + j /\ k + j >= i
      BY <1>2
    <3> QED BY <1>2, <3>1, <3>2
  <2>2. t[k + j] = s[i + j]
    BY <2>1
  <2> QED BY <1>3, <2>2
<1>6. /\ Partials(s)[0] = 0 /\ Partials(s)[i] = Partials(s)[k] + s[i]
      /\ Partials(s)[k] \in Int /\ Partials(r)[n] \in Int /\ Partials(t)[k] \in Int
  <2>1. /\ Partials(s) \in [0..Len(s) -> Int] /\ Partials(t) \in [0..Len(t) -> Int]
        /\ Partials(r) \in [0..n -> Int] /\ Partials(s)[0] = 0
        /\ \A j \in 1..Len(s) : Partials(s)[j] = Partials(s)[j - 1] + s[j]
    BY <1>3, PartialsDefined
  <2>2. k \in 0..Len(s) /\ n \in 0..n /\ k \in 0..Len(t) /\ i - 1 = k
    BY <1>2
  <2>3. Partials(s)[i] = Partials(s)[i - 1] + s[i]
    BY <2>1
  <2> QED BY <2>1, <2>2, <2>3
<1>7. Partials(s)[k] = Partials(t)[k]
  BY <1>2, <1>4, PrefixSum
<1>8. Total(r) = Total(s) - Partials(s)[i] /\ Total(s) \in Int
  <2>1. i \in 0..Len(s)
    OBVIOUS
  <2>2. Len(r) = Len(s) - i
    BY <1>1, <1>3
  <2>3. \A j \in 1..Len(r) : r[j] = s[i + j]
    BY <1>3
  <2> QED BY <1>3, <2>1, <2>2, <2>3, TotalOfRest
<1>9. Total(r) = Total(t) - Partials(t)[k] /\ Total(t) \in Int
  <2>1. k \in 0..Len(t)
    BY <1>1
  <2>2. Len(r) = Len(t) - k
    BY <1>1, <1>3
  <2>3. \A j \in 1..Len(r) : r[j] = t[k + j]
    BY <1>3, <1>5
  <2> QED BY <1>3, <2>1, <2>2, <2>3, TotalOfRest
<1>10. PICK a, b, c, d, x : /\ a = Partials(s)[k] /\ b = Partials(s)[i] /\ c = Total(s)
                            /\ d = Total(t) /\ x = s[i]
  OBVIOUS
<1>11. /\ a \in Int /\ x \in Int /\ c \in Int /\ d \in Int /\ b = a + x
       /\ c - b = d - a
  <2>1. x \in Int
    BY <1>10
  <2>2. a \in Int /\ b = a + x
    BY <1>6, <1>10
  <2>3. c \in Int /\ d \in Int /\ c - b = d - a
    BY <1>7, <1>8, <1>9, <1>10
  <2> QED BY <2>1, <2>2, <2>3
<1>12. d = c - x
  BY <1>11
<1> QED BY <1>10, <1>12

\* What is left of a queue when its i-th entry is removed.
LEMMA RemoveFromQueue ==
  ASSUME NEW E, NEW q \in Seq(E), NEW i \in 1..Len(q)
  PROVE  /\ RemoveAt(q, i) \in Seq(E) /\ Len(RemoveAt(q, i)) = Len(q) - 1
         /\ \A j \in 1..Len(RemoveAt(q, i)) :
               RemoveAt(q, i)[j] = IF j < i THEN q[j] ELSE q[j + 1]
<1> DEFINE a == SubSeq(q, 1, i - 1)
           b == SubSeq(q, i + 1, Len(q))
           t == a \o b
<1>1. Len(q) \in Nat /\ 1 \in Int /\ i - 1 \in Int /\ \A j \in 1..(i - 1) : q[j] \in E
  OBVIOUS
<1>2. a \in Seq(E) /\ Len(a) = i - 1 /\ \A j \in 1..(i - 1) : a[j] = q[j]
  <2>1. /\ a \in Seq(E) /\ Len(a) = IF 1 <= i - 1 THEN (i - 1) - 1 + 1 ELSE 0
        /\ \A j \in 1..((i - 1) - 1 + 1) : a[j] = q[1 + j - 1]
    BY <1>1, SubSeqProperties
  <2> HIDE DEF a
  <2>2. \A j \in 1..(i - 1) : j \in 1..((i - 1) - 1 + 1) /\ 1 + j - 1 = j
    OBVIOUS
  <2> QED BY <2>1, <2>2
<1>3. b \in Seq(E) /\ Len(b) = Len(q) - i /\ \A j \in 1..Len(b) : b[j] = q[i + j]
  <2> i \in 0..Len(q)
    BY <1>1
  <2> QED BY RestOfQueue
<1> HIDE DEF a, b
<1>4. /\ t \in Seq(E) /\ Len(t) = Len(a) + Len(b)
      /\ \A j \in 1..(Len(a) + Len(b)) : t[j] = IF j <= Len(a) THEN a[j] ELSE b[j - Len(a)]
  BY <1>2, <1>3, ConcatProperties
<1> HIDE DEF t
<1>5. Len(t) = Len(q) - 1
  BY <1>1, <1>2, <1>3, <1>4
<1>6. ASSUME NEW j \in 1..Len(t) PROVE t[j] = IF j < i THEN q[j] ELSE q[j + 1]
  <2>1. CASE j < i
    BY <1>2, <1>4, <2>1
  <2>2. CASE j >= i
    <3>1. j - Len(a) \in 1..Len(b) /\ i + (j - Len(a)) = j + 1 /\ ~ (j <= Len(a))
      BY <1>1, <1>2, <1>3, <1>5, <2>2
    <3> QED BY <1>3, <1>4, <2>2, <3>1
  <2> QED BY <2>1, <2>2
<1>7. RemoveAt(q, i) = t
  BY DEF RemoveAt, t, a, b
<1> QED BY <1>4, <1>5, <1>6, <1>7

-----------------------------------------------------------------------------
(* Lists of anything                                                       *)

IsList(s) == \E S : s \in Seq(S)

LEMMA ListFacts ==
    ASSUME NEW s, IsList(s)
    PROVE  Len(s) \in Nat /\ DOMAIN s = 1..Len(s)
  BY DEF IsList

LEMMA ListOf ==
    ASSUME NEW n \in Nat, NEW s, DOMAIN s = 1..n, s = [i \in 1..n |-> s[i]]
    PROVE  IsList(s) /\ Len(s) = n
  <1> DEFINE S == {s[i] : i \in 1..n}
  <1>1. s \in [1..n -> S]
    OBVIOUS
  <1>2. s \in Seq(S) /\ Len(s) = n
    <2> HIDE DEF S
    <2> QED BY <1>1
  <1> QED BY <1>2 DEF IsList

LEMMA ShortLists ==
    ASSUME NEW a, NEW b, NEW c, NEW d
    PROVE  /\ IsList(<<a>>) /\ Len(<<a>>) = 1
           /\ IsList(<<a, b>>) /\ Len(<<a, b>>) = 2
           /\ IsList(<<a, b, c>>) /\ Len(<<a, b, c>>) = 3
           /\ IsList(<<a, b, c, d>>) /\ Len(<<a, b, c, d>>) = 4
  <1>1. PICK S : S = {a, b, c, d}
    OBVIOUS
  <1>2. a \in S /\ b \in S /\ c \in S /\ d \in S
    BY <1>1
  <1>3. <<a>> \in Seq(S) /\ <<a, b>> \in Seq(S) /\ <<a, b, c>> \in Seq(S) /\ <<a, b, c, d>> \in Seq(S)
    BY <1>2
  <1> QED BY <1>3 DEF IsList

LEMMA JoinedLists ==
    ASSUME NEW s, IsList(s), NEW t, IsList(t)
    PROVE  /\ IsList(s \o t) /\ Len(s \o t) = Len(s) + Len(t)
           /\ \A i \in 1..Len(s) : (s \o t)[i] = s[i]
           /\ \A i \in 1..Len(t) : (s \o t)[Len(s) + i] = t[i]
  <1>1. PICK S, T : s \in Seq(S) /\ t \in Seq(T)
    BY DEF IsList
  <1>2. PICK D : D = S \cup T
    OBVIOUS
  <1>3. s \in Seq(D) /\ t \in Seq(D)
    <2>1. s \in [1..Len(s) -> D] /\ t \in [1..Len(t) -> D] /\ Len(s) \in Nat /\ Len(t) \in Nat
      BY <1>1, <1>2
    <2> QED BY <2>1
  <1>4. s \o t \in Seq(D) /\ Len(s \o t) = Len(s) + Len(t)
    BY <1>3
  <1>5. \A i \in 1..Len(s) + Len(t) : (s \o t)[i] = IF i <= Len(s) THEN s[i] ELSE t[i - Len(s)]
    BY <1>3, ConcatProperties
  <1>6. Len(s) \in Nat /\ Len(t) \in Nat
    BY <1>3
  <1>7. \A i \in 1..Len(t) : Len(s) + i \in 1..Len(s) + Len(t) /\ ~ (Len(s) + i <= Len(s)) /\ (Len(s) + i) - Len(s) = i
    BY <1>6
  <1>8. \A i \in 1..Len(s) : i \in 1..Len(s) + Len(t) /\ i <= Len(s)
    BY <1>6
  <1>9. \A i \in 1..Len(s) : (s \o t)[i] = s[i]
    BY <1>5, <1>8
  <1>10. \A i \in 1..Len(t) : (s \o t)[Len(s) + i] = t[i]
    BY <1>5, <1>7
  <1> QED BY <1>4, <1>9, <1>10 DEF IsList

LEMMA AppendedList ==
    ASSUME NEW s, IsList(s), NEW x
    PROVE  /\ IsList(Append(s, x)) /\ Len(Append(s, x)) = Len(s) + 1
           /\ Append(s, x)[Len(s) + 1] = x
           /\ \A i \in 1..Len(s) : Append(s, x)[i] = s[i]
  <1>1. PICK S : s \in Seq(S)
    BY DEF IsList
  <1>2. PICK D : D = S \cup {x}
    OBVIOUS
  <1>3. s \in Seq(D) /\ x \in D
    <2>1. s \in [1..Len(s) -> D] /\ Len(s) \in Nat
      BY <1>1, <1>2
    <2> QED BY <1>2, <2>1
  <1>4. /\ Append(s, x) \in Seq(D) /\ Len(Append(s, x)) = Len(s) + 1
        /\ Append(s, x)[Len(s) + 1] = x /\ \A i \in 1..Len(s) : Append(s, x)[i] = s[i]
    BY <1>3, AppendProperties
  <1> QED BY <1>4 DEF IsList

=============================================================================
