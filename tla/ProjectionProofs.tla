-------------------------- MODULE ProjectionProofs --------------------------
(***************************************************************************)
(* What a projection returns is the source's, for any number of models,    *)
(* forks, declarations and reformulations: the values a caller reads at a  *)
(* coordinate were computed for that declaration, certificates stay with   *)
(* the incumbent they are about, and the wrapper that reformulates in      *)
(* place answers in the caller's own coordinates.                          *)
(*                                                                         *)
(* It rests on lineage: every ancestor a model remembers agrees with it on *)
(* the prefix it inherited, and ancestors sit at the same height in every  *)
(* chain, so that aligning two chains at the root finds a common one.  A   *)
(* plan that is kept is the plan of the model for as long as its key is.   *)
(***************************************************************************)
EXTENDS Projection, Queues

Declarations == [owner : Models, at : Nat, gen : BOOLEAN, alt : BOOLEAN]
Sizes == [Kinds -> Nat]
Links == [id : Live, prefix : Sizes]

TypeInv ==
  /\ Live \subseteq Models
  /\ items \in [Live -> [Kinds -> Seq(Declarations)]]
  /\ lineage \in [Live -> Seq(Links)]
  /\ reports \in [Live -> Nat]

\* Two models have the same first c declarations in a registry.
Agree(m, n, k, c) ==
  /\ c <= Count(m, k) /\ c <= Count(n, k)
  /\ \A j \in 1 .. c : items[m][k][j] = items[n][k][j]

\* What a link of a model's chain says of its parameters.
LinkAgrees(m, link) ==
  link.id \in Live /\ link.prefix["parameter"] \in Nat /\ Agree(m, link.id, "parameter", link.prefix["parameter"])

\* A model agrees with its ancestors on what it inherited of them, and the
\* chain of an ancestor is the rest of the chain it is found in.
LineageInv ==
  \A m \in Live : \A i \in DOMAIN lineage[m] :
    /\ Len(lineage[lineage[m][i].id]) = Len(lineage[m]) - i
    /\ \A k \in Kinds : Agree(m, lineage[m][i].id, k, lineage[m][i].prefix[k])

\* Plans of SourceProjectionPlan are prefixes with some variables retained.
PrefixPlan(p) ==
  \E s \in Live, v, w, c \in Nat, retained \in SUBSET Nat, ps \in Seq(Declarations) :
    p = [source |-> s, variables |-> Upto(v), rows |-> Upto(w), cones |-> c,
         retained |-> retained, parameters |-> ps]
PlanInv == plan = Unset \/ \E p : plan = Some(p) /\ PrefixPlan(p)

\* The registries a plan is made from.
Planned == Kinds \ {"sos"}
\* A kept plan is the model's plan while nothing it is made from has grown.
CacheInv ==
  \/ cache = Unset
  \/ \E m \in Live, n \in Nat, c \in Sizes : \E p :
       /\ cache = Some([key |-> [model |-> m, reports |-> n, prefix |-> c], plan |-> p])
       /\ \A k \in Planned : c[k] <= Count(m, k)
       /\ (\A k \in Planned : c[k] = Count(m, k)) => p = SourcePlan(m)

IInv == TypeInv /\ LineageInv /\ PlanInv /\ CacheInv

-----------------------------------------------------------------------------
(* Least numbers, and points that survive                                  *)

LEMMA LeastIsMember ==
  ASSUME NEW S \in SUBSET Nat, NEW x \in S
  PROVE  Min(S) \in S /\ \A y \in S : Min(S) <= y
<1>1. PICK k \in S : \A j \in 0..(k - 1) : j \notin S
  BY LeastNumber
<1>2. \A y \in S : k <= y
  <2> SUFFICES ASSUME NEW y \in S, ~(k <= y) PROVE FALSE
    OBVIOUS
  <2>1. y \in 0..(k - 1)
    OBVIOUS
  <2> QED BY <1>1, <2>1
<1>3. \E z \in S : \A y \in S : z <= y
  BY <1>2
<1> QED BY <1>3 DEF Min

LEMMA LeastOfTwo ==
  ASSUME NEW a \in Nat, NEW b \in Nat
  PROVE  Min({a, b}) = IF a <= b THEN a ELSE b
<1>1. Min({a, b}) \in {a, b} /\ \A y \in {a, b} : Min({a, b}) <= y
  BY LeastIsMember
<1> QED BY <1>1

LEMMA BoundOfPrefix ==
  ASSUME NEW n \in Nat
  PROVE  UpperBound(Upto(n)) = n /\ Upto(n).ids = 0 .. n - 1
<1>1. Upto(n).ids = 0 .. n - 1
  BY DEF Upto, Indices
<1>2. CASE n = 0
  BY <1>1, <1>2 DEF UpperBound
<1>3. CASE n # 0
  <2>1. n - 1 \in 0 .. n - 1 /\ \A y \in 0 .. n - 1 : n - 1 >= y
    BY <1>3
  <2>2. \A x \in 0 .. n - 1 : (\A y \in 0 .. n - 1 : x >= y) => x = n - 1
    BY <2>1
  <2>3. Max(0 .. n - 1) = n - 1
    BY <2>1, <2>2 DEF Max
  <2>4. 0 .. n - 1 # {} /\ n - 1 + 1 = n
    BY <2>1
  <2> QED BY <1>1, <2>3, <2>4 DEF UpperBound
<1> QED BY <1>2, <1>3

\* The complete points of a sequence.
Whole(R, points, pl) == {p \in R : \E j \in 1 .. Len(points) : p = points[j] /\ Complete(p, pl)}

\* Survivors are points that are complete, the first of them first.
LEMMA SurvivorsAre ==
  ASSUME NEW R, NEW points \in Seq(R), NEW pl, NEW sound, sound = Survivors(points, pl)
  PROVE  /\ sound \in Seq(Whole(R, points, pl))
         /\ Len(points) >= 1 /\ Complete(points[1], pl) => Len(sound) >= 1 /\ sound[1] = points[1]
         /\ \A j \in 1 .. Len(points) : Complete(points[j], pl) => Len(sound) >= 1
<1>1. PICK n, C, D : /\ n = Len(points) /\ C = {j \in 1 .. n : Complete(points[j], pl)}
                     /\ D = Whole(R, points, pl)
  OBVIOUS
<1>2. n \in Nat /\ \A j \in C : j \in 1 .. n /\ points[j] \in D
  BY <1>1 DEF Whole
<1>3. \A i \in 1 .. n : Complete(points[i], pl) <=> i \in C
  BY <1>1
<1> DEFINE Kept0(g) == g = [i \in 0 .. n |-> IF i = 0 THEN <<>>
                                            ELSE IF i \in C THEN Append(g[i - 1], points[i]) ELSE g[i - 1]]
           Coded(g) == g = [i \in 0 .. Len(points) |-> IF i = 0 THEN <<>>
                              ELSE IF Complete(points[i], pl) THEN Append(g[i - 1], points[i]) ELSE g[i - 1]]
<1>4. \A g : Coded(g) <=> Kept0(g)
  <2> SUFFICES ASSUME NEW g PROVE Coded(g) <=> Kept0(g)
    OBVIOUS
  <2>1. \A i \in 0 .. n : (IF i = 0 THEN <<>> ELSE IF Complete(points[i], pl) THEN Append(g[i - 1], points[i]) ELSE g[i - 1])
                          = (IF i = 0 THEN <<>> ELSE IF i \in C THEN Append(g[i - 1], points[i]) ELSE g[i - 1])
    <3> SUFFICES ASSUME NEW i \in 0 .. n
                 PROVE (IF i = 0 THEN <<>> ELSE IF Complete(points[i], pl) THEN Append(g[i - 1], points[i]) ELSE g[i - 1])
                       = (IF i = 0 THEN <<>> ELSE IF i \in C THEN Append(g[i - 1], points[i]) ELSE g[i - 1])
      OBVIOUS
    <3>1. i # 0 => i \in 1 .. n
      BY <1>2
    <3> QED BY <1>3, <3>1
  <2> QED BY <1>1, <2>1
<1>5. PICK e : e = <<>> /\ e \in Seq(D) /\ Len(e) = 0
  <2>1. <<>> \in Seq(D) /\ Len(<<>>) = 0
    BY EmptySeq
  <2> QED BY <2>1
<1>6. \E f \in [0 .. n -> Seq(D)] : Kept0(f)
  <2> DEFINE G == [i \in 1 .. n |-> [s \in Seq(D) |-> IF i \in C THEN Append(s, points[i]) ELSE s]]
             T == Seq(D)
  <2>1. G \in [1 .. n -> [T -> T]]
    <3> SUFFICES ASSUME NEW i \in 1 .. n, NEW s \in Seq(D)
                 PROVE (IF i \in C THEN Append(s, points[i]) ELSE s) \in Seq(D)
      OBVIOUS
    <3> QED BY <1>2
  <2>2. \E f \in [0 .. n -> T] : Repeats(f, n, e, G)
    <3> HIDE DEF T, G
    <3>1. e \in T
      BY <1>5 DEF T
    <3> QED BY <1>2, <2>1, <3>1, Recursion
  <2>3. PICK f \in [0 .. n -> T] : f = [i \in 0 .. n |-> IF i = 0 THEN e ELSE G[i][f[i - 1]]]
    <3> HIDE DEF G
    <3> QED BY <2>2 DEF Repeats
  <2>4. \A i \in 0 .. n : f[i] = IF i = 0 THEN <<>> ELSE IF i \in C THEN Append(f[i - 1], points[i]) ELSE f[i - 1]
    <3> SUFFICES ASSUME NEW i \in 0 .. n
                 PROVE f[i] = IF i = 0 THEN <<>> ELSE IF i \in C THEN Append(f[i - 1], points[i]) ELSE f[i - 1]
      OBVIOUS
    <3>1. CASE i = 0
      BY <1>5, <2>3, <3>1
    <3>2. CASE i # 0
      <4>1. i \in 1 .. n /\ i - 1 \in 0 .. n
        BY <1>2, <3>2
      <4>2. f[i - 1] \in Seq(D)
        BY <4>1
      <4>3. G[i][f[i - 1]] = IF i \in C THEN Append(f[i - 1], points[i]) ELSE f[i - 1]
        BY <4>1, <4>2
      <4>4. f[i] = G[i][f[i - 1]]
        <5> HIDE DEF G
        <5> QED BY <2>3, <3>2
      <4> QED BY <3>2, <4>3, <4>4
    <3> QED BY <3>1, <3>2
  <2>5. f = [i \in 0 .. n |-> f[i]]
    OBVIOUS
  <2>6. Kept0(f)
    <3> HIDE DEF G, T
    <3> QED BY <2>4, <2>5
  <2> QED BY <2>6
<1>7. PICK K : K = (CHOOSE g : Coded(g))
  OBVIOUS
<1>8. Kept0(K)
  <2>1. \E g : Coded(g)
    <3> HIDE DEF Coded, Kept0
    <3> QED BY <1>4, <1>6
  <2>2. Coded(K)
    <3> HIDE DEF Coded
    <3> QED BY <1>7, <2>1
  <2> HIDE DEF Coded, Kept0
  <2> QED BY <1>4, <2>2
<1>9. sound = K[n]
  BY <1>1, <1>7 DEF Survivors
<1>10. K[0] = e /\ \A i \in 1 .. n : K[i] = IF i \in C THEN Append(K[i - 1], points[i]) ELSE K[i - 1]
  <2>1. \A i \in 0 .. n : K[i] = IF i = 0 THEN <<>> ELSE IF i \in C THEN Append(K[i - 1], points[i]) ELSE K[i - 1]
    BY <1>8
  <2> QED BY <1>2, <1>5, <2>1
<1> HIDE DEF Kept0, Coded
<1> DEFINE Good(m) == /\ K[m] \in Seq(D)
                      /\ m >= 1 /\ 1 \in C => Len(K[m]) >= 1 /\ K[m][1] = points[1]
                      /\ \A j \in C : j <= m => Len(K[m]) >= 1
           S == {m \in Nat : m <= n => Good(m)}
<1>11. 0 \in S
  <2>1. \A j \in C : ~ (j <= 0)
    BY <1>2
  <2>2. Good(0)
    BY <1>5, <1>10, <2>1
  <2> HIDE DEF Good
  <2> QED BY <2>2
<1>12. ASSUME NEW m \in Nat, m \in S PROVE m + 1 \in S
  <2> SUFFICES ASSUME m + 1 <= n PROVE Good(m + 1)
    OBVIOUS
  <2>1. Good(m)
    BY <1>2, <1>12
  <2>2. m + 1 \in 1 .. n /\ (m + 1) - 1 = m
    BY <1>2
  <2>3. K[m + 1] = IF m + 1 \in C THEN Append(K[m], points[m + 1]) ELSE K[m]
    BY <1>10, <2>2
  <2>4. PICK s : s = K[m]
    OBVIOUS
  <2>5. s \in Seq(D) /\ Len(s) \in Nat
    BY <2>1, <2>4
  <2>6. CASE m + 1 \in C
    <3>1. K[m + 1] = Append(s, points[m + 1]) /\ points[m + 1] \in D
      BY <1>2, <2>3, <2>4, <2>6
    <3>2. K[m + 1] \in Seq(D) /\ Len(K[m + 1]) = Len(s) + 1
      BY <2>5, <3>1
    <3>3. CASE m = 0
      <4>1. s = e
        BY <1>10, <2>4, <3>3
      <4>2. K[m + 1][1] = points[m + 1]
        BY <1>5, <2>5, <3>1, <4>1
      <4> QED BY <2>5, <3>2, <3>3, <4>2
    <3>4. CASE m # 0
      <4>1. 1 \in C => Len(s) >= 1 /\ s[1] = points[1]
        BY <2>1, <2>4, <3>4
      <4>2. 1 \in C => K[m + 1][1] = s[1]
        BY <2>5, <3>1, <4>1
      <4> QED BY <2>5, <3>2, <4>1, <4>2
    <3> QED BY <3>3, <3>4
  <2>7. CASE m + 1 \notin C
    <3>1. K[m + 1] = K[m]
      BY <2>3, <2>7
    <3>2. \A j \in C : j <= m + 1 => j <= m
      BY <1>2, <2>7
    <3>3. 1 \in C => m >= 1
      BY <2>7
    <3> QED BY <2>1, <3>1, <3>2, <3>3
  <2> QED BY <2>6, <2>7
<1>13. n \in S
  <2> HIDE DEF S
  <2> QED BY <1>2, <1>11, <1>12, SetInduction
<1>14. Good(n)
  BY <1>2, <1>13
<1>15. sound \in Seq(D) /\ (n >= 1 /\ 1 \in C => Len(sound) >= 1 /\ sound[1] = points[1])
       /\ \A j \in C : Len(sound) >= 1
  BY <1>2, <1>9, <1>14
<1>16. n >= 1 /\ Complete(points[1], pl) => 1 \in C
  BY <1>2, <1>3
<1>17. \A j \in 1 .. n : Complete(points[j], pl) => Len(sound) >= 1
  BY <1>3, <1>15
<1> QED BY <1>1, <1>15, <1>16, <1>17

-----------------------------------------------------------------------------
(* Lineage                                                                 *)

LEMMA Registries ==
  ASSUME TypeInv, NEW m \in Live, NEW k \in Kinds
  PROVE  /\ items[m][k] \in Seq(Declarations) /\ Count(m, k) \in Nat /\ Count(m, k) = Len(items[m][k])
         /\ \A j \in 1 .. Count(m, k) : items[m][k][j] \in Declarations
<1>1. PICK s : s = items[m][k]
  OBVIOUS
<1>2. s \in Seq(Declarations)
  BY <1>1 DEF TypeInv
<1>3. Len(s) \in Nat /\ \A j \in 1 .. Len(s) : s[j] \in Declarations
  BY <1>2
<1> QED BY <1>1, <1>2, <1>3 DEF Count

LEMMA Ancestors ==
  ASSUME TypeInv, LineageInv, NEW m \in Live, NEW i \in DOMAIN lineage[m]
  PROVE  /\ lineage[m] \in Seq(Links) /\ i \in 1 .. Len(lineage[m])
         /\ lineage[m][i].id \in Live /\ lineage[m][i].prefix \in Sizes
         /\ Len(lineage[lineage[m][i].id]) = Len(lineage[m]) - i
         /\ \A k \in Kinds : Agree(m, lineage[m][i].id, k, lineage[m][i].prefix[k])
<1>1. PICK s : s = lineage[m]
  OBVIOUS
<1>2. s \in Seq(Links)
  BY <1>1 DEF TypeInv
<1>3. i \in 1 .. Len(s) /\ s[i] \in Links
  <2>1. i \in DOMAIN s
    BY <1>1
  <2> QED BY <1>2, <2>1
<1>4. s[i].id \in Live /\ s[i].prefix \in Sizes
  BY <1>3 DEF Links
<1> QED BY <1>1, <1>2, <1>3, <1>4 DEF LineageInv

LEMMA Inherited ==
  ASSUME TypeInv, LineageInv, NEW n \in Live, NEW s \in Live, s # n,
         NEW found, found = InheritedPrefix(n, s), found # <<>>
  PROVE  /\ \E i \in DOMAIN lineage[n] : lineage[n][i].id = s
         /\ found[1] \in Sizes /\ \A k \in Kinds : Agree(n, s, k, found[1][k])
<1>1. PICK S : S = {i \in DOMAIN lineage[n] : lineage[n][i].id = s}
  OBVIOUS
<1>2. S # {} /\ found = <<lineage[n][Min(S)].prefix>>
  BY <1>1 DEF InheritedPrefix
<1>3. S \in SUBSET Nat
  BY <1>1, Ancestors
<1>4. Min(S) \in S
  BY <1>2, <1>3, LeastIsMember
<1>5. Min(S) \in DOMAIN lineage[n] /\ lineage[n][Min(S)].id = s
  BY <1>1, <1>4
<1>6. found[1] = lineage[n][Min(S)].prefix
  BY <1>2
<1> QED BY <1>5, <1>6, Ancestors

LEMMA ChainLinks ==
  ASSUME TypeInv, LineageInv, NEW m \in Live
  PROVE  /\ Chain(m) \in Seq(Links) /\ Len(Chain(m)) \in Nat
         /\ Len(Chain(m)) = Len(lineage[m]) + 1 /\ Len(lineage[m]) \in Nat
         /\ Chain(m)[1].id = m /\ \A i \in DOMAIN lineage[m] : Chain(m)[i + 1] = lineage[m][i]
         /\ \A j \in 1 .. Len(Chain(m)) : LinkAgrees(m, Chain(m)[j])
<1> DEFINE c == Chain(m)
<1>1. PICK s, h : s = lineage[m] /\ h = [id |-> m, prefix |-> Prefix(m)]
  OBVIOUS
<1>2. s \in Seq(Links)
  BY <1>1 DEF TypeInv
<1>3. h \in Links
  <2>1. Prefix(m) \in Sizes
    BY Registries DEF Prefix, Sizes
  <2> QED BY <1>1, <2>1 DEF Links
<1>4. c = <<h>> \o s
  BY <1>1 DEF Chain
<1> HIDE DEF c
<1>5. c \in Seq(Links) /\ Len(c) = Len(s) + 1 /\ Len(s) \in Nat
      /\ c[1] = h /\ \A i \in 1 .. Len(s) : c[i + 1] = s[i]
  BY <1>2, <1>3, <1>4
<1>6. c[1].id = m /\ c[1].prefix = Prefix(m)
  BY <1>1, <1>5
<1>7. "parameter" \in Kinds
  BY DEF Kinds
<1>8. Agree(m, m, "parameter", Prefix(m)["parameter"]) /\ Prefix(m)["parameter"] \in Nat
  BY <1>7, Registries DEF Agree, Prefix
<1>9. \A j \in 1 .. Len(c) : LinkAgrees(m, c[j])
  <2> SUFFICES ASSUME NEW j \in 1 .. Len(c)
               PROVE  /\ c[j].id \in Live /\ c[j].prefix["parameter"] \in Nat
                      /\ Agree(m, c[j].id, "parameter", c[j].prefix["parameter"])
    BY DEF LinkAgrees
  <2>1. CASE j = 1
    BY <1>6, <1>8, <2>1
  <2>2. CASE j # 1
    <3>1. j - 1 \in 1 .. Len(s) /\ j - 1 + 1 = j
      BY <1>5, <2>2
    <3>2. c[j] = s[j - 1] /\ j - 1 \in DOMAIN s
      BY <1>2, <1>5, <3>1
    <3>3. /\ s[j - 1].id \in Live /\ s[j - 1].prefix \in Sizes
          /\ Agree(m, s[j - 1].id, "parameter", s[j - 1].prefix["parameter"])
      BY <1>1, <1>7, <3>2, Ancestors
    <3>4. s[j - 1].prefix["parameter"] \in Nat
      BY <1>7, <3>3 DEF Sizes
    <3> QED BY <3>2, <3>3, <3>4
  <2> QED BY <2>1, <2>2
<1>10. DOMAIN s = 1 .. Len(s)
  BY <1>2
<1>11. Len(c) \in Nat
  BY <1>5
<1> QED BY <1>1, <1>5, <1>6, <1>9, <1>10, <1>11 DEF c

\* The end of a sequence, read at its p-th place.
LEMMA EndOf ==
  ASSUME NEW T, NEW c \in Seq(T), NEW n \in Nat, n <= Len(c), NEW p \in 1 .. n
  PROVE  /\ Len(c) - n + p \in 1 .. Len(c)
         /\ SubSeq(c, Len(c) - n + 1, Len(c))[p] = c[Len(c) - n + p]
<1>1. Len(c) \in Nat
  OBVIOUS
<1>2. Len(c) - n + 1 \in 1 .. Len(c) /\ Len(c) - n + p \in 1 .. Len(c)
  BY <1>1
<1>3. SubSeq(c, Len(c) - n + 1, Len(c))[p] = c[Len(c) - n + 1 + p - 1]
  BY <1>1, <1>2
<1>4. Len(c) - n + 1 + p - 1 = Len(c) - n + p
  BY <1>1
<1> QED BY <1>2, <1>3, <1>4

\* Two chains aligned at the root.
LEMMA Aligned ==
  ASSUME TypeInv, LineageInv, NEW a \in Live, NEW b \in Live,
         NEW n, n = Min({Len(Chain(a)), Len(Chain(b))})
  PROVE  /\ n \in Nat /\ n <= Len(Chain(a)) /\ n <= Len(Chain(b))
         /\ Chain(a) \in Seq(Links) /\ Chain(b) \in Seq(Links)
<1>1. Chain(a) \in Seq(Links) /\ Len(Chain(a)) \in Nat
  BY ChainLinks
<1>2. Chain(b) \in Seq(Links) /\ Len(Chain(b)) \in Nat
  BY ChainLinks
<1> QED BY <1>1, <1>2, LeastOfTwo

LEMMA SharedAgree ==
  ASSUME TypeInv, LineageInv, NEW a \in Live, NEW b \in Live,
         NEW shared, shared = SharedParameterPrefix(a, b), shared # <<>>
  PROVE  shared[1] \in Nat /\ Agree(a, b, "parameter", shared[1])
<1>1. PICK n, left, right, common :
        /\ n = Min({Len(Chain(a)), Len(Chain(b))})
        /\ left = SubSeq(Chain(a), Len(Chain(a)) - n + 1, Len(Chain(a)))
        /\ right = SubSeq(Chain(b), Len(Chain(b)) - n + 1, Len(Chain(b)))
        /\ common = {i \in 1 .. n : left[i].id = right[i].id}
  OBVIOUS
<1>2. common # {} /\ shared = <<Min({left[Min(common)].prefix["parameter"], right[Min(common)].prefix["parameter"]})>>
  BY <1>1 DEF SharedParameterPrefix
<1>3. PICK p : p = Min(common)
  OBVIOUS
<1>4. p \in 1 .. n /\ left[p].id = right[p].id
  <2>1. common \in SUBSET Nat
    BY <1>1
  <2>2. p \in common
    BY <1>2, <1>3, <2>1, LeastIsMember
  <2> QED BY <1>1, <2>2
<1>5. n \in Nat /\ n <= Len(Chain(a)) /\ n <= Len(Chain(b)) /\ Chain(a) \in Seq(Links) /\ Chain(b) \in Seq(Links)
  <2>1. n = Min({Len(Chain(a)), Len(Chain(b))})
    BY <1>1
  <2> QED BY <2>1, Aligned
<1>6. PICK x, u, v : x = left[p].id /\ u = left[p].prefix["parameter"] /\ v = right[p].prefix["parameter"]
  OBVIOUS
<1>7. x \in Live /\ u \in Nat /\ Agree(a, x, "parameter", u)
  <2>1. PICK i : i = Len(Chain(a)) - n + p
    OBVIOUS
  <2>2. i \in 1 .. Len(Chain(a)) /\ left[p] = Chain(a)[i]
    <3>1. left = SubSeq(Chain(a), Len(Chain(a)) - n + 1, Len(Chain(a)))
      BY <1>1
    <3> QED BY <1>4, <1>5, <2>1, <3>1, EndOf
  <2>3. LinkAgrees(a, Chain(a)[i])
    BY <2>2, ChainLinks
  <2> QED BY <1>6, <2>2, <2>3 DEF LinkAgrees
<1>8. v \in Nat /\ Agree(b, x, "parameter", v)
  <2>1. PICK i : i = Len(Chain(b)) - n + p
    OBVIOUS
  <2>2. i \in 1 .. Len(Chain(b)) /\ right[p] = Chain(b)[i]
    <3>1. right = SubSeq(Chain(b), Len(Chain(b)) - n + 1, Len(Chain(b)))
      BY <1>1
    <3> QED BY <1>4, <1>5, <2>1, <3>1, EndOf
  <2>3. LinkAgrees(b, Chain(b)[i])
    BY <2>2, ChainLinks
  <2> QED BY <1>4, <1>6, <2>2, <2>3 DEF LinkAgrees
<1>9. PICK w \in Nat : w = Min({u, v}) /\ w <= u /\ w <= v
  BY <1>7, <1>8, LeastOfTwo
<1>10. shared[1] = w
  BY <1>2, <1>3, <1>6, <1>9
<1>11. Agree(a, b, "parameter", w)
  <2>1. "parameter" \in Kinds
    BY DEF Kinds
  <2>2. Count(a, "parameter") \in Nat /\ Count(b, "parameter") \in Nat
    BY <2>1, Registries
  <2>3. w <= Count(a, "parameter") /\ w <= Count(b, "parameter")
    BY <1>7, <1>8, <1>9, <2>2 DEF Agree
  <2>4. ASSUME NEW j \in 1 .. w PROVE items[a]["parameter"][j] = items[b]["parameter"][j]
    <3>1. j \in 1 .. u /\ j \in 1 .. v
      BY <1>7, <1>8, <1>9
    <3>2. items[a]["parameter"][j] = items[x]["parameter"][j]
      BY <1>7, <3>1 DEF Agree
    <3>3. items[b]["parameter"][j] = items[x]["parameter"][j]
      BY <1>8, <3>1 DEF Agree
    <3> QED BY <3>2, <3>3
  <2> QED BY <2>3, <2>4 DEF Agree
<1> QED BY <1>9, <1>10, <1>11

\* A model has a chain in common with the ancestors it remembers.
LEMMA AncestorsShare ==
  ASSUME TypeInv, LineageInv, NEW a \in Live, NEW b \in Live,
         NEW i \in DOMAIN lineage[b], lineage[b][i].id = a
  PROVE  SharedParameterPrefix(a, b) # <<>>
<1>1. PICK n, left, right, common :
        /\ n = Min({Len(Chain(a)), Len(Chain(b))})
        /\ left = SubSeq(Chain(a), Len(Chain(a)) - n + 1, Len(Chain(a)))
        /\ right = SubSeq(Chain(b), Len(Chain(b)) - n + 1, Len(Chain(b)))
        /\ common = {p \in 1 .. n : left[p].id = right[p].id}
  OBVIOUS
<1>2. PICK c, d : c = Chain(a) /\ d = Chain(b)
  OBVIOUS
<1>3. Len(lineage[a]) = Len(lineage[b]) - i /\ i \in 1 .. Len(lineage[b]) /\ Len(lineage[a]) \in Nat /\ Len(lineage[b]) \in Nat
  BY Ancestors, ChainLinks
<1>4. Len(c) = Len(lineage[a]) + 1 /\ Len(d) = Len(lineage[b]) + 1 /\ c[1].id = a /\ d[i + 1] = lineage[b][i]
  <2>1. Len(Chain(a)) = Len(lineage[a]) + 1 /\ Chain(a)[1].id = a
    BY ChainLinks
  <2>2. Len(Chain(b)) = Len(lineage[b]) + 1 /\ Chain(b)[i + 1] = lineage[b][i]
    BY ChainLinks
  <2> QED BY <1>2, <2>1, <2>2
<1>5. n = Len(c) /\ Len(c) \in Nat /\ Len(d) \in Nat
  <2>1. Len(c) \in Nat /\ Len(d) \in Nat /\ Len(c) <= Len(d)
    BY <1>3, <1>4
  <2>2. n = Min({Len(c), Len(d)})
    BY <1>1, <1>2
  <2> QED BY <2>1, <2>2, LeastOfTwo
<1>6. 1 \in 1 .. n
  BY <1>3, <1>4, <1>5
<1>7. left[1] = c[1]
  <2>1. left = SubSeq(c, Len(c) - n + 1, Len(c)) /\ c \in Seq(Links) /\ n <= Len(c) /\ n \in Nat
    BY <1>1, <1>2, <1>5, ChainLinks
  <2>2. left[1] = c[Len(c) - n + 1]
    BY <1>6, <2>1, EndOf
  <2>3. Len(c) - n + 1 = 1
    BY <1>5
  <2> QED BY <2>2, <2>3
<1>8. right[1] = d[i + 1]
  <2>1. right = SubSeq(d, Len(d) - n + 1, Len(d)) /\ d \in Seq(Links) /\ n \in Nat
    BY <1>1, <1>2, <1>5, ChainLinks
  <2>2. n <= Len(d)
    BY <1>3, <1>4, <1>5
  <2>3. right[1] = d[Len(d) - n + 1]
    BY <1>6, <2>1, <2>2, EndOf
  <2>4. Len(d) - n + 1 = i + 1
    BY <1>3, <1>4, <1>5
  <2> QED BY <2>3, <2>4
<1>9. common # {}
  BY <1>1, <1>4, <1>6, <1>7, <1>8
<1> QED BY <1>1, <1>9 DEF SharedParameterPrefix

-----------------------------------------------------------------------------
(* Growing registries                                                      *)

Registered == [Live -> [Kinds -> Seq(Declarations)]]

\* Declarations are never withdrawn or changed.
Grows ==
  \A m \in Live : \A k \in Kinds :
    /\ Len(items[m][k]) <= Len(items'[m][k])
    /\ \A j \in 1 .. Len(items[m][k]) : items'[m][k][j] = items[m][k][j]

Appended(its, m, k, d) == [its EXCEPT ![m][k] = Append(@, d)]

LEMMA AppendedTo ==
  ASSUME NEW its \in Registered, NEW m \in Live, NEW k \in Kinds, NEW d \in Declarations,
         NEW new, new = Appended(its, m, k, d)
  PROVE  /\ new \in Registered
         /\ \A x \in Live : \A l \in Kinds :
              new[x][l] = IF x = m /\ l = k THEN Append(its[m][k], d) ELSE its[x][l]
<1>1. PICK T, K : T = Seq(Declarations) /\ K = Kinds
  OBVIOUS
<1>2. its \in [Live -> [K -> T]] /\ its[m] \in [K -> T]
  BY <1>1 DEF Registered
<1>3. PICK r : r = [its[m] EXCEPT ![k] = Append(@, d)]
  OBVIOUS
<1>4. new = [its EXCEPT ![m] = r]
  BY <1>3 DEF Appended
<1>5. Append(its[m][k], d) \in T
  <2>1. its[m][k] \in T
    BY <1>1, <1>2
  <2> QED BY <1>1, <2>1
<1>6. r \in [K -> T] /\ \A l \in K : r[l] = IF l = k THEN Append(its[m][k], d) ELSE its[m][l]
  BY <1>1, <1>2, <1>3, <1>5
<1>7. new \in [Live -> [K -> T]] /\ \A x \in Live : new[x] = IF x = m THEN r ELSE its[x]
  BY <1>2, <1>4, <1>6
<1>8. \A x \in Live : \A l \in K : new[x][l] = IF x = m /\ l = k THEN Append(its[m][k], d) ELSE its[x][l]
  BY <1>6, <1>7
<1> QED BY <1>1, <1>7, <1>8 DEF Registered

LEMMA ItemIs ==
  ASSUME TypeInv, NEW m \in Live, NEW k \in Kinds, NEW gen \in BOOLEAN, NEW alt \in BOOLEAN
  PROVE  Item(m, k, gen, alt) \in Declarations
<1>1. m \in Models /\ Count(m, k) \in Nat
  BY Registries DEF TypeInv
<1> QED BY <1>1 DEF Item, Declarations

\* What an appended declaration leaves of a registry.
LEMMA AppendPrefix ==
  ASSUME NEW D, NEW s \in Seq(D), NEW d \in D
  PROVE  /\ Len(s) \in Nat /\ Len(Append(s, d)) = Len(s) + 1 /\ Len(s) <= Len(Append(s, d))
         /\ \A j \in 1 .. Len(s) : Append(s, d)[j] = s[j]
OBVIOUS

LEMMA DeclaredGrows ==
  ASSUME TypeInv, NEW m \in Live, NEW k \in Kinds, NEW gen \in BOOLEAN, NEW alt \in BOOLEAN,
         items' = Grown(m, k, gen, alt)
  PROVE  items' \in Registered /\ Grows
<1>1. items \in Registered
  BY DEF TypeInv, Registered
<1>2. PICK d : d = Item(m, k, gen, alt) /\ d \in Declarations
  BY ItemIs
<1>3. items' = Appended(items, m, k, d)
  BY <1>2 DEF Grown, Appended
<1>4. /\ items' \in Registered
      /\ \A x \in Live : \A l \in Kinds :
           items'[x][l] = IF x = m /\ l = k THEN Append(items[m][k], d) ELSE items[x][l]
  BY <1>1, <1>2, <1>3, AppendedTo
<1>5. ASSUME NEW x \in Live, NEW l \in Kinds
      PROVE  /\ Len(items[x][l]) <= Len(items'[x][l])
             /\ \A j \in 1 .. Len(items[x][l]) : items'[x][l][j] = items[x][l][j]
  <2>1. PICK s : s = items[x][l]
    OBVIOUS
  <2>2. s \in Seq(Declarations) /\ Len(s) \in Nat
    BY <2>1, Registries
  <2>3. CASE x = m /\ l = k
    <3>1. items'[x][l] = Append(s, d)
      BY <1>4, <2>1, <2>3
    <3> QED BY <1>2, <2>1, <2>2, <3>1, AppendPrefix
  <2>4. CASE ~(x = m /\ l = k)
    <3>1. items'[x][l] = s
      BY <1>4, <2>1, <2>4
    <3> QED BY <2>1, <2>2, <3>1
  <2> QED BY <2>3, <2>4
<1> QED BY <1>4, <1>5 DEF Grows

LEMMA ReformulatedGrows ==
  ASSUME TypeInv, NEW m \in Live, NEW d \in Declarations, NEW e \in Declarations,
         items' = Appended(Appended(items, m, "variable", d), m, "row", e)
  PROVE  items' \in Registered /\ Grows
<1>1. items \in Registered
  BY DEF TypeInv, Registered
<1>2. "variable" \in Kinds /\ "row" \in Kinds
  BY DEF Kinds
<1>4. PICK mid : mid = Appended(items, m, "variable", d)
  OBVIOUS
<1>5. items' = Appended(mid, m, "row", e)
  BY <1>4
<1>6. /\ mid \in Registered
      /\ \A x \in Live : \A l \in Kinds :
           mid[x][l] = IF x = m /\ l = "variable" THEN Append(items[m]["variable"], d) ELSE items[x][l]
  BY <1>1, <1>2, <1>4, AppendedTo
<1>7. /\ items' \in Registered
      /\ \A x \in Live : \A l \in Kinds :
           items'[x][l] = IF x = m /\ l = "row" THEN Append(mid[m]["row"], e) ELSE mid[x][l]
  BY <1>2, <1>5, <1>6, AppendedTo
<1>8. ASSUME NEW x \in Live, NEW l \in Kinds
      PROVE  /\ Len(items[x][l]) <= Len(items'[x][l])
             /\ \A j \in 1 .. Len(items[x][l]) : items'[x][l][j] = items[x][l][j]
  <2>1. PICK s : s = items[x][l]
    OBVIOUS
  <2>2. s \in Seq(Declarations) /\ Len(s) \in Nat
    BY <2>1, Registries
  <2>3. items'[x][l] \in {s, Append(s, d), Append(s, e)}
    <3>1. CASE x = m /\ l = "row"
      BY <1>2, <1>6, <1>7, <2>1, <3>1
    <3>2. CASE x = m /\ l = "variable"
      BY <1>2, <1>6, <1>7, <2>1, <3>2
    <3>3. CASE ~(x = m /\ l = "row") /\ ~(x = m /\ l = "variable")
      BY <1>6, <1>7, <2>1, <3>3
    <3> QED BY <3>1, <3>2, <3>3
  <2>4. CASE items'[x][l] = s
    BY <2>1, <2>2, <2>4
  <2>5. CASE items'[x][l] = Append(s, d)
    BY <2>1, <2>2, <2>5, AppendPrefix
  <2>6. CASE items'[x][l] = Append(s, e)
    BY <2>1, <2>2, <2>6, AppendPrefix
  <2> QED BY <2>3, <2>4, <2>5, <2>6
<1> QED BY <1>7, <1>8 DEF Grows

LEMMA SameGrows ==
  ASSUME TypeInv, items' = items
  PROVE  items' \in Registered /\ Grows
<1>1. ASSUME NEW m \in Live, NEW k \in Kinds PROVE Len(items[m][k]) <= Len(items'[m][k])
  BY Registries
<1> QED BY <1>1 DEF TypeInv, Registered, Grows

\* Models and chains that agree keep agreeing.
LEMMA AgreeGrows ==
  ASSUME TypeInv, Grows, NEW m \in Live, NEW n \in Live, NEW k \in Kinds, NEW c \in Nat, Agree(m, n, k, c),
         items' \in Registered
  PROVE  Agree(m, n, k, c)'
<1>1. PICK a, b, x, y : a = items[m][k] /\ b = items[n][k] /\ x = items'[m][k] /\ y = items'[n][k]
  OBVIOUS
<1>2. a \in Seq(Declarations) /\ b \in Seq(Declarations)
  BY <1>1, Registries
<1>3. x \in Seq(Declarations) /\ y \in Seq(Declarations)
  BY <1>1 DEF Registered
<1>4. c <= Len(a) /\ c <= Len(b) /\ \A j \in 1 .. c : a[j] = b[j]
  BY <1>1 DEF Agree, Count
<1>5. Len(a) <= Len(x) /\ \A j \in 1 .. Len(a) : x[j] = a[j]
  BY <1>1 DEF Grows
<1>6. Len(b) <= Len(y) /\ \A j \in 1 .. Len(b) : y[j] = b[j]
  BY <1>1 DEF Grows
<1>7. c <= Len(x) /\ c <= Len(y)
  BY <1>2, <1>3, <1>4, <1>5, <1>6
<1>8. \A j \in 1 .. c : x[j] = y[j]
  <2> SUFFICES ASSUME NEW j \in 1 .. c PROVE x[j] = y[j]
    OBVIOUS
  <2>1. j \in 1 .. Len(a) /\ j \in 1 .. Len(b)
    BY <1>2, <1>4
  <2> QED BY <1>4, <1>5, <1>6, <2>1
<1> QED BY <1>1, <1>7, <1>8 DEF Agree, Count

\* A registry that has not grown is the same.
LEMMA SameRegistry ==
  ASSUME TypeInv, Grows, items' \in Registered, NEW m \in Live, NEW k \in Kinds,
         Len(items'[m][k]) = Len(items[m][k])
  PROVE  items'[m][k] = items[m][k]
<1>1. PICK a, x : a = items[m][k] /\ x = items'[m][k]
  OBVIOUS
<1>2. a \in Seq(Declarations) /\ x \in Seq(Declarations)
  BY <1>1, Registries DEF Registered
<1>3. Len(a) = Len(x) /\ \A j \in 1 .. Len(a) : x[j] = a[j]
  BY <1>1 DEF Grows
<1> QED BY <1>1, <1>2, <1>3, SeqEqual

-----------------------------------------------------------------------------
(* The invariant                                                           *)

LEMMA SamePlan ==
  ASSUME NEW m, \A k \in Planned : items'[m][k] = items[m][k]
  PROVE  SourcePlan(m)' = SourcePlan(m)
<1>1. /\ items'[m]["variable"] = items[m]["variable"] /\ items'[m]["row"] = items[m]["row"]
      /\ items'[m]["cone"] = items[m]["cone"] /\ items'[m]["parameter"] = items[m]["parameter"]
  BY DEF Planned, Kinds
<1>2. Count(m, "variable")' = Count(m, "variable") /\ Count(m, "row")' = Count(m, "row") /\ Count(m, "cone")' = Count(m, "cone")
  BY <1>1 DEF Count
<1>3. Generated(m, "variable")' = Generated(m, "variable") /\ Generated(m, "row")' = Generated(m, "row")
  BY <1>1, <1>2 DEF Generated
<1>4. Own(m, "variable")' = Own(m, "variable") /\ Own(m, "row")' = Own(m, "row")
  BY <1>2, <1>3 DEF Own
<1>5. Membership(m, "variable")' = Membership(m, "variable") /\ Membership(m, "row")' = Membership(m, "row")
  BY <1>2, <1>3, <1>4 DEF Membership
<1>6. CapturedPlan(m)' = CapturedPlan(m)
  BY <1>1, <1>2 DEF CapturedPlan
<1> QED BY <1>1, <1>3, <1>5, <1>6 DEF SourcePlan

LEMMA LineageKept ==
  ASSUME TypeInv, LineageInv, Grows, items' \in Registered, lineage' = lineage
  PROVE  LineageInv'
<1>1. Live' = Live
  BY DEF Registered, Live
<1>2. ASSUME NEW m \in Live, NEW i \in DOMAIN lineage[m]
      PROVE  /\ Len(lineage[lineage[m][i].id]) = Len(lineage[m]) - i
             /\ \A k \in Kinds : Agree(m, lineage[m][i].id, k, lineage[m][i].prefix[k])'
  <2>1. PICK a : a = lineage[m][i]
    OBVIOUS
  <2>2. a.id \in Live /\ a.prefix \in Sizes /\ Len(lineage[a.id]) = Len(lineage[m]) - i
        /\ \A k \in Kinds : Agree(m, a.id, k, a.prefix[k])
    BY <2>1, Ancestors
  <2>3. ASSUME NEW k \in Kinds PROVE Agree(m, a.id, k, a.prefix[k])'
    <3>1. PICK n \in Live, c \in Nat : n = a.id /\ c = a.prefix[k]
      BY <2>2 DEF Sizes
    <3>2. Agree(m, n, k, c)
      BY <2>2, <3>1
    <3>3. Agree(m, n, k, c)'
      BY <3>2, AgreeGrows
    <3>4. lineage'[m][i] = a
      BY <2>1
    <3> QED BY <3>1, <3>3 DEF Agree, Count
  <2> QED BY <2>1, <2>2, <2>3 DEF Agree, Count
<1>3. \A m \in Live' : \A i \in DOMAIN lineage'[m] :
        /\ Len(lineage'[lineage'[m][i].id]) = Len(lineage'[m]) - i
        /\ \A k \in Kinds : Agree(m, lineage[m][i].id, k, lineage[m][i].prefix[k])'
  BY <1>1, <1>2
<1> QED BY <1>3 DEF LineageInv, Agree, Count

LEMMA PlanKept ==
  ASSUME PlanInv, plan' = plan, Live \subseteq Live'
  PROVE  PlanInv'
BY DEF PlanInv, PrefixPlan

\* A plan that is the model's while nothing has grown stays so.
LEMMA CacheAfter ==
  ASSUME TypeInv, Grows, Live' = Live, items' \in Registered,
         NEW m \in Live, NEW n \in Nat, NEW c \in Sizes, NEW p,
         cache' = Some([key |-> [model |-> m, reports |-> n, prefix |-> c], plan |-> p]),
         \A k \in Planned : c[k] <= Count(m, k),
         (\A k \in Planned : c[k] = Count(m, k)) => p = SourcePlan(m)
  PROVE  CacheInv'
<1>1. ASSUME NEW k \in Planned
      PROVE  c[k] \in Nat /\ Count(m, k) \in Nat /\ Count(m, k)' \in Nat
             /\ Count(m, k) <= Count(m, k)' /\ (Count(m, k)' = Count(m, k) => items'[m][k] = items[m][k])
  <2>1. k \in Kinds
    BY DEF Planned
  <2>2. c[k] \in Nat /\ Count(m, k) \in Nat /\ Count(m, k) = Len(items[m][k])
    BY <2>1, Registries DEF Sizes
  <2>3. items'[m][k] \in Seq(Declarations)
    BY <2>1 DEF Registered
  <2>4. Count(m, k)' = Len(items'[m][k]) /\ Len(items'[m][k]) \in Nat
    BY <2>3 DEF Count
  <2>5. Len(items[m][k]) <= Len(items'[m][k])
    BY <2>1 DEF Grows
  <2> QED BY <2>1, <2>2, <2>4, <2>5, SameRegistry
<1>2. \A k \in Planned : c[k] <= Count(m, k)'
  BY <1>1
<1>3. ASSUME \A k \in Planned : c[k] = Count(m, k)' PROVE p = SourcePlan(m)'
  <2>1. \A k \in Planned : c[k] = Count(m, k) /\ Count(m, k)' = Count(m, k)
    BY <1>1, <1>3
  <2>2. p = SourcePlan(m)
    BY <2>1
  <2>3. SourcePlan(m)' = SourcePlan(m)
    BY <1>1, <2>1, SamePlan
  <2> QED BY <2>2, <2>3
<1>4. PICK q : q = SourcePlan(m)'
  OBVIOUS
<1>5. (\A k \in Planned : c[k] = Count(m, k)') => p = q
  BY <1>3, <1>4
<1>6. m \in Live'
  OBVIOUS
<1> QED BY <1>2, <1>4, <1>5, <1>6 DEF CacheInv

LEMMA CacheKept ==
  ASSUME TypeInv, CacheInv, Grows, Live' = Live, items' \in Registered, cache' = cache
  PROVE  CacheInv'
<1>1. CASE cache = Unset
  BY <1>1 DEF CacheInv
<1>2. CASE cache # Unset
  <2>1. PICK m, n, c, p :
           /\ m \in Live /\ n \in Nat /\ c \in Sizes
           /\ cache = Some([key |-> [model |-> m, reports |-> n, prefix |-> c], plan |-> p])
           /\ \A k \in Planned : c[k] <= Count(m, k)
           /\ (\A k \in Planned : c[k] = Count(m, k)) => p = SourcePlan(m)
    BY <1>2 DEF CacheInv
  <2> QED BY <2>1, CacheAfter
<1> QED BY <1>1, <1>2

LEMMA TypeKept ==
  ASSUME TypeInv, items' \in Registered, lineage' = lineage, reports' \in [Live -> Nat]
  PROVE  TypeInv' /\ Live' = Live
<1>1. Live' = Live
  BY DEF Registered, Live
<1>2. Links' = Links
  BY <1>1 DEF Links
<1>3. items' \in [Live' -> [Kinds -> Seq(Declarations)]]
  BY <1>1 DEF Registered
<1> QED BY <1>1, <1>2, <1>3 DEF TypeInv

\* Steps that change no chain and keep both plans.
LEMMA GrowthKeeps ==
  ASSUME IInv, Grows, items' \in Registered, lineage' = lineage, reports' \in [Live -> Nat],
         plan' = plan, cache' = cache
  PROVE  IInv'
<1>1. TypeInv' /\ Live' = Live
  BY TypeKept DEF IInv
<1>2. LineageInv'
  BY LineageKept DEF IInv
<1>3. PlanInv'
  BY <1>1, PlanKept DEF IInv
<1>4. CacheInv'
  BY <1>1, CacheKept DEF IInv
<1> QED BY <1>1, <1>2, <1>3, <1>4 DEF IInv

LEMMA InitHolds == ASSUME ConstantsAreApart, Init PROVE IInv
<1>1. PICK z : z = RootModel /\ z \in Models
  BY DEF ConstantsAreApart
<1>2. PICK one : one = <<[owner |-> RootModel, at |-> 0, gen |-> FALSE, alt |-> FALSE]>>
  OBVIOUS
<1>3. one \in Seq(Declarations)
  <2>1. [owner |-> RootModel, at |-> 0, gen |-> FALSE, alt |-> FALSE] \in Declarations
    BY <1>1 DEF Declarations
  <2> QED BY <1>2, <2>1
<1>4. OneItem = [k \in Kinds |-> one]
  BY <1>2 DEF OneItem
<1>5. Live = {z} /\ items \in [Live -> [Kinds -> Seq(Declarations)]]
  BY <1>1, <1>3, <1>4 DEF Init, Live
<1>6. PICK e : e = <<>> /\ e \in Seq(Links) /\ DOMAIN e = {}
  <2>1. <<>> \in Seq(Links) /\ Len(<<>>) = 0
    BY EmptySeq
  <2>2. PICK e : e = <<>> /\ e \in Seq(Links) /\ Len(e) = 0
    BY <2>1
  <2>3. DOMAIN e = 1 .. 0
    BY <2>2
  <2>4. DOMAIN e = {}
    BY <2>3
  <2> QED BY <2>2, <2>4
<1>7. lineage = [m \in {z} |-> e] /\ reports = [m \in {z} |-> 0]
  BY <1>1, <1>6 DEF Init
<1>8. TypeInv
  BY <1>1, <1>5, <1>6, <1>7 DEF TypeInv
<1>9. LineageInv
  BY <1>5, <1>6, <1>7 DEF LineageInv
<1> QED BY <1>8, <1>9 DEF IInv, PlanInv, CacheInv, Init

LEMMA ForkKeeps ==
  ASSUME IInv, NEW m \in Live, NEW n \in Models, Fork(m, n)
  PROVE  IInv'
<1>1. n \notin Live /\ m # n
  BY DEF Fork
<1>2. /\ Live' = Live \cup {n} /\ items'[n] = items[m] /\ lineage'[n] = <<[id |-> m, prefix |-> Prefix(m)]>> \o lineage[m]
      /\ \A x \in Live : items'[x] = items[x] /\ lineage'[x] = lineage[x] /\ reports'[x] = reports[x]
      /\ reports'[n] = reports[m]
      /\ items' = [i \in Live' |-> items'[i]] /\ lineage' = [i \in Live' |-> lineage'[i]]
      /\ reports' = [i \in Live' |-> reports'[i]]
  BY <1>1 DEF Fork, Live
<1>3. PICK h, s, t : h = [id |-> m, prefix |-> Prefix(m)] /\ s = lineage[m] /\ t = lineage'[n]
  OBVIOUS
<1>4. Links \subseteq Links'
  BY <1>2 DEF Links
<1>5. \A x \in Live : lineage[x] \in Seq(Links) /\ lineage[x] \in Seq(Links')
  <2> SUFFICES ASSUME NEW x \in Live PROVE lineage[x] \in Seq(Links) /\ lineage[x] \in Seq(Links')
    OBVIOUS
  <2>1. PICK r : r = lineage[x]
    OBVIOUS
  <2>2. r \in Seq(Links)
    BY <2>1 DEF IInv, TypeInv
  <2>3. r \in Seq(Links')
    BY <1>4, <2>2
  <2> QED BY <2>1, <2>2, <2>3
<1>6. h \in Links' /\ Prefix(m) \in Sizes
  <2>1. Prefix(m) \in Sizes
    BY Registries DEF Prefix, Sizes, IInv
  <2> QED BY <1>2, <1>3, <2>1 DEF Links
<1>7. /\ t \in Seq(Links') /\ Len(t) = Len(s) + 1 /\ Len(s) \in Nat /\ t[1] = h
      /\ \A i \in 2 .. Len(t) : t[i] = s[i - 1] /\ i - 1 \in DOMAIN s
  <2>1. t = <<h>> \o s /\ s \in Seq(Links')
    BY <1>2, <1>3, <1>5
  <2> QED BY <1>6, <2>1
<1>8. TypeInv'
  <2>1. Live' \subseteq Models
    BY <1>2 DEF IInv, TypeInv
  <2>2. items' \in [Live' -> [Kinds -> Seq(Declarations)]]
    BY <1>2 DEF IInv, TypeInv
  <2>3. lineage' \in [Live' -> Seq(Links')]
    BY <1>2, <1>3, <1>5, <1>7
  <2>4. reports' \in [Live' -> Nat]
    BY <1>2 DEF IInv, TypeInv
  <2> QED BY <2>1, <2>2, <2>3, <2>4 DEF TypeInv
<1>9. ASSUME NEW x \in Live, NEW k \in Kinds
      PROVE  Count(x, k)' = Count(x, k) /\ items'[x][k] = items[x][k]
  BY <1>2 DEF Count
<1>10. LineageInv'
  <2> DEFINE Related(x, a, k, c) == /\ c <= Len(items'[x][k]) /\ c <= Len(items'[a][k])
                                    /\ \A j \in 1 .. c : items'[x][k][j] = items'[a][k][j]
  <2>1. ASSUME NEW x \in Live, NEW i \in DOMAIN lineage[x]
        PROVE  LET a == lineage[x][i]
               IN  /\ Len(lineage'[a.id]) = Len(lineage[x]) - i
                   /\ \A k \in Kinds : Related(x, a.id, k, a.prefix[k])
    <3>1. PICK a : a = lineage[x][i]
      OBVIOUS
    <3>2. a.id \in Live /\ Len(lineage[a.id]) = Len(lineage[x]) - i /\ \A k \in Kinds : Agree(x, a.id, k, a.prefix[k])
      BY <3>1, Ancestors DEF IInv
    <3>3. \A k \in Kinds : items'[x][k] = items[x][k] /\ items'[a.id][k] = items[a.id][k]
      BY <1>9, <3>2
    <3>4. \A k \in Kinds : Related(x, a.id, k, a.prefix[k])
      BY <3>2, <3>3 DEF Agree, Count
    <3>5. lineage'[a.id] = lineage[a.id]
      BY <1>2, <3>2
    <3> HIDE DEF Related
    <3> QED BY <3>1, <3>2, <3>4, <3>5
  <2>2. ASSUME NEW i \in DOMAIN t
        PROVE  /\ Len(lineage'[t[i].id]) = Len(t) - i
               /\ \A k \in Kinds : Related(n, t[i].id, k, t[i].prefix[k])
    <3>1. CASE i = 1
      <4>1. t[i].id = m /\ t[i].prefix = Prefix(m)
        BY <1>3, <1>7, <3>1
      <4>2. Len(lineage'[m]) = Len(t) - 1
        BY <1>2, <1>3, <1>7
      <4>3. ASSUME NEW k \in Kinds PROVE Related(n, m, k, Prefix(m)[k])
        <5>1. items'[n][k] = items[m][k] /\ items'[m][k] = items[m][k]
          BY <1>2
        <5>2. Prefix(m)[k] = Len(items[m][k]) /\ Len(items[m][k]) \in Nat
          BY Registries DEF Prefix, IInv
        <5> QED BY <5>1, <5>2
      <4> HIDE DEF Related
      <4> QED BY <3>1, <4>1, <4>2, <4>3
    <3>2. CASE i # 1
      <4>1. i \in 2 .. Len(t) /\ i \in Nat
        BY <1>7, <3>2
      <4>2. PICK j, a : j \in DOMAIN lineage[m] /\ j = i - 1 /\ a = lineage[m][j] /\ t[i] = a
        BY <1>3, <1>7, <4>1
      <4>3. Len(lineage'[a.id]) = Len(lineage[m]) - j /\ \A k \in Kinds : Related(m, a.id, k, a.prefix[k])
        BY <2>1, <4>2
      <4>4. Len(t) - i = Len(lineage[m]) - j
        BY <1>3, <1>7, <4>1, <4>2
      <4>5. \A k \in Kinds : items'[n][k] = items'[m][k]
        BY <1>2
      <4>6. \A k \in Kinds : Related(n, a.id, k, a.prefix[k])
        BY <4>3, <4>5
      <4> HIDE DEF Related
      <4> QED BY <4>2, <4>3, <4>4, <4>6
    <3> QED BY <3>1, <3>2
  <2>3. \A x \in Live' : x = n \/ (x \in Live /\ lineage'[x] = lineage[x])
    BY <1>2
  <2>4. ASSUME NEW x \in Live', NEW i \in DOMAIN lineage'[x]
        PROVE  /\ Len(lineage'[lineage'[x][i].id]) = Len(lineage'[x]) - i
               /\ \A k \in Kinds : Related(x, lineage'[x][i].id, k, lineage'[x][i].prefix[k])
    <3> HIDE DEF Related
    <3>1. CASE x = n
      BY <1>3, <2>2, <3>1
    <3>2. CASE x \in Live /\ lineage'[x] = lineage[x]
      BY <2>1, <3>2
    <3> QED BY <2>3, <3>1, <3>2
  <2> QED BY <2>4 DEF LineageInv, Agree, Count
<1>11. PlanInv'
  BY <1>2, PlanKept DEF IInv, Fork
<1>12. CacheInv'
  <2>1. CASE cache = Unset
    BY <2>1 DEF CacheInv, Fork
  <2>2. CASE cache # Unset
    <3>1. PICK x, b, c, p :
             /\ x \in Live /\ b \in Nat /\ c \in Sizes
             /\ cache = Some([key |-> [model |-> x, reports |-> b, prefix |-> c], plan |-> p])
             /\ \A k \in Planned : c[k] <= Count(x, k)
             /\ (\A k \in Planned : c[k] = Count(x, k)) => p = SourcePlan(x)
      BY <2>2 DEF CacheInv, IInv
    <3>2. \A k \in Planned : Count(x, k)' = Count(x, k) /\ items'[x][k] = items[x][k]
      BY <1>9, <3>1 DEF Planned
    <3>3. SourcePlan(x)' = SourcePlan(x)
      BY <3>2, SamePlan
    <3>4. x \in Live /\ x \in Live' /\ b \in Nat /\ c \in Sizes /\ cache' = cache
      BY <1>2, <3>1 DEF Fork
    <3>5. PICK q : q = SourcePlan(x) /\ q = SourcePlan(x)'
      BY <3>3
    <3>6. /\ \A k \in Planned : c[k] <= Count(x, k)'
          /\ (\A k \in Planned : c[k] = Count(x, k)') => p = q
      BY <3>1, <3>2, <3>5
    <3>7. cache' = Some([key |-> [model |-> x, reports |-> b, prefix |-> c], plan |-> p])
      BY <3>1, <3>4
    <3> QED BY <3>4, <3>5, <3>6, <3>7 DEF CacheInv
  <2> QED BY <2>1, <2>2
<1> QED BY <1>8, <1>10, <1>11, <1>12 DEF IInv

LEMMA CaptureKeeps ==
  ASSUME IInv, NEW m \in Live, NEW retained \in SUBSET Nat, Capture(m, retained)
  PROVE  IInv'
<1>1. PICK v, w, c, ps : v = Count(m, "variable") /\ w = Count(m, "row") /\ c = Count(m, "cone") /\ ps = items[m]["parameter"]
  OBVIOUS
<1>2. v \in Nat /\ w \in Nat /\ c \in Nat /\ ps \in Seq(Declarations)
  BY <1>1, Registries DEF Kinds, IInv
<1>3. PICK p : p = [CapturedPlan(m) EXCEPT !.retained = retained]
  OBVIOUS
<1>4. p = [source |-> m, variables |-> Upto(v), rows |-> Upto(w), cones |-> c, retained |-> retained, parameters |-> ps]
  BY <1>1, <1>3 DEF CapturedPlan
<1>5. PrefixPlan(p)
  BY <1>2, <1>4 DEF PrefixPlan
<1>6. plan' = Some(p) /\ items' = items /\ lineage' = lineage /\ reports' = reports /\ cache' = cache
  BY <1>3 DEF Capture
<1>7. items' \in Registered /\ Grows
  BY <1>6, SameGrows DEF IInv
<1>8. TypeInv' /\ Live' = Live
  BY <1>6, <1>7, TypeKept DEF IInv, TypeInv
<1>9. LineageInv'
  BY <1>6, <1>7, LineageKept DEF IInv
<1>10. CacheInv'
  BY <1>6, <1>7, <1>8, CacheKept DEF IInv
<1>11. PlanInv'
  BY <1>5, <1>6, <1>8 DEF PlanInv, PrefixPlan
<1> QED BY <1>8, <1>9, <1>10, <1>11 DEF IInv

\* The plan the wrapper solves with.
KeptPlan(m) ==
  IF cache # Unset /\ cache[1].key = SourceKey(m) THEN cache[1]
  ELSE [key |-> SourceKey(m), plan |-> SourcePlan(m)]

\* It is the plan of the model as it stands, whether it was kept or is made now.
LEMMA KeptIsCurrent ==
  ASSUME IInv, NEW m \in Live
  PROVE  KeptPlan(m) = [key |-> SourceKey(m), plan |-> SourcePlan(m)]
<1>1. CASE ~(cache # Unset /\ cache[1].key = SourceKey(m))
  BY <1>1 DEF KeptPlan
<1>2. CASE cache # Unset /\ cache[1].key = SourceKey(m)
  <2>1. PICK x, b, c, p, key :
           /\ x \in Live /\ b \in Nat /\ c \in Sizes
           /\ key = [model |-> x, reports |-> b, prefix |-> c]
           /\ cache = Some([key |-> key, plan |-> p])
           /\ (\A k \in Planned : c[k] = Count(x, k)) => p = SourcePlan(x)
    BY <1>2 DEF IInv, CacheInv
  <2>2. cache[1] = [key |-> key, plan |-> p] /\ cache[1].key = key
    BY <2>1 DEF Some
  <2>3. key = [model |-> m, reports |-> reports[m], prefix |-> [Prefix(m) EXCEPT !["sos"] = 0]]
    BY <1>2, <2>2 DEF SourceKey
  <2>4. x = m /\ c = [Prefix(m) EXCEPT !["sos"] = 0]
    <3>1. key.model = x /\ key.prefix = c
      BY <2>1
    <3>2. key.model = m /\ key.prefix = [Prefix(m) EXCEPT !["sos"] = 0]
      BY <2>3
    <3> QED BY <3>1, <3>2
  <2>5. \A k \in Planned : c[k] = Count(m, k)
    BY <2>4 DEF Planned, Prefix
  <2>6. p = SourcePlan(m)
    BY <2>1, <2>4, <2>5
  <2> QED BY <1>2, <2>2, <2>6 DEF KeptPlan
<1> QED BY <1>1, <1>2

LEMMA GdpSolveKeeps ==
  ASSUME IInv, NEW m \in Live, NEW late \in BOOLEAN, GdpSolve(m, late)
  PROVE  IInv' /\ Grows /\ items' \in Registered
<1>1. items' \in Registered /\ Grows
  <2>1. CASE late
    <3>1. items' = Grown(m, "variable", FALSE, FALSE)
      BY <2>1 DEF GdpSolve
    <3> QED BY <3>1, DeclaredGrows DEF IInv, Kinds
  <2>2. CASE ~late
    <3>1. items' = items
      BY <2>2 DEF GdpSolve
    <3> QED BY <3>1, SameGrows DEF IInv
  <2> QED BY <2>1, <2>2
<1>2. lineage' = lineage /\ reports' = reports /\ plan' = plan
  BY DEF GdpSolve
<1>3. TypeInv' /\ Live' = Live
  BY <1>1, <1>2, TypeKept DEF IInv, TypeInv
<1>4. LineageInv' /\ PlanInv'
  BY <1>1, <1>2, <1>3, LineageKept, PlanKept DEF IInv
<1>5. CacheInv'
  <2>1. PICK n, c, p : n = reports[m] /\ c = [Prefix(m) EXCEPT !["sos"] = 0] /\ p = SourcePlan(m)
    OBVIOUS
  <2>2. n \in Nat
    BY <2>1 DEF IInv, TypeInv
  <2>3. Prefix(m) \in Sizes
    BY Registries DEF Prefix, Sizes, IInv
  <2>4. c \in Sizes
    BY <2>1, <2>3 DEF Sizes
  <2>5. \A k \in Planned : c[k] = Count(m, k) /\ Count(m, k) \in Nat
    BY <2>1, Registries DEF Planned, Prefix, IInv
  <2>6. cache' = Some(KeptPlan(m))
    BY DEF GdpSolve, KeptPlan
  <2>7. cache' = Some([key |-> [model |-> m, reports |-> n, prefix |-> c], plan |-> p])
    BY <2>1, <2>6, KeptIsCurrent DEF SourceKey
  <2>8. \A k \in Planned : c[k] <= Count(m, k)
    BY <2>5
  <2> QED BY <1>1, <1>3, <2>1, <2>2, <2>4, <2>7, <2>8, CacheAfter DEF IInv
<1> QED BY <1>1, <1>3, <1>4, <1>5 DEF IInv

LEMMA NextKeeps == ASSUME IInv, [Next]_vars PROVE IInv'
<1>1. CASE UNCHANGED vars
  <2>1. items' = items /\ lineage' = lineage /\ reports' = reports /\ plan' = plan /\ cache' = cache
    BY <1>1 DEF vars
  <2> QED BY <2>1, SameGrows, GrowthKeeps DEF IInv, TypeInv
<1>2. ASSUME NEW m \in Live, NEW k \in Kinds, NEW alt \in BOOLEAN, Declare(m, k, alt) PROVE IInv'
  <2>1. items' = Grown(m, k, FALSE, alt) /\ lineage' = lineage /\ reports' = reports /\ plan' = plan /\ cache' = cache
    BY <1>2 DEF Declare
  <2>2. items' \in Registered /\ Grows
    BY <2>1, DeclaredGrows DEF IInv
  <2> QED BY <2>1, <2>2, GrowthKeeps DEF IInv, TypeInv
<1>3. ASSUME NEW m \in Live, NEW spoken \in BOOLEAN, Reformulate(m, spoken) PROVE IInv'
  <2>1. PICK d, e : d = Item(m, "variable", TRUE, spoken) /\ e = Item(m, "row", TRUE, FALSE)
    OBVIOUS
  <2>2. d \in Declarations /\ e \in Declarations
    BY <2>1, ItemIs DEF IInv, Kinds
  <2>3. items' = Appended(Appended(items, m, "variable", d), m, "row", e)
    <3>1. items' = [items EXCEPT ![m]["variable"] = Append(@, d), ![m]["row"] = Append(@, e)]
      BY <1>3, <2>1 DEF Reformulate
    <3> QED BY <3>1 DEF Appended
  <2>4. items' \in Registered /\ Grows
    BY <2>2, <2>3, ReformulatedGrows DEF IInv
  <2>5. reports' \in [Live -> Nat]
    BY <1>3 DEF Reformulate, IInv, TypeInv
  <2>6. lineage' = lineage /\ plan' = plan /\ cache' = cache
    BY <1>3 DEF Reformulate
  <2> QED BY <2>4, <2>5, <2>6, GrowthKeeps
<1>4. ASSUME NEW m \in Live, NEW n \in Live, Capture(m, {}) \/ Capture(m, Generated(n, "variable")) PROVE IInv'
  <2>1. {} \in SUBSET Nat /\ Generated(n, "variable") \in SUBSET Nat
    <3>1. Count(n, "variable") \in Nat
      BY Registries DEF IInv, Kinds
    <3> QED BY <3>1 DEF Generated, Indices
  <2> QED BY <1>4, <2>1, CaptureKeeps
<1>5. ASSUME NEW s \in Live, NEW n \in Live, NEW again \in BOOLEAN, ProjectResult(s, n, again) PROVE IInv'
  <2>1. items' = items /\ lineage' = lineage /\ reports' = reports /\ plan' = plan /\ cache' = cache
    BY <1>5 DEF ProjectResult
  <2> QED BY <2>1, SameGrows, GrowthKeeps DEF IInv, TypeInv
<1>6. ASSUME Next PROVE IInv'
  <2>1. \/ \E m \in Live, k \in Kinds, alt \in BOOLEAN : Declare(m, k, alt)
        \/ \E m \in Live, n \in Models : Fork(m, n)
        \/ \E m \in Live, spoken \in BOOLEAN : Reformulate(m, spoken)
        \/ \E m, n \in Live : Capture(m, {}) \/ Capture(m, Generated(n, "variable"))
        \/ \E m \in Live, late \in BOOLEAN : GdpSolve(m, late)
        \/ \E s, n \in Live, again \in BOOLEAN : ProjectResult(s, n, again)
    BY <1>6 DEF Next
  <2> QED BY <2>1, <1>2, <1>3, <1>4, <1>5, ForkKeeps, GdpSolveKeeps
<1> QED BY <1>1, <1>6

-----------------------------------------------------------------------------
(* What a backend returns                                                  *)

Full(n, k) == [i \in Indices(Count(n, k)) |-> items[n][k][i + 1]]

\* The values of f are those of model n, where there are any.
Answered(f, n, k) ==
  \A i \in DOMAIN f : i \in Indices(Count(n, k)) /\ (f[i] = NaN \/ f[i] = items[n][k][i + 1])

PointOf(p, n) ==
  /\ p.parameters = <<>> \/ p.parameters = items[n]["parameter"]
  /\ Answered(p.primal, n, "variable")

ResultOf(n, points, t, st, bb) ==
  [model |-> n, parameters |-> items[n]["parameter"], points |-> points,
   termination |-> t, primal_status |-> st, dual_status |-> "FeasiblePoint",
   dual |-> Full(n, "row"), soc_dual |-> Full(n, "cone"), reduced_costs |-> Full(n, "variable"),
   semantic_dual |-> <<>>, best_bound |-> bb, gap |-> Some(0)]

LEMMA FullSubSeq ==
  ASSUME NEW D, NEW s \in Seq(D)
  PROVE  SubSeq(s, 1, Len(s)) = s
<1>1. PICK t : t = SubSeq(s, 1, Len(s))
  OBVIOUS
<1>2. t \in Seq(D) /\ Len(t) = Len(s) /\ \A i \in 1 .. Len(s) : t[i] = s[i]
  BY <1>1
<1> QED BY <1>1, <1>2, SeqEqual

LEMMA AnswersAre ==
  ASSUME TypeInv, NEW n \in Live, NEW k \in Kinds, NEW without, NEW nan
  PROVE  /\ Answers(n, k, Prefix(n), {}, {}) = Full(n, k)
         /\ Answered(Answers(n, k, Prefix(n), without, nan), n, k)
<1>1. Prefix(n)[k] = Count(n, k)
  BY DEF Prefix
<1> QED BY <1>1 DEF Answers, Full, Answered

LEMMA ShapeIs ==
  ASSUME TypeInv, NEW n \in Live, NEW r \in Shapes(n, Prefix(n))
  PROVE  \E p1, p2, t, st, bb :
           /\ r = ResultOf(n, <<p1, p2>>, t, st, bb)
           /\ PointOf(p1, n) /\ PointOf(p2, n) /\ p1.rank = 1
           /\ p2.primal = Full(n, "variable")
<1>1. PICK size : size = Prefix(n)
  OBVIOUS
<1>2. PICK i \in Indices(size["variable"]) \cup {-1}, bare \in BOOLEAN, end \in {"optimal", "proved", "stopped"} :
        r = Shape(n, size, i, bare, end)
  BY <1>1 DEF Shapes
<1>3. PICK without, nan, p1, p2, bb, optimal, t, st :
        /\ p1 = Point(n, size, without, nan, bare, 1) /\ p2 = Point(n, size, {}, {}, bare, 2)
        /\ r = Result(n, size, <<p1, p2>>, optimal, bb)
        /\ t = (IF optimal THEN "Optimal" ELSE "TimeLimit")
        /\ st = (IF optimal THEN "OptimalPoint" ELSE "FeasiblePoint")
  BY <1>2 DEF Shape
<1>4. size["parameter"] = Len(items[n]["parameter"])
  BY <1>1 DEF Prefix, Count, Kinds
<1>5. SubSeq(items[n]["parameter"], 1, size["parameter"]) = items[n]["parameter"]
  <2>1. items[n]["parameter"] \in Seq(Declarations)
    BY Registries DEF Kinds
  <2> QED BY <1>4, <2>1, FullSubSeq
<1>6. r = ResultOf(n, <<p1, p2>>, t, st, bb)
  <2>1. /\ Answers(n, "row", size, {}, {}) = Full(n, "row")
        /\ Answers(n, "cone", size, {}, {}) = Full(n, "cone")
        /\ Answers(n, "variable", size, {}, {}) = Full(n, "variable")
    BY <1>1, AnswersAre DEF Kinds
  <2> QED BY <1>3, <1>5, <2>1 DEF Result, ResultOf
<1>7. ASSUME NEW w, NEW a, NEW rank, NEW p, p = Point(n, size, w, a, bare, rank)
      PROVE  PointOf(p, n) /\ p.rank = rank /\ p.primal = Answers(n, "variable", size, w, a)
  <2>1. p.rank = rank /\ p.primal = Answers(n, "variable", size, w, a)
        /\ p.parameters = IF bare THEN <<>> ELSE items[n]["parameter"]
    BY <1>5, <1>7 DEF Point
  <2>2. Answered(p.primal, n, "variable")
    BY <1>1, <2>1, AnswersAre DEF Kinds
  <2> QED BY <2>1, <2>2 DEF PointOf
<1>8. PointOf(p1, n) /\ p1.rank = 1 /\ PointOf(p2, n) /\ p2.primal = Answers(n, "variable", size, {}, {})
  BY <1>3, <1>7
<1>9. p2.primal = Full(n, "variable")
  BY <1>1, <1>8, AnswersAre DEF Kinds
<1> QED BY <1>6, <1>8, <1>9

-----------------------------------------------------------------------------
(* What a projection makes of it                                           *)

LEMMA RestoreIs ==
  Restore(Unset) = Unset
BY DEF Restore

\* The result as the source's, before its points and duals are normalized.
Rebound(s, n, pl, r) ==
  [r EXCEPT !.model = s, !.best_bound = Restore(@),
            !.parameters = SubSeq(@, 1, Min({ParameterCount(s, n, pl), Len(@)}))]

Before(s, q, points, t, st, d, sd, rc, bb) ==
  [model |-> s, parameters |-> q, points |-> points, termination |-> t, primal_status |-> st,
   dual_status |-> "FeasiblePoint", dual |-> d, soc_dual |-> sd, reduced_costs |-> rc,
   semantic_dual |-> <<>>, best_bound |-> bb, gap |-> Some(0)]

\* The parameters of n that s has too.
Taken(s, n, pl) == SubSeq(items[n]["parameter"], 1, Min({ParameterCount(s, n, pl), Len(items[n]["parameter"])}))

LEMMA ReboundIs ==
  ASSUME NEW s, NEW n, NEW pl, NEW points, NEW t, NEW st, NEW bb, NEW r, r = ResultOf(n, points, t, st, bb)
  PROVE  Rebound(s, n, pl, r) = Before(s, Taken(s, n, pl), points, t, st, Full(n, "row"), Full(n, "cone"),
                                       Full(n, "variable"), Restore(bb))
<1> DEFINE q == Taken(s, n, pl)
<1>1. r.parameters = items[n]["parameter"] /\ r.best_bound = bb
  BY DEF ResultOf
<1>2. Rebound(s, n, pl, r) = [r EXCEPT !.model = s, !.best_bound = Restore(bb), !.parameters = q]
  BY <1>1 DEF Rebound, Taken
<1> HIDE DEF q
<1>3. Rebound(s, n, pl, r) = Before(s, q, points, t, st, Full(n, "row"), Full(n, "cone"), Full(n, "variable"), Restore(bb))
  BY <1>2 DEF ResultOf, Before
<1> QED BY <1>3 DEF q

Lost(points, pl) == points # <<>> /\ ~Complete(points[1], pl)

Normals(sound, r, pl, again) == [i \in DOMAIN sound |-> NormalPoint(sound[i], r, pl, again)]

\* Multipliers that are not given out.
Unpriced(ids) == [i \in ids |-> Unset]

\* A result once it is normalized.
Normal(out, s, q, points, kept, d, sd, rc, bb, alternatives, pl) ==
  /\ out.model = s /\ out.parameters = q /\ out.points = kept
  /\ out.dual = IF Lost(points, pl) THEN <<>> ELSE Kept(d, pl.rows.ids)
  /\ out.soc_dual = IF Lost(points, pl) THEN <<>> ELSE Kept(sd, Indices(pl.cones))
  /\ out.reduced_costs = IF Lost(points, pl) THEN <<>> ELSE Kept(rc, pl.variables.ids)
  /\ out.semantic_dual = Unpriced(alternatives \cap pl.rows.ids)
  /\ Lost(points, pl) => out.primal_status # "OptimalPoint" /\ out.gap = Unset /\ out.best_bound = bb
  /\ out.best_bound = bb \/ (bb = Unset /\ out.best_bound = kept[1].objective)

LEMMA NormalizedIs ==
  ASSUME NEW s, NEW q, NEW points, NEW t, NEW st, NEW d, NEW sd, NEW rc, NEW bb,
         NEW r, r = Before(s, q, points, t, st, d, sd, rc, bb),
         NEW pl, NEW alternatives, NEW again,
         NEW out, out = Normalized(r, pl, alternatives, again),
         NEW sound, sound = Survivors(points, pl),
         NEW kept, kept = Normals(sound, r, pl, again)
  PROVE  Normal(out, s, q, points, kept, d, sd, rc, bb, alternatives, pl)
<1>1. r.points = points /\ r.model = s /\ r.parameters = q /\ r.dual_status = "FeasiblePoint"
      /\ r.dual = d /\ r.soc_dual = sd /\ r.reduced_costs = rc /\ r.best_bound = bb /\ r.gap = Some(0)
  BY DEF Before
<1> DEFINE lost == r.points # <<>> /\ ~Complete(r.points[1], pl)
           duals == r.dual_status = "FeasiblePoint" /\ ~lost
           status == IF kept = <<>> THEN "NoSolution"
                     ELSE IF r.termination = "Optimal" /\ ~lost /\ r.primal_status # "FeasiblePoint"
                     THEN "OptimalPoint" ELSE "FeasiblePoint"
           x1 == IF lost THEN "Unknown" ELSE r.dual_status
           x2 == IF duals THEN Kept(r.dual, pl.rows.ids) ELSE <<>>
           x3 == IF duals THEN Kept(r.soc_dual, Indices(pl.cones)) ELSE <<>>
           x4 == IF duals THEN Kept(r.reduced_costs, pl.variables.ids) ELSE <<>>
           x5 == Unpriced(alternatives \cap pl.rows.ids)
           x6 == IF status = "OptimalPoint" /\ r.best_bound = Unset THEN kept[1].objective ELSE r.best_bound
           x7 == IF lost \/ status = "NoSolution" THEN Unset ELSE r.gap
<1>2. sound = Survivors(r.points, pl)
  BY <1>1
<1>4. out = [r EXCEPT !.points = kept, !.primal_status = status, !.dual_status = x1, !.dual = x2, !.soc_dual = x3,
                      !.reduced_costs = x4, !.semantic_dual = x5, !.best_bound = x6, !.gap = x7]
  BY <1>2 DEF Normalized, Normals, Unpriced
<1>8. /\ lost <=> Lost(points, pl)
      /\ duals <=> ~Lost(points, pl)
  BY <1>1 DEF Lost
<1>9. /\ x2 = (IF Lost(points, pl) THEN <<>> ELSE Kept(d, pl.rows.ids))
      /\ x3 = (IF Lost(points, pl) THEN <<>> ELSE Kept(sd, Indices(pl.cones)))
      /\ x4 = (IF Lost(points, pl) THEN <<>> ELSE Kept(rc, pl.variables.ids))
      /\ x5 = Unpriced(alternatives \cap pl.rows.ids)
      /\ x6 = (IF status = "OptimalPoint" /\ bb = Unset THEN kept[1].objective ELSE bb)
      /\ x7 = (IF Lost(points, pl) \/ status = "NoSolution" THEN Unset ELSE Some(0))
  <2> HIDE DEF lost, duals, status
  <2> QED BY <1>1, <1>8
<1>7. Lost(points, pl) => status # "OptimalPoint"
  <2> HIDE DEF lost
  <2> QED BY <1>8
<1> HIDE DEF lost, duals, status, x1, x2, x3, x4, x5, x6, x7
<1>5. out = [model |-> s, parameters |-> q, points |-> kept, termination |-> t, primal_status |-> status,
             dual_status |-> x1, dual |-> x2, soc_dual |-> x3, reduced_costs |-> x4,
             semantic_dual |-> x5, best_bound |-> x6, gap |-> x7]
  BY <1>4 DEF Before
<1>6. /\ out.model = s /\ out.parameters = q /\ out.points = kept /\ out.primal_status = status
      /\ out.dual = x2 /\ out.soc_dual = x3 /\ out.reduced_costs = x4 /\ out.semantic_dual = x5
      /\ out.best_bound = x6 /\ out.gap = x7
  BY <1>5
<1> QED BY <1>6, <1>7, <1>9 DEF Normal

\* What is kept of f at the coordinates ids.
LEMMA KeptIs ==
  ASSUME NEW f, NEW ids
  PROVE  /\ DOMAIN Kept(f, ids) = {i \in (DOMAIN f) \cap ids : IsFinite(f[i])}
         /\ \A i \in DOMAIN Kept(f, ids) : Kept(f, ids)[i] = f[i]
BY DEF Kept, Restrict

\* The values of f that are read at coordinates of s are those of its declarations.
Reads(f, s, n, k) ==
  \A i \in DOMAIN f : /\ i \in Nat /\ (s = n => i < Count(s, k))
                      /\ i < Count(s, k) => f[i] = items[s][k][i + 1]

LEMMA KeptReads ==
  ASSUME TypeInv, NEW s \in Live, NEW n \in Live, NEW k \in Kinds, NEW f, NEW ids, Answered(f, n, k),
         s # n => \E c \in Nat : Agree(n, s, k, c) /\ \A i \in ids : i < c \/ ~(i < Count(s, k))
  PROVE  Reads(Kept(f, ids), s, n, k)
<1>1. PICK g : g = Kept(f, ids)
  OBVIOUS
<1>2. ASSUME NEW i \in DOMAIN g
      PROVE  i \in Nat /\ (s = n => i < Count(s, k)) /\ (i < Count(s, k) => g[i] = items[s][k][i + 1])
  <2>1. i \in DOMAIN f /\ i \in ids /\ f[i] # NaN /\ g[i] = f[i]
    <3>1. DOMAIN g = {j \in (DOMAIN f) \cap ids : IsFinite(f[j])} /\ \A j \in DOMAIN g : g[j] = f[j]
      BY <1>1, KeptIs
    <3>2. i \in DOMAIN f /\ i \in ids /\ IsFinite(f[i])
      BY <3>1
    <3> QED BY <3>1, <3>2 DEF IsFinite
  <2>2. i \in Indices(Count(n, k)) /\ f[i] = items[n][k][i + 1]
    BY <2>1 DEF Answered
  <2>3. Count(n, k) \in Nat /\ Count(s, k) \in Nat
    BY Registries
  <2>4. i \in Nat /\ i < Count(n, k)
    BY <2>2, <2>3 DEF Indices
  <2>5. CASE s = n
    BY <2>1, <2>2, <2>4, <2>5
  <2>6. CASE s # n
    <3>1. PICK c \in Nat : Agree(n, s, k, c) /\ \A j \in ids : j < c \/ ~(j < Count(s, k))
      BY <2>6
    <3>2. i < Count(s, k) => i + 1 \in 1 .. c
      BY <2>1, <2>4, <3>1
    <3> QED BY <2>1, <2>2, <2>4, <2>6, <3>1, <3>2 DEF Agree
  <2> QED BY <2>5, <2>6
<1> QED BY <1>1, <1>2 DEF Reads

-----------------------------------------------------------------------------
(* What a projection returns                                               *)

\* A result of model n with two points, the first of them the incumbent.
Solved(r, n, p1, p2, t, st, bb) ==
  /\ r = ResultOf(n, <<p1, p2>>, t, st, bb)
  /\ PointOf(p1, n) /\ PointOf(p2, n) /\ p1.rank = 1 /\ p2.primal = Full(n, "variable")

\* The points that survive.
Surviving(points, sound, p1, p2, s, q, pl) ==
  /\ Len(points) = Len(sound) /\ Len(sound) \in Nat /\ DOMAIN points = 1 .. Len(sound)
  /\ \A i \in 1 .. Len(sound) :
       /\ sound[i] \in {p1, p2} /\ Complete(sound[i], pl)
       /\ points[i].rank = sound[i].rank
       /\ points[i].primal = Kept(sound[i].primal, pl.variables.ids \cup pl.retained)
       /\ points[i].parameters = q
            \/ (points[i].parameters = sound[i].parameters /\ ~(Len(sound[i].parameters) > Len(q)))
  /\ Complete(p1, pl) => Len(sound) >= 1 /\ sound[1] = p1
  /\ Complete(p2, pl) => Len(sound) >= 1

\* What the result says once it is the source's.
Said(out, lost, s, n, q, pl, bb) ==
  /\ out.model = s /\ out.parameters = q
  /\ out.dual = IF lost THEN <<>> ELSE Kept(Full(n, "row"), pl.rows.ids)
  /\ out.soc_dual = IF lost THEN <<>> ELSE Kept(Full(n, "cone"), Indices(pl.cones))
  /\ out.reduced_costs = IF lost THEN <<>> ELSE Kept(Full(n, "variable"), pl.variables.ids)
  /\ out.semantic_dual = Unpriced(Alternatives(s) \cap pl.rows.ids)
  /\ lost => out.primal_status # "OptimalPoint" /\ out.gap = Unset /\ out.best_bound = Restore(bb)
  /\ out.best_bound = Restore(bb) \/ (Restore(bb) = Unset /\ out.best_bound = out.points[1].objective)

LEMMA TwoPoints ==
  ASSUME NEW p1, NEW p2
  PROVE  /\ <<p1, p2>> \in Seq({p1, p2}) /\ Len(<<p1, p2>>) = 2 /\ <<p1, p2>> # <<>>
         /\ <<p1, p2>>[1] = p1 /\ <<p1, p2>>[2] = p2
OBVIOUS

LEMMA Elements ==
  ASSUME NEW D, NEW x \in Seq(D)
  PROVE  Len(x) \in Nat /\ DOMAIN x = 1 .. Len(x) /\ \A i \in 1 .. Len(x) : x[i] \in D
OBVIOUS

\* The points x are the survivors, one by one.
EachNormal(x, sound, r, pl, again) ==
  /\ Len(x) = Len(sound) /\ DOMAIN x = 1 .. Len(sound)
  /\ \A i \in 1 .. Len(sound) : x[i] = NormalPoint(sound[i], r, pl, again)

LEMMA NormalsAre ==
  ASSUME NEW D, NEW sound \in Seq(D), NEW r, NEW pl, NEW again
  PROVE  EachNormal(Normals(sound, r, pl, again), sound, r, pl, again)
<1>1. PICK x, n, P : /\ x = Normals(sound, r, pl, again) /\ n = Len(sound)
                     /\ P = {NormalPoint(sound[i], r, pl, again) : i \in 1 .. Len(sound)}
  OBVIOUS
<1>2. n \in Nat /\ DOMAIN sound = 1 .. n
  BY <1>1
<1>3. x = [i \in 1 .. n |-> NormalPoint(sound[i], r, pl, again)]
  BY <1>1, <1>2 DEF Normals
<1>4. x \in [1 .. n -> P]
  BY <1>1, <1>3
<1>5. x \in Seq(P)
  BY <1>2, <1>4
<1>6. Len(x) = n
  BY <1>2, <1>4, <1>5
<1>7. DOMAIN x = 1 .. n /\ \A i \in 1 .. n : x[i] = NormalPoint(sound[i], r, pl, again)
  BY <1>3
<1> QED BY <1>1, <1>6, <1>7 DEF EachNormal

LEMMA SurvivingPoints ==
  ASSUME NEW p1, NEW p2, NEW s, NEW q, NEW pl, NEW again, NEW rb, rb.model = s, rb.parameters = q,
         NEW sound, sound = Survivors(<<p1, p2>>, pl),
         NEW points, points = Normals(sound, rb, pl, again)
  PROVE  Surviving(points, sound, p1, p2, s, q, pl)
<1>1. PICK two, R : two = <<p1, p2>> /\ R = {p1, p2}
  OBVIOUS
<1>2. two \in Seq(R) /\ Len(two) = 2 /\ two[1] = p1 /\ two[2] = p2
  BY <1>1, TwoPoints
<1>3. sound = Survivors(two, pl)
  BY <1>1
<1>4. PICK D : D = Whole(R, two, pl)
  OBVIOUS
<1>5. /\ sound \in Seq(D)
      /\ Len(two) >= 1 /\ Complete(two[1], pl) => Len(sound) >= 1 /\ sound[1] = two[1]
      /\ \A j \in 1 .. Len(two) : Complete(two[j], pl) => Len(sound) >= 1
  BY <1>2, <1>3, <1>4, SurvivorsAre
<1>6. Len(sound) \in Nat /\ DOMAIN sound = 1 .. Len(sound) /\ \A i \in 1 .. Len(sound) : sound[i] \in D
  BY <1>5, Elements
<1>7. \A p \in D : p \in {p1, p2} /\ Complete(p, pl)
  BY <1>1, <1>4 DEF Whole
<1>8. EachNormal(points, sound, rb, pl, again)
  BY <1>5, NormalsAre
<1>9. /\ Len(points) = Len(sound) /\ DOMAIN points = 1 .. Len(sound)
      /\ \A i \in 1 .. Len(sound) : points[i] = NormalPoint(sound[i], rb, pl, again)
  BY <1>8 DEF EachNormal
<1>10. ASSUME NEW p
       PROVE  LET x == NormalPoint(p, rb, pl, again)
              IN  /\ x.rank = p.rank /\ x.primal = Kept(p.primal, pl.variables.ids \cup pl.retained)
                  /\ x.parameters = q \/ (x.parameters = p.parameters /\ ~(Len(p.parameters) > Len(q)))
  BY DEF NormalPoint
<1>11. ASSUME NEW i \in 1 .. Len(sound)
       PROVE  /\ sound[i] \in {p1, p2} /\ Complete(sound[i], pl)
              /\ points[i].rank = sound[i].rank
              /\ points[i].primal = Kept(sound[i].primal, pl.variables.ids \cup pl.retained)
              /\ points[i].parameters = q
                   \/ (points[i].parameters = sound[i].parameters /\ ~(Len(sound[i].parameters) > Len(q)))
  BY <1>6, <1>7, <1>9, <1>10
<1>12. Complete(p1, pl) => Len(sound) >= 1 /\ sound[1] = p1
  BY <1>2, <1>5
<1>13. Complete(p2, pl) => Len(sound) >= 1
  BY <1>2, <1>5
<1> QED BY <1>6, <1>9, <1>11, <1>12, <1>13 DEF Surviving

LEMMA ProjectedIs ==
  ASSUME TypeInv, NEW s \in Live, NEW n \in Live, NEW r \in Shapes(n, Prefix(n)), NEW pl, NEW again,
         NEW o, o = Project(s, n, pl, r, again), o.ok
  PROVE  /\ o.source = s /\ o.plan = pl /\ o.answer = r /\ Valid(s, n, pl, r)
         /\ \E p1, p2, t, st, bb, sound :
              /\ Solved(r, n, p1, p2, t, st, bb)
              /\ Surviving(o.result.points, sound, p1, p2, s, Taken(s, n, pl), pl)
              /\ Said(o.result, ~Complete(p1, pl), s, n, Taken(s, n, pl), pl, bb)
<1>1. PICK p1, p2, t, st, bb : Solved(r, n, p1, p2, t, st, bb)
  BY ShapeIs DEF Solved
<1>2. PICK rb, out : rb = Rebound(s, n, pl, r) /\ out = Normalized(rb, pl, Alternatives(s), again)
  OBVIOUS
<1>3. /\ Valid(s, n, pl, r)
      /\ o = [ok |-> TRUE, source |-> s, native |-> n, wrapped |-> FALSE, plan |-> pl, answer |-> r, result |-> out]
  <2>1. o = IF Valid(s, n, pl, r)
            THEN [ok |-> TRUE, source |-> s, native |-> n, wrapped |-> FALSE, plan |-> pl, answer |-> r, result |-> out]
            ELSE [ok |-> FALSE, source |-> s, native |-> n, wrapped |-> FALSE, plan |-> pl, answer |-> r]
    BY <1>2 DEF Project, Rebound
  <2> QED BY <2>1
<1>4. PICK q, points, sound : /\ q = Taken(s, n, pl) /\ points = <<p1, p2>> /\ sound = Survivors(points, pl)
  OBVIOUS
<1>5. rb = Before(s, q, points, t, st, Full(n, "row"), Full(n, "cone"), Full(n, "variable"), Restore(bb))
  <2>1. r = ResultOf(n, points, t, st, bb)
    BY <1>1, <1>4 DEF Solved
  <2> QED BY <1>2, <1>4, <2>1, ReboundIs
<1>6. PICK kept : kept = Normals(sound, rb, pl, again)
  OBVIOUS
<1>7. PICK d, sd, rc, bound, alternatives :
        /\ d = Full(n, "row") /\ sd = Full(n, "cone") /\ rc = Full(n, "variable")
        /\ bound = Restore(bb) /\ alternatives = Alternatives(s)
  OBVIOUS
<1>8. rb = Before(s, q, points, t, st, d, sd, rc, bound) /\ rb.model = s /\ rb.parameters = q
  BY <1>5, <1>7 DEF Before
<1>9. out = Normalized(rb, pl, alternatives, again)
  BY <1>2, <1>7
<1>10. Normal(out, s, q, points, kept, d, sd, rc, bound, alternatives, pl)
  BY <1>4, <1>6, <1>8, <1>9, NormalizedIs
<1>11. Lost(points, pl) <=> ~Complete(p1, pl)
  BY <1>4, TwoPoints DEF Lost
<1>12. Said(out, ~Complete(p1, pl), s, n, q, pl, bb)
  BY <1>7, <1>10, <1>11 DEF Said, Normal
<1>13. Surviving(out.points, sound, p1, p2, s, q, pl)
  <2>1. rb.model = s /\ rb.parameters = q
    BY <1>8
  <2>2. sound = Survivors(<<p1, p2>>, pl)
    BY <1>4
  <2>3. Surviving(kept, sound, p1, p2, s, q, pl)
    BY <1>6, <2>1, <2>2, SurvivingPoints
  <2> QED BY <1>10, <2>3 DEF Normal
<1>14. o.result = out /\ o.source = s /\ o.plan = pl /\ o.answer = r
  BY <1>3
<1>15. Surviving(o.result.points, sound, p1, p2, s, Taken(s, n, pl), pl)
       /\ Said(o.result, ~Complete(p1, pl), s, n, Taken(s, n, pl), pl, bb)
  BY <1>4, <1>12, <1>13, <1>14
<1> QED BY <1>1, <1>3, <1>14, <1>15

-----------------------------------------------------------------------------
(* Coordinates                                                             *)

\* What is read of f, and of parameters, in the registries of s.
Mine(f, s, k, its) == \A i \in DOMAIN f : i < Len(its[s][k]) => f[i] = its[s][k][i + 1]
Bound(x, s, its) == \A i \in DOMAIN x : x[i] = its[s]["parameter"][i]

CoordinatesOf(o, its) ==
  /\ o.result.model = o.source
  /\ Mine(o.result.dual, o.source, "row", its)
  /\ Mine(o.result.soc_dual, o.source, "cone", its)
  /\ Mine(o.result.reduced_costs, o.source, "variable", its)
  /\ Bound(o.result.parameters, o.source, its)
  /\ \A i \in DOMAIN o.result.points :
       /\ Mine(o.result.points[i].primal, o.source, "variable", its)
       /\ Bound(o.result.points[i].parameters, o.source, its)

ReadsParameters(x, s) ==
  \A i \in DOMAIN x : i \in 1 .. Count(s, "parameter") /\ x[i] = items[s]["parameter"][i]

\* Reads stay right while the registries grow.
LEMMA ReadsGrow ==
  ASSUME TypeInv, Grows, NEW s \in Live, NEW n \in Live, NEW k \in Kinds, NEW f, Reads(f, s, n, k),
         s = n \/ items' = items
  PROVE  Mine(f, s, k, items')
<1>1. Count(s, k) = Len(items[s][k]) /\ Count(s, k) \in Nat
  BY Registries
<1>2. CASE items' = items
  BY <1>1, <1>2 DEF Reads, Mine
<1>3. CASE s = n
  <2> SUFFICES ASSUME NEW i \in DOMAIN f PROVE f[i] = items'[s][k][i + 1]
    BY DEF Mine
  <2>1. i \in Nat /\ i < Count(s, k) /\ f[i] = items[s][k][i + 1]
    BY <1>3 DEF Reads
  <2>2. i + 1 \in 1 .. Len(items[s][k])
    BY <1>1, <2>1
  <2> QED BY <2>1, <2>2 DEF Grows
<1> QED BY <1>2, <1>3

LEMMA ParametersGrow ==
  ASSUME TypeInv, Grows, NEW s \in Live, NEW x, ReadsParameters(x, s)
  PROVE  Bound(x, s, items')
<1>1. "parameter" \in Kinds
  BY DEF Kinds
<1>2. Count(s, "parameter") = Len(items[s]["parameter"])
  BY DEF Count
<1> QED BY <1>1, <1>2 DEF Bound, ReadsParameters, Grows

\* The parameters of n that a projection keeps are those of s.
LEMMA TakenReads ==
  ASSUME TypeInv, LineageInv, NEW s \in Live, NEW n \in Live, NEW pl, Len(pl.parameters) \in Nat,
         InheritanceCovers(s, n, pl), NEW q, q = Taken(s, n, pl)
  PROVE  /\ ReadsParameters(q, s)
         /\ ~(Len(items[n]["parameter"]) > Len(q)) => ReadsParameters(items[n]["parameter"], s)
<1>1. PICK a, pc, w : /\ a = items[n]["parameter"] /\ pc = ParameterCount(s, n, pl)
                      /\ w = Min({pc, Len(a)})
  OBVIOUS
<1>2. a \in Seq(Declarations) /\ Len(a) \in Nat /\ Len(a) = Count(n, "parameter")
  BY <1>1, Registries DEF Kinds
<1>3. /\ pc \in Nat
      /\ n = s \/ \E c \in Nat : pc <= c /\ Agree(s, n, "parameter", c)
  <2>1. CASE n = s
    BY <1>1, <2>1 DEF ParameterCount
  <2>2. CASE n # s
    <3>1. PICK found : found = InheritedPrefix(n, s) /\ found # <<>>
      BY <2>2 DEF InheritanceCovers
    <3>2. PICK i \in DOMAIN lineage[n] : lineage[n][i].id = s
      BY <2>2, <3>1, Inherited
    <3>3. PICK shared : shared = SharedParameterPrefix(s, n)
      OBVIOUS
    <3>4. shared # <<>>
      BY <3>2, <3>3, AncestorsShare
    <3>5. shared[1] \in Nat /\ Agree(s, n, "parameter", shared[1])
      BY <3>3, <3>4, SharedAgree
    <3>6. pc = Min({Len(pl.parameters), shared[1]})
      BY <1>1, <2>2, <3>3, <3>4 DEF ParameterCount
    <3>7. pc \in Nat /\ pc <= shared[1]
      BY <3>5, <3>6, LeastOfTwo
    <3> QED BY <3>5, <3>7
  <2> QED BY <2>1, <2>2
<1>4. w \in Nat /\ w <= pc /\ w <= Len(a)
  BY <1>1, <1>2, <1>3, LeastOfTwo
<1>5. q = SubSeq(a, 1, w)
  BY <1>1 DEF Taken
<1>6. Len(q) = w /\ DOMAIN q = 1 .. w /\ \A i \in 1 .. w : q[i] = a[i]
  <2> HIDE DEF Taken
  <2>1. SubSeq(a, 1, w) \in Seq(Declarations) /\ Len(SubSeq(a, 1, w)) = w /\ \A i \in 1 .. w : SubSeq(a, 1, w)[i] = a[i]
    BY <1>2, <1>4
  <2>2. q \in Seq(Declarations) /\ Len(q) = w /\ \A i \in 1 .. w : q[i] = a[i]
    BY <1>5, <2>1
  <2> QED BY <2>2, Elements
<1>7. ASSUME NEW i \in 1 .. w PROVE i \in 1 .. Count(s, "parameter") /\ a[i] = items[s]["parameter"][i]
  <2>1. CASE n = s
    BY <1>1, <1>2, <1>4, <2>1
  <2>2. CASE n # s
    <3>1. PICK c \in Nat : pc <= c /\ Agree(s, n, "parameter", c)
      BY <1>3, <2>2
    <3>2. i \in 1 .. c
      BY <1>3, <1>4, <3>1
    <3>3. c <= Count(s, "parameter") /\ items[s]["parameter"][i] = items[n]["parameter"][i]
      BY <3>1, <3>2 DEF Agree
    <3>4. Count(s, "parameter") \in Nat
      BY Registries DEF Kinds
    <3> QED BY <1>1, <3>2, <3>3, <3>4
  <2> QED BY <2>1, <2>2
<1>8. ReadsParameters(q, s)
  BY <1>6, <1>7 DEF ReadsParameters
<1>9. ASSUME ~(Len(a) > Len(q)) PROVE ReadsParameters(a, s)
  <2>1. DOMAIN a = 1 .. w
    <3>1. Len(a) = w
      BY <1>2, <1>4, <1>6, <1>9
    <3> QED BY <1>2, <3>1
  <2> QED BY <1>7, <2>1 DEF ReadsParameters
<1> QED BY <1>1, <1>8, <1>9

\* A plan that is accepted names coordinates that were inherited, or that the source does not have.
LEMMA PlanIsInherited ==
  ASSUME TypeInv, LineageInv, NEW s \in Live, NEW n \in Live, s # n, NEW pl, PrefixPlan(pl),
         InheritanceCovers(s, n, pl)
  PROVE  /\ \E c \in Nat : /\ Agree(n, s, "variable", c)
                           /\ \A i \in pl.variables.ids \cup pl.retained : i < c \/ ~(i < Count(s, "variable"))
         /\ \E c \in Nat : Agree(n, s, "row", c) /\ \A i \in pl.rows.ids : i < c
         /\ \E c \in Nat : Agree(n, s, "cone", c) /\ \A i \in Indices(pl.cones) : i < c
<1>1. PICK v \in Nat, w \in Nat, d \in Nat, retained \in SUBSET Nat :
        pl.variables = Upto(v) /\ pl.rows = Upto(w) /\ pl.cones = d /\ pl.retained = retained
  BY DEF PrefixPlan
<1>2. PICK found : /\ found = InheritedPrefix(n, s) /\ found # <<>>
                   /\ UpperBound(pl.variables) <= found[1]["variable"]
                   /\ UpperBound(pl.rows) <= found[1]["row"]
                   /\ pl.cones <= found[1]["cone"]
                   /\ \A i \in pl.retained : ~(i >= found[1]["variable"] /\ i < Count(s, "variable"))
  BY DEF InheritanceCovers
<1>3. found[1] \in Sizes /\ \A k \in Kinds : Agree(n, s, k, found[1][k])
  BY <1>2, Inherited
<1>4. PICK cv, cr, cc : cv = found[1]["variable"] /\ cr = found[1]["row"] /\ cc = found[1]["cone"]
  OBVIOUS
<1>5. /\ cv \in Nat /\ cr \in Nat /\ cc \in Nat
      /\ Agree(n, s, "variable", cv) /\ Agree(n, s, "row", cr) /\ Agree(n, s, "cone", cc)
  BY <1>3, <1>4 DEF Sizes, Kinds
<1>6. v <= cv /\ w <= cr /\ d <= cc
  BY <1>1, <1>2, <1>4, BoundOfPrefix
<1>7. pl.variables.ids = 0 .. v - 1 /\ pl.rows.ids = 0 .. w - 1 /\ Indices(pl.cones) = 0 .. d - 1
  BY <1>1, BoundOfPrefix DEF Indices
<1>8. \A i \in pl.variables.ids \cup pl.retained : i < cv \/ ~(i < Count(s, "variable"))
  <2>1. \A i \in pl.variables.ids : i < cv
    BY <1>5, <1>6, <1>7
  <2>2. \A i \in pl.retained : i \in Nat /\ ~(i >= cv /\ i < Count(s, "variable"))
    BY <1>1, <1>2, <1>4
  <2>3. \A i \in pl.retained : i < cv \/ ~(i < Count(s, "variable"))
    BY <1>5, <2>2
  <2> QED BY <2>1, <2>3
<1>9. \A i \in pl.rows.ids : i < cr
  BY <1>5, <1>6, <1>7
<1>10. \A i \in Indices(pl.cones) : i < cc
  BY <1>5, <1>6, <1>7
<1> QED BY <1>5, <1>8, <1>9, <1>10

LEMMA FullAnswers ==
  ASSUME NEW n, NEW k
  PROVE  Answered(Full(n, k), n, k)
BY DEF Answered, Full

LEMMA CoordinatesAre ==
  ASSUME TypeInv, LineageInv, Grows, NEW s \in Live, NEW n \in Live, NEW r \in Shapes(n, Prefix(n)),
         NEW pl, Len(pl.parameters) \in Nat, NEW again, NEW o, o = Project(s, n, pl, r, again), o.ok,
         s = n \/ (PrefixPlan(pl) /\ items' = items)
  PROVE  CoordinatesOf(o, items')
<1>1. o.source = s /\ Valid(s, n, pl, r)
  BY ProjectedIs
<1>2. PICK p1, p2, t, st, bb, sound, q :
        /\ Solved(r, n, p1, p2, t, st, bb) /\ q = Taken(s, n, pl)
        /\ Surviving(o.result.points, sound, p1, p2, s, q, pl)
        /\ Said(o.result, ~Complete(p1, pl), s, n, q, pl, bb)
  BY ProjectedIs
<1>3. InheritanceCovers(s, n, pl)
  BY <1>1 DEF Valid
<1>4. "variable" \in Kinds /\ "row" \in Kinds /\ "cone" \in Kinds
  BY DEF Kinds
<1>5. PICK a : a = items[n]["parameter"]
  OBVIOUS
<1>6. Bound(q, s, items') /\ (~(Len(a) > Len(q)) => Bound(a, s, items'))
  BY <1>2, <1>3, <1>5, TakenReads, ParametersGrow
<1>7. ASSUME NEW k \in Kinds, NEW f, NEW ids, Answered(f, n, k),
             s # n => \E c \in Nat : Agree(n, s, k, c) /\ \A i \in ids : i < c \/ ~(i < Count(s, k))
      PROVE  Mine(Kept(f, ids), s, k, items')
  <2>1. Reads(Kept(f, ids), s, n, k)
    BY <1>7, KeptReads
  <2> QED BY <2>1, ReadsGrow
<1>9. Mine(Kept(Full(n, "row"), pl.rows.ids), s, "row", items')
  <2>1. Answered(Full(n, "row"), n, "row")
    BY FullAnswers
  <2>2. s # n => \E c \in Nat : Agree(n, s, "row", c) /\ \A i \in pl.rows.ids : i < c \/ ~(i < Count(s, "row"))
    BY <1>3, PlanIsInherited
  <2> QED BY <1>4, <1>7, <2>1, <2>2
<1>10. Mine(Kept(Full(n, "cone"), Indices(pl.cones)), s, "cone", items')
  <2>1. Answered(Full(n, "cone"), n, "cone")
    BY FullAnswers
  <2>2. s # n => \E c \in Nat : Agree(n, s, "cone", c) /\ \A i \in Indices(pl.cones) : i < c \/ ~(i < Count(s, "cone"))
    BY <1>3, PlanIsInherited
  <2> QED BY <1>4, <1>7, <2>1, <2>2
<1>11. s # n => \E c \in Nat : /\ Agree(n, s, "variable", c)
                               /\ \A i \in pl.variables.ids \cup pl.retained : i < c \/ ~(i < Count(s, "variable"))
  BY <1>3, PlanIsInherited
<1>12. Mine(Kept(Full(n, "variable"), pl.variables.ids), s, "variable", items')
  <2>1. Answered(Full(n, "variable"), n, "variable")
    BY FullAnswers
  <2>2. s # n => \E c \in Nat : /\ Agree(n, s, "variable", c)
                                /\ \A i \in pl.variables.ids : i < c \/ ~(i < Count(s, "variable"))
    BY <1>11
  <2> QED BY <1>4, <1>7, <2>1, <2>2
<1>13. ASSUME NEW p \in {p1, p2}
       PROVE  /\ Mine(Kept(p.primal, pl.variables.ids \cup pl.retained), s, "variable", items')
              /\ ~(Len(p.parameters) > Len(q)) => Bound(p.parameters, s, items')
  <2>1. PointOf(p, n)
    BY <1>2 DEF Solved
  <2>2. Answered(p.primal, n, "variable") /\ (p.parameters = <<>> \/ p.parameters = a)
    BY <1>5, <2>1 DEF PointOf
  <2>3. Mine(Kept(p.primal, pl.variables.ids \cup pl.retained), s, "variable", items')
    BY <1>4, <1>7, <1>11, <2>2
  <2>4. p.parameters = <<>> => Bound(p.parameters, s, items')
    BY DEF Bound
  <2> QED BY <1>6, <2>2, <2>3, <2>4
<1>14. \A f, k : f = <<>> => Mine(f, s, k, items')
  BY DEF Mine
<1>15. /\ o.result.model = s /\ Bound(o.result.parameters, s, items')
       /\ Mine(o.result.dual, s, "row", items') /\ Mine(o.result.soc_dual, s, "cone", items')
       /\ Mine(o.result.reduced_costs, s, "variable", items')
  BY <1>2, <1>6, <1>9, <1>10, <1>12, <1>14 DEF Said
<1>16. ASSUME NEW i \in DOMAIN o.result.points
       PROVE  /\ Mine(o.result.points[i].primal, s, "variable", items')
              /\ Bound(o.result.points[i].parameters, s, items')
  <2>1. PICK x, p : x = o.result.points[i] /\ p = sound[i]
    OBVIOUS
  <2>2. /\ p \in {p1, p2} /\ x.primal = Kept(p.primal, pl.variables.ids \cup pl.retained)
        /\ x.parameters = q \/ (x.parameters = p.parameters /\ ~(Len(p.parameters) > Len(q)))
    BY <1>2, <2>1 DEF Surviving
  <2> QED BY <1>6, <1>13, <2>1, <2>2
<1> QED BY <1>1, <1>15, <1>16 DEF CoordinatesOf

-----------------------------------------------------------------------------
(* Certificates                                                            *)

CertificatesOf(o, alternatives) ==
  LET r == o.result
      survived == r.points # <<>> /\ r.points[1].rank = 1
      claims == \/ r.primal_status = "OptimalPoint" \/ r.dual # <<>> \/ r.reduced_costs # <<>>
                \/ r.soc_dual # <<>> \/ r.gap # Unset
  IN  /\ claims => survived
      /\ r.best_bound # Unset /\ o.answer.best_bound = Unset
           => survived /\ r.best_bound = r.points[1].objective
      /\ \A i \in alternatives \cap o.plan.rows.ids : DualOf(r, i) = Unset

LEMMA CertificatesAre ==
  ASSUME TypeInv, NEW s \in Live, NEW n \in Live, NEW r \in Shapes(n, Prefix(n)),
         NEW pl, NEW again, NEW o, o = Project(s, n, pl, r, again), o.ok
  PROVE  CertificatesOf(o, Alternatives(s))
<1>1. o.plan = pl /\ o.answer = r
  BY ProjectedIs
<1>2. PICK p1, p2, t, st, bb, sound, q :
        /\ Solved(r, n, p1, p2, t, st, bb)
        /\ Surviving(o.result.points, sound, p1, p2, s, q, pl)
        /\ Said(o.result, ~Complete(p1, pl), s, n, q, pl, bb)
  BY ProjectedIs
<1>3. PICK out : out = o.result
  OBVIOUS
<1>4. r.best_bound = bb /\ p1.rank = 1
  BY <1>2 DEF Solved, ResultOf
<1>5. (out.points # <<>> /\ out.points[1].rank = 1) \/ ~Complete(p1, pl)
  <2>1. ASSUME Complete(p1, pl) PROVE out.points # <<>> /\ out.points[1].rank = 1
    <3>1. /\ 1 \in 1 .. Len(sound) /\ sound[1] = p1 /\ DOMAIN out.points = 1 .. Len(sound)
          /\ \A i \in 1 .. Len(sound) : out.points[i].rank = sound[i].rank
      BY <1>2, <1>3, <2>1 DEF Surviving
    <3>2. out.points[1].rank = 1
      BY <1>4, <3>1
    <3>3. DOMAIN out.points # {}
      BY <3>1
    <3>4. out.points # <<>>
      BY <3>3
    <3> QED BY <3>2, <3>4
  <2> QED BY <2>1
<1>6. ~Complete(p1, pl) => /\ out.dual = <<>> /\ out.soc_dual = <<>> /\ out.reduced_costs = <<>>
                           /\ out.primal_status # "OptimalPoint" /\ out.gap = Unset /\ out.best_bound = Restore(bb)
  BY <1>2, <1>3 DEF Said
<1>7. bb = Unset /\ out.best_bound # Unset => Complete(p1, pl) /\ out.best_bound = out.points[1].objective
  BY <1>2, <1>3, <1>6, RestoreIs DEF Said
<1>8. \A i \in Alternatives(s) \cap pl.rows.ids : DualOf(out, i) = Unset
  <2>1. out.semantic_dual = [i \in Alternatives(s) \cap pl.rows.ids |-> Unset]
    BY <1>2, <1>3 DEF Said, Unpriced
  <2> QED BY <2>1 DEF DualOf
<1> QED BY <1>1, <1>3, <1>4, <1>5, <1>6, <1>7, <1>8 DEF CertificatesOf

-----------------------------------------------------------------------------
(* The wrapper                                                             *)

\* The activations a report still speaks of.
Spoken(m) == {i \in Generated(m, "variable") : items[m]["variable"][i + 1].alt}

WrapperOf(o, own, spoken) ==
  LET solved == DOMAIN o.answer.reduced_costs
      points == o.result.points
  IN  /\ points # <<>>
      /\ \A i \in DOMAIN points : /\ (own \cap solved) \subseteq DOMAIN points[i].primal
                                  /\ DOMAIN points[i].primal \subseteq (own \cap solved) \cup spoken

\* A prefix is named when the generated variables are the last ones.
LEMMA MembershipIs ==
  ASSUME TypeInv, NEW m \in Live
  PROVE  Membership(m, "variable").ids = Own(m, "variable")
<1>1. PICK N, G, c : N = Count(m, "variable") /\ G = Generated(m, "variable") /\ c = N - Cardinality(G)
  OBVIOUS
<1>2. N \in Nat
  BY <1>1, Registries DEF Kinds
<1>3. G \subseteq 0 .. N - 1 /\ Own(m, "variable") = (0 .. N - 1) \ G
  BY <1>1 DEF Generated, Own, Indices
<1>4. Membership(m, "variable") = IF G = {} \/ Min(G) = c THEN Upto(c) ELSE Explicit(Own(m, "variable"))
  BY <1>1 DEF Membership
<1>5. CASE G = {}
  <2>1. c = N
    BY <1>1, <1>2, <1>5, FS_EmptySet
  <2> QED BY <1>2, <1>3, <1>4, <1>5, <2>1, BoundOfPrefix
<1>6. CASE G # {} /\ Min(G) = c
  <2>1. c \in G /\ \A i \in G : c <= i
    <3>1. G \in SUBSET Nat
      BY <1>3
    <3> QED BY <1>6, <3>1, LeastIsMember
  <2>2. c \in Nat /\ c <= N - 1
    BY <1>2, <1>3, <2>1
  <2>3. IsFiniteSet(c .. N - 1) /\ Cardinality(c .. N - 1) = N - c
    <3>1. c \in Int /\ N - 1 \in Int
      BY <1>2, <2>2
    <3>2. IsFiniteSet(c .. N - 1) /\ Cardinality(c .. N - 1) = IF c > N - 1 THEN 0 ELSE N - 1 - c + 1
      BY <3>1, FS_Interval
    <3> QED BY <1>2, <2>2, <3>2
  <2>4. G \in SUBSET (c .. N - 1)
    BY <1>3, <2>1, <2>2
  <2>5. Cardinality(G) = N - c
    <3>1. IsFiniteSet(G)
      BY <2>3, <2>4, FS_Subset
    <3>2. Cardinality(G) \in Nat
      BY <3>1, FS_CardinalityType
    <3> QED BY <1>1, <1>2, <2>2, <3>2
  <2>6. G = c .. N - 1
    BY <2>3, <2>4, <2>5, FS_Subset
  <2>7. (0 .. N - 1) \ G = 0 .. c - 1
    BY <1>2, <2>2, <2>6
  <2> QED BY <1>3, <1>4, <1>6, <2>2, <2>7, BoundOfPrefix
<1>7. CASE ~(G = {} \/ Min(G) = c)
  BY <1>4, <1>7 DEF Explicit
<1> QED BY <1>5, <1>6, <1>7

\* A declaration keeps its place, and what it is, while others are added.
LEMMA OwnGrows ==
  ASSUME TypeInv, Grows, items' \in Registered, NEW m \in Live
  PROVE  /\ Own(m, "variable")' \cap Indices(Count(m, "variable")) = Own(m, "variable")
         /\ Spoken(m) \subseteq Spoken(m)'
<1>1. PICK a, b, N, M : /\ a = items[m]["variable"] /\ b = items'[m]["variable"]
                        /\ N = Count(m, "variable") /\ M = Len(b)
  OBVIOUS
<1>2. N \in Nat /\ N = Len(a)
  BY <1>1, Registries DEF Kinds
<1>3. M \in Nat
  <2>1. b \in Seq(Declarations)
    BY <1>1 DEF Registered, Kinds
  <2> QED BY <1>1, <2>1
<1>4. N <= M /\ \A j \in 1 .. N : b[j] = a[j]
  BY <1>1, <1>2 DEF Grows, Kinds
<1>5. /\ Generated(m, "variable") = {i \in 0 .. N - 1 : a[i + 1].gen}
      /\ Own(m, "variable") = (0 .. N - 1) \ {i \in 0 .. N - 1 : a[i + 1].gen}
  BY <1>1 DEF Generated, Own, Indices
<1>6. /\ Generated(m, "variable")' = {i \in 0 .. M - 1 : b[i + 1].gen}
      /\ Own(m, "variable")' = (0 .. M - 1) \ {i \in 0 .. M - 1 : b[i + 1].gen}
  BY <1>1 DEF Generated, Own, Indices, Count
<1>7. \A i \in 0 .. N - 1 : i \in 0 .. M - 1 /\ b[i + 1] = a[i + 1]
  BY <1>2, <1>3, <1>4
<1>8. Own(m, "variable")' \cap (0 .. N - 1) = Own(m, "variable")
  BY <1>5, <1>6, <1>7
<1>9. \A i : i \in Spoken(m) => i \in Spoken(m)'
  <2>1. Spoken(m) = {i \in Generated(m, "variable") : a[i + 1].alt}
    BY <1>1 DEF Spoken
  <2>2. Spoken(m)' = {i \in Generated(m, "variable")' : b[i + 1].alt}
    BY <1>1 DEF Spoken
  <2> QED BY <1>5, <1>6, <1>7, <2>1, <2>2
<1> QED BY <1>1, <1>8, <1>9 DEF Indices

LEMMA WrapperIs ==
  ASSUME ConstantsAreApart, TypeInv, Grows, items' \in Registered, NEW m \in Live, NEW r \in Shapes(m, Prefix(m)),
         NEW pl, pl = SourcePlan(m), NEW again, NEW o, o = Project(m, m, pl, r, again), o.ok
  PROVE  WrapperOf(o, Own(m, "variable")', Spoken(m)')
<1>1. pl.variables.ids = Own(m, "variable") /\ pl.retained = Spoken(m)
  <2>1. pl.variables = Membership(m, "variable") /\ pl.retained = Spoken(m)
    BY DEF SourcePlan, CapturedPlan, Spoken
  <2> QED BY <2>1, MembershipIs
<1>2. PICK N, own, spoken : N = Count(m, "variable") /\ own = Own(m, "variable") /\ spoken = Spoken(m)
  OBVIOUS
<1>3. o.answer = r
  BY ProjectedIs
<1>4. PICK p1, p2, t, st, bb, sound, q :
        /\ Solved(r, m, p1, p2, t, st, bb)
        /\ Surviving(o.result.points, sound, p1, p2, m, q, pl)
  BY ProjectedIs
<1>5. r.reduced_costs = Full(m, "variable") /\ DOMAIN r.reduced_costs = Indices(N)
  BY <1>2, <1>4 DEF Solved, ResultOf, Full
<1>6. own \subseteq Indices(N)
  BY <1>2 DEF Own
<1>7. Complete(p2, pl)
  <2> SUFFICES ASSUME NEW i \in own PROVE i \in DOMAIN p2.primal /\ p2.primal[i] # NaN
    BY <1>1, <1>2 DEF Complete, IsFinite
  <2>1. p2.primal = Full(m, "variable") /\ i \in Indices(N)
    BY <1>4, <1>6 DEF Solved
  <2>2. i \in DOMAIN p2.primal /\ p2.primal[i] = items[m]["variable"][i + 1]
    BY <1>2, <2>1 DEF Full
  <2>3. N \in Nat /\ \A j \in 1 .. N : items[m]["variable"][j] \in Declarations
    BY <1>2, Registries DEF Kinds
  <2>4. i + 1 \in 1 .. N
    BY <2>1, <2>3 DEF Indices
  <2>5. PICK d : d = items[m]["variable"][i + 1] /\ d \in Declarations
    BY <2>3, <2>4
  <2>6. d.owner \in Models
    BY <2>5 DEF Declarations
  <2>7. NaN.owner = 0
    BY DEF NaN
  <2>8. d # NaN
    BY <2>6, <2>7 DEF ConstantsAreApart
  <2> QED BY <2>2, <2>5, <2>8
<1>8. PICK points : points = o.result.points
  OBVIOUS
<1>9. points # <<>>
  <2>1. Len(sound) >= 1 /\ DOMAIN points = 1 .. Len(sound) /\ Len(sound) \in Nat
    BY <1>4, <1>7, <1>8 DEF Surviving
  <2>2. DOMAIN points # {}
    BY <2>1
  <2> QED BY <2>2
<1>10. ASSUME NEW i \in DOMAIN points
       PROVE  own \subseteq DOMAIN points[i].primal /\ DOMAIN points[i].primal \subseteq own \cup spoken
  <2>1. PICK p, f, ids : p = sound[i] /\ f = p.primal /\ ids = pl.variables.ids \cup pl.retained
    OBVIOUS
  <2>2. i \in 1 .. Len(sound)
    BY <1>4, <1>8 DEF Surviving
  <2>3. Complete(p, pl) /\ points[i].primal = Kept(f, ids)
    BY <1>4, <1>8, <2>1, <2>2 DEF Surviving
  <2>4. ids = own \cup spoken
    BY <1>1, <1>2, <2>1
  <2>5. DOMAIN points[i].primal = {j \in (DOMAIN f) \cap ids : IsFinite(f[j])}
    BY <2>3, KeptIs
  <2>6. \A j \in own : j \in DOMAIN p.primal /\ IsFinite(p.primal[j])
    BY <1>1, <1>2, <2>3 DEF Complete
  <2> QED BY <2>1, <2>5, <2>6, <2>4
<1>11. Own(m, "variable")' \cap Indices(N) = own /\ spoken \subseteq Spoken(m)'
  BY <1>2, OwnGrows
<1>12. ASSUME NEW i \in DOMAIN points
       PROVE  /\ Own(m, "variable")' \cap Indices(N) \subseteq DOMAIN points[i].primal
              /\ DOMAIN points[i].primal \subseteq (Own(m, "variable")' \cap Indices(N)) \cup Spoken(m)'
  BY <1>10, <1>11
<1> QED BY <1>3, <1>5, <1>8, <1>9, <1>12 DEF WrapperOf

-----------------------------------------------------------------------------
(* The theorems                                                            *)

\* What the last projection promised still holds of the registries.
Sourced ==
  outcome.ok =>
    /\ CoordinatesOf(outcome, items)
    /\ CertificatesOf(outcome, Alternatives(outcome.source))
    /\ outcome.wrapped => WrapperOf(outcome, Own(outcome.source, "variable"), Spoken(outcome.source))

\* The wrapper only says of a projection that it is the wrapper's.
Wrapped(o) == [o EXCEPT !.wrapped = TRUE]

OnlyMarks(o, w) ==
  /\ ~o.wrapped
  /\ w.ok <=> o.ok
  /\ o.ok => w.source = o.source /\ w.plan = o.plan /\ w.answer = o.answer /\ w.result = o.result

LEMMA WrappedIs ==
  ASSUME NEW s, NEW n, NEW pl, NEW r, NEW again, NEW o, o = Project(s, n, pl, r, again)
  PROVE  OnlyMarks(o, Wrapped(o))
<1>1. PICK out : out = Normalized(Rebound(s, n, pl, r), pl, Alternatives(s), again)
  OBVIOUS
<1>2. o = IF Valid(s, n, pl, r)
          THEN [ok |-> TRUE, source |-> s, native |-> n, wrapped |-> FALSE, plan |-> pl, answer |-> r, result |-> out]
          ELSE [ok |-> FALSE, source |-> s, native |-> n, wrapped |-> FALSE, plan |-> pl, answer |-> r]
  BY <1>1 DEF Project, Rebound
<1>3. CASE Valid(s, n, pl, r)
  BY <1>2, <1>3 DEF Wrapped, OnlyMarks
<1>4. CASE ~Valid(s, n, pl, r)
  BY <1>2, <1>4 DEF Wrapped, OnlyMarks
<1> QED BY <1>3, <1>4

LEMMA ProjectSources ==
  ASSUME IInv, NEW s \in Live, NEW n \in Live, NEW again \in BOOLEAN, ProjectResult(s, n, again)
  PROVE  Sourced'
<1>1. /\ items' = items /\ plan # Unset
      /\ \E r \in Shapes(n, Prefix(n)) : outcome' = Project(s, n, plan[1], r, again)
  BY DEF ProjectResult
<1>2. PICK pl : pl = plan[1] /\ PrefixPlan(pl)
  <2>1. PICK p : plan = Some(p) /\ PrefixPlan(p)
    BY <1>1 DEF IInv, PlanInv
  <2>2. plan[1] = p
    BY <2>1 DEF Some
  <2> QED BY <2>1, <2>2
<1>3. PICK r, o : r \in Shapes(n, Prefix(n)) /\ o = Project(s, n, pl, r, again) /\ outcome' = o
  BY <1>1, <1>2
<1>4. TypeInv /\ LineageInv /\ Grows /\ items' \in Registered
  BY <1>1, SameGrows DEF IInv
<1>5. Len(pl.parameters) \in Nat
  <2>1. PICK ps \in Seq(Declarations) : pl.parameters = ps
    BY <1>2 DEF PrefixPlan
  <2> QED BY <2>1
<1>6. SUFFICES ASSUME o.ok PROVE Sourced'
  BY <1>3 DEF Sourced
<1>7. CoordinatesOf(o, items')
  BY <1>1, <1>2, <1>3, <1>4, <1>5, <1>6, CoordinatesAre
<1>8. CertificatesOf(o, Alternatives(s)) /\ o.source = s
  BY <1>3, <1>4, <1>6, CertificatesAre, ProjectedIs
<1>9. ~o.wrapped
  <2>1. OnlyMarks(o, Wrapped(o))
    BY <1>3, WrappedIs
  <2> QED BY <2>1 DEF OnlyMarks
<1>10. Alternatives(s)' = Alternatives(s)
  BY <1>1 DEF Alternatives, Indices, Count
<1>11. CertificatesOf(outcome', Alternatives(outcome.source)')
  BY <1>3, <1>8, <1>10
<1>12. CoordinatesOf(outcome', items')
  BY <1>3, <1>7
<1>13. ~outcome'.wrapped
  BY <1>3, <1>9
<1> QED BY <1>11, <1>12, <1>13 DEF Sourced

\* A variable that is declared late leaves the rows as they are.
LEMMA RowsStand ==
  ASSUME TypeInv, NEW m \in Live, items' = Grown(m, "variable", FALSE, FALSE)
  PROVE  items'[m]["row"] = items[m]["row"]
<1>1. items \in Registered
  BY DEF TypeInv, Registered
<1>2. "variable" \in Kinds /\ "row" \in Kinds
  BY DEF Kinds
<1>3. PICK d : d = Item(m, "variable", FALSE, FALSE) /\ d \in Declarations
  BY <1>2, ItemIs
<1>4. items' = Appended(items, m, "variable", d)
  BY <1>3 DEF Grown, Appended
<1>5. d \in Declarations
  BY <1>3
<1>6. PICK new, k, l : new = Appended(items, m, k, d) /\ k = "variable" /\ l = "row"
  OBVIOUS
<1>7. k \in Kinds /\ l \in Kinds /\ l # k
  BY <1>2, <1>6
<1>8. \A x \in Live : \A y \in Kinds : new[x][y] = IF x = m /\ y = k THEN Append(items[m][k], d) ELSE items[x][y]
  BY <1>1, <1>5, <1>6, <1>7, AppendedTo
<1>9. new[m][l] = items[m][l]
  BY <1>7, <1>8
<1> QED BY <1>4, <1>6, <1>9

LEMMA WrapperSources ==
  ASSUME ConstantsAreApart, IInv, NEW m \in Live, NEW late \in BOOLEAN, GdpSolve(m, late)
  PROVE  Sourced'
<1>1. PICK r \in Shapes(m, Prefix(m)) : outcome' = Wrapped(Project(m, m, KeptPlan(m).plan, r, FALSE))
  BY DEF GdpSolve, KeptPlan, Wrapped
<1>2. KeptPlan(m).plan = SourcePlan(m)
  BY KeptIsCurrent
<1>3. PICK pl, again, o : pl = SourcePlan(m) /\ again = FALSE /\ o = Project(m, m, pl, r, again) /\ outcome' = Wrapped(o)
  BY <1>1, <1>2
<1>4. TypeInv /\ LineageInv /\ Grows /\ items' \in Registered
  BY GdpSolveKeeps DEF IInv
<1>5. Len(pl.parameters) \in Nat
  <2>1. pl.parameters = items[m]["parameter"]
    BY <1>3 DEF SourcePlan, CapturedPlan
  <2> QED BY <1>4, <2>1, Registries DEF Kinds
<1>6. OnlyMarks(o, outcome')
  <2>1. OnlyMarks(o, Wrapped(o))
    BY <1>3, WrappedIs
  <2> QED BY <1>3, <2>1
<1>7. SUFFICES ASSUME o.ok PROVE Sourced'
  BY <1>6 DEF Sourced, OnlyMarks
<1>8. /\ outcome'.source = o.source /\ outcome'.plan = o.plan
      /\ outcome'.answer = o.answer /\ outcome'.result = o.result
  BY <1>6, <1>7 DEF OnlyMarks
<1>9. o.source = m
  BY <1>3, <1>4, <1>7, ProjectedIs
<1>10. CoordinatesOf(outcome', items')
  <2>1. CoordinatesOf(o, items')
    BY <1>3, <1>4, <1>5, <1>7, CoordinatesAre
  <2> QED BY <1>8, <2>1 DEF CoordinatesOf
<1>11. Alternatives(m)' = Alternatives(m)
  <2>1. items'[m]["row"] = items[m]["row"]
    <3>1. CASE ~late
      BY <3>1 DEF GdpSolve
    <3>2. CASE late
      BY <1>4, <3>2, RowsStand DEF GdpSolve
    <3> QED BY <3>1, <3>2
  <2> QED BY <2>1 DEF Alternatives, Indices, Count
<1>12. CertificatesOf(outcome', Alternatives(outcome.source)')
  <2>1. CertificatesOf(o, Alternatives(m))
    BY <1>3, <1>4, <1>7, CertificatesAre
  <2>2. CertificatesOf(outcome', Alternatives(m))
    BY <1>8, <2>1 DEF CertificatesOf
  <2> QED BY <1>8, <1>9, <1>11, <2>2
<1>13. WrapperOf(outcome', Own(outcome.source, "variable")', Spoken(outcome.source)')
  <2>1. WrapperOf(o, Own(m, "variable")', Spoken(m)')
    BY <1>3, <1>4, <1>7, WrapperIs
  <2>2. WrapperOf(outcome', Own(m, "variable")', Spoken(m)')
    BY <1>8, <2>1 DEF WrapperOf
  <2> QED BY <1>8, <1>9, <2>2
<1> QED BY <1>10, <1>12, <1>13 DEF Sourced

LEMMA SourcedKept == ASSUME ConstantsAreApart, IInv, Sourced, [Next]_vars PROVE Sourced'
<1>1. CASE UNCHANGED vars
  <2>1. outcome' = outcome /\ items' = items
    BY <1>1 DEF vars
  <2>2. /\ Alternatives(outcome.source)' = Alternatives(outcome.source)
        /\ Own(outcome.source, "variable")' = Own(outcome.source, "variable")
        /\ Spoken(outcome.source)' = Spoken(outcome.source)
    BY <2>1 DEF Alternatives, Own, Spoken, Generated, Indices, Count
  <2> QED BY <2>1, <2>2 DEF Sourced
<1>2. ASSUME outcome' = Nothing PROVE Sourced'
  BY <1>2 DEF Sourced, Nothing
<1>3. CASE Next
  <2>1. \/ outcome' = Nothing
        \/ \E m \in Live, late \in BOOLEAN : GdpSolve(m, late)
        \/ \E s, n \in Live, again \in BOOLEAN : ProjectResult(s, n, again)
    BY <1>3 DEF Next, Declare, Fork, Reformulate, Capture
  <2> QED BY <1>2, <2>1, WrapperSources, ProjectSources
<1> QED BY <1>1, <1>3

LEMMA SourcedAlways == ConstantsAreApart => (Spec => []Sourced)
<1> SUFFICES ASSUME ConstantsAreApart PROVE Spec => []Sourced
  OBVIOUS
<1>1. Init => IInv /\ Sourced
  <2>1. Init => Sourced
    BY DEF Init, Sourced, Nothing
  <2> QED BY <2>1, InitHolds
<1>2. IInv /\ Sourced /\ [Next]_vars => IInv' /\ Sourced'
  BY NextKeeps, SourcedKept
<1> QED BY <1>1, <1>2, PTL DEF Spec

\* Whatever a projection accepts, with any number of forks, declarations and
\* reformulations between the plan and the result, every value the caller
\* reads at a coordinate was computed for that declaration
\* (SourceProjection::validate and normalize_validated_result).
THEOREM ProjectionReadsTheSource ==
  ASSUME ConstantsAreApart PROVE Spec => []ProjectedCoordinatesAreTheSources
<1>1. Sourced => ProjectedCoordinatesAreTheSources
  BY DEF Sourced, CoordinatesOf, Mine, Bound, ProjectedCoordinatesAreTheSources, Count
<1> QED BY <1>1, SourcedAlways, PTL

\* Points that survive the incumbent's never inherit its duals, its gap or its
\* claim of optimality, and a generated alternative is given no multiplier
\* (normalize_validated_result and SolverResult::dual_of).
THEOREM CertificatesStayWithTheIncumbent ==
  ASSUME ConstantsAreApart PROVE Spec => []CertificatesFollowIncumbent
<1>1. Sourced => CertificatesFollowIncumbent
  BY DEF Sourced, CertificatesOf, CertificatesFollowIncumbent
<1> QED BY <1>1, SourcedAlways, PTL

\* The solver that reformulates in place answers in the caller's coordinates
\* and never loses a complete point, with a plan that was kept or made anew,
\* and although a callback may declare a variable while it solves
\* (GdpSolver::solve, source_plan).
THEOREM WrapperAnswersInOwnCoordinates ==
  ASSUME ConstantsAreApart PROVE Spec => []WrapperKeepsOwnCoordinates
<1>1. Sourced => WrapperKeepsOwnCoordinates
  BY DEF Sourced, WrapperOf, Spoken, WrapperKeepsOwnCoordinates
<1> QED BY <1>1, SourcedAlways, PTL
=============================================================================
