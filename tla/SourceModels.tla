----------------------------- MODULE SourceModels -----------------------------
(***************************************************************************)
(* A prepared model as the adapters read it: variables, objective, rows,    *)
(* cones, matrices, indicators and ordered sets, with every number resolved *)
(* at the current parameters (prepare.rs, LoweringContext), and what it     *)
(* means at a point.                                                        *)
(*                                                                          *)
(* An affine term is [c, t]: a constant and the nonzero coefficients by     *)
(* variable.  A polynomial adds h, the nonzero second derivatives by pairs  *)
(* <<i, j>> with i >= j.  Coefficients are small integers, and -Inf and Inf *)
(* stand for the infinite bounds.  A deactivated row is lowered to a free   *)
(* row of no terms, with `active` FALSE.                                    *)
(***************************************************************************)
EXTENDS Integers, Sequences, FiniteSets, FiniteSetsExt, SequencesExt, Functions, TLC

Inf == 1000
Finite(v) == -Inf < v /\ v < Inf
None == <<>>

Poly(c, t, h) == [c |-> c, t |-> t, h |-> h]
Affine(c, t) == Poly(c, t, <<>>)
IsAffine(p) == DOMAIN p.h = {}
Times(f, k) == [i \in DOMAIN f |-> k * f[i]]
Scaled(p, k) == Poly(k * p.c, Times(p.t, k), Times(p.h, k))

Dot(t, x) == FoldSet(LAMBDA i, s : s + t[i] * x[i], 0, DOMAIN t)
\* Half of the second derivatives on the diagonal, all of them off it.
Curve(h, x) ==
  FoldSet(LAMBDA ij, s : s + (IF ij[1] = ij[2] THEN (h[ij] * x[ij[1]] * x[ij[1]]) \div 2
                              ELSE h[ij] * x[ij[1]] * x[ij[2]]), 0, DOMAIN h)
At(p, x) == p.c + Dot(p.t, x) + Curve(p.h, x)

IsSemi(v) == v.semi > 0
IsFixed(v) == Finite(v.lb) /\ v.lb = v.ub
\* as_single: the sense of a row with one side or an equality.
Sense(r) ==
  CASE ~Finite(r.lo) /\ Finite(r.hi) -> "le"
    [] Finite(r.lo) /\ ~Finite(r.hi) -> "ge"
    [] Finite(r.lo) /\ Finite(r.hi) /\ r.lo = r.hi -> "eq"
    [] Finite(r.lo) /\ Finite(r.hi) /\ r.lo # r.hi -> "range"
    [] OTHER -> "free"
Single(r) == Sense(r) \in {"le", "ge", "eq"}
\* shifted_bounds; infinite bounds stay.
Shift(v, c) == IF Finite(v) THEN v - c ELSE v

---------------------------------------------------------------------------
(* Cones: a sequence of affine terms, the bound first.                     *)
Cone(terms) == [aff |-> terms]
InCone(values) ==
  /\ values[1] >= 0
  /\ values[1] * values[1] >= FoldSet(LAMBDA i, s : s + values[i] * values[i], 0, 2 .. Len(values))

\* soc.rs: a sum of squares below a single square, over a bound variable that
\* cannot be negative.  The square roots of the scales are exact here.
Root(n) == CHOOSE k \in 0 .. n : k * k = n
Half(p, i) == p.h[<<i, i>>] \div 2
Diagonal(p) == {ij[1] : ij \in DOMAIN p.h}
Positive(p) == {i \in Diagonal(p) : Half(p, i) > 0}
Negative(p) == {i \in Diagonal(p) : Half(p, i) < 0}
ConeShaped(vars, r) ==
  /\ Sense(r) = "le" /\ DOMAIN r.poly.t = {} /\ r.poly.c = r.hi
  /\ \A ij \in DOMAIN r.poly.h : ij[1] = ij[2]
  /\ Cardinality(Negative(r.poly)) = 1 /\ Positive(r.poly) # {}
DetectedSoc(vars, r) ==
  /\ ConeShaped(vars, r)
  /\ \A t \in Negative(r.poly) : vars[t].lb >= 0
Sorted(S) == SortSeq(SetToSeq(S), <)
SocForm(r) ==
  LET t == CHOOSE i \in Negative(r.poly) : TRUE
      over == Sorted(Positive(r.poly))
  IN  Cone(<<Affine(0, [i \in {t} |-> 1])>> \o
           [k \in DOMAIN over |->
              Affine(0, [i \in {over[k]} |-> Root(Half(r.poly, over[k]) \div (-Half(r.poly, t)))])])

---------------------------------------------------------------------------
(* Symmetric matrices, by the entries of their upper triangle, column by   *)
(* column: entry (i, j), i <= j, at position j (j - 1) / 2 + i.            *)
TriangleLen(n) == (n * (n + 1)) \div 2
Entry(i, j) == TriangleLen(Max({i, j}) - 1) + Min({i, j})
Minor(M, S) ==
  LET s == Sorted(S)
      e(i, j) == M[Entry(s[i], s[j])]
  IN  CASE Len(s) = 1 -> e(1, 1)
        [] Len(s) = 2 -> e(1, 1) * e(2, 2) - e(1, 2) * e(1, 2)
        [] Len(s) = 3 -> e(1, 1) * e(2, 2) * e(3, 3) + 2 * e(1, 2) * e(2, 3) * e(1, 3)
                         - e(1, 1) * e(2, 3) * e(2, 3) - e(2, 2) * e(1, 3) * e(1, 3)
                         - e(3, 3) * e(1, 2) * e(1, 2)
\* Positive semidefinite: every principal minor is nonnegative.
Semidefinite(n, M) == \A S \in SUBSET (1 .. n) : S # {} => Minor(M, S) >= 0

---------------------------------------------------------------------------
(* The meaning of a model at a point.                                      *)
Between(lo, v, hi) == (Finite(lo) => lo <= v) /\ (Finite(hi) => v <= hi)
InDomain(v, x) == (IsSemi(v) /\ x = 0) \/ Between(IF IsSemi(v) THEN v.semi ELSE v.lb, x, v.ub)
OneOf(type, positions) == \* SOS1: one position; SOS2: two neighbours
  Cardinality(positions) <= type /\ \A i, j \in positions : j - i < type
Feasible(m, x) ==
  /\ \A i \in DOMAIN m.vars : InDomain(m.vars[i], x[i])
  /\ \A i \in DOMAIN m.rows : Between(m.rows[i].lo, At(m.rows[i].poly, x), m.rows[i].hi)
  /\ \A i \in DOMAIN m.socs :
       m.socs[i].active => InCone([k \in DOMAIN m.socs[i].aff |-> At(m.socs[i].aff[k], x)])
  /\ \A i \in DOMAIN m.psds :
       m.psds[i].active => Semidefinite(m.psds[i].n, [k \in DOMAIN m.psds[i].tri |-> At(m.psds[i].tri[k], x)])
  /\ \A i \in DOMAIN m.inds :
       m.inds[i].active /\ x[m.inds[i].trigger] = m.inds[i].value
         => Between(m.inds[i].lo, At(m.inds[i].poly, x), m.inds[i].hi)
  /\ \A i \in DOMAIN m.soss :
       m.soss[i].active => OneOf(m.soss[i].type, {k \in DOMAIN m.soss[i].over : x[m.soss[i].over[k]] # 0})
Objective(m, x) == IF m.obj = None THEN 0 ELSE At(m.obj[1].poly, x)
Maximizes(m) == m.obj # None /\ m.obj[1].max
ObjectivePoly(m) == IF m.obj = None THEN Affine(0, <<>>) ELSE m.obj[1].poly

Actives(s) == SelectSeq([i \in DOMAIN s |-> i], LAMBDA i : s[i].active)
\* classify.rs: the most general class of the model, and whether something is
\* discrete.
IsMixed(m) ==
  \/ \E i \in DOMAIN m.vars : m.vars[i].int \/ IsSemi(m.vars[i])
  \/ Actives(m.soss) # <<>>
HasQuadraticRow(m) ==
  \E i \in DOMAIN m.rows : ~IsAffine(m.rows[i].poly) /\ ~DetectedSoc(m.vars, m.rows[i])
HasCones(m) == Actives(m.socs) # <<>> \/ \E i \in DOMAIN m.rows : DetectedSoc(m.vars, m.rows[i])
Class(m) ==
  CASE HasQuadraticRow(m) -> "QCP"
    [] ~HasQuadraticRow(m) /\ Actives(m.psds) # <<>> -> "SDP"
    [] ~HasQuadraticRow(m) /\ Actives(m.psds) = <<>> /\ HasCones(m) -> "SOCP"
    [] OTHER -> IF IsAffine(ObjectivePoly(m)) THEN "LP" ELSE "QP"

\* What a parameter or a bound edit reaches (ParameterTarget), and the data
\* that the target names.
Targets(m) ==
  {<<"objective", 1>>} \cup ({"bound"} \X DOMAIN m.vars) \cup ({"row"} \X DOMAIN m.rows)
  \cup ({"soc"} \X DOMAIN m.socs) \cup ({"psd"} \X DOMAIN m.psds) \cup ({"indicator"} \X DOMAIN m.inds)
Datum(m, t) ==
  CASE t[1] = "objective" -> m.obj
    [] t[1] = "bound" -> m.vars[t[2]]
    [] t[1] = "row" -> m.rows[t[2]]
    [] t[1] = "soc" -> m.socs[t[2]]
    [] t[1] = "psd" -> m.psds[t[2]]
    [] t[1] = "indicator" -> m.inds[t[2]]

---------------------------------------------------------------------------
(* What an adapter keeps of a model to tell, at the next solve, an edit of  *)
(* costs and bounds from any other (oximo-solver incremental.rs).  The      *)
(* fingerprint is the structure itself, without collisions; names, which    *)
(* no edit here changes, are left out.                                      *)
Costs(m) == [i \in DOMAIN m.vars |-> IF i \in DOMAIN ObjectivePoly(m).t THEN ObjectivePoly(m).t[i] ELSE 0]
Limits(v) == [lb |-> v.lb, ub |-> v.ub]

\* hash_header and hash_row.
HashedHeader(v) == [int |-> v.int, semi |-> v.semi, init |-> v.init]
HashedRow(r) == [t |-> r.poly.t, lo |-> Shift(r.lo, r.poly.c), hi |-> Shift(r.hi, r.poly.c)]
HashedIndicator(ind) == HashedRow(ind) @@ [trigger |-> ind.trigger, value |-> ind.value]
\* Inactive sets and indicators leave no trace in the fingerprint.
ActiveIndicators(m) == SelectSeq(m.inds, LAMBDA ind : ind.active)
Structure(m) ==
  [max |-> Maximizes(m),
   vars |-> [i \in DOMAIN m.vars |-> HashedHeader(m.vars[i])],
   rows |-> [i \in DOMAIN m.rows |-> HashedRow(m.rows[i])],
   soss |-> SelectSeq(m.soss, LAMBDA sos : sos.active),
   inds |-> [k \in DOMAIN ActiveIndicators(m) |-> HashedIndicator(ActiveIndicators(m)[k])]]

Snapshot(m) ==
  [costs |-> Costs(m), constant |-> ObjectivePoly(m).c,
   bounds |-> [i \in DOMAIN m.vars |-> Limits(m.vars[i])], structure |-> Structure(m)]

\* refresh_snapshot: when only the objective and bounds changed, the rows are
\* not read again.
RowsChanged(full, targets) == full \/ \E t \in targets : t[1] \notin {"objective", "bound"}
RefreshSnapshot(base, m, full, targets) ==
  IF RowsChanged(full, targets) THEN Snapshot(m)
  ELSE [base EXCEPT
          !.costs = IF <<"objective", 1>> \in targets THEN Costs(m) ELSE @,
          !.constant = IF <<"objective", 1>> \in targets THEN ObjectivePoly(m).c ELSE @,
          !.bounds = [i \in DOMAIN @ |-> IF <<"bound", i>> \in targets THEN Limits(m.vars[i]) ELSE @[i]]]

---------------------------------------------------------------------------
(* Results (oximo-solver reconstruct.rs).                                  *)
Magnitude(v) == IF v < 0 THEN -v ELSE v
\* ObjectiveTransform::restore.
Restored(value, sign, offset) == sign * value + offset
\* A result may claim a feasible dual point only with a multiplier for some
\* active row, if there is one, and for some active cone, if there is one.
RequireActiveDualEvidence(answer, rows, cones) ==
  IF /\ answer.claim = "FeasiblePoint"
     /\ \/ rows # {} /\ rows \cap DOMAIN answer.dual = {}
        \/ cones # {} /\ ~\E i \in cones \cap DOMAIN answer.cones : answer.cones[i] >= 0
  THEN [answer EXCEPT !.claim = "Unknown"] ELSE answer

---------------------------------------------------------------------------
(* Models as the file formats see them.  A name is a sequence of parts, so *)
(* that a suffix is one part and two spellings of a name are one value;    *)
(* the empty name is <<>>.                                                 *)

Variable(name, dom, lb, ub, threshold) ==
  [name |-> name, dom |-> dom, lb |-> lb, ub |-> ub, semi |-> threshold, init |-> <<>>,
   int |-> dom \in {"integer", "binary", "semiinteger"}]
NamedRow(name, poly, lo, hi) == [name |-> name, poly |-> poly, lo |-> lo, hi |-> hi, active |-> TRUE]
Gated(row, trigger, value) == row @@ [trigger |-> trigger, value |-> value]
SosSet(name, type, over, weights) ==
  [name |-> name, type |-> type, over |-> over, weights |-> weights, active |-> TRUE]
FileModel(vars, obj, rows, inds, soss) ==
  [vars |-> vars, obj |-> obj, rows |-> rows, inds |-> inds, soss |-> soss, socs |-> <<>>, psds |-> <<>>]

ActiveOf(s) == SelectSeq(s, LAMBDA r : r.active)
NamesOf(s) == [k \in DOMAIN s |-> s[k].name]
Distinct(s) == FoldLeft(LAMBDA acc, e : IF Contains(acc, e) THEN acc ELSE Append(acc, e), <<>>, s)
Repeats(s) == Cardinality(ToSet(s)) < Len(s)
Before(a, b) == a[1] < b[1] \/ (a[1] = b[1] /\ a[2] < b[2])
Pairs(h) == SortSeq(SetToSeq(DOMAIN h), Before)
\* The nonzero sums of entries <<key, number>>.
Summed(entries) ==
  LET total == [k \in {entries[n][1] : n \in DOMAIN entries} |->
                  FoldLeft(LAMBDA s, e : IF e[1] = k THEN s + e[2] ELSE s, 0, entries)]
  IN  [k \in {j \in DOMAIN total : total[j] # 0} |-> total[k]]
Ordered(i, j) == IF i >= j THEN <<i, j>> ELSE <<j, i>>
\* c x_i x_j as a second derivative.
Curvature(i, j, c) == <<Ordered(i, j), IF i = j THEN 2 * c ELSE c>>

\* The side of a row with one side, net of the constant of its expression.
RowSide(r) == (IF Sense(r) = "ge" THEN r.lo ELSE r.hi) - r.poly.c

\* Cones have no place in LP and MPS files.
NoCones(m) == ActiveOf(m.psds) = <<>> /\ ActiveOf(m.socs) = <<>> /\ Class(m) # "SOCP"

\* A feasibility model has nothing to optimize; it is written as Minimize 0.
ExportTerms(m) == IF m.obj = None THEN [max |-> FALSE, poly |-> Affine(0, <<>>)] ELSE m.obj[1]

---------------------------------------------------------------------------
(* n was read from a file of m; at[i] is the variable of n that holds       *)
(* variable i of m, or 0 for one that the file did not mention.             *)
Untouched(v) == v.dom = "real" /\ v.lb = 0 /\ v.ub = Inf
Constant(p) == DOMAIN p.t = {} /\ DOMAIN p.h = {}
Carried(x, at, n) == [j \in DOMAIN n.vars |-> x[CHOOSE i \in DOMAIN at : at[i] = j]]
\* A binary variable may come back as an integer one with the same bounds.
SameDomain(dom, read) == read = dom \/ (dom = "binary" /\ read = "integer")
SameModel(m, n, at, points) ==
  /\ \A j \in DOMAIN n.vars : \E i \in DOMAIN m.vars : at[i] = j
  /\ \A i \in DOMAIN m.vars : at[i] = 0 => Untouched(m.vars[i])
  /\ \A i \in DOMAIN m.vars : at[i] # 0 => SameDomain(m.vars[i].dom, n.vars[at[i]].dom)
  /\ ~Repeats(NamesOf(n.rows) \o NamesOf(n.inds))
  /\ Maximizes(m) /\ ~Constant(ObjectivePoly(m)) => Maximizes(n)
  /\ \A x \in points :
       LET y == Carried(x, at, n)
       IN  /\ Feasible(m, x) <=> Feasible(n, y) /\ \A i \in DOMAIN at : at[i] = 0 => x[i] >= 0
           /\ ~Constant(ObjectivePoly(m)) => Objective(m, x) = Objective(n, y)
=============================================================================
