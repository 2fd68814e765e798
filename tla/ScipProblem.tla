------------------------------ MODULE ScipProblem ------------------------------
(***************************************************************************)
(* The problem the SCIP adapter builds for a prepared model, appends to when*)
(* the model only grew, and edits when only linear coefficients changed     *)
(* (oximo-scip translate.rs, persistent.rs); and the certificate that       *)
(* recovered prices must pass (result.rs).                                  *)
(*                                                                          *)
(* Native columns are a sequence; `vars` is the native column of each       *)
(* variable of the model, as later variables follow auxiliary columns.      *)
(***************************************************************************)
EXTENDS SourceModels

\* Snapshot::prepare_view: the model without its starts.
ScipColumn(v) == [lb |-> v.lb, ub |-> v.ub, int |-> v.int, semi |-> v.semi]
Body(m) == ObjectivePoly(m)
ScipSnapshot(m) ==
  [columns |-> [i \in DOMAIN m.vars |-> ScipColumn(m.vars[i])], rows |-> m.rows, cones |-> m.socs,
   sets |-> m.soss, indicators |-> m.inds, objective |-> Body(m), max |-> Maximizes(m), kind |-> Class(m)]
\* Snapshot::refresh: what the changed targets name is prepared again.
RefreshEntry(snap, m, t) ==
  LET i == t[2]
  IN  CASE t[1] = "objective" -> [snap EXCEPT !.objective = Body(m)]
        [] t[1] = "bound" -> [snap EXCEPT !.columns[i].lb = m.vars[i].lb, !.columns[i].ub = m.vars[i].ub]
        [] t[1] = "row" -> [snap EXCEPT !.rows[i].poly = m.rows[i].poly]
        [] t[1] = "soc" -> [snap EXCEPT !.cones[i] = m.socs[i]]
        [] t[1] = "indicator" -> [snap EXCEPT !.indicators[i] = m.inds[i]]
        [] OTHER -> ScipSnapshot(m)
RefreshScip(snap, m, full, targets) ==
  IF full THEN ScipSnapshot(m)
  ELSE FoldSet(LAMBDA t, s : RefreshEntry(s, m, t), [snap EXCEPT !.kind = Class(m)], targets)
ScipAccepts(m) == Actives(m.psds) = <<>>

CostOf(p, i) == IF i \in DOMAIN p.t THEN p.t[i] ELSE 0
\* extends: everything that was is a prefix; costs of old columns included.
Extends(snap, old) ==
  /\ snap.max = old.max
  /\ IsPrefix(old.columns, snap.columns) /\ IsPrefix(old.rows, snap.rows)
  /\ IsPrefix(old.cones, snap.cones) /\ IsPrefix(old.sets, snap.sets)
  /\ IsPrefix(old.indicators, snap.indicators)
  /\ IF IsAffine(snap.objective) /\ IsAffine(old.objective)
     THEN /\ snap.objective.c = old.objective.c
          /\ \A i \in DOMAIN old.columns : CostOf(snap.objective, i) = CostOf(old.objective, i)
     ELSE snap.objective = old.objective
\* linear_edits_compatible: rows keep their bounds and their constant.  (That
\* the difference of two coefficients is exact is a matter of floats.)
LinearEdit(a, b) ==
  /\ a.lo <= a.hi /\ a.lo = b.lo /\ a.hi = b.hi /\ a.active = b.active
  /\ IsAffine(a.poly) /\ IsAffine(b.poly) /\ a.poly.c = b.poly.c
LinearEditsCompatible(snap, old) ==
  /\ \A f \in {"columns", "objective", "max", "cones", "sets", "indicators"} : snap[f] = old[f]
  /\ Len(snap.rows) = Len(old.rows)
  /\ \A i \in DOMAIN snap.rows : snap.rows[i] = old.rows[i] \/ LinearEdit(snap.rows[i], old.rows[i])

---------------------------------------------------------------------------
(* Native columns and constraints, over native columns.                    *)
NativeColumn(lb, ub, int, semi, cost) == [lb |-> lb, ub |-> ub, int |-> int, semi |-> semi, cost |-> cost]
Constraint(kind, data) == [kind |-> kind, data |-> data]
\* A polynomial over native columns.
Native(p, vars) ==
  Poly(p.c, [k \in {vars[i] : i \in DOMAIN p.t} |-> p.t[CHOOSE i \in DOMAIN p.t : vars[i] = k]],
       [kl \in {<<vars[ij[1]], vars[ij[2]]>> : ij \in DOMAIN p.h} |->
          p.h[CHOOSE ij \in DOMAIN p.h : <<vars[ij[1]], vars[ij[2]]>> = kl]])
AddColumn(problem, column) == [problem EXCEPT !.cols = Append(@, column)]
AddConstraint(problem, kind, data) == [problem EXCEPT !.conss = Append(@, Constraint(kind, data))]
Impossible == [poly |-> Affine(0, <<>>), lo |-> 1, hi |-> Inf]

\* Inverted bounds make a column fixed at zero and, unless zero is allowed
\* anyway, a row that cannot hold.
AddVariable(problem, c, cost) ==
  LET lb == IF c.semi > 0 THEN Max({c.lb, c.semi}) ELSE c.lb
      empty == lb > c.ub
      column == IF empty THEN NativeColumn(0, 0, c.int, FALSE, cost)
                ELSE NativeColumn(lb, c.ub, c.int, c.semi > 0, cost)
      added == [AddColumn(problem, column) EXCEPT !.vars = Append(@, Len(problem.cols) + 1)]
  IN  IF empty /\ c.semi = 0 THEN AddConstraint(added, "row", Impossible) ELSE added
\* add_row; the handle of an inactive row is none.
AddRow(problem, r) ==
  IF ~r.active THEN [problem EXCEPT !.rows = Append(@, 0)]
  ELSE LET data == IF r.lo > r.hi THEN Impossible
                   ELSE [poly |-> Native(Poly(0, r.poly.t, r.poly.h), problem.vars),
                         lo |-> Shift(r.lo, r.poly.c), hi |-> Shift(r.hi, r.poly.c)]
       IN  [AddConstraint(problem, "row", data) EXCEPT !.rows = Append(@, Len(problem.conss) + 1)]
AddCone(problem, soc) ==
  IF ~soc.active THEN problem
  ELSE AddConstraint(problem, "cone", [k \in DOMAIN soc.aff |-> Native(soc.aff[k], problem.vars)])
AddSet(problem, set) ==
  IF ~set.active THEN problem
  ELSE AddConstraint(problem, "sos", [type |-> set.type, over |-> [k \in DOMAIN set.over |-> problem.vars[set.over[k]]]])
\* add_indicator: only "at most" and only on a trigger at one, so a trigger at
\* zero has a complement, and a lower bound is negated.
AddHalves(problem, ind, trigger) ==
  LET body == Native(ind.poly, problem.vars)
      half(p, sign, rhs) == AddConstraint(p, "indicator", [trigger |-> trigger, t |-> Times(body.t, sign), rhs |-> rhs])
      upper == IF Finite(ind.hi) THEN half(problem, 1, ind.hi - ind.poly.c) ELSE problem
  IN  IF Finite(ind.lo) THEN half(upper, -1, ind.poly.c - ind.lo) ELSE upper
AddIndicator(problem, ind) ==
  IF ~ind.active \/ (~Finite(ind.lo) /\ ~Finite(ind.hi)) THEN problem
  ELSE IF ind.value = 1 THEN AddHalves(problem, ind, problem.vars[ind.trigger])
  ELSE LET complement == Len(problem.cols) + 1
           defined == AddConstraint(AddColumn(problem, NativeColumn(0, 1, TRUE, FALSE, 0)), "row",
                        [poly |-> Affine(0, [k \in {problem.vars[ind.trigger], complement} |-> 1]), lo |-> 1, hi |-> 1])
       IN  AddHalves(defined, ind, complement)
\* add_objective: a constant is the cost of a column fixed at one, and a
\* quadratic is bounded by an auxiliary column from the side that matters.
AddObjective(problem, snap) ==
  IF IsAffine(snap.objective)
  THEN IF snap.objective.c = 0 THEN problem
       ELSE AddColumn(problem, NativeColumn(1, 1, FALSE, FALSE, snap.objective.c))
  ELSE LET aux == Len(problem.cols) + 1
       IN  AddConstraint(AddColumn(problem, NativeColumn(-Inf, Inf, FALSE, FALSE, 1)), "definition",
             [aux |-> aux, body |-> Native(snap.objective, problem.vars),
              side |-> IF snap.max THEN "ge" ELSE "le"])

From(s, n) == SubSeq(s, n + 1, Len(s))
Lengths(old) == [f \in {"columns", "rows", "cones", "sets", "indicators"} |-> IF old = None THEN 0 ELSE Len(old[1][f])]
LinearCost(snap, i) == IF IsAffine(snap.objective) THEN CostOf(snap.objective, i) ELSE 0
\* Snapshot::append: what lies beyond the old snapshot; the objective's own
\* column only when there was none.
AppendTo(problem, snap, old) ==
  LET n == Lengths(old)
      columns == FoldLeft(LAMBDA p, i : AddVariable(p, snap.columns[i], LinearCost(snap, i)), problem,
                          [k \in 1 .. Len(snap.columns) - n["columns"] |-> n["columns"] + k])
      rows == FoldLeft(AddRow, columns, From(snap.rows, n["rows"]))
      cones == FoldLeft(AddCone, rows, From(snap.cones, n["cones"]))
      sets == FoldLeft(AddSet, cones, From(snap.sets, n["sets"]))
      indicators == FoldLeft(AddIndicator, sets, From(snap.indicators, n["indicators"]))
  IN  IF old = None THEN AddObjective(indicators, snap) ELSE indicators
NoProblem(snap) == [cols |-> <<>>, conss |-> <<>>, vars |-> <<>>, rows |-> <<>>, max |-> snap.max]
BuildScip(snap) == AppendTo(NoProblem(snap), snap, None)

\* update_linear_rows adds the difference of the coefficients.
Change(new, old, i) == CostOf(new, i) - CostOf(old, i)
UpdateRow(problem, new, old, k) ==
  [problem EXCEPT !.conss[k].data.poly.t =
     [c \in (DOMAIN @) \cup {problem.vars[i] : i \in DOMAIN new.t} |->
        (IF c \in DOMAIN @ THEN @[c] ELSE 0)
        + (IF \E i \in DOMAIN problem.vars : problem.vars[i] = c
           THEN Change(new, old, CHOOSE i \in DOMAIN problem.vars : problem.vars[i] = c) ELSE 0)]]
UpdateLinearRows(problem, snap, old) ==
  FoldLeft(LAMBDA p, i : IF snap.rows[i] = old.rows[i] THEN p
                         ELSE UpdateRow(p, snap.rows[i].poly, old.rows[i].poly, p.rows[i]),
           problem, [i \in DOMAIN snap.rows |-> i])

---------------------------------------------------------------------------
(* ScipPersistent::run.  `same` says whether the options are those of the   *)
(* last solve and no plugin is registered.                                  *)
DenseLimit == 16
Dense(snap, full, targets) ==
  ~full /\ Cardinality(targets) > Max({DenseLimit, (Len(snap.rows) + 7) \div 8})
MayEditRows(snap, full, targets) == ~Dense(snap, full, targets) /\ snap.kind # "QP"
ScipRebuilt(snap) == [native |-> BuildScip(snap), snap |-> snap]
Reuse(state, snap, full, targets) ==
  CASE ~full /\ targets = {} -> state.native
    [] (full \/ targets # {}) /\ Extends(snap, state.snap) -> AppendTo(state.native, snap, <<state.snap>>)
    [] OTHER -> UpdateLinearRows(state.native, snap, state.snap)
Reusable(state, snap, full, targets, same) ==
  /\ same
  /\ \/ ~full /\ targets = {}
     \/ Extends(snap, state.snap)
     \/ MayEditRows(snap, full, targets) /\ LinearEditsCompatible(snap, state.snap)
ScipRetain(state, m, full, targets, same) ==
  LET snap == RefreshScip(state.snap, m, full, targets)
  IN  IF Reusable(state, snap, full, targets, same)
      THEN [native |-> Reuse(state, snap, full, targets), snap |-> snap]
      ELSE ScipRebuilt(snap)

---------------------------------------------------------------------------
(* What the native problem means at a point of the model's variables: the   *)
(* auxiliary columns take some value.                                       *)
Auxiliaries(problem) == DOMAIN problem.cols \ {problem.vars[i] : i \in DOMAIN problem.vars}
AuxiliaryValues(problem) == {f \in [Auxiliaries(problem) -> {0, 1}] :
                       \A k \in Auxiliaries(problem) : problem.cols[k].lb <= f[k] /\ f[k] <= problem.cols[k].ub}
PointOf(problem, x, f) ==
  [k \in DOMAIN problem.cols |-> IF k \in DOMAIN f THEN f[k]
                                 ELSE x[CHOOSE i \in DOMAIN problem.vars : problem.vars[i] = k]]
ConstraintHolds(c, y) ==
  CASE c.kind = "row" -> Between(c.data.lo, At(c.data.poly, y), c.data.hi)
    [] c.kind = "cone" -> InCone([k \in DOMAIN c.data |-> At(c.data[k], y)])
    [] c.kind = "sos" -> OneOf(c.data.type, {k \in DOMAIN c.data.over : y[c.data.over[k]] # 0})
    [] c.kind = "indicator" -> y[c.data.trigger] = 1 => Dot(c.data.t, y) <= c.data.rhs
    [] c.kind = "definition" -> TRUE
ColumnHolds(c, v) == (c.semi /\ v = 0) \/ Between(c.lb, v, c.ub)
ScipHolds(state, x) ==
  \E f \in AuxiliaryValues(state.native) :
    LET y == PointOf(state.native, x, f)
    IN  /\ \A k \in DOMAIN y : ColumnHolds(state.native.cols[k], y[k])
        /\ \A k \in DOMAIN state.native.conss : ConstraintHolds(state.native.conss[k], y)
\* The best the auxiliary of the objective can do, when its definition bounds
\* it at all.
Defined(problem, y) ==
  FoldLeft(LAMBDA s, c : IF c.kind # "definition" THEN s
                         ELSE IF c.data.side = (IF problem.max THEN "ge" ELSE "le") THEN s + At(c.data.body, y)
                         ELSE s + (IF problem.max THEN Inf ELSE -Inf), 0, problem.conss)
Bounded(column) == Finite(column.lb) \/ Finite(column.ub)
ScipObjective(state, x) ==
  LET y == PointOf(state.native, x, [k \in Auxiliaries(state.native) |-> 1])
  IN  FoldLeft(LAMBDA s, k : s + (IF k \in Auxiliaries(state.native) /\ ~Bounded(state.native.cols[k]) THEN 0
                                  ELSE state.native.cols[k].cost * y[k]),
               Defined(state.native, y), [k \in DOMAIN y |-> k])

---------------------------------------------------------------------------
(* valid_prices: prices are reported only with a complete certificate, and  *)
(* with one of the two signs.                                               *)
Residual(snap, prices, i) ==
  CostOf(snap.objective, i)
  - FoldSet(LAMBDA r, s : s + prices[r] * CostOf(snap.rows[r].poly, i), 0, DOMAIN snap.rows)
\* Fault: a price needs a bound on its side, active or not.
PricedSide(price, at, lo, hi) ==
  /\ price > 0 => Finite(lo)
  /\ price < 0 => Finite(hi)
\* A price may only push against a bound that the point is at.
Complementary(price, at, lo, hi) ==
  /\ price > 0 => Finite(lo) /\ at = lo
  /\ price < 0 => Finite(hi) /\ at = hi
DirectionOf(snap) == IF snap.max THEN -1 ELSE 1
ValidPrices(snap, x, prices, reduced) ==
  /\ IsAffine(snap.objective)
  /\ \A r \in DOMAIN snap.rows : snap.rows[r].active =>
       /\ IsAffine(snap.rows[r].poly)
       /\ Complementary(DirectionOf(snap) * prices[r], At(snap.rows[r].poly, x), snap.rows[r].lo, snap.rows[r].hi)
  /\ \A i \in DOMAIN snap.columns :
       /\ Complementary(DirectionOf(snap) * reduced[i], x[i], snap.columns[i].lb, snap.columns[i].ub)
       /\ Residual(snap, prices, i) = reduced[i]
=============================================================================
