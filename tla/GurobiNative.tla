----------------------------- MODULE GurobiNative -----------------------------
(***************************************************************************)
(* The native model the Gurobi adapter builds for a prepared model, the     *)
(* handles it keeps for every source constraint, and the edits it makes to  *)
(* a resident model (oximo-gurobi translate.rs, persistent.rs).             *)
(*                                                                          *)
(* Native rows live in a table by identifier; a removed row frees its       *)
(* identifier.  A row compares t.x + sum q[i, j] x_i x_j with one or two    *)
(* numbers; an indicator's row holds `when` its trigger has the value.      *)
(* Expressions beyond quadratic are left out.                               *)
(***************************************************************************)
EXTENDS SourceModels

NativeRow(kind, sense, t, q, lo, hi) ==
  [kind |-> kind, sense |-> sense, t |-> t, q |-> q, lo |-> lo, hi |-> hi, when |-> <<>>]
\* A comparison of a polynomial with a constant, which the API moves over.
Compared(kind, p, q, sense, rhs) ==
  NativeRow(kind, sense, p.t, q, IF sense \in {"ge", "eq"} THEN rhs - p.c ELSE -Inf,
            IF sense \in {"le", "eq"} THEN rhs - p.c ELSE Inf)
\* sparse_quadratic_terms: second derivatives to coefficients.
Squares(h) == [ij \in DOMAIN h |-> IF ij[1] = ij[2] THEN h[ij] \div 2 ELSE h[ij]]

Rhs(r) == IF Sense(r) = "le" THEN r.hi ELSE r.lo
\* add_constraints: an inactive or a free row has no native row; a quadratic
\* range is two.
NativeRows(r) ==
  CASE ~r.active \/ Sense(r) = "free" -> <<>>
    [] r.active /\ IsAffine(r.poly) /\ Single(r) -> <<Compared("linear", r.poly, <<>>, Sense(r), Rhs(r))>>
    [] r.active /\ IsAffine(r.poly) /\ Sense(r) = "range" ->
         <<NativeRow("range", "range", r.poly.t, <<>>, r.lo - r.poly.c, r.hi - r.poly.c)>>
    [] r.active /\ ~IsAffine(r.poly) /\ Single(r) ->
         <<Compared("quadratic", r.poly, Squares(r.poly.h), Sense(r), Rhs(r))>>
    [] OTHER -> <<Compared("quadratic", r.poly, Squares(r.poly.h), "ge", r.lo),
                  Compared("quadratic", r.poly, Squares(r.poly.h), "le", r.hi)>>
\* The coefficients a single or a range row is kept with.
Coefficients(r) ==
  IF r.active /\ IsAffine(r.poly) /\ Sense(r) # "free" THEN <<r.poly.t>> ELSE None

\* add_squared_affine, summed: the terms squared less the bound squared.
ConeSign(k) == IF k = 1 THEN -1 ELSE 1
Coefficient(p, i) == IF i \in DOMAIN p.t THEN p.t[i] ELSE 0
SumOver(aff, value(_)) == FoldSet(LAMBDA k, s : s + ConeSign(k) * value(aff[k]), 0, DOMAIN aff)
ConeVars(aff) == UNION {DOMAIN aff[k].t : k \in DOMAIN aff}
SquaredCone(aff) ==
  LET pair(ij, p) == (IF ij[1] = ij[2] THEN 1 ELSE 2) * Coefficient(p, ij[1]) * Coefficient(p, ij[2])
  IN  NativeRow("quadratic", "le",
        [i \in ConeVars(aff) |-> SumOver(aff, LAMBDA p : 2 * Coefficient(p, i) * p.c)],
        [ij \in {e \in ConeVars(aff) \X ConeVars(aff) : e[1] >= e[2]} |-> SumOver(aff, LAMBDA p : pair(ij, p))],
        -Inf, -SumOver(aff, LAMBDA p : p.c * p.c))
\* add_soc_rows: with the sign of the bound.
SocRows(soc) == <<SquaredCone(soc.aff), Compared("linear", soc.aff[1], <<>>, "ge", 0)>>

\* add_indicator_constraints: a range is two.
IndicatorRows(ind) ==
  LET row(sense, rhs) ==
        [Compared("general", ind.poly, <<>>, sense, rhs) EXCEPT !.when = <<ind.trigger, ind.value>>]
  IN  CASE Single(ind) -> <<row(Sense(ind), Rhs(ind))>>
        [] Sense(ind) = "range" -> <<row("ge", ind.lo), row("le", ind.hi)>>
        [] OTHER -> <<>>

---------------------------------------------------------------------------
(* The table of rows and the handles.                                      *)
FreeId(rows) == Min({n \in 1 .. Cardinality(DOMAIN rows) + 1 : n \notin DOMAIN rows})
AddRows(native, rows) ==
  FoldLeft(LAMBDA r, row : LET id == FreeId(r.native.rows)
                           IN  [native |-> [r.native EXCEPT !.rows = @ @@ (id :> row)],
                                ids |-> Append(r.ids, id)],
           [native |-> native, ids |-> <<>>], rows)
RemoveRows(native, ids) ==
  LET gone == {ids[k] : k \in DOMAIN ids}
  IN  [native EXCEPT !.rows = [n \in DOMAIN @ \ gone |-> @[n]]]

\* ConstraintHandle: the native rows, and the coefficients of a linear one;
\* a range row also owns its slack.
Group(ids, r) == [rows |-> ids, slack |-> IsAffine(r.poly) /\ r.active /\ Sense(r) = "range",
                  coefficients |-> Coefficients(r)]
AddGroup(native, m, i) ==
  LET added == AddRows(native, NativeRows(m.rows[i]))
  IN  [added.native EXCEPT !.groups[i] = Group(added.ids, m.rows[i])]
\* SocHandle: the squared row, the sign row, and the bound to price it with.
SocHandle(i, ids, soc) == [id |-> i, rows |-> ids, bound |-> soc.aff[1]]
AddSoc(native, m, i) ==
  LET added == AddRows(native, SocRows(m.socs[i]))
  IN  [added.native EXCEPT !.socs = Append(@, SocHandle(i, added.ids, m.socs[i]))]
AddIndicator(native, m, i) ==
  LET added == AddRows(native, IndicatorRows(m.inds[i]))
  IN  [added.native EXCEPT !.inds = Append(@, [id |-> i, rows |-> added.ids])]

\* add_variables: the lower bound of a semi-continuous one is its threshold.
Column(v) == [lb |-> IF IsSemi(v) THEN v.semi ELSE v.lb, ub |-> v.ub, int |-> v.int, semi |-> IsSemi(v)]
\* set_objective: the API takes the constant as well.
NoObjective(m) == [costs |-> [i \in DOMAIN m.vars |-> 0], constant |-> 0, quad |-> <<>>, max |-> FALSE]
PolynomialObjective(m) ==
  [costs |-> Costs(m), constant |-> ObjectivePoly(m).c, quad |-> Squares(ObjectivePoly(m).h),
   max |-> Maximizes(m)]
HasSemi(m) == \E i \in DOMAIN m.vars : IsSemi(m.vars[i])
Empty(m) ==
  [cols |-> [i \in DOMAIN m.vars |-> Column(m.vars[i])],
   obj |-> IF m.obj = None THEN NoObjective(m) ELSE PolynomialObjective(m),
   rows |-> <<>>, groups |-> [i \in DOMAIN m.rows |-> [rows |-> <<>>, slack |-> FALSE, coefficients |-> None]],
   socs |-> <<>>, inds |-> <<>>, soss |-> SelectSeq(m.soss, LAMBDA s : s.active), semi |-> HasSemi(m)]
WithGroups(native, m) == FoldLeft(LAMBDA n, i : AddGroup(n, m, i), native, [i \in DOMAIN m.rows |-> i])
WithSocs(native, m) == FoldLeft(LAMBDA n, i : AddSoc(n, m, i), native, Actives(m.socs))
WithIndicators(native, m) == FoldLeft(LAMBDA n, i : AddIndicator(n, m, i), native, Actives(m.inds))
BuildNative(m) == WithIndicators(WithSocs(WithGroups(Empty(m), m), m), m)
GurobiAccepts(m) == Actives(m.psds) = <<>>

---------------------------------------------------------------------------
(* Built::refresh: one edit or replacement for each changed target.        *)
Refused(native) == [ok |-> FALSE, native |-> native]
Edited(native) == [ok |-> TRUE, native |-> native]
RefreshObjective(native, m) ==
  [native EXCEPT !.obj = IF m.obj = None THEN NoObjective(m) ELSE PolynomialObjective(m)]
RefreshBound(native, m, i) == [native EXCEPT !.cols[i].lb = m.vars[i].lb, !.cols[i].ub = m.vars[i].ub]
\* A row that was single and linear, and still is, keeps its native row: old
\* coefficients are cleared and the new ones written.
KeepsRow(group, r) ==
  /\ IsAffine(r.poly) /\ Single(r) /\ group.coefficients # None
  /\ Len(group.rows) = 1 /\ ~group.slack
RefreshCoefficients(native, m, i) ==
  LET group == native.groups[i]
      r == m.rows[i]
      written == r.poly.t @@ [v \in DOMAIN group.coefficients[1] |-> 0]
  IN  [native EXCEPT
         !.rows[group.rows[1]].t = written @@ @,
         !.rows[group.rows[1]].lo = IF Sense(r) \in {"ge", "eq"} THEN r.lo - r.poly.c ELSE @,
         !.rows[group.rows[1]].hi = IF Sense(r) \in {"le", "eq"} THEN r.hi - r.poly.c ELSE @,
         !.groups[i].coefficients = <<r.poly.t>>]
ReplaceGroup(native, m, i) == AddGroup(RemoveRows(native, native.groups[i].rows), m, i)
RefreshRow(native, m, i) ==
  CASE ~m.rows[i].active -> native
    [] m.rows[i].active /\ KeepsRow(native.groups[i], m.rows[i]) -> RefreshCoefficients(native, m, i)
    [] OTHER -> ReplaceGroup(native, m, i)
\* Cones and indicators are replaced in their place.
Position(handles, i) == {k \in DOMAIN handles : handles[k].id = i}
WithRows(handles, k, ids) == [handles EXCEPT ![k].rows = ids]
RefreshSoc(native, m, i) ==
  IF ~m.socs[i].active THEN Edited(native)
  ELSE IF Position(native.socs, i) = {} THEN Refused(native)
  ELSE LET k == CHOOSE j \in Position(native.socs, i) : TRUE
           added == AddRows(RemoveRows(native, native.socs[k].rows), SocRows(m.socs[i]))
       IN  Edited([added.native EXCEPT !.socs[k] = SocHandle(i, added.ids, m.socs[i])])
RefreshIndicator(native, m, i) ==
  IF ~m.inds[i].active THEN Edited(native)
  ELSE IF Position(native.inds, i) = {} THEN Refused(native)
  ELSE LET k == CHOOSE j \in Position(native.inds, i) : TRUE
           added == AddRows(RemoveRows(native, native.inds[k].rows), IndicatorRows(m.inds[i]))
       IN  Edited([added.native EXCEPT !.inds = WithRows(@, k, added.ids)])
RefreshTarget(native, m, target) ==
  CASE target[1] = "objective" -> Edited(RefreshObjective(native, m))
    [] target[1] = "bound" -> Edited(RefreshBound(native, m, target[2]))
    [] target[1] = "row" -> Edited(RefreshRow(native, m, target[2]))
    [] target[1] = "soc" -> RefreshSoc(native, m, target[2])
    [] target[1] = "indicator" -> RefreshIndicator(native, m, target[2])
    [] OTHER -> Refused(native)
\* More than sixteen groups to replace, and more than an eighth of them all,
\* are faster built again.
ReplacementLimit == 16
IsReplacement(native, m, t) ==
  CASE t[1] = "row" -> m.rows[t[2]].active /\ ~KeepsRow(native.groups[t[2]], m.rows[t[2]])
    [] t[1] = "soc" -> m.socs[t[2]].active
    [] t[1] = "indicator" -> m.inds[t[2]].active
    [] OTHER -> FALSE
HeldGroups(native) ==
  Cardinality({i \in DOMAIN native.groups : native.groups[i].rows # <<>>}) + Len(native.socs) + Len(native.inds)
ManyReplacements(native, m, targets) ==
  LET n == Cardinality({t \in targets : IsReplacement(native, m, t)})
  IN  n > Max({ReplacementLimit, (HeldGroups(native) + 7) \div 8})
RefreshNative(native, m, full, targets) ==
  IF full \/ native.semi \/ ManyReplacements(native, m, targets) THEN Refused(native)
  ELSE FoldSet(LAMBDA t, r : IF r.ok THEN RefreshTarget(r.native, m, t) ELSE r, Edited(native), targets)

---------------------------------------------------------------------------
(* persistent.rs.  `lazy` marks the models for which the callbacks of       *)
(* earlier solves added rows to the native model.                           *)
GurobiSnapshot(m) == IF Class(m) = "LP" /\ ~HasSemi(m) THEN <<Snapshot(m)>> ELSE None
Resident(native, snap, callback, lazy) == [native |-> native, snap |-> snap, callback |-> callback, lazy |-> lazy]
Rebuilt(m) == Resident(BuildNative(m), GurobiSnapshot(m), FALSE, {})
PushDelta(native, base, snap) ==
  [native EXCEPT
     !.obj.costs = [i \in DOMAIN @ |-> IF base.costs[i] # snap.costs[i] THEN snap.costs[i] ELSE @[i]],
     !.obj.constant = IF base.constant # snap.constant THEN snap.constant ELSE @,
     !.cols = [i \in DOMAIN @ |->
        [@[i] EXCEPT !.lb = IF base.bounds[i].lb # snap.bounds[i].lb THEN snap.bounds[i].lb ELSE @,
                     !.ub = IF base.bounds[i].ub # snap.bounds[i].ub THEN snap.bounds[i].ub ELSE @]]]
\* A model that callbacks have added rows to is used again only unchanged.
\* Fault: only an edit of the model rebuilds, a parameter does not.
RebuildAfterEdits(state, full, targets) == state.callback /\ full
CallbackRebuild(state, full, targets) == state.callback /\ (full \/ targets # {})
GurobiUpdate(state, m, full, targets) ==
  LET refreshed == RefreshNative(state.native, m, full, targets)
      kept == state.snap # None /\ ~RowsChanged(full, targets) /\ Class(m) = "LP"
      delta == state.snap # None /\ Class(m) = "LP" /\ state.snap[1].structure = Structure(m)
  IN  CASE CallbackRebuild(state, full, targets) -> Rebuilt(m)
        [] ~CallbackRebuild(state, full, targets) /\ refreshed.ok ->
             Resident(refreshed.native,
                      IF kept THEN <<RefreshSnapshot(state.snap[1], m, full, targets)>> ELSE None,
                      state.callback, state.lazy)
        [] ~CallbackRebuild(state, full, targets) /\ ~refreshed.ok /\ delta ->
             Resident(PushDelta(refreshed.native, state.snap[1], Snapshot(m)), <<Snapshot(m)>>,
                      state.callback, state.lazy)
        [] OTHER -> Rebuilt(m)
\* A solve with callbacks may leave rows valid for this model only.
WithCallback(state, mark) == [state EXCEPT !.callback = TRUE, !.lazy = @ \cup {mark}]
GurobiRetain(state, m, full, targets, callback, mark) ==
  LET updated == GurobiUpdate(state, m, full, targets)
  IN  IF callback THEN WithCallback(updated, mark) ELSE updated

---------------------------------------------------------------------------
(* What the native model means at a point.                                 *)
CrossTerms(q, x) == FoldSet(LAMBDA ij, s : s + q[ij] * x[ij[1]] * x[ij[2]], 0, DOMAIN q)
RowHolds(row, x) ==
  (row.when = <<>> \/ x[row.when[1]] = row.when[2])
    => Between(row.lo, Dot(row.t, x) + CrossTerms(row.q, x), row.hi)
GurobiHolds(state, x) ==
  /\ \A i \in DOMAIN state.native.cols :
       \/ state.native.cols[i].semi /\ x[i] = 0
       \/ Between(state.native.cols[i].lb, x[i], state.native.cols[i].ub)
  /\ \A n \in DOMAIN state.native.rows : RowHolds(state.native.rows[n], x)
  /\ \A k \in DOMAIN state.native.soss :
       OneOf(state.native.soss[k].type,
             {j \in DOMAIN state.native.soss[k].over : x[state.native.soss[k].over[j]] # 0})
GurobiObjective(state, x) ==
  Dot(state.native.obj.costs, x) + CrossTerms(state.native.obj.quad, x) + state.native.obj.constant
\* collect_solution adds the multipliers of a group, and read_iis names a
\* source when one of its rows is in the subsystem: every native row has one
\* owner.
Owners(native, n) ==
  {<<"row", i>> : i \in {j \in DOMAIN native.groups : \E k \in DOMAIN native.groups[j].rows : native.groups[j].rows[k] = n}}
  \cup {<<"soc", native.socs[k].id>> : k \in {j \in DOMAIN native.socs : \E l \in DOMAIN native.socs[j].rows : native.socs[j].rows[l] = n}}
  \cup {<<"indicator", native.inds[k].id>> :
          k \in {j \in DOMAIN native.inds : \E l \in DOMAIN native.inds[j].rows : native.inds[j].rows[l] = n}}

---------------------------------------------------------------------------
(* Results.  A report is [status, points, readable, direct, price, bound]:  *)
(* the points Gurobi holds, best first, how many of the pool can be read    *)
(* one by one and whether the best can be read directly, the multipliers by *)
(* native row and the reduced costs, if it has them, and the bound.         *)
map_status(status) ==
  CASE status \in {"Optimal", "Infeasible", "Unbounded", "TimeLimit", "IterationLimit", "NodeLimit", "Interrupted",
                   "SolutionLimit", "WorkLimit", "LocallyOptimal", "LocallyInfeasible"} -> status
    [] status = "InfOrUnbd" -> "InfeasibleOrUnbounded"
    [] status = "Numeric" -> "NumericError"
    [] status \in {"CutOff", "UserObjLimit"} -> "ObjectiveLimit"
    [] status = "MemLimit" -> "MemoryLimit"
    [] status = "SubOptimal" -> "Feasible"
    [] status = "Loaded" -> "NotSolved"
    [] OTHER -> "Other"
supports_dual_attributes(m) == ~IsMixed(m) /\ Class(m) \in {"LP", "QP", "QCP", "SOCP"}
collect_incumbent(report) ==
  [report.points[1] EXCEPT !.primal = IF report.direct THEN @ ELSE <<>>]
\* Fault: a pool that cannot be read leaves no point.
ReadablePool(report) ==
  IF Len(report.points) = 1 THEN <<collect_incumbent(report)>> ELSE SubSeq(report.points, 1, report.readable)
\* A pool that cannot be read at all is the incumbent alone.
collect_pool(report) ==
  LET pool == SubSeq(report.points, 1, report.readable)
  IN  IF Len(report.points) = 1 \/ pool = <<>> THEN <<collect_incumbent(report)>> ELSE pool
RowDuals(native, price) ==
  LET priced(i) == {n \in DOMAIN price : \E k \in DOMAIN native.groups[i].rows : native.groups[i].rows[k] = n}
  IN  [i \in {j \in DOMAIN native.groups : priced(j) # {}} |-> FoldSet(LAMBDA n, s : s + price[n], 0, priced(i))]
\* A squared row prices the bound through twice its value; what the point does
\* not have counts as zero.
ConeDuals(native, primal, price) ==
  LET priced == {k \in DOMAIN native.socs : native.socs[k].rows[1] \in DOMAIN price}
      value(bound) == At(bound, [i \in DOMAIN bound.t |-> IF i \in DOMAIN primal THEN primal[i] ELSE 0])
      handle(i) == CHOOSE k \in priced : native.socs[k].id = i
  IN  [i \in {native.socs[k].id : k \in priced} |->
         2 * value(native.socs[handle(i)].bound) * Magnitude(price[native.socs[handle(i)].rows[1]])]
Unpriced(points, claim) == [points |-> points, dual |-> <<>>, cones |-> <<>>, reduced |-> <<>>, claim |-> claim]
Priced(native, points, report) ==
  LET dual == RowDuals(native, report.price)
  IN  [points |-> points, dual |-> dual, cones |-> ConeDuals(native, points[1].primal, report.price),
       reduced |-> report.reduced,
       claim |-> IF report.reduced # <<>> \/ dual # <<>> THEN "FeasiblePoint" ELSE "Unknown"]
collect_solution(native, m, report) ==
  CASE report.points = <<>> -> Unpriced(<<>>, "NoSolution")
    [] report.points # <<>> /\ ~supports_dual_attributes(m) -> Unpriced(collect_pool(report), "NoSolution")
    [] OTHER -> Priced(native, collect_pool(report), report)
GurobiAnswer(native, m, report) ==
  collect_solution(native, m, report) @@ [termination |-> map_status(report.status), bound |-> report.bound]

\* compute_iis_resident: an ambiguous verdict is decided by a solve without dual
\* reductions, whose status is `second`, or <<>> when it fails.
Verdict(status, second) ==
  CASE map_status(status) # "InfeasibleOrUnbounded" -> map_status(status)
    [] map_status(status) = "InfeasibleOrUnbounded" /\ second = None -> "Error"
    [] OTHER -> map_status(second[1])
compute_iis_resident(native, status, second, selected, minimal) ==
  IF Verdict(status, second) \in {"Infeasible", "InfeasibleOrUnbounded"} /\ minimal
  THEN <<UNION {Owners(native, n) : n \in selected}>> ELSE None
=============================================================================
