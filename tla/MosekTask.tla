------------------------------ MODULE MosekTask ------------------------------
(***************************************************************************)
(* The task the MOSEK adapter builds for a prepared model, refreshes in     *)
(* place when parameters change, and edits when only costs and bounds did   *)
(* (oximo-mosek translate.rs, persistent.rs).                               *)
(*                                                                          *)
(* A task has columns, scalar rows, one list of affine expressions (AFEs),  *)
(* and the conic constraints (ACCs) and disjunctions (DJCs) over them.      *)
(* Entries of a matrix cone are stored lower triangle first, column by      *)
(* column, those off the diagonal scaled by the square root of two.         *)
(***************************************************************************)
EXTENDS SourceModels

\* bounds: the key says which of the two numbers count.
BoundKey(lo, hi) ==
  [key |-> CASE ~Finite(lo) /\ ~Finite(hi) -> "FR"
             [] Finite(lo) /\ ~Finite(hi) -> "LO"
             [] ~Finite(lo) /\ Finite(hi) -> "UP"
             [] Finite(lo) /\ Finite(hi) /\ lo = hi -> "FX"
             [] OTHER -> "RA",
   lo |-> IF Finite(lo) THEN lo ELSE 0, hi |-> IF Finite(hi) THEN hi ELSE 0]
Respects(b, v) ==
  /\ b.key \in {"LO", "RA", "FX"} => b.lo <= v
  /\ b.key \in {"UP", "RA", "FX"} => v <= b.hi

Column(v) == [bound |-> BoundKey(v.lb, v.ub), int |-> v.int]
RowOf(r) ==
  [t |-> r.poly.t, h |-> r.poly.h,
   bound |-> BoundKey(Shift(r.lo, r.poly.c), Shift(r.hi, r.poly.c))]

\* put_afe; `root` marks an entry multiplied by the square root of two.
Afe(p, root) == [c |-> p.c, t |-> p.t, h |-> <<>>, root |-> root]
Plain(p) == Afe(p, FALSE)
\* svec_coordinates(n, LowerColumn): the entries (i, j), i >= j.
LowerColumn(n) ==
  LET column(j) == [k \in 1 .. n - j + 1 |-> <<j + k - 1, j>>]
  IN  FoldLeft(LAMBDA s, j : s \o column(j), <<>>, [j \in 1 .. n |-> j])
Svec(psd) ==
  LET order == LowerColumn(psd.n)
  IN  [k \in DOMAIN order |-> Afe(psd.tri[Entry(order[k][1], order[k][2])], order[k][1] # order[k][2])]

\* The AFEs of a conic constraint start at `first`.
Acc(source, domain, first, dim) == [source |-> source, domain |-> domain, first |-> first, dim |-> dim]
AppendAcc(task, source, domain, afes) ==
  [task EXCEPT !.afes = @ \o afes,
               !.accs = Append(@, Acc(source, domain, Len(task.afes) + 1, Len(afes)))]
AppendSoc(task, source, cone) ==
  AppendAcc(task, source, "quadratic", [k \in DOMAIN cone.aff |-> Plain(cone.aff[k])])

\* append_indicators: the trigger holds and so does the row, or it does not.
Atom(domain, afe, shift) == [domain |-> domain, afe |-> afe, shift |-> shift]
Sides(ind, body) ==
  CASE Sense(ind) = "eq" -> <<Atom("zero", body, ind.lo)>>
    [] Sense(ind) = "ge" -> <<Atom("plus", body, ind.lo)>>
    [] Sense(ind) = "le" -> <<Atom("minus", body, ind.hi)>>
    [] Sense(ind) = "range" -> <<Atom("plus", body, ind.lo), Atom("minus", body, ind.hi)>>
    [] OTHER -> <<>>
AppendIndicator(task, m, i) ==
  LET ind == m.inds[i]
      trigger == Len(task.afes) + 1
  IN  [task EXCEPT
         !.afes = @ \o <<Plain(Affine(0, [v \in {ind.trigger} |-> 1])), Plain(ind.poly)>>,
         !.bodies = @ @@ (i :> trigger + 1),
         !.djcs = Append(@, <<<<Atom("zero", trigger, ind.value)>> \o Sides(ind, trigger + 1),
                              <<Atom("zero", trigger, 1 - ind.value)>>>>)]

\* build_base, with the objective of no terms when there is none.
Base(m) ==
  LET p == ObjectivePoly(m)
  IN  [columns |-> [i \in DOMAIN m.vars |-> Column(m.vars[i])],
       costs |-> [i \in DOMAIN m.vars |-> IF i \in DOMAIN p.t THEN p.t[i] ELSE 0],
       cfix |-> p.c, quad |-> p.h, max |-> Maximizes(m),
       rows |-> <<>>, rowOf |-> [i \in DOMAIN m.rows |-> 0],
       afes |-> <<>>, accs |-> <<>>, djcs |-> <<>>, bodies |-> <<>>,
       kind |-> [class |-> Class(m), mixed |-> IsMixed(m)]]

\* build_rows_and_cones: rows that are cones wait until the explicit cones
\* are appended.
AppendRow(task, m, i) ==
  IF DetectedSoc(m.vars, m.rows[i]) THEN task
  ELSE [task EXCEPT !.rows = Append(@, RowOf(m.rows[i])), !.rowOf[i] = Len(task.rows) + 1]
Each(s) == [i \in DOMAIN s |-> i]
Detected(m) == SelectSeq(Each(m.rows), LAMBDA i : DetectedSoc(m.vars, m.rows[i]))
WithRows(task, m) == FoldLeft(LAMBDA t, i : AppendRow(t, m, i), task, Each(m.rows))
WithCones(task, m) ==
  FoldLeft(LAMBDA t, i : AppendSoc(t, <<"soc", i>>, m.socs[i]), task, Actives(m.socs))
WithDetected(task, m) ==
  FoldLeft(LAMBDA t, i : AppendSoc(t, <<"row", i>>, SocForm(m.rows[i])), task, Detected(m))
WithMatrices(task, m) ==
  FoldLeft(LAMBDA t, i : AppendAcc(t, <<"psd", i>>, "matrix", Svec(m.psds[i])), task, Actives(m.psds))
WithIndicators(task, m) ==
  FoldLeft(LAMBDA t, i : AppendIndicator(t, m, i), task, Actives(m.inds))

\* The models it takes; a matrix needs an affine objective and no indicator.
MosekAccepts(m) ==
  /\ Actives(m.soss) = <<>>
  /\ \A i \in DOMAIN m.vars : ~IsSemi(m.vars[i])
  /\ Class(m) = "SDP" => ~IsMixed(m) /\ Actives(m.inds) = <<>> /\ IsAffine(ObjectivePoly(m))
  /\ Class(m) = "QCP" => Actives(m.psds) = <<>>
BuildTask(m) ==
  WithIndicators(WithMatrices(WithDetected(WithCones(WithRows(Base(m), m), m), m), m), m)

---------------------------------------------------------------------------
(* refresh_task: one update per changed target, until one cannot be made.  *)
Source(task, s) == {k \in DOMAIN task.accs : task.accs[k].source = s}
PutAfes(task, first, afes) ==
  [task EXCEPT !.afes = [k \in DOMAIN @ |-> IF k - first + 1 \in DOMAIN afes
                                            THEN afes[k - first + 1] ELSE @[k]]]
Refused(task) == [ok |-> FALSE, task |-> task]
Updated(task) == [ok |-> TRUE, task |-> task]
PutAcc(task, source, afes) ==
  LET found == Source(task, source)
  IN  IF found = {} \/ \E k \in found : task.accs[k].dim # Len(afes) THEN Refused(task)
      ELSE Updated(PutAfes(task, task.accs[CHOOSE k \in found : TRUE].first, afes))
RefreshRow(task, m, i) ==
  LET cone == DetectedSoc(m.vars, m.rows[i])
      wasCone == Source(task, <<"row", i>>) # {}
  IN  IF cone # wasCone THEN Refused(task)
      ELSE IF cone
      THEN LET form == SocForm(m.rows[i])
           IN  PutAcc(task, <<"row", i>>, [k \in DOMAIN form.aff |-> Plain(form.aff[k])])
      ELSE Updated([task EXCEPT !.rows[task.rowOf[i]] = RowOf(m.rows[i])])
RefreshTarget(task, m, target) ==
  LET i == target[2]
  IN  CASE target[1] = "objective" ->
             Updated([task EXCEPT !.costs = Base(m).costs, !.cfix = Base(m).cfix, !.quad = Base(m).quad])
        [] target[1] = "bound" ->
             Updated([task EXCEPT !.columns[i].bound = BoundKey(m.vars[i].lb, m.vars[i].ub)])
        [] target[1] = "row" -> RefreshRow(task, m, i)
        [] target[1] = "soc" ->
             IF ~m.socs[i].active THEN Updated(task)
             ELSE PutAcc(task, target, [k \in DOMAIN m.socs[i].aff |-> Plain(m.socs[i].aff[k])])
        [] target[1] = "psd" ->
             IF ~m.psds[i].active THEN Updated(task) ELSE PutAcc(task, target, Svec(m.psds[i]))
        [] target[1] = "indicator" ->
             IF ~m.inds[i].active THEN Updated(task)
             ELSE IF i \notin DOMAIN task.bodies THEN Refused(task)
             ELSE Updated(PutAfes(task, task.bodies[i], <<Plain(m.inds[i].poly)>>))
\* Fault: a new bound is written and the cones stay as they were read.
BoundsKeepCones(task, targets) == FALSE
\* Cones were read off the bounds, so a changed bound may unmake them.
BoundsMayUnmakeCones(task, targets) ==
  /\ \E k \in DOMAIN task.accs : task.accs[k].source[1] = "row"
  /\ \E t \in targets : t[1] = "bound"
RefreshTask(task, m, targets) ==
  IF BoundsMayUnmakeCones(task, targets) THEN Refused(task)
  ELSE LET done == FoldSet(LAMBDA t, r : IF r.ok THEN RefreshTarget(r.task, m, t) ELSE r,
                           Updated(task), targets)
       IN  IF done.ok THEN Updated([done.task EXCEPT !.kind = Base(m).kind]) ELSE done

---------------------------------------------------------------------------
(* persistent.rs: a linear model keeps a snapshot, so that what changed can *)
(* be told from the structure that did not.                                 *)
MosekSnapshot(m) == IF Class(m) = "LP" THEN <<Snapshot(m)>> ELSE None
\* apply_linear_delta writes what differs between the two snapshots.
ApplyDelta(task, base, fresh) ==
  [task EXCEPT
     !.costs = [i \in DOMAIN @ |-> IF base.costs[i] # fresh.costs[i] THEN fresh.costs[i] ELSE @[i]],
     !.cfix = IF base.constant # fresh.constant THEN fresh.constant ELSE @,
     !.columns = [i \in DOMAIN @ |->
        IF base.bounds[i] # fresh.bounds[i]
        THEN [@[i] EXCEPT !.bound = BoundKey(fresh.bounds[i].lb, fresh.bounds[i].ub)] ELSE @[i]]]

\* solve_resident: the state the next solve runs on.  A changed row leaves no
\* snapshot to compare with, and a start is part of the task.
State(task, snapshot, m) ==
  [task |-> task, snapshot |-> snapshot, init |-> [i \in DOMAIN m.vars |-> m.vars[i].init]]
Rebuilt(m) == State(BuildTask(m), MosekSnapshot(m), m)
DeltaApplies(state, m) ==
  /\ state.snapshot # None /\ Class(m) = "LP"
  /\ state.snapshot[1].structure = Structure(m)
  /\ state.init = [i \in DOMAIN m.vars |-> m.vars[i].init]
AfterRefresh(state, task, m, targets) ==
  [state EXCEPT !.task = task,
                !.snapshot = IF @ # None /\ ~RowsChanged(FALSE, targets) /\ Class(m) = "LP"
                             THEN <<RefreshSnapshot(@[1], m, FALSE, targets)>> ELSE None]
AfterDelta(state, task, m) ==
  [state EXCEPT !.task = [ApplyDelta(task, state.snapshot[1], Snapshot(m)) EXCEPT !.kind = Base(m).kind],
                !.snapshot = <<Snapshot(m)>>]
MosekRetain(state, m, full, targets) ==
  LET refreshed == IF full THEN Refused(state.task) ELSE RefreshTask(state.task, m, targets)
  IN  CASE refreshed.ok -> AfterRefresh(state, refreshed.task, m, targets)
        [] ~refreshed.ok /\ DeltaApplies(state, m) -> AfterDelta(state, refreshed.task, m)
        [] OTHER -> Rebuilt(m)

---------------------------------------------------------------------------
(* What a task means at a point.  An entry that misses its square root of   *)
(* two counts seven tenths of it, which is never the same.                  *)
InDomainOf(atom, task, x) ==
  LET v == At(task.afes[atom.afe], x) - atom.shift
  IN  CASE atom.domain = "zero" -> v = 0
        [] atom.domain = "plus" -> v >= 0
        [] atom.domain = "minus" -> v <= 0
Unsvec(task, acc, n, x) ==
  LET order == LowerColumn(n)
      value(k) == (IF task.afes[acc.first + k - 1].root \/ order[k][1] = order[k][2] THEN 10 ELSE 7)
                  * At(task.afes[acc.first + k - 1], x)
      place(i, j) == CHOOSE k \in DOMAIN order : order[k] = <<Max({i, j}), Min({i, j})>>
  IN  [e \in 1 .. TriangleLen(n) |->
         LET j == CHOOSE b \in 1 .. n : e > TriangleLen(b - 1) /\ e <= TriangleLen(b)
         IN  value(place(e - TriangleLen(j - 1), j))]
Side(dim) == CHOOSE n \in 1 .. dim : TriangleLen(n) = dim
Satisfies(task, acc, x) ==
  IF acc.domain = "quadratic"
  THEN InCone([k \in 1 .. acc.dim |-> At(task.afes[acc.first + k - 1], x)])
  ELSE Semidefinite(Side(acc.dim), Unsvec(task, acc, Side(acc.dim), x))
MosekHolds(task, x) ==
  /\ \A i \in DOMAIN task.columns : Respects(task.columns[i].bound, x[i])
  /\ \A i \in DOMAIN task.rows : Respects(task.rows[i].bound, Dot(task.rows[i].t, x) + Curve(task.rows[i].h, x))
  /\ \A k \in DOMAIN task.accs : Satisfies(task, task.accs[k], x)
  /\ \A k \in DOMAIN task.djcs : \E clause \in DOMAIN task.djcs[k] :
       \A a \in DOMAIN task.djcs[k][clause] : InDomainOf(task.djcs[k][clause][a], task, x)
MosekObjective(task, x) == task.cfix + Dot(task.costs, x) + Curve(task.quad, x)

---------------------------------------------------------------------------
(* Results.  A report has up to three solutions, of the interior-point and  *)
(* simplex methods and of branch and bound, each with its status, point,    *)
(* row multipliers y, bound multipliers slx and sux and a vector of         *)
(* multipliers for every ACC; the problem status, why the solver stopped,   *)
(* and the bound of branch and bound.                                       *)
Unreported == [status |-> "UNKNOWN"]
\* select_solution.
Selected(task, report) ==
  CASE task.kind.mixed -> report.itg
    [] ~task.kind.mixed /\ report.itr = None /\ report.bas # None -> report.bas
    [] OTHER -> report.itr
has_primal_solution(status) == status \in {"OPTIMAL", "INTEGER_OPTIMAL", "PRIM_FEAS", "PRIM_AND_DUAL_FEAS"}
has_dual_solution(status) == status \in {"OPTIMAL", "DUAL_FEAS", "PRIM_AND_DUAL_FEAS"}
Stop(trm) ==
  CASE trm \in {"MAX_TIME", "SERVER_MAX_TIME"} -> "TimeLimit"
    [] trm = "MAX_ITERATIONS" -> "IterationLimit"
    [] trm = "MIO_NUM_BRANCHES" -> "NodeLimit"
    [] trm = "MIO_NUM_RELAXS" -> "WorkLimit"
    [] trm = "NUM_MAX_NUM_INT_SOLUTIONS" -> "SolutionLimit"
    [] trm = "OBJECTIVE_RANGE" -> "ObjectiveLimit"
    [] trm = "SERVER_MAX_MEMORY" -> "MemoryLimit"
    [] trm \in {"USER_CALLBACK", "LOST_RACE"} -> "Interrupted"
    [] trm \in {"NUMERICAL_PROBLEM", "STALL"} -> "NumericError"
    [] OTHER -> "none"
map_status(solution, problem, trm) ==
  CASE solution \in {"OPTIMAL", "INTEGER_OPTIMAL"} -> "Optimal"
    [] solution = "PRIM_INFEAS_CER" \/ problem \in {"PRIM_INFEAS", "PRIM_AND_DUAL_INFEAS"} -> "Infeasible"
    [] solution = "DUAL_INFEAS_CER" \/ problem = "DUAL_INFEAS" -> "Unbounded"
    [] problem = "PRIM_INFEAS_OR_UNBOUNDED" -> "InfeasibleOrUnbounded"
    [] solution \in {"PRIM_ILLPOSED_CER", "DUAL_ILLPOSED_CER"} \/ problem = "ILL_POSED" -> "NumericError"
    [] Stop(trm) # "none" -> Stop(trm)
    [] solution \in {"PRIM_FEAS", "PRIM_AND_DUAL_FEAS"} -> "Feasible"
    [] trm = "OK" -> "NotSolved"
    [] OTHER -> "Other"

\* Multipliers.  A row that is a cone has no native row, and none.
collect_continuous_duals(task, y) ==
  [i \in {j \in DOMAIN task.rowOf : task.rowOf[j] # 0} |-> y[task.rowOf[i]]]
ReducedCosts(slx, sux) == [i \in DOMAIN slx |-> slx[i] - sux[i]]
AccsOf(task, kind) == {k \in DOMAIN task.accs : task.accs[k].source[1] = kind}
\* The multiplier of a cone is the first of its ACC.
collect_continuous_soc_duals(task, dots) ==
  [i \in {task.accs[k].source[2] : k \in AccsOf(task, "soc")} |->
     dots[CHOOSE k \in AccsOf(task, "soc") : task.accs[k].source[2] = i][1]]
\* unpack_svec, in units of the square root of two off the diagonal; the sign
\* of the objective is taken back.
Matrix(n, dot, sign) ==
  LET order == LowerColumn(n)
  IN  [e \in 1 .. TriangleLen(n) |->
         sign * dot[CHOOSE k \in DOMAIN order : Entry(order[k][1], order[k][2]) = e]]
MatrixDuals(task, dots) ==
  [i \in {task.accs[k].source[2] : k \in AccsOf(task, "psd")} |->
     LET k == CHOOSE l \in AccsOf(task, "psd") : task.accs[l].source[2] = i
     IN  Matrix(Side(task.accs[k].dim), dots[k], IF task.max THEN -1 ELSE 1)]

\* extract_result; multipliers only for continuous models.
Extracted(task, solution) ==
  LET point == has_primal_solution(solution.status)
      priced == ~task.kind.mixed /\ has_dual_solution(solution.status)
  IN  [points |-> IF point THEN <<[primal |-> solution.x, objective |-> solution.objective]>> ELSE <<>>,
       dual |-> IF priced THEN collect_continuous_duals(task, solution.y) ELSE <<>>,
       reduced |-> IF priced THEN ReducedCosts(solution.slx, solution.sux) ELSE <<>>,
       cones |-> IF priced THEN collect_continuous_soc_duals(task, solution.dots) ELSE <<>>,
       matrices |-> IF priced THEN MatrixDuals(task, solution.dots) ELSE <<>>,
       claim |-> IF priced THEN "FeasiblePoint" ELSE "NoSolution"]
NothingExtracted ==
  [points |-> <<>>, dual |-> <<>>, reduced |-> <<>>, cones |-> <<>>, matrices |-> <<>>, claim |-> "NoSolution"]
Answered(task, selected, report) ==
  (IF selected = None THEN NothingExtracted ELSE Extracted(task, selected[1]))
  @@ [termination |-> map_status(IF selected = None THEN Unreported.status ELSE selected[1].status, report.problem, report.trm),
      bound |-> IF task.kind.mixed THEN report.bound ELSE None]
MosekAnswer(task, report) == Answered(task, Selected(task, report), report)
=============================================================================
