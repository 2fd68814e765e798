----------------------------- MODULE HighsProblem -----------------------------
(***************************************************************************)
(* The problem the HiGHS adapter loads for a prepared model, and the deltas *)
(* it pushes to a loaded one (oximo-highs translate.rs, persistent.rs).     *)
(* HighsPersistent models the handle around it; here are the numbers.       *)
(***************************************************************************)
EXTENDS SourceModels

\* build_problem_prepared.  The lower bound of a semi-continuous column is its
\* threshold.
Column(v) == [lb |-> IF IsSemi(v) THEN v.semi ELSE v.lb, ub |-> v.ub, int |-> v.int, semi |-> IsSemi(v)]
NativeRow(r) == HashedRow(r)
\* hessian_columns: the lower triangle, by columns; read for quadratic models
\* only.
HessianOf(m) == IF Class(m) = "QP" THEN ObjectivePoly(m).h ELSE <<>>
Loaded(m) ==
  [cols |-> [i \in DOMAIN m.vars |-> Column(m.vars[i])], costs |-> Costs(m), max |-> Maximizes(m),
   rows |-> [i \in DOMAIN m.rows |-> NativeRow(m.rows[i])], hessian |-> HessianOf(m)]

HighsAccepts(m) ==
  /\ Actives(m.psds) = <<>> /\ Actives(m.soss) = <<>> /\ Actives(m.inds) = <<>>
  /\ Class(m) \in {"LP", "QP"} /\ (Class(m) = "QP" => ~IsMixed(m))

\* rebuild: no snapshot is kept with semi-continuous columns.
HasSemi(m) == \E i \in DOMAIN m.vars : IsSemi(m.vars[i])
Rebuilt(m) ==
  [native |-> Loaded(m), offset |-> ObjectivePoly(m).c,
   snap |-> IF HasSemi(m) THEN None ELSE <<Snapshot(m)>>, hessian |-> HessianOf(m)]

\* solve_resident.  HiGHS ignores an empty Hessian, so a solve that would
\* clear one loads the problem again.
NextHessian(state, m, full, targets) ==
  IF full \/ <<"objective", 1>> \in targets THEN HessianOf(m) ELSE state.hessian
PassHessian(native, hessian) ==
  IF hessian = <<>> THEN native ELSE [native EXCEPT !.hessian = hessian]
PushDelta(native, base, snap) ==
  [native EXCEPT
     !.costs = [i \in DOMAIN @ |-> IF snap.costs[i] # base.costs[i] THEN snap.costs[i] ELSE @[i]],
     !.cols = [i \in DOMAIN @ |-> IF snap.bounds[i] # base.bounds[i]
                                  THEN [@[i] EXCEPT !.lb = snap.bounds[i].lb, !.ub = snap.bounds[i].ub]
                                  ELSE @[i]]]
Updated(state, snap, hessian) ==
  [native |-> PushDelta(IF hessian # state.hessian THEN PassHessian(state.native, hessian) ELSE state.native,
                        state.snap[1], snap),
   offset |-> snap.constant, snap |-> <<snap>>, hessian |-> hessian]
HighsRetain(state, m, full, targets) ==
  IF state.snap = None THEN Rebuilt(m)
  ELSE LET snap == RefreshSnapshot(state.snap[1], m, full, targets)
           hessian == NextHessian(state, m, full, targets)
       IN  IF snap.structure = state.snap[1].structure /\ ~(state.hessian # <<>> /\ hessian = <<>>)
           THEN Updated(state, snap, hessian)
           ELSE Rebuilt(m)

---------------------------------------------------------------------------
(* What the loaded problem means at a point.  Constants are kept beside it *)
(* and added to the objective value (extract_result).                      *)
HighsHolds(state, x) ==
  /\ \A i \in DOMAIN state.native.cols :
       \/ state.native.cols[i].semi /\ x[i] = 0
       \/ Between(state.native.cols[i].lb, x[i], state.native.cols[i].ub)
  /\ \A i \in DOMAIN state.native.rows :
       Between(state.native.rows[i].lo, Dot(state.native.rows[i].t, x), state.native.rows[i].hi)
HighsObjective(state, x) ==
  Dot(state.native.costs, x) + Curve(state.native.hessian, x) + state.offset

---------------------------------------------------------------------------
(* Results.  A report is [status, feasible, duals, value, x, rows, bound]:  *)
(* whether the point is feasible, the dual status or <<>> when it cannot be *)
(* had, the numbers of the point, the multipliers of the native rows (one   *)
(* more for every row a user added) and the bound of branch and bound.      *)
map_status(status) ==
  CASE status \in {"Optimal", "Infeasible", "Unbounded"} -> status
    [] status = "UnboundedOrInfeasible" -> "InfeasibleOrUnbounded"
    [] status = "ReachedTimeLimit" -> "TimeLimit"
    [] status = "ReachedIterationLimit" -> "IterationLimit"
    [] status \in {"ObjectiveBound", "ObjectiveTarget"} -> "ObjectiveLimit"
    [] status = "ReachedSolutionLimit" -> "SolutionLimit"
    [] status = "ReachedInterrupt" -> "Interrupted"
    [] status = "ReachedMemoryLimit" -> "MemoryLimit"
    [] status \in {"NotSet", "Unknown"} -> "NotSolved"
    [] status \in {"LoadError", "ModelError", "PresolveError", "SolveError", "PostsolveError"} -> "NumericError"
    [] OTHER -> "Other"
collect_solution(state, report) ==
  IF ~report.feasible THEN [points |-> <<>>, dual |-> <<>>, reduced |-> <<>>]
  ELSE [points |-> <<[primal |-> report.x, objective |-> Restored(report.value, 1, state.offset)]>>,
        dual |-> SubSeq(report.rows, 1, Min({Len(state.native.rows), Len(report.rows)})),
        reduced |-> report.reduced]
HighsAnswer(state, m, report) ==
  collect_solution(state, report)
  @@ [termination |-> map_status(report.status),
      bound |-> IF IsMixed(m) /\ report.bound # None THEN <<Restored(report.bound[1], 1, state.offset)>> ELSE None,
      claim |-> CASE report.duals = None -> "Unknown"
                  [] report.duals = <<"Feasible">> -> "FeasiblePoint"
                  [] OTHER -> "NoSolution"]
=============================================================================
