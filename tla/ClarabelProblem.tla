--------------------------- MODULE ClarabelProblem ---------------------------
(***************************************************************************)
(* The problem the Clarabel adapter builds for a prepared model,            *)
(*    minimize x'Px / 2 + q'x  where  Ax + s = b, s in a product of cones,  *)
(* the slots through which it rewrites the numbers of a resident problem,   *)
(* and the prices it reads off the multipliers (oximo-clarabel              *)
(* translate.rs, persistent.rs).                                            *)
(*                                                                          *)
(* A native row keeps its coefficients t, its right side b and the source   *)
(* constraint its multiplier is credited to, with the factor `scale`.       *)
(* `root` marks the rows multiplied by the square root of two.              *)
(***************************************************************************)
EXTENDS SourceModels

Row(t, b, source, scale) == [t |-> t, b |-> b, source |-> source, scale |-> scale, root |-> FALSE]
\* Rows.push, push_bound and set_last_dual: scale * term against rhs.
Pushed(p, scale, rhs) == Row(Times(p.t, scale), rhs, 0, 0)
PushedBound(i, scale, rhs) == Row([v \in {i} |-> scale], rhs, 0, 0)
Priced(row, id, scale) == [row EXCEPT !.source = id, !.scale = scale]
AtMost(r, id) == Priced(Pushed(r.poly, 1, r.hi - r.poly.c), id, -1)
\* Fault: the price of a lower bound is read with the sign of an upper one.
AtLeastAsAtMost(r, id) == Priced(Pushed(r.poly, -1, -(r.lo - r.poly.c)), id, -1)
AtLeast(r, id) == Priced(Pushed(r.poly, -1, -(r.lo - r.poly.c)), id, 1)

\* bound_layout: which of the two bounds are rows, or one row for both.
BoundLayout(v) == [lb |-> Finite(v.lb), ub |-> Finite(v.ub), fixed |-> IsFixed(v)]

\* objective_data: the upper triangle of P, and no constant in q.
SignOf(m) == IF Maximizes(m) THEN -1 ELSE 1
ObjectiveData(m) ==
  LET p == ObjectivePoly(m)
  IN  [sign |-> SignOf(m), constant |-> p.c,
       P |-> [ij \in {<<h[2], h[1]>> : h \in DOMAIN p.h} |-> SignOf(m) * p.h[<<ij[2], ij[1]>>]],
       q |-> [i \in DOMAIN m.vars |-> IF i \in DOMAIN p.t THEN SignOf(m) * p.t[i] ELSE 0]]

\* classify_rows, linear_rows: equalities and fixed variables; then the other
\* rows and bounds.
IsLinearRow(m, i) == IsAffine(m.rows[i].poly)
Flat(s) == FoldLeft(LAMBDA all, each : all \o each, <<>>, s)
EqualityRows(m) ==
  Flat([i \in DOMAIN m.rows |->
          IF IsLinearRow(m, i) /\ Sense(m.rows[i]) = "eq" THEN <<AtMost(m.rows[i], i)>> ELSE <<>>])
FixedRows(m) ==
  Flat([i \in DOMAIN m.vars |-> IF IsFixed(m.vars[i]) THEN <<PushedBound(i, 1, m.vars[i].lb)>> ELSE <<>>])
InequalityRows(m) ==
  Flat([i \in DOMAIN m.rows |->
          IF ~IsLinearRow(m, i) THEN <<>>
          ELSE CASE Sense(m.rows[i]) = "le" -> <<AtMost(m.rows[i], i)>>
                 [] Sense(m.rows[i]) = "ge" -> <<AtLeast(m.rows[i], i)>>
                 [] Sense(m.rows[i]) = "range" -> <<AtLeast(m.rows[i], i), AtMost(m.rows[i], i)>>
                 [] OTHER -> <<>>])
BoundRows(m) ==
  Flat([i \in DOMAIN m.vars |->
          IF IsFixed(m.vars[i]) THEN <<>>
          ELSE (IF Finite(m.vars[i].ub) THEN <<PushedBound(i, 1, m.vars[i].ub)>> ELSE <<>>)
               \o (IF Finite(m.vars[i].lb) THEN <<PushedBound(i, -1, -m.vars[i].lb)>> ELSE <<>>)])

\* soc_blocks: the bound and the terms, each below its slack.
ConeRows(cone) == [k \in DOMAIN cone.aff |-> Pushed(cone.aff[k], -1, cone.aff[k].c)]
DetectedRows(m) == SelectSeq([i \in DOMAIN m.rows |-> i], LAMBDA i : ~IsLinearRow(m, i))
SocBlocks(m) ==
  [k \in DOMAIN Actives(m.socs) |-> [source |-> <<"soc", Actives(m.socs)[k]>>, side |-> 0,
                                     rows |-> ConeRows(Cone(m.socs[Actives(m.socs)[k]].aff))]] \o
  [k \in DOMAIN DetectedRows(m) |-> [source |-> <<"row", DetectedRows(m)[k]>>, side |-> 0,
                                     rows |-> ConeRows(SocForm(m.rows[DetectedRows(m)[k]]))]]
\* Matrices: upper triangle, column by column.
OnDiagonal(k) == \E n \in 1 .. k : TriangleLen(n) = k
MatrixRows(psd) ==
  [k \in DOMAIN psd.tri |-> [Pushed(psd.tri[k], -1, psd.tri[k].c) EXCEPT !.root = ~OnDiagonal(k)]]
PsdBlocks(m) ==
  [k \in DOMAIN Actives(m.psds) |-> [source |-> <<"psd", Actives(m.psds)[k]>>, side |-> m.psds[Actives(m.psds)[k]].n,
                                     rows |-> MatrixRows(m.psds[Actives(m.psds)[k]])]]

\* build_cones, with no empty zero or nonnegative cone.
ConeOf(block) == [kind |-> IF block.side > 0 THEN "psd" ELSE "soc", dim |-> Len(block.rows)]
LinearCone(kind, dim) == IF dim > 0 THEN <<[kind |-> kind, dim |-> dim]>> ELSE <<>>
\* Starts of consecutive blocks that follow `before` rows.
Starts(blocks, before) ==
  [k \in DOMAIN blocks |->
     before + 1 + FoldLeft(LAMBDA n, b : n + Len(b.rows), 0, SubSeq(blocks, 1, k - 1))]
Assembled(m, zeros, nonnegs, blocks) ==
  ObjectiveData(m) @@
  [rows |-> zeros \o nonnegs \o Flat([k \in DOMAIN blocks |-> blocks[k].rows]),
   cones |-> LinearCone("zero", Len(zeros)) \o LinearCone("nonneg", Len(nonnegs))
             \o [k \in DOMAIN blocks |-> ConeOf(blocks[k])],
   blocks |-> LET starts == Starts(blocks, Len(zeros) + Len(nonnegs))
              IN  [k \in DOMAIN blocks |-> [source |-> blocks[k].source, side |-> blocks[k].side,
                                            start |-> starts[k], dim |-> Len(blocks[k].rows)]],
   layout |-> [i \in DOMAIN m.vars |-> BoundLayout(m.vars[i])]]
BuildProblem(m) ==
  Assembled(m, EqualityRows(m) \o FixedRows(m), InequalityRows(m) \o BoundRows(m),
            SocBlocks(m) \o PsdBlocks(m))
\* supported, reject_semi_domains and the two checks before them.
ClarabelAccepts(m) ==
  /\ Actives(m.soss) = <<>> /\ Actives(m.inds) = <<>>
  /\ ~IsMixed(m) /\ Class(m) # "QCP"

---------------------------------------------------------------------------
(* Problem::refresh: rewrite the numbers of one changed target.            *)
Credited(problem) == {k \in DOMAIN problem.rows : problem.rows[k].source # 0}
\* update_slots: the native rows of a bound are found by counting: the
\* equalities, the fixed variables, the other rows, the other bounds.
Equalities(problem, m) == {k \in Credited(problem) : Sense(m.rows[problem.rows[k].source]) = "eq"}
Fixed(problem) == {i \in DOMAIN problem.layout : problem.layout[i].fixed}
RowsOfBounds(l) == (IF l.ub THEN 1 ELSE 0) + (IF l.lb THEN 1 ELSE 0)
CursorOf(problem, m, i) ==
  IF problem.layout[i].fixed
  THEN Cardinality(Equalities(problem, m)) + Cardinality({j \in Fixed(problem) : j < i})
  ELSE Cardinality(Credited(problem)) + Cardinality(Fixed(problem))
       + FoldSet(LAMBDA j, n : n + RowsOfBounds(problem.layout[j]), 0,
                 {j \in DOMAIN problem.layout : j < i} \ Fixed(problem))
BoundSlots(l, cursor) ==
  IF l.fixed THEN {<<cursor + 1, 1>>}
  ELSE (IF l.ub THEN {<<cursor + 1, 1>>} ELSE {})
       \cup (IF l.lb THEN {<<cursor + (IF l.ub THEN 2 ELSE 1), -1>>} ELSE {})

Stopped(problem) == [ok |-> FALSE, problem |-> problem]
Done(problem) == [ok |-> TRUE, problem |-> problem]
\* refresh_row: the pattern of the row is fixed.
RefreshRow(problem, k, p, scale, rhs) ==
  IF DOMAIN problem.rows[k].t # DOMAIN p.t THEN Stopped(problem)
  ELSE Done([problem EXCEPT !.rows[k].t = Times(p.t, scale), !.rows[k].b = rhs])
RefreshRows(problem, first, terms) ==
  FoldLeft(LAMBDA r, k : IF r.ok THEN RefreshRow(r.problem, first + k - 1, terms[k], -1, terms[k].c) ELSE r,
           Done(problem), [k \in DOMAIN terms |-> k])
RefreshBlock(problem, source, terms) ==
  LET found == {k \in DOMAIN problem.blocks : problem.blocks[k].source = source}
  IN  IF found = {} \/ \E k \in found : problem.blocks[k].dim # Len(terms) THEN Stopped(problem)
      ELSE RefreshRows(problem, problem.blocks[CHOOSE k \in found : TRUE].start, terms)
HasDetected(problem) == \E k \in DOMAIN problem.blocks : problem.blocks[k].source[1] = "row"
RefreshObjective(problem, data) ==
  IF DOMAIN data.P # DOMAIN problem.P THEN Stopped(problem)
  ELSE Done([problem EXCEPT !.P = data.P, !.q = data.q, !.sign = data.sign, !.constant = data.constant])
RefreshBound(problem, m, i) ==
  IF problem.layout[i] # BoundLayout(m.vars[i]) \/ HasDetected(problem) THEN Stopped(problem)
  ELSE Done([problem EXCEPT !.rows =
         FoldSet(LAMBDA s, rows :
                   [rows EXCEPT ![s[1]].b = IF problem.layout[i].fixed \/ s[2] < 0
                                            THEN s[2] * m.vars[i].lb ELSE m.vars[i].ub],
                 @, BoundSlots(problem.layout[i], CursorOf(problem, m, i)))])
RefreshAlgebraic(problem, m, i) ==
  IF \E k \in DOMAIN problem.blocks : problem.blocks[k].source = <<"row", i>>
  THEN IF ~DetectedSoc(m.vars, m.rows[i]) THEN Stopped(problem)
       ELSE RefreshBlock(problem, <<"row", i>>, SocForm(m.rows[i]).aff)
  ELSE IF ~IsLinearRow(m, i) THEN Stopped(problem)
  ELSE FoldSet(LAMBDA k, r :
                 IF ~r.ok THEN r
                 ELSE RefreshRow(r.problem, k, m.rows[i].poly, -problem.rows[k].scale,
                                 IF problem.rows[k].scale > 0 THEN -m.rows[i].lo + m.rows[i].poly.c
                                                              ELSE m.rows[i].hi - m.rows[i].poly.c),
               Done(problem), {k \in Credited(problem) : problem.rows[k].source = i})
RefreshTarget(problem, m, target) ==
  LET i == target[2]
  IN  CASE target[1] = "objective" -> RefreshObjective(problem, ObjectiveData(m))
        [] target[1] = "bound" -> RefreshBound(problem, m, i)
        [] target[1] = "row" -> RefreshAlgebraic(problem, m, i)
        [] target[1] = "soc" -> IF m.socs[i].active THEN RefreshBlock(problem, target, m.socs[i].aff)
                                ELSE Done(problem)
        [] target[1] = "psd" -> IF m.psds[i].active THEN RefreshBlock(problem, target, m.psds[i].tri)
                                ELSE Done(problem)
        [] target[1] = "indicator" -> Stopped(problem)
Refreshed(problem, m, full, targets) ==
  IF full THEN Stopped(problem)
  ELSE FoldSet(LAMBDA t, r : IF r.ok THEN RefreshTarget(r.problem, m, t) ELSE r, Done(problem), targets)

---------------------------------------------------------------------------
(* solve_resident.  The solver holds its own copy of the numbers; updates   *)
(* of P, q, A and b are sent one after the other, and the solver may take   *)
(* some of them and refuse the next.                                        *)
Numbers(problem) ==
  [P |-> problem.P, q |-> problem.q, A |-> [k \in DOMAIN problem.rows |-> problem.rows[k].t],
   b |-> [k \in DOMAIN problem.rows |-> problem.rows[k].b]]
\* replace_value: only what differs from the copy the problem keeps is sent.
Sent(native, old, new) == [k \in DOMAIN native |-> IF old[k] = new[k] THEN native[k] ELSE new[k]]
Send(solver, old, new, count) ==
  [solver EXCEPT !.P = IF count > 0 THEN Sent(@, old.P, new.P) ELSE @,
                 !.q = IF count > 1 THEN Sent(@, old.q, new.q) ELSE @,
                 !.A = IF count > 2 THEN Sent(@, old.A, new.A) ELSE @,
                 !.b = IF count > 3 THEN Sent(@, old.b, new.b) ELSE @]
SameStructure(problem, other) ==
  /\ Len(problem.q) = Len(other.q) /\ problem.cones = other.cones
  /\ DOMAIN problem.P = DOMAIN other.P
  /\ [k \in DOMAIN problem.rows |-> DOMAIN problem.rows[k].t]
       = [k \in DOMAIN other.rows |-> DOMAIN other.rows[k].t]
Fresh(problem) == Numbers(problem) @@ [cones |-> problem.cones]
Resident(solver, problem) == [solver |-> solver, problem |-> problem]
Rebuilt(new) == Resident(Fresh(new), new)
UpdateData(solver, new) == Numbers(new) @@ solver
\* `sent` of the four updates are taken; `whole` is whether the solver takes
\* the complete data.
ClarabelRetain(state, m, full, targets, sent, whole) ==
  LET refreshed == Refreshed(state.problem, m, full, targets)
      new == BuildProblem(m)
      solver == IF refreshed.ok THEN Send(state.solver, Numbers(state.problem), Numbers(refreshed.problem), sent)
                ELSE state.solver
  IN  IF refreshed.ok /\ sent = 4 THEN Resident(solver, refreshed.problem)
      ELSE IF whole /\ SameStructure(refreshed.problem, new)
      THEN Resident(UpdateData(solver, new), new)
      ELSE Rebuilt(new)

---------------------------------------------------------------------------
(* What the resident solver means at a point.                              *)
Slack(solver, k, x) == solver.b[k] - Dot(solver.A[k], x)
FirstOf(solver, c) == 1 + FoldLeft(LAMBDA n, cone : n + cone.dim, 0, SubSeq(solver.cones, 1, c - 1))
\* Entries that miss their square root of two count seven tenths.
MatrixSlack(problem, solver, first, k, x) ==
  (IF problem.rows[first + k - 1].root \/ OnDiagonal(k) THEN 10 ELSE 7) * Slack(solver, first + k - 1, x)
InBlock(problem, solver, cone, first, x) ==
  CASE cone.kind = "zero" -> \A k \in first .. first + cone.dim - 1 : Slack(solver, k, x) = 0
    [] cone.kind = "nonneg" -> \A k \in first .. first + cone.dim - 1 : Slack(solver, k, x) >= 0
    [] cone.kind = "soc" -> InCone([k \in 1 .. cone.dim |-> Slack(solver, first + k - 1, x)])
    [] cone.kind = "psd" ->
         Semidefinite(CHOOSE n \in 1 .. cone.dim : TriangleLen(n) = cone.dim,
                      [k \in 1 .. cone.dim |-> MatrixSlack(problem, solver, first, k, x)])
ClarabelHolds(state, x) ==
  \A c \in DOMAIN state.solver.cones :
    InBlock(state.problem, state.solver, state.solver.cones[c], FirstOf(state.solver, c), x)
\* read_result: the objective is restored with the sign and the constant.
Upper(P) == [ij \in {<<u[2], u[1]>> : u \in DOMAIN P} |-> P[<<ij[2], ij[1]>>]]
ClarabelObjective(state, x) ==
  state.problem.sign * (Dot(state.solver.q, x) + Curve(Upper(state.solver.P), x)) + state.problem.constant
\* Stationarity is Px + q = -A'z, so a multiplier z of row k adds -sign * z
\* times the row's coefficients to the gradient of the objective, and
\* try_accumulate adds z * scale * sign to the price of the source.
ClarabelGradient(state, k) == Times(state.solver.A[k], -state.problem.sign)
ClarabelPrice(state, k) == [source |-> state.problem.rows[k].source,
                            scale |-> state.problem.rows[k].scale * state.problem.sign]

---------------------------------------------------------------------------
(* Results.  A report is [status, x, value, other, z]: the primal and dual  *)
(* objectives and a multiplier for every native row.                        *)
map_status(status) ==
  CASE status = "Solved" -> "Optimal"
    [] status = "AlmostSolved" -> "Feasible"
    [] status = "PrimalInfeasible" -> "Infeasible"
    [] status = "DualInfeasible" -> "Unbounded"
    [] status = "MaxIterations" -> "IterationLimit"
    [] status = "MaxTime" -> "TimeLimit"
    [] status \in {"NumericalError", "InsufficientProgress"} -> "NumericError"
    [] status = "Unsolved" -> "NotSolved"
    [] OTHER -> "Other"
status_has_point(status) == status \in {"Solved", "AlmostSolved"}
BlocksOf(problem, kind) == {k \in DOMAIN problem.blocks : problem.blocks[k].source[1] = kind}
BlockOf(problem, kind, i) == CHOOSE k \in BlocksOf(problem, kind) : problem.blocks[k].source[2] = i
\* A row split in two has the sum of both; the bound of a cone is the first row
\* of its block, and a matrix all of it.
RowDuals(problem, z) ==
  [i \in {problem.rows[k].source : k \in Credited(problem)} |->
     FoldSet(LAMBDA k, s : s + z[k] * problem.rows[k].scale * problem.sign, 0,
             {k \in Credited(problem) : problem.rows[k].source = i})]
ConeDuals(problem, z) ==
  [i \in {problem.blocks[k].source[2] : k \in BlocksOf(problem, "soc")} |->
     z[problem.blocks[BlockOf(problem, "soc", i)].start]]
MatrixDuals(problem, z) ==
  [i \in {problem.blocks[k].source[2] : k \in BlocksOf(problem, "psd")} |->
     LET block == problem.blocks[BlockOf(problem, "psd", i)]
     IN  [e \in 1 .. block.dim |-> z[block.start + e - 1]]]
ClarabelAnswer(problem, report) ==
  LET solved == report.status = "Solved"
      point == status_has_point(report.status)
  IN  [termination |-> map_status(report.status),
       points |-> IF point THEN <<[primal |-> report.x, objective |-> Restored(report.value, problem.sign, problem.constant)]>>
                  ELSE <<>>,
       dual |-> IF solved THEN RowDuals(problem, report.z) ELSE <<>>,
       cones |-> IF solved THEN ConeDuals(problem, report.z) ELSE <<>>,
       matrices |-> IF solved THEN MatrixDuals(problem, report.z) ELSE <<>>,
       bound |-> IF solved THEN <<Restored(report.other, problem.sign, problem.constant)>> ELSE None,
       claim |-> IF solved THEN "FeasiblePoint" ELSE IF point THEN "Unknown" ELSE "NoSolution"]
=============================================================================
