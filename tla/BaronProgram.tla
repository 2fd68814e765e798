----------------------------- MODULE BaronProgram -----------------------------
(***************************************************************************)
(* The .bar program the BARON adapter writes for a prepared model, and what *)
(* it reads back from the times and results files by position and by name   *)
(* (oximo-baron translate.rs).  A solve is one run: nothing is kept between *)
(* solves.                                                                  *)
(*                                                                          *)
(* The results number variables in the order of their declaration and       *)
(* equations in the order of the EQUATIONS line.  A row of equations is     *)
(* [name, body, rel, rhs], the body a polynomial with affine terms whose    *)
(* squares are added or taken off.  What BARON makes of a program is        *)
(* external.                                                                *)
(***************************************************************************)
EXTENDS SourceModels

BaronAccepts(m) ==
  /\ Actives(m.psds) = <<>> /\ Actives(m.soss) = <<>> /\ Actives(m.inds) = <<>>
  /\ \A i \in DOMAIN m.vars : ~IsSemi(m.vars[i])
  /\ \A i \in DOMAIN m.rows : Sense(m.rows[i]) # "free" => DOMAIN m.rows[i].poly.t # {} \/ ~IsAffine(m.rows[i].poly)

---------------------------------------------------------------------------
(* Variables.                                                              *)
Sections == <<"binary", "integer", "positive", "free">>
Section(v) ==
  CASE v.dom = "binary" -> "binary"
    [] v.dom = "integer" -> "integer"
    [] v.dom = "real" /\ v.lb = 0 -> "positive"
    [] OTHER -> "free"
Declared(m, section) == SelectSeq([i \in DOMAIN m.vars |-> i], LAMBDA i : Section(m.vars[i]) = section)
write_var_declarations(m) == FoldLeft(LAMBDA order, section : order \o Declared(m, section), <<>>, Sections)

\* A bound is left out when the section implies it.
lower_bound_to_emit(v) ==
  IF ~Finite(v.lb) \/ (v.dom \in {"binary", "real"} /\ v.lb = 0) THEN None ELSE <<v.lb>>
upper_bound_to_emit(v) ==
  IF ~Finite(v.ub) \/ (v.dom = "binary" /\ v.ub = 1) THEN None ELSE <<v.ub>>
Emitted(m, bound(_)) == [i \in {j \in DOMAIN m.vars : bound(m.vars[j]) # None} |-> bound(m.vars[i])[1]]
\* External: what a section implies.
ImpliedLower(section) == IF section \in {"binary", "positive"} THEN 0 ELSE -Inf
ImpliedUpper(section) == IF section = "binary" THEN 1 ELSE Inf

---------------------------------------------------------------------------
(* Equations.                                                              *)
Plain(poly) == [poly |-> poly, plus |-> <<>>, less |-> <<>>]
\* row_sides: both sides of a range, lower first; none of a free row.
Sides(r) ==
  CASE Single(r) -> <<[suffix |-> "", rel |-> Sense(r), rhs |-> IF Sense(r) = "ge" THEN r.lo ELSE r.hi]>>
    [] Sense(r) = "range" -> <<[suffix |-> "_lo", rel |-> "ge", rhs |-> r.lo], [suffix |-> "_hi", rel |-> "le", rhs |-> r.hi]>>
    [] OTHER -> <<>>
\* The constant of an affine row moves to the right; any other body is whole.
write_constraint_body(name, poly, rel, rhs) ==
  IF IsAffine(poly) THEN [name |-> name, body |-> Plain([poly EXCEPT !.c = 0]), rel |-> rel, rhs |-> rhs - poly.c]
  ELSE [name |-> name, body |-> Plain(poly), rel |-> rel, rhs |-> rhs]
RowEquations(i, r) ==
  [k \in DOMAIN Sides(r) |-> write_constraint_body(<<"c", i, Sides(r)[k].suffix>>, r.poly, Sides(r)[k].rel, Sides(r)[k].rhs)]
\* The square of the bound is taken off the sum of squares; its sign is a row.
write_soc_rows(i, soc) ==
  <<[name |-> <<"soc", i, "">>, body |-> [poly |-> Affine(0, <<>>), plus |-> Tail(soc.aff), less |-> <<soc.aff[1]>>],
     rel |-> "le", rhs |-> 0],
    [name |-> <<"soc", i, "_sign">>, body |-> Plain(soc.aff[1]), rel |-> "ge", rhs |-> 0]>>
\* con_order: the row behind every equation, a range twice.
AlgebraicRows(m) == FoldLeft(LAMBDA rows, i : rows \o RowEquations(i, m.rows[i]), <<>>, [i \in DOMAIN m.rows |-> i])
ConOrder(rows) == [k \in DOMAIN rows |-> rows[k].name[2]]
ConeRows(m) == FoldLeft(LAMBDA rows, i : rows \o write_soc_rows(i, m.socs[i]), <<>>, Actives(m.socs))

\* CONVEX_EQUATIONS: the name of a row that was asserted convex, if it is active
\* and has one equation.
convex_equation_names(r, i) ==
  IF r.active /\ Single(r) THEN <<<<"c", i, "">>>> ELSE None

\* A feasibility model minimizes 0.
write_objective(m) == [max |-> Maximizes(m), poly |-> ObjectivePoly(m)]
write_starting_point(m) == Emitted(m, LAMBDA v : v.init)

Bar(m) ==
  LET rows == AlgebraicRows(m)
  IN  [order |-> write_var_declarations(m), sections |-> [i \in DOMAIN m.vars |-> Section(m.vars[i])],
       lower |-> Emitted(m, lower_bound_to_emit), upper |-> Emitted(m, upper_bound_to_emit),
       equations |-> rows \o ConeRows(m), con_order |-> ConOrder(rows), soc_order |-> Actives(m.socs),
       obj |-> write_objective(m), start |-> write_starting_point(m)]

---------------------------------------------------------------------------
(* What BARON does with a program (external).                              *)
BodyAt(body, x) ==
  LET squares(affs) == FoldSet(LAMBDA k, s : s + At(affs[k], x) * At(affs[k], x), 0, DOMAIN affs)
  IN  At(body.poly, x) + squares(body.plus) - squares(body.less)
Related(rel, v, rhs) ==
  CASE rel = "le" -> v <= rhs [] rel = "ge" -> v >= rhs [] rel = "eq" -> v = rhs
Stated(f, i, implied) == IF i \in DOMAIN f THEN f[i] ELSE implied
BaronHolds(bar, x) ==
  /\ \A i \in DOMAIN x : Between(Stated(bar.lower, i, ImpliedLower(bar.sections[i])), x[i],
                                 Stated(bar.upper, i, ImpliedUpper(bar.sections[i])))
  /\ \A k \in DOMAIN bar.equations :
       Related(bar.equations[k].rel, BodyAt(bar.equations[k].body, x), bar.equations[k].rhs)
BaronObjective(bar, x) == At(bar.obj.poly, x)

---------------------------------------------------------------------------
(* The answer.  A report has the model status and the node of the optimum   *)
(* (<<>> when the line is too short), the two bounds, the banner, the pool  *)
(* of blocks [objective, values] by variable number, the table of the best  *)
(* point by name, and the marginals and prices by number, or <<>>.          *)
tim_model_status(report) == IF report.status = <<>> THEN 5 ELSE report.status[1]

\* Phrases are looked for in this order, whatever comes first in the file.
Banners ==
  <<"nodes in memory", "bar iterations", "time exceeded", "numerically sensitive", "interrupted", "heuristic",
    "insufficient memory", "variable bounds", "completion">>
matched_banner(phrases) == SelectSeq(Banners, LAMBDA b : b \in phrases)
model_status_termination(status) ==
  CASE status \in {1, 4} -> "Optimal" [] status = 2 -> "Infeasible" [] status = 3 -> "Unbounded" [] OTHER -> "Other"
Reasons ==
  [b \in ToSet(Banners) |->
     CASE b = "nodes in memory" -> "NodeLimit"
       [] b = "bar iterations" -> "IterationLimit"
       [] b = "time exceeded" -> "TimeLimit"
       [] b = "numerically sensitive" -> "NumericError"
       [] b = "interrupted" -> "Interrupted"
       [] b = "heuristic" -> "Feasible"
       [] b = "insufficient memory" -> "MemoryLimit"
       [] b = "variable bounds" -> "Other"
       [] b = "completion" -> "Deferred"]
map_status(phrases, status) ==
  LET found == matched_banner(phrases)
  IN  IF found = <<>> \/ Reasons[found[1]] = "Deferred" THEN model_status_termination(status) ELSE Reasons[found[1]]

\* Numbers outside the declarations are ignored.
ByPosition(order, numbers) ==
  [i \in {order[k] : k \in DOMAIN numbers \cap DOMAIN order} |->
     numbers[CHOOSE k \in DOMAIN numbers \cap DOMAIN order : order[k] = i]]
Point(primal, objective) == [primal |-> primal, objective |-> objective]
\* The pool is printed only after a normal completion.
parse_solution_pool(bar, report) ==
  IF "completion" \notin report.phrases THEN <<>>
  ELSE SelectSeq([k \in DOMAIN report.pool |-> Point(ByPosition(bar.order, report.pool[k].values), report.pool[k].objective)],
                 LAMBDA point : point.primal # <<>>)
parse_best_table(report) ==
  IF report.table = None THEN <<>> ELSE <<Point(report.table[1].values, report.table[1].objective)>>
\* Best first; equal points keep their order.
Better(max, p, q) == IF max THEN p.objective > q.objective ELSE p.objective < q.objective
parse_results(bar, report) ==
  LET pool == parse_solution_pool(bar, report)
  IN  IF pool = <<>> THEN parse_best_table(report)
      ELSE SortSeq(pool, LAMBDA p, q : Better(bar.obj.max, p, q))

\* Prices past the algebraic rows belong to the cones, two rows each: the
\* squared row has the price.  The last line for a cone counts.
RowPrice(bar, prices, i) ==
  FoldSet(LAMBDA k, s : s + IF bar.con_order[k] = i THEN prices[k] ELSE 0, 0, DOMAIN prices \cap DOMAIN bar.con_order)
ConeAt(bar, k) ==
  LET rel == k - Len(bar.con_order) - 1
  IN  IF rel % 2 = 0 /\ rel \div 2 < Len(bar.soc_order) THEN <<bar.soc_order[rel \div 2 + 1]>> ELSE None
parse_dual_solution(bar, prices) ==
  LET past == {k \in DOMAIN prices : k > Len(bar.con_order) /\ ConeAt(bar, k) # None}
  IN  [dual |-> [i \in {bar.con_order[k] : k \in DOMAIN prices \cap DOMAIN bar.con_order} |-> RowPrice(bar, prices, i)],
       cones |-> [i \in {ConeAt(bar, k)[1] : k \in past} |-> prices[Max({k \in past : ConeAt(bar, k) = <<i>>})]]]
\* The price of a squared row, through twice the bound at the best point.
ConeDuals(socs, prices, primal) ==
  [i \in {j \in DOMAIN prices : DOMAIN socs[j].aff[1].t \subseteq DOMAIN primal} |->
     2 * At(socs[i].aff[1], primal) * Magnitude(prices[i])]

Incumbent(bar, report, upper) == IF bar.obj.max = upper THEN report.lower ELSE report.upper
parse_solution(bar, m, report) ==
  LET status == tim_model_status(report)
      solved == status \in {1, 4}
      parsed == IF solved /\ report.node # <<-3>> THEN parse_results(bar, report) ELSE <<>>
      points == IF solved /\ parsed = <<>> THEN <<Point(<<>>, Incumbent(bar, report, TRUE))>> ELSE parsed
      read == IF solved /\ report.prices # None THEN parse_dual_solution(bar, report.prices[1]) ELSE [dual |-> <<>>, cones |-> <<>>]
      reduced == IF solved /\ report.prices # None THEN ByPosition(bar.order, report.marginals) ELSE <<>>
      cones == IF points = <<>> THEN <<>> ELSE ConeDuals(m.socs, read.cones, points[1].primal)
      captured == read.dual # <<>> \/ reduced # <<>> \/ \E i \in DOMAIN cones : cones[i] >= 0
  IN  [termination |-> map_status(report.phrases, status), points |-> points,
       dual |-> read.dual, cones |-> cones, reduced |-> reduced,
       bound |-> Incumbent(bar, report, FALSE),
       claim |-> IF solved /\ report.prices # None /\ captured THEN "FeasiblePoint"
                 ELSE IF solved THEN "Unknown" ELSE "NoSolution"]
BaronAnswer(bar, m, report) ==
  RequireActiveDualEvidence(parse_solution(bar, m, report), ToSet(bar.con_order), ToSet(bar.soc_order))

\* parse_iis: entries [name, side] by the names of the program.
parse_iis(entries) ==
  [rows |-> {e.name[2] : e \in {f \in entries : f.name[1] = "c"}},
   cones |-> {e.name[2] : e \in {f \in entries : f.name[1] = "soc"}},
   bounds |-> {<<e.name[2], IF e.side = "Upper" THEN "Upper" ELSE "Lower">> : e \in {f \in entries : f.name[1] = "x"}}]
\* compute_iis answers only for a model that BARON found infeasible, and with
\* something in it.
compute_iis(report, entries) ==
  IF map_status(report.phrases, tim_model_status(report)) # "Infeasible" \/ entries = {} THEN None ELSE <<parse_iis(entries)>>
=============================================================================
