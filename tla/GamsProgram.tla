----------------------------- MODULE GamsProgram -----------------------------
(***************************************************************************)
(* The script the GAMS adapter writes for a prepared model and the answer   *)
(* it reads from the file that the script leaves behind (oximo-gams         *)
(* translate.rs).  A solve is one run: nothing is kept between solves.      *)
(*                                                                          *)
(* An equation is [at, body, rel, rhs]: a symbol <<family, index, suffix>>, *)
(* an expression, a relation and a number.  The body is a polynomial, and,  *)
(* for a cone, affine terms whose squares are added or taken off.  What     *)
(* GAMS makes of a script (defaults of the kinds of variables, indicator    *)
(* mappings, ordered sets) is external.                                     *)
(***************************************************************************)
EXTENDS SourceModels

\* The sub-solvers that options may name stand for the rows of the table of
\* solve types; "default" leaves the choice to GAMS.
SubSolvers == {"default", "CPLEX", "SCIP", "CBC", "IPOPT", "SHOT"}
supported_solve_types ==
  [CPLEX |-> {"LP", "MIP", "QCP", "MIQCP"}, SCIP |-> {"MIP", "QCP", "MIQCP"}, CBC |-> {"LP", "MIP"},
   IPOPT |-> {"LP", "QCP"}, SHOT |-> {"MIQCP"}]
\* Expressions are at most quadratic here, and smooth.
gams_solve_type(m) ==
  IF Class(m) = "LP" THEN IF IsMixed(m) THEN "MIP" ELSE "LP"
  ELSE IF IsMixed(m) THEN "MIQCP" ELSE "QCP"
indicator_supported(solver) == solver \in {"CPLEX", "SCIP"}
GamsAccepts(m, solver) ==
  /\ Actives(m.psds) = <<>>
  /\ solver # "default" => gams_solve_type(m) \in supported_solve_types[solver]
  /\ Actives(m.inds) # <<>> => indicator_supported(solver)

---------------------------------------------------------------------------
(* Declarations and bounds.                                                *)
Kind(v) ==
  CASE v.dom = "binary" -> "Binary"
    [] v.dom = "integer" -> "Integer"
    [] v.dom = "semicontinuous" -> "Semicont"
    [] v.dom = "semiinteger" -> "Semiint"
    [] OTHER -> "Free"
Statement(suffix, value, wanted) == IF wanted THEN suffix :> value ELSE <<>>
\* write_var_bounds: only what differs from the defaults of a binary variable;
\* .lo of a semi-continuous one is the end of its gap.
write_var_bounds(v) ==
  CASE Kind(v) = "Binary" ->
         IF v.lb = v.ub THEN "fx" :> v.lb
         ELSE Statement("lo", v.lb, v.lb # 0) @@ Statement("up", v.ub, v.ub # 1)
    [] IsSemi(v) -> "lo" :> v.semi @@ Statement("up", v.ub, Finite(v.ub))
    [] OTHER -> "lo" :> v.lb @@ Statement("up", v.ub, Finite(v.ub))
\* External: the bounds a kind comes with.
DefaultLower(kind) == IF kind = "Free" THEN -Inf ELSE 0
DefaultUpper(kind) == IF kind = "Binary" THEN 1 ELSE Inf
Bounded(kind, stated, x) ==
  LET said(suffix, default) ==
        IF "fx" \in DOMAIN stated THEN stated["fx"] ELSE IF suffix \in DOMAIN stated THEN stated[suffix] ELSE default
  IN  \/ kind \in {"Semicont", "Semiint"} /\ x = 0
      \/ Between(said("lo", DefaultLower(kind)), x, said("up", DefaultUpper(kind)))

---------------------------------------------------------------------------
(* Equations.                                                              *)
Equation(at, poly, rel, rhs) == [at |-> at, body |-> [poly |-> poly, plus |-> <<>>, less |-> <<>>], rel |-> rel, rhs |-> rhs]
\* The constant of an affine expression is folded into the right-hand side,
\* also beyond infinity; any other expression is written whole.
Declared(at, poly, rel, rhs) ==
  IF IsAffine(poly) THEN Equation(at, [poly EXCEPT !.c = 0], rel, Shift(rhs, poly.c)) ELSE Equation(at, poly, rel, rhs)
Bound(r) == IF Sense(r) = "ge" THEN r.lo ELSE r.hi
\* One equation for a row with a sense of its own, two for every other row, free
\* and deactivated ones among them.
RowEquations(family, i, r) ==
  IF Single(r) THEN {Declared(<<family, i, "">>, r.poly, Sense(r), Bound(r))}
  ELSE {Declared(<<family, i, "_lo">>, r.poly, "ge", r.lo), Declared(<<family, i, "_hi">>, r.poly, "le", r.hi)}
\* A sum of squares below the square of the bound, which keeps its sign apart.
write_soc_equations(m) ==
  UNION {{[at |-> <<"soc", i, "">>, rel |-> "le", rhs |-> 0,
           body |-> [poly |-> Affine(0, <<>>), plus |-> Tail(m.socs[i].aff), less |-> <<m.socs[i].aff[1]>>]],
          Equation(<<"soc", i, "_sign">>, m.socs[i].aff[1], "ge", 0)} : i \in ToSet(Actives(m.socs))}
\* Indicators without a side have no equation.
IndicatorEquations(m) ==
  UNION {RowEquations("ind", i, m.inds[i]) : i \in {j \in ToSet(Actives(m.inds)) : Sense(m.inds[j]) # "free"}}
\* A trigger that is in no equation would not reach the solver.
TriggerUses(m) ==
  {Equation(<<"use", m.inds[i].trigger, "">>, Affine(0, m.inds[i].trigger :> 1), "ge", 0) : i \in ToSet(Actives(m.inds))}
Equations(m) ==
  UNION {RowEquations("c", i, m.rows[i]) : i \in DOMAIN m.rows}
  \cup write_soc_equations(m) \cup IndicatorEquations(m) \cup TriggerUses(m)

\* write_equations names its equations in a first pass, before it writes any.
Named(family, i, r) ==
  IF Single(r) THEN {<<family, i, "">>} ELSE {<<family, i, "_lo">>, <<family, i, "_hi">>}
DeclaredNames(m) ==
  UNION {Named("c", i, m.rows[i]) : i \in DOMAIN m.rows}
  \cup ({"soc"} \X ToSet(Actives(m.socs)) \X {"", "_sign"})
  \cup UNION {Named("ind", i, m.inds[i]) : i \in {j \in ToSet(Actives(m.inds)) : Sense(m.inds[j]) # "free"}}
  \cup {<<"use", m.inds[i].trigger, "">> : i \in ToSet(Actives(m.inds))}

\* An ordered set is a variable of its own over its members, each free below
\* and linked to the variable it stands for.
SosLinks(m) ==
  [k \in ToSet(Actives(m.soss)) |-> [type |-> m.soss[k].type, linked |-> m.soss[k].over, lower |-> -Inf]]

\* The lines "indic equation$trigger value", in the option file of the solver,
\* or, for SCIP, in a file of their own that the option file points to.
write_indicator_mappings(m) ==
  UNION {{[at |-> at, trigger |-> m.inds[i].trigger, value |-> m.inds[i].value] : at \in Named("ind", i, m.inds[i])} :
           i \in {j \in ToSet(Actives(m.inds)) : Sense(m.inds[j]) # "free"}}
NoOptions == [pointer |-> FALSE, mappings |-> {}]
build_solver_opt(m, solver) ==
  CASE Actives(m.inds) = <<>> -> NoOptions
    [] Actives(m.inds) # <<>> /\ solver = "SCIP" -> [NoOptions EXCEPT !.pointer = TRUE]
    [] OTHER -> [NoOptions EXCEPT !.mappings = write_indicator_mappings(m)]
write_scip_indicator_file(m, solver) ==
  IF solver = "SCIP" THEN write_indicator_mappings(m) ELSE {}

\* write_solution_puts: the equations whose marginals line D of a row adds up,
\* and the cones that have a line Z.
DualLine(i, r) == IF Sense(r) = "range" THEN {<<"c", i, "_lo">>, <<"c", i, "_hi">>} ELSE {<<"c", i, "">>}
write_solution_puts(m) ==
  [rows |-> [i \in DOMAIN m.rows |-> DualLine(i, m.rows[i])], cones |-> ToSet(Actives(m.socs))]

Script(m, solver) ==
  [kinds |-> [i \in DOMAIN m.vars |-> Kind(m.vars[i])],
   stated |-> [i \in DOMAIN m.vars |-> write_var_bounds(m.vars[i])],
   levels |-> [i \in {j \in DOMAIN m.vars : m.vars[j].init # None} |-> m.vars[i].init[1]],
   names |-> DeclaredNames(m), equations |-> Equations(m), sets |-> SosLinks(m),
   options |-> build_solver_opt(m, solver), indicators |-> write_scip_indicator_file(m, solver),
   obj |-> ObjectivePoly(m), max |-> Maximizes(m), type |-> gams_solve_type(m), puts |-> write_solution_puts(m)]

---------------------------------------------------------------------------
(* What GAMS does with a script (external).                                *)
Symbols(script) == {e.at : e \in script.equations}
\* Model oximo_m / all /: every name has an equation, and only names are read.
Compiles(script) ==
  /\ script.names = Symbols(script) /\ Cardinality(script.equations) = Cardinality(script.names)
  /\ \A i \in DOMAIN script.puts.rows : script.puts.rows[i] \subseteq script.names
  /\ \A i \in script.puts.cones : <<"soc", i, "">> \in script.names
Mapped(script) == script.options.mappings \cup (IF script.options.pointer THEN script.indicators ELSE {})
BodyAt(body, x) ==
  LET squares(affs) == FoldSet(LAMBDA k, s : s + At(affs[k], x) * At(affs[k], x), 0, DOMAIN affs)
  IN  At(body.poly, x) + squares(body.plus) - squares(body.less)
Related(rel, v, rhs) ==
  CASE rel = "le" -> rhs = Inf \/ v <= rhs
    [] rel = "ge" -> rhs = -Inf \/ v >= rhs
    [] rel = "eq" -> v = rhs
GamsHolds(script, x) ==
  /\ \A i \in DOMAIN x : Bounded(script.kinds[i], script.stated[i], x[i])
  /\ \A e \in script.equations :
       (\A mapping \in Mapped(script) : mapping.at = e.at => x[mapping.trigger] = mapping.value)
         => Related(e.rel, BodyAt(e.body, x), e.rhs)
  /\ \A k \in DOMAIN script.sets :
       LET aux == [j \in DOMAIN script.sets[k].linked |-> x[script.sets[k].linked[j]]]
       IN  /\ OneOf(script.sets[k].type, {j \in DOMAIN aux : aux[j] # 0})
           /\ \A j \in DOMAIN aux : aux[j] >= script.sets[k].lower
GamsObjective(script, x) == At(script.obj, x)

---------------------------------------------------------------------------
(* The solution file.  A report is [model, solve, marginals, objective,     *)
(* level, reduced, price, pool]: the two status codes, whether the solver   *)
(* says that it has marginals (or <<>>), the objective, the numbers GAMS    *)
(* has for levels and marginals of variables and for marginals of           *)
(* equations, and the points a sub-solver left beside them.                 *)
modelstat_has_solution(status) == status \in {1, 2, 7, 8, 15, 16, 17}
modelstat_termination(status) ==
  CASE status = 1 -> "Optimal"
    [] status = 2 -> "LocallyOptimal"
    [] status \in {7, 8, 15, 16, 17} -> "Feasible"
    [] status \in {3, 18} -> "Unbounded"
    [] status \in {4, 10, 19} -> "Infeasible"
    [] status = 5 -> "LocallyInfeasible"
    [] status = 11 -> "LicenseError"
    [] OTHER -> "Other"
map_status(modelstat, solvestat) ==
  CASE solvestat = 1 -> modelstat_termination(modelstat)
    [] solvestat = 2 -> "IterationLimit"
    [] solvestat = 3 -> "TimeLimit"
    [] solvestat \in {4, 8} -> "Interrupted"
    [] solvestat \in {5, 10, 11, 13} -> "NumericError"
    [] solvestat = 7 -> "LicenseError"
    [] solvestat = 12 -> "NotSolved"
    [] OTHER -> "Other"
\* Codes that are missing from the file.
Code(field, default) == IF field = <<>> THEN default ELSE field[1]

\* The multiplier of a row: the sum its line D printed, if GAMS had the numbers.
RowDuals(script, price) ==
  [i \in {j \in DOMAIN script.puts.rows : script.puts.rows[j] \subseteq DOMAIN price} |->
     FoldSet(LAMBDA at, s : s + price[at], 0, script.puts.rows[i])]
\* A squared row prices the bound of the cone through twice the bound's value.
ConeDuals(script, socs, level, price) ==
  [i \in {j \in script.puts.cones : <<"soc", j, "">> \in DOMAIN price /\ DOMAIN socs[j].aff[1].t \subseteq DOMAIN level} |->
     2 * At(socs[i].aff[1], level) * Magnitude(price[<<"soc", i, "">>])]
parseoximo_solution(script, m, report) ==
  LET modelstat == Code(report.model, 13)
      solved == modelstat_has_solution(modelstat)
      priced == solved /\ report.marginals = <<TRUE>>
      dual == IF priced THEN RowDuals(script, report.price) ELSE <<>>
      cones == IF priced THEN ConeDuals(script, m.socs, report.level, report.price) ELSE <<>>
      reduced == IF priced THEN report.reduced ELSE <<>>
      empty == priced /\ dual = <<>> /\ reduced = <<>> /\ ~\E i \in DOMAIN cones : cones[i] >= 0
  IN  [termination |-> map_status(modelstat, Code(report.solve, 0)),
       points |-> IF solved THEN <<[primal |-> report.level, objective |-> report.objective]>> ELSE <<>>,
       dual |-> dual, cones |-> cones, reduced |-> reduced,
       claim |-> CASE report.marginals = <<>> -> "Unknown"
                   [] priced -> IF empty THEN "Unknown" ELSE "FeasiblePoint"
                   [] OTHER -> "NoSolution"]
\* Rows whose multipliers a claim needs.
active_dual_rows(m) == {i \in DOMAIN m.rows : m.rows[i].active /\ Sense(m.rows[i]) # "free"}
\* A sub-solver may leave a pool of points, each with a level for every variable
\* (0 where none is printed).  Members without a variable of the model are not
\* points; the best comes first.
parse_pool_member(m, member) ==
  [primal |-> [i \in DOMAIN member.levels \cap DOMAIN m.vars |->
                 IF member.levels[i] = <<>> THEN 0 ELSE member.levels[i][1]],
   objective |-> member.objective]
read_solution_pool(m, members) ==
  SortSeq(SelectSeq([k \in DOMAIN members |-> parse_pool_member(m, members[k])], LAMBDA point : point.primal # <<>>),
          LAMBDA a, b : IF Maximizes(m) THEN a.objective > b.objective ELSE a.objective < b.objective)
\* The pool takes the place of a point that has a value for every variable.
WithPool(m, answer, members) ==
  LET pool == read_solution_pool(m, members)
      complete == answer.points # <<>> /\ DOMAIN m.vars \subseteq DOMAIN answer.points[1].primal
  IN  IF complete /\ pool # <<>> THEN [answer EXCEPT !.points = pool] ELSE answer
GamsAnswer(script, m, report) ==
  RequireActiveDualEvidence(WithPool(m, parseoximo_solution(script, m, report), report.pool),
                            active_dual_rows(m), ToSet(Actives(m.socs)))
=============================================================================
