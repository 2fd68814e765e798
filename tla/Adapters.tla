------------------------------- MODULE Adapters -------------------------------
(***************************************************************************)
(* A persistent handle of one of seven adapters, solved again and again      *)
(* while parameters change and the model is edited.  Each adapter decides   *)
(* from what survived of earlier solves whether to rewrite numbers of the   *)
(* resident problem, to push a delta, or to build it anew; whatever it      *)
(* decides, the solver must be left with the model as it is now.  GAMS and  *)
(* BARON keep nothing: their problem is a file, written for every solve and *)
(* removed with its run.                                                    *)
(*                                                                          *)
(* The models are given: one for every scene, structural variant and value  *)
(* of the parameter.                                                        *)
(***************************************************************************)
EXTENDS Integers, Sequences, FiniteSets

CONSTANTS Solvers,   \* the adapters
          Scenes, Variants, ParameterValues,
          Snapshots, \* Snapshots[scene][variant][value]
          Points     \* Points[scene][variant]: where models are compared

M == INSTANCE MosekTask
C == INSTANCE ClarabelProblem
H == INSTANCE HighsProblem
G == INSTANCE GurobiNative
S == INSTANCE ScipProblem
Gams == INSTANCE GamsProgram
B == INSTANCE BaronProgram

VARIABLES adapter, scene, variant, p,
          native,    \* the resident state, or <<>>
          base,      \* the parameter value of the last solve that ended well, or <<>>
          edited,    \* whether the model was edited since
          fresh      \* whether the last call was such a solve

vars == <<adapter, scene, variant, p, native, base, edited, fresh>>

Model == Snapshots[scene][variant][p]
None == <<>>

OneShot == adapter \in {"gams", "baron"}
Kept == IF OneShot THEN None ELSE native

Init ==
  /\ adapter \in Solvers /\ scene \in Scenes /\ variant \in Variants /\ p \in ParameterValues
  /\ native = None /\ base = None /\ edited = TRUE /\ fresh = FALSE

SetParameter(q) ==
  /\ q # p
  /\ p' = q /\ fresh' = FALSE /\ native' = Kept
  /\ UNCHANGED <<adapter, scene, variant, base, edited>>

EditModel(w) ==
  /\ w # variant
  /\ variant' = w /\ edited' = TRUE /\ fresh' = FALSE /\ native' = Kept
  /\ UNCHANGED <<adapter, scene, p, base>>

\* PersistentPreparation::prepare: everything after an edit, else what the
\* changed parameter reaches.
Full == base = None \/ edited
DependsOnParameter(t) ==
  \E q, r \in ParameterValues : M!Datum(Snapshots[scene][variant][q], t) # M!Datum(Snapshots[scene][variant][r], t)
ChangedTargets ==
  IF Full \/ base[1] = p THEN {} ELSE {t \in M!Targets(Model) : DependsOnParameter(t)}

Solved(state) ==
  /\ native' = state
  /\ base' = <<p>> /\ edited' = FALSE /\ fresh' = TRUE
  /\ UNCHANGED <<adapter, scene, variant, p>>

SolveMosek ==
  /\ adapter = "mosek" /\ M!MosekAccepts(Model)
  /\ Solved(IF native = None THEN M!Rebuilt(Model) ELSE M!MosekRetain(native, Model, Full, ChangedTargets))
\* The solver takes `sent` of four updates, or complete data, or neither.
SolveClarabel ==
  /\ adapter = "clarabel" /\ C!ClarabelAccepts(Model)
  /\ \E sent \in 0 .. 4, whole \in BOOLEAN :
       Solved(IF native = None THEN C!Rebuilt(C!BuildProblem(Model))
              ELSE C!ClarabelRetain(native, Model, Full, ChangedTargets, sent, whole))
SolveHighs ==
  /\ adapter = "highs" /\ H!HighsAccepts(Model)
  /\ Solved(IF native = None THEN H!Rebuilt(Model) ELSE H!HighsRetain(native, Model, Full, ChangedTargets))
SolveGurobi ==
  /\ adapter = "gurobi" /\ G!GurobiAccepts(Model)
  /\ \E callback \in BOOLEAN :
       Solved(IF native # None
              THEN G!GurobiRetain(native, Model, Full, ChangedTargets, callback, <<variant, p>>)
              ELSE IF callback THEN G!WithCallback(G!Rebuilt(Model), <<variant, p>>) ELSE G!Rebuilt(Model))
SolveScip ==
  /\ adapter = "scip" /\ S!ScipAccepts(Model)
  /\ \E same \in BOOLEAN :
       Solved(IF native = None THEN S!ScipRebuilt(S!ScipSnapshot(Model))
              ELSE S!ScipRetain(native, Model, Full, ChangedTargets, same))

\* The files are in place until the next call.
RanOnce(program) ==
  /\ native' = program /\ fresh' = TRUE
  /\ UNCHANGED <<adapter, scene, variant, p, base, edited>>
\* A script that does not compile leaves no solution file.
SolveGams ==
  /\ adapter = "gams"
  /\ \E solver \in Gams!SubSolvers :
       Gams!GamsAccepts(Model, solver) /\ Gams!Compiles(Gams!Script(Model, solver)) /\ RanOnce(Gams!Script(Model, solver))
SolveBaron ==
  /\ adapter = "baron" /\ B!BaronAccepts(Model)
  /\ RanOnce(B!Bar(Model))

Accepted ==
  CASE adapter = "mosek" -> M!MosekAccepts(Model)
    [] adapter = "clarabel" -> C!ClarabelAccepts(Model)
    [] adapter = "highs" -> H!HighsAccepts(Model)
    [] adapter = "gurobi" -> G!GurobiAccepts(Model)
    [] adapter = "scip" -> S!ScipAccepts(Model)
    [] adapter = "gams" -> \E solver \in Gams!SubSolvers : Gams!GamsAccepts(Model, solver)
    [] adapter = "baron" -> B!BaronAccepts(Model)
\* A model turned away before the preparation leaves the handle alone; Gurobi
\* checks it after.
RejectSolve ==
  /\ ~Accepted
  /\ fresh' = FALSE
  /\ IF adapter = "gurobi" THEN native' = None /\ base' = None ELSE UNCHANGED <<native, base>>
  /\ UNCHANGED <<adapter, scene, variant, p, edited>>
\* Any failure of a native call drops the problem and the preparation; so does
\* reset.
FailSolve ==
  /\ Accepted
  /\ native' = None /\ base' = None /\ fresh' = FALSE
  /\ UNCHANGED <<adapter, scene, variant, p, edited>>
\* A model SCIP cannot translate keeps the problem but not the preparation.
FailTranslation ==
  /\ adapter = "scip"
  /\ base' = None /\ fresh' = FALSE
  /\ UNCHANGED <<adapter, scene, variant, p, native, edited>>

Next ==
  \/ \E q \in ParameterValues : SetParameter(q)
  \/ \E w \in Variants : EditModel(w)
  \/ SolveMosek \/ SolveClarabel \/ SolveHighs \/ SolveGurobi \/ SolveScip \/ SolveGams \/ SolveBaron
  \/ RejectSolve \/ FailSolve \/ FailTranslation
Spec == Init /\ [][Next]_vars

---------------------------------------------------------------------------
Holds(x) ==
  CASE adapter = "mosek" -> M!MosekHolds(native.task, x)
    [] adapter = "clarabel" -> C!ClarabelHolds(native, x)
    [] adapter = "highs" -> H!HighsHolds(native, x)
    [] adapter = "gurobi" -> G!GurobiHolds(native, x)
    [] adapter = "scip" -> S!ScipHolds(native, x)
    [] adapter = "gams" -> Gams!GamsHolds(native, x)
    [] adapter = "baron" -> B!BaronHolds(native, x)
Value(x) ==
  CASE adapter = "mosek" -> M!MosekObjective(native.task, x)
    [] adapter = "clarabel" -> C!ClarabelObjective(native, x)
    [] adapter = "highs" -> H!HighsObjective(native, x)
    [] adapter = "gurobi" -> G!GurobiObjective(native, x)
    [] adapter = "scip" -> S!ScipObjective(native, x)
    [] adapter = "gams" -> Gams!GamsObjective(native, x)
    [] adapter = "baron" -> B!BaronObjective(native, x)
Direction ==
  CASE adapter = "mosek" -> native.task.max
    [] adapter = "clarabel" -> native.problem.sign < 0
    [] adapter = "highs" -> native.native.max
    [] adapter = "gurobi" -> native.native.obj.max
    [] adapter = "scip" -> native.native.max
    [] adapter = "gams" -> native.max
    [] adapter = "baron" -> native.obj.max

\* After a solve, through whatever updates, deltas and rebuilds the resident
\* problem came about, it admits the points of the model as it is now and gives
\* them the model's objective, in its direction; rows that a callback added for
\* other values of the model are not among its rows.
ResidentMeansModel ==
  fresh => /\ \A x \in Points[scene][variant] : Holds(x) = M!Feasible(Model, x)
           /\ \A x \in Points[scene][variant] : Value(x) = M!Objective(Model, x)
           /\ Model.obj # None => Direction = M!Maximizes(Model)
           /\ adapter = "gurobi" => native.lazy \subseteq {<<variant, p>>}

---------------------------------------------------------------------------
(* Multipliers and answers.                                                *)
Only(k, among) == [n \in among |-> IF n = k THEN 1 ELSE 0]
\* The squared form of a cone at price 1 pulls on every variable as the cone
\* itself does at the multiplier of its bound, up to the bound's value.
Pull(aff, x, j) ==
  LET slope(k) == IF j \in DOMAIN aff[k].t THEN aff[k].t[j] * M!At(aff[k], x) ELSE 0
      rest[k \in 1 .. Len(aff)] == IF k = 1 THEN -slope(1) ELSE rest[k - 1] + slope(k)
  IN  rest[Len(aff)]
PricesTheBound(aff, multiplier, squared(_), x) ==
  \A j \in DOMAIN x :
    2 * multiplier * Pull(aff, x, j)
      = M!At(aff[1], x) * (squared([x EXCEPT ![j] = @ + 1]) - squared([x EXCEPT ![j] = @ - 1]))

GamsLinesReadTheirRow(e) ==
  LET dual == Gams!RowDuals(native, Only(e.at, Gams!Symbols(native)))
  IN  IF e.at[1] = "c"
      THEN dual = Only(e.at[2], DOMAIN Model.rows) /\ e.body.poly.t = Model.rows[e.at[2]].poly.t
      ELSE dual = Only(0, DOMAIN Model.rows)
GamsLinesReadTheirCone(e) ==
  e.at[1] = "soc" /\ e.at[3] = "" =>
    \A x \in Points[scene][variant] :
      PricesTheBound(Model.socs[e.at[2]].aff, Gams!ConeDuals(native, Model.socs, x, Only(e.at, Gams!Symbols(native)))[e.at[2]],
                     LAMBDA y : Gams!BodyAt(e.body, y), x)
\* The numbers of a results file, by position, of the k-th equation alone.
BaronPositionsAreTheirs(k) ==
  LET name == native.equations[k].name
      read == B!parse_dual_solution(native, Only(k, DOMAIN native.equations))
  IN  /\ name[1] = "c" => /\ read.dual = Only(name[2], DOMAIN read.dual) /\ name[2] \in DOMAIN read.dual
                          /\ read.cones = Only(0, DOMAIN read.cones)
                          /\ native.equations[k].body.poly.t = Model.rows[name[2]].poly.t
      /\ name[1] = "soc" => /\ read.dual = Only(0, DOMAIN read.dual)
                            /\ read.cones = Only(IF name[3] = "" THEN name[2] ELSE 0, M!ToSet(M!Actives(Model.socs)))
      /\ name[1] = "soc" /\ name[3] = "" =>
           \A x \in Points[scene][variant] :
             PricesTheBound(Model.socs[name[2]].aff, B!ConeDuals(Model.socs, read.cones, x)[name[2]],
                            LAMBDA y : B!BodyAt(native.equations[k].body, y), x)
      /\ LET blamed == B!parse_iis({[name |-> name, side |-> "Upper"]})
         IN  IF name[1] = "c" THEN blamed.rows = {name[2]} /\ blamed.cones = {} ELSE blamed.rows = {} /\ blamed.cones = {name[2]}
BaronPointsAreTheirs ==
  \A x \in Points[scene][variant] : B!ByPosition(native.order, [k \in DOMAIN native.order |-> x[native.order[k]]]) = x

\* Reports with some of the numbers a solver may leave out.
Printed == {"everything", "rows", "cones", "variables", "nothing"}
Numbers(among, kinds, printed) == IF printed \in kinds \cup {"everything"} THEN [n \in among |-> 1] ELSE <<>>
GamsReports ==
  {[model |-> status, solve |-> <<1>>, marginals |-> marginals, objective |-> 0,
    pool |-> IF printed = "everything"
             THEN <<[objective |-> 1, levels |-> [i \in DOMAIN Model.vars |-> <<i>>]], [objective |-> 2, levels |-> <<>>],
                    [objective |-> 0, levels |-> [i \in 1 .. Len(Model.vars) + 1 |-> <<>>]]>>
             ELSE <<>>,
    level |-> Numbers(DOMAIN Model.vars, {"rows", "cones"}, printed),
    reduced |-> Numbers(DOMAIN Model.vars, {"variables"}, printed),
    price |-> [at \in {n \in Gams!Symbols(native) : printed \in {"everything", IF n[1] = "c" THEN "rows" ELSE "cones"}} |-> 1]] :
     status \in {<<>>, <<1>>, <<4>>, <<8>>}, marginals \in {<<>>, <<TRUE>>, <<FALSE>>}, printed \in Printed}
BaronReports ==
  {[status |-> status, node |-> node, lower |-> 0, upper |-> 1, phrases |-> phrases,
    pool |-> IF printed = "everything"
             THEN <<[objective |-> 1, values |-> [k \in DOMAIN Model.vars |-> 1]], [objective |-> 0, values |-> [k \in DOMAIN Model.vars |-> 0]]>>
             ELSE <<>>,
    table |-> IF printed \in {"rows", "cones"} THEN <<[objective |-> 1, values |-> [i \in DOMAIN Model.vars |-> 1]]>> ELSE None,
    marginals |-> Numbers(DOMAIN Model.vars, {"variables"}, printed),
    prices |-> IF printed = "nothing" THEN None
               ELSE <<[k \in {n \in DOMAIN native.equations :
                               printed = "everything" \/ printed = (IF native.equations[n].name[1] = "c" THEN "rows" ELSE "cones")} |-> 1]>>] :
     status \in {<<>>, <<1>>, <<2>>, <<4>>}, node \in {<<-3>>, <<0>>}, phrases \in {{}, {"completion"}, {"completion", "time exceeded"}},
     printed \in Printed}
ClaimHasEvidence(claim, dual, cones) ==
  claim = "FeasiblePoint" =>
    /\ LET bounding == {i \in DOMAIN Model.rows : Model.rows[i].active /\ M!Sense(Model.rows[i]) # "free"}
       IN  bounding # {} => bounding \cap DOMAIN dual # {}
    /\ M!Actives(Model.socs) # <<>> => DOMAIN cones # {}
BestFirst(points) ==
  \A k, l \in DOMAIN points :
    k < l => IF M!Maximizes(Model) THEN points[k].objective >= points[l].objective
             ELSE points[k].objective <= points[l].objective
\* What every answer owes to the report it was read from: an outcome comes with
\* its point, points come best first and whole, and multipliers with a claim.
AnswerIsSupported(answer) ==
  /\ answer.termination \in {"Optimal", "Feasible"} => answer.points # <<>>
  /\ answer.claim = "FeasiblePoint" \/ answer.dual = <<>>
  /\ \A k \in DOMAIN answer.points : DOMAIN answer.points[k].primal \subseteq DOMAIN Model.vars
  /\ BestFirst(answer.points)
\* No point of a relaxation is taken for one of a mixed model, nor its prices.
MixedHasNoPrices(answer) == M!IsMixed(Model) => answer.dual = <<>> /\ answer.cones = <<>> /\ answer.claim = "NoSolution"
GamsAnswersAreSupported ==
  \A report \in GamsReports :
    LET answer == Gams!GamsAnswer(native, Model, report)
    IN  /\ ClaimHasEvidence(answer.claim, answer.dual, answer.cones)
        /\ answer.claim = "FeasiblePoint" => answer.points # <<>>
        /\ answer.termination \in {"Optimal", "Feasible"} <=> answer.points # <<>>
        /\ \A k \in DOMAIN answer.points : DOMAIN answer.points[k].primal \subseteq DOMAIN Model.vars
        /\ BestFirst(answer.points)
\* The incumbent is the best of the points, and bounded by the other bound.
BaronAnswersAreSupported ==
  \A report \in BaronReports :
    LET answer == B!BaronAnswer(native, Model, report)
    IN  /\ ClaimHasEvidence(answer.claim, answer.dual, answer.cones)
        /\ answer.termination \in {"Optimal", "Feasible"} => answer.points # <<>>
        /\ BestFirst(answer.points)
        /\ answer.points # <<>> =>
             IF M!Maximizes(Model) THEN answer.bound >= answer.points[1].objective
             ELSE answer.bound <= answer.points[1].objective
\* Rows that are cones have no multiplier.
Detected == {i \in DOMAIN Model.rows : M!DetectedSoc(Model.vars, Model.rows[i])}
\* The point of each kind of solution is marked by its objective, multipliers
\* that satisfy the dual by 1.
MosekReports ==
  LET solution(status, mark) ==
        [status |-> status, x |-> [i \in DOMAIN Model.vars |-> 0], objective |-> mark,
         y |-> [k \in DOMAIN native.task.rows |-> IF status \in {"OPTIMAL", "DUAL_FEAS"} THEN 1 ELSE 0],
         slx |-> [i \in DOMAIN Model.vars |-> 2], sux |-> [i \in DOMAIN Model.vars |-> 1],
         dots |-> [k \in DOMAIN native.task.accs |-> [e \in 1 .. native.task.accs[k].dim |-> 1]]]
      statuses == {"OPTIMAL", "PRIM_FEAS", "DUAL_FEAS", "PRIM_INFEAS_CER"}
  IN  {[itr |-> itr, bas |-> bas, itg |-> itg, problem |-> "UNKNOWN", trm |-> trm, bound |-> <<0>>] :
         itr \in {None} \cup {<<solution(status, 1)>> : status \in statuses}, bas \in {None, <<solution("OPTIMAL", 2)>>},
         itg \in {None, <<solution("PRIM_FEAS", 3)>>, <<solution("INTEGER_OPTIMAL", 3)>>}, trm \in {"OK", "MAX_TIME"}}
MosekAnswersAreSupported ==
  \A report \in MosekReports :
    LET answer == M!MosekAnswer(native.task, report)
    IN  /\ AnswerIsSupported(answer) /\ MixedHasNoPrices(answer)
        /\ \A k \in DOMAIN answer.points : answer.points[k].objective \in IF M!IsMixed(Model) THEN {3} ELSE {1, 2}
        /\ (answer.bound # None) = M!IsMixed(Model)
        /\ ~M!IsMixed(Model) /\ report.itr = None /\ report.bas # None => answer.points # <<>>
        /\ answer.claim = "FeasiblePoint" =>
             /\ DOMAIN answer.dual = {i \in DOMAIN Model.rows : M!Source(native.task, <<"row", i>>) = {}}
             /\ \A i \in DOMAIN answer.dual : answer.dual[i] = 1
             /\ DOMAIN answer.cones = M!ToSet(M!Actives(Model.socs))
             /\ DOMAIN answer.matrices = M!ToSet(M!Actives(Model.psds))
             /\ DOMAIN answer.reduced = DOMAIN Model.vars
\* Gurobi prices all rows or none; an optimal solve has a point.
GurobiReports ==
  LET points == [k \in 1 .. 2 |-> [primal |-> [i \in DOMAIN Model.vars |-> k], objective |-> IF M!Maximizes(Model) THEN -k ELSE k]]
  IN  {[status |-> status, points |-> SubSeq(points, 1, count), readable |-> readable, direct |-> direct,
        price |-> IF priced THEN [n \in DOMAIN native.native.rows |-> 1] ELSE <<>>,
        reduced |-> IF priced THEN [i \in DOMAIN Model.vars |-> 1] ELSE <<>>, bound |-> 0] :
         status \in {"Optimal", "SubOptimal", "TimeLimit", "Infeasible"}, count \in 0 .. 2, readable \in 0 .. 2,
         direct \in BOOLEAN, priced \in BOOLEAN}
GurobiAnswersAreSupported ==
  /\ \A report \in {r \in GurobiReports : r.status \in {"Optimal", "SubOptimal"} => r.points # <<>>} :
       LET answer == G!GurobiAnswer(native.native, Model, report)
       IN  /\ AnswerIsSupported(answer) /\ MixedHasNoPrices(answer)
           /\ ClaimHasEvidence(answer.claim, answer.dual, answer.cones)
           /\ (answer.points # <<>>) = (report.points # <<>>)
           /\ answer.points # <<>> => answer.points[1].objective = report.points[1].objective
  /\ \A status \in {"Infeasible", "InfOrUnbd", "Unbounded"}, second \in {None, <<"Infeasible">>, <<"Unbounded">>} :
       LET read == G!compute_iis_resident(native.native, status, second, DOMAIN native.native.rows, TRUE)
       IN  read # None =>
             /\ status = "Infeasible" \/ second = <<"Infeasible">>
             /\ read[1] = {<<"row", i>> : i \in {j \in DOMAIN Model.rows : Model.rows[j].active /\ M!Sense(Model.rows[j]) # "free"}}
                          \cup {<<"soc", i>> : i \in M!ToSet(M!Actives(Model.socs))}
                          \cup {<<"indicator", i>> : i \in {j \in M!ToSet(M!Actives(Model.inds)) : M!Sense(Model.inds[j]) # "free"}}
\* The bound of a solved problem is the value of its dual; both are restored
\* alike, so that equal values stay equal.
ClarabelReports ==
  {[status |-> status, x |-> [i \in DOMAIN Model.vars |-> 0], value |-> 1, other |-> other,
    z |-> [k \in DOMAIN native.problem.rows |-> 1]] :
     status \in {"Solved", "AlmostSolved", "PrimalInfeasible", "MaxTime", "AlmostPrimalInfeasible"}, other \in {0, 1}}
ClarabelAnswersAreSupported ==
  \A report \in ClarabelReports :
    LET answer == C!ClarabelAnswer(native.problem, report)
    IN  /\ AnswerIsSupported(answer)
        /\ ClaimHasEvidence(answer.claim, [i \in DOMAIN answer.dual \cup Detected |-> 0], answer.cones)
        /\ answer.bound # None =>
             /\ IF M!Maximizes(Model) THEN answer.bound[1] >= answer.points[1].objective
                ELSE answer.bound[1] <= answer.points[1].objective
             /\ report.other = report.value => answer.bound[1] = answer.points[1].objective
\* HiGHS may have rows that are not of the model, behind the model's.
HighsReports ==
  {[status |-> status, feasible |-> feasible, duals |-> duals, value |-> 1, x |-> [i \in DOMAIN Model.vars |-> 0],
    reduced |-> [i \in DOMAIN Model.vars |-> 0], rows |-> [k \in 1 .. Len(native.native.rows) + more |-> k], bound |-> bound] :
     status \in {"Optimal", "ReachedTimeLimit", "Infeasible"}, feasible \in BOOLEAN, duals \in {None, <<"Feasible">>, <<"Infeasible">>},
     more \in {0, 1}, bound \in {None, <<1>>}}
HighsAnswersAreSupported ==
  \A report \in {r \in HighsReports : r.status = "Optimal" => r.feasible} :
    LET answer == H!HighsAnswer(native, Model, report)
    IN  /\ answer.termination = "Optimal" => answer.points # <<>>
        /\ (answer.claim = "FeasiblePoint" /\ answer.points # <<>>) => DOMAIN answer.dual = DOMAIN Model.rows
        /\ answer.bound # None => M!IsMixed(Model)
        /\ (answer.bound # None /\ answer.points # <<>>) => answer.bound[1] = answer.points[1].objective

\* Whatever a native solver reports, and whatever it leaves out, the answer made
\* of it is consistent: outcomes come with points, the best point first and taken
\* from the right solution, claims of multipliers with multipliers, bounds on the
\* right side of the objective, and subsystems only for infeasible models.
AnswersAreSupported ==
  fresh =>
    CASE adapter = "mosek" -> MosekAnswersAreSupported
      [] adapter = "gurobi" -> GurobiAnswersAreSupported
      [] adapter = "clarabel" -> ClarabelAnswersAreSupported
      [] adapter = "highs" -> HighsAnswersAreSupported
      [] adapter = "gams" -> GamsAnswersAreSupported
      [] adapter = "baron" -> BaronAnswersAreSupported
      [] OTHER -> TRUE

\* MOSEK gives the k-th row y_k, and an ACC a multiplier for each of its entries,
\* signed by the direction of the objective.  The sign of a matrix is taken back,
\* that of a cone is kept.
MosekRowIsItsSource(k) ==
  LET dual == M!collect_continuous_duals(native.task, Only(k, DOMAIN native.task.rows))
      priced == {i \in DOMAIN dual : dual[i] # 0}
  IN  Cardinality(priced) = 1 /\ \A i \in priced : dual[i] = 1 /\ Model.rows[i].poly.t = native.task.rows[k].t
\* A matrix of multipliers pairs with the matrix as they do with its entries.
Pairing(psd, z, x) ==
  LET entry(e) == (IF \E n \in 1 .. psd.n : e = M!TriangleLen(n) THEN 1 ELSE 2) * z[e] * M!At(psd.tri[e], x)
      sum[e \in 0 .. M!TriangleLen(psd.n)] == IF e = 0 THEN 0 ELSE sum[e - 1] + entry(e)
  IN  sum[M!TriangleLen(psd.n)]
MosekAccIsItsSource(k) ==
  LET acc == native.task.accs[k]
      i == acc.source[2]
      dots(e) == [l \in DOMAIN native.task.accs |->
                    [d \in 1 .. native.task.accs[l].dim |->
                       IF l = k /\ d = e THEN (IF M!Maximizes(Model) THEN -1 ELSE 1) ELSE 0]]
      afe(e) == native.task.afes[acc.first + e - 1]
  IN  CASE acc.source[1] = "soc" ->
             \A e \in 1 .. acc.dim :
               M!collect_continuous_soc_duals(native.task, dots(e))
                 = M!Times(Only(IF e = 1 THEN i ELSE 0, M!ToSet(M!Actives(Model.socs))), IF M!Maximizes(Model) THEN -1 ELSE 1)
        [] acc.source[1] = "psd" ->
             \A e \in 1 .. acc.dim :
               LET matrices == M!MatrixDuals(native.task, dots(e))
               IN  \A x \in Points[scene][variant] :
                     Pairing(Model.psds[i], matrices[i], x) = (IF afe(e).root THEN 2 ELSE 1) * M!At(afe(e), x)
        [] OTHER -> TRUE
GurobiRowIsItsSource(n) ==
  LET dual == G!RowDuals(native.native, Only(n, DOMAIN native.native.rows))
      owners == G!Owners(native.native, n)
  IN  /\ Cardinality(owners) = 1
      /\ \A owner \in owners :
           \A i \in DOMAIN dual : dual[i] = IF owner = <<"row", i>> THEN 1 ELSE 0
GurobiConeIsItsSource(k) ==
  LET handle == native.native.socs[k]
      row == native.native.rows[handle.rows[1]]
  IN  \A x \in Points[scene][variant] :
        PricesTheBound(Model.socs[handle.id].aff,
                       G!ConeDuals(native.native, x, Only(handle.rows[1], DOMAIN native.native.rows))[handle.id],
                       LAMBDA y : M!Dot(row.t, y) + G!CrossTerms(row.q, y), x)
ClarabelRowIsItsSource(k) ==
  native.problem.rows[k].source # 0 =>
    /\ C!ClarabelGradient(native, k)
         = C!Times(Model.rows[C!ClarabelPrice(native, k).source].poly.t, C!ClarabelPrice(native, k).scale)
    /\ C!RowDuals(native.problem, Only(k, DOMAIN native.problem.rows))[native.problem.rows[k].source] = C!ClarabelPrice(native, k).scale
ClarabelBlockIsItsSource(k) ==
  LET block == native.problem.blocks[k]
      z(e) == Only(block.start + e - 1, DOMAIN native.problem.rows)
  IN  CASE block.source[1] = "soc" ->
             /\ C!ConeDuals(native.problem, z(1)) = Only(block.source[2], M!ToSet(M!Actives(Model.socs)))
             /\ native.problem.rows[block.start].t = C!Times(Model.socs[block.source[2]].aff[1].t, -1)
        [] block.source[1] = "psd" ->
             \A e \in 1 .. block.dim, x \in Points[scene][variant] :
               Pairing(Model.psds[block.source[2]], C!MatrixDuals(native.problem, z(e))[block.source[2]], x)
                 = (IF native.problem.rows[block.start + e - 1].root THEN 2 ELSE 1) * C!Slack(native.solver, block.start + e - 1, x)
        [] OTHER -> TRUE

\* A multiplier is credited to the source whose coefficients it prices: by the
\* rows and cones of a task (MOSEK), with the sign of the model's objective
\* (Clarabel), through the owner of every native row (Gurobi), by the symbols a
\* script prints (GAMS) and by the positions of a program (BARON), a cone's
\* through the square of its bound where it was squared.
MultipliersReachTheirSource ==
  fresh =>
    CASE adapter = "mosek" ->
           (\A k \in DOMAIN native.task.rows : MosekRowIsItsSource(k)) /\ (\A k \in DOMAIN native.task.accs : MosekAccIsItsSource(k))
      [] adapter = "clarabel" ->
           (\A k \in DOMAIN native.problem.rows : ClarabelRowIsItsSource(k))
           /\ (\A k \in DOMAIN native.problem.blocks : ClarabelBlockIsItsSource(k))
      [] adapter = "gurobi" ->
           (\A n \in DOMAIN native.native.rows : GurobiRowIsItsSource(n)) /\ (\A k \in DOMAIN native.native.socs : GurobiConeIsItsSource(k))
      [] adapter = "gams" -> \A e \in native.equations : GamsLinesReadTheirRow(e) /\ GamsLinesReadTheirCone(e)
      [] adapter = "baron" -> (\A k \in DOMAIN native.equations : BaronPositionsAreTheirs(k)) /\ BaronPointsAreTheirs
      [] OTHER -> TRUE

\* Prices SCIP reports for a linear model, whichever sign they came with, prove
\* the point optimal and are the shadow prices of the model.
PriceRange == -1 .. 1
CertifiedPricesAreOptimal ==
  fresh /\ adapter = "scip" /\ native.snap.kind = "LP" /\ ~M!IsMixed(Model) /\ Model.inds = <<>> /\ Model.soss = <<>> =>
    \A x \in {y \in Points[scene][variant] : M!Feasible(Model, y)} :
      (\E prices \in [DOMAIN Model.rows -> PriceRange], sign \in {1, -1} :
         S!ValidPrices(native.snap, x, [r \in DOMAIN prices |-> sign * prices[r]],
                       [i \in DOMAIN x |-> S!Residual(native.snap, [r \in DOMAIN prices |-> sign * prices[r]], i)]))
      => \A y \in Points[scene][variant] : M!Feasible(Model, y) =>
           IF M!Maximizes(Model) THEN M!Objective(Model, y) <= M!Objective(Model, x)
           ELSE M!Objective(Model, y) >= M!Objective(Model, x)

\* as_single is "None for a genuine range (or an unconstrained row)", and "backends
\* and writers without native two-sided rows branch on this": the lines that read
\* the marginals of a GAMS script name the equations that the script declares.
ScriptsCompile ==
  adapter = "gams" =>
    \A solver \in Gams!SubSolvers : Gams!GamsAccepts(Model, solver) => Gams!Compiles(Gams!Script(Model, solver))
=============================================================================
