------------------------------ MODULE Projection ------------------------------
(***************************************************************************)
(* Bringing a result back to the coordinates of the model it is asked of:   *)
(* the lineage of forked models (lineage.rs), plans of source coordinates   *)
(* and the projection of results onto them (reconstruct.rs), and the        *)
(* wrapper that reformulates a model in place before it solves it           *)
(* (oximo-gdp solver.rs).                                                   *)
(*                                                                          *)
(* A coordinate is only a number in the code.  Here every declaration also  *)
(* has an identity, the model that made it and its position there, which    *)
(* the code never sees: a solver answers for coordinate i with the identity *)
(* of the declaration it solved for, so a value that is read back as        *)
(* another declaration's shows.                                             *)
(***************************************************************************)
EXTENDS Integers, Sequences, FiniteSets, FiniteSetsExt, SequencesExt, Functions

CONSTANTS Models,       \* the models, the first one built from nothing
          RootModel,         \* that model
          MaxItems,     \* bound on the variables of a model; other registries hold two
          MaxSteps,     \* bound on the edits before the last result
          Sign, Offset  \* the objective transform of a projection

\* Zero is the owner of what is no declaration (NaN).
ConstantsAreApart == RootModel \in Models /\ 0 \notin Models

Kinds == {"variable", "row", "cone", "sos", "parameter"} \* the registries

VARIABLES items,    \* model -> registry -> its declarations
          lineage,  \* model -> its ancestors and what it inherited, nearest first
          reports,  \* model -> the reformulations run on it in place
          plan,     \* a SourceProjectionPlan that was captured
          cache,    \* GdpSolver.source
          outcome,  \* what the last projection returned
          steps

vars == <<items, lineage, reports, plan, cache, outcome, steps>>

Live == DOMAIN items
Count(m, k) == Len(items[m][k])
Prefix(m) == [k \in Kinds |-> Count(m, k)]
Item(m, k, gen, alt) == [owner |-> m, at |-> Count(m, k), gen |-> gen, alt |-> alt]
Grown(m, k, gen, alt) == [items EXCEPT ![m][k] = Append(@, Item(m, k, gen, alt))]
Indices(n) == 0 .. n - 1
Generated(m, k) == {i \in Indices(Count(m, k)) : items[m][k][i + 1].gen}
Own(m, k) == Indices(Count(m, k)) \ Generated(m, k)

---------------------------------------------------------------------------
(* Lineage. *)
InheritedPrefix(m, ancestor) ==
  IF m = ancestor THEN <<Prefix(m)>>
  ELSE LET found == {i \in DOMAIN lineage[m] : lineage[m][i].id = ancestor}
       IN  IF found = {} THEN <<>> ELSE <<lineage[m][Min(found)].prefix>>

Chain(m) == <<[id |-> m, prefix |-> Prefix(m)]>> \o lineage[m]
\* The chains are aligned at the root and read from the nearest ancestors on.
SharedParameterPrefix(a, b) ==
  LET n == Min({Len(Chain(a)), Len(Chain(b))})
      left == SubSeq(Chain(a), Len(Chain(a)) - n + 1, Len(Chain(a)))
      right == SubSeq(Chain(b), Len(Chain(b)) - n + 1, Len(Chain(b)))
      common == {i \in 1 .. n : left[i].id = right[i].id}
  IN  IF common = {} THEN <<>>
      ELSE LET i == Min(common)
           IN  <<Min({left[i].prefix["parameter"], right[i].prefix["parameter"]})>>

---------------------------------------------------------------------------
(* Plans: SourceIndices are a prefix or an explicit set of coordinates.     *)
Upto(n) == [prefix |-> TRUE, ids |-> Indices(n)]
Explicit(S) == [prefix |-> FALSE, ids |-> S]
UpperBound(s) == IF s.ids = {} THEN 0 ELSE Max(s.ids) + 1

CapturedPlan(m) ==
  [source |-> m, variables |-> Upto(Count(m, "variable")), rows |-> Upto(Count(m, "row")),
   cones |-> Count(m, "cone"), retained |-> {}, parameters |-> items[m]["parameter"]]

\* source_plan: what is left of the registries without the generated ranges,
\* as a prefix when nothing follows them.
Membership(m, k) ==
  LET count == Count(m, k) - Cardinality(Generated(m, k))
  IN  IF Generated(m, k) = {} \/ Min(Generated(m, k)) = count
      THEN Upto(count) ELSE Explicit(Own(m, k))
\* The activations a report still speaks of keep their values.
SourcePlan(m) ==
  [CapturedPlan(m) EXCEPT !.variables = Membership(m, "variable"),
                          !.rows = Membership(m, "row"),
                          !.retained = {i \in Generated(m, "variable") :
                                          items[m]["variable"][i + 1].alt}]
\* Fault: a plan is kept for as long as nothing is reformulated.
ReportKey(m) == [model |-> m, reports |-> reports[m], prefix |-> <<>>]
SourceKey(m) == [model |-> m, reports |-> reports[m], prefix |-> [Prefix(m) EXCEPT !["sos"] = 0]]

---------------------------------------------------------------------------
(* Results.  NaN stands for a number that is not finite.                    *)
NaN == [owner |-> 0, at |-> 0, gen |-> FALSE, alt |-> FALSE]
Some(v) == <<v>>
Unset == <<>>
IsFinite(v) == v # NaN
Restore(o) == IF o = Unset THEN Unset ELSE Some(Sign * o[1] + Offset)

\* What a solver returns for model m as it was with `size` declarations: a
\* point that misses the variables of a set, has no finite value for those of
\* another, and a second, complete one behind it.
Answers(m, k, size, without, nan) ==
  [i \in Indices(size[k]) \ without |-> IF i \in nan THEN NaN ELSE items[m][k][i + 1]]
Point(m, size, without, nan, bare, rank) ==
  [rank |-> rank,
   model |-> IF bare THEN Unset ELSE Some(m),
   parameters |-> IF bare THEN <<>> ELSE SubSeq(items[m]["parameter"], 1, size["parameter"]),
   primal |-> Answers(m, "variable", size, without, nan),
   objective |-> Some(1)]
Result(m, size, points, optimal, bound) ==
  [model |-> m,
   parameters |-> SubSeq(items[m]["parameter"], 1, size["parameter"]),
   points |-> points,
   termination |-> IF optimal THEN "Optimal" ELSE "TimeLimit",
   primal_status |-> IF optimal THEN "OptimalPoint" ELSE "FeasiblePoint",
   dual_status |-> "FeasiblePoint",
   dual |-> Answers(m, "row", size, {}, {}),
   soc_dual |-> Answers(m, "cone", size, {}, {}),
   reduced_costs |-> Answers(m, "variable", size, {}, {}),
   semantic_dual |-> <<>>,
   best_bound |-> bound,
   gap |-> Some(0)]

Detached(p) == p.model = Unset /\ p.parameters = <<>>
\* validate_result_points
PointsAreNative(r) ==
  \A i \in DOMAIN r.points :
    LET p == r.points[i]
    IN  /\ p.model = Unset \/ p.model = Some(r.model)
        /\ Detached(p) \/ p.parameters = r.parameters

Kept(f, ids) == Restrict(f, {i \in (DOMAIN f) \cap ids : IsFinite(f[i])})

\* normalize_validated_result on one point, with what `prepare_point` does.
NormalPoint(p, r, pl, reevaluated) ==
  [rank |-> p.rank,
   model |-> Some(r.model),
   parameters |-> IF Detached(p) \/ Len(p.parameters) > Len(r.parameters)
                  THEN r.parameters ELSE p.parameters,
   primal |-> Kept(p.primal, pl.variables.ids \cup pl.retained),
   objective |-> IF reevaluated THEN Some(pl.variables.ids \cap DOMAIN p.primal)
                 ELSE Restore(p.objective)]
Complete(p, pl) == \A i \in pl.variables.ids : i \in DOMAIN p.primal /\ IsFinite(p.primal[i])
\* The points that are complete, in their order.
Survivors(points, pl) ==
  LET kept[i \in 0 .. Len(points)] ==
        IF i = 0 THEN <<>>
        ELSE IF Complete(points[i], pl) THEN Append(kept[i - 1], points[i])
        ELSE kept[i - 1]
  IN  kept[Len(points)]

\* Fault: the statuses are those of the result, whichever points survive.
OrphanedNormalized(r, pl, alternatives, reevaluated) ==
  LET sound == Survivors(r.points, pl)
      points == [i \in DOMAIN sound |-> NormalPoint(sound[i], r, pl, reevaluated)]
      status == IF points = <<>> THEN "NoSolution"
                ELSE IF r.termination = "Optimal" THEN "OptimalPoint" ELSE "FeasiblePoint"
  IN  [r EXCEPT !.points = points,
                !.primal_status = status,
                !.dual = Kept(@, pl.rows.ids),
                !.soc_dual = Kept(@, Indices(pl.cones)),
                !.reduced_costs = Kept(@, pl.variables.ids),
                !.semantic_dual = [i \in alternatives \cap pl.rows.ids |-> Unset],
                !.best_bound = IF status = "OptimalPoint" /\ @ = Unset
                               THEN points[1].objective ELSE @,
                !.gap = IF status = "NoSolution" THEN Unset ELSE @]

\* A certificate only outlives the incumbent's point.
Normalized(r, pl, alternatives, reevaluated) ==
  LET sound == Survivors(r.points, pl)
      lost == r.points # <<>> /\ ~Complete(r.points[1], pl)
      points == [i \in DOMAIN sound |-> NormalPoint(sound[i], r, pl, reevaluated)]
      status == IF points = <<>> THEN "NoSolution"
                ELSE IF r.termination = "Optimal" /\ ~lost /\ r.primal_status # "FeasiblePoint"
                THEN "OptimalPoint" ELSE "FeasiblePoint"
      duals == r.dual_status = "FeasiblePoint" /\ ~lost
      only(f, ids) == IF duals THEN Kept(f, ids) ELSE <<>>
  IN  [r EXCEPT !.points = points,
                !.primal_status = status,
                !.dual_status = IF lost THEN "Unknown" ELSE @,
                !.dual = only(@, pl.rows.ids),
                !.soc_dual = only(@, Indices(pl.cones)),
                !.reduced_costs = only(@, pl.variables.ids),
                !.semantic_dual = [i \in alternatives \cap pl.rows.ids |-> Unset],
                !.best_bound = IF status = "OptimalPoint" /\ @ = Unset
                               THEN points[1].objective ELSE @,
                !.gap = IF lost \/ status = "NoSolution" THEN Unset ELSE @]

---------------------------------------------------------------------------
(* Projection.                                                             *)
\* check_source_coordinates
CoordinatesExist(source, pl) ==
  /\ UpperBound(pl.variables) <= Count(source, "variable")
  /\ UpperBound(pl.rows) <= Count(source, "row")
  /\ pl.cones <= Count(source, "cone")

\* Fault: a retained coordinate may be one the source has given away since.
AliasedInheritanceCovers(source, native, pl) ==
  \/ native = source
  \/ LET found == InheritedPrefix(native, source)
     IN  /\ found # <<>>
         /\ UpperBound(pl.variables) <= found[1]["variable"]
         /\ UpperBound(pl.rows) <= found[1]["row"]
         /\ pl.cones <= found[1]["cone"]
         /\ Count(source, "sos") <= found[1]["sos"]

\* SourceProjection::validate, for a result of `native` on `source`.
InheritanceCovers(source, native, pl) ==
  \/ native = source
  \/ LET found == InheritedPrefix(native, source)
     IN  /\ found # <<>>
         /\ UpperBound(pl.variables) <= found[1]["variable"]
         /\ UpperBound(pl.rows) <= found[1]["row"]
         /\ pl.cones <= found[1]["cone"]
         /\ Count(source, "sos") <= found[1]["sos"]
         /\ \A i \in pl.retained :
              ~(i >= found[1]["variable"] /\ i < Count(source, "variable"))
Valid(source, native, pl, r) ==
  /\ CoordinatesExist(source, pl)
  /\ pl.source = source
  /\ r.model = native
  /\ InheritanceCovers(source, native, pl)
  /\ PointsAreNative(r)

ParameterCount(source, native, pl) ==
  LET shared == SharedParameterPrefix(source, native)
  IN  IF native = source \/ shared = <<>> THEN Len(pl.parameters)
      ELSE Min({Len(pl.parameters), shared[1]})

Alternatives(m) == {i \in Indices(Count(m, "row")) : items[m]["row"][i + 1].alt}

Project(source, native, pl, r, reevaluated) ==
  LET n == ParameterCount(source, native, pl)
      rebound == [r EXCEPT !.model = source, !.best_bound = Restore(@),
                           !.parameters = SubSeq(@, 1, Min({n, Len(@)}))]
  IN  IF Valid(source, native, pl, r)
      THEN [ok |-> TRUE, source |-> source, native |-> native, wrapped |-> FALSE, plan |-> pl, answer |-> r,
            result |-> Normalized(rebound, pl, Alternatives(source), reevaluated)]
      ELSE [ok |-> FALSE, source |-> source, native |-> native, wrapped |-> FALSE, plan |-> pl, answer |-> r]

\* The multiplier a caller is given for row i: SolverResult::dual_of.
DualOf(r, i) ==
  IF i \in DOMAIN r.semantic_dual THEN r.semantic_dual[i]
  ELSE IF i \in DOMAIN r.dual THEN Some(r.dual[i]) ELSE Unset

---------------------------------------------------------------------------
Nothing == [ok |-> FALSE, source |-> RootModel, native |-> RootModel, wrapped |-> FALSE, plan |-> Unset, answer |-> Unset]
\* The first model, with a declaration in every registry.
OneItem == [k \in Kinds |-> <<[owner |-> RootModel, at |-> 0, gen |-> FALSE, alt |-> FALSE]>>]

Init ==
  /\ items = [m \in {RootModel} |-> OneItem]
  /\ lineage = [m \in {RootModel} |-> <<>>]
  /\ reports = [m \in {RootModel} |-> 0]
  /\ plan = Unset /\ cache = Unset /\ outcome = Nothing /\ steps = 0

Tick == steps < MaxSteps /\ steps' = steps + 1
\* A projection changes nothing, so nothing need follow it.
Finish == steps' = MaxSteps

Declare(m, k, alt) ==
  /\ Count(m, k) < (IF k = "variable" THEN MaxItems ELSE 2) /\ (alt => k = "row")
  /\ items' = Grown(m, k, FALSE, alt)
  /\ outcome' = Nothing /\ UNCHANGED <<lineage, reports, plan, cache>>

\* Model::fork: the registries are shared, and the branch remembers what it
\* inherited of every ancestor.
Fork(m, n) ==
  /\ n \notin Live
  /\ items' = [i \in Live \cup {n} |-> IF i = n THEN items[m] ELSE items[i]]
  /\ lineage' = [i \in Live \cup {n} |->
                   IF i = n THEN <<[id |-> m, prefix |-> Prefix(m)]>> \o lineage[m]
                   ELSE lineage[i]]
  /\ reports' = [i \in Live \cup {n} |-> IF i = n THEN reports[m] ELSE reports[i]]
  /\ outcome' = Nothing /\ UNCHANGED <<plan, cache>>

\* An in-place reformulation appends a variable, an activation the report
\* speaks of or not, and a row.
Reformulate(m, spoken) ==
  /\ Count(m, "variable") < MaxItems /\ Count(m, "row") < MaxItems
  /\ items' = [items EXCEPT ![m]["variable"] = Append(@, Item(m, "variable", TRUE, spoken)),
                            ![m]["row"] = Append(@, Item(m, "row", TRUE, FALSE))]
  /\ reports' = [reports EXCEPT ![m] = @ + 1]
  /\ outcome' = Nothing /\ UNCHANGED <<lineage, plan, cache>>

\* SourceProjectionPlan::capture(..).retain_variables(..), of variables that a
\* reformulation generated in some model.
Capture(m, retained) ==
  /\ plan = Unset
  /\ plan' = Some([CapturedPlan(m) EXCEPT !.retained = retained])
  /\ outcome' = Nothing /\ UNCHANGED <<items, lineage, reports, cache>>

\* The backend's first point misses some variable or has no finite value for
\* it, or is complete; the points may be detached.
Shape(m, size, i, bare, end) ==
  Result(m, size,
         <<Point(m, size, IF bare THEN {} ELSE {i}, IF bare THEN {i} ELSE {}, bare, 1),
           Point(m, size, {}, {}, bare, 2)>>, end # "stopped", IF end = "proved" THEN Some(2) ELSE Unset)
Shapes(m, size) ==
  {Shape(m, size, i, bare, end) :
     i \in Indices(size["variable"]) \cup {-1}, bare \in BOOLEAN,
     end \in {"optimal", "proved", "stopped"}}

ProjectResult(source, native, reevaluated) ==
  /\ plan # Unset
  /\ \E r \in Shapes(native, Prefix(native)) :
       outcome' = Project(source, native, plan[1], r, reevaluated)
  /\ UNCHANGED <<items, lineage, reports, plan, cache>>

\* GdpSolver::solve: the plan is kept while nothing was declared, and is made
\* before the backend runs, whose callbacks may declare a variable.
GdpSolve(m, late) ==
  LET key == SourceKey(m)
      kept == IF cache # Unset /\ cache[1].key = key THEN cache[1]
              ELSE [key |-> key, plan |-> SourcePlan(m)]
      size == Prefix(m)
  IN  /\ reports[m] > 0
      /\ late => Count(m, "variable") < MaxItems
      /\ cache' = Some(kept)
      /\ items' = IF late THEN Grown(m, "variable", FALSE, FALSE) ELSE items
      /\ \E r \in Shapes(m, size) : outcome' = [Project(m, m, kept.plan, r, FALSE) EXCEPT !.wrapped = TRUE]
      /\ UNCHANGED <<lineage, reports, plan>>

Next ==
  \/ /\ Tick
     /\ \/ \E m \in Live, k \in Kinds, alt \in BOOLEAN : Declare(m, k, alt)
        \/ \E m \in Live, n \in Models : Fork(m, n)
        \/ \E m \in Live, spoken \in BOOLEAN : Reformulate(m, spoken)
        \/ \E m, n \in Live : Capture(m, {}) \/ Capture(m, Generated(n, "variable"))
        \/ \E m \in Live, late \in BOOLEAN : GdpSolve(m, late)
  \/ \E s, n \in Live, again \in BOOLEAN :
       steps < MaxSteps /\ ProjectResult(s, n, again) /\ Finish

Spec == Init /\ [][Next]_vars
---------------------------------------------------------------------------
(* Properties. *)

\* Whatever a projection accepts, no number is read back as another
\* declaration's: every value, dual, reduced cost and parameter the caller
\* sees at a coordinate of its model was computed for that very declaration.
ProjectedCoordinatesAreTheSources ==
  outcome.ok =>
    LET r == outcome.result
        Mine(f, k) == \A i \in DOMAIN f :
                        i < Count(outcome.source, k) => f[i] = items[outcome.source][k][i + 1]
        Bound(s) == \A i \in DOMAIN s : s[i] = items[outcome.source]["parameter"][i]
    IN  /\ r.model = outcome.source
        /\ Mine(r.dual, "row") /\ Mine(r.soc_dual, "cone") /\ Mine(r.reduced_costs, "variable")
        /\ Bound(r.parameters)
        /\ \A i \in DOMAIN r.points : /\ Mine(r.points[i].primal, "variable")
                                       /\ Bound(r.points[i].parameters)

\* Duals, the gap and the claim of optimality belong to the incumbent: when
\* its point did not survive, the points behind it inherit none of them, and
\* the objective of another point is never taken for a bound.
CertificatesFollowIncumbent ==
  outcome.ok =>
    LET r == outcome.result
        survived == r.points # <<>> /\ r.points[1].rank = 1
        claims == \/ r.primal_status = "OptimalPoint" \/ r.dual # <<>> \/ r.reduced_costs # <<>>
                  \/ r.soc_dual # <<>> \/ r.gap # Unset
    IN  /\ claims => survived
        /\ r.best_bound # Unset /\ outcome.answer.best_bound = Unset
             => survived /\ r.best_bound = r.points[1].objective
        /\ \A i \in Alternatives(outcome.source) \cap outcome.plan.rows.ids : DualOf(r, i) = Unset

\* The wrapper around a solver that reformulates in place answers in exactly
\* the caller's own coordinates, those declared up to this solve, and the
\* activations its report speaks of; declarations a callback adds during the
\* solve wait for the next one.  A complete point always survives.
WrapperKeepsOwnCoordinates ==
  outcome.ok /\ outcome.wrapped =>
    LET m == outcome.source
        solved == DOMAIN outcome.answer.reduced_costs
        spoken == {i \in Generated(m, "variable") : items[m]["variable"][i + 1].alt}
        points == outcome.result.points
    IN  /\ points # <<>>
        /\ \A i \in DOMAIN points :
             /\ (Own(m, "variable") \cap solved) \subseteq DOMAIN points[i].primal
             /\ DOMAIN points[i].primal \subseteq (Own(m, "variable") \cap solved) \cup spoken
=============================================================================
