--------------------------- MODULE PreparedModel ---------------------------
(***************************************************************************)
(* What a solver adapter sees of an oximo model: variables with bounds     *)
(* that may be parameters, an objective, algebraic rows that can be        *)
(* switched off, and the parameter values.  A solve reads the model        *)
(* through a LoweringContext; this module defines what a fresh one (a cold *)
(* solve) shows, and the edits that change a model.                        *)
(*                                                                         *)
(* An expression is a root.  Its numeric terms are the pair of the root    *)
(* and the values of the parameters below it: two extractions agree only   *)
(* when they read the same values, so every stale coefficient shows.       *)
(***************************************************************************)
EXTENDS Integers, FiniteSets

CONSTANTS Params, Values,   \* parameters and the values they may take
          Zero,             \* the value that makes a Hessian vanish
          Negative,         \* the value that is negative as a lower bound
          Vars, Rows,       \* variables and algebraic rows of the model
          Roots,            \* expressions in the arena
          ZeroRoot,         \* the constant 0 that replaces an inactive row
          Deps,             \* Deps[root]: parameters below the expression
          Quadratics,       \* roots of degree two, the others are affine
          ConeVar,          \* ConeVar[root]: bound variable of its cone shape
          Feasibility, Undeclared, None

ASSUME ValuesAssumption == Zero \in Values /\ Negative \in Values
ASSUME RootsAssumption == /\ ZeroRoot \in Roots /\ Quadratics \subseteq Roots
                          /\ ZeroRoot \notin Quadratics
                          /\ Deps \in [Roots -> SUBSET Params] /\ Deps[ZeroRoot] = {}
                          /\ ConeVar \in [Quadratics -> Vars]
ASSUME NamesAssumption == /\ Feasibility \notin Roots /\ Undeclared \notin Roots
                          /\ Values \cap Params = {}

Valuations == [Params -> Values]

\* A model: its revision stands for the ModelUpdateKey, which covers everything
\* here but the parameter values (ModelRegistry shows that it does).
ModelType == [objective : Roots \cup {Feasibility, Undeclared},
              lhs : [Rows -> Roots], active : [Rows -> BOOLEAN],
              bound : [Vars -> Values \cup Params],
              params : Valuations, revision : Nat]

Terms(root, params) == [root |-> root, values |-> [p \in Deps[root] |-> params[p]]]

\* Variable::resolved.
Bound(source, params) == IF source \in Params THEN params[source] ELSE source
ResolvedVariables(m) == [v \in Vars |-> Bound(m.bound[v], m.params)]

\* The expression stored in the row; the row keeps its function while inactive.
RowRoot(m, r) == IF m.active[r] THEN m.lhs[r] ELSE ZeroRoot

HasObjective(m) == m.objective \in Roots

\* Roots of the stored structures, in the order of no consequence.
ModelRoots(m) == {RowRoot(m, r) : r \in Rows}
                 \cup (IF HasObjective(m) THEN {m.objective} ELSE {})

HessianVanishes(terms) == \A p \in DOMAIN terms.values : terms.values[p] = Zero

\* __soc_bound_variable: the row has the diagonal cone shape with these terms.
ConeCandidate(terms) == IF HessianVanishes(terms) THEN None ELSE ConeVar[terms.root]

IsDetectedCone(terms, variables) ==
    /\ ConeCandidate(terms) # None
    /\ variables[ConeCandidate(terms)] # Negative

QuadraticRows(m) == {r \in Rows : m.active[r] /\ m.lhs[r] \in Quadratics}

\* Model::infer_kind_impl; terms is what the caller extracts for each root.
InferKind(m, variables, terms) ==
    CASE \E r \in QuadraticRows(m) : ~ IsDetectedCone(terms[m.lhs[r]], variables) -> "QCP"
      [] QuadraticRows(m) # {}
           /\ \A r \in QuadraticRows(m) : IsDetectedCone(terms[m.lhs[r]], variables) -> "SOCP"
      [] QuadraticRows(m) = {} /\ m.objective \in Quadratics -> "QP"
      [] OTHER -> "LP"

ColdTerms(m) == [root \in Roots |-> Terms(root, m.params)]
ColdKind(m) == InferKind(m, ResolvedVariables(m), ColdTerms(m))

-----------------------------------------------------------------------------
(* Edits *)

\* Writing the same value again is an edit too: a revision does not compare.
SetObjective(m, objective) == [m EXCEPT !.objective = objective, !.revision = @ + 1]
SetActive(m, r, active) == [m EXCEPT !.active[r] = active, !.revision = @ + 1]
SetFunction(m, r, root) == [m EXCEPT !.lhs[r] = root, !.revision = @ + 1]
SetBounds(m, v, source) == [m EXCEPT !.bound[v] = source, !.revision = @ + 1]

\* Model::set_param_id: the value lives in the arena, outside the update key.
SetParam(m, p, value) == [m EXCEPT !.params[p] = value]
=============================================================================
