------------------------------ MODULE ModelEdits ------------------------------
(***************************************************************************)
(* Edits of variables, bounds and parameters (model/variables.rs), the     *)
(* parameter and bound bookkeeping of the expression arena (arena.rs), and *)
(* the cached problem class (model/classify.rs).                           *)
(*                                                                         *)
(* A bound is a constant or a parameter.  The arena keeps, apart from the  *)
(* variables, a check for every variable with a parameter bound and the    *)
(* index from parameters to those variables; a parameter write is judged   *)
(* by them alone.  Rows and the objective are reduced to what decides the  *)
(* class: a degree, and for a quadratic row the variable and parameter     *)
(* that decide whether it is a second-order cone; a registered cone or     *)
(* semidefinite constraint is a row of degree "Cone" or "Matrix".          *)
(***************************************************************************)
EXTENDS Integers, FiniteSets, Sequences

CONSTANTS Names,        \* names a declaration may use
          Numbers,      \* finite values a caller writes
          Huge,         \* stands for f64::INFINITY; larger than every number
          MaxVars,      \* bound: variables a model declares
          MaxParameterRevision   \* bound: parameter revisions explored

ASSUME HugeAssumption ==
  Huge \in Nat \ {0} /\ \A n \in Numbers : n \in Int /\ -Huge < n /\ n < Huge

VARIABLES vars,         \* Model::variables: records [name, domain, threshold, lb, ub]
          values,       \* ExprArena::param_values
          checks,       \* ExprArena::bound_checks: variable |-> its two bounds
          dependents,   \* ExprArena::bound_dependencies: parameter |-> variables
          locked,       \* ExprArena::locked_parameters
          parameterRevision,  \* ExprArena::parameter_revision
          cached,       \* cached_kind and its parameter revision, as a
                        \* set of at most one
          rows,         \* constraints: records [degree, bound, scale, active]
          objective     \* degree of the objective

arena == <<values, checks, dependents, locked, parameterRevision>>
editVars == <<vars, arena, cached, rows, objective>>

IsInteger(domain) == domain \in {"Integer", "Binary", "SemiInteger"}
IsSemi(domain) == domain \in {"SemiContinuous", "SemiInteger"}

---------------------------------------------------------------------------
(* Bounds.                                                                 *)

Fixed(v) == [parameter |-> 0, value |-> v]
ByParameter(p) == [parameter |-> p, value |-> 0]
ParametersOf(bounds) == {b.parameter : b \in bounds} \ {0}

Resolve(b, assignment) ==
  IF b.parameter = 0 THEN b.value ELSE assignment[b.parameter]

ValidBounds(lower, upper) == lower <= upper /\ lower # Huge /\ upper # -Huge

Lower(v) == Resolve(vars[v].lb, values)
Upper(v) == Resolve(vars[v].ub, values)

(* The range reformulations and adapters give a variable: a semi-domain    *)
(* may always be zero, whatever its lower bound says.                      *)
RawEffectiveBounds(v) ==
  LET x == vars[v]
      Least(a, b) == IF a < b THEN a ELSE b
  IN IF IsSemi(x.domain)
     THEN <<Least(x.threshold, 0), -Least(-Upper(v), 0)>>
     ELSE <<Lower(v), Upper(v)>>

(* __set_bound_check: the arena forgets the variable's previous bounds and *)
(* indexes the new ones when a parameter occurs in them.                   *)
ForgetCheck(v, index) ==
  IF v \in DOMAIN checks
  THEN [p \in DOMAIN index |->
          IF p \in ParametersOf({checks[v].lower, checks[v].upper})
          THEN index[p] \ {v} ELSE index[p]]
  ELSE index

SetBoundCheck(v, lb, ub) ==
  LET used == ParametersOf({lb, ub})
      cleared == ForgetCheck(v, dependents)
      others == DOMAIN checks \ {v}
  IN /\ checks' = IF used = {} THEN [w \in others |-> checks[w]]
                  ELSE [w \in others \cup {v} |->
                          IF w = v THEN [lower |-> lb, upper |-> ub] ELSE checks[w]]
     /\ dependents' = [p \in DOMAIN dependents |->
                         IF p \in used THEN cleared[p] \cup {v} ELSE cleared[p]]

---------------------------------------------------------------------------
(* Classification.                                                         *)

(* A quadratic row x^2 - s t^2 <= 0 is a cone when the coefficient s is    *)
(* positive and t cannot be negative.                                      *)
IsDetectedSoc(row) == values[row.scale] > 0 /\ Lower(row.bound) >= 0

InferKind(sosActive) ==
  LET discrete == sosActive \/ \E v \in DOMAIN vars : vars[v].domain # "Real"
      active == {r \in DOMAIN rows : rows[r].active}
      quadratic == {r \in active : rows[r].degree = "Quadratic"}
      detected == {r \in quadratic : IsDetectedSoc(rows[r])}
      Has(degree) == \E r \in active : rows[r].degree = degree
      Pick(name) == [class |-> name, integer |-> discrete]
  IN IF objective = "Nonlinear" \/ Has("Nonlinear")
     THEN Pick("NLP")
     ELSE IF quadratic \ detected # {} THEN Pick("QCP")
     ELSE IF Has("Matrix") THEN Pick("SDP")
     ELSE IF Has("Cone") \/ detected # {} THEN Pick("SOCP")
     ELSE IF objective = "Quadratic" THEN Pick("QP")
     ELSE Pick("LP")

CacheValid == \E c \in cached : c.revision = parameterRevision

(* kind(): answers from the cache, or infers and caches.                   *)
Kind(sosActive) ==
  /\ cached' = IF CacheValid THEN cached
               ELSE {[kind |-> InferKind(sosActive), revision |-> parameterRevision]}
  /\ UNCHANGED <<vars, arena, rows, objective>>

\* Fault: an edit that may change the class leaves the cached one.
ForgetInvalidation == cached' = cached

InvalidateKind == cached' = {}

---------------------------------------------------------------------------
(* Variables.                                                              *)

VariableNames == {vars[v].name : v \in DOMAIN vars}

MayTakeParameters(domain) == domain # "Binary" /\ ~IsSemi(domain)

(* validate_bounds and the domain test of every declared variable: an      *)
(* invalid declaration panics before anything is registered.               *)
DeclarationFits(domain, lb, ub) ==
  /\ ValidBounds(Resolve(lb, values), Resolve(ub, values))
  /\ MayTakeParameters(domain) \/ ParametersOf({lb, ub}) = {}

(* register_var and register_vars_batch: a batch with a repeated or known  *)
(* name, or an invalid bound, registers nothing.                           *)
RegisterVars(batch, domain, threshold, lb, ub) ==
  LET first == Len(vars)
      fresh == {batch[i] : i \in DOMAIN batch}
      used == ParametersOf({lb, ub})
      added == first + 1 .. first + Len(batch)
  IN /\ Len(vars) + Len(batch) <= MaxVars
     /\ DeclarationFits(domain, lb, ub)
     /\ fresh \cap VariableNames = {}
     /\ Cardinality(fresh) = Len(batch)
     /\ vars' = vars \o [i \in DOMAIN batch |->
          [name |-> batch[i], domain |-> domain, threshold |-> threshold,
           lb |-> lb, ub |-> ub]]
     /\ checks' = IF used = {} THEN checks
                  ELSE [w \in DOMAIN checks \cup added |->
                          IF w \in added THEN [lower |-> lb, upper |-> ub]
                          ELSE checks[w]]
     /\ dependents' = [p \in DOMAIN dependents |->
          IF p \in used THEN dependents[p] \cup added ELSE dependents[p]]
     /\ InvalidateKind
     /\ UNCHANGED <<values, locked, parameterRevision, rows, objective>>

(* Storing accepted bounds: the variable, the arena's check, the class.    *)
StoreBounds(v, lb, ub) ==
  /\ vars' = [vars EXCEPT ![v].lb = lb, ![v].ub = ub]
  /\ SetBoundCheck(v, lb, ub)
  /\ InvalidateKind
  /\ UNCHANGED <<values, locked, parameterRevision, rows, objective>>

(* fix_var: a value inside the current bounds, or the zero of a            *)
(* semi-domain, and never in a semicontinuity gap.                         *)
MayFix(v, value) ==
  LET x == vars[v]
      semiZero == IsSemi(x.domain) /\ value = 0
  IN /\ semiZero \/ (Lower(v) <= value /\ value <= Upper(v))
     /\ IsSemi(x.domain) => value = 0 \/ value >= x.threshold

FixVar(v, value, frozen) ==
  /\ v \notin frozen
  /\ MayFix(v, value)
  /\ StoreBounds(v, Fixed(value), Fixed(value))

(* replace_bounds, reached from set_bounds and unfix_var once the variable *)
(* is known not to be frozen.                                              *)
BoundsFit(v, lb, ub) ==
  LET domain == vars[v].domain
      lower == Resolve(lb, values)
      upper == Resolve(ub, values)
  IN /\ ValidBounds(lower, upper)
     /\ MayTakeParameters(domain) \/ ParametersOf({lb, ub}) = {}
     /\ domain = "Binary" => {lower, upper} \subseteq {0, 1}

SetBounds(v, lb, ub, frozen) ==
  /\ v \notin frozen
  /\ BoundsFit(v, lb, ub)
  /\ StoreBounds(v, lb, ub)

---------------------------------------------------------------------------
(* Parameters.                                                             *)

\* Fault: only the parameters of lower bounds are locked.
LowerBoundParameters(vs) == UNION {ParametersOf({vars[v].lb}) : v \in vs}

(* lock_bound_parameters: the parameters that bound the given variables.   *)
BoundParameters(vs) == UNION {ParametersOf({vars[v].lb, vars[v].ub}) : v \in vs}

(* register_param, and register_params_batch, which keeps the cached class: *)
(* no row mentions a parameter that was only just declared.                *)
RegisterParam(value) ==
  /\ values' = Append(values, value)
  /\ dependents' = Append(dependents, {})
  /\ InvalidateKind
  /\ UNCHANGED <<vars, checks, locked, parameterRevision, rows, objective>>

RegisterParamsBatch(batch) ==
  /\ values' = values \o batch
  /\ dependents' = dependents \o [i \in DOMAIN batch |-> {}]
  /\ UNCHANGED <<vars, checks, locked, parameterRevision, cached, rows, objective>>

\* Fault: each write of a batch is judged against the values before the batch.
BatchFitsSeparately(updates) ==
  /\ DOMAIN updates \cap locked = {}
  /\ \A p \in DOMAIN updates : \A v \in dependents[p] :
       LET alone == [values EXCEPT ![p] = updates[p]]
       IN ValidBounds(Resolve(checks[v].lower, alone),
                      Resolve(checks[v].upper, alone))

(* validate_param_values: no locked parameter, and every variable listed   *)
(* under a written parameter keeps valid bounds.                           *)
BatchFits(updates) ==
  LET assigned == [p \in DOMAIN values |->
                     IF p \in DOMAIN updates THEN updates[p] ELSE values[p]]
      touched == UNION {dependents[p] : p \in DOMAIN updates}
  IN /\ DOMAIN updates \cap locked = {}
     /\ \A v \in touched :
          ValidBounds(Resolve(checks[v].lower, assigned),
                      Resolve(checks[v].upper, assigned))

(* set_param_id, set_param_ids, set_params: all updates or none; the       *)
(* revision advances when some value changes, and the cached class goes.   *)
SetParams(updates) ==
  /\ BatchFits(updates)
  /\ parameterRevision < MaxParameterRevision
  /\ values' = [p \in DOMAIN values |->
                  IF p \in DOMAIN updates THEN updates[p] ELSE values[p]]
  /\ parameterRevision' = IF values' = values THEN parameterRevision ELSE parameterRevision + 1
  /\ InvalidateKind
  /\ UNCHANGED <<vars, checks, dependents, locked, rows, objective>>

(* A row is switched, or the objective replaced.                           *)
SetRowActive(r, active) ==
  /\ rows' = [rows EXCEPT ![r].active = active]
  /\ InvalidateKind
  /\ UNCHANGED <<vars, arena, objective>>

SetObjective(degree) ==
  /\ objective' = degree
  /\ InvalidateKind
  /\ UNCHANGED <<vars, arena, rows>>

---------------------------------------------------------------------------
(* The arena's checks are the parameter bounds of the variables and its    *)
(* index lists exactly the variables each parameter bounds, so that a      *)
(* parameter write reaches every bound it moves (__set_bound_check).       *)
BoundIndexExact ==
  /\ DOMAIN checks = {v \in DOMAIN vars : ParametersOf({vars[v].lb, vars[v].ub}) # {}}
  /\ \A v \in DOMAIN checks :
       checks[v] = [lower |-> vars[v].lb, upper |-> vars[v].ub]
  /\ \A p \in DOMAIN values :
       dependents[p] = {v \in DOMAIN vars : p \in ParametersOf({vars[v].lb, vars[v].ub})}

(* No sequence of bound edits, fixings and parameter batches leaves a      *)
(* variable with crossed or empty bounds, or a binary outside {0, 1}       *)
(* (replace_bounds, fix_var, validate_param_values).                       *)
BoundsStayFeasible ==
  /\ BoundIndexExact
  /\ \A v \in DOMAIN vars :
       /\ ValidBounds(Lower(v), Upper(v))
       /\ vars[v].domain = "Binary" => {Lower(v), Upper(v)} \subseteq {0, 1}
===============================================================================
