------------------------ MODULE ResidentPreparation ------------------------
(***************************************************************************)
(* PersistentPreparation (crates/oximo-solver/src/resident.rs): what a     *)
(* persistent adapter keeps of a model between solves, and how it answers  *)
(* "what changed" without reading the model again.                         *)
(*                                                                         *)
(* prepare compares the model's update key and parameter values with the   *)
(* committed baseline.  A new key means Full; changed parameters select    *)
(* the targets that depend on them through an index built once per key.    *)
(* Variables, the model kind and the coefficients of admitted roots are    *)
(* carried over and only refreshed where a selected target says so.  The   *)
(* linear and quadratic caches are filled and invalidated together and are *)
(* one cache here.                                                         *)
(***************************************************************************)
EXTENDS PreparedModel

CONSTANT MaxRevision    \* bound on the edits that advance the update key

VARIABLES model,        \* the model, edited at will between the calls
          prep          \* the adapter's PersistentPreparation

\* ParameterTarget.
ObjectiveTarget == [target |-> "Objective"]
RowTarget(r) == [target |-> "Algebraic", row |-> r]
BoundTarget(v) == [target |-> "VariableBound", var |-> v]
Targets == {ObjectiveTarget} \cup {RowTarget(r) : r \in Rows} \cup {BoundTarget(v) : v \in Vars}

\* Model::parameter_dependencies: an inactive row is indexed by the function it keeps.
ParameterDependencies(m) ==
    [t \in Targets |->
       CASE t.target = "Objective" -> IF HasObjective(m) THEN Deps[m.objective] ELSE {}
         [] t.target = "Algebraic" -> Deps[m.lhs[t.row]]
         [] t.target = "VariableBound" -> {m.bound[t.var]} \cap Params]

\* PreparationChange.
Full == [change |-> "Full", targets |-> {}]
Unchanged == [change |-> "Unchanged", targets |-> {}]
Selected(targets) == [change |-> "Selected", targets |-> targets]

Contains(change, t) == change = Full \/ t \in change.targets

NoCache == [root \in {} |-> None]

\* Baseline: what was prepared from a model, pending until the solve commits it.
Baselines == [revision : Nat, params : Valuations, variables : [Vars -> Values],
              kind : {"LP", "QP", "QCP", "SOCP"}]

\* None stands for Option::None, which no Baseline is.
ASSUME NoneAssumption == None \notin Baselines

\* PersistentPreparation::default, also the effect of clear.
Cleared == [baseline |-> None, pending |-> None, dependencies |-> None,
            admitted |-> {}, cache |-> NoCache, change |-> None,
            kindRows |-> {}, coneStatus |-> None]

ChangedTargets(index, before, after) ==
    {t \in Targets : \E p \in index[t] : before[p] # after[p]}

\* The change since the baseline, and the index it was computed with.
Index(P, m) == IF P.dependencies = None THEN ParameterDependencies(m)
                                           ELSE P.dependencies
ChangeSince(P, m) ==
    IF P.baseline = None \/ P.baseline.revision # m.revision THEN Full
    ELSE LET selected == ChangedTargets(Index(P, m), P.baseline.params, m.params)
         IN IF selected = {} THEN Unchanged ELSE Selected(selected)

\* Fault: the objective is not invalidated.
RootsOfRows(m, targets) == {RowRoot(m, r) : r \in {s \in Rows : RowTarget(s) \in targets}}

\* roots(model, Some(targets)): what a selected change invalidates.
RootsOf(m, targets) ==
    {RowRoot(m, r) : r \in {s \in Rows : RowTarget(s) \in targets}}
    \cup (IF ObjectiveTarget \in targets /\ HasObjective(m) THEN {m.objective} ELSE {})

Without(cache, roots) == [root \in DOMAIN cache \ roots |-> cache[root]]

\* PreparedExpressions with a resident cache: a cached decomposition is returned
\* as it is, and only admitted roots are cached.
Read(P, m, root) == IF root \in DOMAIN P.cache THEN P.cache[root]
                                               ELSE Terms(root, m.params)
TermsRead(P, m) == [root \in Roots |-> Read(P, m, root)]

AfterReading(P, m, roots) ==
    [P EXCEPT !.cache = [root \in DOMAIN @ \cup (roots \cap P.admitted) |->
                            Read(P, m, root)]]

(***************************************************************************)
(* prepare, step by step.  Each operator takes the state the previous one  *)
(* left; m is the model, P the PersistentPreparation.                      *)
(***************************************************************************)
\* A missing commit means a previous operation did not complete.
Recover(P) == IF P.pending # None THEN Cleared ELSE P

\* Fault: the dependency index survives a structural change.
CompareKeepingIndex(P, m) ==
    LET change == ChangeSince(P, m) IN
    [P EXCEPT !.change = change,
              !.dependencies = IF change = Full \/ P.baseline.params = m.params THEN @
                               ELSE Index(P, m)]

Compare(P, m) ==
    LET change == ChangeSince(P, m) IN
    [P EXCEPT !.change = change,
              !.dependencies = IF change = Full THEN None
                               ELSE IF P.baseline.params = m.params THEN @
                               ELSE Index(P, m)]

RefreshExpressions(P, m) ==
    CASE P.change = Full -> [P EXCEPT !.admitted = {}, !.cache = NoCache,
                                      !.kindRows = {}, !.coneStatus = None]
      [] P.change = Unchanged -> P
      [] P.change \notin {Full, Unchanged} /\ P.admitted = {} ->
            [P EXCEPT !.admitted = ModelRoots(m), !.cache = NoCache]
      [] P.change \notin {Full, Unchanged} /\ P.admitted # {} ->
            [P EXCEPT !.cache = Without(@, RootsOf(m, P.change.targets))]

PreparedVariables(P, m) ==
    IF P.change = Full THEN ResolvedVariables(m)
    ELSE [v \in Vars |-> IF BoundTarget(v) \in P.change.targets
                         THEN Bound(m.bound[v], m.params)
                         ELSE P.baseline.variables[v]]

\* Fault: a bound that turns negative does not change the kind.
KindMayChangeByRows(P) == \E t \in P.change.targets :
                             t.target = "Algebraic" /\ t.row \in P.kindRows

\* Cone detection depends on coefficients and bounds; nothing else in the kind does.
KindMayChange(P) == \E t \in P.change.targets :
                       \/ t.target = "VariableBound" /\ P.kindRows # {}
                       \/ t.target = "Algebraic" /\ t.row \in P.kindRows

\* Rows classified again: all of them the first time, then the selected ones.
Reclassified(P) == IF P.coneStatus = None THEN P.kindRows
                   ELSE {r \in P.kindRows : RowTarget(r) \in P.change.targets}

ConeStatus(P, m) ==
    [r \in P.kindRows |-> IF r \in Reclassified(P)
                          THEN ConeCandidate(Read(P, m, RowRoot(m, r)))
                          ELSE P.coneStatus[r]]

\* prepare_kind: the kind, with the preparation it leaves behind.
PrepareKind(P, m) ==
    LET variables == PreparedVariables(P, m)
        fresh == InferKind(m, variables, TermsRead(P, m))
        status == ConeStatus(P, m)
        cones == \A r \in P.kindRows : status[r] # None /\ variables[status[r]] # Negative
    IN CASE P.change = Full ->
              [kind |-> fresh,
               prep |-> [P EXCEPT !.kindRows = IF fresh \in {"QCP", "SOCP"}
                                               THEN QuadraticRows(m) ELSE {}]]
         [] P.change # Full /\ KindMayChange(P) ->
              [kind |-> IF cones THEN "SOCP" ELSE "QCP",
               prep |-> [AfterReading(P, m, {RowRoot(m, r) : r \in Reclassified(P)})
                            EXCEPT !.coneStatus = status]]
         [] P.change # Full /\ ~ KindMayChange(P) ->
              [kind |-> P.baseline.kind, prep |-> P]

\* PersistentPreparation::prepare, for a model with a declared objective.
Prepare(before, m) ==
    LET P == RefreshExpressions(Compare(Recover(before), m), m)
        kinded == PrepareKind(P, m)
    IN [kinded.prep EXCEPT !.pending =
          [revision |-> m.revision, params |-> m.params,
           variables |-> PreparedVariables(P, m), kind |-> kinded.kind]]

Commit(P) == [P EXCEPT !.baseline = P.pending, !.pending = None]
=============================================================================
