--------------------------- MODULE ResidentProofs ---------------------------
(***************************************************************************)
(* The resident preparation and its two users, for any parameters,         *)
(* variables, rows and expressions: lemmas about the operators of          *)
(* ResidentPreparation (what prepare leaves behind when the preparation it *)
(* starts from is that of an earlier state of the model), then the         *)
(* invariants of its lifecycle and of the HiGHS handle, which both rest on *)
(* them.                                                                   *)
(***************************************************************************)
EXTENDS PreparationLifecycle, HighsPersistent, TLAPS

\* What an update key stands for: two states of one model with the same revision
\* differ only in the values of the parameters.
SameStructure(m, n) == /\ m.objective = n.objective /\ m.lhs = n.lhs
                       /\ m.active = n.active /\ m.bound = n.bound

\* A preparation has the fields of the struct.
Shaped(P) == P = [baseline |-> P.baseline, pending |-> P.pending,
                  dependencies |-> P.dependencies, admitted |-> P.admitted,
                  cache |-> P.cache, change |-> P.change,
                  kindRows |-> P.kindRows, coneStatus |-> P.coneStatus]

BaselineOf(m) == [revision |-> m.revision, params |-> m.params,
                  variables |-> ResolvedVariables(m), kind |-> ColdKind(m)]

ConesOf(m) == [r \in QuadraticRows(m) |-> ConeCandidate(Terms(m.lhs[r], m.params))]

\* Everything the preparation carries over is what it would derive from m now.
Cached(P, m) ==
    /\ DOMAIN P.cache \subseteq P.admitted
    /\ P.admitted \subseteq ModelRoots(m)
    /\ \A root \in DOMAIN P.cache : P.cache[root] = Terms(root, m.params)

Carries(P, m) ==
    /\ P.dependencies \in {None, ParameterDependencies(m)}
    /\ P.kindRows = QuadraticRows(m)
    /\ Cached(P, m)

\* The cones it found are those of m as well.
Describes(P, m) == Carries(P, m) /\ P.coneStatus \in {None, ConesOf(m)}

\* What change does not name is the same in n and in m.
Complete(change, n, m) ==
    change # Full =>
        /\ SameStructure(n, m)
        /\ \A v \in Vars : ~ Contains(change, BoundTarget(v)) =>
              ResolvedVariables(n)[v] = ResolvedVariables(m)[v]
        /\ \A r \in Rows : ~ Contains(change, RowTarget(r)) =>
              Terms(RowRoot(n, r), n.params) = Terms(RowRoot(m, r), m.params)
        /\ ~ Contains(change, ObjectiveTarget) /\ HasObjective(m) =>
              Terms(n.objective, n.params) = Terms(m.objective, m.params)

\* A settled preparation, one with nothing pending, describes the model n that it
\* last committed, an earlier state of m.
Settled(P, n, m) ==
    P.pending = None /\ P.baseline # None =>
        /\ n \in ModelType
        /\ P.baseline = BaselineOf(n)
        /\ Describes(P, n)
        /\ n.revision = m.revision => SameStructure(n, m)

-----------------------------------------------------------------------------
(* What a model shows *)

\* The terms of an expression depend on the parameters below it only.
LEMMA TermsDependOnDeps ==
    ASSUME NEW root, NEW before, NEW after,
           \A p \in Deps[root] : before[p] = after[p]
    PROVE  Terms(root, before) = Terms(root, after)
BY DEF Terms

\* Bounds resolve to values, and the kind is one of the four.
LEMMA BaselineOfType ==
    ASSUME NEW m \in ModelType
    PROVE  /\ ResolvedVariables(m) \in [Vars -> Values]
           /\ ColdKind(m) \in {"LP", "QP", "QCP", "SOCP"}
           /\ BaselineOf(m) \in Baselines
<1>1. ResolvedVariables(m) \in [Vars -> Values]
  BY DEF ResolvedVariables, Bound, ModelType, Valuations
<1>2. ColdKind(m) \in {"LP", "QP", "QCP", "SOCP"}
  BY DEF ColdKind, InferKind
<1>3. m.revision \in Nat /\ m.params \in Valuations
  BY DEF ModelType
<1> QED
  BY <1>1, <1>2, <1>3 DEF BaselineOf, Baselines

\* Rows read active functions or the constant zero.
LEMMA RowRoots ==
    ASSUME NEW m \in ModelType, NEW r \in Rows
    PROVE  /\ RowRoot(m, r) \in Roots
           /\ RowRoot(m, r) \in {m.lhs[r], ZeroRoot}
           /\ r \in QuadraticRows(m) => RowRoot(m, r) = m.lhs[r] /\ m.lhs[r] \in Roots
BY RootsAssumption DEF RowRoot, QuadraticRows, ModelType

\* The index names a bound, a row or the objective by the parameters it reads.
LEMMA IndexEntries ==
    ASSUME NEW m \in ModelType
    PROVE  /\ \A v \in Vars : /\ BoundTarget(v) \in Targets
                              /\ ParameterDependencies(m)[BoundTarget(v)]
                                   = {m.bound[v]} \cap Params
           /\ \A r \in Rows : /\ RowTarget(r) \in Targets
                              /\ ParameterDependencies(m)[RowTarget(r)] = Deps[m.lhs[r]]
           /\ ObjectiveTarget \in Targets
           /\ HasObjective(m) =>
                 ParameterDependencies(m)[ObjectiveTarget] = Deps[m.objective]
<1>1. \A v \in Vars : /\ BoundTarget(v) \in Targets
                      /\ BoundTarget(v).target = "VariableBound" /\ BoundTarget(v).var = v
  BY DEF BoundTarget, Targets
<1>2. \A r \in Rows : /\ RowTarget(r) \in Targets
                      /\ RowTarget(r).target = "Algebraic" /\ RowTarget(r).row = r
  BY DEF RowTarget, Targets
<1>3. ObjectiveTarget \in Targets /\ ObjectiveTarget.target = "Objective"
  BY DEF ObjectiveTarget, Targets
<1>4. \A v \in Vars : ParameterDependencies(m)[BoundTarget(v)] = {m.bound[v]} \cap Params
  BY <1>1 DEF ParameterDependencies
<1>5. \A r \in Rows : ParameterDependencies(m)[RowTarget(r)] = Deps[m.lhs[r]]
  BY <1>2 DEF ParameterDependencies
<1>6. HasObjective(m) => ParameterDependencies(m)[ObjectiveTarget] = Deps[m.objective]
  BY <1>3 DEF ParameterDependencies
<1> QED
  BY <1>1, <1>2, <1>3, <1>4, <1>5, <1>6

\* Whatever is not among the targets whose parameters changed is unchanged.
LEMMA UnselectedIsUnchanged ==
    ASSUME NEW n \in ModelType, NEW m \in ModelType, SameStructure(n, m),
           NEW targets,
           targets = ChangedTargets(ParameterDependencies(m), n.params, m.params)
    PROVE  /\ \A v \in Vars : BoundTarget(v) \notin targets =>
                 ResolvedVariables(n)[v] = ResolvedVariables(m)[v]
           /\ \A r \in Rows : RowTarget(r) \notin targets =>
                 /\ Terms(m.lhs[r], n.params) = Terms(m.lhs[r], m.params)
                 /\ Terms(RowRoot(n, r), n.params) = Terms(RowRoot(m, r), m.params)
           /\ ObjectiveTarget \notin targets /\ HasObjective(m) =>
                 Terms(n.objective, n.params) = Terms(m.objective, m.params)
<1>1. \A t \in Targets : t \notin targets =>
         \A p \in ParameterDependencies(m)[t] : n.params[p] = m.params[p]
  BY DEF ChangedTargets
<1>2. ASSUME NEW v \in Vars, BoundTarget(v) \notin targets
      PROVE  ResolvedVariables(n)[v] = ResolvedVariables(m)[v]
  <2>1. m.bound[v] \in Params => n.params[m.bound[v]] = m.params[m.bound[v]]
    BY <1>1, <1>2, IndexEntries
  <2> QED
    BY <2>1 DEF ResolvedVariables, Bound, SameStructure
<1>3. ASSUME NEW r \in Rows, RowTarget(r) \notin targets
      PROVE  /\ Terms(m.lhs[r], n.params) = Terms(m.lhs[r], m.params)
             /\ Terms(RowRoot(n, r), n.params) = Terms(RowRoot(m, r), m.params)
  <2>1. \A p \in Deps[m.lhs[r]] : n.params[p] = m.params[p]
    BY <1>1, <1>3, IndexEntries
  <2>2. Terms(m.lhs[r], n.params) = Terms(m.lhs[r], m.params)
    BY <2>1, TermsDependOnDeps
  <2>3. Terms(ZeroRoot, n.params) = Terms(ZeroRoot, m.params)
    BY TermsDependOnDeps, RootsAssumption
  <2>4. RowRoot(n, r) = RowRoot(m, r)
    BY DEF RowRoot, SameStructure
  <2> QED
    BY <2>2, <2>3, <2>4, RowRoots
<1>4. ASSUME ObjectiveTarget \notin targets, HasObjective(m)
      PROVE  Terms(n.objective, n.params) = Terms(m.objective, m.params)
  <2>1. \A p \in Deps[m.objective] : n.params[p] = m.params[p]
    BY <1>1, <1>4, IndexEntries
  <2> QED
    BY <2>1, TermsDependOnDeps DEF SameStructure
<1> QED
  BY <1>2, <1>3, <1>4
-----------------------------------------------------------------------------
(* Edits *)

\* n is an earlier state of m: with the same revision it has the same structure.
Earlier(n, m) == /\ n \in ModelType
                 /\ n.revision <= m.revision
                 /\ n.revision = m.revision => SameStructure(n, m)

\* The states in which an adapter may meet a model are models.
LEMMA InitialModelType ==
    ASSUME NEW m \in [objective : Roots \cup {Feasibility, Undeclared},
                      lhs : [Rows -> Roots], active : [Rows -> {TRUE}],
                      bound : [Vars -> Values \cup Params],
                      params : [Params -> {Zero}], revision : {0}]
    PROVE  m \in ModelType
<1>1. /\ \A active \in [Rows -> {TRUE}] : active \in [Rows -> BOOLEAN]
      /\ \A params \in [Params -> {Zero}] : params \in [Params -> Values]
  BY ValuesAssumption
<1>2. m = [objective |-> m.objective, lhs |-> m.lhs, active |-> m.active,
           bound |-> m.bound, params |-> m.params, revision |-> m.revision]
  OBVIOUS
<1>3. /\ m.objective \in Roots \cup {Feasibility, Undeclared} /\ m.lhs \in [Rows -> Roots]
      /\ m.bound \in [Vars -> Values \cup Params] /\ m.active \in [Rows -> {TRUE}]
      /\ m.params \in [Params -> {Zero}] /\ m.revision \in {0}
  OBVIOUS
<1>4. m.active \in [Rows -> BOOLEAN] /\ m.params \in [Params -> Values]
  BY <1>1, <1>3
<1>5. m.revision \in Nat
  BY <1>3
<1> QED
  BY <1>2, <1>3, <1>4, <1>5 DEF ModelType, Valuations

\* The five edits keep the type; all but a parameter's advance the revision.
LEMMA EditsAdvance ==
    ASSUME NEW m \in ModelType, NEW edited,
           \/ \E o \in Roots \cup {Feasibility} : edited = SetObjective(m, o)
           \/ \E r \in Rows, a \in BOOLEAN : edited = SetActive(m, r, a)
           \/ \E r \in Rows, root \in Roots : edited = SetFunction(m, r, root)
           \/ \E v \in Vars, b \in Values \cup Params : edited = SetBounds(m, v, b)
           \/ \E p \in Params, x \in Values : edited = SetParam(m, p, x)
    PROVE  /\ edited \in ModelType
           /\ \/ edited.revision = m.revision /\ SameStructure(m, edited)
              \/ edited.revision = m.revision + 1
<1>0. /\ m = [objective |-> m.objective, lhs |-> m.lhs, active |-> m.active,
              bound |-> m.bound, params |-> m.params, revision |-> m.revision]
      /\ m.objective \in Roots \cup {Feasibility, Undeclared}
      /\ m.lhs \in [Rows -> Roots] /\ m.active \in [Rows -> BOOLEAN]
      /\ m.bound \in [Vars -> Values \cup Params] /\ m.params \in [Params -> Values]
      /\ m.revision \in Nat /\ m.revision + 1 \in Nat
  BY DEF ModelType, Valuations
<1>1. ASSUME NEW o \in Roots \cup {Feasibility}, edited = SetObjective(m, o)
      PROVE  edited \in ModelType /\ edited.revision = m.revision + 1
  <2>1. edited = [objective |-> o, lhs |-> m.lhs, active |-> m.active, bound |-> m.bound,
                  params |-> m.params, revision |-> m.revision + 1]
    BY <1>0, <1>1 DEF SetObjective
  <2> QED
    BY <1>0, <2>1 DEF ModelType, Valuations
<1>2. ASSUME NEW r \in Rows, NEW a \in BOOLEAN, edited = SetActive(m, r, a)
      PROVE  edited \in ModelType /\ edited.revision = m.revision + 1
  <2>1. edited = [objective |-> m.objective, lhs |-> m.lhs,
                  active |-> [m.active EXCEPT ![r] = a], bound |-> m.bound,
                  params |-> m.params, revision |-> m.revision + 1]
    BY <1>0, <1>2 DEF SetActive
  <2>2. [m.active EXCEPT ![r] = a] \in [Rows -> BOOLEAN]
    BY <1>0
  <2> QED
    BY <1>0, <2>1, <2>2 DEF ModelType, Valuations
<1>3. ASSUME NEW r \in Rows, NEW root \in Roots, edited = SetFunction(m, r, root)
      PROVE  edited \in ModelType /\ edited.revision = m.revision + 1
  <2>1. edited = [objective |-> m.objective, lhs |-> [m.lhs EXCEPT ![r] = root],
                  active |-> m.active, bound |-> m.bound,
                  params |-> m.params, revision |-> m.revision + 1]
    BY <1>0, <1>3 DEF SetFunction
  <2>2. [m.lhs EXCEPT ![r] = root] \in [Rows -> Roots]
    BY <1>0
  <2> QED
    BY <1>0, <2>1, <2>2 DEF ModelType, Valuations
<1>4. ASSUME NEW v \in Vars, NEW b \in Values \cup Params, edited = SetBounds(m, v, b)
      PROVE  edited \in ModelType /\ edited.revision = m.revision + 1
  <2>1. edited = [objective |-> m.objective, lhs |-> m.lhs, active |-> m.active,
                  bound |-> [m.bound EXCEPT ![v] = b],
                  params |-> m.params, revision |-> m.revision + 1]
    BY <1>0, <1>4 DEF SetBounds
  <2>2. [m.bound EXCEPT ![v] = b] \in [Vars -> Values \cup Params]
    BY <1>0
  <2> QED
    BY <1>0, <2>1, <2>2 DEF ModelType, Valuations
<1>5. ASSUME NEW p \in Params, NEW x \in Values, edited = SetParam(m, p, x)
      PROVE  /\ edited \in ModelType
             /\ edited.revision = m.revision /\ SameStructure(m, edited)
  <2>1. edited = [objective |-> m.objective, lhs |-> m.lhs, active |-> m.active,
                  bound |-> m.bound, params |-> [m.params EXCEPT ![p] = x],
                  revision |-> m.revision]
    BY <1>0, <1>5 DEF SetParam
  <2>2. [m.params EXCEPT ![p] = x] \in [Params -> Values]
    BY <1>0
  <2> QED
    BY <1>0, <2>1, <2>2 DEF ModelType, Valuations, SameStructure
<1> QED
  BY <1>1, <1>2, <1>3, <1>4, <1>5

\* An earlier state of a model is one of the edited model too.
LEMMA EarlierIsStable ==
    ASSUME NEW m \in ModelType, NEW edited \in ModelType, NEW n, Earlier(n, m),
           \/ edited.revision = m.revision /\ SameStructure(m, edited)
           \/ edited.revision = m.revision + 1
    PROVE  Earlier(n, edited)
<1>1. m.revision \in Nat /\ n.revision \in Nat
  BY DEF Earlier, ModelType
<1> QED
  BY <1>1 DEF Earlier, SameStructure

-----------------------------------------------------------------------------
(* The kind of a model *)

\* The kind of a model with quadratic rows is decided by its cones.
LEMMA KindOfQuadraticRows ==
    ASSUME NEW m, NEW variables, NEW terms, QuadraticRows(m) # {}
    PROVE  InferKind(m, variables, terms) =
             IF \A r \in QuadraticRows(m) : IsDetectedCone(terms[m.lhs[r]], variables)
             THEN "SOCP" ELSE "QCP"
BY DEF InferKind

\* Without quadratic rows the kind depends on the objective alone.
LEMMA KindWithoutQuadraticRows ==
    ASSUME NEW m, NEW variables, NEW terms, QuadraticRows(m) = {}
    PROVE  InferKind(m, variables, terms) =
             IF m.objective \in Quadratics THEN "QP" ELSE "LP"
BY DEF InferKind

\* The kind tells whether there are quadratic rows.
LEMMA KindShowsQuadraticRows ==
    ASSUME NEW m, NEW variables, NEW terms
    PROVE  InferKind(m, variables, terms) \in {"QCP", "SOCP"} <=> QuadraticRows(m) # {}
BY KindOfQuadraticRows, KindWithoutQuadraticRows

\* The kind of m from what the cones of its quadratic rows show.
LEMMA ColdKindFromCones ==
    ASSUME NEW m \in ModelType, QuadraticRows(m) # {}
    PROVE  ColdKind(m) =
             IF \A r \in QuadraticRows(m) : /\ ConesOf(m)[r] # None
                                            /\ ResolvedVariables(m)[ConesOf(m)[r]] # Negative
             THEN "SOCP" ELSE "QCP"
<1>1. \A r \in QuadraticRows(m) :
         /\ ColdTerms(m)[m.lhs[r]] = Terms(m.lhs[r], m.params)
         /\ ConesOf(m)[r] = ConeCandidate(Terms(m.lhs[r], m.params))
  BY RowRoots DEF ColdTerms, QuadraticRows, ConesOf
<1>2. \A r \in QuadraticRows(m) :
         IsDetectedCone(ColdTerms(m)[m.lhs[r]], ResolvedVariables(m))
           <=> /\ ConesOf(m)[r] # None
               /\ ResolvedVariables(m)[ConesOf(m)[r]] # Negative
  BY <1>1 DEF IsDetectedCone
<1> QED
  BY <1>2, KindOfQuadraticRows DEF ColdKind

\* Two states of a model have the same kind when their quadratic rows have the same
\* terms and the bounds are the same, or when there are no quadratic rows.
LEMMA SameKind ==
    ASSUME NEW n \in ModelType, NEW m \in ModelType, SameStructure(n, m),
           \/ QuadraticRows(m) = {}
           \/ /\ \A r \in QuadraticRows(m) :
                    Terms(m.lhs[r], n.params) = Terms(m.lhs[r], m.params)
              /\ ResolvedVariables(n) = ResolvedVariables(m)
    PROVE  ColdKind(n) = ColdKind(m)
<1>1. QuadraticRows(n) = QuadraticRows(m)
  BY DEF QuadraticRows, SameStructure
<1>2. CASE QuadraticRows(m) = {}
  BY <1>1, <1>2, KindWithoutQuadraticRows DEF ColdKind, SameStructure
<1>3. CASE QuadraticRows(m) # {}
  <2>1. ConesOf(n) = ConesOf(m)
    BY <1>1, <1>3 DEF ConesOf, SameStructure
  <2>2. ResolvedVariables(n) = ResolvedVariables(m)
    BY <1>3
  <2> QED
    BY <1>1, <1>3, <2>1, <2>2, ColdKindFromCones
<1> QED
  BY <1>2, <1>3

-----------------------------------------------------------------------------
(* Reading through a preparation *)

\* A root read through a preparation that carries what m shows has the terms of m.
LEMMA ReadIsFresh ==
    ASSUME NEW P, NEW m, Carries(P, m), NEW root
    PROVE  Read(P, m, root) = Terms(root, m.params)
BY DEF Read, Carries, Cached

LEMMA TermsReadAreCold ==
    ASSUME NEW P, NEW m, Carries(P, m)
    PROVE  TermsRead(P, m) = ColdTerms(m)
BY ReadIsFresh DEF TermsRead, ColdTerms

\* Reading fills the cache and changes nothing else.
LEMMA ReadingFillsCache ==
    ASSUME NEW P, NEW m, NEW roots, Shaped(P), Carries(P, m)
    PROVE  /\ Shaped(AfterReading(P, m, roots))
           /\ Carries(AfterReading(P, m, roots), m)
           /\ AfterReading(P, m, roots).baseline = P.baseline
           /\ AfterReading(P, m, roots).pending = P.pending
           /\ AfterReading(P, m, roots).change = P.change
           /\ AfterReading(P, m, roots).coneStatus = P.coneStatus
<1> DEFINE Q == AfterReading(P, m, roots)
           entries == [root \in DOMAIN P.cache \cup (roots \cap P.admitted) |->
                          Read(P, m, root)]
<1>1. Q = [P EXCEPT !.cache = entries]
  BY DEF AfterReading
<1>2. Q = [baseline |-> P.baseline, pending |-> P.pending,
           dependencies |-> P.dependencies, admitted |-> P.admitted,
           cache |-> entries, change |-> P.change,
           kindRows |-> P.kindRows, coneStatus |-> P.coneStatus]
  <2> HIDE DEF entries, Q
  <2> QED
    BY <1>1 DEF Shaped
<1>3. /\ DOMAIN entries \subseteq P.admitted
      /\ \A root \in DOMAIN entries : entries[root] = Terms(root, m.params)
  BY ReadIsFresh DEF Carries, Cached
<1> HIDE DEF entries, Q
<1>4. /\ Shaped(Q) /\ Q.baseline = P.baseline /\ Q.pending = P.pending
      /\ Q.change = P.change /\ Q.coneStatus = P.coneStatus
  BY <1>2 DEF Shaped
<1>5. Carries(Q, m)
  BY <1>2, <1>3 DEF Carries, Cached
<1> QED
  BY <1>4, <1>5 DEF Q

\* Committing makes what is pending the baseline.
LEMMA CommitShape ==
    ASSUME NEW P, NEW m, Shaped(P), Describes(P, m)
    PROVE  /\ Shaped(Commit(P)) /\ Describes(Commit(P), m)
           /\ Commit(P).baseline = P.pending /\ Commit(P).pending = None
<1> DEFINE taken == [P EXCEPT !.baseline = P.pending]
<1>0. taken = [baseline |-> P.pending, pending |-> P.pending,
               dependencies |-> P.dependencies, admitted |-> P.admitted,
               cache |-> P.cache, change |-> P.change,
               kindRows |-> P.kindRows, coneStatus |-> P.coneStatus]
  BY DEF Shaped
<1>1. Commit(P) = [baseline |-> P.pending, pending |-> None,
                   dependencies |-> P.dependencies, admitted |-> P.admitted,
                   cache |-> P.cache, change |-> P.change,
                   kindRows |-> P.kindRows, coneStatus |-> P.coneStatus]
  <2>1. Commit(P) = [taken EXCEPT !.pending = None]
    BY DEF Commit
  <2> QED
    BY <1>0, <2>1
<1> QED
  BY <1>1 DEF Shaped, Describes, Carries, Cached

-----------------------------------------------------------------------------
(* The steps of prepare *)

\* A preparation that was left pending is forgotten; otherwise it is as committed.
LEMMA RecoverIsSettled ==
    ASSUME NEW P, NEW n, NEW m, Shaped(P), Settled(P, n, m)
    PROVE  /\ Shaped(Recover(P)) /\ Recover(P).pending = None
           /\ Recover(P).baseline # None =>
                 /\ n \in ModelType
                 /\ Recover(P).baseline = BaselineOf(n)
                 /\ Describes(Recover(P), n)
                 /\ n.revision = m.revision => SameStructure(n, m)
<1>1. Shaped(Cleared) /\ Cleared.pending = None /\ Cleared.baseline = None
  BY DEF Cleared, Shaped
<1>2. CASE P.pending # None
  BY <1>1, <1>2 DEF Recover
<1>3. CASE P.pending = None
  BY <1>3 DEF Recover, Settled
<1> QED
  BY <1>2, <1>3

\* The index is the one of m as long as the update key has not moved.
LEMMA CompareFindsChange ==
    ASSUME NEW R, NEW n, NEW m, m \in ModelType, Shaped(R), R.pending = None,
           R.baseline # None =>
              /\ n \in ModelType
              /\ R.baseline = BaselineOf(n)
              /\ Describes(R, n)
              /\ n.revision = m.revision => SameStructure(n, m)
    PROVE  LET Q == Compare(R, m) IN
           /\ Shaped(Q) /\ Q.pending = None /\ Q.baseline = R.baseline
           /\ Q.admitted = R.admitted /\ Q.cache = R.cache
           /\ Q.kindRows = R.kindRows /\ Q.coneStatus = R.coneStatus
           /\ \/ Q.change = Full /\ Q.dependencies = None
              \/ /\ Q.change # Full
                 /\ n \in ModelType /\ R.baseline = BaselineOf(n)
                 /\ Describes(R, n) /\ SameStructure(n, m)
                 /\ Q.change.targets =
                       ChangedTargets(ParameterDependencies(m), n.params, m.params)
                 /\ Q.change = Unchanged => Q.change.targets = {}
                 /\ Q.dependencies \in {None, ParameterDependencies(m)}
<1> DEFINE Q == Compare(R, m)
           change == ChangeSince(R, m)
           dependencies == IF change = Full THEN None
                           ELSE IF R.baseline.params = m.params THEN R.dependencies
                           ELSE Index(R, m)
           selected == ChangedTargets(Index(R, m), R.baseline.params, m.params)
<1>1. Q = [[R EXCEPT !.change = change] EXCEPT !.dependencies = dependencies]
  BY DEF Compare
<1>2. Q = [baseline |-> R.baseline, pending |-> R.pending,
           dependencies |-> dependencies, admitted |-> R.admitted,
           cache |-> R.cache, change |-> change,
           kindRows |-> R.kindRows, coneStatus |-> R.coneStatus]
  <2> HIDE DEF change, dependencies, Q
  <2>1. [R EXCEPT !.change = change] =
          [baseline |-> R.baseline, pending |-> R.pending,
           dependencies |-> R.dependencies, admitted |-> R.admitted,
           cache |-> R.cache, change |-> change,
           kindRows |-> R.kindRows, coneStatus |-> R.coneStatus]
    BY DEF Shaped
  <2> QED
    BY <1>1, <2>1
<1>3. /\ Shaped(Q) /\ Q.pending = None /\ Q.baseline = R.baseline
      /\ Q.admitted = R.admitted /\ Q.cache = R.cache
      /\ Q.kindRows = R.kindRows /\ Q.coneStatus = R.coneStatus
      /\ Q.change = change /\ Q.dependencies = dependencies
  <2> HIDE DEF change, dependencies, Q
  <2> QED
    BY <1>2 DEF Shaped
<1>4. CASE change = Full
  BY <1>3, <1>4
<1>5. CASE change # Full
  <2>1. R.baseline # None /\ R.baseline.revision = m.revision
    BY <1>5 DEF ChangeSince
  <2>2. /\ n \in ModelType /\ R.baseline = BaselineOf(n) /\ Describes(R, n)
        /\ SameStructure(n, m) /\ R.baseline.params = n.params
    BY <2>1 DEF BaselineOf
  <2>3. Index(R, m) = ParameterDependencies(m)
    <3>1. ParameterDependencies(n) = ParameterDependencies(m)
      BY <2>2 DEF ParameterDependencies, SameStructure, HasObjective
    <3> QED
      BY <2>2, <3>1 DEF Index, Describes, Carries
  <2>4. selected = ChangedTargets(ParameterDependencies(m), n.params, m.params)
    BY <2>2, <2>3
  <2>5. change = IF selected = {} THEN Unchanged ELSE Selected(selected)
    BY <2>1 DEF ChangeSince
  <2>6. change.targets = selected /\ (change = Unchanged => selected = {})
    BY <2>5 DEF Unchanged, Selected
  <2>7. dependencies \in {None, ParameterDependencies(m)}
    <3>1. ParameterDependencies(n) = ParameterDependencies(m)
      BY <2>2 DEF ParameterDependencies, SameStructure, HasObjective
    <3> QED
      BY <2>2, <2>3, <3>1 DEF Describes, Carries
  <2> HIDE DEF change, dependencies, selected, Q
  <2> QED
    BY <1>3, <1>5, <2>2, <2>4, <2>6, <2>7 DEF Q
<1> QED
  BY <1>4, <1>5

\* A root outside those a selected change invalidates has the terms it had.
LEMMA RootsOutsideKeepTerms ==
    ASSUME NEW n \in ModelType, NEW m \in ModelType, SameStructure(n, m),
           NEW targets,
           targets = ChangedTargets(ParameterDependencies(m), n.params, m.params),
           NEW root \in ModelRoots(m), root \notin RootsOf(m, targets)
    PROVE  Terms(root, n.params) = Terms(root, m.params)
<1>1. CASE \E r \in Rows : root = RowRoot(m, r)
  <2>1. PICK r \in Rows : root = RowRoot(m, r)
    BY <1>1
  <2>2. RowTarget(r) \notin targets
    BY <2>1 DEF RootsOf
  <2>3. RowRoot(n, r) = RowRoot(m, r)
    BY DEF RowRoot, SameStructure
  <2> QED
    BY <2>1, <2>2, <2>3, UnselectedIsUnchanged
<1>2. CASE HasObjective(m) /\ root = m.objective
  <2>1. ObjectiveTarget \notin targets
    BY <1>2 DEF RootsOf
  <2> QED
    BY <1>2, <2>1, UnselectedIsUnchanged DEF SameStructure
<1> QED
  BY <1>1, <1>2 DEF ModelRoots

\* Refreshing the expressions leaves a cache of the terms of m, or none at all.
LEMMA RefreshCarries ==
    ASSUME NEW Q, NEW n, NEW m, m \in ModelType, Shaped(Q),
           Q.change # Full =>
              /\ n \in ModelType /\ Cached(Q, n) /\ SameStructure(n, m)
              /\ Q.change.targets =
                    ChangedTargets(ParameterDependencies(m), n.params, m.params)
              /\ Q.change = Unchanged => Q.change.targets = {}
    PROVE  LET S == RefreshExpressions(Q, m) IN
           /\ Shaped(S) /\ S.pending = Q.pending /\ S.baseline = Q.baseline
           /\ S.change = Q.change /\ S.dependencies = Q.dependencies
           /\ Cached(S, m)
           /\ Q.change = Full => S.kindRows = {} /\ S.coneStatus = None
           /\ Q.change # Full => S.kindRows = Q.kindRows /\ S.coneStatus = Q.coneStatus
<1> DEFINE S == RefreshExpressions(Q, m)
<1>0. DOMAIN NoCache = {}
  BY DEF NoCache
<1>1. CASE Q.change = Full
  <2>0. Q.change # Unchanged
    BY <1>1 DEF Full, Unchanged
  <2>1. S = [Q EXCEPT !.admitted = {}, !.cache = NoCache,
                      !.kindRows = {}, !.coneStatus = None]
    BY <1>1, <2>0 DEF RefreshExpressions
  <2>3. S = [baseline |-> Q.baseline, pending |-> Q.pending,
             dependencies |-> Q.dependencies, admitted |-> {},
             cache |-> NoCache, change |-> Q.change, kindRows |-> {}, coneStatus |-> None]
    <3> HIDE DEF S
    <3> QED
      BY <2>1 DEF Shaped
  <2> HIDE DEF S
  <2> QED
    BY <1>0, <1>1, <2>3 DEF Shaped, Cached, S
<1>2. CASE Q.change = Unchanged
  <2>1. Q.change # Full
    BY <1>2 DEF Unchanged, Full
  <2>2. S = Q
    BY <1>2, <2>1 DEF RefreshExpressions
  <2>3. Q.change.targets = {} /\ RootsOf(m, {}) = {}
    BY <1>2, <2>1 DEF RootsOf
  <2>4. /\ DOMAIN Q.cache \subseteq Q.admitted /\ Q.admitted \subseteq ModelRoots(n)
        /\ \A root \in DOMAIN Q.cache : Q.cache[root] = Terms(root, n.params)
    BY <2>1 DEF Cached
  <2>5. ModelRoots(n) = ModelRoots(m)
    BY <2>1 DEF ModelRoots, RowRoot, HasObjective, SameStructure
  <2>6. \A root \in DOMAIN Q.cache : Terms(root, n.params) = Terms(root, m.params)
    BY <2>1, <2>3, <2>4, <2>5, RootsOutsideKeepTerms
  <2> QED
    BY <2>1, <2>2, <2>4, <2>5, <2>6 DEF Cached
<1>3. CASE Q.change \notin {Full, Unchanged} /\ Q.admitted = {}
  <2>1. S = [[Q EXCEPT !.admitted = ModelRoots(m)] EXCEPT !.cache = NoCache]
    BY <1>3 DEF RefreshExpressions
  <2>2. S = [baseline |-> Q.baseline, pending |-> Q.pending,
             dependencies |-> Q.dependencies, admitted |-> ModelRoots(m),
             cache |-> NoCache, change |-> Q.change,
             kindRows |-> Q.kindRows, coneStatus |-> Q.coneStatus]
    <3>1. [Q EXCEPT !.admitted = ModelRoots(m)] =
            [baseline |-> Q.baseline, pending |-> Q.pending,
             dependencies |-> Q.dependencies, admitted |-> ModelRoots(m),
             cache |-> Q.cache, change |-> Q.change,
             kindRows |-> Q.kindRows, coneStatus |-> Q.coneStatus]
      BY DEF Shaped
    <3> HIDE DEF S
    <3> QED
      BY <2>1, <3>1
  <2> HIDE DEF S
  <2> QED
    BY <1>0, <1>3, <2>2 DEF Shaped, Cached, S
<1>4. CASE Q.change \notin {Full, Unchanged} /\ Q.admitted # {}
  <2> DEFINE kept == Without(Q.cache, RootsOf(m, Q.change.targets))
  <2>1. S = [Q EXCEPT !.cache = kept]
    BY <1>4 DEF RefreshExpressions
  <2>2. S = [baseline |-> Q.baseline, pending |-> Q.pending,
             dependencies |-> Q.dependencies, admitted |-> Q.admitted,
             cache |-> kept, change |-> Q.change,
             kindRows |-> Q.kindRows, coneStatus |-> Q.coneStatus]
    <3> HIDE DEF S, kept
    <3> QED
      BY <2>1 DEF Shaped
  <2>3. /\ DOMAIN Q.cache \subseteq Q.admitted /\ Q.admitted \subseteq ModelRoots(n)
        /\ \A root \in DOMAIN Q.cache : Q.cache[root] = Terms(root, n.params)
    BY <1>4 DEF Cached
  <2>4. ModelRoots(n) = ModelRoots(m)
    BY <1>4 DEF ModelRoots, RowRoot, HasObjective, SameStructure
  <2>5. /\ DOMAIN kept = DOMAIN Q.cache \ RootsOf(m, Q.change.targets)
        /\ \A root \in DOMAIN kept : kept[root] = Q.cache[root]
    BY DEF Without
  <2> HIDE DEF kept
  <2>6. \A root \in DOMAIN kept : kept[root] = Terms(root, m.params)
    BY <1>4, <2>3, <2>4, <2>5, RootsOutsideKeepTerms
  <2>7. /\ Shaped(S) /\ S.pending = Q.pending /\ S.baseline = Q.baseline
        /\ S.change = Q.change /\ S.dependencies = Q.dependencies
        /\ S.cache = kept /\ S.admitted = Q.admitted
        /\ S.kindRows = Q.kindRows /\ S.coneStatus = Q.coneStatus
    <3> HIDE DEF S
    <3> QED
      BY <2>2 DEF Shaped
  <2> HIDE DEF S
  <2> QED
    BY <1>4, <2>3, <2>4, <2>5, <2>6, <2>7 DEF Cached, S
<1> QED
  BY <1>1, <1>2, <1>3, <1>4

\* The variables that are carried over are those whose bounds did not move.
LEMMA PreparedVariablesAreFresh ==
    ASSUME NEW S, NEW n, NEW m, m \in ModelType,
           S.change # Full =>
              /\ n \in ModelType /\ S.baseline = BaselineOf(n) /\ SameStructure(n, m)
              /\ S.change.targets =
                    ChangedTargets(ParameterDependencies(m), n.params, m.params)
    PROVE  PreparedVariables(S, m) = ResolvedVariables(m)
<1>1. CASE S.change = Full
  BY <1>1 DEF PreparedVariables
<1>2. CASE S.change # Full
  <2>1. \A v \in Vars : BoundTarget(v) \notin S.change.targets =>
           S.baseline.variables[v] = ResolvedVariables(m)[v]
    BY <1>2, UnselectedIsUnchanged DEF BaselineOf
  <2>2. \A v \in Vars : ResolvedVariables(m)[v] = Bound(m.bound[v], m.params)
    BY DEF ResolvedVariables
  <2>3. PreparedVariables(S, m) =
          [v \in Vars |-> IF BoundTarget(v) \in S.change.targets
                          THEN Bound(m.bound[v], m.params)
                          ELSE S.baseline.variables[v]]
    BY <1>2 DEF PreparedVariables
  <2>4. \A v \in Vars : PreparedVariables(S, m)[v] = ResolvedVariables(m)[v]
    BY <2>1, <2>2, <2>3
  <2> QED
    BY <2>3, <2>4 DEF ResolvedVariables
<1> QED
  BY <1>1, <1>2

\* The kind and the cones that prepare_kind leaves are those of m.
LEMMA PrepareKindIsFresh ==
    ASSUME NEW S, NEW n, NEW m, m \in ModelType, Shaped(S), Cached(S, m),
           S.dependencies \in {None, ParameterDependencies(m)},
           S.change = Full => S.kindRows = {} /\ S.coneStatus = None,
           S.change # Full =>
              /\ n \in ModelType /\ S.baseline = BaselineOf(n) /\ SameStructure(n, m)
              /\ S.change.targets =
                    ChangedTargets(ParameterDependencies(m), n.params, m.params)
              /\ S.kindRows = QuadraticRows(n)
              /\ S.coneStatus \in {None, ConesOf(n)}
    PROVE  /\ PrepareKind(S, m).kind = ColdKind(m)
           /\ Shaped(PrepareKind(S, m).prep) /\ Describes(PrepareKind(S, m).prep, m)
           /\ PrepareKind(S, m).prep.change = S.change
           /\ PrepareKind(S, m).prep.baseline = S.baseline
<1>0. PreparedVariables(S, m) = ResolvedVariables(m)
  BY PreparedVariablesAreFresh
<1>1. CASE S.change = Full
  <2>1. TermsRead(S, m) = ColdTerms(m)
    BY DEF TermsRead, Read, ColdTerms, Cached
  <2> DEFINE rows == IF ColdKind(m) \in {"QCP", "SOCP"} THEN QuadraticRows(m) ELSE {}
  <2>2. PrepareKind(S, m) = [kind |-> ColdKind(m), prep |-> [S EXCEPT !.kindRows = rows]]
    BY <1>0, <1>1, <2>1 DEF PrepareKind, ColdKind
  <2>3. rows = QuadraticRows(m)
    BY KindShowsQuadraticRows DEF ColdKind
  <2>4. [S EXCEPT !.kindRows = rows] =
          [baseline |-> S.baseline, pending |-> S.pending,
           dependencies |-> S.dependencies, admitted |-> S.admitted,
           cache |-> S.cache, change |-> S.change,
           kindRows |-> rows, coneStatus |-> S.coneStatus]
    <3> HIDE DEF rows
    <3> QED
      BY DEF Shaped
  <2> HIDE DEF rows
  <2> QED
    BY <1>1, <2>2, <2>3, <2>4 DEF Shaped, Describes, Carries, Cached
<1>2. CASE S.change # Full
  <2>1. QuadraticRows(n) = QuadraticRows(m)
    BY <1>2 DEF QuadraticRows, SameStructure
  <2>2. Carries(S, m)
    BY <1>2, <2>1 DEF Carries
  <2>3. \A r \in QuadraticRows(m) : RowTarget(r) \notin S.change.targets =>
           /\ Terms(m.lhs[r], n.params) = Terms(m.lhs[r], m.params)
           /\ ConesOf(n)[r] = ConesOf(m)[r]
    <3>1. \A r \in QuadraticRows(m) : RowTarget(r) \notin S.change.targets =>
             Terms(m.lhs[r], n.params) = Terms(m.lhs[r], m.params)
      BY <1>2, UnselectedIsUnchanged DEF QuadraticRows
    <3> QED
      BY <1>2, <2>1, <3>1 DEF ConesOf, SameStructure
  <2>4. CASE KindMayChange(S)
    <3> DEFINE status == ConeStatus(S, m)
               cones == \A r \in S.kindRows : /\ status[r] # None
                                              /\ ResolvedVariables(m)[status[r]] # Negative
               read == {RowRoot(m, r) : r \in Reclassified(S)}
    <3>1. QuadraticRows(m) # {}
      BY <1>2, <2>1, <2>4 DEF KindMayChange
    <3>2. status = ConesOf(m)
      <4>1. \A r \in QuadraticRows(m) :
               ConeCandidate(Read(S, m, RowRoot(m, r))) = ConesOf(m)[r]
        BY <2>2, ReadIsFresh, RowRoots DEF ConesOf, QuadraticRows
      <4>2. \A r \in QuadraticRows(m) : r \notin Reclassified(S) =>
               S.coneStatus[r] = ConesOf(m)[r]
        BY <1>2, <2>1, <2>3 DEF Reclassified
      <4>3. \A r \in QuadraticRows(m) : status[r] = ConesOf(m)[r]
        BY <1>2, <2>1, <4>1, <4>2 DEF ConeStatus
      <4>4. /\ status = [r \in QuadraticRows(m) |-> status[r]]
            /\ ConesOf(m) = [r \in QuadraticRows(m) |-> ConesOf(m)[r]]
        BY <1>2, <2>1 DEF ConeStatus, ConesOf
      <4> HIDE DEF status
      <4> QED
        BY <4>3, <4>4
    <3>3. PrepareKind(S, m) =
            [kind |-> IF cones THEN "SOCP" ELSE "QCP",
             prep |-> [AfterReading(S, m, read) EXCEPT !.coneStatus = status]]
      BY <1>0, <1>2, <2>4 DEF PrepareKind
    <3>4. (IF cones THEN "SOCP" ELSE "QCP") = ColdKind(m)
      BY <1>2, <2>1, <3>1, <3>2, ColdKindFromCones
    <3> HIDE DEF status, cones, read
    <3> DEFINE A == AfterReading(S, m, read)
               T == [A EXCEPT !.coneStatus = status]
    <3>5. /\ Shaped(A) /\ Carries(A, m)
          /\ A.baseline = S.baseline /\ A.change = S.change
      BY <2>2, ReadingFillsCache
    <3> HIDE DEF A
    <3>6. T = [baseline |-> A.baseline, pending |-> A.pending,
               dependencies |-> A.dependencies, admitted |-> A.admitted,
               cache |-> A.cache, change |-> A.change,
               kindRows |-> A.kindRows, coneStatus |-> status]
      BY <3>5 DEF Shaped
    <3> HIDE DEF T
    <3>7. Shaped(T) /\ Describes(T, m) /\ T.baseline = S.baseline /\ T.change = S.change
      BY <3>2, <3>5, <3>6 DEF Shaped, Describes, Carries, Cached
    <3>8. PrepareKind(S, m) = [kind |-> ColdKind(m), prep |-> T]
      BY <3>3, <3>4 DEF T, A
    <3> QED
      BY <3>7, <3>8
  <2>5. CASE ~ KindMayChange(S)
    <3>1. PrepareKind(S, m) = [kind |-> S.baseline.kind, prep |-> S]
      BY <1>2, <2>5 DEF PrepareKind
    <3>2. QuadraticRows(m) # {} =>
             /\ \A v \in Vars : BoundTarget(v) \notin S.change.targets
             /\ \A r \in QuadraticRows(m) : RowTarget(r) \notin S.change.targets
      <4>1. /\ \A v \in Vars : BoundTarget(v).target = "VariableBound"
            /\ \A r \in Rows : RowTarget(r).target = "Algebraic" /\ RowTarget(r).row = r
        BY DEF BoundTarget, RowTarget
      <4> QED
        BY <1>2, <2>1, <2>5, <4>1 DEF KindMayChange, QuadraticRows
    <3>3. QuadraticRows(m) # {} => ResolvedVariables(n) = ResolvedVariables(m)
      <4>1. QuadraticRows(m) # {} =>
               \A v \in Vars : ResolvedVariables(n)[v] = ResolvedVariables(m)[v]
        BY <1>2, <3>2, UnselectedIsUnchanged
      <4> QED
        BY <4>1 DEF ResolvedVariables
    <3>4. ColdKind(n) = ColdKind(m)
      BY <1>2, <2>3, <3>2, <3>3, SameKind
    <3>5. ConesOf(n) = ConesOf(m)
      <4>1. \A r \in QuadraticRows(m) : ConesOf(n)[r] = ConesOf(m)[r]
        BY <2>3, <3>2
      <4>2. /\ ConesOf(n) = [r \in QuadraticRows(m) |-> ConesOf(n)[r]]
            /\ ConesOf(m) = [r \in QuadraticRows(m) |-> ConesOf(m)[r]]
        BY <2>1 DEF ConesOf
      <4> QED
        BY <4>1, <4>2
    <3> QED
      BY <1>2, <2>2, <3>1, <3>4, <3>5 DEF Describes, BaselineOf
  <2> QED
    BY <2>4, <2>5
<1> QED
  BY <1>1, <1>2

-----------------------------------------------------------------------------
(* prepare *)

\* After prepare everything the preparation holds describes the model it was called
\* with, and what the change leaves out is as the baseline's model had it, whatever
\* happened to the model and the preparation before.
LEMMA PrepareDescribes ==
    ASSUME NEW P, NEW n, NEW m \in ModelType, Shaped(P), Settled(P, n, m)
    PROVE  /\ Shaped(Prepare(P, m)) /\ Describes(Prepare(P, m), m)
           /\ Prepare(P, m).pending = BaselineOf(m)
           /\ Complete(Prepare(P, m).change, n, m)
           /\ Prepare(P, m).change # Full =>
                 n \in ModelType /\ P.pending = None /\ P.baseline = BaselineOf(n)
<1> DEFINE R == Recover(P)
           Q == Compare(R, m)
           S == RefreshExpressions(Q, m)
           K == PrepareKind(S, m)
<1>1. /\ Shaped(R) /\ R.pending = None
      /\ R.baseline # None =>
            /\ n \in ModelType /\ R.baseline = BaselineOf(n) /\ Describes(R, n)
            /\ n.revision = m.revision => SameStructure(n, m)
  BY RecoverIsSettled
<1> HIDE DEF R
<1>2. /\ Shaped(Q) /\ Q.pending = None /\ Q.baseline = R.baseline
      /\ Q.admitted = R.admitted /\ Q.cache = R.cache
      /\ Q.kindRows = R.kindRows /\ Q.coneStatus = R.coneStatus
      /\ \/ Q.change = Full /\ Q.dependencies = None
         \/ /\ Q.change # Full
            /\ n \in ModelType /\ R.baseline = BaselineOf(n)
            /\ Describes(R, n) /\ SameStructure(n, m)
            /\ Q.change.targets =
                  ChangedTargets(ParameterDependencies(m), n.params, m.params)
            /\ Q.change = Unchanged => Q.change.targets = {}
            /\ Q.dependencies \in {None, ParameterDependencies(m)}
  BY <1>1, CompareFindsChange
<1> HIDE DEF Q
<1>3. Q.change # Full => Cached(Q, n)
  BY <1>2 DEF Describes, Carries, Cached
<1>4. /\ Shaped(S) /\ S.pending = Q.pending /\ S.baseline = Q.baseline
      /\ S.change = Q.change /\ S.dependencies = Q.dependencies
      /\ Cached(S, m)
      /\ Q.change = Full => S.kindRows = {} /\ S.coneStatus = None
      /\ Q.change # Full => S.kindRows = Q.kindRows /\ S.coneStatus = Q.coneStatus
  BY <1>2, <1>3, RefreshCarries
<1> HIDE DEF S
<1>5. /\ S.dependencies \in {None, ParameterDependencies(m)}
      /\ S.change # Full =>
            /\ n \in ModelType /\ S.baseline = BaselineOf(n) /\ SameStructure(n, m)
            /\ S.change.targets =
                  ChangedTargets(ParameterDependencies(m), n.params, m.params)
            /\ S.kindRows = QuadraticRows(n)
            /\ S.coneStatus \in {None, ConesOf(n)}
  BY <1>2, <1>4 DEF Describes, Carries
<1>6. PreparedVariables(S, m) = ResolvedVariables(m)
  BY <1>5, PreparedVariablesAreFresh
<1>7. /\ K.kind = ColdKind(m) /\ Shaped(K.prep) /\ Describes(K.prep, m)
      /\ K.prep.change = S.change /\ K.prep.baseline = S.baseline
  BY <1>4, <1>5, PrepareKindIsFresh
<1> HIDE DEF K
<1>8. Prepare(P, m) = [K.prep EXCEPT !.pending = BaselineOf(m)]
  BY <1>6, <1>7 DEF Prepare, K, S, Q, R, BaselineOf
<1>9. Prepare(P, m) = [baseline |-> K.prep.baseline, pending |-> BaselineOf(m),
                       dependencies |-> K.prep.dependencies,
                       admitted |-> K.prep.admitted, cache |-> K.prep.cache,
                       change |-> K.prep.change, kindRows |-> K.prep.kindRows,
                       coneStatus |-> K.prep.coneStatus]
  <2> DEFINE T == K.prep
             base == BaselineOf(m)
  <2> HIDE DEF T, base
  <2>1. Shaped(T) /\ Prepare(P, m) = [T EXCEPT !.pending = base]
    BY <1>7, <1>8 DEF T, base
  <2>2. Prepare(P, m) = [baseline |-> T.baseline, pending |-> base,
                         dependencies |-> T.dependencies, admitted |-> T.admitted,
                         cache |-> T.cache, change |-> T.change,
                         kindRows |-> T.kindRows, coneStatus |-> T.coneStatus]
    BY <2>1 DEF Shaped
  <2> QED
    BY <2>2 DEF T, base
<1>10. /\ Shaped(Prepare(P, m)) /\ Describes(Prepare(P, m), m)
       /\ Prepare(P, m).pending = BaselineOf(m)
       /\ Prepare(P, m).change = S.change
  BY <1>7, <1>9 DEF Shaped, Describes, Carries, Cached
<1>11. Complete(S.change, n, m)
  BY <1>5, UnselectedIsUnchanged DEF Complete, Contains
<1>12. S.change # Full => n \in ModelType /\ P.pending = None /\ P.baseline = BaselineOf(n)
  <2>1. BaselineOf(n) # None \/ n \notin ModelType
    BY BaselineOfType, NoneAssumption
  <2> QED
    BY <1>2, <1>4, <1>5, <2>1 DEF R, Recover, Cleared
<1> QED
  BY <1>10, <1>11, <1>12

-----------------------------------------------------------------------------
(***************************************************************************)
(* The three invariants for any parameters, variables, rows and            *)
(* expressions.  None of them is inductive: a context is fresh because the *)
(* baseline it was prepared from described the model that was committed,   *)
(* so the invariant says what a preparation describes at every moment,     *)
(* pending or settled, and that the live context and the committed model   *)
(* are earlier states of the model whose revision tells whether their      *)
(* structure is still the model's.                                         *)
(***************************************************************************)

\* A context is live from a successful prepare to its commit, clear or end.
LiveInv ==
    context # None =>
        /\ Earlier(context, model)
        /\ prep.pending = BaselineOf(context)
        /\ Describes(prep, context)
        /\ Complete(prep.change, committed, context)

\* Between contexts the preparation describes what it committed.
SettledInv ==
    prep.pending = None /\ prep.baseline # None =>
        /\ Earlier(committed, model)
        /\ prep.baseline = BaselineOf(committed)
        /\ Describes(prep, committed)

LifecycleInv ==
    /\ model \in ModelType
    /\ Shaped(prep)
    /\ LiveInv
    /\ SettledInv

-----------------------------------------------------------------------------
(* The invariant *)

LEMMA LifecycleStarts == LifecycleInit => LifecycleInv
<1> SUFFICES ASSUME LifecycleInit PROVE LifecycleInv
  OBVIOUS
<1>1. model \in ModelType
  BY InitialModelType DEF LifecycleInit
<1>2. Shaped(prep) /\ prep.baseline = None
  BY DEF LifecycleInit, Cleared, Shaped
<1> QED
  BY <1>1, <1>2 DEF LifecycleInit, LifecycleInv, LiveInv, SettledInv

LEMMA LifecycleKeeps == LifecycleInv /\ [LifecycleNext]_lifecycleVars => LifecycleInv'
<1> SUFFICES ASSUME LifecycleInv, [LifecycleNext]_lifecycleVars PROVE LifecycleInv'
  OBVIOUS
<1>1. CASE LifecycleEdit
  <2>1. UNCHANGED <<prep, context, committed>>
    BY <1>1 DEF LifecycleEdit
  <2>2. /\ model' \in ModelType
        /\ \/ model'.revision = model.revision /\ SameStructure(model, model')
           \/ model'.revision = model.revision + 1
    BY <1>1, EditsAdvance DEF LifecycleEdit, LifecycleInv
  <2>3. LiveInv'
    BY <2>1, <2>2, EarlierIsStable DEF LifecycleInv, LiveInv
  <2>4. SettledInv'
    BY <2>1, <2>2, EarlierIsStable DEF LifecycleInv, SettledInv
  <2> QED
    BY <2>1, <2>2, <2>3, <2>4 DEF LifecycleInv
<1>2. CASE PrepareContext
  <2>1. Settled(prep, committed, model)
    BY DEF LifecycleInv, SettledInv, Settled, Earlier
  <2>2. /\ Shaped(prep') /\ Describes(prep', model)
        /\ prep'.pending = BaselineOf(model)
        /\ Complete(prep'.change, committed, model)
    BY <1>2, <2>1, PrepareDescribes DEF PrepareContext, LifecycleInv
  <2>3. prep'.pending # None
    BY <2>2, BaselineOfType, NoneAssumption DEF LifecycleInv
  <2>4. Earlier(model, model)
    BY DEF LifecycleInv, Earlier, SameStructure, ModelType
  <2> QED
    BY <1>2, <2>2, <2>3, <2>4 DEF PrepareContext, LifecycleInv, LiveInv, SettledInv
<1>3. ASSUME NEW root \in Roots, ReadRoot(root)
      PROVE  LifecycleInv'
  <2>1. /\ context # None /\ UNCHANGED <<model, context, committed>>
        /\ prep' = AfterReading(prep, context, {root})
    BY <1>3 DEF ReadRoot
  <2>2. /\ Earlier(context, model) /\ prep.pending = BaselineOf(context)
        /\ Describes(prep, context) /\ Complete(prep.change, committed, context)
    BY <2>1 DEF LifecycleInv, LiveInv
  <2>3. /\ Shaped(prep') /\ Describes(prep', context)
        /\ prep'.pending = prep.pending /\ prep'.change = prep.change
    BY <2>1, <2>2, ReadingFillsCache DEF LifecycleInv, Describes
  <2>4. prep'.pending # None
    BY <2>2, <2>3, BaselineOfType, NoneAssumption DEF Earlier
  <2> QED
    BY <2>1, <2>2, <2>3, <2>4 DEF LifecycleInv, LiveInv, SettledInv
<1>4. CASE CommitContext
  <2>1. /\ context # None /\ context' = None /\ committed' = context
        /\ prep' = Commit(prep) /\ model' = model
    BY <1>4 DEF CommitContext
  <2>2. /\ Earlier(context, model) /\ prep.pending = BaselineOf(context)
        /\ Describes(prep, context)
    BY <2>1 DEF LifecycleInv, LiveInv
  <2>3. Shaped(prep') /\ Describes(prep', context) /\ prep'.baseline = prep.pending
    BY <2>1, <2>2, CommitShape DEF LifecycleInv
  <2> QED
    BY <2>1, <2>2, <2>3 DEF LifecycleInv, LiveInv, SettledInv
<1>5. CASE ClearPreparation
  <2>1. Shaped(Cleared) /\ Cleared.baseline = None
    BY DEF Cleared, Shaped
  <2> QED
    BY <1>5, <2>1 DEF ClearPreparation, LifecycleInv, LiveInv, SettledInv
<1>6. CASE Abandon
  BY <1>6 DEF Abandon, LifecycleInv, LiveInv, SettledInv
<1>7. CASE UNCHANGED lifecycleVars
  BY <1>7 DEF lifecycleVars, LifecycleInv, LiveInv, SettledInv
<1> QED
  BY <1>1, <1>2, <1>3, <1>4, <1>5, <1>6, <1>7 DEF LifecycleNext

LEMMA LifecycleHolds == LifecycleSpec => []LifecycleInv
BY LifecycleStarts, LifecycleKeeps, PTL DEF LifecycleSpec

-----------------------------------------------------------------------------
(* The theorems *)

\* The variables and the model kind that an adapter reads from a resident context
\* are those of a context built from scratch, after any history of edits, solves,
\* errors and abandoned contexts.
THEOREM ContextsAreFresh == LifecycleSpec => []ContextIsFresh
<1>1. LifecycleInv => ContextIsFresh
  BY DEF LifecycleInv, LiveInv, ContextIsFresh, BaselineOf
<1> QED
  BY <1>1, LifecycleHolds, PTL

\* No decomposition served from the resident cache has coefficients of parameter
\* values other than those of the context that reads it.
THEOREM CachesAreFresh == LifecycleSpec => []CacheIsFresh
<1>1. LifecycleInv => CacheIsFresh
  BY DEF LifecycleInv, LiveInv, CacheIsFresh, Describes, Carries, Cached
<1> QED
  BY <1>1, LifecycleHolds, PTL

\* An adapter that touches only what PreparationChange names leaves nothing stale:
\* the rest is as it was in the model of the last committed solve.
THEOREM ChangesAreComplete == LifecycleSpec => []ChangeIsComplete
<1>1. LifecycleInv => ChangeIsComplete
  <2> SUFFICES ASSUME LifecycleInv, context # None, prep.change # Full
               PROVE  /\ committed.objective = context.objective
                      /\ \A r \in Rows : RowRoot(committed, r) = RowRoot(context, r)
                      /\ Complete(prep.change, committed, context)
    BY DEF ChangeIsComplete, Complete
  <2>1. Complete(prep.change, committed, context)
    BY DEF LifecycleInv, LiveInv
  <2> QED
    BY <2>1 DEF Complete, SameStructure, RowRoot
<1> QED
  BY <1>1, LifecycleHolds, PTL

-----------------------------------------------------------------------------
(***************************************************************************)
(* The HiGHS handle against the cold solve, for any parameters, variables, *)
(* rows and expressions.  The invariant names the model n of the last      *)
(* committed solve, which is no variable of the handle: the preparation    *)
(* describes it and the instance holds exactly its problem.  A delta is    *)
(* right because what the change does not name is the same in n and in     *)
(* the model, and what the fingerprint covers has not moved.               *)
(***************************************************************************)
(* The problem of a model *)

CostIn(m) == Cold!Cost(m, ColdTerms(m))
HessianIn(m) == Cold!Hessian(m, ColdTerms(m))
StructureIn(m) == Cold!Structure(m, ColdTerms(m))

\* What a handle holds right after it was built from m.
StateOf(m) ==
    [native |-> [cost |-> CostIn(m), hessian |-> HessianIn(m),
                 bounds |-> ResolvedVariables(m), structure |-> StructureIn(m)],
     offset |-> CostIn(m), params |-> m.params,
     snap |-> [cost |-> CostIn(m), bounds |-> ResolvedVariables(m),
               structure |-> StructureIn(m)],
     hessian |-> HessianIn(m)]

AnswerOf(s) == [native |-> s.native, offset |-> s.offset, params |-> s.params]

\* The handle's invariant: n is the model of the last committed solve.
HandleOf(n) == /\ Earlier(n, model)
               /\ prep.baseline = BaselineOf(n)
               /\ Describes(prep, n)
               /\ state # None => state = StateOf(n)

HandleInv ==
    /\ model \in ModelType
    /\ Shaped(prep) /\ prep.pending = None
    /\ prep.baseline # None => \E n \in ModelType : HandleOf(n)
    /\ state # None => prep.baseline # None

\* The cold solve reads the same model.
LEMMA ColdNames ==
    ASSUME NEW m
    PROVE  /\ Cold!ColdTerms(m) = ColdTerms(m)
           /\ Cold!ColdKind(m) = ColdKind(m)
           /\ Cold!ResolvedVariables(m) = ResolvedVariables(m)
           /\ Cold!HasObjective(m) <=> HasObjective(m)
           /\ \A r : Cold!RowRoot(m, r) = RowRoot(m, r)
<1>1. Cold!ColdTerms(m) = ColdTerms(m)
  BY DEF Cold!ColdTerms, ColdTerms, Cold!Terms, Terms
<1>2. Cold!ResolvedVariables(m) = ResolvedVariables(m)
  BY DEF Cold!ResolvedVariables, ResolvedVariables, Cold!Bound, Bound
<1>3. Cold!HasObjective(m) <=> HasObjective(m)
  BY DEF Cold!HasObjective, HasObjective
<1>4. \A r : Cold!RowRoot(m, r) = RowRoot(m, r)
  BY DEF Cold!RowRoot, RowRoot
<1>5. Cold!QuadraticRows(m) = QuadraticRows(m)
  BY DEF Cold!QuadraticRows, QuadraticRows
<1>6. \A terms : Cold!ConeCandidate(terms) = ConeCandidate(terms)
  BY DEF Cold!ConeCandidate, ConeCandidate, Cold!HessianVanishes, HessianVanishes
<1>7. \A terms, variables :
         Cold!IsDetectedCone(terms, variables) <=> IsDetectedCone(terms, variables)
  BY <1>6 DEF Cold!IsDetectedCone, IsDetectedCone
<1>8. \A variables, terms :
         Cold!InferKind(m, variables, terms) = InferKind(m, variables, terms)
  BY <1>5, <1>7 DEF Cold!InferKind, InferKind
<1>9. Cold!ColdKind(m) = ColdKind(m)
  BY <1>1, <1>2, <1>8 DEF Cold!ColdKind, ColdKind
<1> QED
  BY <1>1, <1>2, <1>3, <1>4, <1>9

LEMMA ColdAnswerIs ==
    ASSUME NEW m
    PROVE  Cold!ColdAnswer(m) = AnswerOf(StateOf(m))
BY ColdNames DEF Cold!ColdAnswer, AnswerOf, StateOf, CostIn, HessianIn, StructureIn

\* What prepare returned shows the problem of the model.
LEMMA PreparedProblem ==
    ASSUME NEW P, NEW m, Describes(P, m), P.pending = BaselineOf(m)
    PROVE  /\ CostOf(P, m) = CostIn(m) /\ HessianOf(P, m) = HessianIn(m)
           /\ StructureOf(P, m) = StructureIn(m)
           /\ SnapshotOf(P, m) = StateOf(m).snap
           /\ Rebuilt(P, m) = StateOf(m)
<1>1. TermsRead(P, m) = ColdTerms(m)
  BY TermsReadAreCold DEF Describes
<1>2. /\ CostOf(P, m) = CostIn(m) /\ HessianOf(P, m) = HessianIn(m)
      /\ StructureOf(P, m) = StructureIn(m)
  BY <1>1 DEF CostOf, HessianOf, StructureOf, CostIn, HessianIn, StructureIn
<1>3. P.pending.variables = ResolvedVariables(m)
  BY DEF BaselineOf
<1>4. SnapshotOf(P, m) = StateOf(m).snap
  BY <1>2, <1>3 DEF SnapshotOf, StateOf
<1> QED
  BY <1>2, <1>3, <1>4 DEF Rebuilt, StateOf

\* Where the change names neither the objective nor a row, that part of the problem
\* is what it was.
LEMMA UnnamedPartsAreTheSame ==
    ASSUME NEW change, NEW n \in ModelType, NEW m \in ModelType, change # Full,
           Complete(change, n, m)
    PROVE  /\ ~ Contains(change, ObjectiveTarget) =>
                 CostIn(n) = CostIn(m) /\ HessianIn(n) = HessianIn(m)
           /\ (\A r \in Rows : RowTarget(r) \notin change.targets) =>
                 StructureIn(n) = StructureIn(m)
<1>1. n.objective = m.objective /\ (HasObjective(n) <=> HasObjective(m))
  BY DEF Complete, SameStructure, HasObjective
<1>2. ASSUME ~ Contains(change, ObjectiveTarget)
      PROVE  CostIn(n) = CostIn(m) /\ HessianIn(n) = HessianIn(m)
  <2>1. HasObjective(m) => ColdTerms(n)[n.objective] = ColdTerms(m)[m.objective]
    BY <1>1, <1>2 DEF Complete, ColdTerms, HasObjective
  <2>2. m.objective \in Quadratics => HasObjective(m)
    BY RootsAssumption DEF HasObjective
  <2>3. CostIn(n) = CostIn(m)
    BY <1>1, <2>1, ColdNames DEF CostIn, Cold!Cost
  <2>4. HessianIn(n) = HessianIn(m)
    BY <1>1, <2>1, <2>2 DEF HessianIn, Cold!Hessian
  <2> QED
    BY <2>3, <2>4
<1>3. ASSUME \A r \in Rows : RowTarget(r) \notin change.targets
      PROVE  StructureIn(n) = StructureIn(m)
  <2>1. \A r \in Rows : ColdTerms(n)[RowRoot(n, r)] = ColdTerms(m)[RowRoot(m, r)]
    <3>1. \A r \in Rows : Terms(RowRoot(n, r), n.params) = Terms(RowRoot(m, r), m.params)
      BY <1>3 DEF Complete, Contains
    <3> QED
      BY <3>1, RowRoots DEF ColdTerms
  <2>2. \A r \in Rows :
           ColdTerms(n)[Cold!RowRoot(n, r)] = ColdTerms(m)[Cold!RowRoot(m, r)]
    BY <2>1, ColdNames
  <2> QED
    BY <1>1, <2>2 DEF StructureIn, Cold!Structure
<1> QED
  BY <1>2, <1>3

\* The refreshed snapshot is the snapshot of the model.
LEMMA RefreshedSnapshot ==
    ASSUME NEW P, NEW n, NEW m \in ModelType, Describes(P, m), P.pending = BaselineOf(m),
           Complete(P.change, n, m), P.change # Full => n \in ModelType
    PROVE  RefreshSnapshot(P, m, StateOf(n).snap) = StateOf(m).snap
<1>1. CASE RowsChange(P)
  BY <1>1, PreparedProblem DEF RefreshSnapshot
<1>2. CASE ~ RowsChange(P)
  <2> DEFINE base == StateOf(n).snap
             cost == IF Contains(P.change, ObjectiveTarget) THEN CostOf(P, m) ELSE base.cost
             bounds == [v \in Vars |-> IF Contains(P.change, BoundTarget(v))
                                       THEN P.pending.variables[v] ELSE base.bounds[v]]
  <2>1. /\ P.change # Full /\ n \in ModelType
        /\ \A r \in Rows : RowTarget(r) \notin P.change.targets
    BY <1>2 DEF RowsChange
  <2>2. base = [cost |-> CostIn(n), bounds |-> ResolvedVariables(n),
                structure |-> StructureIn(n)]
    BY DEF StateOf
  <2>3. RefreshSnapshot(P, m, base) = [base EXCEPT !.cost = cost, !.bounds = bounds]
    BY <1>2 DEF RefreshSnapshot
  <2>4. cost = CostIn(m)
    BY <2>1, <2>2, PreparedProblem, UnnamedPartsAreTheSame
  <2>5. bounds = ResolvedVariables(m)
    <3>1. P.pending.variables = ResolvedVariables(m)
      BY DEF BaselineOf
    <3>2. \A v \in Vars : bounds[v] = ResolvedVariables(m)[v]
      BY <2>1, <2>2, <3>1 DEF Complete
    <3>3. bounds = [v \in Vars |-> bounds[v]]
      OBVIOUS
    <3> HIDE DEF bounds
    <3> QED
      BY <3>2, <3>3 DEF ResolvedVariables
  <2>6. StructureIn(n) = StructureIn(m)
    BY <2>1, UnnamedPartsAreTheSame
  <2> HIDE DEF base, cost, bounds
  <2>7. [base EXCEPT !.cost = cost, !.bounds = bounds] =
          [cost |-> cost, bounds |-> bounds, structure |-> StructureIn(n)]
    <3> DEFINE first == [base EXCEPT !.cost = cost]
    <3>1. first = [cost |-> cost, bounds |-> ResolvedVariables(n),
                   structure |-> StructureIn(n)]
      BY <2>2
    <3>2. [first EXCEPT !.bounds = bounds] =
            [cost |-> cost, bounds |-> bounds, structure |-> StructureIn(n)]
      <4> HIDE DEF first
      <4> QED
        BY <3>1
    <3> QED
      BY <3>2
  <2> QED
    BY <2>3, <2>4, <2>5, <2>6, <2>7 DEF StateOf, base
<1> QED
  BY <1>1, <1>2

\* A delta that the handle accepts turns the problem of n into the problem of m.
LEMMA UpdateBuildsTheProblem ==
    ASSUME NEW P, NEW n, NEW m \in ModelType, Describes(P, m), P.pending = BaselineOf(m),
           Complete(P.change, n, m), P.change # Full => n \in ModelType,
           state = StateOf(n), CanUpdate(P, m)
    PROVE  Updated(P, m) = StateOf(m)
<1> DEFINE snap == RefreshSnapshot(P, m, state.snap)
           hessian == NextHessian(P, m)
           withHessian == IF hessian # state.hessian THEN PassHessian(state.native, hessian)
                                                     ELSE state.native
<1>1. snap = StateOf(m).snap
  BY RefreshedSnapshot
<1>2. /\ StateOf(m).snap = [cost |-> CostIn(m), bounds |-> ResolvedVariables(m),
                            structure |-> StructureIn(m)]
      /\ state.snap = [cost |-> CostIn(n), bounds |-> ResolvedVariables(n),
                       structure |-> StructureIn(n)]
      /\ state.hessian = HessianIn(n)
      /\ state.native = [cost |-> CostIn(n), hessian |-> HessianIn(n),
                         bounds |-> ResolvedVariables(n), structure |-> StructureIn(n)]
  BY DEF StateOf
<1>3. StructureIn(n) = StructureIn(m)
  BY <1>1, <1>2 DEF CanUpdate
<1>4. hessian = HessianIn(m)
  <2>1. CASE Contains(P.change, ObjectiveTarget)
    BY <2>1, PreparedProblem DEF NextHessian
  <2>2. CASE ~ Contains(P.change, ObjectiveTarget)
    <3>1. P.change # Full
      BY <2>2 DEF Contains
    <3> QED
      BY <1>2, <2>2, <3>1, UnnamedPartsAreTheSame DEF NextHessian
  <2> QED
    BY <2>1, <2>2
<1>5. withHessian = [cost |-> CostIn(n), hessian |-> HessianIn(m),
                     bounds |-> ResolvedVariables(n), structure |-> StructureIn(n)]
  <2>1. CASE hessian = state.hessian
    BY <1>2, <1>4, <2>1
  <2>2. CASE hessian # state.hessian
    <3>1. hessian # None
      <4>1. Contains(P.change, ObjectiveTarget)
        BY <2>2 DEF NextHessian
      <4> QED
        BY <1>4, <2>2, <4>1, PreparedProblem DEF CanUpdate, ClearingHessian
    <3>2. withHessian = [state.native EXCEPT !.hessian = hessian]
      BY <2>2, <3>1 DEF PassHessian
    <3> QED
      BY <1>2, <1>4, <3>2
  <2> QED
    BY <2>1, <2>2
<1> HIDE DEF snap, hessian, withHessian
<1>6. PushDelta(withHessian, state.snap, snap) = StateOf(m).native
  <2> DEFINE cost == IF snap.cost # state.snap.cost THEN snap.cost ELSE withHessian.cost
             bounds == [v \in Vars |-> IF snap.bounds[v] # state.snap.bounds[v]
                                       THEN snap.bounds[v] ELSE withHessian.bounds[v]]
  <2>1. PushDelta(withHessian, state.snap, snap) =
          [withHessian EXCEPT !.cost = cost, !.bounds = bounds]
    BY DEF PushDelta
  <2>2. cost = CostIn(m)
    BY <1>1, <1>2, <1>5
  <2>3. bounds = ResolvedVariables(m)
    <3>1. \A v \in Vars : bounds[v] = ResolvedVariables(m)[v]
      BY <1>1, <1>2, <1>5
    <3>2. bounds = [v \in Vars |-> bounds[v]]
      OBVIOUS
    <3> HIDE DEF bounds
    <3> QED
      BY <3>1, <3>2 DEF ResolvedVariables
  <2> HIDE DEF cost, bounds
  <2>4. [withHessian EXCEPT !.cost = cost, !.bounds = bounds] =
          [cost |-> cost, hessian |-> HessianIn(m), bounds |-> bounds,
           structure |-> StructureIn(n)]
    <3> DEFINE first == [withHessian EXCEPT !.cost = cost]
    <3>1. first = [cost |-> cost, hessian |-> HessianIn(m),
                   bounds |-> ResolvedVariables(n), structure |-> StructureIn(n)]
      BY <1>5
    <3>2. [first EXCEPT !.bounds = bounds] =
            [cost |-> cost, hessian |-> HessianIn(m), bounds |-> bounds,
             structure |-> StructureIn(n)]
      <4> HIDE DEF first
      <4> QED
        BY <3>1
    <3> QED
      BY <3>2
  <2> QED
    BY <1>3, <2>1, <2>2, <2>3, <2>4 DEF StateOf
<1>7. Updated(P, m) =
        [native |-> PushDelta(withHessian, state.snap, snap), offset |-> snap.cost,
         params |-> m.params, snap |-> snap, hessian |-> hessian]
  BY DEF Updated, snap, hessian, withHessian
<1> QED
  BY <1>1, <1>2, <1>4, <1>6, <1>7 DEF StateOf

-----------------------------------------------------------------------------
(* The invariant *)

LEMMA HandleStarts == Init => HandleInv
<1> SUFFICES ASSUME Init PROVE HandleInv
  OBVIOUS
<1>1. model \in ModelType
  BY InitialModelType DEF Init, Cold!Init
<1>2. Shaped(Cleared) /\ Cleared.baseline = None /\ Cleared.pending = None
  BY DEF Cleared, Shaped
<1> QED
  BY <1>1, <1>2 DEF Init, HandleInv

\* What a solve finds after prepare: n is the model of the last committed solve, or
\* any value when there is none.
LEMMA SolvePrepares ==
    ASSUME HandleInv
    PROVE  \E n : LET P == Prepare(prep, model) IN
              /\ Shaped(P) /\ Describes(P, model) /\ P.pending = BaselineOf(model)
              /\ Complete(P.change, n, model)
              /\ P.change # Full => n \in ModelType
              /\ state # None => state = StateOf(n)
<1>1. CASE prep.baseline # None
  <2>1. PICK n \in ModelType : HandleOf(n)
    BY <1>1 DEF HandleInv
  <2>2. Settled(prep, n, model)
    BY <2>1 DEF HandleOf, Settled, Earlier
  <2> QED
    BY <2>1, <2>2, PrepareDescribes DEF HandleInv, HandleOf
<1>2. CASE prep.baseline = None
  <2>1. Settled(prep, None, model) /\ state = None
    BY <1>2 DEF Settled, HandleInv
  <2> QED
    BY <2>1, PrepareDescribes DEF HandleInv
<1> QED
  BY <1>1, <1>2

\* Either way of solving leaves the handle as built from the model.
LEMMA SolvesBuildTheProblem ==
    ASSUME HandleInv, UpdateAndSolve \/ RebuildAndSolve
    PROVE  /\ state' = StateOf(model) /\ model' = model
           /\ answer' = Cold!ColdAnswer(model)
           /\ Shaped(prep') /\ Describes(prep', model)
           /\ prep'.baseline = BaselineOf(model) /\ prep'.pending = None
<1> DEFINE P == Prepare(prep, model)
           read == RootsRead(P, model)
<1>1. PICK n : /\ Shaped(P) /\ Describes(P, model) /\ P.pending = BaselineOf(model)
               /\ Complete(P.change, n, model)
               /\ P.change # Full => n \in ModelType
               /\ state # None => state = StateOf(n)
  BY SolvePrepares
<1>2. prep' = Commit(AfterReading(P, model, read)) /\ model' = model
  BY DEF UpdateAndSolve, RebuildAndSolve
<1>3. state' = StateOf(model)
  <2>1. CASE UpdateAndSolve
    <3>1. CanUpdate(P, model) /\ state' = Updated(P, model)
      BY <2>1 DEF UpdateAndSolve
    <3>2. state # None
      BY <3>1 DEF CanUpdate
    <3> HIDE DEF P
    <3> QED
      BY <1>1, <3>1, <3>2, UpdateBuildsTheProblem DEF HandleInv
  <2>2. CASE RebuildAndSolve
    <3>1. state' = Rebuilt(P, model)
      BY <2>2 DEF RebuildAndSolve
    <3> HIDE DEF P
    <3> QED
      BY <1>1, <3>1, PreparedProblem
  <2> QED
    BY <2>1, <2>2
<1>4. answer' = AnswerOf(state')
  BY DEF UpdateAndSolve, RebuildAndSolve, AnswerOf
<1> HIDE DEF P, read
<1>5. /\ Shaped(AfterReading(P, model, read)) /\ Describes(AfterReading(P, model, read), model)
      /\ AfterReading(P, model, read).pending = BaselineOf(model)
  BY <1>1, ReadingFillsCache DEF Describes
<1>6. /\ Shaped(prep') /\ Describes(prep', model)
      /\ prep'.baseline = BaselineOf(model) /\ prep'.pending = None
  BY <1>2, <1>5, CommitShape
<1> QED
  BY <1>2, <1>3, <1>4, <1>6, ColdAnswerIs

LEMMA HandleKeeps == HandleInv /\ [Next]_vars => HandleInv'
<1> SUFFICES ASSUME HandleInv, [Next]_vars PROVE HandleInv'
  OBVIOUS
<1>0. Shaped(Cleared) /\ Cleared.baseline = None /\ Cleared.pending = None
  BY DEF Cleared, Shaped
<1>1. CASE Edit
  <2>1. UNCHANGED <<prep, state>>
    BY <1>1 DEF Edit
  <2>2. /\ model' \in ModelType
        /\ \/ model'.revision = model.revision /\ SameStructure(model, model')
           \/ model'.revision = model.revision + 1
    <3>1. \/ \E o \in Roots \cup {Feasibility} : model' = SetObjective(model, o)
          \/ \E r \in Rows, a \in BOOLEAN : model' = SetActive(model, r, a)
          \/ \E r \in Rows, root \in Roots : model' = SetFunction(model, r, root)
          \/ \E v \in Vars, b \in Values \cup Params : model' = SetBounds(model, v, b)
          \/ \E p \in Params, x \in Values : model' = SetParam(model, p, x)
      BY <1>1 DEF Edit, Cold!Edit, Cold!SetObjective, Cold!SetActive, Cold!SetFunction,
         Cold!SetBounds, Cold!SetParam, SetObjective, SetActive, SetFunction, SetBounds,
         SetParam
    <3> QED
      BY <3>1, EditsAdvance DEF HandleInv
  <2>3. \A n \in ModelType : HandleOf(n) => HandleOf(n)'
    BY <2>1, <2>2, EarlierIsStable DEF HandleInv, HandleOf
  <2> QED
    BY <2>1, <2>2, <2>3 DEF HandleInv
<1>2. CASE RejectSolve
  BY <1>2 DEF RejectSolve, HandleInv, HandleOf
<1>3. CASE UpdateAndSolve \/ RebuildAndSolve
  <2>1. /\ state' = StateOf(model) /\ model' = model
        /\ Shaped(prep') /\ Describes(prep', model)
        /\ prep'.baseline = BaselineOf(model) /\ prep'.pending = None
    BY <1>3, SolvesBuildTheProblem
  <2>2. Earlier(model, model')
    BY <2>1 DEF HandleInv, Earlier, SameStructure, ModelType
  <2>3. HandleOf(model)'
    BY <2>1, <2>2 DEF HandleOf
  <2>4. prep'.baseline # None
    BY <2>1, BaselineOfType, NoneAssumption DEF HandleInv
  <2>5. \E n \in ModelType : HandleOf(n)'
    BY <2>1, <2>2, <2>3 DEF HandleInv, HandleOf
  <2> QED
    BY <2>1, <2>4, <2>5 DEF HandleInv
<1>4. CASE FailSolve
  BY <1>0, <1>4 DEF FailSolve, HandleInv
<1>5. CASE Reset
  BY <1>0, <1>5 DEF Reset, HandleInv
<1>6. CASE UNCHANGED vars
  BY <1>6 DEF vars, HandleInv, HandleOf
<1> QED
  BY <1>1, <1>2, <1>3, <1>4, <1>5, <1>6 DEF Next

LEMMA HandleHolds == Spec => []HandleInv
BY HandleStarts, HandleKeeps, PTL DEF Spec

-----------------------------------------------------------------------------
(* The theorems *)

\* While the model's update key and parameters are those of the last commit, the
\* resident instance is the problem that a cold solve of the model builds.
THEOREM ResidentIsTheModel == Spec => []ResidentMatchesBaseline
<1>1. HandleInv => ResidentMatchesBaseline
  <2> SUFFICES ASSUME HandleInv, state # None, prep.baseline.revision = model.revision,
                      prep.baseline.params = model.params
               PROVE  AnswerOf(state) = Cold!ColdAnswer(model)
    BY DEF ResidentMatchesBaseline, AnswerOf
  <2>1. PICK n \in ModelType : HandleOf(n)
    BY DEF HandleInv
  <2>2. SameStructure(n, model) /\ n.params = model.params
    BY <2>1 DEF HandleOf, Earlier, BaselineOf
  <2>3. ResolvedVariables(n) = ResolvedVariables(model) /\ ColdTerms(n) = ColdTerms(model)
    BY <2>2 DEF ResolvedVariables, ColdTerms, SameStructure
  <2>4. StateOf(n) = StateOf(model)
    <3>1. /\ n.objective = model.objective
          /\ \A r : Cold!RowRoot(n, r) = Cold!RowRoot(model, r)
          /\ Cold!HasObjective(n) <=> Cold!HasObjective(model)
      BY <2>2 DEF SameStructure, Cold!RowRoot, Cold!HasObjective
    <3>2. /\ CostIn(n) = CostIn(model) /\ HessianIn(n) = HessianIn(model)
          /\ StructureIn(n) = StructureIn(model)
      BY <2>3, <3>1 DEF CostIn, HessianIn, StructureIn, Cold!Cost, Cold!Hessian,
         Cold!Structure
    <3> QED
      BY <2>2, <2>3, <3>2 DEF StateOf
  <2> QED
    BY <2>1, <2>4, ColdAnswerIs DEF HandleOf
<1> QED
  BY <1>1, HandleHolds, PTL

\* Every solve through the handle answers as a cold solve of the model at that moment
\* would, or with an error: updating in place is invisible.
THEOREM HandleImplementsColdSolve == Spec => ImplementsColdSolve
<1>1. Init => Cold!Init
  BY DEF Init
<1>2. HandleInv /\ [Next]_vars => [Cold!Next]_<<model, answer>>
  <2> SUFFICES ASSUME HandleInv, [Next]_vars PROVE [Cold!Next]_<<model, answer>>
    OBVIOUS
  <2>1. CASE Edit
    BY <2>1 DEF Edit, Cold!Next
  <2>2. CASE RejectSolve
    BY <2>2 DEF RejectSolve, Cold!Next, Cold!Solve
  <2>3. CASE UpdateAndSolve \/ RebuildAndSolve
    <3>1. answer' = Cold!ColdAnswer(model) /\ model' = model
      BY <2>3, SolvesBuildTheProblem
    <3>2. Cold!Accepted(model)
      BY <2>3 DEF UpdateAndSolve, RebuildAndSolve
    <3> QED
      BY <3>1, <3>2 DEF Cold!Next, Cold!Solve
  <2>4. CASE FailSolve
    BY <2>4 DEF FailSolve, Cold!Next, Cold!Solve
  <2>5. CASE Reset
    BY <2>5 DEF Reset
  <2>6. CASE UNCHANGED vars
    BY <2>6 DEF vars
  <2> QED
    BY <2>1, <2>2, <2>3, <2>4, <2>5, <2>6 DEF Next
<1> QED
  BY <1>1, <1>2, HandleHolds, PTL DEF Spec, ImplementsColdSolve, Cold!Spec
=============================================================================
