# oximo in TLA+

A verification development for **oximo**, an algebraic modelling layer for mathematical
optimization in Rust. A user builds a `Model` (variables, parameters, expressions, constraints,
an objective); adapters lower it to native solvers (HiGHS, Gurobi, MOSEK, SCIP, Clarabel, POUNCE,
and GAMS/BARON through files), and persistent adapters keep the native problem between solves and
update only what changed. Two things are hard to get right in oximo: *state that is kept although
the model may have changed since* (shared storage, resident problems, caches, cached classes,
plans of coordinates), and *one model said in several ways* (rewritten expressions, generated
rows, native problems, files) that must all mean the same. The development covers both: it starts
with the storage of the model and the change detection on top of it, and goes on to expressions,
constraint records, reformulations, every adapter with a resident problem or a file, model files,
and the way results come back.

Source paths below are relative to `src/crates/`.

## 1. Inventory

| Component | State | Operations | Hard behaviour | What makes it correct |
|---|---|---|---|---|
| Model registries (`oximo-core/shared.rs`, `model.rs`) | one `SharedCell` per registry: owned or `Arc` storage, a revision counter; outstanding `Ref`s | new, fork, reformulation copies, snapshot, write, read, drop, `__update_key` | aliasing after forks, forks under a borrow, revisions that must cover every write | forks and snapshots behave as copies; the update key is sound |
| Edits, classification, parameters (`model/*.rs`, `soc.rs`) | objective, rows with activity, bounds, parameter values in the arena, `cached_kind` | declare, bound, fix, set parameters, replace, activate, `kind` | values outside the update key; kinds that depend on numbers; validation after the revision moved | the kind is that of the current numbers; bounds stay feasible |
| Dependency index (`model/dependencies.rs`) | parameter to target map, immutable | build, changed targets | inactive rows, shared expressions | every affected entity is named |
| Lineage (`model/lineage.rs`) | ancestors with prefix lengths | fork, `inherited_prefix` | chains of forks | a solution is projected only on inherited entities |
| Semantic constraints (`model/semantic*`, `constraint*.rs`) | records, native rows, inactive views, names | add, update, (de)activate, index | several registries per edit, errors half way, run-length encoding | records, rows and lookups agree |
| Reformulations (`reformulation/*`) | generated rows, locked sources | SOS and indicator to rows | rows embed bounds and parameters | equivalent; sources frozen |
| Expression arena (`oximo-expr/arena.rs`, `captured.rs`) | node vectors, state bits, worker forks | push, snapshot, batch, merge | parallel builders, re-entrancy | deterministic merge, no lost node |
| Expression analysis (`ops.rs`, `linear.rs`, `quadratic.rs`, `classify.rs`, ...) | none | build, extract, classify, evaluate | rewriting before a parameter is set, fast paths beside the general fold | every decomposition means what evaluation means |
| Preparation and its caches (`oximo-solver/prepare*`) | bounded extraction cache, quadratic workset | linear, quadratic, quadratic_once | threads, eviction, failures cached | accounting, sharing, termination |
| Resident preparation (`resident.rs`, `incremental.rs`) | baseline, pending, index, admitted roots, cone status | prepare, commit, clear | abandoned contexts, partial invalidation | what it shows is what a cold preparation shows |
| Persistent adapters (HiGHS, Gurobi, MOSEK, SCIP, Clarabel, POUNCE) | native problem, snapshot, handles, options | solve, reset | deltas on top of deltas, errors half way, callbacks that add rows | the solver holds the model as it is |
| File adapters (GAMS, BARON) | none kept | write, run, parse | one entity classed at several places | the program means the model; the answer is attributed right |
| Model files (`oximo-io`: LP, MPS, NL) | none | write, read | defaults that are not written, order, labels derived from names | a round trip keeps the model |
| Requirements, capabilities | none | infer, check | combinations | a refused model is not lowered |
| Results and dual reconstruction (`reconstruct.rs`, `solution_values.rs`) | source plans, values with presence bits | capture, project, normalize, iterate | stale plans, presolved rows, partial answers | values belong to the entities asked for; claims follow what was read |
| GDP (`oximo-core/gdp.rs`, `oximo-gdp`) | records of disjunctions, plan, generated rows, locks | register, seal, reformulate, solve | bounds, nested disjunctions, failing plans | rows equivalent to the disjuncts |
| Automatic differentiation (`oximo-autodiff`), POUNCE's oracle | tapes, slots, patterns, seeds, places of quadratic entries, parameter values | build, refresh (all, selected, snapshot), evaluate | coefficients that cross zero under kept patterns; columns that share a product | values and derivatives of the current functions; every entry recovered |
| Macros, prelude | none | syntax | none at run time | not modelled |

Building. Expressions push nodes to the arena of their model; indexed families of constraints run the
caller's rule in parallel, on forks of the arena that are merged when the pool has finished.

Interactions. An adapter calls `LoweringContext::new` (cold) or `PersistentPreparation::prepare`
(persistent). Both read the registries through `Ref`s, so while a context lives the constraints
and the objective cannot be edited (a write panics), but bounds and parameters can. Lowering runs
on a thread pool, and its threads share the extraction cache and the workset of one preparation.
Results carry the model id and parameter snapshot they were computed with, and are projected back
over the lineage of forks to the model that asked.

Behaviours that are hard and present: sharing with copy on write, interleaved threads on bounded
caches, blocking on `OnceLock`s, abandoned operations (panics unwinding through an adapter), native
errors after part of an update, rejections that keep state, and long sequences of legal edits.
Behaviours that are absent: nothing is persisted and no messages are exchanged, so there is no
crash recovery or unreliable delivery to model.

## 2. Modules

    IndependentModels   <=  ModelRegistry                    (proofs: ModelProofs)
    ModelEdits --- Reformulations                            (proofs: ModelProofs)
    PreparedModel --- ResidentPreparation                    (this and the next two:
         |                 |--- PreparationLifecycle          ResidentProofs)
         \--- ColdSolve <= HighsPersistent
    DeclaredConstraints <=  ConstraintRecords                (proofs: RecordsProofs)
    GdpForest                                                (proofs: ModelProofs)
         \--- GdpPlan --- Gdp                                (GdpPlan: also on GdpLogic)
    ArenaBatch                                               (proofs: ArenaBatchProofs)
    Expressions --- Derivatives                              (with the next two in MCExtraction)
    ExtractionCache, QuadraticWorkset                        (proofs: ExtractionProofs, WorksetProofs)
    SourceModels --- MosekTask, ClarabelProblem, HighsProblem, GurobiNative, ScipProblem,
         |           GamsProgram, BaronProgram --- Adapters
         \--- LpFile, MpsFile, NlFile --- ModelFiles
    Projection                                               (proofs: ProjectionProofs)
    SolutionMap <= SolutionValues                            (with the last three in MCInterfaces)

`A <= B` reads "B implements A" (a refinement checked by TLC, for the first three also proved).
Modules named `MC...` give the constants of the runs; ModelRegistry, PreparationLifecycle,
HighsPersistent, ConstraintRecords, Reformulations and Gdp are checked as they are, with a
configuration of the same name, the last three on instances that they define at their end.
**Queues** has the sums and sequences that both caches use, and lemmas about them and about lists of
anything that several proofs share.

PROJECT.json maps definitions to the lines they translate. A helper whose lines lie within those of
a mapped definition of its module has no row of its own where it stands for no decision of the code.

### Storage and change detection

* **ModelRegistry** models `SharedCell`: `storage[<<m, r>>]` is the `CellStorage` of registry `r` of
  model `m`, `heap` the contents of `Arc`s, `revision` the counter beside it, `reading` the cells
  with an outstanding `Ref`. `Write` is a whole `borrow_mut` with the assignment through the guard:
  it panics (is disabled) under a `Ref` or at the last revision, detaches when the allocation has
  another owner, and may leave the value alone, as a method that fails its validation does. `Fork`
  is `clone_preserving_ids_with_capacity`, including the copy of cells that are being read (their
  revisions restart) and the registries it borrows mutably to reserve capacity. `Snapshot` is
  `SharedCell::snapshot`. `baseline` is a history variable: the update key and the contents at
  the time `__update_key` was called. A registry that a fork copies outright (`objective`) is
  the case of a registry being read at the time of the fork. **IndependentModels** is the promise:
  models own their registries, snapshots never change.
* **PreparedModel** is the model as resident preparation sees it, and its edits. The terms of an
  expression are the pair of the expression and the values of the parameters below it, so that a
  decomposition computed with other values is a different one. `Quadratics` have degree two; a
  quadratic row has the diagonal cone shape unless its coefficients vanish, and is then a detected
  cone if the lower bound of its bound variable is not negative. `revision` stands for the whole
  update key; that a single counter is enough is what ModelRegistry shows.
* **ResidentPreparation** translates `PersistentPreparation` as operators on its state, in the
  order of the code: recover from an abandoned context, compare with the baseline, refresh the
  resident caches, resolve the variables, refresh the kind. The two maps of `ResidentExpressions`
  are always filled and invalidated for the same roots and are one map here.
  **PreparationLifecycle** runs these operators under arbitrary edits, contexts used to different
  depths, commits, clears and contexts abandoned without either.
* **ColdSolve** says which native problem a set of terms gives and is the specification that every
  persistent handle is meant to implement: each solve answers with the cold answer of the current
  model, or an error, and nothing else is visible. **HighsPersistent** composes
  ResidentPreparation with the HiGHS handle: the resident instance, the `Snapshot` and Hessian it
  diffs against, in-place update, rebuild, rejection, failure, reset. HiGHS itself is
  deterministic: it answers with the problem it holds. That an empty Hessian leaves the old one in
  place is modelled, as the code's comment states of the library.

### The model and its rewritings

* **ConstraintRecords** is the storage of constraints: five native registries, the semantic
  registry with its implicit scalars, runs, overrides, extension table and compressed origins, the
  name table, indexed groups, and the views of inactive or alternative rows. Every operation is an
  action with its failing paths: duplicate names, frozen rows, refused functions, and a panic under
  a held `Ref` half way. **DeclaredConstraints** is the plain list of declarations it implements.
* **ModelEdits** models declarations, bounds (constants or parameters), fixing, assignments of
  one or several parameters with the arena's own bound checks, and the cached problem class.
  **Reformulations** adds SOS and indicator constraints with their plans, Big-M amounts, generated
  rows, and what is frozen afterwards. `RowsMatchSource` compares sets of points over a grid.
* **GdpLogic** has interval bounds of bodies and the linear rows of logical constraints,
  **GdpForest** registration, pending work and sealing, whatever the records are made of, **GdpPlan**
  the plan of a reformulation (boxes, locks, Big-M rows, and the perspective rows of Hull with copies
  and weights), and **Gdp** the reformulation itself: Big-M (hierarchical tightening included), Hull, mixed forests, inclusive disjunctions, what
  a failing plan leaves. `GeneratedRowsAreExact` compares points again, the copies projected out.
* **Expressions** is the operator algebra of `oximo-expr` (flattening, folding, compaction around
  parameters, eager polynomials), classification, the linear and quadratic extraction with their
  fast paths, captured expressions and evaluation. Numbers are the integers modulo 7 with a sign,
  so that identities are exact and division is total.

### Threads

* **ExtractionCache** is one shard of the bounded caches, with the admission slots in front. A
  thread's step is one lock section or one atomic operation. **QuadraticWorkset** is one shard of
  the workset: registration, `OnceLock`s, reservation, eviction that skips pending roots,
  publication.
* **ArenaBatch** models `ExprArenaCell` and an indexed builder on top of it. A call is three steps at
  most: the load of the word (`OutsiderCall`, `RuleCall`), for a batch the `fetch_or`, and the
  mutex. Guards are dropped in two steps, the bit first. `fork` is the list `ACTIVE_FORKS` of each
  thread, which has at most one entry for this arena; `snapshot` is the frozen arena that every fork
  clones, `local` the nodes each fork has on top. `handles` is a history variable: identifiers
  given out with the terms they were given out for. A chunk may run on the builder's own thread,
  as the PSD builder does for small families. Panics return to the caller, who may keep its guards.

### Derivatives

* **Derivatives** is `oximo-autodiff` over the nodes of Expressions, and the reuse of its evaluator by
  the POUNCE handle. `Compile`, `CompileWeighted` and `LowerMany` lower roots to tapes,
  `StructuralSparsity` walks the active nodes, `GreedyColoring` and `Recover` are the star coloring
  and the way entries are read off products, `SplitAt` and `Tasks` share units among workers. The
  state is a model (`shape`, the roots of its functions, and `setting`, the value of its parameter),
  the resident `oracle` and the model it was last `prepared` for. An oracle is built (`New`), or
  refreshed in one of three ways that accept differently: `TryRefresh` compares all patterns,
  `RefreshParams` leaves them to its caller, the handle's `Solve` takes what `try_reuse` takes
  (nothing new, selected slots, or a build). The derivative engine is external: second derivatives
  are differences of values, exact for the polynomials of the arena; at kinks the branch that the
  tape takes is differentiated. Patterns kept as bits or as lists are one set here.

### Borders

* **SourceModels** is a prepared model with every number resolved: variables with domains, an
  objective, rows, cones, matrices, indicators and ordered sets, and what it means at a point
  (feasible, objective value). It also has what adapters ask of the parameter dependency index, the
  names of a model in files, and what it means that a file kept a model.
* **MosekTask, ClarabelProblem, HighsProblem, GurobiNative, ScipProblem** each say which native
  problem the adapter builds for such a model, what its incremental paths do to a resident one, and
  how multipliers and answers are read off it. **GamsProgram** and **BaronProgram** say which
  program is written and how positions and names in its result files are read back. **Adapters**
  is the state machine over them: a handle solved again and again while the parameter moves, the model
  is exchanged for a structural variant, a callback adds lazy rows, a solve is refused or fails, the
  handle is reset. `native` is what the solver holds, `base` what the adapter remembers of it.
* **LpFile, MpsFile, NlFile** are each a writer from models to statements and a reader back, refusals
  included; **ModelFiles** writes and reads one after the other.
* **Projection** has lineage, source plans, capture, projection of points, duals and claims, and the
  GDP solve wrapper with callbacks that declare variables. Every declaration has an identity the
  code never sees, so that a value attributed to the wrong coordinate shows.
* **SolutionValues** is the table of values with presence words and its double-ended iterators;
  **SolutionMap** the partial map it implements.
* **MCInterfaces** runs the four machines of this group in one specification (a behaviour exercises
  one of them), **MCExtraction** likewise Expressions, Derivatives and the two caches.

Definitions under a comment `Fault:` are deliberately wrong variants of the definition that follows
them (a plausible slip in that code). Nothing uses them; they document what each property would
catch, and PROJECT.json pairs each property with the variant that violates it.

## 3. Runs

| Run | Question | Bounds, and why they are enough |
|---|---|---|
| `registries` | Is shared storage invisible, and is the update key sound? | Three models (a fork of a fork, or two forks of one), two `Arc`s, one snapshot, two values, revisions to 2. A violation needs a cell, a second owner and a write; the third model lets an allocation be shared after its first owner has gone. |
| `preparation` | Is a resident context what a context built from scratch would be, and is every difference reported? | Two parameters, one variable, two rows, an affine and two quadratic expressions sharing parameters; one structural edit after any starting model, any number of parameter edits. The starting models are all of them, so the one structural edit connects any two structures. |
| `highs` | Does the persistent HiGHS handle answer as a cold solve does? | Two parameters, one variable, one row, objectives affine, quadratic with a Hessian that may vanish, and maximized; two structural edits. |
| `arena_batch` | Do parallel and ordinary construction share the arena without deadlock, and is the merged family the sequential one? | Two outside threads with two calls each, so that a call, a guard or a batch of one meets a batch of the other, two workers, three keys in chunks of two (the second chunk is short). |
| `arena_batch_rejects` | Is an access during a batch rejected and never made to wait? No: a violation, see below. | The same. |
| `records` | Do records, rows and lookups agree through registrations and edits? | Three constraints of all kinds and four calls: the smallest number at which a run is split, an override is inside a run, and a record follows an edit of one before it. |
| `edits` | Is the class current, and do generated rows keep their source's points? | Three edits of every kind after every starting model of four variables, a row, an SOS and an indicator: an edit, a rewriting and an edit of what it froze. |
| `gdp` | Do generated rows say what the disjuncts say? | Seven scenes (nested, logic, hull, quotients, an inner disjunction, inclusive, standalone), two reformulations each with edits and registrations anywhere between; values -4..4. |
| `extraction` | Does an expression keep its meaning through rewriting and extraction, is a kept derivative oracle that of the model as it is, and do threads share extractions safely? | Nine models over 34 nodes, of every kind of slot, whose coefficients vanish, appear and cancel between functions, at every value of the parameter, compared at two points and all neighbours; every pattern on five columns (the smallest on which paths of four vertices overlap), with any one seed heavy and any number of workers. Up to six handles over two variables, a parameter and the numbers modulo 7, thresholds of eager folding at 1 and 3 so that both sides are met; two threads on shards of two entries and three roots, budget two, with values that fit together, evict, fail, or never fit. |
| `interfaces` | Is the model that crosses a border the model that arrives? | Seven adapters on nine scenes, three structural variants and three parameter values (the numbers -- zero included -- at which a coefficient vanishes or a bound moves); three models with at most three items and five steps before the result; tables of four slots in presence words of two bits; two reads of files in a row. |
| `ascii_rejects` | Are both NL encodings accepted? No: a violation. | The files of `interfaces`. |
| `gams_rejects` | Does every GAMS script declare what it reads? No: a violation. | The scenes of `interfaces`. |

Counters (`revision`, `parameterRevision`) are capped (`MaxRevision`, `MaxParameterRevision`): in ModelRegistry this is the overflow check of the
code itself with a small limit, elsewhere it bounds the number of edits. Deadlock checking is off
where a bound on revisions, models, calls or reads may stop the system. In ArenaBatch threads have
`MaxCalls` calls and then stop; that nobody waits for ever is the liveness property there.

Fairness is assumed in two modules. QuadraticWorkset: weak fairness of each thread's steps. The threads
belong to a rayon pool and run until their call returns, and a step that is enabled stays enabled
until taken; a thread blocked on a `OnceLock` has no enabled step, so nothing is assumed of it. No
thread is ever forced to make a call. ArenaBatch: weak fairness of a thread inside a call, of rules
that push their nodes, of pool threads that find a chunk, and of guards being dropped (they are
scoped values); strong fairness of taking the mutex, since parking_lot unlocks a contended mutex
fairly from time to time, so that no thread is overtaken for ever.

## 4. Properties

* `KeySound`: a model whose revisions equal those of a recorded key has the recorded contents. A
  write to another model through shared storage would break it without advancing any revision of
  this one. `GuardedStable`: no fork, snapshot or write of any model moves or changes what a `Ref`
  points to. `ImplementsIndependentModels`: the refinement.
* `ContextIsFresh`, `CacheIsFresh`, `ChangeIsComplete`: variables and kind, cached decompositions, and
  the reported change, against the model itself.
* `ResidentMatchesBaseline`: while the model is as it was at the last commit, the HiGHS instance is the
  problem a cold solve would build. `ImplementsColdSolve`: the refinement.
* `BitsMatchGuards`, `WaitersHoldNothing`, `RoutingEndsWithRule`, `ForksAreCurrent` (ArenaBatch): the
  word, the mutex and the thread-local lists agree; nobody waits for itself; panics leave no fork;
  nothing is written under a batch. `HandlesDenote`, `ParallelMatchesSequential`: identifiers mean
  what their builder meant, and the merge equals building the keys in order. `CallsAndBatchesEnd`.
* `RowsLowerRecords`: every record that is put together from the tables is the one whose row the
  solvers read. `LookupsAgree`: names and indices find the record they were given, and no other,
  also after a rejected call. `ImplementsDeclaredConstraints`: the refinement.
* `KindIsCurrent`: a cached class is the class of the current numbers. `RowsMatchSource`: the rows
  generated for an SOS or an indicator have its points, whatever was edited since.
  `BoundsStayFeasible`: bounds never cross or leave their domain, in particular after a batch of
  parameters of which the second is refused.
* `GeneratedRowsAreExact`: over the Booleans and the variables of the model, the generated rows admit
  the points the disjuncts admit; it also says that what the rows rest on has not moved.
  `PendingMatchesRecords`: what counts as pending is what the records say, also after a plan that
  fails, and what a record rests on is sealed when it is done. `SealedDisjunctsStay`: a disjunct that
  was reformulated gets no row, logical constraint, child or owner.
* `MeaningIsKept`: every expression evaluates to what the operators that built it mean, at every
  setting of the parameter, also a later one. `TermsAreExact`: linear, quadratic and
  affine-plus-residual decompositions and the class agree with evaluation.
* `OracleIsCurrent`: an oracle accepted for the model as it is has this model's values, gradients and
  supports, and the Hessian it assembles is that of the Lagrangian, with nothing outside its
  structure. That the membership of the nonlinear slots is compared as well (refresh.rs:51) is not
  needed for it: extraction fails for a function at every value of its parameters or at none.
  `EntriesAreRecovered`: each entry of a pattern is read off one product, in a row where it meets no
  other column of the group; groups are disjoint, so that the code's fall-back to a product of its
  own for an entry never happens; and shares of work are a partition without empty parts.
* `QueuesAccount`, `SuccessSticks`, `CallsReturn`: order queue, map and sum of both
  caches agree and keep their bounds; a root that is being extracted is registered and reserved by its
  initializer only; a published term is not replaced by a failure or another copy; every call returns.
* `ResidentMeansModel`: whatever an adapter did, the native problem has the points, objective and
  types of the model as it is. It includes that the lazy rows of callbacks are those of the
  current model. `MultipliersReachTheirSource`: multipliers at a native optimum are collected, with their
  signs, at the constraint they came from. `AnswersAreSupported`: status, point, bound, pool and
  multipliers of an answer do not exceed what the solver's report supports.
  `CertifiedPricesAreOptimal`: prices SCIP certifies satisfy the optimality conditions.
* `ProjectedCoordinatesAreTheSources`: a projected value is that of the declaration asked for.
  `CertificatesFollowIncumbent`: duals, gap and optimality are passed on with the incumbent they
  belong to only. `WrapperKeepsOwnCoordinates`: the GDP wrapper returns all coordinates of the source
  and no generated one.
* `FilesKeepTheModel`: the model read is the model written, up to names the format cannot say; a
  refusal is one the format calls for. `ImplementsSolutionMap`: the refinement.

Many more slips than the paired ones were tried on the modules of the borders and of GDP. Some 45 in
writers and readers of files, 30 in the two programs, 28 in the reading of answers, and the adapters'
incremental paths one by one, all violate the property of their group. `GeneratedRowsAreExact` also catches: hierarchical bounds
from the own term only, swapped ends of a Big-M row, a semicontinuous variable without its zero, a
selection row without the parent, `AtMost` off by one, a missing perspective correction, an
aggregation that is not shifted, and rows delivered to the block outside.

Three runs show disagreements with what the repository says of itself:

* `AccessRejectedDuringBatch`. The documentation of `borrow` and `__with_fork` says that
  an access from outside is rejected while a batch is active instead of waiting for its lock. The
  word is read before the mutex is taken and not again: a call that reads it just before a batch
  starts waits until the batch ends. For threads outside the pool this only delays them. If the calls
  come from the pool's own threads and all of them wait, the batch waits for them in turn; the model
  keeps pool threads to the batch, so this consequence is not among the runs.
* `EncodingsAreAccepted`. The ASCII NL reader takes the bound of a record of kind 1 from its third
  field, the writer writes two.
* `ScriptsCompile`. A GAMS script with a free or deactivated row reads `eq_c{i}.m`, while such a row
  is declared as `eq_c{i}_lo` and `eq_c{i}_hi`. In the pass run `ResidentMeansModel` is about what the
  equations mean, so these scenes are in it too.

Observed while modelling, and kept in the model as the code has them:

* Formats lose some models. MPS reads an integer column without bounds back as [0, 1] when it was
  [0, inf) (mps.rs:1520 against 270-279), and a full matrix with repeated entries adds up (mps.rs:728).
  LP writes a binary whose bounds were narrowed as a plain binary (lp.rs:1289), cannot label a row and
  an indicator of the same name, and cannot read back indexed names such as `x[1]`. NL does not write
  the constant of a nonlinear objective (nl/segments.rs:157-161), returns a nonlinear binary as an
  integer in [0, 1], and refuses sidecar names in which a row has the model's name.
  `LpKeeps`, `MpsKeeps` and `NlKeeps` name the models that
  `FilesKeepTheModel` excepts for this.
* `fix_var` of a semi-continuous variable (variables.rs:236-261) leaves a threshold above the fixed
  value: HiGHS (translate.rs:142-145) and Gurobi (translate.rs:842) take the threshold for the lower
  bound, SCIP (translate.rs:438) still allows zero and the value.
* `quadratic.rs:425` refuses every power whose exponent is not 0, 1 or 2, also of parameters and
  constants, which its documentation (594-595) counts as numbers.
* MOSEK restores the sign of multipliers of matrix cones for maximization (translate.rs:709-715) and
  not that of second-order cones (808-822). A MOSEK row that was a row stays one when a parameter
  makes it cone-shaped.
* HiGHS may claim a feasible point with no multipliers when its point is infeasible and its dual
  solution feasible (oximo-highs translate.rs, `extract_result`). The GAMS README (168) says
  `best_bound` is never set, the adapter reads it from `OBJEST` (translate.rs:384-387).

## 5. Proofs

Every theorem holds for any values of the constants that satisfy the named assumptions of its modules;
the prover checks each of them to the last leaf. Where a theorem states a property of section 4, the
run shows it on an instance, the theorem on all.

**ModelProofs, registries** (any models, registries, values, allocations, handles, revision limit; `Empty`
is a value, `None` is neither an allocation nor a value, the limit is a natural number):

* `TypeCorrect`: `RegistrySpec => []TypeOK`.
* `UpdateKeysAreSound`: `RegistrySpec => []KeySound`. KeySound alone is not inductive: a write advances
  a revision past the recorded one, but another record could hold a revision that is reached later
  with other contents. The strengthening `KeyInv` says that no recorded revision is ahead of the
  registry's current one. The other half of the argument is that a write reaches no cell but its
  own, because a shared allocation is written in place only by its sole owner.
* `GuardsAreStable`: `RegistrySpec => GuardedStable`, from the same invariant.
* `CopyOnWriteIsInvisible`: `RegistrySpec => ImplementsIndependentModels`: initial states map to initial
  states, and each action to the abstract action of the same name or to a stutter (reads and
  `CaptureKey`). It rests on one lemma per action on how `Content` changes.

**ModelProofs, edits** (any names, numbers, limits and Big-M amounts; `HugeAssumption`: the stand-in for
infinity is larger than every number a caller writes). The specification starts from the instance's
models, but the induction does not use them: `StepKeeps` shows that a step of `Next` keeps the
invariant for any bounds and parameter assignments that name declared parameters (`Inputs`) and any
number of variables, parameters, rows, sets and indicators. The invariant `StepInv` joins

  * `EditInv`: the lists have their shapes (`Shape`), the arena's two maps are exactly the bounds of the
    variables behind parameters (`BoundIndexExact`), and every variable's bounds are valid;
  * `SourcesShape`, `RowsShape`: sets and indicators range over declared variables;
  * `LocksInv`: the parameters that bound a frozen variable are locked;
  * `KindIsCurrent` itself.

`BoundsStayFeasible` needs the exact index: a batch of parameters is checked against the index only,
so one entry lost by an earlier edit would let a batch cross some bounds. Every action has a lemma
`...Step` with the conclusion `Kept` (the invariant again, and what the step does to frozen variables).
The variables that several rewritten sets add are a recursive function (`WithActivations`); that it
only appends feasible variables without parameters is an induction over the sets (`ActivationsExtend`).

* `BoundsAreFeasible`: `Spec => []BoundsStayFeasible`.
* `KindsAreCurrent`: `Spec => []KindIsCurrent`. The class is a function of variables, rows, objective
  and active sets; a step that changes one of them forgets the class, or advances the revision.
* `EmbeddedBoundsStay`: a frozen variable stays frozen and keeps its effective bounds in every step.
  This is what the generated rows rest on; that the rows have the points of their source
  (`RowsMatchSource`) compares sets of points and stays with TLC.

**ModelProofs, disjunctions** (any number of items, any bodies and expressions). The theorems are about
`ForestSpec`: GdpForest by itself, where anything may be registered at any time and a reformulation may
finish whenever something is pending. Gdp adds the plan, which leaves these variables alone or ends in
`Finish`, so each of its steps is a step of the forest; that is seen from Gdp's actions, which are
conjunctions with those of GdpForest, and not proved, since Gdp reaches RECURSIVE operators.

* `PendingIsExact`: `ForestSpec => []PendingMatchesRecords`, and `SealedIsFinal`: `ForestSpec =>
  SealedDisjunctsStay`. The invariant `FInv` joins the shapes of the records with starts that do not
  pass the lists. Registration appends behind the starts, with a guard on the disjunct it puts
  something into; only `Finish` seals, and it seals all that the pending records name.
* `OwnersAgree`: a Boolean is a branch of at most the disjunction that it names as its owner, and has
  that disjunction's parent (`OwnersMatch`).
* `NestingIsFinite`: `ForestSpec => []DisjunctsNest`: the loop over the disjuncts around a disjunct
  (gdp.rs, `while let Some`) ends and never meets the disjunct again. `Ancestry` is a recursive
  function that exists only if nesting has no cycle, so the invariant speaks of depths: every Boolean
  can be given one greater than its parent's (`NestingEnds`). To register a disjunction is to make all
  that lies in its branches deeper by one more than the greatest depth so far. That keeps the parent
  where it is because the code refuses a parent that lies in one of the branches.

**ResidentProofs**, about PreparationLifecycle and HighsPersistent (any parameters, values,
variables, rows, expressions and dependencies; zero is a value, an absent baseline is not a baseline,
and the further name assumptions of PreparedModel and HighsPersistent). Both rest on the same lemmas, which say what each operator
of ResidentPreparation leaves when the preparation it starts from `Describes` an earlier state `n` of
the model: the baseline is that of `n`, the dependency map and admitted roots are those of `n`'s
structure, every cached decomposition is that of the parameters in `n`, cones and kind are those found
in `n`. `Earlier(n, model)` ties the two: if the revisions are equal, so are objective,
expressions, active rows and declared bounds, and only the values of parameters may differ.

* `ContextsAreFresh`, `CachesAreFresh`, `ChangesAreComplete`: the three invariants of PreparationLifecycle.
  None is inductive. `LiveInv` says of a live context that its preparation describes it and that the
  reported change is complete against the last commit; `SettledInv` says of a preparation without a
  live context that it describes what was committed. A context abandoned half way leaves neither,
  which is why `prepare` has to recover first.
* `ResidentIsTheModel`, `HandleImplementsColdSolve`: `ResidentMatchesBaseline` and the refinement of
  ColdSolve by the HiGHS handle. No variable of the handle remembers the model `n` of the last committed
  solve, so the invariant is existential: for some `n` the preparation describes `n` and the instance,
  the snapshot and the Hessian are those of `n`. An update in place gives the problem of the model
  as it is, because what the change does not name is equal in `n` and the model.

**WorksetProofs** and **ExtractionProofs** (any threads, roots, cells, sizes, budgets and limits), on the
lemmas of **Queues** about sequences without repetition and their sums. The sum is a recursive function;
its recursion equation is proved, and induction comes from `SetInduction`, which needs no operator as
a parameter: a set that holds 0 and the successor of each number in it holds every natural number. Each theorem has the hypothesis
`ConstantsAreApart` where an accident of naming matters (an absent cell is not a cell, a thread is not
the word "ready", sizes are natural numbers, a queue can hold one entry). It is an operator, since the
modules are used through instances; MCExtraction states it of both as an assumption, which TLC evaluates.

* `WorksetAccounts`, `InitializersOwnTheirRoots`: order queue, map and running sum of the workset agree
  within the budget, and no root is taken from the thread that extracts it. The invariant says which
  cells have one owner (`OwnCells`), what a waiting, extracting or publishing thread holds (`Holding`,
  `Pending`), and that a root is queued exactly from its reservation to its eviction (`InQueue`).
  Eviction is a scan that skips pending roots; its own invariant (`Scanning`) relates what was dropped,
  kept and not yet seen.
* `ShardAccounts`, `PublishedTermsStay`: the same accounts for the extraction cache, from which it
  follows that an insertion always finds an entry to evict, and that a published term stays.

These are the conjuncts of `QueuesAccount` and `SuccessSticks`, which the run `extraction` checks of the
composed machines. The composition itself is not the subject of a theorem: MCExtraction reaches
modules with RECURSIVE operators, where the prover has no SMT backend.

**ArenaBatchProofs** (any threads, workers, chunk sizes and numbers of keys and calls; at least one key, chunks
not empty, outside threads are not workers):

* `BitsAreExact`, `NoWaitForOneself`, `RoutingEnds`, `BatchIsIsolated`: the four control invariants of
  ArenaBatch. They are inductive together, with two additions (`IInv`): `CallsFitGuards` bounds how
  far a call gets given what its thread holds (a thread with a batch or a fork passes the load when
  it begins a batch, and only `fetch_or` stops it), and `ChunksAreLive` ties chunks that are not
  finished to a batch in force and an unchanged arena. There is one lemma per action, with one step
  per conjunct.
* `HandlesKeepTheirMeaning`: `Spec => []HandlesDenote`, and `ParallelIsSequential`: `Spec =>
  ParallelMatchesSequential`. A fork holds the nodes that its rules pushed for the keys of its chunk, in
  order (`ForksHoldRules`, which `DInv` joins with the shape of the nodes and the handles); the term of a node does not change when nodes are appended behind it; and each
  step of the merge appends what the sequential builder appends for the same keys, with identifiers
  moved by the same amount. The recursion over forks and keys is handled with the lemmas of Queues.

**RecordsProofs** (any declarations, ranges, functions, sets, origins and limits, as long as a declaration
has the fields of its kind, the two names of a range differ, and the number of constraints stays below the
two words that stand for special origins, as `store_origin` asserts):

* `RecordsLookupsAgree`: `Spec => []LookupsAgree`, `RecordsRowsLowerRecords`: `Spec => []RowsLowerRecords`,
  and `RecordsImplementDeclarations`: `Spec => ImplementsDeclaredConstraints`.

None of the three is inductive, since each table is right only as long as the others are. The invariant
(`IInv`) is built from the storage up. `RunsFit` says that the runs of entries partition the positions and
that an override keeps the id of the entry below it. `IdRunsFit` says the same of the runs of ids, one list
for each kind, and `EntriesFit` that the two are inverse: every id has one position, which holds it.
`TablesFit` adds that no two entries refer to the same slot of the extension table, which is what makes an
edit of one constraint leave the others alone, and that compressed origins stay within their list. `RowsFit` relates a row to the
`Reading` of its entry: `Lowers` says that the row, or the view parked for it, is the lowering of the record
that entry, extensions and origins give. `NamesFit` says that a name's ids are the constraints that bear
it. `CursorFits` keeps the run that a cursor caches the one its end stands in.

The argument then has one lemma per operation at each level: an entry pushed joins the last run or starts
one (`PushedEntry`), a run of ids inserted in the middle joins at most one neighbour (`InsertedRun`), an entry replaced keeps
its id (`WithRecordFits`, `WithOriginFits`), one declaration registered is read back as it was written
(`DeclaredReads`, `RegisteredFits`), and each editing call makes exactly one new record (`Edited`). A call
that registers a batch is one or two registrations (`BatchRegistered`); a range registers plain rows
first and gives them their origins afterwards, which comes to the same (`RangeAdds`). For the refinement the
list that a reader rebuilds is read off position by position (`AddedRecords`, `ChangesRecord`); that a kind has
as many constraints as rows (`CountIs`) is a bijection between its ids and their positions.

**ProjectionProofs** (any models, lengths of registries, numbers of steps, and transforms of the objective;
`ConstantsAreApart`: the first model is a model, and the owner that stands for NaN is not one, which
MCInterfaces states as an assumption):

* `ProjectionReadsTheSource`: `Spec => []ProjectedCoordinatesAreTheSources`, `CertificatesStayWithTheIncumbent`:
  `Spec => []CertificatesFollowIncumbent`, and `WrapperAnswersInOwnCoordinates`:
  `Spec => []WrapperKeepsOwnCoordinates`.

The properties are about the step that projects, so the invariant (`IInv`) is about what that step relies on.
`LineageInv`: a model agrees, registry by registry, with every ancestor it remembers on the prefix it
inherited, and the chain of an ancestor is as long as what follows it in the chain it is found in. The second
half is why aligning two chains at the root finds a common ancestor (`AncestorsShare`), and the first why what is
found is shared (`SharedAgree`, `Inherited`). Registries only grow (`Grows`), which keeps agreement
(`AgreeGrows`). `PlanInv` says that a captured plan is a prefix with retained variables, and `CacheInv` that
the wrapper's plan is `SourcePlan` of the model for as long as its key is the model's, so that a kept plan
and a new one are the same (`KeptIsCurrent`).

For a coordinate that passes `InheritanceCovers` the argument is then short: it lies in the inherited prefix, or
it is retained and the source has no such coordinate (`PlanIsInherited`); the clause about retained
coordinates is needed, since without it a variable generated in a branch would be read as one that the source
declared later. Which points survive is a recursive function (`Survivors`), and what is known of it
(`SurvivorsAre`) an induction over the points. For the wrapper, a plan that
is a prefix names exactly the caller's own variables, by a count: the generated ones fill the
end of the registry (`MembershipIs`). What the three theorems say of `outcome` holds of the registries after the
step, which a callback may have made longer (`OwnGrows`).

Model-checked only, for the bounds given: the invariants of Expressions,
Derivatives, the adapters and files; the refinement of SolutionMap;
`RowsMatchSource` and `GeneratedRowsAreExact`. What expressions, rows, programs and files mean is defined by folds over terms and
points of arbitrary size with operators as parameters, which the prover cannot instantiate, and several
of these modules declare RECURSIVE operators. `CallsReturn` and `CallsAndBatchesEnd` are liveness
properties and stay with TLC, since the prover has no support for `ENABLED`.

## 6. Not modelled

Left out of the modelled parts, with the reason:

* `LazySharedCell` (a cell that is filled once) and `SharedSlice` (immutable); hash collisions in
  fingerprints (64 bits); poisoned locks; panics between taking the live HiGHS model and putting it
  back; options of the native solvers and their persistence (documented as not reverting on HiGHS).
* The walk over shared expressions that builds the dependency index: what it answers is a constant of
  the models that use it.
* Re-entrancy of rules (`arena.rs:1088`): a rule that yields to rayon may be handed another chunk on
  the same thread. The model takes rules that stay on their thread until they return; which job a
  yielding thread is handed is up to the pool, which is outside the repository. This is the one
  hazard of the list with no property.
* Rounding: expressions are over a field, GDP bounds over the integers with quotients rounded outward,
  adapters over small integers. Properties about tolerances and about overflow to infinity are not stated.
* Lexical layers: number formatting, quoting, line lengths, word splitting in LP, MPS and NL; the
  printers of nonlinear expressions of GAMS and BARON; processes, directories and time limits.
* Gurobi's nonlinear general constraints, MOSEK and HiGHS callbacks, SCIP event handlers: solver-side
  hooks whose effects are the solver's own.
* Capabilities: descriptions without state. What an adapter accepts is in the `...Accepts` operators.
* POUNCE: the solver is numerical iteration; its dispatch (`hybrid.rs`) rests on
  numerical bound tightening and the search for several minima on distances. Of its handle, the
  convex problem and the sessions behind the oracle (warm starts, option fingerprints).
* Enzyme, and `evaluator.rs` where it only hands buffers to it. A parameter that is set and set back
  between two solves counts as unchanged in Derivatives; the code refreshes the slots and finds them
  equal.
* Macros and the prelude: compile-time syntax.

## 7. Plan

What is left, in this order:

1. The convex problem that the POUNCE handle refreshes, as one more adapter.
