----------------------- MODULE PreparationLifecycle ------------------------
(***************************************************************************)
(* The calls an adapter makes on its PersistentPreparation, interleaved    *)
(* with edits of the model, as far as they may go wrong: contexts that are *)
(* used to different depths, commits, clears after errors, contexts        *)
(* abandoned with neither, and edits while a context is alive.             *)
(***************************************************************************)
EXTENDS ResidentPreparation, TLC

VARIABLES context,    \* the model as the live LoweringContext captured it, or None
          committed   \* history: the model the committed baseline was prepared from

lifecycleVars == <<model, prep, context, committed>>

\* The adapter meets a model at any point of its construction.
LifecycleInit ==
    /\ model \in [objective : Roots \cup {Feasibility, Undeclared},
                  lhs : [Rows -> Roots], active : [Rows -> {TRUE}],
                  bound : [Vars -> Values \cup Params],
                  params : [Params -> {Zero}], revision : {0}]
    /\ prep = Cleared
    /\ context = None
    /\ committed = None

\* The context holds Refs to the constraints and the objective: while it lives,
\* only bounds and parameters can be edited.
LifecycleEdit ==
    /\ \/ /\ context = None
          /\ model.revision < MaxRevision
          /\ \/ \E o \in Roots \cup {Feasibility} : model' = SetObjective(model, o)
             \/ \E r \in Rows, a \in BOOLEAN :
                   /\ a # model.active[r]   \* set_constraint_active returns early
                   /\ model' = SetActive(model, r, a)
             \/ \E r \in Rows, root \in Roots : model' = SetFunction(model, r, root)
       \/ /\ model.revision < MaxRevision
          /\ \E v \in Vars, b \in Values \cup Params : model' = SetBounds(model, v, b)
       \/ \E p \in Params, x \in Values : model' = SetParam(model, p, x)
    /\ UNCHANGED <<prep, context, committed>>

\* Without a declared objective prepare returns an error and touches nothing.
PrepareContext == /\ context = None
                  /\ model.objective # Undeclared
                  /\ prep' = Prepare(prep, model)
                  /\ context' = model
                  /\ UNCHANGED <<model, committed>>

\* The adapter extracts the terms of a root through the context.
ReadRoot(root) == /\ context # None
                  /\ root \in ModelRoots(context)
                  /\ prep' = AfterReading(prep, context, {root})
                  /\ UNCHANGED <<model, context, committed>>

\* A successful solve.
CommitContext == /\ context # None
                 /\ prep' = Commit(prep)
                 /\ committed' = context
                 /\ context' = None
                 /\ UNCHANGED model

\* A failed solve, or a reset of the handle.
ClearPreparation == /\ prep' = Cleared
                    /\ context' = None
                    /\ committed' = None
                    /\ UNCHANGED model

\* A panic in the adapter drops the context and leaves the preparation pending.
Abandon == /\ context # None
           /\ context' = None
           /\ UNCHANGED <<model, prep, committed>>

LifecycleNext ==
    \/ LifecycleEdit
    \/ PrepareContext
    \/ \E root \in Roots : ReadRoot(root)
    \/ CommitContext
    \/ ClearPreparation
    \/ Abandon

LifecycleSpec == LifecycleInit /\ [][LifecycleNext]_lifecycleVars

-----------------------------------------------------------------------------
(* Properties *)

\* The variables and the kind an adapter reads from a resident context are those
\* of a context built from scratch, whatever was carried over from earlier solves.
ContextIsFresh ==
    context # None => /\ prep.pending.variables = ResolvedVariables(context)
                      /\ prep.pending.kind = ColdKind(context)

\* A decomposition served from the resident cache has the coefficients that the
\* context's own parameter values give.
CacheIsFresh ==
    context # None =>
        \A root \in DOMAIN prep.cache : prep.cache[root] = Terms(root, context.params)

\* Whatever PreparationChange does not name is as it was when the adapter last
\* committed: leaving it alone in the native model is right.
ChangeIsComplete ==
    context # None /\ prep.change # Full =>
        /\ committed.objective = context.objective
        /\ \A r \in Rows : RowRoot(committed, r) = RowRoot(context, r)
        /\ \A v \in Vars : ~ Contains(prep.change, BoundTarget(v)) =>
              ResolvedVariables(committed)[v] = ResolvedVariables(context)[v]
        /\ \A r \in Rows : ~ Contains(prep.change, RowTarget(r)) =>
              Terms(RowRoot(committed, r), committed.params)
                = Terms(RowRoot(context, r), context.params)
        /\ ~ Contains(prep.change, ObjectiveTarget) /\ HasObjective(context) =>
              Terms(committed.objective, committed.params)
                = Terms(context.objective, context.params)

-----------------------------------------------------------------------------
(***************************************************************************)
(* The instance TLC checks: two parameters, one variable and two rows,     *)
(* over an affine expression of one parameter, a quadratic one of the      *)
(* other and a quadratic one of both.  The bound may be either parameter,  *)
(* so a cone can be lost through its coefficients, its bound or both.      *)
(***************************************************************************)
LifecycleDeps == [root \in {"zero", "affine", "square", "mixed"} |->
             CASE root = "zero" -> {} [] root = "affine" -> {"p"}
               [] root = "square" -> {"q"} [] root = "mixed" -> {"p", "q"}]
LifecycleConeVar == [root \in {"square", "mixed"} |-> "x"]
RowSymmetry == Permutations(Rows)
=============================================================================
