--------------------------- MODULE HighsPersistent ---------------------------
(***************************************************************************)
(* HighsPersistent (crates/oximo-highs/src/persistent.rs): a HiGHS         *)
(* instance that stays loaded between solves.  A solve asks the resident   *)
(* preparation what changed, computes the snapshot of what HiGHS can take  *)
(* as a delta, and pushes the differences when the fingerprint of the rest *)
(* is the same; otherwise it rebuilds the instance.  Any native error      *)
(* drops the instance and the preparation.                                 *)
(*                                                                         *)
(* The fingerprint is the structure itself (no hash collisions), domains   *)
(* are continuous, and HiGHS solves the problem it holds.                  *)
(***************************************************************************)
EXTENDS ResidentPreparation

CONSTANTS Maximized,    \* objectives that are maximized, the others minimized
          Supported,    \* model kinds the solver takes
          Unsolved, Rejected, Failed

ASSUME LoweringAssumption == /\ Maximized \subseteq Roots
                             /\ Supported \subseteq {"LP", "QP", "QCP", "SOCP"}

VARIABLES state,    \* the handle's State: instance, Meta, Snapshot, Hessian; or None
          answer    \* what the last call to solve returned

Cold == INSTANCE ColdSolve

vars == <<model, prep, state, answer>>

Init == Cold!Init /\ prep = Cleared /\ state = None

Edit == Cold!Edit /\ UNCHANGED <<prep, state>>

-----------------------------------------------------------------------------
(* Operators on a preparation P that prepare(m) has just returned. *)

CostOf(P, m) == Cold!Cost(m, TermsRead(P, m))
HessianOf(P, m) == Cold!Hessian(m, TermsRead(P, m))
StructureOf(P, m) == Cold!Structure(m, TermsRead(P, m))

\* snapshot_prepared.
SnapshotOf(P, m) == [cost |-> CostOf(P, m), bounds |-> P.pending.variables,
                     structure |-> StructureOf(P, m)]

\* Fault: only a full change reads the rows again.
RowsChangeOnFull(P) == P.change = Full

RowsChange(P) == P.change = Full \/ \E r \in Rows : RowTarget(r) \in P.change.targets

\* refresh_snapshot: objective and bounds alone do not read the rows again.
RefreshSnapshot(P, m, base) ==
    IF RowsChange(P) THEN SnapshotOf(P, m)
    ELSE [base EXCEPT
            !.cost = IF Contains(P.change, ObjectiveTarget) THEN CostOf(P, m) ELSE @,
            !.bounds = [v \in Vars |-> IF Contains(P.change, BoundTarget(v))
                                       THEN P.pending.variables[v] ELSE @[v]]]

NextHessian(P, m) == IF Contains(P.change, ObjectiveTarget) THEN HessianOf(P, m)
                                                            ELSE state.hessian

\* HiGHS ignores an empty Hessian, so a solve that would clear one rebuilds.
ClearingHessian(P, m) == /\ Contains(P.change, ObjectiveTarget)
                         /\ state.hessian # None
                         /\ HessianOf(P, m) = None

CanUpdate(P, m) ==
    /\ state # None
    /\ RefreshSnapshot(P, m, state.snap).structure = state.snap.structure
    /\ ~ ClearingHessian(P, m)

PassHessian(native, hessian) == IF hessian = None THEN native
                                ELSE [native EXCEPT !.hessian = hessian]

\* Only the entries that differ from the last snapshot are pushed.
PushDelta(native, base, snap) ==
    [native EXCEPT !.cost = IF snap.cost # base.cost THEN snap.cost ELSE @,
                   !.bounds = [v \in Vars |-> IF snap.bounds[v] # base.bounds[v]
                                              THEN snap.bounds[v] ELSE @[v]]]

\* Fault: the parameter snapshot of the last build is kept.
UpdatedKeepingParameters(P, m) ==
    LET snap == RefreshSnapshot(P, m, state.snap)
    IN [native |-> PushDelta(PassHessian(state.native, NextHessian(P, m)), state.snap, snap),
        offset |-> snap.cost, params |-> state.params,
        snap |-> snap, hessian |-> NextHessian(P, m)]

Updated(P, m) ==
    LET snap == RefreshSnapshot(P, m, state.snap)
        hessian == NextHessian(P, m)
        withHessian == IF hessian # state.hessian THEN PassHessian(state.native, hessian)
                                                  ELSE state.native
    IN [native |-> PushDelta(withHessian, state.snap, snap), offset |-> snap.cost,
        params |-> m.params, snap |-> snap, hessian |-> hessian]

Rebuilt(P, m) ==
    [native |-> [cost |-> CostOf(P, m), hessian |-> HessianOf(P, m),
                 bounds |-> P.pending.variables, structure |-> StructureOf(P, m)],
     offset |-> CostOf(P, m), params |-> m.params,
     snap |-> SnapshotOf(P, m), hessian |-> HessianOf(P, m)]

\* Roots a solve extracts on its way, for the resident caches.
RootsRead(P, m) ==
    IF ~ CanUpdate(P, m) \/ RowsChange(P) THEN ModelRoots(m)
    ELSE IF Contains(P.change, ObjectiveTarget) /\ HasObjective(m) THEN {m.objective}
    ELSE {}

-----------------------------------------------------------------------------
(* Calls on the handle *)

\* A preflight rejection leaves the resident state alone.
RejectSolve == /\ ~ Cold!Accepted(model)
               /\ answer' = Rejected
               /\ UNCHANGED <<model, prep, state>>

UpdateAndSolve ==
    /\ Cold!Accepted(model)
    /\ LET P == Prepare(prep, model) IN
         /\ CanUpdate(P, model)
         /\ state' = Updated(P, model)
         /\ prep' = Commit(AfterReading(P, model, RootsRead(P, model)))
    /\ answer' = [native |-> state'.native, offset |-> state'.offset, params |-> state'.params]
    /\ UNCHANGED model

RebuildAndSolve ==
    /\ Cold!Accepted(model)
    /\ LET P == Prepare(prep, model) IN
         /\ ~ CanUpdate(P, model)
         /\ state' = Rebuilt(P, model)
         /\ prep' = Commit(AfterReading(P, model, RootsRead(P, model)))
    /\ answer' = [native |-> state'.native, offset |-> state'.offset, params |-> state'.params]
    /\ UNCHANGED model

\* HiGHS refuses the problem, a delta, an option or the solve, after any of it.
FailSolve == /\ Cold!Accepted(model)
             /\ state' = None
             /\ prep' = Cleared
             /\ answer' = Failed
             /\ UNCHANGED model

Reset == /\ state' = None
         /\ prep' = Cleared
         /\ UNCHANGED <<model, answer>>

Next == Edit \/ RejectSolve \/ UpdateAndSolve \/ RebuildAndSolve \/ FailSolve \/ Reset

Spec == Init /\ [][Next]_vars

-----------------------------------------------------------------------------
(* Properties *)

\* While the model is as it was when the handle last committed, the instance is the
\* problem a cold solve would build, rejections and edits undone in between included.
ResidentMatchesBaseline ==
    state # None /\ prep.baseline.revision = model.revision
                 /\ prep.baseline.params = model.params
        => [native |-> state.native, offset |-> state.offset, params |-> state.params]
             = Cold!ColdAnswer(model)

\* Every solve through the handle is the cold solve of the model, or an error.
ImplementsColdSolve == Cold!Spec

-----------------------------------------------------------------------------
(***************************************************************************)
(* The instance TLC checks: two parameters, one variable and one row.  The *)
(* objective may be affine or quadratic in p (its Hessian vanishes when p  *)
(* is Zero), or maximized; the row and the objective may share the affine  *)
(* expression.                                                             *)
(***************************************************************************)
MCDeps == [root \in {"zero", "affine", "square", "gain"} |->
             CASE root = "zero" -> {} [] root = "affine" -> {"q"}
               [] root \in {"square", "gain"} -> {"p"}]
MCConeVar == [root \in {"square"} |-> "x"]
=============================================================================
