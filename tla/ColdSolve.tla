------------------------------ MODULE ColdSolve ------------------------------
(***************************************************************************)
(* What every persistent solver handle promises: each call to solve gives  *)
(* the answer of a cold solve of the model as it is then, or an error.     *)
(* No state survives a call.  The persistent adapters implement this.      *)
(*                                                                         *)
(* The native problem and the answer are what the adapter makes of a       *)
(* prepared model.  The native solver is deterministic here: an answer is  *)
(* the problem it was given, with what the adapter adds to it.             *)
(***************************************************************************)
EXTENDS PreparedModel

CONSTANTS Maximized,    \* objectives that are maximized, the others minimized
          Supported,    \* model kinds the solver takes
          Unsolved, Rejected, Failed,
          MaxRevision   \* bound on the edits that advance the update key

\* Each part takes the terms that the caller extracts for the roots.
Cost(m, terms) == IF HasObjective(m) THEN terms[m.objective] ELSE None

Hessian(m, terms) ==
    IF m.objective \in Quadratics /\ ~ HessianVanishes(terms[m.objective])
    THEN terms[m.objective] ELSE None

\* What no persistent interface can update in place.
Structure(m, terms) == [sense |-> m.objective \in Maximized,
                        rows  |-> [r \in Rows |-> terms[RowRoot(m, r)]]]

ColdAnswer(m) ==
    LET terms == ColdTerms(m)
    IN [native |-> [cost |-> Cost(m, terms), hessian |-> Hessian(m, terms),
                    bounds |-> ResolvedVariables(m), structure |-> Structure(m, terms)],
        offset |-> Cost(m, terms),    \* constant added back to the native objective
        params |-> m.params]          \* snapshot the result is evaluated with

\* The preflight: SolverProfile::check_model.
Accepted(m) == m.objective # Undeclared /\ ColdKind(m) \in Supported

-----------------------------------------------------------------------------
VARIABLES model, answer

Init == /\ model \in [objective : Roots \cup {Feasibility, Undeclared},
                      lhs : [Rows -> Roots], active : [Rows -> {TRUE}],
                      bound : [Vars -> Values \cup Params],
                      params : [Params -> {Zero}], revision : {0}]
        /\ answer = Unsolved

Edit == /\ \/ /\ model.revision < MaxRevision
              /\ \/ \E o \in Roots \cup {Feasibility} : model' = SetObjective(model, o)
                 \/ \E r \in Rows, a \in BOOLEAN :
                       /\ a # model.active[r]
                       /\ model' = SetActive(model, r, a)
                 \/ \E r \in Rows, root \in Roots : model' = SetFunction(model, r, root)
                 \/ \E v \in Vars, b \in Values \cup Params : model' = SetBounds(model, v, b)
           \/ \E p \in Params, x \in Values : model' = SetParam(model, p, x)
        /\ UNCHANGED answer

Solve == /\ answer' \in IF Accepted(model) THEN {ColdAnswer(model), Failed} ELSE {Rejected}
         /\ UNCHANGED model

Next == Edit \/ Solve

Spec == Init /\ [][Next]_<<model, answer>>
=============================================================================
