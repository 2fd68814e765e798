------------------------------- MODULE GdpForest -------------------------------
(***************************************************************************)
(* The disjunctive part of a model (oximo-core/src/gdp.rs): Booleans with  *)
(* their disjunctions, conditional rows and logical constraints, and what  *)
(* a reformulation records about them.                                     *)
(*                                                                         *)
(* Names of components are left out: registration refuses a known name     *)
(* before it changes anything.  Identifiers are positions, from one; zero  *)
(* stands for no disjunction and no parent.  The bodies and expressions of *)
(* records are those of GdpLogic; nothing here looks into them.            *)
(***************************************************************************)
EXTENDS Integers, Sequences, Functions

CONSTANT MaxItems       \* bound: Booleans, disjunctions, rows, constraints each

VARIABLES booleans,     \* records [owner, parent, sealed]
          disjunctions, \* records [branches, parent, kind, done]
          conditional,  \* rows of disjuncts: [indicator, body, lower, upper, done]
          logic,        \* records [expression, parent, done]
          starts,       \* pending_starts: how many rows, disjunctions and
                        \* constraints the last reformulation saw
          reports       \* number of reformulation reports

forest == <<booleans, disjunctions, conditional, logic>>

Kinds == {"ExactlyOne", "AtLeastOne"}

Open(b) == ~booleans[b].sealed

\* Fault: anything may still be put inside a sealed disjunct.
KnownParent(parent) == parent = 0 \/ parent \in DOMAIN booleans

OpenParent(parent) == parent = 0 \/ (parent \in DOMAIN booleans /\ Open(parent))

(* A Boolean with the disjuncts that contain it, nearest first.            *)
Ancestry[b \in 0 .. Len(booleans)] ==
  IF b = 0 THEN <<>> ELSE <<b>> \o Ancestry[booleans[b].parent]

Within(b, ancestor) == \E i \in DOMAIN Ancestry[b] : Ancestry[b][i] = ancestor

---------------------------------------------------------------------------
(* Registration.  A Boolean made in a disjunct's context needs the         *)
(* disjunct open, yet has no parent until a disjunction takes it.          *)

AddBoolean(context) ==
  /\ Len(booleans) < MaxItems
  /\ OpenParent(context)
  /\ booleans' = Append(booleans, [owner |-> 0, parent |-> 0, sealed |-> FALSE])
  /\ UNCHANGED <<disjunctions, conditional, logic, starts, reports>>

Adoptable(b, parent) ==
  /\ booleans[b].owner = 0
  /\ Open(b)
  /\ ~Within(parent, b)

RegisterDisjunction(branches, kind, parent) ==
  /\ Len(disjunctions) < MaxItems
  /\ branches # <<>> /\ IsInjective(branches)
  /\ OpenParent(parent)
  /\ \A i \in DOMAIN branches : Adoptable(branches[i], parent)
  /\ disjunctions' = Append(disjunctions,
       [branches |-> branches, parent |-> parent, kind |-> kind, done |-> FALSE])
  /\ booleans' = [b \in DOMAIN booleans |->
       IF \E i \in DOMAIN branches : branches[i] = b
       THEN [booleans[b] EXCEPT !.owner = Len(disjunctions) + 1, !.parent = parent]
       ELSE booleans[b]]
  /\ UNCHANGED <<conditional, logic, starts, reports>>

(* A disjunct's scalar constraint; a range with a symbolic side is two.    *)
RegisterRow(indicator, body, lower, upper) ==
  /\ Len(conditional) < MaxItems
  /\ Open(indicator)
  /\ conditional' = Append(conditional,
       [indicator |-> indicator, body |-> body, lower |-> lower, upper |-> upper,
        done |-> FALSE])
  /\ UNCHANGED <<booleans, disjunctions, logic, starts, reports>>

(* A logical constraint over known Booleans (check_logic: the caller's).    *)
RegisterLogic(expression, parent) ==
  /\ Len(logic) < MaxItems
  /\ OpenParent(parent)
  /\ logic' = Append(logic, [expression |-> expression, parent |-> parent, done |-> FALSE])
  /\ UNCHANGED <<booleans, disjunctions, conditional, starts, reports>>

---------------------------------------------------------------------------
(* What is pending: everything registered since the last reformulation.    *)

Lengths == [rows |-> Len(conditional), disjunctions |-> Len(disjunctions), logic |-> Len(logic)]

HasPending == Lengths # starts

PendingRows == (starts.rows + 1) .. Len(conditional)
PendingDisjunctions == (starts.disjunctions + 1) .. Len(disjunctions)
PendingLogic == (starts.logic + 1) .. Len(logic)

BranchSet(d) == {disjunctions[d].branches[i] : i \in DOMAIN disjunctions[d].branches}

\* Fault: the parents of the new disjunctions stay open.
TouchedButParents ==
  {conditional[r].indicator : r \in PendingRows}
  \cup UNION {BranchSet(d) : d \in PendingDisjunctions}

(* finish: the reported records are done, and every disjunct a generated   *)
(* row depends on is sealed, branches and parents included.                *)
Touched ==
  {conditional[r].indicator : r \in PendingRows}
  \cup (UNION {BranchSet(d) \cup {disjunctions[d].parent} : d \in PendingDisjunctions})
  \cup {logic[l].parent : l \in PendingLogic}

Finish ==
  /\ conditional' = [r \in DOMAIN conditional |-> [conditional[r] EXCEPT !.done = TRUE]]
  /\ disjunctions' = [d \in DOMAIN disjunctions |-> [disjunctions[d] EXCEPT !.done = TRUE]]
  /\ logic' = [l \in DOMAIN logic |-> [logic[l] EXCEPT !.done = TRUE]]
  /\ booleans' = [b \in DOMAIN booleans |->
                    IF b \in Touched THEN [booleans[b] EXCEPT !.sealed = TRUE]
                    ELSE booleans[b]]
  /\ starts' = Lengths
  /\ reports' = reports + 1

---------------------------------------------------------------------------
(* The forest by itself, whatever the records are made of and whenever a   *)
(* plan succeeds.  Gdp adds the plan.                                      *)

forestVars == <<forest, starts, reports>>

ForestInit ==
  /\ booleans = <<>> /\ disjunctions = <<>> /\ conditional = <<>> /\ logic = <<>>
  /\ starts = [rows |-> 0, disjunctions |-> 0, logic |-> 0] /\ reports = 0

Contexts == {0} \cup DOMAIN booleans

ForestNext ==
  \/ \E context \in Contexts : AddBoolean(context)
  \/ \E branches \in Seq(DOMAIN booleans), kind \in Kinds, parent \in Contexts :
       RegisterDisjunction(branches, kind, parent)
  \/ \E indicator \in DOMAIN booleans : \E body, lower, upper :
       RegisterRow(indicator, body, lower, upper)
  \/ \E parent \in Contexts : \E expression : RegisterLogic(expression, parent)
  \/ HasPending /\ Finish

ForestSpec == ForestInit /\ [][ForestNext]_forestVars

---------------------------------------------------------------------------
(* Properties.                                                             *)

(* The records that a reformulation will take are exactly those that are   *)
(* not done, and every disjunct a done record depends on is sealed.        *)
RowsMatch ==
  \A r \in DOMAIN conditional :
     /\ conditional[r].done <=> r \notin PendingRows
     /\ conditional[r].done => ~Open(conditional[r].indicator)

DisjunctionsMatch ==
  \A d \in DOMAIN disjunctions :
     /\ disjunctions[d].done <=> d \notin PendingDisjunctions
     /\ disjunctions[d].done =>
          \A b \in BranchSet(d) \cup ({disjunctions[d].parent} \ {0}) : ~Open(b)

LogicMatches ==
  \A l \in DOMAIN logic :
     /\ logic[l].done <=> l \notin PendingLogic
     /\ logic[l].done /\ logic[l].parent # 0 => ~Open(logic[l].parent)

PendingMatchesRecords == RowsMatch /\ DisjunctionsMatch /\ LogicMatches

(* What a reformulated disjunct was made of does not change any more: its  *)
(* rows, the disjunctions and logic inside it, and the one that owns it.   *)
RowsIn(b) == {r \in DOMAIN conditional : conditional[r].indicator = b}
ChildrenIn(b) == {d \in DOMAIN disjunctions : disjunctions[d].parent = b}
LogicIn(b) == {l \in DOMAIN logic : logic[l].parent = b}
SealedDisjunctsStay ==
  [][\A b \in DOMAIN booleans :
       ~Open(b) =>
         /\ RowsIn(b)' = RowsIn(b)
         /\ ChildrenIn(b)' = ChildrenIn(b)
         /\ LogicIn(b)' = LogicIn(b)
         /\ booleans'[b] = booleans[b]]_forestVars

================================================================================
