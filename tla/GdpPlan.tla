------------------------------- MODULE GdpPlan ---------------------------------
(***************************************************************************)
(* The plan of a reformulation: the linear and nonlinear rows that replace *)
(* the pending disjuncts, disjunctions and logical constraints, and what   *)
(* the model must keep unchanged for them to stay valid                    *)
(* (oximo-gdp/src/reformulate/plan.rs, big_m.rs, hull.rs).                 *)
(*                                                                         *)
(* Generated variables are named by what they stand for:                   *)
(*   <<"z", e, role>>                   value of a connective              *)
(*   <<"weight", d, selected, owner>>   weight of a pattern of branches    *)
(*   <<"sum", d, used>>                 branches that do not use a variable*)
(*   <<"copy", d, guard, owner, v, dom>> v under a guard, with its domain  *)
(* where owner is the disjunct the variable is local to, zero for none.    *)
(* Rows under construction also carry the guard that already enforces      *)
(* them, the source row they still are, and whether they recombine local   *)
(* copies.  Rounding guards of the code never fail on integers.            *)
(*                                                                         *)
(* Variables and parameters are named <<"x", v>> and <<"p", k>> inside     *)
(* bodies, a Boolean's binary is <<"y", b>>; a row body is [c, t, res],    *)
(* its residual trees beside its linear part.                              *)
(***************************************************************************)
EXTENDS GdpLogic, GdpForest

VARIABLES bounds,       \* variables: [lower, upper, threshold, parameter]
          globals,      \* scalar rows of the model: [body, lower, upper, active]
          params        \* values of the parameters

NoM == -1               \* None of a Big-M value
MissingM == -2          \* no value to take

---------------------------------------------------------------------------
(* Boxes.                                                                  *)

(* A parameter may be a variable's upper bound.                            *)
UpperOf(v) == IF bounds[v].parameter = 0 THEN bounds[v].upper ELSE params[bounds[v].parameter]

IsSemi(v) == bounds[v].threshold # 0

(* VariableBounds::get: a semi-continuous variable may always be zero.     *)
DeclaredInterval(v) ==
  IF IsSemi(v) THEN <<Least(<<bounds[v].threshold, 0>>), Most(<<UpperOf(v), 0>>)>>
  ELSE <<bounds[v].lower, UpperOf(v)>>

Xs == {<<"x", v>> : v \in DOMAIN bounds}
Ys == {<<"y", b>> : b \in DOMAIN booleans}
Ps == {<<"p", k>> : k \in DOMAIN params}

DeclaredBox ==
  [n \in Xs \cup Ys \cup Ps |->
     CASE n[1] = "x" -> DeclaredInterval(n[2])
       [] n[1] = "y" -> <<0, 1>>
       [] n[1] = "p" -> Point(params[n[2]])]

(* A linear part takes the current values of the parameters in it.         *)
Resolved(body) ==
  LET ps == (DOMAIN body.t) \cap Ps
  IN [c |-> body.c + FoldSet(LAMBDA n, sum : sum + body.t[n] * params[n[2]], 0, ps),
      t |-> [n \in (DOMAIN body.t) \ ps |-> body.t[n]],
      res |-> body.res]

ConditionalRow(r) ==
  [id |-> <<"row", r>>, body |-> Resolved(conditional[r].body),
   lower |-> conditional[r].lower, upper |-> conditional[r].upper]

ActiveGlobals ==
  LET active == SelectSeq([g \in DOMAIN globals |-> g], LAMBDA g : globals[g].active)
  IN [i \in DOMAIN active |->
        [id |-> <<"global", active[i]>>, body |-> Resolved(globals[active[i]].body),
         lower |-> globals[active[i]].lower, upper |-> globals[active[i]].upper]]

SourceBody(id) == IF id[1] = "row" THEN conditional[id[2]].body ELSE globals[id[2]].body

(* dependencies: the variables and parameters of rows.                     *)
Dependencies(ids) == UNION {BodyVariables(SourceBody(id)) : id \in ids}

PendingIds == {<<"row", r>> : r \in PendingRows}

(* The box after the global rows have tightened it, with their support.    *)
GlobalBox(o, relevant) ==
  IF o.tighten THEN Tighten(ActiveGlobals, relevant, DeclaredBox)
  ELSE [box |-> DeclaredBox, support |-> {}, relevant |-> relevant]

---------------------------------------------------------------------------
(* Methods.                                                                *)

BigM(fallback, hierarchical) ==
  [kind |-> "BigM", fallback |-> fallback, hierarchical |-> hierarchical, patterns |-> 0]
Hull(patterns) ==
  [kind |-> "Hull", fallback |-> NoM, hierarchical |-> FALSE, patterns |-> patterns]

MethodOf(o, d) == IF d \in DOMAIN o.methods THEN o.methods[d] ELSE o.default
IsHull(m) == m.kind = "Hull"
HasHull(o) == IsHull(o.default) \/ \E d \in DOMAIN o.methods : IsHull(o.methods[d])

(* big_m_components: Booleans whose whole tree avoids Hull.                *)
Root(b) == Ancestry[b][Len(Ancestry[b])]
PureBigM(o) ==
  {b \in DOMAIN booleans :
     \A other \in DOMAIN booleans :
        Root(other) = Root(b) => ~IsHull(MethodOf(o, booleans[other].owner))}

---------------------------------------------------------------------------
(* Big-M.                                                                  *)

(* A row that fails the plan.                                              *)
Failure == [body |-> Body(Const(0)), lower |-> 1, upper |-> 0,
            guard |-> <<"failed">>, src |-> 0, local |-> FALSE]

(* side_m                                                                  *)
SideM(required, explicit, local, global) ==
  CASE explicit # NoM -> explicit
    [] required < Inf -> Most(<<required, 0>>)
    [] local # NoM -> local
    [] global # NoM -> global
    [] OTHER -> MissingM

GlobalFallback(o) == IF o.fallback # NoM THEN o.fallback ELSE o.default.fallback
LocalFallback(o, b) ==
  IF booleans[b].owner \in DOMAIN o.methods THEN o.methods[booleans[b].owner].fallback ELSE NoM

Explicit(o, src) == IF src \in DOMAIN o.explicit THEN o.explicit[src] ELSE <<NoM, NoM>>

(* row_m: the amounts by which the lower and the upper side may be missed. *)
RowM(o, b, lower, upper, body, explicit) ==
  <<IF lower = -Inf THEN NoM
    ELSE SideM(EndSum(lower, -body[1]), explicit[1], LocalFallback(o, b), GlobalFallback(o)),
    IF upper = Inf THEN NoM
    ELSE SideM(EndSum(body[2], -upper), explicit[2], LocalFallback(o, b), GlobalFallback(o))>>

Shifted(body, terms, side, sign) ==
  LET shift == Total([i \in DOMAIN terms |->
                        Scaled(sign * terms[i].m[side], Complement(Variable(Binary(terms[i].b))))])
      form == Minus(body, shift)
  IN [body EXCEPT !.c = form.c, !.t = form.t]

(* A row for every finite side.  Each term [b, m] relaxes it by its amount *)
(* where the disjunct b is off.                                            *)
BigMRows(row, terms) ==
  {[row EXCEPT !.body = Shifted(row.body, terms, 1, -1), !.upper = Inf] :
      x \in {row.lower} \ {-Inf}}
  \cup
  {[row EXCEPT !.body = Shifted(row.body, terms, 2, 1), !.lower = -Inf] :
      x \in {row.upper} \ {Inf}}

Hierarchical(o, b) ==
  LET m == MethodOf(o, booleans[b].owner)
  IN o.tighten /\ ~IsHull(m) /\ m.hierarchical

RowsOfDisjunct(b) ==
  LET own == SelectSeq([r \in DOMAIN conditional |-> r], LAMBDA r : conditional[r].indicator = b)
  IN [i \in DOMAIN own |-> ConditionalRow(own[i])]

(* parent_scopes: the box where a disjunct and all that contain it hold.   *)
WithSupport(inner, support) == [box |-> inner.box, support |-> support \cup inner.support]
Inside(b, relevant, outer) ==
  WithSupport(Tighten(RowsOfDisjunct(b), relevant, [outer.box EXCEPT ![Binary(b)] = Point(1)]),
              outer.support)

RECURSIVE ScopeBox(_, _)
ScopeBox(b, base) ==
  IF b = 0 THEN [box |-> base, support |-> {}]
  ELSE Inside(b, DOMAIN base, ScopeBox(booleans[b].parent, base))

(* hierarchical_terms: the disjunct's own amount shrinks to what each      *)
(* enclosing disjunct, outermost first, leaves; the difference is that     *)
(* disjunct's term.  Without a gain there is only the disjunct's own term. *)
NextAmount(m, required) == IF m = NoM THEN NoM ELSE Least(<<m, Most(<<required, 0>>)>>)
Dropped(m, next) == IF m = NoM THEN NoM ELSE m - next

TermOf(state, b, next) ==
  LET dropped == <<Dropped(state.m[1], next[1]), Dropped(state.m[2], next[2])>>
  IN [m |-> next, terms |-> Append(state.terms, [b |-> b, m |-> dropped]),
      improved |-> state.improved \/ dropped[1] > 0 \/ dropped[2] > 0]

ScopeTerm(state, scope, row) ==
  TermOf(state, scope.b, <<NextAmount(state.m[1], EndSum(row.lower, -scope.interval[1])),
                           NextAmount(state.m[2], EndSum(scope.interval[2], -row.upper))>>)

TermsOf(b, m, last) ==
  IF last.improved THEN <<[b |-> b, m |-> last.m]>> \o last.terms ELSE <<[b |-> b, m |-> m]>>

HierarchicalTerms(b, row, m, scopes) ==
  TermsOf(b, m, FoldLeft(LAMBDA state, scope : ScopeTerm(state, scope, row),
                         [m |-> m, terms |-> <<>>, improved |-> FALSE], scopes))

(* estimate_contexts: a scope whose interval cannot be computed keeps the  *)
(* interval of the whole model.                                            *)
OrWhole(inside, whole) == IF Fails(inside) THEN whole ELSE inside

ScopeIntervals(b, body, base, whole) ==
  LET enclosing == Reverse(Ancestry[booleans[b].parent])
  IN [i \in DOMAIN enclosing |->
        [b |-> enclosing[i],
         interval |-> OrWhole(BodyInterval(body, ScopeBox(enclosing[i], base).box), whole)]]

Relaxed(o, b, row, m, base, interval) ==
  IF Fails(interval) \/ MissingM \in {m[1], m[2]} THEN {Failure}
  ELSE BigMRows(row, HierarchicalTerms(b, row, m,
         IF Hierarchical(o, b) THEN ScopeIntervals(b, row.body, base, interval) ELSE <<>>))

Planned(body, lower, upper, src) ==
  [body |-> body, lower |-> lower, upper |-> upper, guard |-> <<"none">>,
   src |-> src, local |-> FALSE]

SourceRow(r) ==
  Planned(Resolved(conditional[r].body), conditional[r].lower, conditional[r].upper, r)

BigMOf(o, r, row, b, base, interval) ==
  Relaxed(o, b, row, RowM(o, b, row.lower, row.upper, interval, Explicit(o, r)), base, interval)

BigMOfRow(o, r, base) ==
  BigMOf(o, r, SourceRow(r), conditional[r].indicator, base,
         BodyInterval(Resolved(conditional[r].body), base))

(* plan_big_m over the pending rows of the selected Booleans.              *)
PlanBigM(o, selected, global) ==
  UNION {BigMOfRow(o, r, global.box) :
           r \in {q \in PendingRows : conditional[q].indicator \in selected}}

(* The rows whose dependencies the bounds rest on.                         *)
ScopeSupport(o, global) ==
  UNION {ScopeBox(booleans[b].parent, global.box).support :
           b \in {conditional[r].indicator : r \in {q \in PendingRows :
                    booleans[conditional[q].indicator].parent # 0
                    /\ Hierarchical(o, conditional[q].indicator)}}}

---------------------------------------------------------------------------
(* plan_disjunctions: how many branches may be on.                         *)

BranchForms(d) ==
  [i \in DOMAIN disjunctions[d].branches |-> Variable(Binary(disjunctions[d].branches[i]))]

SelectionRows(d) ==
  LET parent == ParentForm(disjunctions[d].parent)
      excess == Minus(Total(BranchForms(d)), parent)
      exact == disjunctions[d].kind = "ExactlyOne"
  IN {Row(excess, 0, IF exact THEN 0 ELSE Inf)}
     \cup {AtMost(Minus(BranchForms(d)[i], parent), 0) :
             i \in IF exact \/ disjunctions[d].parent = 0 THEN {} ELSE DOMAIN BranchForms(d)}

---------------------------------------------------------------------------
(* Hull reformulation of a forest that may mix methods                     *)
(* (oximo-gdp/src/reformulate/hull.rs).  A disjunct's block is its own     *)
(* rows and what its children deliver; a disjunction turns the blocks of   *)
(* its branches into rows for the block around it, or for the model.  A    *)
(* part is [rows, emit]: rows to deliver, and rows already in the model.   *)

---------------------------------------------------------------------------
(* Generated variables.                                                    *)

(* The disjunct that a variable vanishes with.                             *)
LocalOwner(n) == CASE n[1] = "y" -> n[2] [] n[1] \in {"copy", "weight"} -> n[4] [] OTHER -> 0

IsLocal(n, b) == b # 0 /\ LocalOwner(n) # 0 /\ Within(LocalOwner(n), b)

(* The domain a generated variable is declared with.                       *)
Declared(n, box) ==
  CASE n[1] = "copy" -> n[6]
    [] n[1] \in {"weight", "sum", "z"} -> <<0, 1>>
    [] OTHER -> box[n]

BoxOf(body, box) == [n \in BodyVariables(body) |-> Declared(n, box)]

Reference(o, n) == IF n \in DOMAIN o.references THEN o.references[n] ELSE 0

(* row_is_local_to: the row's guard already vanishes with the disjunct.    *)
RowIsLocal(row, b) ==
  CASE row.guard[1] = "failed" -> TRUE
    [] row.guard[1] = "on" -> IsLocal(Binary(row.guard[2]), b)
    [] row.guard[1] = "pattern" -> IsLocal(row.guard[2], b)
    [] OTHER -> FALSE

(* enumeration_above: some pattern of branches is enumerated at the        *)
(* disjunct or above it.                                                   *)
EnumerationAbove(o, b) ==
  \E i \in DOMAIN Ancestry[b] :
     LET d == booleans[Ancestry[b][i]].owner
     IN d # 0 /\ disjunctions[d].kind = "AtLeastOne" /\ IsHull(MethodOf(o, d))

SelectorIsActive(n, b) == n[1] = "y" /\ Within(b, n[2])

(* source_row: in its own block the binaries of the disjunct and of those  *)
(* around it are one.                                                      *)
BlockRow(r) ==
  LET row == SourceRow(r)
      active == {n \in DOMAIN row.body.t : SelectorIsActive(n, conditional[r].indicator)}
      offset == FoldSet(LAMBDA n, sum : sum + row.body.t[n], 0, active)
  IN [row EXCEPT !.body.c = @ + offset,
                 !.body.t = [n \in (DOMAIN @) \ active |-> @[n]]]

---------------------------------------------------------------------------
(* Copies.                                                                 *)

CopyDomain(interval, reference) ==
  <<Least(<<interval[1] - reference, 0>>), Most(<<interval[2] - reference, 0>>)>>

Copy(d, guard, owner, n, domain) == <<"copy", d, guard, owner, n, domain>>

CopyOf(o, d, input, n, box) ==
  Copy(d, input.guard, input.branch, n, CopyDomain(Declared(n, box), Reference(o, n)))

(* A copy is zero where its guard is, and its variable less the reference  *)
(* where the guard is one.                                                 *)
CopyBounds(o, d, input, n, box) ==
  LET interval == Declared(n, box)
      reference == Reference(o, n)
      copy == Variable(CopyOf(o, d, input, n, box))
      side(k, row) == [Planned(Body(Minus(copy, Scaled(interval[k] - reference, input.form))),
                               IF row = "lower" THEN 0 ELSE -Inf,
                               IF row = "lower" THEN Inf ELSE 0, 0)
                         EXCEPT !.guard = input.guard]
  IN IF IsFinite(interval[1]) /\ IsFinite(interval[2])
     THEN {side(1, "lower"), side(2, "upper")}
     ELSE {Failure}

---------------------------------------------------------------------------
(* Rows under a guard.                                                     *)

(* rewrite: the tree with every variable, and parameter, replaced.         *)
RECURSIVE Substituted(_, _)
Substituted(e, map) ==
  IF e.op = "lin"
  THEN LET parts == Listed(DOMAIN e.t)
       IN Node("add", <<Leaf(Const(e.c))>> \o
               [i \in DOMAIN parts |->
                  Node("mul", <<Leaf(Const(e.t[parts[i]])), map[parts[i]]>>)])
  ELSE [e EXCEPT !.kids = [i \in DOMAIN e.kids |-> Substituted(e.kids[i], map)]]

(* perspective: (eps + (1 - eps) g) h(copy / (eps + (1 - eps) g) + ref).   *)
Quotient(n, copy, reference, form) ==
  IF n[1] = "p" THEN Leaf(Const(params[n[2]]))
  ELSE Node("add", <<Node("quot", <<Leaf(Variable(copy)), Leaf(form)>>), Leaf(Const(reference))>>)

Perspective(o, e, copies, form) ==
  Node("scale",
    <<Substituted(e, [n \in Support(e) |->
        Quotient(n, IF n \in DOMAIN copies THEN copies[n] ELSE n,
                 IF n \in DOMAIN copies THEN Reference(o, n) ELSE 0, form)]),
      Leaf(form)>>)

(* The value the residual has where every copy is zero, taken off where    *)
(* the guard is zero.                                                      *)
ReferencePoint(o, e) ==
  [n \in Support(e) |-> IF n[1] = "p" THEN params[n[2]] ELSE Reference(o, n)]

AtReference(o, e) == Value(e, ReferencePoint(o, e))

UnsafeReference(o, e) ==
  Fails(Enclosure(e, [n \in Support(e) |-> Point(ReferencePoint(o, e)[n])]))

Correction(o, e, form) == Scaled(-AtReference(o, e), Complement(form))

Sum(forms) == Total(Listed(forms))

(* The affine part: the constant scales with the guard, as does the        *)
(* reference of every copied variable.                                     *)
Transformed(o, body, copies, form) ==
  LET term(n) ==
        IF n \in DOMAIN copies
        THEN Plus(Scaled(body.t[n], Variable(copies[n])), Scaled(body.t[n] * Reference(o, n), form))
        ELSE Scaled(body.t[n], Variable(n))
      vars == Listed(DOMAIN body.t)
  IN Plus(Scaled(body.c, form),
          Plus(Total([i \in DOMAIN vars |-> term(vars[i])]),
               Total([i \in DOMAIN body.res |-> Correction(o, body.res[i], form)])))

WithForm(body, form) == [body EXCEPT !.c = form.c, !.t = form.t]

(* sides: an equality stays one row.                                       *)
Sides(lower, upper) ==
  IF lower = upper THEN {<<lower, 0, 0>>}
  ELSE {<<k, 0, Inf>> : k \in {lower} \ {-Inf}} \cup {<<k, -Inf, 0>> : k \in {upper} \ {Inf}}

GuardedSide(row, body, input, side) ==
  [row EXCEPT !.body = WithForm(body, Minus(body, Scaled(side[1], input.form))),
              !.lower = side[2], !.upper = side[3],
              !.guard = input.guard, !.src = 0, !.local = FALSE]

Guarded(row, body, input, box) ==
  IF body.res # <<>> /\ Fails(BodyInterval(body, BoxOf(body, box))) THEN {Failure}
  ELSE {GuardedSide(row, body, input, side) : side \in Sides(row.lower, row.upper)}

Residuals(o, row, input, copies) ==
  [i \in DOMAIN row.body.res |-> Perspective(o, row.body.res[i], copies, input.form)]

HullRow(o, row, input, copies, box) ==
  IF \E i \in DOMAIN row.body.res : UnsafeReference(o, row.body.res[i]) THEN {Failure}
  ELSE Guarded(row,
         WithForm([row.body EXCEPT !.res = Residuals(o, row, input, copies)],
                  Transformed(o, row.body, copies, input.form)),
         input, box)

---------------------------------------------------------------------------
(* One disjunction.  An input is [branch, guard, form, rows]; the coordi-  *)
(* nates are the variables its branches do not keep to themselves.         *)

UsedBy(input, all) ==
  {n \in UNION {BodyVariables(row.body) :
                  row \in {r \in input.rows : all \/ ~RowIsLocal(r, input.branch)}} :
     n[1] # "p" /\ (all \/ ~IsLocal(n, input.branch))}

Coordinates(inputs, all) == UNION {UsedBy(inputs[i], all) : i \in DOMAIN inputs}

UsersOf(inputs, n, all) == {i \in DOMAIN inputs : n \in UsedBy(inputs[i], all)}

(* can_combine_unused                                                      *)
Flat(d) ==
  /\ d > 0
  /\ disjunctions[d].parent = 0
  /\ disjunctions[d].kind = "ExactlyOne"
  /\ \A b \in BranchSet(d) : \A c \in DOMAIN booleans : booleans[c].parent # b

(* The variables whose copies two or more unused branches share.           *)
Combined(d, inputs, all) ==
  {n \in Coordinates(inputs, all) :
     /\ Flat(d) /\ ~all
     /\ Len(inputs) >= 3
     /\ Len(inputs) - Cardinality(UsersOf(inputs, n, all)) >= 2}

UnusedInput(d, inputs, n) ==
  LET users == {inputs[i].branch : i \in UsersOf(inputs, n, FALSE)}
      weight == <<"sum", d, users>>
  IN IF Cardinality(users) = 1
     THEN LET b == CHOOSE b \in users : TRUE
          IN [branch |-> 0, guard |-> <<"off", b>>, form |-> Complement(Variable(Binary(b))),
              rows |-> {}]
     ELSE [branch |-> 0, guard |-> weight, form |-> Variable(weight), rows |-> {}]

(* The weight of the unused branches is what the used ones leave.          *)
UnusedEquation(input) ==
  {Planned(Body(Plus(Minus(input.form, Const(1)), Sum({Variable(Binary(b)) : b \in input.guard[3]}))),
           0, 0, 0) : x \in {input.guard[1]} \cap {"sum"}}

CopiesFor(o, d, input, used, box) == [n \in used |-> CopyOf(o, d, input, n, box)]

InputRows(o, d, input, copies, all, box) ==
  UNION {CopyBounds(o, d, input, n, box) : n \in DOMAIN copies}
  \cup UNION {IF RowIsLocal(row, input.branch) /\ ~all THEN {row}
              ELSE HullRow(o, row, input, copies, box) : row \in input.rows}

(* Every copied variable is the sum of its copies and the reference.       *)
Aggregation(o, n, copies, isLocal) ==
  [Planned(Body(Plus(Minus(Sum({Variable(c) : c \in copies}), Variable(n)),
                     Const(Reference(o, n)))), 0, 0, 0)
     EXCEPT !.local = isLocal]

(* The variables an input copies: those every branch copies, and of the    *)
(* combined ones its own.                                                  *)
CopiedBy(input, coordinates, combined, all) ==
  (coordinates \ combined) \cup (UsedBy(input, all) \cap combined)

HullOf(o, d, inputs, all, locals, coordinates, combined, box) ==
  LET copied == [i \in DOMAIN inputs |-> CopiedBy(inputs[i], coordinates, combined, all)]
      unused == [n \in combined |-> UnusedInput(d, inputs, n)]
      copiesOf(n) == {CopyOf(o, d, inputs[i], n, box) : i \in {j \in DOMAIN inputs : n \in copied[j]}}
                     \cup {CopyOf(o, d, unused[m], m, box) : m \in {n} \cap combined}
  IN [rows |-> UNION {InputRows(o, d, inputs[i], CopiesFor(o, d, inputs[i], copied[i], box), all, box) :
                        i \in DOMAIN inputs}
               \cup UNION {CopyBounds(o, d, unused[n], n, box) : n \in combined}
               \cup {Aggregation(o, n, copiesOf(n), n \in locals) : n \in coordinates},
      emit |-> UNION {UnusedEquation(unused[n]) : n \in combined}]

HullPart(o, d, inputs, all, locals, box) ==
  HullOf(o, d, inputs, all, locals, Coordinates(inputs, all), Combined(d, inputs, all), box)

---------------------------------------------------------------------------
(* An inclusive disjunction enumerates the nonempty sets of its branches.  *)

FirstOf(d, selected) ==
  LET order == disjunctions[d].branches
  IN order[CHOOSE i \in DOMAIN order :
             order[i] \in selected /\ \A j \in 1 .. i - 1 : order[j] \notin selected]

Weight(d, selected) == <<"weight", d, selected, FirstOf(d, selected)>>
Patterns(d) == (SUBSET BranchSet(d)) \ {{}}
WeightSum(d, selecting) == Sum({Variable(Weight(d, s)) : s \in selecting})

LocalsOf(rows, b) ==
  {n \in UNION {BodyVariables(row.body) : row \in rows} : n[1] # "p" /\ IsLocal(n, b)}

(* The locals of a branch vanish in a pattern without it.                  *)
PatternInput(d, selected, blocks) ==
  [branch |-> FirstOf(d, selected), guard |-> <<"pattern", Weight(d, selected)>>,
   form |-> Variable(Weight(d, selected)),
   rows |-> UNION {blocks[b] : b \in selected}
            \cup {Planned(Body(Variable(n)), 0, 0, 0) :
                    n \in UNION {LocalsOf(blocks[b], b) : b \in BranchSet(d) \ selected}}]

PatternEquations(d) ==
  {Planned(Body(Minus(WeightSum(d, Patterns(d)), ParentForm(disjunctions[d].parent))), 0, 0, 0)}
  \cup {Planned(Body(Minus(WeightSum(d, {s \in Patterns(d) : b \in s}), Variable(Binary(b)))),
                0, 0, 0) : b \in BranchSet(d)}

(* The recombination of local copies holds whether or not the disjuncts    *)
(* around it do.                                                           *)
Recombined(part, equations) ==
  [rows |-> {row \in part.rows : ~row.local},
   emit |-> part.emit \cup equations \cup {row \in part.rows : row.local}]

Enumerated(o, d, blocks, box) ==
  LET order == Listed(Patterns(d))
  IN Recombined(
       HullPart(o, d, [i \in DOMAIN order |-> PatternInput(d, order[i], blocks)], TRUE,
                UNION {LocalsOf(blocks[b], b) : b \in BranchSet(d)}, box),
       PatternEquations(d))

---------------------------------------------------------------------------
(* Mixed forests.                                                          *)

(* big_m: rows of an inner hull are relaxed like source rows, with the     *)
(* bounds of the boxes and without the enclosing disjuncts' terms.         *)
MixedRow(o, row, b, box, interval) ==
  LET m == RowM(o, b, row.lower, row.upper, interval, Explicit(o, row.src))
  IN IF Fails(interval) \/ MissingM \in {m[1], m[2]} THEN {Failure}
     ELSE {[x EXCEPT !.guard = <<"none">>, !.src = 0, !.local = FALSE] :
             x \in BigMRows(row, <<[b |-> b, m |-> m]>>)}

MixedBigM(o, block, b, box) ==
  UNION {IF RowIsLocal(row, b) THEN {row}
         ELSE MixedRow(o, row, b, box, BodyInterval(row.body, BoxOf(row.body, box))) : row \in block}

BranchInput(b, block) ==
  [branch |-> b, guard |-> <<"on", b>>, form |-> Variable(Binary(b)), rows |-> block]

Converted(o, d, blocks, box) ==
  CASE ~IsHull(MethodOf(o, d)) ->
         [rows |-> UNION {MixedBigM(o, blocks[b], b, box) : b \in BranchSet(d)}, emit |-> {}]
    [] IsHull(MethodOf(o, d)) /\ disjunctions[d].kind = "AtLeastOne" ->
         IF Cardinality(Patterns(d)) <= MethodOf(o, d).patterns
         THEN Enumerated(o, d, blocks, box)
         ELSE [rows |-> {}, emit |-> {Failure}]
    [] OTHER ->
         HullPart(o, d, [i \in DOMAIN disjunctions[d].branches |->
                           BranchInput(disjunctions[d].branches[i],
                                       blocks[disjunctions[d].branches[i]])], FALSE, {}, box)

(* deliver: a row the disjunct around already makes vanish goes to the     *)
(* model, unless patterns are enumerated above.                            *)
Delivered(o, part, parent) ==
  LET up == {row \in part.rows :
               parent # 0 /\ (~RowIsLocal(row, parent) \/ EnumerationAbove(o, parent))}
  IN [rows |-> up, emit |-> part.emit \cup (part.rows \ up)]

(* scoped_selection: the patterns above carry the selection of their own   *)
(* disjunctions.                                                           *)
ScopedSelection(o, d, parent) ==
  IF parent = 0 \/ ~EnumerationAbove(o, parent) THEN {}
  ELSE LET enumerated == IsHull(MethodOf(o, d)) /\ disjunctions[d].kind = "AtLeastOne"
           equation(form, upper) == Planned(Body(form), 0, upper, 0)
       IN {equation(Minus(Total(BranchForms(d)), Const(1)),
                    IF disjunctions[d].kind = "ExactlyOne" THEN 0 ELSE Inf)}
          \cup {equation(Minus(WeightSum(d, Patterns(d)), Const(1)), 0) :
                  x \in {enumerated} \cap {TRUE}}
          \cup {equation(Minus(WeightSum(d, {s \in Patterns(d) : b \in s}),
                               Variable(Binary(b))), 0) :
                  b \in IF enumerated THEN BranchSet(d) ELSE {}}

(* The block of a disjunct, its children converted first.                  *)
ChildrenOf(b) == {d \in PendingDisjunctions : disjunctions[d].parent = b}
OwnRows(o, b, pure) ==
  {BlockRow(r) : r \in {q \in PendingRows : conditional[q].indicator = b /\ b \notin pure}}

Joint(rows, parts) ==
  [rows |-> rows \cup UNION {part.rows : part \in parts},
   emit |-> UNION {part.emit : part \in parts}]

ConversionOf(o, d, blocks, box) ==
  Joint(ScopedSelection(o, d, disjunctions[d].parent),
        {Delivered(o, Converted(o, d, [b \in DOMAIN blocks |-> blocks[b].rows], box),
                   disjunctions[d].parent)}
        \cup {[rows |-> {}, emit |-> blocks[b].emit] : b \in DOMAIN blocks})

RECURSIVE Block(_, _, _, _), Conversion(_, _, _, _)
Block(o, b, pure, box) ==
  Joint(OwnRows(o, b, pure), {Conversion(o, d, pure, box) : d \in ChildrenOf(b)})

Conversion(o, d, pure, box) ==
  ConversionOf(o, d, [b \in BranchSet(d) |-> Block(o, b, pure, box)], box)

(* A Boolean outside every disjunction switches its block on and off.      *)
OffInput(b) ==
  [branch |-> 0, guard |-> <<"off", b>>, form |-> Complement(Variable(Binary(b))), rows |-> {}]

AllRows(part) == part.rows \cup part.emit

Standalone(o, b, block, box) ==
  IF block.rows = {} THEN block.emit
  ELSE IF IsHull(o.default)
  THEN block.emit
       \cup AllRows(HullPart(o, -b, <<BranchInput(b, block.rows), OffInput(b)>>, FALSE, {}, box))
  ELSE block.emit \cup MixedBigM(o, block.rows, b, box)

HullRows(o, pure, box) ==
  UNION {Conversion(o, d, pure, box).emit :
           d \in {e \in PendingDisjunctions : disjunctions[e].parent = 0}}
  \cup UNION {Standalone(o, b, Block(o, b, pure, box), box) :
                b \in {c \in DOMAIN booleans : booleans[c].owner = 0}}

=============================================================================
