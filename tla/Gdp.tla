---------------------------------- MODULE Gdp ----------------------------------
(***************************************************************************)
(* Reformulating the disjunctive part of a model while the model is still  *)
(* edited (oximo-gdp/src/reformulate.rs and plan.rs, finish of             *)
(* core/src/gdp.rs).                                                       *)
(*                                                                         *)
(* A reformulation plans the rows of everything registered since the last  *)
(* one.  A plan that fails leaves the model alone; one that succeeds adds  *)
(* its rows, marks what they replace as done, seals the disjuncts they     *)
(* depend on, and locks the variables, parameters and rows whose values    *)
(* the generated rows rest on.                                             *)
(***************************************************************************)
EXTENDS GdpPlan

CONSTANTS MaxReports,    \* bound: successful reformulations
          MaxValue       \* bound: the values tried of an unbounded variable

VARIABLES generated,     \* rows [body, lower, upper] added so far
          locked,        \* locked variables and parameters, by name
          lockedRows     \* locked rows of the model

vars == <<forest, starts, reports, bounds, globals, params, generated, locked, lockedRows>>

---------------------------------------------------------------------------
(* The plan.                                                               *)

(* An inclusive disjunction under a hull needs its patterns enumerated.    *)
PatternsFit(o) ==
  \A d \in PendingDisjunctions :
     IsHull(MethodOf(o, d)) /\ disjunctions[d].kind = "AtLeastOne"
     => Cardinality(Patterns(d)) <= MethodOf(o, d).patterns

Stripped(rows) == {[body |-> row.body, lower |-> row.lower, upper |-> row.upper] : row \in rows}

(* What the bounds of a big-M plan rest on.                                *)
BigMIds(o, global) == PendingIds \cup global.support \cup ScopeSupport(o, global)

(* plan_hull: the trees without a hull first, then the others, whose boxes *)
(* the rows of the first plan may tighten further.                         *)
BesideHull(o, pure, bigM, second) ==
  [rows |-> bigM.rows \cup HullRows(o, pure, second.box), ids |-> bigM.ids \cup second.support]

AfterBigM(o, pure, bigM) ==
  IF HasHull(o) THEN BesideHull(o, pure, bigM, GlobalBox(o, Dependencies(bigM.ids))) ELSE bigM

ConditionalPlan(o, pure, global) ==
  IF PendingRows = {} /\ PendingDisjunctions = {} THEN [rows |-> {}, ids |-> {}]
  ELSE AfterBigM(o, pure,
         [rows |-> PlanBigM(o, pure, global),
          ids |-> IF pure = {} THEN PendingIds ELSE BigMIds(o, global)])

LogicPlan == UNION {LogicRows(logic[l].expression, logic[l].parent) : l \in PendingLogic}

WithSelection(plan) ==
  [rows |-> Stripped(plan.rows)
            \cup UNION {SelectionRows(d) : d \in PendingDisjunctions} \cup LogicPlan,
   ids |-> plan.ids]

Plan(o) ==
  WithSelection(ConditionalPlan(o, PureBigM(o), GlobalBox(o, Dependencies(PendingIds))))

Refused(plan) == Stripped({Failure}) \subseteq plan.rows

(* lock_bound_parameters: and the parameters that bound a locked variable. *)
BoundParameters(names) ==
  {<<"p", bounds[n[2]].parameter>> : n \in {m \in names : m[1] = "x" /\ bounds[m[2]].parameter # 0}}

\* Fault: the parameter that bounds a variable can still be set.
LocksWithoutBoundParameters(ids) == Dependencies(ids) \ Ys

Locks(ids) == (Dependencies(ids) \ Ys) \cup BoundParameters(Dependencies(ids))

---------------------------------------------------------------------------
(* Actions.                                                                *)

Adopt(plan) ==
  /\ ~Refused(plan)
  /\ generated' = generated \cup plan.rows
  /\ locked' = locked \cup Locks(plan.ids)
  /\ lockedRows' = lockedRows \cup {id[2] : id \in {i \in plan.ids : i[1] = "global"}}
  /\ Finish

Reformulate(o) ==
  /\ HasPending
  /\ reports < MaxReports
  /\ PatternsFit(o)
  /\ Adopt(Plan(o))
  /\ UNCHANGED <<bounds, globals, params>>

Registered == UNCHANGED <<bounds, globals, params, generated, locked, lockedRows>>

NewBoolean(context) == AddBoolean(context) /\ Registered
NewDisjunction(branches, kind, parent) ==
  RegisterDisjunction(branches, kind, parent) /\ Registered
NewRow(indicator, body, lower, upper) == RegisterRow(indicator, body, lower, upper) /\ Registered

(* check_logic: every Boolean of the expression is the model's.            *)
RECURSIVE Atoms(_)
Atoms(e) ==
  IF e.op = "bool" THEN {e.n} ELSE UNION {Atoms(e.kids[i]) : i \in DOMAIN e.kids}

NewLogic(expression, parent) ==
  /\ Atoms(expression) \subseteq DOMAIN booleans
  /\ RegisterLogic(expression, parent) /\ Registered


Edited == UNCHANGED <<forest, starts, reports, generated, locked, lockedRows>>

(* ensure_reformulated_bounds_mutable.                                     *)
SetUpper(v, upper) ==
  /\ <<"x", v>> \notin locked
  /\ bounds[v].upper # upper
  /\ bounds' = [bounds EXCEPT ![v].upper = upper]
  /\ UNCHANGED <<globals, params>> /\ Edited

SetParameter(k, value) ==
  /\ <<"p", k>> \notin locked
  /\ params[k] # value
  /\ params' = [params EXCEPT ![k] = value]
  /\ UNCHANGED <<bounds, globals>> /\ Edited

(* ensure_constraint_not_reformulated.                                     *)
Deactivate(g) ==
  /\ g \notin lockedRows
  /\ globals[g].active
  /\ globals' = [globals EXCEPT ![g].active = FALSE]
  /\ UNCHANGED <<bounds, params>> /\ Edited

---------------------------------------------------------------------------
(* Exactness: over the points of the model, the source's disjunctive part  *)
(* holds where and only where the generated rows do for some values of the *)
(* generated variables.                                                    *)

WithinSides(value, lower, upper) == lower <= value /\ value <= upper

RowHolds(row, at) == WithinSides(BodyValue(row.body, at), row.lower, row.upper)

OnSet(at) == {b \in DOMAIN booleans : at[Binary(b)] = 1}

BranchesHold(d, on) ==
  LET count == Cardinality(BranchSet(d) \cap on)
      parent == disjunctions[d].parent
  IN IF parent = 0 \/ parent \in on
     THEN IF disjunctions[d].kind = "ExactlyOne" THEN count = 1 ELSE count >= 1
     ELSE count = 0

SourceHolds(at, on) ==
  /\ \A r \in DOMAIN conditional :
       conditional[r].done /\ conditional[r].indicator \in on => RowHolds(conditional[r], at)
  /\ \A d \in DOMAIN disjunctions : disjunctions[d].done => BranchesHold(d, on)
  /\ \A l \in DOMAIN logic :
       logic[l].done /\ (logic[l].parent = 0 \/ logic[l].parent \in on)
       => Holds(logic[l].expression, on)

(* The values of a source variable: its declared domain.                   *)
ValuesOf(v) ==
  LET upper == Least(<<UpperOf(v), MaxValue>>)
  IN IF IsSemi(v) THEN {0} \cup (bounds[v].threshold .. upper) ELSE bounds[v].lower .. upper

Assignments(v) ==
  {[n \in Ys \cup Ps \cup Xs |->
      CASE n[1] = "x" -> x[n[2]]
        [] n[1] = "y" -> IF n[2] \in on THEN 1 ELSE 0
        [] n[1] = "p" -> params[n[2]]] :
     x \in {f \in [DOMAIN bounds -> UNION {ValuesOf(w) : w \in v}] :
              \A w \in v : f[w] \in ValuesOf(w)},
     on \in SUBSET DOMAIN booleans}

Points ==
  {at \in Assignments(DOMAIN bounds) :
     \A g \in DOMAIN globals : globals[g].active => RowHolds(globals[g], at)}

(* The generated variables in the order they are tried, those of the rows  *)
(* with the fewest open variables first, and the rows each of them settles.*)
IsSource(n) == n[1] \in {"x", "y", "p"}
OpenVariables(row) == {n \in BodyVariables(row.body) : ~IsSource(n)}

RECURSIVE Arranged(_)
Arranged(open) ==
  IF open = {} THEN <<>>
  ELSE LET fewest == CHOOSE s \in open : \A t \in open : Cardinality(s) <= Cardinality(t)
           next == CHOOSE n \in fewest : TRUE
       IN <<next>> \o Arranged({s \ {next} : s \in open} \ {{}})

Order(rows) == Arranged({OpenVariables(row) : row \in rows} \ {{}})

SettledAfter(rows, order, k) ==
  {row \in rows :
     LET own == {i \in DOMAIN order : order[i] \in BodyVariables(row.body)}
     IN k = IF own = {} THEN 0 ELSE CHOOSE i \in own : \A j \in own : j <= i}

RECURSIVE Extends(_, _, _, _)
Extends(at, k, order, settled) ==
  /\ \A row \in settled[k] : RowHolds(row, at)
  /\ k = Len(order)
     \/ \E value \in LET domain == Declared(order[k + 1], <<>>) IN domain[1] .. domain[2] :
          Extends(at @@ (order[k + 1] :> value), k + 1, order, settled)

Agree(points, order, settled) ==
  \A at \in points : SourceHolds(at, OnSet(at)) <=> Extends(at, 0, order, settled)

AgreeInOrder(rows, order) ==
  Agree(Points, order, [k \in 0 .. Len(order) |-> SettledAfter(rows, order, k)])

(* The rows added by all reformulations so far say what the disjuncts,     *)
(* disjunctions and constraints they replace say: no source point is lost  *)
(* or gained, under every method, nesting and later edit of the model.     *)
GeneratedRowsAreExact == reports = 0 \/ AgreeInOrder(generated, Order(generated))

---------------------------------------------------------------------------
(***************************************************************************)
(* Instances for Gdp.  A scene is a model with a script of registrations;  *)
(* the model is reformulated, under one of the scene's options, and edited *)
(* between any two of them.  Once something is reformulated, registrations *)
(* it refuses are passed over.                                             *)
(***************************************************************************)

CONSTANT Scenes       \* the scenes checked

VARIABLES scene, step

X(v) == <<"x", v>>
Y(b) == <<"y", b>>
P(k) == <<"p", k>>
Linear(c, terms) == [c |-> c, t |-> terms, res |-> <<>>]
Curved(c, terms, res) == [c |-> c, t |-> terms, res |-> res]
Ref(n) == Leaf(Variable(n))

Bounded(lower, upper) == [lower |-> lower, upper |-> upper, threshold |-> 0, parameter |-> 0]
SemiContinuous(threshold, upper) ==
  [lower |-> 0, upper |-> upper, threshold |-> threshold, parameter |-> 0]
BoundByParameter(lower, k) == [lower |-> lower, upper |-> Inf, threshold |-> 0, parameter |-> k]

Global(body, lower, upper) == [body |-> body, lower |-> lower, upper |-> upper, active |-> TRUE]

(* Script steps.                                                           *)
B(context) == [op |-> "boolean", context |-> context]
D(branches, kind, parent) ==
  [op |-> "disjunction", branches |-> branches, kind |-> kind, parent |-> parent]
R(b, body, lower, upper) ==
  [op |-> "row", b |-> b, body |-> body, lower |-> lower, upper |-> upper]
C(expression, parent) == [op |-> "logic", expression |-> expression, parent |-> parent]

And(a, b) == Expression("and", <<a, b>>, 0)
Or(a, b) == Expression("or", <<a, b>>, 0)
Not(a) == Expression("not", <<a>>, 0)
Implies(a, b) == Expression("implies", <<a, b>>, 0)
Iff(a, b) == Expression("iff", <<a, b>>, 0)
Xor(a, b) == Expression("xor", <<a, b>>, 0)
AtMostN(k, kids) == Expression("atmost", kids, k)
AtLeastN(k, kids) == Expression("atleast", kids, k)
ExactlyN(k, kids) == Expression("exactly", kids, k)

None == [d \in {} |-> 0]
Options(default, methods, tighten, fallback, references, explicit) ==
  [default |-> default, methods |-> methods, tighten |-> tighten, fallback |-> fallback,
   references |-> references, explicit |-> explicit]
Plain(default) == Options(default, None, TRUE, NoM, None, None)

Square(n) == Power(Ref(n), 2)
Modulus(n) == Node("abs", <<Ref(n)>>)
Reciprocal2(n) == Node("div", <<Leaf(Const(2)), Ref(n)>>)
Product(a, b) == Node("mul", <<Ref(a), Ref(b)>>)

NestedScript ==
  << B(0), B(0), D(<<1, 2>>, "ExactlyOne", 0),
     R(1, Linear(0, X(1) :> 1), -Inf, 1),
     R(2, Linear(1, X(1) :> 1 @@ X(2) :> -1), 0, 1),
     B(1), B(1), D(<<3, 4>>, "AtLeastOne", 1),
     R(3, Linear(0, X(1) :> 2 @@ X(2) :> 1), -Inf, 3), R(4, Linear(0, X(2) :> 1), 2, Inf) >>

LogicScript ==
  << B(0), B(0), B(0),
     C(Implies(And(Atom(1), Atom(2)), AtMostN(1, <<Atom(1), Atom(2), Atom(3)>>)), 0),
     C(Or(Not(AtMostN(1, <<Atom(1), Atom(2), Atom(3)>>)),
          ExactlyN(1, <<Atom(1), Xor(Atom(2), Atom(3)), Literal(TRUE)>>)), 3),
     C(Iff(AtLeastN(2, <<Atom(1), Atom(2), Atom(3)>>), Or(Atom(1), Not(Atom(3)))), 0),
     C(ExactlyN(1, <<Atom(1), Atom(2)>>), 3), C(Xor(Atom(1), Atom(2)), 3) >>

HullScript ==
  << B(0), B(0), B(0), D(<<1, 2, 3>>, "ExactlyOne", 0),
     R(1, Linear(1, X(1) :> 1), -Inf, 2),
     R(2, Curved(0, X(1) :> 1, <<Modulus(X(2))>>), 1, 2),
     R(3, Curved(-1, X(2) :> 1, <<Square(X(1))>>), 0, 0) >>

InnerScript ==
  << B(0), B(0), D(<<1, 2>>, "ExactlyOne", 0),
     B(1), B(1), D(<<3, 4>>, "ExactlyOne", 1),
     R(1, Linear(0, X(1) :> 1 @@ X(2) :> 1), 1, Inf),
     R(3, Linear(0, X(1) :> 1), 1, 1),
     R(4, Curved(0, NoTerms, <<Product(X(1), X(2))>>), -Inf, 0),
     R(2, Linear(0, X(2) :> 1), 2, 2) >>

InclusiveScript ==
  << B(0), B(0), D(<<1, 2>>, "AtLeastOne", 0),
     R(1, Linear(0, X(1) :> 1), -Inf, 1),
     B(2), B(2), D(<<3, 4>>, "ExactlyOne", 2),
     R(3, Linear(0, X(1) :> 1 @@ X(2) :> 1), 2, Inf),
     R(4, Linear(0, X(2) :> 1), 0, 0) >>

StandaloneScript ==
  << B(0), B(0), B(2), R(1, Linear(0, X(1) :> 1 @@ P(1) :> -1), -Inf, 0),
     D(<<3>>, "ExactlyOne", 2),
     R(2, Curved(0, X(2) :> -1, <<Modulus(X(1))>>), 1, 3),
     C(Implies(Atom(1), Atom(2)), 0),
     D(<<1, 2>>, "ExactlyOne", 0), R(2, Linear(0, X(1) :> 1 @@ X(2) :> 1), 2, 2) >>

QuotientScript ==
  << B(0), B(0), D(<<1, 2>>, "ExactlyOne", 0),
     R(1, Curved(0, X(1) :> 1, <<Reciprocal2(X(1))>>), 3, 3), R(2, Linear(0, X(1) :> 1), 2, Inf) >>

Scene(name) ==
  CASE name = "nested" ->
         [script |-> NestedScript,
          bounds |-> <<Bounded(0, Inf), BoundByParameter(0, 1)>>, params |-> <<3>>,
          globals |-> <<Global(Linear(0, X(1) :> 1 @@ X(2) :> 1), -Inf, 4)>>,
          uppers |-> {<<1, 3>>}, values |-> {<<1, 4>>},
          options |-> {Plain(BigM(NoM, TRUE)),
                       Options(BigM(9, FALSE), None, FALSE, NoM, None, 1 :> <<NoM, 5>>)}]
    [] name = "logic" ->
         [script |-> LogicScript, bounds |-> <<>>, params |-> <<>>, globals |-> <<>>,
          uppers |-> {}, values |-> {}, options |-> {Plain(BigM(NoM, TRUE))}]
    [] name = "hull" ->
         [script |-> HullScript,
          bounds |-> <<Bounded(0, 2), Bounded(-1, 2)>>, params |-> <<>>, globals |-> <<>>,
          uppers |-> {<<1, 1>>}, values |-> {},
          options |-> {Plain(Hull(0)),
                       Options(Hull(0), None, TRUE, NoM, X(1) :> 1 @@ X(2) :> -1, None)}]
    [] name = "quotient" ->
         [script |-> QuotientScript,
          bounds |-> <<Bounded(1, 3)>>, params |-> <<>>, globals |-> <<>>,
          uppers |-> {<<1, 2>>}, values |-> {},
          options |-> {Plain(BigM(NoM, TRUE)), Plain(Hull(0)),
                       Options(Hull(0), None, TRUE, NoM, X(1) :> 1, None)}]
    [] name = "inner" ->
         [script |-> InnerScript,
          bounds |-> <<Bounded(0, 2), Bounded(0, 2)>>, params |-> <<>>, globals |-> <<>>,
          uppers |-> {}, values |-> {},
          options |-> {Plain(Hull(0)),
                       Options(BigM(NoM, TRUE), 2 :> Hull(0), TRUE, NoM, X(1) :> 1, None),
                       Options(Hull(0), 2 :> BigM(NoM, TRUE), TRUE, NoM, None, None)}]
    [] name = "inclusive" ->
         [script |-> InclusiveScript,
          bounds |-> <<Bounded(0, 2), Bounded(0, 2)>>, params |-> <<>>,
          globals |-> <<Global(Linear(0, X(1) :> 1 @@ X(2) :> -1), -1, 1)>>,
          uppers |-> {}, values |-> {},
          options |-> {Plain(Hull(3)), Plain(Hull(2)),
                       Options(Hull(3), 2 :> BigM(NoM, TRUE), TRUE, NoM, X(2) :> 1, None)}]
    [] name = "standalone" ->
         [script |-> StandaloneScript,
          bounds |-> <<SemiContinuous(2, 3), Bounded(-1, 2)>>, params |-> <<2>>,
          globals |-> <<>>,
          uppers |-> {<<1, 2>>}, values |-> {<<1, 1>>},
          options |-> {Plain(BigM(NoM, TRUE)), Plain(Hull(0)),
                       Options(Hull(0), 1 :> BigM(NoM, FALSE), TRUE, NoM, X(1) :> 2, None)}]

Current == Scene(scene)

MCInit ==
  /\ scene \in Scenes /\ step = 1
  /\ bounds = Current.bounds /\ params = Current.params /\ globals = Current.globals
  /\ ForestInit
  /\ generated = {} /\ locked = {} /\ lockedRows = {}

(* The Booleans a step names have to exist.                                *)
Named(s) ==
  CASE s.op = "boolean" -> {s.context}
    [] s.op = "disjunction" -> {s.branches[i] : i \in DOMAIN s.branches} \cup {s.parent}
    [] s.op = "row" -> {s.b}
    [] s.op = "logic" -> {s.parent}

Register(s) ==
  \/ s.op = "boolean" /\ NewBoolean(s.context)
  \/ s.op = "disjunction" /\ NewDisjunction(s.branches, s.kind, s.parent)
  \/ s.op = "row" /\ NewRow(s.b, s.body, s.lower, s.upper)
  \/ s.op = "logic" /\ NewLogic(s.expression, s.parent)

Step ==
  /\ step <= Len(Current.script)
  /\ step' = step + 1
  /\ \/ /\ Named(Current.script[step]) \subseteq {0} \cup DOMAIN booleans
        /\ Register(Current.script[step])
     \/ reports > 0 /\ UNCHANGED vars

Edit ==
  /\ UNCHANGED step
  /\ \/ \E o \in Current.options : Reformulate(o)
     \/ \E u \in Current.uppers : SetUpper(u[1], u[2])
     \/ \E u \in Current.values : SetParameter(u[1], u[2])
     \/ \E g \in DOMAIN globals : Deactivate(g)

MCNext == (Step \/ Edit) /\ UNCHANGED scene

MCSpec == MCInit /\ [][MCNext]_<<vars, scene, step>>
=============================================================================
