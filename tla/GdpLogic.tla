------------------------------- MODULE GdpLogic -------------------------------
(***************************************************************************)
(* The algebra of a reformulation: interval bounds of constraint bodies    *)
(* (oximo-gdp/src/bounds.rs), then logical constraints and their linear    *)
(* rows (reformulate/logic.rs, LogicalExpr of core/src/gdp.rs).            *)
(*                                                                         *)
(* Numbers are integers; the outward rounding of the code becomes rounding *)
(* of a quotient to the integers around it, and a result that leaves the   *)
(* range saturates at infinity.  A box gives an interval to every variable *)
(* and parameter; an expression is a tree of nodes [op, kids, c, t] where  *)
(* a "lin" node is c + t . x and a "pow" node has exponent c.              *)
(***************************************************************************)
EXTENDS Integers, FiniteSets, Sequences, SequencesExt, FiniteSetsExt, TLC

CONSTANTS Inf,       \* stands for f64::INFINITY; larger than every number
          InverseEps \* 1 / Hull::epsilon, the least denominator of a perspective

---------------------------------------------------------------------------
(* Linear forms: a constant and the nonzero coefficients by variable.      *)

NoTerms == [n \in {} |-> 0]
Const(k) == [c |-> k, t |-> NoTerms]
Variable(n) == [c |-> 0, t |-> n :> 1]

(* The members of a set in some order.                                     *)
Listed(S) == FoldSet(LAMBDA n, s : Append(s, n), <<>>, S)

Nonzero(t) == [n \in {m \in DOMAIN t : t[m] # 0} |-> t[n]]

Coefficient(t, n) == IF n \in DOMAIN t THEN t[n] ELSE 0

(* Linear::add followed by normalize.                                      *)
Plus(a, b) ==
  [c |-> a.c + b.c,
   t |-> Nonzero([n \in (DOMAIN a.t) \cup (DOMAIN b.t) |->
                    Coefficient(a.t, n) + Coefficient(b.t, n)])]

Scaled(k, a) == [c |-> k * a.c, t |-> Nonzero([n \in DOMAIN a.t |-> k * a.t[n]])]

Complement(a) == Plus(Const(1), Scaled(-1, a))

Total(forms) == FoldLeft(Plus, Const(0), forms)

---------------------------------------------------------------------------
(* Trees.                                                                  *)

Leaf(form) == [op |-> "lin", kids |-> <<>>, c |-> form.c, t |-> form.t]
Node(op, kids) == [op |-> op, kids |-> kids, c |-> 0, t |-> NoTerms]
Power(kid, n) == [op |-> "pow", kids |-> <<kid>>, c |-> n, t |-> NoTerms]

(* The variables of a tree.                                                *)
RECURSIVE Support(_)
Support(e) == DOMAIN e.t \cup UNION {Support(e.kids[i]) : i \in DOMAIN e.kids}

(* The value of a tree where every variable has one.                       *)
Dot(t, at) == FoldSet(LAMBDA n, sum : sum + t[n] * at[n], 0, DOMAIN t)

Least(s) == FoldLeft(LAMBDA a, b : IF b < a THEN b ELSE a, s[1], s)
Most(s) == FoldLeft(LAMBDA a, b : IF b > a THEN b ELSE a, s[1], s)
Absolute(n) == IF n < 0 THEN -n ELSE n

(* A quotient by a perspective's denominator ("quot") and the product with *)
(* it ("scale") are evaluated with that denominator equal to one, which it *)
(* is where the guard is one; where the guard is zero the copies vanish.   *)
Apply(op, c, values) ==
  CASE op = "add" -> FoldLeft(LAMBDA a, b : a + b, 0, values)
    [] op = "mul" -> FoldLeft(LAMBDA a, b : a * b, 1, values)
    [] op = "min" -> Least(values)
    [] op = "max" -> Most(values)
    [] op = "neg" -> -values[1]
    [] op = "abs" -> Absolute(values[1])
    [] op = "pow" -> IF c = 0 THEN 1 ELSE values[1] ^ c
    [] op = "div" -> IF values[2] = 0 THEN 0 ELSE values[1] \div values[2]
    [] op \in {"quot", "scale"} -> values[1]

RECURSIVE Value(_, _)
Value(e, at) ==
  IF e.op = "lin" THEN e.c + Dot(e.t, at)
  ELSE Apply(e.op, e.c, [i \in DOMAIN e.kids |-> Value(e.kids[i], at)])

---------------------------------------------------------------------------
(* Intervals.                                                              *)

Point(x) == <<x, x>>
Whole == <<-Inf, Inf>>
Undefined == <<Inf, -Inf>>      \* BoundError::Domain
Fails(b) == b[1] > b[2]

IsFinite(x) == -Inf < x /\ x < Inf

Saturate(x) == IF x > Inf THEN Inf ELSE IF x < -Inf THEN -Inf ELSE x

EndSum(a, b) ==
  IF ~IsFinite(a) THEN a ELSE IF ~IsFinite(b) THEN b ELSE Saturate(a + b)

EndProduct(a, b) == IF a = 0 \/ b = 0 THEN 0 ELSE Saturate(a * b)

AddIntervals(s, t) == <<EndSum(s[1], t[1]), EndSum(s[2], t[2])>>

MulIntervals(s, t) ==
  LET ends == <<EndProduct(s[1], t[1]), EndProduct(s[1], t[2]),
                EndProduct(s[2], t[1]), EndProduct(s[2], t[2])>>
  IN <<Least(ends), Most(ends)>>

NegInterval(s) == <<-s[2], -s[1]>>

ContainsZero(s) == s[1] <= 0 /\ s[2] >= 0

RoundDown(a, d) == IF IsFinite(a) THEN a \div d ELSE a
RoundUp(a, d) == IF IsFinite(a) THEN -((-a) \div d) ELSE a

DivideScalar(s, d) ==
  IF d > 0 THEN <<RoundDown(s[1], d), RoundUp(s[2], d)>>
  ELSE <<RoundDown(-s[2], -d), RoundUp(-s[1], -d)>>

EndPower(x, n) ==
  IF n = 0 THEN 1
  ELSE IF IsFinite(x) THEN Saturate(x ^ n)
  ELSE IF x < 0 /\ n % 2 = 0 THEN Inf ELSE x

PowInterval(s, n) ==
  LET ends == <<EndPower(s[1], n), EndPower(s[2], n)>>
  IN <<IF n > 0 /\ n % 2 = 0 /\ ContainsZero(s) THEN 0 ELSE Least(ends), Most(ends)>>

AbsInterval(s) ==
  LET ends == <<Absolute(s[1]), Absolute(s[2])>>
  IN <<IF ContainsZero(s) THEN 0 ELSE Least(ends), Most(ends)>>

(* A denominator away from zero: its reciprocal lies between -1 and 1.     *)
Reciprocal(d) == IF d[1] > 0 THEN <<0, 1>> ELSE <<-1, 0>>

Firsts(s) == [i \in DOMAIN s |-> s[i][1]]
Seconds(s) == [i \in DOMAIN s |-> s[i][2]]

NodeInterval(e, s) ==
  CASE \E i \in DOMAIN s : Fails(s[i]) -> Undefined
    [] e.op = "add" -> FoldLeft(AddIntervals, Point(0), s)
    [] e.op = "mul" ->
         IF Len(s) = 2 /\ e.kids[1] = e.kids[2] THEN PowInterval(s[1], 2)
         ELSE FoldLeft(MulIntervals, Point(1), s)
    [] e.op = "min" -> <<Least(Firsts(s)), Least(Seconds(s))>>
    [] e.op = "max" -> <<Most(Firsts(s)), Most(Seconds(s))>>
    [] e.op = "neg" -> NegInterval(s[1])
    [] e.op = "abs" -> AbsInterval(s[1])
    [] e.op = "pow" -> PowInterval(s[1], e.c)
    [] e.op = "div" ->
         IF ContainsZero(s[2]) THEN Undefined ELSE MulIntervals(s[1], Reciprocal(s[2]))
    [] e.op = "quot" -> MulIntervals(s[1], <<1, InverseEps>>)
    [] e.op = "scale" -> MulIntervals(s[1], <<0, 1>>)

AffineBox(form, box) ==
  FoldSet(LAMBDA n, sum : AddIntervals(sum, MulIntervals(box[n], Point(form.t[n]))),
          Point(form.c), DOMAIN form.t)

(* Bounder::analyze of a residual.                                         *)
RECURSIVE Enclosure(_, _)
Enclosure(e, box) ==
  IF e.op = "lin" THEN AffineBox(e, box)
  ELSE NodeInterval(e, [i \in DOMAIN e.kids |-> Enclosure(e.kids[i], box)])

(* A body is its affine part and the residual trees beside it.             *)
SumOfParts(affine, parts) ==
  IF \E i \in DOMAIN parts : Fails(parts[i]) THEN Undefined
  ELSE FoldLeft(AddIntervals, affine, parts)

BodyInterval(body, box) ==
  SumOfParts(AffineBox(body, box), [i \in DOMAIN body.res |-> Enclosure(body.res[i], box)])

BodyVariables(body) ==
  DOMAIN body.t \cup UNION {Support(body.res[i]) : i \in DOMAIN body.res}

BodyValue(body, at) ==
  body.c + Dot(body.t, at)
  + FoldLeft(LAMBDA sum, e : sum + Value(e, at), 0, body.res)

---------------------------------------------------------------------------
(* Tightening by affine rows [id, body, lower, upper].  Every pass takes   *)
(* the rows in order and, in a row, its variables; a bound that becomes    *)
(* strictly tighter is kept, with the row that gave it.  Four passes; a    *)
(* pass that changes nothing leaves the later ones nothing to change.      *)

Passes == 4

(* The interval the row leaves to one of its variables.                    *)
Implied(row, n, box) ==
  LET rest == AffineBox([c |-> row.body.c, t |-> [m \in (DOMAIN row.body.t) \ {n} |-> row.body.t[m]]],
                        box)
  IN DivideScalar(AddIntervals(<<row.lower, row.upper>>, NegInterval(rest)), row.body.t[n])

Meet(s, t) == <<Most(<<s[1], t[1]>>), Least(<<s[2], t[2]>>)>>

Narrowed(state, row, n, interval) ==
  IF Fails(interval) \/ interval = state.box[n] THEN state
  ELSE [state EXCEPT !.box[n] = interval, !.support = @ \cup {row.id}]

TightenVariable(state, row, n) ==
  Narrowed(state, row, n, Meet(state.box[n], Implied(row, n, state.box)))

(* Only rows that meet the relevant variables count; their own become      *)
(* relevant.                                                               *)
TightenRow(state, row) ==
  IF DOMAIN row.body.t \cap state.relevant = {} THEN state
  ELSE FoldLeft(LAMBDA s, n : TightenVariable(s, row, n),
                [state EXCEPT !.relevant = @ \cup DOMAIN row.body.t],
                Listed(DOMAIN row.body.t))

UsableRow(row) ==
  /\ IsFinite(row.lower) \/ IsFinite(row.upper)
  /\ row.body.res = <<>>
  /\ DOMAIN row.body.t # {}

Tighten(rows, relevant, box) ==
  LET usable == SelectSeq(rows, UsableRow)
  IN FoldLeft(LAMBDA state, pass : FoldLeft(TightenRow, state, usable),
              [box |-> box, support |-> {}, relevant |-> relevant],
              [pass \in 1 .. Passes |-> pass])

---------------------------------------------------------------------------
(* An expression is a tree [op, kids, n]: a literal n, the Boolean n, a    *)
(* connective, or a count of n among its terms.  Every connective below    *)
(* the root is named by an auxiliary binary; equal connectives share it,   *)
(* as in the compiler's cache, since the auxiliary is named by the         *)
(* connective.                                                             *)
Expression(op, kids, n) == [op |-> op, kids |-> kids, n |-> n]
Literal(value) == Expression("lit", <<>>, IF value THEN 1 ELSE 0)
Atom(b) == Expression("bool", <<>>, b)

Binary(b) == <<"y", b>>          \* BooleanRecord::binary
ParentForm(parent) == IF parent = 0 THEN Const(1) ELSE Variable(Binary(parent))

Body(form) == [c |-> form.c, t |-> form.t, res |-> <<>>]
Row(form, lower, upper) == [body |-> Body(form), lower |-> lower, upper |-> upper]
AtLeast(form, k) == Row(form, k, Inf)
AtMost(form, k) == Row(form, -Inf, k)
Minus(a, b) == Plus(a, Scaled(-1, b))

---------------------------------------------------------------------------
(* What an expression means for an assignment of the Booleans.             *)

TrueKids(values) == Cardinality({i \in DOMAIN values : values[i]})

Meaning(op, n, values) ==
  CASE op = "not" -> ~values[1]
    [] op = "and" -> \A i \in DOMAIN values : values[i]
    [] op = "or" -> \E i \in DOMAIN values : values[i]
    [] op = "xor" -> values[1] # values[2]
    [] op = "implies" -> values[1] => values[2]
    [] op = "iff" -> values[1] = values[2]
    [] op = "exactly" -> TrueKids(values) = n
    [] op = "atmost" -> TrueKids(values) <= n
    [] op = "atleast" -> TrueKids(values) >= n

RECURSIVE Holds(_, _)
Holds(e, on) ==
  IF e.op = "lit" THEN e.n = 1
  ELSE IF e.op = "bool" THEN e.n \in on
  ELSE Meaning(e.op, e.n, [i \in DOMAIN e.kids |-> Holds(e.kids[i], on)])

---------------------------------------------------------------------------
(* connective_terms: nested terms of the root's own connective.            *)
RECURSIVE Flatten(_, _)
Flatten(op, e) ==
  IF e.op = op THEN FlattenSeq([i \in DOMAIN e.kids |-> Flatten(op, e.kids[i])])
  ELSE <<e>>

Terms(e) == IF e.op \in {"and", "or"} THEN Flatten(e.op, e) ELSE e.kids

(* The form that stands for a predicate and the rows that define it.       *)
Known(form) == [form |-> form, rows |-> {}]
Negated(p) == [p EXCEPT !.form = Complement(@)]
Auxiliary(e, role) == Variable(<<"z", e, role>>)

(* and: one auxiliary below every value and above their sum - (n - 1).     *)
AllOf(z, values) ==
  CASE Len(values) = 0 -> Known(Const(1))
    [] Len(values) = 1 -> Known(values[1])
    [] OTHER ->
         [form |-> z,
          rows |-> {AtMost(Minus(z, values[i]), 0) : i \in DOMAIN values}
                   \cup {AtLeast(Minus(z, Total(values)), 1 - Len(values))}]

(* or: not all of the negations.                                           *)
AnyOf(z, values) == Negated(AllOf(z, [i \in DOMAIN values |-> Complement(values[i])]))

(* xor                                                                     *)
Differ(z, a, b) ==
  [form |-> z,
   rows |-> {AtLeast(Plus(Minus(z, a), b), 0), AtLeast(Plus(Minus(z, b), a), 0),
             AtMost(Minus(Minus(z, a), b), 0), AtMost(Plus(Plus(z, a), b), 2)}]

AtMostOf(z, k, n, sum) ==
  [form |-> z, rows |-> {AtMost(Plus(sum, Scaled(n - k, z)), n),
                         AtLeast(Plus(sum, Scaled(k + 1, z)), k + 1)}]

AtLeastOf(z, k, n, sum) ==
  [form |-> z, rows |-> {AtLeast(Minus(sum, Scaled(k, z)), 0),
                         AtMost(Minus(sum, Scaled(n - k + 1, z)), k - 1)}]

Both(z, a, b) ==
  LET both == AllOf(z, <<a.form, b.form>>)
  IN [form |-> both.form, rows |-> both.rows \cup a.rows \cup b.rows]

(* cardinality: counts that always or never hold need no auxiliary.        *)
Counted(e, kind, values) ==
  LET n == Len(values)
      k == e.n
  IN CASE k > n -> Known(Const(IF kind = "atmost" THEN 1 ELSE 0))
       [] (kind = "atleast" /\ k = 0) \/ (kind = "atmost" /\ k = n) -> Known(Const(1))
       [] kind = "atmost" -> AtMostOf(Auxiliary(e, kind), k, n, Total(values))
       [] kind = "atleast" -> AtLeastOf(Auxiliary(e, kind), k, n, Total(values))

Connective(e, v) ==
  CASE e.op = "not" -> Known(Complement(v[1]))
    [] e.op = "and" -> AllOf(Auxiliary(e, "and"), v)
    [] e.op = "or" -> AnyOf(Auxiliary(e, "or"), v)
    [] e.op = "implies" -> AnyOf(Auxiliary(e, "or"), <<Complement(v[1]), v[2]>>)
    [] e.op = "xor" -> Differ(Auxiliary(e, "xor"), v[1], v[2])
    [] e.op = "iff" -> Negated(Differ(Auxiliary(e, "xor"), v[1], v[2]))
    [] e.op \in {"atmost", "atleast"} -> Counted(e, e.op, v)
    [] e.op = "exactly" ->
         IF e.n > Len(v) THEN Known(Const(0))
         ELSE Both(Auxiliary(e, "and"), Counted(e, "atleast", v), Counted(e, "atmost", v))

RowsOf(kids) == UNION {kids[i].rows : i \in DOMAIN kids}
FormsOf(kids) == [i \in DOMAIN kids |-> kids[i].form]

Joined(kids, own) == [form |-> own.form, rows |-> own.rows \cup RowsOf(kids)]

(* logic                                                                   *)
RECURSIVE Predicate(_)
Predicate(e) ==
  IF e.op = "lit" THEN Known(Const(e.n))
  ELSE IF e.op = "bool" THEN Known(Variable(Binary(e.n)))
  ELSE LET kids == [i \in DOMAIN Terms(e) |-> Predicate(Terms(e)[i])]
       IN Joined(kids, Connective(e, FormsOf(kids)))

---------------------------------------------------------------------------
(* assert_logic: the rows that make a constraint hold where its parent     *)
(* does; only that implication is needed, so the root has no auxiliary.    *)

(* assert_cardinality; the count of a satisfied "and" is all its terms.    *)
CountRows(kind, k, values, parent, hasParent) ==
  LET n == Len(values)
      sum == Total(values)
  IN IF ~hasParent
     THEN {Row(sum, IF kind = "atmost" THEN -Inf ELSE k, IF kind = "atleast" THEN Inf ELSE k)}
     ELSE {AtLeast(Minus(sum, Scaled(k, parent)), 0) : x \in {kind} \ {"atmost"}} \cup
          {AtMost(Plus(sum, Scaled(n - k, parent)), n) : x \in {kind} \ {"atleast"}}

RootRows(e, v, parent, hasParent) ==
  CASE e.op = "and" /\ hasParent -> {AtLeast(Minus(v[i], parent), 0) : i \in DOMAIN v}
    [] e.op = "and" /\ ~hasParent -> CountRows("atleast", Len(v), v, parent, FALSE)
    [] e.op = "or" -> CountRows("atleast", 1, v, parent, hasParent)
    [] e.op \in {"exactly", "atmost", "atleast"} -> CountRows(e.op, e.n, v, parent, hasParent)
    [] e.op = "implies" -> {AtLeast(Minus(Minus(v[2], v[1]), parent), -1)}
    [] e.op = "iff" /\ ~hasParent -> {Row(Minus(v[1], v[2]), 0, 0)}
    [] e.op = "xor" /\ ~hasParent -> {Row(Plus(v[1], v[2]), 1, 1)}
    [] e.op = "iff" -> {AtMost(Plus(Minus(v[1], v[2]), parent), 1),
                        AtMost(Plus(Minus(v[2], v[1]), parent), 1)}
    [] e.op = "xor" -> {AtLeast(Minus(Plus(v[1], v[2]), parent), 0),
                        AtMost(Plus(Plus(v[1], v[2]), parent), 2)}
    [] OTHER -> {AtLeast(Minus(v[1], parent), 0)}

CountOf(e, terms) ==
  CASE e.op = "and" -> Len(terms)
    [] e.op = "or" -> 1
    [] OTHER -> e.n

IsCount(e) == e.op \in {"or", "exactly", "atmost", "atleast"}

(* A count no assignment can miss asserts nothing; one above the number of *)
(* terms forbids the parent.                                               *)
LogicRows(e, parent) ==
  LET atomic == e.op \in {"lit", "bool", "not"}
      terms == IF atomic THEN <<e>> ELSE Terms(e)
      count == CountOf(e, terms)
      trivial == \/ e.op = "atmost" /\ count >= Len(terms)
                 \/ e.op = "atleast" /\ count = 0
                 \/ e.op = "and" /\ terms = <<>>
      kids == [i \in DOMAIN terms |-> Predicate(terms[i])]
  IN IF trivial THEN {}
     ELSE IF IsCount(e) /\ count > Len(terms) THEN {AtMost(ParentForm(parent), 0)}
     ELSE RowsOf(kids)
          \cup RootRows(e, FormsOf(kids), ParentForm(parent), parent # 0)

=============================================================================
