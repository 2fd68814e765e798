---------------------------- MODULE Expressions ----------------------------
(***************************************************************************)
(* The expression algebra of oximo-expr: the operators that build nodes in  *)
(* a model's arena, the polynomial classification of a node, the extraction *)
(* of its linear and quadratic terms, and its evaluation.                   *)
(*                                                                          *)
(* An arena is the sequence of its nodes; a node only names earlier nodes.  *)
(* Numbers are the integers modulo the prime P, read between -(P \div 2)    *)
(* and P \div 2: a field, so every identity of real arithmetic the rewrites *)
(* rely on holds, division is exact, and constants have a sign and an       *)
(* order.  Rounding and overflow are outside the model, so the second fold  *)
(* that the extractors make after an overflow never runs; so are constants  *)
(* that are not whole numbers, which act like the negative exponents here.  *)
(* Sequences of coefficients are functions from their variables.            *)
(***************************************************************************)
EXTENDS Integers, Sequences, FiniteSets, FiniteSetsExt, SequencesExt, Functions

CONSTANTS Vars,                 \* the variables, small integers: VarId
          P,                    \* the prime modulus of the numbers
          MaxEagerCoefficients, \* MAX_EAGER_COEFFICIENTS
          MaxEagerNodes         \* MAX_EAGER_NODES

ASSUME VarsAssumption == Vars \subseteq Nat /\ IsFiniteSet(Vars)
ASSUME PAssumption == P \in {3, 5, 7, 11}

VARIABLES arena,     \* the nodes pushed so far
          parameter, \* the current value of the one parameter
          handles    \* what each operator returned, oldest first

vars == <<arena, parameter, handles>>

---------------------------------------------------------------------------
(* Numbers. *)
Norm(n) == ((n + P \div 2) % P) - P \div 2
Numbers == -(P \div 2) .. P \div 2
Inverse1(n) == IF n = 0 THEN 0 ELSE CHOOSE m \in Numbers : Norm(m * n) = 1
Power(b, e) ==
  LET up[n \in 0 .. P] == IF n = 0 THEN 1 ELSE Norm(b * up[n - 1])
  IN  IF e >= 0 THEN up[e] ELSE Inverse1(up[-e])
Abs(n) == IF n < 0 THEN -n ELSE n
\* atan2 only has to be some function of two numbers.
Angle(y, x) == Norm(y * y + 3 * x - 1)

(* Nodes: ExprNode. *)
Const(c) == [op |-> "const", c |-> c]
Variable(v) == [op |-> "var", v |-> v]
Param == [op |-> "param"]
Linear(f, c) == [op |-> "linear", coeffs |-> f, c |-> c]
Node(op, args) == [op |-> op, args |-> args]

Terminal(n) == n.op \in {"const", "var", "linear"}
Leaf(n) == Terminal(n) \/ n.op = "param"
ScalarLeaf(n) == n.op \in {"const", "param"}
Args(n) == IF Leaf(n) THEN <<>> ELSE n.args

Push(a, n) == [a |-> Append(a, n), id |-> Len(a) + 1]
Same(a, id) == [a |-> a, id |-> id]

(* A pass over the arena, children first: the value of every node from the  *)
(* values Of computes for the ones it names.                                *)
Fold(a, Of(_, _)) ==
  FoldLeft(LAMBDA values, n : Append(values, Of(n, values)), <<>>, a)

---------------------------------------------------------------------------
(* Evaluation at a point x of the variables with the parameter at p. *)
EvalLinear(f, c, x) ==
  Norm(c + FoldFunction(+, 0, [v \in DOMAIN f |-> f[v] * x[v]]))

\* "exp" stands for every smooth function of one number.
ApplyUnary(op, v) ==
  CASE op = "neg" -> Norm(-v)
    [] op = "abs" -> Abs(v)
    [] op = "exp" -> Power(3, v + P \div 2)

EvalNode(n, values, x, p) ==
  LET arg == [i \in DOMAIN Args(n) |-> values[n.args[i]]]
  IN  CASE n.op = "const" -> n.c
        [] n.op = "var" -> x[n.v]
        [] n.op = "param" -> p
        [] n.op = "linear" -> EvalLinear(n.coeffs, n.c, x)
        [] n.op = "add" -> FoldLeft(LAMBDA s, v : Norm(s + v), 0, arg)
        [] n.op = "mul" -> FoldLeft(LAMBDA s, v : Norm(s * v), 1, arg)
        [] n.op = "min" -> Min(ToSet(arg))
        [] n.op = "max" -> Max(ToSet(arg))
        [] n.op = "pow" -> Power(arg[1], arg[2])
        [] n.op = "div" -> Norm(arg[1] * Inverse1(arg[2]))
        [] n.op = "atan2" -> Angle(arg[1], arg[2])
        [] OTHER -> ApplyUnary(n.op, arg[1])

\* The general evaluators: one postorder pass whose scratch holds a value
\* for every node.
EvalArray(a, x, p) == Fold(a, LAMBDA n, values : EvalNode(n, values, x, p))

\* The nodes a root reaches, children first, and the evaluator that keeps a
\* value only for those, used by nested evaluations and very large arenas.
RECURSIVE PostOrder(_, _, _)
PostOrder(a, id, seen) ==
  IF id \in ToSet(seen) THEN seen
  ELSE Append(FoldLeft(LAMBDA s, i : PostOrder(a, i, s), seen, Args(a[id])), id)
EvalHashed(a, id, x, p) ==
  FoldLeft(LAMBDA values, i :
             [k \in (DOMAIN values) \cup {i} |->
                IF k = i THEN EvalNode(a[i], values, x, p) ELSE values[k]],
           <<>>, PostOrder(a, id, <<>>))[id]

\* The shortcut for a root over distinct leaves, and the negation spine that
\* is stripped before it.
Shallow(a, id) ==
  LET kids == Args(a[id])
  IN  /\ \A i \in DOMAIN kids : Leaf(a[kids[i]])
      /\ a[id].op \in {"add", "mul", "min", "max"} =>
           \A i \in 1 .. Len(kids) - 1 : kids[i] < kids[i + 1]
      /\ a[id].op \notin {"pow", "div", "atan2"}
Spine(a) ==
  Fold(a, LAMBDA n, below :
            IF n.op = "neg"
            THEN [id |-> below[n.args[1]].id, odd |-> ~below[n.args[1]].odd]
            ELSE [id |-> Len(below) + 1, odd |-> FALSE])
Evaluate(a, id, x, p) ==
  LET root == Spine(a)[id]
      leaves == [i \in DOMAIN a |->
                   IF Leaf(a[i]) THEN EvalNode(a[i], <<>>, x, p) ELSE 0]
      value == IF Shallow(a, root.id) THEN EvalNode(a[root.id], leaves, x, p)
                                     ELSE EvalArray(a, x, p)[root.id]
  IN  IF root.odd THEN Norm(-value) ELSE value

---------------------------------------------------------------------------
(* Classification: the degree buckets 0, 1, 2 and 3 for "higher". *)
Higher == 3
AddDegree(d, e) == Max({d, e})
MulDegree(d, e) ==
  IF Higher \in {d, e} THEN Higher ELSE IF d + e > 2 THEN Higher ELSE d + e
PowDegree(d, n) ==
  CASE n = 0 \/ d = 0 -> 0
    [] n = 1 /\ d # 0 -> d
    [] d = 1 /\ n = 2 -> 2
    [] OTHER -> Higher

\* A whole, nonnegative constant exponent, the only one that keeps a
\* polynomial; -1 for every other exponent.
Exponent(a, n) ==
  LET e == a[n.args[2]] IN IF e.op = "const" /\ e.c >= 0 THEN e.c ELSE -1

Degrees(a) ==
  Fold(a, LAMBDA n, below :
    CASE ScalarLeaf(n) -> 0
      [] n.op = "var" -> 1
      [] n.op = "linear" -> IF DOMAIN n.coeffs = {} THEN 0 ELSE 1
      [] n.op \in {"add", "neg"} ->
           FoldLeft(LAMBDA d, i : AddDegree(d, below[i]), 0, n.args)
      [] n.op = "mul" ->
           FoldLeft(LAMBDA d, i : MulDegree(d, below[i]), 0, n.args)
      [] n.op = "pow" ->
           IF Exponent(a, n) < 0 THEN Higher
           ELSE PowDegree(below[n.args[1]], Exponent(a, n))
      [] OTHER -> Higher)
\* What ExpressionAnalysis says of a node: its degree, the operators below it,
\* and whether its value can move with the variables or with the parameter.
Summaries(a) ==
  Fold(a, LAMBDA n, below :
    LET kids == {below[i] : i \in ToSet(Args(n))}
        variable == n.op = "var" \/ (n.op = "linear" /\ DOMAIN n.coeffs # {})
                    \/ \E k \in kids : k.variable
        operator == IF n.op = "pow" /\ below[n.args[2]].variable THEN "variable pow"
                    ELSE n.op
        degree == CASE Leaf(n) -> IF variable THEN 1 ELSE 0
                    [] n.op \in {"add", "neg"} ->
                         FoldLeft(LAMBDA d, i : AddDegree(d, below[i].degree), 0, n.args)
                    [] n.op = "mul" ->
                         FoldLeft(LAMBDA d, i : MulDegree(d, below[i].degree), 0, n.args)
                    [] n.op = "pow" ->
                         IF Exponent(a, n) < 0 THEN Higher
                         ELSE PowDegree(below[n.args[1]].degree, Exponent(a, n))
                    [] OTHER -> Higher
    IN  [degree |-> degree,
         operators |-> UNION {k.operators : k \in kids}
                       \cup (IF Leaf(n) THEN {} ELSE {operator}),
         variable |-> variable,
         parameter |-> n.op = "param" \/ \E k \in kids : k.parameter,
         nonsmooth |-> \/ \E k \in kids : k.nonsmooth
                       \/ n.op \in {"min", "max", "abs"} /\ variable])

Class(d) == IF d <= 1 THEN "Linear" ELSE IF d = 2 THEN "Quadratic" ELSE "Nonlinear"

---------------------------------------------------------------------------
(* Linear terms: LinearTerms with coefficients kept even when they are 0,   *)
(* or Nothing.                                                              *)
Nothing == [ok |-> FALSE]
Terms(f, c) == [ok |-> TRUE, coeffs |-> f, c |-> c]
Constant(c) == Terms(<<>>, c)

Plus(f, g) ==
  [v \in (DOMAIN f) \cup (DOMAIN g) |->
     Norm((IF v \in DOMAIN f THEN f[v] ELSE 0)
        + (IF v \in DOMAIN g THEN g[v] ELSE 0))]
Times(f, s) == [v \in DOMAIN f |-> Norm(f[v] * s)]
AddTerms(t, u) == Terms(Plus(t.coeffs, u.coeffs), Norm(t.c + u.c))
ScaleTerms(t, s) == Terms(Times(t.coeffs, s), Norm(t.c * s))

MultiplyLinear(t, u) ==
  CASE ~t.ok \/ ~u.ok -> Nothing
    [] t.ok /\ u.ok /\ DOMAIN t.coeffs = {} -> ScaleTerms(u, t.c)
    [] t.ok /\ u.ok /\ DOMAIN t.coeffs # {} ->
         IF DOMAIN u.coeffs = {} THEN ScaleTerms(t, u.c) ELSE Nothing

AffinePower(t, e) ==
  IF e = 1 THEN t
  ELSE IF DOMAIN t.coeffs = {} THEN Constant(Power(t.c, e))
  ELSE Nothing

TerminalTerms(n) ==
  CASE n.op = "const" -> Constant(n.c)
    [] n.op = "var" -> Terms([v \in {n.v} |-> 1], 0)
    [] n.op = "linear" -> Terms(n.coeffs, n.c)

\* The fold of as_linear over every node; p is the parameter's value, or
\* Nothing where parameters stay symbolic.
Linears(a, p) ==
  Fold(a, LAMBDA n, below :
    LET kids == [i \in DOMAIN Args(n) |-> below[n.args[i]]]
        all == \A i \in DOMAIN kids : kids[i].ok
    IN CASE Terminal(n) -> TerminalTerms(n)
         [] n.op = "param" -> IF p.ok THEN Constant(p.c) ELSE Nothing
         [] n.op = "neg" -> IF all THEN ScaleTerms(kids[1], -1) ELSE Nothing
         [] n.op = "add" ->
              IF all THEN FoldLeft(AddTerms, Constant(0), kids) ELSE Nothing
         [] n.op = "mul" -> FoldLeft(MultiplyLinear, Constant(1), kids)
         [] n.op = "pow" ->
              LET e == Exponent(a, n)
              IN  IF e < 0 THEN Nothing
                  ELSE IF e = 0 THEN Constant(1)
                  ELSE IF kids[1].ok THEN AffinePower(kids[1], e)
                  ELSE Nothing
         [] OTHER -> Nothing)

\* The allocation-free route for sums of terminals and scaled variables,
\* tried before the fold.
FlatScaledVar(a, kids, p) ==
  LET scalar(id) == CASE a[id].op = "const" -> Constant(a[id].c)
                      [] a[id].op = "param" -> p
                      [] OTHER -> Nothing
      scaled(v, s) == IF s.ok THEN Terms([w \in {v} |-> s.c], 0) ELSE Nothing
  IN  CASE Len(kids) # 2 -> Nothing
        [] Len(kids) = 2 /\ a[kids[2]].op = "var" -> scaled(a[kids[2]].v, scalar(kids[1]))
        [] Len(kids) = 2 /\ a[kids[2]].op # "var" ->
             IF a[kids[1]].op = "var" THEN scaled(a[kids[1]].v, scalar(kids[2]))
                                      ELSE Nothing
FlatLinear(a, kids, p) ==
  LET term(id) == CASE Terminal(a[id]) -> TerminalTerms(a[id])
                    [] a[id].op = "param" -> p
                    [] a[id].op = "mul" -> FlatScaledVar(a, a[id].args, p)
                    [] OTHER -> Nothing
      terms == [i \in DOMAIN kids |-> term(kids[i])]
  IN  IF \A i \in DOMAIN kids : terms[i].ok
      THEN FoldLeft(AddTerms, Constant(0), terms)
      ELSE Nothing

Either(t, u) == IF t.ok THEN t ELSE u
AsLinear(a, id, p) ==
  Either(IF a[id].op = "add" THEN FlatLinear(a, a[id].args, p) ELSE Nothing,
         Linears(a, p)[id])

---------------------------------------------------------------------------
(* Building nodes.  Every operator returns the new arena and the node.      *)
PushLinear(a, t) ==
  LET support == {v \in DOMAIN t.coeffs : t.coeffs[v] # 0}
  IN  IF support = {} THEN Push(a, Const(t.c))
      ELSE Push(a, Linear([v \in support |-> t.coeffs[v]], t.c))

Small(t) == t.ok /\ Cardinality(DOMAIN t.coeffs) <= MaxEagerCoefficients

\* SmallLinear: a terminal, or a flat numeric sum of small support.
TermsOf(n) == IF Terminal(n) THEN TerminalTerms(n) ELSE Nothing
SmallSum(t, u) == IF t.ok /\ u.ok /\ Small(AddTerms(t, u)) THEN AddTerms(t, u) ELSE Nothing
Operand(a, id) ==
  IF a[id].op = "add"
  THEN FoldLeft(LAMBDA t, i : SmallSum(t, TermsOf(a[i])), Constant(0), a[id].args)
  ELSE IF Small(TermsOf(a[id])) THEN TermsOf(a[id]) ELSE Nothing

\* bounded_affine: affine arithmetic over at most MaxEagerNodes nodes,
\* counting a shared node every time it is reached.
RECURSIVE Bounded(_, _, _, _)
Bounded(a, stack, nodes, coefficients) ==
  \/ stack = <<>>
  \/ LET n == a[Last(stack)]
         rest == Front(stack)
         below == IF n.op \in {"add", "mul", "neg", "pow"} THEN n.args ELSE <<>>
         count == coefficients + (IF n.op = "var" THEN 1
                                  ELSE IF n.op = "linear"
                                       THEN Cardinality(DOMAIN n.coeffs) ELSE 0)
     IN  /\ nodes + 1 <= MaxEagerNodes
         /\ Terminal(n) \/ n.op \in {"add", "mul", "neg", "pow"}
         /\ n.op \in {"add", "mul"} =>
              /\ Len(below) <= MaxEagerNodes - (nodes + 1)
              /\ Len(rest) + Len(below) <= MaxEagerNodes
         /\ count <= MaxEagerCoefficients
         /\ Bounded(a, rest \o below, nodes + 1, count)

\* small_affine: counts coefficients only while every operand is a terminal.
SmallAffine(a, ids) ==
  LET terminals == SelectSeq(ids, LAMBDA i : Terminal(a[i]))
      sizes == [i \in DOMAIN ids |->
                  IF Terminal(a[ids[i]])
                  THEN Cardinality(DOMAIN TerminalTerms(a[ids[i]]).coeffs) ELSE 0]
  IN  IF terminals = ids
      THEN FoldLeft(LAMBDA s, k : s + k, 0, sizes) <= MaxEagerCoefficients
      ELSE Bounded(a, ids, 0, 0)

Numeric(a, id) == AsLinear(a, id, Nothing)

\* add_into: merge two small operands, else two short affine ones, else a sum.
Merge(a, l, r, small, left, right) ==
  IF small.ok THEN PushLinear(a, small)
  ELSE IF SmallAffine(a, <<l, r>>) /\ left.ok /\ right.ok
  THEN PushLinear(a, AddTerms(left, right))
  ELSE Push(a, Node("add", <<l, r>>))
AddInto(a, l, r) ==
  Merge(a, l, r,
        SmallSum(Operand(a, l), IF a[r].op = "add" THEN Operand(a, r) ELSE TermsOf(a[r])),
        Numeric(a, l), Numeric(a, r))

\* Short affine operands are scaled in place.
Scalable(a, id, t) == SmallAffine(a, <<id>>) /\ t.ok
ScaleOr(a, id, t, s, other) ==
  IF Scalable(a, id, t) THEN PushLinear(a, ScaleTerms(t, s)) ELSE other
NegInto(a, id) == ScaleOr(a, id, Numeric(a, id), -1, Push(a, Node("neg", <<id>>)))

AddTo(l, r) == AddInto(r.a, l, r.id)
SubInto(a, l, r) == AddTo(l, NegInto(a, r))

AddN(a, ids) == IF Len(ids) = 1 THEN Same(a, ids[1]) ELSE Push(a, Node("add", ids))

\* compact_symbolic_numeric_children: rebuild the nodes above a parameter,
\* with every maximal numeric region below them as one linear node.
SymbolFree(a) ==
  Fold(a, LAMBDA n, below :
            /\ n.op # "param"
            /\ n.op \in {"add", "mul", "neg", "pow"} =>
                 \A i \in DOMAIN n.args : below[n.args[i]])
Bind(f, k, v) == [i \in (DOMAIN f) \cup {k} |-> IF i = k THEN v ELSE f[i]]
Replaced(to, id, r) == [a |-> r.a, to |-> Bind(to, id, r.id)]
LinearNode(a, id, t) == IF t.ok THEN PushLinear(a, t) ELSE Same(a, id)
Rebuilt(st, id, args) ==
  Replaced(st.to, id, IF args = st.a[id].args THEN Same(st.a, id)
                      ELSE Push(st.a, Node(st.a[id].op, args)))
Renamed(st, id) == Rebuilt(st, id, [i \in DOMAIN st.a[id].args |-> st.to[st.a[id].args[i]]])
RECURSIVE Rewrite(_, _)
Rewrite(st, id) ==
  CASE id \in DOMAIN st.to -> st
    [] id \notin DOMAIN st.to /\ Leaf(st.a[id]) -> Replaced(st.to, id, Same(st.a, id))
    [] OTHER ->
         IF SymbolFree(st.a)[id]
         THEN Replaced(st.to, id, LinearNode(st.a, id, Numeric(st.a, id)))
         ELSE Renamed(FoldLeft(Rewrite, st, st.a[id].args), id)
Reached(st, id) == [a |-> st.a, id |-> st.to[id]]
CompactSymbolicNumericChildren(a, id) == Reached(Rewrite([a |-> a, to |-> <<>>], id), id)

\* compact_parameter_parent: every compound child of a sum, product or
\* negation that has a parameter among its children becomes linear, or none.
ExtractChild(st, i) ==
  IF Leaf(st.a[i]) \/ i \in DOMAIN st.to THEN st
  ELSE Replaced(st.to, i, PushLinear(st.a, Numeric(st.a, i)))
Substituted(st, n, id) ==
  IF st.to = <<>> THEN Same(st.a, id)
  ELSE Push(st.a, Node(n.op, [k \in DOMAIN n.args |->
         IF n.args[k] \in DOMAIN st.to THEN st.to[n.args[k]] ELSE n.args[k]]))
ChildrenAreLinear(a, id) ==
  \A i \in ToSet(a[id].args) : Leaf(a[i]) \/ Numeric(a, i).ok
CompactParameterParent(a, id) ==
  Substituted(FoldLeft(ExtractChild, [a |-> a, to |-> <<>>], a[id].args), a[id], id)

OverParameter(a, n) ==
  n.op \in {"add", "mul", "neg"} /\ \E i \in ToSet(n.args) : a[i].op = "param"
CompactNumericInto(a, id) ==
  CASE Leaf(a[id]) -> Same(a, id)
    [] ~Leaf(a[id]) /\ Class(Degrees(a)[id]) # "Linear" -> Same(a, id)
    [] OTHER ->
         IF OverParameter(a, a[id]) /\ ChildrenAreLinear(a, id)
         THEN CompactParameterParent(a, id)
         ELSE IF ~OverParameter(a, a[id]) /\ Numeric(a, id).ok
         THEN LinearNode(a, id, Numeric(a, id))
         ELSE CompactSymbolicNumericChildren(a, id)

SmallScalar(a, id) ==
  CASE ScalarLeaf(a[id]) -> TRUE
    [] a[id].op = "var" -> FALSE
    [] a[id].op = "linear" -> DOMAIN a[id].coeffs = {}
    [] OTHER -> Degrees(a)[id] = 0

RECURSIVE MulInto(_, _, _)
ProductOf(a, t, l, r) == IF t.ok THEN PushLinear(a, t) ELSE MulInto(a, l, r)
\* The factors after compaction, unless compaction changed neither.
Product(l, r, left, right) ==
  IF left.id = l /\ right.id = r THEN Push(right.a, Node("mul", <<l, r>>))
  ELSE ProductOf(right.a, MultiplyLinear(Numeric(right.a, left.id), Numeric(right.a, right.id)),
                 left.id, right.id)
CompactBoth(l, r, left) ==
  Product(l, r, left, IF l = r THEN left ELSE CompactNumericInto(left.a, r))
Scales(a, l, r) == a[l].op = "const" /\ Scalable(a, r, Numeric(a, r))
ScaleInto(a, c, id) == PushLinear(a, ScaleTerms(Numeric(a, id), c))
MulInto(a, l, r) ==
  IF Scales(a, l, r) THEN ScaleInto(a, a[l].c, r)
  ELSE IF Scales(a, r, l) THEN ScaleInto(a, a[r].c, l)
  ELSE IF \E i \in {l, r} : ScalarLeaf(a[i]) \/ SmallScalar(a, i)
  THEN Push(a, Node("mul", <<l, r>>))
  ELSE CompactBoth(l, r, CompactNumericInto(a, l))

PushPow(base, e) == Push(base.a, Node("pow", <<base.id, e>>))
PowInto(a, b, e) ==
  PushPow(IF a[e].op = "const" /\ a[e].c >= 2 THEN CompactNumericInto(a, b)
                                              ELSE Same(a, b), e)

DivideBy(a, n, inv) ==
  ScaleOr(a, n, Numeric(a, n), inv, MulInto(Append(a, Const(inv)), n, Len(a) + 1))
DivInto(a, n, d) ==
  IF a[d].op = "const" /\ a[d].c # 0 THEN DivideBy(a, n, Inverse1(a[d].c))
                                     ELSE Push(a, Node("div", <<n, d>>))

\* Extrema take over the children of a nested node of the same kind.
Extrema(a, kind, ids) ==
  LET flat == FlattenSeq([i \in DOMAIN ids |->
                IF a[ids[i]].op = kind THEN a[ids[i]].args ELSE <<ids[i]>>])
  IN  IF Len(flat) = 1 THEN Same(a, flat[1]) ELSE Push(a, Node(kind, flat))

\* Constant folding of one node; sums and products are left alone.
Simplify(a, id) ==
  IF /\ a[id].op \in {"neg", "abs", "pow", "div", "atan2", "min", "max"}
     /\ \A i \in ToSet(a[id].args) : a[i].op = "const"
  THEN Push(a, Const(EvalArray(a, <<>>, 0)[id]))
  ELSE Same(a, id)

\* AffineBuilder::build: numeric terms gather in a segment, flushed as one
\* linear node before every term that stays symbolic.
\* Fault: the segment's constant survives its flush.
FlushKeepsConstant(s) ==
  IF DOMAIN s.coeffs = {} /\ s.c = 0 THEN s
  ELSE LET r == PushLinear(s.a, Terms(s.coeffs, s.c))
       IN  [a |-> r.a, coeffs |-> <<>>, c |-> s.c, kids |-> Append(s.kids, r.id)]
Flush(s) ==
  IF DOMAIN s.coeffs = {} /\ s.c = 0 THEN s
  ELSE LET r == PushLinear(s.a, Terms(s.coeffs, s.c))
       IN  [a |-> r.a, coeffs |-> <<>>, c |-> 0, kids |-> Append(s.kids, r.id)]
AddTerm(s, term) ==
  LET t == Numeric(s.a, term.id)
      f == Flush(s)
      scalar == Push(f.a, Const(term.k))
      scaled == Push(scalar.a, Node("mul", <<scalar.id, term.id>>))
      child == IF term.k = 1 THEN Same(f.a, term.id) ELSE scaled
  IN  IF t.ok
      THEN [s EXCEPT !.coeffs = Plus(s.coeffs, Times(t.coeffs, term.k)),
                     !.c = Norm(s.c + t.c * term.k)]
      ELSE [f EXCEPT !.a = child.a, !.kids = Append(f.kids, child.id)]
BuildAffine(a, terms, constant) ==
  LET s == Flush(FoldLeft(AddTerm,
             [a |-> a, coeffs |-> <<>>, c |-> constant, kids |-> <<>>], terms))
  IN  IF s.kids = <<>> THEN Push(s.a, Const(0)) ELSE AddN(s.a, s.kids)
Compact(a, id) ==
  IF Terminal(a[id]) THEN Same(a, id)
                     ELSE BuildAffine(a, <<[id |-> id, k |-> 1]>>, 0)

---------------------------------------------------------------------------
(* Quadratic terms: Poly, with the zero entries the products leave behind.  *)
Poly(q, f, c) == [ok |-> TRUE, quad |-> q, linear |-> f, c |-> c]
ConstantPoly(c) == Poly(<<>>, <<>>, c)
Pair(v, w) == IF v <= w THEN <<v, w>> ELSE <<w, v>>

IsLinearPoly(p) == DOMAIN p.quad = {}
IsConstantPoly(p) == DOMAIN p.quad = {} /\ DOMAIN p.linear = {}
ScalePoly(p, s) == Poly(Times(p.quad, s), Times(p.linear, s), Norm(p.c * s))
AddPoly(p, q) ==
  Poly(Plus(p.quad, q.quad), Plus(p.linear, q.linear), Norm(p.c + q.c))

MulLinearPoly(p, q) ==
  LET cross == (DOMAIN p.linear) \X (DOMAIN q.linear)
      coefficient(k) ==
        FoldFunction(+, 0, [vw \in {u \in cross : Pair(u[1], u[2]) = k} |->
                              Norm(p.linear[vw[1]] * q.linear[vw[2]])])
  IN  Poly([k \in {Pair(vw[1], vw[2]) : vw \in cross} |-> Norm(coefficient(k))],
           Plus(Times(q.linear, p.c), Times(p.linear, q.c)),
           Norm(p.c * q.c))
\* Fault: the mixed products of a square are taken once.
SquareOnce(p) ==
  LET ks == {k \in (DOMAIN p.linear) \X (DOMAIN p.linear) : k[1] <= k[2]}
  IN  Poly([k \in ks |-> Norm(p.linear[k[1]] * p.linear[k[2]])],
           Times(p.linear, Norm(2 * p.c)), Norm(p.c * p.c))
SquareLinearPoly(p) ==
  LET ks == {k \in (DOMAIN p.linear) \X (DOMAIN p.linear) : k[1] <= k[2]}
  IN  Poly([k \in ks |-> Norm(p.linear[k[1]] * p.linear[k[2]]
                              * (IF k[1] = k[2] THEN 1 ELSE 2))],
           Times(p.linear, Norm(2 * p.c)), Norm(p.c * p.c))

\* A node that is one monomial of degree at most two.  The budgets on depth
\* and visits only decide whether this shortcut is taken.
Monomial(vs, k) == [ok |-> TRUE, vs |-> vs, k |-> Norm(k)]
Monomials(a, p) ==
  Fold(a, LAMBDA n, below :
    CASE n.op = "const" -> Monomial(<<>>, n.c)
      [] n.op = "param" -> Monomial(<<>>, p)
      [] n.op = "var" -> Monomial(<<n.v>>, 1)
      [] n.op = "linear" ->
           IF DOMAIN n.coeffs = {} THEN Monomial(<<>>, n.c)
           ELSE IF Cardinality(DOMAIN n.coeffs) = 1 /\ n.c = 0
           THEN LET v == CHOOSE w \in DOMAIN n.coeffs : TRUE
                IN  Monomial(<<v>>, n.coeffs[v])
           ELSE Nothing
      [] n.op = "neg" ->
           LET m == below[n.args[1]]
           IN  IF m.ok THEN Monomial(m.vs, -m.k) ELSE Nothing
      [] n.op = "mul" ->
           FoldLeft(LAMBDA m, i :
                      IF m.ok /\ below[i].ok /\ Len(m.vs) + Len(below[i].vs) <= 2
                      THEN Monomial(m.vs \o below[i].vs, m.k * below[i].k)
                      ELSE Nothing, Monomial(<<>>, 1), n.args)
      [] n.op = "pow" ->
           LET m == below[n.args[1]]
           IN  IF Exponent(a, n) = 2 /\ m.ok /\ Len(m.vs) <= 1
               THEN Monomial(m.vs \o m.vs, m.k * m.k) ELSE Nothing
      [] OTHER -> Nothing)
AddMonomial(p, m) ==
  LET zeros == [v \in ToSet(m.vs) |-> 0]
  IN  CASE Len(m.vs) = 0 -> [p EXCEPT !.c = Norm(p.c + m.k)]
        [] Len(m.vs) = 1 ->
             [p EXCEPT !.linear = Plus(p.linear, [v \in ToSet(m.vs) |-> m.k])]
        [] Len(m.vs) = 2 ->
             [p EXCEPT !.quad = Plus(p.quad, [k \in {Pair(m.vs[1], m.vs[2])} |-> m.k]),
                       !.linear = Plus(p.linear, zeros)]

TerminalPoly(n, p) ==
  IF n.op = "param" THEN ConstantPoly(p)
  ELSE LET t == TerminalTerms(n) IN Poly(<<>>, t.coeffs, t.c)

\* The fold of as_poly: sums take single monomials directly, and the product
\* of a node with itself is a square.
Polys(a, p) ==
  LET monomials == Monomials(a, p)
      product(s, q) ==
        CASE ~s.ok \/ ~q.ok -> Nothing
          [] s.ok /\ q.ok /\ IsConstantPoly(s) -> ScalePoly(q, s.c)
          [] s.ok /\ q.ok /\ ~IsConstantPoly(s) ->
               IF IsConstantPoly(q) THEN ScalePoly(s, q.c)
               ELSE IF IsLinearPoly(s) /\ IsLinearPoly(q) THEN MulLinearPoly(s, q)
               ELSE Nothing
      square(q) == IF q.ok /\ IsLinearPoly(q) THEN SquareLinearPoly(q) ELSE Nothing
  IN  Fold(a, LAMBDA n, below :
        CASE Leaf(n) -> TerminalPoly(n, p)
          [] n.op = "add" ->
               FoldLeft(LAMBDA s, i :
                          IF ~s.ok THEN Nothing
                          ELSE IF monomials[i].ok THEN AddMonomial(s, monomials[i])
                          ELSE IF below[i].ok THEN AddPoly(s, below[i]) ELSE Nothing,
                        ConstantPoly(0), n.args)
          [] n.op = "mul" ->
               IF Len(n.args) = 2 /\ n.args[1] = n.args[2]
               THEN square(below[n.args[1]])
               ELSE FoldLeft(LAMBDA s, i : product(s, below[i]), ConstantPoly(1), n.args)
          [] n.op = "neg" ->
               IF below[n.args[1]].ok THEN ScalePoly(below[n.args[1]], -1) ELSE Nothing
          [] n.op = "pow" ->
               LET e == Exponent(a, n)
               IN  CASE e = 0 -> ConstantPoly(1)
                     [] e = 1 -> below[n.args[1]]
                     [] e = 2 -> square(below[n.args[1]])
                     [] OTHER -> Nothing
          [] OTHER -> Nothing)

\* canonicalize: the lower triangle of the Hessian, zeros dropped.
Canonicalize(p) ==
  LET qs == {k \in DOMAIN p.quad : p.quad[k] # 0}
      ls == {v \in DOMAIN p.linear : p.linear[v] # 0}
  IN  [ok |-> TRUE,
       hessian |-> [rc \in {<<k[2], k[1]>> : k \in qs} |->
                      Norm((IF rc[1] = rc[2] THEN 2 ELSE 1) * p.quad[<<rc[2], rc[1]>>])],
       linear |-> [v \in ls |-> p.linear[v]],
       c |-> p.c]

CONSTANT MinTerms \* MIN_TERMS of dense_expanded_quadratic
DenseExpandedQuadratic(a, id, p) ==
  LET kids == Args(a[id])
      monomials == Monomials(a, p)
      wide == a[id].op = "add" /\ Len(kids) >= MinTerms
      nested == /\ a[id].op = "add" /\ ~wide /\ Len(kids) = 2
                /\ a[kids[1]].op = "linear" /\ a[kids[2]].op = "add"
                /\ Len(a[kids[2]].args) >= MinTerms
      affine == nested \/ (wide /\ a[kids[1]].op = "linear")
      terms == IF nested THEN a[kids[2]].args
               ELSE IF affine THEN Tail(kids) ELSE kids
      start == IF affine THEN TerminalPoly(a[kids[1]], p) ELSE ConstantPoly(0)
  IN  IF /\ wide \/ nested
         /\ \A i \in DOMAIN terms : monomials[terms[i]].ok
                                    /\ Len(monomials[terms[i]].vs) = 2
      THEN Canonicalize(FoldLeft(LAMBDA s, i : AddMonomial(s, monomials[i]), start, terms))
      ELSE Nothing
ExtractQuadratic(a, id, p) ==
  LET dense == DenseExpandedQuadratic(a, id, p)
      poly == Polys(a, p)[id]
  IN  IF dense.ok THEN dense ELSE IF poly.ok THEN Canonicalize(poly) ELSE Nothing

---------------------------------------------------------------------------
(* split_linear: the affine part of a sum, and its signed other terms. *)
Affinity(a, p) ==
  LET linear == Linears(a, p)
  IN  Fold(a, LAMBDA n, below :
             IF n.op \in {"add", "neg"} THEN \A i \in DOMAIN n.args : below[n.args[i]]
             ELSE linear[Len(below) + 1].ok)
RECURSIVE Split(_, _, _, _)
Split(a, p, stack, s) ==
  IF stack = <<>> THEN s
  ELSE LET top == Last(stack)
           n == a[top.id]
           linear == Linears(a, p)[top.id]
           kids == [i \in DOMAIN Args(n) |->
                      [id |-> n.args[i], sign |-> IF n.op = "neg" THEN -top.sign ELSE top.sign]]
       IN  CASE Affinity(a, p)[top.id] ->
                  Split(a, p, Front(stack),
                        [s EXCEPT !.terms = AddTerms(s.terms, ScaleTerms(linear, top.sign))])
             [] ~Affinity(a, p)[top.id] /\ n.op \in {"add", "neg"} ->
                  Split(a, p, Front(stack) \o kids, s)
             [] OTHER -> Split(a, p, Front(stack), [s EXCEPT !.residual = Append(@, top)])
SplitLinear(a, id, p) ==
  LET whole == AsLinear(a, id, p)
      none == [terms |-> Constant(0), residual |-> <<>>]
  IN  IF whole.ok THEN [none EXCEPT !.terms = whole]
      ELSE IF a[id].op \notin {"add", "neg"}
      THEN [none EXCEPT !.residual = <<[id |-> id, sign |-> 1]>>]
      ELSE Split(a, p, <<[id |-> id, sign |-> 1]>>, none)

---------------------------------------------------------------------------
(* CapturedExpr::new: the nodes a root reaches, copied in postorder. *)
Capture(a, root) ==
  LET order == PostOrder(a, root, <<>>)
      place(i) == CHOOSE k \in DOMAIN order : order[k] = i
  IN  [k \in DOMAIN order |->
         LET n == a[order[k]]
         IN  IF Leaf(n) THEN n
             ELSE Node(n.op, [j \in DOMAIN n.args |-> place(n.args[j])])]

---------------------------------------------------------------------------
(* The handles a program holds: the node, its static degree, and, as a      *)
(* history variable, the number the program means by it at every sample.    *)
CONSTANTS Points,   \* the points at which meanings are compared
          Settings, \* the values the parameter may take
          Scalars,  \* the plain numbers of a program
          MaxHandles \* bound: the handles a program holds

ASSUME SamplesAssumption ==
  Points \subseteq [Vars -> Numbers] /\ Settings \subseteq Numbers /\ Scalars \subseteq Numbers

Samples == Points \X Settings

\* The sealed degrees 0 Constant, 1 Affine, 2 Quadratic, 3 Nonlinear, 4 Dynamic.
Dynamic == 4
AddStatic(s, t) == Max({s, t})
MulStatic(s, t) ==
  IF Dynamic \in {s, t} THEN Dynamic ELSE IF s + t > 2 THEN Higher ELSE s + t
DivStatic(s, t) == IF Dynamic \in {s, t} THEN Dynamic ELSE Higher

Returned(st, r, static, meaning(_)) ==
  [a |-> r.a,
   hs |-> Append(st.hs, [id |-> r.id, static |-> static,
                         meaning |-> [s \in Samples |-> meaning(s)]])]

\* What the operators mean on numbers, and the degrees of their results.
NumAdd(v, w) == Norm(v + w)
NumSub(v, w) == Norm(v - w)
NumMul(v, w) == Norm(v * w)
NumDiv(v, w) == Norm(v * Inverse1(w))
NumMin(v, w) == Min({v, w})
NumMax(v, w) == Max({v, w})
PowStatic(s, t) == Dynamic
HigherStatic(s, t) == Higher

\* Expr <op> Expr: Build makes the node.
Binary(st, Build(_, _, _), Meant(_, _), Static(_, _), g, h) ==
  Returned(st, Build(st.a, g.id, h.id), Static(g.static, h.static),
           LAMBDA s : Meant(g.meaning[s], h.meaning[s]))
\* Expr <op> number: the number is pushed as a constant first.
WithScalar(st, Build(_, _, _), Meant(_, _), static, g, k) ==
  Returned(st, Build(Append(st.a, Const(k)), g.id, Len(st.a) + 1), static,
           LAMBDA s : Meant(g.meaning[s], k))
\* number <op> Expr.
ScalarWith(st, Build(_, _, _), Meant(_, _), static, k, g) ==
  Returned(st, Build(Append(st.a, Const(k)), Len(st.a) + 1, g.id), static,
           LAMBDA s : Meant(k, g.meaning[s]))
\* -expr, the explicit negation node, and the other elementary functions.
Unary(st, Build(_, _), Meant(_), static, g) ==
  Returned(st, Build(st.a, g.id), static, LAMBDA s : Meant(g.meaning[s]))
NumNeg(v) == Norm(-v)
NegNode(a, id) == Push(a, Node("neg", <<id>>))
AbsNode(a, id) == Push(a, Node("abs", <<id>>))
Atan2Node(a, y, x) == Push(a, Node("atan2", <<y, x>>))
MinInto(a, l, r) == Extrema(a, "min", <<l, r>>)
MaxInto(a, l, r) == Extrema(a, "max", <<l, r>>)
Total(gs, s) == FoldLeft(LAMBDA t, g : Norm(t + g.meaning[s]), 0, gs)
Sum(st, gs) ==
  Returned(st, AddN(st.a, [i \in DOMAIN gs |-> gs[i].id]),
           Max({gs[i].static : i \in DOMAIN gs}), LAMBDA s : Total(gs, s))
Built(st, Build(_, _, _), g, j, h, k, c) ==
  Returned(st, Build(st.a, <<[id |-> g.id, k |-> j], [id |-> h.id, k |-> k]>>, c), 1,
           LAMBDA s : Norm(j * g.meaning[s] + k * h.meaning[s] + c))
\* The same meaning in another node: Expr::compact and simplify.
Rewritten(st, Rebuild(_, _), static, g) ==
  Returned(st, Rebuild(st.a, g.id), static, LAMBDA s : g.meaning[s])

---------------------------------------------------------------------------
\* The handles of the variables and of the parameter.
Ground ==
  LET order == SetToSortSeq(Vars, <)
  IN  [a |-> [i \in DOMAIN order |-> Variable(order[i])] \o <<Param>>,
       hs |-> [i \in DOMAIN order |->
                 [id |-> i, static |-> 1,
                  meaning |-> [s \in Samples |-> s[1][order[i]]]]]
              \o <<[id |-> Len(order) + 1, static |-> 0,
                    meaning |-> [s \in Samples |-> s[2]]]>>]

\* What a program may have built before: a sum too wide to merge, a scaled
\* variable, a power of a parameter, a sum with a parameter inside, an expanded
\* quadratic.  Only the handles it kept are in the state.
Keeping(st, n) ==
  [st EXCEPT !.hs = Ground.hs \o SubSeq(st.hs, Len(st.hs) - n + 1, Len(st.hs))]
WideSum == Binary(Ground, AddInto, NumAdd, AddStatic, Ground.hs[1], Ground.hs[2])
Scaled == WithScalar(Ground, MulInto, NumMul, 1, Ground.hs[1], 2)
SymbolicPower == WithScalar(Ground, PowInto, Power, Dynamic, Last(Ground.hs), 3)
SymbolicSum ==
  LET s == Binary(WideSum, AddInto, NumAdd, AddStatic, Ground.hs[1], Ground.hs[3])
  IN  Binary(s, AddInto, NumAdd, AddStatic, Last(s.hs), Last(WideSum.hs))
Expanded ==
  LET s == Binary(Ground, MulInto, NumMul, MulStatic, Ground.hs[1], Ground.hs[1])
      t == Binary(s, MulInto, NumMul, MulStatic, Ground.hs[2], Ground.hs[1])
      u == WithScalar(t, PowInto, Power, Dynamic, Ground.hs[2], 2)
  IN  Sum(u, <<Last(s.hs), Last(t.hs), Last(u.hs)>>)
Prepared ==
  {Keeping(s, 1) : s \in {WideSum, Scaled, SymbolicPower}}
  \cup {Keeping(s, 2) : s \in {SymbolicSum, Expanded}}

State == [a |-> arena, hs |-> handles]
Held == ToSet(handles)
Newest == Last(handles)
Return(st) ==
  /\ Len(handles) < MaxHandles
  /\ arena' = st.a
  /\ handles' = st.hs
  /\ UNCHANGED parameter

Init ==
  /\ \E s \in Prepared : arena = s.a /\ handles = s.hs
  /\ parameter \in Settings

CallBinary ==
  \E g \in Held, swap \in BOOLEAN :
    LET l == IF swap THEN Newest ELSE g
        r == IF swap THEN g ELSE Newest
    IN  \/ Return(Binary(State, AddInto, NumAdd, AddStatic, l, r))
        \/ Return(Binary(State, SubInto, NumSub, AddStatic, l, r))
        \/ Return(Binary(State, MulInto, NumMul, MulStatic, l, r))
        \/ Return(Binary(State, DivInto, NumDiv, DivStatic, l, r))
        \/ Return(Binary(State, PowInto, Power, PowStatic, l, r))
        \/ Return(Binary(State, Atan2Node, Angle, HigherStatic, l, r))
        \/ Return(Binary(State, MinInto, NumMin, HigherStatic, l, r))
        \/ Return(Binary(State, MaxInto, NumMax, HigherStatic, l, r))
CallScalar ==
  \E k \in Scalars :
    \/ Return(WithScalar(State, AddInto, NumAdd, Newest.static, Newest, k))
    \/ Return(WithScalar(State, SubInto, NumSub, Newest.static, Newest, k))
    \/ Return(WithScalar(State, MulInto, NumMul, Newest.static, Newest, k))
    \/ k # 0 /\ Return(WithScalar(State, DivInto, NumDiv, Newest.static, Newest, k))
    \/ Return(WithScalar(State, PowInto, Power, Dynamic, Newest, k))
CallScalarLeft ==
  \E k \in Scalars :
    \/ Return(ScalarWith(State, SubInto, NumSub, Newest.static, k, Newest))
    \/ Return(ScalarWith(State, DivInto, NumDiv, Higher, k, Newest))
CallUnary ==
  \/ Return(Unary(State, NegInto, NumNeg, Newest.static, Newest))
  \/ Return(Unary(State, NegNode, NumNeg, Newest.static, Newest))
  \/ Return(Unary(State, AbsNode, Abs, Higher, Newest))
CallSum ==
  \E g \in Held : \E h \in {g, Newest} : Return(Sum(State, <<g, Newest, h>>))
CallBuild ==
  \E g \in Held, j \in Scalars, k \in {1, 3} :
    /\ {g.static, Newest.static} \subseteq {0, 1}
    /\ Return(Built(State, BuildAffine, g, j, Newest, k, 1))
CallCompact == Newest.static <= 1 /\ Return(Rewritten(State, Compact, 1, Newest))
CallSimplify == Return(Rewritten(State, Simplify, Newest.static, Newest))
\* try_affine and try_quadratic narrow the static degree by the class.
CallNarrow ==
  /\ Newest.static = Dynamic
  /\ Degrees(arena)[Newest.id] <= 2
  /\ Return(Rewritten(State, Same, Max({1, Degrees(arena)[Newest.id]}), Newest))
SetParam ==
  /\ parameter' \in Settings \ {parameter}
  /\ UNCHANGED <<arena, handles>>

Next ==
  \/ CallBinary \/ CallScalar \/ CallScalarLeft \/ CallUnary \/ CallSum
  \/ CallBuild \/ CallCompact \/ CallSimplify \/ CallNarrow \/ SetParam

Spec == Init /\ [][Next]_vars

---------------------------------------------------------------------------
(* Properties. *)
\* Whatever an operator did to its operands - merged coefficients, rebuilt a
\* sum around a parameter, took over the children of an extremum, folded a
\* division into a product - the node it returned has the value the program
\* wrote, at every point and for every later value of the parameter, by every
\* evaluator and in a captured copy; and its static degree bounds its class.
\* Nodes never change, so the newest handle stands for all of them.
OperatorsKeepMeaning ==
  LET h == Newest
      copy == Capture(arena, h.id)
  IN  /\ \A s \in Samples :
           /\ Evaluate(arena, h.id, s[1], s[2]) = h.meaning[s]
           /\ s[2] = parameter =>
                /\ EvalHashed(arena, h.id, s[1], s[2]) = h.meaning[s]
                /\ EvalArray(copy, s[1], s[2])[Len(copy)] = h.meaning[s]
      /\ h.static # Dynamic => Degrees(arena)[h.id] <= h.static

LinearValue(t, x) == EvalLinear(t.coeffs, t.c, x)
QuadraticValue(q, x) ==
  Norm(EvalLinear(q.linear, q.c, x)
       + FoldFunction(+, 0, [rc \in DOMAIN q.hessian |->
           Norm(q.hessian[rc] * x[rc[1]] * x[rc[2]]
                * (IF rc[1] = rc[2] THEN Inverse1(2) ELSE 1))]))

\* The terms a solver receives are the expression it was given: linear terms
\* exist exactly for the class Linear, and the linear terms, the affine part
\* with its signed residuals, and the gradient and Hessian of a quadratic all
\* have the expression's value at the current parameter.  Nothing nonlinear
\* is ever extracted.  The analysis finds the same degree, and what it says
\* depends on no variable or no parameter has one value for all of them.
ExtractionsAgree ==
  LET id == Newest.id
      class == Class(Degrees(arena)[id])
      summary == Summaries(arena)[id]
      linear == AsLinear(arena, id, Constant(parameter))
      quadratic == ExtractQuadratic(arena, id, parameter)
      parts == SplitLinear(arena, id, Constant(parameter))
  IN  /\ linear.ok <=> class = "Linear"
      /\ quadratic.ok => class # "Nonlinear"
      /\ summary.degree = Degrees(arena)[id]
      /\ \A s, t \in Samples :
           \/ Newest.meaning[s] = Newest.meaning[t]
           \/ s[1] # t[1] /\ summary.variable
           \/ s[2] # t[2] /\ summary.parameter
      /\ \A x \in Points :
           LET values == EvalArray(arena, x, parameter)
           IN  /\ linear.ok => LinearValue(linear, x) = values[id]
               /\ quadratic.ok => QuadraticValue(quadratic, x) = values[id]
               /\ values[id] =
                    FoldLeft(LAMBDA t, r : Norm(t + r.sign * values[r.id]),
                             LinearValue(parts.terms, x), parts.residual)
=============================================================================
