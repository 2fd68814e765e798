-------------------------------- MODULE NlFile --------------------------------
(***************************************************************************)
(* Files in AMPL's NL format (nl/): variables and rows in the order that    *)
(* the format asks for, a header of counts from which the reader learns the *)
(* domains, a tree for the nonlinear part of every body, and the linear     *)
(* parts apart.  The two encodings, "ascii" and "binary", have the same     *)
(* segments.  Positions in a file count from 1 here.                        *)
(*                                                                          *)
(* A tree is <<"n", number>>, <<"v", column>>, <<"sum", trees>>,            *)
(* <<"mul", tree, tree>> or <<"neg", tree>>.                                *)
(***************************************************************************)
EXTENDS SourceModels

CONSTANT ProblemName   \* the name of the model, which follows the rows' names

---------------------------------------------------------------------------
(* The writer: what split_linear leaves of an expression.  The products of  *)
(* a variable i with later ones are one summand, i times an affine sum; an  *)
(* expression that is written with factors keeps the linear term of i there.*)
Leading(p) == Sorted({ij[1] : ij \in DOMAIN p.h})
Monomial(p, ij) == IF ij[1] = ij[2] THEN p.h[ij] \div 2 ELSE p.h[ij]
Partners(p, i, factored) ==
  [c |-> IF factored /\ i \in DOMAIN p.t THEN p.t[i] ELSE 0,
   t |-> [j \in {ij[2] : ij \in {q \in DOMAIN p.h : q[1] = i}} |-> Monomial(p, <<i, j>>)]]
\* Summand i is i times its partners, negated when the first partner is.
Negative0(a) == a.t[Sorted(DOMAIN a.t)[1]] < 0
Summands(p, factored) ==
  [k \in DOMAIN Leading(p) |->
     LET a == Partners(p, Leading(p)[k], factored)
         s == IF Negative0(a) THEN -1 ELSE 1
     IN  [var |-> Leading(p)[k], neg |-> s = -1, by |-> [c |-> s * a.c, t |-> Times(a.t, s)]]]
LinearPart(p, factored) ==
  [i \in {j \in DOMAIN p.t : ~(factored /\ Contains(Leading(p), j))} |-> p.t[i]]
SplitOf(p, factored) == [t |-> LinearPart(p, factored), c |-> p.c, res |-> Summands(p, factored)]

IsNonlinear(body) == body.res # <<>>
NonlinearVars(body) ==
  UNION {{body.res[k].var} \cup DOMAIN body.res[k].by.t : k \in DOMAIN body.res}
AllVars(body) == DOMAIN body.t \cup NonlinearVars(body)
\* Analysis: the rows and the objective with the variables they use nonlinearly.
Analyzed(m, factored) ==
  LET cons == [k \in DOMAIN m.rows |-> SplitOf(m.rows[k].poly, factored)]
      obj == IF m.obj = None THEN None ELSE <<SplitOf(m.obj[1].poly, factored)>>
  IN  [cons |-> cons, obj |-> obj,
       nlc |-> UNION {NonlinearVars(cons[k]) : k \in DOMAIN cons},
       nlo |-> UNION {NonlinearVars(obj[k]) : k \in DOMAIN obj}]

\* Permutation: first nonlinear variables (in both, in rows, in the objective;
\* continuous before integer), then linear ones: continuous, binary, integer.
Bucket(v, inRows, inObjective) ==
  CASE inRows /\ inObjective -> IF v.int THEN 1 ELSE 0
    [] inRows /\ ~inObjective -> IF v.int THEN 3 ELSE 2
    [] ~inRows /\ inObjective -> IF v.int THEN 5 ELSE 4
    [] ~inRows /\ ~inObjective -> IF ~v.int THEN 6 ELSE IF v.dom = "binary" THEN 7 ELSE 8
VarOrder(m, a) ==
  LET Place(i) == Bucket(m.vars[i], i \in a.nlc, i \in a.nlo)
  IN  FlattenSeq([b \in 1 .. 9 |-> SelectSeq([i \in DOMAIN m.vars |-> i], LAMBDA i : Place(i) = b - 1)])
ConOrder(a) ==
  SelectSeq([k \in DOMAIN a.cons |-> k], LAMBDA k : IsNonlinear(a.cons[k]))
  \o SelectSeq([k \in DOMAIN a.cons |-> k], LAMBDA k : ~IsNonlinear(a.cons[k]))
IndexIn(order) == [i \in ToSet(order) |-> CHOOSE k \in DOMAIN order : order[k] = i]

\* Stats: the discrete counts are disjoint.
Counts(m, a) ==
  LET Discrete(P(_)) == Cardinality({i \in DOMAIN m.vars : m.vars[i].int /\ P(i)})
  IN  [vars |-> Len(m.vars), cons |-> Len(m.rows), objs |-> Len(a.obj),
       nlc |-> Cardinality(a.nlc), nlo |-> Cardinality(a.nlo), both |-> Cardinality(a.nlc \cap a.nlo),
       bin |-> Discrete(LAMBDA i : i \notin a.nlc \cup a.nlo /\ m.vars[i].dom = "binary"),
       int |-> Discrete(LAMBDA i : i \notin a.nlc \cup a.nlo /\ m.vars[i].dom # "binary"),
       intb |-> Discrete(LAMBDA i : i \in a.nlc \cap a.nlo),
       intc |-> Discrete(LAMBDA i : i \in a.nlc \ a.nlo),
       into |-> Discrete(LAMBDA i : i \in a.nlo \ a.nlc),
       nnz |-> FoldLeft(LAMBDA s, b : s + Cardinality(AllVars(b)), 0, a.cons)]

Num(c) == <<"n", c>>
Term(c, column) == IF c = 1 THEN <<"v", column>> ELSE <<"mul", Num(c), <<"v", column>>>>
Summed0(trees) ==
  CASE trees = <<>> -> Num(0) [] Len(trees) = 1 -> trees[1] [] Len(trees) > 1 -> <<"sum", trees>>
\* emit_linear_inline: an affine subtree without its zeros.
Inlined(a, at) ==
  LET over == Sorted({i \in DOMAIN a.t : a.t[i] # 0})
  IN  Summed0([k \in DOMAIN over |-> Term(a.t[over[k]], at[over[k]])] \o IF a.c = 0 THEN <<>> ELSE <<Num(a.c)>>)
Emitted(s, at) ==
  LET product == <<"mul", <<"v", at[s.var]>>, Inlined(s.by, at)>>
  IN  IF s.neg THEN <<"neg", product>> ELSE product
EmitResidual(body, at) == Summed0([k \in DOMAIN body.res |-> Emitted(body.res[k], at)])
\* The constant of a linear objective stands for its body.
EmitObjective(body, at) == IF IsNonlinear(body) THEN EmitResidual(body, at) ELSE Num(body.c)

RowRecord(r, c) ==
  CASE Sense(r) = "le" -> <<1, r.hi - c>>
    [] Sense(r) = "ge" -> <<2, r.lo - c>>
    [] Sense(r) = "eq" -> <<4, r.hi - c>>
    [] Sense(r) = "range" -> <<0, r.lo - c, r.hi - c>>
    [] Sense(r) = "free" -> <<3>>
BoundRecord(v) ==
  CASE IsFixed(v) -> <<4, v.lb>>
    [] v.lb = -Inf /\ v.ub = Inf -> <<3>>
    [] v.lb = -Inf /\ v.ub # Inf -> <<1, v.ub>>
    [] v.lb # -Inf /\ v.ub = Inf -> <<2, v.lb>>
    [] OTHER -> <<0, v.lb, v.ub>>
\* row_entries: every variable of a body, with 0 for one that is only in its tree.
Entered(body, order) ==
  LET over == SelectSeq([j \in DOMAIN order |-> j], LAMBDA j : order[j] \in AllVars(body))
  IN  [n \in DOMAIN over |-> <<over[n], IF order[over[n]] \in DOMAIN body.t THEN body.t[order[over[n]]] ELSE 0>>]
\* The running count of the entries of the rows, column by column but the last.
ColumnCounts(m, a, order) ==
  [j \in 1 .. Len(order) - 1 |->
     FoldSet(LAMBDA k, s : s + Cardinality({n \in 1 .. j : order[n] \in AllVars(a.cons[k])}), 0, DOMAIN a.cons)]
Starts(m, order) ==
  LET over == SelectSeq([j \in DOMAIN order |-> j], LAMBDA j : m.vars[order[j]].init # <<>>)
  IN  [n \in DOMAIN over |-> <<over[n], m.vars[order[over[n]]].init[1]>>]

NlWritable(m) ==
  /\ NoCones(m) /\ ActiveOf(m.soss) = <<>> /\ ActiveOf(m.inds) = <<>>
  /\ \A i \in DOMAIN m.vars : ~IsSemi(m.vars[i])
WrittenNl(m, a, order, cons, encoding, aux) ==
  LET at == IndexIn(order)
  IN  [encoding |-> encoding, header |-> Counts(m, a),
       C |-> [n \in DOMAIN cons |-> EmitResidual(a.cons[cons[n]], at)],
       O |-> [n \in DOMAIN a.obj |-> <<m.obj[1].max, EmitObjective(a.obj[n], at)>>],
       x |-> Starts(m, order),
       r |-> [n \in DOMAIN cons |-> RowRecord(m.rows[cons[n]], a.cons[cons[n]].c)],
       b |-> [j \in DOMAIN order |-> BoundRecord(m.vars[order[j]])],
       k |-> ColumnCounts(m, a, order),
       J |-> [n \in DOMAIN cons |-> Entered(a.cons[cons[n]], order)],
       G |-> FlattenSeq([n \in DOMAIN a.obj |-> Entered(a.obj[n], order)]),
       cols |-> IF aux THEN [j \in DOMAIN order |-> m.vars[order[j]].name] ELSE <<>>,
       rows |-> IF aux THEN [n \in DOMAIN cons |-> m.rows[cons[n]].name] \o [n \in DOMAIN a.obj |-> ProblemName] ELSE <<>>]

---------------------------------------------------------------------------
(* The reader.                                                             *)
\* decode_bound; the text form looks for an upper bound in a third field.
DecodedBound(rec, encoding) ==
  CASE rec[1] = 0 -> <<rec[2], rec[3]>>
    [] rec[1] = 1 -> IF encoding = "binary" THEN <<-Inf, rec[2]>> ELSE <<>>
    [] rec[1] = 2 -> <<rec[2], Inf>>
    [] rec[1] = 3 -> <<-Inf, Inf>>
    [] rec[1] = 4 -> <<rec[2], rec[2]>>
DecodedRow(rec) ==
  CASE rec[1] = 0 -> <<rec[2], rec[3]>> [] rec[1] = 1 -> <<-Inf, rec[2]>> [] rec[1] = 2 -> <<rec[2], Inf>>
    [] rec[1] = 3 -> <<-Inf, Inf>> [] rec[1] = 4 -> <<rec[2], rec[2]>>

\* domains: runs of real and integer variables, as the header counts them.
Least(a, b) == IF a < b THEN a ELSE b
Monus(a, b) == IF a > b THEN a - b ELSE 0
Run(dom, n) == [k \in 1 .. n |-> dom]
Domains(h) ==
  LET Group(n, int) == Run("real", Monus(n, int)) \o Run("integer", Least(int, n))
      nonlinear == Group(h.both, h.intb) \o Group(Monus(h.nlc, h.both), h.intc) \o Group(Monus(h.nlo, h.both), h.into)
  IN  nonlinear \o Run("real", Monus(h.vars, Len(nonlinear) + h.bin + h.int)) \o Run("binary", h.bin) \o Run("integer", h.int)

\* lower: a tree as a polynomial (of degree two at most).
Plus(p, q) ==
  LET Joined(f, g) ==
        LET all == [k \in DOMAIN f \cup DOMAIN g |->
                      (IF k \in DOMAIN f THEN f[k] ELSE 0) + (IF k \in DOMAIN g THEN g[k] ELSE 0)]
        IN  [k \in {j \in DOMAIN all : all[j] # 0} |-> all[k]]
  IN  Poly(p.c + q.c, Joined(p.t, q.t), Joined(p.h, q.h))
Product(p, q) ==
  LET over == SetToSeq((DOMAIN p.t) \X (DOMAIN q.t))
      crossed == Summed([k \in DOMAIN over |-> Curvature(over[k][1], over[k][2], p.t[over[k][1]] * q.t[over[k][2]])])
  IN  Plus(Plus(Scaled(q, p.c), Scaled(Poly(0, p.t, <<>>), q.c)), Poly(0, <<>>, crossed))
Zero == Affine(0, <<>>)
LowerFactor(tree) ==
  CASE tree[1] = "n" -> Affine(tree[2], <<>>)
    [] tree[1] = "v" -> Affine(0, [i \in {tree[2]} |-> 1])
    [] tree[1] = "mul" -> Affine(0, [i \in {tree[3][2]} |-> tree[2][2]])
LowerAffine(tree) ==
  IF tree[1] = "sum" THEN FoldLeft(LAMBDA p, t : Plus(p, LowerFactor(t)), Zero, tree[2]) ELSE LowerFactor(tree)
LowerProduct(tree) ==
  IF tree[1] = "mul" THEN Product(LowerAffine(tree[2]), LowerAffine(tree[3])) ELSE LowerAffine(tree)
LowerSigned(tree) == IF tree[1] = "neg" THEN Scaled(LowerProduct(tree[2]), -1) ELSE LowerProduct(tree)
LowerTree(tree) ==
  IF tree[1] = "sum" THEN FoldLeft(LAMBDA p, t : Plus(p, LowerSigned(t)), Zero, tree[2]) ELSE LowerSigned(tree)
\* The linear entries are added to what the tree gives.
Whole(tree, entries) == Plus(LowerTree(tree), Poly(0, Summed(entries), <<>>))

\* The first start of a variable counts.
StartOf(file, j) ==
  LET given == SelectSeq(file.x, LAMBDA e : e[1] = j)
  IN  IF given = <<>> THEN <<>> ELSE <<given[1][2]>>
NlAccepts(file) ==
  /\ \A j \in DOMAIN file.b : DecodedBound(file.b[j], file.encoding) # <<>>
  /\ Len(file.b) = file.header.vars /\ Len(file.r) = file.header.cons
  /\ file.cols = <<>> \/ Len(file.cols) = file.header.vars
  /\ file.rows = <<>> \/ Len(file.rows) >= file.header.cons
  /\ ~Repeats(file.cols) /\ ~Repeats(file.rows)
  /\ (file.header.objs = 0) <=> (file.O = <<>>)
BuiltFromNl(file, domains) ==
  LET Bound(j) == DecodedBound(file.b[j], file.encoding)
      ColumnName(j) == IF file.cols = <<>> THEN <<"x" \o ToString(j - 1)>> ELSE file.cols[j]
      RowName(n) == IF file.rows = <<>> THEN <<"c" \o ToString(n - 1)>> ELSE file.rows[n]
  IN  FileModel(
        [j \in DOMAIN file.b |->
           [Variable(ColumnName(j), domains[j], Bound(j)[1], Bound(j)[2], 0) EXCEPT !.init = StartOf(file, j)]],
        [n \in DOMAIN file.O |-> [max |-> file.O[n][1], poly |-> Whole(file.O[n][2], file.G)]],
        [n \in DOMAIN file.r |->
           NamedRow(RowName(n), Whole(file.C[n], file.J[n]), DecodedRow(file.r[n])[1], DecodedRow(file.r[n])[2])],
        <<>>, <<>>)
\* The running counts are those of the entries, and so is the total.
CountsAgree(file) ==
  /\ \A j \in DOMAIN file.k :
       file.k[j] = FoldLeft(LAMBDA s, row : s + Len(SelectSeq(row, LAMBDA e : e[1] <= j)), 0, file.J)
  /\ file.header.nnz = FoldLeft(LAMBDA s, row : s + Len(row), 0, file.J)
ReadNl(file) == IF NlAccepts(file) THEN <<BuiltFromNl(file, Domains(file.header))>> ELSE <<>>
=============================================================================
