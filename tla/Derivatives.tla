---------------------------- MODULE Derivatives ----------------------------
(***************************************************************************)
(* oximo-autodiff: tapes, structural sparsity, star coloring and the        *)
(* derivative oracle NlpEvaluator, which is built once and then refreshed   *)
(* in place; and the POUNCE handle that keeps one resident.                 *)
(*                                                                          *)
(* A model is its shape, the roots of its objective (0 for none) and of its *)
(* rows, over one arena and one parameter.  The derivative engine is        *)
(* external: a Hessian is read off the values of a function around a point, *)
(* exactly for polynomials of degree three and, for any other function of   *)
(* the numbers modulo P, as a matrix that is symmetric and zero wherever    *)
(* the function has no interaction.                                         *)
(***************************************************************************)
EXTENDS Expressions

CONSTANTS Graph,    \* the arena: a sequence of nodes
          Shapes,   \* the models a program moves between
          Base,     \* the points at which derivatives are compared
          Vertices  \* the columns of the patterns that are colored

VARIABLES shape,    \* the model's functions: [objective, rows]
          setting,  \* the value of its parameter
          oracle,   \* the resident evaluator, or Absent
          prepared, \* the model it was last built from or refreshed to, or Absent
          owner,    \* who holds it: "program" or "handle"
          pattern   \* a Hessian pattern to color

derivativeVars == <<shape, setting, oracle, prepared, owner, pattern>>
Absent == [absent |-> TRUE]
Columns == UNION {DOMAIN x : x \in Base}
Arranged(S, Less(_, _)) ==
  [k \in 1 .. Cardinality(S) |->
     CHOOSE e \in S : Cardinality({f \in S : Less(f, e)}) = k - 1]

---------------------------------------------------------------------------
(* Tapes: instructions over numbered registers.  A builder keeps the        *)
(* register of every node it has lowered and that of its last result.       *)
(* Instructions that do not depend on each other may come in another order  *)
(* than in the code.                                                        *)
Instr(op, a, b) == [op |-> op, a |-> a, b |-> b]
NewBuilder == [tape |-> <<>>, memo |-> <<>>, reg |-> 0]
Emit(b, i) == [b EXCEPT !.tape = Append(@, i), !.reg = Len(b.tape) + 1]
Remember(b, id) == [b EXCEPT !.memo = Bind(@, id, b.reg)]

AddConstant(sum, c) ==
  IF c = 0 THEN sum
  ELSE Emit(Emit(sum, Instr("const", c, 0)), Instr("add", sum.reg, sum.reg + 1))
EmitLinear(b, n) ==
  IF DOMAIN n.coeffs = {} THEN Emit(b, Instr("const", n.c, 0))
  ELSE AddConstant(Emit(b, [op |-> "linear", f |-> n.coeffs]), n.c)
Reduce(b, op, regs) ==
  FoldLeft(LAMBDA s, r : Emit(s, Instr(op, s.reg, r)),
           [b EXCEPT !.reg = Head(regs)], Tail(regs))

\* A constant exponent is part of the instruction, not a dependency.
ConstantPower(g, n) == n.op = "pow" /\ g[n.args[2]].op = "const"
Dependencies(g, n) == IF ConstantPower(g, n) THEN <<n.args[1]>> ELSE Args(n)

EmitNode(g, b, n, regs) ==
  CASE n.op = "const" -> Emit(b, Instr("const", n.c, 0))
    [] n.op = "var" -> Emit(b, Instr("var", n.v, 0))
    [] n.op = "param" -> Emit(b, Instr("param", 0, 0))
    [] n.op = "linear" -> EmitLinear(b, n)
    [] n.op \in {"add", "mul", "min", "max"} -> Reduce(b, n.op, regs)
    [] ConstantPower(g, n) -> Emit(b, Instr("powc", regs[1], g[n.args[2]].c))
    [] OTHER -> Emit(b, Instr(n.op, regs[1], Last(regs)))
EmitLowered(g, b, id) ==
  Remember(EmitNode(g, b, g[id], [k \in DOMAIN Dependencies(g, g[id]) |->
                                    b.memo[Dependencies(g, g[id])[k]]]), id)
RECURSIVE Lower(_, _, _)
Lower(g, b, id) ==
  IF id \in DOMAIN b.memo THEN [b EXCEPT !.reg = b.memo[id]]
  ELSE EmitLowered(g, FoldLeft(LAMBDA s, i : Lower(g, s, i), b, Dependencies(g, g[id])), id)

\* The interpreter returns the last register.
FinishRoot(b) ==
  IF b.reg = Len(b.tape) THEN b.tape
  ELSE b.tape \o <<Instr("const", 1, 0), Instr("mul", b.reg, Len(b.tape) + 1)>>

Compile(g, id) == FinishRoot(Lower(g, NewBuilder, id))

\* The weighted sum of several roots, weights given at evaluation.
Weigh(v, k) == Emit(Emit(v, Instr("mult", k, 0)), Instr("mul", Len(v.tape) + 1, v.reg))
Accumulate(acc, term) == IF acc = 0 THEN term ELSE Emit(term, Instr("add", acc, term.reg))
CompileWeighted(g, ids) ==
  LET sum == FoldLeftDomain(LAMBDA s, k : Accumulate(s.reg, Weigh(Lower(g, s, ids[k]), k)),
                            NewBuilder, ids)
  IN  IF ids = <<>> THEN <<Instr("const", 0, 0)>> ELSE FinishRoot(sum)

\* CompiledBatch: one tape, one register for each root.
LowerMany(g, ids) ==
  FoldLeft(LAMBDA s, id : LET b == Lower(g, s.b, id)
                          IN  [b |-> b, roots |-> Append(s.roots, b.reg)],
           [b |-> NewBuilder, roots |-> <<>>], ids)

Exec(i, regs, x, p, mults) ==
  CASE i.op = "const" -> i.a
    [] i.op = "var" -> x[i.a]
    [] i.op = "param" -> p
    [] i.op = "mult" -> mults[i.a]
    [] i.op = "linear" -> EvalLinear(i.f, 0, x)
    [] i.op = "add" -> Norm(regs[i.a] + regs[i.b])
    [] i.op = "mul" -> Norm(regs[i.a] * regs[i.b])
    [] i.op = "div" -> NumDiv(regs[i.a], regs[i.b])
    [] i.op = "min" -> NumMin(regs[i.a], regs[i.b])
    [] i.op = "max" -> NumMax(regs[i.a], regs[i.b])
    [] i.op = "powc" -> Power(regs[i.a], i.b)
    [] i.op = "pow" -> Power(regs[i.a], regs[i.b])
    [] i.op = "atan2" -> Angle(regs[i.a], regs[i.b])
    [] i.op = "branch" -> regs[i.a]
    [] OTHER -> ApplyUnary(i.op, regs[i.a])
EvalTape(tape, x, p, mults) ==
  Fold(tape, LAMBDA i, regs : Exec(i, regs, x, p, mults))

\* Where the functions with a kink are differentiated, away from the kink
\* they are one of their branches.
Branch(i) ==
  CASE i.op = "abs" -> [i EXCEPT !.op = "neg"]
    [] i.op \in {"min", "max"} -> [i EXCEPT !.op = "branch"]
    [] OTHER -> i
BranchNode(n) ==
  CASE n.op = "abs" -> Node("neg", n.args)
    [] n.op \in {"min", "max"} -> Node("add", <<n.args[1]>>)
    [] OTHER -> n
Branches(tape) == [k \in DOMAIN tape |-> Branch(tape[k])]
BranchGraph == [k \in DOMAIN Graph |-> BranchNode(Graph[k])]

---------------------------------------------------------------------------
(* Structural sparsity: for every node the variables it depends on and the  *)
(* entries of the Hessian it adds, with either storage.                     *)
Entry(v, w) == IF v >= w THEN <<v, w>> ELSE <<w, v>>
Cross(vs, ws) == {Entry(v, w) : v \in vs, w \in ws}
Clique(vs) == Cross(vs, vs)
Sparsity(vs, entries) == [row |-> vs, entries |-> entries]
Whole(vs) == Sparsity(vs, Clique(vs))

ProductSparsity(kids) ==
  FoldLeft(LAMBDA s, k : Sparsity(s.row \cup k.row, s.entries \cup Cross(s.row, k.row)),
           Sparsity({}, {}), kids)
PowerSparsity(e, base) ==
  CASE e = 0 -> Sparsity({}, {})
    [] e = 1 -> Sparsity(base, {})
    [] OTHER -> Whole(base)
QuotientSparsity(num, den) ==
  Sparsity(num \cup den, Clique(den) \cup Cross(num, den))
NodeSparsity(g, n, kids) ==
  LET union == UNION {k.row : k \in ToSet(kids)}
  IN  CASE ScalarLeaf(n) -> Sparsity({}, {})
        [] n.op = "var" -> Sparsity({n.v}, {})
        [] n.op = "linear" -> Sparsity(DOMAIN n.coeffs, {})
        [] n.op \in {"neg", "abs", "add", "min", "max"} -> Sparsity(union, {})
        [] n.op = "mul" -> ProductSparsity(kids)
        [] n.op = "div" -> QuotientSparsity(kids[1].row, kids[2].row)
        [] ConstantPower(g, n) -> PowerSparsity(g[n.args[2]].c, kids[1].row)
        [] OTHER -> Whole(union)

\* The nodes a derivative can reach: not below a power of exponent zero.
ActiveChildren(g, n) ==
  IF ConstantPower(g, n)
  THEN IF g[n.args[2]].c = 0 THEN {} ELSE {n.args[1]}
  ELSE ToSet(Args(n))
RECURSIVE Active(_, _)
Active(g, id) == {id} \cup UNION {Active(g, i) : i \in ActiveChildren(g, g[id])}
StructuralSparsity(g, id) ==
  LET nodes == Fold(g, LAMBDA n, below :
                 NodeSparsity(g, n, [k \in DOMAIN Args(n) |-> below[n.args[k]]]))
  IN  Sparsity(nodes[id].row, UNION {nodes[i].entries : i \in Active(g, id)})

---------------------------------------------------------------------------
(* Slots: a function of the model, classified.  Closed forms are extracted  *)
(* at a value of the parameter; a tape and its pattern hold for every one.  *)
LinearSlot(t) == [kind |-> "linear", terms |-> t, support |-> DOMAIN t.coeffs]
QuadraticSlot(q) ==
  [kind |-> "quadratic", terms |-> q,
   support |-> (DOMAIN q.linear) \cup UNION {{rc[1], rc[2]} : rc \in DOMAIN q.hessian}]
TapeSlot(tape, s) ==
  [kind |-> "nonlinear", tape |-> tape, support |-> s.row, entries |-> s.entries]
ZeroSlot == LinearSlot(Constant(0))

ClosedForm(linear, quadratic, other) ==
  IF linear.ok THEN LinearSlot(linear)
  ELSE IF quadratic.ok THEN QuadraticSlot(quadratic) ELSE other
SlotAt(g, id, p, other) ==
  ClosedForm(AsLinear(g, id, Constant(p)), ExtractQuadratic(g, id, p), other)
\* A function that stays nonlinear keeps its tape and its pattern.
Reclassify(g, s, id, p) ==
  SlotAt(g, id, p, IF s.kind = "nonlinear" THEN s
                   ELSE TapeSlot(Compile(g, id), StructuralSparsity(g, id)))
Classify(g, id, p) == Reclassify(g, ZeroSlot, id, p)

ValueOfLinear(t, x) == EvalLinear(t.coeffs, t.c, x)
ValueOfQuadratic(q, x) ==
  LET half(rc) == IF rc[1] = rc[2] THEN Inverse1(2) ELSE 1
      products == [rc \in DOMAIN q.hessian |-> half(rc) * q.hessian[rc] * x[rc[1]] * x[rc[2]]]
  IN  Norm(EvalLinear(q.linear, q.c, x) + FoldFunction(+, 0, products))
SlotValue(s, x, p) ==
  CASE s.kind = "linear" -> ValueOfLinear(s.terms, x)
    [] s.kind = "quadratic" -> ValueOfQuadratic(s.terms, x)
    [] s.kind = "nonlinear" -> Last(EvalTape(s.tape, x, p, <<>>))

Coefficient(f, v) == IF v \in DOMAIN f THEN f[v] ELSE 0
LinearGradient(t, v) == Coefficient(t.coeffs, v)
QuadraticGradient(q, x, v) ==
  LET touching == {rc \in DOMAIN q.hessian : v \in {rc[1], rc[2]}}
      other(rc) == IF rc[1] = v THEN rc[2] ELSE rc[1]
  IN  Norm(Coefficient(q.linear, v)
           + FoldFunction(+, 0, [rc \in touching |-> q.hessian[rc] * x[other(rc)]]))

---------------------------------------------------------------------------
(* Patterns, in row order. *)
Before(e, f) == e[1] < f[1] \/ (e[1] = f[1] /\ e[2] < f[2])
Sorted(entries) == Arranged(entries, Before)

SlotEntries(s) ==
  CASE s.kind = "linear" -> {}
    [] s.kind = "quadratic" -> DOMAIN s.terms.hessian
    [] s.kind = "nonlinear" -> s.entries
Nonlinear(slots) == {k \in DOMAIN slots : slots[k].kind = "nonlinear"}
JacobianStructure(slots) == UNION {{<<k, v>> : v \in slots[k].support} : k \in (DOMAIN slots) \ {0}}
HessianStructure(slots) == UNION {SlotEntries(slots[k]) : k \in DOMAIN slots}
NonlinearStructure(slots) == UNION {slots[k].entries : k \in Nonlinear(slots)}

---------------------------------------------------------------------------
(* star_hessian_coloring.  A vertex takes the smallest color that no        *)
(* neighbor has and that closes no path of four vertices in two colors,     *)
(* whether it would end the path or lie inside it.                          *)
Uncolored == -1
Adjacent(entries) ==
  [v \in UNION {{e[1], e[2]} : e \in entries} |->
     {w \in UNION {{e[1], e[2]} : e \in entries} \ {v} : Entry(v, w) \in entries}]
\* Fault: paths with the vertex inside them are not looked for.
ForbiddenAtEnds(near, color, v) ==
  LET colored(vs) == {w \in vs : color[w] # Uncolored}
      ends(u) == {w \in colored(near[u]) \ {v} :
                    \E last \in near[w] \ {u} : color[last] = color[u]}
  IN  {color[u] : u \in colored(near[v])}
      \cup UNION {{color[w] : w \in ends(u)} : u \in colored(near[v])}
Forbidden(near, color, v) ==
  LET colored(vs) == {w \in vs : color[w] # Uncolored}
      ends(u) == {w \in colored(near[u]) \ {v} :
                    \E last \in near[w] \ {u} : color[last] = color[u]}
      inside == {u \in colored(near[v]) : \E w \in near[v] \ {u} : color[w] = color[u]}
  IN  {color[u] : u \in colored(near[v])}
      \cup UNION {{color[w] : w \in ends(u)} : u \in colored(near[v])}
      \cup UNION {{color[w] : w \in colored(near[u]) \ {v}} : u \in inside}
GreedyColoring(near) ==
  LET degree(v) == Cardinality(near[v])
      first(v, w) == degree(v) > degree(w) \/ (degree(v) = degree(w) /\ v < w)
      colors == 0 .. Cardinality(DOMAIN near) - 1
  IN  FoldLeft(LAMBDA color, v : [color EXCEPT ![v] = Min(colors \ Forbidden(near, color, v))],
               [v \in DOMAIN near |-> Uncolored], Arranged(DOMAIN near, first))

\* The columns that are seeded together to read an entry, and the row of the
\* product in which it stands.
Recover(near, color, e) ==
  LET class(v) == {w \in DOMAIN color : color[w] = color[v]}
      alone(v, w) == Cardinality({u \in near[v] : color[u] = color[w]}) = 1
  IN  CASE e[1] = e[2] -> [cols |-> class(e[1]), row |-> e[1]]
        [] e[1] # e[2] /\ alone(e[1], e[2]) -> [cols |-> class(e[2]), row |-> e[1]]
        [] OTHER -> [cols |-> IF alone(e[2], e[1]) THEN class(e[1]) ELSE {e[1]},
                     row |-> e[2]]

\* build_seeds: one product per group, with the positions in the whole
\* structure that it fills and their rows.
Fill(seeds, r, position) ==
  LET at == {k \in DOMAIN seeds : seeds[k].cols = r.cols}
      fill == [position |-> position, row |-> r.row]
  IN  IF at = {} THEN Append(seeds, [cols |-> r.cols, fills |-> <<fill>>])
      ELSE [k \in DOMAIN seeds |->
              IF k \in at THEN [seeds[k] EXCEPT !.fills = Append(@, fill)] ELSE seeds[k]]
Position(structure, e) == CHOOSE k \in DOMAIN structure : structure[k] = e
SeedsOf(near, color, entries, structure) ==
  FoldLeft(LAMBDA seeds, e : Fill(seeds, Recover(near, color, e), Position(structure, e)),
           <<>>, Sorted(entries))
SeedsNear(near, entries, structure) == SeedsOf(near, GreedyColoring(near), entries, structure)
BuildSeeds(entries, structure) == SeedsNear(Adjacent(entries), entries, structure)

---------------------------------------------------------------------------
(* WorkPlan: the units of a callback, shared out among its tasks; the work  *)
(* of the units before each one, and the halves of an interval of units.    *)
WorkBefore(costs) ==
  FoldLeft(LAMBDA work, c : Append(work, Last(work) + Max({c, 1})), <<0>>, costs)
SplitAt(work, start, end, left, right) ==
  LET between(i, j) == work[j] - work[i]
      reached == {k \in start .. end - 1 :
                    between(start, k) * (left + right) < between(start, end) * left}
      first == start + left
      upper == Min({Max({start + Cardinality(reached), first}), end - right})
      lower == Max({upper - 1, first})
      load(mid) == Max({between(start, mid) * right, between(mid, end) * left})
  IN  IF load(lower) <= load(upper) THEN lower ELSE upper
RECURSIVE Tasks(_, _, _, _)
SplitTasks(work, start, mid, end, left, right) ==
  Tasks(work, start, mid, left) \o Tasks(work, mid, end, right)
Tasks(work, start, end, count) ==
  IF count = 1 THEN <<[from |-> start, to |-> end]>>
  ELSE SplitTasks(work, start,
                  SplitAt(work, start, end, count \div 2, count - count \div 2),
                  end, count \div 2, count - count \div 2)

---------------------------------------------------------------------------
(* NlpEvaluator.  Function 0 is the objective, function k the k-th row.     *)
Root(sh, k) == IF k = 0 THEN sh.objective ELSE sh.rows[k]
Functions(sh) == 0 .. Len(sh.rows)
Present(sh) == {k \in Functions(sh) : Root(sh, k) # 0}
Classified(sh, p) ==
  [k \in Functions(sh) |-> IF k \in Present(sh) THEN Classify(Graph, Root(sh, k), p) ELSE ZeroSlot]

\* The places of a slot's quadratic entries in the whole structure, in order.
Scatter(s, structure) ==
  IF s.kind = "quadratic"
  THEN LET entries == Sorted(DOMAIN s.terms.hessian)
       IN  [i \in DOMAIN entries |-> Position(structure, entries[i])]
  ELSE <<>>
Scatters(slots, structure) == [k \in DOMAIN slots |-> Scatter(slots[k], structure)]

Evaluator(sh, slots, sources, structure, p) ==
  [functions |-> sh, slots |-> slots, params |-> p,
   sources |-> sources,
   lagrangian |-> CompileWeighted(Graph, [i \in DOMAIN sources |-> Root(sh, sources[i])]),
   jacobian |-> JacobianStructure(slots),
   hessian |-> structure,
   positions |-> Scatters(slots, structure),
   seeds |-> BuildSeeds(NonlinearStructure(slots), structure)]
Assembled(sh, slots, p) ==
  Evaluator(sh, slots, Arranged(Nonlinear(slots), <), Sorted(HessianStructure(slots)), p)
BuildOracle(sh, p) == Assembled(sh, Classified(sh, p), p)

\* The slots named by the targets, classified again; the rest are kept.
Reclassified(o, targets, p) ==
  [k \in DOMAIN o.slots |->
     IF k \in targets \cap Present(o.functions)
     THEN Reclassify(Graph, o.slots[k], Root(o.functions, k), p) ELSE o.slots[k]]
Refreshed(o, slots, targets, p) ==
  [o EXCEPT !.slots = slots, !.params = p,
            !.positions = [k \in DOMAIN slots |->
               IF k \in targets THEN Scatter(slots[k], o.hessian) ELSE o.positions[k]]]

\* A refresh returns the evaluator it leads to, or none when it must be built
\* again: the tape of the Lagrangian owns the nonlinear functions, and the
\* structures are those of the first build.
SamePatterns(o, slots) ==
  /\ JacobianStructure(slots) = o.jacobian
  /\ Sorted(HessianStructure(slots)) = o.hessian
AcceptAll(o, slots, p) ==
  IF Nonlinear(slots) = Nonlinear(o.slots) /\ SamePatterns(o, slots)
  THEN {Refreshed(o, slots, DOMAIN slots, p)} ELSE {}
\* The older refresh_params leaves the patterns to its caller.
AssumeRepresentative(o, slots, p) ==
  IF SamePatterns(o, slots) /\ Nonlinear(slots) = Nonlinear(o.slots)
  THEN {Refreshed(o, slots, DOMAIN slots, p)} ELSE {}
RefreshAll(o, p) == AcceptAll(o, Reclassified(o, DOMAIN o.slots, p), p)

\* Fault: only the entries of each target are compared with its own old ones.
AcceptUnlessWider(o, slots, targets, p) ==
  IF /\ \A k \in targets \ {0} : slots[k].support = o.slots[k].support
     /\ Nonlinear(slots) = Nonlinear(o.slots)
     /\ \A k \in targets : SlotEntries(slots[k]) \subseteq SlotEntries(o.slots[k])
  THEN {[o EXCEPT !.slots = slots, !.params = p]} ELSE {}
AcceptSelected(o, slots, targets, p) ==
  IF /\ \A k \in targets \ {0} : slots[k].support = o.slots[k].support
     /\ Nonlinear(slots) = Nonlinear(o.slots)
     /\ \/ \A k \in targets : SlotEntries(slots[k]) = SlotEntries(o.slots[k])
        \/ Sorted(HessianStructure(slots)) = o.hessian
  THEN {Refreshed(o, slots, targets, p)} ELSE {}
RefreshSelected(o, targets, p) == AcceptSelected(o, Reclassified(o, targets, p), targets, p)

\* External: second derivatives of f at x, by differences.
At(x, v, d) == [x EXCEPT ![v] = @ + d]
Curvature(f(_), x, v, w) ==
  IF v = w THEN Norm(f(At(x, v, 1)) - 2 * f(x) + f(At(x, v, -1)))
  ELSE NumDiv(f(At(At(x, v, 1), w, 1)) - f(At(At(x, v, 1), w, -1))
              - f(At(At(x, v, -1), w, 1)) + f(At(At(x, v, -1), w, -1)), 4)

\* hv[row] for the direction that is one on the columns of a seed.
ProductRow(f(_), x, cols, row) ==
  FoldFunction(+, 0, [c \in cols |-> Curvature(f, x, row, c)])
QuadraticPart(o, weights, position) ==
  LET places == {<<k, i>> \in (DOMAIN o.slots) \X (DOMAIN o.hessian) :
                   /\ i \in DOMAIN o.positions[k]
                   /\ o.positions[k][i] = position
                   /\ i <= Cardinality(SlotEntries(o.slots[k]))}
      entry(k, i) == Sorted(SlotEntries(o.slots[k]))[i]
  IN  FoldFunction(+, 0, [ki \in places |->
        weights[ki[1]] * o.slots[ki[1]].terms.hessian[entry(ki[1], ki[2])]])
SeededPart(o, f(_), x, position) ==
  LET fills == UNION {{<<k, i>> : i \in DOMAIN o.seeds[k].fills} : k \in DOMAIN o.seeds}
      here == {ki \in fills : o.seeds[ki[1]].fills[ki[2]].position = position}
  IN  FoldFunction(+, 0, [ki \in here |->
        ProductRow(f, x, o.seeds[ki[1]].cols, o.seeds[ki[1]].fills[ki[2]].row)])
LagrangianAt(tape, x, o, weights) ==
  Last(EvalTape(tape, x, o.params, [i \in DOMAIN o.sources |-> weights[o.sources[i]]]))
EvalHessian(o, tape, x, weights, position) ==
  Norm(QuadraticPart(o, weights, position)
       + SeededPart(o, LAMBDA y : LagrangianAt(tape, y, o, weights), x, position))

---------------------------------------------------------------------------
Current == [shape |-> shape, setting |-> setting]
UsesParameter(sh) == {k \in Present(sh) : Summaries(Graph)[Root(sh, k)].parameter}

Edit ==
  /\ shape' \in Shapes \ {shape}
  /\ UNCHANGED <<setting, oracle, prepared>>
SetSetting ==
  /\ setting' \in Settings \ {setting}
  /\ UNCHANGED <<shape, oracle, prepared>>

\* The program's own evaluator: NlpEvaluator::new, try_refresh, which leaves
\* the evaluator alone when it returns false, and refresh_params, whose
\* caller answers for the patterns.
Become(o) == oracle' = o /\ prepared' = Current /\ UNCHANGED <<shape, setting>>
New == owner = "program" /\ Become(BuildOracle(shape, setting))
TryRefresh ==
  /\ owner = "program" /\ oracle # Absent
  /\ oracle.functions = shape
  /\ \E o \in RefreshAll(oracle, setting) : Become(o)
RefreshParams ==
  /\ owner = "program" /\ oracle # Absent
  /\ oracle.functions = shape
  /\ \E o \in AssumeRepresentative(oracle, Reclassified(oracle, DOMAIN oracle.slots, setting),
                                    setting) : Become(o)

\* PouncePersistent: reuse as far as the prepared change allows, or build.
Reused ==
  CASE oracle = Absent \/ prepared = Absent -> {}
    [] oracle # Absent /\ prepared = Current -> {[oracle EXCEPT !.params = setting]}
    [] OTHER -> IF prepared.shape = shape
                THEN RefreshSelected(oracle, UsesParameter(shape), setting) ELSE {}
Resident(reused) == IF reused = {} THEN {BuildOracle(shape, setting)} ELSE reused
Solve ==
  /\ owner = "handle"
  /\ \E o \in Resident(Reused) : Become(o)
\* The convex route answers without an oracle and drops the one there was.
SolveConvex == owner = "handle" /\ Become(Absent)
\* An error, a reset and a search for several minima clear the handle.
Clear ==
  /\ owner = "handle"
  /\ oracle' = Absent /\ prepared' = Absent /\ UNCHANGED <<shape, setting>>

Patterns ==
  {{<<v, v>> : v \in Vertices} \cup entries :
     entries \in SUBSET {e \in Vertices \X Vertices : e[1] > e[2]}}

DerivativesInit ==
  /\ shape \in Shapes /\ setting \in Settings
  /\ oracle = Absent /\ prepared = Absent
  /\ owner \in {"program", "handle"}
  /\ pattern \in Patterns
DerivativesNext ==
  /\ \/ Edit \/ SetSetting \/ New \/ TryRefresh \/ RefreshParams
     \/ Solve \/ SolveConvex \/ Clear
  /\ UNCHANGED <<owner, pattern>>

---------------------------------------------------------------------------
(* Properties. *)
\* What the model means, at a point and a value of its parameter.
Around == {[v \in Columns |-> x[v] + d[v]] : x \in Base, d \in [Columns -> {-1, 0, 1}]}
Meaning == [x \in Around, p \in Settings |-> EvalArray(Graph, x, p)]
SmoothMeaning == [x \in Around, p \in Settings |-> EvalArray(BranchGraph, x, p)]
Lagrangian(weights, x) ==
  FoldFunction(+, 0, [k \in Present(shape) |->
                        weights[k] * SmoothMeaning[x, setting][Root(shape, k)]])

SlotIsExact(s, id) ==
  \A x \in Base :
    LET slope(v) == Norm(SmoothMeaning[At(x, v, 1), setting][id]
                         - SmoothMeaning[At(x, v, -1), setting][id])
    IN  /\ SlotValue(s, x, setting) = Meaning[x, setting][id]
        /\ \A v \in Columns :
             CASE s.kind = "linear" -> slope(v) = Norm(2 * LinearGradient(s.terms, v))
               [] s.kind = "quadratic" -> slope(v) = Norm(2 * QuadraticGradient(s.terms, x, v))
               [] s.kind = "nonlinear" -> v \in s.support \/ slope(v) = 0
BatchIsExact(batch) ==
  \A x \in Base :
    LET regs == EvalTape(batch.b.tape, x, setting, <<>>)
    IN  \A k \in DOMAIN batch.roots : regs[batch.roots[k]] = Meaning[x, setting][shape.rows[k]]
HessianIsExact(o, tape, weights) ==
  \A x \in Base, v \in Columns, w \in Columns :
    v >= w =>
      Curvature(LAMBDA y : Lagrangian(weights, y), x, v, w)
        = (IF <<v, w>> \in ToSet(o.hessian)
           THEN EvalHessian(o, tape, x, weights, Position(o.hessian, <<v, w>>)) ELSE 0)

\* After any history of edits, parameter changes, refreshes and rebuilds, an
\* oracle that was accepted for the model as it is has this model's values,
\* gradients and supports at the parameter's value, and the weighted Hessian
\* it assembles from scattered quadratic entries and seeded products is that
\* of the model's Lagrangian, with no nonzero entry outside its structure.
OracleIsExact ==
  (oracle # Absent /\ prepared = Current) =>
    /\ \A k \in Functions(shape) :
         IF k \in Present(shape) THEN SlotIsExact(oracle.slots[k], Root(shape, k))
                                 ELSE oracle.slots[k] = ZeroSlot
    /\ oracle.jacobian = JacobianStructure(oracle.slots)
    /\ BatchIsExact(LowerMany(Graph, shape.rows))
    /\ HessianIsExact(oracle, Branches(oracle.lagrangian),
                      [k \in Functions(shape) |-> IF k = 0 THEN 2 ELSE k + 2])

\* Every entry of a pattern is read off exactly one product, in a row where
\* that product sees no other column; no column is seeded twice, so no entry
\* had to be given a product of its own; and however many tasks share the
\* products, each task has some and each product is in one task.
ReadOnce(seeds, entries, e, position) ==
  LET readers == {k \in DOMAIN seeds :
                    \E i \in DOMAIN seeds[k].fills : seeds[k].fills[i].position = position}
  IN  /\ Cardinality(readers) = 1
      /\ \A k \in readers :
           \E i \in DOMAIN seeds[k].fills :
             LET row == seeds[k].fills[i].row
             IN  /\ seeds[k].fills[i].position = position
                 /\ \E w \in seeds[k].cols :
                      /\ Entry(row, w) = e
                      /\ \A u \in seeds[k].cols : Entry(row, u) \in entries => u = w
SharedOut(work, units) ==
  \A count \in 1 .. units :
    LET tasks == Tasks(work, 1, units + 1, count)
    IN  /\ tasks[1].from = 1 /\ tasks[count].to = units + 1
        /\ \A k \in 1 .. count : tasks[k].from < tasks[k].to
        /\ \A k \in 1 .. count - 1 : tasks[k].to = tasks[k + 1].from
SeedsRecover(seeds, structure) ==
  /\ \A k \in DOMAIN structure : ReadOnce(seeds, pattern, structure[k], k)
  /\ \A k, j \in DOMAIN seeds : k # j => seeds[k].cols \cap seeds[j].cols = {}
  /\ \A heavy \in DOMAIN seeds :
       SharedOut(WorkBefore([k \in DOMAIN seeds |->
                               IF k = heavy THEN 20 ELSE Len(seeds[k].fills)]), Len(seeds))
PatternIsRecovered == SeedsRecover(BuildSeeds(pattern, Sorted(pattern)), Sorted(pattern))

=============================================================================
