-------------------------------- MODULE LpFile --------------------------------
(***************************************************************************)
(* Files in CPLEX LP format (lp.rs): the statements of each section, the    *)
(* writer that makes them from a model, and the reader that makes a model   *)
(* from them.  Reading gives <<model>>, or <<>> for a file it refuses.      *)
(*                                                                          *)
(* An expression is its terms: [lin, quad, halved, const], where lin has    *)
(* entries <<coefficient, name>>, quad <<coefficient, name, name>>, halved  *)
(* says that the bracket is followed by /2.                                 *)
(***************************************************************************)
EXTENDS SourceModels

CONSTANT LpNames   \* the parts of names that are one LP word

IsLpName(name) == name # <<>> /\ ToSet(name) \subseteq LpNames

---------------------------------------------------------------------------
(* The writer.                                                             *)
Body(vars, p, constraint) ==
  LET over == Sorted(DOMAIN p.t)
      pairs == Pairs(p.h)
      Printed(ij) == IF ij[1] # ij[2] THEN (IF constraint THEN 1 ELSE 2) * p.h[ij]
                     ELSE IF constraint THEN p.h[ij] \div 2 ELSE p.h[ij]
  IN  [lin |-> [k \in DOMAIN over |-> <<p.t[over[k]], vars[over[k]].name>>],
       quad |-> [k \in DOMAIN pairs |->
                   <<Printed(pairs[k]), vars[pairs[k][2]].name, vars[pairs[k][1]].name>>],
       halved |-> ~constraint,
       const |-> IF constraint THEN 0 ELSE p.c]

Numbered(base, k) == IF k = 1 THEN base ELSE Append(base, "_" \o ToString(k))
\* Fault: the other labels are not looked at.
PlainLabel(used, base) == base
\* unique_label
UniqueLabel(used, base) ==
  Numbered(base, Min({k \in 1 .. Cardinality(used) + 1 : Numbered(base, k) \notin used}))

Line(label, gate, body, sense, rhs) ==
  [label |-> label, gate |-> gate, body |-> body, sense |-> sense, rhs |-> rhs]
\* A row with one side is one line, a range two, a free row none.
RowLines(acc, r, gate, body) ==
  LET low == UniqueLabel(acc.used, Append(r.name, "_lo"))
      high == UniqueLabel(acc.used \cup {low}, Append(r.name, "_hi"))
  IN  CASE Single(r) -> [acc EXCEPT !.lines = Append(@, Line(r.name, gate, body, Sense(r), RowSide(r)))]
        [] Sense(r) = "range" ->
             [used |-> acc.used \cup {low, high},
              lines |-> acc.lines \o <<Line(low, gate, body, "ge", r.lo - r.poly.c),
                                       Line(high, gate, body, "le", r.hi - r.poly.c)>>]
        [] Sense(r) = "free" -> acc
WrittenRows(m) ==
  LET Plain(acc, r) == RowLines(acc, r, <<>>, Body(m.vars, r.poly, TRUE))
      Switched(acc, r) ==
        RowLines(acc, r, <<[trigger |-> m.vars[r.trigger].name, value |-> r.value]>>, Body(m.vars, r.poly, TRUE))
      names == ToSet(NamesOf(m.rows)) \cup ToSet(NamesOf(m.inds))
  IN  FoldLeft(Switched, FoldLeft(Plain, [used |-> names, lines |-> <<>>], m.rows), ActiveOf(m.inds)).lines

Bounds(v, lo, hi, free) == <<[name |-> v.name, lo |-> lo, hi |-> hi, free |-> free]>>
\* Only bounds that are not the default; a binary variable has none, and the
\* threshold of a semi-continuous one is its lower bound.
WrittenBounds(v) ==
  CASE v.dom = "binary" -> <<>>
    [] IsSemi(v) -> Bounds(v, <<v.semi>>, IF v.ub = Inf THEN <<>> ELSE <<v.ub>>, FALSE)
    [] v.dom # "binary" /\ ~IsSemi(v) ->
         IF v.lb = 0 /\ v.ub = Inf THEN <<>>
         ELSE IF v.lb = -Inf /\ v.ub = Inf THEN Bounds(v, <<>>, <<>>, TRUE)
         ELSE Bounds(v, <<v.lb>>, IF v.ub = Inf THEN <<>> ELSE <<v.ub>>, FALSE)

Section(m, P(_)) == NamesOf(SelectSeq(m.vars, P))
WrittenSets(m) ==
  [k \in DOMAIN ActiveOf(m.soss) |->
     LET s == ActiveOf(m.soss)[k]
     IN  [name |-> s.name, type |-> s.type,
          members |-> [j \in DOMAIN s.over |-> <<m.vars[s.over[j]].name, s.weights[j]>>]]]
LpWritable(m) == NoCones(m) /\ \A k \in DOMAIN ActiveOf(m.inds) : IsAffine(ActiveOf(m.inds)[k].poly)
WriteLp(m) ==
  [max |-> ExportTerms(m).max,
   obj |-> Body(m.vars, ExportTerms(m).poly, FALSE),
   rows |-> WrittenRows(m),
   bounds |-> FlattenSeq([k \in DOMAIN m.vars |-> WrittenBounds(m.vars[k])]),
   general |-> Section(m, LAMBDA v : v.dom \in {"integer", "semiinteger"}),
   binary |-> Section(m, LAMBDA v : v.dom = "binary"),
   semi |-> Section(m, IsSemi),
   sos |-> WrittenSets(m)]

---------------------------------------------------------------------------
(* The reader.                                                             *)
Mentioned(body) ==
  [k \in DOMAIN body.lin |-> body.lin[k][2]]
  \o FlattenSeq([k \in DOMAIN body.quad |-> <<body.quad[k][2], body.quad[k][3]>>])
MembersOf(file) == FlattenSeq([k \in DOMAIN file.sos |-> [j \in DOMAIN file.sos[k].members |-> file.sos[k].members[j][1]]])
\* The variables in the order in which they are met: rows, objective, then
\* those that only a section names; `keys` is the order of the bounds' table.
Met(file, keys) ==
  Distinct(FlattenSeq([k \in DOMAIN file.rows |->
                         Mentioned(file.rows[k].body)
                         \o [j \in DOMAIN file.rows[k].gate |-> file.rows[k].gate[j].trigger]])
           \o Mentioned(file.obj) \o keys \o file.general \o file.binary \o file.semi \o MembersOf(file))
BoundedNames(file) == {file.bounds[k].name : k \in DOMAIN file.bounds}

\* declare_bound: each side once; resolve: `free` only removes the lower bound 0.
Declared(file, name, Given(_)) == SelectSeq(file.bounds, LAMBDA b : b.name = name /\ Given(b))
Lower(b) == b.lo # <<>>
Upper(b) == b.hi # <<>>
Free(b) == b.free
BoundsAreOnce(file) ==
  \A n \in BoundedNames(file) :
    Len(Declared(file, n, Lower)) < 2 /\ Len(Declared(file, n, Upper)) < 2 /\ Len(Declared(file, n, Free)) < 2
ResolvedLower(file, n) ==
  CASE Declared(file, n, Lower) # <<>> -> Declared(file, n, Lower)[1].lo[1]
    [] Declared(file, n, Lower) = <<>> -> IF Declared(file, n, Free) = <<>> THEN 0 ELSE -Inf
ResolvedUpper(file, n) ==
  CASE Declared(file, n, Upper) # <<>> -> Declared(file, n, Upper)[1].hi[1]
    [] Declared(file, n, Upper) = <<>> ->
         IF Contains(file.binary, n) /\ n \notin BoundedNames(file) THEN 1 ELSE Inf
DomainOf(file, n) ==
  CASE Contains(file.semi, n) -> IF Contains(file.general, n) THEN "semiinteger" ELSE "semicontinuous"
    [] ~Contains(file.semi, n) -> IF Contains(file.binary, n) THEN "binary"
                                  ELSE IF Contains(file.general, n) THEN "integer" ELSE "real"
ReadVariable(file, n) ==
  LET dom == DomainOf(file, n)
      low == ResolvedLower(file, n)
  IN  Variable(n, dom, low, ResolvedUpper(file, n), IF Contains(file.semi, n) THEN low ELSE 0)

Lowered(body, at) ==
  Poly(body.const,
       Summed([k \in DOMAIN body.lin |-> <<at[body.lin[k][2]], body.lin[k][1]>>]),
       LET Whole(k) == Curvature(at[body.quad[k][2]], at[body.quad[k][3]], body.quad[k][1])
       IN  Summed([k \in DOMAIN body.quad |->
                     IF body.halved THEN <<Whole(k)[1], Whole(k)[2] \div 2>> ELSE Whole(k)]))
Lined(l, name, at) ==
  NamedRow(name, Lowered(l.body, at), IF l.sense = "le" THEN -Inf ELSE l.rhs, IF l.sense = "ge" THEN Inf ELSE l.rhs)

Labels(file) == SelectSeq([k \in DOMAIN file.rows |-> file.rows[k].label], LAMBDA n : n # <<>>)
\* Rows without a label are called c0, c1, ..., skipping what is taken: first
\* the plain rows, then the indicators.
PlainLines(file) == SelectSeq(file.rows, LAMBDA l : l.gate = <<>>)
GatedLines(file) == SelectSeq(file.rows, LAMBDA l : l.gate # <<>>)
Named(file) ==
  LET taken == ToSet(Labels(file))
      Generated(k) == <<"c" \o ToString(k)>>
      Take(acc, l) ==
        IF l.label # <<>> THEN [acc EXCEPT !.names = Append(@, l.label)]
        ELSE LET k == Min({j \in acc.next .. acc.next + Cardinality(taken) : Generated(j) \notin taken})
             IN  [next |-> k + 1, names |-> Append(acc.names, Generated(k))]
  IN  FoldLeft(Take, [next |-> 0, names |-> <<>>], PlainLines(file) \o GatedLines(file)).names

SetsAreSound(file) ==
  /\ ~Repeats(NamesOf(file.sos))
  /\ \A k \in DOMAIN file.sos :
       LET members == file.sos[k].members
       IN  ~Repeats([j \in DOMAIN members |-> members[j][1]]) /\ ~Repeats([j \in DOMAIN members |-> members[j][2]])
Built(file, vars, at, names) ==
  LET plain == PlainLines(file)
      gated == GatedLines(file)
  IN  FileModel(vars,
        IF Mentioned(file.obj) = <<>> THEN None ELSE <<[max |-> file.max, poly |-> Lowered(file.obj, at)]>>,
        [k \in DOMAIN plain |-> Lined(plain[k], names[k], at)],
        [k \in DOMAIN gated |->
           Gated(Lined(gated[k], names[Len(plain) + k], at), at[gated[k].gate[1].trigger], gated[k].gate[1].value)],
        [k \in DOMAIN file.sos |->
           SosSet(file.sos[k].name, file.sos[k].type,
                  [j \in DOMAIN file.sos[k].members |-> at[file.sos[k].members[j][1]]],
                  [j \in DOMAIN file.sos[k].members |-> file.sos[k].members[j][2]])])
LpAccepts(file, names) ==
  /\ \A k \in DOMAIN names : IsLpName(names[k])
  /\ BoundsAreOnce(file)
  /\ \A k \in DOMAIN names : ResolvedLower(file, names[k]) <= ResolvedUpper(file, names[k])
  /\ ~Repeats(Labels(file))
  /\ SetsAreSound(file)
  /\ \A k \in DOMAIN file.rows : \A j \in DOMAIN file.rows[k].gate :
       file.rows[k].body.quad = <<>> /\ Contains(file.binary, file.rows[k].gate[j].trigger)
ReadLpIn(file, names) ==
  IF LpAccepts(file, names)
  THEN <<Built(file, [k \in DOMAIN names |-> ReadVariable(file, names[k])],
               [n \in ToSet(names) |-> CHOOSE k \in DOMAIN names : names[k] = n], Named(file))>>
  ELSE <<>>
=============================================================================
