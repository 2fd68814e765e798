-------------------------------- MODULE MpsFile --------------------------------
(***************************************************************************)
(* Files in MPS format (mps.rs) in the dialects of Gurobi, CPLEX and MOSEK: *)
(* a file is a sequence of lines, <<"header", section, name>> or a tag that  *)
(* says what the line has and its fields; the reader folds the lines into a *)
(* table of rows and columns, which becomes the model.                      *)
(***************************************************************************)
EXTENDS SourceModels

CONSTANTS Sanitized,   \* what the other parts of names become
          Sentinel     \* MPS_INFINITY_SENTINEL: values from it on are infinite

Header(section, name) == <<<<"header", section, name>>>>
Objective0 == <<"OBJ">>

---------------------------------------------------------------------------
(* The writer.                                                             *)
Clean(name) == [k \in DOMAIN name |-> IF name[k] \in DOMAIN Sanitized THEN Sanitized[name[k]] ELSE name[k]]
\* unique_mps_names: clean names, made different from each other and from the
\* reserved ones by a number.
UniqueNames(names, prefix, reserved) ==
  LET Suffixed(base, k) == IF k = 0 THEN base ELSE Append(base, "_" \o ToString(k))
      Base(k) == IF names[k] = <<>> THEN <<prefix \o ToString(k)>> ELSE Clean(names[k])
      Take(acc, k) ==
        LET used == reserved \cup ToSet(acc)
        IN  Append(acc, Suffixed(Base(k), Min({j \in 0 .. Cardinality(used) : Suffixed(Base(k), j) \notin used})))
  IN  FoldLeft(Take, <<>>, [k \in DOMAIN names |-> k])
ColumnNames(m) == UniqueNames(NamesOf(m.vars), "C", {})
RowNames(rows) == UniqueNames(NamesOf(rows), "R", {Objective0})

Tag(r) ==
  CASE Sense(r) = "le" \/ Sense(r) = "range" -> "L"
    [] Sense(r) = "ge" -> "G"
    [] Sense(r) = "eq" -> "E"
    [] Sense(r) = "free" -> "N"
Entries(m, rowNames, i) ==
  LET p == ExportTerms(m).poly
      over == SelectSeq([k \in DOMAIN m.rows |-> k], LAMBDA k : i \in DOMAIN m.rows[k].poly.t)
  IN  (IF i \in DOMAIN p.t THEN <<<<Objective0, p.t[i]>>>> ELSE <<>>)
      \o [n \in DOMAIN over |-> <<rowNames[over[n]], m.rows[over[n]].poly.t[i]>>]
\* Only integer columns are between markers; a column without an entry is
\* written with a zero in the objective.
WrittenColumns(m, names, rowNames) ==
  LET Marked(i) == i \in DOMAIN m.vars /\ m.vars[i].dom = "integer"
      Column(i) == IF Entries(m, rowNames, i) = <<>> THEN <<<<Objective0, 0>>>> ELSE Entries(m, rowNames, i)
      One(i) ==
        (IF Marked(i) # Marked(i - 1) THEN <<<<"marker", IF Marked(i) THEN "INTORG" ELSE "INTEND">>>> ELSE <<>>)
        \o [k \in DOMAIN Column(i) |-> <<"column", names[i], Column(i)[k][1], Column(i)[k][2]>>]
  IN  FlattenSeq([i \in DOMAIN m.vars |-> One(i)])
      \o IF Marked(Len(m.vars)) THEN <<<<"marker", "INTEND">>>> ELSE <<>>
\* The right-hand side of a range is its upper end.
WrittenRhs(m, rowNames) ==
  LET constant == ExportTerms(m).poly.c
      sides == SelectSeq([k \in DOMAIN m.rows |-> <<"rhs", rowNames[k], RowSide(m.rows[k])>>],
                         LAMBDA e : e[3] # 0 /\ Finite(e[3]))
  IN  (IF constant = 0 THEN <<>> ELSE <<<<"rhs", Objective0, -constant>>>>) \o sides
WrittenRanges(m, rowNames) ==
  LET over == SelectSeq([k \in DOMAIN m.rows |-> k], LAMBDA k : Sense(m.rows[k]) = "range")
  IN  [n \in DOMAIN over |-> <<"range", rowNames[over[n]], m.rows[over[n]].hi - m.rows[over[n]].lo>>]
WrittenBound(v, name) ==
  LET low == IF v.lb = 0 THEN <<>> ELSE <<<<"bound", "LO", name, v.lb>>>>
      high == <<<<"bound", "UP", name, v.ub>>>>
  IN  CASE v.dom = "binary" ->
             <<<<"bound", "BV", name>>>> \o low \o IF v.ub = 1 THEN <<>> ELSE high
        [] IsSemi(v) ->
             <<<<"bound", "LO", name, v.semi>>, <<"bound", IF v.int THEN "SI" ELSE "SC", name, IF v.ub = Inf THEN Sentinel ELSE v.ub>>>>
        [] v.dom # "binary" /\ ~IsSemi(v) ->
             IF IsFixed(v) THEN <<<<"bound", "FX", name, v.lb>>>>
             ELSE IF v.lb = -Inf THEN (IF v.ub = Inf THEN <<<<"bound", "FR", name>>>> ELSE <<<<"bound", "MI", name>>>> \o high)
             ELSE low \o IF v.ub = Inf THEN <<>> ELSE high

\* The entries of a triangle; CPLEX wants the upper one of the objective, and
\* all but MOSEK both triangles of a row.
WrittenQuadratic(p, names, dialect, objective) ==
  LET Value(ij) == IF objective \/ dialect # "gurobi" THEN p.h[ij] ELSE p.h[ij] \div 2
      Record(ij) ==
        CASE objective -> IF dialect = "cplex" THEN <<<<"quadratic", names[ij[2]], names[ij[1]], Value(ij)>>>>
                          ELSE <<<<"quadratic", names[ij[1]], names[ij[2]], Value(ij)>>>>
          [] ~objective -> <<<<"quadratic", names[ij[2]], names[ij[1]], Value(ij)>>>>
                           \o IF dialect # "mosek" /\ ij[1] # ij[2]
                              THEN <<<<"quadratic", names[ij[1]], names[ij[2]], Value(ij)>>>> ELSE <<>>
  IN  FlattenSeq([k \in DOMAIN Pairs(p.h) |-> Record(Pairs(p.h)[k])])
WrittenQuadratics(m, names, rowNames, dialect) ==
  LET objective == ExportTerms(m).poly
      One(k) == IF IsAffine(m.rows[k].poly) THEN <<>>
                ELSE Header(IF dialect = "mosek" THEN "QSECTION" ELSE "QCMATRIX", rowNames[k])
                     \o WrittenQuadratic(m.rows[k].poly, names, dialect, FALSE)
  IN  (IF IsAffine(objective) THEN <<>>
       ELSE Header(IF dialect = "mosek" THEN "QSECTION" ELSE "QUADOBJ", Objective0)
            \o WrittenQuadratic(objective, names, dialect, TRUE))
      \o FlattenSeq([k \in DOMAIN m.rows |-> One(k)])
WrittenSos(m, names) ==
  LET sets == ActiveOf(m.soss)
      setNames == UniqueNames(NamesOf(sets), "S", {})
      One(k) == <<<<"set", sets[k].type, setNames[k]>>>>
                \o [j \in DOMAIN sets[k].over |-> <<"member", names[sets[k].over[j]], sets[k].weights[j]>>]
  IN  IF sets = <<>> THEN <<>> ELSE Header("SOS", <<>>) \o FlattenSeq([k \in DOMAIN sets |-> One(k)])
\* write_mps_with, up to the records of the indicators.
WrittenModel(m, names, rowNames, dialect, indicators) ==
  Header("OBJSENSE", <<>>) \o <<<<"sense", ExportTerms(m).max>>>>
  \o Header("ROWS", <<>>) \o <<<<"row", "N", Objective0>>>> \o [k \in DOMAIN m.rows |-> <<"row", Tag(m.rows[k]), rowNames[k]>>]
  \o Header("COLUMNS", <<>>) \o WrittenColumns(m, names, rowNames)
  \o Header("RHS", <<>>) \o WrittenRhs(m, rowNames)
  \o (IF WrittenRanges(m, rowNames) = <<>> THEN <<>> ELSE Header("RANGES", <<>>) \o WrittenRanges(m, rowNames))
  \o Header("BOUNDS", <<>>) \o FlattenSeq([i \in DOMAIN m.vars |-> WrittenBound(m.vars[i], names[i])])
  \o (IF dialect = "cplex" THEN WrittenSos(m, names) ELSE <<>>)
  \o WrittenQuadratics(m, names, rowNames, dialect)
  \o (IF dialect = "cplex" THEN <<>> ELSE WrittenSos(m, names))
  \o indicators \o Header("ENDATA", <<>>)

\* write_mps_with_indicators: the active indicators become rows of a temporary
\* model, two for a range, each with a record that gates it.
Unused(used, base) ==
  LET Suffixed(k) == IF k = 0 THEN base ELSE Append(base, "_" \o ToString(k))
  IN  Suffixed(Min({k \in 0 .. Cardinality(used) : Suffixed(k) \notin used}))
Parts(r) ==
  CASE Single(r) -> <<<<r.name, r.lo, r.hi>>>>
    [] Sense(r) = "range" -> <<<<Append(r.name, "_lo"), r.lo, Inf>>, <<Append(r.name, "_hi"), -Inf, r.hi>>>>
    [] Sense(r) = "free" -> <<>>
Temporary(m) ==
  LET bodies == FlattenSeq([k \in DOMAIN ActiveOf(m.inds) |->
                  LET r == ActiveOf(m.inds)[k]
                  IN  [n \in DOMAIN Parts(r) |->
                         Gated(NamedRow(Parts(r)[n][1], r.poly, Parts(r)[n][2], Parts(r)[n][3]), r.trigger, r.value)]])
      Take(acc, b) == Append(acc, [b EXCEPT !.name = Unused(ToSet(NamesOf(m.rows)) \cup ToSet(NamesOf(acc)), b.name)])
      gated == FoldLeft(Take, <<>>, bodies)
  IN  [m |-> [m EXCEPT !.rows = @ \o [k \in DOMAIN gated |-> NamedRow(gated[k].name, gated[k].poly, gated[k].lo, gated[k].hi)],
                       !.inds = <<>>],
       gated |-> gated]
WrittenGates(m, gated, names, rowNames) ==
  IF gated = <<>> THEN <<>>
  ELSE Header("INDICATORS", <<>>)
       \o [k \in DOMAIN gated |-> <<"if", rowNames[Len(m.rows) + k], names[gated[k].trigger], gated[k].value>>]
MpsWritable(m, dialect) ==
  /\ NoCones(m)
  /\ \A k \in DOMAIN ActiveOf(m.inds) : IsAffine(ActiveOf(m.inds)[k].poly)
  /\ ActiveOf(m.soss) # <<>> => dialect # "mosek"
WriteMps(m, dialect) ==
  LET whole == Temporary(m)
      names == ColumnNames(m)
      rowNames == RowNames(whole.m.rows)
  IN  WrittenModel(whole.m, names, rowNames, dialect, WrittenGates(m, whole.gated, names, rowNames))

---------------------------------------------------------------------------
(* The reader.                                                             *)
Rank(section) ==
  CASE section = "NAME" -> 0 [] section = "OBJSENSE" -> 1 [] section = "ROWS" -> 2 [] section = "COLUMNS" -> 3
    [] section = "RHS" -> 4 [] section = "RANGES" -> 5 [] section = "BOUNDS" -> 6
    [] section \in {"QUADOBJ", "QMATRIX", "QCMATRIX", "QSECTION"} -> 7
    [] section = "SOS" -> 8 [] section = "INDICATORS" -> 9 [] section = "ENDATA" -> 10

\* ParsedMps: objrow and sense are <<>> until they are known; refused when a
\* line was.
Empty ==
  [section |-> "NAME", for |-> <<>>, seen |-> {}, refused |-> FALSE, objrow |-> <<>>, sense |-> <<>>,
   rows |-> <<>>, columns |-> <<>>, linear |-> <<>>, quadratic |-> <<>>, constant |-> 0, triangles |-> <<>>,
   intorg |-> FALSE, quadrows |-> {}, sos |-> <<>>, inds |-> <<>>]
Refuse(d) == [d EXCEPT !.refused = TRUE]
IsObjective(d, name) == d.objrow = <<name>>
RowAt(d, name) == SelectInSeq(d.rows, LAMBDA r : r.name = name)
ColumnAt(d, name) == SelectInSeq(d.columns, LAMBDA c : c.name = name)

\* check_section_transition: in order and once, but CPLEX writes the quadratic
\* sections after the ordered sets.
MayFollow(previous, next) ==
  \/ Rank(next) > Rank(previous)
  \/ Rank(next) = Rank(previous) /\ Rank(next) = 7
  \/ previous = "SOS" /\ Rank(next) = 7
TargetsObjective(d, section, name) ==
  section \in {"QUADOBJ", "QMATRIX"} \/ (section = "QSECTION" /\ (name = Objective0 \/ IsObjective(d, name)))
Begin(d, section, name) ==
  LET next == [d EXCEPT !.section = section, !.for = name, !.seen = @ \cup {section}]
  IN  CASE ~MayFollow(d.section, section) \/ d.intorg -> Refuse(d)
        [] Rank(section) = 7 /\ TargetsObjective(d, section, name) ->
             IF <<>> \in d.quadrows \/ (section = "QSECTION" /\ ~IsObjective(d, name) /\ RowAt(d, name) # 0) THEN Refuse(d)
             ELSE [next EXCEPT !.quadrows = @ \cup {<<>>}]
        [] Rank(section) = 7 /\ ~TargetsObjective(d, section, name) ->
             IF RowAt(d, name) = 0 \/ name \in d.quadrows THEN Refuse(d)
             ELSE [next EXCEPT !.quadrows = @ \cup {name}]
        [] OTHER -> next

\* The first free row is the objective.
ParseRow(d, kind, name) ==
  CASE IsObjective(d, name) \/ RowAt(d, name) # 0 -> Refuse(d)
    [] kind = "N" /\ d.objrow = <<>> -> [d EXCEPT !.objrow = <<name>>]
    [] OTHER ->
         [d EXCEPT !.rows = Append(@,
            [name |-> name, kind |-> kind, linear |-> <<>>, quadratic |-> <<>>,
             lo |-> IF kind \in {"G", "E"} THEN 0 ELSE -Inf, hi |-> IF kind \in {"L", "E"} THEN 0 ELSE Inf])]

ParseMarker(d, value) ==
  IF d.intorg = (value = "INTORG") THEN Refuse(d) ELSE [d EXCEPT !.intorg = ~@]
\* add_column: an integer column has the bounds 0 and 1 until one is given.
NewColumn(name) ==
  [name |-> name, lo |-> 0, hi |-> Inf, kind |-> "real", default |-> TRUE, explicit |-> FALSE, places |-> {}]
Placed(c, inside) ==
  [c EXCEPT !.places = @ \cup {inside}, !.kind = IF inside THEN "integer" ELSE @,
            !.hi = IF inside /\ c.default THEN 1 ELSE @]
AddColumn(d, name) ==
  IF ColumnAt(d, name) = 0 THEN [d EXCEPT !.columns = Append(@, Placed(NewColumn(name), d.intorg))]
  ELSE [d EXCEPT !.columns[ColumnAt(d, name)] = Placed(@, d.intorg)]
ParseColumn(d, name, row, value) ==
  LET e == AddColumn(d, name)
      i == ColumnAt(e, name)
  IN  CASE e.columns[i].places = BOOLEAN -> Refuse(d)
        [] IsObjective(d, row) -> [e EXCEPT !.linear = Append(@, <<i, value>>)]
        [] RowAt(d, row) # 0 -> [e EXCEPT !.rows[RowAt(d, row)].linear = Append(@, <<i, value>>)]
        [] OTHER -> Refuse(d)

ParseRhs(d, row, value) ==
  LET k == RowAt(d, row)
  IN  CASE IsObjective(d, row) -> [d EXCEPT !.constant = -value]
        [] ~IsObjective(d, row) /\ k # 0 /\ d.rows[k].kind # "N" ->
             [d EXCEPT !.rows[k].lo = IF d.rows[k].kind = "L" THEN @ ELSE value,
                       !.rows[k].hi = IF d.rows[k].kind = "G" THEN @ ELSE value]
        [] OTHER -> Refuse(d)
Abs(n) == IF n < 0 THEN -n ELSE n
ParseRange(d, row, value) ==
  LET k == RowAt(d, row)
      kind == d.rows[k].kind
  IN  CASE k = 0 -> Refuse(d)
        [] k # 0 /\ kind = "N" -> Refuse(d)
        [] k # 0 /\ (kind = "G" \/ (kind = "E" /\ value >= 0)) -> [d EXCEPT !.rows[k].hi = d.rows[k].lo + Abs(value)]
        [] k # 0 /\ (kind = "L" \/ (kind = "E" /\ value < 0)) -> [d EXCEPT !.rows[k].lo = d.rows[k].hi - Abs(value)]

\* What a record of each type makes of a column.
Bounded(c, type, v) ==
  LET Explicit(b) == [b EXCEPT !.explicit = TRUE]
      Threshold == IF c.explicit THEN c.lo ELSE 1
  IN  CASE type = "PL" -> [c EXCEPT !.hi = Inf]
        [] type = "MI" -> Explicit([c EXCEPT !.lo = -Inf])
        [] type = "FR" -> Explicit([c EXCEPT !.lo = -Inf, !.hi = Inf])
        [] type = "BV" -> Explicit([c EXCEPT !.lo = 0, !.hi = 1, !.kind = "binary"])
        [] type = "FX" -> Explicit([c EXCEPT !.lo = v, !.hi = v])
        [] type = "UP" -> [c EXCEPT !.lo = IF v < 0 /\ ~c.explicit THEN -Inf ELSE @, !.hi = v]
        [] type = "LO" -> Explicit([c EXCEPT !.lo = v])
        [] type = "LI" -> Explicit([c EXCEPT !.lo = v, !.kind = "integer"])
        [] type = "UI" -> [c EXCEPT !.hi = v, !.kind = "integer"]
        [] type = "SC" -> [c EXCEPT !.lo = Threshold, !.hi = v, !.kind = "semicontinuous"]
        [] type = "SI" -> [c EXCEPT !.lo = Threshold, !.hi = v, !.kind = "semiinteger"]
Released(c) == [c EXCEPT !.hi = IF c.default /\ c.kind = "integer" THEN Inf ELSE @, !.default = FALSE]
ParseBound(d, type, name, value) ==
  LET i == ColumnAt(d, name)
      v == IF value >= Sentinel THEN Inf ELSE value
  IN  IF i = 0 THEN Refuse(d) ELSE [d EXCEPT !.columns[i] = Bounded(Released(@), type, v)]

\* quadratic_coefficient: Gurobi gives the coefficients of a row, everything
\* else second derivatives.
Coefficient(dialect, diagonal, objective, value) ==
  IF objective \/ dialect # "gurobi" THEN (IF diagonal THEN value \div 2 ELSE value)
  ELSE IF diagonal THEN value ELSE 2 * value
\* In a full matrix the entry across the diagonal is the same term again.
ParseQuadratic(d, dialect, left, right, value) ==
  LET i == ColumnAt(d, left)
      j == ColumnAt(d, right)
      objective == TargetsObjective(d, d.section, d.for)
      coefficient == Coefficient(dialect, i = j, objective, value)
      full == d.section \in {"QMATRIX", "QCMATRIX"} /\ i # j
      key == <<IF objective THEN 0 ELSE RowAt(d, d.for), Ordered(i, j)>>
      Earlier(side) == SelectSeq(d.triangles, LAMBDA t : t[1] = key /\ t[2] = side)
      repeated == full /\ Earlier(i < j) = <<>> /\ Earlier(i > j) # <<>>
      kept == IF full THEN [d EXCEPT !.triangles = Append(@, <<key, i < j, coefficient>>)] ELSE d
      term == Curvature(i, j, coefficient)
  IN  CASE i = 0 \/ j = 0 -> Refuse(d)
        [] i # 0 /\ j # 0 /\ repeated -> kept
        [] i # 0 /\ j # 0 /\ ~repeated ->
             IF objective THEN [kept EXCEPT !.quadratic = Append(@, term)]
             ELSE [kept EXCEPT !.rows[key[1]].quadratic = Append(@, term)]
\* validate_quadratic_triangles
Symmetric(d) ==
  \A k \in {d.triangles[n][1] : n \in DOMAIN d.triangles} :
    LET Side0(side) == SelectSeq(d.triangles, LAMBDA t : t[1] = k /\ t[2] = side)
        Total(s) == FoldLeft(LAMBDA acc, t : acc + t[3], 0, s)
    IN  Side0(TRUE) = <<>> \/ Side0(FALSE) = <<>> \/ Total(Side0(TRUE)) = Total(Side0(FALSE))

ParseMember(d, name, weight) ==
  IF d.sos = <<>> THEN Refuse(d)
  ELSE [d EXCEPT !.sos[Len(d.sos)].members = Append(@, <<name, weight>>)]

ParseLine(d, dialect, l) ==
  CASE l[1] = "header" -> Begin(d, l[2], l[3])
    [] l[1] = "sense" -> [d EXCEPT !.sense = <<l[2]>>]
    [] l[1] = "row" -> ParseRow(d, l[2], l[3])
    [] l[1] = "marker" -> ParseMarker(d, l[2])
    [] l[1] = "column" -> ParseColumn(d, l[2], l[3], l[4])
    [] l[1] = "rhs" -> ParseRhs(d, l[2], l[3])
    [] l[1] = "range" -> ParseRange(d, l[2], l[3])
    [] l[1] = "bound" -> ParseBound(d, l[2], l[3], IF Len(l) = 4 THEN l[4] ELSE 0)
    [] l[1] = "quadratic" -> ParseQuadratic(d, dialect, l[2], l[3], l[4])
    [] l[1] = "set" -> [d EXCEPT !.sos = Append(@, [type |-> l[2], name |-> l[3], members |-> <<>>])]
    [] l[1] = "member" -> ParseMember(d, l[2], l[3])
    [] l[1] = "if" -> [d EXCEPT !.inds = Append(@, <<l[2], l[3], l[4]>>)]
Parsed(lines, dialect) == FoldLeft(LAMBDA d, l : IF d.refused THEN d ELSE ParseLine(d, dialect, l), Empty, lines)

---------------------------------------------------------------------------
\* build_mps_model.
IsGap(kind) == kind \in {"semicontinuous", "semiinteger"}
ColumnsAreSound(d) ==
  \A i \in DOMAIN d.columns :
    /\ d.columns[i].lo <= d.columns[i].hi
    /\ IsGap(d.columns[i].kind) => Finite(d.columns[i].lo) /\ d.columns[i].lo >= 0
GatesAreSound(d) ==
  /\ ~Repeats([n \in DOMAIN d.inds |-> d.inds[n][1]])
  /\ \A n \in DOMAIN d.inds :
       LET k == RowAt(d, d.inds[n][1])
           i == ColumnAt(d, d.inds[n][2])
       IN  /\ k # 0 /\ i # 0
           /\ d.columns[i].kind = "binary"
           /\ d.rows[k].quadratic = <<>>
           /\ Finite(d.rows[k].lo) /\ Finite(d.rows[k].hi) => d.rows[k].lo = d.rows[k].hi
MpsSetsAreSound(d) ==
  /\ ~Repeats(NamesOf(d.sos))
  /\ \A n \in DOMAIN d.sos :
       LET members == d.sos[n].members
       IN  /\ members # <<>> /\ \A j \in DOMAIN members : ColumnAt(d, members[j][1]) # 0
           /\ ~Repeats([j \in DOMAIN members |-> members[j][1]]) /\ ~Repeats([j \in DOMAIN members |-> members[j][2]])
MpsAccepts(d) ==
  /\ ~d.refused /\ ~d.intorg /\ {"ROWS", "COLUMNS", "ENDATA"} \subseteq d.seen
  /\ Symmetric(d) /\ ColumnsAreSound(d)
  /\ \A k \in DOMAIN d.rows : d.rows[k].lo <= d.rows[k].hi
  /\ GatesAreSound(d) /\ MpsSetsAreSound(d)
\* The lower bound of a semi-continuous column is its threshold; the variable
\* itself starts at zero.
BuiltVariable(c) ==
  Variable(c.name, c.kind, IF IsGap(c.kind) THEN 0 ELSE c.lo, c.hi, IF IsGap(c.kind) THEN c.lo ELSE 0)
BuiltRow(r) == NamedRow(r.name, Poly(0, Summed(r.linear), Summed(r.quadratic)), r.lo, r.hi)
BuiltModel(d) ==
  LET Gates(k) == SelectSeq(d.inds, LAMBDA g : g[1] = d.rows[k].name)
      plain == SelectSeq([k \in DOMAIN d.rows |-> k], LAMBDA k : Gates(k) = <<>>)
      gated == SelectSeq([k \in DOMAIN d.rows |-> k], LAMBDA k : Gates(k) # <<>>)
  IN  FileModel([i \in DOMAIN d.columns |-> BuiltVariable(d.columns[i])],
        <<[max |-> d.sense = <<TRUE>>, poly |-> Poly(d.constant, Summed(d.linear), Summed(d.quadratic))]>>,
        [n \in DOMAIN plain |-> BuiltRow(d.rows[plain[n]])],
        [n \in DOMAIN gated |->
           Gated(BuiltRow(d.rows[gated[n]]), ColumnAt(d, Gates(gated[n])[1][2]), Gates(gated[n])[1][3])],
        [n \in DOMAIN d.sos |->
           SosSet(d.sos[n].name, d.sos[n].type,
                  [j \in DOMAIN d.sos[n].members |-> ColumnAt(d, d.sos[n].members[j][1])],
                  [j \in DOMAIN d.sos[n].members |-> d.sos[n].members[j][2]])])
MpsModel(d) == IF MpsAccepts(d) THEN <<BuiltModel(d)>> ELSE <<>>
ReadMps(lines, dialect) == MpsModel(Parsed(lines, dialect))
=============================================================================
