----------------------------- MODULE MCInterfaces -----------------------------
(***************************************************************************)
(* What crosses the borders of the program: models handed to solvers        *)
(* (Adapters), results taken back (SolutionValues, Projection) and model    *)
(* files (ModelFiles).  A behaviour exercises one of the four machines,     *)
(* chosen at the start; the others keep still.                              *)
(***************************************************************************)
EXTENDS SourceModels, Projection

CONSTANTS Solvers, Scenes, Variants, ParameterValues, Snapshots, Points,  \* adapters
          linear, bounds, quadratic, detected, conic, matrix, switches, specialsets, growth,
          MaxSlots, W, Values, Absent,                                    \* tables
          LpNames, Sanitized, Sentinel, ProblemName, Written, Given, Grid, MaxReads \* files

VARIABLES adapter, scene, variant, p, native, base, edited, fresh,
          values, dense, words, len, cursor, iterating, answer,
          model, source, format, file, place, verdict, reads,
          subject \* what the behaviour exercises

A == INSTANCE Adapters
T == INSTANCE SolutionValues
F == INSTANCE ModelFiles

ASSUME ModelsAssumption == ConstantsAreApart

handle == <<adapter, scene, variant, p, native, base, edited, fresh>>
projection == <<items, lineage, reports, plan, cache, outcome, steps>>
table == <<values, dense, words, len, cursor, iterating, answer>>
files == <<model, source, format, file, place, verdict, reads>>

MCInit ==
  /\ subject \in {"adapter", "projection", "table", "file"}
  /\ IF subject = "adapter" THEN A!Init
     ELSE /\ adapter = "none" /\ scene = linear /\ variant = 1 /\ p = 0
          /\ native = <<>> /\ base = <<>> /\ edited = TRUE /\ fresh = FALSE
  /\ Init
  /\ T!Init /\ (subject # "table" => values = <<>>)
  /\ IF subject = "file" THEN F!Init
     ELSE model = <<>> /\ source = <<>> /\ format = "none" /\ file = <<>> /\ place = <<>> /\ verdict = "none" /\ reads = 0

MCNext ==
  /\ UNCHANGED subject
  /\ \/ subject = "adapter" /\ A!Next /\ UNCHANGED <<projection, table, files>>
     \/ subject = "projection" /\ Next /\ UNCHANGED <<handle, table, files>>
     \/ subject = "table" /\ T!Next /\ UNCHANGED <<handle, projection, files>>
     \/ subject = "file" /\ F!Next /\ UNCHANGED <<handle, projection, table>>

MCSpec == MCInit /\ [][MCNext]_<<handle, projection, table, files, subject>>

\* After a solve the solver holds the model as it is (Adapters).
ResidentMeansModel == A!ResidentMeansModel
\* An answer claims what the solver's report has evidence for (Adapters).
AnswersAreSupported == A!AnswersAreSupported
\* The multiplier of a source row is read from that row's image (Adapters).
MultipliersReachTheirSource == A!MultipliersReachTheirSource
\* Row prices that SCIP's check accepts certify the point (Adapters).
CertifiedPricesAreOptimal == A!CertifiedPricesAreOptimal
\* The table of solution values is a finite map (SolutionValues).
ImplementsSolutionMap == T!ImplementsSolutionMap
\* A model that is written and read is the model (ModelFiles).
FilesKeepTheModel == F!FilesKeepTheModel
\* The reader takes both encodings that the writer has (ModelFiles).
EncodingsAreAccepted == F!EncodingsAreAccepted
\* A GAMS script reads the marginals of equations it declares (Adapters).
ScriptsCompile == A!ScriptsCompile

---------------------------------------------------------------------------
(* Small models.                                                           *)
Nonzero(f) == [i \in {j \in DOMAIN f : f[j] # 0} |-> f[i]]
Lin(c, coefficients) == Affine(c, Nonzero(coefficients))
Quad(c, coefficients, h) == Poly(c, Nonzero(coefficients), Nonzero(h))
Minimize(poly) == <<[max |-> FALSE, poly |-> poly]>>
Maximize(poly) == <<[max |-> TRUE, poly |-> poly]>>
Plain(variables, obj, rows) == FileModel(variables, obj, rows, <<>>, <<>>)

---------------------------------------------------------------------------
(* For the adapters names do not matter.  The parameter is 0, 1 or 2: terms *)
(* with coefficient q vanish at 0, cones are cones only from 1 on, and a    *)
(* variable with bounds [q, 2] is fixed at 2.  The variants of a scene are  *)
(* structural edits of each other.                                          *)
Col(lb, ub) == Variable(<<>>, "real", lb, ub, 0)
Binary == Variable(<<>>, "binary", 0, 1, 0)
Semi(threshold, ub) == Variable(<<>>, "semicontinuous", 0, ub, threshold)
Bare(poly, lo, hi) == NamedRow(<<>>, poly, lo, hi)
Off(record) == [record EXCEPT !.active = FALSE]
NoRow == Off(Bare(Affine(0, <<>>), -Inf, Inf))
ConeOver(aff) == [aff |-> aff, active |-> TRUE]
Indicator(trigger, value, poly, lo, hi) == Gated(Bare(poly, lo, hi), trigger, value)

\* One row of each sense, a constant in the objective and in a row.  The second
\* variant turns the objective around and leaves the rest alone.
LinearOf(v, q) ==
  Plain(<<Col(0, 2), Col(-1, q), Col(-Inf, Inf)>>,
        CASE v = 1 -> Maximize(Lin(q, <<q, 1, -1>>)) [] v = 2 -> Minimize(Lin(q, <<q, 1, -1>>)) [] v = 3 -> None,
        <<Bare(Lin(q, <<1, q, 0>>), -Inf, IF v = 3 THEN 4 ELSE 3), Bare(Lin(0, <<1, -1, 0>>), -1, 1),
          IF v = 3 THEN NoRow ELSE Bare(Lin(1, <<0, 1, q - 1>>), 1, 1), Bare(Lin(0, <<q, 0, 1>>), -1, Inf)>>)
\* Fixed, free, lower, upper and boxed variables; the last is an integer in the
\* third variant.
BoundsOf(v, q) ==
  Plain(<<Col(q, 2), Col(-Inf, q), Col(q - 1, IF v = 2 THEN Inf ELSE 1), 
          IF v = 3 THEN Variable(<<>>, "integer", 0, 1, 0) ELSE Col(0, 0)>>,
        Minimize(Lin(IF v = 3 THEN q ELSE 0, <<1, -1, 1, 1>>)),
        <<Bare(Lin(0, <<1, 1, 0, 1>>), -Inf, 3), Bare(Lin(0, <<0, 1, 1, q>>), IF v = 3 THEN -1 ELSE 1, 1)>>)
\* The Hessian vanishes at 0 in the second variant.
QuadraticOf(v, q) ==
  Plain(<<Col(-1, 1), Col(q - 1, 2)>>,
        CASE v = 1 -> Minimize(Quad(1, <<1, q>>, <<1, 1>> :> 2 @@ <<2, 1>> :> q @@ <<2, 2>> :> 2 * q))
          [] v = 2 -> Minimize(Quad(q, <<1, q>>, <<1, 1>> :> 2 * q))
          [] v = 3 -> Maximize(Quad(1, <<1, q>>, <<1, 1>> :> -2)),
        <<Bare(Lin(q, <<1, 1>>), 0, Inf)>>)
\* x1^2 + p^2 x2^2 <= x3^2 is a cone while x3 cannot be negative; in the third
\* variant p moves only the bound of x3, and with it the cone.
DetectedCone(v, q) ==
  Plain(<<Col(-1, 1), Col(-1, 1), Col(IF v = 2 THEN 0 ELSE q - 1, 2)>>, Minimize(Lin(0, <<1, 0, 1>>)),
        <<Bare(Lin(0, <<1, q, 0>>), -1, Inf),
          Bare(Quad(0, <<0, 0, 0>>, <<1, 1>> :> 2 @@ <<2, 2>> :> (IF v = 3 THEN 2 ELSE IF q = 2 THEN 8 ELSE 2 * q) @@ <<3, 3>> :> -2), -Inf, 0)>>
        \o (IF v = 3 THEN <<Bare(Quad(q, <<1, 0, 0>>, <<1, 1>> :> 2 @@ <<2, 1>> :> q), -1, 2)>> ELSE <<>>))
Cones(v, q) ==
  [Plain(<<Col(-1, 1), Col(-1, 2), Col(-1, 2)>>, Maximize(Lin(0, <<q, 1, 0>>)),
         <<Bare(Lin(0, <<1, 1, 1>>), -2, 2)>>)
   EXCEPT !.socs =
     <<IF v = 1 THEN Off(ConeOver(<<Lin(1, <<0, 0, 1>>), Lin(q, <<1, 0, 0>>)>>)) ELSE ConeOver(<<Lin(1, <<0, 0, 1>>), Lin(q, <<1, 0, 0>>)>>),
       ConeOver(<<Lin(q, <<0, 1, 1>>), Lin(0, <<1, 0, 0>>), Lin(1, <<q, 1, 0>>)>>)>>]
\* The upper triangle by columns: (1,1), (1,2), (2,2), (1,3), (2,3), (3,3).
Matrix(v, q) ==
  [Plain(<<Col(-1, 1), Col(-1, 1)>>, Maximize(Lin(q, <<1, 1>>)), <<Bare(Lin(0, <<1, 1>>), -1, Inf)>>)
   EXCEPT !.psds =
     <<[n |-> 3, active |-> v # 3,
        tri |-> <<Lin(2, <<0, 0>>), Lin(0, <<1, 0>>), Lin(1, <<1, 0>>), Lin(0, <<0, 1>>), Lin(q, <<0, 1>>), Lin(2, <<0, 0>>)>>],
       [n |-> 2, active |-> v # 1, tri |-> <<Lin(1, <<q, 0>>), Lin(1, <<0, 0>>), Lin(1, <<0, 1>>)>>]>>]
Switches(v, q) ==
  [Plain(<<Binary, Col(-1, 2), Col(0, 2)>>, Minimize(Lin(1, <<q, 1, 1>>)), <<Bare(Lin(0, <<0, 1, 1>>), 0, Inf)>>)
   EXCEPT !.inds = <<Indicator(1, 1, Lin(q, <<0, 1, 0>>), -Inf, 1),
                     IF v = 2 THEN Off(Indicator(1, 0, Lin(q, <<0, 1, -1>>), 0, 1)) ELSE Indicator(1, 0, Lin(q, <<0, 1, -1>>), 0, 1),
                     Indicator(1, IF v = 3 THEN 0 ELSE 1, Lin(0, <<0, q, 1>>), 1, 1)>>]
Sets(v, q) ==
  [Plain(<<Col(-1, 1), Col(0, q), Semi(2, 2), IF v = 3 THEN Variable(<<>>, "binary", 1, 1, 0) ELSE Col(0, 1)>>, Maximize(Lin(0, <<1, q, 1, 1>>)),
         <<Bare(Lin(0, <<1, 1, 1, q>>), -Inf, 3)>>)
   EXCEPT !.soss = <<[type |-> 2, over |-> <<1, 2, 4>>, active |-> v # 2], [type |-> 1, over |-> <<2, 3>>, active |-> v # 3]>>]
\* Every variant extends the one before it, behind auxiliary columns.
Growth(v, q) ==
  [Plain(<<Col(0, 2), Binary>> \o (IF v > 1 THEN <<Col(-1, 1)>> ELSE <<>>) \o (IF v > 2 THEN <<Variable(<<>>, "integer", 0, 2, 0)>> ELSE <<>>),
         Minimize(Lin(2, <<IF q = 0 THEN 2 ELSE 1, 1>> \o (IF v > 1 THEN <<1>> ELSE <<>>) \o (IF v > 2 THEN <<-1>> ELSE <<>>))),
         <<Bare(Lin(0, <<1, q>>), 0, 2)>> \o (IF v > 1 THEN <<Bare(Lin(q, <<1, 0, q + 1>>), -Inf, 2)>> ELSE <<>>)
         \o (IF v > 2 THEN <<Bare(Quad(0, <<1, 0, 0, 1>>, <<4, 3>> :> 1), -Inf, 2)>> ELSE <<>>))
   EXCEPT !.inds = <<Indicator(2, 0, Lin(0, <<1, 0>>), 1, Inf)>>
                   \o (IF v > 2 THEN <<Indicator(2, 0, Lin(0, <<0, 0, 1, 1>>), 0, 1)>> ELSE <<>>)]

ModelOf(s, v, q) ==
  CASE s = linear -> LinearOf(v, q) [] s = bounds -> BoundsOf(v, q) [] s = quadratic -> QuadraticOf(v, q)
    [] s = detected -> DetectedCone(v, q) [] s = conic -> Cones(v, q) [] s = matrix -> Matrix(v, q)
    [] s = switches -> Switches(v, q) [] s = specialsets -> Sets(v, q) [] s = growth -> Growth(v, q)
MCSnapshots == [s \in Scenes |-> [v \in Variants |-> [q \in ParameterValues |-> ModelOf(s, v, q)]]]
\* Binary variables take 0 and 1; the others also a value out of their bounds.
Levels(v) == IF v.dom = "binary" THEN {0, 1} ELSE -1 .. 2
MCPoints == [s \in Scenes |-> [v \in Variants |->
  LET m == ModelOf(s, v, 0)
  IN  {x \in [DOMAIN m.vars -> -1 .. 2] : \A i \in DOMAIN x : x[i] \in Levels(m.vars[i])}]]

---------------------------------------------------------------------------
(* The names r and r_lo, and x[1] and x_1_, are made to meet where a writer *)
(* derives names from names.                                                *)
X == <<"x">>
Y == <<"y">>
Z == <<"z">>
X1 == <<"x", "[1]">>
X1Clean == <<"x", "_1_">>
MCSanitized == [part \in {"[1]"} |-> "_1_"]
MCLpNames ==
  {"x", "y", "z", "u", "b", "r", "s", "t", "g", "_1_", "_1", "_2", "_lo", "_hi", "x0", "x1", "x2", "x3", "c0", "c1", "c2"}

MCGrid == -1 .. 2
MCProblemName == <<"model">>

Real(name, lb, ub) == Variable(name, "real", lb, ub, 0)
Whole(name, lb, ub) == Variable(name, "integer", lb, ub, 0)
Bit(name) == Variable(name, "binary", 0, 1, 0)
Started(v, value) == [v EXCEPT !.init = <<value>>]

\* One row of each sense, with constants; u is in no row.
AllSenses ==
  Plain(<<Real(X, 0, Inf), Started(Real(Y, -1, 2), 1), Real(Z, -Inf, Inf), Real(<<"u">>, 0, Inf)>>,
        Maximize(Lin(2, <<1, -1, 2, 0>>)),
        <<NamedRow(<<"r">>, Lin(1, <<1, 1, 0, 0>>), 0, 2), NamedRow(<<"r", "_lo">>, Lin(0, <<1, 0, -1, 0>>), -1, Inf),
          NamedRow(<<"s">>, Lin(1, <<0, 1, 1, 0>>), -Inf, 2), NamedRow(<<"t">>, Lin(0, <<1, 0, 1, 0>>), 1, 1),
          NamedRow(<<"r", "_hi">>, Lin(0, <<1, 0, 0, 1>>), -Inf, 3), NamedRow(<<"g">>, Lin(0, <<1, 0, 0, 0>>), -Inf, Inf)>>)
\* Every domain; the first two columns get one clean name.
AllDomains ==
  Plain(<<Whole(X1, -1, Inf), Bit(X1Clean), Variable(<<"s">>, "semicontinuous", 0, 2, 1), Variable(<<"t">>, "semiinteger", 0, Inf, 2)>>,
        Minimize(Lin(-1, <<1, 0, 1, 1>>)),
        <<NamedRow(<<"r">>, Lin(0, <<1, 1, 1, 0>>), 1, Inf), NamedRow(<<"OBJ">>, Lin(0, <<0, 0, 1, -1>>), -1, 1)>>)
BoundKinds ==
  Plain(<<Bit(<<"b">>), Whole(X, 0, 2), Real(Y, -Inf, 1), Started(Whole(Z, 1, 1), 1)>>,
        Minimize(Lin(0, <<1, 1, -1, 1>>)), <<NamedRow(<<"r">>, Lin(0, <<1, 1, 1, 1>>), -Inf, 2)>>)
\* Integer and continuous variables that are nonlinear in the row, in the
\* objective, in both and in neither.
Curved ==
  Plain(<<Real(<<"u">>, -1, 2), Whole(X, -1, 1), Real(Y, -1, 2), Started(Bit(Z), 1)>>,
        Minimize(Quad(0, <<1, 1, 0, 1>>, <<3, 2>> :> -1 @@ <<3, 3>> :> 2 @@ <<2, 2>> :> 2)),
        <<NamedRow(<<"r">>, Lin(0, <<1, 1, 0, 1>>), 0, 2), NamedRow(<<"s">>, Quad(1, <<2, 0, 1, 0>>, <<4, 3>> :> 2 @@ <<3, 2>> :> 2 @@ <<3, 3>> :> -2), -1, 1)>>)
CurvedBits ==
  Plain(<<Bit(<<"b">>), Whole(X, 0, 2), Bit(<<"g">>), Real(Y, -1, 1)>>,
        Maximize(Quad(0, <<1, 0, 1, 1>>, <<4, 2>> :> 1 @@ <<2, 2>> :> -2)),
        <<NamedRow(<<"r">>, Quad(0, <<0, 1, 1, -1>>, <<3, 2>> :> -2 @@ <<3, 3>> :> 4), -Inf, 1)>>)
SwitchedRows ==
  FileModel(<<Bit(<<"b">>), Real(X, -1, 2), Real(Y, 0, 2)>>, Minimize(Lin(0, <<1, 1, 1>>)),
    <<NamedRow(<<"r">>, Lin(0, <<1, 1, 0>>), 0, Inf), NamedRow(<<"g", "_lo">>, Lin(0, <<0, 1, 1>>), -1, 2)>>,
    <<Gated(NamedRow(<<"g">>, Lin(1, <<0, 1, -1>>), 0, 2), 1, 1), Gated(NamedRow(<<"s">>, Lin(0, <<0, 1, 1>>), 1, 1), 1, 0),
      [Gated(NamedRow(<<"t">>, Lin(0, <<0, 1, 0>>), 0, 0), 1, 1) EXCEPT !.active = FALSE]>>,
    <<>>)
OrderedSets ==
  FileModel(<<Real(X, -1, 2), Real(Y, 0, 2), Real(Z, 0, Inf), Bit(<<"b">>)>>, Maximize(Lin(0, <<1, 1, 1, -1>>)),
    <<NamedRow(<<"r">>, Lin(0, <<1, 1, 1, 0>>), -Inf, 3)>>,
    <<Gated(NamedRow(<<"s">>, Lin(0, <<1, 1, 0, 0>>), -Inf, 1), 4, 1)>>,
    <<SosSet(<<"s">>, 2, <<1, 3, 2>>, <<1, 2, 3>>), [SosSet(<<"t">>, 1, <<1, 2>>, <<1, 2>>) EXCEPT !.active = FALSE]>>)
Feasibility == Plain(<<Whole(X, 0, 2), Real(Y, -1, 1)>>, None, <<NamedRow(<<"r">>, Lin(0, <<1, 1>>), 1, 1)>>)
\* What a format loses the others keep: an unbounded integer (MPS), a fixed
\* binary variable (LP), the constant of a nonlinear objective and a row with
\* the name of the model (NL).
UnboundedInteger == Plain(<<Whole(X, 0, Inf), Real(Y, -Inf, 1)>>, Minimize(Lin(1, <<1, 1>>)), <<NamedRow(<<"r">>, Lin(0, <<1, 1>>), -Inf, 2)>>)
FixedBit ==
  FileModel(<<Variable(<<"b">>, "binary", 1, 1, 0), Real(Y, 0, 1)>>, Minimize(Quad(1, <<1, 1>>, <<2, 2>> :> 2)),
            <<NamedRow(<<"model">>, Lin(0, <<1, 1>>), -Inf, 2)>>, <<>>, <<SosSet(<<"s">>, 1, <<1, 2>>, <<1, 2>>)>>)
Named == Plain(<<Real(X, 0, 1), Real(Y, 0, 1)>>, Maximize(Quad(1, <<1, 1>>, <<2, 2>> :> -2)), <<NamedRow(<<"model">>, Lin(0, <<1, 1>>), -Inf, 2)>>)
MCWritten == {AllSenses, AllDomains, BoundKinds, Curved, CurvedBits, SwitchedRows, OrderedSets, Feasibility, UnboundedInteger, FixedBit, Named}

---------------------------------------------------------------------------
LpBody(lin, quad, halved, const) == [lin |-> lin, quad |-> quad, halved |-> halved, const |-> const]
Statement(name, lo, hi, free) == [name |-> name, lo |-> lo, hi |-> hi, free |-> free]
LpLine(label, body, sense, rhs) == [label |-> label, gate |-> <<>>, body |-> body, sense |-> sense, rhs |-> rhs]
\* Rows without names beside one called c0, terms of one variable twice, a free
\* variable with an upper bound.
GivenLp ==
  [format |-> "lp",
   file |-> [max |-> FALSE, obj |-> LpBody(<<<<1, X>>, <<1, Y>>, <<1, X>>>>, <<<<2, X, Y>>>>, TRUE, 1),
             rows |-> <<LpLine(<<>>, LpBody(<<<<1, Y>>, <<2, X>>>>, <<>>, FALSE, 0), "le", 2),
                        LpLine(<<"c0">>, LpBody(<<<<1, X>>>>, <<<<1, Z, Z>>>>, FALSE, 0), "ge", 0)>>,
             bounds |-> <<Statement(Y, <<>>, <<1>>, FALSE), Statement(Y, <<>>, <<>>, TRUE), Statement(X, <<-1>>, <<>>, FALSE)>>,
             general |-> <<Z>>, binary |-> <<>>, semi |-> <<>>, sos |-> <<>>],
   means |-> Plain(<<Real(Y, -Inf, 1), Real(X, -1, Inf), Whole(Z, 0, Inf)>>,
                   Minimize(Quad(1, <<1, 2, 0>>, <<2, 1>> :> 1)),
                   <<NamedRow(<<"c1">>, Lin(0, <<1, 2, 0>>), -Inf, 2), NamedRow(<<"c0">>, Quad(0, <<0, 1, 0>>, <<3, 3>> :> 2), 0, Inf)>>)]
\* A second free row, ranges on every kind of row, negative upper bounds, bound
\* types of integers, a full symmetric matrix.
Header(section) == <<<<"header", section, <<>>>>>>
Column(name, row, value) == <<"column", name, row, value>>
GivenMps ==
  [format |-> "gurobi",
   file |-> Header("ROWS")
     \o <<<<"row", "N", <<"s">>>>, <<"row", "E", <<"r">>>>, <<"row", "N", <<"t">>>>, <<"row", "G", <<"g">>>>, <<"row", "E", <<"u">>>>>>
     \o Header("COLUMNS")
     \o <<Column(X, <<"r">>, 1), Column(X, <<"s">>, 1), <<"marker", "INTORG">>, Column(Y, <<"r">>, 1), Column(Y, <<"g">>, 1), Column(Y, <<"s">>, 1),
          <<"marker", "INTEND">>, Column(Z, <<"u">>, 1), Column(Z, <<"t">>, 1), Column(X, <<"u">>, -1), Column(<<"u">>, <<"s">>, 0)>>
     \o Header("RHS") \o <<<<"rhs", <<"s">>, -2>>, <<"rhs", <<"r">>, 1>>, <<"rhs", <<"g">>, -1>>>>
     \o Header("RANGES") \o <<<<"range", <<"r">>, -2>>, <<"range", <<"g">>, 3>>, <<"range", <<"u">>, 1>>>>
     \o Header("BOUNDS")
     \o <<<<"bound", "UP", X, -1>>, <<"bound", "UI", <<"u">>, 2>>, <<"bound", "LI", <<"u">>, 1>>, <<"bound", "MI", Z>>>>
     \o Header("QMATRIX") \o <<<<"quadratic", X, Z, 1>>, <<"quadratic", Z, X, 1>>, <<"quadratic", X, X, 2>>>>
     \o Header("ENDATA"),
   means |-> Plain(<<Real(X, -Inf, -1), Whole(Y, 0, 1), Real(Z, -Inf, Inf), Whole(<<"u">>, 1, 2)>>,
                   Minimize(Quad(2, <<1, 1, 0, 0>>, <<3, 1>> :> 1 @@ <<1, 1>> :> 2)),
                   <<NamedRow(<<"r">>, Lin(0, <<1, 1, 0, 0>>), -1, 1), NamedRow(<<"t">>, Lin(0, <<0, 0, 1, 0>>), -Inf, Inf),
                     NamedRow(<<"g">>, Lin(0, <<0, 1, 0, 0>>), -1, 2), NamedRow(<<"u">>, Lin(0, <<-1, 0, 1, 0>>), 0, 1)>>)]
MCGiven == {GivenLp, GivenMps}
=============================================================================
