------------------------------ MODULE ModelFiles ------------------------------
(***************************************************************************)
(* A model that is written to a file, read back, written again in another   *)
(* format, and so on; files that others wrote are read too.  Between a      *)
(* write and a read the bounds of an LP file may be put in another order:   *)
(* each side is declared once and the order has no meaning (lp.rs, 6-10).   *)
(***************************************************************************)
EXTENDS SourceModels

CONSTANTS LpNames, Sanitized, Sentinel, ProblemName,
          Written,   \* models to be written first
          Given,     \* files of others: [format, file, means]
          Grid,      \* the values of variables at which models are compared
          MaxReads   \* how many files are read one after the other

Lp == INSTANCE LpFile
Mps == INSTANCE MpsFile
Nl == INSTANCE NlFile

VARIABLES model,     \* <<model>>, or <<>> before the first file is read
          source,    \* <<model>>: what the file says, or <<>>
          format, file,
          place,     \* place[i]: where the file has variable i of the source
          verdict,   \* of the last read: "none", "read" or "refused"
          reads

vars == <<model, source, format, file, place, verdict, reads>>
Dialects == {"gurobi", "cplex", "mosek"}

InOrder(m) == [i \in DOMAIN m.vars |-> i]
Init ==
  /\ verdict = "none" /\ reads = 0
  /\ \/ \E m \in Written : model = <<m>> /\ source = <<>> /\ format = "none" /\ file = <<>> /\ place = <<>>
     \/ \E g \in Given : /\ model = <<>> /\ source = <<g.means>> /\ format = g.format /\ file = g.file
                         /\ place = InOrder(g.means)

Put(fmt, text, at) ==
  /\ source' = model /\ format' = fmt /\ file' = text /\ place' = at
  /\ verdict' = "none" /\ UNCHANGED <<model, reads>>
MayWrite == model # <<>> /\ source = <<>> /\ reads < MaxReads
\* LP files name their variables, and leave out those that no statement uses.
ByName(m, names) ==
  [i \in DOMAIN m.vars |-> IF Contains(names, m.vars[i].name) THEN SelectInSeq(names, LAMBDA n : n = m.vars[i].name) ELSE 0]
PutLp(text, names) == Put("lp", text, ByName(model[1], names))
\* In MPS files the columns are the variables, in order; in NL files the
\* permutation places them.
WriteLp == MayWrite /\ Lp!LpWritable(model[1]) /\ Put("lp", Lp!WriteLp(model[1]), <<>>)
WriteMps(dialect) ==
  MayWrite /\ Mps!MpsWritable(model[1], dialect) /\ Put(dialect, Mps!WriteMps(model[1], dialect), InOrder(model[1]))
PutNl(a, order, encoding, aux) ==
  Put("nl", Nl!WrittenNl(model[1], a, order, Nl!ConOrder(a), encoding, aux), Nl!IndexIn(order))
WriteNl(factored, encoding, aux) ==
  /\ MayWrite /\ Nl!NlWritable(model[1])
  /\ \E a \in {Nl!Analyzed(model[1], factored)} : PutNl(a, Nl!VarOrder(model[1], a), encoding, aux)

\* Somebody writes the two sides of a bound apart, or the bounds backwards.
Sides(b) ==
  IF b.lo # <<>> /\ b.hi # <<>> THEN <<[b EXCEPT !.lo = <<>>], [b EXCEPT !.hi = <<>>]>> ELSE <<b>>
RearrangeBounds ==
  /\ format = "lp" /\ source # <<>>
  /\ \E bounds \in {Reverse(file.bounds), FlattenSeq([k \in DOMAIN file.bounds |-> Sides(file.bounds[k])])} :
       bounds # file.bounds /\ file' = [file EXCEPT !.bounds = bounds]
  /\ UNCHANGED <<model, source, format, place, verdict, reads>>

Take(result, at) ==
  /\ reads' = reads + 1 /\ place' = at
  /\ IF result = <<>> THEN verdict' = "refused" /\ UNCHANGED model ELSE verdict' = "read" /\ model' = result
  /\ UNCHANGED <<source, format, file>>
MayRead == source # <<>> /\ verdict = "none"
\* The table of bounds is walked in an order of its own.
ReadLp ==
  /\ MayRead /\ format = "lp"
  /\ \E keys \in SetToSeqs(Lp!BoundedNames(file)) :
       \E names \in {Lp!Met(file, keys)} : Take(Lp!ReadLpIn(file, names), ByName(source[1], names))
ReadMps == MayRead /\ format \in Dialects /\ Take(Mps!ReadMps(file, format), place)
ReadNl == MayRead /\ format = "nl" /\ Take(Nl!ReadNl(file), place)
\* The model that was read is the next to be written.
Continue ==
  /\ verdict = "read" /\ reads < MaxReads
  /\ source' = <<>> /\ format' = "none" /\ file' = <<>> /\ place' = <<>> /\ verdict' = "none"
  /\ UNCHANGED <<model, reads>>

Next ==
  \/ WriteLp \/ (\E dialect \in Dialects : WriteMps(dialect))
  \/ \E factored, aux \in BOOLEAN, encoding \in {"ascii", "binary"} : WriteNl(factored, encoding, aux)
  \/ RearrangeBounds \/ ReadLp \/ ReadMps \/ ReadNl \/ Continue
Spec == Init /\ [][Next]_vars

---------------------------------------------------------------------------
(* What the formats are known to lose, or their readers to refuse.         *)
LpKeeps(m) ==
  /\ \A i \in DOMAIN m.vars : Lp!IsLpName(m.vars[i].name)
  /\ ~Repeats(NamesOf(m.rows) \o NamesOf(ActiveOf(m.inds)))
  /\ \A i \in DOMAIN m.vars : m.vars[i].dom = "binary" => m.vars[i].lb = 0 /\ m.vars[i].ub = 1
MpsKeeps(m) ==
  \A i \in DOMAIN m.vars : m.vars[i].dom = "integer" => m.vars[i].lb # 0 \/ m.vars[i].ub # Inf
NlReads(m) ==
  /\ file.encoding = "ascii" => \A i \in DOMAIN m.vars : m.vars[i].lb # -Inf \/ m.vars[i].ub = Inf
  /\ ~Contains(NamesOf(m.rows), ProblemName)
NlKeeps(m) == NlReads(m) /\ (IsAffine(ObjectivePoly(m)) \/ ObjectivePoly(m).c = 0)
Keeps(m) ==
  CASE format = "lp" -> LpKeeps(m) [] format \in Dialects -> MpsKeeps(m) [] format = "nl" -> NlKeeps(m)

\* NL files keep initial values, and with their sidecars the names.
LabelsAreKept(m, n) ==
  /\ \A i \in DOMAIN m.vars : n.vars[place[i]].init = m.vars[i].init
  /\ file.cols # <<>> =>
       /\ \A i \in DOMAIN m.vars : n.vars[place[i]].name = m.vars[i].name
       /\ \A k \in DOMAIN m.rows, j \in DOMAIN n.rows :
            n.rows[j].name = m.rows[k].name =>
              n.rows[j].lo = Shift(m.rows[k].lo, m.rows[k].poly.c) /\ n.rows[j].hi = Shift(m.rows[k].hi, m.rows[k].poly.c)

PointsOf(m) == [DOMAIN m.vars -> Grid]
\* A file is read, and gives the model that was written, whatever the order of
\* its variables, rows and statements, in every format that can say it.
FilesKeepTheModel ==
  verdict # "none" /\ Keeps(source[1]) =>
    /\ verdict = "read"
    /\ SameModel(source[1], model[1], place, PointsOf(source[1]))
    /\ format = "nl" => LabelsAreKept(source[1], model[1]) /\ Nl!CountsAgree(file)

\* The reader accepts both encodings the NL writer emits.
EncodingsAreAccepted == verdict = "refused" => format # "nl"
=============================================================================
