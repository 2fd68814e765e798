------------------------------ MODULE MCExtraction ------------------------------
(***************************************************************************)
(* What lowering threads extract, and the two caches through which they     *)
(* share it; what a resident derivative oracle answers, and how a Hessian   *)
(* pattern is colored.  A behaviour exercises one of the five, chosen at    *)
(* the start.                                                               *)
(*                                                                          *)
(* Expressions: the algebra over two variables, one parameter and the       *)
(* numbers modulo 7, where five points tell the values of two terms apart.  *)
(* Extraction: two threads and four expressions in one shard of two         *)
(* entries; two expressions share an admission slot, one cannot be          *)
(* extracted but may be recovered, the budget holds the two smaller ones,   *)
(* and one does not fit at all.  Workset: two threads on roots of different *)
(* sizes; two fill the budget together, one more evicts, one fails (no      *)
(* bytes), one is too large.  Oracle: functions of three variables and the  *)
(* parameter, chosen so that a change of the parameter removes an entry of  *)
(* the Hessian that another function keeps, removes it altogether, or only  *)
(* moves a coefficient.  Coloring: every pattern on five vertices, four     *)
(* being the length of the paths a coloring must avoid.                     *)
(***************************************************************************)
EXTENDS Derivatives

CONSTANTS one, two, failing, oversize,
          small, large, huge, cancelling, slotA, slotB,
          Threads, Cells, Failure, None, MaxRoots, Capacity, Budget

MCPoints ==
  {[v \in Vars |-> IF v = 0 THEN xy[1] ELSE xy[2]] : xy \in {<<0, 1>>, <<1, 3>>, <<3, 1>>, <<-2, 0>>, <<3, 3>>}}

Roots == {one, two, failing, oversize}
MCBytes == [e \in Roots |->
              CASE e = one -> 1 [] e = two -> 2 [] e = failing -> 0 [] e = oversize -> 3]
Wanted == {small, large, huge, cancelling}
MCSize == [e \in Wanted |-> CASE e = huge -> 3 [] e = large -> 2 [] OTHER -> 1]
MCSlot == [e \in Wanted |-> IF e \in {large, huge} THEN slotB ELSE slotA]

MCGraph ==
  << Variable(0), Variable(1), Variable(2), Param,                     \*  1 x  2 y  3 z  4 p
     Const(3), Const(0), Const(2),
     Node("mul", <<4, 1, 1>>), Node("mul", <<1, 2>>),                  \*  8 p x x   9 x y
     Node("add", <<8, 9>>),                                            \* 10 p x x + x y
     Node("pow", <<1, 5>>), Node("mul", <<4, 2>>),                     \* 11 x^3  12 p y
     Node("add", <<11, 12>>),                                          \* 13 x^3 + p y
     Node("add", <<8, 3>>),                                            \* 14 p x x + z
     Node("mul", <<1, 2, 3>>),                                         \* 15 x y z
     Node("pow", <<2, 6>>), Node("mul", <<16, 11>>),                   \* 17 y^0 x^3
     Node("pow", <<1, 4>>),                                            \* 18 x^p
     Linear([v \in {0, 1} |-> 2 - v], 3), Node("abs", <<19>>),         \* 20 |2x + y + 3|
     Node("mul", <<20, 3>>), Node("min", <<1, 9>>),                    \* 21 |..| z  22 min(x, xy)
     Node("div", <<1, 2>>), Node("atan2", <<1, 3>>),                   \* 23 x/y  24 atan2
     Node("exp", <<12>>), Node("pow", <<1, 7>>),                       \* 25 exp(p y)  26 x^2
     Node("add", <<12, 21, 25>>), Node("mul", <<4, 2, 3>>),            \* 27 sum  28 p y z
     Node("add", <<12, 3>>), Node("add", <<9, 28>>),                   \* 29 p y + z  30 x y + p y z
     Const(1), Node("pow", <<15, 31>>),                                \* 32 (x y z)^1
     Node("mul", <<4, 3>>), Node("add", <<26, 33>>) >>                 \* 34 x^2 + p z
Shape(objective, constraints) == [objective |-> objective, rows |-> constraints]
MCShapes ==
  {Shape(10, <<26, 29>>), Shape(24, <<15>>), Shape(0, <<30, 13>>), Shape(28, <<17, 18>>),
   Shape(27, <<10>>), Shape(22, <<21, 20>>), Shape(32, <<25, 34>>), Shape(26, <<28>>),
   Shape(23, <<14>>)}
MCBase == {[v \in {0, 1, 2} |-> IF v = 0 THEN xyz[1] ELSE IF v = 1 THEN xyz[2] ELSE xyz[3]] :
             xyz \in {<<0, 1, 2>>, <<2, -1, 1>>}}

VARIABLES roots, bytes, fifo, total, lock, pc, expr, cell,
          shards, recent, values, queue, coefficients, step, wanted, quadratic,
          subject   \* what the behaviour exercises

Extraction == INSTANCE ExtractionCache
  WITH Exprs <- Wanted, Size <- MCSize, Slot <- MCSlot,
       Unextractable <- {cancelling}, Recoverable <- {cancelling},
       order <- queue, pc <- step, expr <- wanted
extraction == <<shards, recent, values, queue, coefficients, step, wanted, quadratic>>
Workset == INSTANCE QuadraticWorkset WITH Exprs <- Roots, Bytes <- MCBytes, order <- fifo
workset == <<roots, bytes, fifo, total, lock, pc, expr, cell>>

ASSUME CachesAssumption == Extraction!ConstantsAreApart /\ Workset!ConstantsAreApart

all == <<vars, extraction, workset, derivativeVars, subject>>

\* The parts that are not exercised stay in one state.
MCInit ==
  /\ subject \in {"expressions", "extraction", "workset", "oracle", "coloring"}
  /\ Init /\ Extraction!Init /\ Workset!Init /\ DerivativesInit
  /\ subject # "expressions" =>
       parameter = 0 /\ handles = (CHOOSE s \in Prepared : TRUE).hs
  /\ subject # "oracle" =>
       shape = (CHOOSE s \in Shapes : TRUE) /\ setting = 0 /\ owner = "handle"
  /\ subject # "coloring" => pattern = {<<v, v>> : v \in Vertices}
MCNext ==
  /\ UNCHANGED subject
  /\ \/ /\ subject = "expressions" /\ Next
        /\ UNCHANGED <<extraction, workset, derivativeVars>>
     \/ /\ subject = "extraction" /\ Extraction!Next
        /\ UNCHANGED <<vars, workset, derivativeVars>>
     \/ /\ subject = "workset" /\ Workset!Next
        /\ UNCHANGED <<vars, extraction, derivativeVars>>
     \/ /\ subject = "oracle" /\ DerivativesNext
        /\ UNCHANGED <<vars, extraction, workset>>
MCStep(t) ==
  /\ subject = "workset" /\ Workset!Step(t)
  /\ UNCHANGED <<vars, extraction, derivativeVars, subject>>
MCSpec == MCInit /\ [][MCNext]_all /\ \A t \in Threads : WF_all(MCStep(t))

\* The properties of Expressions, where they are exercised.
MeaningIsKept == subject = "expressions" => OperatorsKeepMeaning
TermsAreExact == subject = "expressions" => ExtractionsAgree

\* The properties of the caches (ExtractionCache, QuadraticWorkset): their
\* counters, and that only the thread that initializes a root extracts it.
QueuesAccount == /\ Workset!QueuesAccount /\ Extraction!QueuesAccount
                 /\ Workset!InitializerOwnsRoot
SuccessSticks == Extraction!SuccessSticks
CallsReturn == Workset!CallsReturn

\* The properties of Derivatives, where they are exercised.
OracleIsCurrent == subject = "oracle" => OracleIsExact
EntriesAreRecovered == subject = "coloring" => PatternIsRecovered
=============================================================================
