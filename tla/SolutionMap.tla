----------------------------- MODULE SolutionMap -----------------------------
(***************************************************************************)
(* What a table of solution values promises: a partial map from the slots   *)
(* 0 .. slots - 1 to values, and iterators over its entries that can be     *)
(* driven from both ends and that skip.                                     *)
(***************************************************************************)
EXTENDS Integers, Sequences, FiniteSets, SequencesExt

CONSTANTS MaxSlots, \* bound on the slot count
          Values,   \* the numbers a slot can hold: 0 .. n, added modulo n + 1
          Absent    \* the answer of a query with no value

VARIABLES entries, \* slot -> value, on the slots that have one
          slots,   \* the slot count
          rest,    \* the slots the iterator in use has still to yield
          iterating, \* whether an iterator is in use
          answer   \* what the last call returned

vars == <<entries, slots, rest, iterating, answer>>

Keys(f) == DOMAIN f
Put(f, i, v) == [k \in Keys(f) \cup {i} |-> IF k = i THEN v ELSE f[k]]
Only(f, S) == [k \in Keys(f) \cap S |-> f[k]]
At(f, i) == IF i \in Keys(f) THEN f[i] ELSE Absent
Sum3(a, b) == (a + b) % Cardinality(Values)

Init ==
  /\ \E n \in 0 .. MaxSlots :
       /\ slots = n
       /\ entries \in [0 .. n - 1 -> Values] \cup {<<>>}
  /\ answer = Absent
  /\ rest = <<>> /\ iterating = FALSE

Mutate(f, n, a) ==
  /\ ~iterating
  /\ entries' = f /\ slots' = n /\ answer' = a
  /\ UNCHANGED <<rest, iterating>>

Set(i, v) ==
  /\ i < slots
  /\ Mutate(IF v = Absent THEN Only(entries, Keys(entries) \ {i}) ELSE Put(entries, i, v),
            slots, At(entries, i))
Insert(i, v) ==
  Mutate(Put(entries, i, v), IF i < slots THEN slots ELSE i + 1, At(entries, i))
Accumulate(i, v) ==
  /\ i < slots
  /\ Mutate(Put(entries, i, Sum3(IF i \in Keys(entries) THEN entries[i] ELSE 0, v)),
            slots, Absent)
Keep(S) == Mutate(Only(entries, S), slots, Absent)
Truncate(n) ==
  /\ n <= slots
  /\ Mutate(Only(entries, 0 .. n - 1), n, Absent)
Get(i) == Mutate(entries, slots, At(entries, i))

Ascending(S) == SelectSeq([k \in 1 .. MaxSlots |-> k - 1], LAMBDA i : i \in S)
Begin ==
  /\ ~iterating /\ iterating' = TRUE
  /\ rest' = Ascending(Keys(entries))
  /\ answer' = Absent /\ UNCHANGED <<entries, slots>>
Nth(n) ==
  /\ iterating
  /\ IF n < Len(rest)
     THEN answer' = rest[n + 1] /\ rest' = SubSeq(rest, n + 2, Len(rest))
     ELSE answer' = Absent /\ rest' = <<>>
  /\ UNCHANGED <<entries, slots, iterating>>
NthBack(n) ==
  /\ iterating
  /\ IF n < Len(rest)
     THEN answer' = rest[Len(rest) - n] /\ rest' = SubSeq(rest, 1, Len(rest) - n - 1)
     ELSE answer' = Absent /\ rest' = <<>>
  /\ UNCHANGED <<entries, slots, iterating>>
End ==
  /\ iterating /\ iterating' = FALSE /\ rest' = <<>> /\ answer' = Absent
  /\ UNCHANGED <<entries, slots>>

Next ==
  \/ \E i \in 0 .. MaxSlots - 1, v \in Values :
       Set(i, v) \/ Set(i, Absent) \/ Insert(i, v) \/ Accumulate(i, v) \/ Get(i)
  \/ \E S \in SUBSET (0 .. MaxSlots - 1) : Keep(S)
  \/ \E n \in 0 .. MaxSlots : Truncate(n) \/ Nth(n) \/ NthBack(n)
  \/ Begin \/ End

Spec == Init /\ [][Next]_vars
=============================================================================
