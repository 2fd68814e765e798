---------------------------- MODULE SolutionValues ----------------------------
(***************************************************************************)
(* The table the results of a solve are kept in (solution_values.rs): a     *)
(* dense vector of values and, unless every slot has one, a bitmap of the   *)
(* slots that do, in words of W bits.  A complete table keeps no bitmap.    *)
(* Values of absent slots stay in the vector, and bits of the last word     *)
(* beyond the slot count must stay clear, since the table grows again.      *)
(*                                                                          *)
(* Iterators scan the bitmap word by word with the ends masked off, from    *)
(* both ends.  They borrow the table, so no edit runs while one is in use.  *)
(* It implements SolutionMap.                                               *)
(***************************************************************************)
EXTENDS Integers, Sequences, FiniteSets, FiniteSetsExt

CONSTANTS MaxSlots, \* bound on the slot count
          W,        \* bits of a presence word: 64 in the code
          Values,   \* the numbers a slot can hold
          Absent    \* Option::None

VARIABLES values,   \* Vec<f64>, slot i at values[i + 1]
          dense,    \* presence is None
          words,    \* the presence words, each the set of its bits; <<>> when dense
          len,      \* the count of present slots
          cursor,   \* the iterator in use: front, back, remaining
          iterating,
          answer    \* what the last call returned

vars == <<values, dense, words, len, cursor, iterating, answer>>
table == <<values, dense, words, len>>

---------------------------------------------------------------------------
Slots == Len(values)
WordCount(n) == (n + W - 1) \div W
LowMask(n) == 0 .. n - 1
AllBits == LowMask(W)
Bit(i) == i % W
WordAt(i) == i \div W + 1

\* full_bitmap: every slot of a table of n slots, and no bit beyond them.
FullBitmap(n) ==
  [w \in 1 .. WordCount(n) |-> IF w * W <= n THEN AllBits ELSE LowMask(n % W)]
\* Fault: the last word keeps the bits of the slots that were cut off.
Unmasked(b, n) == b
Cleared(b, n) == [w \in DOMAIN b |-> IF w = Len(b) /\ n % W # 0
                                     THEN b[w] \cap LowMask(n % W) ELSE b[w]]
\* Vec::resize of the words, by empty ones.
Resized(b, n) == [w \in 1 .. WordCount(n) |-> IF w \in DOMAIN b THEN b[w] ELSE {}]
Marked(b, i) == [b EXCEPT ![WordAt(i)] = @ \cup {Bit(i)}]
Unmarked(b, i) == [b EXCEPT ![WordAt(i)] = @ \ {Bit(i)}]

Present(i) == dense \/ Bit(i) \in words[WordAt(i)]
Get(i) == IF i < Slots /\ Present(i) THEN values[i + 1] ELSE Absent
Plus(a, b) == (a + b) % Cardinality(Values)

\* masked_word and count_bits, over the slots front .. back - 1.
Masked(b, w, front, back) ==
  {k \in b[w + 1] : /\ (w = front \div W => k >= front % W)
                    /\ (w = (back - 1) \div W => k <= (back - 1) % W)}
CountBits(b, front, back) ==
  IF front = back THEN 0
  ELSE FoldSet(LAMBDA w, n : n + Cardinality(Masked(b, w, front, back)), 0,
               front \div W .. (back - 1) \div W)

---------------------------------------------------------------------------
Init ==
  /\ \E n \in 0 .. MaxSlots :
       \/ \* from_dense
          /\ values \in [1 .. n -> Values]
          /\ dense = TRUE /\ words = <<>> /\ len = n
       \/ \* missing
          /\ n > 0
          /\ values = [i \in 1 .. n |-> 0]
          /\ dense = FALSE /\ words = [w \in 1 .. WordCount(n) |-> {}] /\ len = 0
  /\ cursor = <<>> /\ iterating = FALSE /\ answer = Absent

\* The bitmap is dropped as soon as every slot is present.
Update(v, d, b, n, a) ==
  /\ ~iterating
  /\ values' = v /\ len' = n /\ answer' = a
  /\ dense' = (d \/ n = Len(v))
  /\ words' = IF dense' THEN <<>> ELSE b
  /\ UNCHANGED <<cursor, iterating>>

Ones(yes) == IF yes THEN 1 ELSE 0

\* replace_at: set a slot, or take its value away.
ReplaceAt(i, v) ==
  IF v # Absent
  THEN Update([values EXCEPT ![i + 1] = v], dense, IF dense THEN <<>> ELSE Marked(words, i),
              len + Ones(~Present(i)), Get(i))
  ELSE Update(values, FALSE,
              Unmarked(IF dense THEN FullBitmap(Slots) ELSE words, i),
              len - Ones(Present(i)), Get(i))

\* try_set; a slot outside the table is refused and changes nothing.
TrySet(i, v) == i < Slots /\ ReplaceAt(i, v)

\* try_insert: grow to the slot, with a bitmap when slots are skipped.
TryInsert(i, v) ==
  IF i < Slots THEN ReplaceAt(i, v)
  ELSE LET n == i + 1
           bits == IF ~dense THEN words ELSE FullBitmap(Slots)
       IN  Update([k \in 1 .. n |-> CASE k <= Slots -> values[k]
                                      [] k = n -> v
                                      [] OTHER -> 0],
                  dense /\ i = Slots,
                  IF dense /\ i = Slots THEN <<>> ELSE Marked(Resized(bits, n), i),
                  len + 1, Absent)

\* Extend: a slot next to the last one is pushed, any other inserted.
Extend(i, v) ==
  IF i = Slots
  THEN Update(Append(values, v), dense,
              IF dense THEN <<>> ELSE Marked(Resized(words, i + 1), i),
              len + 1, Absent)
  ELSE TryInsert(i, v)

\* try_accumulate: an absent slot starts from zero.
TryAccumulate(i, v) ==
  /\ i < Slots
  /\ Update([values EXCEPT ![i + 1] = Plus(IF Present(i) THEN @ ELSE 0, v)], dense,
            IF dense THEN <<>> ELSE Marked(words, i), len + Ones(~Present(i)), Absent)

\* retain: word by word when there is a bitmap, slot by slot when there is
\* none, which is made when the first value is dropped.
Retain(keep) ==
  IF len = 0 THEN Update(values, dense, words, len, Absent)
  ELSE IF ~dense
  THEN LET kept == [w \in DOMAIN words |->
                      {k \in words[w] : (w - 1) * W + k \in keep}]
           lost == [w \in DOMAIN words |-> Cardinality(words[w] \ kept[w])]
       IN  Update(values, FALSE, kept,
                  len - FoldSet(LAMBDA w, n : n + lost[w], 0, DOMAIN words), Absent)
  ELSE LET dropped == (0 .. Slots - 1) \ keep
       IN  Update(values, dropped = {},
                  FoldSet(LAMBDA i, b : Unmarked(b, i), FullBitmap(Slots), dropped),
                  len - Cardinality(dropped), Absent)

Clear ==
  Update(values, dense /\ len = 0, [w \in 1 .. WordCount(Slots) |-> {}], 0, Absent)

\* truncate: count the shorter side of the cut, mask the last word.
Truncate(n) ==
  IF n >= Slots THEN Update(values, dense, words, len, Absent)
  ELSE Update(SubSeq(values, 1, n), FALSE,
              IF dense THEN <<>> ELSE Cleared(SubSeq(words, 1, WordCount(n)), n),
              IF dense THEN n
              ELSE IF n < Slots - n THEN CountBits(words, 0, n)
              ELSE len - CountBits(words, n, Slots),
              Absent)

Query(i) == Update(values, dense, words, len, Get(i))

---------------------------------------------------------------------------
(* Iteration: SparseSlots, or the range of a complete table.               *)
Begin ==
  /\ ~iterating /\ iterating' = TRUE
  /\ cursor' = [front |-> 0, back |-> Slots, remaining |-> len]
  /\ answer' = Absent /\ UNCHANGED table

Exhausted(c) == [c EXCEPT !.front = c.back, !.remaining = 0]
Smallest(S, n) == CHOOSE k \in S : Cardinality({j \in S : j < k}) = n
Largest(S, n) == CHOOSE k \in S : Cardinality({j \in S : j > k}) = n

\* nth: skip whole words until the one that holds the entry.
RECURSIVE NthFrom(_, _)
NthFrom(c, n) ==
  LET word == c.front \div W
      bits == Masked(words, word, c.front, c.back)
      count == Cardinality(bits)
  IN  IF n < count
      THEN LET slot == word * W + Smallest(bits, n)
           IN  [at |-> slot, to |-> [c EXCEPT !.front = slot + 1, !.remaining = @ - n - 1]]
      ELSE NthFrom([c EXCEPT !.front = Min({(word + 1) * W, c.back}), !.remaining = @ - count],
                   n - count)
RECURSIVE NthBackFrom(_, _)
NthBackFrom(c, n) ==
  LET word == (c.back - 1) \div W
      bits == Masked(words, word, c.front, c.back)
      count == Cardinality(bits)
  IN  IF n < count
      THEN LET slot == word * W + Largest(bits, n)
           IN  [at |-> slot, to |-> [c EXCEPT !.back = slot, !.remaining = @ - n - 1]]
      ELSE NthBackFrom([c EXCEPT !.back = Max({word * W, c.front}), !.remaining = @ - count],
                       n - count)

DenseNth(c, n) ==
  [at |-> c.front + n, to |-> [c EXCEPT !.front = @ + n + 1, !.remaining = @ - n - 1]]
DenseNthBack(c, n) ==
  [at |-> c.back - 1 - n, to |-> [c EXCEPT !.back = @ - n - 1, !.remaining = @ - n - 1]]

Step(n, found) ==
  /\ iterating
  /\ IF n >= cursor.remaining
     THEN cursor' = Exhausted(cursor) /\ answer' = Absent
     ELSE cursor' = found.to /\ answer' = found.at
  /\ UNCHANGED <<values, dense, words, len, iterating>>
Nth(n) == Step(n, IF dense THEN DenseNth(cursor, n) ELSE NthFrom(cursor, n))
NthBack(n) == Step(n, IF dense THEN DenseNthBack(cursor, n) ELSE NthBackFrom(cursor, n))
\* The iterator is consumed by a fold, or dropped.
End ==
  /\ iterating /\ iterating' = FALSE /\ cursor' = <<>> /\ answer' = Absent
  /\ UNCHANGED table

Next ==
  \/ \E i \in 0 .. MaxSlots - 1, v \in Values :
       \/ TrySet(i, v) \/ TrySet(i, Absent)
       \/ TryInsert(i, v) \/ Extend(i, v) \/ TryAccumulate(i, v)
  \/ \E i \in 0 .. MaxSlots - 1 : Query(i)
  \/ \E keep \in SUBSET (0 .. MaxSlots - 1) : Retain(keep)
  \/ \E n \in 0 .. MaxSlots : Truncate(n) \/ Nth(n) \/ NthBack(n)
  \/ Clear \/ Begin \/ End

Spec == Init /\ [][Next]_vars

---------------------------------------------------------------------------
(* Properties. *)

\* What a fold over the rest of an iterator visits, in order: the bits of
\* each word of its window.
Window ==
  IF ~iterating \/ cursor.remaining = 0 THEN {}
  ELSE IF dense THEN cursor.front .. cursor.back - 1
  ELSE UNION {{w * W + k : k \in Masked(words, w, cursor.front, cursor.back)} :
              w \in cursor.front \div W .. (cursor.back - 1) \div W}
Ordered(S) == SelectSeq([k \in 1 .. MaxSlots |-> k - 1], LAMBDA i : i \in S)

Abstract == INSTANCE SolutionMap
  WITH entries <- [i \in {k \in 0 .. Slots - 1 : Present(k)} |-> values[i + 1]],
       slots <- Slots,
       rest <- Ordered(Window)

\* A table acts as a partial map through every mix of edits, growth,
\* truncation and two-ended iteration: no slot comes back after it was cut
\* off, dropped or cleared, and no entry is skipped or yielded twice.
ImplementsSolutionMap == Abstract!Spec
=============================================================================
