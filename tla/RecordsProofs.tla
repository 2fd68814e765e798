---------------------------- MODULE RecordsProofs ----------------------------
(***************************************************************************)
(* The constraint tables of a model, for any declarations, ranges, edits   *)
(* and bounds.  The invariant says that the five tables hold one list: the *)
(* runs of entries partition the positions, the runs of ids invert them,   *)
(* every row is the lowering of the record its entry and tables give, and  *)
(* the name table lists exactly the ids that bear a name.  From it follow  *)
(* that every lookup agrees, that the rows a solver reads are the records  *)
(* a reader sees, and that the tables implement the list of declarations   *)
(* of DeclaredConstraints.                                                 *)
(*                                                                         *)
(* The sections go from the storage up: runs of entries and of ids, the    *)
(* two combined, the readings of an entry, rows, edits of one row, names,  *)
(* registrations of one declaration, batches, the cursor, the invariant,   *)
(* and the refinement.                                                     *)
(***************************************************************************)
EXTENDS ConstraintRecords, Queues

-----------------------------------------------------------------------------
(* Runs of entries                                                         *)

IsRep(r) == r = [tag |-> r.tag, sig |-> r.sig, index |-> r.index] /\ r.index \in Nat

IsEntry(e) ==
    /\ e = [id |-> [kind |-> e.id.kind, index |-> e.id.index], rep |-> e.rep, origin |-> e.origin]
    /\ e.id.kind \in Kinds /\ e.id.index \in Nat
    /\ IsRep(e.rep)

IsRun(r) ==
    /\ r = [first |-> r.first, start |-> r.start, len |-> r.len]
    /\ IsEntry(r.first) /\ r.start \in Nat /\ r.len \in Nat \ {0}

\* Run i holds position p.
RunHolds(E, i, p) == E.runs[i].start <= p /\ p < E.runs[i].start + E.runs[i].len

\* The entry that a position has without an override.
Base(E, p) == Shifted(E.runs[RunAt(E, p)].first, p - E.runs[RunAt(E, p)].start)

\* The runs partition the positions in order, without gaps.
Partition(E) ==
    /\ E.len \in Nat /\ IsList(E.runs)
    /\ \A i \in 1..Len(E.runs) :
         /\ IsRun(E.runs[i])
         /\ E.runs[i].start + E.runs[i].len =
              IF i = Len(E.runs) THEN E.len ELSE E.runs[i + 1].start
    /\ \A i, j \in 1..Len(E.runs) : i < j => E.runs[i].start + E.runs[i].len <= E.runs[j].start
    /\ \A p \in 0..E.len - 1 : \E i \in 1..Len(E.runs) : RunHolds(E, i, p)

\* An override keeps the id.
RunsFit(E) ==
    /\ E = [runs |-> E.runs, overrides |-> E.overrides, len |-> E.len]
    /\ Partition(E)
    /\ DOMAIN E.overrides \subseteq 0..E.len - 1
    /\ \A p \in DOMAIN E.overrides :
         IsEntry(E.overrides[p]) /\ E.overrides[p].id = Base(E, p).id

LEMMA ShiftedIs ==
    ASSUME NEW e, IsEntry(e), NEW d \in Nat
    PROVE  \E j \in Nat :
             /\ Shifted(e, d) = [id |-> [kind |-> e.id.kind, index |-> e.id.index + d],
                                 rep |-> [tag |-> e.rep.tag, sig |-> e.rep.sig, index |-> j],
                                 origin |-> e.origin]
             /\ d = 0 => j = e.rep.index
  <1>1. PICK x : x = [e EXCEPT !.id.index = @ + d]
    OBVIOUS
  <1>2. x = [id |-> [kind |-> e.id.kind, index |-> e.id.index + d], rep |-> e.rep, origin |-> e.origin]
    BY <1>1 DEF IsEntry
  <1>3. PICK j : j = IF e.rep.tag = "extension" THEN e.rep.index + d ELSE e.rep.index
    OBVIOUS
  <1>4. PICK y : y = [x EXCEPT !.rep.index = j]
    OBVIOUS
  <1>5. y = [id |-> [kind |-> e.id.kind, index |-> e.id.index + d],
             rep |-> [tag |-> e.rep.tag, sig |-> e.rep.sig, index |-> j], origin |-> e.origin]
    <2>1. e.rep = [tag |-> e.rep.tag, sig |-> e.rep.sig, index |-> e.rep.index]
      BY DEF IsEntry, IsRep
    <2>2. [e.rep EXCEPT !.index = j] = [tag |-> e.rep.tag, sig |-> e.rep.sig, index |-> j]
      BY <2>1
    <2>3. x.rep = e.rep /\ y = [x EXCEPT !.rep = [e.rep EXCEPT !.index = j]]
      BY <1>2, <1>4
    <2> QED BY <1>2, <2>2, <2>3
  <1>6. Shifted(e, d) = y
    <2>1. Shifted(e, d) = [x EXCEPT !.rep.index = IF e.rep.tag = "extension" THEN @ + d ELSE @]
      BY <1>1 DEF Shifted
    <2>2. x.rep.index = e.rep.index
      BY <1>2
    <2> QED BY <1>3, <1>4, <2>1, <2>2
  <1>7. j \in Nat /\ (d = 0 => j = e.rep.index)
    BY <1>3 DEF IsEntry, IsRep
  <1> QED BY <1>5, <1>6, <1>7

LEMMA ShiftedEntry ==
    ASSUME NEW e, IsEntry(e), NEW d \in Nat
    PROVE  /\ IsEntry(Shifted(e, d))
           /\ Shifted(e, d).id = Id(e.id.kind, e.id.index + d)
  <1>1. PICK j \in Nat : Shifted(e, d) = [id |-> [kind |-> e.id.kind, index |-> e.id.index + d],
                                          rep |-> [tag |-> e.rep.tag, sig |-> e.rep.sig, index |-> j],
                                          origin |-> e.origin]
    BY ShiftedIs
  <1>2. PICK y : y = Shifted(e, d)
    OBVIOUS
  <1>3. /\ y.id = [kind |-> e.id.kind, index |-> e.id.index + d] /\ y.origin = e.origin
        /\ y.rep = [tag |-> e.rep.tag, sig |-> e.rep.sig, index |-> j]
        /\ y = [id |-> y.id, rep |-> y.rep, origin |-> y.origin]
    BY <1>1, <1>2
  <1>4. e.id.index + d \in Nat /\ e.id.kind \in Kinds
    BY DEF IsEntry
  <1>5. IsRep(y.rep)
    BY <1>1, <1>3 DEF IsRep
  <1>6. IsEntry(y)
    BY <1>3, <1>4, <1>5 DEF IsEntry
  <1> QED BY <1>2, <1>3, <1>6 DEF Id

LEMMA NotShifted ==
    ASSUME NEW e, IsEntry(e)
    PROVE  Shifted(e, 0) = e
  <1>1. Shifted(e, 0) = [id |-> [kind |-> e.id.kind, index |-> e.id.index + 0],
                         rep |-> [tag |-> e.rep.tag, sig |-> e.rep.sig, index |-> e.rep.index],
                         origin |-> e.origin]
    BY ShiftedIs
  <1>2. e.id.index + 0 = e.id.index
    BY DEF IsEntry
  <1> QED BY <1>1, <1>2 DEF IsEntry, IsRep

LEMMA PrefixCount ==
    ASSUME NEW i \in Nat, NEW S, S = 1..i
    PROVE  Cardinality(S) = i
  BY FS_Interval

LEMMA RunsInOrder ==
    ASSUME NEW E, Partition(E), NEW i \in 1..Len(E.runs), NEW p \in Nat, RunHolds(E, i, p)
    PROVE  {j \in DOMAIN E.runs : E.runs[j].start <= p} = 1..i
  <1>1. PICK n : n = Len(E.runs)
    OBVIOUS
  <1>2. n \in Nat /\ DOMAIN E.runs = 1..n /\ i \in 1..n
    BY <1>1, ListFacts DEF Partition
  <1>3. \A j \in 1..n : E.runs[j].start \in Nat /\ E.runs[j].len \in Nat
    BY <1>1 DEF Partition, IsRun
  <1>4. \A j \in 1..n : /\ j < i => E.runs[j].start + E.runs[j].len <= E.runs[i].start
                        /\ i < j => E.runs[i].start + E.runs[i].len <= E.runs[j].start
    BY <1>1, <1>2 DEF Partition
  <1>5. ASSUME NEW j \in 1..n PROVE E.runs[j].start <= p <=> j <= i
    <2>1. E.runs[i].start <= p /\ p < E.runs[i].start + E.runs[i].len
      BY DEF RunHolds
    <2>2. CASE j = i BY <2>1, <2>2
    <2>3. CASE j < i
      <3>1. E.runs[j].start + E.runs[j].len <= E.runs[i].start
        BY <1>4, <2>3
      <3> QED BY <1>2, <1>3, <2>1, <2>3, <3>1
    <2>4. CASE i < j
      <3>1. E.runs[i].start + E.runs[i].len <= E.runs[j].start
        BY <1>4, <2>4
      <3> QED BY <1>2, <1>3, <2>1, <2>4, <3>1
    <2> QED BY <1>2, <2>2, <2>3, <2>4
  <1> QED BY <1>2, <1>5

LEMMA RunAtIs ==
    ASSUME NEW E, Partition(E), NEW i \in 1..Len(E.runs), NEW p \in Nat, RunHolds(E, i, p)
    PROVE  RunAt(E, p) = i
  <1>1. {j \in DOMAIN E.runs : E.runs[j].start <= p} = 1..i
    BY RunsInOrder
  <1>2. i \in Nat
    BY ListFacts DEF Partition
  <1> QED BY <1>1, <1>2, PrefixCount DEF RunAt

\* The run in which the last position before q lies.
LEMMA RunBeforeIs ==
    ASSUME NEW E, Partition(E), NEW i \in 1..Len(E.runs), NEW q \in Nat \ {0}, RunHolds(E, i, q - 1)
    PROVE  Cardinality({j \in DOMAIN E.runs : E.runs[j].start < q}) = i
  <1>1. {j \in DOMAIN E.runs : E.runs[j].start <= q - 1} = 1..i
    BY RunsInOrder
  <1>2. \A j \in DOMAIN E.runs : E.runs[j].start \in Nat
    BY ListFacts DEF Partition, IsRun
  <1>3. {j \in DOMAIN E.runs : E.runs[j].start < q} = 1..i
    BY <1>1, <1>2
  <1>4. i \in Nat
    BY ListFacts DEF Partition
  <1> QED BY <1>3, <1>4, PrefixCount

\* The entry a run gives to a position, by a number of its own.
LEMMA BaseIs ==
    ASSUME NEW E, Partition(E), NEW p \in 0..E.len - 1
    PROVE  \E i \in 1..Len(E.runs) :
             /\ RunHolds(E, i, p) /\ RunAt(E, p) = i /\ IsRun(E.runs[i])
             /\ p - E.runs[i].start \in Nat
             /\ Base(E, p) = Shifted(E.runs[i].first, p - E.runs[i].start)
             /\ IsEntry(Base(E, p))
  <1>1. E.len \in Nat
    BY DEF Partition
  <1>2. p \in Nat
    BY <1>1
  <1>3. PICK i \in 1..Len(E.runs) : RunHolds(E, i, p)
    BY DEF Partition
  <1>4. RunAt(E, p) = i
    BY <1>2, <1>3, RunAtIs
  <1>5. IsRun(E.runs[i]) /\ IsEntry(E.runs[i].first) /\ E.runs[i].start \in Nat
    BY DEF Partition, IsRun
  <1>6. p - E.runs[i].start \in Nat
    BY <1>2, <1>3, <1>5 DEF RunHolds
  <1>7. Base(E, p) = Shifted(E.runs[i].first, p - E.runs[i].start)
    BY <1>4 DEF Base
  <1>8. IsEntry(Base(E, p))
    BY <1>5, <1>6, <1>7, ShiftedEntry
  <1> QED BY <1>3, <1>4, <1>5, <1>6, <1>7, <1>8

LEMMA EntryIs ==
    ASSUME NEW E, RunsFit(E), NEW p \in 0..E.len - 1
    PROVE  /\ EntryAt(E, p) = IF p \in DOMAIN E.overrides THEN E.overrides[p] ELSE Base(E, p)
           /\ IsEntry(EntryAt(E, p)) /\ IsEntry(Base(E, p)) /\ EntryAt(E, p).id = Base(E, p).id
  <1>1. EntryAt(E, p) = IF p \in DOMAIN E.overrides THEN E.overrides[p] ELSE Base(E, p)
    BY DEF EntryAt, InRun, Base
  <1>2. IsEntry(Base(E, p))
    BY BaseIs DEF RunsFit
  <1> QED BY <1>1, <1>2 DEF RunsFit

\* Runs that hold what they held, with the same first entries, give the same entries.
LEMMA SameBase ==
    ASSUME NEW E, Partition(E), NEW F, Partition(F), NEW p \in 0..E.len - 1, E.len <= F.len,
           Len(E.runs) <= Len(F.runs),
           \A i \in 1..Len(E.runs) :
             /\ F.runs[i].first = E.runs[i].first /\ F.runs[i].start = E.runs[i].start
             /\ E.runs[i].len <= F.runs[i].len
    PROVE  Base(F, p) = Base(E, p)
  <1>1. PICK i \in 1..Len(E.runs) :
          /\ RunHolds(E, i, p) /\ IsRun(E.runs[i])
          /\ Base(E, p) = Shifted(E.runs[i].first, p - E.runs[i].start)
    BY BaseIs
  <1>2. Len(E.runs) \in Nat /\ Len(F.runs) \in Nat /\ E.len \in Nat
    BY ListFacts DEF Partition
  <1>3. i \in 1..Len(F.runs) /\ p \in Nat
    BY <1>2
  <1>4. IsRun(F.runs[i])
    BY <1>3 DEF Partition
  <1>5. RunHolds(F, i, p)
    BY <1>1, <1>2, <1>3, <1>4 DEF RunHolds, IsRun
  <1>6. RunAt(F, p) = i
    BY <1>3, <1>5, RunAtIs
  <1> QED BY <1>1, <1>6 DEF Base

LEMMA PushedEntry ==
    ASSUME NEW E, RunsFit(E), NEW e, IsEntry(e), NEW F, F = PushEntry(E, e)
    PROVE  /\ RunsFit(F) /\ F.len = E.len + 1 /\ EntryAt(F, E.len) = e
           /\ \A p \in 0..E.len - 1 : EntryAt(F, p) = EntryAt(E, p)
  <1>1. PICK n, R, m, O : n = Len(E.runs) /\ R = E.runs /\ m = E.len /\ O = E.overrides
    OBVIOUS
  <1>2. n \in Nat /\ DOMAIN R = 1..n /\ m \in Nat /\ IsList(R)
    BY <1>1, ListFacts DEF RunsFit, Partition
  <1>3. \A i \in 1..n : IsRun(R[i]) /\ R[i].start + R[i].len = IF i = n THEN m ELSE R[i + 1].start
    BY <1>1 DEF RunsFit, Partition
  <1>4. \A i, j \in 1..n : i < j => R[i].start + R[i].len <= R[j].start
    BY <1>1 DEF RunsFit, Partition
  <1>5. \A p \in 0..m - 1 : \E i \in 1..n : R[i].start <= p /\ p < R[i].start + R[i].len
    BY <1>1 DEF RunsFit, Partition, RunHolds
  <1>6. PICK extends \in BOOLEAN : extends <=> n > 0 /\ Follows(e, R[n].first, R[n].len)
    OBVIOUS
  <1>7. PICK S : S = IF extends THEN [R EXCEPT ![n].len = @ + 1]
                     ELSE Append(R, [first |-> e, start |-> m, len |-> 1])
    OBVIOUS
  <1>8. F = [runs |-> S, overrides |-> O, len |-> m + 1]
    <2>1. E = [runs |-> R, overrides |-> O, len |-> m]
      BY <1>1 DEF RunsFit
    <2>2. F = [E EXCEPT !.runs = S, !.len = m + 1]
      BY <1>1, <1>6, <1>7 DEF PushEntry
    <2> QED BY <2>1, <2>2
  <1>9. F.runs = S /\ F.overrides = O /\ F.len = m + 1
    BY <1>8
  <1>o. DOMAIN O \subseteq 0..m - 1 /\ \A p \in DOMAIN O : IsEntry(O[p]) /\ O[p].id = Base(E, p).id
    BY <1>1 DEF RunsFit
  <1>10. ASSUME extends PROVE Partition(F) /\ Base(F, m) = e /\ \A p \in 0..m - 1 : Base(F, p) = Base(E, p)
    <2>1. n \in 1..n /\ n > 0 /\ e = Shifted(R[n].first, R[n].len)
      BY <1>2, <1>6, <1>10 DEF Follows
    <2>2. PICK last : last = [first |-> R[n].first, start |-> R[n].start, len |-> R[n].len + 1]
      OBVIOUS
    <2>3. R[n] = [first |-> R[n].first, start |-> R[n].start, len |-> R[n].len] /\ R[n].len \in Nat \ {0}
          /\ R[n].start \in Nat /\ IsEntry(R[n].first) /\ R[n].start + R[n].len = m
      BY <1>3, <2>1 DEF IsRun
    <2>4. [R[n] EXCEPT !.len = @ + 1] = last
      BY <2>2, <2>3
    <2>5. S = [R EXCEPT ![n] = last]
      <3>1. S = [R EXCEPT ![n].len = @ + 1]
        BY <1>7, <1>10
      <3> QED BY <2>4, <3>1
    <2>6. DOMAIN S = 1..n /\ S = [i \in 1..n |-> S[i]] /\ S[n] = last /\ \A i \in 1..n : i # n => S[i] = R[i]
      BY <1>2, <2>1, <2>5
    <2>7. IsList(S) /\ Len(S) = n
      BY <1>2, <2>6, ListOf
    <2>8. last.first = R[n].first /\ last.start = R[n].start /\ last.len = R[n].len + 1 /\ IsRun(last)
      BY <2>2, <2>3 DEF IsRun
    <2>9. \A i \in 1..n : S[i].first = R[i].first /\ S[i].start = R[i].start
      BY <2>6, <2>8
    <2>10. \A i \in 1..n : IsRun(S[i]) /\ S[i].start + S[i].len = IF i = n THEN m + 1 ELSE S[i + 1].start
      <3>1. ASSUME NEW i \in 1..n, i # n PROVE IsRun(S[i]) /\ S[i].start + S[i].len = S[i + 1].start
        <4>1. i + 1 \in 1..n
          BY <1>2, <3>1
        <4> QED BY <1>3, <2>6, <2>9, <3>1, <4>1
      <3>2. IsRun(S[n]) /\ S[n].start + S[n].len = m + 1
        BY <1>2, <2>3, <2>6, <2>8
      <3> QED BY <3>1, <3>2
    <2>11. \A i, j \in 1..n : i < j => S[i].start + S[i].len <= S[j].start
      <3>1. ASSUME NEW i \in 1..n, NEW j \in 1..n, i < j PROVE S[i].start + S[i].len <= S[j].start
        <4>1. i # n
          BY <1>2, <3>1
        <4>2. S[i] = R[i] /\ S[j].start = R[j].start
          BY <2>6, <2>9, <4>1
        <4> QED BY <1>4, <3>1, <4>2
      <3> QED BY <3>1
    <2>12. \A p \in 0..m : \E i \in 1..n : S[i].start <= p /\ p < S[i].start + S[i].len
      <3>1. ASSUME NEW p \in 0..m - 1 PROVE \E i \in 1..n : S[i].start <= p /\ p < S[i].start + S[i].len
        <4>1. PICK i \in 1..n : R[i].start <= p /\ p < R[i].start + R[i].len
          BY <1>5
        <4>2. S[i].start = R[i].start /\ R[i].start \in Nat /\ R[i].len \in Nat
          BY <1>3, <2>9 DEF IsRun
        <4>3. S[i].len = IF i = n THEN R[i].len + 1 ELSE R[i].len
          BY <2>6, <2>8
        <4>4. p < S[i].start + S[i].len
          BY <1>2, <4>1, <4>2, <4>3
        <4> QED BY <4>1, <4>2, <4>4
      <3>2. S[n].start <= m /\ m < S[n].start + S[n].len
        BY <1>2, <2>3, <2>6, <2>8
      <3> QED BY <1>2, <2>1, <3>1, <3>2
    <2>13. Partition(F)
      BY <1>2, <1>9, <2>7, <2>10, <2>11, <2>12 DEF Partition, RunHolds
    <2>14. \A p \in 0..m - 1 : Base(F, p) = Base(E, p)
      <3>1. \A i \in 1..n : R[i].len <= S[i].len
        <4>1. \A i \in 1..n : R[i].len \in Nat
          BY <1>3 DEF IsRun
        <4> QED BY <2>6, <2>8, <4>1
      <3>2. Partition(E) /\ E.len <= F.len /\ Len(E.runs) <= Len(F.runs)
        BY <1>1, <1>2, <1>9, <2>7 DEF RunsFit
      <3> QED BY <1>1, <1>9, <2>9, <2>13, <3>1, <3>2, SameBase
    <2>15. Base(F, m) = e
      <3>1. RunHolds(F, n, m) /\ m - R[n].start = R[n].len
        BY <1>2, <1>9, <2>3, <2>6, <2>8 DEF RunHolds
      <3>2. RunAt(F, m) = n
        BY <1>2, <1>9, <2>1, <2>7, <2>13, <3>1, RunAtIs
      <3>3. Base(F, m) = Shifted(S[n].first, m - S[n].start)
        BY <1>9, <3>2 DEF Base
      <3> QED BY <2>1, <2>9, <3>1, <3>3
    <2> QED BY <2>13, <2>14, <2>15
  <1>11. ASSUME ~ extends PROVE Partition(F) /\ Base(F, m) = e /\ \A p \in 0..m - 1 : Base(F, p) = Base(E, p)
    <2>1. PICK last : last = [first |-> e, start |-> m, len |-> 1]
      OBVIOUS
    <2>2. S = Append(R, last)
      BY <1>7, <1>11, <2>1
    <2>3. IsList(S) /\ Len(S) = n + 1 /\ S[n + 1] = last /\ \A i \in 1..n : S[i] = R[i]
      BY <1>1, <1>2, <2>2, AppendedList
    <2>4. last.first = e /\ last.start = m /\ last.len = 1 /\ IsRun(last)
      BY <1>2, <2>1 DEF IsRun
    <2>5. \A i \in 1..n : R[i].start \in Nat /\ R[i].len \in Nat \ {0} /\ R[i].start + R[i].len <= m
      <3>1. \A i \in 1..n : R[i].start \in Nat /\ R[i].len \in Nat \ {0}
        BY <1>3 DEF IsRun
      <3>2. ASSUME NEW i \in 1..n PROVE R[i].start + R[i].len <= m
        <4>1. CASE i = n
          BY <1>2, <1>3, <4>1
        <4>2. CASE i # n
          <5>1. n \in 1..n /\ i < n
            BY <1>2, <4>2
          <5>2. R[i].start + R[i].len <= R[n].start /\ R[n].start + R[n].len = m
            BY <1>3, <1>4, <5>1
          <5> QED BY <1>2, <3>1, <5>1, <5>2
        <4> QED BY <4>1, <4>2
      <3> QED BY <3>1, <3>2
    <2>6. \A i \in 1..n + 1 : IsRun(S[i]) /\ S[i].start + S[i].len = IF i = n + 1 THEN m + 1 ELSE S[i + 1].start
      <3>1. ASSUME NEW i \in 1..n PROVE IsRun(S[i]) /\ S[i].start + S[i].len = S[i + 1].start
        <4>1. CASE i = n
          BY <1>2, <1>3, <2>3, <2>4, <4>1
        <4>2. CASE i # n
          <5>1. i + 1 \in 1..n
            BY <1>2, <4>2
          <5> QED BY <1>3, <2>3, <4>2, <5>1
        <4> QED BY <4>1, <4>2
      <3>2. IsRun(S[n + 1]) /\ S[n + 1].start + S[n + 1].len = m + 1
        BY <1>2, <2>3, <2>4
      <3> QED BY <1>2, <3>1, <3>2
    <2>7. \A i, j \in 1..n + 1 : i < j => S[i].start + S[i].len <= S[j].start
      <3>1. ASSUME NEW i \in 1..n + 1, NEW j \in 1..n + 1, i < j PROVE S[i].start + S[i].len <= S[j].start
        <4>1. i \in 1..n /\ S[i] = R[i]
          BY <1>2, <2>3, <3>1
        <4>2. CASE j \in 1..n
          BY <1>4, <2>3, <3>1, <4>1, <4>2
        <4>3. CASE j = n + 1
          BY <2>3, <2>4, <2>5, <4>1, <4>3
        <4> QED BY <1>2, <4>2, <4>3
      <3> QED BY <3>1
    <2>8. \A p \in 0..m : \E i \in 1..n + 1 : S[i].start <= p /\ p < S[i].start + S[i].len
      <3>1. ASSUME NEW p \in 0..m - 1 PROVE \E i \in 1..n + 1 : S[i].start <= p /\ p < S[i].start + S[i].len
        <4>1. PICK i \in 1..n : R[i].start <= p /\ p < R[i].start + R[i].len
          BY <1>5
        <4> QED BY <1>2, <2>3, <4>1
      <3>2. S[n + 1].start <= m /\ m < S[n + 1].start + S[n + 1].len /\ n + 1 \in 1..n + 1
        BY <1>2, <2>3, <2>4
      <3> QED BY <1>2, <3>1, <3>2
    <2>9. Partition(F)
      BY <1>2, <1>9, <2>3, <2>6, <2>7, <2>8 DEF Partition, RunHolds
    <2>10. \A p \in 0..m - 1 : Base(F, p) = Base(E, p)
      <3>1. \A i \in 1..n : S[i].first = R[i].first /\ S[i].start = R[i].start /\ R[i].len <= S[i].len
        BY <2>3, <2>5
      <3>2. Partition(E) /\ E.len <= F.len /\ Len(E.runs) <= Len(F.runs)
        BY <1>1, <1>2, <1>9, <2>3 DEF RunsFit
      <3> QED BY <1>1, <1>9, <2>9, <3>1, <3>2, SameBase
    <2>11. Base(F, m) = e
      <3>1. RunHolds(F, n + 1, m)
        BY <1>2, <1>9, <2>3, <2>4 DEF RunHolds
      <3>2. RunAt(F, m) = n + 1
        BY <1>2, <1>9, <2>3, <2>9, <3>1, RunAtIs
      <3>3. Base(F, m) = Shifted(e, 0)
        BY <1>2, <1>9, <2>3, <2>4, <3>2 DEF Base
      <3> QED BY <3>3, NotShifted
    <2> QED BY <2>9, <2>10, <2>11
  <1>12. Partition(F) /\ Base(F, m) = e /\ \A p \in 0..m - 1 : Base(F, p) = Base(E, p)
    BY <1>10, <1>11
  <1>13. RunsFit(F)
    BY <1>2, <1>8, <1>9, <1>12, <1>o DEF RunsFit
  <1>14. EntryAt(F, m) = e
    <2>1. m \in 0..F.len - 1 /\ m \notin DOMAIN F.overrides
      BY <1>2, <1>9, <1>o
    <2> QED BY <1>12, <1>13, <2>1, EntryIs
  <1>15. ASSUME NEW p \in 0..m - 1 PROVE EntryAt(F, p) = EntryAt(E, p)
    <2>1. p \in 0..F.len - 1 /\ p \in 0..E.len - 1
      BY <1>1, <1>2, <1>9
    <2> QED BY <1>1, <1>9, <1>12, <1>13, <2>1, EntryIs
  <1> QED BY <1>1, <1>9, <1>13, <1>14, <1>15

LEMMA ReplacedEntry ==
    ASSUME NEW E, RunsFit(E), NEW p \in 0..E.len - 1, NEW e, IsEntry(e), e.id = EntryAt(E, p).id,
           NEW F, F = ReplaceEntry(E, p, e)
    PROVE  /\ RunsFit(F) /\ F.len = E.len /\ F.runs = E.runs /\ EntryAt(F, p) = e
           /\ \A q \in 0..E.len - 1 : q # p => EntryAt(F, q) = EntryAt(E, q)
  <1>1. PICK D, O, others : /\ O = E.overrides /\ D = DOMAIN O
                            /\ others = Restrict(O, D \ {p})
    OBVIOUS
  <1>2. DOMAIN others = D \ {p} /\ \A q \in D \ {p} : others[q] = O[q]
    BY <1>1 DEF Restrict
  <1>3. PICK base : base = Base(E, p)
    OBVIOUS
  <1>4. PICK N : N = IF base = e THEN others
                     ELSE [q \in DOMAIN others \cup {p} |-> IF q = p THEN e ELSE others[q]]
    OBVIOUS
  <1>5. F = [E EXCEPT !.overrides = N]
    BY <1>1, <1>3, <1>4 DEF ReplaceEntry, Base
  <1>6. F.runs = E.runs /\ F.len = E.len /\ F.overrides = N
        /\ F = [runs |-> E.runs, overrides |-> N, len |-> E.len]
    BY <1>5 DEF RunsFit
  <1>7. /\ p \in DOMAIN N => N[p] = e
        /\ p \notin DOMAIN N => base = e
        /\ \A q : q # p => /\ q \in DOMAIN N <=> q \in D
                           /\ q \in D => N[q] = O[q]
    BY <1>2, <1>4
  <1>8. Partition(F)
    BY <1>6 DEF RunsFit, Partition, RunHolds
  <1>9. \A q : Base(F, q) = Base(E, q)
    BY <1>6 DEF Base, RunAt
  <1>10. EntryAt(E, p).id = base.id
    BY <1>3, EntryIs
  <1>11. DOMAIN N \subseteq 0..E.len - 1
    BY <1>1, <1>7 DEF RunsFit
  <1>12. \A q \in DOMAIN N : IsEntry(N[q]) /\ N[q].id = Base(E, q).id
    <2>1. \A q \in D : IsEntry(O[q]) /\ O[q].id = Base(E, q).id
      BY <1>1 DEF RunsFit
    <2> QED BY <1>3, <1>7, <1>10, <2>1
  <1>13. RunsFit(F)
    BY <1>6, <1>8, <1>9, <1>11, <1>12 DEF RunsFit
  <1>14. \A q \in 0..E.len - 1 :
           /\ EntryAt(F, q) = IF q \in DOMAIN N THEN N[q] ELSE Base(E, q)
           /\ EntryAt(E, q) = IF q \in D THEN O[q] ELSE Base(E, q)
    BY <1>1, <1>6, <1>9, <1>13, EntryIs
  <1> QED BY <1>3, <1>6, <1>7, <1>13, <1>14

-----------------------------------------------------------------------------
(* Runs of identifiers                                                     *)

IsIdRun(r) ==
    /\ r = [first |-> r.first, position |-> r.position, len |-> r.len]
    /\ r.first \in Nat /\ r.position \in Nat /\ r.len \in Nat \ {0}

\* Run r holds index x.
IdRunHolds(r, x) == r.first <= x /\ x < r.first + r.len

\* The runs hold the indices below n, each once, in order.
IdRunsFit(S, n) ==
    /\ IsList(S) /\ n \in Nat
    /\ \A i \in 1..Len(S) : IsIdRun(S[i]) /\ S[i].first + S[i].len <= n
    /\ \A i, j \in 1..Len(S) : i < j => S[i].first + S[i].len <= S[j].first
    /\ \A x \in 0..n - 1 : \E i \in 1..Len(S) : IdRunHolds(S[i], x)

LEMMA PositionIs ==
    ASSUME NEW S, NEW n, IdRunsFit(S, n), NEW i \in 1..Len(S), NEW x \in Nat, IdRunHolds(S[i], x)
    PROVE  PositionsOf(S, x) = {S[i].position + x - S[i].first}
  <1>1. DOMAIN S = 1..Len(S) /\ Len(S) \in Nat
    BY ListFacts DEF IdRunsFit
  <1>2. \A j \in 1..Len(S) : S[j].first \in Nat /\ S[j].len \in Nat
    BY DEF IdRunsFit, IsIdRun
  <1>3. ASSUME NEW j \in 1..Len(S), S[j].first <= x, x < S[j].first + S[j].len PROVE j = i
    <2>1. CASE j < i
      <3>1. S[j].first + S[j].len <= S[i].first
        BY <2>1 DEF IdRunsFit
      <3> QED BY <1>2, <1>3, <3>1 DEF IdRunHolds
    <2>2. CASE i < j
      <3>1. S[i].first + S[i].len <= S[j].first
        BY <2>2 DEF IdRunsFit
      <3> QED BY <1>2, <1>3, <3>1 DEF IdRunHolds
    <2> QED BY <1>1, <2>1, <2>2
  <1>4. {j \in DOMAIN S : S[j].first <= x /\ x < S[j].first + S[j].len} = {i}
    BY <1>1, <1>3 DEF IdRunHolds
  <1> QED BY <1>4 DEF PositionsOf

\* A run that starts where the others end is put behind them.
LEMMA InsertedLast ==
    ASSUME NEW S, NEW n, IdRunsFit(S, n), NEW run, run.first = n
    PROVE  InsertRun(S, run) = IF Len(S) > 0 /\ Joins(S[Len(S)], run)
                               THEN [S EXCEPT ![Len(S)] = Joined(@, run)]
                               ELSE Append(S, run)
  <1>1. PICK k : k = Len(S)
    OBVIOUS
  <1>2. k \in Nat /\ DOMAIN S = 1..k
    BY <1>1, ListFacts DEF IdRunsFit
  <1>3. \A i \in 1..k : S[i].first < n
    <2> SUFFICES ASSUME NEW i \in 1..k PROVE S[i].first < n
      OBVIOUS
    <2>1. S[i].first \in Nat /\ S[i].len \in Nat \ {0} /\ S[i].first + S[i].len <= n /\ n \in Nat
      BY <1>1 DEF IdRunsFit, IsIdRun
    <2> QED BY <2>1
  <1>4. {i \in 1..k : S[i].first < run.first} = 1..k
    BY <1>3
  <1>5. Cardinality({i \in 1..k : S[i].first < run.first}) + 1 = k + 1
    BY <1>2, <1>4, PrefixCount
  <1>6. InsertAt(S, k + 1, run) = Append(S, run)
    <2>1. PICK D : S \in Seq(D)
      BY DEF IdRunsFit, IsList
    <2>2. SubSeq(S, 1, k) = S
      BY <1>1, <2>1
    <2>3. SubSeq(S, k + 1, k) = <<>>
      BY <1>1, <2>1
    <2>4. k + 1 - 1 = k
      BY <1>2
    <2>5. PICK G : G = D \cup {run}
      OBVIOUS
    <2>6. S \in Seq(G) /\ run \in G
      <3>1. S \in [1..k -> G]
        BY <1>1, <2>1, <2>5
      <3> QED BY <1>2, <2>5, <3>1
    <2>7. InsertAt(S, k + 1, run) = S \o <<run>> \o <<>>
      <3>1. PICK at : at = k + 1
        OBVIOUS
      <3>2. InsertAt(S, at, run) = SubSeq(S, 1, at - 1) \o <<run>> \o SubSeq(S, at, Len(S))
        BY DEF InsertAt
      <3>3. at - 1 = k
        BY <1>2, <3>1
      <3> QED BY <1>1, <2>2, <2>3, <3>1, <3>2, <3>3
    <2>8. S \o <<run>> = Append(S, run) /\ Append(S, run) \in Seq(G)
      BY <2>6
    <2> QED BY <2>7, <2>8
  <1>7. ~ (k + 1 <= k)
    BY <1>2
  <1>8. InsertRun(S, run) = IF k > 0 /\ Joins(S[k], run) THEN [S EXCEPT ![k] = Joined(@, run)]
                            ELSE IF k + 1 <= k /\ Joins(run, S[k + 1])
                            THEN [S EXCEPT ![k + 1] = Joined(run, @)]
                            ELSE Append(S, run)
    BY <1>1, <1>5, <1>6 DEF InsertRun
  <1>9. CASE k > 0 /\ Joins(S[k], run)
    BY <1>1, <1>7, <1>8, <1>9
  <1>10. CASE ~ (k > 0 /\ Joins(S[k], run))
    BY <1>1, <1>7, <1>8, <1>10
  <1> QED BY <1>9, <1>10

LEMMA InsertedRun ==
    ASSUME NEW S, NEW n, IdRunsFit(S, n), NEW q \in Nat, NEW l \in Nat \ {0},
           NEW run, run = [first |-> n, position |-> q, len |-> l],
           NEW T, T = InsertRun(S, run)
    PROVE  /\ IdRunsFit(T, n + l)
           /\ \A x \in 0..n - 1 : PositionsOf(T, x) = PositionsOf(S, x)
           /\ \A x \in n..n + l - 1 : PositionsOf(T, x) = {q + x - n}
  <1>1. PICK k, m : k = Len(S) /\ m = n + l
    OBVIOUS
  <1>2. k \in Nat /\ DOMAIN S = 1..k /\ n \in Nat /\ m \in Nat /\ n < m /\ IsList(S)
    BY <1>1, ListFacts DEF IdRunsFit
  <1>3. \A i \in 1..k : /\ IsIdRun(S[i]) /\ S[i].first + S[i].len <= n
                        /\ S[i].first \in Nat /\ S[i].position \in Nat /\ S[i].len \in Nat \ {0}
    BY <1>1 DEF IdRunsFit, IsIdRun
  <1>4. \A i, j \in 1..k : i < j => S[i].first + S[i].len <= S[j].first
    BY <1>1 DEF IdRunsFit
  <1>5. \A x \in 0..n - 1 : \E i \in 1..k : IdRunHolds(S[i], x)
    BY <1>1 DEF IdRunsFit
  <1>6. run.first = n /\ run.position = q /\ run.len = l /\ IsIdRun(run)
    BY <1>2 DEF IsIdRun
  <1>7. T = IF k > 0 /\ Joins(S[k], run) THEN [S EXCEPT ![k] = Joined(@, run)] ELSE Append(S, run)
    BY <1>1, <1>6, InsertedLast
  <1>8. ASSUME k > 0 /\ Joins(S[k], run)
        PROVE  /\ IdRunsFit(T, m)
               /\ \A x \in 0..n - 1 : PositionsOf(T, x) = PositionsOf(S, x)
               /\ \A x \in n..m - 1 : PositionsOf(T, x) = {q + x - n}
    <2>1. PICK last : last = [first |-> S[k].first, position |-> S[k].position, len |-> S[k].len + l]
      OBVIOUS
    <2>2. k \in 1..k /\ S[k].first + S[k].len = n /\ S[k].position + S[k].len = q
      BY <1>2, <1>6, <1>8 DEF Joins
    <2>3. S[k] = [first |-> S[k].first, position |-> S[k].position, len |-> S[k].len]
      BY <1>3, <2>2 DEF IsIdRun
    <2>4. [S[k] EXCEPT !.len = @ + l] = last
      BY <2>1, <2>3
    <2>5. Joined(S[k], run) = last
      BY <1>6, <2>4 DEF Joined
    <2>6. T = [S EXCEPT ![k] = last]
      BY <1>7, <1>8, <2>5
    <2>7. DOMAIN T = 1..k /\ T = [i \in 1..k |-> T[i]] /\ T[k] = last /\ \A i \in 1..k : i # k => T[i] = S[i]
      BY <1>2, <2>2, <2>6
    <2>8. IsList(T) /\ Len(T) = k
      BY <1>2, <2>7, ListOf
    <2>9. last.first = S[k].first /\ last.position = S[k].position /\ last.len = S[k].len + l /\ IsIdRun(last)
      <3>1. last.first = S[k].first /\ last.position = S[k].position /\ last.len = S[k].len + l
        BY <2>1
      <3>2. last = [first |-> last.first, position |-> last.position, len |-> last.len]
        BY <2>1, <3>1
      <3>3. S[k].first \in Nat /\ S[k].position \in Nat /\ S[k].len + l \in Nat \ {0}
        BY <1>3, <2>2
      <3> QED BY <3>1, <3>2, <3>3 DEF IsIdRun
    <2>10. \A i \in 1..k : IsIdRun(T[i]) /\ T[i].first = S[i].first /\ T[i].position = S[i].position
                           /\ T[i].len = (IF i = k THEN S[i].len + l ELSE S[i].len)
      BY <1>3, <2>7, <2>9
    <2>11. \A i \in 1..k : T[i].first + T[i].len <= m
      <3> SUFFICES ASSUME NEW i \in 1..k PROVE T[i].first + T[i].len <= m
        OBVIOUS
      <3>1. PICK a \in Nat, b \in Nat : a = S[i].first /\ b = S[i].len
        BY <1>3
      <3>2. a + b <= n /\ T[i].first = a /\ T[i].len = IF i = k THEN b + l ELSE b
        BY <1>3, <2>10, <3>1
      <3> QED BY <1>1, <1>2, <3>2
    <2>12. \A i, j \in 1..k : i < j => T[i].first + T[i].len <= T[j].first
      <3> SUFFICES ASSUME NEW i \in 1..k, NEW j \in 1..k, i < j PROVE T[i].first + T[i].len <= T[j].first
        OBVIOUS
      <3>1. i # k
        BY <1>2
      <3> QED BY <1>4, <2>10, <3>1
    <2>13. \A x \in 0..n - 1 : \A i \in 1..k : IdRunHolds(S[i], x) => IdRunHolds(T[i], x)
      <3> SUFFICES ASSUME NEW x \in 0..n - 1, NEW i \in 1..k, IdRunHolds(S[i], x) PROVE IdRunHolds(T[i], x)
        OBVIOUS
      <3>1. PICK a \in Nat, b \in Nat : a = S[i].first /\ b = S[i].len
        BY <1>3
      <3>2. T[i].first = a /\ T[i].len = IF i = k THEN b + l ELSE b
        BY <2>10, <3>1
      <3>3. a <= x /\ x < a + b
        BY <3>1 DEF IdRunHolds
      <3> QED BY <1>2, <3>2, <3>3 DEF IdRunHolds
    <2>14. \A x \in n..m - 1 : IdRunHolds(T[k], x)
      <3> SUFFICES ASSUME NEW x \in n..m - 1 PROVE IdRunHolds(T[k], x)
        OBVIOUS
      <3>1. PICK a \in Nat, b \in Nat : a = S[k].first /\ b = S[k].len
        BY <1>3, <2>2
      <3>2. T[k].first = a /\ T[k].len = b + l /\ a + b = n
        BY <2>2, <2>10, <3>1
      <3> QED BY <1>1, <1>2, <3>2 DEF IdRunHolds
    <2>15. \A x \in 0..m - 1 : x \in 0..n - 1 \/ x \in n..m - 1
      BY <1>2
    <2>16. \A x \in 0..m - 1 : \E i \in 1..k : IdRunHolds(T[i], x)
      BY <1>5, <2>2, <2>13, <2>14, <2>15
    <2>17. IdRunsFit(T, m)
      BY <1>2, <2>8, <2>10, <2>11, <2>12, <2>16 DEF IdRunsFit
    <2>18. ASSUME NEW x \in 0..n - 1 PROVE PositionsOf(T, x) = PositionsOf(S, x)
      <3>1. PICK i \in 1..k : IdRunHolds(S[i], x)
        BY <1>5
      <3>2. x \in Nat
        BY <1>2
      <3>3. PositionsOf(S, x) = {S[i].position + x - S[i].first}
        BY <1>1, <3>1, <3>2, PositionIs
      <3>4. IdRunHolds(T[i], x)
        BY <2>13, <3>1
      <3>5. PositionsOf(T, x) = {T[i].position + x - T[i].first}
        BY <2>8, <2>17, <3>2, <3>4, PositionIs
      <3> QED BY <2>10, <3>3, <3>5
    <2>19. ASSUME NEW x \in n..m - 1 PROVE PositionsOf(T, x) = {q + x - n}
      <3>1. x \in Nat /\ IdRunHolds(T[k], x)
        BY <1>2, <2>14
      <3>2. PositionsOf(T, x) = {T[k].position + x - T[k].first}
        BY <2>2, <2>8, <2>17, <3>1, PositionIs
      <3>3. T[k].position + x - T[k].first = q + x - n
        <4>1. PICK a \in Nat, b \in Nat, c \in Nat : a = S[k].first /\ b = S[k].len /\ c = S[k].position
          BY <1>3, <2>2
        <4>2. T[k].position = c /\ T[k].first = a /\ a + b = n /\ c + b = q
          BY <2>2, <2>10, <4>1
        <4> QED BY <1>2, <3>1, <4>2
      <3> QED BY <3>2, <3>3
    <2> QED BY <2>17, <2>18, <2>19
  <1>9. ASSUME ~ (k > 0 /\ Joins(S[k], run))
        PROVE  /\ IdRunsFit(T, m)
               /\ \A x \in 0..n - 1 : PositionsOf(T, x) = PositionsOf(S, x)
               /\ \A x \in n..m - 1 : PositionsOf(T, x) = {q + x - n}
    <2>1. T = Append(S, run)
      BY <1>7, <1>9
    <2>2. IsList(T) /\ Len(T) = k + 1 /\ T[k + 1] = run /\ \A i \in 1..k : T[i] = S[i]
      <3>1. /\ IsList(Append(S, run)) /\ Len(Append(S, run)) = k + 1 /\ Append(S, run)[k + 1] = run
            /\ \A i \in 1..k : Append(S, run)[i] = S[i]
        BY ONLY <1>1, <1>2, AppendedList
      <3> QED BY <2>1, <3>1
    <2>3. \A i \in 1..k + 1 : i \in 1..k \/ i = k + 1
      BY <1>2
    <2>4. \A i \in 1..k + 1 : IsIdRun(T[i]) /\ T[i].first + T[i].len <= m
      <3>1. IsIdRun(T[k + 1]) /\ T[k + 1].first + T[k + 1].len <= m
        BY <1>1, <1>2, <1>6, <2>2
      <3>2. \A i \in 1..k : IsIdRun(T[i]) /\ T[i].first + T[i].len <= m
        BY <1>2, <1>3, <2>2
      <3> QED BY <2>3, <3>1, <3>2
    <2>5. \A i, j \in 1..k + 1 : i < j => T[i].first + T[i].len <= T[j].first
      <3> SUFFICES ASSUME NEW i \in 1..k + 1, NEW j \in 1..k + 1, i < j PROVE T[i].first + T[i].len <= T[j].first
        OBVIOUS
      <3>1. i \in 1..k /\ T[i] = S[i]
        BY <1>2, <2>2
      <3>2. CASE j \in 1..k
        BY <1>4, <2>2, <3>1, <3>2
      <3>3. CASE j = k + 1
        BY <1>3, <1>6, <2>2, <3>1, <3>3
      <3> QED BY <2>3, <3>2, <3>3
    <2>6. \A x \in n..m - 1 : IdRunHolds(T[k + 1], x)
      BY <1>1, <1>2, <1>6, <2>2 DEF IdRunHolds
    <2>7. \A x \in 0..m - 1 : x \in 0..n - 1 \/ x \in n..m - 1
      BY <1>2
    <2>8. k + 1 \in 1..k + 1 /\ \A i \in 1..k : i \in 1..k + 1
      BY <1>2
    <2>9. \A x \in 0..m - 1 : \E i \in 1..k + 1 : IdRunHolds(T[i], x)
      <3>1. ASSUME NEW x \in 0..n - 1 PROVE \E i \in 1..k + 1 : IdRunHolds(T[i], x)
        <4>1. PICK i \in 1..k : IdRunHolds(S[i], x)
          BY <1>5
        <4> QED BY <2>2, <2>8, <4>1
      <3> QED BY <2>6, <2>7, <2>8, <3>1
    <2>10. IdRunsFit(T, m)
      BY <1>2, <2>2, <2>4, <2>5, <2>9 DEF IdRunsFit
    <2>11. ASSUME NEW x \in 0..n - 1 PROVE PositionsOf(T, x) = PositionsOf(S, x)
      <3>1. PICK i \in 1..k : IdRunHolds(S[i], x)
        BY <1>5
      <3>2. x \in Nat
        BY <1>2
      <3>3. PositionsOf(S, x) = {S[i].position + x - S[i].first}
        BY <1>1, <3>1, <3>2, PositionIs
      <3>4. IdRunHolds(T[i], x) /\ i \in 1..k + 1
        BY <2>2, <2>8, <3>1
      <3>5. PositionsOf(T, x) = {T[i].position + x - T[i].first}
        BY <2>2, <2>10, <3>2, <3>4, PositionIs
      <3> QED BY <2>2, <3>3, <3>5
    <2>12. ASSUME NEW x \in n..m - 1 PROVE PositionsOf(T, x) = {q + x - n}
      <3>1. x \in Nat /\ IdRunHolds(T[k + 1], x)
        BY <1>2, <2>6
      <3>2. PositionsOf(T, x) = {T[k + 1].position + x - T[k + 1].first}
        BY <2>2, <2>8, <2>10, <3>1, PositionIs
      <3> QED BY <1>6, <2>2, <3>2
    <2> QED BY <2>10, <2>11, <2>12
  <1>10. /\ IdRunsFit(T, m)
         /\ \A x \in 0..n - 1 : PositionsOf(T, x) = PositionsOf(S, x)
         /\ \A x \in n..m - 1 : PositionsOf(T, x) = {q + x - n}
    BY <1>8, <1>9
  <1>11. ASSUME NEW x \in n..n + l - 1 PROVE PositionsOf(T, x) = {q + x - n}
    <2>1. x \in n..m - 1
      <3>1. PICK m1 : m1 = n + l
        OBVIOUS
      <3>2. m1 = m /\ x \in n..m1 - 1
        BY <1>1, <1>2, <3>1
      <3> QED BY <3>2
    <2> QED BY <1>10, <2>1
  <1>12. IdRunsFit(T, n + l)
    BY <1>1, <1>10
  <1> QED BY <1>10, <1>11, <1>12

-----------------------------------------------------------------------------
(* Entries and positions                                                   *)

\* The entries E and the positions P of a registry with c[k] ids of kind k: each
\* entry has an id, each id an entry, and the positions invert the entries.
EntriesFit(E, P, c) ==
    /\ RunsFit(E)
    /\ P = [k \in Kinds |-> P[k]] /\ c \in [Kinds -> Nat]
    /\ \A k \in Kinds : IdRunsFit(P[k], c[k])
    /\ \A p \in 0..E.len - 1 :
         /\ EntryAt(E, p).id.index < c[EntryAt(E, p).id.kind]
         /\ PositionsOf(P[EntryAt(E, p).id.kind], EntryAt(E, p).id.index) = {p}
    /\ \A k \in Kinds : \A x \in 0..c[k] - 1 : \E p \in 0..E.len - 1 : EntryAt(E, p).id = Id(k, x)

\* The positions with that of an entry at p.
Placed(P, e, p) ==
    [P EXCEPT ![e.id.kind] =
       InsertRun(P[e.id.kind], [first |-> e.id.index, position |-> p, len |-> 1])]

\* One more constraint of kind k.
Plus(c, k) == [c EXCEPT ![k] = c[k] + 1]

LEMMA PushedId ==
    ASSUME NEW E, NEW P, NEW c, EntriesFit(E, P, c), NEW e, IsEntry(e), e.id.index = c[e.id.kind]
    PROVE  /\ EntriesFit(PushEntry(E, e), Placed(P, e, E.len), Plus(c, e.id.kind))
           /\ PushEntry(E, e).len = E.len + 1 /\ EntryAt(PushEntry(E, e), E.len) = e
           /\ \A p \in 0..E.len - 1 : EntryAt(PushEntry(E, e), p) = EntryAt(E, p)
  <1>1. PICK k, n, m, F, Q, d : /\ k = e.id.kind /\ n = c[k] /\ m = E.len
                                /\ F = PushEntry(E, e) /\ Q = Placed(P, e, m) /\ d = Plus(c, k)
    OBVIOUS
  <1>2. k \in Kinds /\ n \in Nat /\ m \in Nat /\ e.id.index = n
    BY <1>1 DEF EntriesFit, IsEntry, RunsFit, Partition
  <1>3. /\ RunsFit(F) /\ F.len = m + 1 /\ EntryAt(F, m) = e
        /\ \A p \in 0..m - 1 : EntryAt(F, p) = EntryAt(E, p)
    BY <1>1, PushedEntry DEF EntriesFit
  <1>4. PICK run, T : run = [first |-> n, position |-> m, len |-> 1] /\ T = InsertRun(P[k], run)
    OBVIOUS
  <1>5. /\ IdRunsFit(T, n + 1)
        /\ \A x \in 0..n - 1 : PositionsOf(T, x) = PositionsOf(P[k], x)
        /\ \A x \in n..n + 1 - 1 : PositionsOf(T, x) = {m + x - n}
    <2>1. IdRunsFit(P[k], n)
      BY <1>1, <1>2 DEF EntriesFit
    <2>2. 1 \in Nat \ {0}
      OBVIOUS
    <2> QED BY <1>2, <1>4, <2>1, <2>2, InsertedRun
  <1>6. PositionsOf(T, n) = {m}
    <2>1. n \in n..n + 1 - 1 /\ m + n - n = m
      BY <1>2
    <2> QED BY <1>5, <2>1
  <1>7. Q = [P EXCEPT ![k] = T] /\ d = [c EXCEPT ![k] = n + 1]
    BY <1>1, <1>2, <1>4 DEF Placed, Plus
  <1>8. /\ Q = [j \in Kinds |-> Q[j]] /\ Q[k] = T /\ \A j \in Kinds : j # k => Q[j] = P[j]
        /\ d \in [Kinds -> Nat] /\ d[k] = n + 1 /\ \A j \in Kinds : j # k => d[j] = c[j]
    <2>1. P = [j \in Kinds |-> P[j]] /\ c \in [Kinds -> Nat]
      BY DEF EntriesFit
    <2>2. Q = [j \in Kinds |-> Q[j]] /\ Q[k] = T /\ \A j \in Kinds : j # k => Q[j] = P[j]
      BY ONLY <1>2, <1>7, <2>1
    <2>3. d \in [Kinds -> Nat] /\ d[k] = n + 1 /\ \A j \in Kinds : j # k => d[j] = c[j]
      BY ONLY <1>2, <1>7, <2>1
    <2> QED BY <2>2, <2>3
  <1>9. \A j \in Kinds : IdRunsFit(Q[j], d[j])
    BY <1>5, <1>8 DEF EntriesFit
  <1>10. ASSUME NEW p \in 0..F.len - 1
         PROVE  /\ EntryAt(F, p).id.index < d[EntryAt(F, p).id.kind]
                /\ PositionsOf(Q[EntryAt(F, p).id.kind], EntryAt(F, p).id.index) = {p}
    <2>1. CASE p = m
      BY <1>1, <1>2, <1>3, <1>6, <1>8, <2>1
    <2>2. CASE p # m
      <3>1. p \in 0..m - 1 /\ p \in 0..E.len - 1
        BY <1>1, <1>2, <1>3, <2>2
      <3>2. PICK f : f = EntryAt(E, p)
        OBVIOUS
      <3>3. PICK j \in Kinds, x \in Nat : j = f.id.kind /\ x = f.id.index
        BY <3>1, <3>2, EntryIs DEF EntriesFit, IsEntry
      <3>4. x < c[j] /\ PositionsOf(P[j], x) = {p} /\ c[j] \in Nat
        BY <3>1, <3>2, <3>3 DEF EntriesFit
      <3>5. EntryAt(F, p) = f
        BY <1>3, <3>1, <3>2
      <3>6. CASE j = k
        <4>1. x \in 0..n - 1
          BY <1>1, <1>2, <3>4, <3>6
        <4>2. PositionsOf(Q[j], x) = {p}
          BY <1>5, <1>8, <3>4, <3>6, <4>1
        <4> QED BY <1>1, <1>2, <1>8, <3>3, <3>4, <3>5, <3>6, <4>2
      <3>7. CASE j # k
        BY <1>8, <3>3, <3>4, <3>5, <3>7
      <3> QED BY <3>6, <3>7
    <2> QED BY <2>1, <2>2
  <1>11. ASSUME NEW j \in Kinds, NEW x \in 0..d[j] - 1 PROVE \E p \in 0..F.len - 1 : EntryAt(F, p).id = Id(j, x)
    <2>1. CASE j = k /\ x = n
      <3>1. e.id = Id(k, n)
        BY <1>1, <1>2 DEF IsEntry, Id
      <3>2. m \in 0..F.len - 1
        BY <1>2, <1>3
      <3> QED BY <1>3, <2>1, <3>1, <3>2
    <2>2. CASE ~ (j = k /\ x = n)
      <3>1. x \in 0..c[j] - 1
        <4>1. d[j] = (IF j = k THEN n + 1 ELSE c[j]) /\ c[j] \in Nat
          BY <1>8 DEF EntriesFit
        <4> QED BY <1>1, <1>2, <2>2, <4>1
      <3>2. PICK p \in 0..E.len - 1 : EntryAt(E, p).id = Id(j, x)
        BY <3>1 DEF EntriesFit
      <3>3. p \in 0..m - 1 /\ p \in 0..F.len - 1
        BY <1>1, <1>2, <1>3
      <3> QED BY <1>3, <3>2, <3>3
    <2> QED BY <2>1, <2>2
  <1>12. EntriesFit(F, Q, d)
    BY <1>3, <1>8, <1>9, <1>10, <1>11 DEF EntriesFit
  <1> QED BY <1>1, <1>3, <1>12

\* A replaced entry keeps its id, hence the positions.
LEMMA ReplacedId ==
    ASSUME NEW E, NEW P, NEW c, EntriesFit(E, P, c), NEW p \in 0..E.len - 1,
           NEW e, IsEntry(e), e.id = EntryAt(E, p).id
    PROVE  /\ EntriesFit(ReplaceEntry(E, p, e), P, c) /\ ReplaceEntry(E, p, e).len = E.len
           /\ EntryAt(ReplaceEntry(E, p, e), p) = e
           /\ \A q \in 0..E.len - 1 : q # p => EntryAt(ReplaceEntry(E, p, e), q) = EntryAt(E, q)
  <1>n. PICK F : F = ReplaceEntry(E, p, e)
    OBVIOUS
  <1>1. /\ RunsFit(F) /\ F.len = E.len /\ EntryAt(F, p) = e
        /\ \A q \in 0..E.len - 1 : q # p => EntryAt(F, q) = EntryAt(E, q)
    BY <1>n, ReplacedEntry DEF EntriesFit
  <1>2. \A q \in 0..E.len - 1 : EntryAt(F, q).id = EntryAt(E, q).id
    BY <1>1
  <1>3. EntriesFit(F, P, c)
    BY <1>1, <1>2 DEF EntriesFit
  <1> QED BY <1>n, <1>1, <1>3

\* The registry that holds nothing, once it is written entry by entry.
LEMMA NoEntries ==
    ASSUME NEW E, E = [runs |-> <<>>, overrides |-> <<>>, len |-> 0],
           NEW P, P = [k \in Kinds |-> <<>>], NEW c \in [Kinds -> Nat], \A k \in Kinds : c[k] = 0
    PROVE  EntriesFit(E, P, c)
  <1>1. IsList(<<>>) /\ Len(<<>>) = 0
    BY DEF IsList
  <1>2. PICK r, o, n : r = E.runs /\ o = E.overrides /\ n = E.len
    OBVIOUS
  <1>3. r = <<>> /\ o = <<>> /\ n = 0 /\ E = [runs |-> r, overrides |-> o, len |-> n]
    BY <1>2
  <1>4. DOMAIN o = {} /\ IsList(r) /\ Len(r) = 0
    BY <1>1, <1>3
  <1>5. RunsFit(E)
    <2>1. Partition(E)
      BY <1>2, <1>3, <1>4 DEF Partition
    <2> QED BY <1>2, <1>3, <1>4, <2>1 DEF RunsFit
  <1>6. \A k \in Kinds : P[k] = <<>> /\ IdRunsFit(P[k], c[k])
    <2> SUFFICES ASSUME NEW k \in Kinds PROVE P[k] = <<>> /\ IdRunsFit(P[k], c[k])
      OBVIOUS
    <2>1. PICK S : S = P[k]
      OBVIOUS
    <2>2. S = <<>> /\ IsList(S) /\ Len(S) = 0 /\ c[k] = 0
      BY <1>1, <2>1
    <2> QED BY <2>1, <2>2 DEF IdRunsFit
  <1>7. P = [k \in Kinds |-> P[k]]
    OBVIOUS
  <1> QED BY <1>2, <1>3, <1>5, <1>6, <1>7 DEF EntriesFit

\* The entries of n plain scalar rows, and the positions of their ids.
ScalarEntries(n) ==
    [runs |-> <<[first |-> DeclaredScalar(0), start |-> 0, len |-> n]>>, overrides |-> <<>>, len |-> n]

ScalarPositions(n) ==
    [[k \in Kinds |-> <<>>] EXCEPT !["alg"] = InsertRun(<<>>, [first |-> 0, position |-> 0, len |-> n])]

LEMMA ScalarRun ==
    ASSUME NEW n \in Nat \ {0}, NEW c \in [Kinds -> Nat], c["alg"] = n, \A k \in Kinds : k # "alg" => c[k] = 0,
           NEW E, E = ScalarEntries(n), NEW P, P = ScalarPositions(n)
    PROVE  /\ EntriesFit(E, P, c)
           /\ \A p \in 0..n - 1 :
                /\ EntryAt(E, p).id = Id("alg", p) /\ EntryAt(E, p).origin = DECLARED
                /\ EntryAt(E, p).rep.tag = "native"
  <1>1. PICK e, run, R : /\ e = DeclaredScalar(0) /\ run = [first |-> e, start |-> 0, len |-> n]
                         /\ R = <<run>>
    OBVIOUS
  <1>2. /\ e = [id |-> [kind |-> "alg", index |-> 0],
                rep |-> [tag |-> "native", sig |-> NoSignature, index |-> 0], origin |-> DECLARED]
        /\ IsEntry(e)
    <2>1. [NoRep EXCEPT !.tag = "native"] = [tag |-> "native", sig |-> NoSignature, index |-> 0]
      BY DEF NoRep
    <2>2. Native(NoSignature) = [tag |-> "native", sig |-> NoSignature, index |-> 0]
      BY <2>1 DEF Native
    <2>3. e = [id |-> [kind |-> "alg", index |-> 0],
               rep |-> [tag |-> "native", sig |-> NoSignature, index |-> 0], origin |-> DECLARED]
      BY <1>1, <2>2 DEF DeclaredScalar, SemanticEntry, Id
    <2>4. e.id.kind = "alg" /\ e.id.index = 0 /\ e.rep.tag = "native" /\ e.rep.sig = NoSignature
          /\ e.rep.index = 0 /\ e.origin = DECLARED
      BY <2>3
    <2> QED BY <2>3, <2>4 DEF IsEntry, IsRep, Kinds
  <1>3. run.first = e /\ run.start = 0 /\ run.len = n /\ IsRun(run)
    BY <1>1, <1>2 DEF IsRun
  <1>4. IsList(R) /\ Len(R) = 1 /\ R[1] = run
    BY <1>1, ShortLists
  <1>5. PICK o : o = <<>>
    OBVIOUS
  <1>6. E = [runs |-> R, overrides |-> o, len |-> n] /\ DOMAIN o = {}
    BY <1>1, <1>5 DEF ScalarEntries
  <1>7. E.runs = R /\ E.overrides = o /\ E.len = n
    BY <1>6
  <1>8. \A i \in 1..1 : i = 1
    OBVIOUS
  <1>9. Partition(E)
    <2>1. \A i \in 1..1 : IsRun(R[i]) /\ R[i].start + R[i].len = IF i = 1 THEN n ELSE R[i + 1].start
      BY <1>3, <1>4, <1>8
    <2>2. \A i, j \in 1..1 : i < j => R[i].start + R[i].len <= R[j].start
      BY <1>8
    <2>3. \A p \in 0..n - 1 : \E i \in 1..1 : R[i].start <= p /\ p < R[i].start + R[i].len
      <3> SUFFICES ASSUME NEW p \in 0..n - 1 PROVE R[1].start <= p /\ p < R[1].start + R[1].len
        OBVIOUS
      <3> QED BY <1>3, <1>4
    <2> QED BY <1>4, <1>7, <2>1, <2>2, <2>3 DEF Partition, RunHolds
  <1>10. RunsFit(E)
    BY <1>6, <1>7, <1>9 DEF RunsFit
  <1>11. ASSUME NEW p \in 0..n - 1
         PROVE  /\ EntryAt(E, p).id = Id("alg", p) /\ EntryAt(E, p).origin = DECLARED
                /\ EntryAt(E, p).rep.tag = "native"
    <2>1. RunHolds(E, 1, p) /\ 1 \in 1..Len(E.runs) /\ p \in Nat
      <3>1. R[1].start = 0 /\ R[1].len = n
        BY <1>3, <1>4
      <3>2. 0 <= p /\ p < 0 + n /\ p \in Nat
        OBVIOUS
      <3>3. RunHolds(E, 1, p)
        BY <1>7, <3>1, <3>2 DEF RunHolds
      <3>4. 1 \in 1..1
        OBVIOUS
      <3> QED BY <1>4, <1>7, <3>2, <3>3, <3>4
    <2>2. RunAt(E, p) = 1
      BY <1>9, <2>1, RunAtIs
    <2>3. Base(E, p) = Shifted(e, p)
      <3>1. Base(E, p) = Shifted(R[1].first, p - R[1].start)
        BY <1>7, <2>2 DEF Base
      <3>2. p - 0 = p
        OBVIOUS
      <3> QED BY <1>3, <1>4, <3>1, <3>2
    <2>4. EntryAt(E, p) = Shifted(e, p)
      BY <1>6, <1>7, <1>10, <2>3, EntryIs
    <2>5. PICK j \in Nat : Shifted(e, p) = [id |-> [kind |-> e.id.kind, index |-> e.id.index + p],
                                            rep |-> [tag |-> e.rep.tag, sig |-> e.rep.sig, index |-> j],
                                            origin |-> e.origin]
      BY <1>2, <2>1, ShiftedIs
    <2>6. e.id.kind = "alg" /\ e.id.index = 0 /\ e.rep.tag = "native" /\ e.origin = DECLARED
      BY <1>2
    <2>7. 0 + p = p
      BY <2>1
    <2>8. PICK f : f = EntryAt(E, p)
      OBVIOUS
    <2>9. f.id = [kind |-> "alg", index |-> p] /\ f.origin = DECLARED /\ f.rep.tag = "native"
      BY <2>4, <2>5, <2>6, <2>7, <2>8
    <2> QED BY <2>8, <2>9 DEF Id
  <1>12. PICK T : T = InsertRun(<<>>, [first |-> 0, position |-> 0, len |-> n])
    OBVIOUS
  <1>13. IdRunsFit(<<>>, 0)
    BY DEF IdRunsFit, IsList
  <1>14. IdRunsFit(T, n) /\ \A x \in 0..n - 1 : PositionsOf(T, x) = {x}
    <2>1. /\ IdRunsFit(T, 0 + n)
          /\ \A x \in 0..0 + n - 1 : PositionsOf(T, x) = {0 + x - 0}
      BY <1>12, <1>13, InsertedRun
    <2>2. 0 + n = n /\ \A x \in 0..n - 1 : x \in 0..0 + n - 1 /\ 0 + x - 0 = x
      OBVIOUS
    <2> QED BY <2>1, <2>2
  <1>15. "alg" \in Kinds
    BY DEF Kinds
  <1>16. P = [k \in Kinds |-> P[k]] /\ P["alg"] = T /\ \A k \in Kinds : k # "alg" => P[k] = <<>>
    BY <1>12, <1>15 DEF ScalarPositions
  <1>17. \A k \in Kinds : IdRunsFit(P[k], c[k])
    <2> SUFFICES ASSUME NEW k \in Kinds PROVE IdRunsFit(P[k], c[k])
      OBVIOUS
    <2>1. CASE k = "alg"
      BY <1>14, <1>16, <2>1
    <2>2. CASE k # "alg"
      BY <1>13, <1>16, <2>2
    <2> QED BY <2>1, <2>2
  <1>18. ASSUME NEW p \in 0..n - 1
         PROVE  /\ EntryAt(E, p).id.index < c[EntryAt(E, p).id.kind]
                /\ PositionsOf(P[EntryAt(E, p).id.kind], EntryAt(E, p).id.index) = {p}
    <2>1. EntryAt(E, p).id.index = p /\ EntryAt(E, p).id.kind = "alg"
      <3>1. PICK f : f = EntryAt(E, p).id
        OBVIOUS
      <3>2. f = [kind |-> "alg", index |-> p]
        BY <1>11, <3>1 DEF Id
      <3> QED BY <3>1, <3>2
    <2>2. p < n
      OBVIOUS
    <2> QED BY <1>14, <1>16, <2>1, <2>2
  <1>19. \A k \in Kinds : \A x \in 0..c[k] - 1 : \E p \in 0..n - 1 : EntryAt(E, p).id = Id(k, x)
    <2> SUFFICES ASSUME NEW k \in Kinds, NEW x \in 0..c[k] - 1 PROVE \E p \in 0..n - 1 : EntryAt(E, p).id = Id(k, x)
      OBVIOUS
    <2>1. k = "alg"
      <3> SUFFICES ASSUME k # "alg" PROVE FALSE
        OBVIOUS
      <3>1. c[k] = 0
        OBVIOUS
      <3> QED BY <3>1
    <2> QED BY <1>11, <2>1
  <1> QED BY <1>7, <1>10, <1>11, <1>16, <1>17, <1>18, <1>19 DEF EntriesFit

-----------------------------------------------------------------------------
(* The registry                                                            *)

IsStored(record) ==
    record = [name |-> record.name, fn |-> record.fn, set |-> record.set, origin |-> record.origin]

IsRegistry(reg) ==
    /\ reg = [implicit |-> reg.implicit, declarations |-> reg.declarations, entries |-> reg.entries,
              positions |-> reg.positions, extensions |-> reg.extensions, origins |-> reg.origins,
              originOverrides |-> reg.originOverrides]
    /\ reg.implicit \in BOOLEAN

\* The entries refer to what the tables hold, no two to the same extension.
TablesFit(reg) ==
    /\ IsList(reg.extensions) /\ \A i \in 1..Len(reg.extensions) : IsStored(reg.extensions[i])
    /\ IsList(reg.origins) /\ Len(reg.origins) <= reg.entries.len
    /\ \A p \in 0..reg.entries.len - 1 :
         \/ /\ EntryAt(reg.entries, p).rep.tag = "native"
            /\ EntryAt(reg.entries, p).origin \in {DECLARED, ROW_NAME} \cup (1..Len(reg.origins))
         \/ /\ EntryAt(reg.entries, p).rep.tag = "extension"
            /\ EntryAt(reg.entries, p).rep.index \in 1..Len(reg.extensions)
    /\ \A p, q \in 0..reg.entries.len - 1 :
         /\ EntryAt(reg.entries, p).rep.tag = "extension"
         /\ EntryAt(reg.entries, q).rep.tag = "extension"
         /\ EntryAt(reg.entries, p).rep.index = EntryAt(reg.entries, q).rep.index
         => p = q
    /\ \A id \in DOMAIN reg.originOverrides : \E p \in 0..reg.entries.len - 1 : EntryAt(reg.entries, p).id = id

\* A registry of c[k] constraints of each kind k.
Fits(reg, c) ==
    /\ IsRegistry(reg) /\ c \in [Kinds -> Nat]
    /\ reg.implicit =>
         /\ reg = [EmptyRegistry EXCEPT !.declarations = c["alg"]]
         /\ \A k \in Kinds : k # "alg" => c[k] = 0
    /\ ~reg.implicit => EntriesFit(reg.entries, reg.positions, c) /\ TablesFit(reg)

LEMMA LengthIs ==
    ASSUME NEW reg, NEW c, Fits(reg, c)
    PROVE  Length(reg) \in Nat
  <1>1. CASE reg.implicit
    <2>1. reg.declarations = c["alg"]
      BY <1>1 DEF Fits, EmptyRegistry
    <2> QED BY <1>1, <2>1 DEF Fits, Length, Kinds
  <1>2. CASE ~reg.implicit
    BY <1>2 DEF Fits, Length, EntriesFit, RunsFit, Partition
  <1> QED BY <1>1, <1>2

\* The position of an id, and the id at a position.
LEMMA PositionOfId ==
    ASSUME NEW reg, NEW c, Fits(reg, c), NEW k \in Kinds, NEW x \in 0..c[k] - 1
    PROVE  \E p \in 0..Length(reg) - 1 : Positions(reg, Id(k, x)) = {p} /\ EntryOf(reg, p).id = Id(k, x)
  <1>1. Id(k, x).kind = k /\ Id(k, x).index = x
    BY DEF Id
  <1>2. CASE reg.implicit
    <2>1. reg.declarations = c["alg"] /\ Length(reg) = c["alg"]
      BY <1>2 DEF Fits, EmptyRegistry, Length
    <2>2. k = "alg"
      <3> SUFFICES ASSUME k # "alg" PROVE FALSE
        OBVIOUS
      <3>1. c[k] = 0
        BY <1>2 DEF Fits
      <3> QED BY <3>1
    <2>3. x < reg.declarations /\ x \in 0..Length(reg) - 1
      <3>1. c[k] \in Nat
        BY DEF Fits
      <3> QED BY <2>1, <2>2, <3>1
    <2>4. Positions(reg, Id(k, x)) = {x}
      <3>1. {y \in {"alg"} : k = y /\ x < reg.declarations} = {"alg"}
        BY <2>2, <2>3
      <3> QED BY <1>1, <1>2, <3>1 DEF Positions
    <2>5. EntryOf(reg, x).id = Id(k, x)
      BY <1>2, <2>2 DEF EntryOf, DeclaredScalar, SemanticEntry
    <2> QED BY <2>3, <2>4, <2>5
  <1>3. CASE ~reg.implicit
    <2>1. EntriesFit(reg.entries, reg.positions, c) /\ Length(reg) = reg.entries.len
      BY <1>3 DEF Fits, Length
    <2>2. PICK p \in 0..reg.entries.len - 1 : EntryAt(reg.entries, p).id = Id(k, x)
      BY <2>1 DEF EntriesFit
    <2>3. PositionsOf(reg.positions[k], x) = {p}
      BY <1>1, <2>1, <2>2 DEF EntriesFit
    <2> QED BY <1>1, <1>3, <2>1, <2>2, <2>3 DEF Positions, EntryOf
  <1> QED BY <1>2, <1>3

LEMMA IdAtPosition ==
    ASSUME NEW reg, NEW c, Fits(reg, c), NEW p \in 0..Length(reg) - 1
    PROVE  \E k \in Kinds : \E x \in 0..c[k] - 1 :
             EntryOf(reg, p).id = Id(k, x) /\ Positions(reg, Id(k, x)) = {p}
  <1>1. CASE reg.implicit
    <2>1. reg.declarations = c["alg"] /\ Length(reg) = c["alg"] /\ "alg" \in Kinds
      BY <1>1 DEF Fits, EmptyRegistry, Length, Kinds
    <2>2. EntryOf(reg, p).id = Id("alg", p)
      BY <1>1 DEF EntryOf, DeclaredScalar, SemanticEntry
    <2>3. c["alg"] \in Nat /\ p \in 0..c["alg"] - 1
      BY <2>1 DEF Fits
    <2>4. Positions(reg, Id("alg", p)) = {p}
      <3>1. Id("alg", p).kind = "alg" /\ Id("alg", p).index = p
        BY DEF Id
      <3>2. {y \in {"alg"} : "alg" = y /\ p < reg.declarations} = {"alg"}
        BY <2>1, <2>3
      <3> QED BY <1>1, <3>1, <3>2 DEF Positions
    <2> QED BY <2>1, <2>2, <2>3, <2>4
  <1>2. CASE ~reg.implicit
    <2>1. EntriesFit(reg.entries, reg.positions, c) /\ Length(reg) = reg.entries.len
      BY <1>2 DEF Fits, Length
    <2>2. PICK e : e = EntryAt(reg.entries, p)
      OBVIOUS
    <2>3. IsEntry(e)
      BY <2>1, <2>2, EntryIs DEF EntriesFit
    <2>4. PICK k \in Kinds, x \in Nat : k = e.id.kind /\ x = e.id.index /\ e.id = Id(k, x)
      BY <2>3 DEF IsEntry, Id
    <2>5. x < c[k] /\ PositionsOf(reg.positions[k], x) = {p} /\ c[k] \in Nat
      BY <2>1, <2>2, <2>4 DEF EntriesFit
    <2>6. Id(k, x).kind = k /\ Id(k, x).index = x
      BY DEF Id
    <2>7. x \in 0..c[k] - 1
      BY <2>5
    <2>8. EntryOf(reg, p).id = Id(k, x) /\ Positions(reg, Id(k, x)) = {p}
      BY <1>2, <2>2, <2>4, <2>5, <2>6 DEF Positions, EntryOf
    <2> QED BY <2>7, <2>8
  <1> QED BY <1>1, <1>2

-----------------------------------------------------------------------------
(* What a reader takes from the registry                                   *)

NativeReading(id, sig, origin) ==
    [id |-> id, tag |-> "native", sig |-> IF id.kind = "ind" THEN sig ELSE NoSignature,
     stored |-> <<>>, origin |-> origin]

ExtensionReading(id, stored) ==
    [id |-> id, tag |-> "extension", sig |-> NoSignature, stored |-> stored, origin |-> Declared]

\* For the constraint at position p, whose row bears the name.
Reading(reg, p, name) ==
    LET entry == EntryOf(reg, p) IN
    IF entry.rep.tag = "extension" THEN ExtensionReading(entry.id, reg.extensions[entry.rep.index])
    ELSE NativeReading(entry.id, entry.rep.sig, OriginOf(reg, entry, name))

LEMMA ReadingId ==
    ASSUME NEW reg, NEW p, NEW name
    PROVE  /\ Reading(reg, p, name).id = EntryOf(reg, p).id
           /\ Reading(reg, p, name).tag = "extension" <=> EntryOf(reg, p).rep.tag = "extension"
  <1>1. PICK e, r : e = EntryOf(reg, p) /\ r = Reading(reg, p, name)
    OBVIOUS
  <1>2. CASE e.rep.tag = "extension"
    <2>1. r = ExtensionReading(e.id, reg.extensions[e.rep.index])
      BY <1>1, <1>2 DEF Reading
    <2>2. r.id = e.id /\ r.tag = "extension"
      BY <2>1 DEF ExtensionReading
    <2> QED BY <1>1, <1>2, <2>2
  <1>3. CASE e.rep.tag # "extension"
    <2>1. r = NativeReading(e.id, e.rep.sig, OriginOf(reg, e, name))
      BY <1>1, <1>3 DEF Reading
    <2>2. r.id = e.id /\ r.tag = "native"
      BY <2>1 DEF NativeReading
    <2> QED BY <1>1, <1>3, <2>2
  <1> QED BY <1>2, <1>3

LEMMA SameOrigin ==
    ASSUME NEW reg, NEW new, NEW e, NEW name, e.rep.tag # "extension",
           e.id \in DOMAIN new.originOverrides <=> e.id \in DOMAIN reg.originOverrides,
           e.id \in DOMAIN reg.originOverrides => new.originOverrides[e.id] = reg.originOverrides[e.id],
           e.origin \notin {DECLARED, ROW_NAME} => new.origins[e.origin] = reg.origins[e.origin]
    PROVE  OriginOf(new, e, name) = OriginOf(reg, e, name)
  <1>1. BaseOrigin(new, e, name) = BaseOrigin(reg, e, name)
    <2>1. CASE e.origin = DECLARED
      BY <2>1 DEF BaseOrigin
    <2>2. CASE e.origin = ROW_NAME /\ e.origin # DECLARED
      BY <2>2 DEF BaseOrigin
    <2>3. CASE e.origin \notin {DECLARED, ROW_NAME}
      BY <2>3 DEF BaseOrigin
    <2> QED BY <2>1, <2>2, <2>3
  <1> QED BY <1>1 DEF OriginOf

LEMMA SameReading ==
    ASSUME NEW reg, NEW new, NEW p, NEW name, NEW e, EntryOf(reg, p) = e, EntryOf(new, p) = e,
           e.rep.tag = "extension" => new.extensions[e.rep.index] = reg.extensions[e.rep.index],
           e.rep.tag # "extension" => OriginOf(new, e, name) = OriginOf(reg, e, name)
    PROVE  Reading(new, p, name) = Reading(reg, p, name)
  BY DEF Reading

\* The first record that is not a plain scalar row writes the others out.
LEMMA MaterialisedFits ==
    ASSUME NEW reg, NEW c, Fits(reg, c), NEW m, m = Materialised(reg)
    PROVE  /\ Fits(m, c) /\ ~m.implicit /\ Length(m) = Length(reg)
           /\ \A p \in 0..Length(reg) - 1 : \A name : Reading(m, p, name) = Reading(reg, p, name)
  <1>1. CASE ~reg.implicit
    BY <1>1 DEF Materialised
  <1>2. CASE reg.implicit
    <2>1. PICK n : n = c["alg"]
      OBVIOUS
    <2>2. "alg" \in Kinds /\ n \in Nat /\ c \in [Kinds -> Nat] /\ \A k \in Kinds : k # "alg" => c[k] = 0
      BY <1>2, <2>1 DEF Fits, Kinds
    <2>3. PICK E0, P0 : E0 = [runs |-> <<>>, overrides |-> <<>>, len |-> 0] /\ P0 = [k \in Kinds |-> <<>>]
      OBVIOUS
    <2>4. reg = [implicit |-> TRUE, declarations |-> n, entries |-> E0, positions |-> P0,
                 extensions |-> <<>>, origins |-> <<>>, originOverrides |-> <<>>]
      BY <1>2, <2>1, <2>3 DEF Fits, EmptyRegistry
    <2>5. reg.declarations = n /\ reg.entries = E0 /\ reg.positions = P0 /\ Length(reg) = n
          /\ reg.originOverrides = <<>>
      BY <1>2, <2>4 DEF Length
    <2>6. PICK N : N = <<>>
      OBVIOUS
    <2>7. IsList(N) /\ Len(N) = 0 /\ DOMAIN N = {}
      BY <2>6 DEF IsList
    <2>8. ASSUME NEW E, NEW P, EntriesFit(E, P, c), E.len = n,
                 m = [implicit |-> FALSE, declarations |-> n, entries |-> E, positions |-> P,
                      extensions |-> N, origins |-> N, originOverrides |-> N],
                 \A p \in 0..n - 1 : /\ EntryAt(E, p).id = Id("alg", p) /\ EntryAt(E, p).origin = DECLARED
                                     /\ EntryAt(E, p).rep.tag = "native"
          PROVE  /\ Fits(m, c) /\ ~m.implicit /\ Length(m) = n
                 /\ \A p \in 0..n - 1 : \A name : Reading(m, p, name) = Reading(reg, p, name)
      <3>1. /\ m.implicit = FALSE /\ m.declarations = n /\ m.entries = E /\ m.positions = P
            /\ m.extensions = N /\ m.origins = N /\ m.originOverrides = N
        BY <2>8
      <3>2. IsRegistry(m)
        BY <2>8, <3>1 DEF IsRegistry
      <3>3. TablesFit(m)
        BY <2>2, <2>7, <2>8, <3>1 DEF TablesFit
      <3>4. Fits(m, c) /\ ~m.implicit /\ Length(m) = n
        BY <2>2, <2>8, <3>1, <3>2, <3>3 DEF Fits, Length
      <3>5. ASSUME NEW p \in 0..n - 1, NEW name PROVE Reading(m, p, name) = Reading(reg, p, name)
        <4>1. PICK e, f : e = EntryOf(m, p) /\ f = EntryOf(reg, p)
          OBVIOUS
        <4>2. e.id = Id("alg", p) /\ e.origin = DECLARED /\ e.rep.tag = "native"
          BY <2>8, <3>1, <3>5, <4>1 DEF EntryOf
        <4>3. f.id = Id("alg", p) /\ f.origin = DECLARED /\ f.rep.tag = "native"
          <5>1. f = SemanticEntry(Id("alg", p), Native(NoSignature), DECLARED)
            BY <1>2, <4>1 DEF EntryOf, DeclaredScalar
          <5>2. Native(NoSignature).tag = "native"
            BY DEF Native, NoRep
          <5> QED BY <5>1, <5>2 DEF SemanticEntry
        <4>4. OriginOf(m, e, name) = Declared /\ OriginOf(reg, f, name) = Declared
          <5>1. BaseOrigin(m, e, name) = Declared /\ BaseOrigin(reg, f, name) = Declared
            <6>1. e.rep.tag # "extension" /\ f.rep.tag # "extension"
              BY <4>2, <4>3
            <6>2. BaseOrigin(m, e, name) = Declared
              BY <4>2, <6>1 DEF BaseOrigin, DECLARED, ROW_NAME, WordMax
            <6>3. BaseOrigin(reg, f, name) = Declared
              BY <4>3, <6>1 DEF BaseOrigin, DECLARED, ROW_NAME, WordMax
            <6> QED BY <6>2, <6>3
          <5>2. e.id \notin DOMAIN m.originOverrides /\ f.id \notin DOMAIN reg.originOverrides
            BY <2>5, <2>6, <2>7, <3>1
          <5> QED BY <5>1, <5>2 DEF OriginOf
        <4>5. Id("alg", p).kind # "ind"
          BY DEF Id
        <4>6. Reading(m, p, name) = NativeReading(e.id, e.rep.sig, Declared)
          BY <4>1, <4>2, <4>4 DEF Reading
        <4>7. Reading(reg, p, name) = NativeReading(f.id, f.rep.sig, Declared)
          BY <4>1, <4>3, <4>4 DEF Reading
        <4> QED BY <4>2, <4>3, <4>5, <4>6, <4>7 DEF NativeReading
      <3> QED BY <3>4, <3>5
    <2>9. CASE n = 0
      <3>1. \A k \in Kinds : c[k] = 0
        BY <2>1, <2>2, <2>9
      <3>2. EntriesFit(E0, P0, c) /\ E0.len = n
        BY <2>2, <2>3, <2>9, <3>1, NoEntries
      <3>3. m = [reg EXCEPT !.implicit = FALSE]
        BY <1>2, <2>5, <2>9 DEF Materialised
      <3>4. m = [implicit |-> FALSE, declarations |-> n, entries |-> E0, positions |-> P0,
                 extensions |-> N, origins |-> N, originOverrides |-> N]
        BY <2>4, <2>6, <3>3
      <3>5. \A p \in 0..n - 1 : FALSE
        BY <2>9
      <3> QED BY <2>5, <2>8, <3>2, <3>4, <3>5
    <2>10. CASE n # 0
      <3>1. PICK E, P : E = ScalarEntries(n) /\ P = ScalarPositions(n)
        OBVIOUS
      <3>6. /\ E = [runs |-> <<[first |-> DeclaredScalar(0), start |-> 0, len |-> n]>>,
                    overrides |-> <<>>, len |-> n]
            /\ P = [[k \in Kinds |-> <<>>] EXCEPT !["alg"] =
                      InsertRun(<<>>, [first |-> 0, position |-> 0, len |-> n])]
        BY <3>1 DEF ScalarEntries, ScalarPositions
      <3>2. n \in Nat \ {0}
        BY <2>2, <2>10
      <3>3. /\ EntriesFit(E, P, c)
            /\ \A p \in 0..n - 1 :
                 /\ EntryAt(E, p).id = Id("alg", p) /\ EntryAt(E, p).origin = DECLARED
                 /\ EntryAt(E, p).rep.tag = "native"
        <4>1. c["alg"] = n
          BY <2>1
        <4> QED BY <2>2, <3>1, <3>2, <4>1, ScalarRun
      <3>4. m = [implicit |-> FALSE, declarations |-> n, entries |-> E, positions |-> P,
                 extensions |-> N, origins |-> N, originOverrides |-> N]
        <4>1. PICK R, T : /\ R = <<[first |-> DeclaredScalar(0), start |-> 0, len |-> n]>>
                          /\ T = InsertRun(<<>>, [first |-> 0, position |-> 0, len |-> n])
          OBVIOUS
        <4>2. m = [reg EXCEPT !.implicit = FALSE, !.entries.runs = R, !.entries.len = n,
                              !.positions["alg"] = T]
          BY <1>2, <2>5, <2>10, <4>1 DEF Materialised
        <4>3. [E0 EXCEPT !.runs = R, !.len = n] = E
          <5>1. E0 = [runs |-> N, overrides |-> N, len |-> 0]
            BY <2>3, <2>6
          <5>2. [E0 EXCEPT !.runs = R, !.len = n] = [runs |-> R, overrides |-> N, len |-> n]
            <6>1. PICK Y : Y = [E0 EXCEPT !.runs = R]
              OBVIOUS
            <6>2. Y = [runs |-> R, overrides |-> N, len |-> 0]
              BY <5>1, <6>1
            <6>3. [Y EXCEPT !.len = n] = [runs |-> R, overrides |-> N, len |-> n]
              BY <6>2
            <6> QED BY <6>1, <6>3
          <5> QED BY <2>6, <3>6, <4>1, <5>2
        <4>4. [P0 EXCEPT !["alg"] = T] = P
          BY <2>3, <3>6, <4>1
        <4>5. m = [reg EXCEPT !.implicit = FALSE, !.entries = [E0 EXCEPT !.runs = R, !.len = n],
                              !.positions = [P0 EXCEPT !["alg"] = T]]
          BY <2>4, <4>2
        <4> QED BY <2>4, <2>6, <4>3, <4>4, <4>5
      <3>5. E.len = n
        BY <3>6
      <3> QED BY <2>5, <2>8, <3>3, <3>4, <3>5
    <2> QED BY <2>9, <2>10
  <1> QED BY <1>1, <1>2

-----------------------------------------------------------------------------
(* Pushing an entry                                                        *)

\* A list that holds what a list held.
Extends(X, Y) == IsList(X) /\ Len(Y) <= Len(X) /\ \A i \in 1..Len(Y) : X[i] = Y[i]

\* The tables hold what a new entry refers to: an origin, or the extension after the last.
EntryFits(e, reg, X, O) ==
    \/ e.rep.tag = "native" /\ e.origin \in {DECLARED, ROW_NAME} \cup (1..Len(O))
    \/ e.rep.tag = "extension" /\ e.rep.index = Len(reg.extensions) + 1 /\ e.rep.index \in 1..Len(X)

\* The registry with one more entry, and the tables X and O.
Grown(reg, e, X, O) ==
    [implicit |-> reg.implicit, declarations |-> reg.declarations,
     entries |-> PushEntry(reg.entries, e),
     positions |-> Placed(reg.positions, e, reg.entries.len),
     extensions |-> X, origins |-> O, originOverrides |-> reg.originOverrides]

LEMMA PushIs ==
    ASSUME NEW reg, IsRegistry(reg), NEW e
    PROVE  Push(reg, e) = Grown(reg, e, reg.extensions, reg.origins)
  <1>1. PICK k, run, E, P, Q : /\ k = e.id.kind /\ E = reg.entries /\ P = reg.positions
                               /\ run = [first |-> e.id.index, position |-> E.len, len |-> 1]
                               /\ Q = [P EXCEPT ![k] = InsertRun(P[k], run)]
    OBVIOUS
  <1>e. Q = Placed(P, e, E.len)
    BY <1>1 DEF Placed
  <1>2. Push(reg, e) = [reg EXCEPT !.positions[k] = InsertRun(@, run), !.entries = PushEntry(@, e)]
    BY <1>1 DEF Push
  <1>3. PICK x : x = [reg EXCEPT !.positions = Q]
    OBVIOUS
  <1>4. [reg EXCEPT !.positions[k] = InsertRun(@, run)] = x
    BY <1>1, <1>3
  <1>5. x = [implicit |-> reg.implicit, declarations |-> reg.declarations,
             entries |-> E, positions |-> Q, extensions |-> reg.extensions, origins |-> reg.origins,
             originOverrides |-> reg.originOverrides]
    BY <1>1, <1>3 DEF IsRegistry
  <1>6. Push(reg, e) = [x EXCEPT !.entries = PushEntry(E, e)]
    BY <1>1, <1>2, <1>4, <1>5
  <1> QED BY <1>1, <1>5, <1>6, <1>e DEF Grown

LEMMA Pushed ==
    ASSUME NEW reg, NEW c, Fits(reg, c), ~reg.implicit,
           NEW X, Extends(X, reg.extensions), \A i \in 1..Len(X) : IsStored(X[i]),
           NEW O, Extends(O, reg.origins), Len(O) <= reg.entries.len + 1,
           NEW e, IsEntry(e), e.id.index = c[e.id.kind], EntryFits(e, reg, X, O)
    PROVE  /\ Fits(Grown(reg, e, X, O), Plus(c, e.id.kind))
           /\ Length(Grown(reg, e, X, O)) = Length(reg) + 1
           /\ EntryOf(Grown(reg, e, X, O), Length(reg)) = e
           /\ e.id \notin DOMAIN reg.originOverrides
           /\ \A p \in 0..Length(reg) - 1 :
                \A name : Reading(Grown(reg, e, X, O), p, name) = Reading(reg, p, name)
  <1>n. PICK new : new = Grown(reg, e, X, O)
    OBVIOUS
  <1>1. PICK E, P, F, Q, D, m, d : /\ E = reg.entries /\ P = reg.positions /\ F = PushEntry(E, e)
                                   /\ m = E.len /\ D = reg.originOverrides
                                   /\ Q = Placed(P, e, m) /\ d = Plus(c, e.id.kind)
    OBVIOUS
  <1>2. EntriesFit(E, P, c) /\ TablesFit(reg) /\ Length(reg) = m
    BY <1>1 DEF Fits, Length
  <1>3. /\ EntriesFit(F, Q, d) /\ F.len = m + 1 /\ EntryAt(F, m) = e
        /\ \A p \in 0..m - 1 : EntryAt(F, p) = EntryAt(E, p)
    BY <1>1, <1>2, PushedId
  <1>4. m \in Nat
    BY <1>1, <1>2 DEF EntriesFit, RunsFit, Partition
  <1>5. new = [implicit |-> FALSE, declarations |-> reg.declarations, entries |-> F, positions |-> Q,
               extensions |-> X, origins |-> O, originOverrides |-> D]
    <2>1. reg.implicit = FALSE
      BY DEF Fits, IsRegistry
    <2> QED BY <1>n, <1>1, <2>1 DEF Grown
  <1>6. /\ new.implicit = FALSE /\ new.declarations = reg.declarations /\ new.entries = F
        /\ new.positions = Q /\ new.extensions = X /\ new.origins = O /\ new.originOverrides = D
    BY <1>5
  <1>7. IsRegistry(new)
    BY <1>5, <1>6 DEF IsRegistry
  <1>8. PICK x, o : x = Len(reg.extensions) /\ o = Len(reg.origins)
    OBVIOUS
  <1>9. /\ x \in Nat /\ o \in Nat /\ Len(X) \in Nat /\ Len(O) \in Nat
        /\ x <= Len(X) /\ o <= Len(O)
        /\ \A i \in 1..x : X[i] = reg.extensions[i]
        /\ \A i \in 1..o : O[i] = reg.origins[i]
    BY <1>2, <1>8, ListFacts DEF TablesFit, Extends
  <1>10. \A p \in 0..m - 1 :
           \/ /\ EntryAt(E, p).rep.tag = "native"
              /\ EntryAt(E, p).origin \in {DECLARED, ROW_NAME} \cup (1..o)
           \/ /\ EntryAt(E, p).rep.tag = "extension"
              /\ EntryAt(E, p).rep.index \in 1..x
    BY <1>1, <1>2, <1>8 DEF TablesFit
  <1>11. \A p \in 0..F.len - 1 : p \in 0..m - 1 \/ p = m
    BY <1>3, <1>4
  <1>12. TablesFit(new)
    <2>1. \A p \in 0..F.len - 1 :
             \/ /\ EntryAt(F, p).rep.tag = "native"
                /\ EntryAt(F, p).origin \in {DECLARED, ROW_NAME} \cup (1..Len(O))
             \/ /\ EntryAt(F, p).rep.tag = "extension"
                /\ EntryAt(F, p).rep.index \in 1..Len(X)
      <3>1. \A i \in 1..o : i \in 1..Len(O)
        BY <1>9
      <3>2. \A i \in 1..x : i \in 1..Len(X)
        BY <1>9
      <3> QED BY <1>3, <1>10, <1>11, <3>1, <3>2 DEF EntryFits
    <2>2. ASSUME NEW p \in 0..F.len - 1, NEW q \in 0..F.len - 1,
                 EntryAt(F, p).rep.tag = "extension", EntryAt(F, q).rep.tag = "extension",
                 EntryAt(F, p).rep.index = EntryAt(F, q).rep.index
          PROVE  p = q
      <3>1. CASE p \in 0..m - 1 /\ q \in 0..m - 1
        <4>1. EntryAt(F, p) = EntryAt(E, p) /\ EntryAt(F, q) = EntryAt(E, q)
          BY <1>3, <3>1
        <4> QED BY <1>1, <1>2, <2>2, <3>1, <4>1 DEF TablesFit
      <3>2. ASSUME NEW r \in 0..m - 1, EntryAt(F, r).rep.tag = "extension"
            PROVE  EntryAt(F, m).rep.tag = "extension" => EntryAt(F, r).rep.index # EntryAt(F, m).rep.index
        <4>1. EntryAt(F, r).rep.index \in 1..x
          BY <1>3, <1>10, <3>2
        <4>2. EntryAt(F, m).rep.tag = "extension" => EntryAt(F, m).rep.index = x + 1
          BY <1>3, <1>8 DEF EntryFits
        <4> QED BY <1>9, <4>1, <4>2
      <3> QED BY <1>11, <2>2, <3>1, <3>2
    <2>3. ASSUME NEW id \in DOMAIN D PROVE \E p \in 0..F.len - 1 : EntryAt(F, p).id = id
      <3>1. PICK p \in 0..m - 1 : EntryAt(E, p).id = id
        BY <1>1, <1>2 DEF TablesFit
      <3>2. p \in 0..F.len - 1
        BY <1>3, <1>4
      <3> QED BY <1>3, <3>1, <3>2
    <2>4. IsList(X) /\ IsList(O) /\ Len(O) <= F.len
      BY <1>1, <1>3 DEF Extends
    <2> QED BY <1>6, <2>1, <2>2, <2>3, <2>4 DEF TablesFit
  <1>13. Fits(new, d) /\ Length(new) = m + 1
    <2>1. d \in [Kinds -> Nat]
      BY <1>3 DEF EntriesFit
    <2> QED BY <1>3, <1>6, <1>7, <1>12, <2>1 DEF Fits, Length
  <1>14. EntryOf(new, m) = e
    BY <1>3, <1>6 DEF EntryOf
  <1>15. e.id \notin DOMAIN D
    <2> SUFFICES ASSUME e.id \in DOMAIN D PROVE FALSE
      OBVIOUS
    <2>1. PICK p \in 0..m - 1 : EntryAt(E, p).id = e.id
      BY <1>1, <1>2 DEF TablesFit
    <2>2. e.id.index < c[e.id.kind] /\ c[e.id.kind] \in Nat
      BY <1>1, <1>2, <2>1 DEF EntriesFit, IsEntry
    <2> QED BY <2>2
  <1>16. ASSUME NEW p \in 0..m - 1, NEW name PROVE Reading(new, p, name) = Reading(reg, p, name)
    <2>1. PICK f : f = EntryAt(E, p)
      OBVIOUS
    <2>2. EntryOf(new, p) = f /\ EntryOf(reg, p) = f
      BY <1>1, <1>3, <1>6, <2>1 DEF EntryOf
    <2>3. f.rep.tag = "extension" => X[f.rep.index] = reg.extensions[f.rep.index]
      BY <1>9, <1>10, <2>1
    <2>4. f.rep.tag # "extension" => OriginOf(new, f, name) = OriginOf(reg, f, name)
      <3> SUFFICES ASSUME f.rep.tag # "extension" PROVE OriginOf(new, f, name) = OriginOf(reg, f, name)
        OBVIOUS
      <3>1. f.origin \notin {DECLARED, ROW_NAME} => O[f.origin] = reg.origins[f.origin]
        BY <1>9, <1>10, <2>1
      <3> QED BY <1>1, <1>6, <3>1, SameOrigin
    <2> QED BY <1>6, <2>2, <2>3, <2>4, SameReading
  <1> QED BY <1>n, <1>1, <1>2, <1>13, <1>14, <1>15, <1>16

\* The three ways in which an entry refers to its origin.
OriginFits(O, o, name, origin) ==
    \/ o = DECLARED /\ origin = Declared
    \/ o = ROW_NAME /\ origin = RangeOf(name)
    \/ o \in 1..Len(O) /\ origin = O[o]

\* A registry new that holds one more constraint of kind k, read as r, and the others as before.
HasOneMore(reg, c, k, name, r, new) ==
    /\ Fits(new, Plus(c, k)) /\ Length(new) = Length(reg) + 1
    /\ Reading(new, Length(reg), name) = r
    /\ \A p \in 0..Length(reg) - 1 : \A n : Reading(new, p, n) = Reading(reg, p, n)

\* A native entry with the number o of an origin in O.
Numbered(reg, id, rep, o, O) == Push([reg EXCEPT !.origins = O], SemanticEntry(id, rep, o))

LEMMA PushedNative ==
    ASSUME NEW reg, NEW c, Fits(reg, c), ~reg.implicit, Length(reg) < MaxRecords,
           NEW k \in Kinds, NEW rep, IsRep(rep), rep.tag = "native", NEW origin, NEW name,
           NEW O, Extends(O, reg.origins), Len(O) <= reg.entries.len + 1,
           NEW o, OriginFits(O, o, name, origin)
    PROVE  HasOneMore(reg, c, k, name, NativeReading(Id(k, c[k]), rep.sig, origin),
                      Numbered(reg, Id(k, c[k]), rep, o, O))
  <1>n. PICK new : new = Numbered(reg, Id(k, c[k]), rep, o, O)
    OBVIOUS
  <1>1. PICK e, r, m : e = SemanticEntry(Id(k, c[k]), rep, o) /\ r = [reg EXCEPT !.origins = O] /\ m = Length(reg)
    OBVIOUS
  <1>2. c[k] \in Nat /\ EntriesFit(reg.entries, reg.positions, c) /\ TablesFit(reg) /\ IsRegistry(reg)
        /\ m = reg.entries.len
    BY <1>1 DEF Fits, Length
  <1>3. /\ e = [id |-> [kind |-> k, index |-> c[k]], rep |-> rep, origin |-> o]
        /\ e.id = Id(k, c[k]) /\ e.rep = rep /\ e.origin = o /\ e.id.kind = k /\ e.id.index = c[k]
    BY <1>1 DEF SemanticEntry, Id
  <1>4. IsEntry(e)
    BY <1>2, <1>3 DEF IsEntry
  <1>5. /\ r = [implicit |-> reg.implicit, declarations |-> reg.declarations, entries |-> reg.entries,
                positions |-> reg.positions, extensions |-> reg.extensions, origins |-> O,
                originOverrides |-> reg.originOverrides]
    BY <1>1, <1>2 DEF IsRegistry
  <1>6. /\ r.implicit = reg.implicit /\ r.declarations = reg.declarations /\ r.entries = reg.entries
        /\ r.positions = reg.positions /\ r.extensions = reg.extensions /\ r.origins = O
        /\ r.originOverrides = reg.originOverrides /\ IsRegistry(r)
    <2>1. /\ r.implicit = reg.implicit /\ r.declarations = reg.declarations /\ r.entries = reg.entries
          /\ r.positions = reg.positions /\ r.extensions = reg.extensions /\ r.origins = O
          /\ r.originOverrides = reg.originOverrides
      BY <1>5
    <2> QED BY <1>2, <1>5, <2>1 DEF IsRegistry
  <1>7. new = Grown(reg, e, reg.extensions, O)
    <2>1. new = Push(r, e)
      BY <1>n, <1>1 DEF Numbered
    <2>2. Push(r, e) = Grown(r, e, r.extensions, r.origins)
      BY <1>6, PushIs
    <2> QED BY <1>6, <2>1, <2>2 DEF Grown
  <1>8. Extends(reg.extensions, reg.extensions) /\ \A i \in 1..Len(reg.extensions) : IsStored(reg.extensions[i])
    <2>1. Len(reg.extensions) \in Nat
      BY <1>2, ListFacts DEF TablesFit
    <2> QED BY <1>2, <2>1 DEF Extends, TablesFit
  <1>9. EntryFits(e, reg, reg.extensions, O)
    BY <1>3 DEF EntryFits, OriginFits
  <1>10. /\ Fits(new, Plus(c, k)) /\ Length(new) = m + 1 /\ EntryOf(new, m) = e
         /\ e.id \notin DOMAIN reg.originOverrides
         /\ \A p \in 0..m - 1 : \A n : Reading(new, p, n) = Reading(reg, p, n)
    <2>1. e.id.index = c[e.id.kind]
      BY <1>3
    <2>2. /\ Fits(Grown(reg, e, reg.extensions, O), Plus(c, e.id.kind))
          /\ Length(Grown(reg, e, reg.extensions, O)) = Length(reg) + 1
          /\ EntryOf(Grown(reg, e, reg.extensions, O), Length(reg)) = e
          /\ e.id \notin DOMAIN reg.originOverrides
          /\ \A p \in 0..Length(reg) - 1 :
               \A n : Reading(Grown(reg, e, reg.extensions, O), p, n) = Reading(reg, p, n)
      BY <1>4, <1>8, <1>9, <2>1, Pushed
    <2> QED BY <1>1, <1>3, <1>7, <2>2
  <1>11. new.originOverrides = reg.originOverrides /\ new.origins = O
    BY <1>7 DEF Grown
  <1>12. Len(O) \in Nat /\ Len(O) < ROW_NAME
    <2>1. Len(O) \in Nat /\ m \in Nat
      BY <1>1, LengthIs, ListFacts DEF Extends
    <2> QED BY <1>1, <1>2, <2>1, WordAssumption DEF ROW_NAME, WordMax
  <1>13. BaseOrigin(new, e, name) = origin
    <2>1. e.rep.tag # "extension"
      BY <1>3
    <2>2. CASE o = DECLARED /\ origin = Declared
      BY <1>3, <2>1, <2>2 DEF BaseOrigin, DECLARED, ROW_NAME, WordMax
    <2>3. CASE o = ROW_NAME /\ origin = RangeOf(name)
      BY <1>3, <2>1, <2>3 DEF BaseOrigin, DECLARED, ROW_NAME, WordMax
    <2>4. CASE o \in 1..Len(O) /\ origin = O[o]
      <3>1. o # DECLARED /\ o # ROW_NAME
        BY <1>12, <2>4 DEF DECLARED, ROW_NAME, WordMax
      <3> QED BY <1>3, <1>11, <2>1, <2>4, <3>1 DEF BaseOrigin
    <2> QED BY <2>2, <2>3, <2>4 DEF OriginFits
  <1>14. OriginOf(new, e, name) = origin
    BY <1>10, <1>11, <1>13 DEF OriginOf
  <1>15. Reading(new, m, name) = NativeReading(Id(k, c[k]), rep.sig, origin)
    BY <1>3, <1>10, <1>14 DEF Reading
  <1> QED BY <1>n, <1>1, <1>10, <1>15 DEF HasOneMore

LEMMA PushedNamed ==
    ASSUME NEW reg, NEW c, Fits(reg, c), ~reg.implicit, Length(reg) < MaxRecords,
           NEW k \in Kinds, NEW rep, IsRep(rep), rep.tag = "native", NEW origin, NEW name
    PROVE  HasOneMore(reg, c, k, name, NativeReading(Id(k, c[k]), rep.sig, origin),
                      PushNamed(reg, Id(k, c[k]), rep, origin, name))
  <1>1. PICK id, O, n, new : /\ id = Id(k, c[k]) /\ O = reg.origins /\ n = Len(O)
                             /\ new = PushNamed(reg, id, rep, origin, name)
    OBVIOUS
  <1>2. IsList(O) /\ n \in Nat /\ n <= reg.entries.len /\ reg.entries.len \in Nat
    BY <1>1, ListFacts DEF Fits, TablesFit, EntriesFit, RunsFit, Partition
  <1>3. Extends(O, reg.origins) /\ Len(O) <= reg.entries.len + 1
    BY <1>1, <1>2 DEF Extends
  <1>4. reg = [reg EXCEPT !.origins = O]
    BY <1>1 DEF Fits, IsRegistry
  <1>5. ASSUME NEW o, OriginFits(O, o, name, origin), new = Push(reg, SemanticEntry(id, rep, o))
        PROVE  HasOneMore(reg, c, k, name, NativeReading(id, rep.sig, origin), new)
    <2>1. new = Numbered(reg, Id(k, c[k]), rep, o, O)
      BY <1>1, <1>4, <1>5 DEF Numbered
    <2> QED BY <1>1, <1>3, <1>5, <2>1, PushedNative
  <1>d. RangeOf(name) # Declared
    BY DEF RangeOf, Declared
  <1>6. CASE origin = RangeOf(name)
    <2>1. new = Push(reg, SemanticEntry(id, rep, ROW_NAME))
      BY <1>1, <1>6, <1>d DEF PushNamed
    <2> QED BY <1>1, <1>5, <1>6, <2>1 DEF OriginFits
  <1>7. CASE origin = Declared
    <2>1. new = Push(reg, SemanticEntry(id, rep, DECLARED))
      BY <1>1, <1>7, <1>d DEF PushNamed
    <2> QED BY <1>1, <1>5, <1>7, <2>1 DEF OriginFits
  <1>8. CASE n > 0 /\ origin.tag = "range" /\ O[n] = origin /\ origin # RangeOf(name) /\ origin # Declared
    <2>1. new = Push(reg, SemanticEntry(id, rep, n))
      BY <1>1, <1>8 DEF PushNamed
    <2>2. n \in 1..Len(O)
      BY <1>1, <1>2, <1>8
    <2> QED BY <1>1, <1>5, <1>8, <2>1, <2>2 DEF OriginFits
  <1>9. CASE ~ (n > 0 /\ origin.tag = "range" /\ O[n] = origin) /\ origin # RangeOf(name) /\ origin # Declared
    <2>1. new = Push([reg EXCEPT !.origins = Append(O, origin)], SemanticEntry(id, rep, n + 1))
      BY <1>1, <1>9 DEF PushNamed
    <2>2. PICK Q : Q = Append(O, origin)
      OBVIOUS
    <2>3. IsList(Q) /\ Len(Q) = n + 1 /\ Q[n + 1] = origin /\ \A i \in 1..n : Q[i] = O[i]
      BY <1>1, <1>2, <2>2, AppendedList
    <2>4. Extends(Q, reg.origins) /\ Len(Q) <= reg.entries.len + 1
      BY <1>1, <1>2, <2>3 DEF Extends
    <2>5. OriginFits(Q, n + 1, name, origin)
      BY <1>2, <2>3 DEF OriginFits
    <2>6. new = Numbered(reg, Id(k, c[k]), rep, n + 1, Q)
      BY <1>1, <2>1, <2>2 DEF Numbered
    <2> QED BY <1>1, <2>4, <2>5, <2>6, PushedNative
  <1> QED BY <1>6, <1>7, <1>8, <1>9

\* What an extension stores of a declaration.
StoredOf(d) == [name |-> d.name, fn |-> d.fn, set |-> d.set, origin |-> d.origin]

LEMMA PushedExtension ==
    ASSUME NEW reg, NEW c, Fits(reg, c), ~reg.implicit, NEW k \in Kinds, NEW d, NEW name
    PROVE  HasOneMore(reg, c, k, name, ExtensionReading(Id(k, c[k]), StoredOf(d)),
                      PushExtension(reg, Id(k, c[k]), d))
  <1>n. PICK new : new = PushExtension(reg, Id(k, c[k]), d)
    OBVIOUS
  <1>1. PICK e, s, x, X, m : /\ x = Len(reg.extensions) /\ m = Length(reg)
                             /\ s = [name |-> d.name, fn |-> d.fn, set |-> d.set, origin |-> d.origin]
                             /\ e = SemanticEntry(Id(k, c[k]), Extension(x + 1), DECLARED)
                             /\ X = Append(reg.extensions, s)
    OBVIOUS
  <1>2. c[k] \in Nat /\ EntriesFit(reg.entries, reg.positions, c) /\ TablesFit(reg) /\ IsRegistry(reg)
        /\ m = reg.entries.len
    BY <1>1 DEF Fits, Length
  <1>3. IsList(reg.extensions) /\ x \in Nat /\ IsList(reg.origins) /\ Len(reg.origins) \in Nat
        /\ Len(reg.origins) <= m /\ m \in Nat
    <2>1. IsList(reg.extensions) /\ IsList(reg.origins) /\ Len(reg.origins) <= m
      BY <1>2 DEF TablesFit
    <2>2. m \in Nat
      BY <1>1, LengthIs
    <2> QED BY <1>1, <2>1, <2>2, ListFacts
  <1>4. PICK rep : rep = Extension(x + 1)
    OBVIOUS
  <1>5. rep = [tag |-> "extension", sig |-> NoSignature, index |-> x + 1] /\ IsRep(rep)
        /\ rep.tag = "extension" /\ rep.index = x + 1
    <2>1. rep = [tag |-> "extension", sig |-> NoSignature, index |-> x + 1]
      <3>1. PICK r : r = [NoRep EXCEPT !.tag = "extension"]
        OBVIOUS
      <3>2. r = [tag |-> "extension", sig |-> NoSignature, index |-> 0]
        BY <3>1 DEF NoRep
      <3>3. rep = [r EXCEPT !.index = x + 1]
        BY <1>4, <3>1 DEF Extension
      <3> QED BY <3>2, <3>3
    <2>2. rep.tag = "extension" /\ rep.sig = NoSignature /\ rep.index = x + 1
      BY <2>1
    <2>3. x + 1 \in Nat
      BY <1>3
    <2> QED BY <2>1, <2>2, <2>3 DEF IsRep
  <1>6. /\ e = [id |-> [kind |-> k, index |-> c[k]], rep |-> rep, origin |-> DECLARED]
        /\ e.id = Id(k, c[k]) /\ e.rep = rep /\ e.id.kind = k /\ e.id.index = c[k]
    BY <1>1, <1>4 DEF SemanticEntry, Id
  <1>7. IsEntry(e)
    BY <1>2, <1>5, <1>6 DEF IsEntry
  <1>8. IsList(X) /\ Len(X) = x + 1 /\ X[x + 1] = s /\ \A i \in 1..x : X[i] = reg.extensions[i]
    BY <1>1, <1>3, AppendedList
  <1>9. Extends(X, reg.extensions) /\ \A i \in 1..Len(X) : IsStored(X[i])
    <2>1. IsStored(s)
      <3>1. s.name = d.name /\ s.fn = d.fn /\ s.set = d.set /\ s.origin = d.origin
        BY <1>1
      <3> QED BY <1>1, <3>1 DEF IsStored
    <2>2. \A i \in 1..x : IsStored(reg.extensions[i])
      BY <1>1, <1>2 DEF TablesFit
    <2>3. \A i \in 1..x + 1 : i \in 1..x \/ i = x + 1
      BY <1>3
    <2>4. \A i \in 1..Len(X) : IsStored(X[i])
      BY <1>8, <2>1, <2>2, <2>3
    <2> QED BY <1>1, <1>3, <1>8, <2>4 DEF Extends
  <1>10. Extends(reg.origins, reg.origins) /\ Len(reg.origins) <= reg.entries.len + 1
    BY <1>2, <1>3 DEF Extends
  <1>11. EntryFits(e, reg, X, reg.origins)
    BY <1>1, <1>3, <1>5, <1>6, <1>8 DEF EntryFits
  <1>12. PICK g : g = Grown(reg, e, X, reg.origins)
    OBVIOUS
  <1>13. /\ Fits(g, Plus(c, k)) /\ Length(g) = m + 1 /\ EntryOf(g, m) = e
         /\ \A p \in 0..m - 1 : \A n : Reading(g, p, n) = Reading(reg, p, n)
    <2>1. e.id.index = c[e.id.kind]
      BY <1>6
    <2>2. /\ Fits(Grown(reg, e, X, reg.origins), Plus(c, e.id.kind))
          /\ Length(Grown(reg, e, X, reg.origins)) = Length(reg) + 1
          /\ EntryOf(Grown(reg, e, X, reg.origins), Length(reg)) = e
          /\ \A p \in 0..Length(reg) - 1 :
               \A n : Reading(Grown(reg, e, X, reg.origins), p, n) = Reading(reg, p, n)
      BY <1>7, <1>9, <1>10, <1>11, <2>1, Pushed
    <2> QED BY <1>1, <1>6, <1>12, <2>2
  <1>14. new = g
    <2>1. PICK y : y = Grown(reg, e, reg.extensions, reg.origins)
      OBVIOUS
    <2>2. Push(reg, e) = y
      BY <1>2, <2>1, PushIs
    <2>3. new = [y EXCEPT !.extensions = Append(y.extensions, s)]
      BY <1>n, <1>1, <2>2 DEF PushExtension
    <2>4. y.extensions = reg.extensions
      BY <2>1 DEF Grown
    <2>5. new = [y EXCEPT !.extensions = X]
      BY <1>1, <2>3, <2>4
    <2> QED BY <1>12, <2>1, <2>5 DEF Grown
  <1>15. g.extensions = X
    BY <1>12 DEF Grown
  <1>16. Reading(g, m, name) = ExtensionReading(Id(k, c[k]), s)
    BY <1>5, <1>6, <1>8, <1>13, <1>15 DEF Reading
  <1> QED BY <1>n, <1>1, <1>13, <1>14, <1>16 DEF HasOneMore, StoredOf

-----------------------------------------------------------------------------
(* Recording a declaration                                                 *)

LEMMA RepresentationIs ==
    ASSUME NEW k, NEW fn, NEW set
    PROVE  /\ fn.kind = "custom" => Representation(k, fn, set) = NoRep
           /\ fn.kind # "custom" =>
                /\ Representation(k, fn, set) # NoRep /\ IsRep(Representation(k, fn, set))
                /\ Representation(k, fn, set).tag = "native"
                /\ k = "ind" => Representation(k, fn, set).sig = Signature(fn, set)
  <1>1. CASE fn.kind = "custom"
    BY <1>1 DEF Representation
  <1>2. CASE fn.kind # "custom"
    <2>1. PICK g, r : g = (IF k = "ind" THEN Signature(fn, set) ELSE NoSignature) /\ r = Native(g)
      OBVIOUS
    <2>2. r = [tag |-> "native", sig |-> g, index |-> 0]
      <3>1. PICK y : y = [NoRep EXCEPT !.tag = "native"]
        OBVIOUS
      <3>2. y = [tag |-> "native", sig |-> NoSignature, index |-> 0]
        BY <3>1 DEF NoRep
      <3>3. r = [y EXCEPT !.sig = g]
        BY <2>1, <3>1 DEF Native
      <3> QED BY <3>2, <3>3
    <2>3. r.tag = "native" /\ r.sig = g /\ r.index = 0
      BY <2>2
    <2>4. IsRep(r) /\ r # NoRep
      BY <2>2, <2>3 DEF IsRep, NoRep
    <2>5. Representation(k, fn, set) = r
      BY <1>2, <2>1 DEF Representation
    <2> QED BY <1>2, <2>1, <2>3, <2>4, <2>5
  <1> QED BY <1>1, <1>2

\* A declaration that a native row reproduces.
IsDirect(d) == d.fn.kind # "custom" /\ ~IsAlternative(d)

\* What a reader then takes from the registry.
DeclaredReading(id, d) ==
    IF IsDirect(d) THEN NativeReading(id, Signature(d.fn, d.set), d.origin)
    ELSE ExtensionReading(id, StoredOf(d))

LEMMA RecordedOne ==
    ASSUME NEW reg, NEW c, Fits(reg, c), Length(reg) < MaxRecords,
           NEW d, d.kind \in Kinds
    PROVE  HasOneMore(reg, c, d.kind, d.name, DeclaredReading(Id(d.kind, c[d.kind]), d),
                      Record(reg, Id(d.kind, c[d.kind]), d))
  <1>n. PICK new : new = Record(reg, Id(d.kind, c[d.kind]), d)
    OBVIOUS
  <1>1. PICK k, id, rep, m, mat : /\ k = d.kind /\ id = Id(k, c[k]) /\ m = Length(reg)
                                  /\ rep = Representation(k, d.fn, d.set) /\ mat = Materialised(reg)
    OBVIOUS
  <1>2. /\ Fits(mat, c) /\ ~mat.implicit /\ Length(mat) = m
        /\ \A p \in 0..m - 1 : \A n : Reading(mat, p, n) = Reading(reg, p, n)
    BY <1>1, MaterialisedFits
  <1>3. /\ rep # NoRep <=> d.fn.kind # "custom"
        /\ d.fn.kind # "custom" => IsRep(rep) /\ rep.tag = "native" /\ (k = "ind" => rep.sig = Signature(d.fn, d.set))
    BY <1>1, RepresentationIs
  <1>4. PICK plain \in BOOLEAN : plain <=> reg.implicit /\ k = "alg" /\ d.origin = Declared
    OBVIOUS
  <1>5. k \in Kinds /\ c[k] \in Nat /\ id.kind = k /\ id.index = c[k]
    BY <1>1 DEF Fits, Id
  <1>6. CASE IsDirect(d) /\ ~plain
    <2>1. new = PushNamed(mat, id, rep, d.origin, d.name)
      BY <1>n, <1>1, <1>3, <1>4, <1>6 DEF Record, IsDirect
    <2>2. /\ Fits(new, Plus(c, k)) /\ Length(new) = m + 1
          /\ Reading(new, m, d.name) = NativeReading(id, rep.sig, d.origin)
          /\ \A p \in 0..m - 1 : \A n : Reading(new, p, n) = Reading(mat, p, n)
      <3>1. IsRep(rep) /\ rep.tag = "native"
        BY <1>3, <1>6 DEF IsDirect
      <3>2. Length(mat) < MaxRecords
        BY <1>1, <1>2
      <3>3. HasOneMore(mat, c, k, d.name, NativeReading(id, rep.sig, d.origin), new)
        BY <1>1, <1>2, <1>5, <2>1, <3>1, <3>2, PushedNamed
      <3> QED BY <1>2, <3>3 DEF HasOneMore
    <2>3. NativeReading(id, rep.sig, d.origin) = NativeReading(id, Signature(d.fn, d.set), d.origin)
      BY <1>3, <1>5, <1>6 DEF NativeReading, IsDirect
    <2> QED BY <1>n, <1>1, <1>2, <1>6, <2>2, <2>3 DEF DeclaredReading, HasOneMore
  <1>7. CASE ~IsDirect(d)
    <2>1. new = PushExtension(mat, id, d)
      BY <1>n, <1>1, <1>3, <1>7 DEF Record, IsDirect
    <2>2. HasOneMore(mat, c, k, d.name, ExtensionReading(id, StoredOf(d)), new)
      BY <1>1, <1>2, <1>5, <2>1, PushedExtension
    <2> QED BY <1>n, <1>1, <1>2, <1>7, <2>2 DEF DeclaredReading, HasOneMore
  <1>8. CASE IsDirect(d) /\ plain
    <2>1. new = [reg EXCEPT !.declarations = c["alg"] + 1]
      BY <1>n, <1>1, <1>3, <1>4, <1>5, <1>8 DEF Record, IsDirect
    <2>2. reg.implicit /\ k = "alg" /\ d.origin = Declared
      BY <1>4, <1>8
    <2>3. reg = [EmptyRegistry EXCEPT !.declarations = c["alg"]] /\ m = c["alg"]
      BY <1>1, <2>2 DEF Fits, Length, EmptyRegistry
    <2>4. PICK f : f = Plus(c, k)
      OBVIOUS
    <2>5. f \in [Kinds -> Nat] /\ f["alg"] = c["alg"] + 1 /\ \A j \in Kinds : j # "alg" => f[j] = c[j]
      BY <1>5, <2>2, <2>4 DEF Plus, Fits
    <2>6. new = [EmptyRegistry EXCEPT !.declarations = f["alg"]]
      BY <2>1, <2>3, <2>5 DEF EmptyRegistry
    <2>7. /\ new.implicit = TRUE /\ new.declarations = c["alg"] + 1
          /\ new.originOverrides = reg.originOverrides /\ IsRegistry(new)
      <3>1. /\ new.implicit = TRUE /\ new.declarations = c["alg"] + 1 /\ new.originOverrides = <<>>
            /\ reg.originOverrides = <<>>
        BY <2>3, <2>5, <2>6 DEF EmptyRegistry
      <3>2. IsRegistry(new)
        BY <2>6 DEF EmptyRegistry, IsRegistry
      <3> QED BY <3>1, <3>2
    <2>8. Fits(new, f) /\ Length(new) = m + 1
      BY <2>2, <2>3, <2>5, <2>6, <2>7 DEF Fits, Length
    <2>9. ASSUME NEW p, NEW n PROVE Reading(new, p, n) = NativeReading(Id("alg", p), NoSignature, Declared)
      <3>1. PICK e : e = DeclaredScalar(p)
        OBVIOUS
      <3>2. e.id = Id("alg", p) /\ e.origin = DECLARED /\ e.rep = Native(NoSignature)
        BY <3>1 DEF DeclaredScalar, SemanticEntry
      <3>3. e.rep.tag = "native"
        BY <3>2 DEF Native, NoRep
      <3>4. PICK N : N = <<>>
        OBVIOUS
      <3>5. new.originOverrides = N /\ DOMAIN N = {}
        BY <2>3, <2>7, <3>4 DEF EmptyRegistry
      <3>6. OriginOf(new, e, n) = Declared
        <4>1. BaseOrigin(new, e, n) = Declared
          BY <3>2, <3>3 DEF BaseOrigin, DECLARED, ROW_NAME, WordMax
        <4> QED BY <3>5, <4>1 DEF OriginOf
      <3>7. EntryOf(new, p) = e
        BY <2>7, <3>1 DEF EntryOf
      <3> QED BY <3>2, <3>3, <3>6, <3>7 DEF Reading, NativeReading, Id
    <2>10. ASSUME NEW p, NEW n PROVE Reading(reg, p, n) = NativeReading(Id("alg", p), NoSignature, Declared)
      <3>1. PICK e : e = DeclaredScalar(p)
        OBVIOUS
      <3>2. e.id = Id("alg", p) /\ e.origin = DECLARED /\ e.rep = Native(NoSignature)
        BY <3>1 DEF DeclaredScalar, SemanticEntry
      <3>3. e.rep.tag = "native"
        BY <3>2 DEF Native, NoRep
      <3>4. PICK N : N = <<>>
        OBVIOUS
      <3>5. reg.originOverrides = N /\ DOMAIN N = {}
        BY <2>3, <3>4 DEF EmptyRegistry
      <3>6. OriginOf(reg, e, n) = Declared
        <4>1. BaseOrigin(reg, e, n) = Declared
          BY <3>2, <3>3 DEF BaseOrigin, DECLARED, ROW_NAME, WordMax
        <4> QED BY <3>5, <4>1 DEF OriginOf
      <3>7. EntryOf(reg, p) = e
        BY <2>2, <3>1 DEF EntryOf
      <3> QED BY <3>2, <3>3, <3>6, <3>7 DEF Reading, NativeReading, Id
    <2>11. DeclaredReading(id, d) = NativeReading(Id("alg", m), NoSignature, Declared)
      BY <1>1, <1>8, <2>2, <2>3 DEF DeclaredReading, NativeReading, Id
    <2> QED BY <1>n, <1>1, <2>2, <2>4, <2>8, <2>9, <2>10, <2>11 DEF HasOneMore
  <1> QED BY <1>6, <1>7, <1>8

-----------------------------------------------------------------------------
(* Editing an entry                                                        *)

\* The registry with other entries, extensions and overridden origins.
Amended(reg, F, X, D) ==
    [implicit |-> reg.implicit, declarations |-> reg.declarations, entries |-> F,
     positions |-> reg.positions, extensions |-> X, origins |-> reg.origins, originOverrides |-> D]

\* The entry f at p after an edit, where it was e: it is native, or refers to the
\* extension it had, or to a new one.
Refers(reg, e, f, X) ==
    \/ f.rep.tag = "native" /\ e.rep.tag = "native" /\ f.origin = e.origin
    \/ f.rep.tag = "extension" /\ e.rep.tag = "extension" /\ f.rep.index = e.rep.index
    \/ /\ f.rep.tag = "extension" /\ f.rep.index = Len(reg.extensions) + 1
       /\ Len(X) = Len(reg.extensions) + 1

\* The extensions X differ at most in the one that e refers to.
SparesOthers(reg, e, X) ==
    /\ IsList(X) /\ Len(reg.extensions) <= Len(X) /\ \A i \in 1..Len(X) : IsStored(X[i])
    /\ \A i \in 1..Len(reg.extensions) :
         X[i] = reg.extensions[i] \/ (e.rep.tag = "extension" /\ e.rep.index = i)

\* The overridden origins D differ at most at id.
SameOverrides(reg, id, D) ==
    \A i : i # id => /\ i \in DOMAIN D <=> i \in DOMAIN reg.originOverrides
                     /\ i \in DOMAIN D => D[i] = reg.originOverrides[i]

\* A registry new in which the constraint at p is read as r, and the others as before.
HasChanged(reg, c, p, name, r, new) ==
    /\ Fits(new, c) /\ Length(new) = Length(reg) /\ Reading(new, p, name) = r
    /\ \A q \in 0..Length(reg) - 1 : q # p => \A n : Reading(new, q, n) = Reading(reg, q, n)

LEMMA DistinctIds ==
    ASSUME NEW E, NEW P, NEW c, EntriesFit(E, P, c),
           NEW p \in 0..E.len - 1, NEW q \in 0..E.len - 1, EntryAt(E, p).id = EntryAt(E, q).id
    PROVE  p = q
  <1>1. {p} = {q}
    BY DEF EntriesFit
  <1> QED BY <1>1

\* An edit of the entry e at p.
Amends(reg, c, p, e, F, X, D) ==
    /\ Fits(reg, c) /\ ~reg.implicit /\ p \in 0..Length(reg) - 1 /\ e = EntryOf(reg, p)
    /\ EntriesFit(F, reg.positions, c) /\ F.len = reg.entries.len /\ EntryAt(F, p).id = e.id
    /\ \A q \in 0..Length(reg) - 1 : q # p => EntryAt(F, q) = EntryAt(reg.entries, q)
    /\ SparesOthers(reg, e, X) /\ Refers(reg, e, EntryAt(F, p), X) /\ SameOverrides(reg, e.id, D)

LEMMA AmendedFits ==
    ASSUME NEW reg, NEW c, NEW p, NEW e, NEW F, NEW X, NEW D, Amends(reg, c, p, e, F, X, D)
    PROVE  /\ Fits(Amended(reg, F, X, D), c) /\ Length(Amended(reg, F, X, D)) = Length(reg)
           /\ EntryOf(Amended(reg, F, X, D), p) = EntryAt(F, p)
           /\ \A q \in 0..Length(reg) - 1 : q # p =>
                \A n : Reading(Amended(reg, F, X, D), q, n) = Reading(reg, q, n)
  <1>1. PICK E, m, x, o, O, Y, f, new : /\ E = reg.entries /\ m = Length(reg) /\ Y = reg.extensions
                                        /\ x = Len(Y) /\ O = reg.origins /\ o = Len(O)
                                        /\ f = EntryAt(F, p) /\ new = Amended(reg, F, X, D)
    OBVIOUS
  <1>a. /\ Fits(reg, c) /\ ~reg.implicit /\ p \in 0..Length(reg) - 1 /\ e = EntryOf(reg, p)
        /\ EntriesFit(F, reg.positions, c) /\ F.len = reg.entries.len /\ EntryAt(F, p).id = e.id
        /\ \A q \in 0..Length(reg) - 1 : q # p => EntryAt(F, q) = EntryAt(reg.entries, q)
        /\ SparesOthers(reg, e, X) /\ Refers(reg, e, EntryAt(F, p), X) /\ SameOverrides(reg, e.id, D)
    BY DEF Amends
  <1>2. /\ EntriesFit(E, reg.positions, c) /\ TablesFit(reg) /\ m = E.len /\ IsRegistry(reg)
        /\ reg.implicit = FALSE /\ c \in [Kinds -> Nat]
    BY <1>a, <1>1 DEF Fits, Length, IsRegistry
  <1>3. m \in Nat /\ p \in 0..m - 1 /\ F.len = m
    BY <1>a, <1>1, <1>2 DEF EntriesFit, RunsFit, Partition
  <1>4. e = EntryAt(E, p)
    BY <1>a, <1>1 DEF EntryOf
  <1>5. \A q \in 0..m - 1 : q # p => EntryAt(F, q) = EntryAt(E, q)
    BY <1>a, <1>1
  <1>6. IsList(Y) /\ x \in Nat /\ IsList(O) /\ o \in Nat /\ o <= m
    <2>1. IsList(Y) /\ IsList(O) /\ o <= m
      BY <1>a, <1>1, <1>2 DEF TablesFit
    <2> QED BY <1>a, <1>1, <2>1, ListFacts
  <1>7. \A q \in 0..m - 1 :
          \/ /\ EntryAt(E, q).rep.tag = "native"
             /\ EntryAt(E, q).origin \in {DECLARED, ROW_NAME} \cup (1..o)
          \/ /\ EntryAt(E, q).rep.tag = "extension"
             /\ EntryAt(E, q).rep.index \in 1..x
    BY <1>a, <1>1, <1>2 DEF TablesFit
  <1>8. \A q, r \in 0..m - 1 :
          /\ EntryAt(E, q).rep.tag = "extension" /\ EntryAt(E, r).rep.tag = "extension"
          /\ EntryAt(E, q).rep.index = EntryAt(E, r).rep.index
          => q = r
    BY <1>a, <1>1, <1>2 DEF TablesFit
  <1>9. IsList(X) /\ Len(X) \in Nat /\ x <= Len(X)
        /\ \A i \in 1..x : X[i] = Y[i] \/ (e.rep.tag = "extension" /\ e.rep.index = i)
    BY <1>a, <1>1, ListFacts DEF SparesOthers
  <1>10. new = [implicit |-> reg.implicit, declarations |-> reg.declarations, entries |-> F,
                positions |-> reg.positions, extensions |-> X, origins |-> O, originOverrides |-> D]
    BY <1>a, <1>1 DEF Amended
  <1>11. /\ new.implicit = FALSE /\ new.declarations = reg.declarations /\ new.entries = F
         /\ new.positions = reg.positions /\ new.extensions = X /\ new.origins = O /\ new.originOverrides = D
    BY <1>a, <1>2, <1>10
  <1>12. IsRegistry(new)
    BY <1>a, <1>2, <1>10, <1>11 DEF IsRegistry
  <1>13. \A i \in 1..x : i \in 1..Len(X)
    BY <1>a, <1>6, <1>9
  <1>14. \/ f.rep.tag = "native" /\ f.origin \in {DECLARED, ROW_NAME} \cup (1..o)
         \/ f.rep.tag = "extension" /\ f.rep.index \in 1..Len(X)
    <2>1. CASE f.rep.tag = "native" /\ e.rep.tag = "native" /\ f.origin = e.origin
      BY <1>a, <1>3, <1>4, <1>7, <2>1
    <2>2. CASE f.rep.tag = "extension" /\ e.rep.tag = "extension" /\ f.rep.index = e.rep.index
      BY <1>a, <1>3, <1>4, <1>7, <1>13, <2>2
    <2>3. CASE f.rep.tag = "extension" /\ f.rep.index = x + 1 /\ Len(X) = x + 1
      BY <1>a, <1>6, <2>3
    <2> QED BY <1>a, <1>1, <2>1, <2>2, <2>3 DEF Refers
  <1>15. ASSUME NEW q \in 0..m - 1, q # p, EntryAt(E, q).rep.tag = "extension", f.rep.tag = "extension"
         PROVE  EntryAt(E, q).rep.index # f.rep.index
    <2>1. CASE e.rep.tag = "extension" /\ f.rep.index = e.rep.index
      BY <1>a, <1>3, <1>4, <1>8, <1>15, <2>1
    <2>2. CASE f.rep.index = x + 1
      <3>1. EntryAt(E, q).rep.index \in 1..x
        BY <1>a, <1>7, <1>15
      <3> QED BY <1>a, <1>6, <2>2, <3>1
    <2> QED BY <1>a, <1>1, <1>15, <2>1, <2>2 DEF Refers
  <1>16. TablesFit(new)
    <2>1. \A i \in 1..Len(X) : IsStored(X[i])
      BY <1>a DEF SparesOthers
    <2>2. \A q \in 0..m - 1 :
            \/ /\ EntryAt(F, q).rep.tag = "native"
               /\ EntryAt(F, q).origin \in {DECLARED, ROW_NAME} \cup (1..o)
            \/ /\ EntryAt(F, q).rep.tag = "extension"
               /\ EntryAt(F, q).rep.index \in 1..Len(X)
      BY <1>a, <1>1, <1>5, <1>7, <1>13, <1>14
    <2>3. \A q, r \in 0..m - 1 :
            /\ EntryAt(F, q).rep.tag = "extension" /\ EntryAt(F, r).rep.tag = "extension"
            /\ EntryAt(F, q).rep.index = EntryAt(F, r).rep.index
            => q = r
      <3> SUFFICES ASSUME NEW q \in 0..m - 1, NEW r \in 0..m - 1, q # r,
                          EntryAt(F, q).rep.tag = "extension", EntryAt(F, r).rep.tag = "extension"
                   PROVE  EntryAt(F, q).rep.index # EntryAt(F, r).rep.index
        OBVIOUS
      <3>1. CASE q = p
        BY <1>a, <1>1, <1>5, <1>15, <3>1
      <3>2. CASE r = p
        BY <1>a, <1>1, <1>5, <1>15, <3>2
      <3>3. CASE q # p /\ r # p
        BY <1>a, <1>5, <1>8, <3>3
      <3> QED BY <1>a, <3>1, <3>2, <3>3
    <2>4. ASSUME NEW id \in DOMAIN D PROVE \E q \in 0..m - 1 : EntryAt(F, q).id = id
      <3>1. CASE id = e.id
        BY <1>a, <1>3, <3>1
      <3>2. CASE id # e.id
        <4>1. id \in DOMAIN reg.originOverrides
          BY <1>a, <3>2, <2>4 DEF SameOverrides
        <4>2. PICK q \in 0..m - 1 : EntryAt(E, q).id = id
          BY <1>a, <1>1, <1>2, <4>1 DEF TablesFit
        <4>3. q # p
          BY <1>a, <1>4, <3>2, <4>2
        <4> QED BY <1>a, <1>5, <4>2, <4>3
      <3> QED BY <1>a, <3>1, <3>2
    <2> QED BY <1>a, <1>1, <1>3, <1>6, <1>9, <1>11, <2>1, <2>2, <2>3, <2>4 DEF TablesFit
  <1>17. Fits(new, c) /\ Length(new) = m
    BY <1>a, <1>2, <1>3, <1>11, <1>12, <1>16 DEF Fits, Length
  <1>18. EntryOf(new, p) = f
    BY <1>a, <1>1, <1>11 DEF EntryOf
  <1>19. ASSUME NEW q \in 0..m - 1, q # p, NEW n PROVE Reading(new, q, n) = Reading(reg, q, n)
    <2>1. PICK g : g = EntryAt(E, q)
      OBVIOUS
    <2>2. EntryOf(new, q) = g /\ EntryOf(reg, q) = g
      BY <1>a, <1>1, <1>5, <1>11, <1>19, <2>1 DEF EntryOf
    <2>3. g.id # e.id
      BY <1>a, <1>2, <1>3, <1>4, <1>19, <2>1, DistinctIds
    <2>4. g.rep.tag = "extension" => X[g.rep.index] = Y[g.rep.index]
      <3> SUFFICES ASSUME g.rep.tag = "extension" PROVE X[g.rep.index] = Y[g.rep.index]
        OBVIOUS
      <3>1. g.rep.index \in 1..x
        BY <1>a, <1>7, <2>1
      <3>2. ~ (e.rep.tag = "extension" /\ e.rep.index = g.rep.index)
        BY <1>a, <1>3, <1>4, <1>8, <1>19, <2>1
      <3> QED BY <1>a, <1>9, <3>1, <3>2
    <2>5. g.rep.tag # "extension" => OriginOf(new, g, n) = OriginOf(reg, g, n)
      <3>1. /\ g.id \in DOMAIN D <=> g.id \in DOMAIN reg.originOverrides
            /\ g.id \in DOMAIN D => D[g.id] = reg.originOverrides[g.id]
        BY <1>a, <2>3 DEF SameOverrides
      <3> QED BY <1>a, <1>1, <1>11, <3>1, SameOrigin
    <2> QED BY <1>a, <1>1, <1>11, <2>2, <2>4, <2>5, SameReading
  <1> QED BY <1>a, <1>1, <1>17, <1>18, <1>19

\* What is read of a constraint that is given an origin.
Redirected(r, origin) ==
    IF r.tag = "extension"
    THEN ExtensionReading(r.id, [name |-> r.stored.name, fn |-> r.stored.fn, set |-> r.stored.set,
                                 origin |-> origin])
    ELSE NativeReading(r.id, r.sig, origin)

LEMMA WithOriginFits ==
    ASSUME NEW reg, NEW c, Fits(reg, c), ~reg.implicit, NEW p \in 0..Length(reg) - 1, NEW origin, NEW name
    PROVE  HasChanged(reg, c, p, name, Redirected(Reading(reg, p, name), origin),
                      WithOrigin(reg, p, origin, name))
  <1>1. PICK E, e, X, D, r, new, i : /\ E = reg.entries /\ e = EntryAt(E, p) /\ X = reg.extensions
                                     /\ D = reg.originOverrides /\ r = Reading(reg, p, name)
                                     /\ new = WithOrigin(reg, p, origin, name) /\ i = e.rep.index
    OBVIOUS
  <1>2. /\ EntriesFit(E, reg.positions, c) /\ TablesFit(reg) /\ Length(reg) = E.len /\ IsRegistry(reg)
        /\ e = EntryOf(reg, p)
    BY <1>1 DEF Fits, Length, EntryOf
  <1>3. IsList(X) /\ Len(X) \in Nat /\ DOMAIN X = 1..Len(X) /\ \A j \in 1..Len(X) : IsStored(X[j])
    BY <1>1, <1>2, ListFacts DEF TablesFit
  <1>4. \/ e.rep.tag = "native"
        \/ e.rep.tag = "extension" /\ i \in 1..Len(X)
    BY <1>1, <1>2 DEF TablesFit
  <1>5. CASE e.rep.tag = "extension"
    <2>1. PICK s, Y : s = [X[i] EXCEPT !.origin = origin] /\ Y = [X EXCEPT ![i] = s]
      OBVIOUS
    <2>2. i \in 1..Len(X) /\ IsStored(X[i])
      BY <1>3, <1>4, <1>5
    <2>3. s = [name |-> X[i].name, fn |-> X[i].fn, set |-> X[i].set, origin |-> origin] /\ IsStored(s)
      <3>1. s = [name |-> X[i].name, fn |-> X[i].fn, set |-> X[i].set, origin |-> origin]
        BY <2>1, <2>2 DEF IsStored
      <3>2. s.name = X[i].name /\ s.fn = X[i].fn /\ s.set = X[i].set /\ s.origin = origin
        BY <3>1
      <3> QED BY <3>1, <3>2 DEF IsStored
    <2>4. DOMAIN Y = 1..Len(X) /\ Y = [j \in 1..Len(X) |-> Y[j]] /\ Y[i] = s
          /\ \A j \in 1..Len(X) : j # i => Y[j] = X[j]
      BY <1>3, <2>1, <2>2
    <2>5. IsList(Y) /\ Len(Y) = Len(X)
      BY <1>3, <2>4, ListOf
    <2>6. SparesOthers(reg, e, Y)
      <3>1. \A j \in 1..Len(X) : IsStored(Y[j]) /\ (Y[j] = X[j] \/ j = i)
        BY <1>3, <2>3, <2>4
      <3> QED BY <1>1, <1>3, <1>5, <2>5, <3>1 DEF SparesOthers
    <2>7. Refers(reg, e, EntryAt(E, p), Y) /\ SameOverrides(reg, e.id, D)
      BY <1>1, <1>5 DEF Refers, SameOverrides
    <2>8. new = Amended(reg, E, Y, D)
      <3>1. new = [reg EXCEPT !.extensions[i].origin = origin]
        BY <1>1, <1>5 DEF WithOrigin
      <3>2. new = [reg EXCEPT !.extensions = Y]
        BY <1>1, <2>1, <3>1
      <3> QED BY <1>1, <1>2, <3>2 DEF IsRegistry, Amended
    <2>9. /\ Fits(new, c) /\ Length(new) = Length(reg) /\ EntryOf(new, p) = e
          /\ \A q \in 0..Length(reg) - 1 : q # p => \A n : Reading(new, q, n) = Reading(reg, q, n)
      <3>1. EntryAt(E, p).id = e.id /\ E.len = reg.entries.len
            /\ \A q \in 0..Length(reg) - 1 : q # p => EntryAt(E, q) = EntryAt(reg.entries, q)
        BY <1>1
      <3>9. Amends(reg, c, p, e, E, Y, D)
        BY <1>1, <1>2, <2>6, <2>7, <2>8, <3>1 DEF Amends
      <3>10. /\ Fits(Amended(reg, E, Y, D), c) /\ Length(Amended(reg, E, Y, D)) = Length(reg)
             /\ EntryOf(Amended(reg, E, Y, D), p) = EntryAt(E, p)
             /\ \A q \in 0..Length(reg) - 1 : q # p =>
                  \A n : Reading(Amended(reg, E, Y, D), q, n) = Reading(reg, q, n)
        BY <3>9, AmendedFits
      <3> QED BY <1>1, <2>6, <2>7, <2>8, <3>10
    <2>10. new.extensions = Y
      BY <2>8 DEF Amended
    <2>11. r = ExtensionReading(e.id, X[i]) /\ Reading(new, p, name) = ExtensionReading(e.id, s)
      BY <1>1, <1>2, <1>5, <2>4, <2>9, <2>10 DEF Reading
    <2>12. r.tag = "extension" /\ r.id = e.id /\ r.stored = X[i]
      BY <2>11 DEF ExtensionReading
    <2>13. Redirected(r, origin) = ExtensionReading(e.id, s)
      BY <2>3, <2>12 DEF Redirected
    <2> QED BY <1>1, <2>9, <2>11, <2>13 DEF HasChanged
  <1>6. CASE e.rep.tag = "native"
    <2>1. PICK B, F : /\ B = BaseOrigin(reg, e, name)
                      /\ F = IF B = origin THEN Forget(D, e.id) ELSE Remember(D, e.id, origin)
      OBVIOUS
    <2>2. new = Amended(reg, E, X, F)
      <3>1. new = [reg EXCEPT !.originOverrides = F]
        BY <1>1, <1>6, <2>1 DEF WithOrigin
      <3> QED BY <1>1, <1>2, <3>1 DEF IsRegistry, Amended
    <2>3. /\ B = origin => e.id \notin DOMAIN F
          /\ B # origin => e.id \in DOMAIN F /\ F[e.id] = origin
          /\ SameOverrides(reg, e.id, F)
      <3>1. CASE B = origin
        BY <1>1, <2>1, <3>1 DEF Forget, Restrict, SameOverrides
      <3>2. CASE B # origin
        BY <1>1, <2>1, <3>2 DEF Remember, SameOverrides
      <3> QED BY <3>1, <3>2
    <2>4. SparesOthers(reg, e, X) /\ Refers(reg, e, EntryAt(E, p), X)
      BY <1>1, <1>3, <1>6 DEF SparesOthers, Refers
    <2>5. /\ Fits(new, c) /\ Length(new) = Length(reg) /\ EntryOf(new, p) = e
          /\ \A q \in 0..Length(reg) - 1 : q # p => \A n : Reading(new, q, n) = Reading(reg, q, n)
      <3>1. EntryAt(E, p).id = e.id /\ E.len = reg.entries.len
            /\ \A q \in 0..Length(reg) - 1 : q # p => EntryAt(E, q) = EntryAt(reg.entries, q)
        BY <1>1
      <3>9. Amends(reg, c, p, e, E, X, F)
        BY <1>1, <1>2, <2>2, <2>3, <2>4, <3>1 DEF Amends
      <3>10. /\ Fits(Amended(reg, E, X, F), c) /\ Length(Amended(reg, E, X, F)) = Length(reg)
             /\ EntryOf(Amended(reg, E, X, F), p) = EntryAt(E, p)
             /\ \A q \in 0..Length(reg) - 1 : q # p =>
                  \A n : Reading(Amended(reg, E, X, F), q, n) = Reading(reg, q, n)
        BY <3>9, AmendedFits
      <3> QED BY <1>1, <2>2, <2>3, <2>4, <3>10
    <2>6. new.originOverrides = F /\ new.origins = reg.origins
      BY <2>2 DEF Amended
    <2>7. BaseOrigin(new, e, name) = B
      BY <1>6, <2>1, <2>6 DEF BaseOrigin
    <2>8. OriginOf(new, e, name) = origin
      BY <2>3, <2>6, <2>7 DEF OriginOf
    <2>9. r = NativeReading(e.id, e.rep.sig, OriginOf(reg, e, name))
          /\ Reading(new, p, name) = NativeReading(e.id, e.rep.sig, origin)
      BY <1>1, <1>2, <1>6, <2>5, <2>8 DEF Reading
    <2>10. r.tag = "native" /\ r.id = e.id /\ r.sig = IF e.id.kind = "ind" THEN e.rep.sig ELSE NoSignature
      BY <2>9 DEF NativeReading
    <2>11. Redirected(r, origin) = NativeReading(e.id, e.rep.sig, origin)
      BY <2>10 DEF Redirected, NativeReading
    <2> QED BY <1>1, <2>5, <2>9, <2>11 DEF HasChanged
  <1> QED BY <1>4, <1>5, <1>6

\* What is read of a constraint whose record is replaced.
Rewritten(r, record) ==
    IF r.tag = "extension" \/ record.fn.kind = "custom" THEN ExtensionReading(r.id, record)
    ELSE NativeReading(r.id, Signature(record.fn, record.set), r.origin)

LEMMA WithRecordFits ==
    ASSUME NEW reg, NEW c, Fits(reg, c), ~reg.implicit, NEW p \in 0..Length(reg) - 1,
           NEW record, IsStored(record), NEW name
    PROVE  HasChanged(reg, c, p, name, Rewritten(Reading(reg, p, name), record),
                      WithRecord(reg, p, record))
  <1>1. PICK E, e, X, D, r, new, i, x, rep : /\ E = reg.entries /\ e = EntryAt(E, p) /\ X = reg.extensions
                                          /\ D = reg.originOverrides /\ r = Reading(reg, p, name)
                                          /\ new = WithRecord(reg, p, record) /\ i = e.rep.index
                                          /\ x = Len(X) /\ rep = Representation(e.id.kind, record.fn, record.set)
    OBVIOUS
  <1>2. /\ EntriesFit(E, reg.positions, c) /\ TablesFit(reg) /\ Length(reg) = E.len /\ IsRegistry(reg)
        /\ e = EntryOf(reg, p)
    BY <1>1 DEF Fits, Length, EntryOf
  <1>3. IsList(X) /\ x \in Nat /\ DOMAIN X = 1..x /\ \A j \in 1..x : IsStored(X[j])
    BY <1>1, <1>2, ListFacts DEF TablesFit
  <1>4. \/ e.rep.tag = "native"
        \/ e.rep.tag = "extension" /\ i \in 1..x
    BY <1>1, <1>2 DEF TablesFit
  <1>5. IsEntry(e)
    <2>1. RunsFit(E) /\ p \in 0..E.len - 1
      BY <1>2 DEF EntriesFit
    <2> QED BY <1>1, <2>1, EntryIs
  <1>6. /\ record.fn.kind = "custom" => rep = NoRep
        /\ record.fn.kind # "custom" =>
             /\ rep # NoRep /\ IsRep(rep) /\ rep.tag = "native"
             /\ e.id.kind = "ind" => rep.sig = Signature(record.fn, record.set)
    BY <1>1, RepresentationIs
  <1>7. CASE e.rep.tag = "extension"
    <2>1. PICK Y : Y = [X EXCEPT ![i] = record]
      OBVIOUS
    <2>2. i \in 1..x
      BY <1>4, <1>7
    <2>4. DOMAIN Y = 1..x /\ Y = [j \in 1..x |-> Y[j]] /\ Y[i] = record
          /\ \A j \in 1..x : j # i => Y[j] = X[j]
      BY <1>3, <2>1, <2>2
    <2>5. IsList(Y) /\ Len(Y) = x
      BY <1>3, <2>4, ListOf
    <2>6. SparesOthers(reg, e, Y)
      <3>1. \A j \in 1..x : IsStored(Y[j]) /\ (Y[j] = X[j] \/ j = i)
        BY <1>3, <2>4
      <3> QED BY <1>1, <1>3, <1>7, <2>5, <3>1 DEF SparesOthers
    <2>7. Refers(reg, e, EntryAt(E, p), Y) /\ SameOverrides(reg, e.id, D)
      BY <1>1, <1>7 DEF Refers, SameOverrides
    <2>8. new = Amended(reg, E, Y, D)
      <3>1. new = [reg EXCEPT !.extensions[i] = record]
        BY <1>1, <1>7 DEF WithRecord
      <3>2. new = [reg EXCEPT !.extensions = Y]
        BY <1>1, <2>1, <3>1
      <3> QED BY <1>1, <1>2, <3>2 DEF IsRegistry, Amended
    <2>9. /\ Fits(new, c) /\ Length(new) = Length(reg) /\ EntryOf(new, p) = e
          /\ \A q \in 0..Length(reg) - 1 : q # p => \A n : Reading(new, q, n) = Reading(reg, q, n)
      <3>1. EntryAt(E, p).id = e.id /\ E.len = reg.entries.len
            /\ \A q \in 0..Length(reg) - 1 : q # p => EntryAt(E, q) = EntryAt(reg.entries, q)
        BY <1>1
      <3>9. Amends(reg, c, p, e, E, Y, D)
        BY <1>1, <1>2, <2>6, <2>7, <2>8, <3>1 DEF Amends
      <3>10. /\ Fits(Amended(reg, E, Y, D), c) /\ Length(Amended(reg, E, Y, D)) = Length(reg)
             /\ EntryOf(Amended(reg, E, Y, D), p) = EntryAt(E, p)
             /\ \A q \in 0..Length(reg) - 1 : q # p =>
                  \A n : Reading(Amended(reg, E, Y, D), q, n) = Reading(reg, q, n)
        BY <3>9, AmendedFits
      <3> QED BY <1>1, <2>6, <2>7, <2>8, <3>10
    <2>10. new.extensions = Y
      BY <2>8 DEF Amended
    <2>11. r = ExtensionReading(e.id, X[i]) /\ Reading(new, p, name) = ExtensionReading(e.id, record)
      BY <1>1, <1>2, <1>7, <2>4, <2>9, <2>10 DEF Reading
    <2>12. r.tag = "extension" /\ r.id = e.id
      BY <2>11 DEF ExtensionReading
    <2> QED BY <1>1, <2>9, <2>11, <2>12 DEF HasChanged, Rewritten
  <1>8. CASE e.rep.tag = "native" /\ record.fn.kind # "custom"
    <2>1. PICK f, F : f = [e EXCEPT !.rep = rep] /\ F = ReplaceEntry(E, p, f)
      OBVIOUS
    <2>2. /\ f = [id |-> e.id, rep |-> rep, origin |-> e.origin]
          /\ f.id = e.id /\ f.rep = rep /\ f.origin = e.origin
      <3>1. e = [id |-> e.id, rep |-> e.rep, origin |-> e.origin]
        BY <1>5 DEF IsEntry
      <3>2. f = [id |-> e.id, rep |-> rep, origin |-> e.origin]
        BY <2>1, <3>1
      <3> QED BY <3>2
    <2>3. IsEntry(f)
      BY <1>5, <1>6, <1>8, <2>2 DEF IsEntry
    <2>4. /\ EntriesFit(F, reg.positions, c) /\ F.len = E.len /\ EntryAt(F, p) = f
          /\ \A q \in 0..E.len - 1 : q # p => EntryAt(F, q) = EntryAt(E, q)
      <3>1. p \in 0..E.len - 1 /\ f.id = EntryAt(E, p).id /\ EntriesFit(E, reg.positions, c)
        BY <1>1, <1>2, <2>2
      <3>2. /\ EntriesFit(ReplaceEntry(E, p, f), reg.positions, c) /\ ReplaceEntry(E, p, f).len = E.len
            /\ EntryAt(ReplaceEntry(E, p, f), p) = f
            /\ \A q \in 0..E.len - 1 : q # p => EntryAt(ReplaceEntry(E, p, f), q) = EntryAt(E, q)
        BY ONLY <2>3, <3>1, ReplacedId
      <3> QED BY ONLY <2>1, <3>2
    <2>5. new = Amended(reg, F, X, D)
      <3>1. new = [reg EXCEPT !.entries = F]
        BY <1>1, <1>6, <1>8, <2>1 DEF WithRecord
      <3> QED BY <1>1, <1>2, <3>1 DEF IsRegistry, Amended
    <2>6. SparesOthers(reg, e, X) /\ Refers(reg, e, EntryAt(F, p), X) /\ SameOverrides(reg, e.id, D)
      BY <1>1, <1>3, <1>6, <1>8, <2>2, <2>4 DEF SparesOthers, Refers, SameOverrides
    <2>7. /\ Fits(new, c) /\ Length(new) = Length(reg) /\ EntryOf(new, p) = f
          /\ \A q \in 0..Length(reg) - 1 : q # p => \A n : Reading(new, q, n) = Reading(reg, q, n)
      <3>1. EntryAt(F, p).id = e.id /\ F.len = reg.entries.len
            /\ \A q \in 0..Length(reg) - 1 : q # p => EntryAt(F, q) = EntryAt(reg.entries, q)
        BY <1>1, <1>2, <2>2, <2>4
      <3>9. Amends(reg, c, p, e, F, X, D)
        BY <1>1, <1>2, <2>4, <2>5, <2>6, <3>1 DEF Amends
      <3>10. /\ Fits(Amended(reg, F, X, D), c) /\ Length(Amended(reg, F, X, D)) = Length(reg)
             /\ EntryOf(Amended(reg, F, X, D), p) = EntryAt(F, p)
             /\ \A q \in 0..Length(reg) - 1 : q # p =>
                  \A n : Reading(Amended(reg, F, X, D), q, n) = Reading(reg, q, n)
        BY <3>9, AmendedFits
      <3> QED BY <1>1, <2>4, <2>5, <2>6, <3>10
    <2>8. new.originOverrides = D /\ new.origins = reg.origins
      BY <2>5 DEF Amended
    <2>9. OriginOf(new, f, name) = OriginOf(reg, e, name)
      <3>1. BaseOrigin(new, f, name) = BaseOrigin(reg, e, name)
        BY <1>6, <1>8, <2>2, <2>8 DEF BaseOrigin
      <3> QED BY <1>1, <2>2, <2>8, <3>1 DEF OriginOf
    <2>10. r = NativeReading(e.id, e.rep.sig, OriginOf(reg, e, name))
          /\ Reading(new, p, name) = NativeReading(e.id, rep.sig, OriginOf(reg, e, name))
      BY <1>1, <1>2, <1>6, <1>8, <2>2, <2>7, <2>9 DEF Reading
    <2>11. r.tag = "native" /\ r.id = e.id /\ r.origin = OriginOf(reg, e, name)
      BY <2>10 DEF NativeReading
    <2>12. Rewritten(r, record) = NativeReading(e.id, rep.sig, OriginOf(reg, e, name))
      BY <1>6, <1>8, <2>11 DEF Rewritten, NativeReading
    <2> QED BY <1>1, <2>7, <2>10, <2>12 DEF HasChanged
  <1>9. CASE e.rep.tag = "native" /\ record.fn.kind = "custom"
    <2>1. PICK g, f, F, Y, H : /\ g = Extension(x + 1) /\ f = [e EXCEPT !.rep = g] /\ F = ReplaceEntry(E, p, f)
                               /\ Y = Append(X, record) /\ H = Forget(D, e.id)
      OBVIOUS
    <2>2. g.tag = "extension" /\ g.index = x + 1 /\ IsRep(g)
      <3>1. PICK y : y = [NoRep EXCEPT !.tag = "extension"]
        OBVIOUS
      <3>2. y = [tag |-> "extension", sig |-> NoSignature, index |-> 0]
        BY <3>1 DEF NoRep
      <3>3. g = [y EXCEPT !.index = x + 1]
        BY <2>1, <3>1 DEF Extension
      <3>4. g = [tag |-> "extension", sig |-> NoSignature, index |-> x + 1]
        BY <3>2, <3>3
      <3>5. g.tag = "extension" /\ g.sig = NoSignature /\ g.index = x + 1 /\ x + 1 \in Nat
        BY <1>3, <3>4
      <3> QED BY <3>4, <3>5 DEF IsRep
    <2>3. /\ f = [id |-> e.id, rep |-> g, origin |-> e.origin]
          /\ f.id = e.id /\ f.rep = g /\ f.origin = e.origin
      <3>1. e = [id |-> e.id, rep |-> e.rep, origin |-> e.origin]
        BY <1>5 DEF IsEntry
      <3>2. f = [id |-> e.id, rep |-> g, origin |-> e.origin]
        BY <2>1, <3>1
      <3> QED BY <3>2
    <2>4. IsEntry(f)
      BY <1>5, <2>2, <2>3 DEF IsEntry
    <2>5. /\ EntriesFit(F, reg.positions, c) /\ F.len = E.len /\ EntryAt(F, p) = f
          /\ \A q \in 0..E.len - 1 : q # p => EntryAt(F, q) = EntryAt(E, q)
      <3>1. p \in 0..E.len - 1 /\ f.id = EntryAt(E, p).id /\ EntriesFit(E, reg.positions, c)
        BY <1>1, <1>2, <2>3
      <3>2. /\ EntriesFit(ReplaceEntry(E, p, f), reg.positions, c) /\ ReplaceEntry(E, p, f).len = E.len
            /\ EntryAt(ReplaceEntry(E, p, f), p) = f
            /\ \A q \in 0..E.len - 1 : q # p => EntryAt(ReplaceEntry(E, p, f), q) = EntryAt(E, q)
        BY ONLY <2>4, <3>1, ReplacedId
      <3> QED BY ONLY <2>1, <3>2
    <2>6. IsList(Y) /\ Len(Y) = x + 1 /\ Y[x + 1] = record /\ \A j \in 1..x : Y[j] = X[j]
      BY <1>1, <1>3, <2>1, AppendedList
    <2>7. SparesOthers(reg, e, Y)
      <3>1. \A j \in 1..x + 1 : j \in 1..x \/ j = x + 1
        BY <1>3
      <3>2. \A j \in 1..x + 1 : IsStored(Y[j])
        BY <1>3, <2>6, <3>1
      <3>3. x <= x + 1
        BY <1>3
      <3> QED BY <1>1, <2>6, <3>2, <3>3 DEF SparesOthers
    <2>8. Refers(reg, e, EntryAt(F, p), Y) /\ SameOverrides(reg, e.id, H)
      <3>1. Refers(reg, e, EntryAt(F, p), Y)
        BY <1>1, <2>2, <2>3, <2>5, <2>6 DEF Refers
      <3>2. SameOverrides(reg, e.id, H)
        BY <1>1, <2>1 DEF SameOverrides, Forget, Restrict
      <3> QED BY <3>1, <3>2
    <2>9. new = Amended(reg, F, Y, H)
      <3>1. new = [reg EXCEPT !.originOverrides = H, !.extensions = Y, !.entries = F]
        BY <1>1, <1>6, <1>9, <2>1 DEF WithRecord
      <3>2. PICK y : y = [reg EXCEPT !.originOverrides = H]
        OBVIOUS
      <3>3. PICK z : z = [y EXCEPT !.extensions = Y]
        OBVIOUS
      <3>4. new = [z EXCEPT !.entries = F]
        BY <3>1, <3>2, <3>3
      <3>5. y = [implicit |-> reg.implicit, declarations |-> reg.declarations, entries |-> E,
                 positions |-> reg.positions, extensions |-> X, origins |-> reg.origins,
                 originOverrides |-> H]
        BY <1>1, <1>2, <3>2 DEF IsRegistry
      <3>6. z = [implicit |-> reg.implicit, declarations |-> reg.declarations, entries |-> E,
                 positions |-> reg.positions, extensions |-> Y, origins |-> reg.origins,
                 originOverrides |-> H]
        BY <3>3, <3>5
      <3> QED BY <3>4, <3>6 DEF Amended
    <2>10. /\ Fits(new, c) /\ Length(new) = Length(reg) /\ EntryOf(new, p) = f
           /\ \A q \in 0..Length(reg) - 1 : q # p => \A n : Reading(new, q, n) = Reading(reg, q, n)
      <3>1. EntryAt(F, p).id = e.id /\ F.len = reg.entries.len
            /\ \A q \in 0..Length(reg) - 1 : q # p => EntryAt(F, q) = EntryAt(reg.entries, q)
        BY <1>1, <1>2, <2>3, <2>5
      <3>9. Amends(reg, c, p, e, F, Y, H)
        BY <1>1, <1>2, <2>5, <2>7, <2>8, <2>9, <3>1 DEF Amends
      <3>10. /\ Fits(Amended(reg, F, Y, H), c) /\ Length(Amended(reg, F, Y, H)) = Length(reg)
             /\ EntryOf(Amended(reg, F, Y, H), p) = EntryAt(F, p)
             /\ \A q \in 0..Length(reg) - 1 : q # p =>
                  \A n : Reading(Amended(reg, F, Y, H), q, n) = Reading(reg, q, n)
        BY <3>9, AmendedFits
      <3> QED BY <1>1, <2>5, <2>7, <2>8, <2>9, <3>10
    <2>11. new.extensions = Y
      BY <2>9 DEF Amended
    <2>12. r = NativeReading(e.id, e.rep.sig, OriginOf(reg, e, name))
          /\ Reading(new, p, name) = ExtensionReading(e.id, record)
      BY <1>1, <1>2, <1>9, <2>2, <2>3, <2>6, <2>10, <2>11 DEF Reading
    <2>13. r.id = e.id
      BY <2>12 DEF NativeReading
    <2> QED BY <1>1, <1>9, <2>10, <2>12, <2>13 DEF HasChanged, Rewritten
  <1> QED BY <1>4, <1>7, <1>8, <1>9

-----------------------------------------------------------------------------
(* Rows                                                                    *)

IdsOf(R) == UNION {{Id(k, i - 1) : i \in DOMAIN R[k]} : k \in Kinds}
Counts(R) == [k \in Kinds |-> Len(R[k])]
RowOf(R, id) == R[id.kind][id.index + 1]

IsRow(w) ==
    /\ w = [name |-> w.name, active |-> w.active, sig |-> w.sig, view |-> w.view]
    /\ w.active \in BOOLEAN

RowsAreLists(R) ==
    /\ R = [k \in Kinds |-> R[k]] /\ \A k \in Kinds : IsList(R[k])
    /\ \A k \in Kinds : \A i \in 1..Len(R[k]) : IsRow(R[k][i])

\* The view of a constraint, wherever it is kept.
Kept(I, id, row) == IF id \in DOMAIN I THEN I[id] ELSE row.view

SignatureOf(r, row) ==
    IF r.id.kind = "alg" THEN row.sig
    ELSE IF r.id.kind = "ind" THEN r.sig
    ELSE [fn |-> NativeFn[r.id.kind], set |-> row.sig.set]

\* The record put together from what the registry gives, the row and the view.
RecordOf(r, row, view) ==
    IF r.tag = "extension"
    THEN [id |-> r.id, name |-> r.stored.name, fn |-> r.stored.fn, set |-> r.stored.set,
          origin |-> r.stored.origin, active |-> row.active]
    ELSE [id |-> r.id, name |-> row.name, active |-> row.active, origin |-> r.origin,
          fn |-> [kind |-> SignatureOf(r, row).fn, root |-> view.root],
          set |-> [kind |-> SignatureOf(r, row).set, lower |-> view.bounds.lower,
                   upper |-> view.bounds.upper]]

\* A row and the tables of views agree with what the registry gives.
Lowers(I, A, r, row) ==
    /\ IsView(Kept(I, r.id, row)) /\ IsRow(row)
    /\ r.id \in DOMAIN I <=> r.id.kind = "alg" /\ ~row.active
    /\ r.id \in DOMAIN I => row.view = [root |-> ZeroRoot, bounds |-> Free]
    /\ r.tag = "extension" =>
         /\ r.stored.name = row.name
         /\ Kept(I, r.id, row) = IF r.id \in DOMAIN A THEN A[r.id] ELSE View(r.stored.fn, r.stored.set)
    /\ r.tag # "extension" => r.id \notin DOMAIN A

IdAt(reg, p) == EntryOf(reg, p).id
RowAt(R, reg, p) == RowOf(R, IdAt(reg, p))
ReadingIn(R, reg, p) == Reading(reg, p, RowAt(R, reg, p).name)
RecordIn(R, reg, I, p) ==
    RecordOf(ReadingIn(R, reg, p), RowAt(R, reg, p), Kept(I, IdAt(reg, p), RowAt(R, reg, p)))

\* The invariant of the rows and the registry.
RowsFit(R, reg, I, A) ==
    /\ RowsAreLists(R) /\ Fits(reg, Counts(R))
    /\ DOMAIN I \subseteq IdsOf(R) /\ DOMAIN A \subseteq IdsOf(R)
    /\ \A p \in 0..Length(reg) - 1 : Lowers(I, A, ReadingIn(R, reg, p), RowAt(R, reg, p))

\* What a reader sees is what the registry gives, the row and the view.
LEMMA RecordAtIs == \A p : RecordAt(p) = RecordIn(rows, registry, inactive, p)
  <1> SUFFICES ASSUME NEW p PROVE RecordAt(p) = RecordIn(rows, registry, inactive, p)
    OBVIOUS
  <1>1. PICK e, id, row, r, view, stored :
          /\ e = EntryOf(registry, p) /\ id = e.id /\ row = rows[id.kind][id.index + 1]
          /\ r = Reading(registry, p, row.name) /\ stored = registry.extensions[e.rep.index]
          /\ view = IF id \in DOMAIN inactive THEN inactive[id] ELSE row.view
    OBVIOUS
  <1>2. RecordIn(rows, registry, inactive, p) = RecordOf(r, row, view)
    BY <1>1 DEF RecordIn, ReadingIn, RowAt, IdAt, RowOf, Kept
  <1>3. CASE e.rep.tag = "extension"
    <2>1. r = ExtensionReading(id, stored)
      BY <1>1, <1>3 DEF Reading
    <2>2. r.id = id /\ r.tag = "extension" /\ r.stored = stored
      BY <2>1 DEF ExtensionReading
    <2>3. RecordOf(r, row, view) =
            [id |-> id, name |-> stored.name, fn |-> stored.fn, set |-> stored.set,
             origin |-> stored.origin, active |-> row.active]
      BY <2>2 DEF RecordOf
    <2> QED BY <1>1, <1>2, <1>3, <2>3 DEF RecordAt
  <1>4. CASE e.rep.tag # "extension"
    <2>1. r = NativeReading(id, e.rep.sig, OriginOf(registry, e, row.name))
      BY <1>1, <1>4 DEF Reading
    <2>2. r.id = id /\ r.tag = "native" /\ r.origin = OriginOf(registry, e, row.name)
          /\ r.sig = IF id.kind = "ind" THEN e.rep.sig ELSE NoSignature
      BY <2>1 DEF NativeReading
    <2>3. PICK sig : sig = SignatureOf(r, row)
      OBVIOUS
    <2>4. RecordOf(r, row, view) =
            [id |-> id, name |-> row.name, active |-> row.active,
             origin |-> OriginOf(registry, e, row.name),
             fn |-> [kind |-> sig.fn, root |-> view.root],
             set |-> [kind |-> sig.set, lower |-> view.bounds.lower, upper |-> view.bounds.upper]]
      BY <2>2, <2>3 DEF RecordOf
    <2>5. sig = CASE id.kind = "alg" -> row.sig
                  [] id.kind = "ind" -> e.rep.sig
                  [] OTHER -> [fn |-> NativeFn[id.kind], set |-> row.sig.set]
      <3>1. CASE id.kind = "alg" BY <2>2, <2>3, <3>1 DEF SignatureOf
      <3>2. CASE id.kind = "ind" BY <2>2, <2>3, <3>2 DEF SignatureOf
      <3>3. CASE id.kind # "alg" /\ id.kind # "ind" BY <2>2, <2>3, <3>3 DEF SignatureOf
      <3> QED BY <3>1, <3>2, <3>3
    <2> QED BY <1>1, <1>2, <1>4, <2>4, <2>5 DEF RecordAt
  <1> QED BY <1>3, <1>4

LEMMA IdsAre ==
    ASSUME NEW R, RowsAreLists(R), NEW id
    PROVE  id \in IdsOf(R) <=> \E k \in Kinds : \E x \in 0..Counts(R)[k] - 1 : id = Id(k, x)
  <1>1. \A k \in Kinds : Len(R[k]) \in Nat /\ DOMAIN R[k] = 1..Len(R[k]) /\ Counts(R)[k] = Len(R[k])
    BY ListFacts DEF RowsAreLists, Counts
  <1>2. ASSUME NEW k \in Kinds, NEW i \in DOMAIN R[k]
        PROVE  i - 1 \in 0..Counts(R)[k] - 1
    BY <1>1
  <1>3. ASSUME NEW k \in Kinds, NEW x \in 0..Counts(R)[k] - 1
        PROVE  x + 1 \in DOMAIN R[k] /\ (x + 1) - 1 = x
    BY <1>1
  <1> QED BY <1>2, <1>3 DEF IdsOf

\* The id at a position of a registry.
LEMMA IdAtIs ==
    ASSUME NEW R, NEW reg, RowsAreLists(R), Fits(reg, Counts(R)), NEW p \in 0..Length(reg) - 1
    PROVE  /\ IdAt(reg, p) \in IdsOf(R) /\ Positions(reg, IdAt(reg, p)) = {p}
           /\ IdAt(reg, p).kind \in Kinds /\ IdAt(reg, p).index + 1 \in 1..Len(R[IdAt(reg, p).kind])
           /\ IdAt(reg, p) = Id(IdAt(reg, p).kind, IdAt(reg, p).index) /\ IdAt(reg, p).index \in Nat
  <1>1. PICK k, x : /\ k \in Kinds /\ x \in 0..Counts(R)[k] - 1
                    /\ EntryOf(reg, p).id = Id(k, x) /\ Positions(reg, Id(k, x)) = {p}
    BY IdAtPosition
  <1>2. Id(k, x).kind = k /\ Id(k, x).index = x
    BY DEF Id
  <1>3. Counts(R)[k] = Len(R[k]) /\ Len(R[k]) \in Nat
    BY <1>1, ListFacts DEF RowsAreLists, Counts
  <1>4. x + 1 \in 1..Len(R[k]) /\ x \in Nat
    BY <1>1, <1>3
  <1>5. Id(k, x) \in IdsOf(R)
    BY <1>1, IdsAre
  <1> QED BY <1>1, <1>2, <1>4, <1>5 DEF IdAt

\* The constraint that an id names, and its only position.
LEMMA PositionIsAt ==
    ASSUME NEW R, NEW reg, RowsAreLists(R), Fits(reg, Counts(R)), NEW id \in IdsOf(R)
    PROVE  \E p \in 0..Length(reg) - 1 : Positions(reg, id) = {p} /\ Position(reg, id) = p /\ IdAt(reg, p) = id
  <1>1. PICK k, x : k \in Kinds /\ x \in 0..Counts(R)[k] - 1 /\ id = Id(k, x)
    BY IdsAre
  <1>2. PICK p \in 0..Length(reg) - 1 : Positions(reg, id) = {p} /\ EntryOf(reg, p).id = id
    BY <1>1, PositionOfId
  <1>3. Position(reg, id) = p
    BY <1>2 DEF Position
  <1> QED BY <1>2, <1>3 DEF IdAt

\* A record has the row's name, and its pair lowers to the view unless another does.
LEMMA RecordShape ==
    ASSUME NEW I, NEW A, NEW r, NEW row, Lowers(I, A, r, row),
           NEW rec, rec = RecordOf(r, row, Kept(I, r.id, row))
    PROVE  /\ rec = [id |-> r.id, name |-> row.name, fn |-> rec.fn, set |-> rec.set,
                     origin |-> rec.origin, active |-> row.active]
           /\ Kept(I, r.id, row) = IF r.id \in DOMAIN A THEN A[r.id] ELSE View(rec.fn, rec.set)
  <1>1. PICK v : v = Kept(I, r.id, row)
    OBVIOUS
  <1>2. CASE r.tag = "extension"
    <2>1. rec = [id |-> r.id, name |-> r.stored.name, fn |-> r.stored.fn, set |-> r.stored.set,
                 origin |-> r.stored.origin, active |-> row.active]
      BY <1>2 DEF RecordOf
    <2>2. r.stored.name = row.name
          /\ v = IF r.id \in DOMAIN A THEN A[r.id] ELSE View(r.stored.fn, r.stored.set)
      BY <1>1, <1>2 DEF Lowers
    <2> QED BY <1>1, <2>1, <2>2
  <1>3. CASE r.tag # "extension"
    <2>1. PICK sig : sig = SignatureOf(r, row)
      OBVIOUS
    <2>2. PICK fn, set : /\ fn = [kind |-> sig.fn, root |-> v.root]
                         /\ set = [kind |-> sig.set, lower |-> v.bounds.lower, upper |-> v.bounds.upper]
      OBVIOUS
    <2>3. rec = [id |-> r.id, name |-> row.name, active |-> row.active, origin |-> r.origin,
                 fn |-> fn, set |-> set]
      BY <1>1, <1>3, <2>1, <2>2 DEF RecordOf
    <2>4. View(fn, set) = [root |-> v.root, bounds |-> [lower |-> v.bounds.lower, upper |-> v.bounds.upper]]
      BY <2>2 DEF View, Bounds
    <2>5. v = View(fn, set)
      BY <1>1, <2>4 DEF Lowers, IsView
    <2>6. r.id \notin DOMAIN A
      BY <1>3 DEF Lowers
    <2>7. rec.fn = fn /\ rec.set = set /\ rec.origin = r.origin
      BY <2>3
    <2> QED BY <1>1, <2>3, <2>5, <2>6, <2>7
  <1> QED BY <1>2, <1>3

-----------------------------------------------------------------------------
(* Edits of one constraint                                                 *)

\* Functions that differ at most at id.
SameElsewhere(f, g, id) ==
    \A j : j # id => /\ j \in DOMAIN f <=> j \in DOMAIN g
                     /\ j \in DOMAIN g => f[j] = g[j]

\* The rows S are R, but for the row w of the constraint id, which keeps its name.
RowEdited(R, S, id, w) ==
    /\ S = [k \in Kinds |-> S[k]] /\ \A k \in Kinds : IsList(S[k]) /\ Len(S[k]) = Len(R[k])
    /\ RowOf(S, id) = w /\ IsRow(w) /\ w.name = RowOf(R, id).name
    /\ \A k \in Kinds : \A i \in 1..Len(R[k]) :
         (k = id.kind /\ i = id.index + 1) \/ S[k][i] = R[k][i]

\* The names of the constraints.
NamesIn(R) == [id \in IdsOf(R) |-> RowOf(R, id).name]

LEMMA RowEditedFits ==
    ASSUME NEW R, RowsAreLists(R), NEW id \in IdsOf(R), NEW w, NEW S, RowEdited(R, S, id, w)
    PROVE  /\ RowsAreLists(S) /\ IdsOf(S) = IdsOf(R) /\ Counts(S) = Counts(R)
           /\ NamesIn(S) = NamesIn(R)
           /\ \A j \in IdsOf(R) : j # id => RowOf(S, j) = RowOf(R, j)
  <1>1. \A k \in Kinds : Len(R[k]) \in Nat /\ DOMAIN R[k] = 1..Len(R[k]) /\ DOMAIN S[k] = DOMAIN R[k]
    BY ListFacts DEF RowsAreLists, RowEdited
  <1>2. \A j \in IdsOf(R) : \E k \in Kinds : \E x \in 0..Len(R[k]) - 1 : j = Id(k, x)
    BY IdsAre DEF Counts
  <1>3. ASSUME NEW j \in IdsOf(R)
        PROVE  j.kind \in Kinds /\ j.index + 1 \in 1..Len(R[j.kind]) /\ j = Id(j.kind, j.index)
    <2>1. PICK k, x : k \in Kinds /\ x \in 0..Len(R[k]) - 1 /\ j = Id(k, x)
      BY <1>2
    <2>2. j.kind = k /\ j.index = x
      BY <2>1 DEF Id
    <2>3. x + 1 \in 1..Len(R[k])
      BY <1>1, <2>1
    <2> QED BY <2>1, <2>2, <2>3
  <1>4. ASSUME NEW k \in Kinds, NEW i \in 1..Len(S[k])
        PROVE  IsRow(S[k][i])
    <2>1. i \in 1..Len(R[k]) /\ IsRow(R[k][i])
      BY DEF RowEdited, RowsAreLists
    <2>2. CASE k = id.kind /\ i = id.index + 1
      BY <2>2 DEF RowEdited, RowOf
    <2>3. CASE S[k][i] = R[k][i]
      BY <2>1, <2>3
    <2> QED BY <2>1, <2>2, <2>3 DEF RowEdited
  <1>5. RowsAreLists(S)
    BY <1>4 DEF RowsAreLists, RowEdited
  <1>6. IdsOf(S) = IdsOf(R) /\ Counts(S) = Counts(R)
    BY <1>1 DEF IdsOf, Counts, RowEdited
  <1>7. ASSUME NEW j \in IdsOf(R), j # id
        PROVE  RowOf(S, j) = RowOf(R, j)
    <2>1. j.kind \in Kinds /\ j.index + 1 \in 1..Len(R[j.kind]) /\ j = Id(j.kind, j.index)
          /\ id = Id(id.kind, id.index) /\ id.index + 1 \in Int /\ j.index \in Int /\ id.index \in Int
      <3>1. \A n \in Kinds : \A x \in 0..Len(R[n]) - 1 : Id(n, x).index \in Int
        BY <1>1 DEF Id
      <3>2. j.index \in Int /\ id.index \in Int
        BY <1>2, <3>1
      <3> QED BY <1>3, <3>2
    <2>2. ~ (j.kind = id.kind /\ j.index + 1 = id.index + 1)
      <3> SUFFICES ASSUME j.kind = id.kind, j.index + 1 = id.index + 1 PROVE FALSE
        OBVIOUS
      <3>1. j.index = id.index
        BY <2>1
      <3> QED BY <1>7, <2>1, <3>1
    <2> QED BY <2>1, <2>2 DEF RowEdited, RowOf
  <1>8. \A j \in IdsOf(R) : RowOf(S, j).name = RowOf(R, j).name
    <2>1. RowOf(S, id).name = RowOf(R, id).name
      BY DEF RowEdited
    <2> QED BY <1>7, <2>1
  <1>9. NamesIn(S) = NamesIn(R)
    BY <1>6, <1>8 DEF NamesIn
  <1> QED BY <1>5, <1>6, <1>7, <1>9

\* An edit of the constraint at p: its row becomes w, its reading r2.
Edits(R, reg, I, A, p, S, new, J, w, r2) ==
    /\ RowsFit(R, reg, I, A) /\ p \in 0..Length(reg) - 1
    /\ RowEdited(R, S, IdAt(reg, p), w)
    /\ HasChanged(reg, Counts(R), p, w.name, r2, new) /\ r2.id = IdAt(reg, p)
    /\ SameElsewhere(J, I, IdAt(reg, p)) /\ Lowers(J, A, r2, w)

LEMMA EditedFits ==
    ASSUME NEW R, NEW reg, NEW I, NEW A, NEW p, NEW S, NEW new, NEW J, NEW w, NEW r2,
           Edits(R, reg, I, A, p, S, new, J, w, r2)
    PROVE  /\ RowsFit(S, new, J, A) /\ Length(new) = Length(reg)
           /\ IdsOf(S) = IdsOf(R) /\ NamesIn(S) = NamesIn(R)
           /\ RecordIn(S, new, J, p) = RecordOf(r2, w, Kept(J, r2.id, w))
           /\ \A q \in 0..Length(reg) - 1 : q # p => RecordIn(S, new, J, q) = RecordIn(R, reg, I, q)
           /\ \A q \in 0..Length(reg) - 1 : IdAt(new, q) = IdAt(reg, q)
  <1>1. PICK id : id = IdAt(reg, p)
    OBVIOUS
  <1>2. /\ RowsAreLists(R) /\ Fits(reg, Counts(R)) /\ p \in 0..Length(reg) - 1 /\ RowEdited(R, S, id, w)
        /\ SameElsewhere(J, I, id) /\ r2.id = id
    BY <1>1 DEF Edits, RowsFit
  <1>3. id \in IdsOf(R) /\ \A q \in 0..Length(reg) - 1 : IdAt(reg, q) \in IdsOf(R)
    BY <1>1, <1>2, IdAtIs
  <1>4. /\ RowsAreLists(S) /\ IdsOf(S) = IdsOf(R) /\ Counts(S) = Counts(R)
        /\ NamesIn(S) = NamesIn(R)
        /\ \A j \in IdsOf(R) : j # id => RowOf(S, j) = RowOf(R, j)
    BY <1>2, <1>3, RowEditedFits
  <1>5. /\ Fits(new, Counts(R)) /\ Length(new) = Length(reg) /\ Reading(new, p, w.name) = r2
        /\ \A q \in 0..Length(reg) - 1 : q # p => \A n : Reading(new, q, n) = Reading(reg, q, n)
    BY DEF Edits, HasChanged
  <1>6. IdAt(new, p) = id
    <2>1. Reading(new, p, w.name).id = IdAt(new, p)
      BY ReadingId DEF IdAt
    <2> QED BY <1>2, <1>5, <2>1
  <1>7. RowAt(S, new, p) = w /\ ReadingIn(S, new, p) = r2
    <2>1. RowAt(S, new, p) = w
      BY <1>2, <1>6 DEF RowAt, RowEdited
    <2> QED BY <1>5, <2>1 DEF ReadingIn
  <1>8. ASSUME NEW q \in 0..Length(reg) - 1, q # p
        PROVE  /\ IdAt(new, q) = IdAt(reg, q) /\ IdAt(reg, q) # id
               /\ RowAt(S, new, q) = RowAt(R, reg, q) /\ ReadingIn(S, new, q) = ReadingIn(R, reg, q)
    <2>1. IdAt(new, q) = IdAt(reg, q)
      <3>1. Reading(new, q, w.name).id = IdAt(new, q) /\ Reading(reg, q, w.name).id = IdAt(reg, q)
        BY ReadingId DEF IdAt
      <3> QED BY <1>5, <1>8, <3>1
    <2>2. IdAt(reg, q) # id
      <3>1. Positions(reg, IdAt(reg, q)) = {q} /\ Positions(reg, id) = {p}
        BY <1>1, <1>2, IdAtIs
      <3> QED BY <1>8, <3>1
    <2>3. RowAt(S, new, q) = RowAt(R, reg, q)
      BY <1>3, <1>4, <2>1, <2>2 DEF RowAt
    <2>4. ReadingIn(S, new, q) = ReadingIn(R, reg, q)
      BY <1>5, <1>8, <2>3 DEF ReadingIn
    <2> QED BY <2>1, <2>2, <2>3, <2>4
  <1>9. ASSUME NEW q \in 0..Length(reg) - 1
        PROVE  Lowers(J, A, ReadingIn(S, new, q), RowAt(S, new, q))
    <2>1. CASE q = p
      BY <1>7, <2>1 DEF Edits
    <2>2. CASE q # p
      <3>1. PICK r, row : r = ReadingIn(R, reg, q) /\ row = RowAt(R, reg, q)
        OBVIOUS
      <3>2. Lowers(I, A, r, row)
        BY <3>1 DEF Edits, RowsFit
      <3>3. r.id = IdAt(reg, q)
        BY <3>1, ReadingId DEF ReadingIn, IdAt
      <3>4. r.id # id
        BY <1>8, <2>2, <3>3
      <3>5. /\ r.id \in DOMAIN J <=> r.id \in DOMAIN I
            /\ Kept(J, r.id, row) = Kept(I, r.id, row)
        BY <1>2, <3>4 DEF SameElsewhere, Kept
      <3>6. Lowers(J, A, r, row)
        BY <3>2, <3>5 DEF Lowers
      <3> QED BY <1>8, <2>2, <3>1, <3>6
    <2> QED BY <2>1, <2>2
  <1>10. DOMAIN J \subseteq IdsOf(S) /\ DOMAIN A \subseteq IdsOf(S)
    <2>1. DOMAIN I \subseteq IdsOf(R) /\ DOMAIN A \subseteq IdsOf(R)
      BY DEF Edits, RowsFit
    <2> QED BY <1>2, <1>3, <1>4, <2>1 DEF SameElsewhere
  <1>11. RowsFit(S, new, J, A)
    BY <1>4, <1>5, <1>9, <1>10 DEF RowsFit
  <1>12. RecordIn(S, new, J, p) = RecordOf(r2, w, Kept(J, r2.id, w))
    BY <1>2, <1>6, <1>7 DEF RecordIn
  <1>13. ASSUME NEW q \in 0..Length(reg) - 1, q # p
         PROVE  RecordIn(S, new, J, q) = RecordIn(R, reg, I, q)
    <2>1. Kept(J, IdAt(reg, q), RowAt(R, reg, q)) = Kept(I, IdAt(reg, q), RowAt(R, reg, q))
      BY <1>2, <1>8, <1>13 DEF SameElsewhere, Kept
    <2> QED BY <1>8, <1>13, <2>1 DEF RecordIn
  <1>14. \A q \in 0..Length(reg) - 1 : IdAt(new, q) = IdAt(reg, q)
    BY <1>1, <1>6, <1>8
  <1> QED BY <1>4, <1>5, <1>11, <1>12, <1>13, <1>14

\* What a registry gives is of one of two forms.
LEMMA ReadingTag ==
    ASSUME NEW reg, NEW p, NEW name
    PROVE  Reading(reg, p, name).tag \in {"native", "extension"}
  <1>1. PICK e, r : e = EntryOf(reg, p) /\ r = Reading(reg, p, name)
    OBVIOUS
  <1>2. CASE e.rep.tag = "extension"
    <2>1. r = ExtensionReading(e.id, reg.extensions[e.rep.index])
      BY <1>1, <1>2 DEF Reading
    <2>2. r.tag = "extension"
      BY <2>1 DEF ExtensionReading
    <2> QED BY <1>1, <2>2
  <1>3. CASE e.rep.tag # "extension"
    <2>1. r = NativeReading(e.id, e.rep.sig, OriginOf(reg, e, name))
      BY <1>1, <1>3 DEF Reading
    <2>2. r.tag = "native"
      BY <2>1 DEF NativeReading
    <2> QED BY <1>1, <2>2
  <1> QED BY <1>2, <1>3

\* A new origin changes the origin of the record, and nothing else.
LEMMA RedirectedRecord ==
    ASSUME NEW I, NEW A, NEW r, NEW row, Lowers(I, A, r, row), NEW origin, NEW v
    PROVE  /\ Lowers(I, A, Redirected(r, origin), row) /\ Redirected(r, origin).id = r.id
           /\ RecordOf(Redirected(r, origin), row, v) = [RecordOf(r, row, v) EXCEPT !.origin = origin]
  <1>1. PICK y : y = Redirected(r, origin)
    OBVIOUS
  <1>2. CASE r.tag = "extension"
    <2>1. PICK s : s = [name |-> r.stored.name, fn |-> r.stored.fn, set |-> r.stored.set, origin |-> origin]
      OBVIOUS
    <2>2. y = ExtensionReading(r.id, s)
      BY <1>1, <1>2, <2>1 DEF Redirected
    <2>3. y.id = r.id /\ y.tag = "extension" /\ y.stored = s
      BY <2>2 DEF ExtensionReading
    <2>4. RecordOf(y, row, v) = [id |-> r.id, name |-> s.name, fn |-> s.fn, set |-> s.set,
                                 origin |-> origin, active |-> row.active]
      BY <2>1, <2>3 DEF RecordOf
    <2>5. RecordOf(r, row, v) = [id |-> r.id, name |-> s.name, fn |-> s.fn, set |-> s.set,
                                 origin |-> r.stored.origin, active |-> row.active]
      BY <1>2, <2>1 DEF RecordOf
    <2>6. Lowers(I, A, y, row)
      BY <1>2, <2>1, <2>3 DEF Lowers
    <2> QED BY <1>1, <2>3, <2>4, <2>5, <2>6
  <1>3. CASE r.tag # "extension"
    <2>1. y = NativeReading(r.id, r.sig, origin)
      BY <1>1, <1>3 DEF Redirected
    <2>2. y.id = r.id /\ y.tag = "native" /\ y.origin = origin
          /\ (r.id.kind = "ind" => y.sig = r.sig)
      BY <2>1 DEF NativeReading
    <2>3. PICK sig, fn, set :
            /\ sig = SignatureOf(r, row) /\ fn = [kind |-> sig.fn, root |-> v.root]
            /\ set = [kind |-> sig.set, lower |-> v.bounds.lower, upper |-> v.bounds.upper]
      OBVIOUS
    <2>4. SignatureOf(y, row) = sig
      BY <2>2, <2>3 DEF SignatureOf
    <2>5. RecordOf(y, row, v) = [id |-> r.id, name |-> row.name, active |-> row.active, origin |-> origin,
                                 fn |-> fn, set |-> set]
      BY <2>2, <2>3, <2>4 DEF RecordOf
    <2>6. RecordOf(r, row, v) = [id |-> r.id, name |-> row.name, active |-> row.active, origin |-> r.origin,
                                 fn |-> fn, set |-> set]
      BY <1>3, <2>3 DEF RecordOf
    <2>7. Lowers(I, A, y, row)
      BY <1>3, <2>2 DEF Lowers
    <2> QED BY <1>1, <2>2, <2>5, <2>6, <2>7
  <1> QED BY <1>2, <1>3

\* The row and the parked view after an edit of the pair, as in EditRow.
RowRewritten(I, J, row, w, id, fn, set) ==
    /\ w = [name |-> row.name, active |-> row.active, sig |-> Signature(fn, set),
            view |-> IF id \in DOMAIN I THEN row.view ELSE View(fn, set)]
    /\ id \in DOMAIN J <=> id \in DOMAIN I
    /\ id \in DOMAIN I => J[id] = View(fn, set)

\* A pair that the row of the constraint can hold: its function is of the native kind.
Holds(r, fn, set) ==
    r.tag # "extension" =>
      /\ IsFunction(fn) /\ IsSet(set)
      /\ r.id.kind \notin Scalars /\ fn.kind # "custom" => fn.kind = NativeFn[r.id.kind]

\* The record rec is what was read of a constraint, but for its pair.
PairRewritten(I, A, J, r, row, w, rec) ==
    /\ Lowers(I, A, r, row) /\ r.id \notin DOMAIN A /\ r.tag \in {"native", "extension"}
    /\ Holds(r, rec.fn, rec.set)
    /\ rec = [id |-> r.id, name |-> row.name, fn |-> rec.fn, set |-> rec.set,
              origin |-> RecordOf(r, row, Kept(I, r.id, row)).origin, active |-> row.active]
    /\ RowRewritten(I, J, row, w, r.id, rec.fn, rec.set)

\* A constraint whose pair is replaced is read as it was, but for the pair.
LEMMA RewrittenRecord ==
    ASSUME NEW I, NEW A, NEW J, NEW r, NEW row, NEW w, NEW rec, PairRewritten(I, A, J, r, row, w, rec)
    PROVE  /\ Lowers(J, A, Rewritten(r, Stored(rec)), w) /\ Rewritten(r, Stored(rec)).id = r.id
           /\ RecordOf(Rewritten(r, Stored(rec)), w, Kept(J, r.id, w)) = rec
  <1>n. PICK fn, set, r2 : fn = rec.fn /\ set = rec.set /\ r2 = Rewritten(r, Stored(rec))
    OBVIOUS
  <1>0. /\ Lowers(I, A, r, row) /\ r.id \notin DOMAIN A /\ r.tag \in {"native", "extension"}
        /\ Holds(r, fn, set) /\ RowRewritten(I, J, row, w, r.id, fn, set)
        /\ rec = [id |-> r.id, name |-> row.name, fn |-> fn, set |-> set,
                  origin |-> RecordOf(r, row, Kept(I, r.id, row)).origin, active |-> row.active]
    BY <1>n DEF PairRewritten
  <1>1. PICK s, id, v, sig : /\ s = Stored(rec) /\ id = r.id /\ v = View(fn, set) /\ sig = Signature(fn, set)
    OBVIOUS
  <1>2. s = [name |-> row.name, fn |-> fn, set |-> set, origin |-> rec.origin]
    BY <1>0, <1>n, <1>1 DEF Stored
  <1>3. s.fn = fn /\ s.set = set /\ s.name = row.name /\ s.origin = rec.origin
    BY <1>0, <1>n, <1>2
  <1>4. w.name = row.name /\ w.active = row.active /\ w.sig = sig /\ Kept(J, id, w) = v
        /\ w.view = IF id \in DOMAIN I THEN row.view ELSE v
    BY <1>0, <1>n, <1>1 DEF RowRewritten, Kept
  <1>5. v = [root |-> fn.root, bounds |-> [lower |-> set.lower, upper |-> set.upper]]
    BY <1>0, <1>n, <1>1 DEF View, Bounds
  <1>6. v.root = fn.root /\ v.bounds.lower = set.lower /\ v.bounds.upper = set.upper /\ IsView(v)
    <2>1. v.root = fn.root /\ v.bounds = [lower |-> set.lower, upper |-> set.upper]
      BY <1>0, <1>n, <1>5
    <2>2. v.bounds.lower = set.lower /\ v.bounds.upper = set.upper
      BY <1>0, <1>n, <2>1
    <2> QED BY <1>0, <1>n, <1>5, <2>1, <2>2 DEF IsView
  <1>7. IsRow(w) /\ w.active \in BOOLEAN
    <2>1. row.active \in BOOLEAN
      BY <1>0 DEF Lowers, IsRow
    <2>2. w = [name |-> row.name, active |-> row.active, sig |-> sig, view |-> w.view]
      BY <1>0, <1>n, <1>1, <1>4 DEF RowRewritten
    <2> QED BY <1>0, <1>n, <1>4, <2>1, <2>2 DEF IsRow
  <1>8. id \in DOMAIN J => w.view = [root |-> ZeroRoot, bounds |-> Free]
    BY <1>0, <1>n, <1>1, <1>4 DEF Lowers, RowRewritten
  <1>9. id \in DOMAIN J <=> id.kind = "alg" /\ ~w.active
    BY <1>0, <1>n, <1>1, <1>4 DEF Lowers, RowRewritten
  <1>10. CASE r.tag = "extension" \/ fn.kind = "custom"
    <2>1. r2 = ExtensionReading(id, s)
      BY <1>0, <1>n, <1>1, <1>3, <1>10 DEF Rewritten
    <2>2. r2.id = id /\ r2.tag = "extension" /\ r2.stored = s
      BY <1>0, <1>n, <2>1 DEF ExtensionReading
    <2>3. Lowers(J, A, r2, w)
      BY <1>0, <1>n, <1>1, <1>3, <1>4, <1>6, <1>7, <1>8, <1>9, <2>2 DEF Lowers
    <2>4. RecordOf(r2, w, v) = [id |-> id, name |-> row.name, fn |-> fn, set |-> set,
                                origin |-> rec.origin, active |-> row.active]
      BY <1>0, <1>n, <1>3, <1>4, <2>2 DEF RecordOf
    <2> QED BY <1>0, <1>n, <1>1, <1>4, <2>2, <2>3, <2>4
  <1>11. CASE r.tag # "extension" /\ fn.kind # "custom"
    <2>1. r2 = NativeReading(id, sig, r.origin)
      BY <1>0, <1>n, <1>1, <1>3, <1>11 DEF Rewritten
    <2>2. r2.id = id /\ r2.tag = "native" /\ r2.origin = r.origin /\ (id.kind = "ind" => r2.sig = sig)
      BY <1>0, <1>n, <2>1 DEF NativeReading
    <2>3. Lowers(J, A, r2, w)
      BY <1>0, <1>n, <1>1, <1>4, <1>6, <1>7, <1>8, <1>9, <2>2 DEF Lowers
    <2>4. sig = [fn |-> fn.kind, set |-> set.kind]
      BY <1>0, <1>n, <1>1, <1>11 DEF Signature
    <2>5. sig.fn = fn.kind /\ sig.set = set.kind
      BY <1>0, <1>n, <2>4
    <2>6. PICK x : x = SignatureOf(r2, w)
      OBVIOUS
    <2>7. x.fn = fn.kind /\ x.set = set.kind
      <3>1. CASE id.kind = "alg"
        BY <1>0, <1>n, <1>4, <2>2, <2>5, <2>6, <3>1 DEF SignatureOf
      <3>2. CASE id.kind = "ind"
        BY <1>0, <1>n, <2>2, <2>5, <2>6, <3>2 DEF SignatureOf
      <3>3. CASE id.kind # "alg" /\ id.kind # "ind"
        <4>1. x = [fn |-> NativeFn[id.kind], set |-> sig.set]
          BY <1>0, <1>n, <1>4, <2>2, <2>6, <3>3 DEF SignatureOf
        <4>2. fn.kind = NativeFn[id.kind]
          BY <1>0, <1>n, <1>1, <1>11, <3>3 DEF Holds, Scalars
        <4> QED BY <1>0, <1>n, <2>5, <4>1, <4>2
      <3> QED BY <1>0, <1>n, <3>1, <3>2, <3>3
    <2>8. RecordOf(r2, w, v) = [id |-> id, name |-> row.name, active |-> row.active, origin |-> r.origin,
                                fn |-> [kind |-> fn.kind, root |-> fn.root],
                                set |-> [kind |-> set.kind, lower |-> set.lower, upper |-> set.upper]]
      BY <1>0, <1>n, <1>4, <1>6, <2>2, <2>6, <2>7 DEF RecordOf
    <2>9. rec.origin = r.origin
      <3>1. PICK a : a = RecordOf(r, row, Kept(I, r.id, row))
        OBVIOUS
      <3>2. a.origin = r.origin
        BY <1>0, <1>n, <1>11, <3>1 DEF RecordOf
      <3> QED BY <1>0, <1>n, <3>1, <3>2
    <2>10. RecordOf(r2, w, v) = rec
      BY <1>0, <1>n, <1>1, <1>11, <2>8, <2>9 DEF Holds, IsFunction, IsSet
    <2> QED BY <1>0, <1>n, <1>1, <1>4, <2>2, <2>3, <2>10
  <1> QED BY <1>n, <1>10, <1>11

\* Writing the entries out first makes no difference.
LEMMA MaterialisedChange ==
    ASSUME NEW reg, NEW c, Fits(reg, c), NEW p \in 0..Length(reg) - 1, NEW name, NEW r, NEW new,
           HasChanged(Materialised(reg), c, p, name, r, new)
    PROVE  HasChanged(reg, c, p, name, r, new)
  <1>1. PICK m : m = Materialised(reg)
    OBVIOUS
  <1>2. Length(m) = Length(reg)
        /\ \A q \in 0..Length(reg) - 1 : \A n : Reading(m, q, n) = Reading(reg, q, n)
    BY <1>1, MaterialisedFits
  <1> QED BY <1>1, <1>2 DEF HasChanged

\* An implicit row is an algebraic one, declared as it stands.
LEMMA ImplicitReading ==
    ASSUME NEW reg, NEW c, Fits(reg, c), reg.implicit, NEW p, NEW name
    PROVE  Reading(reg, p, name) = NativeReading(Id("alg", p), NoSignature, Declared)
  <1>1. PICK e : e = EntryOf(reg, p)
    OBVIOUS
  <1>2. e = [id |-> Id("alg", p), rep |-> Native(NoSignature), origin |-> DECLARED]
    BY <1>1 DEF EntryOf, DeclaredScalar, SemanticEntry
  <1>3. e.id = Id("alg", p) /\ e.rep = Native(NoSignature) /\ e.origin = DECLARED
    BY <1>2
  <1>4. e.rep.tag = "native" /\ e.rep.sig = NoSignature
    <2>1. PICK y : y = [NoRep EXCEPT !.tag = "native"]
      OBVIOUS
    <2>2. y = [tag |-> "native", sig |-> NoSignature, index |-> 0]
      BY <2>1 DEF NoRep
    <2>3. e.rep = [y EXCEPT !.sig = NoSignature]
      BY <1>3, <2>1 DEF Native
    <2> QED BY <2>2, <2>3
  <1>5. reg.originOverrides = <<>>
    <2>1. reg = [EmptyRegistry EXCEPT !.declarations = c["alg"]]
      BY DEF Fits
    <2> QED BY <2>1 DEF EmptyRegistry
  <1>6. OriginOf(reg, e, name) = Declared
    <2>1. e.id \notin DOMAIN reg.originOverrides
      BY <1>5
    <2>2. BaseOrigin(reg, e, name) = Declared
      <3>1. DECLARED # ROW_NAME
        BY DEF DECLARED, ROW_NAME, WordMax
      <3> QED BY <1>3, <1>4, <3>1 DEF BaseOrigin
    <2> QED BY <2>1, <2>2 DEF OriginOf
  <1> QED BY <1>1, <1>3, <1>4, <1>6 DEF Reading

\* What `replace_semantic_record` makes of a registry.
LEMMA ReplacedFits ==
    ASSUME NEW reg, NEW c, Fits(reg, c), NEW p \in 0..Length(reg) - 1, NEW id,
           Position(reg, id) = p, NEW record, NEW name
    PROVE  HasChanged(reg, c, p, name, Rewritten(Reading(reg, p, name), Stored(record)),
                      Replaced(reg, id, record))
  <1>1. CASE reg.implicit /\ Signature(record.fn, record.set) # NoSignature /\ record.origin = Declared
    <2>1. Replaced(reg, id, record) = reg
      BY <1>1 DEF Replaced
    <2>2. PICK r, s : r = Reading(reg, p, name) /\ s = Stored(record)
      OBVIOUS
    <2>3. r = NativeReading(Id("alg", p), NoSignature, Declared)
      BY <1>1, <2>2, ImplicitReading
    <2>4. r.tag = "native" /\ r.id = Id("alg", p) /\ r.origin = Declared
      BY <2>3 DEF NativeReading
    <2>5. s.fn = record.fn /\ record.fn.kind # "custom"
      BY <1>1, <2>2 DEF Stored, Signature
    <2>6. Rewritten(r, s) = NativeReading(Id("alg", p), Signature(s.fn, s.set), Declared)
      BY <2>4, <2>5 DEF Rewritten
    <2>7. Rewritten(r, s) = r
      <3>1. Id("alg", p).kind = "alg"
        BY DEF Id
      <3> QED BY <2>3, <2>6, <3>1 DEF NativeReading
    <2> QED BY <2>1, <2>2, <2>7 DEF HasChanged
  <1>2. CASE ~ (reg.implicit /\ Signature(record.fn, record.set) # NoSignature /\ record.origin = Declared)
    <2>1. PICK m, s : m = Materialised(reg) /\ s = Stored(record)
      OBVIOUS
    <2>2. Replaced(reg, id, record) = WithRecord(m, p, s)
      BY <1>2, <2>1 DEF Replaced
    <2>3. Fits(m, c) /\ ~m.implicit /\ Length(m) = Length(reg) /\ Reading(m, p, name) = Reading(reg, p, name)
      BY <2>1, MaterialisedFits
    <2>4. IsStored(s)
      BY <2>1 DEF IsStored, Stored
    <2>5. HasChanged(m, c, p, name, Rewritten(Reading(m, p, name), s), WithRecord(m, p, s))
      BY <2>3, <2>4, WithRecordFits
    <2> QED BY <2>1, <2>2, <2>3, <2>5, MaterialisedChange
  <1> QED BY <1>1, <1>2

-----------------------------------------------------------------------------
(* The editing calls                                                       *)

\* One row of a kind is replaced by one of the same name.
LEMMA RowSet ==
    ASSUME NEW R, RowsAreLists(R), NEW id \in IdsOf(R), NEW w, IsRow(w), w.name = RowOf(R, id).name,
           NEW S, S = [R EXCEPT ![id.kind] = [R[id.kind] EXCEPT ![id.index + 1] = w]]
    PROVE  RowEdited(R, S, id, w)
  <1>1. PICK k, i, X : k = id.kind /\ i = id.index + 1 /\ X = [R[k] EXCEPT ![i] = w]
    OBVIOUS
  <1>2. k \in Kinds /\ i \in 1..Len(R[k])
    <2>1. PICK kk, x : kk \in Kinds /\ x \in 0..Counts(R)[kk] - 1 /\ id = Id(kk, x)
      BY IdsAre
    <2>2. id.kind = kk /\ id.index = x
      BY <2>1 DEF Id
    <2>3. Counts(R)[kk] = Len(R[kk]) /\ Len(R[kk]) \in Nat
      BY <2>1, ListFacts DEF RowsAreLists, Counts
    <2>4. x + 1 \in 1..Len(R[kk])
      BY <2>1, <2>3
    <2> QED BY <1>1, <2>1, <2>2, <2>4
  <1>3. R = [n \in Kinds |-> R[n]] /\ \A n \in Kinds : IsList(R[n]) /\ Len(R[n]) \in Nat /\ DOMAIN R[n] = 1..Len(R[n])
    BY ListFacts DEF RowsAreLists
  <1>4. S = [n \in Kinds |-> IF n = k THEN X ELSE R[n]]
    BY <1>1, <1>2, <1>3
  <1>5. S = [n \in Kinds |-> S[n]] /\ S[k] = X /\ \A n \in Kinds : n # k => S[n] = R[n]
    BY <1>2, <1>4
  <1>6. DOMAIN X = 1..Len(R[k]) /\ X[i] = w /\ \A j \in 1..Len(R[k]) : j # i => X[j] = R[k][j]
    BY <1>1, <1>2, <1>3
  <1>7. IsList(X) /\ Len(X) = Len(R[k])
    <2>1. X = [j \in 1..Len(R[k]) |-> X[j]]
      BY <1>1, <1>2, <1>3
    <2> QED BY <1>2, <1>3, <1>6, <2>1, ListOf
  <1>8. \A n \in Kinds : IsList(S[n]) /\ Len(S[n]) = Len(R[n])
    BY <1>3, <1>5, <1>7
  <1>9. RowOf(S, id) = w
    BY <1>1, <1>5, <1>6 DEF RowOf
  <1>10. \A n \in Kinds : \A j \in 1..Len(R[n]) : (n = id.kind /\ j = id.index + 1) \/ S[n][j] = R[n][j]
    BY <1>1, <1>5, <1>6
  <1> QED BY <1>5, <1>8, <1>9, <1>10 DEF RowEdited

\* A call that edits the constraint id makes the record s of its record.
Edited(id, s) ==
    \E p \in 0..Length(registry) - 1 : \E w, r2 :
      /\ IdAt(registry, p) = id
      /\ Edits(rows, registry, inactive, alternative, p, rows', registry', inactive', w, r2)
      /\ RecordOf(r2, w, Kept(inactive', r2.id, w)) = s
      /\ alternative' = alternative

\* The record of a constraint, before an edit.
LEMMA RecordBefore ==
    ASSUME RowsFit(rows, registry, inactive, alternative), NEW id \in AllIds
    PROVE  \E p \in 0..Length(registry) - 1 :
             /\ Position(registry, id) = p /\ IdAt(registry, p) = id /\ id \in IdsOf(rows)
             /\ RecordAt(p) = RecordOf(ReadingIn(rows, registry, p), RowOf(rows, id),
                                       Kept(inactive, id, RowOf(rows, id)))
             /\ RowAt(rows, registry, p) = RowOf(rows, id)
             /\ Lowers(inactive, alternative, ReadingIn(rows, registry, p), RowOf(rows, id))
             /\ ReadingIn(rows, registry, p) = Reading(registry, p, RowOf(rows, id).name)
             /\ ReadingIn(rows, registry, p).id = id
  <1>1. id \in IdsOf(rows)
    BY DEF AllIds, IdsOf
  <1>2. PICK p \in 0..Length(registry) - 1 : Position(registry, id) = p /\ IdAt(registry, p) = id
    BY <1>1, PositionIsAt DEF RowsFit
  <1>3. RowAt(rows, registry, p) = RowOf(rows, id)
    BY <1>2 DEF RowAt
  <1>4. ReadingIn(rows, registry, p) = Reading(registry, p, RowOf(rows, id).name)
        /\ ReadingIn(rows, registry, p).id = id
    BY <1>2, <1>3, ReadingId DEF ReadingIn, IdAt
  <1>5. RecordAt(p) = RecordOf(ReadingIn(rows, registry, p), RowOf(rows, id), Kept(inactive, id, RowOf(rows, id)))
    BY <1>2, <1>3, RecordAtIs DEF RecordIn
  <1>6. Lowers(inactive, alternative, ReadingIn(rows, registry, p), RowOf(rows, id))
    BY <1>3 DEF RowsFit
  <1> QED BY <1>1, <1>2, <1>3, <1>4, <1>5, <1>6

LEMMA ActiveEdited ==
    ASSUME RowsFit(rows, registry, inactive, alternative), NEW id \in AllIds, NEW active \in BOOLEAN,
           SetConstraintActive(id, active)
    PROVE  Edited(id, [RecordAt(Position(registry, id)) EXCEPT !.active = active])
  <1>1. PICK p \in 0..Length(registry) - 1 :
             /\ Position(registry, id) = p /\ IdAt(registry, p) = id /\ id \in IdsOf(rows)
             /\ RecordAt(p) = RecordOf(ReadingIn(rows, registry, p), RowOf(rows, id),
                                       Kept(inactive, id, RowOf(rows, id)))
             /\ Lowers(inactive, alternative, ReadingIn(rows, registry, p), RowOf(rows, id))
             /\ ReadingIn(rows, registry, p) = Reading(registry, p, RowOf(rows, id).name)
             /\ ReadingIn(rows, registry, p).id = id
    BY RecordBefore
  <1>2. PICK row, r, rec, free, view, w, k, i :
          /\ row = RowOf(rows, id) /\ r = ReadingIn(rows, registry, p) /\ rec = RecordAt(p)
          /\ free = [root |-> ZeroRoot, bounds |-> Free]
          /\ view = (IF id.kind # "alg" THEN row.view ELSE IF active THEN Activation(id, rec) ELSE free)
          /\ w = [name |-> row.name, active |-> active, sig |-> row.sig, view |-> view]
          /\ k = id.kind /\ i = id.index + 1
    OBVIOUS
  <1>3. /\ rec = RecordOf(r, row, Kept(inactive, id, row)) /\ Lowers(inactive, alternative, r, row)
        /\ r = Reading(registry, p, row.name) /\ r.id = id
    BY <1>1, <1>2
  <1>4. /\ rec = [id |-> id, name |-> row.name, fn |-> rec.fn, set |-> rec.set,
                  origin |-> rec.origin, active |-> row.active]
        /\ Kept(inactive, id, row) = IF id \in DOMAIN alternative THEN alternative[id] ELSE View(rec.fn, rec.set)
    BY <1>3, RecordShape
  <1>5. rec.active = row.active /\ row.active # active /\ row.active \in BOOLEAN
        /\ row = [name |-> row.name, active |-> row.active, sig |-> row.sig, view |-> row.view]
    <2>1. rec.active = row.active
      BY <1>4
    <2>2. IsRow(row)
      BY <1>3 DEF Lowers
    <2> QED BY <1>1, <1>2, <2>1, <2>2 DEF SetConstraintActive, IsRow
  <1>6. w.name = row.name /\ w.active = active /\ w.sig = row.sig /\ w.view = view /\ IsRow(w)
    BY <1>2 DEF IsRow
  <1>7. rows = [n \in Kinds |-> rows[n]] /\ k \in Kinds /\ i \in DOMAIN rows[k] /\ row = rows[k][i]
    <2>1. RowsAreLists(rows) /\ Fits(registry, Counts(rows))
      BY DEF RowsFit
    <2>2. k \in Kinds /\ i \in 1..Len(rows[k])
      BY <1>1, <1>2, <2>1, IdAtIs
    <2> QED BY <1>2, <2>1, <2>2, ListFacts DEF RowsAreLists, RowOf
  <1>8. rows' = [rows EXCEPT ![k] = [rows[k] EXCEPT ![i] = w]]
    <2>1. PICK y : y = [row EXCEPT !.active = active]
      OBVIOUS
    <2>2. y = [name |-> row.name, active |-> active, sig |-> row.sig, view |-> row.view]
      BY <1>5, <2>1
    <2>3. CASE k = "alg"
      <3>1. rows' = [rows EXCEPT ![k][i].active = active, ![k][i].view = view]
        BY <1>1, <1>2, <2>3 DEF SetConstraintActive
      <3>2. PICK z : z = [y EXCEPT !.view = view]
        OBVIOUS
      <3>3. z = w
        BY <1>2, <2>2, <3>2
      <3>4. PICK M : M = [rows EXCEPT ![k][i].active = active]
        OBVIOUS
      <3>5. M = [rows EXCEPT ![k] = [rows[k] EXCEPT ![i] = y]]
        BY <1>7, <2>1, <3>4
      <3>6. M[k] = [rows[k] EXCEPT ![i] = y] /\ M[k][i] = y
        BY <1>7, <3>5
      <3>7. rows' = [M EXCEPT ![k] = [M[k] EXCEPT ![i] = z]]
        BY <3>1, <3>2, <3>4, <3>6
      <3>8. [M[k] EXCEPT ![i] = z] = [rows[k] EXCEPT ![i] = w]
        BY <3>3, <3>6
      <3> QED BY <1>7, <3>5, <3>7, <3>8
    <2>4. CASE k # "alg"
      <3>1. rows' = [rows EXCEPT ![k][i].active = active]
        BY <1>1, <1>2, <2>4 DEF SetConstraintActive
      <3>2. y = w
        BY <1>2, <2>2, <2>4
      <3> QED BY <1>7, <2>1, <3>1, <3>2
    <2> QED BY <2>3, <2>4
  <1>9. RowEdited(rows, rows', id, w)
    BY <1>1, <1>2, <1>6, <1>8, RowSet DEF RowsFit
  <1>10. /\ SameElsewhere(inactive', inactive, id)
         /\ id.kind = "alg" /\ ~active => id \in DOMAIN inactive' /\ inactive'[id] = row.view
         /\ id.kind = "alg" /\ active => id \notin DOMAIN inactive'
         /\ id.kind # "alg" => inactive' = inactive
    <2>1. CASE id.kind # "alg"
      BY <2>1 DEF SetConstraintActive, SameElsewhere
    <2>2. CASE id.kind = "alg" /\ active
      <3>1. inactive' = Forget(inactive, id)
        BY <2>2 DEF SetConstraintActive
      <3> QED BY <2>2, <3>1 DEF Forget, Restrict, SameElsewhere
    <2>3. CASE id.kind = "alg" /\ ~active
      <3>1. inactive' = Remember(inactive, id, row.view)
        BY <1>2, <1>7, <2>3 DEF SetConstraintActive
      <3> QED BY <2>3, <3>1 DEF Remember, SameElsewhere
    <2> QED BY <2>1, <2>2, <2>3
  <1>11. Kept(inactive', id, w) = Kept(inactive, id, row)
    <2>1. id \in DOMAIN inactive <=> id.kind = "alg" /\ ~row.active
      BY <1>3 DEF Lowers
    <2>2. CASE id.kind # "alg"
      BY <1>2, <1>6, <1>10, <2>2 DEF Kept
    <2>3. CASE id.kind = "alg" /\ active
      <3>1. Kept(inactive', id, w) = Activation(id, rec)
        BY <1>2, <1>6, <1>10, <2>3 DEF Kept
      <3> QED BY <1>4, <3>1 DEF Activation
    <2>4. CASE id.kind = "alg" /\ ~active
      <3>1. id \notin DOMAIN inactive
        BY <1>5, <2>1, <2>4
      <3> QED BY <1>10, <2>4, <3>1 DEF Kept
    <2> QED BY <2>2, <2>3, <2>4
  <1>12. Lowers(inactive', alternative, r, w)
    <2>1. id \in DOMAIN inactive' <=> id.kind = "alg" /\ ~w.active
      <3>1. id \in DOMAIN inactive <=> id.kind = "alg" /\ ~row.active
        BY <1>3 DEF Lowers
      <3> QED BY <1>6, <1>10, <3>1
    <2>2. id \in DOMAIN inactive' => w.view = free
      <3>1. id \in DOMAIN inactive' => id.kind = "alg" /\ ~active
        BY <1>6, <2>1
      <3> QED BY <1>2, <1>6, <3>1
    <2> QED BY <1>2, <1>3, <1>6, <1>11, <2>1, <2>2 DEF Lowers
  <1>13. HasChanged(registry, Counts(rows), p, w.name, r, registry')
    BY <1>3, <1>6 DEF HasChanged, SetConstraintActive, RowsFit
  <1>14. Edits(rows, registry, inactive, alternative, p, rows', registry', inactive', w, r)
    BY <1>1, <1>2, <1>3, <1>9, <1>10, <1>12, <1>13 DEF Edits
  <1>15. RecordOf(r, w, Kept(inactive', r.id, w)) = [rec EXCEPT !.active = active]
    <2>1. PICK v : v = Kept(inactive, id, row)
      OBVIOUS
    <2>2. CASE r.tag = "extension"
      <3>1. RecordOf(r, w, v) = [id |-> id, name |-> r.stored.name, fn |-> r.stored.fn, set |-> r.stored.set,
                                 origin |-> r.stored.origin, active |-> active]
        BY <1>3, <1>6, <2>2 DEF RecordOf
      <3>2. rec = [id |-> id, name |-> r.stored.name, fn |-> r.stored.fn, set |-> r.stored.set,
                   origin |-> r.stored.origin, active |-> row.active]
        BY <1>3, <2>1, <2>2 DEF RecordOf
      <3> QED BY <1>3, <1>11, <2>1, <3>1, <3>2
    <2>3. CASE r.tag # "extension"
      <3>1. PICK sig, fn, set :
              /\ sig = SignatureOf(r, row) /\ fn = [kind |-> sig.fn, root |-> v.root]
              /\ set = [kind |-> sig.set, lower |-> v.bounds.lower, upper |-> v.bounds.upper]
        OBVIOUS
      <3>2. SignatureOf(r, w) = sig
        BY <1>6, <3>1 DEF SignatureOf
      <3>3. RecordOf(r, w, v) = [id |-> id, name |-> row.name, active |-> active, origin |-> r.origin,
                                 fn |-> fn, set |-> set]
        BY <1>3, <1>6, <2>3, <3>1, <3>2 DEF RecordOf
      <3>4. rec = [id |-> id, name |-> row.name, active |-> row.active, origin |-> r.origin,
                   fn |-> fn, set |-> set]
        BY <1>3, <2>1, <2>3, <3>1 DEF RecordOf
      <3> QED BY <1>3, <1>11, <2>1, <3>3, <3>4
    <2> QED BY <2>2, <2>3
  <1>16. alternative' = alternative
    BY DEF SetConstraintActive
  <1> QED BY <1>1, <1>2, <1>14, <1>15, <1>16 DEF Edited

\* An edit of the pair, by `set_constraint_set` or `set_constraint_function`.
LEMMA PairEdited ==
    ASSUME RowsFit(rows, registry, inactive, alternative), NEW id \in AllIds, id \notin DOMAIN alternative,
           NEW old, old = RecordAt(Position(registry, id)),
           NEW rec, rec = [id |-> old.id, name |-> old.name, fn |-> rec.fn, set |-> rec.set,
                           origin |-> old.origin, active |-> old.active],
           Holds(Reading(registry, Position(registry, id), RowOf(rows, id).name), rec.fn, rec.set),
           EditRow(id, rec)
    PROVE  Edited(id, rec)
  <1>1. PICK p \in 0..Length(registry) - 1 :
             /\ Position(registry, id) = p /\ IdAt(registry, p) = id /\ id \in IdsOf(rows)
             /\ RecordAt(p) = RecordOf(ReadingIn(rows, registry, p), RowOf(rows, id),
                                       Kept(inactive, id, RowOf(rows, id)))
             /\ Lowers(inactive, alternative, ReadingIn(rows, registry, p), RowOf(rows, id))
             /\ ReadingIn(rows, registry, p) = Reading(registry, p, RowOf(rows, id).name)
             /\ ReadingIn(rows, registry, p).id = id
    BY RecordBefore
  <1>2. PICK row, r, fn, set, v, w, k, i, r2 :
          /\ row = RowOf(rows, id) /\ r = ReadingIn(rows, registry, p)
          /\ fn = rec.fn /\ set = rec.set /\ v = View(fn, set)
          /\ w = [name |-> row.name, active |-> row.active, sig |-> Signature(fn, set),
                  view |-> IF id \in DOMAIN inactive THEN row.view ELSE v]
          /\ k = id.kind /\ i = id.index + 1 /\ r2 = Rewritten(r, Stored(rec))
    OBVIOUS
  <1>3. /\ old = RecordOf(r, row, Kept(inactive, r.id, row)) /\ Lowers(inactive, alternative, r, row)
        /\ r = Reading(registry, p, row.name) /\ r.id = id /\ Holds(r, fn, set)
        /\ r.tag \in {"native", "extension"}
    BY <1>1, <1>2, ReadingTag
  <1>4. old = [id |-> id, name |-> row.name, fn |-> old.fn, set |-> old.set,
               origin |-> old.origin, active |-> row.active]
    BY <1>3, RecordShape
  <1>5. rec = [id |-> r.id, name |-> row.name, fn |-> fn, set |-> set,
               origin |-> RecordOf(r, row, Kept(inactive, r.id, row)).origin, active |-> row.active]
    <2>1. old.id = id /\ old.name = row.name /\ old.active = row.active
      BY <1>4
    <2> QED BY <1>2, <1>3, <2>1
  <1>6. row = [name |-> row.name, active |-> row.active, sig |-> row.sig, view |-> row.view]
        /\ row.active \in BOOLEAN
    BY <1>3 DEF Lowers, IsRow
  <1>7. w.name = row.name /\ IsRow(w)
    BY <1>2, <1>6 DEF IsRow
  <1>8. rows = [n \in Kinds |-> rows[n]] /\ k \in Kinds /\ i \in DOMAIN rows[k] /\ row = rows[k][i]
    <2>1. RowsAreLists(rows) /\ Fits(registry, Counts(rows))
      BY DEF RowsFit
    <2>2. k \in Kinds /\ i \in 1..Len(rows[k])
      BY <1>1, <1>2, <2>1, IdAtIs
    <2> QED BY <1>2, <2>1, <2>2, ListFacts DEF RowsAreLists, RowOf
  <1>9. rows' = [rows EXCEPT ![k] = [rows[k] EXCEPT ![i] = w]]
    <2>1. rows' = [rows EXCEPT ![k][i].view = IF id \in DOMAIN inactive THEN @ ELSE v,
                               ![k][i].sig = Signature(fn, set)]
      BY <1>2 DEF EditRow
    <2>2. PICK y, z, x : /\ x = (IF id \in DOMAIN inactive THEN row.view ELSE v)
                         /\ y = [row EXCEPT !.view = x] /\ z = [y EXCEPT !.sig = Signature(fn, set)]
      OBVIOUS
    <2>3. y = [name |-> row.name, active |-> row.active, sig |-> row.sig, view |-> x]
      BY <1>6, <2>2
    <2>4. z = w
      <3>1. w = [name |-> row.name, active |-> row.active, sig |-> Signature(fn, set), view |-> x]
        BY <1>2, <2>2
      <3>2. z = [y EXCEPT !.sig = Signature(fn, set)]
        BY <2>2
      <3> QED BY ONLY <2>3, <3>1, <3>2
    <2>5. PICK M : M = [rows EXCEPT ![k][i].view = IF id \in DOMAIN inactive THEN @ ELSE v]
      OBVIOUS
    <2>6. M = [rows EXCEPT ![k] = [rows[k] EXCEPT ![i] = y]]
      BY <1>8, <2>2, <2>5
    <2>7. M[k] = [rows[k] EXCEPT ![i] = y] /\ M[k][i] = y
      BY <1>8, <2>6
    <2>8. rows' = [M EXCEPT ![k] = [M[k] EXCEPT ![i] = z]]
      BY <2>1, <2>2, <2>5, <2>7
    <2>9. [M[k] EXCEPT ![i] = z] = [rows[k] EXCEPT ![i] = w]
      BY <2>4, <2>7
    <2> QED BY <1>8, <2>6, <2>8, <2>9
  <1>10. RowEdited(rows, rows', id, w)
    BY <1>1, <1>2, <1>7, <1>9, RowSet DEF RowsFit
  <1>11. SameElsewhere(inactive', inactive, id) /\ RowRewritten(inactive, inactive', row, w, id, fn, set)
    <2>1. inactive' = IF id \in DOMAIN inactive THEN [inactive EXCEPT ![id] = v] ELSE inactive
      BY <1>2 DEF EditRow
    <2>2. CASE id \in DOMAIN inactive
      BY <1>2, <2>1, <2>2 DEF SameElsewhere, RowRewritten
    <2>3. CASE id \notin DOMAIN inactive
      BY <1>2, <2>1, <2>3 DEF SameElsewhere, RowRewritten
    <2> QED BY <2>2, <2>3
  <1>12. /\ Lowers(inactive', alternative, r2, w) /\ r2.id = r.id
         /\ RecordOf(r2, w, Kept(inactive', r2.id, w)) = rec
    <2>1. PairRewritten(inactive, alternative, inactive', r, row, w, rec)
      BY <1>2, <1>3, <1>5, <1>11 DEF PairRewritten
    <2>2. /\ Lowers(inactive', alternative, Rewritten(r, Stored(rec)), w)
          /\ Rewritten(r, Stored(rec)).id = r.id
          /\ RecordOf(Rewritten(r, Stored(rec)), w, Kept(inactive', r.id, w)) = rec
      BY ONLY <2>1, RewrittenRecord
    <2> QED BY <1>2, <2>2
  <1>13. HasChanged(registry, Counts(rows), p, w.name, r2, registry')
    <2>1. registry' = Replaced(registry, id, rec) /\ Fits(registry, Counts(rows))
      BY DEF EditRow, RowsFit
    <2>2. HasChanged(registry, Counts(rows), p, row.name, Rewritten(Reading(registry, p, row.name), Stored(rec)),
                     Replaced(registry, id, rec))
      BY <1>1, <2>1, ReplacedFits
    <2> QED BY <1>2, <1>3, <1>7, <2>1, <2>2
  <1>14. Edits(rows, registry, inactive, alternative, p, rows', registry', inactive', w, r2)
    BY <1>1, <1>3, <1>10, <1>11, <1>12, <1>13 DEF Edits
  <1>15. alternative' = alternative
    BY DEF EditRow
  <1> QED BY <1>1, <1>12, <1>14, <1>15 DEF Edited

\* What the record of a native row says of its function.
LEMMA NativeRecord ==
    ASSUME NEW r, NEW row, NEW v, r.tag # "extension", NEW rec, rec = RecordOf(r, row, v)
    PROVE  /\ IsFunction(rec.fn) /\ IsSet(rec.set)
           /\ r.id.kind \notin Scalars => rec.fn.kind = NativeFn[r.id.kind]
  <1>1. PICK sig, fn, set :
          /\ sig = SignatureOf(r, row) /\ fn = [kind |-> sig.fn, root |-> v.root]
          /\ set = [kind |-> sig.set, lower |-> v.bounds.lower, upper |-> v.bounds.upper]
    OBVIOUS
  <1>2. rec = [id |-> r.id, name |-> row.name, active |-> row.active, origin |-> r.origin,
               fn |-> fn, set |-> set]
    BY <1>1 DEF RecordOf
  <1>3. rec.fn = fn /\ rec.set = set
    BY <1>2
  <1>4. fn.kind = sig.fn /\ IsFunction(fn) /\ IsSet(set)
    BY <1>1 DEF IsFunction, IsSet
  <1>5. ASSUME r.id.kind \notin Scalars
        PROVE  sig.fn = NativeFn[r.id.kind]
    BY <1>1, <1>5 DEF SignatureOf, Scalars
  <1> QED BY <1>3, <1>4, <1>5

LEMMA SetEdited ==
    ASSUME RowsFit(rows, registry, inactive, alternative), NEW id \in AllIds, NEW set \in SetValues,
           SetConstraintSet(id, set)
    PROVE  Edited(id, [RecordAt(Position(registry, id)) EXCEPT !.set = set])
  <1>1. PICK p \in 0..Length(registry) - 1 :
             /\ Position(registry, id) = p
             /\ RecordAt(p) = RecordOf(ReadingIn(rows, registry, p), RowOf(rows, id),
                                       Kept(inactive, id, RowOf(rows, id)))
             /\ Lowers(inactive, alternative, ReadingIn(rows, registry, p), RowOf(rows, id))
             /\ ReadingIn(rows, registry, p) = Reading(registry, p, RowOf(rows, id).name)
             /\ ReadingIn(rows, registry, p).id = id
    BY RecordBefore
  <1>2. PICK row, r, old, rec : /\ row = RowOf(rows, id) /\ r = ReadingIn(rows, registry, p)
                                /\ old = RecordAt(p) /\ rec = [old EXCEPT !.set = set]
    OBVIOUS
  <1>3. old = [id |-> id, name |-> row.name, fn |-> old.fn, set |-> old.set,
               origin |-> old.origin, active |-> row.active]
    BY <1>1, <1>2, RecordShape
  <1>4. rec = [id |-> old.id, name |-> old.name, fn |-> old.fn, set |-> set,
               origin |-> old.origin, active |-> old.active]
    <2>1. old.id = id /\ old.name = row.name /\ old.active = row.active
      BY <1>3
    <2> QED BY <1>2, <1>3, <2>1
  <1>5. rec.fn = old.fn /\ rec.set = set /\ IsSet(set)
    BY <1>4, DeclarationsAssumption
  <1>6. Holds(r, rec.fn, rec.set)
    <2>1. CASE r.tag = "extension"
      BY <2>1 DEF Holds
    <2>2. CASE r.tag # "extension"
      <3>1. IsFunction(old.fn) /\ (r.id.kind \notin Scalars => old.fn.kind = NativeFn[r.id.kind])
        BY <1>1, <1>2, <2>2, NativeRecord
      <3> QED BY <1>5, <3>1 DEF Holds
    <2> QED BY <2>1, <2>2
  <1>7. id \notin DOMAIN alternative /\ EditRow(id, rec)
    BY <1>1, <1>2 DEF SetConstraintSet, Updatable
  <1>8. rec = [id |-> old.id, name |-> old.name, fn |-> rec.fn, set |-> rec.set,
               origin |-> old.origin, active |-> old.active]
    BY <1>4, <1>5
  <1>9. old = RecordAt(Position(registry, id))
        /\ Holds(Reading(registry, Position(registry, id), RowOf(rows, id).name), rec.fn, rec.set)
    BY <1>1, <1>2, <1>6
  <1> QED BY <1>2, <1>7, <1>8, <1>9, PairEdited

LEMMA FunctionEdited ==
    ASSUME RowsFit(rows, registry, inactive, alternative), NEW id \in AllIds, NEW fn \in FunctionValues,
           SetConstraintFunction(id, fn)
    PROVE  Edited(id, [RecordAt(Position(registry, id)) EXCEPT !.fn = fn])
  <1>1. PICK p \in 0..Length(registry) - 1 :
             /\ Position(registry, id) = p /\ IdAt(registry, p) = id
             /\ RecordAt(p) = RecordOf(ReadingIn(rows, registry, p), RowOf(rows, id),
                                       Kept(inactive, id, RowOf(rows, id)))
             /\ Lowers(inactive, alternative, ReadingIn(rows, registry, p), RowOf(rows, id))
             /\ ReadingIn(rows, registry, p) = Reading(registry, p, RowOf(rows, id).name)
             /\ ReadingIn(rows, registry, p).id = id
    BY RecordBefore
  <1>2. PICK row, r, old, rec : /\ row = RowOf(rows, id) /\ r = ReadingIn(rows, registry, p)
                                /\ old = RecordAt(p) /\ rec = [old EXCEPT !.fn = fn]
    OBVIOUS
  <1>3. old = [id |-> id, name |-> row.name, fn |-> old.fn, set |-> old.set,
               origin |-> old.origin, active |-> row.active]
    BY <1>1, <1>2, RecordShape
  <1>4. rec = [id |-> old.id, name |-> old.name, fn |-> fn, set |-> old.set,
               origin |-> old.origin, active |-> old.active]
    <2>1. old.id = id /\ old.name = row.name /\ old.active = row.active
      BY <1>3
    <2> QED BY <1>2, <1>3, <2>1
  <1>5. rec.fn = fn /\ rec.set = old.set /\ IsFunction(fn)
    BY <1>4, DeclarationsAssumption
  <1>6. id.kind \in Kinds
    BY <1>1, IdAtIs DEF RowsFit
  <1>7. Holds(r, rec.fn, rec.set)
    <2>1. CASE r.tag = "extension"
      BY <2>1 DEF Holds
    <2>2. CASE r.tag # "extension"
      <3>1. IsSet(old.set) /\ (r.id.kind \notin Scalars => old.fn.kind = NativeFn[r.id.kind])
        BY <1>1, <1>2, <2>2, NativeRecord
      <3>2. ASSUME id.kind \notin Scalars
            PROVE  fn.kind = NativeFn[id.kind]
        <4>1. Type(fn) = Type(old.fn)
          BY <1>1, <1>2, <3>2 DEF SetConstraintFunction, Scalars
        <4>2. id.kind \in {"soc", "psd", "sos"}
          BY <1>6, <3>2 DEF Kinds, Scalars
        <4>3. NativeFn[id.kind] \in {"vector", "matrix", "variables"}
          BY <4>2 DEF NativeFn
        <4>4. old.fn.kind = NativeFn[id.kind]
          BY <1>1, <1>2, <3>1, <3>2
        <4> QED BY <4>1, <4>3, <4>4 DEF Type
      <3> QED BY <1>1, <1>2, <1>5, <3>1, <3>2 DEF Holds
    <2> QED BY <2>1, <2>2
  <1>8. id \notin DOMAIN alternative /\ EditRow(id, rec)
    BY <1>1, <1>2 DEF SetConstraintFunction, Updatable
  <1>9. rec = [id |-> old.id, name |-> old.name, fn |-> rec.fn, set |-> rec.set,
               origin |-> old.origin, active |-> old.active]
    BY <1>4, <1>5
  <1>10. old = RecordAt(Position(registry, id))
        /\ Holds(Reading(registry, Position(registry, id), RowOf(rows, id).name), rec.fn, rec.set)
    BY <1>1, <1>2, <1>7
  <1> QED BY <1>2, <1>8, <1>9, <1>10, PairEdited

\* What a new origin makes of a registry.
LEMMA OriginChanged ==
    ASSUME NEW reg, NEW c, Fits(reg, c), NEW p \in 0..Length(reg) - 1, NEW origin, NEW name
    PROVE  HasChanged(reg, c, p, name, Redirected(Reading(reg, p, name), origin),
                      WithOrigin(Materialised(reg), p, origin, name))
  <1>1. PICK m : m = Materialised(reg)
    OBVIOUS
  <1>2. Fits(m, c) /\ ~m.implicit /\ Length(m) = Length(reg) /\ Reading(m, p, name) = Reading(reg, p, name)
    BY <1>1, MaterialisedFits
  <1>3. HasChanged(m, c, p, name, Redirected(Reading(m, p, name), origin), WithOrigin(m, p, origin, name))
    BY <1>2, WithOriginFits
  <1> QED BY <1>1, <1>2, <1>3, MaterialisedChange

\* The same row is an edit of the row.
LEMMA RowKept ==
    ASSUME NEW R, RowsAreLists(R), NEW id \in IdsOf(R), IsRow(RowOf(R, id))
    PROVE  RowEdited(R, R, id, RowOf(R, id))
  BY DEF RowEdited, RowsAreLists

LEMMA OriginEdited ==
    ASSUME RowsFit(rows, registry, inactive, alternative), NEW id \in AllIds, NEW origin \in Origins,
           SetConstraintOrigin(id, origin)
    PROVE  Edited(id, [RecordAt(Position(registry, id)) EXCEPT !.origin = origin])
  <1>1. PICK p \in 0..Length(registry) - 1 :
             /\ Position(registry, id) = p /\ IdAt(registry, p) = id /\ id \in IdsOf(rows)
             /\ RecordAt(p) = RecordOf(ReadingIn(rows, registry, p), RowOf(rows, id),
                                       Kept(inactive, id, RowOf(rows, id)))
             /\ Lowers(inactive, alternative, ReadingIn(rows, registry, p), RowOf(rows, id))
             /\ ReadingIn(rows, registry, p) = Reading(registry, p, RowOf(rows, id).name)
             /\ ReadingIn(rows, registry, p).id = id
    BY RecordBefore
  <1>2. PICK row, r, old, r2, v : /\ row = RowOf(rows, id) /\ r = ReadingIn(rows, registry, p)
                                  /\ old = RecordAt(p) /\ r2 = Redirected(r, origin)
                                  /\ v = Kept(inactive, id, row)
    OBVIOUS
  <1>3. /\ old = RecordOf(r, row, v) /\ Lowers(inactive, alternative, r, row)
        /\ r = Reading(registry, p, row.name) /\ r.id = id
    BY <1>1, <1>2
  <1>4. /\ Lowers(inactive, alternative, r2, row) /\ r2.id = id
        /\ RecordOf(r2, row, v) = [old EXCEPT !.origin = origin]
    BY <1>2, <1>3, RedirectedRecord
  <1>5. old = [id |-> r.id, name |-> row.name, fn |-> old.fn, set |-> old.set,
               origin |-> old.origin, active |-> row.active]
    BY <1>2, <1>3, RecordShape
  <1>6. old.name = row.name
    BY <1>5
  <1>7. HasChanged(registry, Counts(rows), p, row.name, r2, registry')
    <2>1. Fits(registry, Counts(rows))
      BY DEF RowsFit
    <2>2. CASE registry.implicit /\ origin = Declared
      <3>1. registry' = registry
        BY <2>2 DEF SetConstraintOrigin
      <3>2. r = NativeReading(Id("alg", p), NoSignature, Declared)
        BY <1>3, <2>1, <2>2, ImplicitReading
      <3>3. r.tag = "native" /\ r.id = Id("alg", p) /\ Id("alg", p).kind = "alg"
        BY <3>2 DEF NativeReading, Id
      <3>4. r2 = NativeReading(Id("alg", p), r.sig, Declared)
        BY <1>2, <2>2, <3>3 DEF Redirected
      <3>5. r2 = r
        BY <3>2, <3>3, <3>4 DEF NativeReading
      <3> QED BY <1>3, <2>1, <3>1, <3>5 DEF HasChanged
    <2>3. CASE ~ (registry.implicit /\ origin = Declared)
      <3>1. registry' = WithOrigin(Materialised(registry), p, origin, row.name)
        BY <1>1, <1>2, <1>6, <2>3 DEF SetConstraintOrigin
      <3> QED BY <1>2, <1>3, <2>1, <3>1, OriginChanged
    <2> QED BY <2>2, <2>3
  <1>8. rows' = rows /\ inactive' = inactive /\ alternative' = alternative
    BY DEF SetConstraintOrigin
  <1>9. RowEdited(rows, rows', id, row)
    <2>1. RowsAreLists(rows) /\ IsRow(row)
      BY <1>3 DEF RowsFit, Lowers
    <2> QED BY <1>1, <1>2, <1>8, <2>1, RowKept
  <1>10. Edits(rows, registry, inactive, alternative, p, rows', registry', inactive', row, r2)
    BY <1>1, <1>4, <1>7, <1>8, <1>9 DEF Edits, SameElsewhere
  <1>11. RecordOf(r2, row, Kept(inactive', r2.id, row)) = [old EXCEPT !.origin = origin]
    BY <1>2, <1>4, <1>8
  <1> QED BY <1>1, <1>2, <1>8, <1>10, <1>11 DEF Edited

-----------------------------------------------------------------------------
(* Names                                                                   *)

\* The constraints that bear the name n, in a table of their names.
Bearers(f, n) == {id \in DOMAIN f : f[id] = n}

\* An entry of the table of names stands for the constraints B.
NameFits(C, e, B) ==
    /\ e.many \in BOOLEAN
    /\ ~e.many => B = {e.id}
    /\ e.many => /\ e.at \in 1..Len(C) /\ IsList(C[e.at]) /\ Len(C[e.at]) > 1
                 /\ ToSet(C[e.at]) = B

\* The table t of the names f: no two names share a list of collisions.
NamesFit(t, f) ==
    /\ t = [entries |-> t.entries, collisions |-> t.collisions] /\ IsList(t.collisions)
    /\ \A n \in DOMAIN t.entries : NameFits(t.collisions, t.entries[n], Bearers(f, n))
    /\ \A n, m \in DOMAIN t.entries :
         t.entries[n].many /\ t.entries[m].many /\ t.entries[n].at = t.entries[m].at => n = m
    /\ \A id \in DOMAIN f : f[id] \in DOMAIN t.entries

LEMMA IdsAreBearers ==
    ASSUME NEW t, NEW f, NamesFit(t, f), NEW n
    PROVE  /\ ToSet(Ids(t, n)) = Bearers(f, n)
           /\ n \in DOMAIN t.entries => (t.entries[n].many <=> Len(Ids(t, n)) > 1)
  <1>1. CASE n \notin DOMAIN t.entries
    <2>1. Ids(t, n) = <<>>
      BY <1>1 DEF Ids
    <2>2. ToSet(<<>>) = {}
      BY DEF ToSet
    <2>3. Bearers(f, n) = {}
      BY <1>1 DEF NamesFit, Bearers
    <2> QED BY <1>1, <2>1, <2>2, <2>3
  <1>2. CASE n \in DOMAIN t.entries /\ t.entries[n].many
    BY <1>2 DEF Ids, NamesFit, NameFits
  <1>3. CASE n \in DOMAIN t.entries /\ ~t.entries[n].many
    <2>1. PICK i : i = t.entries[n].id
      OBVIOUS
    <2>2. Ids(t, n) = <<i>> /\ Bearers(f, n) = {i}
      BY <1>3, <2>1 DEF Ids, NamesFit, NameFits
    <2>3. ToSet(<<i>>) = {i} /\ Len(<<i>>) = 1
      BY DEF ToSet
    <2> QED BY <1>3, <2>2, <2>3
  <1> QED BY <1>1, <1>2, <1>3

LEMMA SetOfAppended ==
    ASSUME NEW s, IsList(s), NEW x
    PROVE  ToSet(Append(s, x)) = ToSet(s) \cup {x}
  <1>1. PICK n, y : n = Len(s) /\ y = Append(s, x)
    OBVIOUS
  <1>2. n \in Nat /\ DOMAIN s = 1..n /\ IsList(y) /\ Len(y) = n + 1 /\ y[n + 1] = x
        /\ \A i \in 1..n : y[i] = s[i]
    BY <1>1, ListFacts, AppendedList
  <1>3. DOMAIN y = 1..n + 1
    BY <1>2, ListFacts
  <1>4. \A i \in 1..n + 1 : i \in 1..n \/ i = n + 1
    BY <1>2
  <1>5. n + 1 \in 1..n + 1 /\ \A i \in 1..n : i \in 1..n + 1
    BY <1>2
  <1> QED BY <1>1, <1>2, <1>3, <1>4, <1>5 DEF ToSet

\* A new constraint takes a name, which others may bear.
LEMMA BindFits ==
    ASSUME NEW t, NEW f, NamesFit(t, f), NEW id, id \notin DOMAIN f, NEW name
    PROVE  NamesFit(Bind(t, name, id), Remember(f, id, name))
  <1>1. PICK T, g, E, C, old, s : /\ T = Bind(t, name, id) /\ g = Remember(f, id, name)
                                  /\ E = t.entries /\ C = t.collisions /\ old = E[name] /\ s = Single(id)
    OBVIOUS
  <1>2. DOMAIN g = DOMAIN f \cup {id} /\ g[id] = name /\ \A j \in DOMAIN f : g[j] = f[j]
    BY <1>1 DEF Remember
  <1>3. Bearers(g, name) = Bearers(f, name) \cup {id} /\ \A n : n # name => Bearers(g, n) = Bearers(f, n)
    BY <1>2 DEF Bearers
  <1>4. /\ t = [entries |-> E, collisions |-> C] /\ IsList(C) /\ Len(C) \in Nat /\ DOMAIN C = 1..Len(C)
        /\ \A n \in DOMAIN E : NameFits(C, E[n], Bearers(f, n))
        /\ \A n, m \in DOMAIN E : E[n].many /\ E[m].many /\ E[n].at = E[m].at => n = m
        /\ \A j \in DOMAIN f : f[j] \in DOMAIN E
    BY <1>1, ListFacts DEF NamesFit
  <1>5. CASE name \notin DOMAIN E
    <2>1. PICK F : F = Remember(E, name, s)
      OBVIOUS
    <2>2. T = [entries |-> F, collisions |-> C]
      <3>1. T = [t EXCEPT !.entries = F]
        BY <1>1, <1>5, <2>1 DEF Bind
      <3> QED BY <1>4, <3>1
    <2>3. DOMAIN F = DOMAIN E \cup {name} /\ F[name] = s /\ \A n \in DOMAIN E : F[n] = E[n]
      BY <1>5, <2>1 DEF Remember
    <2>4. s.many = FALSE /\ s.id = id
      BY <1>1 DEF Single
    <2>5. Bearers(f, name) = {}
      BY <1>4, <1>5 DEF Bearers
    <2>6. NameFits(C, s, Bearers(g, name))
      BY <1>3, <2>4, <2>5 DEF NameFits
    <2>7. \A n \in DOMAIN F : NameFits(C, F[n], Bearers(g, n))
      BY <1>3, <1>4, <1>5, <2>3, <2>6
    <2>8. \A n, m \in DOMAIN F : F[n].many /\ F[m].many /\ F[n].at = F[m].at => n = m
      BY <1>4, <1>5, <2>3, <2>4
    <2>9. \A j \in DOMAIN g : g[j] \in DOMAIN F
      BY <1>2, <1>4, <2>3
    <2>10. T.entries = F /\ T.collisions = C
      BY <2>2
    <2> QED BY <1>1, <1>4, <2>2, <2>7, <2>8, <2>9, <2>10 DEF NamesFit
  <1>6. CASE name \in DOMAIN E /\ old.many
    <2>1. PICK a, L, D : a = old.at /\ L = Append(C[a], id) /\ D = [C EXCEPT ![a] = L]
      OBVIOUS
    <2>2. a \in 1..Len(C) /\ IsList(C[a]) /\ Len(C[a]) > 1 /\ ToSet(C[a]) = Bearers(f, name)
      BY <1>1, <1>4, <1>6, <2>1 DEF NameFits
    <2>3. T = [entries |-> E, collisions |-> D]
      <3>1. T = [t EXCEPT !.collisions[a] = Append(@, id)]
        BY <1>1, <1>6, <2>1 DEF Bind
      <3>2. T = [t EXCEPT !.collisions = D]
        BY <1>1, <2>1, <3>1
      <3> QED BY <1>4, <3>2
    <2>4. DOMAIN D = 1..Len(C) /\ D[a] = L /\ \A i \in 1..Len(C) : i # a => D[i] = C[i]
      BY <1>4, <2>1, <2>2
    <2>5. IsList(D) /\ Len(D) = Len(C)
      <3>1. D = [i \in 1..Len(C) |-> D[i]]
        BY <1>4, <2>1
      <3> QED BY <1>4, <2>4, <3>1, ListOf
    <2>6. IsList(L) /\ Len(L) > 1 /\ ToSet(L) = Bearers(g, name)
      <3>1. IsList(L) /\ Len(L) = Len(C[a]) + 1 /\ Len(C[a]) \in Nat
        BY <2>1, <2>2, AppendedList, ListFacts
      <3>2. ToSet(L) = ToSet(C[a]) \cup {id}
        BY <2>1, <2>2, SetOfAppended
      <3> QED BY <1>3, <2>2, <3>1, <3>2
    <2>7. NameFits(D, E[name], Bearers(g, name))
      BY <1>1, <1>6, <2>1, <2>2, <2>4, <2>5, <2>6 DEF NameFits
    <2>8. ASSUME NEW n \in DOMAIN E, n # name
          PROVE  NameFits(D, E[n], Bearers(g, n))
      <3>1. NameFits(C, E[n], Bearers(g, n))
        BY <1>3, <1>4, <2>8
      <3>2. E[n].many => E[n].at # a
        BY <1>1, <1>4, <1>6, <2>1, <2>8
      <3> QED BY <2>4, <2>5, <3>1, <3>2 DEF NameFits
    <2>9. \A n \in DOMAIN E : NameFits(D, E[n], Bearers(g, n))
      BY <2>7, <2>8
    <2>10. \A j \in DOMAIN g : g[j] \in DOMAIN E
      BY <1>2, <1>4, <1>6
    <2>11. T.entries = E /\ T.collisions = D
      BY <2>3
    <2> QED BY <1>1, <1>4, <2>3, <2>5, <2>9, <2>10, <2>11 DEF NamesFit
  <1>7. CASE name \in DOMAIN E /\ ~old.many
    <2>1. PICK P, D, e, F, c : /\ P = <<old.id, id>> /\ c = Len(C) + 1 /\ e = Many(c)
                               /\ D = Append(C, P) /\ F = [E EXCEPT ![name] = e]
      OBVIOUS
    <2>2. T = [entries |-> F, collisions |-> D]
      <3>1. T = [t EXCEPT !.collisions = Append(@, P), !.entries[name] = e]
        BY <1>1, <1>7, <2>1 DEF Bind
      <3>2. PICK z : z = [t EXCEPT !.collisions = Append(@, P)]
        OBVIOUS
      <3>3. z = [entries |-> E, collisions |-> D]
        BY <1>4, <2>1, <3>2
      <3>4. z.entries = E /\ z.collisions = D
        BY <3>3
      <3>5. T = [z EXCEPT !.entries[name] = e]
        BY <3>1, <3>2
      <3>6. T = [z EXCEPT !.entries = F]
        BY <2>1, <3>4, <3>5
      <3> QED BY <3>3, <3>6
    <2>3. IsList(D) /\ Len(D) = c /\ D[c] = P /\ \A i \in 1..Len(C) : D[i] = C[i]
      BY <1>4, <2>1, AppendedList
    <2>4. IsList(P) /\ Len(P) = 2 /\ ToSet(P) = {old.id, id}
      <3>1. IsList(P) /\ Len(P) = 2
        BY <2>1, ShortLists
      <3>2. DOMAIN P = 1..2 /\ P[1] = old.id /\ P[2] = id
        BY <2>1
      <3> QED BY <3>1, <3>2 DEF ToSet
    <2>5. DOMAIN F = DOMAIN E /\ F[name] = e /\ \A n \in DOMAIN E : n # name => F[n] = E[n]
      BY <1>7, <2>1
    <2>6. e.many = TRUE /\ e.at = c
      BY <2>1 DEF Many
    <2>7. NameFits(D, e, Bearers(g, name))
      <3>1. Bearers(f, name) = {old.id}
        BY <1>1, <1>4, <1>7 DEF NameFits
      <3>2. c \in 1..Len(D)
        BY <1>4, <2>1, <2>3
      <3>3. Bearers(g, name) = {old.id, id}
        BY <1>3, <3>1
      <3>4. e.at \in 1..Len(D) /\ IsList(D[e.at]) /\ Len(D[e.at]) > 1 /\ ToSet(D[e.at]) = Bearers(g, name)
        <4>1. D[e.at] = P
          BY <2>3, <2>6
        <4>2. ToSet(P) = Bearers(g, name)
          BY ONLY <2>4, <3>3
        <4>3. e.at \in 1..Len(D)
          BY <2>6, <3>2
        <4>4. IsList(P) /\ Len(P) > 1
          BY ONLY <2>4
        <4> QED BY ONLY <4>1, <4>2, <4>3, <4>4
      <3> QED BY <2>6, <3>4 DEF NameFits
    <2>8. ASSUME NEW n \in DOMAIN E, n # name
          PROVE  NameFits(D, E[n], Bearers(g, n))
      <3>1. NameFits(C, E[n], Bearers(g, n))
        BY <1>3, <1>4, <2>8
      <3>2. \A i \in 1..Len(C) : i \in 1..Len(D)
        BY <1>4, <2>1, <2>3
      <3> QED BY <2>3, <3>1, <3>2 DEF NameFits
    <2>9. \A n \in DOMAIN F : NameFits(D, F[n], Bearers(g, n))
      BY <2>5, <2>7, <2>8
    <2>10. \A n, m \in DOMAIN F : F[n].many /\ F[m].many /\ F[n].at = F[m].at => n = m
      <3>1. \A n \in DOMAIN E : E[n].many => E[n].at \in 1..Len(C)
        BY <1>4 DEF NameFits
      <3>2. c \notin 1..Len(C)
        BY <1>4, <2>1
      <3> QED BY <1>4, <2>5, <2>6, <3>1, <3>2
    <2>11. \A j \in DOMAIN g : g[j] \in DOMAIN F
      BY <1>2, <1>4, <1>7, <2>5
    <2>12. T.entries = F /\ T.collisions = D
      BY <2>2
    <2> QED BY <1>1, <2>2, <2>3, <2>9, <2>10, <2>11, <2>12 DEF NamesFit
  <1>8. name \in DOMAIN E => old.many \in BOOLEAN
    BY <1>1, <1>4 DEF NameFits
  <1> QED BY <1>5, <1>6, <1>7, <1>8

-----------------------------------------------------------------------------
(* Registration                                                            *)

\* The record of a declaration, under its id.
DeclaredRecord(id, d) ==
    [id |-> id, name |-> d.name, fn |-> d.fn, set |-> d.set, origin |-> d.origin, active |-> TRUE]

\* A declaration is read back from the row and the entry made of it.
LEMMA DeclaredReads ==
    ASSUME NEW d, IsDeclaration(d), NEW id, id.kind = d.kind, NEW I, id \notin DOMAIN I,
           NEW B, id \in DOMAIN B <=> IsAlternative(d), IsAlternative(d) => B[id] = d.view
    PROVE  /\ Lowers(I, B, DeclaredReading(id, d), NewRow(d)) /\ DeclaredReading(id, d).id = id
           /\ RecordOf(DeclaredReading(id, d), NewRow(d), Kept(I, id, NewRow(d))) = DeclaredRecord(id, d)
           /\ NewRow(d).name = d.name /\ IsRow(NewRow(d))
  <1>1. PICK w, r, fn, set, sig, view, k :
          /\ w = NewRow(d) /\ r = DeclaredReading(id, d) /\ fn = d.fn /\ set = d.set /\ k = d.kind
          /\ sig = (IF k = "alg" /\ IsAlternative(d) THEN NoSignature ELSE Signature(fn, set))
          /\ view = (IF k \in Scalars THEN d.view ELSE View(fn, set))
    OBVIOUS
  <1>2. w = [name |-> d.name, active |-> TRUE, sig |-> sig, view |-> view]
    BY <1>1 DEF NewRow
  <1>3. w.name = d.name /\ w.active = TRUE /\ w.sig = sig /\ w.view = view /\ IsRow(w)
    BY <1>2 DEF IsRow
  <1>4. Kept(I, id, w) = view
    BY <1>3 DEF Kept
  <1>5. /\ IsFunction(fn) /\ IsSet(set) /\ IsView(d.view) /\ k \in Kinds
        /\ k \in DOMAIN NativeFn => fn.kind \in {NativeFn[k], "custom"}
    BY <1>1 DEF IsDeclaration
  <1>6. IsView(view)
    <2>1. PICK v : v = View(fn, set)
      OBVIOUS
    <2>2. v = [root |-> fn.root, bounds |-> [lower |-> set.lower, upper |-> set.upper]]
      BY <2>1 DEF View, Bounds
    <2>3. v.root = fn.root /\ v.bounds = [lower |-> set.lower, upper |-> set.upper]
      BY <2>2
    <2>4. v.bounds.lower = set.lower /\ v.bounds.upper = set.upper
      BY <2>3
    <2>5. IsView(v)
      BY <2>2, <2>3, <2>4 DEF IsView
    <2> QED BY <1>1, <1>5, <2>1, <2>5
  <1>7. view = IF IsAlternative(d) THEN d.view ELSE View(fn, set)
    BY <1>1 DEF IsAlternative
  <1>8. CASE IsDirect(d)
    <2>1. r = NativeReading(id, Signature(fn, set), d.origin)
      BY <1>1, <1>8 DEF DeclaredReading
    <2>2. r.id = id /\ r.tag = "native" /\ r.origin = d.origin
          /\ (id.kind = "ind" => r.sig = Signature(fn, set))
      BY <2>1 DEF NativeReading
    <2>3. fn.kind # "custom" /\ ~IsAlternative(d)
      BY <1>1, <1>8 DEF IsDirect
    <2>4. PICK g : g = Signature(fn, set)
      OBVIOUS
    <2>5. g = [fn |-> fn.kind, set |-> set.kind] /\ sig = g
      BY <1>1, <2>3, <2>4 DEF Signature
    <2>6. g.fn = fn.kind /\ g.set = set.kind
      BY <2>5
    <2>7. view = [root |-> fn.root, bounds |-> [lower |-> set.lower, upper |-> set.upper]]
      BY <1>7, <2>3 DEF View, Bounds
    <2>8. view.root = fn.root /\ view.bounds = [lower |-> set.lower, upper |-> set.upper]
      BY <2>7
    <2>9. view.bounds.lower = set.lower /\ view.bounds.upper = set.upper
      BY <2>8
    <2>10. PICK x : x = SignatureOf(r, w)
      OBVIOUS
    <2>11. x.fn = fn.kind /\ x.set = set.kind
      <3>1. CASE k = "alg"
        BY <1>1, <1>3, <2>2, <2>5, <2>6, <2>10, <3>1 DEF SignatureOf
      <3>2. CASE k = "ind"
        BY <1>1, <2>2, <2>4, <2>6, <2>10, <3>2 DEF SignatureOf
      <3>3. CASE k # "alg" /\ k # "ind"
        <4>1. x = [fn |-> NativeFn[k], set |-> g.set]
          BY <1>1, <1>3, <2>2, <2>5, <2>10, <3>3 DEF SignatureOf
        <4>2. k \in {"soc", "psd", "sos"}
          BY <1>5, <3>3 DEF Kinds
        <4>3. k \in DOMAIN NativeFn
          BY <4>2 DEF NativeFn
        <4>4. fn.kind = NativeFn[k]
          BY <1>5, <2>3, <4>3
        <4> QED BY <2>6, <4>1, <4>4
      <3> QED BY <3>1, <3>2, <3>3
    <2>12. RecordOf(r, w, view) =
             [id |-> id, name |-> d.name, active |-> TRUE, origin |-> d.origin,
              fn |-> [kind |-> fn.kind, root |-> fn.root],
              set |-> [kind |-> set.kind, lower |-> set.lower, upper |-> set.upper]]
      BY <1>3, <2>2, <2>8, <2>9, <2>10, <2>11 DEF RecordOf
    <2>13. RecordOf(r, w, view) = DeclaredRecord(id, d)
      BY <1>1, <1>5, <2>12 DEF DeclaredRecord, IsFunction, IsSet
    <2>14. Lowers(I, B, r, w)
      BY <1>3, <1>4, <1>6, <2>2, <2>3 DEF Lowers
    <2> QED BY <1>1, <1>3, <1>4, <2>2, <2>13, <2>14
  <1>9. CASE ~IsDirect(d)
    <2>1. r = ExtensionReading(id, StoredOf(d))
      BY <1>1, <1>9 DEF DeclaredReading
    <2>2. PICK s : s = StoredOf(d)
      OBVIOUS
    <2>3. r.id = id /\ r.tag = "extension" /\ r.stored = s
      BY <2>1, <2>2 DEF ExtensionReading
    <2>4. s.name = d.name /\ s.fn = fn /\ s.set = set /\ s.origin = d.origin
      BY <1>1, <2>2 DEF StoredOf
    <2>5. RecordOf(r, w, view) = DeclaredRecord(id, d)
      BY <1>1, <1>3, <2>3, <2>4 DEF RecordOf, DeclaredRecord
    <2>6. view = IF id \in DOMAIN B THEN B[id] ELSE View(s.fn, s.set)
      BY <1>7, <2>4
    <2>7. Lowers(I, B, r, w)
      BY <1>3, <1>4, <1>6, <2>3, <2>4, <2>6 DEF Lowers
    <2> QED BY <1>1, <1>3, <1>4, <2>3, <2>5, <2>7
  <1> QED BY <1>8, <1>9

\* One constraint more.
AppendedRow(R, k, w) == [R EXCEPT ![k] = Append(R[k], w)]
WithView(A, id, d) == IF IsAlternative(d) THEN Remember(A, id, d.view) ELSE A
NextId(R, k) == Id(k, Len(R[k]))

Registers(R, reg, I, A, d, new) ==
    /\ RowsFit(R, reg, I, A) /\ IsDeclaration(d)
    /\ HasOneMore(reg, Counts(R), d.kind, d.name, DeclaredReading(NextId(R, d.kind), d), new)

LEMMA AppendedRowFits ==
    ASSUME NEW R, RowsAreLists(R), NEW k \in Kinds, NEW w, IsRow(w), NEW S, S = AppendedRow(R, k, w)
    PROVE  /\ RowsAreLists(S) /\ IdsOf(S) = IdsOf(R) \cup {NextId(R, k)} /\ NextId(R, k) \notin IdsOf(R)
           /\ Counts(S) = Plus(Counts(R), k) /\ RowOf(S, NextId(R, k)) = w
           /\ \A j \in IdsOf(R) : RowOf(S, j) = RowOf(R, j)
           /\ NextId(R, k).kind = k /\ Counts(R)[k] = Len(R[k])
           /\ NamesIn(S) = Remember(NamesIn(R), NextId(R, k), w.name)
  <1>1. PICK id, n, X : id = NextId(R, k) /\ n = Len(R[k]) /\ X = Append(R[k], w)
    OBVIOUS
  <1>2. R = [m \in Kinds |-> R[m]]
        /\ \A m \in Kinds : IsList(R[m]) /\ Len(R[m]) \in Nat /\ DOMAIN R[m] = 1..Len(R[m])
    BY ListFacts DEF RowsAreLists
  <1>3. IsList(X) /\ Len(X) = n + 1 /\ X[n + 1] = w /\ (\A i \in 1..n : X[i] = R[k][i]) /\ n \in Nat
        /\ DOMAIN X = 1..n + 1
    <2>1. IsList(X) /\ Len(X) = n + 1 /\ X[n + 1] = w /\ \A i \in 1..n : X[i] = R[k][i]
      BY <1>1, <1>2, AppendedList
    <2> QED BY <1>1, <1>2, <2>1, ListFacts
  <1>4. S = [m \in Kinds |-> IF m = k THEN X ELSE R[m]]
    BY <1>1, <1>2 DEF AppendedRow
  <1>5. S = [m \in Kinds |-> S[m]] /\ S[k] = X /\ \A m \in Kinds : m # k => S[m] = R[m]
    BY <1>4
  <1>6. id.kind = k /\ id.index = n /\ id = Id(k, n)
    BY <1>1 DEF NextId, Id
  <1>7. RowsAreLists(S)
    <2>1. ASSUME NEW m \in Kinds, NEW i \in 1..Len(S[m])
          PROVE  IsRow(S[m][i])
      <3>1. CASE m # k
        BY <1>5, <3>1 DEF RowsAreLists
      <3>2. CASE m = k /\ i = n + 1
        BY <1>3, <1>5, <3>2
      <3>3. CASE m = k /\ i \in 1..n
        BY <1>1, <1>3, <1>5, <3>3 DEF RowsAreLists
      <3> QED BY <1>3, <1>5, <3>1, <3>2, <3>3
    <2>2. \A m \in Kinds : IsList(S[m])
      BY <1>2, <1>3, <1>5
    <2> QED BY <1>5, <2>1, <2>2 DEF RowsAreLists
  <1>8. Counts(S) = Plus(Counts(R), k) /\ Counts(R)[k] = n
    BY <1>1, <1>3, <1>5 DEF Counts, Plus
  <1>9. \A j : j \in IdsOf(R) <=> \E m \in Kinds : \E x \in 0..Len(R[m]) - 1 : j = Id(m, x)
    BY IdsAre DEF Counts
  <1>10. \A j : j \in IdsOf(S) <=> \E m \in Kinds : \E x \in 0..Len(S[m]) - 1 : j = Id(m, x)
    BY <1>7, IdsAre DEF Counts
  <1>11. \A m, x : Id(m, x).kind = m /\ Id(m, x).index = x
    BY DEF Id
  <1>12. id \notin IdsOf(R)
    <2> SUFFICES ASSUME id \in IdsOf(R) PROVE FALSE
      OBVIOUS
    <2>1. PICK m, x : m \in Kinds /\ x \in 0..Len(R[m]) - 1 /\ id = Id(m, x)
      BY <1>9
    <2>2. m = k /\ x = n
      BY <1>6, <1>11, <2>1
    <2> QED BY <1>1, <1>3, <2>1, <2>2
  <1>13. IdsOf(S) = IdsOf(R) \cup {id}
    <2>1. ASSUME NEW j \in IdsOf(S)
          PROVE  j \in IdsOf(R) \cup {id}
      <3>1. PICK m, x : m \in Kinds /\ x \in 0..Len(S[m]) - 1 /\ j = Id(m, x)
        BY <1>10
      <3>2. CASE m # k
        BY <1>5, <1>9, <3>1, <3>2
      <3>3. CASE m = k
        <4>1. x \in 0..n - 1 \/ x = n
          BY <1>3, <1>5, <3>1, <3>3
        <4> QED BY <1>1, <1>6, <1>9, <3>1, <3>3, <4>1
      <3> QED BY <3>2, <3>3
    <2>2. id \in IdsOf(S)
      <3>1. n \in 0..Len(S[k]) - 1
        BY <1>3, <1>5
      <3> QED BY <1>6, <1>10, <3>1
    <2>3. ASSUME NEW j \in IdsOf(R)
          PROVE  j \in IdsOf(S)
      <3>1. PICK m, x : m \in Kinds /\ x \in 0..Len(R[m]) - 1 /\ j = Id(m, x)
        BY <1>9
      <3>2. x \in 0..Len(S[m]) - 1
        BY <1>1, <1>2, <1>3, <1>5, <3>1
      <3> QED BY <1>10, <3>1, <3>2
    <2> QED BY <2>1, <2>2, <2>3
  <1>14. RowOf(S, id) = w
    BY <1>3, <1>5, <1>6 DEF RowOf
  <1>15. ASSUME NEW j \in IdsOf(R)
         PROVE  RowOf(S, j) = RowOf(R, j)
    <2>1. PICK m, x : m \in Kinds /\ x \in 0..Len(R[m]) - 1 /\ j = Id(m, x)
      BY <1>9
    <2>2. j.kind = m /\ j.index = x /\ x + 1 \in 1..Len(R[m])
      BY <1>2, <1>11, <2>1
    <2>3. S[m][x + 1] = R[m][x + 1]
      BY <1>1, <1>3, <1>5, <2>1, <2>2
    <2> QED BY <2>2, <2>3 DEF RowOf
  <1>16. NamesIn(S) = Remember(NamesIn(R), id, w.name)
    BY <1>12, <1>13, <1>14, <1>15 DEF NamesIn, Remember
  <1> QED BY <1>1, <1>6, <1>7, <1>8, <1>12, <1>13, <1>14, <1>15, <1>16

LEMMA RegisteredFits ==
    ASSUME NEW R, NEW reg, NEW I, NEW A, NEW d, NEW new, Registers(R, reg, I, A, d, new),
           NEW S, S = AppendedRow(R, d.kind, NewRow(d)),
           NEW B, B = WithView(A, NextId(R, d.kind), d)
    PROVE  /\ RowsFit(S, new, I, B) /\ Length(new) = Length(reg) + 1
           /\ NamesIn(S) = Remember(NamesIn(R), NextId(R, d.kind), d.name)
           /\ IdAt(new, Length(reg)) = NextId(R, d.kind)
           /\ RecordIn(S, new, I, Length(reg)) = DeclaredRecord(NextId(R, d.kind), d)
           /\ \A q \in 0..Length(reg) - 1 :
                IdAt(new, q) = IdAt(reg, q) /\ RecordIn(S, new, I, q) = RecordIn(R, reg, I, q)
  <1>1. PICK k, id, w, n, r : /\ k = d.kind /\ id = NextId(R, k) /\ w = NewRow(d) /\ n = Length(reg)
                              /\ r = DeclaredReading(id, d)
    OBVIOUS
  <1>2. /\ RowsAreLists(R) /\ Fits(reg, Counts(R)) /\ IsDeclaration(d) /\ k \in Kinds
        /\ DOMAIN I \subseteq IdsOf(R) /\ DOMAIN A \subseteq IdsOf(R) /\ n \in Nat
    BY <1>1, LengthIs DEF Registers, RowsFit, IsDeclaration
  <1>3. id.kind = k
    BY <1>1 DEF NextId, Id
  <1>4. w.name = d.name /\ IsRow(w)
    <2>1. PICK B0 : B0 = IF IsAlternative(d) THEN [i \in {id} |-> d.view] ELSE <<>>
      OBVIOUS
    <2>2. (id \in DOMAIN B0 <=> IsAlternative(d)) /\ (IsAlternative(d) => B0[id] = d.view)
      BY <2>1
    <2>3. id \notin DOMAIN <<>>
      OBVIOUS
    <2> QED BY <1>1, <1>2, <1>3, <2>2, <2>3, DeclaredReads
  <1>5. /\ RowsAreLists(S) /\ IdsOf(S) = IdsOf(R) \cup {id} /\ id \notin IdsOf(R)
        /\ Counts(S) = Plus(Counts(R), k) /\ RowOf(S, id) = w
        /\ \A j \in IdsOf(R) : RowOf(S, j) = RowOf(R, j)
        /\ NamesIn(S) = Remember(NamesIn(R), id, w.name)
    BY <1>1, <1>2, <1>4, AppendedRowFits
  <1>6. (id \in DOMAIN B <=> IsAlternative(d)) /\ (IsAlternative(d) => B[id] = d.view)
        /\ SameElsewhere(B, A, id) /\ DOMAIN B \subseteq IdsOf(S)
    <2>1. CASE IsAlternative(d)
      <3>1. B = Remember(A, id, d.view)
        BY <1>1, <2>1 DEF WithView
      <3> QED BY <1>2, <1>5, <2>1, <3>1 DEF Remember, SameElsewhere
    <2>2. CASE ~IsAlternative(d)
      <3>1. B = A
        BY <1>1, <2>2 DEF WithView
      <3> QED BY <1>2, <1>5, <2>2, <3>1 DEF SameElsewhere
    <2> QED BY <2>1, <2>2
  <1>7. /\ Lowers(I, B, r, w) /\ r.id = id
        /\ RecordOf(r, w, Kept(I, id, w)) = DeclaredRecord(id, d)
    <2>1. id \notin DOMAIN I
      BY <1>2, <1>5
    <2> QED BY <1>1, <1>2, <1>3, <1>6, <2>1, DeclaredReads
  <1>8. /\ Fits(new, Counts(S)) /\ Length(new) = n + 1 /\ Reading(new, n, w.name) = r
        /\ \A p \in 0..n - 1 : \A m : Reading(new, p, m) = Reading(reg, p, m)
    BY <1>1, <1>4, <1>5 DEF Registers, HasOneMore
  <1>9. IdAt(new, n) = id
    <2>1. Reading(new, n, w.name).id = IdAt(new, n)
      BY ReadingId DEF IdAt
    <2> QED BY <1>7, <1>8, <2>1
  <1>10. RowAt(S, new, n) = w /\ ReadingIn(S, new, n) = r
    <2>1. RowAt(S, new, n) = w
      BY <1>5, <1>9 DEF RowAt
    <2> QED BY <1>8, <2>1 DEF ReadingIn
  <1>11. ASSUME NEW q \in 0..n - 1
         PROVE  /\ IdAt(new, q) = IdAt(reg, q) /\ IdAt(reg, q) \in IdsOf(R)
                /\ RowAt(S, new, q) = RowAt(R, reg, q) /\ ReadingIn(S, new, q) = ReadingIn(R, reg, q)
    <2>1. IdAt(new, q) = IdAt(reg, q)
      <3>1. Reading(new, q, w.name).id = IdAt(new, q) /\ Reading(reg, q, w.name).id = IdAt(reg, q)
        BY ReadingId DEF IdAt
      <3> QED BY <1>8, <3>1
    <2>2. IdAt(reg, q) \in IdsOf(R)
      BY <1>1, <1>2, IdAtIs
    <2>3. RowAt(S, new, q) = RowAt(R, reg, q)
      BY <1>5, <2>1, <2>2 DEF RowAt
    <2>4. ReadingIn(S, new, q) = ReadingIn(R, reg, q)
      BY <1>8, <2>3 DEF ReadingIn
    <2> QED BY <2>1, <2>2, <2>3, <2>4
  <1>12. ASSUME NEW q \in 0..Length(new) - 1
         PROVE  Lowers(I, B, ReadingIn(S, new, q), RowAt(S, new, q))
    <2>1. CASE q = n
      BY <1>7, <1>10, <2>1
    <2>2. CASE q \in 0..n - 1
      <3>1. PICK x, row : x = ReadingIn(R, reg, q) /\ row = RowAt(R, reg, q)
        OBVIOUS
      <3>2. Lowers(I, A, x, row)
        BY <1>1, <2>2, <3>1 DEF Registers, RowsFit
      <3>3. x.id = IdAt(reg, q)
        BY <3>1, ReadingId DEF ReadingIn, IdAt
      <3>4. x.id # id
        BY <1>5, <1>11, <2>2, <3>3
      <3>5. /\ x.id \in DOMAIN B <=> x.id \in DOMAIN A
            /\ x.id \in DOMAIN A => B[x.id] = A[x.id]
        BY <1>6, <3>4 DEF SameElsewhere
      <3>6. Lowers(I, B, x, row)
        BY <3>2, <3>5 DEF Lowers
      <3> QED BY <1>11, <2>2, <3>1, <3>6
    <2> QED BY <1>2, <1>8, <2>1, <2>2
  <1>13. RowsFit(S, new, I, B)
    <2>1. DOMAIN I \subseteq IdsOf(S)
      BY <1>2, <1>5
    <2> QED BY <1>5, <1>6, <1>8, <1>12, <2>1 DEF RowsFit
  <1>14. RecordIn(S, new, I, n) = DeclaredRecord(id, d)
    BY <1>7, <1>9, <1>10 DEF RecordIn
  <1>15. \A q \in 0..n - 1 : IdAt(new, q) = IdAt(reg, q) /\ RecordIn(S, new, I, q) = RecordIn(R, reg, I, q)
    BY <1>11 DEF RecordIn
  <1> QED BY <1>1, <1>4, <1>5, <1>8, <1>9, <1>13, <1>14, <1>15

-----------------------------------------------------------------------------
(* Batches                                                                 *)

\* The tables that a registration writes, and those tables after one more.
Tables(R, reg, A, t) == [rows |-> R, registry |-> reg, alternative |-> A, names |-> t]

WithOne(T, d) ==
    Tables(AppendedRow(T.rows, d.kind, NewRow(d)), Record(T.registry, NextId(T.rows, d.kind), d),
           WithView(T.alternative, NextId(T.rows, d.kind), d),
           Bind(T.names, d.name, NextId(T.rows, d.kind)))

AllFit(T, I) ==
    /\ RowsFit(T.rows, T.registry, I, T.alternative) /\ NamesFit(T.names, NamesIn(T.rows))

\* The records of T are the first of U.
Keeps(T, U, I) ==
    /\ Length(T.registry) <= Length(U.registry)
    /\ \A q \in 0..Length(T.registry) - 1 :
         /\ IdAt(U.registry, q) = IdAt(T.registry, q)
         /\ RecordIn(U.rows, U.registry, I, q) = RecordIn(T.rows, T.registry, I, q)

\* Position q of T is the declaration d, under the id.
Declares(T, I, q, id, d) ==
    /\ IdAt(T.registry, q) = id /\ RecordIn(T.rows, T.registry, I, q) = DeclaredRecord(id, d)
    /\ id \in DOMAIN T.alternative <=> IsAlternative(d)

\* The tables U hold one declaration more than T.
HasOne(T, U, I, d) ==
    LET id == NextId(T.rows, d.kind)
    IN /\ AllFit(U, I) /\ Length(U.registry) = Length(T.registry) + 1 /\ Length(T.registry) \in Nat
       /\ Keeps(T, U, I) /\ Declares(U, I, Length(T.registry), id, d)
       /\ DOMAIN U.alternative \ {id} = DOMAIN T.alternative
       /\ IdsOf(U.rows) = IdsOf(T.rows) \cup {id} /\ id \notin IdsOf(T.rows)
       /\ Len(T.rows[d.kind]) \in Nat /\ NextId(U.rows, d.kind) = Id(d.kind, Len(T.rows[d.kind]) + 1)

LEMMA OneRegistered ==
    ASSUME NEW T, NEW I, AllFit(T, I), NEW d, IsDeclaration(d), Length(T.registry) < MaxRecords
    PROVE  HasOne(T, WithOne(T, d), I, d)
  <1>n. PICK U : U = WithOne(T, d)
    OBVIOUS
  <1>1. PICK R, reg, A, t, k, id : R = T.rows /\ reg = T.registry /\ A = T.alternative /\ t = T.names
                                   /\ k = d.kind /\ id = NextId(R, k)
    OBVIOUS
  <1>2. PICK S, new, B, u : S = AppendedRow(R, d.kind, NewRow(d)) /\ new = Record(reg, id, d)
                            /\ B = WithView(A, id, d) /\ u = Bind(t, d.name, id)
    OBVIOUS
  <1>3. U.rows = S /\ U.registry = new /\ U.alternative = B /\ U.names = u
    <2>1. U = [rows |-> S, registry |-> new, alternative |-> B, names |-> u]
      BY <1>n, <1>1, <1>2 DEF WithOne, Tables
    <2> QED BY <2>1
  <1>4. RowsFit(R, reg, I, A) /\ NamesFit(t, NamesIn(R)) /\ RowsAreLists(R) /\ Fits(reg, Counts(R)) /\ k \in Kinds
    BY <1>1 DEF AllFit, RowsFit, IsDeclaration
  <1>5. Registers(R, reg, I, A, d, new)
    <2>1. Counts(R)[k] = Len(R[k])
      BY <1>4 DEF Counts
    <2>2. HasOneMore(reg, Counts(R), d.kind, d.name, DeclaredReading(Id(d.kind, Counts(R)[d.kind]), d),
                     Record(reg, Id(d.kind, Counts(R)[d.kind]), d))
      BY <1>1, <1>4, RecordedOne
    <2>3. Id(d.kind, Counts(R)[d.kind]) = id
      BY <1>1, <2>1 DEF NextId
    <2> QED BY <1>1, <1>2, <1>4, <2>2, <2>3 DEF Registers
  <1>6. /\ RowsFit(S, new, I, B) /\ Length(new) = Length(reg) + 1
        /\ NamesIn(S) = Remember(NamesIn(R), id, d.name)
        /\ IdAt(new, Length(reg)) = id
        /\ RecordIn(S, new, I, Length(reg)) = DeclaredRecord(id, d)
        /\ \A q \in 0..Length(reg) - 1 :
             IdAt(new, q) = IdAt(reg, q) /\ RecordIn(S, new, I, q) = RecordIn(R, reg, I, q)
    BY <1>1, <1>2, <1>5, RegisteredFits
  <1>7. IsRow(NewRow(d))
    <2>1. PICK w : w = NewRow(d)
      OBVIOUS
    <2>2. w.name = d.name /\ w.active = TRUE
          /\ w = [name |-> w.name, active |-> w.active, sig |-> w.sig, view |-> w.view]
      BY <2>1 DEF NewRow
    <2> QED BY <2>1, <2>2 DEF IsRow
  <1>8. /\ IdsOf(S) = IdsOf(R) \cup {id} /\ id \notin IdsOf(R) /\ Counts(S) = Plus(Counts(R), k)
    BY <1>1, <1>2, <1>4, <1>7, AppendedRowFits
  <1>9. NamesFit(u, NamesIn(S))
    <2>1. id \notin DOMAIN NamesIn(R)
      BY <1>8 DEF NamesIn
    <2> QED BY <1>2, <1>4, <1>6, <2>1, BindFits
  <1>10. DOMAIN A \subseteq IdsOf(R)
    BY <1>4 DEF RowsFit
  <1>11. (id \in DOMAIN B <=> IsAlternative(d)) /\ DOMAIN B \ {id} = DOMAIN A
    <2>1. CASE IsAlternative(d)
      BY <1>2, <1>8, <1>10, <2>1 DEF WithView, Remember
    <2>2. CASE ~IsAlternative(d)
      BY <1>2, <1>8, <1>10, <2>2 DEF WithView
    <2> QED BY <2>1, <2>2
  <1>12. Len(R[k]) \in Nat /\ NextId(S, k) = Id(k, Len(R[k]) + 1)
    <2>1. Len(R[k]) \in Nat
      BY <1>4, ListFacts DEF RowsAreLists
    <2>2. Counts(S)[k] = Len(S[k]) /\ Counts(R)[k] = Len(R[k])
      BY <1>4 DEF Counts
    <2>3. Plus(Counts(R), k)[k] = Counts(R)[k] + 1
      BY <1>4 DEF Plus, Counts
    <2> QED BY <1>8, <2>1, <2>2, <2>3 DEF NextId
  <1>13. Length(reg) \in Nat
    BY <1>4, LengthIs
  <1>14. AllFit(U, I)
    BY <1>3, <1>6, <1>9 DEF AllFit
  <1>15. Keeps(T, U, I)
    BY <1>1, <1>3, <1>6, <1>13 DEF Keeps
  <1>16. Declares(U, I, Length(reg), id, d)
    BY <1>3, <1>6, <1>11 DEF Declares
  <1> QED BY <1>n, <1>1, <1>3, <1>6, <1>8, <1>11, <1>12, <1>13, <1>14, <1>15, <1>16 DEF HasOne

\* The tables U hold the constraints of a batch after those of T.
HasBatch(T, U, I, batch) ==
    LET base == Len(T.rows[batch[1].kind])
        IdOf(i) == Id(batch[1].kind, base + i - 1)
    IN /\ AllFit(U, I) /\ Length(U.registry) = Length(T.registry) + Len(batch) /\ Keeps(T, U, I)
       /\ Length(T.registry) \in Nat /\ base \in Nat
       /\ \A i \in 1..Len(batch) : Declares(U, I, Length(T.registry) + i - 1, IdOf(i), batch[i])
       /\ DOMAIN U.alternative \ {IdOf(i) : i \in 1..Len(batch)} = DOMAIN T.alternative
       /\ IdsOf(U.rows) = IdsOf(T.rows) \cup {IdOf(i) : i \in 1..Len(batch)}
       /\ \A i \in 1..Len(batch) : IdOf(i) \notin IdsOf(T.rows)

\* A batch has one or two declarations of a kind.
IsBatch(batch) ==
    /\ Len(batch) \in {1, 2} /\ DOMAIN batch = 1..Len(batch)
    /\ \A i \in 1..Len(batch) : IsDeclaration(batch[i]) /\ batch[i].kind = batch[1].kind

WithBatch(T, batch) == IF Len(batch) = 1 THEN WithOne(T, batch[1]) ELSE WithOne(WithOne(T, batch[1]), batch[2])

LEMMA BatchRegistered ==
    ASSUME NEW T, NEW I, AllFit(T, I), NEW batch, IsBatch(batch),
           Length(T.registry) + Len(batch) <= MaxRecords
    PROVE  HasBatch(T, WithBatch(T, batch), I, batch)
  <1>1. PICK d, k, n, U, base, m : /\ d = batch[1] /\ k = d.kind /\ n = Len(batch) /\ U = WithOne(T, d)
                                   /\ base = Len(T.rows[k]) /\ m = Length(T.registry)
    OBVIOUS
  <1>2. IsDeclaration(d) /\ n \in {1, 2} /\ m \in Nat /\ m < MaxRecords
    <2>1. m \in Nat
      BY <1>1, LengthIs DEF AllFit, RowsFit
    <2> QED BY <1>1, <2>1, WordAssumption DEF IsBatch
  <1>3. /\ AllFit(U, I) /\ Length(U.registry) = m + 1 /\ Keeps(T, U, I) /\ Declares(U, I, m, Id(k, base), d)
        /\ DOMAIN U.alternative \ {Id(k, base)} = DOMAIN T.alternative
        /\ IdsOf(U.rows) = IdsOf(T.rows) \cup {Id(k, base)} /\ Id(k, base) \notin IdsOf(T.rows)
        /\ base \in Nat /\ NextId(U.rows, k) = Id(k, base + 1)
    <2>1. NextId(T.rows, d.kind) = Id(k, base)
      BY <1>1 DEF NextId
    <2>2. AllFit(T, I) /\ IsDeclaration(d) /\ Length(T.registry) < MaxRecords
      BY <1>1, <1>2
    <2>3. HasOne(T, WithOne(T, d), I, d)
      BY ONLY <2>2, OneRegistered
    <2> QED BY <1>1, <2>1, <2>3 DEF HasOne
  <1>4. base + 1 - 1 = base /\ base + 2 - 1 = base + 1 /\ m + 1 - 1 = m /\ m + 2 - 1 = m + 1
    BY <1>2, <1>3
  <1>5. CASE n = 1
    <2>1. WithBatch(T, batch) = U
      BY <1>1, <1>5 DEF WithBatch
    <2>2. 1..n = {1}
      BY <1>5
    <2>3. {Id(k, base + i - 1) : i \in 1..n} = {Id(k, base)}
      BY <1>4, <2>2
    <2>4. \A i \in 1..n : Declares(U, I, m + i - 1, Id(k, base + i - 1), batch[i])
                          /\ Id(k, base + i - 1) \notin IdsOf(T.rows)
      BY <1>1, <1>3, <1>4, <2>2
    <2> QED BY <1>1, <1>2, <1>3, <1>5, <2>1, <2>3, <2>4 DEF HasBatch
  <1>6. CASE n = 2
    <2>1. PICK e, V : e = batch[2] /\ V = WithOne(U, e)
      OBVIOUS
    <2>2. WithBatch(T, batch) = V
      BY <1>1, <1>6, <2>1 DEF WithBatch
    <2>3. IsDeclaration(e) /\ e.kind = k /\ Length(U.registry) < MaxRecords
      BY <1>1, <1>2, <1>3, <1>6, <2>1, WordAssumption DEF IsBatch
    <2>4. /\ AllFit(V, I) /\ Length(V.registry) = m + 2 /\ Keeps(U, V, I)
          /\ Declares(V, I, m + 1, Id(k, base + 1), e)
          /\ DOMAIN V.alternative \ {Id(k, base + 1)} = DOMAIN U.alternative
          /\ IdsOf(V.rows) = IdsOf(U.rows) \cup {Id(k, base + 1)} /\ Id(k, base + 1) \notin IdsOf(U.rows)
      <3>1. NextId(U.rows, e.kind) = Id(k, base + 1)
        BY <1>3, <2>3
      <3>2. m + 1 + 1 = m + 2
        BY <1>2
      <3>3. HasOne(U, WithOne(U, e), I, e)
        <4>1. AllFit(U, I)
          BY <1>3
        <4> QED BY ONLY <2>3, <4>1, OneRegistered
      <3> QED BY <1>3, <2>1, <3>1, <3>2, <3>3 DEF HasOne
    <2>5. Declares(V, I, m, Id(k, base), d)
      <3>1. m \in 0..Length(U.registry) - 1
        BY <1>2, <1>3
      <3>2. IdAt(V.registry, m) = IdAt(U.registry, m)
            /\ RecordIn(V.rows, V.registry, I, m) = RecordIn(U.rows, U.registry, I, m)
        BY <2>4, <3>1 DEF Keeps
      <3>3. Id(k, base) # Id(k, base + 1)
        BY <1>3, <2>4
      <3>4. Id(k, base) \in DOMAIN V.alternative <=> Id(k, base) \in DOMAIN U.alternative
        BY <2>4, <3>3
      <3> QED BY <1>3, <3>2, <3>4 DEF Declares
    <2>6. Keeps(T, V, I)
      <3>1. \A q \in 0..m - 1 : q \in 0..Length(U.registry) - 1
        BY <1>2, <1>3
      <3>2. m <= Length(V.registry)
        BY <1>2, <2>4
      <3> QED BY <1>1, <1>3, <2>4, <3>1, <3>2 DEF Keeps
    <2>7. \A i \in 1..n : i = 1 \/ i = 2
      BY <1>6
    <2>8. {Id(k, base + i - 1) : i \in 1..n} = {Id(k, base), Id(k, base + 1)}
      <3>1. 1..n = {1, 2}
        BY <1>6
      <3> QED BY <1>4, <3>1
    <2>9. \A i \in 1..n : Declares(V, I, m + i - 1, Id(k, base + i - 1), batch[i])
                          /\ Id(k, base + i - 1) \notin IdsOf(T.rows)
      BY <1>1, <1>3, <1>4, <2>1, <2>4, <2>5, <2>7
    <2>10. DOMAIN V.alternative \ {Id(k, base), Id(k, base + 1)} = DOMAIN T.alternative
           /\ IdsOf(V.rows) = IdsOf(T.rows) \cup {Id(k, base), Id(k, base + 1)}
      BY <1>3, <2>4
    <2> QED BY <1>1, <1>2, <1>3, <1>6, <2>2, <2>4, <2>6, <2>8, <2>9, <2>10 DEF HasBatch
  <1> QED BY <1>2, <1>5, <1>6

-----------------------------------------------------------------------------
(* The calls that register                                                 *)

Now == Tables(rows, registry, alternative, names)

LEMMA TablesAre ==
    ASSUME NEW R, NEW reg, NEW A, NEW t
    PROVE  /\ Tables(R, reg, A, t).rows = R /\ Tables(R, reg, A, t).registry = reg
           /\ Tables(R, reg, A, t).alternative = A /\ Tables(R, reg, A, t).names = t
  BY DEF Tables

\* A step from one table to the next, evaluated for one and for two elements.
LEMMA RowsOfBatch ==
    ASSUME NEW R, RowsAreLists(R), NEW batch, IsBatch(batch), NEW k, k = batch[1].kind,
           NEW t, t = [i \in DOMAIN batch |-> NewRow(batch[i])]
    PROVE  [R EXCEPT ![k] = R[k] \o t] =
             IF Len(batch) = 1 THEN AppendedRow(R, k, NewRow(batch[1]))
             ELSE AppendedRow(AppendedRow(R, k, NewRow(batch[1])), k, NewRow(batch[2]))
  <1>1. PICK s, n, x, y : /\ s = R[k] /\ n = Len(batch)
                          /\ x = NewRow(batch[1]) /\ y = NewRow(batch[2])
    OBVIOUS
  <1>2. k \in Kinds /\ n \in {1, 2} /\ DOMAIN batch = 1..n /\ R = [m \in Kinds |-> R[m]] /\ IsList(s)
    BY <1>1 DEF IsBatch, IsDeclaration, RowsAreLists
  <1>3. IsList(t) /\ Len(t) = n /\ t[1] = x /\ (n = 2 => t[2] = y)
    <2>1. DOMAIN t = 1..n /\ t = [i \in 1..n |-> t[i]] /\ n \in Nat
      BY <1>1, <1>2
    <2>2. 1 \in 1..n /\ (n = 2 => 2 \in 1..n)
      BY <1>2
    <2> QED BY <1>1, <1>2, <2>1, <2>2, ListOf
  <1>4. PICK u, v, w : u = s \o t /\ v = Append(s, x) /\ w = Append(v, y)
    OBVIOUS
  <1>5. /\ IsList(u) /\ Len(u) = Len(s) + n /\ (\A i \in 1..Len(s) : u[i] = s[i])
        /\ (\A i \in 1..n : u[Len(s) + i] = t[i]) /\ Len(s) \in Nat
    <2>1. IsList(u) /\ Len(u) = Len(s) + Len(t) /\ (\A i \in 1..Len(s) : u[i] = s[i])
          /\ \A i \in 1..Len(t) : u[Len(s) + i] = t[i]
      BY <1>2, <1>3, <1>4, JoinedLists
    <2>2. Len(s) \in Nat
      BY <1>2, ListFacts
    <2> QED BY <1>3, <2>1, <2>2
  <1>6. IsList(v) /\ Len(v) = Len(s) + 1 /\ v[Len(s) + 1] = x /\ \A i \in 1..Len(s) : v[i] = s[i]
    BY <1>2, <1>4, AppendedList
  <1>7. IsList(w) /\ Len(w) = Len(v) + 1 /\ w[Len(v) + 1] = y /\ \A i \in 1..Len(v) : w[i] = v[i]
    BY <1>4, <1>6, AppendedList
  <1>8. \A z : IsList(z) => z = [i \in 1..Len(z) |-> z[i]]
    BY DEF IsList
  <1>9. CASE n = 1
    <2>1. \A i \in 1..Len(s) + 1 : u[i] = v[i]
      <3>1. u[Len(s) + 1] = x
        BY <1>3, <1>5, <1>9
      <3> QED BY <1>5, <1>6, <3>1
    <2>2. u = v
      BY <1>5, <1>6, <1>8, <1>9, <2>1
    <2> QED BY <1>1, <1>4, <1>9, <2>2 DEF AppendedRow
  <1>10. CASE n = 2
    <2>1. \A i \in 1..Len(s) + 2 : u[i] = w[i]
      <3>1. u[Len(s) + 1] = x /\ u[Len(s) + 2] = y
        BY <1>3, <1>5, <1>10
      <3>2. w[Len(s) + 1] = x /\ w[Len(s) + 2] = y
        BY <1>5, <1>6, <1>7
      <3>3. \A i \in 1..Len(s) : w[i] = s[i]
        BY <1>5, <1>6, <1>7
      <3> QED BY <1>5, <3>1, <3>2, <3>3
    <2>2. u = w
      BY <1>5, <1>6, <1>7, <1>8, <1>10, <2>1
    <2>3. PICK Q : Q = AppendedRow(R, k, x)
      OBVIOUS
    <2>4. Q = [R EXCEPT ![k] = v] /\ Q[k] = v
      BY <1>1, <1>2, <1>4, <2>3 DEF AppendedRow
    <2>5. AppendedRow(Q, k, y) = [Q EXCEPT ![k] = w]
      BY <1>4, <2>4 DEF AppendedRow
    <2>6. [Q EXCEPT ![k] = w] = [R EXCEPT ![k] = w]
      BY <1>2, <2>4
    <2>7. [R EXCEPT ![k] = s \o t] = AppendedRow(Q, k, y)
      BY <1>4, <2>2, <2>5, <2>6
    <2>8. Len(batch) = 2 /\ Q = AppendedRow(R, k, NewRow(batch[1])) /\ y = NewRow(batch[2])
      BY <1>1, <1>10, <2>3
    <2>9. [R EXCEPT ![k] = R[k] \o t] = AppendedRow(Q, k, NewRow(batch[2]))
      BY <1>1, <2>7, <2>8
    <2> QED BY ONLY <2>8, <2>9
  <1> QED BY <1>1, <1>2, <1>9, <1>10

\* A function defined on 0..n by a step from the value before, n being 1 or 2.
LEMMA NamesOfBatch ==
    ASSUME NEW batch, IsBatch(batch), NEW base \in Nat
    PROVE  NamesWith(batch, base) =
             LET one == Bind(names, batch[1].name, Id(batch[1].kind, base))
             IN IF Len(batch) = 1 THEN one ELSE Bind(one, batch[2].name, Id(batch[1].kind, base + 1))
  <1> DEFINE n == Len(batch)
             Step(t, i) == Bind(t, batch[i].name, Id(batch[1].kind, base + i - 1))
             one == Bind(names, batch[1].name, Id(batch[1].kind, base))
             two == Bind(one, batch[2].name, Id(batch[1].kind, base + 1))
             Defines(g) == g = [i \in 0..n |-> IF i = 0 THEN names ELSE Step(g[i - 1], i)]
             table == CHOOSE g : Defines(g)
  <1>1. n \in {1, 2} /\ base + 1 - 1 = base /\ base + 2 - 1 = base + 1
    BY DEF IsBatch
  <1>2. NamesWith(batch, base) = table[n]
    BY DEF NamesWith
  <1>3. (\A t : Step(t, 1) = Bind(t, batch[1].name, Id(batch[1].kind, base)))
        /\ (\A t : Step(t, 2) = Bind(t, batch[2].name, Id(batch[1].kind, base + 1)))
    BY <1>1
  <1>4. Step(names, 1) = one /\ Step(one, 2) = two
    BY <1>3
  <1> HIDE DEF Step, one, two, n
  <1>5. \E g : Defines(g)
    <2>1. PICK f : f = [i \in 0..n |-> IF i = 0 THEN names ELSE IF i = 1 THEN one ELSE two]
      OBVIOUS
    <2>2. f[0] = names /\ f[1] = one
      BY <1>1, <2>1
    <2>3. ASSUME NEW i \in 0..n
          PROVE  f[i] = IF i = 0 THEN names ELSE Step(f[i - 1], i)
      <3>1. i = 0 \/ i = 1 \/ (i = 2 /\ n = 2)
        BY <1>1
      <3> QED BY <1>4, <2>1, <2>2, <3>1
    <2>4. f = [i \in 0..n |-> f[i]]
      BY <2>1
    <2>5. Defines(f)
      BY <2>3, <2>4
    <2> QED BY <2>5
  <1>6. Defines(table)
    <2> HIDE DEF Defines
    <2> QED BY <1>5
  <1>7. table[0] = names /\ table[1] = Step(table[0], 1) /\ (n = 2 => table[2] = Step(table[1], 2))
    <2> DEFINE a == table
    <2>1. a = [i \in 0..n |-> IF i = 0 THEN names ELSE Step(a[i - 1], i)]
      BY <1>6
    <2> HIDE DEF a
    <2>2. a[0] = names /\ a[1] = Step(a[0], 1) /\ (n = 2 => a[2] = Step(a[1], 2))
      BY <1>1, <2>1
    <2> QED BY <2>2 DEF a
  <1> HIDE DEF table
  <1>8. table[n] = IF n = 1 THEN one ELSE two
    BY <1>1, <1>4, <1>7
  <1> QED BY <1>2, <1>8 DEF n, one, two

LEMMA RecordsOfBatch ==
    ASSUME NEW batch, IsBatch(batch), NEW base \in Nat, base = Len(rows[batch[1].kind])
    PROVE  Recorded(batch) =
             LET one == Record(registry, Id(batch[1].kind, base), batch[1])
             IN IF Len(batch) = 1 THEN one ELSE Record(one, Id(batch[2].kind, base + 1), batch[2])
  <1> DEFINE n == Len(batch)
             Step(t, i) == Record(t, Id(batch[i].kind, base + i - 1), batch[i])
             one == Record(registry, Id(batch[1].kind, base), batch[1])
             two == Record(one, Id(batch[2].kind, base + 1), batch[2])
             Defines(g) == g = [i \in 0..n |-> IF i = 0 THEN registry ELSE Step(g[i - 1], i)]
             table == CHOOSE g : Defines(g)
  <1>1. n \in {1, 2} /\ base + 1 - 1 = base /\ base + 2 - 1 = base + 1
    BY DEF IsBatch
  <1>2. Recorded(batch) = table[n]
    BY DEF Recorded
  <1>3. (\A t : Step(t, 1) = Record(t, Id(batch[1].kind, base), batch[1]))
        /\ (\A t : Step(t, 2) = Record(t, Id(batch[2].kind, base + 1), batch[2]))
    BY <1>1
  <1>4. Step(registry, 1) = one /\ Step(one, 2) = two
    BY <1>3
  <1> HIDE DEF Step, one, two, n
  <1>5. \E g : Defines(g)
    <2>1. PICK f : f = [i \in 0..n |-> IF i = 0 THEN registry ELSE IF i = 1 THEN one ELSE two]
      OBVIOUS
    <2>2. f[0] = registry /\ f[1] = one
      BY <1>1, <2>1
    <2>3. ASSUME NEW i \in 0..n
          PROVE  f[i] = IF i = 0 THEN registry ELSE Step(f[i - 1], i)
      <3>1. i = 0 \/ i = 1 \/ (i = 2 /\ n = 2)
        BY <1>1
      <3> QED BY <1>4, <2>1, <2>2, <3>1
    <2>4. f = [i \in 0..n |-> f[i]]
      BY <2>1
    <2>5. Defines(f)
      BY <2>3, <2>4
    <2> QED BY <2>5
  <1>6. Defines(table)
    <2> HIDE DEF Defines
    <2> QED BY <1>5
  <1>7. table[0] = registry /\ table[1] = Step(table[0], 1) /\ (n = 2 => table[2] = Step(table[1], 2))
    <2> DEFINE a == table
    <2>1. a = [i \in 0..n |-> IF i = 0 THEN registry ELSE Step(a[i - 1], i)]
      BY <1>6
    <2> HIDE DEF a
    <2>2. a[0] = registry /\ a[1] = Step(a[0], 1) /\ (n = 2 => a[2] = Step(a[1], 2))
      BY <1>1, <2>1
    <2> QED BY <2>2 DEF a
  <1> HIDE DEF table
  <1>8. table[n] = IF n = 1 THEN one ELSE two
    BY <1>1, <1>4, <1>7
  <1> QED BY <1>2, <1>8 DEF n, one, two

\* The tables of views are functions.
IsTable(f) == f = [i \in DOMAIN f |-> f[i]]

LEMMA ViewsOfBatch ==
    ASSUME NEW batch, IsBatch(batch), NEW base \in Nat, IsTable(alternative)
    PROVE  WithViews(batch, base) =
             LET one == WithView(alternative, Id(batch[1].kind, base), batch[1])
             IN IF Len(batch) = 1 THEN one ELSE WithView(one, Id(batch[1].kind, base + 1), batch[2])
  <1>1. PICK n, k, A, d, e, f : /\ n = Len(batch) /\ k = batch[1].kind /\ A = alternative
                                /\ d = batch[1] /\ e = batch[2] /\ f = WithViews(batch, base)
    OBVIOUS
  <1>2. PICK x, y, B, C : x = Id(k, base) /\ y = Id(k, base + 1) /\ B = WithView(A, x, d) /\ C = WithView(B, y, e)
    OBVIOUS
  <1>3. n \in {1, 2} /\ DOMAIN batch = 1..n /\ x # y /\ x.index = base /\ y.index = base + 1
    BY <1>1, <1>2 DEF IsBatch, Id
  <1>4. PICK new, ids : /\ new = {i \in DOMAIN batch : IsAlternative(batch[i])}
                        /\ ids = {Id(batch[1].kind, base + i - 1) : i \in new}
    OBVIOUS
  <1>5. f = [id \in DOMAIN A \cup ids |-> IF id \in ids THEN batch[id.index - base + 1].view ELSE A[id]]
    BY <1>1, <1>4 DEF WithViews
  <1>6. /\ 1 \in new <=> IsAlternative(d)
        /\ 2 \in new <=> n = 2 /\ IsAlternative(e)
        /\ \A i \in new : i = 1 \/ i = 2
    <2>1. \A i \in 1..n : i = 1 \/ i = 2
      BY <1>3
    <2>2. 1 \in 1..n /\ (2 \in 1..n <=> n = 2)
      BY <1>3
    <2> QED BY <1>1, <1>3, <1>4, <2>1, <2>2
  <1>7. /\ x \in ids <=> IsAlternative(d)
        /\ y \in ids <=> n = 2 /\ IsAlternative(e)
        /\ \A id \in ids : id = x \/ id = y
    <2>1. Id(batch[1].kind, base + 1 - 1) = x /\ Id(batch[1].kind, base + 2 - 1) = y
      <3>1. base + 1 - 1 = base /\ base + 2 - 1 = base + 1
        OBVIOUS
      <3> QED BY <1>1, <1>2, <3>1
    <2>2. \A id : id \in ids <=> (1 \in new /\ id = x) \/ (2 \in new /\ id = y)
      BY <1>4, <1>6, <2>1
    <2> QED BY <1>3, <1>6, <2>2
  <1>8. batch[x.index - base + 1] = d /\ batch[y.index - base + 1] = e
    <2>1. x.index - base + 1 = 1 /\ y.index - base + 1 = 2
      BY <1>3
    <2> QED BY <1>1, <2>1
  <1>9. A = [i \in DOMAIN A |-> A[i]]
    BY <1>1 DEF IsTable
  <1>10. B = [id \in DOMAIN A \cup {i \in {x} : IsAlternative(d)} |->
                IF id = x /\ IsAlternative(d) THEN d.view ELSE A[id]]
    <2>1. CASE IsAlternative(d)
      <3>1. {i \in {x} : IsAlternative(d)} = {x}
        BY <2>1
      <3>2. B = [id \in DOMAIN A \cup {x} |-> IF id = x THEN d.view ELSE A[id]]
        BY <1>2, <2>1 DEF WithView, Remember
      <3> QED BY <2>1, <3>1, <3>2
    <2>2. CASE ~IsAlternative(d)
      <3>1. {i \in {x} : IsAlternative(d)} = {}
        BY <2>2
      <3>2. B = A
        BY <1>2, <2>2 DEF WithView
      <3> QED BY <1>9, <2>2, <3>1, <3>2
    <2> QED BY <2>1, <2>2
  <1>11. CASE n = 1
    <2>1. ids = {i \in {x} : IsAlternative(d)}
      BY <1>7, <1>11
    <2>2. f = B
      BY <1>5, <1>7, <1>8, <1>10, <2>1
    <2> QED BY <1>1, <1>2, <1>11, <2>2
  <1>12. CASE n = 2
    <2>1. C = [id \in DOMAIN B \cup {i \in {y} : IsAlternative(e)} |->
                 IF id = y /\ IsAlternative(e) THEN e.view ELSE B[id]]
      <3>1. CASE IsAlternative(e)
        <4>1. {i \in {y} : IsAlternative(e)} = {y}
          BY <3>1
        <4>2. C = [id \in DOMAIN B \cup {y} |-> IF id = y THEN e.view ELSE B[id]]
          BY <1>2, <3>1 DEF WithView, Remember
        <4> QED BY <3>1, <4>1, <4>2
      <3>2. CASE ~IsAlternative(e)
        <4>1. {i \in {y} : IsAlternative(e)} = {}
          BY <3>2
        <4>2. C = B
          BY <1>2, <3>2 DEF WithView
        <4>3. B = [i \in DOMAIN B |-> B[i]]
          BY <1>10
        <4> QED BY <3>2, <4>1, <4>2, <4>3
      <3> QED BY <3>1, <3>2
    <2>2. DOMAIN C = DOMAIN A \cup ids
      <3>1. ids = {i \in {x} : IsAlternative(d)} \cup {i \in {y} : IsAlternative(e)}
        BY <1>7, <1>12
      <3> QED BY <1>10, <2>1, <3>1
    <2>3. ASSUME NEW id \in DOMAIN A \cup ids
          PROVE  f[id] = C[id]
      <3>1. CASE id = y /\ IsAlternative(e)
        BY <1>5, <1>7, <1>8, <1>12, <2>1, <2>2, <3>1
      <3>2. CASE ~(id = y /\ IsAlternative(e))
        <4>1. C[id] = B[id] /\ id \in DOMAIN B
          BY <2>1, <2>2, <3>2
        <4>2. CASE id = x /\ IsAlternative(d)
          BY <1>5, <1>7, <1>8, <1>10, <4>1, <4>2
        <4>3. CASE ~(id = x /\ IsAlternative(d))
          <5>1. id \notin ids
            BY <1>7, <1>12, <3>2, <4>3
          <5> QED BY <1>5, <1>10, <4>1, <4>3, <5>1
        <4> QED BY <4>2, <4>3
      <3> QED BY <3>1, <3>2
    <2>4. f = C
      BY <1>5, <2>1, <2>2, <2>3
    <2> QED BY <1>1, <1>2, <1>12, <2>4
  <1> QED BY <1>3, <1>11, <1>12

LEMMA BatchTables ==
    ASSUME NEW batch, IsBatch(batch), AllFit(Now, inactive), IsTable(alternative), RegisterRows(batch)
    PROVE  /\ rows' = WithBatch(Now, batch).rows /\ names' = WithBatch(Now, batch).names
           /\ alternative' = WithBatch(Now, batch).alternative
           /\ Recorded(batch) = WithBatch(Now, batch).registry /\ IsTable(alternative)'
  <1>1. PICK n, k, d, e, base : /\ n = Len(batch) /\ k = d.kind /\ d = batch[1] /\ e = batch[2]
                                /\ base = Len(rows[k])
    OBVIOUS
  <1>2. n \in {1, 2} /\ k \in Kinds /\ base \in Nat /\ (n = 2 => e.kind = k) /\ RowsAreLists(rows)
    <2>1. RowsAreLists(rows)
      BY TablesAre DEF AllFit, RowsFit, Now
    <2>2. n \in {1, 2} /\ k \in Kinds /\ (n = 2 => e.kind = k)
      BY <1>1 DEF IsBatch, IsDeclaration
    <2> QED BY <1>1, <2>1, <2>2, ListFacts DEF RowsAreLists
  <1>3. PICK one, two : one = WithOne(Now, d) /\ two = WithOne(one, e)
    OBVIOUS
  <1>4. WithBatch(Now, batch) = IF n = 1 THEN one ELSE two
    BY <1>1, <1>3 DEF WithBatch
  <1>5. NextId(rows, k) = Id(k, base)
    BY <1>1 DEF NextId
  <1>6. /\ one.rows = AppendedRow(rows, k, NewRow(d)) /\ one.registry = Record(registry, Id(k, base), d)
        /\ one.alternative = WithView(alternative, Id(k, base), d)
        /\ one.names = Bind(names, d.name, Id(k, base))
    BY <1>1, <1>3, <1>5, TablesAre DEF WithOne, Now
  <1>7. n = 2 => NextId(one.rows, e.kind) = Id(k, base + 1)
    <2>1. IsRow(NewRow(d))
      <3>1. PICK w : w = NewRow(d)
        OBVIOUS
      <3>2. w.active = TRUE /\ w = [name |-> w.name, active |-> w.active, sig |-> w.sig, view |-> w.view]
        BY <3>1 DEF NewRow
      <3> QED BY <3>1, <3>2 DEF IsRow
    <2>2. Counts(one.rows) = Plus(Counts(rows), k) /\ Counts(rows)[k] = Len(rows[k])
      BY <1>2, <1>6, <2>1, AppendedRowFits
    <2>3. Counts(one.rows)[k] = Len(one.rows[k]) /\ Plus(Counts(rows), k)[k] = Counts(rows)[k] + 1
      BY <1>2 DEF Counts, Plus
    <2> QED BY <1>1, <1>2, <2>2, <2>3 DEF NextId
  <1>8. n = 2 =>
          /\ two.rows = AppendedRow(one.rows, e.kind, NewRow(e))
          /\ two.registry = Record(one.registry, Id(k, base + 1), e)
          /\ two.alternative = WithView(one.alternative, Id(k, base + 1), e)
          /\ two.names = Bind(one.names, e.name, Id(k, base + 1))
    BY <1>3, <1>7, TablesAre DEF WithOne
  <1>9. rows' = WithBatch(Now, batch).rows
    <2>1. PICK t : t = [i \in DOMAIN batch |-> NewRow(batch[i])]
      OBVIOUS
    <2>2. rows' = [rows EXCEPT ![k] = rows[k] \o t]
      BY <1>1, <2>1 DEF RegisterRows
    <2>3. [rows EXCEPT ![k] = rows[k] \o t] =
             IF Len(batch) = 1 THEN AppendedRow(rows, k, NewRow(batch[1]))
             ELSE AppendedRow(AppendedRow(rows, k, NewRow(batch[1])), k, NewRow(batch[2]))
      <3>1. RowsAreLists(rows) /\ IsBatch(batch) /\ k = batch[1].kind
        BY <1>1, <1>2
      <3> QED BY ONLY <2>1, <3>1, RowsOfBatch
    <2> QED BY <1>1, <1>2, <1>4, <1>6, <1>8, <2>2, <2>3
  <1>10. names' = WithBatch(Now, batch).names
    <2>1. names' = NamesWith(batch, base)
      BY <1>1 DEF RegisterRows
    <2>2. NamesWith(batch, base) =
             LET x == Bind(names, batch[1].name, Id(batch[1].kind, base))
             IN IF Len(batch) = 1 THEN x ELSE Bind(x, batch[2].name, Id(batch[1].kind, base + 1))
      BY <1>2, NamesOfBatch
    <2> QED BY <1>1, <1>2, <1>4, <1>6, <1>8, <2>1, <2>2
  <1>11. alternative' = WithBatch(Now, batch).alternative /\ IsTable(alternative)'
    <2>1. alternative' = WithViews(batch, base)
      BY <1>1 DEF RegisterRows
    <2>2. WithViews(batch, base) =
             LET x == WithView(alternative, Id(batch[1].kind, base), batch[1])
             IN IF Len(batch) = 1 THEN x ELSE WithView(x, Id(batch[1].kind, base + 1), batch[2])
      BY <1>2, ViewsOfBatch
    <2>3. IsTable(WithViews(batch, base))
      BY DEF IsTable, WithViews
    <2>4. IsTable(alternative')
      BY <2>1, <2>3
    <2>5. IsTable(alternative)'
      BY <2>4 DEF IsTable
    <2> QED BY <1>1, <1>2, <1>4, <1>6, <1>8, <2>1, <2>2, <2>5
  <1>12. Recorded(batch) = WithBatch(Now, batch).registry
    <2>1. Recorded(batch) =
             LET x == Record(registry, Id(batch[1].kind, base), batch[1])
             IN IF Len(batch) = 1 THEN x ELSE Record(x, Id(batch[2].kind, base + 1), batch[2])
      BY <1>1, <1>2, RecordsOfBatch
    <2> QED BY <1>1, <1>2, <1>4, <1>6, <1>8, <2>1
  <1> QED BY <1>9, <1>10, <1>11, <1>12

\* A declaration of another origin makes the same row, view and name.
Of(d, origin) == [d EXCEPT !.origin = origin]

LEMMA SameButOrigin ==
    ASSUME NEW d, IsDeclaration(d), NEW origin, NEW e, e = Of(d, origin)
    PROVE  /\ e.kind = d.kind /\ e.name = d.name /\ e.origin = origin /\ e.view = d.view /\ IsDeclaration(e)
           /\ NewRow(e) = NewRow(d) /\ (IsAlternative(e) <=> IsAlternative(d))
           /\ \A id : DeclaredRecord(id, e) = [DeclaredRecord(id, d) EXCEPT !.origin = origin]
           /\ \A A, id : WithView(A, id, e) = WithView(A, id, d)
           /\ (d.origin = origin => e = d) /\ \A o : Of(e, o) = Of(d, o)
  <1>1. d = [kind |-> d.kind, name |-> d.name, fn |-> d.fn, set |-> d.set,
             origin |-> d.origin, view |-> d.view]
    BY DEF IsDeclaration
  <1>2. e = [kind |-> d.kind, name |-> d.name, fn |-> d.fn, set |-> d.set,
             origin |-> origin, view |-> d.view]
    BY <1>1 DEF Of
  <1>3. e.kind = d.kind /\ e.name = d.name /\ e.fn = d.fn /\ e.set = d.set /\ e.origin = origin /\ e.view = d.view
    BY <1>2
  <1>4. IsAlternative(e) <=> IsAlternative(d)
    BY <1>3 DEF IsAlternative
  <1>5. NewRow(e) = NewRow(d)
    BY <1>3, <1>4 DEF NewRow
  <1>6. IsDeclaration(e)
    BY <1>2, <1>3 DEF IsDeclaration
  <1>7. ASSUME NEW id
        PROVE  DeclaredRecord(id, e) = [DeclaredRecord(id, d) EXCEPT !.origin = origin]
    <2>1. PICK r, x : r = DeclaredRecord(id, d) /\ x = DeclaredRecord(id, e)
      OBVIOUS
    <2>2. r = [id |-> id, name |-> d.name, fn |-> d.fn, set |-> d.set, origin |-> d.origin, active |-> TRUE]
      BY <2>1 DEF DeclaredRecord
    <2>3. x = [id |-> id, name |-> d.name, fn |-> d.fn, set |-> d.set, origin |-> origin, active |-> TRUE]
      BY <1>3, <2>1 DEF DeclaredRecord
    <2>4. PICK y : y = [r EXCEPT !.origin = origin]
      OBVIOUS
    <2>5. /\ r.id = id /\ r.name = d.name /\ r.fn = d.fn /\ r.set = d.set /\ r.active = TRUE
          /\ r = [id |-> r.id, name |-> r.name, fn |-> r.fn, set |-> r.set, origin |-> r.origin,
                  active |-> r.active]
      BY <2>2
    <2>6. y = [id |-> r.id, name |-> r.name, fn |-> r.fn, set |-> r.set, origin |-> origin,
               active |-> r.active]
      BY <2>4, <2>5
    <2> QED BY <2>1, <2>3, <2>4, <2>5, <2>6
  <1>8. \A A, id : WithView(A, id, e) = WithView(A, id, d)
    BY <1>3, <1>4 DEF WithView
  <1>9. d.origin = origin => e = d
    BY <1>1, <1>2
  <1>10. ASSUME NEW o
         PROVE  Of(e, o) = Of(d, o)
    <2>1. Of(d, o) = [kind |-> d.kind, name |-> d.name, fn |-> d.fn, set |-> d.set,
                      origin |-> o, view |-> d.view]
      BY <1>1 DEF Of
    <2>2. Of(e, o) = [kind |-> d.kind, name |-> d.name, fn |-> d.fn, set |-> d.set,
                      origin |-> o, view |-> d.view]
      <3>1. PICK z : z = Of(e, o)
        OBVIOUS
      <3>2. e = [kind |-> e.kind, name |-> e.name, fn |-> e.fn, set |-> e.set, origin |-> e.origin,
                 view |-> e.view]
        BY <1>2, <1>3
      <3>3. z = [kind |-> e.kind, name |-> e.name, fn |-> e.fn, set |-> e.set, origin |-> o, view |-> e.view]
        BY <3>1, <3>2 DEF Of
      <3> QED BY <1>3, <3>1, <3>3
    <2> QED BY <2>1, <2>2
  <1> QED BY <1>3, <1>4, <1>5, <1>6, <1>7, <1>8, <1>9, <1>10

\* The tables after the constraint at a position is given an origin.
Redirecting(U, p, origin, name) ==
    Tables(U.rows, WithOrigin(Materialised(U.registry), p, origin, name), U.alternative, U.names)

GivesOrigin(U, V, I, p, id, d) ==
    /\ AllFit(V, I) /\ Length(V.registry) = Length(U.registry)
    /\ V.rows = U.rows /\ V.alternative = U.alternative /\ V.names = U.names
    /\ Declares(V, I, p, id, d)
    /\ \A q \in 0..Length(U.registry) - 1 :
         /\ IdAt(V.registry, q) = IdAt(U.registry, q)
         /\ q # p => RecordIn(V.rows, V.registry, I, q) = RecordIn(U.rows, U.registry, I, q)

LEMMA OriginGiven ==
    ASSUME NEW U, NEW I, AllFit(U, I), NEW p \in 0..Length(U.registry) - 1, NEW id, NEW d, IsDeclaration(d),
           Declares(U, I, p, id, d), NEW origin
    PROVE  GivesOrigin(U, Redirecting(U, p, origin, d.name), I, p, id, Of(d, origin))
  <1>1. PICK R, reg, A, new, V, e : /\ R = U.rows /\ reg = U.registry /\ A = U.alternative
                                    /\ new = WithOrigin(Materialised(U.registry), p, origin, d.name)
                                    /\ V = Redirecting(U, p, origin, d.name) /\ e = Of(d, origin)
    OBVIOUS
  <1>2. PICK row, r, r2, rec, v : /\ row = RowAt(R, reg, p) /\ r = ReadingIn(R, reg, p)
                                  /\ r2 = Redirected(r, origin) /\ rec = RecordIn(R, reg, I, p)
                                  /\ v = Kept(I, id, row)
    OBVIOUS
  <1>3. V.rows = R /\ V.registry = new /\ V.alternative = A /\ V.names = U.names
    BY <1>1, TablesAre DEF Redirecting
  <1>4. RowsFit(R, reg, I, A) /\ RowsAreLists(R) /\ Fits(reg, Counts(R)) /\ NamesFit(U.names, NamesIn(R))
    BY <1>1 DEF AllFit, RowsFit
  <1>5. IdAt(reg, p) = id /\ rec = DeclaredRecord(id, d) /\ id \in IdsOf(R)
    BY <1>1, <1>2, <1>4, IdAtIs DEF Declares
  <1>6. Lowers(I, A, r, row) /\ r.id = id /\ rec = RecordOf(r, row, v) /\ row = RowOf(R, id)
    <2>1. Lowers(I, A, r, row)
      BY <1>1, <1>2, <1>4 DEF RowsFit
    <2>2. r.id = id
      BY <1>2, <1>5, ReadingId DEF ReadingIn, IdAt
    <2>3. rec = RecordOf(r, row, v) /\ row = RowOf(R, id)
      BY <1>2, <1>5 DEF RecordIn, RowAt
    <2> QED BY <2>1, <2>2, <2>3
  <1>7. row.name = d.name /\ r = Reading(reg, p, row.name)
    <2>1. rec = [id |-> r.id, name |-> row.name, fn |-> rec.fn, set |-> rec.set,
                 origin |-> rec.origin, active |-> row.active]
      BY <1>2, <1>6, RecordShape
    <2>2. rec.name = row.name
      BY <2>1
    <2>3. rec.name = d.name
      BY <1>5 DEF DeclaredRecord
    <2> QED BY <1>2, <2>2, <2>3 DEF ReadingIn
  <1>8. /\ Lowers(I, A, r2, row) /\ r2.id = id
        /\ RecordOf(r2, row, v) = [rec EXCEPT !.origin = origin]
    BY <1>2, <1>6, RedirectedRecord
  <1>9. HasChanged(reg, Counts(R), p, row.name, r2, new)
    <2>1. p \in 0..Length(reg) - 1
      BY <1>1
    <2>2. HasChanged(reg, Counts(R), p, row.name, Redirected(Reading(reg, p, row.name), origin),
                     WithOrigin(Materialised(reg), p, origin, row.name))
      BY ONLY <1>4, <2>1, OriginChanged
    <2> QED BY <1>1, <1>2, <1>7, <2>2
  <1>10. RowEdited(R, R, id, row)
    <2>1. IsRow(row)
      BY <1>6 DEF Lowers
    <2> QED BY <1>4, <1>5, <1>6, <2>1, RowKept
  <1>11. Edits(R, reg, I, A, p, R, new, I, row, r2)
    BY <1>1, <1>4, <1>5, <1>8, <1>9, <1>10 DEF Edits, SameElsewhere
  <1>12. /\ RowsFit(R, new, I, A) /\ Length(new) = Length(reg)
         /\ RecordIn(R, new, I, p) = RecordOf(r2, row, Kept(I, r2.id, row))
         /\ \A q \in 0..Length(reg) - 1 : q # p => RecordIn(R, new, I, q) = RecordIn(R, reg, I, q)
         /\ \A q \in 0..Length(reg) - 1 : IdAt(new, q) = IdAt(reg, q)
    BY <1>11, EditedFits
  <1>13. RecordIn(R, new, I, p) = DeclaredRecord(id, e)
    <2>1. DeclaredRecord(id, e) = [DeclaredRecord(id, d) EXCEPT !.origin = origin]
      BY <1>1, SameButOrigin
    <2> QED BY <1>2, <1>5, <1>8, <1>12, <2>1
  <1>14. id \in DOMAIN A <=> IsAlternative(e)
    <2>1. IsAlternative(e) <=> IsAlternative(d)
      BY <1>1, SameButOrigin
    <2> QED BY <1>1, <2>1 DEF Declares
  <1>15. AllFit(V, I) /\ Declares(V, I, p, id, e)
    BY <1>1, <1>3, <1>4, <1>5, <1>12, <1>13, <1>14 DEF AllFit, Declares
  <1> QED BY <1>1, <1>3, <1>12, <1>15 DEF GivesOrigin

\* The tables after a call.
Later == Tables(rows', registry', alternative', names')

LEMMA WithBatchIsTables ==
    ASSUME NEW T, NEW batch, NEW W, W = WithBatch(T, batch)
    PROVE  W = Tables(W.rows, W.registry, W.alternative, W.names)
  <1>1. \A U, d : WithOne(U, d) = Tables(WithOne(U, d).rows, WithOne(U, d).registry,
                                         WithOne(U, d).alternative, WithOne(U, d).names)
    BY TablesAre DEF WithOne
  <1> QED BY <1>1 DEF WithBatch

\* A registered batch fits a bounded list.
LEMMA RegisterAdds ==
    ASSUME AllFit(Now, inactive), IsTable(alternative), NEW batch, IsBatch(batch), Register(batch)
    PROVE  HasBatch(Now, Later, inactive, batch) /\ IsTable(alternative)'
  <1>1. PICK W : W = WithBatch(Now, batch)
    OBVIOUS
  <1>2. /\ rows' = W.rows /\ names' = W.names /\ alternative' = W.alternative
        /\ Recorded(batch) = W.registry /\ IsTable(alternative)'
    BY <1>1, BatchTables DEF Register
  <1>3. registry' = W.registry
    BY <1>2 DEF Register
  <1>4. Later = W
    BY <1>1, <1>2, <1>3, WithBatchIsTables DEF Later
  <1>5. Length(Now.registry) + Len(batch) <= MaxRecords
    BY TablesAre DEF Register, RegisterRows, Now
  <1>6. HasBatch(Now, WithBatch(Now, batch), inactive, batch)
    BY ONLY AllFit(Now, inactive), IsBatch(batch), <1>5, BatchRegistered
  <1> QED BY <1>1, <1>2, <1>4, <1>6

LEMMA PositionOfRecord ==
    ASSUME NEW T, NEW I, AllFit(T, I), NEW p \in 0..Length(T.registry) - 1, NEW id, IdAt(T.registry, p) = id
    PROVE  Position(T.registry, id) = p
  <1>1. RowsAreLists(T.rows) /\ Fits(T.registry, Counts(T.rows))
    BY DEF AllFit, RowsFit
  <1>2. Positions(T.registry, id) = {p}
    BY <1>1, IdAtIs
  <1> QED BY <1>2 DEF Position

\* The batch that a range registers before it is given its origins.
Plain(pair) == [i \in 1..2 |-> [pair[i] EXCEPT !.origin = Declared]]

LEMMA PlainIs ==
    ASSUME NEW pair, IsBatch(pair), Len(pair) = 2, NEW b, b = Plain(pair)
    PROVE  /\ IsBatch(b) /\ Len(b) = 2 /\ b[1] = Of(pair[1], Declared) /\ b[2] = Of(pair[2], Declared)
  <1>1. DOMAIN b = 1..2 /\ b[1] = Of(pair[1], Declared) /\ b[2] = Of(pair[2], Declared)
    BY DEF Plain, Of
  <1>2. Len(b) = 2
    <2>1. b = [i \in 1..2 |-> b[i]]
      BY DEF Plain
    <2> QED BY <1>1, <2>1, ListOf
  <1>3. IsDeclaration(pair[1]) /\ IsDeclaration(pair[2]) /\ pair[2].kind = pair[1].kind
    BY DEF IsBatch
  <1>4. IsDeclaration(b[1]) /\ IsDeclaration(b[2]) /\ b[1].kind = pair[1].kind /\ b[2].kind = pair[2].kind
    BY <1>1, <1>3, SameButOrigin
  <1>5. \A i \in 1..2 : i = 1 \/ i = 2
    OBVIOUS
  <1> QED BY <1>1, <1>2, <1>3, <1>4, <1>5 DEF IsBatch

LEMMA PlainRegisters ==
    ASSUME NEW pair, IsBatch(pair), Len(pair) = 2, RegisterRows(pair), IsTable(alternative),
           RowsAreLists(rows), NEW b, b = Plain(pair)
    PROVE  RegisterRows(b)
  <1>1. PICK d, e, k, base : /\ d = pair[1] /\ e = pair[2] /\ k = d.kind /\ base = Len(rows[k])
    OBVIOUS
  <1>2. IsBatch(b) /\ Len(b) = 2 /\ b[1] = Of(d, Declared) /\ b[2] = Of(e, Declared)
    BY <1>1, PlainIs
  <1>3. IsDeclaration(d) /\ IsDeclaration(e) /\ e.kind = k /\ DOMAIN pair = 1..2 /\ DOMAIN b = 1..2 /\ base \in Nat
    <2>1. IsDeclaration(d) /\ IsDeclaration(e) /\ e.kind = k /\ DOMAIN pair = 1..2 /\ DOMAIN b = 1..2
      BY <1>1, <1>2 DEF IsBatch
    <2> QED BY <1>1, <2>1, ListFacts DEF RowsAreLists, IsDeclaration
  <1>4. /\ b[1].kind = k /\ b[1].name = d.name /\ NewRow(b[1]) = NewRow(d)
        /\ \A A, id : WithView(A, id, b[1]) = WithView(A, id, d)
    BY <1>1, <1>2, <1>3, SameButOrigin
  <1>5. /\ b[2].kind = k /\ b[2].name = e.name /\ NewRow(b[2]) = NewRow(e)
        /\ \A A, id : WithView(A, id, b[2]) = WithView(A, id, e)
    BY <1>1, <1>2, <1>3, SameButOrigin
  <1>6. \A i \in 1..2 : b[i].name = pair[i].name /\ NewRow(b[i]) = NewRow(pair[i])
    <2>1. \A i \in 1..2 : i = 1 \/ i = 2
      OBVIOUS
    <2> QED BY <1>1, <1>4, <1>5, <2>1
  <1>7. [i \in DOMAIN b |-> NewRow(b[i])] = [i \in DOMAIN pair |-> NewRow(pair[i])]
    BY <1>3, <1>6
  <1>8. NamesWith(b, base) = NamesWith(pair, base)
    <2>1. NamesWith(b, base) =
             LET one == Bind(names, b[1].name, Id(b[1].kind, base))
             IN IF Len(b) = 1 THEN one ELSE Bind(one, b[2].name, Id(b[1].kind, base + 1))
      BY <1>2, <1>3, NamesOfBatch
    <2>2. NamesWith(pair, base) =
             LET one == Bind(names, pair[1].name, Id(pair[1].kind, base))
             IN IF Len(pair) = 1 THEN one ELSE Bind(one, pair[2].name, Id(pair[1].kind, base + 1))
      BY <1>3, NamesOfBatch
    <2> QED BY <1>1, <1>2, <1>4, <1>5, <2>1, <2>2
  <1>9. WithViews(b, base) = WithViews(pair, base)
    <2>1. WithViews(b, base) =
             LET one == WithView(alternative, Id(b[1].kind, base), b[1])
             IN IF Len(b) = 1 THEN one ELSE WithView(one, Id(b[1].kind, base + 1), b[2])
      BY <1>2, <1>3, ViewsOfBatch
    <2>2. WithViews(pair, base) =
             LET one == WithView(alternative, Id(pair[1].kind, base), pair[1])
             IN IF Len(pair) = 1 THEN one ELSE WithView(one, Id(pair[1].kind, base + 1), pair[2])
      BY <1>3, ViewsOfBatch
    <2> QED BY <1>1, <1>2, <1>4, <1>5, <2>1, <2>2
  <1>10. PICK t : t = [i \in DOMAIN b |-> NewRow(b[i])]
    OBVIOUS
  <1>11. rows' = [rows EXCEPT ![k] = rows[k] \o t]
    BY <1>1, <1>7, <1>10 DEF RegisterRows
  <1>12. \A i \in DOMAIN b : InRegistry(names, b[i].name, k) = {}
    BY <1>1, <1>3, <1>6 DEF RegisterRows
  <1>13. names' = NamesWith(b, base) /\ alternative' = WithViews(b, base)
    BY <1>1, <1>8, <1>9 DEF RegisterRows
  <1>14. rows' = [rows EXCEPT ![k] = @ \o [i \in DOMAIN b |-> NewRow(b[i])]]
    BY <1>10, <1>11
  <1>15. /\ cursor = NoCursor /\ Length(registry) + Len(b) <= MaxRecords
         /\ Length(registry) + Len(b) + edits <= MaxCalls
         /\ UNCHANGED <<inactive, locked, cursor, edits>>
    BY <1>2 DEF RegisterRows
  <1> QED BY <1>1, <1>4, <1>12, <1>13, <1>14, <1>15 DEF RegisterRows

LEMMA RangeAdds ==
    ASSUME AllFit(Now, inactive), IsTable(alternative), NEW pair \in Ranges, AddRange(pair)
    PROVE  IsBatch(pair) /\ HasBatch(Now, Later, inactive, pair) /\ IsTable(alternative)'
  <1>1. PICK d, e, base, m, b, W, I, x, y :
          /\ d = pair[1] /\ e = pair[2] /\ base = Len(rows["alg"]) /\ m = Length(registry)
          /\ b = Plain(pair) /\ W = WithBatch(Now, b) /\ I = inactive
          /\ x = Id("alg", base) /\ y = Id("alg", base + 1)
    OBVIOUS
  <1>2. IsBatch(pair) /\ Len(pair) = 2 /\ d.kind = "alg" /\ e.kind = "alg"
        /\ IsDeclaration(d) /\ IsDeclaration(e)
    <2>1. /\ pair = <<pair[1], pair[2]>>
          /\ \A i \in 1..2 : IsDeclaration(pair[i]) /\ pair[i].kind = "alg"
      BY DeclarationsAssumption
    <2>2. Len(pair) = 2 /\ DOMAIN pair = 1..2
      BY <2>1
    <2>3. 1 \in 1..2 /\ 2 \in 1..2
      OBVIOUS
    <2> QED BY <1>1, <2>1, <2>2, <2>3 DEF IsBatch
  <1>3. IsBatch(b) /\ Len(b) = 2 /\ b[1] = Of(d, Declared) /\ b[2] = Of(e, Declared)
    BY <1>1, <1>2, PlainIs
  <1>4. RegisterRows(b) /\ base \in Nat /\ m \in Nat
    <2>1. RowsAreLists(rows) /\ Fits(registry, Counts(rows))
      BY TablesAre DEF AllFit, RowsFit, Now
    <2>2. RegisterRows(pair)
      BY DEF AddRange
    <2>3. base \in Nat
      BY <1>1, <2>1, ListFacts DEF RowsAreLists, Kinds
    <2> QED BY <1>1, <1>2, <2>1, <2>2, <2>3, PlainRegisters, LengthIs
  <1>5. /\ rows' = W.rows /\ names' = W.names /\ alternative' = W.alternative
        /\ Recorded(b) = W.registry /\ IsTable(alternative)'
    BY <1>1, <1>3, <1>4, BatchTables
  <1>6. HasBatch(Now, W, I, b)
    <2>1. Length(Now.registry) + Len(b) <= MaxRecords
      BY <1>4, TablesAre DEF RegisterRows, Now
    <2>2. HasBatch(Now, WithBatch(Now, b), inactive, b)
      BY ONLY AllFit(Now, inactive), <1>3, <2>1, BatchRegistered
    <2> QED BY <1>1, <2>2
  <1>7. b[1].kind = "alg" /\ b[2].kind = "alg" /\ b[1].name = d.name /\ b[2].name = e.name
        /\ IsDeclaration(b[1]) /\ IsDeclaration(b[2])
        /\ Of(b[1], d.origin) = d /\ Of(b[2], e.origin) = e
    <2>1. /\ b[1].kind = "alg" /\ b[1].name = d.name /\ IsDeclaration(b[1])
          /\ Of(b[1], d.origin) = Of(d, d.origin)
      BY <1>2, <1>3, SameButOrigin
    <2>2. /\ b[2].kind = "alg" /\ b[2].name = e.name /\ IsDeclaration(b[2])
          /\ Of(b[2], e.origin) = Of(e, e.origin)
      BY <1>2, <1>3, SameButOrigin
    <2>3. Of(d, d.origin) = d /\ Of(e, e.origin) = e
      BY <1>2, SameButOrigin
    <2> QED BY <2>1, <2>2, <2>3
  <1>8. base + 1 - 1 = base /\ base + 2 - 1 = base + 1 /\ m + 1 - 1 = m /\ m + 2 - 1 = m + 1
    BY <1>4
  <1>9. Now.rows = rows /\ Now.registry = registry /\ Now.alternative = alternative
    BY TablesAre DEF Now
  <1>10. /\ AllFit(W, I) /\ Length(W.registry) = m + 2 /\ Keeps(Now, W, I)
         /\ Declares(W, I, m, x, b[1]) /\ Declares(W, I, m + 1, y, b[2])
         /\ DOMAIN W.alternative \ {Id("alg", base + i - 1) : i \in 1..2} = DOMAIN alternative
         /\ IdsOf(W.rows) = IdsOf(rows) \cup {Id("alg", base + i - 1) : i \in 1..2}
         /\ \A i \in 1..2 : Id("alg", base + i - 1) \notin IdsOf(rows)
    <2>1. 1 \in 1..2 /\ 2 \in 1..2
      OBVIOUS
    <2>2. \A i \in 1..2 : Declares(W, I, m + i - 1, Id("alg", base + i - 1), b[i])
      BY <1>1, <1>3, <1>6, <1>7, <1>9 DEF HasBatch
    <2>3. Declares(W, I, m, x, b[1]) /\ Declares(W, I, m + 1, y, b[2])
      BY <1>1, <1>8, <2>1, <2>2
    <2> QED BY <1>1, <1>3, <1>6, <1>7, <1>9, <2>3 DEF HasBatch
  <1>11. PICK V1, V2 : V1 = Redirecting(W, m, d.origin, d.name) /\ V2 = Redirecting(V1, m + 1, e.origin, e.name)
    OBVIOUS
  <1>12. m \in 0..Length(W.registry) - 1 /\ m + 1 \in 0..Length(W.registry) - 1 /\ m # m + 1
    BY <1>4, <1>10
  <1>13. GivesOrigin(W, V1, I, m, x, d)
    <2>1. GivesOrigin(W, Redirecting(W, m, d.origin, b[1].name), I, m, x, Of(b[1], d.origin))
      BY <1>7, <1>10, <1>12, OriginGiven
    <2> QED BY <1>7, <1>11, <2>1
  <1>14. Declares(V1, I, m + 1, y, b[2]) /\ Length(V1.registry) = m + 2 /\ AllFit(V1, I)
    BY <1>10, <1>12, <1>13 DEF GivesOrigin, Declares
  <1>15. GivesOrigin(V1, V2, I, m + 1, y, e)
    <2>1. m + 1 \in 0..Length(V1.registry) - 1
      BY <1>10, <1>12, <1>14
    <2>2. GivesOrigin(V1, Redirecting(V1, m + 1, e.origin, b[2].name), I, m + 1, y, Of(b[2], e.origin))
      BY <1>7, <1>14, <2>1, OriginGiven
    <2> QED BY <1>7, <1>11, <2>2
  <1>16. registry' = V2.registry
    <2>1. Position(W.registry, x) = m
      BY <1>10, <1>12, PositionOfRecord DEF Declares
    <2>2. Position(V1.registry, y) = m + 1
      <3>1. m + 1 \in 0..Length(V1.registry) - 1
        BY <1>10, <1>12, <1>14
      <3> QED BY <1>14, <3>1, PositionOfRecord DEF Declares
    <2>3. V1.registry = WithOrigin(Materialised(W.registry), Position(W.registry, x), d.origin, d.name)
      BY <1>11, <2>1, TablesAre DEF Redirecting
    <2>4. V2.registry = WithOrigin(Materialised(V1.registry), Position(V1.registry, y), e.origin, e.name)
      BY <1>11, <2>2, TablesAre DEF Redirecting
    <2>5. Id("alg", Len(rows["alg"]) + 1 - 1) = x /\ Id("alg", Len(rows["alg"]) + 2 - 1) = y
      BY <1>1, <1>8
    <2>6. b = [i \in 1..2 |-> [pair[i] EXCEPT !.origin = Declared]]
      BY <1>1 DEF Plain
    <2>7. registry' =
            WithOrigin(Materialised(
              WithOrigin(Materialised(W.registry), Position(W.registry, x), d.origin, d.name)),
              Position(WithOrigin(Materialised(W.registry), Position(W.registry, x), d.origin, d.name), y),
              e.origin, e.name)
      BY <1>1, <1>5, <2>5, <2>6 DEF AddRange
    <2> QED BY <2>3, <2>4, <2>7
  <1>17. Later = V2
    <2>1. V2.rows = rows' /\ V2.alternative = alternative' /\ V2.names = names'
      BY <1>5, <1>13, <1>15 DEF GivesOrigin
    <2>2. V2 = Tables(V2.rows, V2.registry, V2.alternative, V2.names)
      BY <1>11, TablesAre DEF Redirecting
    <2> QED BY <1>16, <2>1, <2>2 DEF Later
  <1>18. Declares(V2, I, m, x, d) /\ Declares(V2, I, m + 1, y, e) /\ AllFit(V2, I) /\ Length(V2.registry) = m + 2
    BY <1>10, <1>12, <1>13, <1>14, <1>15 DEF GivesOrigin, Declares
  <1>19. Keeps(Now, V2, I)
    <2>1. ASSUME NEW q \in 0..m - 1
          PROVE  /\ IdAt(V2.registry, q) = IdAt(W.registry, q)
                 /\ RecordIn(V2.rows, V2.registry, I, q) = RecordIn(W.rows, W.registry, I, q)
      <3>1. q \in 0..Length(W.registry) - 1 /\ q \in 0..Length(V1.registry) - 1 /\ q # m /\ q # m + 1
        BY <1>4, <1>10, <1>14
      <3> QED BY <1>13, <1>15, <3>1 DEF GivesOrigin
    <2>2. m <= Length(V2.registry)
      BY <1>4, <1>18
    <2> QED BY <1>1, <1>9, <1>10, <2>1, <2>2 DEF Keeps
  <1>20. HasBatch(Now, V2, I, pair)
    <2>1. V2.alternative = W.alternative /\ V2.rows = W.rows
      BY <1>13, <1>15 DEF GivesOrigin
    <2>2. \A i \in 1..2 : Declares(V2, I, m + i - 1, Id("alg", base + i - 1), pair[i])
      <3>1. \A i \in 1..2 : i = 1 \/ i = 2
        OBVIOUS
      <3> QED BY <1>1, <1>8, <1>18, <3>1
    <2> QED BY <1>1, <1>2, <1>4, <1>9, <1>10, <1>18, <1>19, <2>1, <2>2 DEF HasBatch
  <1> QED BY <1>1, <1>2, <1>5, <1>17, <1>20

-----------------------------------------------------------------------------
(* The cursor                                                              *)

\* A run for the next position from the front, or the run just left.
FrontFits(E, c) ==
    /\ c.frontRun \in 1..Len(E.runs)
    /\ \/ RunHolds(E, c.frontRun, c.front)
       \/ c.front = E.runs[c.frontRun].start + E.runs[c.frontRun].len

BackFits(E, c) ==
    /\ c.backRun \in 1..Len(E.runs)
    /\ \/ RunHolds(E, c.backRun, c.back - 1)
       \/ c.back = E.runs[c.backRun].start

\* A cursor between two positions of the entries E.
Between(E, c) ==
    /\ c = [front |-> c.front, back |-> c.back, frontRun |-> c.frontRun, backRun |-> c.backRun]
    /\ c.front \in Nat /\ c.back \in Nat /\ c.front < c.back /\ c.back <= E.len
    /\ FrontFits(E, c) /\ BackFits(E, c)

CursorFits(reg, c) == c = NoCursor \/ (~reg.implicit /\ Between(reg.entries, c))

\* The cached run serves the next read at either end.
LEMMA FrontRunHolds ==
    ASSUME Partition(Entries), NEW c, c.front \in Nat, c.front < Entries.len, FrontFits(Entries, c)
    PROVE  FrontRun(c) \in 1..Len(Entries.runs) /\ RunHolds(Entries, FrontRun(c), c.front)
  <1>1. PICK E, i, n, p : E = Entries /\ i = c.frontRun /\ n = Len(E.runs) /\ p = c.front
    OBVIOUS
  <1>2. /\ n \in Nat /\ i \in 1..n /\ E.len \in Nat /\ p \in Nat /\ p < E.len
        /\ E.runs[i].start \in Nat /\ E.runs[i].len \in Nat \ {0}
        /\ E.runs[i].start + E.runs[i].len = IF i = n THEN E.len ELSE E.runs[i + 1].start
        /\ RunHolds(E, i, p) \/ p = E.runs[i].start + E.runs[i].len
    BY <1>1, ListFacts DEF Partition, IsRun, FrontFits
  <1>3. FrontRun(c) = IF p = E.runs[i].start + E.runs[i].len THEN i + 1 ELSE i
    BY <1>1 DEF FrontRun
  <1>4. CASE RunHolds(E, i, p)
    <2>1. FrontRun(c) = i
      BY <1>2, <1>3, <1>4 DEF RunHolds
    <2> QED BY <1>1, <1>2, <1>4, <2>1
  <1>5. CASE p = E.runs[i].start + E.runs[i].len
    <2>1. i # n
      BY <1>2, <1>5
    <2>2. i + 1 \in 1..n /\ E.runs[i + 1].start = p
      BY <1>2, <1>5, <2>1
    <2>3. E.runs[i + 1].len \in Nat \ {0}
      BY <1>1, <2>2 DEF Partition, IsRun
    <2>4. RunHolds(E, i + 1, p)
      BY <1>2, <2>2, <2>3 DEF RunHolds
    <2> QED BY <1>1, <1>3, <1>5, <2>2, <2>4
  <1> QED BY <1>2, <1>4, <1>5

LEMMA BackRunHolds ==
    ASSUME Partition(Entries), NEW c, c.back \in Nat \ {0}, c.back <= Entries.len, BackFits(Entries, c)
    PROVE  BackRun(c) \in 1..Len(Entries.runs) /\ RunHolds(Entries, BackRun(c), c.back - 1)
  <1>1. PICK E, i, n, p : E = Entries /\ i = c.backRun /\ n = Len(E.runs) /\ p = c.back
    OBVIOUS
  <1>2. /\ n \in Nat /\ i \in 1..n /\ E.len \in Nat /\ p \in Nat \ {0} /\ p <= E.len
        /\ E.runs[i].start \in Nat /\ E.runs[i].len \in Nat \ {0}
        /\ RunHolds(E, i, p - 1) \/ p = E.runs[i].start
    BY <1>1, ListFacts DEF Partition, IsRun, BackFits
  <1>3. BackRun(c) = IF p - 1 < E.runs[i].start THEN i - 1 ELSE i
    BY <1>1 DEF BackRun
  <1>4. CASE RunHolds(E, i, p - 1)
    <2>1. BackRun(c) = i
      BY <1>2, <1>3, <1>4 DEF RunHolds
    <2> QED BY <1>1, <1>2, <1>4, <2>1
  <1>5. CASE p = E.runs[i].start
    <2>1. i # 1
      <3> SUFFICES ASSUME i = 1 PROVE FALSE
        OBVIOUS
      <3>1. 0 \in 0..E.len - 1
        BY <1>2
      <3>2. PICK j \in 1..n : RunHolds(E, j, 0)
        BY <1>1, <3>1 DEF Partition
      <3>3. E.runs[j].start \in Nat /\ E.runs[j].start <= 0
        BY <1>1, <3>2 DEF Partition, IsRun, RunHolds
      <3>4. j # 1
        BY <1>2, <1>5, <3>3
      <3>5. E.runs[1].start + E.runs[1].len <= E.runs[j].start
        <4>1. 1 \in 1..n /\ 1 < j
          BY <1>2, <3>2, <3>4
        <4> QED BY <1>1, <3>2, <4>1 DEF Partition
      <3> QED BY <1>2, <1>5, <3>3, <3>5
    <2>2. PICK h : h = i - 1
      OBVIOUS
    <2>3. h \in 1..n /\ h # n /\ h + 1 = i
      BY <1>2, <2>1, <2>2
    <2>4. E.runs[h].start + E.runs[h].len = p /\ E.runs[h].start \in Nat /\ E.runs[h].len \in Nat \ {0}
      BY <1>1, <1>5, <2>3 DEF Partition, IsRun
    <2>5. RunHolds(E, h, p - 1)
      BY <1>2, <2>4 DEF RunHolds
    <2>6. BackRun(c) = h
      BY <1>2, <1>3, <1>5, <2>2
    <2> QED BY <1>1, <2>3, <2>5, <2>6
  <1> QED BY <1>2, <1>4, <1>5

\* What a cursor reads at either end is what indexing returns.
LEMMA CursorReads ==
    ASSUME Partition(Entries), Between(Entries, cursor)
    PROVE  /\ InRun(Entries, cursor.front, FrontRun(cursor)) = EntryAt(Entries, cursor.front)
           /\ InRun(Entries, cursor.back - 1, BackRun(cursor)) = EntryAt(Entries, cursor.back - 1)
  <1>1. Entries.len \in Nat
    BY DEF Partition
  <1>2. /\ cursor.front \in Nat /\ cursor.front < Entries.len
        /\ cursor.back \in Nat \ {0} /\ cursor.back <= Entries.len /\ cursor.back - 1 \in Nat
    BY <1>1 DEF Between
  <1>3. FrontRun(cursor) \in 1..Len(Entries.runs) /\ RunHolds(Entries, FrontRun(cursor), cursor.front)
    BY <1>2, FrontRunHolds DEF Between
  <1>4. BackRun(cursor) \in 1..Len(Entries.runs) /\ RunHolds(Entries, BackRun(cursor), cursor.back - 1)
    BY <1>2, BackRunHolds DEF Between
  <1>5. RunAt(Entries, cursor.front) = FrontRun(cursor)
    BY <1>2, <1>3, RunAtIs
  <1>6. RunAt(Entries, cursor.back - 1) = BackRun(cursor)
    BY <1>2, <1>4, RunAtIs
  <1> QED BY <1>5, <1>6 DEF EntryAt

\* A cursor that skipped entries stands again where its cached run tells.
LEMMA SkipFits ==
    ASSUME Partition(Entries), Between(Entries, cursor), NEW n \in Nat, n < cursor.back - cursor.front,
           NEW c, c = Skip(cursor, n)
    PROVE  Between(Entries, c) /\ c.front = cursor.front + n /\ c.back = cursor.back
  <1>1. PICK E, f, b, fr, br : /\ E = Entries /\ f = cursor.front /\ b = cursor.back
                               /\ fr = cursor.frontRun /\ br = cursor.backRun
    OBVIOUS
  <1>2. /\ cursor = [front |-> f, back |-> b, frontRun |-> fr, backRun |-> br]
        /\ f \in Nat /\ b \in Nat /\ f < b /\ b <= E.len /\ E.len \in Nat
        /\ FrontFits(E, cursor) /\ BackFits(E, cursor)
    BY <1>1 DEF Between, Partition
  <1>3. CASE n = 0
    <2>1. c = cursor
      BY <1>3 DEF Skip
    <2> QED BY <1>1, <1>2, <1>3, <2>1
  <1>4. CASE n # 0
    <2>1. PICK r : r = RunAt(E, f + n)
      OBVIOUS
    <2>2. c = [front |-> f + n, back |-> b, frontRun |-> r, backRun |-> br]
      BY <1>1, <1>2, <1>4, <2>1 DEF Skip
    <2>3. c.front = f + n /\ c.back = b /\ c.frontRun = r /\ c.backRun = br
      BY <2>2
    <2>4. f + n \in 0..E.len - 1
      BY <1>1, <1>2
    <2>5. r \in 1..Len(E.runs) /\ RunHolds(E, r, f + n)
      <3>1. Partition(E)
        BY <1>1
      <3>2. PICK i \in 1..Len(E.runs) : RunHolds(E, i, f + n) /\ RunAt(E, f + n) = i
        BY <2>4, <3>1, BaseIs
      <3> QED BY <2>1, <3>2
    <2>6. FrontFits(E, c)
      BY <2>3, <2>5 DEF FrontFits
    <2>7. BackFits(E, c)
      BY <1>1, <1>2, <2>3 DEF BackFits
    <2>8. f + n \in Nat /\ f + n < b
      BY <1>1, <1>2
    <2> QED BY <1>1, <1>2, <2>2, <2>3, <2>6, <2>7, <2>8 DEF Between
  <1> QED BY <1>3, <1>4

LEMMA SkipBackFits ==
    ASSUME Partition(Entries), Between(Entries, cursor), NEW n \in Nat, n < cursor.back - cursor.front,
           NEW c, c = SkipBack(cursor, n)
    PROVE  Between(Entries, c) /\ c.back = cursor.back - n /\ c.front = cursor.front
  <1>1. PICK E, f, b, fr, br : /\ E = Entries /\ f = cursor.front /\ b = cursor.back
                               /\ fr = cursor.frontRun /\ br = cursor.backRun
    OBVIOUS
  <1>2. /\ cursor = [front |-> f, back |-> b, frontRun |-> fr, backRun |-> br]
        /\ f \in Nat /\ b \in Nat /\ f < b /\ b <= E.len /\ E.len \in Nat
        /\ FrontFits(E, cursor) /\ BackFits(E, cursor)
    BY <1>1 DEF Between, Partition
  <1>3. CASE n = 0
    <2>1. c = cursor
      BY <1>3 DEF SkipBack
    <2> QED BY <1>1, <1>2, <1>3, <2>1
  <1>4. CASE n # 0
    <2>1. PICK q, r : q = b - n /\ r = Cardinality({i \in DOMAIN E.runs : E.runs[i].start < b - n})
      OBVIOUS
    <2>2. c = [front |-> f, back |-> q, frontRun |-> fr, backRun |-> r]
      BY <1>1, <1>2, <1>4, <2>1 DEF SkipBack
    <2>3. c.front = f /\ c.back = q /\ c.frontRun = fr /\ c.backRun = r
      BY <2>2
    <2>4. q \in Nat \ {0} /\ q - 1 \in 0..E.len - 1 /\ f < q /\ q <= E.len
      BY <1>1, <1>2, <2>1
    <2>5. r \in 1..Len(E.runs) /\ RunHolds(E, r, q - 1)
      <3>1. Partition(E)
        BY <1>1
      <3>2. PICK i \in 1..Len(E.runs) : RunHolds(E, i, q - 1)
        BY <2>4, <3>1 DEF Partition
      <3>3. Cardinality({j \in DOMAIN E.runs : E.runs[j].start < q}) = i
        BY <2>4, <3>1, <3>2, RunBeforeIs
      <3> QED BY <2>1, <3>2, <3>3
    <2>6. BackFits(E, c)
      BY <2>3, <2>5 DEF BackFits
    <2>7. FrontFits(E, c)
      BY <1>1, <1>2, <2>3 DEF FrontFits
    <2> QED BY <1>1, <1>2, <2>1, <2>2, <2>3, <2>4, <2>6, <2>7 DEF Between
  <1> QED BY <1>3, <1>4

LEMMA NthFits ==
    ASSUME Partition(Entries), Between(Entries, cursor), NEW n \in Nat, Nth(n)
    PROVE  cursor' = NoCursor \/ Between(Entries, cursor')
  <1>1. PICK c : c = Skip(cursor, n)
    OBVIOUS
  <1>2. Between(Entries, c)
    BY <1>1, SkipFits DEF Nth
  <1>3. PICK E, f, b, i, br : E = Entries /\ f = c.front /\ b = c.back /\ i = FrontRun(c) /\ br = c.backRun
    OBVIOUS
  <1>4. /\ c = [front |-> f, back |-> b, frontRun |-> c.frontRun, backRun |-> br]
        /\ f \in Nat /\ b \in Nat /\ f < b /\ b <= E.len /\ E.len \in Nat /\ BackFits(E, c)
    BY <1>2, <1>3 DEF Between, Partition
  <1>5. i \in 1..Len(E.runs) /\ RunHolds(E, i, f)
    BY <1>2, <1>3, <1>4, FrontRunHolds DEF Between
  <1>6. PICK x : x = [c EXCEPT !.front = @ + 1, !.frontRun = FrontRun(c)]
    OBVIOUS
  <1>7. x = [front |-> f + 1, back |-> b, frontRun |-> i, backRun |-> br]
    BY <1>3, <1>4, <1>6
  <1>8. x.front = f + 1 /\ x.back = b /\ x.frontRun = i /\ x.backRun = br
    BY <1>7
  <1>9. cursor' = IF f + 1 = b THEN NoCursor ELSE x
    BY <1>1, <1>6, <1>8 DEF Nth, Iterate
  <1>10. CASE f + 1 = b
    BY <1>9, <1>10
  <1>11. CASE f + 1 # b
    <2>1. BackFits(E, x)
      BY <1>3, <1>4, <1>8 DEF BackFits
    <2>2. FrontFits(E, x)
      <3>1. E.runs[i].start \in Nat /\ E.runs[i].len \in Nat
        BY <1>3, <1>5 DEF Partition, IsRun
      <3>2. RunHolds(E, i, f + 1) \/ f + 1 = E.runs[i].start + E.runs[i].len
        BY <1>4, <1>5, <3>1 DEF RunHolds
      <3> QED BY <1>5, <1>8, <3>2 DEF FrontFits
    <2>3. f + 1 \in Nat /\ f + 1 < b
      BY <1>4, <1>11
    <2>4. Between(E, x)
      BY <1>4, <1>7, <1>8, <2>1, <2>2, <2>3 DEF Between
    <2> QED BY <1>3, <1>9, <1>11, <2>4
  <1> QED BY <1>10, <1>11

LEMMA NthBackFits ==
    ASSUME Partition(Entries), Between(Entries, cursor), NEW n \in Nat, NthBack(n)
    PROVE  cursor' = NoCursor \/ Between(Entries, cursor')
  <1>1. PICK c : c = SkipBack(cursor, n)
    OBVIOUS
  <1>2. Between(Entries, c)
    BY <1>1, SkipBackFits DEF NthBack
  <1>3. PICK E, f, b, i, fr : E = Entries /\ f = c.front /\ b = c.back /\ i = BackRun(c) /\ fr = c.frontRun
    OBVIOUS
  <1>4. /\ c = [front |-> f, back |-> b, frontRun |-> fr, backRun |-> c.backRun]
        /\ f \in Nat /\ b \in Nat \ {0} /\ f < b /\ b <= E.len /\ E.len \in Nat /\ FrontFits(E, c)
    BY <1>2, <1>3 DEF Between, Partition
  <1>5. i \in 1..Len(E.runs) /\ RunHolds(E, i, b - 1)
    BY <1>2, <1>3, <1>4, BackRunHolds DEF Between
  <1>6. PICK x : x = [c EXCEPT !.back = @ - 1, !.backRun = BackRun(c)]
    OBVIOUS
  <1>7. x = [front |-> f, back |-> b - 1, frontRun |-> fr, backRun |-> i]
    BY <1>3, <1>4, <1>6
  <1>8. x.front = f /\ x.back = b - 1 /\ x.frontRun = fr /\ x.backRun = i
    BY <1>7
  <1>9. cursor' = IF f = b - 1 THEN NoCursor ELSE x
    BY <1>1, <1>6, <1>8 DEF NthBack, Iterate
  <1>10. CASE f = b - 1
    BY <1>9, <1>10
  <1>11. CASE f # b - 1
    <2>1. FrontFits(E, x)
      BY <1>3, <1>4, <1>8 DEF FrontFits
    <2>2. BackFits(E, x)
      <3>1. E.runs[i].start \in Nat /\ E.runs[i].len \in Nat
        BY <1>3, <1>5 DEF Partition, IsRun
      <3>2. RunHolds(E, i, b - 1 - 1) \/ b - 1 = E.runs[i].start
        BY <1>4, <1>5, <3>1 DEF RunHolds
      <3> QED BY <1>5, <1>8, <3>2 DEF BackFits
    <2>3. b - 1 \in Nat /\ f < b - 1 /\ b - 1 <= E.len
      BY <1>4, <1>11
    <2>4. Between(E, x)
      BY <1>4, <1>7, <1>8, <2>1, <2>2, <2>3 DEF Between
    <2> QED BY <1>3, <1>9, <1>11, <2>4
  <1> QED BY <1>10, <1>11

LEMMA StartFits ==
    ASSUME Partition(Entries), StartIteration
    PROVE  Between(Entries, cursor')
  <1>1. PICK E, n, c : E = Entries /\ n = Len(E.runs) /\ c = cursor'
    OBVIOUS
  <1>2. c = [front |-> 0, back |-> E.len, frontRun |-> 1, backRun |-> n] /\ E.len > 0 /\ E.len \in Nat
    BY <1>1 DEF StartIteration, Partition
  <1>3. c.front = 0 /\ c.back = E.len /\ c.frontRun = 1 /\ c.backRun = n
    BY <1>2
  <1>4. n \in Nat /\ \A i \in 1..n : E.runs[i].start \in Nat /\ E.runs[i].len \in Nat \ {0}
    BY <1>1, ListFacts DEF Partition, IsRun
  <1>5. PICK i \in 1..n : RunHolds(E, i, 0)
    BY <1>1, <1>2 DEF Partition
  <1>6. i = 1
    <2> SUFFICES ASSUME i # 1 PROVE FALSE
      OBVIOUS
    <2>1. 1 \in 1..n /\ 1 < i
      BY <1>4
    <2>2. E.runs[1].start + E.runs[1].len <= E.runs[i].start
      BY <1>1, <2>1 DEF Partition
    <2> QED BY <1>4, <1>5, <2>1, <2>2 DEF RunHolds
  <1>7. n \in 1..n /\ E.runs[n].start + E.runs[n].len = E.len
    BY <1>1, <1>4, <1>6 DEF Partition
  <1>8. RunHolds(E, n, E.len - 1)
    BY <1>2, <1>4, <1>7 DEF RunHolds
  <1>9. FrontFits(E, c) /\ BackFits(E, c)
    <2>1. 1 \in 1..n /\ RunHolds(E, 1, 0)
      BY <1>5, <1>6
    <2>2. FrontFits(E, c)
      BY <1>1, <1>3, <2>1 DEF FrontFits
    <2>3. BackFits(E, c)
      BY <1>1, <1>3, <1>7, <1>8 DEF BackFits
    <2> QED BY <2>2, <2>3
  <1> QED BY <1>1, <1>2, <1>3, <1>9 DEF Between

-----------------------------------------------------------------------------
(* The invariant                                                           *)

\* Rows, registry and tables of views fit one another, the table of names fits
\* the rows, and a cursor stands between two positions of the entries.
IInv ==
    /\ AllFit(Now, inactive)
    /\ IsTable(alternative)
    /\ CursorFits(registry, cursor)

\* What a call may register.
Written == Declarations \cup UNION {ToSet(pair) : pair \in Ranges}

\* A step that registers the constraints of a batch.
Adds(batch) ==
    /\ IsBatch(batch) /\ RegisterRows(batch)
    /\ HasBatch(Now, Later, inactive, batch) /\ IsTable(alternative)'
    /\ \A i \in 1..Len(batch) : batch[i] \in Written
    /\ Len(batch) = 2 => batch[1].name # batch[2].name

\* A step that makes the record s of the record of the constraint id.
Changes(id, s) ==
    /\ Edited(id, s) /\ cursor = NoCursor /\ UNCHANGED <<names, locked, cursor>>

LEMMA NowIs == Now.rows = rows /\ Now.registry = registry /\ Now.alternative = alternative /\ Now.names = names
  BY TablesAre DEF Now

LEMMA FitsNow ==
    ASSUME AllFit(Now, inactive)
    PROVE  /\ RowsFit(rows, registry, inactive, alternative) /\ NamesFit(names, NamesIn(rows))
           /\ RowsAreLists(rows) /\ Fits(registry, Counts(rows)) /\ Length(registry) \in Nat
           /\ ~registry.implicit => Partition(Entries)
           /\ AllIds = IdsOf(rows)
  <1>1. /\ RowsFit(rows, registry, inactive, alternative) /\ NamesFit(names, NamesIn(rows))
    BY NowIs DEF AllFit
  <1>2. RowsAreLists(rows) /\ Fits(registry, Counts(rows))
    BY <1>1 DEF RowsFit
  <1>3. ~registry.implicit => Partition(Entries)
    BY <1>2 DEF Fits, EntriesFit, RunsFit, Entries
  <1>4. AllIds = IdsOf(rows)
    BY DEF AllIds, IdsOf
  <1> QED BY <1>1, <1>2, <1>3, <1>4, LengthIs

LEMMA BatchesAre ==
    ASSUME NEW batch \in Batches
    PROVE  /\ IsBatch(batch) /\ \A i \in 1..Len(batch) : batch[i] \in Written
           /\ Len(batch) = 2 => batch[1].name # batch[2].name
  <1>1. CASE batch \in {<<d>> : d \in Declarations}
    <2>1. PICK d \in Declarations : batch = <<d>>
      BY <1>1
    <2>2. Len(batch) = 1 /\ DOMAIN batch = 1..1 /\ batch[1] = d /\ \A i \in 1..1 : i = 1
      BY <2>1
    <2>3. IsDeclaration(d)
      BY DeclarationsAssumption
    <2> QED BY <2>2, <2>3 DEF IsBatch, Written
  <1>2. CASE batch \in {pair \in {<<d, e>> : d, e \in Declarations} :
                          pair[1].kind = pair[2].kind /\ pair[1].name # pair[2].name}
    <2>1. PICK d \in Declarations, e \in Declarations : batch = <<d, e>>
      BY <1>2
    <2>2. Len(batch) = 2 /\ DOMAIN batch = 1..2 /\ batch[1] = d /\ batch[2] = e /\ \A i \in 1..2 : i = 1 \/ i = 2
      BY <2>1
    <2>3. IsDeclaration(d) /\ IsDeclaration(e)
      BY DeclarationsAssumption
    <2>4. d.kind = e.kind /\ d.name # e.name
      BY <1>2, <2>2
    <2> QED BY <2>2, <2>3, <2>4 DEF IsBatch, Written
  <1> QED BY <1>1, <1>2 DEF Batches

\* Every step registers a batch, edits one constraint, locks one or moves the cursor.
LEMMA RegistrationAdds ==
    ASSUME IInv, NEW batch \in Batches, Register(batch)
    PROVE  Adds(batch)
  <1>1. HasBatch(Now, Later, inactive, batch) /\ IsTable(alternative)'
    BY BatchesAre, RegisterAdds DEF IInv
  <1>2. RegisterRows(batch)
    BY DEF Register
  <1> QED BY <1>1, <1>2, BatchesAre DEF Adds

LEMMA RangeRegistrationAdds ==
    ASSUME IInv, NEW pair \in Ranges, AddRange(pair)
    PROVE  Adds(pair)
  <1>1. IsBatch(pair) /\ HasBatch(Now, Later, inactive, pair) /\ IsTable(alternative)'
    BY RangeAdds DEF IInv
  <1>2. RegisterRows(pair)
    BY DEF AddRange
  <1>3. DOMAIN pair = 1..Len(pair)
    BY <1>1 DEF IsBatch
  <1>4. \A i \in 1..Len(pair) : pair[i] \in ToSet(pair)
    BY <1>3 DEF ToSet
  <1>5. \A i \in 1..Len(pair) : pair[i] \in Written
    BY <1>4 DEF Written
  <1>6. pair[1].name # pair[2].name
    BY DeclarationsAssumption
  <1> QED BY <1>1, <1>2, <1>5, <1>6 DEF Adds

LEMMA CallChanges ==
    ASSUME IInv, NEW id \in AllIds
    PROVE  LET r == RecordAt(Position(registry, id))
           IN /\ \A active \in BOOLEAN : SetConstraintActive(id, active) =>
                    Changes(id, [r EXCEPT !.active = active])
              /\ \A set \in SetValues : SetConstraintSet(id, set) => Changes(id, [r EXCEPT !.set = set])
              /\ \A fn \in FunctionValues : SetConstraintFunction(id, fn) => Changes(id, [r EXCEPT !.fn = fn])
              /\ \A origin \in Origins : SetConstraintOrigin(id, origin) =>
                    Changes(id, [r EXCEPT !.origin = origin])
  <1>1. RowsFit(rows, registry, inactive, alternative)
    BY FitsNow DEF IInv
  <1>2. Editable(id) => cursor = NoCursor /\ UNCHANGED <<names, locked, cursor>>
    BY DEF Editable
  <1>3. ASSUME NEW active \in BOOLEAN, SetConstraintActive(id, active)
        PROVE  Changes(id, [RecordAt(Position(registry, id)) EXCEPT !.active = active])
    <2>1. Editable(id)
      BY <1>3 DEF SetConstraintActive
    <2> QED BY <1>1, <1>2, <1>3, <2>1, ActiveEdited DEF Changes
  <1>4. ASSUME NEW set \in SetValues, SetConstraintSet(id, set)
        PROVE  Changes(id, [RecordAt(Position(registry, id)) EXCEPT !.set = set])
    <2>1. Editable(id)
      BY <1>4 DEF SetConstraintSet, Updatable
    <2> QED BY <1>1, <1>2, <1>4, <2>1, SetEdited DEF Changes
  <1>5. ASSUME NEW fn \in FunctionValues, SetConstraintFunction(id, fn)
        PROVE  Changes(id, [RecordAt(Position(registry, id)) EXCEPT !.fn = fn])
    <2>1. Editable(id)
      BY <1>5 DEF SetConstraintFunction, Updatable
    <2> QED BY <1>1, <1>2, <1>5, <2>1, FunctionEdited DEF Changes
  <1>6. ASSUME NEW origin \in Origins, SetConstraintOrigin(id, origin)
        PROVE  Changes(id, [RecordAt(Position(registry, id)) EXCEPT !.origin = origin])
    <2>1. Editable(id)
      BY <1>6 DEF SetConstraintOrigin
    <2> QED BY <1>1, <1>2, <1>6, <2>1, OriginEdited DEF Changes
  <1> QED BY <1>3, <1>4, <1>5, <1>6

LEMMA AddedKeeps ==
    ASSUME IInv, NEW batch, Adds(batch)
    PROVE  IInv'
  <1>1. AllFit(Later, inactive) /\ IsTable(alternative)' /\ cursor = NoCursor
        /\ inactive' = inactive /\ cursor' = cursor
    BY DEF Adds, HasBatch, RegisterRows
  <1>2. AllFit(Later, inactive')
    BY <1>1
  <1>3. AllFit(Now, inactive)'
    BY <1>2 DEF Now, Later, Tables, AllFit
  <1>4. CursorFits(registry, cursor)'
    <2>1. cursor' = NoCursor
      BY <1>1
    <2> QED BY <2>1 DEF CursorFits
  <1> QED BY <1>1, <1>3, <1>4 DEF IInv

LEMMA ChangedKeeps ==
    ASSUME IInv, NEW id, NEW s, Changes(id, s)
    PROVE  IInv'
  <1>1. PICK p, w, r2 :
             /\ Edits(rows, registry, inactive, alternative, p, rows', registry', inactive', w, r2)
             /\ alternative' = alternative
    BY DEF Changes, Edited
  <1>2. RowsFit(rows', registry', inactive', alternative) /\ NamesIn(rows') = NamesIn(rows)
    BY <1>1, EditedFits
  <1>3. NamesFit(names, NamesIn(rows)) /\ names' = names /\ cursor = NoCursor /\ cursor' = cursor
    BY FitsNow DEF IInv, Changes
  <1>4. RowsFit(rows', registry', inactive', alternative') /\ NamesFit(names', NamesIn(rows'))
    BY <1>1, <1>2, <1>3
  <1>5. Later.rows = rows' /\ Later.registry = registry' /\ Later.alternative = alternative' /\ Later.names = names'
    BY TablesAre DEF Later
  <1>6. AllFit(Later, inactive')
    BY <1>4, <1>5 DEF AllFit
  <1>7. AllFit(Now, inactive)'
    BY <1>6 DEF Now, Later, Tables, AllFit
  <1>8. IsTable(alternative)'
    BY <1>1 DEF IInv, IsTable
  <1>9. CursorFits(registry, cursor)'
    <2>1. cursor' = NoCursor
      BY <1>3
    <2> QED BY <2>1 DEF CursorFits
  <1> QED BY <1>7, <1>8, <1>9 DEF IInv

LEMMA InitFits == Init => IInv
  <1> SUFFICES ASSUME Init PROVE IInv
    OBVIOUS
  <1>1. PICK c : c = [k \in Kinds |-> 0]
    OBVIOUS
  <1>2. rows = [k \in Kinds |-> <<>>] /\ IsList(<<>>) /\ Len(<<>>) = 0 /\ DOMAIN <<>> = {}
    <2>1. <<>> \in Seq({}) /\ Len(<<>>) = 0 /\ DOMAIN <<>> = {}
      OBVIOUS
    <2>2. IsList(<<>>)
      BY <2>1 DEF IsList
    <2> QED BY <2>1, <2>2 DEF Init
  <1>3. RowsAreLists(rows) /\ Counts(rows) = c /\ IdsOf(rows) = {}
    <2>1. \A k \in Kinds : rows[k] = <<>>
      BY <1>2
    <2>2. 1..0 = {}
      OBVIOUS
    <2>3. RowsAreLists(rows)
      BY <1>2, <2>1, <2>2 DEF RowsAreLists
    <2>4. Counts(rows) = c
      BY <1>1, <1>2, <2>1 DEF Counts
    <2>5. IdsOf(rows) = {}
      BY <1>2, <2>1 DEF IdsOf
    <2> QED BY <2>3, <2>4, <2>5
  <1>4. Fits(registry, c) /\ Length(registry) = 0
    <2>1. PICK g : g = EmptyRegistry
      OBVIOUS
    <2>2. registry = g
      BY <2>1 DEF Init
    <2>3. g.implicit = TRUE /\ g.declarations = 0 /\ IsRegistry(g)
      BY <2>1 DEF EmptyRegistry, IsRegistry
    <2>4. c["alg"] = 0 /\ c \in [Kinds -> Nat] /\ \A k \in Kinds : c[k] = 0
      BY <1>1 DEF Kinds
    <2>5. [g EXCEPT !.declarations = 0] = g
      BY <2>3 DEF IsRegistry
    <2>6. Fits(g, c)
      BY <2>1, <2>3, <2>4, <2>5 DEF Fits
    <2> QED BY <2>2, <2>3, <2>6 DEF Length
  <1>5. DOMAIN inactive = {} /\ DOMAIN alternative = {} /\ IsTable(alternative)
    BY <1>2 DEF Init, IsTable
  <1>6. RowsFit(rows, registry, inactive, alternative)
    BY <1>3, <1>4, <1>5 DEF RowsFit
  <1>7. NamesFit(names, NamesIn(rows))
    <2>1. names = [entries |-> <<>>, collisions |-> <<>>]
      BY DEF Init
    <2>2. names.entries = <<>> /\ names.collisions = <<>>
          /\ names = [entries |-> names.entries, collisions |-> names.collisions]
      BY <2>1
    <2>3. DOMAIN NamesIn(rows) = {}
      BY <1>3 DEF NamesIn
    <2> QED BY <1>2, <2>2, <2>3 DEF NamesFit
  <1>8. AllFit(Now, inactive)
    BY <1>6, <1>7, NowIs DEF AllFit
  <1>9. CursorFits(registry, cursor)
    BY DEF Init, CursorFits
  <1> QED BY <1>5, <1>8, <1>9 DEF IInv

\* The variables that a step of the cursor leaves alone.
tables == <<rows, registry, names, inactive, alternative, locked>>

\* Every step is one of four.
LEMMA StepsAre ==
    ASSUME IInv, Next
    PROVE  \/ \E batch : Adds(batch)
           \/ \E id \in AllIds : \E active \in BOOLEAN : SetConstraintActive(id, active)
           \/ \E id \in AllIds : \E set \in SetValues : SetConstraintSet(id, set)
           \/ \E id \in AllIds : \E fn \in FunctionValues : SetConstraintFunction(id, fn)
           \/ \E id \in AllIds : \E origin \in Origins : SetConstraintOrigin(id, origin)
           \/ \E id \in AllIds : LockSource(id)
           \/ UNCHANGED tables /\ CursorFits(registry, cursor')
  <1>1. ASSUME NEW batch \in Batches,
               AddScalars(batch) \/ AddCones(batch) \/ AddSpecialOrderedSets(batch) \/ AddIndicators(batch)
        PROVE  Adds(batch)
    <2>1. Register(batch)
      BY <1>1 DEF AddScalars, AddCones, AddSpecialOrderedSets, AddIndicators
    <2> QED BY <2>1, RegistrationAdds
  <1>2. ASSUME NEW pair \in Ranges, AddRange(pair)
        PROVE  Adds(pair)
    BY <1>2, RangeRegistrationAdds
  <1>3. ~registry.implicit => Partition(Entries)
    BY FitsNow DEF IInv
  <1>4. ASSUME StartIteration
        PROVE  UNCHANGED tables /\ CursorFits(registry, cursor')
    <2>1. Between(Entries, cursor') /\ ~registry.implicit
      BY <1>3, <1>4, StartFits DEF StartIteration
    <2>2. UNCHANGED tables
      BY <1>4 DEF StartIteration, tables
    <2> QED BY <2>1, <2>2 DEF CursorFits, Entries
  <1>5. ASSUME NEW n \in 0..MaxRecords, Nth(n) \/ NthBack(n)
        PROVE  UNCHANGED tables /\ CursorFits(registry, cursor')
    <2>1. cursor # NoCursor /\ UNCHANGED tables
      BY <1>5 DEF Nth, NthBack, Iterate, tables
    <2>2. ~registry.implicit /\ Between(Entries, cursor)
      BY <2>1 DEF IInv, CursorFits, Entries
    <2>3. n \in Nat
      BY WordAssumption
    <2>4. cursor' = NoCursor \/ Between(Entries, cursor')
      BY <1>3, <1>5, <2>2, <2>3, NthFits, NthBackFits
    <2> QED BY <2>1, <2>2, <2>4 DEF CursorFits, Entries
  <1> QED BY <1>1, <1>2, <1>4, <1>5 DEF Next

LEMMA NextKeeps == IInv /\ [Next]_vars => IInv'
  <1> SUFFICES ASSUME IInv, [Next]_vars PROVE IInv'
    OBVIOUS
  <1>1. ASSUME UNCHANGED <<rows, registry, names, inactive, alternative>>, CursorFits(registry, cursor')
        PROVE  IInv'
    <2>1. CursorFits(registry', cursor')
      BY <1>1
    <2>2. CursorFits(registry, cursor)'
      BY <2>1 DEF CursorFits
    <2>3. AllFit(Now, inactive)' /\ IsTable(alternative)'
      BY <1>1 DEF IInv, AllFit, Now, Tables, IsTable
    <2> QED BY <2>2, <2>3 DEF IInv
  <1>2. CASE UNCHANGED vars
    <2>1. UNCHANGED <<rows, registry, names, inactive, alternative>> /\ cursor' = cursor
      BY <1>2 DEF vars
    <2> QED BY <1>1, <2>1 DEF IInv
  <1>3. CASE Next
    <2>1. ASSUME NEW batch, Adds(batch) PROVE IInv'
      BY <2>1, AddedKeeps
    <2>2. ASSUME NEW id \in AllIds, NEW active \in BOOLEAN, SetConstraintActive(id, active) PROVE IInv'
      BY <2>2, CallChanges, ChangedKeeps
    <2>3. ASSUME NEW id \in AllIds, NEW set \in SetValues, SetConstraintSet(id, set) PROVE IInv'
      BY <2>3, CallChanges, ChangedKeeps
    <2>4. ASSUME NEW id \in AllIds, NEW fn \in FunctionValues, SetConstraintFunction(id, fn) PROVE IInv'
      BY <2>4, CallChanges, ChangedKeeps
    <2>5. ASSUME NEW id \in AllIds, NEW origin \in Origins, SetConstraintOrigin(id, origin) PROVE IInv'
      BY <2>5, CallChanges, ChangedKeeps
    <2>6. ASSUME NEW id \in AllIds, LockSource(id) PROVE IInv'
      <3>1. UNCHANGED <<rows, registry, names, inactive, alternative>> /\ cursor' = cursor
        BY <2>6 DEF LockSource
      <3> QED BY <1>1, <3>1 DEF IInv
    <2>7. ASSUME UNCHANGED tables, CursorFits(registry, cursor') PROVE IInv'
      BY <1>1, <2>7 DEF tables
    <2> QED BY <1>3, <2>1, <2>2, <2>3, <2>4, <2>5, <2>6, <2>7, StepsAre
  <1> QED BY <1>2, <1>3

LEMMA InvariantHolds == Spec => []IInv
  <1> QED BY InitFits, NextKeeps, PTL DEF Spec

-----------------------------------------------------------------------------
(* Safety                                                                  *)

LEMMA LookupsFollow == IInv => LookupsAgree
  <1> SUFFICES ASSUME IInv PROVE LookupsAgree
    OBVIOUS
  <1>1. /\ RowsFit(rows, registry, inactive, alternative) /\ NamesFit(names, NamesIn(rows))
        /\ RowsAreLists(rows) /\ Fits(registry, Counts(rows)) /\ AllIds = IdsOf(rows)
        /\ ~registry.implicit => Partition(Entries)
    BY FitsNow DEF IInv
  <1>2. \A p \in 0..Length(registry) - 1 : Positions(registry, EntryOf(registry, p).id) = {p}
    BY <1>1, IdAtIs DEF IdAt
  <1>3. \A id \in AllIds : Positions(registry, id) # {}
    BY <1>1, PositionIsAt
  <1>4. \A id \in AllIds : NamesIn(rows)[id] = rows[id.kind][id.index + 1].name
    BY <1>1 DEF NamesIn, RowOf
  <1>5. DOMAIN NamesIn(rows) = AllIds
    BY <1>1 DEF NamesIn
  <1>6. ASSUME NEW name \in DOMAIN names.entries
        PROVE  /\ ToSet(Ids(names, name)) = {id \in AllIds : rows[id.kind][id.index + 1].name = name}
               /\ names.entries[name].many <=> Len(Ids(names, name)) > 1
    <2>1. /\ ToSet(Ids(names, name)) = Bearers(NamesIn(rows), name)
          /\ names.entries[name].many <=> Len(Ids(names, name)) > 1
      BY <1>1, IdsAreBearers
    <2> QED BY <1>4, <1>5, <2>1 DEF Bearers
  <1>7. \A id \in AllIds : rows[id.kind][id.index + 1].name \in DOMAIN names.entries
    BY <1>1, <1>4, <1>5 DEF NamesFit
  <1>8. ASSUME cursor.front < cursor.back
        PROVE  /\ InRun(Entries, cursor.front, FrontRun(cursor)) = EntryAt(Entries, cursor.front)
               /\ InRun(Entries, cursor.back - 1, BackRun(cursor)) = EntryAt(Entries, cursor.back - 1)
    <2>1. cursor # NoCursor
      BY <1>8 DEF NoCursor
    <2>2. ~registry.implicit /\ Between(Entries, cursor)
      BY <2>1 DEF IInv, CursorFits, Entries
    <2> QED BY <1>1, <2>2, CursorReads
  <1> QED BY <1>2, <1>3, <1>6, <1>7, <1>8 DEF LookupsAgree

LEMMA RowsFollow == IInv => RowsLowerRecords
  <1> SUFFICES ASSUME IInv PROVE RowsLowerRecords
    OBVIOUS
  <1>1. RowsFit(rows, registry, inactive, alternative)
    BY FitsNow DEF IInv
  <1>2. ASSUME NEW p \in 0..Length(registry) - 1, NEW record, record = RecordAt(p),
               NEW id, id = record.id, NEW row, row = rows[id.kind][id.index + 1],
               NEW view, view = IF id \in DOMAIN alternative THEN alternative[id]
                                ELSE View(record.fn, record.set)
        PROVE  /\ (row.active \/ id.kind # "alg") => row.view = view
               /\ ~row.active /\ id.kind = "alg" =>
                    /\ row.view = [root |-> ZeroRoot, bounds |-> Free]
                    /\ id \in DOMAIN inactive /\ inactive[id] = view
    <2>1. PICK r, w, v : /\ r = ReadingIn(rows, registry, p) /\ w = RowAt(rows, registry, p)
                         /\ v = Kept(inactive, r.id, w)
      OBVIOUS
    <2>2. Lowers(inactive, alternative, r, w)
      BY <1>1, <2>1 DEF RowsFit
    <2>3. r.id = IdAt(registry, p)
      BY <2>1, ReadingId DEF ReadingIn, IdAt
    <2>4. record = RecordOf(r, w, v)
      BY <1>2, <2>1, <2>3, RecordAtIs DEF RecordIn
    <2>5. /\ record = [id |-> r.id, name |-> w.name, fn |-> record.fn, set |-> record.set,
                       origin |-> record.origin, active |-> w.active]
          /\ v = IF r.id \in DOMAIN alternative THEN alternative[r.id] ELSE View(record.fn, record.set)
      BY <2>1, <2>2, <2>4, RecordShape
    <2>6. id = r.id
      BY <1>2, <2>5
    <2>7. row = w /\ view = v
      BY <1>2, <2>1, <2>3, <2>5, <2>6 DEF RowAt, RowOf
    <2>8. /\ id \in DOMAIN inactive <=> id.kind = "alg" /\ ~row.active
          /\ id \in DOMAIN inactive => row.view = [root |-> ZeroRoot, bounds |-> Free]
          /\ view = IF id \in DOMAIN inactive THEN inactive[id] ELSE row.view
      BY <2>1, <2>2, <2>6, <2>7 DEF Lowers, Kept
    <2> QED BY <2>8
  <1> QED BY <1>2 DEF RowsLowerRecords

\* Positions invert the entries, the table of names gives exactly the bearers
\* of a name, and a cursor reads what indexing returns: `position`, `entry`,
\* `by_name` and the double-ended iterator of the semantic registry.
THEOREM RecordsLookupsAgree == Spec => []LookupsAgree
  <1> QED BY InvariantHolds, LookupsFollow, PTL

\* The row a solver reads is the lowering of the record a reader sees, and a
\* deactivated scalar row has its view parked.
THEOREM RecordsRowsLowerRecords == Spec => []RowsLowerRecords
  <1> QED BY InvariantHolds, RowsFollow, PTL

-----------------------------------------------------------------------------
(* The list that a reader rebuilds                                         *)

\* The constraints of one kind number the rows of that kind.
LEMMA CountIs ==
    ASSUME NEW R, NEW reg, RowsAreLists(R), Fits(reg, Counts(R)), NEW k \in Kinds,
           NEW S, S = {p \in 1..Length(reg) : IdAt(reg, p - 1).kind = k}
    PROVE  Cardinality(S) = Len(R[k])
  <1>1. PICK n, m : n = Len(R[k]) /\ m = Length(reg)
    OBVIOUS
  <1>2. n \in Nat /\ m \in Nat /\ Counts(R)[k] = n
    BY <1>1, ListFacts, LengthIs DEF RowsAreLists, Counts
  <1>3. \A i \in 1..n : /\ Id(k, i - 1) \in IdsOf(R)
                        /\ Id(k, i - 1).kind = k /\ Id(k, i - 1).index = i - 1
    <2>1. \A i \in 1..n : i - 1 \in 0..Counts(R)[k] - 1
      BY <1>2
    <2>2. \A i : Id(k, i - 1).kind = k /\ Id(k, i - 1).index = i - 1
      BY DEF Id
    <2> QED BY <2>1, <2>2, IdsAre
  <1>4. PICK f : f = [i \in 1..n |-> Position(reg, Id(k, i - 1)) + 1]
    OBVIOUS
  <1>5. ASSUME NEW i \in 1..n
        PROVE  f[i] \in 1..m /\ IdAt(reg, f[i] - 1) = Id(k, i - 1)
    <2>1. PICK p \in 0..m - 1 : Position(reg, Id(k, i - 1)) = p /\ IdAt(reg, p) = Id(k, i - 1)
      BY <1>1, <1>3, PositionIsAt
    <2>2. f[i] = p + 1
      BY <1>4, <2>1
    <2>3. f[i] \in 1..m /\ f[i] - 1 = p
      BY <1>2, <2>1, <2>2
    <2> QED BY <2>1, <2>3
  <1>6. \A i \in 1..n : f[i] \in S
    BY <1>1, <1>3, <1>5
  <1>7. ASSUME NEW i \in 1..n, NEW j \in 1..n, f[i] = f[j]
        PROVE  i = j
    <2>1. Id(k, i - 1) = Id(k, j - 1)
      BY <1>5, <1>7
    <2>2. i - 1 = j - 1
      BY <1>3, <2>1
    <2> QED BY <1>2, <2>2
  <1>8. ASSUME NEW q \in S
        PROVE  \E i \in 1..n : f[i] = q
    <2>1. q \in 1..m /\ IdAt(reg, q - 1).kind = k /\ q - 1 \in 0..m - 1
      BY <1>1, <1>2
    <2>2. PICK id : id = IdAt(reg, q - 1)
      OBVIOUS
    <2>3. id.index \in Nat /\ id.index + 1 \in 1..n /\ id = Id(k, id.index) /\ Positions(reg, id) = {q - 1}
      BY <1>1, <2>1, <2>2, IdAtIs
    <2>4. PICK i : i = id.index + 1
      OBVIOUS
    <2>5. i \in 1..n /\ i - 1 = id.index
      BY <2>3, <2>4
    <2>6. Position(reg, id) = q - 1
      BY <2>3 DEF Position
    <2>7. f[i] = q - 1 + 1
      BY <1>4, <2>3, <2>5, <2>6
    <2> QED BY <2>1, <2>5, <2>7
  <1>9. f \in Bijection(1..n, S)
    <2>1. f \in [1..n -> S]
      BY <1>4, <1>6
    <2>2. DOMAIN f = 1..n
      BY <1>4
    <2> QED BY <1>7, <1>8, <2>1, <2>2 DEF Bijection, Injection, Surjection, IsInjective
  <1> QED BY <1>1, <1>2, <1>9, FS_CountingElements DEF ExistsBijection

\* The records in order.
Listed(R, reg, I) == [p \in 1..Length(reg) |-> RecordIn(R, reg, I, p - 1)]

LEMMA RecordsAre == Records = Listed(rows, registry, inactive)
  BY RecordAtIs DEF Records, Listed

LEMMA ListedIs ==
    ASSUME NEW R, NEW reg, NEW I, NEW s, s = Listed(R, reg, I), Length(reg) \in Nat
    PROVE  /\ IsList(s) /\ Len(s) = Length(reg) /\ DOMAIN s = 1..Length(reg)
           /\ \A p \in 1..Length(reg) : s[p] = RecordIn(R, reg, I, p - 1)
  <1>1. DOMAIN s = 1..Length(reg) /\ s = [i \in 1..Length(reg) |-> s[i]]
        /\ \A p \in 1..Length(reg) : s[p] = RecordIn(R, reg, I, p - 1)
    BY DEF Listed
  <1> QED BY <1>1, ListOf

\* A record has the id of its position and the name of its row.
LEMMA RecordIdIs ==
    ASSUME NEW R, NEW reg, NEW I, NEW A, RowsFit(R, reg, I, A), NEW p \in 0..Length(reg) - 1,
           NEW rec, rec = RecordIn(R, reg, I, p)
    PROVE  /\ rec.id = IdAt(reg, p) /\ rec.name = RowOf(R, IdAt(reg, p)).name
           /\ rec = [id |-> rec.id, name |-> rec.name, fn |-> rec.fn, set |-> rec.set,
                     origin |-> rec.origin, active |-> rec.active]
  <1>1. PICK r, w, v : r = ReadingIn(R, reg, p) /\ w = RowAt(R, reg, p) /\ v = Kept(I, r.id, w)
    OBVIOUS
  <1>2. Lowers(I, A, r, w)
    BY <1>1 DEF RowsFit
  <1>3. r.id = IdAt(reg, p) /\ w = RowOf(R, IdAt(reg, p))
    BY <1>1, ReadingId DEF ReadingIn, IdAt, RowAt
  <1>4. rec = RecordOf(r, w, v)
    BY <1>1, <1>3 DEF RecordIn
  <1>5. rec = [id |-> r.id, name |-> w.name, fn |-> rec.fn, set |-> rec.set,
               origin |-> rec.origin, active |-> w.active]
    BY <1>1, <1>2, <1>4, RecordShape
  <1>6. rec.id = r.id /\ rec.name = w.name /\ rec.active = w.active
    BY <1>5
  <1> QED BY <1>3, <1>5, <1>6

LEMMA PrefixIs ==
    ASSUME NEW s, IsList(s), NEW t, IsList(t), Len(s) <= Len(t), \A i \in 1..Len(s) : s[i] = t[i]
    PROVE  IsPrefix(s, t)
  <1>1. PICK n, S, T : n = Len(s) /\ s \in Seq(S) /\ t \in Seq(T)
    BY DEF IsList
  <1>2. n \in Nat /\ Len(t) \in Nat /\ n <= Len(t)
    BY <1>1, ListFacts
  <1>3. 1 \in 1..n + 1 /\ n \in 0..n /\ 1 \in 1..Len(t) + 1 /\ n \in 0..Len(t)
    BY <1>2
  <1>4. PICK u, v : u = SubSeq(s, 1, n) /\ v = SubSeq(t, 1, n)
    OBVIOUS
  <1>5. u \in Seq(S) /\ Len(u) = n /\ \A i \in 1..n : u[i] = s[i]
    <2>1. 1 - 1 = 0 /\ n - 1 + 1 = n /\ \A i \in 1..n : 1 + i - 1 = i
      BY <1>2
    <2>2. /\ SubSeq(s, 1, n) \in Seq(S) /\ Len(SubSeq(s, 1, n)) = IF 1 <= n THEN n - 1 + 1 ELSE 0
          /\ \A i \in 1..n - 1 + 1 : SubSeq(s, 1, n)[i] = s[1 + i - 1]
      BY <1>1, <1>2, <1>3, <2>1, SubSeqProperties
    <2> QED BY <1>2, <1>4, <2>1, <2>2
  <1>6. v \in Seq(T) /\ Len(v) = n /\ \A i \in 1..n : v[i] = t[i]
    <2>1. 1 - 1 = 0 /\ n - 1 + 1 = n /\ \A i \in 1..n : 1 + i - 1 = i
      BY <1>2
    <2>2. /\ SubSeq(t, 1, n) \in Seq(T) /\ Len(SubSeq(t, 1, n)) = IF 1 <= n THEN n - 1 + 1 ELSE 0
          /\ \A i \in 1..n - 1 + 1 : SubSeq(t, 1, n)[i] = t[1 + i - 1]
      BY <1>1, <1>2, <1>3, <2>1, SubSeqProperties
    <2> QED BY <1>2, <1>4, <2>1, <2>2
  <1>7. u = v
    BY <1>1, <1>5, <1>6
  <1> QED BY <1>1, <1>2, <1>4, <1>7 DEF IsPrefix

-----------------------------------------------------------------------------
(* Refinement of DeclaredConstraints                                       *)

\* The constraints that a variable of the abstract specification holds.
Frozen == [locked |-> locked, alternative |-> DOMAIN alternative]

\* The list t is the list s and after it the records of a batch of the kind k,
\* numbered from base; of the ids in B but not in A all are theirs.
FollowedBy(s, t, A, B, batch, k, base) ==
    LET IdOf(i) == Id(k, base + i - 1)
    IN /\ Len(batch) \in {1, 2} /\ k \in Kinds /\ base \in Nat /\ Len(s) \in Nat
       /\ Len(s) + Len(batch) <= MaxRecords
       /\ DOMAIN s = 1..Len(s) /\ Len(t) = Len(s) + Len(batch) /\ DOMAIN t = 1..Len(t)
       /\ IsPrefix(s, t) /\ \A p \in 1..Len(s) : t[p] = s[p]
       /\ \A i \in 1..Len(batch) : /\ t[Len(s) + i] = DeclaredRecord(IdOf(i), batch[i])
                                   /\ IdOf(i) \in B <=> IsAlternative(batch[i])
       /\ B \ {IdOf(i) : i \in 1..Len(batch)} = A

\* A registered batch follows the records there were.
LEMMA AddedRecords ==
    ASSUME IInv, NEW batch, Adds(batch)
    PROVE  FollowedBy(Records, Records', DOMAIN alternative, DOMAIN alternative',
                      batch, batch[1].kind, Len(rows[batch[1].kind]))
  <1> DEFINE m == Length(registry)
             n == Len(batch)
             k == batch[1].kind
             base == Len(rows[k])
             s == Records
             t == Records'
  <1>1. /\ HasBatch(Now, Later, inactive, batch) /\ IsBatch(batch) /\ RegisterRows(batch)
        /\ inactive' = inactive /\ locked' = locked
    BY DEF Adds, RegisterRows
  <1>2. /\ RowsFit(rows, registry, inactive, alternative) /\ m \in Nat
    BY FitsNow DEF IInv
  <1>3. n \in {1, 2}
    BY <1>1 DEF IsBatch
  <1>4. k \in Kinds
    <2>1. 1 \in 1..n
      BY <1>3
    <2> QED BY <1>1, <2>1 DEF IsBatch, IsDeclaration
  <1>5. m + n <= MaxRecords
    BY <1>1 DEF RegisterRows
  <1>6. Later.rows = rows' /\ Later.registry = registry' /\ Later.alternative = alternative'
    BY TablesAre DEF Later
  <1>7. /\ base \in Nat /\ Length(registry') = m + n
        /\ \A q \in 0..m - 1 :
             RecordIn(rows', registry', inactive, q) = RecordIn(rows, registry, inactive, q)
        /\ \A i \in 1..n : Declares(Later, inactive, m + i - 1, Id(k, base + i - 1), batch[i])
        /\ DOMAIN alternative' \ {Id(k, base + i - 1) : i \in 1..n} = DOMAIN alternative
    BY <1>1, <1>6, NowIs DEF HasBatch, Keeps
  <1>8. s = Listed(rows, registry, inactive)
    BY RecordsAre
  <1>9. t = Listed(rows', registry', inactive)
    <2>1. (Records = Listed(rows, registry, inactive))'
      BY RecordsAre, PTL
    <2>2. Records' = Listed(rows', registry', inactive')
      BY <2>1
    <2> QED BY <1>1, <2>2
  <1> HIDE DEF m, n, k, base, s, t
  <1>10. /\ IsList(s) /\ Len(s) = m /\ DOMAIN s = 1..m
         /\ \A p \in 1..m : s[p] = RecordIn(rows, registry, inactive, p - 1)
    BY <1>2, <1>8, ListedIs DEF m
  <1>11. m + n \in Nat
    BY <1>2, <1>3
  <1>12. /\ IsList(t) /\ Len(t) = m + n /\ DOMAIN t = 1..m + n
         /\ \A p \in 1..m + n : t[p] = RecordIn(rows', registry', inactive, p - 1)
    BY <1>7, <1>9, <1>11, ListedIs
  <1>13. \A p \in 1..m : s[p] = t[p]
    <2>1. \A p \in 1..m : p \in 1..m + n /\ p - 1 \in 0..m - 1
      BY <1>2, <1>3
    <2> QED BY <1>7, <1>10, <1>12, <2>1
  <1>14. IsPrefix(s, t)
    <2>1. Len(s) <= Len(t)
      BY <1>2, <1>3, <1>10, <1>12
    <2> QED BY <1>10, <1>12, <1>13, <2>1, PrefixIs
  <1>15. ASSUME NEW i \in 1..n
         PROVE  /\ t[m + i] = DeclaredRecord(Id(k, base + i - 1), batch[i])
                /\ Id(k, base + i - 1) \in DOMAIN alternative' <=> IsAlternative(batch[i])
    <2>1. m + i \in 1..m + n
      BY <1>2, <1>3
    <2>2. /\ RecordIn(rows', registry', inactive, m + i - 1) = DeclaredRecord(Id(k, base + i - 1), batch[i])
          /\ Id(k, base + i - 1) \in DOMAIN alternative' <=> IsAlternative(batch[i])
      BY <1>6, <1>7 DEF Declares
    <2>3. t[m + i] = RecordIn(rows', registry', inactive, m + i - 1)
      <3>1. PICK p, q : p = m + i /\ q = m + i - 1
        OBVIOUS
      <3>2. p \in 1..m + n /\ p - 1 = q
        BY <1>2, <1>3, <2>1, <3>1
      <3>3. t[p] = RecordIn(rows', registry', inactive, p - 1)
        BY ONLY <1>12, <3>2
      <3>4. t[p] = RecordIn(rows', registry', inactive, q)
        BY ONLY <3>2, <3>3
      <3> QED BY ONLY <3>1, <3>4
    <2> QED BY <2>2, <2>3
  <1>16. FollowedBy(s, t, DOMAIN alternative, DOMAIN alternative', batch, k, base)
    BY <1>2, <1>3, <1>4, <1>5, <1>7, <1>10, <1>12, <1>13, <1>14, <1>15 DEF FollowedBy, n
  <1> QED BY <1>16 DEF s, t, k, base

\* No constraint of the kind has the name of a new one.
LEMMA NewNames ==
    ASSUME IInv, NEW k, NEW name, InRegistry(names, name, k) = {}, NEW p \in 1..Length(registry),
           Records[p].id.kind = k
    PROVE  Records[p].name # name
  <1>1. /\ RowsFit(rows, registry, inactive, alternative) /\ NamesFit(names, NamesIn(rows))
        /\ RowsAreLists(rows) /\ Fits(registry, Counts(rows)) /\ Length(registry) \in Nat
    BY FitsNow DEF IInv
  <1>2. PICK q, rec, id : q = p - 1 /\ rec = Records[p] /\ id = IdAt(registry, q)
    OBVIOUS
  <1>3. q \in 0..Length(registry) - 1
    BY <1>1, <1>2
  <1>4. rec = RecordIn(rows, registry, inactive, q)
    BY <1>1, <1>2, RecordsAre, ListedIs
  <1>5. rec.id = id /\ rec.name = RowOf(rows, id).name
    BY <1>1, <1>2, <1>3, <1>4, RecordIdIs
  <1>6. id \in IdsOf(rows)
    BY <1>1, <1>2, <1>3, IdAtIs
  <1>7. ToSet(Ids(names, name)) = Bearers(NamesIn(rows), name)
    BY <1>1, IdsAreBearers
  <1> SUFFICES ASSUME rec.name = name PROVE FALSE
    BY <1>2
  <1>8. id \in Bearers(NamesIn(rows), name)
    BY <1>5, <1>6 DEF Bearers, NamesIn
  <1>9. id \in InRegistry(names, name, k)
    BY <1>2, <1>5, <1>7, <1>8 DEF InRegistry
  <1> QED BY <1>9

\* What the abstract specification sees of a declaration.
Abstracted(d) ==
    [kind |-> d.kind, name |-> d.name, fn |-> d.fn, set |-> d.set, origin |-> d.origin,
     alternative |-> IsAlternative(d)]

AllAbstracted == {Abstracted(d) : d \in Written}

\* Register of the abstract specification, of two lists.
RegistersIn(s, t, A, B, base) ==
    LET new == Len(s) + 1..Len(t)
        kind == t[Len(s) + 1].id.kind
    IN /\ Len(t) > Len(s) /\ Len(t) <= MaxRecords /\ IsPrefix(s, t)
       /\ \A p \in new : \E d \in AllAbstracted :
            /\ t[p] = Declarative!Entry(d, base + p - Len(s) - 1)
            /\ d.kind = kind /\ (t[p].id \in B <=> d.alternative)
       /\ \A p \in new : \A q \in {x \in DOMAIN s : s[x].id.kind = kind} \cup (new \ {p}) :
            t[p].name # t[q].name
       /\ B \ {t[p].id : p \in new} = A

\* Two declarations of a batch differ in name, and from what the list s holds.
FreshNames(s, batch, k) ==
    /\ Len(batch) = 2 => batch[1].name # batch[2].name
    /\ \A i \in 1..Len(batch) : \A q \in 1..Len(s) : s[q].id.kind = k => s[q].name # batch[i].name

LEMMA FollowedRegisters ==
    ASSUME NEW s, NEW t, NEW A, NEW B, NEW batch, NEW k, NEW base, FollowedBy(s, t, A, B, batch, k, base),
           \A i \in 1..Len(batch) : batch[i] \in Written /\ batch[i].kind = k,
           FreshNames(s, batch, k)
    PROVE  RegistersIn(s, t, A, B, base) /\ t[Len(s) + 1].id.kind = k
  <1> DEFINE new == Len(s) + 1..Len(t)
  <1>1. PICK m, n : m = Len(s) /\ n = Len(batch)
    OBVIOUS
  <1>2. /\ n \in {1, 2} /\ base \in Nat /\ m \in Nat /\ m + n <= MaxRecords
        /\ DOMAIN s = 1..m /\ Len(t) = m + n
        /\ IsPrefix(s, t) /\ \A p \in 1..m : t[p] = s[p]
        /\ \A i \in 1..n : /\ t[m + i] = DeclaredRecord(Id(k, base + i - 1), batch[i])
                           /\ Id(k, base + i - 1) \in B <=> IsAlternative(batch[i])
        /\ B \ {Id(k, base + i - 1) : i \in 1..n} = A
    BY <1>1 DEF FollowedBy
  <1>3. new = m + 1..m + n
    BY <1>1, <1>2
  <1>4. ASSUME NEW p \in new
        PROVE  p - m \in 1..n /\ m + (p - m) = p /\ base + (p - m) - 1 = base + p - m - 1
    BY <1>2, <1>3
  <1>5. ASSUME NEW p \in new
        PROVE  /\ t[p] = DeclaredRecord(Id(k, base + p - m - 1), batch[p - m])
               /\ Id(k, base + p - m - 1) \in B <=> IsAlternative(batch[p - m])
               /\ t[p].id = Id(k, base + p - m - 1) /\ t[p].name = batch[p - m].name
               /\ t[p].id.kind = k
    <2>1. PICK i \in 1..n : i = p - m /\ m + i = p /\ base + i - 1 = base + p - m - 1
      BY <1>4
    <2>2. /\ t[p] = DeclaredRecord(Id(k, base + i - 1), batch[i])
          /\ Id(k, base + i - 1) \in B <=> IsAlternative(batch[i])
      BY ONLY <1>2, <2>1
    <2>3. t[p].id = Id(k, base + i - 1) /\ t[p].name = batch[i].name
      BY ONLY <2>2 DEF DeclaredRecord
    <2>4. t[p].id.kind = k
      BY <2>3 DEF Id
    <2> QED BY ONLY <2>1, <2>2, <2>3, <2>4
  <1>6. Len(s) + 1 \in new
    BY <1>1, <1>2, <1>3
  <1>7. t[Len(s) + 1].id.kind = k
    BY ONLY <1>5, <1>6
  <1>8. ASSUME NEW p \in new
        PROVE  \E d \in AllAbstracted : /\ t[p] = Declarative!Entry(d, base + p - Len(s) - 1)
                                        /\ d.kind = k /\ (t[p].id \in B <=> d.alternative)
    <2>1. PICK i, e, d : i = p - m /\ e = batch[i] /\ d = Abstracted(e)
      OBVIOUS
    <2>2. i \in 1..n /\ e \in Written /\ e.kind = k
      BY <1>1, <1>4, <2>1
    <2>3. d \in AllAbstracted
      BY <2>1, <2>2 DEF AllAbstracted
    <2>4. d.kind = k /\ d.name = e.name /\ d.fn = e.fn /\ d.set = e.set /\ d.origin = e.origin
          /\ (d.alternative <=> IsAlternative(e))
      BY <2>1, <2>2 DEF Abstracted
    <2>5. t[p] = DeclaredRecord(Id(k, base + p - m - 1), e)
          /\ (t[p].id \in B <=> IsAlternative(e))
      BY ONLY <1>5, <2>1
    <2>6. t[p] = Declarative!Entry(d, base + p - m - 1)
      BY ONLY <2>4, <2>5 DEF Declarative!Entry, DeclaredRecord, Id
    <2> QED BY ONLY <1>1, <2>3, <2>4, <2>5, <2>6
  <1>9. ASSUME NEW p \in new, NEW q \in {x \in DOMAIN s : s[x].id.kind = k} \cup (new \ {p})
        PROVE  t[p].name # t[q].name
    <2>1. t[p].name = batch[p - m].name /\ p - m \in 1..n
      BY ONLY <1>4, <1>5
    <2>2. CASE q \in DOMAIN s /\ s[q].id.kind = k
      <3>1. q \in 1..m /\ t[q] = s[q]
        BY <1>2, <2>2
      <3>2. s[q].name # batch[p - m].name
        BY <1>1, <2>1, <2>2, <3>1 DEF FreshNames
      <3> QED BY <2>1, <3>1, <3>2
    <2>3. CASE q \in new \ {p}
      <3>1. t[q].name = batch[q - m].name /\ q - m \in 1..n
        BY ONLY <1>4, <1>5, <2>3
      <3>2. p - m # q - m
        BY <1>2, <1>3, <2>3
      <3>3. n = 2 /\ ((p - m = 1 /\ q - m = 2) \/ (p - m = 2 /\ q - m = 1))
        <4>1. PICK i, j : i = p - m /\ j = q - m
          OBVIOUS
        <4>2. i \in 1..n /\ j \in 1..n /\ i # j
          BY ONLY <2>1, <3>1, <3>2, <4>1
        <4>3. n = 2
          BY ONLY <1>2, <4>2
        <4>4. (i = 1 /\ j = 2) \/ (i = 2 /\ j = 1)
          BY ONLY <4>2, <4>3
        <4> QED BY ONLY <4>1, <4>3, <4>4
      <3>4. batch[1].name # batch[2].name
        BY <1>1, <3>3 DEF FreshNames
      <3>5. CASE p - m = 1 /\ q - m = 2
        BY ONLY <2>1, <3>1, <3>4, <3>5
      <3>6. CASE p - m = 2 /\ q - m = 1
        BY ONLY <2>1, <3>1, <3>4, <3>6
      <3> QED BY ONLY <3>3, <3>5, <3>6
    <2> QED BY <2>2, <2>3
  <1>10. {t[p].id : p \in new} = {Id(k, base + i - 1) : i \in 1..n}
    <2>1. ASSUME NEW i \in 1..n
          PROVE  m + i \in new /\ t[m + i].id = Id(k, base + i - 1)
      <3>1. m + i \in new
        BY <1>2, <1>3
      <3>2. t[m + i] = DeclaredRecord(Id(k, base + i - 1), batch[i])
        BY ONLY <1>2, i \in 1..n
      <3>3. t[m + i].id = Id(k, base + i - 1)
        BY ONLY <3>2 DEF DeclaredRecord
      <3> QED BY ONLY <3>1, <3>3
    <2>2. ASSUME NEW p \in new
          PROVE  \E i \in 1..n : t[p].id = Id(k, base + i - 1)
      BY <1>4, <1>5
    <2> HIDE DEF new
    <2> QED BY ONLY <2>1, <2>2
  <1>11. Len(t) > Len(s) /\ Len(t) <= MaxRecords
    BY <1>1, <1>2
  <1>12. B \ {t[p].id : p \in new} = A
    BY ONLY <1>2, <1>10
  <1> HIDE DEF new
  <1>13. \A p \in new : \E d \in AllAbstracted :
            /\ t[p] = Declarative!Entry(d, base + p - Len(s) - 1)
            /\ d.kind = t[Len(s) + 1].id.kind /\ (t[p].id \in B <=> d.alternative)
    BY ONLY <1>7, <1>8
  <1>14. \A p \in new : \A q \in {x \in DOMAIN s : s[x].id.kind = t[Len(s) + 1].id.kind} \cup (new \ {p}) :
            t[p].name # t[q].name
    BY ONLY <1>7, <1>9
  <1> QED BY ONLY <1>2, <1>7, <1>11, <1>12, <1>13, <1>14 DEF RegistersIn, new

LEMMA AbstractedAre ==
    {[kind |-> d.kind, name |-> d.name, fn |-> d.fn, set |-> d.set, origin |-> d.origin,
      alternative |-> IsAlternative(d)] : d \in Declarations \cup UNION {ToSet(pair) : pair \in Ranges}}
      = AllAbstracted
  BY DEF AllAbstracted, Abstracted, Written

\* The number of constraints of a kind is the length of its registry.
LEMMA CountOfKind ==
    ASSUME IInv, NEW k \in Kinds
    PROVE  /\ Declarative!Count(k) = Len(rows[k])
           /\ Declarative!Of(k) = {x \in DOMAIN Records : Records[x].id.kind = k}
  <1>1. RowsFit(rows, registry, inactive, alternative) /\ RowsAreLists(rows) /\ Fits(registry, Counts(rows))
        /\ Length(registry) \in Nat
    BY FitsNow DEF IInv
  <1>2. PICK m : m = Length(registry)
    OBVIOUS
  <1>3. DOMAIN Records = 1..m /\ \A p \in 1..m : Records[p] = RecordIn(rows, registry, inactive, p - 1)
    BY <1>1, <1>2, RecordsAre, ListedIs
  <1>4. ASSUME NEW p \in 1..m
        PROVE  Records[p].id = IdAt(registry, p - 1)
    <2>1. p - 1 \in 0..m - 1
      BY <1>1, <1>2
    <2> QED BY <1>1, <1>2, <1>3, <2>1, RecordIdIs
  <1>5. Declarative!Of(k) = {x \in DOMAIN Records : Records[x].id.kind = k}
    BY DEF Declarative!Of
  <1>6. Declarative!Of(k) = {p \in 1..m : IdAt(registry, p - 1).kind = k}
    BY ONLY <1>3, <1>4, <1>5
  <1>7. Cardinality({p \in 1..m : IdAt(registry, p - 1).kind = k}) = Len(rows[k])
    BY <1>1, <1>2, CountIs
  <1>8. Declarative!Count(k) = Cardinality(Declarative!Of(k))
    BY DEF Declarative!Count, Declarative!Cardinality, Declarative!IsFiniteSet, Cardinality, IsFiniteSet
  <1> QED BY ONLY <1>5, <1>6, <1>7, <1>8

LEMMA AddsRegister ==
    ASSUME IInv, NEW batch, Adds(batch)
    PROVE  Declarative!Register
  <1>1. PICK s, t, A, B, k, base :
           /\ s = Records /\ t = Records' /\ A = DOMAIN alternative /\ B = DOMAIN alternative'
           /\ k = batch[1].kind /\ base = Len(rows[k])
    OBVIOUS
  <1>2. FollowedBy(s, t, A, B, batch, k, base)
    BY ONLY IInv, Adds(batch), <1>1, AddedRecords
  <1>3. /\ IsBatch(batch) /\ RegisterRows(batch) /\ locked' = locked
        /\ \A i \in 1..Len(batch) : batch[i] \in Written
        /\ Len(batch) = 2 => batch[1].name # batch[2].name
    BY DEF Adds, RegisterRows
  <1>4. \A i \in 1..Len(batch) : batch[i].kind = k /\ InRegistry(names, batch[i].name, k) = {}
    BY <1>1, <1>3 DEF IsBatch, RegisterRows
  <1>5. Len(s) = Length(registry) /\ k \in Kinds
    <2>1. Length(registry) \in Nat
      BY FitsNow DEF IInv
    <2> QED BY <1>1, <1>2, <2>1, RecordsAre, ListedIs DEF FollowedBy
  <1>6. FreshNames(s, batch, k)
    <2>1. ASSUME NEW i \in 1..Len(batch), NEW q \in 1..Len(s), s[q].id.kind = k
          PROVE  s[q].name # batch[i].name
      <3>1. PICK name : name = batch[i].name /\ InRegistry(names, name, k) = {}
        BY <1>4
      <3>2. q \in 1..Length(registry) /\ Records[q].id.kind = k
        BY <1>1, <1>5, <2>1
      <3>3. Records[q].name # name
        BY ONLY IInv, <3>1, <3>2, NewNames
      <3> QED BY <1>1, <3>1, <3>3
    <2> QED BY <1>3, <2>1 DEF FreshNames
  <1>7. RegistersIn(s, t, A, B, base) /\ t[Len(s) + 1].id.kind = k
    BY ONLY <1>2, <1>3, <1>4, <1>6, FollowedRegisters
  <1>8. Declarative!Count(k) = base /\ Declarative!Of(k) = {x \in DOMAIN s : s[x].id.kind = k}
    BY ONLY IInv, <1>1, <1>5, CountOfKind
  <1>9. /\ Len(t) > Len(s) /\ Len(t) <= MaxRecords /\ IsPrefix(s, t)
        /\ \A p \in Len(s) + 1..Len(t) : \E d \in AllAbstracted :
            /\ t[p] = Declarative!Entry(d, Declarative!Count(k) + p - Len(s) - 1)
            /\ d.kind = k /\ (t[p].id \in B <=> d.alternative)
        /\ \A p \in Len(s) + 1..Len(t) : \A q \in Declarative!Of(k) \cup ((Len(s) + 1..Len(t)) \ {p}) :
            t[p].name # t[q].name
        /\ B \ {t[p].id : p \in Len(s) + 1..Len(t)} = A
    BY ONLY <1>7, <1>8 DEF RegistersIn
  <1>10. Frozen' = [locked |-> locked', alternative |-> DOMAIN alternative']
    BY DEF Frozen
  <1> HIDE DEF Frozen
  <1> QED BY ONLY <1>1, <1>3, <1>7, <1>9, AbstractedAre DEF Declarative!Register, Declarative!IsPrefix, IsPrefix

\* An edit of a constraint makes s of its record and leaves the others.
EditsRecord(p, id, s) ==
    /\ p \in DOMAIN Records /\ Records[p].id = id /\ Records[p] = RecordAt(Position(registry, id))
    /\ Records'[p] = s /\ Records' = [Records EXCEPT ![p] = s]
    /\ locked' = locked /\ alternative' = alternative

LEMMA ChangesRecord ==
    ASSUME IInv, NEW id, NEW s, Changes(id, s)
    PROVE  \E p : EditsRecord(p, id, s)
  <1>1. PICK q, w, r2 :
             /\ q \in 0..Length(registry) - 1 /\ IdAt(registry, q) = id
             /\ Edits(rows, registry, inactive, alternative, q, rows', registry', inactive', w, r2)
             /\ RecordOf(r2, w, Kept(inactive', r2.id, w)) = s
             /\ alternative' = alternative
    BY DEF Changes, Edited
  <1>2. PICK m, p : m = Length(registry) /\ p = q + 1
    OBVIOUS
  <1>3. /\ RowsFit(rows, registry, inactive, alternative) /\ m \in Nat
        /\ AllFit(Now, inactive) /\ Now.registry = registry
    BY <1>2, FitsNow, NowIs DEF IInv
  <1>4. p \in 1..m /\ p - 1 = q /\ \A x \in 1..m : x - 1 \in 0..m - 1 /\ (x # p => x - 1 # q)
    BY <1>1, <1>2, <1>3
  <1>5. /\ Length(registry') = m
        /\ RecordIn(rows', registry', inactive', q) = s
        /\ \A x \in 0..m - 1 : x # q =>
             RecordIn(rows', registry', inactive', x) = RecordIn(rows, registry, inactive, x)
    BY <1>1, <1>2, EditedFits
  <1>6. /\ DOMAIN Records = 1..m /\ Records = [x \in 1..m |-> Records[x]]
        /\ \A x \in 1..m : Records[x] = RecordIn(rows, registry, inactive, x - 1)
    <2>1. Records = [x \in 1..m |-> RecordIn(rows, registry, inactive, x - 1)]
      BY <1>2, RecordsAre DEF Listed
    <2> QED BY ONLY <2>1
  <1>7. /\ DOMAIN Records' = 1..m /\ Records' = [x \in 1..m |-> Records'[x]]
        /\ \A x \in 1..m : Records'[x] = RecordIn(rows', registry', inactive', x - 1)
    <2>1. (Records = Listed(rows, registry, inactive))'
      BY RecordsAre, PTL
    <2>2. Records' = [x \in 1..m |-> RecordIn(rows', registry', inactive', x - 1)]
      BY <1>5, <2>1 DEF Listed
    <2> QED BY ONLY <2>2
  <1>8. Records'[p] = s
    BY ONLY <1>4, <1>5, <1>7
  <1>9. Records' = [Records EXCEPT ![p] = s]
    <2>1. \A x \in 1..m : x # p => Records'[x] = Records[x]
      BY ONLY <1>4, <1>5, <1>6, <1>7
    <2> QED BY ONLY <1>4, <1>6, <1>7, <1>8, <2>1
  <1>10. Records[p] = RecordAt(q)
    BY ONLY <1>4, <1>6, RecordAtIs
  <1>11. Position(registry, id) = q
    BY <1>1, <1>2, <1>3, PositionOfRecord
  <1>12. Records[p].id = id
    <2>1. Records[p] = RecordIn(rows, registry, inactive, q)
      BY ONLY <1>4, <1>6
    <2> QED BY <1>1, <1>3, <2>1, RecordIdIs
  <1> QED BY <1>1, <1>4, <1>6, <1>8, <1>9, <1>10, <1>11, <1>12 DEF EditsRecord, Changes

LEMMA EditsDeclared ==
    ASSUME IInv, NEW id \in AllIds,
           \/ \E active \in BOOLEAN : SetConstraintActive(id, active)
           \/ \E set \in SetValues : SetConstraintSet(id, set)
           \/ \E fn \in FunctionValues : SetConstraintFunction(id, fn)
           \/ \E origin \in Origins : SetConstraintOrigin(id, origin)
    PROVE  Declarative!Edit
  <1>0. \/ \E active \in BOOLEAN : SetConstraintActive(id, active)
        \/ \E set \in SetValues : SetConstraintSet(id, set)
        \/ \E fn \in FunctionValues : SetConstraintFunction(id, fn)
        \/ \E origin \in Origins : SetConstraintOrigin(id, origin)
    OBVIOUS
  <1>1. PICK r : r = RecordAt(Position(registry, id))
    OBVIOUS
  <1> DEFINE May(s) ==
           \/ id \notin locked /\ \E active \in BOOLEAN : s = [r EXCEPT !.active = active]
           \/ /\ id \notin locked \cup DOMAIN alternative
              /\ \/ \E fn \in FunctionValues : s = [r EXCEPT !.fn = fn]
                 \/ \E set \in SetValues : s = [r EXCEPT !.set = set]
           \/ \E origin \in Origins : s = [r EXCEPT !.origin = origin]
  <1>2. \E s : Changes(id, s) /\ May(s)
    <2>1. CASE \E active \in BOOLEAN : SetConstraintActive(id, active)
      <3>1. PICK active \in BOOLEAN : SetConstraintActive(id, active)
        BY <2>1
      <3>2. id \notin locked
        BY <3>1 DEF SetConstraintActive
      <3>3. Changes(id, [r EXCEPT !.active = active])
        BY ONLY IInv, id \in AllIds, <1>1, <3>1, CallChanges
      <3>4. May([r EXCEPT !.active = active])
        BY ONLY <3>2
      <3> QED BY ONLY <3>3, <3>4
    <2>2. CASE \E set \in SetValues : SetConstraintSet(id, set)
      <3>1. PICK set \in SetValues : SetConstraintSet(id, set)
        BY <2>2
      <3>2. id \notin locked \cup DOMAIN alternative
        BY <3>1 DEF SetConstraintSet, Updatable
      <3>3. Changes(id, [r EXCEPT !.set = set])
        BY ONLY IInv, id \in AllIds, <1>1, <3>1, CallChanges
      <3>4. May([r EXCEPT !.set = set])
        BY ONLY <3>2
      <3> QED BY ONLY <3>3, <3>4
    <2>3. CASE \E fn \in FunctionValues : SetConstraintFunction(id, fn)
      <3>1. PICK fn \in FunctionValues : SetConstraintFunction(id, fn)
        BY <2>3
      <3>2. id \notin locked \cup DOMAIN alternative
        BY <3>1 DEF SetConstraintFunction, Updatable
      <3>3. Changes(id, [r EXCEPT !.fn = fn])
        BY ONLY IInv, id \in AllIds, <1>1, <3>1, CallChanges
      <3>4. May([r EXCEPT !.fn = fn])
        BY ONLY <3>2
      <3> QED BY ONLY <3>3, <3>4
    <2>4. CASE \E origin \in Origins : SetConstraintOrigin(id, origin)
      <3>1. PICK origin \in Origins : SetConstraintOrigin(id, origin)
        BY <2>4
      <3>2. Changes(id, [r EXCEPT !.origin = origin])
        BY ONLY IInv, id \in AllIds, <1>1, <3>1, CallChanges
      <3>3. May([r EXCEPT !.origin = origin])
        OBVIOUS
      <3> HIDE DEF May
      <3> QED BY ONLY <3>2, <3>3
    <2> QED BY ONLY <1>0, <2>1, <2>2, <2>3, <2>4
  <1>3. PICK s : Changes(id, s) /\ May(s)
    BY <1>2
  <1>4. PICK p : EditsRecord(p, id, s)
    BY ONLY IInv, <1>3, ChangesRecord
  <1>5. /\ p \in DOMAIN Records /\ Records[p] = r /\ r.id = id /\ Records'[p] = s
        /\ Records' = [Records EXCEPT ![p] = s] /\ locked' = locked /\ alternative' = alternative
    BY <1>1, <1>4 DEF EditsRecord
  <1>6. Declarative!SetActive(r, s) \/ Declarative!SetPair(r, s) \/ Declarative!SetOrigin(r, s)
    BY <1>3, <1>5 DEF Declarative!SetActive, Declarative!SetPair, Declarative!SetOrigin
  <1> QED BY <1>5, <1>6 DEF Declarative!Edit

LEMMA InitDeclared == Init => Declarative!Init
  <1> SUFFICES ASSUME Init PROVE Declarative!Init
    OBVIOUS
  <1>1. registry = EmptyRegistry /\ alternative = <<>> /\ locked = {}
    BY DEF Init
  <1>2. Length(registry) = 0
    BY <1>1 DEF EmptyRegistry, Length
  <1>3. Records = <<>>
    <2>1. Records = [p \in 1..0 |-> RecordIn(rows, registry, inactive, p - 1)]
      BY <1>2, RecordsAre DEF Listed
    <2>2. 1..0 = {}
      OBVIOUS
    <2> QED BY <2>1, <2>2
  <1>4. Frozen = [locked |-> {}, alternative |-> {}]
    BY <1>1 DEF Frozen
  <1> QED BY <1>3, <1>4 DEF Declarative!Init, Frozen

\* What a step that does not register or edit leaves of the list.
LEMMA SameRecords ==
    ASSUME UNCHANGED <<rows, registry, inactive>>
    PROVE  Records' = Records
  <1>1. (Records = Listed(rows, registry, inactive))'
    BY RecordsAre, PTL
  <1> QED BY <1>1, RecordsAre DEF Listed, RecordIn

\* Every step of the tables is a step of the list of declarations.
LEMMA StepsRefine ==
    ASSUME IInv, Next
    PROVE  Declarative!Next \/ UNCHANGED Declarative!vars
  <1>1. \/ \E batch : Adds(batch)
        \/ \E id \in AllIds :
             \/ \E active \in BOOLEAN : SetConstraintActive(id, active)
             \/ \E set \in SetValues : SetConstraintSet(id, set)
             \/ \E fn \in FunctionValues : SetConstraintFunction(id, fn)
             \/ \E origin \in Origins : SetConstraintOrigin(id, origin)
             \/ LockSource(id)
        \/ UNCHANGED tables
    BY StepsAre
  <1>2. CASE \E batch : Adds(batch)
    <2>1. PICK batch : Adds(batch)
      BY <1>2
    <2>2. Declarative!Register
      BY ONLY IInv, <2>1, AddsRegister
    <2> QED BY <2>2 DEF Declarative!Next
  <1>3. CASE UNCHANGED tables
    <2>1. UNCHANGED <<rows, registry, inactive>> /\ UNCHANGED <<locked, alternative>>
      BY <1>3 DEF tables
    <2> QED BY <2>1, SameRecords DEF Declarative!vars
  <1>4. ASSUME NEW id \in AllIds, LockSource(id)
        PROVE  Declarative!Next
    <2>1. /\ UNCHANGED <<rows, registry, inactive, alternative>> /\ locked' = locked \cup {id}
      BY <1>4 DEF LockSource
    <2>2. Records' = Records
      BY <2>1, SameRecords
    <2>3. \E p \in DOMAIN Records : Records[p].id = id
      <3>1. /\ RowsFit(rows, registry, inactive, alternative) /\ Length(registry) \in Nat
        BY FitsNow DEF IInv
      <3>2. PICK q \in 0..Length(registry) - 1 : IdAt(registry, q) = id
        BY <3>1, RecordBefore
      <3>3. q + 1 \in 1..Length(registry) /\ q + 1 - 1 = q
        BY <3>1
      <3>4. q + 1 \in DOMAIN Records /\ Records[q + 1] = RecordIn(rows, registry, inactive, q)
        BY <3>1, <3>3, RecordsAre, ListedIs
      <3> QED BY <3>1, <3>2, <3>4, RecordIdIs
    <2>4. id \in {Records[p].id : p \in DOMAIN Records}
      BY <2>3
    <2>5. [locked |-> locked', alternative |-> DOMAIN alternative']
            = [[locked |-> locked, alternative |-> DOMAIN alternative] EXCEPT !.locked = @ \cup {id}]
      BY <2>1
    <2> QED BY <2>2, <2>4, <2>5 DEF Declarative!Next, Declarative!Lock
  <1>5. ASSUME NEW id \in AllIds,
               \/ \E active \in BOOLEAN : SetConstraintActive(id, active)
               \/ \E set \in SetValues : SetConstraintSet(id, set)
               \/ \E fn \in FunctionValues : SetConstraintFunction(id, fn)
               \/ \E origin \in Origins : SetConstraintOrigin(id, origin)
        PROVE  Declarative!Next
    <2>1. Declarative!Edit
      BY <1>5, EditsDeclared
    <2> QED BY <2>1 DEF Declarative!Next
  <1>6. CASE \E id \in AllIds :
               \/ \E active \in BOOLEAN : SetConstraintActive(id, active)
               \/ \E set \in SetValues : SetConstraintSet(id, set)
               \/ \E fn \in FunctionValues : SetConstraintFunction(id, fn)
               \/ \E origin \in Origins : SetConstraintOrigin(id, origin)
               \/ LockSource(id)
    BY <1>4, <1>5, <1>6
  <1> QED BY <1>1, <1>2, <1>3, <1>6

\* Whatever tables hold it, the list a reader rebuilds is the list of
\* declarations with the edits made to it, and refused edits change nothing.
THEOREM RecordsImplementDeclarations == Spec => ImplementsDeclaredConstraints
  <1>1. IInv /\ [Next]_vars => [Declarative!Next]_Declarative!vars
    <2> SUFFICES ASSUME IInv, [Next]_vars
                 PROVE  Declarative!Next \/ UNCHANGED Declarative!vars
      OBVIOUS
    <2>1. CASE Next
      BY <2>1, StepsRefine
    <2>2. CASE UNCHANGED vars
      <3>1. UNCHANGED <<rows, registry, inactive>> /\ UNCHANGED <<locked, alternative>>
        BY <2>2 DEF vars
      <3> QED BY <3>1, SameRecords DEF Declarative!vars
    <2> QED BY <2>1, <2>2
  <1> QED BY <1>1, InitDeclared, InvariantHolds, PTL
      DEF Spec, ImplementsDeclaredConstraints, Declarative!Spec

=============================================================================
