---------------------------- MODULE Reformulations ----------------------------
(***************************************************************************)
(* SOS and indicator constraints, their rewriting into linear rows         *)
(* (reformulation/sos.rs, reformulation/indicator.rs), and the locks that  *)
(* keep the rows true to their sources afterwards (variables.rs).          *)
(*                                                                         *)
(* A rewriting plans every requested source before it applies any: a       *)
(* source that cannot be planned leaves the model as it was.  Applied      *)
(* rows embed the bounds their members had, so the member variables and    *)
(* the parameters that bound them are frozen from then on.                 *)
(***************************************************************************)
EXTENDS ModelEdits, FiniteSetsExt, SequencesExt

CONSTANTS Fallbacks,   \* fallback_big_m of the options; None is 0
          MaxCalls,    \* bound: edits of one model
          Grid         \* values at which rows and sources are compared

VARIABLES sos,         \* [type, members, active, rewritten]; member [variable, weight]
          indicators,  \* [trigger, on, coefficients, lower, upper, active, rewritten]
          generated,   \* rows  sum coefficients . x <= rhs, with their source
          calls        \* bound: edits made

rewriting == <<sos, indicators, generated>>
allVars == <<editVars, rewriting, calls>>

SosActive == \E s \in DOMAIN sos : sos[s].active

Finite(n) == -Huge < n /\ n < Huge

---------------------------------------------------------------------------
(* ensure_reformulated_bounds_mutable: the variables whose bounds some     *)
(* generated row embeds.                                                   *)

MembersOf(s) == {sos[s].members[i].variable : i \in DOMAIN sos[s].members}

BodyOf(k) ==
  {v \in DOMAIN indicators[k].coefficients :
     indicators[k].coefficients[v] # 0 /\ v # indicators[k].trigger}

Frozen ==
  (UNION {MembersOf(s) : s \in {t \in DOMAIN sos : sos[t].rewritten}})
  \cup (UNION {BodyOf(k) : k \in {j \in DOMAIN indicators : indicators[j].rewritten}})

---------------------------------------------------------------------------
(* Planning an SOS (plan_one).                                             *)

PotentiallyNonzero(v) == RawEffectiveBounds(v) # <<0, 0>>

FiniteOrFallback(bound, sign, fallback) ==
  IF Finite(bound) THEN bound ELSE sign * fallback

(* A member with the bounds its gates embed, and whether they are known.   *)
PlannedMember(v, fallback) ==
  LET raw == RawEffectiveBounds(v)
  IN [variable |-> v,
      lower |-> FiniteOrFallback(raw[1], -1, fallback),
      upper |-> FiniteOrFallback(raw[2], 1, fallback),
      known |-> fallback # 0 \/ (Finite(raw[1]) /\ Finite(raw[2]))]

ByWeight(members) == SortSeq(members, LAMBDA a, b : a.weight < b.weight)

(* sos2_requires_reformulation: more than two members may be nonzero, or   *)
(* two that are not neighbours.                                            *)
Sos2NeedsRows(ordered) ==
  \E i, j \in DOMAIN ordered :
     /\ i + 1 < j
     /\ PotentiallyNonzero(ordered[i].variable)
     /\ PotentiallyNonzero(ordered[j].variable)

(* The members that get gates, in activation order; none for a trivial one *)
GatedMembers(s) ==
  LET members == sos[s].members
      potential == SelectSeq(members, LAMBDA m : PotentiallyNonzero(m.variable))
      ordered == ByWeight(members)
  IN IF sos[s].type = "Sos1"
     THEN IF Len(members) >= 2 /\ Len(potential) >= 2 THEN potential ELSE <<>>
     ELSE IF Len(members) >= 3 /\ Sos2NeedsRows(ordered) THEN ordered ELSE <<>>

SosPlan(s, fallback) ==
  [i \in DOMAIN GatedMembers(s) |->
     PlannedMember(GatedMembers(s)[i].variable, fallback)]

SosPlannable(s, fallback) == \A i \in DOMAIN SosPlan(s, fallback) :
                                SosPlan(s, fallback)[i].known

(* The activation of a gated member: its own binary for SOS1, the adjacent *)
(* intervals for SOS2.                                                     *)
Activation(type, i, count) ==
  IF type = "Sos1" THEN {i} ELSE {i - 1, i} \cap 1..count - 1

(* Binaries an SOS adds (add_binary_activations): one for each gated member *)
(* of an SOS1, one for each two neighbours of an SOS2.                     *)
ActivationCount(s) ==
  IF GatedMembers(s) = <<>> THEN 0
  ELSE IF sos[s].type = "Sos1" THEN Len(GatedMembers(s)) ELSE Len(sos[s].members) - 1

(* The rows of one SOS over binaries first + 1 ..: at most one activation, *)
(* x >= lower . activation and x <= upper . activation (a gate only on a   *)
(* side the variable can reach).                                           *)
SosRows(s, fallback, first) ==
  LET plan == SosPlan(s, fallback)
      count == ActivationCount(s)
      Gate(i, sign, bound) ==
        LET on == {first + a : a \in Activation(sos[s].type, i, Len(plan))}
            x == plan[i].variable
        IN [coefficients |-> [v \in on \cup {x} |->
                                IF v = x THEN sign ELSE -sign * bound],
            rhs |-> 0, source |-> <<"sos", s>>]
      select == [coefficients |-> [v \in first + 1 .. first + count |-> 1],
                 rhs |-> 1, source |-> <<"sos", s>>]
  IN IF plan = <<>> THEN {}
     ELSE {select}
          \cup {Gate(i, -1, plan[i].lower) : i \in {j \in DOMAIN plan : plan[j].lower < 0}}
          \cup {Gate(i, 1, plan[i].upper) : i \in {j \in DOMAIN plan : plan[j].upper > 0}}

(* unique_variable_name: the base, or the first free numbered variant.     *)
UniqueName(base, taken) ==
  CHOOSE name \in {[base |-> base, suffix |-> k] : k \in 0..Cardinality(taken)} :
     /\ name \notin taken
     /\ \A k \in 0..name.suffix - 1 : [base |-> base, suffix |-> k] \in taken

ActivationVariables(s, taken) ==
  [i \in 1..ActivationCount(s) |->
     [name |-> UniqueName(<<"sos", s, sos[s].type, i - 1>>, taken),
      domain |-> "Binary", threshold |-> 0, lb |-> Fixed(0), ub |-> Fixed(1)]]

(* The variables once the given sources among the first k have theirs.     *)
WithActivations(sources) ==
  LET all[k \in 0..Len(sos)] ==
        IF k = 0 THEN vars
        ELSE IF k \in sources
        THEN all[k - 1] \o ActivationVariables(k, {all[k - 1][v].name : v \in DOMAIN all[k - 1]})
        ELSE all[k - 1]
  IN all

(* PlannedSos::apply for the given sources, in order: lock the parameters  *)
(* of every member's bounds, add binaries and rows, retire the source.     *)
ApplySos(sources, fallback) ==
  LET all == WithActivations(sources)
  IN /\ vars' = all[Len(sos)]
     /\ locked' = locked \cup BoundParameters(UNION {MembersOf(s) : s \in sources})
     /\ generated' = generated \cup UNION {SosRows(s, fallback, Len(all[s - 1])) : s \in sources}
     /\ sos' = [s \in DOMAIN sos |-> IF s \in sources
                  THEN [sos[s] EXCEPT !.active = FALSE, !.rewritten = TRUE] ELSE sos[s]]
     /\ InvalidateKind
     /\ UNCHANGED <<values, checks, dependents, parameterRevision, rows, objective, indicators>>

(* reformulate_sos_constraint and reformulate_sos: the active sources      *)
(* among those asked for, if every one of them can be planned.             *)
ReformulateSos(asked, fallback) ==
  LET sources == {s \in asked : sos[s].active}
  IN /\ sources # {}
     /\ \A s \in sources : SosPlannable(s, fallback)
     /\ ApplySos(sources, fallback)

---------------------------------------------------------------------------
(* Planning an indicator (plan_one): the extreme values of the body while  *)
(* the trigger is off, infinite as soon as one used bound is.              *)

BodyRange(k) ==
  LET source == indicators[k]
      off == 1 - source.on
      used == {v \in DOMAIN source.coefficients : source.coefficients[v] # 0}
      Span(v) == IF v = source.trigger THEN <<off, off>> ELSE RawEffectiveBounds(v)
      AtLeast(v) == IF source.coefficients[v] >= 0 THEN Span(v)[1] ELSE Span(v)[2]
      AtMost(v) == IF source.coefficients[v] >= 0 THEN Span(v)[2] ELSE Span(v)[1]
      Total(End(_)) ==
        IF \A v \in used : Finite(End(v))
        THEN MapThenSumSet(LAMBDA v : source.coefficients[v] * End(v), used)
        ELSE Huge
  IN [least |-> Total(AtLeast), most |-> Total(AtMost)]

\* m_for_side: what the off state needs, or the fallback when unbounded.
BigM(extreme, required, fallback) ==
  IF extreme = Huge THEN fallback ELSE IF required > 0 THEN required ELSE 0

IndicatorPlannable(k, fallback) ==
  /\ indicators[k].lower # Huge /\ indicators[k].upper # -Huge
  /\ Finite(indicators[k].lower) /\ BodyRange(k).least = Huge => fallback # 0
  /\ Finite(indicators[k].upper) /\ BodyRange(k).most = Huge => fallback # 0

(* The rows  body >= lower - M off  and  body <= upper + M off,  where off *)
(* is the trigger or its complement.                                       *)
IndicatorRows(k, fallback) ==
  LET source == indicators[k]
      range == BodyRange(k)
      body == source.coefficients
      lowerM == BigM(range.least, source.lower - range.least, fallback)
      upperM == BigM(range.most, range.most - source.upper, fallback)
      At(v) == IF v \in DOMAIN body THEN body[v] ELSE 0
      \* sign.body - M.off <= rhs, with off = trigger or 1 - trigger
      Side(sign, m, rhs) ==
        [coefficients |->
           [v \in DOMAIN body \cup {source.trigger} |->
              IF v = source.trigger
              THEN sign * At(v) + (IF source.on = 1 THEN m ELSE -m)
              ELSE sign * body[v]],
         rhs |-> rhs + (IF source.on = 1 THEN m ELSE 0),
         source |-> <<"indicator", k>>]
  IN (IF Finite(source.lower) THEN {Side(-1, lowerM, -source.lower)} ELSE {})
     \cup (IF Finite(source.upper) THEN {Side(1, upperM, source.upper)} ELSE {})

ReformulateIndicators(asked, fallback) ==
  LET sources == {k \in asked : indicators[k].active}
  IN /\ sources # {}
     /\ \A k \in sources : IndicatorPlannable(k, fallback)
     /\ locked' = locked \cup BoundParameters(UNION {BodyOf(k) : k \in sources})
     /\ generated' = generated \cup UNION {IndicatorRows(k, fallback) : k \in sources}
     /\ indicators' = [k \in DOMAIN indicators |-> IF k \in sources
          THEN [indicators[k] EXCEPT !.active = FALSE, !.rewritten = TRUE]
          ELSE indicators[k]]
     /\ InvalidateKind
     /\ UNCHANGED <<vars, values, checks, dependents, parameterRevision, rows, objective, sos>>

---------------------------------------------------------------------------
(* Edits of sources: refused once rewritten (ensure_constraint_updatable). *)

SetSosActive(s, active) ==
  /\ ~sos[s].rewritten
  /\ sos' = [sos EXCEPT ![s].active = active]
  /\ InvalidateKind
  /\ UNCHANGED <<vars, arena, rows, objective, indicators, generated>>

SetSosSet(s, type, members) ==
  /\ ~sos[s].rewritten
  /\ Len(members) = Len(sos[s].members)
  /\ sos' = [sos EXCEPT ![s].type = type, ![s].members = members]
  /\ InvalidateKind
  /\ UNCHANGED <<vars, arena, rows, objective, indicators, generated>>

SetIndicatorSet(k, on, lower, upper) ==
  /\ ~indicators[k].rewritten
  /\ indicators' = [indicators EXCEPT ![k].on = on, ![k].lower = lower, ![k].upper = upper]
  /\ InvalidateKind
  /\ UNCHANGED <<vars, arena, rows, objective, sos, generated>>

Next(bounds, assignments) ==
  LET count == calls' = calls + 1 /\ UNCHANGED rewriting
  IN \/ /\ Kind(SosActive)
        /\ UNCHANGED <<rewriting, calls>>
     \/ /\ calls < MaxCalls
        /\ \/ \E v \in DOMAIN vars, n \in Numbers : FixVar(v, n, Frozen) /\ count
           \/ \E v \in DOMAIN vars, pair \in bounds :
                SetBounds(v, pair[1], pair[2], Frozen) /\ count
           \/ \E batch \in {<<n>> : n \in Names} \cup {<<n, m>> : n, m \in Names},
                pair \in bounds :
                RegisterVars(batch, "Real", 0, pair[1], pair[2]) /\ count
           \/ RegisterParam(0) /\ Len(values) < 3 /\ count
           \/ RegisterParamsBatch(<<1, 0>>) /\ Len(values) < 3 /\ count
           \/ \E a \in assignments : SetParams(a) /\ count
           \/ \E r \in DOMAIN rows : SetRowActive(r, ~rows[r].active) /\ count
           \/ \E d \in {"Linear", "Quadratic", "Nonlinear"} : SetObjective(d) /\ count
           \/ /\ \/ \E asked \in SUBSET DOMAIN sos, m \in Fallbacks :
                     ReformulateSos(asked, m)
                 \/ \E asked \in SUBSET DOMAIN indicators, m \in Fallbacks :
                     ReformulateIndicators(asked, m)
                 \/ \E s \in DOMAIN sos : SetSosActive(s, ~sos[s].active)
                 \/ \E s \in DOMAIN sos, t \in {"Sos1", "Sos2"} :
                     SetSosSet(s, t, sos[s].members)
                 \/ \E k \in DOMAIN indicators, on \in {0, 1}, n \in Numbers :
                     SetIndicatorSet(k, on, n, Huge)
              /\ calls' = calls + 1

---------------------------------------------------------------------------
(* What a source means, and what its rows say.                             *)

InRange(v, n) ==
  LET raw == RawEffectiveBounds(v)
  IN /\ raw[1] <= n /\ n <= raw[2]
     /\ IsSemi(vars[v].domain) => n = 0 \/ n >= vars[v].threshold

Points(vs) == {x \in [vs -> Grid] : \A v \in vs : InRange(v, x[v])}

SosHolds(s, x) ==
  LET ordered == ByWeight(sos[s].members)
      nonzero == {i \in DOMAIN ordered : x[ordered[i].variable] # 0}
  IN IF sos[s].type = "Sos1" THEN Cardinality(nonzero) <= 1
     ELSE \E i \in DOMAIN ordered : nonzero \subseteq {i, i + 1}

IndicatorHolds(k, x) ==
  LET source == indicators[k]
      body == MapThenSumSet(LAMBDA v : source.coefficients[v] * x[v],
                            DOMAIN source.coefficients)
  IN x[source.trigger] = source.on => source.lower <= body /\ body <= source.upper

RowsOf(source) == {row \in generated : row.source = source}

(* The rows of a source admit x for some choice of its activations.        *)
RowsAdmit(source, x) ==
  LET used == UNION {DOMAIN row.coefficients : row \in RowsOf(source)}
      At(v, z) == IF v \in DOMAIN x THEN x[v] ELSE z[v]
  IN \E z \in [used \ DOMAIN x -> {0, 1}] : \A row \in RowsOf(source) :
       MapThenSumSet(LAMBDA v : row.coefficients[v] * At(v, z),
                     DOMAIN row.coefficients) <= row.rhs

(* In every state after a rewriting, whatever bound edits, fixings and     *)
(* parameter writes the model accepted since, the generated rows admit     *)
(* exactly the points of the SOS or indicator they replaced (sos.rs        *)
(* plan_one, apply; indicator.rs plan_one, apply; the locks of             *)
(* variables.rs).                                                          *)
RowsMatchSource ==
  /\ \A s \in DOMAIN sos : sos[s].rewritten =>
       \A x \in Points(MembersOf(s)) : RowsAdmit(<<"sos", s>>, x) <=> SosHolds(s, x)
  /\ \A k \in DOMAIN indicators : indicators[k].rewritten =>
       \A x \in Points(DOMAIN indicators[k].coefficients \cup {indicators[k].trigger}) :
          RowsAdmit(<<"indicator", k>>, x) <=> IndicatorHolds(k, x)

(* The class a caller is given is the class of the model as it stands,     *)
(* after any edit, rewriting or parameter write (classify.rs kind).        *)
KindIsCurrent ==
  \A c \in cached : c.revision = parameterRevision => c.kind = InferKind(SosActive)

---------------------------------------------------------------------------
(* A model of three members and a binary trigger, with an SOS over the     *)
(* members, an indicator over two of them, a quadratic row that is a cone  *)
(* for a positive scale, and two parameters that bound members.            *)

MCNumbers == {-1, 1, 2}
MCGrid == -2..2
User(name) == [base |-> <<name>>, suffix |-> 0]
\* A fresh name, a taken one, and the one the first activation would take.
MCNames == {User("y"), User("x1"), [base |-> <<"sos", 1, "Sos1", 0>>, suffix |-> 0]}
Bounds == {<<Fixed(-1), Fixed(1)>>, <<Fixed(1), Fixed(0)>>, <<Fixed(0), ByParameter(1)>>,
           <<ByParameter(2), ByParameter(1)>>, <<Fixed(0), Fixed(Huge)>>, <<Fixed(0), Fixed(0)>>}
Assignments == {[p \in {1} |-> n] : n \in {-1, 2}} \cup {[p \in {2} |-> n] : n \in {-1, 2}}
               \cup {[p \in {1, 2} |-> IF p = 1 THEN -1 ELSE n] : n \in {-1, 1}}

Declared(name, domain, threshold, lb, ub) ==
  [name |-> User(name), domain |-> domain, threshold |-> threshold, lb |-> lb, ub |-> ub]

Init ==
  /\ \E lower \in {Fixed(-Huge), Fixed(-1)}, second \in {"Real", "SemiContinuous"} :
       vars = <<Declared("x1", "Real", 0, lower, ByParameter(1)),
                Declared("x2", second, 2, Fixed(0), Fixed(2)),
                Declared("x3", "Integer", 0, ByParameter(2), Fixed(2)),
                Declared("b", "Binary", 0, Fixed(0), Fixed(1))>>
  /\ values = <<1, -1>>
  /\ checks = [v \in {1, 3} |-> [lower |-> vars[v].lb, upper |-> vars[v].ub]]
  /\ dependents = <<{1}, {3}>>
  /\ locked = {} /\ parameterRevision = 0 /\ cached = {}
  /\ rows = <<[degree |-> "Quadratic", bound |-> 1, scale |-> 1, active |-> TRUE],
              [degree |-> "Cone", bound |-> 1, scale |-> 1, active |-> FALSE],
              [degree |-> "Matrix", bound |-> 1, scale |-> 1, active |-> FALSE]>>
  /\ objective = "Linear"
  /\ \E type \in {"Sos1", "Sos2"} :
       sos = <<[type |-> type, active |-> TRUE, rewritten |-> FALSE,
                members |-> <<[variable |-> 1, weight |-> 1],
                              [variable |-> 2, weight |-> 3],
                              [variable |-> 3, weight |-> 2]>>]>>
  /\ \E body \in {<<2, 1, 0>>, <<-1, 1, 1>>} :
       indicators = <<[trigger |-> 4, on |-> 1, lower |-> -Huge, upper |-> 1,
                       coefficients |-> [v \in {1, 2, 4} |->
                         IF v = 4 THEN body[3] ELSE body[v]],
                       active |-> TRUE, rewritten |-> FALSE]>>
  /\ generated = {} /\ calls = 0

Spec == Init /\ [][Next(Bounds, Assignments)]_allVars
===============================================================================
