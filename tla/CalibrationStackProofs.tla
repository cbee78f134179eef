----------------------- MODULE CalibrationStackProofs -----------------------
(***************************************************************************)
(* The seeder and the load, for any scripts, any families and venues, and  *)
(* any number of seeder runs and lost connections.  First what flattening  *)
(* a list of lists yields, by induction on its length; then which keys a   *)
(* script writes and a load asks for; then the seeder, and the load.       *)
(***************************************************************************)
EXTENDS CalibrationStack, SequenceTheorems, WellFoundedInduction, TLAPS

(* Induction over the naturals, of a set: by a least counterexample. *)
LEMMA NatInductionOnSet ==
  ASSUME NEW A, 0 \in A, \A n \in Nat : n \in A => n + 1 \in A
  PROVE  \A n \in Nat : n \in A
<1> DEFINE Less == {p \in Nat \X Nat : p[1] < p[2]}
           T == {n \in Nat : n \notin A}
<1>1. IsWellFoundedOn(Less, Nat)
  BY NatLessThanWellFounded, Zenon DEF OpToRel
<1>2. SUFFICES ASSUME T # {} PROVE FALSE
  OBVIOUS
<1>3. PICK x \in T : \A y \in T : ~(<<y, x>> \in Less)
  <2> HIDE DEF Less, T
  <2>1. T \subseteq Nat
    BY DEF T
  <2> QED
    BY <1>1, <1>2, <2>1, WFMin
<1>4. x - 1 \in T /\ x - 1 \in Nat /\ x \in Nat /\ x - 1 < x
  <2>1. x # 0 /\ x \in Nat
    OBVIOUS
  <2>2. x - 1 \in Nat /\ (x - 1) + 1 = x
    BY <2>1
  <2>3. x - 1 \notin A
    BY <2>2
  <2> QED
    BY <2>1, <2>2, <2>3
<1>5. <<x - 1, x>> \in Less
  BY <1>4
<1> QED
  BY <1>3, <1>4, <1>5

LEMMA ConcatRange ==
  ASSUME NEW S, NEW s \in Seq(S), NEW t \in Seq(S)
  PROVE  /\ s \o t \in Seq(S)
         /\ Range(s \o t) = Range(s) \cup Range(t)
<1>1. /\ s \o t \in Seq(S) /\ Len(s) \in Nat /\ Len(t) \in Nat
      /\ DOMAIN s = 1..Len(s) /\ DOMAIN t = 1..Len(t)
      /\ DOMAIN (s \o t) = 1..(Len(s) + Len(t))
      /\ \A i \in 1..(Len(s) + Len(t)) :
           (s \o t)[i] = IF i <= Len(s) THEN s[i] ELSE t[i - Len(s)]
  BY ConcatProperties, LenProperties
<1>2. ASSUME NEW x \in Range(s \o t) PROVE x \in Range(s) \cup Range(t)
  <2>1. PICK i \in 1..(Len(s) + Len(t)) : x = (s \o t)[i]
    BY <1>1, <1>2 DEF Range
  <2>2. CASE i <= Len(s)
    BY <1>1, <2>1, <2>2 DEF Range
  <2>3. CASE ~(i <= Len(s))
    <3>1. i - Len(s) \in 1..Len(t)
      BY <1>1, <2>3
    <3> QED
      BY <1>1, <2>1, <2>3, <3>1 DEF Range
  <2> QED
    BY <2>2, <2>3
<1>3. ASSUME NEW i \in 1..Len(s) PROVE s[i] \in Range(s \o t)
  <2>1. i \in 1..(Len(s) + Len(t)) /\ (s \o t)[i] = s[i]
    BY <1>1
  <2> QED
    BY <1>1, <2>1 DEF Range
<1>4. ASSUME NEW i \in 1..Len(t) PROVE t[i] \in Range(s \o t)
  <2>1. /\ Len(s) + i \in 1..(Len(s) + Len(t)) /\ ~(Len(s) + i <= Len(s))
        /\ (Len(s) + i) - Len(s) = i
    BY <1>1
  <2>2. (s \o t)[Len(s) + i] = t[i]
    BY <1>1, <2>1
  <2> QED
    BY <1>1, <2>1, <2>2 DEF Range
<1>5. Range(s) \subseteq Range(s \o t) /\ Range(t) \subseteq Range(s \o t)
  BY <1>1, <1>3, <1>4 DEF Range
<1> QED
  BY <1>1, <1>2, <1>5

LEMMA FlattenExists ==
  ASSUME NEW ss, NEW n \in Nat
  PROVE  \E f : f = [i \in 1..n |-> IF i = 1 THEN ss[i] ELSE f[i - 1] \o ss[i]]
<1> DEFINE Solves(f, m) ==
             f = [i \in 1..m |-> IF i = 1 THEN ss[i] ELSE f[i - 1] \o ss[i]]
           A == {m \in Nat : \E f : Solves(f, m)}
<1>1. 0 \in A
  <2>1. Solves([i \in 1..0 |-> ss[i]], 0)
    OBVIOUS
  <2> QED
    BY <2>1
<1>2. ASSUME NEW m \in Nat, m \in A PROVE m + 1 \in A
  <2>1. PICK g : Solves(g, m)
    BY <1>2
  <2> DEFINE last == IF m = 0 THEN ss[1] ELSE g[m] \o ss[m + 1]
             h == [i \in 1..(m + 1) |-> IF i = m + 1 THEN last ELSE g[i]]
  <2>2. ASSUME NEW i \in 1..(m + 1)
        PROVE  h[i] = IF i = 1 THEN ss[i] ELSE h[i - 1] \o ss[i]
    <3>1. CASE i = m + 1
      <4>1. CASE m = 0
        BY <3>1, <4>1
      <4>2. CASE m # 0
        <5>1. i - 1 = m /\ m \in 1..(m + 1) /\ m # m + 1 /\ i # 1
          BY <3>1, <4>2
        <5>2. h[m] = g[m]
          BY <5>1
        <5>3. h[i] = g[m] \o ss[m + 1]
          BY <3>1, <4>2
        <5> QED
          BY <3>1, <5>1, <5>2, <5>3
      <4> QED
        BY <4>1, <4>2
    <3>2. CASE i # m + 1
      <4>1. i \in 1..m /\ h[i] = g[i]
        BY <3>2
      <4>2. g[i] = IF i = 1 THEN ss[i] ELSE g[i - 1] \o ss[i]
        BY <2>1, <4>1
      <4>3. i # 1 => h[i - 1] = g[i - 1]
        BY <4>1
      <4> QED
        BY <4>1, <4>2, <4>3
    <3> QED
      BY <3>1, <3>2
  <2>3. h = [i \in 1..(m + 1) |-> h[i]]
    OBVIOUS
  <2> HIDE DEF h
  <2>4. Solves(h, m + 1)
    BY <2>2, <2>3
  <2> HIDE DEF Solves
  <2> QED
    BY <2>4
<1>3. n \in A
  <2> HIDE DEF A
  <2> QED
    BY <1>1, <1>2, NatInductionOnSet
<1> QED
  BY <1>3

LEMMA FlattenRange ==
  ASSUME NEW S, NEW ss \in Seq(Seq(S))
  PROVE  /\ FlattenSeq(ss) \in Seq(S)
         /\ \A x : x \in Range(FlattenSeq(ss)) <=>
                     \E i \in 1..Len(ss) : x \in Range(ss[i])
<1> DEFINE n == Len(ss)
<1>1. n \in Nat /\ \A i \in 1..n : ss[i] \in Seq(S)
  OBVIOUS
<1>2. CASE n = 0
  <2>1. ss = <<>> /\ FlattenSeq(ss) = ss
    BY <1>2, EmptySeq DEF FlattenSeq
  <2>2. Range(<<>>) = {}
    BY DEF Range
  <2>3. <<>> \in Seq(S) /\ ~ \E i \in 1..Len(ss) : TRUE
    BY <1>2
  <2>4. FlattenSeq(ss) = <<>>
    BY <2>1
  <2> QED
    BY <2>2, <2>3, <2>4
<1>3. CASE n # 0
  <2> DEFINE f == CHOOSE g :
                    g = [i \in 1..n |-> IF i = 1 THEN ss[i] ELSE g[i - 1] \o ss[i]]
  <2>1. f = [i \in 1..n |-> IF i = 1 THEN ss[i] ELSE f[i - 1] \o ss[i]]
    <3> HIDE DEF n
    <3>1. \E g : g = [i \in 1..n |-> IF i = 1 THEN ss[i] ELSE g[i - 1] \o ss[i]]
      BY <1>1, FlattenExists
    <3> QED
      BY <3>1
  <2>2. FlattenSeq(ss) = f[n]
    BY <1>3 DEF FlattenSeq
  <2> HIDE DEF f, n
  <2>3. \A i \in 1..n : f[i] = IF i = 1 THEN ss[i] ELSE f[i - 1] \o ss[i]
    BY <2>1
  <2> DEFINE Good(m) == /\ f[m] \in Seq(S)
                        /\ \A x : x \in Range(f[m]) <=>
                                    \E i \in 1..m : x \in Range(ss[i])
             A == {m \in Nat : m \in 1..n => Good(m)}
  <2>4. 0 \in A
    OBVIOUS
  <2>5. ASSUME NEW m \in Nat, m \in A PROVE m + 1 \in A
    <3> SUFFICES ASSUME m + 1 \in 1..n PROVE Good(m + 1)
      BY <1>1
    <3>1. CASE m = 0
      <4>1. f[1] = ss[1]
        BY <2>3, <3>1
      <4>2. ss[1] \in Seq(S)
        BY <1>1, <3>1
      <4> QED
        BY <3>1, <4>1, <4>2
    <3>2. CASE m # 0
      <4>1. m \in 1..n /\ m + 1 # 1 /\ (m + 1) - 1 = m
        BY <1>1, <3>2
      <4>2. f[m + 1] = f[m] \o ss[m + 1]
        BY <2>3, <4>1
      <4>3. Good(m)
        BY <2>5, <4>1
      <4>4. ss[m + 1] \in Seq(S)
        BY <1>1
      <4>5. /\ f[m + 1] \in Seq(S)
            /\ Range(f[m + 1]) = Range(f[m]) \cup Range(ss[m + 1])
        BY <4>2, <4>3, <4>4, ConcatRange
      <4>6. \A x : (\E i \in 1..(m + 1) : x \in Range(ss[i])) <=>
                   (\E i \in 1..m : x \in Range(ss[i])) \/ x \in Range(ss[m + 1])
        OBVIOUS
      <4> QED
        BY <4>3, <4>5, <4>6
    <3> HIDE DEF Good
    <3> QED
      BY <3>1, <3>2
  <2>6. n \in A
    <3> HIDE DEF A
    <3> QED
      BY <1>1, <2>4, <2>5, NatInductionOnSet
  <2>7. Good(n)
    BY <1>1, <1>3, <2>6
  <2>8. /\ FlattenSeq(ss) \in Seq(S)
        /\ \A x : x \in Range(FlattenSeq(ss)) <=>
                    \E i \in 1..n : x \in Range(ss[i])
    BY <2>2, <2>7
  <2> QED
    BY <2>8 DEF n
<1> QED
  BY <1>2, <1>3

(* The same, of a function from positions. *)
LEMMA FlattenFunction ==
  ASSUME NEW S, NEW n \in Nat, NEW g \in [1..n -> Seq(S)]
  PROVE  /\ FlattenSeq(g) \in Seq(S)
         /\ \A x : x \in Range(FlattenSeq(g)) <=>
                     \E i \in 1..n : x \in Range(g[i])
<1>1. g \in Seq(Seq(S)) /\ Len(g) = n
  BY SeqDef
<1> QED
  BY <1>1, FlattenRange

LEMMA MappedIsSeq ==
  ASSUME NEW S, NEW n \in Nat, NEW g \in [1..n -> S]
  PROVE  g \in Seq(S) /\ Len(g) = n /\ Range(g) = {g[i] : i \in 1..n}
BY SeqDef DEF Range

LEMMA RangeOfShort ==
  /\ Range(<<>>) = {}
  /\ \A a : Range(<<a>>) = {a}
  /\ \A a, b : Range(<<a, b>>) = {a, b}
  /\ \A a, b, c : Range(<<a, b, c>>) = {a, b, c}
BY DEF Range

-----------------------------------------------------------------------------
(* The keys. *)

LEMMA OrderFacts ==
  /\ Len(VenueOrder) \in Nat /\ DOMAIN VenueOrder = 1..Len(VenueOrder)
  /\ \A i \in 1..Len(VenueOrder) : VenueOrder[i] \in Venues
  /\ \A v \in Venues : \E i \in 1..Len(VenueOrder) : v = VenueOrder[i]
  /\ Len(QuantityOrder) \in Nat /\ DOMAIN QuantityOrder = 1..Len(QuantityOrder)
  /\ \A i \in 1..Len(QuantityOrder) : QuantityOrder[i] \in Quantities
  /\ \A q \in Quantities : \E i \in 1..Len(QuantityOrder) : q = QuantityOrder[i]
<1>1. VenueOrder \in Seq(Venues) /\ QuantityOrder \in Seq(Quantities)
  BY FamiliesAssumption
<1>2. /\ \A v \in Venues : \E i \in DOMAIN VenueOrder : v = VenueOrder[i]
      /\ \A q \in Quantities : \E i \in DOMAIN QuantityOrder : q = QuantityOrder[i]
  BY DEF Venues, Quantities, Range
<1>3. DOMAIN VenueOrder = 1..Len(VenueOrder) /\ Len(VenueOrder) \in Nat
      /\ \A i \in 1..Len(VenueOrder) : VenueOrder[i] \in Venues
  BY <1>1
<1>4. DOMAIN QuantityOrder = 1..Len(QuantityOrder) /\ Len(QuantityOrder) \in Nat
      /\ \A i \in 1..Len(QuantityOrder) : QuantityOrder[i] \in Quantities
  BY <1>1
<1> QED
  BY <1>2, <1>3, <1>4

LEMMA ArityFacts ==
  ASSUME NEW f \in Families
  PROVE  Arity(f) \in Nat /\ 0..Arity(f) \subseteq Positions
<1> DEFINE Longest(m) == m \in {Arity(g) : g \in Families}
                         /\ \A g \in Families : Arity(g) <= m
           top == CHOOSE m \in {Arity(g) : g \in Families} :
                    \A g \in Families : Arity(g) <= m
<1>1. \A g \in Families : Arity(g) \in Nat
  BY FamiliesAssumption DEF Arity
<1>2. \E m : Longest(m)
  BY FamiliesAssumption
<1>3. Longest(top)
  BY <1>2
<1>4. Positions = 0..top
  BY DEF Positions
<1> HIDE DEF top
<1>5. top \in Nat /\ Arity(f) <= top
  BY <1>1, <1>3
<1> QED
  BY <1>1, <1>4, <1>5

LEMMA KeyKinds ==
  /\ \A v : Instrument(v)[1] = "instrument"
  /\ \A v, q : Family(v, q)[1] = "family"
  /\ \A v, q : ParamCount(v, q)[1] = "param_count"
  /\ \A v, q, n : Param(v, q, n)[1] = "param"
  /\ Symbology[1] = "symbology" /\ SymbolsKey[1] = "calib:symbols"
  /\ QuantityKey[1] = "calib:quantities"
BY DEF Instrument, Family, ParamCount, Param, Symbology, SymbolsKey, QuantityKey

LEMMA KeysAreInjective ==
  /\ \A v, w : Instrument(v) = Instrument(w) => v = w
  /\ \A v, q, w, r : Family(v, q) = Family(w, r) => v = w /\ q = r
  /\ \A v, q, w, r : ParamCount(v, q) = ParamCount(w, r) => v = w /\ q = r
  /\ \A v, q, n, w, r, m :
       Param(v, q, n) = Param(w, r, m) => v = w /\ q = r /\ n = m
BY DEF Instrument, Family, ParamCount, Param

LEMMA KeysExist ==
  /\ Symbology \in Keys /\ SymbolsKey \in Keys /\ QuantityKey \in Keys
  /\ \A v \in Venues : Instrument(v) \in Keys
  /\ \A v \in Venues, q \in Quantities :
       /\ Family(v, q) \in Keys /\ ParamCount(v, q) \in Keys
       /\ \A n \in Positions : Param(v, q, n) \in Keys
BY DEF Keys

(* The venues a script lists, in the order of its lines. *)
LEMMA SortedRange ==
  ASSUME NEW venues \in SUBSET Venues
  PROVE  Sorted(venues) \in Seq(Venues) /\ Range(Sorted(venues)) = venues
<1> DEFINE n == Len(VenueOrder)
           g == [i \in 1..n |->
                   IF VenueOrder[i] \in venues THEN <<VenueOrder[i]>> ELSE <<>>]
<1>1. Sorted(venues) = FlattenSeq(g)
  BY OrderFacts DEF Sorted, ForEach
<1>2. ASSUME NEW i \in 1..n
      PROVE  /\ g[i] \in Seq(Venues)
             /\ Range(g[i]) = IF VenueOrder[i] \in venues THEN {VenueOrder[i]}
                                                          ELSE {}
  <2>1. CASE VenueOrder[i] \in venues
    <3>1. g[i] = <<VenueOrder[i]>> /\ <<VenueOrder[i]>> \in Seq(Venues)
      BY <2>1
    <3> QED
      BY <2>1, <3>1, RangeOfShort
  <2>2. CASE VenueOrder[i] \notin venues
    <3>1. g[i] = <<>> /\ <<>> \in Seq(Venues)
      BY <2>2
    <3> QED
      BY <2>2, <3>1, RangeOfShort
  <2> QED
    BY <2>1, <2>2
<1>3. n \in Nat /\ g \in [1..n -> Seq(Venues)]
  BY <1>2, OrderFacts
<1> HIDE DEF g, n
<1>4. /\ FlattenSeq(g) \in Seq(Venues)
      /\ \A x : x \in Range(FlattenSeq(g)) <=> \E i \in 1..n : x \in Range(g[i])
  BY <1>3, FlattenFunction
<1>5. ASSUME NEW x \in venues PROVE x \in Range(FlattenSeq(g))
  <2>1. PICK i \in 1..n : x = VenueOrder[i]
    BY OrderFacts DEF n
  <2> QED
    BY <1>2, <1>4, <2>1
<1>6. ASSUME NEW x \in Range(FlattenSeq(g)) PROVE x \in venues
  <2>1. PICK i \in 1..n : x \in Range(g[i])
    BY <1>4
  <2>2. CASE VenueOrder[i] \in venues
    <3>1. Range(g[i]) = {VenueOrder[i]}
      BY <1>2, <2>2
    <3> QED
      BY <2>1, <2>2, <3>1
  <2>3. CASE VenueOrder[i] \notin venues
    <3>1. Range(g[i]) = {}
      BY <1>2, <2>3
    <3> QED
      BY <2>1, <3>1
  <2> QED
    BY <2>2, <2>3
<1> QED
  BY <1>1, <1>4, <1>5, <1>6

(* A flattened list holds what is in the lists of its elements. *)
LEMMA ForEachRange ==
  ASSUME NEW S, NEW T, NEW xs \in Seq(T), NEW h \in [T -> Seq(S)]
  PROVE  LET keys == FlattenSeq([i \in DOMAIN xs |-> h[xs[i]]])
         IN /\ keys \in Seq(S)
            /\ \A x : x \in Range(keys) <=>
                        \E t \in Range(xs) : x \in Range(h[t])
<1> DEFINE n == Len(xs)
           g == [i \in 1..n |-> h[xs[i]]]
<1>1. DOMAIN xs = 1..n /\ n \in Nat /\ \A i \in 1..n : xs[i] \in T
  OBVIOUS
<1>2. g \in [1..n -> Seq(S)]
  BY <1>1
<1>3. /\ FlattenSeq(g) \in Seq(S)
      /\ \A x : x \in Range(FlattenSeq(g)) <=> \E i \in 1..n : x \in Range(g[i])
  <2> HIDE DEF g, n
  <2> QED
    BY <1>1, <1>2, FlattenFunction
<1>4. \A i \in 1..n : g[i] = h[xs[i]]
  OBVIOUS
<1>5. Range(xs) = {xs[i] : i \in 1..n}
  BY <1>1 DEF Range
<1>6. [i \in DOMAIN xs |-> h[xs[i]]] = g
  BY <1>1
<1> HIDE DEF g, n
<1>7. \A x : (\E i \in 1..n : x \in Range(g[i])) <=>
               \E t \in Range(xs) : x \in Range(h[t])
  BY <1>4, <1>5
<1> QED
  BY <1>3, <1>6, <1>7

(* The parameters of one fit, up to a position. *)
LEMMA ParamsRange ==
  ASSUME NEW v \in Venues, NEW q \in Quantities, NEW n \in Nat,
         0..(n - 1) \subseteq Positions
  PROVE  LET keys == [i \in 1..n |-> Param(v, q, i - 1)]
         IN /\ keys \in Seq(Keys)
            /\ Range(keys) = {Param(v, q, m) : m \in 0..(n - 1)}
<1> DEFINE keys == [i \in 1..n |-> Param(v, q, i - 1)]
<1>1. ASSUME NEW i \in 1..n PROVE keys[i] \in Keys
  <2>1. i - 1 \in Positions
    OBVIOUS
  <2> QED
    BY <2>1, KeysExist
<1>2. keys \in [1..n -> Keys]
  BY <1>1
<1>3. keys \in Seq(Keys) /\ Range(keys) = {keys[i] : i \in 1..n}
  <2> HIDE DEF keys
  <2> QED
    BY <1>2, MappedIsSeq
<1>4. ASSUME NEW m \in 0..(n - 1) PROVE Param(v, q, m) \in {keys[i] : i \in 1..n}
  <2>1. m + 1 \in 1..n /\ keys[m + 1] = Param(v, q, m)
    OBVIOUS
  <2> HIDE DEF keys
  <2> QED
    BY <2>1
<1>5. ASSUME NEW i \in 1..n
      PROVE  keys[i] \in {Param(v, q, m) : m \in 0..(n - 1)}
  <2>1. i - 1 \in 0..(n - 1) /\ keys[i] = Param(v, q, i - 1)
    OBVIOUS
  <2> HIDE DEF keys
  <2> QED
    BY <2>1
<1>6. Range(keys) = {Param(v, q, m) : m \in 0..(n - 1)}
  <2> HIDE DEF keys
  <2> QED
    BY <1>3, <1>4, <1>5
<1> QED
  BY <1>3, <1>6

LEMMA ScriptIsOne ==
  ASSUME NEW s \in Scripts
  PROVE  /\ s.venues \in SUBSET Venues
         /\ s.flaw.kind \in {"none", "queueing", "executing", "unusable"}
         /\ \A v \in Venues, q \in Quantities : FamilyOf(s, v, q) \in Families
<1>1. s \in Script
  BY ScriptsAssumption
<1>2. s.family \in [Venues \X Quantities -> Families]
  BY <1>1 DEF Script
<1>3. \A v \in Venues, q \in Quantities : <<v, q>> \in Venues \X Quantities
  OBVIOUS
<1>4. \A v \in Venues, q \in Quantities : FamilyOf(s, v, q) \in Families
  BY <1>2, <1>3 DEF FamilyOf
<1> QED
  BY <1>1, <1>4 DEF Script, Flaw

LEMMA FitLinesRange ==
  ASSUME NEW s \in Scripts, NEW q \in Quantities
  PROVE  /\ FitLines(s, q) \in Seq(Keys)
         /\ \A k : k \in Range(FitLines(s, q)) <=>
              \E v \in s.venues :
                \/ k \in {Family(v, q), ParamCount(v, q)}
                \/ \E m \in 0..(Arity(FamilyOf(s, v, q)) - 1) :
                     k = Param(v, q, m)
<1> DEFINE vs == Sorted(s.venues)
           h == [v \in Venues |->
                   <<Family(v, q), ParamCount(v, q)>> \o ParamLines(s, v, q)]
<1>1. ASSUME NEW v \in Venues
      PROVE  /\ h[v] \in Seq(Keys)
             /\ Range(h[v]) =
                  {Family(v, q), ParamCount(v, q)} \cup
                  {Param(v, q, m) : m \in 0..(Arity(FamilyOf(s, v, q)) - 1)}
  <2> DEFINE a == Arity(FamilyOf(s, v, q))
             two == <<Family(v, q), ParamCount(v, q)>>
  <2>1. a \in Nat /\ 0..(a - 1) \subseteq Positions
    <3>1. FamilyOf(s, v, q) \in Families
      BY ScriptIsOne
    <3>2. a \in Nat /\ 0..a \subseteq Positions
      BY <3>1, ArityFacts
    <3> HIDE DEF a
    <3> QED
      BY <3>2
  <2>2. /\ ParamLines(s, v, q) \in Seq(Keys)
        /\ Range(ParamLines(s, v, q)) = {Param(v, q, m) : m \in 0..(a - 1)}
    <3> HIDE DEF a
    <3>1. LET keys == [i \in 1..a |-> Param(v, q, i - 1)]
          IN keys \in Seq(Keys)
               /\ Range(keys) = {Param(v, q, m) : m \in 0..(a - 1)}
      BY <2>1, ParamsRange
    <3> QED
      BY <3>1 DEF ParamLines, a
  <2>3. two \in Seq(Keys)
    BY KeysExist
  <2>4. Range(two) = {Family(v, q), ParamCount(v, q)}
    BY RangeOfShort
  <2>5. h[v] = two \o ParamLines(s, v, q)
    OBVIOUS
  <2> HIDE DEF h, a, two
  <2>6. /\ h[v] \in Seq(Keys)
        /\ Range(h[v]) = {Family(v, q), ParamCount(v, q)}
                            \cup {Param(v, q, m) : m \in 0..(a - 1)}
    BY <2>2, <2>3, <2>4, <2>5, ConcatRange
  <2> QED
    BY <2>6 DEF a
<1>2. s.venues \in SUBSET Venues
  BY ScriptIsOne
<1>3. vs \in Seq(Venues) /\ Range(vs) = s.venues
  BY <1>2, SortedRange
<1>4. h \in [Venues -> Seq(Keys)]
  BY <1>1
<1>5. FitLines(s, q) = FlattenSeq([i \in DOMAIN vs |-> h[vs[i]]])
  <2>1. \A i \in DOMAIN vs : vs[i] \in Venues
    <3> HIDE DEF vs
    <3> QED
      BY <1>3
  <2> QED
    BY <2>1 DEF FitLines, ForEach
<1> HIDE DEF h, vs
<1>6. LET keys == FlattenSeq([i \in DOMAIN vs |-> h[vs[i]]])
      IN /\ keys \in Seq(Keys)
         /\ \A k : k \in Range(keys) <=> \E v \in Range(vs) : k \in Range(h[v])
  BY <1>3, <1>4, ForEachRange
<1>7. /\ FitLines(s, q) \in Seq(Keys)
      /\ \A k : k \in Range(FitLines(s, q)) <=>
                  \E v \in s.venues : k \in Range(h[v])
  BY <1>3, <1>5, <1>6
<1>8. ASSUME NEW k, NEW v \in s.venues
      PROVE  k \in Range(h[v]) <=>
               \/ k \in {Family(v, q), ParamCount(v, q)}
               \/ \E m \in 0..(Arity(FamilyOf(s, v, q)) - 1) :
                    k = Param(v, q, m)
  BY <1>1, <1>2
<1> QED
  BY <1>7, <1>8

(* Exactly the keys a script writes. *)
WrittenBy(s) ==
  {Symbology, SymbolsKey, QuantityKey}
    \cup {Instrument(v) : v \in s.venues}
    \cup {Family(v, q) : v \in s.venues, q \in Quantities}
    \cup {ParamCount(v, q) : v \in s.venues, q \in Quantities}
    \cup {k \in Keys : \E v \in s.venues, q \in Quantities :
            \E n \in 0..(Arity(FamilyOf(s, v, q)) - 1) : k = Param(v, q, n)}

LEMMA LinesRange ==
  ASSUME NEW s \in Scripts
  PROVE  Lines[s] \in Seq(Keys) /\ Range(Lines[s]) = WrittenBy(s)
<1> DEFINE vs == Sorted(s.venues)
           first == <<Symbology>>
           last == <<SymbolsKey, QuantityKey>>
           heads == ForEach(LAMBDA v : <<Instrument(v)>>, vs)
           fits == ForEach(LAMBDA q : FitLines(s, q), QuantityOrder)
           hi == [v \in Venues |-> <<Instrument(v)>>]
           hf == [q \in Quantities |-> FitLines(s, q)]
<1>1. s.venues \in SUBSET Venues
  BY ScriptIsOne
<1>2. vs \in Seq(Venues) /\ Range(vs) = s.venues
  BY <1>1, SortedRange
<1>3. \A i \in DOMAIN vs : vs[i] \in Venues
  <2> HIDE DEF vs
  <2> QED
    BY <1>2
<1>4. heads \in Seq(Keys)
      /\ \A k : k \in Range(heads) <=> \E v \in s.venues : k = Instrument(v)
  <2>1. \A v \in Venues : <<Instrument(v)>> \in Seq(Keys)
    BY KeysExist
  <2>2. hi \in [Venues -> Seq(Keys)]
    BY <2>1
  <2>3. heads = FlattenSeq([i \in DOMAIN vs |-> hi[vs[i]]])
    <3> HIDE DEF vs
    <3> QED
      BY <1>3 DEF ForEach
  <2>4. \A v \in s.venues : Range(hi[v]) = {Instrument(v)}
    BY <1>1, RangeOfShort
  <2> HIDE DEF hi, vs, heads
  <2>6. LET keys == FlattenSeq([i \in DOMAIN vs |-> hi[vs[i]]])
        IN /\ keys \in Seq(Keys)
           /\ \A k : k \in Range(keys) <=> \E v \in Range(vs) : k \in Range(hi[v])
    BY <1>2, <2>2, ForEachRange
  <2>7. \A k : k \in Range(heads) <=> \E v \in s.venues : k \in Range(hi[v])
    BY <1>2, <2>3, <2>6
  <2> QED
    BY <2>3, <2>4, <2>6, <2>7
<1>5. fits \in Seq(Keys)
      /\ \A k : k \in Range(fits) <=>
                  \E q \in Quantities : k \in Range(FitLines(s, q))
  <2> DEFINE lines == [i \in DOMAIN QuantityOrder |-> hf[QuantityOrder[i]]]
  <2>1. QuantityOrder \in Seq(Quantities) /\ Range(QuantityOrder) = Quantities
    BY FamiliesAssumption DEF Quantities
  <2>2. hf \in [Quantities -> Seq(Keys)]
    BY FitLinesRange
  <2>3. fits = FlattenSeq(lines)
    BY OrderFacts DEF ForEach
  <2>4. \A q \in Quantities : hf[q] = FitLines(s, q)
    OBVIOUS
  <2> HIDE DEF hf, fits
  <2>5. LET keys == FlattenSeq(lines)
        IN /\ keys \in Seq(Keys)
           /\ \A k : k \in Range(keys) <=>
                       \E q \in Range(QuantityOrder) : k \in Range(hf[q])
    BY <2>1, <2>2, ForEachRange
  <2> QED
    BY <2>1, <2>3, <2>4, <2>5
<1>6. Lines[s] = first \o heads \o fits \o last
  BY DEF Lines, LinesOf
<1>7. first \in Seq(Keys) /\ last \in Seq(Keys)
  BY KeysExist
<1>8. Range(first) = {Symbology} /\ Range(last) = {SymbolsKey, QuantityKey}
  BY RangeOfShort
<1> HIDE DEF heads, fits, first, last
<1>9. /\ first \o heads \in Seq(Keys)
      /\ Range(first \o heads) = Range(first) \cup Range(heads)
  BY <1>4, <1>7, ConcatRange
<1>10. /\ (first \o heads) \o fits \in Seq(Keys)
       /\ Range((first \o heads) \o fits)
            = Range(first \o heads) \cup Range(fits)
  <2> DEFINE front == first \o heads
  <2>1. front \in Seq(Keys)
    BY <1>9
  <2> HIDE DEF front
  <2>2. front \o fits \in Seq(Keys)
        /\ Range(front \o fits) = Range(front) \cup Range(fits)
    BY <1>5, <2>1, ConcatRange
  <2> QED
    BY <2>2 DEF front
<1>11. /\ Lines[s] \in Seq(Keys)
       /\ Range(Lines[s]) = {Symbology, SymbolsKey, QuantityKey}
                              \cup Range(heads) \cup Range(fits)
  <2> DEFINE front == (first \o heads) \o fits
  <2>1. front \in Seq(Keys)
    BY <1>10
  <2>2. Range(front) = {Symbology} \cup Range(heads) \cup Range(fits)
    BY <1>8, <1>9, <1>10
  <2>3. Lines[s] = front \o last
    BY <1>6
  <2> HIDE DEF front
  <2>4. front \o last \in Seq(Keys)
        /\ Range(front \o last) = Range(front) \cup Range(last)
    BY <1>7, <2>1, ConcatRange
  <2> QED
    BY <1>8, <2>2, <2>3, <2>4
<1>12. Range(Lines[s]) \subseteq Keys
  <2> DEFINE ls == Lines[s]
  <2>1. ls \in Seq(Keys)
    BY <1>11
  <2> HIDE DEF ls
  <2>2. Range(ls) \subseteq Keys
    BY <2>1 DEF Range
  <2> QED
    BY <2>2 DEF ls
<1>13. ASSUME NEW k \in Keys PROVE k \in Range(Lines[s]) <=> k \in WrittenBy(s)
  <2>1. k \in Range(fits) <=>
          \E v \in s.venues, q \in Quantities :
            \/ k \in {Family(v, q), ParamCount(v, q)}
            \/ \E m \in 0..(Arity(FamilyOf(s, v, q)) - 1) : k = Param(v, q, m)
    BY <1>5, FitLinesRange
  <2> QED
    BY <1>4, <1>11, <2>1 DEF WrittenBy
<1>14. WrittenBy(s) \subseteq Keys
  BY <1>1, KeysExist DEF WrittenBy
<1> QED
  BY <1>11, <1>12, <1>13, <1>14

(* Exactly the keys the second trip asks for. *)
LEMMA HeadKeysRange ==
  ASSUME NEW venues \in SUBSET Venues
  PROVE  LET keys == ForEach(HeadKeys, Sorted(venues))
         IN /\ keys \in Seq(Keys)
            /\ \A k : k \in Range(keys) <=>
                 \E v \in venues :
                   \/ k = Instrument(v)
                   \/ \E q \in Quantities : k \in {Family(v, q), ParamCount(v, q)}
<1> DEFINE vs == Sorted(venues)
           keys == ForEach(HeadKeys, vs)
           h == [v \in Venues |-> HeadKeys(v)]
<1>1. vs \in Seq(Venues) /\ Range(vs) = venues
  BY SortedRange
<1>2. ASSUME NEW v \in Venues
      PROVE  /\ h[v] \in Seq(Keys)
             /\ \A k : k \in Range(h[v]) <=>
                  \/ k = Instrument(v)
                  \/ \E q \in Quantities : k \in {Family(v, q), ParamCount(v, q)}
  <2> DEFINE hq == [q \in Quantities |-> <<Family(v, q), ParamCount(v, q)>>]
             fits == ForEach(LAMBDA q : <<Family(v, q), ParamCount(v, q)>>,
                             QuantityOrder)
             one == <<Instrument(v)>>
  <2>1. hq \in [Quantities -> Seq(Keys)]
    BY KeysExist
  <2>2. fits = FlattenSeq([i \in DOMAIN QuantityOrder |-> hq[QuantityOrder[i]]])
    BY OrderFacts DEF ForEach
  <2>3. \A q \in Quantities : Range(hq[q]) = {Family(v, q), ParamCount(v, q)}
    BY RangeOfShort
  <2>4. h[v] = one \o fits
    BY DEF HeadKeys
  <2>5. one \in Seq(Keys) /\ Range(one) = {Instrument(v)}
    BY KeysExist, RangeOfShort
  <2>6. Range(QuantityOrder) = Quantities /\ QuantityOrder \in Seq(Quantities)
    BY FamiliesAssumption DEF Quantities
  <2> HIDE DEF hq, fits, h, one
  <2>7. LET ks == FlattenSeq([i \in DOMAIN QuantityOrder |-> hq[QuantityOrder[i]]])
        IN /\ ks \in Seq(Keys)
           /\ \A k : k \in Range(ks) <=>
                       \E q \in Range(QuantityOrder) : k \in Range(hq[q])
    BY <2>1, <2>6, ForEachRange
  <2>8. /\ fits \in Seq(Keys)
        /\ \A k : k \in Range(fits) <=>
             \E q \in Quantities : k \in {Family(v, q), ParamCount(v, q)}
    <3>1. \A k : k \in Range(fits) <=> \E q \in Quantities : k \in Range(hq[q])
      BY <2>2, <2>6, <2>7
    <3>2. \A q \in Quantities : \A k :
            k \in Range(hq[q]) <=> k \in {Family(v, q), ParamCount(v, q)}
      BY <2>3
    <3>3. fits \in Seq(Keys)
      BY <2>2, <2>7
    <3> QED
      BY <3>1, <3>2, <3>3
  <2>9. h[v] \in Seq(Keys) /\ Range(h[v]) = {Instrument(v)} \cup Range(fits)
    BY <2>4, <2>5, <2>8, ConcatRange
  <2> QED
    BY <2>8, <2>9
<1>3. h \in [Venues -> Seq(Keys)]
  BY <1>2
<1>4. keys = FlattenSeq([i \in DOMAIN vs |-> h[vs[i]]])
  <2> HIDE DEF vs
  <2>1. \A i \in DOMAIN vs : vs[i] \in Venues
    BY <1>1
  <2> QED
    BY <2>1 DEF ForEach
<1> HIDE DEF h, vs, keys
<1>5. LET ks == FlattenSeq([i \in DOMAIN vs |-> h[vs[i]]])
      IN /\ ks \in Seq(Keys)
         /\ \A k : k \in Range(ks) <=> \E v \in Range(vs) : k \in Range(h[v])
  BY <1>1, <1>3, ForEachRange
<1>6. /\ keys \in Seq(Keys)
      /\ \A k : k \in Range(keys) <=>
           \E v \in venues :
             \/ k = Instrument(v)
             \/ \E q \in Quantities : k \in {Family(v, q), ParamCount(v, q)}
  BY <1>1, <1>2, <1>4, <1>5
<1> QED
  BY <1>6 DEF keys, vs

(* Exactly the keys the third trip asks for, the counts read being those *)
(* of some families.                                                      *)
LEMMA FitKeysRange ==
  ASSUME NEW venues \in SUBSET Venues,
         \A v \in venues, q \in Quantities :
           CountRead(v, q) \in Nat /\ 0..CountRead(v, q) \subseteq Positions
  PROVE  LET keys == ForEach(FitKeys, Sorted(venues))
         IN /\ keys \in Seq(Keys)
            /\ \A k : k \in Range(keys) <=>
                 \E v \in venues, q \in Quantities :
                   \E n \in 0..CountRead(v, q) : k = Param(v, q, n)
<1> DEFINE vs == Sorted(venues)
           keys == ForEach(FitKeys, vs)
           h == [v \in venues |-> FitKeys(v)]
<1>1. vs \in Seq(Venues) /\ Range(vs) = venues
  BY SortedRange
<1>2. ASSUME NEW v \in venues
      PROVE  /\ h[v] \in Seq(Keys)
             /\ \A k : k \in Range(h[v]) <=>
                  \E q \in Quantities :
                    \E n \in 0..CountRead(v, q) : k = Param(v, q, n)
  <2> DEFINE hq == [q \in Quantities |-> ParamKeys(v, q)]
  <2>1. ASSUME NEW q \in Quantities
        PROVE  /\ hq[q] \in Seq(Keys)
               /\ Range(hq[q]) = {Param(v, q, n) : n \in 0..CountRead(v, q)}
    <3> DEFINE n == CountRead(v, q) + 1
    <3>1. n \in Nat /\ n - 1 = CountRead(v, q) /\ 0..(n - 1) \subseteq Positions
      <4>1. CountRead(v, q) \in Nat /\ 0..CountRead(v, q) \subseteq Positions
        OBVIOUS
      <4>2. (CountRead(v, q) + 1) - 1 = CountRead(v, q)
        BY <4>1
      <4> QED
        BY <4>1, <4>2
    <3>2. hq[q] = [i \in 1..n |-> Param(v, q, i - 1)]
      BY DEF ParamKeys
    <3> HIDE DEF n, hq
    <3>3. LET ks == [i \in 1..n |-> Param(v, q, i - 1)]
          IN ks \in Seq(Keys) /\ Range(ks) = {Param(v, q, m) : m \in 0..(n - 1)}
      BY <3>1, ParamsRange
    <3> QED
      BY <3>1, <3>2, <3>3
  <2>2. hq \in [Quantities -> Seq(Keys)]
    BY <2>1
  <2>3. FitKeys(v) = FlattenSeq([i \in DOMAIN QuantityOrder |-> hq[QuantityOrder[i]]])
    BY OrderFacts DEF FitKeys, ForEach
  <2>4. h[v] = FitKeys(v)
    OBVIOUS
  <2>5. Range(QuantityOrder) = Quantities /\ QuantityOrder \in Seq(Quantities)
    BY FamiliesAssumption DEF Quantities
  <2> HIDE DEF hq, h
  <2>6. LET ks == FlattenSeq([i \in DOMAIN QuantityOrder |-> hq[QuantityOrder[i]]])
        IN /\ ks \in Seq(Keys)
           /\ \A k : k \in Range(ks) <=>
                       \E q \in Range(QuantityOrder) : k \in Range(hq[q])
    BY <2>2, <2>5, ForEachRange
  <2>7. \A k : k \in Range(h[v]) <=> \E q \in Quantities : k \in Range(hq[q])
    BY <2>3, <2>4, <2>5, <2>6
  <2>8. \A q \in Quantities : \A k :
          k \in Range(hq[q]) <=>
            \E n \in 0..CountRead(v, q) : k = Param(v, q, n)
    BY <2>1
  <2>9. h[v] \in Seq(Keys)
    BY <2>3, <2>4, <2>6
  <2>10. ASSUME NEW k
         PROVE  k \in Range(h[v]) <=>
                  \E q \in Quantities :
                    \E n \in 0..CountRead(v, q) : k = Param(v, q, n)
    <3>1. k \in Range(h[v]) <=> \E q \in Quantities : k \in Range(hq[q])
      BY <2>7
    <3>2. \A q \in Quantities :
            k \in Range(hq[q]) <=>
              \E n \in 0..CountRead(v, q) : k = Param(v, q, n)
      BY <2>8
    <3>3. ASSUME k \in Range(h[v])
          PROVE  \E q \in Quantities :
                    \E n \in 0..CountRead(v, q) : k = Param(v, q, n)
      <4>1. PICK q \in Quantities : k \in Range(hq[q])
        BY <3>1, <3>3
      <4> QED
        BY <3>2, <4>1
    <3>4. ASSUME NEW q \in Quantities, NEW n \in 0..CountRead(v, q), k = Param(v, q, n)
          PROVE  k \in Range(h[v])
      BY <3>1, <3>2, <3>4
    <3> QED
      BY <3>3, <3>4
  <2> QED
    BY <2>9, <2>10
<1>3. h \in [venues -> Seq(Keys)]
  BY <1>2
<1>4. vs \in Seq(venues) /\ \A i \in DOMAIN vs : vs[i] \in venues
  <2> HIDE DEF vs
  <2>1. \A i \in 1..Len(vs) : vs[i] \in venues
    BY <1>1 DEF Range
  <2> QED
    BY <1>1, <2>1
<1>5. keys = FlattenSeq([i \in DOMAIN vs |-> h[vs[i]]])
  <2> HIDE DEF vs
  <2> QED
    BY <1>4 DEF ForEach
<1> HIDE DEF h, vs, keys
<1>6. LET ks == FlattenSeq([i \in DOMAIN vs |-> h[vs[i]]])
      IN /\ ks \in Seq(Keys)
         /\ \A k : k \in Range(ks) <=> \E v \in Range(vs) : k \in Range(h[v])
  BY <1>3, <1>4, ForEachRange
<1>7. \A k : k \in Range(keys) <=> \E v \in venues : k \in Range(h[v])
  BY <1>1, <1>5, <1>6
<1>8. \A k : k \in Range(keys) <=>
           \E v \in venues, q \in Quantities :
             \E n \in 0..CountRead(v, q) : k = Param(v, q, n)
  <2>1. ASSUME NEW k \in Range(keys)
        PROVE  \E v \in venues, q \in Quantities :
                 \E n \in 0..CountRead(v, q) : k = Param(v, q, n)
    <3>1. PICK v \in venues : k \in Range(h[v])
      BY <1>7
    <3>2. PICK q \in Quantities : \E n \in 0..CountRead(v, q) : k = Param(v, q, n)
      BY <1>2, <3>1
    <3> QED
      BY <3>2
  <2>2. ASSUME NEW v \in venues, NEW q \in Quantities, NEW n \in 0..CountRead(v, q)
        PROVE  Param(v, q, n) \in Range(keys)
    <3>1. Param(v, q, n) \in Range(h[v])
      BY <1>2
    <3> QED
      BY <1>7, <3>1
  <2> QED
    BY <2>1, <2>2
<1>9. keys \in Seq(Keys)
  BY <1>5, <1>6
<1> QED
  BY <1>8, <1>9 DEF keys, vs

-----------------------------------------------------------------------------
(* What is piped, and how much of it redis-cli has sent. *)
Pipeline(s) == <<Multi, Delete>> \o Lines[s] \o <<Exec>>

Sent == Len(Pipeline(script)) - Len(todo)

SentSoFar(n) == {Pipeline(script)[j] : j \in 2..n}

Refused(n) == \E k \in SentSoFar(n) : Flawed(script, {"queueing"}, k)

-----------------------------------------------------------------------------
(* The invariant.                                                          *)

(* A run whose connection holds: what Redis has queued and answered is     *)
(* what was sent, and at the end a mark means a command that fails.        *)
Progress ==
  /\ Len(todo) <= Len(Pipeline(script))
  /\ \A j \in 1..Len(todo) : todo[j] = Pipeline(script)[Sent + j]
  /\ Sent = 0 => NothingSent
  /\ (Sent > 0 /\ todo # <<>>) =>
       /\ queued = SentSoFar(Sent)
       /\ txn = IF Refused(Sent) THEN "aborted" ELSE "open"
       /\ marked <=> Refused(Sent)
  /\ todo = <<>> => (marked <=> ~Runnable(script))

Undisturbed ==
  /\ step \in {"dry", "live"} => reachable /\ Progress
  /\ step = "flushing" => reachable /\ (marked <=> ~Runnable(script))
  /\ step = "live" => Runnable(script)
  /\ (step = "live" /\ todo = <<>>) => live = Whole[script]
  /\ step = "seeded" => live = Whole[script]

SeederInv ==
  /\ SeederTypeOK
  /\ step # "idle" => script \in Scripts
  /\ outages = 0 => ~disturbed
  /\ ~disturbed => Undisturbed
  /\ LiveIsWhole

(* A load beside which no seeder ran, with no connection lost. *)
Alone == ~overlapped /\ outages = 0

(* All a load alone has read is still what the live database holds, and    *)
(* past the discovery that is not the empty one.                           *)
LoadInv ==
  /\ got \in [Keys -> Scripts \cup {Absent, NotRead}]
  /\ ~Loading => toRead = <<>>
  /\ (Loading /\ ~overlapped) => ~Seeding
  /\ (Loading /\ Alone) => \A k \in Keys : got[k] \in {NotRead, live[k]}
  /\ (phase \in {"heads", "params"} /\ Alone) => live # Empty
  /\ LoadedAloneIsOneSeeding

-----------------------------------------------------------------------------
LEMMA CommandsDiffer ==
  /\ Multi # Delete /\ Multi # Exec /\ Delete # Exec
  /\ Multi \notin Keys /\ Delete \notin Keys /\ Exec \notin Keys
<1>1. \A k \in Keys : Len(k) = 1 =>
        k \in {<<"symbology">>, <<"calib:symbols">>, <<"calib:quantities">>}
  BY DEF Keys, Symbology, SymbolsKey, QuantityKey, Instrument, Family,
         ParamCount, Param
<1>2. Len(Multi) = 1 /\ Len(Delete) = 1 /\ Len(Exec) = 1
  BY DEF Multi, Delete, Exec
<1>3. Multi[1] = "MULTI" /\ Delete[1] = "EVAL" /\ Exec[1] = "EXEC"
  BY DEF Multi, Delete, Exec
<1>4. \A k \in {<<"symbology">>, <<"calib:symbols">>, <<"calib:quantities">>} :
        k[1] \in {"symbology", "calib:symbols", "calib:quantities"}
  OBVIOUS
<1> QED
  BY <1>1, <1>2, <1>3, <1>4

LEMMA PipelineFacts ==
  ASSUME NEW s \in Scripts
  PROVE  /\ Pipeline(s) \in Seq(Commands)
         /\ Len(Lines[s]) \in Nat
         /\ Len(Pipeline(s)) = Len(Lines[s]) + 3
         /\ Pipeline(s)[1] = Multi
         /\ Pipeline(s)[2] = Delete
         /\ Pipeline(s)[Len(Lines[s]) + 3] = Exec
         /\ \A j \in 1..Len(Lines[s]) :
              Pipeline(s)[j + 2] = Lines[s][j] /\ Lines[s][j] \in Keys
<1> DEFINE ls == Lines[s]
<1>1. ls \in Seq(Keys)
  BY LinesRange
<1> HIDE DEF ls
<1>2. /\ ls \in Seq(Commands)
      /\ Multi \in Commands /\ Delete \in Commands /\ Exec \in Commands
  BY <1>1 DEF Commands
<1>3. <<Multi, Delete>> \o ls \o <<Exec>> \in Seq(Commands)
  BY <1>2
<1>4. Len(<<Multi, Delete>> \o ls \o <<Exec>>) = Len(ls) + 3 /\ Len(ls) \in Nat
  BY <1>2
<1>5. LET p == <<Multi, Delete>> \o ls \o <<Exec>> IN
        /\ p[1] = Multi /\ p[2] = Delete /\ p[Len(ls) + 3] = Exec
        /\ \A j \in 1..Len(ls) : p[j + 2] = ls[j]
  BY <1>2
<1>6. \A j \in 1..Len(ls) : ls[j] \in Keys
  BY <1>1
<1> QED
  BY <1>3, <1>4, <1>5, <1>6 DEF Pipeline, ls

(* Only keys can be flawed. *)
LEMMA FlawsAreOfKeys ==
  ASSUME NEW s \in Scripts, NEW kinds, NEW k, Flawed(s, kinds, k)
  PROVE  k \in Keys
BY ScriptsAssumption DEF Flawed, Script, Flaw

(* What is queued at the end: the delete and every line. *)
LEMMA AllIsQueued ==
  ASSUME script \in Scripts
  PROVE  SentSoFar(Len(Pipeline(script)) - 1)
           = {Delete} \cup Range(Lines[script])
<1> DEFINE n == Len(Lines[script])
<1>1. SentSoFar(Len(Pipeline(script)) - 1)
        = {Pipeline(script)[j] : j \in 2..(n + 2)}
  BY PipelineFacts DEF SentSoFar
<1>2. Range(Lines[script]) = {Lines[script][j] : j \in 1..n}
  BY LinesRange, LenProperties DEF Range
<1>3. Pipeline(script)[2] = Delete /\ n \in Nat
      /\ \A j \in 1..n : Pipeline(script)[j + 2] = Lines[script][j]
  BY PipelineFacts
<1> HIDE DEF n
<1>4. ASSUME NEW j \in 2..(n + 2)
      PROVE  Pipeline(script)[j]
               \in {Delete} \cup {Lines[script][i] : i \in 1..n}
  <2>1. CASE j = 2
    BY <1>3, <2>1
  <2>2. CASE j # 2
    <3>1. j - 2 \in 1..n /\ (j - 2) + 2 = j
      BY <1>3, <2>2
    <3> QED
      BY <1>3, <3>1
  <2> QED
    BY <2>1, <2>2
<1>5. Delete \in {Pipeline(script)[j] : j \in 2..(n + 2)}
  BY <1>3
<1>6. ASSUME NEW j \in 1..n
      PROVE  Lines[script][j] \in {Pipeline(script)[i] : i \in 2..(n + 2)}
  <2>1. j + 2 \in 2..(n + 2)
    BY <1>3
  <2> QED
    BY <1>3, <2>1
<1> QED
  BY <1>1, <1>2, <1>4, <1>5, <1>6

(* EXEC of all of a script that runs leaves its seeding and nothing else. *)
LEMMA ExecutedIsWhole ==
  ASSUME script \in Scripts, Runnable(script)
  PROVE  Executed({Delete} \cup Range(Lines[script])) = Whole[script]
<1>1. \A k \in Keys : ~Flawed(script, {"queueing", "executing"}, k)
  BY DEF Runnable, Flawed
<1>2. \A k \in Keys : k # Delete
  BY CommandsDiffer
<1> QED
  BY <1>1, <1>2 DEF Executed, Whole

(* A flaw of a kind is found by the command it is in. *)
LEMMA FlawIsMet ==
  ASSUME script \in Scripts, NEW kinds, "none" \notin kinds
  PROVE  (\E k \in {Delete} \cup Range(Lines[script]) :
            Flawed(script, kinds, k))
           <=> script.flaw.kind \in kinds
<1>1. ASSUME script.flaw.kind \in kinds
      PROVE  script.flaw.key \in Range(Lines[script])
  BY <1>1, FlawsAssumption
<1> QED
  BY <1>1 DEF Flawed

-----------------------------------------------------------------------------
(* One line is sent over a connection that holds.                          *)

LEMMA NextLine ==
  ASSUME SeederInv, script \in Scripts, Progress, todo # <<>>,
         todo' = Tail(todo), script' = script
  PROVE  /\ Head(todo) = Pipeline(script)[Sent + 1]
         /\ Sent \in Nat /\ Sent' = Sent + 1
         /\ Sent < Len(Pipeline(script)) /\ Len(Pipeline(script)) \in Nat
         /\ Len(todo') <= Len(Pipeline(script))
         /\ \A j \in 1..Len(todo') : todo'[j] = Pipeline(script)[Sent' + j]
         /\ todo' = <<>> <=> Sent' = Len(Pipeline(script))
<1> DEFINE p == Pipeline(script)
<1>1. todo \in Seq(Commands) /\ p \in Seq(Commands)
  BY PipelineFacts DEF SeederInv, SeederTypeOK
<1>2. Len(todo) <= Len(p) /\ Sent = Len(p) - Len(todo)
      /\ \A j \in 1..Len(todo) : todo[j] = p[Sent + j]
  BY DEF Progress, Sent
<1>3. Sent' = Len(p) - Len(todo')
  BY DEF Sent, Pipeline
<1> HIDE DEF p
<1>4. Len(todo) \in Nat \ {0} /\ Len(p) \in Nat
  BY <1>1
<1>5. Len(todo') = Len(todo) - 1 /\ Head(todo) = todo[1]
  BY <1>1
<1>6. \A j \in 1..Len(todo') : todo'[j] = todo[j + 1]
  BY <1>1
<1>7. todo' = <<>> <=> Len(todo') = 0
  <2>1. Tail(todo) \in Seq(Commands)
    BY <1>1
  <2> QED
    BY <2>1, EmptySeq
<1>8. ASSUME NEW j \in 1..Len(todo') PROVE todo'[j] = p[Sent' + j]
  <2>1. j + 1 \in 1..Len(todo) /\ Sent + (j + 1) = Sent' + j
    BY <1>2, <1>3, <1>4, <1>5
  <2> QED
    BY <1>2, <1>6, <2>1
<1>9. Head(todo) = p[Sent + 1]
  BY <1>2, <1>4, <1>5
<1>10. /\ Sent \in Nat /\ Sent' = Sent + 1 /\ Sent < Len(p)
       /\ Len(todo') <= Len(p)
  BY <1>2, <1>3, <1>4, <1>5
<1>11. Sent' = Len(p) <=> Len(todo') = 0
  BY <1>2, <1>4, <1>5, <1>10
<1> QED
  BY <1>4, <1>7, <1>8, <1>9, <1>10, <1>11 DEF p

(* MULTI. *)
LEMMA SendFirst ==
  ASSUME SeederInv, script \in Scripts, Progress, Send, Sent = 0
  PROVE  Progress' /\ todo' # <<>> /\ live' = live
<1>1. todo # <<>> /\ todo' = Tail(todo) /\ script' = script
  BY DEF Send, Sending
<1>2. Head(todo) = Multi /\ Sent' = 1 /\ todo' # <<>>
  BY <1>1, NextLine, PipelineFacts
<1>3. txn' = "open" /\ queued' = {} /\ marked' = FALSE /\ live' = live
  BY <1>2, CommandsDiffer DEF Send, Receives, Progress, NothingSent
<1>4. SentSoFar(Sent)' = {} /\ ~Refused(Sent)'
  BY <1>1, <1>2 DEF SentSoFar, Refused
<1>5. queued' = SentSoFar(Sent)' /\ (marked' <=> Refused(Sent)')
  BY <1>3, <1>4
<1>6. txn' = IF Refused(Sent)' THEN "aborted" ELSE "open"
  BY <1>3, <1>4
<1>7. Len(todo') <= Len(Pipeline(script))
      /\ \A j \in 1..Len(todo') : todo'[j] = Pipeline(script)[Sent' + j]
  BY <1>1, NextLine
<1> QED
  BY <1>1, <1>2, <1>3, <1>5, <1>6, <1>7 DEF Progress

(* The delete and the writes. *)
LEMMA SendMiddle ==
  ASSUME SeederInv, script \in Scripts, Progress, Send,
         Sent > 0, Sent + 1 < Len(Pipeline(script))
  PROVE  Progress' /\ todo' # <<>> /\ live' = live
<1> DEFINE c == Head(todo)
<1>1. todo # <<>> /\ todo' = Tail(todo) /\ script' = script
  BY DEF Send, Sending
<1>2. /\ c = Pipeline(script)[Sent + 1] /\ Sent' = Sent + 1 /\ Sent \in Nat
      /\ todo' # <<>>
  BY <1>1, NextLine
<1>3. c \notin {Multi, Exec}
  <2>1. CASE Sent = 1
    BY <1>2, <2>1, PipelineFacts, CommandsDiffer
  <2>2. CASE Sent # 1
    <3>1. Sent - 1 \in 1..Len(Lines[script]) /\ (Sent - 1) + 2 = Sent + 1
      BY <1>2, <2>2, PipelineFacts
    <3>2. Pipeline(script)[(Sent - 1) + 2] \in Keys
      BY <3>1, PipelineFacts
    <3> QED
      BY <1>2, <3>1, <3>2, CommandsDiffer
  <2> QED
    BY <2>1, <2>2
<1>4. /\ queued = SentSoFar(Sent) /\ (marked <=> Refused(Sent))
      /\ txn = IF Refused(Sent) THEN "aborted" ELSE "open"
  BY <1>1 DEF Progress
<1>5. /\ live' = live /\ queued' = queued \cup {c}
      /\ IF Flawed(script, {"queueing"}, c)
         THEN txn' = "aborted" /\ marked' = TRUE
         ELSE txn' = txn /\ marked' = marked
  BY <1>3, <1>4 DEF Send, Receives
<1>6. SentSoFar(Sent)' = SentSoFar(Sent) \cup {c}
  <2>1. SentSoFar(Sent)' = {Pipeline(script)[j] : j \in 2..(Sent + 1)}
    BY <1>1, <1>2 DEF SentSoFar, Pipeline
  <2>2. 2..(Sent + 1) = (2..Sent) \cup {Sent + 1}
    BY <1>2
  <2> QED
    BY <1>2, <2>1, <2>2 DEF SentSoFar
<1>7. Refused(Sent)' <=> Refused(Sent) \/ Flawed(script, {"queueing"}, c)
  BY <1>1, <1>6 DEF Refused, Flawed
<1>8. /\ queued' = SentSoFar(Sent)' /\ (marked' <=> Refused(Sent)')
      /\ txn' = IF Refused(Sent)' THEN "aborted" ELSE "open"
  BY <1>4, <1>5, <1>6, <1>7 DEF Refused
<1>9. Len(todo') <= Len(Pipeline(script))
      /\ \A j \in 1..Len(todo') : todo'[j] = Pipeline(script)[Sent' + j]
  BY <1>1, NextLine
<1> QED
  BY <1>1, <1>2, <1>5, <1>8, <1>9 DEF Progress

(* EXEC. *)
LEMMA SendLast ==
  ASSUME SeederInv, script \in Scripts, Progress, Send,
         Sent > 0, Sent + 1 = Len(Pipeline(script)),
         step = "live" => Runnable(script)
  PROVE  /\ Progress' /\ todo' = <<>>
         /\ live' = IF step = "live" THEN Whole[script] ELSE live
<1> DEFINE all == {Delete} \cup Range(Lines[script])
<1>1. todo # <<>> /\ todo' = Tail(todo) /\ script' = script
  BY DEF Send, Sending
<1>2. Head(todo) = Exec /\ todo' = <<>> /\ Sent' > 0
  BY <1>1, NextLine, PipelineFacts
<1>3. SentSoFar(Sent) = all
  <2>1. Sent = Len(Pipeline(script)) - 1
    BY <1>1, NextLine
  <2> QED
    BY <2>1, AllIsQueued
<1>4. /\ queued = all /\ (marked <=> Refused(Sent))
      /\ txn = IF Refused(Sent) THEN "aborted" ELSE "open"
  BY <1>1, <1>3 DEF Progress
<1>5. Refused(Sent) <=> script.flaw.kind \in {"queueing"}
  BY <1>3, FlawIsMet DEF Refused
<1>6. /\ (\E k \in all : Flawed(script, {"executing"}, k))
           <=> script.flaw.kind \in {"executing"}
      /\ script.flaw.kind \in {"none", "queueing", "executing", "unusable"}
  BY FlawIsMet, ScriptsAssumption DEF Script, Flaw
<1> HIDE DEF all
<1>7. CASE Refused(Sent)
  <2>1. marked' = TRUE /\ live' = live
    BY <1>2, <1>4, <1>7, CommandsDiffer DEF Send, Receives
  <2>2. ~Runnable(script) /\ step # "live"
    BY <1>5, <1>7 DEF Runnable
  <2> QED
    BY <1>1, <1>2, <2>1, <2>2, NextLine DEF Progress
<1>8. CASE ~Refused(Sent)
  <2>1. txn = "open"
    BY <1>4, <1>8
  <2>2. /\ Apply(all)
        /\ marked' = (marked \/
                        \E k \in all : Flawed(script, {"executing"}, k))
    BY <1>2, <1>4, <2>1, CommandsDiffer DEF Send, Receives
  <2>3. marked' <=> ~Runnable(script)
    BY <1>4, <1>5, <1>6, <1>8, <2>2 DEF Runnable
  <2>4. live' = IF step = "live" THEN Whole[script] ELSE live
    BY <2>2, ExecutedIsWhole DEF Apply, all
  <2> QED
    BY <1>1, <1>2, <2>3, <2>4, NextLine DEF Progress
<1> QED
  BY <1>7, <1>8

-----------------------------------------------------------------------------
(* The seeder's variables stay in their sets. *)

LEMMA ExecutedType ==
  ASSUME SeederTypeOK, script \in Scripts, NEW cs
  PROVE  /\ Executed(cs) \in [Keys -> Scripts \cup {Absent}]
         /\ Apply(cs) => live' \in [Keys -> Scripts \cup {Absent}]
BY DEF Executed, Apply, SeederTypeOK

LEMMA PipeType ==
  ASSUME SeederTypeOK, script \in Scripts, NEW where, Pipe(where)
  PROVE  /\ todo' \in Seq(Commands) /\ txn' \in {"none", "open", "aborted"}
         /\ queued' \subseteq Commands /\ marked' \in BOOLEAN
         /\ todo' = Pipeline(script)
BY PipelineFacts DEF Pipe, Pipeline

LEMMA ReceivesType ==
  ASSUME SeederTypeOK, script \in Scripts, NEW c \in Commands,
         Receives(c, txn, queued)
  PROVE  /\ live' \in [Keys -> Scripts \cup {Absent}]
         /\ txn' \in {"none", "open", "aborted"}
         /\ queued' \subseteq Commands /\ marked' \in BOOLEAN
<1>1. live' \in [Keys -> Scripts \cup {Absent}]
  BY ExecutedType DEF Receives, SeederTypeOK
<1>2. txn' \in {"none", "open", "aborted"} /\ queued' \subseteq Commands
  BY DEF Receives, SeederTypeOK
<1>3. marked' \in BOOLEAN
  BY DEF Receives, SeederTypeOK
<1> QED
  BY <1>1, <1>2, <1>3

ScriptKnown == step # "idle" => script \in Scripts

LEMMA SeederTypes ==
  ASSUME SeederTypeOK, ScriptKnown, SeederNext
  PROVE  SeederTypeOK' /\ ScriptKnown'
<1> USE DEF SeederTypeOK, ScriptKnown, Ended, run
<1>1. ASSUME NEW s \in Scripts, StartSeeder(s)
      PROVE  SeederTypeOK' /\ ScriptKnown'
  <2>1. seeds' \in 0..MaxSeeds
    BY <1>1, SeederAssumption DEF StartSeeder
  <2>2. /\ step' = "pinging" /\ script' \in Scripts /\ disturbed' = FALSE
        /\ UNCHANGED <<live, run, reachable, outages>>
    BY <1>1 DEF StartSeeder
  <2> QED
    BY <2>1, <2>2
<1>2. CASE PingAnswered
  BY <1>2, PipeType DEF PingAnswered, Pipe
<1>3. CASE PingUnanswered
  BY <1>3 DEF PingUnanswered
<1>4. CASE Send
  <2>1. Head(todo) \in Commands /\ todo' \in Seq(Commands)
    BY <1>4 DEF Send, Sending
  <2>2. script \in Scripts /\ Receives(Head(todo), txn, queued)
    BY <1>4 DEF Send
  <2> QED
    BY <1>4, <2>1, <2>2, ReceivesType DEF Send
<1>5. CASE Undelivered
  BY <1>5 DEF Undelivered, Sending
<1>6. CASE DryRunDone
  BY <1>6 DEF DryRunDone
<1>7. CASE FlushScratch
  <2>1. CASE marked \/ ~reachable
    BY <1>7, <2>1 DEF FlushScratch
  <2>2. CASE ~(marked \/ ~reachable)
    BY <1>7, <2>2, PipeType DEF FlushScratch, Pipe
  <2> QED
    BY <2>1, <2>2
<1>8. CASE LiveRunDone
  BY <1>8 DEF LiveRunDone
<1>9. CASE KillSeeder
  <2>1. <<>> \in Seq(Commands)
    OBVIOUS
  <2> QED
    BY <1>9, <2>1 DEF KillSeeder
<1>10. CASE LoseConnection
  BY <1>10, SeederAssumption DEF LoseConnection
<1>11. CASE LoseExecReply
  BY <1>11, SeederAssumption, ExecutedType DEF LoseExecReply
<1>12. CASE Reconnect
  BY <1>12 DEF Reconnect
<1> QED
  BY <1>1, <1>2, <1>3, <1>4, <1>5, <1>6, <1>7, <1>8, <1>9, <1>10, <1>11,
     <1>12 DEF SeederNext

-----------------------------------------------------------------------------
(* Every step keeps the invariant. *)

(* Send, over a connection that holds. *)
LEMMA SendKeeps ==
  ASSUME SeederInv, ~disturbed, Send
  PROVE  /\ Undisturbed' /\ LiveIsWhole'
         /\ \/ live' = live
            \/ script \in Scripts /\ Runnable(script) /\ live' = Whole[script]
<1>1. /\ step \in {"dry", "live"} /\ todo # <<>>
      /\ UNCHANGED <<step, script, reachable, disturbed, seeds, outages>>
  BY DEF Send, Sending
<1>2. script \in Scripts /\ Progress /\ reachable
      /\ (step = "live" => Runnable(script))
  BY <1>1 DEF SeederInv, Undisturbed
<1>3. Sent \in Nat /\ Len(Pipeline(script)) \in Nat
      /\ Sent < Len(Pipeline(script))
  BY <1>1, <1>2, NextLine DEF Send, Sending
<1>4. /\ Progress'
      /\ live' = IF todo' = <<>> /\ step = "live" THEN Whole[script] ELSE live
  <2>1. CASE Sent = 0
    BY <1>2, <2>1, SendFirst
  <2>2. CASE Sent > 0 /\ Sent + 1 < Len(Pipeline(script))
    BY <1>2, <2>2, SendMiddle
  <2>3. CASE Sent > 0 /\ Sent + 1 = Len(Pipeline(script))
    BY <1>2, <2>3, SendLast
  <2> QED
    BY <1>3, <2>1, <2>2, <2>3
<1>5. Undisturbed'
  BY <1>1, <1>2, <1>4 DEF Undisturbed
<1>6. live' = live \/ (Runnable(script) /\ live' = Whole[script])
  BY <1>2, <1>4
<1> QED
  BY <1>1, <1>2, <1>5, <1>6 DEF SeederInv, LiveIsWhole

(* Until the last line is answered the live database is as it was. *)
LEMMA SendHolds ==
  ASSUME SeederInv, ~disturbed, Send, todo' # <<>>
  PROVE  live' = live
<1>1. step \in {"dry", "live"} /\ todo # <<>>
  BY DEF Send, Sending
<1>2. script \in Scripts /\ Progress /\ reachable
      /\ (step = "live" => Runnable(script))
  BY <1>1 DEF SeederInv, Undisturbed
<1>3. Sent \in Nat /\ Len(Pipeline(script)) \in Nat
      /\ Sent < Len(Pipeline(script))
  BY <1>1, <1>2, NextLine DEF Send, Sending
<1>4. CASE Sent = 0
  BY <1>2, <1>4, SendFirst
<1>5. CASE Sent > 0 /\ Sent + 1 < Len(Pipeline(script))
  BY <1>2, <1>5, SendMiddle
<1>6. CASE Sent > 0 /\ Sent + 1 = Len(Pipeline(script))
  BY <1>2, <1>6, SendLast
<1> QED
  BY <1>3, <1>4, <1>5, <1>6

(* The start of a piped run. *)
LEMMA PipeKeeps ==
  ASSUME SeederInv, script \in Scripts, script' = script,
         NEW where, Pipe(where)
  PROVE  Progress' /\ todo' # <<>>
<1>1. todo' = Pipeline(script) /\ txn' = "none" /\ queued' = {}
      /\ marked' = FALSE
  BY DEF Pipe, Pipeline
<1>2. Len(Pipeline(script)) \in Nat /\ Len(Pipeline(script)) > 0
      /\ Pipeline(script) \in Seq(Commands)
  BY PipelineFacts
<1>3. Sent' = Len(Pipeline(script)) - Len(todo')
  BY DEF Sent, Pipeline
<1>4. Sent' = 0
  BY <1>1, <1>2, <1>3
<1>5. todo' # <<>>
  BY <1>1, <1>2
<1> QED
  BY <1>1, <1>2, <1>4, <1>5 DEF Progress, NothingSent

LEMMA SeederInvKept ==
  ASSUME SeederInv, SeederNext
  PROVE  SeederInv'
<1> USE DEF Undisturbed, Ended, run
<1>1. SeederTypeOK' /\ ScriptKnown'
  BY SeederTypes DEF SeederInv, ScriptKnown
<1>2. (outages' = 0 => ~disturbed') /\ (~disturbed' => Undisturbed')
      /\ LiveIsWhole'
  <2>1. ASSUME NEW s \in Scripts, StartSeeder(s)
        PROVE  /\ (outages' = 0 => ~disturbed') /\ Undisturbed'
               /\ live' = live /\ outages' = outages
    BY <2>1 DEF StartSeeder
  <2>2. CASE PingAnswered
    BY <2>2, PipeKeeps DEF PingAnswered, Pipe, SeederInv, LiveIsWhole
  <2>3. CASE PingUnanswered
    BY <2>3 DEF PingUnanswered, SeederInv, LiveIsWhole
  <2>4. CASE Send
    BY <2>4, SendKeeps DEF Send, SeederInv, LiveIsWhole
  <2>5. CASE Undelivered
    BY <2>5 DEF Undelivered, SeederInv, LiveIsWhole
  <2>6. CASE DryRunDone
    BY <2>6 DEF DryRunDone, SeederInv, LiveIsWhole, Progress
  <2>7. CASE FlushScratch
    BY <2>7, PipeKeeps DEF FlushScratch, Pipe, SeederInv, LiveIsWhole
  <2>8. CASE LiveRunDone
    BY <2>8 DEF LiveRunDone, SeederInv, LiveIsWhole, Progress
  <2>9. CASE KillSeeder
    BY <2>9 DEF KillSeeder, SeederInv, LiveIsWhole
  <2>10. CASE LoseConnection
    BY <2>10 DEF LoseConnection, SeederInv, LiveIsWhole, SeederTypeOK
  <2>11. CASE LoseExecReply
    BY <2>11 DEF LoseExecReply, SeederInv, LiveIsWhole, SeederTypeOK
  <2>12. CASE Reconnect
    BY <2>12 DEF Reconnect, SeederInv, LiveIsWhole
  <2>13. ASSUME NEW s \in Scripts, StartSeeder(s) PROVE LiveIsWhole'
    BY <2>1, <2>13 DEF SeederInv, LiveIsWhole
  <2> QED
    BY <2>1, <2>2, <2>3, <2>4, <2>5, <2>6, <2>7, <2>8, <2>9, <2>10, <2>11,
       <2>12, <2>13 DEF SeederNext
<1> QED
  BY <1>1, <1>2 DEF SeederInv, ScriptKnown

-----------------------------------------------------------------------------
(* The load.                                                               *)

LEMMA SeederStepKeepsLoadInv ==
  ASSUME SeederInv, LoadInv, SeederStep
  PROVE  LoadInv'
<1>1. /\ UNCHANGED loadVars /\ (Alone' => Alone)
      /\ (Loading /\ ~overlapped' => ~Seeding')
  <2>1. outages' = 0 => outages = 0
    BY DEF SeederStep, SeederNext, StartSeeder, PingAnswered, PingUnanswered,
           Send, Undelivered, DryRunDone, FlushScratch, LiveRunDone,
           KillSeeder, LoseConnection, LoseExecReply, Reconnect, SeederInv,
           SeederTypeOK
  <2> QED
    BY <2>1 DEF SeederStep, Alone
<1>2. Loading' = Loading
  BY <1>1 DEF Loading, loadVars
<1>3. (Loading /\ Alone') => live' = live
  <2>1. ~Seeding => live' = live \/ Seeding'
    BY DEF SeederStep, SeederNext, StartSeeder, PingAnswered, PingUnanswered,
           Send, Undelivered, DryRunDone, FlushScratch, LiveRunDone,
           KillSeeder, LoseConnection, LoseExecReply, Reconnect, Seeding, Ended
  <2> QED
    BY <1>1, <2>1 DEF LoadInv, Alone
<1>4. LoadedIsOneSeeding' = LoadedIsOneSeeding
  BY <1>1 DEF LoadedIsOneSeeding, loadVars
<1>5. LoadedAloneIsOneSeeding'
  BY <1>1, <1>4 DEF LoadInv, LoadedAloneIsOneSeeding, Alone
<1>6. (phase' \in {"heads", "params"} /\ Alone') => live' # Empty
  <2>1. phase' \in {"heads", "params"} => Loading
    BY <1>1 DEF loadVars, Loading, Trips
  <2> QED
    BY <1>1, <1>3, <2>1 DEF LoadInv, loadVars
<1> QED
  BY <1>1, <1>2, <1>3, <1>5, <1>6 DEF LoadInv, loadVars, Alone

LEMMA LoadStepKeepsLoadInv ==
  ASSUME SeederInv, LoadInv, LoadStep
  PROVE  LoadInv'
<1> USE DEF Trips, Alone
<1>1. UNCHANGED seederVars
      /\ overlapped' = (IF Loading THEN overlapped ELSE Seeding)
  BY DEF LoadStep
<1>2. live \in [Keys -> Scripts \cup {Absent}]
  BY DEF SeederInv, SeederTypeOK
<1>3. CASE StartLoad
  BY <1>1, <1>3 DEF StartLoad, LoadInv, Loading, Unread, seederVars, Seeding,
                    LoadedAloneIsOneSeeding, LoadedIsOneSeeding
<1>4. CASE ReadKey
  <2>1. Loading /\ phase' = phase /\ live' = live /\ overlapped' = overlapped
    BY <1>1, <1>4 DEF ReadKey, LoadInv, Loading
  <2>2. got' = [got EXCEPT ![Head(toRead)] = live[Head(toRead)]]
    BY <1>4 DEF ReadKey
  <2>3. got' \in [Keys -> Scripts \cup {Absent, NotRead}]
    BY <1>2, <2>2 DEF LoadInv
  <2>4. \A k \in Keys : got'[k] \in {got[k], live[k]}
    BY <2>2 DEF LoadInv
  <2> QED
    BY <1>1, <2>1, <2>3, <2>4 DEF LoadInv, Loading, LoadedAloneIsOneSeeding,
       LoadedIsOneSeeding, seederVars, Seeding
<1>5. ASSUME NEW trip, NEW passes, NEW next, NEW keys,
             Check(trip, passes, next, keys),
             trip \in Trips, next \in {"heads", "params", "loaded"},
             next = "loaded" => keys = <<>>,
             next # "loaded" => (passes /\ Alone => live # Empty),
             next = "loaded" => trip = "params"
      PROVE  LoadInv'
  <2>1. /\ Loading /\ got' = got /\ live' = live /\ overlapped' = overlapped
        /\ outages' = outages /\ step' = step
    BY <1>1, <1>5 DEF Check, Loading, seederVars
  <2>2. phase' \in {next, "refused"} /\ (phase' = "refused" => toRead' = <<>>)
        /\ (phase' # "refused" => passes /\ toRead' = keys)
    BY <1>5 DEF Check
  <2>3. LoadedAloneIsOneSeeding'
    <3> SUFFICES ASSUME Alone, phase' = "loaded"
                 PROVE  \E s \in Scripts : \A k \in Keys :
                          got[k] # NotRead => got[k] = Whole[s][k]
      BY <2>1 DEF LoadedAloneIsOneSeeding, LoadedIsOneSeeding
    <3>1. phase = "params"
      BY <1>5, <2>2 DEF Check
    <3>2. PICK s \in Scripts : live = Whole[s]
      BY <3>1 DEF LoadInv, SeederInv, LiveIsWhole
    <3> QED
      BY <2>1, <3>2 DEF LoadInv
  <2> QED
    BY <1>5, <2>1, <2>2, <2>3 DEF LoadInv, Loading, Seeding
<1>6. CASE Discovered
  <2>1. ASSUME DiscoveryPasses, Alone, phase = "discovering" PROVE live # Empty
    <3>1. got[SymbolsKey] \notin {Absent, NotRead}
      BY <2>1 DEF DiscoveryPasses, Usable
    <3>2. SymbolsKey \in Keys
      BY DEF Keys
    <3>3. live[SymbolsKey] # Absent
      BY <2>1, <3>1, <3>2 DEF LoadInv, Loading
    <3> QED
      BY <3>2, <3>3 DEF Empty
  <2>2. PICK keys : Check("discovering", DiscoveryPasses, "heads", keys)
    BY <1>6 DEF Discovered
  <2>3. phase = "discovering"
    BY <2>2 DEF Check
  <2> QED
    BY <1>5, <2>1, <2>2, <2>3
<1>7. CASE HeadsRead
  <2>1. phase = "heads" /\ Alone => live # Empty
    BY DEF LoadInv
  <2> QED
    BY <1>5, <1>7, <2>1 DEF HeadsRead, Check
<1>8. CASE ParamsRead
  <2>1. Check("params", ParamsPass, "loaded", <<>>)
    BY <1>8 DEF ParamsRead
  <2> QED
    BY <1>5, <2>1
<1>9. CASE LoseRedis
  BY <1>1, <1>9 DEF LoseRedis, LoadInv, Loading, LoadedAloneIsOneSeeding,
                    LoadedIsOneSeeding, seederVars, Seeding
<1> QED
  BY <1>3, <1>4, <1>6, <1>7, <1>8, <1>9 DEF LoadStep, LoadNext

-----------------------------------------------------------------------------
(* The trips of a load. *)

DiscoveryKeys == {SymbolsKey, QuantityKey, Symbology}

HeadsAsked(k) ==
  \E v \in ListedVenues :
    \/ k = Instrument(v)
    \/ \E q \in Quantities : k \in {Family(v, q), ParamCount(v, q)}

ParamsAsked(k) ==
  \E v \in ListedVenues, q \in Quantities :
    \E n \in 0..CountRead(v, q) : k = Param(v, q, n)

(* The keys of the present trip. *)
Asked(k) ==
  \/ phase = "discovering" /\ k \in DiscoveryKeys
  \/ phase = "heads" /\ HeadsAsked(k)
  \/ phase = "params" /\ ParamsAsked(k)

(* No parameter past the one that must not exist. *)
NothingPastCounts ==
  \A v \in ListedVenues, q \in Quantities : \A n \in Positions :
    got[Param(v, q, n)] # NotRead => n <= CountRead(v, q)

NoParamRead ==
  \A v \in Venues, q \in Quantities : \A n \in Positions :
    got[Param(v, q, n)] = NotRead

TripInv ==
  /\ LoadTypeOK
  /\ ~Loading => toRead = <<>>
  /\ \A k \in Range(toRead) : Asked(k)
  /\ \A k \in Keys : Asked(k) => got[k] # NotRead \/ k \in Range(toRead)
  /\ phase \in {"heads", "params", "loaded"} => DiscoveryPasses
  /\ phase \in {"params", "loaded"} => HeadsPass /\ NothingPastCounts
  /\ phase \in {"discovering", "heads"} => NoParamRead
  /\ phase = "loaded" => ParamsPass
  /\ NoFalseRefusal

LEMMA HeadOrTail ==
  ASSUME NEW S, NEW s \in Seq(S), s # <<>>
  PROVE  /\ Tail(s) \in Seq(S) /\ Head(s) \in S
         /\ Range(s) = {Head(s)} \cup Range(Tail(s))
<1>1. /\ Tail(s) \in Seq(S) /\ Head(s) \in S /\ Head(s) = s[1]
      /\ Len(s) \in Nat \ {0} /\ Len(Tail(s)) = Len(s) - 1
      /\ \A i \in 1..(Len(s) - 1) : Tail(s)[i] = s[i + 1]
  OBVIOUS
<1>2. DOMAIN s = 1..Len(s) /\ DOMAIN Tail(s) = 1..(Len(s) - 1)
  BY <1>1, LenProperties
<1>3. ASSUME NEW i \in 1..Len(s) PROVE s[i] \in {Head(s)} \cup Range(Tail(s))
  <2>1. CASE i = 1
    BY <1>1, <2>1
  <2>2. CASE i # 1
    <3>1. i - 1 \in 1..(Len(s) - 1) /\ (i - 1) + 1 = i
      BY <1>1, <2>2
    <3>2. s[i] = Tail(s)[i - 1]
      BY <1>1, <3>1
    <3> QED
      BY <1>2, <3>1, <3>2 DEF Range
  <2> QED
    BY <2>1, <2>2
<1>4. ASSUME NEW i \in 1..(Len(s) - 1) PROVE Tail(s)[i] \in Range(s)
  <2>1. i + 1 \in 1..Len(s) /\ Tail(s)[i] = s[i + 1]
    BY <1>1
  <2> QED
    BY <1>2, <2>1 DEF Range
<1>5. s[1] \in Range(s)
  BY <1>1, <1>2 DEF Range
<1> QED
  BY <1>1, <1>2, <1>3, <1>4, <1>5 DEF Range

(* What the discovery says. *)
LEMMA DiscoveryFacts ==
  ASSUME LoadTypeOK, DiscoveryPasses
  PROVE  got[SymbolsKey] \in Scripts /\ ListedVenues \in SUBSET Venues
<1>1. got[SymbolsKey] \in Scripts
  BY KeysExist DEF LoadTypeOK, DiscoveryPasses, Usable
<1> QED
  BY <1>1, ScriptIsOne DEF ListedVenues

(* What the heads say. *)
LEMMA HeadsFacts ==
  ASSUME LoadTypeOK, DiscoveryPasses, HeadsPass,
         NEW v \in ListedVenues, NEW q \in Quantities
  PROVE  /\ v \in Venues
         /\ FamilyRead(v, q) \in Families
         /\ CountRead(v, q) = Arity(FamilyRead(v, q))
         /\ CountRead(v, q) \in Nat /\ 0..CountRead(v, q) \subseteq Positions
<1>1. v \in Venues
  BY DiscoveryFacts
<1>2. got[Family(v, q)] \in Scripts
  BY <1>1, KeysExist DEF LoadTypeOK, HeadsPass, Usable
<1>3. FamilyRead(v, q) \in Families
  BY <1>1, <1>2, ScriptIsOne DEF FamilyRead
<1>4. CountRead(v, q) = Arity(FamilyRead(v, q))
  BY DEF HeadsPass
<1> QED
  BY <1>1, <1>3, <1>4, ArityFacts

LEMMA KindsDiffer ==
  ASSUME NEW v, NEW q, NEW n
  PROVE  /\ Instrument(v) \notin DiscoveryKeys
         /\ Family(v, q) \notin DiscoveryKeys
         /\ ParamCount(v, q) \notin DiscoveryKeys
         /\ Param(v, q, n) \notin DiscoveryKeys
         /\ \A w, r : Param(v, q, n) \notin
                        {Instrument(w), Family(w, r), ParamCount(w, r)}
         /\ \A w, r : Instrument(v) \notin {Family(w, r), ParamCount(w, r)}
         /\ \A w, r : Family(v, q) # ParamCount(w, r)
<1>1. /\ \A k \in DiscoveryKeys :
           k[1] \in {"symbology", "calib:symbols", "calib:quantities"}
  BY KeyKinds DEF DiscoveryKeys
<1> QED
  BY <1>1, KeyKinds

(* A script's seeding, key by key. *)
LEMMA WholeFacts ==
  ASSUME NEW s \in Scripts
  PROVE  /\ \A k \in DiscoveryKeys : Whole[s][k] = s
         /\ \A v \in s.venues : Whole[s][Instrument(v)] = s
         /\ \A v \in s.venues, q \in Quantities :
              /\ Whole[s][Family(v, q)] = s
              /\ Whole[s][ParamCount(v, q)] = s
              /\ \A n \in 0..(Arity(FamilyOf(s, v, q)) - 1) :
                   Whole[s][Param(v, q, n)] = s
              /\ Whole[s][Param(v, q, Arity(FamilyOf(s, v, q)))] = Absent
<1>1. \A k \in Keys : Whole[s][k] = IF k \in WrittenBy(s) THEN s ELSE Absent
  BY LinesRange DEF Whole
<1>2. s.venues \in SUBSET Venues
  BY ScriptIsOne
<1>3. DiscoveryKeys \subseteq WrittenBy(s) /\ DiscoveryKeys \subseteq Keys
  BY KeysExist DEF WrittenBy, DiscoveryKeys
<1>4. ASSUME NEW v \in s.venues
      PROVE  Instrument(v) \in WrittenBy(s) /\ Instrument(v) \in Keys
  BY <1>2, KeysExist DEF WrittenBy
<1>5. ASSUME NEW v \in s.venues, NEW q \in Quantities
      PROVE  /\ Family(v, q) \in WrittenBy(s) /\ Family(v, q) \in Keys
             /\ ParamCount(v, q) \in WrittenBy(s) /\ ParamCount(v, q) \in Keys
  BY <1>2, KeysExist DEF WrittenBy
<1>6. ASSUME NEW v \in s.venues, NEW q \in Quantities
      PROVE  /\ Arity(FamilyOf(s, v, q)) \in Nat
             /\ 0..Arity(FamilyOf(s, v, q)) \subseteq Positions
  BY <1>2, ScriptIsOne, ArityFacts
<1>7. ASSUME NEW v \in s.venues, NEW q \in Quantities,
             NEW n \in 0..(Arity(FamilyOf(s, v, q)) - 1)
      PROVE  Param(v, q, n) \in WrittenBy(s) /\ Param(v, q, n) \in Keys
  <2>1. n \in Positions
    BY <1>6
  <2>2. Param(v, q, n) \in Keys
    BY <1>2, <2>1, KeysExist
  <2> QED
    BY <2>2 DEF WrittenBy
<1>8. ASSUME NEW v \in s.venues, NEW q \in Quantities
      PROVE  LET k == Param(v, q, Arity(FamilyOf(s, v, q)))
             IN k \notin WrittenBy(s) /\ k \in Keys
  <2> DEFINE n == Arity(FamilyOf(s, v, q))
  <2>1. n \in Nat /\ n \in Positions
    BY <1>6
  <2>2. Param(v, q, n) \in Keys
    BY <1>2, <2>1, KeysExist
  <2>3. ASSUME NEW w \in s.venues, NEW r \in Quantities,
               NEW m \in 0..(Arity(FamilyOf(s, w, r)) - 1),
               Param(v, q, n) = Param(w, r, m)
        PROVE  FALSE
    <3>1. v = w /\ q = r /\ n = m
      BY <2>3, KeysAreInjective
    <3> QED
      BY <2>1, <3>1
  <2>4. Param(v, q, n) \notin DiscoveryKeys
        /\ \A w, r : Param(v, q, n) \notin
                       {Instrument(w), Family(w, r), ParamCount(w, r)}
    BY KindsDiffer
  <2> HIDE DEF n
  <2>5. Param(v, q, n) \notin WrittenBy(s)
    BY <2>3, <2>4 DEF WrittenBy, DiscoveryKeys
  <2> QED
    BY <2>2, <2>5 DEF n
<1> QED
  BY <1>1, <1>3, <1>4, <1>5, <1>7, <1>8

(* What was read is one sound script's seeding, as far as it goes. *)
Agrees(s) ==
  /\ s.flaw.kind = "none"
  /\ \A k \in Keys : got[k] # NotRead => got[k] = Whole[s][k]

LEMMA SoundIsUsable ==
  ASSUME NEW s \in Scripts, Agrees(s), NEW k \in Keys, got[k] # NotRead,
         Whole[s][k] = s
  PROVE  got[k] = s /\ Usable(k)
BY ScriptsAssumption, NotReadAssumption DEF Agrees, Usable, Flawed

LEMMA SoundDiscovery ==
  ASSUME TripInv, phase = "discovering", toRead = <<>>,
         NEW s \in Scripts, Agrees(s)
  PROVE  DiscoveryPasses
<1>1. \A k \in DiscoveryKeys : got[k] = s /\ Usable(k)
  <2>1. \A k \in DiscoveryKeys : k \in Keys /\ got[k] # NotRead
    BY RangeOfShort, KeysExist DEF TripInv, Asked, DiscoveryKeys
  <2> QED
    BY <2>1, WholeFacts, SoundIsUsable
<1> QED
  BY <1>1 DEF DiscoveryPasses, DiscoveryKeys, ListedVenues

(* Past the discovery, the venues listed are the script's own. *)
LEMMA SoundVenues ==
  ASSUME TripInv, DiscoveryPasses, NEW s \in Scripts, Agrees(s)
  PROVE  ListedVenues = s.venues
<1>1. SymbolsKey \in Keys /\ got[SymbolsKey] # NotRead
  BY KeysExist DEF DiscoveryPasses, Usable
<1>2. Whole[s][SymbolsKey] = s
  BY WholeFacts DEF DiscoveryKeys
<1> QED
  BY <1>1, <1>2 DEF Agrees, ListedVenues

LEMMA SoundHeads ==
  ASSUME TripInv, phase = "heads", toRead = <<>>, NEW s \in Scripts, Agrees(s)
  PROVE  HeadsPass
<1>1. ListedVenues = s.venues /\ s.venues \subseteq Venues
  BY SoundVenues, ScriptIsOne DEF TripInv
<1>2. ASSUME NEW k \in Keys, HeadsAsked(k), Whole[s][k] = s
      PROVE  got[k] = s /\ Usable(k)
  <2>1. got[k] # NotRead
    BY <1>2, RangeOfShort DEF TripInv, Asked
  <2> QED
    BY <1>2, <2>1, SoundIsUsable
<1>3. ASSUME NEW v \in s.venues PROVE Usable(Instrument(v))
  <2>1. Instrument(v) \in Keys /\ HeadsAsked(Instrument(v))
    BY <1>1, KeysExist DEF HeadsAsked
  <2> QED
    BY <1>2, <2>1, WholeFacts
<1>4. ASSUME NEW v \in s.venues, NEW q \in Quantities
      PROVE  /\ Usable(Family(v, q)) /\ Usable(ParamCount(v, q))
             /\ CountRead(v, q) = Arity(FamilyRead(v, q))
  <2>1. /\ Family(v, q) \in Keys /\ ParamCount(v, q) \in Keys
        /\ HeadsAsked(Family(v, q)) /\ HeadsAsked(ParamCount(v, q))
    BY <1>1, KeysExist DEF HeadsAsked
  <2>2. /\ got[Family(v, q)] = s /\ Usable(Family(v, q))
        /\ got[ParamCount(v, q)] = s /\ Usable(ParamCount(v, q))
    BY <1>2, <2>1, WholeFacts
  <2> QED
    BY <2>2 DEF CountRead, FamilyRead
<1> QED
  BY <1>1, <1>3, <1>4 DEF HeadsPass

LEMMA SoundParams ==
  ASSUME TripInv, phase = "params", toRead = <<>>, NEW s \in Scripts, Agrees(s)
  PROVE  ParamsPass
<1>1. ListedVenues = s.venues /\ s.venues \subseteq Venues
  BY SoundVenues, ScriptIsOne DEF TripInv
<1>2. ASSUME NEW v \in ListedVenues, NEW q \in Quantities
      PROVE  /\ \A n \in 0..(CountRead(v, q) - 1) : ParamFits(v, q, n)
             /\ got[Param(v, q, CountRead(v, q))] = Absent
  <2> DEFINE f == FamilyOf(s, v, q)
  <2>1. /\ CountRead(v, q) \in Nat /\ 0..CountRead(v, q) \subseteq Positions
        /\ v \in Venues
    BY HeadsFacts DEF TripInv
  <2>2. got[Family(v, q)] = s /\ got[ParamCount(v, q)] = s
    <3>1. Usable(Family(v, q)) /\ Usable(ParamCount(v, q))
      BY DEF TripInv, HeadsPass
    <3> QED
      BY <1>1, <2>1, <3>1, KeysExist, WholeFacts DEF Agrees, Usable
  <2>3. FamilyRead(v, q) = f /\ CountRead(v, q) = Arity(f)
    BY <2>2 DEF FamilyRead, CountRead
  <2>4. ASSUME NEW n \in 0..CountRead(v, q)
        PROVE  Param(v, q, n) \in Keys /\ got[Param(v, q, n)] # NotRead
    <3>1. Param(v, q, n) \in Keys
      BY <2>1, KeysExist
    <3>2. Asked(Param(v, q, n))
      BY DEF Asked, ParamsAsked
    <3> QED
      BY <3>1, <3>2, RangeOfShort DEF TripInv
  <2>5. ASSUME NEW n \in 0..(CountRead(v, q) - 1) PROVE ParamFits(v, q, n)
    <3>1. n \in 0..CountRead(v, q) /\ Whole[s][Param(v, q, n)] = s
      BY <1>1, <2>1, <2>3, WholeFacts
    <3>2. got[Param(v, q, n)] = s /\ Usable(Param(v, q, n))
      BY <2>4, <3>1, SoundIsUsable
    <3> QED
      BY <2>3, <3>2 DEF ParamFits, NameRead
  <2>6. got[Param(v, q, CountRead(v, q))] = Absent
    <3>1. Whole[s][Param(v, q, CountRead(v, q))] = Absent
      BY <1>1, <2>3, WholeFacts
    <3>2. CountRead(v, q) \in 0..CountRead(v, q)
      BY <2>1
    <3> QED
      BY <2>4, <3>1, <3>2 DEF Agrees
  <2> QED
    BY <2>5, <2>6
<1> QED
  BY <1>2 DEF ParamsPass

-----------------------------------------------------------------------------
(* Every step keeps TripInv. *)

(* Reading one key changes nothing earlier trips read. *)
LEMMA ReadKeyKeepsTrips ==
  ASSUME TripInv, live \in [Keys -> Scripts \cup {Absent}], ReadKey
  PROVE  TripInv'
<1> DEFINE k == Head(toRead)
<1>1. /\ toRead \in Seq(Keys) /\ toRead # <<>> /\ phase \in Trips
      /\ got \in [Keys -> Scripts \cup {Absent, NotRead}]
  BY DEF ReadKey, TripInv, LoadTypeOK, Loading
<1>2. /\ Tail(toRead) \in Seq(Keys) /\ k \in Keys
      /\ Range(toRead) = {k} \cup Range(Tail(toRead))
  BY <1>1, HeadOrTail
<1>3. /\ toRead' = Tail(toRead) /\ phase' = phase
      /\ got' = [got EXCEPT ![k] = live[k]]
  BY DEF ReadKey
<1>4. Asked(k)
  BY <1>2 DEF TripInv
<1> HIDE DEF k
<1>5. /\ \A j \in Keys : j # k => got'[j] = got[j]
      /\ got'[k] \in Scripts \cup {Absent} /\ got'[k] # NotRead
  BY <1>1, <1>2, <1>3, NotReadAssumption
<1>6. LoadTypeOK'
  BY <1>1, <1>2, <1>3, <1>5 DEF TripInv, LoadTypeOK
<1>7. phase # "discovering" =>
        /\ k \notin DiscoveryKeys
        /\ ListedVenues' = ListedVenues /\ (DiscoveryPasses' <=> DiscoveryPasses)
  <2> SUFFICES ASSUME phase # "discovering"
               PROVE  /\ k \notin DiscoveryKeys
                      /\ ListedVenues' = ListedVenues
                      /\ (DiscoveryPasses' <=> DiscoveryPasses)
    OBVIOUS
  <2>1. k \notin DiscoveryKeys
    BY <1>4, KindsDiffer DEF Asked, HeadsAsked, ParamsAsked
  <2>2. \A j \in DiscoveryKeys : got'[j] = got[j]
    BY <1>5, <2>1, KeysExist DEF DiscoveryKeys
  <2> QED
    BY <2>1, <2>2 DEF DiscoveryKeys, ListedVenues, DiscoveryPasses, Usable
<1>8. phase \in {"discovering", "heads"} => \A v, q, n : k # Param(v, q, n)
  BY <1>4, KindsDiffer DEF Asked, HeadsAsked, ParamsAsked
<1>9. phase = "params" =>
        /\ \A v, q : k \notin {Instrument(v), Family(v, q), ParamCount(v, q)}
        /\ \A v \in ListedVenues, q \in Quantities :
             CountRead(v, q)' = CountRead(v, q)
        /\ HeadsPass'
  <2> SUFFICES ASSUME phase = "params"
               PROVE  /\ \A v, q :
                           k \notin {Instrument(v), Family(v, q), ParamCount(v, q)}
                      /\ \A v \in ListedVenues, q \in Quantities :
                           CountRead(v, q)' = CountRead(v, q)
                      /\ HeadsPass'
    OBVIOUS
  <2>1. \A v, q : k \notin {Instrument(v), Family(v, q), ParamCount(v, q)}
    BY <1>4, KindsDiffer DEF Asked, ParamsAsked
  <2>2. ListedVenues \subseteq Venues
    BY DiscoveryFacts DEF TripInv
  <2>3. \A v \in ListedVenues, q \in Quantities :
          /\ got'[Instrument(v)] = got[Instrument(v)]
          /\ got'[Family(v, q)] = got[Family(v, q)]
          /\ got'[ParamCount(v, q)] = got[ParamCount(v, q)]
    BY <1>5, <2>1, <2>2, KeysExist
  <2>4. \A v \in ListedVenues : got'[Instrument(v)] = got[Instrument(v)]
    BY <1>5, <2>1, <2>2, KeysExist
  <2>5. \A v \in ListedVenues, q \in Quantities :
          /\ CountRead(v, q)' = CountRead(v, q)
          /\ FamilyRead(v, q)' = FamilyRead(v, q)
    BY <2>3 DEF CountRead, FamilyRead
  <2>6. HeadsPass
    BY DEF TripInv
  <2>7. HeadsPass'
    BY <1>7, <2>3, <2>4, <2>5, <2>6 DEF HeadsPass, Usable
  <2> QED
    BY <2>1, <2>5, <2>7
<1>10. \A j \in Keys : Asked(j)' <=> Asked(j)
  BY <1>3, <1>7, <1>9 DEF Asked, HeadsAsked, ParamsAsked
<1>11. /\ \A j \in Range(toRead') : Asked(j)'
       /\ \A j \in Keys : Asked(j)' => got'[j] # NotRead \/ j \in Range(toRead')
  <2>1. Range(Tail(toRead)) \subseteq Keys
    BY <1>2 DEF Range
  <2>2. ASSUME NEW j \in Range(toRead') PROVE Asked(j)'
    BY <1>2, <1>3, <1>10, <2>1, <2>2 DEF TripInv
  <2>3. ASSUME NEW j \in Keys, Asked(j)'
        PROVE  got'[j] # NotRead \/ j \in Range(toRead')
    <3>1. got[j] # NotRead \/ j \in Range(toRead)
      BY <1>10, <2>3 DEF TripInv
    <3> QED
      BY <1>2, <1>3, <1>5, <3>1
  <2> QED
    BY <2>2, <2>3
<1>12. phase' \in {"heads", "params", "loaded"} => DiscoveryPasses'
  BY <1>3, <1>7 DEF TripInv
<1>13. phase' \in {"params", "loaded"} => HeadsPass' /\ NothingPastCounts'
  <2> SUFFICES ASSUME phase = "params" PROVE HeadsPass' /\ NothingPastCounts'
    BY <1>1, <1>3 DEF Trips
  <2>1. ListedVenues \subseteq Venues
    BY DiscoveryFacts DEF TripInv
  <2>2. ASSUME NEW v \in ListedVenues, NEW q \in Quantities, NEW n \in Positions,
               got'[Param(v, q, n)] # NotRead
        PROVE  n <= CountRead(v, q)
    <3>1. Param(v, q, n) \in Keys
      BY <2>1, KeysExist
    <3>2. CASE Param(v, q, n) = k
      <4>1. PICK w \in ListedVenues, r \in Quantities :
              \E m \in 0..CountRead(w, r) : k = Param(w, r, m)
        BY <1>4 DEF Asked, ParamsAsked
      <4>2. PICK m \in 0..CountRead(w, r) : k = Param(w, r, m)
        BY <4>1
      <4>3. v = w /\ q = r /\ n = m
        BY <3>2, <4>2, KeysAreInjective
      <4>4. CountRead(v, q) \in Nat
        BY HeadsFacts DEF TripInv
      <4> QED
        BY <4>2, <4>3, <4>4
    <3>3. CASE Param(v, q, n) # k
      BY <1>5, <2>2, <3>1, <3>3 DEF TripInv, NothingPastCounts
    <3> QED
      BY <3>2, <3>3
  <2> QED
    BY <1>7, <1>9, <2>2 DEF NothingPastCounts
<1>14. phase' \in {"discovering", "heads"} => NoParamRead'
  BY <1>3, <1>5, <1>8, KeysExist DEF TripInv, NoParamRead
<1>15. /\ (~Loading)' => toRead' = <<>>
       /\ phase' = "loaded" => ParamsPass'
       /\ NoFalseRefusal'
  BY <1>1, <1>3 DEF Trips, Loading, NoFalseRefusal
<1> QED
  BY <1>6, <1>11, <1>12, <1>13, <1>14, <1>15 DEF TripInv

LEMMA StartKeepsTrips ==
  ASSUME TripInv, StartLoad
  PROVE  TripInv'
<1>1. /\ phase' = "discovering" /\ got' = Unread
      /\ toRead' = <<SymbolsKey, QuantityKey, Symbology>>
  BY DEF StartLoad
<1>2. LoadTypeOK'
  <2>1. <<SymbolsKey, QuantityKey, Symbology>> \in Seq(Keys)
    BY KeysExist
  <2> QED
    BY <1>1, <2>1 DEF LoadTypeOK, Unread, Trips
<1>3. Range(toRead') = DiscoveryKeys
  BY <1>1, RangeOfShort DEF DiscoveryKeys
<1>4. \A k : Asked(k)' <=> k \in DiscoveryKeys
  BY <1>1 DEF Asked, DiscoveryKeys
<1>5. NoParamRead'
  BY <1>1, KeysExist DEF NoParamRead, Unread
<1> QED
  BY <1>1, <1>2, <1>3, <1>4, <1>5 DEF TripInv, Loading, Trips, NoFalseRefusal

(* A check that fails: what was read was not one sound seeding. *)
LEMMA RefusalKeepsTrips ==
  ASSUME TripInv, phase \in Trips, toRead = <<>>,
         phase' = "refused", UNCHANGED <<toRead, got>>,
         \A s \in Scripts : ~Agrees(s)
  PROVE  TripInv'
<1>1. LoadTypeOK'
  BY DEF TripInv, LoadTypeOK
<1>2. \A k : ~Asked(k)' 
  BY DEF Asked
<1>3. NoFalseRefusal'
  BY DEF NoFalseRefusal, Agrees
<1> QED
  BY <1>1, <1>2, <1>3, RangeOfShort DEF TripInv

LEMMA DiscoveredKeepsTrips ==
  ASSUME TripInv, Discovered
  PROVE  TripInv'
<1> DEFINE keys == ForEach(HeadKeys, Sorted(ListedVenues))
<1>1. /\ phase = "discovering" /\ toRead = <<>> /\ got' = got
      /\ IF DiscoveryPasses THEN phase' = "heads" /\ toRead' = keys
                            ELSE phase' = "refused" /\ toRead' = toRead
  BY DEF Discovered, Check
<1> HIDE DEF keys
<1>2. CASE ~DiscoveryPasses
  BY <1>1, <1>2, SoundDiscovery, RefusalKeepsTrips DEF Trips
<1>3. CASE DiscoveryPasses
  <2>1. ListedVenues \in SUBSET Venues
    BY <1>3, DiscoveryFacts DEF TripInv
  <2>2. keys \in Seq(Keys) /\ \A k : k \in Range(keys) <=> HeadsAsked(k)
    BY <2>1, HeadKeysRange DEF keys, HeadsAsked
  <2>3. LoadTypeOK'
    BY <1>1, <1>3, <2>2 DEF TripInv, LoadTypeOK, Trips
  <2>4. \A k : Asked(k)' <=> HeadsAsked(k)
    BY <1>1, <1>3 DEF Asked, HeadsAsked, ListedVenues
  <2>5. NoParamRead' /\ DiscoveryPasses'
    BY <1>1, <1>3 DEF TripInv, NoParamRead, DiscoveryPasses, Usable, ListedVenues
  <2> QED
    BY <1>1, <1>3, <2>2, <2>3, <2>4, <2>5
       DEF TripInv, Loading, Trips, NoFalseRefusal
<1> QED
  BY <1>2, <1>3

LEMMA HeadsReadKeepsTrips ==
  ASSUME TripInv, HeadsRead
  PROVE  TripInv'
<1> DEFINE keys == ForEach(FitKeys, Sorted(ListedVenues))
<1>1. /\ phase = "heads" /\ toRead = <<>> /\ got' = got
      /\ IF HeadsPass THEN phase' = "params" /\ toRead' = keys
                      ELSE phase' = "refused" /\ toRead' = toRead
  BY DEF HeadsRead, Check
<1> HIDE DEF keys
<1>2. CASE ~HeadsPass
  BY <1>1, <1>2, SoundHeads, RefusalKeepsTrips DEF Trips
<1>3. CASE HeadsPass
  <2>1. DiscoveryPasses /\ LoadTypeOK /\ ListedVenues \in SUBSET Venues
    BY <1>1, DiscoveryFacts DEF TripInv
  <2>2. \A v \in ListedVenues, q \in Quantities :
          CountRead(v, q) \in Nat /\ 0..CountRead(v, q) \subseteq Positions
    BY <1>3, <2>1, HeadsFacts
  <2>3. keys \in Seq(Keys) /\ \A k : k \in Range(keys) <=> ParamsAsked(k)
    BY <2>1, <2>2, FitKeysRange DEF keys, ParamsAsked
  <2>4. LoadTypeOK'
    BY <1>1, <1>3, <2>1, <2>3 DEF LoadTypeOK, Trips
  <2>5. \A k : Asked(k)' <=> ParamsAsked(k)
    BY <1>1, <1>3 DEF Asked, ParamsAsked, ListedVenues, CountRead
  <2>6. DiscoveryPasses' /\ HeadsPass'
    BY <1>1, <1>3, <2>1 DEF DiscoveryPasses, HeadsPass, Usable, ListedVenues,
                            CountRead, FamilyRead
  <2>7. NothingPastCounts'
    <3>1. NoParamRead
      BY <1>1 DEF TripInv
    <3> QED
      BY <1>1, <2>1, <3>1 DEF NothingPastCounts, NoParamRead, ListedVenues
  <2> QED
    BY <1>1, <1>3, <2>3, <2>4, <2>5, <2>6, <2>7
       DEF TripInv, Loading, Trips, NoFalseRefusal
<1> QED
  BY <1>2, <1>3

LEMMA ParamsReadKeepsTrips ==
  ASSUME TripInv, ParamsRead
  PROVE  TripInv'
<1>1. /\ phase = "params" /\ toRead = <<>> /\ got' = got /\ toRead' = <<>>
      /\ phase' = IF ParamsPass THEN "loaded" ELSE "refused"
  BY DEF ParamsRead, Check
<1>2. CASE ~ParamsPass
  BY <1>1, <1>2, SoundParams, RefusalKeepsTrips DEF Trips
<1>3. CASE ParamsPass
  <2>1. LoadTypeOK'
    BY <1>1, <1>3 DEF TripInv, LoadTypeOK
  <2>2. DiscoveryPasses' /\ HeadsPass' /\ NothingPastCounts' /\ ParamsPass'
    BY <1>1, <1>3 DEF TripInv, DiscoveryPasses, HeadsPass, NothingPastCounts,
       ParamsPass, ParamFits, NameRead, Usable, ListedVenues, CountRead,
       FamilyRead
  <2>3. \A k : ~Asked(k)'
    BY <1>1, <1>3 DEF Asked
  <2> QED
    BY <1>1, <1>3, <2>1, <2>2, <2>3, RangeOfShort
       DEF TripInv, NoFalseRefusal
<1> QED
  BY <1>2, <1>3

LEMMA LoseRedisKeepsTrips ==
  ASSUME TripInv, LoseRedis
  PROVE  TripInv'
<1>1. phase' = "lost" /\ toRead' = <<>> /\ got' = got
  BY DEF LoseRedis
<1>2. LoadTypeOK'
  BY <1>1 DEF TripInv, LoadTypeOK
<1>3. \A k : ~Asked(k)'
  BY <1>1 DEF Asked
<1> QED
  BY <1>1, <1>2, <1>3, RangeOfShort DEF TripInv, NoFalseRefusal

(* The seeder does not touch the load. *)
LEMMA TripsUnchanged ==
  ASSUME TripInv, UNCHANGED loadVars
  PROVE  TripInv'
BY DEF loadVars, TripInv, LoadTypeOK, Loading, Asked, HeadsAsked, ParamsAsked,
       DiscoveryPasses, HeadsPass, NothingPastCounts, NoParamRead, ParamsPass,
       ParamFits, NameRead, Usable, ListedVenues, CountRead, FamilyRead,
       NoFalseRefusal

(* What a load returns is checked through and through. *)
LEMMA LoadedFacts ==
  ASSUME TripInv
  PROVE  LoadedIsDrawable
<1> SUFFICES ASSUME phase = "loaded", NEW v \in ListedVenues, NEW q \in Quantities
             PROVE  LET f == FamilyRead(v, q)
                        stored == {n \in Positions : got[Param(v, q, n)] \in Scripts}
                    IN /\ stored = 0..(Arity(f) - 1)
                       /\ \A n \in stored :
                            /\ NameRead(v, q, n) = ParameterNames[f][n + 1]
                            /\ Usable(Param(v, q, n))
  BY DEF LoadedIsDrawable, ListedVenues
<1> DEFINE f == FamilyRead(v, q)
           stored == {n \in Positions : got[Param(v, q, n)] \in Scripts}
<1>1. /\ v \in Venues /\ CountRead(v, q) = Arity(f)
      /\ CountRead(v, q) \in Nat /\ 0..CountRead(v, q) \subseteq Positions
  BY HeadsFacts DEF TripInv
<1>2. /\ \A n \in 0..(CountRead(v, q) - 1) : ParamFits(v, q, n)
      /\ got[Param(v, q, CountRead(v, q))] = Absent
  BY DEF TripInv, ParamsPass
<1>3. ASSUME NEW n \in 0..(Arity(f) - 1)
      PROVE  /\ n \in stored /\ Usable(Param(v, q, n))
             /\ NameRead(v, q, n) = ParameterNames[f][n + 1]
  <2>1. n \in Positions /\ n \in 0..(CountRead(v, q) - 1)
    BY <1>1
  <2>2. Param(v, q, n) \in Keys
    BY <1>1, <2>1, KeysExist
  <2>3. /\ Usable(Param(v, q, n))
        /\ NameRead(v, q, n) = ParameterNames[f][n + 1]
    BY <1>2, <2>1 DEF ParamFits
  <2>4. got[Param(v, q, n)] \in Scripts
    BY <2>2, <2>3 DEF TripInv, LoadTypeOK, Usable
  <2> QED
    BY <2>1, <2>3, <2>4
<1>4. ASSUME NEW n \in stored PROVE n \in 0..(Arity(f) - 1)
  <2>1. n \in Positions /\ got[Param(v, q, n)] \in Scripts
    OBVIOUS
  <2>2. n <= CountRead(v, q)
    BY <2>1, NotReadAssumption DEF TripInv, NothingPastCounts
  <2>3. n # CountRead(v, q)
    BY <1>2, <2>1, ScriptsAssumption
  <2>4. n \in Nat
    BY <2>1 DEF Positions
  <2> HIDE DEF f
  <2> QED
    BY <1>1, <2>2, <2>3, <2>4
<1> QED
  BY <1>3, <1>4

-----------------------------------------------------------------------------
(* The theorems.                                                           *)

Inv == SeederInv /\ LoadInv /\ TripInv /\ overlapped \in BOOLEAN

LEMMA InvInitially == ASSUME Init PROVE Inv
<1>1. SeederTypeOK
  <2>1. Empty \in [Keys -> Scripts \cup {Absent}]
    BY DEF Empty
  <2>2. todo \in Seq(Commands)
    BY DEF Init, SeederInit
  <2>3. seeds \in 0..MaxSeeds /\ outages \in 0..MaxOutages
    BY SeederAssumption DEF Init, SeederInit
  <2>4. /\ live = Empty /\ step = "idle" /\ script = NoScript
        /\ txn = "none" /\ queued = {} /\ marked = FALSE
        /\ reachable = TRUE /\ disturbed = FALSE
    BY DEF Init, SeederInit, NothingSent
  <2> QED
    BY <2>1, <2>2, <2>3, <2>4 DEF SeederTypeOK, Ended
<1>2. SeederInv
  BY <1>1 DEF Init, SeederInit, SeederInv, Undisturbed, LiveIsWhole
<1>3. LoadInv
  BY DEF Init, LoadInit, LoadInv, Loading, Trips, Unread,
         LoadedAloneIsOneSeeding, LoadedIsOneSeeding
<1>4. TripInv
  <2>1. phase = "idle" /\ toRead = <<>> /\ got = Unread
    BY DEF Init, LoadInit
  <2>2. LoadTypeOK
    BY <2>1 DEF LoadTypeOK, Unread
  <2>3. \A k : ~Asked(k)
    BY <2>1 DEF Asked
  <2> QED
    BY <2>1, <2>2, <2>3, RangeOfShort DEF TripInv, NoFalseRefusal
<1> QED
  BY <1>2, <1>3, <1>4 DEF Inv, Init

LEMMA LoadStepKeepsTrips ==
  ASSUME SeederTypeOK, TripInv, LoadStep
  PROVE  TripInv'
<1>1. live \in [Keys -> Scripts \cup {Absent}]
  BY DEF SeederTypeOK
<1> QED
  BY <1>1, StartKeepsTrips, ReadKeyKeepsTrips, DiscoveredKeepsTrips,
     HeadsReadKeepsTrips, ParamsReadKeepsTrips, LoseRedisKeepsTrips
     DEF LoadStep, LoadNext

LEMMA InvKept == ASSUME Inv, [Next]_vars PROVE Inv'
<1>1. CASE SeederStep
  BY <1>1, SeederInvKept, SeederStepKeepsLoadInv, TripsUnchanged
     DEF Inv, SeederStep
<1>2. ASSUME UNCHANGED <<live, seederVars>> PROVE SeederInv'
  BY <1>2 DEF Inv, SeederInv, SeederTypeOK, Undisturbed, Progress, NothingSent,
              SentSoFar, Refused, Sent, LiveIsWhole, seederVars, run
<1>3. CASE LoadStep
  <2>1. UNCHANGED <<live, seederVars>>
    BY <1>3 DEF LoadStep, LoadNext, StartLoad, ReadKey, Discovered, HeadsRead,
                ParamsRead, LoseRedis, Check
  <2>2. TripInv'
    BY <1>3, LoadStepKeepsTrips DEF Inv, SeederInv
  <2>3. overlapped' \in BOOLEAN
    BY <1>3 DEF LoadStep, Inv, Seeding
  <2> QED
    BY <1>2, <1>3, <2>1, <2>2, <2>3, LoadStepKeepsLoadInv DEF Inv
<1>4. CASE UNCHANGED vars
  <2>1. TripInv'
    BY <1>4, TripsUnchanged DEF Inv, vars
  <2>2. LoadInv'
    BY <1>4 DEF Inv, LoadInv, vars, seederVars, loadVars, Loading, Seeding,
       Alone, LoadedAloneIsOneSeeding, LoadedIsOneSeeding
  <2> QED
    BY <1>2, <1>4, <2>1, <2>2 DEF Inv, vars
<1> QED
  BY <1>1, <1>3, <1>4 DEF Next

LEMMA Invariance == Spec => []Inv
<1>1. Init => Inv
  BY InvInitially
<1>2. Inv /\ [Next]_vars => Inv'
  BY InvKept
<1> QED
  BY <1>1, <1>2, PTL DEF Spec

(* The live database is never a part of a seeding, nor a mix of two, nor   *)
(* the seeding of a script that does not run (seed.sh: MULTI/EXEC after a  *)
(* dry run), wherever the seeder is killed and however often it is run.    *)
THEOREM LiveDatabaseIsWhole ==
  Spec => []LiveIsWhole
<1>1. Inv => LiveIsWhole
  BY DEF Inv, SeederInv
<1> QED
  BY <1>1, Invariance, PTL

SeedsAtOnce ==
  ~disturbed' =>
    UNCHANGED live \/ \E s \in Scripts : Runnable(s) /\ live' = Whole[s]

(* The live database changes in one step, from whatever lost connections   *)
(* left in it before to all of one script that runs: of a run that keeps   *)
(* its connection no reader sees the delete without the writes, nor the    *)
(* first writes without the last (calibration.redis: "a reader sees either *)
(* the previous seeding or this one").                                     *)
THEOREM RunsSeedAtOnce == Spec => [][SeedsAtOnce]_vars
<1>1. Inv /\ [Next]_vars => [SeedsAtOnce]_vars
  <2> SUFFICES ASSUME Inv, Next, ~disturbed'
               PROVE  \/ UNCHANGED live
                      \/ \E s \in Scripts : Runnable(s) /\ live' = Whole[s]
    BY DEF SeedsAtOnce
  <2>1. CASE LoadStep
    BY <2>1 DEF LoadStep, LoadNext, StartLoad, ReadKey, Discovered, HeadsRead,
                ParamsRead, Check, LoseRedis
  <2>2. CASE Send
    BY <2>2, SendKeeps DEF Send, Inv
  <2>3. CASE \E s \in Scripts : StartSeeder(s)
    BY <2>3 DEF StartSeeder
  <2>4. CASE PingAnswered \/ PingUnanswered \/ Undelivered \/ DryRunDone
    BY <2>4 DEF PingAnswered, PingUnanswered, Undelivered, DryRunDone
  <2>5. CASE FlushScratch \/ LiveRunDone \/ KillSeeder \/ Reconnect
    BY <2>5 DEF FlushScratch, LiveRunDone, KillSeeder, Reconnect
  <2>6. CASE LoseConnection \/ LoseExecReply
    BY <2>6 DEF LoseConnection, LoseExecReply
  <2> QED
    BY <2>1, <2>2, <2>3, <2>4, <2>5, <2>6 DEF Next, SeederStep, SeederNext
<1> QED
  BY <1>1, Invariance, PTL DEF Spec

(* A seeder that exits 0 and did not lose its connection has seeded its    *)
(* script, whatever earlier runs left in the database.                     *)
THEOREM SeederRepairs ==
  Spec => []UndisturbedSeedIsWhole
<1>1. Inv => UndisturbedSeedIsWhole
  BY DEF Inv, SeederInv, Undisturbed, UndisturbedSeedIsWhole,
         ExitZeroMeansSeeded
<1> QED
  BY <1>1, Invariance, PTL

(* What load returns is one script's seeding if no seeder ran beside it    *)
(* and no connection was lost, in whatever order it reads its keys.        *)
THEOREM LoadAloneReadsOneSeeding ==
  Spec => []LoadedAloneIsOneSeeding
<1>1. Inv => LoadedAloneIsOneSeeding
  BY DEF Inv, LoadInv
<1> QED
  BY <1>1, Invariance, PTL

(* The seeder's and the load's variables keep their types: every key a     *)
(* script writes and every key the load asks for is one of the keyspace.   *)
THEOREM StackTypes ==
  Spec => []TypeOK
<1>1. Inv => TypeOK
  BY DEF Inv, SeederInv, TripInv, TypeOK
<1> QED
  BY <1>1, Invariance, PTL

(* Whatever seeders ran beside it and whatever connections were lost, what *)
(* load returns has each family with just its parameters, by their names:  *)
(* the checks of the three trips together, over a store that changes.      *)
THEOREM LoadedCanBeDrawn ==
  Spec => []LoadedIsDrawable
<1>1. Inv => LoadedIsDrawable
  BY LoadedFacts DEF Inv
<1> QED
  BY <1>1, Invariance, PTL

(* load refuses nothing that is one sound script's seeding, as far as it   *)
(* was read: each trip asks for every key its check looks at.              *)
THEOREM NothingSoundIsRefused ==
  Spec => []NoFalseRefusal
<1>1. Inv => NoFalseRefusal
  BY DEF Inv, TripInv
<1> QED
  BY <1>1, Invariance, PTL

-----------------------------------------------------------------------------
(* The refinement of SeededStore.                                          *)

(* What the running script may send. *)
Own == {Multi, Delete, Exec} \cup Range(Lines[script])

(* Connection or not, a piped run sends and queues nothing but its own     *)
(* script's commands: what it damages, it damages under its own keys.      *)
SendsOwn ==
  step \in {"dry", "live"} => todo \in Seq(Own) /\ queued \subseteq Own

LEMMA PipelineIsOwn ==
  ASSUME script \in Scripts
  PROVE  Pipeline(script) \in Seq(Own)
<1>1. Lines[script] \in Seq(Keys)
  BY LinesRange
<1>2. Lines[script] \in Seq(Own)
  <2>1. \A i \in 1..Len(Lines[script]) : Lines[script][i] \in Own
    BY <1>1 DEF Own, Range
  <2> QED
    BY <1>1, <2>1
<1>3. <<Multi, Delete>> \in Seq(Own) /\ <<Exec>> \in Seq(Own)
  BY DEF Own
<1> QED
  BY <1>2, <1>3 DEF Pipeline

LEMMA SendsOwnKept ==
  ASSUME SeederInv, SendsOwn, SeederNext
  PROVE  SendsOwn'
<1>1. step # "idle" => script \in Scripts
  BY DEF SeederInv
<1>2. ASSUME NEW where, Pipe(where), script' = script, script \in Scripts
      PROVE  SendsOwn'
  <2>1. todo' = Pipeline(script) /\ queued' = {} /\ Own' = Own
    BY <1>2 DEF Pipe, Pipeline, Own
  <2> QED
    BY <1>2, <2>1, PipelineIsOwn DEF SendsOwn
<1>3. ASSUME script' = script, UNCHANGED step, todo' = todo \/ Sending,
             queued' \subseteq queued \/ (todo # <<>> /\ queued' \subseteq queued \cup {Head(todo)})
      PROVE  SendsOwn'
  <2>1. Own' = Own
    BY <1>3 DEF Own
  <2>2. CASE step \in {"dry", "live"}
    <3>1. todo \in Seq(Own) /\ queued \subseteq Own
      BY <2>2 DEF SendsOwn
    <3>2. todo' \in Seq(Own) /\ (todo # <<>> => Head(todo) \in Own)
      BY <1>3, <3>1 DEF Sending
    <3> QED
      BY <1>3, <2>1, <3>1, <3>2 DEF SendsOwn
  <2> QED
    BY <1>3, <2>2 DEF SendsOwn
<1>4. ASSUME NEW s \in Scripts, StartSeeder(s) PROVE SendsOwn'
  BY <1>4 DEF StartSeeder, SendsOwn
<1>5. CASE PingAnswered
  BY <1>1, <1>2, <1>5 DEF PingAnswered
<1>6. CASE PingUnanswered \/ DryRunDone \/ LiveRunDone \/ KillSeeder
  BY <1>6 DEF PingUnanswered, DryRunDone, LiveRunDone, KillSeeder, SendsOwn
<1>7. CASE Send
  BY <1>3, <1>7 DEF Send, Receives, Sending
<1>8. CASE Undelivered
  BY <1>3, <1>8 DEF Undelivered
<1>9. CASE FlushScratch
  BY <1>1, <1>2, <1>9 DEF FlushScratch, SendsOwn
<1>10. CASE LoseConnection \/ LoseExecReply \/ Reconnect
  BY <1>3, <1>10 DEF LoseConnection, LoseExecReply, Reconnect, run
<1> QED
  BY <1>4, <1>5, <1>6, <1>7, <1>8, <1>9, <1>10 DEF SeederNext

(* Commands of the script leave a key alone, delete it or write what the   *)
(* whole script writes.                                                    *)
LEMMA OwnDamage ==
  ASSUME SeederTypeOK, script \in Scripts,
         NEW cs \in SUBSET Own, Apply(cs)
  PROVE  /\ live' = [k \in Keys |-> live'[k]]
         /\ \A k \in Keys : live'[k] \in {live[k], Absent, Whole[script][k]}
<1>1. live = [k \in Keys |-> live[k]]
  BY DEF SeederTypeOK
<1>2. ASSUME NEW k \in Keys, k \in cs PROVE Whole[script][k] = script
  <2>1. k \in Range(Lines[script])
    BY <1>2, CommandsDiffer DEF Own
  <2> QED
    BY <2>1 DEF Whole
<1>3. \A k \in Keys : Executed(cs)[k] \in {live[k], Absent, Whole[script][k]}
  BY <1>2 DEF Executed
<1>4. Executed(cs) = [k \in Keys |-> Executed(cs)[k]]
  BY DEF Executed
<1> QED
  BY <1>1, <1>3, <1>4 DEF Apply

(* A line sent over a connection that was lost before, and an EXEC sent    *)
(* twice.                                                                  *)
LEMMA SendDamages ==
  ASSUME SeederInv, SendsOwn, Send
  PROVE  /\ live' = [k \in Keys |-> live'[k]]
         /\ \A k \in Keys : live'[k] \in {live[k], Absent, Whole[script][k]}
<1>1. /\ script \in Scripts /\ SeederTypeOK
      /\ queued \subseteq Own /\ {Head(todo)} \subseteq Own
  BY DEF SeederInv, SendsOwn, Send, Sending
<1>2. live = [k \in Keys |-> live[k]]
  BY <1>1 DEF SeederTypeOK
<1>3. live' = live \/ Apply(queued) \/ Apply({Head(todo)})
  BY DEF Send, Receives
<1> QED
  BY <1>1, <1>2, <1>3, OwnDamage

LEMMA SeederImplementsStore ==
  ASSUME SeederInv, SendsOwn, SeederNext
  PROVE  Store!Next \/ UNCHANGED Store!store
<1> USE DEF Outcome, Ended
<1>1. /\ SeederTypeOK /\ live = [k \in Keys |-> live[k]]
      /\ step # "idle" => script \in Scripts
      /\ ~disturbed => Undisturbed
  BY DEF SeederInv, SeederTypeOK
<1>2. ASSUME NEW s \in Scripts, StartSeeder(s) PROVE Store!Begin(s)
  BY <1>2 DEF StartSeeder, Store!Begin
<1>3. CASE PingAnswered
  <2>1. todo' # <<>> /\ step = "pinging" /\ step' = "dry"
    BY <1>1, <1>3, PipeKeeps DEF PingAnswered, Pipe
  <2> QED
    BY <1>3, <2>1 DEF PingAnswered, Store!store
<1>4. CASE PingUnanswered
  BY <1>4 DEF PingUnanswered, Store!Fail, Store!Next
<1>5. CASE Send
  <2>1. /\ step \in {"dry", "live"} /\ todo # <<>>
        /\ UNCHANGED <<step, script, disturbed>>
    BY <1>5 DEF Send, Sending
  <2>2. Outcome = "running" /\ Outcome' \in {"running", "applied"}
    BY <2>1
  <2>3. CASE disturbed
    <3>1. disturbed = TRUE
      BY <1>1, <2>3 DEF SeederTypeOK
    <3> QED
      BY <1>5, <2>1, <2>2, <3>1, SendDamages DEF Store!Damage, Store!Next
  <2>4. CASE ~disturbed /\ step = "dry"
    <3>1. live' = live
      BY <1>5, <2>4 DEF Send, Receives, Apply
    <3> QED
      BY <2>1, <2>4, <3>1 DEF Store!store
  <2>5. CASE ~disturbed /\ step = "live"
    <3>1. script \in {s \in Scripts : Runnable(s)} /\ Undisturbed'
      BY <1>1, <1>5, <2>5, SendKeeps DEF Undisturbed
    <3>2. CASE todo' = <<>>
      <4>1. live' = Whole[script]
        BY <2>1, <2>5, <3>1, <3>2 DEF Undisturbed
      <4> QED
        BY <2>1, <2>2, <2>5, <3>1, <3>2, <4>1 DEF Store!Seed, Store!Next
    <3>3. CASE todo' # <<>>
      <4>1. live' = live
        BY <1>1, <1>5, <2>5, <3>1, <3>3, SendHolds
      <4> QED
        BY <2>1, <2>5, <3>3, <4>1 DEF Store!store
    <3> QED
      BY <3>2, <3>3
  <2> QED
    BY <2>1, <2>3, <2>4, <2>5
<1>6. CASE Undelivered
  <2>1. /\ step \in {"dry", "live"} /\ todo # <<>>
        /\ UNCHANGED <<live, step, script, disturbed>>
    BY <1>6 DEF Undelivered, Sending
  <2>2. disturbed = TRUE
    BY <1>1, <1>6 DEF Undelivered, Undisturbed, SeederTypeOK
  <2>3. Outcome = "running" /\ Outcome' \in {"running", "applied"}
    BY <2>1
  <2> QED
    BY <1>1, <2>1, <2>2, <2>3 DEF Store!Damage, Store!Next
<1>7. CASE DryRunDone
  BY <1>7 DEF DryRunDone, Store!store
<1>8. CASE FlushScratch
  <2>1. CASE marked \/ ~reachable
    BY <1>8, <2>1 DEF FlushScratch, Store!Fail, Store!Next
  <2>2. CASE ~(marked \/ ~reachable)
    <3>1. todo' # <<>> /\ step = "flushing" /\ step' = "live"
      BY <1>1, <1>8, <2>2, PipeKeeps DEF FlushScratch, Pipe
    <3> QED
      BY <1>8, <3>1 DEF FlushScratch, Store!store
  <2> QED
    BY <2>1, <2>2
<1>9. CASE LiveRunDone
  <2>1. /\ step = "live" /\ todo = <<>> /\ UNCHANGED <<live, script, disturbed>>
        /\ step' = IF marked THEN "failed" ELSE "seeded"
    BY <1>9 DEF LiveRunDone
  <2>2. marked => disturbed
    BY <1>1, <2>1 DEF Undisturbed, Progress
  <2> QED
    BY <2>1, <2>2 DEF Store!Succeed, Store!Fail, Store!Next
<1>10. CASE KillSeeder
  BY <1>10 DEF KillSeeder, Store!Stop, Store!Next
<1>11. CASE LoseConnection
  BY <1>11 DEF LoseConnection, Store!Lose, Store!Next
<1>12. CASE LoseExecReply
  <2>1. /\ step \in {"dry", "live"} /\ todo # <<>> /\ Apply(queued)
        /\ UNCHANGED <<step, script, todo>> /\ disturbed' = TRUE
    BY <1>12 DEF LoseExecReply
  <2>2. queued \in SUBSET Own /\ script \in Scripts
    BY <1>1, <2>1 DEF SendsOwn
  <2> QED
    BY <1>1, <2>1, <2>2, OwnDamage DEF Store!Damage, Store!Next
<1>13. CASE Reconnect
  BY <1>13 DEF Reconnect, run, Store!store
<1> QED
  BY <1>2, <1>3, <1>4, <1>5, <1>6, <1>7, <1>8, <1>9, <1>10, <1>11, <1>12,
     <1>13 DEF SeederNext, Store!Next

(* The seeder and the store, for every script, keyspace, number of runs    *)
(* and of lost connections: each step of seed.sh, of redis-cli and of      *)
(* Redis is one step of SeededStore or none.                               *)
THEOREM SeederImplementsSeededStore == Spec => ImplementsSeededStore
<1>1. Init => Store!Init /\ SendsOwn
  BY DEF Init, SeederInit, Store!Init, Outcome, Empty, SendsOwn
<1>2. SeederInv /\ SendsOwn /\ [Next]_vars
        => SendsOwn' /\ [Store!Next]_Store!store
  <2> SUFFICES ASSUME SeederInv, SendsOwn, [Next]_vars
               PROVE  SendsOwn' /\ (Store!Next \/ UNCHANGED Store!store)
    OBVIOUS
  <2>1. CASE SeederStep
    BY <2>1, SendsOwnKept, SeederImplementsStore DEF SeederStep
  <2>2. CASE LoadStep \/ UNCHANGED vars
    <3>1. UNCHANGED <<live, step, script, todo, queued, disturbed>>
      BY <2>2 DEF LoadStep, LoadNext, StartLoad, ReadKey, Discovered, HeadsRead,
                  ParamsRead, LoseRedis, Check, vars, seederVars, run
    <3> QED
      BY <3>1 DEF SendsOwn, Own, Store!store, Outcome
  <2> QED
    BY <2>1, <2>2 DEF Next
<1>3. Inv => SeederInv
  BY DEF Inv
<1> QED
  BY <1>1, <1>2, <1>3, Invariance, PTL DEF Spec, ImplementsSeededStore, Store!Spec

(* Of such a store a reader may take success at its word, whatever earlier *)
(* runs left in it.                                                        *)
THEOREM SuccessIsTheWholeScript == Store!Spec => []Store!SuccessIsWhole
<1>1. Store!Init => Store!SuccessIsWhole
  BY DEF Store!Init, Store!SuccessIsWhole
<1>2. Store!SuccessIsWhole /\ [Store!Next]_Store!store => Store!SuccessIsWhole'
  BY DEF Store!SuccessIsWhole, Store!Next, Store!store, Store!Begin, Store!Seed,
         Store!Lose, Store!Damage, Store!Succeed, Store!Fail, Store!Stop
<1> QED
  BY <1>1, <1>2, PTL DEF Store!Spec
=============================================================================
