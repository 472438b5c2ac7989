--------------------------- MODULE PipelineProofs ---------------------------
(* Proofs about Pipeline: what a command reads is what was written for it,  *)
(* for every net, and nothing stays in a plan.  The invariant says who owns *)
(* memory of which plan at which point of a call, that the use counts are   *)
(* the reads that are left, that the plan of a group keeps every tensor     *)
(* apart from what is written while it is needed, and that what is fixed or *)
(* not computed again was made for the lengths it gets.                     *)
EXTENDS Pipeline, FiniteSetTheorems, WellFoundedInduction, NaturalsInduction, TLAPS

-----------------------------------------------------------------------------
(* The net, for any session m.                                             *)

OpsOf(m) == DOMAIN m.net
InputsOf(m) == {t \in UNION {ToSet(m.net[i].in) : i \in OpsOf(m)} : t < 0}
TensorsOf(m) == InputsOf(m) \union OpsOf(m)
ReadsOf(m, t, i) == Cardinality({k \in DOMAIN m.net[i].in : m.net[i].in[k] = t})
Reader(m, t, i) == t \in ToSet(m.net[i].in)
Output(m, t) == t > 0 /\ m.net[t].output
Static(m, t) == Output(m, t) /\ m.mOutputStatic

\* Command k, a later one or the user still reads t.
Needed(m, t, k) == Output(m, t) \/ \E j \in OpsOf(m) : j >= k /\ Reader(m, t, j)

\* A pass over the commands before n has come across t.
Reached(m, t, n) == IF t > 0 THEN t < n ELSE \E j \in OpsOf(m) : j < n /\ Reader(m, t, j)

\* What ModelsAssumption says, as the proofs use it.
LEMMA NetFacts ==
    ASSUME NEW m \in Models
    PROVE  /\ m.net \in Seq([in : Seq(Int), follows : BOOLEAN, output : BOOLEAN])
           /\ Len(m.net) \in Nat /\ OpsOf(m) = 1 .. Len(m.net)
           /\ m.mAllocInput \in BOOLEAN /\ m.mOutputStatic \in BOOLEAN
           /\ \A t \in TensorsOf(m) : t \in Int /\ t # 0 /\ (t < 0 <=> t \in InputsOf(m))
                                      /\ (t > 0 <=> t \in OpsOf(m))
           /\ \A i \in OpsOf(m) : /\ i \in Nat /\ i > 0 /\ i <= Len(m.net)
                                  /\ m.net[i].in \in Seq(Int) /\ m.net[i].in # << >>
                                  /\ m.net[i].output \in BOOLEAN /\ m.net[i].follows \in BOOLEAN
           /\ \A t : \A i \in OpsOf(m) : Reader(m, t, i) => t \in TensorsOf(m) /\ t < i
           /\ \A t \in InputsOf(m) : \E i \in OpsOf(m) : Reader(m, t, i)
<1>1. /\ m.net \in Seq([in : Seq(Int), follows : BOOLEAN, output : BOOLEAN])
      /\ m.mAllocInput \in BOOLEAN /\ m.mOutputStatic \in BOOLEAN
      /\ \A i \in DOMAIN m.net : /\ m.net[i].in # << >>
                                 /\ \A t \in ToSet(m.net[i].in) : t < i /\ t # 0
  BY ModelsAssumption
<1>2. Len(m.net) \in Nat /\ OpsOf(m) = 1 .. Len(m.net)
  BY <1>1 DEF OpsOf
<1>3. ASSUME NEW i \in OpsOf(m)
      PROVE  /\ i \in Nat /\ i > 0 /\ i <= Len(m.net)
             /\ m.net[i].in \in Seq(Int) /\ m.net[i].in # << >>
             /\ m.net[i].output \in BOOLEAN /\ m.net[i].follows \in BOOLEAN
  <2>1. m.net[i] \in [in : Seq(Int), follows : BOOLEAN, output : BOOLEAN]
    <3> DEFINE R == [in : Seq(Int), follows : BOOLEAN, output : BOOLEAN]
    <3>1. m.net \in Seq(R)
      BY <1>1
    <3> HIDE DEF R
    <3>2. \A q \in Seq(R) : \A j \in 1 .. Len(q) : q[j] \in R
      OBVIOUS
    <3>3. m.net[i] \in R
      BY <1>2, <3>1, <3>2
    <3> QED
      BY <3>3 DEF R
  <2> QED
    BY <1>1, <1>2, <2>1 DEF OpsOf
<1>4. ASSUME NEW i \in OpsOf(m), NEW t, Reader(m, t, i) PROVE t \in Int /\ t # 0 /\ t < i
  <2>1. PICK k \in DOMAIN m.net[i].in : t = m.net[i].in[k]
    BY <1>4 DEF Reader, ToSet
  <2>2. t \in Int
    BY <1>3, <2>1
  <2> QED
    BY <1>1, <1>4, <2>2 DEF Reader, OpsOf
<1>5. \A t \in InputsOf(m) : \E i \in OpsOf(m) : Reader(m, t, i)
  BY DEF InputsOf, Reader
<1>6. \A t \in TensorsOf(m) : t \in Int /\ t # 0 /\ (t < 0 <=> t \in InputsOf(m))
                                      /\ (t > 0 <=> t \in OpsOf(m))
  <2>1. \A t \in InputsOf(m) : t < 0 /\ t \in Int
    BY <1>4, <1>5 DEF InputsOf
  <2>2. \A t \in OpsOf(m) : t > 0 /\ t \in Int
    BY <1>3
  <2>3. \A t \in TensorsOf(m) : t \in InputsOf(m) \/ t \in OpsOf(m)
    BY DEF TensorsOf
  <2> QED
    BY <2>1, <2>2, <2>3
<1>7. \A t : \A i \in OpsOf(m) : Reader(m, t, i) => t \in TensorsOf(m) /\ t < i
  <2>1. SUFFICES ASSUME NEW i \in OpsOf(m), NEW t, Reader(m, t, i)
                 PROVE  t \in TensorsOf(m) /\ t < i
    OBVIOUS
  <2>2. t \in Int /\ t # 0 /\ t < i
    BY <1>4, <2>1
  <2>3. CASE t < 0
    BY <2>1, <2>2, <2>3 DEF TensorsOf, InputsOf, Reader
  <2>4. CASE t > 0
    BY <1>2, <1>3, <2>2, <2>4 DEF TensorsOf
  <2> QED
    BY <2>2, <2>3, <2>4
<1> QED
  BY <1>1, <1>2, <1>3, <1>5, <1>6, <1>7

\* How often t is read.
LEMMA ReadsFacts ==
    ASSUME NEW m \in Models, NEW i \in OpsOf(m), NEW t
    PROVE  ReadsOf(m, t, i) \in Nat /\ (ReadsOf(m, t, i) > 0 <=> Reader(m, t, i))
<1> DEFINE K == {k \in DOMAIN m.net[i].in : m.net[i].in[k] = t}
<1>1. m.net[i].in \in Seq(Int)
  BY NetFacts
<1>2. DOMAIN m.net[i].in = 1 .. Len(m.net[i].in) /\ Len(m.net[i].in) \in Nat
  BY <1>1
<1>3. IsFiniteSet(K)
  <2>1. IsFiniteSet(DOMAIN m.net[i].in)
    BY <1>2, FS_Interval
  <2> QED
    BY <2>1, FS_Subset
<1>4. Cardinality(K) \in Nat /\ (Cardinality(K) = 0 <=> K = {})
  BY <1>3, FS_CardinalityType, FS_EmptySet
<1>5. K # {} <=> Reader(m, t, i)
  BY DEF Reader, ToSet
<1> HIDE DEF K
<1>6. ReadsOf(m, t, i) = Cardinality(K)
  BY DEF ReadsOf, K
<1> QED
  BY <1>4, <1>5, <1>6

\* There are finitely many operators.
LEMMA OpsFinite ==
    ASSUME NEW m \in Models
    PROVE  IsFiniteSet(OpsOf(m))
<1>1. OpsOf(m) = 1 .. Len(m.net) /\ Len(m.net) \in Nat
  BY NetFacts
<1> QED
  BY <1>1, FS_Interval

-----------------------------------------------------------------------------
(* How often commands read a tensor.  Uses is what UseCount computes: the  *)
(* library adds in the order CHOOSE prescribes, and the order is shown not *)
(* to matter.                                                              *)

\* A set of numbers has a least one.
LEMMA LeastNumber ==
    ASSUME NEW S \in SUBSET Nat, S # {}
    PROVE  \E s \in S : \A u \in S : s <= u
<1> DEFINE R == {ss \in Nat \X Nat : ss[1] < ss[2]}
<1>1. IsWellFoundedOn(R, Nat)
  BY NatLessThanWellFounded DEF OpToRel
<1>2. PICK s \in S : \A u \in S : ~(<<u, s>> \in R)
  BY <1>1, WFMin
<1>3. \A u \in S : <<u, s>> \in R <=> u < s
  OBVIOUS
<1> HIDE DEF R
<1>4. ASSUME NEW u \in S PROVE s <= u
  <2>1. ~(u < s)
    BY <1>2, <1>3
  <2> QED
    BY <2>1
<1> QED
  BY <1>4

\* What holds of a set when it holds of the set without any one of its elements, holds
\* of every subset of a finite set.
LEMMA SubsetInduction ==
    ASSUME NEW S, IsFiniteSet(S), NEW G \in SUBSET SUBSET S,
           \A s \in SUBSET S : (\A x \in s : s \ {x} \in G) => s \in G
    PROVE  G = SUBSET S
<1> DEFINE B == (SUBSET S) \ G
           C == {Cardinality(s) : s \in B}
<1>1. \A s \in SUBSET S : IsFiniteSet(s) /\ Cardinality(s) \in Nat
  BY FS_Subset, FS_CardinalityType
<1> SUFFICES ASSUME B # {} PROVE FALSE
  OBVIOUS
<1>2. C \in SUBSET Nat /\ C # {}
  BY <1>1
<1>3. PICK l \in C : \A u \in C : l <= u
  BY <1>2, LeastNumber
<1>4. PICK s \in B : Cardinality(s) = l
  BY <1>3
<1>5. PICK x \in s : s \ {x} \notin G
  BY <1>4
<1>6. s \ {x} \in B /\ IsFiniteSet(s)
  BY <1>1, <1>5
<1>7. Cardinality(s \ {x}) = Cardinality(s) - 1
  BY <1>5, <1>6, FS_RemoveElement
<1>8. l <= Cardinality(s \ {x}) /\ l \in Nat
  BY <1>2, <1>3, <1>6
<1> QED
  BY <1>4, <1>7, <1>8

Uses(m, t, S) == MapThenSumSet(LAMBDA i : ReadsOf(m, t, i), S)

Pick(s) == CHOOSE x \in s : TRUE

\* it adds the reads of every subset of S, command by command.
Adds(it, m, t, S) ==
    it = [s \in SUBSET S |-> IF s = {} THEN 0 ELSE ReadsOf(m, t, Pick(s)) + it[s \ {Pick(s)}]]

UsesStep(m, t, S) ==
    Uses(m, t, S) = IF S = {} THEN 0 ELSE ReadsOf(m, t, Pick(S)) + Uses(m, t, S \ {Pick(S)})

\* The reads of finitely many commands.
Counted(m, t, S) == IsFiniteSet(S) /\ \A x \in S : ReadsOf(m, t, x) \in Nat

\* What the library chooses is a function that adds element by element.
LEMMA UsesChosen ==
    ASSUME NEW m, NEW t, NEW S
    PROVE  Uses(m, t, S) = (CHOOSE it : Adds(it, m, t, S))[S]
BY DEF Uses, MapThenSumSet, MapThenFoldSet, Adds, Pick

\* The element CHOOSE prescribes is an element.
LEMMA PickMember ==
    ASSUME NEW s, s # {}
    PROVE  Pick(s) \in s
BY DEF Pick

\* Two solutions agree on every subset.
LEMMA AddsUnique ==
    ASSUME NEW S, IsFiniteSet(S), NEW m, NEW t, NEW i, NEW j, Adds(i, m, t, S), Adds(j, m, t, S)
    PROVE  i[S] = j[S]
<1> DEFINE G == {s \in SUBSET S : i[s] = j[s]}
<1>1. ASSUME NEW s \in SUBSET S, \A x \in s : s \ {x} \in G PROVE s \in G
  <2>1. /\ i[s] = IF s = {} THEN 0 ELSE ReadsOf(m, t, Pick(s)) + i[s \ {Pick(s)}]
        /\ j[s] = IF s = {} THEN 0 ELSE ReadsOf(m, t, Pick(s)) + j[s \ {Pick(s)}]
    BY DEF Adds
  <2>2. s # {} => i[s \ {Pick(s)}] = j[s \ {Pick(s)}]
    BY <1>1, PickMember
  <2> QED
    BY <2>1, <2>2
<1>2. G = SUBSET S
  <2> HIDE DEF G
  <2>1. G \in SUBSET SUBSET S
    BY DEF G
  <2> QED
    BY <1>1, <2>1, SubsetInduction
<1> QED
  BY <1>2

\* Uses obeys the recursion it is defined by.
LEMMA UsesRecursion ==
    ASSUME NEW S, IsFiniteSet(S), NEW m, NEW t
    PROVE  UsesStep(m, t, S)
<1> DEFINE G == {s \in SUBSET S : \A u \in SUBSET s : UsesStep(m, t, u)}
<1>1. ASSUME NEW s \in SUBSET S, \A x \in s : s \ {x} \in G PROVE s \in G
  <2>1. ASSUME NEW u \in SUBSET s, u # s PROVE UsesStep(m, t, u)
    <3>1. PICK x \in s : x \notin u
      BY <2>1
    <3>2. s \ {x} \in G /\ u \in SUBSET (s \ {x})
      BY <1>1, <3>1
    <3> QED
      BY <3>2
  <2>2. UsesStep(m, t, s)
    <3> DEFINE i == [u \in SUBSET s |-> IF u = {} THEN 0 ELSE ReadsOf(m, t, Pick(u)) + Uses(m, t, u \ {Pick(u)})]
    <3>1. ASSUME NEW u \in SUBSET s, u # {} PROVE i[u \ {Pick(u)}] = Uses(m, t, u \ {Pick(u)})
      <4> DEFINE w == u \ {Pick(u)}
      <4>1. Pick(u) \in u
        BY <3>1, PickMember
      <4>2. w \in SUBSET s /\ w # s
        BY <4>1
      <4>3. UsesStep(m, t, w)
        BY <2>1, <4>2
      <4> HIDE DEF w
      <4>4. i[w] = Uses(m, t, w)
        BY <4>2, <4>3 DEF UsesStep
      <4> QED
        BY <4>4 DEF w
    <3>2. \A u \in SUBSET s : i[u] = IF u = {} THEN 0 ELSE ReadsOf(m, t, Pick(u)) + Uses(m, t, u \ {Pick(u)})
      OBVIOUS
    <3>3. i = [u \in DOMAIN i |-> i[u]] /\ DOMAIN i = SUBSET s
      OBVIOUS
    <3> HIDE DEF i
    <3>4. \A u \in SUBSET s : i[u] = IF u = {} THEN 0 ELSE ReadsOf(m, t, Pick(u)) + i[u \ {Pick(u)}]
      BY <3>1, <3>2
    <3>5. Adds(i, m, t, s)
      BY <3>3, <3>4 DEF Adds
    <3>6. PICK j : j = CHOOSE it : Adds(it, m, t, s)
      OBVIOUS
    <3>7. Adds(j, m, t, s)
      BY <3>5, <3>6
    <3>8. IsFiniteSet(s)
      BY FS_Subset
    <3>9. i[s] = j[s]
      BY <3>5, <3>7, <3>8, AddsUnique
    <3>10. Uses(m, t, s) = j[s]
      BY <3>6, UsesChosen
    <3> QED
      BY <3>2, <3>9, <3>10 DEF UsesStep
  <2> QED
    BY <2>1, <2>2
<1>2. G = SUBSET S
  <2> HIDE DEF G
  <2>1. G \in SUBSET SUBSET S
    BY DEF G
  <2> QED
    BY <1>1, <2>1, SubsetInduction
<1> QED
  BY <1>2

\* A subset of what can be added can be added.
LEMMA CountedSubset ==
    ASSUME NEW m, NEW t, NEW S, Counted(m, t, S), NEW s \in SUBSET S
    PROVE  Counted(m, t, s)
BY FS_Subset DEF Counted

\* Nothing adds up to zero.
LEMMA UsesEmpty ==
    ASSUME NEW m, NEW t
    PROVE  Uses(m, t, {}) = 0
<1>1. UsesStep(m, t, {})
  BY FS_EmptySet, UsesRecursion
<1> QED
  BY <1>1 DEF UsesStep

\* A total is a natural number.
LEMMA UsesNat ==
    ASSUME NEW m, NEW t, NEW S, Counted(m, t, S)
    PROVE  Uses(m, t, S) \in Nat
<1> DEFINE G == {s \in SUBSET S : Uses(m, t, s) \in Nat}
<1>1. ASSUME NEW s \in SUBSET S, \A x \in s : s \ {x} \in G PROVE s \in G
  <2>1. UsesStep(m, t, s)
    BY CountedSubset, UsesRecursion DEF Counted
  <2>2. CASE s = {}
    BY <2>2, UsesEmpty
  <2>3. CASE s # {}
    <3>1. Pick(s) \in s
      BY <2>3, PickMember
    <3>2. Uses(m, t, s) = ReadsOf(m, t, Pick(s)) + Uses(m, t, s \ {Pick(s)})
      BY <2>1, <2>3 DEF UsesStep
    <3>3. ReadsOf(m, t, Pick(s)) \in Nat /\ Uses(m, t, s \ {Pick(s)}) \in Nat
      BY <1>1, <3>1 DEF Counted
    <3> QED
      BY <3>2, <3>3
  <2> QED
    BY <2>2, <2>3
<1>2. G = SUBSET S
  <2> HIDE DEF G
  <2>1. G \in SUBSET SUBSET S /\ IsFiniteSet(S)
    BY DEF G, Counted
  <2> QED
    BY <1>1, <2>1, SubsetInduction
<1> QED
  BY <1>2

\* Any element can be added last.
LEMMA UsesRemove ==
    ASSUME NEW m, NEW t, NEW S, Counted(m, t, S), NEW e \in S
    PROVE  Uses(m, t, S) = ReadsOf(m, t, e) + Uses(m, t, S \ {e})
<1> DEFINE AnyOrder(s) == \A x \in s : Uses(m, t, s) = ReadsOf(m, t, x) + Uses(m, t, s \ {x})
           G == {s \in SUBSET S : AnyOrder(s)}
<1>1. ASSUME NEW s \in SUBSET S, \A x \in s : s \ {x} \in G PROVE s \in G
  <2> SUFFICES ASSUME NEW x \in s PROVE Uses(m, t, s) = ReadsOf(m, t, x) + Uses(m, t, s \ {x})
    OBVIOUS
  <2>1. PICK c : c = Pick(s)
    OBVIOUS
  <2>2. c \in s
    BY <2>1, PickMember
  <2>3. UsesStep(m, t, s)
    BY CountedSubset, UsesRecursion DEF Counted
  <2>4. Uses(m, t, s) = ReadsOf(m, t, c) + Uses(m, t, s \ {c})
    BY <2>1, <2>3 DEF UsesStep
  <2>5. CASE x = c
    BY <2>4, <2>5
  <2>6. CASE x # c
    <3>1. AnyOrder(s \ {c}) /\ AnyOrder(s \ {x})
      BY <1>1, <2>2
    <3>2. PICK r : r = (s \ {c}) \ {x}
      OBVIOUS
    <3>3. r = (s \ {x}) \ {c} /\ x \in s \ {c} /\ c \in s \ {x}
      BY <2>2, <2>6, <3>2
    <3>4. Uses(m, t, s \ {c}) = ReadsOf(m, t, x) + Uses(m, t, r)
      BY <3>1, <3>2, <3>3
    <3>5. Uses(m, t, s \ {x}) = ReadsOf(m, t, c) + Uses(m, t, r)
      BY <3>1, <3>3
    <3>6. ReadsOf(m, t, x) \in Nat /\ ReadsOf(m, t, c) \in Nat
      BY <2>2 DEF Counted
    <3>7. Counted(m, t, r)
      <4>1. r \in SUBSET S
        BY <3>2
      <4> QED
        BY <4>1, CountedSubset
    <3>8. Uses(m, t, r) \in Nat
      BY <3>7, UsesNat
    <3> QED
      BY <2>4, <3>4, <3>5, <3>6, <3>8
  <2> QED
    BY <2>5, <2>6
<1>2. G = SUBSET S
  <2> HIDE DEF G
  <2>1. G \in SUBSET SUBSET S /\ IsFiniteSet(S)
    BY DEF G, Counted
  <2> QED
    BY <1>1, <2>1, SubsetInduction
<1>3. AnyOrder(S)
  BY <1>2
<1> QED
  BY <1>3

\* The operators can be counted over.
LEMMA OpsCounted ==
    ASSUME NEW m \in Models, NEW t, NEW S \in SUBSET OpsOf(m)
    PROVE  Counted(m, t, S) /\ Uses(m, t, S) \in Nat
<1>1. IsFiniteSet(S)
  BY OpsFinite, FS_Subset
<1>2. Counted(m, t, S)
  BY <1>1, ReadsFacts DEF Counted
<1> QED
  BY <1>2, UsesNat

\* More commands read at least as often.
LEMMA UsesMonotone ==
    ASSUME NEW m \in Models, NEW t, NEW S \in SUBSET OpsOf(m)
    PROVE  Uses(m, t, S) <= Uses(m, t, OpsOf(m))
<1> DEFINE D == OpsOf(m)
           Least(s) == \A u \in SUBSET s : Uses(m, t, u) <= Uses(m, t, s)
           G == {s \in SUBSET D : Least(s)}
<1>1. ASSUME NEW s \in SUBSET D, \A x \in s : s \ {x} \in G PROVE s \in G
  <2> SUFFICES ASSUME NEW u \in SUBSET s PROVE Uses(m, t, u) <= Uses(m, t, s)
    OBVIOUS
  <2>1. Uses(m, t, u) \in Nat /\ Uses(m, t, s) \in Nat /\ Counted(m, t, s)
    BY OpsCounted
  <2>2. CASE u = s
    BY <2>1, <2>2
  <2>3. CASE u # s
    <3>1. PICK x \in s : x \notin u
      BY <2>3
    <3>2. PICK w : w = s \ {x}
      OBVIOUS
    <3>3. Least(w) /\ u \in SUBSET w
      BY <1>1, <3>1, <3>2
    <3>4. Uses(m, t, u) <= Uses(m, t, w)
      BY <3>3
    <3>5. Uses(m, t, s) = ReadsOf(m, t, x) + Uses(m, t, w)
      BY <2>1, <3>1, <3>2, UsesRemove
    <3>6. ReadsOf(m, t, x) \in Nat
      BY <2>1, <3>1 DEF Counted
    <3>7. Uses(m, t, w) \in Nat
      <4>1. w \in SUBSET OpsOf(m)
        BY <3>2
      <4> QED
        BY <4>1, OpsCounted
    <3> QED
      BY <2>1, <3>4, <3>5, <3>6, <3>7
  <2> QED
    BY <2>2, <2>3
<1>2. IsFiniteSet(D)
  BY OpsFinite
<1>3. G = SUBSET D
  <2> HIDE DEF G, D
  <2>1. G \in SUBSET SUBSET D
    BY DEF G
  <2> QED
    BY <1>1, <1>2, <2>1, SubsetInduction
<1>4. Least(D)
  BY <1>3
<1> QED
  BY <1>4

\* Without a reader there is no use.
LEMMA UsesNone ==
    ASSUME NEW m \in Models, NEW t, NEW S \in SUBSET OpsOf(m), \A j \in S : ~Reader(m, t, j)
    PROVE  Uses(m, t, S) = 0
<1> DEFINE G == {s \in SUBSET S : Uses(m, t, s) = 0}
<1>1. ASSUME NEW s \in SUBSET S, \A x \in s : s \ {x} \in G PROVE s \in G
  <2>1. CASE s = {}
    BY <2>1, UsesEmpty
  <2>2. CASE s # {}
    <3>1. PICK x \in s : TRUE
      BY <2>2
    <3>2. s \in SUBSET OpsOf(m)
      OBVIOUS
    <3>3. Counted(m, t, s)
      BY <3>2, OpsCounted
    <3>4. Uses(m, t, s) = ReadsOf(m, t, x) + Uses(m, t, s \ {x})
      BY <3>1, <3>3, UsesRemove
    <3>5. ReadsOf(m, t, x) = 0
      <4>1. x \in OpsOf(m) /\ ~Reader(m, t, x)
        BY <3>1
      <4>2. ReadsOf(m, t, x) \in Nat /\ (ReadsOf(m, t, x) > 0 <=> Reader(m, t, x))
        BY <4>1, ReadsFacts
      <4> QED
        BY <4>1, <4>2
    <3>6. Uses(m, t, s \ {x}) = 0
      BY <1>1, <3>1
    <3> QED
      BY <3>4, <3>5, <3>6
  <2> QED
    BY <2>1, <2>2
<1>2. IsFiniteSet(S)
  BY OpsFinite, FS_Subset
<1>3. G = SUBSET S
  <2> HIDE DEF G
  <2>1. G \in SUBSET SUBSET S
    BY DEF G
  <2> QED
    BY <1>1, <1>2, <2>1, SubsetInduction
<1> QED
  BY <1>3

\* The uses that are left when the commands before n are done.
Left(m, t, n) == Uses(m, t, n .. Len(m.net))

\* What is left after a command is what it does not read.
LEMMA LeftFacts ==
    ASSUME NEW m \in Models, NEW t, NEW n \in Nat, n > 0
    PROVE  /\ Left(m, t, n) \in Nat
           /\ Left(m, t, n) > 0 <=> \E j \in OpsOf(m) : j >= n /\ Reader(m, t, j)
           /\ n \in OpsOf(m) => Left(m, t, n) = ReadsOf(m, t, n) + Left(m, t, n + 1)
<1>1. PICK l \in Nat : l = Len(m.net) /\ OpsOf(m) = 1 .. l
  BY NetFacts
<1>2. PICK S : S = n .. l
  OBVIOUS
<1>3. S \in SUBSET OpsOf(m) /\ Left(m, t, n) = Uses(m, t, S)
  BY <1>1, <1>2 DEF Left
<1>4. Counted(m, t, S) /\ Uses(m, t, S) \in Nat
  BY <1>3, OpsCounted
<1>5. ASSUME NEW j \in OpsOf(m), j >= n, Reader(m, t, j) PROVE Uses(m, t, S) > 0
  <2>1. j \in S
    BY <1>1, <1>2, <1>5
  <2>2. Uses(m, t, S) = ReadsOf(m, t, j) + Uses(m, t, S \ {j})
    BY <1>4, <2>1, UsesRemove
  <2>3. ReadsOf(m, t, j) \in Nat /\ ReadsOf(m, t, j) > 0
    BY <1>5, ReadsFacts
  <2>4. Uses(m, t, S \ {j}) \in Nat
    <3>1. S \ {j} \in SUBSET OpsOf(m)
      BY <1>3
    <3> QED
      BY <3>1, OpsCounted
  <2> QED
    BY <2>2, <2>3, <2>4
<1>6. ASSUME ~\E j \in OpsOf(m) : j >= n /\ Reader(m, t, j) PROVE Uses(m, t, S) = 0
  <2>1. \A j \in S : ~Reader(m, t, j)
    BY <1>1, <1>2, <1>3, <1>6
  <2> QED
    BY <1>3, <2>1, UsesNone
<1>7. ASSUME n \in OpsOf(m) PROVE Left(m, t, n) = ReadsOf(m, t, n) + Left(m, t, n + 1)
  <2>1. n \in S /\ S \ {n} = (n + 1) .. l
    BY <1>1, <1>2, <1>7
  <2>2. Uses(m, t, S) = ReadsOf(m, t, n) + Uses(m, t, S \ {n})
    BY <1>4, <2>1, UsesRemove
  <2> QED
    BY <1>1, <1>3, <2>1, <2>2 DEF Left
<1> QED
  BY <1>3, <1>4, <1>5, <1>6, <1>7

-----------------------------------------------------------------------------
(* The shapes.                                                             *)

\* A finite set of integers has a largest element.
LEMMA MaxFacts ==
    ASSUME NEW S \in SUBSET Int, IsFiniteSet(S), S # {}
    PROVE  Max(S) \in S /\ \A y \in S : Max(S) >= y
<1> DEFINE Largest(s) == \E x \in s : \A y \in s : x >= y
           G == {s \in SUBSET S : s # {} => Largest(s)}
<1>1. ASSUME NEW s \in SUBSET S, \A x \in s : s \ {x} \in G PROVE s \in G
  <2> SUFFICES ASSUME s # {} PROVE Largest(s)
    OBVIOUS
  <2>1. PICK x \in s : TRUE
    OBVIOUS
  <2>2. CASE s \ {x} = {}
    BY <2>1, <2>2
  <2>3. CASE s \ {x} # {}
    <3>1. Largest(s \ {x})
      BY <1>1, <2>1, <2>3
    <3>2. PICK y \in s \ {x} : \A z \in s \ {x} : y >= z
      BY <3>1
    <3>3. x \in Int /\ y \in Int /\ \A z \in s : z \in Int
      OBVIOUS
    <3>4. CASE x >= y
      BY <2>1, <3>2, <3>3, <3>4
    <3>5. CASE ~(x >= y)
      BY <2>1, <3>2, <3>3, <3>5
    <3> QED
      BY <3>4, <3>5
  <2> QED
    BY <2>2, <2>3
<1>2. G = SUBSET S
  <2> HIDE DEF G
  <2>1. G \in SUBSET SUBSET S
    BY DEF G
  <2> QED
    BY <1>1, <2>1, SubsetInduction
<1>3. Largest(S)
  BY <1>2
<1>4. PICK x \in S : \A y \in S : x >= y
  BY <1>3
<1> QED
  BY <1>4 DEF Max

\* A set that holds 0 and the successors of its numbers below n holds those up to n.
LEMMA CountUp ==
    ASSUME NEW n \in Nat, NEW S \in SUBSET (0 .. n), 0 \in S, \A k \in S : k < n => k + 1 \in S
    PROVE  S = 0 .. n
<1> DEFINE B == (0 .. n) \ S
<1> SUFFICES ASSUME B # {} PROVE FALSE
  OBVIOUS
<1>1. B \in SUBSET Nat
  OBVIOUS
<1>2. PICK l \in B : \A u \in B : l <= u
  <2> HIDE DEF B
  <2> QED
    BY <1>1, LeastNumber
<1>3. l \in Nat /\ l # 0 /\ l <= n /\ l \notin S
  OBVIOUS
<1>4. l - 1 \in 0 .. n /\ l - 1 < n /\ ~(l <= l - 1) /\ (l - 1) + 1 = l
  BY <1>3
<1>5. l - 1 \in S
  BY <1>2, <1>4
<1> QED
  BY <1>3, <1>4, <1>5

\* The walk of encode over the operators S, in the order q gives and from state b.
Enc(b, q, S) == MapThenFoldSet(LAMBDA x, y : EncodeOp(y, x), b, LAMBDA i : q[i], LAMBDA T : Max(T), S)

Walks(it, b, q, S) ==
    it = [s \in SUBSET S |-> IF s = {} THEN b ELSE EncodeOp(it[s \ {Max(s)}], q[Max(s)])]

EncStep(b, q, S) ==
    Enc(b, q, S) = IF S = {} THEN b ELSE EncodeOp(Enc(b, q, S \ {Max(S)}), q[Max(S)])

\* What the library chooses walks operator by operator.
LEMMA EncChosen ==
    ASSUME NEW b, NEW q, NEW S
    PROVE  Enc(b, q, S) = (CHOOSE it : Walks(it, b, q, S))[S]
BY DEF Enc, MapThenFoldSet, Walks

\* Two walks agree on every subset.
LEMMA WalksUnique ==
    ASSUME NEW S \in SUBSET Int, IsFiniteSet(S), NEW b, NEW q, NEW i, NEW j,
           Walks(i, b, q, S), Walks(j, b, q, S)
    PROVE  i[S] = j[S]
<1> DEFINE G == {s \in SUBSET S : i[s] = j[s]}
<1>1. ASSUME NEW s \in SUBSET S, \A x \in s : s \ {x} \in G PROVE s \in G
  <2>1. /\ i[s] = IF s = {} THEN b ELSE EncodeOp(i[s \ {Max(s)}], q[Max(s)])
        /\ j[s] = IF s = {} THEN b ELSE EncodeOp(j[s \ {Max(s)}], q[Max(s)])
    BY DEF Walks
  <2>2. s # {} => i[s \ {Max(s)}] = j[s \ {Max(s)}]
    <3>1. s # {} => Max(s) \in s
      <4>1. s \in SUBSET Int /\ IsFiniteSet(s)
        BY FS_Subset
      <4> QED
        BY <4>1, MaxFacts
    <3> QED
      BY <1>1, <3>1
  <2> QED
    BY <2>1, <2>2
<1>2. G = SUBSET S
  <2> HIDE DEF G
  <2>1. G \in SUBSET SUBSET S
    BY DEF G
  <2> QED
    BY <1>1, <2>1, SubsetInduction
<1> QED
  BY <1>2

\* The walk obeys the recursion it is defined by.
LEMMA EncRecursion ==
    ASSUME NEW S \in SUBSET Int, IsFiniteSet(S), NEW b, NEW q
    PROVE  EncStep(b, q, S)
<1> DEFINE G == {s \in SUBSET S : \A u \in SUBSET s : EncStep(b, q, u)}
<1>1. ASSUME NEW s \in SUBSET S, \A x \in s : s \ {x} \in G PROVE s \in G
  <2>1. ASSUME NEW u \in SUBSET s, u # s PROVE EncStep(b, q, u)
    <3>1. PICK x \in s : x \notin u
      BY <2>1
    <3>2. s \ {x} \in G /\ u \in SUBSET (s \ {x})
      BY <1>1, <3>1
    <3> QED
      BY <3>2
  <2>2. EncStep(b, q, s)
    <3> DEFINE i == [u \in SUBSET s |-> IF u = {} THEN b ELSE EncodeOp(Enc(b, q, u \ {Max(u)}), q[Max(u)])]
    <3>1. ASSUME NEW u \in SUBSET s, u # {} PROVE i[u \ {Max(u)}] = Enc(b, q, u \ {Max(u)})
      <4> DEFINE w == u \ {Max(u)}
      <4>1. Max(u) \in u
        <5>1. u \in SUBSET Int /\ IsFiniteSet(u)
          BY FS_Subset
        <5> QED
          BY <3>1, <5>1, MaxFacts
      <4>2. w \in SUBSET s /\ w # s
        BY <4>1
      <4>3. EncStep(b, q, w)
        BY <2>1, <4>2
      <4> HIDE DEF w
      <4>4. i[w] = Enc(b, q, w)
        BY <4>2, <4>3 DEF EncStep
      <4> QED
        BY <4>4 DEF w
    <3>2. \A u \in SUBSET s : i[u] = IF u = {} THEN b ELSE EncodeOp(Enc(b, q, u \ {Max(u)}), q[Max(u)])
      OBVIOUS
    <3>3. i = [u \in DOMAIN i |-> i[u]] /\ DOMAIN i = SUBSET s
      OBVIOUS
    <3> HIDE DEF i
    <3>4. \A u \in SUBSET s : i[u] = IF u = {} THEN b ELSE EncodeOp(i[u \ {Max(u)}], q[Max(u)])
      BY <3>1, <3>2
    <3>5. Walks(i, b, q, s)
      BY <3>3, <3>4 DEF Walks
    <3>6. PICK j : j = CHOOSE it : Walks(it, b, q, s)
      OBVIOUS
    <3>7. Walks(j, b, q, s)
      BY <3>5, <3>6
    <3>8. IsFiniteSet(s) /\ s \in SUBSET Int
      BY FS_Subset
    <3>9. i[s] = j[s]
      BY <3>5, <3>7, <3>8, WalksUnique
    <3>10. Enc(b, q, s) = j[s]
      BY <3>6, EncChosen
    <3> QED
      BY <3>2, <3>9, <3>10 DEF EncStep
  <2> QED
    BY <2>1, <2>2
<1>2. G = SUBSET S
  <2> HIDE DEF G
  <2>1. G \in SUBSET SUBSET S
    BY DEF G
  <2> QED
    BY <1>1, <2>1, SubsetInduction
<1> QED
  BY <1>2

\* encode up to operator k, as a sequence of states.
Walk(b, k, e) ==
    /\ e[0] = b
    /\ \A j \in 1 .. k : e[j] = EncodeOp(e[j - 1], j)

\* FoldLeft in encode is such a sequence.
LEMMA EncodeWalks ==
    ASSUME NEW b, NEW k \in Nat
    PROVE  \E e : Walk(b, k, e) /\ FoldLeft(EncodeOp, b, [i \in 1 .. k |-> i]) = e[k]
<1>1. PICK q : q = [i \in 1 .. k |-> i]
  OBVIOUS
<1>2. PICK e : e = [j \in 0 .. k |-> Enc(b, q, 1 .. j)]
  OBVIOUS
<1>3. ASSUME NEW j \in 0 .. k PROVE e[j] = Enc(b, q, 1 .. j) /\ EncStep(b, q, 1 .. j)
  <2>1. 1 .. j \in SUBSET Int /\ IsFiniteSet(1 .. j)
    BY FS_Interval
  <2> QED
    BY <1>2, <2>1, EncRecursion
<1>4. e[0] = b
  <2>1. 1 .. 0 = {}
    OBVIOUS
  <2>2. e[0] = Enc(b, q, {}) /\ EncStep(b, q, {})
    BY <1>3, <2>1
  <2> QED
    BY <2>2 DEF EncStep
<1>5. ASSUME NEW j \in 1 .. k PROVE e[j] = EncodeOp(e[j - 1], j)
  <2>1. PICK s : s = 1 .. j
    OBVIOUS
  <2>2. j \in Nat /\ j > 0 /\ j <= k /\ j - 1 \in 0 .. k /\ j \in 0 .. k
    OBVIOUS
  <2>3. s \in SUBSET Int /\ IsFiniteSet(s)
    BY <2>1, <2>2, FS_Interval
  <2>4. s # {} /\ j \in s /\ \A y \in s : y <= j /\ y \in Int
    BY <2>1, <2>2
  <2>5. Max(s) \in s /\ Max(s) >= j
    BY <2>3, <2>4, MaxFacts
  <2>6. Max(s) = j
    <3>1. PICK x : x = Max(s)
      OBVIOUS
    <3>2. x \in Int /\ x <= j /\ x >= j
      BY <2>4, <2>5, <3>1
    <3> QED
      BY <2>2, <3>1, <3>2
  <2>7. s \ {j} = 1 .. (j - 1)
    BY <2>1, <2>2
  <2>8. e[j] = Enc(b, q, s) /\ EncStep(b, q, s)
    BY <1>3, <2>1, <2>2
  <2>9. e[j - 1] = Enc(b, q, 1 .. (j - 1))
    BY <1>3, <2>2
  <2>10. q[j] = j
    BY <1>1
  <2> QED
    BY <2>4, <2>6, <2>7, <2>8, <2>9, <2>10 DEF EncStep
<1>6. DOMAIN q = 1 .. k
  BY <1>1
<1>7. FoldLeft(EncodeOp, b, q) = Enc(b, q, DOMAIN q)
  BY DEF FoldLeft, Enc
<1>8. FoldLeft(EncodeOp, b, q) = e[k]
  BY <1>3, <1>6, <1>7
<1> QED
  BY <1>1, <1>4, <1>5, <1>8 DEF Walk

-----------------------------------------------------------------------------
(* Where memory is.                                                        *)

Places(g) == {In(g, a) : a \in Addr}
Spot == {None, Dead} \union Places(0) \union Places(1) \union {Own(t) : t \in Int}

-----------------------------------------------------------------------------
(* The invariant.  Its parts are stated for any state: a session m, flags  *)
(* fl, caches ca, tensors ts, commands cs, plans pl, a call a and content  *)
(* co.                                                                     *)

FlagsType == [mNeedResize : BOOLEAN, failed : BOOLEAN, fixed : BOOLEAN, unbound : BOOLEAN]
CacheType == [mCanCache : BOOLEAN, mPass : BOOLEAN, mComputed : BOOLEAN,
              mInputInfos : Seq(Nat), needComputeShape : BOOLEAN, seen : Seq(Nat)]
TensorType == [length : Nat, group : {-1, 0, 1}, useCount : Nat, mem : Spot, host : Spot, size : Nat]
CommandType == [exists : BOOLEAN, group : Group, temp : Spot]
PlanType == [used : SUBSET Addr, live : SUBSET Addr]
CallType == [call : {"none", "create", "alloc", "fix", "run"}, i : Nat, g : Group,
             allocInput : BOOLEAN]

Typed(m, fl, ca, ts, cs, pl, a) ==
    /\ m \in Models /\ fl \in FlagsType
    /\ ca \in [OpsOf(m) -> CacheType]
    /\ ts \in [TensorsOf(m) -> TensorType]
    /\ cs \in [OpsOf(m) -> CommandType]
    /\ pl \in [Group -> PlanType]
    /\ a \in CallType /\ a.i <= Len(m.net) + 2

InPassAt(a) == a.call \in {"alloc", "fix"}

\* What a pass is about.
PassAt(m, a) ==
    /\ a.call = "alloc" => a.g = 0 /\ a.allocInput = m.mAllocInput
    /\ a.call = "fix" => a.g = 1 /\ a.allocInput
    /\ a.call \in {"alloc", "fix", "run"} => a.i > 0

\* Only inputs the user has memory for are in no group.
Grouped(m, ts) ==
    /\ \A t \in InputsOf(m) : ts[t].group = -1 <=> ~m.mAllocInput
    /\ \A t \in OpsOf(m) : ts[t].group # -1

\* Use counts are the reads that are left.
CountInv(m, ts, cs, a) ==
    /\ \A t \in TensorsOf(m) : ts[t].useCount <= Uses(m, t, OpsOf(m))
    /\ InPassAt(a) /\ a.i \in OpsOf(m) =>
          /\ \A t \in TensorsOf(m) : ts[t].useCount = Left(m, t, a.i)
          /\ \A i \in OpsOf(m) : cs[i].exists

\* A command that exists was made for lengths.
Made(m, ca, cs) == \A i \in OpsOf(m) : cs[i].exists => ca[i].seen # << >>

Basic(m, fl, ca, ts, cs, pl, a) ==
    /\ Typed(m, fl, ca, ts, cs, pl, a)
    /\ PassAt(m, a) /\ Grouped(m, ts) /\ CountInv(m, ts, cs, a) /\ Made(m, ca, cs)

LengthsOf(m, ts, i) == [k \in DOMAIN m.net[i].in |-> ts[m.net[i].in[k]].length]
Fits(ts, t) == ts[t].length <= ts[t].size

\* A call goes with the flags.
CallInv(m, fl, cs, a) ==
    /\ a.call \in {"create", "alloc"} => fl.mNeedResize /\ ~fl.failed
    /\ a.call = "fix" => fl.fixed /\ ~fl.failed /\ (fl.mNeedResize => \A i \in OpsOf(m) : ~cs[i].exists)
    /\ a.call = "run" => ~fl.mNeedResize /\ ~fl.unbound
    /\ a.call = "none" => a = Idle
    /\ fl.failed => fl.mNeedResize

\* After encode every operator has a command made for the lengths its inputs have;
\* what an operator remembers of its inputs it has a command for.
CacheInv(m, fl, ca, ts, cs, a) ==
    /\ ~fl.mNeedResize \/ a.call \in {"create", "alloc"} =>
          \A i \in OpsOf(m) : cs[i].exists /\ ca[i].seen = LengthsOf(m, ts, i)
    /\ ~fl.failed => \A i \in OpsOf(m) : ca[i].mComputed \/ ca[i].mPass => cs[i].exists

\* Group 1 is what fixResizeCache found not to vary, and is not computed again.
GroupInv(m, fl, ca, ts, cs) ==
    /\ ~fl.fixed => /\ \A i \in OpsOf(m) : cs[i].group = 0
                    /\ \A t \in TensorsOf(m) : ts[t].group # 1
    /\ \A i \in OpsOf(m) : cs[i].group = 1 =>
          ts[i].group = 1 /\ cs[i].exists /\ ca[i].mPass /\ ~ca[i].mCanCache
    /\ \A t \in TensorsOf(m) : ts[t].group = 1 =>
          \E i \in OpsOf(m) : cs[i].group = 1 /\ (t = i \/ Reader(m, t, i))

\* A tensor owns no memory of a plan.
OwnOnly(m, ts, t) == ts[t].mem = None \/ (Static(m, t) /\ ts[t].mem = Own(t))

\* Who owns memory of a plan: tensors of the pass, or of one that failed.
Owners(m, fl, ts, pl, a) ==
    \A t \in TensorsOf(m) :
        \/ OwnOnly(m, ts, t)
        \/ /\ InPassAt(a) /\ a.i <= Len(m.net) + 1
           /\ ts[t].group = a.g /\ \E x \in pl[a.g].used : ts[t].mem = In(a.g, x)
        \/ a = Idle /\ fl.failed /\ \E x \in pl[0].used : ts[t].mem = In(0, x)

\* Inputs, and what is static.
Own1(m, fl, ts, a) ==
    /\ \A t \in TensorsOf(m) : ts[t].group = -1 =>
          ts[t].mem = None /\ ts[t].host = Own(t) /\ Fits(ts, t)
    /\ \A t \in InputsOf(m) : ~InPassAt(a) /\ ~fl.failed => ts[t].mem = None
    /\ \A t \in TensorsOf(m) : a.call = "create" /\ ts[t].group = 0 => ts[t].mem = None
    /\ \A t \in TensorsOf(m) : Static(m, t) /\ ts[t].mem = Own(t) =>
          ts[t].host = Own(t) /\ (~fl.mNeedResize => Fits(ts, t))

HeldIn(m, ts, g) == {a \in Addr : \E t \in TensorsOf(m) : ts[t].mem = In(g, a)}
LiveInv(m, ts, pl) == \A g \in Group : pl[g].live = HeldIn(m, ts, g) /\ pl[g].live \subseteq pl[g].used

\* Tensor t holds its value when command k writes.
Live(m, t, k) == t < k /\ Needed(m, t, k)

\* The plan of group g for the commands before n: where tensors and temporaries are, and
\* that no command writes over what is still needed.
Hosts(m, ts, g, n) ==
    \A t \in TensorsOf(m) : ts[t].group = g /\ Reached(m, t, n) =>
        IF Static(m, t) THEN ts[t].host = Own(t) ELSE ts[t].host \in Places(g)
Temps(m, cs, g, n) ==
    \A k \in OpsOf(m) : k < n /\ cs[k].group = g => cs[k].temp \in Places(g)
KeepsHost(m, ts, g, n) ==
    \A t \in TensorsOf(m), k \in OpsOf(m) :
        ts[t].group = g /\ Reached(m, t, n) /\ k < n /\ ts[k].group = g /\ Live(m, t, k) =>
            ts[t].host # ts[k].host
KeepsTemp(m, ts, cs, g, n) ==
    \A t \in TensorsOf(m), k \in OpsOf(m) :
        ts[t].group = g /\ Reached(m, t, n) /\ k < n /\ cs[k].group = g /\ (t = k \/ Live(m, t, k)) =>
            ts[t].host # cs[k].temp
InputsApart(m, ts, g, n) ==
    \A x, y \in InputsOf(m) :
        ts[x].group = g /\ ts[y].group = g /\ Reached(m, x, n) /\ Reached(m, y, n) /\ x # y =>
            ts[x].host # ts[y].host
PlanOK(m, ts, cs, g, n) ==
    /\ Hosts(m, ts, g, n) /\ Temps(m, cs, g, n)
    /\ KeepsHost(m, ts, g, n) /\ KeepsTemp(m, ts, cs, g, n) /\ InputsApart(m, ts, g, n)

\* During a pass: what was reached has room, and owns its memory until nobody needs it;
\* what was not reached owns none; what was handed out is known to the plan.
PassInv(m, ts, cs, pl, a) == InPassAt(a) =>
    /\ \A t \in TensorsOf(m) : ts[t].group = a.g /\ Reached(m, t, a.i) =>
          /\ Fits(ts, t)
          /\ a.i <= Len(m.net) + 1 /\ Needed(m, t, a.i) => ts[t].mem = ts[t].host
          /\ \A x \in Addr : ts[t].host = In(a.g, x) => x \in pl[a.g].used
          /\ t \in InputsOf(m) /\ ~Needed(m, t, a.i) => ts[t].mem = None
    /\ \A t \in TensorsOf(m) : ts[t].group = a.g /\ ~Reached(m, t, a.i) =>
          OwnOnly(m, ts, t) /\ (ts[t].mem # None => Fits(ts, t))
    /\ \A k \in OpsOf(m) : cs[k].group = a.g /\ k < a.i =>
          \A x \in Addr : cs[k].temp = In(a.g, x) => x \in pl[a.g].used

\* Which plans hold.
PlansInv(m, fl, ts, cs, a) ==
    /\ PlanOK(m, ts, cs, 1, IF a.call = "fix" THEN a.i ELSE Len(m.net) + 1)
    /\ a.call = "alloc" => PlanOK(m, ts, cs, 0, a.i)
    /\ ~fl.mNeedResize /\ ~fl.unbound =>
          /\ PlanOK(m, ts, cs, 0, Len(m.net) + 1)
          /\ \A t \in TensorsOf(m) : ts[t].group = 0 => Fits(ts, t)

\* What was fixed has room for the lengths it was fixed with.
FrozenInv(m, ca, ts, cs, a) == a.call # "fix" =>
    \A i \in OpsOf(m) : cs[i].group = 1 =>
        /\ Fits(ts, i)
        /\ \A k \in DOMAIN m.net[i].in :
              ts[m.net[i].in[k]].group = 1 => ca[i].seen[k] <= ts[m.net[i].in[k]].size

\* During a run: what is needed is where it was written.
RunInv(m, ts, a, co) == a.call = "run" =>
    \A t \in TensorsOf(m) : t < a.i /\ Needed(m, t, a.i) =>
        ts[t].host \in DOMAIN co /\ co[ts[t].host] = t

Good(m, fl, ca, ts, cs, pl, a, co) ==
    /\ CallInv(m, fl, cs, a) /\ CacheInv(m, fl, ca, ts, cs, a) /\ GroupInv(m, fl, ca, ts, cs)
    /\ Owners(m, fl, ts, pl, a) /\ Own1(m, fl, ts, a) /\ LiveInv(m, ts, pl)
    /\ PassInv(m, ts, cs, pl, a) /\ PlansInv(m, fl, ts, cs, a)
    /\ FrozenInv(m, ca, ts, cs, a) /\ RunInv(m, ts, a, co)

IInv ==
    /\ Basic(model, flags, cache, tensor, command, plan, at)
    /\ right \in BOOLEAN /\ sound \in BOOLEAN
    /\ sound => right /\ Good(model, flags, cache, tensor, command, plan, at, content)

-----------------------------------------------------------------------------
(* The names of the model.                                                 *)

\* The definitions of the model are the ones above for the session that is run.
LEMMA Names ==
    /\ net = model.net /\ Ops = OpsOf(model) /\ Inputs = InputsOf(model)
    /\ Tensors = TensorsOf(model)
    /\ \A t, i : Reads(t, i) = ReadsOf(model, t, i)
    /\ \A ts, i : Lengths(ts, i) = LengthsOf(model, ts, i)
    /\ \A ts, g : Held(ts, g) = HeldIn(model, ts, g)
<1>1. net = model.net /\ Ops = OpsOf(model) /\ Inputs = InputsOf(model)
  BY DEF net, Ops, OpsOf, Inputs, InputsOf
<1>2. Tensors = TensorsOf(model)
  BY <1>1 DEF Tensors, TensorsOf
<1>3. \A t, i : Reads(t, i) = ReadsOf(model, t, i)
  BY DEF Reads, ReadsOf, net
<1>4. \A ts, i : Lengths(ts, i) = LengthsOf(model, ts, i)
  BY DEF Lengths, LengthsOf, net
<1>5. \A ts, g : Held(ts, g) = HeldIn(model, ts, g)
  BY <1>2 DEF Held, HeldIn
<1> QED
  BY <1>1, <1>2, <1>3, <1>4, <1>5

\* UseCount is the sum that the lemmas above are about.
LEMMA UseCountUses ==
    ASSUME NEW t, NEW S
    PROVE  UseCount(t, S) = Uses(model, t, S)
BY DEF UseCount, Uses, Reads, ReadsOf, net

\* What storage a tensor gets and whether a pass frees it (_allocForTensor, _releaseTensor).
LEMMA Kinds ==
    ASSUME model \in Models, NEW t \in TensorsOf(model)
    PROVE  /\ StorageType(t) = "STATIC" <=> Static(model, t)
           /\ StorageType(t) = "DYNAMIC_SEPERATE" <=> t < 0
           /\ StorageType(t) = "DYNAMIC" <=> t > 0 /\ ~Static(model, t)
           /\ NeedRelease(t, TRUE) <=> ~Output(model, t)
           /\ NeedRelease(t, FALSE) => ~Output(model, t)
<1>1. t \in Int /\ t # 0
  BY NetFacts
<1>2. Usage(t) = "OUTPUT" <=> Output(model, t)
  BY <1>1 DEF Usage, Output, net
<1>3. Usage(t) = "INPUT" <=> t < 0
  BY <1>1 DEF Usage, net
<1>4. Usage(t) \in {"OUTPUT", "INPUT", "NORMAL"}
  BY <1>1 DEF Usage, net
<1>5. Output(model, t) => t > 0
  BY DEF Output
<1>6. /\ NeedRelease(t, TRUE) <=> ~Output(model, t)
      /\ NeedRelease(t, FALSE) => ~Output(model, t)
  BY <1>2, <1>4 DEF NeedRelease
<1>7. StorageType(t) = IF Static(model, t) THEN "STATIC" ELSE IF t < 0 THEN "DYNAMIC_SEPERATE" ELSE "DYNAMIC"
  <2>1. CASE Static(model, t)
    <3>1. Usage(t) = "OUTPUT" /\ model.mOutputStatic
      BY <1>2, <2>1 DEF Static
    <3>2. StorageType(t) = "STATIC"
      BY <3>1 DEF StorageType
    <3> QED
      BY <2>1, <3>2
  <2>2. CASE ~Static(model, t)
    <3>1. ~(Usage(t) = "OUTPUT" /\ model.mOutputStatic)
      BY <1>2, <2>2 DEF Static
    <3>2. StorageType(t) = IF Usage(t) = "INPUT" THEN "DYNAMIC_SEPERATE" ELSE "DYNAMIC"
      BY <3>1 DEF StorageType
    <3> QED
      BY <1>3, <2>2, <3>2
  <2> QED
    BY <2>1, <2>2
<1>8. Static(model, t) => t > 0
  BY <1>5 DEF Static
<1>9. /\ StorageType(t) = "STATIC" <=> Static(model, t)
      /\ StorageType(t) = "DYNAMIC_SEPERATE" <=> t < 0
      /\ StorageType(t) = "DYNAMIC" <=> t > 0 /\ ~Static(model, t)
  <2>1. t < 0 \/ t > 0
    BY <1>1
  <2>2. ~(t < 0 /\ t > 0)
    BY <1>1
  <2> QED
    BY <1>7, <1>8, <2>1, <2>2
<1> QED
  BY <1>6, <1>9

\* Places differ from each other, and from what is no place.
LEMMA SpotFacts ==
    /\ \A g, a, h, b : In(g, a) = In(h, b) => g = h /\ a = b
    /\ \A t, u : Own(t) = Own(u) => t = u
    /\ \A g, a, t : In(g, a) # Own(t) /\ In(g, a) # None /\ In(g, a) # Dead
    /\ \A t : Own(t) # None /\ Own(t) # Dead
    /\ None # Dead
    /\ \A g, a : In(g, a)[1] = "plan"
    /\ \A t : Own(t)[1] = "own"
BY DEF In, Own, None, Dead

\* Places are places.
LEMMA SpotType ==
    /\ None \in Spot /\ Dead \in Spot
    /\ \A g \in Group, a \in Addr : In(g, a) \in Spot /\ In(g, a) \in Places(g)
    /\ \A t \in Int : Own(t) \in Spot
BY DEF Spot, Places, Group

\* A reset of a group reaches the addresses of its plan and nothing else.
LEMMA KillFacts ==
    /\ \A g, a, h : Kill(In(g, a), h) = IF g = h THEN Dead ELSE In(g, a)
    /\ \A t, h : Kill(Own(t), h) = Own(t)
    /\ \A h : Kill(None, h) = None /\ Kill(Dead, h) = Dead
    /\ \A x \in Spot, h \in Group : Kill(x, h) \in Spot
<1>1. \A g, a, h : InPlan(In(g, a), h) <=> g = h
  BY DEF InPlan, In
<1>2. \A t, h : ~InPlan(Own(t), h)
  BY DEF InPlan, Own
<1>3. \A h : ~InPlan(None, h) /\ ~InPlan(Dead, h)
  BY DEF InPlan, None, Dead
<1>4. \A x, h : Kill(x, h) = Dead \/ Kill(x, h) = x
  BY DEF Kill
<1>5. \A x \in Spot, h \in Group : Kill(x, h) \in Spot
  BY <1>4, SpotType
<1> QED
  BY <1>1, <1>2, <1>3, <1>5 DEF Kill

-----------------------------------------------------------------------------
(* What does not depend on what a step changes.                            *)

\* A plan holds as long as its own tensors and temporaries stay where they are.
LEMMA PlanKept ==
    ASSUME NEW m \in Models, NEW ts, NEW ts2, NEW cs, NEW cs2, NEW g, NEW n, PlanOK(m, ts, cs, g, n),
           \A t \in TensorsOf(m) : ts2[t].group = g => ts[t].group = g /\ ts2[t].host = ts[t].host,
           \A k \in OpsOf(m) : cs2[k].group = g => cs[k].group = g /\ cs2[k].temp = cs[k].temp
    PROVE  PlanOK(m, ts2, cs2, g, n)
<1>1. \A k \in OpsOf(m) : k \in TensorsOf(m)
  BY DEF TensorsOf
<1>2. \A k \in InputsOf(m) : k \in TensorsOf(m)
  BY DEF TensorsOf
<1>3. /\ Hosts(m, ts, g, n) /\ Temps(m, cs, g, n)
      /\ KeepsHost(m, ts, g, n) /\ KeepsTemp(m, ts, cs, g, n) /\ InputsApart(m, ts, g, n)
  BY DEF PlanOK
<1>4. Hosts(m, ts2, g, n)
  BY <1>3 DEF Hosts
<1>5. Temps(m, cs2, g, n)
  BY <1>3 DEF Temps
<1>6. KeepsHost(m, ts2, g, n)
  BY <1>1, <1>3 DEF KeepsHost
<1>7. KeepsTemp(m, ts2, cs2, g, n)
  BY <1>1, <1>3 DEF KeepsTemp
<1>8. InputsApart(m, ts2, g, n)
  BY <1>2, <1>3 DEF InputsApart
<1> QED
  BY <1>4, <1>5, <1>6, <1>7, <1>8 DEF PlanOK

\* Who holds what depends on mem alone.
LEMMA HeldSame ==
    ASSUME NEW m, NEW ts, NEW ts2, \A t \in TensorsOf(m) : ts2[t].mem = ts[t].mem, NEW g
    PROVE  HeldIn(m, ts2, g) = HeldIn(m, ts, g)
BY DEF HeldIn

\* The parts of Basic that the state's records give.
LEMMA TypeFacts ==
    ASSUME NEW m, NEW fl, NEW ca, NEW ts, NEW cs, NEW pl, NEW a, Basic(m, fl, ca, ts, cs, pl, a)
    PROVE  /\ m \in Models /\ fl \in FlagsType /\ a \in CallType
           /\ DOMAIN ts = TensorsOf(m) /\ \A t \in TensorsOf(m) : ts[t] \in TensorType
           /\ DOMAIN cs = OpsOf(m) /\ \A i \in OpsOf(m) : cs[i] \in CommandType
           /\ DOMAIN ca = OpsOf(m) /\ \A i \in OpsOf(m) : ca[i] \in CacheType
           /\ DOMAIN pl = Group /\ \A g \in Group : pl[g] \in PlanType
BY DEF Basic, Typed

\* A record that differs in nothing but its length and size.
SameButSize(r, r2) ==
    /\ r2.group = r.group /\ r2.useCount = r.useCount /\ r2.mem = r.mem /\ r2.host = r.host

\* resizeTensor only changes lengths, and asks for a resize.
LEMMA ResizeTensorStep ==
    ASSUME IInv, NEW s \in Shapes, ResizeTensor(s), UNCHANGED model
    PROVE  IInv'
<1>1. PICK m : m = model
  OBVIOUS
<1>2. PICK ts2 : ts2 = tensor'
  OBVIOUS
<1>3. PICK fl2 : fl2 = flags'
  OBVIOUS
<1>4. /\ at = Idle /\ fl2 = [flags EXCEPT !.mNeedResize = TRUE]
      /\ ts2 = [t \in Tensors |-> IF t > 0 THEN tensor[t] ELSE
                   [tensor[t] EXCEPT !.length = s,
                                     !.size = IF model.mAllocInput THEN @ ELSE s]]
      /\ UNCHANGED <<cache, command, plan, at, content, right, sound>>
  BY <1>2, <1>3 DEF ResizeTensor
<1>5. Basic(m, flags, cache, tensor, command, plan, at)
  BY <1>1 DEF IInv
<1>6. s \in Nat /\ Tensors = TensorsOf(m)
  BY <1>1, ShapesAssumption, Names
<1>7. /\ m \in Models /\ flags \in FlagsType
      /\ \A t \in TensorsOf(m) : tensor[t] \in TensorType
  BY <1>5, TypeFacts
<1>8. /\ DOMAIN ts2 = TensorsOf(m)
      /\ \A t \in TensorsOf(m) : ts2[t] = IF t > 0 THEN tensor[t] ELSE
                   [tensor[t] EXCEPT !.length = s,
                                     !.size = IF m.mAllocInput THEN @ ELSE s]
  BY <1>1, <1>4, <1>6
<1>9. /\ \A t \in TensorsOf(m) : ts2[t] \in TensorType /\ SameButSize(tensor[t], ts2[t])
      /\ \A t \in TensorsOf(m) : t > 0 => ts2[t] = tensor[t]
      /\ \A t \in TensorsOf(m) : m.mAllocInput => ts2[t].size = tensor[t].size
      /\ \A t \in TensorsOf(m) : ~m.mAllocInput /\ ~(t > 0) => Fits(ts2, t)
  <2> SUFFICES ASSUME NEW t \in TensorsOf(m)
               PROVE  /\ ts2[t] \in TensorType /\ SameButSize(tensor[t], ts2[t])
                      /\ t > 0 => ts2[t] = tensor[t]
                      /\ m.mAllocInput => ts2[t].size = tensor[t].size
                      /\ ~m.mAllocInput /\ ~(t > 0) => Fits(ts2, t)
    OBVIOUS
  <2>1. tensor[t] \in TensorType
    BY <1>7
  <2>2. CASE t > 0
    BY <1>8, <2>1, <2>2 DEF SameButSize
  <2>3. CASE ~(t > 0)
    <3>1. ts2[t] = [tensor[t] EXCEPT !.length = s, !.size = IF m.mAllocInput THEN @ ELSE s]
      BY <1>8, <2>3
    <3>2. PICK r : r = tensor[t]
      OBVIOUS
    <3>3. PICK v : v = IF m.mAllocInput THEN r.size ELSE s
      OBVIOUS
    <3>4. ts2[t] = [r EXCEPT !.length = s, !.size = v]
      BY <3>1, <3>2, <3>3
    <3>5. r \in TensorType /\ v \in Nat
      BY <1>6, <2>1, <3>2, <3>3 DEF TensorType
    <3>6. PICK r2 : r2 = ts2[t]
      OBVIOUS
    <3>7. /\ r2 \in TensorType /\ r2.length = s /\ r2.size = v
          /\ r2.group = r.group /\ r2.useCount = r.useCount /\ r2.mem = r.mem /\ r2.host = r.host
      BY <1>6, <3>4, <3>5, <3>6 DEF TensorType
    <3>8. ~m.mAllocInput => Fits(ts2, t)
      BY <1>6, <3>3, <3>6, <3>7 DEF Fits
    <3>9. m.mAllocInput => ts2[t].size = tensor[t].size
      BY <3>2, <3>3, <3>6, <3>7
    <3>10. ts2[t] \in TensorType /\ SameButSize(tensor[t], ts2[t])
      BY <3>2, <3>6, <3>7 DEF SameButSize
    <3> QED
      BY <2>3, <3>8, <3>9, <3>10
  <2> QED
    BY <2>2, <2>3
<1>10. fl2 \in FlagsType /\ fl2.mNeedResize /\ fl2.failed = flags.failed /\ fl2.fixed = flags.fixed
  BY <1>4, <1>7 DEF FlagsType
<1>11. Basic(m, fl2, cache, ts2, command, plan, at)
  <2>1. Typed(m, fl2, cache, ts2, command, plan, at)
    <3>1. ts2 \in [TensorsOf(m) -> TensorType]
      BY <1>4, <1>6, <1>9
    <3> QED
      BY <1>5, <1>10, <3>1 DEF Basic, Typed
  <2>2. Grouped(m, ts2)
    BY <1>5, <1>9 DEF Basic, Grouped, SameButSize, TensorsOf
  <2>3. CountInv(m, ts2, command, at)
    BY <1>5, <1>9 DEF Basic, CountInv, SameButSize
  <2> QED
    BY <1>5, <2>1, <2>2, <2>3 DEF Basic
<1>12. ASSUME sound PROVE Good(m, fl2, cache, ts2, command, plan, at, content)
  <2>1. Good(m, flags, cache, tensor, command, plan, at, content)
    BY <1>1, <1>12 DEF IInv
  <2>2. at.call = "none" /\ ~InPassAt(at)
    BY <1>4 DEF Idle, InPassAt
  <2>3. CallInv(m, fl2, command, at)
    BY <1>4, <1>10, <2>2 DEF CallInv
  <2>4. CacheInv(m, fl2, cache, ts2, command, at)
    BY <1>10, <2>1, <2>2 DEF Good, CacheInv
  <2>5. GroupInv(m, fl2, cache, ts2, command)
    BY <1>9, <1>10, <2>1 DEF Good, GroupInv, SameButSize, TensorsOf
  <2>6. Owners(m, fl2, ts2, plan, at)
    BY <1>9, <1>10, <2>1, <2>2 DEF Good, Owners, OwnOnly, SameButSize
  <2>7. Own1(m, fl2, ts2, at)
    <3>1. \A t \in TensorsOf(m) : ts2[t].group = -1 => Fits(ts2, t)
      <4> SUFFICES ASSUME NEW t \in TensorsOf(m), ts2[t].group = -1 PROVE Fits(ts2, t)
        OBVIOUS
      <4>1. tensor[t].group = -1
        BY <1>9 DEF SameButSize
      <4>2. t \in InputsOf(m) /\ ~m.mAllocInput
        BY <1>5, <4>1 DEF Basic, Grouped, TensorsOf
      <4>3. t < 0 /\ t \in Int
        BY <1>7, <4>2, NetFacts
      <4> QED
        BY <1>9, <4>2, <4>3
    <3> QED
      BY <1>9, <1>10, <2>1, <2>2, <3>1 DEF Good, Own1, SameButSize, TensorsOf
  <2>8. LiveInv(m, ts2, plan)
    <3>1. \A g : HeldIn(m, ts2, g) = HeldIn(m, tensor, g)
      BY <1>9, HeldSame DEF SameButSize
    <3> QED
      BY <2>1, <3>1 DEF Good, LiveInv
  <2>9. PassInv(m, ts2, command, plan, at)
    BY <2>2 DEF PassInv
  <2>10. PlansInv(m, fl2, ts2, command, at)
    <3>1. PlanOK(m, tensor, command, 1, Len(m.net) + 1)
      BY <2>1, <2>2 DEF Good, PlansInv
    <3>2. PlanOK(m, ts2, command, 1, Len(m.net) + 1)
      BY <1>7, <1>9, <3>1, PlanKept DEF SameButSize
    <3> QED
      BY <1>10, <2>2, <3>2 DEF PlansInv
  <2>11. FrozenInv(m, cache, ts2, command, at)
    <3> SUFFICES ASSUME NEW i \in OpsOf(m), command[i].group = 1
                 PROVE  /\ Fits(ts2, i)
                        /\ \A k \in DOMAIN m.net[i].in :
                              ts2[m.net[i].in[k]].group = 1 => cache[i].seen[k] <= ts2[m.net[i].in[k]].size
      BY DEF FrozenInv
    <3>1. /\ Fits(tensor, i)
          /\ \A k \in DOMAIN m.net[i].in :
                 tensor[m.net[i].in[k]].group = 1 => cache[i].seen[k] <= tensor[m.net[i].in[k]].size
      BY <2>1, <2>2 DEF Good, FrozenInv
    <3>2. i \in TensorsOf(m) /\ i > 0
      BY <1>7, NetFacts DEF TensorsOf
    <3>3. ASSUME NEW k \in DOMAIN m.net[i].in, ts2[m.net[i].in[k]].group = 1
          PROVE  cache[i].seen[k] <= ts2[m.net[i].in[k]].size
      <4>1. PICK t : t = m.net[i].in[k]
        OBVIOUS
      <4>2. t \in TensorsOf(m)
        <5>1. Reader(m, t, i)
          BY <4>1 DEF Reader, ToSet
        <5> QED
          BY <1>7, <5>1, NetFacts
      <4>3. tensor[t].group = 1 /\ cache[i].seen[k] <= tensor[t].size
        BY <1>9, <3>1, <3>3, <4>1, <4>2 DEF SameButSize
      <4>4. t > 0 \/ m.mAllocInput
        <5>1. t \in OpsOf(m) \/ t \in InputsOf(m)
          BY <4>2 DEF TensorsOf
        <5>2. t \in OpsOf(m) => t > 0
          BY <1>7, NetFacts
        <5> QED
          BY <1>5, <4>3, <5>1, <5>2 DEF Basic, Grouped
      <4>5. ts2[t].size = tensor[t].size
        BY <1>9, <4>2, <4>4
      <4> QED
        BY <4>1, <4>3, <4>5
    <3>4. Fits(ts2, i)
      BY <1>9, <3>1, <3>2 DEF Fits
    <3> QED
      BY <3>3, <3>4
  <2>12. RunInv(m, ts2, at, content)
    BY <2>2 DEF RunInv
  <2> QED
    BY <2>3, <2>4, <2>5, <2>6, <2>7, <2>8, <2>9, <2>10, <2>11, <2>12 DEF Good
<1> QED
  BY <1>1, <1>2, <1>3, <1>4, <1>11, <1>12 DEF IInv

\* Session_Resize_Check keeps what the operators remember; it breaks the contract after fixResizeCache.
LEMMA OpenResizeCheckStep ==
    ASSUME IInv, OpenResizeCheck, UNCHANGED model
    PROVE  IInv'
<1>1. PICK m : m = model
  OBVIOUS
<1>2. PICK ca2 : ca2 = cache'
  OBVIOUS
<1>3. /\ at = Idle /\ ca2 = [i \in Ops |-> [cache[i] EXCEPT !.mCanCache = TRUE]]
      /\ sound' = (sound /\ ~flags.fixed)
      /\ UNCHANGED <<flags, tensor, command, plan, at, content, right>>
  BY <1>2 DEF OpenResizeCheck
<1>4. Basic(m, flags, cache, tensor, command, plan, at)
  BY <1>1 DEF IInv
<1>5. m \in Models /\ flags \in FlagsType /\ \A i \in OpsOf(m) : cache[i] \in CacheType
  BY <1>4, TypeFacts
<1>6. DOMAIN ca2 = OpsOf(m) /\ \A i \in OpsOf(m) : ca2[i] = [cache[i] EXCEPT !.mCanCache = TRUE]
  BY <1>1, <1>3, Names
<1>7. ASSUME NEW i \in OpsOf(m)
      PROVE  /\ ca2[i] \in CacheType /\ ca2[i].seen = cache[i].seen
             /\ ca2[i].mComputed = cache[i].mComputed /\ ca2[i].mPass = cache[i].mPass
  <2>1. cache[i] \in CacheType /\ ca2[i] = [cache[i] EXCEPT !.mCanCache = TRUE]
    BY <1>5, <1>6
  <2> QED
    BY <2>1 DEF CacheType
<1>8. Basic(m, flags, ca2, tensor, command, plan, at)
  <2>1. ca2 \in [OpsOf(m) -> CacheType]
    BY <1>1, <1>3, <1>7, Names
  <2>2. Typed(m, flags, ca2, tensor, command, plan, at)
    BY <1>4, <2>1 DEF Basic, Typed
  <2>3. Made(m, ca2, command)
    BY <1>4, <1>7 DEF Basic, Made
  <2> QED
    BY <1>4, <2>2, <2>3 DEF Basic
<1>9. ASSUME sound, ~flags.fixed PROVE Good(m, flags, ca2, tensor, command, plan, at, content)
  <2>1. Good(m, flags, cache, tensor, command, plan, at, content)
    BY <1>1, <1>9 DEF IInv
  <2>2. /\ \A i \in OpsOf(m) : command[i].group = 0
        /\ \A t \in TensorsOf(m) : tensor[t].group # 1
    BY <1>9, <2>1 DEF Good, GroupInv
  <2>3. CacheInv(m, flags, ca2, tensor, command, at)
    BY <1>7, <2>1 DEF Good, CacheInv
  <2>4. GroupInv(m, flags, ca2, tensor, command)
    BY <2>2 DEF GroupInv
  <2>5. FrozenInv(m, ca2, tensor, command, at)
    BY <2>2 DEF FrozenInv
  <2> QED
    BY <2>1, <2>3, <2>4, <2>5 DEF Good
<1>10. sound' \in BOOLEAN /\ right' \in BOOLEAN
  BY <1>3 DEF IInv
<1>11. sound' => right' /\ Good(m, flags, ca2, tensor, command, plan, at, content)
  BY <1>3, <1>9 DEF IInv
<1> QED
  BY <1>1, <1>2, <1>3, <1>8, <1>10, <1>11 DEF IInv

\* Outside a pass, and without a failure, no tensor owns memory of a plan.
LEMMA CreateFailsStep ==
    ASSUME IInv, CreateFails, UNCHANGED model
    PROVE  IInv'
<1>1. PICK m : m = model
  OBVIOUS
<1>2. PICK fl2 : fl2 = flags'
  OBVIOUS
<1>3. /\ at.call = "create" /\ fl2 = [flags EXCEPT !.failed = @ \/ Checking(cache)]
      /\ at' = Idle /\ UNCHANGED <<cache, tensor, command, plan, content, right, sound>>
  BY <1>2 DEF CreateFails
<1>4. Basic(m, flags, cache, tensor, command, plan, at)
  BY <1>1 DEF IInv
<1>5. m \in Models /\ flags \in FlagsType
  BY <1>4, TypeFacts
<1>6. /\ fl2 \in FlagsType /\ fl2.mNeedResize = flags.mNeedResize /\ fl2.fixed = flags.fixed
      /\ fl2.unbound = flags.unbound /\ (flags.failed => fl2.failed)
  <2>1. (flags.failed \/ Checking(cache)) \in BOOLEAN
    BY DEF Checking
  <2> QED
    BY <1>3, <1>5, <2>1 DEF FlagsType
<1>7. Idle.call = "none" /\ Idle.i = 0 /\ Idle.g = 0 /\ ~Idle.allocInput /\ ~InPassAt(Idle) /\ Idle \in CallType
  BY DEF Idle, InPassAt, CallType, Group
<1>8. Basic(m, fl2, cache, tensor, command, plan, Idle)
  <2>1. Len(m.net) \in Nat
    BY <1>5, NetFacts
  <2> QED
    BY <1>4, <1>6, <1>7, <2>1 DEF Basic, Typed, PassAt, CountInv
<1>9. ASSUME sound PROVE Good(m, fl2, cache, tensor, command, plan, Idle, content)
  <2>1. Good(m, flags, cache, tensor, command, plan, at, content)
    BY <1>1, <1>9 DEF IInv
  <2>2. flags.mNeedResize /\ ~flags.failed
    BY <1>3, <2>1 DEF Good, CallInv
  <2>3. CallInv(m, fl2, command, Idle)
    BY <1>6, <1>7, <2>2 DEF CallInv
  <2>4. CacheInv(m, fl2, cache, tensor, command, Idle)
    BY <1>6, <1>7, <2>1, <2>2 DEF Good, CacheInv
  <2>5. GroupInv(m, fl2, cache, tensor, command)
    BY <1>6, <2>1 DEF Good, GroupInv
  <2>6. Owners(m, fl2, tensor, plan, Idle)
    BY <1>3, <1>7, <2>1 DEF Good, Owners, InPassAt
  <2>7. Own1(m, fl2, tensor, Idle)
    <3>1. \A t \in InputsOf(m) : tensor[t].mem = None
      BY <1>3, <2>1, <2>2 DEF Good, Own1, InPassAt
    <3> QED
      BY <1>6, <1>7, <2>1, <3>1 DEF Good, Own1
  <2>8. PassInv(m, tensor, command, plan, Idle)
    BY <1>7 DEF PassInv
  <2>9. PlansInv(m, fl2, tensor, command, Idle)
    BY <1>3, <1>6, <1>7, <2>1 DEF Good, PlansInv
  <2>10. FrozenInv(m, cache, tensor, command, Idle)
    BY <1>3, <2>1 DEF Good, FrozenInv
  <2>11. RunInv(m, tensor, Idle, content)
    BY <1>7 DEF RunInv
  <2> QED
    BY <2>1, <2>3, <2>4, <2>5, <2>6, <2>7, <2>8, <2>9, <2>10, <2>11 DEF Good
<1> QED
  BY <1>1, <1>2, <1>3, <1>8, <1>9 DEF IInv

-----------------------------------------------------------------------------
(* A run.                                                                  *)

\* No call is in progress.
LEMMA IdleFacts ==
    Idle.call = "none" /\ Idle.i = 0 /\ Idle.g = 0 /\ ~Idle.allocInput /\ ~InPassAt(Idle) /\ Idle \in CallType
BY DEF Idle, InPassAt, CallType, Group

\* A tensor has memory, of its group or of its own.
Stands(m, ts, t) ==
    /\ Fits(ts, t)
    /\ \/ (ts[t].group = -1 \/ Static(m, t)) /\ ts[t].host = Own(t)
       \/ ts[t].group \in Group /\ ts[t].host \in Places(ts[t].group)

\* After a resize, and unless fixResizeCache calls for another, everything has memory.
Planned(m, ts, cs) ==
    /\ \A t \in TensorsOf(m) : Stands(m, ts, t)
    /\ \A k \in OpsOf(m) : cs[k].temp \in Places(cs[k].group)
    /\ \A t \in TensorsOf(m), k \in OpsOf(m) :
          /\ Live(m, t, k) => ts[t].host # ts[k].host
          /\ t = k \/ Live(m, t, k) => ts[t].host # cs[k].temp
    /\ \A x, y \in InputsOf(m) : x # y => ts[x].host # ts[y].host

\* What was fixed has room for what it gets.
LEMMA FrozenFits ==
    ASSUME NEW m, NEW fl, NEW ca, NEW ts, NEW cs, NEW pl, NEW a,
           Basic(m, fl, ca, ts, cs, pl, a), a.call # "fix",
           GroupInv(m, fl, ca, ts, cs), FrozenInv(m, ca, ts, cs, a),
           \A i \in OpsOf(m) : ca[i].seen = LengthsOf(m, ts, i),
           NEW t \in TensorsOf(m), ts[t].group = 1
    PROVE  Fits(ts, t)
<1>1. PICK i \in OpsOf(m) : cs[i].group = 1 /\ (t = i \/ Reader(m, t, i))
  BY DEF GroupInv
<1>2. /\ Fits(ts, i)
      /\ \A k \in DOMAIN m.net[i].in :
             ts[m.net[i].in[k]].group = 1 => ca[i].seen[k] <= ts[m.net[i].in[k]].size
  BY <1>1 DEF FrozenInv
<1>3. ASSUME Reader(m, t, i) PROVE Fits(ts, t)
  <2>1. PICK k \in DOMAIN m.net[i].in : m.net[i].in[k] = t
    BY <1>3 DEF Reader, ToSet
  <2>2. ca[i].seen[k] <= ts[t].size
    BY <1>2, <2>1
  <2>3. ca[i].seen[k] = ts[t].length
    BY <2>1 DEF LengthsOf
  <2> QED
    BY <2>2, <2>3 DEF Fits
<1> QED
  BY <1>1, <1>2, <1>3

\* Every tensor is reached.
LEMMA AllReached ==
    ASSUME NEW m \in Models, NEW t \in TensorsOf(m), NEW n \in Nat, n > Len(m.net)
    PROVE  Reached(m, t, n)
<1>1. t \in Int /\ t # 0 /\ (t < 0 => t \in InputsOf(m)) /\ (t > 0 => t \in OpsOf(m)) /\ Len(m.net) \in Nat
  BY NetFacts
<1>2. CASE t > 0
  <2>1. t <= Len(m.net)
    BY <1>1, <1>2, NetFacts
  <2> QED
    BY <1>1, <1>2, <2>1 DEF Reached
<1>3. CASE ~(t > 0)
  <2>1. PICK i \in OpsOf(m) : Reader(m, t, i)
    BY <1>1, <1>3, NetFacts
  <2>2. i < n
    <3>1. i <= Len(m.net) /\ i \in Nat
      BY NetFacts
    <3> QED
      BY <1>1, <3>1
  <2> QED
    BY <1>3, <2>1, <2>2 DEF Reached
<1> QED
  BY <1>2, <1>3

\* Between a resize and the next change of a shape every plan covers all commands.
LEMMA ReadyPlanned ==
    ASSUME NEW m, NEW fl, NEW ca, NEW ts, NEW cs, NEW pl, NEW a, NEW co,
           Basic(m, fl, ca, ts, cs, pl, a), Good(m, fl, ca, ts, cs, pl, a, co),
           ~fl.mNeedResize, ~fl.unbound, a.call # "fix"
    PROVE  Planned(m, ts, cs)
<1> DEFINE n == Len(m.net) + 1
<1>1. m \in Models /\ (\A t \in TensorsOf(m) : ts[t] \in TensorType) /\ (\A k \in OpsOf(m) : cs[k] \in CommandType)
  BY TypeFacts
<1>2. /\ \A t \in TensorsOf(m) : ts[t].group \in {-1, 0, 1}
      /\ \A k \in OpsOf(m) : cs[k].group \in {0, 1} /\ k \in TensorsOf(m)
  BY <1>1 DEF TensorType, CommandType, Group, TensorsOf
<1>3. n \in Nat /\ n > Len(m.net) /\ \A k \in OpsOf(m) : k < n
  <2>1. Len(m.net) \in Nat /\ \A k \in OpsOf(m) : k \in Nat /\ k <= Len(m.net)
    BY <1>1, NetFacts
  <2> QED
    BY <2>1
<1>4. \A t \in TensorsOf(m) : Reached(m, t, n)
  BY <1>1, <1>3, AllReached
<1> HIDE DEF n
<1>5. PlanOK(m, ts, cs, 1, n) /\ PlanOK(m, ts, cs, 0, n) /\ \A t \in TensorsOf(m) : ts[t].group = 0 => Fits(ts, t)
  BY DEF Good, PlansInv, n
<1>6. \A t \in TensorsOf(m) : ts[t].group = 1 => Fits(ts, t)
  <2>1. \A i \in OpsOf(m) : ca[i].seen = LengthsOf(m, ts, i)
    BY DEF Good, CacheInv
  <2> QED
    BY <2>1, FrozenFits DEF Good
<1>7. \A t \in TensorsOf(m) : ts[t].group = -1 => ts[t].host = Own(t) /\ Fits(ts, t)
  BY DEF Good, Own1
<1>8. \A t \in TensorsOf(m), g \in {0, 1} : ts[t].group = g =>
          IF Static(m, t) THEN ts[t].host = Own(t) ELSE ts[t].host \in Places(g)
  BY <1>4, <1>5 DEF PlanOK, Hosts
<1>9. \A k \in OpsOf(m), g \in {0, 1} : cs[k].group = g => cs[k].temp \in Places(g)
  BY <1>3, <1>5 DEF PlanOK, Temps
<1>10. ASSUME NEW t \in TensorsOf(m) PROVE Stands(m, ts, t)
  BY <1>2, <1>5, <1>6, <1>7, <1>8 DEF Stands, Group
<1>11. \A g, h \in {0, 1} : \A x, y : x \in Places(g) /\ y \in Places(h) /\ x = y => g = h
  BY SpotFacts DEF Places
<1>12. \A g \in {0, 1} : \A x, t : x \in Places(g) => x # Own(t)
  BY SpotFacts DEF Places
<1>13. ASSUME NEW t \in TensorsOf(m), NEW k \in TensorsOf(m), t # k,
              ts[t].group = ts[k].group /\ ts[t].group \in {0, 1} => ts[t].host # ts[k].host
       PROVE  ts[t].host # ts[k].host
  <2>1. CASE ts[t].host = Own(t)
    <3>1. ts[k].host = Own(k) \/ (ts[k].group \in {0, 1} /\ ts[k].host \in Places(ts[k].group))
      BY <1>10 DEF Stands, Group
    <3> QED
      BY <1>12, <1>13, <2>1, <3>1, SpotFacts
  <2>2. CASE ts[t].group \in {0, 1} /\ ts[t].host \in Places(ts[t].group)
    <3>1. ts[k].host = Own(k) \/ (ts[k].group \in {0, 1} /\ ts[k].host \in Places(ts[k].group))
      BY <1>10 DEF Stands, Group
    <3> QED
      BY <1>11, <1>12, <1>13, <2>2, <3>1
  <2> QED
    BY <1>10, <2>1, <2>2 DEF Stands, Group
<1>14. ASSUME NEW t \in TensorsOf(m), NEW k \in OpsOf(m), Live(m, t, k) PROVE ts[t].host # ts[k].host
  <2>1. t # k /\ k \in TensorsOf(m)
    <3>1. t < k /\ t \in Int /\ k \in Int
      BY <1>1, <1>2, <1>14, NetFacts DEF Live
    <3> QED
      BY <1>2, <3>1
  <2>2. ts[t].group = ts[k].group /\ ts[t].group \in {0, 1} => ts[t].host # ts[k].host
    BY <1>3, <1>4, <1>5, <1>14 DEF PlanOK, KeepsHost
  <2> QED
    BY <1>13, <2>1, <2>2
<1>15. ASSUME NEW t \in TensorsOf(m), NEW k \in OpsOf(m), t = k \/ Live(m, t, k) PROVE ts[t].host # cs[k].temp
  <2>1. cs[k].group \in {0, 1} /\ cs[k].temp \in Places(cs[k].group)
    BY <1>2, <1>9
  <2>2. CASE ts[t].host = Own(t)
    BY <1>12, <2>1, <2>2
  <2>3. CASE ts[t].group \in {0, 1} /\ ts[t].host \in Places(ts[t].group)
    <3>1. ts[t].group = cs[k].group => ts[t].host # cs[k].temp
      BY <1>3, <1>4, <1>5, <1>15, <2>1 DEF PlanOK, KeepsTemp
    <3> QED
      BY <1>11, <2>1, <2>3, <3>1
  <2> QED
    BY <1>10, <2>2, <2>3 DEF Stands, Group
<1>16. ASSUME NEW x \in InputsOf(m), NEW y \in InputsOf(m), x # y PROVE ts[x].host # ts[y].host
  <2>1. x \in TensorsOf(m) /\ y \in TensorsOf(m)
    BY DEF TensorsOf
  <2>2. ts[x].group = ts[y].group /\ ts[x].group \in {0, 1} => ts[x].host # ts[y].host
    BY <1>4, <1>5, <1>16, <2>1 DEF PlanOK, InputsApart
  <2> QED
    BY <1>13, <1>16, <2>1, <2>2
<1>17. \A k \in OpsOf(m) : cs[k].temp \in Places(cs[k].group)
  BY <1>2, <1>9
<1> QED
  BY <1>10, <1>14, <1>15, <1>16, <1>17 DEF Planned

\* A run that is over leaves the session as it was.
LEMMA RunOver ==
    ASSUME NEW m, NEW fl, NEW ca, NEW ts, NEW cs, NEW pl, NEW a, NEW co, NEW co2,
           Basic(m, fl, ca, ts, cs, pl, a), a.call = "run"
    PROVE  /\ Basic(m, fl, ca, ts, cs, pl, Idle)
           /\ Good(m, fl, ca, ts, cs, pl, a, co) => Good(m, fl, ca, ts, cs, pl, Idle, co2)
<1>1. m \in Models /\ fl \in FlagsType
  BY TypeFacts
<1>2. Basic(m, fl, ca, ts, cs, pl, Idle)
  <2>1. Len(m.net) \in Nat
    BY <1>1, NetFacts
  <2> QED
    BY <2>1, IdleFacts DEF Basic, Typed, PassAt, CountInv
<1>3. ASSUME Good(m, fl, ca, ts, cs, pl, a, co) PROVE Good(m, fl, ca, ts, cs, pl, Idle, co2)
  <2>1. ~fl.mNeedResize /\ ~fl.unbound /\ ~fl.failed
    BY <1>3 DEF Good, CallInv
  <2>2. CallInv(m, fl, cs, Idle)
    BY <1>3, <2>1, IdleFacts DEF Good, CallInv
  <2>3. CacheInv(m, fl, ca, ts, cs, Idle)
    BY <1>3, <2>1 DEF Good, CacheInv
  <2>4. Owners(m, fl, ts, pl, Idle)
    BY <1>3, <2>1, IdleFacts DEF Good, Owners, InPassAt
  <2>5. Own1(m, fl, ts, Idle)
    <3>1. ~InPassAt(a)
      BY DEF InPassAt
    <3> QED
      BY <1>3, <2>1, <3>1, IdleFacts DEF Good, Own1
  <2>6. PassInv(m, ts, cs, pl, Idle)
    BY IdleFacts DEF PassInv
  <2>7. PlansInv(m, fl, ts, cs, Idle)
    BY <1>3, IdleFacts DEF Good, PlansInv
  <2>8. FrozenInv(m, ca, ts, cs, Idle)
    BY <1>3 DEF Good, FrozenInv
  <2>9. RunInv(m, ts, Idle, co2)
    BY IdleFacts DEF RunInv
  <2> QED
    BY <1>3, <2>2, <2>3, <2>4, <2>5, <2>6, <2>7, <2>8, <2>9 DEF Good
<1> QED
  BY <1>2, <1>3

\* A run that stops leaves the plans alone.
LEMMA RunFailsStep ==
    ASSUME IInv, RunFails, UNCHANGED model
    PROVE  IInv'
<1>1. /\ at.call = "run" /\ at' = Idle
      /\ UNCHANGED <<flags, cache, tensor, command, plan, right, sound>>
  BY DEF RunFails
<1>2. PICK co2 : co2 = content'
  OBVIOUS
<1>3. Basic(model, flags, cache, tensor, command, plan, at)
  BY DEF IInv
<1>4. /\ Basic(model, flags, cache, tensor, command, plan, Idle)
      /\ Good(model, flags, cache, tensor, command, plan, at, content) =>
            Good(model, flags, cache, tensor, command, plan, Idle, co2)
  BY <1>1, <1>3, RunOver
<1> QED
  BY <1>1, <1>2, <1>4 DEF IInv

\* What has memory is backed.
LEMMA StandsBacked ==
    ASSUME NEW t, Stands(model, tensor, t)
    PROVE  Backed(t)
<1>1. \A g : \A x \in Places(g) : x[1] = "plan"
  BY SpotFacts DEF Places
<1> QED
  BY <1>1, SpotFacts DEF Stands, Backed, Fits

\* The outputs still hold their values when the run ends: no later command wrote over them.
LEMMA RunEndStep ==
    ASSUME IInv, RunEnd, UNCHANGED model
    PROVE  IInv'
<1>1. /\ at.call = "run" /\ at.i = Len(net) + 1 /\ at' = Idle
      /\ right' = (right /\ \A t \in Ops : net[t].output => Finds(t))
      /\ UNCHANGED <<flags, cache, tensor, command, plan, sound>>
  BY DEF RunEnd
<1>2. PICK co2 : co2 = content'
  OBVIOUS
<1>3. Basic(model, flags, cache, tensor, command, plan, at)
  BY DEF IInv
<1>4. /\ Basic(model, flags, cache, tensor, command, plan, Idle)
      /\ Good(model, flags, cache, tensor, command, plan, at, content) =>
            Good(model, flags, cache, tensor, command, plan, Idle, co2)
  BY <1>1, <1>3, RunOver
<1>5. ASSUME sound PROVE right'
  <2>1. right /\ Good(model, flags, cache, tensor, command, plan, at, content)
    BY <1>5 DEF IInv
  <2>2. ~flags.mNeedResize /\ ~flags.unbound /\ at.call # "fix"
    BY <1>1, <2>1 DEF Good, CallInv
  <2>3. Planned(model, tensor, command)
    BY <1>3, <2>1, <2>2, ReadyPlanned
  <2>4. ASSUME NEW t \in Ops, net[t].output PROVE Finds(t)
    <3>1. model \in Models
      BY <1>3, TypeFacts
    <3>2. t \in OpsOf(model) /\ t \in TensorsOf(model) /\ net = model.net
      BY Names DEF TensorsOf
    <3>3. t > 0 /\ t < at.i
      <4>1. Len(model.net) \in Nat /\ t \in Nat /\ t > 0 /\ t <= Len(model.net)
        BY <3>1, <3>2, NetFacts
      <4> QED
        BY <1>1, <3>2, <4>1
    <3>4. Needed(model, t, at.i)
      BY <2>4, <3>2, <3>3 DEF Needed, Output
    <3>5. tensor[t].host \in DOMAIN content /\ content[tensor[t].host] = t
      BY <1>1, <2>1, <3>2, <3>3, <3>4 DEF Good, RunInv
    <3>6. Backed(t)
      BY <2>3, <3>2, StandsBacked DEF Planned
    <3> QED
      BY <3>5, <3>6 DEF Finds
  <2> QED
    BY <1>1, <2>1, <2>4
<1>6. right' \in BOOLEAN
  BY <1>1 DEF IInv
<1> QED
  BY <1>1, <1>2, <1>4, <1>5, <1>6 DEF IInv

\* The inputs have room, apart from each other, when run is called.
LEMMA RunStep ==
    ASSUME IInv, Run, UNCHANGED model
    PROVE  IInv'
<1>1. PICK m : m = model
  OBVIOUS
<1>2. PICK co2 : co2 = content'
  OBVIOUS
<1>3. PICK a2 : a2 = at'
  OBVIOUS
<1>4. /\ at = Idle /\ ~flags.mNeedResize
      /\ co2 \in {f \in [{tensor[x].host : x \in Inputs} -> Inputs] : \A h \in DOMAIN f : tensor[f[h]].host = h}
      /\ right' = (right /\ \A x \in Inputs : Backed(x))
      /\ sound' = (sound /\ ~flags.unbound)
      /\ a2 = [Idle EXCEPT !.call = "run", !.i = 1]
      /\ UNCHANGED <<flags, cache, tensor, command, plan>>
  BY <1>2, <1>3 DEF Run
<1>5. a2 \in CallType /\ a2.call = "run" /\ a2.i = 1 /\ ~InPassAt(a2)
  BY <1>4 DEF Idle, CallType, InPassAt, Group
<1>6. Basic(m, flags, cache, tensor, command, plan, at)
  BY <1>1 DEF IInv
<1>7. m \in Models
  BY <1>6, TypeFacts
<1>8. Basic(m, flags, cache, tensor, command, plan, a2)
  <2>1. Len(m.net) \in Nat
    BY <1>7, NetFacts
  <2> QED
    BY <1>5, <1>6, <2>1 DEF Basic, Typed, PassAt, CountInv
<1>9. ASSUME sound, ~flags.unbound
      PROVE  right' /\ Good(m, flags, cache, tensor, command, plan, a2, co2)
  <2>1. right /\ Good(m, flags, cache, tensor, command, plan, at, content)
    BY <1>1, <1>9 DEF IInv
  <2>2. at.call = "none" /\ ~InPassAt(at)
    BY <1>4, IdleFacts
  <2>3. Planned(m, tensor, command)
    BY <1>4, <1>6, <1>9, <2>1, <2>2, ReadyPlanned
  <2>4. \A x \in InputsOf(m) : x \in TensorsOf(m)
    BY DEF TensorsOf
  <2>5. right'
    BY <1>1, <1>4, <2>1, <2>3, <2>4, Names, StandsBacked DEF Planned
  <2>6. CallInv(m, flags, command, a2)
    BY <1>4, <1>5, <1>9, <2>1 DEF Good, CallInv
  <2>7. CacheInv(m, flags, cache, tensor, command, a2)
    BY <1>4, <2>1 DEF Good, CacheInv
  <2>8. ~flags.failed
    BY <1>4, <2>1 DEF Good, CallInv
  <2>9. Owners(m, flags, tensor, plan, a2)
    BY <2>1, <2>2, <2>8 DEF Good, Owners
  <2>10. Own1(m, flags, tensor, a2)
    BY <1>5, <2>1, <2>2, <2>8 DEF Good, Own1
  <2>11. PassInv(m, tensor, command, plan, a2)
    BY <1>5 DEF PassInv
  <2>12. PlansInv(m, flags, tensor, command, a2)
    BY <1>5, <2>1, <2>2 DEF Good, PlansInv
  <2>13. FrozenInv(m, cache, tensor, command, a2)
    BY <2>1, <2>2 DEF Good, FrozenInv
  <2>14. RunInv(m, tensor, a2, co2)
    <3> SUFFICES ASSUME NEW t \in TensorsOf(m), t < 1
                 PROVE  tensor[t].host \in DOMAIN co2 /\ co2[tensor[t].host] = t
      BY <1>5 DEF RunInv
    <3>1. t \in InputsOf(m)
      <4>1. t \in Int /\ t # 0 /\ (t < 0 <=> t \in InputsOf(m))
        BY <1>7, NetFacts
      <4> QED
        BY <4>1
    <3>2. PICK h : h = tensor[t].host
      OBVIOUS
    <3>3. /\ DOMAIN co2 = {tensor[x].host : x \in InputsOf(m)}
          /\ \A x \in DOMAIN co2 : co2[x] \in InputsOf(m) /\ tensor[co2[x]].host = x
      BY <1>1, <1>4, Names
    <3>4. h \in DOMAIN co2
      BY <3>1, <3>2, <3>3
    <3>5. co2[h] \in InputsOf(m) /\ tensor[co2[h]].host = tensor[t].host
      BY <3>2, <3>3, <3>4
    <3>6. co2[h] = t
      BY <2>3, <3>1, <3>5 DEF Planned
    <3> QED
      BY <3>2, <3>4, <3>6
  <2> QED
    BY <2>1, <2>5, <2>6, <2>7, <2>9, <2>10, <2>11, <2>12, <2>13, <2>14 DEF Good
<1>10. right' \in BOOLEAN /\ sound' \in BOOLEAN
  BY <1>4 DEF IInv
<1>11. sound' => right' /\ Good(m, flags, cache, tensor, command, plan, a2, co2)
  BY <1>4, <1>9
<1> QED
  BY <1>1, <1>2, <1>3, <1>4, <1>8, <1>10, <1>11 DEF IInv

\* What is needed later is needed now, and what a command reads is needed by it.
LEMMA NeededFacts ==
    ASSUME NEW m \in Models, NEW t \in TensorsOf(m), NEW k \in Nat
    PROVE  /\ Needed(m, t, k + 1) => Needed(m, t, k)
           /\ k \in OpsOf(m) /\ Needed(m, t, k) /\ ~Reader(m, t, k) => Needed(m, t, k + 1)
           /\ k \in OpsOf(m) /\ Reader(m, t, k) => Needed(m, t, k) /\ Live(m, t, k)
<1>1. \A j \in OpsOf(m) : j \in Nat
  BY NetFacts
<1>2. \A j \in OpsOf(m) : (j >= k + 1 => j >= k) /\ (j >= k => j = k \/ j >= k + 1)
  BY <1>1
<1>3. k \in OpsOf(m) => k >= k
  BY <1>1
<1>4. ASSUME k \in OpsOf(m), Reader(m, t, k) PROVE t < k
  BY <1>4, NetFacts
<1> QED
  BY <1>2, <1>3, <1>4 DEF Needed, Live

\* A command finds its inputs, and writes over nothing that is still needed.
LEMMA RunCommandStep ==
    ASSUME IInv, RunCommand, UNCHANGED model
    PROVE  IInv'
<1>1. PICK m : m = model
  OBVIOUS
<1>2. PICK co2 : co2 = content'
  OBVIOUS
<1>3. PICK a2 : a2 = at'
  OBVIOUS
<1>4. PICK i : i = at.i
  OBVIOUS
<1>5. PICK h : h = tensor[i].host
  OBVIOUS
<1>6. PICK tmp : tmp = command[i].temp
  OBVIOUS
<1>7. /\ at.call = "run" /\ i \in Ops
      /\ right' = (right /\ (\A t \in ToSet(net[i].in) : Finds(t)) /\ Backed(i)
                         /\ tmp[1] = "plan"
                         /\ {tensor[t].host : t \in ToSet(net[i].in)} \intersect {h, tmp} = {}
                         /\ h # tmp)
      /\ co2 = Store(Store(content, tmp, 0), h, i)
      /\ a2 = [at EXCEPT !.i = @ + 1]
      /\ UNCHANGED <<flags, cache, tensor, command, plan, sound>>
  BY <1>2, <1>3, <1>4, <1>5, <1>6 DEF RunCommand
<1>8. Basic(m, flags, cache, tensor, command, plan, at)
  BY <1>1 DEF IInv
<1>9. m \in Models /\ at \in CallType /\ i \in OpsOf(m) /\ i \in TensorsOf(m) /\ net = m.net
  BY <1>1, <1>7, <1>8, TypeFacts, Names DEF TensorsOf
<1>10. i \in Nat /\ i > 0 /\ i <= Len(m.net) /\ Len(m.net) \in Nat
  BY <1>9, NetFacts
<1>11. a2 \in CallType /\ a2.call = "run" /\ a2.i = i + 1 /\ ~InPassAt(a2) /\ ~InPassAt(at)
  BY <1>4, <1>7, <1>9, <1>10 DEF CallType, InPassAt
<1>12. Basic(m, flags, cache, tensor, command, plan, a2)
  BY <1>8, <1>10, <1>11 DEF Basic, Typed, PassAt, CountInv
<1>13. ASSUME sound
       PROVE  right' /\ Good(m, flags, cache, tensor, command, plan, a2, co2)
  <2>1. right /\ Good(m, flags, cache, tensor, command, plan, at, content)
    BY <1>1, <1>13 DEF IInv
  <2>2. ~flags.mNeedResize /\ ~flags.unbound /\ at.call # "fix"
    BY <1>7, <2>1 DEF Good, CallInv
  <2>3. Planned(m, tensor, command)
    BY <1>8, <2>1, <2>2, ReadyPlanned
  <2>4. ASSUME NEW t \in TensorsOf(m), t < i, Needed(m, t, i)
        PROVE  /\ t # i /\ tensor[t].host # h /\ tensor[t].host # tmp
               /\ tensor[t].host \in DOMAIN content /\ content[tensor[t].host] = t
    <3>1. Live(m, t, i)
      BY <2>4 DEF Live
    <3>2. tensor[t].host # h /\ tensor[t].host # tmp
      BY <1>5, <1>6, <1>9, <2>3, <3>1 DEF Planned
    <3>3. t \in Int
      BY <1>9, NetFacts
    <3>4. t # i
      BY <1>10, <2>4, <3>3
    <3> QED
      BY <1>4, <1>7, <2>1, <2>4, <3>2, <3>4 DEF Good, RunInv
  <2>5. ASSUME NEW t, Reader(m, t, i) PROVE t \in TensorsOf(m) /\ t < i /\ Needed(m, t, i)
    <3>1. t \in TensorsOf(m) /\ t < i
      BY <1>9, <2>5, NetFacts
    <3> QED
      BY <1>9, <1>10, <2>5, <3>1, NeededFacts
  <2>6. h # tmp /\ tmp[1] = "plan"
    <3>1. h # tmp
      BY <1>5, <1>6, <1>9, <2>3 DEF Planned
    <3>2. tmp \in Places(command[i].group)
      BY <1>6, <1>9, <2>3 DEF Planned
    <3>3. \A g : \A x \in Places(g) : x[1] = "plan"
      BY SpotFacts DEF Places
    <3> QED
      BY <3>1, <3>2, <3>3
  <2>7. ASSUME NEW t \in TensorsOf(m) PROVE Backed(t)
    BY <1>1, <2>3, StandsBacked DEF Planned
  <2>8. right'
    <3>1. \A t \in ToSet(net[i].in) : Reader(m, t, i)
      BY <1>9 DEF Reader
    <3>2. \A t \in ToSet(net[i].in) : Finds(t)
      BY <2>4, <2>5, <2>7, <3>1 DEF Finds
    <3>3. {tensor[t].host : t \in ToSet(net[i].in)} \intersect {h, tmp} = {}
      BY <2>4, <2>5, <3>1
    <3>4. Backed(i)
      BY <1>9, <2>7
    <3> QED
      BY <1>7, <2>1, <2>6, <3>2, <3>3, <3>4
  <2>9. CallInv(m, flags, command, a2)
    BY <1>11, <2>1, <2>2 DEF Good, CallInv
  <2>10. CacheInv(m, flags, cache, tensor, command, a2)
    BY <2>1, <2>2 DEF Good, CacheInv
  <2>11. ~flags.failed
    BY <2>1, <2>2 DEF Good, CallInv
  <2>12. Owners(m, flags, tensor, plan, a2)
    BY <1>11, <2>1, <2>11 DEF Good, Owners
  <2>13. Own1(m, flags, tensor, a2)
    BY <1>11, <2>1, <2>11 DEF Good, Own1
  <2>14. PassInv(m, tensor, command, plan, a2)
    BY <1>11 DEF PassInv
  <2>15. PlansInv(m, flags, tensor, command, a2)
    BY <1>7, <1>11, <2>1 DEF Good, PlansInv
  <2>16. FrozenInv(m, cache, tensor, command, a2)
    BY <1>7, <2>1 DEF Good, FrozenInv
  <2>17. RunInv(m, tensor, a2, co2)
    <3>1. /\ h \in DOMAIN co2 /\ co2[h] = i
          /\ \A x \in DOMAIN content : x # h /\ x # tmp => x \in DOMAIN co2 /\ co2[x] = content[x]
      BY <1>7 DEF Store
    <3> SUFFICES ASSUME NEW t \in TensorsOf(m), t < i + 1, Needed(m, t, i + 1)
                 PROVE  tensor[t].host \in DOMAIN co2 /\ co2[tensor[t].host] = t
      BY <1>11 DEF RunInv
    <3>2. CASE t = i
      BY <1>5, <3>1, <3>2
    <3>3. CASE t # i
      <4>1. t < i
        <5>1. t \in Int
          BY <1>9, NetFacts
        <5> QED
          BY <1>10, <3>3, <5>1
      <4>2. Needed(m, t, i)
        BY <1>9, <1>10, NeededFacts
      <4> QED
        BY <2>4, <3>1, <4>1, <4>2
    <3> QED
      BY <3>2, <3>3
  <2> QED
    BY <2>1, <2>8, <2>9, <2>10, <2>12, <2>13, <2>14, <2>15, <2>16, <2>17 DEF Good
<1>14. right' \in BOOLEAN
  BY <1>7 DEF IInv
<1> QED
  BY <1>1, <1>2, <1>3, <1>7, <1>12, <1>13, <1>14 DEF IInv

-----------------------------------------------------------------------------
(* The end of a pass.                                                      *)

\* A plan for more commands is one for fewer.
LEMMA PlanEarlier ==
    ASSUME NEW m \in Models, NEW ts, NEW cs, NEW g, NEW n \in Nat, PlanOK(m, ts, cs, g, n + 1)
    PROVE  PlanOK(m, ts, cs, g, n)
<1>1. \A k \in OpsOf(m) : k \in Nat /\ (k < n => k < n + 1)
  BY NetFacts
<1>2. \A t \in TensorsOf(m) : Reached(m, t, n) => Reached(m, t, n + 1)
  <2> SUFFICES ASSUME NEW t \in TensorsOf(m), Reached(m, t, n) PROVE Reached(m, t, n + 1)
    OBVIOUS
  <2>1. t \in Int
    BY NetFacts
  <2>2. CASE t > 0
    BY <2>1, <2>2 DEF Reached
  <2>3. CASE ~(t > 0)
    BY <1>1, <2>3 DEF Reached
  <2> QED
    BY <2>2, <2>3
<1>3. \A k \in InputsOf(m) : k \in TensorsOf(m)
  BY DEF TensorsOf
<1>4. /\ Hosts(m, ts, g, n + 1) /\ Temps(m, cs, g, n + 1)
      /\ KeepsHost(m, ts, g, n + 1) /\ KeepsTemp(m, ts, cs, g, n + 1) /\ InputsApart(m, ts, g, n + 1)
  BY DEF PlanOK
<1>5. Hosts(m, ts, g, n)
  BY <1>2, <1>4 DEF Hosts
<1>6. Temps(m, cs, g, n)
  BY <1>1, <1>4 DEF Temps
<1>7. KeepsHost(m, ts, g, n)
  BY <1>1, <1>2, <1>4 DEF KeepsHost
<1>8. KeepsTemp(m, ts, cs, g, n)
  BY <1>1, <1>2, <1>4 DEF KeepsTemp
<1>9. InputsApart(m, ts, g, n)
  BY <1>2, <1>3, <1>4 DEF InputsApart
<1> QED
  BY <1>5, <1>6, <1>7, <1>8, <1>9 DEF PlanOK

\* No place of a plan is owned by a tensor that owns none of a plan.
LEMMA OwnOnlyHeld ==
    ASSUME NEW m, NEW ts, \A t \in TensorsOf(m) : OwnOnly(m, ts, t), NEW g
    PROVE  HeldIn(m, ts, g) = {}
BY SpotFacts DEF HeldIn, OwnOnly

\* Only inputs own nothing for certain.
LEMMA OwnOnlyInputs ==
    ASSUME NEW m \in Models, NEW ts, NEW t \in InputsOf(m), OwnOnly(m, ts, t)
    PROVE  ts[t].mem = None
<1>1. t \in TensorsOf(m) /\ t < 0 /\ t \in Int
  BY NetFacts DEF TensorsOf
<1>2. ~(t > 0)
  BY <1>1
<1> QED
  BY <1>2 DEF OwnOnly, Static, Output

\* A group's plan has handed out nothing.
NoneUsed(pl, g) == [pl EXCEPT ![g].used = {}]

\* Taking down what a plan has handed out leaves what is held.
LEMMA UsedReset ==
    ASSUME DOMAIN plan = Group, \A x \in Group : plan[x] \in PlanType, NEW g \in Group,
           NEW pl2, pl2 = NoneUsed(plan, g)
    PROVE  pl2 \in [Group -> PlanType] /\ \A x \in Group : pl2[x].live = plan[x].live
<1>1. pl2 = [x \in Group |-> IF x = g THEN [plan[x] EXCEPT !.used = {}] ELSE plan[x]]
  BY DEF NoneUsed
<1>2. ASSUME NEW x \in Group PROVE pl2[x] \in PlanType /\ pl2[x].live = plan[x].live
  <2>1. PICK p \in PlanType : p = plan[x]
    OBVIOUS
  <2>2. pl2[x] = IF x = g THEN [p EXCEPT !.used = {}] ELSE p
    BY <1>1, <2>1
  <2>3. pl2[x] \in PlanType /\ pl2[x].live = p.live
    BY <2>2 DEF PlanType
  <2> QED
    BY <2>1, <2>3
<1> QED
  BY <1>1, <1>2

\* When everything of a resize is recycled no tensor owns memory of a plan, and all have room.
LEMMA AllFit ==
    ASSUME NEW m, Basic(m, flags, cache, tensor, command, plan, at),
           Good(m, flags, cache, tensor, command, plan, at, content),
           at.call = "alloc", at.i = Len(m.net) + 2, NEW t \in TensorsOf(m)
    PROVE  OwnOnly(m, tensor, t) /\ Fits(tensor, t)
<1>1. m \in Models /\ Len(m.net) \in Nat /\ tensor[t] \in TensorType
  BY TypeFacts, NetFacts
<1>2. at.g = 0 /\ at # Idle /\ InPassAt(at)
  BY IdleFacts DEF Basic, PassAt, InPassAt
<1>3. OwnOnly(m, tensor, t)
  BY <1>1, <1>2 DEF Good, Owners
<1>4. Reached(m, t, at.i)
  BY <1>1, AllReached
<1>5. tensor[t].group \in {-1, 0, 1}
  BY <1>1 DEF TensorType
<1>6. CASE tensor[t].group = -1
  BY <1>3, <1>6 DEF Good, Own1
<1>7. CASE tensor[t].group = 0
  BY <1>2, <1>3, <1>4, <1>7 DEF Good, PassInv
<1>8. CASE tensor[t].group = 1
  <2>1. \A i \in OpsOf(m) : cache[i].seen = LengthsOf(m, tensor, i)
    BY DEF Good, CacheInv
  <2> QED
    BY <1>3, <1>8, <2>1, FrozenFits DEF Good
<1> QED
  BY <1>3, <1>5, <1>6, <1>7, <1>8

\* onResizeEnd: the pass has planned every command, so the session may run.
LEMMA ResizeEndStep ==
    ASSUME IInv, ResizeEnd, UNCHANGED model
    PROVE  IInv'
<1>1. PICK m : m = model
  OBVIOUS
<1>2. PICK fl2 : fl2 = flags'
  OBVIOUS
<1>3. PICK pl2 : pl2 = plan'
  OBVIOUS
<1>4. PICK g : g = at.g
  OBVIOUS
<1>5. /\ InPassAt(at) /\ at.i = Len(m.net) + 2 /\ at' = Idle
      /\ pl2 = [plan EXCEPT ![g].used = {}]
      /\ fl2 = IF at.call = "fix" THEN flags
                ELSE [flags EXCEPT !.mNeedResize = FALSE, !.failed = FALSE, !.unbound = FALSE]
      /\ UNCHANGED <<cache, tensor, command, content, right, sound>>
  BY <1>1, <1>2, <1>3, <1>4, Names DEF ResizeEnd, AtEnd, Answered, InPass, InPassAt
<1>6. Basic(m, flags, cache, tensor, command, plan, at)
  BY <1>1 DEF IInv
<1>7. /\ m \in Models /\ flags \in FlagsType /\ at \in CallType
      /\ DOMAIN plan = Group /\ \A x \in Group : plan[x] \in PlanType
  BY <1>6, TypeFacts
<1>8. g \in Group /\ Len(m.net) \in Nat
  BY <1>4, <1>7, NetFacts DEF CallType
<1>9. pl2 \in [Group -> PlanType] /\ \A x \in Group : pl2[x].live = plan[x].live
  <2>1. pl2 = NoneUsed(plan, g)
    BY <1>5 DEF NoneUsed
  <2> QED
    BY <1>7, <1>8, <2>1, UsedReset
<1>11. CASE at.call = "alloc"
  <2>1. /\ fl2 \in FlagsType /\ ~fl2.mNeedResize /\ ~fl2.failed /\ ~fl2.unbound /\ fl2.fixed = flags.fixed
    BY <1>5, <1>7, <1>11 DEF FlagsType
  <2>2. Basic(m, fl2, cache, tensor, command, pl2, Idle)
    BY <1>6, <1>8, <1>9, <2>1, IdleFacts DEF Basic, Typed, PassAt, CountInv
  <2>3. ASSUME sound PROVE Good(m, fl2, cache, tensor, command, pl2, Idle, content)
    <3>1. Good(m, flags, cache, tensor, command, plan, at, content)
      BY <1>1, <2>3 DEF IInv
    <3>2. at.g = 0 /\ at # Idle
      BY <1>6, <1>11, IdleFacts DEF Basic, PassAt
    <3>3. ASSUME NEW t \in TensorsOf(m) PROVE OwnOnly(m, tensor, t) /\ Fits(tensor, t)
      BY <1>5, <1>6, <1>11, <3>1, AllFit
    <3>5. CallInv(m, fl2, command, Idle)
      BY <2>1, IdleFacts DEF CallInv
    <3>6. CacheInv(m, fl2, cache, tensor, command, Idle)
      BY <1>11, <3>1 DEF Good, CacheInv, CallInv
    <3>7. GroupInv(m, fl2, cache, tensor, command)
      BY <2>1, <3>1 DEF Good, GroupInv
    <3>8. Owners(m, fl2, tensor, pl2, Idle)
      BY <3>3 DEF Owners
    <3>10. FrozenInv(m, cache, tensor, command, Idle)
      BY <1>11, <3>1 DEF Good, FrozenInv
    <3>12. Own1(m, fl2, tensor, Idle)
      BY <1>7, <3>1, <3>3, OwnOnlyInputs, IdleFacts DEF Good, Own1, TensorsOf
    <3>13. LiveInv(m, tensor, pl2)
      BY <1>9, <3>1, <3>3, OwnOnlyHeld DEF Good, LiveInv
    <3>14. PlansInv(m, fl2, tensor, command, Idle)
      <4>1. PlanOK(m, tensor, command, 1, Len(m.net) + 1) /\ PlanOK(m, tensor, command, 0, at.i)
        BY <1>11, <3>1 DEF Good, PlansInv
      <4>2. PICK n \in Nat : n = Len(m.net) + 1 /\ at.i = n + 1
        BY <1>5, <1>8
      <4>3. PlanOK(m, tensor, command, 0, n)
        BY <1>7, <4>1, <4>2, PlanEarlier
      <4> QED
        BY <3>3, <4>1, <4>2, <4>3, IdleFacts DEF PlansInv
    <3>15. PassInv(m, tensor, command, pl2, Idle) /\ RunInv(m, tensor, Idle, content)
      BY IdleFacts DEF PassInv, RunInv
    <3> QED
      BY <3>5, <3>6, <3>7, <3>8, <3>10, <3>12, <3>13, <3>14, <3>15 DEF Good
  <2> QED
    BY <1>1, <1>2, <1>3, <1>5, <2>2, <2>3 DEF IInv
<1>12. CASE at.call = "fix"
  <2>1. fl2 = flags
    BY <1>5, <1>12
  <2>2. Basic(m, flags, cache, tensor, command, pl2, Idle)
    BY <1>6, <1>8, <1>9, IdleFacts DEF Basic, Typed, PassAt, CountInv
  <2>3. ASSUME sound PROVE Good(m, flags, cache, tensor, command, pl2, Idle, content)
    <3>1. Good(m, flags, cache, tensor, command, plan, at, content)
      BY <1>1, <2>3 DEF IInv
    <3>2. at.g = 1 /\ at # Idle
      BY <1>6, <1>12, IdleFacts DEF Basic, PassAt
    <3>3. ASSUME NEW t \in TensorsOf(m) PROVE OwnOnly(m, tensor, t)
      BY <1>5, <1>8, <3>1, <3>2 DEF Good, Owners
    <3>4. ASSUME NEW t \in TensorsOf(m) PROVE Reached(m, t, at.i)
      BY <1>5, <1>7, <1>8, AllReached
    <3>5. CallInv(m, flags, command, Idle)
      BY <1>12, <3>1, IdleFacts DEF Good, CallInv
    <3>6. CacheInv(m, flags, cache, tensor, command, Idle)
      BY <3>1, IdleFacts DEF Good, CacheInv
    <3>7. Owners(m, flags, tensor, pl2, Idle)
      BY <3>3 DEF Owners
    <3>8. ASSUME NEW t \in TensorsOf(m), tensor[t].group = 1 PROVE Fits(tensor, t)
      BY <1>5, <3>1, <3>2, <3>4, <3>8 DEF Good, PassInv
    <3>9. FrozenInv(m, cache, tensor, command, Idle)
      <4> SUFFICES ASSUME NEW i \in OpsOf(m), command[i].group = 1
                   PROVE  /\ Fits(tensor, i)
                          /\ \A k \in DOMAIN m.net[i].in :
                                tensor[m.net[i].in[k]].group = 1 =>
                                    cache[i].seen[k] <= tensor[m.net[i].in[k]].size
        BY DEF FrozenInv
      <4>1. command[i].exists /\ tensor[i].group = 1
        BY <3>1 DEF Good, GroupInv
      <4>2. ~flags.mNeedResize
        BY <1>7, <1>12, <3>1, <4>1 DEF Good, CallInv, FlagsType
      <4>3. cache[i].seen = LengthsOf(m, tensor, i)
        BY <3>1, <4>2 DEF Good, CacheInv
      <4>4. Fits(tensor, i)
        BY <3>8, <4>1 DEF TensorsOf
      <4>5. ASSUME NEW k \in DOMAIN m.net[i].in, tensor[m.net[i].in[k]].group = 1
            PROVE  cache[i].seen[k] <= tensor[m.net[i].in[k]].size
        <5>1. PICK t : t = m.net[i].in[k]
          OBVIOUS
        <5>2. Reader(m, t, i)
          BY <5>1 DEF Reader, ToSet
        <5>3. Fits(tensor, t)
          BY <1>7, <3>8, <4>5, <5>1, <5>2, NetFacts
        <5>4. cache[i].seen[k] = tensor[t].length
          BY <4>3, <5>1 DEF LengthsOf
        <5> QED
          BY <5>1, <5>3, <5>4 DEF Fits
      <4> QED
        BY <4>4, <4>5
    <3>10. Own1(m, flags, tensor, Idle)
      BY <1>7, <3>1, <3>3, OwnOnlyInputs, IdleFacts DEF Good, Own1, TensorsOf
    <3>11. LiveInv(m, tensor, pl2)
      BY <1>9, <3>1, <3>3, OwnOnlyHeld DEF Good, LiveInv
    <3>12. PlansInv(m, flags, tensor, command, Idle)
      <4>1. PlanOK(m, tensor, command, 1, at.i)
        BY <1>12, <3>1 DEF Good, PlansInv
      <4>2. PICK n \in Nat : n = Len(m.net) + 1 /\ at.i = n + 1
        BY <1>5, <1>8
      <4>3. PlanOK(m, tensor, command, 1, n)
        BY <1>7, <4>1, <4>2, PlanEarlier
      <4> QED
        BY <3>1, <4>2, <4>3, IdleFacts DEF Good, PlansInv
    <3>13. PassInv(m, tensor, command, pl2, Idle) /\ RunInv(m, tensor, Idle, content)
      BY IdleFacts DEF PassInv, RunInv
    <3> QED
      BY <3>1, <3>5, <3>6, <3>7, <3>9, <3>10, <3>11, <3>12, <3>13 DEF Good
  <2> QED
    BY <1>1, <1>2, <1>3, <1>5, <2>1, <2>2, <2>3 DEF IInv
<1> QED
  BY <1>5, <1>11, <1>12 DEF InPassAt

\* A reset of group 0 leaves what is planned for group 1.
LEMMA FixedHosts ==
    ASSUME NEW m \in Models, NEW ts, NEW cs, PlanOK(m, ts, cs, 1, Len(m.net) + 1)
    PROVE  /\ \A t \in TensorsOf(m) : ts[t].group = 1 => Kill(ts[t].host, 0) = ts[t].host
           /\ \A i \in OpsOf(m) : cs[i].group = 1 => Kill(cs[i].temp, 0) = cs[i].temp
<1>1. PICK n \in Nat : n = Len(m.net) + 1 /\ n > Len(m.net) /\ \A k \in OpsOf(m) : k < n
  <2>1. Len(m.net) \in Nat /\ \A k \in OpsOf(m) : k \in Nat /\ k <= Len(m.net)
    BY NetFacts
  <2> QED
    BY <2>1
<1>2. \A x \in Places(1) : Kill(x, 0) = x
  BY KillFacts DEF Places
<1>3. \A t \in TensorsOf(m) : Reached(m, t, n)
  BY <1>1, AllReached
<1>4. Hosts(m, ts, 1, n) /\ Temps(m, cs, 1, n)
  BY <1>1 DEF PlanOK
<1> QED
  BY <1>1, <1>2, <1>3, <1>4, KillFacts DEF Hosts, Temps

\* What an operator reads and makes are tensors.
LEMMA ReadTensors ==
    ASSUME NEW m \in Models, NEW i \in OpsOf(m)
    PROVE  i \in TensorsOf(m) /\ \A k \in DOMAIN m.net[i].in : m.net[i].in[k] \in TensorsOf(m)
<1>1. ASSUME NEW k \in DOMAIN m.net[i].in PROVE m.net[i].in[k] \in TensorsOf(m)
  <2>1. Reader(m, m.net[i].in[k], i)
    BY DEF Reader, ToSet
  <2> QED
    BY <2>1, NetFacts
<1> QED
  BY <1>1 DEF TensorsOf

\* A reset of a group reaches the temporaries of its plan.
LEMMA KillTempsFacts ==
    ASSUME NEW m, m = model, NEW cs, \A i \in OpsOf(m) : cs[i] \in CommandType, NEW g \in Group,
           NEW cs2, cs2 = KillTemps(cs, g)
    PROVE  /\ cs2 \in [OpsOf(m) -> CommandType]
           /\ \A i \in OpsOf(m) : /\ cs2[i].exists = cs[i].exists /\ cs2[i].group = cs[i].group
                                  /\ cs2[i].temp = Kill(cs[i].temp, g)
<1>1. cs2 = [i \in OpsOf(m) |-> [cs[i] EXCEPT !.temp = Kill(@, g)]]
  BY Names DEF KillTemps
<1>2. ASSUME NEW i \in OpsOf(m)
      PROVE  /\ cs2[i] \in CommandType /\ cs2[i].exists = cs[i].exists /\ cs2[i].group = cs[i].group
             /\ cs2[i].temp = Kill(cs[i].temp, g)
  <2>1. PICK r \in CommandType : r = cs[i]
    OBVIOUS
  <2>2. PICK x : x = Kill(r.temp, g)
    OBVIOUS
  <2>3. x \in Spot
    BY <2>2, KillFacts DEF CommandType
  <2>4. cs2[i] = [r EXCEPT !.temp = x]
    BY <1>1, <2>1, <2>2
  <2>5. cs2[i] \in CommandType /\ cs2[i].exists = r.exists /\ cs2[i].group = r.group /\ cs2[i].temp = x
    BY <2>3, <2>4 DEF CommandType
  <2> QED
    BY <2>1, <2>2, <2>5
<1> QED
  BY <1>1, <1>2

\* A record that differs in nothing but its host.
SameButHost(r, r2) ==
    /\ r2.group = r.group /\ r2.useCount = r.useCount /\ r2.mem = r.mem
    /\ r2.length = r.length /\ r2.size = r.size

\* The tensors of a group's plan are nowhere.
KillHosts(m, ts, g) == [t \in TensorsOf(m) |-> [ts[t] EXCEPT !.host = Kill(@, g)]]

\* Where a tensor is does not touch who owns what and what has room.
LEMMA HostsKilled ==
    ASSUME NEW m, \A t \in TensorsOf(m) : tensor[t] \in TensorType, NEW g \in Group,
           NEW ts2, ts2 = KillHosts(m, tensor, g)
    PROVE  /\ ts2 \in [TensorsOf(m) -> TensorType]
           /\ \A t \in TensorsOf(m) : SameButHost(tensor[t], ts2[t]) /\ ts2[t].host = Kill(tensor[t].host, g)
<1>1. ASSUME NEW t \in TensorsOf(m)
      PROVE  ts2[t] \in TensorType /\ SameButHost(tensor[t], ts2[t]) /\ ts2[t].host = Kill(tensor[t].host, g)
  <2>1. PICK r : r = tensor[t]
    OBVIOUS
  <2>2. PICK h : h = Kill(r.host, g)
    OBVIOUS
  <2>3. r \in TensorType /\ r.host \in Spot
    BY <2>1 DEF TensorType
  <2>4. h \in Spot
    BY <2>2, <2>3, KillFacts
  <2>5. ts2[t] = [r EXCEPT !.host = h]
    BY <2>1, <2>2 DEF KillHosts
  <2>6. ts2[t] \in TensorType /\ SameButHost(r, ts2[t]) /\ ts2[t].host = h
    BY <2>3, <2>4, <2>5 DEF TensorType, SameButHost
  <2> QED
    BY <2>1, <2>2, <2>6
<1> QED
  BY <1>1 DEF KillHosts

\* onResizeEnd does not bind the plan of group 0: what was fixed stays, and either the
\* session still needs a resize or its plan is noted as not bound.
LEMMA NotBoundGood ==
    ASSUME NEW m, Basic(m, flags, cache, tensor, command, plan, at),
           Good(m, flags, cache, tensor, command, plan, at, content),
           at.call = "alloc", at.i = Len(m.net) + 2,
           NEW fl2 \in FlagsType, fl2.fixed = flags.fixed,
           fl2 = flags \/ (~fl2.mNeedResize /\ ~fl2.failed /\ fl2.unbound),
           NEW ts2, \A t \in TensorsOf(m) : SameButHost(tensor[t], ts2[t])
                                            /\ ts2[t].host = Kill(tensor[t].host, 0),
           NEW cs2, \A i \in OpsOf(m) : /\ cs2[i].exists = command[i].exists
                                        /\ cs2[i].group = command[i].group
                                        /\ cs2[i].temp = Kill(command[i].temp, 0),
           NEW pl2, \A g \in Group : pl2[g].live = plan[g].live
    PROVE  Good(m, fl2, cache, ts2, cs2, pl2, Idle, content)
<1>1. m \in Models /\ flags \in FlagsType
  BY TypeFacts
<1>2. flags.mNeedResize /\ ~flags.failed
  BY DEF Good, CallInv
<1>3. ~fl2.failed /\ (fl2.mNeedResize \/ fl2.unbound)
  BY <1>2
<1>4. ASSUME NEW t \in TensorsOf(m) PROVE OwnOnly(m, tensor, t) /\ Fits(tensor, t)
  BY AllFit
<1>5. ASSUME NEW t \in TensorsOf(m) PROVE OwnOnly(m, ts2, t) /\ Fits(ts2, t)
  BY <1>4 DEF OwnOnly, SameButHost, Fits
<1>6. CallInv(m, fl2, cs2, Idle)
  BY <1>3, IdleFacts DEF CallInv
<1>7. CacheInv(m, fl2, cache, ts2, cs2, Idle)
  <2>1. \A i \in OpsOf(m) : command[i].exists /\ cache[i].seen = LengthsOf(m, tensor, i)
    BY DEF Good, CacheInv
  <2>2. ASSUME NEW i \in OpsOf(m) PROVE LengthsOf(m, ts2, i) = LengthsOf(m, tensor, i)
    <3>1. \A k \in DOMAIN m.net[i].in : m.net[i].in[k] \in TensorsOf(m)
      BY <1>1, ReadTensors
    <3>2. \A k \in DOMAIN m.net[i].in : ts2[m.net[i].in[k]].length = tensor[m.net[i].in[k]].length
      BY <3>1 DEF SameButHost
    <3> QED
      BY <3>2 DEF LengthsOf
  <2> QED
    BY <2>1, <2>2 DEF CacheInv
<1>8. GroupInv(m, fl2, cache, ts2, cs2)
  BY DEF Good, GroupInv, SameButHost, TensorsOf
<1>9. Owners(m, fl2, ts2, pl2, Idle)
  BY <1>5 DEF Owners
<1>10. Own1(m, fl2, ts2, Idle)
  <2>1. \A t \in InputsOf(m) : ts2[t].mem = None
    BY <1>1, <1>5, OwnOnlyInputs DEF TensorsOf
  <2> QED
    BY <1>5, <2>1, IdleFacts, KillFacts DEF Good, Own1, SameButHost
<1>11. LiveInv(m, ts2, pl2)
  <2>1. \A x : HeldIn(m, ts2, x) = {} /\ HeldIn(m, tensor, x) = {}
    BY <1>4, <1>5, OwnOnlyHeld
  <2> QED
    BY <2>1 DEF Good, LiveInv
<1>12. PlansInv(m, fl2, ts2, cs2, Idle)
  <2>1. PlanOK(m, tensor, command, 1, Len(m.net) + 1)
    BY DEF Good, PlansInv
  <2>3. /\ \A t \in TensorsOf(m) : tensor[t].group = 1 => ts2[t].host = tensor[t].host
        /\ \A k \in OpsOf(m) : command[k].group = 1 => cs2[k].temp = command[k].temp
    <3>1. /\ \A t \in TensorsOf(m) : tensor[t].group = 1 => Kill(tensor[t].host, 0) = tensor[t].host
          /\ \A k \in OpsOf(m) : command[k].group = 1 => Kill(command[k].temp, 0) = command[k].temp
      BY <1>1, <2>1, FixedHosts
    <3> QED
      BY <3>1
  <2>4. PlanOK(m, ts2, cs2, 1, Len(m.net) + 1)
    BY <1>1, <2>1, <2>3, PlanKept DEF SameButHost
  <2> QED
    BY <1>3, <2>4, IdleFacts DEF PlansInv
<1>13. FrozenInv(m, cache, ts2, cs2, Idle)
  <2>1. \A i \in OpsOf(m) : i \in TensorsOf(m) /\ \A k \in DOMAIN m.net[i].in : m.net[i].in[k] \in TensorsOf(m)
    BY <1>1, ReadTensors
  <2> QED
    BY <2>1 DEF Good, FrozenInv, SameButHost, Fits
<1>14. PassInv(m, ts2, cs2, pl2, Idle) /\ RunInv(m, ts2, Idle, content)
  BY IdleFacts DEF PassInv, RunInv
<1> QED
  BY <1>6, <1>7, <1>8, <1>9, <1>10, <1>11, <1>12, <1>13, <1>14 DEF Good

\* onResizeEnd does not bind the plan, whatever it answers.
LEMMA NotBoundStep ==
    ASSUME IInv, AtEnd, NotBound, at' = Idle, plan' = [plan EXCEPT ![at.g].used = {}],
           UNCHANGED <<model, cache, content, right>>,
           flags' \in FlagsType, flags'.fixed = flags.fixed,
           flags' = flags \/ (~flags'.mNeedResize /\ ~flags'.failed /\ flags'.unbound)
    PROVE  IInv'
<1>1. PICK m : m = model
  OBVIOUS
<1>2. PICK ts2 : ts2 = tensor'
  OBVIOUS
<1>3. PICK cs2 : cs2 = command'
  OBVIOUS
<1>4. PICK pl2 : pl2 = plan'
  OBVIOUS
<1>5. PICK fl2 : fl2 = flags'
  OBVIOUS
<1>6. PICK g : g = at.g
  OBVIOUS
<1>7. Basic(m, flags, cache, tensor, command, plan, at)
  BY <1>1 DEF IInv
<1>8. /\ m \in Models /\ at \in CallType /\ g \in Group
      /\ (\A t \in TensorsOf(m) : tensor[t] \in TensorType)
      /\ (\A i \in OpsOf(m) : command[i] \in CommandType)
      /\ DOMAIN plan = Group /\ \A x \in Group : plan[x] \in PlanType
  BY <1>6, <1>7, TypeFacts DEF CallType
<1>9. InPassAt(at) /\ at.i = Len(m.net) + 2
  BY <1>1, Names DEF AtEnd, InPass, InPassAt
<1>10. /\ ts2 = [t \in TensorsOf(m) |-> [tensor[t] EXCEPT !.host = Kill(@, g)]]
       /\ cs2 = KillTemps(command, g)
       /\ sound' = (sound /\ at.call = "alloc")
  BY <1>1, <1>2, <1>3, <1>6, Names DEF NotBound
<1>11. /\ ts2 \in [TensorsOf(m) -> TensorType]
       /\ \A t \in TensorsOf(m) : SameButHost(tensor[t], ts2[t]) /\ ts2[t].host = Kill(tensor[t].host, g)
  <2>1. ts2 = KillHosts(m, tensor, g)
    BY <1>10 DEF KillHosts
  <2> QED
    BY <1>8, <2>1, HostsKilled
<1>12. /\ cs2 \in [OpsOf(m) -> CommandType]
       /\ \A i \in OpsOf(m) : /\ cs2[i].exists = command[i].exists /\ cs2[i].group = command[i].group
                              /\ cs2[i].temp = Kill(command[i].temp, g)
  BY <1>1, <1>8, <1>10, KillTempsFacts
<1>13. pl2 \in [Group -> PlanType] /\ \A x \in Group : pl2[x].live = plan[x].live
  <2>1. pl2 = NoneUsed(plan, g)
    BY <1>4, <1>6 DEF NoneUsed
  <2> QED
    BY <1>8, <2>1, UsedReset
<1>14. Basic(m, fl2, cache, ts2, cs2, pl2, Idle)
  <2>1. Typed(m, fl2, cache, ts2, cs2, pl2, Idle)
    <3>1. 0 <= Len(m.net) + 2
      BY <1>8, NetFacts
    <3> QED
      BY <1>5, <1>7, <1>11, <1>12, <1>13, <3>1, IdleFacts DEF Basic, Typed
  <2>2. Grouped(m, ts2)
    BY <1>7, <1>11 DEF Basic, Grouped, SameButHost, TensorsOf
  <2>3. CountInv(m, ts2, cs2, Idle)
    BY <1>7, <1>11, IdleFacts DEF Basic, CountInv, SameButHost
  <2>4. PassAt(m, Idle)
    BY IdleFacts DEF PassAt
  <2>5. Made(m, cache, cs2)
    BY <1>7, <1>12 DEF Basic, Made
  <2> QED
    BY <2>1, <2>2, <2>3, <2>4, <2>5 DEF Basic
<1>15. ASSUME sound, at.call = "alloc" PROVE Good(m, fl2, cache, ts2, cs2, pl2, Idle, content)
  <2>1. Good(m, flags, cache, tensor, command, plan, at, content)
    BY <1>1, <1>15 DEF IInv
  <2>2. g = 0
    BY <1>6, <1>7, <1>15 DEF Basic, PassAt
  <2> QED
    BY <1>5, <1>7, <1>9, <1>11, <1>12, <1>13, <1>15, <2>1, <2>2, NotBoundGood
<1>16. sound' \in BOOLEAN /\ right' \in BOOLEAN
  BY <1>10 DEF IInv
<1>17. sound' => right' /\ Good(m, fl2, cache, ts2, cs2, pl2, Idle, content)
  BY <1>10, <1>15 DEF IInv
<1> QED
  BY <1>1, <1>2, <1>3, <1>4, <1>5, <1>14, <1>16, <1>17 DEF IInv

\* A larger buffer cannot be had: the session still needs a resize.
LEMMA ResizeEndFailsStep ==
    ASSUME IInv, ResizeEndFails, UNCHANGED model
    PROVE  IInv'
<1>1. flags \in FlagsType
  BY TypeFacts DEF IInv
<1> QED
  BY <1>1, NotBoundStep DEF ResizeEndFails

\* The answer is NO_ERROR though nothing is bound: the session may be run, and must not be.
LEMMA ResizeEndUnboundStep ==
    ASSUME IInv, ResizeEndUnbound, UNCHANGED model
    PROVE  IInv'
<1>1. flags \in FlagsType
  BY TypeFacts DEF IInv
<1>2. PICK fl2 : fl2 = flags'
  OBVIOUS
<1>3. fl2 = IF at.call = "fix" THEN flags
            ELSE [flags EXCEPT !.mNeedResize = FALSE, !.failed = FALSE, !.unbound = TRUE]
  BY <1>2 DEF ResizeEndUnbound, Answered
<1>4. /\ fl2 \in FlagsType /\ fl2.fixed = flags.fixed
      /\ fl2 = flags \/ (~fl2.mNeedResize /\ ~fl2.failed /\ fl2.unbound)
  BY <1>1, <1>3 DEF FlagsType
<1> QED
  BY <1>2, <1>4, NotBoundStep DEF ResizeEndUnbound, Answered

\* When all commands are planned, the plan is complete.
LEMMA PlanEnd ==
    ASSUME NEW m \in Models, NEW ts, NEW cs, NEW g, PlanOK(m, ts, cs, g, Len(m.net) + 1)
    PROVE  PlanOK(m, ts, cs, g, Len(m.net) + 2)
<1>1. PICK n \in Nat : n = Len(m.net) + 1 /\ n > Len(m.net) /\ \A k \in OpsOf(m) : k < n
  <2>1. Len(m.net) \in Nat /\ \A k \in OpsOf(m) : k \in Nat /\ k <= Len(m.net)
    BY NetFacts
  <2> QED
    BY <2>1
<1>2. \A t \in TensorsOf(m) : Reached(m, t, n)
  BY <1>1, AllReached
<1>3. \A k \in InputsOf(m) : k \in TensorsOf(m)
  BY DEF TensorsOf
<1>4. /\ Hosts(m, ts, g, n) /\ Temps(m, cs, g, n)
      /\ KeepsHost(m, ts, g, n) /\ KeepsTemp(m, ts, cs, g, n) /\ InputsApart(m, ts, g, n)
  BY <1>1 DEF PlanOK
<1> DEFINE n2 == Len(m.net) + 2
<1> HIDE DEF n2
<1>5. Hosts(m, ts, g, n2)
  BY <1>2, <1>4 DEF Hosts
<1>6. Temps(m, cs, g, n2)
  BY <1>1, <1>4 DEF Temps
<1>7. KeepsHost(m, ts, g, n2)
  BY <1>1, <1>2, <1>4 DEF KeepsHost
<1>8. KeepsTemp(m, ts, cs, g, n2)
  BY <1>1, <1>2, <1>4 DEF KeepsTemp
<1>9. InputsApart(m, ts, g, n2)
  BY <1>2, <1>3, <1>4 DEF InputsApart
<1> QED
  BY <1>5, <1>6, <1>7, <1>8, <1>9 DEF PlanOK, n2

\* At the end of the commands only what the user reads is needed.
LEMMA NeededEnd ==
    ASSUME NEW m \in Models, NEW t \in TensorsOf(m), NEW n \in Nat, n > Len(m.net)
    PROVE  Needed(m, t, n) <=> Output(m, t)
<1>1. Len(m.net) \in Nat /\ \A j \in OpsOf(m) : j \in Nat /\ j <= Len(m.net)
  BY NetFacts
<1>2. \A j \in OpsOf(m) : ~(j >= n)
  BY <1>1
<1> QED
  BY <1>2 DEF Needed

\* A record that differs in nothing but its mem.
SameButMem(r, r2) ==
    /\ r2.group = r.group /\ r2.useCount = r.useCount /\ r2.host = r.host
    /\ r2.length = r.length /\ r2.size = r.size

\* What _recycleDynamicMemory finds covers what the pass has planned.
LEMMA RecycleCovers ==
    ASSUME NEW m, m = model, m \in Models, Basic(m, flags, cache, tensor, command, plan, at),
           Good(m, flags, cache, tensor, command, plan, at, content), InPassAt(at),
           NEW t \in OpsOf(m), tensor[t].group = at.g, ~Static(m, t)
    PROVE  t \in Recycle
<1>1. StorageType(t) = "DYNAMIC"
  <2>1. t \in TensorsOf(m) /\ t > 0
    BY NetFacts DEF TensorsOf
  <2> QED
    BY <2>1, Kinds
<1>2. /\ net = m.net /\ Ops = OpsOf(m)
  BY Names
<1>3. PICK i \in OpsOf(m) : command[i].exists /\ command[i].group = at.g /\ (t = i \/ Reader(m, t, i))
  <2>1. CASE at.call = "alloc"
    <3>1. at.g = 0 /\ command[t].exists
      BY <2>1 DEF Basic, PassAt, Good, CacheInv
    <3>2. command[t].group \in {0, 1}
      BY TypeFacts DEF CommandType, Group
    <3>3. command[t].group # 1
      BY <3>1 DEF Good, GroupInv
    <3> QED
      BY <3>1, <3>2, <3>3
  <2>2. CASE at.call = "fix"
    <3>1. at.g = 1
      BY <2>2 DEF Basic, PassAt
    <3>2. t \in TensorsOf(m)
      BY DEF TensorsOf
    <3> QED
      BY <3>1, <3>2 DEF Good, GroupInv
  <2> QED
    BY <2>1, <2>2 DEF InPassAt
<1>4. t \in ToSet(net[i].in) \union {i}
  BY <1>2, <1>3 DEF Reader
<1> QED
  BY <1>1, <1>2, <1>3, <1>4 DEF Recycle

\* _recycleDynamicMemory gives back what the pass holds, and the plan keeps its addresses.
LEMMA RecycleAllStep ==
    ASSUME IInv, RecycleAll, UNCHANGED model
    PROVE  IInv'
<1>1. PICK m : m = model
  OBVIOUS
<1>2. PICK ts2 : ts2 = tensor'
  OBVIOUS
<1>3. PICK pl2 : pl2 = plan'
  OBVIOUS
<1>4. PICK a2 : a2 = at'
  OBVIOUS
<1>5. PICK g : g = at.g
  OBVIOUS
<1>6. /\ InPassAt(at) /\ at.i = Len(m.net) + 1 /\ a2 = [at EXCEPT !.i = @ + 1]
      /\ ts2 = [t \in TensorsOf(m) |-> IF t \in Recycle THEN [tensor[t] EXCEPT !.mem = None] ELSE tensor[t]]
      /\ pl2 = [plan EXCEPT ![g].live = HeldIn(m, ts2, g)]
      /\ UNCHANGED <<flags, cache, command, content, right, sound>>
  <2>1. /\ InPass /\ at.i = Len(net) + 1 /\ a2 = [at EXCEPT !.i = @ + 1]
        /\ ts2 = [t \in Tensors |-> IF t \in Recycle THEN [tensor[t] EXCEPT !.mem = None] ELSE tensor[t]]
        /\ pl2 = [plan EXCEPT ![g].live = Held(ts2, g)]
        /\ UNCHANGED <<flags, cache, command, content, right, sound>>
    BY <1>2, <1>3, <1>4, <1>5 DEF RecycleAll
  <2>2. net = m.net /\ Tensors = TensorsOf(m) /\ Held(ts2, g) = HeldIn(m, ts2, g)
    BY <1>1, Names
  <2> QED
    BY <2>1, <2>2 DEF InPass, InPassAt
<1>7. Basic(m, flags, cache, tensor, command, plan, at)
  BY <1>1 DEF IInv
<1>8. /\ m \in Models /\ flags \in FlagsType /\ at \in CallType
      /\ \A t \in TensorsOf(m) : tensor[t] \in TensorType
      /\ DOMAIN plan = Group /\ \A x \in Group : plan[x] \in PlanType
  BY <1>7, TypeFacts
<1>9. g \in Group /\ Len(m.net) \in Nat
  BY <1>5, <1>8, NetFacts DEF CallType
<1>10. /\ a2 \in CallType /\ a2.i = Len(m.net) + 2 /\ a2.call = at.call /\ a2.g = g
       /\ a2.allocInput = at.allocInput /\ InPassAt(a2)
  BY <1>5, <1>6, <1>8, <1>9 DEF CallType, InPassAt
<1>11. ASSUME NEW t \in TensorsOf(m)
       PROVE  /\ ts2[t] \in TensorType /\ SameButMem(tensor[t], ts2[t])
              /\ ts2[t].mem = IF t \in Recycle THEN None ELSE tensor[t].mem
  <2>1. PICK r : r = tensor[t]
    OBVIOUS
  <2>2. r \in TensorType
    BY <1>8, <2>1
  <2>3. ts2[t] = IF t \in Recycle THEN [r EXCEPT !.mem = None] ELSE r
    BY <1>6, <2>1
  <2>4. None \in Spot
    BY SpotType
  <2>5. CASE t \in Recycle
    <3>1. ts2[t] = [r EXCEPT !.mem = None]
      BY <2>3, <2>5
    <3>2. ts2[t] \in TensorType /\ SameButMem(r, ts2[t]) /\ ts2[t].mem = None
      BY <2>2, <2>4, <3>1 DEF TensorType, SameButMem
    <3> QED
      BY <2>1, <2>5, <3>2
  <2>6. CASE t \notin Recycle
    BY <2>1, <2>2, <2>3, <2>6 DEF SameButMem
  <2> QED
    BY <2>5, <2>6
<1>12. /\ DOMAIN pl2 = Group
       /\ \A x \in Group : /\ pl2[x] \in PlanType /\ pl2[x].used = plan[x].used
                           /\ pl2[x].live = IF x = g THEN HeldIn(m, ts2, g) ELSE plan[x].live
  <2>1. PICK l : l = HeldIn(m, ts2, g)
    OBVIOUS
  <2>2. l \in SUBSET Addr
    BY <2>1 DEF HeldIn
  <2>3. pl2 = [x \in Group |-> IF x = g THEN [plan[x] EXCEPT !.live = l] ELSE plan[x]]
    BY <1>6, <1>8, <1>9, <2>1
  <2>4. ASSUME NEW x \in Group
        PROVE  /\ pl2[x] \in PlanType /\ pl2[x].used = plan[x].used
               /\ pl2[x].live = IF x = g THEN l ELSE plan[x].live
    <3>1. PICK p : p = plan[x]
      OBVIOUS
    <3>2. p \in PlanType /\ pl2[x] = IF x = g THEN [p EXCEPT !.live = l] ELSE p
      BY <1>8, <2>3, <3>1
    <3>3. pl2[x] \in PlanType /\ pl2[x].used = p.used /\ pl2[x].live = IF x = g THEN l ELSE p.live
      BY <2>2, <3>2 DEF PlanType
    <3> QED
      BY <3>1, <3>3
  <2> QED
    BY <2>1, <2>3, <2>4
<1>13. Basic(m, flags, cache, ts2, command, pl2, a2)
  <2>1. ts2 \in [TensorsOf(m) -> TensorType]
    BY <1>6, <1>11
  <2>2. pl2 \in [Group -> PlanType]
    <3>1. pl2 = [x \in Group |-> pl2[x]]
      BY <1>6, <1>8, <1>12
    <3> QED
      BY <1>12, <3>1
  <2>3. Typed(m, flags, cache, ts2, command, pl2, a2)
    BY <1>7, <1>9, <1>10, <2>1, <2>2 DEF Basic, Typed
  <2>4. Grouped(m, ts2)
    BY <1>7, <1>11 DEF Basic, Grouped, SameButMem, TensorsOf
  <2>5. CountInv(m, ts2, command, a2)
    <3>1. a2.i \notin OpsOf(m)
      <4>1. \A j \in OpsOf(m) : j \in Nat /\ j <= Len(m.net)
        BY <1>8, NetFacts
      <4> QED
        BY <1>9, <1>10, <4>1
    <3> QED
      BY <1>7, <1>11, <3>1 DEF Basic, CountInv, SameButMem
  <2>6. PassAt(m, a2)
    BY <1>5, <1>7, <1>9, <1>10 DEF Basic, PassAt
  <2> QED
    BY <1>7, <2>3, <2>4, <2>5, <2>6 DEF Basic
<1>14. ASSUME sound PROVE Good(m, flags, cache, ts2, command, pl2, a2, content)
  <2>1. Good(m, flags, cache, tensor, command, plan, at, content)
    BY <1>1, <1>14 DEF IInv
  <2>2. at # Idle /\ ~(a2 = Idle)
    BY <1>6, <1>10, IdleFacts
  <2>3. ASSUME NEW t \in TensorsOf(m) PROVE Reached(m, t, at.i)
    BY <1>6, <1>8, <1>9, AllReached
  <2>4. ASSUME NEW t \in TensorsOf(m)
        PROVE  Needed(m, t, at.i) <=> Output(m, t)
    BY <1>6, <1>8, <1>9, NeededEnd
  <2>5. PlanOK(m, tensor, command, g, at.i)
    BY <1>5, <1>6, <1>7, <2>1 DEF Good, PlansInv, Basic, PassAt, InPassAt
  <2>6. ASSUME NEW t \in TensorsOf(m)
        PROVE  OwnOnly(m, tensor, t) \/ (tensor[t].group = g /\ \E x \in plan[g].used : tensor[t].mem = In(g, x))
    BY <1>5, <2>1, <2>2 DEF Good, Owners
  <2>7. ASSUME NEW t \in InputsOf(m), tensor[t].group = g PROVE tensor[t].mem = None
    <3>1. t \in TensorsOf(m)
      BY DEF TensorsOf
    <3>2. t < 0 /\ t \in Int
      BY <1>8, <3>1, NetFacts
    <3>3. ~(t > 0)
      BY <3>2
    <3>4. ~Needed(m, t, at.i)
      BY <2>4, <3>1, <3>3 DEF Output
    <3> QED
      BY <1>5, <1>6, <2>1, <2>3, <2>7, <3>1, <3>4 DEF Good, PassInv
  <2>8. ASSUME NEW t \in TensorsOf(m) PROVE OwnOnly(m, ts2, t)
    <3>1. CASE OwnOnly(m, tensor, t)
      BY <1>11, <3>1 DEF OwnOnly
    <3>2. CASE ~OwnOnly(m, tensor, t)
      <4>1. tensor[t].group = g
        BY <2>6, <3>2
      <4>2. CASE t \in InputsOf(m)
        BY <2>7, <3>2, <4>1, <4>2 DEF OwnOnly
      <4>3. CASE t \in OpsOf(m) /\ ~Static(m, t)
        <5>1. t \in Recycle
          BY <1>1, <1>5, <1>6, <1>7, <1>8, <2>1, <4>1, <4>3, RecycleCovers
        <5> QED
          BY <1>11, <5>1 DEF OwnOnly
      <4>4. CASE Static(m, t)
        <5>1. Needed(m, t, at.i)
          BY <2>4, <4>4 DEF Static
        <5>2. tensor[t].mem = tensor[t].host
          BY <1>5, <1>6, <1>9, <2>1, <2>3, <4>1, <5>1 DEF Good, PassInv
        <5>3. tensor[t].host = Own(t)
          BY <2>3, <2>5, <4>1, <4>4 DEF PlanOK, Hosts
        <5> QED
          BY <3>2, <4>4, <5>2, <5>3 DEF OwnOnly
      <4> QED
        BY <4>2, <4>3, <4>4 DEF TensorsOf
    <3> QED
      BY <3>1, <3>2
  <2>9. CallInv(m, flags, command, a2)
    BY <1>6, <1>10, <2>1 DEF Good, CallInv, InPassAt
  <2>10. ASSUME NEW i \in OpsOf(m) PROVE LengthsOf(m, ts2, i) = LengthsOf(m, tensor, i)
    BY <1>8, <1>11, ReadTensors DEF LengthsOf, SameButMem
  <2>11. CacheInv(m, flags, cache, ts2, command, a2)
    BY <1>10, <2>1, <2>10 DEF Good, CacheInv
  <2>12. GroupInv(m, flags, cache, ts2, command)
    BY <1>11, <2>1 DEF Good, GroupInv, SameButMem, TensorsOf
  <2>13. Owners(m, flags, ts2, pl2, a2)
    BY <2>8 DEF Owners
  <2>14. Own1(m, flags, ts2, a2)
    <3>1. a2.call # "create"
      BY <1>10 DEF InPassAt
    <3>2. ASSUME NEW t \in TensorsOf(m), Static(m, t), ts2[t].mem = Own(t)
          PROVE  ts2[t].host = Own(t) /\ (~flags.mNeedResize => Fits(ts2, t))
      <4>1. tensor[t].mem = Own(t)
        BY <1>11, <3>2, SpotFacts
      <4> QED
        BY <1>11, <2>1, <3>2, <4>1 DEF Good, Own1, SameButMem, Fits
    <3>3. ASSUME NEW t \in TensorsOf(m), ts2[t].group = -1
          PROVE  ts2[t].mem = None /\ ts2[t].host = Own(t) /\ Fits(ts2, t)
      BY <1>11, <2>1, <3>3 DEF Good, Own1, SameButMem, Fits
    <3> QED
      BY <1>10, <3>1, <3>2, <3>3 DEF Own1
  <2>15. LiveInv(m, ts2, pl2)
    <3>1. \A x : HeldIn(m, ts2, x) = {}
      BY <2>8, OwnOnlyHeld
    <3>2. ASSUME NEW x \in Group, x # g PROVE HeldIn(m, tensor, x) = {}
      BY <2>6, <3>2, SpotFacts DEF HeldIn, OwnOnly
    <3>3. ASSUME NEW x \in Group PROVE pl2[x].live = {}
      <4>1. CASE x = g
        BY <1>12, <3>1, <4>1
      <4>2. CASE x # g
        <5>1. pl2[x].live = plan[x].live /\ plan[x].live = HeldIn(m, tensor, x)
          BY <1>12, <2>1, <4>2 DEF Good, LiveInv
        <5> QED
          BY <3>2, <4>2, <5>1
      <4> QED
        BY <4>1, <4>2
    <3> QED
      BY <3>1, <3>3 DEF LiveInv
  <2>16. PassInv(m, ts2, command, pl2, a2)
    <3>1. ASSUME NEW t \in TensorsOf(m), ts2[t].group = g
          PROVE  /\ Fits(ts2, t)
                 /\ \A x \in Addr : ts2[t].host = In(g, x) => x \in pl2[g].used
                 /\ t \in InputsOf(m) => ts2[t].mem = None
      <4>1. tensor[t].group = g /\ ts2[t].host = tensor[t].host /\ pl2[g].used = plan[g].used
        BY <1>9, <1>11, <1>12, <3>1 DEF SameButMem
      <4>2. Fits(tensor, t) /\ \A x \in Addr : tensor[t].host = In(g, x) => x \in plan[g].used
        BY <1>5, <1>6, <2>1, <2>3, <4>1 DEF Good, PassInv
      <4> QED
        BY <1>11, <2>7, <4>1, <4>2 DEF Fits, SameButMem
    <3>2. ASSUME NEW t \in TensorsOf(m) PROVE Reached(m, t, a2.i)
      BY <1>8, <1>9, <1>10, AllReached
    <3>3. ASSUME NEW k \in OpsOf(m), command[k].group = g, NEW x \in Addr, command[k].temp = In(g, x)
          PROVE  x \in pl2[g].used
      <4>1. k < at.i
        <5>1. k \in Nat /\ k <= Len(m.net)
          BY <1>8, NetFacts
        <5> QED
          BY <1>6, <1>9, <5>1
      <4> QED
        BY <1>5, <1>6, <1>9, <1>12, <2>1, <3>3, <4>1 DEF Good, PassInv
    <3>4. ~(a2.i <= Len(m.net) + 1)
      BY <1>9, <1>10
    <3> QED
      BY <1>10, <3>1, <3>2, <3>3, <3>4 DEF PassInv
  <2>17. ASSUME NEW x, NEW n, PlanOK(m, tensor, command, x, n) PROVE PlanOK(m, ts2, command, x, n)
    BY <1>8, <1>11, <2>17, PlanKept DEF SameButMem
  <2>18. PlansInv(m, flags, ts2, command, a2)
    <3>1. PlanOK(m, ts2, command, g, a2.i)
      <4>1. PlanOK(m, tensor, command, g, Len(m.net) + 1)
        BY <1>6, <2>5
      <4>2. PlanOK(m, tensor, command, g, Len(m.net) + 2)
        BY <1>8, <4>1, PlanEnd
      <4> QED
        BY <1>10, <2>17, <4>2
    <3>2. at.call = "alloc" => g = 0
      BY <1>5, <1>7 DEF Basic, PassAt
    <3>3. at.call = "fix" => g = 1
      BY <1>5, <1>7 DEF Basic, PassAt
    <3>4. PlanOK(m, ts2, command, 1, IF a2.call = "fix" THEN a2.i ELSE Len(m.net) + 1)
      <4>1. CASE at.call = "fix"
        BY <1>10, <3>1, <3>3, <4>1
      <4>2. CASE at.call # "fix"
        <5>1. PlanOK(m, tensor, command, 1, Len(m.net) + 1)
          BY <2>1, <4>2 DEF Good, PlansInv
        <5> QED
          BY <1>10, <2>17, <4>2, <5>1
      <4> QED
        BY <4>1, <4>2
    <3>5. a2.call = "alloc" => PlanOK(m, ts2, command, 0, a2.i)
      BY <1>10, <3>1, <3>2
    <3>6. ASSUME ~flags.mNeedResize, ~flags.unbound
          PROVE  /\ PlanOK(m, ts2, command, 0, Len(m.net) + 1)
                 /\ \A t \in TensorsOf(m) : ts2[t].group = 0 => Fits(ts2, t)
      <4>1. PlanOK(m, tensor, command, 0, Len(m.net) + 1) /\ \A t \in TensorsOf(m) : tensor[t].group = 0 => Fits(tensor, t)
        BY <2>1, <3>6 DEF Good, PlansInv
      <4> QED
        BY <1>11, <2>17, <4>1 DEF SameButMem, Fits
    <3> QED
      BY <3>4, <3>5, <3>6 DEF PlansInv
  <2>19. FrozenInv(m, cache, ts2, command, a2)
    <3>1. \A i \in OpsOf(m) : i \in TensorsOf(m) /\ \A k \in DOMAIN m.net[i].in : m.net[i].in[k] \in TensorsOf(m)
      BY <1>8, ReadTensors
    <3> QED
      BY <1>10, <1>11, <2>1, <3>1 DEF Good, FrozenInv, SameButMem, Fits
  <2>20. RunInv(m, ts2, a2, content)
    BY <1>10 DEF RunInv, InPassAt
  <2> QED
    BY <2>9, <2>11, <2>12, <2>13, <2>14, <2>15, <2>16, <2>18, <2>19, <2>20 DEF Good
<1> QED
  BY <1>1, <1>2, <1>3, <1>4, <1>6, <1>13, <1>14 DEF IInv

-----------------------------------------------------------------------------
(* The beginning of a pass.                                                *)

\* Nothing is reached before the first command, and nothing is planned.
LEMMA FirstFacts ==
    ASSUME NEW m \in Models
    PROVE  /\ \A t \in TensorsOf(m) : ~Reached(m, t, 1)
           /\ \A ts, cs, g : PlanOK(m, ts, cs, g, 1)
<1>1. \A k \in OpsOf(m) : ~(k < 1)
  <2>1. \A k \in OpsOf(m) : k \in Nat /\ k > 0
    BY NetFacts
  <2> QED
    BY <2>1
<1>2. ASSUME NEW t \in TensorsOf(m) PROVE ~Reached(m, t, 1)
  <2>1. t \in Int
    BY NetFacts
  <2>2. CASE t > 0
    BY <2>1, <2>2 DEF Reached
  <2>3. CASE ~(t > 0)
    BY <1>1, <2>3 DEF Reached
  <2> QED
    BY <2>2, <2>3
<1>3. \A x \in InputsOf(m) : x \in TensorsOf(m)
  BY DEF TensorsOf
<1>4. ASSUME NEW ts, NEW cs, NEW g PROVE PlanOK(m, ts, cs, g, 1)
  BY <1>1, <1>2, <1>3 DEF PlanOK, Hosts, Temps, KeepsHost, KeepsTemp, InputsApart
<1> QED
  BY <1>2, <1>4

\* A record whose places in the plan of g are gone, and whose use count is another.
Reset(r, r2, g) ==
    /\ r2.group = r.group /\ r2.length = r.length /\ r2.size = r.size
    /\ r2.mem = Kill(r.mem, g) /\ r2.host = Kill(r.host, g)

Exist(m, cs) == \A i \in OpsOf(m) : cs[i].exists

\* The beginning of a pass resets the group and counts the reads of the commands.
LEMMA BeginTensors ==
    ASSUME NEW m, m = model, m \in Models, NEW ts, NEW cs, NEW g \in Group,
           \A t \in TensorsOf(m) : ts[t] \in TensorType /\ ts[t].useCount <= Uses(m, t, OpsOf(m)),
           NEW call, NEW allocInput, Begin(call, g, allocInput, ts, cs), NEW ts2, ts2 = tensor'
    PROVE  /\ ts2 \in [TensorsOf(m) -> TensorType]
           /\ \A t \in TensorsOf(m) : Reset(ts[t], ts2[t], g) /\ ts2[t].useCount <= Uses(m, t, OpsOf(m))
           /\ Exist(m, cs) => \A t \in TensorsOf(m) : ts2[t].useCount = Left(m, t, 1)
<1>1. PICK ops : ops = {i \in OpsOf(m) : cs[i].exists}
  OBVIOUS
<1>2. PICK used : used = UNION {ToSet(m.net[i].in) : i \in ops}
  OBVIOUS
<1>3. net = m.net /\ Ops = OpsOf(m) /\ Tensors = TensorsOf(m) /\ \A t : UseCount(t, ops) = Uses(m, t, ops)
  BY Names, UseCountUses
<1>4. ts2 = [t \in TensorsOf(m) |-> [KillTensors(ts, g)[t] EXCEPT
                        !.useCount = IF t \in used THEN Uses(m, t, ops) ELSE @]]
  BY <1>1, <1>2, <1>3 DEF Begin
<1>5. \A t : t \in used <=> \E i \in ops : Reader(m, t, i)
  BY <1>2 DEF Reader
<1>6. ops \in SUBSET OpsOf(m)
  BY <1>1
<1>7. OpsOf(m) = 1 .. Len(m.net) /\ Len(m.net) \in Nat
  BY NetFacts
<1>8. ASSUME NEW t \in TensorsOf(m)
      PROVE  /\ ts2[t] \in TensorType /\ Reset(ts[t], ts2[t], g)
             /\ ts2[t].useCount <= Uses(m, t, OpsOf(m))
             /\ Exist(m, cs) => ts2[t].useCount = Left(m, t, 1)
  <2>1. PICK r : r = ts[t]
    OBVIOUS
  <2>2. PICK x : x = Kill(r.mem, g)
    OBVIOUS
  <2>3. PICK h : h = Kill(r.host, g)
    OBVIOUS
  <2>4. PICK v : v = IF t \in used THEN Uses(m, t, ops) ELSE r.useCount
    OBVIOUS
  <2>5. r \in TensorType
    BY <2>1
  <2>6. x \in Spot /\ h \in Spot
    <3>1. r.mem \in Spot /\ r.host \in Spot
      BY <2>5 DEF TensorType
    <3> QED
      BY <2>2, <2>3, <3>1, KillFacts
  <2>7. PICK k : k = [r EXCEPT !.mem = x, !.host = h]
    OBVIOUS
  <2>8. KillTensors(ts, g)[t] = k
    BY <1>3, <2>1, <2>2, <2>3, <2>7 DEF KillTensors
  <2>9. k \in TensorType /\ k.useCount = r.useCount /\ k.mem = x /\ k.host = h
        /\ k.group = r.group /\ k.length = r.length /\ k.size = r.size
    BY <2>5, <2>6, <2>7 DEF TensorType
  <2>10. ts2[t] = [k EXCEPT !.useCount = v]
    <3>1. ts2[t] = [k EXCEPT !.useCount = IF t \in used THEN Uses(m, t, ops) ELSE k.useCount]
      BY <1>4, <2>8
    <3> QED
      BY <2>4, <2>9, <3>1
  <2>11. Uses(m, t, ops) \in Nat /\ Uses(m, t, ops) <= Uses(m, t, OpsOf(m)) /\ Uses(m, t, OpsOf(m)) \in Nat
    BY <1>6, OpsCounted, UsesMonotone
  <2>12. v \in Nat /\ v <= Uses(m, t, OpsOf(m))
    <3>1. r.useCount \in Nat /\ r.useCount <= Uses(m, t, OpsOf(m))
      BY <2>1, <2>5 DEF TensorType
    <3> QED
      BY <2>4, <2>11, <3>1
  <2>13. /\ ts2[t] \in TensorType /\ ts2[t].useCount = v
         /\ ts2[t].group = k.group /\ ts2[t].length = k.length /\ ts2[t].size = k.size
         /\ ts2[t].mem = k.mem /\ ts2[t].host = k.host
    BY <2>9, <2>10, <2>12 DEF TensorType
  <2>14. Reset(r, ts2[t], g)
    BY <2>2, <2>3, <2>9, <2>13 DEF Reset
  <2>15. ASSUME Exist(m, cs) PROVE v = Left(m, t, 1)
    <3>1. ops = OpsOf(m)
      BY <1>1, <2>15 DEF Exist
    <3>2. Left(m, t, 1) = Uses(m, t, OpsOf(m))
      BY <1>7 DEF Left
    <3>3. CASE t \in used
      BY <2>4, <3>1, <3>2, <3>3
    <3>4. CASE t \notin used
      <4>1. Uses(m, t, OpsOf(m)) = 0
        BY <1>5, <3>1, <3>4, UsesNone
      <4> QED
        BY <2>12, <3>2, <4>1
    <3> QED
      BY <3>3, <3>4
  <2> QED
    BY <2>1, <2>12, <2>13, <2>14, <2>15
<1>9. ts2 \in [TensorsOf(m) -> TensorType]
  BY <1>4, <1>8
<1> QED
  BY <1>8, <1>9

\* What the beginning of a pass does to commands and plans p, and where it is then.
Begun(m, cs, p, g, call, allocInput, cs2, pl2, a2) ==
    /\ cs2 \in [OpsOf(m) -> CommandType]
    /\ \A k \in OpsOf(m) : /\ cs2[k].exists = cs[k].exists /\ cs2[k].group = cs[k].group
                           /\ cs2[k].temp = Kill(cs[k].temp, g)
    /\ pl2 \in [Group -> PlanType]
    /\ \A x \in Group : pl2[x] = IF x = g \/ call = "fix" THEN EmptyPlan ELSE p[x]
    /\ a2 = [call |-> call, i |-> IF Exist(m, cs) THEN 1 ELSE Len(m.net) + 1,
             g |-> g, allocInput |-> allocInput]

\* It leaves the commands of other groups, and knows where to start.
LEMMA BeginRest ==
    ASSUME NEW m, m = model, m \in Models, NEW ts, NEW cs, NEW g \in Group,
           \A k \in OpsOf(m) : cs[k] \in CommandType, \A x \in Group : plan[x] \in PlanType,
           NEW call, NEW allocInput, Begin(call, g, allocInput, ts, cs),
           NEW cs2, cs2 = command', NEW pl2, pl2 = plan', NEW a2, a2 = at'
    PROVE  Begun(m, cs, plan, g, call, allocInput, cs2, pl2, a2)
<1>1. net = m.net /\ Ops = OpsOf(m)
  BY Names
<1>2. /\ cs2 = [k \in OpsOf(m) |-> [cs[k] EXCEPT !.temp = Kill(@, g)]]
      /\ pl2 = [x \in Group |-> IF x = g \/ call = "fix" THEN EmptyPlan ELSE plan[x]]
      /\ a2 = [call |-> call, i |-> IF {i \in OpsOf(m) : cs[i].exists} = OpsOf(m) THEN 1 ELSE Len(m.net) + 1,
               g |-> g, allocInput |-> allocInput]
  BY <1>1 DEF Begin, KillTemps
<1>3. ASSUME NEW k \in OpsOf(m)
      PROVE  /\ cs2[k] \in CommandType /\ cs2[k].exists = cs[k].exists /\ cs2[k].group = cs[k].group
             /\ cs2[k].temp = Kill(cs[k].temp, g)
  <2>1. PICK r : r = cs[k]
    OBVIOUS
  <2>2. PICK x : x = Kill(r.temp, g)
    OBVIOUS
  <2>3. r \in CommandType
    BY <2>1
  <2>4. x \in Spot
    BY <2>2, <2>3, KillFacts DEF CommandType
  <2>5. cs2[k] = [r EXCEPT !.temp = x]
    BY <1>2, <2>1, <2>2
  <2>6. cs2[k] \in CommandType /\ cs2[k].exists = r.exists /\ cs2[k].group = r.group /\ cs2[k].temp = x
    BY <2>3, <2>4, <2>5 DEF CommandType
  <2> QED
    BY <2>1, <2>2, <2>6
<1>4. EmptyPlan \in PlanType
  BY DEF EmptyPlan, PlanType
<1>5. {i \in OpsOf(m) : cs[i].exists} = OpsOf(m) <=> Exist(m, cs)
  BY DEF Exist
<1>6. cs2 \in [OpsOf(m) -> CommandType]
  BY <1>2, <1>3
<1>7. pl2 \in [Group -> PlanType]
  BY <1>2, <1>4
<1> QED
  BY <1>2, <1>3, <1>5, <1>6, <1>7 DEF Begun

\* Counts and types at the beginning of a pass.
LEMMA BeginBasic ==
    ASSUME NEW m \in Models, NEW fl \in FlagsType, NEW ca \in [OpsOf(m) -> CacheType],
           NEW ts2 \in [TensorsOf(m) -> TensorType], NEW cs2 \in [OpsOf(m) -> CommandType],
           NEW pl2 \in [Group -> PlanType], NEW ts, NEW cs, NEW a2, NEW g, NEW call,
           Grouped(m, ts), Made(m, ca, cs),
           \A t \in TensorsOf(m) : Reset(ts[t], ts2[t], g) /\ ts2[t].useCount <= Uses(m, t, OpsOf(m)),
           Exist(m, cs) => \A t \in TensorsOf(m) : ts2[t].useCount = Left(m, t, 1),
           \A k \in OpsOf(m) : cs2[k].exists = cs[k].exists,
           a2 = [call |-> call, i |-> IF Exist(m, cs) THEN 1 ELSE Len(m.net) + 1, g |-> g,
                 allocInput |-> IF call = "fix" THEN TRUE ELSE m.mAllocInput],
           (call = "alloc" /\ g = 0) \/ (call = "fix" /\ g = 1)
    PROVE  Basic(m, fl, ca, ts2, cs2, pl2, a2)
<1>1. Len(m.net) \in Nat /\ m.mAllocInput \in BOOLEAN /\ \A j \in OpsOf(m) : j \in Nat /\ j <= Len(m.net)
  BY NetFacts
<1>2. PICK i : i = IF Exist(m, cs) THEN 1 ELSE Len(m.net) + 1
  OBVIOUS
<1>3. i \in Nat /\ i > 0 /\ i <= Len(m.net) + 2 /\ (i \in OpsOf(m) => Exist(m, cs) /\ i = 1)
  <2>1. CASE Exist(m, cs)
    BY <1>1, <1>2, <2>1
  <2>2. CASE ~Exist(m, cs)
    BY <1>1, <1>2, <2>2
  <2> QED
    BY <2>1, <2>2
<1>4. PICK ai : ai = IF call = "fix" THEN TRUE ELSE m.mAllocInput
  OBVIOUS
<1>5. ai \in BOOLEAN
  BY <1>1, <1>4
<1>6. a2 = [call |-> call, i |-> i, g |-> g, allocInput |-> ai]
  BY <1>2, <1>4
<1>7. a2.call = call /\ a2.i = i /\ a2.g = g /\ a2.allocInput = ai
  <2>1. PICK r : r = [call |-> call, i |-> i, g |-> g, allocInput |-> ai]
    OBVIOUS
  <2>2. r.call = call
    BY <2>1, Zenon
  <2>3. r.i = i
    BY <2>1, Zenon
  <2>4. r.g = g
    BY <2>1, Zenon
  <2>5. r.allocInput = ai
    BY <2>1, Zenon
  <2> QED
    BY <1>6, <2>1, <2>2, <2>3, <2>4, <2>5, Zenon
<1>8. a2 \in CallType
  <2>1. call \in {"none", "create", "alloc", "fix", "run"} /\ g \in Group
    BY DEF Group
  <2>2. [call |-> call, i |-> i, g |-> g, allocInput |-> ai] \in CallType
    BY <1>3, <1>5, <2>1 DEF CallType
  <2> QED
    BY <1>6, <2>2
<1>9. Typed(m, fl, ca, ts2, cs2, pl2, a2)
  <2>1. a2.i <= Len(m.net) + 2
    BY <1>3, <1>7
  <2> QED
    BY <1>8, <2>1 DEF Typed
<1>10. PassAt(m, a2)
  BY <1>3, <1>4, <1>7 DEF PassAt
<1>11. Grouped(m, ts2)
  BY DEF Grouped, Reset, TensorsOf
<1>12. Made(m, ca, cs2)
  BY DEF Made
<1>13. CountInv(m, ts2, cs2, a2)
  BY <1>3, <1>7 DEF CountInv, Exist
<1> QED
  BY <1>9, <1>10, <1>11, <1>12, <1>13 DEF Basic

\* Groups are about groups and about what exists.
LEMMA GroupKept ==
    ASSUME NEW m, NEW fl, NEW ca, NEW ts, NEW cs, NEW ts2, NEW cs2, GroupInv(m, fl, ca, ts, cs),
           \A t \in TensorsOf(m) : ts2[t].group = ts[t].group,
           \A k \in OpsOf(m) : cs2[k].exists = cs[k].exists /\ cs2[k].group = cs[k].group
    PROVE  GroupInv(m, fl, ca, ts2, cs2)
<1>1. \A k \in OpsOf(m) : k \in TensorsOf(m)
  BY DEF TensorsOf
<1>2. ~fl.fixed => (\A i \in OpsOf(m) : cs2[i].group = 0) /\ (\A t \in TensorsOf(m) : ts2[t].group # 1)
  BY DEF GroupInv
<1>3. \A i \in OpsOf(m) : cs2[i].group = 1 =>
          ts2[i].group = 1 /\ cs2[i].exists /\ ca[i].mPass /\ ~ca[i].mCanCache
  BY <1>1 DEF GroupInv
<1>4. \A t \in TensorsOf(m) : ts2[t].group = 1 =>
          \E i \in OpsOf(m) : cs2[i].group = 1 /\ (t = i \/ Reader(m, t, i))
  BY DEF GroupInv
<1> QED
  BY <1>2, <1>3, <1>4 DEF GroupInv

\* After _createExecutions the pass begins with nothing held and every read to come.
LEMMA CreateExecutionsStep ==
    ASSUME IInv, CreateExecutions, UNCHANGED model
    PROVE  IInv'
<1>1. PICK m : m = model
  OBVIOUS
<1>2. PICK ts2 : ts2 = tensor'
  OBVIOUS
<1>3. PICK cs2 : cs2 = command'
  OBVIOUS
<1>4. PICK pl2 : pl2 = plan'
  OBVIOUS
<1>5. PICK a2 : a2 = at'
  OBVIOUS
<1>6. /\ at.call = "create" /\ Begin("alloc", 0, m.mAllocInput, tensor, command)
      /\ UNCHANGED <<flags, cache, content, right, sound>>
  BY <1>1 DEF CreateExecutions
<1>7. Basic(m, flags, cache, tensor, command, plan, at)
  BY <1>1 DEF IInv
<1>8. /\ m \in Models /\ flags \in FlagsType
      /\ \A t \in TensorsOf(m) : tensor[t] \in TensorType /\ tensor[t].useCount <= Uses(m, t, OpsOf(m))
      /\ \A k \in OpsOf(m) : command[k] \in CommandType
      /\ \A x \in Group : plan[x] \in PlanType
      /\ 0 \in Group
  BY <1>7, TypeFacts DEF Basic, CountInv, Group
<1>9. /\ ts2 \in [TensorsOf(m) -> TensorType]
      /\ \A t \in TensorsOf(m) : Reset(tensor[t], ts2[t], 0) /\ ts2[t].useCount <= Uses(m, t, OpsOf(m))
      /\ Exist(m, command) => \A t \in TensorsOf(m) : ts2[t].useCount = Left(m, t, 1)
  BY <1>1, <1>2, <1>6, <1>8, BeginTensors
<1>10. /\ cs2 \in [OpsOf(m) -> CommandType]
       /\ \A k \in OpsOf(m) : /\ cs2[k].exists = command[k].exists /\ cs2[k].group = command[k].group
                              /\ cs2[k].temp = Kill(command[k].temp, 0)
       /\ pl2 \in [Group -> PlanType]
       /\ \A x \in Group : pl2[x] = IF x = 0 THEN EmptyPlan ELSE plan[x]
       /\ a2 = [call |-> "alloc", i |-> IF Exist(m, command) THEN 1 ELSE Len(m.net) + 1,
                g |-> 0, allocInput |-> m.mAllocInput]
  <2>1. PICK c : c = "alloc"
    OBVIOUS
  <2>2. PICK ai : ai = m.mAllocInput
    OBVIOUS
  <2>3. Begin(c, 0, ai, tensor, command)
    BY <1>6, <2>1, <2>2
  <2>4. Begun(m, command, plan, 0, c, ai, cs2, pl2, a2)
    BY <1>1, <1>3, <1>4, <1>5, <1>8, <2>3, BeginRest
  <2> QED
    BY <2>1, <2>2, <2>4 DEF Begun
<1>11. Basic(m, flags, cache, ts2, cs2, pl2, a2)
  <2>1. cache \in [OpsOf(m) -> CacheType] /\ Grouped(m, tensor) /\ Made(m, cache, command)
    BY <1>7 DEF Basic, Typed
  <2>2. PICK call : call = "alloc"
    OBVIOUS
  <2>3. a2 = [call |-> call, i |-> IF Exist(m, command) THEN 1 ELSE Len(m.net) + 1,
              g |-> 0, allocInput |-> IF call = "fix" THEN TRUE ELSE m.mAllocInput]
    BY <1>10, <2>2
  <2> QED
    BY <1>8, <1>9, <1>10, <2>1, <2>2, <2>3, BeginBasic
<1>12. ASSUME sound PROVE Good(m, flags, cache, ts2, cs2, pl2, a2, content)
  <2>1. Good(m, flags, cache, tensor, command, plan, at, content)
    BY <1>1, <1>12 DEF IInv
  <2>2. flags.mNeedResize /\ ~flags.failed
    BY <1>6, <2>1 DEF Good, CallInv
  <2>3. Exist(m, command) /\ \A i \in OpsOf(m) : cache[i].seen = LengthsOf(m, tensor, i)
    BY <1>6, <2>1 DEF Good, CacheInv, Exist
  <2>4. a2.call = "alloc" /\ a2.i = 1 /\ a2.g = 0 /\ InPassAt(a2)
    BY <1>10, <2>3 DEF InPassAt
  <2>5. ASSUME NEW t \in TensorsOf(m) PROVE OwnOnly(m, tensor, t) /\ ts2[t].mem = tensor[t].mem /\ OwnOnly(m, ts2, t)
    <3>1. OwnOnly(m, tensor, t)
      BY <1>6, <2>1, IdleFacts DEF Good, Owners, InPassAt
    <3>2. ts2[t].mem = tensor[t].mem
      BY <1>9, <3>1, KillFacts DEF OwnOnly, Reset
    <3> QED
      BY <3>1, <3>2 DEF OwnOnly
  <2>6. CallInv(m, flags, cs2, a2)
    BY <2>2, <2>4 DEF CallInv
  <2>7. ASSUME NEW i \in OpsOf(m) PROVE LengthsOf(m, ts2, i) = LengthsOf(m, tensor, i)
    BY <1>8, <1>9, ReadTensors DEF LengthsOf, Reset
  <2>8. CacheInv(m, flags, cache, ts2, cs2, a2)
    BY <1>10, <2>3, <2>7 DEF CacheInv, Exist
  <2>9. GroupInv(m, flags, cache, ts2, cs2)
    <3>1. GroupInv(m, flags, cache, tensor, command)
      BY <2>1 DEF Good
    <3>2. /\ \A t \in TensorsOf(m) : ts2[t].group = tensor[t].group
          /\ \A k \in OpsOf(m) : cs2[k].exists = command[k].exists /\ cs2[k].group = command[k].group
          /\ \A k \in OpsOf(m) : k \in TensorsOf(m)
      BY <1>9, <1>10 DEF Reset, TensorsOf
    <3> QED
      BY <3>1, <3>2, GroupKept
  <2>10. Owners(m, flags, ts2, pl2, a2)
    BY <2>5 DEF Owners
  <2>11. Own1(m, flags, ts2, a2)
    <3>1. ASSUME NEW t \in TensorsOf(m), ts2[t].group = -1
          PROVE  ts2[t].mem = None /\ ts2[t].host = Own(t) /\ Fits(ts2, t)
      <4>1. tensor[t].mem = None /\ tensor[t].host = Own(t) /\ Fits(tensor, t)
        BY <1>9, <2>1, <3>1 DEF Good, Own1, Reset
      <4> QED
        BY <1>9, <2>5, <4>1, KillFacts DEF Reset, Fits
    <3>2. ASSUME NEW t \in TensorsOf(m), Static(m, t), ts2[t].mem = Own(t) PROVE ts2[t].host = Own(t)
      <4>1. tensor[t].host = Own(t)
        BY <2>1, <2>5, <3>2 DEF Good, Own1
      <4> QED
        BY <1>9, <4>1, KillFacts DEF Reset
    <3> QED
      BY <2>2, <2>4, <3>1, <3>2 DEF Own1
  <2>12. LiveInv(m, ts2, pl2)
    <3>1. \A x : HeldIn(m, ts2, x) = {} /\ HeldIn(m, tensor, x) = {}
      BY <2>5, OwnOnlyHeld
    <3>2. ASSUME NEW x \in Group PROVE pl2[x].live = {}
      BY <1>10, <2>1, <3>1 DEF Good, LiveInv, EmptyPlan
    <3> QED
      BY <3>1, <3>2 DEF LiveInv
  <2>13. PassInv(m, ts2, cs2, pl2, a2)
    <3>1. \A t \in TensorsOf(m) : ~Reached(m, t, 1)
      BY <1>8, FirstFacts
    <3>2. \A k \in OpsOf(m) : ~(k < 1)
      <4>1. \A k \in OpsOf(m) : k \in Nat /\ k > 0
        BY <1>8, NetFacts
      <4> QED
        BY <4>1
    <3>3. ASSUME NEW t \in TensorsOf(m), ts2[t].group = 0 PROVE ts2[t].mem = None
      BY <1>6, <1>9, <2>1, <2>5, <3>3 DEF Good, Own1, Reset
    <3> QED
      BY <2>4, <2>5, <3>1, <3>2, <3>3 DEF PassInv
  <2>14. PlansInv(m, flags, ts2, cs2, a2)
    <3>1. PlanOK(m, tensor, command, 1, Len(m.net) + 1)
      BY <1>6, <2>1 DEF Good, PlansInv
    <3>3. /\ \A t \in TensorsOf(m) : tensor[t].group = 1 => Kill(tensor[t].host, 0) = tensor[t].host
          /\ \A k \in OpsOf(m) : command[k].group = 1 => Kill(command[k].temp, 0) = command[k].temp
      BY <1>8, <3>1, FixedHosts
    <3>4. PlanOK(m, ts2, cs2, 1, Len(m.net) + 1)
      BY <1>8, <1>9, <1>10, <3>1, <3>3, PlanKept DEF Reset
    <3>5. PlanOK(m, ts2, cs2, 0, 1)
      BY <1>8, FirstFacts
    <3> QED
      BY <2>2, <2>4, <3>4, <3>5 DEF PlansInv
  <2>15. FrozenInv(m, cache, ts2, cs2, a2)
    <3>1. \A i \in OpsOf(m) : i \in TensorsOf(m) /\ \A k \in DOMAIN m.net[i].in : m.net[i].in[k] \in TensorsOf(m)
      BY <1>8, ReadTensors
    <3> QED
      BY <1>6, <1>9, <1>10, <2>1, <3>1 DEF Good, FrozenInv, Reset, Fits
  <2>16. RunInv(m, ts2, a2, content)
    BY <2>4 DEF RunInv
  <2> QED
    BY <2>6, <2>8, <2>9, <2>10, <2>11, <2>12, <2>13, <2>14, <2>15, <2>16 DEF Good
<1> QED
  BY <1>1, <1>2, <1>3, <1>4, <1>5, <1>6, <1>11, <1>12 DEF IInv

-----------------------------------------------------------------------------
(* A command gets its memory.                                              *)

\* The allocator has placed the tensors P of those A that get memory for command i at a,
\* and the command's own memory at tmp, all in plan p of group g.
Chosen(m, ts, cs, p, g, ai, i, A, P, a, tmp) ==
    /\ A = {t \in TensorsOf(m) : (t = i \/ (ai /\ Reader(m, t, i))) /\ ts[t].group = g /\ ts[t].mem = None}
    /\ P = {t \in A : ~Static(m, t)}
    /\ DOMAIN a = P /\ Range(a) = {a[t] : t \in P}
    /\ \A t \in P : a[t] \in Addr /\ a[t] \notin p.live
    /\ \A t, u \in P : t # u => a[t] # a[u]
    /\ \A t \in P : a[t] # tmp
    /\ \A t \in P : t < 0 => a[t] \notin p.used
    /\ cs[i].group = g => tmp \in Addr /\ tmp \notin p.live
    /\ cs[i].group # g => tmp = 0

\* Those tensors have it.
HasPlaced(m, ts, ts1, g, A, P, a) ==
    /\ ts1 \in [TensorsOf(m) -> TensorType]
    /\ \A t \in TensorsOf(m) :
          /\ ts1[t].group = ts[t].group /\ ts1[t].useCount = ts[t].useCount /\ ts1[t].length = ts[t].length
          /\ t \in P => ts1[t].mem = In(g, a[t]) /\ ts1[t].host = In(g, a[t]) /\ Fits(ts1, t)
          /\ t \in A /\ t \notin P => ts1[t].mem = Own(t) /\ ts1[t].host = Own(t) /\ Fits(ts1, t)
          /\ t \notin A => ts1[t] = ts[t]

\* What a command gets memory for, in terms of the session.
LEMMA ToAllocFacts ==
    ASSUME NEW m, m = model, m \in Models, NEW i \in OpsOf(m), at.allocInput \in BOOLEAN
    PROVE  /\ ToAlloc(i) = {t \in TensorsOf(m) : (t = i \/ (at.allocInput /\ Reader(m, t, i)))
                                                 /\ tensor[t].group = at.g /\ tensor[t].mem = None}
           /\ ToPlan(i) = {t \in ToAlloc(i) : ~Static(m, t)}
<1>1. net = m.net
  BY Names
<1>2. \A t \in ToSet(net[i].in) : t \in TensorsOf(m) /\ Reader(m, t, i)
  <2>1. \A t \in ToSet(net[i].in) : Reader(m, t, i)
    BY <1>1 DEF Reader
  <2> QED
    BY <2>1, NetFacts
<1>3. i \in TensorsOf(m)
  BY DEF TensorsOf
<1>4. \A t : Reader(m, t, i) => t \in ToSet(net[i].in)
  BY <1>1 DEF Reader
<1>5. \A t : t \in (IF at.allocInput THEN ToSet(net[i].in) ELSE {}) \union {i} <=>
             t \in TensorsOf(m) /\ (t = i \/ (at.allocInput /\ Reader(m, t, i)))
  BY <1>2, <1>3, <1>4
<1>6. ToAlloc(i) = {t \in TensorsOf(m) : (t = i \/ (at.allocInput /\ Reader(m, t, i)))
                                          /\ tensor[t].group = at.g /\ tensor[t].mem = None}
  BY <1>5 DEF ToAlloc
<1>7. \A t \in ToAlloc(i) : t \in TensorsOf(m)
  BY <1>6
<1>8. ToPlan(i) = {t \in ToAlloc(i) : ~Static(m, t)}
  BY <1>7, Kinds DEF ToPlan
<1> QED
  BY <1>6, <1>8

\* A placement is one the allocator can make.
LEMMA PlacementFacts ==
    ASSUME NEW m, m = model, m \in Models, at \in CallType, NEW i \in OpsOf(m), NEW pl \in Placements(i),
           command[i] \in CommandType
    PROVE  Chosen(m, tensor, command, plan[at.g], at.g, at.allocInput, i, ToAlloc(i), ToPlan(i), pl[1], pl[2])
<1>1. at.allocInput \in BOOLEAN
  BY DEF CallType
<1>2. PICK A : A = ToAlloc(i)
  OBVIOUS
<1>3. PICK P : P = ToPlan(i)
  OBVIOUS
<1>4. PICK p : p = plan[at.g]
  OBVIOUS
<1>5. PICK temps : temps = IF command[i].group = at.g THEN Addr \ p.live ELSE {0}
  OBVIOUS
<1>6. /\ A = {t \in TensorsOf(m) : (t = i \/ (at.allocInput /\ Reader(m, t, i)))
                                   /\ tensor[t].group = at.g /\ tensor[t].mem = None}
      /\ P = {t \in A : ~Static(m, t)}
  BY <1>1, <1>2, <1>3, ToAllocFacts
<1>7. PICK a : a = pl[1]
  OBVIOUS
<1>8. PICK tmp : tmp = pl[2]
  OBVIOUS
<1>9. /\ pl \in [P -> Addr \ p.live] \X temps
      /\ \A t, u \in P : t # u => a[t] # a[u]
      /\ tmp \notin Range(a)
      /\ \A t \in P : StorageType(t) = "DYNAMIC_SEPERATE" => a[t] \notin p.used
  BY <1>3, <1>4, <1>5, <1>7, <1>8 DEF Placements
<1>10. a \in [P -> Addr \ p.live] /\ tmp \in temps
  BY <1>7, <1>8, <1>9
<1>11. DOMAIN a = P /\ Range(a) = {a[t] : t \in P} /\ \A t \in P : a[t] \in Addr /\ a[t] \notin p.live
  BY <1>10 DEF Range
<1>12. \A t \in P : t < 0 => a[t] \notin p.used
  <2>1. \A t \in P : t \in TensorsOf(m)
    BY <1>6
  <2> QED
    BY <1>9, <2>1, Kinds
<1>13. \A t \in P : a[t] # tmp
  BY <1>9, <1>11
<1>14. command[i].group = at.g => tmp \in Addr /\ tmp \notin p.live
  BY <1>5, <1>10
<1>15. command[i].group # at.g => tmp = 0
  BY <1>5, <1>10
<1>16. Chosen(m, tensor, command, p, at.g, at.allocInput, i, A, P, a, tmp)
  BY <1>6, <1>9, <1>11, <1>12, <1>13, <1>14, <1>15 DEF Chosen
<1> QED
  BY <1>2, <1>3, <1>4, <1>7, <1>8, <1>16

\* _allocForTensor gives the tensors it is called for memory of their length.
LEMMA PlacedFacts ==
    ASSUME NEW m, m = model, m \in Models, at \in CallType, NEW i \in OpsOf(m),
           \A t \in TensorsOf(m) : tensor[t] \in TensorType,
           NEW a, NEW tmp, NEW p,
           Chosen(m, tensor, command, p, at.g, at.allocInput, i, ToAlloc(i), ToPlan(i), a, tmp)
    PROVE  HasPlaced(m, tensor, Placed(i, a), at.g, ToAlloc(i), ToPlan(i), a)
<1>1. PICK A : A = ToAlloc(i)
  OBVIOUS
<1>2. PICK P : P = ToPlan(i)
  OBVIOUS
<1>3. PICK g \in Group : g = at.g
  BY DEF CallType
<1>4. PICK ts1 : ts1 = Placed(i, a)
  OBVIOUS
<1>5. DOMAIN a = P /\ (\A t \in P : a[t] \in Addr) /\ \A t \in P : t \in A
  BY <1>1, <1>2 DEF Chosen
<1>6. Tensors = TensorsOf(m)
  BY Names
<1>7. ts1 = [t \in TensorsOf(m) |->
        IF t \in A
        THEN [tensor[t] EXCEPT !.mem = IF t \in P THEN In(g, a[t]) ELSE Own(t),
                               !.host = IF t \in P THEN In(g, a[t]) ELSE Own(t), !.size = tensor[t].length]
        ELSE tensor[t]]
  BY <1>1, <1>2, <1>3, <1>4, <1>5, <1>6 DEF Placed
<1>8. ASSUME NEW t \in TensorsOf(m)
      PROVE  /\ ts1[t] \in TensorType
             /\ ts1[t].group = tensor[t].group /\ ts1[t].useCount = tensor[t].useCount
             /\ ts1[t].length = tensor[t].length
             /\ t \in P => ts1[t].mem = In(g, a[t]) /\ ts1[t].host = In(g, a[t]) /\ Fits(ts1, t)
             /\ t \in A /\ t \notin P => ts1[t].mem = Own(t) /\ ts1[t].host = Own(t) /\ Fits(ts1, t)
             /\ t \notin A => ts1[t] = tensor[t]
  <2>1. PICK r : r = tensor[t]
    OBVIOUS
  <2>2. r \in TensorType
    BY <2>1
  <2>3. CASE t \notin A
    BY <1>5, <1>7, <2>1, <2>2, <2>3
  <2>4. CASE t \in A
    <3>1. PICK x : x = IF t \in P THEN In(g, a[t]) ELSE Own(t)
      OBVIOUS
    <3>2. x \in Spot
      <4>1. CASE t \in P
        BY <1>5, <3>1, <4>1, SpotType
      <4>2. CASE t \notin P
        <5>1. t \in Int
          BY NetFacts
        <5> QED
          BY <3>1, <4>2, <5>1, SpotType
      <4> QED
        BY <4>1, <4>2
    <3>3. PICK l : l = r.length
      OBVIOUS
    <3>4. ts1[t] = [r EXCEPT !.mem = x, !.host = x, !.size = l]
      BY <1>7, <2>1, <2>4, <3>1, <3>3
    <3>5. l \in Nat
      BY <2>2, <3>3 DEF TensorType
    <3>6. PICK r2 : r2 = ts1[t]
      OBVIOUS
    <3>7. /\ r2 \in TensorType /\ r2.group = r.group /\ r2.useCount = r.useCount
          /\ r2.length = l /\ r2.mem = x /\ r2.host = x /\ r2.size = l
      BY <2>2, <3>2, <3>3, <3>4, <3>5, <3>6 DEF TensorType
    <3>8. Fits(ts1, t)
      BY <3>5, <3>6, <3>7 DEF Fits
    <3> QED
      BY <2>1, <2>4, <3>1, <3>3, <3>6, <3>7, <3>8
  <2> QED
    BY <2>3, <2>4
<1>9. ts1 \in [TensorsOf(m) -> TensorType]
  BY <1>7, <1>8
<1>10. HasPlaced(m, tensor, ts1, g, A, P, a)
  BY <1>8, <1>9 DEF HasPlaced
<1> QED
  BY <1>1, <1>2, <1>3, <1>4, <1>10

\* Every tensor owns no memory of a plan, or memory of group g at one of the addresses U.
OwnersIn(m, ts, g, U) ==
    \A t \in TensorsOf(m) :
        OwnOnly(m, ts, t) \/ (ts[t].group = g /\ \E x \in U : ts[t].mem = In(g, x))

\* What is held was handed out.
LEMMA OwnersInHeld ==
    ASSUME NEW m, NEW ts, NEW g, NEW U, OwnersIn(m, ts, g, U)
    PROVE  /\ HeldIn(m, ts, g) \subseteq U
           /\ \A x : x # g => HeldIn(m, ts, x) = {}
BY SpotFacts DEF OwnersIn, HeldIn, OwnOnly

\* In a pass the owners are tensors of its group.
LEMMA PassOwners ==
    ASSUME NEW m, NEW fl, NEW ts, NEW pl, NEW a, Owners(m, fl, ts, pl, a), InPassAt(a)
    PROVE  OwnersIn(m, ts, a.g, pl[a.g].used)
<1>1. a # Idle
  BY IdleFacts
<1> QED
  BY <1>1 DEF Owners, OwnersIn

\* Placing tensors keeps it so.
LEMMA PlacedOwners ==
    ASSUME NEW m, NEW ts, NEW cs, NEW p, NEW g, NEW ai, NEW i, NEW A, NEW P, NEW a, NEW tmp, NEW ts1,
           Chosen(m, ts, cs, p, g, ai, i, A, P, a, tmp), HasPlaced(m, ts, ts1, g, A, P, a),
           OwnersIn(m, ts, g, p.used)
    PROVE  OwnersIn(m, ts1, g, p.used \union Range(a))
<1> SUFFICES ASSUME NEW t \in TensorsOf(m)
             PROVE  OwnOnly(m, ts1, t) \/ (ts1[t].group = g /\ \E x \in p.used \union Range(a) : ts1[t].mem = In(g, x))
  BY DEF OwnersIn
<1>1. CASE t \in P
  <2>1. ts1[t].mem = In(g, a[t]) /\ ts1[t].group = ts[t].group
    BY <1>1 DEF HasPlaced
  <2>2. a[t] \in Range(a) /\ ts[t].group = g
    BY <1>1 DEF Chosen
  <2> QED
    BY <2>1, <2>2
<1>2. CASE t \in A /\ t \notin P
  <2>1. ts1[t].mem = Own(t)
    BY <1>2 DEF HasPlaced
  <2>2. Static(m, t)
    BY <1>2 DEF Chosen
  <2> QED
    BY <2>1, <2>2 DEF OwnOnly
<1>3. CASE t \notin A
  <2>1. ts1[t] = ts[t]
    BY <1>3 DEF HasPlaced
  <2> QED
    BY <2>1 DEF OwnersIn, OwnOnly
<1>4. t \in P => t \in A
  BY DEF Chosen
<1> QED
  BY <1>1, <1>2, <1>3, <1>4

\* A plan of the allocator after a command: what is used and held.
NewPlan(pl2, g, u, l) == pl2 = [plan EXCEPT ![g] = [used |-> u, live |-> l]]

\* A new plan for one group.
LEMMA PlanUpdate ==
    ASSUME plan \in [Group -> PlanType], NEW g \in Group, NEW u \in SUBSET Addr, NEW l \in SUBSET Addr, NEW pl2,
           NewPlan(pl2, g, u, l)
    PROVE  /\ pl2 \in [Group -> PlanType] /\ pl2[g].used = u /\ pl2[g].live = l
           /\ \A x \in Group : x # g => pl2[x] = plan[x]
<1>1. PICK p : p = [used |-> u, live |-> l]
  OBVIOUS
<1>2. p \in PlanType /\ p.used = u /\ p.live = l
  BY <1>1 DEF PlanType
<1>3. pl2 = [plan EXCEPT ![g] = p]
  BY <1>1 DEF NewPlan
<1> QED
  BY <1>2, <1>3

\* What was planned stays within what was fixed.
LEMMA FrozenKept ==
    ASSUME NEW m \in Models, NEW fl, NEW ca, NEW ts, NEW cs, NEW ts2, NEW cs2, NEW a, NEW a2,
           FrozenInv(m, ca, ts, cs, a), a.call # "fix",
           GroupInv(m, fl, ca, ts, cs),
           \A t \in TensorsOf(m) : ts2[t].group = ts[t].group,
           \A t \in TensorsOf(m) : ts[t].group = 1 => ts2[t].size = ts[t].size /\ ts2[t].length = ts[t].length,
           \A k \in OpsOf(m) : cs2[k].group = cs[k].group
    PROVE  FrozenInv(m, ca, ts2, cs2, a2)
<1> SUFFICES ASSUME NEW i \in OpsOf(m), cs2[i].group = 1
             PROVE  /\ Fits(ts2, i)
                    /\ \A k \in DOMAIN m.net[i].in :
                          ts2[m.net[i].in[k]].group = 1 => ca[i].seen[k] <= ts2[m.net[i].in[k]].size
  BY DEF FrozenInv
<1>1. i \in TensorsOf(m) /\ \A k \in DOMAIN m.net[i].in : m.net[i].in[k] \in TensorsOf(m)
  BY ReadTensors
<1>2. /\ Fits(ts, i)
      /\ \A k \in DOMAIN m.net[i].in :
             ts[m.net[i].in[k]].group = 1 => ca[i].seen[k] <= ts[m.net[i].in[k]].size
  BY DEF FrozenInv
<1>3. ts[i].group = 1
  BY DEF GroupInv
<1>4. Fits(ts2, i)
  BY <1>1, <1>2, <1>3 DEF Fits
<1> QED
  BY <1>1, <1>2, <1>4

\* onResize fails: the resize is given up and its tensors stay in the plan until the next encode.
LEMMA AllocFailsStep ==
    ASSUME IInv, AllocFails, UNCHANGED model
    PROVE  IInv'
<1>1. PICK m : m = model
  OBVIOUS
<1>2. PICK ts2 : ts2 = tensor'
  OBVIOUS
<1>3. PICK fl2 : fl2 = flags'
  OBVIOUS
<1>4. PICK pl2 : pl2 = plan'
  OBVIOUS
<1>5. PICK i : i = at.i
  OBVIOUS
<1>6. PICK g : g = at.g
  OBVIOUS
<1>7. /\ InPassAt(at) /\ i \in OpsOf(m) /\ at' = Idle
      /\ fl2 = [flags EXCEPT !.failed = TRUE] /\ sound' = (sound /\ at.call = "alloc")
      /\ UNCHANGED <<cache, command, content, right>>
  BY <1>1, <1>3, <1>5, Names DEF AllocFails, InPass, InPassAt
<1>8. PICK pl \in Placements(i) :
         /\ ts2 = Placed(i, pl[1])
         /\ pl2 = [plan EXCEPT ![g] = [used |-> @.used \union Range(pl[1]), live |-> Held(ts2, g)]]
  BY <1>2, <1>4, <1>5, <1>6 DEF AllocFails
<1>9. Basic(m, flags, cache, tensor, command, plan, at)
  BY <1>1 DEF IInv
<1>10. /\ m \in Models /\ flags \in FlagsType /\ at \in CallType
       /\ \A t \in TensorsOf(m) : tensor[t] \in TensorType
       /\ \A k \in OpsOf(m) : command[k] \in CommandType
       /\ plan \in [Group -> PlanType]
  BY <1>9, TypeFacts DEF Basic, Typed
<1>11. PICK a : a = pl[1]
  OBVIOUS
<1>12. PICK A : A = ToAlloc(i)
  OBVIOUS
<1>13. PICK P : P = ToPlan(i)
  OBVIOUS
<1>14. PICK tmp : tmp = pl[2]
  OBVIOUS
<1>15. PICK p : p = plan[g]
  OBVIOUS
<1>16. g \in Group /\ p \in PlanType /\ p.used \subseteq Addr
  BY <1>6, <1>10, <1>15 DEF CallType, PlanType
<1>17. Chosen(m, tensor, command, p, g, at.allocInput, i, A, P, a, tmp)
  BY <1>1, <1>6, <1>7, <1>8, <1>10, <1>11, <1>12, <1>13, <1>14, <1>15, PlacementFacts
<1>18. HasPlaced(m, tensor, ts2, g, A, P, a)
  <2>1. HasPlaced(m, tensor, Placed(i, a), at.g, ToAlloc(i), ToPlan(i), a)
    BY <1>1, <1>6, <1>7, <1>10, <1>12, <1>13, <1>17, PlacedFacts
  <2> QED
    BY <1>6, <1>8, <1>11, <1>12, <1>13, <2>1
<1>19. Range(a) \subseteq Addr
  BY <1>17 DEF Chosen
<1>20. /\ pl2 \in [Group -> PlanType] /\ pl2[g].used = p.used \union Range(a)
       /\ pl2[g].live = HeldIn(m, ts2, g) /\ \A x \in Group : x # g => pl2[x] = plan[x]
  <2>1. PICK u : u = p.used \union Range(a)
    OBVIOUS
  <2>2. PICK l : l = HeldIn(m, ts2, g)
    OBVIOUS
  <2>3. NewPlan(pl2, g, u, l)
    BY <1>1, <1>8, <1>10, <1>11, <1>15, <1>16, <2>1, <2>2, Names DEF NewPlan
  <2>4. u \in SUBSET Addr /\ l \in SUBSET Addr
    BY <1>16, <1>19, <2>1, <2>2 DEF HeldIn
  <2> QED
    BY <1>10, <1>16, <2>1, <2>2, <2>3, <2>4, PlanUpdate
<1>21. fl2 \in FlagsType /\ fl2.failed /\ fl2.mNeedResize = flags.mNeedResize /\ fl2.fixed = flags.fixed
  BY <1>7, <1>10 DEF FlagsType
<1>22. Basic(m, fl2, cache, ts2, command, pl2, Idle)
  <2>1. Len(m.net) \in Nat
    BY <1>10, NetFacts
  <2>2. Typed(m, fl2, cache, ts2, command, pl2, Idle)
    BY <1>9, <1>18, <1>20, <1>21, <2>1, IdleFacts DEF Basic, Typed, HasPlaced
  <2>3. Grouped(m, ts2)
    BY <1>9, <1>18 DEF Basic, Grouped, HasPlaced, TensorsOf
  <2>4. CountInv(m, ts2, command, Idle)
    <3>1. \A t \in TensorsOf(m) : ts2[t].useCount = tensor[t].useCount
      BY <1>18 DEF HasPlaced
    <3>2. \A t \in TensorsOf(m) : tensor[t].useCount <= Uses(m, t, OpsOf(m))
      BY <1>9 DEF Basic, CountInv
    <3> QED
      BY <3>1, <3>2, IdleFacts DEF CountInv
  <2> QED
    BY <1>9, <2>2, <2>3, <2>4, IdleFacts DEF Basic, PassAt
<1>23. ASSUME sound, at.call = "alloc" PROVE Good(m, fl2, cache, ts2, command, pl2, Idle, content)
  <2>1. Good(m, flags, cache, tensor, command, plan, at, content)
    BY <1>1, <1>23 DEF IInv
  <2>2. g = 0 /\ flags.mNeedResize
    BY <1>6, <1>9, <1>23, <2>1 DEF Basic, PassAt, Good, CallInv
  <2>3. OwnersIn(m, tensor, g, p.used)
    BY <1>6, <1>7, <1>15, <2>1, PassOwners DEF Good
  <2>4. OwnersIn(m, ts2, g, p.used \union Range(a))
    BY <1>17, <1>18, <2>3, PlacedOwners
  <2>5. ASSUME NEW t \in TensorsOf(m), tensor[t].group # 0 PROVE ts2[t] = tensor[t]
    <3>1. t \notin A
      BY <1>17, <2>2, <2>5 DEF Chosen
    <3> QED
      BY <1>18, <3>1 DEF HasPlaced
  <2>6. CallInv(m, fl2, command, Idle)
    BY <1>21, <2>2, IdleFacts DEF CallInv
  <2>7. CacheInv(m, fl2, cache, ts2, command, Idle)
    BY <1>21, <2>2, IdleFacts DEF CacheInv
  <2>8. GroupInv(m, fl2, cache, ts2, command)
    <3>1. GroupInv(m, fl2, cache, tensor, command)
      BY <1>21, <2>1 DEF Good, GroupInv
    <3> QED
      BY <1>18, <3>1, GroupKept DEF HasPlaced
  <2>9. Owners(m, fl2, ts2, pl2, Idle)
    BY <1>20, <1>21, <2>2, <2>4 DEF Owners, OwnersIn
  <2>10. Own1(m, fl2, ts2, Idle)
    <3>1. ASSUME NEW t \in TensorsOf(m), ts2[t].group = -1
          PROVE  ts2[t].mem = None /\ ts2[t].host = Own(t) /\ Fits(ts2, t)
      <4>1. tensor[t].group = -1 /\ ts2[t] = tensor[t]
        BY <1>18, <2>5, <3>1 DEF HasPlaced
      <4> QED
        BY <2>1, <4>1 DEF Good, Own1, Fits
    <3>2. ASSUME NEW t \in TensorsOf(m), Static(m, t), ts2[t].mem = Own(t) PROVE ts2[t].host = Own(t)
      <4>1. CASE t \in A
        <5>1. t \notin P
          BY <1>17, <3>2 DEF Chosen
        <5> QED
          BY <1>18, <4>1, <5>1 DEF HasPlaced
      <4>2. CASE t \notin A
        <5>1. ts2[t] = tensor[t]
          BY <1>18, <4>2 DEF HasPlaced
        <5> QED
          BY <2>1, <3>2, <5>1 DEF Good, Own1
      <4> QED
        BY <4>1, <4>2
    <3> QED
      BY <1>21, <2>2, <3>1, <3>2, IdleFacts DEF Own1
  <2>11. LiveInv(m, ts2, pl2)
    <3>1. HeldIn(m, ts2, g) \subseteq p.used \union Range(a) /\ \A x : x # g => HeldIn(m, ts2, x) = {}
      BY <2>4, OwnersInHeld
    <3>2. \A x : x # g => HeldIn(m, tensor, x) = {}
      BY <2>3, OwnersInHeld
    <3>3. ASSUME NEW x \in Group PROVE pl2[x].live = HeldIn(m, ts2, x) /\ pl2[x].live \subseteq pl2[x].used
      <4>1. CASE x = g
        BY <1>20, <3>1, <4>1
      <4>2. CASE x # g
        <5>1. plan[x].live = HeldIn(m, tensor, x)
          BY <2>1 DEF Good, LiveInv
        <5>2. pl2[x].live = {}
          BY <1>20, <3>2, <4>2, <5>1
        <5> QED
          BY <3>1, <4>2, <5>2
      <4> QED
        BY <4>1, <4>2
    <3> QED
      BY <3>3 DEF LiveInv
  <2>12. PlansInv(m, fl2, ts2, command, Idle)
    <3>1. PlanOK(m, tensor, command, 1, Len(m.net) + 1)
      BY <1>23, <2>1 DEF Good, PlansInv
    <3>2. \A t \in TensorsOf(m) : ts2[t].group = 1 => tensor[t].group = 1 /\ ts2[t].host = tensor[t].host
      BY <1>18, <2>5 DEF HasPlaced
    <3>3. PlanOK(m, ts2, command, 1, Len(m.net) + 1)
      BY <1>10, <3>1, <3>2, PlanKept
    <3> QED
      BY <1>21, <2>2, <3>3, IdleFacts DEF PlansInv
  <2>13. FrozenInv(m, cache, ts2, command, Idle)
    <3>1. /\ FrozenInv(m, cache, tensor, command, at) /\ at.call # "fix"
          /\ GroupInv(m, flags, cache, tensor, command)
          /\ \A t \in TensorsOf(m) : ts2[t].group = tensor[t].group
          /\ \A t \in TensorsOf(m) : tensor[t].group = 1 => ts2[t].size = tensor[t].size /\ ts2[t].length = tensor[t].length
      BY <1>18, <1>23, <2>1, <2>5 DEF Good, HasPlaced
    <3> QED
      BY <1>10, <3>1, FrozenKept
  <2>14. PassInv(m, ts2, command, pl2, Idle) /\ RunInv(m, ts2, Idle, content)
    BY IdleFacts DEF PassInv, RunInv
  <2> QED
    BY <2>6, <2>7, <2>8, <2>9, <2>10, <2>11, <2>12, <2>13, <2>14 DEF Good
<1>24. sound' \in BOOLEAN /\ right' \in BOOLEAN
  BY <1>7 DEF IInv
<1>25. sound' => right' /\ Good(m, fl2, cache, ts2, command, pl2, Idle, content)
  BY <1>7, <1>23 DEF IInv
<1> QED
  BY <1>1, <1>2, <1>3, <1>4, <1>7, <1>22, <1>24, <1>25 DEF IInv

\* Tensors ts1 after what command i was the last to read is given back.
HasReleased(m, ts1, ts2, g, ai, i) ==
    /\ ts2 \in [TensorsOf(m) -> TensorType]
    /\ \A t \in TensorsOf(m) :
          /\ ts2[t].group = ts1[t].group /\ ts2[t].host = ts1[t].host
          /\ ts2[t].length = ts1[t].length /\ ts2[t].size = ts1[t].size
          /\ ts2[t].useCount = Left(m, t, i + 1)
          /\ ts2[t].mem = None \/ ts2[t].mem = ts1[t].mem
          /\ Needed(m, t, i + 1) \/ ts1[t].group # g \/ ~Reader(m, t, i) => ts2[t].mem = ts1[t].mem
          /\ t \in InputsOf(m) /\ Reader(m, t, i) /\ ~Needed(m, t, i + 1) /\ ts1[t].group = g /\ ai =>
                ts2[t].mem = None

\* _releaseTensor frees a tensor when its last read is counted off, and no sooner.
LEMMA ReleasedFacts ==
    ASSUME NEW m, m = model, m \in Models, at \in CallType, NEW i \in OpsOf(m), NEW ts1,
           \A t \in TensorsOf(m) : ts1[t] \in TensorType /\ ts1[t].useCount = Left(m, t, i)
    PROVE  HasReleased(m, ts1, Released(ts1, i), at.g, at.allocInput, i)
<1>1. PICK ts2 : ts2 = Released(ts1, i)
  OBVIOUS
<1>2. PICK g : g = at.g
  OBVIOUS
<1>3. PICK ai : ai = at.allocInput
  OBVIOUS
<1>4. Tensors = TensorsOf(m) /\ \A t : Reads(t, i) = ReadsOf(m, t, i)
  BY Names
<1>5. ts2 = [t \in TensorsOf(m) |->
        IF /\ ReadsOf(m, t, i) > 0 /\ ts1[t].useCount - ReadsOf(m, t, i) = 0
           /\ ts1[t].group = g /\ NeedRelease(t, ai)
        THEN [ts1[t] EXCEPT !.useCount = ts1[t].useCount - ReadsOf(m, t, i), !.mem = None]
        ELSE [ts1[t] EXCEPT !.useCount = ts1[t].useCount - ReadsOf(m, t, i)]]
  BY <1>1, <1>2, <1>3, <1>4 DEF Released
<1>6. i \in Nat /\ i > 0 /\ ai \in BOOLEAN
  BY <1>3, NetFacts DEF CallType
<1>7. ASSUME NEW t \in TensorsOf(m)
      PROVE  /\ ts2[t] \in TensorType
             /\ ts2[t].group = ts1[t].group /\ ts2[t].host = ts1[t].host
             /\ ts2[t].length = ts1[t].length /\ ts2[t].size = ts1[t].size
             /\ ts2[t].useCount = Left(m, t, i + 1)
             /\ ts2[t].mem = None \/ ts2[t].mem = ts1[t].mem
             /\ Needed(m, t, i + 1) \/ ts1[t].group # g \/ ~Reader(m, t, i) => ts2[t].mem = ts1[t].mem
             /\ t \in InputsOf(m) /\ Reader(m, t, i) /\ ~Needed(m, t, i + 1) /\ ts1[t].group = g /\ ai =>
                   ts2[t].mem = None
  <2>1. PICK r : r = ts1[t]
    OBVIOUS
  <2>2. PICK n : n = r.useCount - ReadsOf(m, t, i)
    OBVIOUS
  <2>3. PICK gone \in BOOLEAN : gone <=> Reader(m, t, i) /\ n = 0 /\ r.group = g /\ NeedRelease(t, ai)
    OBVIOUS
  <2>4. r \in TensorType /\ r.useCount = Left(m, t, i)
    BY <2>1
  <2>5. ReadsOf(m, t, i) \in Nat /\ (ReadsOf(m, t, i) > 0 <=> Reader(m, t, i))
    BY ReadsFacts
  <2>6. n = Left(m, t, i + 1) /\ n \in Nat /\ (n > 0 <=> \E j \in OpsOf(m) : j >= i + 1 /\ Reader(m, t, j))
    <3>1. Left(m, t, i) = ReadsOf(m, t, i) + Left(m, t, i + 1)
      BY <1>6, LeftFacts
    <3>2. Left(m, t, i + 1) \in Nat /\ (Left(m, t, i + 1) > 0 <=> \E j \in OpsOf(m) : j >= i + 1 /\ Reader(m, t, j))
      <4>1. i + 1 \in Nat /\ i + 1 > 0
        BY <1>6
      <4> QED
        BY <4>1, LeftFacts
    <3>3. n = Left(m, t, i + 1)
      BY <2>2, <2>4, <2>5, <3>1, <3>2
    <3> QED
      BY <3>2, <3>3
  <2>7. ts2[t] = IF gone THEN [r EXCEPT !.useCount = n, !.mem = None] ELSE [r EXCEPT !.useCount = n]
    <3>1. ts2[t] = IF /\ ReadsOf(m, t, i) > 0 /\ n = 0 /\ r.group = g /\ NeedRelease(t, ai)
                   THEN [r EXCEPT !.useCount = n, !.mem = None] ELSE [r EXCEPT !.useCount = n]
      BY <1>5, <2>1, <2>2
    <3> QED
      BY <2>3, <2>5, <3>1
  <2>8. None \in Spot
    BY SpotType
  <2>9. PICK r2 : r2 = ts2[t]
    OBVIOUS
  <2>10. /\ r2 \in TensorType /\ r2.group = r.group /\ r2.host = r.host
         /\ r2.length = r.length /\ r2.size = r.size /\ r2.useCount = n
         /\ r2.mem = IF gone THEN None ELSE r.mem
    <3>1. CASE gone
      <4>1. r2 = [r EXCEPT !.useCount = n, !.mem = None]
        BY <2>7, <2>9, <3>1
      <4> QED
        BY <2>4, <2>6, <2>8, <3>1, <4>1 DEF TensorType
    <3>2. CASE ~gone
      <4>1. r2 = [r EXCEPT !.useCount = n]
        BY <2>7, <2>9, <3>2
      <4> QED
        BY <2>4, <2>6, <3>2, <4>1 DEF TensorType
    <3> QED
      BY <3>1, <3>2
  <2>11. ASSUME gone PROVE ~Needed(m, t, i + 1) /\ r.group = g /\ Reader(m, t, i)
    <3>1. ~Output(m, t)
      BY <1>6, <2>3, <2>11, Kinds
    <3>2. ~\E j \in OpsOf(m) : j >= i + 1 /\ Reader(m, t, j)
      BY <2>3, <2>6, <2>11
    <3> QED
      BY <2>3, <2>11, <3>1, <3>2 DEF Needed
  <2>12. ASSUME Reader(m, t, i), ~Needed(m, t, i + 1), r.group = g, ai PROVE gone
    <3>1. NeedRelease(t, TRUE)
      BY <2>12, Kinds DEF Needed
    <3>2. ~(n > 0)
      BY <2>6, <2>12 DEF Needed
    <3>3. n = 0
      BY <2>6, <3>2
    <3>4. ai = TRUE
      BY <1>6, <2>12
    <3> QED
      BY <2>3, <2>12, <3>1, <3>3, <3>4
  <2> QED
    BY <2>1, <2>6, <2>9, <2>10, <2>11, <2>12
<1>8. ts2 \in [TensorsOf(m) -> TensorType]
  <2>1. ts2 = [t \in TensorsOf(m) |-> ts2[t]]
    BY <1>5
  <2> QED
    BY <1>7, <2>1
<1>9. HasReleased(m, ts1, ts2, g, ai, i)
  BY <1>7, <1>8 DEF HasReleased
<1> QED
  BY <1>1, <1>2, <1>3, <1>9

\* Command i comes across its output and its inputs, the operators' among them came earlier.
LEMMA ReachedNext ==
    ASSUME NEW m \in Models, NEW i \in OpsOf(m), NEW t \in TensorsOf(m)
    PROVE  /\ Reached(m, t, i) => Reached(m, t, i + 1) /\ t # i
           /\ Reached(m, t, i + 1) /\ ~Reached(m, t, i) => t = i \/ (t < 0 /\ t \in InputsOf(m) /\ Reader(m, t, i))
           /\ Reader(m, t, i) => Reached(m, t, i + 1) /\ (t > 0 => Reached(m, t, i))
           /\ Reached(m, i, i + 1)
<1>1. i \in Nat /\ i > 0 /\ t \in Int /\ t # 0 /\ (t < 0 <=> t \in InputsOf(m)) /\ \A j \in OpsOf(m) : j \in Nat
  BY NetFacts
<1>2. Reader(m, t, i) => t < i
  BY NetFacts
<1>3. Reached(m, i, i + 1)
  BY <1>1 DEF Reached
<1>4. \A j \in OpsOf(m) : (j < i => j < i + 1) /\ (j < i + 1 => j < i \/ j = i)
  BY <1>1
<1>5. CASE t > 0
  <2>1. (Reached(m, t, i) <=> t < i) /\ (Reached(m, t, i + 1) <=> t < i + 1)
    BY <1>5 DEF Reached
  <2> QED
    BY <1>1, <1>2, <1>3, <1>5, <2>1
<1>6. CASE ~(t > 0)
  <2>1. /\ Reached(m, t, i) <=> \E j \in OpsOf(m) : j < i /\ Reader(m, t, j)
        /\ Reached(m, t, i + 1) <=> \E j \in OpsOf(m) : j < i + 1 /\ Reader(m, t, j)
    BY <1>6 DEF Reached
  <2>2. t < 0 /\ t # i
    BY <1>1, <1>6
  <2>3. i < i + 1
    BY <1>1
  <2> QED
    BY <1>1, <1>3, <1>4, <1>6, <2>1, <2>2, <2>3
<1> QED
  BY <1>5, <1>6

\* What command i adds to the plan of group g.
Grown(m, ts, cs, p, g, i, P, a, tmp, ts2, cs2) ==
    /\ \A t \in TensorsOf(m) : ts2[t].group = ts[t].group
    /\ \A k \in OpsOf(m) : cs2[k].group = cs[k].group /\ (k # i => cs2[k].temp = cs[k].temp)
    /\ \A t \in TensorsOf(m) : ts[t].group = g /\ Reached(m, t, i) =>
          /\ ts2[t].host = ts[t].host
          /\ \A x \in Addr : ts[t].host = In(g, x) => x \in p.used
          /\ \A x \in Addr : ts[t].host = In(g, x) /\ Needed(m, t, i) => x \in p.live
    /\ \A t \in TensorsOf(m) : ts[t].group = g /\ Reached(m, t, i + 1) /\ ~Reached(m, t, i) =>
          (Static(m, t) /\ ts2[t].host = Own(t)) \/ (~Static(m, t) /\ t \in P /\ ts2[t].host = In(g, a[t]))
    /\ \A k \in OpsOf(m) : k < i /\ cs[k].group = g => \A x \in Addr : cs[k].temp = In(g, x) => x \in p.used
    /\ cs[i].group = g => cs2[i].temp = In(g, tmp) /\ tmp \in Addr /\ tmp \notin p.live
    /\ \A t \in P : a[t] \in Addr /\ a[t] \notin p.live /\ a[t] # tmp /\ (t < 0 => a[t] \notin p.used)
    /\ \A t, u \in P : t # u => a[t] # a[u]

\* One more command is planned: it writes over nothing that an earlier one keeps.
LEMMA PlanGrows ==
    ASSUME NEW m \in Models, NEW ts, NEW cs, NEW p, NEW g, NEW i \in OpsOf(m), NEW P, NEW a, NEW tmp,
           NEW ts2, NEW cs2, Grown(m, ts, cs, p, g, i, P, a, tmp, ts2, cs2), PlanOK(m, ts, cs, g, i)
    PROVE  PlanOK(m, ts2, cs2, g, i + 1)
<1>1. i \in Nat /\ i > 0 /\ i \in TensorsOf(m) /\ \A k \in OpsOf(m) : k \in Nat /\ k \in TensorsOf(m) /\ k > 0
  BY NetFacts DEF TensorsOf
<1>2. \A k \in OpsOf(m) : k < i + 1 => k < i \/ k = i
  BY <1>1
<1>3. \A k \in OpsOf(m) : k < i => Reached(m, k, i) /\ k # i
  BY <1>1 DEF Reached
<1>4. ~Reached(m, i, i) /\ Reached(m, i, i + 1)
  BY <1>1, ReachedNext
<1>5. \A t \in TensorsOf(m) : Reached(m, t, i + 1) /\ ~Reached(m, t, i) => t = i \/ t < 0
  BY ReachedNext
<1>6. /\ Hosts(m, ts, g, i) /\ Temps(m, cs, g, i)
      /\ KeepsHost(m, ts, g, i) /\ KeepsTemp(m, ts, cs, g, i) /\ InputsApart(m, ts, g, i)
  BY DEF PlanOK
<1>7. /\ \A t \in TensorsOf(m) : ts2[t].group = ts[t].group
      /\ \A k \in OpsOf(m) : cs2[k].group = cs[k].group /\ (k # i => cs2[k].temp = cs[k].temp)
  BY DEF Grown
<1>8. \A x \in Addr : In(g, x) \in Places(g)
  BY DEF Places
<1>9. ASSUME NEW t \in TensorsOf(m), ts[t].group = g, Reached(m, t, i)
      PROVE  /\ ts2[t].host = ts[t].host
             /\ \A x \in Addr : ts[t].host = In(g, x) => x \in p.used
             /\ \A x \in Addr : ts[t].host = In(g, x) /\ Needed(m, t, i) => x \in p.live
             /\ (Static(m, t) /\ ts[t].host = Own(t)) \/ \E x \in Addr : ts[t].host = In(g, x)
  <2>1. IF Static(m, t) THEN ts[t].host = Own(t) ELSE ts[t].host \in Places(g)
    BY <1>6, <1>9 DEF Hosts
  <2>2. (Static(m, t) /\ ts[t].host = Own(t)) \/ \E x \in Addr : ts[t].host = In(g, x)
    BY <2>1 DEF Places
  <2> QED
    BY <1>9, <2>2 DEF Grown
<1>10. ASSUME NEW t \in TensorsOf(m), ts[t].group = g, Reached(m, t, i + 1), ~Reached(m, t, i)
       PROVE  (Static(m, t) /\ ts2[t].host = Own(t)) \/ (~Static(m, t) /\ t \in P /\ ts2[t].host = In(g, a[t]))
  BY <1>10 DEF Grown
<1>11. /\ \A t \in P : a[t] \in Addr /\ a[t] \notin p.live /\ a[t] # tmp /\ (t < 0 => a[t] \notin p.used)
       /\ \A t, u \in P : t # u => a[t] # a[u]
  BY DEF Grown
<1>12. ASSUME NEW t \in TensorsOf(m), ts[t].group = g, Reached(m, t, i + 1), ~Reached(m, t, i), t < 0
       PROVE  t \in P /\ ts2[t].host = In(g, a[t]) /\ a[t] \notin p.used
  <2>1. ~Static(m, t)
    <3>1. t \in Int /\ ~(t > 0)
      BY <1>12, NetFacts
    <3> QED
      BY <3>1 DEF Static, Output
  <2> QED
    BY <1>10, <1>11, <1>12, <2>1
<1>13. ASSUME cs[i].group = g PROVE cs2[i].temp = In(g, tmp) /\ tmp \in Addr /\ tmp \notin p.live
  BY <1>13 DEF Grown
<1>14. \A t \in TensorsOf(m), k \in OpsOf(m) : Live(m, t, k) => t # k /\ t < k /\ Needed(m, t, k)
  <2>1. \A t \in TensorsOf(m) : t \in Int
    BY NetFacts
  <2> QED
    BY <1>1, <2>1 DEF Live
<1>15. Hosts(m, ts2, g, i + 1)
  <2> SUFFICES ASSUME NEW t \in TensorsOf(m), ts2[t].group = g, Reached(m, t, i + 1)
               PROVE  IF Static(m, t) THEN ts2[t].host = Own(t) ELSE ts2[t].host \in Places(g)
    BY DEF Hosts
  <2>1. CASE Reached(m, t, i)
    BY <1>6, <1>7, <1>9, <2>1 DEF Hosts
  <2>2. CASE ~Reached(m, t, i)
    BY <1>7, <1>8, <1>10, <1>11, <2>2
  <2> QED
    BY <2>1, <2>2
<1>16. Temps(m, cs2, g, i + 1)
  <2> SUFFICES ASSUME NEW k \in OpsOf(m), k < i + 1, cs2[k].group = g
               PROVE  cs2[k].temp \in Places(g)
    BY DEF Temps
  <2>1. CASE k = i
    BY <1>7, <1>8, <1>13, <2>1
  <2>2. CASE k # i
    BY <1>2, <1>6, <1>7, <2>2 DEF Temps
  <2> QED
    BY <2>1, <2>2
<1>17. KeepsHost(m, ts2, g, i + 1)
  <2> SUFFICES ASSUME NEW t \in TensorsOf(m), NEW k \in OpsOf(m),
                      ts2[t].group = g, Reached(m, t, i + 1), k < i + 1, ts2[k].group = g, Live(m, t, k)
               PROVE  ts2[t].host # ts2[k].host
    BY DEF KeepsHost
  <2>1. ts[t].group = g /\ ts[k].group = g /\ k \in TensorsOf(m) /\ t # k
    BY <1>1, <1>7, <1>14
  <2>2. CASE k < i
    <3>1. Reached(m, k, i)
      BY <1>3, <2>2
    <3>2. CASE Reached(m, t, i)
      <4>1. ts[t].host # ts[k].host
        BY <1>6, <2>1, <2>2, <3>2 DEF KeepsHost
      <4> QED
        BY <1>9, <2>1, <3>1, <3>2, <4>1
    <3>3. CASE ~Reached(m, t, i)
      <4>1. t < 0
        <5>1. t # i
          <6>1. t < k /\ t \in Int
            BY <1>14, NetFacts
          <6> QED
            BY <1>1, <2>2, <6>1
        <5> QED
          BY <1>5, <3>3, <5>1
      <4>2. t \in P /\ ts2[t].host = In(g, a[t]) /\ a[t] \notin p.used /\ a[t] \in Addr
        BY <1>11, <1>12, <2>1, <3>3, <4>1
      <4>3. ts2[k].host = ts[k].host /\ \A x \in Addr : ts[k].host = In(g, x) => x \in p.used
        BY <1>9, <2>1, <3>1
      <4> QED
        BY <4>2, <4>3
    <3> QED
      BY <3>2, <3>3
  <2>3. CASE k = i
    <3>1. (Static(m, i) /\ ts2[i].host = Own(i)) \/ (~Static(m, i) /\ i \in P /\ ts2[i].host = In(g, a[i]))
      BY <1>4, <1>10, <2>1, <2>3
    <3>2. CASE Reached(m, t, i)
      <4>1. ts2[t].host = ts[t].host
        BY <1>9, <2>1, <3>2
      <4>2. Needed(m, t, i)
        BY <1>14, <2>3
      <4>3. CASE Static(m, t) /\ ts[t].host = Own(t)
        BY <2>1, <2>3, <3>1, <4>1, <4>3, SpotFacts
      <4>4. ASSUME NEW x \in Addr, ts[t].host = In(g, x) PROVE ts2[t].host # ts2[k].host
        <5>1. x \in p.live
          BY <1>9, <2>1, <3>2, <4>2, <4>4
        <5> QED
          BY <1>11, <2>3, <3>1, <4>1, <4>4, <5>1, SpotFacts
      <4> QED
        BY <1>9, <2>1, <3>2, <4>3, <4>4
    <3>3. CASE ~Reached(m, t, i)
      <4>1. t < 0
        BY <1>5, <2>1, <2>3, <3>3
      <4>2. t \in P /\ ts2[t].host = In(g, a[t])
        BY <1>12, <2>1, <3>3, <4>1
      <4> QED
        BY <1>11, <2>1, <2>3, <3>1, <4>2, SpotFacts
    <3> QED
      BY <3>2, <3>3
  <2> QED
    BY <1>2, <2>2, <2>3
<1>18. KeepsTemp(m, ts2, cs2, g, i + 1)
  <2> SUFFICES ASSUME NEW t \in TensorsOf(m), NEW k \in OpsOf(m),
                      ts2[t].group = g, Reached(m, t, i + 1), k < i + 1, cs2[k].group = g, t = k \/ Live(m, t, k)
               PROVE  ts2[t].host # cs2[k].temp
    BY DEF KeepsTemp
  <2>1. ts[t].group = g /\ cs[k].group = g
    BY <1>7
  <2>2. CASE k < i
    <3>1. cs2[k].temp = cs[k].temp /\ cs[k].temp \in Places(g)
      BY <1>3, <1>6, <1>7, <2>1, <2>2 DEF Temps
    <3>2. CASE Reached(m, t, i)
      <4>1. ts[t].host # cs[k].temp
        BY <1>6, <2>1, <2>2, <3>2 DEF KeepsTemp
      <4> QED
        BY <1>9, <2>1, <3>1, <3>2, <4>1
    <3>3. CASE ~Reached(m, t, i)
      <4>1. t < 0
        <5>1. t # i
          <6>1. t = k \/ t < k
            BY <1>14
          <6>2. t \in Int
            BY NetFacts
          <6> QED
            BY <1>1, <2>2, <6>1, <6>2
        <5> QED
          BY <1>5, <3>3, <5>1
      <4>2. ts2[t].host = In(g, a[t]) /\ a[t] \notin p.used /\ a[t] \in Addr
        BY <1>11, <1>12, <2>1, <3>3, <4>1
      <4>3. \A x \in Addr : cs[k].temp = In(g, x) => x \in p.used
        BY <2>1, <2>2 DEF Grown
      <4> QED
        BY <3>1, <4>2, <4>3
    <3> QED
      BY <3>2, <3>3
  <2>3. CASE k = i
    <3>1. cs2[i].temp = In(g, tmp) /\ tmp \in Addr /\ tmp \notin p.live
      BY <1>13, <2>1, <2>3
    <3>2. CASE Reached(m, t, i)
      <4>1. ts2[t].host = ts[t].host /\ t # i
        BY <1>4, <1>9, <2>1, <3>2
      <4>2. Needed(m, t, i)
        BY <1>14, <2>3, <4>1
      <4>3. CASE Static(m, t) /\ ts[t].host = Own(t)
        BY <2>3, <3>1, <4>1, <4>3, SpotFacts
      <4>4. ASSUME NEW x \in Addr, ts[t].host = In(g, x) PROVE ts2[t].host # cs2[k].temp
        <5>1. x \in p.live
          BY <1>9, <2>1, <3>2, <4>2, <4>4
        <5> QED
          BY <2>3, <3>1, <4>1, <4>4, <5>1, SpotFacts
      <4> QED
        BY <1>9, <2>1, <3>2, <4>3, <4>4
    <3>3. CASE ~Reached(m, t, i)
      <4>1. (Static(m, t) /\ ts2[t].host = Own(t)) \/ (~Static(m, t) /\ t \in P /\ ts2[t].host = In(g, a[t]))
        BY <1>10, <2>1, <3>3
      <4> QED
        BY <1>11, <2>3, <3>1, <4>1, SpotFacts
    <3> QED
      BY <3>2, <3>3
  <2> QED
    BY <1>2, <2>2, <2>3
<1>19. InputsApart(m, ts2, g, i + 1)
  <2> SUFFICES ASSUME NEW x \in InputsOf(m), NEW y \in InputsOf(m), ts2[x].group = g, ts2[y].group = g,
                      Reached(m, x, i + 1), Reached(m, y, i + 1), x # y
               PROVE  ts2[x].host # ts2[y].host
    BY DEF InputsApart
  <2>1. /\ x \in TensorsOf(m) /\ y \in TensorsOf(m) /\ ts[x].group = g /\ ts[y].group = g
        /\ x < 0 /\ y < 0
    <3>1. x \in TensorsOf(m) /\ y \in TensorsOf(m)
      BY DEF TensorsOf
    <3> QED
      BY <1>7, <3>1, NetFacts
  <2>2. CASE Reached(m, x, i) /\ Reached(m, y, i)
    <3>1. ts[x].host # ts[y].host
      BY <1>6, <2>1, <2>2 DEF InputsApart
    <3> QED
      BY <1>9, <2>1, <2>2, <3>1
  <2>3. CASE Reached(m, x, i) /\ ~Reached(m, y, i)
    BY <1>9, <1>11, <1>12, <2>1, <2>3
  <2>4. CASE ~Reached(m, x, i) /\ Reached(m, y, i)
    BY <1>9, <1>11, <1>12, <2>1, <2>4
  <2>5. CASE ~Reached(m, x, i) /\ ~Reached(m, y, i)
    <3>1. x \in P /\ ts2[x].host = In(g, a[x]) /\ y \in P /\ ts2[y].host = In(g, a[y])
      BY <1>12, <2>1, <2>5
    <3> QED
      BY <1>11, <3>1, SpotFacts
  <2> QED
    BY <2>2, <2>3, <2>4, <2>5
<1> QED
  BY <1>15, <1>16, <1>17, <1>18, <1>19 DEF PlanOK

\* A pass that comes across an input of its group allocates inputs.
LEMMA PassInputs ==
    ASSUME NEW m, NEW fl, NEW ca, NEW ts, NEW cs, NEW pl, NEW a, Basic(m, fl, ca, ts, cs, pl, a), InPassAt(a),
           NEW t \in InputsOf(m), ts[t].group = a.g
    PROVE  a.allocInput
<1>1. m \in Models /\ a \in CallType
  BY TypeFacts
<1>2. a.g \in {0, 1} /\ m.mAllocInput \in BOOLEAN
  BY <1>1, NetFacts DEF CallType, Group
<1>3. ts[t].group # -1
  BY <1>2
<1>4. m.mAllocInput
  BY <1>2, <1>3 DEF Basic, Grouped
<1> QED
  BY <1>4 DEF Basic, PassAt, InPassAt

\* With what it gets, everything that command i comes across has memory of its own: what was
\* reached before has kept its, and the rest gets it now or is static.
NowHas(m, ts, ts1, g, i, A, P, a) ==
    /\ \A t \in TensorsOf(m) : Reached(m, t, i) => t \notin A
    /\ \A t \in TensorsOf(m) : ts[t].group = g /\ Reached(m, t, i + 1) /\ ~Reached(m, t, i) =>
          /\ Fits(ts1, t) /\ ts1[t].mem = ts1[t].host
          /\ \/ Static(m, t) /\ ts1[t].host = Own(t)
             \/ ~Static(m, t) /\ t \in P /\ ts1[t].host = In(g, a[t])

\* Everything the command reads or writes is held while it is resized.
LEMMA AllocNow ==
    ASSUME NEW m, NEW fl, NEW ca, NEW ts, NEW cs, NEW pl, NEW at1, NEW co, NEW i \in OpsOf(m),
           Basic(m, fl, ca, ts, cs, pl, at1), Good(m, fl, ca, ts, cs, pl, at1, co),
           InPassAt(at1), at1.i = i, NEW A, NEW P, NEW a, NEW tmp, NEW ts1,
           Chosen(m, ts, cs, pl[at1.g], at1.g, at1.allocInput, i, A, P, a, tmp),
           HasPlaced(m, ts, ts1, at1.g, A, P, a), PlanOK(m, ts, cs, at1.g, i)
    PROVE  NowHas(m, ts, ts1, at1.g, i, A, P, a)
<1>1. m \in Models /\ i \in Nat /\ i <= Len(m.net) + 1
  <2>1. m \in Models
    BY TypeFacts
  <2>2. Len(m.net) \in Nat /\ i \in Nat /\ i <= Len(m.net)
    BY <2>1, NetFacts
  <2> QED
    BY <2>1, <2>2
<1>2. PICK g : g = at1.g
  OBVIOUS
<1>3. PICK ai : ai = at1.allocInput
  OBVIOUS
<1>4. /\ A = {t \in TensorsOf(m) : (t = i \/ (ai /\ Reader(m, t, i))) /\ ts[t].group = g /\ ts[t].mem = None}
      /\ P = {t \in A : ~Static(m, t)}
  BY <1>2, <1>3 DEF Chosen
<1>5. ASSUME NEW t \in TensorsOf(m), Reached(m, t, i), t \in A PROVE FALSE
  <2>1. Reader(m, t, i) /\ ts[t].group = g /\ ts[t].mem = None
    BY <1>1, <1>4, <1>5, ReachedNext
  <2>2. Needed(m, t, i)
    BY <1>1, <2>1, NeededFacts
  <2>3. ts[t].mem = ts[t].host
    BY <1>1, <1>2, <1>5, <2>1, <2>2 DEF Good, PassInv
  <2>4. IF Static(m, t) THEN ts[t].host = Own(t) ELSE ts[t].host \in Places(g)
    BY <1>2, <1>5, <2>1 DEF PlanOK, Hosts
  <2>5. \A x \in Places(g) : x # None
    BY SpotFacts DEF Places
  <2> QED
    BY <2>1, <2>3, <2>4, <2>5, SpotFacts
<1>6. ASSUME NEW t \in TensorsOf(m), ts[t].group = g, Reached(m, t, i + 1), ~Reached(m, t, i)
      PROVE  /\ Fits(ts1, t) /\ ts1[t].mem = ts1[t].host
             /\ \/ Static(m, t) /\ ts1[t].host = Own(t)
                \/ ~Static(m, t) /\ t \in P /\ ts1[t].host = In(g, a[t])
  <2>1. t = i \/ (t \in InputsOf(m) /\ Reader(m, t, i))
    BY <1>1, <1>6, ReachedNext
  <2>2. OwnOnly(m, ts, t) /\ (ts[t].mem # None => Fits(ts, t))
    BY <1>2, <1>6 DEF Good, PassInv
  <2>3. CASE t \in P
    <3>1. ts1[t].mem = In(g, a[t]) /\ ts1[t].host = In(g, a[t]) /\ Fits(ts1, t)
      BY <1>2, <2>3 DEF HasPlaced
    <3> QED
      BY <1>4, <2>3, <3>1
  <2>4. CASE t \in A /\ t \notin P
    <3>1. ts1[t].mem = Own(t) /\ ts1[t].host = Own(t) /\ Fits(ts1, t)
      BY <2>4 DEF HasPlaced
    <3> QED
      BY <1>4, <2>4, <3>1
  <2>5. CASE t \notin A
    <3>1. ts[t].mem # None
      <4>1. t \in InputsOf(m) => ai
        BY <1>2, <1>3, <1>6, PassInputs
      <4> QED
        BY <1>4, <1>6, <2>1, <2>5, <4>1
    <3>2. Static(m, t) /\ ts[t].mem = Own(t) /\ Fits(ts, t)
      BY <2>2, <3>1 DEF OwnOnly
    <3>3. ts[t].host = Own(t)
      BY <3>2 DEF Good, Own1
    <3>4. ts1[t] = ts[t]
      BY <2>5 DEF HasPlaced
    <3> QED
      BY <3>2, <3>3, <3>4 DEF Fits
  <2>6. t \in P => t \in A
    BY <1>4
  <2> QED
    BY <2>3, <2>4, <2>5, <2>6
<1> QED
  BY <1>2, <1>5, <1>6 DEF NowHas

\* A command gets its memory and what it was the last to read is freed.
LEMMA AllocCommandStep ==
    ASSUME IInv, AllocCommand, UNCHANGED model
    PROVE  IInv'
<1>1. PICK m : m = model
  OBVIOUS
<1>2. PICK ts2 : ts2 = tensor'
  OBVIOUS
<1>3. PICK cs2 : cs2 = command'
  OBVIOUS
<1>4. PICK pl2 : pl2 = plan'
  OBVIOUS
<1>5. PICK a2 : a2 = at'
  OBVIOUS
<1>6. PICK i : i = at.i
  OBVIOUS
<1>7. PICK g : g = at.g
  OBVIOUS
<1>8. /\ InPassAt(at) /\ i \in OpsOf(m) /\ a2 = [at EXCEPT !.i = @ + 1]
      /\ UNCHANGED <<flags, cache, content, right, sound>>
  BY <1>1, <1>5, <1>6, Names DEF AllocCommand, InPass, InPassAt
<1>9. PICK pl \in Placements(i) :
         /\ ts2 = Released(Placed(i, pl[1]), i)
         /\ pl2 = [plan EXCEPT ![g] = [used |-> @.used \union Range(pl[1]) \union ({pl[2]} \ {0}),
                                       live |-> Held(ts2, g)]]
         /\ cs2 = IF {pl[2]} \ {0} = {} THEN command ELSE [command EXCEPT ![i].temp = In(g, pl[2])]
  BY <1>2, <1>3, <1>4, <1>6, <1>7 DEF AllocCommand
<1>10. Basic(m, flags, cache, tensor, command, plan, at)
  BY <1>1 DEF IInv
<1>11. /\ m \in Models /\ flags \in FlagsType /\ at \in CallType
       /\ \A t \in TensorsOf(m) : tensor[t] \in TensorType
       /\ \A k \in OpsOf(m) : command[k] \in CommandType
       /\ command \in [OpsOf(m) -> CommandType]
       /\ plan \in [Group -> PlanType]
  BY <1>10, TypeFacts DEF Basic, Typed
<1>12. PICK a : a = pl[1]
  OBVIOUS
<1>13. PICK A : A = ToAlloc(i)
  OBVIOUS
<1>14. PICK P : P = ToPlan(i)
  OBVIOUS
<1>15. PICK tmp : tmp = pl[2]
  OBVIOUS
<1>16. PICK p : p = plan[g]
  OBVIOUS
<1>17. PICK ai \in BOOLEAN : ai = at.allocInput
  BY <1>11 DEF CallType
<1>18. g \in Group /\ p \in PlanType /\ p.used \subseteq Addr
  BY <1>7, <1>11, <1>16 DEF CallType, PlanType
<1>19. Chosen(m, tensor, command, p, g, ai, i, A, P, a, tmp)
  BY <1>1, <1>7, <1>8, <1>9, <1>11, <1>12, <1>13, <1>14, <1>15, <1>16, <1>17, PlacementFacts
<1>20. PICK ts1 : ts1 = Placed(i, a)
  OBVIOUS
<1>21. HasPlaced(m, tensor, ts1, g, A, P, a)
  <2>1. HasPlaced(m, tensor, Placed(i, a), at.g, ToAlloc(i), ToPlan(i), a)
    BY <1>1, <1>7, <1>8, <1>11, <1>13, <1>14, <1>17, <1>19, PlacedFacts
  <2> QED
    BY <1>7, <1>13, <1>14, <1>20, <2>1
<1>22. HasReleased(m, ts1, ts2, g, ai, i)
  <2>1. \A t \in TensorsOf(m) : ts1[t] \in TensorType /\ ts1[t].useCount = Left(m, t, i)
    <3>1. \A t \in TensorsOf(m) : ts1[t] \in TensorType /\ ts1[t].useCount = tensor[t].useCount
      BY <1>21 DEF HasPlaced
    <3>2. \A t \in TensorsOf(m) : tensor[t].useCount = Left(m, t, i)
      BY <1>6, <1>8, <1>10 DEF Basic, CountInv
    <3> QED
      BY <3>1, <3>2
  <2>2. HasReleased(m, ts1, Released(ts1, i), at.g, at.allocInput, i)
    BY <1>1, <1>8, <1>11, <2>1, ReleasedFacts
  <2> QED
    BY <1>7, <1>9, <1>12, <1>17, <1>20, <2>2
<1>23. PICK u : u = p.used \union Range(a) \union ({tmp} \ {0})
  OBVIOUS
<1>24. tmp = 0 \/ tmp \in Addr
  BY <1>19 DEF Chosen
<1>25. u \subseteq Addr /\ p.used \union Range(a) \subseteq u /\ (tmp \in Addr => tmp \in u)
  <2>1. Range(a) \subseteq Addr
    BY <1>19 DEF Chosen
  <2>2. 0 \notin Addr
    <3>1. PICK c : c = Cardinality(Addr) /\ Addr = 1 .. c
      BY AddrAssumption
    <3>2. c \in Nat
      BY <3>1, AddrAssumption, FS_CardinalityType
    <3> QED
      BY <3>1, <3>2
  <2> QED
    BY <1>18, <1>23, <1>24, <2>1, <2>2
<1>26. /\ pl2 \in [Group -> PlanType] /\ pl2[g].used = u
       /\ pl2[g].live = HeldIn(m, ts2, g) /\ \A x \in Group : x # g => pl2[x] = plan[x]
  <2>1. PICK l : l = HeldIn(m, ts2, g)
    OBVIOUS
  <2>2. NewPlan(pl2, g, u, l)
    <3>1. Held(ts2, g) = l
      BY <1>1, <2>1, Names
    <3> QED
      BY <1>9, <1>11, <1>12, <1>15, <1>16, <1>18, <1>23, <3>1 DEF NewPlan
  <2>3. u \in SUBSET Addr /\ l \in SUBSET Addr
    BY <1>25, <2>1 DEF HeldIn
  <2> QED
    BY <1>11, <1>18, <2>1, <2>2, <2>3, PlanUpdate
<1>27. /\ cs2 \in [OpsOf(m) -> CommandType]
       /\ \A k \in OpsOf(m) : /\ cs2[k].exists = command[k].exists /\ cs2[k].group = command[k].group
                              /\ k # i => cs2[k].temp = command[k].temp
       /\ tmp \in Addr => cs2[i].temp = In(g, tmp)
       /\ tmp = 0 => cs2 = command
  <2>1. 0 \notin Addr
    <3>1. PICK c : c = Cardinality(Addr) /\ Addr = 1 .. c
      BY AddrAssumption
    <3>2. c \in Nat
      BY <3>1, AddrAssumption, FS_CardinalityType
    <3> QED
      BY <3>1, <3>2
  <2>2. CASE tmp = 0
    <3>1. {pl[2]} \ {0} = {}
      BY <1>15, <2>2
    <3>2. cs2 = command
      BY <1>9, <3>1
    <3> QED
      BY <1>11, <2>1, <2>2, <3>2
  <2>3. CASE tmp \in Addr
    <3>1. {pl[2]} \ {0} # {}
      BY <1>15, <2>1, <2>3
    <3>2. PICK c : c = command[i]
      OBVIOUS
    <3>3. PICK x : x = In(g, tmp)
      OBVIOUS
    <3>4. PICK c2 : c2 = [c EXCEPT !.temp = x]
      OBVIOUS
    <3>5. cs2 = [command EXCEPT ![i] = c2]
      BY <1>9, <1>15, <3>1, <3>2, <3>3, <3>4
    <3>6. x \in Spot /\ c \in CommandType
      BY <1>8, <1>11, <1>18, <2>3, <3>2, <3>3, SpotType
    <3>7. c2 \in CommandType /\ c2.temp = x /\ c2.exists = c.exists /\ c2.group = c.group
      BY <3>4, <3>6 DEF CommandType
    <3> QED
      BY <1>8, <1>11, <2>1, <2>3, <3>2, <3>3, <3>5, <3>7
  <2> QED
    BY <1>24, <2>2, <2>3
<1>28. Len(m.net) \in Nat /\ i \in Nat /\ i > 0 /\ i <= Len(m.net) /\ i \in TensorsOf(m)
  BY <1>8, <1>11, NetFacts DEF TensorsOf
<1>29. /\ a2 \in CallType /\ a2.i = i + 1 /\ a2.call = at.call /\ a2.g = g
       /\ a2.allocInput = at.allocInput /\ InPassAt(a2)
  BY <1>6, <1>7, <1>8, <1>11, <1>28 DEF CallType, InPassAt
<1>30. ASSUME NEW t \in TensorsOf(m)
       PROVE  /\ ts2[t].group = tensor[t].group /\ ts2[t].length = tensor[t].length
              /\ ts2[t].host = ts1[t].host /\ ts2[t].size = ts1[t].size
              /\ ts2[t].useCount = Left(m, t, i + 1)
              /\ t \notin A => ts1[t] = tensor[t]
              /\ ts2[t].mem = None \/ ts2[t].mem = ts1[t].mem
              /\ Needed(m, t, i + 1) \/ tensor[t].group # g \/ ~Reader(m, t, i) => ts2[t].mem = ts1[t].mem
  BY <1>21, <1>22 DEF HasPlaced, HasReleased
<1>31. Basic(m, flags, cache, ts2, cs2, pl2, a2)
  <2>1. Typed(m, flags, cache, ts2, cs2, pl2, a2)
    <3>1. a2.i <= Len(m.net) + 2
      BY <1>28, <1>29
    <3> QED
      BY <1>10, <1>22, <1>26, <1>27, <1>29, <3>1 DEF Basic, Typed, HasReleased
  <2>2. PassAt(m, a2)
    BY <1>7, <1>10, <1>28, <1>29 DEF Basic, PassAt
  <2>3. Grouped(m, ts2)
    BY <1>10, <1>30 DEF Basic, Grouped, TensorsOf
  <2>4. CountInv(m, ts2, cs2, a2)
    <3>1. ASSUME NEW t \in TensorsOf(m) PROVE ts2[t].useCount <= Uses(m, t, OpsOf(m))
      <4>1. PICK S : S = (i + 1) .. Len(m.net)
        OBVIOUS
      <4>2. OpsOf(m) = 1 .. Len(m.net)
        BY <1>11, NetFacts
      <4>3. S \in SUBSET OpsOf(m)
        BY <1>28, <4>1, <4>2
      <4>4. Uses(m, t, S) <= Uses(m, t, OpsOf(m))
        BY <1>11, <4>3, UsesMonotone
      <4> QED
        BY <1>30, <4>1, <4>4 DEF Left
    <3>2. \A k \in OpsOf(m) : cs2[k].exists
      BY <1>6, <1>8, <1>10, <1>27 DEF Basic, CountInv
    <3> QED
      BY <1>29, <1>30, <3>1, <3>2 DEF CountInv
  <2>5. Made(m, cache, cs2)
    BY <1>10, <1>27 DEF Basic, Made
  <2> QED
    BY <2>1, <2>2, <2>3, <2>4, <2>5 DEF Basic
<1>32. ASSUME sound PROVE Good(m, flags, cache, ts2, cs2, pl2, a2, content)
  <2>1. Good(m, flags, cache, tensor, command, plan, at, content)
    BY <1>1, <1>32 DEF IInv
  <2>2. PlanOK(m, tensor, command, g, i)
    BY <1>6, <1>7, <1>8, <1>10, <2>1 DEF Good, PlansInv, Basic, PassAt, InPassAt
  <2>3. /\ \A t \in TensorsOf(m) : Reached(m, t, i) => t \notin A
        /\ \A t \in TensorsOf(m) : tensor[t].group = g /\ Reached(m, t, i + 1) /\ ~Reached(m, t, i) =>
              /\ Fits(ts1, t) /\ ts1[t].mem = ts1[t].host
              /\ \/ Static(m, t) /\ ts1[t].host = Own(t)
                 \/ ~Static(m, t) /\ t \in P /\ ts1[t].host = In(g, a[t])
    <3>1. /\ Chosen(m, tensor, command, plan[at.g], at.g, at.allocInput, i, A, P, a, tmp)
          /\ HasPlaced(m, tensor, ts1, at.g, A, P, a) /\ PlanOK(m, tensor, command, at.g, i)
          /\ InPassAt(at) /\ at.i = i
      BY <1>6, <1>7, <1>8, <1>16, <1>17, <1>19, <1>21, <2>2
    <3>2. NowHas(m, tensor, ts1, at.g, i, A, P, a)
      BY <1>8, <1>10, <2>1, <3>1, AllocNow
    <3> QED
      BY <1>7, <3>2 DEF NowHas
  <2>4. ASSUME NEW t \in TensorsOf(m), tensor[t].group = g, Reached(m, t, i)
        PROVE  /\ ts1[t] = tensor[t] /\ Fits(tensor, t)
               /\ Needed(m, t, i) => tensor[t].mem = tensor[t].host
               /\ \A x \in Addr : tensor[t].host = In(g, x) => x \in p.used
               /\ t \in InputsOf(m) /\ ~Needed(m, t, i) => tensor[t].mem = None
    <3>1. i <= Len(m.net) + 1
      BY <1>28
    <3> QED
      BY <1>6, <1>7, <1>8, <1>16, <1>30, <2>1, <2>3, <2>4, <3>1 DEF Good, PassInv
  <2>5. ASSUME NEW t \in TensorsOf(m), tensor[t].group # g
        PROVE  /\ ts1[t] = tensor[t] /\ ts2[t].mem = tensor[t].mem /\ ts2[t].host = tensor[t].host
               /\ ts2[t].size = tensor[t].size
    <3>1. t \notin A
      BY <1>19, <2>5 DEF Chosen
    <3> QED
      BY <1>30, <2>5, <3>1
  <2>6. OwnersIn(m, tensor, g, p.used)
    BY <1>7, <1>8, <1>16, <2>1, PassOwners DEF Good
  <2>7. OwnersIn(m, ts1, g, p.used \union Range(a))
    BY <1>19, <1>21, <2>6, PlacedOwners
  <2>8. OwnersIn(m, ts2, g, u)
    <3> SUFFICES ASSUME NEW t \in TensorsOf(m)
                 PROVE  OwnOnly(m, ts2, t) \/ (ts2[t].group = g /\ \E x \in u : ts2[t].mem = In(g, x))
      BY DEF OwnersIn
    <3>1. OwnOnly(m, ts1, t) \/ (ts1[t].group = g /\ \E x \in p.used \union Range(a) : ts1[t].mem = In(g, x))
      BY <2>7 DEF OwnersIn
    <3>2. ts1[t].group = ts2[t].group
      BY <1>21, <1>30 DEF HasPlaced
    <3>3. CASE ts2[t].mem = None
      BY <3>3 DEF OwnOnly
    <3>4. CASE ts2[t].mem = ts1[t].mem
      BY <1>25, <3>1, <3>2, <3>4 DEF OwnOnly
    <3> QED
      BY <1>30, <3>3, <3>4
  <2>9. CallInv(m, flags, cs2, a2)
    BY <1>8, <1>27, <1>29, <2>1 DEF Good, CallInv, InPassAt
  <2>10. ASSUME NEW k \in OpsOf(m) PROVE LengthsOf(m, ts2, k) = LengthsOf(m, tensor, k)
    BY <1>11, <1>30, ReadTensors DEF LengthsOf
  <2>11. CacheInv(m, flags, cache, ts2, cs2, a2)
    <3>1. CacheInv(m, flags, cache, tensor, command, at)
      BY <2>1 DEF Good
    <3>2. \A k \in OpsOf(m) : cs2[k].exists = command[k].exists
      BY <1>27
    <3> QED
      BY <1>29, <2>10, <3>1, <3>2 DEF CacheInv
  <2>12. GroupInv(m, flags, cache, ts2, cs2)
    BY <1>27, <1>30, <2>1, GroupKept DEF Good
  <2>13. Owners(m, flags, ts2, pl2, a2)
    <3>1. a2.i <= Len(m.net) + 1
      BY <1>28, <1>29
    <3> QED
      BY <1>26, <1>29, <2>8, <3>1 DEF Owners, OwnersIn
  <2>14. Own1(m, flags, ts2, a2)
    <3>1. ASSUME NEW t \in TensorsOf(m), ts2[t].group = -1
          PROVE  ts2[t].mem = None /\ ts2[t].host = Own(t) /\ Fits(ts2, t)
      <4>1. tensor[t].group = -1 /\ tensor[t].group # g
        BY <1>18, <1>30, <3>1 DEF Group
      <4> QED
        BY <1>30, <2>1, <2>5, <4>1 DEF Good, Own1, Fits
    <3>2. ASSUME NEW t \in TensorsOf(m), Static(m, t), ts2[t].mem = Own(t)
          PROVE  ts2[t].host = Own(t) /\ (~flags.mNeedResize => Fits(ts2, t))
      <4>1. ts1[t].mem = Own(t)
        BY <1>30, <3>2, SpotFacts
      <4>2. CASE t \in A
        <5>1. t \notin P
          BY <1>19, <3>2 DEF Chosen
        <5>2. ts1[t].host = Own(t) /\ Fits(ts1, t) /\ ts1[t].length = tensor[t].length
          BY <1>21, <4>2, <5>1 DEF HasPlaced
        <5> QED
          BY <1>30, <5>2 DEF Fits
      <4>3. CASE t \notin A
        <5>1. ts1[t] = tensor[t]
          BY <1>30, <4>3
        <5>2. tensor[t].host = Own(t) /\ (~flags.mNeedResize => Fits(tensor, t))
          BY <2>1, <3>2, <4>1, <5>1 DEF Good, Own1
        <5> QED
          BY <1>30, <5>1, <5>2 DEF Fits
      <4> QED
        BY <4>2, <4>3
    <3>3. a2.call # "create"
      BY <1>29 DEF InPassAt
    <3> QED
      BY <1>29, <3>1, <3>2, <3>3 DEF Own1
  <2>15. LiveInv(m, ts2, pl2)
    <3>1. HeldIn(m, ts2, g) \subseteq u /\ \A x : x # g => HeldIn(m, ts2, x) = {}
      BY <2>8, OwnersInHeld
    <3>2. \A x : x # g => HeldIn(m, tensor, x) = {}
      BY <2>6, OwnersInHeld
    <3>3. ASSUME NEW x \in Group PROVE pl2[x].live = HeldIn(m, ts2, x) /\ pl2[x].live \subseteq pl2[x].used
      <4>1. CASE x = g
        BY <1>26, <3>1, <4>1
      <4>2. CASE x # g
        <5>1. plan[x].live = HeldIn(m, tensor, x)
          BY <2>1 DEF Good, LiveInv
        <5>2. pl2[x].live = {}
          BY <1>26, <3>2, <4>2, <5>1
        <5> QED
          BY <3>1, <4>2, <5>2
      <4> QED
        BY <4>1, <4>2
    <3> QED
      BY <3>3 DEF LiveInv
  <2>16. \A k \in OpsOf(m) : k < i /\ command[k].group = g => \A x \in Addr : command[k].temp = In(g, x) => x \in p.used
    BY <1>6, <1>7, <1>8, <1>16, <2>1 DEF Good, PassInv
  <2>17. \A k \in OpsOf(m) : k < i + 1 => k < i \/ k = i
    <3>1. \A k \in OpsOf(m) : k \in Nat
      BY <1>11, NetFacts
    <3> QED
      BY <1>28, <3>1
  <2>18. PassInv(m, ts2, cs2, pl2, a2)
    <3>1. ASSUME NEW t \in TensorsOf(m), ts2[t].group = g, Reached(m, t, i + 1)
          PROVE  /\ Fits(ts2, t)
                 /\ Needed(m, t, i + 1) => ts2[t].mem = ts2[t].host
                 /\ \A x \in Addr : ts2[t].host = In(g, x) => x \in u
                 /\ t \in InputsOf(m) /\ ~Needed(m, t, i + 1) => ts2[t].mem = None
      <4>1. tensor[t].group = g
        BY <1>30, <3>1
      <4>2. Needed(m, t, i + 1) => Needed(m, t, i)
        BY <1>11, <1>28, NeededFacts
      <4>3. ASSUME t \in InputsOf(m), ~Needed(m, t, i + 1), Reader(m, t, i) PROVE ts2[t].mem = None
        <5>1. ai
          BY <1>7, <1>8, <1>10, <1>17, <4>1, <4>3, PassInputs
        <5>2. ts1[t].group = g
          BY <1>21, <4>1 DEF HasPlaced
        <5> QED
          BY <1>22, <4>3, <5>1, <5>2 DEF HasReleased
      <4>4. CASE Reached(m, t, i)
        <5>1. /\ ts1[t] = tensor[t] /\ Fits(tensor, t)
              /\ Needed(m, t, i) => tensor[t].mem = tensor[t].host
              /\ \A x \in Addr : tensor[t].host = In(g, x) => x \in p.used
              /\ t \in InputsOf(m) /\ ~Needed(m, t, i) => tensor[t].mem = None
          BY <2>4, <4>1, <4>4
        <5>2. Fits(ts2, t)
          BY <1>30, <5>1 DEF Fits
        <5>3. Needed(m, t, i + 1) => ts2[t].mem = ts2[t].host
          BY <1>30, <4>2, <5>1
        <5>4. \A x \in Addr : ts2[t].host = In(g, x) => x \in u
          BY <1>25, <1>30, <5>1
        <5>5. ASSUME t \in InputsOf(m), ~Needed(m, t, i + 1) PROVE ts2[t].mem = None
          <6>1. CASE Reader(m, t, i)
            BY <4>3, <5>5, <6>1
          <6>2. CASE ~Reader(m, t, i)
            <7>1. ~Needed(m, t, i)
              BY <1>8, <1>11, <1>28, <5>5, <6>2, NeededFacts
            <7> QED
              BY <1>30, <5>1, <5>5, <7>1
          <6> QED
            BY <6>1, <6>2
        <5> QED
          BY <5>2, <5>3, <5>4, <5>5
      <4>5. CASE ~Reached(m, t, i)
        <5>1. /\ Fits(ts1, t) /\ ts1[t].mem = ts1[t].host
              /\ \/ Static(m, t) /\ ts1[t].host = Own(t)
                 \/ ~Static(m, t) /\ t \in P /\ ts1[t].host = In(g, a[t])
          BY <2>3, <3>1, <4>1, <4>5
        <5>2. Fits(ts2, t)
          <6>1. ts1[t].length = tensor[t].length
            BY <1>21 DEF HasPlaced
          <6> QED
            BY <1>30, <5>1, <6>1 DEF Fits
        <5>3. Needed(m, t, i + 1) => ts2[t].mem = ts2[t].host
          BY <1>30, <5>1
        <5>4. \A x \in Addr : ts2[t].host = In(g, x) => x \in u
          <6>1. t \in P => a[t] \in u
            BY <1>19, <1>25 DEF Chosen
          <6> QED
            BY <1>30, <5>1, <6>1, SpotFacts
        <5>5. ASSUME t \in InputsOf(m), ~Needed(m, t, i + 1) PROVE ts2[t].mem = None
          <6>1. t \notin OpsOf(m)
            <7>1. t \in Int /\ t < 0 /\ \A k \in OpsOf(m) : k > 0 /\ k \in Nat
              BY <1>11, <5>5, NetFacts
            <7> QED
              BY <7>1
          <6>2. Reader(m, t, i)
            BY <1>8, <1>11, <3>1, <4>5, <6>1, ReachedNext
          <6> QED
            BY <4>3, <5>5, <6>2
        <5> QED
          BY <5>2, <5>3, <5>4, <5>5
      <4> QED
        BY <4>4, <4>5
    <3>2. ASSUME NEW t \in TensorsOf(m), ts2[t].group = g, ~Reached(m, t, i + 1)
          PROVE  OwnOnly(m, ts2, t) /\ (ts2[t].mem # None => Fits(ts2, t))
      <4>1. ~Reached(m, t, i) /\ ~Reader(m, t, i) /\ t # i
        BY <1>8, <1>11, <3>2, ReachedNext
      <4>2. t \notin A
        BY <1>19, <4>1 DEF Chosen
      <4>3. OwnOnly(m, tensor, t) /\ (tensor[t].mem # None => Fits(tensor, t))
        BY <1>6, <1>7, <1>8, <1>30, <2>1, <3>2, <4>1 DEF Good, PassInv
      <4>4. ts1[t] = tensor[t] /\ ts2[t].mem = tensor[t].mem
        BY <1>30, <4>1, <4>2
      <4> QED
        BY <1>30, <4>3, <4>4 DEF OwnOnly, Fits
    <3>3. ASSUME NEW k \in OpsOf(m), cs2[k].group = g, k < i + 1, NEW x \in Addr, cs2[k].temp = In(g, x)
          PROVE  x \in u
      <4>1. CASE k = i
        <5>1. tmp \in Addr
          BY <1>19, <1>27, <3>3, <4>1 DEF Chosen
        <5> QED
          BY <1>25, <1>27, <3>3, <4>1, <5>1, SpotFacts
      <4>2. CASE k # i
        <5>1. k < i
          BY <2>17, <3>3, <4>2
        <5> QED
          BY <1>25, <1>27, <2>16, <3>3, <4>2, <5>1
      <4> QED
        BY <4>1, <4>2
    <3> QED
      BY <1>26, <1>29, <3>1, <3>2, <3>3 DEF PassInv
  <2>19. Grown(m, tensor, command, p, g, i, P, a, tmp, ts2, cs2)
    <3>1. \A t \in TensorsOf(m) : tensor[t].group = g /\ Reached(m, t, i) =>
          /\ ts2[t].host = tensor[t].host
          /\ \A x \in Addr : tensor[t].host = In(g, x) => x \in p.used
          /\ \A x \in Addr : tensor[t].host = In(g, x) /\ Needed(m, t, i) => x \in p.live
      <4> SUFFICES ASSUME NEW t \in TensorsOf(m), tensor[t].group = g, Reached(m, t, i)
                   PROVE  /\ ts2[t].host = tensor[t].host
                          /\ \A x \in Addr : tensor[t].host = In(g, x) => x \in p.used
                          /\ \A x \in Addr : tensor[t].host = In(g, x) /\ Needed(m, t, i) => x \in p.live
        OBVIOUS
      <4>1. /\ ts1[t] = tensor[t]
            /\ Needed(m, t, i) => tensor[t].mem = tensor[t].host
            /\ \A x \in Addr : tensor[t].host = In(g, x) => x \in p.used
        BY <2>4
      <4>2. p.live = HeldIn(m, tensor, g)
        BY <1>16, <1>18, <2>1 DEF Good, LiveInv
      <4> QED
        BY <1>30, <4>1, <4>2 DEF HeldIn
    <3>2. \A t \in TensorsOf(m) : tensor[t].group = g /\ Reached(m, t, i + 1) /\ ~Reached(m, t, i) =>
          (Static(m, t) /\ ts2[t].host = Own(t)) \/ (~Static(m, t) /\ t \in P /\ ts2[t].host = In(g, a[t]))
      BY <1>30, <2>3
    <3>3. command[i].group = g => cs2[i].temp = In(g, tmp) /\ tmp \in Addr /\ tmp \notin p.live
      BY <1>19, <1>27 DEF Chosen
    <3>4. /\ \A t \in P : a[t] \in Addr /\ a[t] \notin p.live /\ a[t] # tmp /\ (t < 0 => a[t] \notin p.used)
          /\ \A t, v \in P : t # v => a[t] # a[v]
      BY <1>19 DEF Chosen
    <3> QED
      BY <1>27, <1>30, <2>16, <3>1, <3>2, <3>3, <3>4 DEF Grown
  <2>20. PlanOK(m, ts2, cs2, g, i + 1)
    BY <1>8, <1>11, <2>2, <2>19, PlanGrows
  <2>21. ASSUME NEW x \in Group, x # g, NEW n, PlanOK(m, tensor, command, x, n) PROVE PlanOK(m, ts2, cs2, x, n)
    <3>1. \A t \in TensorsOf(m) : ts2[t].group = x => tensor[t].group = x /\ ts2[t].host = tensor[t].host
      BY <1>30, <2>5, <2>21
    <3>2. \A k \in OpsOf(m) : cs2[k].group = x => command[k].group = x /\ cs2[k].temp = command[k].temp
      <4>1. command[i].group # g => cs2 = command
        BY <1>19, <1>27 DEF Chosen
      <4> QED
        BY <1>27, <2>21, <4>1
    <3> QED
      BY <1>11, <2>21, <3>1, <3>2, PlanKept
  <2>22. CASE at.call = "alloc"
    <3>1. g = 0 /\ flags.mNeedResize
      BY <1>7, <1>10, <2>1, <2>22 DEF Basic, PassAt, Good, CallInv
    <3>2. PlanOK(m, tensor, command, 1, Len(m.net) + 1)
      BY <2>1, <2>22 DEF Good, PlansInv
    <3>3. PlanOK(m, ts2, cs2, 1, Len(m.net) + 1)
      BY <2>21, <3>1, <3>2 DEF Group
    <3>4. PlansInv(m, flags, ts2, cs2, a2)
      BY <1>29, <2>20, <2>22, <3>1, <3>3 DEF PlansInv
    <3>5. FrozenInv(m, cache, ts2, cs2, a2)
      <4>1. /\ FrozenInv(m, cache, tensor, command, at) /\ at.call # "fix"
            /\ GroupInv(m, flags, cache, tensor, command)
        BY <2>1, <2>22 DEF Good
      <4>2. \A t \in TensorsOf(m) : ts2[t].group = tensor[t].group
        BY <1>30
      <4>3. \A t \in TensorsOf(m) : tensor[t].group = 1 => ts2[t].size = tensor[t].size /\ ts2[t].length = tensor[t].length
        BY <1>30, <2>5, <3>1
      <4>4. \A k \in OpsOf(m) : cs2[k].group = command[k].group
        BY <1>27
      <4> QED
        BY <1>11, <4>1, <4>2, <4>3, <4>4, FrozenKept
    <3> QED
      BY <1>29, <2>9, <2>11, <2>12, <2>13, <2>14, <2>15, <2>18, <2>22, <3>4, <3>5 DEF Good, RunInv
  <2>23. CASE at.call = "fix"
    <3>1. g = 1
      BY <1>7, <1>10, <2>23 DEF Basic, PassAt
    <3>2. ASSUME ~flags.mNeedResize, ~flags.unbound
          PROVE  /\ PlanOK(m, ts2, cs2, 0, Len(m.net) + 1)
                 /\ \A t \in TensorsOf(m) : ts2[t].group = 0 => Fits(ts2, t)
      <4>1. PlanOK(m, tensor, command, 0, Len(m.net) + 1) /\ \A t \in TensorsOf(m) : tensor[t].group = 0 => Fits(tensor, t)
        BY <2>1, <3>2 DEF Good, PlansInv
      <4>2. PlanOK(m, ts2, cs2, 0, Len(m.net) + 1)
        BY <2>21, <3>1, <4>1 DEF Group
      <4> QED
        BY <1>30, <2>5, <3>1, <4>1, <4>2 DEF Fits
    <3>3. PlansInv(m, flags, ts2, cs2, a2)
      BY <1>29, <2>20, <2>23, <3>1, <3>2 DEF PlansInv
    <3>4. FrozenInv(m, cache, ts2, cs2, a2)
      BY <1>29, <2>23 DEF FrozenInv
    <3> QED
      BY <1>29, <2>9, <2>11, <2>12, <2>13, <2>14, <2>15, <2>18, <2>23, <3>3, <3>4 DEF Good, RunInv
  <2> QED
    BY <1>8, <2>22, <2>23 DEF InPassAt
<1> QED
  BY <1>1, <1>2, <1>3, <1>4, <1>5, <1>8, <1>31, <1>32 DEF IInv

-----------------------------------------------------------------------------
(* encode.                                                                 *)

\* What encode does to the cache c of an operator it comes to, and to its tensor r.
Coded(c, c2) ==
    /\ c2.needComputeShape => c2.seen # << >>
    /\ ~c2.needComputeShape => c2.seen = c.seen /\ (c.mPass \/ c.mComputed)
    /\ c2.mPass => c.mPass
    /\ c2.mComputed => c.mComputed \/ c2.mCanCache
    /\ c.mPass /\ ~c.mCanCache => ~c2.needComputeShape /\ c2.mPass /\ ~c2.mCanCache

Shaped(r, r2, c2) ==
    /\ r2.group = r.group /\ r2.useCount = r.useCount /\ r2.host = r.host /\ r2.size = r.size
    /\ r2.mem = IF r.group = 0 THEN None ELSE r.mem
    /\ ~c2.needComputeShape => r2.length = r.length

\* The lengths an operator sees, and what it makes of them.
LEMMA LengthsFacts ==
    ASSUME NEW m \in Models, m = model, NEW i \in OpsOf(m), NEW ts \in [TensorsOf(m) -> TensorType]
    PROVE  /\ LengthsOf(m, ts, i) \in Seq(Nat) /\ LengthsOf(m, ts, i) # << >>
           /\ OutputSize(ts, i) \in Nat
<1>1. PICK q : q = m.net[i].in
  OBVIOUS
<1>2. q \in Seq(Int) /\ q # << >> /\ DOMAIN q = 1 .. Len(q) /\ Len(q) \in Nat /\ Len(q) # 0
  BY <1>1, NetFacts
<1>3. PICK ls : ls = [k \in 1 .. Len(q) |-> ts[q[k]].length]
  OBVIOUS
<1>4. \A k \in 1 .. Len(q) : ts[q[k]].length \in Nat
  BY <1>1, <1>2, ReadTensors DEF TensorType
<1>5. ls \in [1 .. Len(q) -> Nat]
  BY <1>3, <1>4
<1>6. ls \in Seq(Nat) /\ Len(ls) = Len(q)
  BY <1>2, <1>5
<1>7. LengthsOf(m, ts, i) = ls
  BY <1>1, <1>2, <1>3 DEF LengthsOf
<1>8. ls # << >>
  BY <1>2, <1>6
<1>9. ToSet(ls) \in SUBSET Int /\ ToSet(ls) \in SUBSET Nat /\ ToSet(ls) # {}
  <2>1. ToSet(ls) = {ls[k] : k \in 1 .. Len(q)}
    BY <1>5 DEF ToSet
  <2>2. \A k \in 1 .. Len(q) : ls[k] \in Nat
    BY <1>5
  <2>3. 1 \in 1 .. Len(q)
    BY <1>2
  <2> QED
    BY <2>1, <2>2, <2>3
<1>10. IsFiniteSet(ToSet(ls))
  <2>1. IsFiniteSet(1 .. Len(q))
    BY <1>2, FS_Interval
  <2>2. ToSet(ls) = {ls[k] : k \in 1 .. Len(q)}
    BY <1>5 DEF ToSet
  <2>3. ls \in Surjection(1 .. Len(q), ToSet(ls))
    BY <1>5, <2>2 DEF Surjection
  <2> QED
    BY <2>1, <2>3, FS_Surjection
<1>11. Max(ToSet(ls)) \in ToSet(ls)
  BY <1>9, <1>10, MaxFacts
<1>12. OutputSize(ts, i) = IF m.net[i].follows THEN Max(ToSet(ls)) ELSE 1
  BY <1>7, Names DEF OutputSize
<1> QED
  BY <1>6, <1>7, <1>8, <1>9, <1>11, <1>12

\* A step of the walk.
Steps(m, st, st2, i) ==
    /\ st2.tensor \in [TensorsOf(m) -> TensorType] /\ st2.cache \in [OpsOf(m) -> CacheType]
    /\ \A t \in TensorsOf(m) : t # i => st2.tensor[t] = st.tensor[t]
    /\ \A j \in OpsOf(m) : j # i => st2.cache[j] = st.cache[j]
    /\ Shaped(st.tensor[i], st2.tensor[i], st2.cache[i]) /\ Coded(st.cache[i], st2.cache[i])
    /\ st2.same => st.same /\ st2.cache[i].seen = LengthsOf(m, st.tensor, i)

\* The body of the shape loop is such a step.
LEMMA EncodeOpSteps ==
    ASSUME NEW m \in Models, m = model, NEW i \in OpsOf(m), NEW st,
           st.tensor \in [TensorsOf(m) -> TensorType], st.cache \in [OpsOf(m) -> CacheType],
           NEW st2, st2 = EncodeOp(st, i)
    PROVE  Steps(m, st, st2, i)
<1>1. PICK ts \in [TensorsOf(m) -> TensorType] : ts = st.tensor
  OBVIOUS
<1>2. PICK ca \in [OpsOf(m) -> CacheType] : ca = st.cache
  OBVIOUS
<1>3. PICK c \in CacheType : c = ca[i]
  OBVIOUS
<1>4. i \in TensorsOf(m)
  BY DEF TensorsOf
<1>5. PICK r \in TensorType : r = ts[i]
  BY <1>4
<1>6. PICK ls : ls = LengthsOf(m, ts, i)
  OBVIOUS
<1>7. PICK v : v = OutputSize(ts, i)
  OBVIOUS
<1>8. ls \in Seq(Nat) /\ ls # << >> /\ v \in Nat
  BY <1>6, <1>7, LengthsFacts
<1>9. Lengths(ts, i) = ls
  BY <1>6, Names
<1>10. PICK nc \in BOOLEAN : nc = ~Match(c, ls)
  OBVIOUS
<1>11. PICK co \in BOOLEAN : co = Compared(c, ls)
  BY DEF Compared, CacheType
<1>12. PICK can \in BOOLEAN : can = (c.mCanCache /\ ~(nc /\ co))
  BY DEF CacheType
<1>13. PICK infos : infos = CASE can /\ nc -> ls [] can -> c.mInputInfos [] OTHER -> << >>
  OBVIOUS
<1>14. infos \in Seq(Nat)
  <2>1. c.mInputInfos \in Seq(Nat) /\ << >> \in Seq(Nat)
    BY DEF CacheType
  <2> QED
    BY <1>8, <1>13, <2>1
<1>15. PICK seen : seen = IF nc THEN ls ELSE c.seen
  OBVIOUS
<1>16. seen \in Seq(Nat)
  BY <1>8, <1>15 DEF CacheType
<1>17. PICK c2 : c2 = [mCanCache |-> can, mPass |-> c.mPass /\ ~(nc /\ co),
             mComputed |-> c.mComputed \/ (can /\ nc), mInputInfos |-> infos,
             needComputeShape |-> nc, seen |-> seen]
  OBVIOUS
<1>18. PICK x : x = IF r.group = 0 THEN None ELSE r.mem
  OBVIOUS
<1>19. PICK l : l = IF nc THEN v ELSE r.length
  OBVIOUS
<1>20. st2 = [tensor |-> [ts EXCEPT ![i].mem = x, ![i].length = l], cache |-> [ca EXCEPT ![i] = c2],
              same |-> st.same /\ (nc \/ ls = c.seen)]
  BY <1>1, <1>2, <1>3, <1>5, <1>7, <1>9, <1>10, <1>11, <1>12, <1>13, <1>15, <1>17, <1>18, <1>19 DEF EncodeOp
<1>21. st2.tensor = [ts EXCEPT ![i].mem = x, ![i].length = l]
  BY <1>20
<1>22. st2.cache = [ca EXCEPT ![i] = c2]
  BY <1>20
<1>23. st2.same = (st.same /\ (nc \/ ls = c.seen))
  BY <1>20
<1>24. c2 \in CacheType
  <2>1. c.mPass \in BOOLEAN /\ c.mComputed \in BOOLEAN
    BY DEF CacheType
  <2> QED
    BY <1>14, <1>16, <1>17, <2>1 DEF CacheType
<1>25. st2.cache \in [OpsOf(m) -> CacheType] /\ st2.cache[i] = c2 /\ \A j \in OpsOf(m) : j # i => st2.cache[j] = ca[j]
  BY <1>22, <1>24
<1>26. PICK r2 : r2 = [r EXCEPT !.mem = x, !.length = l]
  OBVIOUS
<1>27. x \in Spot /\ l \in Nat
  <2>1. r.mem \in Spot /\ r.length \in Nat
    BY DEF TensorType
  <2> QED
    BY <1>8, <1>18, <1>19, <2>1, SpotType
<1>28. r2 \in TensorType /\ r2.mem = x /\ r2.length = l /\ r2.group = r.group /\ r2.useCount = r.useCount
       /\ r2.host = r.host /\ r2.size = r.size
  BY <1>26, <1>27 DEF TensorType
<1>29. st2.tensor = [ts EXCEPT ![i] = r2]
  BY <1>4, <1>5, <1>21, <1>26
<1>30. st2.tensor \in [TensorsOf(m) -> TensorType] /\ st2.tensor[i] = r2 /\ \A t \in TensorsOf(m) : t # i => st2.tensor[t] = ts[t]
  BY <1>4, <1>28, <1>29
<1>31. /\ c2.mCanCache = can /\ c2.mPass = (c.mPass /\ ~(nc /\ co)) /\ c2.mComputed = (c.mComputed \/ (can /\ nc))
       /\ c2.needComputeShape = nc /\ c2.seen = seen
  BY <1>17
<1>32. Shaped(r, r2, c2)
  BY <1>18, <1>19, <1>28, <1>31 DEF Shaped
<1>33. Coded(c, c2)
  <2>1. nc => seen # << >>
    BY <1>8, <1>15
  <2>2. ~nc => seen = c.seen
    BY <1>15
  <2>3. ~nc => c.mPass \/ c.mComputed
    BY <1>10 DEF Match, Compared, CacheType
  <2>4. c.mPass /\ ~c.mCanCache => ~nc
    BY <1>10 DEF Match
  <2> QED
    BY <1>12, <1>31, <2>1, <2>2, <2>3, <2>4 DEF Coded
<1>34. st2.same => st.same /\ seen = ls
  BY <1>15, <1>23
<1> QED
  BY <1>1, <1>2, <1>3, <1>5, <1>6, <1>25, <1>30, <1>31, <1>32, <1>33, <1>34 DEF Steps

\* Encode has come from tensors ts0 and caches ca0 to st, past operator n.
Encoded(m, ts0, ca0, st, n) ==
    /\ st.tensor \in [TensorsOf(m) -> TensorType] /\ st.cache \in [OpsOf(m) -> CacheType]
    /\ \A t \in TensorsOf(m) : ~(t > 0 /\ t <= n) => st.tensor[t] = ts0[t]
    /\ \A i \in OpsOf(m) : i > n => st.cache[i] = ca0[i]
    /\ \A i \in OpsOf(m) : i <= n =>
          Shaped(ts0[i], st.tensor[i], st.cache[i]) /\ Coded(ca0[i], st.cache[i])
    /\ st.same => \A i \in OpsOf(m) : i <= n => st.cache[i].seen = LengthsOf(m, st.tensor, i)

\* One more operator.
LEMMA EncodedNext ==
    ASSUME NEW m \in Models, NEW ts0, NEW ca0, NEW st, NEW st2, NEW n \in Nat, NEW j \in OpsOf(m), j = n + 1,
           Encoded(m, ts0, ca0, st, n), Steps(m, st, st2, j)
    PROVE  Encoded(m, ts0, ca0, st2, j)
<1>1. /\ j \in Nat /\ j > 0 /\ j > n /\ j \in TensorsOf(m)
      /\ \A i \in OpsOf(m) : i \in Nat /\ i > 0 /\ i \in TensorsOf(m)
      /\ \A t \in TensorsOf(m) : t \in Int
  BY NetFacts DEF TensorsOf
<1>2. /\ st2.tensor \in [TensorsOf(m) -> TensorType] /\ st2.cache \in [OpsOf(m) -> CacheType]
      /\ \A t \in TensorsOf(m) : t # j => st2.tensor[t] = st.tensor[t]
      /\ \A i \in OpsOf(m) : i # j => st2.cache[i] = st.cache[i]
  BY DEF Steps
<1>3. ASSUME NEW t \in TensorsOf(m), ~(t > 0 /\ t <= j) PROVE st2.tensor[t] = ts0[t]
  <2>1. t # j /\ ~(t > 0 /\ t <= n)
    BY <1>1, <1>3
  <2> QED
    BY <1>2, <2>1 DEF Encoded
<1>4. ASSUME NEW i \in OpsOf(m), i > j PROVE st2.cache[i] = ca0[i]
  <2>1. i # j /\ i > n
    BY <1>1, <1>4
  <2> QED
    BY <1>2, <2>1 DEF Encoded
<1>5. st.tensor[j] = ts0[j] /\ st.cache[j] = ca0[j]
  <2>1. ~(j > 0 /\ j <= n)
    BY <1>1
  <2> QED
    BY <1>1, <2>1 DEF Encoded
<1>6. ASSUME NEW i \in OpsOf(m), i <= j
      PROVE  Shaped(ts0[i], st2.tensor[i], st2.cache[i]) /\ Coded(ca0[i], st2.cache[i])
  <2>1. CASE i = j
    BY <1>5, <2>1 DEF Steps
  <2>2. CASE i # j
    <3>1. i <= n
      BY <1>1, <1>6, <2>2
    <3> QED
      BY <1>1, <1>2, <2>2, <3>1 DEF Encoded
  <2> QED
    BY <2>1, <2>2
<1>7. ASSUME NEW i \in OpsOf(m), i <= j PROVE LengthsOf(m, st2.tensor, i) = LengthsOf(m, st.tensor, i)
  <2>1. ASSUME NEW k \in DOMAIN m.net[i].in
        PROVE  st2.tensor[m.net[i].in[k]] = st.tensor[m.net[i].in[k]]
    <3>1. PICK t : t = m.net[i].in[k]
      OBVIOUS
    <3>2. Reader(m, t, i)
      BY <3>1 DEF Reader, ToSet
    <3>3. t \in TensorsOf(m) /\ t < i
      BY <3>2, NetFacts
    <3>4. t # j
      <4>1. t \in Int /\ i \in Int /\ j \in Int
        BY <1>1, <3>3
      <4>2. ~(j < i)
        BY <1>7, <4>1
      <4> QED
        BY <3>3, <4>2
    <3> QED
      BY <1>2, <3>1, <3>3, <3>4
  <2> QED
    BY <2>1 DEF LengthsOf
<1>8. ASSUME st2.same, NEW i \in OpsOf(m), i <= j PROVE st2.cache[i].seen = LengthsOf(m, st2.tensor, i)
  <2>1. st.same /\ st2.cache[j].seen = LengthsOf(m, st.tensor, j)
    BY <1>8 DEF Steps
  <2>2. CASE i = j
    BY <1>7, <1>8, <2>1, <2>2
  <2>3. CASE i # j
    <3>1. i <= n
      BY <1>1, <1>8, <2>3
    <3>2. st.cache[i].seen = LengthsOf(m, st.tensor, i)
      BY <2>1, <3>1 DEF Encoded
    <3> QED
      BY <1>2, <1>7, <1>8, <2>3, <3>2
  <2> QED
    BY <2>2, <2>3
<1> QED
  BY <1>2, <1>3, <1>4, <1>6, <1>8 DEF Encoded

\* encode up to operator k has come past k.
LEMMA EncodedAll ==
    ASSUME NEW m \in Models, m = model, NEW b, b.tensor \in [TensorsOf(m) -> TensorType],
           b.cache \in [OpsOf(m) -> CacheType], NEW k \in OpsOf(m), NEW e, Walk(b, k, e)
    PROVE  Encoded(m, b.tensor, b.cache, e[k], k)
<1>1. k \in Nat /\ k > 0 /\ OpsOf(m) = 1 .. Len(m.net) /\ Len(m.net) \in Nat
  BY NetFacts
<1>2. PICK S : S = {j \in 0 .. k : Encoded(m, b.tensor, b.cache, e[j], j)}
  OBVIOUS
<1>3. 0 \in S
  <2>1. \A i \in OpsOf(m) : ~(i <= 0)
    <3>1. \A i \in OpsOf(m) : i \in Nat /\ i > 0
      BY NetFacts
    <3> QED
      BY <3>1
  <2>2. e[0] = b
    BY DEF Walk
  <2>3. Encoded(m, b.tensor, b.cache, b, 0)
    BY <2>1 DEF Encoded
  <2> QED
    BY <1>1, <1>2, <2>2, <2>3
<1>4. ASSUME NEW n \in S, n < k PROVE n + 1 \in S
  <2>1. n \in Nat /\ Encoded(m, b.tensor, b.cache, e[n], n)
    BY <1>2
  <2>2. PICK j : j = n + 1
    OBVIOUS
  <2>3. j \in 1 .. k /\ j \in 0 .. k /\ j \in OpsOf(m) /\ j - 1 = n
    BY <1>1, <1>4, <2>1, <2>2
  <2>4. e[j] = EncodeOp(e[n], j)
    BY <2>3 DEF Walk
  <2>5. PICK st : st = e[n]
    OBVIOUS
  <2>6. PICK st2 : st2 = e[j]
    OBVIOUS
  <2>7. st.tensor \in [TensorsOf(m) -> TensorType] /\ st.cache \in [OpsOf(m) -> CacheType]
    BY <2>1, <2>5 DEF Encoded
  <2>8. Steps(m, st, st2, j)
    BY <2>3, <2>4, <2>5, <2>6, <2>7, EncodeOpSteps
  <2>9. PICK ts0 : ts0 = b.tensor
    OBVIOUS
  <2>10. PICK ca0 : ca0 = b.cache
    OBVIOUS
  <2>11. Encoded(m, ts0, ca0, st2, j)
    BY <2>1, <2>2, <2>3, <2>5, <2>8, <2>9, <2>10, EncodedNext
  <2> QED
    BY <1>2, <2>2, <2>3, <2>6, <2>9, <2>10, <2>11
<1>5. S \in SUBSET (0 .. k)
  BY <1>2
<1>6. S = 0 .. k
  BY <1>1, <1>3, <1>4, <1>5, CountUp
<1> QED
  BY <1>1, <1>2, <1>6

\* What the reset of group g does to tensors and temporaries.
LEMMA KillTensorsFacts ==
    ASSUME NEW m, m = model, NEW ts, \A t \in TensorsOf(m) : ts[t] \in TensorType, NEW g \in Group,
           NEW ts2, ts2 = KillTensors(ts, g)
    PROVE  /\ ts2 \in [TensorsOf(m) -> TensorType]
           /\ \A t \in TensorsOf(m) : Reset(ts[t], ts2[t], g) /\ ts2[t].useCount = ts[t].useCount
<1>1. ts2 = [t \in TensorsOf(m) |-> [ts[t] EXCEPT !.mem = Kill(@, g), !.host = Kill(@, g)]]
  BY Names DEF KillTensors
<1>2. ASSUME NEW t \in TensorsOf(m)
      PROVE  ts2[t] \in TensorType /\ Reset(ts[t], ts2[t], g) /\ ts2[t].useCount = ts[t].useCount
  <2>1. PICK r \in TensorType : r = ts[t]
    OBVIOUS
  <2>2. PICK x : x = Kill(r.mem, g)
    OBVIOUS
  <2>3. PICK h : h = Kill(r.host, g)
    OBVIOUS
  <2>4. x \in Spot /\ h \in Spot
    <3>1. r.mem \in Spot /\ r.host \in Spot
      BY DEF TensorType
    <3> QED
      BY <2>2, <2>3, <3>1, KillFacts
  <2>5. ts2[t] = [r EXCEPT !.mem = x, !.host = h]
    BY <1>1, <2>1, <2>2, <2>3
  <2>6. ts2[t] \in TensorType /\ ts2[t].useCount = r.useCount /\ ts2[t].mem = x /\ ts2[t].host = h
        /\ ts2[t].group = r.group /\ ts2[t].length = r.length /\ ts2[t].size = r.size
    BY <2>4, <2>5 DEF TensorType
  <2> QED
    BY <2>1, <2>2, <2>3, <2>6 DEF Reset
<1> QED
  BY <1>1, <1>2

\* What encode up to operator k leaves: tensors ts2, caches ca2 and commands cs2.
Encodes(m, k, ts, ca, cs, ts2, ca2, cs2) ==
    /\ ts2 \in [TensorsOf(m) -> TensorType] /\ ca2 \in [OpsOf(m) -> CacheType]
    /\ cs2 \in [OpsOf(m) -> CommandType]
    /\ \A t \in TensorsOf(m) :
          /\ ts2[t].group = ts[t].group /\ ts2[t].useCount = ts[t].useCount /\ ts2[t].size = ts[t].size
          /\ ts2[t].host = Kill(ts[t].host, 0)
          /\ ts2[t].mem = IF ts[t].group = 0 /\ t > 0 /\ t <= k THEN None ELSE Kill(ts[t].mem, 0)
          /\ t < 0 => ts2[t].length = ts[t].length
    /\ \A i \in OpsOf(m) :
          /\ ca[i].seen # << >> => ca2[i].seen # << >>
          /\ ca2[i].mPass => ca[i].mPass
          /\ ca2[i].mComputed => ca[i].mComputed \/ ca2[i].mCanCache
          /\ ca[i].mPass /\ ~ca[i].mCanCache =>
                /\ ca2[i].mPass /\ ~ca2[i].mCanCache /\ ca2[i].seen = ca[i].seen
                /\ ts2[i].length = ts[i].length
                /\ cs2[i].exists = cs[i].exists /\ cs2[i].group = cs[i].group
                /\ cs2[i].temp = Kill(cs[i].temp, 0)
          /\ cs2[i].group = 1 => cs[i].group = 1
          /\ k # Len(m.net) => cs2[i].exists = cs[i].exists
          /\ k = Len(m.net) /\ (ca[i].mComputed \/ ca[i].mPass => cs[i].exists) => cs2[i].exists
          /\ cs2[i].exists /\ ~cs[i].exists => ca2[i].seen # << >>

\* encode leaves that, and stays within the contract only if no shape it trusted was stale.
LEMMA EncodeFacts ==
    ASSUME NEW m, m = model, NEW k \in OpsOf(m), Basic(m, flags, cache, tensor, command, plan, at), Encode(k),
           NEW ts2, ts2 = tensor', NEW ca2, ca2 = cache', NEW cs2, cs2 = command'
    PROVE  /\ Encodes(m, k, tensor, cache, command, ts2, ca2, cs2)
           /\ sound' => sound /\ ~flags.failed
           /\ sound' /\ k = Len(m.net) => \A i \in OpsOf(m) : ca2[i].seen = LengthsOf(m, ts2, i)
           /\ sound \in BOOLEAN => sound' \in BOOLEAN
<1>1. m \in Models /\ (\A t \in TensorsOf(m) : tensor[t] \in TensorType) /\ (\A i \in OpsOf(m) : command[i] \in CommandType)
      /\ cache \in [OpsOf(m) -> CacheType] /\ flags \in FlagsType /\ 0 \in Group
  BY TypeFacts DEF Basic, Typed, Group
<1>2. net = m.net /\ Ops = OpsOf(m)
  BY Names
<1>3. PICK b : b = [tensor |-> KillTensors(tensor, 0), cache |-> cache, same |-> TRUE]
  OBVIOUS
<1>4. k \in Nat /\ k > 0 /\ k <= Len(m.net) /\ Len(m.net) \in Nat
      /\ \A i \in OpsOf(m) : i \in Nat /\ i > 0 /\ i <= Len(m.net) /\ i \in TensorsOf(m)
  BY <1>1, NetFacts DEF TensorsOf
<1>5. PICK e : Walk(b, k, e) /\ FoldLeft(EncodeOp, b, [i \in 1 .. k |-> i]) = e[k]
  BY <1>4, EncodeWalks
<1>6. PICK st : st = e[k]
  OBVIOUS
<1>7. PICK cs : cs = KillTemps(command, 0)
  OBVIOUS
<1>8. /\ ts2 = st.tensor /\ ca2 = st.cache
      /\ cs2 = IF ~(k = Len(m.net)) THEN cs ELSE [i \in OpsOf(m) |->
              IF st.cache[i].needComputeShape
              THEN [exists |-> TRUE, group |-> 0, temp |-> None] ELSE cs[i]]
      /\ sound' = (sound /\ st.same /\ ~flags.failed)
  BY <1>2, <1>3, <1>5, <1>6, <1>7 DEF Encode
<1>9. PICK ts0 : ts0 = KillTensors(tensor, 0)
  OBVIOUS
<1>10. b.tensor = ts0 /\ b.cache = cache
  BY <1>3, <1>9
<1>11. /\ ts0 \in [TensorsOf(m) -> TensorType]
       /\ \A t \in TensorsOf(m) : Reset(tensor[t], ts0[t], 0) /\ ts0[t].useCount = tensor[t].useCount
  BY <1>1, <1>9, KillTensorsFacts
<1>12. /\ cs \in [OpsOf(m) -> CommandType]
       /\ \A i \in OpsOf(m) : /\ cs[i].exists = command[i].exists /\ cs[i].group = command[i].group
                              /\ cs[i].temp = Kill(command[i].temp, 0)
  BY <1>1, <1>7, KillTempsFacts
<1>13. Encoded(m, ts0, cache, st, k)
  <2>1. Encoded(m, b.tensor, b.cache, e[k], k)
    BY <1>1, <1>5, <1>10, <1>11, EncodedAll
  <2> QED
    BY <1>6, <1>10, <2>1
<1>14. PICK new : new = [exists |-> TRUE, group |-> 0, temp |-> None]
  OBVIOUS
<1>15. new \in CommandType /\ new.exists /\ new.group = 0
  BY <1>1, <1>14, SpotType DEF CommandType
<1>16. \A i \in OpsOf(m) : cs2[i] = IF k = Len(m.net) /\ ca2[i].needComputeShape THEN new ELSE cs[i]
  <2>1. CASE k = Len(m.net)
    BY <1>8, <1>14, <2>1
  <2>2. CASE k # Len(m.net)
    BY <1>8, <2>2
  <2> QED
    BY <2>1, <2>2
<1>17. cs2 \in [OpsOf(m) -> CommandType]
  <2>1. CASE k = Len(m.net)
    <3>1. cs2 = [i \in OpsOf(m) |-> IF ca2[i].needComputeShape THEN new ELSE cs[i]]
      BY <1>8, <1>14, <2>1
    <3> QED
      BY <1>12, <1>15, <3>1
  <2>2. CASE k # Len(m.net)
    BY <1>8, <1>12, <2>2
  <2> QED
    BY <2>1, <2>2
<1>18. ASSUME NEW t \in TensorsOf(m)
       PROVE  /\ ts2[t].group = tensor[t].group /\ ts2[t].useCount = tensor[t].useCount /\ ts2[t].size = tensor[t].size
              /\ ts2[t].host = Kill(tensor[t].host, 0)
              /\ ts2[t].mem = IF tensor[t].group = 0 /\ t > 0 /\ t <= k THEN None ELSE Kill(tensor[t].mem, 0)
              /\ t < 0 => ts2[t].length = tensor[t].length
  <2>1. t \in Int /\ (t > 0 <=> t \in OpsOf(m)) /\ ~(t < 0 /\ t > 0)
    <3>1. t \in Int /\ (t > 0 <=> t \in OpsOf(m))
      BY <1>1, NetFacts
    <3> QED
      BY <3>1
  <2>2. CASE t > 0 /\ t <= k
    <3>1. Shaped(ts0[t], ts2[t], ca2[t])
      BY <1>8, <1>13, <2>1, <2>2 DEF Encoded
    <3> QED
      BY <1>11, <2>1, <2>2, <3>1 DEF Shaped, Reset
  <2>3. CASE ~(t > 0 /\ t <= k)
    <3>1. ts2[t] = ts0[t]
      BY <1>8, <1>13, <2>3 DEF Encoded
    <3> QED
      BY <1>11, <2>3, <3>1 DEF Reset
  <2> QED
    BY <2>2, <2>3
<1>19. ASSUME NEW i \in OpsOf(m)
       PROVE  /\ cache[i].seen # << >> => ca2[i].seen # << >>
              /\ ca2[i].mPass => cache[i].mPass
              /\ ca2[i].mComputed => cache[i].mComputed \/ ca2[i].mCanCache
              /\ cache[i].mPass /\ ~cache[i].mCanCache =>
                    /\ ca2[i].mPass /\ ~ca2[i].mCanCache /\ ca2[i].seen = cache[i].seen
                    /\ ts2[i].length = tensor[i].length
                    /\ cs2[i].exists = command[i].exists /\ cs2[i].group = command[i].group
                    /\ cs2[i].temp = Kill(command[i].temp, 0)
              /\ cs2[i].group = 1 => command[i].group = 1
              /\ k # Len(m.net) => cs2[i].exists = command[i].exists
              /\ k = Len(m.net) /\ (cache[i].mComputed \/ cache[i].mPass => command[i].exists) => cs2[i].exists
              /\ cs2[i].exists /\ ~command[i].exists => ca2[i].seen # << >>
  <2>1. i \in Nat /\ i > 0 /\ i <= Len(m.net) /\ i \in TensorsOf(m)
    BY <1>4
  <2>2. CASE i <= k
    <3>1. Shaped(ts0[i], ts2[i], ca2[i]) /\ Coded(cache[i], ca2[i])
      BY <1>8, <1>13, <2>2 DEF Encoded
    <3>2. Reset(tensor[i], ts0[i], 0)
      BY <1>11, <2>1
    <3>3. ~ca2[i].needComputeShape => ts2[i].length = tensor[i].length
      BY <3>1, <3>2 DEF Shaped, Reset
    <3>4. CASE k = Len(m.net) /\ ca2[i].needComputeShape
      <4>1. cs2[i].exists /\ cs2[i].group = 0 /\ cs2[i].group # 1
        BY <1>15, <1>16, <3>4
      <4> QED
        BY <3>1, <3>4, <4>1 DEF Coded
    <3>5. CASE ~(k = Len(m.net) /\ ca2[i].needComputeShape)
      <4>1. cs2[i] = cs[i]
        BY <1>16, <3>5
      <4>2. cs2[i].exists = command[i].exists /\ cs2[i].group = command[i].group
            /\ cs2[i].temp = Kill(command[i].temp, 0)
        BY <1>12, <4>1
      <4>3. k = Len(m.net) => ~ca2[i].needComputeShape
        BY <3>5
      <4>4. \/ ca2[i].needComputeShape /\ ca2[i].seen # << >>
            \/ ~ca2[i].needComputeShape /\ ca2[i].seen = cache[i].seen /\ (cache[i].mPass \/ cache[i].mComputed)
        BY <3>1 DEF Coded
      <4>5. cs2[i].exists <=> command[i].exists
        BY <4>2
      <4>6. /\ ca2[i].mPass => cache[i].mPass
            /\ ca2[i].mComputed => cache[i].mComputed \/ ca2[i].mCanCache
            /\ cache[i].mPass /\ ~cache[i].mCanCache => ~ca2[i].needComputeShape /\ ca2[i].mPass /\ ~ca2[i].mCanCache
        BY <3>1 DEF Coded
      <4> QED
        BY <3>3, <4>2, <4>3, <4>4, <4>5, <4>6
    <3> QED
      BY <3>4, <3>5
  <2>3. CASE ~(i <= k)
    <3>1. i > k /\ k # Len(m.net) /\ ~(i > 0 /\ i <= k)
      BY <1>4, <2>1, <2>3
    <3>2. ca2[i] = cache[i] /\ ts2[i] = ts0[i]
      BY <1>8, <1>13, <2>1, <3>1 DEF Encoded
    <3>3. cs2[i] = cs[i]
      BY <1>16, <3>1
    <3>4. cs2[i].exists = command[i].exists /\ cs2[i].group = command[i].group /\ cs2[i].temp = Kill(command[i].temp, 0)
      BY <1>12, <3>3
    <3>5. ts2[i].length = tensor[i].length
      BY <1>11, <2>1, <3>2 DEF Reset
    <3> QED
      BY <3>1, <3>2, <3>4, <3>5
  <2> QED
    BY <2>2, <2>3
<1>20. ts2 \in [TensorsOf(m) -> TensorType] /\ ca2 \in [OpsOf(m) -> CacheType]
  BY <1>8, <1>13 DEF Encoded
<1>21. Encodes(m, k, tensor, cache, command, ts2, ca2, cs2)
  BY <1>17, <1>18, <1>19, <1>20 DEF Encodes
<1>22. ASSUME sound', k = Len(m.net), NEW i \in OpsOf(m) PROVE ca2[i].seen = LengthsOf(m, ts2, i)
  <2>1. i <= k /\ st.same
    BY <1>4, <1>8, <1>22
  <2> QED
    BY <1>8, <1>13, <2>1 DEF Encoded
<1> QED
  BY <1>8, <1>21, <1>22

\* encode leaves plan 1 and what it holds alone.
LEMMA EncodePlan ==
    ASSUME NEW m \in Models, NEW k, NEW fl, NEW ts, NEW ca, NEW cs, NEW ts2, NEW ca2, NEW cs2,
           Encodes(m, k, ts, ca, cs, ts2, ca2, cs2), GroupInv(m, fl, ca, ts, cs),
           PlanOK(m, ts, cs, 1, Len(m.net) + 1)
    PROVE  /\ PlanOK(m, ts2, cs2, 1, Len(m.net) + 1)
           /\ \A i \in OpsOf(m) : cs[i].group = 1 => cs2[i].group = 1
           /\ GroupInv(m, fl, ca2, ts2, cs2)
<1>1. PICK g : g = 1
  OBVIOUS
<1>2. PICK h : h = 0
  OBVIOUS
<1>3. PlanOK(m, ts, cs, g, Len(m.net) + 1)
  BY <1>1
<1>4. /\ \A t \in TensorsOf(m) : ts[t].group = g => Kill(ts[t].host, h) = ts[t].host
      /\ \A i \in OpsOf(m) : cs[i].group = g => Kill(cs[i].temp, h) = cs[i].temp
  BY <1>1, <1>2, FixedHosts
<1>5. ASSUME NEW i \in OpsOf(m), cs[i].group = 1
      PROVE  cs2[i].exists /\ cs2[i].group = 1 /\ cs2[i].temp = cs[i].temp /\ ca2[i].mPass /\ ~ca2[i].mCanCache
             /\ ts[i].group = 1
  <2>1. cs[i].exists /\ ca[i].mPass /\ ~ca[i].mCanCache /\ ts[i].group = 1
    BY <1>5 DEF GroupInv
  <2> QED
    BY <1>1, <1>2, <1>4, <1>5, <2>1 DEF Encodes
<1>6. ASSUME NEW i \in OpsOf(m), cs2[i].group = 1 PROVE cs[i].group = 1
  BY <1>6 DEF Encodes
<1>7. \A t \in TensorsOf(m) : ts2[t].group = ts[t].group /\ ts2[t].host = Kill(ts[t].host, 0)
  BY DEF Encodes
<1>8. PlanOK(m, ts2, cs2, g, Len(m.net) + 1)
  <2>1. \A t \in TensorsOf(m) : ts2[t].group = g => ts[t].group = g /\ ts2[t].host = ts[t].host
    BY <1>2, <1>4, <1>7
  <2>2. \A i \in OpsOf(m) : cs2[i].group = g => cs[i].group = g /\ cs2[i].temp = cs[i].temp
    BY <1>1, <1>5, <1>6
  <2> QED
    BY <1>3, <2>1, <2>2, PlanKept
<1>9. GroupInv(m, fl, ca2, ts2, cs2)
  <2>1. \A i \in OpsOf(m) : i \in TensorsOf(m)
    BY DEF TensorsOf
  <2>2. \A i \in OpsOf(m) : cs2[i].group \in Group
    BY DEF Encodes, CommandType
  <2>3. ASSUME ~fl.fixed PROVE (\A i \in OpsOf(m) : cs2[i].group = 0) /\ (\A t \in TensorsOf(m) : ts2[t].group # 1)
    <3>1. (\A i \in OpsOf(m) : cs[i].group = 0) /\ (\A t \in TensorsOf(m) : ts[t].group # 1)
      BY <2>3 DEF GroupInv
    <3> QED
      BY <1>6, <1>7, <2>2, <3>1 DEF Group
  <2>4. \A i \in OpsOf(m) : cs2[i].group = 1 =>
            ts2[i].group = 1 /\ cs2[i].exists /\ ca2[i].mPass /\ ~ca2[i].mCanCache
    BY <1>5, <1>6, <1>7, <2>1
  <2>5. ASSUME NEW t \in TensorsOf(m), ts2[t].group = 1
        PROVE  \E i \in OpsOf(m) : cs2[i].group = 1 /\ (t = i \/ Reader(m, t, i))
    <3>1. PICK i \in OpsOf(m) : cs[i].group = 1 /\ (t = i \/ Reader(m, t, i))
      BY <1>7, <2>5 DEF GroupInv
    <3> QED
      BY <1>5, <3>1
  <2> QED
    BY <2>3, <2>4, <2>5 DEF GroupInv
<1> QED
  BY <1>1, <1>5, <1>8, <1>9

\* After encode every operator has a command for the lengths its inputs have, and group 1 is as it was.
LEMMA EncodeStep ==
    ASSUME IInv, NEW k \in Ops, Encode(k), UNCHANGED model
    PROVE  IInv'
<1>1. PICK m : m = model
  OBVIOUS
<1>2. PICK ts2 : ts2 = tensor'
  OBVIOUS
<1>3. PICK cs2 : cs2 = command'
  OBVIOUS
<1>4. PICK pl2 : pl2 = plan'
  OBVIOUS
<1>5. PICK a2 : a2 = at'
  OBVIOUS
<1>6. PICK fl2 : fl2 = flags'
  OBVIOUS
<1>7. PICK ca2 : ca2 = cache'
  OBVIOUS
<1>8. net = m.net /\ Ops = OpsOf(m) /\ k \in OpsOf(m)
  BY <1>1, Names
<1>9. PICK done \in BOOLEAN : done = (k = Len(m.net))
  OBVIOUS
<1>10. /\ at = Idle /\ flags.mNeedResize
       /\ pl2 = [plan EXCEPT ![0] = EmptyPlan]
       /\ a2 = IF done THEN [call |-> "create", i |-> 1, g |-> 0, allocInput |-> m.mAllocInput] ELSE Idle
       /\ fl2 = [flags EXCEPT !.failed = @ \/ (~done /\ Checking(ca2))]
       /\ UNCHANGED <<content, right>>
  BY <1>1, <1>4, <1>5, <1>6, <1>7, <1>8, <1>9 DEF Encode
<1>11. Basic(m, flags, cache, tensor, command, plan, at) /\ right \in BOOLEAN /\ sound \in BOOLEAN
  BY <1>1 DEF IInv
<1>12. m \in Models /\ flags \in FlagsType /\ plan \in [Group -> PlanType] /\ 0 \in Group /\ m.mAllocInput \in BOOLEAN
       /\ Len(m.net) \in Nat
  BY <1>11, NetFacts DEF Basic, Typed, Group
<1>13. /\ Encodes(m, k, tensor, cache, command, ts2, ca2, cs2)
       /\ sound' => sound /\ ~flags.failed
       /\ sound' /\ k = Len(m.net) => \A i \in OpsOf(m) : ca2[i].seen = LengthsOf(m, ts2, i)
       /\ sound' \in BOOLEAN
  BY <1>1, <1>2, <1>3, <1>7, <1>8, <1>11, EncodeFacts
<1>14. pl2 \in [Group -> PlanType] /\ pl2[0] = EmptyPlan /\ \A g \in Group : g # 0 => pl2[g] = plan[g]
  <2>1. EmptyPlan \in PlanType
    BY DEF EmptyPlan, PlanType
  <2> QED
    BY <1>10, <1>12, <2>1
<1>15. /\ fl2 \in FlagsType /\ fl2.mNeedResize /\ fl2.fixed = flags.fixed /\ fl2.unbound = flags.unbound
       /\ fl2.failed <=> flags.failed \/ (~done /\ Checking(ca2))
  <2>1. PICK v \in BOOLEAN : v = (flags.failed \/ (~done /\ Checking(ca2)))
    BY <1>12 DEF FlagsType
  <2>2. fl2 = [flags EXCEPT !.failed = v]
    BY <1>10, <2>1
  <2> QED
    BY <1>10, <1>12, <2>1, <2>2 DEF FlagsType
<1>16. /\ a2 \in CallType /\ a2.i \in Nat /\ a2.i <= Len(m.net) + 2 /\ (done => a2.call = "create")
       /\ (~done => a2 = Idle /\ a2.call = "none") /\ ~InPassAt(a2) /\ a2.call \in {"create", "none"}
  <2>1. CASE done
    <3>1. a2 = [call |-> "create", i |-> 1, g |-> 0, allocInput |-> m.mAllocInput]
      BY <1>10, <2>1
    <3>2. a2 \in CallType
      BY <1>12, <3>1 DEF CallType
    <3>3. a2.call = "create" /\ a2.i = 1
      BY <3>1
    <3> QED
      BY <1>12, <2>1, <3>2, <3>3 DEF InPassAt
  <2>2. CASE ~done
    BY <1>10, <1>12, <2>2, IdleFacts
  <2> QED
    BY <2>1, <2>2
<1>17. Basic(m, fl2, ca2, ts2, cs2, pl2, a2)
  <2>1. Typed(m, fl2, ca2, ts2, cs2, pl2, a2)
    BY <1>12, <1>13, <1>14, <1>15, <1>16 DEF Typed, Encodes
  <2>2. PassAt(m, a2)
    BY <1>16 DEF PassAt
  <2>3. \A t \in TensorsOf(m) : ts2[t].group = tensor[t].group /\ ts2[t].useCount = tensor[t].useCount
    BY <1>13 DEF Encodes
  <2>4. Grouped(m, ts2)
    BY <1>11, <2>3 DEF Basic, Grouped, TensorsOf
  <2>5. CountInv(m, ts2, cs2, a2)
    BY <1>11, <1>16, <2>3 DEF Basic, CountInv
  <2>6. Made(m, ca2, cs2)
    BY <1>11, <1>13 DEF Basic, Made, Encodes
  <2> QED
    BY <2>1, <2>2, <2>4, <2>5, <2>6 DEF Basic
<1>18. ASSUME sound' PROVE right /\ Good(m, fl2, ca2, ts2, cs2, pl2, a2, content)
  <2>1. right /\ Good(m, flags, cache, tensor, command, plan, at, content) /\ ~flags.failed
    BY <1>1, <1>13, <1>18 DEF IInv
  <2>2. ~InPassAt(at) /\ at.call = "none"
    BY <1>10, IdleFacts
  <2>3. \A t \in TensorsOf(m) :
          /\ ts2[t].group = tensor[t].group /\ ts2[t].size = tensor[t].size
          /\ ts2[t].host = Kill(tensor[t].host, 0)
          /\ ts2[t].mem = IF tensor[t].group = 0 /\ t > 0 /\ t <= k THEN None ELSE Kill(tensor[t].mem, 0)
          /\ t < 0 => ts2[t].length = tensor[t].length
    BY <1>13 DEF Encodes
  <2>4. ASSUME NEW t \in TensorsOf(m)
        PROVE  /\ OwnOnly(m, tensor, t) /\ OwnOnly(m, ts2, t) /\ (ts2[t].mem = None \/ ts2[t].mem = tensor[t].mem)
               /\ tensor[t].mem = None => ts2[t].mem = None
               /\ done /\ t > 0 /\ ts2[t].group = 0 => ts2[t].mem = None
    <3>1. OwnOnly(m, tensor, t)
      BY <1>10, <2>1, <2>2 DEF Good, Owners
    <3>2. Kill(tensor[t].mem, 0) = tensor[t].mem
      BY <3>1, KillFacts DEF OwnOnly
    <3>3. ts2[t].mem = None \/ ts2[t].mem = tensor[t].mem
      BY <2>3, <3>2
    <3>4. ASSUME done, t > 0, ts2[t].group = 0 PROVE ts2[t].mem = None
      <4>1. t <= k
        <5>1. t \in OpsOf(m)
          BY <1>12, <3>4, NetFacts
        <5>2. t <= Len(m.net)
          BY <1>12, <5>1, NetFacts
        <5> QED
          BY <1>9, <3>4, <5>2
      <4> QED
        BY <2>3, <3>4, <4>1
    <3> QED
      BY <3>1, <3>3, <3>4 DEF OwnOnly
  <2>5. CallInv(m, fl2, cs2, a2)
    BY <1>15, <1>16, <2>1 DEF CallInv
  <2>6. \A i \in OpsOf(m) : cache[i].mComputed \/ cache[i].mPass => command[i].exists
    BY <2>1 DEF Good, CacheInv
  <2>7. CacheInv(m, fl2, ca2, ts2, cs2, a2)
    <3>1. CASE done
      <4>1. \A i \in OpsOf(m) : cs2[i].exists
        BY <1>9, <1>13, <2>6, <3>1 DEF Encodes
      <4> QED
        BY <1>9, <1>13, <1>18, <3>1, <4>1 DEF CacheInv
    <3>2. CASE ~done
      <4>1. ASSUME ~fl2.failed, NEW i \in OpsOf(m), ca2[i].mComputed \/ ca2[i].mPass PROVE cs2[i].exists
        <5>1. ~ca2[i].mCanCache
          BY <1>8, <1>15, <3>2, <4>1 DEF Checking
        <5>2. cache[i].mComputed \/ cache[i].mPass
          BY <1>13, <4>1, <5>1 DEF Encodes
        <5> QED
          BY <1>9, <1>13, <2>6, <3>2, <5>2 DEF Encodes
      <4> QED
        BY <1>15, <1>16, <3>2, <4>1 DEF CacheInv
    <3> QED
      BY <3>1, <3>2
  <2>8. GroupInv(m, flags, cache, tensor, command) /\ PlanOK(m, tensor, command, 1, Len(m.net) + 1)
    BY <2>1, <2>2 DEF Good, PlansInv
  <2>9. /\ PlanOK(m, ts2, cs2, 1, Len(m.net) + 1)
        /\ \A i \in OpsOf(m) : command[i].group = 1 => cs2[i].group = 1
        /\ GroupInv(m, flags, ca2, ts2, cs2)
    BY <1>12, <1>13, <2>8, EncodePlan
  <2>10. GroupInv(m, fl2, ca2, ts2, cs2)
    BY <1>15, <2>9 DEF GroupInv
  <2>11. Owners(m, fl2, ts2, pl2, a2)
    BY <2>4 DEF Owners
  <2>12. Own1(m, fl2, ts2, a2)
    <3>1. ASSUME NEW t \in TensorsOf(m), ts2[t].group = -1
          PROVE  ts2[t].mem = None /\ ts2[t].host = Own(t) /\ Fits(ts2, t)
      <4>1. tensor[t].group = -1
        BY <2>3, <3>1
      <4>2. tensor[t].mem = None /\ tensor[t].host = Own(t) /\ Fits(tensor, t)
        BY <2>1, <4>1 DEF Good, Own1
      <4>3. t < 0
        <5>1. t \notin OpsOf(m)
          BY <1>11, <4>1 DEF Basic, Grouped
        <5>2. t \in InputsOf(m)
          BY <5>1 DEF TensorsOf
        <5> QED
          BY <5>2 DEF InputsOf
      <4> QED
        BY <2>3, <2>4, <4>2, <4>3, KillFacts DEF Fits
    <3>2. ASSUME NEW t \in TensorsOf(m), Static(m, t), ts2[t].mem = Own(t) PROVE ts2[t].host = Own(t)
      <4>1. tensor[t].mem = Own(t)
        BY <2>4, <3>2, SpotFacts
      <4>2. tensor[t].host = Own(t)
        BY <2>1, <3>2, <4>1 DEF Good, Own1
      <4> QED
        BY <2>3, <4>2, KillFacts
    <3>3. ASSUME NEW t \in InputsOf(m) PROVE ts2[t].mem = None
      <4>1. tensor[t].mem = None
        BY <2>1, <2>2 DEF Good, Own1
      <4> QED
        BY <2>4, <4>1 DEF TensorsOf
    <3>4. ASSUME NEW t \in TensorsOf(m), a2.call = "create", ts2[t].group = 0 PROVE ts2[t].mem = None
      <4>1. done
        BY <1>16, <3>4
      <4>2. t > 0 \/ t \in InputsOf(m)
        BY <1>12, NetFacts DEF TensorsOf
      <4> QED
        BY <2>4, <3>3, <3>4, <4>1, <4>2
    <3> QED
      BY <1>15, <3>1, <3>2, <3>3, <3>4 DEF Own1
  <2>13. LiveInv(m, ts2, pl2)
    <3>1. \A x : HeldIn(m, ts2, x) = {} /\ HeldIn(m, tensor, x) = {}
      BY <2>4, OwnOnlyHeld
    <3>2. ASSUME NEW x \in Group PROVE pl2[x].live = {}
      BY <1>14, <2>1, <3>1 DEF Good, LiveInv, EmptyPlan
    <3> QED
      BY <3>1, <3>2 DEF LiveInv
  <2>14. PassInv(m, ts2, cs2, pl2, a2)
    BY <1>16 DEF PassInv
  <2>15. PlansInv(m, fl2, ts2, cs2, a2)
    BY <1>15, <1>16, <2>9 DEF PlansInv
  <2>16. FrozenInv(m, ca2, ts2, cs2, a2)
    <3>1. SUFFICES ASSUME NEW i \in OpsOf(m), cs2[i].group = 1
                   PROVE  /\ Fits(ts2, i)
                          /\ \A j \in DOMAIN m.net[i].in :
                                ts2[m.net[i].in[j]].group = 1 => ca2[i].seen[j] <= ts2[m.net[i].in[j]].size
      BY DEF FrozenInv
    <3>2. i \in TensorsOf(m) /\ \A j \in DOMAIN m.net[i].in : m.net[i].in[j] \in TensorsOf(m)
      BY <1>12, ReadTensors
    <3>3. command[i].group = 1
      BY <1>13, <3>1 DEF Encodes
    <3>4. cache[i].mPass /\ ~cache[i].mCanCache
      BY <2>8, <3>3 DEF GroupInv
    <3>5. ca2[i].seen = cache[i].seen /\ ts2[i].length = tensor[i].length
      BY <1>13, <3>4 DEF Encodes
    <3>6. /\ Fits(tensor, i)
          /\ \A j \in DOMAIN m.net[i].in :
                tensor[m.net[i].in[j]].group = 1 => cache[i].seen[j] <= tensor[m.net[i].in[j]].size
      BY <2>1, <2>2, <3>3 DEF Good, FrozenInv
    <3>7. Fits(ts2, i)
      BY <2>3, <3>2, <3>5, <3>6 DEF Fits
    <3> QED
      BY <2>3, <3>2, <3>5, <3>6, <3>7
  <2>17. RunInv(m, ts2, a2, content)
    BY <1>16 DEF RunInv
  <2> QED
    BY <2>1, <2>5, <2>7, <2>10, <2>11, <2>12, <2>13, <2>14, <2>15, <2>16, <2>17 DEF Good
<1> QED
  BY <1>1, <1>2, <1>3, <1>4, <1>5, <1>6, <1>7, <1>10, <1>11, <1>13, <1>17, <1>18 DEF IInv

-----------------------------------------------------------------------------
(* fixResizeCache.                                                         *)

\* A group without tensors and commands has a plan.
LEMMA EmptyGroup ==
    ASSUME NEW m, NEW ts, NEW cs, NEW g, \A t \in TensorsOf(m) : ts[t].group # g,
           \A k \in OpsOf(m) : cs[k].group # g
    PROVE  \A n : PlanOK(m, ts, cs, g, n)
<1>1. \A x \in InputsOf(m) : x \in TensorsOf(m)
  BY DEF TensorsOf
<1> QED
  BY <1>1 DEF PlanOK, Hosts, Temps, KeepsHost, KeepsTemp, InputsApart

Varies(c) == ~c.mCanCache /\ c.needComputeShape

\* What fixResizeCache makes of tensors, commands and caches when it fixes operators F.
FixTensors(m, F, ts) == [t \in TensorsOf(m) |-> [ts[t] EXCEPT
    !.group = IF t \in F \/ (t \in UNION {ToSet(m.net[i].in) : i \in F} /\ @ = 0) THEN 1 ELSE @]]
FixCommands(m, F, cs) == [i \in OpsOf(m) |-> [cs[i] EXCEPT !.group = IF i \in F THEN 1 ELSE @]]
FixCaches(m, ca) == [i \in OpsOf(m) |-> [ca[i] EXCEPT !.mCanCache = FALSE, !.mInputInfos = << >>,
                                                     !.mPass = ~Varies(ca[i])]]

\* The operators F are fixed, and what they make and read.
Fixes(m, F, ts, ca, cs, ts1, ca2, cs1) ==
    /\ \A t \in TensorsOf(m) :
          /\ ts1[t] \in TensorType /\ ts1[t].useCount = ts[t].useCount
          /\ ts1[t].length = ts[t].length /\ ts1[t].size = ts[t].size
          /\ ts1[t].mem = Kill(ts[t].mem, 0) /\ ts1[t].host = Kill(ts[t].host, 0)
          /\ ts1[t].group = IF t \in F \/ ((\E i \in F : Reader(m, t, i)) /\ ts[t].group = 0)
                            THEN 1 ELSE ts[t].group
    /\ ca2 \in [OpsOf(m) -> CacheType]
    /\ \A i \in OpsOf(m) :
          /\ ~ca2[i].mCanCache /\ ca2[i].mComputed = ca[i].mComputed /\ ca2[i].seen = ca[i].seen
          /\ ca2[i].mPass = ~Varies(ca[i])
          /\ cs1[i] \in CommandType /\ cs1[i].exists = cs[i].exists
          /\ cs1[i].group = IF i \in F THEN 1 ELSE cs[i].group

\* fixResizeCache fixes them so.
LEMMA FixFacts ==
    ASSUME NEW m, m = model, Basic(m, flags, cache, tensor, command, plan, at), NEW F, F \in SUBSET OpsOf(m),
           NEW ts1, ts1 = FixTensors(m, F, KillTensors(tensor, 0)),
           NEW cs1, cs1 = FixCommands(m, F, KillTemps(command, 0)),
           NEW ca2, ca2 = FixCaches(m, cache)
    PROVE  Fixes(m, F, tensor, cache, command, ts1, ca2, cs1)
<1>1. /\ m \in Models /\ (\A t \in TensorsOf(m) : tensor[t] \in TensorType)
      /\ (\A i \in OpsOf(m) : command[i] \in CommandType) /\ (\A i \in OpsOf(m) : cache[i] \in CacheType)
      /\ 0 \in Group /\ 1 \in Group
  BY TypeFacts DEF Group
<1>2. PICK ts0 : ts0 = KillTensors(tensor, 0)
  OBVIOUS
<1>3. PICK cs0 : cs0 = KillTemps(command, 0)
  OBVIOUS
<1>4. /\ ts0 \in [TensorsOf(m) -> TensorType]
      /\ \A t \in TensorsOf(m) : Reset(tensor[t], ts0[t], 0) /\ ts0[t].useCount = tensor[t].useCount
  BY <1>1, <1>2, KillTensorsFacts
<1>5. /\ cs0 \in [OpsOf(m) -> CommandType]
      /\ \A i \in OpsOf(m) : cs0[i].exists = command[i].exists /\ cs0[i].group = command[i].group
  BY <1>1, <1>3, KillTempsFacts
<1>6. \A t : t \in UNION {ToSet(m.net[i].in) : i \in F} <=> \E i \in F : Reader(m, t, i)
  BY DEF Reader
<1>7. ASSUME NEW t \in TensorsOf(m)
      PROVE  /\ ts1[t] \in TensorType /\ ts1[t].useCount = tensor[t].useCount
             /\ ts1[t].length = tensor[t].length /\ ts1[t].size = tensor[t].size
             /\ ts1[t].mem = Kill(tensor[t].mem, 0) /\ ts1[t].host = Kill(tensor[t].host, 0)
             /\ ts1[t].group = IF t \in F \/ ((\E i \in F : Reader(m, t, i)) /\ tensor[t].group = 0)
                               THEN 1 ELSE tensor[t].group
  <2>1. PICK r \in TensorType : r = ts0[t]
    BY <1>4
  <2>2. PICK w \in BOOLEAN : w <=> \E i \in F : Reader(m, t, i)
    OBVIOUS
  <2>3. PICK v : v = IF t \in F \/ (w /\ r.group = 0) THEN 1 ELSE r.group
    OBVIOUS
  <2>4. v \in {-1, 0, 1}
    BY <2>3 DEF TensorType
  <2>5. ts1[t] = [r EXCEPT !.group = v]
    <3>1. ts1[t] = [ts0[t] EXCEPT
                  !.group = IF t \in F \/ (t \in UNION {ToSet(m.net[i].in) : i \in F} /\ @ = 0) THEN 1 ELSE @]
      BY <1>2 DEF FixTensors
    <3> QED
      BY <1>6, <2>1, <2>2, <2>3, <3>1
  <2>6. ts1[t] \in TensorType /\ ts1[t].useCount = r.useCount /\ ts1[t].length = r.length /\ ts1[t].size = r.size
        /\ ts1[t].mem = r.mem /\ ts1[t].host = r.host /\ ts1[t].group = v
    BY <2>4, <2>5 DEF TensorType
  <2>7. Reset(tensor[t], r, 0) /\ r.useCount = tensor[t].useCount
    BY <1>4, <2>1
  <2> QED
    BY <2>2, <2>3, <2>6, <2>7 DEF Reset
<1>8. ASSUME NEW i \in OpsOf(m)
      PROVE  cs1[i] \in CommandType /\ cs1[i].exists = command[i].exists
             /\ cs1[i].group = IF i \in F THEN 1 ELSE command[i].group
  <2>1. PICK r \in CommandType : r = cs0[i]
    BY <1>5
  <2>2. PICK v : v = IF i \in F THEN 1 ELSE r.group
    OBVIOUS
  <2>3. v \in Group
    BY <1>1, <2>2 DEF CommandType
  <2>4. cs1[i] = [r EXCEPT !.group = v]
    BY <1>3, <2>1, <2>2 DEF FixCommands
  <2>5. cs1[i] \in CommandType /\ cs1[i].exists = r.exists /\ cs1[i].group = v
    BY <2>3, <2>4 DEF CommandType
  <2> QED
    BY <1>5, <2>1, <2>2, <2>5
<1>9. ASSUME NEW i \in OpsOf(m)
      PROVE  ca2[i] \in CacheType /\ ~ca2[i].mCanCache /\ ca2[i].mComputed = cache[i].mComputed
             /\ ca2[i].seen = cache[i].seen /\ ca2[i].mPass = ~Varies(cache[i])
  <2>1. PICK c \in CacheType : c = cache[i]
    BY <1>1
  <2>2. PICK v \in BOOLEAN : v = ~Varies(c)
    OBVIOUS
  <2>3. ca2[i] = [c EXCEPT !.mCanCache = FALSE, !.mInputInfos = << >>, !.mPass = v]
    BY <2>1, <2>2 DEF FixCaches
  <2>4. << >> \in Seq(Nat)
    OBVIOUS
  <2>5. ca2[i] \in CacheType /\ ~ca2[i].mCanCache /\ ca2[i].mComputed = c.mComputed
        /\ ca2[i].seen = c.seen /\ ca2[i].mPass = v
    BY <2>3, <2>4 DEF CacheType
  <2> QED
    BY <2>1, <2>2, <2>5
<1>10. ca2 \in [OpsOf(m) -> CacheType]
  BY <1>9 DEF FixCaches
<1> QED
  BY <1>7, <1>8, <1>9, <1>10 DEF Fixes

\* What fixResizeCache does, by name.
LEMMA FixActs ==
    ASSUME NEW m, m = model, Basic(m, flags, cache, tensor, command, plan, at), FixResizeCache,
           NEW ca2, ca2 = cache'
    PROVE  \E F, ts1, cs1 :
              /\ F = {i \in OpsOf(m) : ~Varies(cache[i]) /\ command[i].exists}
              /\ Fixes(m, F, tensor, cache, command, ts1, ca2, cs1)
              /\ Begin("fix", 1, TRUE, ts1, cs1)
              /\ flags' = [flags EXCEPT !.fixed = TRUE, !.unbound = \E i \in OpsOf(m) : cs1[i].group = 0]
              /\ at = Idle
              /\ sound' = (sound /\ ~flags.failed /\ ~flags.fixed
                           /\ (flags.mNeedResize => \A i \in OpsOf(m) : cache[i] = NoCache))
              /\ UNCHANGED <<content, right>>
<1>1. net = m.net /\ Ops = OpsOf(m) /\ Tensors = TensorsOf(m)
  BY Names
<1>2. PICK F : F = {i \in OpsOf(m) : ~Varies(cache[i]) /\ command[i].exists}
  OBVIOUS
<1>3. F \in SUBSET OpsOf(m)
  BY <1>2
<1>4. PICK ts1 : ts1 = FixTensors(m, F, KillTensors(tensor, 0))
  OBVIOUS
<1>5. PICK cs1 : cs1 = FixCommands(m, F, KillTemps(command, 0))
  OBVIOUS
<1>6. ca2 = FixCaches(m, cache)
  BY <1>1 DEF FixResizeCache, FixCaches, Varies
<1>7. Fixes(m, F, tensor, cache, command, ts1, ca2, cs1)
  BY <1>3, <1>4, <1>5, <1>6, FixFacts
<1>8. F = {i \in OpsOf(m) : ~(~cache[i].mCanCache /\ cache[i].needComputeShape) /\ command[i].exists}
  BY <1>2 DEF Varies
<1>9. Begin("fix", 1, TRUE, ts1, cs1)
  BY <1>1, <1>4, <1>5, <1>8 DEF FixResizeCache, FixTensors, FixCommands
<1>10. flags' = [flags EXCEPT !.fixed = TRUE, !.unbound = \E i \in OpsOf(m) : cs1[i].group = 0]
  BY <1>1, <1>5, <1>8 DEF FixResizeCache, FixCommands
<1>11. /\ at = Idle
       /\ sound' = (sound /\ ~flags.failed /\ ~flags.fixed
                    /\ (flags.mNeedResize => \A i \in OpsOf(m) : cache[i] = NoCache))
       /\ UNCHANGED <<content, right>>
  BY <1>1 DEF FixResizeCache
<1> QED
  BY <1>2, <1>3, <1>7, <1>9, <1>10, <1>11

\* fixResizeCache starts to plan group 1 while nothing is held, and group 0 waits for a resize.
LEMMA FixResizeCacheStep ==
    ASSUME IInv, FixResizeCache, UNCHANGED model
    PROVE  IInv'
<1>1. PICK m : m = model
  OBVIOUS
<1>2. PICK ts2 : ts2 = tensor'
  OBVIOUS
<1>3. PICK cs2 : cs2 = command'
  OBVIOUS
<1>4. PICK pl2 : pl2 = plan'
  OBVIOUS
<1>5. PICK a2 : a2 = at'
  OBVIOUS
<1>6. PICK fl2 : fl2 = flags'
  OBVIOUS
<1>7. PICK ca2 : ca2 = cache'
  OBVIOUS
<1>8. Basic(m, flags, cache, tensor, command, plan, at) /\ right \in BOOLEAN /\ sound \in BOOLEAN
  BY <1>1 DEF IInv
<1>9. PICK F, ts1, cs1 :
              /\ F = {i \in OpsOf(m) : ~Varies(cache[i]) /\ command[i].exists}
              /\ Fixes(m, F, tensor, cache, command, ts1, ca2, cs1)
              /\ Begin("fix", 1, TRUE, ts1, cs1)
              /\ flags' = [flags EXCEPT !.fixed = TRUE, !.unbound = \E i \in OpsOf(m) : cs1[i].group = 0]
              /\ at = Idle
              /\ sound' = (sound /\ ~flags.failed /\ ~flags.fixed
                           /\ (flags.mNeedResize => \A i \in OpsOf(m) : cache[i] = NoCache))
              /\ UNCHANGED <<content, right>>
  BY <1>1, <1>7, <1>8, FixActs
<1>10. m \in Models /\ flags \in FlagsType /\ (\A x \in Group : plan[x] \in PlanType) /\ 1 \in Group
       /\ Len(m.net) \in Nat
  BY <1>8, TypeFacts, NetFacts DEF Group
<1>11. \A i \in OpsOf(m) : /\ cs1[i] \in CommandType /\ cs1[i].exists = command[i].exists
                           /\ cs1[i].group = IF i \in F THEN 1 ELSE command[i].group
                           /\ i \in TensorsOf(m)
  BY <1>9 DEF Fixes, TensorsOf
<1>12. ASSUME NEW t \in TensorsOf(m)
       PROVE  ts1[t] \in TensorType /\ ts1[t].useCount <= Uses(m, t, OpsOf(m))
  BY <1>8, <1>9 DEF Fixes, Basic, CountInv
<1>13. /\ fl2 \in FlagsType /\ fl2.fixed /\ fl2.mNeedResize = flags.mNeedResize /\ fl2.failed = flags.failed
       /\ fl2.unbound <=> \E i \in OpsOf(m) : cs1[i].group = 0
  <2>1. PICK v \in BOOLEAN : v = \E i \in OpsOf(m) : cs1[i].group = 0
    OBVIOUS
  <2>2. fl2 = [flags EXCEPT !.fixed = TRUE, !.unbound = v]
    BY <1>6, <1>9, <2>1
  <2> QED
    BY <1>10, <2>1, <2>2 DEF FlagsType
<1>14. PICK c : c = "fix"
  OBVIOUS
<1>15. PICK ai : ai = TRUE
  OBVIOUS
<1>16. PICK g \in Group : g = 1
  BY <1>10
<1>17. Begin(c, g, ai, ts1, cs1)
  BY <1>9, <1>14, <1>15, <1>16
<1>18. /\ ts2 \in [TensorsOf(m) -> TensorType]
       /\ \A t \in TensorsOf(m) : Reset(ts1[t], ts2[t], g) /\ ts2[t].useCount <= Uses(m, t, OpsOf(m))
       /\ Exist(m, cs1) => \A t \in TensorsOf(m) : ts2[t].useCount = Left(m, t, 1)
  <2>1. \A t \in TensorsOf(m) : ts1[t] \in TensorType /\ ts1[t].useCount <= Uses(m, t, OpsOf(m))
    BY <1>12
  <2>2. m = model /\ m \in Models /\ ts2 = tensor' /\ g \in Group
    BY <1>1, <1>2, <1>10, <1>16
  <2> QED
    BY <1>17, <2>1, <2>2, BeginTensors
<1>19. Begun(m, cs1, plan, g, c, ai, cs2, pl2, a2)
  BY <1>1, <1>3, <1>4, <1>5, <1>10, <1>11, <1>17, BeginRest
<1>20. /\ cs2 \in [OpsOf(m) -> CommandType]
       /\ \A k \in OpsOf(m) : cs2[k].exists = cs1[k].exists /\ cs2[k].group = cs1[k].group
       /\ pl2 \in [Group -> PlanType]
       /\ \A x \in Group : pl2[x] = EmptyPlan
       /\ a2 = [call |-> c, i |-> IF Exist(m, cs1) THEN 1 ELSE Len(m.net) + 1,
                g |-> g, allocInput |-> IF c = "fix" THEN TRUE ELSE m.mAllocInput]
  BY <1>14, <1>15, <1>19 DEF Begun
<1>21. Grouped(m, ts1)
  <2>1. \A t \in TensorsOf(m) : ts1[t].group = IF t \in F \/ ((\E i \in F : Reader(m, t, i)) /\ tensor[t].group = 0)
                            THEN 1 ELSE tensor[t].group
    BY <1>9 DEF Fixes
  <2>2. \A t \in InputsOf(m) : t \in TensorsOf(m) /\ t \notin F
    <3>1. \A t \in InputsOf(m) : t \in TensorsOf(m)
      BY DEF TensorsOf
    <3>2. \A t \in InputsOf(m) : t \notin OpsOf(m)
      <4>1. \A t \in InputsOf(m) : t < 0 /\ t \in Int
        BY <1>10, <3>1, NetFacts
      <4>2. \A t \in OpsOf(m) : t > 0 /\ t \in Int
        BY <1>10, NetFacts
      <4>3. \A t \in Int : ~(t < 0 /\ t > 0)
        OBVIOUS
      <4> QED
        BY <4>1, <4>2, <4>3
    <3> QED
      BY <1>9, <3>1, <3>2
  <2>3. Grouped(m, tensor)
    BY <1>8 DEF Basic
  <2>4. \A t \in InputsOf(m) : ts1[t].group = -1 <=> ~m.mAllocInput
    <3>1. \A t \in InputsOf(m) : ts1[t].group = -1 <=> tensor[t].group = -1
      BY <2>1, <2>2
    <3> QED
      BY <2>3, <3>1 DEF Grouped
  <2>5. \A t \in OpsOf(m) : ts1[t].group # -1
    BY <1>11, <2>1, <2>3 DEF Grouped
  <2> QED
    BY <2>4, <2>5 DEF Grouped
<1>22. Basic(m, fl2, ca2, ts2, cs2, pl2, a2)
  <2>1. ca2 \in [OpsOf(m) -> CacheType] /\ \A i \in OpsOf(m) : ca2[i].seen = cache[i].seen
    BY <1>9 DEF Fixes
  <2>2. Made(m, ca2, cs1)
    BY <1>8, <1>11, <2>1 DEF Basic, Made
  <2>3. (c = "alloc" /\ g = 0) \/ (c = "fix" /\ g = 1)
    BY <1>14, <1>16
  <2>4. \A k \in OpsOf(m) : cs2[k].exists = cs1[k].exists
    BY <1>20
  <2>5. m \in Models /\ fl2 \in FlagsType /\ ca2 \in [OpsOf(m) -> CacheType]
        /\ ts2 \in [TensorsOf(m) -> TensorType] /\ cs2 \in [OpsOf(m) -> CommandType] /\ pl2 \in [Group -> PlanType]
    BY <1>10, <1>13, <1>18, <1>20, <2>1
  <2>6. /\ \A t \in TensorsOf(m) : Reset(ts1[t], ts2[t], g) /\ ts2[t].useCount <= Uses(m, t, OpsOf(m))
        /\ Exist(m, cs1) => \A t \in TensorsOf(m) : ts2[t].useCount = Left(m, t, 1)
    BY <1>18
  <2>7. a2 = [call |-> c, i |-> IF Exist(m, cs1) THEN 1 ELSE Len(m.net) + 1,
              g |-> g, allocInput |-> IF c = "fix" THEN TRUE ELSE m.mAllocInput]
    BY <1>20
  <2> QED
    BY <1>21, <2>2, <2>3, <2>4, <2>5, <2>6, <2>7, BeginBasic
<1>23. ASSUME sound' PROVE right /\ Good(m, fl2, ca2, ts2, cs2, pl2, a2, content)
  <2>1. right /\ Good(m, flags, cache, tensor, command, plan, at, content)
    BY <1>1, <1>9, <1>23 DEF IInv
  <2>2. ~flags.failed /\ ~flags.fixed /\ (flags.mNeedResize => \A i \in OpsOf(m) : cache[i] = NoCache)
    BY <1>9, <1>23
  <2>3. ~InPassAt(at) /\ at.call = "none"
    BY <1>9, IdleFacts
  <2>4. a2.call = "fix" /\ a2.g = 1 /\ InPassAt(a2) /\ a2.i = IF Exist(m, cs1) THEN 1 ELSE Len(m.net) + 1
    <3>1. PICK n : n = IF Exist(m, cs1) THEN 1 ELSE Len(m.net) + 1
      OBVIOUS
    <3>2. PICK b : b = IF c = "fix" THEN TRUE ELSE m.mAllocInput
      OBVIOUS
    <3>3. a2 = [call |-> c, i |-> n, g |-> g, allocInput |-> b]
      BY <1>20, <3>1, <3>2
    <3>4. a2.call = c /\ a2.i = n /\ a2.g = g
      BY <3>3
    <3> QED
      BY <1>14, <1>16, <3>1, <3>4 DEF InPassAt
  <2>5. (\A i \in OpsOf(m) : command[i].group = 0) /\ (\A t \in TensorsOf(m) : tensor[t].group # 1)
    BY <2>1, <2>2 DEF Good, GroupInv
  <2>6. /\ flags.mNeedResize => \A i \in OpsOf(m) : ~command[i].exists /\ ~ca2[i].mPass /\ ~ca2[i].mComputed
        /\ ~flags.mNeedResize => \A i \in OpsOf(m) : command[i].exists /\ cache[i].seen = LengthsOf(m, tensor, i)
    <3>1. ASSUME flags.mNeedResize, NEW i \in OpsOf(m) PROVE ~command[i].exists /\ ~ca2[i].mPass /\ ~ca2[i].mComputed
      <4>1. cache[i] = NoCache
        BY <2>2, <3>1
      <4>2. cache[i].seen = << >> /\ Varies(cache[i]) /\ ~cache[i].mComputed
        BY <4>1 DEF NoCache, Varies
      <4>3. ~command[i].exists
        BY <1>8, <4>2 DEF Basic, Made
      <4> QED
        BY <1>9, <4>2, <4>3 DEF Fixes
    <3>2. ASSUME ~flags.mNeedResize PROVE \A i \in OpsOf(m) : command[i].exists /\ cache[i].seen = LengthsOf(m, tensor, i)
      BY <2>1, <3>2 DEF Good, CacheInv
    <3> QED
      BY <3>1, <3>2
  <2>7. ASSUME NEW t \in TensorsOf(m)
        PROVE  /\ OwnOnly(m, tensor, t) /\ OwnOnly(m, ts2, t) /\ ts2[t].mem = tensor[t].mem
               /\ ts2[t].length = tensor[t].length /\ ts2[t].size = tensor[t].size
               /\ ts2[t].host = Kill(Kill(tensor[t].host, 0), 1)
               /\ ts2[t].group = IF t \in F \/ ((\E i \in F : Reader(m, t, i)) /\ tensor[t].group = 0)
                                 THEN 1 ELSE tensor[t].group
    <3>1. OwnOnly(m, tensor, t)
      BY <1>9, <2>1, <2>2, <2>3 DEF Good, Owners
    <3>2. Kill(tensor[t].mem, 0) = tensor[t].mem /\ Kill(tensor[t].mem, 1) = tensor[t].mem
      BY <3>1, KillFacts DEF OwnOnly
    <3>3. /\ ts1[t].length = tensor[t].length /\ ts1[t].size = tensor[t].size
          /\ ts1[t].mem = Kill(tensor[t].mem, 0) /\ ts1[t].host = Kill(tensor[t].host, 0)
          /\ ts1[t].group = IF t \in F \/ ((\E i \in F : Reader(m, t, i)) /\ tensor[t].group = 0)
                            THEN 1 ELSE tensor[t].group
      BY <1>9 DEF Fixes
    <3>4. Reset(ts1[t], ts2[t], 1)
      BY <1>16, <1>18
    <3>5. ts2[t].mem = tensor[t].mem
      BY <3>2, <3>3, <3>4 DEF Reset
    <3>6. OwnOnly(m, ts2, t)
      BY <3>1, <3>5 DEF OwnOnly
    <3> QED
      BY <3>1, <3>3, <3>4, <3>5, <3>6 DEF Reset
  <2>8. \A i \in OpsOf(m) : cs2[i].exists = command[i].exists /\ cs2[i].group = IF i \in F THEN 1 ELSE 0
    BY <1>11, <1>20, <2>5
  <2>9. CallInv(m, fl2, cs2, a2)
    BY <1>13, <2>2, <2>4, <2>6, <2>8 DEF CallInv
  <2>10. CacheInv(m, fl2, ca2, ts2, cs2, a2)
    <3>1. ASSUME NEW i \in OpsOf(m) PROVE LengthsOf(m, ts2, i) = LengthsOf(m, tensor, i) /\ ca2[i].seen = cache[i].seen
      <4>1. ca2[i].seen = cache[i].seen
        BY <1>9 DEF Fixes
      <4>2. \A k \in DOMAIN m.net[i].in : m.net[i].in[k] \in TensorsOf(m)
        BY <1>10, ReadTensors
      <4>3. LengthsOf(m, ts2, i) = LengthsOf(m, tensor, i)
        BY <2>7, <4>2 DEF LengthsOf
      <4> QED
        BY <4>1, <4>3
    <3>2. ~fl2.mNeedResize \/ a2.call \in {"create", "alloc"} =>
             \A i \in OpsOf(m) : cs2[i].exists /\ ca2[i].seen = LengthsOf(m, ts2, i)
      BY <1>13, <2>4, <2>6, <2>8, <3>1
    <3>3. \A i \in OpsOf(m) : ca2[i].mComputed \/ ca2[i].mPass => cs2[i].exists
      BY <2>6, <2>8
    <3> QED
      BY <3>2, <3>3 DEF CacheInv
  <2>11. GroupInv(m, fl2, ca2, ts2, cs2)
    <3>1. ASSUME NEW i \in OpsOf(m), cs2[i].group = 1
          PROVE  ts2[i].group = 1 /\ cs2[i].exists /\ ca2[i].mPass /\ ~ca2[i].mCanCache
      <4>1. i \in F
        BY <2>8, <3>1
      <4>2. ~Varies(cache[i]) /\ command[i].exists
        BY <1>9, <4>1
      <4>3. ca2[i].mPass /\ ~ca2[i].mCanCache
        BY <1>9, <4>2 DEF Fixes
      <4> QED
        BY <1>11, <2>7, <2>8, <4>1, <4>2, <4>3
    <3>2. ASSUME NEW t \in TensorsOf(m), ts2[t].group = 1
          PROVE  \E i \in OpsOf(m) : cs2[i].group = 1 /\ (t = i \/ Reader(m, t, i))
      <4>1. t \in F \/ \E i \in F : Reader(m, t, i)
        BY <2>5, <2>7, <3>2
      <4>2. \A i \in F : i \in OpsOf(m) /\ cs2[i].group = 1
        BY <1>9, <2>8
      <4> QED
        BY <4>1, <4>2
    <3> QED
      BY <1>13, <3>1, <3>2 DEF GroupInv
  <2>12. Owners(m, fl2, ts2, pl2, a2)
    BY <2>7 DEF Owners
  <2>13. ASSUME NEW t \in TensorsOf(m), Static(m, t), ts2[t].mem = Own(t)
         PROVE  ts2[t].host = Own(t) /\ (~fl2.mNeedResize => Fits(ts2, t))
    <3>1. tensor[t].mem = Own(t)
      BY <2>7, <2>13
    <3>2. tensor[t].host = Own(t) /\ (~flags.mNeedResize => Fits(tensor, t))
      BY <2>1, <2>13, <3>1 DEF Good, Own1
    <3>3. ts2[t].host = Own(t)
      BY <2>7, <3>2, KillFacts
    <3> QED
      BY <1>13, <2>7, <3>2, <3>3 DEF Fits
  <2>14. Own1(m, fl2, ts2, a2)
    <3>1. ASSUME NEW t \in TensorsOf(m), ts2[t].group = -1
          PROVE  ts2[t].mem = None /\ ts2[t].host = Own(t) /\ Fits(ts2, t)
      <4>1. tensor[t].group = -1
        BY <2>7, <3>1
      <4>2. tensor[t].mem = None /\ tensor[t].host = Own(t) /\ Fits(tensor, t)
        BY <2>1, <4>1 DEF Good, Own1
      <4>3. ts2[t].host = Own(t)
        BY <2>7, <4>2, KillFacts
      <4> QED
        BY <2>7, <4>2, <4>3 DEF Fits
    <3> QED
      BY <2>4, <2>13, <3>1 DEF Own1
  <2>15. LiveInv(m, ts2, pl2)
    <3>1. \A x : HeldIn(m, ts2, x) = {}
      BY <2>7, OwnOnlyHeld
    <3>2. \A x \in Group : pl2[x].live = {}
      BY <1>20 DEF EmptyPlan
    <3> QED
      BY <3>1, <3>2 DEF LiveInv
  <2>16. ASSUME flags.mNeedResize PROVE PassInv(m, ts2, cs2, pl2, a2) /\ PlansInv(m, fl2, ts2, cs2, a2)
    <3>1. F = {}
      BY <1>9, <2>6, <2>16
    <3>2. (\A t \in TensorsOf(m) : ts2[t].group # 1) /\ (\A k \in OpsOf(m) : cs2[k].group # 1)
      BY <2>5, <2>7, <2>8, <3>1
    <3>3. \A n : PlanOK(m, ts2, cs2, 1, n)
      BY <3>2, EmptyGroup
    <3>4. PassInv(m, ts2, cs2, pl2, a2)
      BY <2>4, <3>2 DEF PassInv
    <3>5. PlansInv(m, fl2, ts2, cs2, a2)
      BY <1>13, <2>4, <2>16, <3>3 DEF PlansInv
    <3> QED
      BY <3>4, <3>5
  <2>17. ASSUME ~flags.mNeedResize PROVE PassInv(m, ts2, cs2, pl2, a2) /\ PlansInv(m, fl2, ts2, cs2, a2)
    <3>1. a2.i = 1
      <4>1. Exist(m, cs1)
        BY <1>11, <2>6, <2>17 DEF Exist
      <4> QED
        BY <2>4, <4>1
    <3>2. (\A t \in TensorsOf(m) : ~Reached(m, t, 1)) /\ PlanOK(m, ts2, cs2, 1, 1)
      BY <1>10, FirstFacts
    <3>3. \A k \in OpsOf(m) : ~(k < 1)
      <4>1. \A k \in OpsOf(m) : k \in Nat /\ k > 0
        BY <1>10, NetFacts
      <4> QED
        BY <4>1
    <3>4. ASSUME NEW t \in TensorsOf(m) PROVE OwnOnly(m, ts2, t) /\ (ts2[t].mem # None => Fits(ts2, t))
      BY <1>13, <2>7, <2>13, <2>17 DEF OwnOnly
    <3>5. PassInv(m, ts2, cs2, pl2, a2)
      BY <2>4, <3>1, <3>2, <3>3, <3>4 DEF PassInv
    <3>6. ASSUME ~fl2.unbound
          PROVE  (\A t \in TensorsOf(m) : ts2[t].group # 0) /\ (\A k \in OpsOf(m) : cs2[k].group # 0)
      <4>1. \A i \in OpsOf(m) : i \in F
        BY <1>11, <1>13, <2>5, <3>6
      <4>2. \A i \in OpsOf(m) : cs2[i].group = 1
        BY <2>8, <4>1
      <4>3. ASSUME NEW t \in TensorsOf(m) PROVE ts2[t].group # 0
        <5>1. t \in F \/ \E i \in F : Reader(m, t, i)
          <6>1. CASE t \in OpsOf(m)
            BY <4>1, <6>1
          <6>2. CASE t \in InputsOf(m)
            BY <1>10, <4>1, <6>2, NetFacts
          <6> QED
            BY <6>1, <6>2 DEF TensorsOf
        <5> QED
          BY <2>7, <5>1
      <4> QED
        BY <4>2, <4>3
    <3>7. ASSUME ~fl2.unbound PROVE \A n : PlanOK(m, ts2, cs2, 0, n)
      BY <3>6, <3>7, EmptyGroup
    <3>8. PlansInv(m, fl2, ts2, cs2, a2)
      BY <2>4, <3>1, <3>2, <3>6, <3>7 DEF PlansInv
    <3> QED
      BY <3>5, <3>8
  <2>18. PassInv(m, ts2, cs2, pl2, a2) /\ PlansInv(m, fl2, ts2, cs2, a2)
    BY <2>16, <2>17
  <2>19. FrozenInv(m, ca2, ts2, cs2, a2) /\ RunInv(m, ts2, a2, content)
    BY <2>4 DEF FrozenInv, RunInv
  <2> QED
    BY <2>1, <2>9, <2>10, <2>11, <2>12, <2>14, <2>15, <2>18, <2>19 DEF Good
<1>24. sound' \in BOOLEAN
  BY <1>9
<1> QED
  BY <1>1, <1>2, <1>3, <1>4, <1>5, <1>6, <1>7, <1>8, <1>9, <1>22, <1>23, <1>24 DEF IInv

-----------------------------------------------------------------------------
(* The theorems.                                                           *)

\* A new session owns no memory of a plan.
LEMMA InitIInv ==
    ASSUME Init
    PROVE  IInv
<1>1. PICK m : m = model
  OBVIOUS
<1>2. net = m.net /\ Ops = OpsOf(m) /\ Inputs = InputsOf(m) /\ Tensors = TensorsOf(m)
  BY <1>1, Names
<1>3. m \in Models /\ Len(m.net) \in Nat /\ m.mAllocInput \in BOOLEAN
  BY <1>1, NetFacts DEF Init
<1>4. PICK s \in Shapes : tensor =
          [t \in TensorsOf(m) |->
              [length |-> IF t < 0 THEN s ELSE 0,
               group |-> IF t < 0 /\ ~m.mAllocInput THEN -1 ELSE 0,
               useCount |-> 0, mem |-> None, size |-> IF t < 0 THEN s ELSE 0,
               host |-> IF t < 0 /\ ~m.mAllocInput THEN Own(t) ELSE None]]
  BY <1>1, <1>2 DEF Init
<1>5. s \in Nat
  BY ShapesAssumption
<1>6. \A t \in TensorsOf(m) : t \in Int /\ t # 0 /\ (t < 0 <=> t \in InputsOf(m)) /\ (t > 0 <=> t \in OpsOf(m))
  BY <1>3, NetFacts
<1>7. ASSUME NEW t \in TensorsOf(m)
      PROVE  /\ tensor[t] \in TensorType /\ tensor[t].mem = None /\ tensor[t].useCount = 0
             /\ tensor[t].length = tensor[t].size /\ tensor[t].size \in Nat
             /\ tensor[t].group = IF t < 0 /\ ~m.mAllocInput THEN -1 ELSE 0
             /\ tensor[t].group = -1 => tensor[t].host = Own(t)
  <2>1. PICK l : l = IF t < 0 THEN s ELSE 0
    OBVIOUS
  <2>2. PICK g : g = IF t < 0 /\ ~m.mAllocInput THEN -1 ELSE 0
    OBVIOUS
  <2>3. PICK h : h = IF t < 0 /\ ~m.mAllocInput THEN Own(t) ELSE None
    OBVIOUS
  <2>4. tensor[t] = [length |-> l, group |-> g, useCount |-> 0, mem |-> None, size |-> l, host |-> h]
    BY <1>4, <2>1, <2>2, <2>3
  <2>5. l \in Nat /\ g \in {-1, 0, 1} /\ (g = -1 => h = Own(t)) /\ None \in Spot
    <3>1. l \in Nat
      BY <1>5, <2>1
    <3>2. g \in {-1, 0, 1} /\ (g = -1 => h = Own(t))
      BY <2>2, <2>3
    <3> QED
      BY <3>1, <3>2, SpotType
  <2>6. h \in Spot
    BY <1>6, <2>3, SpotType
  <2>7. tensor[t] \in TensorType
    BY <2>4, <2>5, <2>6 DEF TensorType
  <2>8. tensor[t].mem = None /\ tensor[t].useCount = 0 /\ tensor[t].length = l /\ tensor[t].size = l
        /\ tensor[t].group = g /\ tensor[t].host = h
    BY <2>4
  <2> QED
    BY <2>2, <2>5, <2>7, <2>8
<1>8. tensor \in [TensorsOf(m) -> TensorType]
  BY <1>4, <1>7
<1>9. PICK none : none = [exists |-> FALSE, group |-> 0, temp |-> None]
  OBVIOUS
<1>10. none \in CommandType /\ ~none.exists /\ none.group = 0
  BY <1>9, SpotType DEF CommandType, Group
<1>11. command = [i \in OpsOf(m) |-> none] /\ command \in [OpsOf(m) -> CommandType]
  <2>1. command = [i \in OpsOf(m) |-> none]
    BY <1>2, <1>9 DEF Init
  <2> QED
    BY <1>10, <2>1
<1>12. NoCache \in CacheType /\ ~NoCache.mPass /\ ~NoCache.mComputed
  BY DEF NoCache, CacheType
<1>13. cache = [i \in OpsOf(m) |-> NoCache] /\ cache \in [OpsOf(m) -> CacheType]
  <2>1. cache = [i \in OpsOf(m) |-> NoCache]
    BY <1>2 DEF Init
  <2> QED
    BY <1>12, <2>1
<1>14. plan \in [Group -> PlanType] /\ \A g \in Group : plan[g].live = {}
  BY DEF Init, EmptyPlan, PlanType
<1>15. flags \in FlagsType /\ flags.mNeedResize /\ ~flags.failed /\ ~flags.fixed
  BY DEF Init, FlagsType
<1>16. at = Idle /\ content = << >> /\ right = TRUE /\ sound = TRUE
  BY DEF Init
<1>17. Basic(m, flags, cache, tensor, command, plan, at)
  <2>1. Typed(m, flags, cache, tensor, command, plan, at)
    <3>1. at \in CallType /\ at.i <= Len(m.net) + 2
      BY <1>3, <1>16, IdleFacts
    <3> QED
      BY <1>3, <1>8, <1>11, <1>13, <1>14, <1>15, <3>1 DEF Typed
  <2>2. PassAt(m, at)
    BY <1>16, IdleFacts DEF PassAt
  <2>3. Grouped(m, tensor)
    <3>1. \A t \in OpsOf(m) : t \in TensorsOf(m) /\ t > 0 /\ ~(t < 0)
      <4>1. \A t \in OpsOf(m) : t \in TensorsOf(m)
        BY DEF TensorsOf
      <4> QED
        BY <1>6, <4>1
    <3>2. \A t \in InputsOf(m) : t \in TensorsOf(m) /\ t < 0
      BY <1>6 DEF TensorsOf
    <3> QED
      BY <1>7, <3>1, <3>2 DEF Grouped
  <2>4. CountInv(m, tensor, command, at)
    <3>1. ASSUME NEW t \in TensorsOf(m) PROVE tensor[t].useCount <= Uses(m, t, OpsOf(m))
      <4>1. Uses(m, t, OpsOf(m)) \in Nat
        BY <1>3, OpsCounted, UsesMonotone
      <4> QED
        BY <1>7, <4>1
    <3> QED
      BY <1>16, <3>1, IdleFacts DEF CountInv
  <2>5. Made(m, cache, command)
    BY <1>10, <1>11 DEF Made
  <2> QED
    BY <2>1, <2>2, <2>3, <2>4, <2>5 DEF Basic
<1>18. Good(m, flags, cache, tensor, command, plan, at, content)
  <2>1. at.call = "none" /\ ~InPassAt(at)
    BY <1>16, IdleFacts
  <2>2. CallInv(m, flags, command, at)
    BY <1>15, <1>16, <2>1 DEF CallInv
  <2>3. \A i \in OpsOf(m) : ~cache[i].mComputed /\ ~cache[i].mPass /\ command[i].group = 0 /\ command[i].group # 1
    BY <1>10, <1>11, <1>12, <1>13
  <2>4. \A t \in TensorsOf(m) : tensor[t].group # 1 /\ tensor[t].mem = None
    BY <1>7
  <2>5. CacheInv(m, flags, cache, tensor, command, at)
    BY <1>15, <2>1, <2>3 DEF CacheInv
  <2>6. GroupInv(m, flags, cache, tensor, command)
    BY <2>3, <2>4 DEF GroupInv
  <2>7. Owners(m, flags, tensor, plan, at)
    BY <2>4 DEF Owners, OwnOnly
  <2>8. Own1(m, flags, tensor, at)
    <3>1. \A t \in TensorsOf(m) : Fits(tensor, t)
      <4>1. \A n \in Nat : n <= n
        OBVIOUS
      <4> QED
        BY <1>7, <4>1 DEF Fits
    <3>2. \A t \in InputsOf(m) : t \in TensorsOf(m)
      BY DEF TensorsOf
    <3> QED
      BY <1>7, <1>15, <2>4, <3>1, <3>2, SpotFacts DEF Own1
  <2>9. LiveInv(m, tensor, plan)
    <3>1. \A t \in TensorsOf(m) : OwnOnly(m, tensor, t)
      BY <2>4 DEF OwnOnly
    <3>2. \A x : HeldIn(m, tensor, x) = {}
      BY <3>1, OwnOnlyHeld
    <3> QED
      BY <1>14, <3>2 DEF LiveInv
  <2>10. PassInv(m, tensor, command, plan, at) /\ FrozenInv(m, cache, tensor, command, at)
         /\ RunInv(m, tensor, at, content)
    BY <2>1, <2>3 DEF PassInv, FrozenInv, RunInv
  <2>11. \A n : PlanOK(m, tensor, command, 1, n)
    BY <2>3, <2>4, EmptyGroup
  <2>12. PlansInv(m, flags, tensor, command, at)
    BY <1>15, <2>1, <2>11 DEF PlansInv
  <2> QED
    BY <2>2, <2>5, <2>6, <2>7, <2>8, <2>9, <2>10, <2>12 DEF Good
<1> QED
  BY <1>1, <1>16, <1>17, <1>18 DEF IInv

\* Every call of the user, and every step of a call, keeps the invariant.
LEMMA NextIInv ==
    ASSUME IInv, [Next]_vars
    PROVE  IInv'
<1>1. CASE UNCHANGED vars
  <2>1. /\ model' = model /\ flags' = flags /\ cache' = cache /\ tensor' = tensor /\ command' = command
        /\ plan' = plan /\ at' = at /\ content' = content /\ right' = right /\ sound' = sound
    BY <1>1 DEF vars
  <2> QED
    BY <2>1 DEF IInv
<1>2. CASE Next
  <2>1. Step /\ UNCHANGED model
    BY <1>2 DEF Next
  <2>2. CASE \E s \in Shapes : ResizeTensor(s)
    BY <2>1, <2>2, ResizeTensorStep
  <2>3. CASE OpenResizeCheck
    BY <2>1, <2>3, OpenResizeCheckStep
  <2>4. CASE FixResizeCache
    BY <2>1, <2>4, FixResizeCacheStep
  <2>5. CASE \E k \in Ops : Encode(k)
    BY <2>1, <2>5, EncodeStep
  <2>6. CASE CreateExecutions
    BY <2>1, <2>6, CreateExecutionsStep
  <2>7. CASE CreateFails
    BY <2>1, <2>7, CreateFailsStep
  <2>8. CASE AllocCommand
    BY <2>1, <2>8, AllocCommandStep
  <2>9. CASE AllocFails
    BY <2>1, <2>9, AllocFailsStep
  <2>10. CASE RecycleAll
    BY <2>1, <2>10, RecycleAllStep
  <2>11. CASE ResizeEnd
    BY <2>1, <2>11, ResizeEndStep
  <2>12. CASE ResizeEndFails
    BY <2>1, <2>12, ResizeEndFailsStep
  <2>17. CASE ResizeEndUnbound
    BY <2>1, <2>17, ResizeEndUnboundStep
  <2>13. CASE Run
    BY <2>1, <2>13, RunStep
  <2>14. CASE RunCommand
    BY <2>1, <2>14, RunCommandStep
  <2>15. CASE RunEnd
    BY <2>1, <2>15, RunEndStep
  <2>16. CASE RunFails
    BY <2>1, <2>16, RunFailsStep
  <2> QED
    BY <2>1, <2>2, <2>3, <2>4, <2>5, <2>6, <2>7, <2>8, <2>9, <2>10, <2>11, <2>12, <2>13, <2>14, <2>15, <2>16, <2>17 DEF Step
<1> QED
  BY <1>1, <1>2

\* IInv is an inductive invariant of a session and its pipeline.
THEOREM IInvAlways == Spec => []IInv
<1>1. Init => IInv
  BY InitIInv
<1>2. IInv /\ [Next]_vars => IInv'
  BY NextIInv
<1> QED
  BY <1>1, <1>2, PTL DEF Spec

\* What is behind the plans of a group.
Buffers == buffer \in [Group -> {"none", "held", "lost"}]

\* onResizeEnd and fixResizeCache keep that.
LEMMA BuffersAlways == Spec => []Buffers
<1>1. Init => Buffers
  BY DEF Init, Buffers
<1>2. Buffers /\ [Next]_vars => Buffers'
  <2> SUFFICES ASSUME Buffers, [Next]_vars PROVE Buffers'
    OBVIOUS
  <2>1. CASE ResizeEnd \/ ResizeEndFails
    BY <2>1 DEF Buffers, ResizeEnd, ResizeEndFails
  <2>2. CASE FixResizeCache
    BY <2>2 DEF Buffers, FixResizeCache
  <2>3. CASE UNCHANGED buffer
    BY <2>3 DEF Buffers
  <2> QED
    BY <2>1, <2>2, <2>3 DEF Next, Step, vars, ResizeTensor, OpenResizeCheck, Encode, CreateExecutions,
       CreateFails, AllocCommand, AllocFails, RecycleAll, ResizeEndUnbound, Run, RunCommand, RunEnd, RunFails
<1> QED
  BY <1>1, <1>2, PTL DEF Spec

\* The invariant gives the types.
LEMMA IInvTypes ==
    ASSUME IInv, Buffers
    PROVE  TypeOK
<1>1. PICK m : m = model
  OBVIOUS
<1>2. net = m.net /\ Ops = OpsOf(m) /\ Tensors = TensorsOf(m)
  BY <1>1, Names
<1>3. Basic(m, flags, cache, tensor, command, plan, at)
  BY <1>1 DEF IInv
<1>4. /\ m \in Models /\ at \in CallType /\ (\A t \in TensorsOf(m) : tensor[t] \in TensorType)
      /\ (\A i \in OpsOf(m) : command[i] \in CommandType) /\ (\A g \in Group : plan[g] \in PlanType)
  BY <1>3, TypeFacts
<1>5. ASSUME NEW t \in TensorsOf(m)
      PROVE  /\ tensor[t].length \in Nat /\ tensor[t].size \in Nat /\ tensor[t].group \in {-1, 0, 1}
             /\ tensor[t].useCount \in 0 .. UseCount(t, Ops)
  <2>1. tensor[t].useCount \in Nat /\ tensor[t].length \in Nat /\ tensor[t].size \in Nat /\ tensor[t].group \in {-1, 0, 1}
    BY <1>4 DEF TensorType
  <2>2. tensor[t].useCount <= Uses(m, t, OpsOf(m))
    BY <1>3 DEF Basic, CountInv
  <2>3. UseCount(t, Ops) = Uses(m, t, OpsOf(m))
    BY <1>1, <1>2, UseCountUses
  <2>4. Uses(m, t, OpsOf(m)) \in Nat
    BY <1>4, OpsCounted, UsesMonotone
  <2> QED
    BY <2>1, <2>2, <2>3, <2>4
<1>6. \A i \in OpsOf(m) : command[i].exists \in BOOLEAN /\ command[i].group \in Group
  BY <1>4 DEF CommandType
<1>7. ASSUME NEW g \in Group PROVE plan[g].used \subseteq Addr /\ (sound => plan[g].live \subseteq plan[g].used)
  <2>1. plan[g].used \subseteq Addr
    BY <1>4 DEF PlanType
  <2>2. ASSUME sound PROVE plan[g].live \subseteq plan[g].used
    <3>1. LiveInv(m, tensor, plan)
      BY <1>1, <2>2 DEF IInv, Good
    <3> QED
      BY <3>1 DEF LiveInv
  <2> QED
    BY <2>1, <2>2
<1>8. at.call \in {"none", "create", "alloc", "fix", "run"} /\ at.i \in 0 .. Len(net) + 2
  <2>1. at.i \in Nat /\ at.i <= Len(m.net) + 2 /\ Len(m.net) \in Nat
    BY <1>3, <1>4, NetFacts DEF Basic, Typed, CallType
  <2>2. at.call \in {"none", "create", "alloc", "fix", "run"}
    BY <1>4 DEF CallType
  <2> QED
    BY <1>2, <2>1, <2>2
<1>9. right \in BOOLEAN /\ sound \in BOOLEAN
  BY DEF IInv
<1> QED
  BY <1>2, <1>5, <1>6, <1>7, <1>8, <1>9 DEF TypeOK, Buffers

\* The invariant says who owns memory of a plan, and when nobody does.
LEMMA IInvRecycled ==
    ASSUME IInv
    PROVE  Recycled
<1>1. PICK m : m = model
  OBVIOUS
<1>2. net = m.net /\ Tensors = TensorsOf(m)
  BY <1>1, Names
<1>3. SUFFICES ASSUME sound
               PROVE  /\ (InPass /\ at.i = Len(net) + 2) => plan[at.g].live = {}
                      /\ \A t \in Tensors : tensor[t].mem # Dead
  BY DEF Recycled
<1>4. Good(m, flags, cache, tensor, command, plan, at, content) /\ Basic(m, flags, cache, tensor, command, plan, at)
  BY <1>1, <1>3 DEF IInv
<1>5. ASSUME NEW t \in TensorsOf(m) PROVE tensor[t].mem # Dead
  BY <1>4, SpotFacts DEF Good, Owners, OwnOnly
<1>6. ASSUME InPass, at.i = Len(m.net) + 2 PROVE plan[at.g].live = {}
  <2>1. InPassAt(at) /\ at.call # "none"
    BY <1>6 DEF InPass, InPassAt
  <2>2. at # Idle
    BY <2>1, IdleFacts
  <2>3. ~(at.i <= Len(m.net) + 1)
    <3>1. Len(m.net) \in Nat
      BY <1>4, TypeFacts, NetFacts
    <3> QED
      BY <1>6, <3>1
  <2>4. \A t \in TensorsOf(m) : OwnOnly(m, tensor, t)
    BY <1>4, <2>2, <2>3 DEF Good, Owners
  <2>5. HeldIn(m, tensor, at.g) = {}
    BY <2>4, OwnOnlyHeld
  <2>6. at.g \in Group
    BY <1>4, TypeFacts DEF CallType
  <2> QED
    BY <1>4, <2>5, <2>6 DEF Good, LiveInv
<1> QED
  BY <1>2, <1>5, <1>6

\* For every net, every set of shapes and any number of addresses, use counts stay between
\* zero and the reads of the commands, also after resizes that failed half-way.
THEOREM TypeCorrect == Spec => []TypeOK
BY IInvAlways, BuffersAlways, IInvTypes, PTL

\* For every net and every sequence of resizes, checks, fixResizeCache and runs within the
\* contract, failed ones included, a command finds in each input what was written for it in
\* this run, in memory that is large enough and that it does not write to itself, and the user
\* finds the outputs (Pipeline::allocMemory, _allocForTensor, _releaseTensor).
THEOREM ReadsAreRight == Spec => []ReadsRight
<1>1. IInv => ReadsRight
  BY DEF IInv, ReadsRight
<1> QED
  BY <1>1, IInvAlways, PTL

\* For every net, everything in a plan has been given back when onResizeEnd computes it, and
\* no tensor ever owns a chunk of a plan that was reset (_recycleDynamicMemory, encode).
THEOREM AlwaysRecycled == Spec => []Recycled
BY IInvAlways, IInvRecycled, PTL

=============================================================================
