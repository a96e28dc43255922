--------------------------- MODULE ObjectList_proofs ---------------------------
(***************************************************************************)
(* Proofs about ObjectList, for any objects and any bounds.                *)
(***************************************************************************)
EXTENDS ObjectList, SequenceTheorems, FiniteSetTheorems, TLAPS

-----------------------------------------------------------------------------
(* Sets of naturals.                                                       *)

\* Every set of naturals has a least element: n stands for the finite set 0 .. n,
\* and strict inclusion of finite sets is well-founded.
LEMMA LeastNatural ==
    ASSUME NEW T \in SUBSET Nat, T # {}
    PROVE  \E x \in T : \A y \in T : x <= y
<1> DEFINE Upto == {0 .. n : n \in T}
<1>1. Upto \subseteq FiniteSubsetsOf(Nat) /\ Upto # {}
  <2>1. \A n \in T : IsFiniteSet(0 .. n) /\ 0 .. n \subseteq Nat
    BY FS_Interval
  <2> QED
    BY <2>1 DEF FiniteSubsetsOf
<1>2. IsWellFoundedOn(StrictSubsetOrdering(Nat), FiniteSubsetsOf(Nat))
  BY FS_StrictSubsetOrderingWellFounded
<1> HIDE DEF Upto
<1>3. PICK X \in Upto : \A Y \in Upto : <<Y, X>> \notin StrictSubsetOrdering(Nat)
  BY <1>1, <1>2, WFMin
<1>4. PICK x \in T : X = 0 .. x
  BY <1>3 DEF Upto
<1>5. ASSUME NEW y \in T, y < x
      PROVE  FALSE
  <2>1. 0 .. y \in Upto
    BY DEF Upto
  <2>2. 0 .. y \subseteq 0 .. x /\ x \in 0 .. x /\ x \notin 0 .. y
    BY <1>5
  <2>3. 0 .. y \in SUBSET Nat /\ 0 .. x \in SUBSET Nat
    OBVIOUS
  <2>4. <<0 .. y, 0 .. x>> \in StrictSubsetOrdering(Nat)
    BY <2>2, <2>3 DEF StrictSubsetOrdering
  <2> QED
    BY <2>1, <2>4, <1>3, <1>4
<1> QED
  BY <1>5

\* A set that holds 0 and the successor of each of its members holds every natural.
LEMMA NaturalInduction ==
    ASSUME NEW T, 0 \in T, \A n \in Nat : n \in T => n + 1 \in T
    PROVE  Nat \subseteq T
<1> SUFFICES ASSUME Nat \ T # {} PROVE FALSE
  OBVIOUS
<1>1. PICK x \in Nat \ T : \A y \in Nat \ T : x <= y
  BY LeastNatural
<1>2. x - 1 \in Nat /\ x - 1 \notin Nat \ T
  BY <1>1
<1> QED
  BY <1>1, <1>2

-----------------------------------------------------------------------------
(* Sequences.                                                              *)

\* To leave out one position shifts the later ones left: std::vector::erase.
LEMMA EraseType ==
    ASSUME NEW S, NEW s \in Seq(S), NEW i \in 1 .. Len(s)
    PROVE  LET erased == SubSeq(s, 1, i - 1) \o SubSeq(s, i + 1, Len(s))
           IN  /\ erased \in Seq(S)
               /\ Len(erased) = Len(s) - 1
               /\ \A j \in 1 .. Len(s) - 1 : erased[j] = IF j < i THEN s[j] ELSE s[j + 1]
<1> DEFINE front == SubSeq(s, 1, i - 1)
           back == SubSeq(s, i + 1, Len(s))
<1>1. /\ front \in Seq(S) /\ Len(front) = i - 1
      /\ \A j \in 1 .. i - 1 : front[j] = s[j]
  OBVIOUS
<1>2. /\ back \in Seq(S) /\ Len(back) = Len(s) - i
      /\ \A j \in 1 .. Len(s) - i : back[j] = s[i + j]
  OBVIOUS
<1> HIDE DEF front, back
<1>3. /\ front \o back \in Seq(S)
      /\ Len(front \o back) = Len(s) - 1
  BY <1>1, <1>2
<1>4. ASSUME NEW j \in 1 .. Len(s) - 1
      PROVE (front \o back)[j] = IF j < i THEN s[j] ELSE s[j + 1]
  BY <1>1, <1>2
<1> QED
  BY <1>3, <1>4 DEF front, back

\* To erase one position of such a list takes just the element there.
LEMMA DistinctErase ==
    ASSUME NEW S, NEW s \in Seq(S), IsInjective(s), NEW i \in 1 .. Len(s)
    PROVE  LET erased == SubSeq(s, 1, i - 1) \o SubSeq(s, i + 1, Len(s))
           IN  /\ erased \in Seq(S)
               /\ Range(erased) = Range(s) \ {s[i]}
               /\ IsInjective(erased)
<1>1. DOMAIN s = 1 .. Len(s) /\ Len(s) \in Nat
  OBVIOUS
<1> DEFINE u == SubSeq(s, 1, i - 1) \o SubSeq(s, i + 1, Len(s))
<1>2. /\ u \in Seq(S) /\ Len(u) = Len(s) - 1
      /\ \A j \in 1 .. Len(s) - 1 : u[j] = IF j < i THEN s[j] ELSE s[j + 1]
  BY EraseType
<1> HIDE DEF u
<1>3. DOMAIN u = 1 .. Len(s) - 1
  BY <1>1, <1>2
<1>4. \A j, k \in 1 .. Len(s) : s[j] = s[k] => j = k
  BY <1>1 DEF IsInjective
<1>5. IsInjective(u)
  <2>1. ASSUME NEW j \in 1 .. Len(s) - 1, NEW k \in 1 .. Len(s) - 1, u[j] = u[k]
        PROVE  j = k
    <3>1. (IF j < i THEN j ELSE j + 1) = (IF k < i THEN k ELSE k + 1)
      <4>1. (IF j < i THEN j ELSE j + 1) \in 1 .. Len(s) /\ (IF k < i THEN k ELSE k + 1) \in 1 .. Len(s)
        BY <1>1
      <4> QED
        BY <1>2, <1>4, <2>1, <4>1
    <3> QED
      BY <3>1
  <2> QED
    BY <1>3, <2>1 DEF IsInjective
<1>6. ASSUME NEW j \in 1 .. Len(s) - 1
      PROVE  u[j] \in Range(s) \ {s[i]}
  <2>1. PICK k \in 1 .. Len(s) : k # i /\ u[j] = s[k]
    <3>1. j \in 1 .. Len(s) /\ j + 1 \in 1 .. Len(s)
      BY <1>1
    <3> QED
      BY <1>2, <3>1
  <2>2. s[k] # s[i]
    BY <1>4, <2>1
  <2>3. s[k] \in Range(s)
    BY <1>1 DEF Range
  <2> QED
    BY <2>1, <2>2, <2>3
<1>7. ASSUME NEW k \in 1 .. Len(s), k # i
      PROVE  \E j \in 1 .. Len(s) - 1 : u[j] = s[k]
  <2>1. CASE k < i
    <3>1. k \in 1 .. Len(s) - 1 /\ u[k] = s[k]
      BY <1>1, <1>2, <2>1
    <3> QED
      BY <3>1
  <2>2. CASE k > i
    <3>1. k - 1 \in 1 .. Len(s) - 1 /\ u[k - 1] = s[k]
      BY <1>1, <1>2, <2>2
    <3> QED
      BY <3>1
  <2> QED
    BY <1>7, <2>1, <2>2
<1>8. Range(u) = Range(s) \ {s[i]}
  <2>1. Range(u) \subseteq Range(s) \ {s[i]}
    BY <1>3, <1>6 DEF Range
  <2>2. ASSUME NEW x \in Range(s), x # s[i]
        PROVE  x \in Range(u)
    <3>1. PICK k \in 1 .. Len(s) : x = s[k]
      BY <1>1 DEF Range
    <3>2. PICK j \in 1 .. Len(s) - 1 : u[j] = s[k]
      BY <1>7, <2>2, <3>1
    <3> QED
      BY <1>3, <3>1, <3>2 DEF Range
  <2> QED
    BY <2>1, <2>2
<1> QED
  BY <1>2, <1>5, <1>8 DEF u

LEMMA DistinctAppend ==
    ASSUME NEW S, NEW s \in Seq(S), IsInjective(s), NEW e \in S, e \notin Range(s)
    PROVE  /\ Append(s, e) \in Seq(S)
           /\ Range(Append(s, e)) = Range(s) \cup {e}
           /\ IsInjective(Append(s, e))
<1>1. DOMAIN s = 1 .. Len(s) /\ Len(s) \in Nat
  OBVIOUS
<1> DEFINE u == Append(s, e)
<1>2. /\ u \in Seq(S) /\ DOMAIN u = 1 .. Len(s) \cup {Len(s) + 1}
      /\ u[Len(s) + 1] = e
      /\ \A k \in 1 .. Len(s) : u[k] = s[k]
  <2>1. u \in Seq(S) /\ Len(u) = Len(s) + 1 /\ u[Len(s) + 1] = e
        /\ \A k \in 1 .. Len(s) : u[k] = s[k]
    OBVIOUS
  <2>2. DOMAIN u = 1 .. Len(u)
    BY <2>1
  <2> QED
    BY <1>1, <2>1, <2>2
<1> HIDE DEF u
<1>3. \A k \in 1 .. Len(s) : s[k] # e
  BY <1>1 DEF Range
<1>4. Range(u) = Range(s) \cup {e}
  BY <1>1, <1>2 DEF Range
<1>5. IsInjective(u)
  BY <1>1, <1>2, <1>3 DEF IsInjective
<1> QED
  BY <1>2, <1>4, <1>5 DEF u

LEMMA DistinctEmpty ==
    ASSUME NEW S
    PROVE  <<>> \in Seq(S) /\ Range(<<>>) = {} /\ IsInjective(<<>>)
<1>1. <<>> \in Seq(S) /\ DOMAIN <<>> = {}
  OBVIOUS
<1> QED
  BY <1>1 DEF Range, IsInjective

\* Such a list has as many positions as elements.
LEMMA DistinctCount ==
    ASSUME NEW S, NEW s \in Seq(S), IsInjective(s)
    PROVE  IsFiniteSet(Range(s)) /\ Cardinality(Range(s)) = Len(s)
<1>1. DOMAIN s = 1 .. Len(s) /\ Len(s) \in Nat
  OBVIOUS
<1>2. s \in Bijection(1 .. Len(s), Range(s))
  BY <1>1 DEF Bijection, Injection, Surjection, IsInjective, Range
<1>3. ExistsBijection(1 .. Len(s), Range(s))
  BY <1>2 DEF ExistsBijection
<1> QED
  BY <1>1, <1>3, FS_CountingElements, FS_NatBijection

-----------------------------------------------------------------------------
(* The vectors.                                                            *)

\* find and erase: one position that holds the object.
LEMMA RemoveFirstIs ==
    ASSUME NEW S, NEW s \in Seq(S), NEW e, NEW k \in 1 .. Len(s), s[k] = e
    PROVE  \E i \in 1 .. Len(s) : s[i] = e /\ RemoveFirst(s, e) = RemoveAt(s, i)
<1> DEFINE I == {i \in 1 .. Len(s) : s[i] = e}
<1>1. SelectInSeq(s, LAMBDA v : v = e) = Min(I)
  BY DEF SelectInSeq
<1>2. RemoveFirst(s, e) = RemoveAt(s, SelectInSeq(s, LAMBDA v : v = e))
  BY DEF RemoveFirst
<1>3. I \in SUBSET Nat /\ I # {}
  OBVIOUS
<1>4. \E x \in I : \A y \in I : x <= y
  BY <1>3, LeastNatural
<1>5. Min(I) \in I
  BY <1>4 DEF Min
<1> QED
  BY <1>1, <1>2, <1>5

LEMMA RangeIs ==
    ASSUME NEW S, NEW s \in Seq(S)
    PROVE  /\ Range(s) \subseteq S
           /\ DOMAIN s = 1 .. Len(s) /\ Len(s) \in Nat
           /\ \A i \in 1 .. Len(s) : s[i] \in Range(s)
           /\ \A e : Contains(s, e) <=> e \in Range(s)
<1>1. DOMAIN s = 1 .. Len(s) /\ Len(s) \in Nat /\ \A i \in 1 .. Len(s) : s[i] \in S
  OBVIOUS
<1> QED
  BY <1>1 DEF Range, Contains

\* Whatever the vector holds, only the object may be missing afterwards.
LEMMA RemoveFirstType ==
    ASSUME NEW S, NEW s \in Seq(S), NEW e
    PROVE  /\ RemoveFirst(s, e) \in Seq(S)
           /\ Range(RemoveFirst(s, e)) \subseteq Range(s)
           /\ \A x \in Range(s) : x # e => x \in Range(RemoveFirst(s, e))
<1>1. DOMAIN s = 1 .. Len(s) /\ Len(s) \in Nat
  OBVIOUS
<1>2. CASE \E k \in 1 .. Len(s) : s[k] = e
  <2>1. PICK i \in 1 .. Len(s) : s[i] = e /\ RemoveFirst(s, e) = RemoveAt(s, i)
    BY <1>2, RemoveFirstIs
  <2> DEFINE u == RemoveAt(s, i)
  <2>2. /\ u \in Seq(S) /\ Len(u) = Len(s) - 1
        /\ \A j \in 1 .. Len(s) - 1 : u[j] = IF j < i THEN s[j] ELSE s[j + 1]
    BY EraseType DEF RemoveAt
  <2> HIDE DEF u
  <2>3. DOMAIN u = 1 .. Len(s) - 1
    BY <1>1, <2>2
  <2>4. ASSUME NEW j \in 1 .. Len(s) - 1
        PROVE  u[j] \in Range(s)
    <3>1. j \in 1 .. Len(s) /\ j + 1 \in 1 .. Len(s)
      BY <1>1
    <3> QED
      BY <1>1, <2>2, <3>1 DEF Range
  <2>5. ASSUME NEW x \in Range(s), x # e
        PROVE  x \in Range(u)
    <3>1. PICK k \in 1 .. Len(s) : s[k] = x /\ k # i
      BY <1>1, <2>1, <2>5 DEF Range
    <3>2. \E j \in 1 .. Len(s) - 1 : u[j] = x
      <4>1. CASE k < i
        <5>1. k \in 1 .. Len(s) - 1 /\ u[k] = x
          BY <1>1, <2>2, <3>1, <4>1
        <5> QED
          BY <5>1
      <4>2. CASE k > i
        <5>1. k - 1 \in 1 .. Len(s) - 1 /\ u[k - 1] = x
          BY <1>1, <2>2, <3>1, <4>2
        <5> QED
          BY <5>1
      <4> QED
        BY <3>1, <4>1, <4>2
    <3> QED
      BY <2>3, <3>2 DEF Range
  <2> QED
    BY <2>1, <2>2, <2>3, <2>4, <2>5, SMTT(30) DEF u, Range
<1>3. CASE ~\E k \in 1 .. Len(s) : s[k] = e
  BY <1>3 DEF RemoveFirst
<1> QED
  BY <1>2, <1>3

LEMMA RemoveFirstFacts ==
    ASSUME NEW S, NEW s \in Seq(S), IsInjective(s), NEW e
    PROVE  /\ RemoveFirst(s, e) \in Seq(S)
           /\ Range(RemoveFirst(s, e)) = Range(s) \ {e}
           /\ IsInjective(RemoveFirst(s, e))
<1>1. CASE \E k \in 1 .. Len(s) : s[k] = e
  <2>1. PICK i \in 1 .. Len(s) : s[i] = e /\ RemoveFirst(s, e) = RemoveAt(s, i)
    BY <1>1, RemoveFirstIs
  <2> DEFINE u == RemoveAt(s, i)
  <2>2. u \in Seq(S) /\ Range(u) = Range(s) \ {s[i]} /\ IsInjective(u)
    BY DistinctErase DEF RemoveAt
  <2> HIDE DEF u
  <2>3. RemoveFirst(s, e) = u /\ s[i] = e
    BY <2>1 DEF u
  <2> QED
    BY <2>2, <2>3
<1>2. CASE ~\E k \in 1 .. Len(s) : s[k] = e
  <2>1. RemoveFirst(s, e) = s
    BY <1>2 DEF RemoveFirst
  <2>2. e \notin Range(s)
    BY <1>2 DEF Range
  <2> QED
    BY <2>1, <2>2
<1> QED
  BY <1>1, <1>2

LEMMA AppendType ==
    ASSUME NEW S, NEW s \in Seq(S), NEW e \in S
    PROVE  /\ Append(s, e) \in Seq(S)
           /\ Range(Append(s, e)) = Range(s) \cup {e}
<1> DEFINE u == Append(s, e)
<1>1. DOMAIN s = 1 .. Len(s) /\ Len(s) \in Nat
  OBVIOUS
<1>2. /\ u \in Seq(S) /\ DOMAIN u = 1 .. Len(s) \cup {Len(s) + 1}
      /\ u[Len(s) + 1] = e
      /\ \A k \in 1 .. Len(s) : u[k] = s[k]
  <2>1. u \in Seq(S) /\ Len(u) = Len(s) + 1 /\ u[Len(s) + 1] = e
        /\ \A k \in 1 .. Len(s) : u[k] = s[k]
    OBVIOUS
  <2>2. DOMAIN u = 1 .. Len(u)
    BY <2>1
  <2> QED
    BY <1>1, <2>1, <2>2
<1> HIDE DEF u
<1>3. Range(u) = Range(s) \cup {e}
  BY <1>1, <1>2 DEF Range
<1> QED
  BY <1>2, <1>3 DEF u

-----------------------------------------------------------------------------
(* What the calls on an object make of the lists.                          *)

\* The counter is 8 bits wide; it wraps at its ends and nowhere else.
LEMMA Wraps ==
    ASSUME NEW x \in 0 .. MaxActive
    PROVE  /\ (x + 1) % (MaxActive + 1) = IF x = MaxActive THEN 0 ELSE x + 1
           /\ (x - 1) % (MaxActive + 1) = IF x = 0 THEN MaxActive ELSE x - 1
<1> DEFINE w == MaxActive + 1
<1>1. w \in Nat /\ w > 1 /\ MaxActive \in Nat /\ w - 1 = MaxActive
  BY ObjectListAssumption
<1> HIDE DEF w
<1>2. \A n \in 0 .. w - 1 : n % w = n
  BY <1>1
<1>3. w % w = 0 /\ (0 - 1) % w = w - 1
  BY <1>1
<1>4. (x + 1) % w = IF x = MaxActive THEN 0 ELSE x + 1
  BY <1>1, <1>2, <1>3
<1>5. (x - 1) % w = IF x = 0 THEN MaxActive ELSE x - 1
  BY <1>1, <1>2, <1>3
<1> QED
  BY <1>4, <1>5 DEF w

\* MakeMeCrow flags the object and enters it, or does nothing.
Crowed(L, M, o) ==
    /\ M.cur = L.cur
    /\ \/ M.crow = L.crow /\ M.crows = L.crows
       \/ /\ ~L.crow[o] /\ M.crow = [L.crow EXCEPT ![o] = TRUE]
          /\ M.crows = [L.crows EXCEPT ![L.cur] = Append(L.crows[L.cur], o)]

SameLists(L, M) == M.active = L.active /\ M.sleeping = L.sleeping /\ M.counter = L.counter

LEMMA FieldTypes ==
    ASSUME NEW L \in Lists
    PROVE  /\ L.active \in Seq(Objects) /\ L.sleeping \in Seq(Objects)
           /\ L.crows \in [0 .. 1 -> Seq(Objects)] /\ L.cur \in 0 .. 1
           /\ L.counter \in [Objects -> 0 .. MaxActive] /\ L.crow \in [Objects -> BOOLEAN]
           /\ L.crows[L.cur] \in Seq(Objects)
  BY DEF Lists

LEMMA MakeCrow ==
    ASSUME NEW L \in Lists, NEW o \in Objects
    PROVE  Crow(L, o) \in Lists /\ SameLists(L, Crow(L, o)) /\ Crowed(L, Crow(L, o), o)
<1>1. CASE L.crow[o] \/ L.counter[o] = 0
  <2>1. Crow(L, o) = L
    BY <1>1 DEF Crow
  <2> QED
    BY <2>1 DEF SameLists, Crowed
<1>2. CASE ~(L.crow[o] \/ L.counter[o] = 0)
  <2> DEFINE M == [L EXCEPT !.crow[o] = TRUE, !.crows[L.cur] = Append(@, o)]
  <2>1. Append(L.crows[L.cur], o) \in Seq(Objects)
    BY FieldTypes
  <2>2. /\ M \in Lists /\ M.active = L.active /\ M.sleeping = L.sleeping /\ M.counter = L.counter
        /\ M.cur = L.cur /\ M.crow = [L.crow EXCEPT ![o] = TRUE]
        /\ M.crows = [L.crows EXCEPT ![L.cur] = Append(L.crows[L.cur], o)]
    BY <2>1 DEF Lists
  <2>3. Crow(L, o) = M
    BY <1>2 DEF Crow
  <2> HIDE DEF M
  <2> QED
    BY <1>2, <2>2, <2>3 DEF SameLists, Crowed
<1> QED
  BY <1>1, <1>2

\* Activation and sleep move the object; MakeMeCrow comes last.
LEMMA ActivateType ==
    ASSUME NEW L \in Lists, NEW o \in Objects
    PROVE  processing_activate(L, o) \in Lists
<1> DEFINE n == (L.counter[o] + 1) % (MaxActive + 1)
           C == [L EXCEPT !.counter[o] = n]
           D == [C EXCEPT !.sleeping = RemoveFirst(@, o), !.active = Append(@, o)]
<1>1. L.counter[o] \in 0 .. MaxActive /\ MaxActive \in Nat
  BY FieldTypes, ObjectListAssumption
<1>2. n \in 0 .. MaxActive
  <2>1. n = IF L.counter[o] = MaxActive THEN 0 ELSE L.counter[o] + 1
    BY <1>1, Wraps
  <2> QED
    BY <1>1, <2>1
<1> HIDE DEF n
<1>3. C \in Lists
  BY <1>2 DEF Lists
<1>4. processing_activate(L, o) = IF FirstRequest(n) THEN o_activate(C, o) ELSE C
  BY DEF processing_activate, n
<1> HIDE DEF C
<1>5. RemoveFirst(C.sleeping, o) \in Seq(Objects) /\ Append(C.active, o) \in Seq(Objects)
  BY <1>3, FieldTypes, RemoveFirstType, AppendType
<1>6. D \in Lists
  BY <1>3, <1>5 DEF Lists
<1>7. o_activate(C, o) = Crow(D, o)
  BY DEF o_activate
<1> HIDE DEF D
<1> QED
  BY <1>3, <1>4, <1>6, <1>7, MakeCrow

LEMMA DeactivateType ==
    ASSUME NEW L \in Lists, NEW o \in Objects
    PROVE  processing_deactivate(L, o) \in Lists
<1> DEFINE n == (L.counter[o] - 1) % (MaxActive + 1)
           C == [L EXCEPT !.counter[o] = n]
           D == [C EXCEPT !.active = RemoveFirst(@, o), !.sleeping = Append(@, o)]
<1>1. L.counter[o] \in 0 .. MaxActive /\ MaxActive \in Nat
  BY FieldTypes, ObjectListAssumption
<1>2. n \in 0 .. MaxActive
  <2>1. n = IF L.counter[o] = 0 THEN MaxActive ELSE L.counter[o] - 1
    BY <1>1, Wraps
  <2> QED
    BY <1>1, <2>1
<1> HIDE DEF n
<1>3. C \in Lists
  BY <1>2 DEF Lists
<1>4. processing_deactivate(L, o) = IF n = 0 THEN o_sleep(C, o) ELSE C
  BY DEF processing_deactivate, n
<1> HIDE DEF C
<1>5. RemoveFirst(C.active, o) \in Seq(Objects) /\ Append(C.sleeping, o) \in Seq(Objects)
  BY <1>3, FieldTypes, RemoveFirstType, AppendType
<1>6. D \in Lists
  BY <1>3, <1>5 DEF Lists
<1>7. o_sleep(C, o) = Crow(D, o)
  BY DEF o_sleep
<1> HIDE DEF D
<1> QED
  BY <1>3, <1>4, <1>6, <1>7, MakeCrow

\* k requests more: the lists hold the same objects and still agree with the counters.
Asked(L, M, o, k) ==
    /\ M \in Lists /\ Sorted(M) /\ Held(M) = Held(L)
    /\ M.counter = [L.counter EXCEPT ![o] = L.counter[o] + k]
    /\ Crowed(L, M, o)

LEMMA SortedFacts ==
    ASSUME NEW L \in Lists, Sorted(L), NEW o \in Objects
    PROVE  /\ L.counter[o] \in 0 .. MaxActive
           /\ o \in Range(L.active) => o \notin Range(L.sleeping) /\ L.counter[o] > 0
           /\ o \in Range(L.sleeping) => o \notin Range(L.active) /\ L.counter[o] = 0
           /\ o \in Held(L) => (o \in Range(L.active) <=> L.counter[o] > 0)
           /\ Held(L) \subseteq Objects
<1>1. L.counter[o] \in 0 .. MaxActive /\ MaxActive \in Nat
  BY FieldTypes, ObjectListAssumption
<1>2. /\ o \in Range(L.active) => L.counter[o] > 0
      /\ o \in Range(L.sleeping) => L.counter[o] = 0
  BY DEF Sorted
<1>3. Range(L.active) \subseteq Objects /\ Range(L.sleeping) \subseteq Objects
  BY FieldTypes, RangeIs
<1> QED
  BY <1>1, <1>2, <1>3 DEF Held

LEMMA ActivateStep ==
    ASSUME NEW L \in Lists, Sorted(L), NEW o \in Held(L), L.counter[o] < MaxActive
    PROVE  Asked(L, processing_activate(L, o), o, 1)
<1> DEFINE n == L.counter[o] + 1
           C == [L EXCEPT !.counter[o] = n]
           D == [C EXCEPT !.sleeping = RemoveFirst(@, o), !.active = Append(@, o)]
<1>1. /\ o \in Objects /\ L.counter[o] \in 0 .. MaxActive /\ MaxActive \in Nat
      /\ L.counter \in [Objects -> 0 .. MaxActive]
  <2>1. o \in Objects
    BY FieldTypes, RangeIs DEF Held
  <2> QED
    BY <2>1, FieldTypes, ObjectListAssumption
<1>2. n \in 1 .. MaxActive
  BY <1>1
<1>3. processing_activate(L, o) = IF n = 1 THEN o_activate(C, o) ELSE C
  <2>1. (L.counter[o] + 1) % (MaxActive + 1) = n
    BY <1>1, Wraps
  <2> QED
    BY <2>1 DEF processing_activate, FirstRequest
<1> HIDE DEF n
<1>4. /\ C \in Lists /\ C.active = L.active /\ C.sleeping = L.sleeping
      /\ C.counter = [L.counter EXCEPT ![o] = n]
      /\ C.cur = L.cur /\ C.crow = L.crow /\ C.crows = L.crows
  <2>1. n \in 0 .. MaxActive
    BY <1>1, <1>2
  <2>2. C \in Lists
    BY <1>1, <2>1 DEF Lists
  <2> QED
    BY <2>2 DEF Lists
<1> HIDE DEF C
<1>5. C.counter[o] = n /\ \A q \in Objects : q # o => C.counter[q] = L.counter[q]
  BY <1>1, <1>4
<1>6. CASE n # 1
  <2>1. o \in Range(L.active) /\ o \notin Range(L.sleeping)
    <3>1. L.counter[o] > 0
      BY <1>1, <1>6 DEF n
    <3> QED
      BY <1>1, <3>1, SortedFacts
  <2>2. Range(L.active) \subseteq Objects /\ Range(L.sleeping) \subseteq Objects
    BY FieldTypes, RangeIs
  <2>3. Sorted(C)
    <3>1. \A q \in Range(C.active) : C.counter[q] > 0
      BY <1>2, <1>4, <1>5, <2>2 DEF Sorted
    <3>2. \A q \in Range(C.sleeping) : C.counter[q] = 0
      BY <1>4, <1>5, <2>1, <2>2 DEF Sorted
    <3> QED
      BY <1>4, <3>1, <3>2 DEF Sorted
  <2>4. Held(C) = Held(L) /\ Crowed(L, C, o)
    BY <1>4 DEF Held, Crowed
  <2> QED
    BY <1>3, <1>4, <1>6, <2>3, <2>4 DEF Asked, n
<1>7. CASE n = 1
  <2>1. o \in Range(L.sleeping) /\ o \notin Range(L.active)
    <3>1. L.counter[o] = 0
      BY <1>1, <1>7 DEF n
    <3> QED
      BY <1>1, <3>1, SortedFacts DEF Held
  <2>2. Range(L.active) \subseteq Objects /\ Range(L.sleeping) \subseteq Objects
    BY FieldTypes, RangeIs
  <2>3. /\ D \in Lists /\ D.active = Append(L.active, o) /\ D.sleeping = RemoveFirst(L.sleeping, o)
        /\ D.counter = C.counter /\ D.cur = L.cur /\ D.crow = L.crow /\ D.crows = L.crows
    <3>1. RemoveFirst(C.sleeping, o) \in Seq(Objects) /\ Append(C.active, o) \in Seq(Objects)
      BY <1>1, <1>4, FieldTypes, RemoveFirstType, AppendType
    <3> QED
      BY <1>4, <3>1 DEF Lists
  <2> HIDE DEF D
  <2>4. /\ Range(D.active) = Range(L.active) \cup {o} /\ IsInjective(D.active)
        /\ Range(D.sleeping) = Range(L.sleeping) \ {o} /\ IsInjective(D.sleeping)
    <3>1. L.active \in Seq(Objects) /\ L.sleeping \in Seq(Objects)
      BY FieldTypes
    <3>2. IsInjective(L.active) /\ IsInjective(L.sleeping)
      BY DEF Sorted
    <3>3. Range(Append(L.active, o)) = Range(L.active) \cup {o} /\ IsInjective(Append(L.active, o))
      BY <1>1, <2>1, <3>1, <3>2, DistinctAppend
    <3>4. /\ Range(RemoveFirst(L.sleeping, o)) = Range(L.sleeping) \ {o}
          /\ IsInjective(RemoveFirst(L.sleeping, o))
      BY <3>1, <3>2, RemoveFirstFacts
    <3> QED
      BY <2>3, <3>3, <3>4
  <2>5. Sorted(D)
    <3>1. \A q \in Range(D.active) : D.counter[q] > 0
      BY <1>5, <1>7, <2>2, <2>3, <2>4 DEF Sorted
    <3>2. \A q \in Range(D.sleeping) : D.counter[q] = 0
      BY <1>5, <2>2, <2>3, <2>4 DEF Sorted
    <3> QED
      BY <2>4, <3>1, <3>2 DEF Sorted
  <2>6. Held(D) = Held(L)
    BY <2>1, <2>4 DEF Held
  <2> DEFINE M == Crow(D, o)
  <2>7. M \in Lists /\ SameLists(D, M) /\ Crowed(D, M, o)
    BY <1>1, <2>3, MakeCrow
  <2>8. processing_activate(L, o) = M
    BY <1>3, <1>7 DEF o_activate, D
  <2> HIDE DEF M
  <2>9. Sorted(M) /\ Held(M) = Held(L)
    BY <2>5, <2>6, <2>7 DEF SameLists, Sorted, Held
  <2>10. Crowed(L, M, o)
    BY <2>3, <2>7 DEF Crowed
  <2>11. M.counter = [L.counter EXCEPT ![o] = L.counter[o] + 1]
    BY <1>4, <2>3, <2>7 DEF SameLists, n
  <2> QED
    BY <2>7, <2>8, <2>9, <2>10, <2>11 DEF Asked
<1> QED
  BY <1>6, <1>7

LEMMA DeactivateStep ==
    ASSUME NEW L \in Lists, Sorted(L), NEW o \in Held(L), L.counter[o] > 0
    PROVE  Asked(L, processing_deactivate(L, o), o, -1)
<1> DEFINE n == L.counter[o] - 1
           C == [L EXCEPT !.counter[o] = n]
           D == [C EXCEPT !.active = RemoveFirst(@, o), !.sleeping = Append(@, o)]
<1>1. /\ o \in Objects /\ L.counter[o] \in 0 .. MaxActive /\ MaxActive \in Nat
      /\ L.counter \in [Objects -> 0 .. MaxActive]
  <2>1. o \in Objects
    BY FieldTypes, RangeIs DEF Held
  <2> QED
    BY <2>1, FieldTypes, ObjectListAssumption
<1>2. n \in 0 .. MaxActive - 1
  BY <1>1
<1>3. processing_deactivate(L, o) = IF n = 0 THEN o_sleep(C, o) ELSE C
  <2>1. (L.counter[o] - 1) % (MaxActive + 1) = n
    BY <1>1, Wraps
  <2> QED
    BY <2>1 DEF processing_deactivate
<1> HIDE DEF n
<1>4. /\ C \in Lists /\ C.active = L.active /\ C.sleeping = L.sleeping
      /\ C.counter = [L.counter EXCEPT ![o] = n]
      /\ C.cur = L.cur /\ C.crow = L.crow /\ C.crows = L.crows
  <2>1. n \in 0 .. MaxActive
    BY <1>1, <1>2
  <2>2. C \in Lists
    BY <1>1, <2>1 DEF Lists
  <2> QED
    BY <2>2 DEF Lists
<1> HIDE DEF C
<1>5. C.counter[o] = n /\ \A q \in Objects : q # o => C.counter[q] = L.counter[q]
  BY <1>1, <1>4
<1>6. CASE n # 0
  <2>1. o \in Range(L.active) /\ o \notin Range(L.sleeping)
    <3>1. L.counter[o] > 0
      OBVIOUS
    <3> QED
      BY <1>1, <3>1, SortedFacts
  <2>2. Range(L.active) \subseteq Objects /\ Range(L.sleeping) \subseteq Objects
    BY FieldTypes, RangeIs
  <2>3. Sorted(C)
    <3>1. \A q \in Range(C.active) : C.counter[q] > 0
      BY <1>2, <1>4, <1>5, <1>6, <2>2 DEF Sorted
    <3>2. \A q \in Range(C.sleeping) : C.counter[q] = 0
      BY <1>4, <1>5, <2>1, <2>2 DEF Sorted
    <3> QED
      BY <1>4, <3>1, <3>2 DEF Sorted
  <2>4. Held(C) = Held(L) /\ Crowed(L, C, o)
    BY <1>4 DEF Held, Crowed
  <2> QED
    BY <1>3, <1>4, <1>6, <2>3, <2>4 DEF Asked, n
<1>7. CASE n = 0
  <2>1. o \in Range(L.active) /\ o \notin Range(L.sleeping)
    <3>1. L.counter[o] > 0
      OBVIOUS
    <3> QED
      BY <1>1, <3>1, SortedFacts DEF Held
  <2>2. Range(L.active) \subseteq Objects /\ Range(L.sleeping) \subseteq Objects
    BY FieldTypes, RangeIs
  <2>3. /\ D \in Lists /\ D.sleeping = Append(L.sleeping, o) /\ D.active = RemoveFirst(L.active, o)
        /\ D.counter = C.counter /\ D.cur = L.cur /\ D.crow = L.crow /\ D.crows = L.crows
    <3>1. RemoveFirst(C.active, o) \in Seq(Objects) /\ Append(C.sleeping, o) \in Seq(Objects)
      BY <1>1, <1>4, FieldTypes, RemoveFirstType, AppendType
    <3> QED
      BY <1>4, <3>1 DEF Lists
  <2> HIDE DEF D
  <2>4. /\ Range(D.sleeping) = Range(L.sleeping) \cup {o} /\ IsInjective(D.sleeping)
        /\ Range(D.active) = Range(L.active) \ {o} /\ IsInjective(D.active)
    <3>1. L.active \in Seq(Objects) /\ L.sleeping \in Seq(Objects)
      BY FieldTypes
    <3>2. IsInjective(L.active) /\ IsInjective(L.sleeping)
      BY DEF Sorted
    <3>3. Range(Append(L.sleeping, o)) = Range(L.sleeping) \cup {o} /\ IsInjective(Append(L.sleeping, o))
      BY <1>1, <2>1, <3>1, <3>2, DistinctAppend
    <3>4. /\ Range(RemoveFirst(L.active, o)) = Range(L.active) \ {o}
          /\ IsInjective(RemoveFirst(L.active, o))
      BY <3>1, <3>2, RemoveFirstFacts
    <3> QED
      BY <2>3, <3>3, <3>4
  <2>5. Sorted(D)
    <3>1. \A q \in Range(D.active) : D.counter[q] > 0
      BY <1>5, <2>2, <2>3, <2>4 DEF Sorted
    <3>2. \A q \in Range(D.sleeping) : D.counter[q] = 0
      BY <1>5, <1>7, <2>2, <2>3, <2>4 DEF Sorted
    <3> QED
      BY <2>4, <3>1, <3>2 DEF Sorted
  <2>6. Held(D) = Held(L)
    BY <2>1, <2>4 DEF Held
  <2> DEFINE M == Crow(D, o)
  <2>7. M \in Lists /\ SameLists(D, M) /\ Crowed(D, M, o)
    BY <1>1, <2>3, MakeCrow
  <2>8. processing_deactivate(L, o) = M
    BY <1>3, <1>7 DEF o_sleep, D
  <2> HIDE DEF M
  <2>9. Sorted(M) /\ Held(M) = Held(L)
    BY <2>5, <2>6, <2>7 DEF SameLists, Sorted, Held
  <2>10. Crowed(L, M, o)
    BY <2>3, <2>7 DEF Crowed
  <2>11. M.counter = [L.counter EXCEPT ![o] = L.counter[o] + (-1)]
    BY <1>4, <2>3, <2>7 DEF SameLists, n
  <2> QED
    BY <2>7, <2>8, <2>9, <2>10, <2>11 DEF Asked
<1> QED
  BY <1>6, <1>7

LEMMA NothingAsked ==
    ASSUME NEW L \in Lists, Sorted(L), NEW o \in Objects
    PROVE  Asked(L, L, o, 0)
<1>1. L.counter = [L.counter EXCEPT ![o] = L.counter[o] + 0]
  <2>1. L.counter \in [Objects -> 0 .. MaxActive] /\ MaxActive \in Nat
    BY FieldTypes, ObjectListAssumption
  <2>2. L.counter[o] + 0 = L.counter[o]
    BY <2>1
  <2> QED
    BY <2>1, <2>2
<1> QED
  BY <1>1 DEF Asked, Crowed

LEMMA CrowAsked ==
    ASSUME NEW L \in Lists, Sorted(L), NEW o \in Objects
    PROVE  Asked(L, Crow(L, o), o, 0)
<1> DEFINE M == Crow(L, o)
<1>1. M \in Lists /\ SameLists(L, M) /\ Crowed(L, M, o)
  BY MakeCrow
<1> HIDE DEF M
<1>2. Sorted(M) /\ Held(M) = Held(L)
  BY <1>1 DEF SameLists, Sorted, Held
<1>3. M.counter = [L.counter EXCEPT ![o] = L.counter[o] + 0]
  BY <1>1, FieldTypes DEF SameLists
<1> QED
  BY <1>1, <1>2, <1>3 DEF Asked, M

LEMMA CrowedTwice ==
    ASSUME NEW L \in Lists, NEW M \in Lists, NEW N \in Lists, NEW o \in Objects,
           Crowed(L, M, o), Crowed(M, N, o)
    PROVE  Crowed(L, N, o)
<1>1. N.cur = L.cur
  BY DEF Crowed
<1>2. CASE M.crow = L.crow /\ M.crows = L.crows
  BY <1>1, <1>2 DEF Crowed
<1>3. CASE /\ ~L.crow[o] /\ M.crow = [L.crow EXCEPT ![o] = TRUE]
           /\ M.crows = [L.crows EXCEPT ![L.cur] = Append(L.crows[L.cur], o)]
  <2>1. M.crow[o]
    BY <1>3, FieldTypes
  <2>2. N.crow = M.crow /\ N.crows = M.crows
    BY <2>1 DEF Crowed
  <2> QED
    BY <1>1, <1>3, <2>2 DEF Crowed
<1> QED
  BY <1>2, <1>3 DEF Crowed

LEMMA AskedTwice ==
    ASSUME NEW L \in Lists, NEW M \in Lists, NEW N, NEW o \in Objects,
           NEW j \in Int, NEW k \in Int, Asked(L, M, o, j), Asked(M, N, o, k)
    PROVE  Asked(L, N, o, j + k)
<1>1. N \in Lists /\ Sorted(N) /\ Held(N) = Held(L)
  BY DEF Asked
<1>2. Crowed(L, N, o)
  BY <1>1, CrowedTwice DEF Asked
<1>3. N.counter = [L.counter EXCEPT ![o] = L.counter[o] + (j + k)]
  <2>1. /\ M.counter = [L.counter EXCEPT ![o] = L.counter[o] + j]
        /\ N.counter = [M.counter EXCEPT ![o] = M.counter[o] + k]
    BY DEF Asked
  <2>2. L.counter \in [Objects -> 0 .. MaxActive] /\ MaxActive \in Nat
    BY FieldTypes, ObjectListAssumption
  <2> QED
    BY <2>1, <2>2
<1> QED
  BY <1>1, <1>2, <1>3 DEF Asked

-----------------------------------------------------------------------------
(* Type correctness.                                                       *)

\* A push under way: the object, and once it is flagged where it goes.
Shape ==
    \A t \in Threads : /\ Len(crowing[t]) \in 0 .. 2
                       /\ crowing[t] # Idle => crowing[t][1] \in Objects
                       /\ Len(crowing[t]) = 2 => crowing[t][2] \in Nat

LEMMA RequestTypes ==
    ASSUME NEW L \in Lists, NEW o \in Objects
    PROVE  /\ \A b : ShellWoken(L, o, b) \in Lists /\ ShellDeactivated(L, o, b) \in Lists
           /\ \A p : Placed(L, o, p) \in Lists
           /\ \A p, q : LeftPlace(L, o, p, q) \in Lists
           /\ Crow(L, o) \in Lists /\ Settled(L, o) \in Lists
           /\ \A near : Nearby(L, o, near) \in Lists
           /\ Destroyed(L, o) \in Lists
<1>1. /\ processing_activate(L, o) \in Lists /\ processing_deactivate(L, o) \in Lists
      /\ Crow(L, o) \in Lists
  BY ActivateType, DeactivateType, MakeCrow
<1>2. Destroyed(L, o) \in Lists
  <2>1. WithoutCrow(L, o) \in [0 .. 1 -> Seq(Objects)]
    <3>1. \A l \in 0 .. 1 : RemoveFirst(L.crows[l], o) \in Seq(Objects)
      BY FieldTypes, RemoveFirstType
    <3> QED
      BY <3>1 DEF WithoutCrow
  <2>2. RemoveFirst(L.active, o) \in Seq(Objects) /\ RemoveFirst(L.sleeping, o) \in Seq(Objects)
    BY FieldTypes, RemoveFirstType
  <2> DEFINE w == WithoutCrow(L, o)
             a == RemoveFirst(L.active, o)
             s == IF Contains(L.active, o) THEN L.sleeping ELSE RemoveFirst(L.sleeping, o)
  <2>3. w \in [0 .. 1 -> Seq(Objects)] /\ a \in Seq(Objects) /\ s \in Seq(Objects)
    BY <2>1, <2>2, FieldTypes
  <2>4. Destroyed(L, o) = [L EXCEPT !.crows = w, !.active = a, !.sleeping = s]
    BY DEF Destroyed
  <2> HIDE DEF w, a, s
  <2> QED
    BY <2>3, <2>4 DEF Lists
<1> QED
  BY <1>1, <1>2 DEF ShellWoken, ShellDeactivated, Placed, LeftPlace, Settled, Nearby

LEMMA ConstantTypes ==
    /\ Owners \subseteq Objects /\ Items \subseteq Objects /\ Shells \subseteq Objects
    /\ Drivers \subseteq Objects /\ Cars \subseteq Objects /\ Zones \subseteq Objects
    /\ NULL \notin Objects
  BY ObjectListAssumption

LEMMA LiveTypes ==
    ASSUME TypeOK
    PROVE  /\ Live \subseteq Objects
           /\ list.active \in Seq(Objects) /\ list.sleeping \in Seq(Objects)
           /\ Range(list.active) \subseteq Objects /\ Range(list.sleeping) \subseteq Objects
<1>1. list.active \in Seq(Objects) /\ list.sleeping \in Seq(Objects)
  BY FieldTypes DEF TypeOK
<1> QED
  BY <1>1, RangeIs DEF Live, Held

LEMMA Ends ==
    ASSUME NEW S, NEW s \in Seq(S), s # <<>>
    PROVE  /\ Head(s) \in S /\ Tail(s) \in Seq(S)
           /\ Last(s) \in S /\ Front(s) \in Seq(S)
           /\ Len(s) \in Nat \ {0} /\ Last(s) = s[Len(s)]
           /\ Len(Front(s)) = Len(s) - 1 /\ \A i \in 1 .. Len(s) - 1 : Front(s)[i] = s[i]
<1>1. Len(s) \in Nat \ {0} /\ \A i \in 1 .. Len(s) : s[i] \in S
  OBVIOUS
<1>2. Head(s) \in S /\ Tail(s) \in Seq(S)
  OBVIOUS
<1>3. Last(s) \in S /\ Last(s) = s[Len(s)]
  BY <1>1 DEF Last
<1>4. /\ Front(s) \in Seq(S) /\ Len(Front(s)) = Len(s) - 1
      /\ \A i \in 1 .. Len(s) - 1 : Front(s)[i] = s[i]
  <2> DEFINE n == Len(s) - 1
  <2>1. n \in Nat /\ \A i \in 1 .. n : s[i] \in S
    BY <1>1
  <2> HIDE DEF n
  <2>2. /\ SubSeq(s, 1, n) \in Seq(S) /\ Len(SubSeq(s, 1, n)) = n
        /\ \A i \in 1 .. n : SubSeq(s, 1, n)[i] = s[i]
    BY <2>1
  <2> QED
    BY <2>2 DEF Front, n
<1> QED
  BY <1>1, <1>2, <1>3, <1>4

-----------------------------------------------------------------------------
(* The destroy queue.                                                      *)

\* InOrder's function exists: n steps of it do, for every n.
LEMMA InOrderExists ==
    ASSUME NEW X, NEW s \in Seq(X), NEW S
    PROVE  \E f : f = [n \in 0 .. Len(s) |->
                          IF n = 0 THEN <<>>
                          ELSE IF s[n] \in S THEN Append(f[n - 1], s[n]) ELSE f[n - 1]]
<1> DEFINE Step(f, n) == IF s[n] \in S THEN Append(f[n - 1], s[n]) ELSE f[n - 1]
           Upto(f, n) == /\ f \in [0 .. n -> Seq(X)]
                         /\ f[0] = <<>>
                         /\ \A i \in 1 .. n : f[i] = Step(f, i)
           T == {n \in Nat : n <= Len(s) => \E f : Upto(f, n)}
<1> HIDE DEF Upto
<1>1. Len(s) \in Nat /\ \A i \in 1 .. Len(s) : s[i] \in X
  OBVIOUS
<1>2. 0 \in T
  <2>1. Upto([i \in 0 .. 0 |-> <<>>], 0)
    BY DEF Upto
  <2> QED
    BY <2>1
<1>3. ASSUME NEW n \in Nat, n \in T
      PROVE  n + 1 \in T
  <2>1. CASE ~(n + 1 <= Len(s))
    BY <2>1
  <2>2. CASE n + 1 <= Len(s)
    <3>1. PICK f : Upto(f, n)
      BY <1>1, <1>3, <2>2
    <3> DEFINE e == IF s[n + 1] \in S THEN Append(f[n], s[n + 1]) ELSE f[n]
               g == [i \in 0 .. n + 1 |-> IF i = n + 1 THEN e ELSE f[i]]
    <3>2. s[n + 1] \in X /\ f[n] \in Seq(X)
      BY <1>1, <2>2, <3>1 DEF Upto
    <3>3. e \in Seq(X)
      BY <3>2
    <3> HIDE DEF e
    <3>4. g \in [0 .. n + 1 -> Seq(X)] /\ g[0] = <<>> /\ g[n + 1] = e
          /\ \A i \in 0 .. n : g[i] = f[i]
      BY <3>1, <3>3 DEF Upto
    <3> HIDE DEF g
    <3>5. g[n + 1] = Step(g, n + 1)
      BY <3>4 DEF e
    <3>6. ASSUME NEW i \in 1 .. n
          PROVE  g[i] = Step(g, i)
      <4>1. f[i] = Step(f, i) /\ g[i] = f[i] /\ g[i - 1] = f[i - 1]
        BY <3>1, <3>4 DEF Upto
      <4> QED
        BY <4>1
    <3>7. \A i \in 1 .. n + 1 : g[i] = Step(g, i)
      <4>1. \A i \in 1 .. n + 1 : i = n + 1 \/ i \in 1 .. n
        OBVIOUS
      <4> QED
        BY <3>5, <3>6, <4>1
    <3>8. Upto(g, n + 1)
      BY <3>4, <3>7 DEF Upto
    <3> QED
      BY <3>8
  <2> QED
    BY <2>1, <2>2
<1>4. Nat \subseteq T
  <2> HIDE DEF T
  <2> QED
    BY <1>2, <1>3, NaturalInduction
<1>5. PICK f : Upto(f, Len(s))
  BY <1>1, <1>4
<1>6. f = [n \in 0 .. Len(s) |-> IF n = 0 THEN <<>> ELSE Step(f, n)]
  <2> DEFINE g == [n \in 0 .. Len(s) |-> IF n = 0 THEN <<>> ELSE Step(f, n)]
  <2>1. \A n \in 0 .. Len(s) : f[n] = g[n]
    <3>1. f[0] = <<>> /\ \A n \in 1 .. Len(s) : f[n] = Step(f, n)
      BY <1>5 DEF Upto
    <3>2. \A n \in 0 .. Len(s) : n = 0 \/ n \in 1 .. Len(s)
      BY <1>1
    <3> HIDE DEF Step
    <3> QED
      BY <3>1, <3>2
  <2>2. DOMAIN f = 0 .. Len(s) /\ DOMAIN g = 0 .. Len(s) /\ f = [n \in 0 .. Len(s) |-> f[n]]
    BY <1>5 DEF Upto
  <2>3. g = [n \in 0 .. Len(s) |-> g[n]]
    OBVIOUS
  <2> QED
    BY <2>1, <2>2, <2>3
<1> QED
  BY <1>6

LEMMA InOrderFacts ==
    ASSUME NEW X, NEW s \in Seq(X), NEW S
    PROVE  /\ InOrder(s, S) \in Seq(X)
           /\ Range(InOrder(s, S)) = Range(s) \cap S
           /\ IsInjective(s) => IsInjective(InOrder(s, S))
<1> DEFINE Is(f) == f = [n \in 0 .. Len(s) |->
                            IF n = 0 THEN <<>>
                            ELSE IF s[n] \in S THEN Append(f[n - 1], s[n]) ELSE f[n - 1]]
           q == CHOOSE f : Is(f)
<1>1. Len(s) \in Nat /\ (\A i \in 1 .. Len(s) : s[i] \in X) /\ DOMAIN s = 1 .. Len(s)
  OBVIOUS
<1>2. Is(q)
  <2>1. \E f : Is(f)
    BY InOrderExists, ZenonT(30)
  <2> HIDE DEF Is
  <2> QED
    BY <2>1
<1>3. InOrder(s, S) = q[Len(s)]
  BY DEF InOrder
<1>4. /\ q[0] = <<>>
      /\ \A n \in 1 .. Len(s) : q[n] = IF s[n] \in S THEN Append(q[n - 1], s[n]) ELSE q[n - 1]
  <2> DEFINE e(n) == IF n = 0 THEN <<>>
                     ELSE IF s[n] \in S THEN Append(q[n - 1], s[n]) ELSE q[n - 1]
  <2> HIDE DEF q
  <2>1. q = [n \in 0 .. Len(s) |-> e(n)]
    BY <1>2
  <2> HIDE DEF e
  <2>2. \A n \in 0 .. Len(s) : q[n] = e(n)
    BY <2>1
  <2>3. 0 \in 0 .. Len(s) /\ \A n \in 1 .. Len(s) : n \in 0 .. Len(s) /\ n # 0
    BY <1>1
  <2> QED
    BY <2>2, <2>3 DEF e
<1> HIDE DEF q, Is
<1> DEFINE First(n) == {s[i] : i \in 1 .. n} \cap S
           Good(n) == /\ q[n] \in Seq(X) /\ Range(q[n]) = First(n)
                      /\ IsInjective(s) => IsInjective(q[n])
           T == {n \in Nat : n <= Len(s) => Good(n)}
<1>5. 0 \in T
  <2>1. First(0) = {}
    OBVIOUS
  <2>2. Good(0)
    BY <1>4, <2>1, DistinctEmpty
  <2> QED
    BY <2>2
<1>6. ASSUME NEW n \in Nat, n \in T
      PROVE  n + 1 \in T
  <2> SUFFICES ASSUME n + 1 <= Len(s) PROVE Good(n + 1)
    OBVIOUS
  <2>1. n + 1 \in 1 .. Len(s) /\ n + 1 - 1 = n /\ n <= Len(s)
    BY <1>1
  <2>2. Good(n)
    BY <1>6, <2>1
  <2>3. q[n + 1] = IF s[n + 1] \in S THEN Append(q[n], s[n + 1]) ELSE q[n]
    BY <1>4, <2>1
  <2>4. s[n + 1] \in X
    BY <1>1, <2>1
  <2>5. First(n + 1) = IF s[n + 1] \in S THEN First(n) \cup {s[n + 1]} ELSE First(n)
    <3>1. 1 .. n + 1 = 1 .. n \cup {n + 1}
      OBVIOUS
    <3> QED
      BY <3>1
  <2>6. CASE s[n + 1] \in S
    <3>1. q[n + 1] = Append(q[n], s[n + 1])
      BY <2>3, <2>6
    <3>2. q[n + 1] \in Seq(X) /\ Range(q[n + 1]) = First(n + 1)
      <4> HIDE DEF First
      <4>1. Range(Append(q[n], s[n + 1])) = Range(q[n]) \cup {s[n + 1]}
            /\ Append(q[n], s[n + 1]) \in Seq(X)
        BY <2>2, <2>4, AppendType
      <4> QED
        BY <2>2, <2>5, <2>6, <3>1, <4>1
    <3>3. ASSUME IsInjective(s)
          PROVE  IsInjective(q[n + 1])
      <4>1. \A i \in 1 .. n : s[i] # s[n + 1]
        BY <1>1, <2>1, <3>3 DEF IsInjective
      <4>2. s[n + 1] \notin First(n)
        BY <4>1
      <4> HIDE DEF First
      <4>3. s[n + 1] \notin Range(q[n]) /\ IsInjective(q[n]) /\ q[n] \in Seq(X)
        BY <2>2, <3>3, <4>2
      <4> QED
        BY <2>4, <3>1, <4>3, DistinctAppend
    <3> QED
      BY <3>2, <3>3
  <2>7. CASE s[n + 1] \notin S
    <3> HIDE DEF First
    <3> QED
      BY <2>2, <2>3, <2>5, <2>7
  <2> QED
    BY <2>6, <2>7
<1>7. Nat \subseteq T
  <2> HIDE DEF T
  <2> QED
    BY <1>5, <1>6, NaturalInduction
<1>8. Good(Len(s))
  <2> HIDE DEF Good
  <2> QED
    BY <1>1, <1>7
<1>9. First(Len(s)) = Range(s) \cap S
  BY <1>1 DEF Range
<1> QED
  BY <1>3, <1>8, <1>9

LEMMA ConcatRange ==
    ASSUME NEW X, NEW s \in Seq(X), NEW u \in Seq(X)
    PROVE  /\ s \o u \in Seq(X)
           /\ Range(s \o u) = Range(s) \cup Range(u)
           /\ IsInjective(s) /\ IsInjective(u) /\ Range(s) \cap Range(u) = {} => IsInjective(s \o u)
<1> DEFINE w == s \o u
<1>1. /\ Len(s) \in Nat /\ DOMAIN s = 1 .. Len(s)
      /\ Len(u) \in Nat /\ DOMAIN u = 1 .. Len(u)
  OBVIOUS
<1>2. /\ w \in Seq(X) /\ Len(w) = Len(s) + Len(u)
      /\ \A i \in 1 .. Len(s) : w[i] = s[i]
      /\ \A i \in 1 .. Len(u) : w[Len(s) + i] = u[i]
  <2>1. /\ w \in Seq(X) /\ Len(w) = Len(s) + Len(u)
        /\ \A i \in 1 .. Len(s) + Len(u) : w[i] = IF i <= Len(s) THEN s[i] ELSE u[i - Len(s)]
    BY ConcatProperties
  <2> HIDE DEF w
  <2>2. \A i \in 1 .. Len(s) : i \in 1 .. Len(s) + Len(u) /\ i <= Len(s)
    BY <1>1
  <2>3. \A i \in 1 .. Len(u) : /\ Len(s) + i \in 1 .. Len(s) + Len(u) /\ ~(Len(s) + i <= Len(s))
                              /\ Len(s) + i - Len(s) = i
    BY <1>1
  <2> QED
    BY <2>1, <2>2, <2>3
<1> HIDE DEF w
<1>3. DOMAIN w = 1 .. Len(s) + Len(u)
  BY <1>2
<1>4. \A i \in 1 .. Len(s) + Len(u) : i \in 1 .. Len(s) \/ \E j \in 1 .. Len(u) : i = Len(s) + j
  <2>1. ASSUME NEW i \in 1 .. Len(s) + Len(u), i \notin 1 .. Len(s)
        PROVE  i - Len(s) \in 1 .. Len(u) /\ i = Len(s) + (i - Len(s))
    BY <1>1, <2>1
  <2> QED
    BY <2>1
<1>5. Range(w) = Range(s) \cup Range(u)
  <2>1. Range(w) \subseteq Range(s) \cup Range(u)
    <3>1. ASSUME NEW i \in DOMAIN w
          PROVE  w[i] \in Range(s) \cup Range(u)
      <4>1. CASE i \in 1 .. Len(s)
        BY <1>1, <1>2, <4>1 DEF Range
      <4>2. ASSUME NEW j \in 1 .. Len(u), i = Len(s) + j
            PROVE  w[i] \in Range(u)
        BY <1>1, <1>2, <4>2 DEF Range
      <4> QED
        BY <1>3, <1>4, <4>1, <4>2
    <3> QED
      BY <3>1 DEF Range
  <2>2. Range(s) \subseteq Range(w)
    <3>1. \A i \in 1 .. Len(s) : i \in DOMAIN w
      BY <1>1, <1>3
    <3> QED
      BY <1>1, <1>2, <3>1 DEF Range
  <2>3. Range(u) \subseteq Range(w)
    <3>1. \A i \in 1 .. Len(u) : Len(s) + i \in DOMAIN w
      BY <1>1, <1>3
    <3> QED
      BY <1>1, <1>2, <3>1 DEF Range
  <2> QED
    BY <2>1, <2>2, <2>3
<1>6. ASSUME IsInjective(s), IsInjective(u), Range(s) \cap Range(u) = {}
      PROVE  IsInjective(w)
  <2>1. \A i \in 1 .. Len(s), j \in 1 .. Len(u) : s[i] # u[j]
    BY <1>1, <1>6 DEF Range
  <2>2. ASSUME NEW i \in DOMAIN w, NEW j \in DOMAIN w, w[i] = w[j]
        PROVE  i = j
    <3>1. CASE i \in 1 .. Len(s) /\ j \in 1 .. Len(s)
      BY <1>1, <1>2, <1>6, <2>2, <3>1 DEF IsInjective
    <3>2. ASSUME NEW a \in 1 .. Len(u), NEW b \in 1 .. Len(u), i = Len(s) + a, j = Len(s) + b
          PROVE  i = j
      <4>1. u[a] = u[b]
        BY <1>2, <2>2, <3>2
      <4> QED
        BY <1>1, <1>6, <3>2, <4>1 DEF IsInjective
    <3>3. ASSUME NEW a \in 1 .. Len(u), i \in 1 .. Len(s), j = Len(s) + a
          PROVE  FALSE
      BY <1>2, <2>1, <2>2, <3>3
    <3>4. ASSUME NEW a \in 1 .. Len(u), j \in 1 .. Len(s), i = Len(s) + a
          PROVE  FALSE
      BY <1>2, <2>1, <2>2, <3>4
    <3> QED
      BY <1>3, <1>4, <3>1, <3>2, <3>3, <3>4
  <2> QED
    BY <2>2 DEF IsInjective
<1> QED
  BY <1>2, <1>5, <1>6 DEF w

LEMMA RegisteredType ==
    ASSUME TypeOK, NEW o \in Objects
    PROVE  /\ Registered(o) \in Seq(Objects)
           /\ Range(Registered(o)) = {o} \cup {c \in Children(o) : ~getDestroy[c]}
           /\ Len(Registered(o)) >= 1 /\ Registered(o)[1] = o
<1> DEFINE all == list.active \o list.sleeping
           C == {c \in Children(o) : ~getDestroy[c]}
           u == InOrder(all, C)
<1>1. all \in Seq(Objects) /\ Range(all) = Live
  BY LiveTypes, ConcatRange DEF Live, Held
<1>2. u \in Seq(Objects) /\ Range(u) = Range(all) \cap C
  BY <1>1, InOrderFacts
<1>3. Range(all) \cap C = C
  BY <1>1 DEF Children
<1>4. <<o>> \in Seq(Objects) /\ Range(<<o>>) = {o} /\ Len(<<o>>) = 1 /\ <<o>>[1] = o
  <2>1. <<o>> \in Seq(Objects) /\ Len(<<o>>) = 1 /\ <<o>>[1] = o /\ DOMAIN <<o>> = {1}
    OBVIOUS
  <2> QED
    BY <2>1 DEF Range
<1>5. Registered(o) = <<o>> \o u
  BY DEF Registered
<1> HIDE DEF u, all
<1> DEFINE v == <<o>>
<1>6. v \in Seq(Objects) /\ Range(v) = {o} /\ Len(v) = 1 /\ v[1] = o /\ Registered(o) = v \o u
  BY <1>4, <1>5
<1> HIDE DEF v, C
<1>7. v \o u \in Seq(Objects) /\ Range(v \o u) = Range(v) \cup Range(u)
  BY <1>2, <1>6, ConcatRange
<1>8. Len(v \o u) >= 1 /\ (v \o u)[1] = v[1]
  <2>1. Len(v) \in Nat /\ Len(u) \in Nat
    BY <1>2, <1>6
  <2>2. /\ Len(v \o u) = Len(v) + Len(u)
        /\ \A i \in 1 .. Len(v) + Len(u) : (v \o u)[i] = IF i <= Len(v) THEN v[i] ELSE u[i - Len(v)]
    BY <1>2, <1>6, ConcatProperties
  <2>3. 1 \in 1 .. Len(v) + Len(u) /\ 1 <= Len(v)
    BY <1>6, <2>1
  <2> QED
    BY <1>6, <2>1, <2>2, <2>3
<1> QED
  BY <1>2, <1>3, <1>6, <1>7, <1>8 DEF C

-----------------------------------------------------------------------------
\* The values that a step gives to list and body.
LEMMA TypeObjects ==
    ASSUME TypeOK, NEW o \in Objects,
           \/ Spawn(o) \/ setDestroy(o) \/ shedule_Update(o) \/ Wake(o) \/ Rest(o) \/ Render(o)
    PROVE  TypeOK'
<1> USE DEF TypeOK, kept, loops, Stays
<1>1. CASE Spawn(o)
  <2> DEFINE L == [list EXCEPT !.sleeping = Append(@, o)]
  <2>1. L \in Lists
    <3>1. Append(list.sleeping, o) \in Seq(Objects)
      BY FieldTypes, AppendType
    <3> QED
      BY <3>1 DEF Lists
  <2>2. list' = processing_activate(L, o)
    BY <1>1 DEF Spawn
  <2> HIDE DEF L
  <2>3. list' \in Lists
    BY <2>1, <2>2, ActivateType
  <2>4. body' \in [Objects -> {"solid", "moving", "stopping", "still", "ruck", "belt", "slot"}]
    BY <1>1 DEF Spawn
  <2> QED
    BY <1>1, <2>3, <2>4 DEF Spawn
<1>2. CASE setDestroy(o)
  <2>1. destroy_queue' \in Seq(Objects)
    BY <1>2, RegisteredType DEF setDestroy, ToDestroy
  <2>2. getDestroy' \in [Objects -> BOOLEAN]
    BY <1>2 DEF setDestroy
  <2> QED
    BY <1>2, <2>1, <2>2 DEF setDestroy
<1>3. CASE shedule_Update(o)
  <2>1. list' \in Lists
    BY <1>3, RequestTypes DEF shedule_Update
  <2> QED
    BY <1>3, <2>1 DEF shedule_Update
<1>4. CASE Wake(o)
  <2> DEFINE M == ShellWoken(list, o, body[o])
  <2>1. M \in Lists
    BY RequestTypes
  <2>2. list' = [M EXCEPT !.crow = list.crow, !.crows = list.crows]
    BY <1>4 DEF Wake
  <2> HIDE DEF M
  <2>3. list' \in Lists
    BY <2>1, <2>2 DEF Lists
  <2>4. crowing' \in [Threads -> Seq(Objects \cup Nat)]
    <3>1. <<o>> \in Seq(Objects \cup Nat)
      OBVIOUS
    <3> QED
      BY <1>4, <3>1 DEF Wake
  <2>5. body' \in [Objects -> {"solid", "moving", "stopping", "still", "ruck", "belt", "slot"}]
    BY <1>4 DEF Wake
  <2> QED
    BY <1>4, <2>3, <2>4, <2>5 DEF Wake
<1>5. CASE Rest(o)
  <2>1. body' \in [Objects -> {"solid", "moving", "stopping", "still", "ruck", "belt", "slot"}]
    BY <1>5 DEF Rest
  <2> QED
    BY <1>5, <2>1 DEF Rest
<1>6. CASE Render(o)
  <2>1. crowing' \in [Threads -> Seq(Objects \cup Nat)]
    <3>1. <<o>> \in Seq(Objects \cup Nat)
      OBVIOUS
    <3> QED
      BY <1>6, <3>1 DEF Render
  <2> QED
    BY <1>6, <2>1 DEF Render
<1> QED
  BY <1>1, <1>2, <1>3, <1>4, <1>5, <1>6

LEMMA TypeInventory ==
    ASSUME TypeOK, NEW o \in Items, NEW place \in {"slot", "belt", "ruck"},
           \/ \E p \in Owners : Take(o, p, place)
           \/ Move(o, place)
           \/ \E b \in BOOLEAN : Reject(o, b)
    PROVE  TypeOK'
<1> USE DEF TypeOK, kept, loops, Stays
<1> o \in Objects
  BY ConstantTypes
<1>1. ASSUME NEW p \in Owners, Take(o, p, place)
      PROVE  TypeOK'
  <2> DEFINE A == ShellDeactivated(list, o, body[o])
             B == Crow(A, o)
             C == Placed(B, o, place)
  <2>1. A \in Lists
    BY RequestTypes
  <2>2. B \in Lists
    <3> HIDE DEF A
    <3> QED
      BY <2>1, RequestTypes
  <2>3. C \in Lists
    <3> HIDE DEF B
    <3> QED
      BY <2>2, RequestTypes
  <2>4. list' = processing_deactivate(C, o)
    BY <1>1 DEF Take
  <2> HIDE DEF C
  <2>5. list' \in Lists
    BY <2>3, <2>4, DeactivateType
  <2>6. /\ body' \in [Objects -> {"solid", "moving", "stopping", "still", "ruck", "belt", "slot"}]
        /\ Parent' \in [Objects -> Owners \cup {NULL}]
    BY <1>1 DEF Take
  <2> QED
    BY <1>1, <2>5, <2>6 DEF Take
<1>2. CASE Move(o, place)
  <2> DEFINE A == LeftPlace(list, o, body[o], place)
  <2>1. A \in Lists
    BY RequestTypes
  <2>2. list' = Placed(A, o, place)
    BY <1>2 DEF Move
  <2> HIDE DEF A
  <2>3. list' \in Lists
    BY <2>1, <2>2, RequestTypes
  <2>4. body' \in [Objects -> {"solid", "moving", "stopping", "still", "ruck", "belt", "slot"}]
    BY <1>2 DEF Move
  <2> QED
    BY <1>2, <2>3, <2>4 DEF Move
<1>3. ASSUME NEW b \in BOOLEAN, Reject(o, b)
      PROVE  TypeOK'
  <2> DEFINE A == processing_activate(list, o)
             B == IF body[o] = "ruck" THEN A ELSE processing_deactivate(A, o)
  <2>1. A \in Lists
    BY ActivateType
  <2>2. B \in Lists
    <3> HIDE DEF A
    <3> QED
      BY <2>1, DeactivateType
  <2>3. list' = Crow(B, o)
    BY <1>3 DEF Reject
  <2> HIDE DEF B
  <2>4. list' \in Lists
    BY <2>2, <2>3, RequestTypes
  <2>5. /\ body' \in [Objects -> {"solid", "moving", "stopping", "still", "ruck", "belt", "slot"}]
        /\ Parent' \in [Objects -> Owners \cup {NULL}]
    BY <1>3 DEF Reject
  <2> QED
    BY <1>3, <2>4, <2>5 DEF Reject
<1> QED
  BY <1>1, <1>2, <1>3

LEMMA TypeCars ==
    ASSUME TypeOK, NEW d \in Drivers,
           \/ \E c \in Cars : attach_Actor(d, c)
           \/ detach_Actor(d)
    PROVE  TypeOK'
<1> USE DEF TypeOK, kept, loops, Stays
<1>1. ASSUME NEW c \in Cars, attach_Actor(d, c)
      PROVE  TypeOK'
  <2> DEFINE A == ShellWoken(list, c, body[c])
  <2>1. c \in Objects
    BY ConstantTypes
  <2>2. A \in Lists
    BY <2>1, RequestTypes
  <2>3. list' = processing_activate(A, c)
    BY <1>1 DEF attach_Actor
  <2> HIDE DEF A
  <2>4. list' \in Lists
    BY <2>1, <2>2, <2>3, ActivateType
  <2>5. /\ body' \in [Objects -> {"solid", "moving", "stopping", "still", "ruck", "belt", "slot"}]
        /\ m_holder' \in [Drivers -> Cars \cup {NULL}] /\ m_owner' \in [Cars -> Drivers \cup {NULL}]
    BY <1>1, <2>1 DEF attach_Actor
  <2> QED
    BY <1>1, <2>4, <2>5 DEF attach_Actor
<1>2. CASE detach_Actor(d)
  <2>1. m_holder[d] \in Cars /\ m_holder[d] \in Objects
    BY <1>2, ConstantTypes DEF detach_Actor
  <2>2. list' \in Lists
    BY <1>2, <2>1, DeactivateType DEF detach_Actor
  <2>3. m_holder' \in [Drivers -> Cars \cup {NULL}] /\ m_owner' \in [Cars -> Drivers \cup {NULL}]
    BY <1>2, <2>1 DEF detach_Actor
  <2> QED
    BY <1>2, <2>2, <2>3 DEF detach_Actor
<1> QED
  BY <1>1, <1>2

LEMMA TakenType ==
    ASSUME NEW S, NEW s \in Seq(S), NEW n \in Nat
    PROVE  /\ Taken(s, n) \in Seq(S)
           /\ n = Len(s) => Taken(s, n) = s
<1> DEFINE m == Min({n, Len(s)})
<1>1. Len(s) \in Nat /\ \A i \in 1 .. Len(s) : s[i] \in S
  OBVIOUS
<1>2. m \in {n, Len(s)} /\ m <= Len(s)
  <2>1. \E x \in {n, Len(s)} : \A y \in {n, Len(s)} : x <= y
    BY <1>1
  <2> QED
    BY <2>1 DEF Min
<1> HIDE DEF m
<1>3. m \in Nat /\ m <= Len(s)
  BY <1>1, <1>2
<1>4. SubSeq(s, 1, m) \in Seq(S)
  BY <1>1, <1>3
<1>5. ASSUME n = Len(s)
      PROVE  SubSeq(s, 1, m) = s
  <2>1. m = Len(s)
    BY <1>2, <1>5
  <2>2. /\ Len(SubSeq(s, 1, m)) = Len(s)
        /\ \A i \in 1 .. Len(s) : SubSeq(s, 1, m)[i] = s[i]
    BY <1>1, <2>1
  <2> QED
    BY <1>4, <2>2, SeqEqual
<1> QED
  BY <1>4, <1>5 DEF Taken, m

LEMMA TypeCrows ==
    ASSUME TypeOK, Shape, NEW t \in Threads, CrowMark(t) \/ CrowPush(t)
    PROVE  TypeOK'
<1> USE DEF TypeOK, kept, loops
<1> DEFINE o == crowing[t][1]
<1>1. o \in Objects /\ crowing[t] \in Seq(Objects \cup Nat)
  <2>1. crowing[t] # Idle
    <3>1. Len(Idle) = 0
      BY DEF Idle
    <3>2. Len(crowing[t]) # 0
      BY DEF CrowMark, CrowPush
    <3> QED
      BY <3>1, <3>2
  <2> QED
    BY <2>1 DEF Shape
<1> HIDE DEF o
<1>2. CASE CrowMark(t)
  <2>1. list' \in Lists
    <3>1. list' = [list EXCEPT !.crow[o] = TRUE]
      BY <1>2 DEF CrowMark, o
    <3> QED
      BY <1>1, <3>1 DEF Lists
  <2>2. crowing' \in [Threads -> Seq(Objects \cup Nat)]
    <3> DEFINE n == Len(list.crows[list.cur])
    <3>1. n \in Nat
      BY FieldTypes
    <3>2. crowing' = [crowing EXCEPT ![t] = Append(crowing[t], n)]
      BY <1>2 DEF CrowMark
    <3> HIDE DEF n
    <3>3. Append(crowing[t], n) \in Seq(Objects \cup Nat)
      BY <1>1, <3>1
    <3> QED
      BY <3>2, <3>3
  <2> QED
    BY <1>2, <2>1, <2>2 DEF CrowMark
<1>3. CASE CrowPush(t)
  <2>1. list' \in Lists
    <3> DEFINE s == Append(Taken(list.crows[list.cur], crowing[t][2]), o)
    <3>1. s \in Seq(Objects)
      <4>1. crowing[t][2] \in Nat
        BY <1>3 DEF CrowPush, Shape
      <4>2. Taken(list.crows[list.cur], crowing[t][2]) \in Seq(Objects)
        BY <4>1, FieldTypes, TakenType
      <4> QED
        BY <1>1, <4>2, AppendType
    <3>2. list' = [list EXCEPT !.crows[list.cur] = s]
      BY <1>3 DEF CrowPush, o
    <3> HIDE DEF s
    <3> QED
      BY <3>1, <3>2 DEF Lists
  <2>2. crowing' \in [Threads -> Seq(Objects \cup Nat)]
    BY <1>3 DEF CrowPush, Idle
  <2> QED
    BY <1>3, <2>1, <2>2 DEF CrowPush
<1> QED
  BY <1>2, <1>3

LEMMA ClearedType ==
    ASSUME NEW L \in Lists, NEW ls
    PROVE  /\ Cleared(L, ls) \in Lists /\ SameLists(L, Cleared(L, ls))
           /\ Cleared(L, ls).cur = L.cur
           /\ Cleared(L, ls).crow = [o \in Objects |-> L.crow[o] /\ \A l \in ls : ~Contains(L.crows[l], o)]
           /\ Cleared(L, ls).crows = [l \in 0 .. 1 |-> IF l \in ls THEN <<>> ELSE L.crows[l]]
<1> DEFINE c == [o \in Objects |-> L.crow[o] /\ \A l \in ls : ~Contains(L.crows[l], o)]
           v == [l \in 0 .. 1 |-> IF l \in ls THEN <<>> ELSE L.crows[l]]
<1>1. c \in [Objects -> BOOLEAN] /\ v \in [0 .. 1 -> Seq(Objects)]
  <2>1. \A o \in Objects : (L.crow[o] /\ \A l \in ls : ~Contains(L.crows[l], o)) \in BOOLEAN
    OBVIOUS
  <2>2. c \in [Objects -> BOOLEAN]
    BY <2>1
  <2>3. \A l \in 0 .. 1 : (IF l \in ls THEN <<>> ELSE L.crows[l]) \in Seq(Objects)
    BY FieldTypes
  <2>4. v \in [0 .. 1 -> Seq(Objects)]
    BY <2>3
  <2> QED
    BY <2>2, <2>4
<1>2. Cleared(L, ls) = [L EXCEPT !.crow = c, !.crows = v]
  BY DEF Cleared
<1> HIDE DEF c, v
<1>3. /\ [L EXCEPT !.crow = c, !.crows = v] \in Lists
      /\ SameLists(L, [L EXCEPT !.crow = c, !.crows = v])
      /\ [L EXCEPT !.crow = c, !.crows = v].cur = L.cur
      /\ [L EXCEPT !.crow = c, !.crows = v].crow = c
      /\ [L EXCEPT !.crow = c, !.crows = v].crows = v
  BY <1>1 DEF Lists, SameLists
<1> QED
  BY <1>2, <1>3 DEF c, v

\* What the start of Update makes of the lists: it clears a vector of crows, or both, or none.
LEMMA StartFacts ==
    ASSUME TypeOK, NEW mode \in Modes, StartUpdate(mode)
    PROVE  \E ls \in SUBSET (0 .. 1) :
              /\ list' \in Lists /\ SameLists(list, list')
              /\ list'.crow = [o \in Objects |-> list.crow[o] /\ \A l \in ls : ~Contains(list.crows[l], o)]
              /\ list'.crows = [l \in 0 .. 1 |-> IF l \in ls THEN <<>> ELSE list.crows[l]]
              /\ \/ ls = {1 - list.cur} /\ list'.cur = 1 - list.cur /\ todo' = list.crows[list.cur]
                 \/ ls = {0, 1} /\ list'.cur = list.cur /\ todo' = list.active
                 \/ ls = {} /\ list' = list /\ todo' = <<>>
<1> USE DEF TypeOK
<1>1. list.cur \in 0 .. 1 /\ 1 - list.cur \in 0 .. 1
  BY FieldTypes
<1>2. mode \in {"crows", "active", "none"}
  BY ObjectListAssumption
<1>3. CASE mode = "crows"
  <2> DEFINE C == Cleared(list, {1 - list.cur})
  <2>1. /\ C \in Lists /\ SameLists(list, C) /\ C.cur = list.cur
        /\ C.crow = [o \in Objects |-> list.crow[o] /\ \A l \in {1 - list.cur} : ~Contains(list.crows[l], o)]
        /\ C.crows = [l \in 0 .. 1 |-> IF l \in {1 - list.cur} THEN <<>> ELSE list.crows[l]]
    BY ClearedType, ZenonT(30)
  <2>2. list' = [C EXCEPT !.cur = 1 - @] /\ todo' = list.crows[list.cur]
    BY <1>3 DEF StartUpdate
  <2> HIDE DEF C
  <2>3. /\ list' \in Lists /\ list'.cur = 1 - list.cur /\ list'.crow = C.crow /\ list'.crows = C.crows
        /\ SameLists(list, list')
    BY <1>1, <2>1, <2>2 DEF Lists, SameLists
  <2>4. {1 - list.cur} \in SUBSET (0 .. 1)
    BY <1>1
  <2> QED
    BY <2>1, <2>2, <2>3, <2>4
<1>4. CASE mode = "active"
  <2>1. list' = Cleared(list, {0, 1}) /\ todo' = list.active
    BY <1>4 DEF StartUpdate
  <2>2. /\ list' \in Lists /\ SameLists(list, list') /\ list'.cur = list.cur
        /\ list'.crow = [o \in Objects |-> list.crow[o] /\ \A l \in {0, 1} : ~Contains(list.crows[l], o)]
        /\ list'.crows = [l \in 0 .. 1 |-> IF l \in {0, 1} THEN <<>> ELSE list.crows[l]]
    <3> DEFINE C == Cleared(list, {0, 1})
    <3>1. /\ C \in Lists /\ SameLists(list, C) /\ C.cur = list.cur
          /\ C.crow = [o \in Objects |-> list.crow[o] /\ \A l \in {0, 1} : ~Contains(list.crows[l], o)]
          /\ C.crows = [l \in 0 .. 1 |-> IF l \in {0, 1} THEN <<>> ELSE list.crows[l]]
      BY ClearedType, ZenonT(30)
    <3> HIDE DEF C
    <3>2. list' = C
      BY <2>1 DEF C
    <3> QED
      BY <3>1, <3>2
  <2>3. {0, 1} \in SUBSET (0 .. 1)
    OBVIOUS
  <2> QED
    BY <2>1, <2>2, <2>3
<1>5. CASE mode = "none"
  <2>1. list' = list /\ todo' = <<>>
    BY <1>5 DEF StartUpdate
  <2>2. list.crow = [o \in Objects |-> list.crow[o] /\ \A l \in {} : ~Contains(list.crows[l], o)]
    <3>1. list.crow \in [Objects -> BOOLEAN]
      BY FieldTypes
    <3>2. \A o \in Objects : (list.crow[o] /\ \A l \in {} : ~Contains(list.crows[l], o)) = list.crow[o]
      BY <3>1
    <3> QED
      BY <3>1, <3>2
  <2>3. list.crows = [l \in 0 .. 1 |-> IF l \in {} THEN <<>> ELSE list.crows[l]]
    <3>1. list.crows \in [0 .. 1 -> Seq(Objects)]
      BY FieldTypes
    <3> QED
      BY <3>1
  <2>4. SameLists(list, list') /\ {} \in SUBSET (0 .. 1)
    BY <2>1 DEF SameLists
  <2> QED
    BY <2>1, <2>2, <2>3, <2>4
<1> QED
  BY <1>2, <1>3, <1>4, <1>5

\* The two outcomes of UpdateCL.
LEMMA UpdatedTypes ==
    ASSUME TypeOK, NEW o \in Objects, NEW near \in BOOLEAN
    PROVE  Updated(o, near) \in Lists
<1> DEFINE L == [list EXCEPT !.crow[o] = FALSE]
<1>1. L \in Lists
  BY DEF TypeOK, Lists
<1>2. Updated(o, near) = IF o \in Items THEN Nearby(Settled(L, o), o, near) ELSE Settled(Nearby(L, o, near), o)
  BY DEF Updated
<1> HIDE DEF L
<1>3. Settled(L, o) \in Lists /\ Nearby(L, o, near) \in Lists
  BY <1>1, RequestTypes
<1> DEFINE A == Settled(L, o)
           B == Nearby(L, o, near)
<1> HIDE DEF A, B
<1>4. Nearby(A, o, near) \in Lists /\ Settled(B, o) \in Lists
  BY <1>3, RequestTypes DEF A, B
<1> QED
  BY <1>2, <1>4 DEF A, B

LEMMA TypeUpdateCL ==
    ASSUME TypeOK, NEW near \in BOOLEAN, UpdateCL(near)
    PROVE  TypeOK'
<1> USE DEF TypeOK, kept
<1> DEFINE o == Last(calls)
<1>1. o \in Objects /\ Front(calls) \in Seq(Objects)
  BY Ends DEF UpdateCL
<1>2. /\ updated' = updated \cup {o} /\ calls' = Front(calls)
      /\ \/ list' = Updated(o, near) /\ body' = StillAfter(o)
         \/ \E q \in Live \ {o} :
               /\ list' = ShellWoken(Updated(o, near), q, body[q])
               /\ body' = [StillAfter(o) EXCEPT ![q] = "moving"]
  BY DEF UpdateCL
<1> HIDE DEF o
<1>3. StillAfter(o) \in [Objects -> {"solid", "moving", "stopping", "still", "ruck", "belt", "slot"}]
  BY <1>1 DEF StillAfter
<1> DEFINE U == Updated(o, near)
           B == StillAfter(o)
<1>4. U \in Lists
  BY <1>1, UpdatedTypes
<1> HIDE DEF U, B
<1>5. list' \in Lists /\ body' \in [Objects -> {"solid", "moving", "stopping", "still", "ruck", "belt", "slot"}]
  <2>1. CASE list' = U /\ body' = B
    BY <1>3, <1>4, <2>1 DEF B
  <2>2. ASSUME NEW q \in Live \ {o}, list' = ShellWoken(U, q, body[q]), body' = [B EXCEPT ![q] = "moving"]
        PROVE  list' \in Lists /\ body' \in [Objects -> {"solid", "moving", "stopping", "still", "ruck", "belt", "slot"}]
    <3>1. q \in Objects
      BY LiveTypes
    <3>2. list' \in Lists
      BY <1>4, <2>2, <3>1, RequestTypes
    <3> QED
      BY <1>3, <2>2, <3>1, <3>2 DEF B
  <2> QED
    BY <1>2, <2>1, <2>2 DEF U, B
<1>6. UNCHANGED <<kept, told, pc, todo, it, crowing>>
  BY DEF UpdateCL
<1> QED
  BY <1>1, <1>2, <1>5, <1>6

\* Whom net_Relcase calls, and who leaves a car.
LEMMA RelcaseFacts ==
    ASSUME TypeOK, net_Relcase
    PROVE  \E o \in Live :
              /\ o = Relcasing[it] /\ told' = told \cup {o}
              /\ \/ list' = list /\ m_owner' = m_owner /\ m_holder' = m_holder
                 \/ /\ o \in Drivers /\ m_holder[o] \in Range(destroy_queue)
                    /\ m_holder[o] \in Cars
                    /\ list' = processing_deactivate(list, m_holder[o])
                    /\ m_owner' = [m_owner EXCEPT ![m_holder[o]] = NULL]
                    /\ m_holder' = [m_holder EXCEPT ![o] = NULL]
<1> DEFINE o == Relcasing[it]
           leaves == o \in Drivers /\ m_holder[o] \in Range(destroy_queue)
<1>1. o \in Live
  <2>1. Relcasing \in Seq(Objects) /\ Range(Relcasing) \subseteq Live
    BY LiveTypes DEF Relcasing, Live, Held
  <2>2. it \in 1 .. Len(Relcasing)
    <3>1. it \in Nat /\ it <= Len(Relcasing) /\ it # 0
      BY DEF TypeOK, net_Relcase
    <3> QED
      BY <2>1, <3>1
  <2> QED
    BY <2>1, <2>2, RangeIs
<1>2. /\ told' = told \cup {o}
      /\ list' = IF leaves THEN processing_deactivate(list, m_holder[o]) ELSE list
      /\ m_owner' = IF leaves THEN [m_owner EXCEPT ![m_holder[o]] = NULL] ELSE m_owner
      /\ m_holder' = IF leaves THEN [m_holder EXCEPT ![o] = NULL] ELSE m_holder
  BY DEF net_Relcase
<1>3. leaves => m_holder[o] \in Cars
  <2>1. Range(destroy_queue) \subseteq Objects /\ NULL \notin Objects
    BY RangeIs, ConstantTypes DEF TypeOK
  <2>2. o \in Drivers => m_holder[o] \in Cars \cup {NULL}
    BY DEF TypeOK
  <2> QED
    BY <2>1, <2>2
<1> HIDE DEF o
<1> QED
  BY <1>1, <1>2, <1>3 DEF o

LEMMA TypeRelcase == TypeOK /\ net_Relcase => TypeOK'
<1> SUFFICES ASSUME TypeOK, net_Relcase PROVE TypeOK'
  OBVIOUS
<1> USE DEF TypeOK
<1>1. PICK o \in Live :
         /\ told' = told \cup {o}
         /\ \/ list' = list /\ m_owner' = m_owner /\ m_holder' = m_holder
            \/ /\ o \in Drivers /\ m_holder[o] \in Cars
               /\ list' = processing_deactivate(list, m_holder[o])
               /\ m_owner' = [m_owner EXCEPT ![m_holder[o]] = NULL]
               /\ m_holder' = [m_holder EXCEPT ![o] = NULL]
  BY RelcaseFacts
<1>2. o \in Objects
  BY LiveTypes
<1>3. /\ list' \in Lists /\ told' \subseteq Objects
      /\ m_holder' \in [Drivers -> Cars \cup {NULL}] /\ m_owner' \in [Cars -> Drivers \cup {NULL}]
  <2>1. CASE list' = list /\ m_owner' = m_owner /\ m_holder' = m_holder
    BY <1>1, <1>2, <2>1
  <2>2. CASE /\ o \in Drivers /\ m_holder[o] \in Cars
             /\ list' = processing_deactivate(list, m_holder[o])
             /\ m_owner' = [m_owner EXCEPT ![m_holder[o]] = NULL]
             /\ m_holder' = [m_holder EXCEPT ![o] = NULL]
    <3>1. m_holder[o] \in Objects
      BY <2>2, ConstantTypes
    <3>2. list' \in Lists
      BY <2>2, <3>1, DeactivateType
    <3> QED
      BY <1>1, <1>2, <2>2, <3>2
  <2> QED
    BY <1>1, <2>1, <2>2
<1>4. /\ it' = it + 1 /\ it + 1 \in Nat \ {0}
      /\ UNCHANGED <<body, Parent, getDestroy, destroy_queue, freed, updated, pc, todo, calls, crowing>>
  BY DEF net_Relcase
<1> QED
  BY <1>3, <1>4

LEMMA TypeDestroy == TypeOK /\ Destroy => TypeOK'
<1> SUFFICES ASSUME TypeOK, Destroy PROVE TypeOK'
  OBVIOUS
<1> USE DEF TypeOK, loops
<1> DEFINE o == Last(destroy_queue)
           N == NetDestroyed(o)
           D == Destroyed(N, o)
<1>1. o \in Objects /\ Front(destroy_queue) \in Seq(Objects)
  BY Ends DEF Destroy
<1>2. /\ list' = [D EXCEPT !.counter[o] = 0, !.crow[o] = FALSE]
      /\ body' = [body EXCEPT ![o] = "solid"]
      /\ Parent' = [Parent EXCEPT ![o] = NULL]
      /\ m_holder' = [d \in Drivers |-> IF d = o THEN NULL ELSE m_holder[d]]
      /\ m_owner' = [c \in Cars |-> IF c = o THEN NULL ELSE m_owner[c]]
      /\ freed' = freed \cup {o} /\ updated' = updated \ {o}
  BY DEF Destroy
<1> HIDE DEF o
<1>3. N \in Lists
  BY <1>1, DeactivateType, RequestTypes DEF NetDestroyed
<1> HIDE DEF N
<1>4. D \in Lists
  BY <1>1, <1>3, RequestTypes
<1> HIDE DEF D
<1>5. list' \in Lists
  <2>1. 0 \in 0 .. MaxActive
    BY ObjectListAssumption
  <2> QED
    BY <1>2, <1>4, <2>1 DEF Lists
<1>6. /\ m_holder' \in [Drivers -> Cars \cup {NULL}] /\ m_owner' \in [Cars -> Drivers \cup {NULL}]
      /\ body' \in [Objects -> {"solid", "moving", "stopping", "still", "ruck", "belt", "slot"}]
      /\ Parent' \in [Objects -> Owners \cup {NULL}]
  BY <1>2
<1>7. destroy_queue' = Front(destroy_queue) /\ UNCHANGED <<getDestroy, loops, crowing>>
  BY DEF Destroy
<1> QED
  BY <1>1, <1>2, <1>5, <1>6, <1>7

LEMMA TypeLoops ==
    ASSUME TypeOK, UpdateLoop \/ Start \/ EndFrame
    PROVE  TypeOK'
<1> USE DEF TypeOK, kept
<1>1. ASSUME NEW mode \in Modes, StartUpdate(mode)
      PROVE  TypeOK'
  <2>1. list' \in Lists /\ todo' \in Seq(Objects)
    <3>1. PICK ls \in SUBSET (0 .. 1) :
            /\ list' \in Lists
            /\ \/ todo' = list.crows[list.cur]
               \/ todo' = list.active
               \/ todo' = <<>>
      BY <1>1, StartFacts
    <3>2. /\ list.crows[list.cur] \in Seq(Objects) /\ list.active \in Seq(Objects)
          /\ <<>> \in Seq(Objects)
      BY FieldTypes
    <3> HIDE DEF TypeOK
    <3> QED
      BY <3>1, <3>2
  <2> QED
    BY <1>1, <2>1 DEF StartUpdate
<1>2. CASE NextObject
  <2>1. Head(todo) \in Objects /\ Tail(todo) \in Seq(Objects)
    BY <1>2, Ends DEF NextObject
  <2>2. calls' \in Seq(Objects)
    <3>1. <<Head(todo)>> \in Seq(Objects) /\ <<>> \in Seq(Objects)
      BY <2>1
    <3> QED
      BY <1>2, <3>1 DEF NextObject
  <2> QED
    BY <1>2, <2>1, <2>2 DEF NextObject
<1>3. CASE UpdateParent
  <2>1. Last(calls) \in Objects /\ Parent[Last(calls)] \in Objects
    <3>1. Last(calls) \in Objects /\ Parent[Last(calls)] # NULL
      BY <1>3, Ends DEF UpdateParent, ParentFirst
    <3> QED
      BY <3>1, ConstantTypes
  <2>2. calls' \in Seq(Objects)
    BY <1>3, <2>1 DEF UpdateParent
  <2> QED
    BY <1>3, <2>2 DEF UpdateParent
<1>4. CASE EndUpdates
  BY <1>4 DEF EndUpdates
<1>5. CASE \E near \in BOOLEAN : UpdateCL(near)
  BY <1>5, TypeUpdateCL
<1>6. CASE net_Relcase
  BY <1>6, TypeRelcase
<1>7. CASE EndRelcase
  BY <1>7 DEF EndRelcase, AfterActive
<1>8. CASE Overrun
  BY <1>8 DEF Overrun
<1>9. CASE Destroy
  BY <1>9, TypeDestroy
<1>10. CASE EndDestroy
  BY <1>10 DEF EndDestroy
<1>11. CASE EndFrame
  BY <1>11 DEF EndFrame
<1> QED
  BY <1>1, <1>2, <1>3, <1>4, <1>5, <1>6, <1>7, <1>8, <1>9, <1>10, <1>11 DEF UpdateLoop, Start

LEMMA TypeStep == TypeOK /\ Shape /\ [Next]_vars => TypeOK'
<1> SUFFICES ASSUME TypeOK, Shape, [Next]_vars PROVE TypeOK'
  OBVIOUS
<1>1. CASE UNCHANGED vars
  BY <1>1 DEF TypeOK, vars
<1>2. CASE Start \/ UpdateLoop \/ EndFrame
  BY <1>2, TypeLoops
<1>3. CASE CrowStep
  BY <1>3, TypeCrows DEF CrowStep
<1> QED
  BY <1>1, <1>2, <1>3, TypeObjects, TypeInventory, TypeCars DEF Next

LEMMA OneTuple ==
    ASSUME NEW o
    PROVE  Len(<<o>>) = 1 /\ <<o>>[1] = o /\ <<o>> # <<>> /\ Len(<<>>) = 0
  OBVIOUS

LEMMA AppendToOne ==
    ASSUME NEW B, NEW s \in Seq(B), Len(s) = 1, NEW n \in B
    PROVE  Len(Append(s, n)) = 2 /\ Append(s, n)[1] = s[1] /\ Append(s, n)[2] = n
<1>1. s = <<s[1]>>
  OBVIOUS
<1>2. PICK x : s = <<x>> /\ x = s[1]
  BY <1>1
<1>3. Len(Append(<<x>>, n)) = 2 /\ Append(<<x>>, n)[1] = x /\ Append(<<x>>, n)[2] = n
  OBVIOUS
<1> QED
  BY <1>2, <1>3

\* What a step does to the pushes: nothing, or it begins, marks or ends one.
Begins(t, o) == crowing[t] = Idle /\ crowing' = [crowing EXCEPT ![t] = <<o>>]

LEMMA PushSteps ==
    ASSUME TypeOK, [Next]_vars
    PROVE  \/ crowing' = crowing
           \/ \E o \in Objects : Wake(o) /\ Begins("physics", o)
           \/ \E o \in Objects : Render(o) /\ Begins("primary", o)
           \/ \E t \in Threads : CrowMark(t) \/ CrowPush(t)
<1>1. CASE UNCHANGED vars
  BY <1>1 DEF vars
<1>2. ASSUME NEW o \in Objects, Wake(o)
      PROVE  crowing' = crowing \/ Begins("physics", o)
  BY <1>2 DEF Wake, PhysicsTurn, Begins
<1>3. ASSUME NEW o \in Objects, Render(o)
      PROVE  Begins("primary", o)
  BY <1>3 DEF Render, Begins
<1>4. ASSUME NEW o \in Objects, Spawn(o) \/ setDestroy(o) \/ shedule_Update(o) \/ Rest(o)
      PROVE  crowing' = crowing
  BY <1>4 DEF Spawn, setDestroy, shedule_Update, Rest, Stays
<1>5. ASSUME NEW o, NEW p, NEW place, Take(o, p, place) \/ Move(o, place) \/ Reject(o, p)
      PROVE  crowing' = crowing
  BY <1>5 DEF Take, Move, Reject, Stays
<1>6. ASSUME NEW d, NEW c, attach_Actor(d, c) \/ detach_Actor(d)
      PROVE  crowing' = crowing
  BY <1>6 DEF attach_Actor, detach_Actor, Stays
<1>7. ASSUME NEW mode, StartUpdate(mode)
      PROVE  crowing' = crowing
  BY <1>7 DEF StartUpdate
<1>8. ASSUME UpdateLoop \/ EndFrame
      PROVE  crowing' = crowing
  BY <1>8 DEF UpdateLoop, EndFrame, NextObject, UpdateParent, EndUpdates, UpdateCL, net_Relcase,
              EndRelcase, Overrun, Destroy, EndDestroy
<1> QED
  BY <1>1, <1>2, <1>3, <1>4, <1>5, <1>6, <1>7, <1>8 DEF Next, Start, CrowStep

LEMMA ShapeStep == TypeOK /\ Shape /\ [Next]_vars => Shape'
<1> SUFFICES ASSUME TypeOK, Shape, [Next]_vars PROVE Shape'
  OBVIOUS
<1>1. crowing \in [Threads -> Seq(Objects \cup Nat)] /\ {"primary", "physics"} = Threads
  BY DEF TypeOK, Threads
<1>2. CASE crowing' = crowing
  BY <1>2 DEF Shape
<1>3. ASSUME NEW t \in Threads, NEW o \in Objects, Begins(t, o)
      PROVE  Shape'
  <2>1. \A u \in Threads : crowing'[u] = IF u = t THEN <<o>> ELSE crowing[u]
    BY <1>1, <1>3 DEF Begins
  <2> DEFINE e == <<o>>
  <2>2. Len(e) = 1 /\ e[1] = o
    BY OneTuple
  <2> HIDE DEF e
  <2>3. \A u \in Threads : crowing'[u] = IF u = t THEN e ELSE crowing[u]
    BY <2>1 DEF e
  <2> QED
    BY <2>2, <2>3 DEF Shape
<1>4. ASSUME NEW t \in Threads, CrowMark(t)
      PROVE  Shape'
  <2> DEFINE n == Len(list.crows[list.cur])
             e == Append(crowing[t], n)
  <2>1. n \in Nat
    BY FieldTypes DEF TypeOK
  <2>2. crowing' = [crowing EXCEPT ![t] = e] /\ Len(crowing[t]) = 1
    BY <1>4 DEF CrowMark
  <2> HIDE DEF n
  <2>3. crowing[t] \in Seq(Objects \cup Nat) /\ crowing[t] # Idle
    <3>1. Len(Idle) = 0
      BY OneTuple DEF Idle
    <3> QED
      BY <1>1, <2>2, <3>1
  <2> DEFINE s == crowing[t]
             B == Objects \cup Nat
  <2>4. Len(e) = 2 /\ e[1] = crowing[t][1] /\ e[2] = n
    <3>1. s \in Seq(B) /\ n \in B /\ Len(s) = 1
      BY <2>1, <2>2, <2>3
    <3> HIDE DEF s, B
    <3>2. Append(s, n) = e /\ s[1] = crowing[t][1]
      BY DEF s, e
    <3>3. Len(Append(s, n)) = 2 /\ Append(s, n)[1] = s[1] /\ Append(s, n)[2] = n
      BY <3>1, AppendToOne
    <3> QED
      BY <3>2, <3>3
  <2>5. e[1] \in Objects
    BY <2>3, <2>4 DEF Shape
  <2> HIDE DEF e
  <2>6. \A u \in Threads : crowing'[u] = IF u = t THEN e ELSE crowing[u]
    BY <1>1, <2>2
  <2> QED
    BY <2>1, <2>4, <2>5, <2>6 DEF Shape
<1>5. ASSUME NEW t \in Threads, CrowPush(t)
      PROVE  Shape'
  <2>1. \A u \in Threads : crowing'[u] = IF u = t THEN Idle ELSE crowing[u]
    BY <1>1, <1>5 DEF CrowPush
  <2>2. Len(Idle) = 0
    BY OneTuple DEF Idle
  <2> QED
    BY <2>1, <2>2 DEF Shape
<1> QED
  BY <1>1, <1>2, <1>3, <1>4, <1>5, PushSteps

LEMMA TypeInit == Init => TypeOK /\ Shape
<1> SUFFICES ASSUME Init PROVE TypeOK /\ Shape
  OBVIOUS
<1> DEFINE L == [active |-> <<>>, sleeping |-> <<>>, crows |-> [l \in 0 .. 1 |-> <<>>], cur |-> 0,
                 counter |-> [o \in Objects |-> 0], crow |-> [o \in Objects |-> FALSE]]
<1>1. L \in Lists
  <2>1. <<>> \in Seq(Objects) /\ 0 \in 0 .. MaxActive
    BY ObjectListAssumption
  <2> QED
    BY <2>1 DEF Lists
<1>2. list = L
  BY DEF Init
<1> HIDE DEF L
<1>3. TypeOK
  <2>1. <<>> \in Seq(Objects) /\ <<>> \in Seq(Objects \cup Nat)
    OBVIOUS
  <2>2. list \in Lists
    BY <1>1, <1>2
  <2>3. /\ body \in [Objects -> {"solid", "moving", "stopping", "still", "ruck", "belt", "slot"}]
        /\ Parent \in [Objects -> Owners \cup {NULL}]
        /\ m_holder \in [Drivers -> Cars \cup {NULL}] /\ m_owner \in [Cars -> Drivers \cup {NULL}]
        /\ getDestroy \in [Objects -> BOOLEAN]
    BY DEF Init
  <2>4. destroy_queue \in Seq(Objects) /\ todo \in Seq(Objects) /\ calls \in Seq(Objects)
    BY <2>1 DEF Init
  <2>5. /\ freed \subseteq Objects /\ updated \subseteq Objects /\ told \subseteq Objects
        /\ pc = "frame" /\ it \in Nat \ {0}
    BY DEF Init
  <2>6. crowing \in [Threads -> Seq(Objects \cup Nat)]
    BY <2>1 DEF Init, Idle
  <2> QED
    BY <2>2, <2>3, <2>4, <2>5, <2>6 DEF TypeOK
<1>4. Shape
  <2>1. \A t \in Threads : crowing[t] = Idle
    BY DEF Init
  <2>2. Len(Idle) = 0
    BY OneTuple DEF Idle
  <2> QED
    BY <2>1, <2>2 DEF Shape
<1> QED
  BY <1>3, <1>4

\* No sequence of spawns, inventories, cars, shells and frames takes a variable out of
\* its type: counters stay 8 bits wide and every entry of a list is an object.
THEOREM TypeCorrect == Spec => []TypeOK
<1>1. TypeOK /\ Shape /\ [Next]_vars => (TypeOK /\ Shape)'
  BY TypeStep, ShapeStep
<1> QED
  BY TypeInit, <1>1, PTL DEF Spec

-----------------------------------------------------------------------------
(* How many requests the calls make.                                       *)

LEMMA HeldTypes ==
    ASSUME NEW L \in Lists, NEW o \in Held(L)
    PROVE  o \in Objects /\ L.counter[o] \in 0 .. MaxActive /\ MaxActive \in Nat \ {0}
<1>1. o \in Objects
  BY FieldTypes, RangeIs DEF Held
<1> QED
  BY <1>1, FieldTypes, ObjectListAssumption

LEMMA WokenStep ==
    ASSUME NEW L \in Lists, Sorted(L), NEW o \in Held(L), NEW b,
           b = "still" => L.counter[o] < MaxActive
    PROVE  \E k \in 0 .. 1 : /\ k = 1 <=> b = "still"
                             /\ Asked(L, ShellWoken(L, o, b), o, k)
<1>1. CASE b = "still"
  BY <1>1, ActivateStep DEF ShellWoken
<1>2. CASE b # "still"
  BY <1>2, NothingAsked, HeldTypes DEF ShellWoken
<1> QED
  BY <1>1, <1>2

LEMMA ShellStep ==
    ASSUME NEW L \in Lists, Sorted(L), NEW o \in Held(L), L.counter[o] < MaxActive, NEW b
    PROVE  \E k \in 0 .. 1 : /\ k = 1 <=> b \in {"moving", "still"}
                             /\ Asked(L, ShellDeactivated(L, o, b), o, k)
<1>1. CASE b \in {"moving", "still"}
  BY <1>1, ActivateStep DEF ShellDeactivated
<1>2. CASE b \notin {"moving", "still"}
  BY <1>2, NothingAsked, HeldTypes DEF ShellDeactivated
<1> QED
  BY <1>1, <1>2

LEMMA PlacedStep ==
    ASSUME NEW L \in Lists, Sorted(L), NEW o \in Held(L), L.counter[o] < MaxActive, NEW place
    PROVE  \E k \in 0 .. 1 : /\ k = 0 <=> place = "ruck"
                             /\ Asked(L, Placed(L, o, place), o, k)
<1>1. CASE place # "ruck"
  BY <1>1, ActivateStep DEF Placed
<1>2. CASE place = "ruck"
  BY <1>2, NothingAsked, HeldTypes DEF Placed
<1> QED
  BY <1>1, <1>2

LEMMA LeftStep ==
    ASSUME NEW L \in Lists, Sorted(L), NEW o \in Held(L), NEW from, NEW to,
           from = "slot" => L.counter[o] > 0
    PROVE  \E k \in -1 .. 0 : /\ k = -1 <=> from = "slot" /\ to # "slot"
                              /\ Asked(L, LeftPlace(L, o, from, to), o, k)
<1>1. CASE from = "slot" /\ to # "slot"
  BY <1>1, DeactivateStep DEF LeftPlace
<1>2. CASE ~(from = "slot" /\ to # "slot")
  BY <1>2, NothingAsked, HeldTypes DEF LeftPlace
<1> QED
  BY <1>1, <1>2

\* What the requests of one object leave alone.
LEMMA AskedFacts ==
    ASSUME NEW L \in Lists, NEW M, NEW o \in Objects, NEW k \in Int, Asked(L, M, o, k)
    PROVE  /\ M \in Lists /\ Sorted(M) /\ Held(M) = Held(L)
           /\ M.counter[o] = L.counter[o] + k
           /\ \A q \in Objects : q # o => M.counter[q] = L.counter[q]
<1>1. L.counter \in [Objects -> 0 .. MaxActive]
  BY FieldTypes
<1> QED
  BY <1>1 DEF Asked

\* Requests of an object of the level: three calls in a row.
LEMMA TakeAsks ==
    ASSUME NEW L \in Lists, Sorted(L), NEW o \in Held(L), NEW b, NEW place,
           L.counter[o] < MaxCounter, L.counter[o] > 0 \/ b \in {"moving", "still"},
           MaxCounter < MaxActive
    PROVE  \E k \in -1 .. 1 :
              /\ k = (IF b \in {"moving", "still"} THEN 1 ELSE 0) + (IF place = "ruck" THEN 0 ELSE 1) - 1
              /\ Asked(L, processing_deactivate(Placed(Crow(ShellDeactivated(L, o, b), o), o, place), o), o, k)
<1>1. /\ o \in Objects /\ L.counter[o] \in 0 .. MaxActive /\ MaxActive \in Nat \ {0}
      /\ MaxCounter \in Nat
  BY HeldTypes, ObjectListAssumption
<1> DEFINE A == ShellDeactivated(L, o, b)
           B == Crow(A, o)
           C == Placed(B, o, place)
           D == processing_deactivate(C, o)
<1>2. PICK i \in 0 .. 1 : (i = 1 <=> b \in {"moving", "still"}) /\ Asked(L, A, o, i)
  BY <1>1, ShellStep
<1> HIDE DEF A
<1>3. A \in Lists /\ Sorted(A) /\ o \in Held(A) /\ A.counter[o] = L.counter[o] + i
  BY <1>1, <1>2, AskedFacts
<1>4. Asked(A, B, o, 0)
  BY <1>1, <1>3, CrowAsked
<1> HIDE DEF B
<1>5. B \in Lists /\ Sorted(B) /\ o \in Held(B) /\ B.counter[o] = L.counter[o] + i
  BY <1>1, <1>3, <1>4, AskedFacts
<1>6. PICK j \in 0 .. 1 : (j = 0 <=> place = "ruck") /\ Asked(B, C, o, j)
  BY <1>1, <1>5, PlacedStep
<1> HIDE DEF C
<1>7. C \in Lists /\ Sorted(C) /\ o \in Held(C) /\ C.counter[o] = L.counter[o] + i + j
  BY <1>1, <1>5, <1>6, AskedFacts
<1>8. C.counter[o] > 0
  BY <1>1, <1>2, <1>7
<1>9. Asked(C, D, o, -1)
  BY <1>7, <1>8, DeactivateStep
<1> HIDE DEF D
<1>10. Asked(L, B, o, i + 0)
  BY <1>1, <1>2, <1>3, <1>4, AskedTwice
<1>11. Asked(L, C, o, i + 0 + j)
  BY <1>1, <1>5, <1>6, <1>10, AskedTwice
<1>12. Asked(L, D, o, i + 0 + j + (-1))
  BY <1>1, <1>7, <1>9, <1>11, AskedTwice
<1>13. i + 0 + j + (-1) = i + j - 1 /\ i + j - 1 \in -1 .. 1
  OBVIOUS
<1>14. Asked(L, D, o, i + j - 1)
  BY <1>12, <1>13
<1> QED
  BY <1>2, <1>6, <1>13, <1>14 DEF A, B, C, D

LEMMA MoveAsks ==
    ASSUME NEW L \in Lists, Sorted(L), NEW o \in Held(L), NEW from, NEW to,
           L.counter[o] < MaxActive, from = "slot" => L.counter[o] > 0
    PROVE  \E k \in -1 .. 1 :
              /\ k = (IF to = "ruck" THEN 0 ELSE 1) - (IF from = "slot" /\ to # "slot" THEN 1 ELSE 0)
              /\ Asked(L, Placed(LeftPlace(L, o, from, to), o, to), o, k)
<1>1. o \in Objects /\ L.counter[o] \in 0 .. MaxActive /\ MaxActive \in Nat \ {0}
  BY HeldTypes
<1> DEFINE A == LeftPlace(L, o, from, to)
           B == Placed(A, o, to)
<1>2. PICK i \in -1 .. 0 : (i = -1 <=> from = "slot" /\ to # "slot") /\ Asked(L, A, o, i)
  BY LeftStep
<1> HIDE DEF A
<1>3. A \in Lists /\ Sorted(A) /\ o \in Held(A) /\ A.counter[o] = L.counter[o] + i
  BY <1>1, <1>2, AskedFacts
<1>4. A.counter[o] < MaxActive
  BY <1>1, <1>3
<1>5. PICK j \in 0 .. 1 : (j = 0 <=> to = "ruck") /\ Asked(A, B, o, j)
  BY <1>3, <1>4, PlacedStep
<1> HIDE DEF B
<1>6. Asked(L, B, o, i + j) /\ i + j \in -1 .. 1
  BY <1>1, <1>2, <1>3, <1>5, AskedTwice
<1> QED
  BY <1>2, <1>5, <1>6 DEF A, B

LEMMA RejectAsks ==
    ASSUME NEW L \in Lists, Sorted(L), NEW o \in Held(L), L.counter[o] < MaxActive, NEW from
    PROVE  \E k \in 0 .. 1 :
              /\ k = IF from = "ruck" THEN 1 ELSE 0
              /\ LET A == processing_activate(L, o)
                 IN  Asked(L, Crow(IF from = "ruck" THEN A ELSE processing_deactivate(A, o), o), o, k)
<1>1. o \in Objects /\ L.counter[o] \in 0 .. MaxActive /\ MaxActive \in Nat \ {0}
  BY HeldTypes
<1> DEFINE A == processing_activate(L, o)
           B == processing_deactivate(A, o)
           C == IF from = "ruck" THEN A ELSE B
           D == Crow(C, o)
<1>2. Asked(L, A, o, 1)
  BY ActivateStep
<1> HIDE DEF A
<1>3. A \in Lists /\ Sorted(A) /\ o \in Held(A) /\ A.counter[o] = L.counter[o] + 1
  BY <1>1, <1>2, AskedFacts
<1>4. Asked(A, B, o, -1)
  BY <1>1, <1>3, DeactivateStep
<1> HIDE DEF B
<1>5. Asked(L, B, o, 1 + (-1))
  BY <1>1, <1>2, <1>3, <1>4, AskedTwice
<1>6. PICK k \in 0 .. 1 : k = (IF from = "ruck" THEN 1 ELSE 0) /\ Asked(L, C, o, k)
  BY <1>2, <1>5
<1> HIDE DEF C
<1>7. C \in Lists /\ Sorted(C)
  BY <1>6 DEF Asked
<1>8. Asked(C, D, o, 0)
  BY <1>1, <1>7, CrowAsked
<1> HIDE DEF D
<1>9. Asked(L, D, o, k + 0) /\ k + 0 = k
  BY <1>1, <1>6, <1>7, <1>8, AskedTwice
<1>10. D = Crow(IF from = "ruck" THEN A ELSE processing_deactivate(A, o), o)
  BY DEF D, C, B
<1> QED
  BY <1>6, <1>9, <1>10 DEF A

LEMMA AttachAsks ==
    ASSUME NEW L \in Lists, Sorted(L), NEW o \in Held(L), NEW b,
           L.counter[o] < MaxCounter, MaxCounter < MaxActive
    PROVE  \E k \in 1 .. 2 :
              /\ k = IF b = "still" THEN 2 ELSE 1
              /\ Asked(L, processing_activate(ShellWoken(L, o, b), o), o, k)
<1>1. /\ o \in Objects /\ L.counter[o] \in 0 .. MaxActive /\ MaxActive \in Nat \ {0}
      /\ MaxCounter \in Nat
  BY HeldTypes, ObjectListAssumption
<1> DEFINE A == ShellWoken(L, o, b)
           B == processing_activate(A, o)
<1>2. PICK i \in 0 .. 1 : (i = 1 <=> b = "still") /\ Asked(L, A, o, i)
  BY <1>1, WokenStep
<1> HIDE DEF A
<1>3. A \in Lists /\ Sorted(A) /\ o \in Held(A) /\ A.counter[o] = L.counter[o] + i
  BY <1>1, <1>2, AskedFacts
<1>4. A.counter[o] < MaxActive
  BY <1>1, <1>3
<1>5. Asked(A, B, o, 1)
  BY <1>3, <1>4, ActivateStep
<1> HIDE DEF B
<1>6. Asked(L, B, o, i + 1) /\ i + 1 \in 1 .. 2
  BY <1>1, <1>2, <1>3, <1>5, AskedTwice
<1> QED
  BY <1>2, <1>6 DEF A, B

\* The request of a shell before MakeMeCrow has touched flags and crows.
LEMMA WakeAsks ==
    ASSUME NEW L \in Lists, Sorted(L), NEW o \in Held(L), L.counter[o] < MaxActive, NEW b
    PROVE  LET M == [ShellWoken(L, o, b) EXCEPT !.crow = L.crow, !.crows = L.crows]
           IN  \E k \in 0 .. 1 : /\ k = 1 <=> b = "still"
                                 /\ Asked(L, M, o, k)
                                 /\ M.crow = L.crow /\ M.crows = L.crows /\ M.cur = L.cur
<1> DEFINE A == ShellWoken(L, o, b)
           M == [A EXCEPT !.crow = L.crow, !.crows = L.crows]
<1>1. PICK k \in 0 .. 1 : (k = 1 <=> b = "still") /\ Asked(L, A, o, k)
  BY WokenStep
<1> HIDE DEF A
<1>2. o \in Objects
  BY HeldTypes
<1>3. /\ A \in Lists /\ Sorted(A) /\ Held(A) = Held(L) /\ A.cur = L.cur
      /\ A.counter = [L.counter EXCEPT ![o] = L.counter[o] + k]
  BY <1>1 DEF Asked, Crowed
<1>4. L.crow \in [Objects -> BOOLEAN] /\ L.crows \in [0 .. 1 -> Seq(Objects)]
  BY FieldTypes
<1>5. M \in Lists
  BY <1>3, <1>4 DEF Lists
<1>6. /\ SameLists(A, M) /\ M.cur = L.cur /\ M.crow = L.crow /\ M.crows = L.crows
  BY <1>3, <1>4 DEF Lists, SameLists
<1> HIDE DEF M
<1>7. Sorted(M) /\ Held(M) = Held(L) /\ M.counter = [L.counter EXCEPT ![o] = L.counter[o] + k]
  BY <1>3, <1>6 DEF SameLists, Sorted, Held
<1>8. Asked(L, M, o, k)
  BY <1>5, <1>6, <1>7 DEF Asked, Crowed
<1> QED
  BY <1>1, <1>6, <1>8 DEF M, A

\* A new object enters asleep and is activated at once.
LEMMA SpawnAsks ==
    ASSUME NEW L \in Lists, Sorted(L), NEW o \in Objects, o \notin Held(L), L.counter[o] = 0
    PROVE  LET S == [L EXCEPT !.sleeping = Append(@, o)]
           IN  /\ S \in Lists /\ Sorted(S) /\ Held(S) = Held(L) \cup {o} /\ S.counter = L.counter
               /\ S.crow = L.crow /\ S.crows = L.crows /\ S.cur = L.cur
               /\ Asked(S, processing_activate(S, o), o, 1)
<1> DEFINE S == [L EXCEPT !.sleeping = Append(@, o)]
<1>1. /\ L.sleeping \in Seq(Objects) /\ L.active \in Seq(Objects)
      /\ Append(L.sleeping, o) \in Seq(Objects)
  BY FieldTypes
<1>2. /\ S \in Lists
      /\ S.sleeping = Append(L.sleeping, o) /\ S.active = L.active /\ S.counter = L.counter
      /\ S.crow = L.crow /\ S.crows = L.crows /\ S.cur = L.cur
  BY <1>1 DEF Lists
<1> HIDE DEF S
<1>3. IsInjective(L.sleeping) /\ o \notin Range(L.sleeping)
  BY DEF Sorted, Held
<1>4. Range(S.sleeping) = Range(L.sleeping) \cup {o} /\ IsInjective(S.sleeping)
  BY <1>1, <1>2, <1>3, DistinctAppend
<1>5. Sorted(S) /\ Held(S) = Held(L) \cup {o}
  BY <1>2, <1>4 DEF Sorted, Held
<1>6. S.counter[o] < MaxActive
  BY <1>2, ObjectListAssumption
<1>7. Asked(S, processing_activate(S, o), o, 1)
  BY <1>2, <1>5, <1>6, ActivateStep
<1> QED
  BY <1>2, <1>5, <1>7 DEF S

-----------------------------------------------------------------------------
(* What a step leaves alone.                                               *)

LEMMA CoreTypes ==
    ASSUME Core
    PROVE  /\ list \in Lists /\ Live = Held(list) /\ Live \subseteq Objects
           /\ MaxActive \in Nat \ {0} /\ MaxCounter \in Nat
           /\ list.counter \in [Objects -> 0 .. MaxActive]
           /\ \A o \in Live : Requests(o) \in 0 .. 2 /\ Dropped(o) \in 0 .. 1
<1>1. list \in Lists
  BY DEF Core, TypeOK
<1>2. Live \subseteq Objects
  BY LiveTypes DEF Core
<1> QED
  BY <1>1, <1>2, FieldTypes, ObjectListAssumption DEF Live, Requests, Dropped

\* Requests of one object of the level are counted; the others keep theirs.
LEMMA CountedKept ==
    ASSUME Core, NEW o \in Live, Live' = Live,
           \A q \in Objects : q # o => /\ body'[q] = body[q] /\ list'.counter[q] = list.counter[q]
                                       /\ Driven(q)' = Driven(q),
           Requests(o)' <= list'.counter[o], list'.counter[o] <= MaxCounter + Dropped(o)'
    PROVE  Counted'
<1>1. ASSUME NEW q \in Live, q # o
      PROVE  Requests(q)' <= list'.counter[q] /\ list'.counter[q] <= MaxCounter + Dropped(q)'
  <2>1. q \in Objects
    BY CoreTypes
  <2>2. Requests(q)' = Requests(q) /\ Dropped(q)' = Dropped(q) /\ list'.counter[q] = list.counter[q]
    BY <1>1, <2>1 DEF Requests, Dropped
  <2>3. Requests(q) <= list.counter[q] /\ list.counter[q] <= MaxCounter + Dropped(q)
    BY DEF Core, Counted
  <2> QED
    BY <2>2, <2>3
<1> QED
  BY <1>1 DEF Counted

LEMMA AbsentKept ==
    ASSUME Core, Live' = Live, freed' = freed, getDestroy' = getDestroy,
           \A q \in Objects \ Live : /\ body'[q] = body[q] /\ Parent'[q] = Parent[q]
                                     /\ Driven(q)' => Driven(q)
                                     /\ q \in freed \/ list'.counter[q] = list.counter[q]
    PROVE  Absent'
  BY DEF Core, Absent

LEMMA SeatsKept ==
    ASSUME Core, Live' = Live, UNCHANGED <<m_holder, m_owner, freed>>,
           \A q \in Objects \ Live : list'.counter[q] = list.counter[q]
    PROVE  Seats'
<1>1. Live \cap freed = {} /\ freed \subseteq Objects
  BY DEF Core, Absent, TypeOK
<1> QED
  BY <1>1 DEF Core, Seats

\* A shell may move or rest without any inventory noticing.
Loose == {"solid", "moving", "stopping", "still"}

LEMMA FamiliesKept ==
    ASSUME Core, Live' = Live, UNCHANGED <<Parent, getDestroy>>,
           \A q \in Objects : \/ body'[q] = body[q]
                              \/ /\ body[q] \in Loose /\ body'[q] \in Loose
                                 /\ q \in Shells \/ body'[q] = "solid"
    PROVE  Families'
<1>1. ASSUME NEW q \in Objects
      PROVE  /\ Parent[q] # NULL <=> body'[q] \in {"ruck", "belt", "slot"}
             /\ body'[q] \in {"moving", "stopping", "still"} => q \in Shells
  BY <1>1 DEF Core, Families, Loose
<1>2. \A q \in Objects : Parent[q] # NULL =>
          /\ q \in Items /\ Parent[q] \in Live
          /\ Parent[Parent[q]] = NULL
          /\ getDestroy[q] = getDestroy[Parent[q]]
  BY DEF Core, Families
<1> QED
  BY <1>1, <1>2 DEF Families

LEMMA DoomedKept ==
    ASSUME Core, Live' = Live, UNCHANGED <<getDestroy, destroy_queue>>,
           \A q \in Objects : getDestroy[q] => Parent'[q] = Parent[q]
    PROVE  Doomed'
<1>1. destroy_queue \in Seq(Objects)
  BY DEF Core, TypeOK
<1>2. \A i \in DOMAIN destroy_queue : getDestroy[destroy_queue[i]] /\ destroy_queue[i] \in Objects
  BY <1>1, RangeIs, CoreTypes DEF Core, Doomed
<1>3. Doomed
  BY DEF Core
<1> QED
  BY <1>2, <1>3 DEF Doomed

LEMMA PushingKept ==
    ASSUME Core, Live \subseteq Live', UNCHANGED crowing,
           pc' \in {"frame", "render"} \/ pc' = pc
    PROVE  Pushing'
  BY DEF Core, Pushing

LEMMA PushingIdle ==
    ASSUME \A t \in Threads : crowing[t] = Idle, UNCHANGED crowing
    PROVE  Pushing'
<1>1. Len(Idle) = 0
  BY OneTuple DEF Idle
<1> QED
  BY <1>1 DEF Pushing

-----------------------------------------------------------------------------
(* The invariant of the lists, the counters, the families and the queue.   *)

LEMMA FrameIdle ==
    ASSUME Frame, Stays
    PROVE  /\ \A t \in Threads : crowing[t] = Idle
           /\ UNCHANGED <<crowing, pc, todo, calls, updated, told, it>>
  BY DEF Frame, Stays, loops

LEMMA LoopingKept ==
    ASSUME Core, UNCHANGED <<pc, todo, calls>>
    PROVE  Looping'
  BY DEF Core, Looping

LEMMA CoreSpawn ==
    ASSUME Core, MaxCounter < MaxActive, NEW o \in Objects, Spawn(o), TypeOK'
    PROVE  Core' /\ Live \subseteq Live'
<1> DEFINE S == [list EXCEPT !.sleeping = Append(@, o)]
<1>1. /\ Frame /\ Stays /\ o \notin Live /\ o \notin freed
      /\ list' = processing_activate(S, o)
      /\ UNCHANGED <<Parent, m_holder, m_owner, getDestroy, destroy_queue, freed>>
  BY DEF Spawn, kept
<1>2. /\ list \in Lists /\ Live = Held(list) /\ Live \subseteq Objects
      /\ MaxActive \in Nat \ {0} /\ MaxCounter \in Nat
      /\ list.counter \in [Objects -> 0 .. MaxActive]
  BY CoreTypes
<1>3. /\ body[o] = "solid" /\ Parent[o] = NULL /\ ~Driven(o) /\ list.counter[o] = 0 /\ ~getDestroy[o]
  BY <1>1, <1>2 DEF Core, Absent
<1>4. /\ S \in Lists /\ Sorted(S) /\ Held(S) = Held(list) \cup {o} /\ S.counter = list.counter
      /\ S.crow = list.crow /\ S.crows = list.crows /\ S.cur = list.cur
      /\ Asked(S, processing_activate(S, o), o, 1)
  BY <1>1, <1>2, <1>3, SpawnAsks DEF Core
<1> HIDE DEF S
<1>5. /\ list' \in Lists /\ Sorted(list') /\ Held(list') = Held(list) \cup {o}
      /\ list'.counter[o] = 1
      /\ \A q \in Objects : q # o => list'.counter[q] = list.counter[q]
  <2>1. Asked(S, list', o, 1)
    BY <1>1, <1>4
  <2>2. /\ list' \in Lists /\ Sorted(list') /\ Held(list') = Held(S)
        /\ list'.counter[o] = S.counter[o] + 1
        /\ \A q \in Objects : q # o => list'.counter[q] = S.counter[q]
    BY <1>4, <2>1, AskedFacts
  <2> QED
    BY <1>3, <1>4, <2>2
<1>6. Live' = Live \cup {o}
  BY <1>2, <1>5 DEF Live
<1>7. /\ body'[o] \in {"moving", "stopping", "solid"} /\ (o \in Shells \/ body'[o] = "solid")
      /\ \A q \in Objects : q # o => body'[q] = body[q]
  <2>1. PICK b : /\ body' = [body EXCEPT ![o] = b]
                 /\ (b \in {"moving", "stopping"} /\ o \in Shells) \/ b = "solid"
    BY DEF Spawn
  <2>2. body \in [Objects -> {"solid", "moving", "stopping", "still", "ruck", "belt", "slot"}]
    BY DEF Core, TypeOK
  <2> QED
    BY <2>1, <2>2
<1>8. Pushing' /\ Looping'
  BY <1>1, FrameIdle, PushingIdle, LoopingKept
<1>9. Counted'
  <2>1. Requests(o)' = 1 /\ Dropped(o)' = 1
    <3>1. ~Driven(o)'
      BY <1>1, <1>3 DEF Driven
    <3> QED
      BY <1>7, <3>1 DEF Requests, Dropped
  <2>2. ASSUME NEW q \in Live
        PROVE  Requests(q)' <= list'.counter[q] /\ list'.counter[q] <= MaxCounter + Dropped(q)'
    <3>1. q \in Objects /\ q # o
      BY <1>1, <1>2
    <3>2. Requests(q)' = Requests(q) /\ Dropped(q)' = Dropped(q) /\ list'.counter[q] = list.counter[q]
      BY <1>1, <1>5, <1>7, <3>1 DEF Requests, Dropped, Driven
    <3>3. Requests(q) <= list.counter[q] /\ list.counter[q] <= MaxCounter + Dropped(q)
      BY DEF Core, Counted
    <3> QED
      BY <3>2, <3>3
  <2>3. Requests(o)' <= list'.counter[o] /\ list'.counter[o] <= MaxCounter + Dropped(o)'
    BY <1>2, <1>5, <2>1
  <2> QED
    BY <1>6, <2>2, <2>3 DEF Counted
<1>10. Absent'
  BY <1>1, <1>2, <1>5, <1>6, <1>7 DEF Core, Absent, Driven
<1>11. Seats'
  <2>1. \A q \in freed : list'.counter[q] = list.counter[q]
    BY <1>1, <1>5 DEF Core, TypeOK
  <2> QED
    BY <1>1, <1>6, <2>1 DEF Core, Seats
<1>12. Families'
  <2>1. \A q \in Objects : q # o => body'[q] = body[q]
    BY <1>7
  <2>2. Families
    BY DEF Core
  <2>3. UNCHANGED <<Parent, getDestroy>> /\ Live \subseteq Live'
    BY <1>1, <1>6
  <2>4. Parent[o] = NULL /\ body'[o] \notin {"ruck", "belt", "slot"}
        /\ (body'[o] \in {"moving", "stopping", "still"} => o \in Shells)
    BY <1>3, <1>7
  <2>5. ASSUME NEW q \in Objects
        PROVE  /\ Parent[q] # NULL <=> body'[q] \in {"ruck", "belt", "slot"}
               /\ body'[q] \in {"moving", "stopping", "still"} => q \in Shells
    BY <2>1, <2>2, <2>4 DEF Families
  <2>6. \A q \in Objects : Parent[q] # NULL =>
            /\ q \in Items /\ Parent[q] \in Live'
            /\ Parent[Parent[q]] = NULL
            /\ getDestroy[q] = getDestroy[Parent[q]]
    BY <2>2, <2>3 DEF Families
  <2> QED
    BY <2>3, <2>5, <2>6 DEF Families
<1>13. Doomed'
  BY <1>1, <1>3, <1>6 DEF Core, Doomed
<1> QED
  BY <1>5, <1>6, <1>8, <1>9, <1>10, <1>11, <1>12, <1>13 DEF Core

\* The requests of the calls of one step, and what they leave alone.
Asks(o, k) ==
    /\ list' \in Lists /\ Sorted(list') /\ Live' = Live
    /\ list'.counter[o] = list.counter[o] + k
    /\ \A q \in Objects : q # o => list'.counter[q] = list.counter[q]

LEMMA AsksFrom ==
    ASSUME Core, NEW o \in Objects, NEW k \in Int, Asked(list, list', o, k)
    PROVE  Asks(o, k)
<1>1. list \in Lists /\ Live = Held(list)
  BY CoreTypes
<1>2. /\ list' \in Lists /\ Sorted(list') /\ Held(list') = Held(list)
      /\ list'.counter[o] = list.counter[o] + k
      /\ \A q \in Objects : q # o => list'.counter[q] = list.counter[q]
  BY <1>1, AskedFacts, ZenonT(30)
<1> QED
  BY <1>1, <1>2 DEF Asks, Live

LEMMA LooseBodies ==
    ASSUME Core, NEW o \in Objects
    PROVE  /\ Parent[o] = NULL <=> body[o] \in Loose
           /\ Parent[o] # NULL => o \in Items /\ o \notin Cars /\ ~Driven(o) /\ o \in Shells
           /\ o \in Items => ~Driven(o)
<1>1. body[o] \in {"solid", "moving", "stopping", "still", "ruck", "belt", "slot"}
  BY DEF Core, TypeOK
<1>2. Parent[o] # NULL <=> body[o] \in {"ruck", "belt", "slot"}
  BY DEF Core, Families
<1>3. Parent[o] # NULL => o \in Items
  BY DEF Core, Families
<1>4. o \in Items => o \notin Cars /\ o \in Shells
  BY ObjectListAssumption
<1> QED
  BY <1>1, <1>2, <1>3, <1>4 DEF Loose, Driven

LEMMA CoreTake ==
    ASSUME Core, MaxCounter < MaxActive, TypeOK',
           NEW o \in Items, NEW p \in Owners, NEW place \in {"slot", "belt", "ruck"}, Take(o, p, place)
    PROVE  Core' /\ Live \subseteq Live'
<1>1. /\ Frame /\ Stays /\ {o, p} \subseteq Live /\ o # p /\ ~getDestroy[o] /\ ~getDestroy[p]
      /\ Parent[o] = NULL /\ Parent[p] = NULL /\ Children(o) = {}
      /\ list.counter[o] < MaxCounter
      /\ list' = processing_deactivate(Placed(Crow(ShellDeactivated(list, o, body[o]), o), o, place), o)
      /\ body' = [body EXCEPT ![o] = place]
      /\ Parent' = [Parent EXCEPT ![o] = p]
      /\ UNCHANGED <<m_holder, m_owner, getDestroy, destroy_queue, freed>>
  BY DEF Take
<1>2. /\ list \in Lists /\ Live = Held(list) /\ Live \subseteq Objects /\ o \in Held(list)
      /\ MaxActive \in Nat \ {0} /\ MaxCounter \in Nat /\ o \in Objects /\ p \in Objects
      /\ list.counter \in [Objects -> 0 .. MaxActive] /\ Sorted(list)
  BY <1>1, CoreTypes DEF Core
<1>3. body[o] \in Loose /\ ~Driven(o)
  BY <1>1, <1>2, LooseBodies
<1>4. Requests(o) <= list.counter[o]
  BY <1>1 DEF Core, Counted
<1>5. list.counter[o] > 0 \/ body[o] \in {"moving", "still"}
  <2>1. CASE body[o] \in {"solid", "stopping"}
    <3>1. Requests(o) = 1
      BY <1>3, <2>1 DEF Requests
    <3> QED
      BY <1>2, <1>4, <3>1
  <2> QED
    BY <1>3, <2>1 DEF Loose
<1>6. PICK k \in -1 .. 1 :
         /\ k = (IF body[o] \in {"moving", "still"} THEN 1 ELSE 0) + (IF place = "ruck" THEN 0 ELSE 1) - 1
         /\ Asked(list, list', o, k)
  <2> DEFINE b == body[o]
  <2> HIDE DEF b
  <2>1. \E k \in -1 .. 1 :
           /\ k = (IF b \in {"moving", "still"} THEN 1 ELSE 0) + (IF place = "ruck" THEN 0 ELSE 1) - 1
           /\ Asked(list, processing_deactivate(Placed(Crow(ShellDeactivated(list, o, b), o), o, place), o), o, k)
    BY <1>1, <1>2, <1>5, TakeAsks DEF b
  <2> QED
    BY <1>1, <2>1 DEF b
<1>7. Asks(o, k)
  BY <1>2, <1>6, AsksFrom
<1>8. list' \in Lists /\ Sorted(list') /\ Live' = Live
  BY <1>7 DEF Asks
<1>9. /\ body'[o] = place /\ \A q \in Objects : q # o => body'[q] = body[q]
      /\ Parent'[o] = p /\ \A q \in Objects : q # o => Parent'[q] = Parent[q]
  BY <1>1, <1>2 DEF Core, TypeOK
<1>10. Pushing' /\ Looping'
  BY <1>1, FrameIdle, PushingIdle, LoopingKept
<1>11. Counted'
  <2>1. ~Driven(o)' /\ \A q \in Objects : Driven(q)' = Driven(q)
    BY <1>1, <1>3 DEF Driven
  <2>2. Requests(o)' = (IF place = "ruck" THEN 0 ELSE 1) /\ Dropped(o)' = 0
    BY <1>9, <2>1 DEF Requests, Dropped
  <2>3. Requests(o) = IF body[o] = "still" THEN 0 ELSE 1
    BY <1>3 DEF Requests, Loose
  <2>4. list'.counter[o] = list.counter[o] + k /\ list.counter[o] \in Nat
    BY <1>2, <1>7 DEF Asks
  <2>5. Requests(o)' <= list'.counter[o] /\ list'.counter[o] <= MaxCounter
    BY <1>1, <1>2, <1>4, <1>6, <2>2, <2>3, <2>4
  <2>6. Requests(o)' <= list'.counter[o] /\ list'.counter[o] <= MaxCounter + Dropped(o)'
    BY <1>2, <2>2, <2>5
  <2>7. \A q \in Objects : q # o => list'.counter[q] = list.counter[q]
    BY <1>7 DEF Asks
  <2> QED
    BY <1>1, <1>8, <1>9, <2>1, <2>6, <2>7, CountedKept
<1>12. Absent' /\ Seats'
  <2>1. \A q \in Objects \ Live : /\ body'[q] = body[q] /\ Parent'[q] = Parent[q]
                                  /\ Driven(q)' => Driven(q)
                                  /\ list'.counter[q] = list.counter[q]
    BY <1>1, <1>7, <1>9 DEF Asks, Driven
  <2> QED
    BY <1>1, <1>8, <2>1, AbsentKept, SeatsKept
<1>13. Doomed'
  BY <1>1, <1>8, <1>9, DoomedKept
<1>14. Families'
  <2>1. \A q \in Objects : Parent[q] # NULL => q \in Live /\ Parent[q] # o
    BY <1>1 DEF Core, Absent, Children
  <2>2. ASSUME NEW q \in Objects, q # o
        PROVE  /\ Parent'[q] # NULL <=> body'[q] \in {"ruck", "belt", "slot"}
               /\ body'[q] \in {"moving", "stopping", "still"} => q \in Shells
               /\ Parent'[q] # NULL => /\ q \in Items /\ Parent'[q] \in Live
                                       /\ Parent'[Parent'[q]] = NULL
                                       /\ getDestroy[q] = getDestroy[Parent'[q]]
    <3>1. Parent'[q] = Parent[q] /\ body'[q] = body[q]
      BY <1>9, <2>2
    <3>2. /\ Parent[q] # NULL <=> body[q] \in {"ruck", "belt", "slot"}
          /\ body[q] \in {"moving", "stopping", "still"} => q \in Shells
          /\ Parent[q] # NULL => /\ q \in Items /\ Parent[q] \in Live
                                 /\ Parent[Parent[q]] = NULL
                                 /\ getDestroy[q] = getDestroy[Parent[q]]
      BY DEF Core, Families
    <3>3. Parent[q] # NULL => Parent'[Parent[q]] = Parent[Parent[q]]
      BY <1>2, <1>9, <2>1, <3>2
    <3> QED
      BY <3>1, <3>2, <3>3
  <2>3. /\ Parent'[o] = p /\ p # NULL /\ body'[o] = place /\ Parent'[p] = NULL
        /\ getDestroy[o] = getDestroy[p]
    <3>1. getDestroy \in [Objects -> BOOLEAN]
      BY DEF Core, TypeOK
    <3> QED
      BY <1>1, <1>2, <1>9, <3>1, ConstantTypes
  <2> QED
    BY <1>1, <1>8, <2>2, <2>3 DEF Families
<1> QED
  BY <1>8, <1>10, <1>11, <1>12, <1>13, <1>14 DEF Core

LEMMA CoreMove ==
    ASSUME Core, MaxCounter < MaxActive, TypeOK',
           NEW o \in Items, NEW place \in {"slot", "belt", "ruck"}, Move(o, place)
    PROVE  Core' /\ Live \subseteq Live'
<1>1. /\ Frame /\ Stays /\ o \in Live /\ Parent[o] # NULL /\ body[o] # place
      /\ list.counter[o] < MaxCounter
      /\ list' = Placed(LeftPlace(list, o, body[o], place), o, place)
      /\ body' = [body EXCEPT ![o] = place]
      /\ UNCHANGED <<Parent, m_holder, m_owner, getDestroy, destroy_queue, freed>>
  BY DEF Move, kept
<1>2. /\ list \in Lists /\ Live = Held(list) /\ Live \subseteq Objects /\ o \in Held(list)
      /\ MaxActive \in Nat \ {0} /\ MaxCounter \in Nat /\ o \in Objects
      /\ list.counter \in [Objects -> 0 .. MaxActive] /\ Sorted(list)
  BY <1>1, CoreTypes DEF Core
<1>3. body[o] \in {"slot", "belt", "ruck"} /\ ~Driven(o)
  BY <1>1, <1>2, LooseBodies DEF Core, Families
<1>4. Requests(o) <= list.counter[o] /\ Requests(o) = IF body[o] = "ruck" THEN 0 ELSE 1
  <2>1. Requests(o) <= list.counter[o]
    BY <1>1 DEF Core, Counted
  <2>2. Requests(o) = IF body[o] = "ruck" THEN 0 ELSE 1
    BY <1>3 DEF Requests
  <2> QED
    BY <2>1, <2>2
<1>5. PICK k \in -1 .. 1 :
         /\ k = (IF place = "ruck" THEN 0 ELSE 1) - (IF body[o] = "slot" /\ place # "slot" THEN 1 ELSE 0)
         /\ Asked(list, list', o, k)
  <2> DEFINE b == body[o]
  <2>1. b = "slot" => list.counter[o] > 0
    BY <1>2, <1>4
  <2> HIDE DEF b
  <2>2. \E k \in -1 .. 1 :
           /\ k = (IF place = "ruck" THEN 0 ELSE 1) - (IF b = "slot" /\ place # "slot" THEN 1 ELSE 0)
           /\ Asked(list, Placed(LeftPlace(list, o, b, place), o, place), o, k)
    BY <1>1, <1>2, <2>1, MoveAsks
  <2> QED
    BY <1>1, <2>2 DEF b
<1>6. Asks(o, k)
  BY <1>2, <1>5, AsksFrom
<1>7. /\ list' \in Lists /\ Sorted(list') /\ Live' = Live
      /\ \A q \in Objects : q # o => list'.counter[q] = list.counter[q]
  BY <1>6 DEF Asks
<1>8. body'[o] = place /\ \A q \in Objects : q # o => body'[q] = body[q]
  BY <1>1, <1>2 DEF Core, TypeOK
<1>9. Pushing' /\ Looping'
  BY <1>1, FrameIdle, PushingIdle, LoopingKept
<1>10. \A q \in Objects : Driven(q)' = Driven(q)
  BY <1>1 DEF Driven
<1>11. Counted'
  <2>1. Requests(o)' = (IF place = "ruck" THEN 0 ELSE 1) /\ Dropped(o)' = 0
    <3>1. ~Driven(o)'
      BY <1>1, <1>3 DEF Driven
    <3> QED
      BY <1>8, <3>1 DEF Requests, Dropped
  <2>2. list'.counter[o] = list.counter[o] + k /\ list.counter[o] \in Nat
    BY <1>2, <1>6 DEF Asks
  <2>3. Requests(o)' <= list'.counter[o] /\ list'.counter[o] <= MaxCounter
    BY <1>1, <1>2, <1>4, <1>5, <2>1, <2>2
  <2>4. Requests(o)' <= list'.counter[o] /\ list'.counter[o] <= MaxCounter + Dropped(o)'
    BY <1>2, <2>1, <2>3
  <2> QED
    BY <1>1, <1>7, <1>8, <1>10, <2>4, CountedKept
<1>12. Absent' /\ Seats'
  <2>1. \A q \in Objects \ Live : /\ body'[q] = body[q] /\ Parent'[q] = Parent[q]
                                  /\ Driven(q)' => Driven(q)
                                  /\ list'.counter[q] = list.counter[q]
    BY <1>1, <1>7, <1>8, <1>10
  <2> QED
    BY <1>1, <1>7, <2>1, AbsentKept, SeatsKept
<1>13. Doomed'
  BY <1>1, <1>7, DoomedKept
<1>14. Families'
  <2>1. Families
    BY DEF Core
  <2>2. ASSUME NEW q \in Objects
        PROVE  /\ Parent[q] # NULL <=> body'[q] \in {"ruck", "belt", "slot"}
               /\ body'[q] \in {"moving", "stopping", "still"} => q \in Shells
    BY <1>1, <1>8, <2>1 DEF Families
  <2> QED
    BY <1>1, <1>7, <2>1, <2>2 DEF Families
<1> QED
  BY <1>7, <1>9, <1>11, <1>12, <1>13, <1>14 DEF Core

LEMMA CoreReject ==
    ASSUME Core, MaxCounter < MaxActive, TypeOK',
           NEW o \in Items, NEW just_before_destroy \in BOOLEAN, Reject(o, just_before_destroy)
    PROVE  Core' /\ Live \subseteq Live'
<1> DEFINE to == IF just_before_destroy THEN "solid" ELSE "moving"
           A == processing_activate(list, o)
<1>1. /\ Frame /\ Stays /\ o \in Live /\ Parent[o] # NULL /\ ~getDestroy[o]
      /\ list' = Crow(IF body[o] = "ruck" THEN A ELSE processing_deactivate(A, o), o)
      /\ body' = [body EXCEPT ![o] = to]
      /\ Parent' = [Parent EXCEPT ![o] = NULL]
      /\ UNCHANGED <<m_holder, m_owner, getDestroy, destroy_queue, freed>>
  BY DEF Reject
<1>2. /\ list \in Lists /\ Live = Held(list) /\ Live \subseteq Objects /\ o \in Held(list)
      /\ MaxActive \in Nat \ {0} /\ MaxCounter \in Nat /\ o \in Objects
      /\ list.counter \in [Objects -> 0 .. MaxActive] /\ Sorted(list)
  BY <1>1, CoreTypes DEF Core
<1>3. body[o] \in {"slot", "belt", "ruck"} /\ ~Driven(o) /\ o \in Shells
  BY <1>1, <1>2, LooseBodies DEF Core, Families
<1>4. /\ Requests(o) <= list.counter[o] /\ Requests(o) = IF body[o] = "ruck" THEN 0 ELSE 1
      /\ list.counter[o] <= MaxCounter
  <2>1. Requests(o) <= list.counter[o] /\ list.counter[o] <= MaxCounter + Dropped(o)
    BY <1>1 DEF Core, Counted
  <2>2. Requests(o) = IF body[o] = "ruck" THEN 0 ELSE 1
    BY <1>3 DEF Requests
  <2>3. Dropped(o) = 0
    BY <1>3 DEF Dropped
  <2> QED
    BY <1>2, <2>1, <2>2, <2>3
<1>5. PICK k \in 0 .. 1 : k = (IF body[o] = "ruck" THEN 1 ELSE 0) /\ Asked(list, list', o, k)
  <2> DEFINE b == body[o]
  <2>1. list.counter[o] < MaxActive
    BY <1>2, <1>4
  <2> HIDE DEF b
  <2>2. \E k \in 0 .. 1 :
           /\ k = IF b = "ruck" THEN 1 ELSE 0
           /\ Asked(list, Crow(IF b = "ruck" THEN A ELSE processing_deactivate(A, o), o), o, k)
    BY <1>2, <2>1, RejectAsks
  <2> QED
    BY <1>1, <2>2 DEF b
<1> HIDE DEF A
<1>6. Asks(o, k)
  BY <1>2, <1>5, AsksFrom
<1>7. /\ list' \in Lists /\ Sorted(list') /\ Live' = Live
      /\ \A q \in Objects : q # o => list'.counter[q] = list.counter[q]
  BY <1>6 DEF Asks
<1>8. /\ body'[o] = to /\ \A q \in Objects : q # o => body'[q] = body[q]
      /\ Parent'[o] = NULL /\ \A q \in Objects : q # o => Parent'[q] = Parent[q]
      /\ to \in {"solid", "moving"}
  BY <1>1, <1>2 DEF Core, TypeOK
<1> HIDE DEF to
<1>9. Pushing' /\ Looping'
  BY <1>1, FrameIdle, PushingIdle, LoopingKept
<1>10. \A q \in Objects : Driven(q)' = Driven(q)
  BY <1>1 DEF Driven
<1>11. Counted'
  <2>1. Requests(o)' = 1 /\ Dropped(o)' = 1
    <3>1. ~Driven(o)'
      BY <1>1, <1>3 DEF Driven
    <3> QED
      BY <1>8, <3>1 DEF Requests, Dropped
  <2>2. list'.counter[o] = list.counter[o] + k /\ list.counter[o] \in Nat
    BY <1>2, <1>6 DEF Asks
  <2>3. 1 <= list'.counter[o] /\ list'.counter[o] <= MaxCounter + 1
    BY <1>2, <1>4, <1>5, <2>2
  <2>4. Requests(o)' <= list'.counter[o] /\ list'.counter[o] <= MaxCounter + Dropped(o)'
    BY <1>2, <2>1, <2>3
  <2> QED
    BY <1>1, <1>7, <1>8, <1>10, <2>4, CountedKept
<1>12. Absent' /\ Seats'
  <2>1. \A q \in Objects \ Live : /\ body'[q] = body[q] /\ Parent'[q] = Parent[q]
                                  /\ Driven(q)' => Driven(q)
                                  /\ list'.counter[q] = list.counter[q]
    BY <1>1, <1>7, <1>8, <1>10
  <2> QED
    BY <1>1, <1>7, <2>1, AbsentKept, SeatsKept
<1>13. Doomed'
  BY <1>1, <1>7, <1>8, DoomedKept
<1>14. Families'
  <2>1. Families
    BY DEF Core
  <2>2. \A q \in Objects : Parent[q] # NULL => Parent[q] # o /\ Parent[q] \in Objects
    BY <1>1, <1>2, <2>1 DEF Families
  <2>3. ASSUME NEW q \in Objects, q # o
        PROVE  /\ Parent'[q] # NULL <=> body'[q] \in {"ruck", "belt", "slot"}
               /\ body'[q] \in {"moving", "stopping", "still"} => q \in Shells
               /\ Parent'[q] # NULL => /\ q \in Items /\ Parent'[q] \in Live
                                       /\ Parent'[Parent'[q]] = NULL
                                       /\ getDestroy[q] = getDestroy[Parent'[q]]
    <3>1. Parent'[q] = Parent[q] /\ body'[q] = body[q]
      BY <1>8, <2>3
    <3>2. Parent[q] # NULL => Parent'[Parent[q]] = Parent[Parent[q]]
      BY <1>8, <2>2
    <3> QED
      BY <2>1, <3>1, <3>2 DEF Families
  <2>4. Parent'[o] = NULL /\ body'[o] \in {"solid", "moving"}
    BY <1>8
  <2> QED
    BY <1>1, <1>3, <1>7, <2>3, <2>4 DEF Families
<1> QED
  BY <1>7, <1>9, <1>11, <1>12, <1>13, <1>14 DEF Core

LEMMA CoreAttach ==
    ASSUME Core, MaxCounter < MaxActive, TypeOK',
           NEW d \in Drivers, NEW c \in Cars, attach_Actor(d, c)
    PROVE  Core' /\ Live \subseteq Live'
<1>1. /\ Frame /\ Stays /\ c \in Live /\ d \in Live
      /\ m_holder[d] = NULL /\ m_owner[c] = NULL
      /\ list.counter[c] < MaxCounter
      /\ m_holder' = [m_holder EXCEPT ![d] = c] /\ m_owner' = [m_owner EXCEPT ![c] = d]
      /\ list' = processing_activate(ShellWoken(list, c, body[c]), c)
      /\ body' = [body EXCEPT ![c] = IF c \in Shells THEN "moving" ELSE body[c]]
      /\ UNCHANGED <<Parent, getDestroy, destroy_queue, freed>>
  BY DEF attach_Actor
<1>2. /\ list \in Lists /\ Live = Held(list) /\ Live \subseteq Objects /\ c \in Held(list)
      /\ MaxActive \in Nat \ {0} /\ MaxCounter \in Nat /\ c \in Objects /\ d \in Objects
      /\ list.counter \in [Objects -> 0 .. MaxActive] /\ Sorted(list) /\ d # NULL /\ c # NULL
  BY <1>1, CoreTypes, ConstantTypes DEF Core
<1>3. Parent[c] = NULL /\ body[c] \in Loose
  BY <1>2, LooseBodies
<1>4. body[c] # "solid" => c \in Shells
  BY <1>2, <1>3 DEF Core, Families, Loose
<1>5. Requests(c) <= list.counter[c] /\ Requests(c) = IF body[c] = "still" THEN 0 ELSE 1
  <2>1. Requests(c) <= list.counter[c]
    BY <1>1 DEF Core, Counted
  <2>2. Requests(c) = IF body[c] = "still" THEN 0 ELSE 1
    BY <1>1, <1>3 DEF Requests, Driven, Loose
  <2> QED
    BY <2>1, <2>2
<1>6. PICK k \in 1 .. 2 : k = (IF body[c] = "still" THEN 2 ELSE 1) /\ Asked(list, list', c, k)
  <2> DEFINE b == body[c]
  <2> HIDE DEF b
  <2>1. \E k \in 1 .. 2 :
           /\ k = IF b = "still" THEN 2 ELSE 1
           /\ Asked(list, processing_activate(ShellWoken(list, c, b), c), c, k)
    BY <1>1, <1>2, AttachAsks
  <2> QED
    BY <1>1, <2>1 DEF b
<1>7. Asks(c, k)
  BY <1>2, <1>6, AsksFrom
<1>8. /\ list' \in Lists /\ Sorted(list') /\ Live' = Live
      /\ \A q \in Objects : q # c => list'.counter[q] = list.counter[q]
  BY <1>7 DEF Asks
<1>9. /\ body'[c] = (IF c \in Shells THEN "moving" ELSE body[c])
      /\ \A q \in Objects : q # c => body'[q] = body[q]
      /\ m_owner'[c] = d /\ \A q \in Cars : q # c => m_owner'[q] = m_owner[q]
      /\ m_holder'[d] = c /\ \A e \in Drivers : e # d => m_holder'[e] = m_holder[e]
  BY <1>1, <1>2 DEF Core, TypeOK
<1>10. body'[c] \in {"moving", "solid"} /\ (body'[c] = "solid" => body[c] = "solid")
  BY <1>4, <1>9
<1>11. Pushing' /\ Looping'
  BY <1>1, FrameIdle, PushingIdle, LoopingKept
<1>12. \A q \in Objects : q # c => Driven(q)' = Driven(q)
  BY <1>9 DEF Driven
<1>13. Counted'
  <2>1. Requests(c)' = 2 /\ Dropped(c)' = 1
    <3>1. Driven(c)'
      BY <1>2, <1>9 DEF Driven
    <3> QED
      BY <1>10, <3>1 DEF Requests, Dropped
  <2>2. list'.counter[c] = list.counter[c] + k /\ list.counter[c] \in Nat
    BY <1>2, <1>7 DEF Asks
  <2>3. 2 <= list'.counter[c] /\ list'.counter[c] <= MaxCounter + 1
    BY <1>1, <1>2, <1>5, <1>6, <2>2
  <2>4. Requests(c)' <= list'.counter[c] /\ list'.counter[c] <= MaxCounter + Dropped(c)'
    BY <2>1, <2>3
  <2> QED
    BY <1>1, <1>8, <1>9, <1>12, <2>4, CountedKept
<1>14. Absent'
  <2>1. \A q \in Objects \ Live : /\ body'[q] = body[q] /\ Parent'[q] = Parent[q]
                                  /\ Driven(q)' => Driven(q)
                                  /\ list'.counter[q] = list.counter[q]
    BY <1>1, <1>8, <1>9, <1>12
  <2> QED
    BY <1>1, <1>8, <2>1, AbsentKept
<1>15. Seats'
  <2>1. Live \cap freed = {} /\ freed \subseteq Objects
    BY DEF Core, Absent, TypeOK
  <2>2. \A e \in Drivers : m_holder[e] # c
    BY <1>1, <1>2, <2>1, ConstantTypes DEF Core, Seats
  <2>3. m_holder \in [Drivers -> Cars \cup {NULL}]
    BY DEF Core, TypeOK
  <2>4. ASSUME NEW e \in Drivers, m_holder'[e] # NULL
        PROVE  \/ m_holder'[e] \in Live /\ m_owner'[m_holder'[e]] = e
               \/ m_holder'[e] \in freed /\ list'.counter[m_holder'[e]] = 0
    <3>1. CASE e = d
      BY <1>1, <1>9, <3>1
    <3>2. CASE e # d
      <4>1. m_holder'[e] = m_holder[e] /\ m_holder[e] # c /\ m_holder[e] \in Cars
        BY <1>9, <2>2, <2>3, <2>4, <3>2
      <4>2. m_owner'[m_holder[e]] = m_owner[m_holder[e]]
        BY <1>9, <4>1
      <4>3. list'.counter[m_holder[e]] = list.counter[m_holder[e]]
        BY <1>8, <4>1, ConstantTypes
      <4> QED
        BY <2>4, <4>1, <4>2, <4>3 DEF Core, Seats
    <3> QED
      BY <3>1, <3>2
  <2>5. \A e, f \in Drivers : m_holder'[e] = m_holder'[f] /\ m_holder'[e] # NULL => e = f
    BY <1>9, <2>2 DEF Core, Seats
  <2> QED
    BY <1>1, <1>8, <2>4, <2>5 DEF Seats
<1>16. Families' /\ Doomed'
  <2>1. \A q \in Objects : \/ body'[q] = body[q]
                           \/ /\ body[q] \in Loose /\ body'[q] \in Loose
                              /\ q \in Shells \/ body'[q] = "solid"
    BY <1>3, <1>4, <1>9 DEF Loose
  <2> QED
    BY <1>1, <1>8, <2>1, FamiliesKept, DoomedKept
<1> QED
  BY <1>8, <1>11, <1>13, <1>14, <1>15, <1>16 DEF Core

\* A wrapped request: the counter changes and the lists do not.
LEMMA WrapDown ==
    ASSUME NEW L \in Lists, NEW o \in Objects, L.counter[o] = 0
    PROVE  LET M == processing_deactivate(L, o)
           IN  /\ M \in Lists /\ M.active = L.active /\ M.sleeping = L.sleeping
               /\ M.crow = L.crow /\ M.crows = L.crows /\ M.cur = L.cur
               /\ \A q \in Objects : q # o => M.counter[q] = L.counter[q]
<1> DEFINE C == [L EXCEPT !.counter[o] = MaxActive]
<1>1. L.counter[o] \in 0 .. MaxActive /\ MaxActive \in Nat \ {0}
  BY FieldTypes, ObjectListAssumption
<1>2. (L.counter[o] - 1) % (MaxActive + 1) = MaxActive
  BY <1>1, Wraps
<1>3. processing_deactivate(L, o) = C
  BY <1>1, <1>2 DEF processing_deactivate
<1>4. C \in Lists
  <2>1. MaxActive \in 0 .. MaxActive
    BY <1>1
  <2> QED
    BY <2>1 DEF Lists
<1>5. /\ C.active = L.active /\ C.sleeping = L.sleeping /\ C.crow = L.crow /\ C.crows = L.crows
      /\ C.cur = L.cur /\ C.counter = [L.counter EXCEPT ![o] = MaxActive]
  BY <1>4 DEF Lists
<1> HIDE DEF C
<1>6. \A q \in Objects : q # o => C.counter[q] = L.counter[q]
  BY <1>5, FieldTypes
<1> QED
  BY <1>3, <1>4, <1>5, <1>6

LEMMA WrapUp ==
    ASSUME NEW L \in Lists, NEW o \in Objects, L.counter[o] = MaxActive
    PROVE  LET M == processing_activate(L, o)
           IN  /\ M \in Lists /\ M.active = L.active /\ M.sleeping = L.sleeping
               /\ M.crow = L.crow /\ M.crows = L.crows /\ M.cur = L.cur
               /\ \A q \in Objects : q # o => M.counter[q] = L.counter[q]
<1> DEFINE C == [L EXCEPT !.counter[o] = 0]
<1>1. L.counter[o] \in 0 .. MaxActive /\ MaxActive \in Nat \ {0}
  BY FieldTypes, ObjectListAssumption
<1>2. (L.counter[o] + 1) % (MaxActive + 1) = 0
  BY <1>1, Wraps
<1>3. processing_activate(L, o) = C
  BY <1>2 DEF processing_activate, FirstRequest
<1>4. C \in Lists
  <2>1. 0 \in 0 .. MaxActive
    BY <1>1
  <2> QED
    BY <2>1 DEF Lists
<1>5. /\ C.active = L.active /\ C.sleeping = L.sleeping /\ C.crow = L.crow /\ C.crows = L.crows
      /\ C.cur = L.cur /\ C.counter = [L.counter EXCEPT ![o] = 0]
  BY <1>4 DEF Lists
<1> HIDE DEF C
<1>6. \A q \in Objects : q # o => C.counter[q] = L.counter[q]
  BY <1>5, FieldTypes
<1> QED
  BY <1>3, <1>4, <1>5, <1>6

\* A driver leaves: a living car loses a request, a dead one wraps its counter.
Leaves(d) ==
    /\ m_holder[d] # NULL
    /\ list' = processing_deactivate(list, m_holder[d])
    /\ m_owner' = [m_owner EXCEPT ![m_holder[d]] = NULL]
    /\ m_holder' = [m_holder EXCEPT ![d] = NULL]
    /\ UNCHANGED <<body, Parent, getDestroy, destroy_queue, freed>>

CoreOfLists ==
    /\ list \in Lists /\ Sorted(list) /\ Counted /\ Absent /\ Seats /\ Families /\ Doomed

LEMMA CoreLeaves ==
    ASSUME Core, NEW d \in Drivers, Leaves(d)
    PROVE  CoreOfLists' /\ Live' = Live
<1> PICK c : c = m_holder[d]
  OBVIOUS
<1>1. /\ c \in Cars /\ c # NULL /\ c \in Objects
      /\ \/ c \in Live /\ m_owner[c] = d
         \/ c \in freed /\ c \notin Live /\ list.counter[c] = 0
  <2>1. c \in Cars \cup {NULL} /\ c # NULL
    BY DEF Core, TypeOK, Leaves
  <2> QED
    BY <2>1, ConstantTypes DEF Core, Seats, Absent
<1>2. /\ list' = processing_deactivate(list, c)
      /\ m_owner' = [m_owner EXCEPT ![c] = NULL]
      /\ m_holder' = [m_holder EXCEPT ![d] = NULL]
      /\ UNCHANGED <<body, Parent, getDestroy, destroy_queue, freed>>
  BY DEF Leaves
<1>3. \A e \in Drivers : e # d /\ m_holder[e] # NULL => m_holder[e] # c
  BY <1>1 DEF Core, Seats
<1>4. m_holder \in [Drivers -> Cars \cup {NULL}] /\ m_owner \in [Cars -> Drivers \cup {NULL}]
  BY DEF Core, TypeOK
<1>5. /\ list \in Lists /\ Live = Held(list) /\ Live \subseteq Objects
      /\ MaxActive \in Nat \ {0} /\ MaxCounter \in Nat
      /\ list.counter \in [Objects -> 0 .. MaxActive] /\ Sorted(list)
  BY CoreTypes DEF Core
<1>6. /\ m_owner'[c] = NULL /\ \A q \in Cars : q # c => m_owner'[q] = m_owner[q]
      /\ m_holder'[d] = NULL /\ \A e \in Drivers : e # d => m_holder'[e] = m_holder[e]
  BY <1>1, <1>2, <1>4
<1>7. ~Driven(c)' /\ \A q \in Objects : q # c => Driven(q)' = Driven(q)
  BY <1>6 DEF Driven
<1>8. /\ list' \in Lists /\ Sorted(list') /\ Live' = Live
      /\ \A q \in Objects : q # c => list'.counter[q] = list.counter[q]
      /\ c \in Live => /\ list.counter[c] >= Requests(c)
                       /\ list'.counter[c] = list.counter[c] - 1 /\ Driven(c)
  <2>1. CASE c \in Live
    <3>1. m_owner[c] = d /\ Driven(c)
      BY <1>1, <2>1, ConstantTypes DEF Core, Absent, Driven
    <3>2. list.counter[c] >= Requests(c) /\ list.counter[c] \in Nat /\ Requests(c) > 0
      BY <1>1, <1>5, <2>1, <3>1 DEF Core, Counted, Requests
    <3>3. list.counter[c] > 0
      BY <2>1, <3>2, CoreTypes
    <3>4. Asked(list, list', c, -1)
      BY <1>2, <1>5, <2>1, <3>3, DeactivateStep
    <3>5. Asks(c, -1)
      BY <1>1, <3>4, AsksFrom
    <3> QED
      BY <1>5, <3>1, <3>2, <3>5 DEF Asks
  <2>2. CASE c \notin Live
    <3>1. list.counter[c] = 0
      BY <1>1, <2>2
    <3>2. /\ list' \in Lists /\ list'.active = list.active /\ list'.sleeping = list.sleeping
          /\ \A q \in Objects : q # c => list'.counter[q] = list.counter[q]
      BY <1>1, <1>2, <1>5, <3>1, WrapDown
    <3>3. Live' = Live
      BY <3>2 DEF Live, Held
    <3>4. Sorted(list')
      <4>1. Range(list.active) \subseteq Live /\ Range(list.sleeping) \subseteq Live
        BY DEF Live, Held
      <4>2. \A q \in Live : list'.counter[q] = list.counter[q]
        BY <1>5, <2>2, <3>2
      <4> QED
        BY <1>5, <3>2, <4>1, <4>2 DEF Sorted
    <3> QED
      BY <2>2, <3>2, <3>3, <3>4
  <2> QED
    BY <2>1, <2>2
<1>9. Counted'
  <2>1. ASSUME NEW q \in Live
        PROVE  Requests(q)' <= list'.counter[q] /\ list'.counter[q] <= MaxCounter + Dropped(q)'
    <3>1. q \in Objects /\ Requests(q) <= list.counter[q] /\ list.counter[q] <= MaxCounter + Dropped(q)
      BY <1>5 DEF Core, Counted
    <3>2. Dropped(q)' = Dropped(q) /\ Dropped(q) \in 0 .. 1 /\ list.counter[q] \in Nat
      BY <1>2, <1>5, <3>1 DEF Dropped
    <3>3. CASE q = c
      <4>1. Requests(q)' = Requests(q) - 1
        BY <1>2, <1>7, <1>8, <3>3 DEF Requests
      <4>2. list'.counter[q] = list.counter[q] - 1 /\ Requests(q) \in Nat
        BY <1>8, <3>3, CoreTypes
      <4> QED
        BY <1>5, <3>1, <3>2, <4>1, <4>2
    <3>4. CASE q # c
      <4>1. Requests(q)' = Requests(q) /\ list'.counter[q] = list.counter[q]
        BY <1>2, <1>7, <1>8, <3>1, <3>4 DEF Requests
      <4> QED
        BY <3>1, <3>2, <4>1
    <3> QED
      BY <3>3, <3>4
  <2> QED
    BY <1>8, <2>1 DEF Counted
<1>10. Absent'
  <2>1. \A q \in Objects \ Live : /\ body'[q] = body[q] /\ Parent'[q] = Parent[q]
                                  /\ Driven(q)' => Driven(q)
                                  /\ q \in freed \/ list'.counter[q] = list.counter[q]
    BY <1>1, <1>2, <1>7, <1>8
  <2> QED
    BY <1>2, <1>8, <2>1, AbsentKept
<1>11. Seats'
  <2>1. ASSUME NEW e \in Drivers, m_holder'[e] # NULL
        PROVE  \/ m_holder'[e] \in Live /\ m_owner'[m_holder'[e]] = e
               \/ m_holder'[e] \in freed /\ list'.counter[m_holder'[e]] = 0
    <3>1. e # d /\ m_holder'[e] = m_holder[e] /\ m_holder[e] \in Cars /\ m_holder[e] # c
      BY <1>3, <1>4, <1>6, <2>1
    <3>2. m_owner'[m_holder[e]] = m_owner[m_holder[e]]
      BY <1>6, <3>1
    <3>3. list'.counter[m_holder[e]] = list.counter[m_holder[e]]
      BY <1>8, <3>1, ConstantTypes
    <3> QED
      BY <2>1, <3>1, <3>2, <3>3 DEF Core, Seats
  <2>2. \A e, f \in Drivers : m_holder'[e] = m_holder'[f] /\ m_holder'[e] # NULL => e = f
    BY <1>6 DEF Core, Seats
  <2> QED
    BY <1>2, <1>8, <2>1, <2>2 DEF Seats
<1>12. Families' /\ Doomed'
  <2>1. \A q \in Objects : body'[q] = body[q]
    BY <1>2
  <2> QED
    BY <1>2, <1>8, <2>1, FamiliesKept, DoomedKept
<1> QED
  BY <1>8, <1>9, <1>10, <1>11, <1>12 DEF CoreOfLists

LEMMA CoreDetach ==
    ASSUME Core, TypeOK', NEW d \in Drivers, detach_Actor(d)
    PROVE  Core' /\ Live \subseteq Live'
<1>1. Frame /\ Stays /\ Leaves(d)
  BY DEF detach_Actor, Leaves
<1>2. Pushing' /\ Looping'
  <2>1. UNCHANGED <<pc, todo, calls, crowing>>
    BY <1>1, FrameIdle
  <2> QED
    BY <1>1, <2>1, FrameIdle, PushingIdle, LoopingKept
<1> QED
  BY <1>1, <1>2, CoreLeaves DEF Core, CoreOfLists

\* Steps that only touch flags, crows, loops and threads.
LEMMA CoreKept ==
    ASSUME Core, TypeOK', SameLists(list, list'), UNCHANGED <<body, kept>>
    PROVE  CoreOfLists' /\ Live' = Live
<1>1. list' \in Lists /\ Sorted(list') /\ Live' = Live
  BY DEF Core, TypeOK, SameLists, Sorted, Live, Held
<1>2. list'.counter = list.counter /\ \A q \in Objects : body'[q] = body[q] /\ Parent'[q] = Parent[q]
  BY DEF SameLists, kept
<1>3. UNCHANGED <<m_holder, m_owner, getDestroy, destroy_queue, freed, Parent>>
  BY DEF kept
<1>4. \A q \in Objects : Driven(q)' = Driven(q)
  BY <1>3 DEF Driven
<1>5. Counted'
  <2>1. \A q \in Live : Requests(q)' = Requests(q) /\ Dropped(q)' = Dropped(q)
    BY <1>2, <1>4, CoreTypes DEF Requests, Dropped
  <2> QED
    BY <1>1, <1>2, <2>1 DEF Core, Counted
<1>6. Absent' /\ Seats'
  BY <1>1, <1>2, <1>3, <1>4, AbsentKept, SeatsKept
<1>7. Families' /\ Doomed'
  BY <1>1, <1>2, <1>3, FamiliesKept, DoomedKept
<1> QED
  BY <1>1, <1>5, <1>6, <1>7 DEF CoreOfLists

LEMMA CoreObjects ==
    ASSUME Core, TypeOK', NEW o \in Objects, shedule_Update(o) \/ Render(o)
    PROVE  Core' /\ Live \subseteq Live'
<1>1. list \in Lists /\ UNCHANGED <<body, kept, pc, todo, calls>>
  BY DEF shedule_Update, Render, Stays, loops, Core, TypeOK
<1>2. SameLists(list, list')
  <2>1. CASE shedule_Update(o)
    <3>1. list' = Crow(list, o)
      BY <2>1 DEF shedule_Update
    <3> QED
      BY <1>1, <3>1, MakeCrow
  <2>2. CASE Render(o)
    BY <2>2 DEF Render, SameLists
  <2> QED
    BY <2>1, <2>2
<1>3. CoreOfLists' /\ Live' = Live
  BY <1>1, <1>2, CoreKept
<1>4. Pushing'
  <2>1. CASE shedule_Update(o)
    BY <2>1, FrameIdle, PushingIdle DEF shedule_Update
  <2>2. CASE Render(o)
    <3>1. /\ pc = "render" /\ pc' = "render" /\ o \in Live /\ crowing' = [crowing EXCEPT !["primary"] = <<o>>]
      BY <2>2 DEF Render, loops
    <3>2. crowing \in [Threads -> Seq(Objects \cup Nat)]
      BY DEF Core, TypeOK
    <3> DEFINE e == <<o>>
    <3>3. Len(e) = 1 /\ e[1] = o
      BY OneTuple
    <3>4. crowing' = [crowing EXCEPT !["primary"] = e]
      BY <3>1
    <3> HIDE DEF e
    <3>5. \A t \in Threads : crowing'[t] = e \/ crowing'[t] = crowing[t]
      BY <3>2, <3>4
    <3> QED
      BY <1>3, <3>1, <3>3, <3>5 DEF Core, Pushing
  <2> QED
    BY <2>1, <2>2
<1>5. Looping'
  BY <1>1, LoopingKept
<1> QED
  BY <1>3, <1>4, <1>5 DEF Core, CoreOfLists

LEMMA CoreShells ==
    ASSUME Core, MaxCounter < MaxActive, TypeOK', NEW o \in Objects, Wake(o) \/ Rest(o)
    PROVE  Core' /\ Live \subseteq Live'
<1>1. /\ PhysicsTurn /\ o \in Live /\ body[o] \in {"moving", "stopping", "still"}
      /\ body' = [body EXCEPT ![o] = IF Rest(o) THEN "stopping" ELSE "moving"]
      /\ UNCHANGED <<Parent, m_holder, m_owner, getDestroy, destroy_queue, freed>>
      /\ UNCHANGED <<pc, todo, calls>>
  BY DEF Wake, Rest, kept, Stays, loops
<1>2. /\ list \in Lists /\ Live = Held(list) /\ Live \subseteq Objects /\ o \in Held(list)
      /\ MaxActive \in Nat \ {0} /\ MaxCounter \in Nat
      /\ list.counter \in [Objects -> 0 .. MaxActive] /\ Sorted(list)
  BY <1>1, CoreTypes DEF Core
<1>3. /\ body'[o] \in {"moving", "stopping"} /\ \A q \in Objects : q # o => body'[q] = body[q]
  BY <1>1 DEF Core, TypeOK
<1>4. /\ list.counter[o] <= MaxCounter + Dropped(o) /\ Requests(o) <= list.counter[o]
      /\ Dropped(o) = (IF body[o] = "still" THEN 0 ELSE 1)
      /\ Requests(o) = (IF body[o] = "still" THEN 0 ELSE 1) + (IF Driven(o) THEN 1 ELSE 0)
  <2>1. list.counter[o] <= MaxCounter + Dropped(o) /\ Requests(o) <= list.counter[o]
    BY <1>1 DEF Core, Counted
  <2>2. Dropped(o) = (IF body[o] = "still" THEN 0 ELSE 1)
    BY <1>1 DEF Dropped
  <2>3. Requests(o) = (IF body[o] = "still" THEN 0 ELSE 1) + (IF Driven(o) THEN 1 ELSE 0)
    BY <1>1 DEF Requests
  <2> QED
    BY <2>1, <2>2, <2>3
<1>5. PICK k \in 0 .. 1 : (k = 1 <=> body[o] = "still") /\ Asks(o, k)
  <2>1. CASE Rest(o)
    <3>1. list' = list /\ body[o] # "still"
      BY <2>1 DEF Rest
    <3>2. Asked(list, list', o, 0)
      BY <1>2, <3>1, NothingAsked
    <3> QED
      BY <3>1, <3>2, AsksFrom
  <2>2. CASE Wake(o)
    <3> DEFINE b == body[o]
               M == [ShellWoken(list, o, b) EXCEPT !.crow = list.crow, !.crows = list.crows]
    <3>1. list' = M
      BY <2>2 DEF Wake
    <3>2. b = "still" \/ list.counter[o] <= MaxCounter + 1
      BY <1>2, <1>4
    <3>3. CASE b = "still"
      <4>1. list.counter[o] < MaxActive
        BY <1>2, <1>4, <3>3
      <4> HIDE DEF b
      <4>2. \E k \in 0 .. 1 : (k = 1 <=> b = "still") /\ Asked(list, M, o, k)
        BY <1>2, <4>1, WakeAsks
      <4>3. PICK k \in 0 .. 1 : (k = 1 <=> b = "still") /\ Asked(list, list', o, k)
        BY <3>1, <4>2
      <4>4. Asks(o, k)
        BY <4>3, AsksFrom
      <4> QED
        BY <4>3, <4>4 DEF b
    <3>4. CASE b # "still"
      <4>1. ShellWoken(list, o, b) = list
        BY <3>4 DEF ShellWoken
      <4>2. list' = list
        <5>1. [list EXCEPT !.crow = list.crow, !.crows = list.crows] = list
          BY <1>2 DEF Lists
        <5> QED
          BY <3>1, <4>1, <5>1
      <4>3. Asked(list, list', o, 0)
        BY <1>2, <4>2, NothingAsked
      <4> QED
        BY <3>4, <4>3, AsksFrom
    <3> QED
      BY <3>3, <3>4
  <2> QED
    BY <2>1, <2>2
<1>6. /\ list' \in Lists /\ Sorted(list') /\ Live' = Live
      /\ \A q \in Objects : q # o => list'.counter[q] = list.counter[q]
      /\ list'.counter[o] = list.counter[o] + k
  BY <1>5 DEF Asks
<1>7. \A q \in Objects : Driven(q)' = Driven(q)
  BY <1>1 DEF Driven
<1>8. Counted'
  <2>1. Requests(o)' = 1 + (IF Driven(o) THEN 1 ELSE 0) /\ Dropped(o)' = 1
    BY <1>3, <1>7 DEF Requests, Dropped
  <2>2. list.counter[o] \in Nat
    BY <1>2
  <2>3. CASE body[o] = "still"
    <3>1. k = 1 /\ Requests(o)' = Requests(o) + 1 /\ Requests(o) \in 0 .. 2 /\ list.counter[o] <= MaxCounter
      BY <1>1, <1>2, <1>4, <1>5, <2>1, <2>3, CoreTypes
    <3>2. Requests(o)' <= list'.counter[o] /\ list'.counter[o] <= MaxCounter + Dropped(o)'
      BY <1>2, <1>4, <1>6, <2>1, <2>2, <3>1
    <3> QED
      BY <1>1, <1>3, <1>6, <1>7, <3>2, CountedKept
  <2>4. CASE body[o] # "still"
    <3>1. k = 0 /\ Requests(o)' = Requests(o) /\ Dropped(o) = 1
      BY <1>4, <1>5, <2>1, <2>4
    <3>2. Requests(o)' <= list'.counter[o] /\ list'.counter[o] <= MaxCounter + Dropped(o)'
      BY <1>2, <1>4, <1>6, <2>1, <2>2, <3>1
    <3> QED
      BY <1>1, <1>3, <1>6, <1>7, <3>2, CountedKept
  <2> QED
    BY <2>3, <2>4
<1>9. Absent' /\ Seats'
  <2>1. \A q \in Objects \ Live : /\ body'[q] = body[q] /\ Parent'[q] = Parent[q]
                                  /\ Driven(q)' => Driven(q)
                                  /\ list'.counter[q] = list.counter[q]
    BY <1>1, <1>3, <1>6, <1>7
  <2> QED
    BY <1>1, <1>6, <2>1, AbsentKept, SeatsKept
<1>10. Families' /\ Doomed'
  <2>1. o \in Shells
    BY <1>1, <1>2 DEF Core, Families
  <2>2. \A q \in Objects : \/ body'[q] = body[q]
                           \/ /\ body[q] \in Loose /\ body'[q] \in Loose
                              /\ q \in Shells \/ body'[q] = "solid"
    BY <1>1, <1>3, <2>1 DEF Loose
  <2> QED
    BY <1>1, <1>6, <2>2, FamiliesKept, DoomedKept
<1>11. Pushing'
  <2>1. CASE crowing' = crowing
    BY <1>1, <1>6, <2>1, PushingKept
  <2>2. CASE crowing' = [crowing EXCEPT !["physics"] = <<o>>]
    <3>1. pc \in {"frame", "render"} /\ pc' = pc
      BY <1>1 DEF PhysicsTurn
    <3>2. crowing \in [Threads -> Seq(Objects \cup Nat)]
      BY DEF Core, TypeOK
    <3> DEFINE e == <<o>>
    <3>3. Len(e) = 1 /\ e[1] = o
      BY OneTuple
    <3>4. crowing' = [crowing EXCEPT !["physics"] = e]
      BY <2>2
    <3> HIDE DEF e
    <3>5. \A t \in Threads : crowing'[t] = e \/ crowing'[t] = crowing[t]
      BY <3>2, <3>4
    <3> QED
      BY <1>1, <1>6, <3>1, <3>3, <3>5 DEF Core, Pushing
  <2> QED
    BY <2>1, <2>2 DEF Wake, Rest, Stays
<1>12. Looping'
  BY <1>1, LoopingKept
<1> QED
  BY <1>6, <1>8, <1>9, <1>10, <1>11, <1>12 DEF Core

LEMMA RegisteredOnce ==
    ASSUME Core, NEW o \in Live, Parent[o] = NULL
    PROVE  IsInjective(Registered(o))
<1> DEFINE S == {c \in Children(o) : ~getDestroy[c]}
           all == list.active \o list.sleeping
           rest == InOrder(all, S)
<1>1. list.active \in Seq(Objects) /\ list.sleeping \in Seq(Objects) /\ o \in Objects
  BY CoreTypes, FieldTypes
<1>2. Range(list.active) \cap Range(list.sleeping) = {}
  BY DEF Core, Sorted
<1>3. all \in Seq(Objects) /\ IsInjective(all)
  BY <1>1, <1>2, ConcatRange DEF Core, Sorted
<1> HIDE DEF all
<1>4. rest \in Seq(Objects) /\ Range(rest) = Range(all) \cap S /\ IsInjective(rest)
  BY <1>3, InOrderFacts
<1>5. o \notin S
  BY <1>1, ConstantTypes DEF Children
<1> HIDE DEF rest, S
<1> DEFINE head == <<o>>
<1>6. head \in Seq(Objects) /\ Range(head) = {o} /\ IsInjective(head)
  BY <1>1 DEF Range, IsInjective
<1> HIDE DEF head
<1>7. IsInjective(head \o rest)
  BY <1>4, <1>5, <1>6, ConcatRange
<1> QED
  BY <1>7 DEF head, rest, all, S, Registered

LEMMA CoreDestroyed ==
    ASSUME Core, TypeOK', NEW o \in Objects, setDestroy(o)
    PROVE  Core' /\ Live \subseteq Live'
<1> DEFINE R == Registered(o)
           Q == destroy_queue
<1>1. /\ Frame /\ Stays /\ o \in Live /\ Parent[o] = NULL /\ ~getDestroy[o]
      /\ getDestroy' = [c \in Objects |-> getDestroy[c] \/ c \in Range(R)]
      /\ destroy_queue' = Q \o R
      /\ UNCHANGED <<list, body, Parent, m_holder, m_owner, freed>>
  BY DEF setDestroy, ToDestroy
<1>2. /\ R \in Seq(Objects) /\ Range(R) = {o} \cup {c \in Children(o) : ~getDestroy[c]}
      /\ Len(R) >= 1 /\ R[1] = o /\ IsInjective(R)
  BY <1>1, RegisteredType, RegisteredOnce DEF Core
<1> HIDE DEF R
<1>3. /\ Q \in Seq(Objects) /\ getDestroy \in [Objects -> BOOLEAN] /\ Live \subseteq Objects
      /\ \A q \in Live : Parent[q] \in Objects \cup {NULL}
  BY CoreTypes, ConstantTypes DEF Core, TypeOK
<1>4. Live' = Live /\ list' \in Lists /\ Sorted(list') /\ UNCHANGED <<Live, pc, todo, calls>>
  BY <1>1, FrameIdle DEF Live, Core, TypeOK
<1>5. \A q \in Objects : getDestroy'[q] <=> getDestroy[q] \/ q \in Range(R)
  BY <1>1, <1>3
<1>6. \A q \in Live : Parent[q] = o => ~getDestroy[q] /\ q \in Range(R)
  <2>1. \A q \in Live : Parent[q] = o => getDestroy[q] = getDestroy[o]
    BY <1>3, ConstantTypes DEF Core, Families
  <2> QED
    BY <1>1, <1>2, <2>1 DEF Children
<1>7. Range(R) \subseteq Live /\ \A q \in Range(R) : ~getDestroy[q] /\ (q = o \/ Parent[q] = o)
  BY <1>1, <1>2 DEF Children
<1>8. Pushing' /\ Looping'
  BY <1>1, <1>4, FrameIdle, PushingIdle, LoopingKept
<1>9. Counted' /\ Seats'
  <2>1. \A q \in Live : Requests(q)' = Requests(q) /\ Dropped(q)' = Dropped(q)
    BY <1>1 DEF Requests, Dropped, Driven
  <2> QED
    BY <1>1, <1>4, <2>1, SeatsKept DEF Core, Counted
<1>10. Absent'
  <2>1. \A q \in Objects \ Live : Driven(q)' = Driven(q) /\ getDestroy'[q] = getDestroy[q]
    BY <1>1, <1>3, <1>5, <1>7 DEF Driven
  <2> QED
    BY <1>1, <1>4, <2>1 DEF Core, Absent
<1>11. Families'
  <2>1. \A q \in Objects : Parent[q] # NULL => q \in Live /\ Parent[q] \in Live
    BY DEF Core, Absent, Families
  <2>2. ASSUME NEW q \in Objects, Parent[q] # NULL
        PROVE  getDestroy'[q] = getDestroy'[Parent[q]]
    <3>1. /\ q \in Live /\ Parent[q] \in Live /\ getDestroy[q] = getDestroy[Parent[q]]
          /\ Parent[Parent[q]] = NULL
      BY <2>1, <2>2 DEF Core, Families
    <3>2. q # o /\ getDestroy'[q] \in BOOLEAN /\ getDestroy'[Parent[q]] \in BOOLEAN
      BY <1>1, <1>3, <2>2, <3>1
    <3>3. CASE Parent[q] = o
      <4>1. q \in Range(R) /\ o \in Range(R)
        BY <1>2, <1>6, <3>1, <3>3
      <4>2. getDestroy'[q] /\ getDestroy'[o]
        BY <1>1, <1>5, <4>1
      <4> QED
        BY <3>2, <3>3, <4>2
    <3>4. CASE Parent[q] # o
      <4>1. q \notin Range(R)
        BY <1>7, <3>2, <3>4
      <4>2. Parent[q] \notin Range(R)
        BY <1>1, <1>3, <1>7, <3>1, <3>4, ConstantTypes
      <4>3. (getDestroy'[q] <=> getDestroy[q]) /\ (getDestroy'[Parent[q]] <=> getDestroy[Parent[q]])
        BY <1>3, <1>5, <3>1, <4>1, <4>2
      <4> QED
        BY <3>1, <3>2, <4>3
    <3> QED
      BY <3>3, <3>4
  <2> QED
    BY <1>1, <1>4, <2>2 DEF Core, Families
<1>12. Doomed'
  <2>1. IsInjective(Q) /\ Range(Q) = {q \in Live : getDestroy[q]}
        /\ \A i, j \in DOMAIN Q : Parent[Q[i]] = Q[j] => j < i
    BY DEF Core, Doomed
  <2>2. Range(Q) \cap Range(R) = {}
    BY <1>7, <2>1
  <2> DEFINE P == Q \o R
  <2>3. P \in Seq(Objects) /\ Range(P) = Range(Q) \cup Range(R) /\ IsInjective(P)
    BY <1>2, <1>3, <2>1, <2>2, ConcatRange
  <2>4. /\ Len(P) = Len(Q) + Len(R) /\ Len(Q) \in Nat /\ Len(R) \in Nat
        /\ \A i \in 1 .. Len(Q) : P[i] = Q[i]
        /\ \A i \in 1 .. Len(R) : P[Len(Q) + i] = R[i]
    BY <1>2, <1>3, ConcatProperties
  <2>5. DOMAIN P = 1 .. Len(P) /\ DOMAIN Q = 1 .. Len(Q)
    BY <1>3, <2>3
  <2> HIDE DEF P, Q
  <2>6. ASSUME NEW i \in DOMAIN P, NEW j \in DOMAIN P, Parent[P[i]] = P[j]
        PROVE  j < i
    <3>1. \A k \in DOMAIN P : k \notin DOMAIN Q => P[k] \in Range(R)
      <4>1. ASSUME NEW k \in DOMAIN P, k \notin DOMAIN Q
            PROVE  P[k] \in Range(R)
        <5>1. k - Len(Q) \in 1 .. Len(R) /\ Len(Q) + (k - Len(Q)) = k
          BY <2>4, <2>5, <4>1
        <5>2. P[k] = R[k - Len(Q)]
          BY <2>4, <5>1
        <5> QED
          BY <1>2, <5>1, <5>2, RangeIs
      <4> QED
        BY <4>1
    <3>2. \A k \in DOMAIN Q : P[k] = Q[k] /\ P[k] \in Range(Q) /\ k < Len(Q) + 1
      BY <2>4, <2>5 DEF Range
    <3>3. P[i] \in Live /\ P[j] \in Live /\ P[j] # NULL
      BY <1>3, <1>7, <2>1, <3>1, <3>2, ConstantTypes
    <3>4. getDestroy[P[i]] = getDestroy[P[j]]
      BY <1>3, <2>6, <3>3 DEF Core, Families
    <3>5. CASE i \in DOMAIN Q
      <4>1. getDestroy[P[i]]
        BY <2>1, <3>2, <3>5
      <4>2. j \in DOMAIN Q
        BY <1>7, <3>1, <3>4, <4>1
      <4> QED
        BY <2>1, <2>6, <3>2, <3>5, <4>2
    <3>6. CASE i \notin DOMAIN Q
      <4>1. P[i] \in Range(R) /\ ~getDestroy[P[i]]
        BY <1>7, <3>1, <3>6
      <4>2. P[i] # o /\ P[j] = o
        BY <1>1, <1>7, <2>6, <3>3, <4>1
      <4>3. Len(Q) + 1 \in DOMAIN P /\ P[Len(Q) + 1] = o
        BY <1>2, <2>4, <2>5
      <4>4. j = Len(Q) + 1
        BY <2>3, <4>2, <4>3 DEF IsInjective
      <4>5. i # j /\ i > Len(Q) /\ i \in Nat
        BY <2>4, <2>5, <3>6, <4>2
      <4> QED
        BY <2>4, <4>4, <4>5
    <3> QED
      BY <3>5, <3>6
  <2>7. Range(P) = {q \in Live : getDestroy'[q]}
    BY <1>3, <1>5, <1>7, <2>1, <2>3
  <2>8. destroy_queue' = P
    BY <1>1 DEF P, Q
  <2> QED
    BY <1>1, <1>4, <2>3, <2>6, <2>7, <2>8 DEF Doomed
<1> QED
  BY <1>4, <1>8, <1>9, <1>10, <1>11, <1>12 DEF Core

LEMMA CoreCrows ==
    ASSUME Core, TypeOK', NEW t \in Threads, CrowMark(t) \/ CrowPush(t)
    PROVE  Core' /\ Live \subseteq Live'
<1>1. UNCHANGED <<body, kept, pc, todo, calls>> /\ SameLists(list, list')
  BY ZenonT(30) DEF CrowMark, CrowPush, loops, SameLists, Core, TypeOK, Lists
<1>2. CoreOfLists' /\ Live' = Live
  BY <1>1, CoreKept
<1>3. Looping'
  BY <1>1, LoopingKept
<1>4. Pushing'
  <2>1. crowing \in [Threads -> Seq(Objects \cup Nat)]
    BY DEF Core, TypeOK
  <2>2. Len(Idle) = 0
    BY OneTuple DEF Idle
  <2>3. CASE CrowPush(t)
    <3>1. \A u \in Threads : crowing'[u] = IF u = t THEN Idle ELSE crowing[u]
      BY <2>1, <2>3 DEF CrowPush
    <3> QED
      BY <1>1, <1>2, <2>2, <3>1 DEF Core, Pushing
  <2>4. CASE CrowMark(t)
    <3> DEFINE n == Len(list.crows[list.cur])
               s == crowing[t]
               e == Append(s, n)
    <3>1. n \in Nat
      BY FieldTypes, SMTT(30) DEF Core, TypeOK
    <3>2. crowing' = [crowing EXCEPT ![t] = e] /\ Len(s) = 1 /\ s \in Seq(Objects \cup Nat)
      BY <2>1, <2>4 DEF CrowMark
    <3>3. s # Idle
      <4>1. Len(s) = 1
        BY <3>2
      <4> HIDE DEF s
      <4> QED
        BY <2>2, <4>1
    <3>4. s[1] \in Live /\ pc \in {"frame", "render"}
      BY <3>3 DEF Core, Pushing
    <3> HIDE DEF n
    <3>5. n \in Objects \cup Nat
      BY <3>1
    <3> HIDE DEF s
    <3>6. Len(e) = 2 /\ e[1] = s[1] /\ e[2] = n
      BY <3>2, <3>5, AppendToOne
    <3> HIDE DEF e
    <3>7. \A u \in Threads : crowing'[u] = IF u = t THEN e ELSE crowing[u]
      BY <2>1, <3>2
    <3> QED
      BY <1>1, <1>2, <3>1, <3>4, <3>6, <3>7 DEF Core, Pushing
  <2> QED
    BY <2>3, <2>4
<1> QED
  BY <1>2, <1>3, <1>4 DEF Core, CoreOfLists

\* The loops of Update that leave the lists and the counters alone.
LEMMA CoreLoops ==
    ASSUME Core, TypeOK',
           \/ Start \/ NextObject \/ UpdateParent \/ EndUpdates
           \/ EndRelcase \/ Overrun \/ EndDestroy \/ EndFrame
    PROVE  Core' /\ Live \subseteq Live'
<1>1. UNCHANGED <<body, kept, crowing>> /\ SameLists(list, list')
  <2>1. ASSUME NEW mode \in Modes, StartUpdate(mode)
        PROVE  UNCHANGED <<body, kept, crowing>> /\ SameLists(list, list')
    <3>1. SameLists(list, list')
      BY <2>1, StartFacts DEF Core
    <3> QED
      BY <2>1, <3>1 DEF StartUpdate
  <2> QED
    BY <2>1 DEF Start, NextObject, UpdateParent, EndUpdates, EndRelcase, Overrun, EndDestroy,
                EndFrame, SameLists
<1>2. CoreOfLists' /\ Live' = Live
  BY <1>1, CoreKept
<1>3. Looping'
  <2>1. Looping
    BY DEF Core
  <2>2. CASE Start
    BY <2>2 DEF Start, StartUpdate, Looping
  <2>3. CASE NextObject
    BY <2>3 DEF NextObject, Looping
  <2>4. CASE UpdateParent
    BY <2>1, <2>4 DEF UpdateParent, Looping
  <2>5. CASE EndUpdates \/ EndRelcase \/ Overrun \/ EndDestroy \/ EndFrame
    BY <2>1, <2>5 DEF EndUpdates, EndRelcase, Overrun, EndDestroy, EndFrame, Looping
  <2> QED
    BY <2>2, <2>3, <2>4, <2>5
<1>4. Pushing'
  <2>1. CASE Start \/ EndFrame
    BY <1>1, <2>1, PushingIdle DEF Start, StartUpdate, Frame, EndFrame
  <2>2. CASE NextObject \/ UpdateParent
    <3>1. pc' = pc
      BY <2>2 DEF NextObject, UpdateParent
    <3> QED
      BY <1>1, <1>2, <3>1, PushingKept
  <2>3. CASE EndUpdates \/ EndRelcase \/ Overrun \/ EndDestroy
    <3>1. pc \notin {"frame", "render"}
      BY <2>3 DEF EndUpdates, EndRelcase, Overrun, EndDestroy
    <3>2. \A t \in Threads : crowing[t] = Idle
      BY <3>1 DEF Core, Pushing
    <3> QED
      BY <1>1, <3>2, PushingIdle
  <2> QED
    BY <2>1, <2>2, <2>3
<1> QED
  BY <1>2, <1>3, <1>4 DEF Core, CoreOfLists

\* The queue is told about in Relcasing's objects; who leaves a car is in the level.
LEMMA CoreRelcase ==
    ASSUME Core, TypeOK', net_Relcase
    PROVE  Core' /\ Live \subseteq Live'
<1>1. UNCHANGED <<body, Parent, getDestroy, destroy_queue, freed, pc, todo, calls, crowing>>
  BY DEF net_Relcase
<1>2. Looping'
  BY <1>1, LoopingKept
<1>3. CoreOfLists' /\ Live' = Live
  <2> DEFINE o == Relcasing[it]
  <2>1. CASE o \in Drivers /\ m_holder[o] \in Range(destroy_queue)
    <3>1. m_holder[o] # NULL
      BY <2>1, ConstantTypes, CoreTypes DEF Core, Doomed
    <3>2. /\ list' = processing_deactivate(list, m_holder[o])
          /\ m_owner' = [m_owner EXCEPT ![m_holder[o]] = NULL]
          /\ m_holder' = [m_holder EXCEPT ![o] = NULL]
      BY <2>1 DEF net_Relcase
    <3>3. Leaves(o)
      BY <1>1, <3>1, <3>2 DEF Leaves
    <3>4. PICK d \in Drivers : d = o
      BY <2>1
    <3> QED
      BY <3>3, <3>4, CoreLeaves
  <2>2. CASE ~(o \in Drivers /\ m_holder[o] \in Range(destroy_queue))
    <3>1. list' = list /\ m_owner' = m_owner /\ m_holder' = m_holder
      BY <2>2 DEF net_Relcase
    <3>2. SameLists(list, list') /\ UNCHANGED <<body, kept>>
      BY <1>1, <3>1 DEF SameLists, kept
    <3> QED
      BY <3>2, CoreKept
  <2> QED
    BY <2>1, <2>2
<1>4. Pushing'
  BY <1>1, <1>3, PushingKept
<1> QED
  BY <1>2, <1>3, <1>4 DEF Core, CoreOfLists

LEMMA SettledStep ==
    ASSUME NEW L \in Lists, Sorted(L), NEW o \in Objects,
           body[o] = "stopping" => o \in Held(L) /\ L.counter[o] > 0
    PROVE  \E k \in -1 .. 0 : /\ k = -1 <=> body[o] = "stopping"
                              /\ Asked(L, Settled(L, o), o, k)
<1>1. CASE body[o] = "stopping"
  BY <1>1, DeactivateStep DEF Settled
<1>2. CASE body[o] # "stopping"
  BY <1>2, NothingAsked DEF Settled
<1> QED
  BY <1>1, <1>2

LEMMA NearbyStep ==
    ASSUME NEW L \in Lists, Sorted(L), NEW o \in Objects, NEW near \in BOOLEAN
    PROVE  Asked(L, Nearby(L, o, near), o, 0)
<1>1. CASE near
  BY <1>1, CrowAsked DEF Nearby
<1>2. CASE ~near
  BY <1>2, NothingAsked DEF Nearby
<1> QED
  BY <1>1, <1>2

\* The requests of UpdateCL, from the lists with the flag of o cleared.
Unflagged(o) == [list EXCEPT !.crow[o] = FALSE]

LEMMA UnflaggedFacts ==
    ASSUME NEW o \in Objects, list \in Lists
    PROVE  /\ Unflagged(o) \in Lists /\ SameLists(list, Unflagged(o))
           /\ Unflagged(o).crow = [list.crow EXCEPT ![o] = FALSE]
           /\ Unflagged(o).crows = list.crows /\ Unflagged(o).cur = list.cur
  BY DEF Unflagged, Lists, SameLists

LEMMA UpdatedAsks ==
    ASSUME list \in Lists, Sorted(list), NEW o \in Objects, NEW near \in BOOLEAN,
           body[o] = "stopping" => o \in Live /\ list.counter[o] > 0
    PROVE  \E k \in -1 .. 0 : /\ k = -1 <=> body[o] = "stopping"
                              /\ Asked(Unflagged(o), Updated(o, near), o, k)
<1> DEFINE L == Unflagged(o)
<1>1. L \in Lists /\ SameLists(list, L)
  BY UnflaggedFacts
<1>2. /\ Updated(o, near) = IF o \in Items THEN Nearby(Settled(L, o), o, near)
                            ELSE Settled(Nearby(L, o, near), o)
  BY DEF Updated, Unflagged
<1> HIDE DEF L
<1>3. Sorted(L) /\ Held(L) = Live /\ L.counter = list.counter
  BY <1>1 DEF SameLists, Sorted, Held, Live
<1>4. CASE o \in Items
  <2> DEFINE A == Settled(L, o)
             B == Nearby(A, o, near)
  <2>1. PICK k \in -1 .. 0 : (k = -1 <=> body[o] = "stopping") /\ Asked(L, A, o, k)
    BY <1>1, <1>3, SettledStep
  <2> HIDE DEF A
  <2>2. A \in Lists /\ Sorted(A)
    BY <2>1 DEF Asked
  <2>3. Asked(A, B, o, 0)
    BY <2>2, NearbyStep
  <2> HIDE DEF B
  <2>4. Asked(L, B, o, k + 0) /\ k + 0 = k
    BY <1>1, <2>1, <2>2, <2>3, AskedTwice
  <2>5. Updated(o, near) = B
    BY <1>2, <1>4 DEF A, B
  <2> QED
    BY <2>1, <2>4, <2>5 DEF L
<1>5. CASE o \notin Items
  <2> DEFINE A == Nearby(L, o, near)
             B == Settled(A, o)
  <2>1. Asked(L, A, o, 0)
    BY <1>1, <1>3, NearbyStep
  <2> HIDE DEF A
  <2>2. A \in Lists /\ Sorted(A) /\ Held(A) = Live /\ A.counter[o] = list.counter[o] + 0
    BY <1>1, <1>3, <2>1, AskedFacts
  <2>3. list.counter[o] + 0 = list.counter[o]
    BY FieldTypes, ObjectListAssumption
  <2>4. PICK k \in -1 .. 0 : (k = -1 <=> body[o] = "stopping") /\ Asked(A, B, o, k)
    BY <2>2, <2>3, SettledStep
  <2> HIDE DEF B
  <2>5. Asked(L, B, o, 0 + k) /\ 0 + k = k
    BY <1>1, <2>1, <2>2, <2>4, AskedTwice
  <2>6. Updated(o, near) = B
    BY <1>2, <1>5 DEF A, B
  <2> QED
    BY <2>4, <2>5, <2>6 DEF L
<1> QED
  BY <1>4, <1>5

\* What one step does to a shell and to its requests.
ShellChange(q) ==
    \/ body'[q] = body[q] /\ list'.counter[q] = list.counter[q]
    \/ /\ q \in Live
       /\ \/ body[q] = "stopping" /\ body'[q] = "still" /\ list'.counter[q] = list.counter[q] - 1
          \/ body[q] = "stopping" /\ body'[q] = "moving" /\ list'.counter[q] = list.counter[q]
          \/ body[q] = "still" /\ body'[q] = "moving" /\ list'.counter[q] = list.counter[q] + 1

LEMMA ShellCounts ==
    ASSUME Core, TypeOK', UNCHANGED kept, Sorted(list'), Live' = Live,
           \A q \in Objects : ShellChange(q)
    PROVE  CoreOfLists'
<1>1. UNCHANGED <<Parent, m_holder, m_owner, getDestroy, destroy_queue, freed>>
  BY DEF kept
<1>2. \A q \in Objects : Driven(q)' = Driven(q)
  BY <1>1 DEF Driven
<1>3. Counted'
  <2>1. ASSUME NEW q \in Live
        PROVE  Requests(q)' <= list'.counter[q] /\ list'.counter[q] <= MaxCounter + Dropped(q)'
    <3>1. /\ q \in Objects /\ list.counter[q] \in Nat /\ MaxCounter \in Nat
          /\ Requests(q) \in 0 .. 2 /\ ShellChange(q)
      BY CoreTypes
    <3>2. Requests(q) <= list.counter[q] /\ list.counter[q] <= MaxCounter + Dropped(q)
      BY DEF Core, Counted
    <3>3. CASE body'[q] = body[q] /\ list'.counter[q] = list.counter[q]
      BY <1>2, <3>1, <3>2, <3>3 DEF Requests, Dropped
    <3>4. CASE body[q] = "stopping" /\ body'[q] = "still" /\ list'.counter[q] = list.counter[q] - 1
      <4>1. Requests(q)' = Requests(q) - 1 /\ Dropped(q)' = 0 /\ Dropped(q) = 1
        BY <1>2, <3>1, <3>4 DEF Requests, Dropped
      <4> QED
        BY <3>1, <3>2, <3>4, <4>1
    <3>5. CASE body[q] = "stopping" /\ body'[q] = "moving" /\ list'.counter[q] = list.counter[q]
      <4>1. Requests(q)' = Requests(q) /\ Dropped(q)' = Dropped(q)
        BY <1>2, <3>1, <3>5 DEF Requests, Dropped
      <4> QED
        BY <3>1, <3>2, <3>5, <4>1
    <3>6. CASE body[q] = "still" /\ body'[q] = "moving" /\ list'.counter[q] = list.counter[q] + 1
      <4>1. Requests(q)' = Requests(q) + 1 /\ Dropped(q)' = 1 /\ Dropped(q) = 0
        BY <1>2, <3>1, <3>6 DEF Requests, Dropped
      <4> QED
        BY <3>1, <3>2, <3>6, <4>1
    <3> QED
      BY <3>1, <3>3, <3>4, <3>5, <3>6 DEF ShellChange
  <2> QED
    BY <2>1 DEF Counted
<1>4. Absent' /\ Seats'
  <2>1. \A q \in Objects \ Live : /\ body'[q] = body[q] /\ Parent'[q] = Parent[q]
                                  /\ Driven(q)' => Driven(q)
                                  /\ list'.counter[q] = list.counter[q]
    BY <1>1, <1>2 DEF ShellChange
  <2> QED
    BY <1>1, <2>1, AbsentKept, SeatsKept
<1>5. Families' /\ Doomed'
  <2>1. \A q \in Objects : \/ body'[q] = body[q]
                           \/ /\ body[q] \in Loose /\ body'[q] \in Loose
                              /\ q \in Shells \/ body'[q] = "solid"
    BY DEF ShellChange, Core, Families, Loose
  <2> QED
    BY <1>1, <2>1, FamiliesKept, DoomedKept
<1> QED
  BY <1>3, <1>4, <1>5 DEF CoreOfLists, TypeOK

\* UpdateCL flags and enters its object, and a zone one more.
CrowsAfter(o) ==
    \E M \in Lists : /\ Crowed(Unflagged(o), M, o)
                     /\ \/ list' = M
                        \/ o \in Zones /\ \E q \in Live : Crowed(M, list', q)

LEMMA UpdateCLFacts ==
    ASSUME Core, MaxCounter < MaxActive, TypeOK', NEW near \in BOOLEAN, UpdateCL(near)
    PROVE  /\ calls # <<>> /\ Last(calls) \in Objects /\ CrowsAfter(Last(calls))
           /\ Sorted(list') /\ Live' = Live
           /\ \A q \in Objects : ShellChange(q)
<1>1. calls # <<>> /\ calls \in Seq(Objects)
  BY DEF UpdateCL, Core, TypeOK
<1>2. Last(calls) \in Objects
  BY <1>1, Ends
<1>3. PICK o \in Objects : o = Last(calls)
  BY <1>2
<1>4. /\ list \in Lists /\ Live = Held(list) /\ Live \subseteq Objects /\ Sorted(list)
      /\ MaxActive \in Nat \ {0} /\ MaxCounter \in Nat
      /\ list.counter \in [Objects -> 0 .. MaxActive]
  BY CoreTypes DEF Core
<1>5. body[o] = "stopping" => o \in Live /\ list.counter[o] > 0
  <2>1. body[o] = "stopping" => o \in Live
    BY DEF Core, Absent
  <2>2. o \in Live => Requests(o) <= list.counter[o]
    BY DEF Core, Counted
  <2>3. body[o] = "stopping" => Requests(o) \in 1 .. 2
    BY DEF Requests
  <2> QED
    BY <1>4, <2>1, <2>2, <2>3
<1> DEFINE M == Updated(o, near)
           U == Unflagged(o)
<1>6. PICK k \in -1 .. 0 : (k = -1 <=> body[o] = "stopping") /\ Asked(U, M, o, k)
  BY <1>4, <1>5, UpdatedAsks
<1>7. U \in Lists /\ SameLists(list, U)
  BY <1>4, UnflaggedFacts
<1>8. \/ list' = M /\ body' = StillAfter(o)
      \/ \E q \in Live \ {o} :
            /\ o \in Zones /\ body[q] \in {"stopping", "still"}
            /\ list' = ShellWoken(M, q, body[q])
            /\ body' = [StillAfter(o) EXCEPT ![q] = "moving"]
  BY <1>3 DEF UpdateCL
<1> HIDE DEF M, U
<1>9. /\ M \in Lists /\ Sorted(M) /\ Held(M) = Live /\ Crowed(U, M, o)
      /\ M.counter[o] = list.counter[o] + k
      /\ \A q \in Objects : q # o => M.counter[q] = list.counter[q]
  <2>1. Held(U) = Live /\ U.counter = list.counter
    BY <1>7 DEF SameLists, Held, Live
  <2>2. /\ M \in Lists /\ Sorted(M) /\ Held(M) = Held(U)
        /\ M.counter[o] = U.counter[o] + k
        /\ \A q \in Objects : q # o => M.counter[q] = U.counter[q]
    <3>1. Asked(U, M, o, k) /\ k \in Int /\ U \in Lists
      BY <1>6, <1>7
    <3> QED
      BY <3>1, AskedFacts
  <2> QED
    BY <1>6, <2>1, <2>2 DEF Asked
<1>10. /\ StillAfter(o)[o] = (IF body[o] = "stopping" THEN "still" ELSE body[o])
       /\ \A q \in Objects : q # o => StillAfter(o)[q] = body[q]
       /\ StillAfter(o) \in [Objects -> {"solid", "moving", "stopping", "still", "ruck", "belt", "slot"}]
  BY DEF StillAfter, Core, TypeOK
<1>11. list.counter[o] \in Nat
  BY <1>4
<1>12. CASE list' = M /\ body' = StillAfter(o)
  <2>1. Live' = Live
    BY <1>9, <1>12 DEF Live
  <2>2. ShellChange(o)
    <3>1. CASE body[o] = "stopping"
      <4>1. body'[o] = "still" /\ list'.counter[o] = list.counter[o] - 1
        BY <1>6, <1>9, <1>10, <1>11, <1>12, <3>1
      <4> QED
        BY <1>5, <3>1, <4>1 DEF ShellChange
    <3>2. CASE body[o] # "stopping"
      <4>1. body'[o] = body[o] /\ list'.counter[o] = list.counter[o]
        BY <1>6, <1>9, <1>10, <1>11, <1>12, <3>2
      <4> QED
        BY <4>1 DEF ShellChange
    <3> QED
      BY <3>1, <3>2
  <2>3. \A q \in Objects : q # o => ShellChange(q)
    BY <1>9, <1>10, <1>12 DEF ShellChange
  <2>4. CrowsAfter(o)
    BY <1>9, <1>12 DEF CrowsAfter, U
  <2> QED
    BY <1>1, <1>3, <1>9, <1>12, <2>1, <2>2, <2>3, <2>4
<1>13. ASSUME NEW q \in Live \ {o}, o \in Zones, body[q] \in {"stopping", "still"},
              list' = ShellWoken(M, q, body[q]), body' = [StillAfter(o) EXCEPT ![q] = "moving"]
       PROVE  /\ CrowsAfter(o) /\ Sorted(list') /\ Live' = Live
              /\ \A x \in Objects : ShellChange(x)
  <2>1. q \in Objects /\ q # o /\ q \in Held(M) /\ M.counter[q] = list.counter[q]
    BY <1>4, <1>9, <1>13
  <2> DEFINE b == body[q]
  <2>2. b = "still" => M.counter[q] < MaxActive
    <3>1. b = "still" => Dropped(q) = 0
      BY DEF Dropped
    <3>2. list.counter[q] <= MaxCounter + Dropped(q)
      BY <1>13 DEF Core, Counted
    <3> QED
      BY <1>4, <2>1, <3>1, <3>2
  <2>3. b \in {"stopping", "still"} /\ list' = ShellWoken(M, q, b)
    BY <1>13
  <2> HIDE DEF b
  <2>4. PICK j \in 0 .. 1 : (j = 1 <=> b = "still") /\ Asked(M, list', q, j)
    BY <1>9, <2>1, <2>2, <2>3, WokenStep
  <2>5. /\ Sorted(list') /\ Held(list') = Live /\ list'.counter[q] = list.counter[q] + j
        /\ \A x \in Objects : x # q => list'.counter[x] = M.counter[x]
    <3>1. Asked(M, list', q, j) /\ j \in Int /\ M \in Lists /\ q \in Objects
      BY <1>9, <2>1, <2>4
    <3>2. PICK N : N = list'
      OBVIOUS
    <3>3. Asked(M, N, q, j)
      BY <3>1, <3>2
    <3>4. /\ Sorted(N) /\ Held(N) = Held(M) /\ N.counter[q] = M.counter[q] + j
          /\ \A x \in Objects : x # q => N.counter[x] = M.counter[x]
      BY <3>1, <3>3, AskedFacts
    <3> QED
      BY <1>9, <2>1, <3>2, <3>4
  <2>6. body'[q] = "moving" /\ \A x \in Objects : x # q => body'[x] = StillAfter(o)[x]
    BY <1>10, <1>13, <2>1
  <2>7. list.counter[q] \in Nat
    BY <1>4, <2>1
  <2>8. ShellChange(q)
    <3>1. CASE b = "still"
      <4>1. body[q] = "still" /\ body'[q] = "moving" /\ list'.counter[q] = list.counter[q] + 1
        BY <2>4, <2>5, <2>6, <3>1 DEF b
      <4> QED
        BY <1>13, <4>1 DEF ShellChange
    <3>2. CASE b = "stopping"
      <4>1. body[q] = "stopping" /\ body'[q] = "moving" /\ list'.counter[q] = list.counter[q]
        BY <2>4, <2>5, <2>6, <2>7, <3>2 DEF b
      <4> QED
        BY <1>13, <4>1 DEF ShellChange
    <3> QED
      BY <2>3, <3>1, <3>2
  <2>9. ShellChange(o)
    <3>1. body'[o] = StillAfter(o)[o] /\ list'.counter[o] = list.counter[o] + k
      BY <1>9, <2>1, <2>5, <2>6
    <3>2. CASE body[o] = "stopping"
      <4>1. body'[o] = "still" /\ list'.counter[o] = list.counter[o] - 1
        BY <1>6, <1>10, <1>11, <3>1, <3>2
      <4> QED
        BY <1>5, <3>2, <4>1 DEF ShellChange
    <3>3. CASE body[o] # "stopping"
      <4>1. body'[o] = body[o] /\ list'.counter[o] = list.counter[o]
        BY <1>6, <1>10, <1>11, <3>1, <3>3
      <4> QED
        BY <4>1 DEF ShellChange
    <3> QED
      BY <3>2, <3>3
  <2>10. \A x \in Objects : x # q /\ x # o => ShellChange(x)
    BY <1>9, <1>10, <2>5, <2>6 DEF ShellChange
  <2>11. CrowsAfter(o)
    <3>1. Crowed(M, list', q)
      BY <2>4 DEF Asked
    <3> QED
      BY <1>9, <1>13, <3>1 DEF CrowsAfter, U
  <2>12. Live' = Live
    BY <2>5 DEF Live
  <2> QED
    BY <2>5, <2>8, <2>9, <2>10, <2>11, <2>12
<1> QED
  BY <1>1, <1>2, <1>3, <1>8, <1>12, <1>13

LEMMA CoreUpdateCL ==
    ASSUME Core, MaxCounter < MaxActive, TypeOK', NEW near \in BOOLEAN, UpdateCL(near)
    PROVE  Core' /\ Live \subseteq Live'
<1>1. UNCHANGED <<kept, pc, todo, crowing>> /\ calls # <<>>
  BY DEF UpdateCL
<1>2. Sorted(list') /\ Live' = Live /\ \A q \in Objects : ShellChange(q)
  BY UpdateCLFacts
<1>3. CoreOfLists'
  BY <1>1, <1>2, ShellCounts
<1>4. Pushing'
  BY <1>1, <1>2, PushingKept
<1>5. Looping'
  BY <1>1 DEF Core, Looping
<1> QED
  BY <1>2, <1>3, <1>4, <1>5 DEF Core, CoreOfLists

\* After the last requests of o, wrapped or not, the others are where they were.
LastRequests(L, N, o) ==
    /\ N \in Lists /\ Held(N) = Held(L) /\ Crowed(L, N, o)
    /\ IsInjective(N.active) /\ IsInjective(N.sleeping)
    /\ o \notin Range(N.active) \cap Range(N.sleeping)
    /\ Range(N.active) \ {o} = Range(L.active) \ {o}
    /\ Range(N.sleeping) \ {o} = Range(L.sleeping) \ {o}
    /\ \A q \in Objects : q # o => N.counter[q] = L.counter[q]

LEMMA AskedLast ==
    ASSUME NEW L \in Lists, Sorted(L), NEW N, NEW o \in Objects, NEW k \in Int, Asked(L, N, o, k)
    PROVE  LastRequests(L, N, o)
<1>1. /\ N \in Lists /\ Sorted(N) /\ Held(N) = Held(L) /\ Crowed(L, N, o)
      /\ \A q \in Objects : q # o => N.counter[q] = L.counter[q]
  BY AskedFacts DEF Asked
<1>2. \A q \in Objects : o \notin Range(N.active) \cap Range(N.sleeping)
  BY <1>1, SortedFacts
<1>3. Held(L) \subseteq Objects
  BY SortedFacts
<1>4. ASSUME NEW q \in Objects, q # o
      PROVE  /\ q \in Range(N.active) <=> q \in Range(L.active)
             /\ q \in Range(N.sleeping) <=> q \in Range(L.sleeping)
  <2>1. /\ q \in Held(L) => (q \in Range(L.active) <=> L.counter[q] > 0)
        /\ q \in Range(L.active) => q \notin Range(L.sleeping)
    BY SortedFacts
  <2>2. /\ q \in Held(N) => (q \in Range(N.active) <=> N.counter[q] > 0)
        /\ q \in Range(N.active) => q \notin Range(N.sleeping)
    BY <1>1, SortedFacts
  <2>3. N.counter[q] = L.counter[q]
    BY <1>1, <1>4
  <2> QED
    BY <1>1, <2>1, <2>2, <2>3 DEF Held
<1>5. Range(N.active) \cup Range(N.sleeping) \cup Range(L.active) \cup Range(L.sleeping) \subseteq Objects
  BY <1>1, <1>3 DEF Held
<1> QED
  BY <1>1, <1>2, <1>4, <1>5 DEF LastRequests, Sorted

LEMMA WrappedLast ==
    ASSUME NEW L \in Lists, Sorted(L), NEW N \in Lists, NEW o \in Objects,
           N.active = L.active, N.sleeping = L.sleeping,
           N.crow = L.crow, N.crows = L.crows, N.cur = L.cur,
           \A q \in Objects : q # o => N.counter[q] = L.counter[q]
    PROVE  LastRequests(L, N, o)
<1>1. o \notin Range(N.active) \cap Range(N.sleeping)
  BY SortedFacts
<1> QED
  BY <1>1 DEF LastRequests, Sorted, Crowed, Held

LEMMA NetDestroyedFacts ==
    ASSUME list \in Lists, Sorted(list), NEW o \in Live
    PROVE  LastRequests(list, NetDestroyed(o), o)
<1>1. /\ o \in Held(list) /\ o \in Objects /\ list.counter[o] \in 0 .. MaxActive
      /\ MaxActive \in Nat \ {0}
  BY HeldTypes DEF Live
<1>2. LastRequests(list, list, o)
  BY <1>1, WrappedLast
<1>3. LastRequests(list, processing_deactivate(list, o), o)
  <2> DEFINE N == processing_deactivate(list, o)
  <2>1. CASE list.counter[o] > 0
    <3>1. Asked(list, N, o, -1)
      BY <1>1, <2>1, DeactivateStep
    <3> QED
      BY <1>1, <3>1, AskedLast
  <2>2. CASE list.counter[o] = 0
    <3>1. /\ N \in Lists /\ N.active = list.active /\ N.sleeping = list.sleeping
          /\ N.crow = list.crow /\ N.crows = list.crows /\ N.cur = list.cur
          /\ \A q \in Objects : q # o => N.counter[q] = list.counter[q]
      BY <1>1, <2>2, WrapDown
    <3> HIDE DEF N
    <3>2. LastRequests(list, N, o)
      BY <1>1, <3>1, WrappedLast
    <3> QED
      BY <3>2 DEF N
  <2> QED
    BY <1>1, <2>1, <2>2
<1>4. LastRequests(list, processing_activate(list, o), o)
  <2> DEFINE N == processing_activate(list, o)
  <2>1. CASE list.counter[o] < MaxActive
    <3>1. Asked(list, N, o, 1)
      BY <1>1, <2>1, ActivateStep
    <3> QED
      BY <1>1, <3>1, AskedLast
  <2>2. CASE list.counter[o] = MaxActive
    <3>1. /\ N \in Lists /\ N.active = list.active /\ N.sleeping = list.sleeping
          /\ N.crow = list.crow /\ N.crows = list.crows /\ N.cur = list.cur
          /\ \A q \in Objects : q # o => N.counter[q] = list.counter[q]
      BY <1>1, <2>2, WrapUp
    <3> HIDE DEF N
    <3>2. LastRequests(list, N, o)
      BY <1>1, <3>1, WrappedLast
    <3> QED
      BY <3>2 DEF N
  <2> QED
    BY <1>1, <2>1, <2>2
<1> QED
  BY <1>2, <1>3, <1>4 DEF NetDestroyed, ShellDeactivated

\* What is left of the lists once o is out of them.
Buried(N, o) == [Destroyed(N, o) EXCEPT !.counter[o] = 0, !.crow[o] = FALSE]

LEMMA BuriedFacts ==
    ASSUME NEW N \in Lists, NEW o \in Objects
    PROVE  /\ Buried(N, o) \in Lists
           /\ Buried(N, o).active = RemoveFirst(N.active, o)
           /\ Buried(N, o).sleeping = IF Contains(N.active, o) THEN N.sleeping
                                      ELSE RemoveFirst(N.sleeping, o)
           /\ Buried(N, o).crows = WithoutCrow(N, o) /\ Buried(N, o).cur = N.cur
           /\ Buried(N, o).counter = [N.counter EXCEPT ![o] = 0]
           /\ Buried(N, o).crow = [N.crow EXCEPT ![o] = FALSE]
<1> DEFINE D == Destroyed(N, o)
<1>1. D \in Lists
  BY RequestTypes
<1>2. /\ D.active = RemoveFirst(N.active, o)
      /\ D.sleeping = IF Contains(N.active, o) THEN N.sleeping ELSE RemoveFirst(N.sleeping, o)
      /\ D.crows = WithoutCrow(N, o) /\ D.cur = N.cur /\ D.counter = N.counter /\ D.crow = N.crow
  <2> DEFINE w == WithoutCrow(N, o)
             a == RemoveFirst(N.active, o)
             s == IF Contains(N.active, o) THEN N.sleeping ELSE RemoveFirst(N.sleeping, o)
  <2>1. D = [N EXCEPT !.crows = w, !.active = a, !.sleeping = s]
    BY DEF Destroyed
  <2> HIDE DEF w, a, s, D
  <2>2. /\ D.active = a /\ D.sleeping = s /\ D.crows = w
        /\ D.cur = N.cur /\ D.counter = N.counter /\ D.crow = N.crow
    BY <2>1 DEF Lists
  <2> QED
    BY <2>2 DEF w, a, s
<1> DEFINE B == [D EXCEPT !.counter[o] = 0, !.crow[o] = FALSE]
<1>3. B = Buried(N, o)
  BY DEF Buried
<1> HIDE DEF D
<1>4. B \in Lists
  <2>1. 0 \in 0 .. MaxActive
    BY ObjectListAssumption
  <2> QED
    BY <1>1, <2>1 DEF Lists
<1>5. /\ B.active = D.active /\ B.sleeping = D.sleeping /\ B.crows = D.crows /\ B.cur = D.cur
      /\ B.counter = [D.counter EXCEPT ![o] = 0] /\ B.crow = [D.crow EXCEPT ![o] = FALSE]
  BY <1>1 DEF Lists
<1> HIDE DEF B
<1>6. B \in Lists /\ B.active = RemoveFirst(N.active, o) /\ B.crows = WithoutCrow(N, o) /\ B.cur = N.cur
      /\ B.counter = [N.counter EXCEPT ![o] = 0] /\ B.crow = [N.crow EXCEPT ![o] = FALSE]
  BY <1>2, <1>4, <1>5
<1>7. B.sleeping = IF Contains(N.active, o) THEN N.sleeping ELSE RemoveFirst(N.sleeping, o)
  BY <1>2, <1>5
<1> QED
  BY <1>3, <1>6, <1>7

LEMMA FrontFacts ==
    ASSUME NEW S, NEW s \in Seq(S), s # <<>>, IsInjective(s)
    PROVE  /\ Front(s) \in Seq(S) /\ IsInjective(Front(s))
           /\ Range(Front(s)) = Range(s) \ {Last(s)} /\ Last(s) \in Range(s)
<1> DEFINE u == Front(s)
           n == Len(s)
<1>1. /\ u \in Seq(S) /\ n \in Nat \ {0} /\ Last(s) = s[n]
      /\ Len(u) = n - 1 /\ \A i \in 1 .. n - 1 : u[i] = s[i]
  BY Ends
<1>2. DOMAIN s = 1 .. n /\ DOMAIN u = 1 .. n - 1
  BY <1>1
<1> HIDE DEF u, n
<1>3. \A i \in 1 .. n - 1 : i \in 1 .. n /\ n \in 1 .. n /\ i # n
  BY <1>1
<1>4. IsInjective(u)
  BY <1>1, <1>2, <1>3 DEF IsInjective
<1>5. \A i \in 1 .. n : i = n \/ i \in 1 .. n - 1
  BY <1>1
<1>6. Range(u) = Range(s) \ {Last(s)} /\ Last(s) \in Range(s)
  BY <1>1, <1>2, <1>3, <1>5 DEF Range, IsInjective
<1> QED
  BY <1>1, <1>4, <1>6 DEF u

\* The last of the queue has no children any more: they were behind it.
LEMMA CoreDeath ==
    ASSUME Core, TypeOK', Destroy
    PROVE  /\ Core' /\ Last(destroy_queue) \in Live
           /\ Live' = Live \ {Last(destroy_queue)}
<1> DEFINE Q == destroy_queue
<1>1. /\ Q \in Seq(Objects) /\ Q # <<>> /\ IsInjective(Q)
      /\ Range(Q) = {q \in Live : getDestroy[q]}
      /\ \A i, j \in DOMAIN Q : Parent[Q[i]] = Q[j] => j < i
  BY DEF Destroy, Core, Doomed, TypeOK
<1>2. PICK o : o = Last(Q)
  OBVIOUS
<1>3. o \in Live /\ getDestroy[o] /\ o \in Objects
  BY <1>1, <1>2, FrontFacts, CoreTypes
<1>4. PICK N : N = NetDestroyed(o)
  OBVIOUS
<1>5. /\ list' = Buried(N, o)
      /\ body' = [body EXCEPT ![o] = "solid"] /\ Parent' = [Parent EXCEPT ![o] = NULL]
      /\ m_holder' = [d \in Drivers |-> IF d = o THEN NULL ELSE m_holder[d]]
      /\ m_owner' = [c \in Cars |-> IF c = o THEN NULL ELSE m_owner[c]]
      /\ freed' = freed \cup {o} /\ destroy_queue' = Front(Q)
      /\ UNCHANGED <<getDestroy, pc, todo, calls, crowing>> /\ pc = "destroy"
  BY <1>2, <1>4 DEF Destroy, Buried, loops
<1>6. /\ list \in Lists /\ Live = Held(list) /\ Live \subseteq Objects /\ Sorted(list)
      /\ MaxActive \in Nat \ {0} /\ MaxCounter \in Nat
      /\ list.counter \in [Objects -> 0 .. MaxActive]
  BY CoreTypes DEF Core
<1>7. LastRequests(list, N, o)
  BY <1>3, <1>4, <1>6, NetDestroyedFacts
<1>8. /\ list' \in Lists /\ Sorted(list') /\ Live' = Live \ {o}
      /\ list'.counter[o] = 0 /\ \A q \in Objects : q # o => list'.counter[q] = list.counter[q]
  <2> PICK L : L = list'
    OBVIOUS
  <2>1. /\ N \in Lists /\ IsInjective(N.active) /\ IsInjective(N.sleeping)
        /\ o \notin Range(N.active) \cap Range(N.sleeping)
        /\ Range(N.active) \ {o} = Range(list.active) \ {o}
        /\ Range(N.sleeping) \ {o} = Range(list.sleeping) \ {o}
        /\ \A q \in Objects : q # o => N.counter[q] = list.counter[q]
    BY <1>7 DEF LastRequests
  <2>2. /\ L \in Lists /\ L.active = RemoveFirst(N.active, o)
        /\ L.sleeping = IF Contains(N.active, o) THEN N.sleeping ELSE RemoveFirst(N.sleeping, o)
        /\ L.counter = [N.counter EXCEPT ![o] = 0]
    <3> DEFINE B == Buried(N, o)
    <3>1. /\ B \in Lists /\ B.active = RemoveFirst(N.active, o)
          /\ B.sleeping = IF Contains(N.active, o) THEN N.sleeping ELSE RemoveFirst(N.sleeping, o)
          /\ B.counter = [N.counter EXCEPT ![o] = 0]
      BY <1>3, <2>1, BuriedFacts
    <3>2. L = B
      BY <1>5
    <3> HIDE DEF B
    <3> QED
      BY <3>1, <3>2
  <2>3. N.active \in Seq(Objects) /\ N.sleeping \in Seq(Objects)
    BY <2>1, FieldTypes
  <2>4. Range(L.active) = Range(list.active) \ {o} /\ IsInjective(L.active)
    <3>1. Range(RemoveFirst(N.active, o)) = Range(N.active) \ {o} /\ IsInjective(RemoveFirst(N.active, o))
      BY <2>1, <2>3, RemoveFirstFacts
    <3> QED
      BY <2>1, <2>2, <3>1
  <2>5. Range(L.sleeping) = Range(list.sleeping) \ {o} /\ IsInjective(L.sleeping)
    <3>1. /\ Range(RemoveFirst(N.sleeping, o)) = Range(N.sleeping) \ {o}
          /\ IsInjective(RemoveFirst(N.sleeping, o))
      BY <2>1, <2>3, RemoveFirstFacts
    <3>2. CASE Contains(N.active, o)
      <4>1. o \in Range(N.active)
        BY <2>3, <3>2, RangeIs
      <4> QED
        BY <2>1, <2>2, <3>2, <4>1
    <3>3. CASE ~Contains(N.active, o)
      BY <2>1, <2>2, <3>1, <3>3
    <3> QED
      BY <3>2, <3>3
  <2>6. Held(L) = Live \ {o}
    BY <1>6, <2>4, <2>5 DEF Held
  <2>7. L.counter[o] = 0 /\ \A q \in Objects : q # o => L.counter[q] = list.counter[q]
    <3>1. N.counter \in [Objects -> 0 .. MaxActive]
      BY <2>1, FieldTypes
    <3> QED
      BY <1>3, <2>1, <2>2, <3>1
  <2>8. Sorted(L)
    <3>1. Range(list.active) \subseteq Objects /\ Range(list.sleeping) \subseteq Objects
      BY <1>6 DEF Held
    <3> QED
      BY <1>6, <2>4, <2>5, <2>7, <3>1 DEF Sorted
  <2> QED
    BY <2>2, <2>6, <2>7, <2>8 DEF Live
<1>9. /\ body'[o] = "solid" /\ \A q \in Objects : q # o => body'[q] = body[q]
      /\ Parent'[o] = NULL /\ \A q \in Objects : q # o => Parent'[q] = Parent[q]
      /\ ~Driven(o)' /\ \A q \in Objects : q # o => Driven(q)' = Driven(q)
  <2>1. /\ body'[o] = "solid" /\ \A q \in Objects : q # o => body'[q] = body[q]
        /\ Parent'[o] = NULL /\ \A q \in Objects : q # o => Parent'[q] = Parent[q]
    BY <1>3, <1>5 DEF Core, TypeOK
  <2>2. ~Driven(o)' /\ \A q \in Objects : q # o => Driven(q)' = Driven(q)
    BY <1>5 DEF Driven
  <2> QED
    BY <2>1, <2>2
<1>10. Pushing' /\ Looping'
  <2>1. \A t \in Threads : crowing[t] = Idle
    BY <1>5 DEF Core, Pushing
  <2> QED
    BY <1>5, <2>1, PushingIdle, LoopingKept
<1>11. Counted'
  <2>1. ASSUME NEW q \in Live, q # o
        PROVE  Requests(q)' <= list'.counter[q] /\ list'.counter[q] <= MaxCounter + Dropped(q)'
    <3>1. q \in Objects
      BY <1>6
    <3>2. Requests(q)' = Requests(q) /\ Dropped(q)' = Dropped(q) /\ list'.counter[q] = list.counter[q]
      BY <1>8, <1>9, <2>1, <3>1 DEF Requests, Dropped
    <3> QED
      BY <3>2 DEF Core, Counted
  <2> QED
    BY <1>8, <2>1 DEF Counted
<1>12. Absent'
  <2>1. Live' \cap freed' = {}
    BY <1>5, <1>8 DEF Core, Absent
  <2>2. ASSUME NEW q \in Objects \ Live'
        PROVE  /\ body'[q] = "solid" /\ Parent'[q] = NULL /\ ~Driven(q)'
               /\ q \in freed' \/ (list'.counter[q] = 0 /\ ~getDestroy'[q])
    BY <1>5, <1>8, <1>9, <2>2 DEF Core, Absent
  <2> QED
    BY <2>1, <2>2 DEF Absent
<1>13. Seats'
  <2>1. m_holder \in [Drivers -> Cars \cup {NULL}] /\ m_owner \in [Cars -> Drivers \cup {NULL}]
    BY DEF Core, TypeOK
  <2>2. \A d \in Drivers : m_holder'[d] = IF d = o THEN NULL ELSE m_holder[d]
    BY <1>5
  <2>3. ASSUME NEW d \in Drivers, m_holder'[d] # NULL
        PROVE  \/ m_holder'[d] \in Live' /\ m_owner'[m_holder'[d]] = d
               \/ m_holder'[d] \in freed' /\ list'.counter[m_holder'[d]] = 0
    <3>1. PICK c : c = m_holder[d]
      OBVIOUS
    <3>2. d # o /\ m_holder'[d] = c /\ c \in Cars /\ c \in Objects /\ c # NULL
      BY <2>1, <2>2, <2>3, <3>1, ConstantTypes
    <3>3. (c \in Live /\ m_owner[c] = d) \/ (c \in freed /\ list.counter[c] = 0)
      <4>1. m_holder[d] # NULL
        BY <3>1, <3>2
      <4>2. \/ m_holder[d] \in Live /\ m_owner[m_holder[d]] = d
            \/ m_holder[d] \in freed /\ list.counter[m_holder[d]] = 0
        BY <4>1 DEF Core, Seats
      <4> QED
        BY <3>1, <4>2
    <3>4. CASE c = o
      BY <1>5, <1>8, <3>2, <3>4
    <3>5. CASE c # o
      <4>1. m_owner'[c] = m_owner[c] /\ list'.counter[c] = list.counter[c]
        BY <1>5, <1>8, <3>2, <3>5
      <4> QED
        BY <1>5, <1>8, <3>2, <3>3, <3>5, <4>1
    <3> QED
      BY <3>4, <3>5
  <2>4. \A d, e \in Drivers : m_holder'[d] = m_holder'[e] /\ m_holder'[d] # NULL => d = e
    BY <2>2 DEF Core, Seats
  <2> QED
    BY <2>3, <2>4 DEF Seats
<1>14. \A q \in Objects : Parent[q] # o
  <2>1. ASSUME NEW q \in Objects, Parent[q] = o
        PROVE  FALSE
    <3>1. Parent[q] # NULL
      BY <1>3, <2>1, ConstantTypes
    <3>2. q \in Live /\ getDestroy[q] = getDestroy[o]
      BY <2>1, <3>1 DEF Core, Absent, Families
    <3>3. q \in Range(Q)
      BY <1>1, <1>3, <3>2
    <3>4. PICK i \in DOMAIN Q : Q[i] = q
      BY <3>3 DEF Range
    <3>5. /\ Len(Q) \in Nat /\ DOMAIN Q = 1 .. Len(Q) /\ Len(Q) \in DOMAIN Q /\ Q[Len(Q)] = o
      <4>1. Len(Q) \in Nat \ {0} /\ Last(Q) = Q[Len(Q)]
        BY <1>1, Ends
      <4>2. DOMAIN Q = 1 .. Len(Q)
        BY <1>1
      <4> QED
        BY <1>2, <4>1, <4>2
    <3>6. Len(Q) < i /\ i <= Len(Q)
      BY <1>1, <2>1, <3>4, <3>5
    <3> QED
      BY <3>4, <3>5, <3>6
  <2> QED
    BY <2>1
<1>15. Families'
  <2>1. Families
    BY DEF Core
  <2>2. ASSUME NEW q \in Objects, q # o
        PROVE  /\ Parent'[q] # NULL <=> body'[q] \in {"ruck", "belt", "slot"}
               /\ body'[q] \in {"moving", "stopping", "still"} => q \in Shells
               /\ Parent'[q] # NULL => /\ q \in Items /\ Parent'[q] \in Live'
                                       /\ Parent'[Parent'[q]] = NULL
                                       /\ getDestroy[q] = getDestroy[Parent'[q]]
    <3>1. Parent'[q] = Parent[q] /\ body'[q] = body[q]
      BY <1>9, <2>2
    <3>2. Parent[q] # NULL => Parent[q] # o /\ Parent[q] \in Live'
      BY <1>8, <1>14, <2>1 DEF Families
    <3>3. Parent[q] # NULL => Parent'[Parent[q]] = Parent[Parent[q]]
      BY <1>6, <1>8, <1>9, <3>2
    <3> QED
      BY <2>1, <3>1, <3>2, <3>3 DEF Families
  <2>3. Parent'[o] = NULL /\ body'[o] = "solid"
    BY <1>9
  <2> QED
    BY <1>5, <2>2, <2>3 DEF Families
<1>16. Doomed'
  <2> DEFINE F == Front(Q)
  <2>1. F \in Seq(Objects) /\ IsInjective(F) /\ Range(F) = Range(Q) \ {o}
    BY <1>1, <1>2, FrontFacts
  <2>2. Len(Q) \in Nat \ {0} /\ Len(F) = Len(Q) - 1 /\ \A i \in 1 .. Len(Q) - 1 : F[i] = Q[i]
    BY <1>1, Ends
  <2> HIDE DEF F
  <2>3. DOMAIN F = 1 .. Len(Q) - 1 /\ DOMAIN Q = 1 .. Len(Q)
    BY <1>1, <2>1, <2>2
  <2>4. \A i \in DOMAIN F : i \in DOMAIN Q /\ F[i] = Q[i] /\ F[i] \in Objects /\ F[i] # o
    BY <2>1, <2>2, <2>3, SMTT(30) DEF Range
  <2>5. \A i \in DOMAIN F : Parent'[F[i]] = Parent[Q[i]]
    BY <1>9, <2>4
  <2>6. \A i, j \in DOMAIN F : Parent'[F[i]] = F[j] => j < i
    BY <1>1, <2>4, <2>5
  <2>7. Range(F) = {q \in Live' : getDestroy'[q]}
    BY <1>1, <1>5, <1>8, <2>1
  <2> QED
    BY <1>5, <2>1, <2>6, <2>7 DEF Doomed, F
<1> QED
  BY <1>2, <1>3, <1>8, <1>10, <1>11, <1>12, <1>13, <1>15, <1>16 DEF Core

LEMMA CoreStep ==
    ASSUME Core, MaxCounter < MaxActive, [Next]_vars
    PROVE  TypeOK' /\ Core' /\ (Destroy \/ Live \subseteq Live')
<1>1. TypeOK'
  <2>1. Shape
    BY CoreTypes DEF Core, Pushing, Shape
  <2> QED
    BY <2>1, TypeStep DEF Core
<1>2. CASE UNCHANGED vars
  <2>1. UNCHANGED <<body, kept, pc, todo, calls, crowing>> /\ SameLists(list, list')
    BY <1>2 DEF vars, kept, SameLists
  <2>2. CoreOfLists' /\ Live' = Live
    BY <1>1, <2>1, CoreKept
  <2>3. Pushing' /\ Looping'
    BY <2>1, <2>2, PushingKept, LoopingKept
  <2> QED
    BY <1>1, <2>2, <2>3 DEF Core, CoreOfLists
<1>3. ASSUME NEW o \in Objects,
             Spawn(o) \/ setDestroy(o) \/ shedule_Update(o) \/ Wake(o) \/ Rest(o) \/ Render(o)
      PROVE  Core' /\ Live \subseteq Live'
  BY <1>1, <1>3, CoreSpawn, CoreDestroyed, CoreObjects, CoreShells
<1>4. ASSUME NEW o \in Items, NEW p \in Owners, NEW place \in {"slot", "belt", "ruck"}, Take(o, p, place)
      PROVE  Core' /\ Live \subseteq Live'
  BY <1>1, <1>4, CoreTake
<1>5. ASSUME NEW o \in Items, NEW place \in {"slot", "belt", "ruck"}, Move(o, place)
      PROVE  Core' /\ Live \subseteq Live'
  BY <1>1, <1>5, CoreMove
<1>6. ASSUME NEW o \in Items, NEW just_before_destroy \in BOOLEAN, Reject(o, just_before_destroy)
      PROVE  Core' /\ Live \subseteq Live'
  BY <1>1, <1>6, CoreReject
<1>7. ASSUME NEW d \in Drivers, NEW c \in Cars, attach_Actor(d, c)
      PROVE  Core' /\ Live \subseteq Live'
  BY <1>1, <1>7, CoreAttach
<1>8. ASSUME NEW d \in Drivers, detach_Actor(d)
      PROVE  Core' /\ Live \subseteq Live'
  BY <1>1, <1>8, CoreDetach
<1>9. ASSUME NEW near \in BOOLEAN, UpdateCL(near)
      PROVE  Core' /\ Live \subseteq Live'
  BY <1>1, <1>9, CoreUpdateCL
<1>10. CASE Start \/ UpdateLoop \/ EndFrame
  BY <1>1, <1>9, <1>10, CoreLoops, CoreRelcase, CoreDeath DEF UpdateLoop
<1>11. CASE CrowStep
  BY <1>1, <1>11, CoreCrows DEF CrowStep
<1> QED
  BY <1>1, <1>2, <1>3, <1>4, <1>5, <1>6, <1>7, <1>8, <1>10, <1>11 DEF Next

LEMMA CoreInit == Init => Core
<1> SUFFICES ASSUME Init PROVE Core
  OBVIOUS
<1>1. TypeOK /\ \A t \in Threads : crowing[t] = Idle
  BY TypeInit DEF Init
<1> DEFINE none == <<>>
<1>2. Range(none) = {} /\ IsInjective(none)
  BY DEF Range, IsInjective
<1>3. Len(Idle) = 0
  BY OneTuple DEF Idle
<1>4. list.active = none /\ list.sleeping = none /\ list.counter = [o \in Objects |-> 0]
  BY DEF Init
<1>5. destroy_queue = none /\ todo = <<>> /\ calls = <<>> /\ freed = {}
  BY DEF Init
<1> HIDE DEF none
<1>6. Live = {} /\ Sorted(list)
  BY <1>2, <1>4 DEF Live, Held, Sorted
<1>7. Pushing /\ Looping /\ Counted
  BY <1>1, <1>3, <1>5, <1>6 DEF Pushing, Looping, Counted
<1>8. /\ body = [o \in Objects |-> "solid"] /\ Parent = [o \in Objects |-> NULL]
      /\ m_holder = [d \in Drivers |-> NULL] /\ m_owner = [c \in Cars |-> NULL]
      /\ getDestroy = [o \in Objects |-> FALSE]
  BY DEF Init
<1>9. Absent /\ Seats /\ Families
  BY <1>4, <1>5, <1>6, <1>8 DEF Absent, Seats, Families, Driven
<1>10. Doomed
  <2>1. Range(destroy_queue) = {} /\ IsInjective(destroy_queue) /\ DOMAIN destroy_queue = {}
    BY <1>2, <1>5 DEF Range
  <2> QED
    BY <1>6, <2>1 DEF Doomed
<1> QED
  BY <1>1, <1>6, <1>7, <1>9, <1>10 DEF Core

LEMMA Match == Core => ListsMatchCounters
<1> SUFFICES ASSUME Core PROVE ListsMatchCounters
  OBVIOUS
<1> DEFINE s == list.active
           u == list.sleeping
<1>1. s \in Seq(Objects) /\ u \in Seq(Objects)
  BY CoreTypes, FieldTypes
<1>2. /\ IsInjective(s) /\ IsInjective(u) /\ Range(s) \cap Range(u) = {}
      /\ Live = Range(s) \cup Range(u)
  BY DEF Core, Sorted, Live, Held
<1>3. \A o \in Live : Contains(s, o) <=> Enabled(o)
  <2>1. \A o : Contains(s, o) <=> o \in Range(s)
    BY <1>1, RangeIs
  <2>2. \A o \in Live : o \in Range(s) <=> Enabled(o)
    BY CoreTypes, SortedFacts DEF Core, Enabled
  <2> QED
    BY <2>1, <2>2
<1> HIDE DEF s, u
<1>4. s \o u \in Seq(Objects) /\ Range(s \o u) = Live /\ IsInjective(s \o u)
  BY <1>1, <1>2, ConcatRange
<1>5. Cardinality(Live) = Len(s \o u)
  BY <1>4, DistinctCount
<1> QED
  BY <1>3, <1>5 DEF ListsMatchCounters, s, u


-----------------------------------------------------------------------------
(* The crows: what the calls of a step do to flags and vectors.            *)

\* The crows of N are those of L with o entered at most once.
Further(L, N, o) == N \in Lists /\ Crowed(L, N, o)

LEMMA ActivateCrows ==
    ASSUME NEW L \in Lists, NEW o \in Objects
    PROVE  Further(L, processing_activate(L, o), o)
<1> DEFINE n == (L.counter[o] + 1) % (MaxActive + 1)
           C == [L EXCEPT !.counter[o] = n]
           D == [C EXCEPT !.sleeping = RemoveFirst(@, o), !.active = Append(@, o)]
<1>1. L.counter[o] \in 0 .. MaxActive /\ MaxActive \in Nat
  BY FieldTypes, ObjectListAssumption
<1>2. n \in 0 .. MaxActive
  <2>1. n = IF L.counter[o] = MaxActive THEN 0 ELSE L.counter[o] + 1
    BY <1>1, Wraps
  <2> QED
    BY <1>1, <2>1
<1> HIDE DEF n
<1>3. C \in Lists /\ C.cur = L.cur /\ C.crow = L.crow /\ C.crows = L.crows
  BY <1>2 DEF Lists
<1>4. processing_activate(L, o) = IF FirstRequest(n) THEN o_activate(C, o) ELSE C
  BY DEF processing_activate, n
<1> HIDE DEF C
<1>5. RemoveFirst(C.sleeping, o) \in Seq(Objects) /\ Append(C.active, o) \in Seq(Objects)
  BY <1>3, FieldTypes, RemoveFirstType, AppendType
<1>6. D \in Lists /\ D.cur = C.cur /\ D.crow = C.crow /\ D.crows = C.crows
  BY <1>3, <1>5 DEF Lists
<1>7. o_activate(C, o) = Crow(D, o)
  BY DEF o_activate
<1> HIDE DEF D
<1>8. Further(D, Crow(D, o), o)
  BY <1>6, MakeCrow DEF Further
<1>9. Further(L, Crow(D, o), o) /\ Further(L, C, o)
  BY <1>3, <1>6, <1>8 DEF Further, Crowed
<1> QED
  BY <1>4, <1>7, <1>9

LEMMA DeactivateCrows ==
    ASSUME NEW L \in Lists, NEW o \in Objects
    PROVE  Further(L, processing_deactivate(L, o), o)
<1> DEFINE n == (L.counter[o] - 1) % (MaxActive + 1)
           C == [L EXCEPT !.counter[o] = n]
           D == [C EXCEPT !.active = RemoveFirst(@, o), !.sleeping = Append(@, o)]
<1>1. L.counter[o] \in 0 .. MaxActive /\ MaxActive \in Nat
  BY FieldTypes, ObjectListAssumption
<1>2. n \in 0 .. MaxActive
  <2>1. n = IF L.counter[o] = 0 THEN MaxActive ELSE L.counter[o] - 1
    BY <1>1, Wraps
  <2> QED
    BY <1>1, <2>1
<1> HIDE DEF n
<1>3. C \in Lists /\ C.cur = L.cur /\ C.crow = L.crow /\ C.crows = L.crows
  BY <1>2 DEF Lists
<1>4. processing_deactivate(L, o) = IF n = 0 THEN o_sleep(C, o) ELSE C
  BY DEF processing_deactivate, n
<1> HIDE DEF C
<1>5. RemoveFirst(C.active, o) \in Seq(Objects) /\ Append(C.sleeping, o) \in Seq(Objects)
  BY <1>3, FieldTypes, RemoveFirstType, AppendType
<1>6. D \in Lists /\ D.cur = C.cur /\ D.crow = C.crow /\ D.crows = C.crows
  BY <1>3, <1>5 DEF Lists
<1>7. o_sleep(C, o) = Crow(D, o)
  BY DEF o_sleep
<1> HIDE DEF D
<1>8. Further(D, Crow(D, o), o)
  BY <1>6, MakeCrow DEF Further
<1>9. Further(L, Crow(D, o), o) /\ Further(L, C, o)
  BY <1>3, <1>6, <1>8 DEF Further, Crowed
<1> QED
  BY <1>4, <1>7, <1>9

\* Whatever is called on o next.
LEMMA FurtherStep ==
    ASSUME NEW L \in Lists, NEW M, NEW o \in Objects, Further(L, M, o)
    PROVE  /\ Further(L, processing_activate(M, o), o)
           /\ Further(L, processing_deactivate(M, o), o)
           /\ Further(L, Crow(M, o), o)
<1>1. M \in Lists /\ Crowed(L, M, o)
  BY DEF Further
<1>2. ASSUME NEW N, Further(M, N, o)
      PROVE  Further(L, N, o)
  BY <1>1, <1>2, CrowedTwice DEF Further
<1> QED
  BY <1>1, <1>2, ActivateCrows, DeactivateCrows, MakeCrow DEF Further

LEMMA FurtherCalls ==
    ASSUME NEW L \in Lists, NEW M, NEW o \in Objects, Further(L, M, o)
    PROVE  /\ \A b : Further(L, ShellWoken(M, o, b), o) /\ Further(L, ShellDeactivated(M, o, b), o)
           /\ \A p : Further(L, Placed(M, o, p), o)
           /\ \A p, q : Further(L, LeftPlace(M, o, p, q), o)
  BY FurtherStep DEF ShellWoken, ShellDeactivated, Placed, LeftPlace

LEMMA FurtherSelf ==
    ASSUME NEW L \in Lists, NEW o \in Objects
    PROVE  Further(L, L, o)
  BY DEF Further, Crowed

SameCrows == list'.cur = list.cur /\ list'.crow = list.crow /\ list'.crows = list.crows
CrowsBy == SameCrows \/ \E o \in Live' : Crowed(list, list', o)

Quiet == \A t \in Threads : crowing[t] = Idle

LEMMA CrowsByObjects ==
    ASSUME Core, NEW o \in Objects,
           Spawn(o) \/ setDestroy(o) \/ shedule_Update(o) \/ Rest(o), Live \subseteq Live'
    PROVE  CrowsBy
<1>1. CASE setDestroy(o) \/ Rest(o)
  BY <1>1 DEF setDestroy, Rest, CrowsBy, SameCrows
<1>2. CASE shedule_Update(o)
  <2>1. o \in Live /\ list' = Crow(list, o)
    BY <1>2 DEF shedule_Update
  <2>2. Crowed(list, Crow(list, o), o)
    BY MakeCrow, CoreTypes
  <2> QED
    BY <2>1, <2>2 DEF CrowsBy
<1>3. CASE Spawn(o)
  <2> DEFINE S == [list EXCEPT !.sleeping = Append(@, o)]
  <2>1. list' = processing_activate(S, o) /\ o \notin Live /\ o \notin freed
    BY <1>3 DEF Spawn
  <2>2. list.counter[o] = 0 /\ list \in Lists /\ Sorted(list)
    BY <2>1, CoreTypes DEF Core, Absent
  <2>3. /\ S \in Lists /\ Held(S) = Live \cup {o}
        /\ S.crow = list.crow /\ S.crows = list.crows /\ S.cur = list.cur
        /\ Asked(S, processing_activate(S, o), o, 1)
    BY <2>1, <2>2, SpawnAsks DEF Live
  <2> HIDE DEF S
  <2>4. Held(list') = Held(S) /\ Crowed(S, list', o)
    BY <2>1, <2>3 DEF Asked
  <2>5. o \in Live' /\ Crowed(list, list', o)
    BY <2>3, <2>4 DEF Live, Crowed
  <2> QED
    BY <2>5 DEF CrowsBy
<1> QED
  BY <1>1, <1>2, <1>3

LEMMA CrowsByInventory ==
    ASSUME Core, NEW o \in Items, NEW p, NEW place, Live \subseteq Live',
           Take(o, p, place) \/ Move(o, place) \/ Reject(o, p)
    PROVE  CrowsBy
<1>1. list \in Lists /\ o \in Objects /\ o \in Live
  BY CoreTypes, ConstantTypes DEF Take, Move, Reject
<1>2. Further(list, list, o)
  BY <1>1, FurtherSelf
<1>3. CASE Take(o, p, place)
  <2> DEFINE L1 == ShellDeactivated(list, o, body[o])
             L2 == Crow(L1, o)
             L3 == Placed(L2, o, place)
             L4 == processing_deactivate(L3, o)
  <2>1. list' = L4
    BY <1>3 DEF Take
  <2>2. Further(list, L1, o)
    BY <1>1, <1>2, FurtherCalls
  <2> HIDE DEF L1
  <2>3. Further(list, L2, o)
    BY <1>1, <2>2, FurtherStep
  <2> HIDE DEF L2
  <2>4. Further(list, L3, o)
    BY <1>1, <2>3, FurtherCalls
  <2> HIDE DEF L3
  <2>5. Further(list, L4, o)
    BY <1>1, <2>4, FurtherStep
  <2> QED
    BY <1>1, <2>1, <2>5 DEF CrowsBy, Further
<1>4. CASE Move(o, place)
  <2> DEFINE L1 == LeftPlace(list, o, body[o], place)
             L2 == Placed(L1, o, place)
  <2>1. list' = L2
    BY <1>4 DEF Move
  <2>2. Further(list, L1, o)
    BY <1>1, <1>2, FurtherCalls
  <2> HIDE DEF L1
  <2>3. Further(list, L2, o)
    BY <1>1, <2>2, FurtherCalls
  <2> QED
    BY <1>1, <2>1, <2>3 DEF CrowsBy, Further
<1>5. CASE Reject(o, p)
  <2> DEFINE L1 == processing_activate(list, o)
             L2 == IF body[o] = "ruck" THEN L1 ELSE processing_deactivate(L1, o)
  <2>1. list' = Crow(L2, o)
    BY <1>5 DEF Reject
  <2>2. Further(list, L1, o)
    BY <1>1, <1>2, FurtherStep
  <2> HIDE DEF L1
  <2>3. Further(list, L2, o)
    BY <1>1, <2>2, FurtherStep
  <2> HIDE DEF L2
  <2>4. Further(list, Crow(L2, o), o)
    BY <1>1, <2>3, FurtherStep
  <2> QED
    BY <1>1, <2>1, <2>4 DEF CrowsBy, Further
<1> QED
  BY <1>3, <1>4, <1>5

\* A driver's request for a dead car wraps its counter and makes no crow.
LEMMA CrowsByLeaving ==
    ASSUME Core, NEW d \in Drivers, m_holder[d] # NULL, Live \subseteq Live',
           list' = processing_deactivate(list, m_holder[d])
    PROVE  CrowsBy
<1>1. PICK c : c = m_holder[d]
  OBVIOUS
<1>2. c \in Objects /\ list \in Lists /\ c # NULL
  BY <1>1, CoreTypes, ConstantTypes DEF Core, TypeOK
<1>3. c \in Live \/ list.counter[c] = 0
  BY <1>1 DEF Core, Seats
<1>4. list' = processing_deactivate(list, c)
  BY <1>1
<1>5. CASE c \in Live
  <2>1. Further(list, processing_deactivate(list, c), c)
    BY <1>2, DeactivateCrows
  <2>2. Crowed(list, list', c)
    BY <1>4, <2>1 DEF Further
  <2> QED
    BY <1>5, <2>2 DEF CrowsBy
<1>6. CASE list.counter[c] = 0
  <2> DEFINE M == processing_deactivate(list, c)
  <2>1. M.crow = list.crow /\ M.crows = list.crows /\ M.cur = list.cur
    BY <1>2, <1>6, WrapDown
  <2> HIDE DEF M
  <2>2. list' = M
    BY <1>4 DEF M
  <2> QED
    BY <2>1, <2>2 DEF CrowsBy, SameCrows
<1> QED
  BY <1>3, <1>5, <1>6

LEMMA CrowsByCars ==
    ASSUME Core, TypeOK', NEW d \in Drivers, Live \subseteq Live',
           (\E c \in Cars : attach_Actor(d, c)) \/ detach_Actor(d)
    PROVE  CrowsBy
<1>1. ASSUME NEW c \in Cars, attach_Actor(d, c)
      PROVE  CrowsBy
  <2>1. list \in Lists /\ c \in Objects /\ c \in Live
    BY <1>1, CoreTypes, ConstantTypes DEF attach_Actor
  <2> DEFINE L1 == ShellWoken(list, c, body[c])
  <2>2. list' = processing_activate(L1, c)
    BY <1>1 DEF attach_Actor
  <2>3. Further(list, L1, c)
    BY <2>1, FurtherSelf, FurtherCalls
  <2> HIDE DEF L1
  <2>4. Further(list, processing_activate(L1, c), c)
    BY <2>1, <2>3, FurtherStep
  <2> QED
    BY <2>1, <2>2, <2>4 DEF CrowsBy, Further
<1>2. CASE detach_Actor(d)
  BY <1>2, CrowsByLeaving DEF detach_Actor
<1> QED
  BY <1>1, <1>2

LEMMA CrowsByRelcase ==
    ASSUME Core, net_Relcase, Live \subseteq Live'
    PROVE  CrowsBy
<1>1. TypeOK
  BY DEF Core
<1>2. PICK o \in Live :
         \/ list' = list
         \/ /\ o \in Drivers /\ m_holder[o] \in Cars
            /\ list' = processing_deactivate(list, m_holder[o])
  BY <1>1, RelcaseFacts
<1>3. CASE list' = list
  BY <1>3 DEF CrowsBy, SameCrows
<1>4. CASE /\ o \in Drivers /\ m_holder[o] \in Cars
           /\ list' = processing_deactivate(list, m_holder[o])
  <2>1. m_holder[o] # NULL
    BY <1>4, ConstantTypes
  <2> QED
    BY <1>4, <2>1, CrowsByLeaving
<1> QED
  BY <1>2, <1>3, <1>4

-----------------------------------------------------------------------------
(* Without mtPhysics.                                                      *)

\* A thread begins to push an object that is no crow yet, in its part of the frame.
Beginning(t, o) ==
    /\ Begins(t, o) /\ SameCrows /\ o \in Live /\ ~list.crow[o]
    /\ pc' = pc /\ pc = IF t = "primary" THEN "render" ELSE "frame"

\* Marking or storing, while the other thread does nothing.
Pushes(t) ==
    /\ \A u \in Threads : u # t => crowing[u] = Idle
    /\ CrowMark(t) \/ CrowPush(t)

LEMMA OneAtATime ==
    ASSUME Core, Alone, NEW t \in Threads, crowing[t] # Idle
    PROVE  /\ \A u \in Threads : u # t => crowing[u] = Idle
           /\ pc = IF t = "primary" THEN "render" ELSE "frame"
<1>1. Threads = {"primary", "physics"}
  BY DEF Threads
<1> QED
  BY <1>1 DEF Alone

LEMMA WhileCrowing ==
    ASSUME Core, Alone, ~mtPhysics, NEW t \in Threads, crowing[t] # Idle, [Next]_vars
    PROVE  UNCHANGED vars \/ Pushes(t)
<1>1. /\ \A u \in Threads : u # t => crowing[u] = Idle
      /\ pc = IF t = "primary" THEN "render" ELSE "frame"
  BY OneAtATime
<1>2. Threads = {"primary", "physics"}
  BY DEF Threads
<1>3. ~Frame /\ calls = <<>>
  BY <1>1 DEF Frame, Core, Looping
<1>4. ASSUME NEW o \in Objects
      PROVE  ~Spawn(o) /\ ~setDestroy(o) /\ ~shedule_Update(o)
  BY <1>3 DEF Spawn, setDestroy, shedule_Update
<1>5. ASSUME NEW o \in Objects
      PROVE  ~Wake(o) /\ ~Rest(o) /\ ~Render(o)
  BY <1>1, <1>2 DEF Wake, Rest, Render, PhysicsTurn
<1>6. ASSUME NEW o, NEW p, NEW place
      PROVE  ~Take(o, p, place) /\ ~Move(o, place) /\ ~Reject(o, p)
  BY <1>3 DEF Take, Move, Reject
<1>7. ASSUME NEW d, NEW c
      PROVE  ~attach_Actor(d, c) /\ ~detach_Actor(d)
  BY <1>3 DEF attach_Actor, detach_Actor
<1>8. ~Start /\ ~UpdateLoop
  <2>1. ~Start
    BY <1>3 DEF Start, StartUpdate
  <2>2. ~UpdateLoop
    BY <1>1, <1>3 DEF UpdateLoop, NextObject, UpdateParent, EndUpdates, UpdateCL, net_Relcase,
                      EndRelcase, Overrun, Destroy, EndDestroy
  <2> QED
    BY <2>1, <2>2
<1>9. ~EndFrame
  BY DEF EndFrame
<1>10. CASE CrowStep
  <2>1. PICK u \in Threads : CrowMark(u) \/ CrowPush(u)
    BY <1>10 DEF CrowStep
  <2>2. u = t
    <3>1. Len(Idle) = 0
      BY OneTuple DEF Idle
    <3>2. Len(crowing[u]) \in {1, 2}
      BY <2>1 DEF CrowMark, CrowPush
    <3> QED
      BY <1>1, <3>1, <3>2
  <2> QED
    BY <1>1, <2>1, <2>2 DEF Pushes
<1> QED
  BY <1>4, <1>5, <1>6, <1>7, <1>8, <1>9, <1>10 DEF Next

\* Update's own steps are the only ones that do more to the crows than enter one.
LEMMA WhileQuiet ==
    ASSUME Core, TypeOK', ~mtPhysics, Quiet, Destroy \/ Live \subseteq Live', [Next]_vars
    PROVE  \/ UNCHANGED crowing /\ (CrowsBy \/ Start \/ (\E near \in BOOLEAN : UpdateCL(near)) \/ Destroy)
           \/ \E t \in Threads, o \in Objects : Beginning(t, o)
<1>1. CASE UNCHANGED vars
  BY <1>1 DEF vars, CrowsBy, SameCrows
<1>2. CASE UpdateLoop \/ EndFrame \/ Start
  <2>1. UNCHANGED crowing
    BY <1>2 DEF Start, StartUpdate, UpdateLoop, EndFrame, NextObject, UpdateParent, EndUpdates,
                UpdateCL, net_Relcase, EndRelcase, Overrun, Destroy, EndDestroy
  <2>2. CASE net_Relcase
    <3>1. Live \subseteq Live'
      BY <2>2 DEF net_Relcase, Destroy
    <3> QED
      BY <2>1, <2>2, <3>1, CrowsByRelcase
  <2>3. CASE NextObject \/ UpdateParent \/ EndUpdates \/ EndRelcase \/ Overrun \/ EndDestroy \/ EndFrame
    <3>1. list' = list
      BY <2>3 DEF NextObject, UpdateParent, EndUpdates, EndRelcase, Overrun, EndDestroy, EndFrame
    <3> QED
      BY <2>1, <3>1 DEF CrowsBy, SameCrows
  <2> QED
    BY <1>2, <2>1, <2>2, <2>3 DEF UpdateLoop
<1>3. CASE CrowStep
  <2>1. Len(Idle) = 0
    BY OneTuple DEF Idle
  <2> QED
    BY <1>3, <2>1 DEF CrowStep, CrowMark, CrowPush, Quiet
<1>4. ASSUME NEW o \in Objects, Wake(o)
      PROVE  (UNCHANGED crowing /\ CrowsBy) \/ Beginning("physics", o)
  <2>1. SameCrows
    <3> DEFINE L == ShellWoken(list, o, body[o])
    <3>1. L \in Lists /\ L.cur = list.cur
      <4>1. Further(list, L, o)
        BY CoreTypes, FurtherSelf, FurtherCalls
      <4> QED
        BY <4>1 DEF Further, Crowed
    <3>2. list' = [L EXCEPT !.crow = list.crow, !.crows = list.crows]
      BY <1>4 DEF Wake
    <3> HIDE DEF L
    <3> QED
      BY <3>1, <3>2 DEF Lists, SameCrows
  <2>2. \/ crowing' = crowing
        \/ crowing' = [crowing EXCEPT !["physics"] = <<o>>] /\ ~list.crow[o]
    BY <1>4 DEF Wake
  <2>3. pc' = pc /\ pc = "frame" /\ o \in Live /\ crowing["physics"] = Idle
    BY <1>4 DEF Wake, PhysicsTurn, loops
  <2> QED
    BY <2>1, <2>2, <2>3 DEF CrowsBy, Beginning, Begins
<1>5. ASSUME NEW o \in Objects, Render(o)
      PROVE  Beginning("primary", o)
  BY <1>5 DEF Render, Beginning, Begins, SameCrows, loops
<1>6. ASSUME Frame, Stays, Live \subseteq Live' => CrowsBy
      PROVE  UNCHANGED crowing /\ CrowsBy
  <2>1. ~Destroy
    BY <1>6 DEF Frame, Destroy
  <2> QED
    BY <1>6, <2>1, FrameIdle
<1>7. ASSUME NEW o \in Objects, Spawn(o) \/ setDestroy(o) \/ shedule_Update(o)
      PROVE  UNCHANGED crowing /\ CrowsBy
  <2>1. Frame /\ Stays
    BY <1>7 DEF Spawn, setDestroy, shedule_Update
  <2> QED
    BY <1>6, <1>7, <2>1, CrowsByObjects
<1>8. ASSUME NEW o \in Objects, Rest(o)
      PROVE  UNCHANGED crowing /\ CrowsBy
  BY <1>8 DEF Rest, Stays, CrowsBy, SameCrows
<1>9. ASSUME NEW o \in Items, NEW p, NEW place, Take(o, p, place) \/ Move(o, place) \/ Reject(o, p)
      PROVE  UNCHANGED crowing /\ CrowsBy
  <2>1. Frame /\ Stays
    BY <1>9 DEF Take, Move, Reject
  <2> QED
    BY <1>6, <1>9, <2>1, CrowsByInventory
<1>10. ASSUME NEW d \in Drivers, (\E c \in Cars : attach_Actor(d, c)) \/ detach_Actor(d)
       PROVE  UNCHANGED crowing /\ CrowsBy
  <2>1. Frame /\ Stays
    BY <1>10 DEF attach_Actor, detach_Actor
  <2> QED
    BY <1>6, <1>10, <2>1, CrowsByCars
<1>11. Threads = {"primary", "physics"}
  BY DEF Threads
<1> QED
  BY <1>1, <1>2, <1>3, <1>4, <1>5, <1>7, <1>8, <1>9, <1>10, <1>11 DEF Next

\* Every flag has its entry in one of the two vectors.
AllEntered(L) == \A o \in Objects : L.crow[o] => Entered(L, o)

LEMMA EnteredIs ==
    ASSUME NEW L \in Lists
    PROVE  \A o : Entered(L, o) <=> \E l \in 0 .. 1 : o \in Range(L.crows[l])
<1>1. \A l \in 0 .. 1 : L.crows[l] \in Seq(Objects)
  BY FieldTypes
<1>2. \A l \in 0 .. 1 : \A o : Contains(L.crows[l], o) <=> o \in Range(L.crows[l])
  BY <1>1, RangeIs
<1> QED
  BY <1>2 DEF Entered

\* What entering x makes of the vectors.
LEMMA CrowedRanges ==
    ASSUME NEW L \in Lists, NEW M \in Lists, NEW x \in Objects, Crowed(L, M, x)
    PROVE  /\ \A l \in 0 .. 1 : Range(L.crows[l]) \subseteq Range(M.crows[l])
           /\ \A l \in 0 .. 1 : Range(M.crows[l]) \subseteq Range(L.crows[l]) \cup {x}
           /\ \A l \in 0 .. 1 : l # L.cur => M.crows[l] = L.crows[l]
           /\ \A q \in Objects : q # x => (M.crow[q] <=> L.crow[q])
           /\ L.crow[x] => M.crow[x]
           /\ M.crow[x] => L.crow[x] \/ x \in Range(M.crows[M.cur])
           /\ M.cur = L.cur
<1>1. /\ L.crows \in [0 .. 1 -> Seq(Objects)] /\ L.cur \in 0 .. 1
      /\ L.crow \in [Objects -> BOOLEAN] /\ L.crows[L.cur] \in Seq(Objects)
  BY FieldTypes
<1>2. M.cur = L.cur
  BY DEF Crowed
<1>3. CASE M.crow = L.crow /\ M.crows = L.crows
  BY <1>2, <1>3
<1>4. CASE /\ M.crow = [L.crow EXCEPT ![x] = TRUE]
           /\ M.crows = [L.crows EXCEPT ![L.cur] = Append(L.crows[L.cur], x)]
  <2>1. M.crows[L.cur] = Append(L.crows[L.cur], x) /\ \A l \in 0 .. 1 : l # L.cur => M.crows[l] = L.crows[l]
    BY <1>1, <1>4
  <2>2. Range(M.crows[L.cur]) = Range(L.crows[L.cur]) \cup {x}
    BY <1>1, <2>1, AppendType
  <2>3. M.crow[x] /\ \A q \in Objects : q # x => (M.crow[q] <=> L.crow[q])
    BY <1>1, <1>4
  <2>4. /\ \A l \in 0 .. 1 : Range(L.crows[l]) \subseteq Range(M.crows[l])
        /\ \A l \in 0 .. 1 : Range(M.crows[l]) \subseteq Range(L.crows[l]) \cup {x}
    BY <2>1, <2>2
  <2> QED
    BY <1>2, <2>1, <2>2, <2>3, <2>4
<1> QED
  BY <1>3, <1>4 DEF Crowed

LEMMA CrowedEntered ==
    ASSUME NEW L \in Lists, NEW M \in Lists, NEW x \in Objects, Crowed(L, M, x), AllEntered(L)
    PROVE  AllEntered(M)
<1>1. \A o : Entered(L, o) <=> \E l \in 0 .. 1 : o \in Range(L.crows[l])
  BY EnteredIs
<1>2. \A o : Entered(M, o) <=> \E l \in 0 .. 1 : o \in Range(M.crows[l])
  BY EnteredIs
<1>3. M.cur \in 0 .. 1
  BY FieldTypes
<1> QED
  BY <1>1, <1>2, <1>3, CrowedRanges DEF AllEntered

\* Without a push under way every flag is entered.
LEMMA QuietListed ==
    ASSUME Quiet
    PROVE  Alone /\ (AllListed <=> AllEntered(list))
<1>1. Threads = {"primary", "physics"} /\ Len(Idle) = 0
  BY OneTuple DEF Threads, Idle
<1> QED
  BY <1>1 DEF Quiet, Alone, AllListed, AllEntered

\* The start of Update empties a vector and takes the flags of who was in it.
LEMMA StartEntered ==
    ASSUME Core, AllEntered(list), NEW mode \in Modes, StartUpdate(mode)
    PROVE  AllEntered(list')
<1>1. TypeOK
  BY DEF Core
<1>2. PICK ls \in SUBSET (0 .. 1) :
         /\ list' \in Lists
         /\ list'.crow = [o \in Objects |-> list.crow[o] /\ \A l \in ls : ~Contains(list.crows[l], o)]
         /\ list'.crows = [l \in 0 .. 1 |-> IF l \in ls THEN <<>> ELSE list.crows[l]]
  BY <1>1, StartFacts
<1>3. ASSUME NEW o \in Objects, list'.crow[o]
      PROVE  Entered(list', o)
  <2>1. list.crow[o] /\ \A l \in ls : ~Contains(list.crows[l], o)
    BY <1>2, <1>3
  <2>2. PICK l \in 0 .. 1 : Contains(list.crows[l], o)
    BY <2>1 DEF AllEntered, Entered
  <2>3. list'.crows[l] = list.crows[l]
    BY <1>2, <2>1, <2>2
  <2> QED
    BY <2>2, <2>3 DEF Entered
<1> QED
  BY <1>3 DEF AllEntered

LEMMA UpdateEntered ==
    ASSUME Core, TypeOK', MaxCounter < MaxActive, AllEntered(list), NEW near \in BOOLEAN, UpdateCL(near)
    PROVE  AllEntered(list')
<1>1. Last(calls) \in Objects /\ CrowsAfter(Last(calls))
  BY UpdateCLFacts
<1>2. PICK o \in Objects : o = Last(calls)
  BY <1>1
<1> DEFINE U == Unflagged(o)
<1>3. list \in Lists /\ list' \in Lists
  BY CoreTypes DEF TypeOK
<1>4. U \in Lists /\ U.crow = [list.crow EXCEPT ![o] = FALSE] /\ U.crows = list.crows
  BY <1>3, UnflaggedFacts
<1>5. PICK M \in Lists : /\ Crowed(U, M, o)
                         /\ list' = M \/ \E q \in Live : Crowed(M, list', q)
  BY <1>1, <1>2 DEF CrowsAfter
<1> HIDE DEF U
<1>6. AllEntered(U)
  <2>1. \A q \in Objects : U.crow[q] => list.crow[q]
    BY <1>3, <1>4, FieldTypes
  <2> QED
    BY <1>4, <2>1 DEF AllEntered, Entered
<1>7. AllEntered(M)
  BY <1>4, <1>5, <1>6, CrowedEntered
<1>8. Live \subseteq Objects
  BY CoreTypes
<1> QED
  BY <1>3, <1>5, <1>7, <1>8, CrowedEntered

\* What becomes of the crows when o dies.
LEMMA DestroyCrows ==
    ASSUME Core, TypeOK', Destroy
    PROVE  \E o \in Live, N \in Lists :
              /\ o = Last(destroy_queue) /\ o \in Objects
              /\ Crowed(list, N, o) /\ Held(N) = Live
              /\ list' \in Lists /\ list'.crows = WithoutCrow(N, o) /\ list'.cur = N.cur
              /\ list'.crow = [N.crow EXCEPT ![o] = FALSE]
<1>1. PICK o : o = Last(destroy_queue)
  OBVIOUS
<1>2. o \in Live /\ o \in Objects
  BY <1>1, CoreDeath, CoreTypes
<1>3. PICK N : N = NetDestroyed(o)
  OBVIOUS
<1>4. list' = Buried(N, o)
  BY <1>1, <1>3 DEF Destroy, Buried
<1>5. LastRequests(list, N, o)
  BY <1>2, <1>3, NetDestroyedFacts, CoreTypes DEF Core
<1>6. N \in Lists /\ Crowed(list, N, o) /\ Held(N) = Live
  BY <1>5 DEF LastRequests, Live
<1> DEFINE B == Buried(N, o)
<1>7. B \in Lists /\ B.crows = WithoutCrow(N, o) /\ B.cur = N.cur /\ B.crow = [N.crow EXCEPT ![o] = FALSE]
  BY <1>2, <1>6, BuriedFacts
<1>8. list' = B
  BY <1>4
<1> HIDE DEF B
<1> QED
  BY <1>1, <1>2, <1>6, <1>7, <1>8

LEMMA DestroyEntered ==
    ASSUME Core, TypeOK', AllEntered(list), Destroy
    PROVE  AllEntered(list')
<1>1. PICK o \in Live, N \in Lists :
         /\ o \in Objects /\ Crowed(list, N, o)
         /\ list' \in Lists /\ list'.crows = WithoutCrow(N, o)
         /\ list'.crow = [N.crow EXCEPT ![o] = FALSE]
  BY DestroyCrows
<1>2. AllEntered(N)
  BY <1>1, CrowedEntered, CoreTypes
<1>3. ASSUME NEW q \in Objects, list'.crow[q]
      PROVE  \E l \in 0 .. 1 : q \in Range(list'.crows[l])
  <2>1. q # o /\ N.crow[q]
    BY <1>1, <1>3, FieldTypes
  <2>2. PICK l \in 0 .. 1 : q \in Range(N.crows[l])
    BY <1>2, <2>1, EnteredIs DEF AllEntered
  <2>3. N.crows[l] \in Seq(Objects)
    BY FieldTypes
  <2>4. q \in Range(RemoveFirst(N.crows[l], o))
    BY <2>1, <2>2, <2>3, RemoveFirstType
  <2> QED
    BY <1>1, <2>4 DEF WithoutCrow
<1>4. \A q : Entered(list', q) <=> \E l \in 0 .. 1 : q \in Range(list'.crows[l])
  <2> PICK L : L = list'
    OBVIOUS
  <2>1. L \in Lists
    BY <1>1
  <2>2. \A q : Entered(L, q) <=> \E l \in 0 .. 1 : q \in Range(L.crows[l])
    BY <2>1, EnteredIs
  <2> QED
    BY <2>2
<1> QED
  BY <1>3, <1>4 DEF AllEntered

\* The two steps of a push, seen by a thread that is alone.
Marks(t, x) ==
    /\ x \in Live /\ crowing[t][1] = x /\ Len(crowing[t]) = 1
    /\ list'.crow = [list.crow EXCEPT ![x] = TRUE] /\ list'.crows = list.crows /\ list'.cur = list.cur
    /\ Len(crowing'[t]) = 2 /\ crowing'[t][1] = x /\ crowing'[t][2] = Len(list.crows[list.cur])
    /\ \A u \in Threads : u # t => crowing[u] = Idle /\ crowing'[u] = Idle
    /\ pc' = pc

Stores(t, x) ==
    /\ x \in Live /\ crowing[t][1] = x /\ Len(crowing[t]) = 2
    /\ list'.crow = list.crow /\ list'.cur = list.cur
    /\ list'.crows = [list.crows EXCEPT ![list.cur] = Append(list.crows[list.cur], x)]
    /\ \A u \in Threads : crowing'[u] = Idle
    /\ \A u \in Threads : u # t => crowing[u] = Idle
    /\ pc' = pc

LEMMA PushesFacts ==
    ASSUME Core, TypeOK', Alone, NEW t \in Threads, Pushes(t)
    PROVE  \E x \in Live : Marks(t, x) \/ Stores(t, x)
<1>1. crowing \in [Threads -> Seq(Objects \cup Nat)]
  BY DEF Core, TypeOK
<1>2. Len(Idle) = 0
  BY OneTuple DEF Idle
<1>3. PICK s : s = crowing[t]
  OBVIOUS
<1>4. s \in Seq(Objects \cup Nat) /\ s # Idle
  <2>1. Len(s) \in {1, 2}
    BY <1>3 DEF Pushes, CrowMark, CrowPush
  <2>2. s # Idle
    BY <1>2, <2>1
  <2> QED
    BY <1>1, <1>3, <2>2
<1>5. PICK x \in Live : x = s[1]
  BY <1>3, <1>4 DEF Core, Pushing
<1>6. \A u \in Threads : u # t => crowing[u] = Idle
  BY DEF Pushes
<1>7. list \in Lists /\ list' \in Lists /\ x \in Objects
  BY CoreTypes DEF TypeOK
<1>8. CASE CrowMark(t)
  <2>1. PICK n : n = Len(list.crows[list.cur])
    OBVIOUS
  <2>2. n \in Objects \cup Nat
    BY <1>7, <2>1, FieldTypes
  <2>3. PICK e : e = Append(s, n)
    OBVIOUS
  <2>4. crowing' = [crowing EXCEPT ![t] = e] /\ Len(s) = 1 /\ pc' = pc
    BY <1>3, <1>8, <2>1, <2>3 DEF CrowMark, loops
  <2>5. Len(e) = 2 /\ e[1] = x /\ e[2] = n
    BY <1>4, <1>5, <2>2, <2>3, <2>4, AppendToOne
  <2>6. list' = [list EXCEPT !.crow[x] = TRUE]
    BY <1>3, <1>5, <1>8 DEF CrowMark
  <2>7. list'.crow = [list.crow EXCEPT ![x] = TRUE] /\ list'.crows = list.crows /\ list'.cur = list.cur
    BY <1>7, <2>6 DEF Lists
  <2>8. \A u \in Threads : crowing'[u] = IF u = t THEN e ELSE crowing[u]
    BY <1>1, <2>4
  <2>9. crowing'[t] = e /\ \A u \in Threads : u # t => crowing[u] = Idle /\ crowing'[u] = Idle
    BY <1>6, <2>8
  <2>10. Len(crowing'[t]) = 2 /\ crowing'[t][1] = x /\ crowing'[t][2] = Len(list.crows[list.cur])
    BY <2>1, <2>5, <2>9
  <2>11. crowing[t][1] = x /\ Len(crowing[t]) = 1
    BY <1>3, <1>5, <2>4
  <2> QED
    BY <2>4, <2>7, <2>9, <2>10, <2>11 DEF Marks
<1>9. CASE CrowPush(t)
  <2>1. PICK v : v = list.crows[list.cur]
    OBVIOUS
  <2>2. v \in Seq(Objects) /\ Len(v) \in Nat
    BY <1>7, <2>1, FieldTypes
  <2>3. Len(s) = 2 /\ s[2] = Len(v)
    BY <1>3, <1>9, <2>1 DEF CrowPush, Alone
  <2>4. Taken(v, Len(v)) = v
    BY <2>2, TakenType
  <2>5. list' = [list EXCEPT !.crows[list.cur] = Append(v, x)]
    BY <1>3, <1>5, <1>9, <2>1, <2>3, <2>4 DEF CrowPush
  <2>6. PICK w : w = Append(v, x)
    OBVIOUS
  <2>7. /\ list'.crow = list.crow /\ list'.cur = list.cur
        /\ list'.crows = [list.crows EXCEPT ![list.cur] = w]
    BY <1>7, <2>5, <2>6 DEF Lists
  <2>8. \A u \in Threads : crowing'[u] = IF u = t THEN Idle ELSE crowing[u]
    BY <1>1, <1>9 DEF CrowPush
  <2>9. pc' = pc
    BY <1>9 DEF CrowPush, loops
  <2>10. crowing[t][1] = x /\ Len(crowing[t]) = 2
    BY <1>3, <1>5, <2>3
  <2>11. list'.crows = [list.crows EXCEPT ![list.cur] = Append(list.crows[list.cur], x)]
    BY <2>1, <2>6, <2>7
  <2>12. \A u \in Threads : crowing'[u] = Idle
    BY <1>6, <2>8
  <2> QED
    BY <1>6, <2>7, <2>9, <2>10, <2>11, <2>12 DEF Stores
<1> QED
  BY <1>8, <1>9 DEF Pushes

LEMMA BeginningFacts ==
    ASSUME Core, NEW t \in Threads, NEW o \in Objects, Beginning(t, o), Quiet
    PROVE  /\ Len(crowing'[t]) = 1 /\ crowing'[t][1] = o /\ crowing'[t] # Idle
           /\ \A u \in Threads : u # t => crowing'[u] = Idle
<1>1. crowing \in [Threads -> Seq(Objects \cup Nat)]
  BY DEF Core, TypeOK
<1>2. PICK s : s = <<o>>
  OBVIOUS
<1>3. Len(s) = 1 /\ s[1] = o /\ s # Idle
  BY <1>2, OneTuple DEF Idle
<1>4. \A u \in Threads : crowing'[u] = IF u = t THEN s ELSE crowing[u]
  BY <1>1, <1>2 DEF Beginning, Begins
<1> QED
  BY <1>3, <1>4 DEF Quiet

LEMMA ListedStep ==
    ASSUME Core, MaxCounter < MaxActive, ~mtPhysics, Alone, AllListed, [Next]_vars
    PROVE  Alone' /\ AllListed'
<1>1. Core' /\ TypeOK' /\ (Destroy \/ Live \subseteq Live')
  BY CoreStep
<1>2. Threads = {"primary", "physics"} /\ Len(Idle) = 0
  BY OneTuple DEF Threads, Idle
<1>3. list \in Lists /\ list' \in Lists /\ Live \subseteq Objects
  BY <1>1, CoreTypes DEF TypeOK
<1>4. CASE Quiet
  <2>1. AllEntered(list)
    BY <1>4, QuietListed
  <2>2. CASE UNCHANGED crowing /\ (CrowsBy \/ Start \/ (\E near \in BOOLEAN : UpdateCL(near)) \/ Destroy)
    <3>1. ASSUME CrowsBy
          PROVE  AllEntered(list')
      <4>1. ASSUME SameCrows
            PROVE  AllEntered(list')
        BY <2>1, <4>1 DEF SameCrows, AllEntered, Entered
      <4>2. ASSUME NEW x \in Live', Crowed(list, list', x)
            PROVE  AllEntered(list')
        <5>1. x \in Objects
          BY <1>3, HeldTypes DEF Live
        <5> QED
          BY <1>3, <2>1, <4>2, <5>1, CrowedEntered
      <4> QED
        BY <3>1, <4>1, <4>2 DEF CrowsBy
    <3>2. AllEntered(list')
      BY <1>1, <2>1, <2>2, <3>1, StartEntered, UpdateEntered, DestroyEntered DEF Start
    <3>3. Quiet'
      BY <1>4, <2>2 DEF Quiet
    <3> QED
      BY <1>2, <3>2, <3>3 DEF Quiet, Alone, AllListed, AllEntered
  <2>3. ASSUME NEW t \in Threads, NEW o \in Objects, Beginning(t, o)
        PROVE  Alone' /\ AllListed'
    <3>1. /\ Len(crowing'[t]) = 1 /\ crowing'[t][1] = o /\ crowing'[t] # Idle
          /\ \A u \in Threads : u # t => crowing'[u] = Idle
      BY <1>4, <2>3, BeginningFacts
    <3>2. pc' = IF t = "primary" THEN "render" ELSE "frame"
      BY <2>3 DEF Beginning
    <3>3. Alone'
      BY <1>2, <3>1, <3>2 DEF Alone
    <3>4. AllListed'
      BY <2>1, <2>3 DEF AllListed, AllEntered, Entered, Beginning, SameCrows
    <3> QED
      BY <3>3, <3>4
  <2> QED
    BY <1>1, <1>4, <2>2, <2>3, WhileQuiet
<1>5. ASSUME NEW t \in Threads, crowing[t] # Idle
      PROVE  Alone' /\ AllListed'
  <2>1. CASE UNCHANGED vars
    BY <2>1 DEF vars, Alone, AllListed, Entered
  <2>2. ASSUME NEW x \in Live, Marks(t, x)
        PROVE  Alone' /\ AllListed'
    <3>1. pc = IF t = "primary" THEN "render" ELSE "frame"
      BY <1>5, OneAtATime
    <3>2. Alone'
      BY <1>2, <2>2, <3>1 DEF Marks, Alone
    <3>3. ASSUME NEW q \in Objects, list'.crow[q]
          PROVE  Entered(list', q) \/ \E u \in Threads : crowing'[u] # Idle /\ crowing'[u][1] = q
      <4>1. CASE q = x
        <5>1. crowing'[t] # Idle /\ crowing'[t][1] = q
          BY <1>2, <2>2, <4>1 DEF Marks
        <5> QED
          BY <5>1
      <4>2. CASE q # x
        <5>1. list.crow[q]
          BY <1>3, <2>2, <3>3, <4>2, FieldTypes DEF Marks
        <5>2. Entered(list, q) \/ \E u \in Threads : crowing[u] # Idle /\ crowing[u][1] = q
          BY <5>1 DEF AllListed
        <5>3. Entered(list, q)
          BY <1>2, <2>2, <4>2, <5>2 DEF Marks
        <5> QED
          BY <2>2, <5>3 DEF Marks, Entered
      <4> QED
        BY <4>1, <4>2
    <3>4. AllListed'
      BY <3>3 DEF AllListed
    <3> QED
      BY <3>2, <3>4
  <2>3. ASSUME NEW x \in Live, Stores(t, x)
        PROVE  Alone' /\ AllListed'
    <3>1. Alone'
      BY <1>2, <2>3 DEF Stores, Alone
    <3>2. \A q : Entered(list, q) <=> \E l \in 0 .. 1 : q \in Range(list.crows[l])
      BY <1>3, EnteredIs
    <3>3. \A q : Entered(list', q) <=> \E l \in 0 .. 1 : q \in Range(list'.crows[l])
      <4> PICK L : L = list'
        OBVIOUS
      <4>1. L \in Lists
        BY <1>3
      <4>2. \A q : Entered(L, q) <=> \E l \in 0 .. 1 : q \in Range(L.crows[l])
        BY <4>1, EnteredIs
      <4> QED
        BY <4>2
    <3>4. /\ list.crows \in [0 .. 1 -> Seq(Objects)] /\ list.cur \in 0 .. 1
          /\ list.crows[list.cur] \in Seq(Objects)
      BY <1>3, FieldTypes
    <3>5. PICK w : w = Append(list.crows[list.cur], x)
      OBVIOUS
    <3>6. Range(w) = Range(list.crows[list.cur]) \cup {x}
      BY <1>3, <3>4, <3>5, AppendType
    <3>7. list'.crows[list.cur] = w /\ \A l \in 0 .. 1 : l # list.cur => list'.crows[l] = list.crows[l]
      BY <2>3, <3>4, <3>5 DEF Stores
    <3>8. ASSUME NEW q \in Objects, list'.crow[q]
          PROVE  \E l \in 0 .. 1 : q \in Range(list'.crows[l])
      <4>1. list.crow[q]
        BY <2>3, <3>8 DEF Stores
      <4>2. q = x \/ \E l \in 0 .. 1 : q \in Range(list.crows[l])
        <5>1. Entered(list, q) \/ \E u \in Threads : crowing[u] # Idle /\ crowing[u][1] = q
          BY <4>1 DEF AllListed
        <5> QED
          BY <2>3, <3>2, <5>1 DEF Stores
      <4> QED
        BY <3>4, <3>6, <3>7, <4>2
    <3>9. AllListed'
      BY <3>3, <3>8 DEF AllListed
    <3> QED
      BY <3>1, <3>9
  <2> QED
    BY <1>1, <1>5, <2>1, <2>2, <2>3, WhileCrowing, PushesFacts
<1> QED
  BY <1>4, <1>5 DEF Quiet


-----------------------------------------------------------------------------
(* Without zones as well.                                                  *)

LEMMA NobodyIn == LET none == <<>> IN Range(none) = {} /\ IsInjective(none)
  BY DEF Range, IsInjective

\* MakeMeCrow's test of the flag keeps the vectors free of doubles.
LEMMA CrowedOnce ==
    ASSUME NEW L \in Lists, NEW M \in Lists, NEW x \in Held(M), Held(L) \subseteq Held(M),
           CrowsOnce(L), Crowed(L, M, x)
    PROVE  CrowsOnce(M)
<1>1. /\ L.crows \in [0 .. 1 -> Seq(Objects)] /\ L.cur \in 0 .. 1
      /\ L.crow \in [Objects -> BOOLEAN] /\ L.crows[L.cur] \in Seq(Objects)
      /\ x \in Objects
  BY FieldTypes, HeldTypes
<1>2. M.cur = L.cur
  BY DEF Crowed
<1>3. CASE M.crow = L.crow /\ M.crows = L.crows
  BY <1>2, <1>3 DEF CrowsOnce
<1>4. CASE /\ ~L.crow[x] /\ M.crow = [L.crow EXCEPT ![x] = TRUE]
           /\ M.crows = [L.crows EXCEPT ![L.cur] = Append(L.crows[L.cur], x)]
  <2>1. PICK v : v = L.crows[L.cur]
    OBVIOUS
  <2>2. v \in Seq(Objects) /\ IsInjective(v) /\ x \notin Range(v) /\ Range(v) \subseteq Held(L)
    BY <1>1, <1>4, <2>1 DEF CrowsOnce
  <2>3. PICK w : w = Append(v, x)
    OBVIOUS
  <2>4. IsInjective(w) /\ Range(w) = Range(v) \cup {x}
    BY <1>1, <2>2, <2>3, DistinctAppend
  <2>5. M.crows[L.cur] = w /\ \A l \in 0 .. 1 : l # L.cur => M.crows[l] = L.crows[l]
    BY <1>1, <1>4, <2>1, <2>3
  <2>6. \A l \in 0 .. 1 : IsInjective(M.crows[l]) /\ Range(M.crows[l]) \subseteq Held(M)
    BY <2>2, <2>4, <2>5 DEF CrowsOnce
  <2>7. \A o \in Range(w) : M.crow[o]
    <3>1. \A o \in Range(v) : L.crow[o] /\ o \in Objects
      BY <2>1, <2>2, RangeIs DEF CrowsOnce
    <3> QED
      BY <1>1, <1>4, <2>4, <3>1
  <2> QED
    BY <1>2, <2>5, <2>6, <2>7 DEF CrowsOnce
<1> QED
  BY <1>3, <1>4 DEF Crowed

\* Outside Update only the start of a frame has anything to show.
LEMMA RestingUpdates == todo = <<>> /\ calls = <<>> /\ (pc = "frame" => updated = {}) => UpdatesOnce
<1> SUFFICES ASSUME todo = <<>>, calls = <<>>, pc = "frame" => updated = {} PROVE UpdatesOnce
  OBVIOUS
<1>1. Range(calls) = {} /\ Range(todo) = {} /\ IsInjective(calls)
  BY NobodyIn
<1>2. Len(calls) = 0
  BY OneTuple
<1> QED
  BY <1>1, <1>2 DEF UpdatesOnce

LEMMA FrameUpdated ==
    ASSUME Core, [Next]_vars, pc = "frame" => updated = {}
    PROVE  pc' = "frame" => updated' = {}
<1>1. CASE UNCHANGED vars
  BY <1>1 DEF vars
<1>2. CASE UpdateLoop
  <2>1. pc # "frame"
    BY <1>2 DEF UpdateLoop, NextObject, UpdateParent, EndUpdates, UpdateCL, net_Relcase,
                EndRelcase, Overrun, Destroy, EndDestroy, Core, Looping
  <2> QED
    BY <1>2, <2>1 DEF UpdateLoop, NextObject, UpdateParent, EndUpdates, UpdateCL, net_Relcase,
                      EndRelcase, Overrun, Destroy, EndDestroy, AfterActive, loops
<1>3. CASE EndFrame \/ Start \/ CrowStep
  BY <1>3 DEF EndFrame, Start, StartUpdate, CrowStep, CrowMark, CrowPush, loops
<1>4. ASSUME NEW o \in Objects,
             Spawn(o) \/ setDestroy(o) \/ shedule_Update(o) \/ Wake(o) \/ Rest(o) \/ Render(o)
      PROVE  pc' = pc /\ updated' = updated
  BY <1>4 DEF Spawn, setDestroy, shedule_Update, Wake, Rest, Render, Stays, loops
<1>5. ASSUME NEW o, NEW p, NEW place, Take(o, p, place) \/ Move(o, place) \/ Reject(o, p)
      PROVE  pc' = pc /\ updated' = updated
  BY <1>5 DEF Take, Move, Reject, Stays, loops
<1>6. ASSUME NEW d, NEW c, attach_Actor(d, c) \/ detach_Actor(d)
      PROVE  pc' = pc /\ updated' = updated
  BY <1>6 DEF attach_Actor, detach_Actor, Stays, loops
<1> QED
  BY <1>1, <1>2, <1>3, <1>4, <1>5, <1>6 DEF Next

\* The steps that begin the loop over the objects or go on with it.
LEMMA UpdatingSteps ==
    ASSUME Core, [Next]_vars, pc' = "update"
    PROVE  UNCHANGED vars \/ Start \/ NextObject \/ UpdateParent \/ \E near \in BOOLEAN : UpdateCL(near)
<1>1. CASE UpdateLoop
  <2>1. CASE EndUpdates \/ net_Relcase \/ EndRelcase \/ Overrun \/ Destroy \/ EndDestroy
    BY <2>1 DEF EndUpdates, net_Relcase, EndRelcase, Overrun, Destroy, EndDestroy, AfterActive, loops
  <2> QED
    BY <1>1, <2>1 DEF UpdateLoop
<1>2. ~EndFrame
  BY DEF EndFrame
<1>3. ~CrowStep
  <2>1. Len(Idle) = 0
    BY OneTuple DEF Idle
  <2>2. ASSUME NEW t \in Threads, CrowMark(t) \/ CrowPush(t)
        PROVE  FALSE
    <3>1. crowing[t] # Idle
      <4>1. Len(crowing[t]) # 0
        BY <2>2 DEF CrowMark, CrowPush
      <4> QED
        BY <2>1, <4>1
    <3>2. pc' = pc
      BY <2>2 DEF CrowMark, CrowPush, loops
    <3> QED
      BY <3>1, <3>2 DEF Core, Pushing
  <2> QED
    BY <2>2 DEF CrowStep
<1>4. ASSUME NEW o \in Objects,
             Spawn(o) \/ setDestroy(o) \/ shedule_Update(o) \/ Wake(o) \/ Rest(o) \/ Render(o)
      PROVE  FALSE
  BY <1>4 DEF Spawn, setDestroy, shedule_Update, Wake, Rest, Render, Stays, loops, Frame, PhysicsTurn
<1>5. ASSUME NEW o, NEW p, NEW place, Take(o, p, place) \/ Move(o, place) \/ Reject(o, p)
      PROVE  FALSE
  BY <1>5 DEF Take, Move, Reject, Stays, loops, Frame
<1>6. ASSUME NEW d, NEW c, attach_Actor(d, c) \/ detach_Actor(d)
      PROVE  FALSE
  BY <1>6 DEF attach_Actor, detach_Actor, Stays, loops, Frame
<1> QED
  BY <1>1, <1>2, <1>3, <1>4, <1>5, <1>6 DEF Next

LEMMA StartOnce ==
    ASSUME Core, TypeOK', CrowsOnce(list), UpdatesOnce, NEW mode \in Modes, StartUpdate(mode)
    PROVE  CrowsOnce(list') /\ UpdatesOnce'
<1>1. TypeOK
  BY DEF Core
<1>2. PICK ls \in SUBSET (0 .. 1) :
         /\ list' \in Lists /\ SameLists(list, list')
         /\ list'.crows = [l \in 0 .. 1 |-> IF l \in ls THEN <<>> ELSE list.crows[l]]
         /\ \/ ls = {1 - list.cur} /\ list'.cur = 1 - list.cur /\ todo' = list.crows[list.cur]
            \/ ls = {0, 1} /\ list'.cur = list.cur /\ todo' = list.active
            \/ ls = {} /\ list' = list /\ todo' = <<>>
  BY <1>1, StartFacts
<1>3. PICK none : none = <<>>
  OBVIOUS
<1>4. Range(none) = {} /\ IsInjective(none)
  BY <1>3, NobodyIn
<1>5. list.cur \in 0 .. 1 /\ 1 - list.cur \in 0 .. 1
  BY <1>1, FieldTypes DEF TypeOK
<1>6. \A l \in 0 .. 1 : list'.crows[l] = IF l \in ls THEN none ELSE list.crows[l]
  BY <1>2, <1>3
<1>7. Held(list') = Live /\ Held(list) = Live /\ Live' = Live
  BY <1>2 DEF Live, Held, SameLists
<1>8. list'.cur \in ls \/ (list' = list /\ todo' = none)
  BY <1>2, <1>3, <1>5
<1>9. CrowsOnce(list')
  <2>1. \A l \in 0 .. 1 : IsInjective(list'.crows[l]) /\ Range(list'.crows[l]) \subseteq Held(list')
    BY <1>4, <1>6, <1>7 DEF CrowsOnce
  <2>2. CASE list'.cur \in ls
    <3>1. Range(list'.crows[list'.cur]) = {}
      BY <1>2, <1>4, <1>6, <2>2
    <3> QED
      BY <2>1, <3>1 DEF CrowsOnce
  <2> QED
    BY <1>8, <2>2
<1>10. /\ calls' = none /\ calls = none /\ pc' = "update" /\ UNCHANGED <<updated, Parent>>
  BY <1>3 DEF StartUpdate, kept, Frame, Core, Looping
<1>11. Range(todo') \subseteq Live
  <2>1. Range(list.active) \subseteq Live /\ Range(list.crows[list.cur]) \subseteq Live
    BY <1>5, <1>7 DEF CrowsOnce, Live, Held
  <2> QED
    BY <1>2, <1>3, <1>4, <2>1
<1>12. todo' # none => Range(list'.crows[list'.cur]) = {}
  BY <1>2, <1>4, <1>6, <1>8
<1>13. Len(none) = 0
  BY <1>3, OneTuple
<1> QED
  BY <1>3, <1>4, <1>7, <1>9, <1>10, <1>11, <1>12, <1>13 DEF UpdatesOnce

LEMMA NextObjectOnce ==
    ASSUME Core, UpdatesOnce, NextObject
    PROVE  UpdatesOnce'
<1>1. todo \in Seq(Objects) /\ todo # <<>>
  BY DEF NextObject, Core, TypeOK
<1>2. PICK h : h = Head(todo)
  OBVIOUS
<1>3. h \in Range(todo) /\ Range(Tail(todo)) \subseteq Range(todo)
  <2>1. Len(todo) \in Nat /\ Len(todo) >= 1 /\ DOMAIN todo = 1 .. Len(todo) /\ h = todo[1]
    BY <1>1, <1>2
  <2>2. PICK u : u = Tail(todo)
    OBVIOUS
  <2>3. DOMAIN u = 1 .. Len(todo) - 1 /\ \A i \in 1 .. Len(todo) - 1 : u[i] = todo[i + 1]
    BY <1>1, <2>2
  <2>4. \A i \in 1 .. Len(todo) - 1 : i + 1 \in 1 .. Len(todo)
    BY <2>1
  <2> QED
    BY <2>1, <2>2, <2>3, <2>4 DEF Range
<1>4. /\ calls' = IF Needs(h) THEN <<h>> ELSE <<>>
      /\ todo' = Tail(todo) /\ UNCHANGED <<list, Parent, updated, pc>>
  BY <1>2 DEF NextObject, kept
<1>5. PICK one : one = <<h>>
  OBVIOUS
<1>6. Range(one) = {h} /\ IsInjective(one) /\ Len(one) = 1
  BY <1>5 DEF Range, IsInjective
<1>7. Live' = Live
  BY <1>4 DEF Live
<1>8. CASE Needs(h)
  BY <1>1, <1>3, <1>4, <1>5, <1>6, <1>7, <1>8 DEF UpdatesOnce, Needs
<1>9. CASE ~Needs(h)
  <2>1. Range(calls') = {} /\ IsInjective(calls') /\ Len(calls') = 0
    BY <1>4, <1>9, NobodyIn, OneTuple
  <2> QED
    BY <1>1, <1>3, <1>4, <1>7, <2>1 DEF UpdatesOnce
<1> QED
  BY <1>8, <1>9

\* A parent is in no inventory itself, so none of the callers is called again.
LEMMA UpdateParentOnce ==
    ASSUME Core, UpdatesOnce, UpdateParent
    PROVE  UpdatesOnce'
<1>1. calls \in Seq(Objects) /\ calls # <<>> /\ IsInjective(calls)
  BY DEF UpdateParent, Core, TypeOK, UpdatesOnce
<1>2. PICK n : n = Len(calls)
  OBVIOUS
<1>3. n \in Nat \ {0} /\ Last(calls) = calls[n] /\ DOMAIN calls = 1 .. n
  BY <1>1, <1>2, Ends
<1>4. PICK p : p = Parent[calls[n]]
  OBVIOUS
<1>5. p # NULL /\ p \notin updated /\ calls[n] \in Objects
  BY <1>1, <1>3, <1>4 DEF UpdateParent, ParentFirst, Needs
<1>6. p \in Live /\ p \in Objects /\ Parent[p] = NULL
  BY <1>4, <1>5, CoreTypes DEF Core, Families
<1>7. \A i \in 1 .. n : Parent[calls[i]] # NULL
  <2>1. \A i \in 1 .. n : i = n \/ i \in 1 .. n - 1
    BY <1>3
  <2> QED
    BY <1>2, <1>4, <1>5, <2>1 DEF UpdatesOnce
<1>8. p \notin Range(calls)
  BY <1>3, <1>6, <1>7 DEF Range
<1>9. PICK u : u = Append(calls, p)
  OBVIOUS
<1>10. u \in Seq(Objects) /\ Range(u) = Range(calls) \cup {p} /\ IsInjective(u)
  BY <1>1, <1>6, <1>8, <1>9, DistinctAppend
<1>11. Len(u) = n + 1 /\ u # <<>> /\ \A i \in 1 .. n : u[i] = calls[i]
  BY <1>1, <1>2, <1>3, <1>6, <1>9
<1>12. calls' = u /\ UNCHANGED <<list, Parent, updated, pc, todo>>
  BY <1>3, <1>4, <1>9 DEF UpdateParent, kept
<1>13. Live' = Live
  BY <1>12 DEF Live
<1>14. \A i \in 1 .. Len(calls') - 1 : Parent'[calls'[i]] # NULL
  <2>1. Len(u) - 1 = n
    BY <1>3, <1>11
  <2> QED
    BY <1>7, <1>11, <1>12, <2>1
<1> QED
  BY <1>1, <1>5, <1>6, <1>10, <1>12, <1>13, <1>14 DEF UpdatesOnce

\* The object of UpdateCL is no crow of the next frame yet when its flag goes.
LEMMA UpdateCLOnce ==
    ASSUME Core, TypeOK', MaxCounter < MaxActive, Zones = {}, CrowsOnce(list), UpdatesOnce,
           NEW near \in BOOLEAN, UpdateCL(near)
    PROVE  CrowsOnce(list') /\ UpdatesOnce'
<1>1. calls \in Seq(Objects) /\ calls # <<>> /\ IsInjective(calls)
  BY DEF UpdateCL, Core, TypeOK, UpdatesOnce
<1>2. PICK o \in Objects : o = Last(calls) /\ CrowsAfter(o)
  BY UpdateCLFacts
<1>3. /\ IsInjective(Front(calls)) /\ Range(Front(calls)) = Range(calls) \ {o} /\ o \in Range(calls)
  BY <1>1, <1>2, FrontFacts
<1>4. o \in Live /\ o \notin updated /\ Range(list.crows[list.cur]) \subseteq updated
  BY <1>1, <1>3 DEF UpdatesOnce
<1>5. list \in Lists /\ list' \in Lists
  BY CoreTypes DEF TypeOK
<1>6. PICK U : U = Unflagged(o)
  OBVIOUS
<1>7. /\ U \in Lists /\ SameLists(list, U) /\ U.crow = [list.crow EXCEPT ![o] = FALSE]
      /\ U.crows = list.crows /\ U.cur = list.cur
  BY <1>5, <1>6, UnflaggedFacts
<1>8. Crowed(U, list', o)
  BY <1>2, <1>6 DEF CrowsAfter
<1>9. Held(U) = Live /\ Held(list') = Live /\ Held(list) = Live /\ Live' = Live
  <2>1. Live' = Live
    BY UpdateCLFacts
  <2> QED
    BY <1>7, <2>1 DEF Held, Live, SameLists
<1>10. list.cur \in 0 .. 1 /\ list.crow \in [Objects -> BOOLEAN]
  BY <1>5, FieldTypes
<1>11. CrowsOnce(U)
  <2>1. \A q \in Range(U.crows[U.cur]) : U.crow[q]
    <3>1. \A q \in Range(list.crows[list.cur]) : list.crow[q] /\ q # o /\ q \in Objects
      BY <1>4, <1>9, <1>10, CoreTypes DEF CrowsOnce
    <3> QED
      BY <1>7, <1>10, <3>1
  <2> QED
    BY <1>7, <1>9, <2>1 DEF CrowsOnce
<1>12. CrowsOnce(list')
  <2> PICK M : M = list'
    OBVIOUS
  <2>1. M \in Lists /\ o \in Held(M) /\ Held(U) \subseteq Held(M) /\ Crowed(U, M, o)
    BY <1>4, <1>5, <1>8, <1>9
  <2>2. CrowsOnce(M)
    BY <1>7, <1>11, <2>1, CrowedOnce
  <2> QED
    BY <2>2
<1>13. list'.cur = list.cur /\ Range(list'.crows[list.cur]) \subseteq Range(list.crows[list.cur]) \cup {o}
  <2> PICK M : M = list'
    OBVIOUS
  <2>1. M \in Lists /\ Crowed(U, M, o)
    BY <1>5, <1>8
  <2>2. /\ \A l \in 0 .. 1 : Range(M.crows[l]) \subseteq Range(U.crows[l]) \cup {o}
        /\ M.cur = U.cur
    BY <1>7, <2>1, CrowedRanges
  <2> QED
    BY <1>7, <1>10, <2>2
<1>14. /\ updated' = updated \cup {o} /\ calls' = Front(calls) /\ UNCHANGED <<pc, todo, Parent>>
  BY <1>2 DEF UpdateCL, kept
<1>15. \A i \in 1 .. Len(calls') - 1 : Parent'[calls'[i]] # NULL
  <2>1. /\ Len(calls) \in Nat \ {0} /\ Len(Front(calls)) = Len(calls) - 1
        /\ \A i \in 1 .. Len(calls) - 1 : Front(calls)[i] = calls[i]
    BY <1>1, Ends
  <2>2. PICK n : n = Len(calls)
    OBVIOUS
  <2>3. \A i \in 1 .. n - 1 - 1 : i \in 1 .. n - 1
    BY <2>1, <2>2
  <2> QED
    BY <1>14, <2>1, <2>2, <2>3 DEF UpdatesOnce
<1>16. pc' = "update"
  BY <1>1, <1>14 DEF Core, Looping
<1> QED
  BY <1>1, <1>3, <1>4, <1>9, <1>12, <1>13, <1>14, <1>15, <1>16 DEF UpdatesOnce

LEMMA DestroyOnce ==
    ASSUME Core, TypeOK', CrowsOnce(list), Destroy
    PROVE  CrowsOnce(list')
<1>1. PICK o \in Live, N \in Lists :
         /\ o = Last(destroy_queue) /\ o \in Objects
         /\ Crowed(list, N, o) /\ Held(N) = Live
         /\ list' \in Lists /\ list'.crows = WithoutCrow(N, o) /\ list'.cur = N.cur
         /\ list'.crow = [N.crow EXCEPT ![o] = FALSE]
  BY DestroyCrows
<1>2. Held(list) = Live
  BY DEF Live
<1>3. CrowsOnce(N)
  BY <1>1, <1>2, CrowedOnce, CoreTypes
<1>4. /\ N.crows \in [0 .. 1 -> Seq(Objects)] /\ N.cur \in 0 .. 1
      /\ N.crow \in [Objects -> BOOLEAN]
  BY <1>1, FieldTypes
<1>5. Held(list') = Live \ {o}
  BY <1>1, CoreDeath DEF Live
<1>6. ASSUME NEW l \in 0 .. 1
      PROVE  IsInjective(list'.crows[l]) /\ Range(list'.crows[l]) = Range(N.crows[l]) \ {o}
  <2>1. N.crows[l] \in Seq(Objects) /\ IsInjective(N.crows[l])
    BY <1>3, <1>4 DEF CrowsOnce
  <2>2. list'.crows[l] = RemoveFirst(N.crows[l], o)
    BY <1>1 DEF WithoutCrow
  <2> QED
    BY <2>1, <2>2, RemoveFirstFacts
<1>7. \A l \in 0 .. 1 : IsInjective(list'.crows[l]) /\ Range(list'.crows[l]) \subseteq Held(list')
  BY <1>1, <1>3, <1>5, <1>6 DEF CrowsOnce
<1>8. \A q \in Range(list'.crows[list'.cur]) : list'.crow[q]
  <2>1. \A q \in Range(N.crows[N.cur]) : N.crow[q] /\ q \in Objects
    BY <1>1, <1>3, <1>4, CoreTypes DEF CrowsOnce
  <2>2. Range(list'.crows[N.cur]) = Range(N.crows[N.cur]) \ {o}
    BY <1>4, <1>6
  <2> QED
    BY <1>1, <1>4, <2>1, <2>2
<1> QED
  BY <1>7, <1>8 DEF CrowsOnce

LEMMA CrowsByOnce ==
    ASSUME Core, TypeOK', CrowsOnce(list), CrowsBy, Live \subseteq Live'
    PROVE  CrowsOnce(list')
<1>1. Held(list) = Live /\ Held(list') = Live' /\ list \in Lists /\ list' \in Lists
  BY CoreTypes DEF Live, TypeOK
<1>2. CASE SameCrows
  BY <1>1, <1>2 DEF SameCrows, CrowsOnce
<1>3. ASSUME NEW x \in Live', Crowed(list, list', x)
      PROVE  CrowsOnce(list')
  <2> PICK M : M = list'
    OBVIOUS
  <2>1. M \in Lists /\ x \in Held(M) /\ Held(list) \subseteq Held(M) /\ Crowed(list, M, x)
    BY <1>1, <1>3
  <2>2. CrowsOnce(M)
    BY <1>1, <2>1, CrowedOnce
  <2> QED
    BY <2>2
<1> QED
  BY <1>2, <1>3 DEF CrowsBy

LEMMA StoresOnce ==
    ASSUME Core, TypeOK', Live \subseteq Live', CrowsOnce(list), CrowsComing,
           NEW t \in Threads, NEW x \in Live, Stores(t, x)
    PROVE  CrowsOnce(list')
<1>1. list \in Lists /\ x \in Objects
  BY CoreTypes
<1>2. list.crows \in [0 .. 1 -> Seq(Objects)] /\ list.cur \in 0 .. 1
  BY <1>1, FieldTypes
<1>3. PICK v : v = list.crows[list.cur]
  OBVIOUS
<1>4. v \in Seq(Objects) /\ IsInjective(v)
  BY <1>2, <1>3 DEF CrowsOnce
<1>5. list.crow[x] /\ x \notin Range(v)
  <2>1. list.crow[x] /\ ~Contains(v, x)
    BY <1>3 DEF Stores, CrowsComing
  <2> QED
    BY <1>4, <2>1, RangeIs
<1>6. PICK w : w = Append(v, x)
  OBVIOUS
<1>7. Range(w) = Range(v) \cup {x} /\ IsInjective(w)
  BY <1>1, <1>4, <1>5, <1>6, DistinctAppend
<1>8. /\ list'.crows[list.cur] = w /\ \A l \in 0 .. 1 : l # list.cur => list'.crows[l] = list.crows[l]
      /\ list'.crow = list.crow /\ list'.cur = list.cur
  BY <1>2, <1>3, <1>6 DEF Stores
<1>9. Held(list) = Live /\ Held(list') = Live'
  BY DEF Live
<1> QED
  BY <1>2, <1>3, <1>5, <1>7, <1>8, <1>9 DEF CrowsOnce

LEMMA OnceStep ==
    ASSUME Core, MaxCounter < MaxActive, ~mtPhysics, Zones = {}, Alone,
           CrowsOnce(list), CrowsComing, UpdatesOnce, [Next]_vars
    PROVE  CrowsOnce(list') /\ CrowsComing' /\ UpdatesOnce'
<1>1. Core' /\ TypeOK' /\ (Destroy \/ Live \subseteq Live')
  BY CoreStep
<1>2. Threads = {"primary", "physics"} /\ Len(Idle) = 0
  BY OneTuple DEF Threads, Idle
<1>3. list \in Lists /\ list' \in Lists /\ Live \subseteq Objects /\ Held(list) = Live /\ Held(list') = Live'
  BY <1>1, CoreTypes DEF TypeOK, Live
<1>4. list.crow \in [Objects -> BOOLEAN] /\ list.cur \in 0 .. 1 /\ list.crows \in [0 .. 1 -> Seq(Objects)]
  BY <1>3, FieldTypes
<1>5. UpdatesOnce'
  <2>1. pc = "frame" => updated = {}
    BY DEF UpdatesOnce
  <2>2. pc' = "frame" => updated' = {}
    BY <2>1, FrameUpdated
  <2>3. CASE pc' # "update"
    <3>1. todo' = <<>> /\ calls' = <<>>
      BY <1>1, <2>3 DEF Core, Looping
    <3>2. (todo = <<>> /\ calls = <<>> /\ (pc = "frame" => updated = {}) => UpdatesOnce)'
      BY RestingUpdates, PTL
    <3> QED
      BY <2>2, <3>1, <3>2
  <2>4. CASE pc' = "update"
    <3>1. CASE UNCHANGED vars
      BY <3>1 DEF vars, kept, UpdatesOnce, Live
    <3> QED
      BY <1>1, <2>4, <3>1, UpdatingSteps, StartOnce, NextObjectOnce, UpdateParentOnce, UpdateCLOnce DEF Start
  <2> QED
    BY <2>3, <2>4
<1>6. CASE Quiet
  <2>1. ASSUME UNCHANGED crowing
        PROVE  CrowsComing'
    BY <1>2, <1>6, <2>1 DEF Quiet, CrowsComing
  <2>2. CASE Destroy
    <3>1. UNCHANGED crowing
      BY <2>2 DEF Destroy
    <3> QED
      BY <1>1, <1>5, <2>1, <2>2, <3>1, DestroyOnce
  <2>3. ASSUME Live \subseteq Live', UNCHANGED crowing,
               CrowsBy \/ Start \/ \E near \in BOOLEAN : UpdateCL(near)
        PROVE  CrowsOnce(list') /\ CrowsComing'
    BY <1>1, <2>1, <2>3, CrowsByOnce, StartOnce, UpdateCLOnce DEF Start
  <2>4. ASSUME Live \subseteq Live', NEW t \in Threads, NEW o \in Objects, Beginning(t, o)
        PROVE  CrowsOnce(list') /\ CrowsComing'
    <3>1. /\ Len(crowing'[t]) = 1 /\ crowing'[t][1] = o
          /\ \A u \in Threads : u # t => crowing'[u] = Idle
      BY <1>6, <2>4, BeginningFacts
    <3>2. CrowsComing'
      BY <1>2, <2>4, <3>1 DEF CrowsComing, Beginning, SameCrows
    <3>3. CrowsBy
      BY <2>4 DEF Beginning, CrowsBy
    <3> QED
      BY <1>1, <2>4, <3>2, <3>3, CrowsByOnce
  <2> QED
    BY <1>1, <1>5, <1>6, <2>2, <2>3, <2>4, WhileQuiet
<1>7. ASSUME NEW t \in Threads, crowing[t] # Idle
      PROVE  CrowsOnce(list') /\ CrowsComing'
  <2>1. Live \subseteq Live'
    <3>1. pc # "destroy"
      BY <1>7, OneAtATime
    <3> QED
      BY <1>1, <3>1 DEF Destroy
  <2>2. CASE UNCHANGED vars
    BY <2>2 DEF vars, CrowsOnce, CrowsComing
  <2>3. ASSUME NEW x \in Live, Marks(t, x)
        PROVE  CrowsOnce(list') /\ CrowsComing'
    <3>1. x \in Objects /\ ~list.crow[x]
      BY <1>3, <2>3 DEF Marks, CrowsComing
    <3>2. ~Contains(list.crows[list.cur], x)
      <4>1. x \notin Range(list.crows[list.cur])
        BY <3>1 DEF CrowsOnce
      <4> QED
        BY <1>4, <4>1, RangeIs
    <3>3. list'.crow[x] /\ \A q \in Objects : list.crow[q] => list'.crow[q]
      BY <1>4, <2>3, <3>1 DEF Marks
    <3>4. CrowsComing'
      BY <1>2, <2>3, <3>2, <3>3 DEF Marks, CrowsComing
    <3>5. CrowsOnce(list')
      BY <1>3, <1>4, <2>1, <2>3, <3>3 DEF Marks, CrowsOnce
    <3> QED
      BY <3>4, <3>5
  <2>4. ASSUME NEW x \in Live, Stores(t, x)
        PROVE  CrowsOnce(list') /\ CrowsComing'
    <3>1. CrowsComing'
      BY <1>2, <2>4 DEF Stores, CrowsComing
    <3> QED
      BY <1>1, <2>1, <2>4, <3>1, StoresOnce
  <2> QED
    BY <1>1, <1>7, <2>2, <2>3, <2>4, WhileCrowing, PushesFacts
<1> QED
  BY <1>5, <1>6, <1>7 DEF Quiet

LEMMA InitQuiet ==
    ASSUME Init
    PROVE  Core /\ Quiet /\ Alone /\ AllListed /\ CrowsOnce(list) /\ CrowsComing /\ UpdatesOnce
<1>1. Core /\ Quiet
  BY CoreInit DEF Init, Quiet
<1>2. \A o \in Objects : ~list.crow[o]
  BY DEF Init
<1>3. Alone /\ AllListed
  BY <1>1, <1>2, QuietListed DEF AllListed
<1>4. CrowsOnce(list)
  <2>1. PICK none : none = <<>>
    OBVIOUS
  <2>2. Range(none) = {} /\ IsInjective(none)
    BY <2>1, NobodyIn
  <2>3. list.crows = [l \in 0 .. 1 |-> none] /\ list.cur = 0
    BY <2>1 DEF Init
  <2>4. \A l \in 0 .. 1 : list.crows[l] = none
    BY <2>3
  <2> QED
    BY <2>2, <2>3, <2>4 DEF CrowsOnce
<1>5. CrowsComing
  BY <1>1, OneTuple DEF Quiet, CrowsComing, Idle
<1>6. UpdatesOnce
  <2>1. todo = <<>> /\ calls = <<>> /\ updated = {}
    BY DEF Init
  <2> QED
    BY <2>1, RestingUpdates
<1> QED
  BY <1>1, <1>3, <1>4, <1>5, <1>6


-----------------------------------------------------------------------------
(* A driver that leaves a dying car may send it to sleep.  What the loops   *)
(* of net_Relcase have passed stays where it is, unless that is the car.   *)

Falls(L, M, o) ==
    \/ M.active = L.active /\ M.sleeping = L.sleeping
    \/ M.active = RemoveFirst(L.active, o) /\ M.sleeping = Append(L.sleeping, o)

LEMMA DeactivateFalls ==
    ASSUME NEW L \in Lists, NEW o \in Objects
    PROVE  Falls(L, processing_deactivate(L, o), o)
<1> DEFINE n == (L.counter[o] - 1) % (MaxActive + 1)
           C == [L EXCEPT !.counter[o] = n]
           D == [C EXCEPT !.active = RemoveFirst(@, o), !.sleeping = Append(@, o)]
           M == Crow(D, o)
<1>1. processing_deactivate(L, o) = IF n = 0 THEN M ELSE C
  BY DEF processing_deactivate, o_sleep
<1>2. n \in 0 .. MaxActive
  <2>1. L.counter[o] \in 0 .. MaxActive /\ MaxActive \in Nat
    BY FieldTypes, ObjectListAssumption
  <2>2. n = IF L.counter[o] = 0 THEN MaxActive ELSE L.counter[o] - 1
    BY <2>1, Wraps
  <2> QED
    BY <2>1, <2>2
<1> HIDE DEF n
<1>3. C \in Lists /\ C.active = L.active /\ C.sleeping = L.sleeping
  BY <1>2 DEF Lists
<1> HIDE DEF C
<1>4. D \in Lists /\ D.active = RemoveFirst(L.active, o) /\ D.sleeping = Append(L.sleeping, o)
  <2>1. RemoveFirst(C.active, o) \in Seq(Objects) /\ Append(C.sleeping, o) \in Seq(Objects)
    BY <1>3, FieldTypes, RemoveFirstType, AppendType
  <2> QED
    BY <1>3, <2>1 DEF Lists
<1> HIDE DEF D
<1>5. SameLists(D, M)
  BY <1>4, MakeCrow
<1> HIDE DEF M
<1> QED
  BY <1>1, <1>3, <1>4, <1>5 DEF Falls, SameLists

\* Before the one that find meets, erase leaves everybody in place.
LEMMA EraseKeeps ==
    ASSUME NEW S, NEW s \in Seq(S), NEW e, NEW n \in 0 .. Len(s), NEW u, u = RemoveFirst(s, e),
           \A i \in 1 .. n : s[i] # e
    PROVE  n <= Len(u) /\ \A i \in 1 .. n : u[i] = s[i]
<1>1. CASE \E k \in 1 .. Len(s) : s[k] = e
  <2>1. PICK i \in 1 .. Len(s) : s[i] = e /\ u = RemoveAt(s, i)
    BY <1>1, RemoveFirstIs
  <2>2. /\ Len(u) = Len(s) - 1
        /\ \A j \in 1 .. Len(s) - 1 : u[j] = IF j < i THEN s[j] ELSE s[j + 1]
    BY <2>1, EraseType DEF RemoveAt
  <2>3. Len(s) \in Nat /\ n < i
    BY <2>1
  <2> QED
    BY <2>2, <2>3
<1>2. CASE ~\E k \in 1 .. Len(s) : s[k] = e
  BY <1>2 DEF RemoveFirst
<1> QED
  BY <1>1, <1>2

LEMMA AppendKeeps ==
    ASSUME NEW S, NEW s \in Seq(S), NEW e \in S, NEW u, u = Append(s, e)
    PROVE  Len(u) = Len(s) + 1 /\ \A i \in 1 .. Len(s) : u[i] = s[i]
  OBVIOUS

LEMMA BeforeKept ==
    ASSUME NEW s, NEW u, NEW n \in Nat \ {0}, \A i \in 1 .. n - 1 : u[i] = s[i]
    PROVE  Before(u, n) = Before(s, n)
  BY DEF Before

\* What a handler of net_Relcase makes of the vectors.
LEMMA RelcaseFalls ==
    ASSUME TypeOK, net_Relcase
    PROVE  \E c \in Objects : Falls(list, list', c)
<1>1. PICK o \in Live :
         \/ list' = list
         \/ m_holder[o] \in Cars /\ list' = processing_deactivate(list, m_holder[o])
  BY RelcaseFacts
<1>2. CASE list' = list
  BY <1>1, <1>2, LiveTypes DEF Falls
<1>3. CASE m_holder[o] \in Cars /\ list' = processing_deactivate(list, m_holder[o])
  <2>1. list \in Lists /\ m_holder[o] \in Objects
    BY <1>3, ConstantTypes DEF TypeOK
  <2>2. PICK c : c = m_holder[o]
    OBVIOUS
  <2> QED
    BY <1>3, <2>1, <2>2, DeactivateFalls
<1> QED
  BY <1>1, <1>2, <1>3

LEMMA BeforeFacts ==
    ASSUME NEW S, NEW s \in Seq(S)
    PROVE  /\ Before(s, 1) = {}
           /\ \A n \in Nat \ {0} : Before(s, n + 1) = Before(s, n) \cup {s[n]}
           /\ Before(s, Len(s) + 1) = Range(s)
<1>1. Len(s) \in Nat /\ DOMAIN s = 1 .. Len(s)
  OBVIOUS
<1>2. Before(s, 1) = {}
  <2>1. 1 .. 1 - 1 = {}
    OBVIOUS
  <2> QED
    BY <2>1 DEF Before
<1>3. ASSUME NEW n \in Nat \ {0}
      PROVE  Before(s, n + 1) = Before(s, n) \cup {s[n]}
  <2>1. 1 .. n + 1 - 1 = 1 .. n - 1 \cup {n}
    OBVIOUS
  <2> QED
    BY <2>1 DEF Before
<1>4. Before(s, Len(s) + 1) = Range(s)
  <2>1. 1 .. Len(s) + 1 - 1 = DOMAIN s
    BY <1>1
  <2> QED
    BY <2>1 DEF Before, Range
<1> QED
  BY <1>2, <1>3, <1>4

LEMMA TellingSteps ==
    ASSUME Core, [Next]_vars, pc' \in {"relcase_active", "relcase_sleeping", "destroy"}
    PROVE  UNCHANGED vars \/ EndUpdates \/ net_Relcase \/ EndRelcase \/ Destroy
<1>1. CASE UpdateLoop
  <2>1. CASE NextObject \/ UpdateParent \/ Overrun \/ EndDestroy \/ \E near \in BOOLEAN : UpdateCL(near)
    BY <2>1 DEF NextObject, UpdateParent, UpdateCL, Overrun, EndDestroy, Core, Looping
  <2> QED
    BY <1>1, <2>1 DEF UpdateLoop
<1>2. ~EndFrame /\ ~Start
  BY DEF EndFrame, Start, StartUpdate
<1>3. ~CrowStep
  <2>1. Len(Idle) = 0
    BY OneTuple DEF Idle
  <2>2. ASSUME NEW t \in Threads, CrowMark(t) \/ CrowPush(t)
        PROVE  FALSE
    <3>1. crowing[t] # Idle
      <4>1. Len(crowing[t]) # 0
        BY <2>2 DEF CrowMark, CrowPush
      <4> QED
        BY <2>1, <4>1
    <3>2. pc' = pc
      BY <2>2 DEF CrowMark, CrowPush, loops
    <3> QED
      BY <3>1, <3>2 DEF Core, Pushing
  <2> QED
    BY <2>2 DEF CrowStep
<1>4. ASSUME NEW o \in Objects,
             Spawn(o) \/ setDestroy(o) \/ shedule_Update(o) \/ Wake(o) \/ Rest(o) \/ Render(o)
      PROVE  FALSE
  BY <1>4 DEF Spawn, setDestroy, shedule_Update, Wake, Rest, Render, Stays, loops, Frame, PhysicsTurn
<1>5. ASSUME NEW o, NEW p, NEW place, Take(o, p, place) \/ Move(o, place) \/ Reject(o, p)
      PROVE  FALSE
  BY <1>5 DEF Take, Move, Reject, Stays, loops, Frame
<1>6. ASSUME NEW d, NEW c, attach_Actor(d, c) \/ detach_Actor(d)
      PROVE  FALSE
  BY <1>6 DEF attach_Actor, detach_Actor, Stays, loops, Frame
<1> QED
  BY <1>1, <1>2, <1>3, <1>4, <1>5, <1>6 DEF Next

LEMMA TellingStep ==
    ASSUME Core, Telling, [Next]_vars, ~PassesOver
    PROVE  Telling'
<1>1. TypeOK /\ list \in Lists /\ it \in Nat \ {0}
  BY DEF Core, TypeOK
<1>2. PICK s : s = list.active
  OBVIOUS
<1>3. PICK u : u = list.sleeping
  OBVIOUS
<1>4. s \in Seq(Objects) /\ u \in Seq(Objects) /\ Live = Range(s) \cup Range(u)
  BY <1>1, <1>2, <1>3, FieldTypes DEF Live, Held
<1>5. Len(s) \in Nat /\ Len(u) \in Nat
  BY <1>4
<1>6. CASE UNCHANGED vars
  BY <1>6 DEF vars, Telling, Live
<1>7. CASE EndUpdates
  BY <1>2, <1>4, <1>5, <1>7, BeforeFacts DEF EndUpdates, Telling
<1>8. CASE net_Relcase
  <2>1. /\ told' = told \cup {Relcasing[it]} /\ it' = it + 1
        /\ it <= Len(Relcasing) /\ pc' = pc /\ pc \in {"relcase_active", "relcase_sleeping"}
    BY <1>8 DEF net_Relcase
  <2>2. PICK c \in Objects : Falls(list, list', c)
    BY <1>1, <1>8, RelcaseFalls
  <2>3. PICK s1 : s1 = list'.active
    OBVIOUS
  <2>4. PICK u1 : u1 = list'.sleeping
    OBVIOUS
  <2>5. /\ Before(s, it + 1) = Before(s, it) \cup {s[it]}
        /\ Before(u, it + 1) = Before(u, it) \cup {u[it]}
    BY <1>1, <1>4, BeforeFacts
  <2>6. CASE pc = "relcase_active"
    <3>1. Relcasing = s /\ it \in 1 .. Len(s)
      BY <1>1, <1>2, <1>5, <2>1, <2>6 DEF Relcasing
    <3>2. it <= Len(s1) /\ \A i \in 1 .. it : s1[i] = s[i]
      <4>1. CASE s1 = s
        BY <3>1, <4>1
      <4>2. CASE s1 = RemoveFirst(s, c)
        <5>1. \A i \in 1 .. it : s[i] \in Range(s1)
          BY <1>2, <1>8, <2>3, <2>6 DEF PassesOver
        <5>2. IsInjective(s)
          BY <1>2 DEF Core, Sorted
        <5>3. c \notin Range(s1)
          BY <1>4, <4>2, <5>2, RemoveFirstFacts
        <5>4. it \in 0 .. Len(s)
          BY <3>1
        <5> QED
          BY <1>4, <4>2, <5>1, <5>3, <5>4, EraseKeeps
      <4> QED
        BY <1>2, <2>2, <2>3, <4>1, <4>2 DEF Falls
    <3>3. Before(s1, it + 1) = Before(s, it + 1)
      <4>1. PICK n \in Nat \ {0} : n = it + 1
        BY <1>1
      <4>2. \A i \in 1 .. n - 1 : s1[i] = s[i]
        BY <1>1, <3>2, <4>1
      <4>3. Before(s1, n) = Before(s, n)
        BY <4>2, BeforeKept
      <4> QED
        BY <4>1, <4>3
    <3>4. Before(s1, it + 1) \subseteq told'
      BY <1>2, <2>1, <2>5, <2>6, <3>1, <3>3 DEF Telling
    <3>5. it + 1 <= Len(s1) + 1
      <4>1. s1 \in Seq(Objects)
        BY <1>4, <1>2, <2>2, <2>3, RemoveFirstType DEF Falls
      <4>2. Len(s1) \in Nat
        BY <4>1
      <4> QED
        BY <1>1, <3>2, <4>2
    <3> QED
      BY <2>1, <2>3, <2>6, <3>4, <3>5 DEF Telling
  <2>7. CASE pc = "relcase_sleeping"
    <3>1. Relcasing = u /\ it \in 1 .. Len(u)
      BY <1>1, <1>3, <1>5, <2>1, <2>7 DEF Relcasing
    <3>2. Range(s1) \subseteq Range(s) /\ Len(u1) \in Nat /\ it <= Len(u1) /\ \A i \in 1 .. it : u1[i] = u[i]
      <4>1. CASE s1 = s /\ u1 = u
        BY <1>5, <3>1, <4>1
      <4>2. CASE s1 = RemoveFirst(s, c) /\ u1 = Append(u, c)
        <5>1. Range(s1) \subseteq Range(s)
          BY <1>4, <4>2, RemoveFirstType
        <5>2. Len(u1) = Len(u) + 1 /\ \A i \in 1 .. Len(u) : u1[i] = u[i]
          BY <1>4, <4>2, AppendKeeps
        <5> QED
          BY <1>5, <3>1, <5>1, <5>2
      <4> QED
        BY <1>2, <1>3, <2>2, <2>3, <2>4, <4>1, <4>2 DEF Falls
    <3>3. Before(u1, it + 1) = Before(u, it + 1)
      <4>1. PICK n \in Nat \ {0} : n = it + 1
        BY <1>1
      <4>2. \A i \in 1 .. n - 1 : u1[i] = u[i]
        BY <1>1, <3>2, <4>1
      <4>3. Before(u1, n) = Before(u, n)
        BY <4>2, BeforeKept
      <4> QED
        BY <4>1, <4>3
    <3>4. Range(s1) \cup Before(u1, it + 1) \subseteq told'
      BY <1>2, <1>3, <2>1, <2>5, <2>7, <3>1, <3>2, <3>3 DEF Telling
    <3>5. it + 1 <= Len(u1) + 1
      BY <1>1, <3>2
    <3> QED
      BY <2>1, <2>3, <2>4, <2>7, <3>4, <3>5 DEF Telling
  <2> QED
    BY <2>1, <2>6, <2>7
<1>9. CASE EndRelcase
  <2>1. it = Len(Relcasing) + 1 /\ it' = 1 /\ UNCHANGED <<list, told>>
    BY <1>9 DEF EndRelcase
  <2>2. CASE pc = "relcase_active"
    <3>1. Before(s, Len(s) + 1) = Range(s) /\ Before(u, 1) = {}
      BY <1>4, BeforeFacts
    <3>2. Range(s) \subseteq told
      BY <1>2, <2>1, <2>2, <3>1 DEF Relcasing, Telling
    <3>3. pc' = "relcase_sleeping"
      BY <1>9, <2>2 DEF EndRelcase, AfterActive
    <3> QED
      BY <1>2, <1>3, <1>5, <2>1, <3>1, <3>2, <3>3 DEF Telling
  <2>3. CASE pc = "relcase_sleeping"
    <3>1. Before(u, Len(u) + 1) = Range(u)
      BY <1>4, BeforeFacts
    <3>2. Live \subseteq told
      BY <1>2, <1>3, <1>4, <2>1, <2>3, <3>1 DEF Relcasing, Telling
    <3>3. pc' = "destroy" /\ Live' = Live
      BY <1>9, <2>1, <2>3 DEF EndRelcase, Live
    <3> QED
      BY <2>1, <3>2, <3>3 DEF Telling
  <2> QED
    BY <1>9, <2>2, <2>3 DEF EndRelcase
<1>10. ASSUME TypeOK', Destroy
       PROVE  Telling'
  <2>1. Live' \subseteq Live
    BY <1>10, CoreDeath
  <2>2. pc = "destroy" /\ pc' = pc /\ told' = told
    BY <1>10 DEF Destroy, loops
  <2> QED
    BY <2>1, <2>2 DEF Telling
<1>11. TypeOK'
  <2>1. Shape
    BY CoreTypes DEF Core, Pushing, Shape
  <2> QED
    BY <1>1, <2>1, TypeStep
<1>12. CASE pc' \in {"relcase_active", "relcase_sleeping", "destroy"}
  BY <1>6, <1>7, <1>8, <1>9, <1>10, <1>11, <1>12, TellingSteps
<1> QED
  BY <1>12 DEF Telling

-----------------------------------------------------------------------------
(* The theorems.                                                           *)

\* The lists, the counters, the families and the queue hang together in every state; and so
\* do the crows, with one thread at a time.  The requests of one object must not reach the
\* 256 that wrap its counter.
THEOREM Invariant ==
    ASSUME MaxCounter < MaxActive
    PROVE  Spec => []IInv
<1>1. Init => IInv
  BY InitQuiet DEF IInv
<1>2. IInv /\ [Next]_vars => IInv'
  <2> SUFFICES ASSUME IInv, [Next]_vars PROVE IInv'
    OBVIOUS
  <2>1. Core /\ Core'
    BY CoreStep DEF IInv
  <2>2. ~mtPhysics => Alone' /\ AllListed'
    BY ListedStep DEF IInv
  <2>3. ~mtPhysics /\ Zones = {} => CrowsOnce(list') /\ CrowsComing' /\ UpdatesOnce'
    BY OnceStep DEF IInv
  <2> QED
    BY <2>1, <2>2, <2>3 DEF IInv, CrowsOnce, Held
<1> QED
  BY <1>1, <1>2, PTL DEF Spec

\* An object is in exactly one list, once, and in objects_active exactly when its counter
\* of requests is not zero.
THEOREM ListsFollowCounters ==
    ASSUME MaxCounter < MaxActive
    PROVE  Spec => []ListsMatchCounters
<1>1. IInv => ListsMatchCounters
  BY Match DEF IInv
<1> QED
  BY Invariant, <1>1, PTL

\* A child never outlives the parent it points to.
THEOREM ParentsOutlive ==
    ASSUME MaxCounter < MaxActive
    PROVE  Spec => []ParentsLive
<1>1. IInv => ParentsLive
  <2> SUFFICES ASSUME Core, NEW o \in Live, Parent[o] \in freed PROVE FALSE
    BY DEF ParentsLive, IInv
  <2>1. o \in Objects /\ Parent[o] # NULL
    BY CoreTypes, ConstantTypes DEF Core, TypeOK
  <2> QED
    BY <2>1 DEF Core, Families, Absent
<1> QED
  BY Invariant, <1>1, PTL

\* An object whose crow flag is set is in one of the vectors that take the flag back, as
\* long as one thread at a time makes crows: without mtPhysics.
THEOREM CrowsListed ==
    ASSUME MaxCounter < MaxActive, ~mtPhysics
    PROVE  Spec => []CrowListed
<1>1. IInv => CrowListed
  BY LiveTypes DEF IInv, AllListed, Entered, CrowListed, Core
<1> QED
  BY Invariant, <1>1, PTL

\* Nothing that Update will still dereference points to a destroyed object: every death
\* takes its object out of both vectors of crows, where it is once, and no object of the
\* level dies while it is in objects_dup or being updated.
THEOREM NothingDangles ==
    ASSUME MaxCounter < MaxActive, ~mtPhysics, Zones = {}
    PROVE  Spec => []NoDangling
<1>1. IInv => NoDangling
  <2> SUFFICES ASSUME IInv PROVE NoDangling
    OBVIOUS
  <2>1. Live \cap freed = {} /\ Range(destroy_queue) \subseteq Live
    BY DEF IInv, Core, Absent, Doomed
  <2>2. Range(list.crows[0]) \subseteq Live /\ Range(list.crows[1]) \subseteq Live
    BY DEF IInv, CrowsOnce, Live
  <2>3. Range(todo) \subseteq Live /\ Range(calls) \subseteq Live
    BY DEF IInv, UpdatesOnce
  <2> QED
    BY <2>1, <2>2, <2>3 DEF NoDangling
<1> QED
  BY Invariant, <1>1, PTL

\* Before the first object of a queue dies every object of the level got net_Relcase for it,
\* with any cars and drivers that leave them on the way, unless a car that the loop over
\* objects_active has passed or stands at falls asleep: PassesOver is all that goes wrong.
THEOREM AllAreTold ==
    ASSUME MaxCounter < MaxActive
    PROVE  Spec /\ [][~PassesOver]_vars => []Told
<1>1. Init => Telling
  BY DEF Init, Telling
<1>2. IInv /\ Telling /\ [Next]_vars /\ [~PassesOver]_vars => Telling'
  <2> SUFFICES ASSUME IInv, Telling, [Next]_vars, [~PassesOver]_vars PROVE Telling'
    OBVIOUS
  <2>1. CASE UNCHANGED vars
    BY <2>1 DEF vars, Telling, Live
  <2>2. CASE ~PassesOver
    BY <2>2, TellingStep DEF IInv
  <2> QED
    BY <2>1, <2>2
<1>3. Telling => Told
  BY DEF Telling, Told
<1> QED
  BY Invariant, <1>1, <1>2, <1>3, PTL DEF Spec
=============================================================================
