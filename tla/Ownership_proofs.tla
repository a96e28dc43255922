-------------------------- MODULE Ownership_proofs --------------------------
(***************************************************************************)
(* Proofs about Ownership, for any entities, IDs and refusals.             *)
(***************************************************************************)
EXTENDS Ownership, SequenceTheorems, FiniteSetTheorems, TLAPS

-----------------------------------------------------------------------------
(* Sets of naturals.                                                       *)

\* Every set of naturals has a least element: n stands for the finite set 0 .. n,
\* and strict inclusion of finite sets is well-founded.
LEMMA LeastNatural ==
    ASSUME NEW T \in SUBSET Nat, T # {}
    PROVE  \E x \in T : \A y \in T : x <= y
<1> DEFINE Upto == {0 .. n : n \in T}
<1>1. Upto \subseteq FiniteSubsetsOf(Nat) /\ Upto # {}
  <2>1. \A n \in T : IsFiniteSet(0 .. n) /\ 0 .. n \subseteq Nat
    BY FS_Interval
  <2> QED
    BY <2>1 DEF FiniteSubsetsOf
<1>2. IsWellFoundedOn(StrictSubsetOrdering(Nat), FiniteSubsetsOf(Nat))
  BY FS_StrictSubsetOrderingWellFounded
<1> HIDE DEF Upto
<1>3. PICK X \in Upto : \A Y \in Upto : <<Y, X>> \notin StrictSubsetOrdering(Nat)
  BY <1>1, <1>2, WFMin
<1>4. PICK x \in T : X = 0 .. x
  BY <1>3 DEF Upto
<1>5. ASSUME NEW y \in T, y < x
      PROVE  FALSE
  <2>1. 0 .. y \in Upto
    BY DEF Upto
  <2>2. 0 .. y \subseteq 0 .. x /\ x \in 0 .. x /\ x \notin 0 .. y
    BY <1>5
  <2>3. 0 .. y \in SUBSET Nat /\ 0 .. x \in SUBSET Nat
    OBVIOUS
  <2>4. <<0 .. y, 0 .. x>> \in StrictSubsetOrdering(Nat)
    BY <2>2, <2>3 DEF StrictSubsetOrdering
  <2> QED
    BY <2>1, <2>4, <1>3, <1>4
<1> QED
  BY <1>5

\* A set that holds 0 and the successor of each of its members holds every natural.
LEMMA NaturalInduction ==
    ASSUME NEW T, 0 \in T, \A n \in Nat : n \in T => n + 1 \in T
    PROVE  Nat \subseteq T
<1> SUFFICES ASSUME Nat \ T # {} PROVE FALSE
  OBVIOUS
<1>1. PICK x \in Nat \ T : \A y \in Nat \ T : x <= y
  BY LeastNatural
<1>2. x - 1 \in Nat /\ x - 1 \notin Nat \ T
  BY <1>1
<1> QED
  BY <1>1, <1>2

-----------------------------------------------------------------------------
(* Sequences.                                                              *)

\* To leave out one position shifts the later ones left: std::vector::erase.
LEMMA EraseType ==
    ASSUME NEW S, NEW s \in Seq(S), NEW i \in 1 .. Len(s)
    PROVE  LET erased == SubSeq(s, 1, i - 1) \o SubSeq(s, i + 1, Len(s))
           IN  /\ erased \in Seq(S)
               /\ Len(erased) = Len(s) - 1
               /\ \A j \in 1 .. Len(s) - 1 : erased[j] = IF j < i THEN s[j] ELSE s[j + 1]
<1> DEFINE front == SubSeq(s, 1, i - 1)
           back == SubSeq(s, i + 1, Len(s))
<1>1. /\ front \in Seq(S) /\ Len(front) = i - 1
      /\ \A j \in 1 .. i - 1 : front[j] = s[j]
  OBVIOUS
<1>2. /\ back \in Seq(S) /\ Len(back) = Len(s) - i
      /\ \A j \in 1 .. Len(s) - i : back[j] = s[i + j]
  OBVIOUS
<1> HIDE DEF front, back
<1>3. /\ front \o back \in Seq(S)
      /\ Len(front \o back) = Len(s) - 1
  BY <1>1, <1>2
<1>4. ASSUME NEW j \in 1 .. Len(s) - 1
      PROVE (front \o back)[j] = IF j < i THEN s[j] ELSE s[j + 1]
  BY <1>1, <1>2
<1> QED
  BY <1>3, <1>4 DEF front, back

\* To erase one position of such a list takes just the element there.
LEMMA DistinctErase ==
    ASSUME NEW S, NEW s \in Seq(S), IsInjective(s), NEW i \in 1 .. Len(s)
    PROVE  LET erased == SubSeq(s, 1, i - 1) \o SubSeq(s, i + 1, Len(s))
           IN  /\ erased \in Seq(S)
               /\ Range(erased) = Range(s) \ {s[i]}
               /\ IsInjective(erased)
<1>1. DOMAIN s = 1 .. Len(s) /\ Len(s) \in Nat
  OBVIOUS
<1> DEFINE u == SubSeq(s, 1, i - 1) \o SubSeq(s, i + 1, Len(s))
<1>2. /\ u \in Seq(S) /\ Len(u) = Len(s) - 1
      /\ \A j \in 1 .. Len(s) - 1 : u[j] = IF j < i THEN s[j] ELSE s[j + 1]
  BY EraseType
<1> HIDE DEF u
<1>3. DOMAIN u = 1 .. Len(s) - 1
  BY <1>1, <1>2
<1>4. \A j, k \in 1 .. Len(s) : s[j] = s[k] => j = k
  BY <1>1 DEF IsInjective
<1>5. IsInjective(u)
  <2>1. ASSUME NEW j \in 1 .. Len(s) - 1, NEW k \in 1 .. Len(s) - 1, u[j] = u[k]
        PROVE  j = k
    <3>1. (IF j < i THEN j ELSE j + 1) = (IF k < i THEN k ELSE k + 1)
      <4>1. (IF j < i THEN j ELSE j + 1) \in 1 .. Len(s) /\ (IF k < i THEN k ELSE k + 1) \in 1 .. Len(s)
        BY <1>1
      <4> QED
        BY <1>2, <1>4, <2>1, <4>1
    <3> QED
      BY <3>1
  <2> QED
    BY <1>3, <2>1 DEF IsInjective
<1>6. ASSUME NEW j \in 1 .. Len(s) - 1
      PROVE  u[j] \in Range(s) \ {s[i]}
  <2>1. PICK k \in 1 .. Len(s) : k # i /\ u[j] = s[k]
    <3>1. j \in 1 .. Len(s) /\ j + 1 \in 1 .. Len(s)
      BY <1>1
    <3> QED
      BY <1>2, <3>1
  <2>2. s[k] # s[i]
    BY <1>4, <2>1
  <2>3. s[k] \in Range(s)
    BY <1>1 DEF Range
  <2> QED
    BY <2>1, <2>2, <2>3
<1>7. ASSUME NEW k \in 1 .. Len(s), k # i
      PROVE  \E j \in 1 .. Len(s) - 1 : u[j] = s[k]
  <2>1. CASE k < i
    <3>1. k \in 1 .. Len(s) - 1 /\ u[k] = s[k]
      BY <1>1, <1>2, <2>1
    <3> QED
      BY <3>1
  <2>2. CASE k > i
    <3>1. k - 1 \in 1 .. Len(s) - 1 /\ u[k - 1] = s[k]
      BY <1>1, <1>2, <2>2
    <3> QED
      BY <3>1
  <2> QED
    BY <1>7, <2>1, <2>2
<1>8. Range(u) = Range(s) \ {s[i]}
  <2>1. Range(u) \subseteq Range(s) \ {s[i]}
    BY <1>3, <1>6 DEF Range
  <2>2. ASSUME NEW x \in Range(s), x # s[i]
        PROVE  x \in Range(u)
    <3>1. PICK k \in 1 .. Len(s) : x = s[k]
      BY <1>1 DEF Range
    <3>2. PICK j \in 1 .. Len(s) - 1 : u[j] = s[k]
      BY <1>7, <2>2, <3>1
    <3> QED
      BY <1>3, <3>1, <3>2 DEF Range
  <2> QED
    BY <2>1, <2>2
<1> QED
  BY <1>2, <1>5, <1>8 DEF u

LEMMA DistinctAppend ==
    ASSUME NEW S, NEW s \in Seq(S), IsInjective(s), NEW e \in S, e \notin Range(s)
    PROVE  /\ Append(s, e) \in Seq(S)
           /\ Range(Append(s, e)) = Range(s) \cup {e}
           /\ IsInjective(Append(s, e))
<1>1. DOMAIN s = 1 .. Len(s) /\ Len(s) \in Nat
  OBVIOUS
<1> DEFINE u == Append(s, e)
<1>2. /\ u \in Seq(S) /\ DOMAIN u = 1 .. Len(s) \cup {Len(s) + 1}
      /\ u[Len(s) + 1] = e
      /\ \A k \in 1 .. Len(s) : u[k] = s[k]
  <2>1. u \in Seq(S) /\ Len(u) = Len(s) + 1 /\ u[Len(s) + 1] = e
        /\ \A k \in 1 .. Len(s) : u[k] = s[k]
    OBVIOUS
  <2>2. DOMAIN u = 1 .. Len(u)
    BY <2>1
  <2> QED
    BY <1>1, <2>1, <2>2
<1> HIDE DEF u
<1>3. \A k \in 1 .. Len(s) : s[k] # e
  BY <1>1 DEF Range
<1>4. Range(u) = Range(s) \cup {e}
  BY <1>1, <1>2 DEF Range
<1>5. IsInjective(u)
  BY <1>1, <1>2, <1>3 DEF IsInjective
<1> QED
  BY <1>2, <1>4, <1>5 DEF u

-----------------------------------------------------------------------------
(* Lists of IDs and of blocks.                                             *)

\* SelectInSeq finds the first of the positions where there is one.
LEMMA LeastOf ==
    ASSUME NEW n \in Nat, NEW I \in SUBSET (1 .. n), I # {}
    PROVE  Min(I) \in I /\ \A j \in I : Min(I) <= j
<1>1. I \in SUBSET Nat
  OBVIOUS
<1>2. \E x \in I : \A y \in I : x <= y
  BY <1>1, LeastNatural
<1> QED
  BY <1>2 DEF Min

\* std::find and erase.
LEMMA DistinctRemove ==
    ASSUME NEW S, NEW s \in Seq(S), IsInjective(s), NEW e \in Range(s)
    PROVE  /\ \E i \in 1 .. Len(s) : s[i] = e /\ RemoveFirst(s, e) = RemoveAt(s, i)
           /\ RemoveFirst(s, e) \in Seq(S)
           /\ Range(RemoveFirst(s, e)) = Range(s) \ {e}
           /\ IsInjective(RemoveFirst(s, e))
<1>1. PICK k \in 1 .. Len(s) : s[k] = e
  BY DEF Range
<1> DEFINE i == SelectInSeq(s, LAMBDA v : v = e)
<1>2. i \in 1 .. Len(s) /\ s[i] = e
  <2> DEFINE I == {j \in 1 .. Len(s) : s[j] = e}
  <2>1. i = Min(I)
    BY <1>1 DEF SelectInSeq
  <2>2. I \in SUBSET (1 .. Len(s)) /\ I # {} /\ Len(s) \in Nat
    BY <1>1
  <2>3. Min(I) \in I
    BY <2>2, LeastOf
  <2> QED
    BY <2>1, <2>3
<1>3. RemoveFirst(s, e) = RemoveAt(s, i)
  BY <1>1 DEF RemoveFirst
<1> HIDE DEF i
<1> DEFINE u == RemoveAt(s, i)
<1>4. u \in Seq(S) /\ Range(u) = Range(s) \ {s[i]} /\ IsInjective(u)
  BY <1>2, DistinctErase DEF RemoveAt
<1> HIDE DEF u
<1>5. RemoveFirst(s, e) = u
  BY <1>3 DEF u
<1> QED
  BY <1>2, <1>3, <1>4, <1>5

\* tfGetFromBlock: the last one fills the gap.
LEMMA DistinctFill ==
    ASSUME NEW S, NEW s \in Seq(S), IsInjective(s), NEW i \in 1 .. Len(s)
    PROVE  LET u == Front(ReplaceAt(s, i, Last(s)))
           IN  /\ u \in Seq(S)
               /\ Range(u) = Range(s) \ {s[i]}
               /\ IsInjective(u)
<1> DEFINE r == ReplaceAt(s, i, Last(s))
           u == Front(r)
<1>1. DOMAIN s = 1 .. Len(s) /\ Len(s) \in Nat /\ Len(s) # 0
  OBVIOUS
<1>n. Len(s) \in Nat /\ Len(s) # 0
  BY <1>1
<1>2. /\ r \in Seq(S) /\ Len(r) = Len(s)
      /\ \A j \in 1 .. Len(s) : r[j] = IF j = i THEN s[Len(s)] ELSE s[j]
  BY <1>1, ExceptSeq DEF ReplaceAt, Last
<1> HIDE DEF r
<1>3. /\ u \in Seq(S) /\ Len(u) = Len(s) - 1
      /\ \A j \in 1 .. Len(s) - 1 : u[j] = r[j]
  BY <1>1, <1>2 DEF Front
<1> HIDE DEF u
<1>4. DOMAIN u = 1 .. Len(s) - 1
  BY <1>1, <1>3
<1>5. \A j \in 1 .. Len(s) - 1 : u[j] = IF j = i THEN s[Len(s)] ELSE s[j]
  BY <1>1, <1>2, <1>3
<1>6. \A j, k \in 1 .. Len(s) : s[j] = s[k] => j = k
  BY <1>1 DEF IsInjective
<1>7. IsInjective(u)
  <2>1. ASSUME NEW j \in 1 .. Len(s) - 1, NEW k \in 1 .. Len(s) - 1, u[j] = u[k]
        PROVE  j = k
    <3>1. j \in 1 .. Len(s) /\ k \in 1 .. Len(s) /\ j # Len(s) /\ k # Len(s) /\ Len(s) \in 1 .. Len(s)
      BY <1>n
    <3> QED
      BY <1>5, <1>6, <2>1, <3>1
  <2> QED
    BY <1>4, <2>1 DEF IsInjective
<1>8. Range(u) \subseteq Range(s) \ {s[i]}
  <2>1. ASSUME NEW j \in 1 .. Len(s) - 1 PROVE u[j] \in Range(s) \ {s[i]}
    <3>1. j \in 1 .. Len(s) /\ j # Len(s) /\ Len(s) \in 1 .. Len(s)
      BY <1>n
    <3>2. PICK k \in 1 .. Len(s) : u[j] = s[k] /\ k # i
      BY <1>5, <3>1
    <3> QED
      BY <1>1, <1>6, <3>2 DEF Range
  <2> QED
    BY <1>4, <2>1 DEF Range
<1>9. Range(s) \ {s[i]} \subseteq Range(u)
  <2>1. ASSUME NEW k \in 1 .. Len(s), s[k] # s[i] PROVE \E j \in 1 .. Len(s) - 1 : u[j] = s[k]
    <3>1. CASE k = Len(s)
      <4>1. i \in 1 .. Len(s) - 1
        BY <1>1, <2>1, <3>1
      <4>2. u[i] = s[Len(s)]
        BY <1>5, <4>1
      <4> QED
        BY <3>1, <4>1, <4>2
    <3>2. CASE k # Len(s)
      <4>1. k \in 1 .. Len(s) - 1
        BY <1>n, <3>2
      <4>2. u[k] = s[k]
        BY <1>5, <2>1, <4>1
      <4> QED
        BY <4>1, <4>2
    <3> QED
      BY <3>1, <3>2
  <2> QED
    BY <1>1, <1>4, <2>1 DEF Range
<1> QED
  BY <1>3, <1>7, <1>8, <1>9 DEF u, r

\* The front of such a list is the rest without the last: what is back on top goes first.
LEMMA AppendTakesBack ==
    ASSUME NEW S, NEW s \in Seq(S), NEW e \in S, e \notin Range(s)
    PROVE  LET u == Append(s, e)
               i == SelectInSeq(u, LAMBDA v : v = e)
           IN  Front(ReplaceAt(u, i, Last(u))) = s
<1> DEFINE u == Append(s, e)
           i == SelectInSeq(u, LAMBDA v : v = e)
           r == ReplaceAt(u, i, Last(u))
<1>1. /\ u \in Seq(S) /\ Len(u) = Len(s) + 1 /\ u[Len(s) + 1] = e /\ Len(s) \in Nat
      /\ \A k \in 1 .. Len(s) : u[k] = s[k]
  OBVIOUS
<1>2. \A k \in 1 .. Len(s) : s[k] # e
  BY DEF Range
<1> HIDE DEF u
<1>3. i \in 1 .. Len(u) /\ u[i] = e
  <2>1. Len(s) + 1 \in 1 .. Len(u)
    BY <1>1
  <2> DEFINE I == {j \in 1 .. Len(u) : u[j] = e}
  <2>2. i = Min(I)
    BY <1>1, <2>1 DEF SelectInSeq
  <2>3. I \in SUBSET (1 .. Len(u)) /\ I # {} /\ Len(u) \in Nat
    BY <1>1, <2>1
  <2>4. Min(I) \in I
    BY <2>3, LeastOf
  <2> QED
    BY <2>2, <2>4
<1> HIDE DEF i
<1>4. i = Len(s) + 1
  BY <1>1, <1>2, <1>3
<1>5. /\ r \in Seq(S) /\ Len(r) = Len(u)
      /\ \A k \in 1 .. Len(u) : r[k] = u[k]
  <2>1. Last(u) = e /\ e \in S
    BY <1>1 DEF Last
  <2> QED
    BY <1>1, <1>3, <1>4, <2>1, ExceptSeq DEF ReplaceAt
<1> HIDE DEF r
<1>6. Front(r) \in Seq(S) /\ Len(Front(r)) = Len(s) /\ \A k \in 1 .. Len(s) : Front(r)[k] = s[k]
  BY <1>1, <1>5 DEF Front
<1>7. Front(r) = s
  BY <1>6, SeqEqual
<1> QED
  BY <1>7 DEF r, i, u

-----------------------------------------------------------------------------
(* FoldLeft goes from state to state, one element at a time.               *)

\* The operators that are folded, by name: the facts about FoldLeft are proved once.
Folded(op, e, S, x) ==
    CASE op = "Removed"       -> Removed(S, x)
      [] op = "Kept"          -> Kept(S, e, x)
      [] op = "Respawned"     -> Respawned(S, Called(x))
      [] op = "Released"      -> Released(S, Called(x))
      [] op = "Process_event" -> Process_event(S, x)
      [] op = "Apply"         -> Mirror!Apply(S, x)

LEMMA GreatestOf ==
    ASSUME NEW n \in Nat, NEW d \in SUBSET (1 .. n + 1), n + 1 \in d
    PROVE  Max(d) = n + 1
<1>1. \A y \in d : n + 1 >= y /\ y \in Nat
  OBVIOUS
<1>2. \A x \in d : (\A y \in d : x >= y) => x = n + 1
  BY <1>1
<1> QED
  BY <1>1, <1>2 DEF Max

\* f is the recursive function inside FoldLeft, over the sets of positions.
IsFold(f, op, e, S, s, n) ==
    f = [d \in SUBSET (1 .. n) |->
            IF d = {} THEN S ELSE Folded(op, e, f[d \ {Max(d)}], s[Max(d)])]

\* It exists.
LEMMA FoldExists ==
    ASSUME NEW op, NEW e, NEW S, NEW s, NEW n \in Nat
    PROVE  \E f : IsFold(f, op, e, S, s, n)
<1> DEFINE Is(f, k) == f = [d \in SUBSET (1 .. k) |->
                               IF d = {} THEN S ELSE Folded(op, e, f[d \ {Max(d)}], s[Max(d)])]
           T == {k \in Nat : \E f : Is(f, k)}
<1>1. 0 \in T
  <2> DEFINE f == [d \in SUBSET (1 .. 0) |-> S]
  <2>1. \A d \in SUBSET (1 .. 0) : d = {}
    OBVIOUS
  <2>2. Is(f, 0)
    BY <2>1
  <2> QED
    BY <2>2
<1>2. ASSUME NEW k \in Nat, k \in T PROVE k + 1 \in T
  <2>1. PICK f : Is(f, k)
    BY <1>2
  <2> DEFINE g == [d \in SUBSET (1 .. k + 1) |->
                      IF k + 1 \in d THEN Folded(op, e, f[d \ {k + 1}], s[k + 1]) ELSE f[d]]
  <2>2. \A d \in SUBSET (1 .. k) : d \in SUBSET (1 .. k + 1) /\ k + 1 \notin d
    OBVIOUS
  <2>3. \A d \in SUBSET (1 .. k) : g[d] = f[d]
    BY <2>2
  <2>4. ASSUME NEW d \in SUBSET (1 .. k + 1)
        PROVE  g[d] = IF d = {} THEN S ELSE Folded(op, e, g[d \ {Max(d)}], s[Max(d)])
    <3>1. CASE k + 1 \in d
      <4>1. Max(d) = k + 1
        BY <3>1, GreatestOf
      <4>2. d \ {k + 1} \in SUBSET (1 .. k)
        OBVIOUS
      <4>3. g[d] = Folded(op, e, f[d \ {k + 1}], s[k + 1]) /\ g[d \ {k + 1}] = f[d \ {k + 1}]
        BY <2>3, <3>1, <4>2
      <4> QED
        BY <3>1, <4>1, <4>3
    <3>2. CASE k + 1 \notin d
      <4>1. d \in SUBSET (1 .. k) /\ d \ {Max(d)} \in SUBSET (1 .. k)
        <5>1. \A x \in 1 .. k + 1 : x # k + 1 => x \in 1 .. k
          OBVIOUS
        <5> QED
          BY <3>2, <5>1
      <4>2. g[d] = f[d] /\ g[d \ {Max(d)}] = f[d \ {Max(d)}]
        BY <2>3, <4>1
      <4>3. f[d] = IF d = {} THEN S ELSE Folded(op, e, f[d \ {Max(d)}], s[Max(d)])
        BY <2>1, <4>1
      <4> QED
        BY <4>2, <4>3
    <3> QED
      BY <3>1, <3>2
  <2> HIDE DEF g
  <2>5. g = [d \in SUBSET (1 .. k + 1) |-> g[d]]
    BY DEF g
  <2>6. Is(g, k + 1)
    BY <2>4, <2>5
  <2> QED
    BY SMTT(30), <2>6
<1>3. Nat \subseteq T
  <2> HIDE DEF T
  <2> QED
    BY <1>1, <1>2, NaturalInduction
<1> QED
  BY <1>3 DEF IsFold

\* t goes from S through s.
Goes(t, op, e, S, s, n) ==
    t[0] = S /\ \A k \in 1 .. n : t[k] = Folded(op, e, t[k - 1], s[k])

\* The values of such a function on the sets 1 .. k are the states one after the other.
LEMMA FoldStates ==
    ASSUME NEW op, NEW e, NEW S, NEW s, NEW n \in Nat, NEW f,
           IsFold(f, op, e, S, s, n)
    PROVE  \E t : t[n] = f[1 .. n] /\ Goes(t, op, e, S, s, n)
<1> DEFINE t == [k \in 0 .. n |-> f[1 .. k]]
<1>f. f = [d \in SUBSET (1 .. n) |->
              IF d = {} THEN S ELSE Folded(op, e, f[d \ {Max(d)}], s[Max(d)])]
  BY DEF IsFold
<1>1. t[0] = S
  <2>1. 1 .. 0 = {} /\ 0 \in 0 .. n
    OBVIOUS
  <2> QED
    BY <1>f, <2>1
<1>2. ASSUME NEW k \in 1 .. n PROVE t[k] = Folded(op, e, t[k - 1], s[k])
  <2>1. 1 .. k \in SUBSET (1 .. n) /\ 1 .. k # {} /\ k - 1 \in Nat /\ k = (k - 1) + 1 /\ k \in 1 .. k
    OBVIOUS
  <2>2. Max(1 .. k) = k
    <3> DEFINE j == k - 1
    <3>1. j \in Nat /\ k = j + 1
      OBVIOUS
    <3> HIDE DEF j
    <3> QED
      BY <2>1, <3>1, GreatestOf
  <2>3. (1 .. k) \ {k} = 1 .. k - 1
    OBVIOUS
  <2>4. f[1 .. k] = Folded(op, e, f[1 .. k - 1], s[k])
    BY <1>f, <2>1, <2>2, <2>3
  <2>5. t[k] = f[1 .. k] /\ t[k - 1] = f[1 .. k - 1]
    <3>1. k \in 0 .. n /\ k - 1 \in 0 .. n
      OBVIOUS
    <3> QED
      BY <3>1
  <2> QED
    BY <2>4, <2>5
<1>3. t[n] = f[1 .. n]
  OBVIOUS
<1> HIDE DEF t
<1> QED
  BY <1>1, <1>2, <1>3 DEF Goes

RemovedAll(S, s) == FoldLeft(Removed, S, s)

LEMMA FoldRemoved ==
    ASSUME NEW S, NEW D, NEW s \in Seq(D)
    PROVE  \E t : Goes(t, "Removed", NULL, S, s, Len(s)) /\ t[Len(s)] = RemovedAll(S, s)
<1> DEFINE n == Len(s)
<1>0. n \in Nat /\ DOMAIN s = 1 .. n
  OBVIOUS
<1>1. \A T, x : Folded("Removed", NULL, T, x) = Removed(T, x)
  BY DEF Folded
<1> HIDE DEF n
<1>2. PICK f : IsFold(f, "Removed", NULL, S, s, n)
  BY <1>0, FoldExists
<1> DEFINE Is(g) == g = [d \in SUBSET (1 .. n) |->
                            IF d = {} THEN S ELSE Removed(g[d \ {Max(d)}], s[Max(d)])]
<1>3. Is(f)
  BY <1>1, <1>2 DEF IsFold
<1>4. PICK h : h = CHOOSE g : Is(g)
  OBVIOUS
<1>h. Is(h)
  BY <1>3, <1>4
<1>5. RemovedAll(S, s) = h[1 .. n]
  BY <1>0, <1>4 DEF FoldLeft, MapThenFoldSet, RemovedAll
<1>6. IsFold(h, "Removed", NULL, S, s, n)
  BY <1>1, <1>h DEF IsFold
<1>7. \E t : t[n] = h[1 .. n] /\ Goes(t, "Removed", NULL, S, s, n)
  BY <1>0, <1>6, FoldStates
<1> QED
  BY <1>5, <1>7 DEF n

KeptAll(S, e, s) == FoldLeft(LAMBDA T, x : Kept(T, e, x), S, s)

LEMMA FoldKept ==
    ASSUME NEW S, NEW e, NEW D, NEW s \in Seq(D)
    PROVE  \E t : Goes(t, "Kept", e, S, s, Len(s)) /\ t[Len(s)] = KeptAll(S, e, s)
<1> DEFINE n == Len(s)
<1>0. n \in Nat /\ DOMAIN s = 1 .. n
  OBVIOUS
<1>1. \A T, x : Folded("Kept", e, T, x) = Kept(T, e, x)
  BY DEF Folded
<1> HIDE DEF n
<1>2. PICK f : IsFold(f, "Kept", e, S, s, n)
  BY <1>0, FoldExists
<1> DEFINE Is(g) == g = [d \in SUBSET (1 .. n) |->
                            IF d = {} THEN S ELSE Kept(g[d \ {Max(d)}], e, s[Max(d)])]
<1>3. Is(f)
  BY <1>1, <1>2 DEF IsFold
<1>4. PICK h : h = CHOOSE g : Is(g)
  OBVIOUS
<1>h. Is(h)
  BY <1>3, <1>4
<1>5. KeptAll(S, e, s) = h[1 .. n]
  BY <1>0, <1>4 DEF FoldLeft, MapThenFoldSet, KeptAll
<1>6. IsFold(h, "Kept", e, S, s, n)
  BY ZenonT(60), <1>1, <1>h DEF IsFold
<1>7. \E t : t[n] = h[1 .. n] /\ Goes(t, "Kept", e, S, s, n)
  BY <1>0, <1>6, FoldStates
<1> QED
  BY <1>5, <1>7 DEF n

RespawnedAll(S, s) == FoldLeft(LAMBDA T, x : Respawned(T, Called(x)), S, s)

LEMMA FoldRespawned ==
    ASSUME NEW S, NEW D, NEW s \in Seq(D)
    PROVE  \E t : Goes(t, "Respawned", NULL, S, s, Len(s)) /\ t[Len(s)] = RespawnedAll(S, s)
<1> DEFINE n == Len(s)
<1>0. n \in Nat /\ DOMAIN s = 1 .. n
  OBVIOUS
<1>1. \A T, x : Folded("Respawned", NULL, T, x) = Respawned(T, Called(x))
  BY DEF Folded
<1> HIDE DEF n
<1>2. PICK f : IsFold(f, "Respawned", NULL, S, s, n)
  BY <1>0, FoldExists
<1> DEFINE Is(g) == g = [d \in SUBSET (1 .. n) |->
                            IF d = {} THEN S ELSE Respawned(g[d \ {Max(d)}], Called(s[Max(d)]))]
<1>3. Is(f)
  BY <1>1, <1>2 DEF IsFold
<1>4. PICK h : h = CHOOSE g : Is(g)
  OBVIOUS
<1>h. Is(h)
  BY <1>3, <1>4
<1>5. RespawnedAll(S, s) = h[1 .. n]
  BY <1>0, <1>4 DEF FoldLeft, MapThenFoldSet, RespawnedAll
<1>6. IsFold(h, "Respawned", NULL, S, s, n)
  BY <1>1, <1>h DEF IsFold
<1>7. \E t : t[n] = h[1 .. n] /\ Goes(t, "Respawned", NULL, S, s, n)
  BY <1>0, <1>6, FoldStates
<1> QED
  BY <1>5, <1>7 DEF n

ReleasedAll(S, s) == FoldLeft(LAMBDA T, x : Released(T, Called(x)), S, s)

LEMMA FoldReleased ==
    ASSUME NEW S, NEW D, NEW s \in Seq(D)
    PROVE  \E t : Goes(t, "Released", NULL, S, s, Len(s)) /\ t[Len(s)] = ReleasedAll(S, s)
<1> DEFINE n == Len(s)
<1>0. n \in Nat /\ DOMAIN s = 1 .. n
  OBVIOUS
<1>1. \A T, x : Folded("Released", NULL, T, x) = Released(T, Called(x))
  BY DEF Folded
<1> HIDE DEF n
<1>2. PICK f : IsFold(f, "Released", NULL, S, s, n)
  BY <1>0, FoldExists
<1> DEFINE Is(g) == g = [d \in SUBSET (1 .. n) |->
                            IF d = {} THEN S ELSE Released(g[d \ {Max(d)}], Called(s[Max(d)]))]
<1>3. Is(f)
  BY <1>1, <1>2 DEF IsFold
<1>4. PICK h : h = CHOOSE g : Is(g)
  OBVIOUS
<1>h. Is(h)
  BY <1>3, <1>4
<1>5. ReleasedAll(S, s) = h[1 .. n]
  BY <1>0, <1>4 DEF FoldLeft, MapThenFoldSet, ReleasedAll
<1>6. IsFold(h, "Released", NULL, S, s, n)
  BY <1>1, <1>h DEF IsFold
<1>7. \E t : t[n] = h[1 .. n] /\ Goes(t, "Released", NULL, S, s, n)
  BY <1>0, <1>6, FoldStates
<1> QED
  BY <1>5, <1>7 DEF n

HandledAll(S, s) == FoldLeft(Process_event, S, s)

LEMMA FoldProcess_event ==
    ASSUME NEW S, NEW D, NEW s \in Seq(D)
    PROVE  \E t : Goes(t, "Process_event", NULL, S, s, Len(s)) /\ t[Len(s)] = HandledAll(S, s)
<1> DEFINE n == Len(s)
<1>0. n \in Nat /\ DOMAIN s = 1 .. n
  OBVIOUS
<1>1. \A T, x : Folded("Process_event", NULL, T, x) = Process_event(T, x)
  BY DEF Folded
<1> HIDE DEF n
<1>2. PICK f : IsFold(f, "Process_event", NULL, S, s, n)
  BY <1>0, FoldExists
<1> DEFINE Is(g) == g = [d \in SUBSET (1 .. n) |->
                            IF d = {} THEN S ELSE Process_event(g[d \ {Max(d)}], s[Max(d)])]
<1>3. Is(f)
  BY <1>1, <1>2 DEF IsFold
<1>4. PICK h : h = CHOOSE g : Is(g)
  OBVIOUS
<1>h. Is(h)
  BY <1>3, <1>4
<1>5. HandledAll(S, s) = h[1 .. n]
  BY <1>0, <1>4 DEF FoldLeft, MapThenFoldSet, HandledAll
<1>6. IsFold(h, "Process_event", NULL, S, s, n)
  BY <1>1, <1>h DEF IsFold
<1>7. \E t : t[n] = h[1 .. n] /\ Goes(t, "Process_event", NULL, S, s, n)
  BY <1>0, <1>6, FoldStates
<1> QED
  BY <1>5, <1>7 DEF n

AppliedAll(S, s) == Mirror!FoldLeft(Mirror!Apply, S, s)

LEMMA FoldApply ==
    ASSUME NEW S, NEW D, NEW s \in Seq(D)
    PROVE  \E t : Goes(t, "Apply", NULL, S, s, Len(s)) /\ t[Len(s)] = AppliedAll(S, s)
<1> DEFINE n == Len(s)
<1>0. n \in Nat /\ DOMAIN s = 1 .. n
  OBVIOUS
<1>1. \A T, x : Folded("Apply", NULL, T, x) = Mirror!Apply(T, x)
  BY DEF Folded
<1> HIDE DEF n
<1>2. PICK f : IsFold(f, "Apply", NULL, S, s, n)
  BY <1>0, FoldExists
<1> DEFINE Is(g) == g = [d \in SUBSET (1 .. n) |->
                            IF d = {} THEN S ELSE Mirror!Apply(g[d \ {Max(d)}], s[Max(d)])]
<1>3. Is(f)
  BY <1>1, <1>2 DEF IsFold
<1>4. PICK h : h = CHOOSE g : Is(g)
  OBVIOUS
<1>h. Is(h)
  BY <1>3, <1>4
<1>5. AppliedAll(S, s) = h[1 .. n]
  BY <1>0, <1>4 DEF Mirror!FoldLeft, Mirror!MapThenFoldSet, Mirror!Max, Max, AppliedAll
<1>6. IsFold(h, "Apply", NULL, S, s, n)
  BY <1>1, <1>h DEF IsFold
<1>7. \E t : t[n] = h[1 .. n] /\ Goes(t, "Apply", NULL, S, s, n)
  BY <1>0, <1>6, FoldStates
<1> QED
  BY <1>5, <1>7 DEF n

-----------------------------------------------------------------------------
(* The invariant: the server.                                              *)

Servers ==
    [entities : [IDs -> Entities \cup {NULL}], ID : [Entities -> IDs \cup {NULL}],
     ID_Parent : [Entities -> IDs \cup {NULL}], children : [Entities -> Seq(IDs)],
     free : [Blocks -> Seq(IDs)], blocks : Seq(Blocks), freed : SUBSET Blocks,
     net : Seq(Messages), failed : Requests \cup {NULL}]

On(S, e)   == S.ID[e] # NULL /\ S.entities[S.ID[e]] = e
Kids(S, p) == Range(S.children[p])
FreeIDs(S) == {id \in IDs : id \in Range(S.free[Block(id)])}

\* The stacks of free IDs, and the order of the blocks.
StacksOK(S) ==
    /\ \A b \in Blocks : /\ IsInjective(S.free[b])
                         /\ \A id \in Range(S.free[b]) : Block(id) = b
    /\ IsInjective(S.blocks) /\ Range(S.blocks) = Blocks

\* An ID is free or names one entity, online or offline.
NamesOK(S) ==
    /\ \A e, x \in Entities : S.ID[e] = S.ID[x] /\ S.ID[e] # NULL => e = x
    /\ \A id \in IDs : (\E e \in Entities : S.ID[e] = id) <=> id \notin FreeIDs(S)
    /\ \A id \in IDs : S.entities[id] # NULL => S.ID[S.entities[id]] = id

\* The two ends of each link agree.
Has(S, p, e) == S.ID[p] # NULL /\ S.ID_Parent[e] = S.ID[p]

LinksOK(S) ==
    /\ \A p \in Entities : IsInjective(S.children[p])
    /\ \A p \in Entities, id \in IDs :
          id \in Kids(S, p) <=> \E e \in Entities : S.ID[e] = id /\ Has(S, p, e)
    /\ \A e \in Entities : S.ID_Parent[e] # NULL =>
          /\ e \in Items /\ S.ID[e] # NULL
          /\ \E p \in Owners : S.ID[p] = S.ID_Parent[e]

\* An item is online exactly when its owner is.
Together(S) == \A e, p \in Entities : Has(S, p, e) => (On(S, p) <=> On(S, e))

ServerOK(S) == S \in Servers /\ StacksOK(S) /\ NamesOK(S) /\ LinksOK(S) /\ Together(S)

-----------------------------------------------------------------------------
(* The invariant: the views of the tree, from the client's to the server's. *)

TreeView(S) ==
    [at |-> [e \in Entities |-> IF ~On(S, e) THEN Absent
                                ELSE IF S.ID_Parent[e] = NULL THEN NULL
                                ELSE S.entities[S.ID_Parent[e]]],
     id |-> [e \in Entities |-> IF On(S, e) THEN S.ID[e] ELSE NULL]]

Views == [at : [Entities -> Owners \cup {NULL, Absent}], id : [Entities -> IDs \cup {NULL}]]

TreeTyped(W) ==
    /\ W \in Views
    /\ \A e \in Entities : /\ W.at[e] = Absent <=> W.id[e] = NULL
                           /\ W.at[e] \in Owners => e \in Items /\ W.at[W.at[e]] # Absent

\* What a message makes of a view, and where it can be sent and arrive.
After(W, m) == [at |-> [W.at EXCEPT ![m.e] = ChangeOf(m).to],
                id |-> [W.id EXCEPT ![m.e] = IF m.type = "DESTROY" THEN NULL ELSE m.id]]

Allowed(W, m) ==
    /\ m.type = "SPAWN"   => W.at[m.e] = Absent
    /\ m.type = "TAKE"    => W.at[m.e] = NULL /\ m.p # NULL
    /\ m.type = "REJECT"  => W.at[m.e] = m.p /\ m.p # NULL
    /\ m.type = "DESTROY" => W.at[m.e] = NULL /\ m.p = NULL /\ \A x \in Entities : W.at[x] # m.e
    /\ m.type # "SPAWN"   => W.id[m.e] = m.id
    /\ m.p = NULL <=> m.parent = NULL
    /\ m.p # NULL => m.e \in Items /\ W.at[m.p] # Absent /\ W.id[m.p] = m.parent

\* t leads from W through log.
Path(t, W, log) ==
    t[0] = W /\ \A k \in 1 .. Len(log) : Allowed(t[k - 1], log[k]) /\ t[k] = After(t[k - 1], log[k])

Reaches(W, log, V) == \E t : Path(t, W, log) /\ t[Len(log)] = V

-----------------------------------------------------------------------------
(* The invariant: what the IDs stand for on the way to the client.  G has  *)
(* the state besides the server's.                                         *)

Env == [events |-> events, object |-> object, net_ID |-> net_ID, switched |-> switched,
        settling |-> settling, phase |-> phase]

Envs == [events : Seq(Messages), object : [Entities -> {"none", "spawned", "dying"}],
         net_ID : [Entities -> IDs \cup {NULL}], switched : SUBSET Entities,
         settling : SUBSET Blocks, phase : {"update", "events"}]

Log(S, G)    == G.events \o S.net
Recent(S, G) == S.freed \cup G.settling

About(S, G, e)     == \E k \in 1 .. Len(Log(S, G)) : Log(S, G)[k].e = e
Leaves(S, G, e, i) == \/ G.object[e] # "none" /\ G.net_ID[e] = i
                      \/ \E k \in 1 .. Len(Log(S, G)) : Log(S, G)[k].e = e /\ Log(S, G)[k].id = i

\* An ID that an object has, or a message about it, is the entity's still or was freed lately.
Traces(S, G) ==
    \A e \in Entities, i \in IDs : Leaves(S, G, e, i) =>
        S.ID[e] = i \/ (Block(i) \in Recent(S, G) /\ \A x \in Entities : S.ID[x] # i)

OneTrace(S, G) ==
    \A e, x \in Entities, i \in IDs : Leaves(S, G, e, i) /\ Leaves(S, G, x, i) => e = x

\* A new object is spawned before anything else is said about it.
SpawnsFresh(S, G) ==
    \A k \in 1 .. Len(Log(S, G)) : Log(S, G)[k].type = "SPAWN" =>
        /\ G.object[Log(S, G)[k].e] = "none"
        /\ \A j \in 1 .. k - 1 : Log(S, G)[j].e # Log(S, G)[k].e

\* What went offline in an earlier frame is forgotten on the client.
Switcher(S, e, r) == IF S.ID_Parent[e] = NULL THEN r = e ELSE S.ID[r] = S.ID_Parent[e]

OffGone(S, G) ==
    G.phase = "update" =>
        \A e, r \in Entities : S.ID[e] # NULL /\ ~On(S, e) /\ Switcher(S, e, r) /\ r \notin G.switched
                                  => G.object[e] = "none" /\ ~About(S, G, e)

\* The blocks with IDs freed lately are the last.
LateBlocks(S, G) ==
    \A i, j \in 1 .. Len(S.blocks) :
        i < j /\ S.blocks[i] \in Recent(S, G) => S.blocks[j] \in Recent(S, G)

\* Behind the events being handled there is nothing but what the client has refused.
PhaseOK(S, G) ==
    /\ G.phase = "update" => G.settling = {}
    /\ G.phase = "events" => S.freed = {} /\ \A k \in 1 .. Len(S.net) : S.net[k].type = "REJECT"

Side(S, G, W) ==
    /\ Reaches(W, Log(S, G), TreeView(S))
    /\ Traces(S, G) /\ OneTrace(S, G) /\ SpawnsFresh(S, G) /\ OffGone(S, G)
    /\ LateBlocks(S, G) /\ PhaseOK(S, G)

-----------------------------------------------------------------------------
(* The invariant: the client and the whole.                                *)

ClientOK ==
    /\ Parent \in [Entities -> Owners \cup {NULL}] /\ map_NETID \in [IDs -> Entities \cup {NULL}]
    /\ \A e \in Entities : /\ object[e] # "none" => net_ID[e] # NULL /\ map_NETID[net_ID[e]] = e
                           /\ Parent[e] # NULL => object[e] = "spawned"
    /\ \A id \in IDs : map_NETID[id] # NULL =>
          object[map_NETID[id]] # "none" /\ net_ID[map_NETID[id]] = id

\* W is what the client sees; an item its owner has refused counts as his until the REJECT.
Shows(W) ==
    \A e \in Entities :
        IF object[e] # "spawned" THEN W.at[e] = Absent
        ELSE /\ W.id[e] = net_ID[e]
             /\ \/ W.at[e] = Parent[e]
                \/ Parent[e] = NULL /\ <<W.at[e], e>> \in Refuses /\ About(server, Env, e)

\* A request meets a fault only with a message under way about the item or its owner.
Crossed(S, G) ==
    S.failed # NULL =>
        \E k \in 1 .. Len(Log(S, G)) : Log(S, G)[k].id \in {S.failed.id, S.failed.parent}

Body(W) ==
    /\ ServerOK(server) /\ Env \in Envs /\ TreeTyped(W) /\ Side(server, Env, W)
    /\ ClientOK /\ Shows(W) /\ Crossed(server, Env)
    /\ crashed \in Messages \cup {NULL}
    /\ crashed # NULL => crashed.type = "REJECT" /\ <<crashed.p, crashed.e>> \in Refuses

IInv == \E W : Body(W)

-----------------------------------------------------------------------------
(* The ID generator.                                                       *)

LEMMA BlockOfID == \A id \in IDs : Block(id) \in Blocks
  BY OwnershipAssumption DEF IDs, Blocks, Block

\* An ID is taken from the stack of its block.
LEMMA TakenFacts ==
    ASSUME NEW S \in Servers, StacksOK(S), NEW id \in FreeIDs(S),
           NEW T, T = Taken(S, id)
    PROVE  /\ T \in Servers /\ StacksOK(T) /\ FreeIDs(T) = FreeIDs(S) \ {id}
           /\ T.entities = S.entities /\ T.ID = S.ID
           /\ T.ID_Parent = S.ID_Parent /\ T.children = S.children /\ T.blocks = S.blocks
           /\ T.freed = S.freed /\ T.net = S.net /\ T.failed = S.failed
<1> DEFINE b == Block(id)
           s == S.free[b]
           gap == SelectInSeq(s, LAMBDA i : i = id)
           u == Front(ReplaceAt(s, gap, Last(s)))
<1>1. T = [S EXCEPT !.free[b] = u]
  BY DEF Taken
<1>2. id \in IDs /\ b \in Blocks /\ id \in Range(s)
  BY BlockOfID DEF FreeIDs
<1>3. s \in Seq(IDs) /\ IsInjective(s) /\ \A i \in Range(s) : Block(i) = b
  BY <1>2 DEF Servers, StacksOK
<1>4. gap \in 1 .. Len(s) /\ s[gap] = id
  <2> DEFINE I == {j \in 1 .. Len(s) : s[j] = id}
  <2>1. Len(s) \in Nat /\ \E k \in 1 .. Len(s) : s[k] = id
    BY <1>2, <1>3 DEF Range
  <2>2. gap = Min(I)
    BY <2>1 DEF SelectInSeq
  <2>3. I \in SUBSET (1 .. Len(s)) /\ I # {}
    BY <2>1
  <2>4. Min(I) \in I
    BY <2>1, <2>3, LeastOf
  <2> QED
    BY <2>2, <2>4
<1> HIDE DEF gap
<1>5. u \in Seq(IDs) /\ Range(u) = Range(s) \ {id} /\ IsInjective(u)
  <2> HIDE DEF s
  <2> QED
    BY <1>3, <1>4, DistinctFill
<1> HIDE DEF u, b
<1>6. S.free \in [Blocks -> Seq(IDs)]
  BY DEF Servers
<1>7. /\ T.free = [S.free EXCEPT ![b] = u] /\ T.entities = S.entities /\ T.ID = S.ID
      /\ T.ID_Parent = S.ID_Parent /\ T.children = S.children /\ T.blocks = S.blocks
      /\ T.freed = S.freed /\ T.net = S.net /\ T.failed = S.failed
  BY <1>1 DEF Servers
<1>8. T.free \in [Blocks -> Seq(IDs)]
  BY <1>2, <1>5, <1>6, <1>7
<1>9. T \in Servers
  BY <1>1, <1>8 DEF Servers
<1>10. \A c \in Blocks : T.free[c] = IF c = b THEN u ELSE S.free[c]
  BY <1>6, <1>7
<1>11. StacksOK(T)
  BY <1>3, <1>5, <1>7, <1>10 DEF StacksOK
<1>12. \A i \in IDs : i \in Range(T.free[Block(i)]) <=> i \in Range(S.free[Block(i)]) /\ i # id
  BY <1>2, <1>3, <1>5, <1>10, BlockOfID DEF b
<1>13. FreeIDs(T) = FreeIDs(S) \ {id}
  BY <1>12 DEF FreeIDs
<1> QED
  BY <1>7, <1>9, <1>11, <1>13

\* An ID goes back on its stack, and its block to the end of the order.
LEMMA FreedFacts ==
    ASSUME NEW S \in Servers, StacksOK(S), NEW id \in IDs, id \notin FreeIDs(S),
           NEW T, T = vfFreeID(S, id)
    PROVE  /\ T \in Servers /\ StacksOK(T) /\ FreeIDs(T) = FreeIDs(S) \cup {id}
           /\ T.entities = S.entities /\ T.ID = S.ID /\ T.ID_Parent = S.ID_Parent
           /\ T.children = S.children /\ T.net = S.net /\ T.failed = S.failed
           /\ T.freed = S.freed \cup {Block(id)}
           /\ \A G : LateBlocks(S, G) => LateBlocks(T, G)
<1> DEFINE b == Block(id)
           s == S.free[b]
           u == Append(s, id)
           r == RemoveFirst(S.blocks, b)
           v == Append(r, b)
<1>1. T = [S EXCEPT !.free[b] = u, !.blocks = v, !.freed = @ \cup {b}]
  BY DEF vfFreeID
<1>2. b \in Blocks /\ id \notin Range(s)
  BY BlockOfID DEF FreeIDs
<1>3. s \in Seq(IDs) /\ IsInjective(s) /\ \A i \in Range(s) : Block(i) = b
  BY <1>2 DEF Servers, StacksOK
<1>4. u \in Seq(IDs) /\ Range(u) = Range(s) \cup {id} /\ IsInjective(u)
  <2> HIDE DEF s
  <2> QED
    BY <1>2, <1>3, DistinctAppend
<1> HIDE DEF u
<1>5. S.blocks \in Seq(Blocks) /\ IsInjective(S.blocks) /\ Range(S.blocks) = Blocks
  BY DEF Servers, StacksOK
<1>6. /\ \E i \in 1 .. Len(S.blocks) : S.blocks[i] = b /\ r = RemoveAt(S.blocks, i)
      /\ r \in Seq(Blocks) /\ Range(r) = Blocks \ {b} /\ IsInjective(r)
  <2>1. PICK B : B = S.blocks
    OBVIOUS
  <2>2. B \in Seq(Blocks) /\ IsInjective(B) /\ b \in Range(B) /\ r = RemoveFirst(B, b)
    BY <1>2, <1>5, <2>1
  <2> HIDE DEF r, b
  <2>3. /\ \E i \in 1 .. Len(B) : B[i] = b /\ RemoveFirst(B, b) = RemoveAt(B, i)
        /\ RemoveFirst(B, b) \in Seq(Blocks)
        /\ Range(RemoveFirst(B, b)) = Range(B) \ {b}
        /\ IsInjective(RemoveFirst(B, b))
    BY <2>2, DistinctRemove
  <2> QED
    BY <1>5, <2>1, <2>2, <2>3
<1> HIDE DEF r
<1>7. v \in Seq(Blocks) /\ Range(v) = Blocks /\ IsInjective(v)
  <2>1. b \notin Range(r)
    BY <1>6
  <2>2. /\ Append(r, b) \in Seq(Blocks)
        /\ Range(Append(r, b)) = Range(r) \cup {b}
        /\ IsInjective(Append(r, b))
    BY <1>2, <1>6, <2>1, DistinctAppend
  <2> QED
    BY <1>2, <1>6, <2>2
<1> HIDE DEF v
<1>8. S.free \in [Blocks -> Seq(IDs)] /\ S.freed \subseteq Blocks
  BY DEF Servers
<1> HIDE DEF b
<1>9. /\ T.free = [S.free EXCEPT ![b] = u] /\ T.entities = S.entities /\ T.ID = S.ID
      /\ T.ID_Parent = S.ID_Parent /\ T.children = S.children /\ T.blocks = v
      /\ T.freed = S.freed \cup {b} /\ T.net = S.net /\ T.failed = S.failed
  BY <1>1 DEF Servers
<1>10. T.free \in [Blocks -> Seq(IDs)]
  BY <1>2, <1>4, <1>8, <1>9
<1>11. T \in Servers
  <2>1. PICK f \in [Blocks -> Seq(IDs)] : f = [S.free EXCEPT ![b] = u]
    BY <1>9, <1>10
  <2>2. PICK c \in SUBSET Blocks : c = S.freed \cup {b}
    BY <1>2, <1>8
  <2>3. T = [S EXCEPT !.free = f, !.blocks = v, !.freed = c]
    BY <1>1, <2>1, <2>2
  <2> QED
    BY <1>7, <2>3 DEF Servers
<1>12. \A c \in Blocks : T.free[c] = IF c = b THEN u ELSE S.free[c]
  BY <1>8, <1>9
<1>13. StacksOK(T)
  <2>1. ASSUME NEW c \in Blocks
        PROVE  IsInjective(T.free[c]) /\ \A i \in Range(T.free[c]) : Block(i) = c
    BY <1>3, <1>4, <1>12 DEF StacksOK, b
  <2> QED
    BY <1>7, <1>9, <2>1 DEF StacksOK
<1>14. \A i \in IDs : i \in Range(T.free[Block(i)]) <=> i \in Range(S.free[Block(i)]) \/ i = id
  BY <1>2, <1>3, <1>4, <1>12, BlockOfID DEF b
<1>15. FreeIDs(T) = FreeIDs(S) \cup {id}
  BY <1>14 DEF FreeIDs
<1>16. ASSUME NEW G, LateBlocks(S, G) PROVE LateBlocks(T, G)
  <2>1. PICK k \in 1 .. Len(S.blocks) : S.blocks[k] = b /\ r = RemoveAt(S.blocks, k)
    BY <1>6
  <2>2. PICK B : B = S.blocks
    OBVIOUS
  <2>3. Len(B) \in Nat /\ B \in Seq(Blocks) /\ k \in 1 .. Len(B)
    BY <1>5, <2>1, <2>2
  <2>4. /\ Len(r) = Len(B) - 1
        /\ \A j \in 1 .. Len(B) - 1 : r[j] = IF j < k THEN B[j] ELSE B[j + 1]
    BY <2>1, <2>2, <2>3, EraseType DEF RemoveAt
  <2>5. /\ Len(v) = Len(B) /\ v[Len(B)] = b
        /\ \A j \in 1 .. Len(B) - 1 : v[j] = r[j]
    BY <1>6, <2>3, <2>4 DEF v
  <2>6. Recent(T, G) = Recent(S, G) \cup {b}
    BY <1>9 DEF Recent
  <2>7. ASSUME NEW i \in 1 .. Len(v), NEW j \in 1 .. Len(v), i < j, v[i] \in Recent(T, G)
        PROVE  v[j] \in Recent(T, G)
    <3>1. CASE j = Len(B)
      BY <2>5, <2>6, <3>1
    <3>2. CASE j # Len(B)
      <4>1. i \in 1 .. Len(B) - 1 /\ j \in 1 .. Len(B) - 1
        BY <2>3, <2>5, <2>7, <3>2
      <4>2. PICK c \in 1 .. Len(B) : v[i] = B[c] /\ c # k /\ (c = i \/ c = i + 1) /\ (c = i <=> i < k)
        <5>1. i \in 1 .. Len(B) /\ i + 1 \in 1 .. Len(B) /\ v[i] = IF i < k THEN B[i] ELSE B[i + 1]
          BY <2>3, <2>4, <2>5, <4>1
        <5>2. i < k => i # k /\ i # i + 1
          BY <2>3, <4>1
        <5>3. ~(i < k) => i + 1 # k /\ i + 1 # i
          BY <2>3, <4>1
        <5> QED
          BY <5>1, <5>2, <5>3
      <4>3. PICK d \in 1 .. Len(B) : v[j] = B[d] /\ (d = j \/ d = j + 1) /\ (d = j <=> j < k)
        BY SMTT(30), <2>3, <2>4, <2>5, <4>1
      <4>4. c < d
        BY <2>3, <2>7, <4>1, <4>2, <4>3
      <4>5. B[c] # b
        BY <1>5, <2>1, <2>2, <2>3, <4>2 DEF IsInjective
      <4>6. B[c] \in Recent(S, G)
        BY <2>6, <2>7, <4>2, <4>5
      <4>7. B[d] \in Recent(S, G)
        BY <1>16, <2>2, <4>2, <4>3, <4>4, <4>6 DEF LateBlocks
      <4> QED
        BY <2>6, <4>3, <4>7
    <3> QED
      BY <3>1, <3>2
  <2> QED
    BY <1>9, <2>7 DEF LateBlocks
<1> QED
  BY <1>9, <1>11, <1>13, <1>15, <1>16 DEF b

\* The ID that has just been freed is the first that is taken again.
LEMMA TakenBack ==
    ASSUME NEW S \in Servers, StacksOK(S), NEW id \in IDs, id \notin FreeIDs(S),
           NEW F, F = vfFreeID(S, id), NEW T, T = Taken(F, id)
    PROVE  /\ T \in Servers /\ StacksOK(T) /\ T.free = S.free
           /\ T.entities = S.entities /\ T.ID = S.ID /\ T.ID_Parent = S.ID_Parent
           /\ T.children = S.children /\ T.net = S.net /\ T.failed = S.failed
           /\ T.freed = S.freed \cup {Block(id)}
           /\ \A G : LateBlocks(S, G) => LateBlocks(T, G)
<1>1. /\ F \in Servers /\ StacksOK(F) /\ FreeIDs(F) = FreeIDs(S) \cup {id}
      /\ F.entities = S.entities /\ F.ID = S.ID /\ F.ID_Parent = S.ID_Parent
      /\ F.children = S.children /\ F.net = S.net /\ F.failed = S.failed
      /\ F.freed = S.freed \cup {Block(id)}
      /\ \A G : LateBlocks(S, G) => LateBlocks(F, G)
  BY FreedFacts
<1>2. /\ T \in Servers /\ StacksOK(T) /\ FreeIDs(T) = FreeIDs(F) \ {id}
      /\ T.entities = F.entities /\ T.ID = F.ID
      /\ T.ID_Parent = F.ID_Parent /\ T.children = F.children /\ T.blocks = F.blocks
      /\ T.freed = F.freed /\ T.net = F.net /\ T.failed = F.failed
  <2>1. id \in FreeIDs(F)
    BY <1>1
  <2> QED
    BY <1>1, <2>1, TakenFacts
<1>3. \A G : LateBlocks(F, G) => LateBlocks(T, G)
  BY <1>2 DEF LateBlocks, Recent
<1> DEFINE b == Block(id)
           s == S.free[b]
           u == Append(s, id)
           B == Append(RemoveFirst(S.blocks, b), b)
           w == Front(ReplaceAt(u, SelectInSeq(u, LAMBDA i : i = id), Last(u)))
<1>4. b \in Blocks /\ id \notin Range(s) /\ s \in Seq(IDs) /\ S.free \in [Blocks -> Seq(IDs)]
  BY BlockOfID DEF FreeIDs, Servers
<1>5. F = [S EXCEPT !.free[b] = u, !.blocks = B, !.freed = @ \cup {b}]
  BY DEF vfFreeID
<1>6. w = s
  <2> HIDE DEF s
  <2> QED
    BY <1>4, AppendTakesBack
<1>7. F.free[b] = u
  <2> HIDE DEF B, u
  <2> QED
    BY <1>4, <1>5 DEF Servers
<1>8. T = [F EXCEPT !.free[b] = w]
  BY <1>7 DEF Taken
<1>9. T.free = S.free
  <2> HIDE DEF B, u, b, s, w
  <2>1. F.free = [S.free EXCEPT ![b] = u]
    BY <1>4, <1>5 DEF Servers
  <2>2. [F.free EXCEPT ![b] = s] = S.free
    BY <1>4, <2>1 DEF s
  <2>3. T.free = [F.free EXCEPT ![b] = w]
    BY <1>1, <1>8 DEF Servers
  <2> QED
    BY <1>6, <2>2, <2>3
<1> QED
  BY <1>1, <1>2, <1>3, <1>9

\* A new ID is free and none that was freed lately.
LEMMA NewIDFacts ==
    ASSUME NEW S \in Servers, StacksOK(S), NEW G, LateBlocks(S, G),
           \E b \in Blocks : S.free[b] # <<>> /\ b \notin Recent(S, G)
    PROVE  NewID(S) \in FreeIDs(S) /\ Block(NewID(S)) \notin Recent(S, G)
<1> DEFINE I == {k \in 1 .. Len(S.blocks) : S.free[S.blocks[k]] # <<>>}
           k0 == Min(I)
<1>1. S.blocks \in Seq(Blocks) /\ Range(S.blocks) = Blocks /\ Len(S.blocks) \in Nat
  BY DEF Servers, StacksOK
<1>2. PICK b \in Blocks : S.free[b] # <<>> /\ b \notin Recent(S, G)
  OBVIOUS
<1>3. PICK k \in 1 .. Len(S.blocks) : S.blocks[k] = b
  BY <1>1 DEF Range
<1>4. k \in I
  BY <1>2, <1>3
<1>5. I \in SUBSET (1 .. Len(S.blocks)) /\ I # {}
  BY <1>4
<1>6. k0 \in I /\ \A j \in I : k0 <= j
  BY <1>1, <1>5, LeastOf
<1>7. Oldest(S) = S.blocks[k0]
  BY <1>5 DEF Oldest, SelectInSeq
<1> HIDE DEF k0
<1>8. k0 \in 1 .. Len(S.blocks) /\ S.free[S.blocks[k0]] # <<>> /\ k0 <= k
  BY <1>4, <1>6
<1>9. S.blocks[k0] \notin Recent(S, G)
  <2>1. CASE k0 = k
    BY <1>2, <1>3, <2>1
  <2>2. CASE k0 # k
    <3>1. k0 < k
      BY <1>1, <1>8, <2>2
    <3> QED
      BY <1>2, <1>3, <1>8, <3>1 DEF LateBlocks
  <2> QED
    BY <2>1, <2>2
<1>10. PICK c \in Blocks : c = Oldest(S) /\ S.free[c] # <<>> /\ c \notin Recent(S, G)
  BY <1>1, <1>7, <1>8, <1>9
<1>11. PICK s \in Seq(IDs) : s = S.free[c] /\ s # <<>>
  BY <1>10 DEF Servers
<1>12. NewID(S) = s[Len(s)] /\ s[Len(s)] \in IDs /\ s[Len(s)] \in Range(s)
  <2>1. Len(s) \in 1 .. Len(s)
    BY <1>11
  <2> QED
    BY <1>10, <1>11, <2>1 DEF NewID, Last, Range
<1>13. Block(NewID(S)) = c
  BY <1>11, <1>12 DEF StacksOK
<1> QED
  BY <1>10, <1>11, <1>12, <1>13 DEF FreeIDs

-----------------------------------------------------------------------------
(* The walk of the views through the log.                                  *)

\* The values that are told apart are different.
LEMMA NoClash ==
    /\ NULL \notin IDs /\ NULL \notin Entities /\ Absent # NULL /\ Absent \notin Entities
    /\ Owners \subseteq Entities /\ Items \subseteq Entities /\ Owners \cap Items = {}
  BY OwnershipAssumption DEF Absent, Entities, Owners

LEMMA ConcatAppend ==
    ASSUME NEW X, NEW a \in Seq(X), NEW b \in Seq(X), NEW m \in X
    PROVE  a \o Append(b, m) = Append(a \o b, m)
<1> DEFINE u == a \o Append(b, m)
           v == Append(a \o b, m)
<1>1. u \in Seq(X) /\ v \in Seq(X) /\ Len(u) = Len(v)
  OBVIOUS
<1>2. ASSUME NEW k \in 1 .. Len(u) PROVE u[k] = v[k]
  OBVIOUS
<1> HIDE DEF u, v
<1>3. u = v
  BY <1>1, <1>2, SeqEqual
<1> QED
  BY <1>3 DEF u, v

LEMMA AppendPlaces ==
    ASSUME NEW X, NEW s \in Seq(X), NEW m \in X
    PROVE  /\ Append(s, m) \in Seq(X) /\ Len(Append(s, m)) = Len(s) + 1 /\ Len(s) \in Nat
           /\ Append(s, m)[Len(s) + 1] = m /\ Len(s) + 1 \in 1 .. Len(s) + 1
           /\ \A k \in 1 .. Len(s) : Append(s, m)[k] = s[k] /\ k \in 1 .. Len(s) + 1
           /\ \A k \in 1 .. Len(s) + 1 : k \in 1 .. Len(s) \/ k = Len(s) + 1
<1>1. Len(s) \in Nat
  OBVIOUS
<1> QED
  BY <1>1

LEMMA ReachesEmpty ==
    ASSUME NEW W, NEW V
    PROVE  Reaches(W, <<>>, V) <=> V = W
<1>1. ASSUME Reaches(W, <<>>, V) PROVE V = W
  BY <1>1 DEF Reaches, Path
<1>2. ASSUME V = W PROVE Reaches(W, <<>>, V)
  <2> DEFINE t == [k \in {0} |-> W]
  <2>1. Path(t, W, <<>>) /\ t[Len(<<>>)] = V
    BY <1>2 DEF Path
  <2> QED
    BY <2>1 DEF Reaches
<1> QED
  BY <1>1, <1>2

\* One more message, allowed where the path ends, leads one step further.
LEMMA ReachesAppend ==
    ASSUME NEW W, NEW V, NEW log \in Seq(Messages), NEW m \in Messages,
           Reaches(W, log, V), Allowed(V, m)
    PROVE  Reaches(W, Append(log, m), After(V, m))
<1> DEFINE n == Len(log)
           log2 == Append(log, m)
<1>1. PICK t : Path(t, W, log) /\ t[n] = V
  BY DEF Reaches
<1>2. /\ Len(log2) = n + 1 /\ n \in Nat /\ log2[n + 1] = m
      /\ \A k \in 1 .. n : log2[k] = log[k]
  OBVIOUS
<1>3. \A k \in 1 .. n + 1 : k \in 1 .. n \/ k = n + 1
  OBVIOUS
<1> HIDE DEF log2, n
<1> DEFINE u == [k \in 0 .. n + 1 |-> IF k = n + 1 THEN After(V, m) ELSE t[k]]
<1>4. u[n + 1] = After(V, m)
  BY <1>2
<1>5. ASSUME NEW k \in 0 .. n PROVE u[k] = t[k]
  BY <1>2
<1> HIDE DEF u
<1>6. u[0] = W
  BY <1>1, <1>2, <1>5 DEF Path
<1>7. ASSUME NEW k \in 1 .. n + 1
      PROVE  Allowed(u[k - 1], log2[k]) /\ u[k] = After(u[k - 1], log2[k])
  <2>1. CASE k \in 1 .. n
    <3>1. k - 1 \in 0 .. n /\ k \in 0 .. n
      BY <1>2, <2>1
    <3>2. u[k - 1] = t[k - 1] /\ u[k] = t[k]
      BY <1>5, <3>1
    <3> QED
      BY <1>1, <1>2, <2>1, <3>2 DEF Path, n
  <2>2. CASE k = n + 1
    <3>1. k - 1 = n /\ n \in 0 .. n
      BY <1>2, <2>2
    <3>2. u[k - 1] = V
      BY <1>1, <1>5, <3>1
    <3> QED
      BY <1>2, <1>4, <2>2, <3>2
  <2> QED
    BY <1>3, <2>1, <2>2
<1>8. Path(u, W, log2) /\ u[Len(log2)] = After(V, m)
  BY <1>2, <1>4, <1>6, <1>7 DEF Path
<1> QED
  BY <1>8 DEF Reaches, log2

\* The first message is allowed at once, and the rest leads on from the view after it.
LEMMA ReachesTail ==
    ASSUME NEW W, NEW V, NEW log \in Seq(Messages), log # <<>>, Reaches(W, log, V)
    PROVE  /\ Head(log) \in Messages /\ Allowed(W, Head(log))
           /\ Reaches(After(W, Head(log)), Tail(log), V)
<1> DEFINE n == Len(log)
           log2 == Tail(log)
<1>1. PICK t : Path(t, W, log) /\ t[n] = V
  BY DEF Reaches
<1>2. /\ Len(log2) = n - 1 /\ n \in Nat /\ n # 0 /\ Head(log) = log[1] /\ log[1] \in Messages
      /\ \A k \in 1 .. n - 1 : log2[k] = log[k + 1]
  OBVIOUS
<1> HIDE DEF log2, n
<1> DEFINE u == [k \in 0 .. n - 1 |-> t[k + 1]]
<1>3. t[1] = After(W, Head(log)) /\ Allowed(W, Head(log))
  <2>1. 1 \in 1 .. n /\ 1 - 1 = 0
    BY <1>2
  <2> QED
    BY <1>1, <1>2, <2>1 DEF Path, n
<1>4. u[0] = t[1] /\ u[n - 1] = t[n]
  <2>1. 0 \in 0 .. n - 1 /\ n - 1 \in 0 .. n - 1 /\ (n - 1) + 1 = n /\ 0 + 1 = 1
    BY <1>2
  <2> QED
    BY <2>1
<1>5. ASSUME NEW k \in 1 .. n - 1
      PROVE  Allowed(u[k - 1], log2[k]) /\ u[k] = After(u[k - 1], log2[k])
  <2>1. k - 1 \in 0 .. n - 1 /\ k \in 0 .. n - 1 /\ k + 1 \in 1 .. n /\ (k + 1) - 1 = (k - 1) + 1
    BY <1>2
  <2>2. u[k - 1] = t[(k - 1) + 1] /\ u[k] = t[k + 1]
    BY <2>1
  <2>3. Allowed(t[(k + 1) - 1], log[k + 1]) /\ t[k + 1] = After(t[(k + 1) - 1], log[k + 1])
    BY <1>1, <2>1 DEF Path, n
  <2> QED
    BY <1>2, <2>1, <2>2, <2>3
<1> HIDE DEF u
<1>6. Path(u, After(W, Head(log)), log2) /\ u[Len(log2)] = V
  BY <1>1, <1>2, <1>3, <1>4, <1>5 DEF Path
<1> QED
  BY <1>2, <1>3, <1>6 DEF Reaches, log2

\* The view after a message.
LEMMA AfterPlaces ==
    ASSUME NEW W \in Views, NEW m \in Messages
    PROVE  /\ After(W, m) \in Views
           /\ \A e \in Entities : /\ After(W, m).at[e] = IF e = m.e THEN ChangeOf(m).to ELSE W.at[e]
                                  /\ After(W, m).id[e] = IF e # m.e THEN W.id[e]
                                                         ELSE IF m.type = "DESTROY" THEN NULL ELSE m.id
           /\ m.type \in {"SPAWN", "TAKE"} => ChangeOf(m).to = m.p
           /\ m.type = "REJECT" => ChangeOf(m).to = NULL
           /\ m.type = "DESTROY" => ChangeOf(m).to = Absent
           /\ ChangeOf(m).to \in Owners \cup {NULL, Absent}
<1>1. m.type \in {"SPAWN", "TAKE", "REJECT", "DESTROY"} /\ m.e \in Entities /\ m.id \in IDs
      /\ m.p \in Owners \cup {NULL}
  BY DEF Messages
<1>2. /\ m.type \in {"SPAWN", "TAKE"} => ChangeOf(m).to = m.p
      /\ m.type = "REJECT" => ChangeOf(m).to = NULL
      /\ m.type = "DESTROY" => ChangeOf(m).to = Absent
  BY DEF ChangeOf
<1>3. ChangeOf(m).to \in Owners \cup {NULL, Absent}
  BY <1>1, <1>2
<1> QED
  BY <1>1, <1>2, <1>3 DEF After, Views

LEMMA AfterTyped ==
    ASSUME NEW W, NEW m \in Messages, TreeTyped(W), Allowed(W, m)
    PROVE  TreeTyped(After(W, m))
<1>1. W \in Views
  BY DEF TreeTyped
<1>m. m.type \in {"SPAWN", "TAKE", "REJECT", "DESTROY"} /\ m.e \in Entities /\ m.id \in IDs
      /\ m.p \in Owners \cup {NULL}
  BY DEF Messages
<1> DEFINE V == After(W, m)
           to == ChangeOf(m).to
<1>2. /\ V \in Views
      /\ \A e \in Entities : /\ V.at[e] = IF e = m.e THEN to ELSE W.at[e]
                             /\ V.id[e] = IF e # m.e THEN W.id[e]
                                          ELSE IF m.type = "DESTROY" THEN NULL ELSE m.id
      /\ m.type \in {"SPAWN", "TAKE"} => to = m.p
      /\ m.type = "REJECT" => to = NULL
      /\ m.type = "DESTROY" => to = Absent
  BY <1>1, AfterPlaces
<1> HIDE DEF V, to
<1>3. \A e \in Entities : V.at[e] = Absent <=> V.id[e] = NULL
  BY <1>m, <1>2, NoClash DEF TreeTyped
<1>4. ASSUME NEW e \in Entities, V.at[e] \in Owners PROVE e \in Items /\ V.at[V.at[e]] # Absent
  <2>1. CASE e = m.e
    <3>1. V.at[e] = m.p /\ m.p \in Owners /\ m.p # NULL
      BY <1>m, <1>2, <1>4, <2>1, NoClash
    <3>2. e \in Items /\ W.at[m.p] # Absent /\ m.p # e
      BY <2>1, <3>1, NoClash DEF Allowed
    <3> QED
      BY <1>2, <2>1, <3>1, <3>2, NoClash
  <2>2. CASE e # m.e
    <3>1. W.at[e] \in Owners /\ e \in Items /\ W.at[W.at[e]] # Absent /\ W.at[e] \in Entities
          /\ V.at[e] = W.at[e]
      BY <1>2, <1>4, <2>2, NoClash DEF TreeTyped
    <3>2. CASE W.at[e] = m.e
      <4>1. m.type # "DESTROY"
        BY <3>2 DEF Allowed
      <4> QED
        BY <1>m, <1>2, <3>1, <3>2, <4>1, NoClash
    <3>3. CASE W.at[e] # m.e
      BY <1>2, <3>1, <3>3
    <3> QED
      BY <3>2, <3>3
  <2> QED
    BY <2>1, <2>2
<1> QED
  BY <1>2, <1>3, <1>4 DEF TreeTyped, V

\* All the views on the way are trees.
LEMMA PathTyped ==
    ASSUME NEW W, NEW log \in Seq(Messages), NEW t, TreeTyped(W), Path(t, W, log)
    PROVE  \A k \in 0 .. Len(log) : TreeTyped(t[k])
<1> DEFINE n == Len(log)
           T == {k \in Nat : k <= n => TreeTyped(t[k])}
<1>0. n \in Nat /\ \A k \in 1 .. n : log[k] \in Messages
  OBVIOUS
<1>1. 0 \in T
  BY DEF Path
<1>2. ASSUME NEW k \in Nat, k \in T PROVE k + 1 \in T
  <2>1. SUFFICES ASSUME k + 1 <= n PROVE TreeTyped(t[k + 1])
    OBVIOUS
  <2>2. k + 1 \in 1 .. n /\ (k + 1) - 1 = k /\ TreeTyped(t[k])
    BY <1>0, <1>2, <2>1
  <2>3. Allowed(t[k], log[k + 1]) /\ t[k + 1] = After(t[k], log[k + 1]) /\ log[k + 1] \in Messages
    BY <1>0, <2>2 DEF Path
  <2> QED
    BY <2>2, <2>3, AfterTyped
<1>3. Nat \subseteq T
  <2> HIDE DEF T
  <2> QED
    BY <1>1, <1>2, NaturalInduction
<1> QED
  BY <1>0, <1>3

LEMMA ReachesTyped ==
    ASSUME NEW W, NEW V, NEW log \in Seq(Messages), TreeTyped(W), Reaches(W, log, V)
    PROVE  TreeTyped(V)
<1>1. PICK t : Path(t, W, log) /\ t[Len(log)] = V
  BY DEF Reaches
<1>2. Len(log) \in 0 .. Len(log)
  OBVIOUS
<1> QED
  BY <1>1, <1>2, PathTyped

\* An entity stays where it is until the first message about it.
LEMMA Untouched ==
    ASSUME NEW W, NEW log \in Seq(Messages), NEW t, TreeTyped(W), Path(t, W, log),
           NEW e \in Entities, NEW m \in 0 .. Len(log), \A j \in 1 .. m : log[j].e # e
    PROVE  t[m].at[e] = W.at[e] /\ t[m].id[e] = W.id[e]
<1> DEFINE n == Len(log)
           T == {k \in Nat : k <= m => t[k].at[e] = W.at[e] /\ t[k].id[e] = W.id[e]}
<1>0. n \in Nat /\ m \in Nat /\ m <= n /\ \A k \in 1 .. n : log[k] \in Messages
  OBVIOUS
<1>1. 0 \in T
  BY DEF Path
<1>2. ASSUME NEW k \in Nat, k \in T PROVE k + 1 \in T
  <2>1. SUFFICES ASSUME k + 1 <= m PROVE t[k + 1].at[e] = W.at[e] /\ t[k + 1].id[e] = W.id[e]
    OBVIOUS
  <2>2. /\ k + 1 \in 1 .. n /\ k + 1 \in 1 .. m /\ (k + 1) - 1 = k /\ k \in 0 .. n
        /\ t[k].at[e] = W.at[e] /\ t[k].id[e] = W.id[e]
    BY <1>0, <1>2, <2>1
  <2>3. t[k + 1] = After(t[k], log[k + 1]) /\ log[k + 1] \in Messages /\ log[k + 1].e # e
    BY <1>0, <2>2 DEF Path
  <2>4. PICK U \in Views : U = t[k]
    BY <2>2, PathTyped DEF TreeTyped
  <2>5. PICK x \in Messages : x = log[k + 1]
    BY <2>3
  <2>6. After(U, x).at[e] = U.at[e] /\ After(U, x).id[e] = U.id[e]
    BY <2>3, <2>5, AfterPlaces
  <2> QED
    BY <2>2, <2>3, <2>4, <2>5, <2>6
<1>3. Nat \subseteq T
  <2> HIDE DEF T
  <2> QED
    BY <1>1, <1>2, NaturalInduction
<1> QED
  BY <1>0, <1>3

\* The first message about an entity finds it where it has been.
LEMMA FirstAbout ==
    ASSUME NEW W, NEW log \in Seq(Messages), NEW t, TreeTyped(W), Path(t, W, log),
           NEW e \in Entities, \E j \in 1 .. Len(log) : log[j].e = e
    PROVE  \E k \in 1 .. Len(log) :
              /\ log[k].e = e /\ \A j \in 1 .. k - 1 : log[j].e # e
              /\ Allowed(t[k - 1], log[k])
              /\ t[k - 1].at[e] = W.at[e] /\ t[k - 1].id[e] = W.id[e]
<1> DEFINE I == {j \in 1 .. Len(log) : log[j].e = e}
<1>1. I \in SUBSET Nat /\ I # {} /\ Len(log) \in Nat
  OBVIOUS
<1>2. PICK k \in I : \A j \in I : k <= j
  BY <1>1, LeastNatural
<1>3. k \in 1 .. Len(log) /\ log[k].e = e /\ k - 1 \in 0 .. Len(log)
  BY <1>1, <1>2
<1>4. \A j \in 1 .. k - 1 : log[j].e # e
  <2>1. SUFFICES ASSUME NEW j \in 1 .. k - 1, log[j].e = e PROVE FALSE
    OBVIOUS
  <2>2. j \in 1 .. Len(log) /\ ~(k <= j)
    BY <1>1, <1>3
  <2> QED
    BY <1>2, <2>1, <2>2
<1>5. t[k - 1].at[e] = W.at[e] /\ t[k - 1].id[e] = W.id[e]
  BY <1>3, <1>4, Untouched
<1> QED
  BY <1>3, <1>4, <1>5 DEF Path

\* What the view shows is so on the server, or a message about it with its ID is under way.
LEMMA StillThere ==
    ASSUME NEW W, NEW V, NEW log \in Seq(Messages), TreeTyped(W), Reaches(W, log, V),
           NEW e \in Entities, W.at[e] # Absent
    PROVE  \/ V.at[e] = W.at[e] /\ V.id[e] = W.id[e]
           \/ \E k \in 1 .. Len(log) : log[k].e = e /\ log[k].id = W.id[e]
<1>1. PICK t : Path(t, W, log) /\ t[Len(log)] = V
  BY DEF Reaches
<1>2. CASE \A j \in 1 .. Len(log) : log[j].e # e
  <2>1. Len(log) \in 0 .. Len(log)
    OBVIOUS
  <2> QED
    BY <1>1, <1>2, <2>1, Untouched
<1>3. CASE \E j \in 1 .. Len(log) : log[j].e = e
  <2>1. PICK k \in 1 .. Len(log) : /\ log[k].e = e /\ \A j \in 1 .. k - 1 : log[j].e # e
                                   /\ Allowed(t[k - 1], log[k])
                                   /\ t[k - 1].at[e] = W.at[e] /\ t[k - 1].id[e] = W.id[e]
    BY SMTT(30), <1>1, <1>3, FirstAbout
  <2> QED
    BY <2>1 DEF Allowed
<1> QED
  BY <1>2, <1>3

\* Refusals do not change who is there.
LEMMA RejectsOnly ==
    ASSUME NEW W, NEW V, NEW log \in Seq(Messages), TreeTyped(W), Reaches(W, log, V),
           \A k \in 1 .. Len(log) : log[k].type = "REJECT"
    PROVE  /\ V.id = W.id
           /\ \A k \in 1 .. Len(log) : W.id[log[k].e] = log[k].id
<1>1. PICK t : Path(t, W, log) /\ t[Len(log)] = V
  BY DEF Reaches
<1> DEFINE n == Len(log)
           T == {k \in Nat : k <= n => t[k].id = W.id}
<1>0. n \in Nat /\ \A k \in 1 .. n : log[k] \in Messages
  OBVIOUS
<1>2. 0 \in T
  BY <1>1 DEF Path
<1>3. ASSUME NEW k \in 0 .. n, k + 1 <= n, t[k].id = W.id
      PROVE  t[k + 1].id = W.id /\ W.id[log[k + 1].e] = log[k + 1].id
  <2>1. k + 1 \in 1 .. n /\ (k + 1) - 1 = k
    BY <1>0, <1>3
  <2>2. /\ t[k + 1] = After(t[k], log[k + 1]) /\ log[k + 1] \in Messages
        /\ log[k + 1].type = "REJECT" /\ Allowed(t[k], log[k + 1])
    BY <1>0, <1>1, <2>1 DEF Path
  <2>3. t[k] \in Views
    BY <1>1, PathTyped DEF TreeTyped
  <2>4. W.id[log[k + 1].e] = log[k + 1].id
    BY <1>3, <2>2 DEF Allowed
  <2>5. t[k + 1].id = [t[k].id EXCEPT ![log[k + 1].e] = log[k + 1].id]
    BY <2>2 DEF After
  <2>6. W.id \in [Entities -> IDs \cup {NULL}] /\ log[k + 1].e \in Entities
    BY <2>2 DEF TreeTyped, Views, Messages
  <2> QED
    BY <1>3, <2>4, <2>5, <2>6
<1>4. ASSUME NEW k \in Nat, k \in T PROVE k + 1 \in T
  <2>1. SUFFICES ASSUME k + 1 <= n PROVE t[k + 1].id = W.id
    OBVIOUS
  <2>2. k \in 0 .. n /\ t[k].id = W.id
    BY <1>0, <1>4, <2>1
  <2> QED
    BY <1>3, <2>1, <2>2
<1>5. Nat \subseteq T
  <2> HIDE DEF T
  <2> QED
    BY <1>2, <1>4, NaturalInduction
<1>6. ASSUME NEW k \in 1 .. n PROVE W.id[log[k].e] = log[k].id
  <2>1. k - 1 \in 0 .. n /\ k - 1 \in Nat /\ (k - 1) + 1 = k /\ k <= n /\ k - 1 <= n
    BY <1>0
  <2>2. t[k - 1].id = W.id
    BY <1>5, <2>1
  <2> QED
    BY <1>3, <2>1, <2>2
<1> QED
  BY <1>0, <1>1, <1>5, <1>6

\* An item stays with its owner, under the IDs that both have, until the first message about it.
LEMMA HeldStill ==
    ASSUME NEW W, NEW V, NEW log \in Seq(Messages), TreeTyped(W), Reaches(W, log, V),
           NEW o \in Owners, NEW i \in Items, W.at[i] = o
    PROVE  \/ V.at[i] = o /\ V.id[i] = W.id[i] /\ V.id[o] = W.id[o]
           \/ \E k \in 1 .. Len(log) : log[k].e = i /\ log[k].id = W.id[i]
<1>1. PICK t : Path(t, W, log) /\ t[Len(log)] = V
  BY DEF Reaches
<1>2. /\ o \in Entities /\ i \in Entities /\ o # NULL /\ o # Absent /\ o \notin Items
      /\ W.at[o] # Absent /\ W.at[i] # Absent
  BY NoClash DEF TreeTyped
<1>3. CASE \A j \in 1 .. Len(log) : log[j].e # i
  <2>1. Len(log) \in 0 .. Len(log)
    OBVIOUS
  <2>2. V.at[i] = o /\ V.id[i] = W.id[i]
    BY <1>1, <1>2, <1>3, <2>1, Untouched
  <2>3. CASE \A j \in 1 .. Len(log) : log[j].e # o
    <3>1. V.id[o] = W.id[o]
      BY <1>1, <1>2, <2>1, <2>3, Untouched
    <3> QED
      BY <2>2, <3>1
  <2>4. CASE \E j \in 1 .. Len(log) : log[j].e = o
    <3>1. PICK k \in 1 .. Len(log) : /\ log[k].e = o /\ Allowed(t[k - 1], log[k])
                                     /\ t[k - 1].at[o] = W.at[o]
      BY <1>1, <1>2, <2>4, FirstAbout
    <3>2. k - 1 \in 0 .. Len(log) /\ \A j \in 1 .. k - 1 : log[j].e # i
      BY <1>3
    <3>3. t[k - 1].at[i] = o
      BY <1>1, <1>2, <3>2, Untouched
    <3>4. log[k].type \in {"SPAWN", "TAKE", "REJECT", "DESTROY"}
      <4>1. log[k] \in Messages
        OBVIOUS
      <4> QED
        BY <4>1 DEF Messages
    <3> QED
      BY <1>2, <3>1, <3>3, <3>4 DEF Allowed
  <2> QED
    BY <2>3, <2>4
<1>4. CASE \E j \in 1 .. Len(log) : log[j].e = i
  <2>1. PICK k \in 1 .. Len(log) : /\ log[k].e = i /\ Allowed(t[k - 1], log[k])
                                   /\ t[k - 1].at[i] = W.at[i] /\ t[k - 1].id[i] = W.id[i]
    BY SMTT(30), <1>1, <1>2, <1>4, FirstAbout
  <2> QED
    BY <1>2, <2>1 DEF Allowed
<1> QED
  BY <1>3, <1>4

-----------------------------------------------------------------------------
(* The steps of which the handlers are made keep the tree.                 *)

LEMMA SameStacks ==
    ASSUME NEW S, NEW T, T.free = S.free, T.blocks = S.blocks
    PROVE  FreeIDs(T) = FreeIDs(S) /\ (StacksOK(S) => StacksOK(T))
  BY DEF FreeIDs, StacksOK

LEMMA ServerTypes ==
    ASSUME NEW S, ServerOK(S)
    PROVE  /\ S \in Servers /\ S.entities \in [IDs -> Entities \cup {NULL}]
           /\ S.ID \in [Entities -> IDs \cup {NULL}] /\ S.ID_Parent \in [Entities -> IDs \cup {NULL}]
           /\ S.children \in [Entities -> Seq(IDs)] /\ S.net \in Seq(Messages)
           /\ S.freed \subseteq Blocks /\ S.failed \in Requests \cup {NULL}
  BY DEF ServerOK, Servers

\* Who has a parent is an item, the parent an owner, and it is the only one.
LEMMA HasFacts ==
    ASSUME NEW S, ServerOK(S), NEW p \in Entities, NEW e \in Entities, Has(S, p, e)
    PROVE  /\ p \in Owners /\ e \in Items /\ p # e /\ S.ID[p] \in IDs /\ S.ID[e] \in IDs
           /\ S.ID[e] \in Kids(S, p) /\ (On(S, p) <=> On(S, e))
           /\ \A q \in Entities : Has(S, q, e) => q = p
<1>1. S.ID[p] # NULL /\ S.ID_Parent[e] = S.ID[p]
  BY DEF Has
<1>2. e \in Items /\ S.ID[e] # NULL /\ \E q \in Owners : S.ID[q] = S.ID[p]
  BY <1>1 DEF ServerOK, LinksOK
<1>3. \A q \in Entities : S.ID[q] = S.ID[p] => q = p
  BY <1>1 DEF ServerOK, NamesOK
<1>4. p \in Owners /\ p # e
  BY <1>2, <1>3, NoClash
<1>5. S.ID[p] \in IDs /\ S.ID[e] \in IDs
  BY <1>1, <1>2, ServerTypes
<1>6. S.ID[e] \in Kids(S, p)
  BY <1>5 DEF ServerOK, LinksOK
<1>7. On(S, p) <=> On(S, e)
  BY DEF ServerOK, Together
<1> QED
  BY <1>1, <1>2, <1>3, <1>4, <1>5, <1>6, <1>7 DEF Has

\* Only links differ.
SameBut(S, T) ==
    /\ T.entities = S.entities /\ T.ID = S.ID /\ T.free = S.free /\ T.blocks = S.blocks
    /\ T.freed = S.freed /\ T.net = S.net /\ T.failed = S.failed

\* A link is cut at both of its ends.
LEMMA UnlinkedOK ==
    ASSUME NEW S, ServerOK(S), NEW p \in Entities, NEW e \in Entities, Has(S, p, e),
           NEW T, T = Unlinked(S, p, e)
    PROVE  /\ ServerOK(T)
           /\ T.ID_Parent = [S.ID_Parent EXCEPT ![e] = NULL]
           /\ \A q \in Entities : Kids(T, q) = IF q = p THEN Kids(S, p) \ {S.ID[e]} ELSE Kids(S, q)
           /\ SameBut(S, T)
<1>1. /\ p \in Owners /\ e \in Items /\ p # e /\ S.ID[p] \in IDs /\ S.ID[e] \in IDs
      /\ S.ID[e] \in Kids(S, p)
  BY HasFacts
<1>2. /\ S \in Servers /\ S.entities \in [IDs -> Entities \cup {NULL}]
      /\ S.ID \in [Entities -> IDs \cup {NULL}] /\ S.ID_Parent \in [Entities -> IDs \cup {NULL}]
      /\ S.children \in [Entities -> Seq(IDs)]
  BY ServerTypes
<1> DEFINE r == RemoveFirst(S.children[p], S.ID[e])
<1>3. T = [S EXCEPT !.ID_Parent[e] = NULL, !.children[p] = r]
  BY DEF Unlinked
<1>4. r \in Seq(IDs) /\ Range(r) = Kids(S, p) \ {S.ID[e]} /\ IsInjective(r)
  <2>0. PICK s \in Seq(IDs) : s = S.children[p]
    BY <1>2
  <2>1. PICK i \in Range(s) : s = S.children[p] /\ i = S.ID[e]
    BY <1>1, <2>0 DEF Kids
  <2>2. IsInjective(s)
    BY <2>1 DEF ServerOK, LinksOK
  <2>3. /\ RemoveFirst(s, i) \in Seq(IDs) /\ Range(RemoveFirst(s, i)) = Range(s) \ {i}
        /\ IsInjective(RemoveFirst(s, i))
    BY <2>2, DistinctRemove
  <2> QED
    BY <2>1, <2>3 DEF Kids
<1> HIDE DEF r
<1>5. /\ T.ID_Parent = [S.ID_Parent EXCEPT ![e] = NULL] /\ T.children = [S.children EXCEPT ![p] = r]
      /\ T.entities = S.entities /\ T.ID = S.ID /\ T.free = S.free /\ T.blocks = S.blocks
      /\ T.freed = S.freed /\ T.net = S.net /\ T.failed = S.failed
  BY <1>2, <1>3 DEF Servers
<1>6. T \in Servers
  <2>1. PICK a \in [Entities -> IDs \cup {NULL}] : a = [S.ID_Parent EXCEPT ![e] = NULL]
    BY <1>2
  <2>2. PICK c \in [Entities -> Seq(IDs)] : c = [S.children EXCEPT ![p] = r]
    BY <1>2, <1>4
  <2>3. T = [S EXCEPT !.ID_Parent = a, !.children = c]
    BY <2>1, <2>2, <1>3
  <2> QED
    BY <1>2, <2>3 DEF Servers
<1>7. \A q \in Entities : T.children[q] = IF q = p THEN r ELSE S.children[q]
  BY <1>2, <1>5
<1>8. \A x \in Entities : T.ID_Parent[x] = IF x = e THEN NULL ELSE S.ID_Parent[x]
  BY <1>2, <1>5
<1>9. \A q \in Entities : Kids(T, q) = IF q = p THEN Kids(S, p) \ {S.ID[e]} ELSE Kids(S, q)
  BY <1>4, <1>7 DEF Kids
<1>10. FreeIDs(T) = FreeIDs(S) /\ StacksOK(T)
  BY <1>5, SameStacks DEF ServerOK
<1>11. NamesOK(T)
  BY <1>5, <1>10 DEF ServerOK, NamesOK
<1>12. \A q, x \in Entities : Has(T, q, x) <=> Has(S, q, x) /\ x # e
  BY <1>5, <1>8, NoClash DEF Has
<1>13. LinksOK(T)
  <2>1. \A q \in Entities : IsInjective(T.children[q])
    BY <1>4, <1>7 DEF ServerOK, LinksOK
  <2>2. ASSUME NEW q \in Entities, NEW id \in IDs
        PROVE  id \in Kids(T, q) <=> \E x \in Entities : T.ID[x] = id /\ Has(T, q, x)
    <3>1. id \in Kids(S, q) <=> \E x \in Entities : S.ID[x] = id /\ Has(S, q, x)
      BY DEF ServerOK, LinksOK
    <3>2. \A x \in Entities : S.ID[x] = S.ID[e] => x = e
      BY <1>1, NoClash DEF ServerOK, NamesOK
    <3>3. Has(S, q, e) => q = p
      BY HasFacts
    <3> QED
      BY <1>5, <1>9, <1>12, <3>1, <3>2, <3>3
  <2>3. \A x \in Entities : T.ID_Parent[x] # NULL =>
          x \in Items /\ T.ID[x] # NULL /\ \E q \in Owners : T.ID[q] = T.ID_Parent[x]
    BY <1>5, <1>8 DEF ServerOK, LinksOK
  <2> QED
    BY <2>1, <2>2, <2>3 DEF LinksOK
<1>14. Together(T)
  BY <1>5, <1>12 DEF ServerOK, Together, On
<1> QED
  BY <1>5, <1>6, <1>9, <1>10, <1>11, <1>13, <1>14 DEF ServerOK, SameBut

LinkedTo(S, p, e) == [S EXCEPT !.ID_Parent[e] = S.ID[p], !.children[p] = Append(@, S.ID[e])]

\* A link is made at both of its ends.
LEMMA LinkedOK ==
    ASSUME NEW S, ServerOK(S), NEW p \in Owners, NEW e \in Items,
           S.ID[p] # NULL, S.ID[e] # NULL, S.ID_Parent[e] = NULL, On(S, p) <=> On(S, e),
           NEW T, T = LinkedTo(S, p, e)
    PROVE  /\ ServerOK(T)
           /\ T.ID_Parent = [S.ID_Parent EXCEPT ![e] = S.ID[p]]
           /\ \A q \in Entities : Kids(T, q) = IF q = p THEN Kids(S, p) \cup {S.ID[e]} ELSE Kids(S, q)
           /\ SameBut(S, T)
<1>1. p \in Entities /\ e \in Entities /\ p # e
  BY NoClash
<1>2. /\ S \in Servers /\ S.entities \in [IDs -> Entities \cup {NULL}]
      /\ S.ID \in [Entities -> IDs \cup {NULL}] /\ S.ID_Parent \in [Entities -> IDs \cup {NULL}]
      /\ S.children \in [Entities -> Seq(IDs)] /\ S.ID[p] \in IDs /\ S.ID[e] \in IDs
  BY <1>1, ServerTypes
<1>u. \A x, y \in Entities : S.ID[x] = S.ID[y] /\ S.ID[x] # NULL => x = y
  BY DEF ServerOK, NamesOK
<1>l. \A q \in Entities, id \in IDs :
          id \in Kids(S, q) <=> \E x \in Entities : S.ID[x] = id /\ Has(S, q, x)
  BY DEF ServerOK, LinksOK
<1> DEFINE r == Append(S.children[p], S.ID[e])
<1>t. T = [S EXCEPT !.ID_Parent[e] = S.ID[p], !.children[p] = r]
  BY DEF LinkedTo
<1>3. S.ID[e] \notin Kids(S, p)
  <2>1. SUFFICES ASSUME S.ID[e] \in Kids(S, p) PROVE FALSE
    OBVIOUS
  <2>2. PICK x \in Entities : S.ID[x] = S.ID[e] /\ Has(S, p, x)
    BY <1>1, <1>2, <1>l, <2>1
  <2>3. x = e
    BY <1>1, <1>u, <2>2
  <2> QED
    BY <2>2, <2>3 DEF Has
<1>4. r \in Seq(IDs) /\ Range(r) = Kids(S, p) \cup {S.ID[e]} /\ IsInjective(r)
  <2>1. PICK s \in Seq(IDs), i \in IDs : s = S.children[p] /\ i = S.ID[e] /\ i \notin Range(s)
    BY <1>1, <1>2, <1>3 DEF Kids
  <2>2. IsInjective(s)
    BY <1>1, <2>1 DEF ServerOK, LinksOK
  <2>3. /\ Append(s, i) \in Seq(IDs) /\ Range(Append(s, i)) = Range(s) \cup {i}
        /\ IsInjective(Append(s, i))
    BY <2>1, <2>2, DistinctAppend
  <2> QED
    BY <2>1, <2>3 DEF Kids
<1> HIDE DEF r
<1>5. /\ T.ID_Parent = [S.ID_Parent EXCEPT ![e] = S.ID[p]] /\ T.children = [S.children EXCEPT ![p] = r]
      /\ T.entities = S.entities /\ T.ID = S.ID /\ T.free = S.free /\ T.blocks = S.blocks
      /\ T.freed = S.freed /\ T.net = S.net /\ T.failed = S.failed
  BY <1>2, <1>t DEF Servers
<1>6. T \in Servers
  <2>1. PICK a \in [Entities -> IDs \cup {NULL}] : a = [S.ID_Parent EXCEPT ![e] = S.ID[p]]
    BY <1>1, <1>2
  <2>2. PICK c \in [Entities -> Seq(IDs)] : c = [S.children EXCEPT ![p] = r]
    BY <1>2, <1>4
  <2>3. T = [S EXCEPT !.ID_Parent = a, !.children = c]
    BY <2>1, <2>2, <1>t
  <2> QED
    BY <1>2, <2>3 DEF Servers
<1>7. \A q \in Entities : T.children[q] = IF q = p THEN r ELSE S.children[q]
  <2>1. PICK c \in [Entities -> Seq(IDs)] : c = S.children
    BY <1>2
  <2>2. PICK d : d = T.children
    OBVIOUS
  <2>3. d = [c EXCEPT ![p] = r]
    BY <1>5, <2>1, <2>2
  <2>4. \A q \in Entities : d[q] = IF q = p THEN r ELSE c[q]
    BY <2>3
  <2> QED
    BY <2>1, <2>2, <2>4
<1>8. \A x \in Entities : T.ID_Parent[x] = IF x = e THEN S.ID[p] ELSE S.ID_Parent[x]
  BY <1>2, <1>5
<1>9. \A q \in Entities : Kids(T, q) = IF q = p THEN Kids(S, p) \cup {S.ID[e]} ELSE Kids(S, q)
  <2>1. ASSUME NEW q \in Entities
        PROVE  Kids(T, q) = IF q = p THEN Kids(S, p) \cup {S.ID[e]} ELSE Kids(S, q)
    <3>1. Kids(T, q) = Range(T.children[q]) /\ Kids(S, q) = Range(S.children[q])
      BY DEF Kids
    <3>2. T.children[q] = IF q = p THEN r ELSE S.children[q]
      BY <1>7
    <3> QED
      BY <1>4, <3>1, <3>2
  <2> QED
    BY <2>1
<1>10. FreeIDs(T) = FreeIDs(S) /\ StacksOK(T)
  BY <1>5, SameStacks DEF ServerOK
<1>11. NamesOK(T)
  BY <1>5, <1>10 DEF ServerOK, NamesOK
<1>12. \A q, x \in Entities : Has(T, q, x) <=> Has(S, q, x) \/ (x = e /\ q = p)
  BY <1>1, <1>2, <1>5, <1>8, <1>u DEF Has
<1>13. LinksOK(T)
  <2>1. \A q \in Entities : IsInjective(T.children[q])
    BY <1>4, <1>7 DEF ServerOK, LinksOK
  <2>2. ASSUME NEW q \in Entities, NEW id \in IDs
        PROVE  id \in Kids(T, q) <=> \E x \in Entities : T.ID[x] = id /\ Has(T, q, x)
    BY <1>1, <1>5, <1>9, <1>12, <1>l
  <2>3. \A x \in Entities : T.ID_Parent[x] # NULL =>
          x \in Items /\ T.ID[x] # NULL /\ \E q \in Owners : T.ID[q] = T.ID_Parent[x]
    BY <1>5, <1>8 DEF ServerOK, LinksOK
  <2> QED
    BY <2>1, <2>2, <2>3 DEF LinksOK
<1>14. Together(T)
  BY <1>5, <1>12 DEF ServerOK, Together, On
<1> QED
  BY <1>5, <1>6, <1>9, <1>10, <1>11, <1>13, <1>14 DEF ServerOK, SameBut

\* An entity that has no parent and holds nothing gives its ID back.
LEMMA DestroyedOK ==
    ASSUME NEW S, ServerOK(S), NEW e \in Entities, S.ID[e] # NULL, S.ID_Parent[e] = NULL,
           Kids(S, e) = {}, NEW T, T = entity_Destroy(S, e)
    PROVE  LET i == S.ID[e]
           IN  /\ ServerOK(T) /\ i \in IDs
               /\ T.ID = [S.ID EXCEPT ![e] = NULL] /\ T.entities = [S.entities EXCEPT ![i] = NULL]
               /\ FreeIDs(T) = FreeIDs(S) \cup {i}
               /\ T.freed = S.freed \cup {Block(i)}
               /\ T.ID_Parent = S.ID_Parent /\ T.children = S.children
               /\ T.net = S.net /\ T.failed = S.failed
               /\ \A x \in Entities : x # e => (On(T, x) <=> On(S, x))
               /\ \A G : LateBlocks(S, G) => LateBlocks(T, G)
<1> DEFINE i == S.ID[e]
           R == [S EXCEPT !.entities[i] = NULL, !.ID[e] = NULL]
<1>1. T = vfFreeID(R, i)
  BY DEF entity_Destroy
<1>2. /\ S \in Servers /\ S.entities \in [IDs -> Entities \cup {NULL}]
      /\ S.ID \in [Entities -> IDs \cup {NULL}] /\ S.ID_Parent \in [Entities -> IDs \cup {NULL}]
      /\ S.children \in [Entities -> Seq(IDs)] /\ i \in IDs
  BY ServerTypes
<1>u. \A x, y \in Entities : S.ID[x] = S.ID[y] /\ S.ID[x] # NULL => x = y
  BY DEF ServerOK, NamesOK
<1> HIDE DEF i
<1>3. /\ R.entities = [S.entities EXCEPT ![i] = NULL] /\ R.ID = [S.ID EXCEPT ![e] = NULL]
      /\ R.ID_Parent = S.ID_Parent /\ R.children = S.children /\ R.free = S.free
      /\ R.blocks = S.blocks /\ R.freed = S.freed /\ R.net = S.net /\ R.failed = S.failed
      /\ R \in Servers
  BY <1>2 DEF Servers
<1> HIDE DEF R
<1>4. FreeIDs(R) = FreeIDs(S) /\ StacksOK(R)
  BY <1>3, SameStacks DEF ServerOK
<1>5. i \notin FreeIDs(R)
  BY <1>2, <1>4 DEF ServerOK, NamesOK, i
<1>6. /\ T \in Servers /\ StacksOK(T) /\ FreeIDs(T) = FreeIDs(R) \cup {i}
      /\ T.freed = R.freed \cup {Block(i)}
      /\ \A G : LateBlocks(R, G) => LateBlocks(T, G)
      /\ T.entities = R.entities /\ T.ID = R.ID /\ T.ID_Parent = R.ID_Parent
      /\ T.children = R.children /\ T.net = R.net /\ T.failed = R.failed
  BY <1>1, <1>2, <1>3, <1>4, <1>5, FreedFacts
<1>8. \A x \in Entities : T.ID[x] = IF x = e THEN NULL ELSE S.ID[x]
  BY <1>2, <1>3, <1>6
<1>9. \A id \in IDs : T.entities[id] = IF id = i THEN NULL ELSE S.entities[id]
  BY <1>2, <1>3, <1>6
<1>10. \A x \in Entities : x # e => (On(T, x) <=> On(S, x))
  <2>1. ASSUME NEW x \in Entities, x # e PROVE On(T, x) <=> On(S, x)
    <3>1. T.ID[x] = S.ID[x] /\ (S.ID[x] # NULL => S.ID[x] # i /\ S.ID[x] \in IDs)
      BY <1>2, <1>8, <1>u, <2>1 DEF i
    <3> QED
      BY <1>9, <3>1 DEF On
  <2> QED
    BY <2>1
<1>11. ~On(T, e)
  BY <1>8 DEF On
<1>12. NamesOK(T)
  <2>1. \A x, y \in Entities : T.ID[x] = T.ID[y] /\ T.ID[x] # NULL => x = y
    BY <1>8, <1>u
  <2>2. ASSUME NEW id \in IDs PROVE (\E x \in Entities : T.ID[x] = id) <=> id \notin FreeIDs(T)
    <3>1. (\E x \in Entities : S.ID[x] = id) <=> id \notin FreeIDs(S)
      BY DEF ServerOK, NamesOK
    <3>2. id # NULL
      BY NoClash
    <3>3. CASE id = i
      BY <1>6, <1>8, <1>u, <3>2, <3>3 DEF i
    <3>4. CASE id # i
      BY <1>4, <1>6, <1>8, <3>1, <3>2, <3>4 DEF i
    <3> QED
      BY <3>3, <3>4
  <2>3. ASSUME NEW id \in IDs, T.entities[id] # NULL PROVE T.ID[T.entities[id]] = id
    <3>1. id # i /\ T.entities[id] = S.entities[id] /\ S.entities[id] \in Entities
      BY <1>2, <1>9, <2>3
    <3>2. S.ID[S.entities[id]] = id
      BY <2>3, <3>1 DEF ServerOK, NamesOK
    <3> QED
      BY <1>8, <3>1, <3>2 DEF i
  <2> QED
    BY <2>1, <2>2, <2>3 DEF NamesOK
<1>13. \A x \in Entities : ~Has(S, e, x)
  <2>1. SUFFICES ASSUME NEW x \in Entities, Has(S, e, x) PROVE FALSE
    OBVIOUS
  <2>2. S.ID[x] \in Kids(S, e)
    BY <2>1, HasFacts
  <2> QED
    BY <2>2
<1>14. \A q, x \in Entities : Has(T, q, x) <=> Has(S, q, x)
  BY <1>3, <1>6, <1>8, <1>13 DEF Has
<1>15. \A q \in Entities : ~Has(S, q, e)
  BY DEF Has
<1>16. LinksOK(T)
  <2>1. \A q \in Entities : IsInjective(T.children[q])
    BY <1>3, <1>6 DEF ServerOK, LinksOK
  <2>2. ASSUME NEW q \in Entities, NEW id \in IDs
        PROVE  id \in Kids(T, q) <=> \E x \in Entities : T.ID[x] = id /\ Has(T, q, x)
    <3>1. id \in Kids(S, q) <=> \E x \in Entities : S.ID[x] = id /\ Has(S, q, x)
      BY DEF ServerOK, LinksOK
    <3>2. Kids(T, q) = Kids(S, q)
      BY <1>3, <1>6 DEF Kids
    <3> QED
      BY <1>8, <1>14, <1>15, <3>1, <3>2
  <2>3. ASSUME NEW x \in Entities, T.ID_Parent[x] # NULL
        PROVE  x \in Items /\ T.ID[x] # NULL /\ \E q \in Owners : T.ID[q] = T.ID_Parent[x]
    <3>1. S.ID_Parent[x] # NULL /\ x # e /\ T.ID_Parent[x] = S.ID_Parent[x]
      BY <1>3, <1>6, <2>3
    <3>2. PICK q \in Owners : S.ID[q] = S.ID_Parent[x]
      BY <3>1 DEF ServerOK, LinksOK
    <3>3. q # e /\ q \in Entities
      BY <1>13, <3>1, <3>2, NoClash DEF Has
    <3> QED
      BY <1>8, <3>1, <3>2, <3>3 DEF ServerOK, LinksOK
  <2> QED
    BY <2>1, <2>2, <2>3 DEF LinksOK
<1>17. Together(T)
  BY <1>10, <1>13, <1>14, <1>15 DEF ServerOK, Together
<1>18. \A G : LateBlocks(S, G) => LateBlocks(R, G)
  BY <1>3 DEF LateBlocks, Recent
<1> QED
  BY <1>1, <1>2, <1>3, <1>4, <1>6, <1>10, <1>12, <1>16, <1>17, <1>18 DEF ServerOK, i

\* An entity gets an ID: on the server, or offline.
Named(S, e, i, x) == [Taken(S, i) EXCEPT !.entities[i] = x, !.ID[e] = i]

\* An entity takes a name that nobody has.
LEMMA NamedOK ==
    ASSUME NEW S, ServerOK(S), NEW e \in Entities, S.ID[e] = NULL, NEW i \in FreeIDs(S),
           NEW x, x = e \/ x = NULL, NEW T, T = Named(S, e, i, x)
    PROVE  /\ ServerOK(T) /\ i \in IDs /\ S.entities[i] = NULL
           /\ T.ID = [S.ID EXCEPT ![e] = i] /\ T.entities = [S.entities EXCEPT ![i] = x]
           /\ FreeIDs(T) = FreeIDs(S) \ {i}
           /\ T.ID_Parent = S.ID_Parent /\ T.children = S.children /\ T.freed = S.freed
           /\ T.net = S.net /\ T.failed = S.failed /\ T.blocks = S.blocks
           /\ S.ID_Parent[e] = NULL /\ Kids(S, e) = {}
           /\ \A y \in Entities : y # e => (On(T, y) <=> On(S, y))
           /\ On(T, e) <=> x = e
<1> DEFINE R == Taken(S, i)
<1>t. T = [R EXCEPT !.entities[i] = x, !.ID[e] = i]
  BY DEF Named
<1>1. /\ S \in Servers /\ S.entities \in [IDs -> Entities \cup {NULL}]
      /\ S.ID \in [Entities -> IDs \cup {NULL}] /\ S.ID_Parent \in [Entities -> IDs \cup {NULL}]
      /\ S.children \in [Entities -> Seq(IDs)] /\ i \in IDs
  BY ServerTypes DEF FreeIDs
<1>2. /\ R \in Servers /\ StacksOK(R) /\ FreeIDs(R) = FreeIDs(S) \ {i}
      /\ R.entities = S.entities /\ R.ID = S.ID /\ R.ID_Parent = S.ID_Parent
      /\ R.children = S.children /\ R.net = S.net /\ R.failed = S.failed
      /\ R.blocks = S.blocks /\ R.freed = S.freed
  BY <1>1, TakenFacts DEF ServerOK
<1> HIDE DEF R
<1>4. /\ T.entities = [S.entities EXCEPT ![i] = x] /\ T.ID = [S.ID EXCEPT ![e] = i]
      /\ T.ID_Parent = S.ID_Parent /\ T.children = S.children /\ T.net = S.net
      /\ T.failed = S.failed /\ T.blocks = S.blocks /\ T.freed = S.freed /\ T.free = R.free
  BY <1>t, <1>2 DEF Servers
<1>5. T \in Servers
  <2>1. T.entities \in [IDs -> Entities \cup {NULL}]
    <3>1. x \in Entities \cup {NULL}
      OBVIOUS
    <3>2. [S.entities EXCEPT ![i] = x] \in [IDs -> Entities \cup {NULL}]
      BY <1>1, <3>1
    <3> QED
      BY <1>4, <3>2
  <2>2. T.ID \in [Entities -> IDs \cup {NULL}]
    <3>1. [S.ID EXCEPT ![e] = i] \in [Entities -> IDs \cup {NULL}]
      BY <1>1
    <3> QED
      BY <1>4, <3>1
  <2> QED
    BY <1>t, <1>2, <2>1, <2>2 DEF Servers
<1>6. StacksOK(T) /\ FreeIDs(T) = FreeIDs(S) \ {i}
  BY <1>2, <1>4, SameStacks
<1>u. \A y, z \in Entities : S.ID[y] = S.ID[z] /\ S.ID[y] # NULL => y = z
  BY DEF ServerOK, NamesOK
<1>7. \A y \in Entities : S.ID[y] # i
  BY <1>1 DEF ServerOK, NamesOK
<1>8. S.entities[i] = NULL
  BY <1>1, <1>7 DEF ServerOK, NamesOK
<1>9. \A y \in Entities : T.ID[y] = IF y = e THEN i ELSE S.ID[y]
  BY <1>1, <1>4
<1>10. \A id \in IDs : T.entities[id] = IF id = i THEN x ELSE S.entities[id]
  BY <1>1, <1>4
<1>11. \A y \in Entities : y # e => (On(T, y) <=> On(S, y))
  <2>1. ASSUME NEW y \in Entities, y # e PROVE On(T, y) <=> On(S, y)
    <3>1. T.ID[y] = S.ID[y] /\ S.ID[y] # i /\ (S.ID[y] # NULL => S.ID[y] \in IDs)
      BY <1>1, <1>7, <1>9, <2>1
    <3> QED
      BY <1>10, <3>1 DEF On
  <2> QED
    BY <2>1
<1>12. On(T, e) <=> x = e
  BY <1>1, <1>9, <1>10, NoClash DEF On
<1>13. NamesOK(T)
  <2>1. \A y, z \in Entities : T.ID[y] = T.ID[z] /\ T.ID[y] # NULL => y = z
    BY <1>7, <1>9, <1>u
  <2>2. ASSUME NEW id \in IDs PROVE (\E y \in Entities : T.ID[y] = id) <=> id \notin FreeIDs(T)
    <3>1. (\E y \in Entities : S.ID[y] = id) <=> id \notin FreeIDs(S)
      BY DEF ServerOK, NamesOK
    <3>2. id # NULL
      BY NoClash
    <3> QED
      BY <1>6, <1>9, <3>1, <3>2
  <2>3. ASSUME NEW id \in IDs, T.entities[id] # NULL PROVE T.ID[T.entities[id]] = id
    <3>1. CASE id = i
      BY <1>9, <1>10, <2>3, <3>1
    <3>2. CASE id # i
      <4>1. T.entities[id] = S.entities[id] /\ S.entities[id] \in Entities
        BY <1>1, <1>10, <2>3, <3>2
      <4>2. S.ID[S.entities[id]] = id
        BY <2>3, <4>1 DEF ServerOK, NamesOK
      <4> QED
        BY <1>9, <4>1, <4>2, NoClash
    <3> QED
      BY <3>1, <3>2
  <2> QED
    BY <2>1, <2>2, <2>3 DEF NamesOK
<1>14. S.ID_Parent[e] = NULL /\ \A y \in Entities : ~Has(S, e, y) /\ S.ID_Parent[y] # i
  <2>1. S.ID_Parent[e] = NULL
    BY DEF ServerOK, LinksOK
  <2>2. ASSUME NEW y \in Entities, S.ID_Parent[y] = i PROVE FALSE
    <3>1. \E q \in Owners : S.ID[q] = i
      BY <1>1, <2>2, NoClash DEF ServerOK, LinksOK
    <3> QED
      BY <1>7, <3>1, NoClash
  <2> QED
    BY <2>1, <2>2 DEF Has
<1>15. Kids(S, e) = {}
  <2>1. SUFFICES ASSUME NEW id \in Kids(S, e) PROVE FALSE
    OBVIOUS
  <2>2. PICK s \in Seq(IDs) : s = S.children[e]
    BY <1>1
  <2>3. id \in IDs
    <3>1. id \in Range(s)
      BY <2>1, <2>2 DEF Kids
    <3> QED
      BY <3>1 DEF Range
  <2> QED
    BY <1>14, <2>1, <2>3 DEF ServerOK, LinksOK
<1>16. \A q, y \in Entities : Has(T, q, y) <=> Has(S, q, y)
  BY <1>4, <1>9, <1>14 DEF Has
<1>17. LinksOK(T)
  <2>1. \A q \in Entities : IsInjective(T.children[q])
    BY <1>4 DEF ServerOK, LinksOK
  <2>2. ASSUME NEW q \in Entities, NEW id \in IDs
        PROVE  id \in Kids(T, q) <=> \E y \in Entities : T.ID[y] = id /\ Has(T, q, y)
    <3>1. id \in Kids(S, q) <=> \E y \in Entities : S.ID[y] = id /\ Has(S, q, y)
      BY DEF ServerOK, LinksOK
    <3>2. Kids(T, q) = Kids(S, q)
      BY <1>4 DEF Kids
    <3>3. \A r \in Entities : ~Has(S, r, e)
      BY <1>14 DEF Has
    <3> QED
      BY <1>9, <1>16, <3>1, <3>2, <3>3
  <2>3. ASSUME NEW y \in Entities, T.ID_Parent[y] # NULL
        PROVE  y \in Items /\ T.ID[y] # NULL /\ \E q \in Owners : T.ID[q] = T.ID_Parent[y]
    <3>1. S.ID_Parent[y] # NULL /\ y # e /\ T.ID_Parent[y] = S.ID_Parent[y]
      BY <1>4, <1>14, <2>3
    <3>2. PICK q \in Owners : S.ID[q] = S.ID_Parent[y]
      BY <3>1 DEF ServerOK, LinksOK
    <3>3. q # e /\ q \in Entities
      BY <3>1, <3>2, NoClash
    <3> QED
      BY <1>9, <3>1, <3>2, <3>3 DEF ServerOK, LinksOK
  <2> QED
    BY <2>1, <2>2, <2>3 DEF LinksOK
<1>18. Together(T)
  BY <1>11, <1>14, <1>16 DEF ServerOK, Together, Has
<1> QED
  BY <1>1, <1>4, <1>5, <1>6, <1>8, <1>11, <1>12, <1>13, <1>14, <1>15, <1>17, <1>18 DEF ServerOK

-----------------------------------------------------------------------------
(* What a step of the server does to the view and to the log.              *)

\* The tree while owners come online before their items.
TreeOK(S) == /\ S \in Servers /\ StacksOK(S) /\ NamesOK(S) /\ LinksOK(S)
             /\ \A e, p \in Entities : Has(S, p, e) /\ On(S, e) => On(S, p)

LEMMA ServerTree1 ==
    ASSUME NEW S, ServerOK(S)
    PROVE  TreeOK(S)
  BY DEF ServerOK, TreeOK, Together

LEMMA ViewPlaces ==
    ASSUME NEW S, TreeOK(S), NEW e \in Entities
    PROVE  /\ ~On(S, e) => TreeView(S).at[e] = Absent /\ TreeView(S).id[e] = NULL
           /\ On(S, e) => TreeView(S).at[e] # Absent /\ TreeView(S).id[e] = S.ID[e] /\ S.ID[e] \in IDs
           /\ On(S, e) /\ S.ID_Parent[e] = NULL => TreeView(S).at[e] = NULL
           /\ \A p \in Entities : On(S, e) /\ Has(S, p, e) =>
                 TreeView(S).at[e] = p /\ TreeView(S).id[p] = S.ID_Parent[e] /\ p \in Owners /\ e \in Items
           /\ \A p \in Owners : TreeView(S).at[e] = p => On(S, e) /\ Has(S, p, e)
           /\ TreeView(S).at[e] \in Owners \cup {NULL, Absent}
<1>1. S.entities \in [IDs -> Entities \cup {NULL}] /\ S.ID \in [Entities -> IDs \cup {NULL}]
      /\ S.ID_Parent \in [Entities -> IDs \cup {NULL}]
  BY DEF TreeOK, Servers
<1>2. TreeView(S).at[e] = IF ~On(S, e) THEN Absent
                          ELSE IF S.ID_Parent[e] = NULL THEN NULL ELSE S.entities[S.ID_Parent[e]]
  BY DEF TreeView
<1>3. \A x \in Entities : TreeView(S).id[x] = IF On(S, x) THEN S.ID[x] ELSE NULL
  BY DEF TreeView
<1>4. ASSUME On(S, e), S.ID_Parent[e] # NULL
      PROVE  \E p \in Owners : /\ Has(S, p, e) /\ S.entities[S.ID_Parent[e]] = p /\ e \in Items
                               /\ On(S, p) /\ \A q \in Entities : Has(S, q, e) => q = p
  <2>1. PICK p \in Owners : S.ID[p] = S.ID_Parent[e] /\ p \in Entities /\ e \in Items
    BY <1>4, NoClash DEF TreeOK, LinksOK
  <2>2. Has(S, p, e)
    BY <1>4, <2>1 DEF Has
  <2>3. On(S, p)
    BY <1>4, <2>1, <2>2 DEF TreeOK
  <2>4. \A q \in Entities : Has(S, q, e) => q = p
    BY <2>1 DEF TreeOK, NamesOK, Has
  <2> QED
    BY <2>1, <2>2, <2>3, <2>4 DEF On
<1>5. \A p \in Entities : Has(S, p, e) => S.ID_Parent[e] # NULL /\ S.ID[p] = S.ID_Parent[e]
  BY DEF Has
<1>6. On(S, e) => S.ID[e] \in IDs
  BY <1>1 DEF On
<1>7. \A p \in Owners : p # NULL /\ p # Absent
  BY NoClash
<1>8. On(S, e) => TreeView(S).at[e] # Absent
  BY <1>2, <1>4, <1>7, NoClash
<1>9. ASSUME NEW p \in Entities, On(S, e), Has(S, p, e)
      PROVE  TreeView(S).at[e] = p /\ TreeView(S).id[p] = S.ID_Parent[e] /\ p \in Owners /\ e \in Items
  BY <1>2, <1>3, <1>4, <1>5, <1>9
<1>10. ASSUME NEW p \in Owners, TreeView(S).at[e] = p PROVE On(S, e) /\ Has(S, p, e)
  BY <1>2, <1>4, <1>7, <1>10
<1>11. TreeView(S).at[e] \in Owners \cup {NULL, Absent}
  BY <1>2, <1>4
<1> QED
  BY <1>2, <1>3, <1>6, <1>8, <1>9, <1>10, <1>11

LEMMA ViewTyped ==
    ASSUME NEW S, TreeOK(S)
    PROVE  TreeView(S) \in Views
<1>1. \A e \in Entities : TreeView(S).at[e] \in Owners \cup {NULL, Absent}
  BY ViewPlaces
<1>2. S.ID \in [Entities -> IDs \cup {NULL}]
  BY DEF TreeOK, Servers
<1> DEFINE at == [e \in Entities |-> IF ~On(S, e) THEN Absent
                                ELSE IF S.ID_Parent[e] = NULL THEN NULL
                                ELSE S.entities[S.ID_Parent[e]]]
           id == [e \in Entities |-> IF On(S, e) THEN S.ID[e] ELSE NULL]
<1>3. TreeView(S) = [at |-> at, id |-> id]
  BY DEF TreeView
<1>4. id \in [Entities -> IDs \cup {NULL}]
  BY <1>2
<1>5. at = [e \in Entities |-> at[e]]
  OBVIOUS
<1> HIDE DEF at, id
<1>6. at \in [Entities -> Owners \cup {NULL, Absent}]
  BY <1>1, <1>3, <1>5
<1> QED
  BY <1>3, <1>4, <1>6 DEF Views

LEMMA ViewEqual ==
    ASSUME NEW V \in Views, NEW W \in Views,
           \A e \in Entities : V.at[e] = W.at[e] /\ V.id[e] = W.id[e]
    PROVE  V = W
<1>1. V.at = W.at /\ V.id = W.id
  BY DEF Views
<1> QED
  BY <1>1 DEF Views

\* x is where it was.
Stays(S, T, x) == /\ On(T, x) <=> On(S, x)
                  /\ On(S, x) => T.ID[x] = S.ID[x]
                  /\ S.ID_Parent[x] = NULL => T.ID_Parent[x] = NULL
                  /\ \A p \in Entities : Has(S, p, x) => Has(T, p, x)

LEMMA StaysView ==
    ASSUME NEW S, NEW T, TreeOK(S), TreeOK(T), NEW x \in Entities, Stays(S, T, x)
    PROVE  TreeView(T).at[x] = TreeView(S).at[x] /\ TreeView(T).id[x] = TreeView(S).id[x]
<1>1. CASE ~On(S, x)
  BY <1>1, ViewPlaces DEF Stays
<1>2. CASE On(S, x) /\ S.ID_Parent[x] = NULL
  BY <1>2, ViewPlaces DEF Stays
<1>3. CASE On(S, x) /\ S.ID_Parent[x] # NULL
  <2>1. \E p \in Owners : Has(S, p, x) /\ p \in Entities
    BY <1>3, NoClash DEF TreeOK, LinksOK, Has
  <2>2. PICK p \in Entities : Has(S, p, x) /\ Has(T, p, x)
    BY <2>1 DEF Stays
  <2>3. On(T, x) /\ T.ID[x] = S.ID[x]
    BY <1>3 DEF Stays
  <2> QED
    BY <1>3, <2>2, <2>3, ViewPlaces
<1> QED
  BY <1>1, <1>2, <1>3

LEMMA ViewSame ==
    ASSUME NEW S, NEW T, TreeOK(S), TreeOK(T), \A x \in Entities : Stays(S, T, x)
    PROVE  TreeView(T) = TreeView(S)
<1>1. \A x \in Entities : TreeView(T).at[x] = TreeView(S).at[x] /\ TreeView(T).id[x] = TreeView(S).id[x]
  BY StaysView
<1> QED
  BY <1>1, ViewTyped, ViewEqual

LEMMA ViewAfter ==
    ASSUME NEW S, NEW T, TreeOK(S), TreeOK(T), NEW m \in Messages,
           \A x \in Entities : x # m.e => Stays(S, T, x),
           TreeView(T).at[m.e] = ChangeOf(m).to,
           TreeView(T).id[m.e] = IF m.type = "DESTROY" THEN NULL ELSE m.id
    PROVE  TreeView(T) = After(TreeView(S), m)
<1> DEFINE V == TreeView(T)
           U == TreeView(S)
<1>1. V \in Views /\ U \in Views
  BY ViewTyped
<1>2. \A x \in Entities : x # m.e => V.at[x] = U.at[x] /\ V.id[x] = U.id[x]
  BY StaysView
<1>3. V.at[m.e] = ChangeOf(m).to /\ V.id[m.e] = IF m.type = "DESTROY" THEN NULL ELSE m.id
  OBVIOUS
<1> HIDE DEF V, U
<1>4. /\ After(U, m) \in Views
      /\ \A e \in Entities : /\ After(U, m).at[e] = IF e = m.e THEN ChangeOf(m).to ELSE U.at[e]
                             /\ After(U, m).id[e] = IF e # m.e THEN U.id[e]
                                                    ELSE IF m.type = "DESTROY" THEN NULL ELSE m.id
  BY <1>1, AfterPlaces
<1>5. \A e \in Entities : V.at[e] = After(U, m).at[e] /\ V.id[e] = After(U, m).id[e]
  BY <1>2, <1>3, <1>4
<1>6. V = After(U, m)
  BY <1>1, <1>4, <1>5, ViewEqual
<1> QED
  BY <1>6 DEF V, U

LEMMA LogTypes ==
    ASSUME NEW S \in Servers, NEW G \in Envs
    PROVE  Log(S, G) \in Seq(Messages) /\ G.events \in Seq(Messages) /\ S.net \in Seq(Messages)
<1>1. G.events \in Seq(Messages) /\ S.net \in Seq(Messages)
  BY DEF Servers, Envs
<1> QED
  BY <1>1 DEF Log

\* One more message.
LEMMA LogStep ==
    ASSUME NEW S \in Servers, NEW T, NEW G \in Envs, NEW m \in Messages, T.net = Append(S.net, m)
    PROVE  /\ Log(T, G) = Append(Log(S, G), m)
           /\ \A e \in Entities, i \in IDs :
                 Leaves(T, G, e, i) <=> Leaves(S, G, e, i) \/ (e = m.e /\ i = m.id)
           /\ \A e \in Entities : About(T, G, e) <=> About(S, G, e) \/ e = m.e
<1>1. PICK L \in Seq(Messages) : L = Log(S, G)
  BY LogTypes
<1>2. G.events \in Seq(Messages) /\ S.net \in Seq(Messages)
  BY LogTypes
<1>3. Log(T, G) = Append(L, m)
  <2>1. PICK a \in Seq(Messages), b \in Seq(Messages) : a = G.events /\ b = S.net
    BY <1>2
  <2>2. a \o Append(b, m) = Append(a \o b, m)
    BY ConcatAppend
  <2> QED
    BY <1>1, <2>1, <2>2 DEF Log
<1> DEFINE n == Len(L)
           u == Append(L, m)
<1>4. /\ Len(u) = n + 1 /\ n \in Nat /\ u[n + 1] = m /\ n + 1 \in 1 .. n + 1
      /\ \A k \in 1 .. n : u[k] = L[k] /\ k \in 1 .. n + 1
      /\ \A k \in 1 .. n + 1 : k \in 1 .. n \/ k = n + 1
  BY AppendPlaces
<1> HIDE DEF n, u
<1>5. ASSUME NEW e, NEW i PROVE Leaves(T, G, e, i) <=> Leaves(S, G, e, i) \/ (e = m.e /\ i = m.id)
  <2>1. (\E k \in 1 .. n + 1 : u[k].e = e /\ u[k].id = i)
            <=> (\E k \in 1 .. n : L[k].e = e /\ L[k].id = i) \/ (e = m.e /\ i = m.id)
    BY <1>4
  <2> QED
    BY <1>1, <1>3, <1>4, <2>1 DEF Leaves, n, u
<1>6. ASSUME NEW e PROVE About(T, G, e) <=> About(S, G, e) \/ e = m.e
  <2>1. (\E k \in 1 .. n + 1 : u[k].e = e) <=> (\E k \in 1 .. n : L[k].e = e) \/ e = m.e
    BY <1>4
  <2> QED
    BY <1>1, <1>3, <1>4, <2>1 DEF About, n, u
<1> QED
  BY <1>1, <1>3, <1>5, <1>6

LEMMA LogSame ==
    ASSUME NEW S, NEW T, NEW G, T.net = S.net
    PROVE  /\ Log(T, G) = Log(S, G)
           /\ \A e, i : Leaves(T, G, e, i) <=> Leaves(S, G, e, i)
           /\ \A e : About(T, G, e) <=> About(S, G, e)
<1>1. Log(T, G) = Log(S, G)
  BY DEF Log
<1> QED
  BY <1>1 DEF Leaves, About

\* IDs are given back with their block marked, and only fresh ones or an entity's own are given.
Renamed(S, T, G) ==
    /\ S.freed \subseteq T.freed
    /\ \A x \in Entities, i \in IDs : S.ID[x] = i /\ T.ID[x] # i =>
          Block(i) \in T.freed /\ \A y \in Entities : T.ID[y] # i
    /\ \A x, y \in Entities, i \in IDs : T.ID[x] = i /\ S.ID[x] # i /\ Leaves(S, G, y, i) => y = x

\* Nothing goes offline but by an entity that the simulator meets in this frame.
StillOff(S, T, G) ==
    G.phase = "update" =>
        \A e, r \in Entities : T.ID[e] # NULL /\ ~On(T, e) /\ Switcher(T, e, r) /\ r \notin G.switched =>
            S.ID[e] # NULL /\ ~On(S, e) /\ \E q \in Entities : Switcher(S, e, q) /\ q \notin G.switched

\* A step that says nothing to the client and shows it nothing new.
LEMMA QuietSide ==
    ASSUME NEW S, NEW T, NEW G \in Envs, NEW W, Side(S, G, W),
           T.net = S.net, TreeView(T) = TreeView(S), Renamed(S, T, G), StillOff(S, T, G),
           LateBlocks(T, G), G.phase = "events" => T.freed = {}
    PROVE  Side(T, G, W)
<1>1. /\ Log(T, G) = Log(S, G)
      /\ \A e, i : Leaves(T, G, e, i) <=> Leaves(S, G, e, i)
      /\ \A e : About(T, G, e) <=> About(S, G, e)
  BY LogSame
<1>2. Reaches(W, Log(T, G), TreeView(T))
  BY <1>1 DEF Side
<1>3. Traces(T, G)
  <2>1. SUFFICES ASSUME NEW e \in Entities, NEW i \in IDs, Leaves(S, G, e, i), T.ID[e] # i
                 PROVE  Block(i) \in Recent(T, G) /\ \A x \in Entities : T.ID[x] # i
    BY <1>1 DEF Traces
  <2>2. CASE S.ID[e] = i
    BY <2>1, <2>2 DEF Renamed, Recent
  <2>3. CASE S.ID[e] # i
    <3>1. Block(i) \in Recent(S, G) /\ \A x \in Entities : S.ID[x] # i
      BY <2>1, <2>3 DEF Side, Traces
    <3>2. Block(i) \in Recent(T, G)
      BY <3>1 DEF Renamed, Recent
    <3>3. \A x \in Entities : T.ID[x] = i => x = e
      BY <2>1, <3>1 DEF Renamed
    <3> QED
      BY <2>1, <3>2, <3>3
  <2> QED
    BY <2>2, <2>3
<1>4. OneTrace(T, G)
  BY <1>1 DEF Side, OneTrace
<1>5. SpawnsFresh(T, G)
  BY <1>1 DEF Side, SpawnsFresh
<1>6. OffGone(T, G)
  BY <1>1 DEF Side, OffGone, StillOff
<1>7. PhaseOK(T, G)
  BY DEF Side, PhaseOK
<1> QED
  BY <1>2, <1>3, <1>4, <1>5, <1>6, <1>7 DEF Side

\* A step that tells the client what it has done to the tree.
LEMMA TellSide ==
    ASSUME NEW S, NEW T, TreeOK(S), NEW G \in Envs, NEW W, Side(S, G, W), NEW m \in Messages,
           T.net = Append(S.net, m), Allowed(TreeView(S), m), TreeView(T) = After(TreeView(S), m),
           Renamed(S, T, G), StillOff(S, T, G), LateBlocks(T, G),
           S.ID[m.e] = m.id \/ T.ID[m.e] = m.id, T.ID[m.e] = NULL \/ On(T, m.e),
           m.type = "SPAWN" => G.object[m.e] = "none" /\ ~About(S, G, m.e),
           G.phase = "events" => m.type = "REJECT" /\ T.freed = {}
    PROVE  Side(T, G, W)
<1>0. S \in Servers /\ m.e \in Entities /\ m.id \in IDs
  BY DEF TreeOK, Messages
<1>1. /\ Log(T, G) = Append(Log(S, G), m)
      /\ \A e \in Entities, i \in IDs :
            Leaves(T, G, e, i) <=> Leaves(S, G, e, i) \/ (e = m.e /\ i = m.id)
      /\ \A e \in Entities : About(T, G, e) <=> About(S, G, e) \/ e = m.e
  BY <1>0, LogStep
<1>l. Log(S, G) \in Seq(Messages) /\ S.net \in Seq(Messages)
  BY <1>0, LogTypes
<1>2. Reaches(W, Log(T, G), TreeView(T))
  BY <1>1, <1>l, ReachesAppend DEF Side
<1>m. S.ID[m.e] # m.id => T.ID[m.e] = m.id
  OBVIOUS
<1>3. Traces(T, G)
  <2>1. SUFFICES ASSUME NEW e \in Entities, NEW i \in IDs, Leaves(T, G, e, i), T.ID[e] # i
                 PROVE  Block(i) \in Recent(T, G) /\ \A x \in Entities : T.ID[x] # i
    BY DEF Traces
  <2>2. CASE S.ID[e] = i
    BY <2>1, <2>2 DEF Renamed, Recent
  <2>3. CASE S.ID[e] # i
    <3>0. Leaves(S, G, e, i)
      BY <1>0, <1>1, <1>m, <2>1, <2>3
    <3>1. Block(i) \in Recent(S, G) /\ \A x \in Entities : S.ID[x] # i
      BY <3>0, <2>3 DEF Side, Traces
    <3>2. Block(i) \in Recent(T, G)
      BY <3>1 DEF Renamed, Recent
    <3>3. \A x \in Entities : T.ID[x] = i => x = e
      BY <3>0, <3>1 DEF Renamed
    <3> QED
      BY <2>1, <3>2, <3>3
  <2> QED
    BY <2>2, <2>3
<1>4. OneTrace(T, G)
  <2>1. ASSUME NEW x \in Entities, Leaves(S, G, x, m.id) PROVE x = m.e
    <3>1. CASE S.ID[m.e] = m.id
      <4>1. S.ID[x] = m.id
        BY <1>0, <2>1, <3>1 DEF Side, Traces
      <4> QED
        BY <1>0, <3>1, <4>1, NoClash DEF TreeOK, NamesOK
    <3>2. CASE S.ID[m.e] # m.id
      BY <1>0, <1>m, <2>1, <3>2 DEF Renamed
    <3> QED
      BY <3>1, <3>2
  <2> QED
    BY <1>0, <1>1, <2>1 DEF Side, OneTrace
<1>5. SpawnsFresh(T, G)
  <2> DEFINE L == Log(S, G)
             n == Len(L)
  <2>1. /\ Len(Append(L, m)) = n + 1 /\ n \in Nat /\ Append(L, m)[n + 1] = m
        /\ \A k \in 1 .. n : Append(L, m)[k] = L[k]
        /\ \A k \in 1 .. n + 1 : k \in 1 .. n \/ k = n + 1
    BY <1>l, AppendPlaces
  <2>2. Log(T, G) = Append(L, m)
    BY <1>1
  <2>3. ASSUME NEW k \in 1 .. n + 1, Append(L, m)[k].type = "SPAWN"
        PROVE  /\ G.object[Append(L, m)[k].e] = "none"
               /\ \A j \in 1 .. k - 1 : Append(L, m)[j].e # Append(L, m)[k].e
    <3>1. CASE k \in 1 .. n
      <4>1. \A j \in 1 .. k - 1 : j \in 1 .. n
        BY <2>1, <3>1
      <4>2. L[k].type = "SPAWN" => G.object[L[k].e] = "none" /\ \A j \in 1 .. k - 1 : L[j].e # L[k].e
        BY <3>1 DEF Side, SpawnsFresh
      <4> HIDE DEF L, n
      <4> QED
        BY <2>1, <2>3, <3>1, <4>1, <4>2
    <3>2. CASE k = n + 1
      <4>1. m.type = "SPAWN" /\ Append(L, m)[k] = m
        BY <2>1, <2>3, <3>2
      <4>2. \A j \in 1 .. n : L[j].e # m.e
        BY <4>1 DEF About
      <4>3. \A j \in 1 .. k - 1 : j \in 1 .. n
        BY <2>1, <3>2
      <4> HIDE DEF L, n
      <4> QED
        BY <2>1, <4>1, <4>2, <4>3
    <3> QED
      BY <2>1, <3>1, <3>2
  <2> HIDE DEF L, n
  <2> QED
    BY <2>1, <2>2, <2>3 DEF SpawnsFresh
<1>6. OffGone(T, G)
  BY <1>0, <1>1 DEF Side, OffGone, StillOff
<1>7. PhaseOK(T, G)
  <2>1. \A k \in 1 .. Len(T.net) : T.net[k] = m \/ \E j \in 1 .. Len(S.net) : T.net[k] = S.net[j]
    <3>1. /\ Len(T.net) = Len(S.net) + 1 /\ T.net[Len(S.net) + 1] = m
          /\ \A k \in 1 .. Len(S.net) : T.net[k] = S.net[k]
          /\ \A k \in 1 .. Len(S.net) + 1 : k \in 1 .. Len(S.net) \/ k = Len(S.net) + 1
      BY <1>l, AppendPlaces
    <3> QED
      BY <3>1
  <2> QED
    BY <2>1 DEF Side, PhaseOK
<1> QED
  BY <1>2, <1>3, <1>4, <1>5, <1>6, <1>7 DEF Side

-----------------------------------------------------------------------------
(* The server's handlers keep the tree, the views and the traces.          *)

Good(S, G, W) == ServerOK(S) /\ Side(S, G, W)

\* T is S with one more message.
Told(S, T, m) ==
    /\ T \in Servers /\ T.net = Append(S.net, m)
    /\ T.entities = S.entities /\ T.ID = S.ID /\ T.ID_Parent = S.ID_Parent
    /\ T.children = S.children /\ T.free = S.free /\ T.blocks = S.blocks
    /\ T.freed = S.freed /\ T.failed = S.failed

LEMMA ToldLog ==
    ASSUME NEW S \in Servers, NEW G \in Envs, NEW R, R.net = S.net, NEW T, NEW m \in Messages,
           Told(R, T, m)
    PROVE  /\ \A e \in Entities, i \in IDs :
                 Leaves(T, G, e, i) <=> Leaves(S, G, e, i) \/ (e = m.e /\ i = m.id)
           /\ \A e \in Entities : About(T, G, e) <=> About(S, G, e) \/ e = m.e
<1>1. T.net = Append(S.net, m)
  BY DEF Told
<1> QED
  BY SMTT(30), <1>1, LogStep

Says(m, type, parent, id, e, p) ==
    m.type = type /\ m.parent = parent /\ m.id = id /\ m.e = e /\ m.p = p

\* Tell sends one message about the entity that the ID names.
LEMMA TellFacts ==
    ASSUME NEW S \in Servers, NEW type \in {"SPAWN", "TAKE", "REJECT", "DESTROY"},
           NEW id \in IDs, NEW e \in Entities, S.entities[id] = e,
           NEW parent, NEW p,
           \/ parent = NULL /\ p = NULL
           \/ parent \in IDs /\ p \in Owners /\ S.entities[parent] = p,
           NEW T, T = Tell(S, type, parent, id)
    PROVE  \E m \in Messages : Says(m, type, parent, id, e, p) /\ Told(S, T, m)
<1> DEFINE m == [type |-> type, parent |-> parent, id |-> id, e |-> S.entities[id],
                 p |-> IF parent = NULL THEN NULL ELSE S.entities[parent]]
<1>1. m.type = type /\ m.parent = parent /\ m.id = id /\ m.e = e /\ m.p = p
  BY NoClash
<1>2. m \in Messages
  BY <1>1 DEF Messages
<1>3. T = [S EXCEPT !.net = Append(S.net, m)]
  BY DEF Tell
<1> HIDE DEF m
<1>4. S.net \in Seq(Messages)
  BY DEF Servers
<1>5. PICK n \in Seq(Messages) : n = Append(S.net, m)
  BY <1>2, <1>4, AppendPlaces
<1>6. T = [S EXCEPT !.net = n]
  BY <1>3, <1>5
<1>7. Told(S, T, m)
  BY <1>5, <1>6 DEF Told, Servers
<1> QED
  BY <1>1, <1>2, <1>7 DEF Says

\* The tree is in four fields, the stacks in two.
LEMMA SameTree ==
    ASSUME NEW S, NEW T \in Servers, T.entities = S.entities, T.ID = S.ID,
           T.ID_Parent = S.ID_Parent, T.children = S.children, T.free = S.free, T.blocks = S.blocks
    PROVE  /\ ServerOK(S) => ServerOK(T)
           /\ TreeOK(S) => TreeOK(T)
           /\ TreeView(T) = TreeView(S)
           /\ \A p \in Entities : Kids(T, p) = Kids(S, p)
           /\ \A e \in Entities : On(T, e) <=> On(S, e)
<1>1. FreeIDs(T) = FreeIDs(S) /\ (StacksOK(S) => StacksOK(T))
  BY SameStacks
<1>2. \A e \in Entities : On(T, e) <=> On(S, e)
  BY DEF On
<1>3. \A e, p \in Entities : Has(T, p, e) <=> Has(S, p, e)
  BY DEF Has
<1>4. \A p \in Entities : Kids(T, p) = Kids(S, p)
  BY DEF Kids
<1>5. NamesOK(S) => NamesOK(T)
  BY <1>1 DEF NamesOK
<1>6. LinksOK(S) => LinksOK(T)
  BY <1>3, <1>4 DEF LinksOK
<1>7. Together(S) => Together(T)
  BY <1>2, <1>3 DEF Together
<1>8. TreeView(T) = TreeView(S)
  BY DEF TreeView, On
<1> QED
  BY <1>1, <1>2, <1>3, <1>4, <1>5, <1>6, <1>7, <1>8 DEF ServerOK, TreeOK

\* An entity that is online has its ID there.
LEMMA OnlineByID ==
    ASSUME NEW S, ServerOK(S), NEW id \in IDs, S.entities[id] # NULL
    PROVE  S.entities[id] \in Entities /\ S.ID[S.entities[id]] = id /\ On(S, S.entities[id])
<1>1. S.entities[id] \in Entities
  BY ServerTypes
<1>2. S.ID[S.entities[id]] = id /\ id # NULL
  BY NoClash DEF ServerOK, NamesOK
<1> QED
  BY <1>1, <1>2 DEF On

\* A link made or broken online, and the message about it.
LEMMA LinkSide ==
    ASSUME NEW S, ServerOK(S), NEW R, ServerOK(R), NEW G \in Envs, NEW W, Side(S, G, W),
           R.entities = S.entities, R.ID = S.ID, R.freed = S.freed, R.blocks = S.blocks,
           R.net = S.net, NEW e \in Entities, On(S, e),
           \A x \in Entities : x # e => R.ID_Parent[x] = S.ID_Parent[x],
           NEW m \in Messages, m.e = e, m.id = S.ID[e], m.type \in {"TAKE", "REJECT"},
           Allowed(TreeView(S), m), TreeView(R).at[e] = ChangeOf(m).to,
           G.phase = "events" => m.type = "REJECT",
           NEW T, Told(R, T, m)
    PROVE  Good(T, G, W)
<1>0. R \in Servers /\ TreeOK(S) /\ TreeOK(R) /\ S \in Servers
  BY ServerTree1, ServerTypes
<1>1. /\ T \in Servers /\ T.net = Append(S.net, m)
      /\ T.entities = R.entities /\ T.ID = R.ID /\ T.ID_Parent = R.ID_Parent
      /\ T.children = R.children /\ T.free = R.free /\ T.blocks = R.blocks
      /\ T.freed = R.freed /\ T.failed = R.failed
  BY DEF Told
<1>2. ServerOK(T) /\ TreeView(T) = TreeView(R)
  BY <1>1, SameTree
<1>3. \A x \in Entities : On(R, x) <=> On(S, x)
  BY DEF On
<1>4. \A x \in Entities : x # e => Stays(S, R, x)
  BY <1>3 DEF Stays, Has
<1>5. TreeView(R).id[e] = m.id /\ m.type # "DESTROY"
  BY <1>0, <1>3, ViewPlaces
<1>6. TreeView(T) = After(TreeView(S), m)
  BY <1>0, <1>2, <1>4, <1>5, ViewAfter
<1>7. Renamed(S, T, G)
  BY <1>1 DEF Renamed
<1>8. \A x \in Entities : On(T, x) <=> On(S, x)
  BY <1>1 DEF On
<1>9. StillOff(S, T, G)
  <2>1. ASSUME NEW x \in Entities, NEW r \in Entities, ~On(S, x), Switcher(T, x, r) PROVE Switcher(S, x, r)
    <3>1. x # e /\ T.ID_Parent[x] = S.ID_Parent[x]
      BY <1>1, <2>1
    <3> QED
      BY <1>1, <2>1, <3>1 DEF Switcher
  <2> QED
    BY <1>1, <1>8, <2>1 DEF StillOff
<1>10. LateBlocks(T, G)
  BY <1>1 DEF Side, LateBlocks, Recent
<1>11. G.phase = "events" => m.type = "REJECT" /\ T.freed = {}
  BY <1>1 DEF Side, PhaseOK
<1>12. m.type # "SPAWN" /\ S.ID[m.e] = m.id /\ On(T, m.e)
  BY <1>8
<1>13. Side(T, G, W)
  BY <1>0, <1>1, <1>6, <1>7, <1>9, <1>10, <1>11, <1>12, TellSide
<1> QED
  BY <1>2, <1>13 DEF Good

\* GE_OWNERSHIP_TAKE: the tree and what the client is told go together.
LEMMA TakeGood ==
    ASSUME NEW S, NEW G \in Envs, NEW W, Good(S, G, W), G.phase = "update",
           NEW parent \in IDs, NEW id \in IDs, S.entities[parent] \in Owners,
           S.entities[id] \in Items, S.ID_Parent[S.entities[id]] = NULL,
           NEW T, T = Tell(Linked(S, parent, id), "TAKE", parent, id)
    PROVE  /\ Good(T, G, W) /\ T.failed = S.failed
           /\ \A x \in Entities : About(S, G, x) => About(T, G, x)
<1>1. PICK p \in Owners, e \in Items : p = S.entities[parent] /\ e = S.entities[id]
  OBVIOUS
<1>2. ServerOK(S) /\ Side(S, G, W) /\ p \in Entities /\ e \in Entities /\ p # NULL /\ e # NULL
  BY NoClash DEF Good
<1>3. S.ID[p] = parent /\ S.ID[e] = id /\ On(S, p) /\ On(S, e) /\ id # NULL /\ parent # NULL
  BY <1>1, <1>2, OnlineByID, NoClash
<1>4. PICK R : R = LinkedTo(S, p, e)
  OBVIOUS
<1>t. T = Tell(R, "TAKE", parent, id)
  BY <1>1, <1>3, <1>4 DEF Linked, LinkedTo
<1>5. ServerOK(R) /\ R.ID_Parent = [S.ID_Parent EXCEPT ![e] = S.ID[p]] /\ SameBut(S, R)
  BY <1>1, <1>2, <1>3, <1>4, LinkedOK
<1>6. /\ S \in Servers /\ R \in Servers /\ TreeOK(S) /\ TreeOK(R)
      /\ S.ID_Parent \in [Entities -> IDs \cup {NULL}]
  BY <1>2, <1>5, ServerTree1, ServerTypes
<1>7. /\ R.entities = S.entities /\ R.ID = S.ID /\ R.freed = S.freed /\ R.blocks = S.blocks
      /\ R.net = S.net /\ R.failed = S.failed
  BY <1>5 DEF SameBut
<1>8. R.ID_Parent[e] = parent /\ \A x \in Entities : x # e => R.ID_Parent[x] = S.ID_Parent[x]
  BY <1>2, <1>3, <1>5, <1>6
<1>9. PICK m \in Messages : Says(m, "TAKE", parent, id, e, p) /\ Told(R, T, m)
  BY <1>1, <1>2, <1>6, <1>7, <1>t, TellFacts
<1>10. TreeView(S).at[e] = NULL /\ TreeView(S).id[e] = id /\ TreeView(S).at[p] # Absent /\ TreeView(S).id[p] = parent
  BY <1>1, <1>2, <1>3, <1>6, ViewPlaces
<1>11. Allowed(TreeView(S), m)
  BY <1>2, <1>3, <1>9, <1>10 DEF Allowed, Says
<1>12. Has(R, p, e) /\ On(R, e)
  BY <1>3, <1>7, <1>8 DEF Has, On
<1>13. TreeView(R).at[e] = ChangeOf(m).to
  <2>1. TreeView(R).at[e] = p
    BY <1>2, <1>6, <1>12, ViewPlaces
  <2> QED
    BY <1>9, <2>1 DEF ChangeOf, Says
<1>14. m.e = e /\ m.id = S.ID[e] /\ m.type = "TAKE"
  BY <1>3, <1>9 DEF Says
<1>15. Good(T, G, W)
  BY <1>2, <1>3, <1>5, <1>7, <1>8, <1>9, <1>11, <1>13, <1>14, LinkSide
<1>16. \A x \in Entities : About(T, G, x) <=> About(S, G, x) \/ x = m.e
  BY <1>6, <1>7, <1>9, ToldLog
<1> QED
  BY <1>7, <1>9, <1>15, <1>16 DEF Told

\* It leaves its parent, if it has one.
LEMMA DetachGood ==
    ASSUME NEW S, NEW G \in Envs, NEW W, Good(S, G, W), NEW id \in IDs, NEW e \in Entities,
           S.entities[id] = e, NEW T, T = Detached(S, id)
    PROVE  /\ Good(T, G, W)
           /\ T.entities = S.entities /\ T.ID = S.ID /\ T.free = S.free /\ T.failed = S.failed
           /\ T.ID_Parent = [S.ID_Parent EXCEPT ![e] = NULL]
           /\ \A q \in Entities : Kids(T, q) = Kids(S, q) \ {id}
           /\ \A x \in Entities, i \in IDs : Leaves(S, G, x, i) => Leaves(T, G, x, i)
           /\ \A x \in Entities : About(S, G, x) => About(T, G, x)
           /\ S.ID_Parent[e] # NULL => About(T, G, e)
<1>1. S.ID[e] = id /\ On(S, e)
  BY OnlineByID, NoClash DEF Good
<1>2. ServerOK(S) /\ Side(S, G, W) /\ TreeOK(S) /\ S \in Servers
      /\ S.ID_Parent \in [Entities -> IDs \cup {NULL}]
  BY ServerTypes, ServerTree1 DEF Good
<1>k. \A q \in Entities : id \in Kids(S, q) <=> Has(S, q, e)
  <2>1. \A x \in Entities : S.ID[x] = id => x = e
    BY <1>1, <1>2, NoClash DEF ServerOK, NamesOK
  <2> QED
    BY <1>1, <1>2, <2>1 DEF ServerOK, LinksOK
<1>3. CASE S.ID_Parent[e] = NULL
  <2>1. T = S
    BY <1>3 DEF Detached
  <2>2. S.ID_Parent = [S.ID_Parent EXCEPT ![e] = NULL]
    BY <1>2, <1>3
  <2>3. \A q \in Entities : Kids(S, q) = Kids(S, q) \ {id}
    BY <1>k, <1>3 DEF Has
  <2> QED
    BY <1>3, <2>1, <2>2, <2>3
<1>4. CASE S.ID_Parent[e] # NULL
  <2>1. PICK p \in Owners : S.ID[p] = S.ID_Parent[e] /\ p \in Entities
    BY <1>2, <1>4, NoClash DEF ServerOK, LinksOK
  <2>2. Has(S, p, e)
    BY <1>4, <2>1 DEF Has
  <2>3. On(S, p) /\ e \in Items /\ p # e /\ S.ID[p] \in IDs /\ \A q \in Entities : Has(S, q, e) => q = p
    BY <1>1, <1>2, <2>1, <2>2, HasFacts
  <2>p. PICK parent : parent = S.ID_Parent[e]
    OBVIOUS
  <2>4. S.entities[parent] = p /\ parent \in IDs /\ parent # NULL /\ p # NULL
    BY <2>1, <2>3, <2>p, NoClash DEF On
  <2>r. PICK R : R = Unlinked(S, p, e)
    OBVIOUS
  <2>5. T = Tell(R, "REJECT", parent, id)
    BY <2>4, <2>p, <2>r DEF Detached
  <2>6. /\ ServerOK(R) /\ R.ID_Parent = [S.ID_Parent EXCEPT ![e] = NULL]
        /\ \A q \in Entities : Kids(R, q) = IF q = p THEN Kids(S, p) \ {S.ID[e]} ELSE Kids(S, q)
        /\ SameBut(S, R)
    BY <1>2, <2>1, <2>2, <2>r, UnlinkedOK
  <2>7. R \in Servers /\ TreeOK(R)
    BY <2>6, ServerTree1, ServerTypes
  <2>8. /\ R.entities = S.entities /\ R.ID = S.ID /\ R.freed = S.freed /\ R.blocks = S.blocks
        /\ R.net = S.net /\ R.failed = S.failed /\ R.free = S.free
    BY <2>6 DEF SameBut
  <2>9. R.ID_Parent[e] = NULL /\ \A x \in Entities : x # e => R.ID_Parent[x] = S.ID_Parent[x]
    BY <1>2, <2>6
  <2>10. PICK m \in Messages : Says(m, "REJECT", parent, id, e, p) /\ Told(R, T, m)
    BY <2>4, <2>5, <2>7, <2>8, TellFacts
  <2>11. TreeView(S).at[e] = p /\ TreeView(S).id[e] = id /\ TreeView(S).at[p] # Absent /\ TreeView(S).id[p] = parent
    BY <1>1, <1>2, <2>1, <2>2, <2>3, <2>p, ViewPlaces
  <2>12. Allowed(TreeView(S), m)
    BY <2>3, <2>4, <2>10, <2>11 DEF Allowed, Says
  <2>13. TreeView(R).at[e] = ChangeOf(m).to
    <3>1. On(R, e)
      BY <1>1, <2>8 DEF On
    <3>2. TreeView(R).at[e] = NULL
      BY <2>7, <2>9, <3>1, ViewPlaces
    <3> QED
      BY <2>10, <3>2 DEF ChangeOf, Says
  <2>m. m.e = e /\ m.id = S.ID[e] /\ m.type = "REJECT" /\ m.id = id
    BY <1>1, <2>10 DEF Says
  <2>14. Good(T, G, W)
    BY <1>1, <1>2, <2>6, <2>8, <2>9, <2>10, <2>12, <2>13, <2>m, LinkSide
  <2>15. /\ T.net = Append(S.net, m)
         /\ T.entities = R.entities /\ T.ID = R.ID /\ T.ID_Parent = R.ID_Parent
         /\ T.children = R.children /\ T.free = R.free /\ T.failed = R.failed
    BY <2>8, <2>10 DEF Told
  <2>16. \A q \in Entities : Kids(T, q) = Kids(R, q)
    BY <2>15 DEF Kids
  <2>17. \A q \in Entities : Kids(T, q) = Kids(S, q) \ {id}
    BY <1>1, <1>k, <2>3, <2>6, <2>16
  <2>18. /\ \A x \in Entities, i \in IDs : Leaves(T, G, x, i) <=> Leaves(S, G, x, i) \/ (x = m.e /\ i = m.id)
         /\ \A x \in Entities : About(T, G, x) <=> About(S, G, x) \/ x = m.e
    BY <1>2, <2>8, <2>10, ToldLog
  <2> QED
    BY <2>6, <2>8, <2>m, <2>14, <2>15, <2>17, <2>18
<1> QED
  BY <1>3, <1>4

\* An entity that holds nothing and is held by nobody dies, and the client is told.
LEMMA GoneGood ==
    ASSUME NEW S, NEW G \in Envs, NEW W, Good(S, G, W), G.phase = "update",
           NEW id \in IDs, NEW e \in Entities, S.entities[id] = e,
           S.ID_Parent[e] = NULL, Kids(S, e) = {}, NEW T, T = Gone(S, id)
    PROVE  /\ Good(T, G, W)
           /\ T.ID = [S.ID EXCEPT ![e] = NULL] /\ T.entities = [S.entities EXCEPT ![id] = NULL]
           /\ FreeIDs(T) = FreeIDs(S) \cup {id}
           /\ T.ID_Parent = S.ID_Parent /\ T.children = S.children /\ T.failed = S.failed
           /\ \A x \in Entities, i \in IDs :
                 Leaves(T, G, x, i) <=> Leaves(S, G, x, i) \/ (x = e /\ i = id)
           /\ \A x \in Entities : About(S, G, x) => About(T, G, x)
<1>1. S.ID[e] = id /\ On(S, e)
  BY OnlineByID, NoClash DEF Good
<1>2. ServerOK(S) /\ Side(S, G, W) /\ TreeOK(S) /\ S \in Servers
      /\ S.ID \in [Entities -> IDs \cup {NULL}]
  BY ServerTypes, ServerTree1 DEF Good
<1>r. PICK R : R = Tell(S, "DESTROY", NULL, id)
  OBVIOUS
<1>3. T = entity_Destroy(R, e)
  <2>1. R.entities = S.entities
    BY <1>2, <1>r DEF Tell, Servers
  <2> QED
    BY <1>r, <2>1 DEF Gone
<1>4. PICK m \in Messages : Says(m, "DESTROY", NULL, id, e, NULL) /\ Told(S, R, m)
  BY <1>2, <1>r, TellFacts
<1>5. /\ R \in Servers /\ R.net = Append(S.net, m)
      /\ R.entities = S.entities /\ R.ID = S.ID /\ R.ID_Parent = S.ID_Parent
      /\ R.children = S.children /\ R.free = S.free /\ R.blocks = S.blocks
      /\ R.freed = S.freed /\ R.failed = S.failed
  BY <1>4 DEF Told
<1>6. /\ ServerOK(R) /\ \A p \in Entities : Kids(R, p) = Kids(S, p)
      /\ \A x \in Entities : On(R, x) <=> On(S, x)
      /\ FreeIDs(R) = FreeIDs(S)
  BY <1>2, <1>5, SameTree, SameStacks
<1>7. /\ ServerOK(T)
      /\ T.ID = [R.ID EXCEPT ![e] = NULL] /\ T.entities = [R.entities EXCEPT ![id] = NULL]
      /\ FreeIDs(T) = FreeIDs(R) \cup {id}
      /\ T.freed = R.freed \cup {Block(id)}
      /\ T.ID_Parent = R.ID_Parent /\ T.children = R.children
      /\ T.net = R.net /\ T.failed = R.failed
      /\ \A x \in Entities : x # e => (On(T, x) <=> On(R, x))
      /\ \A G2 : LateBlocks(R, G2) => LateBlocks(T, G2)
  <2>1. R.ID[e] = id /\ id # NULL /\ R.ID_Parent[e] = NULL /\ Kids(R, e) = {}
    BY <1>1, <1>5, <1>6, NoClash
  <2> QED
    BY SMTT(30), <1>3, <1>6, <2>1, DestroyedOK
<1>8. \A x \in Entities : T.ID[x] = IF x = e THEN NULL ELSE S.ID[x]
  BY <1>2, <1>5, <1>7
<1>9. \A x \in Entities : x # e => (On(T, x) <=> On(S, x))
  BY <1>6, <1>7
<1>u. \A x, y \in Entities : S.ID[x] = S.ID[y] /\ S.ID[x] # NULL => x = y
  BY <1>2 DEF ServerOK, NamesOK
<1>h. \A x \in Entities : ~Has(S, e, x)
  <2>1. SUFFICES ASSUME NEW x \in Entities, Has(S, e, x) PROVE FALSE
    OBVIOUS
  <2>2. S.ID[x] \in Kids(S, e)
    BY <1>2, <2>1, HasFacts
  <2> QED
    BY <2>2
<1>m. /\ m.type = "DESTROY" /\ m.parent = NULL /\ m.id = id /\ m.e = e /\ m.p = NULL
      /\ ChangeOf(m).to = Absent
  BY <1>4 DEF Says, ChangeOf
<1>10. Allowed(TreeView(S), m)
  <2>1. TreeView(S).at[e] = NULL /\ TreeView(S).id[e] = id
    BY <1>1, <1>2, ViewPlaces
  <2>2. ASSUME NEW x \in Entities, TreeView(S).at[x] = e PROVE FALSE
    <3>1. TreeView(S).at[x] \in Owners \cup {NULL, Absent}
      BY <1>2, ViewPlaces
    <3>2. e \in Owners
      BY <2>2, <3>1, NoClash
    <3> QED
      BY <1>2, <1>h, <2>2, <3>2, ViewPlaces
  <2> QED
    BY <1>m, <2>1, <2>2 DEF Allowed
<1>11. TreeOK(T) /\ ~On(T, e)
  BY <1>7, <1>8, ServerTree1 DEF On
<1>12. \A x \in Entities : x # e => Stays(S, T, x)
  BY <1>5, <1>7, <1>8, <1>9, <1>h DEF Stays, Has
<1>13. TreeView(T) = After(TreeView(S), m)
  BY <1>2, <1>11, <1>12, <1>m, ViewPlaces, ViewAfter
<1>14. Renamed(S, T, G)
  <2>1. S.freed \subseteq T.freed /\ Block(id) \in T.freed
    BY <1>5, <1>7
  <2>2. \A y \in Entities : T.ID[y] # id
    BY <1>1, <1>8, <1>u, NoClash
  <2> QED
    BY <1>1, <1>8, <2>1, <2>2, NoClash DEF Renamed
<1>15. StillOff(S, T, G)
  <2>1. ASSUME NEW x \in Entities, NEW r \in Entities, T.ID[x] # NULL, ~On(T, x), Switcher(T, x, r)
        PROVE  S.ID[x] # NULL /\ ~On(S, x) /\ Switcher(S, x, r)
    <3>1. x # e /\ S.ID[x] # NULL /\ ~On(S, x) /\ T.ID_Parent[x] = S.ID_Parent[x]
      BY <1>5, <1>7, <1>8, <1>9, <2>1
    <3>2. T.ID[r] = S.ID_Parent[x] /\ S.ID_Parent[x] # NULL => S.ID[r] = S.ID_Parent[x]
      BY <1>8
    <3> QED
      BY <2>1, <3>1, <3>2 DEF Switcher
  <2> QED
    BY <2>1 DEF StillOff
<1>16. LateBlocks(T, G)
  <2>1. LateBlocks(R, G)
    BY <1>2, <1>5 DEF Side, LateBlocks, Recent
  <2> QED
    BY <1>7, <2>1
<1>17. Side(T, G, W)
  <2>1. T.net = Append(S.net, m) /\ S.ID[m.e] = m.id /\ T.ID[m.e] = NULL /\ m.type # "SPAWN" /\ G.phase # "events"
    BY <1>1, <1>5, <1>7, <1>8, <1>m
  <2> QED
    BY <1>2, <1>10, <1>13, <1>14, <1>15, <1>16, <2>1, TellSide
<1>18. Told(S, R, m) /\ T.net = R.net
  BY <1>4, <1>7
<1>19. /\ \A x \in Entities, i \in IDs : Leaves(R, G, x, i) <=> Leaves(S, G, x, i) \/ (x = m.e /\ i = m.id)
       /\ \A x \in Entities : About(R, G, x) <=> About(S, G, x) \/ x = m.e
  BY <1>2, <1>4, ToldLog
<1>20. /\ \A x, i : Leaves(T, G, x, i) <=> Leaves(R, G, x, i)
       /\ \A x : About(T, G, x) <=> About(R, G, x)
  BY <1>7, LogSame
<1> QED
  BY <1>5, <1>6, <1>7, <1>17, <1>19, <1>20, <1>m DEF Good

\* The entities with these IDs are gone from the server.
Lost(S, T, K) ==
    /\ \A x \in Entities : T.ID[x] = IF S.ID[x] \in K THEN NULL ELSE S.ID[x]
    /\ \A i \in IDs : T.entities[i] = IF i \in K THEN NULL ELSE S.entities[i]
    /\ \A x \in Entities : T.ID_Parent[x] = IF S.ID[x] \in K THEN NULL ELSE S.ID_Parent[x]
    /\ \A q \in Entities : Kids(T, q) = Kids(S, q) \ K
    /\ FreeIDs(T) = FreeIDs(S) \cup K
    /\ T.failed = S.failed

\* The client has been told.
Farewell(S, T, G, K) ==
    /\ \A x \in Entities, i \in IDs : Leaves(S, G, x, i) => Leaves(T, G, x, i)
    /\ \A x \in Entities : About(S, G, x) => About(T, G, x)
    /\ \A x \in Entities : S.ID[x] \in K => Leaves(T, G, x, S.ID[x])

\* An entity without items leaves its owner and dies.
LEMMA RemovedGood ==
    ASSUME NEW S, NEW G \in Envs, NEW W, Good(S, G, W), G.phase = "update",
           NEW id \in IDs, NEW e \in Entities, S.entities[id] = e,
           Kids(S, e) = {}, NEW T, T = Removed(S, id)
    PROVE  /\ Good(T, G, W)
           /\ Lost(S, T, {id}) /\ Farewell(S, T, G, {id})
<1>1. S.ID[e] = id /\ On(S, e) /\ ServerOK(S)
  BY OnlineByID, NoClash DEF Good
<1>2. /\ S.ID \in [Entities -> IDs \cup {NULL}] /\ S.entities \in [IDs -> Entities \cup {NULL}]
      /\ S.ID_Parent \in [Entities -> IDs \cup {NULL}]
  BY <1>1, ServerTypes
<1>r. PICK R : R = Detached(S, id)
  OBVIOUS
<1>3. /\ Good(R, G, W)
      /\ R.entities = S.entities /\ R.ID = S.ID /\ R.free = S.free /\ R.failed = S.failed
      /\ R.ID_Parent = [S.ID_Parent EXCEPT ![e] = NULL]
      /\ \A q \in Entities : Kids(R, q) = Kids(S, q) \ {id}
      /\ \A x \in Entities, i \in IDs : Leaves(S, G, x, i) => Leaves(R, G, x, i)
      /\ \A x \in Entities : About(S, G, x) => About(R, G, x)
  BY <1>r, DetachGood
<1>4. T = Gone(R, id) /\ R.entities[id] = e /\ R.ID_Parent[e] = NULL /\ Kids(R, e) = {}
  BY <1>2, <1>3, <1>r DEF Removed
<1>5. /\ Good(T, G, W)
      /\ T.ID = [R.ID EXCEPT ![e] = NULL] /\ T.entities = [R.entities EXCEPT ![id] = NULL]
      /\ FreeIDs(T) = FreeIDs(R) \cup {id}
      /\ T.ID_Parent = R.ID_Parent /\ T.children = R.children /\ T.failed = R.failed
      /\ \A x \in Entities, i \in IDs :
            Leaves(T, G, x, i) <=> Leaves(R, G, x, i) \/ (x = e /\ i = id)
      /\ \A x \in Entities : About(R, G, x) => About(T, G, x)
  BY <1>3, <1>4, GoneGood
<1>6. \A x \in Entities : S.ID[x] = id <=> x = e
  BY <1>1, NoClash DEF ServerOK, NamesOK
<1>7. FreeIDs(R) = FreeIDs(S) /\ \A q \in Entities : Kids(T, q) = Kids(R, q)
  BY <1>3, <1>5 DEF FreeIDs, Kids
<1>8. Lost(S, T, {id})
  <2>1. \A x \in Entities : T.ID[x] = IF x = e THEN NULL ELSE S.ID[x]
    BY <1>2, <1>3, <1>5
  <2>2. \A i \in IDs : T.entities[i] = IF i = id THEN NULL ELSE S.entities[i]
    BY <1>2, <1>3, <1>5
  <2>3. \A x \in Entities : T.ID_Parent[x] = IF x = e THEN NULL ELSE S.ID_Parent[x]
    BY <1>2, <1>3, <1>5
  <2> QED
    BY <1>3, <1>5, <1>6, <1>7, <2>1, <2>2, <2>3 DEF Lost
<1>9. Farewell(S, T, G, {id})
  BY <1>3, <1>5, <1>6 DEF Farewell
<1> QED
  BY <1>5, <1>8, <1>9

LEMMA LostMore ==
    ASSUME NEW S, NEW R, NEW T, NEW G, NEW K \in SUBSET IDs, NEW i \in IDs,
           Lost(S, R, K), Lost(R, T, {i})
    PROVE  /\ Lost(S, T, K \cup {i})
           /\ Farewell(S, R, G, K) /\ Farewell(R, T, G, {i}) => Farewell(S, T, G, K \cup {i})
<1>1. \A x \in Entities : R.ID[x] = i <=> S.ID[x] = i /\ i \notin K
  BY NoClash DEF Lost
<1>2. Lost(S, T, K \cup {i})
  <2>1. \A x \in Entities : T.ID[x] = IF S.ID[x] \in K \cup {i} THEN NULL ELSE S.ID[x]
    BY <1>1 DEF Lost
  <2>2. \A x \in Entities : T.ID_Parent[x] = IF S.ID[x] \in K \cup {i} THEN NULL ELSE S.ID_Parent[x]
    BY <1>1 DEF Lost
  <2>3. \A j \in IDs : T.entities[j] = IF j \in K \cup {i} THEN NULL ELSE S.entities[j]
    BY DEF Lost
  <2>4. \A q \in Entities : Kids(T, q) = Kids(S, q) \ (K \cup {i})
    BY DEF Lost
  <2>5. FreeIDs(T) = FreeIDs(S) \cup (K \cup {i}) /\ T.failed = S.failed
    BY DEF Lost
  <2> QED
    BY <2>1, <2>2, <2>3, <2>4, <2>5 DEF Lost
<1>3. ASSUME Farewell(S, R, G, K), Farewell(R, T, G, {i}) PROVE Farewell(S, T, G, K \cup {i})
  <2>1. \A x \in Entities, j \in IDs : Leaves(S, G, x, j) => Leaves(T, G, x, j)
    BY <1>3 DEF Farewell
  <2>2. \A x \in Entities : About(S, G, x) => About(T, G, x)
    BY <1>3 DEF Farewell
  <2>3. ASSUME NEW x \in Entities, S.ID[x] \in K \cup {i} PROVE Leaves(T, G, x, S.ID[x])
    <3>1. CASE S.ID[x] \in K
      BY <1>3, <3>1 DEF Farewell
    <3>2. CASE S.ID[x] \notin K
      <4>1. S.ID[x] = i /\ R.ID[x] = i
        BY <1>1, <2>3, <3>2
      <4> QED
        BY <1>3, <4>1 DEF Farewell
    <3> QED
      BY <3>1, <3>2
  <2> QED
    BY <2>1, <2>2, <2>3 DEF Farewell
<1> QED
  BY <1>2, <1>3

LEMMA LostNone ==
    ASSUME NEW S, NEW G
    PROVE  Lost(S, S, {}) /\ Farewell(S, S, G, {})
  BY DEF Lost, Farewell

\* Whose ID stands among the children of an entity that is online.
LEMMA Child ==
    ASSUME NEW S, ServerOK(S), NEW e \in Entities, NEW i \in Kids(S, e)
    PROVE  \E x \in Items : /\ x \in Entities /\ S.ID[x] = i /\ i \in IDs /\ Has(S, e, x)
                            /\ e \in Owners /\ S.ID[e] # NULL /\ i # S.ID[e] /\ x # e
                            /\ Kids(S, x) = {} /\ (On(S, e) <=> On(S, x))
                            /\ (On(S, e) => S.entities[i] = x)
<1>1. i \in IDs
  <2>1. PICK s \in Seq(IDs) : s = S.children[e]
    BY ServerTypes
  <2>2. i \in Range(s)
    BY <2>1 DEF Kids
  <2> QED
    BY <2>2 DEF Range
<1>2. PICK x \in Entities : S.ID[x] = i /\ Has(S, e, x)
  BY <1>1 DEF ServerOK, LinksOK
<1>3. e \in Owners /\ x \in Items /\ e # x /\ S.ID[e] \in IDs /\ (On(S, e) <=> On(S, x))
  BY <1>2, HasFacts
<1>4. S.ID[e] # i
  BY <1>1, <1>2, <1>3, NoClash DEF ServerOK, NamesOK
<1>5. Kids(S, x) = {}
  <2>1. SUFFICES ASSUME NEW j \in Kids(S, x) PROVE FALSE
    OBVIOUS
  <2>2. j \in IDs
    <3>1. PICK s \in Seq(IDs) : s = S.children[x]
      BY ServerTypes
    <3>2. j \in Range(s)
      BY <2>1, <3>1 DEF Kids
    <3> QED
      BY <3>2 DEF Range
  <2>3. PICK y \in Entities : Has(S, x, y)
    BY <2>1, <2>2 DEF ServerOK, LinksOK
  <2>4. x \in Owners
    BY <2>3, HasFacts
  <2> QED
    BY <1>3, <2>4, NoClash
<1>6. On(S, e) => S.entities[i] = x
  BY <1>2, <1>3 DEF On
<1> QED
  BY <1>1, <1>2, <1>3, <1>4, <1>5, <1>6, NoClash

\* The IDs up to the k-th of a list.
Upto(s, k) == {s[j] : j \in 1 .. k}

LEMMA UptoFacts ==
    ASSUME NEW X, NEW s \in Seq(X), IsInjective(s)
    PROVE  /\ Upto(s, 0) = {} /\ Upto(s, Len(s)) = Range(s) /\ Len(s) \in Nat
           /\ \A k \in 0 .. Len(s) : Upto(s, k) \subseteq X
           /\ \A k \in 1 .. Len(s) : /\ Upto(s, k) = Upto(s, k - 1) \cup {s[k]}
                                     /\ s[k] \notin Upto(s, k - 1) /\ s[k] \in Range(s) /\ s[k] \in X
<1> DEFINE n == Len(s)
<1>1. n \in Nat /\ DOMAIN s = 1 .. n /\ \A k \in 1 .. n : s[k] \in X
  OBVIOUS
<1> HIDE DEF n
<1>2. Upto(s, 0) = {} /\ Upto(s, n) = Range(s)
  BY <1>1 DEF Upto, Range
<1>3. ASSUME NEW k \in 0 .. n PROVE Upto(s, k) \subseteq X
  <2>1. \A j \in 1 .. k : j \in 1 .. n
    BY <1>1
  <2> QED
    BY <1>1, <2>1 DEF Upto
<1>4. ASSUME NEW k \in 1 .. n
      PROVE  /\ Upto(s, k) = Upto(s, k - 1) \cup {s[k]}
             /\ s[k] \notin Upto(s, k - 1) /\ s[k] \in Range(s) /\ s[k] \in X
  <2>1. /\ \A j \in 1 .. k : j \in 1 .. k - 1 \/ j = k
        /\ \A j \in 1 .. k - 1 : j \in 1 .. k /\ j \in 1 .. n /\ j # k
        /\ k \in 1 .. k
    BY <1>1
  <2>2. Upto(s, k) = Upto(s, k - 1) \cup {s[k]}
    BY <2>1 DEF Upto
  <2>3. s[k] \notin Upto(s, k - 1)
    BY <1>1, <2>1 DEF Upto, IsInjective
  <2> QED
    BY <1>1, <2>2, <2>3 DEF Range
<1> QED
  BY <1>1, <1>2, <1>3, <1>4 DEF n

\* The children of an entity that is online leave with it, one after the other.
LEMMA AllRemoved ==
    ASSUME NEW S, NEW G \in Envs, NEW W, Good(S, G, W), G.phase = "update",
           NEW e \in Entities, On(S, e), NEW s \in Seq(IDs), IsInjective(s), Range(s) = Kids(S, e),
           NEW T, T = RemovedAll(S, Append(s, S.ID[e])), NEW K, K = Kids(S, e) \cup {S.ID[e]}
    PROVE  Good(T, G, W) /\ Lost(S, T, K) /\ Farewell(S, T, G, K)
<1>1. ServerOK(S)
  BY DEF Good
<1>i. PICK id \in IDs : id = S.ID[e] /\ S.entities[id] = e
  BY <1>1, ServerTypes DEF On
<1>2. PICK L \in Seq(IDs) : L = Append(s, id)
  BY AppendPlaces
<1>p. PICK t : Goes(t, "Removed", NULL, S, L, Len(L)) /\ t[Len(L)] = RemovedAll(S, L)
  BY FoldRemoved
<1>3. /\ t[0] = S /\ t[Len(L)] = T
      /\ \A k \in 1 .. Len(L) : t[k] = Removed(t[k - 1], L[k])
  BY <1>i, <1>2, <1>p DEF Goes, Folded
<1> DEFINE n == Len(s)
<1>4. /\ Len(L) = n + 1 /\ n \in Nat /\ L[n + 1] = id /\ n + 1 \in 1 .. n + 1
      /\ \A k \in 1 .. n : L[k] = s[k] /\ k \in 1 .. n + 1
  BY <1>2, AppendPlaces
<1>5. /\ Upto(s, 0) = {} /\ Upto(s, n) = Kids(S, e)
      /\ \A k \in 0 .. n : Upto(s, k) \subseteq IDs
      /\ \A k \in 1 .. n : /\ Upto(s, k) = Upto(s, k - 1) \cup {s[k]}
                           /\ s[k] \notin Upto(s, k - 1) /\ s[k] \in Kids(S, e) /\ s[k] \in IDs
  BY UptoFacts
<1> HIDE DEF n
<1> DEFINE OK(k) == Good(t[k], G, W) /\ Lost(S, t[k], Upto(s, k)) /\ Farewell(S, t[k], G, Upto(s, k))
           Q == {k \in Nat : k <= n => OK(k)}
<1>6. OK(0)
  <2>1. t[0] = S /\ Upto(s, 0) = {}
    BY <1>3, <1>5
  <2>2. Lost(S, S, {}) /\ Farewell(S, S, G, {})
    BY LostNone
  <2> QED
    BY <2>1, <2>2
<1>7. ASSUME NEW k \in 1 .. n, OK(k - 1) PROVE OK(k)
  <2>1. PICK R, A, i : R = t[k - 1] /\ A = Upto(s, k - 1) /\ i = s[k]
    OBVIOUS
  <2>2. /\ i \in Kids(S, e) /\ i \notin A /\ i \in IDs /\ A \in SUBSET IDs
        /\ Upto(s, k) = A \cup {i} /\ t[k] = Removed(R, i)
    <3>1. k - 1 \in 0 .. n /\ k \in 1 .. n
      BY <1>4
    <3> QED
      BY <1>3, <1>4, <1>5, <2>1, <3>1
  <2>3. PICK x \in Items : x \in Entities /\ S.ID[x] = i /\ Kids(S, x) = {} /\ S.entities[i] = x
    BY <1>1, <2>2, Child
  <2>4. Good(R, G, W) /\ Lost(S, R, A) /\ Farewell(S, R, G, A)
    BY <1>7, <2>1
  <2>5. R.entities[i] = x /\ Kids(R, x) = {}
    BY <2>2, <2>3, <2>4 DEF Lost
  <2>6. PICK U : U = t[k] /\ U = Removed(R, i)
    BY <2>2
  <2>7. Good(U, G, W) /\ Lost(R, U, {i}) /\ Farewell(R, U, G, {i})
    BY <2>2, <2>3, <2>4, <2>5, <2>6, RemovedGood
  <2>8. Lost(S, U, A \cup {i}) /\ Farewell(S, U, G, A \cup {i})
    BY <2>2, <2>4, <2>7, LostMore
  <2> QED
    BY <2>2, <2>6, <2>7, <2>8
<1>8. OK(n)
  <2> HIDE DEF OK
  <2>1. 0 \in Q
    BY <1>6
  <2>2. ASSUME NEW k \in Nat, k \in Q PROVE k + 1 \in Q
    <3>1. SUFFICES ASSUME k + 1 <= n PROVE OK(k + 1)
      OBVIOUS
    <3>2. k + 1 \in 1 .. n /\ (k + 1) - 1 = k /\ OK(k)
      BY <1>4, <2>2, <3>1
    <3> QED
      BY <1>7, <3>2
  <2>3. Nat \subseteq Q
    <3> HIDE DEF Q
    <3> QED
      BY <2>1, <2>2, NaturalInduction
  <2> QED
    BY <1>4, <2>3
<1>9. PICK R, A : R = t[n] /\ A = Kids(S, e)
  OBVIOUS
<1>10. Good(R, G, W) /\ Lost(S, R, A) /\ Farewell(S, R, G, A)
  BY <1>5, <1>8, <1>9
<1>11. T = Removed(R, id)
  <2>1. (n + 1) - 1 = n /\ Len(L) = n + 1 /\ n + 1 \in 1 .. Len(L)
    BY <1>4
  <2>2. t[n + 1] = Removed(t[(n + 1) - 1], L[n + 1])
    BY <1>3, <2>1
  <2> QED
    BY <1>3, <1>4, <1>9, <2>1, <2>2
<1>12. A \in SUBSET IDs /\ id \notin A
  BY <1>1, <1>9, <1>i, Child
<1>13. R.entities[id] = e /\ Kids(R, e) = {}
  BY <1>9, <1>10, <1>12, <1>i DEF Lost
<1>14. Good(T, G, W) /\ Lost(R, T, {id}) /\ Farewell(R, T, G, {id})
  BY <1>10, <1>11, <1>13, RemovedGood
<1>15. Lost(S, T, A \cup {id}) /\ Farewell(S, T, G, A \cup {id})
  BY <1>10, <1>12, <1>14, LostMore
<1> QED
  BY <1>9, <1>14, <1>15, <1>i

-----------------------------------------------------------------------------
(* The simulator's steps.                                                  *)

\* A name for what is not online: the view is the same.
LEMMA OfflineSide ==
    ASSUME NEW S, ServerOK(S), NEW G \in Envs, NEW W, Side(S, G, W), G.phase = "update",
           NEW T, ServerOK(T), NEW x \in Entities, S.ID[x] = NULL, NEW i \in FreeIDs(S),
           T.ID = [S.ID EXCEPT ![x] = i], T.entities = S.entities,
           \A y \in Entities : y # x => T.ID_Parent[y] = S.ID_Parent[y],
           T.freed = S.freed, T.blocks = S.blocks, T.net = S.net,
           ~On(T, x), Leaves(S, G, x, i),
           \A r \in Entities : Switcher(T, x, r) => r \in G.switched
    PROVE  Side(T, G, W)
<1>1. /\ S \in Servers /\ TreeOK(S) /\ TreeOK(T) /\ S.ID \in [Entities -> IDs \cup {NULL}] /\ i \in IDs
      /\ S.entities \in [IDs -> Entities \cup {NULL}]
  BY ServerTypes, ServerTree1 DEF FreeIDs
<1>2. \A y \in Entities : T.ID[y] = IF y = x THEN i ELSE S.ID[y]
  BY <1>1
<1>3. \A y \in Entities : S.ID[y] # i
  BY <1>1 DEF ServerOK, NamesOK
<1>4. \A y \in Entities : y # x => (On(T, y) <=> On(S, y))
  BY <1>2 DEF On
<1>5. ~On(S, x)
  BY DEF On
<1>6. \A y \in Entities : S.ID_Parent[y] # i
  <2>1. SUFFICES ASSUME NEW y \in Entities, S.ID_Parent[y] = i PROVE FALSE
    OBVIOUS
  <2>2. \E q \in Owners : S.ID[q] = i
    BY <1>1, <2>1, NoClash DEF ServerOK, LinksOK
  <2> QED
    BY <1>3, <2>2, NoClash
<1>7. TreeView(T) = TreeView(S)
  <2>1. ASSUME NEW y \in Entities, y # x PROVE Stays(S, T, y)
    <3>1. \A p \in Entities : Has(S, p, y) => Has(T, p, y)
      BY <1>2, <2>1 DEF Has
    <3> QED
      BY <1>2, <1>4, <2>1, <3>1 DEF Stays
  <2>2. TreeView(T).at[x] = TreeView(S).at[x] /\ TreeView(T).id[x] = TreeView(S).id[x]
    BY <1>1, <1>5, ViewPlaces
  <2>3. \A y \in Entities : TreeView(T).at[y] = TreeView(S).at[y] /\ TreeView(T).id[y] = TreeView(S).id[y]
    BY <1>1, <2>1, <2>2, StaysView
  <2> QED
    BY <1>1, <2>3, ViewTyped, ViewEqual
<1>8. Renamed(S, T, G)
  <2>1. ASSUME NEW y \in Entities, NEW z \in Entities, NEW j \in IDs, T.ID[y] = j, S.ID[y] # j, Leaves(S, G, z, j)
        PROVE  z = y
    <3>1. y = x /\ j = i
      BY <1>2, <2>1
    <3> QED
      BY <2>1, <3>1 DEF Side, OneTrace
  <2>2. ASSUME NEW y \in Entities, NEW j \in IDs, S.ID[y] = j, T.ID[y] # j PROVE FALSE
    BY <1>2, <2>2, NoClash
  <2> QED
    BY <2>1, <2>2 DEF Renamed
<1>9. StillOff(S, T, G)
  <2>1. ASSUME NEW y \in Entities, NEW r \in Entities, T.ID[y] # NULL, ~On(T, y), Switcher(T, y, r),
               r \notin G.switched
        PROVE  S.ID[y] # NULL /\ ~On(S, y) /\ Switcher(S, y, r)
    <3>1. y # x
      BY <2>1
    <3>2. S.ID[y] # NULL /\ ~On(S, y) /\ T.ID_Parent[y] = S.ID_Parent[y]
      BY <1>2, <1>4, <2>1, <3>1
    <3>3. T.ID[r] = S.ID_Parent[y] => S.ID[r] = S.ID_Parent[y]
      BY <1>2, <1>6
    <3> QED
      BY <2>1, <3>2, <3>3 DEF Switcher
  <2> QED
    BY <2>1 DEF StillOff
<1>10. LateBlocks(T, G)
  BY DEF Side, LateBlocks, Recent
<1> QED
  BY <1>7, <1>8, <1>9, <1>10, QuietSide

\* add_offline of what the simulator switches: its ID is its own again.
LEMMA BackGood ==
    ASSUME NEW S, NEW G \in Envs, NEW W, Good(S, G, W), G.phase = "update",
           NEW x \in G.switched, x \in Entities, S.ID[x] = NULL, NEW i \in FreeIDs(S),
           S.entities[i] = NULL, Leaves(S, G, x, i), NEW T, T = Named(S, x, i, NULL)
    PROVE  /\ Good(T, G, W) /\ ~On(T, x)
           /\ T.ID = [S.ID EXCEPT ![x] = i] /\ T.entities = S.entities
           /\ FreeIDs(T) = FreeIDs(S) \ {i}
           /\ T.ID_Parent = S.ID_Parent /\ T.children = S.children
           /\ T.net = S.net /\ T.failed = S.failed
<1>1. ServerOK(S) /\ Side(S, G, W) /\ S.entities \in [IDs -> Entities \cup {NULL}]
  BY ServerTypes DEF Good
<1>2. /\ ServerOK(T) /\ i \in IDs
      /\ T.ID = [S.ID EXCEPT ![x] = i] /\ T.entities = [S.entities EXCEPT ![i] = NULL]
      /\ FreeIDs(T) = FreeIDs(S) \ {i}
      /\ T.ID_Parent = S.ID_Parent /\ T.children = S.children /\ T.freed = S.freed
      /\ T.net = S.net /\ T.failed = S.failed /\ T.blocks = S.blocks
      /\ S.ID_Parent[x] = NULL
      /\ On(T, x) <=> NULL = x
  BY <1>1, NamedOK
<1>3. T.entities = S.entities
  BY <1>1, <1>2
<1>4. ~On(T, x)
  BY <1>2, NoClash
<1>5. \A r \in Entities : Switcher(T, x, r) => r \in G.switched
  BY <1>2 DEF Switcher
<1>6. Side(T, G, W)
  BY <1>1, <1>2, <1>3, <1>4, <1>5, OfflineSide
<1> QED
  BY <1>2, <1>3, <1>4, <1>6 DEF Good

\* The same of an item of his.
LEMMA KeptGood ==
    ASSUME NEW S, NEW G \in Envs, NEW W, Good(S, G, W), G.phase = "update",
           NEW e \in Owners, e \in G.switched, S.ID[e] # NULL, ~On(S, e),
           NEW x \in Items, S.ID[x] = NULL, NEW i \in FreeIDs(S),
           S.entities[i] = NULL, Leaves(S, G, x, i),
           NEW R, R = Named(S, x, i, NULL), NEW T, T = LinkedTo(R, e, x)
    PROVE  /\ Good(T, G, W)
           /\ T.ID = [S.ID EXCEPT ![x] = i] /\ T.entities = S.entities
           /\ FreeIDs(T) = FreeIDs(S) \ {i}
           /\ T.net = S.net /\ T.failed = S.failed
<1>1. /\ ServerOK(S) /\ Side(S, G, W) /\ S.entities \in [IDs -> Entities \cup {NULL}]
      /\ S.ID \in [Entities -> IDs \cup {NULL}] /\ S.ID_Parent \in [Entities -> IDs \cup {NULL}]
      /\ e \in Entities /\ x \in Entities /\ e # x
  BY ServerTypes, NoClash DEF Good
<1>2. /\ ServerOK(R) /\ i \in IDs
      /\ R.ID = [S.ID EXCEPT ![x] = i] /\ R.entities = [S.entities EXCEPT ![i] = NULL]
      /\ FreeIDs(R) = FreeIDs(S) \ {i}
      /\ R.ID_Parent = S.ID_Parent /\ R.children = S.children /\ R.freed = S.freed
      /\ R.net = S.net /\ R.failed = S.failed /\ R.blocks = S.blocks
      /\ S.ID_Parent[x] = NULL
      /\ \A y \in Entities : y # x => (On(R, y) <=> On(S, y))
      /\ On(R, x) <=> NULL = x
  BY <1>1, NamedOK
<1>3. R.entities = S.entities
  BY <1>1, <1>2
<1>4. R.ID[e] = S.ID[e] /\ R.ID[x] = i /\ R.ID_Parent[x] = NULL /\ ~On(R, e) /\ ~On(R, x) /\ i # NULL
      /\ (On(R, e) <=> On(R, x)) /\ R.ID[e] # NULL
  BY <1>1, <1>2, NoClash
<1>5. ServerOK(T) /\ T.ID_Parent = [R.ID_Parent EXCEPT ![x] = R.ID[e]] /\ SameBut(R, T)
  <2>1. /\ ServerOK(R) /\ R.ID[e] # NULL /\ R.ID[x] # NULL /\ R.ID_Parent[x] = NULL
        /\ (On(R, e) <=> On(R, x))
    BY <1>2, <1>4
  <2> QED
    BY <2>1, LinkedOK
<1>6. /\ T.entities = S.entities /\ T.ID = R.ID /\ T.freed = S.freed /\ T.blocks = S.blocks
      /\ T.net = S.net /\ T.failed = S.failed /\ FreeIDs(T) = FreeIDs(R)
  BY <1>2, <1>3, <1>5, SameStacks DEF SameBut
<1>7. T.ID_Parent[x] = S.ID[e] /\ \A y \in Entities : y # x => T.ID_Parent[y] = S.ID_Parent[y]
  BY <1>1, <1>2, <1>4, <1>5
<1>8. ~On(T, x)
  BY <1>3, <1>4, <1>6 DEF On
<1>9. \A r \in Entities : Switcher(T, x, r) => r \in G.switched
  <2>1. ASSUME NEW r \in Entities, Switcher(T, x, r) PROVE r = e
    <3>1. T.ID[r] = T.ID[e] /\ T.ID[e] # NULL
      BY <1>4, <1>6, <1>7, <2>1 DEF Switcher
    <3> QED
      BY <1>1, <1>5, <3>1 DEF ServerOK, NamesOK
  <2> QED
    BY <2>1
<1>10. T.ID = [S.ID EXCEPT ![x] = i]
  BY <1>2, <1>6
<1>11. Side(T, G, W)
  <2>1. /\ ServerOK(S) /\ Side(S, G, W) /\ ServerOK(T) /\ x \in Entities
        /\ \A y \in Entities : y # x => T.ID_Parent[y] = S.ID_Parent[y]
    BY <1>1, <1>5, <1>7
  <2> QED
    BY <1>6, <1>8, <1>9, <1>10, <2>1, OfflineSide
<1> QED
  BY <1>2, <1>5, <1>6, <1>10, <1>11 DEF Good

\* A new entity, on its own or in the hands of an owner, and the message about it.
LEMMA SpawnSide ==
    ASSUME NEW S, ServerOK(S), NEW G \in Envs, NEW W, Side(S, G, W), G.phase = "update",
           NEW R, ServerOK(R), NEW e \in Entities, S.ID[e] = NULL,
           NEW i \in FreeIDs(S), Block(i) \notin Recent(S, G),
           R.ID = [S.ID EXCEPT ![e] = i], R.entities = [S.entities EXCEPT ![i] = e],
           \A y \in Entities : y # e => R.ID_Parent[y] = S.ID_Parent[y],
           R.freed = S.freed, R.blocks = S.blocks, R.net = S.net,
           NEW m \in Messages, m.type = "SPAWN", m.e = e, m.id = i, Allowed(TreeView(S), m),
           TreeView(R).at[e] = ChangeOf(m).to,
           G.object[e] = "none", ~About(S, G, e), NEW T, Told(R, T, m)
    PROVE  Good(T, G, W)
<1>1. /\ S \in Servers /\ TreeOK(S) /\ TreeOK(R) /\ R \in Servers /\ i \in IDs
      /\ S.ID \in [Entities -> IDs \cup {NULL}] /\ S.entities \in [IDs -> Entities \cup {NULL}]
  BY ServerTypes, ServerTree1 DEF FreeIDs
<1>2. /\ \A y \in Entities : R.ID[y] = IF y = e THEN i ELSE S.ID[y]
      /\ \A j \in IDs : R.entities[j] = IF j = i THEN e ELSE S.entities[j]
  BY <1>1
<1>3. \A y \in Entities : S.ID[y] # i /\ S.ID_Parent[y] # i
  <2>1. \A y \in Entities : S.ID[y] # i
    BY <1>1 DEF ServerOK, NamesOK
  <2>2. ASSUME NEW y \in Entities, S.ID_Parent[y] = i PROVE FALSE
    <3>1. \E q \in Owners : S.ID[q] = i
      BY <1>1, <2>2, NoClash DEF ServerOK, LinksOK
    <3> QED
      BY <2>1, <3>1, NoClash
  <2> QED
    BY <2>1, <2>2
<1>4. \A y \in Entities : y # e => (On(R, y) <=> On(S, y))
  <2>1. ASSUME NEW y \in Entities, y # e PROVE On(R, y) <=> On(S, y)
    <3>1. R.ID[y] = S.ID[y] /\ (S.ID[y] # NULL => S.ID[y] \in IDs /\ S.ID[y] # i)
      BY <1>1, <1>2, <1>3, <2>1
    <3> QED
      BY <1>2, <3>1 DEF On
  <2> QED
    BY <2>1
<1>5. On(R, e) /\ R.ID[e] = i
  BY <1>1, <1>2, NoClash DEF On
<1>6. /\ T \in Servers /\ T.entities = R.entities /\ T.ID = R.ID /\ T.ID_Parent = R.ID_Parent
      /\ T.children = R.children /\ T.free = R.free /\ T.blocks = R.blocks
      /\ T.freed = R.freed /\ T.failed = R.failed /\ T.net = Append(S.net, m)
  BY DEF Told
<1>7. /\ ServerOK(T) /\ TreeView(T) = TreeView(R)
      /\ \A y \in Entities : On(T, y) <=> On(R, y)
  BY <1>6, SameTree
<1>8. \A y \in Entities : y # e => Stays(S, R, y)
  <2>1. ASSUME NEW y \in Entities, y # e PROVE Stays(S, R, y)
    <3>1. \A p \in Entities : Has(S, p, y) => Has(R, p, y)
      BY <1>2, <2>1 DEF Has
    <3> QED
      BY <1>2, <1>4, <2>1, <3>1 DEF Stays
  <2> QED
    BY <2>1
<1>9. TreeView(T) = After(TreeView(S), m)
  <2>1. TreeView(R).id[e] = i
    BY <1>1, <1>5, ViewPlaces
  <2>2. m.type # "DESTROY"
    OBVIOUS
  <2> QED
    BY <1>1, <1>7, <1>8, <2>1, <2>2, ViewAfter
<1>10. Renamed(S, T, G)
  <2>1. ASSUME NEW y \in Entities, NEW z \in Entities, NEW j \in IDs, T.ID[y] = j, S.ID[y] # j, Leaves(S, G, z, j)
        PROVE  FALSE
    <3>1. y = e /\ j = i
      BY <1>2, <1>6, <2>1
    <3> QED
      BY <1>3, <2>1, <3>1 DEF Side, Traces
  <2>2. ASSUME NEW y \in Entities, NEW j \in IDs, S.ID[y] = j, T.ID[y] # j PROVE FALSE
    BY <1>2, <1>6, <2>2, NoClash
  <2> QED
    BY <1>6, <2>1, <2>2 DEF Renamed
<1>11. StillOff(S, T, G)
  <2>1. ASSUME NEW y \in Entities, NEW r \in Entities, T.ID[y] # NULL, ~On(T, y), Switcher(T, y, r)
        PROVE  S.ID[y] # NULL /\ ~On(S, y) /\ Switcher(S, y, r)
    <3>1. y # e
      BY <1>5, <1>7, <2>1
    <3>2. S.ID[y] # NULL /\ ~On(S, y) /\ T.ID_Parent[y] = S.ID_Parent[y]
      BY <1>2, <1>4, <1>6, <1>7, <2>1, <3>1
    <3>3. T.ID[r] = S.ID_Parent[y] => S.ID[r] = S.ID_Parent[y]
      BY <1>2, <1>3, <1>6
    <3> QED
      BY <2>1, <3>2, <3>3 DEF Switcher
  <2> QED
    BY <2>1 DEF StillOff
<1>12. LateBlocks(T, G)
  BY <1>6 DEF Side, LateBlocks, Recent
<1>13. Side(T, G, W)
  <2>1. /\ T.ID[m.e] = m.id /\ On(T, m.e) /\ G.object[m.e] = "none" /\ ~About(S, G, m.e)
        /\ G.phase # "events" /\ T.net = Append(S.net, m)
    BY <1>5, <1>6, <1>7
  <2> QED
    BY <1>1, <1>9, <1>10, <1>11, <1>12, <2>1, TellSide
<1> QED
  BY <1>7, <1>13 DEF Good

\* Process_spawn gives a new entity an ID that no trace of another is left of.
LEMMA SpawnGood ==
    ASSUME NEW S, NEW G \in Envs, NEW W, Good(S, G, W), G.phase = "update",
           NEW e \in Entities, S.ID[e] = NULL, G.object[e] = "none", ~About(S, G, e),
           \E b \in Blocks : S.free[b] # <<>> /\ b \notin Recent(S, G),
           NEW i, i = NewID(S), NEW R, R = Entered(Taken(S, i), e, i, NULL), NEW T, NEW p, NEW parent,
           \/ p = NULL /\ parent = NULL /\ T = Tell(R, "SPAWN", NULL, i)
           \/ /\ p \in Owners /\ e \in Items /\ parent \in IDs /\ S.entities[parent] = p
              /\ T = Tell(Linked(R, parent, i), "SPAWN", parent, i)
    PROVE  /\ Good(T, G, W) /\ T.failed = S.failed
           /\ \A x \in Entities : About(S, G, x) => About(T, G, x)
<1>1. /\ ServerOK(S) /\ Side(S, G, W) /\ S \in Servers /\ TreeOK(S)
      /\ S.ID \in [Entities -> IDs \cup {NULL}] /\ S.entities \in [IDs -> Entities \cup {NULL}]
      /\ S.ID_Parent \in [Entities -> IDs \cup {NULL}]
  BY ServerTypes, ServerTree1 DEF Good
<1>2. i \in FreeIDs(S) /\ Block(i) \notin Recent(S, G)
  BY <1>1, NewIDFacts DEF ServerOK, Side
<1>3. PICK Q : Q = Named(S, e, i, e)
  OBVIOUS
<1>4. /\ ServerOK(Q) /\ i \in IDs
      /\ Q.ID = [S.ID EXCEPT ![e] = i] /\ Q.entities = [S.entities EXCEPT ![i] = e]
      /\ Q.ID_Parent = S.ID_Parent /\ Q.children = S.children /\ Q.freed = S.freed
      /\ Q.net = S.net /\ Q.failed = S.failed /\ Q.blocks = S.blocks
      /\ S.ID_Parent[e] = NULL
      /\ On(Q, e) <=> e = e
  BY <1>1, <1>2, <1>3, NamedOK
<1>5. Q = R
  <2>1. R = [Q EXCEPT !.ID_Parent[e] = NULL]
    BY <1>3 DEF Entered, Named
  <2>2. Q \in Servers /\ [Q.ID_Parent EXCEPT ![e] = NULL] = Q.ID_Parent
    BY <1>1, <1>4, ServerTypes
  <2> QED
    BY <2>1, <2>2 DEF Servers
<1>6. TreeOK(R) /\ ServerOK(R) /\ R \in Servers /\ On(R, e) /\ R.ID[e] = i /\ R.entities[i] = e
  BY <1>1, <1>4, <1>5, ServerTree1, ServerTypes
<1>7. TreeView(S).at[e] = Absent
  BY <1>1, ViewPlaces DEF On
<1>8. CASE p = NULL /\ parent = NULL /\ T = Tell(R, "SPAWN", NULL, i)
  <2>1. PICK m \in Messages : Says(m, "SPAWN", NULL, i, e, NULL) /\ Told(R, T, m)
    BY <1>4, <1>6, <1>8, TellFacts
  <2>2. m.type = "SPAWN" /\ m.e = e /\ m.id = i /\ m.p = NULL /\ m.parent = NULL /\ ChangeOf(m).to = NULL
    BY <2>1 DEF Says, ChangeOf
  <2>3. Allowed(TreeView(S), m)
    BY <1>7, <2>2 DEF Allowed
  <2>4. TreeView(R).at[e] = ChangeOf(m).to
    <3>1. R.ID_Parent[e] = NULL
      BY <1>4, <1>5
    <3> QED
      BY <1>6, <2>2, <3>1, ViewPlaces
  <2>5. Good(T, G, W)
    BY <1>1, <1>2, <1>4, <1>5, <1>6, <2>1, <2>2, <2>3, <2>4, SpawnSide
  <2>6. T.failed = R.failed
    BY <2>1 DEF Told
  <2>7. \A x \in Entities : About(T, G, x) <=> About(S, G, x) \/ x = m.e
    BY <1>1, <1>4, <1>5, <2>1, ToldLog
  <2> QED
    BY <1>4, <1>5, <2>5, <2>6, <2>7
<1>9. CASE /\ p \in Owners /\ e \in Items /\ parent \in IDs /\ S.entities[parent] = p
           /\ T = Tell(Linked(R, parent, i), "SPAWN", parent, i)
  <2>1. /\ p \in Entities /\ p # NULL /\ parent # NULL /\ i # NULL
        /\ S.ID[p] = parent /\ On(S, p) /\ e # p
    <3>1. p \in Entities /\ p # NULL /\ parent # NULL /\ i # NULL /\ e # p
      BY <1>4, <1>9, NoClash
    <3>2. S.entities[parent] # NULL
      BY <1>9, <3>1
    <3>3. S.ID[S.entities[parent]] = parent /\ On(S, S.entities[parent])
      BY <1>1, <1>9, <3>2, OnlineByID
    <3> QED
      BY <1>9, <3>1, <3>3
  <2>2. parent # i
    BY <1>1, <1>2, <1>4, <2>1 DEF ServerOK, NamesOK
  <2>3. R.entities[parent] = p /\ R.ID[p] = parent /\ On(R, p) /\ R.ID_Parent[e] = NULL
    BY <1>1, <1>4, <1>5, <1>9, <2>1, <2>2 DEF On
  <2>4. PICK U : U = LinkedTo(R, p, e)
    OBVIOUS
  <2>5. T = Tell(U, "SPAWN", parent, i)
    BY <1>6, <1>9, <2>3, <2>4 DEF Linked, LinkedTo
  <2>6. ServerOK(U) /\ U.ID_Parent = [R.ID_Parent EXCEPT ![e] = R.ID[p]] /\ SameBut(R, U)
    <3>1. /\ ServerOK(R) /\ R.ID[e] # NULL /\ R.ID[p] # NULL /\ R.ID_Parent[e] = NULL
          /\ (On(R, p) <=> On(R, e)) /\ p \in Owners /\ e \in Items
      BY <1>6, <1>9, <2>1, <2>3
    <3>2. PICK x \in Items, q \in Owners : x = e /\ q = p
      BY <3>1
    <3>3. /\ ServerOK(R) /\ R.ID[x] # NULL /\ R.ID[q] # NULL /\ R.ID_Parent[x] = NULL
          /\ (On(R, q) <=> On(R, x)) /\ U = LinkedTo(R, q, x)
      BY <2>4, <3>1, <3>2
    <3>4. ServerOK(U) /\ U.ID_Parent = [R.ID_Parent EXCEPT ![x] = R.ID[q]] /\ SameBut(R, U)
      BY <3>3, LinkedOK
    <3> QED
      BY <3>2, <3>4
  <2>7. /\ U.entities = R.entities /\ U.ID = R.ID /\ U.freed = R.freed /\ U.blocks = R.blocks
        /\ U.net = R.net /\ U.failed = R.failed /\ U \in Servers /\ TreeOK(U)
    BY <2>6, ServerTypes, ServerTree1 DEF SameBut
  <2>8. U.ID_Parent[e] = parent /\ \A y \in Entities : y # e => U.ID_Parent[y] = S.ID_Parent[y]
    BY <1>1, <1>4, <1>5, <2>3, <2>6
  <2>9. PICK m \in Messages : Says(m, "SPAWN", parent, i, e, p) /\ Told(U, T, m)
    BY <1>4, <1>6, <1>9, <2>3, <2>5, <2>7, TellFacts
  <2>10. m.type = "SPAWN" /\ m.e = e /\ m.id = i /\ m.p = p /\ m.parent = parent /\ ChangeOf(m).to = p
    BY <2>9 DEF Says, ChangeOf
  <2>11. Allowed(TreeView(S), m)
    <3>1. TreeView(S).at[p] # Absent /\ TreeView(S).id[p] = parent
      BY <1>1, <2>1, ViewPlaces
    <3> QED
      BY <1>7, <1>9, <2>1, <2>10, <3>1 DEF Allowed
  <2>12. TreeView(U).at[e] = ChangeOf(m).to
    <3>1. On(U, e) /\ Has(U, p, e)
      BY <1>6, <2>1, <2>3, <2>7, <2>8 DEF On, Has
    <3> QED
      BY <2>1, <2>7, <2>10, <3>1, ViewPlaces
  <2>13. Good(T, G, W)
    <3>1. /\ U.ID = [S.ID EXCEPT ![e] = i] /\ U.entities = [S.entities EXCEPT ![i] = e]
          /\ U.freed = S.freed /\ U.blocks = S.blocks /\ U.net = S.net
      BY <1>4, <1>5, <2>7
    <3> QED
      BY ZenonT(60), <1>1, <1>2, <2>6, <2>8, <2>9, <2>10, <2>11, <2>12, <3>1, SpawnSide
  <2>14. T.failed = U.failed
    BY <2>9 DEF Told
  <2>15. \A x \in Entities : About(T, G, x) <=> About(S, G, x) \/ x = m.e
    <3>1. U.net = S.net
      BY <1>4, <1>5, <2>7
    <3> QED
      BY <1>1, <2>9, <3>1, ToldLog
  <2> QED
    BY <1>4, <1>5, <2>7, <2>13, <2>14, <2>15
<1> QED
  BY <1>8, <1>9

\* add_online: an entity that has been offline comes back under its ID, as a new object.
LEMMA RespawnGood ==
    ASSUME NEW S, TreeOK(S), NEW G \in Envs, NEW W, Side(S, G, W), G.phase = "update",
           NEW x \in Entities, S.ID[x] # NULL, ~On(S, x), G.object[x] = "none", ~About(S, G, x),
           S.ID_Parent[x] = NULL \/ \E p \in Owners : Has(S, p, x) /\ On(S, p),
           NEW T, T = Respawned(S, x)
    PROVE  /\ TreeOK(T) /\ Side(T, G, W)
           /\ T.ID = S.ID /\ T.ID_Parent = S.ID_Parent /\ T.children = S.children
           /\ T.failed = S.failed
           /\ \A y \in Entities : On(T, y) <=> On(S, y) \/ y = x
           /\ \A y \in Entities : About(T, G, y) <=> About(S, G, y) \/ y = x
<1>1. /\ S \in Servers /\ StacksOK(S) /\ NamesOK(S) /\ LinksOK(S)
      /\ S.entities \in [IDs -> Entities \cup {NULL}] /\ S.ID \in [Entities -> IDs \cup {NULL}]
      /\ S.ID_Parent \in [Entities -> IDs \cup {NULL}]
  BY DEF TreeOK, Servers
<1>i. PICK i \in IDs : i = S.ID[x]
  BY <1>1
<1>u. \A y, z \in Entities : S.ID[y] = S.ID[z] /\ S.ID[y] # NULL => y = z
  BY <1>1 DEF NamesOK
<1>2. PICK S1 : S1 = [S EXCEPT !.entities[i] = NULL, !.ID[x] = NULL]
  OBVIOUS
<1>3. /\ S1.entities = [S.entities EXCEPT ![i] = NULL] /\ S1.ID = [S.ID EXCEPT ![x] = NULL]
      /\ S1.ID_Parent = S.ID_Parent /\ S1.children = S.children /\ S1.free = S.free
      /\ S1.blocks = S.blocks /\ S1.freed = S.freed /\ S1.net = S.net /\ S1.failed = S.failed
      /\ S1 \in Servers
  BY <1>1, <1>2 DEF Servers
<1>4. FreeIDs(S1) = FreeIDs(S) /\ StacksOK(S1)
  BY <1>1, <1>3, SameStacks
<1>5. i \notin FreeIDs(S1)
  BY <1>1, <1>4, <1>i DEF NamesOK
<1>6. PICK F : F = vfFreeID(S1, i)
  OBVIOUS
<1>7. PICK Q : Q = Taken(F, i)
  OBVIOUS
<1>8. /\ Q \in Servers /\ StacksOK(Q) /\ Q.free = S1.free
      /\ Q.entities = S1.entities /\ Q.ID = S1.ID /\ Q.ID_Parent = S1.ID_Parent
      /\ Q.children = S1.children /\ Q.net = S1.net /\ Q.failed = S1.failed
      /\ Q.freed = S1.freed \cup {Block(i)}
      /\ \A H : LateBlocks(S1, H) => LateBlocks(Q, H)
  BY <1>3, <1>4, <1>5, <1>6, <1>7, TakenBack
<1>9. PICK E, parent : E = Entered(Q, x, i, parent) /\ parent = S.ID_Parent[x]
  OBVIOUS
<1>10. T = Tell(E, "SPAWN", parent, i)
  <2>1. F = entity_Destroy(S, x)
    BY <1>2, <1>6, <1>i DEF entity_Destroy
  <2> QED
    BY <1>7, <1>9, <1>i, <2>1 DEF Respawned
<1>11. /\ E.entities = [S.entities EXCEPT ![i] = x] /\ E.ID = S.ID /\ E.ID_Parent = S.ID_Parent
       /\ E.children = S.children /\ E.free = S.free /\ E.blocks = Q.blocks
       /\ E.freed = S.freed \cup {Block(i)} /\ E.net = S.net /\ E.failed = S.failed
       /\ E \in Servers
  <2>1. E = [Q EXCEPT !.entities[i] = x, !.ID[x] = i, !.ID_Parent[x] = parent]
    BY <1>9 DEF Entered
  <2>2. /\ E.entities = [Q.entities EXCEPT ![i] = x] /\ E.ID = [Q.ID EXCEPT ![x] = i]
        /\ E.ID_Parent = [Q.ID_Parent EXCEPT ![x] = parent]
        /\ E.children = Q.children /\ E.free = Q.free /\ E.blocks = Q.blocks
        /\ E.freed = Q.freed /\ E.net = Q.net /\ E.failed = Q.failed
    BY <1>8, <2>1 DEF Servers
  <2>3. [[S.entities EXCEPT ![i] = NULL] EXCEPT ![i] = x] = [S.entities EXCEPT ![i] = x]
    BY <1>1
  <2>4. [[S.ID EXCEPT ![x] = NULL] EXCEPT ![x] = i] = S.ID
    BY <1>1, <1>i
  <2>5. [S.ID_Parent EXCEPT ![x] = parent] = S.ID_Parent
    BY <1>1, <1>9
  <2>6. E.entities = [S.entities EXCEPT ![i] = x] /\ E.ID = S.ID /\ E.ID_Parent = S.ID_Parent
    BY <1>3, <1>8, <2>2, <2>3, <2>4, <2>5
  <2>7. E.entities \in [IDs -> Entities \cup {NULL}]
    BY <1>1, <2>6
  <2>8. E \in Servers
    <3>1. PICK a \in [IDs -> Entities \cup {NULL}], c \in [Entities -> IDs \cup {NULL}],
               d \in [Entities -> IDs \cup {NULL}] : a = E.entities /\ c = E.ID /\ d = E.ID_Parent
      BY <1>1, <2>6, <2>7
    <3>2. E = [Q EXCEPT !.entities = a, !.ID = c, !.ID_Parent = d]
      BY <1>8, <2>1, <2>2, <3>1 DEF Servers
    <3> QED
      BY <1>8, <3>2 DEF Servers
  <2> QED
    BY <1>3, <1>8, <2>2, <2>6, <2>8
<1>12. /\ \A j \in IDs : E.entities[j] = IF j = i THEN x ELSE S.entities[j]
       /\ x # NULL /\ i # NULL
  BY <1>1, <1>11, NoClash
<1>13. \A y \in Entities : On(E, y) <=> On(S, y) \/ y = x
  <2>1. ASSUME NEW y \in Entities PROVE On(E, y) <=> On(S, y) \/ y = x
    <3>1. CASE y = x
      BY <1>11, <1>12, <1>i, <3>1 DEF On
    <3>2. CASE y # x
      <4>1. S.ID[y] # NULL => S.ID[y] # i /\ S.ID[y] \in IDs
        BY <1>1, <1>u, <1>i, <3>2
      <4> QED
        BY <1>11, <1>12, <3>2, <4>1 DEF On
    <3> QED
      BY <3>1, <3>2
  <2> QED
    BY <2>1
<1>14. FreeIDs(E) = FreeIDs(S)
  BY <1>11 DEF FreeIDs
<1>15. StacksOK(E)
  BY <1>3, <1>8, <1>11 DEF StacksOK
<1>16. NamesOK(E)
  <2>1. ASSUME NEW j \in IDs, E.entities[j] # NULL PROVE E.ID[E.entities[j]] = j
    BY <1>1, <1>11, <1>12, <1>i, <2>1 DEF NamesOK
  <2> QED
    BY <1>1, <1>11, <1>14, <2>1 DEF NamesOK
<1>17. \A y, p \in Entities : Has(E, p, y) <=> Has(S, p, y)
  BY <1>11 DEF Has
<1>18. LinksOK(E)
  <2>1. \A p \in Entities : Kids(E, p) = Kids(S, p)
    BY <1>11 DEF Kids
  <2> QED
    BY <1>1, <1>11, <1>17, <2>1 DEF LinksOK
<1>19. ASSUME NEW y \in Entities, NEW p \in Entities, Has(S, p, y), On(E, y) PROVE On(E, p)
  <2>1. CASE y = x
    <3>1. PICK q \in Owners : Has(S, q, x) /\ On(S, q) /\ q \in Entities
      BY <1>19, <2>1, NoClash DEF Has
    <3>2. q = p
      BY <1>19, <1>u, <2>1, <3>1 DEF Has
    <3> QED
      BY <1>13, <3>1, <3>2
  <2>2. CASE y # x
    BY <1>13, <1>19, <2>2 DEF TreeOK
  <2> QED
    BY <2>1, <2>2
<1>20. TreeOK(E)
  BY <1>11, <1>15, <1>16, <1>17, <1>18, <1>19 DEF TreeOK
<1>21. PICK p : \/ p = NULL /\ parent = NULL
                \/ /\ p \in Owners /\ p \in Entities /\ Has(S, p, x) /\ On(S, p) /\ parent = S.ID[p]
                   /\ parent \in IDs /\ p # x /\ x \in Items
  <2>1. CASE S.ID_Parent[x] = NULL
    BY <1>9, <2>1
  <2>2. CASE S.ID_Parent[x] # NULL
    <3>1. PICK q \in Owners : Has(S, q, x) /\ On(S, q) /\ q \in Entities
      BY <2>2, NoClash
    <3>2. x \in Items
      BY <1>1, <2>2 DEF LinksOK
    <3>3. S.ID[q] = parent /\ parent \in IDs
      BY <1>1, <1>9, <2>2, <3>1 DEF Has
    <3> QED
      BY <3>1, <3>2, <3>3, NoClash
  <2> QED
    BY <2>1, <2>2
<1>22. \/ p = NULL /\ parent = NULL
       \/ parent \in IDs /\ p \in Owners /\ E.entities[parent] = p
  <2>1. ASSUME p # NULL PROVE E.entities[parent] = p
    <3>1. S.entities[parent] = p /\ parent # i
      BY <1>21, <1>u, <1>i, <2>1, NoClash DEF On
    <3> QED
      BY <1>12, <1>21, <2>1, <3>1
  <2> QED
    BY <1>21, <2>1, NoClash
<1>23. PICK m \in Messages : Says(m, "SPAWN", parent, i, x, p) /\ Told(E, T, m)
  BY <1>10, <1>11, <1>12, <1>22, TellFacts
<1>24. /\ m.type = "SPAWN" /\ m.e = x /\ m.id = i /\ m.p = p /\ m.parent = parent
       /\ ChangeOf(m).to = p
  BY <1>23 DEF Says, ChangeOf
<1>25. /\ T \in Servers /\ T.net = Append(S.net, m)
       /\ T.entities = E.entities /\ T.ID = E.ID /\ T.ID_Parent = E.ID_Parent
       /\ T.children = E.children /\ T.free = E.free /\ T.blocks = E.blocks
       /\ T.freed = E.freed /\ T.failed = E.failed
  BY <1>11, <1>23 DEF Told
<1>26. /\ TreeOK(T) /\ TreeView(T) = TreeView(E)
       /\ \A y \in Entities : On(T, y) <=> On(E, y)
  BY <1>20, <1>25, SameTree
<1>27. Allowed(TreeView(S), m)
  <2>1. TreeView(S).at[x] = Absent
    BY ViewPlaces
  <2>2. p # NULL => TreeView(S).at[p] # Absent /\ TreeView(S).id[p] = parent
    BY <1>21, ViewPlaces
  <2> QED
    BY <1>21, <1>24, <2>1, <2>2, NoClash DEF Allowed
<1>28. TreeView(T) = After(TreeView(S), m)
  <2>1. ASSUME NEW y \in Entities, y # x PROVE Stays(S, E, y)
    BY <1>11, <1>13, <1>17, <2>1 DEF Stays
  <2>2. On(E, x) /\ E.ID[x] = i /\ (p = NULL => E.ID_Parent[x] = NULL) /\ (p # NULL => Has(E, p, x) /\ p \in Entities)
    BY <1>9, <1>11, <1>13, <1>17, <1>21, <1>i, NoClash
  <2>3. TreeView(E).at[x] = p /\ TreeView(E).id[x] = i
    BY <1>20, <2>2, ViewPlaces
  <2>4. m.type # "DESTROY"
    BY <1>24
  <2> QED
    BY <1>20, <1>24, <1>26, <2>1, <2>3, <2>4, ViewAfter
<1>29. Renamed(S, T, G)
  BY <1>11, <1>25 DEF Renamed
<1>30. StillOff(S, T, G)
  BY <1>11, <1>13, <1>25, <1>26 DEF StillOff, Switcher
<1>31. LateBlocks(T, G)
  <2>1. LateBlocks(S1, G)
    BY <1>3 DEF Side, LateBlocks, Recent
  <2>2. LateBlocks(Q, G)
    BY <1>8, <2>1
  <2> QED
    BY <1>3, <1>8, <1>11, <1>25, <2>2 DEF LateBlocks, Recent
<1>32. Side(T, G, W)
  <2>1. /\ T.net = Append(S.net, m) /\ S.ID[m.e] = m.id /\ On(T, m.e)
        /\ G.object[m.e] = "none" /\ ~About(S, G, m.e) /\ G.phase # "events"
    BY <1>13, <1>24, <1>25, <1>26, <1>i
  <2> QED
    BY <1>27, <1>28, <1>29, <1>30, <1>31, <2>1, TellSide
<1>33. \A y \in Entities : About(T, G, y) <=> About(S, G, y) \/ y = m.e
  BY <1>1, <1>11, <1>23, ToldLog
<1> QED
  BY <1>11, <1>13, <1>24, <1>25, <1>26, <1>32, <1>33

LEMMA ConsPlaces ==
    ASSUME NEW X, NEW s \in Seq(X), NEW i \in X, NEW L, L = <<i>> \o s
    PROVE  /\ L \in Seq(X) /\ Len(L) = Len(s) + 1 /\ Len(s) \in Nat /\ L[1] = i
           /\ \A k \in 1 .. Len(s) : L[k + 1] = s[k]
<1>1. Len(s) \in Nat
  OBVIOUS
<1>2. L \in Seq(X) /\ Len(L) = Len(s) + 1
  OBVIOUS
<1>3. L[1] = i
  BY <1>1
<1>4. ASSUME NEW k \in 1 .. Len(s) PROVE L[k + 1] = s[k]
  BY <1>1
<1> QED
  BY <1>1, <1>2, <1>3, <1>4

\* The entities with these IDs have come online.
Up(S, T, G, K) ==
    /\ T.ID = S.ID /\ T.ID_Parent = S.ID_Parent /\ T.children = S.children /\ T.failed = S.failed
    /\ \A y \in Entities : On(T, y) <=> On(S, y) \/ S.ID[y] \in K
    /\ \A y \in Entities : About(T, G, y) <=> About(S, G, y) \/ S.ID[y] \in K

LEMMA UpMore ==
    ASSUME NEW S, NamesOK(S), NEW T, NEW G, NEW K, Up(S, T, G, K), TreeOK(T),
           NEW W, NEW H, H = G, H \in Envs, Side(T, G, W), G.phase = "update",
           NEW x \in Entities, S.ID[x] # NULL, S.ID[x] \notin K, ~On(S, x),
           G.object[x] = "none", ~About(S, G, x),
           S.ID_Parent[x] = NULL \/ \E p \in Owners : Has(S, p, x) /\ S.ID[p] \in K,
           NEW U, U = Respawned(T, x)
    PROVE  TreeOK(U) /\ Side(U, G, W) /\ Up(S, U, G, K \cup {S.ID[x]})
<1>1. /\ T.ID = S.ID /\ T.ID_Parent = S.ID_Parent /\ T.children = S.children /\ T.failed = S.failed
      /\ \A y \in Entities : On(T, y) <=> On(S, y) \/ S.ID[y] \in K
      /\ \A y \in Entities : About(T, G, y) <=> About(S, G, y) \/ S.ID[y] \in K
  BY DEF Up
<1>2. /\ T.ID[x] # NULL /\ ~On(T, x) /\ ~About(T, G, x) /\ G \in Envs
      /\ (T.ID_Parent[x] = NULL \/ \E p \in Owners : Has(T, p, x) /\ On(T, p))
  <2>1. ASSUME NEW p \in Owners, Has(S, p, x), S.ID[p] \in K PROVE Has(T, p, x) /\ On(T, p)
    BY <1>1, <2>1, NoClash DEF Has
  <2> QED
    BY <1>1, <2>1
<1>3. /\ TreeOK(U) /\ Side(U, G, W)
      /\ U.ID = T.ID /\ U.ID_Parent = T.ID_Parent /\ U.children = T.children
      /\ U.failed = T.failed
      /\ \A y \in Entities : On(U, y) <=> On(T, y) \/ y = x
      /\ \A y \in Entities : About(U, G, y) <=> About(T, G, y) \/ y = x
  BY <1>2, RespawnGood
<1>4. \A y \in Entities : S.ID[y] \in K \cup {S.ID[x]} <=> S.ID[y] \in K \/ y = x
  BY DEF NamesOK
<1>5. Up(S, U, G, K \cup {S.ID[x]})
  BY <1>1, <1>3, <1>4 DEF Up
<1> QED
  BY <1>3, <1>5

\* An owner comes online before his items.
LEMMA AllRespawned ==
    ASSUME NEW S, NEW G \in Envs, NEW W, Good(S, G, W), G.phase = "update",
           NEW e \in Entities, S.ID[e] # NULL, ~On(S, e), S.ID_Parent[e] = NULL, e \notin G.switched,
           \A y \in Entities : S.ID[y] # NULL => Called(S.ID[y]) = y,
           NEW T, T = RespawnedAll(S, <<S.ID[e]>> \o S.children[e])
    PROVE  /\ Good(T, G, W) /\ T.failed = S.failed
           /\ \A y \in Entities : About(S, G, y) => About(T, G, y)
<1>1. /\ ServerOK(S) /\ TreeOK(S) /\ Side(S, G, W) /\ S \in Servers /\ NamesOK(S)
      /\ S.ID \in [Entities -> IDs \cup {NULL}] /\ S.children \in [Entities -> Seq(IDs)]
  BY ServerTypes, ServerTree1 DEF Good, ServerOK
<1>2. PICK id \in IDs, s \in Seq(IDs) : id = S.ID[e] /\ s = S.children[e]
  BY <1>1
<1>3. IsInjective(s) /\ Range(s) = Kids(S, e)
  BY <1>1, <1>2 DEF ServerOK, LinksOK, Kids
<1>4. PICK L : L = <<id>> \o s
  OBVIOUS
<1> DEFINE n == Len(s)
<1>5. /\ L \in Seq(IDs) /\ Len(L) = n + 1 /\ n \in Nat /\ L[1] = id
      /\ \A k \in 1 .. n : L[k + 1] = s[k]
  BY <1>4, ConsPlaces
<1>6. PICK t : Goes(t, "Respawned", NULL, S, L, Len(L)) /\ t[Len(L)] = RespawnedAll(S, L)
  BY <1>5, FoldRespawned
<1>7. /\ t[0] = S /\ t[Len(L)] = T
      /\ \A k \in 1 .. Len(L) : t[k] = Respawned(t[k - 1], Called(L[k]))
  BY <1>2, <1>4, <1>6 DEF Goes, Folded
<1>8. /\ Upto(s, 0) = {} /\ Upto(s, n) = Kids(S, e)
      /\ \A k \in 1 .. n : /\ Upto(s, k) = Upto(s, k - 1) \cup {s[k]}
                           /\ s[k] \notin Upto(s, k - 1) /\ s[k] \in Kids(S, e) /\ s[k] \in IDs
      /\ \A k \in 0 .. n : Upto(s, k) \subseteq Kids(S, e)
  <2>1. \A k \in 0 .. n : \A j \in 1 .. k : j \in 1 .. n
    BY <1>5
  <2>2. \A j \in 1 .. n : s[j] \in Kids(S, e)
    BY <1>3 DEF Range
  <2>3. \A k \in 0 .. n : Upto(s, k) \subseteq Kids(S, e)
    BY <2>1, <2>2 DEF Upto
  <2>4. /\ Upto(s, 0) = {} /\ Upto(s, n) = Kids(S, e)
        /\ \A k \in 1 .. n : /\ Upto(s, k) = Upto(s, k - 1) \cup {s[k]}
                             /\ s[k] \notin Upto(s, k - 1) /\ s[k] \in Kids(S, e) /\ s[k] \in IDs
    BY <1>3, UptoFacts
  <2> QED
    BY <2>3, <2>4
<1> HIDE DEF n
<1>9. \A x \in Entities : Switcher(S, x, e) /\ S.ID[x] # NULL /\ ~On(S, x) =>
          G.object[x] = "none" /\ ~About(S, G, x)
  BY <1>1 DEF Side, OffGone
<1>10. id \notin Kids(S, e)
  BY <1>1, <1>2, Child
<1> DEFINE OK(k) == TreeOK(t[k + 1]) /\ Side(t[k + 1], G, W) /\ Up(S, t[k + 1], G, {id} \cup Upto(s, k))
           Q == {k \in Nat : k <= n => OK(k)}
<1>11. OK(0)
  <2>1. PICK U : U = t[1]
    OBVIOUS
  <2>2. U = Respawned(S, e)
    <3>1. 1 \in 1 .. Len(L) /\ 1 - 1 = 0
      BY <1>5
    <3>2. Called(id) = e
      BY <1>2
    <3> QED
      BY <1>5, <1>7, <2>1, <3>1, <3>2
  <2>3. Up(S, S, G, {})
    BY DEF Up
  <2>4. G.object[e] = "none" /\ ~About(S, G, e)
    BY <1>9 DEF Switcher
  <2>5. TreeOK(U) /\ Side(U, G, W) /\ Up(S, U, G, {} \cup {S.ID[e]})
    <3>1. PICK K : K = {}
      OBVIOUS
    <3>2. Up(S, S, G, K) /\ S.ID[e] \notin K
      BY <2>3, <3>1
    <3>3. TreeOK(U) /\ Side(U, G, W) /\ Up(S, U, G, K \cup {S.ID[e]})
      BY <1>1, <2>2, <2>4, <3>2, UpMore
    <3> QED
      BY <3>1, <3>3
  <2>6. {} \cup {S.ID[e]} = {id} \cup Upto(s, 0) /\ 0 + 1 = 1
    BY <1>2, <1>8
  <2> QED
    BY <2>1, <2>5, <2>6
<1>12. ASSUME NEW k \in 1 .. n, OK(k - 1) PROVE OK(k)
  <2>1. PICK R, A, i : R = t[k] /\ A = {id} \cup Upto(s, k - 1) /\ i = s[k]
    OBVIOUS
  <2>2. /\ i \in Kids(S, e) /\ i \notin A /\ i \in IDs /\ id \in A
        /\ {id} \cup Upto(s, k) = A \cup {i}
    BY <1>8, <1>10, <2>1
  <2>3. PICK U : U = t[k + 1]
    OBVIOUS
  <2>4. U = Respawned(R, Called(i))
    <3>1. k + 1 \in 1 .. Len(L) /\ (k + 1) - 1 = k
      BY <1>5
    <3> QED
      BY <1>5, <1>7, <2>1, <2>3, <3>1
  <2>5. PICK x \in Items : x \in Entities /\ S.ID[x] = i /\ Has(S, e, x) /\ e \in Owners /\ ~On(S, x)
    BY <1>1, <2>2, Child
  <2>6. Called(i) = x /\ S.ID[x] # NULL
    BY <2>2, <2>5, NoClash
  <2>7. G.object[x] = "none" /\ ~About(S, G, x)
    <3>1. Switcher(S, x, e)
      BY <2>5 DEF Has, Switcher
    <3> QED
      BY <1>9, <2>5, <2>6, <3>1
  <2>8. TreeOK(R) /\ Side(R, G, W) /\ Up(S, R, G, A)
    <3>1. (k - 1) + 1 = k
      BY <1>5
    <3> QED
      BY <1>12, <2>1, <3>1
  <2>9. TreeOK(U) /\ Side(U, G, W) /\ Up(S, U, G, A \cup {i})
    <3>1. \E p \in Owners : Has(S, p, x) /\ S.ID[p] \in A
      BY <1>2, <2>2, <2>5
    <3>2. U = Respawned(R, x) /\ S.ID[x] \notin A /\ S.ID[x] = i
      BY <2>2, <2>4, <2>5, <2>6
    <3>3. TreeOK(U) /\ Side(U, G, W) /\ Up(S, U, G, A \cup {S.ID[x]})
      BY <1>1, <2>5, <2>6, <2>7, <2>8, <3>1, <3>2, UpMore
    <3> QED
      BY <3>2, <3>3
  <2> QED
    BY <2>2, <2>3, <2>9
<1>13. OK(n)
  <2> HIDE DEF OK
  <2>1. 0 \in Q
    BY <1>11
  <2>2. ASSUME NEW k \in Nat, k \in Q PROVE k + 1 \in Q
    <3>1. SUFFICES ASSUME k + 1 <= n PROVE OK(k + 1)
      OBVIOUS
    <3>2. k + 1 \in 1 .. n /\ (k + 1) - 1 = k /\ OK(k)
      BY <1>5, <2>2, <3>1
    <3> QED
      BY <1>12, <3>2
  <2>3. Nat \subseteq Q
    <3> HIDE DEF Q
    <3> QED
      BY <2>1, <2>2, NaturalInduction
  <2> QED
    BY <1>5, <2>3
<1>14. TreeOK(T) /\ Side(T, G, W) /\ Up(S, T, G, {id} \cup Kids(S, e))
  BY <1>5, <1>7, <1>8, <1>13
<1>15. Together(T)
  <2>1. ASSUME NEW x \in Entities, NEW p \in Entities, Has(T, p, x) PROVE On(T, p) <=> On(T, x)
    <3>1. Has(S, p, x)
      BY <1>14, <2>1 DEF Up, Has
    <3>2. S.ID[x] \in Kids(S, p) /\ p # x /\ (On(S, p) <=> On(S, x))
      BY <1>1, <3>1, HasFacts
    <3>3. CASE p = e
      BY <1>2, <1>14, <3>2, <3>3 DEF Up
    <3>4. CASE p # e
      <4>1. S.ID[p] # id
        BY <1>1, <1>2, <3>4 DEF NamesOK
      <4>2. S.ID[p] \notin Kids(S, e)
        <5>1. SUFFICES ASSUME S.ID[p] \in Kids(S, e) PROVE FALSE
          OBVIOUS
        <5>2. PICK y \in Items : y \in Entities /\ S.ID[y] = S.ID[p] /\ Has(S, e, y) /\ Kids(S, y) = {}
                                 /\ S.ID[p] \in IDs
          BY <1>1, <5>1, Child
        <5>3. y = p
          BY <1>1, <5>2, NoClash DEF NamesOK
        <5> QED
          BY <3>2, <5>2, <5>3
      <4>3. S.ID[x] # id
        BY <1>1, <1>2, <3>1 DEF NamesOK, Has
      <4>4. S.ID[x] \notin Kids(S, e)
        <5>1. SUFFICES ASSUME S.ID[x] \in Kids(S, e) PROVE FALSE
          OBVIOUS
        <5>2. PICK y \in Items : y \in Entities /\ S.ID[y] = S.ID[x] /\ Has(S, e, y) /\ S.ID[x] \in IDs
          BY <1>1, <5>1, Child
        <5>3. y = x
          BY <1>1, <5>2, NoClash DEF NamesOK
        <5>4. e = p
          BY <1>1, <3>1, <5>2, <5>3, HasFacts
        <5> QED
          BY <3>4, <5>4
      <4> QED
        BY <1>14, <3>2, <4>1, <4>2, <4>3, <4>4 DEF Up
    <3> QED
      BY <3>3, <3>4
  <2> QED
    BY <2>1 DEF Together
<1>16. Good(T, G, W)
  BY <1>14, <1>15 DEF Good, ServerOK, TreeOK
<1> QED
  BY <1>14, <1>16 DEF Up

\* remove_online.
LEMMA ReversePlaces ==
    ASSUME NEW X, NEW s \in Seq(X), IsInjective(s), NEW u, u = Reverse(s)
    PROVE  u \in Seq(X) /\ IsInjective(u) /\ Range(u) = Range(s)
<1>1. /\ u = [k \in 1 .. Len(s) |-> s[(Len(s) - k) + 1]] /\ Len(s) \in Nat
      /\ \A k \in 1 .. Len(s) : (Len(s) - k) + 1 \in 1 .. Len(s) /\ s[k] \in X
      /\ \A k \in 1 .. Len(s) : (Len(s) - ((Len(s) - k) + 1)) + 1 = k
      /\ \A j, k \in 1 .. Len(s) : (Len(s) - j) + 1 = (Len(s) - k) + 1 => j = k
  BY DEF Reverse
<1>2. DOMAIN u = 1 .. Len(s) /\ \A k \in 1 .. Len(s) : u[k] = s[(Len(s) - k) + 1]
  BY <1>1
<1>3. u \in Seq(X)
  BY <1>1
<1>4. IsInjective(u)
  BY <1>1, <1>2 DEF IsInjective
<1>5. Range(u) \subseteq Range(s)
  BY <1>1, <1>2 DEF Range
<1>6. Range(s) \subseteq Range(u)
  <2>1. ASSUME NEW k \in 1 .. Len(s) PROVE \E j \in 1 .. Len(s) : u[j] = s[k]
    BY <1>1, <1>2
  <2>2. DOMAIN s = 1 .. Len(s)
    OBVIOUS
  <2>3. ASSUME NEW v \in Range(s) PROVE v \in Range(u)
    <3>1. PICK k \in 1 .. Len(s) : v = s[k]
      BY <2>2 DEF Range
    <3>2. PICK j \in 1 .. Len(s) : u[j] = v
      BY <2>1, <3>1
    <3> QED
      BY <1>2, <3>2 DEF Range
  <2> QED
    BY <2>3
<1> QED
  BY <1>3, <1>4, <1>5, <1>6

\* The simulator has met more entities.
Wider(G, H) ==
    /\ H.events = G.events /\ H.object = G.object /\ H.net_ID = G.net_ID
    /\ H.settling = G.settling /\ H.phase = G.phase /\ G.switched \subseteq H.switched

LEMMA WiderSide ==
    ASSUME NEW S, NEW G, NEW H, Wider(G, H)
    PROVE  /\ \A W : Side(S, G, W) => Side(S, H, W)
           /\ \A e, i : Leaves(S, H, e, i) <=> Leaves(S, G, e, i)
           /\ \A e : About(S, H, e) <=> About(S, G, e)
           /\ Crossed(S, H) <=> Crossed(S, G)
<1>1. Log(S, H) = Log(S, G) /\ Recent(S, H) = Recent(S, G) /\ H.object = G.object
      /\ H.net_ID = G.net_ID /\ H.phase = G.phase /\ H.settling = G.settling
      /\ G.switched \subseteq H.switched
  BY DEF Wider, Log, Recent
<1>2. \A e, i : Leaves(S, H, e, i) <=> Leaves(S, G, e, i)
  BY <1>1 DEF Leaves
<1>3. \A e : About(S, H, e) <=> About(S, G, e)
  BY <1>1 DEF About
<1>4. Crossed(S, H) <=> Crossed(S, G)
  BY <1>1 DEF Crossed
<1>5. ASSUME NEW W, Side(S, G, W) PROVE Side(S, H, W)
  <2>1. Reaches(W, Log(S, H), TreeView(S))
    BY <1>1, <1>5 DEF Side
  <2>2. Traces(S, H)
    BY <1>1, <1>2, <1>5 DEF Side, Traces
  <2>3. OneTrace(S, H)
    BY <1>2, <1>5 DEF Side, OneTrace
  <2>4. SpawnsFresh(S, H)
    BY <1>1, <1>5 DEF Side, SpawnsFresh
  <2>5. OffGone(S, H)
    BY <1>1, <1>3, <1>5 DEF Side, OffGone
  <2>6. LateBlocks(S, H)
    BY <1>1, <1>5 DEF Side, LateBlocks
  <2>7. PhaseOK(S, H)
    BY <1>1, <1>5 DEF Side, PhaseOK
  <2> QED
    BY <2>1, <2>2, <2>3, <2>4, <2>5, <2>6, <2>7 DEF Side
<1> QED
  BY <1>2, <1>3, <1>4, <1>5

LEMMA KeptShape ==
    ASSUME NEW S, ServerOK(S), NEW e \in Entities, NEW x \in Entities, e # x,
           NEW i \in FreeIDs(S), S.entities[i] = NULL, Called(i) = x, server.ID[e] = S.ID[e],
           NEW R, R = Named(S, x, i, NULL), NEW T, T = Kept(S, e, i)
    PROVE  T = LinkedTo(R, e, x)
<1>1. S \in Servers /\ StacksOK(S) /\ i \in IDs
  BY DEF ServerOK, FreeIDs
<1>2. PICK Q : Q = Taken(S, i)
  OBVIOUS
<1>3. Q \in Servers /\ Q.entities = S.entities /\ Q.ID = S.ID
  BY <1>1, <1>2, TakenFacts
<1>4. R = [Q EXCEPT !.entities[i] = NULL, !.ID[x] = i]
  BY <1>2 DEF Named
<1>5. R = [Q EXCEPT !.ID[x] = i]
  <2>1. [Q.entities EXCEPT ![i] = NULL] = Q.entities
    BY <1>1, <1>3 DEF Servers
  <2> QED
    BY <1>3, <1>4, <2>1 DEF Servers
<1>6. R.ID[e] = S.ID[e] /\ R.ID[x] = i
  BY <1>3, <1>5 DEF Servers
<1>7. T = [Q EXCEPT !.ID[x] = i, !.ID_Parent[x] = S.ID[e], !.children[e] = Append(@, i)]
  BY <1>2 DEF Kept
<1>8. LinkedTo(R, e, x) = [R EXCEPT !.ID_Parent[x] = S.ID[e], !.children[e] = Append(@, i)]
  BY SMTT(30), <1>6 DEF LinkedTo
<1> QED
  BY <1>3, <1>5, <1>7, <1>8 DEF Servers

\* The owner has its ID back.
OwnerBack(R, B, e, id) ==
    /\ \A y \in Entities : B.ID[y] = IF y = e THEN id ELSE R.ID[y]
    /\ B.entities = R.entities /\ B.net = R.net /\ B.failed = R.failed
    /\ FreeIDs(B) = FreeIDs(R) \ {id}

\* The items with the IDs of A have them back.
ItemsBack(S, B, V, A) ==
    /\ \A y \in Entities : V.ID[y] = IF S.ID[y] \in A THEN S.ID[y] ELSE B.ID[y]
    /\ V.entities = B.entities /\ V.net = B.net /\ V.failed = B.failed
    /\ FreeIDs(V) = FreeIDs(B) \ A

\* Owner and items have gone, from S to R, and the owner is back, in B.
Returning(S, R, B, G, H, K, e, id) ==
    /\ ServerOK(S) /\ S.ID[e] = id /\ server.ID[e] = id
    /\ \A y \in Entities : S.ID[y] # NULL => Called(S.ID[y]) = y
    /\ Wider(G, H) /\ H.phase = "update" /\ e \in H.switched
    /\ Kids(S, e) \subseteq K /\ Lost(S, R, K) /\ Farewell(S, R, G, K)
    /\ ~On(B, e) /\ OwnerBack(R, B, e, id)

\* The owner is offline and has its ID.
LEMMA OwnerKept ==
    ASSUME NEW R, NEW H \in Envs, NEW W, Good(R, H, W), H.phase = "update",
           NEW e \in Entities, e \in H.switched, NEW id \in IDs, R.ID[e] = NULL,
           R.entities[id] = NULL, id \in FreeIDs(R), Leaves(R, H, e, id),
           NEW B, B = [Taken(R, id) EXCEPT !.ID[e] = id]
    PROVE  Good(B, H, W) /\ ~On(B, e) /\ OwnerBack(R, B, e, id)
<1>1. B = Named(R, e, id, NULL)
  <2>1. PICK Q : Q = Taken(R, id)
    OBVIOUS
  <2>2. R \in Servers /\ StacksOK(R)
    BY DEF Good, ServerOK
  <2>3. Q \in Servers /\ Q.entities = R.entities
    BY <2>1, <2>2, TakenFacts
  <2>4. [Q.entities EXCEPT ![id] = NULL] = Q.entities
    BY Zenon, <2>3 DEF Servers
  <2> QED
    BY Zenon, <2>1, <2>3, <2>4 DEF Named, Servers
<1>2. PICK C : C = B
  OBVIOUS
<1>3. /\ Good(C, H, W) /\ ~On(C, e)
      /\ C.ID = [R.ID EXCEPT ![e] = id] /\ C.entities = R.entities
      /\ FreeIDs(C) = FreeIDs(R) \ {id} /\ C.net = R.net /\ C.failed = R.failed
  BY <1>1, <1>2, BackGood
<1>4. R.ID \in [Entities -> IDs \cup {NULL}]
  BY ServerTypes DEF Good
<1>5. OwnerBack(R, C, e, id)
  BY <1>3, <1>4 DEF OwnerBack
<1> QED
  BY <1>2, <1>3, <1>5

\* One item more of e is offline.
LEMMA OneKept ==
    ASSUME NEW S, NEW R, NEW B, NEW G, NEW H \in Envs, NEW K, NEW e \in Entities, NEW id \in IDs,
           Returning(S, R, B, G, H, K, e, id),
           NEW W, NEW V, Good(V, H, W), NEW A, ItemsBack(S, B, V, A), id \notin A,
           NEW i \in Kids(S, e), i \notin A, NEW U, U = Kept(V, e, i)
    PROVE  Good(U, H, W) /\ ItemsBack(S, B, U, A \cup {i})
<1>0. /\ ServerOK(S) /\ S.ID[e] = id /\ server.ID[e] = id
      /\ \A y \in Entities : S.ID[y] # NULL => Called(S.ID[y]) = y
      /\ Wider(G, H) /\ H.phase = "update" /\ e \in H.switched
      /\ Kids(S, e) \subseteq K /\ Lost(S, R, K) /\ Farewell(S, R, G, K)
      /\ ~On(B, e) /\ OwnerBack(R, B, e, id)
  BY DEF Returning
<1>1. PICK x \in Items : x \in Entities /\ S.ID[x] = i /\ e \in Owners /\ i # id /\ x # e /\ i \in IDs
  BY <1>0, Child
<1>2. \A y \in Entities : S.ID[y] = i => y = x
  BY <1>0, <1>1, NoClash DEF ServerOK, NamesOK
<1>3. R.ID[x] = NULL /\ R.entities[i] = NULL /\ i \in FreeIDs(R) /\ Leaves(R, G, x, i)
  BY <1>0, <1>1 DEF Lost, Farewell
<1>4. B.ID[x] = NULL /\ B.entities[i] = NULL /\ i \in FreeIDs(B) /\ B.net = R.net /\ B.ID[e] = id
  <2>1. /\ \A y \in Entities : B.ID[y] = IF y = e THEN id ELSE R.ID[y]
        /\ B.entities = R.entities /\ B.net = R.net /\ FreeIDs(B) = FreeIDs(R) \ {id}
    BY <1>0 DEF OwnerBack
  <2> QED
    BY <1>1, <1>3, <2>1
<1>5. /\ V.ID[x] = NULL /\ V.entities[i] = NULL /\ i \in FreeIDs(V) /\ V.net = R.net
      /\ V.ID[e] = id /\ V.entities = B.entities
  <2>1. V.ID[x] = NULL /\ i \in FreeIDs(V)
    BY <1>1, <1>4 DEF ItemsBack
  <2>2. S.ID[e] = id
    BY <1>0
  <2>3. V.ID[e] = id
    BY <1>4, <2>2 DEF ItemsBack
  <2>4. V.entities = B.entities /\ V.net = B.net
    BY DEF ItemsBack
  <2> QED
    BY <1>4, <2>1, <2>3, <2>4
<1>6. V.ID[e] # NULL /\ ~On(V, e)
  BY <1>0, <1>4, <1>5, NoClash DEF On
<1>7. Leaves(V, H, x, i)
  <2>1. Leaves(R, H, x, i)
    BY <1>0, <1>3, WiderSide
  <2> QED
    BY <1>5, <2>1, LogSame
<1>8. PICK P : P = Named(V, x, i, NULL)
  OBVIOUS
<1>9. U = LinkedTo(P, e, x)
  <2>1. Called(i) = x /\ server.ID[e] = V.ID[e] /\ e # x /\ ServerOK(V)
    BY <1>0, <1>1, <1>5, NoClash DEF Good
  <2> QED
    BY <1>1, <1>5, <1>8, <2>1, KeptShape
<1>10. /\ Good(U, H, W) /\ U.ID = [V.ID EXCEPT ![x] = i] /\ U.entities = V.entities
       /\ FreeIDs(U) = FreeIDs(V) \ {i} /\ U.net = V.net /\ U.failed = V.failed
  <2>1. PICK T : T = U /\ T = LinkedTo(P, e, x)
    BY <1>9
  <2>2. PICK o \in Owners : o = e
    BY <1>1
  <2>3. /\ Good(T, H, W) /\ T.ID = [V.ID EXCEPT ![x] = i] /\ T.entities = V.entities
        /\ FreeIDs(T) = FreeIDs(V) \ {i} /\ T.net = V.net /\ T.failed = V.failed
    <3>1. /\ o \in H.switched /\ V.ID[o] # NULL /\ ~On(V, o) /\ V.ID[x] = NULL /\ i \in FreeIDs(V)
          /\ V.entities[i] = NULL /\ Leaves(V, H, x, i) /\ T = LinkedTo(P, o, x)
      BY <1>0, <1>5, <1>6, <1>7, <2>1, <2>2
    <3> QED
      BY <1>0, <1>8, <3>1, KeptGood
  <2> QED
    BY <2>1, <2>3
<1>11. ItemsBack(S, B, U, A \cup {i})
  <2>1. V.ID \in [Entities -> IDs \cup {NULL}]
    BY ServerTypes DEF Good
  <2>2. ASSUME NEW y \in Entities
        PROVE  U.ID[y] = IF S.ID[y] \in A \cup {i} THEN S.ID[y] ELSE B.ID[y]
    BY <1>1, <1>2, <1>10, <2>1 DEF ItemsBack
  <2>3. FreeIDs(U) = FreeIDs(B) \ (A \cup {i})
    BY <1>10 DEF ItemsBack
  <2> QED
    BY <1>10, <2>2, <2>3 DEF ItemsBack
<1> QED
  BY <1>10, <1>11

\* T is as good as S for the client's tree W, and what it was told is what R has told it.
Settled(S, R, T, H, W) == Good(T, H, W) /\ T.net = R.net /\ T.failed = S.failed

\* All items of e are offline.
LEMMA ItemsKept ==
    ASSUME NEW S, NEW R, NEW B, NEW G, NEW H \in Envs, NEW K, NEW e \in Entities, NEW id \in IDs,
           Returning(S, R, B, G, H, K, e, id), NEW W, Good(B, H, W),
           NEW s \in Seq(IDs), IsInjective(s), Range(s) = Kids(S, e)
    PROVE  Settled(S, R, KeptAll(B, e, s), H, W)
<1>1. PICK n \in Nat : n = Len(s)
  OBVIOUS
<1>2. PICK t : /\ t[0] = B /\ t[n] = KeptAll(B, e, s)
               /\ \A k \in 1 .. n : t[k] = Kept(t[k - 1], e, s[k])
  <2>1. PICK t : Goes(t, "Kept", e, B, s, Len(s)) /\ t[Len(s)] = KeptAll(B, e, s)
    BY FoldKept
  <2> QED
    BY <1>1, <2>1 DEF Goes, Folded
<1>3. /\ Upto(s, 0) = {} /\ Upto(s, n) = Kids(S, e)
      /\ \A k \in 1 .. n : /\ Upto(s, k) = Upto(s, k - 1) \cup {s[k]}
                           /\ s[k] \notin Upto(s, k - 1) /\ s[k] \in Kids(S, e)
  BY <1>1, UptoFacts
<1>4. \A k \in 1 .. n : Upto(s, k - 1) \subseteq Kids(S, e)
  BY <1>1 DEF Upto, Range
<1>5. id \notin Kids(S, e)
  BY Child DEF Returning
<1> DEFINE OK(k) == Good(t[k], H, W) /\ ItemsBack(S, B, t[k], Upto(s, k))
<1>6. OK(0)
  <2>1. ItemsBack(S, B, B, {})
    BY DEF ItemsBack
  <2> QED
    BY <1>2, <1>3, <2>1
<1>7. ASSUME NEW k \in 1 .. n, OK(k - 1) PROVE OK(k)
  <2>1. PICK V, A, i, U : V = t[k - 1] /\ A = Upto(s, k - 1) /\ i = s[k] /\ U = t[k]
    OBVIOUS
  <2>2. i \in Kids(S, e) /\ i \notin A /\ id \notin A /\ Upto(s, k) = A \cup {i} /\ U = Kept(V, e, i)
    BY <1>2, <1>3, <1>4, <1>5, <2>1
  <2>3. Good(V, H, W) /\ ItemsBack(S, B, V, A)
    BY <1>7, <2>1
  <2>4. Good(U, H, W) /\ ItemsBack(S, B, U, A \cup {i})
    BY <2>2, <2>3, OneKept
  <2> QED
    BY <2>1, <2>2, <2>4
<1> HIDE DEF OK
<1>8. OK(n)
  <2> DEFINE Q == {k \in Nat : k <= n => OK(k)}
  <2>1. 0 \in Q
    BY <1>6
  <2>2. ASSUME NEW k \in Nat, k \in Q PROVE k + 1 \in Q
    <3>1. SUFFICES ASSUME k + 1 <= n PROVE OK(k + 1)
      OBVIOUS
    <3>2. k + 1 \in 1 .. n /\ (k + 1) - 1 = k /\ OK(k)
      BY <1>1, <2>2, <3>1
    <3> QED
      BY <1>7, <3>2
  <2>3. Nat \subseteq Q
    <3> HIDE DEF Q
    <3> QED
      BY <2>1, <2>2, NaturalInduction
  <2> QED
    BY <1>1, <2>3
<1>9. PICK T : T = KeptAll(B, e, s)
  OBVIOUS
<1>10. Good(T, H, W) /\ ItemsBack(S, B, T, Kids(S, e))
  BY <1>2, <1>3, <1>8, <1>9 DEF OK
<1>11. T.net = B.net /\ T.failed = B.failed
  BY <1>10 DEF ItemsBack
<1>12. B.net = R.net /\ B.failed = R.failed /\ R.failed = S.failed
  <2>1. OwnerBack(R, B, e, id) /\ Lost(S, R, K)
    BY DEF Returning
  <2>2. B.net = R.net /\ B.failed = R.failed
    BY <2>1 DEF OwnerBack
  <2>3. R.failed = S.failed
    BY <2>1 DEF Lost
  <2> QED
    BY <2>2, <2>3
<1> QED
  BY <1>9, <1>10, <1>11, <1>12 DEF Settled

\* With its items the entity is offline, and all of them have their IDs.
LEMMA AllKept ==
    ASSUME NEW S, NEW G \in Envs, NEW W, Good(S, G, W), G.phase = "update",
           NEW e \in Entities, On(S, e), S.ID_Parent[e] = NULL,
           \A y \in Entities : S.ID[y] # NULL => Called(S.ID[y]) = y, server.ID[e] = S.ID[e],
           NEW H \in Envs, Wider(G, H), e \in H.switched,
           NEW R, R = RemovedAll(S, Append(Reverse(S.children[e]), S.ID[e])),
           NEW B, B = [Taken(R, S.ID[e]) EXCEPT !.ID[e] = S.ID[e]],
           NEW T, T = KeptAll(B, e, S.children[e])
    PROVE  /\ Good(T, H, W) /\ T.failed = S.failed
           /\ \A y \in Entities : About(S, G, y) => About(T, H, y)
<1>1. /\ ServerOK(S) /\ S.children[e] \in Seq(IDs) /\ IsInjective(S.children[e])
      /\ S.ID \in [Entities -> IDs \cup {NULL}] /\ S.entities \in [IDs -> Entities \cup {NULL}]
  BY ServerTypes DEF Good, ServerOK, LinksOK
<1>2. PICK s \in Seq(IDs) : s = S.children[e] /\ IsInjective(s) /\ Range(s) = Kids(S, e)
  BY <1>1 DEF Kids
<1>3. PICK id \in IDs : id = S.ID[e] /\ S.entities[id] = e
  BY <1>1 DEF On
<1>4. PICK u \in Seq(IDs) : u = Reverse(s) /\ IsInjective(u) /\ Range(u) = Kids(S, e)
  BY <1>2, ReversePlaces
<1>5. PICK K : K = Kids(S, e) \cup {id}
  OBVIOUS
<1>6. Good(R, G, W) /\ Lost(S, R, K) /\ Farewell(S, R, G, K)
  <2>1. R = RemovedAll(S, Append(u, S.ID[e])) /\ K = Kids(S, e) \cup {S.ID[e]}
    BY <1>2, <1>3, <1>4, <1>5
  <2> QED
    BY ZenonT(60), <1>4, <2>1, AllRemoved
<1>7. /\ Good(R, H, W) /\ ServerOK(R) /\ R.ID[e] = NULL /\ R.entities[id] = NULL /\ id \in FreeIDs(R)
      /\ Leaves(R, H, e, id) /\ R.ID_Parent[e] = NULL
  <2>1. ServerOK(R) /\ Side(R, G, W) /\ id \in K /\ S.ID[e] = id
    BY <1>3, <1>5, <1>6 DEF Good
  <2>2. Side(R, H, W)
    BY <2>1, WiderSide
  <2>3. Leaves(R, G, e, id)
    BY <1>6, <2>1 DEF Farewell
  <2>4. Leaves(R, H, e, id)
    BY <2>3, WiderSide
  <2> QED
    BY <1>6, <2>1, <2>2, <2>4 DEF Good, Lost
<1>8. Good(B, H, W) /\ ~On(B, e) /\ OwnerBack(R, B, e, id)
  <2>1. B = [Taken(R, id) EXCEPT !.ID[e] = id] /\ H.phase = "update"
    BY <1>3 DEF Wider
  <2> QED
    BY <1>7, <2>1, OwnerKept
<1>9. Returning(S, R, B, G, H, K, e, id)
  BY SMTT(30), <1>1, <1>3, <1>5, <1>6, <1>8 DEF Returning, Wider
<1>10. Settled(S, R, KeptAll(B, e, s), H, W)
  BY SMTT(30), <1>2, <1>8, <1>9, ItemsKept
<1>11. Good(T, H, W) /\ T.net = R.net /\ T.failed = S.failed
  <2>1. Settled(S, R, T, H, W)
    BY <1>2, <1>10
  <2> QED
    BY <2>1 DEF Settled
<1>12. \A y \in Entities : About(S, G, y) => About(T, H, y)
  <2>1. \A y \in Entities : About(S, G, y) => About(R, G, y)
    BY <1>6 DEF Farewell
  <2>2. \A y : About(R, H, y) <=> About(R, G, y)
    BY WiderSide
  <2>3. \A y : About(T, H, y) <=> About(R, H, y)
    BY <1>11, LogSame
  <2> QED
    BY <2>1, <2>2, <2>3
<1> QED
  BY <1>11, <1>12

\* release: what is offline and holds nothing leaves its owner and gives its ID back.
LEMMA ReleasedGood ==
    ASSUME NEW S, NEW G \in Envs, NEW W, Good(S, G, W), G.phase = "update",
           NEW x \in Entities, S.ID[x] # NULL, ~On(S, x), Kids(S, x) = {},
           \A y \in Entities : S.ID[y] # NULL => Called(S.ID[y]) = y,
           NEW i, i = S.ID[x], NEW T, T = Released(S, x)
    PROVE  Good(T, G, W) /\ Lost(S, T, {i}) /\ T.net = S.net
<1>1. /\ ServerOK(S) /\ Side(S, G, W) /\ TreeOK(S)
      /\ S.entities \in [IDs -> Entities \cup {NULL}] /\ S.ID \in [Entities -> IDs \cup {NULL}]
      /\ S.ID_Parent \in [Entities -> IDs \cup {NULL}]
  BY ServerTypes, ServerTree1 DEF Good
<1>2. \E R : /\ T = entity_Destroy(R, x) /\ ServerOK(R) /\ R.ID_Parent[x] = NULL /\ SameBut(S, R)
             /\ \A y \in Entities : y # x => R.ID_Parent[y] = S.ID_Parent[y]
             /\ \A q \in Entities : Kids(R, q) = Kids(S, q) \ {i}
  <2>1. CASE S.ID_Parent[x] = NULL
    <3>1. T = entity_Destroy(S, x)
      BY <2>1 DEF Released
    <3>2. SameBut(S, S)
      BY DEF SameBut
    <3>3. ASSUME NEW q \in Entities PROVE Kids(S, q) = Kids(S, q) \ {i}
      <4>1. ~(i \in Kids(S, q))
        <5>1. SUFFICES ASSUME i \in Kids(S, q) PROVE FALSE
          OBVIOUS
        <5>2. PICK y \in Items : y \in Entities /\ S.ID[y] = i /\ Has(S, q, y)
          BY <1>1, <5>1, Child
        <5>3. y = x
          BY <1>1, <5>2 DEF ServerOK, NamesOK
        <5> QED
          BY <2>1, <5>2, <5>3 DEF Has
      <4> QED
        BY <4>1
    <3> QED
      BY <1>1, <2>1, <3>1, <3>2, <3>3
  <2>2. CASE S.ID_Parent[x] # NULL
    <3>1. PICK p \in Owners : S.ID[p] = S.ID_Parent[x] /\ p \in Entities
      BY <1>1, <2>2, NoClash DEF ServerOK, LinksOK
    <3>2. Has(S, p, x) /\ Called(S.ID_Parent[x]) = p
      BY <2>2, <3>1 DEF Has
    <3>3. PICK R : R = Unlinked(S, p, x)
      OBVIOUS
    <3>4. /\ ServerOK(R) /\ R.ID_Parent = [S.ID_Parent EXCEPT ![x] = NULL]
          /\ \A q \in Entities : Kids(R, q) = IF q = p THEN Kids(S, p) \ {S.ID[x]} ELSE Kids(S, q)
          /\ SameBut(S, R)
      BY <1>1, <3>1, <3>2, <3>3, UnlinkedOK
    <3>5. T = entity_Destroy(R, x)
      BY <2>2, <3>2, <3>3 DEF Released
    <3>6. ASSUME NEW q \in Entities PROVE Kids(R, q) = Kids(S, q) \ {i}
      <4>1. q # p => ~(i \in Kids(S, q))
        <5>1. SUFFICES ASSUME q # p, i \in Kids(S, q) PROVE FALSE
          OBVIOUS
        <5>2. PICK y \in Items : y \in Entities /\ S.ID[y] = i /\ Has(S, q, y)
          BY <1>1, <5>1, Child
        <5>3. y = x
          BY <1>1, <5>2 DEF ServerOK, NamesOK
        <5>4. q = p
          BY <1>1, <3>1, <3>2, <5>2, <5>3, HasFacts
        <5> QED
          BY <5>1, <5>4
      <4> QED
        BY <3>4, <4>1
    <3>7. R.ID_Parent[x] = NULL /\ \A y \in Entities : y # x => R.ID_Parent[y] = S.ID_Parent[y]
      BY <1>1, <3>4
    <3> QED
      BY <3>4, <3>5, <3>6, <3>7
  <2> QED
    BY <2>1, <2>2
<1>3. PICK R : /\ T = entity_Destroy(R, x) /\ ServerOK(R) /\ R.ID_Parent[x] = NULL /\ SameBut(S, R)
               /\ \A y \in Entities : y # x => R.ID_Parent[y] = S.ID_Parent[y]
               /\ \A q \in Entities : Kids(R, q) = Kids(S, q) \ {i}
  BY <1>2
<1>4. /\ R.entities = S.entities /\ R.ID = S.ID /\ R.freed = S.freed /\ R.blocks = S.blocks
      /\ R.net = S.net /\ R.failed = S.failed /\ FreeIDs(R) = FreeIDs(S) /\ Kids(R, x) = {}
  BY <1>3, SameStacks DEF SameBut
<1>5. /\ ServerOK(T) /\ i \in IDs
      /\ T.ID = [S.ID EXCEPT ![x] = NULL] /\ T.entities = [S.entities EXCEPT ![i] = NULL]
      /\ FreeIDs(T) = FreeIDs(S) \cup {i} /\ T.freed = S.freed \cup {Block(i)}
      /\ T.ID_Parent = R.ID_Parent /\ T.children = R.children
      /\ T.net = S.net /\ T.failed = S.failed
      /\ LateBlocks(R, G) => LateBlocks(T, G)
  <2>1. R.ID[x] # NULL /\ R.ID[x] = i
    BY <1>4
  <2>2. LET j == R.ID[x]
        IN  /\ ServerOK(T) /\ j \in IDs
            /\ T.ID = [R.ID EXCEPT ![x] = NULL] /\ T.entities = [R.entities EXCEPT ![j] = NULL]
            /\ FreeIDs(T) = FreeIDs(R) \cup {j}
            /\ T.freed = R.freed \cup {Block(j)}
            /\ T.ID_Parent = R.ID_Parent /\ T.children = R.children
            /\ T.net = R.net /\ T.failed = R.failed
            /\ \A y \in Entities : y # x => (On(T, y) <=> On(R, y))
            /\ \A D : LateBlocks(R, D) => LateBlocks(T, D)
    BY <1>3, <1>4, <2>1, DestroyedOK
  <2> QED
    BY <1>4, <2>1, <2>2
<1>6. T.entities = S.entities /\ S.entities[i] = NULL
  <2>1. S.entities[i] = NULL
    <3>1. S.entities[i] # NULL => S.ID[S.entities[i]] = i /\ S.entities[i] \in Entities
      BY <1>1, <1>5 DEF ServerOK, NamesOK
    <3> QED
      BY <1>1, <3>1 DEF On, ServerOK, NamesOK
  <2> QED
    BY <1>1, <1>5, <2>1
<1>7. /\ T.ID[x] = NULL /\ T.ID_Parent[x] = NULL /\ ~On(T, x)
      /\ \A y \in Entities : y # x => /\ T.ID[y] = S.ID[y] /\ T.ID_Parent[y] = S.ID_Parent[y]
                                      /\ (On(T, y) <=> On(S, y))
  BY <1>1, <1>3, <1>5, <1>6 DEF On
<1>8. Lost(S, T, {i})
  <2>1. \A y \in Entities : S.ID[y] = i <=> y = x
    BY <1>1 DEF ServerOK, NamesOK
  <2>2. \A q \in Entities : Kids(T, q) = Kids(R, q)
    BY <1>5 DEF Kids
  <2>3. \A j \in IDs : T.entities[j] = IF j \in {i} THEN NULL ELSE S.entities[j]
    BY <1>6
  <2>4. \A y \in Entities : /\ T.ID[y] = IF S.ID[y] \in {i} THEN NULL ELSE S.ID[y]
                            /\ T.ID_Parent[y] = IF S.ID[y] \in {i} THEN NULL ELSE S.ID_Parent[y]
    BY <1>7, <2>1
  <2> QED
    BY <1>3, <1>5, <2>2, <2>3, <2>4 DEF Lost
<1>9. TreeView(T) = TreeView(S)
  <2>1. TreeOK(T)
    BY <1>5, ServerTree1
  <2>2. ASSUME NEW y \in Entities
        PROVE  TreeView(T).at[y] = TreeView(S).at[y] /\ TreeView(T).id[y] = TreeView(S).id[y]
    <3>1. CASE y = x
      BY <1>1, <1>7, <2>1, <3>1, ViewPlaces
    <3>2. CASE y # x
      <4>1. ASSUME NEW p \in Entities, Has(S, p, y) PROVE Has(T, p, y)
        <5>1. p # x
          <6>1. S.ID[y] \in Kids(S, p)
            BY <1>1, <4>1, HasFacts
          <6> QED
            BY <6>1
        <5> QED
          BY <1>7, <3>2, <4>1, <5>1 DEF Has
      <4>2. Stays(S, T, y)
        BY <1>7, <3>2, <4>1 DEF Stays
      <4> QED
        BY <1>1, <2>1, <4>2, StaysView
    <3> QED
      BY <3>1, <3>2
  <2>3. TreeView(T) \in Views /\ TreeView(S) \in Views
    BY <1>1, <2>1, ViewTyped
  <2>4. PICK U, V : U = TreeView(T) /\ V = TreeView(S)
    OBVIOUS
  <2>5. U \in Views /\ V \in Views /\ \A y \in Entities : U.at[y] = V.at[y] /\ U.id[y] = V.id[y]
    BY <2>2, <2>3, <2>4
  <2>6. U = V
    BY <2>5, ViewEqual
  <2> QED
    BY <2>4, <2>6
<1>10. Renamed(S, T, G)
  <2>1. ASSUME NEW y \in Entities, NEW j \in IDs, S.ID[y] = j, T.ID[y] # j
        PROVE  Block(j) \in T.freed /\ \A z \in Entities : T.ID[z] # j
    <3>1. y = x /\ j = i
      BY <1>7, <2>1
    <3>2. \A z \in Entities : T.ID[z] # i
      BY <1>1, <1>5, <1>7, NoClash DEF ServerOK, NamesOK
    <3> QED
      BY <1>5, <3>1, <3>2
  <2>2. ASSUME NEW y \in Entities, NEW j \in IDs, T.ID[y] = j, S.ID[y] # j PROVE FALSE
    BY <1>7, <2>2, NoClash
  <2>3. S.freed \subseteq T.freed
    BY <1>5
  <2> QED
    BY <2>1, <2>2, <2>3 DEF Renamed
<1>11. StillOff(S, T, G)
  <2>1. ASSUME NEW y \in Entities, NEW r \in Entities, T.ID[y] # NULL, ~On(T, y), Switcher(T, y, r)
        PROVE  S.ID[y] # NULL /\ ~On(S, y) /\ Switcher(S, y, r)
    <3>1. y # x
      BY <1>7, <2>1
    <3>2. S.ID[y] # NULL /\ ~On(S, y) /\ T.ID_Parent[y] = S.ID_Parent[y]
      BY <1>7, <2>1, <3>1
    <3>3. T.ID[r] = S.ID_Parent[y] /\ S.ID_Parent[y] # NULL => S.ID[r] = S.ID_Parent[y]
      BY <1>7
    <3> QED
      BY <2>1, <3>2, <3>3 DEF Switcher
  <2> QED
    BY <2>1 DEF StillOff
<1>12. LateBlocks(T, G)
  <2>1. LateBlocks(S, G)
    BY <1>1 DEF Side
  <2>2. LateBlocks(R, G)
    BY <1>4, <2>1 DEF LateBlocks, Recent
  <2> QED
    BY <1>5, <2>2
<1>13. Side(T, G, W)
  BY <1>1, <1>5, <1>9, <1>10, <1>11, <1>12, QuietSide
<1> QED
  BY <1>5, <1>8, <1>13 DEF Good

\* x is offline, holds nothing and is found by its ID.
Idle(S, G, W, x) ==
    /\ Good(S, G, W) /\ S.ID[x] # NULL /\ ~On(S, x) /\ Kids(S, x) = {}
    /\ \A y \in Entities : S.ID[y] # NULL => Called(S.ID[y]) = y

\* It has left, and nobody was told.
Departed(S, T, G, W, i) == Good(T, G, W) /\ Lost(S, T, {i}) /\ T.net = S.net

\* Who is idle departs.
LEMMA IdleReleased ==
    ASSUME NEW S, NEW G \in Envs, G.phase = "update", NEW W, NEW x \in Entities, Idle(S, G, W, x)
    PROVE  Departed(S, Released(S, x), G, W, S.ID[x])
<1>1. PICK i, T : i = S.ID[x] /\ T = Released(S, x)
  OBVIOUS
<1>2. /\ Good(S, G, W) /\ S.ID[x] # NULL /\ ~On(S, x) /\ Kids(S, x) = {}
      /\ \A y \in Entities : S.ID[y] # NULL => Called(S.ID[y]) = y
  BY DEF Idle
<1>3. Good(T, G, W) /\ Lost(S, T, {i}) /\ T.net = S.net
  BY <1>1, <1>2, ReleasedGood
<1> QED
  BY <1>1, <1>3 DEF Departed

\* Its items go first.
LEMMA AllReleased ==
    ASSUME NEW S, NEW G \in Envs, NEW W, Good(S, G, W), G.phase = "update",
           NEW e \in Entities, S.ID[e] # NULL, ~On(S, e),
           \A y \in Entities : S.ID[y] # NULL => Called(S.ID[y]) = y,
           NEW T, T = ReleasedAll(S, Append(S.children[e], S.ID[e]))
    PROVE  Good(T, G, W) /\ T.failed = S.failed /\ T.net = S.net
<1>1. /\ ServerOK(S) /\ S.children[e] \in Seq(IDs) /\ IsInjective(S.children[e])
      /\ S.ID \in [Entities -> IDs \cup {NULL}]
  BY ServerTypes DEF Good, ServerOK, LinksOK
<1>2. PICK s \in Seq(IDs) : s = S.children[e] /\ IsInjective(s) /\ Range(s) = Kids(S, e)
  BY <1>1 DEF Kids
<1>i. PICK id \in IDs : id = S.ID[e] /\ Called(id) = e
  BY <1>1
<1>l. PICK L \in Seq(IDs) : L = Append(s, id)
  BY AppendPlaces
<1>p. PICK t : Goes(t, "Released", NULL, S, L, Len(L)) /\ t[Len(L)] = ReleasedAll(S, L)
  BY FoldReleased
<1>3. /\ t[0] = S /\ t[Len(L)] = T
      /\ \A k \in 1 .. Len(L) : t[k] = Released(t[k - 1], Called(L[k]))
  BY <1>2, <1>i, <1>l, <1>p DEF Goes, Folded
<1> DEFINE n == Len(s)
<1>4. /\ Len(L) = n + 1 /\ n \in Nat /\ L[n + 1] = id /\ n + 1 \in 1 .. n + 1
      /\ \A k \in 1 .. n : L[k] = s[k] /\ k \in 1 .. n + 1
  BY <1>l, AppendPlaces
<1>5. /\ Upto(s, 0) = {} /\ Upto(s, n) = Kids(S, e)
      /\ \A k \in 0 .. n : Upto(s, k) \subseteq IDs
      /\ \A k \in 1 .. n : /\ Upto(s, k) = Upto(s, k - 1) \cup {s[k]}
                           /\ s[k] \notin Upto(s, k - 1) /\ s[k] \in Kids(S, e) /\ s[k] \in IDs
  BY <1>2, UptoFacts
<1> HIDE DEF n
<1> DEFINE OK(k) == Good(t[k], G, W) /\ Lost(S, t[k], Upto(s, k)) /\ t[k].net = S.net
           Q == {k \in Nat : k <= n => OK(k)}
<1>6. OK(0)
  <2>1. t[0] = S /\ Upto(s, 0) = {}
    BY <1>3, <1>5
  <2>2. Lost(S, S, {})
    BY LostNone
  <2> QED
    BY <2>1, <2>2
<1>n. ASSUME NEW R, NEW A, Lost(S, R, A)
      PROVE  \A y \in Entities : R.ID[y] # NULL => Called(R.ID[y]) = y
  BY <1>n DEF Lost
<1>7. ASSUME NEW k \in 1 .. n, OK(k - 1) PROVE OK(k)
  <2>1. PICK R, A, i : R = t[k - 1] /\ A = Upto(s, k - 1) /\ i = s[k]
    OBVIOUS
  <2>2. PICK U : U = t[k]
    OBVIOUS
  <2>3. /\ i \in Kids(S, e) /\ i \notin A /\ i \in IDs /\ A \in SUBSET IDs
        /\ Upto(s, k) = A \cup {i} /\ U = Released(R, Called(i))
    <3>1. k - 1 \in 0 .. n /\ k \in 1 .. n
      BY <1>4
    <3> QED
      BY <1>3, <1>4, <1>5, <2>1, <2>2, <3>1
  <2>c. PICK z \in Items : /\ z \in Entities /\ S.ID[z] = i /\ Kids(S, z) = {}
                           /\ (On(S, e) <=> On(S, z))
    BY <1>1, <2>3, Child
  <2>4. PICK x \in Entities : x = z /\ S.ID[x] = i /\ Kids(S, x) = {} /\ ~On(S, x)
    BY <2>c
  <2>5. Good(R, G, W) /\ Lost(S, R, A) /\ R.net = S.net
    BY <1>7, <2>1
  <2>6. Called(i) = x
    BY <2>3, <2>4, NoClash
  <2>7. R.ID[x] = i /\ i # NULL /\ R.entities[i] = S.entities[i] /\ ~On(R, x) /\ Kids(R, x) = {}
    BY <2>3, <2>4, <2>5, NoClash DEF Lost, On
  <2>8. \A y \in Entities : R.ID[y] # NULL => Called(R.ID[y]) = y
    BY <1>n, <2>5
  <2>9. Good(U, G, W) /\ Lost(R, U, {i}) /\ U.net = R.net
    <3>1. /\ Good(R, G, W) /\ R.ID[x] # NULL /\ ~On(R, x) /\ Kids(R, x) = {}
          /\ U = Released(R, x) /\ i = R.ID[x]
      BY <2>3, <2>5, <2>6, <2>7
    <3>2. Idle(R, G, W, x)
      BY <2>8, <3>1 DEF Idle
    <3>3. Departed(R, Released(R, x), G, W, R.ID[x])
      BY <3>2, IdleReleased
    <3> QED
      BY <3>1, <3>3 DEF Departed
  <2>10. Lost(S, U, A \cup {i})
    BY <2>3, <2>5, <2>9, LostMore
  <2> QED
    BY <2>2, <2>3, <2>5, <2>9, <2>10
<1>8. OK(n)
  <2> HIDE DEF OK
  <2>1. 0 \in Q
    BY <1>6
  <2>2. ASSUME NEW k \in Nat, k \in Q PROVE k + 1 \in Q
    <3>1. SUFFICES ASSUME k + 1 <= n PROVE OK(k + 1)
      OBVIOUS
    <3>2. k + 1 \in 1 .. n /\ (k + 1) - 1 = k /\ OK(k)
      BY <1>4, <2>2, <3>1
    <3> QED
      BY <1>7, <3>2
  <2>3. Nat \subseteq Q
    <3> HIDE DEF Q
    <3> QED
      BY <2>1, <2>2, NaturalInduction
  <2> QED
    BY <1>4, <2>3
<1>9. PICK R, A : R = t[n] /\ A = Kids(S, e)
  OBVIOUS
<1>10. Good(R, G, W) /\ Lost(S, R, A) /\ R.net = S.net
  BY <1>5, <1>8, <1>9
<1>11. T = Released(R, e)
  <2>1. (n + 1) - 1 = n /\ Len(L) = n + 1 /\ n + 1 \in 1 .. Len(L)
    BY <1>4
  <2>2. t[n + 1] = Released(t[(n + 1) - 1], Called(L[n + 1]))
    BY <1>3, <2>1
  <2> QED
    BY <1>3, <1>4, <1>9, <1>i, <2>1, <2>2
<1>12. id \notin A
  BY <1>1, <1>9, <1>i, Child
<1>13. R.ID[e] = id /\ id # NULL /\ R.ID[e] # NULL /\ ~On(R, e) /\ Kids(R, e) = {}
  BY <1>9, <1>10, <1>12, <1>i, NoClash DEF Lost, On
<1>14. \A y \in Entities : R.ID[y] # NULL => Called(R.ID[y]) = y
  BY <1>n, <1>10
<1>15. Good(T, G, W) /\ Lost(R, T, {id}) /\ T.net = R.net
  <2>1. id = R.ID[e]
    BY <1>13
  <2> QED
    BY <1>10, <1>11, <1>13, <1>14, <2>1, ReleasedGood
<1> QED
  BY <1>10, <1>15 DEF Lost

-----------------------------------------------------------------------------
(* The server's answers to the client's requests.                          *)

\* A request that meets a fault changes nothing of the tree.
LEMMA FailedGood ==
    ASSUME NEW S, NEW G \in Envs, NEW W, Good(S, G, W), NEW r \in Requests,
           NEW T, T = Failed(S, r)
    PROVE  Good(T, G, W) /\ T.net = S.net /\ T.failed = r
<1>1. ServerOK(S) /\ Side(S, G, W) /\ S \in Servers
  BY ServerTypes DEF Good
<1>2. /\ T \in Servers /\ T.entities = S.entities /\ T.ID = S.ID /\ T.ID_Parent = S.ID_Parent
      /\ T.children = S.children /\ T.free = S.free /\ T.blocks = S.blocks
      /\ T.freed = S.freed /\ T.net = S.net /\ T.failed = r
  BY <1>1 DEF Failed, Servers
<1>3. ServerOK(T) /\ TreeView(T) = TreeView(S) /\ \A e \in Entities : On(T, e) <=> On(S, e)
  BY <1>1, <1>2, SameTree
<1>4. Renamed(S, T, G)
  BY <1>2 DEF Renamed
<1>5. StillOff(S, T, G)
  BY <1>2, <1>3 DEF StillOff, Switcher
<1>6. LateBlocks(T, G)
  BY <1>1, <1>2 DEF Side, LateBlocks, Recent
<1>7. G.phase = "events" => T.freed = {}
  BY <1>1, <1>2 DEF Side, PhaseOK
<1>8. Side(T, G, W)
  BY <1>1, <1>2, <1>3, <1>4, <1>5, <1>6, <1>7, QuietSide
<1> QED
  BY <1>2, <1>3, <1>8 DEF Good

\* A message about e under the ID i is under way.
Heard(S, G, e, i) == \E k \in 1 .. Len(Log(S, G)) : Log(S, G)[k].e = e /\ Log(S, G)[k].id = i

\* It sees e under the ID i.
Knows(W, e, i) == W.at[e] # Absent /\ W.id[e] = i

\* e is online under the ID i, or a message about it under that ID is under way.
KnownStill(S, G, e, i) ==
    /\ i \in IDs
    /\ S.entities[i] = e \/ Heard(S, G, e, i)
    /\ S.entities[i] = e \/ S.entities[i] = NULL

\* What the client sees is online under the ID that it knows, or a message about it under
\* that ID is under way; in any case nobody else is online under it.
LEMMA Known ==
    ASSUME NEW S, NEW G \in Envs, NEW W, Good(S, G, W), TreeTyped(W),
           NEW e \in Entities, NEW i, Knows(W, e, i)
    PROVE  KnownStill(S, G, e, i)
<1>1. /\ ServerOK(S) /\ Side(S, G, W) /\ S \in Servers /\ TreeOK(S) /\ W \in Views
      /\ S.entities \in [IDs -> Entities \cup {NULL}] /\ S.ID \in [Entities -> IDs \cup {NULL}]
  BY ServerTypes, ServerTree1 DEF Good, TreeTyped
<1>a. W.at[e] # Absent /\ i = W.id[e]
  BY DEF Knows
<1>2. i \in IDs
  BY <1>1, <1>a DEF TreeTyped, Views
<1>3. PICK log, V : log = Log(S, G) /\ V = TreeView(S)
  OBVIOUS
<1>4. log \in Seq(Messages) /\ Reaches(W, log, V)
  BY <1>1, <1>3, LogTypes DEF Side
<1>5. \/ V.at[e] = W.at[e] /\ V.id[e] = W.id[e]
      \/ \E k \in 1 .. Len(log) : log[k].e = e /\ log[k].id = W.id[e]
  BY <1>4, <1>a, StillThere
<1>6. CASE V.at[e] = W.at[e] /\ V.id[e] = W.id[e]
  <2>1. On(S, e) /\ S.ID[e] = i
    BY <1>1, <1>3, <1>6, <1>a, ViewPlaces
  <2> QED
    BY <1>2, <1>3, <1>6, <2>1 DEF On, KnownStill
<1>7. CASE \E k \in 1 .. Len(log) : log[k].e = e /\ log[k].id = W.id[e]
  <2>1. Leaves(S, G, e, i)
    BY <1>3, <1>7, <1>a DEF Leaves
  <2>2. S.ID[e] = i \/ \A x \in Entities : S.ID[x] # i
    BY <1>1, <1>2, <2>1 DEF Side, Traces
  <2>3. S.entities[i] # NULL => S.entities[i] \in Entities /\ S.ID[S.entities[i]] = i
    BY <1>1, <1>2 DEF ServerOK, NamesOK
  <2>4. S.entities[i] # NULL => S.entities[i] = e
    BY <1>1, <1>2, <2>2, <2>3, NoClash DEF ServerOK, NamesOK
  <2> QED
    BY <1>2, <1>3, <1>7, <1>a, <2>4 DEF Heard, KnownStill
<1> QED
  BY <1>5, <1>6, <1>7

\* The requests that the client can make, seeing W.
Asked(r, W, G, o, i) ==
    /\ r.type = "TAKE" => /\ G.phase = "update" /\ o \in Owners /\ i \in Items
                          /\ W.at[o] # Absent /\ W.id[o] = r.parent
                          /\ W.at[i] # Absent /\ W.id[i] = r.id
    /\ r.type = "REJECT" => o \in Owners /\ i \in Items /\ W.at[i] = o /\ W.id[i] = r.id /\ W.id[o] = r.parent

\* Process_event_ownership.
LEMMA OwnershipGood ==
    ASSUME NEW S, NEW G \in Envs, NEW W, Good(S, G, W), TreeTyped(W), S.failed = NULL,
           NEW r \in Requests, r.type = "TAKE", NEW o \in Owners, NEW i \in Items, Asked(r, W, G, o, i),
           NEW T, T = Process_event_ownership(S, r)
    PROVE  Good(T, G, W) /\ Crossed(T, G) /\ \A x \in Entities : About(S, G, x) => About(T, G, x)
<1>1. /\ G.phase = "update" /\ o \in Owners /\ i \in Items /\ o \in Entities /\ i \in Entities
      /\ W.at[o] # Absent /\ W.id[o] = r.parent /\ W.at[i] # Absent /\ W.id[i] = r.id
  BY NoClash DEF Asked
<1>k. Knows(W, o, r.parent) /\ Knows(W, i, r.id)
  BY <1>1 DEF Knows
<1>2. /\ r.parent \in IDs /\ (S.entities[r.parent] = o \/ Heard(S, G, o, r.parent))
      /\ S.entities[r.parent] = o \/ S.entities[r.parent] = NULL
  <2>1. KnownStill(S, G, o, r.parent)
    BY <1>1, <1>k, Known
  <2> QED
    BY <2>1 DEF KnownStill
<1>3. /\ r.id \in IDs /\ (S.entities[r.id] = i \/ Heard(S, G, i, r.id))
      /\ S.entities[r.id] = i \/ S.entities[r.id] = NULL
  <2>1. KnownStill(S, G, i, r.id)
    BY <1>1, <1>k, Known
  <2> QED
    BY <2>1 DEF KnownStill
<1>4. CASE T = S
  BY <1>4 DEF Crossed
<1>5. CASE S.entities[r.id] # NULL /\ S.entities[r.parent] = NULL
  <2>1. T = Failed(S, r)
    BY <1>5 DEF Process_event_ownership
  <2>2. Good(T, G, W) /\ T.net = S.net /\ T.failed = r
    BY <2>1, FailedGood
  <2>3. Log(T, G) = Log(S, G) /\ \A e : About(T, G, e) <=> About(S, G, e)
    BY <2>2, LogSame
  <2>4. \E k \in 1 .. Len(Log(T, G)) : Log(T, G)[k].id = r.parent
    BY <1>1, <1>2, <1>5, <2>3, NoClash DEF Heard
  <2> QED
    BY <2>2, <2>3, <2>4 DEF Crossed
<1>6. CASE S.entities[r.id] = i /\ S.entities[r.parent] = o /\ S.ID_Parent[i] = NULL
  <2>1. PICK p, j : p = r.parent /\ j = r.id
    OBVIOUS
  <2>2. T = Tell(Linked(S, p, j), "TAKE", p, j)
    BY <1>1, <1>6, <2>1, NoClash DEF Process_event_ownership
  <2>3. p \in IDs /\ j \in IDs /\ S.entities[p] \in Owners /\ S.entities[j] \in Items
        /\ S.ID_Parent[S.entities[j]] = NULL
    BY <1>1, <1>2, <1>3, <1>6, <2>1
  <2>4. /\ Good(T, G, W) /\ T.failed = S.failed
        /\ \A x \in Entities : About(S, G, x) => About(T, G, x)
    BY <1>1, <2>2, <2>3, TakeGood
  <2> QED
    BY <2>4 DEF Crossed
<1>7. CASE S.entities[r.id] = i /\ S.entities[r.parent] = o /\ S.ID_Parent[i] # NULL
  BY <1>1, <1>4, <1>7, NoClash DEF Process_event_ownership
<1>8. CASE S.entities[r.id] = NULL
  BY <1>4, <1>8 DEF Process_event_ownership
<1> QED
  BY <1>1, <1>2, <1>3, <1>5, <1>6, <1>7, <1>8, NoClash

\* Process_event_reject.
LEMMA RejectGood ==
    ASSUME NEW S, NEW G \in Envs, NEW W, Good(S, G, W), TreeTyped(W), S.failed = NULL,
           NEW r \in Requests, r.type = "REJECT", NEW o \in Owners, NEW i \in Items, Asked(r, W, G, o, i),
           NEW T, T = Process_event_reject(S, r)
    PROVE  /\ Good(T, G, W) /\ Crossed(T, G) /\ About(T, G, i)
           /\ \A x \in Entities : About(S, G, x) => About(T, G, x)
<1>1. /\ o \in Owners /\ i \in Items /\ o \in Entities /\ i \in Entities /\ o # NULL /\ i # NULL
      /\ W.at[o] # Absent /\ W.id[o] = r.parent /\ W.at[i] # Absent /\ W.id[i] = r.id
      /\ W.at[i] = o
  BY NoClash DEF Asked, TreeTyped
<1>k. Knows(W, i, r.id) /\ i \in Entities
  BY <1>1 DEF Knows
<1>2. ServerOK(S) /\ TreeOK(S)
  BY ServerTree1 DEF Good
<1>3. /\ r.id \in IDs /\ (S.entities[r.id] = i \/ Heard(S, G, i, r.id))
      /\ S.entities[r.id] = i \/ S.entities[r.id] = NULL
  <2>1. KnownStill(S, G, i, r.id)
    BY <1>k, Known
  <2> QED
    BY <2>1 DEF KnownStill
<1>d. ASSUME T = Detached(S, r.id), S.entities[r.id] = i
      PROVE  /\ Good(T, G, W) /\ T.failed = S.failed
             /\ \A x \in Entities : About(S, G, x) => About(T, G, x)
             /\ S.ID_Parent[i] # NULL => About(T, G, i)
  <2>1. PICK j \in IDs, e \in Entities : j = r.id /\ e = i
    BY <1>1, <1>3
  <2>2. S.entities[j] = e /\ T = Detached(S, j)
    BY <1>d, <2>1
  <2>3. /\ Good(T, G, W)
        /\ T.entities = S.entities /\ T.ID = S.ID /\ T.free = S.free /\ T.failed = S.failed
        /\ T.ID_Parent = [S.ID_Parent EXCEPT ![e] = NULL]
        /\ \A q \in Entities : Kids(T, q) = Kids(S, q) \ {j}
        /\ \A x \in Entities, y \in IDs : Leaves(S, G, x, y) => Leaves(T, G, x, y)
        /\ \A x \in Entities : About(S, G, x) => About(T, G, x)
        /\ S.ID_Parent[e] # NULL => About(T, G, e)
    BY <2>2, DetachGood
  <2> QED
    BY <2>1, <2>3
<1>4. CASE TreeView(S).at[i] = o /\ TreeView(S).id[i] = r.id /\ TreeView(S).id[o] = r.parent
  <2>1. Has(S, o, i) /\ On(S, i) /\ S.ID[i] = r.id /\ S.ID_Parent[i] = r.parent /\ r.parent # NULL
    BY <1>1, <1>2, <1>4, ViewPlaces DEF Has
  <2>2. On(S, o) /\ S.ID[o] = r.parent
    BY <1>1, <1>2, <2>1, HasFacts DEF Has
  <2>3. S.entities[r.id] = i /\ S.entities[r.parent] = o
    BY <2>1, <2>2 DEF On
  <2>4. T = Detached(S, r.id)
    BY <1>1, <2>1, <2>3 DEF Process_event_reject
  <2>5. /\ Good(T, G, W) /\ T.failed = S.failed /\ About(T, G, i)
        /\ \A x \in Entities : About(S, G, x) => About(T, G, x)
    BY SMTT(30), <1>d, <2>1, <2>3, <2>4
  <2> QED
    BY <2>5 DEF Crossed
<1>5. CASE Heard(S, G, i, r.id)
  <2>1. About(S, G, i)
    BY <1>5 DEF Heard, About
  <2>2. CASE T = S
    BY <2>1, <2>2 DEF Crossed
  <2>3. CASE T = Failed(S, r)
    <3>1. Good(T, G, W) /\ T.net = S.net /\ T.failed = r
      BY <2>3, FailedGood
    <3>2. Log(T, G) = Log(S, G) /\ \A e : About(T, G, e) <=> About(S, G, e)
      BY <3>1, LogSame
    <3> QED
      BY <1>5, <2>1, <3>1, <3>2 DEF Crossed, Heard
  <2>4. CASE T = Detached(S, r.id) /\ S.entities[r.id] # NULL
    <3>1. S.entities[r.id] = i
      BY <1>3, <2>4
    <3>2. Good(T, G, W) /\ T.failed = S.failed /\ \A x \in Entities : About(S, G, x) => About(T, G, x)
      BY <1>d, <2>4, <3>1
    <3> QED
      BY <1>1, <2>1, <3>2 DEF Crossed
  <2> QED
    BY <2>2, <2>3, <2>4 DEF Process_event_reject
<1> QED
  <2>1. PICK log, V : log = Log(S, G) /\ V = TreeView(S)
    OBVIOUS
  <2>2. log \in Seq(Messages) /\ Reaches(W, log, V)
    BY <1>2, <2>1, LogTypes, ServerTypes DEF Side, Good
  <2>3. \/ V.at[i] = o /\ V.id[i] = W.id[i] /\ V.id[o] = W.id[o]
        \/ \E k \in 1 .. Len(log) : log[k].e = i /\ log[k].id = W.id[i]
    BY <1>1, <2>2, HeldStill
  <2> QED
    BY <1>1, <1>4, <1>5, <2>1, <2>3 DEF Heard

-----------------------------------------------------------------------------
(* Nothing that has been sent is taken back.                               *)

LEMMA SeqOver ==
    ASSUME NEW X, NEW Y, NEW s \in Seq(X), \A x \in Range(s) : x \in Y
    PROVE  s \in Seq(Y)
<1>1. PICK m \in Nat : m = Len(s)
  OBVIOUS
<1>2. s \in [1 .. m -> X]
  BY <1>1
<1>3. \A k \in 1 .. m : s[k] \in Range(s)
  BY <1>2 DEF Range
<1>4. s \in [1 .. m -> Y]
  BY <1>2, <1>3
<1> QED
  BY <1>4

Listed(S) == "net" \in DOMAIN S /\ \E X : S.net \in Seq(X)

\* T's messages are S's and maybe others behind them.
Longer(S, T) ==
    Listed(T) /\ Len(S.net) <= Len(T.net) /\ \A k \in 1 .. Len(S.net) : T.net[k] = S.net[k]

LEMMA LongerSame ==
    ASSUME NEW S, Listed(S), NEW T, DOMAIN T = DOMAIN S, T.net = S.net
    PROVE  Longer(S, T)
<1>1. Len(S.net) \in Nat
  BY DEF Listed
<1> QED
  BY <1>1 DEF Longer, Listed

LEMMA LongerTwice ==
    ASSUME NEW S, NEW T, NEW U, Listed(S), Longer(S, T), Longer(T, U)
    PROVE  Longer(S, U)
<1>1. Len(S.net) \in Nat /\ Len(T.net) \in Nat /\ Len(U.net) \in Nat
  BY DEF Listed, Longer
<1>2. ASSUME NEW k \in 1 .. Len(S.net) PROVE U.net[k] = S.net[k]
  <2>1. k \in 1 .. Len(T.net)
    BY <1>1, <1>2 DEF Longer
  <2> QED
    BY <1>2, <2>1 DEF Longer
<1> QED
  BY <1>1, <1>2 DEF Longer

\* Tell appends.
LEMMA TellLonger ==
    ASSUME NEW S, Listed(S), NEW type, NEW parent, NEW id, NEW T, T = Tell(S, type, parent, id)
    PROVE  /\ Longer(S, T)
           /\ \E m : T.net = Append(S.net, m) /\ m.type = type /\ m.id = id
<1>1. PICK m : /\ m = [type |-> type, parent |-> parent, id |-> id, e |-> S.entities[id],
                       p |-> IF parent = NULL THEN NULL ELSE S.entities[parent]]
  OBVIOUS
<1>2. T = [S EXCEPT !.net = Append(@, m)] /\ m.type = type /\ m.id = id
  BY <1>1 DEF Tell
<1>3. DOMAIN T = DOMAIN S /\ T.net = Append(S.net, m)
  BY <1>2 DEF Listed
<1>4. PICK X, s : X = X /\ s = S.net /\ s \in Seq(X)
  BY DEF Listed
<1>5. PICK Y : Y = X \cup {m}
  OBVIOUS
<1>6. s \in Seq(Y)
  <2>1. \A x \in Range(s) : x \in Y
    BY <1>4, <1>5 DEF Range
  <2> QED
    BY <1>4, <2>1, SeqOver
<1>7. /\ Append(s, m) \in Seq(Y) /\ Len(Append(s, m)) = Len(s) + 1 /\ Len(s) \in Nat
      /\ Append(s, m)[Len(s) + 1] = m /\ Len(s) + 1 \in 1 .. Len(s) + 1
      /\ \A k \in 1 .. Len(s) : Append(s, m)[k] = s[k] /\ k \in 1 .. Len(s) + 1
      /\ \A k \in 1 .. Len(s) + 1 : k \in 1 .. Len(s) \/ k = Len(s) + 1
  <2>1. m \in Y
    BY <1>5
  <2> QED
    BY <1>6, <2>1, AppendPlaces
<1>8. Longer(S, T)
  <2>1. PICK u : u = Append(s, m)
    OBVIOUS
  <2>2. u \in Seq(Y) /\ Len(u) = Len(s) + 1 /\ Len(s) \in Nat /\ \A k \in 1 .. Len(s) : u[k] = s[k]
    BY <1>7, <2>1
  <2>3. T.net = u /\ "net" \in DOMAIN T
    BY <1>3, <1>4, <2>1 DEF Listed
  <2>4. Len(s) <= Len(u)
    BY <2>2
  <2> QED
    BY <1>4, <2>2, <2>3, <2>4 DEF Longer, Listed
<1> QED
  BY <1>2, <1>3, <1>8

\* The operators that leave the messages alone.
LEMMA QuietOps ==
    ASSUME NEW S, Listed(S)
    PROVE  /\ \A id : Longer(S, Taken(S, id)) /\ Longer(S, vfFreeID(S, id))
           /\ \A e, id, parent : Longer(S, Entered(S, e, id, parent))
           /\ \A e : Longer(S, entity_Destroy(S, e))
           /\ \A p, e : Longer(S, Unlinked(S, p, e))
           /\ \A parent, id : Longer(S, Linked(S, parent, id))
           /\ \A r : Longer(S, Failed(S, r))
<1>1. ASSUME NEW id PROVE Longer(S, Taken(S, id)) /\ Longer(S, vfFreeID(S, id))
  <2>1. PICK T : T = Taken(S, id)
    OBVIOUS
  <2>2. DOMAIN T = DOMAIN S /\ T.net = S.net
    BY <2>1 DEF Taken, Listed
  <2>3. PICK U : U = vfFreeID(S, id)
    OBVIOUS
  <2>4. DOMAIN U = DOMAIN S /\ U.net = S.net
    BY <2>3 DEF vfFreeID, Listed
  <2> QED
    BY <2>1, <2>2, <2>3, <2>4, LongerSame
<1>2. ASSUME NEW e, NEW id, NEW parent PROVE Longer(S, Entered(S, e, id, parent))
  <2>1. PICK T : T = Entered(S, e, id, parent)
    OBVIOUS
  <2>2. DOMAIN T = DOMAIN S /\ T.net = S.net
    BY <2>1 DEF Entered, Listed
  <2> QED
    BY <2>1, <2>2, LongerSame
<1>3. ASSUME NEW e PROVE Longer(S, entity_Destroy(S, e))
  <2>1. PICK R, T : R = [S EXCEPT !.entities[S.ID[e]] = NULL, !.ID[e] = NULL] /\ T = vfFreeID(R, S.ID[e])
    OBVIOUS
  <2>2. DOMAIN R = DOMAIN S /\ R.net = S.net
    BY <2>1 DEF Listed
  <2>3. DOMAIN T = DOMAIN R /\ T.net = R.net
    BY <2>1, <2>2 DEF vfFreeID, Listed
  <2> QED
    BY <2>1, <2>2, <2>3, LongerSame DEF entity_Destroy
<1>4. ASSUME NEW p, NEW e PROVE Longer(S, Unlinked(S, p, e))
  <2>1. PICK T : T = Unlinked(S, p, e)
    OBVIOUS
  <2>2. DOMAIN T = DOMAIN S /\ T.net = S.net
    BY <2>1 DEF Unlinked, Listed
  <2> QED
    BY <2>1, <2>2, LongerSame
<1>5. ASSUME NEW parent, NEW id PROVE Longer(S, Linked(S, parent, id))
  <2>1. PICK T : T = Linked(S, parent, id)
    OBVIOUS
  <2>2. DOMAIN T = DOMAIN S /\ T.net = S.net
    BY <2>1 DEF Linked, Listed
  <2> QED
    BY <2>1, <2>2, LongerSame
<1>6. ASSUME NEW r PROVE Longer(S, Failed(S, r))
  <2>1. PICK T : T = Failed(S, r)
    OBVIOUS
  <2>2. DOMAIN T = DOMAIN S /\ T.net = S.net
    BY <2>1 DEF Failed, Listed
  <2> QED
    BY <2>1, <2>2, LongerSame
<1> QED
  BY <1>1, <1>2, <1>3, <1>4, <1>5, <1>6

LEMMA DetachedLonger ==
    ASSUME NEW S, Listed(S), NEW id, NEW T, T = Detached(S, id)
    PROVE  /\ Longer(S, T)
           /\ T = S \/ \E m : T.net = Append(S.net, m) /\ m.type = "REJECT" /\ m.id = id
<1>1. CASE S.ID_Parent[S.entities[id]] = NULL
  BY <1>1, LongerSame DEF Detached
<1>2. CASE S.ID_Parent[S.entities[id]] # NULL
  <2>1. PICK parent, R : /\ parent = S.ID_Parent[S.entities[id]]
                         /\ R = Unlinked(S, S.entities[parent], S.entities[id])
    OBVIOUS
  <2>2. T = Tell(R, "REJECT", parent, id)
    BY SMTT(30), <1>2, <2>1 DEF Detached
  <2>3. Longer(S, R) /\ Listed(R)
    BY <2>1, QuietOps DEF Longer
  <2>4. R.net = S.net
    BY <2>1 DEF Unlinked, Listed
  <2>5. PICK type : type = "REJECT"
    OBVIOUS
  <2>6. Longer(R, T) /\ \E m : T.net = Append(R.net, m) /\ m.type = type /\ m.id = id
    BY <2>2, <2>3, <2>5, TellLonger
  <2>7. Longer(S, T)
    BY <2>3, <2>6, LongerTwice
  <2> QED
    BY <2>4, <2>5, <2>6, <2>7
<1> QED
  BY <1>1, <1>2

LEMMA RemovedLonger ==
    ASSUME NEW S, Listed(S), NEW id
    PROVE  Longer(S, Removed(S, id))
<1>1. PICK D : D = Detached(S, id)
  OBVIOUS
<1>2. Longer(S, D) /\ Listed(D)
  BY <1>1, DetachedLonger DEF Longer
<1>3. PICK type, E : type = "DESTROY" /\ E = Tell(D, type, NULL, id)
  OBVIOUS
<1>4. Longer(D, E) /\ Listed(E)
  BY <1>2, <1>3, TellLonger DEF Longer
<1>5. PICK T : T = entity_Destroy(E, D.entities[id])
  OBVIOUS
<1>6. Longer(E, T)
  BY <1>4, <1>5, QuietOps
<1>7. T = Removed(S, id)
  BY <1>1, <1>3, <1>5 DEF Removed, Gone
<1>8. Longer(D, T)
  BY <1>2, <1>4, <1>6, LongerTwice
<1>9. Longer(S, T)
  BY <1>2, <1>8, LongerTwice
<1> QED
  BY <1>7, <1>9

LEMMA KeptLonger ==
    ASSUME NEW S, Listed(S), NEW e, NEW id
    PROVE  Longer(S, Kept(S, e, id))
<1>1. PICK R : R = Taken(S, id)
  OBVIOUS
<1>2. Longer(S, R) /\ Listed(R)
  BY <1>1, QuietOps DEF Longer
<1>3. PICK T : T = [R EXCEPT !.ID[Called(id)] = id, !.ID_Parent[Called(id)] = server.ID[e],
                             !.children[e] = Append(@, id)]
  OBVIOUS
<1>4. T = Kept(S, e, id)
  BY <1>1, <1>3 DEF Kept
<1>5. DOMAIN T = DOMAIN R /\ T.net = R.net
  BY <1>2, <1>3 DEF Listed
<1>6. Longer(R, T)
  BY <1>2, <1>5, LongerSame
<1>7. Longer(S, T)
  BY <1>2, <1>6, LongerTwice
<1> QED
  BY <1>4, <1>7

LEMMA RespawnedLonger ==
    ASSUME NEW S, Listed(S), NEW e
    PROVE  Longer(S, Respawned(S, e))
<1>1. PICK id, parent : id = S.ID[e] /\ parent = S.ID_Parent[e]
  OBVIOUS
<1>2. PICK A : A = entity_Destroy(S, e)
  OBVIOUS
<1>3. PICK B : B = Taken(A, id)
  OBVIOUS
<1>4. PICK C : C = Entered(B, e, id, parent)
  OBVIOUS
<1>5. PICK type, T : type = "SPAWN" /\ T = Tell(C, type, parent, id)
  OBVIOUS
<1>6. T = Respawned(S, e)
  BY <1>1, <1>2, <1>3, <1>4, <1>5 DEF Respawned
<1>7. Longer(S, A) /\ Listed(A)
  BY <1>2, QuietOps DEF Longer
<1>8. Longer(A, B) /\ Listed(B)
  BY <1>3, <1>7, QuietOps DEF Longer
<1>9. Longer(B, C) /\ Listed(C)
  BY <1>4, <1>8, QuietOps DEF Longer
<1>10. Longer(C, T)
  BY <1>5, <1>9, TellLonger
<1>11. Longer(S, B)
  BY <1>7, <1>8, LongerTwice
<1>12. Longer(S, C)
  BY <1>9, <1>11, LongerTwice
<1>13. Longer(S, T)
  BY <1>10, <1>12, LongerTwice
<1> QED
  BY <1>6, <1>13

LEMMA ReleasedLonger ==
    ASSUME NEW S, Listed(S), NEW e
    PROVE  Longer(S, Released(S, e))
<1>1. PICK R : R = IF S.ID_Parent[e] = NULL THEN S ELSE Unlinked(S, Called(S.ID_Parent[e]), e)
  OBVIOUS
<1>2. PICK T : T = entity_Destroy(R, e)
  OBVIOUS
<1>3. T = Released(S, e)
  BY <1>1, <1>2 DEF Released
<1>4. Longer(S, R) /\ Listed(R)
  <2>1. Longer(S, S)
    BY LongerSame
  <2>2. Longer(S, Unlinked(S, Called(S.ID_Parent[e]), e))
    BY QuietOps
  <2>3. Longer(S, R)
    BY <1>1, <2>1, <2>2
  <2> QED
    BY <2>3 DEF Longer
<1>5. Longer(R, T)
  BY <1>2, <1>4, QuietOps
<1>6. Longer(S, T)
  BY <1>4, <1>5, LongerTwice
<1> QED
  BY <1>3, <1>6

LEMMA WalkLonger ==
    ASSUME NEW S, Listed(S), NEW op, op \in {"Removed", "Kept", "Respawned", "Released"},
           NEW e, NEW s, NEW n \in Nat, NEW t, Goes(t, op, e, S, s, n)
    PROVE  Longer(S, t[n])
<1>1. ASSUME NEW A, Listed(A), NEW x PROVE Longer(A, Folded(op, e, A, x))
  <2>1. CASE op = "Removed"
    BY <1>1, <2>1, RemovedLonger DEF Folded
  <2>2. CASE op = "Kept"
    BY <1>1, <2>2, KeptLonger DEF Folded
  <2>3. CASE op = "Respawned"
    BY <1>1, <2>3, RespawnedLonger DEF Folded
  <2>4. CASE op = "Released"
    BY <1>1, <2>4, ReleasedLonger DEF Folded
  <2> QED
    BY <2>1, <2>2, <2>3, <2>4
<1>2. t[0] = S /\ \A k \in 1 .. n : t[k] = Folded(op, e, t[k - 1], s[k])
  BY DEF Goes
<1> DEFINE K == {k \in Nat : k <= n => Longer(S, t[k])}
<1>3. 0 \in K
  BY <1>2, LongerSame
<1>4. ASSUME NEW k \in Nat, k \in K PROVE k + 1 \in K
  <2>1. CASE k + 1 <= n
    <3>1. Longer(S, t[k]) /\ k + 1 \in 1 .. n /\ (k + 1) - 1 = k
      BY <1>4, <2>1
    <3>2. t[k + 1] = Folded(op, e, t[k], s[k + 1]) /\ Listed(t[k])
      BY <1>2, <3>1 DEF Longer
    <3>3. Longer(t[k], t[k + 1])
      BY <1>1, <3>2
    <3>4. Longer(S, t[k + 1])
      BY <3>1, <3>3, LongerTwice
    <3> QED
      BY <3>4
  <2>2. CASE ~(k + 1 <= n)
    BY <2>2
  <2> QED
    BY <2>1, <2>2
<1>5. Nat \subseteq K
  <2> HIDE DEF K
  <2> QED
    BY <1>3, <1>4, NaturalInduction
<1>6. n \in K
  BY <1>5
<1> QED
  BY <1>6

LEMMA FoldsLonger ==
    ASSUME NEW S, Listed(S), NEW D, NEW s \in Seq(D)
    PROVE  /\ Longer(S, RemovedAll(S, s)) /\ Longer(S, RespawnedAll(S, s)) /\ Longer(S, ReleasedAll(S, s))
           /\ \A e : Longer(S, KeptAll(S, e, s))
<1>0. PICK n \in Nat : n = Len(s)
  OBVIOUS
<1>1. Longer(S, RemovedAll(S, s))
  <2>1. PICK t : Goes(t, "Removed", NULL, S, s, Len(s)) /\ t[Len(s)] = RemovedAll(S, s)
    BY FoldRemoved
  <2>2. PICK op : op = "Removed"
    OBVIOUS
  <2>3. Goes(t, op, NULL, S, s, n) /\ t[n] = RemovedAll(S, s)
    BY <1>0, <2>1, <2>2
  <2>4. Longer(S, t[n])
    BY <2>2, <2>3, WalkLonger
  <2> QED
    BY <2>3, <2>4
<1>2. Longer(S, RespawnedAll(S, s))
  <2>1. PICK t : Goes(t, "Respawned", NULL, S, s, Len(s)) /\ t[Len(s)] = RespawnedAll(S, s)
    BY FoldRespawned
  <2>2. PICK op : op = "Respawned"
    OBVIOUS
  <2>3. Goes(t, op, NULL, S, s, n) /\ t[n] = RespawnedAll(S, s)
    BY <1>0, <2>1, <2>2
  <2>4. Longer(S, t[n])
    BY <2>2, <2>3, WalkLonger
  <2> QED
    BY <2>3, <2>4
<1>3. Longer(S, ReleasedAll(S, s))
  <2>1. PICK t : Goes(t, "Released", NULL, S, s, Len(s)) /\ t[Len(s)] = ReleasedAll(S, s)
    BY FoldReleased
  <2>2. PICK op : op = "Released"
    OBVIOUS
  <2>3. Goes(t, op, NULL, S, s, n) /\ t[n] = ReleasedAll(S, s)
    BY <1>0, <2>1, <2>2
  <2>4. Longer(S, t[n])
    BY <2>2, <2>3, WalkLonger
  <2> QED
    BY <2>3, <2>4
<1>4. ASSUME NEW e PROVE Longer(S, KeptAll(S, e, s))
  <2>1. PICK t : Goes(t, "Kept", e, S, s, Len(s)) /\ t[Len(s)] = KeptAll(S, e, s)
    BY FoldKept
  <2>2. PICK op : op = "Kept"
    OBVIOUS
  <2>3. Goes(t, op, e, S, s, n) /\ t[n] = KeptAll(S, e, s)
    BY <1>0, <2>1, <2>2
  <2>4. Longer(S, t[n])
    BY <2>2, <2>3, WalkLonger
  <2> QED
    BY <2>3, <2>4
<1> QED
  BY <1>1, <1>2, <1>3, <1>4

LEMMA RequestLonger ==
    ASSUME NEW S \in Servers, NEW r \in Requests
    PROVE  Listed(S) /\ Longer(S, Process_event(S, r))
<1>1. Listed(S) /\ S.entities \in [IDs -> Entities \cup {NULL}] /\ S.children \in [Entities -> Seq(IDs)]
  BY DEF Servers, Listed
<1>2. r.id \in IDs /\ r.type \in {"TAKE", "REJECT", "DESTROY"}
  BY DEF Requests
<1>3. PICK T : T = Process_event(S, r)
  OBVIOUS
<1>4. Longer(S, S)
  BY <1>1, LongerSame
<1> SUFFICES Longer(S, T)
  BY <1>1, <1>3
<1>5. CASE S.failed # NULL
  BY <1>3, <1>4, <1>5 DEF Process_event
<1>6. CASE S.failed = NULL /\ r.type = "TAKE"
  <2>1. T = Process_event_ownership(S, r)
    BY <1>3, <1>6 DEF Process_event
  <2>2. PICK R, type : R = Linked(S, r.parent, r.id) /\ type = "TAKE"
    OBVIOUS
  <2>3. T = S \/ T = Failed(S, r) \/ T = Tell(R, type, r.parent, r.id)
    BY <2>1, <2>2 DEF Process_event_ownership
  <2>4. Longer(S, R) /\ Longer(S, Failed(S, r)) /\ Listed(R)
    BY <1>1, <2>2, QuietOps DEF Longer
  <2>5. ASSUME T = Tell(R, type, r.parent, r.id) PROVE Longer(S, T)
    <3>1. Longer(R, T)
      BY <2>4, <2>5, TellLonger
    <3> QED
      BY <1>1, <2>4, <3>1, LongerTwice
  <2> QED
    BY <1>3, <1>4, <2>3, <2>4, <2>5
<1>7. CASE S.failed = NULL /\ r.type = "REJECT"
  <2>1. T = Process_event_reject(S, r)
    BY <1>3, <1>7 DEF Process_event
  <2>2. T = S \/ T = Failed(S, r) \/ T = Detached(S, r.id)
    BY <2>1 DEF Process_event_reject
  <2>3. Longer(S, Failed(S, r)) /\ Longer(S, Detached(S, r.id))
    BY <1>1, QuietOps, DetachedLonger
  <2> QED
    BY <1>3, <1>4, <2>2, <2>3
<1>8. CASE S.failed = NULL /\ r.type = "DESTROY"
  <2>1. T = Process_event_destroy(S, r)
    BY <1>3, <1>8 DEF Process_event
  <2>2. CASE S.entities[r.id] = NULL
    BY <1>3, <1>4, <2>1, <2>2 DEF Process_event_destroy
  <2>3. CASE S.entities[r.id] # NULL
    <3>1. PICK kids \in Seq(IDs) : kids = S.children[S.entities[r.id]]
      BY <1>1, <1>2, <2>3
    <3>a. Append(kids, r.id) \in Seq(IDs)
      BY <1>2, <3>1
    <3>2. PICK s \in Seq(IDs) : s = Append(kids, r.id)
      BY <3>a
    <3>3. T = RemovedAll(S, s)
      BY <2>1, <2>3, <3>1, <3>2 DEF Process_event_destroy, RemovedAll
    <3>4. Longer(S, RemovedAll(S, s))
      BY <1>1, FoldsLonger
    <3> QED
      BY <1>3, <3>3, <3>4
  <2> QED
    BY <2>2, <2>3
<1> QED
  BY <1>1, <1>2, <1>5, <1>6, <1>7, <1>8

\* Process_event_destroy.
LEMMA DestroyGood ==
    ASSUME NEW S, NEW G \in Envs, NEW W, Good(S, G, W), S.failed = NULL, G.phase = "update",
           NEW r \in Requests, NEW T, T = Process_event_destroy(S, r)
    PROVE  Good(T, G, W) /\ Crossed(T, G) /\ \A x \in Entities : About(S, G, x) => About(T, G, x)
<1>1. PICK id \in IDs : id = r.id
  BY DEF Requests
<1>2. CASE S.entities[id] = NULL
  BY <1>1, <1>2 DEF Process_event_destroy, Crossed
<1>3. CASE S.entities[id] # NULL
  <2>1. PICK e \in Entities : e = S.entities[id] /\ S.ID[e] = id /\ On(S, e)
    BY <1>3, OnlineByID DEF Good
  <2>2. S.children[e] \in Seq(IDs) /\ IsInjective(S.children[e]) /\ ServerOK(S)
    BY ServerTypes DEF Good, ServerOK, LinksOK
  <2>3. PICK s \in Seq(IDs) : s = S.children[e] /\ IsInjective(s) /\ Range(s) = Kids(S, e)
    BY <2>2 DEF Kids
  <2>4. T = RemovedAll(S, Append(s, S.ID[e]))
    BY <1>1, <1>3, <2>1, <2>3 DEF Process_event_destroy, RemovedAll
  <2>5. PICK K : K = Kids(S, e) \cup {S.ID[e]}
    OBVIOUS
  <2>6. Good(T, G, W) /\ Lost(S, T, K) /\ Farewell(S, T, G, K)
    BY ZenonT(60), <2>1, <2>3, <2>4, <2>5, AllRemoved
  <2> QED
    BY <2>6 DEF Lost, Farewell, Crossed
<1> QED
  BY <1>2, <1>3

\* What the client, seeing W, can ask for.
Can(r, W, G) ==
    \/ r.type = "DESTROY" /\ G.phase = "update"
    \/ r.type \in {"TAKE", "REJECT"} /\ \E o \in Owners, i \in Items : Asked(r, W, G, o, i)

\* T comes of S by requests.
Answers(S, T, G, W) ==
    /\ Good(T, G, W) /\ Crossed(T, G)
    /\ \A x \in Entities : About(S, G, x) => About(T, G, x)
    /\ Longer(S, T)

\* Process_event keeps the server good, whatever the client may ask for.
LEMMA RequestGood ==
    ASSUME NEW S, NEW G \in Envs, NEW W, Good(S, G, W), TreeTyped(W), Crossed(S, G),
           NEW r \in Requests, Can(r, W, G), NEW T, T = Process_event(S, r)
    PROVE  Answers(S, T, G, W)
<1>0. Longer(S, T)
  BY ServerTypes, RequestLonger DEF Good
<1>1. CASE S.failed # NULL
  BY <1>0, <1>1 DEF Process_event, Answers
<1>2. CASE S.failed = NULL /\ r.type = "DESTROY"
  <2>1. T = Process_event_destroy(S, r) /\ G.phase = "update"
    BY <1>2 DEF Process_event, Can
  <2> QED
    BY <1>0, <1>2, <2>1, DestroyGood DEF Answers
<1>3. CASE S.failed = NULL /\ r.type = "TAKE"
  <2>1. T = Process_event_ownership(S, r)
    BY <1>3 DEF Process_event
  <2>2. PICK o \in Owners, i \in Items : Asked(r, W, G, o, i)
    BY <1>3 DEF Can
  <2> QED
    BY <1>0, <1>3, <2>1, <2>2, OwnershipGood DEF Answers
<1>4. CASE S.failed = NULL /\ r.type = "REJECT"
  <2>1. T = Process_event_reject(S, r)
    BY <1>4 DEF Process_event
  <2>2. PICK o \in Owners, i \in Items : Asked(r, W, G, o, i)
    BY <1>4 DEF Can
  <2> QED
    BY <1>0, <1>4, <2>1, <2>2, RejectGood DEF Answers
<1> QED
  BY <1>1, <1>2, <1>3, <1>4 DEF Can

LEMMA OneRequest ==
    ASSUME NEW S, NEW G \in Envs, NEW W, Good(S, G, W), TreeTyped(W), Crossed(S, G),
           NEW r \in Requests, Can(r, W, G), NEW T, T = HandledAll(S, <<r>>)
    PROVE  T = Process_event(S, r) /\ Answers(S, T, G, W)
<1>0. <<r>> \in Seq(Requests)
  OBVIOUS
<1>1. PICK s \in Seq(Requests) : s = <<r>>
  BY <1>0
<1>2. PICK t : Goes(t, "Process_event", NULL, S, s, Len(s)) /\ t[Len(s)] = HandledAll(S, s)
  BY FoldProcess_event
<1>3. Len(s) = 1 /\ s[1] = r /\ 1 \in 1 .. Len(s) /\ 1 - 1 = 0
  BY <1>1
<1>4. T = Process_event(S, r)
  BY <1>1, <1>2, <1>3 DEF Goes, Folded
<1> QED
  BY <1>4, RequestGood

LEMMA TwoRequests ==
    ASSUME NEW S, NEW G \in Envs, NEW W, Good(S, G, W), TreeTyped(W), Crossed(S, G),
           NEW r \in Requests, Can(r, W, G), NEW q \in Requests, Can(q, W, G),
           NEW T, T = HandledAll(S, <<r, q>>)
    PROVE  Answers(S, T, G, W)
<1>0. <<r, q>> \in Seq(Requests)
  OBVIOUS
<1>1. PICK s \in Seq(Requests) : s = <<r, q>>
  BY <1>0
<1>2. PICK t : Goes(t, "Process_event", NULL, S, s, Len(s)) /\ t[Len(s)] = HandledAll(S, s)
  BY FoldProcess_event
<1>3. Len(s) = 2 /\ s[1] = r /\ s[2] = q /\ 1 \in 1 .. Len(s) /\ 2 \in 1 .. Len(s) /\ 1 - 1 = 0 /\ 2 - 1 = 1
  BY <1>1
<1>4. PICK R : R = Process_event(S, r)
  OBVIOUS
<1>5. T = Process_event(R, q)
  <2>1. t[0] = S /\ \A k \in 1 .. Len(s) : t[k] = Process_event(t[k - 1], s[k])
    BY <1>2 DEF Goes, Folded
  <2>2. t[1] = R
    BY <1>3, <1>4, <2>1
  <2>3. t[2] = Process_event(R, q)
    BY <1>3, <2>1, <2>2
  <2> QED
    BY <1>1, <1>2, <1>3, <2>3
<1>6. Answers(S, R, G, W)
  BY <1>4, RequestGood
<1>7. Good(R, G, W) /\ Crossed(R, G)
  BY <1>6 DEF Answers
<1>8. Answers(R, T, G, W)
  BY <1>5, <1>7, RequestGood
<1>9. Longer(S, T)
  <2>1. Listed(S) /\ Longer(S, R) /\ Longer(R, T)
    BY <1>6, <1>8, ServerTypes, RequestLonger DEF Answers, Good
  <2> QED
    BY <2>1, LongerTwice
<1> QED
  BY <1>6, <1>8, <1>9 DEF Answers

-----------------------------------------------------------------------------
(* The steps of the server.                                                *)

LEMMA EnvType ==
    ASSUME NEW W, Body(W)
    PROVE  /\ ServerOK(server) /\ Side(server, Env, W) /\ Good(server, Env, W) /\ TreeTyped(W)
           /\ Env \in Envs /\ events \in Seq(Messages) /\ switched \subseteq Entities
           /\ settling \subseteq Blocks
           /\ object \in [Entities -> {"none", "spawned", "dying"}]
           /\ net_ID \in [Entities -> IDs \cup {NULL}] /\ phase \in {"update", "events"}
           /\ Env.events = events /\ Env.object = object /\ Env.net_ID = net_ID
           /\ Env.switched = switched /\ Env.settling = settling /\ Env.phase = phase
<1>1. ServerOK(server) /\ Side(server, Env, W) /\ TreeTyped(W) /\ Env \in Envs
  BY DEF Body
<1>2. /\ Env.events = events /\ Env.object = object /\ Env.net_ID = net_ID
      /\ Env.switched = switched /\ Env.settling = settling /\ Env.phase = phase
  BY DEF Env
<1>3. /\ events \in Seq(Messages) /\ switched \subseteq Entities /\ settling \subseteq Blocks
      /\ object \in [Entities -> {"none", "spawned", "dying"}]
      /\ net_ID \in [Entities -> IDs \cup {NULL}] /\ phase \in {"update", "events"}
  BY <1>1 DEF Env, Envs
<1> QED
  BY <1>1, <1>2, <1>3 DEF Good

\* What the client sees.
LEMMA Seen ==
    ASSUME NEW W, Body(W), NEW e \in Entities, object[e] = "spawned"
    PROVE  /\ Knows(W, e, net_ID[e]) /\ W.at[e] # Absent /\ W.id[e] = net_ID[e] /\ net_ID[e] \in IDs
           /\ \A o \in Owners : Parent[e] = o => W.at[e] = o
<1>1. /\ W.id[e] = net_ID[e]
      /\ \/ W.at[e] = Parent[e]
         \/ Parent[e] = NULL /\ <<W.at[e], e>> \in Refuses
  BY DEF Body, Shows
<1>2. Parent[e] \in Owners \cup {NULL} /\ net_ID[e] # NULL
  BY DEF Body, ClientOK
<1>3. W.at[e] \in Owners \cup {NULL}
  BY <1>1, <1>2, OwnershipAssumption
<1>4. W.at[e] # Absent
  BY <1>3, NoClash
<1>5. net_ID[e] \in IDs
  BY <1>2, EnvType
<1> QED
  BY <1>1, <1>4, <1>5, NoClash DEF Knows

LEMMA Holding ==
    ASSUME NEW W, Body(W), NEW o \in Owners, NEW i \in Items, Holds(o, i)
    PROVE  /\ object[o] = "spawned" /\ object[i] = "spawned" /\ o \in Entities /\ i \in Entities
           /\ W.at[i] = o
<1>1. object[o] = "spawned" /\ Parent[i] = o /\ o \in Entities /\ i \in Entities /\ o # NULL
  BY NoClash DEF Holds
<1>2. object[i] = "spawned"
  BY <1>1 DEF Body, ClientOK
<1> QED
  BY <1>1, <1>2, Seen

LEMMA CalledFacts ==
    ASSUME NEW S, S = server, ServerOK(S)
    PROVE  \A y \in Entities : S.ID[y] # NULL => Called(S.ID[y]) = y
<1>1. ASSUME NEW y \in Entities, S.ID[y] # NULL PROVE Called(S.ID[y]) = y
  <2>1. Called(S.ID[y]) \in Entities /\ server.ID[Called(S.ID[y])] = S.ID[y]
    BY DEF Called
  <2> QED
    BY <1>1, <2>1 DEF ServerOK, NamesOK
<1> QED
  BY <1>1

\* The client still sees W, and nothing that was sent is taken back.
Keeps(W) == Body(W)' /\ Longer(server, server')

\* A step of the server that keeps it good keeps the invariant.
LEMMA ServerStep ==
    ASSUME NEW W, Body(W), UNCHANGED <<events, settling, client, phase, crashed>>,
           switched \subseteq switched', switched' \subseteq Entities,
           Good(server', Env', W), Crossed(server', Env'),
           \A x \in Entities : About(server, Env, x) => About(server', Env', x),
           Longer(server, server')
    PROVE  Keeps(W)
<1>1. ServerOK(server') /\ Side(server', Env', W)
  BY DEF Good
<1>2. Env' \in Envs
  BY EnvType DEF Env, Envs, client
<1>3. ClientOK'
  BY DEF Body, ClientOK, client
<1>4. Shows(W)'
  BY DEF Body, Shows, client
<1>5. crashed' \in Messages \cup {NULL}
      /\ (crashed' # NULL => crashed'.type = "REJECT" /\ <<crashed'.p, crashed'.e>> \in Refuses)
  BY DEF Body
<1>6. TreeTyped(W)
  BY DEF Body
<1>7. Body(W)'
  BY <1>1, <1>2, <1>3, <1>4, <1>5, <1>6 DEF Body
<1> QED
  BY <1>7 DEF Keeps

\* A step that sends one or two requests keeps the invariant.
LEMMA RequestStep ==
    ASSUME NEW W, Body(W), NEW rs, Ask(rs),
           \/ \E r \in Requests : rs = <<r>> /\ Can(r, W, Env)
           \/ \E r, q \in Requests : rs = <<r, q>> /\ Can(r, W, Env) /\ Can(q, W, Env)
    PROVE  Keeps(W)
<1>0. PICK S, T : S = server /\ T = server'
  OBVIOUS
<1>1. PICK G \in Envs : S = server /\ T = server' /\ G = Env
  BY <1>0, EnvType
<1>2. T = HandledAll(S, rs)
  BY <1>1 DEF Ask, Send, HandledAll
<1>3. Env' = Env /\ UNCHANGED <<events, settling, client, phase, switched, crashed>>
  BY DEF Ask, client, Env
<1>4. Good(S, G, W) /\ TreeTyped(W) /\ Crossed(S, G)
  BY <1>1, EnvType DEF Body
<1>5. Answers(S, T, G, W)
  <2>1. CASE \E r \in Requests : rs = <<r>> /\ Can(r, W, Env)
    <3>1. PICK r \in Requests : rs = <<r>> /\ Can(r, W, G)
      BY <1>1, <2>1
    <3>2. T = HandledAll(S, <<r>>)
      BY <1>2, <3>1
    <3> QED
      BY <1>4, <3>1, <3>2, OneRequest
  <2>2. CASE \E r, q \in Requests : rs = <<r, q>> /\ Can(r, W, Env) /\ Can(q, W, Env)
    <3>1. PICK r \in Requests, q \in Requests : rs = <<r, q>> /\ Can(r, W, G) /\ Can(q, W, G)
      BY <1>1, <2>2
    <3>2. T = HandledAll(S, <<r, q>>)
      BY <1>2, <3>1
    <3> QED
      BY <1>4, <3>1, <3>2, TwoRequests
  <2> QED
    BY <2>1, <2>2
<1>6. Good(server', Env', W) /\ Crossed(server', Env')
      /\ \A x \in Entities : About(server, Env, x) => About(server', Env', x)
  BY <1>1, <1>3, <1>5 DEF Answers
<1>7. switched \subseteq switched' /\ switched' \subseteq Entities
  BY <1>3, EnvType
<1>8. Longer(server, server')
  BY <1>1, <1>5 DEF Answers
<1> QED
  BY <1>3, <1>6, <1>7, <1>8, ServerStep

\* What the client may ask for.
LEMMA CanReject ==
    ASSUME NEW W, Body(W), NEW o \in Owners, NEW i \in Items, Holds(o, i),
           NEW r, r = Request("REJECT", o, i)
    PROVE  r \in Requests /\ Can(r, W, Env)
<1>1. /\ object[o] = "spawned" /\ object[i] = "spawned" /\ o \in Entities /\ i \in Entities
      /\ W.at[i] = o
  BY Holding
<1>2. W.id[o] = net_ID[o] /\ net_ID[o] \in IDs /\ W.id[i] = net_ID[i] /\ net_ID[i] \in IDs /\ o # NULL
  BY <1>1, Seen, NoClash
<1>3. r = [type |-> "REJECT", parent |-> net_ID[o], id |-> net_ID[i]]
  BY <1>2 DEF Request
<1>4. r.type = "REJECT" /\ r.parent = net_ID[o] /\ r.id = net_ID[i] /\ r \in Requests
  BY <1>2, <1>3 DEF Requests
<1>5. Asked(r, W, Env, o, i)
  BY <1>1, <1>2, <1>4 DEF Asked
<1> QED
  BY <1>4, <1>5 DEF Can

LEMMA CanTake ==
    ASSUME NEW W, Body(W), NEW o \in Owners, NEW i \in Items, object[o] = "spawned", object[i] = "spawned",
           phase = "update", NEW r, r = Request("TAKE", o, i)
    PROVE  r \in Requests /\ Can(r, W, Env)
<1>1. o \in Entities /\ i \in Entities /\ o # NULL
  BY NoClash
<1>2. W.at[o] # Absent /\ W.id[o] = net_ID[o] /\ net_ID[o] \in IDs
  BY <1>1, Seen
<1>3. W.at[i] # Absent /\ W.id[i] = net_ID[i] /\ net_ID[i] \in IDs
  BY <1>1, Seen
<1>4. r = [type |-> "TAKE", parent |-> net_ID[o], id |-> net_ID[i]]
  BY <1>1 DEF Request
<1>5. r.type = "TAKE" /\ r.parent = net_ID[o] /\ r.id = net_ID[i] /\ r \in Requests
  BY <1>2, <1>3, <1>4 DEF Requests
<1>6. Env.phase = "update"
  BY EnvType
<1>7. Asked(r, W, Env, o, i)
  BY <1>2, <1>3, <1>5, <1>6 DEF Asked
<1> QED
  BY <1>5, <1>7 DEF Can

LEMMA CanDestroy ==
    ASSUME NEW W, Body(W), phase = "update", NEW id \in IDs,
           NEW r, r = [type |-> "DESTROY", parent |-> NULL, id |-> id]
    PROVE  r \in Requests /\ Can(r, W, Env)
<1>1. r \in Requests /\ r.type = "DESTROY"
  BY DEF Requests
<1>2. Env.phase = "update"
  BY EnvType
<1> QED
  BY <1>1, <1>2 DEF Can

\* TakeNear, Drop, TransferItem, Eat and DestroyObject.
LEMMA AskSteps ==
    ASSUME NEW W, Body(W)
    PROVE  /\ \A o \in Owners, i \in Items : TakeNear(o, i) \/ Drop(o, i) \/ Eat(o, i) => Keeps(W)
           /\ \A o \in Owners, i \in Items, q \in Owners : TransferItem(o, i, q) => Keeps(W)
           /\ \A e \in Entities : DestroyObject(e) => Keeps(W)
<1>1. ASSUME NEW o \in Owners, NEW i \in Items, TakeNear(o, i) PROVE Keeps(W)
  <2>1. PICK r : r = Request("TAKE", o, i)
    OBVIOUS
  <2>2. object[o] = "spawned" /\ object[i] = "spawned" /\ phase = "update" /\ Ask(<<r>>)
    BY <1>1, <2>1 DEF TakeNear, Ask, Asking
  <2>3. r \in Requests /\ Can(r, W, Env)
    BY <2>1, <2>2, CanTake
  <2> QED
    BY <2>2, <2>3, RequestStep
<1>2. ASSUME NEW o \in Owners, NEW i \in Items, Drop(o, i) PROVE Keeps(W)
  <2>1. PICK r : r = Request("REJECT", o, i)
    OBVIOUS
  <2>2. Holds(o, i) /\ Ask(<<r>>)
    BY <1>2, <2>1 DEF Drop
  <2>3. r \in Requests /\ Can(r, W, Env)
    BY <2>1, <2>2, CanReject
  <2> QED
    BY <2>2, <2>3, RequestStep
<1>3. ASSUME NEW o \in Owners, NEW i \in Items, Eat(o, i) PROVE Keeps(W)
  <2>1. PICK r, q : r = Request("REJECT", o, i) /\ q = Request("DESTROY", NULL, i)
    OBVIOUS
  <2>2. Holds(o, i) /\ phase = "update" /\ Ask(<<r, q>>)
    BY <1>3, <2>1 DEF Eat, Ask, Asking
  <2>3. r \in Requests /\ Can(r, W, Env)
    BY <2>1, <2>2, CanReject
  <2>4. net_ID[i] \in IDs
    <3>1. object[i] = "spawned" /\ i \in Entities
      BY <2>2, Holding
    <3> QED
      BY <3>1, Seen
  <2>5. q = [type |-> "DESTROY", parent |-> NULL, id |-> net_ID[i]]
    BY <2>1 DEF Request
  <2>6. q \in Requests /\ Can(q, W, Env)
    BY <2>2, <2>4, <2>5, CanDestroy
  <2> QED
    BY <2>2, <2>3, <2>6, RequestStep
<1>4. ASSUME NEW o \in Owners, NEW i \in Items, NEW q \in Owners, TransferItem(o, i, q) PROVE Keeps(W)
  <2>1. PICK r, s : r = Request("REJECT", o, i) /\ s = Request("TAKE", q, i)
    OBVIOUS
  <2>2. Holds(o, i) /\ object[q] = "spawned" /\ phase = "update" /\ Ask(<<r, s>>)
    BY <1>4, <2>1 DEF TransferItem, Ask, Asking
  <2>3. r \in Requests /\ Can(r, W, Env)
    BY <2>1, <2>2, CanReject
  <2>4. object[i] = "spawned"
    BY <2>2, Holding
  <2>5. s \in Requests /\ Can(s, W, Env)
    BY <2>1, <2>2, <2>4, CanTake
  <2> QED
    BY <2>2, <2>3, <2>5, RequestStep
<1>5. ASSUME NEW e \in Entities, DestroyObject(e) PROVE Keeps(W)
  <2>1. PICK id \in {net_ID[e], server.ID[e]} \ {NULL} :
                Ask(<<[type |-> "DESTROY", parent |-> NULL, id |-> id]>>)
    BY <1>5 DEF DestroyObject
  <2>2. id \in IDs /\ phase = "update"
    <3>1. server.ID \in [Entities -> IDs \cup {NULL}] /\ net_ID \in [Entities -> IDs \cup {NULL}]
      BY EnvType DEF ServerOK, Servers
    <3> QED
      BY <2>1, <3>1 DEF Ask, Asking
  <2>3. PICK r : r = [type |-> "DESTROY", parent |-> NULL, id |-> id]
    OBVIOUS
  <2>4. r \in Requests /\ Can(r, W, Env)
    BY <2>2, <2>3, CanDestroy
  <2>5. Ask(<<r>>)
    BY <2>1, <2>3
  <2> QED
    BY <2>4, <2>5, RequestStep
<1> QED
  BY <1>1, <1>2, <1>3, <1>4, <1>5

\* Process_spawn.
LEMMA SpawnStep ==
    ASSUME NEW W, Body(W), NEW e \in Entities, NEW o,
           o = NULL \/ (o \in Owners /\ e \in Items), Process_spawn(e, o)
    PROVE  Keeps(W)
<1>0. PICK S, T : S = server /\ T = server'
  OBVIOUS
<1>1. PICK G \in Envs : G = Env
  BY EnvType
<1>2. /\ Good(S, G, W) /\ TreeTyped(W) /\ G.phase = "update" /\ S.failed = NULL
      /\ G.events = events /\ G.object = object /\ G.settling = settling
      /\ UNCHANGED <<events, settling, client, phase, switched, crashed>>
  BY <1>0, <1>1, EnvType DEF Process_spawn, Asking, Running
<1>3. S.ID[e] = NULL /\ G.object[e] = "none"
  BY <1>0, <1>2 DEF Process_spawn
<1>4. ~About(S, G, e)
  <2>1. Log(S, G) = Pending
    BY <1>0, <1>2 DEF Log, Pending
  <2>2. \A m \in Range(Pending) : m.e # e
    BY DEF Process_spawn
  <2>3. S.net \in Seq(Messages) /\ events \in Seq(Messages)
    BY <1>2, EnvType, ServerTypes DEF Good
  <2>4. Pending \in Seq(Messages)
    BY <1>0, <2>3 DEF Pending
  <2>5. \A k \in 1 .. Len(Pending) : Pending[k] \in Range(Pending)
    BY <2>4 DEF Range
  <2> QED
    BY <2>1, <2>2, <2>5 DEF About
<1>5. \E b \in Blocks : S.free[b] # <<>> /\ b \notin Recent(S, G)
  BY <1>0, <1>2 DEF Process_spawn, Roomy, Recent
<1>6. PICK i, R : i = NewID(S) /\ R = Entered(Taken(S, i), e, i, NULL)
  OBVIOUS
<1>s. /\ Good(S, G, W) /\ G.phase = "update" /\ S.ID[e] = NULL /\ G.object[e] = "none"
      /\ ~About(S, G, e) /\ \E b \in Blocks : S.free[b] # <<>> /\ b \notin Recent(S, G)
      /\ i = NewID(S) /\ R = Entered(Taken(S, i), e, i, NULL)
  BY <1>2, <1>3, <1>4, <1>5, <1>6
<1>7. /\ Good(T, G, W) /\ T.failed = S.failed
      /\ \A x \in Entities : About(S, G, x) => About(T, G, x)
  <2>1. CASE o = NULL
    <3>1. PICK p, parent : p = NULL /\ parent = NULL
      OBVIOUS
    <3>2. T = Tell(R, "SPAWN", NULL, i)
      BY <1>0, <1>6, <2>1 DEF Process_spawn
    <3>3. \/ p = NULL /\ parent = NULL /\ T = Tell(R, "SPAWN", NULL, i)
          \/ /\ p \in Owners /\ e \in Items /\ parent \in IDs /\ S.entities[parent] = p
             /\ T = Tell(Linked(R, parent, i), "SPAWN", parent, i)
      BY <3>1, <3>2
    <3> QED
      BY SMTT(30), <1>s, <3>3, SpawnGood
  <2>2. CASE o # NULL
    <3>1. o \in Owners /\ e \in Items /\ object[o] = "spawned" /\ server.entities[net_ID[o]] # NULL
      BY <2>2 DEF Process_spawn
    <3>p. PICK parent : parent = net_ID[o]
      OBVIOUS
    <3>2. PICK x \in Entities : x = o /\ parent = net_ID[o]
      BY <3>1, <3>p, NoClash
    <3>3. Knows(W, x, parent) /\ parent \in IDs
      BY <3>1, <3>2, Seen
    <3>4. /\ parent \in IDs
          /\ S.entities[parent] = x \/ Heard(S, G, x, parent)
          /\ S.entities[parent] = x \/ S.entities[parent] = NULL
      BY <1>2, <3>3, Known DEF KnownStill
    <3>5. o \in Owners /\ e \in Items /\ parent \in IDs /\ S.entities[parent] = o
      BY <1>0, <3>1, <3>2, <3>4
    <3>6. T = Tell(Linked(R, parent, i), "SPAWN", parent, i)
      BY <1>0, <1>6, <2>2, <3>2 DEF Process_spawn
    <3>7. \/ o = NULL /\ parent = NULL /\ T = Tell(R, "SPAWN", NULL, i)
          \/ /\ o \in Owners /\ e \in Items /\ parent \in IDs /\ S.entities[parent] = o
             /\ T = Tell(Linked(R, parent, i), "SPAWN", parent, i)
      BY <3>5, <3>6
    <3>8. PICK p : p = o
      OBVIOUS
    <3>9. \/ p = NULL /\ parent = NULL /\ T = Tell(R, "SPAWN", NULL, i)
          \/ /\ p \in Owners /\ e \in Items /\ parent \in IDs /\ S.entities[parent] = p
             /\ T = Tell(Linked(R, parent, i), "SPAWN", parent, i)
      BY <3>7, <3>8
    <3> QED
      BY <1>s, <3>9, SpawnGood
  <2> QED
    BY <2>1, <2>2
<1>8. Env' = G
  BY <1>1, <1>2 DEF Env, client
<1>9. /\ Good(server', Env', W) /\ Crossed(server', Env')
      /\ \A x \in Entities : About(server, Env, x) => About(server', Env', x)
  BY <1>0, <1>1, <1>2, <1>7, <1>8 DEF Crossed
<1>10. switched \subseteq switched' /\ switched' \subseteq Entities
  BY <1>2, EnvType
<1>11. Longer(S, T)
  <2>1. Listed(S)
    BY <1>2, ServerTypes DEF Good, Servers, Listed
  <2>2. PICK A : A = Taken(S, i)
    OBVIOUS
  <2>3. Longer(S, A) /\ Listed(A)
    BY <2>1, <2>2, QuietOps DEF Longer
  <2>4. R = Entered(A, e, i, NULL)
    BY <1>6, <2>2
  <2>5. Longer(A, R) /\ Listed(R)
    BY <2>3, <2>4, QuietOps DEF Longer
  <2>6. Longer(S, R)
    BY <2>1, <2>3, <2>5, LongerTwice
  <2>7. PICK type : type = "SPAWN"
    OBVIOUS
  <2>8. CASE o = NULL
    <3>1. T = Tell(R, type, NULL, i)
      BY <1>0, <1>6, <2>7, <2>8 DEF Process_spawn
    <3>2. Longer(R, T)
      BY <2>5, <3>1, TellLonger
    <3> QED
      BY <2>1, <2>6, <3>2, LongerTwice
  <2>9. CASE o # NULL
    <3>1. PICK parent, L : parent = net_ID[o] /\ L = Linked(R, parent, i)
      OBVIOUS
    <3>2. T = Tell(L, type, parent, i)
      BY <1>0, <1>6, <2>7, <2>9, <3>1 DEF Process_spawn
    <3>3. Longer(R, L) /\ Listed(L)
      BY <2>5, <3>1, QuietOps DEF Longer
    <3>4. Longer(L, T)
      BY <3>2, <3>3, TellLonger
    <3>5. Longer(R, T)
      BY <2>5, <3>3, <3>4, LongerTwice
    <3> QED
      BY <2>1, <2>6, <3>5, LongerTwice
  <2> QED
    BY <2>8, <2>9
<1> QED
  BY <1>0, <1>2, <1>9, <1>10, <1>11, ServerStep

\* remove_online and add_online.
LEMMA SwitchStep ==
    ASSUME NEW W, Body(W), NEW e \in Entities, remove_online(e) \/ add_online(e)
    PROVE  Keeps(W)
<1>0. PICK S, T : S = server /\ T = server'
  OBVIOUS
<1>1. PICK G \in Envs : G = Env
  BY EnvType
<1>2. /\ Good(S, G, W) /\ G.phase = "update" /\ S.failed = NULL /\ S.ID_Parent[e] = NULL
      /\ e \notin G.switched /\ switched' = switched \cup {e}
      /\ UNCHANGED <<events, settling, client, phase, crashed>>
  BY <1>0, <1>1, EnvType DEF remove_online, add_online, Switching, Asking, Running
<1>3. switched \subseteq switched' /\ switched' \subseteq Entities
  BY <1>2, EnvType
<1>4. PICK H \in Envs : H = Env' /\ Wider(G, H) /\ e \in H.switched
  <2>1. Env' \in Envs
    BY <1>2, <1>3, EnvType DEF Env, Envs, client
  <2>2. Wider(G, Env') /\ e \in Env'.switched
    BY <1>1, <1>2 DEF Env, Wider, client
  <2> QED
    BY <2>1, <2>2
<1>5. ServerOK(S) /\ \A y \in Entities : S.ID[y] # NULL => Called(S.ID[y]) = y
  BY <1>0, <1>2, CalledFacts DEF Good
<1>6. /\ Good(T, H, W) /\ T.failed = S.failed
      /\ \A x \in Entities : About(S, G, x) => About(T, H, x)
  <2>1. CASE remove_online(e)
    <3>1. PICK id : id = S.ID[e] /\ S.entities[id] = e /\ On(S, e)
      BY <1>0, <2>1 DEF remove_online, Online, On
    <3>2. PICK R : R = RemovedAll(S, Append(Reverse(S.children[e]), id))
      OBVIOUS
    <3>3. PICK B : B = [Taken(R, id) EXCEPT !.ID[e] = id]
      OBVIOUS
    <3>4. T = KeptAll(B, e, S.children[e])
      BY <1>0, <2>1, <3>1, <3>2, <3>3 DEF remove_online, Perform_destroy, RemovedAll, KeptAll
    <3>5. server.ID[e] = S.ID[e]
      BY <1>0
    <3>6. R = RemovedAll(S, Append(Reverse(S.children[e]), S.ID[e])) /\ B = [Taken(R, S.ID[e]) EXCEPT !.ID[e] = S.ID[e]]
      BY <3>1, <3>2, <3>3
    <3> QED
      BY SMTT(30), <1>2, <1>4, <1>5, <3>1, <3>4, <3>5, <3>6, AllKept
  <2>2. CASE add_online(e)
    <3>1. S.ID[e] # NULL /\ ~On(S, e)
      BY <1>0, <2>2 DEF add_online, Offline, Online, On
    <3>2. T = RespawnedAll(S, <<S.ID[e]>> \o S.children[e])
      BY <1>0, <2>2 DEF add_online, RespawnedAll
    <3>3. /\ Good(T, G, W) /\ T.failed = S.failed
          /\ \A y \in Entities : About(S, G, y) => About(T, G, y)
      BY <1>2, <1>5, <3>1, <3>2, AllRespawned
    <3>4. (\A V : Side(T, G, V) => Side(T, H, V)) /\ \A y : About(T, H, y) <=> About(T, G, y)
      BY <1>4, WiderSide
    <3> QED
      BY <3>3, <3>4 DEF Good
  <2> QED
    BY <2>1, <2>2
<1>7. /\ Good(server', Env', W) /\ Crossed(server', Env')
      /\ \A x \in Entities : About(server, Env, x) => About(server', Env', x)
  BY <1>0, <1>1, <1>2, <1>4, <1>6 DEF Crossed
<1>8. Longer(S, T)
  <2>1. Listed(S) /\ S.children \in [Entities -> Seq(IDs)]
    BY <1>2, ServerTypes DEF Good, Servers, Listed
  <2>2. PICK kids \in Seq(IDs) : kids = S.children[e]
    BY <2>1
  <2>3. CASE remove_online(e)
    <3>1. PICK id, R : id = S.ID[e] /\ R = RemovedAll(S, Append(Reverse(kids), id))
      OBVIOUS
    <3>2. PICK A, B : A = Taken(R, id) /\ B = [A EXCEPT !.ID[e] = id]
      OBVIOUS
    <3>3. S.entities[id] = e
      BY <1>0, <2>3, <3>1 DEF remove_online, Online
    <3>4. T = KeptAll(B, e, kids)
      BY <1>0, <2>2, <2>3, <3>1, <3>2, <3>3 DEF remove_online, Perform_destroy, RemovedAll, KeptAll
    <3>5. id \in IDs
      <4>1. S.ID \in [Entities -> IDs \cup {NULL}] /\ S.ID[e] # NULL
        BY <1>0, <1>2, <2>3, ServerTypes DEF Good, remove_online, Online
      <4> QED
        BY <3>1, <4>1
    <3>6. Longer(S, R) /\ Listed(R)
      <4>1. PICK u \in Seq(IDs) : u = Reverse(kids)
        <5>1. IsInjective(kids)
          BY <1>5, <2>2 DEF ServerOK, LinksOK
        <5> QED
          BY <5>1, ReversePlaces
      <4>2. PICK s \in Seq(IDs) : s = Append(Reverse(kids), id)
        <5>1. Append(u, id) \in Seq(IDs)
          BY <3>5
        <5> QED
          BY <4>1, <5>1
      <4>3. Longer(S, RemovedAll(S, s))
        BY <2>1, FoldsLonger
      <4> QED
        BY <3>1, <4>2, <4>3 DEF Longer
    <3>7. Longer(R, A) /\ Listed(A)
      BY <3>2, <3>6, QuietOps DEF Longer
    <3>8. DOMAIN B = DOMAIN A /\ B.net = A.net
      BY <3>2, <3>7 DEF Listed
    <3>9. Longer(A, B) /\ Listed(B)
      BY <3>7, <3>8, LongerSame DEF Longer
    <3>10. Longer(B, T)
      BY <3>4, <3>9, FoldsLonger
    <3>11. Longer(S, A)
      BY <2>1, <3>6, <3>7, LongerTwice
    <3>12. Longer(S, B)
      BY <2>1, <3>9, <3>11, LongerTwice
    <3> QED
      BY <2>1, <3>10, <3>12, LongerTwice
  <2>4. CASE add_online(e)
    <3>1. PICK id \in IDs : id = S.ID[e]
      <4>1. S.ID \in [Entities -> IDs \cup {NULL}] /\ S.ID[e] # NULL
        BY <1>0, <1>2, <2>4, ServerTypes DEF Good, add_online, Offline
      <4> QED
        BY <4>1
    <3>a. <<id>> \in Seq(IDs)
      OBVIOUS
    <3>2. PICK one \in Seq(IDs) : one = <<S.ID[e]>>
      BY <3>1, <3>a
    <3>b. one \o kids \in Seq(IDs)
      OBVIOUS
    <3>3. PICK s \in Seq(IDs) : s = one \o kids
      BY <3>b
    <3>4. T = RespawnedAll(S, s)
      BY <1>0, <2>2, <2>4, <3>2, <3>3 DEF add_online, RespawnedAll
    <3> QED
      BY <2>1, <3>4, FoldsLonger
  <2> QED
    BY <2>3, <2>4
<1> QED
  BY <1>0, <1>2, <1>3, <1>7, <1>8, ServerStep

\* release.
LEMMA ReleaseStep ==
    ASSUME NEW W, Body(W), NEW e \in Entities, release(e)
    PROVE  Keeps(W)
<1>0. PICK S, T : S = server /\ T = server'
  OBVIOUS
<1>1. PICK G \in Envs : G = Env
  BY EnvType
<1>2. /\ Good(S, G, W) /\ G.phase = "update" /\ S.failed = NULL
      /\ UNCHANGED <<events, settling, client, phase, switched, crashed>>
      /\ S.ID[e] # NULL /\ ~On(S, e)
  BY <1>0, <1>1, EnvType DEF release, Asking, Running, Offline, Online, On
<1>3. ServerOK(S) /\ \A y \in Entities : S.ID[y] # NULL => Called(S.ID[y]) = y
  BY <1>0, <1>2, CalledFacts DEF Good
<1>4. T = ReleasedAll(S, Append(S.children[e], S.ID[e]))
  BY <1>0 DEF release, ReleasedAll
<1>5. Good(T, G, W) /\ T.failed = S.failed /\ T.net = S.net
  BY <1>2, <1>3, <1>4, AllReleased
<1>6. \A y : About(T, G, y) <=> About(S, G, y)
  BY <1>5, LogSame
<1>7. Env' = G
  BY <1>1, <1>2 DEF Env, client
<1>8. /\ Good(server', Env', W) /\ Crossed(server', Env')
      /\ \A x \in Entities : About(server, Env, x) => About(server', Env', x)
  BY <1>0, <1>1, <1>2, <1>5, <1>6, <1>7 DEF Crossed
<1>9. switched \subseteq switched' /\ switched' \subseteq Entities
  BY <1>2, EnvType
<1>10. Longer(S, T)
  <2>1. Listed(S) /\ S.children[e] \in Seq(IDs) /\ S.ID[e] \in IDs
    BY <1>2, ServerTypes DEF Good, Servers, Listed
  <2>a. PICK kids \in Seq(IDs), id \in IDs : kids = S.children[e] /\ id = S.ID[e]
    BY <2>1
  <2>b. Append(kids, id) \in Seq(IDs)
    OBVIOUS
  <2>2. PICK s \in Seq(IDs) : s = Append(S.children[e], S.ID[e])
    BY <2>a, <2>b
  <2> QED
    BY <1>4, <2>1, <2>2, FoldsLonger
<1> QED
  BY <1>0, <1>2, <1>8, <1>9, <1>10, ServerStep

-----------------------------------------------------------------------------
(* The steps of the client.                                                *)

LEMMA TailConcat ==
    ASSUME NEW X, NEW a \in Seq(X), NEW b \in Seq(X), a # <<>>, NEW s, s = a \o b
    PROVE  /\ s \in Seq(X) /\ s # <<>> /\ Head(s) = Head(a) /\ Tail(s) = Tail(a) \o b
           /\ Head(a) \in X /\ Len(s) \in Nat /\ Len(s) >= 1 /\ s[1] = Head(a)
           /\ Len(Tail(s)) = Len(s) - 1 /\ \A k \in 1 .. Len(s) - 1 : Tail(s)[k] = s[k + 1]
<1>1. Len(a) \in Nat \ {0} /\ Len(b) \in Nat /\ s \in Seq(X) /\ Len(s) = Len(a) + Len(b)
  OBVIOUS
<1>2. \A k \in 1 .. Len(s) : s[k] = IF k <= Len(a) THEN a[k] ELSE b[k - Len(a)]
  BY <1>1
<1>3. s # <<>> /\ Head(s) = s[1] /\ Head(a) = a[1] /\ s[1] = a[1] /\ Head(a) \in X
  BY <1>1, <1>2
<1>4. Tail(s) \in Seq(X) /\ Len(Tail(s)) = Len(s) - 1 /\ \A k \in 1 .. Len(s) - 1 : Tail(s)[k] = s[k + 1]
  BY <1>1, <1>3
<1>5. Tail(a) \in Seq(X) /\ Len(Tail(a)) = Len(a) - 1 /\ \A k \in 1 .. Len(a) - 1 : Tail(a)[k] = a[k + 1]
  BY <1>1
<1>6. Tail(s) = Tail(a) \o b
  <2>1. PICK u \in Seq(X), v \in Seq(X) : u = Tail(s) /\ v = Tail(a)
    BY <1>4, <1>5
  <2>2. v \o b \in Seq(X) /\ Len(v \o b) = Len(v) + Len(b)
    BY <1>1
  <2>3. \A k \in 1 .. Len(v) + Len(b) : (v \o b)[k] = IF k <= Len(v) THEN v[k] ELSE b[k - Len(v)]
    BY <1>1, <2>1
  <2>4. Len(u) = Len(v \o b)
    BY <1>1, <1>4, <1>5, <2>1, <2>2
  <2>5. ASSUME NEW k \in 1 .. Len(u) PROVE u[k] = (v \o b)[k]
    <3>1. k \in 1 .. Len(s) - 1 /\ k + 1 \in 1 .. Len(s) /\ k \in 1 .. Len(v) + Len(b)
          /\ Len(v) = Len(a) - 1 /\ (k + 1) - Len(a) = k - Len(v)
          /\ (k + 1 <= Len(a) <=> k <= Len(v)) /\ (k <= Len(v) => k \in 1 .. Len(a) - 1)
      BY <1>1, <1>4, <1>5, <2>1, <2>2, <2>4
    <3>2. u[k] = s[k + 1]
      BY <1>4, <2>1, <3>1
    <3>3. CASE k <= Len(v)
      BY <1>2, <1>5, <2>1, <2>3, <3>1, <3>2, <3>3
    <3>4. CASE ~(k <= Len(v))
      BY <1>2, <2>3, <3>1, <3>2, <3>4
    <3> QED
      BY <3>3, <3>4
  <2>6. u = v \o b
    BY <2>2, <2>4, <2>5, SeqEqual
  <2> QED
    BY <2>1, <2>6
<1> QED
  BY <1>1, <1>3, <1>4, <1>6

\* The client has handled the first message, m, and knows nothing that it did not tell.
Handled(G, H, m) ==
    /\ H.events = Tail(G.events)
    /\ H.switched = G.switched /\ H.settling = G.settling /\ H.phase = G.phase
    /\ \A e \in Entities : H.object[e] # "none" =>
          (G.object[e] # "none" /\ H.net_ID[e] = G.net_ID[e]) \/ (e = m.e /\ H.net_ID[e] = m.id)

First(G, m) == G.phase = "events" /\ G.events # <<>> /\ m = Head(G.events)

\* The log without its first message, seen from the view after it.
LEMMA HeadGood ==
    ASSUME NEW S, NEW G \in Envs, NEW H \in Envs, NEW W, NEW m, Good(S, G, W), TreeTyped(W),
           First(G, m), Handled(G, H, m)
    PROVE  /\ m \in Messages /\ Allowed(W, m) /\ TreeTyped(After(W, m)) /\ Good(S, H, After(W, m))
           /\ \A e \in Entities : About(S, G, e) /\ e # m.e => About(S, H, e)
<1>0. PICK U : U = After(W, m)
  OBVIOUS
<1> /\ G.phase = "events" /\ G.events # <<>> /\ m = Head(G.events)
  BY DEF First
<1>1. /\ ServerOK(S) /\ Side(S, G, W) /\ S \in Servers
      /\ G.events \in Seq(Messages) /\ S.net \in Seq(Messages)
  BY ServerTypes, LogTypes DEF Good
<1>2. PICK s, u : s = Log(S, G) /\ u = Log(S, H)
  OBVIOUS
<1>3. /\ s \in Seq(Messages) /\ s # <<>> /\ Head(s) = m /\ u = Tail(s) /\ m \in Messages
      /\ Len(s) \in Nat /\ Len(s) >= 1 /\ s[1] = m
      /\ Len(u) = Len(s) - 1 /\ \A k \in 1 .. Len(s) - 1 : u[k] = s[k + 1]
  <2>1. s = G.events \o S.net /\ u = Tail(G.events) \o S.net
    BY <1>2 DEF Log, Handled
  <2>2. PICK a \in Seq(Messages), b \in Seq(Messages) : a = G.events /\ b = S.net
    BY <1>1
  <2>3. s = a \o b /\ a # <<>> /\ m = Head(a) /\ u = Tail(a) \o b
    BY <2>1, <2>2
  <2>4. /\ s \in Seq(Messages) /\ s # <<>> /\ Head(s) = Head(a) /\ Tail(s) = Tail(a) \o b
        /\ Head(a) \in Messages /\ Len(s) \in Nat /\ Len(s) >= 1 /\ s[1] = Head(a)
        /\ Len(Tail(s)) = Len(s) - 1 /\ \A k \in 1 .. Len(s) - 1 : Tail(s)[k] = s[k + 1]
    BY <2>3, TailConcat
  <2> QED
    BY <2>3, <2>4
<1>4. Allowed(W, m) /\ Reaches(U, u, TreeView(S))
  <2>1. PICK V : V = TreeView(S)
    OBVIOUS
  <2>2. Reaches(W, s, V)
    BY <1>1, <1>2, <2>1 DEF Side
  <2> QED
    BY <1>0, <1>3, <2>1, <2>2, ReachesTail
<1>5. TreeTyped(U)
  BY <1>0, <1>3, <1>4, AfterTyped
<1>6. \A k \in 1 .. Len(u) : k + 1 \in 1 .. Len(s) /\ u[k] = s[k + 1]
  BY <1>3
<1>7. ASSUME NEW k \in 1 .. Len(s), k # 1 PROVE k - 1 \in 1 .. Len(u) /\ u[k - 1] = s[k]
  <2>1. k - 1 \in 1 .. Len(u) /\ k - 1 \in 1 .. Len(s) - 1 /\ (k - 1) + 1 = k
    BY <1>3, <1>7
  <2> QED
    BY <1>3, <2>1
<1>8. 1 \in 1 .. Len(s)
  BY <1>3
<1>9. ASSUME NEW e \in Entities, NEW i \in IDs, Leaves(S, H, e, i) PROVE Leaves(S, G, e, i)
  <2>1. CASE H.object[e] # "none" /\ H.net_ID[e] = i
    <3>1. CASE G.object[e] # "none" /\ H.net_ID[e] = G.net_ID[e]
      BY <2>1, <3>1 DEF Leaves
    <3>2. CASE e = m.e /\ H.net_ID[e] = m.id
      BY <1>2, <1>3, <1>8, <2>1, <3>2 DEF Leaves
    <3> QED
      BY <2>1, <3>1, <3>2 DEF Handled
  <2>2. CASE \E k \in 1 .. Len(u) : u[k].e = e /\ u[k].id = i
    BY <1>2, <1>6, <2>2 DEF Leaves
  <2> QED
    BY <1>2, <1>9, <2>1, <2>2 DEF Leaves
<1>10. ASSUME NEW e \in Entities, About(S, G, e), e # m.e PROVE About(S, H, e)
  <2>1. PICK k \in 1 .. Len(s) : s[k].e = e
    BY <1>2, <1>10 DEF About
  <2>2. k # 1
    BY <1>3, <1>10, <2>1
  <2>3. k - 1 \in 1 .. Len(u) /\ u[k - 1] = s[k]
    BY <1>7, <2>2
  <2> QED
    BY <1>2, <2>1, <2>3 DEF About
<1>11. Recent(S, H) = Recent(S, G) /\ H.phase = "events"
  BY DEF Recent, Handled
<1>12. Traces(S, H)
  BY <1>1, <1>9, <1>11 DEF Side, Traces
<1>13. OneTrace(S, H)
  BY <1>1, <1>9 DEF Side, OneTrace
<1>14. SpawnsFresh(S, H)
  <2>1. ASSUME NEW k \in 1 .. Len(u), u[k].type = "SPAWN"
        PROVE  H.object[u[k].e] = "none" /\ \A j \in 1 .. k - 1 : u[j].e # u[k].e
    <3>1. k + 1 \in 1 .. Len(s) /\ u[k] = s[k + 1] /\ s[k + 1].type = "SPAWN"
      BY <1>6, <2>1
    <3>2. /\ G.object[s[k + 1].e] = "none"
          /\ \A j \in 1 .. (k + 1) - 1 : s[j].e # s[k + 1].e
      BY <1>1, <1>2, <3>1 DEF Side, SpawnsFresh
    <3>3. 1 \in 1 .. (k + 1) - 1
      BY <1>3
    <3>4. s[k + 1].e # m.e /\ s[k + 1].e \in Entities
      <4>1. s[k + 1] \in Messages
        BY <1>3, <3>1
      <4> QED
        BY <1>3, <3>2, <3>3, <4>1 DEF Messages
    <3>5. H.object[u[k].e] = "none"
      BY <3>1, <3>2, <3>4 DEF Handled
    <3>6. ASSUME NEW j \in 1 .. k - 1 PROVE u[j].e # u[k].e
      <4>1. j \in 1 .. Len(u) /\ j + 1 \in 1 .. (k + 1) - 1
        BY <1>3
      <4> QED
        BY <1>6, <3>1, <3>2, <4>1
    <3> QED
      BY <3>5, <3>6
  <2> QED
    BY <1>2, <2>1 DEF SpawnsFresh
<1>15. OffGone(S, H)
  BY <1>11 DEF OffGone
<1>16. LateBlocks(S, H)
  BY <1>1, <1>11 DEF Side, LateBlocks
<1>17. PhaseOK(S, H)
  BY <1>1, <1>11 DEF Side, PhaseOK
<1>18. Side(S, H, U)
  BY <1>2, <1>4, <1>12, <1>13, <1>14, <1>15, <1>16, <1>17 DEF Side
<1> QED
  BY <1>0, <1>1, <1>3, <1>4, <1>5, <1>10, <1>18 DEF Good

\* ClientReceive moves the messages and loses none.
LEMMA ReceiveStep ==
    ASSUME NEW W, Body(W), ClientReceive
    PROVE  Body(W)'
<1>0. PICK S, T : S = server /\ T = server'
  OBVIOUS
<1>1. PICK G \in Envs : G = Env
  BY EnvType
<1>2. /\ Good(S, G, W) /\ TreeTyped(W) /\ G.phase = "update" /\ S.failed = NULL
      /\ G.events = events /\ G.object = object /\ G.net_ID = net_ID /\ G.settling = settling
      /\ UNCHANGED <<object, net_ID, Parent, map_NETID, switched, crashed>>
  BY <1>0, <1>1, EnvType DEF ClientReceive, Running, client
<1>3. /\ ServerOK(S) /\ Side(S, G, W) /\ S \in Servers /\ S.net \in Seq(Messages)
      /\ G.events \in Seq(Messages) /\ S.freed \subseteq Blocks
  BY <1>2, ServerTypes, LogTypes DEF Good
<1>4. /\ T \in Servers /\ T.entities = S.entities /\ T.ID = S.ID /\ T.ID_Parent = S.ID_Parent
      /\ T.children = S.children /\ T.free = S.free /\ T.blocks = S.blocks
      /\ T.freed = {} /\ T.net = <<>> /\ T.failed = S.failed
  <2>1. T = [S EXCEPT !.net = <<>>, !.freed = {}]
    BY <1>0 DEF ClientReceive
  <2>2. PICK a \in Seq(Messages), c \in SUBSET Blocks : a = <<>> /\ c = {}
    <3>1. <<>> \in Seq(Messages) /\ {} \in SUBSET Blocks
      OBVIOUS
    <3> QED
      BY <3>1
  <2>3. T = [S EXCEPT !.net = a, !.freed = c]
    BY <2>1, <2>2
  <2>4. T \in Servers /\ T.freed = c /\ T.net = a
    BY <1>3, <2>3 DEF Servers
  <2>5. /\ T.entities = S.entities /\ T.ID = S.ID /\ T.ID_Parent = S.ID_Parent
        /\ T.children = S.children /\ T.free = S.free /\ T.blocks = S.blocks /\ T.failed = S.failed
    BY <1>3, <2>3 DEF Servers
  <2> QED
    BY <2>2, <2>4, <2>5
<1>5. ServerOK(T) /\ TreeView(T) = TreeView(S)
  BY <1>3, <1>4, SameTree
<1>6. PICK H : H = Env'
  OBVIOUS
<1>7. /\ H.events = events \o S.net /\ H.settling = S.freed /\ H.phase = "events"
      /\ H.object = G.object /\ H.net_ID = G.net_ID /\ H.switched = switched
  BY <1>0, <1>2, <1>6 DEF Env, ClientReceive
<1>8. H \in Envs
  <2>1. events \o S.net \in Seq(Messages)
    BY <1>2, <1>3
  <2>2. events' \in Seq(Messages) /\ settling' \subseteq Blocks /\ phase' = "events"
    BY <1>0, <1>3, <2>1 DEF ClientReceive
  <2> QED
    BY <1>2, <1>6, <2>2, EnvType DEF Env, Envs
<1>9. Log(T, H) = Log(S, G) /\ Recent(T, H) = Recent(S, G)
  <2>1. (events \o S.net) \o <<>> = events \o S.net
    BY <1>2, <1>3
  <2>2. G.settling = {}
    BY <1>2, <1>3 DEF Side, PhaseOK
  <2> QED
    BY <1>2, <1>4, <1>7, <2>1, <2>2 DEF Log, Recent
<1>10. /\ \A e, i : Leaves(T, H, e, i) <=> Leaves(S, G, e, i)
       /\ \A e : About(T, H, e) <=> About(S, G, e)
  BY <1>7, <1>9 DEF Leaves, About
<1>11. Side(T, H, W)
  <2>1. Reaches(W, Log(T, H), TreeView(T))
    BY <1>3, <1>5, <1>9 DEF Side
  <2>2. Traces(T, H)
    BY <1>3, <1>4, <1>9, <1>10 DEF Side, Traces
  <2>3. OneTrace(T, H)
    BY <1>3, <1>10 DEF Side, OneTrace
  <2>4. SpawnsFresh(T, H)
    BY <1>3, <1>7, <1>9 DEF Side, SpawnsFresh
  <2>5. OffGone(T, H)
    BY <1>7 DEF OffGone
  <2>6. LateBlocks(T, H)
    BY <1>3, <1>4, <1>9 DEF Side, LateBlocks
  <2>7. PhaseOK(T, H)
    <3>1. Len(T.net) = 0 /\ \A k \in 1 .. 0 : FALSE
      BY <1>4
    <3> QED
      BY <1>4, <1>7, <3>1 DEF PhaseOK
  <2> QED
    BY <2>1, <2>2, <2>3, <2>4, <2>5, <2>6, <2>7 DEF Side
<1>12. Crossed(T, H)
  BY <1>2, <1>4 DEF Crossed
<1>13. Shows(W)'
  <2>1. \A e \in Entities : About(server, Env, e) => About(server', Env', e)
    BY <1>0, <1>1, <1>6, <1>10
  <2>2. Shows(W)
    BY DEF Body
  <2> QED
    BY <1>2, <2>1, <2>2 DEF Shows
<1>14. ClientOK'
  BY <1>2 DEF Body, ClientOK
<1>15. /\ crashed' \in Messages \cup {NULL}
       /\ crashed' # NULL => crashed'.type = "REJECT" /\ <<crashed'.p, crashed'.e>> \in Refuses
  BY <1>2 DEF Body
<1>16. Body(W)'
  <2>1. ServerOK(server') /\ Env' \in Envs /\ TreeTyped(W) /\ Side(server', Env', W) /\ Crossed(server', Env')
    BY <1>0, <1>2, <1>5, <1>6, <1>8, <1>11, <1>12
  <2> QED
    BY <1>13, <1>14, <1>15, <2>1 DEF Body
<1> QED
  BY <1>16

\* With the last event handled nothing is under way but what the client has refused, and who
\* has left for a while or for good is not seen any more.
LEMMA UpdateSide ==
    ASSUME NEW S, NEW G \in Envs, NEW W, Good(S, G, W), TreeTyped(W), G.phase = "events",
           G.events = <<>>, NEW H \in Envs, H.events = <<>>, H.phase = "update",
           H.settling = {},
           \A e \in Entities : H.object[e] # "none" => W.at[e] # Absent /\ W.id[e] = H.net_ID[e]
    PROVE  Side(S, H, W)
<1>1. /\ ServerOK(S) /\ Side(S, G, W) /\ S \in Servers /\ S.net \in Seq(Messages) /\ TreeOK(S)
      /\ S.ID \in [Entities -> IDs \cup {NULL}] /\ TreeView(S) \in Views /\ W \in Views
  BY ServerTypes, LogTypes, ServerTree1, ViewTyped DEF Good, TreeTyped
<1>2. PICK s, V : s = S.net /\ V = TreeView(S)
  OBVIOUS
<1>3. Log(S, G) = s /\ Log(S, H) = s /\ s \in Seq(Messages)
  BY <1>1, <1>2 DEF Log
<1>4. S.freed = {} /\ Recent(S, H) = {} /\ \A k \in 1 .. Len(s) : s[k].type = "REJECT"
  BY <1>1, <1>2 DEF Side, PhaseOK, Recent
<1>5. Reaches(W, s, V)
  BY <1>1, <1>2, <1>3 DEF Side
<1>6. V.id = W.id /\ \A k \in 1 .. Len(s) : W.id[s[k].e] = s[k].id
  BY <1>3, <1>4, <1>5, RejectsOnly
<1>7. ASSUME NEW e \in Entities, NEW i \in IDs, V.id[e] = i PROVE On(S, e) /\ S.ID[e] = i
  BY <1>1, <1>2, <1>7, NoClash, ViewPlaces
<1>8. ASSUME NEW e \in Entities, NEW i \in IDs, Leaves(S, H, e, i) PROVE On(S, e) /\ S.ID[e] = i
  <2>1. W.id[e] = i
    BY <1>3, <1>6, <1>8 DEF Leaves
  <2> QED
    BY <1>6, <1>7, <2>1
<1>9. Traces(S, H)
  BY <1>8 DEF Traces
<1>10. OneTrace(S, H)
  <2>1. ASSUME NEW e \in Entities, NEW x \in Entities, NEW i \in IDs, Leaves(S, H, e, i), Leaves(S, H, x, i)
        PROVE  e = x
    <3>1. S.ID[e] = i /\ S.ID[x] = i
      BY <1>8, <2>1
    <3> QED
      BY <1>1, <3>1, NoClash DEF ServerOK, NamesOK
  <2> QED
    BY <2>1 DEF OneTrace
<1>11. SpawnsFresh(S, H)
  BY <1>3, <1>4 DEF SpawnsFresh
<1>12. OffGone(S, H)
  <2>1. ASSUME NEW e \in Entities, ~On(S, e) PROVE H.object[e] = "none" /\ ~About(S, H, e)
    <3>1. W.id[e] = NULL
      BY <1>1, <1>2, <1>6, <2>1, ViewPlaces
    <3>2. W.at[e] = Absent
      BY <3>1 DEF TreeTyped
    <3>3. H.object[e] = "none"
      BY <3>2
    <3>4. ~About(S, H, e)
      <4>1. ASSUME NEW k \in 1 .. Len(s), s[k].e = e PROVE FALSE
        <5>1. s[k] \in Messages
          BY <1>3
        <5>2. s[k].id \in IDs
          BY <5>1 DEF Messages
        <5> QED
          BY <1>6, <3>1, <4>1, <5>2, NoClash
      <4> QED
        BY <1>3, <4>1 DEF About
    <3> QED
      BY <3>3, <3>4
  <2> QED
    BY <2>1 DEF OffGone
<1>13. LateBlocks(S, H)
  BY <1>4 DEF LateBlocks
<1>14. PhaseOK(S, H)
  BY DEF PhaseOK
<1> QED
  BY <1>2, <1>3, <1>5, <1>9, <1>10, <1>11, <1>12, <1>13, <1>14 DEF Side

\* Update: who is dying is gone from the view already.
LEMMA UpdateStep ==
    ASSUME NEW W, Body(W), Update
    PROVE  Body(W)'
<1>0. PICK S : S = server /\ server' = S
  BY DEF Update
<1>1. PICK G \in Envs : G = Env
  BY EnvType
<1>2. /\ Good(S, G, W) /\ TreeTyped(W) /\ G.phase = "events" /\ S.failed = NULL
      /\ G.events = events /\ events = <<>> /\ UNCHANGED <<server, events, crashed>>
      /\ phase' = "update" /\ switched' = {} /\ settling' = {}
      /\ object \in [Entities -> {"none", "spawned", "dying"}]
      /\ net_ID \in [Entities -> IDs \cup {NULL}]
  BY <1>0, <1>1, EnvType DEF Update, Running
<1>3. ClientOK /\ Shows(W)
  BY DEF Body
<1>4. PICK dying : dying = {e \in Entities : object[e] = "dying"}
  OBVIOUS
<1>5. /\ object' = [e \in Entities |-> IF e \in dying THEN "none" ELSE object[e]]
      /\ net_ID' = [e \in Entities |-> IF e \in dying THEN NULL ELSE net_ID[e]]
      /\ Parent' = [e \in Entities |-> IF e \in dying THEN NULL ELSE Parent[e]]
      /\ map_NETID' = [id \in IDs |-> IF map_NETID[id] \in dying THEN NULL ELSE map_NETID[id]]
  BY <1>4 DEF Update
<1>6. /\ object' \in [Entities -> {"none", "spawned", "dying"}] /\ net_ID' \in [Entities -> IDs \cup {NULL}]
      /\ Parent' \in [Entities -> Owners \cup {NULL}] /\ map_NETID' \in [IDs -> Entities \cup {NULL}]
  BY <1>2, <1>3, <1>5 DEF ClientOK
<1>7. \A e \in Entities : /\ object'[e] = "spawned" <=> object[e] = "spawned"
                          /\ object'[e] # "none" => object[e] = "spawned"
                          /\ object[e] = "spawned" => net_ID'[e] = net_ID[e] /\ Parent'[e] = Parent[e] /\ e \notin dying
                          /\ Parent'[e] # NULL => Parent'[e] = Parent[e]
  BY <1>2, <1>4, <1>5
<1>8. PICK H \in Envs : H = Env'
  BY <1>2, <1>6, EnvType DEF Env, Envs
<1>9. /\ H.events = <<>> /\ H.phase = "update" /\ H.settling = {}
      /\ H.object = object' /\ H.net_ID = net_ID'
  BY <1>2, <1>8 DEF Env
<1>10. \A e \in Entities : H.object[e] # "none" => W.at[e] # Absent /\ W.id[e] = H.net_ID[e]
  BY <1>7, <1>9, Seen
<1>11. Side(S, H, W)
  BY <1>2, <1>9, <1>10, UpdateSide
<1>12. \A e : About(S, H, e) <=> About(S, G, e)
  BY <1>2, <1>9 DEF About, Log
<1>13. ClientOK'
  <2>1. ASSUME NEW e \in Entities, object'[e] # "none"
        PROVE  net_ID'[e] # NULL /\ map_NETID'[net_ID'[e]] = e
    <3>1. object[e] = "spawned" /\ net_ID'[e] = net_ID[e] /\ e \notin dying
      BY <1>7, <2>1
    <3>2. net_ID[e] # NULL /\ map_NETID[net_ID[e]] = e /\ net_ID[e] \in IDs
      BY <1>2, <1>3, <3>1 DEF ClientOK
    <3> QED
      BY <1>5, <3>1, <3>2
  <2>2. ASSUME NEW e \in Entities, Parent'[e] # NULL PROVE object'[e] = "spawned"
    BY <1>3, <1>7, <2>2 DEF ClientOK
  <2>3. ASSUME NEW id \in IDs, map_NETID'[id] # NULL
        PROVE  object'[map_NETID'[id]] # "none" /\ net_ID'[map_NETID'[id]] = id
    <3>1. map_NETID'[id] = map_NETID[id] /\ map_NETID[id] \notin dying
      BY <1>5, <2>3
    <3>2. PICK x \in Entities : x = map_NETID[id]
      BY <1>3, <2>3, <3>1 DEF ClientOK
    <3>3. object[x] # "none" /\ net_ID[x] = id
      BY <1>3, <2>3, <3>1, <3>2 DEF ClientOK
    <3>4. object[x] = "spawned"
      BY <1>2, <1>4, <3>1, <3>2, <3>3
    <3> QED
      BY <1>7, <3>1, <3>2, <3>3, <3>4
  <2> QED
    BY <1>6, <2>1, <2>2, <2>3 DEF ClientOK
<1>14. Shows(W)'
  <2>1. ASSUME NEW e \in Entities
        PROVE  IF object'[e] # "spawned" THEN W.at[e] = Absent
               ELSE /\ W.id[e] = net_ID'[e]
                    /\ \/ W.at[e] = Parent'[e]
                       \/ Parent'[e] = NULL /\ <<W.at[e], e>> \in Refuses /\ About(server', Env', e)
    BY <1>0, <1>1, <1>3, <1>7, <1>8, <1>12 DEF Shows
  <2> QED
    BY <2>1 DEF Shows
<1>15. Body(W)'
  <2>1. ServerOK(server') /\ Env' \in Envs /\ TreeTyped(W) /\ Side(server', Env', W)
    BY <1>0, <1>2, <1>8, <1>11 DEF Good
  <2>2. Crossed(server', Env')
    BY <1>0, <1>2 DEF Crossed
  <2>3. /\ crashed' \in Messages \cup {NULL}
        /\ crashed' # NULL => crashed'.type = "REJECT" /\ <<crashed'.p, crashed'.e>> \in Refuses
    BY <1>2 DEF Body
  <2> QED
    BY <1>13, <1>14, <2>1, <2>2, <2>3 DEF Body
<1> QED
  BY <1>15

\* A message is handled: the parts of the invariant that are the server's and the queues'.
LEMMA HeadStep ==
    ASSUME NEW W, Body(W), Running, phase = "events", events # <<>>, NEW m, m = Head(events),
           events' = Tail(events), UNCHANGED <<settling, phase, switched>>,
           object' \in [Entities -> {"none", "spawned", "dying"}],
           net_ID' \in [Entities -> IDs \cup {NULL}],
           \A e \in Entities : object'[e] # "none" =>
               (object[e] # "none" /\ net_ID'[e] = net_ID[e]) \/ (e = m.e /\ net_ID'[e] = m.id),
           \/ server' = server
           \/ /\ m.p \in Owners /\ m.e \in Items /\ m.type \in {"SPAWN", "TAKE"}
              /\ Send(<<[type |-> "REJECT", parent |-> m.parent, id |-> m.id]>>)
    PROVE  /\ m \in Messages /\ Allowed(W, m) /\ TreeTyped(After(W, m))
           /\ Good(server', Env', After(W, m)) /\ Crossed(server', Env') /\ Env' \in Envs
           /\ \A e \in Entities : About(server, Env, e) /\ e # m.e => About(server', Env', e)
           /\ Send(<<[type |-> "REJECT", parent |-> m.parent, id |-> m.id]>>)
                 /\ m.p \in Owners /\ m.e \in Items /\ m.type \in {"SPAWN", "TAKE"}
              => About(server', Env', m.e)
<1>0. PICK S, T : S = server /\ T = server'
  OBVIOUS
<1>1. PICK G \in Envs : G = Env
  BY EnvType
<1>2. /\ Good(S, G, W) /\ TreeTyped(W) /\ G.phase = "events" /\ S.failed = NULL
      /\ G.events = events /\ G.object = object /\ G.net_ID = net_ID /\ G.settling = settling
      /\ G.switched = switched
  BY <1>0, <1>1, EnvType DEF Running
<1>3. PICK H \in Envs : H = Env'
  <2>1. events' \in Seq(Messages)
    <3>1. events \in Seq(Messages)
      BY EnvType
    <3> QED
      BY <3>1
  <2> QED
    BY <2>1, EnvType DEF Env, Envs
<1>4. Handled(G, H, m)
  BY <1>2, <1>3 DEF Env, Handled
<1>5. PICK U : U = After(W, m)
  OBVIOUS
<1>6. /\ m \in Messages /\ Allowed(W, m) /\ TreeTyped(U) /\ Good(S, H, U)
      /\ \A e \in Entities : About(S, G, e) /\ e # m.e => About(S, H, e)
  <2>1. Good(S, G, W) /\ TreeTyped(W) /\ First(G, m) /\ Handled(G, H, m)
    BY <1>2, <1>4 DEF First
  <2>2. /\ m \in Messages /\ Allowed(W, m) /\ TreeTyped(After(W, m)) /\ Good(S, H, After(W, m))
        /\ \A e \in Entities : About(S, G, e) /\ e # m.e => About(S, H, e)
    BY <2>1, HeadGood
  <2> QED
    BY <1>5, <2>2
<1>7. Crossed(S, H)
  BY <1>2 DEF Crossed
<1>8. ASSUME m.p \in Owners, m.e \in Items, m.type \in {"SPAWN", "TAKE"},
             Send(<<[type |-> "REJECT", parent |-> m.parent, id |-> m.id]>>)
      PROVE  Answers(S, T, H, U) /\ About(T, H, m.e)
  <2>1. PICK o \in Owners, i \in Items : o = m.p /\ i = m.e
    BY <1>8
  <2>2. /\ o \in Entities /\ i \in Entities /\ o # NULL /\ o # i /\ m.id \in IDs /\ m.parent \in IDs \cup {NULL}
        /\ W.at[o] # Absent /\ W.id[o] = m.parent /\ W \in Views
    BY <1>2, <1>6, <2>1, NoClash DEF Allowed, Messages, TreeTyped
  <2>3. U.at[i] = o /\ U.id[i] = m.id /\ U.id[o] = m.parent
    BY <1>5, <1>6, <1>8, <2>1, <2>2, AfterPlaces
  <2>4. PICK r : r = [type |-> "REJECT", parent |-> m.parent, id |-> m.id]
    OBVIOUS
  <2>5. r \in Requests /\ r.type = "REJECT" /\ r.parent = m.parent /\ r.id = m.id
    BY <2>2, <2>4 DEF Requests
  <2>6. Asked(r, U, H, o, i)
    BY <2>3, <2>5 DEF Asked
  <2>7. Can(r, U, H)
    BY <2>5, <2>6 DEF Can
  <2>8. T = HandledAll(S, <<r>>)
    BY <1>0, <1>8, <2>4 DEF Send, HandledAll
  <2>9. T = Process_event(S, r) /\ Answers(S, T, H, U)
    BY <1>6, <1>7, <2>5, <2>7, <2>8, OneRequest
  <2>10. T = Process_event_reject(S, r)
    BY <1>2, <2>5, <2>9 DEF Process_event
  <2>11. /\ Good(T, H, U) /\ Crossed(T, H) /\ About(T, H, i)
         /\ \A x \in Entities : About(S, H, x) => About(T, H, x)
    BY <1>2, <1>6, <2>5, <2>6, <2>10, RejectGood
  <2> QED
    BY <2>1, <2>9, <2>11
<1>9. CASE server' = server
  <2>1. T = S
    BY <1>0, <1>9
  <2>2. ASSUME m.p \in Owners, m.e \in Items, m.type \in {"SPAWN", "TAKE"},
               Send(<<[type |-> "REJECT", parent |-> m.parent, id |-> m.id]>>)
        PROVE  About(T, H, m.e)
    BY <1>8, <2>2
  <2> QED
    BY <1>0, <1>1, <1>3, <1>5, <1>6, <1>7, <2>1, <2>2
<1>10. CASE /\ m.p \in Owners /\ m.e \in Items /\ m.type \in {"SPAWN", "TAKE"}
            /\ Send(<<[type |-> "REJECT", parent |-> m.parent, id |-> m.id]>>)
  <2>1. Answers(S, T, H, U) /\ About(T, H, m.e)
    BY <1>8, <1>10
  <2> QED
    BY <1>0, <1>1, <1>3, <1>5, <1>6, <2>1 DEF Answers
<1> QED
  BY <1>9, <1>10

\* The rest, with the object that m is about.
LEMMA EventStep ==
    ASSUME NEW W, Body(W), NEW m, m \in Messages, NEW U, U = After(W, m), TreeTyped(U),
           Good(server', Env', U), Crossed(server', Env'), Env' \in Envs,
           \A e \in Entities : About(server, Env, e) /\ e # m.e => About(server', Env', e),
           ClientOK', \A e \in Entities : e # m.e =>
               object'[e] = object[e] /\ net_ID'[e] = net_ID[e] /\ Parent'[e] = Parent[e],
           IF object'[m.e] # "spawned" THEN U.at[m.e] = Absent
           ELSE /\ U.id[m.e] = net_ID'[m.e]
                /\ \/ U.at[m.e] = Parent'[m.e]
                   \/ Parent'[m.e] = NULL /\ <<U.at[m.e], m.e>> \in Refuses /\ About(server', Env', m.e),
           \/ UNCHANGED crashed
           \/ crashed' = m /\ m.type = "REJECT" /\ <<m.p, m.e>> \in Refuses
    PROVE  Body(U)'
<1>1. W \in Views /\ m.e \in Entities /\ Shows(W)
  BY DEF Body, TreeTyped, Messages
<1>2. \A e \in Entities : e # m.e => U.at[e] = W.at[e] /\ U.id[e] = W.id[e]
  BY <1>1, AfterPlaces
<1>3. Shows(U)'
  <2>1. ASSUME NEW e \in Entities, e # m.e
        PROVE  IF object'[e] # "spawned" THEN U.at[e] = Absent
               ELSE /\ U.id[e] = net_ID'[e]
                    /\ \/ U.at[e] = Parent'[e]
                       \/ Parent'[e] = NULL /\ <<U.at[e], e>> \in Refuses /\ About(server', Env', e)
    <3>1. /\ object'[e] = object[e] /\ net_ID'[e] = net_ID[e] /\ Parent'[e] = Parent[e]
          /\ U.at[e] = W.at[e] /\ U.id[e] = W.id[e]
          /\ About(server, Env, e) => About(server', Env', e)
      BY <1>2, <2>1
    <3> QED
      BY <1>1, <3>1 DEF Shows
  <2> QED
    BY <2>1 DEF Shows
<1>4. /\ crashed' \in Messages \cup {NULL}
      /\ crashed' # NULL => crashed'.type = "REJECT" /\ <<crashed'.p, crashed'.e>> \in Refuses
  BY DEF Body
<1>5. ServerOK(server') /\ Side(server', Env', U)
  BY DEF Good
<1>6. Body(U)'
  BY <1>3, <1>4, <1>5 DEF Body
<1> QED
  BY <1>6

\* Whom the IDs of a message stand for on the client: whom they stood for on the server.
LEMMA HeadFinds ==
    ASSUME NEW W, Body(W), NEW m \in Messages, Allowed(W, m)
    PROVE  /\ m.e \in Entities /\ m.id \in IDs /\ m.p \in Owners \cup {NULL}
           /\ m.type # "SPAWN" => object[m.e] = "spawned" /\ net_ID[m.e] = m.id /\ map_NETID[m.id] = m.e
           /\ m.p # NULL => /\ m.p \in Owners /\ m.e \in Items /\ m.p # m.e /\ m.parent \in IDs
                            /\ object[m.p] = "spawned" /\ map_NETID[m.parent] = m.p
<1>1. /\ m.e \in Entities /\ m.id \in IDs /\ m.p \in Owners \cup {NULL} /\ m.parent \in IDs \cup {NULL}
      /\ m.type \in {"SPAWN", "TAKE", "REJECT", "DESTROY"}
  BY DEF Messages
<1>2. ASSUME NEW e \in Entities, NEW i \in IDs, W.at[e] # Absent, W.id[e] = i
      PROVE  object[e] = "spawned" /\ net_ID[e] = i /\ map_NETID[i] = e
  BY <1>2 DEF Body, Shows, ClientOK
<1>3. ASSUME m.type # "SPAWN" PROVE object[m.e] = "spawned" /\ net_ID[m.e] = m.id /\ map_NETID[m.id] = m.e
  <2>1. W.at[m.e] # Absent /\ W.id[m.e] = m.id
    BY <1>1, <1>3, NoClash DEF Allowed
  <2> QED
    BY <1>1, <1>2, <2>1
<1>4. ASSUME m.p # NULL
      PROVE  /\ m.p \in Owners /\ m.e \in Items /\ m.p # m.e /\ m.parent \in IDs
             /\ object[m.p] = "spawned" /\ map_NETID[m.parent] = m.p
  <2>1. /\ m.p \in Owners /\ m.p \in Entities /\ m.e \in Items /\ m.parent \in IDs
        /\ W.at[m.p] # Absent /\ W.id[m.p] = m.parent
    BY <1>1, <1>4, NoClash DEF Allowed
  <2> QED
    BY <1>2, <2>1, NoClash
<1> QED
  BY <1>1, <1>3, <1>4

\* The first message can arrive, and a new object is not there yet.
LEMMA EventHead ==
    ASSUME NEW W, Body(W), events # <<>>, NEW m, m = Head(events)
    PROVE  /\ m \in Messages /\ Allowed(W, m)
           /\ m.type = "SPAWN" => object[m.e] = "none" /\ map_NETID[m.id] = NULL
<1>0. PICK S : S = server
  OBVIOUS
<1>a. PICK G \in Envs : G = Env
  BY EnvType
<1>1. /\ ServerOK(S) /\ Side(S, G, W) /\ S \in Servers
      /\ G.events \in Seq(Messages) /\ S.net \in Seq(Messages)
  BY <1>0, <1>a, ServerTypes, LogTypes DEF Body
<1>2. G.events = events /\ G.object = object /\ G.net_ID = net_ID
  BY <1>a, EnvType
<1>3. PICK s : s = Log(S, G)
  OBVIOUS
<1>4. /\ s \in Seq(Messages) /\ s # <<>> /\ Head(s) = m /\ m \in Messages
      /\ Len(s) \in Nat /\ Len(s) >= 1 /\ s[1] = m
  <2>1. PICK a \in Seq(Messages), b \in Seq(Messages) : a = G.events /\ b = S.net
    BY <1>1
  <2>2. s = a \o b /\ a # <<>> /\ m = Head(a)
    BY <1>2, <1>3, <2>1 DEF Log
  <2>3. /\ s \in Seq(Messages) /\ s # <<>> /\ Head(s) = Head(a) /\ Tail(s) = Tail(a) \o b
        /\ Head(a) \in Messages /\ Len(s) \in Nat /\ Len(s) >= 1 /\ s[1] = Head(a)
        /\ Len(Tail(s)) = Len(s) - 1 /\ \A k \in 1 .. Len(s) - 1 : Tail(s)[k] = s[k + 1]
    BY <2>2, TailConcat
  <2> QED
    BY <2>2, <2>3
<1>5. Allowed(W, m)
  <2>1. PICK V : V = TreeView(S)
    OBVIOUS
  <2>2. Reaches(W, s, V)
    BY <1>1, <1>3, <2>1 DEF Side
  <2>3. TreeTyped(W)
    BY DEF Body
  <2> QED
    BY <1>4, <2>2, <2>3, ReachesTail
<1>6. m.e \in Entities /\ m.id \in IDs
  BY <1>4 DEF Messages
<1>7. 1 \in 1 .. Len(s)
  BY <1>4
<1>8. ASSUME m.type = "SPAWN" PROVE object[m.e] = "none" /\ map_NETID[m.id] = NULL
  <2>1. object[m.e] = "none"
    BY <1>1, <1>2, <1>3, <1>4, <1>7, <1>8 DEF Side, SpawnsFresh
  <2>2. ASSUME map_NETID[m.id] # NULL PROVE FALSE
    <3>1. PICK x \in Entities : x = map_NETID[m.id] /\ object[x] # "none" /\ net_ID[x] = m.id
      BY <1>6, <2>2 DEF Body, ClientOK
    <3>2. Leaves(S, G, x, m.id) /\ Leaves(S, G, m.e, m.id)
      BY <1>2, <1>3, <1>4, <1>7, <3>1 DEF Leaves
    <3>3. x = m.e
      BY <1>1, <1>6, <3>2 DEF Side, OneTrace
    <3> QED
      BY <2>1, <3>1, <3>3
  <2> QED
    BY <2>1, <2>2
<1> QED
  BY <1>4, <1>5, <1>8

\* What becomes of an item that is given to an owner, both of them on the client.
Given(o, i, m) ==
    \/ Parent' = [Parent EXCEPT ![i] = o] /\ object'[i] = "spawned" /\ UNCHANGED <<server, crashed>>
    \/ /\ <<o, i>> \in Refuses /\ UNCHANGED <<Parent, crashed>>
       /\ Send(<<[type |-> "REJECT", parent |-> m.parent, id |-> m.id]>>)

\* ClientTake.
LEMMA TakeStep ==
    ASSUME NEW W, Body(W), ClientTake
    PROVE  \E U : U = After(W, Head(events)) /\ Body(U)'
<1>1. PICK m : m = Head(events)
  OBVIOUS
<1>2. /\ Running /\ phase = "events" /\ events # <<>> /\ m.type = "TAKE"
      /\ events' = Tail(events) /\ UNCHANGED <<settling, phase, switched>>
      /\ net_ID' = net_ID /\ object' = object /\ map_NETID' = map_NETID
      /\ OnTake(map_NETID[m.parent], map_NETID[m.id])
  BY <1>1 DEF ClientTake, Event
<1>3. m \in Messages /\ Allowed(W, m)
  BY <1>1, <1>2, EventHead
<1>4. /\ m.e \in Entities /\ m.id \in IDs /\ m.p \in Owners \cup {NULL}
      /\ m.type # "SPAWN" => object[m.e] = "spawned" /\ net_ID[m.e] = m.id /\ map_NETID[m.id] = m.e
      /\ m.p # NULL => /\ m.p \in Owners /\ m.e \in Items /\ m.p # m.e /\ m.parent \in IDs
                       /\ object[m.p] = "spawned" /\ map_NETID[m.parent] = m.p
  BY <1>3, HeadFinds
<1>5. PICK o \in Owners : o = m.p
  BY <1>2, <1>3, <1>4 DEF Allowed
<1>6. PICK i \in Items : i = m.e
  BY <1>4, <1>5, NoClash
<1>7. /\ map_NETID[m.parent] = o /\ map_NETID[m.id] = i /\ object[i] = "spawned" /\ net_ID[i] = m.id
      /\ o # NULL /\ i # NULL /\ o \in Entities /\ i \in Entities /\ W.at[i] = NULL /\ m.p # NULL
  BY <1>2, <1>3, <1>4, <1>5, <1>6, NoClash DEF Allowed
<1>8. Given(o, i, m)
  BY <1>1, <1>2, <1>7 DEF OnTake, Quiet, Given
<1>9. /\ object' \in [Entities -> {"none", "spawned", "dying"}]
      /\ net_ID' \in [Entities -> IDs \cup {NULL}]
      /\ Parent \in [Entities -> Owners \cup {NULL}]
  BY <1>2, EnvType DEF Body, ClientOK
<1>10. PICK U : U = After(W, m)
  OBVIOUS
<1>11. /\ m \in Messages /\ Allowed(W, m) /\ TreeTyped(U)
       /\ Good(server', Env', U) /\ Crossed(server', Env') /\ Env' \in Envs
       /\ \A e \in Entities : About(server, Env, e) /\ e # m.e => About(server', Env', e)
       /\ Send(<<[type |-> "REJECT", parent |-> m.parent, id |-> m.id]>>)
             /\ m.p \in Owners /\ m.e \in Items /\ m.type \in {"SPAWN", "TAKE"}
          => About(server', Env', m.e)
  <2>1. \/ server' = server
        \/ /\ m.p \in Owners /\ m.e \in Items /\ m.type \in {"SPAWN", "TAKE"}
           /\ Send(<<[type |-> "REJECT", parent |-> m.parent, id |-> m.id]>>)
    BY <1>2, <1>5, <1>6, <1>8 DEF Given
  <2>2. \A e \in Entities : object'[e] # "none" =>
           (object[e] # "none" /\ net_ID'[e] = net_ID[e]) \/ (e = m.e /\ net_ID'[e] = m.id)
    BY <1>2
  <2> QED
    BY <1>1, <1>2, <1>9, <1>10, <2>1, <2>2, HeadStep
<1>12. U.at[i] = o /\ U.id[i] = m.id
  <2>1. W \in Views /\ i \in Entities
    BY <1>7 DEF Body, TreeTyped
  <2>2. /\ U.at[i] = ChangeOf(m).to /\ U.id[i] = m.id /\ ChangeOf(m).to = m.p
    BY <1>2, <1>3, <1>6, <1>10, <2>1, AfterPlaces
  <2> QED
    BY <1>5, <2>2
<1>13. Parent'[i] = o \/ (Parent'[i] = NULL /\ <<o, i>> \in Refuses /\ About(server', Env', i))
  <2>1. CASE Parent' = [Parent EXCEPT ![i] = o]
    BY <1>7, <1>9, <2>1
  <2>2. CASE /\ <<o, i>> \in Refuses /\ UNCHANGED <<Parent, crashed>>
             /\ Send(<<[type |-> "REJECT", parent |-> m.parent, id |-> m.id]>>)
    <3>1. Parent[i] = NULL
      BY <1>7 DEF Body, Shows
    <3>2. About(server', Env', m.e)
      BY <1>2, <1>5, <1>6, <1>11, <2>2
    <3> QED
      BY <1>6, <2>2, <3>1, <3>2
  <2> QED
    BY <1>8, <2>1, <2>2 DEF Given
<1>14. /\ \A e \in Entities : e # m.e => Parent'[e] = Parent[e]
       /\ Parent' \in [Entities -> Owners \cup {NULL}] /\ crashed' = crashed
  BY <1>6, <1>8, <1>9 DEF Given
<1>15. ClientOK'
  <2>1. \A e \in Entities : Parent'[e] # NULL => object'[e] = "spawned"
    BY <1>2, <1>6, <1>7, <1>14 DEF Body, ClientOK
  <2> QED
    BY <1>2, <1>14, <2>1 DEF Body, ClientOK
<1>16. IF object'[m.e] # "spawned" THEN U.at[m.e] = Absent
       ELSE /\ U.id[m.e] = net_ID'[m.e]
            /\ \/ U.at[m.e] = Parent'[m.e]
               \/ Parent'[m.e] = NULL /\ <<U.at[m.e], m.e>> \in Refuses /\ About(server', Env', m.e)
  BY <1>2, <1>6, <1>7, <1>12, <1>13
<1>17. \A e \in Entities : e # m.e =>
          object'[e] = object[e] /\ net_ID'[e] = net_ID[e] /\ Parent'[e] = Parent[e]
  BY <1>2, <1>14
<1>18. UNCHANGED crashed \/ (crashed' = m /\ m.type = "REJECT" /\ <<m.p, m.e>> \in Refuses)
  BY <1>14
<1>u. U = After(W, Head(events))
  BY <1>1, <1>10
<1>b. Body(U)'
  BY <1>10, <1>11, <1>15, <1>16, <1>17, <1>18, EventStep
<1> QED
  BY <1>u, <1>b

\* ClientReject.
LEMMA RejectStep ==
    ASSUME NEW W, Body(W), ClientReject
    PROVE  \E U : U = After(W, Head(events)) /\ Body(U)'
<1>1. PICK m : m = Head(events)
  OBVIOUS
<1>2. /\ Running /\ phase = "events" /\ events # <<>> /\ m.type = "REJECT"
      /\ events' = Tail(events) /\ UNCHANGED <<settling, phase, switched>>
      /\ net_ID' = net_ID
  BY <1>1 DEF ClientReject, Event
<1>3. m \in Messages /\ Allowed(W, m)
  BY <1>1, <1>2, EventHead
<1>4. /\ m.e \in Entities /\ m.id \in IDs /\ m.p \in Owners \cup {NULL}
      /\ m.type # "SPAWN" => object[m.e] = "spawned" /\ net_ID[m.e] = m.id /\ map_NETID[m.id] = m.e
      /\ m.p # NULL => /\ m.p \in Owners /\ m.e \in Items /\ m.p # m.e /\ m.parent \in IDs
                       /\ object[m.p] = "spawned" /\ map_NETID[m.parent] = m.p
  BY <1>3, HeadFinds
<1>5. PICK o \in Owners : o = m.p
  BY <1>2, <1>3, <1>4 DEF Allowed
<1>6. PICK i \in Items : i = m.e
  BY <1>4, <1>5, NoClash
<1>7. /\ map_NETID[m.parent] = o /\ map_NETID[m.id] = i /\ object[i] = "spawned" /\ net_ID[i] = m.id
      /\ o # NULL /\ i # NULL /\ o \in Entities /\ i \in Entities /\ W.at[i] = o
  BY <1>2, <1>3, <1>4, <1>5, <1>6, NoClash DEF Allowed
<1>8. /\ object' = object /\ map_NETID' = map_NETID /\ server' = server
      /\ \/ o \in Actors /\ Parent[i] # o /\ UNCHANGED <<crashed, Parent>>
         \/ Parent[i] = o /\ Parent' = [Parent EXCEPT ![i] = NULL] /\ UNCHANGED crashed
         \/ Parent[i] # o /\ crashed' = m /\ UNCHANGED Parent
  BY <1>1, <1>7 DEF ClientReject, Quiet, Crash
<1>9. /\ object' \in [Entities -> {"none", "spawned", "dying"}]
      /\ net_ID' \in [Entities -> IDs \cup {NULL}]
      /\ Parent \in [Entities -> Owners \cup {NULL}]
  BY <1>2, <1>8, EnvType DEF Body, ClientOK
<1>10. PICK U : U = After(W, m)
  OBVIOUS
<1>11. /\ m \in Messages /\ Allowed(W, m) /\ TreeTyped(U)
       /\ Good(server', Env', U) /\ Crossed(server', Env') /\ Env' \in Envs
       /\ \A e \in Entities : About(server, Env, e) /\ e # m.e => About(server', Env', e)
       /\ Send(<<[type |-> "REJECT", parent |-> m.parent, id |-> m.id]>>)
             /\ m.p \in Owners /\ m.e \in Items /\ m.type \in {"SPAWN", "TAKE"}
          => About(server', Env', m.e)
  <2>1. \/ server' = server
        \/ /\ m.p \in Owners /\ m.e \in Items /\ m.type \in {"SPAWN", "TAKE"}
           /\ Send(<<[type |-> "REJECT", parent |-> m.parent, id |-> m.id]>>)
    BY <1>8
  <2>2. \A e \in Entities : object'[e] # "none" =>
           (object[e] # "none" /\ net_ID'[e] = net_ID[e]) \/ (e = m.e /\ net_ID'[e] = m.id)
    BY <1>2, <1>8
  <2> QED
    BY <1>1, <1>2, <1>9, <1>10, <2>1, <2>2, HeadStep
<1>12. U.at[i] = NULL /\ U.id[i] = m.id
  <2>1. W \in Views /\ i \in Entities
    BY <1>7 DEF Body, TreeTyped
  <2>2. /\ U.at[i] = ChangeOf(m).to /\ U.id[i] = m.id /\ ChangeOf(m).to = NULL
    BY <1>2, <1>3, <1>6, <1>10, <2>1, AfterPlaces
  <2> QED
    BY <2>2
<1>13. Parent[i] = o \/ (Parent[i] = NULL /\ <<o, i>> \in Refuses)
  BY <1>7 DEF Body, Shows
<1>14. /\ Parent'[i] = NULL /\ Parent' \in [Entities -> Owners \cup {NULL}]
       /\ \A e \in Entities : e # i => Parent'[e] = Parent[e]
  BY <1>7, <1>8, <1>9, <1>13
<1>15. ClientOK'
  <2>1. \A e \in Entities : Parent'[e] # NULL => object'[e] = "spawned"
    BY <1>8, <1>14 DEF Body, ClientOK
  <2> QED
    BY <1>2, <1>8, <1>14, <2>1 DEF Body, ClientOK
<1>16. IF object'[m.e] # "spawned" THEN U.at[m.e] = Absent
       ELSE /\ U.id[m.e] = net_ID'[m.e]
            /\ \/ U.at[m.e] = Parent'[m.e]
               \/ Parent'[m.e] = NULL /\ <<U.at[m.e], m.e>> \in Refuses /\ About(server', Env', m.e)
  BY <1>2, <1>6, <1>7, <1>8, <1>12, <1>14
<1>17. \A e \in Entities : e # m.e =>
          object'[e] = object[e] /\ net_ID'[e] = net_ID[e] /\ Parent'[e] = Parent[e]
  BY <1>2, <1>6, <1>8, <1>14
<1>18. UNCHANGED crashed \/ (crashed' = m /\ m.type = "REJECT" /\ <<m.p, m.e>> \in Refuses)
  BY <1>2, <1>5, <1>6, <1>8, <1>13
<1>u. U = After(W, Head(events))
  BY <1>1, <1>10
<1>b. Body(U)'
  BY <1>10, <1>11, <1>15, <1>16, <1>17, <1>18, EventStep
<1> QED
  BY <1>u, <1>b

\* ClientDestroy.
LEMMA DestroyStep ==
    ASSUME NEW W, Body(W), ClientDestroy
    PROVE  \E U : U = After(W, Head(events)) /\ Body(U)'
<1>1. PICK m : m = Head(events)
  OBVIOUS
<1>2. /\ Running /\ phase = "events" /\ events # <<>> /\ m.type = "DESTROY"
      /\ events' = Tail(events) /\ UNCHANGED <<settling, phase, switched>>
      /\ net_ID' = net_ID
  BY <1>1 DEF ClientDestroy, Event
<1>3. m \in Messages /\ Allowed(W, m)
  BY <1>1, <1>2, EventHead
<1>4. /\ m.e \in Entities /\ m.id \in IDs /\ m.p \in Owners \cup {NULL}
      /\ m.type # "SPAWN" => object[m.e] = "spawned" /\ net_ID[m.e] = m.id /\ map_NETID[m.id] = m.e
      /\ m.p # NULL => /\ m.p \in Owners /\ m.e \in Items /\ m.p # m.e /\ m.parent \in IDs
                       /\ object[m.p] = "spawned" /\ map_NETID[m.parent] = m.p
  BY <1>3, HeadFinds
<1>5. PICK d \in Entities : d = m.e
  BY <1>4
<1>6. object[d] = "spawned" /\ net_ID[d] = m.id /\ map_NETID[m.id] = d /\ d # NULL /\ W.at[d] = NULL
  BY <1>2, <1>3, <1>4, <1>5, NoClash DEF Allowed
<1>7. /\ object' = [object EXCEPT ![d] = "dying"] /\ map_NETID' = map_NETID /\ Parent' = Parent
      /\ server' = server /\ crashed' = crashed
  BY <1>1, <1>6 DEF ClientDestroy, Quiet
<1>8. Parent[d] = NULL
  BY <1>6 DEF Body, Shows
<1>9. object \in [Entities -> {"none", "spawned", "dying"}] /\ net_ID \in [Entities -> IDs \cup {NULL}]
  BY EnvType
<1>10. /\ object' \in [Entities -> {"none", "spawned", "dying"}] /\ object'[d] = "dying"
       /\ net_ID' \in [Entities -> IDs \cup {NULL}]
       /\ \A e \in Entities : e # d => object'[e] = object[e]
  BY <1>2, <1>7, <1>9
<1>11. PICK U : U = After(W, m)
  OBVIOUS
<1>12. /\ m \in Messages /\ Allowed(W, m) /\ TreeTyped(U)
       /\ Good(server', Env', U) /\ Crossed(server', Env') /\ Env' \in Envs
       /\ \A e \in Entities : About(server, Env, e) /\ e # m.e => About(server', Env', e)
       /\ Send(<<[type |-> "REJECT", parent |-> m.parent, id |-> m.id]>>)
             /\ m.p \in Owners /\ m.e \in Items /\ m.type \in {"SPAWN", "TAKE"}
          => About(server', Env', m.e)
  <2>1. \/ server' = server
        \/ /\ m.p \in Owners /\ m.e \in Items /\ m.type \in {"SPAWN", "TAKE"}
           /\ Send(<<[type |-> "REJECT", parent |-> m.parent, id |-> m.id]>>)
    BY <1>7
  <2>2. \A e \in Entities : object'[e] # "none" =>
           (object[e] # "none" /\ net_ID'[e] = net_ID[e]) \/ (e = m.e /\ net_ID'[e] = m.id)
    BY <1>2, <1>5, <1>6, <1>10
  <2> QED
    BY <1>1, <1>2, <1>10, <1>11, <2>1, <2>2, HeadStep
<1>13. U.at[d] = Absent
  <2>1. W \in Views
    BY DEF Body, TreeTyped
  <2>2. U.at[d] = ChangeOf(m).to /\ ChangeOf(m).to = Absent
    BY <1>2, <1>3, <1>5, <1>11, <2>1, AfterPlaces
  <2> QED
    BY <2>2
<1>14. ClientOK'
  <2>1. \A e \in Entities : Parent'[e] # NULL => object'[e] = "spawned"
    BY <1>7, <1>8, <1>10 DEF Body, ClientOK
  <2>2. \A e \in Entities : object'[e] # "none" => object[e] # "none"
    BY <1>6, <1>10
  <2>3. \A e \in Entities : object[e] # "none" => object'[e] # "none"
    BY <1>10
  <2>4. \A e \in Entities : object'[e] # "none" => net_ID'[e] # NULL /\ map_NETID'[net_ID'[e]] = e
    BY <1>2, <1>7, <2>2 DEF Body, ClientOK
  <2>5. \A id \in IDs : map_NETID'[id] # NULL =>
           object'[map_NETID'[id]] # "none" /\ net_ID'[map_NETID'[id]] = id
    BY <1>2, <1>7, <2>3 DEF Body, ClientOK
  <2> QED
    BY <1>7, <2>1, <2>4, <2>5 DEF Body, ClientOK
<1>15. IF object'[m.e] # "spawned" THEN U.at[m.e] = Absent
       ELSE /\ U.id[m.e] = net_ID'[m.e]
            /\ \/ U.at[m.e] = Parent'[m.e]
               \/ Parent'[m.e] = NULL /\ <<U.at[m.e], m.e>> \in Refuses /\ About(server', Env', m.e)
  BY <1>5, <1>10, <1>13
<1>16. \A e \in Entities : e # m.e =>
          object'[e] = object[e] /\ net_ID'[e] = net_ID[e] /\ Parent'[e] = Parent[e]
  BY <1>2, <1>5, <1>7, <1>10
<1>17. UNCHANGED crashed \/ (crashed' = m /\ m.type = "REJECT" /\ <<m.p, m.e>> \in Refuses)
  BY <1>7
<1>u. U = After(W, Head(events))
  BY <1>1, <1>11
<1>b. Body(U)'
  BY <1>11, <1>12, <1>14, <1>15, <1>16, <1>17, EventStep
<1> QED
  BY <1>u, <1>b

\* ClientSpawn.
LEMMA SpawnEventStep ==
    ASSUME NEW W, Body(W), ClientSpawn
    PROVE  \E U : U = After(W, Head(events)) /\ Body(U)'
<1>1. PICK m : m = Head(events)
  OBVIOUS
<1>2. /\ Running /\ phase = "events" /\ events # <<>> /\ m.type = "SPAWN"
      /\ events' = Tail(events) /\ UNCHANGED <<settling, phase, switched>>
      /\ object' = [object EXCEPT ![m.e] = "spawned"]
      /\ net_ID' = [net_ID EXCEPT ![m.e] = m.id]
      /\ map_NETID' = [map_NETID EXCEPT ![m.id] = IF @ = NULL THEN m.e ELSE @]
  BY <1>1 DEF ClientSpawn
<1>3. m \in Messages /\ Allowed(W, m) /\ object[m.e] = "none" /\ map_NETID[m.id] = NULL
  BY <1>1, <1>2, EventHead
<1>4. /\ m.e \in Entities /\ m.id \in IDs /\ m.p \in Owners \cup {NULL}
      /\ m.type # "SPAWN" => object[m.e] = "spawned" /\ net_ID[m.e] = m.id /\ map_NETID[m.id] = m.e
      /\ m.p # NULL => /\ m.p \in Owners /\ m.e \in Items /\ m.p # m.e /\ m.parent \in IDs
                       /\ object[m.p] = "spawned" /\ map_NETID[m.parent] = m.p
  BY <1>3, HeadFinds
<1>5. PICK d \in Entities : d = m.e
  BY <1>4
<1>6. W.at[d] = Absent /\ object[d] = "none" /\ Parent[d] = NULL /\ d # NULL /\ (m.parent = NULL <=> m.p = NULL)
  BY <1>2, <1>3, <1>5, NoClash DEF Allowed, Body, ClientOK
<1>7. /\ object \in [Entities -> {"none", "spawned", "dying"}] /\ net_ID \in [Entities -> IDs \cup {NULL}]
      /\ map_NETID \in [IDs -> Entities \cup {NULL}] /\ Parent \in [Entities -> Owners \cup {NULL}]
  BY EnvType DEF Body, ClientOK
<1>8. /\ object' \in [Entities -> {"none", "spawned", "dying"}] /\ object'[d] = "spawned"
      /\ \A e \in Entities : e # d => object'[e] = object[e]
  BY <1>2, <1>5, <1>7
<1>9. /\ net_ID' \in [Entities -> IDs \cup {NULL}] /\ net_ID'[d] = m.id
      /\ \A e \in Entities : e # d => net_ID'[e] = net_ID[e]
  BY <1>2, <1>4, <1>5, <1>7
<1>10. /\ map_NETID' \in [IDs -> Entities \cup {NULL}] /\ map_NETID'[m.id] = d
       /\ \A id \in IDs : id # m.id => map_NETID'[id] = map_NETID[id]
  BY <1>2, <1>3, <1>4, <1>5, <1>7
<1>11. \/ m.p = NULL /\ UNCHANGED <<Parent, server, crashed>>
       \/ /\ m.p \in Owners /\ m.e \in Items
          /\ Given(m.p, m.e, m)
  <2>1. CASE m.p = NULL
    BY <1>1, <1>6, <2>1 DEF ClientSpawn, Quiet
  <2>2. CASE m.p # NULL
    <3>1. PICK o \in Owners : o = m.p
      BY <1>4, <2>2
    <3>2. /\ m.parent \in IDs /\ map_NETID[m.parent] = o /\ o # NULL /\ m.parent # NULL /\ m.e \in Items
      BY <1>4, <1>6, <2>2, <3>1, NoClash
    <3>3. map_NETID'[m.parent] = o
      BY <1>3, <1>10, <3>2
    <3>4. OnTake(o, d)
      BY <1>1, <1>10, <3>2, <3>3 DEF ClientSpawn
    <3>5. Given(o, d, m)
      BY <1>1, <1>6, <1>8, <3>2, <3>4 DEF OnTake, Quiet, Given
    <3> QED
      BY <1>5, <3>1, <3>2, <3>5
  <2> QED
    BY <2>1, <2>2
<1>12. PICK U : U = After(W, m)
  OBVIOUS
<1>13. /\ m \in Messages /\ Allowed(W, m) /\ TreeTyped(U)
       /\ Good(server', Env', U) /\ Crossed(server', Env') /\ Env' \in Envs
       /\ \A e \in Entities : About(server, Env, e) /\ e # m.e => About(server', Env', e)
       /\ Send(<<[type |-> "REJECT", parent |-> m.parent, id |-> m.id]>>)
             /\ m.p \in Owners /\ m.e \in Items /\ m.type \in {"SPAWN", "TAKE"}
          => About(server', Env', m.e)
  <2>1. \/ server' = server
        \/ /\ m.p \in Owners /\ m.e \in Items /\ m.type \in {"SPAWN", "TAKE"}
           /\ Send(<<[type |-> "REJECT", parent |-> m.parent, id |-> m.id]>>)
    BY <1>2, <1>11 DEF Given
  <2>2. \A e \in Entities : object'[e] # "none" =>
           (object[e] # "none" /\ net_ID'[e] = net_ID[e]) \/ (e = m.e /\ net_ID'[e] = m.id)
    BY <1>5, <1>8, <1>9
  <2> QED
    BY <1>1, <1>2, <1>8, <1>9, <1>12, <2>1, <2>2, HeadStep
<1>14. U.at[d] = m.p /\ U.id[d] = m.id
  <2>1. W \in Views
    BY DEF Body, TreeTyped
  <2>2. U.at[d] = ChangeOf(m).to /\ U.id[d] = m.id /\ ChangeOf(m).to = m.p
    BY <1>2, <1>3, <1>5, <1>12, <2>1, AfterPlaces
  <2> QED
    BY <2>2
<1>15. /\ \/ m.p = Parent'[d]
          \/ Parent'[d] = NULL /\ <<m.p, d>> \in Refuses /\ About(server', Env', d)
       /\ Parent' \in [Entities -> Owners \cup {NULL}] /\ crashed' = crashed
       /\ \A e \in Entities : e # d => Parent'[e] = Parent[e]
  <2>1. CASE m.p = NULL /\ UNCHANGED <<Parent, server, crashed>>
    BY <1>6, <1>7, <2>1
  <2>2. CASE m.p \in Owners /\ m.e \in Items /\ Given(m.p, m.e, m)
    <3>1. CASE Parent' = [Parent EXCEPT ![m.e] = m.p] /\ UNCHANGED crashed
      BY <1>5, <1>7, <2>2, <3>1
    <3>2. CASE /\ <<m.p, m.e>> \in Refuses /\ UNCHANGED <<Parent, crashed>>
               /\ Send(<<[type |-> "REJECT", parent |-> m.parent, id |-> m.id]>>)
      <4>1. About(server', Env', m.e)
        BY <1>2, <1>13, <2>2, <3>2
      <4> QED
        BY <1>5, <1>6, <1>7, <3>2, <4>1
    <3> QED
      BY <2>2, <3>1, <3>2 DEF Given
  <2> QED
    BY <1>11, <2>1, <2>2
<1>16. ClientOK'
  <2>1. \A e \in Entities : Parent'[e] # NULL => object'[e] = "spawned"
    BY <1>8, <1>15 DEF Body, ClientOK
  <2>2. ASSUME NEW e \in Entities, object'[e] # "none"
        PROVE  net_ID'[e] # NULL /\ map_NETID'[net_ID'[e]] = e
    <3>1. CASE e = d
      BY <1>4, <1>9, <1>10, <3>1, NoClash
    <3>2. CASE e # d
      <4>1. object[e] # "none" /\ net_ID'[e] = net_ID[e]
        BY <1>8, <1>9, <2>2, <3>2
      <4>2. net_ID[e] # NULL /\ net_ID[e] \in IDs /\ map_NETID[net_ID[e]] = e /\ e # NULL
        BY <1>7, <4>1, NoClash DEF Body, ClientOK
      <4>3. net_ID[e] # m.id
        BY <1>3, <4>2
      <4> QED
        BY <1>10, <4>1, <4>2, <4>3
    <3> QED
      BY <3>1, <3>2
  <2>3. ASSUME NEW id \in IDs, map_NETID'[id] # NULL
        PROVE  object'[map_NETID'[id]] # "none" /\ net_ID'[map_NETID'[id]] = id
    <3>1. CASE id = m.id
      BY <1>8, <1>9, <1>10, <3>1
    <3>2. CASE id # m.id
      <4>1. PICK e \in Entities : e = map_NETID'[id] /\ e = map_NETID[id] /\ object[e] # "none" /\ net_ID[e] = id
        BY <1>7, <1>10, <2>3, <3>2 DEF Body, ClientOK
      <4>2. e # d
        BY <1>6, <4>1
      <4> QED
        BY <1>8, <1>9, <4>1, <4>2
    <3> QED
      BY <3>1, <3>2
  <2> QED
    BY <1>10, <1>15, <2>1, <2>2, <2>3 DEF ClientOK
<1>17. IF object'[m.e] # "spawned" THEN U.at[m.e] = Absent
       ELSE /\ U.id[m.e] = net_ID'[m.e]
            /\ \/ U.at[m.e] = Parent'[m.e]
               \/ Parent'[m.e] = NULL /\ <<U.at[m.e], m.e>> \in Refuses /\ About(server', Env', m.e)
  BY <1>5, <1>8, <1>9, <1>14, <1>15
<1>18. \A e \in Entities : e # m.e =>
          object'[e] = object[e] /\ net_ID'[e] = net_ID[e] /\ Parent'[e] = Parent[e]
  BY <1>5, <1>8, <1>9, <1>15
<1>19. UNCHANGED crashed \/ (crashed' = m /\ m.type = "REJECT" /\ <<m.p, m.e>> \in Refuses)
  BY <1>15
<1>u. U = After(W, Head(events))
  BY <1>1, <1>12
<1>b. Body(U)'
  BY <1>12, <1>13, <1>16, <1>17, <1>18, <1>19, EventStep
<1> QED
  BY <1>u, <1>b

LEMMA Stutter ==
    ASSUME NEW W, Body(W), UNCHANGED vars
    PROVE  Body(W)'
<1>1. /\ server' = server /\ Env' = Env /\ crashed' = crashed
      /\ object' = object /\ net_ID' = net_ID /\ Parent' = Parent /\ map_NETID' = map_NETID
  BY DEF vars, client, Env
<1>2. ClientOK' /\ Shows(W)'
  BY <1>1 DEF Body, ClientOK, Shows
<1> QED
  BY <1>1, <1>2 DEF Body

LEMMA WorldSteps ==
    ASSUME NEW W, Body(W)
    PROVE  /\ \A e \in Entities : Process_spawn(e, NULL) => Keeps(W)
           /\ \A o \in Owners, i \in Items : Process_spawn(i, o) => Keeps(W)
           /\ \A e \in Entities : remove_online(e) \/ add_online(e) \/ release(e) => Keeps(W)
<1>1. ASSUME NEW e \in Entities, NEW o, o = NULL \/ (o \in Owners /\ e \in Items),
             Process_spawn(e, o)
      PROVE  Keeps(W)
  BY <1>1, SpawnStep
<1>2. ASSUME NEW e \in Entities, Process_spawn(e, NULL) PROVE Keeps(W)
  BY <1>1, <1>2
<1>3. ASSUME NEW o \in Owners, NEW i \in Items, Process_spawn(i, o) PROVE Keeps(W)
  <2>1. PICK e \in Entities : e = i
    BY NoClash
  <2> QED
    BY <1>1, <1>3, <2>1
<1>4. ASSUME NEW e \in Entities, remove_online(e) \/ add_online(e) PROVE Keeps(W)
  BY <1>4, SwitchStep
<1>5. ASSUME NEW e \in Entities, release(e) PROVE Keeps(W)
  BY <1>5, ReleaseStep
<1> QED
  BY <1>2, <1>3, <1>4, <1>5

\* A step of the server.
Serves ==
    \/ \E e \in Entities : \/ Process_spawn(e, NULL) \/ DestroyObject(e)
                           \/ remove_online(e) \/ add_online(e) \/ release(e)
    \/ \E o \in Owners, i \in Items :
          \/ Process_spawn(i, o) \/ TakeNear(o, i) \/ Drop(o, i) \/ Eat(o, i)
          \/ \E q \in Owners : TransferItem(o, i, q)

\* Every step of the server keeps the invariant and all messages.
LEMMA ServesStep ==
    ASSUME NEW W, Body(W), Serves
    PROVE  Keeps(W)
<1>1. ASSUME NEW e \in Entities,
             \/ Process_spawn(e, NULL) \/ DestroyObject(e)
             \/ remove_online(e) \/ add_online(e) \/ release(e)
      PROVE  Keeps(W)
  <2>1. /\ Process_spawn(e, NULL) => Keeps(W)
        /\ remove_online(e) \/ add_online(e) \/ release(e) => Keeps(W)
    BY WorldSteps
  <2>2. DestroyObject(e) => Keeps(W)
    BY AskSteps
  <2> QED
    BY <1>1, <2>1, <2>2
<1>2. ASSUME NEW o \in Owners, NEW i \in Items,
             \/ Process_spawn(i, o) \/ TakeNear(o, i) \/ Drop(o, i) \/ Eat(o, i)
             \/ \E q \in Owners : TransferItem(o, i, q)
      PROVE  Keeps(W)
  <2>1. Process_spawn(i, o) => Keeps(W)
    BY WorldSteps
  <2>2. /\ TakeNear(o, i) \/ Drop(o, i) \/ Eat(o, i) => Keeps(W)
        /\ \A q \in Owners : TransferItem(o, i, q) => Keeps(W)
    BY AskSteps
  <2> QED
    BY <1>2, <2>1, <2>2
<1> QED
  BY <1>1, <1>2 DEF Serves

\* A step in which the client handles the first event.
Handles == ClientSpawn \/ ClientTake \/ ClientReject \/ ClientDestroy

\* Every step of the client that handles a message moves the view by it.
LEMMA HandlesStep ==
    ASSUME NEW W, Body(W), Handles
    PROVE  \E U : U = After(W, Head(events)) /\ Body(U)'
<1>1. CASE ClientSpawn
  BY <1>1, SpawnEventStep
<1>2. CASE ClientTake
  BY <1>2, TakeStep
<1>3. CASE ClientReject
  BY <1>3, RejectStep
<1>4. CASE ClientDestroy
  BY <1>4, DestroyStep
<1> QED
  BY <1>1, <1>2, <1>3, <1>4 DEF Handles

LEMMA NextCases ==
    ASSUME [Next]_vars
    PROVE  Serves \/ Handles \/ ClientReceive \/ Update \/ UNCHANGED vars
  BY DEF Next, Serves, Handles

\* Every step keeps the invariant.
LEMMA IInvStep ==
    ASSUME IInv, [Next]_vars
    PROVE  IInv'
<1>1. PICK W : Body(W)
  BY DEF IInv
<1>2. ASSUME Serves PROVE IInv'
  <2>1. Body(W)'
    BY <1>1, <1>2, ServesStep DEF Keeps
  <2> QED
    BY <2>1 DEF IInv
<1>3. ASSUME Handles PROVE IInv'
  <2>1. \E U : Body(U)'
    BY <1>1, <1>3, HandlesStep
  <2> QED
    BY <2>1 DEF IInv
<1>4. ASSUME ClientReceive \/ Update \/ UNCHANGED vars PROVE IInv'
  <2>1. Body(W)'
    BY <1>1, <1>4, ReceiveStep, UpdateStep, Stutter
  <2> QED
    BY <2>1 DEF IInv
<1> QED
  BY <1>2, <1>3, <1>4, NextCases

-----------------------------------------------------------------------------
(* The initial state.                                                      *)

LEMMA TimesMono ==
    ASSUME NEW x \in Int, NEW y \in Int, x <= y, NEW t \in Nat
    PROVE  x * t <= y * t
<1>1. (y - x) * t >= 0
  OBVIOUS
<1>2. (y - x) * t = y * t - x * t
  OBVIOUS
<1> QED
  BY <1>1, <1>2

LEMMA Quotient ==
    ASSUME NEW i \in Nat, NEW t \in Nat \ {0}, NEW q, q = i \div t
    PROVE  q \in Nat /\ q * t <= i /\ i < (q + 1) * t
  OBVIOUS

\* The IDs of a block.
LEMMA BlockSpan ==
    ASSUME NEW b \in Blocks, NEW i \in Nat
    PROVE  (i \in IDs /\ Block(i) = b) <=> b * tBlockSize <= i /\ i < (b + 1) * tBlockSize
<1>1. PICK t \in Nat \ {0}, c \in Nat \ {0} : t = tBlockSize /\ c = BlockCount
  BY OwnershipAssumption
<1>2. b \in Nat /\ b + 1 <= c /\ b \in Int /\ c \in Int /\ b + 1 \in Int /\ t \in Nat
  BY <1>1 DEF Blocks
<1>3. PICK q : q = i \div t
  OBVIOUS
<1>4. q \in Nat /\ q * t <= i /\ i < (q + 1) * t
  BY <1>1, <1>3, Quotient
<1>5. (b + 1) * t <= c * t
  BY <1>2, TimesMono
<1>6. ASSUME q = b PROVE b * t <= i /\ i < (b + 1) * t
  BY <1>4, <1>6
<1>7. ASSUME b * t <= i, i < (b + 1) * t PROVE q = b
  <2>1. CASE q < b
    <3>1. q + 1 <= b /\ q + 1 \in Int
      BY <1>2, <1>4, <2>1
    <3>2. (q + 1) * t <= b * t
      BY <1>2, <3>1, TimesMono
    <3>3. (q + 1) * t \in Int /\ b * t \in Int
      BY <1>2, <3>1
    <3> QED
      BY <1>4, <1>7, <3>2, <3>3
  <2>2. CASE b < q
    <3>1. b + 1 <= q /\ q \in Int
      BY <1>2, <1>4, <2>2
    <3>2. (b + 1) * t <= q * t
      BY <1>2, <3>1, TimesMono
    <3>3. (b + 1) * t \in Int /\ q * t \in Int
      BY <1>2, <3>1
    <3> QED
      BY <1>4, <1>7, <3>2, <3>3
  <2> QED
    BY <1>2, <1>4, <2>1, <2>2
<1>8. (b + 1) * t \in Int /\ c * t \in Int
  BY <1>2
<1>9. i < (b + 1) * t => i \in 0 .. c * t - 1
  BY <1>5, <1>8
<1> QED
  BY <1>1, <1>3, <1>6, <1>7, <1>9 DEF Block, IDs

LEMMA ActorsList ==
    ASSUME NEW a, a = SetToSeq(Actors)
    PROVE  /\ a \in Seq(Actors) /\ Len(a) \in Nat /\ Len(a) <= BlockCount * tBlockSize
           /\ IsInjective(a) /\ \A x \in Actors : \E k \in 1 .. Len(a) : a[k] = x
<1>1. IsFiniteSet(Actors)
  <2>1. IsFiniteSet(Entities) /\ Actors \in SUBSET Entities
    BY OwnershipAssumption DEF Entities, Owners
  <2> QED
    BY <2>1, FS_Subset
<1>2. PICK n \in Nat : n = Cardinality(Actors) /\ ExistsBijection(1 .. n, Actors)
  BY <1>1, FS_CardinalityType
<1>3. a \in [1 .. n -> Actors] /\ IsInjective(a)
  <2>1. \E f \in [1 .. n -> Actors] : IsInjective(f)
    BY <1>2 DEF ExistsBijection, Bijection, Injection
  <2> QED
    BY <1>2, <2>1 DEF SetToSeq
<1>4. a \in Surjection(1 .. n, Actors)
  <2>1. a \in Injection(1 .. n, Actors)
    BY <1>3 DEF Injection
  <2>2. IsFiniteSet(1 .. n) /\ Cardinality(1 .. n) = n
    <3>1. 1 \in Int /\ n \in Int
      OBVIOUS
    <3>2. IsFiniteSet(1 .. n) /\ Cardinality(1 .. n) = IF 1 > n THEN 0 ELSE n - 1 + 1
      BY <3>1, FS_Interval
    <3> QED
      BY <3>2
  <2> QED
    BY <1>1, <1>2, <2>1, <2>2, FS_Injection
<1>5. a \in Seq(Actors) /\ Len(a) = n
  BY <1>3
<1>6. n <= BlockCount * tBlockSize
  BY <1>2, OwnershipAssumption
<1> QED
  BY <1>3, <1>4, <1>5, <1>6 DEF Surjection

\* A stack of numbers, the least on top.
LEMMA CountDown ==
    ASSUME NEW u \in Nat, NEW f \in Nat, NEW s, s = [k \in 1 .. u - f |-> u - k]
    PROVE  /\ s \in Seq(Nat) /\ IsInjective(s)
           /\ \A i : i \in Range(s) <=> i \in Nat /\ f <= i /\ i < u
<1>1. PICK c \in Nat : 1 .. u - f = 1 .. c /\ (f <= u => c = u - f) /\ (u < f => c = 0)
  <2>1. CASE f <= u
    <3>1. u - f \in Nat
      BY <2>1
    <3> QED
      BY <2>1, <3>1
  <2>2. CASE u < f
    <3>1. 1 .. u - f = 1 .. 0
      BY <2>2
    <3> QED
      BY <2>2, <3>1
  <2> QED
    BY <2>1, <2>2
<1>2. \A k \in 1 .. c : u - k \in Nat
  BY <1>1
<1>3. s = [k \in 1 .. c |-> u - k]
  BY <1>1
<1>4. s \in [1 .. c -> Nat] /\ DOMAIN s = 1 .. c
  BY <1>2, <1>3
<1>5. s \in Seq(Nat) /\ IsInjective(s)
  <2>1. s \in Seq(Nat)
    BY <1>4
  <2>2. \A j, k \in 1 .. c : s[j] = s[k] => j = k
    BY <1>3
  <2> QED
    BY <1>4, <2>1, <2>2 DEF IsInjective
<1>6. ASSUME NEW i \in Range(s) PROVE i \in Nat /\ f <= i /\ i < u
  <2>1. PICK k \in 1 .. c : i = u - k
    BY <1>3, <1>4 DEF Range
  <2> QED
    BY <1>1, <1>2, <2>1
<1>7. ASSUME NEW i \in Nat, f <= i, i < u PROVE i \in Range(s)
  <2>1. u - i \in 1 .. c
    BY <1>1, <1>7
  <2>2. s[u - i] = i
    BY <1>3, <2>1
  <2> QED
    BY <1>4, <2>1, <2>2 DEF Range
<1> QED
  BY <1>5, <1>6, <1>7

\* The free IDs of a block, when the first n IDs are in use.
LEMMA FirstFree ==
    ASSUME NEW n \in Nat, NEW b \in Blocks,
           NEW f, f = IF b * tBlockSize < n THEN n ELSE b * tBlockSize,
           NEW s, s = [k \in 1 .. (b + 1) * tBlockSize - f |-> (b + 1) * tBlockSize - k]
    PROVE  /\ s \in Seq(IDs) /\ IsInjective(s)
           /\ \A i : i \in Range(s) <=> i \in IDs /\ Block(i) = b /\ n <= i
<1>1. PICK d \in Nat, u \in Nat : d = b * tBlockSize /\ u = (b + 1) * tBlockSize
  <2>1. b \in Nat /\ b + 1 \in Nat /\ tBlockSize \in Nat
    BY OwnershipAssumption DEF Blocks
  <2>2. b * tBlockSize \in Nat /\ (b + 1) * tBlockSize \in Nat
    BY <2>1
  <2> QED
    BY <2>2
<1>2. f \in Nat /\ f = IF d < n THEN n ELSE d
  BY <1>1
<1>3. s = [k \in 1 .. u - f |-> u - k]
  BY <1>1
<1>4. /\ s \in Seq(Nat) /\ IsInjective(s)
      /\ \A i : i \in Range(s) <=> i \in Nat /\ f <= i /\ i < u
  BY <1>2, <1>3, CountDown
<1>5. \A i \in Nat : f <= i <=> d <= i /\ n <= i
  BY <1>2
<1>6. \A i \in Nat : i \in IDs /\ Block(i) = b <=> d <= i /\ i < u
  BY <1>1, BlockSpan
<1>7. IDs \subseteq Nat
  BY OwnershipAssumption DEF IDs
<1>8. \A i : i \in Range(s) <=> i \in IDs /\ Block(i) = b /\ n <= i
  BY <1>4, <1>5, <1>6, <1>7
<1>9. s \in Seq(IDs)
  <2>1. s \in Seq(Nat) /\ \A x \in Range(s) : x \in IDs
    BY <1>4, <1>8
  <2> QED
    BY <2>1, SeqOver
<1> QED
  BY <1>4, <1>8, <1>9

\* Whom the first IDs name.
StartAt == LET a == SetToSeq(Actors) IN [id \in IDs |-> IF id < Len(a) THEN a[id + 1] ELSE NULL]
StartID == [e \in Entities |-> IF e \in Actors THEN CHOOSE id \in IDs : StartAt[id] = e ELSE NULL]

LEMMA FirstIDs ==
    ASSUME NEW n, n = Len(SetToSeq(Actors))
    PROVE  /\ n \in Nat /\ StartAt \in [IDs -> Entities \cup {NULL}]
           /\ StartID \in [Entities -> IDs \cup {NULL}]
           /\ \A id \in IDs : /\ id < n => StartAt[id] \in Actors /\ StartID[StartAt[id]] = id
                              /\ ~(id < n) => StartAt[id] = NULL
           /\ \A e \in Entities :
                 /\ e \in Actors => StartID[e] \in IDs /\ StartID[e] < n /\ StartAt[StartID[e]] = e
                 /\ e \notin Actors => StartID[e] = NULL
<1>0. PICK a : a = SetToSeq(Actors)
  OBVIOUS
<1>1. /\ a \in Seq(Actors) /\ n \in Nat /\ n <= BlockCount * tBlockSize
      /\ IsInjective(a) /\ \A x \in Actors : \E k \in 1 .. n : a[k] = x
  BY <1>0, ActorsList
<1>2. Actors \subseteq Entities /\ NULL \notin Entities /\ NULL \notin Actors
  BY NoClash DEF Entities, Owners
<1>3. PICK N \in Nat : N = BlockCount * tBlockSize
  BY OwnershipAssumption
<1>4. IDs = 0 .. N - 1 /\ n <= N
  BY <1>1, <1>3 DEF IDs
<1>5. \A id \in IDs : StartAt[id] = IF id < n THEN a[id + 1] ELSE NULL
  BY <1>0 DEF StartAt
<1>6. ASSUME NEW id \in IDs, id < n
      PROVE  id + 1 \in 1 .. n /\ StartAt[id] = a[id + 1] /\ StartAt[id] \in Actors
  <2>1. id + 1 \in 1 .. n
    BY <1>1, <1>4, <1>6
  <2>2. n = Len(a)
    BY <1>0
  <2> QED
    BY <1>1, <1>5, <1>6, <2>1, <2>2
<1>7. \A id \in IDs : ~(id < n) => StartAt[id] = NULL
  BY <1>5
<1>8. ASSUME NEW e \in Actors PROVE StartID[e] \in IDs /\ StartAt[StartID[e]] = e
  <2>1. PICK k \in 1 .. n : a[k] = e
    BY <1>1, <1>8
  <2>2. k - 1 \in IDs /\ k - 1 < n /\ (k - 1) + 1 = k
    BY <1>1, <1>4, <2>1
  <2>3. StartAt[k - 1] = e
    BY <1>5, <2>1, <2>2
  <2>4. \E id \in IDs : StartAt[id] = e
    BY <2>2, <2>3
  <2>5. StartID[e] = CHOOSE id \in IDs : StartAt[id] = e
    BY <1>2 DEF StartID
  <2> QED
    BY <2>4, <2>5
<1>9. \A e \in Actors : StartID[e] < n
  BY <1>2, <1>7, <1>8
<1>10. \A e \in Entities : e \notin Actors => StartID[e] = NULL
  BY DEF StartID
<1>11. ASSUME NEW id \in IDs, id < n PROVE StartID[StartAt[id]] = id
  <2>1. PICK x \in Actors : x = StartAt[id]
    BY <1>6, <1>11
  <2>2. PICK j \in IDs : j = StartID[x] /\ StartAt[j] = x /\ j < n
    BY <1>8, <1>9
  <2>3. a[j + 1] = a[id + 1] /\ j + 1 \in 1 .. n /\ id + 1 \in 1 .. n
    BY <1>6, <1>11, <2>1, <2>2
  <2>4. n = Len(a)
    BY <1>0
  <2>5. j + 1 = id + 1
    BY <1>1, <2>3, <2>4 DEF IsInjective
  <2>6. j = id
    BY <1>4, <2>5
  <2> QED
    BY <2>1, <2>2, <2>6
<1>12. StartAt \in [IDs -> Entities \cup {NULL}]
  <2>1. \A id \in IDs : StartAt[id] \in Entities \cup {NULL}
    BY <1>2, <1>6, <1>7
  <2> QED
    BY <2>1 DEF StartAt
<1>13. StartID \in [Entities -> IDs \cup {NULL}]
  <2>1. \A e \in Entities : StartID[e] \in IDs \cup {NULL}
    BY <1>8, <1>10
  <2> QED
    BY <2>1 DEF StartID
<1> QED
  BY <1>1, <1>6, <1>7, <1>8, <1>9, <1>10, <1>11, <1>12, <1>13

StartFree ==
    LET n == Len(SetToSeq(Actors))
        first(b) == IF b * tBlockSize < n THEN n ELSE b * tBlockSize
    IN  [b \in Blocks |-> [k \in 1 .. (b + 1) * tBlockSize - first(b) |-> (b + 1) * tBlockSize - k]]

LEMMA FirstStacks ==
    ASSUME NEW n \in Nat, n = Len(SetToSeq(Actors))
    PROVE  /\ StartFree \in [Blocks -> Seq(IDs)]
           /\ \A b \in Blocks : /\ IsInjective(StartFree[b])
                               /\ \A i : i \in Range(StartFree[b]) <=> i \in IDs /\ Block(i) = b /\ n <= i
<1>1. ASSUME NEW b \in Blocks
      PROVE  /\ StartFree[b] \in Seq(IDs) /\ IsInjective(StartFree[b])
             /\ \A i : i \in Range(StartFree[b]) <=> i \in IDs /\ Block(i) = b /\ n <= i
  <2>1. PICK f : f = IF b * tBlockSize < n THEN n ELSE b * tBlockSize
    OBVIOUS
  <2>2. PICK s : s = [k \in 1 .. (b + 1) * tBlockSize - f |-> (b + 1) * tBlockSize - k]
    OBVIOUS
  <2>3. /\ s \in Seq(IDs) /\ IsInjective(s)
        /\ \A i : i \in Range(s) <=> i \in IDs /\ Block(i) = b /\ n <= i
    BY <2>1, <2>2, FirstFree
  <2>4. s = StartFree[b]
    BY <2>1, <2>2 DEF StartFree
  <2> QED
    BY <2>3, <2>4
<1>2. StartFree \in [Blocks -> Seq(IDs)]
  BY <1>1 DEF StartFree
<1> QED
  BY <1>1, <1>2

LEMMA FunSeq ==
    ASSUME NEW X, NEW c \in Nat, NEW s \in [1 .. c -> X]
    PROVE  s \in Seq(X)
  OBVIOUS

LEMMA StartBlocks ==
    ASSUME NEW s, s = [k \in 1 .. BlockCount |-> k - 1]
    PROVE  s \in Seq(Blocks) /\ IsInjective(s) /\ Range(s) = Blocks
<1>1. PICK c \in Nat : c = BlockCount
  BY OwnershipAssumption
<1>2. \A k \in 1 .. c : k - 1 \in Blocks
  BY <1>1 DEF Blocks
<1>3. s \in [1 .. c -> Blocks] /\ DOMAIN s = 1 .. c /\ \A k \in 1 .. c : s[k] = k - 1
  BY <1>1, <1>2
<1>4. \A b \in Blocks : b + 1 \in 1 .. c /\ (b + 1) - 1 = b
  BY <1>1 DEF Blocks
<1>5. s \in Seq(Blocks)
  BY <1>3, FunSeq
<1>6. Range(s) = Blocks
  BY <1>3, <1>4 DEF Range
<1>7. IsInjective(s)
  BY <1>3 DEF IsInjective
<1> QED
  BY <1>5, <1>6, <1>7

LEMMA EmptyChildren ==
    /\ <<>> \in Seq(IDs) /\ <<>> \in Seq(Messages) /\ IsInjective(<<>>) /\ Range(<<>>) = {}
  BY DEF IsInjective, Range

Start == [entities |-> StartAt, ID |-> StartID, ID_Parent |-> [e \in Entities |-> NULL],
          children |-> [e \in Entities |-> <<>>], free |-> StartFree,
          blocks |-> [k \in 1 .. BlockCount |-> k - 1], freed |-> {},
          net |-> <<>>, failed |-> NULL]

\* The server of Init.
LEMMA StartOK ==
    ASSUME NEW S, S = Start
    PROVE  /\ ServerOK(S) /\ S.freed = {} /\ S.net = <<>> /\ S.failed = NULL
           /\ \A e \in Entities : /\ S.ID_Parent[e] = NULL
                                  /\ e \in Actors => On(S, e)
                                  /\ e \notin Actors => S.ID[e] = NULL /\ ~On(S, e)
<1>1. PICK n \in Nat : n = Len(SetToSeq(Actors))
  BY ActorsList
<1>2. /\ StartAt \in [IDs -> Entities \cup {NULL}]
      /\ StartID \in [Entities -> IDs \cup {NULL}]
      /\ \A id \in IDs : /\ id < n => StartAt[id] \in Actors /\ StartID[StartAt[id]] = id
                         /\ ~(id < n) => StartAt[id] = NULL
      /\ \A e \in Entities :
            /\ e \in Actors => StartID[e] \in IDs /\ StartID[e] < n /\ StartAt[StartID[e]] = e
            /\ e \notin Actors => StartID[e] = NULL
  BY <1>1, FirstIDs
<1>3. /\ StartFree \in [Blocks -> Seq(IDs)]
      /\ \A b \in Blocks : /\ IsInjective(StartFree[b])
                           /\ \A i : i \in Range(StartFree[b]) <=> i \in IDs /\ Block(i) = b /\ n <= i
  BY <1>1, FirstStacks
<1>4. PICK blocks \in Seq(Blocks) : /\ blocks = [k \in 1 .. BlockCount |-> k - 1]
                                    /\ IsInjective(blocks) /\ Range(blocks) = Blocks
  BY StartBlocks
<1>5. PICK at \in [IDs -> Entities \cup {NULL}], ID \in [Entities -> IDs \cup {NULL}],
           free \in [Blocks -> Seq(IDs)] : at = StartAt /\ ID = StartID /\ free = StartFree
  BY <1>2, <1>3
<1>6. PICK par \in [Entities -> IDs \cup {NULL}], kids \in [Entities -> Seq(IDs)] :
         /\ par = [e \in Entities |-> NULL] /\ kids = [e \in Entities |-> <<>>]
  BY EmptyChildren
<1>7. S = [entities |-> at, ID |-> ID, ID_Parent |-> par, children |-> kids, free |-> free,
           blocks |-> blocks, freed |-> {}, net |-> <<>>, failed |-> NULL]
  BY <1>4, <1>5, <1>6 DEF Start
<1>8. /\ S.entities = StartAt /\ S.ID = StartID /\ S.free = StartFree /\ S.blocks = blocks
      /\ S.freed = {} /\ S.net = <<>> /\ S.failed = NULL
      /\ \A e \in Entities : S.ID_Parent[e] = NULL /\ S.children[e] = <<>>
  BY <1>5, <1>6, <1>7
<1>9. S \in Servers
  <2>1. PICK freed \in SUBSET Blocks, net \in Seq(Messages), failed \in Requests \cup {NULL} :
           freed = {} /\ net = <<>> /\ failed = NULL
    BY EmptyChildren
  <2>2. S = [entities |-> at, ID |-> ID, ID_Parent |-> par, children |-> kids, free |-> free,
             blocks |-> blocks, freed |-> freed, net |-> net, failed |-> failed]
    BY <1>7, <2>1
  <2> QED
    BY <2>2 DEF Servers
<1>10. \A i : i \in FreeIDs(S) <=> i \in IDs /\ n <= i
  BY <1>3, <1>8, BlockOfID DEF FreeIDs
<1>11. StacksOK(S)
  BY <1>3, <1>4, <1>8 DEF StacksOK
<1>12. Actors \subseteq Entities /\ NULL \notin IDs
  BY NoClash DEF Entities, Owners
<1>13. NamesOK(S)
  <2>1. ASSUME NEW e \in Entities, NEW x \in Entities, S.ID[e] = S.ID[x], S.ID[e] # NULL PROVE e = x
    BY <1>2, <1>8, <2>1
  <2>2. IDs \subseteq Int /\ n \in Int
    BY OwnershipAssumption DEF IDs
  <2>3. ASSUME NEW id \in IDs PROVE (\E e \in Entities : S.ID[e] = id) <=> id \notin FreeIDs(S)
    <3>1. ASSUME NEW e \in Entities, S.ID[e] = id PROVE id \notin FreeIDs(S)
      <4>1. id < n
        BY <1>2, <1>8, <1>12, <3>1
      <4> QED
        BY <1>10, <2>2, <4>1
    <3>2. ASSUME id \notin FreeIDs(S) PROVE \E e \in Entities : S.ID[e] = id
      <4>1. id < n
        BY <1>10, <2>2, <3>2
      <4> QED
        BY <1>2, <1>8, <1>12, <4>1
    <3> QED
      BY <3>1, <3>2
  <2>4. ASSUME NEW id \in IDs, S.entities[id] # NULL PROVE S.ID[S.entities[id]] = id
    BY <1>2, <1>8, <2>4
  <2> QED
    BY <2>1, <2>3, <2>4 DEF NamesOK
<1>14. \A e \in Entities : /\ e \in Actors => On(S, e)
                           /\ e \notin Actors => S.ID[e] = NULL /\ ~On(S, e)
  BY <1>2, <1>8, <1>12 DEF On
<1>15. \A p, e \in Entities : ~Has(S, p, e)
  BY <1>8 DEF Has
<1>16. LinksOK(S) /\ Together(S)
  BY <1>8, <1>15, EmptyChildren DEF LinksOK, Together, Kids
<1> QED
  BY <1>8, <1>9, <1>11, <1>13, <1>14, <1>16 DEF ServerOK

\* The invariant holds at the beginning, when the client sees the whole tree.
LEMMA IInvInit ==
    ASSUME Init
    PROVE  IInv
<1>1. server = Start
  BY DEF Init, Start, StartAt, StartID, StartFree
<1>2. /\ object = [e \in Entities |-> IF e \in Actors THEN "spawned" ELSE "none"]
      /\ net_ID = StartID /\ map_NETID = StartAt
      /\ Parent = [e \in Entities |-> NULL]
      /\ events = <<>> /\ settling = {} /\ switched = {}
      /\ phase = "update" /\ crashed = NULL
  BY DEF Init, StartAt, StartID
<1>3. PICK S : S = server
  OBVIOUS
<1>4. /\ ServerOK(S) /\ S.freed = {} /\ S.net = <<>> /\ S.failed = NULL
      /\ \A e \in Entities : /\ S.ID_Parent[e] = NULL
                             /\ e \in Actors => On(S, e)
                             /\ e \notin Actors => S.ID[e] = NULL /\ ~On(S, e)
  BY <1>1, <1>3, StartOK
<1>5. S.entities = StartAt /\ S.ID = StartID
  BY <1>1, <1>3 DEF Start
<1>6. /\ S \in Servers /\ S.entities \in [IDs -> Entities \cup {NULL}]
      /\ S.ID \in [Entities -> IDs \cup {NULL}]
  BY <1>4, ServerTypes
<1>7. PICK G : G = Env
  OBVIOUS
<1>8. /\ G.events = <<>> /\ G.object = object /\ G.net_ID = S.ID /\ G.switched = {}
      /\ G.settling = {} /\ G.phase = "update" /\ G \in Envs
  <2>1. object \in [Entities -> {"none", "spawned", "dying"}]
    BY <1>2
  <2>2. PICK ev \in Seq(Messages), sw \in SUBSET Entities, se \in SUBSET Blocks :
           ev = <<>> /\ sw = {} /\ se = {}
    BY EmptyChildren
  <2>3. G = [events |-> ev, object |-> object, net_ID |-> S.ID, switched |-> sw,
             settling |-> se, phase |-> "update"]
    BY <1>2, <1>5, <1>7, <2>2 DEF Env
  <2> QED
    BY <1>6, <2>1, <2>2, <2>3 DEF Envs
<1>9. Log(S, G) = <<>>
  BY <1>4, <1>8 DEF Log
<1>10. PICK s \in Seq(Messages) : s = Log(S, G) /\ Len(s) = 0 /\ s = <<>>
  BY <1>9, EmptyChildren
<1>11. \A e \in Entities : ~About(S, G, e)
  BY <1>10 DEF About
<1>12. \A e \in Entities, i \in IDs : Leaves(S, G, e, i) => S.ID[e] = i
  BY <1>8, <1>10 DEF Leaves
<1>13. PICK W : W = TreeView(S)
  OBVIOUS
<1>14. \A e \in Entities : /\ e \in Actors => W.at[e] = NULL /\ W.id[e] = S.ID[e]
                           /\ e \notin Actors => W.at[e] = Absent /\ W.id[e] = NULL
  BY <1>4, <1>13 DEF TreeView
<1>15. TreeTyped(W)
  <2>1. W = [at |-> W.at, id |-> W.id] /\ W.at = [e \in Entities |-> W.at[e]] /\ W.id = [e \in Entities |-> W.id[e]]
    BY <1>13 DEF TreeView
  <2>2. \A e \in Entities : W.at[e] \in Owners \cup {NULL, Absent} /\ W.id[e] \in IDs \cup {NULL}
    BY <1>6, <1>14
  <2>3. W.at \in [Entities -> Owners \cup {NULL, Absent}] /\ W.id \in [Entities -> IDs \cup {NULL}]
    BY <2>1, <2>2
  <2>4. W \in Views
    BY <2>1, <2>3 DEF Views
  <2>5. \A e \in Entities : e \in Actors => S.ID[e] # NULL
    BY <1>4 DEF On
  <2>6. NULL \notin Owners /\ Absent \notin Owners /\ Absent # NULL
    BY NoClash DEF Entities
  <2> QED
    BY <1>14, <2>4, <2>5, <2>6 DEF TreeTyped
<1>16. Side(S, G, W)
  <2>1. Reaches(W, Log(S, G), TreeView(S))
    BY <1>9, <1>13, ReachesEmpty
  <2>2. Traces(S, G)
    BY <1>12 DEF Traces
  <2>3. OneTrace(S, G)
    BY <1>4, <1>12, NoClash DEF OneTrace, ServerOK, NamesOK
  <2>4. SpawnsFresh(S, G)
    BY <1>10 DEF SpawnsFresh
  <2>5. OffGone(S, G)
    BY <1>4 DEF OffGone
  <2>6. LateBlocks(S, G)
    BY <1>4, <1>8 DEF LateBlocks, Recent
  <2>7. PhaseOK(S, G)
    BY <1>8 DEF PhaseOK
  <2> QED
    BY <2>1, <2>2, <2>3, <2>4, <2>5, <2>6, <2>7 DEF Side
<1>17. ClientOK
  <2>1. Parent \in [Entities -> Owners \cup {NULL}] /\ map_NETID \in [IDs -> Entities \cup {NULL}]
    BY <1>2, <1>5, <1>6
  <2>2. ASSUME NEW e \in Entities, object[e] # "none" PROVE net_ID[e] # NULL /\ map_NETID[net_ID[e]] = e
    BY <1>2, <1>4, <1>5, <2>2 DEF On
  <2>3. ASSUME NEW id \in IDs, map_NETID[id] # NULL
        PROVE  object[map_NETID[id]] # "none" /\ net_ID[map_NETID[id]] = id
    <3>1. PICK e \in Entities : e = S.entities[id] /\ e = map_NETID[id] /\ e # NULL
      BY <1>2, <1>5, <1>6, <2>3
    <3>2. S.ID[e] = id
      BY <1>4, <3>1 DEF ServerOK, NamesOK
    <3>3. e \in Actors
      BY <1>4, <3>2, NoClash
    <3> QED
      BY <1>2, <1>5, <3>1, <3>2, <3>3
  <2> QED
    BY <1>2, <2>1, <2>2, <2>3 DEF ClientOK
<1>18. Shows(W)
  BY <1>2, <1>5, <1>14 DEF Shows
<1>19. Body(W)
  <2>1. Crossed(S, G)
    BY <1>4 DEF Crossed
  <2> QED
    BY <1>2, <1>3, <1>4, <1>7, <1>8, <1>15, <1>16, <1>17, <1>18, <2>1 DEF Body
<1> QED
  BY <1>19 DEF IInv

-----------------------------------------------------------------------------
(* The properties.                                                         *)

LEMMA PendingRange ==
    ASSUME NEW W, Body(W)
    PROVE  /\ Pending = Log(server, Env) /\ Pending \in Seq(Messages)
           /\ \A k \in 1 .. Len(Pending) : Pending[k] \in Range(Pending)
           /\ Range(Pending) \subseteq Messages
<1>1. Pending = Log(server, Env)
  BY EnvType DEF Pending, Log
<1>2. PICK a \in Seq(Messages), b \in Seq(Messages) : a = events /\ b = server.net
  BY EnvType, ServerTypes
<1>3. PICK s : s = a \o b
  OBVIOUS
<1>4. s \in Seq(Messages)
  BY <1>3
<1>5. s = Pending
  BY <1>2, <1>3 DEF Pending
<1> QED
  BY <1>1, <1>4, <1>5 DEF Range

\* The invariant implies what the runs check.
LEMMA IInvType ==
    ASSUME IInv
    PROVE  TypeOK
<1>1. PICK W : Body(W)
  BY DEF IInv
<1>2. PICK S : S = server
  OBVIOUS
<1>3. /\ S \in Servers /\ S.entities \in [IDs -> Entities \cup {NULL}]
      /\ S.ID \in [Entities -> IDs \cup {NULL}] /\ S.ID_Parent \in [Entities -> IDs \cup {NULL}]
      /\ S.children \in [Entities -> Seq(IDs)] /\ S.net \in Seq(Messages)
      /\ S.freed \subseteq Blocks /\ S.failed \in Requests \cup {NULL}
  BY <1>1, <1>2, ServerTypes DEF Body
<1>4. /\ settling \subseteq Blocks /\ switched \subseteq Entities /\ phase \in {"update", "events"}
      /\ object \in [Entities -> {"none", "spawned", "dying"}]
      /\ net_ID \in [Entities -> IDs \cup {NULL}]
      /\ Parent \in [Entities -> Owners \cup {NULL}] /\ map_NETID \in [IDs -> Entities \cup {NULL}]
      /\ crashed \in Messages \cup {NULL}
  BY <1>1, EnvType DEF Body, ClientOK
<1>5. StacksOK(S)
  BY <1>1, <1>2 DEF Body, ServerOK
<1>6. \A e \in Entities : Range(S.children[e]) \subseteq IDs
  <2>1. ASSUME NEW e \in Entities PROVE Range(S.children[e]) \subseteq IDs
    <3>1. PICK s \in Seq(IDs) : s = S.children[e]
      BY <1>3
    <3>2. Range(s) \subseteq IDs
      BY <3>1 DEF Range
    <3> QED
      BY <3>1, <3>2
  <2> QED
    BY <2>1
<1>7. \A b \in Blocks : Range(S.free[b]) \subseteq {id \in IDs : Block(id) = b}
  <2>1. ASSUME NEW b \in Blocks PROVE Range(S.free[b]) \subseteq {id \in IDs : Block(id) = b}
    <3>1. PICK s \in Seq(IDs) : s = S.free[b]
      BY <1>3 DEF Servers
    <3>2. Range(s) \subseteq IDs
      BY <3>1 DEF Range
    <3> QED
      BY <1>5, <3>1, <3>2 DEF StacksOK
  <2> QED
    BY <2>1
<1>8. IsInjective(S.blocks) /\ Range(S.blocks) = Blocks
  BY <1>5 DEF StacksOK
<1>9. Range(Pending) \subseteq Messages
  BY <1>1, PendingRange
<1> QED
  BY <1>2, <1>3, <1>4, <1>6, <1>7, <1>8, <1>9 DEF TypeOK

\* How often a list has what it may have once.
LEMMA PlacesOf ==
    ASSUME NEW X, NEW s \in Seq(X), IsInjective(s), NEW x
    PROVE  Cardinality({k \in DOMAIN s : s[k] = x}) = IF x \in Range(s) THEN 1 ELSE 0
<1> DEFINE P == {k \in DOMAIN s : s[k] = x}
<1>1. CASE x \in Range(s)
  <2>1. PICK k \in DOMAIN s : s[k] = x
    BY <1>1 DEF Range
  <2>2. P = {k}
    BY <2>1 DEF IsInjective
  <2> HIDE DEF P
  <2>3. Cardinality({k}) = 1
    BY FS_Singleton
  <2>4. Cardinality(P) = 1
    BY <2>2, <2>3
  <2> QED
    BY <1>1, <2>4 DEF P
<1>2. CASE x \notin Range(s)
  <2>1. P = {}
    BY <1>2 DEF Range
  <2> HIDE DEF P
  <2>2. Cardinality(P) = 0
    BY <2>1, FS_EmptySet
  <2> QED
    BY <1>2, <2>2 DEF P
<1> QED
  BY <1>1, <1>2

LEMMA NamedOnce ==
    ASSUME NEW S, ServerOK(S), NEW id \in IDs
    PROVE  Cardinality({e \in Entities : S.ID[e] = id}) = IF id \in FreeIDs(S) THEN 0 ELSE 1
<1> DEFINE N == {e \in Entities : S.ID[e] = id}
<1>1. CASE id \in FreeIDs(S)
  <2>1. N = {}
    BY <1>1 DEF ServerOK, NamesOK
  <2> HIDE DEF N
  <2>2. Cardinality(N) = 0
    BY <2>1, FS_EmptySet
  <2> QED
    BY <1>1, <2>2 DEF N
<1>2. CASE id \notin FreeIDs(S)
  <2>1. PICK e \in Entities : S.ID[e] = id
    BY <1>2 DEF ServerOK, NamesOK
  <2>2. N = {e}
    BY <2>1, NoClash DEF ServerOK, NamesOK
  <2> HIDE DEF N
  <2>3. Cardinality({e}) = 1
    BY FS_Singleton
  <2>4. Cardinality(N) = 1
    BY <2>2, <2>3
  <2> QED
    BY <1>2, <2>4 DEF N
<1> QED
  BY <1>1, <1>2

LEMMA IInvTree ==
    ASSUME IInv
    PROVE  ServerTree
<1>1. PICK S : S = server /\ ServerOK(S)
  BY DEF IInv, Body
<1>2. /\ S \in Servers /\ S.entities \in [IDs -> Entities \cup {NULL}]
      /\ S.ID \in [Entities -> IDs \cup {NULL}] /\ S.ID_Parent \in [Entities -> IDs \cup {NULL}]
      /\ S.children \in [Entities -> Seq(IDs)] /\ S.net \in Seq(Messages)
      /\ S.freed \subseteq Blocks /\ S.failed \in Requests \cup {NULL}
  BY <1>1, ServerTypes
<1>3. ASSUME NEW id \in IDs
      PROVE  Cardinality({e \in Entities : S.ID[e] = id})
               + Cardinality({k \in DOMAIN S.free[Block(id)] : S.free[Block(id)][k] = id}) = 1
  <2>1. PICK s \in Seq(IDs) : s = S.free[Block(id)] /\ IsInjective(s)
    BY <1>1, <1>2, BlockOfID DEF Servers, ServerOK, StacksOK
  <2>2. Cardinality({k \in DOMAIN s : s[k] = id}) = IF id \in Range(s) THEN 1 ELSE 0
    BY <2>1, PlacesOf
  <2>3. id \in FreeIDs(S) <=> id \in Range(s)
    BY <2>1 DEF FreeIDs
  <2>4. Cardinality({e \in Entities : S.ID[e] = id}) = IF id \in FreeIDs(S) THEN 0 ELSE 1
    BY <1>1, NamedOnce
  <2> QED
    BY <2>1, <2>2, <2>3, <2>4
<1>4. \A id \in IDs : S.entities[id] # NULL => S.ID[S.entities[id]] = id
  BY <1>1 DEF ServerOK, NamesOK
<1>5. ASSUME NEW p \in Entities
      PROVE  /\ IsInjective(S.children[p])
             /\ \A id \in IDs : Contains(S.children[p], id) <=>
                   \E e \in Entities : S.ID[e] = id /\ S.ID[p] # NULL /\ S.ID_Parent[e] = S.ID[p]
  <2>1. PICK s \in Seq(IDs) : s = S.children[p] /\ IsInjective(s)
    BY <1>1, <1>2 DEF ServerOK, LinksOK
  <2>2. \A id : Contains(s, id) <=> id \in Range(s)
    BY <2>1 DEF Contains, Range
  <2>3. \A id \in IDs : id \in Range(s) <=> \E e \in Entities : S.ID[e] = id /\ Has(S, p, e)
    BY <1>1, <2>1 DEF ServerOK, LinksOK, Kids
  <2> QED
    BY <2>1, <2>2, <2>3 DEF Has
<1>6. ASSUME NEW e \in Entities, S.ID_Parent[e] # NULL
      PROVE  \E p \in Owners : S.ID[p] = S.ID_Parent[e] /\ (On(S, p) <=> On(S, e))
  <2>1. PICK p \in Owners : S.ID[p] = S.ID_Parent[e]
    BY <1>1, <1>6 DEF ServerOK, LinksOK
  <2>2. Has(S, p, e) /\ p \in Entities
    BY <1>6, <2>1, NoClash DEF Has
  <2>3. On(S, p) <=> On(S, e)
    BY <1>1, <2>2 DEF ServerOK, Together
  <2> QED
    BY <2>1, <2>3
<1>7. \A e \in Entities : Online(e) <=> On(S, e)
  BY <1>1 DEF Online, On
<1>8. \A e \in Entities : S.ID_Parent[e] # NULL =>
          \E p \in Owners : S.ID[p] = S.ID_Parent[e] /\ (Online(p) <=> Online(e))
  BY <1>6, <1>7, NoClash
<1> QED
  BY <1>1, <1>3, <1>4, <1>5, <1>8 DEF ServerTree

LEMMA IInvReachable ==
    ASSUME IInv
    PROVE  Reachable
  BY DEF IInv, Body, ClientOK, Reachable

LEMMA IInvOffline ==
    ASSUME IInv
    PROVE  OfflineIsGone
<1>1. PICK W : Body(W)
  BY DEF IInv
<1>2. OffGone(server, Env) /\ Env.phase = phase /\ Env.object = object /\ Env.switched = switched
  BY <1>1, EnvType DEF Side
<1>3. ASSUME phase = "update", NEW e \in Entities \ switched, Offline(e), server.ID_Parent[e] = NULL
      PROVE  object[e] = "none"
  <2>1. server.ID[e] # NULL /\ ~On(server, e) /\ Switcher(server, e, e)
    BY <1>3 DEF Offline, Online, On, Switcher
  <2> QED
    BY <1>2, <1>3, <2>1 DEF OffGone
<1> QED
  BY <1>3 DEF OfflineIsGone

LEMMA IInvFault ==
    ASSUME IInv
    PROVE  OnlyCrossedFault
<1>1. PICK W : Body(W)
  BY DEF IInv
<1>2. ASSUME server.failed # NULL
      PROVE  \E m \in Range(Pending) : m.id \in {server.failed.id, server.failed.parent}
  <2>1. /\ Pending = Log(server, Env) /\ Pending \in Seq(Messages)
        /\ \A k \in 1 .. Len(Pending) : Pending[k] \in Range(Pending)
        /\ Range(Pending) \subseteq Messages
    BY <1>1, PendingRange
  <2>2. Crossed(server, Env)
    BY <1>1 DEF Body
  <2>3. PICK k \in 1 .. Len(Pending) : Pending[k].id \in {server.failed.id, server.failed.parent}
    BY <1>2, <2>1, <2>2 DEF Crossed
  <2> QED
    BY <2>1, <2>3
<1>3. crashed # NULL => crashed.type = "REJECT" /\ <<crashed.p, crashed.e>> \in Refuses
  BY <1>1 DEF Body
<1> QED
  BY <1>2, <1>3 DEF OnlyCrossedFault

-----------------------------------------------------------------------------
\* IInv holds in every state: each message on its way to the client is one step of a walk
\* from the tree that the client sees to the tree of the server.
THEOREM Invariance == Spec => []IInv
<1>1. Init => IInv
  BY IInvInit
<1>2. IInv /\ [Next]_vars => IInv'
  BY IInvStep
<1> QED
  BY <1>1, <1>2, PTL DEF Spec

\* TypeOK: every variable keeps its type, for any entities and any number of IDs.
THEOREM TypeCorrect == Spec => []TypeOK
<1>1. IInv => TypeOK
  BY IInvType
<1> QED
  BY <1>1, Invariance, PTL

\* ServerTree: an ID is free or names one entity, and the two ends of every link of
\* xrServer's tree agree, through requests, destructions and switches of the simulator.
THEOREM TreeCorrect == Spec => []ServerTree
<1>1. IInv => ServerTree
  BY IInvTree
<1> QED
  BY <1>1, Invariance, PTL

\* Reachable: map_NETID finds each of the client's objects by its ID, because no ID is given
\* away while an object of that ID may still be there.
THEOREM ClientFinds == Spec => []Reachable
<1>1. IInv => Reachable
  BY IInvReachable
<1> QED
  BY <1>1, Invariance, PTL

\* OfflineIsGone: what try_switch_online asserts; when the simulator looks at an offline
\* object, what the client had of it is gone.
THEOREM OfflineForgotten == Spec => []OfflineIsGone
<1>1. IInv => OfflineIsGone
  BY IInvOffline
<1> QED
  BY <1>1, Invariance, PTL

\* OnlyCrossedFault: the server's assertions stop only a request that crosses a message under
\* way about the same item or owner, and the client stumbles only over a REJECT of what its
\* owner has refused.
THEOREM FaultsCross == Spec => []OnlyCrossedFault
<1>1. IInv => OnlyCrossedFault
  BY IInvFault
<1> QED
  BY <1>1, Invariance, PTL

-----------------------------------------------------------------------------
(* Refinement of MirrorSpec: each view is a state of its mirror.           *)

\* Whatever may be sent is legal in the eyes of MirrorSpec, and does what it says.
LEMMA AllowedLegal ==
    ASSUME NEW W, TreeTyped(W), NEW m \in Messages, Allowed(W, m)
    PROVE  Mirror!Legal(W.at, ChangeOf(m)) /\ After(W, m).at = Mirror!Apply(W.at, ChangeOf(m))
<1>1. /\ m.type \in {"SPAWN", "TAKE", "REJECT", "DESTROY"} /\ m.e \in Entities
      /\ m.p \in Owners \cup {NULL} /\ W \in Views
  BY DEF Messages, TreeTyped
<1>2. PICK c : c = ChangeOf(m)
  OBVIOUS
<1>3. /\ c.e = m.e
      /\ m.type \in {"SPAWN", "TAKE"} => c.to = m.p
      /\ m.type = "REJECT" => c.to = NULL
      /\ m.type = "DESTROY" => c.to = Absent
  BY <1>1, <1>2, AfterPlaces DEF ChangeOf
<1>4. After(W, m).at = Mirror!Apply(W.at, c)
  BY <1>2, <1>3 DEF After, Mirror!Apply
<1>5. W.at[c.e] # c.to
  BY <1>1, <1>3, NoClash DEF Allowed
<1>6. c.to \in Owners => /\ c.to # c.e /\ W.at[c.to] # Absent
                         /\ W.at[c.e] \in {Absent, NULL}
  BY <1>1, <1>3, NoClash DEF Allowed
<1>7. c.to = Absent => W.at[c.e] = NULL /\ \A x \in Entities : W.at[x] # c.e
  BY <1>1, <1>3, NoClash DEF Allowed
<1>8. Mirror!Legal(W.at, c)
  BY <1>5, <1>6, <1>7 DEF Mirror!Legal
<1> QED
  BY <1>2, <1>4, <1>8

\* A path is determined by where it starts and by its messages.
LEMMA PathPrefix ==
    ASSUME NEW W, NEW V, NEW X, NEW s \in Seq(Messages), NEW u \in Seq(Messages),
           Len(s) <= Len(u), \A k \in 1 .. Len(s) : u[k] = s[k],
           Reaches(W, s, V), Reaches(W, u, X)
    PROVE  \E t : Path(t, W, u) /\ t[Len(s)] = V /\ t[Len(u)] = X
<1>1. PICK r : Path(r, W, s) /\ r[Len(s)] = V
  BY DEF Reaches
<1>2. PICK t : Path(t, W, u) /\ t[Len(u)] = X
  BY DEF Reaches
<1>3. PICK n \in Nat : n = Len(s)
  OBVIOUS
<1>4. r[0] = W /\ \A k \in 1 .. n : r[k] = After(r[k - 1], s[k])
  BY <1>1, <1>3 DEF Path
<1>5. t[0] = W /\ \A k \in 1 .. n : k \in 1 .. Len(u) /\ t[k] = After(t[k - 1], s[k])
  <2>1. Len(u) \in Nat
    OBVIOUS
  <2>2. \A k \in 1 .. n : k \in 1 .. Len(u)
    BY <1>3, <2>1
  <2> QED
    BY <1>2, <1>3, <2>2 DEF Path
<1> DEFINE K == {k \in Nat : k <= n => t[k] = r[k]}
<1>6. 0 \in K
  BY <1>4, <1>5
<1>7. ASSUME NEW k \in Nat, k \in K PROVE k + 1 \in K
  <2>1. CASE k + 1 <= n
    <3>1. t[k] = r[k] /\ k + 1 \in 1 .. n /\ (k + 1) - 1 = k
      BY <1>7, <2>1
    <3>2. t[k + 1] = After(t[k], s[k + 1]) /\ r[k + 1] = After(r[k], s[k + 1])
      BY <1>4, <1>5, <3>1
    <3>3. t[k + 1] = r[k + 1]
      BY <3>1, <3>2
    <3> QED
      BY <3>3
  <2>2. CASE ~(k + 1 <= n)
    BY <2>2
  <2> QED
    BY <2>1, <2>2
<1>8. Nat \subseteq K
  <2> HIDE DEF K
  <2> QED
    BY <1>6, <1>7, NaturalInduction
<1>9. n \in K
  BY <1>8
<1>10. t[n] = V
  BY <1>1, <1>3, <1>9
<1> QED
  BY <1>2, <1>3, <1>10

\* The places of the client's view.
LEMMA ClientSees ==
    ASSUME NEW W, Body(W)
    PROVE  \A e \in Entities : ClientPlace(e) = W.at[e]
<1>1. /\ Pending = Log(server, Env) /\ Pending \in Seq(Messages)
      /\ \A k \in 1 .. Len(Pending) : Pending[k] \in Range(Pending)
      /\ Range(Pending) \subseteq Messages
  BY PendingRange
<1>2. PICK s \in Seq(Messages) : s = Pending
  BY <1>1
<1>3. PICK V : V = TreeView(server)
  OBVIOUS
<1>4. TreeTyped(W) /\ W \in Views /\ Reaches(W, s, V)
  BY <1>1, <1>2, <1>3 DEF Body, Side, TreeTyped
<1>5. PICK t : Path(t, W, s)
  BY <1>4 DEF Reaches
<1>6. ASSUME NEW e \in Entities, object[e] = "spawned" PROVE ClientPlace(e) = W.at[e]
  <2> DEFINE I == {j \in 1 .. Len(s) : s[j].e = e}
             k == SelectInSeq(s, LAMBDA m : m.e = e)
  <2>1. /\ W.at[e] = Parent[e]
           \/ (Parent[e] = NULL /\ <<W.at[e], e>> \in Refuses /\ About(server, Env, e))
        /\ Parent[e] \in Owners \cup {NULL}
    BY <1>6 DEF Body, Shows, ClientOK
  <2>2. W.at[e] \in Owners \cup {NULL} /\ W.at[e] # Absent
    BY <2>1, OwnershipAssumption, NoClash
  <2>3. CASE \E j \in 1 .. Len(s) : s[j].e = e
    <3>1. PICK n \in 1 .. Len(s) :
             /\ s[n].e = e /\ \A j \in 1 .. n - 1 : s[j].e # e
             /\ Allowed(t[n - 1], s[n])
             /\ t[n - 1].at[e] = W.at[e] /\ t[n - 1].id[e] = W.id[e]
      BY <1>4, <1>5, <2>3, FirstAbout
    <3>2. k = n
      <4>1. Len(s) \in Nat /\ I \in SUBSET (1 .. Len(s)) /\ I # {} /\ n \in I
        BY <3>1
      <4>2. PICK i : i = Min(I)
        OBVIOUS
      <4>3. k = i
        BY <2>3, <4>2 DEF SelectInSeq
      <4>4. i \in I /\ \A j \in I : i <= j
        BY <4>1, <4>2, LeastOf
      <4>5. i \in 1 .. Len(s) /\ s[i].e = e /\ i <= n
        BY <4>1, <4>4
      <4>6. ~(i \in 1 .. n - 1)
        BY <3>1, <4>5
      <4> HIDE DEF k, I
      <4>7. i = n
        BY <4>1, <4>5, <4>6
      <4> QED
        BY <4>3, <4>7
    <3>3. k # 0 /\ s[k] = s[n]
      BY <3>1, <3>2
    <3>4. s[n] \in Messages
      BY <3>1
    <3>5. s[n].type = "REJECT" => s[n].p = W.at[e] /\ s[n].p # NULL
      BY <3>1 DEF Allowed
    <3>6. s[n].type # "REJECT" => W.at[e] = NULL
      <4>1. s[n].type \in {"SPAWN", "TAKE", "REJECT", "DESTROY"}
        BY <3>4 DEF Messages
      <4> QED
        BY <2>2, <3>1, <4>1 DEF Allowed
    <3>7. ClientPlace(e) = IF k # 0 /\ Parent[e] = NULL /\ s[k].type = "REJECT" /\ <<s[k].p, e>> \in Refuses
                           THEN s[k].p ELSE Parent[e]
      BY <1>2, <1>6 DEF ClientPlace
    <3> HIDE DEF k
    <3>8. ClientPlace(e) = IF Parent[e] = NULL /\ s[n].type = "REJECT" /\ <<s[n].p, e>> \in Refuses
                           THEN s[n].p ELSE Parent[e]
      BY <3>3, <3>7
    <3>9. NULL \notin Owners
      BY NoClash
    <3>10. \A o : <<o, e>> \in Refuses => o \in Owners
      BY OwnershipAssumption
    <3> QED
      BY <2>1, <3>5, <3>6, <3>8, <3>9, <3>10
  <2>4. CASE ~\E j \in 1 .. Len(s) : s[j].e = e
    <3>1. k = 0
      BY <2>4 DEF SelectInSeq
    <3>2. ~About(server, Env, e)
      BY <1>1, <1>2, <2>4 DEF About
    <3>3. ClientPlace(e) = IF k # 0 /\ Parent[e] = NULL /\ s[k].type = "REJECT" /\ <<s[k].p, e>> \in Refuses
                           THEN s[k].p ELSE Parent[e]
      BY <1>2, <1>6 DEF ClientPlace
    <3> HIDE DEF k
    <3> QED
      BY <2>1, <3>1, <3>2, <3>3
  <2> QED
    BY <2>3, <2>4
<1>7. ASSUME NEW e \in Entities, object[e] # "spawned" PROVE ClientPlace(e) = W.at[e]
  BY <1>7 DEF ClientPlace, Body, Shows
<1> QED
  BY <1>6, <1>7

\* The places of the server's tree.
LEMMA ServerSees ==
    \A e \in Entities : ServerPlace(e) = TreeView(server).at[e]
  BY DEF ServerPlace, TreeView, Online, On

\* The places that the messages give the entities.
Changes(s) == [k \in DOMAIN s |-> ChangeOf(s[k])]
ChangesOf == {ChangeOf(m) : m \in Messages}

LEMMA ChangesPlaces ==
    ASSUME NEW s \in Seq(Messages)
    PROVE  /\ Changes(s) \in Seq(ChangesOf) /\ Len(Changes(s)) = Len(s) /\ Len(s) \in Nat
           /\ \A k \in 1 .. Len(s) : Changes(s)[k] = ChangeOf(s[k])
<1>1. DOMAIN s = 1 .. Len(s) /\ Len(s) \in Nat /\ \A k \in 1 .. Len(s) : s[k] \in Messages
  OBVIOUS
<1>2. \A k \in 1 .. Len(s) : ChangeOf(s[k]) \in ChangesOf
  BY <1>1 DEF ChangesOf
<1>3. DOMAIN Changes(s) = 1 .. Len(s) /\ \A k \in 1 .. Len(s) : Changes(s)[k] = ChangeOf(s[k])
  BY <1>1 DEF Changes
<1>4. Changes(s) \in [1 .. Len(s) -> ChangesOf]
  BY <1>1, <1>2 DEF Changes
<1> HIDE DEF Changes
<1>5. Changes(s) \in Seq(ChangesOf)
  BY <1>1, <1>4
<1>6. Len(Changes(s)) = Len(s)
  BY <1>1, <1>3, <1>5
<1> QED
  BY <1>1, <1>3, <1>5, <1>6

\* The changes along a path, applied one after the other, give the views' places.
LEMMA AppliedWalk ==
    ASSUME NEW X, NEW s \in Seq(X), NEW t, NEW N \in Nat,
           \A k \in 1 .. Len(s) : t[N + k].at = Mirror!Apply(t[N + k - 1].at, s[k])
    PROVE  AppliedAll(t[N].at, s) = t[N + Len(s)].at
<1>1. PICK n \in Nat : n = Len(s)
  OBVIOUS
<1>2. PICK u : Goes(u, "Apply", NULL, t[N].at, s, Len(s)) /\ u[Len(s)] = AppliedAll(t[N].at, s)
  BY FoldApply
<1>3. u[0] = t[N].at /\ \A k \in 1 .. n : u[k] = Mirror!Apply(u[k - 1], s[k])
  BY <1>1, <1>2 DEF Goes, Folded
<1> DEFINE K == {k \in Nat : k <= n => u[k] = t[N + k].at}
<1>4. 0 \in K
  <2>1. N + 0 = N
    OBVIOUS
  <2> QED
    BY <1>3, <2>1
<1>5. ASSUME NEW k \in Nat, k \in K PROVE k + 1 \in K
  <2>1. CASE k + 1 <= n
    <3>1. /\ u[k] = t[N + k].at /\ k + 1 \in 1 .. n /\ (k + 1) - 1 = k
          /\ N + (k + 1) - 1 = N + k
      BY <1>5, <2>1
    <3>2. u[k + 1] = Mirror!Apply(u[k], s[k + 1])
      BY <1>3, <3>1
    <3>3. t[N + (k + 1)].at = Mirror!Apply(t[N + (k + 1) - 1].at, s[k + 1])
      BY <1>1, <3>1
    <3>4. u[k + 1] = t[N + (k + 1)].at
      BY <3>1, <3>2, <3>3
    <3> QED
      BY <3>4
  <2>2. CASE ~(k + 1 <= n)
    BY <2>2
  <2> QED
    BY <2>1, <2>2
<1>6. Nat \subseteq K
  <2> HIDE DEF K
  <2> QED
    BY <1>4, <1>5, NaturalInduction
<1>7. u[n] = t[N + n].at
  BY <1>6
<1> QED
  BY <1>1, <1>2, <1>7

LEMMA FrontPart ==
    ASSUME NEW X, NEW s \in Seq(X), NEW k \in 0 .. Len(s)
    PROVE  /\ SubSeq(s, 1, k) \in Seq(X) /\ Len(SubSeq(s, 1, k)) = k
           /\ \A i \in 1 .. k : SubSeq(s, 1, k)[i] = s[i] /\ s[i] \in X
<1>1. \A i \in 1 .. k : s[i] \in X
  OBVIOUS
<1>2. k \in Nat /\ 1 \in Int /\ k \in Int /\ k - 1 + 1 = k
  OBVIOUS
<1>3. /\ SubSeq(s, 1, k) \in Seq(X) /\ Len(SubSeq(s, 1, k)) = IF 1 <= k THEN k - 1 + 1 ELSE 0
      /\ \A i \in 1 .. k - 1 + 1 : SubSeq(s, 1, k)[i] = s[1 + i - 1]
  BY <1>1, <1>2, SubSeqProperties
<1>4. (IF 1 <= k THEN k - 1 + 1 ELSE 0) = k /\ \A i \in 1 .. k : 1 + i - 1 = i
  BY <1>2
<1> QED
  BY <1>1, <1>2, <1>3, <1>4

LEMMA BackPart ==
    ASSUME NEW X, NEW s \in Seq(X), NEW k \in 0 .. Len(s)
    PROVE  /\ SubSeq(s, k + 1, Len(s)) \in Seq(X)
           /\ Len(SubSeq(s, k + 1, Len(s))) = Len(s) - k
           /\ \A i \in 1 .. Len(s) - k :
                 SubSeq(s, k + 1, Len(s))[i] = s[k + i] /\ s[k + i] \in X
<1>1. \A i \in k + 1 .. Len(s) : s[i] \in X
  OBVIOUS
<1>2. PICK n \in Nat : n = Len(s)
  OBVIOUS
<1>3. k \in Nat /\ k <= n /\ k + 1 \in Int /\ n \in Int
  BY <1>2
<1>4. /\ SubSeq(s, k + 1, n) \in Seq(X)
      /\ Len(SubSeq(s, k + 1, n)) = IF k + 1 <= n THEN n - (k + 1) + 1 ELSE 0
      /\ \A i \in 1 .. n - (k + 1) + 1 : SubSeq(s, k + 1, n)[i] = s[k + 1 + i - 1]
  BY <1>1, <1>2, <1>3, SubSeqProperties
<1>5. /\ n - (k + 1) + 1 = n - k /\ (IF k + 1 <= n THEN n - (k + 1) + 1 ELSE 0) = n - k
      /\ \A i \in 1 .. n - k : k + 1 + i - 1 = k + i /\ k + i \in 1 .. n
  BY <1>3
<1>6. \A i \in 1 .. n - k : s[k + i] \in X
  BY <1>2, <1>5
<1> QED
  BY <1>2, <1>4, <1>5, <1>6

\* Change of MirrorSpec, from log A and tree w to log B and tree x.
Changed(A, B, w, x) ==
    /\ IsPrefix(A, B)
    /\ LET made == SubSeq(B, Len(A) + 1, Len(B))
       IN  /\ \A k \in DOMAIN made : Mirror!Legal(AppliedAll(w, SubSeq(made, 1, k - 1)), made[k])
           /\ x = AppliedAll(w, SubSeq(made, 1, Len(made)))

\* More messages along the path of the views are changes in the sense of MirrorSpec.
LEMMA MadeLegal ==
    ASSUME NEW W, TreeTyped(W), NEW A \in Seq(Messages), NEW B \in Seq(Messages),
           Len(A) <= Len(B), \A k \in 1 .. Len(A) : B[k] = A[k], NEW t, Path(t, W, B)
    PROVE  Changed(Changes(A), Changes(B), t[Len(A)].at, t[Len(B)].at)
<1>0. PICK made : made = SubSeq(Changes(B), Len(A) + 1, Len(B))
  OBVIOUS
<1>1. PICK N \in Nat : N = Len(A)
  OBVIOUS
<1>2. PICK M \in Nat : M = Len(B)
  OBVIOUS
<1>3. PICK n \in Nat : n = M - N /\ N <= M
  <2>1. N <= M
    BY <1>1, <1>2
  <2>2. M - N \in Nat
    BY <2>1
  <2> QED
    BY <2>1, <2>2
<1>4. PICK C \in Seq(ChangesOf) : C = Changes(A)
  BY ChangesPlaces
<1>5. PICK D \in Seq(ChangesOf) : D = Changes(B)
  BY ChangesPlaces
<1>6. /\ Len(C) = N /\ \A k \in 1 .. N : C[k] = ChangeOf(A[k])
      /\ Len(D) = M /\ \A k \in 1 .. M : D[k] = ChangeOf(B[k])
  BY <1>1, <1>2, <1>4, <1>5, ChangesPlaces
<1>7. /\ made \in Seq(ChangesOf) /\ Len(made) = n
      /\ \A i \in 1 .. n : /\ made[i] = D[N + i] /\ N + i \in 1 .. M /\ N + i - 1 \in 0 .. M
                          /\ made[i] \in ChangesOf
  <2>1. N \in 0 .. Len(D)
    BY <1>3, <1>6
  <2>2. /\ SubSeq(D, N + 1, M) \in Seq(ChangesOf) /\ Len(SubSeq(D, N + 1, M)) = M - N
        /\ \A i \in 1 .. M - N : SubSeq(D, N + 1, M)[i] = D[N + i] /\ D[N + i] \in ChangesOf
    BY <1>6, <2>1, BackPart
  <2>3. made = SubSeq(D, N + 1, M)
    BY <1>0, <1>1, <1>2, <1>5
  <2>4. \A i \in 1 .. n : N + i \in 1 .. M /\ N + i - 1 \in 0 .. M
    BY <1>3
  <2> QED
    BY <1>3, <2>2, <2>3, <2>4
<1>8. IsPrefix(C, D)
  <2>1. \A i \in 1 .. N : C[i] = D[i] /\ C[i] \in ChangesOf
    <3>1. \A i \in 1 .. N : i \in 1 .. M /\ B[i] = A[i]
      BY <1>1, <1>3
    <3>2. \A i \in 1 .. N : C[i] \in ChangesOf
      BY <1>6
    <3> QED
      BY <1>6, <3>1, <3>2
  <2>2. /\ SubSeq(C, 1, N) \in Seq(ChangesOf) /\ SubSeq(D, 1, N) \in Seq(ChangesOf)
        /\ Len(SubSeq(C, 1, N)) = N /\ Len(SubSeq(D, 1, N)) = N
        /\ \A i \in 1 .. N : SubSeq(C, 1, N)[i] = SubSeq(D, 1, N)[i]
    <3>1. N \in 0 .. Len(C) /\ N \in 0 .. Len(D)
      BY <1>3, <1>6
    <3> QED
      BY <2>1, <3>1, FrontPart
  <2>3. SubSeq(C, 1, N) = SubSeq(D, 1, N)
    BY <2>2, SeqEqual
  <2> QED
    BY <1>3, <1>6, <2>3 DEF IsPrefix
<1>9. /\ \A k \in 1 .. M : Allowed(t[k - 1], B[k]) /\ t[k] = After(t[k - 1], B[k])
      /\ \A k \in 0 .. M : TreeTyped(t[k])
  BY <1>2, PathTyped DEF Path
<1>10. ASSUME NEW i \in 1 .. n
       PROVE  /\ Mirror!Legal(t[N + i - 1].at, made[i])
              /\ t[N + i].at = Mirror!Apply(t[N + i - 1].at, made[i])
  <2>1. PICK k \in 1 .. M : k = N + i
    BY <1>7
  <2>2. k - 1 = N + i - 1 /\ k - 1 \in 0 .. M
    BY <1>7, <2>1
  <2>3. PICK m \in Messages : m = B[k]
    BY <1>2
  <2>4. PICK V : V = t[k - 1]
    OBVIOUS
  <2>5. TreeTyped(V) /\ Allowed(V, m) /\ t[k] = After(V, m)
    BY <1>9, <2>2, <2>3, <2>4
  <2>6. Mirror!Legal(V.at, ChangeOf(m)) /\ After(V, m).at = Mirror!Apply(V.at, ChangeOf(m))
    BY <2>5, AllowedLegal
  <2>7. made[i] = ChangeOf(m)
    BY <1>6, <1>7, <2>1, <2>3
  <2> QED
    BY <2>1, <2>2, <2>4, <2>5, <2>6, <2>7
<1>11. ASSUME NEW k \in 0 .. n
       PROVE  AppliedAll(t[N].at, SubSeq(made, 1, k)) = t[N + k].at
  <2>1. PICK s : s = SubSeq(made, 1, k)
    OBVIOUS
  <2>2. /\ s \in Seq(ChangesOf) /\ Len(s) = k
        /\ \A i \in 1 .. k : s[i] = made[i] /\ i \in 1 .. n
    <3>1. \A i \in 1 .. k : i \in 1 .. n
      OBVIOUS
    <3>2. k \in 0 .. Len(made) /\ made \in Seq(ChangesOf)
      BY <1>7
    <3>3. /\ SubSeq(made, 1, k) \in Seq(ChangesOf) /\ Len(SubSeq(made, 1, k)) = k
          /\ \A i \in 1 .. k : SubSeq(made, 1, k)[i] = made[i]
      BY <3>2, FrontPart
    <3> QED
      BY <2>1, <3>1, <3>3
  <2>3. \A i \in 1 .. Len(s) : t[N + i].at = Mirror!Apply(t[N + i - 1].at, s[i])
    BY <1>10, <2>2
  <2>4. AppliedAll(t[N].at, s) = t[N + Len(s)].at
    BY <2>2, <2>3, AppliedWalk
  <2> QED
    BY <2>1, <2>2, <2>4
<1>12. \A k \in 1 .. n : Mirror!Legal(AppliedAll(t[N].at, SubSeq(made, 1, k - 1)), made[k])
  <2>1. ASSUME NEW k \in 1 .. n
        PROVE  Mirror!Legal(AppliedAll(t[N].at, SubSeq(made, 1, k - 1)), made[k])
    <3>1. k - 1 \in 0 .. n /\ N + (k - 1) = N + k - 1
      OBVIOUS
    <3>2. AppliedAll(t[N].at, SubSeq(made, 1, k - 1)) = t[N + k - 1].at
      BY <1>11, <3>1
    <3> QED
      BY SMTT(30), <1>10, <3>2
  <2> QED
    BY <2>1
<1>13. AppliedAll(t[N].at, SubSeq(made, 1, n)) = t[M].at
  <2>1. n \in 0 .. n /\ N + n = M
    BY <1>3
  <2> QED
    BY <1>11, <2>1
<1>14. DOMAIN made = 1 .. n
  BY <1>7
<1>15. made = SubSeq(D, Len(C) + 1, Len(D))
  BY <1>0, <1>1, <1>2, <1>5, <1>6
<1>16. Changed(C, D, t[N].at, t[M].at)
  BY <1>7, <1>8, <1>12, <1>13, <1>14, <1>15 DEF Changed
<1> QED
  BY <1>1, <1>2, <1>4, <1>5, <1>16

\* What MirrorSpec sees.
World  == [e \in Entities |-> ServerPlace(e)]
Glass  == [e \in Entities |-> ClientPlace(e)]

\* They are the views at the two ends of the log.
LEMMA ViewsShown == \A W : Body(W) => World = TreeView(server).at /\ Glass = W.at
<1> SUFFICES ASSUME NEW W, Body(W) PROVE World = TreeView(server).at /\ Glass = W.at
  OBVIOUS
<1>1. World = TreeView(server).at
  BY DEF World, ServerPlace, TreeView, Online, On
<1>2. W.at \in [Entities -> Owners \cup {NULL, Absent}]
  BY DEF Body, TreeTyped, Views
<1>3. Glass = [e \in Entities |-> W.at[e]]
  BY ClientSees DEF Glass
<1> QED
  BY <1>1, <1>2, <1>3

LEMMA ViewsShownNext == \A W : Body(W)' => World' = TreeView(server').at /\ Glass' = W.at
<1> DEFINE F == \A W : Body(W) => World = TreeView(server).at /\ Glass = W.at
<1>1. F
  BY ViewsShown
<1>2. F'
  <2> HIDE DEF F
  <2> QED
    BY <1>1, PTL
<1> QED
  BY <1>2

\* With the names of Ownership: what the step of MirrorSpec says.
LEMMA ChangeMeans ==
    ASSUME Changed(Changes(Pending), Changes(Pending'), World, World'), Glass' = Glass
    PROVE  Mirror!Change
  BY DEF Mirror!Change, Mirror!AfterFirst, Mirror!IsPrefix, IsPrefix, AppliedAll, Changed, Changes, World, Glass

LEMMA LogReaches ==
    ASSUME NEW S, NEW G \in Envs, NEW W, ServerOK(S), Side(S, G, W)
    PROVE  Log(S, G) \in Seq(Messages) /\ Reaches(W, Log(S, G), TreeView(S))
<1>1. S \in Servers
  BY DEF ServerOK
<1> QED
  BY <1>1, LogTypes DEF Side

\* The log before a step and after it.
LEMMA BothLogs ==
    ASSUME NEW W, Body(W), NEW U, Body(U)'
    PROVE  /\ Pending \in Seq(Messages) /\ Reaches(W, Pending, TreeView(server)) /\ TreeTyped(W)
           /\ Pending' \in Seq(Messages) /\ Reaches(U, Pending', TreeView(server')) /\ TreeTyped(U)
<1>1. Pending = Log(server, Env) /\ Pending' = Log(server', Env')
  BY DEF Pending, Log, Env
<1>2. PICK S : S = server
  OBVIOUS
<1>3. PICK G : G = Env
  OBVIOUS
<1>4. PICK T : T = server'
  OBVIOUS
<1>5. PICK H : H = Env'
  OBVIOUS
<1>6. ServerOK(S) /\ G \in Envs /\ Side(S, G, W) /\ TreeTyped(W)
  BY <1>2, <1>3 DEF Body
<1>7. ServerOK(T) /\ H \in Envs /\ Side(T, H, U) /\ TreeTyped(U)
  BY <1>4, <1>5 DEF Body
<1>8. Log(S, G) \in Seq(Messages) /\ Reaches(W, Log(S, G), TreeView(S))
  BY <1>6, LogReaches
<1>9. Log(T, H) \in Seq(Messages) /\ Reaches(U, Log(T, H), TreeView(T))
  BY <1>7, LogReaches
<1> QED
  BY <1>1, <1>2, <1>3, <1>4, <1>5, <1>6, <1>7, <1>8, <1>9

\* A step that keeps what the client sees and takes no message back is a Change.
LEMMA MakesChange ==
    ASSUME NEW W, Body(W), Body(W)', Len(Pending) <= Len(Pending'),
           \A k \in 1 .. Len(Pending) : Pending'[k] = Pending[k]
    PROVE  Mirror!Change
<1>1. PICK A \in Seq(Messages) : A = Pending
  BY BothLogs
<1>2. PICK B \in Seq(Messages) : B = Pending'
  BY BothLogs
<1>3. PICK V : V = TreeView(server)
  OBVIOUS
<1>4. PICK X : X = TreeView(server')
  OBVIOUS
<1>5. /\ Reaches(W, A, V) /\ Reaches(W, B, X) /\ TreeTyped(W)
      /\ Len(A) <= Len(B) /\ \A k \in 1 .. Len(A) : B[k] = A[k]
  <2>1. Reaches(W, Pending, TreeView(server)) /\ Reaches(W, Pending', TreeView(server')) /\ TreeTyped(W)
    BY BothLogs
  <2> QED
    BY <1>1, <1>2, <1>3, <1>4, <2>1
<1>6. PICK t : Path(t, W, B) /\ t[Len(A)] = V /\ t[Len(B)] = X
  BY <1>5, PathPrefix
<1>10. Changed(Changes(A), Changes(B), V.at, X.at)
  <2>1. Changed(Changes(A), Changes(B), t[Len(A)].at, t[Len(B)].at)
    BY <1>5, <1>6, MadeLegal
  <2> QED
    BY <1>6, <2>1
<1>11. World = V.at /\ World' = X.at /\ Glass' = Glass
  BY <1>3, <1>4, ViewsShown, ViewsShownNext
<1>12. Changed(Changes(Pending), Changes(Pending'), World, World')
  BY <1>1, <1>2, <1>10, <1>11
<1> QED
  BY <1>11, <1>12, ChangeMeans

\* The steps other than the handling of a message.
LEMMA ServesQuiet ==
    ASSUME Serves
    PROVE  events' = events
<1>1. ASSUME NEW e \in Entities, Process_spawn(e, NULL) \/ DestroyObject(e) PROVE events' = events
  BY <1>1 DEF Process_spawn, DestroyObject, Ask
<1>2. ASSUME NEW e \in Entities, remove_online(e) \/ add_online(e) \/ release(e) PROVE events' = events
  BY <1>2 DEF remove_online, add_online, release
<1>3. ASSUME NEW o \in Owners, NEW i \in Items,
             Process_spawn(i, o) \/ TakeNear(o, i) \/ Drop(o, i) \/ Eat(o, i)
      PROVE  events' = events
  BY <1>3 DEF Process_spawn, TakeNear, Drop, Eat, Ask
<1>4. ASSUME NEW o \in Owners, NEW i \in Items, NEW q \in Owners, TransferItem(o, i, q)
      PROVE  events' = events
  BY <1>4 DEF TransferItem, Ask
<1> QED
  BY <1>1, <1>2, <1>3, <1>4 DEF Serves

LEMMA ConcatLonger ==
    ASSUME NEW X, NEW a \in Seq(X), NEW b \in Seq(X), NEW c \in Seq(X),
           Len(b) <= Len(c), \A k \in 1 .. Len(b) : c[k] = b[k]
    PROVE  Len(a \o b) <= Len(a \o c) /\ \A k \in 1 .. Len(a \o b) : (a \o c)[k] = (a \o b)[k]
<1>1. /\ Len(a) \in Nat /\ Len(b) \in Nat /\ Len(c) \in Nat
      /\ Len(a \o b) = Len(a) + Len(b) /\ Len(a \o c) = Len(a) + Len(c)
  OBVIOUS
<1>2. ASSUME NEW k \in 1 .. Len(a) + Len(b) PROVE (a \o c)[k] = (a \o b)[k]
  <2>1. /\ (a \o b)[k] = (IF k <= Len(a) THEN a[k] ELSE b[k - Len(a)])
        /\ (a \o c)[k] = (IF k <= Len(a) THEN a[k] ELSE c[k - Len(a)])
    BY <1>1
  <2>2. ~(k <= Len(a)) => k - Len(a) \in 1 .. Len(b)
    BY <1>1
  <2> QED
    BY <2>1, <2>2
<1> QED
  BY <1>1, <1>2

\* Each step of the server is a Change.
LEMMA ServesChange ==
    ASSUME NEW W, Body(W), Serves
    PROVE  Mirror!Change
<1>1. Body(W)' /\ Longer(server, server')
  BY ServesStep DEF Keeps
<1>2. events' = events
  BY ServesQuiet
<1>3. events \in Seq(Messages) /\ server.net \in Seq(Messages)
  BY EnvType DEF Body, ServerOK, Servers
<1>4. server'.net \in Seq(Messages)
  BY <1>1 DEF Body, ServerOK, Servers
<1>5. PICK a \in Seq(Messages) : a = events
  BY <1>3
<1>6. PICK b \in Seq(Messages) : b = server.net
  BY <1>3
<1>7. PICK c \in Seq(Messages) : c = server'.net
  BY <1>4
<1>8. Len(b) <= Len(c) /\ \A k \in 1 .. Len(b) : c[k] = b[k]
  BY <1>1, <1>6, <1>7 DEF Longer
<1>9. Len(a \o b) <= Len(a \o c) /\ \A k \in 1 .. Len(a \o b) : (a \o c)[k] = (a \o b)[k]
  BY <1>8, ConcatLonger
<1>10. Pending = a \o b /\ Pending' = a \o c
  BY <1>2, <1>5, <1>6, <1>7 DEF Pending
<1>11. Len(Pending) <= Len(Pending') /\ \A k \in 1 .. Len(Pending) : Pending'[k] = Pending[k]
  BY <1>9, <1>10
<1> QED
  BY <1>1, <1>11, MakesChange

\* A step that moves messages or destroys the dying is a Change of nothing.
LEMMA SameChange ==
    ASSUME NEW W, Body(W), ClientReceive \/ Update \/ UNCHANGED vars
    PROVE  Mirror!Change
<1>1. Body(W)'
  BY ReceiveStep, UpdateStep, Stutter
<1>2. Pending' = Pending
  <2>1. CASE ClientReceive
    <3>1. events \in Seq(Messages) /\ server.net \in Seq(Messages) /\ server \in Servers
      BY EnvType DEF Body, ServerOK, Servers
    <3>2. events' = events \o server.net /\ server'.net = <<>>
      BY <2>1, <3>1 DEF ClientReceive, Servers
    <3>3. PICK a \in Seq(Messages) : a = events
      BY <3>1
    <3>4. PICK b \in Seq(Messages) : b = server.net
      BY <3>1
    <3>5. (a \o b) \o <<>> = a \o b
      OBVIOUS
    <3> QED
      BY <3>2, <3>3, <3>4, <3>5 DEF Pending
  <2>2. CASE Update \/ UNCHANGED vars
    BY <2>2 DEF Update, vars, Pending
  <2> QED
    BY <2>1, <2>2
<1>3. Pending \in Seq(Messages)
  BY PendingRange
<1>4. Len(Pending) <= Len(Pending') /\ \A k \in 1 .. Len(Pending) : Pending'[k] = Pending[k]
  BY <1>2, <1>3
<1> QED
  BY <1>1, <1>4, MakesChange

\* What handling the first message does to the messages and to the server.
LEMMA HandlesFacts ==
    ASSUME NEW W, Body(W), Handles, NEW m, m = Head(events)
    PROVE  /\ server.failed = NULL /\ events # <<>> /\ events' = Tail(events)
           /\ m \in Messages /\ Allowed(W, m)
           /\ \/ server' = server
              \/ /\ m.p \in Owners /\ m.type \in {"SPAWN", "TAKE"}
                 /\ Send(<<[type |-> "REJECT", parent |-> m.parent, id |-> m.id]>>)
<1>1. server.failed = NULL /\ events # <<>> /\ events' = Tail(events)
  BY DEF Handles, ClientSpawn, ClientTake, ClientReject, ClientDestroy, Event, Running
<1>2. m \in Messages /\ Allowed(W, m)
  BY <1>1, EventHead
<1>3. m.p \in Owners \cup {NULL}
  BY <1>2 DEF Messages
<1>4. ASSUME NEW o, NEW i, OnTake(o, i)
      PROVE  server' = server \/ Send(<<[type |-> "REJECT", parent |-> m.parent, id |-> m.id]>>)
  BY <1>4 DEF OnTake, Quiet, Crash
<1>5. CASE ClientSpawn
  <2>1. m.type = "SPAWN"
    BY <1>5 DEF ClientSpawn
  <2>2. CASE m.parent = NULL
    BY <1>1, <1>2, <1>5, <2>2 DEF ClientSpawn, Quiet
  <2>3. CASE m.parent # NULL
    <3>1. \E o, i : OnTake(o, i)
      BY <1>5, <2>3 DEF ClientSpawn
    <3>2. m.p \in Owners
      BY <1>2, <1>3, <2>3 DEF Allowed
    <3> QED
      BY <1>1, <1>2, <1>4, <2>1, <3>1, <3>2
  <2> QED
    BY <2>2, <2>3
<1>6. CASE ClientTake
  <2>1. m.type = "TAKE" /\ OnTake(map_NETID[m.parent], map_NETID[m.id])
    BY <1>6 DEF ClientTake, Event
  <2>2. m.p \in Owners
    BY <1>2, <1>3, <2>1 DEF Allowed
  <2> QED
    BY <1>1, <1>2, <1>4, <2>1, <2>2
<1>7. CASE ClientReject
  BY <1>1, <1>2, <1>7 DEF ClientReject, Quiet, Crash
<1>8. CASE ClientDestroy
  BY <1>1, <1>2, <1>8 DEF ClientDestroy, Quiet
<1> QED
  BY <1>5, <1>6, <1>7, <1>8 DEF Handles

\* What the client sends back takes the item from its owner, or finds that gone already.
SentBack(S, T, id) ==
    T.net = S.net \/ \E b : T.net = Append(S.net, b) /\ b.type = "REJECT" /\ b.id = id

LEMMA SendsBack ==
    ASSUME NEW S \in Servers, S.failed = NULL, NEW id, NEW r, r.type = "REJECT", r.id = id,
           NEW T, T = HandledAll(S, <<r>>)
    PROVE  SentBack(S, T, id)
<1>3. <<r>> \in Seq({r})
  OBVIOUS
<1>4. PICK s \in Seq({r}) : s = <<r>>
  BY <1>3
<1>5. PICK t : Goes(t, "Process_event", NULL, S, s, Len(s)) /\ t[Len(s)] = HandledAll(S, s)
  BY FoldProcess_event
<1>6. Len(s) = 1 /\ s[1] = r /\ 1 \in 1 .. Len(s) /\ 1 - 1 = 0
  BY <1>4
<1>7. T = Process_event(S, r)
  BY <1>4, <1>5, <1>6 DEF Goes, Folded
<1>8. T = Process_event_reject(S, r)
  BY <1>7 DEF Process_event
<1>9. T = S \/ T = Failed(S, r) \/ T = Detached(S, id)
  BY <1>8 DEF Process_event_reject
<1>10. Listed(S)
  BY DEF Listed, Servers
<1>11. CASE T = Detached(S, id)
  <2>1. PICK D : D = Detached(S, id)
    OBVIOUS
  <2>2. /\ Longer(S, D)
        /\ D = S \/ \E m : D.net = Append(S.net, m) /\ m.type = "REJECT" /\ m.id = id
    BY <1>10, <2>1, DetachedLonger
  <2> QED
    BY <1>11, <2>1, <2>2 DEF SentBack
<1>12. Failed(S, r).net = S.net
  BY DEF Failed, Servers
<1> QED
  BY <1>9, <1>11, <1>12 DEF SentBack

LEMMA ChangesTail ==
    ASSUME NEW s \in Seq(Messages), s # <<>>
    PROVE  /\ Changes(s) # <<>> /\ Head(Changes(s)) = ChangeOf(Head(s))
           /\ Changes(Tail(s)) = Tail(Changes(s))
<1>1. PICK n \in Nat : n = Len(s)
  OBVIOUS
<1>2. n >= 1 /\ Head(s) = s[1]
  BY <1>1
<1>3. PICK C \in Seq(ChangesOf) : C = Changes(s)
  BY ChangesPlaces
<1>4. Len(C) = n /\ \A k \in 1 .. n : C[k] = ChangeOf(s[k])
  BY <1>1, <1>3, ChangesPlaces
<1>5. C # <<>> /\ Head(C) = C[1] /\ 1 \in 1 .. n
  BY <1>2, <1>4
<1>u. Tail(s) \in Seq(Messages)
  BY HeadTailProperties
<1>6. PICK u \in Seq(Messages) : u = Tail(s)
  BY <1>u
<1>7. Len(u) = n - 1 /\ \A k \in 1 .. n - 1 : u[k] = s[k + 1]
  BY <1>1, <1>6, HeadTailProperties
<1>8. PICK D \in Seq(ChangesOf) : D = Changes(u)
  BY ChangesPlaces
<1>9. Len(D) = n - 1 /\ \A k \in 1 .. n - 1 : D[k] = ChangeOf(u[k])
  BY <1>7, <1>8, ChangesPlaces
<1>10. PICK E \in Seq(ChangesOf) : E = Tail(C)
  BY <1>5, HeadTailProperties
<1>11. Len(E) = n - 1 /\ \A k \in 1 .. n - 1 : E[k] = C[k + 1]
  BY <1>4, <1>5, <1>10, HeadTailProperties
<1>12. \A k \in 1 .. n - 1 : k + 1 \in 1 .. n
  BY <1>1
<1>13. \A k \in 1 .. n - 1 : D[k] = E[k]
  BY <1>4, <1>7, <1>9, <1>11, <1>12
<1>14. D = E
  BY <1>9, <1>11, <1>13, SeqEqual
<1> QED
  BY <1>2, <1>3, <1>4, <1>5, <1>6, <1>8, <1>10, <1>14

LEMMA ChangesAppend ==
    ASSUME NEW s \in Seq(Messages), NEW b \in Messages
    PROVE  Changes(Append(s, b)) = Append(Changes(s), ChangeOf(b))
<1>1. PICK n \in Nat : n = Len(s)
  OBVIOUS
<1>2. PICK C \in Seq(ChangesOf) : C = Changes(s)
  BY ChangesPlaces
<1>3. Len(C) = n /\ \A k \in 1 .. n : C[k] = ChangeOf(s[k])
  BY <1>1, <1>2, ChangesPlaces
<1>4. PICK c \in ChangesOf : c = ChangeOf(b)
  BY DEF ChangesOf
<1>5. PICK u \in Seq(Messages) : u = Append(s, b)
  BY AppendPlaces
<1>6. Len(u) = n + 1 /\ u[n + 1] = b /\ \A k \in 1 .. n : u[k] = s[k] /\ k \in 1 .. n + 1
  BY <1>1, <1>5, AppendPlaces
<1>7. PICK E \in Seq(ChangesOf) : E = Append(C, c)
  BY AppendPlaces
<1>8. /\ Len(E) = n + 1 /\ E[n + 1] = c /\ n + 1 \in 1 .. n + 1
      /\ \A k \in 1 .. n : E[k] = C[k]
      /\ \A k \in 1 .. n + 1 : k \in 1 .. n \/ k = n + 1
  BY <1>3, <1>7, AppendPlaces
<1>9. PICK D \in Seq(ChangesOf) : D = Changes(u)
  BY ChangesPlaces
<1>10. Len(D) = n + 1 /\ \A k \in 1 .. n + 1 : D[k] = ChangeOf(u[k])
  BY <1>6, <1>9, ChangesPlaces
<1>11. \A k \in 1 .. n + 1 : D[k] = E[k]
  BY <1>3, <1>4, <1>6, <1>8, <1>10
<1>12. D = E
  BY <1>8, <1>10, <1>11, SeqEqual
<1> QED
  BY <1>2, <1>4, <1>5, <1>7, <1>9, <1>12

\* Deliver of MirrorSpec, from log A to B, from tree w to x on the server, from g to h
\* on the client.
Delivered(A, B, w, x, g, h) ==
    /\ A # <<>> /\ Mirror!Legal(g, Head(A)) /\ h = Mirror!Apply(g, Head(A))
    /\ \/ x = w /\ B = Tail(A)
       \/ LET back == [e |-> Head(A).e, to |-> NULL]
          IN  /\ Head(A).to \in Owners /\ Mirror!Legal(w, back)
              /\ x = Mirror!Apply(w, back) /\ B = Append(Tail(A), back)

\* With the names of Ownership: what the step of MirrorSpec says.
LEMMA DeliverMeans ==
    ASSUME Delivered(Changes(Pending), Changes(Pending'), World, World', Glass, Glass')
    PROVE  Mirror!Deliver
  BY DEF Mirror!Deliver, Delivered, Changes, World, Glass

\* What the client has refused is what it has been given.
LEMMA BackAbout ==
    ASSUME NEW S, NEW G, ServerOK(S), Traces(S, G), NEW m \in Messages, Leaves(S, G, m.e, m.id),
           NEW b \in Messages, b.type = "REJECT", b.id = m.id, NEW V, V = TreeView(S), Allowed(V, b)
    PROVE  b.e = m.e
<1>1. m.e \in Entities /\ m.id \in IDs /\ b.e \in Entities
  BY DEF Messages
<1>2. V.id[b.e] = m.id /\ m.id # NULL
  BY <1>1, NoClash DEF Allowed
<1>3. S.ID[b.e] = m.id
  BY <1>1, <1>2 DEF TreeView
<1>4. S.ID[m.e] = m.id
  BY <1>1, <1>3 DEF Traces
<1> QED
  BY <1>1, <1>2, <1>3, <1>4 DEF ServerOK, NamesOK

\* A path has one end.
LEMMA SamePath ==
    ASSUME NEW W, NEW V, NEW X, NEW s \in Seq(Messages), Reaches(W, s, V), Reaches(W, s, X)
    PROVE  X = V
<1>1. Len(s) <= Len(s)
  OBVIOUS
<1>2. \E t : Path(t, W, s) /\ t[Len(s)] = V /\ t[Len(s)] = X
  BY <1>1, PathPrefix
<1> QED
  BY <1>2

\* z is u with b behind it.
Adds(z, u, b) == Len(z) = Len(u) + 1 /\ z[Len(u) + 1] = b /\ \A k \in 1 .. Len(u) : z[k] = u[k]

\* The last message of a path.
LEMMA LastStep ==
    ASSUME NEW W, NEW V, NEW X, NEW u \in Seq(Messages), NEW b \in Messages,
           NEW z \in Seq(Messages), Adds(z, u, b), Reaches(W, u, V), Reaches(W, z, X)
    PROVE  Allowed(V, b) /\ X = After(V, b)
<1>0. Len(z) = Len(u) + 1 /\ z[Len(u) + 1] = b /\ \A k \in 1 .. Len(u) : z[k] = u[k]
  BY DEF Adds
<1>1. PICK n \in Nat : n = Len(u)
  OBVIOUS
<1>2. Len(z) = n + 1 /\ z[n + 1] = b /\ n + 1 \in 1 .. n + 1
  BY <1>0, <1>1
<1>3. Len(u) <= Len(z)
  BY <1>1, <1>2
<1>4. PICK t : Path(t, W, z) /\ t[Len(u)] = V /\ t[Len(z)] = X
  BY <1>0, <1>3, PathPrefix
<1>5. (n + 1) - 1 = n
  OBVIOUS
<1>6. Allowed(t[n], b) /\ t[n + 1] = After(t[n], b)
  BY <1>2, <1>4, <1>5 DEF Path
<1> QED
  BY <1>1, <1>2, <1>4, <1>6

\* A message that the client handles is a Deliver.
LEMMA HandlesDeliver ==
    ASSUME NEW W, Body(W), Handles
    PROVE  Mirror!Deliver
<1>1. PICK m : m = Head(events)
  OBVIOUS
<1>2. /\ server.failed = NULL /\ events # <<>> /\ events' = Tail(events)
      /\ m \in Messages /\ Allowed(W, m)
      /\ \/ server' = server
         \/ /\ m.p \in Owners /\ m.type \in {"SPAWN", "TAKE"}
            /\ Send(<<[type |-> "REJECT", parent |-> m.parent, id |-> m.id]>>)
  BY <1>1, HandlesFacts
<1>3. PICK U : U = After(W, m) /\ Body(U)'
  BY <1>1, HandlesStep
<1>4. PICK V : V = TreeView(server)
  OBVIOUS
<1>5. PICK X : X = TreeView(server')
  OBVIOUS
<1>6. PICK s \in Seq(Messages) : s = Pending
  BY <1>3, BothLogs
<1>7. PICK z \in Seq(Messages) : z = Pending'
  BY <1>3, BothLogs
<1>8. Reaches(W, s, V) /\ TreeTyped(W) /\ Reaches(U, z, X)
  BY <1>3, <1>4, <1>5, <1>6, <1>7, BothLogs
<1>9. events \in Seq(Messages) /\ server.net \in Seq(Messages) /\ server \in Servers
  BY EnvType DEF Body, ServerOK, Servers
<1>10. PICK a \in Seq(Messages) : a = events
  BY <1>9
<1>11. PICK n \in Seq(Messages) : n = server.net
  BY <1>9
<1>12. /\ s = a \o n /\ a # <<>> /\ s # <<>> /\ Head(s) = m /\ Tail(s) = Tail(a) \o n
       /\ Tail(a) \in Seq(Messages) /\ s[1] = m /\ 1 \in 1 .. Len(s)
  <2>1. s = a \o n /\ a # <<>> /\ m = Head(a)
    BY <1>1, <1>2, <1>6, <1>10, <1>11 DEF Pending
  <2>2. /\ s # <<>> /\ Head(s) = Head(a) /\ Tail(s) = Tail(a) \o n
        /\ Len(s) \in Nat /\ Len(s) >= 1 /\ s[1] = Head(a)
    BY <2>1, TailConcat
  <2>3. Tail(a) \in Seq(Messages)
    BY <2>1, HeadTailProperties
  <2> QED
    BY <2>1, <2>2, <2>3
<1>13. PICK u \in Seq(Messages) : u = Tail(s)
  <2>1. Tail(s) \in Seq(Messages)
    BY <1>12, HeadTailProperties
  <2> QED
    BY <2>1
<1>14. Reaches(U, u, V)
  <2>1. Reaches(After(W, Head(s)), Tail(s), V)
    BY <1>8, <1>12, ReachesTail
  <2> QED
    BY <1>3, <1>12, <1>13, <2>1
<1>15. World = V.at /\ World' = X.at /\ Glass = W.at /\ Glass' = U.at
  BY <1>3, <1>4, <1>5, ViewsShown, ViewsShownNext
<1>16. PICK c : c = ChangeOf(m)
  OBVIOUS
<1>17. Mirror!Legal(W.at, c) /\ U.at = Mirror!Apply(W.at, c)
  BY <1>2, <1>3, <1>8, <1>16, AllowedLegal
<1>18. Changes(s) # <<>> /\ Head(Changes(s)) = c /\ Tail(Changes(s)) = Changes(u)
  BY <1>12, <1>13, <1>16, ChangesTail
<1>19. PICK d \in Seq(Messages) : d = Tail(a)
  BY <1>12
<1>20. z = d \o server'.net /\ u = d \o n
  BY <1>2, <1>7, <1>10, <1>12, <1>13, <1>19 DEF Pending
<1>21. \/ server'.net = server.net
       \/ /\ c.to \in Owners
          /\ \E b : server'.net = Append(server.net, b) /\ b.type = "REJECT" /\ b.id = m.id
  <2>1. CASE server' = server
    BY <2>1
  <2>2. CASE /\ m.p \in Owners /\ m.type \in {"SPAWN", "TAKE"}
             /\ Send(<<[type |-> "REJECT", parent |-> m.parent, id |-> m.id]>>)
    <3>1. c.to = m.p
      BY <1>16, <2>2 DEF ChangeOf
    <3>2. PICK S : S = server
      OBVIOUS
    <3>3. PICK T : T = server'
      OBVIOUS
    <3>r. PICK r : r = [type |-> "REJECT", parent |-> m.parent, id |-> m.id]
      OBVIOUS
    <3>4. T = HandledAll(S, <<r>>) /\ r.type = "REJECT" /\ r.id = m.id
      BY <2>2, <3>2, <3>3, <3>r DEF Send, HandledAll
    <3>5. S \in Servers /\ S.failed = NULL
      BY <1>2, <1>9, <3>2
    <3>6. SentBack(S, T, m.id)
      BY <3>4, <3>5, SendsBack
    <3> QED
      BY <2>2, <3>1, <3>2, <3>3, <3>6 DEF SentBack
  <2> QED
    BY <1>2, <2>1, <2>2
<1>22. CASE server'.net = server.net
  <2>1. z = u
    BY <1>11, <1>20, <1>22
  <2>2. X = V
    BY <1>8, <1>14, <2>1, SamePath
  <2>3. Delivered(Changes(s), Changes(z), V.at, X.at, W.at, U.at)
    BY <1>17, <1>18, <2>1, <2>2 DEF Delivered
  <2>4. Delivered(Changes(Pending), Changes(Pending'), World, World', Glass, Glass')
    BY <1>6, <1>7, <1>15, <2>3
  <2> QED
    BY <2>4, DeliverMeans
<1>23. CASE /\ c.to \in Owners
            /\ \E b : server'.net = Append(server.net, b) /\ b.type = "REJECT" /\ b.id = m.id
  <2>1. PICK b : server'.net = Append(server.net, b) /\ b.type = "REJECT" /\ b.id = m.id
    BY <1>23
  <2>2. b \in Messages
    <3>1. server'.net \in Seq(Messages)
      BY <1>3 DEF Body, ServerOK, Servers
    <3>2. PICK k \in Seq(Messages) : k = server'.net
      BY <3>1
    <3>3. k = Append(n, b)
      BY <1>11, <2>1, <3>2
    <3>4. Len(k) = Len(n) + 1 /\ k[Len(n) + 1] = b /\ Len(n) \in Nat
      BY <3>3
    <3>5. Len(n) + 1 \in 1 .. Len(k)
      BY <3>4
    <3> QED
      BY <3>2, <3>4, <3>5
  <2>3. z = Append(u, b)
    BY SMTT(30), <1>11, <1>20, <2>1, <2>2, ConcatAppend
  <2>4. Allowed(V, b) /\ X = After(V, b)
    <3>1. Adds(z, u, b)
      BY <2>2, <2>3, AppendPlaces DEF Adds
    <3> QED
      BY <1>8, <1>14, <2>2, <3>1, LastStep
  <2>5. TreeTyped(V)
    BY <1>8, ReachesTyped
  <2>6. Mirror!Legal(V.at, ChangeOf(b)) /\ X.at = Mirror!Apply(V.at, ChangeOf(b))
    BY <2>2, <2>4, <2>5, AllowedLegal
  <2>7. b.e = m.e
    <3>1. PICK S : S = server
      OBVIOUS
    <3>2. PICK G : G = Env
      OBVIOUS
    <3>3. ServerOK(S) /\ Traces(S, G) /\ V = TreeView(S)
      BY <1>4, <3>1, <3>2 DEF Body, Side
    <3>4. s = Log(S, G)
      BY <1>6, <3>1, <3>2 DEF Pending, Log, Env
    <3>5. Leaves(S, G, m.e, m.id)
      BY <1>12, <3>4 DEF Leaves
    <3> QED
      BY <1>2, <2>1, <2>2, <2>4, <3>3, <3>5, BackAbout
  <2>8. ChangeOf(b) = [e |-> c.e, to |-> NULL]
    BY <1>16, <2>1, <2>7 DEF ChangeOf
  <2>9. Changes(z) = Append(Changes(u), [e |-> c.e, to |-> NULL])
    BY <2>2, <2>3, <2>8, ChangesAppend
  <2>10. Delivered(Changes(s), Changes(z), V.at, X.at, W.at, U.at)
    BY <1>17, <1>18, <1>23, <2>6, <2>8, <2>9 DEF Delivered
  <2>11. Delivered(Changes(Pending), Changes(Pending'), World, World', Glass, Glass')
    BY <1>6, <1>7, <1>15, <2>10
  <2> QED
    BY <2>11, DeliverMeans
<1> QED
  BY <1>21, <1>22, <1>23

\* The beginning: the client sees the tree.
LEMMA InitMirror ==
    ASSUME Init
    PROVE  Mirror!MirrorInit
<1>1. PICK W : Body(W)
  BY IInvInit DEF IInv
<1>2. Pending = <<>>
  <2>1. events = <<>> /\ server.net = <<>>
    BY DEF Init
  <2> QED
    BY <2>1 DEF Pending
<1>3. PICK V : V = TreeView(server)
  OBVIOUS
<1>4. Reaches(W, <<>>, V)
  <2>1. Pending = Log(server, Env)
    BY DEF Pending, Log, Env
  <2> QED
    BY <1>1, <1>2, <1>3, <2>1 DEF Body, Side
<1>5. V = W
  BY <1>4, ReachesEmpty
<1>6. World = W.at /\ Glass = W.at
  BY <1>1, <1>3, <1>5, ViewsShown
<1>7. W.at \in [Entities -> Owners \cup {NULL, Absent}]
  BY <1>1 DEF Body, TreeTyped, Views
<1>8. World \in [Entities -> Mirror!Places] /\ Glass = World
  BY <1>6, <1>7 DEF Mirror!Places
<1>9. Changes(Pending) = <<>>
  <2>0. <<>> \in Seq(Messages)
    OBVIOUS
  <2>1. PICK s \in Seq(Messages) : s = <<>>
    BY <2>0
  <2>2. Changes(s) \in Seq(ChangesOf) /\ Len(Changes(s)) = 0
    BY <2>1, ChangesPlaces
  <2>3. Changes(s) = <<>>
    BY <2>2
  <2> QED
    BY <1>2, <2>1, <2>3
<1> QED
  BY <1>8, <1>9 DEF Mirror!MirrorInit, World, Glass, Changes

\* ImplementsMirror: server, queues and client together do what MirrorSpec promises.  Every
\* message is a change that is legal where it was made and where it arrives, and the client
\* sees each of them once and in the order in which they were made.
THEOREM MirrorImplemented == Spec => ImplementsMirror
<1>1. Init => Mirror!MirrorInit
  BY InitMirror
<1>2. IInv /\ [Next]_vars => [Mirror!MirrorNext]_Mirror!mirrorVars
  <2> SUFFICES ASSUME IInv, [Next]_vars PROVE Mirror!MirrorNext
    OBVIOUS
  <2>1. PICK W : Body(W)
    BY DEF IInv
  <2>2. CASE Serves
    BY <2>1, <2>2, ServesChange DEF Mirror!MirrorNext
  <2>3. CASE Handles
    BY <2>1, <2>3, HandlesDeliver DEF Mirror!MirrorNext
  <2>4. CASE ClientReceive \/ Update \/ UNCHANGED vars
    BY <2>1, <2>4, SameChange DEF Mirror!MirrorNext
  <2> QED
    BY <2>2, <2>3, <2>4, NextCases
<1> QED
  BY <1>1, <1>2, Invariance, PTL DEF Spec, ImplementsMirror, Mirror!MirrorSpecification

=============================================================================
