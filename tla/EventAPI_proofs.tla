---------------------------- MODULE EventAPI_proofs ----------------------------
(***************************************************************************)
(* Proofs about EventAPI, for any names, receivers and bounds.             *)
(***************************************************************************)
EXTENDS EventAPI, SequenceTheorems, FiniteSetTheorems, TLAPS

-----------------------------------------------------------------------------
(* Sets of naturals.                                                       *)

\* Every set of naturals has a least element: n stands for the finite set 0 .. n,
\* and strict inclusion of finite sets is well-founded.
LEMMA LeastNatural ==
    ASSUME NEW T \in SUBSET Nat, T # {}
    PROVE  \E x \in T : \A y \in T : x <= y
<1> DEFINE Upto == {0 .. n : n \in T}
<1>1. Upto \subseteq FiniteSubsetsOf(Nat) /\ Upto # {}
  <2>1. \A n \in T : IsFiniteSet(0 .. n) /\ 0 .. n \subseteq Nat
    BY FS_Interval
  <2> QED
    BY <2>1 DEF FiniteSubsetsOf
<1>2. IsWellFoundedOn(StrictSubsetOrdering(Nat), FiniteSubsetsOf(Nat))
  BY FS_StrictSubsetOrderingWellFounded
<1> HIDE DEF Upto
<1>3. PICK X \in Upto : \A Y \in Upto : <<Y, X>> \notin StrictSubsetOrdering(Nat)
  BY <1>1, <1>2, WFMin
<1>4. PICK x \in T : X = 0 .. x
  BY <1>3 DEF Upto
<1>5. ASSUME NEW y \in T, y < x
      PROVE  FALSE
  <2>1. 0 .. y \in Upto
    BY DEF Upto
  <2>2. 0 .. y \subseteq 0 .. x /\ x \in 0 .. x /\ x \notin 0 .. y
    BY <1>5
  <2>3. 0 .. y \in SUBSET Nat /\ 0 .. x \in SUBSET Nat
    OBVIOUS
  <2>4. <<0 .. y, 0 .. x>> \in StrictSubsetOrdering(Nat)
    BY <2>2, <2>3 DEF StrictSubsetOrdering
  <2> QED
    BY <2>1, <2>4, <1>3, <1>4
<1> QED
  BY <1>5

-----------------------------------------------------------------------------
(* Sequences.                                                              *)

\* To leave out one position shifts the later ones left: std::vector::erase.
LEMMA EraseType ==
    ASSUME NEW S, NEW s \in Seq(S), NEW i \in 1 .. Len(s)
    PROVE  LET erased == SubSeq(s, 1, i - 1) \o SubSeq(s, i + 1, Len(s))
           IN  /\ erased \in Seq(S)
               /\ Len(erased) = Len(s) - 1
               /\ \A j \in 1 .. Len(s) - 1 : erased[j] = IF j < i THEN s[j] ELSE s[j + 1]
<1> DEFINE front == SubSeq(s, 1, i - 1)
           back == SubSeq(s, i + 1, Len(s))
<1>1. /\ front \in Seq(S) /\ Len(front) = i - 1
      /\ \A j \in 1 .. i - 1 : front[j] = s[j]
  OBVIOUS
<1>2. /\ back \in Seq(S) /\ Len(back) = Len(s) - i
      /\ \A j \in 1 .. Len(s) - i : back[j] = s[i + j]
  OBVIOUS
<1> HIDE DEF front, back
<1>3. /\ front \o back \in Seq(S)
      /\ Len(front \o back) = Len(s) - 1
  BY <1>1, <1>2
<1>4. ASSUME NEW j \in 1 .. Len(s) - 1
      PROVE (front \o back)[j] = IF j < i THEN s[j] ELSE s[j + 1]
  BY <1>1, <1>2
<1> QED
  BY <1>3, <1>4 DEF front, back

\* To erase one position of such a list takes just the element there.
LEMMA DistinctErase ==
    ASSUME NEW S, NEW s \in Seq(S), IsInjective(s), NEW i \in 1 .. Len(s)
    PROVE  LET erased == SubSeq(s, 1, i - 1) \o SubSeq(s, i + 1, Len(s))
           IN  /\ erased \in Seq(S)
               /\ Range(erased) = Range(s) \ {s[i]}
               /\ IsInjective(erased)
<1>1. DOMAIN s = 1 .. Len(s) /\ Len(s) \in Nat
  OBVIOUS
<1> DEFINE u == SubSeq(s, 1, i - 1) \o SubSeq(s, i + 1, Len(s))
<1>2. /\ u \in Seq(S) /\ Len(u) = Len(s) - 1
      /\ \A j \in 1 .. Len(s) - 1 : u[j] = IF j < i THEN s[j] ELSE s[j + 1]
  BY EraseType
<1> HIDE DEF u
<1>3. DOMAIN u = 1 .. Len(s) - 1
  BY <1>1, <1>2
<1>4. \A j, k \in 1 .. Len(s) : s[j] = s[k] => j = k
  BY <1>1 DEF IsInjective
<1>5. IsInjective(u)
  <2>1. ASSUME NEW j \in 1 .. Len(s) - 1, NEW k \in 1 .. Len(s) - 1, u[j] = u[k]
        PROVE  j = k
    <3>1. (IF j < i THEN j ELSE j + 1) = (IF k < i THEN k ELSE k + 1)
      <4>1. (IF j < i THEN j ELSE j + 1) \in 1 .. Len(s) /\ (IF k < i THEN k ELSE k + 1) \in 1 .. Len(s)
        BY <1>1
      <4> QED
        BY <1>2, <1>4, <2>1, <4>1
    <3> QED
      BY <3>1
  <2> QED
    BY <1>3, <2>1 DEF IsInjective
<1>6. ASSUME NEW j \in 1 .. Len(s) - 1
      PROVE  u[j] \in Range(s) \ {s[i]}
  <2>1. PICK k \in 1 .. Len(s) : k # i /\ u[j] = s[k]
    <3>1. j \in 1 .. Len(s) /\ j + 1 \in 1 .. Len(s)
      BY <1>1
    <3> QED
      BY <1>2, <3>1
  <2>2. s[k] # s[i]
    BY <1>4, <2>1
  <2>3. s[k] \in Range(s)
    BY <1>1 DEF Range
  <2> QED
    BY <2>1, <2>2, <2>3
<1>7. ASSUME NEW k \in 1 .. Len(s), k # i
      PROVE  \E j \in 1 .. Len(s) - 1 : u[j] = s[k]
  <2>1. CASE k < i
    <3>1. k \in 1 .. Len(s) - 1 /\ u[k] = s[k]
      BY <1>1, <1>2, <2>1
    <3> QED
      BY <3>1
  <2>2. CASE k > i
    <3>1. k - 1 \in 1 .. Len(s) - 1 /\ u[k - 1] = s[k]
      BY <1>1, <1>2, <2>2
    <3> QED
      BY <3>1
  <2> QED
    BY <1>7, <2>1, <2>2
<1>8. Range(u) = Range(s) \ {s[i]}
  <2>1. Range(u) \subseteq Range(s) \ {s[i]}
    BY <1>3, <1>6 DEF Range
  <2>2. ASSUME NEW x \in Range(s), x # s[i]
        PROVE  x \in Range(u)
    <3>1. PICK k \in 1 .. Len(s) : x = s[k]
      BY <1>1 DEF Range
    <3>2. PICK j \in 1 .. Len(s) - 1 : u[j] = s[k]
      BY <1>7, <2>2, <3>1
    <3> QED
      BY <1>3, <3>1, <3>2 DEF Range
  <2> QED
    BY <2>1, <2>2
<1> QED
  BY <1>2, <1>5, <1>8 DEF u

LEMMA DistinctAppend ==
    ASSUME NEW S, NEW s \in Seq(S), IsInjective(s), NEW e \in S, e \notin Range(s)
    PROVE  /\ Append(s, e) \in Seq(S)
           /\ Range(Append(s, e)) = Range(s) \cup {e}
           /\ IsInjective(Append(s, e))
<1>1. DOMAIN s = 1 .. Len(s) /\ Len(s) \in Nat
  OBVIOUS
<1> DEFINE u == Append(s, e)
<1>2. /\ u \in Seq(S) /\ DOMAIN u = 1 .. Len(s) \cup {Len(s) + 1}
      /\ u[Len(s) + 1] = e
      /\ \A k \in 1 .. Len(s) : u[k] = s[k]
  <2>1. u \in Seq(S) /\ Len(u) = Len(s) + 1 /\ u[Len(s) + 1] = e
        /\ \A k \in 1 .. Len(s) : u[k] = s[k]
    OBVIOUS
  <2>2. DOMAIN u = 1 .. Len(u)
    BY <2>1
  <2> QED
    BY <1>1, <2>1, <2>2
<1> HIDE DEF u
<1>3. \A k \in 1 .. Len(s) : s[k] # e
  BY <1>1 DEF Range
<1>4. Range(u) = Range(s) \cup {e}
  BY <1>1, <1>2 DEF Range
<1>5. IsInjective(u)
  BY <1>1, <1>2, <1>3 DEF IsInjective
<1> QED
  BY <1>2, <1>4, <1>5 DEF u

LEMMA DistinctEmpty ==
    ASSUME NEW S
    PROVE  <<>> \in Seq(S) /\ Range(<<>>) = {} /\ IsInjective(<<>>)
<1>1. <<>> \in Seq(S) /\ DOMAIN <<>> = {}
  OBVIOUS
<1> QED
  BY <1>1 DEF Range, IsInjective

-----------------------------------------------------------------------------
(* The vector Handlers.                                                    *)

\* Detach erases one position that holds the receiver.
LEMMA RemoveFirstIs ==
    ASSUME NEW S, NEW s \in Seq(S), NEW e, NEW k \in 1 .. Len(s), s[k] = e
    PROVE  \E i \in 1 .. Len(s) : s[i] = e /\ RemoveFirst(s, e) = RemoveAt(s, i)
<1> DEFINE I == {i \in 1 .. Len(s) : s[i] = e}
<1>1. SelectInSeq(s, LAMBDA v : v = e) = Min(I)
  BY DEF SelectInSeq
<1>2. RemoveFirst(s, e) = RemoveAt(s, SelectInSeq(s, LAMBDA v : v = e))
  BY DEF RemoveFirst
<1>3. I \in SUBSET Nat /\ I # {}
  OBVIOUS
<1>4. \E x \in I : \A y \in I : x <= y
  BY <1>3, LeastNatural
<1>5. Min(I) \in I
  BY <1>4 DEF Min
<1> QED
  BY <1>1, <1>2, <1>5

\* A list without doubles loses just that receiver.
LEMMA RemoveFirstFacts ==
    ASSUME NEW S, NEW s \in Seq(S), IsInjective(s), NEW e \in ToSet(s)
    PROVE  /\ RemoveFirst(s, e) \in Seq(S)
           /\ ToSet(RemoveFirst(s, e)) = ToSet(s) \ {e}
           /\ IsInjective(RemoveFirst(s, e))
<1>1. \A u \in Seq(S) : ToSet(u) = Range(u)
  BY DEF ToSet, Range
<1>2. PICK i \in 1 .. Len(s) : s[i] = e /\ RemoveFirst(s, e) = RemoveAt(s, i)
  <2>1. \E k \in 1 .. Len(s) : s[k] = e
    BY DEF ToSet
  <2> QED
    BY <2>1, RemoveFirstIs
<1> DEFINE u == RemoveAt(s, i)
<1>3. u \in Seq(S) /\ Range(u) = Range(s) \ {s[i]} /\ IsInjective(u)
  BY DistinctErase DEF RemoveAt
<1> HIDE DEF u
<1>4. RemoveFirst(s, e) = u /\ s[i] = e
  BY <1>2 DEF u
<1> QED
  BY <1>1, <1>3, <1>4

\* Attach appends a receiver that is not in the list.
LEMMA AppendFacts ==
    ASSUME NEW S, NEW s \in Seq(S), IsInjective(s), NEW e \in S, e \notin ToSet(s)
    PROVE  /\ Append(s, e) \in Seq(S)
           /\ ToSet(Append(s, e)) = ToSet(s) \cup {e}
           /\ IsInjective(Append(s, e))
  BY DistinctAppend DEF ToSet, Range

LEMMA EmptyFacts ==
    ASSUME NEW S
    PROVE  <<>> \in Seq(S) /\ ToSet(<<>>) = {} /\ IsInjective(<<>>)
  BY DistinctEmpty DEF ToSet, Range

-----------------------------------------------------------------------------
(* The inductive invariant.                                                *)

\* The part of RefExact that does not follow from the rest.
Exact(n) == /\ ref[n] = Cardinality(Attached(n)) + (IF n \in owned THEN 1 ELSE 0)
                        + Cardinality(Undelivered(n)) + Cardinality(SignalsByName(n))
            /\ ToSet(handlers[n]) = Attached(n)
            /\ IsInjective(handlers[n])

AllExact == \A n \in Names : IsFiniteSet(Attached(n)) /\ Exact(n)

LEMMA StackFacts ==
    ASSUME TypeOK
    PROVE  /\ DOMAIN stack = 1 .. Len(stack) /\ Len(stack) \in Nat
           /\ DOMAIN deferred = 1 .. Len(deferred) /\ Len(deferred) \in Nat
           /\ \A k \in 1 .. Len(stack) :
                 /\ stack[k].name \in Names /\ stack[k].pos \in Nat \ {0}
                 /\ stack[k].by \in Signallers
           /\ \A k \in 1 .. Len(deferred) :
                 deferred[k].name \in Names /\ deferred[k].live \in BOOLEAN
<1>1. \A k \in 1 .. Len(stack) : stack[k] \in Signalling
  BY DEF TypeOK
<1>2. \A k \in 1 .. Len(deferred) : deferred[k] \in Deferred
  BY DEF TypeOK
<1>3. /\ DOMAIN stack = 1 .. Len(stack) /\ Len(stack) \in Nat
      /\ DOMAIN deferred = 1 .. Len(deferred) /\ Len(deferred) \in Nat
  BY DEF TypeOK
<1> QED
  BY <1>1, <1>2, <1>3 DEF Signalling, Deferred

LEMMA CountFacts ==
    ASSUME TypeOK, NEW n \in Names, IsFiniteSet(Attached(n))
    PROVE  /\ IsFiniteSet(Undelivered(n)) /\ IsFiniteSet(SignalsByName(n))
           /\ Cardinality(Attached(n)) \in Nat
           /\ Cardinality(Undelivered(n)) \in Nat
           /\ Cardinality(SignalsByName(n)) \in Nat
<1>1. IsFiniteSet(DOMAIN deferred) /\ IsFiniteSet(DOMAIN stack)
  <2>1. DOMAIN deferred = 1 .. Len(deferred) /\ Len(deferred) \in Int
    BY DEF TypeOK
  <2>2. DOMAIN stack = 1 .. Len(stack) /\ Len(stack) \in Int
    BY DEF TypeOK
  <2> QED
    BY <2>1, <2>2, FS_Interval
<1>2. Undelivered(n) \in SUBSET DOMAIN deferred /\ SignalsByName(n) \in SUBSET DOMAIN stack
  BY DEF Undelivered, SignalsByName
<1>3. IsFiniteSet(Undelivered(n)) /\ IsFiniteSet(SignalsByName(n))
  BY <1>1, <1>2, FS_Subset
<1> QED
  BY <1>3, FS_CardinalityType

\* A running signal has a reference to its event: its own, its owner's, or that of
\* the entry it delivers.
LEMMA ExactIsEnough == TypeOK /\ Running /\ AllExact => IInv
<1> SUFFICES ASSUME TypeOK, Running, AllExact PROVE IInv
  OBVIOUS
<1> USE DEF AllExact
<1>1. ASSUME NEW n \in Names, NEW k \in DOMAIN stack, stack[k].name = n
      PROVE  ref[n] > 0
  <2> DEFINE a == Cardinality(Attached(n))
             u == Cardinality(Undelivered(n))
             b == Cardinality(SignalsByName(n))
             o == IF n \in owned THEN 1 ELSE 0
  <2>1. a \in Nat /\ u \in Nat /\ b \in Nat /\ o \in Nat /\ ref[n] = a + o + u + b
    BY CountFacts DEF Exact
  <2>2. IsFiniteSet(Undelivered(n)) /\ IsFiniteSet(SignalsByName(n))
    BY CountFacts
  <2>3. stack[k].by \in Signallers
    BY StackFacts
  <2> HIDE DEF a, u, b
  <2>4. CASE stack[k].by = "name"
    <3>1. k \in SignalsByName(n)
      BY <1>1, <2>4 DEF SignalsByName
    <3>2. b # 0
      BY <2>2, <3>1, FS_EmptySet DEF b
    <3> QED
      BY <2>1, <3>2
  <2>5. CASE stack[k].by = "owner"
    <3>1. o = 1
      BY <1>1, <2>5 DEF Running
    <3> QED
      BY <2>1, <3>1
  <2>6. CASE stack[k].by = "frame"
    <3>1. k = 1 /\ InFrame
      BY <2>6 DEF Running, InFrame
    <3>2. index \in DOMAIN deferred /\ deferred[index].name = n
      BY <1>1, <3>1 DEF Running
    <3>3. index \in Undelivered(n)
      BY <3>2 DEF Undelivered, TypeOK
    <3>4. u # 0
      BY <2>2, <3>3, FS_EmptySet DEF u
    <3> QED
      BY <2>1, <3>4
  <2> QED
    BY <2>3, <2>4, <2>5, <2>6 DEF Signallers
<1>2. RefExact
  BY <1>1 DEF RefExact, Exact
<1> QED
  BY <1>2 DEF IInv

LEMMA InitIInv == Init => IInv
<1> SUFFICES ASSUME Init PROVE IInv
  OBVIOUS
<1>1. \A S : <<>> \in Seq(S)
  OBVIOUS
<1>2. DOMAIN deferred = {} /\ DOMAIN stack = {} /\ Len(deferred) = 0
  BY DEF Init
<1>3. TypeOK
  <2>1. handlers \in [Names -> Seq(Receivers)]
    BY <1>1 DEF Init
  <2>2. deferred \in Seq(Deferred) /\ stack \in Seq(Signalling)
    BY <1>1 DEF Init
  <2>3. index \in 0 .. Len(deferred) + 1
    BY <1>2 DEF Init
  <2> QED
    BY <2>1, <2>2, <2>3 DEF Init, TypeOK
<1>4. Running
  BY <1>2 DEF Init, Running, InFrame
<1>5. ASSUME NEW n \in Names
      PROVE  IsFiniteSet(Attached(n)) /\ Exact(n)
  <2>1. Attached(n) = {} /\ Undelivered(n) = {} /\ SignalsByName(n) = {} /\ n \notin owned
    BY <1>2 DEF Init, Attached, Undelivered, SignalsByName
  <2>2. ref[n] = 0 /\ handlers[n] = <<>>
    BY DEF Init
  <2> QED
    BY <2>1, <2>2, EmptyFacts, FS_EmptySet DEF Exact
<1> QED
  BY <1>3, <1>4, <1>5, ExactIsEnough DEF AllExact

LEMMA ExactIsEnoughNext == TypeOK' /\ Running' /\ AllExact' => IInv'
BY ExactIsEnough, PTL

LEMMA AttachIInv ==
    ASSUME IInv, NEW n \in Names, NEW r \in Receivers, Handler_Attach(n, r)
    PROVE  IInv'
<1> USE DEF Handler_Attach
<1>1. TypeOK /\ n \notin attached[r] /\ UNCHANGED <<owned, deferred, index, stack, calling>>
  BY DEF IInv
<1>2. /\ attached' = [attached EXCEPT ![r] = @ \cup {n}]
      /\ ref' = [ref EXCEPT ![n] = @ + 1]
  BY DEF Acquired
<1>3. r \notin Attached(n) /\ Attached(n)' = Attached(n) \cup {r}
  BY <1>1, <1>2 DEF TypeOK, Attached
<1>4. handlers' = [handlers EXCEPT ![n] = Append(@, r)]
  <2>1. r \notin ToSet(handlers[n])
    BY <1>3 DEF IInv, RefExact
  <2>2. ~Contains(handlers[n], r)
    BY <2>1 DEF Contains, ToSet
  <2> QED
    BY <2>2
<1>5. /\ Append(handlers[n], r) \in Seq(Receivers)
      /\ ToSet(Append(handlers[n], r)) = Attached(n) \cup {r}
      /\ IsInjective(Append(handlers[n], r))
  BY <1>1, <1>3, AppendFacts DEF IInv, RefExact, TypeOK
<1>6. TypeOK'
  <2>1. ref' \in [Names -> Nat]
    BY <1>1, <1>2 DEF TypeOK
  <2>2. handlers' \in [Names -> Seq(Receivers)]
    BY <1>1, <1>4, <1>5 DEF TypeOK
  <2>3. attached' \in [Receivers -> SUBSET Names]
    BY <1>1, <1>2 DEF TypeOK
  <2> QED
    BY <1>1, <2>1, <2>2, <2>3 DEF TypeOK
<1>7. Running'
  BY <1>1 DEF IInv, Running, InFrame
<1>8. ASSUME NEW m \in Names
      PROVE  IsFiniteSet(Attached(m))' /\ Exact(m)'
  <2>1. Undelivered(m)' = Undelivered(m) /\ SignalsByName(m)' = SignalsByName(m)
    BY <1>1 DEF Undelivered, SignalsByName
  <2>2. IsFiniteSet(Attached(m)) /\ Exact(m)
    BY DEF IInv, RefExact, Exact
  <2>3. CASE m = n
    <3>1. /\ IsFiniteSet(Attached(n) \cup {r})
          /\ Cardinality(Attached(n) \cup {r}) = Cardinality(Attached(n)) + 1
      BY <1>3, <2>2, <2>3, FS_AddElement
    <3>2. handlers'[n] = Append(handlers[n], r) /\ ref'[n] = ref[n] + 1
      BY <1>1, <1>2, <1>4 DEF TypeOK
    <3>3. /\ Cardinality(Attached(n)) \in Nat /\ Cardinality(Undelivered(n)) \in Nat
          /\ Cardinality(SignalsByName(n)) \in Nat
      BY <1>1, <2>2, <2>3, CountFacts
    <3>4. ref'[n] = Cardinality(Attached(n)') + (IF n \in owned' THEN 1 ELSE 0)
                    + Cardinality(Undelivered(n)') + Cardinality(SignalsByName(n)')
      <4>1. ref[n] = Cardinality(Attached(n)) + (IF n \in owned THEN 1 ELSE 0)
                     + Cardinality(Undelivered(n)) + Cardinality(SignalsByName(n))
        BY <2>2, <2>3 DEF Exact
      <4>2. (IF n \in owned THEN 1 ELSE 0) \in Nat
        OBVIOUS
      <4>3. Cardinality(Attached(n)') = Cardinality(Attached(n)) + 1
        BY <1>3, <3>1
      <4> QED
        BY <1>1, <2>1, <2>3, <3>2, <3>3, <4>1, <4>2, <4>3
    <3>5. ToSet(handlers'[n]) = Attached(n)' /\ IsInjective(handlers'[n])
      BY <1>3, <1>5, <3>2
    <3>6. IsFiniteSet(Attached(n)')
      BY <1>3, <3>1
    <3> QED
      BY <2>3, <3>4, <3>5, <3>6 DEF Exact
  <2>4. CASE m # n
    <3>1. Attached(m)' = Attached(m)
      BY <1>1, <1>2, <2>4 DEF Attached, TypeOK
    <3>2. handlers'[m] = handlers[m] /\ ref'[m] = ref[m]
      BY <1>1, <1>2, <1>4, <2>4 DEF TypeOK
    <3> QED
      BY <1>1, <2>1, <2>2, <3>1, <3>2 DEF Exact
  <2> QED
    BY <2>3, <2>4
<1>9. AllExact'
  BY <1>8 DEF AllExact
<1> QED
  BY <1>6, <1>7, <1>9, ExactIsEnoughNext

\* An event no operation touches stays exact.
LEMMA OthersExact ==
    ASSUME NEW m \in Names, IsFiniteSet(Attached(m)), Exact(m),
           ref'[m] = ref[m], handlers'[m] = handlers[m], Attached(m)' = Attached(m),
           m \in owned' <=> m \in owned,
           Undelivered(m)' = Undelivered(m), SignalsByName(m)' = SignalsByName(m)
    PROVE  IsFiniteSet(Attached(m))' /\ Exact(m)'
BY DEF Exact

\* The last reference of an event with another holder is not a receiver's.
LEMMA LastReference ==
    ASSUME TypeOK, NEW n \in Names, IsFiniteSet(Attached(n)), Exact(n), ref[n] = 1,
           n \in owned \/ Undelivered(n) # {} \/ SignalsByName(n) # {}
    PROVE  Attached(n) = {}
<1> DEFINE a == Cardinality(Attached(n))
           u == Cardinality(Undelivered(n))
           b == Cardinality(SignalsByName(n))
           o == IF n \in owned THEN 1 ELSE 0
<1>1. a \in Nat /\ u \in Nat /\ b \in Nat /\ a + o + u + b = 1
  BY CountFacts DEF Exact
<1>2. IsFiniteSet(Undelivered(n)) /\ IsFiniteSet(SignalsByName(n))
  BY CountFacts
<1>3. (Undelivered(n) # {} => u # 0) /\ (SignalsByName(n) # {} => b # 0)
  BY <1>2, FS_EmptySet
<1>4. o \in {0, 1} /\ (n \in owned => o = 1)
  OBVIOUS
<1> HIDE DEF u, b, o
<1>5. a = 0
  <2> HIDE DEF a
  <2> QED
    BY <1>1, <1>3, <1>4
<1> QED
  BY <1>5, FS_EmptySet

LEMMA DetachIInv ==
    ASSUME IInv, NEW n \in Names, NEW r \in Receivers, Handler_Detach(n, r)
    PROVE  IInv'
<1> USE DEF Handler_Detach
<1>1. TypeOK /\ n \in attached[r] /\ UNCHANGED <<owned, deferred, index, stack, calling>>
  BY DEF IInv
<1>2. /\ attached' = [attached EXCEPT ![r] = @ \ {n}]
      /\ ref' = [ref EXCEPT ![n] = @ - 1]
      /\ handlers' = [handlers EXCEPT ![n] = IF ref[n] = 1 THEN <<>> ELSE RemoveFirst(@, r)]
  BY DEF Released, Dies
<1>3. r \in Attached(n) /\ Attached(n)' = Attached(n) \ {r}
  BY <1>1, <1>2 DEF TypeOK, Attached
<1>4. IsFiniteSet(Attached(n)) /\ Exact(n)
  BY DEF IInv, RefExact, Exact
<1>5. /\ IsFiniteSet(Attached(n) \ {r})
      /\ Cardinality(Attached(n) \ {r}) = Cardinality(Attached(n)) - 1
  BY <1>3, <1>4, FS_RemoveElement
<1>6. /\ Cardinality(Attached(n)) \in Nat /\ Cardinality(Undelivered(n)) \in Nat
      /\ Cardinality(SignalsByName(n)) \in Nat /\ Cardinality(Attached(n) \ {r}) \in Nat
  BY <1>1, <1>4, <1>5, CountFacts, FS_CardinalityType
<1> DEFINE o == IF n \in owned THEN 1 ELSE 0
<1>7. /\ ref[n] = Cardinality(Attached(n)) + o + Cardinality(Undelivered(n))
                  + Cardinality(SignalsByName(n))
      /\ o \in Nat
  BY <1>4 DEF Exact
<1>8. /\ ref[n] \in Nat /\ ref[n] - 1 \in Nat
      /\ ref[n] - 1 = Cardinality(Attached(n) \ {r}) + o + Cardinality(Undelivered(n))
                      + Cardinality(SignalsByName(n))
  <2> HIDE DEF o
  <2> QED
    BY <1>5, <1>6, <1>7, SMTT(30)
<1>9. /\ handlers'[n] \in Seq(Receivers)
      /\ ToSet(handlers'[n]) = Attached(n) \ {r}
      /\ IsInjective(handlers'[n])
  <2>1. CASE ref[n] = 1
    <3>1. handlers'[n] = <<>>
      BY <1>1, <1>2, <2>1 DEF TypeOK
    <3>2. Cardinality(Attached(n) \ {r}) = 0
      <4> HIDE DEF o
      <4> QED
        BY <1>6, <1>7, <1>8, <2>1, SMTT(30)
    <3>3. Attached(n) \ {r} = {}
      BY <1>5, <3>2, FS_EmptySet
    <3> QED
      BY <3>1, <3>3, EmptyFacts
  <2>2. CASE ref[n] # 1
    <3>1. handlers'[n] = RemoveFirst(handlers[n], r)
      BY <1>1, <1>2, <2>2 DEF TypeOK
    <3>2. /\ handlers[n] \in Seq(Receivers) /\ IsInjective(handlers[n])
          /\ ToSet(handlers[n]) = Attached(n)
      BY <1>1, <1>4 DEF TypeOK, Exact
    <3> QED
      BY <1>3, <3>1, <3>2, RemoveFirstFacts
  <2> QED
    BY <2>1, <2>2
<1>10. TypeOK'
  <2>1. ref' \in [Names -> Nat]
    BY <1>1, <1>2, <1>8 DEF TypeOK
  <2>2. handlers' \in [Names -> Seq(Receivers)]
    BY <1>1, <1>2, <1>9 DEF TypeOK
  <2>3. attached' \in [Receivers -> SUBSET Names]
    BY <1>1, <1>2 DEF TypeOK
  <2> QED
    BY <1>1, <2>1, <2>2, <2>3 DEF TypeOK
<1>11. Running'
  BY <1>1 DEF IInv, Running, InFrame
<1>12. ASSUME NEW m \in Names
       PROVE  IsFiniteSet(Attached(m))' /\ Exact(m)'
  <2>1. Undelivered(m)' = Undelivered(m) /\ SignalsByName(m)' = SignalsByName(m)
    BY <1>1 DEF Undelivered, SignalsByName
  <2>2. IsFiniteSet(Attached(m)) /\ Exact(m)
    BY DEF IInv, RefExact, Exact
  <2>3. CASE m = n
    <3>1. ref'[n] = ref[n] - 1
      BY <1>1, <1>2 DEF TypeOK
    <3> QED
      BY <1>1, <1>3, <1>5, <1>8, <1>9, <2>1, <2>3, <3>1 DEF Exact
  <2>4. CASE m # n
    <3>1. Attached(m)' = Attached(m)
      BY <1>1, <1>2, <2>4 DEF Attached, TypeOK
    <3>2. handlers'[m] = handlers[m] /\ ref'[m] = ref[m]
      BY <1>1, <1>2, <2>4 DEF TypeOK
    <3> QED
      BY <1>1, <2>1, <2>2, <3>1, <3>2, OthersExact
  <2> QED
    BY <2>3, <2>4
<1>13. AllExact'
  BY <1>12 DEF AllExact
<1> QED
  BY <1>10, <1>11, <1>13, ExactIsEnoughNext

LEMMA OwnerIInv ==
    ASSUME IInv, NEW n \in Names, Create(n) \/ Destroy(n)
    PROVE  IInv'
<1>1. /\ TypeOK /\ UNCHANGED <<attached, deferred, index, stack, calling>>
  BY DEF IInv, Create, Destroy
<1>2. IsFiniteSet(Attached(n)) /\ Exact(n)
  BY DEF IInv, RefExact, Exact
<1> DEFINE rest == Cardinality(Attached(n)) + Cardinality(Undelivered(n))
                   + Cardinality(SignalsByName(n))
<1>3. /\ rest \in Nat
      /\ ref[n] = IF n \in owned THEN rest + 1 ELSE rest
  <2>1. /\ Cardinality(Attached(n)) \in Nat /\ Cardinality(Undelivered(n)) \in Nat
        /\ Cardinality(SignalsByName(n)) \in Nat
    BY <1>1, <1>2, CountFacts
  <2>2. ref[n] = Cardinality(Attached(n)) + (IF n \in owned THEN 1 ELSE 0)
                 + Cardinality(Undelivered(n)) + Cardinality(SignalsByName(n))
    BY <1>2 DEF Exact
  <2>3. CASE n \in owned
    BY <2>1, <2>2, <2>3
  <2>4. CASE n \notin owned
    BY <2>1, <2>2, <2>4
  <2> QED
    BY <2>3, <2>4
<1>4. \A m \in Names : Attached(m)' = Attached(m) /\ Undelivered(m)' = Undelivered(m)
                       /\ SignalsByName(m)' = SignalsByName(m)
  BY <1>1 DEF Attached, Undelivered, SignalsByName
<1>5. /\ handlers' \in [Names -> Seq(Receivers)]
      /\ ToSet(handlers'[n]) = Attached(n) /\ IsInjective(handlers'[n])
      /\ \A m \in Names \ {n} : handlers'[m] = handlers[m]
  <2>1. CASE Destroy(n) /\ ref[n] = 1
    <3>1. handlers' = [handlers EXCEPT ![n] = <<>>]
      BY <2>1 DEF Destroy, Dies
    <3>2. Attached(n) = {}
      BY <1>1, <1>2, <2>1, LastReference DEF Destroy
    <3>3. <<>> \in Seq(Receivers) /\ ToSet(<<>>) = {} /\ IsInjective(<<>>)
      BY EmptyFacts
    <3>4. /\ handlers' \in [Names -> Seq(Receivers)] /\ handlers'[n] = <<>>
          /\ \A m \in Names \ {n} : handlers'[m] = handlers[m]
      BY <1>1, <3>1, <3>3 DEF TypeOK
    <3> QED
      BY <3>2, <3>3, <3>4
  <2>2. CASE ~(Destroy(n) /\ ref[n] = 1)
    <3>1. handlers' = handlers
      BY <1>1, <2>2 DEF Create, Destroy, Dies, TypeOK
    <3> QED
      BY <1>1, <1>2, <3>1 DEF Exact, TypeOK
  <2> QED
    BY <2>1, <2>2
<1>6. /\ ref'[n] = IF n \in owned' THEN rest + 1 ELSE rest
      /\ ref' \in [Names -> Nat]
      /\ \A m \in Names \ {n} : ref'[m] = ref[m] /\ (m \in owned' <=> m \in owned)
      /\ owned' \in SUBSET Names
  <2> HIDE DEF rest
  <2>1. CASE Create(n)
    BY <1>1, <1>3, <2>1 DEF Create, Acquired, TypeOK
  <2>2. CASE Destroy(n)
    BY <1>1, <1>3, <2>2 DEF Destroy, Released, TypeOK
  <2> QED
    BY <2>1, <2>2
<1>7. TypeOK'
  BY <1>1, <1>5, <1>6 DEF TypeOK
<1>8. Running'
  BY <1>1 DEF IInv, Running, InFrame, Create, Destroy
<1>9. ASSUME NEW m \in Names
      PROVE  IsFiniteSet(Attached(m))' /\ Exact(m)'
  <2>1. IsFiniteSet(Attached(m)) /\ Exact(m)
    BY DEF IInv, RefExact, Exact
  <2>2. CASE m = n
    <3>1. /\ Cardinality(Attached(n)) \in Nat /\ Cardinality(Undelivered(n)) \in Nat
          /\ Cardinality(SignalsByName(n)) \in Nat
      BY <1>1, <1>2, CountFacts
    <3> QED
      BY <1>2, <1>4, <1>5, <1>6, <2>2, <3>1 DEF Exact
  <2>3. CASE m # n
    BY <1>4, <1>5, <1>6, <2>1, <2>3, OthersExact
  <2> QED
    BY <2>2, <2>3
<1>10. AllExact'
  BY <1>9 DEF AllExact
<1> QED
  BY <1>7, <1>8, <1>10, ExactIsEnoughNext

\* Append of a record to the deferred events or to the running signals.
LEMMA PushFacts ==
    ASSUME NEW S, NEW s \in Seq(S), NEW e \in S
    PROVE  /\ Append(s, e) \in Seq(S) /\ Len(Append(s, e)) = Len(s) + 1
           /\ DOMAIN s = 1 .. Len(s) /\ Len(s) \in Nat
           /\ DOMAIN Append(s, e) = DOMAIN s \cup {Len(s) + 1}
           /\ Len(s) + 1 \notin DOMAIN s
           /\ Append(s, e)[Len(s) + 1] = e
           /\ \A k \in DOMAIN s : Append(s, e)[k] = s[k]
<1>1. /\ Append(s, e) \in Seq(S) /\ Len(Append(s, e)) = Len(s) + 1
      /\ Append(s, e)[Len(s) + 1] = e
      /\ \A k \in 1 .. Len(s) : Append(s, e)[k] = s[k]
      /\ DOMAIN s = 1 .. Len(s) /\ Len(s) \in Nat
  OBVIOUS
<1>2. DOMAIN Append(s, e) = 1 .. Len(Append(s, e))
  BY <1>1
<1> QED
  BY <1>1, <1>2

\* The steps that take a reference: one more entry or signal, or none.
LEMMA DeferIInv ==
    ASSUME IInv, NEW n \in Names, Defer(n)
    PROVE  IInv'
<1> DEFINE e == [name |-> n, live |-> TRUE]
<1>1. /\ TypeOK /\ UNCHANGED <<handlers, attached, owned, index, stack, calling>>
      /\ deferred' = Append(deferred, e) /\ ref' = [ref EXCEPT ![n] = @ + 1]
  BY DEF IInv, Defer, Acquired
<1>2. e \in Deferred /\ e.name = n
  BY DEF Deferred
<1> HIDE DEF e
<1>3. deferred \in Seq(Deferred)
  BY <1>1 DEF TypeOK
<1>4. /\ deferred' \in Seq(Deferred) /\ Len(deferred') = Len(deferred) + 1
      /\ DOMAIN deferred = 1 .. Len(deferred) /\ Len(deferred) \in Nat
      /\ DOMAIN deferred' = DOMAIN deferred \cup {Len(deferred) + 1}
      /\ Len(deferred) + 1 \notin DOMAIN deferred
      /\ deferred'[Len(deferred) + 1].name = n
      /\ \A k \in DOMAIN deferred : deferred'[k] = deferred[k]
  BY <1>1, <1>2, <1>3, PushFacts
<1>5. TypeOK'
  <2>1. ref' \in [Names -> Nat]
    BY <1>1 DEF TypeOK
  <2>2. index \in 0 .. Len(deferred')  + 1
    BY <1>1, <1>4 DEF TypeOK
  <2> QED
    BY <1>1, <1>4, <2>1, <2>2 DEF TypeOK
<1>6. Running'
  <2>1. deferred' # <<>>
    BY <1>4
  <2>2. UNCHANGED InFrame
    BY <1>1 DEF InFrame
  <2> QED
    BY <1>1, <1>4, <2>1, <2>2 DEF IInv, Running
<1>7. ASSUME NEW m \in Names
      PROVE  IsFiniteSet(Attached(m))' /\ Exact(m)'
  <2>1. IsFiniteSet(Attached(m)) /\ Exact(m)
    BY DEF IInv, RefExact, Exact
  <2>2. Attached(m)' = Attached(m) /\ SignalsByName(m)' = SignalsByName(m)
    BY <1>1 DEF Attached, SignalsByName
  <2>3. CASE m = n
    <3>1. Undelivered(m)' = Undelivered(m) \cup {Len(deferred) + 1}
      <4>1. Len(deferred) + 1 >= index
        BY <1>1, <1>4 DEF TypeOK
      <4> QED
        BY <1>1, <1>4, <2>3, <4>1 DEF Undelivered
    <3>2. Len(deferred) + 1 \notin Undelivered(m)
      BY <1>4 DEF Undelivered
    <3>3. /\ Cardinality(Attached(m)) \in Nat /\ Cardinality(Undelivered(m)) \in Nat
          /\ Cardinality(SignalsByName(m)) \in Nat /\ IsFiniteSet(Undelivered(m))
      BY <1>1, <2>1, CountFacts
    <3>4. Cardinality(Undelivered(m)') = Cardinality(Undelivered(m)) + 1
      BY <3>1, <3>2, <3>3, FS_AddElement
    <3>5. ref'[m] = ref[m] + 1 /\ handlers'[m] = handlers[m]
      BY <1>1, <2>3 DEF TypeOK
    <3> DEFINE o == IF m \in owned THEN 1 ELSE 0
    <3>6. /\ ref[m] = Cardinality(Attached(m)) + o + Cardinality(Undelivered(m))
                      + Cardinality(SignalsByName(m))
          /\ o \in Nat
      BY <2>1 DEF Exact
    <3>7. ref'[m] = Cardinality(Attached(m)) + o + Cardinality(Undelivered(m)')
                    + Cardinality(SignalsByName(m))
      <4> HIDE DEF o
      <4> QED
        BY <3>3, <3>4, <3>5, <3>6
    <3> QED
      BY <1>1, <2>1, <2>2, <3>5, <3>7 DEF Exact
  <2>4. CASE m # n
    <3>1. Undelivered(m)' = Undelivered(m)
      BY <1>1, <1>4, <2>4 DEF Undelivered
    <3>2. ref'[m] = ref[m] /\ handlers'[m] = handlers[m]
      BY <1>1, <2>4 DEF TypeOK
    <3> QED
      BY <1>1, <2>1, <2>2, <3>1, <3>2, OthersExact
  <2> QED
    BY <2>3, <2>4
<1>8. AllExact'
  BY <1>7 DEF AllExact
<1> QED
  BY <1>5, <1>6, <1>8, ExactIsEnoughNext

LEMMA SignalIInv ==
    ASSUME IInv, NEW n \in Names, NEW by \in {"name", "owner"}, Signal(n, by)
    PROVE  IInv'
<1> DEFINE e == [name |-> n, pos |-> 1, by |-> by]
<1>1. /\ TypeOK /\ UNCHANGED <<handlers, attached, owned, deferred, index>>
      /\ stack' = Append(stack, e) /\ calling' = FALSE
      /\ ref' = IF by = "name" THEN [ref EXCEPT ![n] = @ + 1] ELSE ref
      /\ by = "owner" => n \in owned
      /\ ClientsTurn
  BY DEF IInv, Signal, Acquired
<1>2. e \in Signalling /\ e.name = n /\ e.by = by
  BY DEF Signalling, Signallers
<1> HIDE DEF e
<1>3. stack \in Seq(Signalling)
  BY <1>1 DEF TypeOK
<1>4. /\ stack' \in Seq(Signalling)
      /\ DOMAIN stack = 1 .. Len(stack) /\ Len(stack) \in Nat
      /\ DOMAIN stack' = DOMAIN stack \cup {Len(stack) + 1}
      /\ Len(stack) + 1 \notin DOMAIN stack
      /\ stack'[Len(stack) + 1] = e
      /\ \A k \in DOMAIN stack : stack'[k] = stack[k]
  BY <1>1, <1>2, <1>3, PushFacts
<1>5. TypeOK'
  <2>1. ref' \in [Names -> Nat]
    BY <1>1 DEF TypeOK
  <2> QED
    BY <1>1, <1>4, <2>1 DEF TypeOK
<1>6. Running'
  <2>1. CASE stack = <<>>
    <3>1. stack'[1] = e /\ DOMAIN stack' = {1}
      BY <1>4, <2>1
    <3>2. index = 0 /\ ~InFrame'
      BY <1>1, <1>2, <2>1, <3>1 DEF ClientsTurn, IInv, Running, InFrame
    <3> QED
      BY <1>1, <1>2, <3>1, <3>2 DEF Running
  <2>2. CASE stack # <<>>
    <3>1. 1 \in DOMAIN stack /\ stack'[1] = stack[1] /\ stack' # <<>>
      BY <1>3, <1>4, <2>2
    <3>2. InFrame' = InFrame
      BY <2>2, <3>1 DEF InFrame
    <3> QED
      BY <1>1, <1>2, <1>4, <2>2, <3>1, <3>2 DEF IInv, Running
  <2> QED
    BY <2>1, <2>2
<1>7. ASSUME NEW m \in Names
      PROVE  IsFiniteSet(Attached(m))' /\ Exact(m)'
  <2>1. IsFiniteSet(Attached(m)) /\ Exact(m)
    BY DEF IInv, RefExact, Exact
  <2>2. Attached(m)' = Attached(m) /\ Undelivered(m)' = Undelivered(m)
    BY <1>1 DEF Attached, Undelivered
  <2>3. CASE m = n /\ by = "name"
    <3>1. SignalsByName(m)' = SignalsByName(m) \cup {Len(stack) + 1}
      BY <1>2, <1>4, <2>3 DEF SignalsByName
    <3>2. Len(stack) + 1 \notin SignalsByName(m)
      BY <1>4 DEF SignalsByName
    <3>3. /\ Cardinality(Attached(m)) \in Nat /\ Cardinality(Undelivered(m)) \in Nat
          /\ Cardinality(SignalsByName(m)) \in Nat /\ IsFiniteSet(SignalsByName(m))
      BY <1>1, <2>1, CountFacts
    <3>4. Cardinality(SignalsByName(m)') = Cardinality(SignalsByName(m)) + 1
      BY <3>1, <3>2, <3>3, FS_AddElement
    <3>5. ref'[m] = ref[m] + 1 /\ handlers'[m] = handlers[m]
      BY <1>1, <2>3 DEF TypeOK
    <3> DEFINE o == IF m \in owned THEN 1 ELSE 0
    <3>6. /\ ref[m] = Cardinality(Attached(m)) + o + Cardinality(Undelivered(m))
                      + Cardinality(SignalsByName(m))
          /\ o \in Nat
      BY <2>1 DEF Exact
    <3>7. ref'[m] = Cardinality(Attached(m)) + o + Cardinality(Undelivered(m))
                    + Cardinality(SignalsByName(m)')
      <4> HIDE DEF o
      <4> QED
        BY <3>3, <3>4, <3>5, <3>6
    <3> QED
      BY <1>1, <2>1, <2>2, <3>5, <3>7 DEF Exact
  <2>4. CASE ~(m = n /\ by = "name")
    <3>1. SignalsByName(m)' = SignalsByName(m)
      BY <1>2, <1>4, <2>4 DEF SignalsByName
    <3>2. ref'[m] = ref[m] /\ handlers'[m] = handlers[m]
      BY <1>1, <2>4 DEF TypeOK
    <3> QED
      BY <1>1, <2>1, <2>2, <3>1, <3>2, OthersExact
  <2> QED
    BY <2>3, <2>4
<1>8. AllExact'
  BY <1>7 DEF AllExact
<1> QED
  BY <1>5, <1>6, <1>8, ExactIsEnoughNext

\* The steps that hold on to what there is.
LEMMA KeepIInv ==
    ASSUME IInv, Call \/ Return \/ OnFrame \/ SignalDeferred \/ EndFrame
    PROVE  IInv'
<1>1. TypeOK /\ Running /\ UNCHANGED <<ref, handlers, attached, owned>>
  BY DEF IInv, Call, Return, OnFrame, SignalDeferred, EndFrame
<1>2. /\ DOMAIN stack = 1 .. Len(stack) /\ Len(stack) \in Nat
      /\ DOMAIN deferred = 1 .. Len(deferred) /\ Len(deferred) \in Nat
      /\ stack \in Seq(Signalling) /\ deferred \in Seq(Deferred) /\ index \in 0 .. Len(deferred) + 1
  BY <1>1 DEF TypeOK
<1> DEFINE Kept == /\ TypeOK' /\ Running'
                   /\ \A m \in Names : /\ Undelivered(m)' = Undelivered(m)
                                       /\ SignalsByName(m)' = SignalsByName(m)
<1>3. ASSUME Call
      PROVE  Kept
  <2>1. UNCHANGED <<deferred, index, stack>> /\ calling' = TRUE /\ stack # <<>>
    BY <1>3 DEF Call, InLoop
  <2> QED
    BY <1>1, <2>1 DEF TypeOK, Running, InFrame, Undelivered, SignalsByName
<1>4. ASSUME Return
      PROVE  Kept
  <2>1. /\ UNCHANGED <<deferred, index>> /\ calling' = FALSE /\ stack # <<>>
        /\ stack' = [stack EXCEPT ![Len(stack)].pos = @ + 1]
    BY <1>1, <1>4 DEF Return, Running
  <2>2. Len(stack) \in 1 .. Len(stack)
    BY <1>2, <2>1
  <2>3. stack[Len(stack)] \in Signalling
    BY <1>2, <2>2
  <2> DEFINE e == [stack[Len(stack)] EXCEPT !.pos = @ + 1]
  <2>4. e \in Signalling /\ e.name = stack[Len(stack)].name /\ e.by = stack[Len(stack)].by
    BY <2>3 DEF Signalling
  <2>5. stack' = [stack EXCEPT ![Len(stack)] = e]
    BY <2>1
  <2> HIDE DEF e
  <2>6. /\ stack' \in Seq(Signalling) /\ Len(stack') = Len(stack)
        /\ \A j \in 1 .. Len(stack) : stack'[j] = IF j = Len(stack) THEN e ELSE stack[j]
    BY <1>2, <2>2, <2>4, <2>5, ExceptSeq, SMTT(30)
  <2>7. /\ DOMAIN stack' = DOMAIN stack
        /\ \A j \in DOMAIN stack : stack'[j].name = stack[j].name /\ stack'[j].by = stack[j].by
    <3>1. DOMAIN stack' = 1 .. Len(stack')
      BY <2>6
    <3>2. \A j \in 1 .. Len(stack) :
             stack'[j].name = stack[j].name /\ stack'[j].by = stack[j].by
      BY <2>4, <2>6
    <3> QED
      BY <1>2, <2>6, <3>1, <3>2
  <2>8. stack' # <<>> /\ stack'[1].by = stack[1].by /\ stack'[1].name = stack[1].name
    <3>1. 1 \in DOMAIN stack /\ Len(stack') # 0 /\ Len(<<>>) = 0
      BY <1>2, <2>1, <2>6
    <3> QED
      BY <2>7, <3>1
  <2>9. TypeOK'
    BY <1>1, <2>1, <2>6 DEF TypeOK
  <2>10. Running'
    BY <1>1, <2>1, <2>7, <2>8 DEF Running, InFrame
  <2> QED
    BY <2>1, <2>7, <2>9, <2>10 DEF Undelivered, SignalsByName
<1>5. ASSUME OnFrame
      PROVE  Kept
  <2>1. /\ index = 0 /\ stack = <<>> /\ deferred # <<>> /\ index' = 1
        /\ UNCHANGED <<deferred, stack, calling>>
    BY <1>5 DEF OnFrame
  <2>2. Running'
    BY <1>1, <2>1 DEF Running, InFrame
  <2>3. TypeOK'
    BY <1>1, <1>2, <2>1 DEF TypeOK
  <2> QED
    BY <1>2, <2>1, <2>2, <2>3 DEF Undelivered, SignalsByName
<1>6. ASSUME SignalDeferred
      PROVE  Kept
  <2> DEFINE e == [name |-> deferred[index].name, pos |-> 1, by |-> "frame"]
  <2>1. /\ index \in DOMAIN deferred /\ stack = <<>> /\ stack' = <<e>>
        /\ UNCHANGED <<deferred, index, calling>>
    BY <1>2, <1>6 DEF SignalDeferred, Left
  <2>2. deferred[index].name \in Names
    BY <1>1, <1>2, <2>1, StackFacts
  <2>3. e \in Signalling /\ e.by = "frame" /\ e.name = deferred[index].name
    BY <2>2 DEF Signalling, Signallers
  <2> HIDE DEF e
  <2>4. stack' \in Seq(Signalling) /\ DOMAIN stack' = {1} /\ stack'[1] = e /\ stack' # <<>>
    BY <2>1, <2>3
  <2>5. DOMAIN stack = {}
    BY <2>1
  <2>6. TypeOK'
    BY <1>1, <2>1, <2>4 DEF TypeOK
  <2>7. Running'
    BY <1>1, <2>1, <2>3, <2>4 DEF Running, InFrame
  <2>8. \A m \in Names : SignalsByName(m)' = {} /\ SignalsByName(m) = {}
    BY <2>3, <2>4, <2>5 DEF SignalsByName
  <2> QED
    BY <2>1, <2>6, <2>7, <2>8 DEF Undelivered
<1>7. ASSUME EndFrame
      PROVE  Kept
  <2>1. /\ index > Len(deferred) /\ stack = <<>> /\ deferred' = <<>> /\ index' = 0
        /\ UNCHANGED <<stack, calling>>
    BY <1>2, <1>7 DEF EndFrame, Left
  <2>2. deferred' \in Seq(Deferred) /\ Len(deferred') = 0 /\ DOMAIN deferred' = {}
    BY <2>1
  <2>3. TypeOK'
    BY <1>1, <2>1, <2>2 DEF TypeOK
  <2>4. Running'
    BY <1>1, <2>1 DEF Running, InFrame
  <2>5. \A m \in Names : Undelivered(m) = {} /\ Undelivered(m)' = {}
    BY <1>2, <2>1, <2>2 DEF Undelivered
  <2> QED
    BY <2>1, <2>3, <2>4, <2>5 DEF SignalsByName
<1>8. Kept
  BY <1>3, <1>4, <1>5, <1>6, <1>7
<1>9. ASSUME NEW m \in Names
      PROVE  IsFiniteSet(Attached(m))' /\ Exact(m)'
  <2>1. IsFiniteSet(Attached(m)) /\ Exact(m)
    BY DEF IInv, RefExact, Exact
  <2>2. Attached(m)' = Attached(m)
    BY <1>1 DEF Attached
  <2> QED
    BY <1>1, <1>8, <2>1, <2>2, OthersExact
<1>10. AllExact'
  BY <1>9 DEF AllExact
<1> QED
  BY <1>8, <1>10, ExactIsEnoughNext

\* The end of a signal: by name it lets go of its own reference, from OnFrame of that
\* of the entry.
LEMMA EndSignalIInv ==
    ASSUME IInv, EndSignal
    PROVE  IInv'
<1>1. TypeOK /\ Running /\ UNCHANGED <<attached, owned>> /\ stack # <<>> /\ stack' = Front(stack)
  BY DEF IInv, EndSignal, InLoop
<1>2. Len(stack) \in Nat /\ Len(stack) \in 1 .. Len(stack)
  BY <1>1, SMTT(30) DEF TypeOK
<1>3. PICK last \in Nat, n \in Names, by \in Signallers :
         last = Len(stack) /\ n = stack[last].name /\ by = stack[last].by
  BY <1>1, <1>2, StackFacts
<1>4. /\ DOMAIN stack = 1 .. last /\ last \in 1 .. last /\ last \in Nat
      /\ stack \in Seq(Signalling) /\ deferred \in Seq(Deferred)
      /\ DOMAIN deferred = 1 .. Len(deferred) /\ Len(deferred) \in Nat
      /\ index \in 0 .. Len(deferred) + 1
  BY <1>1, <1>2, <1>3 DEF TypeOK
<1>5. n \in Names /\ by \in Signallers
  OBVIOUS
<1>6. /\ stack' \in Seq(Signalling) /\ Len(stack') = last - 1
      /\ DOMAIN stack' = 1 .. last - 1
      /\ \A k \in 1 .. last - 1 : stack'[k] = stack[k]
  <2>1. SubSeq(stack, 1, last - 1) \in Seq(Signalling) /\ Len(SubSeq(stack, 1, last - 1)) = last - 1
        /\ \A k \in 1 .. last - 1 : SubSeq(stack, 1, last - 1)[k] = stack[k]
    BY <1>4
  <2>2. stack' = SubSeq(stack, 1, last - 1)
    BY <1>1, <1>3 DEF Front
  <2> QED
    BY <2>1, <2>2
<1>7. /\ IF by # "owner" THEN /\ ref' = [ref EXCEPT ![n] = @ - 1]
                              /\ handlers' = [handlers EXCEPT ![n] = IF ref[n] = 1 THEN <<>> ELSE @]
                         ELSE UNCHANGED <<ref, handlers>>
      /\ IF by = "frame" THEN /\ deferred' = [deferred EXCEPT ![index].live = ~(ref[n] = 1)]
                              /\ index' = index + 1
                         ELSE UNCHANGED <<deferred, index>>
      /\ calling' = (last > 1)
  BY <1>3 DEF EndSignal, Top, Releases, Released, Dies
<1>8. by = "frame" => last = 1 /\ InFrame /\ index \in DOMAIN deferred /\ deferred[index].name = n
  BY <1>1, <1>4, <1>3 DEF Running, InFrame
<1>9. /\ deferred' \in Seq(Deferred) /\ DOMAIN deferred' = DOMAIN deferred
      /\ Len(deferred') = Len(deferred)
      /\ \A k \in DOMAIN deferred : deferred'[k].name = deferred[k].name
  <2>1. CASE by = "frame"
    <3> DEFINE e == [deferred[index] EXCEPT !.live = ~(ref[n] = 1)]
    <3>1. deferred[index] \in Deferred
      BY <1>4, <1>8, <2>1
    <3>2. e \in Deferred /\ e.name = deferred[index].name
      BY <3>1 DEF Deferred
    <3>3. deferred' = [deferred EXCEPT ![index] = e]
      BY <1>7, <2>1
    <3> HIDE DEF e
    <3>4. /\ deferred' \in Seq(Deferred) /\ Len(deferred') = Len(deferred)
          /\ \A j \in 1 .. Len(deferred) : deferred'[j] = IF j = index THEN e ELSE deferred[j]
      BY <1>4, <1>8, <2>1, <3>2, <3>3, ExceptSeq
    <3> QED
      BY <1>4, <3>2, <3>4
  <2>2. CASE by # "frame"
    BY <1>4, <1>7, <2>2
  <2> QED
    BY <2>1, <2>2
<1>10. IsFiniteSet(Attached(n)) /\ Exact(n)
  BY <1>5 DEF IInv, RefExact, Exact
<1>11. by = "name" => last \in SignalsByName(n)
  BY <1>4, <1>3 DEF SignalsByName
<1>12. by = "frame" => index \in Undelivered(n)
  BY <1>4, <1>8 DEF Undelivered
<1>13. handlers' \in [Names -> Seq(Receivers)] /\ ToSet(handlers'[n]) = Attached(n)
       /\ IsInjective(handlers'[n]) /\ \A m \in Names \ {n} : handlers'[m] = handlers[m]
  <2>1. CASE by # "owner" /\ ref[n] = 1
    <3>1. Attached(n) = {}
      <4>1. by = "name" \/ by = "frame"
        BY <1>5, <2>1 DEF Signallers
      <4> QED
        BY <1>1, <1>5, <1>10, <1>11, <1>12, <2>1, <4>1, LastReference
    <3>2. handlers' = [handlers EXCEPT ![n] = <<>>]
      BY <1>7, <2>1
    <3>3. <<>> \in Seq(Receivers) /\ ToSet(<<>>) = {} /\ IsInjective(<<>>)
      BY EmptyFacts
    <3>4. /\ handlers' \in [Names -> Seq(Receivers)] /\ handlers'[n] = <<>>
          /\ \A m \in Names \ {n} : handlers'[m] = handlers[m]
      BY <1>1, <1>5, <3>2, <3>3 DEF TypeOK
    <3> QED
      BY <3>1, <3>3, <3>4
  <2>2. CASE ~(by # "owner" /\ ref[n] = 1)
    <3>1. handlers' = handlers
      BY <1>1, <1>5, <1>7, <2>2 DEF TypeOK
    <3> QED
      BY <1>1, <1>5, <1>10, <3>1 DEF Exact, TypeOK
  <2> QED
    BY <2>1, <2>2
<1> DEFINE o == IF n \in owned THEN 1 ELSE 0
<1>14. /\ Cardinality(Attached(n)) \in Nat /\ Cardinality(Undelivered(n)) \in Nat
       /\ Cardinality(SignalsByName(n)) \in Nat /\ o \in Nat
       /\ IsFiniteSet(Undelivered(n)) /\ IsFiniteSet(SignalsByName(n))
       /\ ref[n] = Cardinality(Attached(n)) + o + Cardinality(Undelivered(n))
                   + Cardinality(SignalsByName(n))
  BY <1>1, <1>5, <1>10, CountFacts DEF Exact
<1>15. ASSUME NEW m \in Names
       PROVE  /\ SignalsByName(m)' = IF m = n /\ by = "name" THEN SignalsByName(m) \ {last}
                                                            ELSE SignalsByName(m)
              /\ Undelivered(m)' = IF m = n /\ by = "frame" THEN Undelivered(m) \ {index}
                                                            ELSE Undelivered(m)
  <2>1. 1 .. last = (1 .. last - 1) \cup {last} /\ last \notin 1 .. last - 1
    BY <1>4
  <2>2. SignalsByName(m)' = SignalsByName(m) \ {last}
    BY <1>4, <1>6, <2>1 DEF SignalsByName
  <2>3. ~(m = n /\ by = "name") => last \notin SignalsByName(m)
    BY <1>3 DEF SignalsByName
  <2>4. CASE by = "frame"
    <3>1. Undelivered(m)' = Undelivered(m) \ {index}
      BY <1>4, <1>7, <1>8, <1>9, <2>4 DEF Undelivered
    <3>2. m # n => index \notin Undelivered(m)
      BY <1>8, <2>4 DEF Undelivered
    <3> QED
      BY <2>2, <2>3, <2>4, <3>1, <3>2
  <2>5. CASE by # "frame"
    <3>1. Undelivered(m)' = Undelivered(m)
      BY <1>7, <2>5 DEF Undelivered
    <3> QED
      BY <2>2, <2>3, <2>5, <3>1
  <2> QED
    BY <2>4, <2>5
<1>16. /\ ref' \in [Names -> Nat]
       /\ ref'[n] = Cardinality(Attached(n)) + o + Cardinality(Undelivered(n)')
                    + Cardinality(SignalsByName(n)')
       /\ \A m \in Names \ {n} : ref'[m] = ref[m]
  <2> HIDE DEF o
  <2>1. CASE by = "name"
    <3>1. SignalsByName(n)' = SignalsByName(n) \ {last} /\ Undelivered(n)' = Undelivered(n)
      BY <1>5, <1>15, <2>1
    <3>2. Cardinality(SignalsByName(n)') = Cardinality(SignalsByName(n)) - 1
          /\ Cardinality(SignalsByName(n)) - 1 \in Nat
      <4>1. /\ IsFiniteSet(SignalsByName(n) \ {last})
            /\ Cardinality(SignalsByName(n) \ {last}) = Cardinality(SignalsByName(n)) - 1
        BY <1>11, <1>14, <2>1, FS_RemoveElement
      <4>2. Cardinality(SignalsByName(n) \ {last}) \in Nat
        BY <4>1, FS_CardinalityType
      <4> QED
        BY <3>1, <4>1, <4>2
    <3>3. ref[n] - 1 = Cardinality(Attached(n)) + o + Cardinality(Undelivered(n)')
                       + Cardinality(SignalsByName(n)') /\ ref[n] - 1 \in Nat
      BY <1>14, <3>1, <3>2
    <3> QED
      BY <1>1, <1>5, <1>7, <2>1, <3>3 DEF TypeOK
  <2>2. CASE by = "frame"
    <3>1. SignalsByName(n)' = SignalsByName(n) /\ Undelivered(n)' = Undelivered(n) \ {index}
      BY <1>5, <1>15, <2>2
    <3>2. Cardinality(Undelivered(n)') = Cardinality(Undelivered(n)) - 1
          /\ Cardinality(Undelivered(n)) - 1 \in Nat
      <4>1. /\ IsFiniteSet(Undelivered(n) \ {index})
            /\ Cardinality(Undelivered(n) \ {index}) = Cardinality(Undelivered(n)) - 1
        BY <1>12, <1>14, <2>2, FS_RemoveElement
      <4>2. Cardinality(Undelivered(n) \ {index}) \in Nat
        BY <4>1, FS_CardinalityType
      <4> QED
        BY <3>1, <4>1, <4>2
    <3>3. ref[n] - 1 = Cardinality(Attached(n)) + o + Cardinality(Undelivered(n)')
                       + Cardinality(SignalsByName(n)') /\ ref[n] - 1 \in Nat
      BY <1>14, <3>1, <3>2
    <3> QED
      BY <1>1, <1>5, <1>7, <2>2, <3>3 DEF TypeOK
  <2>3. CASE by = "owner"
    BY <1>1, <1>5, <1>7, <1>14, <1>15, <2>3 DEF TypeOK
  <2> QED
    BY <1>5, <2>1, <2>2, <2>3 DEF Signallers
<1>17. TypeOK'
  <2>1. index' \in 0 .. Len(deferred') + 1
    BY <1>4, <1>7, <1>8, <1>9
  <2>2. calling' \in BOOLEAN
    BY <1>4, <1>7
  <2> QED
    BY <1>1, <1>6, <1>9, <1>13, <1>16, <2>1, <2>2 DEF TypeOK
<1>18. Running'
  <2>1. calling' => stack' # <<>>
    <3>1. Len(<<>>) = 0 /\ (last > 1 => Len(stack') # 0)
      BY <1>4, <1>6
    <3> QED
      BY <1>7, <3>1
  <2>2. index' > 0 => deferred' # <<>>
    <3>1. index' > 0 => index > 0 \/ by = "frame"
      BY <1>7
    <3>2. index' > 0 => deferred # <<>>
      BY <1>1, <1>4, <1>8, <3>1 DEF Running
    <3> QED
      BY <1>4, <1>9, <3>2
  <2>3. CASE last = 1
    <3>1. stack' = <<>> /\ DOMAIN stack' = {}
      BY <1>6, <2>3
    <3> QED
      BY <2>1, <2>2, <3>1 DEF Running, InFrame
  <2>4. CASE last # 1
    <3>1. 1 \in 1 .. last - 1 /\ stack'[1] = stack[1] /\ stack' # <<>>
      BY <1>4, <1>6, <2>4
    <3>2. by # "frame" /\ UNCHANGED <<deferred, index>>
      BY <1>7, <1>8, <2>4
    <3>3. InFrame' = InFrame
      BY <1>1, <3>1 DEF InFrame
    <3>4. \A k \in DOMAIN stack' : k \in DOMAIN stack /\ stack'[k] = stack[k]
      BY <1>4, <1>6
    <3> QED
      BY <1>1, <2>1, <2>2, <3>1, <3>2, <3>3, <3>4 DEF Running
  <2> QED
    BY <2>3, <2>4
<1>19. ASSUME NEW m \in Names
       PROVE  IsFiniteSet(Attached(m))' /\ Exact(m)'
  <2>1. IsFiniteSet(Attached(m)) /\ Exact(m)
    BY DEF IInv, RefExact, Exact
  <2>2. Attached(m)' = Attached(m)
    BY <1>1 DEF Attached
  <2>3. CASE m = n
    BY <1>1, <1>13, <1>16, <2>1, <2>2, <2>3 DEF Exact
  <2>4. CASE m # n
    BY <1>1, <1>13, <1>15, <1>16, <2>1, <2>2, <2>4, OthersExact
  <2> QED
    BY <2>3, <2>4
<1>20. AllExact'
  BY <1>19 DEF AllExact
<1> QED
  BY <1>17, <1>18, <1>20, ExactIsEnoughNext

LEMMA NextIInv == IInv /\ [Next]_eventVars => IInv'
<1> SUFFICES ASSUME IInv, [Next]_eventVars PROVE IInv'
  OBVIOUS
<1>1. ASSUME NEW n \in Names, NEW r \in Receivers, Handler_Attach(n, r) \/ Handler_Detach(n, r)
      PROVE  IInv'
  BY <1>1, AttachIInv, DetachIInv
<1>2. ASSUME NEW n \in Names, Create(n) \/ Destroy(n)
      PROVE  IInv'
  BY <1>2, OwnerIInv
<1>3. ASSUME NEW n \in Names, Defer(n)
      PROVE  IInv'
  BY <1>3, DeferIInv
<1>4. ASSUME NEW n \in Names, Signal(n, "name") \/ Signal(n, "owner")
      PROVE  IInv'
  BY <1>4, SignalIInv
<1>5. CASE Call \/ Return \/ OnFrame \/ SignalDeferred \/ EndFrame
  BY <1>5, KeepIInv
<1>6. CASE EndSignal
  BY <1>6, EndSignalIInv
<1>7. CASE UNCHANGED eventVars
  <2>1. TypeOK' /\ Running'
    BY <1>7 DEF eventVars, IInv, TypeOK, Running, InFrame
  <2>2. ASSUME NEW n \in Names
        PROVE  IsFiniteSet(Attached(n))' /\ Exact(n)'
    <3>1. /\ Attached(n)' = Attached(n) /\ Undelivered(n)' = Undelivered(n)
          /\ SignalsByName(n)' = SignalsByName(n)
      BY <1>7 DEF eventVars, Attached, Undelivered, SignalsByName
    <3>2. IsFiniteSet(Attached(n)) /\ Exact(n)
      BY DEF IInv, RefExact, Exact
    <3> QED
      BY <1>7, <3>1, <3>2, OthersExact DEF eventVars
  <2> QED
    BY <2>1, <2>2, ExactIsEnoughNext DEF AllExact
<1> QED
  BY <1>1, <1>2, <1>3, <1>4, <1>5, <1>6, <1>7 DEF Next

\* The invariant of the events and of those that hold them.
THEOREM Invariant == Spec => []IInv
<1> QED
  BY InitIInv, NextIInv, PTL DEF Spec

\* The counts never fall below 0, and OnFrame stays in Events_Deferred.
THEOREM TypeCorrect == Spec => []TypeOK
<1>1. IInv => TypeOK
  BY DEF IInv
<1> QED
  BY <1>1, Invariant, PTL

\* The count of an event is the number of those that hold it, and its handlers are the
\* receivers attached to it, each once, whatever handlers call inside one another.
THEOREM CountsExact == Spec => []RefExact
<1>1. IInv => RefExact
  BY DEF IInv
<1> QED
  BY <1>1, Invariant, PTL

-----------------------------------------------------------------------------
(* EventAPI implements EventQueueSpec.                                     *)

NamesOf(entries) == [k \in DOMAIN entries |-> entries[k].name]
Begun == IF InFrame \/ index = 0 THEN index ELSE index - 1

LEMMA NamesOfType ==
    ASSUME NEW s \in Seq(Deferred)
    PROVE  /\ NamesOf(s) \in Seq(Names) /\ Len(NamesOf(s)) = Len(s) /\ Len(s) \in Nat
           /\ DOMAIN s = 1 .. Len(s)
           /\ \A k \in 1 .. Len(s) : NamesOf(s)[k] = s[k].name
<1>1. DOMAIN s = 1 .. Len(s) /\ Len(s) \in Nat /\ \A k \in 1 .. Len(s) : s[k] \in Deferred
  OBVIOUS
<1>2. \A k \in 1 .. Len(s) : s[k].name \in Names
  BY <1>1 DEF Deferred
<1>3. NamesOf(s) = [k \in 1 .. Len(s) |-> s[k].name]
  BY <1>1 DEF NamesOf
<1>4. NamesOf(s) \in [1 .. Len(s) -> Names]
  BY <1>2, <1>3
<1>5. NamesOf(s) \in Seq(Names) /\ Len(NamesOf(s)) = Len(s)
  BY <1>1, <1>4
<1> QED
  BY <1>1, <1>3, <1>5

\* Steps that leave the queue alone.
LEMMA QueueStutter ==
    ASSUME NamesOf(deferred)' = NamesOf(deferred), Begun' = Begun, InFrame' = InFrame
    PROVE  UNCHANGED Queue!queueVars
BY DEF Queue!queueVars, NamesOf, Begun

LEMMA DeferRefines ==
    ASSUME IInv, NEW n \in Names, Defer(n)
    PROVE  Queue!DeferAll(<<n>>)
<1> DEFINE e == [name |-> n, live |-> TRUE]
<1>1. /\ deferred \in Seq(Deferred) /\ deferred' = Append(deferred, e)
      /\ Len(deferred) < MaxDeferred /\ ClientsTurn /\ UNCHANGED <<index, stack>>
  BY DEF IInv, TypeOK, Defer
<1>2. e \in Deferred /\ e.name = n
  BY DEF Deferred
<1> HIDE DEF e
<1>3. /\ deferred' \in Seq(Deferred) /\ Len(deferred') = Len(deferred) + 1
      /\ deferred'[Len(deferred) + 1] = e
      /\ DOMAIN deferred = 1 .. Len(deferred)
      /\ \A k \in DOMAIN deferred : deferred'[k] = deferred[k]
  BY <1>1, <1>2, PushFacts
<1>4. /\ NamesOf(deferred) \in Seq(Names) /\ Len(NamesOf(deferred)) = Len(deferred)
      /\ Len(deferred) \in Nat
      /\ \A k \in 1 .. Len(deferred) : NamesOf(deferred)[k] = deferred[k].name
  BY <1>1, NamesOfType
<1>5. /\ NamesOf(deferred') \in Seq(Names) /\ Len(NamesOf(deferred')) = Len(deferred')
      /\ \A k \in 1 .. Len(deferred') : NamesOf(deferred')[k] = deferred'[k].name
  BY <1>3, NamesOfType
<1> DEFINE old == NamesOf(deferred)
           new == NamesOf(deferred')
<1>6. new = old \o <<n>>
  <2>1. old \o <<n>> \in Seq(Names) /\ Len(old \o <<n>>) = Len(deferred) + 1
        /\ \A k \in 1 .. Len(deferred) + 1 :
              (old \o <<n>>)[k] = IF k <= Len(deferred) THEN old[k] ELSE n
    <3>1. <<n>> \in Seq(Names) /\ Len(<<n>>) = 1 /\ <<n>>[1] = n
      OBVIOUS
    <3> HIDE DEF old
    <3> QED
      BY <1>4, <3>1 DEF old
  <2>2. \A k \in 1 .. Len(deferred) + 1 : new[k] = (old \o <<n>>)[k]
    <3>1. ASSUME NEW k \in 1 .. Len(deferred) + 1
          PROVE  new[k] = deferred'[k].name
      BY <1>3, <1>5
    <3>2. ASSUME NEW k \in 1 .. Len(deferred)
          PROVE  new[k] = (old \o <<n>>)[k]
      <4>1. new[k] = deferred[k].name
        BY <1>3, <1>4, <3>1
      <4> QED
        BY <1>4, <2>1, <4>1
    <3>3. new[Len(deferred) + 1] = (old \o <<n>>)[Len(deferred) + 1]
      BY <1>2, <1>3, <1>4, <2>1, <3>1
    <3>4. \A k \in 1 .. Len(deferred) + 1 : k \in 1 .. Len(deferred) \/ k = Len(deferred) + 1
      BY <1>4
    <3> HIDE DEF old, new
    <3> QED
      BY <3>2, <3>3, <3>4
  <2> HIDE DEF old, new
  <2>3. new \in Seq(Names) /\ Len(new) = Len(deferred) + 1
    BY <1>3, <1>5 DEF new
  <2> QED
    BY <2>1, <2>2, <2>3, SeqEqual
<1>7. Begun = 0 \/ InFrame
  BY <1>1 DEF ClientsTurn, Begun, IInv, TypeOK, Running
<1>8. UNCHANGED <<Begun, InFrame>>
  BY <1>1 DEF Begun, InFrame
<1>9. Len(NamesOf(deferred)) + Len(<<n>>) <= MaxDeferred
  <2>1. Len(<<n>>) = 1
    OBVIOUS
  <2> QED
    BY <1>1, <1>4, <2>1, EventAPIAssumption
<1> QED
  BY <1>6, <1>7, <1>8, <1>9 DEF Queue!DeferAll, Queue!Idle, NamesOf, Begun

\* OnFrame signals the next of the events, and is done behind the last.
LEMMA FrameRefines ==
    ASSUME IInv, OnFrame \/ SignalDeferred \/ EndFrame
    PROVE  Queue!Begin \/ Queue!Clear \/ UNCHANGED Queue!queueVars
<1>1. /\ deferred \in Seq(Deferred) /\ stack = <<>> /\ ~InFrame /\ index \in 0 .. Len(deferred) + 1
  BY DEF IInv, TypeOK, OnFrame, SignalDeferred, EndFrame, InFrame
<1>2. /\ Len(NamesOf(deferred)) = Len(deferred) /\ Len(deferred) \in Nat
  BY <1>1, NamesOfType
<1>3. CASE OnFrame
  <2>1. index = 0 /\ index' = 1 /\ UNCHANGED <<deferred, stack>>
    BY <1>3 DEF OnFrame
  <2>2. InFrame' = InFrame /\ Begun = 0 /\ Begun' = 0
    BY <1>1, <2>1 DEF InFrame, Begun
  <2> QED
    BY <2>1, <2>2, QueueStutter DEF NamesOf
<1>4. CASE SignalDeferred
  <2>1. /\ index > 0 /\ index <= Len(deferred) /\ UNCHANGED <<deferred, index>>
        /\ stack' = <<[name |-> deferred[index].name, pos |-> 1, by |-> "frame"]>>
    BY <1>4 DEF SignalDeferred, Left
  <2>2. InFrame'
    BY <2>1 DEF InFrame
  <2>3. Begun = index - 1 /\ Begun' = index
    BY <1>1, <2>1, <2>2 DEF Begun
  <2>4. Begun < Len(NamesOf(deferred)) /\ Begun' = Begun + 1
    BY <1>1, <1>2, <2>1, <2>3
  <2> QED
    BY <1>1, <2>1, <2>2, <2>4 DEF Queue!Begin, NamesOf, Begun
<1>5. CASE EndFrame
  <2>1. /\ index > 0 /\ index > Len(deferred) /\ deferred' = <<>> /\ index' = 0 /\ stack' = stack
    BY <1>1, <1>2, <1>5 DEF EndFrame, Left
  <2>2. deferred # <<>>
    BY <2>1 DEF IInv, Running
  <2>3. Len(deferred) > 0
    BY <1>1, <2>2
  <2>4. Begun = Len(NamesOf(deferred)) /\ Begun > 0
    BY <1>1, <1>2, <2>1, <2>3 DEF Begun
  <2>5. InFrame' = InFrame /\ Begun' = 0
    BY <2>1 DEF InFrame, Begun
  <2>6. NamesOf(deferred') = <<>>
    <3>1. deferred' \in Seq(Deferred) /\ Len(deferred') = 0
      BY <2>1
    <3>2. NamesOf(deferred') \in Seq(Names) /\ Len(NamesOf(deferred')) = 0
      BY <3>1, NamesOfType
    <3> QED
      BY <3>2
  <2> QED
    BY <1>1, <2>4, <2>5, <2>6 DEF Queue!Clear, NamesOf, Begun
<1> QED
  BY <1>3, <1>4, <1>5

\* The end of the outermost signal ends the delivery; inner ones are no concern of it.
LEMMA EndSignalRefines ==
    ASSUME IInv, EndSignal
    PROVE  Queue!End \/ UNCHANGED Queue!queueVars
<1> DEFINE last == Len(stack)
           by == stack[last].by
<1>1. /\ TypeOK /\ Running /\ stack # <<>> /\ stack' = SubSeq(stack, 1, last - 1)
      /\ stack \in Seq(Signalling) /\ deferred \in Seq(Deferred)
  BY DEF IInv, TypeOK, EndSignal, InLoop, Front
<1>2. /\ DOMAIN stack = 1 .. last /\ last \in 1 .. last /\ last \in Nat
  BY <1>1
<1>3. IF by = "frame"
      THEN /\ deferred' = [deferred EXCEPT ![index].live = ~Dies(stack[last].name)]
           /\ index' = index + 1
      ELSE UNCHANGED <<deferred, index>>
  BY DEF EndSignal, Top
<1>4. CASE by = "frame"
  <2>1. last = 1 /\ InFrame /\ index \in DOMAIN deferred
    BY <1>1, <1>2, <1>4 DEF Running, InFrame
  <2>2. stack' = <<>>
    BY <1>1, <2>1
  <2>3. ~InFrame'
    BY <2>2 DEF InFrame
  <2>4. index \in 0 .. Len(deferred) + 1
    BY <1>1 DEF TypeOK
  <2>5. Begun = index /\ Begun' = index
    BY <1>3, <1>4, <2>1, <2>3, <2>4 DEF Begun
  <2>6. NamesOf(deferred') = NamesOf(deferred)
    <3> DEFINE d == ~Dies(stack[last].name)
               e == [deferred[index] EXCEPT !.live = d]
    <3>1. deferred[index] \in Deferred /\ d \in BOOLEAN
      BY <1>1, <2>1
    <3> HIDE DEF d
    <3>2. e \in Deferred /\ e.name = deferred[index].name
      BY <3>1 DEF Deferred
    <3>3. deferred' = [deferred EXCEPT ![index] = e]
      BY <1>3, <1>4 DEF d
    <3> HIDE DEF e
    <3>4. DOMAIN deferred' = DOMAIN deferred
          /\ \A k \in DOMAIN deferred : deferred'[k].name = deferred[k].name
      BY <2>1, <3>2, <3>3
    <3> QED
      BY <3>4 DEF NamesOf
  <2> QED
    BY <2>1, <2>3, <2>5, <2>6 DEF Queue!End, NamesOf, Begun
<1>5. CASE by # "frame"
  <2>1. UNCHANGED <<deferred, index>>
    BY <1>3, <1>5
  <2>2. InFrame' = InFrame
    <3>1. CASE last = 1
      <4>1. stack' = <<>>
        BY <1>1, <3>1
      <4> QED
        BY <1>5, <3>1, <4>1 DEF InFrame
    <3>2. CASE last # 1
      <4>1. stack' # <<>> /\ stack'[1] = stack[1]
        <5>1. Len(stack') = last - 1 /\ 1 \in 1 .. last - 1
              /\ \A k \in 1 .. last - 1 : stack'[k] = stack[k]
          BY <1>1, <1>2, <3>2
        <5>2. Len(<<>>) = 0 /\ last - 1 # 0
          BY <1>2, <3>2
        <5> QED
          BY <5>1, <5>2
      <4> QED
        BY <1>1, <4>1 DEF InFrame
    <3> QED
      BY <3>1, <3>2
  <2>3. Begun' = Begun
    BY <2>1, <2>2 DEF Begun
  <2> QED
    BY <2>1, <2>2, <2>3, QueueStutter DEF NamesOf
<1> QED
  BY <1>4, <1>5

\* The other operations leave Events_Deferred and OnFrame where they are.
LEMMA OtherRefines ==
    ASSUME IInv, UNCHANGED <<deferred, index>>,
           \/ stack' = stack
           \/ \E n \in Names, by \in {"name", "owner"} : Signal(n, by)
           \/ Return
    PROVE  UNCHANGED Queue!queueVars
<1>1. stack \in Seq(Signalling) /\ Running
  BY DEF IInv, TypeOK
<1>2. CASE stack' = stack
  <2>1. InFrame' = InFrame /\ Begun' = Begun
    BY <1>2 DEF InFrame, Begun
  <2> QED
    BY <2>1, QueueStutter DEF NamesOf
<1>3. ASSUME NEW n \in Names, NEW by \in {"name", "owner"}, Signal(n, by)
      PROVE  UNCHANGED Queue!queueVars
  <2> DEFINE e == [name |-> n, pos |-> 1, by |-> by]
  <2>1. stack' = Append(stack, e) /\ e \in Signalling /\ e.by # "frame"
    BY <1>3 DEF Signal, Signalling, Signallers
  <2> HIDE DEF e
  <2>2. /\ DOMAIN stack' = DOMAIN stack \cup {Len(stack) + 1} /\ stack' # <<>>
        /\ stack'[Len(stack) + 1] = e /\ DOMAIN stack = 1 .. Len(stack) /\ Len(stack) \in Nat
        /\ \A k \in DOMAIN stack : stack'[k] = stack[k]
    BY <1>1, <2>1, PushFacts
  <2>3. InFrame' = InFrame
    <3>1. CASE stack = <<>>
      <4>1. stack'[1] = e
        BY <2>2, <3>1
      <4> QED
        BY <2>1, <3>1, <4>1 DEF InFrame
    <3>2. CASE stack # <<>>
      <4>1. 1 \in DOMAIN stack
        BY <1>1, <2>2, <3>2
      <4> QED
        BY <2>2, <3>2, <4>1 DEF InFrame
    <3> QED
      BY <3>1, <3>2
  <2>4. Begun' = Begun
    BY <2>3 DEF Begun
  <2> QED
    BY <2>3, <2>4, QueueStutter DEF NamesOf
<1>4. CASE Return
  <2>1. stack # <<>> /\ stack' = [stack EXCEPT ![Len(stack)].pos = @ + 1]
    BY <1>1, <1>4 DEF Return, Running
  <2>2. /\ Len(stack) \in DOMAIN stack /\ 1 \in DOMAIN stack /\ DOMAIN stack' = DOMAIN stack
        /\ stack[1] \in Signalling /\ stack[Len(stack)] \in Signalling
    BY <1>1, <2>1
  <2>3. stack' # <<>>
    BY <2>2
  <2>4. stack'[1].by = stack[1].by
    BY <2>1, <2>2 DEF Signalling
  <2>5. InFrame' = InFrame
    BY <2>1, <2>3, <2>4 DEF InFrame
  <2>6. Begun' = Begun
    BY <2>5 DEF Begun
  <2> QED
    BY <2>5, <2>6, QueueStutter DEF NamesOf
<1> QED
  BY <1>2, <1>3, <1>4

\* Each deferred event is delivered once and in order, and none is forgotten:
\* CEventAPI implements EventQueueSpec.
THEOREM Implements == Spec => ImplementsSpec
<1>1. Init => Queue!QueueInit
  <2> SUFFICES ASSUME Init PROVE Queue!QueueInit
    OBVIOUS
  <2>1. deferred = <<>> /\ deferred \in Seq(Deferred) /\ Len(deferred) = 0 /\ stack = <<>> /\ index = 0
    BY DEF Init
  <2>2. NamesOf(deferred) \in Seq(Names) /\ Len(NamesOf(deferred)) = 0
    BY <2>1, NamesOfType
  <2>3. NamesOf(deferred) = <<>> /\ ~InFrame
    BY <2>1, <2>2 DEF InFrame
  <2> QED
    BY <2>1, <2>3 DEF Queue!QueueInit, NamesOf
<1>2. IInv /\ [Next]_eventVars => [Queue!QueueNext]_Queue!queueVars
  <2> SUFFICES ASSUME IInv, [Next]_eventVars PROVE [Queue!QueueNext]_Queue!queueVars
    OBVIOUS
  <2>1. ASSUME NEW n \in Names, Defer(n)
        PROVE  Queue!QueueNext
    BY <2>1, DeferRefines DEF Queue!QueueNext
  <2>2. ASSUME NEW n \in Names, NEW r \in Receivers, Handler_Attach(n, r) \/ Handler_Detach(n, r)
        PROVE  UNCHANGED Queue!queueVars
    BY <2>2, OtherRefines DEF Handler_Attach, Handler_Detach
  <2>3. ASSUME NEW n \in Names, Create(n) \/ Destroy(n)
        PROVE  UNCHANGED Queue!queueVars
    BY <2>3, OtherRefines DEF Create, Destroy
  <2>4. ASSUME NEW n \in Names, Signal(n, "name") \/ Signal(n, "owner")
        PROVE  UNCHANGED Queue!queueVars
    BY <2>4, OtherRefines DEF Signal
  <2>5. CASE Call \/ Return
    BY <2>5, OtherRefines DEF Call, Return
  <2>6. CASE OnFrame \/ SignalDeferred \/ EndFrame
    BY <2>6, FrameRefines DEF Queue!QueueNext
  <2>7. CASE EndSignal
    BY <2>7, EndSignalRefines DEF Queue!QueueNext
  <2>8. CASE UNCHANGED eventVars
    BY <2>8, OtherRefines DEF eventVars
  <2> QED
    BY <2>1, <2>2, <2>3, <2>4, <2>5, <2>6, <2>7, <2>8 DEF Next
<1> QED
  BY <1>1, <1>2, Invariant, PTL DEF Spec, ImplementsSpec, Queue!QueueSpec
=============================================================================
