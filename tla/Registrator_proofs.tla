-------------------------- MODULE Registrator_proofs --------------------------
(***************************************************************************)
(* Proofs about Registrator, for any objects, priorities and bound.        *)
(***************************************************************************)
EXTENDS Registrator, FiniteSetTheorems, TLAPS

-----------------------------------------------------------------------------
(* Sets of naturals.                                                       *)

\* Every set of naturals has a least element: n stands for the finite set 0 .. n,
\* and strict inclusion of finite sets is well-founded.
LEMMA LeastNatural ==
    ASSUME NEW T \in SUBSET Nat, T # {}
    PROVE  \E x \in T : \A y \in T : x <= y
<1> DEFINE Upto == {0 .. n : n \in T}
<1>1. Upto \subseteq FiniteSubsetsOf(Nat) /\ Upto # {}
  <2>1. \A n \in T : IsFiniteSet(0 .. n) /\ 0 .. n \subseteq Nat
    BY FS_Interval
  <2> QED
    BY <2>1 DEF FiniteSubsetsOf
<1>2. IsWellFoundedOn(StrictSubsetOrdering(Nat), FiniteSubsetsOf(Nat))
  BY FS_StrictSubsetOrderingWellFounded
<1> HIDE DEF Upto
<1>3. PICK X \in Upto : \A Y \in Upto : <<Y, X>> \notin StrictSubsetOrdering(Nat)
  BY <1>1, <1>2, WFMin
<1>4. PICK x \in T : X = 0 .. x
  BY <1>3 DEF Upto
<1>5. ASSUME NEW y \in T, y < x
      PROVE  FALSE
  <2>1. 0 .. y \in Upto
    BY DEF Upto
  <2>2. 0 .. y \subseteq 0 .. x /\ x \in 0 .. x /\ x \notin 0 .. y
    BY <1>5
  <2>3. 0 .. y \in SUBSET Nat /\ 0 .. x \in SUBSET Nat
    OBVIOUS
  <2>4. <<0 .. y, 0 .. x>> \in StrictSubsetOrdering(Nat)
    BY <2>2, <2>3 DEF StrictSubsetOrdering
  <2> QED
    BY <2>1, <2>4, <1>3, <1>4
<1> QED
  BY <1>5

\* A bounded set of naturals has a greatest element.
LEMMA GreatestNatural ==
    ASSUME NEW n \in Nat, NEW T \in SUBSET (0 .. n), T # {}
    PROVE  \E x \in T : \A y \in T : y <= x
<1> DEFINE U == {n - x : x \in T}
<1>1. U \in SUBSET Nat /\ U # {}
  <2>1. \A x \in T : n - x \in Nat
    OBVIOUS
  <2>2. U \subseteq Nat
    BY <2>1
  <2>3. PICK x : x \in T
    OBVIOUS
  <2>4. n - x \in U
    BY <2>3
  <2> QED
    BY <2>2, <2>4
<1> HIDE DEF U
<1>2. PICK u \in U : \A y \in U : u <= y
  BY <1>1, LeastNatural
<1> QED
  BY <1>2 DEF U

-----------------------------------------------------------------------------
(* Resort.                                                                 *)

LEMMA EntryFacts ==
    ASSUME NEW e \in Entry
    PROVE  /\ e.obj \in Objects /\ e.prio \in Int
           /\ Invalid <= e.prio /\ e.prio <= Capture
           /\ Valid(e) <=> e.prio >= 0
<1>1. e.obj \in Objects /\ e.prio \in 0 .. Capture \cup {-1}
  BY RegistratorAssumption DEF Entry, Invalid
<1> QED
  BY <1>1, RegistratorAssumption DEF Invalid, Valid

\* qsort gives the entries in another order.
LEMMA SortedFacts ==
    ASSUME NEW s \in Seq(Entry), Len(s) <= MaxEntries, NEW t \in Sorted(s)
    PROVE  /\ t \in Seq(Entry) /\ Len(t) = Len(s)
           /\ \E p \in [1 .. Len(s) -> 1 .. Len(s)] :
                 /\ \A k \in 1 .. Len(s) : t[k] = s[p[k]]
                 /\ \A j, k \in 1 .. Len(s) : p[j] = p[k] => j = k
                 /\ \A k \in 1 .. Len(s) : \E j \in 1 .. Len(s) : p[j] = k
           /\ Overflows(s) \/ Descending(t)
<1> DEFINE n == Len(s)
<1>1. n \in Nat /\ n \in 0 .. MaxEntries
  BY RegistratorAssumption
<1>2. Reorderings[n] = Bijection(1 .. n, 1 .. n)
  BY <1>1 DEF Reorderings
<1>3. PICK p \in Bijection(1 .. n, 1 .. n) : t = [k \in 1 .. n |-> s[p[k]]]
  BY <1>2 DEF Sorted
<1> HIDE DEF n
<1>4. /\ p \in [1 .. n -> 1 .. n]
      /\ \A j, k \in 1 .. n : p[j] = p[k] => j = k
      /\ \A k \in 1 .. n : \E j \in 1 .. n : p[j] = k
  BY <1>3 DEF Bijection, Injection, Surjection, IsInjective
<1>5. \A k \in 1 .. n : s[p[k]] \in Entry
  BY <1>4 DEF n
<1>6. t \in [1 .. n -> Entry]
  BY <1>3, <1>5
<1>7. t \in Seq(Entry) /\ Len(t) = n
  BY <1>1, <1>6
<1>8. Overflows(s) \/ Descending(t)
  BY DEF Sorted
<1> QED
  BY <1>3, <1>4, <1>7, <1>8 DEF n

\* The popping stops at the last valid entry.
LEMMA LastValidFacts ==
    ASSUME NEW t \in Seq(Entry)
    PROVE  /\ LastValid(t) \in 0 .. Len(t)
           /\ LastValid(t) # 0 => Valid(t[LastValid(t)])
           /\ \A k \in 1 .. Len(t) : Valid(t[k]) => k <= LastValid(t)
<1> DEFINE V == {0} \cup {k \in 1 .. Len(t) : Valid(t[k])}
<1>1. V \in SUBSET (0 .. Len(t)) /\ V # {} /\ Len(t) \in Nat
  OBVIOUS
<1> HIDE DEF V
<1>2. \E x \in V : \A y \in V : y <= x
  BY <1>1, GreatestNatural
<1>3. Max(V) \in V /\ \A y \in V : y <= Max(V)
  BY <1>1, <1>2 DEF Max
<1>4. LastValid(t) = Max(V)
  BY DEF LastValid, V
<1> QED
  BY <1>1, <1>3, <1>4 DEF V

\* Resort loses no valid entry, makes none up, and doubles none; it leaves the list
\* in order, unless the comparison overflows.
LEMMA ResortFacts ==
    ASSUME NEW s \in Seq(Entry), Len(s) <= MaxEntries, NEW u \in Resorted(s)
    PROVE  /\ u \in Seq(Entry) /\ Len(u) <= Len(s)
           /\ \A k \in 1 .. Len(s) : Valid(s[k]) => \E j \in 1 .. Len(u) : u[j] = s[k]
           /\ \A j \in 1 .. Len(u) : \E k \in 1 .. Len(s) : u[j] = s[k]
           /\ Once(s) => Once(u)
           /\ ~Overflows(s) => Clean(u)
<1>1. PICK t \in Sorted(s) : u = Trimmed(t)
  BY DEF Resorted
<1>2. t \in Seq(Entry) /\ Len(t) = Len(s) /\ (Overflows(s) \/ Descending(t))
  BY SortedFacts
<1>3. PICK p \in [1 .. Len(s) -> 1 .. Len(s)] :
                 /\ \A k \in 1 .. Len(s) : t[k] = s[p[k]]
                 /\ \A j, k \in 1 .. Len(s) : p[j] = p[k] => j = k
                 /\ \A k \in 1 .. Len(s) : \E j \in 1 .. Len(s) : p[j] = k
  BY SortedFacts
<1> DEFINE last == LastValid(t)
<1>4. /\ last \in 0 .. Len(t)
      /\ last # 0 => Valid(t[last])
      /\ \A k \in 1 .. Len(t) : Valid(t[k]) => k <= last
  BY <1>2, LastValidFacts
<1>5. u = SubSeq(t, 1, last)
  BY <1>1 DEF Trimmed
<1> HIDE DEF last
<1>6. u \in Seq(Entry) /\ Len(u) = last /\ \A j \in 1 .. last : u[j] = t[j]
  BY <1>2, <1>4, <1>5
<1>7. ASSUME NEW k \in 1 .. Len(s), Valid(s[k])
      PROVE  \E j \in 1 .. Len(u) : u[j] = s[k]
  <2>1. PICK j \in 1 .. Len(s) : p[j] = k
    BY <1>3
  <2>2. t[j] = s[k]
    BY <1>3, <2>1
  <2>3. j \in 1 .. last
    BY <1>2, <1>4, <1>7, <2>2
  <2> QED
    BY <1>6, <2>2, <2>3
<1>8. ASSUME NEW j \in 1 .. Len(u)
      PROVE  /\ j \in 1 .. Len(s) /\ p[j] \in 1 .. Len(s) /\ u[j] = s[p[j]]
  <2>1. j \in 1 .. Len(s) /\ u[j] = t[j]
    BY <1>2, <1>4, <1>6
  <2> QED
    BY <1>3, <2>1
<1>9. ASSUME Once(s)
      PROVE  Once(u)
  <2>1. ASSUME NEW j \in 1 .. Len(u), NEW k \in 1 .. Len(u),
               Valid(u[j]), Valid(u[k]), u[j].obj = u[k].obj
        PROVE  j = k
    <3>1. Valid(s[p[j]]) /\ Valid(s[p[k]]) /\ s[p[j]].obj = s[p[k]].obj
      BY <1>8, <2>1
    <3>2. p[j] = p[k]
      BY <1>8, <1>9, <3>1 DEF Once
    <3> QED
      BY <1>3, <1>8, <3>2
  <2> QED
    BY <2>1 DEF Once
<1>10. ASSUME ~Overflows(s)
       PROVE  Clean(u)
  <2>1. Descending(t)
    BY <1>2, <1>10
  <2>2. Descending(u)
    BY <1>2, <1>4, <1>6, <2>1 DEF Descending
  <2>3. ASSUME NEW k \in 1 .. Len(u)
        PROVE  Valid(u[k])
    <3>1. Valid(t[last]) /\ k <= last /\ last \in 1 .. Len(t) /\ k \in 1 .. Len(t)
      BY <1>4, <1>6
    <3>2. t[k] \in Entry /\ t[last] \in Entry
      BY <1>2, <3>1
    <3>3. t[last].prio >= 0 /\ t[k].prio \in Int /\ t[last].prio \in Int
      BY <3>1, <3>2, EntryFacts
    <3>4. k = last \/ t[k].prio >= t[last].prio
      BY <2>1, <3>1 DEF Descending
    <3>5. t[k].prio >= 0
      BY <3>3, <3>4
    <3> QED
      BY <1>6, <3>2, <3>5, EntryFacts
  <2> QED
    BY <2>2, <2>3 DEF Clean
<1> QED
  BY <1>2, <1>4, <1>6, <1>7, <1>8, <1>9, <1>10

\* Without an entry of priority CAPTURE the comparison cannot overflow.
LEMMA NoOverflow ==
    ASSUME NEW s \in Seq(Entry), \A k \in 1 .. Len(s) : s[k].prio # Capture
    PROVE  ~Overflows(s)
<1> SUFFICES ASSUME NEW j \in 1 .. Len(s), NEW k \in 1 .. Len(s)
             PROVE  ~(s[k].prio - s[j].prio > Capture)
  BY DEF Overflows
<1>1. s[j] \in Entry /\ s[k] \in Entry
  OBVIOUS
<1>2. /\ s[j].prio \in Int /\ s[k].prio \in Int
      /\ -1 <= s[j].prio /\ s[k].prio <= Capture
  BY <1>1, EntryFacts DEF Invalid
<1> QED
  BY <1>2, RegistratorAssumption

\* What Resort leaves is clean, or an object with CAPTURE is in it.
LEMMA ResortCleans ==
    ASSUME NEW s \in Seq(Entry), Len(s) <= MaxEntries, NEW u \in Resorted(s)
    PROVE  Clean(u) \/ \E k \in 1 .. Len(u) : u[k].prio = Capture
<1>1. CASE \A k \in 1 .. Len(s) : s[k].prio # Capture
  BY <1>1, NoOverflow, ResortFacts
<1>2. CASE \E k \in 1 .. Len(s) : s[k].prio = Capture
  <2>1. PICK k \in 1 .. Len(s) : s[k].prio = Capture
    BY <1>2
  <2>2. Valid(s[k])
    BY <2>1, RegistratorAssumption DEF Valid, Invalid
  <2> QED
    BY <2>1, <2>2, ResortFacts
<1> QED
  BY <1>1, <1>2

-----------------------------------------------------------------------------
(* The inductive invariant.                                                *)

LEMMA InitIInv == Init => IInv
<1> SUFFICES ASSUME Init PROVE IInv
  OBVIOUS
<1>1. R \in Seq(Entry) /\ Len(R) = 0
  BY DEF Init
<1>2. 1 .. Len(R) = {}
  BY <1>1
<1>3. TypeOK
  <2>1. i \in 0 .. Len(R) + 1
    BY <1>1 DEF Init
  <2> QED
    BY <1>1, <2>1 DEF Init, TypeOK
<1>4. OutOfOrderIsMarked /\ Once(R)
  BY <1>2 DEF OutOfOrderIsMarked, Clean, Descending, Once
<1>5. PassOK
  BY <1>1, RegistratorAssumption DEF Init, PassOK
<1> QED
  BY <1>3, <1>4, <1>5 DEF IInv

\* Add and Remove end alike, with the list they have made.
LEMMA OperationIInv ==
    ASSUME IInv, NEW s \in Seq(Entry), Len(s) <= MaxEntries, Len(R) <= Len(s), Once(s),
           OwnersTurn, ResortOrMark(s), UNCHANGED <<in_process, pc, i>>
    PROVE  IInv'
<1>1. CASE in_process
  <2>1. R' = s /\ changed' = TRUE
    BY <1>1 DEF ResortOrMark
  <2>2. TypeOK'
    BY <2>1 DEF IInv, TypeOK
  <2>3. OutOfOrderIsMarked'
    BY <1>1, <2>1 DEF OutOfOrderIsMarked
  <2>4. PassOK'
    <3>1. R \in Seq(Entry)
      BY DEF IInv, TypeOK
    <3>2. R # <<>> => R' # <<>>
      BY <2>1, <3>1
    <3> QED
      BY <1>1, <2>1, <3>1, <3>2 DEF IInv, TypeOK, PassOK, OwnersTurn
  <2> QED
    BY <2>1, <2>2, <2>3, <2>4 DEF IInv
<1>2. CASE ~in_process
  <2>1. R' \in Resorted(s) /\ changed' = FALSE
    BY <1>2 DEF ResortOrMark
  <2>2. R' \in Seq(Entry) /\ Len(R') <= Len(s) /\ Once(R')
    BY <2>1, ResortFacts
  <2>3. pc' = "idle" /\ i' = 0 /\ in_process' = FALSE
    BY <1>2 DEF IInv, TypeOK, PassOK
  <2>4. TypeOK'
    <3>1. i' \in 0 .. Len(R') + 1
      BY <2>2, <2>3
    <3> QED
      BY <2>1, <2>2, <2>3, <3>1 DEF TypeOK
  <2>5. OutOfOrderIsMarked'
    BY <2>1, ResortCleans DEF OutOfOrderIsMarked
  <2>6. PassOK'
    BY <2>1, <2>2, <2>3, RegistratorAssumption DEF PassOK
  <2> QED
    BY <2>2, <2>4, <2>5, <2>6 DEF IInv
<1> QED
  BY <1>1, <1>2

\* Append of an object that has no valid entry.
LEMMA AddIInv ==
    ASSUME IInv, NEW o \in Objects, NEW priority \in Priorities, Add(o, priority)
    PROVE  IInv'
<1> DEFINE e == [obj |-> o, prio |-> priority]
           s == Append(R, e)
<1>1. e \in Entry /\ R \in Seq(Entry) /\ Len(R) < MaxEntries
  BY DEF Entry, IInv, TypeOK, Add
<1>2. /\ s \in Seq(Entry) /\ Len(s) = Len(R) + 1 /\ s[Len(R) + 1] = e
      /\ \A k \in 1 .. Len(R) : s[k] = R[k]
  BY <1>1
<1>3. \A k \in 1 .. Len(R) : Valid(R[k]) => R[k].obj # o
  BY DEF Add, RegisteredIn
<1>4. e.obj = o
  OBVIOUS
<1> HIDE DEF e, s
<1>5. ASSUME NEW j \in 1 .. Len(s), NEW k \in 1 .. Len(s),
             Valid(s[j]), Valid(s[k]), s[j].obj = s[k].obj
      PROVE  j = k
  <2>1. CASE j \in 1 .. Len(R) /\ k \in 1 .. Len(R)
    BY <1>2, <1>5, <2>1 DEF IInv, Once
  <2>2. CASE j = Len(R) + 1 /\ k \in 1 .. Len(R)
    BY <1>2, <1>3, <1>4, <1>5, <2>2
  <2>3. CASE k = Len(R) + 1 /\ j \in 1 .. Len(R)
    BY <1>2, <1>3, <1>4, <1>5, <2>3
  <2> QED
    BY <1>1, <1>2, <2>1, <2>2, <2>3
<1>6. Once(s)
  BY <1>5 DEF Once
<1>7. ResortOrMark(s) /\ OwnersTurn /\ UNCHANGED <<in_process, pc, i>>
  BY DEF Add, s, e
<1>8. Len(s) <= MaxEntries /\ Len(R) <= Len(s)
  BY <1>1, <1>2, RegistratorAssumption
<1> QED
  BY <1>2, <1>6, <1>7, <1>8, OperationIInv

LEMMA InvalidatedFacts ==
    ASSUME TypeOK, NEW o \in Objects
    PROVE  /\ Invalidated(o) \in Seq(Entry) /\ Len(Invalidated(o)) = Len(R)
           /\ \A k \in 1 .. Len(R) :
                 /\ Invalidated(o)[k].obj = R[k].obj
                 /\ R[k].obj = o => Invalidated(o)[k].prio = Invalid
                 /\ R[k].obj # o => Invalidated(o)[k] = R[k]
<1>1. R \in Seq(Entry)
  BY DEF TypeOK
<1>2. ASSUME NEW k \in 1 .. Len(R)
      PROVE  /\ R[k] \in Entry
             /\ [R[k] EXCEPT !.prio = Invalid] \in Entry
             /\ [R[k] EXCEPT !.prio = Invalid].obj = R[k].obj
             /\ [R[k] EXCEPT !.prio = Invalid].prio = Invalid
  <2>1. R[k] \in Entry
    BY <1>1
  <2>2. \A e \in Entry : /\ [e EXCEPT !.prio = Invalid] \in Entry
                         /\ [e EXCEPT !.prio = Invalid].obj = e.obj
                         /\ [e EXCEPT !.prio = Invalid].prio = Invalid
    BY DEF Entry
  <2> QED
    BY <2>1, <2>2
<1>3. \A k \in 1 .. Len(R) :
         (IF R[k].obj = o THEN [R[k] EXCEPT !.prio = Invalid] ELSE R[k]) \in Entry
  BY <1>2
<1>4. Invalidated(o) \in [1 .. Len(R) -> Entry]
  BY <1>3 DEF Invalidated
<1>5. Len(R) \in Nat
  BY <1>1
<1>6. Invalidated(o) \in Seq(Entry) /\ Len(Invalidated(o)) = Len(R)
  BY <1>4, <1>5
<1>7. ASSUME NEW k \in 1 .. Len(R)
      PROVE  Invalidated(o)[k] =
                IF R[k].obj = o THEN [R[k] EXCEPT !.prio = Invalid] ELSE R[k]
  BY DEF Invalidated
<1> QED
  BY <1>2, <1>6, <1>7

LEMMA RemoveIInv ==
    ASSUME IInv, NEW o \in Objects, Remove(o)
    PROVE  IInv'
<1> DEFINE s == Invalidated(o)
<1>1. /\ s \in Seq(Entry) /\ Len(s) = Len(R)
      /\ \A k \in 1 .. Len(R) : s[k].obj = R[k].obj
      /\ \A k \in 1 .. Len(R) : Valid(s[k]) => Valid(R[k])
  BY InvalidatedFacts DEF IInv, Valid
<1>2. ResortOrMark(s) /\ OwnersTurn /\ UNCHANGED <<in_process, pc, i>>
  BY DEF Remove
<1> HIDE DEF s
<1>3. Once(s)
  BY <1>1 DEF IInv, Once
<1>4. Len(s) <= MaxEntries /\ Len(R) <= Len(s) /\ Len(R) \in Nat
  BY <1>1 DEF IInv, TypeOK, PassOK
<1> QED
  BY <1>1, <1>2, <1>3, <1>4, OperationIInv

LEMMA FinishIInv == IInv /\ Finish => IInv'
<1> SUFFICES ASSUME IInv, Finish PROVE IInv'
  OBVIOUS
<1>1. R \in Seq(Entry) /\ Len(R) <= MaxEntries /\ Once(R)
  BY DEF IInv, TypeOK, PassOK
<1>2. pc' = "idle" /\ i' = 0 /\ in_process' = FALSE /\ changed' = FALSE
  BY DEF Finish
<1>3. R' \in Resorted(R) \/ (R' = R /\ ~changed)
  BY DEF Finish
<1>4. R' \in Seq(Entry) /\ Len(R') <= Len(R) /\ Once(R')
  BY <1>1, <1>3, ResortFacts
<1>5. OutOfOrderIsMarked'
  <2>1. CASE R' \in Resorted(R)
    BY <1>1, <2>1, ResortCleans DEF OutOfOrderIsMarked
  <2>2. CASE R' = R /\ ~changed
    BY <2>2 DEF IInv, OutOfOrderIsMarked
  <2> QED
    BY <1>3, <2>1, <2>2
<1>6. TypeOK'
  <2>1. i' \in 0 .. Len(R') + 1
    BY <1>2, <1>4
  <2> QED
    BY <1>2, <1>4, <2>1 DEF TypeOK
<1>7. PassOK'
  BY <1>1, <1>2, <1>4, RegistratorAssumption DEF PassOK
<1> QED
  BY <1>4, <1>5, <1>6, <1>7 DEF IInv

LEMMA PassIInv ==
    ASSUME IInv, ProcessEmpty \/ ProcessCaptured \/ Process \/ Skip \/ Call \/ Return
    PROVE  IInv'
<1> USE DEF ProcessEmpty, ProcessCaptured, Process, Skip, Call, Return
<1>1. R' = R /\ changed' = changed
  OBVIOUS
<1>2. R \in Seq(Entry) /\ Len(R) \in Nat /\ (R # <<>> => Len(R) > 0)
  BY DEF IInv, TypeOK
<1>3. in_process' \in BOOLEAN /\ (in_process => in_process')
  BY DEF IInv, TypeOK
<1>4. i' \in 0 .. Len(R) + 1 /\ pc' \in {"idle", "loop", "call"}
  BY <1>2 DEF IInv, TypeOK, PassOK
<1>5. TypeOK'
  BY <1>1, <1>2, <1>3, <1>4 DEF IInv, TypeOK
<1>6. OutOfOrderIsMarked'
  BY <1>1, <1>3 DEF IInv, OutOfOrderIsMarked
<1>7. Once(R')
  BY <1>1 DEF IInv
<1>8. PassOK'
  BY <1>1, <1>2, <1>3 DEF IInv, TypeOK, PassOK
<1> QED
  BY <1>5, <1>6, <1>7, <1>8 DEF IInv

LEMMA ClearIInv == IInv /\ Clear => IInv'
<1> SUFFICES ASSUME IInv, Clear PROVE IInv'
  OBVIOUS
<1>1. R' = <<>> /\ pc = "idle" /\ i = 0 /\ UNCHANGED <<in_process, changed, pc, i>>
  BY DEF Clear, IInv, PassOK
<1>2. R' \in Seq(Entry) /\ Len(R') = 0 /\ 1 .. Len(R') = {}
  BY <1>1
<1>3. TypeOK'
  <2>1. i' \in 0 .. Len(R') + 1
    BY <1>1, <1>2
  <2> QED
    BY <1>1, <1>2, <2>1 DEF IInv, TypeOK
<1>4. OutOfOrderIsMarked' /\ Once(R')
  BY <1>2 DEF OutOfOrderIsMarked, Clean, Descending, Once
<1>5. PassOK'
  BY <1>1, <1>2, RegistratorAssumption DEF IInv, PassOK
<1> QED
  BY <1>3, <1>4, <1>5 DEF IInv

LEMMA NextIInv == IInv /\ [Next]_regVars => IInv'
<1> SUFFICES ASSUME IInv, [Next]_regVars PROVE IInv'
  OBVIOUS
<1>1. ASSUME NEW o \in Objects, Remove(o)
      PROVE  IInv'
  BY <1>1, RemoveIInv
<1>2. ASSUME NEW o \in Objects, NEW priority \in Priorities, Add(o, priority)
      PROVE  IInv'
  BY <1>2, AddIInv
<1>3. CASE Clear
  BY <1>3, ClearIInv
<1>4. CASE ProcessEmpty \/ ProcessCaptured \/ Process \/ Skip \/ Call \/ Return
  BY <1>4, PassIInv
<1>5. CASE Finish
  BY <1>5, FinishIInv
<1>6. CASE UNCHANGED regVars
  BY <1>6 DEF regVars, IInv, TypeOK, OutOfOrderIsMarked, Clean, Descending, Once, PassOK, Valid
<1> QED
  BY <1>1, <1>2, <1>3, <1>4, <1>5, <1>6 DEF Next

\* The invariant of the list and of the pass over it.
THEOREM Invariant == Spec => []IInv
<1> QED
  BY InitIInv, NextIInv, PTL DEF Spec

\* The loop of Process stays in the list, whatever handlers add and remove.
THEOREM TypeCorrect == Spec => []TypeOK
<1>1. IInv => TypeOK
  BY DEF IInv
<1> QED
  BY <1>1, Invariant, PTL

\* A list that is out of order or keeps removed objects is marked for a Resort.
THEOREM Marked == Spec => []OutOfOrderIsMarked
<1>1. IInv => OutOfOrderIsMarked
  BY DEF IInv
<1> QED
  BY <1>1, Invariant, PTL

-----------------------------------------------------------------------------
(* Registrator implements RegistratorSpec.                                 *)

\* The objects with a valid entry at position n or behind it.
From(entries, n) == {entries[k].obj : k \in {m \in n .. Len(entries) : Valid(entries[m])}}

LEMMA SuffixIsFrom ==
    ASSUME NEW s \in Seq(Entry), NEW n \in 1 .. Len(s) + 1
    PROVE  RegisteredIn(SubSeq(s, n, Len(s))) = From(s, n)
<1> DEFINE u == SubSeq(s, n, Len(s))
<1>1. Len(u) = Len(s) - n + 1 /\ \A k \in 1 .. Len(u) : u[k] = s[k + n - 1]
  OBVIOUS
<1> HIDE DEF u
<1>2. ASSUME NEW o, NEW k \in 1 .. Len(u), Valid(u[k]), o = u[k].obj
      PROVE  o \in From(s, n)
  <2>1. k + n - 1 \in n .. Len(s) /\ u[k] = s[k + n - 1]
    BY <1>1
  <2> QED
    BY <1>2, <2>1 DEF From
<1>3. ASSUME NEW o, NEW k \in n .. Len(s), Valid(s[k]), o = s[k].obj
      PROVE  o \in RegisteredIn(u)
  <2>1. k - n + 1 \in 1 .. Len(u) /\ u[k - n + 1] = s[k]
    BY <1>1
  <2> QED
    BY <1>3, <2>1 DEF RegisteredIn
<1>4. RegisteredIn(u) \subseteq From(s, n)
  BY <1>2 DEF RegisteredIn
<1>5. From(s, n) \subseteq RegisteredIn(u)
  BY <1>3 DEF From
<1> QED
  BY <1>4, <1>5 DEF u

\* Resort keeps those that are registered, and those of them with CAPTURE.
LEMMA ResortSets ==
    ASSUME NEW s \in Seq(Entry), Len(s) <= MaxEntries, NEW u \in Resorted(s)
    PROVE  RegisteredIn(u) = RegisteredIn(s) /\ CapturingIn(u) = CapturingIn(s)
<1>1. /\ \A k \in 1 .. Len(s) : Valid(s[k]) => \E j \in 1 .. Len(u) : u[j] = s[k]
      /\ \A j \in 1 .. Len(u) : \E k \in 1 .. Len(s) : u[j] = s[k]
  BY ResortFacts
<1>2. \A k \in 1 .. Len(s) : s[k].prio = Capture => Valid(s[k])
  BY RegistratorAssumption DEF Valid, Invalid
<1>3. RegisteredIn(u) = RegisteredIn(s)
  <2>1. ASSUME NEW j \in 1 .. Len(u), Valid(u[j])
        PROVE  u[j].obj \in RegisteredIn(s)
    <3>1. PICK k \in 1 .. Len(s) : u[j] = s[k]
      BY <1>1
    <3> QED
      BY <2>1, <3>1 DEF RegisteredIn
  <2>2. ASSUME NEW k \in 1 .. Len(s), Valid(s[k])
        PROVE  s[k].obj \in RegisteredIn(u)
    <3>1. PICK j \in 1 .. Len(u) : u[j] = s[k]
      BY <1>1, <2>2
    <3> QED
      BY <2>2, <3>1 DEF RegisteredIn
  <2> QED
    BY <2>1, <2>2 DEF RegisteredIn
<1>4. CapturingIn(u) = CapturingIn(s)
  <2>1. ASSUME NEW j \in 1 .. Len(u), u[j].prio = Capture
        PROVE  u[j].obj \in CapturingIn(s)
    <3>1. PICK k \in 1 .. Len(s) : u[j] = s[k]
      BY <1>1
    <3> QED
      BY <2>1, <3>1 DEF CapturingIn
  <2>2. ASSUME NEW k \in 1 .. Len(s), s[k].prio = Capture
        PROVE  s[k].obj \in CapturingIn(u)
    <3>1. PICK j \in 1 .. Len(u) : u[j] = s[k]
      BY <1>1, <1>2, <2>2
    <3> QED
      BY <2>2, <3>1 DEF CapturingIn
  <2> QED
    BY <2>1, <2>2 DEF CapturingIn
<1> QED
  BY <1>3, <1>4

LEMMA MarkedSets ==
    ASSUME NEW s \in Seq(Entry), Len(s) <= MaxEntries, ResortOrMark(s)
    PROVE  RegisteredIn(R') = RegisteredIn(s) /\ CapturingIn(R') = CapturingIn(s)
<1>1. R' = s \/ R' \in Resorted(s)
  BY DEF ResortOrMark
<1> QED
  BY <1>1, ResortSets

\* Between passes nothing is left to call.  In a pass Rest is what lies ahead.
LEMMA RestFacts ==
    ASSUME TypeOK, PassOK
    PROVE  /\ pc = "idle" \/ i = 0 => Rest = {}
           /\ pc = "loop" => Rest = From(R, i)
           /\ pc = "call" /\ i # 0 => Rest = From(R, i + 1)
<1>1. R \in Seq(Entry) /\ Len(R) \in Nat /\ i \in 0 .. Len(R) + 1
  BY DEF TypeOK
<1>2. CASE pc = "loop"
  <2>1. i \in 1 .. Len(R) + 1
    BY <1>1, <1>2 DEF PassOK
  <2>2. Rest = RegisteredIn(SubSeq(R, i, Len(R)))
    BY <1>2, <2>1 DEF Rest
  <2> QED
    BY <1>1, <1>2, <2>1, <2>2, SuffixIsFrom
<1>3. CASE pc = "call" /\ i # 0
  <2>1. i + 1 \in 1 .. Len(R) + 1
    BY <1>1, <1>3 DEF PassOK
  <2>2. Rest = RegisteredIn(SubSeq(R, i + 1, Len(R)))
    BY <1>3 DEF Rest
  <2> QED
    BY <1>1, <1>3, <2>1, <2>2, SuffixIsFrom
<1>4. CASE pc = "idle" \/ i = 0
  BY <1>1, <1>4 DEF Rest, PassOK
<1> QED
  BY <1>2, <1>3, <1>4 DEF TypeOK

\* An object that registers from a handler is called by the pass, unless the pass
\* has been captured.
LEMMA AddRefines ==
    ASSUME IInv, IInv', NEW o \in Objects, NEW priority \in Priorities, Add(o, priority)
    PROVE  \E captures, inPass \in BOOLEAN :
              Abstract!AbsAdd(o, captures, inPass /\ ~(pc = "call" /\ i = 0))
<1> DEFINE e == [obj |-> o, prio |-> priority]
           s == Append(R, e)
<1>1. e \in Entry /\ R \in Seq(Entry) /\ Len(R) < MaxEntries /\ Len(R) \in Nat
  BY DEF Entry, IInv, TypeOK, Add
<1>2. /\ s \in Seq(Entry) /\ Len(s) = Len(R) + 1 /\ s[Len(R) + 1] = e
      /\ \A k \in 1 .. Len(R) : s[k] = R[k]
  BY <1>1
<1>3. ResortOrMark(s) /\ OwnersTurn /\ UNCHANGED <<in_process, pc, i>> /\ o \notin RegisteredIn(R)
  BY DEF Add, s, e
<1>4. e.obj = o /\ e.prio = priority /\ Valid(e)
  BY RegistratorAssumption DEF Valid, Invalid
<1> HIDE DEF e, s
<1>5. 1 .. Len(s) = 1 .. Len(R) \cup {Len(s)}
  BY <1>1, <1>2
<1>6. RegisteredIn(s) = RegisteredIn(R) \cup {o}
  BY <1>2, <1>4, <1>5 DEF RegisteredIn
<1>7. CapturingIn(s) = IF priority = Capture THEN CapturingIn(R) \cup {o} ELSE CapturingIn(R)
  <2>1. CASE priority = Capture
    <3>1. {n \in 1 .. Len(s) : s[n].prio = Capture}
            = {n \in 1 .. Len(R) : R[n].prio = Capture} \cup {Len(s)}
      BY <1>2, <1>4, <1>5, <2>1
    <3> QED
      BY <1>2, <1>4, <2>1, <3>1 DEF CapturingIn
  <2>2. CASE priority # Capture
    <3>1. {n \in 1 .. Len(s) : s[n].prio = Capture} = {n \in 1 .. Len(R) : R[n].prio = Capture}
      BY <1>2, <1>4, <1>5, <2>2
    <3> QED
      BY <1>2, <2>2, <3>1 DEF CapturingIn
  <2> QED
    BY <2>1, <2>2
<1>8. RegisteredIn(R') = RegisteredIn(s) /\ CapturingIn(R') = CapturingIn(s)
  BY <1>1, <1>2, <1>3, MarkedSets, RegistratorAssumption
<1>9. pc = "call" => R' = s /\ i <= Len(R)
  BY <1>3 DEF IInv, PassOK, ResortOrMark
<1>10. Current' = Current
  <2>1. CASE pc = "call"
    <3>1. (IF i = 0 THEN 1 ELSE i) \in 1 .. Len(R)
      BY <1>1, <1>9, <2>1 DEF IInv, TypeOK, PassOK
    <3> QED
      BY <1>2, <1>3, <1>9, <2>1, <3>1 DEF Current
  <2>2. CASE pc # "call"
    BY <1>3, <2>2 DEF Current
  <2> QED
    BY <2>1, <2>2
<1>11. Rest' = IF pc = "call" /\ i # 0 THEN Rest \cup {o} ELSE Rest
  <2>1. CASE pc = "call" /\ i # 0
    <3>1. Rest = From(R, i + 1)
      BY <2>1, RestFacts DEF IInv
    <3>2. Rest' = From(s, i + 1)
      <4>1. TypeOK' /\ PassOK' /\ pc' = "call" /\ i' # 0 /\ i' = i /\ R' = s
        BY <1>3, <1>9, <2>1 DEF IInv
      <4>2. R' \in Seq(Entry) /\ i + 1 \in 1 .. Len(R') + 1
        BY <1>2, <1>9, <2>1, <4>1 DEF IInv, TypeOK
      <4>3. Rest' = RegisteredIn(SubSeq(R', i + 1, Len(R')))
        BY <4>1 DEF Rest
      <4> QED
        BY <4>1, <4>2, <4>3, SuffixIsFrom
    <3>3. i + 1 .. Len(s) = (i + 1 .. Len(R)) \cup {Len(s)}
      BY <1>1, <1>2, <1>9, <2>1 DEF IInv, TypeOK
    <3>4. i + 1 .. Len(R) \subseteq 1 .. Len(R)
      BY <1>1, <1>9, <2>1 DEF IInv, TypeOK
    <3>5. From(s, i + 1) = From(R, i + 1) \cup {o}
      BY <1>2, <1>4, <3>3, <3>4 DEF From
    <3> QED
      BY <2>1, <3>1, <3>2, <3>5
  <2>2. CASE ~(pc = "call" /\ i # 0)
    <3>1. pc = "idle" \/ i = 0
      BY <1>3, <2>2 DEF OwnersTurn
    <3> QED
      BY <1>3, <2>2, <3>1 DEF Rest
  <2> QED
    BY <2>1, <2>2
<1>12. Abstract!AbsAdd(o, priority = Capture, (pc = "call") /\ ~(pc = "call" /\ i = 0))
  <2>1. RegisteredIn(R)' = RegisteredIn(R) \cup {o}
    BY <1>6, <1>8
  <2>2. CapturingIn(R)' = IF priority = Capture THEN CapturingIn(R) \cup {o} ELSE CapturingIn(R)
    BY <1>7, <1>8
  <2>3. UNCHANGED <<Current, pc = "call" /\ i = 0>>
    BY <1>3, <1>10
  <2> QED
    BY <1>3, <1>11, <2>1, <2>2, <2>3 DEF Abstract!AbsAdd
<1> QED
  <2>1. (priority = Capture) \in BOOLEAN /\ (pc = "call") \in BOOLEAN
    OBVIOUS
  <2> QED
    BY <1>12, <2>1

\* Remove takes the object from those that are still to be called.
LEMMA RemoveRefines ==
    ASSUME IInv, IInv', NEW o \in Objects, Remove(o)
    PROVE  Abstract!AbsRemove({o})
<1> DEFINE s == Invalidated(o)
<1>1. R \in Seq(Entry) /\ Len(R) \in Nat /\ Len(R) <= MaxEntries
  BY DEF IInv, TypeOK, PassOK
<1>2. /\ s \in Seq(Entry) /\ Len(s) = Len(R)
      /\ \A k \in 1 .. Len(R) : s[k].obj = R[k].obj
      /\ \A k \in 1 .. Len(R) : R[k].obj = o => s[k].prio = Invalid
      /\ \A k \in 1 .. Len(R) : R[k].obj # o => s[k] = R[k]
  BY InvalidatedFacts DEF IInv
<1>3. ResortOrMark(s) /\ OwnersTurn /\ UNCHANGED <<in_process, pc, i>>
  BY DEF Remove
<1> HIDE DEF s
<1>4. ASSUME NEW n \in Nat, n > 0
      PROVE  From(s, n) = From(R, n) \ {o}
  <2>1. ASSUME NEW k \in n .. Len(R)
        PROVE  /\ s[k].obj = R[k].obj
               /\ Valid(s[k]) <=> Valid(R[k]) /\ R[k].obj # o
    <3>1. k \in 1 .. Len(R)
      BY <1>1, <1>4
    <3> QED
      BY <1>2, <3>1 DEF Valid
  <2> QED
    BY <1>2, <2>1 DEF From
<1>5. RegisteredIn(s) = RegisteredIn(R) \ {o}
  <2>1. RegisteredIn(s) = From(s, 1) /\ RegisteredIn(R) = From(R, 1)
    BY DEF From, RegisteredIn
  <2>2. From(s, 1) = From(R, 1) \ {o}
    BY <1>4
  <2> QED
    BY <2>1, <2>2
<1>6. CapturingIn(s) = CapturingIn(R) \ {o}
  <2>1. ASSUME NEW k \in 1 .. Len(R)
        PROVE  s[k].prio = Capture <=> R[k].prio = Capture /\ R[k].obj # o
    BY <1>2, RegistratorAssumption DEF Invalid
  <2> QED
    BY <1>2, <2>1 DEF CapturingIn
<1>7. RegisteredIn(R)' = RegisteredIn(R) \ {o} /\ CapturingIn(R)' = CapturingIn(R) \ {o}
  BY <1>1, <1>2, <1>3, <1>5, <1>6, MarkedSets
<1>8. pc = "call" => R' = s /\ i <= Len(R)
  BY <1>3 DEF IInv, PassOK, ResortOrMark
<1>9. Current' = Current
  <2>1. CASE pc = "call"
    <3>1. R # <<>>
      BY <2>1 DEF IInv, PassOK
    <3>2. (IF i = 0 THEN 1 ELSE i) \in 1 .. Len(R)
      BY <1>1, <1>8, <2>1, <3>1 DEF IInv, TypeOK
    <3> QED
      BY <1>2, <1>3, <1>8, <2>1, <3>2 DEF Current
  <2>2. CASE pc # "call"
    BY <1>3, <2>2 DEF Current
  <2> QED
    BY <2>1, <2>2
<1>10. Rest' = Rest \ {o}
  <2>1. CASE pc = "call" /\ i # 0
    <3>1. i + 1 \in 1 .. Len(R) + 1 /\ i + 1 \in Nat /\ i + 1 > 0
      BY <1>1, <1>8, <2>1 DEF IInv, TypeOK
    <3>2. Rest = From(R, i + 1)
      BY <2>1, RestFacts DEF IInv
    <3>3. Rest' = RegisteredIn(SubSeq(s, i + 1, Len(s)))
      BY <1>3, <1>8, <2>1 DEF Rest
    <3>4. Rest' = From(s, i + 1)
      BY <1>2, <3>1, <3>3, SuffixIsFrom
    <3> QED
      BY <1>4, <3>1, <3>2, <3>4
  <2>2. CASE ~(pc = "call" /\ i # 0)
    <3>1. pc = "idle" \/ i = 0
      BY <1>3, <2>2 DEF OwnersTurn
    <3> QED
      BY <1>3, <3>1 DEF Rest
  <2> QED
    BY <2>1, <2>2
<1> QED
  BY <1>3, <1>7, <1>9, <1>10 DEF Abstract!AbsRemove

LEMMA ClearRefines ==
    ASSUME IInv, Clear
    PROVE  Abstract!AbsRemove(Objects)
<1>1. R \in Seq(Entry) /\ pc = "idle"
  BY DEF IInv, TypeOK, Clear
<1>2. R' = <<>> /\ pc' = pc /\ i' = i /\ 1 .. Len(R') = {}
  BY DEF Clear
<1>3. RegisteredIn(R) \subseteq Objects /\ CapturingIn(R) \subseteq Objects
  <2>1. \A k \in 1 .. Len(R) : R[k].obj \in Objects
    BY <1>1, EntryFacts
  <2> QED
    BY <2>1 DEF RegisteredIn, CapturingIn
<1>4. RegisteredIn(R)' = {} /\ CapturingIn(R)' = {}
  BY <1>2 DEF RegisteredIn, CapturingIn
<1>5. Rest = {} /\ Rest' = {} /\ Current' = Current
  BY <1>1, <1>2 DEF Rest, Current
<1> QED
  BY <1>1, <1>2, <1>3, <1>4, <1>5 DEF Abstract!AbsRemove

\* Process begins a pass over all that are registered, or over one with CAPTURE.
LEMMA BeginRefines ==
    ASSUME IInv, IInv', ProcessCaptured \/ Process
    PROVE  Abstract!AbsBegin
<1>1. R \in Seq(Entry) /\ R # <<>> /\ R' = R /\ pc = "idle"
  BY DEF IInv, TypeOK, ProcessCaptured, Process
<1>2. Rest = {} /\ Current = None
  BY <1>1 DEF Rest, Current
<1>3. CASE ProcessCaptured
  <2>1. pc' = "call" /\ i' = 0 /\ 1 \in 1 .. Len(R) /\ R[1].prio = Capture
    BY <1>1, <1>3 DEF ProcessCaptured
  <2>2. Current' = R[1].obj /\ Rest' = {}
    BY <1>1, <2>1 DEF Current, Rest
  <2>3. R[1].obj \in CapturingIn(R)
    BY <2>1 DEF CapturingIn
  <2> QED
    BY <1>1, <1>2, <2>1, <2>2, <2>3 DEF Abstract!AbsBegin
<1>4. CASE Process
  <2>1. pc' = "loop" /\ i' = 1
    BY <1>4 DEF Process
  <2>2. Current' = None
    BY <2>1 DEF Current
  <2>3. Rest' = RegisteredIn(SubSeq(R, 1, Len(R)))
    BY <1>1, <2>1 DEF Rest
  <2>4. SubSeq(R, 1, Len(R)) = R
    BY <1>1
  <2> QED
    BY <1>1, <1>2, <2>1, <2>2, <2>3, <2>4 DEF Abstract!AbsBegin
<1> QED
  BY <1>3, <1>4

\* An entry is called once: no later one is of the same object.
LEMMA CallRefines ==
    ASSUME IInv, IInv', Call
    PROVE  Abstract!AbsCall
<1>1. /\ R \in Seq(Entry) /\ R' = R /\ pc = "loop" /\ pc' = "call" /\ i' = i
      /\ i \in 1 .. Len(R) /\ Valid(R[i]) /\ i # 0
  BY DEF IInv, TypeOK, PassOK, Call, Callable
<1>2. Rest = From(R, i)
  BY <1>1, RestFacts DEF IInv
<1>3. Rest' = From(R, i + 1)
  <2>1. Rest' = RegisteredIn(SubSeq(R, i + 1, Len(R)))
    BY <1>1 DEF Rest
  <2> QED
    BY <1>1, <2>1, SuffixIsFrom
<1>4. Current = None /\ Current' = R[i].obj
  BY <1>1 DEF Current
<1>5. i .. Len(R) = {i} \cup (i + 1 .. Len(R))
  BY <1>1
<1>6. R[i].obj \in From(R, i)
  BY <1>1, <1>5 DEF From
<1>7. R[i].obj \notin From(R, i + 1)
  <2>1. ASSUME NEW k \in i + 1 .. Len(R), Valid(R[k])
        PROVE  R[k].obj # R[i].obj
    <3>1. k \in 1 .. Len(R) /\ k # i
      BY <1>1
    <3> QED
      BY <1>1, <2>1, <3>1 DEF IInv, Once
  <2> QED
    BY <2>1 DEF From
<1>8. From(R, i + 1) = From(R, i) \ {R[i].obj}
  BY <1>1, <1>5, <1>7 DEF From
<1> QED
  BY <1>1, <1>2, <1>3, <1>4, <1>6, <1>8 DEF Abstract!AbsCall

\* A handler returns, or the loop passes over an entry that has been removed.
LEMMA LoopRefines ==
    ASSUME IInv, IInv', Skip \/ Return
    PROVE  Abstract!AbsReturn \/ UNCHANGED Abstract!absVars
<1>1. R \in Seq(Entry) /\ R' = R /\ i \in 1 .. Len(R) /\ i' = i + 1 /\ pc' = "loop"
  BY DEF IInv, TypeOK, PassOK, Skip, Return
<1>2. Rest' = From(R, i + 1)
  <2>1. Rest' = RegisteredIn(SubSeq(R, i + 1, Len(R)))
    BY <1>1 DEF Rest
  <2> QED
    BY <1>1, <2>1, SuffixIsFrom
<1>3. Current' = None
  BY <1>1 DEF Current
<1>4. CASE Skip
  <2>1. pc = "loop" /\ ~Valid(R[i])
    BY <1>4 DEF Skip, Callable
  <2>2. Rest = From(R, i)
    BY <2>1, RestFacts DEF IInv
  <2>3. i .. Len(R) = {i} \cup (i + 1 .. Len(R))
    BY <1>1
  <2>4. From(R, i) = From(R, i + 1)
    BY <2>1, <2>3 DEF From
  <2>5. Current = None
    BY <2>1 DEF Current
  <2> QED
    BY <1>1, <1>2, <1>3, <2>1, <2>2, <2>4, <2>5 DEF Abstract!absVars
<1>5. CASE Return
  <2>1. pc = "call" /\ i # 0
    BY <1>5 DEF Return
  <2>2. Rest = From(R, i + 1)
    BY <2>1, RestFacts DEF IInv
  <2>3. R[i] \in Entry /\ Current = R[i].obj
    BY <1>1, <2>1 DEF Current
  <2>4. Current # None
    BY <2>3, EntryFacts, RegistratorAssumption
  <2> QED
    BY <1>1, <1>2, <1>3, <2>1, <2>2, <2>4 DEF Abstract!AbsReturn
<1> QED
  BY <1>4, <1>5

\* The pass is over: there was nothing left to call.
LEMMA FinishRefines ==
    ASSUME IInv, IInv', Finish
    PROVE  Abstract!AbsReturn \/ UNCHANGED Abstract!absVars
<1>1. /\ R \in Seq(Entry) /\ Len(R) <= MaxEntries /\ (R' \in Resorted(R) \/ R' = R)
      /\ pc' = "idle" /\ i' = 0
  BY DEF IInv, TypeOK, PassOK, Finish
<1>2. RegisteredIn(R)' = RegisteredIn(R) /\ CapturingIn(R)' = CapturingIn(R)
  BY <1>1, ResortSets
<1>3. Rest' = {} /\ Current' = None
  BY <1>1 DEF Rest, Current
<1>4. CASE pc = "loop" /\ i > Len(R)
  <2>1. i .. Len(R) = {}
    BY <1>1, <1>4 DEF IInv, TypeOK
  <2>2. Rest = {} /\ Current = None
    BY <1>4, <2>1, RestFacts DEF IInv, From, Current
  <2> QED
    BY <1>1, <1>2, <1>3, <1>4, <2>2 DEF Abstract!absVars
<1>5. CASE pc = "call" /\ i = 0
  <2>1. R # <<>> /\ Rest = {}
    BY <1>5, RestFacts DEF IInv, PassOK
  <2>2. 1 \in 1 .. Len(R)
    BY <1>1, <2>1
  <2>3. R[1] \in Entry /\ Current = R[1].obj
    BY <1>1, <1>5, <2>2 DEF Current
  <2>4. Current # None
    BY <2>3, EntryFacts, RegistratorAssumption
  <2> QED
    BY <1>1, <1>2, <1>3, <1>5, <2>1, <2>4 DEF Abstract!AbsReturn
<1> QED
  BY <1>4, <1>5 DEF Finish

LEMMA InitRefines == Init => Abstract!AbsInit
<1> SUFFICES ASSUME Init PROVE Abstract!AbsInit
  OBVIOUS
<1>1. R = <<>> /\ 1 .. Len(R) = {} /\ pc = "idle"
  BY DEF Init
<1>2. RegisteredIn(R) = {} /\ CapturingIn(R) = {} /\ Rest = {} /\ Current = None
  BY <1>1 DEF RegisteredIn, CapturingIn, Rest, Current
<1> QED
  BY <1>1, <1>2 DEF Abstract!AbsInit

LEMMA NextRefines ==
    ASSUME IInv, IInv', [Next]_regVars
    PROVE  [Abstract!AbsNext]_Abstract!absVars
<1>1. ASSUME NEW o \in Objects, Remove(o)
      PROVE  Abstract!AbsNext
  BY <1>1, RemoveRefines DEF Abstract!AbsNext
<1>2. ASSUME NEW o \in Objects, NEW priority \in Priorities, Add(o, priority)
      PROVE  Abstract!AbsNext
  BY <1>2, AddRefines DEF Abstract!AbsNext
<1>3. CASE Clear
  BY <1>3, ClearRefines DEF Abstract!AbsNext
<1>4. CASE ProcessEmpty
  BY <1>4 DEF ProcessEmpty, Abstract!absVars, Rest, Current
<1>5. CASE ProcessCaptured \/ Process
  BY <1>5, BeginRefines DEF Abstract!AbsNext
<1>6. CASE Call
  BY <1>6, CallRefines DEF Abstract!AbsNext
<1>7. CASE Skip \/ Return
  BY <1>7, LoopRefines DEF Abstract!AbsNext
<1>8. CASE Finish
  BY <1>8, FinishRefines DEF Abstract!AbsNext
<1>9. CASE UNCHANGED regVars
  BY <1>9 DEF regVars, Abstract!absVars, Rest, Current, RegisteredIn, CapturingIn, Valid
<1> QED
  BY <1>1, <1>2, <1>3, <1>4, <1>5, <1>6, <1>7, <1>8, <1>9 DEF Next

\* Every object that is registered is called once by a pass unless it is removed
\* first, whatever handlers do to the list under the loop: CRegistrator implements
\* RegistratorSpec.
THEOREM Implements == Spec => ImplementsSpec
<1> QED
  BY InitRefines, NextRefines, Invariant, PTL DEF Spec, ImplementsSpec, Abstract!AbsSpec
=============================================================================
