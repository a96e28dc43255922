----------------------------- MODULE ALife_proofs -----------------------------
(***************************************************************************)
(* Proofs about the simulator, for any number of stalkers and groups and   *)
(* any limits.                                                             *)
(***************************************************************************)
EXTENDS ALife, FiniteSetTheorems, TLAPS

-----------------------------------------------------------------------------
(* Sets of naturals.                                                       *)

\* Every set of naturals has a least element: n stands for the finite set 0 .. n,
\* and strict inclusion of finite sets is well-founded.
LEMMA LeastNatural ==
    ASSUME NEW T \in SUBSET Nat, T # {}
    PROVE  \E x \in T : \A y \in T : x <= y
<1> DEFINE Upto == {0 .. n : n \in T}
<1>1. Upto \subseteq FiniteSubsetsOf(Nat) /\ Upto # {}
  <2>1. \A n \in T : IsFiniteSet(0 .. n) /\ 0 .. n \subseteq Nat
    BY FS_Interval
  <2> QED
    BY <2>1 DEF FiniteSubsetsOf
<1>2. IsWellFoundedOn(StrictSubsetOrdering(Nat), FiniteSubsetsOf(Nat))
  BY FS_StrictSubsetOrderingWellFounded
<1> HIDE DEF Upto
<1>3. PICK X \in Upto : \A Y \in Upto : <<Y, X>> \notin StrictSubsetOrdering(Nat)
  BY <1>1, <1>2, WFMin
<1>4. PICK x \in T : X = 0 .. x
  BY <1>3 DEF Upto
<1>5. ASSUME NEW y \in T, y < x
      PROVE  FALSE
  <2>1. 0 .. y \in Upto
    BY DEF Upto
  <2>2. 0 .. y \subseteq 0 .. x /\ x \in 0 .. x /\ x \notin 0 .. y
    BY <1>5
  <2>3. 0 .. y \in SUBSET Nat /\ 0 .. x \in SUBSET Nat
    OBVIOUS
  <2>4. <<0 .. y, 0 .. x>> \in StrictSubsetOrdering(Nat)
    BY <2>2, <2>3 DEF StrictSubsetOrdering
  <2> QED
    BY <2>1, <2>4, <1>3, <1>4
<1> QED
  BY <1>5

-----------------------------------------------------------------------------
(* The iterator.                                                           *)

\* The next of an object is the one behind it, or the first of the map.
LEMMA AfterFacts ==
    ASSUME NEW S \in SUBSET IDs, S # {}, NEW id \in IDs
    PROVE  /\ After(S, id) \in S
           /\ \A y \in S : /\ y > id => id < After(S, id) /\ After(S, id) <= y
                           /\ y <= id => After(S, id) > id \/ After(S, id) <= y
<1> DEFINE greater == {x \in S : x > id}
<1>1. S \in SUBSET Nat /\ greater \in SUBSET Nat /\ id \in Nat
  BY IDsAssumption
<1>2. ASSUME NEW T \in SUBSET Nat, T # {}
      PROVE  Min(T) \in T /\ \A y \in T : Min(T) <= y
  <2>1. \E x \in T : \A y \in T : x <= y
    BY <1>2, LeastNatural
  <2> QED
    BY <2>1 DEF Min
<1>3. CASE greater # {}
  <2>1. After(S, id) = Min(greater)
    BY <1>3 DEF After
  <2>2. After(S, id) \in greater /\ \A y \in greater : After(S, id) <= y
    BY <1>1, <1>2, <1>3, <2>1
  <2> QED
    BY <1>1, <2>2
<1>4. CASE greater = {}
  <2>1. After(S, id) = Min(S)
    BY <1>4 DEF After
  <2>2. After(S, id) \in S /\ \A y \in S : After(S, id) <= y
    BY <1>1, <1>2, <2>1
  <2>3. \A y \in S : ~(y > id)
    BY <1>4
  <2> QED
    BY <1>1, <2>2, <2>3
<1> QED
  BY <1>3, <1>4

\* From R to Q the iterator has only gone on, past nobody who is in both.
Onward(R, Q) ==
    \A y \in R.objects \cap Q.objects : \A m \in IDs : InArc(Q.next, m, y) => InArc(R.next, m, y)

LEMMA OnwardSame ==
    ASSUME NEW R PROVE Onward(R, R)
  BY DEF Onward

LEMMA OnwardTwice ==
    ASSUME NEW R, NEW Q, NEW P, Onward(R, Q), Onward(Q, P), R.objects \cap P.objects \subseteq Q.objects
    PROVE  Onward(R, P)
  BY DEF Onward

\* To begin the step of an object takes the iterator past it alone.
LEMMA NextFacts ==
    ASSUME NEW R \in Registries, Valid(R), R.objects # {}
    PROVE  /\ update_next(R) \in Registries /\ Valid(update_next(R))
           /\ update_next(R).objects = R.objects
           /\ \A y \in R.objects \ {R.next} :
                  /\ \A m \in IDs : InArc(update_next(R).next, m, y) => InArc(R.next, m, y)
                  /\ ~InArc(update_next(R).next, R.next, y)
<1>1. R.objects \in SUBSET IDs /\ R.next \in R.objects /\ R.objects \in SUBSET Nat
  BY IDsAssumption DEF Registries, Valid
<1> DEFINE n == After(R.objects, R.next)
<1>2. /\ update_next(R) \in Registries
      /\ update_next(R).objects = R.objects /\ update_next(R).next = n
      /\ n \in R.objects
  BY <1>1, AfterFacts DEF update_next, Registries
<1>3. \A y \in R.objects : /\ y > R.next => R.next < n /\ n <= y
                           /\ y <= R.next => n > R.next \/ n <= y
  BY <1>1, AfterFacts
<1> HIDE DEF n
<1>4. R.next \in Nat /\ n \in Nat /\ IDs \subseteq Nat
  BY <1>1, <1>2, IDsAssumption
<1>5. ASSUME NEW y \in R.objects \ {R.next}, NEW m \in IDs, InArc(n, m, y)
      PROVE  InArc(R.next, m, y)
  <2>1. y \in Nat /\ m \in Nat /\ y # R.next
    BY <1>1, <1>4
  <2> QED
    BY <1>3, <1>4, <1>5, <2>1 DEF InArc
<1>6. ASSUME NEW y \in R.objects, y # R.next
      PROVE  ~InArc(n, R.next, y)
  <2>1. y \in Nat
    BY <1>1
  <2> QED
    BY <1>3, <1>4, <1>6, <2>1 DEF InArc
<1> QED
  BY <1>1, <1>2, <1>5, <1>6 DEF Valid

LEMMA AddFacts ==
    ASSUME NEW R \in Registries, Valid(R), NEW id \in IDs
    PROVE  /\ add(R, id) \in Registries /\ Valid(add(R, id))
           /\ add(R, id).objects = R.objects \cup {id}
           /\ Onward(R, add(R, id))
<1>1. /\ add(R, id) \in Registries /\ Valid(add(R, id))
      /\ add(R, id).objects = R.objects \cup {id}
  BY DEF add, Registries, Valid
<1>2. Onward(R, add(R, id))
  BY DEF add, Onward
<1> QED
  BY <1>1, <1>2

LEMMA RemoveFacts ==
    ASSUME NEW R \in Registries, Valid(R), NEW id \in R.objects
    PROVE  /\ remove(R, id) \in Registries /\ Valid(remove(R, id))
           /\ remove(R, id).objects = R.objects \ {id}
           /\ Onward(R, remove(R, id))
<1> DEFINE rest == R.objects \ {id}
           Q == remove(R, id)
<1>1. R.objects \in SUBSET IDs /\ R.next \in R.objects /\ id \in IDs
  BY DEF Registries, Valid
<1>2. Q.objects = rest
  BY DEF remove
<1>3. CASE rest = {}
  <2>1. Q.next = NoNext
    BY <1>3 DEF remove
  <2>2. Q \in Registries
    BY <1>3 DEF remove, Registries
  <2> QED
    BY <1>2, <1>3, <2>1, <2>2 DEF Valid, Onward
<1>4. CASE rest # {} /\ id # R.next
  <2>1. Q = [objects |-> rest, next |-> R.next]
    BY <1>4 DEF remove
  <2>2. R.next \in rest
    BY <1>1, <1>4
  <2> QED
    BY <1>1, <2>1, <2>2 DEF Valid, Onward, Registries
<1>5. CASE rest # {} /\ id = R.next
  <2> DEFINE n == After(R.objects, id)
  <2>1. Q = [objects |-> rest, next |-> n]
    BY <1>5, <1>1 DEF remove, update_next, Registries
  <2>2. n \in R.objects
    BY <1>1, AfterFacts
  <2>3. n # id
    <3>1. PICK y \in rest : TRUE
      BY <1>5
    <3>2. /\ y > id => id < n /\ n <= y
          /\ y <= id => n > id \/ n <= y
      BY <1>1, <3>1, AfterFacts
    <3>3. id \in Nat /\ y \in Nat /\ n \in Nat /\ y # id
      BY <1>1, <2>2, <3>1, IDsAssumption
    <3> HIDE DEF n
    <3> QED
      BY <3>2, <3>3
  <2>4. \A y \in R.objects \ {R.next} : \A m \in IDs : InArc(update_next(R).next, m, y) => InArc(R.next, m, y)
    BY <1>1, NextFacts
  <2>5. update_next(R).next = n
    BY <1>1, <1>5 DEF update_next, Registries
  <2> HIDE DEF n
  <2>6. Onward(R, Q)
    BY <1>5, <2>1, <2>4, <2>5 DEF Onward
  <2> QED
    BY <1>1, <2>1, <2>2, <2>3, <2>6 DEF Valid, Registries
<1> QED
  BY <1>3, <1>4, <1>5, <1>2

-----------------------------------------------------------------------------
(* The registries: what each operation leaves in them, and over whom it    *)
(* throws.                                                                 *)

LEMMA Kinds ==
    /\ \A s \in Stalkers : s \in IDs /\ s \notin Groups
    /\ \A g \in Groups : g \in IDs /\ g \notin Stalkers
    /\ \A o \in IDs : o \in Stalkers \/ o \in Groups
    /\ NULL \notin IDs /\ NULL \notin Vertices /\ NULL \notin Objects
    /\ NULL \notin Groups /\ NULL # Here /\ Here \in Vertices
  BY ALifeAssumption DEF Vertices

Typed(A) == A \in World /\ Valid(A.level) /\ Valid(A.scheduled)

LEMMA LevelAdd ==
    ASSUME NEW A, Typed(A), NEW o \in IDs, A.object[o].m_tGraphID = Here => o \notin A.level.objects
    PROVE  LET B == level_add(A, o)
           IN  /\ Typed(B) /\ B.object = A.object /\ B.points = A.points
               /\ B.scheduled = A.scheduled /\ B.threw = A.threw
               /\ B.level.objects = IF A.object[o].m_tGraphID = Here THEN A.level.objects \cup {o}
                                    ELSE A.level.objects
               /\ Onward(A.level, B.level)
<1>1. A.level \in Registries /\ Valid(A.level)
  BY DEF Typed, World
<1>2. CASE A.object[o].m_tGraphID # Here
  <2>1. level_add(A, o) = A
    BY <1>2 DEF level_add
  <2> QED
    BY <1>2, <2>1, OnwardSame
<1>3. CASE A.object[o].m_tGraphID = Here
  <2>1. level_add(A, o) = [A EXCEPT !.level = add(@, o)]
    BY <1>3 DEF level_add
  <2>2. /\ add(A.level, o) \in Registries /\ Valid(add(A.level, o))
        /\ add(A.level, o).objects = A.level.objects \cup {o}
        /\ Onward(A.level, add(A.level, o))
    BY <1>1, AddFacts
  <2> QED
    BY <1>3, <2>1, <2>2 DEF Typed, World
<1> QED
  BY <1>2, <1>3

LEMMA LevelRemove ==
    ASSUME NEW A, Typed(A), NEW o \in IDs, NEW no_assert \in BOOLEAN
    PROVE  LET B == level_remove(A, o, no_assert)
           IN  /\ Typed(B) /\ B.object = A.object /\ B.points = A.points
               /\ B.scheduled = A.scheduled
               /\ B.level.objects = A.level.objects \ {o}
               /\ Onward(A.level, B.level)
               /\ B.threw \subseteq A.threw \cup {o}
               /\ o \in A.level.objects \/ no_assert => B.threw = A.threw
<1>1. A.level \in Registries /\ Valid(A.level) /\ A.threw \subseteq IDs
  BY DEF Typed, World
<1>2. CASE o \in A.level.objects
  <2>1. level_remove(A, o, no_assert) = [A EXCEPT !.level = remove(@, o)]
    BY <1>2 DEF level_remove
  <2>2. /\ remove(A.level, o) \in Registries /\ Valid(remove(A.level, o))
        /\ remove(A.level, o).objects = A.level.objects \ {o}
        /\ Onward(A.level, remove(A.level, o))
    BY <1>1, <1>2, RemoveFacts
  <2> QED
    BY <2>1, <2>2 DEF Typed, World
<1>3. CASE o \notin A.level.objects /\ no_assert
  <2>1. level_remove(A, o, no_assert) = A
    BY <1>3 DEF level_remove
  <2> QED
    BY <1>3, <2>1, OnwardSame
<1>4. CASE o \notin A.level.objects /\ ~no_assert
  <2>1. level_remove(A, o, no_assert) = [A EXCEPT !.threw = @ \cup {o}]
    BY <1>4 DEF level_remove, Throw
  <2> QED
    BY <1>1, <1>4, <2>1, OnwardSame DEF Typed, World
<1> QED
  BY <1>2, <1>3, <1>4

LEMMA ScheduledAdd ==
    ASSUME NEW A, Typed(A), NEW o \in IDs, need_update(A, o) => o \notin A.scheduled.objects
    PROVE  LET B == scheduled_add(A, o)
           IN  /\ Typed(B) /\ B.object = A.object /\ B.points = A.points
               /\ B.level = A.level /\ B.threw = A.threw
               /\ B.scheduled.objects = IF need_update(A, o) THEN A.scheduled.objects \cup {o}
                                        ELSE A.scheduled.objects
<1>1. A.scheduled \in Registries /\ Valid(A.scheduled)
  BY DEF Typed, World
<1>2. CASE ~need_update(A, o)
  <2>1. scheduled_add(A, o) = A
    BY <1>2 DEF scheduled_add
  <2> QED
    BY <1>2, <2>1
<1>3. CASE need_update(A, o)
  <2>1. scheduled_add(A, o) = [A EXCEPT !.scheduled = add(@, o)]
    BY <1>3 DEF scheduled_add
  <2>2. /\ add(A.scheduled, o) \in Registries /\ Valid(add(A.scheduled, o))
        /\ add(A.scheduled, o).objects = A.scheduled.objects \cup {o}
    BY <1>1, AddFacts
  <2> QED
    BY <1>3, <2>1, <2>2 DEF Typed, World
<1> QED
  BY <1>2, <1>3

LEMMA ScheduledRemove ==
    ASSUME NEW A, Typed(A), NEW o \in IDs, need_update(A, o) => o \in A.scheduled.objects
    PROVE  LET B == scheduled_remove(A, o)
           IN  /\ Typed(B) /\ B.object = A.object /\ B.points = A.points
               /\ B.level = A.level /\ B.threw = A.threw
               /\ B.scheduled.objects = A.scheduled.objects \ {o}
<1>1. A.scheduled \in Registries /\ Valid(A.scheduled)
  BY DEF Typed, World
<1>2. CASE o \notin A.scheduled.objects
  <2>1. scheduled_remove(A, o) = A
    BY <1>2 DEF scheduled_remove
  <2> QED
    BY <1>2, <2>1
<1>3. CASE o \in A.scheduled.objects
  <2>1. scheduled_remove(A, o) = [A EXCEPT !.scheduled = remove(@, o)]
    BY <1>3 DEF scheduled_remove
  <2>2. /\ remove(A.scheduled, o) \in Registries /\ Valid(remove(A.scheduled, o))
        /\ remove(A.scheduled, o).objects = A.scheduled.objects \ {o}
    BY <1>1, <1>3, RemoveFacts
  <2> QED
    BY <2>1, <2>2 DEF Typed, World
<1> QED
  BY <1>2, <1>3


\* The calls of CALifeGraphRegistry::add and remove, with and without the level registry.
Enter(A, o, v)     == graph_add(A, o, v, TRUE)
EnterOnly(A, o, v) == graph_add(A, o, v, FALSE)
Leave(A, o, v)     == graph_remove(A, o, v, TRUE)
LeaveOnly(A, o, v) == graph_remove(A, o, v, FALSE)

AtPoint(A, o, v) ==
    IF ~A.object[o].m_bOnline /\ A.object[o].used_ai_locations
    THEN [A EXCEPT !.points[v] = @ \cup {o}, !.object[o].m_tGraphID = v] ELSE A

LEMMA PointAdd ==
    ASSUME NEW A, Typed(A), NEW o \in IDs, A.object[o] \in Objects, NEW v \in Vertices \cup {NULL},
           ~A.object[o].m_bOnline /\ A.object[o].used_ai_locations => v \in Vertices
    PROVE  LET x == A.object[o]
               in == ~x.m_bOnline /\ x.used_ai_locations
               C == AtPoint(A, o, v)
           IN  /\ Typed(C) /\ C.scheduled = A.scheduled /\ C.threw = A.threw /\ C.level = A.level
               /\ C.object = IF in THEN [A.object EXCEPT ![o].m_tGraphID = v] ELSE A.object
               /\ C.points = IF in THEN [A.points EXCEPT ![v] = @ \cup {o}] ELSE A.points
<1> DEFINE x == A.object[o]
           in == ~x.m_bOnline /\ x.used_ai_locations
           C == AtPoint(A, o, v)
<1> USE DEF AtPoint
<1>1. CASE in
  <2>1. v \in Vertices
    BY <1>1
  <2> DEFINE O == [A.object EXCEPT ![o].m_tGraphID = v]
             P == [A.points EXCEPT ![v] = @ \cup {o}]
  <2>2. A \in World /\ A.object \in [IDs -> Objects \cup {NULL}] /\ A.points \in [Vertices -> SUBSET IDs]
    BY DEF Typed, World
  <2>3. [x EXCEPT !.m_tGraphID = v] \in Objects
    BY DEF Objects
  <2>4. O \in [IDs -> Objects \cup {NULL}]
    BY <2>2, <2>3
  <2>5. P \in [Vertices -> SUBSET IDs]
    BY <2>1, <2>2
  <2>6. C = [A EXCEPT !.points = P, !.object = O]
    BY <1>1, <2>2 DEF World
  <2> HIDE DEF O, P
  <2>7. /\ C \in World /\ C.object = O /\ C.points = P /\ C.level = A.level
        /\ C.scheduled = A.scheduled /\ C.threw = A.threw
    BY <2>2, <2>4, <2>5, <2>6 DEF World
  <2> QED
    BY <1>1, <2>7 DEF Typed, O, P
<1>2. CASE ~in
  BY <1>2
<1> QED
  BY <1>1, <1>2

LEMMA GraphAdd ==
    ASSUME NEW A, Typed(A), NEW o \in IDs, A.object[o] \in Objects, NEW v \in Vertices \cup {NULL},
           ~A.object[o].m_bOnline /\ A.object[o].used_ai_locations => v \in Vertices /\ o \notin A.points[v],
           o \notin A.level.objects
    PROVE  LET x == A.object[o]
               in == ~x.m_bOnline /\ x.used_ai_locations
               B == Enter(A, o, v)
           IN  /\ Typed(B) /\ B.scheduled = A.scheduled /\ B.threw = A.threw
               /\ B.object = IF in THEN [A.object EXCEPT ![o].m_tGraphID = v] ELSE A.object
               /\ B.points = IF in THEN [A.points EXCEPT ![v] = @ \cup {o}] ELSE A.points
               /\ B.level.objects = IF v # NULL /\ B.object[o].m_tGraphID = Here
                                    THEN A.level.objects \cup {o} ELSE A.level.objects
               /\ Onward(A.level, B.level)
<1> DEFINE x == A.object[o]
           in == ~x.m_bOnline /\ x.used_ai_locations
           C == AtPoint(A, o, v)
           B == Enter(A, o, v)
<1>1. B = IF v # NULL THEN level_add(C, o) ELSE C
  <2>1. CASE in
    <3>1. ~(x.m_bOnline \/ ~x.used_ai_locations) /\ o \notin A.points[v]
      BY <2>1
    <3> QED
      BY <2>1, <3>1 DEF Enter, EnterOnly, graph_add, AtPoint
  <2>2. CASE ~in
    <3>1. x.m_bOnline \/ ~x.used_ai_locations
      BY <2>2 DEF Objects
    <3> QED
      BY <2>2, <3>1 DEF Enter, EnterOnly, graph_add, AtPoint
  <2> QED
    BY <2>1, <2>2
<1>2. /\ Typed(C) /\ C.scheduled = A.scheduled /\ C.threw = A.threw /\ C.level = A.level
      /\ C.object = IF in THEN [A.object EXCEPT ![o].m_tGraphID = v] ELSE A.object
      /\ C.points = IF in THEN [A.points EXCEPT ![v] = @ \cup {o}] ELSE A.points
  BY PointAdd
<1> HIDE DEF C, B
<1>3. CASE v # NULL
  <2>1. B = level_add(C, o)
    BY <1>1, <1>3
  <2>2. o \notin C.level.objects
    BY <1>2, <1>3
  <2>3. /\ Typed(B) /\ B.object = C.object /\ B.points = C.points
        /\ B.scheduled = C.scheduled /\ B.threw = C.threw
        /\ B.level.objects = IF C.object[o].m_tGraphID = Here THEN C.level.objects \cup {o}
                             ELSE C.level.objects
        /\ Onward(C.level, B.level)
    BY <1>2, <2>1, <2>2, LevelAdd
  <2> QED
    BY <1>2, <1>3, <2>3 DEF B
<1>4. CASE v = NULL
  <2>1. B = C
    BY <1>1, <1>4
  <2> QED
    BY <1>2, <1>4, <2>1, OnwardSame DEF B
<1> QED
  BY <1>3, <1>4

\* The same of an object that is offline, and of one that is not or has no place.
LEMMA EnterOffline ==
    ASSUME NEW A, Typed(A), NEW o \in IDs, A.object[o] \in Objects, NEW v \in Vertices,
           ~A.object[o].m_bOnline, A.object[o].used_ai_locations,
           o \notin A.points[v], o \notin A.level.objects
    PROVE  LET B == Enter(A, o, v)
           IN  /\ Typed(B) /\ B.scheduled = A.scheduled /\ B.threw = A.threw
               /\ B.object = [A.object EXCEPT ![o].m_tGraphID = v]
               /\ B.points = [A.points EXCEPT ![v] = @ \cup {o}]
               /\ B.level.objects = IF v = Here THEN A.level.objects \cup {o} ELSE A.level.objects
               /\ Onward(A.level, B.level)
<1> DEFINE x == A.object[o]
           in == ~x.m_bOnline /\ x.used_ai_locations
           B == Enter(A, o, v)
<1>1. /\ Typed(B) /\ B.scheduled = A.scheduled /\ B.threw = A.threw
      /\ B.object = IF in THEN [A.object EXCEPT ![o].m_tGraphID = v] ELSE A.object
      /\ B.points = IF in THEN [A.points EXCEPT ![v] = @ \cup {o}] ELSE A.points
      /\ B.level.objects = IF v # NULL /\ B.object[o].m_tGraphID = Here
                           THEN A.level.objects \cup {o} ELSE A.level.objects
      /\ Onward(A.level, B.level)
  BY GraphAdd
<1> HIDE DEF B
<1>2. B.object = [A.object EXCEPT ![o].m_tGraphID = v]
  BY <1>1
<1>3. B.object[o].m_tGraphID = v /\ v # NULL
  BY <1>2, Kinds DEF Typed, World, Objects
<1> QED
  BY <1>1, <1>2, <1>3 DEF B

LEMMA EnterOnline ==
    ASSUME NEW A, Typed(A), NEW o \in IDs, A.object[o] \in Objects, NEW v \in Vertices \cup {NULL},
           A.object[o].m_bOnline \/ ~A.object[o].used_ai_locations, o \notin A.level.objects
    PROVE  LET B == Enter(A, o, v)
           IN  /\ Typed(B) /\ B.scheduled = A.scheduled /\ B.threw = A.threw
               /\ B.object = A.object /\ B.points = A.points
               /\ B.level.objects = IF v # NULL /\ A.object[o].m_tGraphID = Here
                                    THEN A.level.objects \cup {o} ELSE A.level.objects
               /\ Onward(A.level, B.level)
<1> DEFINE x == A.object[o]
           in == ~x.m_bOnline /\ x.used_ai_locations
           B == Enter(A, o, v)
<1>1. /\ Typed(B) /\ B.scheduled = A.scheduled /\ B.threw = A.threw
      /\ B.object = IF in THEN [A.object EXCEPT ![o].m_tGraphID = v] ELSE A.object
      /\ B.points = IF in THEN [A.points EXCEPT ![v] = @ \cup {o}] ELSE A.points
      /\ B.level.objects = IF v # NULL /\ B.object[o].m_tGraphID = Here
                           THEN A.level.objects \cup {o} ELSE A.level.objects
      /\ Onward(A.level, B.level)
  BY GraphAdd
<1> HIDE DEF B
<1> QED
  BY <1>1 DEF B

LEMMA GraphAddOnly ==
    ASSUME NEW A, Typed(A), NEW o \in IDs, A.object[o] \in Objects, NEW v \in Vertices \cup {NULL},
           ~A.object[o].m_bOnline /\ A.object[o].used_ai_locations => v \in Vertices /\ o \notin A.points[v]
    PROVE  LET x == A.object[o]
               in == ~x.m_bOnline /\ x.used_ai_locations
               B == EnterOnly(A, o, v)
           IN  /\ Typed(B) /\ B.scheduled = A.scheduled /\ B.threw = A.threw
               /\ B.object = IF in THEN [A.object EXCEPT ![o].m_tGraphID = v] ELSE A.object
               /\ B.points = IF in THEN [A.points EXCEPT ![v] = @ \cup {o}] ELSE A.points
               /\ B.level = A.level
<1> DEFINE x == A.object[o]
           in == ~x.m_bOnline /\ x.used_ai_locations
           C == AtPoint(A, o, v)
           B == EnterOnly(A, o, v)
<1>1. B = C
  <2>1. CASE in
    <3>1. ~(x.m_bOnline \/ ~x.used_ai_locations) /\ o \notin A.points[v]
      BY <2>1
    <3> QED
      BY <2>1, <3>1 DEF Enter, EnterOnly, graph_add, AtPoint
  <2>2. CASE ~in
    <3>1. x.m_bOnline \/ ~x.used_ai_locations
      BY <2>2 DEF Objects
    <3> QED
      BY <2>2, <3>1 DEF Enter, EnterOnly, graph_add, AtPoint
  <2> QED
    BY <2>1, <2>2
<1>2. /\ Typed(C) /\ C.scheduled = A.scheduled /\ C.threw = A.threw /\ C.level = A.level
      /\ C.object = IF in THEN [A.object EXCEPT ![o].m_tGraphID = v] ELSE A.object
      /\ C.points = IF in THEN [A.points EXCEPT ![v] = @ \cup {o}] ELSE A.points
  BY PointAdd
<1> HIDE DEF C, B
<1> QED
  BY <1>1, <1>2 DEF B

OffPoint(A, o, v) == IF A.object[o].used_ai_locations THEN [A EXCEPT !.points[v] = @ \ {o}] ELSE A

LEMMA PointRemove ==
    ASSUME NEW A, Typed(A), NEW o \in IDs, NEW v \in Vertices \cup {NULL},
           A.object[o].used_ai_locations => v \in Vertices
    PROVE  LET C == OffPoint(A, o, v)
           IN  /\ Typed(C) /\ C.object = A.object /\ C.scheduled = A.scheduled /\ C.threw = A.threw
               /\ C.level = A.level
               /\ C.points = IF A.object[o].used_ai_locations THEN [A.points EXCEPT ![v] = @ \ {o}]
                             ELSE A.points
<1> DEFINE used == A.object[o].used_ai_locations
           C == OffPoint(A, o, v)
<1> USE DEF OffPoint
<1>1. CASE used
  <2> DEFINE P == [A.points EXCEPT ![v] = @ \ {o}]
  <2>1. P \in [Vertices -> SUBSET IDs]
    BY <1>1 DEF Typed, World
  <2>2. C = [A EXCEPT !.points = P]
    BY <1>1 DEF Typed, World
  <2> HIDE DEF P
  <2>3. /\ C \in World /\ C.object = A.object /\ C.points = P /\ C.level = A.level
        /\ C.scheduled = A.scheduled /\ C.threw = A.threw
    BY <2>1, <2>2 DEF Typed, World
  <2> QED
    BY <1>1, <2>3 DEF Typed, P
<1>2. CASE ~used
  BY <1>2
<1> QED
  BY <1>1, <1>2

LEMMA GraphRemove ==
    ASSUME NEW A, Typed(A), NEW o \in IDs, A.object[o] \in Objects, NEW v \in Vertices \cup {NULL},
           A.object[o].used_ai_locations => v \in Vertices /\ o \in A.points[v]
    PROVE  LET B == Leave(A, o, v)
           IN  /\ Typed(B) /\ B.object = A.object /\ B.scheduled = A.scheduled
               /\ B.points = IF A.object[o].used_ai_locations THEN [A.points EXCEPT ![v] = @ \ {o}]
                             ELSE A.points
               /\ B.level.objects = A.level.objects \ {o}
               /\ Onward(A.level, B.level)
               /\ B.threw \subseteq A.threw \cup {o}
               /\ v # Here \/ o \in A.level.objects => B.threw = A.threw
<1> DEFINE used == A.object[o].used_ai_locations
           C == OffPoint(A, o, v)
           B == Leave(A, o, v)
<1>1. B = level_remove(C, o, v # Here)
  BY DEF Leave, LeaveOnly, graph_remove, OffPoint
<1>2. /\ Typed(C) /\ C.object = A.object /\ C.scheduled = A.scheduled /\ C.threw = A.threw
      /\ C.level = A.level
      /\ C.points = IF used THEN [A.points EXCEPT ![v] = @ \ {o}] ELSE A.points
  BY PointRemove
<1> HIDE DEF C, B
<1>3. /\ Typed(B) /\ B.object = C.object /\ B.points = C.points
      /\ B.scheduled = C.scheduled
      /\ B.level.objects = C.level.objects \ {o}
      /\ Onward(C.level, B.level)
      /\ B.threw \subseteq C.threw \cup {o}
      /\ o \in C.level.objects \/ v # Here => B.threw = C.threw
  BY <1>1, <1>2, LevelRemove, ZenonT(30)
<1> QED
  BY <1>2, <1>3 DEF B

LEMMA GraphRemoveOnly ==
    ASSUME NEW A, Typed(A), NEW o \in IDs, A.object[o] \in Objects, NEW v \in Vertices \cup {NULL},
           A.object[o].used_ai_locations => v \in Vertices /\ o \in A.points[v]
    PROVE  LET B == LeaveOnly(A, o, v)
           IN  /\ Typed(B) /\ B.object = A.object /\ B.scheduled = A.scheduled
               /\ B.points = IF A.object[o].used_ai_locations THEN [A.points EXCEPT ![v] = @ \ {o}]
                             ELSE A.points
               /\ B.level = A.level /\ B.threw = A.threw
<1>1. LeaveOnly(A, o, v) = OffPoint(A, o, v)
  BY DEF Leave, LeaveOnly, graph_remove, OffPoint
<1>2. A.object[o].used_ai_locations => v \in Vertices
  OBVIOUS
<1>3. LET C == OffPoint(A, o, v)
      IN  /\ Typed(C) /\ C.object = A.object /\ C.scheduled = A.scheduled /\ C.threw = A.threw
          /\ C.level = A.level
          /\ C.points = IF A.object[o].used_ai_locations THEN [A.points EXCEPT ![v] = @ \ {o}]
                        ELSE A.points
  BY <1>2, PointRemove
<1> QED
  BY <1>1, <1>3

-----------------------------------------------------------------------------
(* The same, object by object.                                             *)

\* Nothing of the others has changed.
Apart(A, B, S) ==
    \A p \in IDs \ S : /\ B.object[p] = A.object[p]
                       /\ p \in B.level.objects <=> p \in A.level.objects
                       /\ p \in B.scheduled.objects <=> p \in A.scheduled.objects
                       /\ \A w \in Vertices : p \in B.points[w] <=> p \in A.points[w]

LEMMA ApartTwice ==
    ASSUME NEW A, NEW B, NEW C, NEW S, NEW T, NEW U, Apart(A, B, S), Apart(B, C, T), S \cup T \subseteq U
    PROVE  Apart(A, C, U)
  BY DEF Apart

Moved(x, v)   == [x EXCEPT !.m_tGraphID = v]
Grouped(x, g) == [x EXCEPT !.m_group_id = g]
Put(A, o, x)  == [A EXCEPT !.object[o] = x]

LEMMA PutFacts ==
    ASSUME NEW A, Typed(A), NEW o \in IDs, NEW x \in Objects \cup {NULL}
    PROVE  LET B == Put(A, o, x)
           IN  /\ Typed(B) /\ Apart(A, B, {o}) /\ B.object[o] = x
               /\ B.points = A.points /\ B.level = A.level /\ B.scheduled = A.scheduled
               /\ B.threw = A.threw
<1> DEFINE O == [A.object EXCEPT ![o] = x]
           B == Put(A, o, x)
<1>1. A \in World /\ A.object \in [IDs -> Objects \cup {NULL}]
  BY DEF Typed, World
<1>2. B = [A EXCEPT !.object = O]
  BY <1>1 DEF Put, World
<1>3. /\ O \in [IDs -> Objects \cup {NULL}] /\ O[o] = x
      /\ \A p \in IDs \ {o} : O[p] = A.object[p]
  BY <1>1
<1> HIDE DEF O, B
<1>4. /\ B \in World /\ B.object = O /\ B.points = A.points /\ B.level = A.level
      /\ B.scheduled = A.scheduled /\ B.threw = A.threw
  BY <1>1, <1>2, <1>3 DEF World
<1> QED
  BY <1>3, <1>4 DEF Apart, Typed, B

\* What it means for o to have entered v, offline or not, and to have left it.
Entered(A, B, o, v) ==
    /\ Typed(B) /\ Apart(A, B, {o}) /\ B.threw = A.threw /\ Onward(A.level, B.level)
    /\ B.object[o] = Moved(A.object[o], v)
    /\ o \in B.level.objects <=> v = Here
    /\ B.scheduled = A.scheduled
    /\ \A w \in Vertices : o \in B.points[w] <=> w = v \/ o \in A.points[w]
    /\ A.level.objects \subseteq B.level.objects

EnteredOnline(A, B, o, v) ==
    /\ Typed(B) /\ Apart(A, B, {o}) /\ B.threw = A.threw /\ Onward(A.level, B.level)
    /\ B.object[o] = A.object[o]
    /\ o \in B.level.objects <=> v # NULL /\ A.object[o].m_tGraphID = Here
    /\ B.scheduled = A.scheduled
    /\ \A w \in Vertices : o \in B.points[w] <=> o \in A.points[w]
    /\ A.level.objects \subseteq B.level.objects

Left(A, B, o, v) ==
    /\ Typed(B) /\ Apart(A, B, {o}) /\ Onward(A.level, B.level)
    /\ B.object[o] = A.object[o]
    /\ o \notin B.level.objects
    /\ B.scheduled = A.scheduled
    /\ \A w \in Vertices : o \in B.points[w] <=>
           o \in A.points[w] /\ (w = v => ~A.object[o].used_ai_locations)
    /\ B.level.objects \subseteq A.level.objects
    /\ B.threw \subseteq A.threw \cup {o}
    /\ v # Here \/ o \in A.level.objects => B.threw = A.threw

LEMMA EnterFacts ==
    ASSUME NEW A, Typed(A), NEW o \in IDs, A.object[o] \in Objects, NEW v \in Vertices,
           ~A.object[o].m_bOnline, A.object[o].used_ai_locations,
           o \notin A.points[v], o \notin A.level.objects
    PROVE  Entered(A, Enter(A, o, v), o, v)
<1> DEFINE B == Enter(A, o, v)
<1>1. /\ Typed(B) /\ B.scheduled = A.scheduled /\ B.threw = A.threw
      /\ B.object = [A.object EXCEPT ![o].m_tGraphID = v]
      /\ B.points = [A.points EXCEPT ![v] = @ \cup {o}]
      /\ B.level.objects = IF v = Here THEN A.level.objects \cup {o} ELSE A.level.objects
      /\ Onward(A.level, B.level)
  BY EnterOffline
<1> HIDE DEF B
<1>2. B.object[o] = Moved(A.object[o], v) /\ \A p \in IDs \ {o} : B.object[p] = A.object[p]
  BY <1>1 DEF Typed, World, Moved
<1>3. \A w \in Vertices : B.points[w] = IF w = v THEN A.points[w] \cup {o} ELSE A.points[w]
  BY <1>1 DEF Typed, World
<1>4. Apart(A, B, {o})
  BY <1>1, <1>2, <1>3 DEF Apart
<1> QED
  BY <1>1, <1>2, <1>3, <1>4 DEF B, Entered

LEMMA EnterOnlineFacts ==
    ASSUME NEW A, Typed(A), NEW o \in IDs, A.object[o] \in Objects, NEW v \in Vertices \cup {NULL},
           A.object[o].m_bOnline \/ ~A.object[o].used_ai_locations, o \notin A.level.objects
    PROVE  EnteredOnline(A, Enter(A, o, v), o, v)
<1> DEFINE B == Enter(A, o, v)
<1>1. /\ Typed(B) /\ B.scheduled = A.scheduled /\ B.threw = A.threw
      /\ B.object = A.object /\ B.points = A.points
      /\ B.level.objects = IF v # NULL /\ A.object[o].m_tGraphID = Here
                           THEN A.level.objects \cup {o} ELSE A.level.objects
      /\ Onward(A.level, B.level)
  BY EnterOnline
<1> HIDE DEF B
<1>2. Apart(A, B, {o})
  BY <1>1 DEF Apart
<1> QED
  BY <1>1, <1>2 DEF B, EnteredOnline

LEMMA LeaveFacts ==
    ASSUME NEW A, Typed(A), NEW o \in IDs, A.object[o] \in Objects, NEW v \in Vertices \cup {NULL},
           A.object[o].used_ai_locations => v \in Vertices /\ o \in A.points[v]
    PROVE  Left(A, Leave(A, o, v), o, v)
<1> DEFINE B == Leave(A, o, v)
<1>1. /\ Typed(B) /\ B.object = A.object /\ B.scheduled = A.scheduled
      /\ B.points = IF A.object[o].used_ai_locations THEN [A.points EXCEPT ![v] = @ \ {o}]
                    ELSE A.points
      /\ B.level.objects = A.level.objects \ {o}
      /\ Onward(A.level, B.level)
      /\ B.threw \subseteq A.threw \cup {o}
      /\ v # Here \/ o \in A.level.objects => B.threw = A.threw
  BY GraphRemove
<1> HIDE DEF B
<1>2. \A w \in Vertices : B.points[w] = IF A.object[o].used_ai_locations /\ w = v
                                        THEN A.points[w] \ {o} ELSE A.points[w]
  BY <1>1, ZenonT(30) DEF Typed, World
<1>3. Apart(A, B, {o})
  BY <1>1, <1>2 DEF Apart
<1> QED
  BY <1>1, <1>2, <1>3 DEF B, Left

-----------------------------------------------------------------------------
(* The objects, the registries and the groups agree.                       *)

\* What holds of everybody but the astray, W, and of them; the members of the groups aside.
Fair(A, W) == Typed(A) /\ \A o \in IDs \ W : Sound(A, o) /\ Placed(A, o)

Rest(A, W) == /\ W \subseteq IDs
              /\ \A o \in W : Steady(A, o)
              /\ \A o \in IDs : Bound(A, W, o)

Good(A, W) == /\ Fair(A, W) /\ Rest(A, W)
              /\ \A g \in Groups \ W : \A s \in Members(A, g) : Together(A, s, g)

LEMMA ObjectType ==
    ASSUME NEW A, Typed(A), NEW o \in IDs, A.object[o] # NULL
    PROVE  A.object[o] \in Objects
  BY DEF Typed, World

\* An object that an operation leaves alone stays sound and in its place.
LEMMA Untouched ==
    ASSUME NEW A, NEW W, Fair(A, W), NEW B, NEW S, Apart(A, B, S), NEW p \in IDs \ S, p \notin W,
           p \in Groups => (Members(B, p) # {} <=> Members(A, p) # {})
    PROVE  Sound(B, p) /\ Placed(B, p)
<1>1. Sound(A, p) /\ Placed(A, p)
  BY DEF Fair
<1>2. Loose(B, p) <=> Loose(A, p)
  BY DEF Loose, Apart
<1>3. Sound(B, p)
  BY <1>1 DEF Sound, Apart
<1>4. Placed(B, p)
  BY <1>1, <1>2 DEF Placed, Apart
<1> QED
  BY <1>3, <1>4

\* Members of a group that keeps them, and how they stay together.
LEMMA SameMembers ==
    ASSUME NEW A, NEW B, NEW g,
           \A s \in Stalkers : (B.object[s] # NULL /\ B.object[s].m_group_id = g)
                               <=> (A.object[s] # NULL /\ A.object[s].m_group_id = g)
    PROVE  Members(B, g) = Members(A, g)
  BY DEF Members

LEMMA StillTogether ==
    ASSUME NEW A, NEW B, NEW g \in Groups, NEW s \in Members(B, g),
           s \in Members(A, g) => Together(A, s, g),
           B.object[s] = A.object[s], B.object[g] = A.object[g]
    PROVE  Together(B, s, g)
<1>1. s \in Members(A, g)
  BY DEF Members
<1> QED
  BY <1>1 DEF Together

\* A member belongs to somebody who is registered, and no group has a group.
LEMMA Owner ==
    ASSUME NEW A, NEW W, Fair(A, W), Rest(A, W), NEW o \in IDs, A.object[o] # NULL,
           A.object[o].m_group_id # NULL
    PROVE  /\ o \in Stalkers /\ A.object[o].m_group_id \in Groups
           /\ A.object[A.object[o].m_group_id] # NULL
           /\ o \in Members(A, A.object[o].m_group_id)
           /\ o \in W <=> A.object[o].m_group_id \in W
<1>1. o \in Stalkers
  <2>1. o \in Groups => A.object[o].m_group_id = NULL
    BY DEF Fair, Rest, Sound, Steady
  <2> QED
    BY <2>1, Kinds
<1>2. A.object[o] \in Objects
  BY ObjectType DEF Fair
<1> QED
  BY <1>1, <1>2 DEF Rest, Bound, Members, Objects

\* What is left of order with the astray outlasts what happens to anybody, if it does with him.
LEMMA RestStirred ==
    ASSUME NEW A, NEW W, Fair(A, W), Rest(A, W), NEW B, NEW S, Apart(A, B, S),
           \A g \in S : B.object[g] = NULL => Members(A, g) = {},
           \A o \in IDs \cap S : Bound(B, W, o) /\ (o \in W => Steady(B, o))
    PROVE  Rest(B, W)
<1>1. ASSUME NEW o \in W, o \notin S
      PROVE  Steady(B, o)
  <2>1. Steady(A, o) /\ o \in IDs \ S
    BY <1>1 DEF Rest
  <2> QED
    BY <2>1 DEF Steady, Apart
<1>2. ASSUME NEW o \in IDs \ S
      PROVE  Bound(B, W, o)
  <2> SUFFICES ASSUME B.object[o] # NULL, B.object[o].m_group_id # NULL
               PROVE  /\ B.object[B.object[o].m_group_id] # NULL
                      /\ o \in W <=> B.object[o].m_group_id \in W
    BY DEF Bound
  <2> DEFINE g == A.object[o].m_group_id
  <2>1. B.object[o] = A.object[o]
    BY DEF Apart
  <2>2. /\ g \in Groups /\ A.object[g] # NULL /\ o \in Members(A, g)
        /\ o \in W <=> g \in W
    BY <2>1, Owner
  <2>3. g \in IDs
    BY <2>2, Kinds
  <2> HIDE DEF g
  <2>4. B.object[g] # NULL
    BY <2>2, <2>3 DEF Apart
  <2> QED
    BY <2>1, <2>2, <2>4 DEF g
<1> QED
  BY <1>1, <1>2 DEF Rest

LEMMA RestKept ==
    ASSUME NEW A, NEW W, Fair(A, W), Rest(A, W), NEW B, NEW S, Apart(A, B, S), S \cap W = {},
           \A g \in S : B.object[g] = NULL => Members(A, g) = {},
           \A o \in IDs \cap S : Bound(B, W, o)
    PROVE  Rest(B, W)
<1>1. \A o \in IDs \cap S : Bound(B, W, o) /\ (o \in W => Steady(B, o))
  OBVIOUS
<1> QED
  BY <1>1, RestStirred

\* A stalker on his way: out of one vertex and into the next.
LEMMA ChangeGood ==
    ASSUME NEW A, NEW W, Good(A, W), NEW s \in Stalkers, NEW v \in Vertices, s \in A.scheduled.objects,
           s \notin W
    PROVE  LET B == change(A, s, v)
           IN  Good(B, W) /\ B.threw = A.threw
<1> DEFINE x == A.object[s]
           u == x.m_tGraphID
           C == Leave(A, s, u)
           B == Enter(C, s, v)
<1>1. /\ Typed(A) /\ Fair(A, W) /\ Rest(A, W) /\ s \in IDs /\ x # NULL /\ Loose(A, s) /\ ~x.m_bOnline /\ x.alive
      /\ x.used_ai_locations /\ u # NULL /\ x.m_group_id = NULL /\ Placed(A, s)
      /\ s \notin Groups
  BY Kinds DEF Good, Fair, Sound, Placed, Loose
<1>2. x \in Objects /\ u \in Vertices
  <2>1. x \in Objects
    BY <1>1, ObjectType
  <2> QED
    BY <1>1, <2>1 DEF Objects
<1>3. /\ s \in A.points[u] /\ \A w \in Vertices : w # u => s \notin A.points[w]
      /\ s \in A.level.objects <=> u = Here
  BY <1>1, <1>2 DEF Placed
<1> HIDE DEF u
<1>4. /\ Typed(C) /\ Apart(A, C, {s}) /\ C.object[s] = A.object[s] /\ s \notin C.level.objects
      /\ C.scheduled = A.scheduled /\ \A w \in Vertices : s \notin C.points[w]
      /\ C.threw = A.threw
  <2>1. Left(A, C, s, u)
    BY <1>1, <1>2, <1>3, LeaveFacts
  <2> HIDE DEF C
  <2> QED
    BY <1>1, <1>3, <2>1 DEF Left
<1> HIDE DEF C
<1>5. C.object[s] \in Objects /\ ~C.object[s].m_bOnline /\ C.object[s].used_ai_locations
  BY <1>1, <1>2, <1>4
<1>6. /\ Typed(B) /\ Apart(C, B, {s}) /\ B.threw = C.threw /\ B.object[s] = Moved(C.object[s], v)
      /\ s \in B.level.objects <=> v = Here
      /\ B.scheduled = C.scheduled
      /\ \A w \in Vertices : s \in B.points[w] <=> w = v \/ s \in C.points[w]
  <2>1. Entered(C, B, s, v)
    BY <1>1, <1>4, <1>5, EnterFacts
  <2> HIDE DEF B
  <2> QED
    BY <2>1 DEF Entered
<1>7. B = change(A, s, v)
  BY DEF change, Enter, Leave, C, u
<1> HIDE DEF B
<1>8. Apart(A, B, {s})
  BY <1>4, <1>6, ApartTwice
<1>9. /\ B.object[s].m_tGraphID = v /\ B.object[s].m_group_id = NULL /\ ~B.object[s].m_bOnline
      /\ B.object[s].alive /\ B.object[s].used_ai_locations /\ B.object[s] # NULL
  <2>1. B.object[s] \in Objects
    BY <1>4, <1>5, <1>6 DEF Objects, Moved
  <2> QED
    BY <1>1, <1>2, <1>4, <1>6, <2>1, Kinds DEF Objects, Moved
<1>10. \A g : g # NULL => Members(B, g) = Members(A, g)
  <2> SUFFICES ASSUME NEW g, g # NULL PROVE Members(B, g) = Members(A, g)
    OBVIOUS
  <2>1. ASSUME NEW t \in Stalkers
        PROVE  (B.object[t] # NULL /\ B.object[t].m_group_id = g)
               <=> (A.object[t] # NULL /\ A.object[t].m_group_id = g)
    BY <1>1, <1>8, <1>9, Kinds DEF Apart
  <2> QED
    BY <2>1, SameMembers
<1>11. ASSUME NEW p \in IDs, p # s, p \notin W
       PROVE  Sound(B, p) /\ Placed(B, p)
  <2>1. p \in Groups => (Members(B, p) # {} <=> Members(A, p) # {})
    BY <1>10, Kinds
  <2> QED
    BY <1>1, <1>8, <1>11, <2>1, Untouched
<1>12. Sound(B, s)
  BY <1>1, <1>9, Kinds DEF Sound
<1>13. Placed(B, s)
  <2>1. Loose(B, s)
    BY <1>1, <1>9 DEF Loose
  <2> QED
    BY <1>1, <1>4, <1>6, <1>9, <2>1 DEF Placed
<1>14. ASSUME NEW g \in Groups \ W, NEW t \in Members(B, g)
       PROVE  Together(B, t, g)
  <2>1. t \in Stalkers /\ t \in IDs /\ t # s /\ g \in IDs /\ g # s
    BY <1>1, <1>9, Kinds DEF Members
  <2>2. B.object[t] = A.object[t] /\ B.object[g] = A.object[g]
    BY <1>8, <2>1 DEF Apart
  <2>3. t \in Members(A, g) => Together(A, t, g)
    BY DEF Good
  <2> QED
    BY <2>2, <2>3, StillTogether
<1>15. Rest(B, W)
  <2>1. Bound(B, W, s) /\ B.object[s] # NULL
    BY <1>9 DEF Bound
  <2> QED
    BY <1>1, <1>8, <2>1, RestKept
<1> QED
  BY <1>4, <1>6, <1>7, <1>11, <1>12, <1>13, <1>14, <1>15 DEF Good, Fair

\* One step of the world: everything agrees again, the iterator has passed nobody who
\* stays, and it has thrown over nobody but groups that are no more.
Evolved(W, A, B) ==
    /\ Good(B, W) /\ Onward(A.level, B.level)
    /\ \A o \in B.threw : o \in A.threw \/ (o \in Groups /\ B.object[o] = NULL)

LEMMA MembersApart ==
    ASSUME NEW A, NEW B, NEW S, Apart(A, B, S), NEW g,
           \A t \in Stalkers \cap S : (B.object[t] # NULL /\ B.object[t].m_group_id = g)
                                      <=> (A.object[t] # NULL /\ A.object[t].m_group_id = g)
    PROVE  Members(B, g) = Members(A, g)
<1>1. ASSUME NEW t \in Stalkers
      PROVE  (B.object[t] # NULL /\ B.object[t].m_group_id = g)
             <=> (A.object[t] # NULL /\ A.object[t].m_group_id = g)
  BY Kinds DEF Apart
<1> QED
  BY <1>1, SameMembers

\* A group that is not registered has no members.
LEMMA NoMembers ==
    ASSUME NEW A, NEW W, Good(A, W), NEW g \in Groups, A.object[g] = NULL
    PROVE  Members(A, g) = {}
<1>1. ASSUME NEW s \in Members(A, g) PROVE FALSE
  <2>1. s \in IDs /\ A.object[s] # NULL /\ A.object[s].m_group_id = g /\ g # NULL
    BY Kinds DEF Members
  <2> QED
    BY <2>1, Owner DEF Good
<1> QED
  BY <1>1

\* The places of one who is not registered.
LEMMA Nowhere ==
    ASSUME NEW A, NEW W, Fair(A, W), NEW o \in IDs, A.object[o] = NULL, o \notin W
    PROVE  /\ o \notin A.level.objects /\ o \notin A.scheduled.objects
           /\ \A w \in Vertices : o \notin A.points[w]
<1>1. Placed(A, o) /\ ~Loose(A, o)
  BY DEF Fair, Loose
<1> QED
  BY <1>1, Kinds DEF Placed

LEMMA RegisterObject ==
    ASSUME NEW A, NEW W, Good(A, W), NEW o \in IDs \ W, A.object[o] = NULL, NEW x \in Objects,
           x.m_group_id = NULL,
           o \in Stalkers => /\ x.used_ai_locations /\ x.m_tGraphID # NULL
                             /\ x.m_bOnline => x.m_tGraphID = Here,
           o \in Groups => /\ ~x.m_bOnline /\ x.alive /\ x.m_tGraphID = NULL
                           /\ ~x.used_ai_locations
    PROVE  Evolved(W, A, register_object(A, o, x))
<1> DEFINE v == x.m_tGraphID
           C == Put(A, o, x)
           D == Enter(C, o, v)
           B == scheduled_add(D, o)
<1>1. /\ Fair(A, W) /\ Rest(A, W) /\ Typed(A) /\ x # NULL /\ v \in Vertices \cup {NULL}
      /\ o \notin A.level.objects /\ o \notin A.scheduled.objects
      /\ \A w \in Vertices : o \notin A.points[w]
  BY Nowhere, Kinds DEF Good, Fair, Objects
<1>2. /\ Typed(C) /\ Apart(A, C, {o}) /\ C.object[o] = x
      /\ C.points = A.points /\ C.level = A.level /\ C.scheduled = A.scheduled
      /\ C.threw = A.threw
  BY <1>1, PutFacts
<1>3. B = register_object(A, o, x)
  BY <1>2 DEF register_object, graph_update, Put, Enter
<1> HIDE DEF C, v
<1>4. /\ Typed(D) /\ Apart(C, D, {o}) /\ D.threw = C.threw /\ Onward(C.level, D.level)
      /\ D.object[o] = x /\ D.scheduled = C.scheduled
      /\ o \in D.level.objects <=> v = Here
      /\ \A w \in Vertices : o \in D.points[w] <=> ~x.m_bOnline /\ w = v
  <2>1. CASE o \in Stalkers /\ ~x.m_bOnline
    <3>1. v \in Vertices /\ C.object[o].used_ai_locations
      BY <1>1, <1>2, <2>1 DEF v
    <3>2. Entered(C, D, o, v)
      BY <1>1, <1>2, <2>1, <3>1, EnterFacts
    <3> HIDE DEF D
    <3>3. Moved(x, v) = x
      BY DEF Moved, v, Objects
    <3> QED
      BY <1>1, <1>2, <2>1, <3>2, <3>3 DEF Entered
  <2>2. CASE o \in Groups \/ x.m_bOnline
    <3>1. C.object[o].m_bOnline \/ ~C.object[o].used_ai_locations
      BY <1>2, <2>2
    <3>2. EnteredOnline(C, D, o, v)
      BY <1>1, <1>2, <3>1, EnterOnlineFacts
    <3> HIDE DEF D
    <3>3. /\ Typed(D) /\ Apart(C, D, {o}) /\ D.threw = C.threw /\ Onward(C.level, D.level)
          /\ D.object[o] = x /\ D.scheduled = C.scheduled
          /\ o \in D.level.objects <=> v # NULL /\ v = Here
          /\ \A w \in Vertices : o \notin D.points[w]
      BY <1>1, <1>2, <3>2 DEF EnteredOnline, v
    <3>4. \A w \in Vertices : ~(~x.m_bOnline /\ w = v)
      BY <2>2, Kinds DEF v
    <3> QED
      BY <3>3, <3>4, Kinds
  <2> QED
    BY <2>1, <2>2, Kinds
<1> HIDE DEF D
<1>5. o \notin D.scheduled.objects
  BY <1>1, <1>2, <1>4
<1>6. need_update(D, o) <=> o \in Stalkers /\ ~x.m_bOnline /\ x.alive
  BY <1>4, Kinds DEF need_update
<1>7. /\ Typed(B) /\ B.object = D.object /\ B.points = D.points
      /\ B.level = D.level /\ B.threw = D.threw
      /\ B.scheduled.objects = IF need_update(D, o) THEN D.scheduled.objects \cup {o}
                               ELSE D.scheduled.objects
  BY <1>4, <1>5, ScheduledAdd
<1> HIDE DEF B
<1>8. Apart(D, B, {o})
  BY <1>7 DEF Apart
<1>9. Apart(A, B, {o})
  <2>1. Apart(A, D, {o})
    BY <1>2, <1>4, ApartTwice
  <2> QED
    BY <1>8, <2>1, ApartTwice
<1>10. B.object[o] = x
  BY <1>4, <1>7
<1>11. \A g : g # NULL => Members(B, g) = Members(A, g)
  BY <1>9, <1>10, MembersApart
<1>12. ASSUME NEW p \in IDs, p # o, p \notin W
       PROVE  Sound(B, p) /\ Placed(B, p)
  <2>1. p \in Groups => (Members(B, p) # {} <=> Members(A, p) # {})
    BY <1>11, Kinds
  <2> QED
    BY <1>1, <1>9, <1>12, <2>1, Untouched
<1>13. o \in Groups => Members(B, o) = {}
  BY <1>11, NoMembers, Kinds
<1>14. Sound(B, o)
  BY <1>10, <1>13, Kinds DEF Sound
<1>15. Loose(B, o) <=> o \in Stalkers
  BY <1>1, <1>10, <1>13, Kinds DEF Loose
<1>16. Placed(B, o)
  <2>1. o \in B.level.objects <=> v = Here
    BY <1>4, <1>7
  <2>2. \A w \in Vertices : o \in B.points[w] <=> ~x.m_bOnline /\ w = v
    BY <1>4, <1>7
  <2>3. o \in B.scheduled.objects <=> o \in Stalkers /\ ~x.m_bOnline /\ x.alive
    BY <1>5, <1>6, <1>7
  <2>4. v = x.m_tGraphID /\ (o \in Groups => v = NULL /\ o \notin Stalkers)
    BY Kinds DEF v
  <2> QED
    BY <1>10, <1>15, <2>1, <2>2, <2>3, <2>4, Kinds DEF Placed
<1>17. ASSUME NEW g \in Groups \ W, NEW t \in Members(B, g)
       PROVE  Together(B, t, g)
  <2>1. t \in Members(A, g) /\ Together(A, t, g)
    BY <1>11, <1>17, Kinds DEF Good
  <2>2. t \in IDs /\ t # o /\ g \in IDs /\ g # o
    BY <2>1, Kinds DEF Members, Together
  <2>3. B.object[t] = A.object[t] /\ B.object[g] = A.object[g]
    BY <1>9, <2>2 DEF Apart
  <2> QED
    BY <2>1, <2>3, StillTogether
<1>18. Good(B, W)
  <2>1. Rest(B, W)
    <3>1. Bound(B, W, o) /\ B.object[o] # NULL
      BY <1>1, <1>10 DEF Bound
    <3> QED
      BY <1>1, <1>9, <3>1, RestKept
  <2> QED
    BY <1>7, <1>12, <1>14, <1>16, <1>17, <2>1 DEF Good, Fair
<1> QED
  BY <1>2, <1>3, <1>4, <1>7, <1>18 DEF Evolved


\* The group of one who has joined: it is where he is.
Used(y, v) == [y EXCEPT !.m_tGraphID = v, !.used_ai_locations = TRUE]

\* The first part of register_member: the stalker has joined, and nobody has left a place.
Joined(A, g, s) ==
    LET joined == [A EXCEPT !.object[s].m_group_id = g]
    IN  IF Members(A, g) # {} THEN joined
        ELSE graph_update([joined EXCEPT !.object[g].m_tGraphID = A.object[s].m_tGraphID,
                                         !.object[g].used_ai_locations = TRUE], g)

HasJoined(A, D, g, s) ==
    LET x == A.object[s]
        v == x.m_tGraphID
    IN  /\ Typed(D) /\ Apart(A, D, {s, g}) /\ D.threw = A.threw /\ Onward(A.level, D.level)
        /\ D.object[s] = Grouped(x, g) /\ D.object[g] = Used(A.object[g], v)
        /\ s \in D.level.objects <=> s \in A.level.objects
        /\ g \in D.level.objects <=> v = Here
        /\ D.scheduled = A.scheduled
        /\ \A w \in Vertices : /\ s \in D.points[w] <=> s \in A.points[w]
                               /\ g \in D.points[w] <=> ~x.m_bOnline /\ w = v
        /\ A.level.objects \subseteq D.level.objects

\* What is known when a script registers a member.
MayJoin(W, A, g, s) ==
    /\ Good(A, W) /\ g \notin W /\ s \notin W /\ A.object[g] # NULL /\ A.object[s] # NULL
    /\ A.object[s].alive /\ A.object[s].m_group_id = NULL
    /\ A.object[s].m_bOnline = A.object[g].m_bOnline
    /\ Members(A, g) # {} => A.object[s].m_tGraphID = A.object[g].m_tGraphID

LEMMA MayJoinFacts ==
    ASSUME NEW A, NEW W, NEW g \in Groups, NEW s \in Stalkers, MayJoin(W, A, g, s)
    PROVE  LET x == A.object[s]
               y == A.object[g]
           IN  /\ Fair(A, W) /\ Typed(A) /\ s \in IDs /\ g \in IDs /\ s # g
               /\ x \in Objects /\ y \in Objects /\ x.m_tGraphID \in Vertices
               /\ x.used_ai_locations /\ y.alive /\ y.m_group_id = NULL
               /\ x.m_bOnline => x.m_tGraphID = Here
               /\ x.m_bOnline <=> y.m_bOnline
               /\ Loose(A, s) /\ (Loose(A, g) <=> Members(A, g) # {})
               /\ Sound(A, s) /\ Placed(A, s) /\ Sound(A, g) /\ Placed(A, g)
<1> DEFINE x == A.object[s]
           y == A.object[g]
<1>1. /\ Fair(A, W) /\ Typed(A) /\ s \in IDs /\ g \in IDs /\ s # g /\ x # NULL /\ y # NULL
      /\ s \notin Groups /\ g \notin Stalkers
      /\ Sound(A, s) /\ Placed(A, s) /\ Sound(A, g) /\ Placed(A, g)
  BY Kinds DEF MayJoin, Good, Fair
<1>2. x \in Objects /\ y \in Objects
  BY <1>1, ObjectType
<1>3. x.used_ai_locations /\ y.alive /\ y.m_group_id = NULL /\ x.m_tGraphID # NULL
      /\ (x.m_bOnline => x.m_tGraphID = Here)
  BY <1>1 DEF Sound
<1>4. x.m_tGraphID \in Vertices
  BY <1>2, <1>3 DEF Objects
<1>5. Loose(A, s) /\ (Loose(A, g) <=> Members(A, g) # {})
  BY <1>1, <1>3 DEF Loose, MayJoin
<1>6. x.m_bOnline <=> y.m_bOnline
  BY DEF MayJoin
<1> QED
  BY <1>1, <1>2, <1>3, <1>4, <1>5, <1>6

LEMMA JoinedFacts ==
    ASSUME NEW A, NEW W, NEW g \in Groups, NEW s \in Stalkers, MayJoin(W, A, g, s)
    PROVE  HasJoined(A, Joined(A, g, s), g, s)
<1> DEFINE x == A.object[s]
           y == A.object[g]
           v == x.m_tGraphID
           J == Put(A, s, Grouped(x, g))
<1>1. /\ Fair(A, W) /\ Typed(A) /\ s \in IDs /\ g \in IDs /\ s # g
      /\ x \in Objects /\ y \in Objects /\ v \in Vertices
      /\ x.used_ai_locations /\ y.alive /\ y.m_group_id = NULL
      /\ x.m_bOnline => v = Here
      /\ x.m_bOnline <=> y.m_bOnline
      /\ Loose(A, s) /\ (Loose(A, g) <=> Members(A, g) # {})
      /\ Sound(A, s) /\ Placed(A, s) /\ Sound(A, g) /\ Placed(A, g)
  BY MayJoinFacts
<1>2. Grouped(x, g) \in Objects
  BY <1>1 DEF Grouped, Objects
<1>3. /\ Typed(J) /\ Apart(A, J, {s}) /\ J.object[s] = Grouped(x, g)
      /\ J.points = A.points /\ J.level = A.level /\ J.scheduled = A.scheduled
      /\ J.threw = A.threw
  BY <1>1, <1>2, PutFacts
<1>4. J = [A EXCEPT !.object[s].m_group_id = g]
  BY <1>1 DEF Put, Grouped, Typed, World
<1> HIDE DEF J
<1>5. J.object[g] = y
  BY <1>1, <1>3 DEF Apart
<1>6. CASE Members(A, g) # {}
  <2>1. Joined(A, g, s) = J
    BY <1>4, <1>6 DEF Joined
  <2>2. y.used_ai_locations /\ y.m_tGraphID = v
    BY <1>1, <1>6, ObjectType DEF MayJoin, Sound
  <2>3. Used(y, v) = y
    BY <1>1, <2>2 DEF Used, Objects
  <2>4. /\ g \in J.level.objects <=> v = Here
        /\ \A w \in Vertices : g \in J.points[w] <=> ~x.m_bOnline /\ w = v
    BY <1>1, <1>3, <1>6, <2>2 DEF Placed
  <2>5. Apart(A, J, {s, g})
    BY <1>3 DEF Apart
  <2> QED
    BY <1>3, <1>5, <2>1, <2>3, <2>4, <2>5, OnwardSame DEF HasJoined
<1>7. CASE Members(A, g) = {}
  <2> DEFINE K == Put(J, g, Used(y, v))
             D == Enter(K, g, v)
  <2>1. Used(y, v) \in Objects
    BY <1>1 DEF Used, Objects
  <2>2. /\ Typed(K) /\ Apart(J, K, {g}) /\ K.object[g] = Used(y, v)
        /\ K.points = J.points /\ K.level = J.level /\ K.scheduled = J.scheduled
        /\ K.threw = J.threw
    BY <1>1, <1>3, <2>1, PutFacts
  <2>3. K = [J EXCEPT !.object[g].m_tGraphID = v, !.object[g].used_ai_locations = TRUE]
    BY <1>1, <1>3, <1>5 DEF Put, Used, Typed, World
  <2> HIDE DEF K
  <2>4. /\ K.object[g].m_tGraphID = v /\ K.object[g].used_ai_locations
        /\ K.object[g].m_bOnline <=> x.m_bOnline
    BY <1>1, <2>2 DEF Used, Objects
  <2>5. Joined(A, g, s) = D
    BY <1>4, <1>7, <2>3, <2>4 DEF Joined, graph_update, Enter
  <2>6. g \notin A.level.objects /\ \A w \in Vertices : g \notin A.points[w]
    BY <1>1, <1>7 DEF Placed
  <2>7. /\ Typed(D) /\ Apart(K, D, {g}) /\ D.threw = K.threw /\ Onward(K.level, D.level)
        /\ D.object[g] = Used(y, v) /\ D.scheduled = K.scheduled
        /\ g \in D.level.objects <=> v = Here
        /\ \A w \in Vertices : g \in D.points[w] <=> ~x.m_bOnline /\ w = v
        /\ K.level.objects \subseteq D.level.objects
    <3>1. CASE x.m_bOnline
      <4>1. EnteredOnline(K, D, g, v)
        BY <1>1, <1>3, <2>1, <2>2, <2>4, <2>6, <3>1, EnterOnlineFacts
      <4> HIDE DEF D
      <4> QED
        BY <1>1, <1>3, <2>2, <2>4, <2>6, <3>1, <4>1, Kinds DEF EnteredOnline
    <3>2. CASE ~x.m_bOnline
      <4>1. Entered(K, D, g, v)
        BY <1>1, <1>3, <2>1, <2>2, <2>4, <2>6, <3>2, EnterFacts
      <4> HIDE DEF D
      <4>2. Moved(Used(y, v), v) = Used(y, v)
        BY <1>1, <2>1 DEF Moved, Used, Objects
      <4> QED
        BY <1>1, <1>3, <2>2, <2>4, <2>6, <3>2, <4>1, <4>2, Kinds DEF Entered
    <3> QED
      BY <3>1, <3>2
  <2> HIDE DEF D
  <2>8. Apart(A, D, {s, g})
    <3>1. Apart(J, D, {g})
      BY <2>2, <2>7, ApartTwice
    <3> QED
      BY <1>3, <3>1, ApartTwice
  <2>9. Apart(J, D, {g})
    BY <2>2, <2>7, ApartTwice
  <2>10. /\ D.object[s] = Grouped(x, g)
         /\ s \in D.level.objects <=> s \in A.level.objects
         /\ \A w \in Vertices : s \in D.points[w] <=> s \in A.points[w]
    BY <1>1, <1>3, <2>9 DEF Apart
  <2> QED
    BY <1>3, <2>2, <2>5, <2>7, <2>8, <2>10 DEF HasJoined
<1> QED
  BY <1>6, <1>7


\* With the second part he has left his places.
LEMMA MemberRegistered ==
    ASSUME NEW A, NEW W, NEW g \in Groups, NEW s \in Stalkers, MayJoin(W, A, g, s)
    PROVE  LET B == register_member(A, g, s)
           IN  Evolved(W, A, B)
<1> DEFINE x == A.object[s]
           y == A.object[g]
           v == x.m_tGraphID
           D == Joined(A, g, s)
           E == Leave(D, s, v)
           B == register_member(A, g, s)
<1>1. /\ Fair(A, W) /\ Typed(A) /\ s \in IDs /\ g \in IDs /\ s # g
      /\ x \in Objects /\ y \in Objects /\ v \in Vertices
      /\ x.used_ai_locations /\ y.alive /\ y.m_group_id = NULL
      /\ x.m_bOnline => v = Here
      /\ x.m_bOnline <=> y.m_bOnline
      /\ Loose(A, s) /\ (Loose(A, g) <=> Members(A, g) # {})
      /\ Sound(A, s) /\ Placed(A, s) /\ Sound(A, g) /\ Placed(A, g)
  BY MayJoinFacts
<1>2. /\ Typed(D) /\ Apart(A, D, {s, g}) /\ D.threw = A.threw /\ Onward(A.level, D.level)
      /\ D.object[s] = Grouped(x, g) /\ D.object[g] = Used(y, v)
      /\ s \in D.level.objects <=> s \in A.level.objects
      /\ g \in D.level.objects <=> v = Here
      /\ D.scheduled = A.scheduled
      /\ \A w \in Vertices : /\ s \in D.points[w] <=> s \in A.points[w]
                             /\ g \in D.points[w] <=> ~x.m_bOnline /\ w = v
      /\ A.level.objects \subseteq D.level.objects
  <2>1. HasJoined(A, D, g, s)
    BY JoinedFacts
  <2> HIDE DEF D
  <2> QED
    BY <2>1 DEF HasJoined
<1>3. B = IF x.m_bOnline THEN level_remove(D, s, FALSE) ELSE scheduled_remove(E, s)
  BY DEF register_member, Joined, Leave
<1> HIDE DEF D, B
<1>4. /\ D.object[s] \in Objects /\ D.object[s].alive = x.alive /\ D.object[s].m_group_id = g
      /\ D.object[s].m_tGraphID = v /\ D.object[s].used_ai_locations
      /\ D.object[s].m_bOnline = x.m_bOnline
  BY <1>1, <1>2 DEF Grouped, Objects
<1>5. /\ D.object[g] \in Objects /\ D.object[g].alive /\ D.object[g].m_group_id = NULL
      /\ D.object[g].m_tGraphID = v /\ D.object[g].used_ai_locations
      /\ D.object[g].m_bOnline = y.m_bOnline
  BY <1>1, <1>2 DEF Used, Objects
<1>6. /\ Typed(B) /\ Apart(D, B, {s}) /\ B.threw = D.threw /\ Onward(D.level, B.level)
      /\ B.object[s] = D.object[s]
      /\ s \notin B.level.objects /\ s \notin B.scheduled.objects
      /\ \A w \in Vertices : s \notin B.points[w]
      /\ B.level.objects \subseteq D.level.objects
  <2>1. CASE x.m_bOnline
    <3>1. B = level_remove(D, s, FALSE)
      BY <1>3, <2>1
    <3>2. s \in D.level.objects /\ s \notin D.scheduled.objects /\ \A w \in Vertices : s \notin D.points[w]
      BY <1>1, <1>2, <2>1 DEF Placed
    <3>3. level_remove(D, s, FALSE) = level_remove(D, s, TRUE)
      BY <3>2 DEF level_remove
    <3>4. TRUE \in BOOLEAN
      OBVIOUS
    <3>5. \E no_assert \in BOOLEAN : B = level_remove(D, s, no_assert)
      BY <3>1, <3>3, <3>4
    <3>6. PICK no_assert \in BOOLEAN : B = level_remove(D, s, no_assert)
      BY <3>5
    <3>7. /\ Typed(B) /\ B.object = D.object /\ B.points = D.points
          /\ B.scheduled = D.scheduled
          /\ B.level.objects = D.level.objects \ {s}
          /\ Onward(D.level, B.level)
          /\ B.threw = D.threw
      BY <1>1, <1>2, <3>2, <3>6, LevelRemove
    <3>8. Apart(D, B, {s})
      BY <3>7 DEF Apart
    <3> QED
      BY <3>2, <3>7, <3>8
  <2>2. CASE ~x.m_bOnline
    <3>1. s \in A.points[v] /\ (s \in A.level.objects <=> v = Here)
          /\ \A w \in Vertices : s \in A.points[w] => w = v
      BY <1>1, <2>2 DEF Placed
    <3>2. Left(D, E, s, v)
      BY <1>1, <1>2, <1>4, <3>1, LeaveFacts
    <3>3. B = scheduled_remove(E, s)
      BY <1>3, <2>2
    <3> HIDE DEF E
    <3>4. /\ Typed(E) /\ Apart(D, E, {s}) /\ Onward(D.level, E.level) /\ E.object[s] = D.object[s]
          /\ s \notin E.level.objects /\ E.scheduled = D.scheduled
          /\ \A w \in Vertices : s \notin E.points[w]
          /\ E.level.objects \subseteq D.level.objects
          /\ E.threw = D.threw
      BY <1>1, <1>2, <1>4, <3>1, <3>2 DEF Left
    <3>5. s \in E.scheduled.objects
      BY <1>1, <1>2, <2>2, <3>4 DEF Placed, MayJoin
    <3>6. /\ Typed(B) /\ B.object = E.object /\ B.points = E.points
          /\ B.level = E.level /\ B.threw = E.threw
          /\ B.scheduled.objects = E.scheduled.objects \ {s}
      BY <1>1, <3>3, <3>4, <3>5, ScheduledRemove
    <3>7. Apart(E, B, {s})
      BY <3>6 DEF Apart
    <3>8. Apart(D, B, {s})
      BY <3>4, <3>7, ApartTwice
    <3> QED
      BY <3>4, <3>6, <3>8
  <2> QED
    BY <2>1, <2>2
<1>7. Apart(A, B, {s, g})
  BY <1>2, <1>6, ApartTwice
<1>8. /\ B.object[g] = D.object[g] /\ (g \in B.level.objects <=> v = Here)
      /\ g \in B.scheduled.objects <=> g \in A.scheduled.objects
      /\ \A w \in Vertices : g \in B.points[w] <=> ~x.m_bOnline /\ w = v
  BY <1>1, <1>2, <1>6 DEF Apart
<1>9. B.object[s] # NULL /\ B.object[g] # NULL
  BY <1>4, <1>5, <1>6, <1>8, Kinds
<1>10. s \in Members(B, g)
  BY <1>4, <1>6, <1>9 DEF Members
<1>11. ASSUME NEW h \in Groups, NEW t \in Members(B, h), t # s
       PROVE  t \in Members(A, h) /\ B.object[t] = A.object[t]
  BY <1>1, <1>7, <1>11, Kinds DEF Members, Apart
<1>12. \A h \in Groups : h # g => Members(B, h) = Members(A, h)
  <2> SUFFICES ASSUME NEW h \in Groups, h # g
               PROVE  Members(B, h) = Members(A, h)
    OBVIOUS
  <2>1. \A t \in Stalkers \cap {s, g} : (B.object[t] # NULL /\ B.object[t].m_group_id = h)
                                        <=> (A.object[t] # NULL /\ A.object[t].m_group_id = h)
    BY <1>1, <1>4, <1>6, Kinds DEF MayJoin
  <2> QED
    BY <1>7, <2>1, MembersApart
<1>13. ASSUME NEW p \in IDs, p # s, p # g, p \notin W
       PROVE  Sound(B, p) /\ Placed(B, p)
  <2>1. p \in Groups => (Members(B, p) # {} <=> Members(A, p) # {})
    BY <1>12, <1>13
  <2> QED
    BY <1>1, <1>7, <1>13, <2>1, Untouched
<1>14. Sound(B, s) /\ Sound(B, g)
  BY <1>1, <1>4, <1>5, <1>6, <1>8, <1>10, Kinds DEF Sound
<1>15. ~Loose(B, s) /\ Loose(B, g)
  BY <1>4, <1>5, <1>6, <1>8, <1>9, <1>10, Kinds DEF Loose
<1>16. Placed(B, s)
  BY <1>6, <1>15, Kinds DEF Placed
<1>17. Placed(B, g)
  <2>1. g \in A.scheduled.objects => ~y.m_bOnline
    BY <1>1 DEF Placed
  <2> QED
    BY <1>1, <1>5, <1>8, <1>9, <1>15, <2>1, Kinds DEF Placed
<1>18. ASSUME NEW h \in Groups \ W, NEW t \in Members(B, h)
       PROVE  Together(B, t, h)
  <2>1. CASE t = s
    <3>1. h = g
      BY <1>4, <1>6, <2>1 DEF Members
    <3> QED
      BY <1>1, <1>4, <1>5, <1>6, <1>8, <1>9, <2>1, <3>1, ZenonT(30) DEF Together, MayJoin
  <2>2. CASE t # s
    <3>1. t \in Members(A, h) /\ B.object[t] = A.object[t]
      BY <1>11, <2>2
    <3>2. Together(A, t, h)
      BY <3>1 DEF MayJoin, Good
    <3>3. CASE h = g
      <4>1. A.object[t].alive /\ y.m_bOnline = A.object[t].m_bOnline /\ y.m_tGraphID = A.object[t].m_tGraphID
        BY <3>2, <3>3 DEF Together
      <4>2. y.m_tGraphID = v
        BY <3>1, <3>3 DEF MayJoin
      <4> QED
        BY <1>5, <1>8, <1>9, <3>1, <3>3, <4>1, <4>2 DEF Together
    <3>4. CASE h # g
      <4>1. B.object[h] = A.object[h]
        BY <1>1, <1>7, <3>4, Kinds DEF Apart
      <4> QED
        BY <3>1, <3>2, <4>1, StillTogether
    <3> QED
      BY <3>3, <3>4
  <2> QED
    BY <2>1, <2>2
<1>19. Good(B, W)
  <2>1. Bound(B, W, s) /\ Bound(B, W, g)
    BY <1>4, <1>5, <1>6, <1>8, <1>9 DEF Bound, MayJoin
  <2>2. Rest(A, W) /\ {s, g} \cap W = {}
    BY DEF MayJoin, Good
  <2>3. Rest(B, W)
    BY <1>1, <1>7, <1>9, <2>1, <2>2, RestKept
  <2> QED
    BY <1>6, <1>13, <1>14, <1>16, <1>17, <1>18, <2>3 DEF Good, Fair
<1>20. Onward(A.level, B.level)
  BY <1>2, <1>6, OnwardTwice
<1> QED
  BY <1>2, <1>6, <1>19, <1>20 DEF Evolved, B


\* What is known of one who leaves his group, though he may just have died.
MayPart(W, A, s) ==
    LET x == A.object[s]
        g == x.m_group_id
    IN  /\ Fair(A, W) /\ Rest(A, W) /\ s \notin W /\ x # NULL /\ g # NULL
        /\ A.object[g] # NULL /\ A.object[g].m_bOnline = x.m_bOnline
        /\ A.object[g].m_tGraphID = x.m_tGraphID
        /\ \A h \in Groups \ W : \A t \in Members(A, h) : t # s => Together(A, t, h)

LEMMA MayPartFacts ==
    ASSUME NEW A, NEW W, NEW s \in Stalkers, MayPart(W, A, s)
    PROVE  LET x == A.object[s]
               g == x.m_group_id
               y == A.object[g]
           IN  /\ Typed(A) /\ s \in IDs /\ g \in IDs /\ g \in Groups /\ g \notin W /\ s # g /\ s \notin Groups
               /\ x \in Objects /\ y \in Objects /\ x.m_tGraphID \in Vertices
               /\ x.used_ai_locations /\ y.used_ai_locations /\ y.alive /\ y.m_group_id = NULL
               /\ x.m_bOnline => x.m_tGraphID = Here
               /\ x.m_bOnline <=> y.m_bOnline
               /\ y.m_tGraphID = x.m_tGraphID
               /\ ~Loose(A, s) /\ Loose(A, g) /\ s \in Members(A, g)
               /\ Sound(A, s) /\ Placed(A, s) /\ Sound(A, g) /\ Placed(A, g)
               /\ s \notin A.level.objects /\ s \notin A.scheduled.objects
               /\ \A w \in Vertices : s \notin A.points[w]
<1> DEFINE x == A.object[s]
           g == x.m_group_id
           y == A.object[g]
<1>1. Typed(A) /\ s \in IDs /\ s \notin Groups /\ x # NULL /\ g # NULL
  BY Kinds DEF MayPart, Fair
<1>2. x \in Objects
  BY <1>1, ObjectType
<1>3. g \in Groups /\ g \in IDs /\ g \notin W /\ s # g /\ g \notin Stalkers
  <2>1. g \in Groups /\ g \notin W
    BY <1>1, Owner DEF MayPart
  <2> QED
    BY <1>1, <2>1, Kinds
<1> HIDE DEF g
<1>4. /\ y # NULL /\ (y.m_bOnline <=> x.m_bOnline) /\ y.m_tGraphID = x.m_tGraphID
      /\ Sound(A, s) /\ Placed(A, s) /\ Sound(A, g) /\ Placed(A, g)
  BY <1>1, <1>3 DEF MayPart, Fair, g
<1>5. y \in Objects
  BY <1>1, <1>3, <1>4, ObjectType
<1>6. s \in Members(A, g)
  BY <1>1 DEF Members, g
<1>7. /\ x.used_ai_locations /\ y.alive /\ y.m_group_id = NULL /\ y.used_ai_locations
      /\ x.m_tGraphID # NULL /\ (x.m_bOnline => x.m_tGraphID = Here)
  <2>1. x.used_ai_locations /\ x.m_tGraphID # NULL /\ (x.m_bOnline => x.m_tGraphID = Here)
    BY <1>1, <1>4 DEF Sound
  <2>2. y.alive /\ y.m_group_id = NULL /\ y.used_ai_locations
    BY <1>3, <1>4, <1>6 DEF Sound
  <2> QED
    BY <2>1, <2>2
<1>8. x.m_tGraphID \in Vertices
  BY <1>2, <1>7 DEF Objects
<1>9. ~Loose(A, s) /\ Loose(A, g)
  BY <1>1, <1>4, <1>6, <1>7 DEF Loose, g
<1>10. s \notin A.level.objects /\ s \notin A.scheduled.objects /\ \A w \in Vertices : s \notin A.points[w]
  BY <1>4, <1>9 DEF Placed
<1> QED
  BY <1>1, <1>2, <1>3, <1>4, <1>5, <1>6, <1>7, <1>8, <1>9, <1>10 DEF g

\* The first part: he is on his own again, in all his places.
Parted(A, s) == scheduled_add(graph_update([A EXCEPT !.object[s].m_group_id = NULL], s), s)

HasParted(A, E, s) ==
    LET x == A.object[s]
        v == x.m_tGraphID
    IN  /\ Typed(E) /\ Apart(A, E, {s}) /\ E.threw = A.threw /\ Onward(A.level, E.level)
        /\ E.object[s] = Grouped(x, NULL)
        /\ s \in E.level.objects <=> v = Here
        /\ s \in E.scheduled.objects <=> ~x.m_bOnline /\ x.alive
        /\ \A w \in Vertices : s \in E.points[w] <=> ~x.m_bOnline /\ w = v
        /\ A.level.objects \subseteq E.level.objects

LEMMA PartedFacts ==
    ASSUME NEW A, NEW W, NEW s \in Stalkers, MayPart(W, A, s)
    PROVE  HasParted(A, Parted(A, s), s)
<1> DEFINE x == A.object[s]
           v == x.m_tGraphID
           J == Put(A, s, Grouped(x, NULL))
           D == Enter(J, s, v)
           E == scheduled_add(D, s)
<1>1. /\ Typed(A) /\ s \in IDs /\ x \in Objects /\ v \in Vertices
      /\ x.used_ai_locations
      /\ x.m_bOnline => v = Here
      /\ s \notin A.level.objects /\ s \notin A.scheduled.objects
      /\ \A w \in Vertices : s \notin A.points[w]
  BY MayPartFacts
<1>2. /\ Grouped(x, NULL) \in Objects /\ Grouped(x, NULL).m_tGraphID = v
      /\ Grouped(x, NULL).used_ai_locations
      /\ Grouped(x, NULL).m_bOnline <=> x.m_bOnline
      /\ Grouped(x, NULL).alive <=> x.alive
  BY <1>1 DEF Grouped, Objects
<1>3. /\ Typed(J) /\ Apart(A, J, {s}) /\ J.object[s] = Grouped(x, NULL)
      /\ J.points = A.points /\ J.level = A.level /\ J.scheduled = A.scheduled
      /\ J.threw = A.threw
  <2> DEFINE z == Grouped(x, NULL)
  <2>1. z \in Objects /\ Typed(A) /\ s \in IDs
    BY <1>1, <1>2
  <2> HIDE DEF z
  <2>2. LET B == Put(A, s, z)
        IN  /\ Typed(B) /\ Apart(A, B, {s}) /\ B.object[s] = z
            /\ B.points = A.points /\ B.level = A.level /\ B.scheduled = A.scheduled
            /\ B.threw = A.threw
    BY <2>1, PutFacts
  <2> QED
    BY <2>2 DEF z
<1>4. J = [A EXCEPT !.object[s].m_group_id = NULL]
  BY <1>1 DEF Put, Grouped, Typed, World
<1> HIDE DEF J
<1>5. E = Parted(A, s)
  BY <1>2, <1>3, <1>4 DEF Parted, graph_update, Enter
<1>6. /\ Typed(D) /\ Apart(J, D, {s}) /\ D.threw = J.threw /\ Onward(J.level, D.level)
      /\ D.object[s] = Grouped(x, NULL) /\ D.scheduled = J.scheduled
      /\ s \in D.level.objects <=> v = Here
      /\ \A w \in Vertices : s \in D.points[w] <=> ~x.m_bOnline /\ w = v
      /\ J.level.objects \subseteq D.level.objects
  <2>1. CASE x.m_bOnline
    <3>1. EnteredOnline(J, D, s, v)
      BY <1>1, <1>2, <1>3, <2>1, EnterOnlineFacts
    <3> HIDE DEF D
    <3> QED
      BY <1>1, <1>2, <1>3, <2>1, <3>1, Kinds DEF EnteredOnline
  <2>2. CASE ~x.m_bOnline
    <3>1. Entered(J, D, s, v)
      BY <1>1, <1>2, <1>3, <2>2, EnterFacts
    <3> HIDE DEF D
    <3>2. Moved(Grouped(x, NULL), v) = Grouped(x, NULL)
      BY <1>1, <1>2 DEF Moved, Objects
    <3> QED
      BY <1>1, <1>2, <1>3, <2>2, <3>1, <3>2 DEF Entered
  <2> QED
    BY <2>1, <2>2
<1> HIDE DEF D
<1>7. s \notin D.scheduled.objects
  BY <1>1, <1>3, <1>6
<1>8. need_update(D, s) <=> ~x.m_bOnline /\ x.alive
  BY <1>2, <1>6 DEF need_update
<1>9. /\ Typed(E) /\ E.object = D.object /\ E.points = D.points
      /\ E.level = D.level /\ E.threw = D.threw
      /\ E.scheduled.objects = IF need_update(D, s) THEN D.scheduled.objects \cup {s}
                               ELSE D.scheduled.objects
  BY <1>1, <1>6, <1>7, ScheduledAdd
<1> HIDE DEF E
<1>10. s \in E.scheduled.objects <=> ~x.m_bOnline /\ x.alive
  BY <1>7, <1>8, <1>9
<1>11. Apart(A, E, {s})
  <2>1. Apart(D, E, {s})
    BY <1>9 DEF Apart
  <2>2. Apart(A, D, {s})
    BY <1>3, <1>6, ApartTwice
  <2> QED
    BY <2>1, <2>2, ApartTwice
<1>12. HasParted(A, E, s)
  BY <1>3, <1>6, <1>9, <1>10, <1>11 DEF HasParted
<1> QED
  BY <1>5, <1>12


\* A group whose last member has left has no place.
Unused(y) == [y EXCEPT !.used_ai_locations = FALSE]

LEMMA MemberUnregistered ==
    ASSUME NEW A, NEW W, NEW s \in Stalkers, MayPart(W, A, s)
    PROVE  LET B == unregister_member(A, s)
           IN  /\ Evolved(W, A, B) /\ B.threw = A.threw
               /\ B.object[s] = Grouped(A.object[s], NULL)
<1> DEFINE x == A.object[s]
           v == x.m_tGraphID
           g == x.m_group_id
           y == A.object[g]
           E == Parted(A, s)
           F == IF y.m_bOnline THEN level_remove(E, g, FALSE) ELSE Leave(E, g, y.m_tGraphID)
           G == Put(F, g, Unused(y))
           B == unregister_member(A, s)
<1>1. /\ Typed(A) /\ s \in IDs /\ g \in IDs /\ g \in Groups /\ g \notin W /\ s # g /\ s \notin Groups
      /\ x \in Objects /\ y \in Objects /\ v \in Vertices
      /\ x.used_ai_locations /\ y.used_ai_locations /\ y.alive /\ y.m_group_id = NULL
      /\ x.m_bOnline => v = Here
      /\ x.m_bOnline <=> y.m_bOnline
      /\ y.m_tGraphID = v
      /\ ~Loose(A, s) /\ Loose(A, g) /\ s \in Members(A, g)
      /\ Sound(A, s) /\ Placed(A, s) /\ Sound(A, g) /\ Placed(A, g)
      /\ s \notin A.level.objects
  BY MayPartFacts
<1>2. /\ Typed(E) /\ Apart(A, E, {s}) /\ E.threw = A.threw /\ Onward(A.level, E.level)
      /\ E.object[s] = Grouped(x, NULL)
      /\ s \in E.level.objects <=> v = Here
      /\ s \in E.scheduled.objects <=> ~x.m_bOnline /\ x.alive
      /\ \A w \in Vertices : s \in E.points[w] <=> ~x.m_bOnline /\ w = v
      /\ A.level.objects \subseteq E.level.objects
  <2>1. HasParted(A, E, s)
    BY PartedFacts
  <2> HIDE DEF E
  <2> QED
    BY <2>1 DEF HasParted
<1>3. /\ Grouped(x, NULL) \in Objects /\ Grouped(x, NULL).m_tGraphID = v
      /\ Grouped(x, NULL).m_group_id = NULL
      /\ Grouped(x, NULL).used_ai_locations
      /\ Grouped(x, NULL).m_bOnline <=> x.m_bOnline
      /\ Grouped(x, NULL).alive <=> x.alive
  BY <1>1 DEF Grouped, Objects
<1>4. B = IF Members(E, g) # {} THEN E ELSE [F EXCEPT !.object[g].used_ai_locations = FALSE]
  BY DEF unregister_member, Parted, Leave
<1> HIDE DEF E, B
<1>5. E.object[g] = y
  BY <1>1, <1>2 DEF Apart
<1>6. /\ Apart(A, E, {s, g})
  BY <1>2 DEF Apart
<1>7. ASSUME NEW H, Apart(E, H, {g}), Typed(H), Onward(E.level, H.level),
             H.level.objects \subseteq E.level.objects, H.object[g] # NULL,
             H.object[g].m_group_id = NULL, Sound(H, g), Placed(H, g), Members(H, g) = Members(E, g), H.threw = E.threw,
             Members(H, g) # {} => H.object[g] = y
      PROVE  Evolved(W, A, H) /\ H.threw = A.threw /\ H.object[s] = Grouped(x, NULL)
  <2>1. Apart(A, H, {s, g})
    BY <1>2, <1>7, ApartTwice
  <2>2. /\ H.object[s] = Grouped(x, NULL)
        /\ s \in H.level.objects <=> v = Here
        /\ s \in H.scheduled.objects <=> ~x.m_bOnline /\ x.alive
        /\ \A w \in Vertices : s \in H.points[w] <=> ~x.m_bOnline /\ w = v
    BY <1>1, <1>2, <1>7 DEF Apart
  <2>3. H.object[s] # NULL
    BY <1>3, <2>2, Kinds
  <2>4. Sound(H, s) /\ Placed(H, s)
    <3>1. Sound(H, s)
      BY <1>1, <1>3, <2>2, Kinds DEF Sound
    <3>2. Loose(H, s)
      BY <1>1, <1>3, <2>2, <2>3 DEF Loose
    <3>3. Placed(H, s)
      BY <1>1, <1>3, <2>2, <3>2 DEF Placed
    <3> QED
      BY <3>1, <3>3
  <2>5. ASSUME NEW h \in Groups, NEW t \in Members(H, h)
        PROVE  t # s /\ t \in IDs /\ t \in Members(A, h) /\ H.object[t] = A.object[t]
    <3>1. t # s
      BY <1>3, <2>2, <2>5, Kinds DEF Members
    <3> QED
      BY <2>1, <2>5, <3>1, <1>1, Kinds DEF Members, Apart
  <2>6. ASSUME NEW h \in Groups, h # g
        PROVE  Members(H, h) = Members(A, h)
    <3>1. \A t \in Stalkers \cap {s, g} : (H.object[t] # NULL /\ H.object[t].m_group_id = h)
                                          <=> (A.object[t] # NULL /\ A.object[t].m_group_id = h)
      BY <1>1, <1>3, <2>2, <2>6, Kinds
    <3> QED
      BY <2>1, <3>1, MembersApart
  <2>7. ASSUME NEW p \in IDs, p # s, p # g, p \notin W
        PROVE  Sound(H, p) /\ Placed(H, p)
    <3>1. p \in Groups => (Members(H, p) # {} <=> Members(A, p) # {})
      BY <2>6, <2>7
    <3>2. Fair(A, W)
      BY DEF MayPart
    <3> QED
      BY <2>1, <2>7, <3>1, <3>2, Untouched
  <2>8. ASSUME NEW h \in Groups \ W, NEW t \in Members(H, h)
        PROVE  Together(H, t, h)
    <3>1. t # s /\ t \in Members(A, h) /\ H.object[t] = A.object[t]
      BY <2>5, <2>8
    <3>2. Together(A, t, h)
      BY <3>1 DEF MayPart
    <3>3. H.object[h] = A.object[h]
      <4>1. CASE h = g
        BY <1>7, <2>8, <4>1
      <4>2. CASE h # g
        BY <1>1, <2>1, <4>2, Kinds DEF Apart
      <4> QED
        BY <4>1, <4>2
    <3> QED
      BY <3>1, <3>2, <3>3, StillTogether
  <2>9. Good(H, W)
    <3>1. Bound(H, W, s) /\ Bound(H, W, g)
      BY <1>3, <1>7, <2>2 DEF Bound
    <3>2. Fair(A, W) /\ Rest(A, W) /\ {s, g} \cap W = {}
      BY <1>1 DEF MayPart
    <3>3. Rest(H, W)
      BY <1>7, <2>1, <2>3, <3>1, <3>2, RestKept
    <3> QED
      BY <1>7, <2>4, <2>7, <2>8, <3>3 DEF Good, Fair
  <2>10. Onward(A.level, H.level)
    BY <1>2, <1>7, OnwardTwice
  <2> QED
    BY <1>2, <1>7, <2>2, <2>9, <2>10 DEF Evolved
<1>8. /\ g \in E.level.objects <=> v = Here
      /\ g \in E.scheduled.objects <=> g \in A.scheduled.objects
      /\ \A w \in Vertices : g \in E.points[w] <=> ~x.m_bOnline /\ w = v
      /\ g \in A.scheduled.objects => ~y.m_bOnline
  BY <1>1, <1>2 DEF Placed, Apart
<1>9. CASE Members(E, g) # {}
  <2>1. B = E
    BY <1>4, <1>9
  <2>2. Apart(E, E, {g}) /\ Onward(E.level, E.level)
    BY OnwardSame DEF Apart
  <2>3. Sound(E, g)
    BY <1>1, <1>5, <1>9, Kinds DEF Sound
  <2>4. Loose(E, g)
    BY <1>1, <1>5, <1>9, Kinds, SMTT(30) DEF Loose
  <2>5. Placed(E, g)
    BY <1>1, <1>5, <1>8, <2>4, Kinds DEF Placed
  <2>6. E.object[g] # NULL /\ E.object[g].m_group_id = NULL
    BY <1>1, <1>5, Kinds
  <2> QED
    BY <1>2, <1>5, <1>7, <2>1, <2>2, <2>3, <2>5, <2>6 DEF B
<1>10. CASE Members(E, g) = {}
  <2>1. /\ Typed(F) /\ Apart(E, F, {g}) /\ Onward(E.level, F.level)
        /\ F.object[g] = y /\ g \notin F.level.objects
        /\ F.scheduled = E.scheduled
        /\ \A w \in Vertices : g \notin F.points[w]
        /\ F.level.objects \subseteq E.level.objects
        /\ F.threw = E.threw
    <3>1. CASE y.m_bOnline
      <4>1. F = level_remove(E, g, FALSE)
        BY <3>1
      <4>2. g \in E.level.objects /\ \A w \in Vertices : g \notin E.points[w]
        BY <1>1, <1>8, <3>1
      <4>3. level_remove(E, g, FALSE) = level_remove(E, g, TRUE)
        BY <4>2 DEF level_remove
      <4>4. \E no_assert \in BOOLEAN : F = level_remove(E, g, no_assert)
        <5>1. TRUE \in BOOLEAN
          OBVIOUS
        <5> QED
          BY <4>1, <4>3, <5>1
      <4>5. PICK no_assert \in BOOLEAN : F = level_remove(E, g, no_assert)
        BY <4>4
      <4> HIDE DEF F
      <4>6. /\ Typed(F) /\ F.object = E.object /\ F.points = E.points
            /\ F.scheduled = E.scheduled
            /\ F.level.objects = E.level.objects \ {g}
            /\ Onward(E.level, F.level)
            /\ F.threw = E.threw
        BY <1>1, <1>2, <4>2, <4>5, LevelRemove, SMTT(30)
      <4>7. Apart(E, F, {g})
        BY <4>6 DEF Apart
      <4> QED
        BY <1>5, <4>2, <4>6, <4>7
    <3>2. CASE ~y.m_bOnline
      <4>1. F = Leave(E, g, v)
        BY <1>1, <3>2
      <4>2. g \in E.points[v] /\ \A w \in Vertices : g \in E.points[w] => w = v
        BY <1>1, <1>8, <3>2
      <4>3. Left(E, F, g, v)
        BY <1>1, <1>2, <1>5, <4>1, <4>2, LeaveFacts
      <4> HIDE DEF F
      <4> QED
        BY <1>1, <1>5, <1>8, <4>2, <4>3 DEF Left
    <3> QED
      BY <3>1, <3>2, ZenonT(30)
  <2> HIDE DEF F
  <2>2. /\ Unused(y) \in Objects /\ ~Unused(y).used_ai_locations /\ Unused(y).alive
        /\ Unused(y).m_group_id = NULL /\ Unused(y).m_bOnline = y.m_bOnline
        /\ Unused(y).m_tGraphID = v
    BY <1>1 DEF Unused, Objects
  <2>3. Unused(y) \in Objects
    BY <2>2
  <2>4. /\ Typed(G) /\ Apart(F, G, {g}) /\ G.object[g] = Unused(y)
        /\ G.points = F.points /\ G.level = F.level /\ G.scheduled = F.scheduled
        /\ G.threw = F.threw
    <3> DEFINE z == Unused(y)
    <3>1. z \in Objects /\ Typed(F) /\ g \in IDs
      BY <1>1, <2>1, <2>3
    <3> HIDE DEF z
    <3>2. LET C == Put(F, g, z)
          IN  /\ Typed(C) /\ Apart(F, C, {g}) /\ C.object[g] = z
              /\ C.points = F.points /\ C.level = F.level /\ C.scheduled = F.scheduled
              /\ C.threw = F.threw
      BY <3>1, PutFacts, ZenonT(30)
    <3> QED
      BY <3>2 DEF z
  <2>5. B = G
    BY <1>1, <1>4, <1>10, <2>1 DEF Put, Unused, Typed, World
  <2> HIDE DEF G
  <2>6. Apart(E, G, {g})
    BY <2>1, <2>4, ApartTwice
  <2>7. Members(G, g) = {}
    <3>1. \A t \in Stalkers \cap {g} : (G.object[t] # NULL /\ G.object[t].m_group_id = g)
                                       <=> (E.object[t] # NULL /\ E.object[t].m_group_id = g)
      BY <1>1, Kinds, SMTT(30)
    <3> QED
      BY <1>10, <2>6, <3>1, MembersApart
  <2>8. Sound(G, g)
    BY <1>1, <2>2, <2>4, <2>7, Kinds DEF Sound
  <2>9. ~Loose(G, g)
    BY <1>1, <2>7, SMTT(30) DEF Loose
  <2>10. Placed(G, g)
    <3>1. /\ g \notin G.level.objects /\ \A w \in Vertices : g \notin G.points[w]
          /\ g \in G.scheduled.objects => ~y.m_bOnline
      BY <1>8, <2>1, <2>4
    <3> QED
      BY <1>1, <2>2, <2>4, <2>9, <3>1, Kinds, ZenonT(30) DEF Placed
  <2>11. G.object[g] # NULL /\ G.object[g].m_group_id = NULL
    BY <2>2, <2>4, Kinds
  <2> QED
    BY <1>7, <1>10, <2>1, <2>4, <2>5, <2>6, <2>7, <2>8, <2>10, <2>11, SMTT(30) DEF B
<1> QED
  BY <1>9, <1>10


\* Whoever is released has been taken out of his places first.
Gone(A, o) ==
    LET x == A.object[o]
    IN  Put(IF x.m_bOnline THEN level_remove(A, o, ~x.used_ai_locations)
            ELSE scheduled_remove(Leave(A, o, x.m_tGraphID), o), o, NULL)

LEMMA LooseReleased ==
    ASSUME NEW A, NEW W, Good(A, W), NEW o \in IDs \ W, A.object[o] # NULL, A.object[o].m_group_id = NULL,
           Members(A, o) = {}
    PROVE  Evolved(W, A, Gone(A, o)) /\ Gone(A, o).level.objects \subseteq A.level.objects
<1> DEFINE x == A.object[o]
           v == x.m_tGraphID
           L == Leave(A, o, v)
           C == IF x.m_bOnline THEN level_remove(A, o, ~x.used_ai_locations) ELSE scheduled_remove(L, o)
           H == Put(C, o, NULL)
<1>1. /\ Fair(A, W) /\ Typed(A) /\ Sound(A, o) /\ Placed(A, o) /\ x \in Objects
      /\ Loose(A, o) <=> o \in Stalkers
  <2>1. Fair(A, W) /\ Typed(A) /\ Sound(A, o) /\ Placed(A, o)
    BY DEF Good, Fair
  <2> QED
    BY <2>1, ObjectType, Kinds DEF Loose
<1>2. /\ o \in Stalkers => x.used_ai_locations /\ v \in Vertices
      /\ o \in Groups => ~x.used_ai_locations
      /\ v \in Vertices \cup {NULL} /\ x.m_bOnline \in BOOLEAN
  BY <1>1 DEF Sound, Objects
<1>3. /\ o \in Groups => /\ o \notin A.level.objects /\ \A w \in Vertices : o \notin A.points[w]
      /\ o \in Stalkers => /\ o \in A.level.objects <=> v = Here
                           /\ \A w \in Vertices : o \in A.points[w] <=> ~x.m_bOnline /\ v = w
                           /\ o \in A.scheduled.objects <=> ~x.m_bOnline /\ x.alive
                           /\ x.m_bOnline => v = Here
      /\ o \in A.scheduled.objects => ~x.m_bOnline
  BY <1>1, <1>2, Kinds, SMTT(30) DEF Placed, Sound
<1>4. /\ Typed(C) /\ Apart(A, C, {o}) /\ Onward(A.level, C.level)
      /\ o \notin C.level.objects /\ o \notin C.scheduled.objects
      /\ \A w \in Vertices : o \notin C.points[w]
      /\ C.level.objects \subseteq A.level.objects
      /\ C.threw \subseteq A.threw \cup {o}
      /\ o \in Stalkers => C.threw = A.threw
  <2>1. CASE x.m_bOnline
    <3>1. C = level_remove(A, o, ~x.used_ai_locations)
      BY <2>1
    <3>2. /\ (~x.used_ai_locations) \in BOOLEAN
          /\ o \in A.level.objects \/ ~x.used_ai_locations
      BY <1>2, <1>3, <2>1, Kinds
    <3>3. \E no_assert \in BOOLEAN : /\ C = level_remove(A, o, no_assert)
                                     /\ o \in A.level.objects \/ no_assert
      <4> DEFINE n == ~x.used_ai_locations
      <4>1. n \in BOOLEAN /\ (o \in A.level.objects \/ n) /\ C = level_remove(A, o, n)
        BY <3>1, <3>2
      <4> HIDE DEF n, C
      <4> QED
        BY <4>1
    <3>4. PICK no_assert \in BOOLEAN : /\ C = level_remove(A, o, no_assert)
                                       /\ o \in A.level.objects \/ no_assert
      BY <3>3
    <3> HIDE DEF C
    <3>5. /\ Typed(C) /\ C.object = A.object /\ C.points = A.points
          /\ C.scheduled = A.scheduled
          /\ C.level.objects = A.level.objects \ {o}
          /\ Onward(A.level, C.level)
          /\ C.threw = A.threw
      BY <1>1, <3>4, LevelRemove
    <3>6. Apart(A, C, {o})
      BY <3>5 DEF Apart
    <3>7. o \notin A.scheduled.objects /\ \A w \in Vertices : o \notin A.points[w]
      BY <1>3, <2>1, Kinds
    <3> QED
      BY <3>5, <3>6, <3>7
  <2>2. CASE ~x.m_bOnline
    <3>1. x.used_ai_locations => v \in Vertices /\ o \in A.points[v]
      BY <1>2, <1>3, <2>2, Kinds
    <3>2. Left(A, L, o, v)
      BY <1>1, <1>2, <3>1, LeaveFacts
    <3>3. C = scheduled_remove(L, o)
      BY <2>2
    <3> HIDE DEF L
    <3>4. /\ Typed(L) /\ Apart(A, L, {o}) /\ Onward(A.level, L.level)
          /\ L.object[o] = x /\ o \notin L.level.objects /\ L.scheduled = A.scheduled
          /\ L.level.objects \subseteq A.level.objects
          /\ L.threw \subseteq A.threw \cup {o}
          /\ v # Here \/ o \in A.level.objects => L.threw = A.threw
      BY <3>2 DEF Left
    <3>5. \A w \in Vertices : o \notin L.points[w]
      BY <1>2, <1>3, <2>2, <3>2, Kinds DEF Left
    <3>6. need_update(L, o) => o \in L.scheduled.objects
      BY <1>2, <1>3, <3>4, Kinds DEF need_update
    <3>7. /\ Typed(C) /\ C.object = L.object /\ C.points = L.points
          /\ C.level = L.level /\ C.threw = L.threw
          /\ C.scheduled.objects = L.scheduled.objects \ {o}
      BY <3>3, <3>4, <3>6, ScheduledRemove
    <3> HIDE DEF C
    <3>8. Apart(L, C, {o})
      BY <3>7 DEF Apart
    <3>9. Apart(A, C, {o})
      BY <3>4, <3>8, ApartTwice
    <3>10. o \in Stalkers => C.threw = A.threw
      BY <1>3, <3>4, <3>7
    <3> QED
      BY <3>4, <3>5, <3>7, <3>9, <3>10
  <2> QED
    BY <2>1, <2>2
<1> HIDE DEF C
<1>5. /\ Typed(H) /\ Apart(C, H, {o}) /\ H.object[o] = NULL
      /\ H.points = C.points /\ H.level = C.level /\ H.scheduled = C.scheduled
      /\ H.threw = C.threw
  BY <1>4, PutFacts
<1>6. H = Gone(A, o)
  BY DEF Gone, C
<1> HIDE DEF H
<1>7. Apart(A, H, {o})
  BY <1>4, <1>5, ApartTwice
<1>8. \A g : g # NULL => Members(H, g) = Members(A, g)
  <2> SUFFICES ASSUME NEW g, g # NULL
               PROVE  Members(H, g) = Members(A, g)
    OBVIOUS
  <2>1. \A t \in Stalkers \cap {o} : (H.object[t] # NULL /\ H.object[t].m_group_id = g)
                                     <=> (A.object[t] # NULL /\ A.object[t].m_group_id = g)
    BY <1>5
  <2> QED
    BY <1>7, <2>1, MembersApart
<1>9. Sound(H, o) /\ Placed(H, o)
  <2>1. Sound(H, o) /\ ~Loose(H, o)
    BY <1>5 DEF Sound, Loose
  <2> QED
    BY <1>4, <1>5, <2>1 DEF Placed
<1>10. ASSUME NEW p \in IDs, p # o, p \notin W
       PROVE  Sound(H, p) /\ Placed(H, p)
  <2>1. p \in Groups => (Members(H, p) # {} <=> Members(A, p) # {})
    BY <1>8, Kinds
  <2> QED
    BY <1>1, <1>7, <1>10, <2>1, Untouched
<1>11. ASSUME NEW g \in Groups \ W, NEW t \in Members(H, g)
       PROVE  Together(H, t, g)
  <2>1. t \in Members(A, g) /\ Together(A, t, g)
    BY <1>8, <1>11, Kinds DEF Good
  <2>2. t \in IDs /\ t # o /\ g \in IDs /\ g # o
    BY <1>5, <1>11, <2>1, Kinds DEF Members
  <2>3. H.object[t] = A.object[t] /\ H.object[g] = A.object[g]
    BY <1>7, <2>2 DEF Apart
  <2> QED
    BY <2>1, <2>3, StillTogether
<1>12. Good(H, W)
  <2>1. Rest(A, W) /\ Bound(H, W, o)
    BY <1>5 DEF Good, Bound
  <2>2. Rest(H, W)
    BY <1>1, <1>7, <2>1, RestKept
  <2> QED
    BY <1>5, <1>9, <1>10, <1>11, <2>2 DEF Good, Fair
<1>13. \A p \in H.threw : p \in A.threw \/ (p \in Groups /\ H.object[p] = NULL)
  BY <1>4, <1>5, Kinds
<1> QED
  BY <1>4, <1>5, <1>6, <1>12, <1>13 DEF Evolved

LEMMA Released ==
    ASSUME NEW A, NEW W, Good(A, W), NEW o \in IDs \ W, A.object[o] # NULL, Members(A, o) = {}
    PROVE  Evolved(W, A, release(A, o))
<1> DEFINE x == A.object[o]
           B == unregister_member(A, o)
<1>1. Fair(A, W) /\ Rest(A, W) /\ Typed(A) /\ x \in Objects
  BY ObjectType DEF Good, Fair
<1>2. CASE x.m_group_id = NULL
  <2>1. release(A, o) = Gone(A, o)
    BY <1>2 DEF release, Gone, Put, Leave
  <2> QED
    BY <1>2, <2>1, LooseReleased
<1>3. CASE x.m_group_id # NULL
  <2> DEFINE g == x.m_group_id
  <2>1. o \in Stalkers
    BY <1>1, <1>3, Kinds DEF Sound, Fair
  <2>2. o \in Members(A, g) /\ g \in Groups /\ g \notin W
    BY <1>1, <1>3, Owner
  <2>3. Together(A, o, g)
    BY <2>2 DEF Good
  <2>4. MayPart(W, A, o)
    BY <1>1, <1>3, <2>3 DEF MayPart, Good, Together
  <2>5. Evolved(W, A, B) /\ B.threw = A.threw /\ B.object[o] = Grouped(x, NULL)
    BY <2>1, <2>4, MemberUnregistered
  <2>6. release(A, o) = Put(IF x.m_bOnline THEN level_remove(B, o, ~x.used_ai_locations)
                            ELSE scheduled_remove(Leave(B, o, x.m_tGraphID), o), o, NULL)
    BY <1>3 DEF release, Put, Leave
  <2> HIDE DEF B
  <2>7. /\ B.object[o] \in Objects /\ B.object[o].m_bOnline = x.m_bOnline
        /\ B.object[o].m_tGraphID = x.m_tGraphID
        /\ B.object[o].used_ai_locations = x.used_ai_locations
        /\ B.object[o].m_group_id = NULL
    BY <1>1, <2>5 DEF Grouped, Objects
  <2>8. release(A, o) = Gone(B, o)
    BY <2>6, <2>7 DEF Gone
  <2>9. Good(B, W) /\ Members(B, o) = {} /\ B.object[o] # NULL
    BY <2>1, <2>5, <2>7, Kinds DEF Evolved, Members, Good, Fair, Typed, World, Objects
  <2>10. Evolved(W, B, Gone(B, o)) /\ Gone(B, o).level.objects \subseteq B.level.objects
    BY <2>7, <2>9, LooseReleased
  <2>11. Onward(A.level, B.level) /\ Onward(B.level, Gone(B, o).level)
    BY <2>5, <2>10 DEF Evolved
  <2>12. Onward(A.level, Gone(B, o).level)
    BY <2>10, <2>11, OnwardTwice
  <2> QED
    BY <2>5, <2>8, <2>10, <2>12 DEF Evolved
<1> QED
  BY <1>2, <1>3


\* An object and its members, online or offline.
Turned(x, b) == [x EXCEPT !.m_bOnline = b]

TurnedOver(A, H, o, b) ==
    /\ \A p \in IDs : H.object[p] = IF p = o \/ p \in Members(A, o) THEN Turned(A.object[p], b)
                                    ELSE A.object[p]

LEMMA SwitchedFacts ==
    ASSUME NEW A, Typed(A), NEW o \in IDs, A.object[o] # NULL, NEW b \in BOOLEAN
    PROVE  LET H == Switched(A, o, b)
           IN  /\ Typed(H) /\ TurnedOver(A, H, o, b)
               /\ H.points = A.points /\ H.level = A.level /\ H.scheduled = A.scheduled
               /\ H.threw = A.threw
<1> DEFINE O == [p \in IDs |-> IF p = o \/ p \in Members(A, o) THEN Turned(A.object[p], b)
                               ELSE A.object[p]]
           H == Switched(A, o, b)
<1>1. Typed(A) /\ A \in World /\ A.object \in [IDs -> Objects \cup {NULL}]
  BY DEF Typed, World
<1>2. H = [A EXCEPT !.object = O]
  BY DEF Switched, Turned
<1>3. ASSUME NEW p \in IDs, p = o \/ p \in Members(A, o)
      PROVE  Turned(A.object[p], b) \in Objects
  <2>1. A.object[p] # NULL
    BY <1>3 DEF Members
  <2>2. A.object[p] \in Objects
    BY <1>1, <2>1
  <2> QED
    BY <2>2 DEF Turned, Objects
<1>4. O \in [IDs -> Objects \cup {NULL}]
  BY <1>1, <1>3
<1>5. \A p \in IDs : O[p] = IF p = o \/ p \in Members(A, o) THEN Turned(A.object[p], b)
                            ELSE A.object[p]
  OBVIOUS
<1> HIDE DEF O, H
<1>6. /\ H \in World /\ H.object = O /\ H.points = A.points /\ H.level = A.level
      /\ H.scheduled = A.scheduled /\ H.threw = A.threw
  BY <1>1, <1>2, <1>4 DEF World
<1>7. TurnedOver(A, H, o, b)
  BY <1>5, <1>6 DEF TurnedOver
<1> QED
  BY <1>1, <1>6, <1>7 DEF Typed, H

\* On the level, whoever is switched with his members is in his place afterwards if he
\* himself has been moved to it: nobody looks for a member in the registries.
LEMMA SwitchedGood ==
    ASSUME NEW A, NEW W, Good(A, W), NEW o \in A.level.objects \ W, NEW b \in BOOLEAN, NEW H, Typed(H),
           TurnedOver(A, H, o, b),
           \A p \in IDs : p \in H.level.objects <=> p \in A.level.objects,
           \A p \in IDs \ {o} : p \in H.scheduled.objects <=> p \in A.scheduled.objects,
           \A p \in IDs \ {o} : \A w \in Vertices : p \in H.points[w] <=> p \in A.points[w],
           \A w \in Vertices : o \in H.points[w] <=> ~b /\ w = Here,
           o \in Stalkers => (o \in H.scheduled.objects <=> ~b /\ A.object[o].alive),
           o \in Groups /\ o \in H.scheduled.objects => ~b
    PROVE  Good(H, W)
<1> DEFINE x == A.object[o]
           S == {o} \cup Members(A, o)
<1>1. /\ Fair(A, W) /\ Typed(A) /\ o \in IDs /\ Sound(A, o) /\ Placed(A, o)
  BY DEF Good, Fair, Typed, World, Registries
<1>2. Loose(A, o) /\ x.m_tGraphID = Here /\ x # NULL /\ x \in Objects
  BY <1>1, ObjectType DEF Placed, Loose
<1>3. ASSUME NEW p \in IDs, p = o \/ p \in Members(A, o)
      PROVE  /\ A.object[p] \in Objects /\ H.object[p] \in Objects
             /\ H.object[p].m_bOnline = b /\ H.object[p].alive = A.object[p].alive
             /\ H.object[p].m_group_id = A.object[p].m_group_id
             /\ H.object[p].m_tGraphID = A.object[p].m_tGraphID
             /\ H.object[p].used_ai_locations = A.object[p].used_ai_locations
  <2>1. A.object[p] # NULL
    BY <1>2, <1>3 DEF Members
  <2>2. A.object[p] \in Objects
    BY <1>1, <2>1, ObjectType
  <2>3. H.object[p] = Turned(A.object[p], b)
    BY <1>3 DEF TurnedOver
  <2> QED
    BY <2>2, <2>3 DEF Turned, Objects
<1>4. \A p \in IDs \ S : H.object[p] = A.object[p]
  BY DEF TurnedOver
<1>5. Apart(A, H, S)
  BY <1>4 DEF Apart
<1>6. ASSUME NEW g
      PROVE  Members(H, g) = Members(A, g)
  <2>1. \A t \in Stalkers \cap S : (H.object[t] # NULL /\ H.object[t].m_group_id = g)
                                   <=> (A.object[t] # NULL /\ A.object[t].m_group_id = g)
    BY <1>3, Kinds
  <2> HIDE DEF S
  <2> QED
    BY <1>5, <2>1, MembersApart
<1>7. ASSUME NEW p \in IDs \ S, p \notin W
      PROVE  Sound(H, p) /\ Placed(H, p)
  <2>1. p \in Groups => (Members(H, p) # {} <=> Members(A, p) # {})
    BY <1>6
  <2> HIDE DEF S
  <2> QED
    BY <1>1, <1>5, <1>7, <2>1, Untouched
<1>8. Sound(H, o)
  BY <1>1, <1>2, <1>3, <1>6, Kinds DEF Sound
<1>9. H.object[o] # NULL /\ Loose(H, o)
  BY <1>1, <1>2, <1>3, <1>6, Kinds DEF Loose
<1>10. Placed(H, o)
  <2>1. H.object[o].m_tGraphID = Here /\ H.object[o].m_bOnline = b /\ H.object[o].alive = x.alive
    BY <1>1, <1>2, <1>3
  <2> QED
    BY <1>1, <1>9, <2>1 DEF Placed
<1>11. ASSUME NEW t \in Members(A, o)
       PROVE  t \in Stalkers /\ t \in IDs /\ t # o /\ o \in Groups /\ A.object[t].m_group_id = o
              /\ A.object[t] # NULL /\ t \notin W
  <2>1. t \in Stalkers /\ t \in IDs /\ A.object[t].m_group_id = o /\ A.object[t] # NULL /\ o # NULL
    BY <1>1, <1>11, Kinds DEF Members
  <2>2. o \in Groups /\ t \notin W
    BY <1>1, <2>1, Owner DEF Good
  <2> QED
    BY <2>1, <2>2, Kinds
<1>12. ASSUME NEW t \in Members(A, o)
       PROVE  Sound(H, t) /\ Placed(H, t)
  <2>1. Together(A, t, o)
    BY <1>11, <1>12 DEF Good
  <2>2. A.object[t].m_tGraphID = Here
    BY <1>2, <2>1 DEF Together
  <2>3. /\ t \in Stalkers /\ t \in IDs /\ t # o /\ t \notin Groups /\ H.object[t] # NULL
        /\ H.object[t].m_group_id # NULL /\ A.object[t].m_group_id # NULL /\ A.object[t] # NULL
    BY <1>1, <1>3, <1>11, <1>12, Kinds
  <2>4. Sound(A, t) /\ Placed(A, t)
    BY <1>1, <1>11, <1>12, <2>3 DEF Fair
  <2>5. Sound(H, t)
    BY <1>3, <1>12, <2>2, <2>3, <2>4, Kinds DEF Sound
  <2>6. ~Loose(A, t) /\ ~Loose(H, t)
    BY <2>3 DEF Loose
  <2>7. Placed(H, t)
    BY <2>3, <2>4, <2>6 DEF Placed
  <2> QED
    BY <2>5, <2>7
<1>13. ASSUME NEW g \in Groups \ W, NEW t \in Members(H, g)
       PROVE  Together(H, t, g)
  <2>1. t \in Members(A, g) /\ t \in IDs /\ g \in IDs
    BY <1>6, <1>13, Kinds DEF Members
  <2>2. Together(A, t, g)
    BY <2>1 DEF Good
  <2>3. CASE g = o
    <3>1. H.object[o].m_bOnline = H.object[t].m_bOnline
      BY <1>1, <1>3, <2>1, <2>3
    <3> QED
      BY <1>3, <1>9, <2>1, <2>2, <2>3, <3>1 DEF Together
  <2>4. CASE g # o
    <3>1. A.object[t].m_group_id = g /\ A.object[g] # NULL
      BY <2>1, <2>2 DEF Members, Together
    <3>2. A.object[g].m_group_id = NULL
      BY <1>1, <2>1, <3>1 DEF Fair, Sound
    <3>3. t # o /\ t \notin Members(A, o) /\ g \notin Members(A, o)
      BY <1>1, <1>2, <2>4, <3>1, <3>2, Kinds DEF Members, Loose
    <3>4. H.object[t] = A.object[t] /\ H.object[g] = A.object[g]
      BY <1>4, <2>1, <2>4, <3>3
    <3> QED
      BY <2>1, <2>2, <3>4, StillTogether
  <2> QED
    BY <2>3, <2>4
<1>14. Rest(H, W)
  <2>1. Rest(A, W)
    BY DEF Good
  <2>2. S \cap W = {}
    BY <1>11
  <2>3. \A p \in S : H.object[p] # NULL
    BY <1>1, <1>3, <1>11, Kinds
  <2>4. ASSUME NEW p \in IDs \cap S
        PROVE  Bound(H, W, p)
    <3>1. CASE p = o
      BY <1>2, <1>3, <3>1 DEF Bound, Loose
    <3>2. CASE p \in Members(A, o)
      <4>1. H.object[p].m_group_id = o
        BY <1>3, <1>11, <3>2
      <4> QED
        BY <1>9, <1>11, <3>2, <4>1 DEF Bound
    <3> QED
      BY <3>1, <3>2
  <2> HIDE DEF S
  <2> QED
    BY <1>1, <1>5, <2>1, <2>2, <2>3, <2>4, RestKept
<1> QED
  BY <1>7, <1>8, <1>10, <1>12, <1>13, <1>14 DEF Good, Fair


LeftOnly(A, B, o, v) ==
    /\ Typed(B) /\ B.object = A.object /\ B.scheduled = A.scheduled
    /\ B.level = A.level /\ B.threw = A.threw
    /\ \A w \in Vertices : B.points[w] = IF w = v THEN A.points[w] \ {o} ELSE A.points[w]

EnteredOnly(A, B, o, v) ==
    /\ Typed(B) /\ B.object = A.object /\ B.scheduled = A.scheduled
    /\ B.level = A.level /\ B.threw = A.threw
    /\ \A w \in Vertices : B.points[w] = IF w = v THEN A.points[w] \cup {o} ELSE A.points[w]

LEMMA LeaveOnlyFacts ==
    ASSUME NEW A, Typed(A), NEW o \in IDs, A.object[o] \in Objects, NEW v \in Vertices,
           A.object[o].used_ai_locations, o \in A.points[v]
    PROVE  LeftOnly(A, LeaveOnly(A, o, v), o, v)
<1> DEFINE B == LeaveOnly(A, o, v)
<1>1. /\ Typed(B) /\ B.object = A.object /\ B.scheduled = A.scheduled
      /\ B.points = IF A.object[o].used_ai_locations THEN [A.points EXCEPT ![v] = @ \ {o}]
                    ELSE A.points
      /\ B.level = A.level /\ B.threw = A.threw
  BY GraphRemoveOnly
<1> HIDE DEF B
<1>2. \A w \in Vertices : B.points[w] = IF w = v THEN A.points[w] \ {o} ELSE A.points[w]
  BY <1>1 DEF Typed, World
<1> QED
  BY <1>1, <1>2 DEF LeftOnly, B

LEMMA EnterOnlyFacts ==
    ASSUME NEW A, Typed(A), NEW o \in IDs, A.object[o] \in Objects, NEW v \in Vertices,
           ~A.object[o].m_bOnline, A.object[o].used_ai_locations, o \notin A.points[v],
           A.object[o].m_tGraphID = v
    PROVE  EnteredOnly(A, EnterOnly(A, o, v), o, v)
<1> DEFINE x == A.object[o]
           in == ~x.m_bOnline /\ x.used_ai_locations
           B == EnterOnly(A, o, v)
<1>1. /\ Typed(B) /\ B.scheduled = A.scheduled /\ B.threw = A.threw
      /\ B.object = IF in THEN [A.object EXCEPT ![o].m_tGraphID = v] ELSE A.object
      /\ B.points = IF in THEN [A.points EXCEPT ![v] = @ \cup {o}] ELSE A.points
      /\ B.level = A.level
  BY GraphAddOnly
<1> HIDE DEF B
<1>2. \A w \in Vertices : B.points[w] = IF w = v THEN A.points[w] \cup {o} ELSE A.points[w]
  BY <1>1, SMTT(30) DEF Typed, World
<1>3. [A.object[o] EXCEPT !.m_tGraphID = v] = A.object[o]
  BY DEF Objects
<1>4. B.object = A.object
  BY <1>1, <1>3 DEF Typed, World
<1> QED
  BY <1>1, <1>2, <1>4 DEF EnteredOnly, B

LEMMA SwitchOn ==
    ASSUME NEW A, NEW W, Good(A, W), NEW o \in A.level.objects \ W, ~A.object[o].m_bOnline
    PROVE  LET B == switch_online(A, o)
           IN  Good(B, W) /\ B.level = A.level /\ B.threw = A.threw
<1> DEFINE x == A.object[o]
           v == x.m_tGraphID
           E(H) == scheduled_remove(H, o)
           B == switch_online(A, o)
<1>1. /\ Fair(A, W) /\ Typed(A) /\ o \in IDs /\ Sound(A, o) /\ Placed(A, o)
  BY DEF Good, Fair, Typed, World, Registries
<1>2. Loose(A, o) /\ v = Here /\ x # NULL /\ x \in Objects /\ o \in A.points[v] /\ v \in Vertices
  BY <1>1, ObjectType, Kinds DEF Placed, Loose
<1>3. x.used_ai_locations
  BY <1>1, <1>2, Kinds DEF Sound, Loose
<1>4. /\ \A w \in Vertices : o \in A.points[w] <=> w = Here
  BY <1>1, <1>2 DEF Placed
<1>5. PICK H : /\ \E b \in BOOLEAN : b /\ H = Switched(A, o, b)
               /\ B = LeaveOnly(E(H), o, v)
  <2> DEFINE H == Switched(A, o, TRUE)
  <2>1. \E b \in BOOLEAN : b /\ H = Switched(A, o, b)
    OBVIOUS
  <2>2. B = LeaveOnly(E(H), o, v)
    BY DEF switch_online, LeaveOnly
  <2> HIDE DEF H, B
  <2> QED
    BY <2>1, <2>2
<1>6. PICK b \in BOOLEAN : b /\ H = Switched(A, o, b)
  BY <1>5
<1>7. /\ Typed(H) /\ TurnedOver(A, H, o, b)
      /\ H.points = A.points /\ H.level = A.level /\ H.scheduled = A.scheduled
      /\ H.threw = A.threw
  BY <1>1, <1>2, <1>6, SwitchedFacts
<1> DEFINE R == E(H)
<1>8. H.object[o] = Turned(x, b)
  BY <1>1, <1>7 DEF TurnedOver
<1>9. /\ H.object[o] \in Objects /\ H.object[o].m_bOnline /\ H.object[o].used_ai_locations
  BY <1>2, <1>3, <1>6, <1>8 DEF Turned, Objects
<1>10. /\ Typed(R) /\ R.object = H.object /\ R.points = H.points
       /\ R.level = H.level /\ R.threw = H.threw
       /\ R.scheduled.objects = H.scheduled.objects \ {o}
  <2>1. ~need_update(H, o)
    BY <1>9 DEF need_update
  <2> QED
    BY <1>1, <1>7, <2>1, ScheduledRemove
<1> HIDE DEF R
<1>11. LeftOnly(R, B, o, v)
  <2>1. B = LeaveOnly(R, o, v)
    BY <1>5 DEF R
  <2>2. LeftOnly(R, LeaveOnly(R, o, v), o, v)
    BY <1>1, <1>2, <1>7, <1>9, <1>10, LeaveOnlyFacts
  <2> HIDE DEF B
  <2> QED
    BY <2>1, <2>2
<1> HIDE DEF B
<1>12. /\ Typed(B) /\ B.object = R.object /\ B.scheduled = R.scheduled
       /\ B.level = R.level /\ B.threw = R.threw
       /\ \A w \in Vertices : B.points[w] = IF w = v THEN R.points[w] \ {o} ELSE R.points[w]
  BY <1>11 DEF LeftOnly
<1>13. TurnedOver(A, B, o, b)
  BY <1>7, <1>10, <1>12 DEF TurnedOver
<1>14. /\ \A p \in IDs : p \in B.level.objects <=> p \in A.level.objects
       /\ \A p \in IDs \ {o} : p \in B.scheduled.objects <=> p \in A.scheduled.objects
       /\ o \notin B.scheduled.objects
  BY <1>7, <1>10, <1>12
<1>15. /\ \A p \in IDs \ {o} : \A w \in Vertices : p \in B.points[w] <=> p \in A.points[w]
       /\ \A w \in Vertices : o \notin B.points[w]
  <2>1. \A w \in Vertices : B.points[w] = IF w = Here THEN A.points[w] \ {o} ELSE A.points[w]
    BY <1>2, <1>7, <1>10, <1>12
  <2> QED
    BY <1>4, <2>1
<1>16. Good(B, W)
  BY <1>6, <1>12, <1>13, <1>14, <1>15, SwitchedGood
<1> QED
  BY <1>7, <1>10, <1>12, <1>16 DEF B

LEMMA SwitchOff ==
    ASSUME NEW A, NEW W, Good(A, W), NEW o \in A.level.objects \ W, A.object[o].m_bOnline
    PROVE  LET B == switch_offline(A, o)
           IN  Good(B, W) /\ B.level = A.level /\ B.threw = A.threw
<1> DEFINE x == A.object[o]
           v == x.m_tGraphID
           E(H) == scheduled_add(H, o)
           B == switch_offline(A, o)
<1>1. /\ Fair(A, W) /\ Typed(A) /\ o \in IDs /\ Sound(A, o) /\ Placed(A, o)
  BY DEF Good, Fair, Typed, World, Registries
<1>2. Loose(A, o) /\ v = Here /\ x # NULL /\ x \in Objects /\ v \in Vertices
  BY <1>1, ObjectType, Kinds DEF Placed, Loose
<1>3. x.used_ai_locations
  BY <1>1, <1>2, Kinds DEF Sound, Loose
<1>4. /\ \A w \in Vertices : o \notin A.points[w]
      /\ o \notin A.scheduled.objects
  BY <1>1, <1>2, Kinds DEF Placed
<1>5. PICK H : /\ \E b \in BOOLEAN : ~b /\ H = Switched(A, o, b)
               /\ B = EnterOnly(E(H), o, v)
  <2> DEFINE H == Switched(A, o, FALSE)
  <2>1. \E b \in BOOLEAN : ~b /\ H = Switched(A, o, b)
    OBVIOUS
  <2>2. B = EnterOnly(E(H), o, v)
    BY DEF switch_offline, EnterOnly
  <2> HIDE DEF H, B
  <2> QED
    BY <2>1, <2>2
<1>6. PICK b \in BOOLEAN : ~b /\ H = Switched(A, o, b)
  BY <1>5
<1>7. /\ Typed(H) /\ TurnedOver(A, H, o, b)
      /\ H.points = A.points /\ H.level = A.level /\ H.scheduled = A.scheduled
      /\ H.threw = A.threw
  BY <1>1, <1>2, <1>6, SwitchedFacts
<1> DEFINE R == E(H)
<1>8. H.object[o] = Turned(x, b)
  BY <1>1, <1>7 DEF TurnedOver
<1>9. /\ H.object[o] \in Objects /\ ~H.object[o].m_bOnline /\ H.object[o].used_ai_locations
      /\ H.object[o].m_tGraphID = v /\ H.object[o].alive = x.alive
  BY <1>2, <1>3, <1>6, <1>8 DEF Turned, Objects
<1>10. /\ Typed(R) /\ R.object = H.object /\ R.points = H.points
       /\ R.level = H.level /\ R.threw = H.threw
       /\ R.scheduled.objects = IF need_update(H, o) THEN H.scheduled.objects \cup {o}
                                ELSE H.scheduled.objects
  BY <1>1, <1>4, <1>7, ScheduledAdd
<1> HIDE DEF R
<1>11. EnteredOnly(R, B, o, v)
  <2>1. B = EnterOnly(R, o, v)
    BY <1>5 DEF R
  <2>2. EnteredOnly(R, EnterOnly(R, o, v), o, v)
    BY <1>1, <1>2, <1>4, <1>7, <1>9, <1>10, EnterOnlyFacts
  <2> HIDE DEF B
  <2> QED
    BY <2>1, <2>2
<1> HIDE DEF B
<1>12. /\ Typed(B) /\ B.object = R.object /\ B.scheduled = R.scheduled
       /\ B.level = R.level /\ B.threw = R.threw
       /\ \A w \in Vertices : B.points[w] = IF w = v THEN R.points[w] \cup {o} ELSE R.points[w]
  BY <1>11 DEF EnteredOnly
<1>13. TurnedOver(A, B, o, b)
  BY <1>7, <1>10, <1>12 DEF TurnedOver
<1>14. need_update(H, o) <=> x.alive
  BY <1>9 DEF need_update
<1>15. /\ \A p \in IDs : p \in B.level.objects <=> p \in A.level.objects
       /\ \A p \in IDs \ {o} : p \in B.scheduled.objects <=> p \in A.scheduled.objects
       /\ o \in B.scheduled.objects <=> x.alive
  BY <1>4, <1>7, <1>10, <1>12, <1>14
<1>16. /\ \A p \in IDs \ {o} : \A w \in Vertices : p \in B.points[w] <=> p \in A.points[w]
       /\ \A w \in Vertices : o \in B.points[w] <=> w = Here
  <2>1. \A w \in Vertices : B.points[w] = IF w = Here THEN A.points[w] \cup {o} ELSE A.points[w]
    BY <1>2, <1>7, <1>10, <1>12
  <2> QED
    BY <1>4, <2>1
<1>17. Good(B, W)
  BY <1>6, <1>12, <1>13, <1>15, <1>16, SwitchedGood
<1> QED
  BY <1>7, <1>10, <1>12, <1>17 DEF B


LEMMA RescheduledGood ==
    ASSUME NEW A, NEW W, Good(A, W), NEW o \in A.level.objects \ W, ~A.object[o].m_bOnline
    PROVE  LET C == Rescheduled(A, o)
           IN  Good(C, W) /\ C.level = A.level /\ C.threw = A.threw /\ C.object = A.object
<1> DEFINE x == A.object[o]
           C == Rescheduled(A, o)
<1>1. /\ Fair(A, W) /\ Typed(A) /\ o \in IDs /\ Sound(A, o) /\ Placed(A, o)
  BY DEF Good, Fair, Typed, World, Registries
<1>2. Loose(A, o) /\ x # NULL
  BY <1>1 DEF Placed, Loose
<1>3. x.used_ai_locations
  BY <1>1, <1>2, Kinds DEF Sound, Loose
<1>4. o \in Stalkers => (need_update(A, o) <=> o \in A.scheduled.objects)
  BY <1>1, <1>2, <1>3 DEF Placed, need_update
<1>5. CASE need_update(A, o) <=> o \in A.scheduled.objects
  <2>1. need_update(A, o) = (o \in A.scheduled.objects)
    BY <1>5 DEF need_update
  <2>2. C = A
    BY <2>1 DEF Rescheduled
  <2> QED
    BY <2>2
<1>6. CASE ~(need_update(A, o) <=> o \in A.scheduled.objects)
  <2>1. C = IF need_update(A, o) THEN scheduled_add(A, o) ELSE scheduled_remove(A, o)
    BY <1>6 DEF Rescheduled
  <2>2. o \in Groups /\ o \notin Stalkers
    BY <1>1, <1>4, <1>6, Kinds
  <2>3. /\ Typed(C) /\ C.object = A.object /\ C.points = A.points
        /\ C.level = A.level /\ C.threw = A.threw
        /\ \A p \in IDs \ {o} : p \in C.scheduled.objects <=> p \in A.scheduled.objects
    <3>1. CASE need_update(A, o)
      <4>1. C = scheduled_add(A, o)
        BY <2>1, <3>1
      <4>2. need_update(A, o) => o \notin A.scheduled.objects
        BY <1>6
      <4>3. /\ Typed(C) /\ C.object = A.object /\ C.points = A.points
            /\ C.level = A.level /\ C.threw = A.threw
            /\ C.scheduled.objects = IF need_update(A, o) THEN A.scheduled.objects \cup {o}
                                     ELSE A.scheduled.objects
        BY <1>1, <4>1, <4>2, ScheduledAdd, ZenonT(30)
      <4> HIDE DEF C
      <4> QED
        BY <4>3
    <3>2. CASE ~need_update(A, o)
      <4>1. C = scheduled_remove(A, o)
        BY <2>1, <3>2
      <4>2. /\ Typed(C) /\ C.object = A.object /\ C.points = A.points
            /\ C.level = A.level /\ C.threw = A.threw
            /\ C.scheduled.objects = A.scheduled.objects \ {o}
        BY <1>1, <3>2, <4>1, ScheduledRemove
      <4> HIDE DEF C
      <4> QED
        BY <4>2
    <3> QED
      BY <3>1, <3>2
  <2> HIDE DEF C
  <2>4. Apart(A, C, {o})
    BY <2>3 DEF Apart
  <2>5. \A g : Members(C, g) = Members(A, g)
    BY <2>3 DEF Members
  <2>6. \A p \in IDs \ W : Sound(C, p) /\ (Loose(C, p) <=> Loose(A, p))
    BY <1>1, <2>3, <2>5 DEF Fair, Sound, Loose
  <2>7. Placed(C, o)
    BY <1>1, <1>2, <2>2, <2>3, <2>6 DEF Placed
  <2>8. \A p \in IDs \ W : p # o => Placed(C, p)
    BY <1>1, <2>4, <2>5, Untouched
  <2>9. \A g \in Groups \ W : \A t \in Members(C, g) : Together(C, t, g)
    BY <2>3, <2>5 DEF Good, Together
  <2>10. Rest(C, W)
    <3>1. Rest(A, W) /\ Bound(A, W, o)
      BY <1>1 DEF Good, Rest
    <3>2. Bound(C, W, o) /\ C.object[o] # NULL
      BY <1>2, <2>3, <3>1 DEF Bound
    <3> QED
      BY <1>1, <2>4, <3>1, <3>2, RestKept
  <2>11. Good(C, W)
    BY <2>3, <2>6, <2>7, <2>8, <2>9, <2>10 DEF Good, Fair
  <2> QED
    BY <2>3, <2>11 DEF C
<1> QED
  BY <1>5, <1>6

\* Nothing is to be done for a group that is where its members are.
LEMMA Synchronized ==
    ASSUME NEW A, NEW W, Good(A, W), NEW o \in IDs \ W
    PROVE  synchronize_location(A, o) = A
<1>1. CASE Members(A, o) = {}
  BY <1>1 DEF synchronize_location
<1>2. CASE Members(A, o) # {}
  <2> DEFINE s == Min(Members(A, o))
  <2>1. Members(A, o) \in SUBSET Nat
    BY Kinds, IDsAssumption DEF Members
  <2>2. s \in Members(A, o)
    <3> DEFINE T == Members(A, o)
    <3>1. T \in SUBSET Nat /\ T # {}
      BY <1>2, <2>1
    <3> HIDE DEF T
    <3>2. \E x \in T : \A y \in T : x <= y
      BY <3>1, LeastNatural
    <3> QED
      BY <3>2 DEF T, Min
  <2> HIDE DEF s
  <2>3. o \in Groups
    <3>1. s \in IDs /\ A.object[s] # NULL /\ A.object[s].m_group_id = o /\ o # NULL
      BY <2>2, Kinds DEF Members
    <3> QED
      BY <3>1, Owner DEF Good
  <2>4. A.object[o].m_tGraphID = A.object[s].m_tGraphID
    BY <2>2, <2>3 DEF Good, Together
  <2> QED
    BY <2>4 DEF synchronize_location, s
<1> QED
  BY <1>1, <1>2

\* Whatever the update does with an object on the level, it stays there.
LEMMA SwitchObject ==
    ASSUME NEW A, NEW W, Good(A, W), NEW o \in A.level.objects \ W, NEW count, NEW place
    PROVE  LET B == switch_object(A, o, count, place)
           IN  Good(B, W) /\ B.level = A.level /\ B.threw = A.threw
<1> DEFINE B == switch_object(A, o, count, place)
<1> USE Synchronized
<1> o \in IDs
  BY DEF Good, Fair, Typed, World, Registries
<1>1. CASE A.object[o].m_bOnline
  <2>1. B = switch_offline(A, o) \/ B = A
    BY <1>1 DEF switch_object, try_switch_offline
  <2> QED
    BY <1>1, <2>1, SwitchOff
<1>2. CASE ~A.object[o].m_bOnline
  <2> DEFINE C == Rescheduled(A, o)
  <2>1. Good(C, W) /\ C.level = A.level /\ C.threw = A.threw /\ C.object = A.object
    BY <1>2, RescheduledGood
  <2>2. B = A \/ B = switch_online(C, o) \/ B = C
    BY <1>2 DEF switch_object, try_switch_online
  <2> HIDE DEF C
  <2>3. LET D == switch_online(C, o)
        IN  Good(D, W) /\ D.level = C.level /\ D.threw = C.threw
    BY <1>2, <2>1, SwitchOn
  <2> QED
    BY <2>1, <2>2, <2>3
<1> QED
  BY <1>1, <1>2

\* A stalker dies online, and leaves his group.
Dead(x) == [x EXCEPT !.alive = FALSE, !.died = TRUE]

Died(A, s) ==
    LET D == [A EXCEPT !.object[s].alive = FALSE, !.object[s].died = TRUE]
    IN  IF D.object[s].m_group_id = NULL THEN D ELSE unregister_member(D, s)

LEMMA DiedGood ==
    ASSUME NEW A, NEW W, Good(A, W), NEW s \in Stalkers \ W, A.object[s] # NULL, A.object[s].m_bOnline
    PROVE  Evolved(W, A, Died(A, s))
<1> DEFINE x == A.object[s]
           D == Put(A, s, Dead(x))
<1>1. /\ Fair(A, W) /\ Rest(A, W) /\ Typed(A) /\ s \in IDs /\ s \notin Groups /\ x \in Objects
      /\ Sound(A, s) /\ Placed(A, s)
  BY ObjectType, Kinds DEF Good, Fair
<1>2. /\ Dead(x) \in Objects /\ Dead(x).m_bOnline = x.m_bOnline /\ ~Dead(x).alive
      /\ Dead(x).m_group_id = x.m_group_id /\ Dead(x).m_tGraphID = x.m_tGraphID
      /\ Dead(x).used_ai_locations = x.used_ai_locations
  BY <1>1 DEF Dead, Objects
<1>3. D = [A EXCEPT !.object[s].alive = FALSE, !.object[s].died = TRUE]
  BY <1>1 DEF Put, Dead, Typed, World
<1>4. /\ Typed(D) /\ Apart(A, D, {s}) /\ D.object[s] = Dead(x)
      /\ D.points = A.points /\ D.level = A.level /\ D.scheduled = A.scheduled
      /\ D.threw = A.threw
  <2> DEFINE z == Dead(x)
  <2>1. z \in Objects
    BY <1>2
  <2> HIDE DEF z
  <2>2. LET B == Put(A, s, z)
        IN  /\ Typed(B) /\ Apart(A, B, {s}) /\ B.object[s] = z
            /\ B.points = A.points /\ B.level = A.level /\ B.scheduled = A.scheduled
            /\ B.threw = A.threw
    BY <1>1, <2>1, PutFacts
  <2> QED
    BY <2>2 DEF z
<1>5. Died(A, s) = IF D.object[s].m_group_id = NULL THEN D ELSE unregister_member(D, s)
  BY <1>3 DEF Died
<1> HIDE DEF D
<1>6. D.object[s] # NULL
  BY <1>2, <1>4, Kinds
<1>7. \A g : Members(D, g) = Members(A, g)
  <2> SUFFICES ASSUME NEW g PROVE Members(D, g) = Members(A, g)
    OBVIOUS
  <2>1. \A t \in Stalkers \cap {s} : (D.object[t] # NULL /\ D.object[t].m_group_id = g)
                                     <=> (A.object[t] # NULL /\ A.object[t].m_group_id = g)
    BY <1>2, <1>4, <1>6
  <2> QED
    BY <1>4, <2>1, MembersApart
<1>8. \A p \in IDs \ W : p # s => Sound(D, p) /\ Placed(D, p)
  BY <1>1, <1>4, <1>7, Untouched
<1>9. Sound(D, s)
  BY <1>1, <1>2, <1>4 DEF Sound
<1>10. Loose(D, s) <=> Loose(A, s)
  BY <1>1, <1>2, <1>4, <1>6 DEF Loose
<1>11. Placed(D, s)
  BY <1>1, <1>2, <1>4, <1>10 DEF Placed
<1>12. Fair(D, W) /\ Rest(D, W)
  <2>1. Bound(D, W, s)
    <3>1. Bound(A, W, s)
      BY <1>1 DEF Rest
    <3>2. x.m_group_id # NULL => x.m_group_id \in IDs /\ x.m_group_id # s
      BY <1>1, Kinds DEF Objects
    <3>3. x.m_group_id # NULL => D.object[x.m_group_id] = A.object[x.m_group_id]
      BY <1>4, <3>2 DEF Apart
    <3>4. x # NULL
      OBVIOUS
    <3> QED
      BY <1>2, <1>4, <1>6, <3>1, <3>3, <3>4 DEF Bound
  <2>2. Rest(D, W)
    BY <1>1, <1>4, <1>6, <2>1, RestKept
  <2> QED
    BY <1>4, <1>8, <1>9, <1>11, <2>2 DEF Fair
<1>13. ASSUME NEW g \in Groups \ W, NEW t \in Members(D, g), t # s
       PROVE  Together(D, t, g)
  <2>1. t \in Members(A, g) /\ Together(A, t, g) /\ t \in IDs /\ g \in IDs /\ g # s
    BY <1>1, <1>7, <1>13, Kinds DEF Good, Members
  <2>2. D.object[t] = A.object[t] /\ D.object[g] = A.object[g]
    BY <1>4, <1>13, <2>1 DEF Apart
  <2> QED
    BY <2>1, <2>2, StillTogether
<1>14. CASE x.m_group_id = NULL
  <2>1. Died(A, s) = D
    BY <1>2, <1>4, <1>5, <1>14
  <2>2. \A g \in Groups \ W : s \notin Members(D, g)
    BY <1>2, <1>4, <1>14, Kinds DEF Members
  <2>3. Good(D, W)
    BY <1>12, <1>13, <2>2 DEF Good
  <2> QED
    BY <1>4, <2>1, <2>3, OnwardSame DEF Evolved
<1>15. CASE x.m_group_id # NULL
  <2> DEFINE g == x.m_group_id
             B == unregister_member(D, s)
  <2>1. g \in Groups /\ g \in IDs /\ g # s /\ s \in Members(A, g) /\ g \notin W
    <3>1. g \in Groups /\ s \in Members(A, g) /\ g \notin W
      BY <1>1, <1>15, Owner
    <3> QED
      BY <1>1, <3>1, Kinds
  <2>2. Together(A, s, g)
    BY <2>1 DEF Good
  <2>3. D.object[g] = A.object[g]
    BY <1>4, <2>1 DEF Apart
  <2>4. MayPart(W, D, s)
    <3>1. D.object[s].m_group_id = g
      BY <1>2, <1>4
    <3>2. D.object[g].m_bOnline = D.object[s].m_bOnline /\ D.object[g].m_tGraphID = D.object[s].m_tGraphID
      BY <1>2, <1>4, <2>2, <2>3 DEF Together
    <3>3. D.object[g] # NULL /\ g # NULL
      BY <1>15, <2>2, <2>3 DEF Together
    <3> HIDE DEF g
    <3> QED
      BY <1>6, <1>12, <1>13, <3>1, <3>2, <3>3 DEF MayPart
  <2>5. Evolved(W, D, B)
    BY <2>4, MemberUnregistered
  <2>6. Died(A, s) = B
    BY <1>2, <1>4, <1>5, <1>15
  <2> HIDE DEF B
  <2> QED
    BY <1>4, <2>5, <2>6 DEF Evolved
<1> QED
  BY <1>14, <1>15


-----------------------------------------------------------------------------
(* The astray: what an operation does to one of whom no place is known.    *)

\* The iterator has gone on, past nobody who is in both but, maybe, those in T.
Beyond(R, Q, T) ==
    \A y \in (R.objects \cap Q.objects) \ T : \A m \in IDs : InArc(Q.next, m, y) => InArc(R.next, m, y)

\* Nothing has changed but of those in S, and the iterator has passed nobody but those in T.
Stir(A, B, S, T) == /\ Typed(B) /\ Apart(A, B, S) /\ Beyond(A.level, B.level, T)
                    /\ B.threw \subseteq A.threw \cup S

Alike(x, y) == /\ x \in Objects /\ x.m_bOnline = y.m_bOnline /\ x.alive = y.alive
               /\ x.m_group_id = y.m_group_id

LEMMA OnwardBeyond ==
    ASSUME NEW R, NEW Q, NEW T, Onward(R, Q)
    PROVE  Beyond(R, Q, T)
  BY DEF Onward, Beyond

LEMMA StirTwice ==
    ASSUME NEW A, NEW B, NEW C, NEW S, NEW T, NEW S2, NEW T2, NEW U, NEW V,
           Stir(A, B, S, T), Stir(B, C, S2, T2), S \cup S2 \subseteq U, T \cup T2 \subseteq V,
           A.level.objects \cap C.level.objects \subseteq B.level.objects \cup V
    PROVE  Stir(A, C, U, V)
<1>1. Apart(A, C, U)
  BY ApartTwice DEF Stir
<1>2. Beyond(A.level, C.level, V)
  BY DEF Stir, Beyond
<1> QED
  BY <1>1, <1>2 DEF Stir

LEMMA ThrowFacts ==
    ASSUME NEW A, Typed(A), NEW o \in IDs
    PROVE  LET B == Throw(A, o)
           IN  /\ Typed(B) /\ B.object = A.object /\ B.points = A.points
               /\ B.level = A.level /\ B.scheduled = A.scheduled /\ B.threw = A.threw \cup {o}
  BY DEF Throw, Typed, World

LEMMA AnyLevelAdd ==
    ASSUME NEW A, Typed(A), NEW o \in IDs
    PROVE  LET B == level_add(A, o)
           IN  /\ Stir(A, B, {o}, {}) /\ B.object = A.object /\ B.points = A.points
               /\ B.scheduled = A.scheduled /\ A.level.objects \subseteq B.level.objects
<1> DEFINE B == level_add(A, o)
<1>1. /\ Typed(B) /\ B.object = A.object /\ B.points = A.points /\ B.scheduled = A.scheduled
      /\ A.level.objects \subseteq B.level.objects /\ B.level.objects \subseteq A.level.objects \cup {o}
      /\ Onward(A.level, B.level) /\ B.threw \subseteq A.threw \cup {o}
  <2>1. CASE A.object[o].m_tGraphID = Here /\ o \in A.level.objects
    <3>1. B = Throw(A, o)
      BY <2>1 DEF level_add
    <3> HIDE DEF B
    <3>2. /\ Typed(B) /\ B.object = A.object /\ B.points = A.points
          /\ B.level = A.level /\ B.scheduled = A.scheduled /\ B.threw = A.threw \cup {o}
      BY <3>1, ThrowFacts
    <3> QED
      BY <3>2, OnwardSame
  <2>2. CASE ~(A.object[o].m_tGraphID = Here /\ o \in A.level.objects)
    <3>1. A.object[o].m_tGraphID = Here => o \notin A.level.objects
      BY <2>2
    <3>2. /\ Typed(B) /\ B.object = A.object /\ B.points = A.points
          /\ B.scheduled = A.scheduled /\ B.threw = A.threw
          /\ B.level.objects = IF A.object[o].m_tGraphID = Here THEN A.level.objects \cup {o}
                               ELSE A.level.objects
          /\ Onward(A.level, B.level)
      BY <3>1, LevelAdd
    <3> HIDE DEF B
    <3> QED
      BY <3>2
  <2> QED
    BY <2>1, <2>2
<1> HIDE DEF B
<1>2. Apart(A, B, {o})
  BY <1>1 DEF Apart
<1> QED
  BY <1>1, <1>2, OnwardBeyond DEF Stir, B

LEMMA AnyLevelRemove ==
    ASSUME NEW A, Typed(A), NEW o \in IDs, NEW B, \E n \in BOOLEAN : B = level_remove(A, o, n)
    PROVE  /\ Stir(A, B, {o}, {}) /\ B.object = A.object /\ B.scheduled = A.scheduled
           /\ B.level.objects = A.level.objects \ {o}
<1>1. PICK n \in BOOLEAN : B = level_remove(A, o, n)
  OBVIOUS
<1>2. /\ Typed(B) /\ B.object = A.object /\ B.points = A.points /\ B.scheduled = A.scheduled
      /\ B.level.objects = A.level.objects \ {o}
      /\ Onward(A.level, B.level) /\ B.threw \subseteq A.threw \cup {o}
  BY <1>1, LevelRemove
<1>3. Apart(A, B, {o})
  BY <1>2 DEF Apart
<1> QED
  BY <1>2, <1>3, OnwardBeyond DEF Stir

LEMMA AnyScheduledAdd ==
    ASSUME NEW A, Typed(A), NEW o \in IDs
    PROVE  LET B == scheduled_add(A, o)
           IN  /\ Stir(A, B, {o}, {}) /\ B.object = A.object /\ B.level = A.level
               /\ o \in B.scheduled.objects <=> o \in A.scheduled.objects \/ need_update(A, o)
<1> DEFINE B == scheduled_add(A, o)
<1>1. /\ Typed(B) /\ B.object = A.object /\ B.points = A.points /\ B.level = A.level
      /\ B.threw \subseteq A.threw \cup {o}
      /\ B.scheduled.objects = IF need_update(A, o) THEN A.scheduled.objects \cup {o}
                               ELSE A.scheduled.objects
  <2>1. CASE need_update(A, o) /\ o \in A.scheduled.objects
    <3>1. B = Throw(A, o)
      BY <2>1 DEF scheduled_add
    <3> HIDE DEF B
    <3>2. /\ Typed(B) /\ B.object = A.object /\ B.points = A.points
          /\ B.level = A.level /\ B.scheduled = A.scheduled /\ B.threw = A.threw \cup {o}
      BY <3>1, ThrowFacts
    <3> QED
      BY <2>1, <3>2
  <2>2. CASE ~(need_update(A, o) /\ o \in A.scheduled.objects)
    <3>1. need_update(A, o) => o \notin A.scheduled.objects
      BY <2>2
    <3>2. /\ Typed(B) /\ B.object = A.object /\ B.points = A.points /\ B.level = A.level
          /\ B.threw = A.threw
          /\ B.scheduled.objects = IF need_update(A, o) THEN A.scheduled.objects \cup {o}
                                   ELSE A.scheduled.objects
      BY <3>1, ScheduledAdd, ZenonT(30)
    <3> HIDE DEF B
    <3> QED
      BY <3>2
  <2> QED
    BY <2>1, <2>2
<1> HIDE DEF B
<1>2. Apart(A, B, {o})
  BY <1>1 DEF Apart
<1> QED
  BY <1>1, <1>2, OnwardSame, OnwardBeyond DEF Stir, B

LEMMA AnyScheduledRemove ==
    ASSUME NEW A, Typed(A), NEW o \in IDs
    PROVE  LET B == scheduled_remove(A, o)
           IN  /\ Stir(A, B, {o}, {}) /\ B.object = A.object /\ B.level = A.level
               /\ o \notin B.scheduled.objects
<1> DEFINE B == scheduled_remove(A, o)
<1>1. /\ Typed(B) /\ B.object = A.object /\ B.points = A.points /\ B.level = A.level
      /\ B.threw \subseteq A.threw \cup {o} /\ B.scheduled.objects = A.scheduled.objects \ {o}
  <2>1. CASE need_update(A, o) /\ o \notin A.scheduled.objects
    <3>1. B = Throw(A, o)
      BY <2>1 DEF scheduled_remove
    <3> HIDE DEF B
    <3>2. /\ Typed(B) /\ B.object = A.object /\ B.points = A.points
          /\ B.level = A.level /\ B.scheduled = A.scheduled /\ B.threw = A.threw \cup {o}
      BY <3>1, ThrowFacts
    <3> QED
      BY <2>1, <3>2
  <2>2. CASE ~(need_update(A, o) /\ o \notin A.scheduled.objects)
    <3>1. need_update(A, o) => o \in A.scheduled.objects
      BY <2>2
    <3>2. /\ Typed(B) /\ B.object = A.object /\ B.points = A.points /\ B.level = A.level
          /\ B.threw = A.threw /\ B.scheduled.objects = A.scheduled.objects \ {o}
      BY <3>1, ScheduledRemove, ZenonT(30)
    <3> HIDE DEF B
    <3> QED
      BY <3>2
  <2> QED
    BY <2>1, <2>2
<1> HIDE DEF B
<1>2. Apart(A, B, {o})
  BY <1>1 DEF Apart
<1> QED
  BY <1>1, <1>2, OnwardSame, OnwardBeyond DEF Stir, B

LEMMA AnyPut ==
    ASSUME NEW A, Typed(A), NEW o \in IDs, NEW x \in Objects \cup {NULL}
    PROVE  LET B == Put(A, o, x)
           IN  /\ Stir(A, B, {o}, {}) /\ B.object[o] = x
               /\ B.level = A.level /\ B.scheduled = A.scheduled /\ B.points = A.points
<1> DEFINE B == Put(A, o, x)
<1>1. /\ Typed(B) /\ Apart(A, B, {o}) /\ B.object[o] = x
      /\ B.points = A.points /\ B.level = A.level /\ B.scheduled = A.scheduled
      /\ B.threw = A.threw
  BY PutFacts, ZenonT(30)
<1> HIDE DEF B
<1> QED
  BY <1>1, OnwardSame, OnwardBeyond DEF Stir, B

LEMMA AnyEnterOnly ==
    ASSUME NEW A, Typed(A), NEW o \in IDs, A.object[o] \in Objects, NEW v \in Vertices \cup {NULL}
    PROVE  LET B == EnterOnly(A, o, v)
           IN  /\ Stir(A, B, {o}, {}) /\ Alike(B.object[o], A.object[o])
               /\ B.scheduled = A.scheduled /\ B.level = A.level
<1> DEFINE x == A.object[o]
           P == [A.points EXCEPT ![v] = @ \cup {o}]
           C == IF o \in A.points[v] THEN Throw(A, o) ELSE [A EXCEPT !.points[v] = @ \cup {o}]
           D == Put(C, o, Moved(x, v))
           B == EnterOnly(A, o, v)
<1>1. /\ Typed(C) /\ C.object = A.object /\ C.level = A.level /\ C.scheduled = A.scheduled
      /\ \A w \in Vertices : \A p \in IDs \ {o} : p \in C.points[w] <=> p \in A.points[w]
      /\ C.threw \subseteq A.threw \cup {o}
  <2>1. CASE o \in A.points[v]
    <3>1. C = Throw(A, o)
      BY <2>1
    <3> HIDE DEF C
    <3>2. /\ Typed(C) /\ C.object = A.object /\ C.points = A.points
          /\ C.level = A.level /\ C.scheduled = A.scheduled /\ C.threw = A.threw \cup {o}
      BY <3>1, ThrowFacts
    <3> QED
      BY <3>2
  <2>2. CASE o \notin A.points[v]
    <3>1. A.points \in [Vertices -> SUBSET IDs] /\ A \in World
      BY DEF Typed, World
    <3>2. P \in [Vertices -> SUBSET IDs]
      BY <3>1
    <3>3. \A w \in Vertices : \A p \in IDs \ {o} : p \in P[w] <=> p \in A.points[w]
      BY <3>1
    <3>4. C = [A EXCEPT !.points = P]
      BY <2>2, <3>1 DEF World
    <3> HIDE DEF P, C
    <3>5. /\ C \in World /\ C.object = A.object /\ C.points = P /\ C.level = A.level
          /\ C.scheduled = A.scheduled /\ C.threw = A.threw
      BY <3>1, <3>2, <3>4 DEF World
    <3> QED
      BY <3>3, <3>5 DEF Typed
  <2> QED
    BY <2>1, <2>2
<1>2. Stir(A, C, {o}, {})
  <2> HIDE DEF C
  <2>1. Apart(A, C, {o})
    BY <1>1 DEF Apart
  <2> QED
    BY <1>1, <2>1, OnwardSame, OnwardBeyond DEF Stir
<1>3. B = A \/ B = [C EXCEPT !.object[o].m_tGraphID = v]
  BY DEF EnterOnly, graph_add
<1>4. CASE B = A
  <2>1. Apart(A, A, {o})
    BY DEF Apart
  <2> QED
    BY <1>4, <2>1, OnwardSame, OnwardBeyond DEF Stir, Alike
<1>5. CASE B = [C EXCEPT !.object[o].m_tGraphID = v]
  <2> HIDE DEF C, B
  <2>1. B = D
    BY <1>1, <1>5 DEF Put, Moved, Typed, World
  <2>2. Moved(x, v) \in Objects /\ Alike(Moved(x, v), x)
    BY DEF Moved, Objects, Alike
  <2>3. /\ Stir(C, D, {o}, {}) /\ D.object[o] = Moved(x, v)
        /\ D.level = C.level /\ D.scheduled = C.scheduled
    <3> DEFINE z == Moved(x, v)
    <3>1. z \in Objects \cup {NULL}
      BY <2>2
    <3> HIDE DEF z
    <3>2. LET E == Put(C, o, z)
          IN  /\ Stir(C, E, {o}, {}) /\ E.object[o] = z
              /\ E.level = C.level /\ E.scheduled = C.scheduled /\ E.points = C.points
      BY <1>1, <3>1, AnyPut
    <3> QED
      BY <3>2 DEF z
  <2> HIDE DEF D
  <2>4. Stir(A, D, {o}, {})
    BY <1>1, <1>2, <2>3, StirTwice
  <2> QED
    BY <1>1, <2>1, <2>2, <2>3, <2>4 DEF B
<1> QED
  BY <1>3, <1>4, <1>5

LEMMA AnyEnter ==
    ASSUME NEW A, Typed(A), NEW o \in IDs, A.object[o] \in Objects, NEW v \in Vertices \cup {NULL}
    PROVE  LET B == Enter(A, o, v)
           IN  /\ Stir(A, B, {o}, {}) /\ Alike(B.object[o], A.object[o])
               /\ B.scheduled = A.scheduled /\ A.level.objects \subseteq B.level.objects
<1> DEFINE C == EnterOnly(A, o, v)
           B == Enter(A, o, v)
<1>1. /\ Stir(A, C, {o}, {}) /\ Alike(C.object[o], A.object[o])
      /\ C.scheduled = A.scheduled /\ C.level = A.level
  BY AnyEnterOnly
<1>2. B = level_add(C, o) \/ B = C
  BY DEF Enter, EnterOnly, graph_add
<1> HIDE DEF C
<1>3. LET D == level_add(C, o)
      IN  /\ Stir(C, D, {o}, {}) /\ D.object = C.object /\ D.points = C.points
          /\ D.scheduled = C.scheduled /\ C.level.objects \subseteq D.level.objects
  BY <1>1, AnyLevelAdd DEF Stir
<1> HIDE DEF B
<1>4. CASE B = level_add(C, o)
  <2>1. /\ Stir(C, B, {o}, {}) /\ B.object = C.object /\ B.scheduled = C.scheduled
        /\ C.level.objects \subseteq B.level.objects
    BY <1>3, <1>4
  <2>2. Stir(A, B, {o}, {})
    BY <1>1, <2>1, StirTwice
  <2> QED
    BY <1>1, <2>1, <2>2 DEF B
<1>5. CASE B = C
  BY <1>1, <1>5 DEF B
<1> QED
  BY <1>2, <1>4, <1>5

LEMMA AnyLeaveOnly ==
    ASSUME NEW A, Typed(A), NEW o \in IDs, NEW v \in Vertices \cup {NULL}
    PROVE  LET B == LeaveOnly(A, o, v)
           IN  /\ Stir(A, B, {o}, {}) /\ B.object = A.object
               /\ B.scheduled = A.scheduled /\ B.level = A.level
<1> DEFINE P == [A.points EXCEPT ![v] = @ \ {o}]
           B == LeaveOnly(A, o, v)
<1>1. B = A \/ B = Throw(A, o) \/ B = [A EXCEPT !.points[v] = @ \ {o}]
  BY DEF LeaveOnly, graph_remove
<1> HIDE DEF B
<1>2. /\ Typed(B) /\ B.object = A.object /\ B.level = A.level /\ B.scheduled = A.scheduled
      /\ \A w \in Vertices : \A p \in IDs \ {o} : p \in B.points[w] <=> p \in A.points[w]
      /\ B.threw \subseteq A.threw \cup {o}
  <2>1. CASE B = A
    BY <2>1
  <2>2. CASE B = Throw(A, o)
    <3>1. /\ Typed(B) /\ B.object = A.object /\ B.points = A.points
          /\ B.level = A.level /\ B.scheduled = A.scheduled /\ B.threw = A.threw \cup {o}
      BY <2>2, ThrowFacts
    <3> QED
      BY <3>1
  <2>3. CASE B = [A EXCEPT !.points[v] = @ \ {o}]
    <3>1. A.points \in [Vertices -> SUBSET IDs] /\ A \in World
      BY DEF Typed, World
    <3>2. P \in [Vertices -> SUBSET IDs]
      BY <3>1
    <3>3. \A w \in Vertices : \A p \in IDs \ {o} : p \in P[w] <=> p \in A.points[w]
      BY <3>1
    <3>4. B = [A EXCEPT !.points = P]
      BY <2>3, <3>1 DEF World
    <3> HIDE DEF P
    <3>5. /\ B \in World /\ B.object = A.object /\ B.points = P /\ B.level = A.level
          /\ B.scheduled = A.scheduled /\ B.threw = A.threw
      BY <3>1, <3>2, <3>4 DEF World
    <3> QED
      BY <3>3, <3>5 DEF Typed
  <2> QED
    BY <1>1, <2>1, <2>2, <2>3
<1>3. Apart(A, B, {o})
  BY <1>2 DEF Apart
<1> QED
  BY <1>2, <1>3, OnwardSame, OnwardBeyond DEF Stir, B

Quits(A, B, o) == /\ Stir(A, B, {o}, {}) /\ B.object = A.object
                  /\ B.scheduled = A.scheduled /\ B.level.objects = A.level.objects \ {o}

LEMMA AnyLeave ==
    ASSUME NEW A, Typed(A), NEW o \in IDs, NEW v \in Vertices \cup {NULL}
    PROVE  Quits(A, Leave(A, o, v), o)
<1> DEFINE B == Leave(A, o, v)
           C == LeaveOnly(A, o, v)
<1>1. /\ Stir(A, C, {o}, {}) /\ C.object = A.object
      /\ C.scheduled = A.scheduled /\ C.level = A.level
  BY AnyLeaveOnly
<1>2. \E n \in BOOLEAN : B = level_remove(C, o, n)
  <2> DEFINE n == v # Here
  <2>1. n \in BOOLEAN /\ B = level_remove(C, o, n)
    BY DEF Leave, LeaveOnly, graph_remove
  <2> HIDE DEF n, C, B
  <2> QED
    BY <2>1
<1> HIDE DEF C, B
<1>4. /\ Stir(C, B, {o}, {}) /\ B.object = C.object /\ B.scheduled = C.scheduled
      /\ B.level.objects = C.level.objects \ {o}
  <2>1. Typed(C)
    BY <1>1 DEF Stir
  <2> QED
    BY <1>2, <2>1, AnyLevelRemove
<1>5. Stir(A, B, {o}, {})
  BY <1>1, <1>4, StirTwice
<1> QED
  BY <1>1, <1>4, <1>5 DEF Quits, B

\* One step of the world among the astray.
Went(W, A, B, T) == Good(B, W) /\ Beyond(A.level, B.level, T) /\ B.threw \subseteq A.threw \cup W

\* What happens to the astray leaves the others as they were.
LEMMA AstrayKept ==
    ASSUME NEW A, NEW W, Good(A, W), NEW B, NEW S, NEW T, S \subseteq W, Stir(A, B, S, T),
           \A o \in S : Steady(B, o) /\ Bound(B, W, o),
           \A o \in S : B.object[o] = NULL => Members(A, o) = {}
    PROVE  Went(W, A, B, T)
<1>1. Fair(A, W) /\ Rest(A, W) /\ W \subseteq IDs /\ Typed(B) /\ Apart(A, B, S)
  BY DEF Good, Rest, Stir
<1>2. ASSUME NEW g \in Groups \ W
      PROVE  Members(B, g) = Members(A, g)
  <2>1. ASSUME NEW t \in Stalkers \cap S
        PROVE  (B.object[t] # NULL /\ B.object[t].m_group_id = g)
               <=> (A.object[t] # NULL /\ A.object[t].m_group_id = g)
    <3>1. t \in W /\ t \in IDs /\ Bound(A, W, t) /\ Bound(B, W, t) /\ g # NULL
      BY <1>1, Kinds DEF Rest
    <3> QED
      BY <3>1 DEF Bound
  <2> QED
    BY <1>1, <2>1, MembersApart
<1>3. ASSUME NEW p \in IDs \ W
      PROVE  Sound(B, p) /\ Placed(B, p)
  <2>1. p \in Groups => (Members(B, p) # {} <=> Members(A, p) # {})
    BY <1>2
  <2>2. p \in IDs \ S
    OBVIOUS
  <2> QED
    BY <1>1, <2>1, <2>2, Untouched
<1>4. ASSUME NEW g \in Groups \ W, NEW t \in Members(B, g)
      PROVE  Together(B, t, g)
  <2>1. t \in Members(A, g) /\ Together(A, t, g)
    BY <1>2 DEF Good
  <2>2. t \in IDs /\ t \notin W /\ g \in IDs
    <3>1. t \in IDs /\ A.object[t] # NULL /\ A.object[t].m_group_id = g /\ g # NULL /\ g \in IDs
      BY <2>1, Kinds DEF Members
    <3> QED
      BY <1>1, <3>1, Owner
  <2>3. B.object[t] = A.object[t] /\ B.object[g] = A.object[g]
    BY <1>1, <2>2 DEF Apart
  <2> QED
    BY <2>1, <2>3, StillTogether
<1>5. Rest(B, W)
  <2>1. \A o \in IDs \cap S : Bound(B, W, o) /\ (o \in W => Steady(B, o))
    OBVIOUS
  <2> QED
    BY <1>1, <2>1, RestStirred
<1> QED
  BY <1>1, <1>3, <1>4, <1>5 DEF Went, Good, Fair, Stir

LEMMA WentTwice ==
    ASSUME NEW W, NEW A, NEW B, NEW C, NEW T, Went(W, A, B, T), Went(W, B, C, T),
           A.level.objects \cap C.level.objects \subseteq B.level.objects \cup T
    PROVE  Went(W, A, C, T)
  BY DEF Went, Beyond

LEMMA AnyChange ==
    ASSUME NEW A, Typed(A), NEW o \in IDs, A.object[o] \in Objects, NEW v \in Vertices \cup {NULL}
    PROVE  LET B == change(A, o, v)
           IN  /\ Stir(A, B, {o}, {o}) /\ Alike(B.object[o], A.object[o])
               /\ B.scheduled = A.scheduled
<1> DEFINE u == A.object[o].m_tGraphID
           C == Leave(A, o, u)
           B == Enter(C, o, v)
<1>1. u \in Vertices \cup {NULL}
  BY DEF Objects
<1>2. B = change(A, o, v)
  BY DEF change, Leave, Enter
<1> HIDE DEF u
<1>7. Quits(A, C, o)
  BY <1>1, AnyLeave
<1> HIDE DEF C
<1>3. /\ Stir(A, C, {o}, {}) /\ C.object = A.object
      /\ C.scheduled = A.scheduled /\ C.level.objects = A.level.objects \ {o}
  BY <1>7 DEF Quits
<1>4. /\ Stir(C, B, {o}, {}) /\ Alike(B.object[o], C.object[o])
      /\ B.scheduled = C.scheduled /\ C.level.objects \subseteq B.level.objects
  <2>1. Typed(C) /\ C.object[o] \in Objects
    BY <1>3 DEF Stir
  <2> QED
    BY <2>1, AnyEnter
<1> HIDE DEF B
<1>5. A.level.objects \cap B.level.objects \subseteq C.level.objects \cup {o}
  BY <1>3
<1>6. Stir(A, B, {o}, {o})
  BY <1>3, <1>4, <1>5, StirTwice
<1> QED
  BY <1>2, <1>3, <1>4, <1>6

LEMMA ChangeAstray ==
    ASSUME NEW A, NEW W, Good(A, W), NEW s \in W, s \in A.scheduled.objects, NEW v \in Vertices
    PROVE  Went(W, A, change(A, s, v), {s})
<1> DEFINE B == change(A, s, v)
<1>1. Typed(A) /\ s \in IDs /\ Steady(A, s)
  BY DEF Good, Fair, Rest
<1>2. A.object[s] # NULL /\ A.object[s] \in Objects
  BY <1>1, ObjectType DEF Steady
<1>3. ~A.object[s].m_bOnline /\ A.object[s].m_group_id = NULL
  BY <1>1, <1>2 DEF Steady
<1>4. /\ Stir(A, B, {s}, {s}) /\ Alike(B.object[s], A.object[s]) /\ B.scheduled = A.scheduled
  BY <1>1, <1>2, AnyChange
<1> HIDE DEF B
<1>5. B.object[s] # NULL /\ ~B.object[s].m_bOnline /\ B.object[s].m_group_id = NULL
  BY <1>3, <1>4, Kinds DEF Alike
<1>6. Steady(B, s) /\ Bound(B, W, s)
  BY <1>5 DEF Steady, Bound
<1> QED
  BY <1>4, <1>5, <1>6, AstrayKept DEF B

\* An ID is given again of which something is still to be found.
LEMMA RegisterAstray ==
    ASSUME NEW A, NEW W, Good(A, W), NEW o \in W, A.object[o] = NULL, NEW x \in Objects,
           x.m_group_id = NULL
    PROVE  Went(W, A, register_object(A, o, x), {})
<1> DEFINE v == x.m_tGraphID
           C == Put(A, o, x)
           D == Enter(C, o, v)
           B == scheduled_add(D, o)
<1>1. /\ Typed(A) /\ o \in IDs /\ v \in Vertices \cup {NULL} /\ x # NULL
      /\ o \notin A.level.objects /\ o \notin A.scheduled.objects
  <2>1. Steady(A, o)
    BY DEF Good, Rest
  <2> QED
    BY <2>1, Kinds DEF Good, Fair, Rest, Steady, Objects
<1>2. /\ Stir(A, C, {o}, {}) /\ C.object[o] = x
      /\ C.level = A.level /\ C.scheduled = A.scheduled
  BY <1>1, AnyPut
<1>3. B = register_object(A, o, x)
  BY <1>2 DEF register_object, graph_update, Put, Enter
<1> HIDE DEF C, v
<1>4. /\ Stir(C, D, {o}, {}) /\ Alike(D.object[o], x)
      /\ D.scheduled = C.scheduled /\ C.level.objects \subseteq D.level.objects
  BY <1>1, <1>2, AnyEnter, ZenonT(30) DEF Stir
<1> HIDE DEF D
<1>5. /\ Stir(D, B, {o}, {}) /\ B.object = D.object /\ B.level = D.level
      /\ o \in B.scheduled.objects <=> o \in D.scheduled.objects \/ need_update(D, o)
  BY <1>1, <1>4, AnyScheduledAdd DEF Stir
<1> HIDE DEF B
<1>6. Stir(A, B, {o}, {})
  <2>1. Stir(A, D, {o}, {})
    BY <1>2, <1>4, StirTwice
  <2> QED
    BY <1>5, <2>1, StirTwice
<1>7. B.object[o] # NULL /\ B.object[o].m_group_id = NULL
  BY <1>4, <1>5, Kinds DEF Alike
<1>8. o \in B.scheduled.objects => ~B.object[o].m_bOnline
  BY <1>1, <1>2, <1>4, <1>5 DEF need_update
<1>9. Steady(B, o) /\ Bound(B, W, o)
  BY <1>7, <1>8 DEF Steady, Bound
<1> QED
  BY <1>3, <1>6, <1>7, <1>9, AstrayKept

LEMMA UnregisterAny ==
    ASSUME NEW A, Typed(A), NEW s \in Stalkers, A.object[s] \in Objects,
           NEW g \in Groups, A.object[s].m_group_id = g, A.object[g] \in Objects
    PROVE  LET B == unregister_member(A, s)
           IN  /\ Stir(A, B, {s, g}, {}) /\ Alike(B.object[s], Grouped(A.object[s], NULL))
               /\ Alike(B.object[g], A.object[g])
               /\ s \in B.scheduled.objects => s \in A.scheduled.objects \/ ~A.object[s].m_bOnline
               /\ g \in B.scheduled.objects <=> g \in A.scheduled.objects
<1> DEFINE x == A.object[s]
           y == A.object[g]
           v == x.m_tGraphID
           z == Grouped(x, NULL)
           J == Put(A, s, z)
           D == Enter(J, s, v)
           E == scheduled_add(D, s)
           F == IF y.m_bOnline THEN level_remove(E, g, FALSE) ELSE Leave(E, g, y.m_tGraphID)
           G == Put(F, g, Unused(y))
           B == unregister_member(A, s)
<1>1. /\ s \in IDs /\ g \in IDs /\ s # g /\ v \in Vertices \cup {NULL}
      /\ y.m_tGraphID \in Vertices \cup {NULL}
  BY Kinds DEF Objects
<1>2. z \in Objects /\ z.m_tGraphID = v /\ z.m_bOnline = x.m_bOnline /\ z.m_group_id = NULL
  BY DEF Grouped, Objects
<1>3. J = [A EXCEPT !.object[s].m_group_id = NULL]
  BY <1>1 DEF Put, Grouped, Typed, World
<1> HIDE DEF v, z
<1>4. /\ Stir(A, J, {s}, {}) /\ J.object[s] = z
      /\ J.level = A.level /\ J.scheduled = A.scheduled
  BY <1>1, <1>2, AnyPut
<1>5. E = Parted(A, s)
  BY <1>2, <1>3, <1>4 DEF Parted, graph_update, Enter
<1>6. B = IF Members(E, g) # {} THEN E ELSE [F EXCEPT !.object[g].used_ai_locations = FALSE]
  BY <1>5 DEF unregister_member, Parted, Leave
<1> HIDE DEF J, B
<1>7. /\ Stir(J, D, {s}, {}) /\ Alike(D.object[s], z)
      /\ D.scheduled = J.scheduled /\ J.level.objects \subseteq D.level.objects
  BY <1>1, <1>2, <1>4, AnyEnter, ZenonT(30) DEF Stir
<1> HIDE DEF D
<1>8. /\ Stir(D, E, {s}, {}) /\ E.object = D.object /\ E.level = D.level
      /\ s \in E.scheduled.objects <=> s \in D.scheduled.objects \/ need_update(D, s)
  BY <1>1, <1>7, AnyScheduledAdd DEF Stir
<1> HIDE DEF E
<1>9. /\ Stir(A, E, {s}, {}) /\ A.level.objects \subseteq E.level.objects
  <2>1. Stir(A, D, {s}, {})
    BY <1>4, <1>7, StirTwice
  <2> QED
    BY <1>4, <1>7, <1>8, <2>1, StirTwice
<1>10. /\ Alike(E.object[s], z) /\ E.object[g] = y
       /\ s \in E.scheduled.objects => s \in A.scheduled.objects \/ ~x.m_bOnline
       /\ g \in E.scheduled.objects <=> g \in A.scheduled.objects
  BY <1>1, <1>2, <1>4, <1>7, <1>8, <1>9 DEF Alike, need_update, Stir, Apart
<1>11. /\ Stir(E, F, {g}, {}) /\ F.object = E.object /\ F.scheduled = E.scheduled
       /\ F.level.objects \subseteq E.level.objects
  <2>1. Typed(E)
    BY <1>9 DEF Stir
  <2>2. CASE y.m_bOnline
    <3>1. \E n \in BOOLEAN : F = level_remove(E, g, n)
      BY <2>2
    <3> HIDE DEF F
    <3> QED
      BY <1>1, <2>1, <3>1, AnyLevelRemove
  <2>3. CASE ~y.m_bOnline
    <3>1. F = Leave(E, g, y.m_tGraphID)
      BY <2>3
    <3> HIDE DEF F
    <3> DEFINE u == y.m_tGraphID
    <3>2. u \in Vertices \cup {NULL}
      BY <1>1
    <3>4. F = Leave(E, g, u)
      BY <3>1
    <3> HIDE DEF u
    <3>5. Quits(E, Leave(E, g, u), g)
      BY <1>1, <2>1, <3>2, AnyLeave
    <3>3. /\ Stir(E, F, {g}, {}) /\ F.object = E.object
          /\ F.scheduled = E.scheduled /\ F.level.objects = E.level.objects \ {g}
      BY <3>4, <3>5 DEF Quits
    <3> QED
      BY <3>3
  <2> QED
    BY <2>2, <2>3
<1> HIDE DEF F
<1>12. Unused(y) \in Objects /\ Alike(Unused(y), y)
  BY DEF Unused, Objects, Alike
<1>13. /\ Stir(F, G, {g}, {}) /\ G.object[g] = Unused(y)
       /\ G.level = F.level /\ G.scheduled = F.scheduled
  <2> DEFINE w == Unused(y)
  <2>1. w \in Objects /\ Typed(F)
    BY <1>11, <1>12 DEF Stir
  <2> HIDE DEF w
  <2>2. LET H == Put(F, g, w)
        IN  /\ Stir(F, H, {g}, {}) /\ H.object[g] = w
            /\ H.level = F.level /\ H.scheduled = F.scheduled /\ H.points = F.points
    BY <1>1, <2>1, AnyPut
  <2> QED
    BY <2>2 DEF w
<1>14. G = [F EXCEPT !.object[g].used_ai_locations = FALSE]
  <2>1. Typed(F) /\ F.object[g] = y
    BY <1>10, <1>11 DEF Stir
  <2> QED
    BY <1>1, <2>1 DEF Put, Unused, Typed, World
<1> HIDE DEF G
<1>15. CASE B = E
  <2>1. Stir(A, B, {s, g}, {})
    <3>1. Stir(E, E, {g}, {})
      BY <1>9, OnwardSame, OnwardBeyond DEF Stir, Apart
    <3> QED
      BY <1>9, <1>15, <3>1, StirTwice
  <2>2. Alike(y, y)
    BY DEF Alike
  <2> QED
    BY <1>10, <1>15, <2>1, <2>2 DEF B, z
<1>16. CASE B = G
  <2>1. Stir(E, G, {g}, {}) /\ G.level.objects \subseteq E.level.objects
    BY <1>11, <1>13, StirTwice
  <2>2. Stir(A, G, {s, g}, {})
    BY <1>9, <2>1, StirTwice
  <2>3. Alike(G.object[s], z)
    BY <1>1, <1>10, <2>1 DEF Stir, Apart
  <2>4. /\ s \in G.scheduled.objects <=> s \in E.scheduled.objects
        /\ g \in G.scheduled.objects <=> g \in E.scheduled.objects
    BY <1>11, <1>13
  <2> QED
    BY <1>10, <1>12, <1>13, <1>16, <2>2, <2>3, <2>4 DEF B, z
<1> QED
  BY <1>6, <1>14, <1>15, <1>16

LEMMA UnregisterAstray ==
    ASSUME NEW A, NEW W, Good(A, W), NEW s \in Stalkers \cap W, A.object[s] # NULL,
           A.object[s].m_group_id # NULL
    PROVE  LET B == unregister_member(A, s)
           IN  /\ Went(W, A, B, {}) /\ Alike(B.object[s], Grouped(A.object[s], NULL))
<1> DEFINE x == A.object[s]
           g == x.m_group_id
           y == A.object[g]
           B == unregister_member(A, s)
<1>1. /\ Typed(A) /\ Fair(A, W) /\ Rest(A, W) /\ s \in IDs
  BY Kinds DEF Good, Fair
<1>2. g \in Groups /\ y # NULL /\ g \in W
  BY <1>1, Owner
<1>3. g \in IDs /\ x \in Objects /\ y \in Objects /\ s # g
  BY <1>1, <1>2, ObjectType, Kinds
<1>4. Steady(A, s) /\ Steady(A, g)
  BY <1>1, <1>2 DEF Rest
<1> HIDE DEF g
<1>5. x.m_group_id = g /\ g # NULL
  BY <1>2, Kinds DEF g
<1>6. /\ Stir(A, B, {s, g}, {}) /\ Alike(B.object[s], Grouped(x, NULL)) /\ Alike(B.object[g], y)
      /\ s \in B.scheduled.objects => s \in A.scheduled.objects \/ ~x.m_bOnline
      /\ g \in B.scheduled.objects <=> g \in A.scheduled.objects
  BY <1>1, <1>2, <1>3, <1>5, UnregisterAny
<1> HIDE DEF B
<1>7. /\ B.object[s] # NULL /\ B.object[s].m_group_id = NULL /\ B.object[s].m_bOnline = x.m_bOnline
      /\ B.object[g] # NULL /\ B.object[g].m_group_id = NULL /\ B.object[g].m_bOnline = y.m_bOnline
  <2>1. y.m_group_id = NULL
    BY <1>2, <1>4 DEF Steady
  <2>2. Grouped(x, NULL).m_group_id = NULL /\ Grouped(x, NULL).m_bOnline = x.m_bOnline
    BY <1>3 DEF Grouped, Objects
  <2> QED
    BY <1>6, <2>1, <2>2, Kinds DEF Alike
<1>8. s \notin A.scheduled.objects
  BY <1>3, <1>4, <1>5, Kinds DEF Steady
<1>9. Steady(B, s) /\ Bound(B, W, s)
  BY <1>6, <1>7, <1>8 DEF Steady, Bound
<1>10. Steady(B, g) /\ Bound(B, W, g)
  BY <1>2, <1>4, <1>6, <1>7 DEF Steady, Bound
<1>11. Went(W, A, B, {})
  BY <1>2, <1>6, <1>7, <1>9, <1>10, AstrayKept
<1> QED
  BY <1>6, <1>11 DEF B

\* Out of the registry of the level and of the schedule.
TakesOut(A, C, o, v) == \/ A.object[o].m_bOnline /\ \E n \in BOOLEAN : C = level_remove(A, o, n)
                        \/ C = scheduled_remove(Leave(A, o, v), o)

LEMMA OutOfBoth ==
    ASSUME NEW A, Typed(A), NEW o \in IDs, NEW v \in Vertices \cup {NULL},
           A.object[o].m_bOnline => o \notin A.scheduled.objects, NEW C, TakesOut(A, C, o, v)
    PROVE  /\ Stir(A, C, {o}, {}) /\ C.object = A.object
           /\ C.level.objects = A.level.objects \ {o} /\ o \notin C.scheduled.objects
<1>1. CASE A.object[o].m_bOnline /\ \E n \in BOOLEAN : C = level_remove(A, o, n)
  <2>2. \E n \in BOOLEAN : C = level_remove(A, o, n)
    BY <1>1
  <2>1. /\ Stir(A, C, {o}, {}) /\ C.object = A.object /\ C.scheduled = A.scheduled
        /\ C.level.objects = A.level.objects \ {o}
    BY <2>2, AnyLevelRemove
  <2> QED
    BY <1>1, <2>1
<1>2. CASE C = scheduled_remove(Leave(A, o, v), o)
  <2> DEFINE L == Leave(A, o, v)
  <2>1. Quits(A, L, o)
    BY AnyLeave
  <2>2. C = scheduled_remove(L, o)
    BY <1>2
  <2> HIDE DEF L
  <2>3. LET D == scheduled_remove(L, o)
        IN  /\ Stir(L, D, {o}, {}) /\ D.object = L.object /\ D.level = L.level
            /\ o \notin D.scheduled.objects
    BY <2>1, AnyScheduledRemove DEF Quits, Stir
  <2>4. /\ Stir(L, C, {o}, {}) /\ C.object = L.object /\ C.level = L.level
        /\ o \notin C.scheduled.objects
    BY <2>2, <2>3
  <2>5. /\ Stir(A, L, {o}, {}) /\ L.object = A.object
        /\ L.level.objects = A.level.objects \ {o}
    BY <2>1 DEF Quits
  <2>6. Stir(A, C, {o}, {})
    BY <2>4, <2>5, StirTwice
  <2> QED
    BY <2>4, <2>5, <2>6
<1> QED
  BY <1>1, <1>2 DEF TakesOut

LEMMA GoneAstray ==
    ASSUME NEW A, NEW W, Good(A, W), NEW o \in W, A.object[o] # NULL, Members(A, o) = {},
           NEW C, Stir(A, C, {o}, {}), C.level.objects = A.level.objects \ {o},
           o \notin C.scheduled.objects
    PROVE  /\ Went(W, A, Put(C, o, NULL), {})
           /\ Put(C, o, NULL).level.objects \subseteq A.level.objects
<1> DEFINE z == NULL
           B == Put(C, o, z)
<1>1. o \in IDs /\ Typed(C) /\ z \in Objects \cup {NULL}
  BY DEF Good, Rest, Stir
<1> HIDE DEF z
<1>2. /\ Stir(C, B, {o}, {}) /\ B.object[o] = z
      /\ B.level = C.level /\ B.scheduled = C.scheduled
  BY <1>1, AnyPut
<1>3. B = Put(C, o, NULL)
  BY DEF z
<1> HIDE DEF B
<1>4. Stir(A, B, {o}, {})
  BY <1>2, StirTwice
<1>5. Steady(B, o) /\ Bound(B, W, o)
  BY <1>2 DEF z, Steady, Bound
<1>6. Went(W, A, B, {})
  BY <1>4, <1>5, AstrayKept
<1> QED
  BY <1>2, <1>3, <1>6

LEMMA ReleaseAstray ==
    ASSUME NEW A, NEW W, Good(A, W), NEW o \in W, A.object[o] # NULL, Members(A, o) = {}
    PROVE  Went(W, A, release(A, o), {})
<1> DEFINE x == A.object[o]
           v == x.m_tGraphID
           U == unregister_member(A, o)
           D == IF x.m_group_id = NULL THEN A ELSE U
           C == IF x.m_bOnline THEN level_remove(D, o, ~x.used_ai_locations)
                ELSE scheduled_remove(Leave(D, o, v), o)
<1>1. Typed(A) /\ Fair(A, W) /\ Rest(A, W) /\ o \in IDs /\ x \in Objects
  BY ObjectType DEF Good, Fair, Rest
<1>2. v \in Vertices \cup {NULL}
  BY <1>1 DEF Objects
<1>3. release(A, o) = Put(C, o, NULL)
  BY DEF release, Put, Leave
<1>4. /\ Went(W, A, D, {}) /\ D.object[o] # NULL /\ D.object[o].m_bOnline = x.m_bOnline
      /\ Members(D, o) = {}
  <2>1. CASE x.m_group_id = NULL
    <3>1. D = A
      BY <2>1
    <3> HIDE DEF D
    <3> QED
      BY <3>1, OnwardSame, OnwardBeyond DEF Went
  <2>2. CASE x.m_group_id # NULL
    <3>1. o \in Stalkers \cap W
      BY <1>1, <2>2, Owner
    <3>2. Went(W, A, U, {}) /\ Alike(U.object[o], Grouped(x, NULL))
      BY <2>2, <3>1, UnregisterAstray
    <3>3. D = U
      BY <2>2
    <3> HIDE DEF D, U
    <3>4. Grouped(x, NULL).m_bOnline = x.m_bOnline
      BY <1>1 DEF Grouped, Objects
    <3>5. Members(D, o) = {}
      <4>1. ASSUME NEW t \in Members(D, o) PROVE FALSE
        <5>1. t \in IDs /\ D.object[t] # NULL /\ D.object[t].m_group_id # NULL /\ D.object[t].m_group_id = o
          BY <1>1, <4>1, Kinds DEF Members
        <5>2. Fair(D, W) /\ Rest(D, W)
          BY <3>2, <3>3 DEF Went, Good
        <5>3. o \in Groups
          BY <5>1, <5>2, Owner
        <5> QED
          BY <3>1, <5>3, Kinds
      <4> QED
        BY <4>1
    <3> QED
      BY <3>2, <3>3, <3>4, <3>5, Kinds DEF Alike
  <2> QED
    BY <2>1, <2>2
<1>5. Good(D, W) /\ Typed(D) /\ Steady(D, o)
  BY <1>4 DEF Went, Good, Fair, Rest
<1>6. D.object[o].m_bOnline => o \notin D.scheduled.objects
  BY <1>4, <1>5 DEF Steady
<1> HIDE DEF D, v
<1>7. TakesOut(D, C, o, v)
  <2> DEFINE n == ~x.used_ai_locations
  <2>1. n \in BOOLEAN
    OBVIOUS
  <2>2. x.m_bOnline => C = level_remove(D, o, n)
    OBVIOUS
  <2>3. ~x.m_bOnline => C = scheduled_remove(Leave(D, o, v), o)
    OBVIOUS
  <2> HIDE DEF n, C
  <2> QED
    BY <1>4, <2>1, <2>2, <2>3 DEF TakesOut
<1> HIDE DEF C
<1>8. /\ Stir(D, C, {o}, {}) /\ C.object = D.object
      /\ C.level.objects = D.level.objects \ {o} /\ o \notin C.scheduled.objects
  BY <1>1, <1>2, <1>5, <1>6, <1>7, OutOfBoth
<1> DEFINE B == Put(C, o, NULL)
<1>9. Went(W, D, B, {}) /\ B.level.objects \subseteq D.level.objects
  BY <1>4, <1>5, <1>8, GoneAstray
<1> HIDE DEF B
<1>10. Went(W, A, B, {})
  BY <1>4, <1>9, WentTwice
<1> QED
  BY <1>3, <1>10 DEF B

\* Whoever joins a group leaves the registries, wherever he has been.
LEMMA JoinAstray ==
    ASSUME NEW A, NEW W, Good(A, W), NEW g \in Groups \cap W, NEW s \in Stalkers \cap W,
           A.object[g] # NULL, A.object[s] # NULL, A.object[s].m_group_id = NULL
    PROVE  Went(W, A, register_member(A, g, s), {})
<1> DEFINE x == A.object[s]
           y == A.object[g]
           v == x.m_tGraphID
           p == Grouped(x, g)
           q == Used(y, v)
           J == Put(A, s, p)
           K == Put(J, g, q)
           L == Enter(K, g, v)
           D == Joined(A, g, s)
           B == register_member(A, g, s)
<1>1. Typed(A) /\ s \in IDs /\ g \in IDs /\ s # g /\ x \in Objects /\ y \in Objects
  BY ObjectType, Kinds DEF Good, Fair
<1>2. v \in Vertices \cup {NULL}
  BY <1>1 DEF Objects
<1>3. p \in Objects /\ p.m_bOnline = x.m_bOnline /\ p.m_group_id = g
  BY <1>1 DEF Grouped, Objects
<1>4. q \in Objects /\ Alike(q, y) /\ q.m_tGraphID = v
  BY <1>1, <1>2 DEF Used, Objects, Alike
<1>5. J = [A EXCEPT !.object[s].m_group_id = g]
  BY <1>1 DEF Put, Grouped, Typed, World
<1>6. /\ Stir(A, J, {s}, {}) /\ J.object[s] = p /\ J.level = A.level /\ J.scheduled = A.scheduled
  <2> HIDE DEF p
  <2> QED
    BY <1>1, <1>3, AnyPut
<1>7. Typed(J) /\ J.object[g] = y
  BY <1>1, <1>6 DEF Stir, Apart
<1>8. K = [J EXCEPT !.object[g].m_tGraphID = v, !.object[g].used_ai_locations = TRUE]
  <2> HIDE DEF J, v
  <2> QED
    BY <1>1, <1>7 DEF Put, Used, Typed, World
<1>9. /\ Stir(J, K, {g}, {}) /\ K.object[g] = q /\ K.level = J.level /\ K.scheduled = J.scheduled
  <2> HIDE DEF q, J
  <2> QED
    BY <1>1, <1>4, <1>7, AnyPut
<1>10. graph_update(K, g) = L
  BY <1>4, <1>9 DEF graph_update, Enter
<1>11. B = IF x.m_bOnline THEN level_remove(D, s, FALSE) ELSE scheduled_remove(Leave(D, s, v), s)
  BY DEF register_member, Joined, Leave
<1>22. /\ Members(A, g) # {} => D = J
       /\ Members(A, g) = {} => D = L
  <2>1. Members(A, g) = {} => D = graph_update(K, g)
    <3> HIDE DEF K
    <3> QED
      BY <1>5, <1>8 DEF Joined
  <2>2. Members(A, g) # {} => D = J
    BY <1>5 DEF Joined
  <2> QED
    BY <1>10, <2>1, <2>2
<1> HIDE DEF B, D, J, K, p, q
<1>12. /\ Stir(K, L, {g}, {}) /\ Alike(L.object[g], q)
       /\ L.scheduled = K.scheduled /\ K.level.objects \subseteq L.level.objects
  <2> HIDE DEF v
  <2> QED
    BY <1>1, <1>2, <1>4, <1>9, AnyEnter DEF Stir
<1> HIDE DEF L
<1>13. /\ Stir(A, D, {s, g}, {}) /\ D.object[s] = p /\ D.object[g].m_bOnline = y.m_bOnline
       /\ D.object[g] \in Objects /\ D.object[g].m_group_id = y.m_group_id
       /\ D.scheduled = A.scheduled /\ A.level.objects \subseteq D.level.objects
  <2>1. CASE Members(A, g) # {}
    <3>1. D = J
      BY <1>22, <2>1
    <3>2. Stir(J, J, {g}, {})
      BY <1>7, OnwardSame, OnwardBeyond DEF Stir, Apart
    <3>3. Stir(A, J, {s, g}, {})
      BY <1>6, <3>2, StirTwice
    <3> QED
      BY <1>1, <1>6, <1>7, <3>1, <3>3
  <2>2. CASE Members(A, g) = {}
    <3>1. D = L
      BY <1>22, <2>2
    <3>2. Stir(J, L, {g}, {})
      BY <1>9, <1>12, StirTwice
    <3>3. Stir(A, L, {s, g}, {})
      BY <1>6, <1>9, <1>12, <3>2, StirTwice
    <3>4. L.object[s] = p
      BY <1>1, <1>6, <3>2 DEF Stir, Apart
    <3> QED
      BY <1>4, <1>6, <1>9, <1>12, <3>1, <3>3, <3>4 DEF Alike
  <2> QED
    BY <2>1, <2>2
<1>14. Steady(A, s) /\ Steady(A, g)
  BY DEF Good, Rest
<1>15. Typed(D) /\ (D.object[s].m_bOnline => s \notin D.scheduled.objects)
  BY <1>3, <1>13, <1>14 DEF Steady, Stir
<1>16. TakesOut(D, B, s, v)
  <2>1. CASE x.m_bOnline
    <3>1. B = level_remove(D, s, FALSE) /\ D.object[s].m_bOnline
      BY <1>3, <1>11, <1>13, <2>1
    <3> QED
      BY <3>1 DEF TakesOut
  <2>2. CASE ~x.m_bOnline
    BY <1>11, <2>2 DEF TakesOut
  <2> QED
    BY <2>1, <2>2
<1> HIDE DEF v
<1>17. /\ Stir(D, B, {s}, {}) /\ B.object = D.object
       /\ B.level.objects = D.level.objects \ {s} /\ s \notin B.scheduled.objects
  BY <1>1, <1>2, <1>15, <1>16, OutOfBoth
<1>18. Stir(A, B, {s, g}, {})
  BY <1>13, <1>17, StirTwice
<1>19. /\ B.object[s] # NULL /\ B.object[s].m_group_id = g /\ B.object[g] # NULL
       /\ B.object[g].m_group_id = NULL /\ B.object[g].m_bOnline = y.m_bOnline
       /\ g \in B.scheduled.objects => g \in A.scheduled.objects
  BY <1>1, <1>3, <1>13, <1>14, <1>17, Kinds DEF Steady, Stir, Apart
<1>20. Steady(B, s) /\ Bound(B, W, s)
  BY <1>1, <1>17, <1>19, Kinds DEF Steady, Bound
<1>21. Steady(B, g) /\ Bound(B, W, g)
  BY <1>14, <1>19 DEF Steady, Bound
<1> DEFINE S == {s, g}
<1>23. \A o \in S : Steady(B, o) /\ Bound(B, W, o)
  BY <1>20, <1>21
<1>24. \A o \in S : B.object[o] = NULL => Members(A, o) = {}
  BY <1>19
<1>25. S \subseteq W /\ Stir(A, B, S, {})
  BY <1>18
<1> HIDE DEF S
<1>26. Went(W, A, B, {})
  BY <1>23, <1>24, <1>25, AstrayKept
<1> QED
  BY <1>26 DEF B

\* A script has killed: first the schedule, then, if he is moved, the places.
Slain(x, v) == [x EXCEPT !.alive = FALSE, !.m_tGraphID = v]

Slew(A, s, v) == scheduled_remove([A EXCEPT !.object[s].alive = FALSE, !.object[s].m_tGraphID = v], s)

Buried(A, s, v) == Enter(Leave(Slew(A, s, v), s, A.object[s].m_tGraphID), s, v)

LEMMA SlewFacts ==
    ASSUME NEW A, Typed(A), NEW s \in IDs, A.object[s] \in Objects, NEW v \in Vertices
    PROVE  LET B == Slew(A, s, v)
           IN  /\ Stir(A, B, {s}, {}) /\ B.object[s] = Slain(A.object[s], v)
               /\ B.level = A.level /\ B.points = A.points /\ B.threw = A.threw
               /\ s \notin B.scheduled.objects
<1> DEFINE x == A.object[s]
           z == Slain(x, v)
           D == Put(A, s, z)
           B == scheduled_remove(D, s)
<1>1. z \in Objects /\ ~z.alive
  BY DEF Slain, Objects
<1>2. D = [A EXCEPT !.object[s].alive = FALSE, !.object[s].m_tGraphID = v]
  BY DEF Put, Slain, Typed, World
<1>3. B = Slew(A, s, v)
  BY <1>2 DEF Slew
<1> HIDE DEF z
<1>4. /\ Typed(D) /\ Apart(A, D, {s}) /\ D.object[s] = z
      /\ D.points = A.points /\ D.level = A.level /\ D.scheduled = A.scheduled
      /\ D.threw = A.threw
  BY <1>1, PutFacts
<1> HIDE DEF D
<1>5. need_update(D, s) => s \in D.scheduled.objects
  BY <1>1, <1>4 DEF need_update
<1>6. /\ Typed(B) /\ B.object = D.object /\ B.points = D.points
      /\ B.level = D.level /\ B.threw = D.threw
      /\ B.scheduled.objects = D.scheduled.objects \ {s}
  BY <1>4, <1>5, ScheduledRemove, ZenonT(30)
<1> HIDE DEF B
<1>7. Apart(A, B, {s})
  BY <1>4, <1>6 DEF Apart
<1>8. Stir(A, B, {s}, {})
  BY <1>4, <1>6, <1>7, OnwardSame, OnwardBeyond DEF Stir
<1> QED
  BY <1>3, <1>4, <1>6, <1>8 DEF z

LEMMA KillAstray ==
    ASSUME NEW A, NEW W, Good(A, W), NEW s \in W, A.object[s] # NULL, NEW v \in Vertices
    PROVE  /\ Went(W, A, Slew(A, s, v), {})
           /\ Went(W, A, Buried(A, s, v), {s})
<1> DEFINE x == A.object[s]
           u == x.m_tGraphID
           D == Slew(A, s, v)
           E == Leave(D, s, u)
           B == Enter(E, s, v)
<1>1. Typed(A) /\ s \in IDs /\ x \in Objects /\ Bound(A, W, s)
  BY ObjectType DEF Good, Fair, Rest
<1>2. u \in Vertices \cup {NULL} /\ v \in Vertices \cup {NULL}
  BY <1>1 DEF Objects
<1>3. /\ Stir(A, D, {s}, {}) /\ D.object[s] = Slain(x, v)
      /\ D.level = A.level /\ s \notin D.scheduled.objects
  BY <1>1, SlewFacts
<1>4. B = Buried(A, s, v)
  BY DEF Buried
<1>5. /\ Slain(x, v) \in Objects /\ ~Slain(x, v).alive /\ Slain(x, v).m_group_id = x.m_group_id
  BY <1>1 DEF Slain, Objects
<1>6. s \in Groups => x.m_group_id = NULL
  BY DEF Good, Rest, Steady
<1>7. ASSUME NEW C, NEW T, Stir(A, C, {s}, T), Alike(C.object[s], Slain(x, v)), s \notin C.scheduled.objects
      PROVE  Went(W, A, C, T)
  <2>1. C.object[s] # NULL /\ ~C.object[s].alive /\ C.object[s].m_group_id = x.m_group_id
    BY <1>5, <1>7, Kinds DEF Alike
  <2>2. Steady(C, s)
    BY <1>6, <1>7, <2>1 DEF Steady
  <2>3. Bound(C, W, s)
    <3> SUFFICES ASSUME x.m_group_id # NULL
                 PROVE  C.object[x.m_group_id] # NULL /\ (s \in W <=> x.m_group_id \in W)
      BY <2>1 DEF Bound
    <3>1. A.object[x.m_group_id] # NULL /\ (s \in W <=> x.m_group_id \in W)
      BY <1>1 DEF Bound
    <3>2. x.m_group_id \in IDs
      BY <1>1, Kinds DEF Objects
    <3> QED
      BY <1>7, <2>1, <3>1, <3>2 DEF Stir, Apart
  <2> QED
    BY <1>7, <2>1, <2>2, <2>3, AstrayKept
<1> HIDE DEF u, D
<1>8. Went(W, A, D, {})
  <2>1. Alike(D.object[s], Slain(x, v))
    BY <1>3, <1>5 DEF Alike
  <2> QED
    BY <1>3, <1>7, <2>1
<1>9. Typed(D)
  BY <1>3 DEF Stir
<1>10. Quits(D, E, s)
  BY <1>1, <1>2, <1>9, AnyLeave
<1>11. /\ Stir(D, E, {s}, {}) /\ E.object = D.object /\ E.scheduled = D.scheduled
       /\ E.level.objects = D.level.objects \ {s}
  <2> HIDE DEF E
  <2> QED
    BY <1>10 DEF Quits
<1> HIDE DEF E
<1>12. /\ Stir(E, B, {s}, {}) /\ Alike(B.object[s], E.object[s])
       /\ B.scheduled = E.scheduled /\ E.level.objects \subseteq B.level.objects
  <2>1. Typed(E) /\ E.object[s] \in Objects
    BY <1>3, <1>5, <1>11 DEF Stir
  <2> QED
    BY <1>1, <1>2, <2>1, AnyEnter
<1> HIDE DEF B
<1>13. Stir(A, B, {s}, {s})
  <2>1. Stir(A, E, {s}, {})
    BY <1>3, <1>11, StirTwice
  <2>2. A.level.objects \cap B.level.objects \subseteq E.level.objects \cup {s}
    BY <1>3, <1>11
  <2> QED
    BY <1>12, <2>1, <2>2, StirTwice
<1>14. Alike(B.object[s], Slain(x, v)) /\ s \notin B.scheduled.objects
  BY <1>3, <1>11, <1>12 DEF Alike
<1>15. Went(W, A, B, {s})
  BY <1>7, <1>13, <1>14
<1> QED
  BY <1>4, <1>8, <1>15 DEF D

\* Nobody else notices when he is in no group, and not moved or offline.
LEMMA KillLoose ==
    ASSUME NEW A, NEW W, Good(A, W), NEW s \in Stalkers \ W, A.object[s] # NULL,
           A.object[s].m_group_id = NULL, NEW v \in Vertices
    PROVE  /\ v = A.object[s].m_tGraphID => Went(W, A, Slew(A, s, v), {})
           /\ ~A.object[s].m_bOnline => Went(W, A, Buried(A, s, v), {s})
<1> DEFINE x == A.object[s]
           u == x.m_tGraphID
           D == Slew(A, s, v)
           E == Leave(D, s, u)
           B == Enter(E, s, v)
<1>1. /\ Typed(A) /\ Fair(A, W) /\ Rest(A, W) /\ s \in IDs /\ s \notin Groups /\ x \in Objects
      /\ Sound(A, s) /\ Placed(A, s)
  BY ObjectType, Kinds DEF Good, Fair
<1>2. /\ Loose(A, s) /\ x.used_ai_locations /\ u # NULL /\ u \in Vertices
      /\ x.m_bOnline => u = Here
  BY <1>1 DEF Sound, Loose, Objects
<1>3. /\ s \in A.level.objects <=> u = Here
      /\ \A w \in Vertices : s \in A.points[w] <=> ~x.m_bOnline /\ u = w
  BY <1>1, <1>2 DEF Placed
<1>4. /\ Stir(A, D, {s}, {}) /\ D.object[s] = Slain(x, v)
      /\ D.level = A.level /\ D.points = A.points /\ D.threw = A.threw
      /\ s \notin D.scheduled.objects
  BY <1>1, SlewFacts
<1>5. B = Buried(A, s, v)
  BY DEF Buried
<1>6. /\ Slain(x, v) \in Objects /\ ~Slain(x, v).alive /\ Slain(x, v).m_group_id = NULL
      /\ Slain(x, v).m_bOnline = x.m_bOnline /\ Slain(x, v).m_tGraphID = v
      /\ Slain(x, v).used_ai_locations /\ Slain(x, v) # NULL /\ v # NULL
  BY <1>1, <1>2, Kinds DEF Slain, Objects
<1>7. ASSUME NEW C, NEW T, Stir(A, C, {s}, T), C.threw = A.threw, C.object[s] = Slain(x, v),
             s \notin C.scheduled.objects, x.m_bOnline => v = Here,
             s \in C.level.objects <=> v = Here,
             \A w \in Vertices : s \in C.points[w] <=> ~x.m_bOnline /\ v = w
      PROVE  Went(W, A, C, T)
  <2>1. Apart(A, C, {s}) /\ Typed(C)
    BY <1>7 DEF Stir
  <2>2. \A g : g # NULL => Members(C, g) = Members(A, g)
    <3> SUFFICES ASSUME NEW g, g # NULL PROVE Members(C, g) = Members(A, g)
      OBVIOUS
    <3>1. \A t \in Stalkers \cap {s} : (C.object[t] # NULL /\ C.object[t].m_group_id = g)
                                       <=> (A.object[t] # NULL /\ A.object[t].m_group_id = g)
      BY <1>6, <1>7
    <3> QED
      BY <2>1, <3>1, MembersApart
  <2>3. ASSUME NEW p \in IDs, p # s, p \notin W
        PROVE  Sound(C, p) /\ Placed(C, p)
    <3>1. p \in Groups => (Members(C, p) # {} <=> Members(A, p) # {})
      BY <2>2, Kinds
    <3> QED
      BY <1>1, <2>1, <2>3, <3>1, Untouched
  <2>4. Sound(C, s)
    BY <1>1, <1>6, <1>7 DEF Sound
  <2>5. Placed(C, s)
    <3>1. Loose(C, s)
      BY <1>1, <1>6, <1>7 DEF Loose
    <3> QED
      BY <1>1, <1>6, <1>7, <3>1 DEF Placed
  <2>6. ASSUME NEW g \in Groups \ W, NEW t \in Members(C, g)
        PROVE  Together(C, t, g)
    <3>1. t \in Stalkers /\ t \in IDs /\ t # s /\ g \in IDs /\ g # s
      BY <1>1, <1>6, <1>7, Kinds DEF Members
    <3>2. C.object[t] = A.object[t] /\ C.object[g] = A.object[g]
      BY <2>1, <3>1 DEF Apart
    <3>3. t \in Members(A, g) => Together(A, t, g)
      BY DEF Good
    <3> QED
      BY <3>2, <3>3, StillTogether
  <2>7. Rest(C, W)
    <3>1. Bound(C, W, s) /\ C.object[s] # NULL
      BY <1>6, <1>7 DEF Bound
    <3> QED
      BY <1>1, <2>1, <3>1, RestKept
  <2> QED
    BY <1>7, <2>1, <2>3, <2>4, <2>5, <2>6, <2>7 DEF Went, Good, Fair, Stir
<1> HIDE DEF u, D
<1>8. ASSUME v = u PROVE Went(W, A, D, {})
  BY <1>2, <1>3, <1>4, <1>7, <1>8
<1>9. ASSUME ~x.m_bOnline PROVE Went(W, A, B, {s})
  <2>1. Typed(D) /\ D.object[s] \in Objects /\ Apart(A, D, {s})
    BY <1>4, <1>6 DEF Stir
  <2>2. Left(D, E, s, u) /\ E.threw = D.threw
    <3>1. D.object[s].used_ai_locations => u \in Vertices /\ s \in D.points[u]
      BY <1>2, <1>3, <1>4, <1>9
    <3>2. u # Here \/ s \in D.level.objects
      BY <1>3, <1>4
    <3>3. Left(D, E, s, u)
      BY <1>1, <1>2, <2>1, <3>1, LeaveFacts
    <3> HIDE DEF E
    <3> QED
      BY <3>2, <3>3 DEF Left
  <2> HIDE DEF E
  <2>3. /\ Typed(E) /\ Apart(D, E, {s}) /\ E.object[s] = Slain(x, v) /\ s \notin E.level.objects
        /\ E.scheduled = D.scheduled /\ \A w \in Vertices : s \notin E.points[w]
        /\ E.threw = A.threw
    BY <1>2, <1>3, <1>4, <1>6, <2>2 DEF Left
  <2>4. Entered(E, B, s, v)
    BY <1>1, <1>6, <1>9, <2>3, EnterFacts
  <2> HIDE DEF B
  <2>5. /\ Typed(B) /\ Apart(E, B, {s}) /\ B.threw = A.threw
        /\ B.object[s] = Moved(Slain(x, v), v)
        /\ s \in B.level.objects <=> v = Here
        /\ B.scheduled = E.scheduled /\ Onward(E.level, B.level)
        /\ \A w \in Vertices : s \in B.points[w] <=> w = v
    BY <2>3, <2>4 DEF Entered
  <2>6. Moved(Slain(x, v), v) = Slain(x, v)
    BY <1>6 DEF Moved, Objects
  <2>7. Stir(A, B, {s}, {s})
    <3>1. Apart(A, B, {s})
      <4>1. Apart(A, E, {s})
        BY <2>1, <2>3, ApartTwice
      <4> QED
        BY <2>5, <4>1, ApartTwice
    <3>2. Onward(D.level, E.level) /\ \A y \in D.level.objects : y = s \/ y \in E.level.objects
      BY <2>1, <2>2, <2>3 DEF Left, Apart, Typed, World, Registries
    <3>3. Beyond(A.level, B.level, {s})
      BY <1>4, <2>5, <3>2 DEF Beyond, Onward
    <3> QED
      BY <2>5, <3>1, <3>3 DEF Stir
  <2> QED
    BY <1>4, <1>7, <1>9, <2>3, <2>5, <2>6, <2>7
<1> QED
  BY <1>5, <1>8, <1>9 DEF D, u

LEMMA DieAstray ==
    ASSUME NEW A, NEW W, Good(A, W), NEW s \in Stalkers \cap W, A.object[s] # NULL
    PROVE  Went(W, A, Died(A, s), {})
<1> DEFINE x == A.object[s]
           z == Dead(x)
           D == Put(A, s, z)
<1>1. Typed(A) /\ s \in IDs /\ x \in Objects /\ Steady(A, s) /\ Bound(A, W, s)
  BY ObjectType, Kinds DEF Good, Fair, Rest
<1>2. z \in Objects /\ z.m_bOnline = x.m_bOnline /\ ~z.alive /\ z.m_group_id = x.m_group_id
  BY <1>1 DEF Dead, Objects
<1>3. D = [A EXCEPT !.object[s].alive = FALSE, !.object[s].died = TRUE]
  BY <1>1 DEF Put, Dead, Typed, World
<1>4. Died(A, s) = IF D.object[s].m_group_id = NULL THEN D ELSE unregister_member(D, s)
  BY <1>3 DEF Died
<1> HIDE DEF z
<1>5. Stir(A, D, {s}, {}) /\ D.object[s] = z /\ D.level = A.level /\ D.scheduled = A.scheduled
  BY <1>1, <1>2, AnyPut
<1> HIDE DEF D
<1>6. Steady(D, s) /\ D.object[s] # NULL
  BY <1>1, <1>2, <1>5, Kinds DEF Steady
<1>7. Bound(D, W, s)
  <2> SUFFICES ASSUME x.m_group_id # NULL
               PROVE  D.object[x.m_group_id] # NULL /\ (s \in W <=> x.m_group_id \in W)
    BY <1>2, <1>5 DEF Bound
  <2>1. A.object[x.m_group_id] # NULL /\ (s \in W <=> x.m_group_id \in W)
    BY <1>1 DEF Bound
  <2>2. x.m_group_id \in IDs
    BY <1>1, Kinds DEF Objects
  <2> QED
    BY <1>5, <1>6, <2>1, <2>2 DEF Stir, Apart
<1>8. Went(W, A, D, {})
  BY <1>5, <1>6, <1>7, AstrayKept
<1>9. CASE D.object[s].m_group_id # NULL
  <2> DEFINE U == unregister_member(D, s)
  <2>1. Good(D, W)
    BY <1>8 DEF Went
  <2>2. Went(W, D, U, {})
    BY <1>6, <1>9, <2>1, UnregisterAstray
  <2>3. Died(A, s) = U
    BY <1>4, <1>9
  <2> HIDE DEF U
  <2>4. Went(W, A, U, {})
    BY <1>5, <1>8, <2>2, WentTwice
  <2> QED
    BY <2>3, <2>4
<1> QED
  BY <1>4, <1>8, <1>9

\* One who is astray is looked after on the level: he is switched or not, with his members.
LEMMA Synchronizing ==
    ASSUME NEW A, Typed(A), NEW o \in IDs, A.object[o] \in Objects
    PROVE  LET B == synchronize_location(A, o)
           IN  /\ Stir(A, B, {o}, {o}) /\ Alike(B.object[o], A.object[o])
               /\ B.scheduled = A.scheduled
<1> DEFINE x == A.object[o]
           s == Min(Members(A, o))
           v == A.object[s].m_tGraphID
           z == Moved(x, v)
           P == Put(A, o, z)
           C == change(A, o, v)
           B == synchronize_location(A, o)
<1>1. CASE Members(A, o) = {} \/ x.m_tGraphID = v
  <2>1. B = A
    BY <1>1 DEF synchronize_location
  <2> HIDE DEF B
  <2>2. Apart(A, A, {o}) /\ Alike(x, x)
    BY DEF Apart, Alike
  <2>3. Stir(A, B, {o}, {o}) /\ Alike(B.object[o], A.object[o]) /\ B.scheduled = A.scheduled
    BY <2>1, <2>2, OnwardSame, OnwardBeyond DEF Stir
  <2> QED
    BY <2>3 DEF B
<1>2. CASE Members(A, o) # {} /\ x.m_tGraphID # v
  <2>1. v \in Vertices \cup {NULL}
    <3> DEFINE T == Members(A, o)
    <3>1. T \in SUBSET Nat /\ T # {}
      BY <1>2, Kinds, IDsAssumption DEF Members
    <3>2. \A t \in T : t \in IDs /\ A.object[t] # NULL
      BY Kinds DEF Members
    <3> HIDE DEF T
    <3>3. \E t \in T : \A y \in T : t <= y
      BY <3>1, LeastNatural
    <3>4. Min(T) \in T
      BY <3>3 DEF Min
    <3>5. s \in IDs /\ A.object[s] # NULL
      <4>1. Min(T) \in IDs /\ A.object[Min(T)] # NULL
        BY <3>2, <3>4
      <4> QED
        BY <4>1 DEF T
    <3> HIDE DEF s
    <3>6. A.object[s] \in Objects
      BY <3>5, ObjectType
    <3> QED
      BY <3>6 DEF Objects
  <2>2. B = P \/ B = C
    <3>1. P = [A EXCEPT !.object[o].m_tGraphID = v]
      BY DEF Put, Moved, Typed, World
    <3> HIDE DEF P, v
    <3>2. B = IF x.m_bOnline THEN [A EXCEPT !.object[o].m_tGraphID = v] ELSE C
      BY <1>2 DEF synchronize_location, v
    <3> QED
      BY <3>1, <3>2
  <2> HIDE DEF B, v, s
  <2>3. z \in Objects /\ Alike(z, x)
    BY <2>1 DEF Moved, Objects, Alike
  <2> HIDE DEF z
  <2>4. /\ Stir(A, P, {o}, {}) /\ P.object[o] = z
        /\ P.level = A.level /\ P.scheduled = A.scheduled
    BY <2>3, AnyPut
  <2>5. Stir(A, P, {o}, {o})
    BY <2>4 DEF Stir, Beyond
  <2>6. /\ Stir(A, C, {o}, {o}) /\ Alike(C.object[o], A.object[o]) /\ C.scheduled = A.scheduled
    BY <2>1, AnyChange
  <2> HIDE DEF P, C
  <2>7. Stir(A, B, {o}, {o}) /\ Alike(B.object[o], A.object[o]) /\ B.scheduled = A.scheduled
    BY <2>2, <2>3, <2>4, <2>5, <2>6
  <2> QED
    BY <2>7 DEF B
<1> QED
  BY <1>1, <1>2

\* The object itself is like it was, online or offline, its members have been turned with it,
\* and it is scheduled only if it is offline and has been so, or is alive.
SwitchedAny(A, B, o) ==
    /\ Stir(A, B, {o} \cup Members(A, o), {}) /\ B.level = A.level
    /\ B.object[o] \in Objects /\ B.object[o].alive = A.object[o].alive
    /\ B.object[o].m_group_id = A.object[o].m_group_id
    /\ \A m \in Members(A, o) \ {o} : /\ \E b \in BOOLEAN : B.object[m] = Turned(A.object[m], b)
                                      /\ m \in B.scheduled.objects => m \in A.scheduled.objects
    /\ o \in B.scheduled.objects =>
          /\ ~B.object[o].m_bOnline
          /\ A.object[o].alive \/ (o \in A.scheduled.objects /\ ~A.object[o].m_bOnline)

LEMMA SwitchingOn ==
    ASSUME NEW A, Typed(A), NEW o \in IDs, A.object[o] \in Objects
    PROVE  SwitchedAny(A, switch_online(A, o), o)
<1> DEFINE x == A.object[o]
           v == x.m_tGraphID
           S == {o} \cup Members(A, o)
           B == switch_online(A, o)
<1>1. PICK b \in BOOLEAN : b = TRUE
  OBVIOUS
<1> DEFINE H == Switched(A, o, b)
           E == scheduled_remove(H, o)
           F == LeaveOnly(E, o, v)
<1>2. B = F
  BY <1>1 DEF switch_online, LeaveOnly
<1>3. /\ Typed(H) /\ TurnedOver(A, H, o, b)
      /\ H.points = A.points /\ H.level = A.level /\ H.scheduled = A.scheduled
      /\ H.threw = A.threw
  BY Kinds, SwitchedFacts
<1>4. v \in Vertices \cup {NULL}
  BY DEF Objects
<1> HIDE DEF H, v
<1>5. /\ Stir(H, E, {o}, {}) /\ E.object = H.object /\ E.level = H.level
      /\ o \notin E.scheduled.objects
  BY <1>3, AnyScheduledRemove
<1> HIDE DEF E
<1>6. /\ Stir(E, F, {o}, {}) /\ F.object = E.object
      /\ F.scheduled = E.scheduled /\ F.level = E.level
  BY <1>4, <1>5, AnyLeaveOnly DEF Stir
<1> HIDE DEF F, B
<1>7. Stir(H, F, S, {})
  BY <1>5, <1>6, StirTwice
<1>8. Stir(A, H, S, {})
  <2>1. Apart(A, H, S)
    BY <1>3 DEF Apart, TurnedOver
  <2> QED
    BY <1>3, <2>1, OnwardSame, OnwardBeyond DEF Stir
<1>9. Stir(A, F, S, {}) /\ F.level = A.level
  BY <1>3, <1>5, <1>6, <1>7, <1>8, StirTwice
<1>10. F.object[o] = Turned(x, b) /\ \A m \in Members(A, o) : F.object[m] = Turned(A.object[m], b)
  BY <1>3, <1>5, <1>6, Kinds DEF TurnedOver, Members
<1>11. /\ Turned(x, b) \in Objects /\ Turned(x, b).alive = x.alive
       /\ Turned(x, b).m_group_id = x.m_group_id
  BY DEF Turned, Objects
<1>12. o \notin F.scheduled.objects
  BY <1>5, <1>6
<1>13. ASSUME NEW m \in Members(A, o), m # o, m \in F.scheduled.objects
       PROVE  m \in A.scheduled.objects
  <2>1. m \in IDs \ {o}
    BY <1>13, Kinds DEF Members
  <2> QED
    BY <1>3, <1>5, <1>6, <1>13, <2>1 DEF Stir, Apart
<1> QED
  BY <1>2, <1>9, <1>10, <1>11, <1>12, <1>13 DEF SwitchedAny, B

LEMMA SwitchingOff ==
    ASSUME NEW A, Typed(A), NEW o \in IDs, A.object[o] \in Objects, A.object[o].m_bOnline,
           o \notin A.scheduled.objects
    PROVE  SwitchedAny(A, switch_offline(A, o), o)
<1> DEFINE x == A.object[o]
           v == x.m_tGraphID
           S == {o} \cup Members(A, o)
           B == switch_offline(A, o)
<1>1. PICK b \in BOOLEAN : b = FALSE
  OBVIOUS
<1> DEFINE H == Switched(A, o, b)
           E == scheduled_add(H, o)
           F == EnterOnly(E, o, v)
<1>2. B = F
  BY <1>1 DEF switch_offline, EnterOnly
<1>3. /\ Typed(H) /\ TurnedOver(A, H, o, b)
      /\ H.points = A.points /\ H.level = A.level /\ H.scheduled = A.scheduled
      /\ H.threw = A.threw
  BY Kinds, SwitchedFacts
<1>4. v \in Vertices \cup {NULL}
  BY DEF Objects
<1>5. H.object[o] = Turned(x, b) /\ \A m \in Members(A, o) : H.object[m] = Turned(A.object[m], b)
  BY <1>3, Kinds DEF TurnedOver, Members
<1>6. /\ Turned(x, b) \in Objects /\ Turned(x, b).alive = x.alive /\ ~Turned(x, b).m_bOnline
      /\ Turned(x, b).m_group_id = x.m_group_id
  BY <1>1 DEF Turned, Objects
<1> HIDE DEF H, v
<1>7. /\ Stir(H, E, {o}, {}) /\ E.object = H.object /\ E.level = H.level
      /\ o \in E.scheduled.objects <=> o \in H.scheduled.objects \/ need_update(H, o)
  BY <1>3, AnyScheduledAdd
<1> HIDE DEF E
<1>8. /\ Stir(E, F, {o}, {}) /\ Alike(F.object[o], E.object[o])
      /\ F.scheduled = E.scheduled /\ F.level = E.level
  <2>1. Typed(E) /\ E.object[o] \in Objects
    BY <1>5, <1>6, <1>7 DEF Stir
  <2> QED
    BY <1>4, <2>1, AnyEnterOnly
<1> HIDE DEF F, B
<1>9. Stir(H, F, S, {})
  BY <1>7, <1>8, StirTwice
<1>10. Stir(A, H, S, {})
  <2>1. Apart(A, H, S)
    BY <1>3 DEF Apart, TurnedOver
  <2> QED
    BY <1>3, <2>1, OnwardSame, OnwardBeyond DEF Stir
<1>11. Stir(A, F, S, {}) /\ F.level = A.level
  BY <1>3, <1>7, <1>8, <1>9, <1>10, StirTwice
<1>12. ASSUME NEW m \in Members(A, o), m # o
       PROVE  /\ F.object[m] = Turned(A.object[m], b)
              /\ m \in F.scheduled.objects => m \in A.scheduled.objects
  <2>1. m \in IDs \ {o}
    BY <1>12, Kinds DEF Members
  <2> QED
    BY <1>3, <1>5, <1>7, <1>8, <2>1 DEF Stir, Apart
<1>13. /\ F.object[o] \in Objects /\ F.object[o].alive = x.alive /\ ~F.object[o].m_bOnline
       /\ F.object[o].m_group_id = x.m_group_id
  BY <1>5, <1>6, <1>7, <1>8 DEF Alike
<1>14. o \in F.scheduled.objects => x.alive
  BY <1>3, <1>5, <1>6, <1>7, <1>8 DEF need_update
<1> QED
  BY <1>2, <1>11, <1>12, <1>13, <1>14 DEF SwitchedAny, B

\* He is like he was before, whatever became of his place.
Nearly(A, R, o) ==
    /\ Stir(A, R, {o}, {o}) /\ Alike(R.object[o], A.object[o])
    /\ o \in R.scheduled.objects =>
          ~A.object[o].m_bOnline /\ (A.object[o].alive \/ o \in A.scheduled.objects)

Settled(A, B, o) ==
    /\ Stir(A, B, {o} \cup Members(A, o), {o})
    /\ B.object[o] \in Objects /\ B.object[o].alive = A.object[o].alive
    /\ B.object[o].m_group_id = A.object[o].m_group_id
    /\ \A m \in Members(A, o) \ {o} : /\ \E b \in BOOLEAN : B.object[m] = Turned(A.object[m], b)
                                      /\ m \in B.scheduled.objects => m \in A.scheduled.objects
                                      /\ m \in B.level.objects => m \in A.level.objects
    /\ o \in B.scheduled.objects =>
          ~B.object[o].m_bOnline /\ (A.object[o].alive \/ o \in A.scheduled.objects)

LEMMA NearlyMembers ==
    ASSUME NEW A, NEW R, NEW o \in IDs, A.object[o] \in Objects, Nearly(A, R, o)
    PROVE  Members(R, o) = Members(A, o)
<1>1. \A t \in Stalkers \cap {o} : (R.object[t] # NULL /\ R.object[t].m_group_id = o)
                                   <=> (A.object[t] # NULL /\ A.object[t].m_group_id = o)
  BY Kinds DEF Nearly, Alike
<1>2. Apart(A, R, {o})
  BY DEF Nearly, Stir
<1> QED
  BY <1>1, <1>2, MembersApart

LEMMA NearlySettled ==
    ASSUME NEW A, Typed(A), NEW R, NEW o \in IDs, A.object[o] \in Objects, Nearly(A, R, o)
    PROVE  Settled(A, R, o)
<1>1. ASSUME NEW m \in Members(A, o), m # o
      PROVE  /\ \E b \in BOOLEAN : R.object[m] = Turned(A.object[m], b)
             /\ m \in R.scheduled.objects => m \in A.scheduled.objects
             /\ m \in R.level.objects => m \in A.level.objects
  <2>1. m \in IDs \ {o} /\ A.object[m] # NULL
    BY <1>1, Kinds DEF Members
  <2>2. A.object[m] \in Objects
    BY <2>1, ObjectType
  <2> DEFINE b == A.object[m].m_bOnline
  <2>3. b \in BOOLEAN /\ Turned(A.object[m], b) = A.object[m]
    BY <2>2 DEF Turned, Objects
  <2>4. /\ R.object[m] = A.object[m] /\ (m \in R.scheduled.objects <=> m \in A.scheduled.objects)
        /\ m \in R.level.objects <=> m \in A.level.objects
    BY <2>1 DEF Nearly, Stir, Apart
  <2> QED
    BY <2>3, <2>4
<1>2. Stir(A, R, {o} \cup Members(A, o), {o})
  BY DEF Nearly, Stir, Apart
<1> QED
  BY <1>1, <1>2 DEF Nearly, Settled, Alike

LEMMA NearlySwitched ==
    ASSUME NEW A, Typed(A), NEW R, NEW o \in IDs, A.object[o] \in Objects, Nearly(A, R, o),
           NEW B, SwitchedAny(R, B, o)
    PROVE  Settled(A, B, o)
<1> DEFINE M == Members(A, o)
<1>1. Members(R, o) = M
  BY NearlyMembers
<1>2. \A m \in M : m \in IDs
  BY Kinds DEF Members
<1> HIDE DEF M
<1>3. Stir(R, B, {o} \cup M, {}) /\ B.level = R.level
  BY <1>1 DEF SwitchedAny
<1>4. Stir(A, R, {o}, {o})
  BY DEF Nearly
<1>5. Stir(A, B, {o} \cup M, {o})
  <2> DEFINE U == {o} \cup M
             V == {o}
  <2>1. {o} \cup U \subseteq U /\ {o} \cup {} \subseteq V /\ A.level.objects \cap B.level.objects \subseteq R.level.objects \cup V
    BY <1>3
  <2>2. Stir(R, B, U, {})
    BY <1>3
  <2> HIDE DEF U, V
  <2>3. Stir(A, B, U, V)
    BY <1>4, <2>1, <2>2, StirTwice
  <2> QED
    BY <2>3 DEF U, V
<1>6. ASSUME NEW m \in M, m # o
      PROVE  /\ \E b \in BOOLEAN : B.object[m] = Turned(A.object[m], b)
             /\ m \in B.scheduled.objects => m \in A.scheduled.objects
             /\ m \in B.level.objects => m \in A.level.objects
  <2>1. /\ R.object[m] = A.object[m] /\ (m \in R.scheduled.objects <=> m \in A.scheduled.objects)
        /\ m \in R.level.objects <=> m \in A.level.objects
    BY <1>2, <1>4, <1>6 DEF Stir, Apart
  <2> QED
    BY <1>1, <1>6, <2>1 DEF SwitchedAny
<1>7. /\ B.object[o] \in Objects /\ B.object[o].alive = A.object[o].alive
      /\ B.object[o].m_group_id = A.object[o].m_group_id
  BY DEF SwitchedAny, Nearly, Alike
<1>8. o \in B.scheduled.objects =>
          ~B.object[o].m_bOnline /\ (A.object[o].alive \/ o \in A.scheduled.objects)
  BY DEF SwitchedAny, Nearly, Alike
<1> QED
  BY <1>5, <1>6, <1>7, <1>8 DEF Settled, M

LEMMA SettledWent ==
    ASSUME NEW A, NEW W, Good(A, W), NEW o \in W, o \in A.level.objects, NEW B, Settled(A, B, o)
    PROVE  Went(W, A, B, {o})
<1> DEFINE S == {o} \cup Members(A, o)
<1>1. Typed(A) /\ Fair(A, W) /\ Rest(A, W) /\ o \in IDs /\ Steady(A, o)
  BY DEF Good, Fair, Rest
<1>2. A.object[o] # NULL
  BY <1>1 DEF Steady
<1>3. \A m \in Members(A, o) : /\ m \in IDs /\ A.object[m] # NULL /\ A.object[m].m_group_id = o
                               /\ m \in Stalkers /\ o \in Groups /\ m \in W /\ A.object[m] \in Objects
  <2> SUFFICES ASSUME NEW m \in Members(A, o)
               PROVE  /\ m \in IDs /\ A.object[m] # NULL /\ A.object[m].m_group_id = o
                      /\ m \in Stalkers /\ o \in Groups /\ m \in W /\ A.object[m] \in Objects
    OBVIOUS
  <2>1. m \in IDs /\ A.object[m] # NULL /\ A.object[m].m_group_id = o /\ m \in Stalkers /\ o # NULL
    BY <1>1, Kinds DEF Members
  <2>2. o \in Groups /\ m \in W
    BY <1>1, <2>1, Owner
  <2> QED
    BY <1>1, <2>1, <2>2, ObjectType
<1>4. S \subseteq W /\ Stir(A, B, S, {o})
  BY <1>3 DEF Settled
<1>5. /\ B.object[o] # NULL /\ B.object[o].alive = A.object[o].alive
      /\ B.object[o].m_group_id = A.object[o].m_group_id
      /\ o \in B.scheduled.objects =>
            ~B.object[o].m_bOnline /\ (A.object[o].alive \/ o \in A.scheduled.objects)
  BY Kinds DEF Settled
<1>6. Steady(B, o)
  BY <1>1, <1>2, <1>5 DEF Steady
<1>7. Bound(B, W, o)
  <2> SUFFICES ASSUME A.object[o].m_group_id # NULL
               PROVE  /\ B.object[A.object[o].m_group_id] # NULL
                      /\ o \in W <=> A.object[o].m_group_id \in W
    BY <1>5 DEF Bound
  <2>1. /\ o \in Stalkers /\ A.object[o].m_group_id \in Groups
        /\ A.object[A.object[o].m_group_id] # NULL
        /\ o \in W <=> A.object[o].m_group_id \in W
    BY <1>1, <1>2, Owner
  <2>2. A.object[o].m_group_id \in IDs \ S
    BY <1>3, <2>1, Kinds
  <2> HIDE DEF S
  <2> QED
    BY <1>4, <2>1, <2>2 DEF Stir, Apart
<1>8. ASSUME NEW m \in Members(A, o)
      PROVE  Steady(B, m) /\ Bound(B, W, m) /\ B.object[m] # NULL
  <2>1. /\ m \in IDs /\ A.object[m] # NULL /\ A.object[m].m_group_id = o
        /\ m \in Stalkers /\ o \in Groups /\ m \in W /\ A.object[m] \in Objects
    BY <1>3
  <2>2. m # o /\ o # NULL
    BY <2>1, Kinds
  <2>3. /\ \E b \in BOOLEAN : B.object[m] = Turned(A.object[m], b)
        /\ m \in B.scheduled.objects => m \in A.scheduled.objects
        /\ m \in B.level.objects => m \in A.level.objects
    BY <2>2 DEF Settled
  <2>4. PICK b \in BOOLEAN : B.object[m] = Turned(A.object[m], b)
    BY <2>3
  <2>5. B.object[m] # NULL /\ B.object[m].m_group_id = o /\ B.object[m].alive = A.object[m].alive
    BY <2>1, <2>4, Kinds DEF Turned, Objects
  <2>6. Steady(A, m)
    BY <1>1, <2>1 DEF Rest
  <2>7. m \notin B.scheduled.objects
    BY <2>1, <2>2, <2>3, <2>6 DEF Steady
  <2>8. m \in B.level.objects => ~A.object[m].alive
    BY <2>1, <2>2, <2>3, <2>6 DEF Steady
  <2> QED
    BY <1>5, <2>1, <2>2, <2>5, <2>7, <2>8, Kinds DEF Steady, Bound
<1>9. \A p \in S : Steady(B, p) /\ Bound(B, W, p)
  BY <1>6, <1>7, <1>8
<1>10. \A p \in S : B.object[p] = NULL => Members(A, p) = {}
  BY <1>5, <1>8
<1> HIDE DEF S
<1> QED
  BY <1>4, <1>9, <1>10, AstrayKept

LEMMA SwitchAstray ==
    ASSUME NEW A, NEW W, Good(A, W), NEW o \in W, o \in A.level.objects, NEW count, NEW place
    PROVE  Went(W, A, switch_object(A, o, count, place), {o})
<1> DEFINE x == A.object[o]
           Y == synchronize_location(A, o)
           R == Rescheduled(Y, o)
           B == switch_object(A, o, count, place)
<1>1. Typed(A) /\ o \in IDs /\ Steady(A, o)
  BY DEF Good, Fair, Rest
<1>2. x # NULL /\ x \in Objects
  BY <1>1, ObjectType DEF Steady
<1>3. o \in A.scheduled.objects => ~x.m_bOnline
  BY <1>1, <1>2 DEF Steady
<1>4. B = IF x.m_bOnline THEN try_switch_offline(Y, o, place) ELSE try_switch_online(Y, o, count, place)
  BY DEF switch_object
<1>5. Stir(A, Y, {o}, {o}) /\ Alike(Y.object[o], x) /\ Y.scheduled = A.scheduled
  BY <1>1, <1>2, Synchronizing
<1> HIDE DEF Y, B
<1>6. Nearly(A, Y, o) /\ Typed(Y) /\ Y.object[o] \in Objects /\ Y.object[o].m_bOnline = x.m_bOnline
  BY <1>3, <1>5 DEF Nearly, Alike, Stir
<1>7. CASE x.m_bOnline
  <2>1. B = Y \/ B = switch_offline(Y, o)
    BY <1>4, <1>7 DEF try_switch_offline
  <2>2. CASE B = Y
    <3>1. Settled(A, B, o)
      BY <1>1, <1>2, <1>6, <2>2, NearlySettled
    <3> QED
      BY <3>1, SettledWent DEF B
  <2>3. CASE B = switch_offline(Y, o)
    <3>1. SwitchedAny(Y, B, o)
      BY <1>1, <1>3, <1>5, <1>6, <1>7, <2>3, SwitchingOff
    <3>2. Settled(A, B, o)
      BY <1>1, <1>2, <1>6, <3>1, NearlySwitched
    <3> QED
      BY <3>2, SettledWent DEF B
  <2> QED
    BY <2>1, <2>2, <2>3
<1>8. CASE ~x.m_bOnline
  <2>1. B = Y \/ B = R \/ B = switch_online(R, o)
    BY <1>4, <1>8 DEF try_switch_online
  <2>2. R = Y \/ (need_update(Y, o) /\ R = scheduled_add(Y, o)) \/ R = scheduled_remove(Y, o)
    BY DEF Rescheduled
  <2> HIDE DEF R
  <2>3. /\ Stir(Y, R, {o}, {}) /\ R.object = Y.object /\ R.level = Y.level
        /\ o \in R.scheduled.objects => o \in Y.scheduled.objects \/ need_update(Y, o)
    <3>1. CASE R = Y
      <4>1. Stir(Y, Y, {o}, {})
        BY <1>6, OnwardSame, OnwardBeyond DEF Stir, Apart
      <4> QED
        BY <3>1, <4>1
    <3>2. CASE R = scheduled_add(Y, o)
      <4>1. LET C == scheduled_add(Y, o)
            IN  /\ Stir(Y, C, {o}, {}) /\ C.object = Y.object /\ C.level = Y.level
                /\ o \in C.scheduled.objects <=> o \in Y.scheduled.objects \/ need_update(Y, o)
        BY <1>1, <1>6, AnyScheduledAdd
      <4> QED
        BY <3>2, <4>1
    <3>3. CASE R = scheduled_remove(Y, o)
      <4>1. LET C == scheduled_remove(Y, o)
            IN  /\ Stir(Y, C, {o}, {}) /\ C.object = Y.object /\ C.level = Y.level
                /\ o \notin C.scheduled.objects
        BY <1>1, <1>6, AnyScheduledRemove
      <4> QED
        BY <3>3, <4>1
    <3> QED
      BY <2>2, <3>1, <3>2, <3>3
  <2>4. Stir(A, R, {o}, {o})
    BY <1>5, <2>3, StirTwice
  <2>5. Nearly(A, R, o) /\ Typed(R) /\ R.object[o] \in Objects
    BY <1>3, <1>5, <1>6, <1>8, <2>3, <2>4 DEF Nearly, Alike, Stir, need_update
  <2>6. CASE B = Y
    <3>1. Settled(A, B, o)
      BY <1>1, <1>2, <1>6, <2>6, NearlySettled
    <3> QED
      BY <3>1, SettledWent DEF B
  <2>7. CASE B = R
    <3>1. Settled(A, B, o)
      BY <1>1, <1>2, <2>5, <2>7, NearlySettled
    <3> QED
      BY <3>1, SettledWent DEF B
  <2>8. CASE B = switch_online(R, o)
    <3>1. SwitchedAny(R, B, o)
      BY <1>1, <2>5, <2>8, SwitchingOn
    <3>2. Settled(A, B, o)
      BY <1>1, <1>2, <2>5, <3>1, NearlySwitched
    <3> QED
      BY <3>2, SettledWent DEF B
  <2> QED
    BY <2>1, <2>6, <2>7, <2>8
<1> QED
  BY <1>7, <1>8

\* More are astray, with all their company; or one less, who is not there any more.
LEMMA Widen ==
    ASSUME NEW A, NEW W, Good(A, W), NEW V, W \subseteq V, V \subseteq IDs,
           \A o \in IDs : A.object[o] # NULL /\ A.object[o].m_group_id # NULL
                            => (o \in V <=> A.object[o].m_group_id \in V)
    PROVE  Good(A, V)
<1>1. Fair(A, W) /\ Rest(A, W)
  BY DEF Good
<1>2. ASSUME NEW o \in V PROVE Steady(A, o)
  <2>1. CASE o \in W
    BY <1>1, <2>1 DEF Rest
  <2>2. CASE o \notin W
    <3>1. o \in IDs /\ Sound(A, o) /\ Placed(A, o)
      BY <1>1, <2>2 DEF Fair
    <3>2. A.object[o] = NULL => o \notin A.level.objects \cup A.scheduled.objects
      BY <3>1, Kinds DEF Placed, Loose
    <3>3. A.object[o] # NULL /\ o \in A.scheduled.objects =>
             ~A.object[o].m_bOnline /\ A.object[o].m_group_id = NULL
      BY <3>1, Kinds DEF Placed, Loose, Sound
    <3>4. A.object[o] # NULL /\ o \in A.level.objects => A.object[o].m_group_id = NULL
      BY <3>1 DEF Placed, Loose
    <3> QED
      BY <3>1, <3>2, <3>3, <3>4 DEF Steady, Sound
  <2> QED
    BY <2>1, <2>2
<1>3. \A o \in IDs : Bound(A, V, o)
  BY <1>1 DEF Rest, Bound
<1> QED
  BY <1>1, <1>2, <1>3 DEF Good, Fair, Rest

LEMMA Narrow ==
    ASSUME NEW A, NEW W, Good(A, W), NEW o \in W, A.object[o] = NULL, ~Somewhere(A, o)
    PROVE  Good(A, W \ {o})
<1> DEFINE V == W \ {o}
<1>1. Fair(A, W) /\ Rest(A, W) /\ o \in IDs
  BY DEF Good, Rest
<1>2. Sound(A, o) /\ Placed(A, o)
  BY Kinds DEF Sound, Placed, Loose, Somewhere, Vertices
<1>3. \A p \in IDs : Bound(A, V, p)
  <2> SUFFICES ASSUME NEW p \in IDs, A.object[p] # NULL, A.object[p].m_group_id # NULL
               PROVE  /\ A.object[A.object[p].m_group_id] # NULL
                      /\ p \in V <=> A.object[p].m_group_id \in V
    BY DEF Bound
  <2>1. /\ A.object[A.object[p].m_group_id] # NULL
        /\ p \in W <=> A.object[p].m_group_id \in W
    BY <1>1, Owner
  <2> QED
    BY <2>1
<1>4. \A g \in Groups \ V : \A s \in Members(A, g) : Together(A, s, g)
  <2> SUFFICES ASSUME NEW g \in Groups \ V, NEW s \in Members(A, g) PROVE Together(A, s, g)
    OBVIOUS
  <2>1. CASE g = o
    <3>1. Members(A, g) = {}
      BY <2>1, NoMembers
    <3> QED
      BY <3>1
  <2>2. CASE g # o
    BY <2>2 DEF Good
  <2> QED
    BY <2>1, <2>2
<1> QED
  BY <1>1, <1>2, <1>3, <1>4 DEF Good, Fair, Rest

(* The invariant.                                                          *)

\* It has thrown over nobody but the astray and groups that are no more.
ThrewOnlyGroups(A, W) == \A o \in A.threw \ W : o \in Groups /\ A.object[o] = NULL

Limit(u) == IF u.pc = "switch" THEN m_online_limit_per_update ELSE m_objects_per_update

\* The invariant in the words of the lemmas.
Inv == /\ Good(alife, astray) /\ ThrewOnlyGroups(alife, astray)
       /\ update \in Updates /\ update.count <= Limit(update) /\ stayed \subseteq IDs /\ Round

LEMMA InvIsIInv == Inv <=> IInv
<1>1. ASSUME Inv PROVE IInv
  <2>1. /\ Typed(alife) /\ \A o \in IDs \ astray : Sound(alife, o) /\ Placed(alife, o)
        /\ astray \subseteq IDs /\ \A o \in astray : Steady(alife, o)
        /\ \A o \in IDs : Bound(alife, astray, o)
    BY <1>1 DEF Inv, Good, Fair, Rest
  <2>2. /\ alife.object \in [IDs -> Objects \cup {NULL}] /\ alife.points \in [Vertices -> SUBSET IDs]
        /\ alife.level \in Registries /\ alife.scheduled \in Registries /\ alife.threw \subseteq IDs
        /\ Valid(alife.level) /\ Valid(alife.scheduled) /\ alife \in World
    BY <2>1 DEF Typed, World
  <2>3. /\ update.pc \in {"idle", "switch", "scheduled"}
        /\ update.marked \subseteq IDs /\ update.freed \subseteq IDs
    BY <1>1 DEF Inv, Updates
  <2>4. update.count \in 0 .. Limit(update)
    <3>1. update.count \in Nat /\ Limit(update) \in Nat /\ update.count <= Limit(update)
      BY <1>1, ALifeAssumption DEF Inv, Updates, Limit
    <3> QED
      BY <3>1
  <2>5. TypeOK
    BY <1>1, <2>1, <2>2, <2>3, <2>4 DEF TypeOK, Inv, Limit
  <2> QED
    BY <1>1, <2>1, <2>2, <2>5
       DEF Inv, IInv, Good, InItsPlace, MembersTogether, OnlyEmptyGroupThrows, ThrewOnlyGroups, Registered
<1>2. ASSUME IInv PROVE Inv
  <2>1. Good(alife, astray)
    BY <1>2 DEF IInv, TypeOK, InItsPlace, MembersTogether, Good, Fair, Rest, Typed
  <2>2. update.count <= Limit(update)
    <3>1. update.count \in 0 .. Limit(update)
      BY <1>2 DEF IInv, TypeOK, Limit
    <3>2. Limit(update) \in Nat
      BY ALifeAssumption DEF Limit
    <3> QED
      BY <3>1, <3>2
  <2> QED
    BY <1>2, <2>1, <2>2 DEF Inv, IInv, TypeOK, OnlyEmptyGroupThrows, ThrewOnlyGroups, Registered
<1> QED
  BY <1>1, <1>2

\* What only the iterators and the exceptions tell apart is good, or not, together.
LEMMA SameGood ==
    ASSUME NEW A, NEW W, Good(A, W), NEW B, Typed(B), B.object = A.object, B.points = A.points,
           B.level.objects = A.level.objects, B.scheduled.objects = A.scheduled.objects
    PROVE  Good(B, W)
<1>1. \A g : Members(B, g) = Members(A, g)
  BY DEF Members
<1>2. \A p \in IDs \ W : Sound(B, p) /\ (Loose(B, p) <=> Loose(A, p))
  BY <1>1 DEF Good, Fair, Sound, Loose
<1>3. \A p \in IDs \ W : Placed(B, p)
  BY <1>2 DEF Good, Fair, Placed
<1>4. \A g \in Groups \ W : \A t \in Members(B, g) : Together(B, t, g)
  BY <1>1 DEF Good, Together
<1>5. \A p \in W : Steady(B, p)
  BY DEF Good, Rest, Steady
<1>6. \A p \in IDs : Bound(B, W, p)
  BY DEF Good, Rest, Bound
<1>7. W \subseteq IDs
  BY DEF Good, Rest
<1> QED
  BY <1>2, <1>3, <1>4, <1>5, <1>6, <1>7 DEF Good, Fair, Rest

LEMMA NowFacts ==
    ASSUME Inv
    PROVE  /\ Good(Now, astray) /\ Typed(Now) /\ Now.threw = {} /\ Now.object = alife.object
           /\ Now.level = alife.level /\ Now.scheduled = alife.scheduled
<1>1. Good(alife, astray) /\ Typed(alife) /\ alife \in World
  BY DEF Inv, Good, Fair, Typed
<1>2. /\ Typed(Now) /\ Now.object = alife.object /\ Now.points = alife.points
      /\ Now.level = alife.level /\ Now.scheduled = alife.scheduled /\ Now.threw = {}
  BY <1>1 DEF Now, Typed, World
<1> QED
  BY <1>1, <1>2, SameGood

LEMMA InvInit == Init => Inv
<1> SUFFICES ASSUME Init PROVE Inv
  OBVIOUS
<1>1. Empty \in Registries /\ Valid(Empty) /\ Empty.objects = {}
  BY DEF Empty, Registries, Valid
<1>2. /\ alife.object = [o \in IDs |-> NULL] /\ alife.points = [v \in Vertices |-> {}]
      /\ alife.level = Empty /\ alife.scheduled = Empty /\ alife.threw = {}
  BY DEF Init
<1>3. Typed(alife)
  BY <1>1 DEF Init, Typed, World
<1>4. \A o \in IDs : alife.object[o] = NULL /\ ~Loose(alife, o)
  BY <1>2 DEF Loose
<1>5. \A o \in IDs : Sound(alife, o) /\ Placed(alife, o)
  BY <1>1, <1>2, <1>4 DEF Sound, Placed
<1>6. \A g : Members(alife, g) = {}
  BY <1>4, Kinds DEF Members
<1>10. astray = {} /\ \A o \in IDs : Bound(alife, astray, o)
  BY <1>4 DEF Init, Bound
<1>11. Rest(alife, astray)
  BY <1>10 DEF Rest
<1>7. Good(alife, astray) /\ ThrewOnlyGroups(alife, astray)
  BY <1>2, <1>3, <1>5, <1>6, <1>10, <1>11 DEF Good, Fair, ThrewOnlyGroups
<1>8. update \in Updates /\ update.count = 0 /\ update.pc = "idle" /\ Limit(update) \in Nat
  BY ALifeAssumption DEF Init, Updates, Limit
<1>9. stayed = {}
  BY DEF Init
<1> QED
  BY <1>7, <1>8, <1>9 DEF Inv, Round

\* One step of the world, among the astray or not.
Acts(W, A, B, T) ==
    /\ Good(B, W) /\ Beyond(A.level, B.level, T)
    /\ \A o \in B.threw \ W : o \in A.threw \/ (o \in Groups /\ B.object[o] = NULL)

LEMMA EvolvedActs ==
    ASSUME NEW W, NEW A, NEW B, NEW T, Evolved(W, A, B)
    PROVE  Acts(W, A, B, T)
  BY OnwardBeyond DEF Evolved, Acts

LEMMA WentActs ==
    ASSUME NEW W, NEW A, NEW B, NEW T, Went(W, A, B, T)
    PROVE  Acts(W, A, B, T)
  BY DEF Went, Acts

\* Requests of scripts: the world has moved, the update has not.
LEMMA Request ==
    ASSUME Inv, NEW B, NEW T, Acts(astray', Now, B, T), alife' = B,
           stayed' \subseteq (stayed \cap B.level.objects) \ T,
           update' \in Updates, update'.pc = update.pc, update'.marked = update.marked,
           update'.count = update.count
    PROVE  Inv'
<1>2. Good(B, astray') /\ Beyond(alife.level, B.level, T) /\ ThrewOnlyGroups(B, astray')
  BY NowFacts DEF Acts, ThrewOnlyGroups
<1>3. Round'
  <2> SUFFICES ASSUME update.pc = "switch", NEW y \in stayed', y \notin update.marked, NEW m \in update.marked,
                      InArc(B.level.next, m, y)
               PROVE  FALSE
    BY DEF Round
  <2>1. /\ y \in stayed /\ y \in alife.level.objects /\ y \in B.level.objects /\ m \in IDs
        /\ y \notin T
    BY DEF Inv, Round, Updates
  <2>2. InArc(alife.level.next, m, y)
    BY <1>2, <2>1 DEF Beyond
  <2> QED
    BY <2>1, <2>2 DEF Inv, Round
<1>4. Limit(update') = Limit(update)
  BY DEF Limit
<1>5. update'.count <= Limit(update') /\ stayed' \subseteq IDs
  BY <1>4 DEF Inv
<1> QED
  BY <1>2, <1>3, <1>5 DEF Inv

LEMMA CountIn == Inv => update.count \in Nat /\ update.marked \subseteq IDs /\ update.freed \subseteq IDs
  BY DEF Inv, Updates

Marked(u, m, n) == [u EXCEPT !.marked = m, !.count = n]

LEMMA MarkedFacts ==
    ASSUME NEW u \in Updates, NEW m \in SUBSET IDs, NEW n \in Nat
    PROVE  LET w == Marked(u, m, n)
           IN  w \in Updates /\ w.pc = u.pc /\ w.marked = m /\ w.count = n
  BY DEF Updates, Marked

LEMMA BeginSwitch == Inv /\ update_switch => Inv'
<1> SUFFICES ASSUME Inv, update_switch PROVE Inv'
  OBVIOUS
<1>1. /\ update' = [pc |-> "switch", marked |-> {}, count |-> 0, freed |-> {}]
      /\ alife' = Now /\ stayed' = alife.level.objects /\ astray' = astray
  BY DEF update_switch
<1>2. Good(Now, astray) /\ ThrewOnlyGroups(Now, astray) /\ Now.level = alife.level /\ Typed(Now)
  BY NowFacts DEF ThrewOnlyGroups
<1>3. update' \in Updates /\ update'.count = 0 /\ update'.marked = {} /\ Limit(update') \in Nat
  BY <1>1, ALifeAssumption DEF Updates, Limit
<1>4. stayed' \subseteq IDs
  BY <1>1, <1>2 DEF Typed, World, Registries
<1>5. Round'
  BY <1>1, <1>2, <1>3 DEF Round
<1> QED
  BY <1>1, <1>2, <1>3, <1>4, <1>5 DEF Inv

LEMMA BeginScheduled == Inv /\ update_scheduled => Inv'
<1> SUFFICES ASSUME Inv, update_scheduled PROVE Inv'
  OBVIOUS
<1>1. /\ update' = [update EXCEPT !.pc = "scheduled", !.marked = {}, !.count = 0]
      /\ alife' = Now /\ stayed' = {} /\ astray' = astray
  BY DEF update_scheduled
<1>2. Good(Now, astray) /\ ThrewOnlyGroups(Now, astray)
  BY NowFacts DEF ThrewOnlyGroups
<1>3. /\ update' \in Updates /\ update'.count = 0 /\ update'.pc = "scheduled"
      /\ Limit(update') \in Nat
  BY <1>1, ALifeAssumption DEF Inv, Updates, Limit
<1>4. Round'
  BY <1>3 DEF Round
<1> QED
  BY <1>1, <1>2, <1>3, <1>4 DEF Inv

LEMMA EndsScheduled == Inv /\ EndScheduled => Inv'
<1> SUFFICES ASSUME Inv, EndScheduled PROVE Inv'
  OBVIOUS
<1>1. /\ update' = [pc |-> "idle", marked |-> {}, count |-> 0, freed |-> {}]
      /\ alife' = Now /\ stayed' = stayed /\ astray' = astray
  BY DEF EndScheduled
<1>2. Good(Now, astray) /\ ThrewOnlyGroups(Now, astray)
  BY NowFacts DEF ThrewOnlyGroups
<1>3. /\ update' \in Updates /\ update'.count = 0 /\ update'.pc = "idle"
      /\ Limit(update') \in Nat
  BY <1>1, ALifeAssumption DEF Updates, Limit
<1>4. Round'
  BY <1>3 DEF Round
<1> QED
  BY <1>1, <1>2, <1>3, <1>4 DEF Inv

\* The loop over the schedule: the iterator goes on, and a stalker may.
LEMMA UpdatesNext == Inv /\ UpdateNext => Inv'
<1> SUFFICES ASSUME Inv, UpdateNext PROVE Inv'
  OBVIOUS
<1> DEFINE o == alife.scheduled.next
           A == [Now EXCEPT !.scheduled = update_next(@)]
<1>1. /\ Good(Now, astray) /\ Typed(Now) /\ Now.threw = {} /\ Now.object = alife.object
      /\ Now.level = alife.level /\ Now.scheduled = alife.scheduled
  BY NowFacts
<1>2. /\ update.pc = "scheduled" /\ alife.scheduled.objects # {}
      /\ update.count < m_objects_per_update
      /\ update' = [update EXCEPT !.marked = @ \cup {o}, !.count = @ + 1]
  BY DEF UpdateNext
<1>3. alife.scheduled \in Registries /\ Valid(alife.scheduled)
  BY <1>1 DEF Typed, World
<1>4. o \in alife.scheduled.objects /\ o \in IDs
  BY <1>2, <1>3 DEF Valid, Registries
<1>5. /\ update_next(alife.scheduled) \in Registries /\ Valid(update_next(alife.scheduled))
      /\ update_next(alife.scheduled).objects = alife.scheduled.objects
  BY <1>2, <1>3, NextFacts
<1>6. /\ Typed(A) /\ A.object = Now.object /\ A.points = Now.points /\ A.level = Now.level
      /\ A.scheduled.objects = Now.scheduled.objects /\ A.threw = {}
  BY <1>1, <1>5 DEF Typed, World
<1>7. Good(A, astray)
  BY <1>1, <1>6, SameGood
<1>8. \E B : Good(B, astray) /\ B.threw \subseteq astray /\ Became(B)
  <2>1. CASE Became(A)
    BY <1>6, <1>7, <2>1
  <2>2. ASSUME NEW v \in Vertices, o \in Stalkers, Became(change(A, o, v))
        PROVE  \E B : Good(B, astray) /\ B.threw \subseteq astray /\ Became(B)
    <3> DEFINE C == change(A, o, v)
    <3>1. o \in A.scheduled.objects
      BY <1>1, <1>4, <1>6
    <3>2. CASE o \notin astray
      <4>1. Good(C, astray) /\ C.threw = A.threw
        BY <1>7, <2>2, <3>1, <3>2, ChangeGood
      <4> HIDE DEF C
      <4>2. Good(C, astray) /\ C.threw \subseteq astray
        BY <1>6, <4>1
      <4> QED
        BY <2>2, <4>2 DEF C
    <3>3. CASE o \in astray
      <4>1. Went(astray, A, C, {o})
        BY <1>7, <2>2, <3>1, <3>3, ChangeAstray
      <4> HIDE DEF C
      <4>2. Good(C, astray) /\ C.threw \subseteq astray
        BY <1>6, <4>1 DEF Went
      <4> QED
        BY <2>2, <4>2 DEF C
    <3> QED
      BY <3>2, <3>3
  <2>3. Became(A) \/ \E v \in Vertices : o \in Stalkers /\ Became(change(A, o, v))
    BY DEF UpdateNext
  <2> QED
    BY <2>1, <2>2, <2>3
<1>9. PICK B : Good(B, astray) /\ B.threw \subseteq astray /\ Became(B)
  BY <1>8
<1>14. astray' = astray
  BY DEF UpdateNext
<1>10. Good(alife', astray') /\ ThrewOnlyGroups(alife', astray') /\ stayed' \subseteq IDs
  BY <1>9, <1>14 DEF Became, ThrewOnlyGroups, Inv
<1>11. update' \in Updates /\ update'.pc = "scheduled" /\ update'.count = update.count + 1
  <2> DEFINE m == update.marked \cup {o}
             n == update.count + 1
  <2>1. m \in SUBSET IDs /\ n \in Nat /\ update \in Updates
    BY <1>4, CountIn DEF Inv
  <2>2. update' = Marked(update, m, n)
    BY <1>2 DEF Marked
  <2> HIDE DEF m, n
  <2>3. update' \in Updates /\ update'.pc = update.pc /\ update'.count = n
    BY <2>1, <2>2, MarkedFacts
  <2> QED
    BY <1>2, <2>3 DEF n
<1>12. update'.count <= Limit(update')
  BY <1>2, <1>11, CountIn, ALifeAssumption DEF Limit
<1>13. Round'
  BY <1>11 DEF Round
<1> QED
  BY <1>10, <1>11, <1>12, <1>13 DEF Inv

\* Nobody gets online when the limit of the update is reached.
LEMMA NobodyElse ==
    ASSUME NEW A, Typed(A), NEW o \in IDs, A.object[o] \in Objects, NEW place, NEW count \in Nat,
           ~A.object[o].m_bOnline, switch_object(A, o, count, place).object[o].m_bOnline
    PROVE  count < m_online_limit_per_update
<1> SUFFICES ASSUME ~(count < m_online_limit_per_update) PROVE FALSE
  OBVIOUS
<1>1. count >= m_online_limit_per_update
  BY ALifeAssumption
<1> DEFINE B == synchronize_location(A, o)
<1>2. switch_object(A, o, count, place) = B
  BY <1>1, SMTT(30) DEF switch_object, try_switch_online
<1>3. Alike(B.object[o], A.object[o])
  BY Synchronizing
<1> HIDE DEF B
<1> QED
  BY <1>2, <1>3 DEF Alike

\* The loop over the level: the iterator goes on past the one who is handled.
LEMMA SwitchesNext == Inv /\ SwitchNext => Inv'
<1> SUFFICES ASSUME Inv, SwitchNext PROVE Inv'
  OBVIOUS
<1> DEFINE o == alife.level.next
           A == [Now EXCEPT !.level = update_next(@)]
<1>1. /\ Good(Now, astray) /\ Typed(Now) /\ Now.threw = {} /\ Now.object = alife.object
      /\ Now.level = alife.level /\ Now.scheduled = alife.scheduled
  BY NowFacts
<1>2. update.pc = "switch" /\ alife.level.objects # {} /\ o \notin update.marked
  BY ZenonT(30) DEF SwitchNext
<1>3. alife.level \in Registries /\ Valid(alife.level)
  BY <1>1 DEF Typed, World
<1>4. o \in alife.level.objects /\ o \in IDs
  BY <1>2, <1>3 DEF Valid, Registries
<1> DEFINE R == update_next(alife.level)
<1>5. /\ R \in Registries /\ Valid(R) /\ R.objects = alife.level.objects
      /\ \A y \in alife.level.objects \ {o} :
             /\ \A m \in IDs : InArc(R.next, m, y) => InArc(o, m, y)
             /\ ~InArc(R.next, o, y)
  BY <1>2, <1>3, NextFacts
<1> HIDE DEF R
<1>6. /\ Typed(A) /\ A.object = Now.object /\ A.points = Now.points /\ A.level = R
      /\ A.scheduled = Now.scheduled /\ A.threw = {}
  BY <1>1, <1>5 DEF Typed, World, R
<1>7. Good(A, astray) /\ o \in A.level.objects
  BY <1>1, <1>4, <1>5, <1>6, SameGood, ZenonT(30)
<1> HIDE DEF A
<1>8. ASSUME NEW B, Good(B, astray), ThrewOnlyGroups(B, astray), Beyond(A.level, B.level, {o}), Became(B),
             update' \in Updates, update'.pc = "switch", update'.marked = update.marked \cup {o},
             update'.count <= m_online_limit_per_update
      PROVE  Inv'
  <2>1. alife' = B /\ stayed' = stayed \cap B.level.objects /\ astray' = astray
    BY <1>8, ZenonT(30) DEF Became, SwitchNext
  <2>2. Round'
    <3> SUFFICES ASSUME NEW y \in stayed', y \notin update.marked \cup {o},
                        NEW m \in update.marked \cup {o}, InArc(B.level.next, m, y)
                 PROVE  FALSE
      BY <1>8, <2>1 DEF Round
    <3>1. y \in stayed /\ y \in alife.level.objects /\ y \in B.level.objects /\ m \in IDs /\ y # o
      BY <1>2, <1>4, <2>1, CountIn DEF Inv, Round
    <3>2. InArc(R.next, m, y)
      BY <1>5, <1>6, <1>8, <3>1 DEF Beyond
    <3>3. InArc(o, m, y) /\ ~InArc(R.next, o, y)
      BY <1>5, <3>1, <3>2
    <3>4. m # o
      BY <3>2, <3>3
    <3> QED
      BY <1>2, <3>1, <3>3, <3>4 DEF Inv, Round
  <2>3. update'.count <= Limit(update') /\ stayed' \subseteq IDs
    BY <1>8, <2>1 DEF Limit, Inv
  <2> QED
    BY <1>8, <2>1, <2>2, <2>3 DEF Inv
<1>9. update.count \in Nat /\ update.count <= m_online_limit_per_update
  BY <1>2, CountIn DEF Inv, Limit
<1>10. m_online_limit_per_update \in Nat
  BY ALifeAssumption
<1>11. ASSUME NEW place \in Places(A, o),
              LET B == switch_object(A, o, update.count, place)
                  came == ~A.object[o].m_bOnline /\ B.object[o].m_bOnline
              IN  /\ Became(B)
                  /\ update' = [update EXCEPT !.marked = @ \cup {o}, !.count = IF came THEN @ + 1 ELSE @]
       PROVE  Inv'
  <2> DEFINE B == switch_object(A, o, update.count, place)
             came == ~A.object[o].m_bOnline /\ B.object[o].m_bOnline
  <2>1. Good(B, astray) /\ ThrewOnlyGroups(B, astray) /\ Beyond(A.level, B.level, {o})
    <3>1. CASE o \notin astray
      <4>1. Good(B, astray) /\ B.level = A.level /\ B.threw = A.threw
        BY <1>7, <3>1, SwitchObject
      <4> HIDE DEF B
      <4> QED
        BY <1>6, <4>1 DEF ThrewOnlyGroups, Beyond
    <3>2. CASE o \in astray
      <4>1. Went(astray, A, B, {o})
        BY <1>7, <3>2, SwitchAstray
      <4> HIDE DEF B
      <4> QED
        BY <1>6, <4>1 DEF Went, ThrewOnlyGroups
    <3> QED
      BY <3>1, <3>2
  <2>2. Became(B) /\ update' = [update EXCEPT !.marked = @ \cup {o}, !.count = IF came THEN @ + 1 ELSE @]
    BY <1>11
  <2>3. came => update.count < m_online_limit_per_update
    <3>1. A.object[o] # NULL
      BY <1>7, <1>4 DEF Good, Fair, Rest, Placed, Loose, Steady
    <3>2. A.object[o] \in Objects
      BY <1>4, <1>6, <3>1, ObjectType
    <3> QED
      BY <1>4, <1>6, <1>9, <3>2, NobodyElse
  <2> HIDE DEF B, came
  <2>4. /\ update' \in Updates /\ update'.pc = "switch" /\ update'.marked = update.marked \cup {o}
        /\ update'.count = IF came THEN update.count + 1 ELSE update.count
    <3> DEFINE m == update.marked \cup {o}
               n == IF came THEN update.count + 1 ELSE update.count
    <3>1. m \in SUBSET IDs /\ n \in Nat /\ update \in Updates
      BY <1>4, CountIn DEF Inv
    <3>2. update' = Marked(update, m, n)
      BY <2>2 DEF Marked
    <3> HIDE DEF m, n
    <3>3. update' \in Updates /\ update'.pc = update.pc /\ update'.marked = m /\ update'.count = n
      BY <3>1, <3>2, MarkedFacts
    <3> QED
      BY <1>2, <3>3 DEF m, n
  <2>5. update'.count <= m_online_limit_per_update
    BY <1>9, <1>10, <2>3, <2>4
  <2> QED
    BY <1>8, <2>1, <2>2, <2>4, <2>5
<1>12. ASSUME redundant(A, o), Became(release(A, o)),
              update' = [update EXCEPT !.marked = @ \cup {o}, !.freed = @ \cup {o}]
       PROVE  Inv'
  <2>1. A.object[o] # NULL /\ Members(A, o) = {}
    <3>1. A.object[o] # NULL
      BY <1>7, <1>4 DEF Good, Fair, Rest, Placed, Loose, Steady
    <3>2. CASE o \in Groups
      BY <1>12, <3>1, <3>2 DEF redundant
    <3>3. CASE o \in Stalkers
      <4>1. \A s \in Stalkers : A.object[s] # NULL => A.object[s].m_group_id # o
        BY <1>6, <3>3, ObjectType, Kinds DEF Objects
      <4> QED
        BY <3>1, <4>1 DEF Members
    <3> QED
      BY <1>4, <3>2, <3>3, Kinds
  <2> DEFINE B == release(A, o)
  <2>2. Acts(astray, A, B, {})
    <3>1. CASE o \notin astray
      <4>1. Evolved(astray, A, B)
        BY <1>4, <1>7, <2>1, <3>1, Released
      <4> HIDE DEF B
      <4> QED
        BY <4>1, EvolvedActs
    <3>2. CASE o \in astray
      <4>1. Went(astray, A, B, {})
        BY <1>7, <2>1, <3>2, ReleaseAstray
      <4> HIDE DEF B
      <4> QED
        BY <4>1, WentActs
    <3> QED
      BY <3>1, <3>2
  <2> HIDE DEF B
  <2>3. /\ Good(B, astray) /\ Beyond(A.level, B.level, {o})
        /\ ThrewOnlyGroups(B, astray)
    BY <1>6, <2>2 DEF Acts, ThrewOnlyGroups, Beyond
  <2>4. /\ update' \in Updates /\ update'.pc = "switch" /\ update'.marked = update.marked \cup {o}
        /\ update'.count = update.count
    BY <1>2, <1>4, <1>12, ZenonT(30) DEF Inv, Updates
  <2> QED
    BY <1>8, <1>9, <1>12, <2>3, <2>4 DEF B
<1>13. \/ \E place \in Places(A, o) :
            LET B == switch_object(A, o, update.count, place)
                came == ~A.object[o].m_bOnline /\ B.object[o].m_bOnline
            IN  /\ Became(B)
                /\ update' = [update EXCEPT !.marked = @ \cup {o}, !.count = IF came THEN @ + 1 ELSE @]
       \/ /\ redundant(A, o) /\ Became(release(A, o))
          /\ update' = [update EXCEPT !.marked = @ \cup {o}, !.freed = @ \cup {o}]
  BY ZenonT(30) DEF SwitchNext, A
<1> QED
  BY <1>11, <1>12, <1>13, ZenonT(30)


\* The request of one who is not astray, and of one who is.
LEMMA Requests ==
    ASSUME Inv, NEW B, Evolved(astray', Now, B) \/ Went(astray', Now, B, {}), Became(B), UNCHANGED update
    PROVE  Inv'
<1>1. Acts(astray', Now, B, {})
  BY EvolvedActs, WentActs
<1>2. alife' = B /\ stayed' \subseteq (stayed \cap B.level.objects) \ {}
  BY DEF Became
<1> QED
  BY <1>1, <1>2, Request DEF Inv

\* The ID of somebody new: nothing is left of the one before, or he goes on to be astray.
LEMMA RegistersObject ==
    ASSUME Inv, NEW o \in IDs, alife.object[o] = NULL, NEW x \in Objects,
           x.m_group_id = NULL,
           o \in Stalkers => /\ x.used_ai_locations /\ x.m_tGraphID # NULL
                             /\ x.m_bOnline => x.m_tGraphID = Here,
           o \in Groups => /\ ~x.m_bOnline /\ x.alive /\ x.m_tGraphID = NULL
                           /\ ~x.used_ai_locations,
           Became(register_object(Now, o, x)), Fresh(o), UNCHANGED update
    PROVE  Inv'
<1> DEFINE B == register_object(Now, o, x)
<1>1. Good(Now, astray) /\ Now.object = alife.object /\ Now.level = alife.level /\ Now.scheduled = alife.scheduled
      /\ (Somewhere(Now, o) <=> Somewhere(alife, o))
  <2>1. Now.points = alife.points
    BY DEF Now, Inv, Good, Fair, Typed, World
  <2> QED
    BY <2>1, NowFacts DEF Somewhere
<1>2. CASE o \in astray /\ Somewhere(alife, o)
  <2>1. astray' = astray
    BY <1>2 DEF Fresh
  <2>2. Went(astray, Now, B, {})
    BY <1>1, <1>2, RegisterAstray
  <2> HIDE DEF B
  <2> QED
    BY <2>1, <2>2, Requests DEF B
<1>3. CASE ~(o \in astray /\ Somewhere(alife, o))
  <2> DEFINE W == astray \ {o}
  <2>1. astray' = W
    BY <1>3 DEF Fresh
  <2>2. Good(Now, W)
    <3>1. CASE o \in astray
      BY <1>1, <1>3, <3>1, Narrow
    <3>2. CASE o \notin astray
      <4>1. W = astray
        BY <3>2
      <4> QED
        BY <1>1, <4>1
    <3> QED
      BY <3>1, <3>2
  <2>3. o \in IDs \ W
    OBVIOUS
  <2> HIDE DEF W
  <2>4. Evolved(W, Now, B)
    BY <1>1, <2>2, <2>3, RegisterObject
  <2> HIDE DEF B
  <2> QED
    BY <2>1, <2>4, Requests DEF B
<1> QED
  BY <1>2, <1>3

LEMMA RegistersStalker ==
    ASSUME Inv, NEW s \in Stalkers, NEW v \in Vertices, NEW online \in BOOLEAN, NEW alive \in BOOLEAN,
           NEW died \in BOOLEAN, RegisterStalker(s, v, online, alive, died)
    PROVE  Inv'
<1> DEFINE x == [m_bOnline |-> online, alive |-> alive, died |-> died, m_group_id |-> NULL,
                 m_tGraphID |-> v, used_ai_locations |-> TRUE]
<1>1. /\ alife.object[s] = NULL /\ (online => v = Here) /\ Became(register_object(Now, s, x))
      /\ Fresh(s) /\ UNCHANGED update
  BY DEF RegisterStalker, New, Registered
<1>2. /\ x \in Objects /\ x.m_group_id = NULL /\ x.used_ai_locations /\ x.m_tGraphID # NULL
      /\ x.m_bOnline => x.m_tGraphID = Here
  BY <1>1, Kinds DEF Objects
<1> HIDE DEF x
<1> QED
  BY <1>1, <1>2, Kinds, RegistersObject

LEMMA RegistersGroup ==
    ASSUME Inv, NEW g \in Groups, RegisterGroup(g)
    PROVE  Inv'
<1> DEFINE x == [m_bOnline |-> FALSE, alive |-> TRUE, died |-> FALSE, m_group_id |-> NULL,
                 m_tGraphID |-> NULL, used_ai_locations |-> FALSE]
<1>1. /\ alife.object[g] = NULL /\ Became(register_object(Now, g, x))
      /\ Fresh(g) /\ UNCHANGED update
  BY DEF RegisterGroup, New, Registered
<1>2. /\ x \in Objects /\ x.m_group_id = NULL /\ ~x.used_ai_locations /\ x.m_tGraphID = NULL
      /\ ~x.m_bOnline /\ x.alive
  BY DEF Objects
<1> HIDE DEF x
<1> QED
  BY <1>1, <1>2, Kinds, RegistersObject

LEMMA NowMembers == Inv => \A g : Members(Now, g) = Members(alife, g)
  BY NowFacts DEF Members

LEMMA ReleasesOne ==
    ASSUME Inv, NEW o \in IDs, Release(o)
    PROVE  Inv'
<1> DEFINE B == release(Now, o)
<1>1. /\ alife.object[o] # NULL /\ Members(alife, o) = {} /\ Became(B) /\ astray' = astray
      /\ update' = IF update.pc = "idle" THEN update ELSE [update EXCEPT !.freed = @ \cup {o}]
  BY DEF Release, Registered
<1>2. Good(Now, astray) /\ Now.object = alife.object /\ Members(Now, o) = {}
  BY <1>1, NowFacts, NowMembers
<1>3. Acts(astray, Now, B, {})
  <2>1. CASE o \notin astray
    <3>1. Evolved(astray, Now, B)
      BY <1>1, <1>2, <2>1, Released
    <3> HIDE DEF B
    <3> QED
      BY <3>1, EvolvedActs
  <2>2. CASE o \in astray
    <3>1. Went(astray, Now, B, {})
      BY <1>1, <1>2, <2>2, ReleaseAstray
    <3> HIDE DEF B
    <3> QED
      BY <3>1, WentActs
  <2> QED
    BY <2>1, <2>2
<1> HIDE DEF B
<1>4. /\ update' \in Updates /\ update'.pc = update.pc /\ update'.marked = update.marked
      /\ update'.count = update.count
  BY <1>1 DEF Inv, Updates
<1>5. alife' = B /\ stayed' \subseteq (stayed \cap B.level.objects) \ {}
  BY <1>1 DEF Became
<1>6. Acts(astray', Now, B, {})
  BY <1>1, <1>3
<1> QED
  BY <1>4, <1>5, <1>6, Request

\* With all their company, more may be astray.
LEMMA WidenCompany ==
    ASSUME NEW A, NEW W, Good(A, W), NEW g \in Groups,
           NEW S, S \subseteq Stalkers, \A s \in S : A.object[s] # NULL /\ A.object[s].m_group_id \in {NULL, g}
    PROVE  Good(A, W \cup S \cup Company(A, g))
<1> DEFINE V == W \cup S \cup Company(A, g)
<1>1. V \subseteq IDs /\ W \subseteq V
  BY Kinds DEF Good, Rest, Company, Members
<1>2. ASSUME NEW o \in IDs, A.object[o] # NULL, A.object[o].m_group_id # NULL
      PROVE  o \in V <=> A.object[o].m_group_id \in V
  <2> DEFINE h == A.object[o].m_group_id
  <2>1. /\ o \in Stalkers /\ h \in Groups /\ o \in Members(A, h)
        /\ o \in W <=> h \in W
    BY <1>2, Owner DEF Good
  <2>2. o \in V => h \in V
    <3>1. o \in S \cup Company(A, g) => h = g
      BY <1>2, <2>1, Kinds DEF Company, Members
    <3> QED
      BY <2>1, <3>1 DEF Company
  <2>3. h \in V => o \in V
    <3>1. h \in S \cup Company(A, g) => h = g
      BY <2>1, Kinds DEF Company, Members
    <3> QED
      BY <2>1, <3>1 DEF Company
  <2> QED
    BY <2>2, <2>3
<1> QED
  BY <1>1, <1>2, Widen

LEMMA RegistersMember ==
    ASSUME Inv, NEW g \in Groups, NEW s \in Stalkers, RegisterMember(g, s)
    PROVE  Inv'
<1> DEFINE B == register_member(Now, g, s)
           fits == Fits(alife, g, s) /\ astray \cap {g, s} = {}
           V == astray \cup {s} \cup Company(Now, g)
<1>1. /\ Became(B) /\ UNCHANGED update
      /\ alife.object[g] # NULL /\ alife.object[s] # NULL /\ alife.object[s].m_group_id = NULL
  BY DEF RegisterMember, Registered
<1>2. Good(Now, astray) /\ Now.object = alife.object /\ Company(Now, g) = Company(alife, g)
  BY NowFacts, NowMembers DEF Company
<1>3. astray' = IF fits THEN astray ELSE V
  BY <1>2 DEF RegisterMember
<1>4. CASE fits
  <2>1. MayJoin(astray, Now, g, s)
    BY <1>1, <1>2, <1>4, NowMembers DEF MayJoin, Fits
  <2>2. Evolved(astray, Now, B)
    BY <2>1, MemberRegistered
  <2>3. Evolved(astray', Now, B)
    BY <1>3, <1>4, <2>2
  <2> HIDE DEF B
  <2> QED
    BY <1>1, <2>3, Requests
<1>5. CASE ~fits
  <2>1. Good(Now, V)
    <3> DEFINE S == {s}
    <3>1. S \subseteq Stalkers /\ \A t \in S : Now.object[t] # NULL /\ Now.object[t].m_group_id \in {NULL, g}
      BY <1>1, <1>2
    <3> HIDE DEF S
    <3>2. Good(Now, astray \cup S \cup Company(Now, g))
      BY <1>2, <3>1, WidenCompany
    <3> QED
      BY <3>2 DEF S
  <2>2. g \in V /\ s \in V
    BY DEF Company
  <2>3. astray' = V
    BY <1>3, <1>5
  <2> HIDE DEF V
  <2>4. Went(V, Now, B, {})
    BY <1>1, <1>2, <2>1, <2>2, JoinAstray
  <2>5. Went(astray', Now, B, {})
    BY <2>3, <2>4
  <2> HIDE DEF B
  <2> QED
    BY <1>1, <2>5, Requests
<1> QED
  BY <1>4, <1>5

LEMMA UnregistersMember ==
    ASSUME Inv, NEW s \in Stalkers, UnregisterMember(s)
    PROVE  Inv'
<1> DEFINE B == unregister_member(Now, s)
           x == alife.object[s]
           g == x.m_group_id
<1>1. Became(B) /\ UNCHANGED update /\ x # NULL /\ g # NULL /\ astray' = astray
  BY DEF UnregisterMember, Registered
<1>2. Good(Now, astray) /\ Now.object = alife.object /\ Fair(Now, astray) /\ Rest(Now, astray)
  BY NowFacts DEF Good
<1>3. CASE s \notin astray
  <2>1. g \in Groups \ astray /\ s \in Members(Now, g)
    BY <1>1, <1>2, <1>3, Owner, Kinds
  <2>2. Together(Now, s, g)
    BY <1>2, <2>1 DEF Good
  <2>3. MayPart(astray, Now, s)
    BY <1>1, <1>2, <1>3, <2>1, <2>2 DEF MayPart, Good, Together
  <2>4. Evolved(astray, Now, B)
    BY <2>3, MemberUnregistered
  <2>5. Evolved(astray', Now, B)
    BY <1>1, <2>4
  <2> HIDE DEF B
  <2> QED
    BY <1>1, <2>5, Requests
<1>4. CASE s \in astray
  <2>1. Went(astray, Now, B, {})
    BY <1>1, <1>2, <1>4, UnregisterAstray
  <2>2. Went(astray', Now, B, {})
    BY <1>1, <2>1
  <2> HIDE DEF B
  <2> QED
    BY <1>1, <2>2, Requests
<1> QED
  BY <1>3, <1>4

LEMMA Kills ==
    ASSUME Inv, NEW s \in Stalkers, NEW v \in Vertices, NEW moved \in BOOLEAN, KillEntity(s, v, moved)
    PROVE  Inv'
<1> DEFINE x == alife.object[s]
           g == x.m_group_id
           B == IF moved THEN Buried(Now, s, v) ELSE Slew(Now, s, v)
           T == IF moved THEN {s} ELSE {}
<1>1. /\ x # NULL /\ (v # x.m_tGraphID => moved) /\ UNCHANGED update
      /\ stayed' = {o \in stayed \cap alife'.level.objects : o = s => ~moved}
      /\ astray' = astray \cup IF g # NULL THEN Company(alife, g)
                               ELSE IF x.m_bOnline /\ moved THEN {s} ELSE {}
  BY DEF KillEntity, Registered
<1>2. /\ Good(Now, astray) /\ Now.object = alife.object
      /\ \A h : Company(Now, h) = Company(alife, h)
  BY NowFacts, NowMembers DEF Company
<1>3. alife' = B
  <2>1. alife' = kill_entity(Now, s, v, moved)
    BY DEF KillEntity
  <2> QED
    BY <2>1 DEF kill_entity, Buried, Slew, Enter, Leave
<1>4. Typed(Now) /\ x \in Objects /\ s \in IDs
  BY <1>1, <1>2, ObjectType, Kinds DEF Good, Fair
<1>5. CASE s \in astray'
  <2>1. Good(Now, astray')
    <3>1. CASE g # NULL
      <4> DEFINE S == {s}
      <4>1. g \in Groups
        BY <1>4, <3>1 DEF Objects
      <4>2. S \subseteq Stalkers /\ \A t \in S : Now.object[t] # NULL /\ Now.object[t].m_group_id \in {NULL, g}
        BY <1>1, <1>2
      <4> HIDE DEF S
      <4>3. Good(Now, astray \cup S \cup Company(Now, g))
        BY <1>2, <4>1, <4>2, WidenCompany
      <4>4. s \in Company(Now, g)
        BY <1>1, <1>2 DEF Company, Members
      <4>5. astray \cup S \cup Company(Now, g) = astray'
        BY <1>1, <1>2, <3>1, <4>4 DEF S
      <4> QED
        BY <4>3, <4>5
    <3>2. CASE g = NULL /\ astray' = astray
      BY <1>2, <3>2
    <3>3. CASE g = NULL /\ astray' = astray \cup {s}
      <4> DEFINE V == astray \cup {s}
      <4>1. V \subseteq IDs /\ astray \subseteq V
        BY <1>2, <1>4 DEF Good, Rest
      <4>2. ASSUME NEW o \in IDs, Now.object[o] # NULL, Now.object[o].m_group_id # NULL
            PROVE  o \in V <=> Now.object[o].m_group_id \in V
        <5>1. Now.object[o].m_group_id \in Groups /\ (o \in astray <=> Now.object[o].m_group_id \in astray)
          BY <1>2, <4>2, Owner DEF Good
        <5> QED
          BY <1>2, <3>3, <4>2, <5>1, Kinds
      <4> HIDE DEF V
      <4>3. Good(Now, V)
        BY <1>2, <4>1, <4>2, Widen
      <4> QED
        BY <3>3, <4>3 DEF V
    <3>4. g = NULL => astray' = astray \/ astray' = astray \cup {s}
      BY <1>1
    <3> QED
      BY <3>1, <3>2, <3>3, <3>4
  <2>2. /\ Went(astray', Now, Slew(Now, s, v), {})
        /\ Went(astray', Now, Buried(Now, s, v), {s})
    BY <1>1, <1>2, <1>5, <2>1, KillAstray
  <2>3. Went(astray', Now, B, T)
    BY <2>2
  <2> HIDE DEF B, T
  <2>4. Acts(astray', Now, B, T)
    BY <2>3, WentActs
  <2>5. stayed' \subseteq (stayed \cap B.level.objects) \ T
    BY <1>1, <1>3 DEF T
  <2> QED
    BY <1>1, <1>3, <2>4, <2>5, Request DEF Inv
<1>6. CASE s \notin astray'
  <2>1. g = NULL /\ ~(x.m_bOnline /\ moved) /\ astray' = astray
    <3>1. g # NULL => s \in Company(alife, g)
      BY <1>1 DEF Company, Members
    <3>2. g = NULL /\ ~(x.m_bOnline /\ moved)
      BY <1>1, <1>6, <3>1
    <3> QED
      BY <1>1, <3>2
  <2>2. s \in Stalkers \ astray
    BY <1>6, <2>1
  <2>3. /\ v = Now.object[s].m_tGraphID => Went(astray, Now, Slew(Now, s, v), {})
        /\ ~Now.object[s].m_bOnline => Went(astray, Now, Buried(Now, s, v), {s})
    BY <1>1, <1>2, <2>1, <2>2, KillLoose
  <2>4. Went(astray', Now, B, T)
    BY <1>1, <1>2, <2>1, <2>3
  <2> HIDE DEF B, T
  <2>5. Acts(astray', Now, B, T)
    BY <2>4, WentActs
  <2>6. stayed' \subseteq (stayed \cap B.level.objects) \ T
    BY <1>1, <1>3 DEF T
  <2> QED
    BY <1>1, <1>3, <2>5, <2>6, Request DEF Inv
<1> QED
  BY <1>5, <1>6

LEMMA Dies ==
    ASSUME Inv, NEW s \in Stalkers, on_death(s)
    PROVE  Inv'
<1> DEFINE B == Died(Now, s)
<1>1. /\ Became(B) /\ UNCHANGED update /\ alife.object[s] # NULL /\ alife.object[s].m_bOnline
      /\ astray' = astray
  BY DEF on_death, Registered, Died
<1>2. Good(Now, astray) /\ Now.object = alife.object
  BY NowFacts
<1>3. CASE s \notin astray
  <2>1. Evolved(astray, Now, B)
    BY <1>1, <1>2, <1>3, DiedGood
  <2>2. Evolved(astray', Now, B)
    BY <1>1, <2>1
  <2> HIDE DEF B
  <2> QED
    BY <1>1, <2>2, Requests
<1>4. CASE s \in astray
  <2>1. Went(astray, Now, B, {})
    BY <1>1, <1>2, <1>4, DieAstray
  <2>2. Went(astray', Now, B, {})
    BY <1>1, <2>1
  <2> HIDE DEF B
  <2> QED
    BY <1>1, <2>2, Requests
<1> QED
  BY <1>3, <1>4

LEMMA InvStep == Inv /\ [Next]_vars => Inv'
<1> SUFFICES ASSUME Inv, [Next]_vars PROVE Inv'
  OBVIOUS
<1>1. CASE Update
  BY <1>1, BeginSwitch, SwitchesNext, BeginScheduled, UpdatesNext, EndsScheduled
     DEF Update, EndSwitch, TimeOver
<1>2. ASSUME NEW s \in Stalkers,
             \/ \E v \in Vertices, online, alive, died \in BOOLEAN :
                   RegisterStalker(s, v, online, alive, died)
             \/ \E v \in Vertices, moved \in BOOLEAN : KillEntity(s, v, moved)
             \/ \E g \in Groups : RegisterMember(g, s)
             \/ UnregisterMember(s) \/ on_death(s)
      PROVE  Inv'
  BY <1>2, RegistersStalker, Kills, RegistersMember, UnregistersMember, Dies
<1>3. ASSUME NEW g \in Groups, RegisterGroup(g) PROVE Inv'
  BY <1>3, RegistersGroup
<1>4. ASSUME NEW o \in IDs, Release(o) PROVE Inv'
  BY <1>4, ReleasesOne
<1>5. CASE UNCHANGED vars
  <2>1. alife' = alife /\ update' = update /\ stayed' = stayed /\ astray' = astray
    BY <1>5 DEF vars
  <2>2. Round'
    BY <2>1 DEF Inv, Round
  <2> QED
    BY <2>1, <2>2 DEF Inv
<1> QED
  BY <1>1, <1>2, <1>3, <1>4, <1>5 DEF Next

-----------------------------------------------------------------------------
(* The results.                                                            *)

\* The inductive invariant of the simulator.
THEOREM Invariant == Spec => []IInv
<1>1. Spec => []Inv
  BY InvInit, InvStep, PTL DEF Spec
<1> QED
  BY <1>1, InvIsIInv, PTL

\* The iterators of the level and of the schedule never stand on an object that is not
\* there, whoever adds and removes objects between two steps of a loop
\* (CSafeMapIterator::remove, update_next); and one update switches no more objects online,
\* and updates no more of the schedule, than its limits allow.
THEOREM TypeCorrect == Spec => []TypeOK
  BY Invariant, PTL DEF IInv

\* Who is in the level registry, at a vertex of the graph and in the schedule follows from
\* the object alone, whatever is registered, released, switched, killed and grouped in whatever
\* order (CALifeUpdateManager::register_object to CSE_ALifeOnlineOfflineGroup::unregister_member).
\* It does not of those whom a script has killed in a group, or moved while they were online,
\* or put into a group they do not fit, nor of that group and its members: but of everybody else.
THEOREM EverybodyInPlace == Spec => []InItsPlace
  BY Invariant, PTL DEF IInv

\* The members of a group are alive, where it is, and online exactly when it is
\* (CSE_ALifeOnlineOfflineGroup::switch_online, switch_offline), of every group none of whose
\* members a script has killed (kill_entity) and that got none who did not fit.
THEOREM GroupsTogether == Spec => []MembersTogether
  BY Invariant, PTL DEF IInv

\* THROW2 of the registries, "already found" or "not found" (CSafeMapIterator::add,
\* CALifeLevelRegistry::remove, CALifeGraphRegistry::remove), is met over nobody but a group
\* that is released without members and those whom kill_entity or a joining that does not
\* fit has set apart, with the rest of their group.
THEOREM Throws == Spec => []OnlyEmptyGroupThrows
  BY Invariant, PTL DEF IInv

LEMMA RoundStep == IInv /\ [Next]_vars => (EndSwitch => stayed \subseteq update.marked)
<1> SUFFICES ASSUME IInv, EndSwitch, NEW y \in stayed, y \notin update.marked PROVE FALSE
  OBVIOUS
<1>1. Inv /\ update.pc = "switch"
  BY InvIsIInv DEF EndSwitch
<1>2. y \in alife.level.objects
  BY <1>1 DEF Inv, Round
<1>3. alife.level.next \in update.marked /\ Typed(alife)
  BY <1>1, <1>2 DEF EndSwitch, Inv, Good, Fair
<1>4. ~InArc(alife.level.next, alife.level.next, y)
  BY <1>1, <1>3 DEF Inv, Round
<1>5. y \in Nat /\ alife.level.next \in Nat /\ y # alife.level.next
  BY <1>1, <1>2, <1>3, CountIn, IDsAssumption DEF Typed, World, Registries
<1> QED
  BY <1>4, <1>5 DEF InArc

\* A loop over the level that is not cut short has met everybody who was there all the
\* time (CSafeMapIterator::update, its counters and its iterator that is kept).
THEOREM NobodyMissed == Spec => WholeRound
<1>1. IInv /\ [Next]_vars => [EndSwitch => stayed \subseteq update.marked]_vars
  BY RoundStep
<1> QED
  BY <1>1, Invariant, PTL DEF Spec, WholeRound
=============================================================================
