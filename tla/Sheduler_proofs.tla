--------------------------- MODULE Sheduler_proofs ---------------------------
(***************************************************************************)
(* Proofs about Sheduler, for any number of objects, any intervals and any *)
(* length of the queues.                                                   *)
(***************************************************************************)
EXTENDS Sheduler, SequenceTheorems, TLAPS

-----------------------------------------------------------------------------
(* The list operations of internal_Registration, internal_Unregister and   *)
(* ProcessStep.                                                            *)

LEMMA RemoveAtType ==
    ASSUME NEW S, NEW s \in Seq(S), NEW i \in 1 .. Len(s)
    PROVE  /\ RemoveAt(s, i) \in Seq(S)
           /\ Len(RemoveAt(s, i)) = Len(s) - 1
           /\ \A j \in 1 .. Len(s) - 1 :
                 RemoveAt(s, i)[j] = IF j < i THEN s[j] ELSE s[j + 1]
<1> DEFINE front == SubSeq(s, 1, i - 1)
           back == SubSeq(s, i + 1, Len(s))
<1>1. /\ front \in Seq(S) /\ Len(front) = i - 1
      /\ \A j \in 1 .. i - 1 : front[j] = s[j]
  OBVIOUS
<1>2. /\ back \in Seq(S) /\ Len(back) = Len(s) - i
      /\ \A j \in 1 .. Len(s) - i : back[j] = s[i + j]
  OBVIOUS
<1>3. RemoveAt(s, i) = front \o back
  BY DEF RemoveAt
<1> HIDE DEF front, back
<1>4. /\ front \o back \in Seq(S)
      /\ Len(front \o back) = Len(s) - 1
  BY <1>1, <1>2
<1>5. ASSUME NEW j \in 1 .. Len(s) - 1
      PROVE (front \o back)[j] = IF j < i THEN s[j] ELSE s[j + 1]
  BY <1>1, <1>2
<1> QED
  BY <1>3, <1>4, <1>5

\* ProcessStep moves ItemsProcessed back to the heap from its end.
LEMMA ReverseType ==
    ASSUME NEW S, NEW s \in Seq(S)
    PROVE  /\ Reverse(s) \in Seq(S)
           /\ Len(Reverse(s)) = Len(s)
           /\ \A j \in 1 .. Len(s) : Reverse(s)[j] = s[Len(s) - j + 1]
BY DEF Reverse

-----------------------------------------------------------------------------
(* Type correctness, inductive by itself.                                  *)

LEMMA TypeInit == Init => TypeOK
<1> SUFFICES ASSUME Init PROVE TypeOK
  OBVIOUS
<1>1. /\ rt \in Seq(RTItem) /\ items \in Seq(Item) /\ processed \in Seq(Item)
      /\ registration \in Seq(ItemReg)
  BY DEF Init
<1>2. pc \in Phases /\ it \in Nat \ {0} /\ iter \in 0 .. CheckPeriod - 1
  BY ShedulerAssumption DEF Init, Phases
<1>3. cur \in Item
  BY DEF Init, Item, NoItem
<1> QED
  BY <1>1, <1>2, <1>3 DEF Init, TypeOK

\* ItemsRT and Items keep their types under the list operations of the code.
LEMMA RestartType ==
    ASSUME TypeOK, NEW i \in 1 .. Len(rt)
    PROVE  RestartRT(i) \in Seq(RTItem)
<1>1. rt[i] \in RTItem
  BY DEF TypeOK
<1>2. [rt[i] EXCEPT !.last = 0] \in RTItem
  BY <1>1 DEF RTItem
<1> QED
  BY <1>2 DEF TypeOK, RestartRT

LEMMA NextIterType == TypeOK => NextIter \in 0 .. CheckPeriod - 1
BY ShedulerAssumption DEF TypeOK, NextIter

\* What ProcessStep tells the handler of an entry.
LEMMA ToldIs ==
    ASSUME NEW T \in Item, T.obj \in Objects
    PROVE  /\ Told(T) \in Item /\ Told(T).obj = T.obj
           /\ Told(T).last = clampr(T.last, 1, Longest[T.obj])
<1>1. Longest[T.obj] \in Nat /\ T.last \in Nat
  BY ShedulerAssumption DEF Item
<1>2. clampr(T.last, 1, Longest[T.obj]) \in Nat
  BY <1>1 DEF clampr
<1> QED
  BY <1>2 DEF Told, Item

LEMMA InternalUnregisterType ==
    ASSUME TypeOK, NEW o \in Objects, NEW asRT \in BOOLEAN, InternalUnregister(o, asRT)
    PROVE  rt' \in Seq(RTItem) /\ items' \in Seq(Item)
<1>1. CASE EraseRT(o)
  <2>1. PICK i \in 1 .. Len(rt) : rt' = RemoveAt(rt, i) /\ items' = items
    BY <1>1 DEF EraseRT, WithoutRT
  <2> QED
    BY <2>1, RemoveAtType DEF TypeOK
<1>2. CASE CancelItem(o)
  <2>1. PICK i \in 1 .. Len(items) : items' = [items EXCEPT ![i].obj = None] /\ rt' = rt
    BY <1>2 DEF CancelItem
  <2>2. items[i] \in Item
    BY DEF TypeOK
  <2>3. [items[i] EXCEPT !.obj = None] \in Item
    BY <2>2 DEF Item
  <2> QED
    BY <2>1, <2>3 DEF TypeOK
<1>3. CASE UNCHANGED <<rt, items>>
  BY <1>3 DEF TypeOK
<1> QED
  BY <1>1, <1>2, <1>3 DEF InternalUnregister

LEMMA OlderRTType ==
    ASSUME NEW e \in RTItem, NEW d \in Nat
    PROVE  OlderRT(e, d) \in RTItem
<1>1. e.last \in Nat /\ Capped(e.last + d) \in Nat
  BY ShedulerAssumption DEF RTItem, Capped
<1> QED
  BY <1>1 DEF RTItem, OlderRT

LEMMA OlderItemType ==
    ASSUME NEW e \in Item, NEW d \in Nat
    PROVE  OlderItem(e, d) \in Item
<1>1. e.last \in Nat /\ Capped(e.last + d) \in Nat /\ e.at - d \in Int
  BY ShedulerAssumption DEF Item, Capped
<1> QED
  BY <1>1 DEF Item, OlderItem

LEMMA TypeStep == TypeOK /\ [Next]_shedVars => TypeOK'
<1> SUFFICES ASSUME TypeOK, [Next]_shedVars PROVE TypeOK'
  OBVIOUS
<1>1. CASE UNCHANGED shedVars
  BY <1>1 DEF TypeOK, shedVars
<1>2. ASSUME NEW o \in Objects, NEW asRT \in BOOLEAN, Register(o, asRT) PROVE TypeOK'
  <2>1. registration' \in Seq(ItemReg) /\ bRT' \in [Objects -> BOOLEAN]
    BY <1>2 DEF Register, TypeOK, ItemReg
  <2> QED
    BY <1>2, <2>1 DEF Register, TypeOK
<1>3. ASSUME NEW o \in Objects, Unregister(o) PROVE TypeOK'
  <2>1. rt' \in Seq(RTItem) /\ items' \in Seq(Item)
    BY <1>3, InternalUnregisterType DEF Unregister, TypeOK
  <2>2. [reg |-> FALSE, rt |-> bRT[o], obj |-> o] \in ItemReg
    BY DEF TypeOK, ItemReg
  <2>3. registration' \in Seq(ItemReg)
    <3>1. \/ registration' = registration
          \/ registration' = Append(registration, [reg |-> FALSE, rt |-> bRT[o], obj |-> o])
      BY <1>3 DEF Unregister
    <3>2. registration \in Seq(ItemReg)
      BY DEF TypeOK
    <3> QED
      BY <2>2, <3>1, <3>2, AppendProperties
  <2>4. erased' \in BOOLEAN
    BY <1>3 DEF Unregister, TypeOK
  <2> QED
    BY <1>3, <2>1, <2>2, <2>3, <2>4 DEF Unregister, TypeOK
<1>4. ASSUME NEW o \in Objects, SetNeeded(o) PROVE TypeOK'
  <2>1. needed' \in [Objects -> BOOLEAN]
    BY <1>4 DEF SetNeeded, TypeOK
  <2> QED
    BY <1>4, <2>1 DEF SetNeeded, TypeOK
<1>5. ASSUME NEW b \in Objects, NEW a \in Objects, EnsureOrder(b, a) PROVE TypeOK'
  <2>1. rt' \in Seq(RTItem)
    <3>1. PICK i \in 1 .. Len(rt) : rt' = Append(RemoveAt(rt, i), rt[i])
      BY <1>5 DEF EnsureOrder
    <3>2. RemoveAt(rt, i) \in Seq(RTItem) /\ rt[i] \in RTItem
      BY RemoveAtType DEF TypeOK
    <3> QED
      BY <3>1, <3>2
  <2> QED
    BY <1>5, <2>1 DEF EnsureOrder, TypeOK
<1>6. CASE RegSkipPair
  <2>1. registration' \in Seq(ItemReg) /\ it' \in Nat \ {0}
    BY <1>6, RemoveAtType DEF RegSkipPair, RegEntry, TypeOK
  <2> QED
    BY <1>6, <2>1 DEF RegSkipPair, RegEntry, TypeOK
<1>7. CASE RegAdd
  <2>1. registration[it] \in ItemReg
    BY <1>7 DEF RegAdd, RegEntry, TypeOK
  <2>2. /\ [obj |-> registration[it].obj, last |-> 0] \in RTItem
        /\ [obj |-> registration[it].obj, at |-> 0, last |-> 0] \in Item
    BY <2>1 DEF RTItem, Item, ItemReg
  <2>3. rt' \in Seq(RTItem) /\ items' \in Seq(Item)
    <3>1. \/ /\ rt' = Append(rt, [obj |-> registration[it].obj, last |-> 0])
             /\ items' = items
          \/ /\ items' = Append(items, [obj |-> registration[it].obj, at |-> 0, last |-> 0])
             /\ rt' = rt
      BY <1>7 DEF RegAdd, InternalRegister
    <3>2. rt \in Seq(RTItem) /\ items \in Seq(Item)
      BY DEF TypeOK
    <3>3. /\ Append(rt, [obj |-> registration[it].obj, last |-> 0]) \in Seq(RTItem)
          /\ Append(items, [obj |-> registration[it].obj, at |-> 0, last |-> 0]) \in Seq(Item)
      BY <2>2, <3>2, AppendProperties, Zenon
    <3> QED
      BY <3>1, <3>2, <3>3, Zenon
  <2>4. /\ bRT' \in [Objects -> BOOLEAN] /\ since' \in [Objects -> Nat]
        /\ it' \in Nat \ {0}
    BY <1>7, <2>1 DEF RegAdd, RegEntry, InternalRegister, TypeOK, ItemReg
  <2> QED
    BY <1>7, <2>1, <2>2, <2>3, <2>4 DEF RegAdd, RegEntry, TypeOK
<1>8. CASE RegRemove
  <2>1. registration[it] \in ItemReg /\ it' \in Nat \ {0}
    BY <1>8 DEF RegRemove, RegEntry, TypeOK
  <2>2. rt' \in Seq(RTItem) /\ items' \in Seq(Item)
    BY <1>8, <2>1, InternalUnregisterType DEF RegRemove, QueuedRT, ItemReg
  <2> QED
    BY <1>8, <2>1, <2>2 DEF RegRemove, RegEntry, TypeOK
<1>9. CASE RegDone
  <2>1. registration' \in Seq(ItemReg) /\ it' \in Nat \ {0}
    BY <1>9 DEF RegDone
  <2>2. /\ rt' \in Seq(RTItem) /\ items' \in Seq(Item)
        /\ pc' \in Phases /\ processing' \in BOOLEAN
    <3>1. CASE pc = "regBefore"
      BY <1>9, <3>1 DEF RegDone, Phases, TypeOK
    <3>2. CASE pc = "regAfter"
      BY <1>9, <3>2 DEF RegDone, Phases, TypeOK
    <3>3. CASE pc = "regDestroy"
      BY <1>9, <3>3 DEF RegDone, Phases, TypeOK
    <3> QED
      BY <1>9, <3>1, <3>2, <3>3 DEF RegDone, RegPhases
  <2> QED
    BY <1>9, <2>1, <2>2 DEF RegDone, TypeOK
<1>10. CASE SkipRT
  <2>1. rt' \in Seq(RTItem) /\ it' \in Nat \ {0}
    BY <1>10, RestartType DEF SkipRT, ContinueRT, TypeOK
  <2>2. since' \in [Objects -> Nat]
    BY <1>10 DEF SkipRT, TypeOK
  <2> QED
    BY <1>10, <2>1, <2>2 DEF SkipRT, TypeOK
<1>11. CASE CallRT
  <2>1. cur' \in Item
    <3>1. rt[it] \in RTItem
      BY <1>11 DEF CallRT, TypeOK
    <3> QED
      BY <1>11, <3>1 DEF CallRT, RTItem, Item
  <2>2. pc' \in Phases
    BY <1>11 DEF CallRT, Phases
  <2> QED
    BY <1>11, <2>1, <2>2 DEF CallRT, TypeOK
<1>12. CASE ReturnRT
  <2>1. rt' \in Seq(RTItem) /\ it' \in Nat \ {0}
    BY <1>12, RestartType DEF ReturnRT, TypeOK
  <2>2. cur' \in Item /\ pc' \in Phases
    BY <1>12 DEF ReturnRT, NoItem, Item, Phases
  <2>3. since' \in [Objects -> Nat]
    BY <1>12 DEF ReturnRT, TypeOK
  <2> QED
    BY <1>12, <2>1, <2>2, <2>3 DEF ReturnRT, TypeOK
<1>13. CASE EndRT
  <2>1. pc' \in Phases /\ it' \in Nat \ {0} /\ iter' \in 0 .. CheckPeriod - 1
    BY <1>13, ShedulerAssumption DEF EndRT, Phases
  <2> QED
    BY <1>13, <2>1 DEF EndRT, TypeOK
<1>14. CASE DropItem
  <2>1. items' \in Seq(Item)
    BY <1>14, RemoveAtType DEF DropItem, PopUnneeded, TypeOK
  <2>2. iter' \in 0 .. CheckPeriod - 1
    BY <1>14, NextIterType DEF DropItem
  <2> QED
    BY <1>14, <2>1, <2>2 DEF DropItem, TypeOK
<1>15. CASE CallItem
  <2>1. items' \in Seq(Item) /\ cur' \in Item
    <3>1. PICK k \in 1 .. Len(items) : /\ ~Unneeded(k)
                                       /\ items' = RemoveAt(items, k)
                                       /\ cur' = Told(items[k])
      BY <1>15 DEF CallItem
    <3>2. items \in Seq(Item) /\ items[k] \in Item
      BY DEF TypeOK
    <3>3. items[k].obj \in Objects
      BY <3>1 DEF Unneeded
    <3> QED
      BY <3>1, <3>2, <3>3, RemoveAtType, ToldIs
  <2>2. pc' \in Phases
    BY <1>15 DEF CallItem, Phases
  <2> QED
    BY <1>15, <2>1, <2>2 DEF CallItem, TypeOK
<1>16. CASE ReturnItem
  <2>1. processed' \in Seq(Item)
    BY <1>16, ShedulerAssumption DEF ReturnItem, TypeOK, Item
  <2>2. cur' \in Item /\ pc' \in Phases
    BY <1>16 DEF ReturnItem, NoItem, Item, Phases
  <2>3. iter' \in 0 .. CheckPeriod - 1
    BY <1>16, NextIterType DEF ReturnItem
  <2>4. since' \in [Objects -> Nat]
    BY <1>16 DEF ReturnItem, TypeOK
  <2> QED
    BY <1>16, <2>1, <2>2, <2>3, <2>4 DEF ReturnItem, TypeOK
<1>17. CASE FaultItem
  <2>1. cur' \in Item /\ pc' \in Phases
    BY <1>17 DEF FaultItem, NoItem, Item, Phases
  <2>2. iter' \in 0 .. CheckPeriod - 1
    BY <1>17, NextIterType DEF FaultItem
  <2> QED
    BY <1>17, <2>1, <2>2 DEF FaultItem, TypeOK
<1>18. CASE EndStep
  <2>1. pc' \in Phases
    BY <1>18 DEF EndStep, Phases
  <2> QED
    BY <1>18, <2>1 DEF EndStep, TypeOK
<1>19. CASE Merge
  <2>1. items' \in Seq(Item) /\ processed' \in Seq(Item)
    BY <1>19, ReverseType, ConcatProperties DEF Merge, TypeOK
  <2>2. pc' \in Phases /\ it' \in Nat \ {0}
    BY <1>19 DEF Merge, Phases
  <2> QED
    BY <1>19, <2>1, <2>2 DEF Merge, TypeOK
<1>20. ASSUME NEW d \in Deltas, Tick(d) PROVE TypeOK'
  <2>1. d \in Nat /\ \A t \in Nat : Capped(t + d) \in Nat
    BY ShedulerAssumption DEF Capped
  <2>2. rt' \in Seq(RTItem)
    <3>1. \A i \in 1 .. Len(rt) : OlderRT(rt[i], d) \in RTItem
      <4>1. \A i \in 1 .. Len(rt) : rt[i] \in RTItem
        BY DEF TypeOK
      <4> QED
        BY <2>1, <4>1, OlderRTType
    <3>2. rt' = [i \in 1 .. Len(rt) |-> OlderRT(rt[i], d)]
      BY <1>20 DEF Tick
    <3>3. Len(rt) \in Nat
      BY DEF TypeOK
    <3> QED
      BY <3>1, <3>2, <3>3
  <2>3. items' \in Seq(Item)
    <3>1. \A i \in 1 .. Len(items) : OlderItem(items[i], d) \in Item
      <4>1. \A i \in 1 .. Len(items) : items[i] \in Item
        BY DEF TypeOK
      <4> QED
        BY <2>1, <4>1, OlderItemType
    <3>2. items' = [i \in 1 .. Len(items) |-> OlderItem(items[i], d)]
      BY <1>20 DEF Tick
    <3>3. Len(items) \in Nat
      BY DEF TypeOK
    <3> QED
      BY <3>1, <3>2, <3>3
  <2>4. since' \in [Objects -> Nat]
    BY <1>20, <2>1 DEF Tick, TypeOK
  <2> QED
    BY <1>20, <2>1, <2>2, <2>3, <2>4 DEF Tick, TypeOK
<1>21. CASE StartUpdate
  <2>1. pc' \in Phases /\ it' \in Nat \ {0}
    BY <1>21 DEF StartUpdate, Phases
  <2> QED
    BY <1>21, <2>1 DEF StartUpdate, TypeOK
<1>22. CASE Destroy
  <2>1. pc' \in Phases /\ it' \in Nat \ {0}
    BY <1>22 DEF Destroy, Phases
  <2> QED
    BY <1>22, <2>1 DEF Destroy, TypeOK
<1>23. CASE Terminated
  BY <1>23 DEF Terminated, TypeOK, shedVars
<1> QED
  BY <1>1, <1>2, <1>3, <1>4, <1>5, <1>6, <1>7, <1>8, <1>9, <1>10, <1>11, <1>12,
     <1>13, <1>14, <1>15, <1>16, <1>17, <1>18, <1>19, <1>20, <1>21, <1>22, <1>23
     DEF Next, Owners, Reorder, Pass, Frame

\* Every state of the scheduler is well typed, whatever the owners and the handlers
\* do: no entry without a record, no index outside its range.
THEOREM TypeCorrect == Spec => []TypeOK
BY TypeInit, TypeStep, PTL DEF Spec

-----------------------------------------------------------------------------
(* What the list operations do to the objects of a list.                   *)

LEMMA AppendObjects ==
    ASSUME NEW S, NEW s \in Seq(S), NEW e \in S
    PROVE  /\ ObjectsOf(Append(s, e)) = ObjectsOf(s) \cup ({e.obj} \ {None})
           /\ Once(s) /\ e.obj \notin ObjectsOf(s) => Once(Append(s, e))
<1> DEFINE t == Append(s, e)
<1>1. /\ Len(t) = Len(s) + 1 /\ Len(s) \in Nat
      /\ \A i \in 1 .. Len(s) : t[i] = s[i]
      /\ t[Len(s) + 1] = e
  BY AppendProperties
<1> HIDE DEF t
<1>2. ObjectsOf(t) = ObjectsOf(s) \cup ({e.obj} \ {None})
  BY <1>1 DEF ObjectsOf
<1>3. ASSUME Once(s), e.obj \notin ObjectsOf(s) PROVE Once(t)
  BY <1>1, <1>3 DEF Once, ObjectsOf
<1> QED
  BY <1>2, <1>3 DEF t

LEMMA RemoveObjects ==
    ASSUME NEW S, NEW s \in Seq(S), Once(s), NEW i \in 1 .. Len(s)
    PROVE  /\ ObjectsOf(RemoveAt(s, i)) = ObjectsOf(s) \ {s[i].obj}
           /\ Once(RemoveAt(s, i))
<1> DEFINE t == RemoveAt(s, i)
<1>1. /\ Len(t) = Len(s) - 1 /\ Len(s) \in Nat
      /\ \A j \in 1 .. Len(s) - 1 : t[j] = IF j < i THEN s[j] ELSE s[j + 1]
  <2>1. /\ Len(RemoveAt(s, i)) = Len(s) - 1
        /\ \A j \in 1 .. Len(s) - 1 : RemoveAt(s, i)[j] = IF j < i THEN s[j] ELSE s[j + 1]
    BY RemoveAtType, Zenon
  <2>2. Len(s) \in Nat
    OBVIOUS
  <2> QED
    BY <2>1, <2>2, Zenon
<1> HIDE DEF t
<1>2. ASSUME NEW j \in 1 .. Len(s), j # i
      PROVE  \E k \in 1 .. Len(t) : t[k] = s[j]
  <2>1. CASE j < i
    BY <1>1, <2>1
  <2>2. CASE j > i
    <3>1. j - 1 \in 1 .. Len(t) /\ t[j - 1] = s[j]
      BY <1>1, <2>2
    <3> QED
      BY <3>1
  <2> QED
    BY <1>2, <2>1, <2>2
<1>3. \A k \in 1 .. Len(t) : \E j \in 1 .. Len(s) : j # i /\ t[k] = s[j]
  BY <1>1
<1>4. ObjectsOf(t) = ObjectsOf(s) \ {s[i].obj}
  <2>1. ObjectsOf(t) \subseteq ObjectsOf(s) \ {s[i].obj}
    BY <1>3 DEF ObjectsOf, Once
  <2>2. ObjectsOf(s) \ {s[i].obj} \subseteq ObjectsOf(t)
    BY <1>2 DEF ObjectsOf
  <2> QED
    BY <2>1, <2>2
<1>5. Once(t)
  BY <1>1 DEF Once
<1> QED
  BY <1>4, <1>5 DEF t

LEMMA CancelObjects ==
    ASSUME NEW s \in Seq(Item), Once(s), NEW i \in 1 .. Len(s)
    PROVE  /\ ObjectsOf([s EXCEPT ![i].obj = None]) = ObjectsOf(s) \ {s[i].obj}
           /\ Once([s EXCEPT ![i].obj = None])
<1> DEFINE t == [s EXCEPT ![i].obj = None]
<1>1. /\ Len(t) = Len(s) /\ Len(s) \in Nat
      /\ \A j \in 1 .. Len(s) : j # i => t[j] = s[j]
      /\ t[i].obj = None
  <2>1. s[i] \in Item
    OBVIOUS
  <2>2. [s[i] EXCEPT !.obj = None] \in Item /\ [s[i] EXCEPT !.obj = None].obj = None
    BY <2>1 DEF Item
  <2> QED
    BY <2>2
<1> HIDE DEF t
<1>2. ObjectsOf(t) = ObjectsOf(s) \ {s[i].obj}
  BY <1>1 DEF ObjectsOf, Once
<1>3. Once(t)
  BY <1>1 DEF Once
<1> QED
  BY <1>2, <1>3 DEF t

\* A list whose entries keep their objects, whatever else changes in them.
LEMMA SameObjects ==
    ASSUME NEW s, NEW t, Len(s) \in Nat, Len(t) = Len(s),
           \A i \in 1 .. Len(s) : t[i].obj = s[i].obj
    PROVE  ObjectsOf(t) = ObjectsOf(s) /\ (Once(s) => Once(t))
BY DEF ObjectsOf, Once

LEMMA MergeObjects ==
    ASSUME NEW S, NEW s \in Seq(S), NEW p \in Seq(S), Once(s), Once(p),
           ObjectsOf(s) \cap ObjectsOf(p) = {}
    PROVE  /\ ObjectsOf(s \o Reverse(p)) = ObjectsOf(s) \cup ObjectsOf(p)
           /\ Once(s \o Reverse(p))
<1> DEFINE t == s \o Reverse(p)
<1>1. /\ Len(t) = Len(s) + Len(p) /\ Len(s) \in Nat /\ Len(p) \in Nat
      /\ \A i \in 1 .. Len(s) : t[i] = s[i]
      /\ \A i \in 1 .. Len(p) : t[Len(s) + i] = p[Len(p) - i + 1]
  <2> DEFINE r == Reverse(p)
  <2>1. /\ r \in Seq(S) /\ Len(r) = Len(p) /\ Len(p) \in Nat
        /\ \A i \in 1 .. Len(p) : r[i] = p[Len(p) - i + 1]
    BY ReverseType
  <2>2. t = s \o r
    OBVIOUS
  <2> HIDE DEF r, t
  <2>3. /\ Len(t) = Len(s) + Len(r) /\ Len(s) \in Nat
        /\ \A i \in 1 .. Len(s) + Len(r) :
              t[i] = IF i <= Len(s) THEN s[i] ELSE r[i - Len(s)]
    <3>0. r \in Seq(S)
      BY <2>1
    <3>1. Len(s) \in Nat /\ Len(s \o r) = Len(s) + Len(r)
      BY <3>0
    <3>2. \A i \in 1 .. Len(s) + Len(r) :
             (s \o r)[i] = IF i <= Len(s) THEN s[i] ELSE r[i - Len(s)]
      BY <3>0
    <3> QED
      BY <2>2, <3>1, <3>2, Zenon
  <2>4. ASSUME NEW i \in 1 .. Len(p) PROVE t[Len(s) + i] = p[Len(p) - i + 1]
    <3>1. Len(s) + i \in 1 .. Len(s) + Len(r) /\ ~(Len(s) + i <= Len(s))
      BY <2>1, <2>3
    <3>2. t[Len(s) + i] = r[(Len(s) + i) - Len(s)] /\ (Len(s) + i) - Len(s) = i
      BY <2>1, <2>3, <3>1
    <3> QED
      BY <2>1, <3>2
  <2> QED
    BY <2>1, <2>3, <2>4
<1> HIDE DEF t
<1>2. \A k \in 1 .. Len(t) : \/ k \in 1 .. Len(s) /\ t[k] = s[k]
                             \/ /\ k > Len(s)
                                /\ Len(s) + Len(p) - k + 1 \in 1 .. Len(p)
                                /\ t[k] = p[Len(s) + Len(p) - k + 1]
  <2> SUFFICES ASSUME NEW k \in 1 .. Len(t), k > Len(s)
               PROVE  /\ Len(s) + Len(p) - k + 1 \in 1 .. Len(p)
                      /\ t[k] = p[Len(s) + Len(p) - k + 1]
    BY <1>1
  <2>1. /\ k - Len(s) \in 1 .. Len(p) /\ Len(s) + (k - Len(s)) = k
        /\ Len(p) - (k - Len(s)) + 1 = Len(s) + Len(p) - k + 1
        /\ Len(s) + Len(p) - k + 1 \in 1 .. Len(p)
    BY <1>1
  <2>2. t[Len(s) + (k - Len(s))] = p[Len(p) - (k - Len(s)) + 1]
    BY <1>1, <2>1
  <2> QED
    BY <2>1, <2>2
<1>b. ASSUME NEW k \in 1 .. Len(t), k > Len(s) PROVE t[k].obj \in {p[a].obj : a \in 1 .. Len(p)}
  <2>1. /\ Len(s) + Len(p) - k + 1 \in 1 .. Len(p)
        /\ t[k] = p[Len(s) + Len(p) - k + 1]
    BY <1>1, <1>2, <1>b
  <2> QED
    BY <2>1
<1>3. \A i \in 1 .. Len(p) : \E k \in 1 .. Len(t) : t[k] = p[i]
  <2> SUFFICES ASSUME NEW i \in 1 .. Len(p) PROVE \E k \in 1 .. Len(t) : t[k] = p[i]
    OBVIOUS
  <2>1. Len(p) - i + 1 \in 1 .. Len(p) /\ Len(p) - (Len(p) - i + 1) + 1 = i
    BY <1>1
  <2>2. t[Len(s) + (Len(p) - i + 1)] = p[i]
    BY <1>1, <2>1
  <2>3. Len(s) + (Len(p) - i + 1) \in 1 .. Len(t)
    BY <1>1, <2>1
  <2> QED
    BY <2>2, <2>3
<1>4. ObjectsOf(t) = ObjectsOf(s) \cup ObjectsOf(p)
  <2>1. ObjectsOf(t) \subseteq ObjectsOf(s) \cup ObjectsOf(p)
    BY <1>2 DEF ObjectsOf
  <2>2. ObjectsOf(p) \subseteq ObjectsOf(t)
    BY <1>3 DEF ObjectsOf
  <2>3. ObjectsOf(s) \subseteq ObjectsOf(t)
    BY <1>1 DEF ObjectsOf
  <2> QED
    BY <2>1, <2>2, <2>3
<1>5. Once(t)
  <2> SUFFICES ASSUME NEW i \in 1 .. Len(t), NEW j \in 1 .. Len(t),
                      t[i].obj = t[j].obj, t[i].obj # None
               PROVE  i = j
    BY DEF Once
  <2>1. CASE i \in 1 .. Len(s) /\ j \in 1 .. Len(s)
    BY <1>1, <2>1 DEF Once
  <2>2. CASE i > Len(s) /\ j > Len(s)
    <3> DEFINE a == Len(s) + Len(p) - i + 1
               b == Len(s) + Len(p) - j + 1
    <3>1. a \in 1 .. Len(p) /\ b \in 1 .. Len(p) /\ t[i] = p[a] /\ t[j] = p[b]
      BY <1>1, <1>2, <2>2
    <3>2. a = b
      <4> HIDE DEF a, b
      <4> QED
        BY <3>1 DEF Once
    <3> QED
      BY <1>1, <3>2
  <2>3. CASE i \in 1 .. Len(s) /\ j > Len(s)
    <3>1. t[i].obj \in ObjectsOf(s)
      BY <1>1, <2>3 DEF ObjectsOf
    <3>2. t[j].obj \in ObjectsOf(p)
      BY <1>b, <2>3 DEF ObjectsOf
    <3> QED
      BY <3>1, <3>2
  <2>4. CASE i > Len(s) /\ j \in 1 .. Len(s)
    <3>1. t[j].obj \in ObjectsOf(s)
      BY <1>1, <2>4 DEF ObjectsOf
    <3>2. t[i].obj \in ObjectsOf(p)
      BY <1>b, <2>4 DEF ObjectsOf
    <3> QED
      BY <3>1, <3>2
  <2> QED
    BY <1>1, <2>1, <2>2, <2>3, <2>4
<1> QED
  BY <1>4, <1>5 DEF t

-----------------------------------------------------------------------------
(* The registration queue and the flags of the objects.                    *)

\* Nothing queued, objects only leave the lists: what the loops of a pass do.
LEMMA Shrink ==
    ASSUME QueueReplays, FlagsMatch,
           registration' = registration, bRT' = bRT, FirstPending' = FirstPending,
           ObjectsOf(rt') \subseteq ObjectsOf(rt), HeapObjects' \subseteq HeapObjects
    PROVE  QueueReplays' /\ FlagsMatch'
<1>1. ASSUME NEW o PROVE Pending(o)' = Pending(o)
  BY DEF Pending
<1>2. ASSUME NEW o, NEW i, NEW j PROVE Cancels(o, i, j)' <=> Cancels(o, i, j)
  BY DEF Cancels
<1>3. ASSUME NEW o, NEW b, ListFlag(o, b) PROVE ListFlag(o, b)'
  BY <1>3 DEF ListFlag
<1>4. QueueReplays'
  <2> SUFFICES ASSUME NEW o \in Objects, NEW j \in Pending(o), registration[j].reg
               PROVE  /\ o \in ObjectsOf(rt') \cup HeapObjects'
                            => Cancels(o, FirstPending, j - 1)
                      /\ \A i \in Pending(o) :
                            registration[i].reg /\ i < j => Cancels(o, i + 1, j - 1)
    BY <1>1, <1>2, Zenon DEF QueueReplays
  <2> QED
    BY DEF QueueReplays
<1>5. FlagsMatch'
  <2> SUFFICES ASSUME NEW o \in Objects
               PROVE  /\ Pending(o) = {} => ListFlag(o, bRT[o])'
                      /\ \A i \in Pending(o) :
                           (\A k \in Pending(o) : i <= k) /\ ~registration[i].reg
                              => ListFlag(o, registration[i].rt)'
    BY <1>1, Zenon DEF FlagsMatch
  <2>1. Pending(o) = {} => ListFlag(o, bRT[o])'
    BY <1>3 DEF FlagsMatch
  <2>2. ASSUME NEW i \in Pending(o), \A k \in Pending(o) : i <= k, ~registration[i].reg
        PROVE  ListFlag(o, registration[i].rt)'
    BY <1>3, <2>2 DEF FlagsMatch
  <2> QED
    BY <2>1, <2>2
<1> QED
  BY <1>4, <1>5

\* Lists only lose objects, and the call in progress stays the same.
LEMMA ListsShrink ==
    ASSUME AtMostOneEntry, Once(rt'), Once(items'), processed' = processed,
           InFlight' = InFlight, ObjectsOf(rt') \subseteq ObjectsOf(rt),
           ObjectsOf(items') \subseteq ObjectsOf(items)
    PROVE  AtMostOneEntry' /\ HeapObjects' \subseteq HeapObjects
<1>1. HeapObjects' \subseteq HeapObjects
  BY DEF HeapObjects
<1>2. Once(processed') /\ ObjectsOf(processed') = ObjectsOf(processed)
  BY DEF AtMostOneEntry
<1> QED
  BY <1>1, <1>2 DEF AtMostOneEntry

LEMMA InternalUnregisterLists ==
    ASSUME TypeOK, Once(rt), Once(items), NEW o \in Objects, NEW asRT \in BOOLEAN,
           InternalUnregister(o, asRT)
    PROVE  /\ Once(rt') /\ Once(items')
           /\ ObjectsOf(rt') = IF asRT THEN ObjectsOf(rt) \ {o} ELSE ObjectsOf(rt)
           /\ ObjectsOf(items') = IF asRT THEN ObjectsOf(items) ELSE ObjectsOf(items) \ {o}
<1>1. CASE asRT /\ o \in ObjectsOf(rt)
  <2>1. PICK i \in 1 .. Len(rt) : rt[i].obj = o /\ rt' = RemoveAt(rt, i) /\ items' = items
    BY <1>1 DEF InternalUnregister, EraseRT, WithoutRT, FirstAt
  <2> QED
    BY <1>1, <2>1, RemoveObjects DEF TypeOK
<1>2. CASE ~asRT /\ o \in ObjectsOf(items)
  <2>1. PICK i \in 1 .. Len(items) : /\ items[i].obj = o
                                     /\ items' = [items EXCEPT ![i].obj = None]
                                     /\ rt' = rt
    BY <1>2 DEF InternalUnregister, CancelItem, FirstAt
  <2> QED
    BY <1>2, <2>1, CancelObjects DEF TypeOK
<1>3. CASE ~(asRT /\ o \in ObjectsOf(rt)) /\ ~(~asRT /\ o \in ObjectsOf(items))
  BY <1>3 DEF InternalUnregister
<1> QED
  BY <1>1, <1>2, <1>3

\* What a step of the loops has to show: the rest of the invariant follows.
LEMMA QuietStep ==
    ASSUME IInv, TypeOK', PhaseOK', AtMostOneEntry',
           registration' = registration, bRT' = bRT, FirstPending' = FirstPending,
           ObjectsOf(rt') \subseteq ObjectsOf(rt), HeapObjects' \subseteq HeapObjects
    PROVE  IInv'
BY Shrink DEF IInv

\* The steps that call no queue operation: what owners do besides registering, the
\* clock, and the loops of Update and ProcessStep.
LEMMA QuietOwners ==
    ASSUME IInv, TypeOK'
    PROVE  /\ \A o \in Objects : SetNeeded(o) => IInv'
           /\ \A b, a \in Objects : EnsureOrder(b, a) => IInv'
           /\ \A d \in Deltas : Tick(d) => IInv'
           /\ \A o \in Objects : Unregister(o) /\ AtOnce(o) => IInv'
<1>0. /\ Once(rt) /\ Once(items) /\ AtMostOneEntry /\ PhaseOK
      /\ Len(rt) \in Nat /\ Len(items) \in Nat /\ None \notin Objects
      /\ \A i \in 1 .. Len(rt) : rt[i] \in RTItem
      /\ \A i \in 1 .. Len(items) : items[i] \in Item
  BY ShedulerAssumption DEF IInv, AtMostOneEntry, TypeOK
<1>1. ASSUME NEW o \in Objects, SetNeeded(o) PROVE IInv'
  <2>1. PhaseOK' /\ FirstPending' = FirstPending /\ InFlight' = InFlight
    BY <1>0, <1>1 DEF SetNeeded, PhaseOK, FirstPending, InFlight
  <2> QED
    BY <1>0, <1>1, <2>1, ListsShrink, QuietStep DEF SetNeeded
<1>2. ASSUME NEW b \in Objects, NEW a \in Objects, EnsureOrder(b, a) PROVE IInv'
  <2>1. PICK i \in 1 .. Len(rt) : rt[i].obj = a /\ rt' = Append(RemoveAt(rt, i), rt[i])
    BY <1>2 DEF EnsureOrder, FirstAt
  <2> DEFINE s == RemoveAt(rt, i)
  <2>2. s \in Seq(RTItem) /\ Once(s) /\ ObjectsOf(s) = ObjectsOf(rt) \ {a}
    BY <1>0, <2>1, RemoveObjects, RemoveAtType DEF IInv, TypeOK
  <2>3. rt[i] \in RTItem /\ a \in ObjectsOf(rt)
    BY <1>0, <2>1 DEF ObjectsOf
  <2> HIDE DEF s
  <2>4. Once(rt') /\ ObjectsOf(rt') = ObjectsOf(rt)
    <3>1. /\ ObjectsOf(Append(s, rt[i])) = ObjectsOf(s) \cup ({rt[i].obj} \ {None})
          /\ Once(Append(s, rt[i]))
      BY <2>1, <2>2, <2>3, AppendObjects
    <3>2. rt' = Append(s, rt[i])
      BY <2>1 DEF s
    <3> QED
      BY <1>0, <2>1, <2>2, <2>3, <3>1, <3>2
  <2>5. PhaseOK' /\ FirstPending' = FirstPending /\ InFlight' = InFlight
    BY <1>0, <1>2 DEF EnsureOrder, PhaseOK, FirstPending, InFlight
  <2> QED
    BY <1>0, <1>2, <2>4, <2>5, ListsShrink, QuietStep DEF EnsureOrder
<1>3. ASSUME NEW d \in Deltas, Tick(d) PROVE IInv'
  <2>1. /\ \A e \in RTItem : OlderRT(e, d).obj = e.obj
        /\ \A e \in Item : OlderItem(e, d).obj = e.obj
    BY DEF OlderRT, OlderItem, RTItem, Item
  <2>2. Once(rt') /\ ObjectsOf(rt') = ObjectsOf(rt)
    <3>1. rt' = [i \in 1 .. Len(rt) |-> OlderRT(rt[i], d)]
      BY <1>3 DEF Tick
    <3>2. Len(rt') = Len(rt) /\ \A i \in 1 .. Len(rt) : rt'[i].obj = rt[i].obj
      BY <1>0, <2>1, <3>1
    <3> QED
      BY <1>0, <3>2, SameObjects
  <2>3. Once(items') /\ ObjectsOf(items') = ObjectsOf(items)
    <3>1. items' = [i \in 1 .. Len(items) |-> OlderItem(items[i], d)]
      BY <1>3 DEF Tick
    <3>2. Len(items') = Len(items) /\ \A i \in 1 .. Len(items) : items'[i].obj = items[i].obj
      BY <1>0, <2>1, <3>1
    <3> QED
      BY <1>0, <3>2, SameObjects
  <2>4. PhaseOK' /\ FirstPending' = FirstPending /\ InFlight' = InFlight
    BY <1>0, <1>3 DEF Tick, PhaseOK, FirstPending, InFlight
  <2> QED
    BY <1>0, <1>3, <2>2, <2>3, <2>4, ListsShrink, QuietStep DEF Tick
<1>4. ASSUME NEW o \in Objects, Unregister(o), AtOnce(o) PROVE IInv'
  <2>1. bRT[o] \in BOOLEAN /\ InternalUnregister(o, bRT[o])
    BY <1>4 DEF IInv, TypeOK, Unregister
  <2>2. /\ Once(rt') /\ Once(items') /\ ObjectsOf(rt') \subseteq ObjectsOf(rt)
        /\ ObjectsOf(items') \subseteq ObjectsOf(items)
    BY <1>0, <2>1, InternalUnregisterLists DEF IInv
  <2>3. PhaseOK' /\ FirstPending' = FirstPending /\ InFlight' = InFlight
    BY <1>0, <1>4 DEF Unregister, PhaseOK, FirstPending, InFlight
  <2> QED
    BY <1>0, <1>4, <2>2, <2>3, ListsShrink, QuietStep DEF Unregister
<1> QED
  BY <1>1, <1>2, <1>3, <1>4

LEMMA QuietLoops ==
    ASSUME IInv, TypeOK',
           \/ StartUpdate \/ SkipRT \/ CallRT \/ ReturnRT \/ EndRT \/ FaultItem
           \/ DropItem \/ CallItem \/ ReturnItem \/ EndStep \/ Merge \/ Destroy
    PROVE  IInv'
<1>0. /\ Once(rt) /\ Once(items) /\ AtMostOneEntry /\ PhaseOK
      /\ Len(rt) \in Nat /\ Len(items) \in Nat /\ None \notin Objects
      /\ \A i \in 1 .. Len(rt) : rt[i] \in RTItem
      /\ \A i \in 1 .. Len(items) : items[i] \in Item
  BY ShedulerAssumption DEF IInv, AtMostOneEntry, TypeOK
<1>r. ASSUME NEW i \in 1 .. Len(rt)
      PROVE  Once(RestartRT(i)) /\ ObjectsOf(RestartRT(i)) = ObjectsOf(rt)
  <2>1. \A e \in RTItem : [e EXCEPT !.last = 0].obj = e.obj
    BY DEF RTItem
  <2>2. \A j \in 1 .. Len(rt) : RestartRT(i)[j].obj = rt[j].obj
    BY <1>0, <2>1 DEF RestartRT, IInv, TypeOK
  <2>3. Len(RestartRT(i)) = Len(rt)
    BY DEF RestartRT, IInv, TypeOK
  <2> QED
    BY <1>0, <2>2, <2>3, SameObjects
<1>1. CASE StartUpdate \/ EndRT \/ EndStep \/ Destroy
  <2>1. /\ UNCHANGED <<rt, items, processed, registration, bRT, processing, cur>>
        /\ \/ pc = "idle" /\ pc' \in {"regBefore", "regDestroy"} /\ it' = 1
           \/ pc = "rt" /\ pc' = "step"
           \/ pc = "step" /\ pc' = "merge"
    BY <1>1 DEF StartUpdate, EndRT, EndStep, Destroy
  <2>2. PhaseOK'
    BY <1>0, <2>1 DEF PhaseOK, CallPhases
  <2>3. FirstPending' = FirstPending /\ InFlight' = InFlight
    BY <2>1 DEF FirstPending, InFlight, RegPhases
  <2> QED
    BY <1>0, <2>1, <2>2, <2>3, ListsShrink, QuietStep
<1>2. CASE SkipRT
  <2>1. Once(rt') /\ ObjectsOf(rt') = ObjectsOf(rt)
    BY <1>r, <1>2 DEF SkipRT, IInv, TypeOK
  <2>2. PhaseOK' /\ FirstPending' = FirstPending /\ InFlight' = InFlight
    BY <1>0, <1>2 DEF SkipRT, PhaseOK, FirstPending, InFlight, RegPhases
  <2> QED
    BY <1>0, <1>2, <2>1, <2>2, ListsShrink, QuietStep DEF SkipRT
<1>3. CASE CallRT
  <2>1. rt[it].obj \in Objects
    BY <1>0, <1>3 DEF CallRT, IInv, TypeOK, RTItem
  <2>2. PhaseOK'
    BY <1>0, <1>3, <2>1 DEF CallRT, PhaseOK, CallPhases
  <2>3. FirstPending' = FirstPending /\ InFlight' = InFlight
    BY <1>3 DEF CallRT, FirstPending, InFlight, RegPhases
  <2> QED
    BY <1>0, <1>3, <2>2, <2>3, ListsShrink, QuietStep DEF CallRT
<1>4. CASE ReturnRT
  <2>1. Once(rt') /\ ObjectsOf(rt') = ObjectsOf(rt)
    BY <1>0, <1>r, <1>4 DEF ReturnRT, IInv, TypeOK
  <2>2. PhaseOK'
    BY <1>0, <1>4 DEF ReturnRT, PhaseOK, CallPhases
  <2>3. FirstPending' = FirstPending /\ InFlight' = InFlight
    BY <1>4 DEF ReturnRT, FirstPending, InFlight, RegPhases
  <2> QED
    BY <1>0, <1>4, <2>1, <2>2, <2>3, ListsShrink, QuietStep DEF ReturnRT
<1>5. CASE DropItem
  <2>1. PICK k \in 1 .. Len(items) : items' = RemoveAt(items, k)
    BY <1>5 DEF DropItem, PopUnneeded
  <2>2. Once(items') /\ ObjectsOf(items') \subseteq ObjectsOf(items)
    BY <1>0, <2>1, RemoveObjects DEF IInv, TypeOK
  <2>3. PhaseOK' /\ FirstPending' = FirstPending /\ InFlight' = InFlight
    BY <1>0, <1>5 DEF DropItem, PhaseOK, FirstPending, InFlight, RegPhases
  <2> QED
    BY <1>0, <1>5, <2>2, <2>3, ListsShrink, QuietStep DEF DropItem
<1>6. CASE CallItem
  <2>1. PICK k \in 1 .. Len(items) : /\ ~Unneeded(k)
                                     /\ items' = RemoveAt(items, k)
                                     /\ cur'.obj = items[k].obj
    <3>1. PICK k \in 1 .. Len(items) : /\ ~Unneeded(k)
                                       /\ items' = RemoveAt(items, k)
                                       /\ cur' = Told(items[k])
      BY <1>6 DEF CallItem
    <3>2. items[k] \in Item /\ items[k].obj \in Objects
      BY <1>0, <3>1 DEF IInv, TypeOK, Unneeded
    <3> QED
      BY <3>1, <3>2, ToldIs
  <2> DEFINE o == items[k].obj
  <2>2. o \in Objects /\ o # None /\ o \in ObjectsOf(items)
    BY <1>0, <2>1 DEF Unneeded, ObjectsOf
  <2>3. Once(items') /\ ObjectsOf(items') = ObjectsOf(items) \ {o}
    BY <1>0, <2>1, RemoveObjects DEF IInv, TypeOK
  <2>4. InFlight = {} /\ InFlight' = {o}
    BY <1>6, <2>1 DEF CallItem, InFlight
  <2>5. HeapObjects' = HeapObjects
    BY <1>6, <2>2, <2>3, <2>4 DEF CallItem, HeapObjects
  <2>6. AtMostOneEntry'
    BY <1>0, <1>6, <2>2, <2>3, <2>4, <2>5 DEF CallItem, AtMostOneEntry
  <2>7. PhaseOK'
    BY <1>0, <1>6, <2>1, <2>2 DEF CallItem, PhaseOK, CallPhases
  <2>8. FirstPending' = FirstPending
    BY <1>6 DEF CallItem, FirstPending, RegPhases
  <2> QED
    BY <1>0, <1>6, <2>5, <2>6, <2>7, <2>8, QuietStep DEF CallItem
<1>7. CASE ReturnItem
  <2>0. cur.obj \in Objects /\ cur.obj # None
    BY <1>0, <1>7 DEF ReturnItem, PhaseOK, CallPhases
  <2>1. PICK d \in Intervals :
           processed' = Append(processed, [obj |-> cur.obj, at |-> d, last |-> 0])
    BY <1>7 DEF ReturnItem
  <2>2. [obj |-> cur.obj, at |-> d, last |-> 0] \in Item
    BY <2>0, ShedulerAssumption DEF Item
  <2>3. InFlight = {cur.obj} /\ InFlight' = {}
    BY <1>7 DEF ReturnItem, InFlight
  <2>4. Once(processed) /\ cur.obj \notin ObjectsOf(processed)
    BY <1>0, <2>3 DEF AtMostOneEntry
  <2>5. Once(processed') /\ ObjectsOf(processed') = ObjectsOf(processed) \cup {cur.obj}
    <3>1. processed \in Seq(Item)
      BY DEF IInv, TypeOK
    <3> QED
      BY <2>0, <2>1, <2>2, <2>4, <3>1, AppendObjects
  <2>6. HeapObjects' = HeapObjects
    BY <1>7, <2>3, <2>5 DEF ReturnItem, HeapObjects
  <2>7. AtMostOneEntry'
    BY <1>0, <1>7, <2>3, <2>5, <2>6 DEF ReturnItem, AtMostOneEntry
  <2>8. PhaseOK'
    BY <1>0, <1>7 DEF ReturnItem, PhaseOK, CallPhases
  <2>9. FirstPending' = FirstPending
    BY <1>7 DEF ReturnItem, FirstPending, RegPhases
  <2> QED
    BY <1>0, <1>7, <2>6, <2>7, <2>8, <2>9, QuietStep DEF ReturnItem
<1>8. CASE FaultItem
  <2>1. InFlight' = {} /\ FirstPending' = FirstPending
    BY <1>8 DEF FaultItem, InFlight, FirstPending, RegPhases
  <2>2. HeapObjects' \subseteq HeapObjects
    BY <1>8, <2>1 DEF FaultItem, HeapObjects
  <2>3. AtMostOneEntry'
    BY <1>0, <1>8, <2>1, <2>2 DEF FaultItem, AtMostOneEntry
  <2>4. PhaseOK'
    BY <1>0, <1>8 DEF FaultItem, PhaseOK, CallPhases
  <2> QED
    BY <1>0, <1>8, <2>1, <2>2, <2>3, <2>4, QuietStep DEF FaultItem
<1>9. CASE Merge
  <2>1. Once(items') /\ ObjectsOf(items') = ObjectsOf(items) \cup ObjectsOf(processed)
    BY <1>0, <1>9, MergeObjects DEF Merge, IInv, TypeOK, AtMostOneEntry
  <2>2. Once(processed') /\ ObjectsOf(processed') = {}
    BY <1>9 DEF Merge, Once, ObjectsOf
  <2>3. InFlight = {} /\ InFlight' = {} /\ FirstPending' = FirstPending
    BY <1>9 DEF Merge, InFlight, FirstPending, RegPhases
  <2>4. HeapObjects' = HeapObjects
    BY <2>1, <2>2, <2>3 DEF HeapObjects
  <2>5. AtMostOneEntry'
    BY <1>0, <1>9, <2>1, <2>2, <2>3, <2>4 DEF Merge, AtMostOneEntry
  <2>6. PhaseOK'
    <3>1. pc' = "regAfter" /\ processing' = FALSE /\ processed' = <<>>
      BY <1>9 DEF Merge
    <3> QED
      BY <3>1 DEF PhaseOK, CallPhases
  <2> QED
    BY <1>0, <1>9, <2>3, <2>4, <2>5, <2>6, QuietStep DEF Merge
<1> QED
  BY <1>1, <1>2, <1>3, <1>4, <1>5, <1>6, <1>7, <1>8, <1>9

-----------------------------------------------------------------------------
(* The steps that change the queue.                                        *)

\* A request goes to the end of the queue, which is read from its start then.
LEMMA QueueAppend ==
    ASSUME TypeOK, OwnersTurn, NEW R \in ItemReg, pc' = pc,
           registration' = Append(registration, R)
    PROVE  /\ FirstPending = 1 /\ FirstPending' = 1
           /\ Len(registration) \in Nat /\ Len(registration') = Len(registration) + 1
           /\ registration'[Len(registration) + 1] = R
           /\ \A j \in 1 .. Len(registration) : registration'[j] = registration[j]
           /\ \A x : \A i \in Pending(x)' :
                 i \in Pending(x) \/ (i = Len(registration) + 1 /\ R.obj = x)
           /\ \A x : Pending(x) \subseteq Pending(x)'
           /\ Len(registration) + 1 \in Pending(R.obj)'
           /\ \A x : \A i \in Nat \ {0}, j \in 0 .. Len(registration) :
                 Cancels(x, i, j) => Cancels(x, i, j)'
<1>1. FirstPending = 1 /\ FirstPending' = 1
  BY DEF OwnersTurn, FirstPending, RegPhases
<1>2. /\ Len(registration) \in Nat /\ Len(registration') = Len(registration) + 1
      /\ registration'[Len(registration) + 1] = R
      /\ \A j \in 1 .. Len(registration) : registration'[j] = registration[j]
  BY AppendProperties DEF TypeOK
<1>3. ASSUME NEW x
      PROVE  /\ \A i \in Pending(x)' :
                   i \in Pending(x) \/ (i = Len(registration) + 1 /\ R.obj = x)
             /\ Pending(x) \subseteq Pending(x)'
  BY <1>1, <1>2 DEF Pending
<1>4. Len(registration) + 1 \in Pending(R.obj)'
  BY <1>1, <1>2 DEF Pending
<1>5. ASSUME NEW x, NEW i \in Nat \ {0}, NEW j \in 0 .. Len(registration), Cancels(x, i, j)
      PROVE  Cancels(x, i, j)'
  <2>1. PICK k \in i .. j : ~registration[k].reg /\ registration[k].obj = x
    BY <1>5 DEF Cancels
  <2>2. k \in 1 .. Len(registration)
    BY <1>2, <2>1
  <2> QED
    BY <1>2, <2>1, <2>2 DEF Cancels
<1> QED
  BY <1>1, <1>2, <1>3, <1>4, <1>5

LEMMA RegisterInv ==
    ASSUME IInv, TypeOK', NEW o \in Objects, NEW asRT \in BOOLEAN, Register(o, asRT)
    PROVE  IInv'
<1> DEFINE n == Len(registration)
           R == [reg |-> TRUE, rt |-> asRT, obj |-> o]
<1>0. /\ R \in ItemReg /\ OwnersTurn /\ ~Registered(o) /\ pc' = pc /\ TypeOK
      /\ registration' = Append(registration, R) /\ bRT' = [bRT EXCEPT ![o] = asRT]
      /\ bRT \in [Objects -> BOOLEAN]
      /\ UNCHANGED <<rt, items, processed, processing, cur>>
  BY DEF Register, IInv, TypeOK, ItemReg
<1>r. R.reg /\ R.rt = asRT /\ R.obj = o
  OBVIOUS
<1> HIDE DEF R
<1>q. /\ FirstPending = 1 /\ FirstPending' = 1
      /\ n \in Nat /\ Len(registration') = n + 1
      /\ registration'[n + 1] = R
      /\ \A j \in 1 .. n : registration'[j] = registration[j]
      /\ \A x : \A i \in Pending(x)' : i \in Pending(x) \/ (i = n + 1 /\ R.obj = x)
      /\ \A x : Pending(x) \subseteq Pending(x)'
      /\ n + 1 \in Pending(R.obj)'
      /\ \A x : \A i \in Nat \ {0}, j \in 0 .. n : Cancels(x, i, j) => Cancels(x, i, j)'
  BY <1>0, QueueAppend
<1>p. \A x : \A i \in Pending(x) : i \in 1 .. n /\ registration[i].obj = x
  BY <1>q DEF Pending
<1>l. /\ ObjectsOf(rt') = ObjectsOf(rt) /\ HeapObjects' = HeapObjects
      /\ \A x, b : ListFlag(x, b) => ListFlag(x, b)'
  BY <1>0 DEF HeapObjects, InFlight, ListFlag
<1>1. PhaseOK' /\ AtMostOneEntry'
  BY <1>0, <1>l DEF IInv, PhaseOK, AtMostOneEntry, InFlight
<1>2. ASSUME NEW i \in Pending(o)
      PROVE  \E k \in Pending(o) : k >= i /\ ~registration[k].reg
  <2>1. CASE ~registration[i].reg
    BY <1>p, <2>1
  <2>2. CASE registration[i].reg
    <3>1. PICK k \in Pending(o) : ~registration[k].reg /\ ~(k < i)
      BY <1>0, <1>2, <2>2 DEF Registered
    <3> QED
      BY <1>p, <3>1
  <2> QED
    BY <2>1, <2>2
<1>3. QueueReplays'
  <2> SUFFICES ASSUME NEW x \in Objects, NEW j \in Pending(x)', registration'[j].reg
               PROVE  /\ x \in ObjectsOf(rt) \cup HeapObjects => Cancels(x, 1, j - 1)'
                      /\ \A i \in Pending(x)' :
                            registration'[i].reg /\ i < j => Cancels(x, i + 1, j - 1)'
    BY <1>q, <1>l, Zenon DEF QueueReplays
  <2>1. CASE j \in Pending(x)
    <3>1. j \in 1 .. n /\ j - 1 \in 0 .. n /\ registration[j].reg
      BY <1>p, <1>q, <2>1
    <3>2. ASSUME x \in ObjectsOf(rt) \cup HeapObjects PROVE Cancels(x, 1, j - 1)'
      <4>1. Cancels(x, 1, j - 1)
        BY <1>q, <2>1, <3>1, <3>2 DEF QueueReplays, IInv
      <4> QED
        BY <1>q, <3>1, <4>1
    <3>3. ASSUME NEW i \in Pending(x)', registration'[i].reg, i < j
          PROVE  Cancels(x, i + 1, j - 1)'
      <4>1. i \in Pending(x) /\ i \in 1 .. n /\ registration[i].reg
        BY <1>p, <1>q, <3>1, <3>3
      <4>2. Cancels(x, i + 1, j - 1)
        BY <2>1, <3>1, <3>3, <4>1 DEF QueueReplays, IInv
      <4>3. i + 1 \in Nat \ {0}
        BY <4>1
      <4> QED
        BY <1>q, <3>1, <4>2, <4>3
    <3> QED
      BY <3>2, <3>3
  <2>2. CASE j = n + 1 /\ x = o
    <3>1. j - 1 = n /\ j - 1 \in 0 .. n
      BY <1>q, <2>2
    <3>2. ASSUME o \in ObjectsOf(rt) \cup HeapObjects PROVE Cancels(o, 1, j - 1)'
      <4>1. Pending(o) # {}
        BY <1>0, <3>2 DEF Registered
      <4>2. PICK k \in Pending(o) : ~registration[k].reg
        BY <1>2, <4>1
      <4>3. Cancels(o, 1, j - 1)
        BY <1>p, <3>1, <4>2 DEF Cancels
      <4> QED
        BY <1>q, <3>1, <4>3
    <3>3. ASSUME NEW i \in Pending(o)', registration'[i].reg, i < j
          PROVE  Cancels(o, i + 1, j - 1)'
      <4>1. i \in Pending(o) /\ i \in 1 .. n /\ registration[i].reg
        BY <1>p, <1>q, <2>2, <3>3
      <4>2. PICK k \in Pending(o) : k >= i /\ ~registration[k].reg
        BY <1>2, <4>1
      <4>3. k \in i + 1 .. n
        <5>1. k # i
          BY <4>1, <4>2
        <5> QED
          BY <1>p, <4>1, <4>2, <5>1
      <4>4. Cancels(o, i + 1, j - 1) /\ i + 1 \in Nat \ {0}
        BY <1>p, <3>1, <4>1, <4>2, <4>3 DEF Cancels
      <4> QED
        BY <1>q, <3>1, <4>4
    <3> QED
      BY <2>2, <3>2, <3>3
  <2> QED
    BY <1>q, <1>r, <2>1, <2>2
<1>4. FlagsMatch'
  <2> SUFFICES ASSUME NEW x \in Objects
               PROVE  /\ Pending(x)' = {} => ListFlag(x, bRT[x])'
                      /\ \A i \in Pending(x)' :
                            (\A k \in Pending(x)' : i <= k) /\ ~registration'[i].reg
                               => ListFlag(x, registration[i].rt)'
    BY Zenon DEF FlagsMatch
  <2>1. ASSUME Pending(x)' = {} PROVE ListFlag(x, bRT[x])'
    <3>1. x # o /\ Pending(x) = {}
      BY <1>q, <1>r, <2>1
    <3>2. bRT'[x] = bRT[x]
      BY <1>0, <3>1
    <3>3. ListFlag(x, bRT[x])
      BY <3>1 DEF IInv, FlagsMatch
    <3> QED
      BY <1>l, <3>2, <3>3 DEF ListFlag
  <2>2. ASSUME NEW i \in Pending(x)', \A k \in Pending(x)' : i <= k, ~registration'[i].reg
        PROVE  ListFlag(x, registration[i].rt)'
    <3>1. i # n + 1
      BY <1>q, <1>r, <2>2
    <3>2. i \in Pending(x) /\ i \in 1 .. n
      BY <1>p, <1>q, <2>2, <3>1
    <3>3. registration'[i] = registration[i] /\ \A k \in Pending(x) : i <= k
      BY <1>q, <2>2, <3>2
    <3>4. ListFlag(x, registration[i].rt)
      BY <2>2, <3>2, <3>3 DEF IInv, FlagsMatch
    <3> QED
      BY <1>l, <3>3, <3>4 DEF ListFlag
  <2> QED
    BY <2>1, <2>2
<1> QED
  BY <1>1, <1>3, <1>4 DEF IInv

LEMMA UnregisterInv ==
    ASSUME IInv, TypeOK', NEW o \in Objects, Unregister(o), ~AtOnce(o)
    PROVE  IInv'
<1>b. PICK flag \in BOOLEAN : flag = bRT[o]
  BY DEF IInv, TypeOK
<1> DEFINE n == Len(registration)
           R == [reg |-> FALSE, rt |-> flag, obj |-> o]
<1>0. /\ R \in ItemReg /\ OwnersTurn /\ pc' = pc /\ TypeOK
      /\ registration' = Append(registration, R)
      /\ UNCHANGED <<rt, items, processed, processing, cur, bRT>>
  BY <1>b DEF Unregister, IInv, TypeOK, ItemReg
<1>r. ~R.reg /\ R.rt = bRT[o] /\ R.obj = o
  BY <1>b
<1> HIDE DEF R
<1>q. /\ FirstPending = 1 /\ FirstPending' = 1
      /\ n \in Nat /\ Len(registration') = n + 1
      /\ registration'[n + 1] = R
      /\ \A j \in 1 .. n : registration'[j] = registration[j]
      /\ \A x : \A i \in Pending(x)' : i \in Pending(x) \/ (i = n + 1 /\ R.obj = x)
      /\ \A x : Pending(x) \subseteq Pending(x)'
      /\ n + 1 \in Pending(R.obj)'
      /\ \A x : \A i \in Nat \ {0}, j \in 0 .. n : Cancels(x, i, j) => Cancels(x, i, j)'
  BY <1>0, QueueAppend
<1>p. \A x : \A i \in Pending(x) : i \in 1 .. n /\ registration[i].obj = x
  BY <1>q DEF Pending
<1>l. /\ ObjectsOf(rt') = ObjectsOf(rt) /\ HeapObjects' = HeapObjects
      /\ \A x, b : ListFlag(x, b) => ListFlag(x, b)'
  <2>1. ObjectsOf(rt') = ObjectsOf(rt) /\ HeapObjects' = HeapObjects
    BY <1>0 DEF HeapObjects, InFlight
  <2> QED
    BY <2>1 DEF ListFlag
<1>1. PhaseOK' /\ AtMostOneEntry'
  BY <1>0, <1>l DEF IInv, PhaseOK, AtMostOneEntry, InFlight
<1>2. QueueReplays'
  <2> SUFFICES ASSUME NEW x \in Objects, NEW j \in Pending(x)', registration'[j].reg
               PROVE  /\ x \in ObjectsOf(rt) \cup HeapObjects => Cancels(x, 1, j - 1)'
                      /\ \A i \in Pending(x)' :
                            registration'[i].reg /\ i < j => Cancels(x, i + 1, j - 1)'
    BY <1>q, <1>l, Zenon DEF QueueReplays
  <2>1. j \in Pending(x) /\ j \in 1 .. n /\ j - 1 \in 0 .. n /\ registration[j].reg
    BY <1>p, <1>q, <1>r
  <2>2. ASSUME x \in ObjectsOf(rt) \cup HeapObjects PROVE Cancels(x, 1, j - 1)'
    <3>1. Cancels(x, 1, j - 1)
      BY <1>q, <2>1, <2>2 DEF QueueReplays, IInv
    <3> QED
      BY <1>q, <2>1, <3>1
  <2>3. ASSUME NEW i \in Pending(x)', registration'[i].reg, i < j
        PROVE  Cancels(x, i + 1, j - 1)'
    <3>1. i \in Pending(x) /\ i \in 1 .. n /\ registration[i].reg
      BY <1>p, <1>q, <2>1, <2>3
    <3>2. Cancels(x, i + 1, j - 1)
      BY <2>1, <2>3, <3>1 DEF QueueReplays, IInv
    <3>3. i + 1 \in Nat \ {0}
      BY <3>1
    <3> QED
      BY <1>q, <2>1, <3>2, <3>3
  <2> QED
    BY <2>2, <2>3
<1>3. FlagsMatch'
  <2> SUFFICES ASSUME NEW x \in Objects
               PROVE  /\ Pending(x)' = {} => ListFlag(x, bRT[x])'
                      /\ \A i \in Pending(x)' :
                            (\A k \in Pending(x)' : i <= k) /\ ~registration'[i].reg
                               => ListFlag(x, registration[i].rt)'
    BY Zenon DEF FlagsMatch
  <2>1. ASSUME Pending(x)' = {} PROVE ListFlag(x, bRT[x])'
    <3>1. Pending(x) = {} /\ bRT'[x] = bRT[x]
      BY <1>0, <1>q, <2>1
    <3>2. ListFlag(x, bRT[x])
      BY <3>1 DEF IInv, FlagsMatch
    <3> QED
      BY <1>l, <3>1, <3>2 DEF ListFlag
  <2>2. ASSUME NEW i \in Pending(x)', \A k \in Pending(x)' : i <= k, ~registration'[i].reg
        PROVE  ListFlag(x, registration[i].rt)'
    <3>1. CASE i \in Pending(x)
      <4>1. i \in 1 .. n /\ registration'[i] = registration[i]
        BY <1>p, <1>q, <3>1
      <4>2. \A k \in Pending(x) : i <= k
        BY <1>q, <2>2
      <4>3. ListFlag(x, registration[i].rt)
        BY <2>2, <3>1, <4>1, <4>2 DEF IInv, FlagsMatch
      <4> QED
        BY <1>l, <4>1, <4>3 DEF ListFlag
    <3>2. CASE i = n + 1 /\ x = o
      <4>1. Pending(o) = {}
        <5> SUFFICES ASSUME NEW k \in Pending(o) PROVE FALSE
          OBVIOUS
        <5>1. k \in 1 .. n /\ i <= k
          BY <1>p, <1>q, <2>2, <3>2
        <5> QED
          BY <1>q, <3>2, <5>1
      <4>2. ListFlag(o, bRT[o])
        BY <4>1 DEF IInv, FlagsMatch
      <4>3. registration'[i].rt = bRT[o]
        BY <1>q, <1>r, <3>2
      <4> QED
        BY <1>l, <3>2, <4>2, <4>3 DEF ListFlag
    <3> QED
      BY <1>q, <1>r, <3>1, <3>2
  <2> QED
    BY <2>1, <2>2
<1> QED
  BY <1>1, <1>2, <1>3 DEF IInv

\* A queued "register" that is reached finds its object in no list.
LEMMA FirstIsNew ==
    ASSUME IInv, RegEntry, registration[it].reg
    PROVE  registration[it].obj \notin ObjectsOf(rt) \cup HeapObjects
<1> DEFINE o == registration[it].obj
<1>1. /\ FirstPending = it /\ it \in Nat /\ Len(registration) \in Nat
      /\ it \in 1 .. Len(registration)
  BY DEF IInv, TypeOK, RegEntry, FirstPending
<1>2. o \in Objects /\ it \in Pending(o)
  <2>1. registration[it] \in ItemReg
    BY <1>1 DEF IInv, TypeOK
  <2> QED
    BY <1>1, <2>1 DEF ItemReg, Pending
<1>3. ~Cancels(o, FirstPending, it - 1)
  BY <1>1 DEF Cancels
<1>4. QueueReplays /\ registration[it].reg
  BY DEF IInv
<1> HIDE DEF o
<1>5. o \in ObjectsOf(rt) \cup HeapObjects => Cancels(o, FirstPending, it - 1)
  BY <1>2, <1>4, Zenon DEF QueueReplays
<1> QED
  BY <1>3, <1>5 DEF o

\* What reading one entry of the queue leaves as it was.
LEMMA EntryRead ==
    ASSUME IInv, RegEntry
    PROVE  /\ FirstPending = it /\ FirstPending' = it + 1 /\ it \in Nat \ {0}
           /\ Len(registration) \in Nat /\ it \in 1 .. Len(registration)
           /\ registration[it] \in ItemReg
           /\ InFlight = {} /\ InFlight' = {} /\ processed = <<>> /\ processed' = <<>>
           /\ HeapObjects = ObjectsOf(items) /\ HeapObjects' = ObjectsOf(items')
           /\ PhaseOK'
<1>1. /\ FirstPending = it /\ FirstPending' = it + 1 /\ it \in Nat \ {0}
      /\ Len(registration) \in Nat /\ it \in 1 .. Len(registration)
      /\ registration[it] \in ItemReg
  BY DEF IInv, TypeOK, RegEntry, FirstPending
<1>2. InFlight = {} /\ InFlight' = {} /\ processed = <<>> /\ processed' = <<>>
  BY DEF IInv, PhaseOK, RegEntry, InFlight, RegPhases
<1>3. ObjectsOf(processed) = {} /\ ObjectsOf(processed') = {}
  BY <1>2 DEF ObjectsOf
<1>4. HeapObjects = ObjectsOf(items) /\ HeapObjects' = ObjectsOf(items')
  BY <1>2, <1>3 DEF HeapObjects
<1>5. PhaseOK'
  BY DEF IInv, PhaseOK, RegEntry, RegPhases, CallPhases
<1> QED
  BY <1>1, <1>2, <1>4, <1>5

\* When a queue entry is consumed without changing the rest of the queue, the other
\* objects see no difference.
LEMMA OthersKeep ==
    ASSUME IInv, RegEntry, registration' = registration,
           NEW x \in Objects, x # registration[it].obj
    PROVE  /\ Pending(x)' = Pending(x)
           /\ \A j \in Pending(x) : Cancels(x, it, j - 1) => Cancels(x, it + 1, j - 1)
<1>1. Pending(x)' = Pending(x)
  BY EntryRead DEF Pending
<1>2. ASSUME NEW j \in Pending(x), Cancels(x, it, j - 1) PROVE Cancels(x, it + 1, j - 1)
  <2>1. PICK k \in it .. j - 1 : ~registration[k].reg /\ registration[k].obj = x
    BY <1>2 DEF Cancels
  <2>2. k # it /\ j \in Nat
    BY <2>1, EntryRead DEF Pending
  <2>3. k \in it + 1 .. j - 1
    BY <2>1, <2>2, EntryRead
  <2> QED
    BY <2>1, <2>3 DEF Cancels
<1> QED
  BY <1>1, <1>2

LEMMA RegAddInv == ASSUME IInv, TypeOK', RegAdd PROVE IInv'
<1> DEFINE n == Len(registration)
<1>0. RegEntry /\ registration[it].reg /\ ~HasPair(it) /\ registration' = registration
  BY DEF RegAdd
<1>o. PICK o \in Objects : o = registration[it].obj
  BY <1>0, EntryRead DEF ItemReg
<1>f. FirstPending' = it + 1
  BY <1>0, EntryRead
<1>1. o \in Objects /\ o # None /\ o \notin ObjectsOf(rt) \cup HeapObjects
  BY <1>0, <1>o, FirstIsNew, ShedulerAssumption
<1>2. PICK asRT \in BOOLEAN :
           /\ asRT = registration[it].rt
           /\ IF asRT THEN /\ rt' = Append(rt, [obj |-> o, last |-> 0])
                           /\ items' = items
                      ELSE /\ items' = Append(items, [obj |-> o, at |-> 0, last |-> 0])
                           /\ rt' = rt
           /\ bRT' = [bRT EXCEPT ![o] = asRT]
  BY <1>0, <1>o, EntryRead DEF RegAdd, InternalRegister, ItemReg
<1>3. /\ rt \in Seq(RTItem) /\ items \in Seq(Item) /\ Once(rt) /\ Once(items)
      /\ bRT \in [Objects -> BOOLEAN]
  BY DEF IInv, TypeOK, AtMostOneEntry
<1>4. /\ [obj |-> o, last |-> 0] \in RTItem
      /\ [obj |-> o, at |-> 0, last |-> 0] \in Item
  BY <1>1 DEF RTItem, Item
<1>5. /\ Once(rt') /\ Once(items')
      /\ ObjectsOf(rt') = IF asRT THEN ObjectsOf(rt) \cup {o} ELSE ObjectsOf(rt)
      /\ ObjectsOf(items') = IF asRT THEN ObjectsOf(items) ELSE ObjectsOf(items) \cup {o}
  <2>0. HeapObjects = ObjectsOf(items)
    BY <1>0, EntryRead
  <2>1. CASE asRT
    <3> DEFINE e == [obj |-> o, last |-> 0]
    <3>1. e \in RTItem /\ e.obj = o /\ rt' = Append(rt, e) /\ items' = items
      BY <1>2, <1>4, <2>1
    <3> HIDE DEF e
    <3>2. ObjectsOf(rt') = ObjectsOf(rt) \cup ({o} \ {None}) /\ Once(rt')
      BY <1>1, <1>3, <3>1, AppendObjects
    <3> QED
      BY <1>1, <1>3, <2>1, <3>1, <3>2
  <2>2. CASE ~asRT
    <3> DEFINE e == [obj |-> o, at |-> 0, last |-> 0]
    <3>1. e \in Item /\ e.obj = o /\ items' = Append(items, e) /\ rt' = rt
      BY <1>2, <1>4, <2>2
    <3> HIDE DEF e
    <3>2. ObjectsOf(items') = ObjectsOf(items) \cup ({o} \ {None}) /\ Once(items')
      BY <1>1, <1>3, <2>0, <3>1, AppendObjects
    <3> QED
      BY <1>1, <1>3, <2>2, <3>1, <3>2
  <2> QED
    BY <2>1, <2>2
<1>6. AtMostOneEntry'
  <2>1. Once(processed') /\ ObjectsOf(processed') = {}
    BY <1>0, EntryRead DEF Once, ObjectsOf
  <2> QED
    BY <1>0, <1>1, <1>5, <2>1, EntryRead DEF IInv, AtMostOneEntry
<1>7. Pending(o)' = {}
  <2> SUFFICES ASSUME NEW j \in it + 1 .. n, registration[j].obj = o PROVE FALSE
    BY <1>0, <1>f DEF Pending
  <2>0. j \in 1 .. n /\ j \in Pending(o) /\ it \in Pending(o) /\ it < j
    BY <1>0, <1>o, EntryRead DEF Pending
  <2>1. registration[j].reg
    BY <1>0, <1>o, EntryRead DEF HasPair, Pairs
  <2>2. Cancels(o, it + 1, j - 1)
    BY <1>0, <1>1, <2>0, <2>1 DEF IInv, QueueReplays
  <2>3. PICK k \in it + 1 .. j - 1 : ~registration[k].reg /\ registration[k].obj = o
    BY <2>2 DEF Cancels
  <2>4. k \in it + 1 .. n
    BY <1>0, <2>0, <2>3, EntryRead
  <2> QED
    BY <1>0, <1>o, <2>3, <2>4 DEF HasPair, Pairs
<1>8. QueueReplays'
  <2> SUFFICES ASSUME NEW x \in Objects, NEW j \in Pending(x)', registration[j].reg
               PROVE  /\ x \in ObjectsOf(rt') \cup HeapObjects' => Cancels(x, it + 1, j - 1)
                      /\ \A i \in Pending(x)' :
                            registration[i].reg /\ i < j => Cancels(x, i + 1, j - 1)
    BY <1>0, <1>f DEF QueueReplays, Cancels
  <2>1. x # o
    BY <1>7
  <2>2. Pending(x)' = Pending(x) /\ j \in Pending(x)
    BY <1>0, <2>1, <1>o, OthersKeep
  <2>3. ASSUME x \in ObjectsOf(rt') \cup HeapObjects' PROVE Cancels(x, it + 1, j - 1)
    <3>1. x \in ObjectsOf(rt) \cup HeapObjects
      BY <1>0, <1>5, <2>1, <2>3, EntryRead
    <3>2. Cancels(x, it, j - 1)
      BY <1>0, <2>2, <3>1, EntryRead DEF IInv, QueueReplays
    <3> QED
      BY <1>0, <2>1, <2>2, <3>2, <1>o, OthersKeep
  <2> QED
    BY <2>2, <2>3 DEF IInv, QueueReplays
<1>9. FlagsMatch'
  <2> SUFFICES ASSUME NEW x \in Objects
               PROVE  /\ Pending(x)' = {} => ListFlag(x, bRT[x])'
                      /\ \A i \in Pending(x)' :
                            (\A k \in Pending(x)' : i <= k) /\ ~registration'[i].reg
                               => ListFlag(x, registration[i].rt)'
    BY Zenon DEF FlagsMatch
  <2>1. CASE x = o
    <3>1. bRT'[o] = asRT
      BY <1>1, <1>2, <1>3
    <3>2. o \in ObjectsOf(rt') => asRT
      BY <1>1, <1>5
    <3>3. o \in HeapObjects' => ~asRT
      <4>1. HeapObjects = ObjectsOf(items) /\ HeapObjects' = ObjectsOf(items')
        BY <1>0, EntryRead
      <4> QED
        BY <1>1, <1>5, <4>1
    <3>4. ListFlag(o, bRT[o])'
      BY <3>1, <3>2, <3>3 DEF ListFlag
    <3> QED
      BY <1>7, <2>1, <3>4
  <2>2. CASE x # o
    <3>1. Pending(x)' = Pending(x) /\ bRT'[x] = bRT[x] /\ registration' = registration
      BY <1>0, <1>1, <1>2, <1>3, <2>2, <1>o, OthersKeep
    <3>2. \A b : ListFlag(x, b) => ListFlag(x, b)'
      BY <1>0, <1>5, <2>2, EntryRead DEF ListFlag
    <3>3. Pending(x) = {} => ListFlag(x, bRT[x])
      BY DEF IInv, FlagsMatch
    <3>4. \A i \in Pending(x) : (\A k \in Pending(x) : i <= k) /\ ~registration[i].reg
                                   => ListFlag(x, registration[i].rt)
      BY DEF IInv, FlagsMatch
    <3> QED
      BY <3>1, <3>2, <3>3, <3>4 DEF ListFlag
  <2> QED
    BY <2>1, <2>2
<1> QED
  BY <1>0, <1>6, <1>8, <1>9, EntryRead DEF IInv

LEMMA RegRemoveInv == ASSUME IInv, TypeOK', RegRemove PROVE IInv'
<1>0. RegEntry /\ ~registration[it].reg /\ registration' = registration /\ bRT' = bRT
  BY DEF RegRemove
<1>o. PICK o \in Objects, asRT \in BOOLEAN :
           o = registration[it].obj /\ asRT = registration[it].rt
  BY <1>0, EntryRead DEF ItemReg
<1>f. FirstPending' = it + 1
  BY <1>0, EntryRead
<1>1. InternalUnregister(o, asRT)
  BY <1>o DEF RegRemove, QueuedRT
<1>2. ListFlag(o, asRT)
  <2>1. it \in Pending(o) /\ \A k \in Pending(o) : it <= k
    BY <1>0, <1>o, EntryRead DEF Pending
  <2> QED
    BY <1>0, <1>o, <2>1 DEF IInv, FlagsMatch
<1>3. /\ Once(rt') /\ Once(items')
      /\ ObjectsOf(rt') = IF asRT THEN ObjectsOf(rt) \ {o} ELSE ObjectsOf(rt)
      /\ ObjectsOf(items') = IF asRT THEN ObjectsOf(items) ELSE ObjectsOf(items) \ {o}
  BY <1>1, InternalUnregisterLists DEF IInv, AtMostOneEntry
<1>4. /\ AtMostOneEntry'
      /\ ObjectsOf(rt') \subseteq ObjectsOf(rt) /\ HeapObjects' \subseteq HeapObjects
  BY <1>0, <1>3, EntryRead, ListsShrink DEF IInv
<1>5. o \notin ObjectsOf(rt') \cup HeapObjects'
  BY <1>0, <1>1, <1>2, <1>3, EntryRead DEF ListFlag
<1>6. QueueReplays'
  <2> SUFFICES ASSUME NEW x \in Objects, NEW j \in Pending(x)', registration[j].reg
               PROVE  /\ x \in ObjectsOf(rt') \cup HeapObjects' => Cancels(x, it + 1, j - 1)
                      /\ \A i \in Pending(x)' :
                            registration[i].reg /\ i < j => Cancels(x, i + 1, j - 1)
    BY <1>0, <1>f DEF QueueReplays, Cancels
  <2>1. Pending(x)' \subseteq Pending(x)
    BY <1>0, EntryRead DEF Pending
  <2>2. ASSUME x \in ObjectsOf(rt') \cup HeapObjects' PROVE Cancels(x, it + 1, j - 1)
    <3>1. x # o /\ x \in ObjectsOf(rt) \cup HeapObjects
      BY <1>4, <1>5, <2>2
    <3>2. Cancels(x, it, j - 1)
      BY <1>0, <2>1, <3>1, EntryRead DEF IInv, QueueReplays
    <3> QED
      BY <1>0, <2>1, <3>1, <3>2, <1>o, OthersKeep
  <2> QED
    BY <2>1, <2>2 DEF IInv, QueueReplays
<1>7. FlagsMatch'
  <2> SUFFICES ASSUME NEW x \in Objects
               PROVE  /\ Pending(x)' = {} => ListFlag(x, bRT[x])'
                      /\ \A i \in Pending(x)' :
                            (\A k \in Pending(x)' : i <= k) /\ ~registration'[i].reg
                               => ListFlag(x, registration[i].rt)'
    BY Zenon DEF FlagsMatch
  <2>1. CASE x = o
    BY <1>5, <2>1 DEF ListFlag
  <2>2. CASE x # o
    <3>1. Pending(x)' = Pending(x) /\ bRT'[x] = bRT[x] /\ registration' = registration
      BY <1>0, <2>2, <1>o, OthersKeep
    <3>2. \A b : ListFlag(x, b) => ListFlag(x, b)'
      BY <1>4 DEF ListFlag
    <3>3. Pending(x) = {} => ListFlag(x, bRT[x])
      BY DEF IInv, FlagsMatch
    <3>4. \A i \in Pending(x) : (\A k \in Pending(x) : i <= k) /\ ~registration[i].reg
                                   => ListFlag(x, registration[i].rt)
      BY DEF IInv, FlagsMatch
    <3> QED
      BY <3>1, <3>2, <3>3, <3>4 DEF ListFlag
  <2> QED
    BY <2>1, <2>2
<1> QED
  BY <1>0, <1>4, <1>6, <1>7, EntryRead DEF IInv

\* Skipping a registration at it takes the removal at p out of the queue: where the
\* requests behind it come from, and where they go.
Old(p, j) == IF j < p THEN j ELSE j + 1
New(p, j) == IF j < p THEN j ELSE j - 1

SkipsPair(n, t, o, p) ==
    /\ n \in Nat /\ t \in Nat \ {0} /\ o \in Objects /\ p \in t + 1 .. n
    /\ n = Len(registration) /\ t = it /\ t \in 1 .. n
    /\ FirstPending = t /\ FirstPending' = t + 1
    /\ o = registration[t].obj
    /\ p \in 1 .. n /\ ~registration[p].reg /\ registration[p].obj = o
    /\ \A q \in t + 1 .. p - 1 : ~(~registration[q].reg /\ registration[q].obj = o)
    /\ Len(registration') = n - 1
    /\ \A j \in 1 .. n - 1 :
          registration'[j] = IF j < p THEN registration[j] ELSE registration[j + 1]
    /\ \A x : \A j \in Pending(x)' :
          /\ Old(p, j) \in Pending(x) /\ Old(p, j) # p /\ Old(p, j) > t /\ New(p, Old(p, j)) = j
          /\ registration'[j] = registration[Old(p, j)] /\ j \in Nat
    /\ \A x : \A j \in Pending(x) : j # t /\ j # p =>
          New(p, j) \in Pending(x)' /\ j \in Nat /\ Old(p, New(p, j)) = j

LEMMA SkipPair ==
    ASSUME IInv, RegSkipPair
    PROVE  \E n, t, o, p : SkipsPair(n, t, o, p)
<1>0. RegEntry /\ registration[it].reg
  BY DEF RegSkipPair
<1>n. PICK n \in Nat, t \in Nat \ {0} :
           /\ n = Len(registration) /\ t = it /\ t \in 1 .. n
           /\ FirstPending = t /\ FirstPending' = t + 1
  BY <1>0, EntryRead
<1>o. PICK o \in Objects : o = registration[t].obj
  BY <1>0, <1>n, EntryRead DEF ItemReg
<1>p. PICK p \in t + 1 .. n : FirstPair(t, p) /\ registration' = RemoveAt(registration, p)
  BY <1>n DEF RegSkipPair
<1>1. /\ p \in 1 .. n /\ ~registration[p].reg /\ registration[p].obj = o
      /\ \A q \in t + 1 .. p - 1 : ~(~registration[q].reg /\ registration[q].obj = o)
  BY <1>n, <1>o, <1>p DEF FirstPair, Pairs
<1>2. /\ Len(registration') = n - 1
      /\ \A j \in 1 .. n - 1 :
            registration'[j] = IF j < p THEN registration[j] ELSE registration[j + 1]
  <2>1. registration \in Seq(ItemReg) /\ p \in 1 .. Len(registration)
    BY <1>n, <1>1 DEF IInv, TypeOK
  <2>2. /\ Len(RemoveAt(registration, p)) = Len(registration) - 1
        /\ \A j \in 1 .. Len(registration) - 1 : RemoveAt(registration, p)[j] =
              IF j < p THEN registration[j] ELSE registration[j + 1]
    BY <2>1, RemoveAtType, Zenon
  <2> QED
    BY <1>n, <1>p, <2>2, Zenon
<1>3. ASSUME NEW x, NEW j \in Pending(x)'
      PROVE  /\ Old(p, j) \in Pending(x) /\ Old(p, j) # p /\ Old(p, j) > t /\ New(p, Old(p, j)) = j
             /\ registration'[j] = registration[Old(p, j)] /\ j \in Nat
  <2>1. j \in t + 1 .. n - 1 /\ j \in 1 .. n - 1 /\ registration'[j].obj = x
    BY <1>n, <1>2, <1>3 DEF Pending
  <2>2. registration'[j] = registration[Old(p, j)]
    BY <1>2, <2>1 DEF Old
  <2>3. Old(p, j) \in t + 1 .. n /\ Old(p, j) # p /\ Old(p, j) > t /\ New(p, Old(p, j)) = j
    BY <1>n, <1>1, <2>1 DEF Old, New
  <2>4. Old(p, j) \in Pending(x)
    BY <1>n, <2>1, <2>2, <2>3 DEF Pending
  <2> QED
    BY <2>1, <2>2, <2>3, <2>4
<1>4. ASSUME NEW x, NEW j \in Pending(x), j # t, j # p
      PROVE  New(p, j) \in Pending(x)' /\ j \in Nat /\ Old(p, New(p, j)) = j
  <2>1. j \in t .. n /\ j \in Nat /\ registration[j].obj = x
    BY <1>n, <1>4 DEF Pending
  <2>2. New(p, j) \in t + 1 .. n - 1 /\ New(p, j) \in 1 .. n - 1 /\ Old(p, New(p, j)) = j
    BY <1>n, <1>1, <1>4, <2>1 DEF Old, New
  <2>3. registration'[New(p, j)] = registration[j]
    BY <1>n, <1>1, <1>2, <1>4, <2>1 DEF New
  <2>4. New(p, j) \in Pending(x)'
    BY <1>n, <1>2, <2>1, <2>2, <2>3 DEF Pending
  <2> QED
    BY <2>1, <2>2, <2>4
<1>5. SkipsPair(n, t, o, p)
  BY <1>n, <1>o, <1>1, <1>2, <1>3, <1>4 DEF SkipsPair
<1> QED
  BY <1>5

LEMMA RegSkipPairInv == ASSUME IInv, TypeOK', RegSkipPair PROVE IInv'
<1>0. RegEntry /\ registration[it].reg /\ UNCHANGED <<rt, items, bRT>>
  BY DEF RegSkipPair
<1>p. PICK n, t, o, p : SkipsPair(n, t, o, p)
  BY SkipPair
<1>n. /\ n \in Nat /\ t \in Nat \ {0} /\ o \in Objects /\ p \in t + 1 .. n
      /\ n = Len(registration) /\ t = it /\ t \in 1 .. n
      /\ FirstPending = t /\ FirstPending' = t + 1
  BY <1>p DEF SkipsPair
<1>o. o = registration[t].obj
  BY <1>p DEF SkipsPair
<1>1. /\ p \in 1 .. n /\ ~registration[p].reg /\ registration[p].obj = o
      /\ \A q \in t + 1 .. p - 1 : ~(~registration[q].reg /\ registration[q].obj = o)
  BY <1>p DEF SkipsPair
<1>2. /\ Len(registration') = n - 1
      /\ \A j \in 1 .. n - 1 :
            registration'[j] = IF j < p THEN registration[j] ELSE registration[j + 1]
  BY <1>p DEF SkipsPair
<1>3. ASSUME NEW x, NEW j \in Pending(x)'
      PROVE  /\ Old(p, j) \in Pending(x) /\ Old(p, j) # p /\ Old(p, j) > t /\ New(p, Old(p, j)) = j
             /\ registration'[j] = registration[Old(p, j)] /\ j \in Nat
  BY <1>p DEF SkipsPair
<1>4. ASSUME NEW x, NEW j \in Pending(x), j # t, j # p
      PROVE  New(p, j) \in Pending(x)' /\ j \in Nat /\ Old(p, New(p, j)) = j
  BY <1>p, <1>4 DEF SkipsPair
<1>6. o \notin ObjectsOf(rt) \cup HeapObjects
  BY <1>0, <1>n, <1>o, FirstIsNew
<1>l. ObjectsOf(rt') = ObjectsOf(rt) /\ HeapObjects' = HeapObjects
  BY <1>0, EntryRead
<1>7. AtMostOneEntry' /\ PhaseOK'
  BY <1>0, <1>l, EntryRead, ListsShrink DEF IInv, AtMostOneEntry
<1>8. QueueReplays'
  <2> SUFFICES ASSUME NEW x \in Objects, NEW j \in Pending(x)', registration'[j].reg
               PROVE  /\ x \in ObjectsOf(rt) \cup HeapObjects => Cancels(x, t + 1, j - 1)'
                      /\ \A i \in Pending(x)' :
                            registration'[i].reg /\ i < j => Cancels(x, i + 1, j - 1)'
    BY <1>n, <1>l DEF QueueReplays, Cancels
  <2> DEFINE b == Old(p, j)
  <2>0. /\ b \in Pending(x) /\ b # p /\ b \in t + 1 .. n /\ registration[b].reg
        /\ New(p, b) = j
    BY <1>n, <1>3 DEF Pending
  <2>1. ASSUME x \in ObjectsOf(rt) \cup HeapObjects PROVE Cancels(x, t + 1, j - 1)'
    <3>1. Cancels(x, t, b - 1)
      BY <1>n, <2>0, <2>1 DEF IInv, QueueReplays
    <3>2. PICK k \in t .. b - 1 : ~registration[k].reg /\ registration[k].obj = x
      BY <3>1 DEF Cancels
    <3>3. k # t /\ k # p /\ x # o
      BY <1>0, <1>n, <1>1, <1>6, <2>1, <3>2
    <3>4. \E m \in t + 1 .. j - 1 : ~registration'[m].reg /\ registration'[m].obj = x
      <4>1. New(p, k) \in t + 1 .. j - 1 /\ New(p, k) \in 1 .. n - 1
        BY <1>n, <1>1, <2>0, <3>2, <3>3 DEF New
      <4>2. registration'[New(p, k)] = registration[k]
        <5>1. k \in Int /\ p \in Int
          BY <1>n
        <5>2. IF New(p, k) < p THEN New(p, k) = k ELSE New(p, k) + 1 = k
          BY <3>3, <5>1 DEF New
        <5> QED
          BY <1>2, <4>1, <5>2
      <4> QED
        BY <3>2, <4>1, <4>2
    <3> QED
      BY <3>4 DEF Cancels
  <2>2. ASSUME NEW i \in Pending(x)', registration'[i].reg, i < j
        PROVE  Cancels(x, i + 1, j - 1)'
    <3> DEFINE a == Old(p, i)
    <3>0. /\ a \in Pending(x) /\ a # p /\ a \in t + 1 .. n /\ registration[a].reg
          /\ New(p, a) = i
      BY <1>n, <1>3, <2>2 DEF Pending
    <3>1. a < b
      BY <1>n, <1>1, <1>3, <2>2 DEF Old
    <3>2. Cancels(x, a + 1, b - 1)
      BY <2>0, <3>0, <3>1 DEF IInv, QueueReplays
    <3>3. PICK k \in a + 1 .. b - 1 : ~registration[k].reg /\ registration[k].obj = x
      BY <3>2 DEF Cancels
    <3>4. k # p
      <4> SUFFICES ASSUME k = p PROVE FALSE
        OBVIOUS
      <4>1. x = o /\ t \in Pending(o) /\ registration[t].reg /\ t < a
        BY <1>0, <1>n, <1>o, <1>1, <3>0, <3>3 DEF Pending
      <4>2. Cancels(o, t + 1, a - 1)
        BY <3>0, <4>1 DEF IInv, QueueReplays
      <4>3. PICK q \in t + 1 .. a - 1 : ~registration[q].reg /\ registration[q].obj = o
        BY <4>2 DEF Cancels
      <4> QED
        BY <1>n, <1>1, <3>0, <3>3, <4>3
    <3>5. New(p, k) \in i + 1 .. j - 1 /\ New(p, k) \in 1 .. n - 1
      BY <1>n, <1>1, <2>0, <3>0, <3>3, <3>4 DEF New
    <3>6. registration'[New(p, k)] = registration[k]
      BY <1>n, <1>1, <1>2, <2>0, <3>0, <3>3, <3>4, <3>5 DEF New
    <3> QED
      BY <3>3, <3>5, <3>6 DEF Cancels
  <2> QED
    BY <2>1, <2>2
<1>9. FlagsMatch'
  <2> SUFFICES ASSUME NEW x \in Objects
               PROVE  /\ Pending(x)' = {} => ListFlag(x, bRT[x])'
                      /\ \A i \in Pending(x)' :
                            (\A k \in Pending(x)' : i <= k) /\ ~registration'[i].reg
                               => ListFlag(x, registration[i].rt)'
    BY Zenon DEF FlagsMatch
  <2>1. CASE x = o
    BY <1>6, <1>l, <2>1 DEF ListFlag
  <2>2. CASE x # o
    <3>0. \A k \in Pending(x) : k # t /\ k # p
      BY <1>n, <1>o, <1>1, <2>2 DEF Pending
    <3>1. ASSUME Pending(x)' = {} PROVE ListFlag(x, bRT[x])'
      <4>1. Pending(x) = {}
        BY <1>4, <3>0, <3>1
      <4>2. ListFlag(x, bRT[x])
        BY <4>1 DEF IInv, FlagsMatch
      <4> QED
        BY <1>0, <1>l, <4>2 DEF ListFlag
    <3>2. ASSUME NEW i \in Pending(x)', \A k \in Pending(x)' : i <= k, ~registration'[i].reg
          PROVE  ListFlag(x, registration[i].rt)'
      <4> DEFINE a == Old(p, i)
      <4>1. a \in Pending(x) /\ registration'[i] = registration[a]
        BY <1>3
      <4>2. \A k \in Pending(x) : a <= k
        <5> SUFFICES ASSUME NEW k \in Pending(x) PROVE a <= k
          OBVIOUS
        <5>1. i <= New(p, k) /\ k \in Nat /\ i \in Nat /\ k # p /\ p \in Nat
          BY <1>3, <1>4, <1>1, <3>0, <3>2
        <5> QED
          BY <5>1 DEF Old, New
      <4>3. ListFlag(x, registration[a].rt)
        BY <3>2, <4>1, <4>2 DEF IInv, FlagsMatch
      <4> QED
        BY <1>l, <4>1, <4>3 DEF ListFlag
    <3> QED
      BY <3>1, <3>2
  <2> QED
    BY <2>1, <2>2
<1> QED
  BY <1>7, <1>8, <1>9 DEF IInv

LEMMA RegDoneInv == ASSUME IInv, TypeOK', RegDone PROVE IInv'
<1>1. /\ pc \in RegPhases /\ it > Len(registration) /\ registration' = <<>>
      /\ UNCHANGED <<processed, bRT, cur>>
      /\ \/ pc' = "rt" /\ processing' = TRUE /\ UNCHANGED <<rt, items>>
         \/ pc' = "idle" /\ pc = "regAfter" /\ UNCHANGED <<processing, rt, items>>
         \/ /\ pc' = "off" /\ pc = "regDestroy" /\ rt' = <<>> /\ items' = <<>>
            /\ processing' = processing
  BY DEF RegDone, RegPhases
<1>2. InFlight = {} /\ InFlight' = {} /\ processed = <<>>
  BY <1>1 DEF InFlight, RegPhases, IInv, PhaseOK
<1>3. PhaseOK'
  BY <1>1, <1>2 DEF IInv, PhaseOK, RegPhases, CallPhases
<1>4. /\ Once(rt') /\ Once(items')
      /\ ObjectsOf(rt') \subseteq ObjectsOf(rt) /\ ObjectsOf(items') \subseteq ObjectsOf(items)
  BY <1>1 DEF IInv, AtMostOneEntry, Once, ObjectsOf
<1>5. AtMostOneEntry' /\ HeapObjects' \subseteq HeapObjects
  BY <1>1, <1>2, <1>4, ListsShrink DEF IInv
<1>6. \A x : Pending(x) = {} /\ Pending(x)' = {}
  <2>1. FirstPending = it /\ FirstPending' = 1
    BY <1>1 DEF FirstPending, RegPhases
  <2>2. it \in Nat /\ Len(registration) \in Nat
    BY DEF IInv, TypeOK
  <2> QED
    BY <1>1, <2>1, <2>2 DEF Pending
<1>7. QueueReplays'
  BY <1>6 DEF QueueReplays
<1>8. FlagsMatch'
  <2>1. \A x \in Objects : ListFlag(x, bRT[x])
    BY <1>6 DEF IInv, FlagsMatch
  <2>2. \A x \in Objects : ListFlag(x, bRT[x])'
    BY <1>1, <1>4, <1>5, <2>1 DEF ListFlag
  <2> QED
    BY <1>6, <2>2 DEF FlagsMatch
<1> QED
  BY <1>3, <1>5, <1>7, <1>8 DEF IInv

-----------------------------------------------------------------------------
(* One entry per object.                                                   *)

LEMMA IInvInit == Init => IInv
<1> SUFFICES ASSUME Init PROVE IInv
  OBVIOUS
<1>1. PhaseOK
  BY DEF Init, PhaseOK, CallPhases
<1>2. ObjectsOf(rt) = {} /\ ObjectsOf(items) = {} /\ ObjectsOf(processed) = {}
  BY DEF Init, ObjectsOf
<1>3. InFlight = {} /\ HeapObjects = {}
  BY <1>2 DEF Init, InFlight, HeapObjects
<1>4. AtMostOneEntry
  BY <1>2, <1>3 DEF Init, AtMostOneEntry, Once
<1>5. \A x : Pending(x) = {}
  BY DEF Init, Pending, FirstPending, RegPhases
<1>6. QueueReplays /\ FlagsMatch
  BY <1>2, <1>3, <1>5 DEF QueueReplays, FlagsMatch, ListFlag
<1> QED
  BY <1>1, <1>4, <1>6, TypeInit DEF IInv

LEMMA IInvStep == IInv /\ [Next]_shedVars => IInv'
<1> SUFFICES ASSUME IInv, [Next]_shedVars PROVE IInv'
  OBVIOUS
<1>t. TypeOK'
  BY TypeStep DEF IInv
<1>1. CASE UNCHANGED shedVars
  <2>1. InFlight' = InFlight /\ FirstPending' = FirstPending
    BY <1>1 DEF shedVars, InFlight, FirstPending
  <2>2. PhaseOK'
    BY <1>1 DEF shedVars, IInv, PhaseOK
  <2> QED
    BY <1>1, <1>t, <2>1, <2>2, ListsShrink, QuietStep DEF shedVars, IInv, AtMostOneEntry
<1>2. CASE Owners
  <2>1. PICK o \in Objects : \/ \E asRT \in BOOLEAN : Register(o, asRT)
                             \/ Unregister(o)
                             \/ SetNeeded(o)
    BY <1>2 DEF Owners
  <2> QED
    BY <1>t, <2>1, RegisterInv, UnregisterInv, QuietOwners
<1>3. CASE Reorder
  BY <1>3, <1>t, QuietOwners DEF Reorder
<1>4. CASE Pass
  BY <1>4, <1>t, RegSkipPairInv, RegAddInv, RegRemoveInv, RegDoneInv, QuietLoops DEF Pass
<1>5. CASE Frame
  BY <1>5, <1>t, QuietOwners, QuietLoops DEF Frame
<1>6. CASE Destroy
  BY <1>6, <1>t, QuietLoops
<1>7. CASE Terminated
  BY <1>1, <1>7 DEF Terminated
<1> QED
  BY <1>1, <1>2, <1>3, <1>4, <1>5, <1>6, <1>7 DEF Next

\* However owners and handlers interleave Register and Unregister with the loops of
\* Update, no object has two entries in the scheduler, for any number of objects
\* and any length of the queue: the VERIFY of Registered, xrSheduler.cpp:228.
THEOREM OneEntry == Spec => []AtMostOneEntry
<1>1. Spec => []IInv
  BY IInvInit, IInvStep, PTL DEF Spec
<1>2. IInv => AtMostOneEntry
  BY DEF IInv
<1> QED
  BY <1>1, <1>2, PTL

-----------------------------------------------------------------------------
(* What the queue may hold during a pass.                                  *)

\* The loops over ItemsRT write times and keep the objects.
LEMMA LoopLists ==
    ASSUME IInv, SkipRT \/ ReturnRT
    PROVE  /\ Len(rt) \in Nat /\ Len(rt') = Len(rt)
           /\ \A j \in 1 .. Len(rt) : rt'[j].obj = rt[j].obj
           /\ ObjectsOf(rt') = ObjectsOf(rt)
<1>0. Len(rt) \in Nat /\ \A i \in 1 .. Len(rt) : rt[i] \in RTItem
  BY DEF IInv, TypeOK
<1>1. ASSUME NEW i \in 1 .. Len(rt), rt' = RestartRT(i)
      PROVE  Len(rt') = Len(rt) /\ \A j \in 1 .. Len(rt) : rt'[j].obj = rt[j].obj
  <2>1. \A e \in RTItem : [e EXCEPT !.last = 0].obj = e.obj
    BY DEF RTItem
  <2> QED
    BY <1>0, <1>1, <2>1 DEF RestartRT, IInv, TypeOK
<1>2. rt' = rt \/ \E i \in 1 .. Len(rt) : rt' = RestartRT(i)
  BY <1>0 DEF SkipRT, ReturnRT, IInv, TypeOK
<1>3. Len(rt') = Len(rt) /\ \A j \in 1 .. Len(rt) : rt'[j].obj = rt[j].obj
  BY <1>1, <1>2
<1> QED
  BY <1>0, <1>3, SameObjects

LEMMA QueueQuiet ==
    ASSUME QueuedGone, processing' = TRUE, processing = TRUE, registration' = registration,
           FirstPending' = FirstPending,
           ObjectsOf(rt') \subseteq ObjectsOf(rt), ObjectsOf(items') \subseteq ObjectsOf(items)
    PROVE  QueuedGone'
<1>1. \A x : Pending(x)' = Pending(x)
  BY DEF Pending
<1> QED
  BY <1>1 DEF QueuedGone

\* A request for one object is none for another.
LEMMA QueueOthers ==
    ASSUME TypeOK, OwnersTurn, NEW R \in ItemReg, pc' = pc,
           registration' = Append(registration, R), NEW x, x # R.obj
    PROVE  Pending(x)' = Pending(x)
<1>1. \A i \in Pending(x)' : i \in Pending(x)
  BY QueueAppend
<1>2. Pending(x) \subseteq Pending(x)'
  BY QueueAppend
<1> QED
  BY <1>1, <1>2

\* Unregister and Register add to the queue what is in no list any more.
LEMMA QueuedGoneStep == IInv /\ IInv' /\ QueuedGone /\ [Next]_shedVars => QueuedGone'
<1> SUFFICES ASSUME IInv, IInv', QueuedGone, [Next]_shedVars, processing'
             PROVE  QueuedGone'
  BY DEF QueuedGone
<1>p. /\ processing \in BOOLEAN /\ processing' = TRUE
      /\ pc' \in {"rt", "callRT", "step", "call", "merge"}
      /\ processing = TRUE <=> pc \in {"rt", "callRT", "step", "call", "merge"}
  BY DEF IInv, TypeOK, PhaseOK
<1>f. pc' \notin RegPhases /\ FirstPending' = 1 /\ (processing = TRUE => FirstPending = 1)
  BY <1>p DEF FirstPending, RegPhases
<1>1. CASE UNCHANGED shedVars
  BY <1>1, <1>f, <1>p, QueueQuiet DEF shedVars
<1>2. ASSUME NEW o \in Objects, NEW asRT \in BOOLEAN, Register(o, asRT)
      PROVE  QueuedGone'
  <2>1. /\ UNCHANGED <<rt, items, processing, pc>> /\ ~Registered(o) /\ OwnersTurn
        /\ registration' = Append(registration, [reg |-> TRUE, rt |-> asRT, obj |-> o])
    BY <1>2 DEF Register
  <2>2. PICK R \in ItemReg : registration' = Append(registration, R) /\ R.obj = o
    <3> DEFINE N == [reg |-> TRUE, rt |-> asRT, obj |-> o]
    <3>1. N \in ItemReg /\ N.obj = o
      BY DEF ItemReg
    <3> HIDE DEF N
    <3> QED
      BY <2>1, <3>1 DEF N
  <2>3. \A x \in Objects : x # o => Pending(x)' = Pending(x)
    BY <2>1, <2>2, QueueOthers DEF IInv
  <2>4. Pending(o) = {} => o \notin ObjectsOf(rt) \cup ObjectsOf(items)
    BY <2>1 DEF Registered, HeapObjects
  <2> QED
    BY <1>p, <2>1, <2>3, <2>4 DEF QueuedGone
<1>3. ASSUME NEW o \in Objects, Unregister(o), ~AtOnce(o)
      PROVE  QueuedGone'
  <2>1. /\ UNCHANGED <<rt, items, processing, pc>> /\ OwnersTurn
        /\ registration' = Append(registration, [reg |-> FALSE, rt |-> bRT[o], obj |-> o])
    BY <1>3 DEF Unregister
  <2>2. PICK R \in ItemReg : registration' = Append(registration, R) /\ R.obj = o
    <3> DEFINE N == [reg |-> FALSE, rt |-> bRT[o], obj |-> o]
    <3>1. N \in ItemReg /\ N.obj = o
      BY DEF ItemReg, IInv, TypeOK
    <3> HIDE DEF N
    <3> QED
      BY <2>1, <3>1 DEF N
  <2>3. \A x \in Objects : x # o => Pending(x)' = Pending(x)
    BY <2>1, <2>2, QueueOthers DEF IInv
  <2>4. ASSUME Pending(o) = {} PROVE o \notin ObjectsOf(rt) \cup ObjectsOf(items)
    <3>1. ListFlag(o, bRT[o])
      BY <2>4 DEF IInv, FlagsMatch
    <3>2. ~Found(o, bRT[o])
      BY <1>3, <1>p, <2>1 DEF AtOnce
    <3> QED
      BY <3>1, <3>2 DEF ListFlag, Found, HeapObjects
  <2> QED
    BY <1>p, <2>1, <2>3, <2>4 DEF QueuedGone
<1>4. ASSUME NEW o \in Objects, Unregister(o), AtOnce(o)
      PROVE  QueuedGone'
  <2>1. /\ UNCHANGED <<registration, processing, pc>>
        /\ bRT[o] \in BOOLEAN /\ InternalUnregister(o, bRT[o])
    BY <1>4 DEF IInv, TypeOK, Unregister
  <2>2. Once(rt) /\ Once(items) /\ TypeOK
    BY DEF IInv, AtMostOneEntry
  <2>3. ObjectsOf(rt') \subseteq ObjectsOf(rt) /\ ObjectsOf(items') \subseteq ObjectsOf(items)
    BY <2>1, <2>2, InternalUnregisterLists
  <2> QED
    BY <1>f, <1>p, <2>1, <2>3, QueueQuiet
<1>5. ASSUME NEW o \in Objects, SetNeeded(o) PROVE QueuedGone'
  BY <1>5, <1>f, <1>p, QueueQuiet DEF SetNeeded
<1>6. CASE Reorder \/ Frame \/ Destroy \/ Terminated
  BY <1>6, <1>p, <1>1 DEF Reorder, EnsureOrder, Frame, Tick, StartUpdate, Destroy, Terminated
<1>7. CASE RegSkipPair \/ RegAdd \/ RegRemove
  BY <1>7, <1>p DEF RegSkipPair, RegAdd, RegRemove, RegEntry, RegPhases
<1>8. CASE RegDone
  <2>1. registration' = <<>>
    BY <1>8 DEF RegDone
  <2>2. \A x : Pending(x)' = {}
    BY <2>1, <1>f DEF Pending
  <2> QED
    BY <2>2 DEF QueuedGone
<1>9. CASE SkipRT \/ ReturnRT
  <2>1. ObjectsOf(rt') = ObjectsOf(rt)
    BY <1>9, LoopLists DEF IInv
  <2>2. UNCHANGED <<items, registration, processing>>
    BY <1>9 DEF SkipRT, ReturnRT
  <2> QED
    BY <1>f, <1>p, <2>1, <2>2, QueueQuiet
<1>10. CASE CallRT \/ EndRT \/ ReturnItem \/ FaultItem \/ EndStep
  <2>1. UNCHANGED <<rt, items, registration, processing>>
    BY <1>10 DEF CallRT, EndRT, ReturnItem, FaultItem, EndStep
  <2> QED
    BY <1>f, <1>p, <2>1, QueueQuiet
<1>11. CASE DropItem \/ CallItem
  <2>1. PICK k \in 1 .. Len(items) : items' = RemoveAt(items, k)
    BY <1>11 DEF DropItem, CallItem, PopUnneeded
  <2>2. ObjectsOf(items') \subseteq ObjectsOf(items)
    BY <2>1, RemoveObjects DEF IInv, TypeOK, AtMostOneEntry
  <2>3. UNCHANGED <<rt, registration, processing>>
    BY <1>11 DEF DropItem, CallItem
  <2> QED
    BY <1>f, <1>p, <2>2, <2>3, QueueQuiet
<1>12. CASE Merge
  BY <1>12, <1>p DEF Merge
<1> QED
  BY <1>1, <1>2, <1>3, <1>4, <1>5, <1>6, <1>7, <1>8, <1>9, <1>10, <1>11, <1>12
     DEF Next, Owners, Pass

\* The loops never leave the entry of the real-time object they serve, unless a handler
\* erases one.
LEMMA ServingStep == IInv /\ IInv' /\ Serving /\ [Next]_shedVars => Serving'
<1> SUFFICES ASSUME IInv, IInv', Serving, [Next]_shedVars PROVE Serving'
  OBVIOUS
<1>0. /\ Len(rt) \in Nat /\ Len(items) \in Nat /\ Len(processed) \in Nat /\ it \in Nat \ {0}
      /\ None \notin Objects
      /\ \A i \in 1 .. Len(rt) : rt[i] \in RTItem
  BY ShedulerAssumption DEF IInv, TypeOK
<1>n. ASSUME pc' # "callRT", processed' = processed
      PROVE  Serving'
  BY <1>n DEF Serving
<1>1. ASSUME UNCHANGED <<rt, processed, pc, it, cur, erased>>, ObjectsOf(items') \subseteq ObjectsOf(items)
      PROVE  Serving'
  <2>1. InFlight' = InFlight
    BY <1>1 DEF InFlight
  <2>2. HeapObjects' \subseteq HeapObjects
    BY <1>1, <2>1 DEF HeapObjects
  <2> QED
    BY <1>1, <2>2 DEF Serving
<1>2. CASE UNCHANGED shedVars
  BY <1>1, <1>2 DEF shedVars
<1>3. ASSUME NEW o \in Objects, NEW asRT \in BOOLEAN, Register(o, asRT)
      PROVE  Serving'
  BY <1>1, <1>3 DEF Register
<1>4. ASSUME NEW o \in Objects, Unregister(o)
      PROVE  Serving'
  <2>1. UNCHANGED <<processed, pc, it, cur>>
    BY <1>4 DEF Unregister
  <2>2. CASE ~AtOnce(o)
    BY <1>1, <1>4, <2>1, <2>2 DEF Unregister
  <2>3. CASE AtOnce(o)
    <3>1. bRT[o] \in BOOLEAN /\ InternalUnregister(o, bRT[o]) /\ Found(o, bRT[o])
          /\ erased' = (erased \/ (pc = "callRT" /\ bRT[o]))
      BY <1>4, <2>3 DEF IInv, TypeOK, Unregister, AtOnce
    <3>2. Once(rt) /\ Once(items) /\ TypeOK
      BY DEF IInv, AtMostOneEntry
    <3>3. ObjectsOf(items') \subseteq ObjectsOf(items)
      BY <3>1, <3>2, InternalUnregisterLists
    <3>4. CASE bRT[o]
      <4>1. InFlight' = InFlight
        BY <2>1 DEF InFlight
      <4>2. HeapObjects' \subseteq HeapObjects
        BY <2>1, <3>3, <4>1 DEF HeapObjects
      <4>3. pc = "callRT" => erased'
        BY <3>1, <3>4
      <4> QED
        BY <2>1, <4>2, <4>3 DEF Serving
    <3>5. CASE ~bRT[o]
      <4>1. rt' = rt
        BY <3>1, <3>5 DEF InternalUnregister, CancelItem
      <4>2. erased' = erased
        BY <3>1, <3>5 DEF IInv, TypeOK
      <4> QED
        BY <1>1, <2>1, <3>3, <4>1, <4>2
    <3> QED
      BY <3>4, <3>5
  <2> QED
    BY <2>2, <2>3
<1>5. ASSUME NEW o \in Objects, SetNeeded(o) PROVE Serving'
  BY <1>1, <1>5 DEF SetNeeded
<1>6. CASE Reorder \/ Frame \/ Destroy \/ Terminated
  BY <1>6, <1>n, <1>2 DEF Reorder, EnsureOrder, Frame, Tick, StartUpdate, Destroy, Terminated
<1>7. CASE RegSkipPair \/ RegAdd \/ RegRemove \/ RegDone
  BY <1>7, <1>n DEF RegSkipPair, RegAdd, RegRemove, RegEntry, RegDone, RegPhases
<1>8. CASE SkipRT \/ ReturnRT \/ EndRT \/ DropItem \/ CallItem \/ FaultItem \/ EndStep
  BY <1>8, <1>n DEF SkipRT, ReturnRT, EndRT, DropItem, CallItem, FaultItem, EndStep
<1>9. CASE CallRT
  <2>1. /\ it <= Len(rt) /\ cur' = [obj |-> rt[it].obj, at |-> 0, last |-> rt[it].last]
        /\ UNCHANGED <<rt, items, processed, it>> /\ pc' = "callRT"
    BY <1>9 DEF CallRT
  <2>2. cur'.obj = rt[it].obj /\ rt[it].obj \in ObjectsOf(rt)
    BY <1>0, <2>1 DEF ObjectsOf, RTItem
  <2>3. cur'.obj \notin HeapObjects'
    BY <2>1, <2>2 DEF IInv, AtMostOneEntry
  <2> QED
    BY <2>1, <2>2, <2>3 DEF Serving
<1>10. CASE ReturnItem
  <2>1. PICK d \in Intervals : processed' = Append(processed, [obj |-> cur.obj, at |-> d, last |-> 0])
    BY <1>10 DEF ReturnItem
  <2>2. cur.obj \in Objects /\ pc' # "callRT"
    BY <1>10 DEF ReturnItem, IInv, PhaseOK, CallPhases
  <2>3. processed \in Seq(Item)
    BY DEF IInv, TypeOK
  <2>4. \A i \in 1 .. Len(processed') : processed'[i].obj \in Objects
    BY <2>1, <2>2, <2>3 DEF Serving
  <2> QED
    BY <2>2, <2>4 DEF Serving
<1>11. CASE Merge
  BY <1>11 DEF Merge, Serving
<1> QED
  BY <1>2, <1>3, <1>4, <1>5, <1>6, <1>7, <1>8, <1>9, <1>10, <1>11 DEF Next, Owners, Pass

-----------------------------------------------------------------------------
(* Elapsed times.                                                          *)

\* The entries of a list are as old as their objects.
Exact(list, age) == \A i \in 1 .. Len(list) : list[i].obj # None => list[i].last = age[list[i].obj]

Elapsed == (~erased => Exact(rt, since)) /\ Exact(items, since) /\ Exact(processed, since)

\* A list that only loses or cancels entries keeps its ages.
LEMMA ExactPart ==
    ASSUME NEW s, NEW t, NEW age, Exact(s, age),
           \A i \in 1 .. Len(t) : t[i].obj # None => \E j \in 1 .. Len(s) : t[i] = s[j]
    PROVE  Exact(t, age)
BY DEF Exact

LEMMA ExactRemove ==
    ASSUME NEW S, NEW s \in Seq(S), NEW i \in 1 .. Len(s), NEW age, Exact(s, age)
    PROVE  Exact(RemoveAt(s, i), age)
<1>0. Len(s) \in Nat
  OBVIOUS
<1>1. /\ Len(RemoveAt(s, i)) = Len(s) - 1
      /\ \A j \in 1 .. Len(s) - 1 : RemoveAt(s, i)[j] = IF j < i THEN s[j] ELSE s[j + 1]
  BY RemoveAtType, Zenon
<1>2. \A j \in 1 .. Len(s) - 1 : \E k \in 1 .. Len(s) : RemoveAt(s, i)[j] = s[k]
  <2> SUFFICES ASSUME NEW j \in 1 .. Len(s) - 1
               PROVE  \E k \in 1 .. Len(s) : RemoveAt(s, i)[j] = s[k]
    OBVIOUS
  <2>1. j \in 1 .. Len(s) /\ j + 1 \in 1 .. Len(s)
    BY <1>0, <1>1
  <2> QED
    BY <1>0, <1>1, <2>1
<1> QED
  BY <1>0, <1>1, <1>2, ExactPart

\* An object outside of a list may restart its clock.
LEMMA ExactElsewhere ==
    ASSUME NEW s, NEW old, NEW age, NEW o, Exact(s, old), o \notin ObjectsOf(s),
           \A i \in 1 .. Len(s) : s[i].obj \in Objects \cup {None},
           \A x \in Objects : x # o => age[x] = old[x]
    PROVE  Exact(s, age)
<1> SUFFICES ASSUME NEW i \in 1 .. Len(s), s[i].obj # None
             PROVE  s[i].last = age[s[i].obj]
  BY DEF Exact
<1>1. s[i].obj # o /\ s[i].obj \in Objects
  BY DEF ObjectsOf
<1> QED
  BY <1>1 DEF Exact

LEMMA ExactAppend ==
    ASSUME NEW S, NEW s \in Seq(S), NEW e \in S, NEW age, Exact(s, age),
           e.obj # None => e.last = age[e.obj]
    PROVE  Exact(Append(s, e), age)
BY DEF Exact

LEMMA ExactMerge ==
    ASSUME NEW S, NEW s \in Seq(S), NEW p \in Seq(S), NEW age, Exact(s, age), Exact(p, age)
    PROVE  Exact(s \o Reverse(p), age)
<1> DEFINE r == Reverse(p)
<1>1. /\ r \in Seq(S) /\ Len(r) = Len(p) /\ Len(p) \in Nat /\ Len(s) \in Nat
      /\ \A j \in 1 .. Len(p) : r[j] = p[Len(p) - j + 1]
  BY ReverseType
<1>2. \A j \in 1 .. Len(p) : r[j].obj # None => r[j].last = age[r[j].obj]
  <2> SUFFICES ASSUME NEW j \in 1 .. Len(p), r[j].obj # None
               PROVE  r[j].last = age[r[j].obj]
    OBVIOUS
  <2>1. Len(p) - j + 1 \in 1 .. Len(p)
    BY <1>1
  <2> QED
    BY <1>1, <2>1 DEF Exact
<1> HIDE DEF r
<1>c. r \in Seq(S)
  BY <1>1
<1>3. Len(s \o r) = Len(s) + Len(p)
  <2>1. Len(s \o r) = Len(s) + Len(r)
    BY <1>c
  <2> QED
    BY <1>1, <2>1
<1>4. ASSUME NEW i \in 1 .. Len(s) + Len(p)
      PROVE  (s \o r)[i] = IF i <= Len(s) THEN s[i] ELSE r[i - Len(s)]
  BY <1>1
<1>5. ASSUME NEW i \in 1 .. Len(s) + Len(p), (s \o r)[i].obj # None
      PROVE  (s \o r)[i].last = age[(s \o r)[i].obj]
  <2>1. CASE i <= Len(s)
    BY <1>1, <1>4, <1>5, <2>1 DEF Exact
  <2>2. CASE i > Len(s)
    <3>1. i - Len(s) \in 1 .. Len(p) /\ (s \o r)[i] = r[i - Len(s)]
      BY <1>1, <1>4, <2>2
    <3> QED
      BY <1>2, <1>5, <3>1
  <2> QED
    BY <1>1, <2>1, <2>2
<1> QED
  BY <1>3, <1>5 DEF Exact, r

LEMMA ElapsedStep == IInv /\ IInv' /\ Serving /\ Elapsed /\ [Next]_shedVars => Elapsed'
<1> SUFFICES ASSUME IInv, IInv', Serving, Elapsed, [Next]_shedVars PROVE Elapsed'
  OBVIOUS
<1>0. /\ rt \in Seq(RTItem) /\ items \in Seq(Item) /\ processed \in Seq(Item)
      /\ Len(rt) \in Nat /\ Len(items) \in Nat /\ Len(processed) \in Nat /\ it \in Nat \ {0}
      /\ \A i \in 1 .. Len(rt) : rt[i] \in RTItem
      /\ \A i \in 1 .. Len(items) : items[i] \in Item
      /\ \A i \in 1 .. Len(processed) : processed[i] \in Item
      /\ since \in [Objects -> Nat] /\ None \notin Objects
  <2>1. /\ rt \in Seq(RTItem) /\ items \in Seq(Item) /\ processed \in Seq(Item)
        /\ it \in Nat \ {0} /\ since \in [Objects -> Nat]
    BY DEF IInv, TypeOK
  <2>2. /\ Len(rt) \in Nat /\ Len(items) \in Nat /\ Len(processed) \in Nat
        /\ \A i \in 1 .. Len(rt) : rt[i] \in RTItem
        /\ \A i \in 1 .. Len(items) : items[i] \in Item
        /\ \A i \in 1 .. Len(processed) : processed[i] \in Item
    BY <2>1
  <2>3. None \notin Objects
    BY ShedulerAssumption
  <2> QED
    BY <2>1, <2>2, <2>3
<1>o. /\ \A i \in 1 .. Len(rt) : rt[i].obj \in Objects
      /\ \A i \in 1 .. Len(items) : items[i].obj \in Objects \cup {None}
      /\ \A i \in 1 .. Len(processed) : processed[i].obj \in Objects \cup {None}
  BY <1>0 DEF RTItem, Item
<1>s. AtMostOneEntry /\ PhaseOK
  BY DEF IInv
\* A step that leaves the lists and the clocks alone.
<1>1. ASSUME UNCHANGED <<rt, items, processed, since, erased>> PROVE Elapsed'
  BY <1>1 DEF Elapsed
\* The clock of an object restarts that is in no list but, served, in ItemsRT.
<1>2. ASSUME NEW o \in Objects, since' = [since EXCEPT ![o] = 0],
             o \notin ObjectsOf(items), o \notin ObjectsOf(processed)
      PROVE  /\ Exact(items, since') /\ Exact(processed, since')
             /\ since'[o] = 0 /\ \A x \in Objects : x # o => since'[x] = since[x]
  <2>1. since'[o] = 0 /\ \A x \in Objects : x # o => since'[x] = since[x]
    BY <1>0, <1>2
  <2>2. Exact(items, since) /\ Exact(processed, since)
    BY DEF Elapsed
  <2>3. PICK old, age : old = since /\ age = since'
    OBVIOUS
  <2>4. \A x \in Objects : x # o => age[x] = old[x]
    BY <2>1, <2>3
  <2>5. Exact(items, old) => Exact(items, age)
    BY <1>2, <1>o, <2>4, ExactElsewhere
  <2>6. Exact(processed, old) => Exact(processed, age)
    BY <1>2, <1>o, <2>4, ExactElsewhere
  <2> QED
    BY <2>1, <2>2, <2>3, <2>5, <2>6
<1>r. ASSUME NEW i \in 1 .. Len(rt), NEW o \in Objects, rt' = RestartRT(i), rt[i].obj = o,
             Exact(rt, since), since'[o] = 0, \A x \in Objects : x # o => since'[x] = since[x]
      PROVE  Exact(rt', since')
  <2>1. /\ Len(rt') = Len(rt)
        /\ \A j \in 1 .. Len(rt) : rt'[j] = IF j = i THEN [rt[i] EXCEPT !.last = 0] ELSE rt[j]
    BY <1>0, <1>r DEF RestartRT
  <2>2. rt'[i].obj = o /\ rt'[i].last = 0
    BY <1>0, <1>r, <2>1 DEF RTItem
  <2>3. \A j \in 1 .. Len(rt) : j # i => rt'[j] = rt[j] /\ rt[j].obj # o /\ rt[j].obj \in Objects
    BY <1>0, <1>o, <1>s, <1>r, <2>1 DEF AtMostOneEntry, Once
  <2>4. \A j \in 1 .. Len(rt) : rt'[j].obj # None => rt'[j].last = since'[rt'[j].obj]
    BY <1>r, <2>2, <2>3 DEF Exact
  <2> QED
    BY <2>1, <2>4 DEF Exact
\* internal_Unregister loses or cancels an entry.
<1>u. ASSUME NEW o \in Objects, NEW asRT \in BOOLEAN, InternalUnregister(o, asRT),
             since' = since, processed' = processed, erased => erased'
      PROVE  Elapsed'
  <2>2. CASE UNCHANGED <<rt, items>>
    BY <1>u, <2>2 DEF Elapsed
  <2>3. CASE EraseRT(o)
    <3>1. PICK i \in 1 .. Len(rt) : rt' = RemoveAt(rt, i) /\ items' = items
      BY <2>3 DEF EraseRT, WithoutRT
    <3>2. Exact(rt, since) => Exact(rt', since)
      BY <1>0, <3>1, ExactRemove
    <3> QED
      BY <1>u, <3>1, <3>2 DEF Elapsed
  <2>4. CASE CancelItem(o)
    <3>1. PICK i \in 1 .. Len(items) : items' = [items EXCEPT ![i].obj = None] /\ rt' = rt
      BY <2>4 DEF CancelItem
    <3>2. /\ Len(items') = Len(items)
          /\ \A j \in 1 .. Len(items) :
                items'[j] = IF j = i THEN [items[i] EXCEPT !.obj = None] ELSE items[j]
      BY <1>0, <3>1
    <3>3. [items[i] EXCEPT !.obj = None].obj = None
      BY <1>0 DEF Item
    <3>4. \A j \in 1 .. Len(items') :
              items'[j].obj # None => \E k \in 1 .. Len(items) : items'[j] = items[k]
      BY <3>2, <3>3
    <3>5. Exact(items', since)
      BY <3>4, ExactPart DEF Elapsed
    <3> QED
      BY <1>u, <3>1, <3>5 DEF Elapsed
  <2> QED
    BY <1>u, <2>2, <2>3, <2>4 DEF InternalUnregister
<1>3. CASE UNCHANGED shedVars
  BY <1>1, <1>3 DEF shedVars
<1>4. ASSUME NEW o \in Objects, (\E asRT \in BOOLEAN : Register(o, asRT)) \/ SetNeeded(o)
      PROVE  Elapsed'
  BY <1>1, <1>4 DEF Register, SetNeeded
<1>5. ASSUME NEW o \in Objects, Unregister(o)
      PROVE  Elapsed'
  <2>1. since' = since /\ processed' = processed
    BY <1>5 DEF Unregister
  <2>2. CASE ~AtOnce(o)
    BY <1>1, <1>5, <2>1, <2>2 DEF Unregister
  <2>3. CASE AtOnce(o)
    <3>1. bRT[o] \in BOOLEAN /\ InternalUnregister(o, bRT[o]) /\ (erased => erased')
      BY <1>5, <2>3 DEF IInv, TypeOK, Unregister
    <3> QED
      BY <1>u, <2>1, <3>1
  <2> QED
    BY <2>2, <2>3
<1>6. CASE Reorder
  <2>1. PICK i \in 1 .. Len(rt) :
            /\ rt' = Append(RemoveAt(rt, i), rt[i])
            /\ UNCHANGED <<items, processed, since, erased>>
    BY <1>6 DEF Reorder, EnsureOrder
  <2>2. ASSUME Exact(rt, since) PROVE Exact(rt', since)
    <3>1. RemoveAt(rt, i) \in Seq(RTItem) /\ Exact(RemoveAt(rt, i), since)
      BY <1>0, <2>2, ExactRemove, RemoveAtType
    <3>2. rt[i] \in RTItem /\ (rt[i].obj # None => rt[i].last = since[rt[i].obj])
      BY <1>0, <2>2 DEF Exact
    <3>3. PICK s \in Seq(RTItem) : s = RemoveAt(rt, i)
      BY <3>1
    <3>4. Exact(Append(s, rt[i]), since)
      BY <3>1, <3>2, <3>3, ExactAppend
    <3> QED
      BY <2>1, <3>3, <3>4
  <2> QED
    BY <2>1, <2>2 DEF Elapsed
<1>7. ASSUME NEW d \in Deltas, Tick(d) PROVE Elapsed'
  <2>1. /\ pc = "idle" /\ erased' = erased /\ processed' = processed
        /\ rt' = [i \in 1 .. Len(rt) |-> OlderRT(rt[i], d)]
        /\ items' = [i \in 1 .. Len(items) |-> OlderItem(items[i], d)]
        /\ since' = [o \in Objects |-> Capped(since[o] + d)]
    BY <1>7 DEF Tick
  <2>2. processed = <<>>
    BY <1>s, <2>1 DEF PhaseOK
  <2>3. /\ \A e \in RTItem : OlderRT(e, d).obj = e.obj /\ OlderRT(e, d).last = Capped(e.last + d)
        /\ \A e \in Item : OlderItem(e, d).obj = e.obj /\ OlderItem(e, d).last = Capped(e.last + d)
    BY DEF OlderRT, OlderItem, RTItem, Item
  <2>4. \A x \in Objects : since'[x] = Capped(since[x] + d)
    BY <2>1
  <2>5. /\ Len(rt') = Len(rt)
        /\ \A i \in 1 .. Len(rt) : rt'[i].obj = rt[i].obj /\ rt'[i].last = Capped(rt[i].last + d)
    BY <1>0, <2>1, <2>3
  <2>6. /\ Len(items') = Len(items)
        /\ \A i \in 1 .. Len(items) : /\ items'[i].obj = items[i].obj
                                      /\ items'[i].last = Capped(items[i].last + d)
    BY <1>0, <2>1, <2>3
  <2>7. Exact(rt, since) => Exact(rt', since')
    <3>1. \A i \in 1 .. Len(rt) : /\ rt[i].obj \in Objects \cup {None}
                                  /\ rt'[i].obj = rt[i].obj /\ rt'[i].last = Capped(rt[i].last + d)
      BY <1>o, <2>5
    <3>2. PICK old, age, t : old = since /\ age = since' /\ t = rt'
      OBVIOUS
    <3>3. /\ \A x \in Objects : age[x] = Capped(old[x] + d)
          /\ Len(t) = Len(rt)
          /\ \A i \in 1 .. Len(rt) : /\ rt[i].obj \in Objects \cup {None} /\ t[i].obj = rt[i].obj
                                     /\ t[i].last = Capped(rt[i].last + d)
      BY <2>4, <2>5, <3>1, <3>2
    <3>4. Exact(rt, old) => Exact(t, age)
      BY <1>0, <3>3, ZenonT(30) DEF Exact
    <3> QED
      BY <3>2, <3>4
  <2>8. Exact(items, since) => Exact(items', since')
    <3>1. \A i \in 1 .. Len(items) :
              /\ items[i].obj \in Objects \cup {None}
              /\ items'[i].obj = items[i].obj /\ items'[i].last = Capped(items[i].last + d)
      BY <1>o, <2>6
    <3>2. PICK old, age, t : old = since /\ age = since' /\ t = items'
      OBVIOUS
    <3>3. /\ \A x \in Objects : age[x] = Capped(old[x] + d)
          /\ Len(t) = Len(items)
          /\ \A i \in 1 .. Len(items) : /\ items[i].obj \in Objects \cup {None} /\ t[i].obj = items[i].obj
                                     /\ t[i].last = Capped(items[i].last + d)
      BY <2>4, <2>6, <3>1, <3>2
    <3>4. Exact(items, old) => Exact(t, age)
      BY <1>0, <3>3, ZenonT(30) DEF Exact
    <3> QED
      BY <3>2, <3>4
  <2>9. Exact(processed', since')
    BY <2>1, <2>2 DEF Exact
  <2> QED
    BY <2>1, <2>7, <2>8, <2>9 DEF Elapsed
<1>8. CASE StartUpdate \/ Destroy \/ Terminated \/ CallRT \/ EndRT \/ FaultItem \/ EndStep \/ RegSkipPair
  BY <1>1, <1>3, <1>8 DEF StartUpdate, Destroy, Terminated, CallRT, EndRT, FaultItem, EndStep,
     RegSkipPair, RegEntry
<1>9. CASE RegAdd
  <2>1. PICK o \in Objects, asRT \in BOOLEAN :
            o = registration[it].obj /\ asRT = registration[it].rt /\ InternalRegister(o, asRT)
    BY <1>9, EntryRead DEF RegAdd, ItemReg
  <2>2. o \notin ObjectsOf(rt) \cup HeapObjects
    BY <1>9, <2>1, FirstIsNew DEF RegAdd
  <2>3. processed' = processed /\ erased' = erased /\ since' = [since EXCEPT ![o] = 0]
    BY <1>9, <2>1 DEF RegAdd, RegEntry, InternalRegister
  <2>4. /\ Exact(items, since') /\ Exact(processed, since')
        /\ since'[o] = 0 /\ \A x \in Objects : x # o => since'[x] = since[x]
    BY <1>2, <2>2, <2>3 DEF HeapObjects
  <2>5. Exact(rt, since) => Exact(rt, since')
    BY <1>o, <2>2, <2>4, ExactElsewhere
  <2>6. CASE asRT
    <3>1. rt' = Append(rt, [obj |-> o, last |-> 0]) /\ items' = items
      BY <2>1, <2>6 DEF InternalRegister
    <3>2. PICK e \in RTItem : e = [obj |-> o, last |-> 0] /\ e.obj = o /\ e.last = 0
      <4> DEFINE N == [obj |-> o, last |-> 0]
      <4>1. N \in RTItem /\ N.obj = o /\ N.last = 0
        BY DEF RTItem
      <4> HIDE DEF N
      <4> QED
        BY <4>1 DEF N
    <3>3. Exact(rt, since') => Exact(rt', since')
      BY <1>0, <2>4, <3>1, <3>2, ExactAppend
    <3> QED
      BY <2>3, <2>4, <2>5, <3>1, <3>3 DEF Elapsed
  <2>7. CASE ~asRT
    <3>1. items' = Append(items, [obj |-> o, at |-> 0, last |-> 0]) /\ rt' = rt
      BY <2>1, <2>7 DEF InternalRegister
    <3>2. PICK e \in Item : e = [obj |-> o, at |-> 0, last |-> 0] /\ e.obj = o /\ e.last = 0
      <4> DEFINE N == [obj |-> o, at |-> 0, last |-> 0]
      <4>1. N \in Item /\ N.obj = o /\ N.last = 0
        BY DEF Item
      <4> HIDE DEF N
      <4> QED
        BY <4>1 DEF N
    <3>3. Exact(items', since')
      BY <1>0, <2>4, <3>1, <3>2, ExactAppend
    <3> QED
      BY <2>3, <2>4, <2>5, <3>1, <3>3 DEF Elapsed
  <2> QED
    BY <2>6, <2>7
<1>10. CASE RegRemove
  <2>1. PICK o \in Objects, asRT \in BOOLEAN :
            o = registration[it].obj /\ asRT = registration[it].rt
    BY <1>10, EntryRead DEF RegRemove, ItemReg
  <2>2. InternalUnregister(o, asRT) /\ UNCHANGED <<since, processed, erased>>
    BY <1>10, <2>1 DEF RegRemove, RegEntry, QueuedRT
  <2> QED
    BY <1>u, <2>2
<1>11. CASE RegDone
  <2>1. /\ UNCHANGED <<processed, since, erased>>
        /\ UNCHANGED <<rt, items>> \/ (rt' = <<>> /\ items' = <<>>)
    BY <1>11 DEF RegDone, RegPhases
  <2>2. Exact(<<>>, since)
    BY DEF Exact
  <2> QED
    BY <1>1, <2>1, <2>2 DEF Elapsed
<1>12. CASE SkipRT
  <2>1. PICK o \in Objects : o = rt[it].obj
    BY <1>0, <1>o, <1>12 DEF SkipRT
  <2>2. /\ it \in 1 .. Len(rt) /\ rt' = RestartRT(it) /\ since' = [since EXCEPT ![o] = 0]
        /\ UNCHANGED <<items, processed, erased>>
    BY <1>0, <1>12, <2>1 DEF SkipRT
  <2>3. o \in ObjectsOf(rt) /\ o \notin HeapObjects
    BY <1>0, <1>s, <2>1, <2>2 DEF ObjectsOf, AtMostOneEntry
  <2>4. /\ Exact(items, since') /\ Exact(processed, since')
        /\ since'[o] = 0 /\ \A x \in Objects : x # o => since'[x] = since[x]
    BY <1>2, <2>2, <2>3 DEF HeapObjects
  <2>5. Exact(rt, since) => Exact(rt', since')
    BY <1>r, <2>1, <2>2, <2>4
  <2> QED
    BY <2>2, <2>4, <2>5 DEF Elapsed
<1>13. CASE ReturnRT
  <2>1. PICK o \in Objects : o = cur.obj
    BY <1>s, <1>13 DEF ReturnRT, PhaseOK, CallPhases
  <2>2. /\ pc = "callRT" /\ since' = [since EXCEPT ![o] = 0]
        /\ UNCHANGED <<items, processed, erased>>
        /\ it <= Len(rt) => rt' = RestartRT(it)
    BY <1>13, <2>1 DEF ReturnRT
  <2>3. o \notin HeapObjects /\ (~erased => it <= Len(rt) /\ rt[it].obj = o)
    BY <2>1, <2>2 DEF Serving
  <2>4. /\ Exact(items, since') /\ Exact(processed, since')
        /\ since'[o] = 0 /\ \A x \in Objects : x # o => since'[x] = since[x]
    BY <1>2, <2>2, <2>3 DEF HeapObjects
  <2>5. ~erased => Exact(rt', since')
    <3> SUFFICES ASSUME ~erased PROVE Exact(rt', since')
      OBVIOUS
    <3>1. it \in 1 .. Len(rt) /\ rt[it].obj = o /\ rt' = RestartRT(it)
      BY <1>0, <2>2, <2>3
    <3>2. Exact(rt, since)
      BY DEF Elapsed
    <3> QED
      BY <1>r, <2>4, <3>1, <3>2
  <2> QED
    BY <2>2, <2>4, <2>5 DEF Elapsed
<1>14. CASE DropItem \/ CallItem
  <2>1. PICK k \in 1 .. Len(items) : items' = RemoveAt(items, k)
    BY <1>14 DEF DropItem, CallItem, PopUnneeded
  <2>2. UNCHANGED <<rt, processed, since, erased>>
    BY <1>14 DEF DropItem, CallItem
  <2>3. Exact(items', since)
    BY <1>0, <2>1, ExactRemove DEF Elapsed
  <2> QED
    BY <2>2, <2>3 DEF Elapsed
<1>15. CASE ReturnItem
  <2>1. PICK o \in Objects : o = cur.obj
    BY <1>s, <1>15 DEF ReturnItem, PhaseOK, CallPhases
  <2>2. InFlight = {o}
    BY <1>15, <2>1 DEF ReturnItem, InFlight
  <2>3. o \notin ObjectsOf(rt) /\ o \notin ObjectsOf(items) /\ o \notin ObjectsOf(processed)
    BY <1>s, <2>2 DEF AtMostOneEntry, HeapObjects
  <2>4. /\ UNCHANGED <<rt, items, erased>> /\ since' = [since EXCEPT ![o] = 0]
        /\ \E d \in Intervals : processed' = Append(processed, [obj |-> o, at |-> d, last |-> 0])
    BY <1>15, <2>1 DEF ReturnItem
  <2>5. /\ Exact(items, since') /\ Exact(processed, since')
        /\ since'[o] = 0 /\ \A x \in Objects : x # o => since'[x] = since[x]
    BY <1>2, <2>3, <2>4
  <2>6. Exact(rt, since) => Exact(rt, since')
    BY <1>o, <2>3, <2>5, ExactElsewhere
  <2>7. PICK e \in Item : e.obj = o /\ e.last = 0 /\ processed' = Append(processed, e)
    <3>1. PICK d \in Intervals : processed' = Append(processed, [obj |-> o, at |-> d, last |-> 0])
      BY <2>4
    <3> DEFINE N == [obj |-> o, at |-> d, last |-> 0]
    <3>2. N \in Item /\ N.obj = o /\ N.last = 0
      BY ShedulerAssumption DEF Item
    <3> HIDE DEF N
    <3> QED
      BY <3>1, <3>2 DEF N
  <2>8. Exact(processed', since')
    BY <1>0, <2>5, <2>7, ExactAppend
  <2> QED
    BY <2>4, <2>5, <2>6, <2>8 DEF Elapsed
<1>16. CASE Merge
  <2>1. /\ items' = items \o Reverse(processed) /\ processed' = <<>>
        /\ UNCHANGED <<rt, since, erased>>
    BY <1>16 DEF Merge
  <2>2. Exact(items', since) /\ Exact(processed', since)
    <3>1. Exact(items \o Reverse(processed), since)
      BY <1>0, ExactMerge DEF Elapsed
    <3> QED
      BY <2>1, <3>1 DEF Exact
  <2> QED
    BY <2>1, <2>2 DEF Elapsed
<1> QED
  BY <1>3, <1>4, <1>5, <1>6, <1>7, <1>8, <1>9, <1>10, <1>11, <1>12, <1>13, <1>14, <1>15, <1>16
     DEF Next, Owners, Pass, Frame

\* While a handler runs, the age of its object is the one it was told.
LEMMA ToldStep == IInv /\ IInv' /\ Serving /\ Elapsed /\ ElapsedTold /\ [Next]_shedVars => ElapsedTold'
<1> SUFFICES ASSUME IInv, IInv', Serving, Elapsed, ElapsedTold, [Next]_shedVars PROVE ElapsedTold'
  OBVIOUS
<1>n. ASSUME pc' \notin CallPhases PROVE ElapsedTold'
  BY <1>n DEF ElapsedTold, CallPhases
<1>1. ASSUME UNCHANGED <<pc, cur, since>>, erased => erased' PROVE ElapsedTold'
  BY <1>1 DEF ElapsedTold
<1>2. CASE UNCHANGED shedVars
  BY <1>1, <1>2 DEF shedVars
<1>3. CASE Owners \/ Reorder
  BY <1>1, <1>3 DEF Owners, Register, Unregister, SetNeeded, Reorder, EnsureOrder
<1>4. CASE Frame \/ Destroy \/ Terminated
  BY <1>4, <1>n, <1>2 DEF Frame, Tick, StartUpdate, Destroy, Terminated, CallPhases
<1>5. CASE RegSkipPair \/ RegAdd \/ RegRemove \/ RegDone
  BY <1>5, <1>n DEF RegSkipPair, RegAdd, RegRemove, RegEntry, RegDone, RegPhases, CallPhases
<1>6. CASE \/ SkipRT \/ ReturnRT \/ EndRT \/ DropItem \/ ReturnItem \/ FaultItem \/ EndStep \/ Merge
  BY <1>6, <1>n
     DEF SkipRT, ReturnRT, EndRT, DropItem, ReturnItem, FaultItem, EndStep, Merge, CallPhases
<1>7. CASE CallRT
  <2>1. /\ it \in 1 .. Len(rt) /\ pc' = "callRT" /\ UNCHANGED <<since, erased>>
        /\ cur' = [obj |-> rt[it].obj, at |-> 0, last |-> rt[it].last]
    BY <1>7 DEF CallRT, IInv, TypeOK
  <2>2. rt[it].obj \in Objects /\ rt[it].obj # None
    <3>1. rt[it] \in RTItem
      BY <2>1 DEF IInv, TypeOK
    <3> QED
      BY <3>1, ShedulerAssumption DEF RTItem
  <2>3. ~erased => rt[it].last = since[rt[it].obj]
    BY <2>1, <2>2 DEF Elapsed, Exact
  <2>4. cur'.obj = rt[it].obj /\ cur'.last = rt[it].last
    BY <2>1
  <2> QED
    BY <2>1, <2>3, <2>4 DEF ElapsedTold
<1>8. CASE CallItem
  <2>1. PICK k \in 1 .. Len(items) : ~Unneeded(k) /\ cur' = Told(items[k])
    BY <1>8 DEF CallItem
  <2>2. items[k] \in Item /\ items[k].obj \in Objects /\ items[k].obj # None
    BY <2>1, ShedulerAssumption DEF IInv, TypeOK, Unneeded
  <2>3. items[k].last = since[items[k].obj]
    BY <2>1, <2>2 DEF Elapsed, Exact
  <2>4. /\ cur'.obj = items[k].obj
        /\ cur'.last = clampr(items[k].last, 1, Longest[items[k].obj])
    BY <2>1, <2>2, ToldIs
  <2>5. pc' = "call" /\ since' = since
    BY <1>8 DEF CallItem
  <2> QED
    BY <2>3, <2>4, <2>5 DEF ElapsedTold
<1> QED
  BY <1>2, <1>3, <1>4, <1>5, <1>6, <1>7, <1>8 DEF Next, Pass

Strong == IInv /\ Serving /\ QueuedGone /\ Elapsed /\ ElapsedTold

LEMMA StrongInit == Init => Strong
<1> SUFFICES ASSUME Init PROVE Serving /\ QueuedGone /\ Elapsed /\ ElapsedTold
  BY IInvInit DEF Strong
<1>1. Len(rt) = 0 /\ Len(items) = 0 /\ Len(processed) = 0 /\ pc = "idle" /\ ~processing
  BY DEF Init
<1> QED
  BY <1>1 DEF Serving, QueuedGone, Elapsed, Exact, ElapsedTold

LEMMA StrongStep == Strong /\ [Next]_shedVars => Strong'
<1>1. IInv /\ [Next]_shedVars => IInv'
  BY IInvStep
<1> QED
  BY <1>1, ServingStep, QueuedGoneStep, ElapsedStep, ToldStep DEF Strong

LEMMA StrongInvariant == Spec => []Strong
BY StrongInit, StrongStep, PTL DEF Spec

\* A handler called from the heap is told the time since its object was last served,
\* registered or found unneeded, between the bounds of clampr, and one called from ItemsRT
\* that time itself, for any clock, any intervals and whatever the budget cuts off; for the
\* real-time objects as long as no handler has erased an entry inside their loop.
THEOREM TimesTold == Spec => []ElapsedTold
<1>1. Strong => ElapsedTold
  BY DEF Strong
<1> QED
  BY <1>1, StrongInvariant, PTL

-----------------------------------------------------------------------------
(* Sheduler implements ShedulerSpec.                                       *)

\* Its variables.
Regd == {o \in Objects : Registered(o)}
Called == IF pc \in CallPhases THEN cur.obj ELSE None
Open == pc # "off"

Listed == ObjectsOf(rt) \cup HeapObjects

AbsNext == [Abstract!Next]_(Abstract!absVars)

LEMMA AbsStutter == UNCHANGED <<Regd, Eligible, Called, Open>> => AbsNext
BY DEF AbsNext, Abstract!absVars, Regd, Called, Open

LEMMA AbsOwners ==
    ASSUME NEW o \in Objects, UNCHANGED <<Called, Open>>
    PROVE  /\ o \notin Regd /\ Regd' = Regd \cup {o} /\ Eligible' = Eligible => AbsNext
           /\ Regd' = Regd \ {o} /\ Eligible' \subseteq Eligible \ {o} => AbsNext
BY DEF AbsNext, Abstract!Next, Abstract!Register, Abstract!Unregister, Regd, Called, Open

LEMMA AbsPass ==
    ASSUME Called = None, Open' = Open
    PROVE  /\ Called' = None /\ Regd' = Regd /\ Eligible = {} /\ Eligible' = Regd => AbsNext
           /\ Called' = None /\ Regd' = Regd /\ Eligible' \subseteq Eligible => AbsNext
           /\ \A o \in Objects :
                 /\ Called' = o /\ Regd' = Regd /\ o \in Eligible /\ Eligible' = Eligible \ {o}
                    => AbsNext
                 /\ Called' = None /\ Regd' = Regd \ {o} /\ o \in Eligible
                       /\ Eligible' = Eligible \ {o}
                    => AbsNext
BY DEF AbsNext, Abstract!Next, Abstract!BeginPass, Abstract!Postpone, Abstract!Call,
       Abstract!Forget, Regd, Called, Open

LEMMA AbsReturn ==
    ASSUME Called # None, Called' = None, Open' = Open, Eligible' = Eligible,
           Regd' = Regd \/ Regd' = Regd \ {Called}
    PROVE  AbsNext
BY DEF AbsNext, Abstract!Next, Abstract!Return, Abstract!Fail, Regd, Called, Open

LEMMA AbsShutdown ==
    ASSUME Called = None, Called' = None, Open, ~Open', Regd' = {}, Eligible' = {}
    PROVE  AbsNext
BY DEF AbsNext, Abstract!Next, Abstract!Shutdown, Regd, Called, Open

\* Whom a pass may still call.
LEMMA EligibleIs ==
    /\ pc = "rt" => Eligible = {rt[i].obj : i \in it .. Len(rt)} \cup ObjectsOf(items)
    /\ pc = "callRT" => Eligible = {rt[i].obj : i \in it + 1 .. Len(rt)} \cup ObjectsOf(items)
    /\ pc \in {"step", "call", "merge"} => Eligible = ObjectsOf(items)
    /\ pc \notin {"rt", "callRT", "step", "call", "merge"} => Eligible = {}
BY DEF Eligible

LEMMA EligibleWillBe ==
    /\ pc' = "rt" => Eligible' = {rt'[i].obj : i \in it' .. Len(rt')} \cup ObjectsOf(items')
    /\ pc' = "callRT" =>
           Eligible' = {rt'[i].obj : i \in it' + 1 .. Len(rt')} \cup ObjectsOf(items')
    /\ pc' \in {"step", "call", "merge"} => Eligible' = ObjectsOf(items')
    /\ pc' \notin {"rt", "callRT", "step", "call", "merge"} => Eligible' = {}
BY DEF Eligible

\* The last queued request of an object is a registration.
LastIsReg(o) == \E i \in Pending(o) : /\ registration[i].reg
                                     /\ \A j \in Pending(o) : ~registration[j].reg => j < i

LEMMA RegisteredIs == \A o : Registered(o) <=> IF Pending(o) = {} THEN o \in Listed ELSE LastIsReg(o)
BY DEF Registered, Listed, LastIsReg

LEMMA RegisteredWillBe ==
    \A o : Registered(o)' <=> IF Pending(o)' = {} THEN o \in Listed' ELSE LastIsReg(o)'
BY DEF Registered, Listed, LastIsReg

\* Who is registered, when the queue stays and the lists stay or lose an object.
LEMMA RegdSame ==
    ASSUME registration' = registration, FirstPending' = FirstPending, Listed' = Listed
    PROVE  Regd' = Regd
<1>1. \A o : Pending(o)' = Pending(o)
  BY DEF Pending
<1>2. \A o : LastIsReg(o)' <=> LastIsReg(o)
  BY <1>1 DEF LastIsReg
<1>3. \A o : Registered(o)' <=> Registered(o)
  BY <1>1, <1>2, RegisteredIs, RegisteredWillBe
<1> QED
  BY <1>3 DEF Regd

LEMMA RegdLess ==
    ASSUME registration' = registration, FirstPending' = FirstPending,
           NEW o \in Objects, Listed' = Listed \ {o}
    PROVE  /\ Pending(o) = {} => Regd' = Regd \ {o}
           /\ Pending(o) # {} => Regd' = Regd
<1>1. \A x : Pending(x)' = Pending(x)
  BY DEF Pending
<1>2. \A x : LastIsReg(x)' <=> LastIsReg(x)
  BY <1>1 DEF LastIsReg
<1>3. \A x : x # o \/ Pending(o) # {} => (Registered(x)' <=> Registered(x))
  BY <1>1, <1>2, RegisteredIs, RegisteredWillBe
<1>4. Pending(o) = {} => ~Registered(o)'
  BY <1>1, RegisteredWillBe
<1> QED
  BY <1>3, <1>4 DEF Regd

\* A request at the end of the queue decides about its object and no other.
LEMMA RegdQueued ==
    ASSUME TypeOK, OwnersTurn, NEW R \in ItemReg, R.obj \in Objects, pc' = pc,
           registration' = Append(registration, R), UNCHANGED <<rt, items, processed, cur>>
    PROVE  Regd' = IF R.reg THEN Regd \cup {R.obj} ELSE Regd \ {R.obj}
<1> DEFINE n == Len(registration)
           o == R.obj
<1>1. /\ n \in Nat /\ registration'[n + 1] = R /\ n + 1 \in Pending(o)'
      /\ \A i \in Pending(o)' : i \in Nat /\ i <= n + 1
      /\ \A i \in Pending(o)' : i \in Pending(o) \/ i = n + 1
  <2>1. /\ FirstPending' = 1 /\ n \in Nat /\ Len(registration') = n + 1
        /\ registration'[n + 1] = R /\ n + 1 \in Pending(o)'
    BY QueueAppend
  <2>2. \A i \in Pending(o)' : i \in Nat /\ i <= n + 1
    BY <2>1 DEF Pending
  <2> QED
    BY <2>1, <2>2, QueueAppend
<1>2. \A x : x # o => Pending(x)' = Pending(x)
  BY QueueOthers
<1>3. \A x : \A i \in Pending(x) : registration'[i] = registration[i]
  <2>1. FirstPending = 1 /\ \A j \in 1 .. n : registration'[j] = registration[j]
    BY QueueAppend
  <2> QED
    BY <2>1 DEF Pending
<1>4. Listed' = Listed
  BY DEF Listed, HeapObjects, InFlight
<1>5. \A x : x # o => (Registered(x)' <=> Registered(x))
  <2>1. ASSUME NEW x, x # o PROVE LastIsReg(x)' <=> LastIsReg(x)
    <3>1. Pending(x)' = Pending(x) /\ \A i \in Pending(x) : registration'[i] = registration[i]
      BY <1>2, <1>3, <2>1
    <3> QED
      BY <3>1 DEF LastIsReg
  <2> QED
    BY <1>2, <1>4, <2>1, RegisteredIs, RegisteredWillBe
<1>6. Registered(o)' <=> R.reg
  <2>1. LastIsReg(o)' <=> R.reg
    <3> HIDE DEF n, o
    <3>1. ASSUME R.reg PROVE LastIsReg(o)'
      <4>1. ASSUME NEW j \in Pending(o)', ~registration'[j].reg PROVE j < n + 1
        <5>1. j # n + 1
          BY <1>1, <3>1, <4>1
        <5> QED
          BY <1>1, <5>1
      <4> QED
        BY <1>1, <3>1, <4>1 DEF LastIsReg
    <3>2. ASSUME LastIsReg(o)', ~R.reg PROVE FALSE
      <4>1. PICK i \in Pending(o)' : \A j \in Pending(o)' : ~registration'[j].reg => j < i
        BY <3>2 DEF LastIsReg
      <4>2. n + 1 < i
        BY <1>1, <3>2, <4>1
      <4> QED
        BY <1>1, <4>2
    <3> QED
      BY <3>1, <3>2
  <2> QED
    BY <1>1, <2>1, RegisteredWillBe
<1> HIDE DEF o, n
<1>7. o \in Objects
  BY DEF o
<1>8. Regd' = IF R.reg THEN Regd \cup {o} ELSE Regd \ {o}
  BY <1>5, <1>6, <1>7 DEF Regd
<1> QED
  BY <1>8 DEF o

\* What owners do is one step of the specification: a request takes effect at once.
LEMMA OwnersRefine ==
    ASSUME IInv, IInv', QueuedGone, QueuedGone', NEW o \in Objects,
           (\E asRT \in BOOLEAN : Register(o, asRT)) \/ Unregister(o) \/ SetNeeded(o)
    PROVE  AbsNext
<1>0. /\ it \in Nat \ {0} /\ Len(rt) \in Nat /\ None \notin Objects
      /\ \A i \in 1 .. Len(rt) : rt[i] \in RTItem
  BY ShedulerAssumption DEF IInv, TypeOK
<1>1. OwnersTurn /\ UNCHANGED <<processed, pc, it, cur, processing>>
  BY DEF Register, Unregister, SetNeeded, OwnersTurn
<1>2. UNCHANGED <<Called, Open>>
  BY <1>1 DEF Called, Open
<1>3. UNCHANGED <<rt, items>> => Eligible' = Eligible
  BY <1>1 DEF Eligible
<1>4. CASE SetNeeded(o)
  <2>1. UNCHANGED <<rt, items, processed, registration>>
    BY <1>4 DEF SetNeeded
  <2>2. Regd' = Regd
    BY <1>1, <2>1, RegdSame DEF Listed, HeapObjects, InFlight, FirstPending
  <2> QED
    BY <1>2, <1>3, <2>1, <2>2, AbsStutter
<1>5. ASSUME NEW asRT \in BOOLEAN, Register(o, asRT) PROVE AbsNext
  <2>1. /\ UNCHANGED <<rt, items>> /\ ~Registered(o)
        /\ registration' = Append(registration, [reg |-> TRUE, rt |-> asRT, obj |-> o])
    BY <1>5 DEF Register
  <2>2. PICK R \in ItemReg : registration' = Append(registration, R) /\ R.obj = o /\ R.reg
    <3> DEFINE N == [reg |-> TRUE, rt |-> asRT, obj |-> o]
    <3>1. N \in ItemReg /\ N.obj = o /\ N.reg
      BY DEF ItemReg
    <3> HIDE DEF N
    <3> QED
      BY <2>1, <3>1 DEF N
  <2>3. Regd' = Regd \cup {o}
    BY <1>1, <2>1, <2>2, RegdQueued DEF IInv
  <2>4. o \notin Regd
    BY <2>1 DEF Regd
  <2> QED
    BY <1>2, <1>3, <2>1, <2>3, <2>4, AbsOwners
<1>6. ASSUME Unregister(o), ~AtOnce(o) PROVE AbsNext
  <2>1. /\ UNCHANGED <<rt, items>>
        /\ registration' = Append(registration, [reg |-> FALSE, rt |-> bRT[o], obj |-> o])
    BY <1>6 DEF Unregister
  <2>2. PICK R \in ItemReg : registration' = Append(registration, R) /\ R.obj = o /\ ~R.reg
    <3> DEFINE N == [reg |-> FALSE, rt |-> bRT[o], obj |-> o]
    <3>1. N \in ItemReg /\ N.obj = o /\ ~N.reg
      BY DEF ItemReg, IInv, TypeOK
    <3> HIDE DEF N
    <3> QED
      BY <2>1, <3>1 DEF N
  <2>3. Regd' = Regd \ {o}
    BY <1>1, <2>1, <2>2, RegdQueued DEF IInv
  <2>4. o \notin Eligible
    <3>1. pc \notin {"callRT", "call"} => Eligible = {}
      BY <1>1 DEF OwnersTurn, Eligible
    <3>2. ASSUME pc \in {"callRT", "call"} PROVE o \notin ObjectsOf(rt) \cup ObjectsOf(items)
      <4>1. processing'
        BY <1>1, <3>2 DEF IInv, PhaseOK
      <4>2. Pending(o)' # {}
        BY <1>1, <2>2, QueueAppend DEF IInv
      <4> QED
        BY <2>1, <4>1, <4>2 DEF QueuedGone
    <3>3. ASSUME pc = "callRT" PROVE o \notin Eligible
      <4>1. Eligible = {rt[i].obj : i \in it + 1 .. Len(rt)} \cup ObjectsOf(items)
        BY <3>3, EligibleIs
      <4>2. \A i \in it + 1 .. Len(rt) : rt[i].obj # o
        BY <1>0, <3>2, <3>3 DEF ObjectsOf
      <4> QED
        BY <3>2, <3>3, <4>1, <4>2
    <3>4. ASSUME pc = "call" PROVE o \notin Eligible
      BY <3>2, <3>4, EligibleIs
    <3> QED
      BY <3>1, <3>3, <3>4
  <2> QED
    BY <1>2, <1>3, <2>1, <2>3, <2>4, AbsOwners
<1>7. ASSUME Unregister(o), AtOnce(o) PROVE AbsNext
  <2>1. /\ bRT[o] \in BOOLEAN /\ InternalUnregister(o, bRT[o]) /\ Found(o, bRT[o])
        /\ registration' = registration /\ processing
    BY <1>7 DEF IInv, TypeOK, Unregister, AtOnce
  <2>2. Once(rt) /\ Once(items) /\ TypeOK /\ AtMostOneEntry
    BY DEF IInv, AtMostOneEntry
  <2>3. Pending(o) = {}
    BY <2>1 DEF QueuedGone, Found
  <2>f. processed' = processed /\ InFlight' = InFlight
    BY <1>7 DEF Unregister, InFlight
  <2>i. /\ ObjectsOf(rt') = IF bRT[o] THEN ObjectsOf(rt) \ {o} ELSE ObjectsOf(rt)
        /\ ObjectsOf(items') = IF bRT[o] THEN ObjectsOf(items) ELSE ObjectsOf(items) \ {o}
    BY <2>1, <2>2, InternalUnregisterLists
  <2>4. /\ ObjectsOf(rt') = ObjectsOf(rt) \ {o} /\ ObjectsOf(items') = ObjectsOf(items) \ {o}
        /\ Listed' = Listed \ {o}
    <3>1. CASE bRT[o]
      <4>1. o \in ObjectsOf(rt)
        BY <2>1, <3>1 DEF Found
      <4>2. o \notin HeapObjects
        BY <2>2, <4>1 DEF AtMostOneEntry
      <4> QED
        BY <2>f, <2>i, <3>1, <4>2 DEF Listed, HeapObjects
    <3>2. CASE ~bRT[o]
      <4>1. o \in ObjectsOf(items)
        BY <2>1, <3>2 DEF Found
      <4>2. o \notin ObjectsOf(rt) /\ o \notin ObjectsOf(processed) /\ o \notin InFlight
        BY <2>2, <4>1 DEF AtMostOneEntry, HeapObjects
      <4> QED
        BY <2>f, <2>i, <3>2, <4>2 DEF Listed, HeapObjects
    <3> QED
      BY <3>1, <3>2
  <2>5. Regd' = Regd \ {o}
    BY <1>1, <2>1, <2>3, <2>4, RegdLess DEF FirstPending
  <2>6. Eligible' \subseteq Eligible \ {o}
    <3>1. CASE pc = "callRT"
      <4>1. /\ Eligible = {rt[i].obj : i \in it + 1 .. Len(rt)} \cup ObjectsOf(items)
            /\ Eligible' = {rt'[i].obj : i \in it + 1 .. Len(rt')} \cup ObjectsOf(items')
        BY <1>1, <3>1, EligibleIs, EligibleWillBe
      <4>2. ASSUME NEW j \in it + 1 .. Len(rt')
            PROVE  \E k \in it + 1 .. Len(rt) : rt'[j] = rt[k]
        <5>1. CASE rt' = rt
          BY <5>1
        <5>2. CASE EraseRT(o)
          <6>1. PICK i \in 1 .. Len(rt) : rt' = RemoveAt(rt, i)
            BY <5>2 DEF EraseRT, WithoutRT
          <6>2. /\ Len(RemoveAt(rt, i)) = Len(rt) - 1
                /\ \A k \in 1 .. Len(rt) - 1 :
                      RemoveAt(rt, i)[k] = IF k < i THEN rt[k] ELSE rt[k + 1]
            BY <2>2, RemoveAtType, Zenon DEF TypeOK
          <6>3. j \in 1 .. Len(rt) - 1 /\ j \in it + 1 .. Len(rt) /\ j + 1 \in it + 1 .. Len(rt)
            BY <1>0, <4>2, <6>1, <6>2
          <6> QED
            BY <6>1, <6>2, <6>3
        <5> QED
          BY <2>1, <5>1, <5>2 DEF InternalUnregister, CancelItem
      <4>3. Len(rt') \in Nat /\ \A i \in 1 .. Len(rt') : rt'[i] \in RTItem
        BY DEF IInv, TypeOK
      <4>4. \A j \in it + 1 .. Len(rt') : rt'[j].obj # o
        <5>1. \A j \in 1 .. Len(rt') : rt'[j].obj \in ObjectsOf(rt')
          BY <1>0, <4>3 DEF ObjectsOf, RTItem
        <5> QED
          BY <1>0, <2>4, <4>3, <5>1
      <4> QED
        BY <2>4, <4>1, <4>2, <4>4
    <3>2. CASE pc = "call"
      BY <1>1, <2>4, <3>2, EligibleIs, EligibleWillBe
    <3>3. CASE pc = "idle"
      BY <1>1, <3>3, EligibleIs, EligibleWillBe
    <3> QED
      BY <1>1, <3>1, <3>2, <3>3 DEF OwnersTurn
  <2> QED
    BY <1>2, <2>5, <2>6, AbsOwners
<1> QED
  BY <1>4, <1>5, <1>6, <1>7

\* The queue is read between passes, when nobody is called: who is registered stays.
LEMMA RegEntryRefines ==
    ASSUME IInv, RegEntry, \A x \in Objects : Registered(x)' <=> Registered(x)
    PROVE  AbsNext
<1>1. Called' = Called /\ Open' = Open
  BY DEF RegEntry, RegPhases, Called, Open, CallPhases
<1>2. Eligible = {} /\ Eligible' = {}
  BY EligibleIs, EligibleWillBe DEF RegEntry, RegPhases
<1>3. Regd' = Regd
  BY DEF Regd
<1> QED
  BY <1>1, <1>2, <1>3, AbsStutter

LEMMA RegAddRefines == ASSUME IInv, IInv', RegAdd PROVE AbsNext
<1>0. RegEntry /\ registration[it].reg /\ ~HasPair(it) /\ registration' = registration
  BY DEF RegAdd
<1>1. PICK o \in Objects, n \in Nat :
           /\ o = registration[it].obj /\ n = Len(registration) /\ it \in 1 .. n
           /\ FirstPending = it /\ FirstPending' = it + 1
  BY <1>0, EntryRead DEF ItemReg
<1>2. o \notin Listed
  BY <1>0, <1>1, FirstIsNew DEF Listed
<1>3. it \in Pending(o) /\ \A j \in Pending(o) : registration[j].reg
  <2>1. it \in Pending(o)
    BY <1>1 DEF Pending
  <2>2. ASSUME NEW j \in Pending(o), ~registration[j].reg PROVE FALSE
    <3>1. j \in it + 1 .. n /\ registration[j].obj = o
      BY <1>0, <1>1, <2>2 DEF Pending
    <3> QED
      BY <1>0, <1>1, <2>2, <3>1 DEF HasPair, Pairs
  <2> QED
    BY <2>1, <2>2
<1>4. Registered(o)
  BY <1>3, RegisteredIs DEF LastIsReg
<1>5. Pending(o)' \subseteq Pending(o)
  BY <1>0, <1>1 DEF Pending
<1>6. /\ o \in Listed' /\ \A x \in Objects : x # o => (x \in Listed' <=> x \in Listed)
  <2>1. InternalRegister(o, registration[it].rt) /\ registration[it].rt \in BOOLEAN
    BY <1>0, <1>1, EntryRead DEF RegAdd, ItemReg
  <2>2. /\ Listed = ObjectsOf(rt) \cup ObjectsOf(items)
        /\ Listed' = ObjectsOf(rt') \cup ObjectsOf(items')
    BY <1>0, EntryRead DEF Listed
  <2>3. rt \in Seq(RTItem) /\ items \in Seq(Item) /\ o # None
    BY ShedulerAssumption DEF IInv, TypeOK
  <2>4. CASE registration[it].rt
    <3>1. rt' = Append(rt, [obj |-> o, last |-> 0]) /\ items' = items
      BY <2>1, <2>4 DEF InternalRegister
    <3>2. PICK e \in RTItem : rt' = Append(rt, e) /\ e.obj = o
      <4> DEFINE N == [obj |-> o, last |-> 0]
      <4>1. N \in RTItem /\ N.obj = o
        BY DEF RTItem
      <4> HIDE DEF N
      <4> QED
        BY <3>1, <4>1 DEF N
    <3>3. ObjectsOf(rt') = ObjectsOf(rt) \cup {o}
      BY <2>3, <3>2, AppendObjects
    <3> QED
      BY <2>2, <3>1, <3>3
  <2>5. CASE ~registration[it].rt
    <3>1. items' = Append(items, [obj |-> o, at |-> 0, last |-> 0]) /\ rt' = rt
      BY <2>1, <2>5 DEF InternalRegister
    <3>2. PICK e \in Item : items' = Append(items, e) /\ e.obj = o
      <4> DEFINE N == [obj |-> o, at |-> 0, last |-> 0]
      <4>1. N \in Item /\ N.obj = o
        BY DEF Item
      <4> HIDE DEF N
      <4> QED
        BY <3>1, <4>1 DEF N
    <3>3. ObjectsOf(items') = ObjectsOf(items) \cup {o}
      BY <2>3, <3>2, AppendObjects
    <3> QED
      BY <2>2, <3>1, <3>3
  <2> QED
    BY <2>4, <2>5
<1>7. Registered(o)'
  <2>1. \A j \in Pending(o)' : registration'[j].reg
    BY <1>0, <1>3, <1>5
  <2>2. Pending(o)' # {} => LastIsReg(o)'
    BY <2>1 DEF LastIsReg
  <2> QED
    BY <1>6, <2>2, RegisteredWillBe
<1>8. ASSUME NEW x \in Objects, x # o PROVE Registered(x)' <=> Registered(x)
  <2>1. Pending(x)' = Pending(x)
    BY <1>0, <1>1, <1>8, OthersKeep
  <2>2. LastIsReg(x)' <=> LastIsReg(x)
    BY <1>0, <2>1 DEF LastIsReg
  <2> QED
    BY <1>6, <1>8, <2>1, <2>2, RegisteredIs, RegisteredWillBe
<1> QED
  BY <1>0, <1>4, <1>7, <1>8, RegEntryRefines

LEMMA RegRemoveRefines == ASSUME IInv, IInv', RegRemove PROVE AbsNext
<1>0. RegEntry /\ ~registration[it].reg /\ registration' = registration
  BY DEF RegRemove
<1>1. PICK o \in Objects, asRT \in BOOLEAN, n \in Nat :
           /\ o = registration[it].obj /\ asRT = registration[it].rt
           /\ n = Len(registration) /\ it \in 1 .. n
           /\ FirstPending = it /\ FirstPending' = it + 1
  BY <1>0, EntryRead DEF ItemReg
<1>2. /\ it \in Pending(o) /\ \A j \in Pending(o) : it <= j
      /\ Pending(o)' = Pending(o) \ {it}
  BY <1>0, <1>1 DEF Pending
<1>3. /\ Listed = ObjectsOf(rt) \cup ObjectsOf(items)
      /\ Listed' = ObjectsOf(rt') \cup ObjectsOf(items')
      /\ HeapObjects = ObjectsOf(items)
  BY <1>0, EntryRead DEF Listed
<1>4. Listed' = Listed \ {o}
  <2>1. ListFlag(o, asRT)
    BY <1>0, <1>1, <1>2 DEF IInv, FlagsMatch
  <2>2. InternalUnregister(o, asRT)
    BY <1>1 DEF RegRemove, QueuedRT
  <2>3. /\ ObjectsOf(rt') = IF asRT THEN ObjectsOf(rt) \ {o} ELSE ObjectsOf(rt)
        /\ ObjectsOf(items') = IF asRT THEN ObjectsOf(items) ELSE ObjectsOf(items) \ {o}
    BY <2>2, InternalUnregisterLists DEF IInv, AtMostOneEntry
  <2>4. /\ asRT => o \notin ObjectsOf(items)
        /\ ~asRT => o \notin ObjectsOf(rt)
    BY <1>3, <2>1 DEF ListFlag
  <2> QED
    BY <1>3, <2>3, <2>4
<1>5. Registered(o)' <=> Registered(o)
  <2>1. ASSUME LastIsReg(o) PROVE Pending(o)' # {} /\ LastIsReg(o)'
    <3>1. PICK i \in Pending(o) : /\ registration[i].reg
                                  /\ \A j \in Pending(o) : ~registration[j].reg => j < i
      BY <2>1 DEF LastIsReg
    <3>2. i \in Pending(o)'
      BY <1>0, <1>2, <3>1
    <3> QED
      BY <1>0, <1>2, <3>1, <3>2 DEF LastIsReg
  <2>2. ASSUME LastIsReg(o)' PROVE LastIsReg(o)
    <3>1. PICK i \in Pending(o)' : /\ registration[i].reg
                                   /\ \A j \in Pending(o)' : ~registration[j].reg => j < i
      BY <1>0, <2>2 DEF LastIsReg
    <3>2. i \in Pending(o) /\ it < i
      <4>1. i \in Nat /\ it \in Nat /\ i \in Pending(o) /\ i # it /\ it <= i
        BY <1>1, <1>2 DEF Pending
      <4> QED
        BY <4>1
    <3> QED
      BY <1>2, <3>1, <3>2 DEF LastIsReg
  <2>3. Pending(o) # {} /\ o \notin Listed'
    BY <1>2, <1>4
  <2> QED
    BY <2>1, <2>2, <2>3, RegisteredIs, RegisteredWillBe
<1>6. ASSUME NEW x \in Objects, x # o PROVE Registered(x)' <=> Registered(x)
  <2>1. Pending(x)' = Pending(x)
    BY <1>0, <1>1, <1>6, OthersKeep
  <2>2. LastIsReg(x)' <=> LastIsReg(x)
    BY <1>0, <2>1 DEF LastIsReg
  <2> QED
    BY <1>4, <1>6, <2>1, <2>2, RegisteredIs, RegisteredWillBe
<1> QED
  BY <1>0, <1>5, <1>6, RegEntryRefines

\* A registration that is taken back while it is queued leaves its object as it was.
LEMMA RegSkipPairRefines == ASSUME IInv, IInv', RegSkipPair PROVE AbsNext
<1>0. RegEntry /\ registration[it].reg /\ UNCHANGED <<rt, items, bRT>>
  BY DEF RegSkipPair
<1>p. PICK n, t, o, p : SkipsPair(n, t, o, p)
  BY SkipPair
<1>1. /\ n \in Nat /\ t \in Nat \ {0} /\ o \in Objects /\ p \in t + 1 .. n
      /\ n = Len(registration) /\ t = it /\ t \in 1 .. n /\ FirstPending = t
      /\ o = registration[t].obj /\ ~registration[p].reg /\ registration[p].obj = o
      /\ \A q \in t + 1 .. p - 1 : ~(~registration[q].reg /\ registration[q].obj = o)
  BY <1>p DEF SkipsPair
<1>2. \A x : \A j \in Pending(x)' :
          /\ Old(p, j) \in Pending(x) /\ Old(p, j) # p /\ Old(p, j) > t
          /\ registration'[j] = registration[Old(p, j)] /\ j \in Nat
  BY <1>p DEF SkipsPair
<1>3. \A x : \A j \in Pending(x) : j # t /\ j # p =>
          New(p, j) \in Pending(x)' /\ j \in Nat /\ Old(p, New(p, j)) = j
  BY <1>p DEF SkipsPair
<1>4. Listed' = Listed
  BY <1>0, EntryRead DEF Listed
<1>5. t \in Pending(o) /\ p \in Pending(o) /\ registration[t].reg
  BY <1>0, <1>1 DEF Pending
<1>6. o \notin Listed
  BY <1>0, <1>1, FirstIsNew DEF Listed
<1>7. \A x : \A j \in Pending(x) : j \in t .. n
  BY <1>1 DEF Pending
\* The last request of an object, but for the two that go, is the last one behind them.
<1>8. ASSUME NEW x, NEW i \in Pending(x), i # t, i # p, registration[i].reg,
             \A j \in Pending(x) : ~registration[j].reg => j < i
      PROVE  Pending(x)' # {} /\ LastIsReg(x)'
  <2>1. New(p, i) \in Pending(x)' /\ registration'[New(p, i)] = registration[i]
    BY <1>2, <1>3, <1>8
  <2>2. ASSUME NEW j \in Pending(x)', ~registration'[j].reg PROVE j < New(p, i)
    <3>1. Old(p, j) < i /\ Old(p, j) # p /\ j \in Nat
      BY <1>2, <1>8, <2>2
    <3>2. i \in Nat /\ p \in Nat
      BY <1>1, <1>3, <1>8
    <3> QED
      BY <1>8, <3>1, <3>2 DEF Old, New
  <2> QED
    BY <1>8, <2>1, <2>2 DEF LastIsReg
<1>9. ASSUME NEW x, NEW i \in Pending(x)', registration'[i].reg,
             \A j \in Pending(x)' : ~registration'[j].reg => j < i
      PROVE  /\ Old(p, i) \in Pending(x) /\ Old(p, i) # p /\ Old(p, i) > t
             /\ registration[Old(p, i)].reg
             /\ \A j \in Pending(x) : j # p /\ ~registration[j].reg => j < Old(p, i)
  <2>1. /\ Old(p, i) \in Pending(x) /\ Old(p, i) # p /\ Old(p, i) > t /\ i \in Nat
        /\ registration[Old(p, i)].reg
    BY <1>2, <1>9
  <2>2. ASSUME NEW j \in Pending(x), j # p, ~registration[j].reg PROVE j < Old(p, i)
    <3>1. j # t
      BY <1>0, <1>1, <2>2
    <3>2. New(p, j) \in Pending(x)' /\ j \in Nat /\ registration'[New(p, j)] = registration[j]
      BY <1>2, <1>3, <2>2, <3>1
    <3>3. New(p, j) < i
      BY <1>9, <2>2, <3>2
    <3>4. p \in Nat
      BY <1>1
    <3> QED
      BY <2>1, <2>2, <3>2, <3>3, <3>4 DEF Old, New
  <2> QED
    BY <2>1, <2>2
<1>10. ASSUME NEW x \in Objects, x # o PROVE Registered(x)' <=> Registered(x)
  <2>1. \A j \in Pending(x) : j # t /\ j # p
    BY <1>1, <1>10 DEF Pending
  <2>2. Pending(x)' = {} <=> Pending(x) = {}
    BY <1>2, <1>3, <2>1
  <2>3. LastIsReg(x) => LastIsReg(x)'
    BY <1>8, <2>1 DEF LastIsReg
  <2>4. LastIsReg(x)' => LastIsReg(x)
    <3> SUFFICES ASSUME LastIsReg(x)' PROVE LastIsReg(x)
      OBVIOUS
    <3>1. PICK i \in Pending(x)' : /\ registration'[i].reg
                                   /\ \A j \in Pending(x)' : ~registration'[j].reg => j < i
      BY DEF LastIsReg
    <3>2. /\ Old(p, i) \in Pending(x) /\ registration[Old(p, i)].reg
          /\ \A j \in Pending(x) : j # p /\ ~registration[j].reg => j < Old(p, i)
      BY <1>9, <3>1
    <3> QED
      BY <2>1, <3>2 DEF LastIsReg
  <2> QED
    BY <1>4, <2>2, <2>3, <2>4, RegisteredIs, RegisteredWillBe
<1>11. Registered(o)' <=> Registered(o)
  <2>1. ASSUME LastIsReg(o) PROVE Pending(o)' # {} /\ LastIsReg(o)'
    <3>1. PICK i \in Pending(o) : /\ registration[i].reg
                                  /\ \A j \in Pending(o) : ~registration[j].reg => j < i
      BY <2>1 DEF LastIsReg
    <3>2. i # t /\ i # p
      BY <1>1, <1>5, <3>1
    <3> QED
      BY <1>8, <3>1, <3>2
  <2>2. ASSUME LastIsReg(o)' PROVE LastIsReg(o)
    <3>1. PICK i \in Pending(o)' : /\ registration'[i].reg
                                   /\ \A j \in Pending(o)' : ~registration'[j].reg => j < i
      BY <2>2 DEF LastIsReg
    <3>2. PICK k \in Pending(o) : /\ k # p /\ k > t /\ registration[k].reg
                                  /\ \A j \in Pending(o) : j # p /\ ~registration[j].reg => j < k
      BY <1>9, <3>1
    <3>3. p < k
      <4>1. Cancels(o, t + 1, k - 1)
        BY <1>1, <1>5, <3>2 DEF IInv, QueueReplays
      <4>2. PICK q \in t + 1 .. k - 1 : ~registration[q].reg /\ registration[q].obj = o
        BY <4>1 DEF Cancels
      <4>3. k \in t .. n
        BY <1>7
      <4> QED
        BY <1>1, <3>2, <4>2, <4>3
    <3> QED
      BY <3>2, <3>3 DEF LastIsReg
  <2> QED
    BY <1>4, <1>5, <1>6, <2>1, <2>2, RegisteredIs, RegisteredWillBe
<1> QED
  BY <1>0, <1>10, <1>11, RegEntryRefines

\* The end of the queue begins a pass, ends it or ends everything.
LEMMA RegDoneRefines == ASSUME IInv, IInv', RegDone PROVE AbsNext
<1>1. /\ pc \in RegPhases /\ it > Len(registration) /\ registration' = <<>> /\ it' = 1
      /\ UNCHANGED <<processed, cur>>
      /\ \/ pc' = "rt" /\ UNCHANGED <<rt, items>>
         \/ pc' = "idle" /\ UNCHANGED <<rt, items>>
         \/ pc' = "off" /\ rt' = <<>> /\ items' = <<>>
  BY DEF RegDone, RegPhases
<1>2. InFlight = {} /\ InFlight' = {} /\ ObjectsOf(processed) = {} /\ ObjectsOf(processed') = {}
  BY <1>1 DEF InFlight, RegPhases, IInv, PhaseOK, ObjectsOf
<1>3. Listed = ObjectsOf(rt) \cup ObjectsOf(items) /\ Listed' = ObjectsOf(rt') \cup ObjectsOf(items')
  BY <1>2 DEF Listed, HeapObjects
<1>4. \A x : Pending(x) = {} /\ Pending(x)' = {}
  <2>1. FirstPending = it /\ FirstPending' = 1
    BY <1>1 DEF FirstPending, RegPhases
  <2>2. it \in Nat /\ Len(registration) \in Nat
    BY DEF IInv, TypeOK
  <2> QED
    BY <1>1, <2>1, <2>2 DEF Pending
<1>5. /\ \A x \in Objects : x \in Regd <=> x \in Listed
      /\ \A x \in Objects : x \in Regd' <=> x \in Listed'
  BY <1>4, RegisteredIs, RegisteredWillBe DEF Regd
<1>6. Called = None /\ Called' = None /\ Open /\ Eligible = {}
  BY <1>1, EligibleIs DEF Called, Open, RegPhases, CallPhases
<1>7. CASE pc' = "rt"
  <2>1. UNCHANGED <<rt, items>> /\ Open'
    BY <1>1, <1>7 DEF Open
  <2>2. Regd' = Regd
    BY <1>3, <1>5, <2>1 DEF Regd
  <2>3. Eligible' = {rt[i].obj : i \in 1 .. Len(rt)} \cup ObjectsOf(items)
    BY <1>1, <1>7, <2>1, EligibleWillBe
  <2>4. {rt[i].obj : i \in 1 .. Len(rt)} = ObjectsOf(rt)
    <3>1. \A i \in 1 .. Len(rt) : rt[i] \in RTItem
      BY DEF IInv, TypeOK
    <3>2. \A i \in 1 .. Len(rt) : rt[i].obj # None
      BY <3>1, ShedulerAssumption DEF RTItem
    <3> QED
      BY <3>2 DEF ObjectsOf
  <2>5. Listed \subseteq Objects
    <3>1. rt \in Seq(RTItem) /\ items \in Seq(Item)
      BY DEF IInv, TypeOK
    <3>a. /\ \A i \in 1 .. Len(rt) : rt[i] \in RTItem
          /\ \A i \in 1 .. Len(items) : items[i] \in Item
      BY <3>1
    <3>2. \A i \in 1 .. Len(rt) : rt[i].obj \in Objects
      BY <3>a DEF RTItem
    <3>3. \A i \in 1 .. Len(items) : items[i].obj \in Objects \cup {None}
      BY <3>a DEF Item
    <3>4. ObjectsOf(rt) \subseteq Objects
      BY <3>2, Zenon DEF ObjectsOf
    <3>5. ObjectsOf(items) \subseteq Objects
      BY <3>3, Zenon DEF ObjectsOf
    <3> QED
      BY <1>3, <3>4, <3>5
  <2>6. Eligible' = Regd
    BY <1>3, <1>5, <2>3, <2>4, <2>5 DEF Regd
  <2> QED
    BY <1>6, <2>1, <2>2, <2>6, AbsPass
<1>8. CASE pc' = "idle"
  <2>1. Regd' = Regd
    BY <1>1, <1>3, <1>5, <1>8 DEF Regd
  <2>2. Eligible' = {} /\ Open'
    BY <1>8, EligibleWillBe DEF Open
  <2> QED
    BY <1>6, <2>1, <2>2, AbsStutter
<1>9. CASE pc' = "off"
  <2>1. Listed' = {}
    BY <1>1, <1>3, <1>9 DEF ObjectsOf
  <2>2. Regd' = {}
    BY <1>5, <2>1 DEF Regd
  <2>3. Eligible' = {} /\ ~Open'
    BY <1>9, EligibleWillBe DEF Open
  <2> QED
    BY <1>6, <2>2, <2>3, AbsShutdown
<1> QED
  BY <1>1, <1>7, <1>8, <1>9

\* The loop over ItemsRT.
LEMMA RTRefines ==
    ASSUME IInv, IInv', SkipRT \/ CallRT \/ ReturnRT \/ EndRT
    PROVE  AbsNext
<1>0. /\ it \in Nat \ {0} /\ Len(rt) \in Nat /\ None \notin Objects
      /\ \A i \in 1 .. Len(rt) : rt[i] \in RTItem
  BY ShedulerAssumption DEF IInv, TypeOK
<1>o. \A i \in 1 .. Len(rt) : rt[i].obj \in Objects
  BY <1>0 DEF RTItem
<1>f. FirstPending' = FirstPending /\ Open' = Open
  BY DEF SkipRT, CallRT, ReturnRT, EndRT, FirstPending, RegPhases, Open
<1>i. InFlight = {} /\ InFlight' = {}
  BY DEF SkipRT, CallRT, ReturnRT, EndRT, InFlight
<1>l. UNCHANGED <<items, processed, registration>>
  BY DEF SkipRT, CallRT, ReturnRT, EndRT
<1>r. ObjectsOf(rt') = ObjectsOf(rt) => Regd' = Regd
  BY <1>f, <1>i, <1>l, RegdSame DEF Listed, HeapObjects
<1>1. CASE SkipRT
  <2>1. /\ ObjectsOf(rt') = ObjectsOf(rt) /\ Len(rt') = Len(rt)
        /\ \A j \in 1 .. Len(rt) : rt'[j].obj = rt[j].obj
    BY <1>1, LoopLists
  <2>2. pc = "rt" /\ pc' = "rt" /\ it' = it + 1
    BY <1>1 DEF SkipRT, ContinueRT
  <2>3. /\ Eligible = {rt[i].obj : i \in it .. Len(rt)} \cup ObjectsOf(items)
        /\ Eligible' = {rt'[i].obj : i \in it + 1 .. Len(rt)} \cup ObjectsOf(items)
    BY <1>l, <2>1, <2>2, EligibleIs, EligibleWillBe
  <2>4. \A i \in it + 1 .. Len(rt) : i \in it .. Len(rt) /\ rt'[i].obj = rt[i].obj
    BY <1>0, <2>1
  <2>5. Eligible' \subseteq Eligible
    BY <2>3, <2>4
  <2>6. Called = None /\ Called' = None
    BY <2>2 DEF Called, CallPhases
  <2> QED
    BY <1>f, <1>r, <2>1, <2>5, <2>6, AbsPass
<1>2. CASE CallRT
  <2>1. PICK o \in Objects : o = rt[it].obj
    BY <1>0, <1>o, <1>2 DEF CallRT
  <2>2. /\ pc = "rt" /\ pc' = "callRT" /\ it' = it /\ rt' = rt /\ it \in 1 .. Len(rt)
        /\ cur' = [obj |-> o, at |-> 0, last |-> rt[it].last]
    BY <1>0, <1>2, <2>1 DEF CallRT
  <2>3. /\ Eligible = {rt[i].obj : i \in it .. Len(rt)} \cup ObjectsOf(items)
        /\ Eligible' = {rt[i].obj : i \in it + 1 .. Len(rt)} \cup ObjectsOf(items)
    BY <1>l, <2>2, EligibleIs, EligibleWillBe
  <2>4. o \notin ObjectsOf(items)
    <3>1. o \in ObjectsOf(rt)
      BY <1>0, <2>1, <2>2 DEF ObjectsOf
    <3> QED
      BY <3>1 DEF IInv, AtMostOneEntry, HeapObjects
  <2>5. \A i \in it .. Len(rt) : rt[i].obj = o <=> i = it
    <3>1. \A i \in it .. Len(rt) : i \in 1 .. Len(rt)
      BY <1>0
    <3> QED
      BY <1>0, <2>1, <2>2, <3>1 DEF IInv, AtMostOneEntry, Once
  <2>6. \A i : i \in it .. Len(rt) <=> i = it \/ i \in it + 1 .. Len(rt)
    BY <1>0, <2>2
  <2>7. o \in Eligible /\ Eligible' = Eligible \ {o}
    <3>1. o \in Eligible
      BY <2>1, <2>3, <2>6
    <3>2. o \notin Eligible'
      BY <1>0, <2>3, <2>4, <2>5, <2>6
    <3>3. \A x : x \in Eligible' => x \in Eligible
      BY <2>3, <2>6
    <3>4. \A x : x \in Eligible /\ x # o => x \in Eligible'
      BY <2>1, <2>3, <2>6
    <3> QED
      BY <3>1, <3>2, <3>3, <3>4
  <2>8. Called = None /\ Called' = o
    BY <2>2 DEF Called, CallPhases
  <2>9. Regd' = Regd
    BY <1>r, <2>2
  <2> QED
    BY <1>f, <2>7, <2>8, <2>9, AbsPass
<1>3. CASE ReturnRT
  <2>1. /\ ObjectsOf(rt') = ObjectsOf(rt) /\ Len(rt') = Len(rt)
        /\ \A j \in 1 .. Len(rt) : rt'[j].obj = rt[j].obj
    BY <1>3, LoopLists
  <2>2. pc = "callRT" /\ pc' = "rt" /\ it' = it + 1
    BY <1>3 DEF ReturnRT
  <2>3. /\ Eligible = {rt[i].obj : i \in it + 1 .. Len(rt)} \cup ObjectsOf(items)
        /\ Eligible' = {rt'[i].obj : i \in it + 1 .. Len(rt)} \cup ObjectsOf(items)
    BY <1>l, <2>1, <2>2, EligibleIs, EligibleWillBe
  <2>4. \A i \in it + 1 .. Len(rt) : rt'[i].obj = rt[i].obj
    BY <1>0, <2>1
  <2>5. Eligible' = Eligible
    BY <2>3, <2>4
  <2>6. Called # None /\ Called' = None
    BY <1>0, <2>2 DEF Called, CallPhases, IInv, PhaseOK
  <2> QED
    BY <1>f, <1>r, <2>1, <2>5, <2>6, AbsReturn
<1>4. CASE EndRT
  <2>1. pc = "rt" /\ pc' = "step" /\ it > Len(rt) /\ rt' = rt
    BY <1>4 DEF EndRT
  <2>2. /\ Eligible = {rt[i].obj : i \in it .. Len(rt)} \cup ObjectsOf(items)
        /\ Eligible' = ObjectsOf(items)
    BY <1>l, <2>1, EligibleIs, EligibleWillBe
  <2>3. it .. Len(rt) = {}
    BY <1>0, <2>1
  <2>4. Eligible' = Eligible
    BY <2>2, <2>3
  <2>5. Called' = Called
    BY <2>1 DEF Called, CallPhases
  <2> QED
    BY <1>f, <1>r, <2>1, <2>4, <2>5, AbsStutter
<1> QED
  BY <1>1, <1>2, <1>3, <1>4

\* ProcessStep, its end and the merge.
LEMMA StepRefines ==
    ASSUME IInv, IInv', QueuedGone,
           DropItem \/ CallItem \/ ReturnItem \/ FaultItem \/ EndStep \/ Merge
    PROVE  AbsNext
<1>0. /\ items \in Seq(Item) /\ processed \in Seq(Item) /\ None \notin Objects
      /\ \A i \in 1 .. Len(items) : items[i] \in Item
      /\ AtMostOneEntry /\ PhaseOK /\ Once(items)
  BY ShedulerAssumption DEF IInv, TypeOK, AtMostOneEntry
<1>f. FirstPending' = FirstPending /\ Open' = Open
  BY DEF DropItem, CallItem, ReturnItem, FaultItem, EndStep, Merge, FirstPending, RegPhases, Open
<1>l. UNCHANGED <<rt, registration>> /\ processing
  BY <1>0 DEF DropItem, CallItem, ReturnItem, FaultItem, EndStep, Merge, PhaseOK
<1>e. Eligible = ObjectsOf(items)
  BY EligibleIs DEF DropItem, CallItem, ReturnItem, FaultItem, EndStep, Merge
<1>1. CASE DropItem
  <2>1. PICK k \in 1 .. Len(items) : items' = RemoveAt(items, k)
    BY <1>1 DEF DropItem, PopUnneeded
  <2>2. ObjectsOf(items') = ObjectsOf(items) \ {items[k].obj}
    BY <1>0, <2>1, RemoveObjects
  <2>3. pc = "step" /\ pc' = "step" /\ processed' = processed
    BY <1>1 DEF DropItem
  <2>4. Called = None /\ Called' = None /\ InFlight = {} /\ InFlight' = {}
    BY <2>3 DEF Called, CallPhases, InFlight
  <2>5. Eligible' = ObjectsOf(items')
    BY <2>3, EligibleWillBe
  <2>6. CASE items[k].obj = None
    <3>1. ObjectsOf(items') = ObjectsOf(items)
      BY <2>2, <2>6 DEF ObjectsOf
    <3>2. Regd' = Regd
      BY <1>f, <1>l, <2>3, <2>4, <3>1, RegdSame DEF Listed, HeapObjects
    <3> QED
      BY <1>e, <1>f, <2>4, <2>5, <3>1, <3>2, AbsStutter
  <2>7. CASE items[k].obj # None
    <3>1. PICK o \in Objects : o = items[k].obj
      BY <1>0, <2>7 DEF Item
    <3>2. o \in ObjectsOf(items)
      BY <2>7, <3>1 DEF ObjectsOf
    <3>3. o \notin ObjectsOf(rt) /\ o \notin ObjectsOf(processed)
      BY <1>0, <3>2 DEF AtMostOneEntry, HeapObjects
    <3>4. Listed' = Listed \ {o}
      BY <1>l, <2>2, <2>3, <2>4, <3>1, <3>3 DEF Listed, HeapObjects
    <3>5. Pending(o) = {}
      BY <1>l, <3>2 DEF QueuedGone
    <3>6. Regd' = Regd \ {o}
      BY <1>f, <1>l, <3>4, <3>5, RegdLess
    <3> QED
      BY <1>e, <1>f, <2>2, <2>4, <2>5, <3>1, <3>2, <3>6, AbsPass
  <2> QED
    BY <2>6, <2>7
<1>2. CASE CallItem
  <2>1. PICK k \in 1 .. Len(items) : ~Unneeded(k) /\ items' = RemoveAt(items, k) /\ cur'.obj = items[k].obj
    <3>1. PICK k \in 1 .. Len(items) : /\ ~Unneeded(k)
                                       /\ items' = RemoveAt(items, k)
                                       /\ cur' = Told(items[k])
      BY <1>2 DEF CallItem
    <3>2. items[k] \in Item /\ items[k].obj \in Objects
      BY <1>0, <3>1 DEF IInv, TypeOK, Unneeded
    <3> QED
      BY <3>1, <3>2, ToldIs
  <2>2. PICK o \in Objects : o = items[k].obj
    BY <2>1 DEF Unneeded
  <2>3. ObjectsOf(items') = ObjectsOf(items) \ {o} /\ o \in ObjectsOf(items)
    <3>1. ObjectsOf(items') = ObjectsOf(items) \ {o}
      BY <1>0, <2>1, <2>2, RemoveObjects
    <3>2. o \in ObjectsOf(items)
      BY <1>0, <2>1, <2>2 DEF ObjectsOf
    <3> QED
      BY <3>1, <3>2
  <2>4. pc = "step" /\ pc' = "call" /\ processed' = processed
    BY <1>2 DEF CallItem
  <2>5. Called = None /\ Called' = o /\ InFlight = {} /\ InFlight' = {o}
    BY <2>1, <2>2, <2>4 DEF Called, CallPhases, InFlight
  <2>6. Listed' = Listed
    BY <1>l, <2>3, <2>4, <2>5 DEF Listed, HeapObjects
  <2>7. Regd' = Regd
    BY <1>f, <1>l, <2>6, RegdSame
  <2>8. Eligible' = ObjectsOf(items')
    BY <2>4, EligibleWillBe
  <2> QED
    BY <1>e, <1>f, <2>3, <2>5, <2>7, <2>8, AbsPass
<1>3. CASE ReturnItem \/ FaultItem
  <2>1. PICK o \in Objects : o = cur.obj
    BY <1>0, <1>3 DEF ReturnItem, FaultItem, PhaseOK, CallPhases
  <2>2. pc = "call" /\ pc' \in {"step", "merge"} /\ items' = items
    BY <1>3 DEF ReturnItem, FaultItem
  <2>3. Called = o /\ Called' = None /\ o # None /\ InFlight = {o} /\ InFlight' = {}
    BY <1>0, <2>1, <2>2 DEF Called, CallPhases, InFlight
  <2>4. Eligible' = Eligible
    BY <1>e, <2>2, EligibleWillBe
  <2>5. CASE ReturnItem
    <3>1. PICK e \in Item : e.obj = o /\ processed' = Append(processed, e)
      <4>1. PICK d \in Intervals : processed' = Append(processed, [obj |-> o, at |-> d, last |-> 0])
        BY <2>1, <2>5 DEF ReturnItem
      <4> DEFINE N == [obj |-> o, at |-> d, last |-> 0]
      <4>2. N \in Item /\ N.obj = o
        BY ShedulerAssumption DEF Item
      <4> HIDE DEF N
      <4> QED
        BY <4>1, <4>2 DEF N
    <3>2. ObjectsOf(processed') = ObjectsOf(processed) \cup {o}
      BY <1>0, <2>3, <3>1, AppendObjects
    <3>3. Listed' = Listed
      BY <1>l, <2>2, <2>3, <3>2 DEF Listed, HeapObjects
    <3>4. Regd' = Regd
      BY <1>f, <1>l, <3>3, RegdSame
    <3> QED
      BY <1>f, <2>3, <2>4, <3>4, AbsReturn
  <2>6. CASE FaultItem
    <3>1. processed' = processed
      BY <2>6 DEF FaultItem
    <3>2. o \notin ObjectsOf(rt) /\ o \notin ObjectsOf(items) /\ o \notin ObjectsOf(processed)
      BY <1>0, <2>3 DEF AtMostOneEntry, HeapObjects
    <3>3. Listed' = Listed \ {o}
      BY <1>l, <2>2, <2>3, <3>1, <3>2 DEF Listed, HeapObjects
    <3>4. Regd' = Regd \/ Regd' = Regd \ {o}
      BY <1>f, <1>l, <3>3, RegdLess
    <3> QED
      BY <1>f, <2>3, <2>4, <3>4, AbsReturn
  <2> QED
    BY <1>3, <2>5, <2>6
<1>4. CASE EndStep
  <2>1. pc = "step" /\ pc' = "merge" /\ UNCHANGED <<items, processed>>
    BY <1>4 DEF EndStep
  <2>2. Called' = Called /\ InFlight' = InFlight
    BY <2>1 DEF Called, CallPhases, InFlight
  <2>3. Regd' = Regd
    BY <1>f, <1>l, <2>1, <2>2, RegdSame DEF Listed, HeapObjects
  <2>4. Eligible' = Eligible
    BY <1>e, <2>1, EligibleWillBe
  <2> QED
    BY <1>f, <2>2, <2>3, <2>4, AbsStutter
<1>5. CASE Merge
  <2>1. /\ pc = "merge" /\ pc' = "regAfter" /\ processed' = <<>>
        /\ items' = items \o Reverse(processed)
    BY <1>5 DEF Merge
  <2>2. Called = None /\ Called' = None /\ InFlight = {} /\ InFlight' = {}
    BY <2>1 DEF Called, CallPhases, InFlight
  <2>3. ObjectsOf(items') = ObjectsOf(items) \cup ObjectsOf(processed) /\ ObjectsOf(processed') = {}
    <3>1. ObjectsOf(items \o Reverse(processed)) = ObjectsOf(items) \cup ObjectsOf(processed)
      BY <1>0, MergeObjects DEF AtMostOneEntry
    <3>2. ObjectsOf(processed') = {}
      BY <2>1 DEF ObjectsOf
    <3> QED
      BY <2>1, <3>1, <3>2
  <2>4. Regd' = Regd
    BY <1>f, <1>l, <2>2, <2>3, RegdSame DEF Listed, HeapObjects
  <2>5. Eligible' = {}
    BY <2>1, EligibleWillBe
  <2> QED
    BY <1>f, <2>2, <2>4, <2>5, AbsPass
<1> QED
  BY <1>1, <1>2, <1>3, <1>4, <1>5

\* Between passes: the clock, the order of ItemsRT, the start of a pass and the end.
LEMMA IdleRefines ==
    ASSUME IInv, IInv', Reorder \/ Frame \/ Destroy
    PROVE  AbsNext
<1>0. /\ pc = "idle" /\ UNCHANGED <<processed, registration, cur>>
      /\ pc' = "idle" \/ (pc' \in {"regBefore", "regDestroy"} /\ it' = 1)
  BY DEF Reorder, EnsureOrder, Frame, Tick, StartUpdate, Destroy
<1>1. UNCHANGED <<Called, Open, InFlight, FirstPending>>
  BY <1>0 DEF Called, Open, CallPhases, InFlight, FirstPending, RegPhases
<1>2. Eligible = {} /\ Eligible' = {}
  BY <1>0, EligibleIs, EligibleWillBe
<1>3. ObjectsOf(rt') = ObjectsOf(rt) /\ ObjectsOf(items') = ObjectsOf(items)
  <2>0. /\ rt \in Seq(RTItem) /\ Len(rt) \in Nat /\ Len(items) \in Nat /\ Once(rt)
        /\ \A i \in 1 .. Len(rt) : rt[i] \in RTItem
        /\ \A i \in 1 .. Len(items) : items[i] \in Item
    BY DEF IInv, TypeOK, AtMostOneEntry
  <2>1. CASE Reorder
    <3>1. PICK i \in 1 .. Len(rt) : rt' = Append(RemoveAt(rt, i), rt[i]) /\ items' = items
      BY <2>1 DEF Reorder, EnsureOrder
    <3>2. PICK s \in Seq(RTItem) : s = RemoveAt(rt, i) /\ ObjectsOf(s) = ObjectsOf(rt) \ {rt[i].obj}
      BY <2>0, RemoveObjects, RemoveAtType
    <3>3. rt[i] \in RTItem /\ rt[i].obj # None
      BY <2>0, ShedulerAssumption DEF RTItem
    <3>4. rt[i].obj \in ObjectsOf(rt)
      BY <3>3 DEF ObjectsOf
    <3>5. ObjectsOf(Append(s, rt[i])) = ObjectsOf(s) \cup ({rt[i].obj} \ {None})
      BY <3>3, AppendObjects
    <3> QED
      BY <3>1, <3>2, <3>3, <3>4, <3>5
  <2>2. ASSUME NEW d \in Deltas, Tick(d)
        PROVE  ObjectsOf(rt') = ObjectsOf(rt) /\ ObjectsOf(items') = ObjectsOf(items)
    <3>1. /\ \A e \in RTItem : OlderRT(e, d).obj = e.obj
          /\ \A e \in Item : OlderItem(e, d).obj = e.obj
      BY DEF OlderRT, OlderItem, RTItem, Item
    <3>2. /\ rt' = [i \in 1 .. Len(rt) |-> OlderRT(rt[i], d)]
          /\ items' = [i \in 1 .. Len(items) |-> OlderItem(items[i], d)]
      BY <2>2 DEF Tick
    <3>3. Len(rt') = Len(rt) /\ \A i \in 1 .. Len(rt) : rt'[i].obj = rt[i].obj
      BY <2>0, <3>1, <3>2
    <3>4. Len(items') = Len(items) /\ \A i \in 1 .. Len(items) : items'[i].obj = items[i].obj
      BY <2>0, <3>1, <3>2
    <3> QED
      BY <2>0, <3>3, <3>4, SameObjects
  <2> QED
    BY <2>1, <2>2 DEF Frame, StartUpdate, Destroy
<1>4. Regd' = Regd
  BY <1>0, <1>1, <1>3, RegdSame DEF Listed, HeapObjects
<1> QED
  BY <1>1, <1>2, <1>4, AbsStutter

\* Sheduler implements ShedulerSpec: every step is a request that takes effect at once,
\* the beginning of a pass, a call to an object that the pass may still call, its return or
\* failure, a postponement, a forgotten object or the end, or changes none of these.
THEOREM Implements == Spec => ImplementsSpec
<1>1. Init => Abstract!Init
  <2> SUFFICES ASSUME Init PROVE Abstract!Init
    OBVIOUS
  <2>1. /\ pc = "idle" /\ rt = <<>> /\ items = <<>> /\ processed = <<>> /\ registration = <<>>
    BY DEF Init
  <2>2. \A o : Pending(o) = {}
    BY <2>1 DEF Pending, FirstPending, RegPhases
  <2>3. Listed = {}
    BY <2>1 DEF Listed, HeapObjects, ObjectsOf, InFlight
  <2>4. \A o \in Objects : ~Registered(o)
    BY <2>2, <2>3, RegisteredIs
  <2>5. {o \in Objects : Registered(o)} = {} /\ Eligible = {}
    BY <2>1, <2>4, EligibleIs
  <2> QED
    BY <2>1, <2>5 DEF Abstract!Init, CallPhases
<1>2. IInv /\ IInv' /\ QueuedGone /\ QueuedGone' /\ [Next]_shedVars => AbsNext
  <2> SUFFICES ASSUME IInv, IInv', QueuedGone, QueuedGone', [Next]_shedVars PROVE AbsNext
    OBVIOUS
  <2>1. CASE UNCHANGED shedVars
    <3>1. UNCHANGED <<Called, Open, Eligible, InFlight, FirstPending>>
      BY <2>1 DEF shedVars, Called, Open, Eligible, ObjectsOf, InFlight, FirstPending
    <3>2. Regd' = Regd
      BY <2>1, <3>1, RegdSame DEF shedVars, Listed, HeapObjects
    <3> QED
      BY <3>1, <3>2, AbsStutter
  <2>2. CASE Owners
    BY <2>2, OwnersRefine DEF Owners
  <2>3. CASE Reorder \/ Frame \/ Destroy
    BY <2>3, IdleRefines
  <2>4. CASE Pass
    BY <2>4, RegSkipPairRefines, RegAddRefines, RegRemoveRefines, RegDoneRefines, RTRefines,
       StepRefines DEF Pass
  <2> QED
    BY <2>1, <2>2, <2>3, <2>4 DEF Next, Terminated
<1> QED
  BY <1>1, <1>2, StrongInvariant, PTL DEF Strong, Spec, ImplementsSpec, Abstract!AbsSpec, AbsNext
=============================================================================
