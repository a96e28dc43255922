--------------------------- MODULE SafeMapIterator ---------------------------
(***************************************************************************)
(* CSafeMapIterator: a map of objects by ID with an iterator that is kept  *)
(* from one update to the next, while handlers add and remove objects.     *)
(* Here a value [objects |-> IDs in the map, next |-> m_next_iterator],    *)
(* with next = NoNext for end(); the counters by which an update knows     *)
(* what it has handled belong to the modules that use it.                  *)
(***************************************************************************)
EXTENDS Integers, FiniteSets, FiniteSetsExt

CONSTANTS IDs,      \* a set of numbers: std::map keeps them in their order
          NoNext

ASSUME IDsAssumption == IDs \subseteq Nat /\ IsFiniteSet(IDs) /\ NoNext \notin IDs

Registries == [objects : SUBSET IDs, next : IDs \cup {NoNext}]

Empty == [objects |-> {}, next |-> NoNext]

\* ++m_next_iterator, from the end of the map back to its begin.
After(S, id) == LET greater == {x \in S : x > id}
                IN  IF greater # {} THEN Min(greater) ELSE Min(S)

update_next(R) == [R EXCEPT !.next = IF R.objects = {} THEN NoNext ELSE After(R.objects, @)]

\* Mutant: every addition starts again from the begin of the map.
Restarted(R, id) == [objects |-> R.objects \cup {id}, next |-> Min(R.objects \cup {id})]

add(R, id) == [objects |-> R.objects \cup {id}, next |-> IF R.objects = {} THEN id ELSE R.next]

\* Mutant: the iterator stays on the object that is erased.
Dangling(R, id) ==
    LET rest == R.objects \ {id} IN [objects |-> rest, next |-> IF rest = {} THEN NoNext ELSE R.next]

remove(R, id) ==
    LET passed == IF id = R.next THEN update_next(R) ELSE R
        rest   == R.objects \ {id}
    IN  [objects |-> rest, next |-> IF rest = {} THEN NoNext ELSE passed.next]

\* The iterator stands on an object of the map, unless there is none.
Valid(R) == IF R.objects = {} THEN R.next = NoNext ELSE R.next \in R.objects
=============================================================================
