---------------------------- MODULE ShedulerSpec ----------------------------
(***************************************************************************)
(* What CSheduler (xrEngine/xrSheduler.cpp) promises to the objects that   *)
(* register with it, without its lists, heap, queue or clock:              *)
(*                                                                         *)
(*   - Register and Unregister take effect at once on the set of           *)
(*     registered objects;                                                 *)
(*   - a pass (one CSheduler::Update) serves only objects that were        *)
(*     registered when it began and have not been unregistered since,      *)
(*     each at most once: an object registered during the pass waits for   *)
(*     the next one, an unregistered one is not called again;              *)
(*   - the scheduler by itself forgets an object only when it says that it *)
(*     is no longer needed, when its handler has failed, or when the whole *)
(*     scheduler shuts down.                                               *)
(***************************************************************************)
CONSTANTS Objects,  \* the ISheduled objects
          None      \* no object

VARIABLES registered,  \* objects the owners consider registered
          eligible,    \* objects the current pass may still call
          current,     \* the object being called, None outside a call
          open         \* FALSE once the scheduler is destroyed

absVars == <<registered, eligible, current, open>>

Init == /\ registered = {}
        /\ eligible = {}
        /\ current = None
        /\ open = TRUE

Register(o) == /\ o \notin registered
               /\ registered' = registered \cup {o}
               /\ UNCHANGED <<eligible, current, open>>

\* Called for an object that is not registered it changes nothing. Others may
\* lose their turn in this pass (see Sheduler!ReturnRT), never gain one.
Unregister(o) == /\ registered' = registered \ {o}
                 /\ eligible' \in SUBSET (eligible \ {o})
                 /\ UNCHANGED <<current, open>>

BeginPass == /\ current = None
             /\ eligible = {}
             /\ eligible' = registered
             /\ UNCHANGED <<registered, current, open>>

Call(o) == /\ current = None
           /\ o \in eligible
           /\ current' = o
           /\ eligible' = eligible \ {o}
           /\ UNCHANGED <<registered, open>>

Return == /\ current # None
          /\ current' = None
          /\ UNCHANGED <<registered, eligible, open>>

\* The object is passed over: it is not due, not needed now or out of budget.
Postpone == /\ current = None
            /\ eligible' \in SUBSET eligible
            /\ UNCHANGED <<registered, current, open>>

\* The object is forgotten: it was not needed when its turn came.
Forget(o) == /\ current = None
             /\ o \in eligible
             /\ eligible' = eligible \ {o}
             /\ registered' = registered \ {o}
             /\ UNCHANGED <<current, open>>

\* The handler of the object failed: it is forgotten, unless it had already
\* been unregistered and registered again meanwhile.
Fail == /\ current # None
        /\ current' = None
        /\ registered' \in {registered, registered \ {current}}
        /\ UNCHANGED <<eligible, open>>

Shutdown == /\ open
            /\ current = None
            /\ open' = FALSE
            /\ registered' = {}
            /\ eligible' = {}
            /\ UNCHANGED current

Next == \/ \E o \in Objects : Register(o) \/ Unregister(o) \/ Call(o) \/ Forget(o)
        \/ BeginPass \/ Return \/ Postpone \/ Fail \/ Shutdown

AbsSpec == Init /\ [][Next]_absVars
=============================================================================
