--------------------------- MODULE RegistratorSpec ---------------------------
(* What CRegistrator (xrEngine/pure.h) promises to those that register for *)
(* a broadcast: in a pass a registered object is called, once per          *)
(* registration, unless it is removed first or another has captured the    *)
(* pass; an object that is not registered is never called.                 *)
EXTENDS Naturals

CONSTANTS Objects, None

VARIABLES registered, \* the objects that are registered
          capturing,  \* those of them that ask to be called alone
          may,        \* the registrations this pass has still to call
          current,    \* the object being called
          alone       \* the pass belongs to one capturing object

absVars == <<registered, capturing, may, current, alone>>

AbsInit == /\ registered = {} /\ capturing = {} /\ may = {}
           /\ current = None
           /\ alone = FALSE

\* An object that registers during a pass is called by that pass.
AbsAdd(o, captures, inPass) ==
    /\ o \notin registered
    /\ registered' = registered \cup {o}
    /\ capturing' = IF captures THEN capturing \cup {o} ELSE capturing
    /\ may' = IF inPass THEN may \cup {o} ELSE may
    /\ UNCHANGED <<current, alone>>

AbsRemove(gone) == /\ registered' = registered \ gone
                   /\ capturing' = capturing \ gone
                   /\ may' = may \ gone
                   /\ UNCHANGED <<current, alone>>

AbsBegin == /\ may = {} /\ current = None
            /\ \/ /\ may' = registered
                  /\ UNCHANGED <<current, alone>>
               \/ /\ current' \in capturing
                  /\ alone' = TRUE
                  /\ UNCHANGED may
            /\ UNCHANGED <<registered, capturing>>

AbsCall == /\ current = None
           /\ current' \in may
           /\ may' = may \ {current'}
           /\ UNCHANGED <<registered, capturing, alone>>

\* A call ends; the pass is over when there is nothing left to call.
AbsReturn == /\ current # None
             /\ current' = None
             /\ alone' = FALSE
             /\ UNCHANGED <<registered, capturing, may>>

AbsNext == \/ \E o \in Objects, captures, inPass \in BOOLEAN :
                 AbsAdd(o, captures, inPass /\ ~alone)
           \/ \E gone \in SUBSET Objects : AbsRemove(gone)
           \/ AbsBegin \/ AbsCall \/ AbsReturn

AbsSpec == AbsInit /\ [][AbsNext]_absVars
=============================================================================
