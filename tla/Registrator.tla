----------------------------- MODULE Registrator -----------------------------
(***************************************************************************)
(* CRegistrator, xrEngine/pure.h: the prioritised broadcast lists of the   *)
(* engine (seqFrame, seqFrameMT, seqRender, seqAppActivate, ...).  Process *)
(* calls the registered objects in the order of the vector R; a handler    *)
(* may add and remove any object.  R is put in order at once between       *)
(* passes, and at the end of the pass for what handlers did.               *)
(***************************************************************************)
EXTENDS Integers, Sequences, FiniteSetsExt, Functions

CONSTANTS Objects,     \* the registered objects
          None,        \* no object
          Priorities,  \* the priorities given to Add
          Capture,     \* REG_PRIORITY_CAPTURE, the greatest int
          MaxEntries   \* bound: entries of R for which Add is modelled

ASSUME RegistratorAssumption ==
    /\ None \notin Objects
    /\ Capture \in Nat
    /\ Priorities \subseteq 0 .. Capture
    /\ MaxEntries \in Nat

VARIABLES
    R,          \* R: [obj, prio] in call order
    in_process, \* in_process
    changed,    \* changed
    pc,         \* where Process is: "idle", in its loop, in a handler
    i           \* index of the loop, 0 in a captured pass

regVars == <<R, in_process, changed, pc, i>>

Invalid == -1   \* REG_PRIORITY_INVALID, 0xffffffff read as an int

Entry == [obj : Objects, prio : Priorities \cup {Invalid}]

TypeOK == /\ R \in Seq(Entry)
          /\ in_process \in BOOLEAN
          /\ changed \in BOOLEAN
          /\ pc \in {"idle", "loop", "call"}
          /\ i \in 0 .. Len(R) + 1

Init == R = <<>> /\ in_process = FALSE /\ changed = FALSE /\ pc = "idle" /\ i = 0

Valid(e) == e.prio # Invalid

RegisteredIn(entries) == {entries[k].obj : k \in {n \in 1 .. Len(entries) : Valid(entries[n])}}

-----------------------------------------------------------------------------
(* Resort.                                                                 *)

\* _REG_Compare subtracts two ints; CAPTURE minus INVALID overflows.
Overflows(entries) == \E j, k \in 1 .. Len(entries) :
                         entries[k].prio - entries[j].prio > Capture

Descending(entries) == \A j, k \in 1 .. Len(entries) :
                          j < k => entries[j].prio >= entries[k].prio

Reorderings == [n \in 0 .. MaxEntries |-> Bijection(1 .. n, 1 .. n)]

\* qsort is not stable, and any order is possible when the comparison overflows.
Sorted(entries) ==
    {t \in {[k \in 1 .. Len(entries) |-> entries[p[k]]] : p \in Reorderings[Len(entries)]} :
        Overflows(entries) \/ Descending(t)}

\* The entries that are left after the invalid ones have been popped off the end.
LastValid(entries) == Max({0} \cup {k \in 1 .. Len(entries) : Valid(entries[k])})
Trimmed(entries) == SubSeq(entries, 1, LastValid(entries))

\* Mutant: nothing is popped.
Untrimmed(entries) == {t : t \in Sorted(entries)}
Resorted(entries) == {Trimmed(t) : t \in Sorted(entries)}

\* What Add and Remove end with.  Mutant: the list is put in order during the pass.
ResortNow(entries) == /\ R' \in Resorted(entries)
                      /\ changed' = FALSE
ResortOrMark(entries) == IF in_process
                         THEN R' = entries /\ changed' = TRUE
                         ELSE R' \in Resorted(entries) /\ changed' = FALSE

-----------------------------------------------------------------------------
(* Operations, between passes or from a handler.                           *)

OwnersTurn == pc \in {"idle", "call"}

\* The VERIFY of Add: one valid entry per object.
Add(o, priority) ==
    /\ OwnersTurn
    /\ o \notin RegisteredIn(R)
    /\ Len(R) < MaxEntries
    /\ ResortOrMark(Append(R, [obj |-> o, prio |-> priority]))
    /\ UNCHANGED <<in_process, pc, i>>

\* Remove invalidates every entry of the object, if there is any.
Invalidated(o) ==
    [k \in 1 .. Len(R) |-> IF R[k].obj = o THEN [R[k] EXCEPT !.prio = Invalid] ELSE R[k]]

Remove(o) ==
    /\ OwnersTurn
    /\ ResortOrMark(Invalidated(o))
    /\ UNCHANGED <<in_process, pc, i>>

\* CRenderDevice::Destroy empties the lists.
Clear == /\ pc = "idle"
         /\ R' = <<>>
         /\ UNCHANGED <<in_process, changed, pc, i>>

-----------------------------------------------------------------------------
(* Process.                                                                *)

\* With nobody registered it returns with in_process still set.
ProcessEmpty == /\ pc = "idle"
                /\ R = <<>>
                /\ in_process' = TRUE
                /\ UNCHANGED <<R, changed, pc, i>>

ProcessCaptured == /\ pc = "idle"
                   /\ R # <<>> /\ R[1].prio = Capture
                   /\ in_process' = TRUE
                   /\ pc' = "call"
                   /\ i' = 0
                   /\ UNCHANGED <<R, changed>>

Process == /\ pc = "idle"
           /\ R # <<>> /\ R[1].prio # Capture
           /\ in_process' = TRUE
           /\ pc' = "loop"
           /\ i' = 1
           /\ UNCHANGED <<R, changed>>

\* Mutant: the loop calls entries whatever their priority.
CallAny(k) == TRUE
Callable(k) == Valid(R[k])

Skip == /\ pc = "loop"
        /\ i <= Len(R)
        /\ ~Callable(i)
        /\ i' = i + 1
        /\ UNCHANGED <<R, in_process, changed, pc>>

Call == /\ pc = "loop"
        /\ i <= Len(R)
        /\ Callable(i)
        /\ pc' = "call"
        /\ UNCHANGED <<R, in_process, changed, i>>

Return == /\ pc = "call"
          /\ i # 0
          /\ pc' = "loop"
          /\ i' = i + 1
          /\ UNCHANGED <<R, in_process, changed>>

\* The pass is over: after the loop, or after the one call of a captured pass.
Finish == /\ \/ pc = "loop" /\ i > Len(R)
             \/ pc = "call" /\ i = 0
          /\ IF changed THEN R' \in Resorted(R) ELSE R' = R
          /\ changed' = FALSE
          /\ in_process' = FALSE
          /\ pc' = "idle"
          /\ i' = 0

Next == \/ \E o \in Objects : Remove(o) \/ \E priority \in Priorities : Add(o, priority)
        \/ Clear
        \/ ProcessEmpty \/ ProcessCaptured \/ Process
        \/ Skip \/ Call \/ Return \/ Finish

Spec == Init /\ [][Next]_regVars

-----------------------------------------------------------------------------
(* Properties.                                                             *)

Clean(entries) == Descending(entries) /\ \A k \in 1 .. Len(entries) : Valid(entries[k])

\* Whatever handlers did, and whichever pass found the list empty and returned
\* with in_process set, a list that is out of order or keeps removed objects is
\* marked for the Resort of the next pass: no entry is stuck in it.  (Not while an
\* object has registered with CAPTURE, which overflows the comparison.)
OutOfOrderIsMarked ==
    \/ \E k \in 1 .. Len(R) : R[k].prio = Capture
    \/ Clean(R)
    \/ changed /\ in_process

\* An object has at most one valid entry.
Once(entries) == \A j, k \in 1 .. Len(entries) :
                    Valid(entries[j]) /\ Valid(entries[k]) /\ entries[j].obj = entries[k].obj => j = k

\* Where Process is agrees with what it has set: the loop is in a list that only
\* grows, and only a pass leaves a Resort to do.
PassOK == /\ Len(R) <= MaxEntries
          /\ pc = "idle" => i = 0
          /\ pc = "loop" => i > 0
          /\ pc = "call" => i <= Len(R)
          /\ pc # "idle" => in_process /\ R # <<>>
          /\ changed => in_process

\* The inductive invariant of the proofs.
IInv == TypeOK /\ OutOfOrderIsMarked /\ Once(R) /\ PassOK

\* The entry that is being called: removing its object only invalidates it.
Current == IF pc = "call" THEN R[IF i = 0 THEN 1 ELSE i].obj ELSE None

Rest == IF pc = "idle" \/ i = 0 THEN {} ELSE
        LET next == IF pc = "call" THEN i + 1 ELSE i
        IN  RegisteredIn(SubSeq(R, next, Len(R)))

CapturingIn(entries) ==
    {entries[k].obj : k \in {n \in 1 .. Len(entries) : entries[n].prio = Capture}}

Abstract == INSTANCE RegistratorSpec WITH
               registered <- RegisteredIn(R),
               capturing <- CapturingIn(R),
               may <- Rest,
               current <- Current,
               alone <- pc = "call" /\ i = 0

\* In a pass every registered object is called once, unless it is removed first,
\* however the handlers change the list under the loop.
ImplementsSpec == Abstract!AbsSpec
=============================================================================
