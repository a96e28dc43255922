------------------------------ MODULE Sheduler ------------------------------
(***************************************************************************)
(* CSheduler, xrEngine/xrSheduler.cpp: the per-frame scheduler of game     *)
(* objects.  Real-time objects are updated every pass, the others when     *)
(* their time comes, from a heap, under a CPU budget.  The handlers that   *)
(* a pass calls may register and unregister any object, the one being      *)
(* called included.                                                        *)
(*                                                                         *)
(* One action is one iteration of a loop of the code; pc forces the order  *)
(* of the loops.  Times are kept relative to Device.dwTimeGlobal: at is    *)
(* dwTimeForExecute - now (negative when overdue), last is                 *)
(* now - dwTimeOfLastExecute, so that the state space is finite without a  *)
(* bound on the clock (its 32-bit wrap-around is not modelled).            *)
(***************************************************************************)
EXTENDS Integers, Sequences, SequencesExt

CONSTANTS Objects,      \* the ISheduled objects
          None,         \* the NULL object of a cancelled heap entry
          Intervals,    \* the values dwUpdate takes
          Longest,      \* of each object: max(shedule.t_max, 1000)
          Deltas,       \* how far dwTimeGlobal moves from frame to frame
          CheckPeriod,  \* the budget is tested after every CheckPeriod-th item (3)
          MaxQueue,     \* bound: entries of Registration
          MaxItems,     \* bound: entries of Items for which Register is modelled
          MaxAge        \* bound: ages from here on are not told apart

ASSUME ShedulerAssumption ==
    /\ None \notin Objects
    /\ Intervals \subseteq Nat \ {0}
    /\ Longest \in [Objects -> Nat \ {0}]
    /\ Deltas \subseteq Nat
    /\ CheckPeriod \in Nat \ {0}
    /\ MaxQueue \in Nat
    /\ MaxItems \in Nat
    /\ MaxAge \in Nat

VARIABLES
    rt,           \* ItemsRT: [obj, last], in update order
    items,        \* Items: [obj, at, last]; only the minimum of at is read
    processed,    \* ItemsProcessed: updated in this pass, not yet back in items
    registration, \* Registration: the queued [reg, rt, obj]
    bRT,          \* shedule.b_RT of each object
    processing,   \* m_processing_now
    pc,           \* the loop Update or Destroy is in, "idle" between frames
    it,           \* index of the loop over Registration or ItemsRT
    iter,         \* i of ProcessStep, modulo CheckPeriod
    cur,          \* the entry T whose handler is running; last is the Elapsed it was told
    needed,       \* shedule_Needed() of each object
    ticked,       \* FrameMove has moved the clock since the last pass
    since,        \* history: time since the object was updated or registered
    erased        \* history: a handler has erased an entry inside the ItemsRT loop

shedVars == <<rt, items, processed, registration, bRT, processing, pc, it, iter,
              cur, needed, ticked, since, erased>>

RTItem == [obj : Objects, last : Nat]
Item == [obj : Objects \cup {None}, at : Int, last : Nat]
ItemReg == [reg : BOOLEAN, rt : BOOLEAN, obj : Objects]
NoItem == [obj |-> None, at |-> 0, last |-> 0]

Phases == {"idle", "regBefore", "rt", "callRT", "step", "call", "merge", "regAfter",
           "regDestroy", "off"}
RegPhases == {"regBefore", "regAfter", "regDestroy"}
CallPhases == {"callRT", "call"}

TypeOK == /\ rt \in Seq(RTItem)
          /\ items \in Seq(Item)
          /\ processed \in Seq(Item)
          /\ registration \in Seq(ItemReg)
          /\ bRT \in [Objects -> BOOLEAN]
          /\ processing \in BOOLEAN
          /\ pc \in Phases
          /\ it \in Nat \ {0}
          /\ iter \in 0 .. CheckPeriod - 1
          /\ cur \in Item
          /\ needed \in [Objects -> BOOLEAN]
          /\ ticked \in BOOLEAN
          /\ since \in [Objects -> Nat]
          /\ erased \in BOOLEAN

Init == /\ rt = <<>> /\ items = <<>> /\ processed = <<>> /\ registration = <<>>
        /\ bRT = [o \in Objects |-> FALSE]
        /\ processing = FALSE
        /\ pc = "idle"
        /\ it = 1
        /\ iter = 0
        /\ cur = NoItem
        /\ needed = [o \in Objects |-> TRUE]
        /\ ticked = FALSE
        /\ since = [o \in Objects |-> 0]
        /\ erased = FALSE

-----------------------------------------------------------------------------
(* Where an object is.                                                     *)

\* The objects of a list, cancelled entries left out.
ObjectsOf(list) == {list[i].obj : i \in 1 .. Len(list)} \ {None}

\* Position i of a list holds object o, and no earlier one does.
FirstAt(list, o, i) == /\ i \in 1 .. Len(list)
                       /\ list[i].obj = o
                       /\ \A j \in 1 .. i - 1 : list[j].obj # o

\* The object whose handler ProcessStep is running: its entry is off the heap.
InFlight == IF pc = "call" THEN {cur.obj} ELSE {}

HeapObjects == ObjectsOf(items) \cup ObjectsOf(processed) \cup InFlight

\* The queue entries internal_Registration has still to read.
FirstPending == IF pc \in RegPhases THEN it ELSE 1
Pending(o) == {i \in FirstPending .. Len(registration) : registration[i].obj = o}

\* CSheduler::Registered: the last queued operation decides, else the lists.  An
\* object whose handler runs is in no list but is about to be put back: it counts
\* here, though the DEBUG check of the code does not see it.
Registered(o) ==
    IF Pending(o) = {}
    THEN o \in ObjectsOf(rt) \cup HeapObjects
    ELSE \E i \in Pending(o) : /\ registration[i].reg
                               /\ \A j \in Pending(o) : ~registration[j].reg => j < i

-----------------------------------------------------------------------------
(* What owners do between frames and what handlers do inside a pass.       *)

OwnersTurn == pc \in {"idle", "callRT", "call"}

\* VERIFY(!Registered(A)) is what owners keep to.
Register(o, asRT) ==
    /\ OwnersTurn
    /\ ~Registered(o)
    /\ Len(registration) < MaxQueue
    /\ Len(items) < MaxItems
    /\ bRT' = [bRT EXCEPT ![o] = asRT]
    /\ registration' = Append(registration, [reg |-> TRUE, rt |-> asRT, obj |-> o])
    /\ UNCHANGED <<rt, items, processed, processing, pc, it, iter, cur, needed, ticked, since, erased>>

\* internal_Unregister when it finds the object.  Mutant: ItemsRT keeps a hole, as
\* the heap does.
HoleRT(i) == [rt EXCEPT ![i].obj = None]
WithoutRT(i) == RemoveAt(rt, i)

EraseRT(o) == \E i \in 1 .. Len(rt) :
                 /\ FirstAt(rt, o, i)
                 /\ rt' = WithoutRT(i)
                 /\ UNCHANGED items

CancelItem(o) == \E i \in 1 .. Len(items) :
                    /\ FirstAt(items, o, i)
                    /\ items' = [items EXCEPT ![i].obj = None]
                    /\ UNCHANGED rt

\* internal_Unregister(O, RT).
InternalUnregister(o, asRT) ==
    CASE asRT /\ o \in ObjectsOf(rt)     -> EraseRT(o)
      [] ~asRT /\ o \in ObjectsOf(items) -> CancelItem(o)
      [] OTHER                         -> UNCHANGED <<rt, items>>

Found(o, asRT) == o \in ObjectsOf(IF asRT THEN rt ELSE items)

\* Mutant: Unregister always waits for the end of the pass.
NeverAtOnce(o) == FALSE
AtOnce(o) == processing /\ Found(o, bRT[o])

\* During a pass the entry goes at once if a list has it, otherwise the
\* request is queued.  The destructor of every object calls it, registered or
\* not (release build), so there is no guard.
Unregister(o) ==
    /\ OwnersTurn
    /\ IF AtOnce(o)
       THEN /\ InternalUnregister(o, bRT[o])
            /\ erased' = (erased \/ (pc = "callRT" /\ bRT[o]))
            /\ UNCHANGED registration
       ELSE /\ Len(registration) < MaxQueue
            /\ registration' =
                 Append(registration, [reg |-> FALSE, rt |-> bRT[o], obj |-> o])
            /\ UNCHANGED <<rt, items, erased>>
    /\ UNCHANGED <<processed, bRT, processing, pc, it, iter, cur, needed, ticked, since>>

\* EnsureOrder moves After to the end of ItemsRT.  It has no caller in the
\* repository, so it is admitted between frames only.
EnsureOrder(before, after) ==
    /\ pc = "idle"
    /\ bRT[before] /\ bRT[after]
    /\ \E i \in 1 .. Len(rt) :
          /\ FirstAt(rt, after, i)
          /\ rt' = Append(RemoveAt(rt, i), rt[i])
    /\ UNCHANGED <<items, processed, registration, bRT, processing, pc, it, iter, cur,
                   needed, ticked, since, erased>>

\* An object changes its answer to shedule_Needed().
SetNeeded(o) ==
    /\ OwnersTurn
    /\ needed' = [needed EXCEPT ![o] = ~@]
    /\ UNCHANGED <<rt, items, processed, registration, bRT, processing, pc, it, iter, cur,
                   ticked, since, erased>>

\* CRenderDevice::FrameMove moves dwTimeGlobal once per frame.
Capped(t) == IF t < MaxAge THEN t ELSE MaxAge

OlderRT(e, d) == [e EXCEPT !.last = Capped(e.last + d)]
OlderItem(e, d) == [e EXCEPT !.at = e.at - d, !.last = Capped(e.last + d)]

Tick(d) ==
    /\ pc = "idle"
    /\ ~ticked
    /\ ticked' = TRUE
    /\ rt' = [i \in 1 .. Len(rt) |-> OlderRT(rt[i], d)]
    /\ items' = [i \in 1 .. Len(items) |-> OlderItem(items[i], d)]
    /\ since' = [o \in Objects |-> Capped(since[o] + d)]
    /\ UNCHANGED <<processed, registration, bRT, processing, pc, it, iter, cur, needed, erased>>

-----------------------------------------------------------------------------
(* internal_Registration, run before and after the two loops of a pass and *)
(* by Destroy.                                                             *)

\* internal_Register(O, RT): the new entry starts its clock now.
InternalRegister(o, asRT) ==
    /\ IF asRT THEN /\ rt' = Append(rt, [obj |-> o, last |-> 0])
                    /\ UNCHANGED items
               ELSE /\ items' = Append(items, [obj |-> o, at |-> 0, last |-> 0])
                    /\ UNCHANGED rt
    /\ bRT' = [bRT EXCEPT ![o] = asRT]
    /\ since' = [since EXCEPT ![o] = 0]

\* Position p holds an "unregister" queued after position i for the same object.
Pairs(i, p) == /\ p \in i + 1 .. Len(registration)
               /\ ~registration[p].reg
               /\ registration[p].obj = registration[i].obj

HasPair(i) == \E p \in i + 1 .. Len(registration) : Pairs(i, p)

FirstPair(i, p) == Pairs(i, p) /\ \A q \in i + 1 .. p - 1 : ~Pairs(i, q)

RegEntry == /\ pc \in RegPhases
            /\ it <= Len(registration)
            /\ it' = it + 1
            /\ UNCHANGED <<processed, processing, pc, iter, cur, needed, ticked, erased>>

RegSkipPair == /\ RegEntry
               /\ registration[it].reg
               /\ \E p \in it + 1 .. Len(registration) :
                     /\ FirstPair(it, p)
                     /\ registration' = RemoveAt(registration, p)
               /\ UNCHANGED <<rt, items, bRT, since>>

RegAdd == /\ RegEntry
          /\ registration[it].reg
          /\ ~HasPair(it)
          /\ InternalRegister(registration[it].obj, registration[it].rt)
          /\ UNCHANGED registration

\* The list a queued "unregister" names is the one of the time it was queued.
\* Mutant: the flag is read from the object when the entry is processed.
LatestRT(R) == bRT[R.obj]
QueuedRT(R) == R.rt

RegRemove == /\ RegEntry
             /\ ~registration[it].reg
             /\ InternalUnregister(registration[it].obj, QueuedRT(registration[it]))
             /\ UNCHANGED <<registration, bRT, since>>

\* Registration.clear(), and on to what the caller does next.
RegDone ==
    /\ pc \in RegPhases
    /\ it > Len(registration)
    /\ registration' = <<>>
    /\ it' = 1
    /\ CASE pc = "regBefore" -> /\ pc' = "rt"
                                /\ processing' = TRUE
                                /\ UNCHANGED <<rt, items>>
         [] pc = "regAfter" -> /\ pc' = "idle"
                               /\ UNCHANGED <<processing, rt, items>>
         [] pc = "regDestroy" -> /\ pc' = "off"
                                 /\ rt' = <<>> /\ items' = <<>>
                                 /\ UNCHANGED processing
    /\ UNCHANGED <<processed, bRT, iter, cur, needed, ticked, since, erased>>

-----------------------------------------------------------------------------
(* Update: the loop over ItemsRT.                                          *)

\* CSheduler::Update, once per frame from CGamePersistent::OnFrame.
StartUpdate == /\ pc = "idle"
               /\ ticked
               /\ ticked' = FALSE
               /\ pc' = "regBefore"
               /\ it' = 1
               /\ UNCHANGED <<rt, items, processed, registration, bRT, processing, iter, cur,
                              needed, since, erased>>

\* dwTimeOfLastExecute = dwTime.  Mutant: it is left as it was.
StaleRT(i) == rt
RestartRT(i) == [rt EXCEPT ![i].last = 0]

\* continue.  Mutant: the loop ends at the first object that is not needed.
BreakRT(i) == Len(rt) + 1
ContinueRT(i) == i + 1

\* An object that is not needed keeps its place; its clock restarts.
SkipRT == /\ pc = "rt"
          /\ it <= Len(rt)
          /\ ~needed[rt[it].obj]
          /\ rt' = RestartRT(it)
          /\ since' = [since EXCEPT ![rt[it].obj] = 0]
          /\ it' = ContinueRT(it)
          /\ UNCHANGED <<items, processed, registration, bRT, processing, pc, iter, cur,
                         needed, ticked, erased>>

CallRT == /\ pc = "rt"
          /\ it <= Len(rt)
          /\ needed[rt[it].obj]
          /\ pc' = "callRT"
          /\ cur' = [obj |-> rt[it].obj, at |-> 0, last |-> rt[it].last]
          /\ UNCHANGED <<rt, items, processed, registration, bRT, processing, it, iter,
                         needed, ticked, since, erased>>

\* T is a reference to position it of the vector: if the handler erased an
\* entry at or before it, the write goes to the entry that moved there, or past
\* the end of the vector, and that entry is passed over.
ReturnRT == /\ pc = "callRT"
            /\ pc' = "rt"
            /\ rt' = IF it <= Len(rt) THEN RestartRT(it) ELSE rt
            /\ since' = [since EXCEPT ![cur.obj] = 0]
            /\ it' = it + 1
            /\ cur' = NoItem
            /\ UNCHANGED <<items, processed, registration, bRT, processing, iter, needed,
                           ticked, erased>>

EndRT == /\ pc = "rt"
         /\ it > Len(rt)
         /\ pc' = "step"
         /\ it' = 1
         /\ iter' = 0
         /\ UNCHANGED <<rt, items, processed, registration, bRT, processing, cur, needed,
                        ticked, since, erased>>

-----------------------------------------------------------------------------
(* ProcessStep: the loop over the heap.                                    *)

\* Top(): std::pop_heap may pick any of several entries with the least time.
IsTop(k) == /\ k \in 1 .. Len(items)
            /\ \A j \in 1 .. Len(items) : items[k].at <= items[j].at

\* Top().dwTimeForExecute < dwTime.
Due(k) == IsTop(k) /\ items[k].at < 0

Unneeded(k) == items[k].obj \notin {o \in Objects : needed[o]}

NextIter == (iter + 1) % CheckPeriod

\* Pop().
PopUnneeded(k) == RemoveAt(items, k)

\* A cancelled or unneeded entry leaves the heap without a call.
DropItem == /\ pc = "step"
            /\ \E k \in 1 .. Len(items) : /\ Due(k) /\ Unneeded(k)
                                          /\ items' = PopUnneeded(k)
            /\ iter' = NextIter
            /\ UNCHANGED <<rt, processed, registration, bRT, processing, pc, it, cur,
                           needed, ticked, since, erased>>

clampr(val, low, high) == IF val < low THEN low ELSE IF val > high THEN high ELSE val

\* A normal object is told its age between 1 and Longest, a real-time one, in CallRT,
\* its age as it is.
Told(T) == [T EXCEPT !.last = clampr(@, 1, Longest[T.obj])]

CallItem == /\ pc = "step"
            /\ \E k \in 1 .. Len(items) : /\ Due(k) /\ ~Unneeded(k)
                                          /\ items' = RemoveAt(items, k)
                                          /\ cur' = Told(items[k])
            /\ pc' = "call"
            /\ UNCHANGED <<rt, processed, registration, bRT, processing, it, iter, needed,
                           ticked, since, erased>>

\* The handler returns: the next time is set and, every CheckPeriod items, the
\* loop ends if the budget is spent.
ReturnItem == /\ pc = "call"
              /\ \E d \in Intervals :
                    processed' = Append(processed, [obj |-> cur.obj, at |-> d, last |-> 0])
              /\ cur' = NoItem
              /\ since' = [since EXCEPT ![cur.obj] = 0]
              /\ iter' = NextIter
              /\ \/ pc' = "step"
                 \/ iter = CheckPeriod - 1 /\ pc' = "merge"
              /\ UNCHANGED <<rt, items, registration, bRT, processing, it, needed, ticked, erased>>

\* The release build catches a fault of the handler: the entry, already popped,
\* is not put back.
FaultItem == /\ pc = "call"
             /\ pc' = "step"
             /\ cur' = NoItem
             /\ iter' = NextIter
             /\ UNCHANGED <<rt, items, processed, registration, bRT, processing, it, needed,
                            ticked, since, erased>>

EndStep == /\ pc = "step"
           /\ \A k \in 1 .. Len(items) : ~Due(k)
           /\ pc' = "merge"
           /\ UNCHANGED <<rt, items, processed, registration, bRT, processing, it, iter, cur,
                          needed, ticked, since, erased>>

\* Push "processed" back, last first; then the final internal_Registration.
Merge == /\ pc = "merge"
         /\ items' = items \o Reverse(processed)
         /\ processed' = <<>>
         /\ processing' = FALSE
         /\ pc' = "regAfter"
         /\ it' = 1
         /\ UNCHANGED <<rt, registration, bRT, iter, cur, needed, ticked, since, erased>>

\* CSheduler::Destroy, from CEngine::Destroy.
Destroy == /\ pc = "idle"
           /\ pc' = "regDestroy"
           /\ it' = 1
           /\ UNCHANGED <<rt, items, processed, registration, bRT, processing, iter, cur,
                          needed, ticked, since, erased>>

Terminated == pc = "off" /\ UNCHANGED shedVars

-----------------------------------------------------------------------------
Owners == \E o \in Objects : \/ \E asRT \in BOOLEAN : Register(o, asRT)
                             \/ Unregister(o)
                             \/ SetNeeded(o)

Reorder == \E before, after \in Objects : EnsureOrder(before, after)

Pass == \/ RegSkipPair \/ RegAdd \/ RegRemove \/ RegDone
        \/ SkipRT \/ CallRT \/ ReturnRT \/ EndRT
        \/ DropItem \/ CallItem \/ ReturnItem \/ FaultItem \/ EndStep \/ Merge

Frame == (\E d \in Deltas : Tick(d)) \/ StartUpdate

Next == Owners \/ Reorder \/ Pass \/ Frame \/ Destroy \/ Terminated

Spec == Init /\ [][Next]_shedVars

-----------------------------------------------------------------------------
(* Properties.                                                             *)

\* An object sits at most once in a list.
Once(list) == \A i, j \in 1 .. Len(list) :
                 list[i].obj = list[j].obj /\ list[i].obj # None => i = j

\* However handlers interleave Register and Unregister with the loops, an object
\* is in at most one of ItemsRT, Items, ItemsProcessed and the call in progress,
\* and once there: what the VERIFY(!count) of Registered checks in debug builds.
AtMostOneEntry ==
    /\ Once(rt) /\ Once(items) /\ Once(processed)
    /\ ObjectsOf(rt) \cap HeapObjects = {}
    /\ ObjectsOf(items) \cap ObjectsOf(processed) = {}
    /\ InFlight \cap (ObjectsOf(items) \cup ObjectsOf(processed)) = {}

\* What each loop may rely on.
PhaseOK == /\ processing <=> (pc \in {"rt", "callRT", "step", "call", "merge"})
           /\ pc \notin {"step", "call", "merge"} => processed = <<>>
           /\ pc \in CallPhases => cur.obj \in Objects

\* A queued "unregister" for o between positions i and j.
Cancels(o, i, j) == \E k \in i .. j : ~registration[k].reg /\ registration[k].obj = o

\* The queue can be replayed: a "register" comes for an object that is nowhere,
\* or behind an "unregister" of it, and so does a second "register".
QueueReplays ==
    \A o \in Objects : \A j \in Pending(o) : registration[j].reg =>
       /\ o \in ObjectsOf(rt) \cup HeapObjects => Cancels(o, FirstPending, j - 1)
       /\ \A i \in Pending(o) : registration[i].reg /\ i < j => Cancels(o, i + 1, j - 1)

\* The list that an "unregister" will be looked up in, for an object that has an
\* entry: the one its first queued request names, or the one its flag names.
ListFlag(o, asRT) == /\ o \in ObjectsOf(rt) => asRT
                     /\ o \in HeapObjects => ~asRT

\* An object is always looked for in the list it is in, however often it changed
\* between the two kinds while requests were queued.
FlagsMatch ==
    \A o \in Objects :
       /\ Pending(o) = {} => ListFlag(o, bRT[o])
       /\ \A i \in Pending(o) :
             (\A k \in Pending(o) : i <= k) /\ ~registration[i].reg
                => ListFlag(o, registration[i].rt)

\* The inductive invariant behind AtMostOneEntry.
IInv == TypeOK /\ PhaseOK /\ AtMostOneEntry /\ QueueReplays /\ FlagsMatch

\* The Elapsed that a handler is told (cur.last) is the time since its object was last
\* served, registered or found unneeded, of a normal object between the bounds of
\* clampr: no pass loses time or counts it twice, whatever handlers register and remove.
\* A handler that erases an entry of ItemsRT inside its loop breaks this for real-time
\* objects (see ReturnRT), never for those of the heap.
ElapsedTold ==
    /\ pc = "call" => cur.last = clampr(since[cur.obj], 1, Longest[cur.obj])
    /\ pc = "callRT" /\ ~erased => cur.last = since[cur.obj]

\* What the ages rely on besides: the heap has no entry of the real-time object that
\* is being served, and it still stands on its entry unless handlers have erased some.
Serving ==
    /\ \A i \in 1 .. Len(processed) : processed[i].obj \in Objects
    /\ pc = "callRT" => /\ cur.obj \notin HeapObjects
                        /\ ~erased => it <= Len(rt) /\ rt[it].obj = cur.obj

\* During a pass the queue has nothing of an object that can still be called: its
\* entry goes at once, and only then requests of it are queued.
QueuedGone == processing => \A o \in Objects :
                  Pending(o) # {} => o \notin ObjectsOf(rt) \cup ObjectsOf(items)

-----------------------------------------------------------------------------
(* The abstract scheduler this one implements.                             *)

Eligible == CASE pc = "rt" -> {rt[i].obj : i \in it .. Len(rt)} \cup ObjectsOf(items)
              [] pc = "callRT" -> {rt[i].obj : i \in it + 1 .. Len(rt)} \cup ObjectsOf(items)
              [] pc \in {"step", "call", "merge"} -> ObjectsOf(items)
              [] OTHER -> {}

Abstract == INSTANCE ShedulerSpec WITH
               registered <- {o \in Objects : Registered(o)},
               eligible <- Eligible,
               current <- IF pc \in CallPhases THEN cur.obj ELSE None,
               open <- pc # "off"

\* Update, its loops and the registration queue together keep the promises of
\* ShedulerSpec: no call to an object after Unregister, at most one call per
\* pass, registrations of a pass served from the next pass on.
ImplementsSpec == Abstract!AbsSpec

-----------------------------------------------------------------------------
(* Liveness: the frame loop of the application keeps moving the clock and  *)
(* calling Update, and handlers return.                                    *)

FairSpec == Init /\ [][Next]_shedVars /\ WF_shedVars(Pass) /\ WF_shedVars(Frame)

\* Despite the budget, loops that handlers feed and the entries that erasures make the real-time loop pass
\* over, an object that stays registered and needed is served again and again
\* (as long as the clock moves and its handler does not fault).  EnsureOrder, which
\* nothing calls, could keep an object last if it were repeated in every frame.
Served(o) == pc \in CallPhases /\ cur.obj = o
NoStarvation == \A o \in Objects :
                   <>[](Registered(o) /\ needed[o]) /\ <>[][~Reorder]_shedVars => []<>Served(o)
=============================================================================
