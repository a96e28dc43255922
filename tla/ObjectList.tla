------------------------------ MODULE ObjectList ------------------------------
(***************************************************************************)
(* CObjectList, xr_object_list.cpp: the active and sleeping objects of a   *)
(* level, the two lists of crows (objects worth an UpdateCL this frame),   *)
(* the destroy queue, and what objects do to them: spawning, inventories,  *)
(* cars, physics shells coming to rest.  With mtPhysics the shells move on *)
(* the secondary thread while the primary one renders.                     *)
(***************************************************************************)
EXTENDS Integers, Sequences, FiniteSets, SequencesExt

CONSTANTS Objects, NULL,
          Owners,     \* have an inventory
          Items,      \* may be in one
          Shells,     \* have a physics shell when on their own; Items do
          Drivers,    \* actors
          Cars,
          Zones,      \* push other objects from their UpdateCL
          Modes,      \* what Update works through: "crows", "active", "none" (paused)
          mtPhysics,  \* psDeviceFlags.test(mtPhysics)
          MaxActive,  \* 255: the width of bActiveCounter
          MaxCounter  \* bound: no request for processing above this

ASSUME ObjectListAssumption ==
    /\ Owners \cup Items \cup Shells \cup Drivers \cup Cars \cup Zones \subseteq Objects
    /\ Items \subseteq Shells /\ Cars \cap Items = {} /\ NULL \notin Objects
    /\ Modes \subseteq {"crows", "active", "none"} /\ mtPhysics \in BOOLEAN
    /\ MaxActive \in Nat \ {0} /\ MaxCounter \in Nat

VARIABLES
    list,           \* objects_active, objects_sleeping, crows_0 and _1, crows; each
                    \* object's bActiveCounter and crow flag
    body,           \* where an object is, or what its shell does
    Parent,
    m_holder,       \* a driver's car
    m_owner,        \* a car's driver
    getDestroy,
    destroy_queue,
    freed,
    updated,        \* dwFrame_UpdateCL = Device.dwFrame
    told,           \* got net_Relcase of the whole queue in this Update
    pc,             \* where the primary thread is
    todo, calls,    \* objects_dup, the nested SingleUpdates
    it,             \* oit
    crowing         \* each thread's MakeMeCrow under way

vars == <<list, body, Parent, m_holder, m_owner, getDestroy, destroy_queue, freed, updated,
          told, pc, todo, calls, it, crowing>>

kept == <<Parent, m_holder, m_owner, getDestroy, destroy_queue, freed>>
loops == <<told, pc, todo, calls, it>>

Threads == {"primary", "physics"}
Idle == <<>>  \* no MakeMeCrow under way

Lists == [active : Seq(Objects), sleeping : Seq(Objects), crows : [0 .. 1 -> Seq(Objects)],
          cur : 0 .. 1, counter : [Objects -> 0 .. MaxActive], crow : [Objects -> BOOLEAN]]

TypeOK ==
    /\ list \in Lists
    /\ body \in [Objects -> {"solid", "moving", "stopping", "still", "ruck", "belt", "slot"}]
    /\ Parent \in [Objects -> Owners \cup {NULL}]
    /\ m_holder \in [Drivers -> Cars \cup {NULL}] /\ m_owner \in [Cars -> Drivers \cup {NULL}]
    /\ getDestroy \in [Objects -> BOOLEAN]
    /\ destroy_queue \in Seq(Objects) /\ todo \in Seq(Objects) /\ calls \in Seq(Objects)
    /\ freed \subseteq Objects /\ updated \subseteq Objects /\ told \subseteq Objects
    /\ pc \in {"frame", "update", "relcase_active", "relcase_sleeping", "destroy", "render", "fault"}
    /\ it \in Nat \ {0}
    /\ crowing \in [Threads -> Seq(Objects \cup Nat)]

Init ==
    /\ list = [active |-> <<>>, sleeping |-> <<>>, crows |-> [l \in 0 .. 1 |-> <<>>], cur |-> 0,
               counter |-> [o \in Objects |-> 0], crow |-> [o \in Objects |-> FALSE]]
    /\ body = [o \in Objects |-> "solid"]
    /\ Parent = [o \in Objects |-> NULL]
    /\ m_holder = [d \in Drivers |-> NULL] /\ m_owner = [c \in Cars |-> NULL]
    /\ getDestroy = [o \in Objects |-> FALSE]
    /\ destroy_queue = <<>> /\ freed = {} /\ updated = {} /\ told = {}
    /\ pc = "frame" /\ todo = <<>> /\ calls = <<>> /\ it = 1
    /\ crowing = [t \in Threads |-> Idle]

Held(L) == Range(L.active) \cup Range(L.sleeping)
Live == Held(list)
Enabled(o) == list.counter[o] > 0  \* processing_enabled
Children(o) == {c \in Live : Parent[c] = o}

-----------------------------------------------------------------------------
(* What the calls on an object make of list.                               *)

\* MakeMeCrow
Crow(L, o) == IF L.crow[o] \/ L.counter[o] = 0 THEN L
              ELSE [L EXCEPT !.crow[o] = TRUE, !.crows[L.cur] = Append(@, o)]

o_activate(L, o) == Crow([L EXCEPT !.sleeping = RemoveFirst(@, o), !.active = Append(@, o)], o)
o_sleep(L, o) == Crow([L EXCEPT !.active = RemoveFirst(@, o), !.sleeping = Append(@, o)], o)

\* Mutant: every request appends to objects_active.
AlwaysFirst(n) == n > 0
FirstRequest(n) == n = 1

processing_activate(L, o) ==
    LET n == (L.counter[o] + 1) % (MaxActive + 1)
        C == [L EXCEPT !.counter[o] = n]
    IN  IF FirstRequest(n) THEN o_activate(C, o) ELSE C

processing_deactivate(L, o) ==
    LET n == (L.counter[o] - 1) % (MaxActive + 1)
        C == [L EXCEPT !.counter[o] = n]
    IN  IF n = 0 THEN o_sleep(C, o) ELSE C

\* vis_update_activate: a shell asks for processing unless a stop is still pending.
ShellWoken(L, o, b) == IF b = "still" THEN processing_activate(L, o) ELSE L
\* CPHShell::Deactivate asks for it for a moving shell as well, and nobody takes that back.
ShellDeactivated(L, o, b) == IF b \in {"moving", "still"} THEN processing_activate(L, o) ELSE L

\* Mutant: a dead object stays among the crows.
KeepCrows(L, o) == L.crows
WithoutCrow(L, o) == [l \in 0 .. 1 |-> RemoveFirst(L.crows[l], o)]

Destroyed(L, o) ==
    [L EXCEPT !.crows = WithoutCrow(L, o),
              !.active = RemoveFirst(@, o),
              !.sleeping = IF Contains(L.active, o) THEN @ ELSE RemoveFirst(@, o)]

-----------------------------------------------------------------------------
(* Level events, the scheduler and physics (seqFrame's unless mtPhysics).  *)

Frame == pc = "frame" /\ \A t \in Threads : crowing[t] = Idle

Stays == UNCHANGED <<loops, updated, crowing>>

\* Objects.Create and net_Spawn.
Spawn(o) ==
    /\ Frame
    /\ o \notin Live \cup freed
    /\ body' \in {[body EXCEPT ![o] = b] : b \in IF o \in Shells THEN {"moving", "stopping"} ELSE {"solid"}}
    /\ list' = processing_activate([list EXCEPT !.sleeping = Append(@, o)], o)
    /\ UNCHANGED kept /\ Stays

Placed(L, o, place) == IF place = "ruck" THEN L ELSE processing_activate(L, o)

\* GE_OWNERSHIP_TAKE: H_SetParent, then CInventory::Take.
Take(o, p, place) ==
    /\ Frame
    /\ {o, p} \subseteq Live /\ o # p /\ ~getDestroy[o] /\ ~getDestroy[p]
    /\ Parent[o] = NULL /\ Parent[p] = NULL /\ Children(o) = {}
    /\ list.counter[o] < MaxCounter
    /\ list' = processing_deactivate(Placed(Crow(ShellDeactivated(list, o, body[o]), o), o, place), o)
    /\ body' = [body EXCEPT ![o] = place]
    /\ Parent' = [Parent EXCEPT ![o] = p]
    /\ UNCHANGED <<m_holder, m_owner, getDestroy, destroy_queue, freed>> /\ Stays

\* CInventory::Slot, Belt, Ruck: leaving the slot takes the request back, leaving the belt does not.
LeftPlace(L, o, from, to) == IF from = "slot" /\ to # "slot" THEN processing_deactivate(L, o) ELSE L

Move(o, place) ==
    /\ Frame
    /\ o \in Live /\ Parent[o] # NULL /\ body[o] # place
    /\ list.counter[o] < MaxCounter
    /\ list' = Placed(LeftPlace(list, o, body[o], place), o, place)
    /\ body' = [body EXCEPT ![o] = place]
    /\ UNCHANGED kept /\ Stays

\* GE_OWNERSHIP_REJECT: CInventory::DropItem, which gives the item a new shell
\* unless it is about to be destroyed.
Reject(o, just_before_destroy) ==
    /\ Frame
    /\ o \in Live /\ Parent[o] # NULL /\ ~getDestroy[o]
    /\ LET L == processing_activate(list, o)
       IN  list' = Crow(IF body[o] = "ruck" THEN L ELSE processing_deactivate(L, o), o)
    /\ body' = [body EXCEPT ![o] = IF just_before_destroy THEN "solid" ELSE "moving"]
    /\ Parent' = [Parent EXCEPT ![o] = NULL]
    /\ UNCHANGED <<m_holder, m_owner, getDestroy, destroy_queue, freed>> /\ Stays

\* Those of S, in the order of the vector.
InOrder(s, S) ==
    LET upto[n \in 0 .. Len(s)] ==
            IF n = 0 THEN <<>>
            ELSE IF s[n] \in S THEN Append(upto[n - 1], s[n]) ELSE upto[n - 1]
    IN  upto[Len(s)]

\* register_object_to_destroy: the children still there go after their parent.
Registered(o) ==
    <<o>> \o InOrder(list.active \o list.sleeping, {c \in Children(o) : ~getDestroy[c]})

\* Mutant: before it.
ChildrenFirst(o) == Reverse(Registered(o))
ToDestroy(o) == Registered(o)

\* GE_DESTROY
setDestroy(o) ==
    /\ Frame
    /\ o \in Live /\ Parent[o] = NULL /\ ~getDestroy[o]
    /\ getDestroy' = [c \in Objects |-> getDestroy[c] \/ c \in Range(Registered(o))]
    /\ destroy_queue' = destroy_queue \o ToDestroy(o)
    /\ UNCHANGED <<list, body, Parent, m_holder, m_owner, freed>> /\ Stays

attach_Actor(d, c) ==
    /\ Frame
    /\ {d, c} \subseteq Live /\ Parent[d] = NULL
    /\ ~getDestroy[d] /\ ~getDestroy[c]
    /\ m_holder[d] = NULL /\ m_owner[c] = NULL
    /\ list.counter[c] < MaxCounter
    /\ m_holder' = [m_holder EXCEPT ![d] = c] /\ m_owner' = [m_owner EXCEPT ![c] = d]
    /\ list' = processing_activate(ShellWoken(list, c, body[c]), c)
    /\ body' = [body EXCEPT ![c] = IF c \in Shells THEN "moving" ELSE @]
    /\ UNCHANGED <<Parent, getDestroy, destroy_queue, freed>> /\ Stays

detach_Actor(d) ==
    /\ Frame
    /\ d \in Live /\ m_holder[d] # NULL
    /\ list' = processing_deactivate(list, m_holder[d])
    /\ m_owner' = [m_owner EXCEPT ![m_holder[d]] = NULL]
    /\ m_holder' = [m_holder EXCEPT ![d] = NULL]
    /\ UNCHANGED <<body, Parent, getDestroy, destroy_queue, freed>> /\ Stays

shedule_Update(o) ==
    /\ Frame
    /\ o \in Live /\ ~getDestroy[o]
    /\ list' = Crow(list, o)
    /\ UNCHANGED <<body, kept>> /\ Stays

PhysicsTurn == /\ pc = IF mtPhysics THEN "render" ELSE "frame"
               /\ crowing["physics"] = Idle

\* o_activate moves the object before MakeMeCrow tests its flag; the rest is CrowMark and CrowPush.
Wake(o) ==
    /\ PhysicsTurn
    /\ o \in Live /\ body[o] \in {"stopping", "still"}
    /\ body' = [body EXCEPT ![o] = "moving"]
    /\ list' = [ShellWoken(list, o, body[o]) EXCEPT !.crow = list.crow, !.crows = list.crows]
    /\ crowing' = IF body[o] = "still" /\ ~Enabled(o) /\ ~list.crow[o]
                  THEN [crowing EXCEPT !["physics"] = <<o>>] ELSE crowing
    /\ UNCHANGED <<kept, loops, updated>>

\* PhDataUpdate, DisableObject: a request to stop, granted by the next UpdateCL.
Rest(o) ==
    /\ PhysicsTurn
    /\ o \in Live /\ body[o] = "moving"
    /\ body' = [body EXCEPT ![o] = "stopping"]
    /\ UNCHANGED <<list, kept>> /\ Stays

\* MakeMeCrow past its test: the flag is set and push_back reads the end of the vector ...
CrowMark(t) ==
    /\ Len(crowing[t]) = 1
    /\ list' = [list EXCEPT !.crow[crowing[t][1]] = TRUE]
    /\ crowing' = [crowing EXCEPT ![t] = Append(@, Len(list.crows[list.cur]))]
    /\ UNCHANGED <<body, kept, loops, updated>>

\* ... and stores there.  Another thread's pushes in between are lost.
Taken(s, n) == SubSeq(s, 1, Min({n, Len(s)}))

CrowPush(t) ==
    /\ Len(crowing[t]) = 2
    /\ list' = [list EXCEPT !.crows[list.cur] = Append(Taken(@, crowing[t][2]), crowing[t][1])]
    /\ crowing' = [crowing EXCEPT ![t] = Idle]
    /\ UNCHANGED <<body, kept, loops, updated>>

-----------------------------------------------------------------------------
(* CObjectList::Update.                                                    *)

\* Mutant: the vectors are cleared, the flags are not.
OnlyEmptied(L, ls) == [L EXCEPT !.crows = [l \in 0 .. 1 |-> IF l \in ls THEN <<>> ELSE @[l]]]

\* clear_crow_vec
Cleared(L, ls) ==
    [L EXCEPT !.crow = [o \in Objects |-> @[o] /\ \A l \in ls : ~Contains(L.crows[l], o)],
              !.crows = [l \in 0 .. 1 |-> IF l \in ls THEN <<>> ELSE @[l]]]

StartUpdate(mode) ==
    /\ Frame
    /\ todo' = CASE mode = "crows" -> list.crows[list.cur]
                 [] mode = "active" -> list.active
                 [] mode = "none" -> <<>>
    /\ list' = CASE mode = "crows" -> [Cleared(list, {1 - list.cur}) EXCEPT !.cur = 1 - @]
                 [] mode = "active" -> Cleared(list, {0, 1})
                 [] mode = "none" -> list
    /\ pc' = "update"
    /\ UNCHANGED <<body, kept, updated, told, calls, it, crowing>>

\* SingleUpdate
Needs(o) == Enabled(o) /\ o \notin updated

NextObject ==
    /\ pc = "update" /\ calls = <<>> /\ todo # <<>>
    /\ calls' = IF Needs(Head(todo)) THEN <<Head(todo)>> ELSE <<>>
    /\ todo' = Tail(todo)
    /\ UNCHANGED <<list, body, kept, updated, told, pc, it, crowing>>

\* Mutant: without the test of Parent.
Untested(o) == Parent[o] = NULL \/ Needs(Parent[o])
ParentFirst(o) == Parent[o] # NULL /\ Needs(Parent[o])

UpdateParent ==
    /\ calls # <<>> /\ ParentFirst(Last(calls))
    /\ calls' = Append(calls, Parent[Last(calls)])
    /\ UNCHANGED <<list, body, kept, updated, told, pc, todo, it, crowing>>

\* Near the camera, or a child of the actor: a crow in the next frame as well.
Nearby(L, o, near) == IF near THEN Crow(L, o) ELSE L
\* InterpolateGlobalTransform grants the shell its rest.
Settled(L, o) == IF body[o] = "stopping" THEN processing_deactivate(L, o) ELSE L

\* CPhysicItem settles before CObject::UpdateCL, CPhysicObject after it.
Updated(o, near) ==
    LET L == [list EXCEPT !.crow[o] = FALSE]
    IN  IF o \in Items THEN Nearby(Settled(L, o), o, near) ELSE Settled(Nearby(L, o, near), o)

StillAfter(o) == [body EXCEPT ![o] = IF @ = "stopping" THEN "still" ELSE @]

UpdateCL(near) ==
    /\ calls # <<>> /\ ~ParentFirst(Last(calls))
    /\ LET o == Last(calls)
       IN  /\ updated' = updated \cup {o}
           /\ calls' = Front(calls)
           /\ \/ list' = Updated(o, near) /\ body' = StillAfter(o)
              \/ \E q \in Live \ {o} :   \* CCustomZone::AffectObjects
                   /\ o \in Zones /\ ~getDestroy[q] /\ body[q] \in {"stopping", "still"}
                   /\ list' = ShellWoken(Updated(o, near), q, body[q])
                   /\ body' = [StillAfter(o) EXCEPT ![q] = "moving"]
    /\ UNCHANGED <<kept, told, pc, todo, it, crowing>>

EndUpdates ==
    /\ pc = "update" /\ calls = <<>> /\ todo = <<>>
    /\ pc' = IF destroy_queue = <<>> THEN "render" ELSE "relcase_active"
    /\ it' = 1
    /\ UNCHANGED <<list, body, kept, updated, told, todo, calls, crowing>>

Relcasing == IF pc = "relcase_active" THEN list.active ELSE list.sleeping

\* Only CActor's handler changes anything modelled here: it leaves a dying car.
net_Relcase ==
    /\ pc \in {"relcase_active", "relcase_sleeping"}
    /\ it <= Len(Relcasing)
    /\ LET o == Relcasing[it]
           leaves == o \in Drivers /\ m_holder[o] \in Range(destroy_queue)
       IN  /\ told' = told \cup {o}
           /\ list' = IF leaves THEN processing_deactivate(list, m_holder[o]) ELSE list
           /\ m_owner' = IF leaves THEN [m_owner EXCEPT ![m_holder[o]] = NULL] ELSE m_owner
           /\ m_holder' = IF leaves THEN [m_holder EXCEPT ![o] = NULL] ELSE m_holder
    /\ it' = it + 1
    /\ UNCHANGED <<body, Parent, getDestroy, destroy_queue, freed, updated, pc, todo, calls, crowing>>

\* Mutant: only the active objects are told.
SkipSleeping == "destroy"
AfterActive == "relcase_sleeping"

EndRelcase ==
    /\ \/ pc = "relcase_active" /\ pc' = AfterActive
       \/ pc = "relcase_sleeping" /\ pc' = "destroy"
    /\ it = Len(Relcasing) + 1
    /\ it' = 1
    /\ UNCHANGED <<list, body, kept, updated, told, todo, calls, crowing>>

\* The loop tests oit != end(): past a shrunk list it runs on.
Overrun ==
    /\ pc \in {"relcase_active", "relcase_sleeping"}
    /\ it > Len(Relcasing) + 1
    /\ pc' = "fault"
    /\ UNCHANGED <<list, body, kept, updated, told, todo, calls, it, crowing>>

\* net_Destroy
NetDestroyed(o) == IF o \in Drivers THEN processing_deactivate(list, o)
                   ELSE ShellDeactivated(list, o, body[o])

\* The memory of o is gone: its fields are put back to fixed values.
Destroy ==
    /\ pc = "destroy" /\ destroy_queue # <<>>
    /\ LET o == Last(destroy_queue)
       IN  /\ list' = [Destroyed(NetDestroyed(o), o) EXCEPT !.counter[o] = 0, !.crow[o] = FALSE]
           /\ body' = [body EXCEPT ![o] = "solid"]
           /\ Parent' = [Parent EXCEPT ![o] = NULL]
           /\ m_holder' = [d \in Drivers |-> IF d = o THEN NULL ELSE m_holder[d]]
           /\ m_owner' = [c \in Cars |-> IF c = o THEN NULL ELSE m_owner[c]]
           /\ freed' = freed \cup {o}
           /\ updated' = updated \ {o}
    /\ destroy_queue' = Front(destroy_queue)
    /\ UNCHANGED <<getDestroy, loops, crowing>>

EndDestroy ==
    /\ pc = "destroy" /\ destroy_queue = <<>>
    /\ pc' = "render" /\ told' = {}
    /\ UNCHANGED <<list, body, kept, updated, todo, calls, it, crowing>>

\* CObject::renderable_Render
Render(o) ==
    /\ pc = "render" /\ crowing["primary"] = Idle
    /\ o \in Live /\ Parent[o] = NULL
    /\ Enabled(o) /\ ~list.crow[o]
    /\ crowing' = [crowing EXCEPT !["primary"] = <<o>>]
    /\ UNCHANGED <<list, body, kept, loops, updated>>

EndFrame ==
    /\ pc = "render" /\ \A t \in Threads : crowing[t] = Idle
    /\ pc' = "frame" /\ updated' = {}
    /\ UNCHANGED <<list, body, kept, told, todo, calls, it, crowing>>

-----------------------------------------------------------------------------
Start == \E mode \in Modes : StartUpdate(mode)
Unpaused == \E mode \in Modes \ {"none"} : StartUpdate(mode)
UpdateLoop == \/ NextObject \/ UpdateParent \/ EndUpdates
              \/ \E near \in BOOLEAN : UpdateCL(near)
              \/ net_Relcase \/ EndRelcase \/ Overrun \/ Destroy \/ EndDestroy
CrowStep == \E t \in Threads : CrowMark(t) \/ CrowPush(t)

Next ==
    \/ \E o \in Objects : \/ Spawn(o) \/ setDestroy(o) \/ shedule_Update(o)
                          \/ Wake(o) \/ Rest(o) \/ Render(o)
    \/ \E o \in Items, p \in Owners, place \in {"slot", "belt", "ruck"} : Take(o, p, place)
    \/ \E o \in Items, place \in {"slot", "belt", "ruck"} : Move(o, place)
    \/ \E o \in Items, just_before_destroy \in BOOLEAN : Reject(o, just_before_destroy)
    \/ \E d \in Drivers, c \in Cars : attach_Actor(d, c)
    \/ \E d \in Drivers : detach_Actor(d)
    \/ Start \/ UpdateLoop \/ CrowStep \/ EndFrame

Spec == Init /\ [][Next]_vars

\* The loops of a frame and of its Update are finite, the game is not paused for ever, and
\* the scheduler reaches every object.
Fairness == /\ WF_vars(UpdateLoop) /\ WF_vars(CrowStep)
            /\ SF_vars(Unpaused) /\ SF_vars(EndFrame)
            /\ \A o \in Objects : SF_vars(shedule_Update(o))
FairSpec == Spec /\ Fairness

-----------------------------------------------------------------------------
(* Properties.                                                             *)

\* An object is in exactly one list, once, and in objects_active exactly when its
\* counter of requests is not zero, however spawns, inventories, cars, shells and
\* zones interleave their requests with the loops of Update.
ListsMatchCounters ==
    LET all == list.active \o list.sleeping
    IN  /\ Cardinality(Live) = Len(all)
        /\ \A o \in Live : Contains(list.active, o) <=> Enabled(o)

\* Nothing that Update will still dereference points to a destroyed object.
NoDangling ==
    freed \cap UNION {Range(s) : s \in {list.crows[0], list.crows[1], destroy_queue, todo, calls}} = {}

\* A child never outlives the parent it points to: register_object_to_destroy puts
\* the children left behind the parent, and the queue is worked from its back.
ParentsLive == \A o \in Live : Parent[o] \notin freed

\* Before the first object of a queue dies, every object of the level got net_Relcase for it.
Told == pc = "destroy" => Live \subseteq told

\* A car that the loop over objects_active has already passed, or stands at, falls asleep:
\* the later ones move down, under the iterator.  The only way to miss somebody.
PassesOver ==
    /\ net_Relcase /\ pc = "relcase_active"
    /\ \E i \in 1 .. it : list.active[i] \notin Range(list'.active)

\* An object whose crow flag is set is in one of the lists that clear the flag again.
CrowListed ==
    \A o \in Live : list.crow[o] => \/ \E l \in 0 .. 1 : Contains(list.crows[l], o)
                                    \/ \E t \in Threads : crowing[t] # Idle /\ crowing[t][1] = o

\* "UpdateCL called at least with the frequency of shedule_Update": an object that
\* stays enabled and is scheduled again and again is updated again and again.
UpdatedAgain ==
    \A o \in Objects : <>[](Enabled(o) /\ ~getDestroy[o]) => []<>(o \in updated)

-----------------------------------------------------------------------------
(* The inductive invariant.                                                *)

\* Threads that push to crows do so while no object dies.
Pushing ==
    \A t \in Threads :
        /\ Len(crowing[t]) \in 0 .. 2
        /\ crowing[t] # Idle => crowing[t][1] \in Live /\ pc \in {"frame", "render"}
        /\ Len(crowing[t]) = 2 => crowing[t][2] \in Nat

\* Only the first phase of Update has objects to update.
Looping == pc # "update" => todo = <<>> /\ calls = <<>>

\* No object twice; the active ones ask for processing.
Sorted(L) ==
    /\ IsInjective(L.active) /\ IsInjective(L.sleeping)
    /\ \A o \in Range(L.active) : L.counter[o] > 0
    /\ \A o \in Range(L.sleeping) : L.counter[o] = 0

Driven(o) == o \in Cars /\ m_owner[o] # NULL

\* The requests that will be taken back, and the one more that a dropped item may have.
Requests(o) == (IF body[o] \in {"still", "ruck"} THEN 0 ELSE 1) + (IF Driven(o) THEN 1 ELSE 0)
Dropped(o) == IF body[o] \in {"solid", "moving", "stopping"} THEN 1 ELSE 0

Counted == \A o \in Live : /\ Requests(o) <= list.counter[o]
                           /\ list.counter[o] <= MaxCounter + Dropped(o)

\* What is not in the level is as if it had never been there.
Absent ==
    /\ Live \cap freed = {}
    /\ \A o \in Objects \ Live :
          /\ body[o] = "solid" /\ Parent[o] = NULL /\ ~Driven(o)
          /\ o \in freed \/ (list.counter[o] = 0 /\ ~getDestroy[o])

\* One driver per car; one whose car has died still points to it.
Seats ==
    /\ \A d \in Drivers : m_holder[d] # NULL =>
          \/ m_holder[d] \in Live /\ m_owner[m_holder[d]] = d
          \/ m_holder[d] \in freed /\ list.counter[m_holder[d]] = 0
    /\ \A d, e \in Drivers : m_holder[d] = m_holder[e] /\ m_holder[d] # NULL => d = e

\* Inventories are not nested, and parent and child are doomed together.
Families ==
    \A o \in Objects :
        /\ Parent[o] # NULL <=> body[o] \in {"ruck", "belt", "slot"}
        /\ body[o] \in {"moving", "stopping", "still"} => o \in Shells
        /\ Parent[o] # NULL => /\ o \in Items /\ Parent[o] \in Live
                               /\ Parent[Parent[o]] = NULL
                               /\ getDestroy[o] = getDestroy[Parent[o]]

\* The queue holds the doomed, once, children behind their parents.
Doomed ==
    /\ IsInjective(destroy_queue)
    /\ Range(destroy_queue) = {o \in Live : getDestroy[o]}
    /\ \A i, j \in DOMAIN destroy_queue : Parent[destroy_queue[i]] = destroy_queue[j] => j < i

\* Without mtPhysics one thread at a time pushes, and every flag has its entry.
Alone ==
    /\ crowing["physics"] # Idle => pc = "frame"
    /\ crowing["primary"] # Idle => pc = "render"
    /\ \A t \in Threads : Len(crowing[t]) = 2 => crowing[t][2] = Len(list.crows[list.cur])

Entered(L, o) == \E l \in 0 .. 1 : Contains(L.crows[l], o)
AllListed ==
    \A o \in Objects : list.crow[o] => \/ Entered(list, o)
                                      \/ \E t \in Threads : crowing[t] # Idle /\ crowing[t][1] = o

\* Without zones as well, a crow is in each list once.
CrowsOnce(L) ==
    /\ \A l \in 0 .. 1 : IsInjective(L.crows[l]) /\ Range(L.crows[l]) \subseteq Held(L)
    /\ \A o \in Range(L.crows[L.cur]) : L.crow[o]

CrowsComing ==
    \A t \in Threads : /\ Len(crowing[t]) = 1 => ~list.crow[crowing[t][1]]
                       /\ Len(crowing[t]) = 2 => /\ list.crow[crowing[t][1]]
                                                 /\ ~Contains(list.crows[list.cur], crowing[t][1])

\* An object is updated once per frame, and until then it is not a crow of the next one.
UpdatesOnce ==
    /\ pc = "frame" => updated = {}
    /\ Range(todo) \cup Range(calls) \subseteq Live
    /\ IsInjective(calls) /\ Range(calls) \cap updated = {}
    /\ \A i \in 1 .. Len(calls) - 1 : Parent[calls[i]] # NULL
    /\ todo # <<>> \/ calls # <<>> => Range(list.crows[list.cur]) \subseteq updated

\* How far the two loops of net_Relcase are, as long as nobody is passed over.
Before(s, n) == {s[i] : i \in 1 .. n - 1}
Telling ==
    /\ pc = "relcase_active" => it <= Len(list.active) + 1 /\ Before(list.active, it) \subseteq told
    /\ pc = "relcase_sleeping" =>
          /\ it <= Len(list.sleeping) + 1
          /\ Range(list.active) \cup Before(list.sleeping, it) \subseteq told
    /\ pc = "destroy" => Live \subseteq told

\* The lists, the counters, the families and the queue: with every constant.
Core ==
    /\ TypeOK /\ Pushing /\ Looping /\ Sorted(list) /\ Counted
    /\ Absent /\ Seats /\ Families /\ Doomed

IInv ==
    /\ Core
    /\ ~mtPhysics => Alone /\ AllListed
    /\ ~mtPhysics /\ Zones = {} => CrowsOnce(list) /\ CrowsComing /\ UpdatesOnce
=============================================================================
