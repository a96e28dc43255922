-------------------------------- MODULE ALife --------------------------------
(***************************************************************************)
(* The simulator of the life on and off the level: its registries, the     *)
(* update that switches objects online and offline and moves those that    *)
(* are offline, and the groups whose members are switched together.        *)
(*                                                                         *)
(* An update is a loop over the level registry and one over the scheduled  *)
(* registry, both kept by a CSafeMapIterator.  A handler runs scripts,     *)
(* and they call the simulator again: every request may come between two   *)
(* steps of a loop.                                                        *)
(***************************************************************************)
EXTENDS SafeMapIterator

CONSTANTS Stalkers, Groups,   \* CSE_ALifeHumanStalker, CSE_ALifeOnlineOfflineGroup
          Here, Away,         \* two game vertices, one of them on the actor's level
          m_online_limit_per_update, m_objects_per_update,
          Killed,             \* a bound: whom scripts kill, or register with a group they do not fit
          NULL                \* not registered, no group, no vertex

Vertices == {Here, Away}

\* alive: fHealth > 0.  died: m_game_death_time is set.
Objects == [m_bOnline : BOOLEAN, alive : BOOLEAN, died : BOOLEAN, m_group_id : Groups \cup {NULL},
            m_tGraphID : Vertices \cup {NULL}, used_ai_locations : BOOLEAN]

ASSUME ALifeAssumption ==
    /\ Stalkers \cap Groups = {} /\ IDs = Stalkers \cup Groups /\ Killed \subseteq Stalkers
    /\ m_online_limit_per_update \in Nat \ {0} /\ m_objects_per_update \in Nat \ {0}
    /\ Here # Away /\ NULL \notin IDs \cup Vertices \cup Objects

VARIABLES
    alife,    \* [object: of each ID, the object or NULL;  points: who is at each vertex;
              \*  level, scheduled: the registries;
              \*  threw: over whom the last step met a THROW2, which the release build ignores]
    update,   \* [pc; marked: whose counter equals the cycle's; count: m_online_switched_current,
              \*  then m_current;  freed: IDs released since the update began]
    stayed,   \* who has been in the level registry ever since the update began
    astray    \* history: whom a request of scripts has set apart from their group, and the group

vars == <<alife, update, stayed, astray>>

Now == [alife EXCEPT !.threw = {}]

Members(A, g) == {s \in Stalkers : A.object[s] # NULL /\ A.object[s].m_group_id = g}

\* CSE_ALifeSchedulable, CSE_ALifeMonsterAbstract
need_update(A, o) ==
    A.object[o].used_ai_locations /\ ~A.object[o].m_bOnline /\ A.object[o].alive
-----------------------------------------------------------------------------
(* The registries.                                                         *)

Throw(A, o) == [A EXCEPT !.threw = @ \cup {o}]

level_add(A, o) ==
    IF A.object[o].m_tGraphID # Here THEN A
    ELSE IF o \in A.level.objects THEN Throw(A, o)
    ELSE [A EXCEPT !.level = add(@, o)]

level_remove(A, o, no_assert) ==
    IF o \in A.level.objects THEN [A EXCEPT !.level = remove(@, o)]
    ELSE IF no_assert THEN A ELSE Throw(A, o)

scheduled_add(A, o) ==
    IF ~need_update(A, o) THEN A
    ELSE IF o \in A.scheduled.objects THEN Throw(A, o)
    ELSE [A EXCEPT !.scheduled = add(@, o)]

scheduled_remove(A, o) ==
    IF o \in A.scheduled.objects THEN [A EXCEPT !.scheduled = remove(@, o)]
    ELSE IF need_update(A, o) THEN Throw(A, o) ELSE A

graph_add(A, o, v, updating) ==
    LET C == IF o \in A.points[v] THEN Throw(A, o) ELSE [A EXCEPT !.points[v] = @ \cup {o}]
        B == IF A.object[o].m_bOnline \/ ~A.object[o].used_ai_locations THEN A
             ELSE [C EXCEPT !.object[o].m_tGraphID = v]
    IN  IF updating /\ v # NULL THEN level_add(B, o) ELSE B

graph_remove(A, o, v, updating) ==
    LET B == IF ~A.object[o].used_ai_locations THEN A
             ELSE IF o \notin A.points[v] THEN Throw(A, o)
             ELSE [A EXCEPT !.points[v] = @ \ {o}]
    IN  IF updating THEN level_remove(B, o, v # Here) ELSE B

graph_update(A, o) == graph_add(A, o, A.object[o].m_tGraphID, TRUE)

change(A, o, v) == graph_add(graph_remove(A, o, A.object[o].m_tGraphID, TRUE), o, v, TRUE)
-----------------------------------------------------------------------------
(* Groups, registration.                                                   *)

\* Mutant: only an offline member leaves the level registry.
KeptOnLevel(A, g, s) ==
    LET first  == Members(A, g) = {}
        joined == [A EXCEPT !.object[s].m_group_id = g]
        B == IF ~first THEN joined
             ELSE graph_update([joined EXCEPT !.object[g].m_tGraphID = A.object[s].m_tGraphID,
                                              !.object[g].used_ai_locations = TRUE], g)
    IN  IF A.object[s].m_bOnline THEN B
        ELSE scheduled_remove(graph_remove(B, s, A.object[s].m_tGraphID, TRUE), s)

register_member(A, g, s) ==
    LET first  == Members(A, g) = {}
        joined == [A EXCEPT !.object[s].m_group_id = g]
        B == IF ~first THEN joined
             ELSE graph_update([joined EXCEPT !.object[g].m_tGraphID = A.object[s].m_tGraphID,
                                              !.object[g].used_ai_locations = TRUE], g)
    IN  IF A.object[s].m_bOnline THEN level_remove(B, s, FALSE)
        ELSE scheduled_remove(graph_remove(B, s, A.object[s].m_tGraphID, TRUE), s)

\* Mutant: a member that leaves is not scheduled again.
NotRescheduled(A, s) ==
    LET g    == A.object[s].m_group_id
        B    == graph_update([A EXCEPT !.object[s].m_group_id = NULL], s)
        left == IF A.object[g].m_bOnline THEN level_remove(B, g, FALSE)
                ELSE graph_remove(B, g, A.object[g].m_tGraphID, TRUE)
    IN  IF Members(B, g) # {} THEN B ELSE [left EXCEPT !.object[g].used_ai_locations = FALSE]

unregister_member(A, s) ==
    LET g    == A.object[s].m_group_id
        B    == scheduled_add(graph_update([A EXCEPT !.object[s].m_group_id = NULL], s), s)
        left == IF A.object[g].m_bOnline THEN level_remove(B, g, FALSE)
                ELSE graph_remove(B, g, A.object[g].m_tGraphID, TRUE)
    IN  IF Members(B, g) # {} THEN B ELSE [left EXCEPT !.object[g].used_ai_locations = FALSE]

register_object(A, o, x) == scheduled_add(graph_update([A EXCEPT !.object[o] = x], o), o)

release(A, o) ==
    LET B == IF A.object[o].m_group_id = NULL THEN A ELSE unregister_member(A, o)
        C == IF A.object[o].m_bOnline THEN level_remove(B, o, ~A.object[o].used_ai_locations)
             ELSE scheduled_remove(graph_remove(B, o, A.object[o].m_tGraphID, TRUE), o)
    IN  [C EXCEPT !.object[o] = NULL]

\* With assign_death_position.  Nobody tells the group.
kill_entity(A, s, v, moved) ==
    LET B == scheduled_remove([A EXCEPT !.object[s].alive = FALSE, !.object[s].m_tGraphID = v], s)
    IN  IF moved THEN graph_add(graph_remove(B, s, A.object[s].m_tGraphID, TRUE), s, v, TRUE) ELSE B
-----------------------------------------------------------------------------
(* Switching.                                                              *)

\* Mutant: the members stay as they are.
SwitchedAlone(A, o, online) == [A EXCEPT !.object[o].m_bOnline = online]

\* switch_online, switch_offline of an object, with the members of a group.
Switched(A, o, online) ==
    [A EXCEPT !.object = [p \in IDs |-> IF p = o \/ p \in Members(A, o)
                                        THEN [A.object[p] EXCEPT !.m_bOnline = online]
                                        ELSE A.object[p]]]

switch_online(A, o) ==
    graph_remove(scheduled_remove(Switched(A, o, TRUE), o), o, A.object[o].m_tGraphID, FALSE)

switch_offline(A, o) ==
    graph_add(scheduled_add(Switched(A, o, FALSE), o), o, A.object[o].m_tGraphID, FALSE)

\* The abstract monster may just have died, the group may never have been scheduled.
Rescheduled(A, o) ==
    IF need_update(A, o) = (o \in A.scheduled.objects) THEN A
    ELSE IF need_update(A, o) THEN scheduled_add(A, o) ELSE scheduled_remove(A, o)

\* Where the actor is from the object: "near" it should be online, "far" offline, in the
\* "ring" between the two distances it stays as it is.  can_switch_online and
\* can_switch_offline count as places too; the dead cannot be switched offline.
Places(A, o) == IF A.object[o].alive \/ ~A.object[o].m_bOnline THEN {"near", "ring", "far"} ELSE {"near"}

try_switch_offline(A, o, place) == IF place = "far" THEN switch_offline(A, o) ELSE A

\* A far group does not look after its place in the schedule.
try_switch_online(A, o, count, place) ==
    IF count >= m_online_limit_per_update \/ (o \in Groups /\ place = "far") THEN A
    ELSE IF place = "near" THEN switch_online(Rescheduled(A, o), o)
    ELSE Rescheduled(A, o)

\* A group is where the first of its members is.
synchronize_location(A, o) ==
    LET v == A.object[Min(Members(A, o))].m_tGraphID
    IN  IF Members(A, o) = {} \/ A.object[o].m_tGraphID = v THEN A
        ELSE IF A.object[o].m_bOnline THEN [A EXCEPT !.object[o].m_tGraphID = v]
        ELSE change(A, o, v)

\* The dead may be released when their time is over, if it has been set.
redundant(A, o) == IF o \in Groups THEN Members(A, o) = {}
                   ELSE ~A.object[o].alive /\ ~A.object[o].m_bOnline /\ A.object[o].died

switch_object(A, o, count, place) ==
    LET B == synchronize_location(A, o)
    IN  IF A.object[o].m_bOnline THEN try_switch_offline(B, o, place)
        ELSE try_switch_online(B, o, count, place)
-----------------------------------------------------------------------------
(* The update.                                                             *)

Init ==
    /\ alife = [object |-> [o \in IDs |-> NULL], points |-> [v \in Vertices |-> {}],
                level |-> Empty, scheduled |-> Empty, threw |-> {}]
    /\ stayed = {} /\ astray = {}
    /\ update = [pc |-> "idle", marked |-> {}, count |-> 0, freed |-> {}]

Became(A) == alife' = A /\ stayed' = stayed \cap A.level.objects

update_switch ==
    /\ update.pc = "idle"
    /\ update' = [pc |-> "switch", marked |-> {}, count |-> 0, freed |-> {}]
    /\ alife' = Now /\ stayed' = alife.level.objects
    /\ UNCHANGED astray

\* Mutant: whoever tries counts, not who gets online.
EveryTryCounts ==
    LET o == alife.level.next
        A == [Now EXCEPT !.level = update_next(@)]
    IN  /\ update.pc = "switch" /\ alife.level.objects # {} /\ o \notin update.marked
        /\ \/ \E place \in Places(A, o) :
                LET tried == ~A.object[o].m_bOnline /\ update.count < m_online_limit_per_update
                IN  /\ Became(switch_object(A, o, update.count, place))
                    /\ update' = [update EXCEPT !.marked = @ \cup {o}, !.count = IF tried THEN @ + 1 ELSE @]
           \/ /\ redundant(A, o)
              /\ Became(release(A, o))
              /\ update' = [update EXCEPT !.marked = @ \cup {o}, !.freed = @ \cup {o}]
        /\ UNCHANGED astray

\* switch_object of the next one.
SwitchNext ==
    LET o == alife.level.next
        A == [Now EXCEPT !.level = update_next(@)]
    IN  /\ update.pc = "switch" /\ alife.level.objects # {} /\ o \notin update.marked
        /\ \/ \E place \in Places(A, o) :
                LET B == switch_object(A, o, update.count, place)
                    came == ~A.object[o].m_bOnline /\ B.object[o].m_bOnline
                IN  /\ Became(B)
                    /\ update' = [update EXCEPT !.marked = @ \cup {o}, !.count = IF came THEN @ + 1 ELSE @]
           \/ /\ redundant(A, o)
              /\ Became(release(A, o))
              /\ update' = [update EXCEPT !.marked = @ \cup {o}, !.freed = @ \cup {o}]
        /\ UNCHANGED astray

update_scheduled ==
    /\ update' = [update EXCEPT !.pc = "scheduled", !.marked = {}, !.count = 0]
    /\ alife' = Now /\ stayed' = {}
    /\ UNCHANGED astray

\* The loop meets an object it has handled, or none.
EndSwitch ==
    /\ update.pc = "switch"
    /\ alife.level.objects = {} \/ alife.level.next \in update.marked
    /\ update_scheduled

\* time_over, measured from the beginning of the loop.
TimeOver == update.pc = "switch" /\ update.marked # {} /\ update_scheduled

\* The update of a group does nothing, that of a stalker moves him along his path.
UpdateNext ==
    LET o == alife.scheduled.next
        A == [Now EXCEPT !.scheduled = update_next(@)]
    IN  /\ update.pc = "scheduled" /\ alife.scheduled.objects # {} /\ o \notin update.marked
        /\ update.count < m_objects_per_update
        /\ \/ Became(A)
           \/ \E v \in Vertices : o \in Stalkers /\ A.object[o].alive /\ Became(change(A, o, v))
        /\ update' = [update EXCEPT !.marked = @ \cup {o}, !.count = @ + 1]
        /\ UNCHANGED astray

EndScheduled ==
    /\ update.pc = "scheduled"
    /\ \/ alife.scheduled.objects = {}
       \/ alife.scheduled.next \in update.marked
       \/ update.count >= m_objects_per_update
    /\ update' = [pc |-> "idle", marked |-> {}, count |-> 0, freed |-> {}]
    /\ alife' = Now
    /\ UNCHANGED <<stayed, astray>>
-----------------------------------------------------------------------------
(* Requests of scripts and of the server.                                  *)

Registered(o) == alife.object[o] # NULL

New(o) == ~Registered(o) /\ o \notin update.freed

\* Where an object is still to be found.
Somewhere(A, o) == o \in A.level.objects \cup A.scheduled.objects \cup A.points[Here] \cup A.points[Away]

\* The ID belongs to somebody new, unless the one before has left something.
Fresh(o) == astray' = IF Somewhere(alife, o) THEN astray ELSE astray \ {o}

\* A new object, or one of a saved game.  Its ID is not one of those just released.
RegisterStalker(s, v, online, alive, died) ==
    /\ New(s)
    /\ online => v = Here /\ alive
    /\ alive => ~died
    /\ Became(register_object(Now, s, [m_bOnline |-> online, alive |-> alive, died |-> died,
                                       m_group_id |-> NULL, m_tGraphID |-> v, used_ai_locations |-> TRUE]))
    /\ Fresh(s)
    /\ UNCHANGED update

RegisterGroup(g) ==
    /\ New(g)
    /\ Became(register_object(Now, g, [m_bOnline |-> FALSE, alive |-> TRUE, died |-> FALSE, m_group_id |-> NULL,
                                       m_tGraphID |-> NULL, used_ai_locations |-> FALSE]))
    /\ Fresh(g)
    /\ UNCHANGED update

\* Nothing looks after the members of a group that is released: scripts release them first.
Release(o) ==
    /\ Registered(o) /\ Members(alife, o) = {}
    /\ Became(release(Now, o))
    /\ update' = IF update.pc = "idle" THEN update ELSE [update EXCEPT !.freed = @ \cup {o}]
    /\ UNCHANGED astray

\* One who is like the group and its members.  Nothing but a VERIFY for the living asks for it.
Fits(A, g, s) == /\ A.object[s].alive /\ A.object[s].m_bOnline = A.object[g].m_bOnline
                 /\ Members(A, g) # {} => A.object[s].m_tGraphID = A.object[g].m_tGraphID

Company(A, g) == {g} \cup Members(A, g)

RegisterMember(g, s) ==
    /\ Registered(g) /\ Registered(s) /\ alife.object[s].m_group_id = NULL
    /\ Fits(alife, g, s) \/ s \in Killed
    /\ Became(register_member(Now, g, s))
    /\ astray' = IF Fits(alife, g, s) /\ astray \cap {g, s} = {} THEN astray
                 ELSE astray \cup {s} \cup Company(alife, g)
    /\ UNCHANGED update

UnregisterMember(s) ==
    /\ Registered(s) /\ alife.object[s].m_group_id # NULL
    /\ Became(unregister_member(Now, s))
    /\ UNCHANGED <<update, astray>>

\* A script kills, here or at any vertex: another on the level is Here, too.  Who is moved leaves
\* the registry of the level and may come back to it.
KillEntity(s, v, moved) ==
    LET x == alife.object[s]
    IN  /\ Registered(s) /\ x.alive /\ s \in Killed /\ (v # x.m_tGraphID => moved)
        /\ alife' = kill_entity(Now, s, v, moved)
        /\ stayed' = {o \in stayed \cap alife'.level.objects : o = s => ~moved}
        /\ astray' = astray \cup IF x.m_group_id # NULL THEN Company(alife, x.m_group_id)
                                ELSE IF x.m_bOnline /\ moved THEN {s} ELSE {}
        /\ UNCHANGED update

\* The message that an online object has died: it comes once.
on_death(s) ==
    /\ Registered(s) /\ alife.object[s].m_bOnline /\ ~alife.object[s].died
    /\ LET A == [Now EXCEPT !.object[s].alive = FALSE, !.object[s].died = TRUE]
       IN  Became(IF A.object[s].m_group_id = NULL THEN A ELSE unregister_member(A, s))
    /\ UNCHANGED <<update, astray>>
-----------------------------------------------------------------------------
Update == update_switch \/ SwitchNext \/ EndSwitch \/ TimeOver \/ UpdateNext \/ EndScheduled

Next ==
    \/ Update
    \/ \E s \in Stalkers : \/ \E v \in Vertices, online, alive, died \in BOOLEAN :
                                 RegisterStalker(s, v, online, alive, died)
                           \/ \E v \in Vertices, moved \in BOOLEAN : KillEntity(s, v, moved)
                           \/ \E g \in Groups : RegisterMember(g, s)
                           \/ UnregisterMember(s) \/ on_death(s)
    \/ \E g \in Groups : RegisterGroup(g)
    \/ \E o \in IDs : Release(o)

\* The update goes on whatever scripts ask for in between.  One of its steps is possible in
\* every state, so this is its weak fairness, which TLC evaluates much faster than WF_vars.
Fairness == []<><<Update>>_vars

Spec == Init /\ [][Next]_vars /\ Fairness
-----------------------------------------------------------------------------
(* Properties.                                                             *)

\* The iterators never stand on an object that is not there, whatever a handler removes.
TypeOK ==
    /\ Valid(alife.level) /\ Valid(alife.scheduled)
    /\ alife.object \in [IDs -> Objects \cup {NULL}]
    /\ alife.points \in [Vertices -> SUBSET IDs]
    /\ alife.level \in Registries /\ alife.scheduled \in Registries /\ alife.threw \subseteq IDs
    /\ stayed \subseteq IDs /\ astray \subseteq IDs
    /\ update.pc \in {"idle", "switch", "scheduled"}
    /\ update.marked \subseteq IDs /\ update.freed \subseteq IDs
    /\ update.count \in 0 .. IF update.pc = "switch" THEN m_online_limit_per_update
                             ELSE m_objects_per_update

\* What kill_entity or register_member makes of one who does not fit stays with him and his
\* group, the astray: of everybody else it follows from the object alone who is in which
\* registry, through joining, parting, switching, death and release in whatever order.
Loose(A, o) == /\ A.object[o] # NULL /\ A.object[o].m_group_id = NULL
               /\ o \in Groups => Members(A, o) # {}

Placed(A, o) ==
    LET x == A.object[o]
    IN  /\ o \in A.level.objects <=> Loose(A, o) /\ x.m_tGraphID = Here
        /\ \A v \in Vertices : o \in A.points[v] <=> Loose(A, o) /\ ~x.m_bOnline /\ x.m_tGraphID = v
        /\ o \in Stalkers => (o \in A.scheduled.objects <=> Loose(A, o) /\ ~x.m_bOnline /\ x.alive)
        /\ o \in Groups /\ o \in A.scheduled.objects => x # NULL /\ ~x.m_bOnline

InItsPlace == \A o \in IDs \ astray : Placed(alife, o)

\* The members of a group are alive, at its vertex, and online exactly when it is: a switch, a
\* death or a move takes them along or takes them out of it.  The astray are excepted.
Together(A, s, g) == /\ A.object[g] # NULL /\ A.object[s].alive
                     /\ A.object[g].m_bOnline = A.object[s].m_bOnline
                     /\ A.object[g].m_tGraphID = A.object[s].m_tGraphID

MembersTogether == \A g \in Groups \ astray : \A s \in Members(alife, g) : Together(alife, s, g)

\* "Specified object has been already found", "hasn't been found in the registry!": over
\* nobody but a group that is released when it has no members, and the astray.
OnlyEmptyGroupThrows == \A o \in alife.threw \ astray : o \in Groups /\ ~Registered(o)

\* A loop that is not cut short has met everybody who was there all the time.
WholeRound == [][EndSwitch => stayed \subseteq update.marked]_vars

\* Everybody who stays in the schedule is updated again and again.  And however few are let
\* online in one update, everybody who stays offline on the level gets his chance again and
\* again, unless others go online or the time is over again and again.
Handled(o) == o \notin update.marked /\ o \in update'.marked

Admission == \E o \in IDs : /\ update.pc = "switch" /\ Handled(o) /\ alife'.object[o] # NULL
                            /\ ~alife.object[o].m_bOnline /\ alife'.object[o].m_bOnline

Cut == /\ update.pc = "switch" /\ update'.pc = "scheduled"
       /\ alife.level.next \in alife.level.objects \ update.marked

NobodyForgotten == \A o \in IDs :
    /\ o \in Stalkers /\ <>[](o \in alife.scheduled.objects) =>
          []<><<update.pc = "scheduled" /\ Handled(o)>>_vars
    /\ <>[](o \in alife.level.objects /\ ~alife.object[o].m_bOnline) =>
          \/ []<><<update.pc = "switch" /\ update.count < m_online_limit_per_update /\ Handled(o)>>_vars
          \/ []<><<Admission \/ Cut>>_vars
-----------------------------------------------------------------------------
(* The inductive invariant behind them.                                    *)

World == [object : [IDs -> Objects \cup {NULL}], points : [Vertices -> SUBSET IDs],
          level : Registries, scheduled : Registries, threw : SUBSET IDs]

Updates == [pc : {"idle", "switch", "scheduled"}, marked : SUBSET IDs, count : Nat, freed : SUBSET IDs]

\* A stalker is always somewhere, a group while it has members; and the actor's level is
\* where those are who are online.  The astray are excepted.
Sound(A, o) ==
    A.object[o] # NULL =>
        LET x == A.object[o]
        IN  /\ o \in Stalkers => x.used_ai_locations
            /\ o \in Groups => x.alive /\ x.m_group_id = NULL /\ (x.used_ai_locations <=> Members(A, o) # {})
            /\ x.used_ai_locations => x.m_tGraphID # NULL
            /\ x.used_ai_locations /\ x.m_bOnline => x.m_tGraphID = Here

\* From the iterator on, round the map, up to but without the last.
InArc(from, m, last) == IF from <= last THEN from <= m /\ m < last ELSE from <= m \/ m < last

\* On the way from the iterator to one who has stayed and is not yet handled there is
\* nobody whom this update has handled, in the map or out of it.
Round == update.pc = "switch" =>
             /\ stayed \subseteq alife.level.objects
             /\ \A y \in stayed \ update.marked, m \in update.marked : ~InArc(alife.level.next, m, y)

\* A stalker and his group are astray together, W says who is.
Bound(A, W, o) == A.object[o] # NULL /\ A.object[o].m_group_id # NULL =>
                      /\ A.object[A.object[o].m_group_id] # NULL
                      /\ o \in W <=> A.object[o].m_group_id \in W

\* What is left of order with one who is astray: the registries hold nobody who has been
\* released, and of a group's members nobody is scheduled and only the dead are on the level.
Steady(A, o) ==
    /\ A.object[o] = NULL => o \notin A.level.objects \cup A.scheduled.objects
    /\ A.object[o] # NULL /\ o \in Groups => A.object[o].m_group_id = NULL
    /\ A.object[o] # NULL /\ o \in A.scheduled.objects =>
          ~A.object[o].m_bOnline /\ A.object[o].m_group_id = NULL
    /\ A.object[o] # NULL /\ A.object[o].m_group_id # NULL /\ o \in A.level.objects =>
          ~A.object[o].alive

IInv == /\ TypeOK /\ alife \in World /\ update \in Updates
        /\ \A o \in IDs \ astray : Sound(alife, o)
        /\ \A o \in astray : Steady(alife, o)
        /\ \A o \in IDs : Bound(alife, astray, o)
        /\ InItsPlace /\ MembersTogether /\ OnlyEmptyGroupThrows /\ Round
=============================================================================
