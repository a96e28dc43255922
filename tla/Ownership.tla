------------------------------ MODULE Ownership ------------------------------
(***************************************************************************)
(* Who holds what: the server's tree of entities (xrServer), the IDs it    *)
(* gives them (CID_Generator), the events it sends to the client in the    *)
(* same process (CLevel), and the client's objects, whose requests it      *)
(* handles at once.  One frame lets objects, scripts and the ALife         *)
(* simulator ask for changes ("update"), takes the packets that have       *)
(* arrived, handles them as events ("events") and destroys the dying.      *)
(*                                                                         *)
(* An entity switched offline keeps its ID without being on the server; it *)
(* comes back as a new object.  Only the Ruck of an inventory is modelled: *)
(* an item has been taken by an owner or not.                              *)
(***************************************************************************)
EXTENDS Naturals, FiniteSets, Sequences, SequencesExt

CONSTANTS Actors, Stalkers,   \* the owners of items, by the class that handles their events
          Items,
          Refuses,      \* <<owner, item>> CanTakeItem may refuse: too heavy, or not to be taken
          BlockCount, tBlockSize,   \* of the ID generator: 256 of 256 in the game
          MaxPending,   \* bound: messages under way before another request is made
          NULL          \* no entity, no parent, ID 0xffff

Owners   == Actors \cup Stalkers
Entities == Owners \cup Items
Blocks   == 0 .. BlockCount - 1
IDs      == 0 .. BlockCount * tBlockSize - 1

ASSUME OwnershipAssumption ==
    /\ Actors \cap Stalkers = {} /\ Owners \cap Items = {}
    /\ IsFiniteSet(Entities) /\ Cardinality(Actors) <= BlockCount * tBlockSize
    /\ Refuses \subseteq Owners \X Items
    /\ BlockCount \in Nat \ {0} /\ tBlockSize \in Nat \ {0} /\ MaxPending \in Nat \ {0}
    /\ NULL \notin Entities \cup IDs /\ "absent" \notin Entities \cup {NULL}

VARIABLES
    server,     \* [entities, ID, ID_Parent, children: the tree; free: the free IDs of each
                \*  block, a stack; blocks: the blocks, by the time of their last vfFreeID;
                \*  freed: the blocks with IDs freed since the last ClientReceive;
                \*  net: messages sent; failed: the request that met a fault]
    events,     \* CLevel::game_events
    settling,   \* the blocks of IDs freed by what is in events
    object,     \* client objects: "none", "spawned", "dying" (getDestroy)
    net_ID,     \* CObject::Props.net_ID
    Parent,     \* CObject::Parent, for items also m_pCurrentInventory
    map_NETID,  \* CObjectList::map_NETID
    phase,
    switched,   \* entities switched by the simulator in this frame
    crashed     \* the message whose handler met a fault on the client

client == <<object, net_ID, Parent, map_NETID>>
vars == <<server, events, settling, client, phase, switched, crashed>>

Block(id) == id \div tBlockSize

Requests == [type : {"TAKE", "REJECT", "DESTROY"}, parent : IDs \cup {NULL}, id : IDs]
Messages == [type : {"SPAWN", "TAKE", "REJECT", "DESTROY"},
             parent : IDs \cup {NULL}, id : IDs,
             e : Entities, p : Owners \cup {NULL}]  \* whom the IDs stood for when it was sent
-----------------------------------------------------------------------------
(* The ID generator: functions from one state of the server to the next.   *)

\* Mutant: the block is appended without leaving its old place.
FreeTwice(S, id) ==
    [S EXCEPT !.free[Block(id)] = Append(@, id), !.blocks = Append(@, Block(id)),
              !.freed = @ \cup {Block(id)}]

vfFreeID(S, id) ==
    [S EXCEPT !.free[Block(id)] = Append(@, id),
              !.blocks = Append(RemoveFirst(@, Block(id)), Block(id)),
              !.freed = @ \cup {Block(id)}]

\* Mutant: the block of the latest release comes first.
Youngest(S) == Last(SelectSeq(S.blocks, LAMBDA b : S.free[b] # <<>>))

\* tfGetID: the ID freed last in the block that has gone longest without a release.
Oldest(S) == S.blocks[SelectInSeq(S.blocks, LAMBDA b : S.free[b] # <<>>)]
NewID(S) == Last(S.free[Oldest(S)])

\* tfGetFromBlock for a given ID: the last free ID of its block fills the gap.
Taken(S, id) ==
    LET stack == S.free[Block(id)]
        gap   == SelectInSeq(stack, LAMBDA i : i = id)
    IN  [S EXCEPT !.free[Block(id)] = Front(ReplaceAt(stack, gap, Last(stack)))]

\* 256 blocks: there is always one with free IDs none of which was freed so recently that
\* its object may still be on the client.
Roomy == \E b \in Blocks : server.free[b] # <<>> /\ b \notin server.freed \cup settling
-----------------------------------------------------------------------------
(* The tree.                                                               *)

Tell(S, type, id_parent, id) ==
    [S EXCEPT !.net = Append(@, [type |-> type, parent |-> id_parent, id |-> id,
                                 e |-> S.entities[id],
                                 p |-> IF id_parent = NULL THEN NULL ELSE S.entities[id_parent]])]

\* Process_spawn, its end: the entity is on the server under an ID that has been taken.
Entered(S, e, id, id_parent) ==
    [S EXCEPT !.entities[id] = e, !.ID[e] = id, !.ID_Parent[e] = id_parent]

entity_Destroy(S, e) ==
    vfFreeID([S EXCEPT !.entities[S.ID[e]] = NULL, !.ID[e] = NULL], S.ID[e])

Linked(S, id_parent, id) ==
    [S EXCEPT !.ID_Parent[S.entities[id]] = id_parent,
              !.children[S.entities[id_parent]] = Append(@, id)]

\* Mutant: the parent keeps the item among its children.
HalfUnlinked(S, p, e) == [S EXCEPT !.ID_Parent[e] = NULL]

Unlinked(S, p, e) == [S EXCEPT !.ID_Parent[e] = NULL, !.children[p] = RemoveFirst(@, S.ID[e])]

\* An entity leaves the hands of its parent, and the client is told.
Detached(S, id) ==
    LET id_parent == S.ID_Parent[S.entities[id]]
    IN  IF id_parent = NULL THEN S
        ELSE Tell(Unlinked(S, S.entities[id_parent], S.entities[id]), "REJECT", id_parent, id)

Gone(S, id) == entity_Destroy(Tell(S, "DESTROY", NULL, id), S.entities[id])

\* It leaves its parent and dies.
Removed(S, id) == Gone(Detached(S, id), id)

Failed(S, request) == [S EXCEPT !.failed = request]
-----------------------------------------------------------------------------
(* The server's handlers of requests.                                      *)

Process_event_ownership(S, r) ==
    IF S.entities[r.id] = NULL THEN S
    ELSE IF S.entities[r.parent] = NULL THEN Failed(S, r)
    ELSE IF S.ID_Parent[S.entities[r.id]] # NULL THEN S
    ELSE Tell(Linked(S, r.parent, r.id), "TAKE", r.parent, r.id)

\* The release build goes on where VERIFY would stop: it uses an entity that is not
\* there, or erases end() from the children of an owner that has not got the item.
Process_event_reject(S, r) ==
    IF NULL \in {S.entities[r.parent], S.entities[r.id]} THEN Failed(S, r)
    ELSE CASE S.ID_Parent[S.entities[r.id]] = NULL     -> S
           [] S.ID_Parent[S.entities[r.id]] = r.parent -> Detached(S, r.id)
           [] OTHER                                    -> Failed(S, r)

\* Mutant: the server's own reject is also broadcast to its client.
DestroyedLoudly(S, r) ==
    IF S.entities[r.id] = NULL THEN S
    ELSE LET Twice(T) == IF Last(T.net).type = "REJECT" THEN [T EXCEPT !.net = Append(@, Last(@))] ELSE T
             Out(T, id) == IF T.ID_Parent[T.entities[id]] = NULL THEN T ELSE Twice(Detached(T, id))
         IN  FoldLeft(LAMBDA T, id : Gone(Out(T, id), id), S,
                      Append(S.children[S.entities[r.id]], r.id))

\* The children go first, from the front, then the entity leaves its parent and dies.
Process_event_destroy(S, r) ==
    IF S.entities[r.id] = NULL THEN S
    ELSE FoldLeft(Removed, S, Append(S.children[S.entities[r.id]], r.id))

\* Mutant: the client hears of the owner's end before it hears of its items'.
OwnerFirst(S, id) ==
    LET T == FoldLeft(Removed, S, Append(Reverse(S.children[S.entities[id]]), id))
        made == SubSeq(T.net, Len(S.net) + 1, Len(T.net))
    IN  [T EXCEPT !.net = S.net \o <<Last(made)>> \o Front(made)]

\* The simulator's way: the children from the back, then the entity itself.
Perform_destroy(S, id) ==
    FoldLeft(Removed, S, Append(Reverse(S.children[S.entities[id]]), id))

Process_event(S, r) ==
    IF S.failed # NULL THEN S
    ELSE CASE r.type = "TAKE"    -> Process_event_ownership(S, r)
           [] r.type = "REJECT"  -> Process_event_reject(S, r)
           [] r.type = "DESTROY" -> Process_event_destroy(S, r)

Request(type, o, i) ==
    [type |-> type, parent |-> IF o = NULL THEN NULL ELSE net_ID[o], id |-> net_ID[i]]

\* CLevel::Send hands a packet to the server in the same process, which handles it at once.
Send(requests) == server' = FoldLeft(Process_event, server, requests)
-----------------------------------------------------------------------------
Online(e)  == server.ID[e] # NULL /\ server.entities[server.ID[e]] = e
Offline(e) == server.ID[e] # NULL /\ ~Online(e)

Running == server.failed = NULL /\ crashed = NULL
Pending == events \o server.net
Asking  == Running /\ phase = "update" /\ Len(Pending) < MaxPending

\* The actor has been spawned under ID 0, and nothing else.
Init ==
    LET a  == SetToSeq(Actors)
        at == [id \in IDs |-> IF id < Len(a) THEN a[id + 1] ELSE NULL]
        ID == [e \in Entities |-> IF e \in Actors THEN CHOOSE id \in IDs : at[id] = e ELSE NULL]
        first(b) == IF b * tBlockSize < Len(a) THEN Len(a) ELSE b * tBlockSize
        free == [b \in Blocks |-> [k \in 1 .. (b + 1) * tBlockSize - first(b) |->
                                                             (b + 1) * tBlockSize - k]]
    IN  /\ server = [entities |-> at, ID |-> ID, ID_Parent |-> [e \in Entities |-> NULL],
                     children |-> [e \in Entities |-> <<>>], free |-> free,
                     blocks |-> [k \in 1 .. BlockCount |-> k - 1], freed |-> {},
                     net |-> <<>>, failed |-> NULL]
        /\ object = [e \in Entities |-> IF e \in Actors THEN "spawned" ELSE "none"]
        /\ net_ID = ID /\ map_NETID = at
        /\ Parent = [e \in Entities |-> NULL]
        /\ events = <<>> /\ settling = {} /\ switched = {}
        /\ phase = "update" /\ crashed = NULL
-----------------------------------------------------------------------------
(* Requests of client objects, scripts and the user interface.             *)

\* Process_spawn of a new entity, into the hands of an owner or on its own; without its
\* parent on the server it would be dropped.
Process_spawn(e, o) ==
    /\ Asking /\ Roomy
    /\ server.ID[e] = NULL /\ object[e] = "none" /\ \A m \in Range(Pending) : m.e # e
    /\ o # NULL => /\ e \in Items /\ o \in Owners /\ object[o] = "spawned"
                   /\ server.entities[net_ID[o]] # NULL
    /\ LET id == NewID(server)
           S  == Entered(Taken(server, id), e, id, NULL)
       IN  server' = IF o = NULL THEN Tell(S, "SPAWN", NULL, id)
                     ELSE Tell(Linked(S, net_ID[o], id), "SPAWN", net_ID[o], id)
    /\ UNCHANGED <<events, settling, client, phase, switched, crashed>>

Ask(requests) == /\ Asking
                 /\ Send(requests)
                 /\ UNCHANGED <<events, settling, client, phase, switched, crashed>>

\* feel_touch_new, PickupModeUpdate: an item nearby that nobody holds on the client.
TakeNear(o, i) ==
    /\ object[o] = "spawned" /\ object[i] = "spawned" /\ Parent[i] = NULL
    /\ Ask(<<Request("TAKE", o, i)>>)

Holds(o, i) == object[o] = "spawned" /\ Parent[i] = o

\* UpdateDropItem, DropItemSendMessage.
Drop(o, i) ==
    /\ Holds(o, i)
    /\ Ask(<<Request("REJECT", o, i)>>)

\* TransferItem, move_item.
TransferItem(o, i, q) ==
    /\ q # o /\ object[q] = "spawned" /\ Holds(o, i)
    /\ Ask(<<Request("REJECT", o, i), Request("TAKE", q, i)>>)

Eat(o, i) ==
    /\ Holds(o, i)
    /\ Ask(<<Request("REJECT", o, i), Request("DESTROY", NULL, i)>>)

\* DestroyObject on the client; a script's release of what is online on the server.
DestroyObject(e) ==
    /\ e \notin Actors
    /\ \E id \in {net_ID[e], server.ID[e]} \ {NULL} :
          /\ id = net_ID[e] => object[e] = "spawned"
          /\ id # net_ID[e] => Online(e)
          /\ Ask(<<[type |-> "DESTROY", parent |-> NULL, id |-> id]>>)
-----------------------------------------------------------------------------
(* The simulator.  It meets an object at most once in a frame.             *)

Switching(e) == Asking /\ e \notin switched /\ server.ID_Parent[e] = NULL

Called(id) == CHOOSE e \in Entities : server.ID[e] = id

\* add_offline: an item takes its ID again and stays its owner's own.
Kept(S, e, id) == [Taken(S, id) EXCEPT !.ID[Called(id)] = id, !.ID_Parent[Called(id)] = server.ID[e],
                                       !.children[e] = Append(@, id)]

\* With its items the entity leaves the server; their IDs are taken again at once.
remove_online(e) ==
    /\ Switching(e) /\ Online(e) /\ e \notin Actors
    /\ LET id == server.ID[e]
       IN  server' = FoldLeft(LAMBDA S, item : Kept(S, e, item),
                              [Taken(Perform_destroy(server, id), id) EXCEPT !.ID[e] = id],
                              server.children[e])
    /\ switched' = switched \cup {e}
    /\ UNCHANGED <<events, settling, client, phase, crashed>>

\* add_online: entity_Destroy releases each ID, Process_spawn takes it back and tells the client.
Respawned(S, e) ==
    LET id == S.ID[e] IN Tell(Entered(Taken(entity_Destroy(S, e), id), e, id, S.ID_Parent[e]),
                              "SPAWN", S.ID_Parent[e], id)

add_online(e) ==
    /\ Switching(e) /\ Offline(e)
    /\ server' = FoldLeft(LAMBDA S, id : Respawned(S, Called(id)), server,
                          <<server.ID[e]>> \o server.children[e])
    /\ switched' = switched \cup {e}
    /\ UNCHANGED <<events, settling, client, phase, crashed>>

\* It leaves its owner, if it has one, and the simulator.
Released(S, e) ==
    LET id_parent == S.ID_Parent[e]
    IN  entity_Destroy(IF id_parent = NULL THEN S ELSE Unlinked(S, Called(id_parent), e), e)

\* A script's release of what is offline: its items go first.
release(e) ==
    /\ Asking /\ Offline(e)
    /\ server' = FoldLeft(LAMBDA S, id : Released(S, Called(id)), server,
                          Append(server.children[e], server.ID[e]))
    /\ UNCHANGED <<events, settling, client, phase, switched, crashed>>
-----------------------------------------------------------------------------
(* The client: ClientReceive, ProcessGameEvents, Objects.Update.           *)

ClientReceive ==
    /\ Running /\ phase = "update"
    /\ events' = events \o server.net
    /\ settling' = server.freed
    /\ server' = [server EXCEPT !.net = <<>>, !.freed = {}]
    /\ phase' = "events"
    /\ UNCHANGED <<client, switched, crashed>>

Event(type) == /\ Running /\ phase = "events" /\ events # <<>>
               /\ Head(events).type = type
               /\ events' = Tail(events)
               /\ UNCHANGED <<settling, net_ID, phase, switched>>

Quiet == UNCHANGED <<server, crashed>>
Crash == crashed' = Head(events) /\ UNCHANGED <<server, Parent>>

\* OnEvent, GE_OWNERSHIP_TAKE: CanTakeItem and Take, or back to the server with it.  The
\* actor looks whether there is such an item, a stalker relies on it.
OnTake(o, i) ==
    \/ /\ o = NULL \/ (i = NULL /\ o \in Actors)
       /\ Quiet /\ UNCHANGED Parent
    \/ /\ o # NULL /\ i = NULL /\ o \notin Actors
       /\ Crash
    \/ /\ o # NULL /\ i # NULL
       /\ object'[i] = "spawned"
       /\ Parent' = [Parent EXCEPT ![i] = o]
       /\ Quiet
    \/ /\ o # NULL /\ i # NULL
       /\ <<o, i>> \in Refuses \/ object'[i] = "dying"
       /\ Send(<<[type |-> "REJECT", parent |-> Head(events).parent, id |-> Head(events).id]>>)
       /\ UNCHANGED <<Parent, crashed>>

\* g_sv_Spawn: map_NETID.insert leaves an entry that is there alone.
ClientSpawn ==
    /\ Running /\ phase = "events" /\ events # <<>> /\ Head(events).type = "SPAWN"
    /\ LET m == Head(events)
       IN  /\ object' = [object EXCEPT ![m.e] = "spawned"]
           /\ net_ID' = [net_ID EXCEPT ![m.e] = m.id]
           /\ map_NETID' = [map_NETID EXCEPT ![m.id] = IF @ = NULL THEN m.e ELSE @]
           /\ IF m.parent = NULL THEN Quiet /\ UNCHANGED Parent
              ELSE OnTake(map_NETID'[m.parent], map_NETID'[m.id])
    /\ events' = Tail(events)
    /\ UNCHANGED <<settling, phase, switched>>

ClientTake ==
    /\ Event("TAKE")
    /\ UNCHANGED <<object, map_NETID>>
    /\ OnTake(map_NETID[Head(events).parent], map_NETID[Head(events).id])

\* GE_OWNERSHIP_REJECT: the actor ignores what is not his or is dying; a stalker's DropItem
\* relies on having the item.
ClientReject ==
    /\ Event("REJECT")
    /\ UNCHANGED <<object, map_NETID>>
    /\ LET o == map_NETID[Head(events).parent]
           i == map_NETID[Head(events).id]
           ignored == \/ NULL \in {o, i}
                      \/ (o \in Actors /\ (Parent[i] # o \/ object[i] = "dying"))
       IN  \/ ignored /\ Quiet /\ UNCHANGED Parent
           \/ ~ignored /\ Parent[i] = o /\ Quiet /\ Parent' = [Parent EXCEPT ![i] = NULL]
           \/ ~ignored /\ Parent[i] # o /\ Crash

ClientDestroy ==
    /\ Event("DESTROY")
    /\ LET e == map_NETID[Head(events).id]
       IN  object' = IF e = NULL THEN object ELSE [object EXCEPT ![e] = "dying"]
    /\ Quiet /\ UNCHANGED <<Parent, map_NETID>>

\* Mutant: the objects are destroyed with events still to be handled.
UpdateEarly ==
    LET dying == {e \in Entities : object[e] = "dying"}
    IN  /\ Running /\ phase = "events"
        /\ object' = [e \in Entities |-> IF e \in dying THEN "none" ELSE object[e]]
        /\ net_ID' = [e \in Entities |-> IF e \in dying THEN NULL ELSE net_ID[e]]
        /\ Parent' = [e \in Entities |-> IF e \in dying THEN NULL ELSE Parent[e]]
        /\ map_NETID' = [id \in IDs |-> IF map_NETID[id] \in dying THEN NULL ELSE map_NETID[id]]
        /\ phase' = "update" /\ switched' = {} /\ settling' = {}
        /\ UNCHANGED <<server, events, crashed>>

\* With the last event handled, Objects.Update updates everybody and destroys the dying.
\* What UpdateCL asks for is taken to come at the end of it, in the next "update".
Update ==
    LET dying == {e \in Entities : object[e] = "dying"}
    IN  /\ Running /\ phase = "events" /\ events = <<>>
        /\ object' = [e \in Entities |-> IF e \in dying THEN "none" ELSE object[e]]
        /\ net_ID' = [e \in Entities |-> IF e \in dying THEN NULL ELSE net_ID[e]]
        /\ Parent' = [e \in Entities |-> IF e \in dying THEN NULL ELSE Parent[e]]
        /\ map_NETID' = [id \in IDs |-> IF map_NETID[id] \in dying THEN NULL ELSE map_NETID[id]]
        /\ phase' = "update" /\ switched' = {} /\ settling' = {}
        /\ UNCHANGED <<server, events, crashed>>
-----------------------------------------------------------------------------
Next ==
    \/ \E e \in Entities : \/ Process_spawn(e, NULL) \/ DestroyObject(e)
                           \/ remove_online(e) \/ add_online(e) \/ release(e)
    \/ \E o \in Owners, i \in Items :
          \/ Process_spawn(i, o) \/ TakeNear(o, i) \/ Drop(o, i) \/ Eat(o, i)
          \/ \E q \in Owners : TransferItem(o, i, q)
    \/ ClientReceive \/ ClientSpawn \/ ClientTake \/ ClientReject \/ ClientDestroy
    \/ Update

Spec == Init /\ [][Next]_vars

-----------------------------------------------------------------------------
(* Properties.                                                             *)

TypeOK ==
    /\ server.entities \in [IDs -> Entities \cup {NULL}]
    /\ server.ID \in [Entities -> IDs \cup {NULL}] /\ server.ID_Parent \in [Entities -> IDs \cup {NULL}]
    /\ \A e \in Entities : Range(server.children[e]) \subseteq IDs
    /\ \A b \in Blocks : Range(server.free[b]) \subseteq {id \in IDs : Block(id) = b}
    /\ IsInjective(server.blocks) /\ Range(server.blocks) = Blocks
    /\ server.freed \subseteq Blocks /\ settling \subseteq Blocks
    /\ Range(Pending) \subseteq Messages
    /\ server.failed \in Requests \cup {NULL} /\ crashed \in Messages \cup {NULL}
    /\ object \in [Entities -> {"none", "spawned", "dying"}]
    /\ net_ID \in [Entities -> IDs \cup {NULL}]
    /\ Parent \in [Entities -> Owners \cup {NULL}]
    /\ map_NETID \in [IDs -> Entities \cup {NULL}]
    /\ phase \in {"update", "events"} /\ switched \subseteq Entities

\* An ID is free or names one entity, online or offline, and the two ends of each link
\* agree: an entity has a parent exactly when it stands once among the children of an
\* entity that is online exactly when it is itself.
ServerTree ==
    /\ \A id \in IDs : LET named == {e \in Entities : server.ID[e] = id}
                       IN  Cardinality(named) + Cardinality({k \in DOMAIN server.free[Block(id)] :
                                                               server.free[Block(id)][k] = id}) = 1
    /\ \A id \in IDs : server.entities[id] # NULL => server.ID[server.entities[id]] = id
    /\ \A p \in Entities : /\ IsInjective(server.children[p])
                           /\ \A id \in IDs : Contains(server.children[p], id) <=>
                                \E e \in Entities : server.ID[e] = id /\ server.ID[p] # NULL
                                                   /\ server.ID_Parent[e] = server.ID[p]
    /\ \A e \in Entities : server.ID_Parent[e] # NULL =>
          \E p \in Owners : server.ID[p] = server.ID_Parent[e] /\ (Online(p) <=> Online(e))

\* The client finds each of its objects by its ID, and no other object by it: no ID is
\* given away while an object of that ID is still there.
Reachable == \A e \in Entities : object[e] # "none" => map_NETID[net_ID[e]] = e

\* "Object is offline, but is on the level" (try_switch_online): when the simulator looks
\* at an offline object, what the client had of it is gone.
OfflineIsGone ==
    phase = "update" => \A e \in Entities \ switched :
        Offline(e) /\ server.ID_Parent[e] = NULL => object[e] = "none"

\* The assertions of the server stop no request but one that crosses a message under way
\* about the same item or its owner, and the client stumbles over no message but the REJECT
\* of an item its owner has refused.
OnlyCrossedFault ==
    /\ server.failed # NULL =>
          \E m \in Range(Pending) : m.id \in {server.failed.id, server.failed.parent}
    /\ crashed # NULL => crashed.type = "REJECT" /\ <<crashed.p, crashed.e>> \in Refuses

-----------------------------------------------------------------------------
(* Refinement of MirrorSpec.                                               *)

Absent == "absent"

ServerPlace(e) == IF ~Online(e) THEN Absent
                  ELSE IF server.ID_Parent[e] = NULL THEN NULL
                  ELSE server.entities[server.ID_Parent[e]]

\* An item that its owner has refused counts as his until the REJECT arrives.
ClientPlace(e) ==
    LET k == SelectInSeq(Pending, LAMBDA m : m.e = e)
    IN  IF object[e] # "spawned" THEN Absent
        ELSE IF k # 0 /\ Parent[e] = NULL /\ Pending[k].type = "REJECT" /\ <<Pending[k].p, e>> \in Refuses
             THEN Pending[k].p
        ELSE Parent[e]

ChangeOf(m) == [e |-> m.e, to |-> CASE m.type \in {"SPAWN", "TAKE"} -> m.p
                                    [] m.type = "REJECT"           -> NULL
                                    [] m.type = "DESTROY"          -> Absent]

Mirror == INSTANCE MirrorSpec WITH
              Free <- NULL,
              world <- [e \in Entities |-> ServerPlace(e)],
              mirror <- [e \in Entities |-> ClientPlace(e)],
              log <- [k \in DOMAIN Pending |-> ChangeOf(Pending[k])]

\* Until a fault stops it, server, queues and client together keep the promise of MirrorSpec.
ImplementsMirror == Mirror!MirrorSpecification
=============================================================================
