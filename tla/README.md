# X-Ray engine (Nocturning-studio platform X): a TLA+ model of its core

The program is a game built on the X-Ray engine: `xrEngine` runs the frame, schedules objects
and keeps the objects of a level; `xrGame` contains the game, a server and a client in one
process; `xrNetServer`, `xrSound`, `xrRender` and others serve them. It is written in C++, mostly
single-threaded, with one secondary thread per frame, and it has no tests. What is hard about it
is re-entrance: nearly every loop of the engine calls handlers that call back into the structure
the loop is walking, and nearly every change is queued and replayed later. The modules here model
that core and check it.

Paths without a directory are below `src/Sources/xrEngine/`.

## 1. The system

### Modelled

| Component | State | Operations | What must be right |
|---|---|---|---|
| `CSheduler` (`xrSheduler.cpp`) | `ItemsRT`, the heap `Items`, `ItemsProcessed`, the queue `Registration` | `Register`, `Unregister`, `Update` with `ProcessStep`; handlers `shedule_Update` call the first two again | one entry per object; no call behind `Unregister`; the elapsed times told, within the bounds of `clampr`; no starvation by the time budget |
| `CRegistrator` (`pure.h`) | `R` (objects and priorities), `in_process`, `changed` | `Add`, `Remove`, `Process`, `Resort`, clearing | one call per object and pass; the order is restored whenever it is lost |
| `CEventAPI` (`EventAPI.cpp`) | events with reference counts and handlers, `Events_Deferred` | `Create`, `Destroy`, `Handler_Attach`, `Handler_Detach`, `Signal`, `Defer`, `OnFrame` | exact references; each deferred event signalled once, in order |
| `CApplication` and the start of a level (`Application.cpp`, `xrGame/Level_start.cpp`) | the deferred events, `g_pGameLevel`, `g_loading_events`, `ll_dwReference`, `g_appLoaded`, the menu | requests of menus, console and network; `OnEvent`; one loading step per iteration | no start on top of a level; loading screen and menu consistent with the level |
| `CRenderDevice` (`device.cpp`) | `seqParallel`, three auto-reset events, `mt_bMustExit` | the iterations of the main loop, `SecondaryThreadProc`, `EndEventLoop` | delegates called once; no lost wake-up; no use of the device behind the end |
| `CObjectList` and `CObject` (`xr_object_list.cpp`, `xr_object.cpp`) | `objects_active`, `objects_sleeping`, `crows_0/1`, `destroy_queue`, each object's `bActiveCounter`, crow flag, parent | `Create`, `Update`, `Destroy`, `o_activate`, `o_sleep`, `o_crow`; callers: spawns, inventories, cars, physics shells, zones, rendering | lists and counters agree; nobody points to the dead; parents outlive children; everybody is told; nobody forgotten |
| Ownership between server and client (`xrGame/xrServer*.cpp`, `id_generator.h`, `Level.cpp`, `Level_network*.cpp`) | the server's tree of entities, free IDs in blocks, messages under way, the client's objects with parents and `map_NETID` | `Process_spawn`, `Process_event_ownership`, `_reject`, `_destroy`, `Perform_destroy`; `ClientReceive` and the handlers of events; requests of actors, stalkers, scripts and the simulator | the client sees the changes of one tree, each legal where it arrives; an ID never names two objects |
| ALife simulator (`xrGame/alife_*.cpp`, `safe_map_iterator_inline.h`) | the level registry, the schedule and the graph points, the iterators kept across updates, `m_bOnline` and the group of each object | one action per step of the update; registration, release, joining and leaving groups, death, `kill_entity` | each object in the registries its state asks for; members online with their group; what scripts spoil stays in its group; nobody forgotten by the limits |

They interact as follows. One iteration of `CRenderDevice::StartEventLoop` runs either one loading step or
`FrameMove`, which processes `seqFrame` (a `CRegistrator`). Its handlers are, among others,
`CApplication::OnFrame`, which runs `CEventAPI::OnFrame`, and `CLevel::OnFrame`, which handles network events
and runs `CObjectList::Update`; `CGamePersistent::OnFrame` runs `CSheduler::Update` unless paused. One of the
objects it calls is the ALife simulator, whose update switches entities between its own registries and the
server, which sends their spawning and destruction to `CLevel`. In single player, server and client share the
process: requests of the client are handled at once, messages to it are handled in the `CLevel::OnFrame` that
finds them queued. An object's `shedule_Update` makes it a crow of `CObjectList`, and the `CObjectList` asks for
its `UpdateCL`. With `mtPhysics`, the default, `CPHWorld` is registered with `seqFrameMT`, which the secondary
thread processes while the primary one renders.

### Not modelled

* **xrNetServer**: send buffers with their flags, pools of packets shared with the network thread,
  clock samples, connection states; DirectPlay below it is external. In single player `CLevel::Send` and
  the server's `SendTo` hand packets over in the process and use none of it.
* **xrSound**: states of emitters and the targets they compete for. Floating-point priorities and positions
  decide nearly every step.
* **TaskManager and ParallelFor** (`xrCore`): rings of tasks and work stealing. The program never creates one.
* **Rest of xrEngine** (console, input, weather, cameras, spatial database), **rest of xrCore**
  (memory, files, strings): settings, numeric code, libraries.
* **Rest of xrGame** (AI, weapons, user interface, scripts, physics objects): behaviours and
  data. What cars, inventories and shells do to the lists of objects is in `ObjectList`, who holds what in `Ownership`.
* **xrRender, xrCDB, xrParticles, xrD3D9-Null**: numeric code and Direct3D.
* **Launcher, Installer, MailService, UpdateService, SDK converters**: small sequential programs.
* **xrODE, xrLua, xrGameSpy, xrDiscordAPI, Third-party**: vendored.

## 2. Plan

1. *Done:* scheduler, registrator, events, level start, frame threads, object list; proofs about the
   scheduler and the frame threads.
2. *Done:* ownership between server and client, with the ID generator and the abstract specification
   `MirrorSpec`.
3. *Done:* the simulator's update on top of the iterator that is kept across frames.
4. *Dropped:* the network buffers, sound emitters and the task pool, for the reasons given above.
5. *Done:* proofs about `Registrator`, `EventAPI`, `AppEvents`, `ObjectList`, `ALife` and, with it, the
   iterator of `SafeMapIterator`; the step simulations behind `Registrator!ImplementsSpec` and
   `EventAPI!ImplementsSpec`; in `Sheduler`, `ElapsedTold` and the step simulation behind `ImplementsSpec`.
6. *Done:* proofs about `Ownership`: `TypeOK`, `ServerTree`, `Reachable`, `OfflineIsGone`, `OnlyCrossedFault` and the step
   simulation behind `ImplementsMirror`.

## 3. Modules

| Module | Models | Abstract specification |
|---|---|---|
| `Sheduler` | `CSheduler` | `ShedulerSpec`: who is registered, who may still be called in this pass, who is being called |
| `Registrator` | `CRegistrator` | `RegistratorSpec`: a pass over a set that handlers change |
| `EventAPI` | `CEventAPI` | `EventQueueSpec`: a queue worked through once per frame |
| `AppEvents` | level start and end, on top of an instance of `EventQueueSpec` | |
| `FrameSync` | the two threads of a frame | `ForkJoinSpec`: serial part, parallel part, work done once and in order |
| `ObjectList` | `CObjectList`, `CObject`, and what changes them | |
| `Ownership` | server tree, ID generator, client objects and the messages between them | `MirrorSpec`: one tree, each change seen once, in order and legal where it arrives |
| `SafeMapIterator` | `CSafeMapIterator`, as pure operators | |
| `ALife` | the registries and the update of the simulator, on `SafeMapIterator` | |
| `Sheduler_proofs`, `Registrator_proofs`, `EventAPI_proofs`, `AppEvents_proofs`, `FrameSync_proofs`, `ObjectList_proofs`, `ALife_proofs`, `Ownership_proofs` | theorems about the module each is named after | |
| `MC*` | instances for TLC | |

Variables have the names of the members they stand for; where one variable stands for several, the
comment behind it says which. `PROJECT.json` maps each definition to its lines.

**How loops are modelled.** A loop that calls handlers is split at each call: one action enters the
call, the handler's operations are actions of their own while the call is open, and one action
returns and advances the loop. This gives every re-entrant call the code allows: `Sheduler!CallRT` to
`ReturnRT`, `Registrator!Call` to `Return`, `EventAPI!Call` to `Return`, `ObjectList!NextObject` to
`UpdateCL`. Straight code between two calls is one action.

**Sheduler.** `dwTimeOfLastExecute` and `dwTimeForExecute` are kept relative to now, so that the clock need not
be bounded; `MaxAge` caps an age, and the run takes that cap as "long ago". A handler called from the heap is
told its age clamped between 1 and `Longest`, `max(t_max, 1000)` of its object (`clampr`), one called from
`ItemsRT` its age as it is; `cur.last` is what it is told. Ties in the heap may be broken either way, as
`std::push_heap` leaves open. The budget may run out at each test of it (every third object; `CheckPeriod` = 1
tests it at each).

**Registrator.** A priority is a number; `REG_PRIORITY_CAPTURE` is the largest 32-bit one, and `Overflows`
models what `_REG_Compare` makes of its distance to `REG_PRIORITY_INVALID`.

**EventAPI.** `Signal` by name takes a reference of its own and a deferred event holds one; `RefExact`
counts both.

**AppEvents.** A level is none, created (`net_Start` has been queued) or loaded. Each loading step is an
action with the failures it may meet. `calm` is a history variable: no frame has held two requests
and no start has failed. A start that fails ends, in its finalizer, in the destructor of a level
without `pLevel`, the fault `unloaded`: there the model stops, and what would come behind it is not judged.

**FrameSync.** The events are Win32 auto-reset events: Set of a set event is lost, Wait takes it. Threads
interleave at each access to a shared variable.

**ObjectList.** An object's body says whether it has a physics shell of its own that moves, is about
to stop or is still, or where in an inventory it is; each change makes the requests for processing
that the code makes. `MakeMeCrow` on the physics and the primary thread is split in three steps, the test, the flag
with the read of the vector's end, and the store.

**Ownership.** The server is one record, and a handler a function from one state of it to the next, because
handlers run one inside the other without a break: `remove_online` destroys the children and the owner in one
step. A message carries IDs, as in the code, and besides, for the refinement only, the entities they stood
for when it was sent. `phase` tells the two halves of a frame: requests come in `update`, events are handled in
`events`, each an action, with the requests its handler makes. `switched` lets the simulator switch an entity once per
frame. The model stops at a fault, `failed` on the server and `crashed` on the client. IDs that a
frame has freed are not taken again in it while other blocks have free ones (`Roomy`): the 256 blocks of the game make
it so, the two of the run only with that guard.

**MirrorSpec.** Its `world` is the server's tree, its `mirror` the client's, its `log` the changes under way. The
server may make several changes in a step; the client sees one at a time, and it must be legal in its
own tree. `Deliver` with an answer is the reject of an item that a stalker refuses to take.

**ALife.** Positions are reduced to near (the object may come online), far (it may go offline) and
between. `SwitchNext` and `UpdateNext` are one step of the two loops of the update, with everything the handler of that object
does to the registries; requests of scripts come between them. `alife` is one record, and the operations
of the registries functions on it, since they call one another. `threw` records over whom a THROW2 was met,
and `stayed` who has been in the level registry since the update began.

A `VERIFY` is not compiled into the release build, so it is no guard. Two requests of scripts can therefore
spoil a group: `kill_entity` of a member, which nobody tells the group, and `register_member` of one who is
dead, or not online like the group, or at another vertex. The constant `Killed` says to whom that may happen;
the theorems hold for every `Killed`. `astray`, a history variable, records whom such a request has touched: the
victim, the group and its members (also one outside of a group who is moved by `kill_entity` while he is online,
which brings him to a graph point). An ID leaves `astray` when it is given to a new object and the old one has
left nothing in a registry. `InItsPlace`, `MembersTogether` and `OnlyEmptyGroupThrows` speak of those who are
not astray: that the damage does not spread is what they say, and it is false of the astray. `TypeOK`,
`WholeRound` and `NobodyForgotten` speak of everybody.

## 4. Runs

| Run | Instance | States | Shows |
|---|---|---|---|
| `sheduler` | 2 objects, 2 queued requests, 2 entries per list, ages up to 2, of which one object is told at most 1 | 1.4 M | type correctness, one entry per object, the times told, `ShedulerSpec`; no object starves |
| `registrator` | 3 objects, 3 priorities with `CAPTURE`, 5 entries | 50 k | the mark `changed` is never lost; `RegistratorSpec` |
| `event_api` | 2 events, 2 receivers, 3 deferred, signals nested twice | 90 k | exact references and handlers (`RefExact`); `EventQueueSpec` |
| `app_events` | 6 events per frame, all failures | 17 k | no start over a level; while the program lives a level or the menu, and no half made level without steps left; and, while calm, no fault, loading screen, clean quit |
| `frame_sync` | 2 delegates, 3 pushed | 384 | `ForkJoinSpec`, the device outlives the thread, every wait ends |
| `object_list` | a corpse with a shell, an artefact; all modes of `Update` | 235 k | no dangling entry, everybody told, parents alive, flags cleared, enabled objects updated again and again |
| `object_list_physics` | actor, car and zone, physics on its thread | 7.5 M | lists and counters agree |
| `ownership` | actor and stalker, gun (which the stalker may refuse) and medkit, 6 IDs in 2 blocks, requests while fewer than 2 messages are under way | 599 k | tree and IDs consistent, IDs unique on the client, faults only where messages cross; `MirrorSpec` |
| `alife` | stalkers 1 and 3 and group 2, of them 1 may be killed by scripts or join where he does not fit, one switch and one scheduled object per update | 573 k | registries, groups and the bounds of what scripts spoil, whole rounds, nobody forgotten |
| `app_events_command` | console command `start` on a level | | violates `StartsOnNoLevel` |
| `object_list_lost_crow` | two shells, physics on its thread | | violates `UpdatedAgain` |
| `object_list_relcase` | actor, car, box | | violates `Told` |

**Why these bounds are enough.** The faults to be expected in these structures are about two entries: one that
is walked and one that a handler adds, removes or moves around it. Two objects show it, three where the order of
the others matters. Two queued requests show every pair that may cancel out; a third one repeats the situation
of the second. `MaxAge` 2 tells now, one frame ago and earlier apart, so that a time counted twice shows, and is
above one object's `Longest` and not above the other's; `TimesTold` (section 6) is proved for every other value.
Six deferred events hold three requests of two events. `MaxCounter` 3 requests is what place, move and shell of
one item ask for together. In `ownership` a message may meet a request that was made before it arrived, and two
of them are what it takes for a take and a destruction, or two takes, of one item to cross; one item that can be
refused and one that cannot, an owner of either class, and two more IDs than entities, so that IDs come back
while others are free. In `alife` the stalkers have IDs below and above the group's, which are passed over or
met twice if the iterator is moved wrongly, and with limits of one every limit bites in every
update. Stalker 1 can set the group astray while 3 is in it, joins it later, or stays outside of it.

**Fairness.** `sheduler`: weak fairness of `Pass` and `Frame`, the loops of `Update` and the main
loop that calls it; time moves with the frames, handlers return. `EnsureOrder`, which nothing calls, is in the
model, and `NoStarvation` excepts runs that repeat it for ever. `frame_sync`: weak fairness of each thread; WM_QUIT is
not assumed. `object_list`: weak fairness of the loops, strong fairness of the start and end of a frame
(level events may come in between, but not for ever) and of `shedule_Update` of each object, which is
`NoStarvation` of the scheduler. `alife`: the update goes on, `[]<><<Update>>_vars`; one of its steps is possible
in every state, so this is weak fairness of it. `NobodyForgotten` excepts updates in which others go online for
ever and updates that the time limit cuts short.

**Deadlock** is checked wherever the program does not end. Runs whose program ends, or that stop in a
fault the model names, say so in their configuration.

## 5. Findings

* **A start from the console over a level.** `CCC_Start::Execute` defers `KERNEL:start` also when a level is
  loaded; the handler asserts there is none (`Application.cpp:172`).
* **A lost crow.** With physics on the secondary thread a shell that wakes and an object that is rendered
  push to `crows` at once. The object whose push is lost keeps its flag and is never made a crow again: it
  freezes. The comment of `UpdateCL` promises otherwise.
* **An object that is not told.** `CActor::net_Relcase` leaves a dying car inside the loop over
  `objects_active`; if the car falls asleep it is erased under the iterator and the next object misses `net_Relcase`, or the loop
  leaves the vector.

Observations met on the way, each next to its line under "hazards" in `PROJECT.json`: a handler that
unregisters a real-time object makes the scheduler count its own time twice and skip the next object
(`ElapsedTold` excepts it); a failed start ends in the destructor of a level without `pLevel`; the
requests for processing of an item grow whenever a moving shell is deactivated; a zone that wakes an
object twice in a frame leaves an entry to it in a crow list, which is why `NoDangling` is run without zones.

In the server and the simulator:

* A stalker that refuses an item asks the server to reject it, the server broadcasts that, and the
  handler of the reject asserts that the item is in his inventory (`Inventory.cpp:204`), where it never was.
  `OnlyCrossedFault` shows that no other message finds the client unprepared.
* `CALifeUpdateManager::set_process_time` stores microseconds where `time_over` compares seconds
  (`alife_update_manager.cpp:137`): the time limit never bites. If it did, a walker that
  `CALifeGraphRegistry::change` takes out of the level registry and puts back, while the iterator stands on him,
  could be passed over in each update.
* A group without members is in no level registry, so `switch_object` never asks whether it is redundant
  and nothing releases it. If a script releases it offline, it meets the THROW2 of its schedule or graph point
  (`OnlyEmptyGroupThrows`). A group that is released before its members leaves them pointing to it; the
  model releases members first.
* `kill_entity` (`alife_combat_manager.cpp:467`) of a group's member does not take him out of the group, which
  asserts that its members are alive (the `VERIFY3` of `alife_online_offline_group.cpp:177` and `217`). If his
  body is moved, `graph().remove` finds him in no graph point and no level registry, which is THROW2, and
  `graph().add` puts him into them, beside his group. It does not set `m_game_death_time` either, so that such a
  body is never `redundant()`.
* `add_offline_impl` (`alife_trader_abstract.cpp:236`) and `CSE_InventoryBox::add_offline`
  (`alife_dynamic_object.cpp:256`) count a child that is not saved as removed without erasing it, and, unless it is the last, meet it
  again. Items that are not saved are not modelled.

## 6. Proofs

`Sheduler_proofs` proves, for every set of objects and every bound:

* `TypeCorrect`: `Spec => []TypeOK`.
* `OneEntry`: `Spec => []AtMostOneEntry`.
* `TimesTold`: `Spec => []ElapsedTold`.
* `Implements`: `Spec => ImplementsSpec`, the refinement of `ShedulerSpec`.

`AtMostOneEntry` is not inductive. Whether replaying the queue `Registration` makes a second entry depends
on what is queued, and whether `Unregister` finds the entry depends on the flag `b_RT` it carries. The
invariant is `IInv == TypeOK /\ PhaseOK /\ AtMostOneEntry /\ QueueReplays /\ FlagsMatch`:
`QueueReplays` says that a queued registration of an object that has an entry, or has another queued registration
before it, has a queued removal in between; `FlagsMatch` says that the first queued removal of an object, or its flag when nothing
is queued, names the list it is in; `PhaseOK` says what each loop may rely on. One lemma per action shows that `IInv` is
preserved, with the lists taken as sets of objects by lemmas on sequences. The assumptions are those
of `Sheduler` on its constants.

The other two theorems need two facts about a pass in progress. `Serving`: while a real-time object is called, the
heap holds no entry of it and the loop still stands on its entry, unless a handler has erased some.
`QueuedGone`: a pass starts with an empty queue, and whatever is queued during it has taken its object out of both lists first, so that
the times a pass works with are those of objects nobody has asked to remove. With them the age of an entry is the
time since its object was last called or registered, in the heap, among the processed entries and, until a handler
erases one in the middle of the loop, in `ItemsRT`. For the
refinement, an object is registered in `ShedulerSpec` as its last queued request says, and by the lists when nothing
is queued; each action is a step of `ShedulerSpec` or a stutter, and replaying the queue changes nothing there.

`FrameSync_proofs` proves, for any delegates and any length of the list:

* `TypeCorrect`: `Spec => []TypeOK`.
* `DeviceSafe`: `Spec => []DeviceOutlivesThread`.
* `Implements`: `Spec => ImplementsSpec`, the refinement of `ForkJoinSpec`.

That the device is safe depends on every earlier exchange of signals: a `syncFrameDone` left over from one frame
would end the next one early. The invariant is `IInv == TypeOK /\ Handshake /\ JobsInOrder`: `Handshake` lists
where the two threads may be together and says that at most one signal is under way, towards the thread
that waits for it; `JobsInOrder` says where the loop over `seqParallel` stands and that the list is
empty when the frame is reported done. For the refinement, each action is mapped under `IInv` to the step of
`ForkJoinSpec` it is, or to a stutter; `OneLess` says that the return of a job takes the first one from the rest of the list.

`Registrator_proofs` proves, for any objects, priorities and length of the list:

* `Invariant`: `Spec => []IInv`, and from it `TypeCorrect` and `Marked` (`OutOfOrderIsMarked`).
* `Implements`: `Spec => ImplementsSpec`, the refinement of `RegistratorSpec`.

The mark is inductive only together with the course of a pass: `IInv == TypeOK /\ OutOfOrderIsMarked /\ Once(R) /\
PassOK`. `Once` says that no object is in the list twice, so that a removal invalidates the only entry; `PassOK`
that the loop stands in a list which is not empty, and that only a pass leaves a Resort to do. For the refinement the rest
of the list behind the loop variable is the set of those who will still be called.

`EventAPI_proofs` proves, for any names, receivers, handlers and depth of nesting:

* `Invariant`: `Spec => []IInv`, and from it `TypeCorrect` and `CountsExact` (`RefExact`).
* `Implements`: `Spec => ImplementsSpec`, the refinement of `EventQueueSpec`.

`RefExact` counts owners, receivers, deferred entries and signals; it lacks what keeps those counts exact while
signals are nested: `Running` says who makes the outermost signal, that a deferred entry keeps its event until
its turn is over, and that an owner keeps the event it signals. `IInv == TypeOK /\ RefExact /\ Running` and the
finiteness of the set of receivers of an event. The counts of `deferred` and of the stack are cardinalities of
sets of positions, moved one by one by the lemmas `DistinctAppend`, `DistinctErase` and `DistinctCount`.

`AppEvents_proofs` proves `TypeCorrect` for any set of requests, and for any set without the console command `start`:

* `Invariant`: `Spec => []IInv`, and from it `NoLevelAtStart` (`StartsOnNoLevel`), `NeverFaults` (`NoFault`),
  `ScreenWhileLoading` (`LoadScreen`) and `NeverLeftAlone` (`LevelOrMenu`).

The hypothesis is the finding of section 5: with that command `StartsOnNoLevel` is false, as
`app_events_command` shows. Which event may be deferred depends on the level, and the level on what has been
handled before it in the same frame. `Order` says that a `KERNEL:start` in the queue has no level to meet or a
disconnect right before it; `CalmOK` relates the loading steps that are left, the level, the references of the
loading screen, the results and the menu by the stage the start is in, and the events of a calm frame to the one
request they come from. `Underway` says the same of a start that may fail and of crowded frames, with less:
which steps find the level half made, which loaded, and that none finds it half made with no steps left;
`LevelOrMenu` rests on it, as long as no fault ends the program. That the wrapped counter of the loading screen
has at least three values is the assumption `Width > 2`, which a `u32` satisfies.

`ObjectList_proofs` proves `TypeCorrect` for all constants, and

* `Invariant`: `Spec => []IInv`, and from it `ListsFollowCounters` (`ListsMatchCounters`) and `ParentsOutlive`
  (`ParentsLive`), if `MaxCounter < MaxActive`;
* `CrowsListed` (`CrowListed`), if also physics runs on the primary thread (`~mtPhysics`);
* `NothingDangles` (`NoDangling`), if besides there are no zones;
* `AllAreTold` (`Told`), if `MaxCounter < MaxActive`, with any cars and with or without `mtPhysics`, of every behaviour without a
  step `PassesOver`: a car that the loop over `objects_active` has passed, or stands at, falls asleep in `net_Relcase`.

Each hypothesis is one of the faults of the code that section 5 names. `bActiveCounter` is a byte, so an object
with 256 requests for processing looks like one with none; the code has no test against it, and the model bounds
the requests of one object below the wrap. With physics on its own thread a crow may be lost; a zone may enter
an object twice into a vector of crows; a car may fall asleep inside the loop of `net_Relcase`, and `AllAreTold`
shows that this step is the only way to miss somebody: a car that falls asleep where the loop has still to come
does no harm. The invariant is `Core`, which needs only the first hypothesis, and one part for each of the
others. In `Core`, `Sorted` says that the lists are disjoint by the counters and hold nobody twice; `Counted`
that a counter is at least the number of requests that will be taken back (the one of the body and the one of
the driver), which is what keeps a body that stops from going below zero; `Seats` that a driver and its car
point to each other, unless the car has died; `Families` that inventories are not nested and parent and child
are doomed together; `Doomed` that `destroy_queue` holds the doomed once, children behind their parents;
`Absent` that an object outside of the level has left nothing behind; `Pushing` and `Looping` where the steps of
the threads and the loops may be. `Alone` and `AllListed` find each crow flag its entry, `CrowsOnce`,
`CrowsComing` and `UpdatesOnce` say that an object is updated once per frame and enters a vector once, and
`Telling` how far the loops of `net_Relcase` are.

`ALife_proofs` proves, for any stalkers, groups, vertices and limits of an update:

* `Invariant`: `Spec => []IInv`, and from it `TypeCorrect`, `EverybodyInPlace` (`InItsPlace`),
  `GroupsTogether` (`MembersTogether`) and `Throws` (`OnlyEmptyGroupThrows`);
* `NobodyMissed`: `Spec => WholeRound`.

The three invariants need each other: who is in a registry follows from the object, and what a handler does to
the members of a group from their group. `Sound` adds that a stalker is always somewhere and a group while it
has members. None of this is true of the astray, and still everybody else must be kept from them: `Bound` says
that a stalker and his group are astray together, so that no handler of the one kind reads an object of the
other, and `Steady` what is left of order with the astray: the level registry and the schedule hold nobody who has been released, the
schedule nobody who is online or in a group, and no living member of a group is in the registry of the level,
which is what keeps the iterators and the rounds right. So each handler has two lemmas, one for an object in
order (`Good` before, `Evolved` behind) and one for an astray one (`Stir`, `Went`), and two lemmas for what
makes somebody astray (`Widen`) or gives his ID to another (`Narrow`). For `WholeRound`, `Round` says that on
the way from the iterator of the level registry, round the map, to anyone who has stayed and is not yet handled,
there is nobody this update has handled. So when the iterator meets a handled object, which ends the loop,
nobody is left. That `CSafeMapIterator::add` and `remove` keep the iterator on its object, and `update_next`
moves it to the next greater one or round to the least, are lemmas here.

`Ownership_proofs` proves, for any actors, stalkers, items and refusals, any number and size of blocks of IDs and any number of
messages under way:

* `Invariance`: `Spec => []IInv`, and from it `TypeCorrect`, `TreeCorrect` (`ServerTree`), `ClientFinds` (`Reachable`),
  `OfflineForgotten` (`OfflineIsGone`) and `FaultsCross` (`OnlyCrossedFault`);
* `MirrorImplemented`: `Spec => ImplementsMirror`, the refinement of `MirrorSpec`.

Apart from types and tree, none of these can be seen from the server or the client alone: a message was right when it
was sent and is handled later. `IInv` says that there is a tree `W`, the one the client sees, such that `Body(W)`, whose parts are:

* `ServerOK`: the stacks of free IDs and the names in use are disjoint (`StacksOK`, `NamesOK`), the two ends of a link
  agree, and owner and items are online together.
* `Reaches`, in `Side`: the messages under way, in their order, are a walk from `W` to the server's tree, and each step of
  it is `Allowed`, legal in the tree it is made in.
* What may be where an ID is: `Traces` and `OneTrace` (no other entity has an ID of which the client has an object or a message
  is under way), `LateBlocks` (blocks with IDs freed lately are the last to be taken from), `SpawnsFresh`
  (a spawn finds no object) and `OffGone` (who is offline has left nothing at the client but the messages of this frame).
* `ClientOK`, `Shows` and `PhaseOK`: the client's objects and the map of their IDs agree with `W`, and the
  queues with the half of the frame.
* `Crossed`: a fault of the server names an ID that a message under way is about.

A request, a switch or a release keeps `W` and only adds messages to the end of the walk; handling an event
moves `W` over the first of them, and may add the REJECT of an item that the owner refuses. Each handler is
shown to do this for one request in any good state, and then the folds (the children of a destruction, the items
of a switch, the requests of one step) by induction over the places they go through. Tree and client's view are
then those of `MirrorSpec`, so the same lemmas give the refinement: an action of the server is its `Change` with
the messages added, handling an event is its `Deliver`, with the reject of a refused item as the answer.
`OwnershipAssumption` is the only assumption on the constants: entities are finite, kinds are disjoint, and
there are at least as many IDs as actors in a new game. `ClientFinds` rests besides on the guard `Roomy` of the
model: an entity is made only while a block without lately freed IDs has free ones.

**Induction over numbers.** The library's induction theorem takes an operator, which the prover cannot
instantiate. The proofs use it for sets instead (`NaturalInduction`, `LeastNatural`, `GreatestNatural`, each derived
from the well-foundedness of finite sets in the module that needs it), and unfold with it the recursive function
`ObjectList!InOrder` and the folds of `Ownership` and `MirrorSpec`.

**Only model-checked:** liveness, which the prover does not reach (`NoStarvation`, `UpdatedAgain`,
`NobodyForgotten` and the other properties that need fairness). Every invariant of a passing run and every
refinement is also a theorem, some of them under the hypotheses named above.

## 7. What the models leave out

* The wrap of the 32-bit clock (49 days), a fault inside `shedule_Needed` (that of `shedule_Update` is
  modelled), the heap's exact layout.
* A nested `Process` of the same registrator; no handler does it. A handler that adds itself anew in each call
  would keep `Process` going for ever; no handler does that either.
* `KERNEL:load` and the `LEVEL:` events, which nothing defers; demo mode; the waits inside the loading
  steps.
* Rendering, pauses and device resets in `FrameSync`; that the renderer pushes no delegate while
  the secondary thread walks the list is taken from the code (`xrRender/render.cpp:363`).
* In `ObjectList`: `Unload`, which finds objects only when some have leaked, spawns that fail, the callbacks of
  `relcase_register`, network IDs and export.
* In `Ownership`: inventory boxes and traders as owners, children of children, items that are not saved, phantoms and
  respawning, migration between clients, `GE_TRANSFER_AMMO` and other broadcasts that move no entity,
  spawns that fail on the client. Requests that `UpdateCL` makes are taken to come behind the destruction of the dying in the
  same frame.
* In `ALife`: positions and distances, items and their attachment to graph points (what `kill_entity` does to
  the victim's things, too), smart terrains, stories, the decisions of the offline brains beyond where a stalker
  walks, saving, loading and changing the level. `synchronize_location` of a group is modelled, that of a single
  object, which looks its vertex up from its position, is not. What a switch does to the server's entities is in
  `Ownership`; the two are not composed, since each leaves open what the other decides: `Ownership` when
  entities are switched, `ALife` what becomes of their items.
