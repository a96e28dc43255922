------------------------------ MODULE AppEvents -------------------------------
(***************************************************************************)
(* Starting and leaving a level: the KERNEL events of CApplication and     *)
(* Game:QuickLoad of CGamePersistent, deferred in CEventAPI, and the queue *)
(* g_loading_events, which CLevel::net_Start fills and the main loop runs  *)
(* one step per iteration in place of the frame.                           *)
(***************************************************************************)
EXTENDS Integers, Sequences

CONSTANTS MaxDeferred,  \* bound: the events deferred for one frame
          Requests,     \* which of the requests below are issued
          Failures,     \* what may fail: "level", "server", "connect", "map"
          Width         \* the values of ll_dwReference, a u32

ASSUME AppEventsAssumption ==
    /\ MaxDeferred \in Nat
    /\ Requests \subseteq {"start", "command", "restart", "disconnect", "quit", "quickload"}
    /\ Failures \subseteq {"level", "server", "connect", "map"}
    /\ Width \in Nat \ 0 .. 2

VARIABLES
    deferred, next, delivering,  \* CEventAPI, as EventQueueSpec has it
    level,      \* g_pGameLevel: none, created, or loaded (bReady)
    loading,    \* g_loading_events
    load,       \* [refs, done]: ll_dwReference and g_appLoaded
    result,     \* net_start_result_total
    connected,  \* connected_to_server
    failed,     \* ~g_start_total_res
    menu,       \* the main menu is active
    quit,       \* PostQuitMessage has been called
    fault,      \* how the program has died, if it has
    calm        \* history: one request per frame at most, and no start has failed

Names == {"start", "disconnect", "quit", "quickload"}

Queue == INSTANCE EventQueueSpec

levelVars == <<level, loading, load, result, connected, failed, menu, quit, fault>>
appVars == <<deferred, next, delivering, levelVars, calm>>

Steps == {"start1", "start2", "start3", "start4", "start5", "start6",
          "client1", "client2", "client3", "client4", "client5", "client6", "finalizer"}

Faults == {"assert", "unloaded", "nolevel"}

Loads == [refs : 0 .. Width - 1, done : BOOLEAN]

TypeOK == /\ deferred \in Seq(Names)
          /\ next \in 0 .. Len(deferred)
          /\ delivering \in BOOLEAN
          /\ level \in {"none", "created", "loaded"}
          /\ loading \in Seq(Steps)
          /\ load \in Loads
          /\ result \in BOOLEAN /\ connected \in BOOLEAN /\ failed \in BOOLEAN
          /\ menu \in BOOLEAN /\ quit \in BOOLEAN /\ calm \in BOOLEAN
          /\ fault \in Faults \cup {"none"}

\* After the intro, with the main menu on.
Init == /\ Queue!QueueInit
        /\ level = "none" /\ loading = <<>>
        /\ load = [refs |-> 0, done |-> FALSE]
        /\ result = TRUE /\ connected = FALSE /\ failed = FALSE
        /\ menu = TRUE /\ quit = FALSE
        /\ fault = "none" /\ calm = TRUE

Dies(how) == /\ fault' = how
             /\ UNCHANGED <<level, loading, load, result, connected, failed, menu, quit, calm>>

Running == fault = "none" /\ ~(quit /\ Queue!Idle)

LoadBegin(l) == LET refs == (l.refs + 1) % Width
                IN  [refs |-> refs, done |-> l.done /\ refs # 1]
\* Mutant: the counter does not wrap.
LoadEndSigned(l) == [refs |-> l.refs - 1, done |-> l.done \/ l.refs = 1]
LoadEnd(l) == LET refs == (l.refs + Width - 1) % Width
              IN  [refs |-> refs, done |-> l.done \/ refs = 0]

-----------------------------------------------------------------------------
(* Who defers what.                                                        *)

Events == [start |-> <<"start">>,                  \* load_last_save and the menus' start
           command |-> <<"start">>,                \* the console command start
           restart |-> <<"disconnect", "start">>,  \* M_CHANGE_LEVEL, M_LOAD_GAME, M_MAP_SYNC
           disconnect |-> <<"disconnect">>,        \* the console, or a lost connection
           quit |-> <<"disconnect", "quit">>,      \* the console, Alt+F4, WM_CLOSE
           quickload |-> <<"quickload">>]          \* M_LOAD_GAME of the same level

Current == deferred[next]

\* CLevel::remove_objects, which ends a level and begins a quick load, receives
\* and handles network messages on its way.
RemovingObjects == delivering /\ Current \in {"disconnect", "quickload"}

\* CLevel::ClientReceive runs in the level's OnFrame, in two of the loading steps
\* and in remove_objects.
Receiving == \/ level = "loaded" /\ (Queue!Idle \/ RemovingObjects)
             \/ /\ Queue!Idle /\ loading # <<>>
                /\ Head(loading) \in {"client2", "client4"}

\* The state in which the clients issue a request.
Issued(r) == CASE r = "start" -> Queue!Idle /\ level = "none" /\ deferred = <<>>
               [] r = "restart" -> Receiving
               [] r = "quickload" -> Receiving /\ level = "loaded"
               [] OTHER -> Queue!Idle

\* Mutant: disconnect and start the other way round.
EventsSwapped(r) == IF r = "restart" THEN <<"start", "disconnect">> ELSE Events[r]
EventsOf(r) == Events[r]

Request(r) == /\ Running
              /\ Issued(r)
              /\ Queue!DeferAll(EventsOf(r))
              /\ calm' = (calm /\ deferred = <<>>)
              /\ UNCHANGED levelVars

\* In a game Escape shows and hides the menu.
ToggleMenu == /\ Running /\ Queue!Idle
              /\ level = "loaded"
              /\ menu' = ~menu
              /\ UNCHANGED <<deferred, next, delivering, level, loading, load, result,
                             connected, failed, quit, fault, calm>>

-----------------------------------------------------------------------------
(* CApplication::OnFrame runs CEventAPI::OnFrame.                          *)

\* With loading steps left the main loop runs one of them and no frame.
Deliver == /\ Running
           /\ Queue!Idle => loading = <<>>
           /\ Queue!Begin
           /\ UNCHANGED <<levelVars, calm>>

EndFrame == Running /\ Queue!Clear /\ UNCHANGED <<levelVars, calm>>

Handling(n) == Running /\ delivering /\ Current = n /\ Queue!End

NetStart == <<"start1", "start2", "start3", "start4", "start5", "start6">>

\* The eStart branch, with CLevel::net_Start.
Start == /\ Handling("start")
         /\ IF level # "none" THEN Dies("assert")
            ELSE /\ level' = "created"
                 /\ load' = LoadEnd(LoadBegin(LoadBegin(load)))
                 /\ loading' = loading \o NetStart
                 /\ result' = TRUE
                 /\ menu' = FALSE
                 /\ UNCHANGED <<connected, failed, quit, fault, calm>>

\* Mutant: the second Peek asks for the wrong event.
NothingElse == ~Queue!Peek("quit") /\ ~Queue!Peek("disconnect")
NothingFollows == ~Queue!Peek("quit") /\ ~Queue!Peek("start")

\* The eDisconnect branch.
Disconnect == /\ Handling("disconnect")
              /\ level = "loaded"
              /\ level' = "none"
              /\ menu' = (menu \/ NothingFollows)
              /\ UNCHANGED <<loading, load, result, connected, failed, quit, fault, calm>>

DisconnectNoLevel == /\ Handling("disconnect")
                     /\ level = "none"
                     /\ UNCHANGED <<levelVars, calm>>

\* A level that is not loaded has no game and no pLevel to name.
DisconnectUnloaded == /\ Handling("disconnect")
                      /\ level = "created"
                      /\ Dies("unloaded")

\* The eQuit branch.
Quit == /\ Handling("quit")
        /\ quit' = TRUE
        /\ UNCHANGED <<level, loading, load, result, connected, failed, menu, fault, calm>>

\* CGamePersistent::OnEvent, with game_sv_Single::restart_simulator.
QuickLoad == /\ Handling("quickload")
             /\ level = "loaded"
             /\ load' = LoadEnd(LoadBegin(load))
             /\ UNCHANGED <<level, loading, result, connected, failed, menu, quit, fault, calm>>

QuickLoadUnloaded == /\ Handling("quickload")
                     /\ level # "loaded"
                     /\ Dies(IF level = "none" THEN "nolevel" ELSE "unloaded")

-----------------------------------------------------------------------------
(* The loading steps, one per iteration of the main loop.                  *)

Loading(step) == /\ Running /\ Queue!Idle
                 /\ loading # <<>>
                 /\ Head(loading) = step
                 /\ UNCHANGED <<deferred, next, delivering>>

Done == loading' = Tail(loading)

NetStart1 == /\ Loading("start1")
             /\ Done
             /\ \/ UNCHANGED <<load, result, calm>>
                \/ /\ "level" \in Failures
                   /\ load' = LoadEnd(load)
                   /\ result' = FALSE /\ calm' = FALSE
             /\ UNCHANGED <<level, connected, failed, menu, quit, fault>>

NetStart2 == /\ Loading("start2")
             /\ Done
             /\ \/ UNCHANGED <<result, calm>>
                \/ "server" \in Failures /\ result /\ result' = FALSE /\ calm' = FALSE
             /\ UNCHANGED <<level, load, connected, failed, menu, quit, fault>>

NetStartClient == <<"client1", "client2", "client3", "client4", "client5", "client6">>

NetStart4 == /\ Loading("start4")
             /\ loading' = (IF result THEN NetStartClient ELSE <<>>) \o Tail(loading)
             /\ UNCHANGED <<level, load, result, connected, failed, menu, quit, fault, calm>>

\* start3, start5, client4 and client5 change nothing that is modelled here.
NetStep == /\ \E step \in {"start3", "start5", "client4", "client5"} : Loading(step)
           /\ Done
           /\ UNCHANGED <<level, load, result, connected, failed, menu, quit, fault, calm>>

NetStartClient1 == /\ Loading("client1")
                   /\ Done
                   /\ load' = LoadBegin(load)
                   /\ UNCHANGED <<level, result, connected, failed, menu, quit, fault, calm>>

\* Connect2Server.
NetStartClient2 == /\ Loading("client2")
                   /\ Done
                   /\ \/ connected' = TRUE /\ UNCHANGED calm
                      \/ "connect" \in Failures /\ connected' = FALSE /\ calm' = FALSE
                   /\ UNCHANGED <<level, load, result, failed, menu, quit, fault>>

\* The level is loaded.  When it is unknown the step stays and runs again.
NetStartClient3 ==
    /\ Loading("client3")
    /\ \/ ~connected /\ Done /\ UNCHANGED <<level, load, connected, calm>>
       \/ connected /\ Done /\ level' = "loaded" /\ UNCHANGED <<load, connected, calm>>
       \/ /\ connected /\ "map" \in Failures
          /\ load' = LoadEnd(load)
          /\ connected' = FALSE /\ calm' = FALSE
          /\ UNCHANGED <<level, loading>>
    /\ UNCHANGED <<result, failed, menu, quit, fault>>

NetStartClient6 == /\ Loading("client6")
                   /\ Done
                   /\ result' = connected
                   /\ load' = LoadEnd(load)
                   /\ UNCHANGED <<level, connected, failed, menu, quit, fault, calm>>

\* Mutant: the reference taken by net_Start is kept.
KeepReference(l) == l
Ended(l) == LoadEnd(l)

NetStart6 == /\ Loading("start6")
             /\ failed' = ~result
             /\ load' = Ended(load)
             /\ loading' = <<"finalizer">> \o Tail(loading)
             /\ UNCHANGED <<level, result, connected, menu, quit, fault, calm>>

\* A start that failed has loaded no level: its destructor reads pLevel->fname().
Finalizer == /\ Loading("finalizer")
             /\ \/ level # "none" /\ failed /\ Dies("unloaded")
                \/ /\ level = "none" \/ ~failed
                   /\ Done
                   /\ UNCHANGED <<level, load, result, connected, failed, menu, quit, fault, calm>>

LoadingStep == \/ NetStart1 \/ NetStart2 \/ NetStart4 \/ NetStart6 \/ NetStep
               \/ NetStartClient1 \/ NetStartClient2 \/ NetStartClient3 \/ NetStartClient6
               \/ Finalizer

Handler == \/ Start
           \/ Disconnect \/ DisconnectNoLevel \/ DisconnectUnloaded
           \/ Quit \/ QuickLoad \/ QuickLoadUnloaded

Next == \/ \E r \in Requests : Request(r)
        \/ ToggleMenu
        \/ Deliver \/ Handler \/ EndFrame
        \/ LoadingStep

Spec == Init /\ [][Next]_appVars

-----------------------------------------------------------------------------
(* Properties.                                                             *)

\* R_ASSERT(0 == g_pGameLevel): no start is handled while a level exists, also when
\* several requests share a frame and when one is deferred by the handler of another.
StartsOnNoLevel == fault # "assert"

\* No handler and no loading step meets a level that is gone or half made, as long
\* as requests come one per frame and starts succeed.
NoFault == calm => fault = "none"

\* The loading screen is drawn until every step of a successful start has run, and
\* the references of LoadBegin and LoadEnd, taken and let go of in four functions,
\* even out.
LoadScreen ==
    calm => /\ load.done => \A k \in DOMAIN loading : loading[k] = "finalizer"
            /\ Queue!Idle /\ loading = <<>> => load.refs = 0

\* As long as the program lives and nothing is deferred, the player has the menu before
\* him or a level, and a half made level has loading steps left that will finish it,
\* however many requests a frame has held and whichever steps have failed; and, while calm, no
\* level is left behind when the event loop ends.  (Behind the last step of a failed start the
\* program does not live: see Finalizer.)
LevelOrMenu ==
    fault = "none" /\ deferred = <<>> =>
        IF quit THEN calm => level = "none"
        ELSE /\ menu \/ level # "none"
             /\ level = "created" => loading # <<>>

-----------------------------------------------------------------------------
(* The inductive invariant behind them.                                    *)

Handled(k) == k < next \/ (k = next /\ ~delivering)
Now(k) == next = IF delivering THEN k ELSE k - 1

\* What the events of a frame say about the level: a start has no level before it
\* and a half made one behind it, a quit is recorded, and whoever has neither level
\* nor menu is waiting for an event that is still to be handled.
StartInOrder(k) == /\ k = 1 \/ deferred[k - 1] = "disconnect"
                   /\ Now(k) => level = "none"
                   /\ Handled(k) => level = "created"

Order ==
    fault = "none" =>
        /\ loading # <<>> => IF Queue!Idle THEN level # "none" ELSE level = "created"
        /\ \A k \in DOMAIN deferred : deferred[k] = "start" => StartInOrder(k)
        /\ \A k \in DOMAIN deferred : deferred[k] = "quit" /\ Handled(k) => quit
        /\ level = "none" =>
               \/ menu \/ quit
               \/ \E k \in DOMAIN deferred : deferred[k] \in {"start", "quit"} /\ ~Handled(k)

\* The scripts of a start; start4 puts the second in place of the first.
ClientScript == <<"client1", "client2", "client3", "client4", "client5", "client6",
                  "start5", "start6">>

From(script, i) == SubSeq(script, i, Len(script))

\* How far a start has come that may have failed: only the finalizer of a failed one
\* finds the level half made, and it does not return.
Underway ==
    fault = "none" =>
        \/ loading = <<>> /\ level # "created"
        \/ \E i \in 1 .. 4 : loading = From(NetStart, i) /\ level = "created"
        \/ \E i \in 1 .. 8 : /\ loading = From(ClientScript, i)
                             /\ level # "none"
                             /\ i <= 3 => level = "created"
                             /\ i \in 4 .. 6 /\ connected => level = "loaded"
                             /\ i > 6 /\ result => level = "loaded"
        \/ loading = <<"finalizer">> /\ level # "none" /\ (~failed => level = "loaded")

InNetStart(i) == /\ loading = From(NetStart, i)
                 /\ level = "created" /\ result
                 /\ load = [refs |-> 1, done |-> FALSE]

InClientScript(i) == /\ loading = From(ClientScript, i)
                     /\ level = IF i <= 3 THEN "created" ELSE "loaded"
                     /\ result
                     /\ load = [refs |-> IF i \in 2 .. 6 THEN 2 ELSE 1, done |-> FALSE]
                     /\ i > 2 => connected

Started == loading = <<"finalizer">> /\ level = "loaded" /\ ~failed /\ load.refs = 0

Quiet == loading = <<>> /\ level \in {"none", "loaded"} /\ load.refs = 0

Stage == \/ \E i \in 1 .. 4 : InNetStart(i)
         \/ \E i \in 1 .. 8 : InClientScript(i)
         \/ Started \/ Quiet

\* The events of a frame with one request.
CalmFrame ==
    /\ deferred = <<>> \/ \E r \in Requests : deferred = EventsOf(r)
    /\ ~Queue!Idle /\ (delivering \/ next < Len(deferred)) => loading = <<>>
    /\ deferred = <<"quickload">> => level = "loaded"
    /\ deferred = <<"disconnect", "quit">> /\ next > 0 /\ Handled(1) => level = "none"
    /\ quit => level = "none" /\ (Queue!Idle \/ Handled(Len(deferred)))

CalmOK == calm => fault = "none" /\ Stage /\ CalmFrame

IInv == /\ TypeOK /\ (delivering => next > 0)
        /\ StartsOnNoLevel /\ Order /\ Underway /\ CalmOK
=============================================================================
