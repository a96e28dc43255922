--------------------------- MODULE AppEvents_proofs ---------------------------
(***************************************************************************)
(* Proofs about AppEvents, for every bound and every choice of failures.   *)
(***************************************************************************)
EXTENDS AppEvents, SequenceTheorems, TLAPS

-----------------------------------------------------------------------------
(* ll_dwReference.                                                         *)

\* A u32 that is counted up or down by one wraps at its ends and nowhere else.
LEMMA Wraps ==
    ASSUME NEW x \in 0 .. Width - 1
    PROVE  /\ (x + 1) % Width = IF x = Width - 1 THEN 0 ELSE x + 1
           /\ (x + Width - 1) % Width = IF x = 0 THEN Width - 1 ELSE x - 1
<1> Width \in Nat /\ Width > 2
  BY AppEventsAssumption
<1>1. \A n \in 0 .. Width - 1 : n % Width = n
  OBVIOUS
<1>2. \A n \in 0 .. Width - 1 : (n + Width) % Width = n
  OBVIOUS
<1> QED
  BY <1>1, <1>2

\* What LoadBegin and LoadEnd make of a counter and its flag.
LEMMA LoadFacts ==
    ASSUME NEW l \in Loads
    PROVE  /\ LoadBegin(l) \in Loads
           /\ LoadBegin(l).refs = IF l.refs = Width - 1 THEN 0 ELSE l.refs + 1
           /\ LoadBegin(l).done = (l.done /\ LoadBegin(l).refs # 1)
           /\ LoadEnd(l) \in Loads
           /\ LoadEnd(l).refs = IF l.refs = 0 THEN Width - 1 ELSE l.refs - 1
           /\ LoadEnd(l).done = (l.done \/ LoadEnd(l).refs = 0)
<1> Width \in Nat /\ Width > 2
  BY AppEventsAssumption
<1>1. l.refs \in 0 .. Width - 1 /\ l.done \in BOOLEAN
  BY DEF Loads
<1>2. /\ (l.refs + 1) % Width = IF l.refs = Width - 1 THEN 0 ELSE l.refs + 1
      /\ (l.refs + Width - 1) % Width = IF l.refs = 0 THEN Width - 1 ELSE l.refs - 1
  BY <1>1, Wraps
<1>3. (l.refs + 1) % Width \in 0 .. Width - 1
  <2>1. (IF l.refs = Width - 1 THEN 0 ELSE l.refs + 1) \in 0 .. Width - 1
    BY <1>1
  <2> QED
    BY <1>2, <2>1
<1>4. (l.refs + Width - 1) % Width \in 0 .. Width - 1
  <2>1. (IF l.refs = 0 THEN Width - 1 ELSE l.refs - 1) \in 0 .. Width - 1
    BY <1>1
  <2> QED
    BY <1>2, <2>1
<1> QED
  BY <1>1, <1>2, <1>3, <1>4 DEF Loads, LoadBegin, LoadEnd

-----------------------------------------------------------------------------
(* Type correctness.                                                       *)

AllRequests == {"start", "command", "restart", "disconnect", "quit", "quickload"}

\* What a request defers.
LEMMA EventsFacts ==
    /\ EventsOf("start") = <<"start">> /\ EventsOf("command") = <<"start">>
    /\ EventsOf("restart") = <<"disconnect", "start">>
    /\ EventsOf("disconnect") = <<"disconnect">>
    /\ EventsOf("quit") = <<"disconnect", "quit">>
    /\ EventsOf("quickload") = <<"quickload">>
    /\ \A r \in AllRequests : EventsOf(r) \in Seq(Names)
<1>1. /\ EventsOf("start") = <<"start">> /\ EventsOf("command") = <<"start">>
      /\ EventsOf("restart") = <<"disconnect", "start">>
      /\ EventsOf("disconnect") = <<"disconnect">>
      /\ EventsOf("quit") = <<"disconnect", "quit">>
      /\ EventsOf("quickload") = <<"quickload">>
  BY DEF EventsOf, Events
<1>2. "start" \in Names /\ "disconnect" \in Names /\ "quit" \in Names /\ "quickload" \in Names
  BY DEF Names
<1> HIDE DEF EventsOf
<1>3. /\ <<"start">> \in Seq(Names) /\ <<"disconnect">> \in Seq(Names)
      /\ <<"quickload">> \in Seq(Names) /\ <<"disconnect", "start">> \in Seq(Names)
      /\ <<"disconnect", "quit">> \in Seq(Names)
  BY <1>2
<1> QED
  BY <1>1, <1>3 DEF AllRequests

\* A loading step takes its own name off the front of the list.
LEMMA Tails ==
    ASSUME NEW s \in Seq(Steps), s # <<>>
    PROVE  Tail(s) \in Seq(Steps) /\ Len(Tail(s)) = Len(s) - 1
  OBVIOUS

LEMMA ScriptTypes ==
    NetStart \in Seq(Steps) /\ NetStartClient \in Seq(Steps) /\ <<"finalizer">> \in Seq(Steps)
  BY DEF NetStart, NetStartClient, Steps

\* The type of the loading steps is kept by each of them.
LEMMA LoadingTypes ==
    TypeOK /\ LoadingStep => TypeOK'
<1> SUFFICES ASSUME TypeOK, LoadingStep PROVE TypeOK'
  OBVIOUS
<1> USE DEF TypeOK
<1>1. loading # <<>> /\ UNCHANGED <<deferred, next, delivering>>
  BY DEF LoadingStep, NetStart1, NetStart2, NetStart4, NetStart6, NetStep, NetStartClient1,
     NetStartClient2, NetStartClient3, NetStartClient6, Finalizer, Loading
<1>2. Tail(loading) \in Seq(Steps)
  BY <1>1, Tails
<1>3. LoadBegin(load) \in Loads /\ LoadEnd(load) \in Loads
  BY LoadFacts
<1>4. /\ NetStartClient \o Tail(loading) \in Seq(Steps)
      /\ <<>> \o Tail(loading) \in Seq(Steps)
      /\ <<"finalizer">> \o Tail(loading) \in Seq(Steps)
  BY <1>2, ScriptTypes
<1> USE <1>1, <1>2, <1>3, <1>4 DEF Done
<1>5. CASE NetStart1
  BY <1>5, ZenonT(30) DEF NetStart1
<1>6. CASE NetStart2
  BY <1>6, ZenonT(30) DEF NetStart2
<1>7. CASE NetStart4
  BY <1>7 DEF NetStart4
<1>8. CASE NetStart6
  BY <1>8 DEF NetStart6, Ended
<1>9. CASE NetStep
  BY <1>9 DEF NetStep
<1>10. CASE NetStartClient1
  BY <1>10 DEF NetStartClient1
<1>11. CASE NetStartClient2
  BY <1>11, ZenonT(30) DEF NetStartClient2
<1>12. CASE NetStartClient3
  BY <1>12, ZenonT(30) DEF NetStartClient3
<1>13. CASE NetStartClient6
  BY <1>13 DEF NetStartClient6
<1>14. CASE Finalizer
  BY <1>14, ZenonT(30) DEF Finalizer, Dies, Faults
<1> QED
  BY <1>5, <1>6, <1>7, <1>8, <1>9, <1>10, <1>11, <1>12, <1>13, <1>14 DEF LoadingStep

\* The same of the handlers.
LEMMA HandlerTypes ==
    TypeOK /\ Handler => TypeOK'
<1> SUFFICES ASSUME TypeOK, Handler PROVE TypeOK'
  OBVIOUS
<1> USE DEF TypeOK, Faults
<1>1. delivering' = FALSE /\ UNCHANGED <<deferred, next>>
  BY DEF Handler, Start, Disconnect, DisconnectNoLevel, DisconnectUnloaded, Quit, QuickLoad,
     QuickLoadUnloaded, Handling, Queue!End
<1>2. /\ LoadEnd(LoadBegin(load)) \in Loads
      /\ LoadEnd(LoadBegin(LoadBegin(load))) \in Loads
  BY LoadFacts
<1>3. loading \o NetStart \in Seq(Steps)
  BY ScriptTypes
<1> USE <1>1, <1>2, <1>3 DEF Dies
<1>4. CASE Start
  BY <1>4 DEF Start
<1>5. CASE Disconnect
  BY <1>5 DEF Disconnect, NothingFollows
<1>6. CASE DisconnectNoLevel
  BY <1>6 DEF DisconnectNoLevel, levelVars
<1>7. CASE DisconnectUnloaded
  BY <1>7 DEF DisconnectUnloaded
<1>8. CASE Quit
  BY <1>8 DEF Quit
<1>9. CASE QuickLoad
  BY <1>9 DEF QuickLoad
<1>10. CASE QuickLoadUnloaded
  BY <1>10 DEF QuickLoadUnloaded
<1> QED
  BY <1>4, <1>5, <1>6, <1>7, <1>8, <1>9, <1>10 DEF Handler

LEMMA TypeStep ==
    TypeOK /\ [Next]_appVars => TypeOK'
<1> SUFFICES ASSUME TypeOK, [Next]_appVars PROVE TypeOK'
  OBVIOUS
<1> USE DEF TypeOK
<1>1. ASSUME NEW r \in Requests, Request(r) PROVE TypeOK'
  <2>1. EventsOf(r) \in Seq(Names)
    BY EventsFacts, AppEventsAssumption DEF AllRequests
  <2>2. deferred \o EventsOf(r) \in Seq(Names) /\ Len(deferred) <= Len(deferred \o EventsOf(r))
    BY <2>1
  <2>3. /\ deferred' = deferred \o EventsOf(r) /\ calm' = (calm /\ deferred = <<>>)
        /\ UNCHANGED <<next, delivering>> /\ UNCHANGED levelVars
    BY <1>1 DEF Request, Queue!DeferAll
  <2> QED
    BY <2>2, <2>3 DEF levelVars
<1>2. CASE ToggleMenu
  BY <1>2 DEF ToggleMenu
<1>3. CASE Deliver
  BY <1>3 DEF Deliver, Queue!Begin, levelVars
<1>4. CASE EndFrame
  BY <1>4 DEF EndFrame, Queue!Clear, levelVars
<1>5. CASE UNCHANGED appVars
  BY <1>5 DEF appVars, levelVars
<1> HIDE DEF TypeOK
<1> QED
  BY <1>1, <1>2, <1>3, <1>4, <1>5, HandlerTypes, LoadingTypes DEF Next


-----------------------------------------------------------------------------
(* The order of the events of a frame.                                     *)

\* The console command start left out, an event that starts a level is deferred with
\* no level, first in its frame, or right behind one that ends the level.
LEMMA RequestOrder ==
    ASSUME NEW r \in Requests, "command" \notin Requests, TypeOK, delivering => next > 0, Order, Request(r)
    PROVE  Order'
<1>1. r \in {"start", "restart", "disconnect", "quit", "quickload"}
  BY AppEventsAssumption
<1> DEFINE events == EventsOf(r)
<1>2. events \in Seq(Names)
  BY <1>1, EventsFacts DEF AllRequests
<1>3. /\ fault = "none" /\ Issued(r)
      /\ next = 0 \/ delivering
      /\ deferred' = deferred \o events
      /\ UNCHANGED <<next, delivering>>
      /\ UNCHANGED <<level, loading, menu, quit, fault>>
  BY DEF Request, Running, Queue!DeferAll, Queue!Idle, levelVars
<1>4. /\ deferred \in Seq(Names) /\ next \in 0 .. Len(deferred) /\ delivering \in BOOLEAN
      /\ Len(deferred) \in Nat
  BY DEF TypeOK
<1>5. CASE r = "start"
  <2>1. events = <<"start">> /\ deferred = <<>> /\ level = "none"
    BY <1>3, <1>5, EventsFacts DEF Issued
  <2>2. deferred' = <<"start">> /\ next = 0 /\ ~delivering
    BY <1>3, <1>4, <2>1
  <2> QED
    BY <1>3, <1>4, <2>1, <2>2 DEF Order, StartInOrder, Now, Handled, Queue!Idle
<1>6. CASE r # "start"
  <2> DEFINE n == Len(deferred)
  <2>1. /\ \A k \in 1 .. Len(events) : events[k] = "start" => k > 1 /\ events[k - 1] = "disconnect"
        /\ Len(events) \in {1, 2}
    BY <1>1, <1>6, EventsFacts
  <2> HIDE DEF events
  <2>2. /\ DOMAIN deferred = 1 .. n /\ DOMAIN deferred' = 1 .. n + Len(events)
        /\ \A k \in 1 .. n : deferred'[k] = deferred[k]
        /\ \A k \in 1 .. Len(events) : deferred'[n + k] = events[k]
    BY <1>2, <1>3, <1>4
  <2>3. ASSUME NEW k \in 1 .. n + Len(events), deferred'[k] = "start"
        PROVE  StartInOrder(k)'
    <3>1. CASE k <= n
      <4>1. deferred[k] = "start" /\ StartInOrder(k)
        BY <1>3, <2>2, <2>3, <3>1 DEF Order
      <4>2. k # 1 => deferred'[k - 1] = deferred[k - 1]
        BY <2>2, <3>1
      <4> QED
        BY <1>3, <4>1, <4>2 DEF StartInOrder, Now, Handled
    <3>2. CASE k > n
      <4> DEFINE j == k - n
      <4>1. j \in 1 .. Len(events) /\ k = n + j
        BY <3>2, <1>4
      <4> HIDE DEF j
      <4>2. j > 1 /\ events[j - 1] = "disconnect"
        BY <2>1, <2>2, <2>3, <4>1
      <4>3. deferred'[k - 1] = "disconnect"
        <5>1. j - 1 \in 1 .. Len(events) /\ k - 1 = n + (j - 1)
          BY <4>1, <4>2, <1>4
        <5> QED
          BY <2>2, <4>2, <5>1
      <4>4. ~Now(k)' /\ ~Handled(k)'
        BY <1>3, <1>4, <3>2, <4>1, <4>2 DEF Now, Handled
      <4> QED
        BY <4>3, <4>4 DEF StartInOrder
    <3> QED
      BY <1>4, <3>1, <3>2
  <2>4. ASSUME NEW k \in 1 .. n + Len(events), deferred'[k] = "quit", Handled(k)'
        PROVE  quit
    <3>1. Handled(k) /\ k <= n
      BY <1>3, <1>4, <2>4 DEF Handled
    <3> QED
      BY <1>3, <2>2, <2>4, <3>1 DEF Order
  <2>5. ASSUME level = "none"
        PROVE  \/ menu \/ quit
               \/ \E k \in DOMAIN deferred' : deferred'[k] \in {"start", "quit"} /\ ~Handled(k)'
    <3>1. CASE \E k \in DOMAIN deferred : deferred[k] \in {"start", "quit"} /\ ~Handled(k)
      <4>1. PICK k \in DOMAIN deferred : deferred[k] \in {"start", "quit"} /\ ~Handled(k)
        BY <3>1
      <4>2. k \in DOMAIN deferred' /\ deferred'[k] = deferred[k] /\ ~Handled(k)'
        BY <1>3, <1>4, <2>2, <4>1 DEF Handled
      <4> QED
        BY <4>1, <4>2
    <3> QED
      BY <1>3, <2>5, <3>1 DEF Order
  <2> QED
    BY <1>3, <2>2, <2>3, <2>4, <2>5 DEF Order, Queue!Idle
<1> QED
  BY <1>5, <1>6


\* A handler leaves the frame as it is and ends the delivery.
LEMMA HandlerFrame ==
    ASSUME Handler, TypeOK, delivering => next > 0
    PROVE  /\ fault = "none" /\ delivering /\ delivering' = FALSE
           /\ UNCHANGED <<deferred, next>>
           /\ next \in 1 .. Len(deferred) /\ Len(deferred) \in Nat
           /\ ~Queue!Idle /\ ~Queue!Idle'
<1>1. /\ fault = "none" /\ delivering /\ delivering' = FALSE
      /\ UNCHANGED <<deferred, next>>
  BY DEF Handler, Start, Disconnect, DisconnectNoLevel, DisconnectUnloaded, Quit, QuickLoad,
     QuickLoadUnloaded, Handling, Running, Queue!End
<1> QED
  BY <1>1 DEF TypeOK, Queue!Idle

\* The level each handler leaves behind is the one its successors in the frame expect.
LEMMA HandlerOrder ==
    ASSUME TypeOK, delivering => next > 0, StartsOnNoLevel, Order, Handler
    PROVE  StartsOnNoLevel' /\ Order'
<1>1. /\ fault = "none" /\ delivering /\ delivering' = FALSE
      /\ UNCHANGED <<deferred, next>>
      /\ next \in 1 .. Len(deferred) /\ Len(deferred) \in Nat
      /\ ~Queue!Idle /\ ~Queue!Idle'
  BY HandlerFrame
<1>2. /\ DOMAIN deferred = 1 .. Len(deferred)
      /\ \A k \in 1 .. Len(deferred) : deferred[k] \in Names
  BY DEF TypeOK
<1>3. /\ loading # <<>> => level = "created"
      /\ \A k \in 1 .. Len(deferred) : deferred[k] = "start" => StartInOrder(k)
      /\ \A k \in 1 .. Len(deferred) : deferred[k] = "quit" /\ k < next => quit
      /\ level = "none" =>
               \/ menu \/ quit
               \/ \E k \in 1 .. Len(deferred) : deferred[k] \in {"start", "quit"} /\ ~(k < next)
  BY <1>1, <1>2 DEF Order, Handled
<1>4. \A k \in 1 .. Len(deferred) :
          /\ Handled(k)' = (k <= next)
          /\ Handled(k) = (k < next)
          /\ Now(k)' = (next = k - 1)
          /\ Now(k) = (next = k)
  BY <1>1 DEF Handled, Now
<1>5. ASSUME NEW n, Current = n,
             /\ loading' # <<>> => level' = "created"
             /\ n = "disconnect" => level' = "none"
             /\ n = "start" => level' = "created"
             /\ level = "created" => level' = "created"
             /\ n = "quit" => quit'
             /\ quit => quit'
             /\ level' = "none" =>
                    \/ menu' \/ quit'
                    \/ \E k \in 1 .. Len(deferred) : deferred[k] \in {"start", "quit"} /\ k > next
      PROVE  Order'
  <2>1. deferred[next] = n
    BY <1>5 DEF Current
  <2>2. ASSUME NEW k \in 1 .. Len(deferred), deferred[k] = "start"
        PROVE  StartInOrder(k)'
    <3>1. /\ k = 1 \/ deferred[k - 1] = "disconnect"
          /\ next = k => level = "none"
          /\ k < next => level = "created"
      BY <1>3, <1>4, <2>2 DEF StartInOrder
    <3>2. next = k - 1 => level' = "none"
      BY <1>1, <1>5, <2>1, <3>1
    <3>3. k <= next => level' = "created"
      BY <1>1, <1>5, <2>1, <2>2, <3>1
    <3> QED
      BY <1>1, <1>4, <3>1, <3>2, <3>3 DEF StartInOrder
  <2>3. ASSUME NEW k \in 1 .. Len(deferred), deferred[k] = "quit", k <= next
        PROVE  quit'
    BY <1>1, <1>3, <1>5, <2>1, <2>3
  <2>4. ASSUME level' = "none", ~menu', ~quit'
        PROVE  \E k \in 1 .. Len(deferred) : deferred[k] \in {"start", "quit"} /\ ~Handled(k)'
    <3>1. PICK k \in 1 .. Len(deferred) : deferred[k] \in {"start", "quit"} /\ k > next
      BY <1>5, <2>4
    <3>2. ~Handled(k)'
      BY <1>1, <3>1 DEF Handled
    <3> QED
      BY <3>1, <3>2
  <2>5. DOMAIN deferred' = 1 .. Len(deferred) /\ deferred' = deferred /\ next' # 0
    BY <1>1, <1>2
  <2>6. /\ \A k \in DOMAIN deferred' : deferred'[k] = "start" => StartInOrder(k)'
        /\ \A k \in DOMAIN deferred' : deferred'[k] = "quit" /\ Handled(k)' => quit'
    BY <1>4, <2>2, <2>3, <2>5
  <2>7. level' = "none" =>
            \/ menu' \/ quit'
            \/ \E k \in DOMAIN deferred' : deferred'[k] \in {"start", "quit"} /\ ~Handled(k)'
    BY <2>4, <2>5
  <2> QED
    BY <1>5, <2>5, <2>6, <2>7 DEF Order, Queue!Idle
<1>6. ASSUME Dies("unloaded") \/ Dies("nolevel")
      PROVE  StartsOnNoLevel' /\ Order'
  BY <1>6 DEF Dies, StartsOnNoLevel, Order
<1>7. CASE Start
  <2>1. Current = "start"
    BY <1>7 DEF Start, Handling
  <2>2. level = "none"
    <3>1. deferred[next] = "start" /\ next = next
      BY <2>1 DEF Current
    <3>2. StartInOrder(next)
      BY <1>1, <1>3, <3>1
    <3> QED
      BY <1>1, <1>4, <3>2 DEF StartInOrder
  <2>3. level' = "created" /\ UNCHANGED <<quit, fault>>
    BY <1>7, <2>2 DEF Start
  <2> QED
    BY <1>5, <1>1, <2>1, <2>3 DEF StartsOnNoLevel
<1>8. CASE Disconnect
  <2>1. /\ Current = "disconnect" /\ level = "loaded" /\ level' = "none"
        /\ menu' = (menu \/ NothingFollows)
        /\ UNCHANGED <<loading, quit, fault>>
    BY <1>8 DEF Disconnect, Handling
  <2>2. \/ menu' \/ quit'
        \/ \E k \in 1 .. Len(deferred) : deferred[k] \in {"start", "quit"} /\ k > next
    <3>1. CASE NothingFollows
      BY <2>1, <3>1
    <3>2. CASE ~NothingFollows
      <4>1. PICK k \in 1 .. Len(deferred) : deferred[k] \in {"start", "quit"}
        BY <1>2, <3>2 DEF NothingFollows, Queue!Peek
      <4>2. k # next
        BY <2>1, <4>1 DEF Current
      <4>3. k < next /\ deferred[k] = "start" => FALSE
        BY <1>3, <1>4, <2>1 DEF StartInOrder
      <4>4. k < next /\ deferred[k] = "quit" => quit'
        BY <1>3, <2>1
      <4> QED
        BY <1>1, <4>1, <4>2, <4>3, <4>4
    <3> QED
      BY <3>1, <3>2
  <2> QED
    BY <1>3, <1>5, <2>1, <2>2, <1>1 DEF StartsOnNoLevel
<1>9. ASSUME level = "none", Current \notin {"start", "quit"}
      PROVE  \/ menu \/ quit
             \/ \E k \in 1 .. Len(deferred) : deferred[k] \in {"start", "quit"} /\ k > next
  <2>1. CASE \E k \in 1 .. Len(deferred) : deferred[k] \in {"start", "quit"} /\ ~(k < next)
    <3>1. PICK k \in 1 .. Len(deferred) : deferred[k] \in {"start", "quit"} /\ ~(k < next)
      BY <2>1
    <3>2. k # next
      BY <1>9, <3>1 DEF Current
    <3> QED
      BY <1>1, <3>1, <3>2
  <2> QED
    BY <1>3, <1>9, <2>1
<1>10. CASE DisconnectNoLevel
  <2>1. Current = "disconnect" /\ level = "none" /\ UNCHANGED levelVars
    BY <1>10 DEF DisconnectNoLevel, Handling
  <2> QED
    BY <1>1, <1>3, <1>5, <1>9, <2>1 DEF StartsOnNoLevel, levelVars
<1>11. CASE DisconnectUnloaded
  BY <1>6, <1>11 DEF DisconnectUnloaded
<1>12. CASE Quit
  <2>1. Current = "quit" /\ quit' = TRUE /\ UNCHANGED <<level, loading, menu, fault>>
    BY <1>12 DEF Quit, Handling
  <2> QED
    BY <1>1, <1>3, <1>5, <2>1 DEF StartsOnNoLevel
<1>13. CASE QuickLoad
  <2>1. Current = "quickload" /\ UNCHANGED <<level, loading, menu, quit, fault>>
    BY <1>13 DEF QuickLoad, Handling
  <2> QED
    BY <1>1, <1>3, <1>5, <1>9, <2>1 DEF StartsOnNoLevel
<1>14. CASE QuickLoadUnloaded
  BY <1>6, <1>14 DEF QuickLoadUnloaded
<1> QED
  BY <1>7, <1>8, <1>10, <1>11, <1>12, <1>13, <1>14 DEF Handler

\* What every loading step has in common.
LEMMA LoadingFrame ==
    ASSUME LoadingStep, delivering => next > 0
    PROVE  /\ fault = "none" /\ next = 0 /\ ~delivering /\ loading # <<>>
           /\ UNCHANGED <<deferred, next, delivering>>
           /\ UNCHANGED <<menu, quit>>
           /\ level' = level \/ level' = "loaded"
           /\ fault' = "none" \/ fault' = "unloaded"
<1>1. ASSUME NEW step, Loading(step)
      PROVE  /\ fault = "none" /\ next = 0 /\ ~delivering /\ loading # <<>>
             /\ UNCHANGED <<deferred, next, delivering>>
  BY <1>1 DEF Loading, Running, Queue!Idle
<1>2. CASE NetStart1 \/ NetStart2 \/ NetStart4 \/ NetStart6
  BY <1>1, <1>2 DEF NetStart1, NetStart2, NetStart4, NetStart6
<1>3. CASE NetStep \/ NetStartClient1 \/ NetStartClient2 \/ NetStartClient6
  BY <1>1, <1>3 DEF NetStep, NetStartClient1, NetStartClient2, NetStartClient6
<1>4. CASE NetStartClient3
  BY <1>1, <1>4 DEF NetStartClient3
<1>5. CASE Finalizer
  BY <1>1, <1>5 DEF Finalizer, Dies
<1> QED
  BY <1>2, <1>3, <1>4, <1>5 DEF LoadingStep

\* A loading step runs between frames, on a level that stays.
LEMMA LoadingOrder ==
    ASSUME TypeOK, delivering => next > 0, StartsOnNoLevel, Order, LoadingStep
    PROVE  StartsOnNoLevel' /\ Order'
<1>1. /\ fault = "none" /\ next = 0 /\ ~delivering /\ loading # <<>>
      /\ UNCHANGED <<deferred, next, delivering>>
      /\ UNCHANGED <<menu, quit>>
      /\ level' = level \/ level' = "loaded"
      /\ fault' = "none" \/ fault' = "unloaded"
  BY LoadingFrame
<1>2. level # "none" /\ level' # "none"
  BY <1>1 DEF Order, Queue!Idle
<1>3. /\ DOMAIN deferred = 1 .. Len(deferred)
      /\ \A k \in 1 .. Len(deferred) : ~Handled(k) /\ ~Handled(k)'
  BY <1>1 DEF TypeOK, Handled
<1>4. \A k \in 1 .. Len(deferred) : deferred[k] = "start" => StartInOrder(k)'
  <2>1. \A k \in 1 .. Len(deferred) : deferred[k] = "start" => StartInOrder(k)
    BY <1>1, <1>3 DEF Order
  <2>2. \A k \in 1 .. Len(deferred) : Now(k) = Now(k)'
    BY <1>1 DEF Now
  <2> QED
    BY <1>1, <1>2, <1>3, <2>1, <2>2 DEF StartInOrder
<1> QED
  BY <1>1, <1>2, <1>3, <1>4 DEF Order, StartsOnNoLevel, Queue!Idle

\* The other steps: the next event is begun, the frame is cleared, the menu toggled.
LEMMA OrderStep ==
    ASSUME "command" \notin Requests, TypeOK, delivering => next > 0, StartsOnNoLevel, Order,
           [Next]_appVars
    PROVE  StartsOnNoLevel' /\ Order'
<1>1. ASSUME NEW r \in Requests, Request(r) PROVE StartsOnNoLevel' /\ Order'
  <2>1. UNCHANGED fault
    BY <1>1 DEF Request, levelVars
  <2> QED
    BY <1>1, <2>1, RequestOrder DEF StartsOnNoLevel
<1>2. CASE ToggleMenu
  <2>1. /\ level = "loaded"
        /\ UNCHANGED <<deferred, next, delivering, level, loading, quit, fault>>
    BY <1>2 DEF ToggleMenu
  <2> QED
    BY <2>1 DEF StartsOnNoLevel, Order, StartInOrder, Now, Handled, Queue!Idle
<1>3. CASE Deliver
  <2>1. /\ fault = "none" /\ ~delivering /\ delivering' = TRUE /\ next' = next + 1
        /\ next = 0 => loading = <<>>
        /\ next < Len(deferred)
        /\ UNCHANGED <<deferred, level, loading, menu, quit, fault>>
    BY <1>3 DEF Deliver, Running, Queue!Begin, Queue!Idle, levelVars
  <2>2. DOMAIN deferred = 1 .. Len(deferred) /\ next \in Nat
    BY DEF TypeOK
  <2>3. \A k \in 1 .. Len(deferred) : Handled(k)' = Handled(k) /\ Now(k)' = Now(k)
    BY <2>1, <2>2 DEF Handled, Now
  <2>4. \A k \in 1 .. Len(deferred) : deferred[k] = "start" => StartInOrder(k)'
    BY <2>1, <2>2, <2>3 DEF Order, StartInOrder
  <2>5. loading # <<>> => level = "created"
    BY <2>1 DEF Order, Queue!Idle
  <2> QED
    BY <2>1, <2>2, <2>3, <2>4, <2>5 DEF StartsOnNoLevel, Order, Queue!Idle
<1>4. CASE EndFrame
  <2>1. /\ ~delivering /\ next > 0 /\ next = Len(deferred) /\ deferred' = <<>> /\ next' = 0
        /\ UNCHANGED <<level, loading, menu, quit, fault>>
    BY <1>4 DEF EndFrame, Queue!Clear, levelVars
  <2>2. DOMAIN deferred = 1 .. Len(deferred) /\ next \in Nat
    BY DEF TypeOK
  <2>3. \A k \in 1 .. Len(deferred) : Handled(k)
    BY <2>1, <2>2 DEF Handled
  <2>4. fault = "none" => /\ loading # <<>> => level = "created"
                          /\ level = "none" => menu \/ quit
    BY <2>1, <2>2, <2>3 DEF Order, Queue!Idle
  <2>5. DOMAIN deferred' = {}
    BY <2>1
  <2> QED
    BY <2>1, <2>4, <2>5 DEF StartsOnNoLevel, Order, Queue!Idle
<1>5. CASE UNCHANGED appVars
  BY <1>5 DEF appVars, levelVars, StartsOnNoLevel, Order, StartInOrder, Now, Handled, Queue!Idle
<1> QED
  BY <1>1, <1>2, <1>3, <1>4, <1>5, HandlerOrder, LoadingOrder DEF Next


-----------------------------------------------------------------------------
(* A start that succeeds goes through its scripts step by step.            *)

LEMMA LastTwo ==
    ASSUME NEW s \in Seq(Steps), Len(s) = 6
    PROVE  SubSeq(s, 5, 6) = <<s[5], s[6]>>
<1>1. s[5] \in Steps /\ s[6] \in Steps
  <2>1. 5 \in 1 .. Len(s) /\ 6 \in 1 .. Len(s)
    OBVIOUS
  <2> QED
    BY ONLY <2>1, s \in Seq(Steps), ElementOfSeq, Zenon
<1>2. /\ SubSeq(s, 5, 6) \in Seq(Steps) /\ Len(SubSeq(s, 5, 6)) = 2
      /\ \A i \in 1 .. 2 : SubSeq(s, 5, 6)[i] = s[4 + i]
  <2>1. \A i \in 5 .. 6 : s[i] \in Steps
    <3>1. \A i \in 5 .. 6 : i = 5 \/ i = 6
      OBVIOUS
    <3> QED
      BY <1>1, <3>1
  <2>2. /\ SubSeq(s, 5, 6) \in Seq(Steps)
        /\ Len(SubSeq(s, 5, 6)) = IF 5 <= 6 THEN 6 - 5 + 1 ELSE 0
        /\ \A i \in 1 .. 6 - 5 + 1 : SubSeq(s, 5, 6)[i] = s[5 + i - 1]
    BY <2>1, SubSeqProperties
  <2> QED
    BY <2>2
<1>3. /\ <<s[5], s[6]>> \in Seq(Steps) /\ Len(<<s[5], s[6]>>) = 2
      /\ \A i \in 1 .. 2 : <<s[5], s[6]>>[i] = s[4 + i]
  BY <1>1
<1> QED
  BY <1>2, <1>3, SeqEqual, ZenonT(30)

LEMMA Scripts ==
    /\ \A i \in 1 .. 4 : /\ From(NetStart, i) # <<>>
                         /\ Head(From(NetStart, i)) = NetStart[i]
                         /\ Tail(From(NetStart, i)) = From(NetStart, i + 1)
    /\ \A i \in 1 .. 8 : /\ From(ClientScript, i) # <<>>
                         /\ Head(From(ClientScript, i)) = ClientScript[i]
                         /\ Tail(From(ClientScript, i)) = From(ClientScript, i + 1)
    /\ From(NetStart, 1) = NetStart
    /\ NetStartClient \o From(NetStart, 5) = From(ClientScript, 1)
    /\ <<>> \o From(NetStart, 5) = From(ClientScript, 7)
    /\ From(ClientScript, 9) = <<>>
<1>1. /\ NetStart \in Seq(Steps) /\ Len(NetStart) = 6
      /\ ClientScript \in Seq(Steps) /\ Len(ClientScript) = 8
  BY DEF NetStart, ClientScript, Steps
<1>2. ASSUME NEW s \in Seq(Steps), NEW i \in 1 .. Len(s)
      PROVE  From(s, i) # <<>> /\ Head(From(s, i)) = s[i] /\ Tail(From(s, i)) = From(s, i + 1)
  <2>1. From(s, i) \in Seq(Steps) /\ Len(From(s, i)) = Len(s) - i + 1
    BY DEF From
  <2>2. Head(From(s, i)) = s[i] /\ Tail(From(s, i)) = From(s, i + 1)
    BY HeadTailOfSubSeq DEF From
  <2> QED
    BY <2>1, <2>2
<1>3. From(NetStart, 1) = NetStart
  BY <1>1, SubSeqFull DEF From
<1>4. From(ClientScript, 9) = <<>>
  BY <1>1, SubSeqEmpty DEF From
<1>8. From(NetStart, 5) = <<"start5", "start6">>
  <2>1. SubSeq(NetStart, 5, 6) = <<NetStart[5], NetStart[6]>>
    BY <1>1, LastTwo
  <2>2. NetStart[5] = "start5" /\ NetStart[6] = "start6"
    BY DEF NetStart
  <2> QED
    BY <1>1, <2>1, <2>2 DEF From
<1>5. NetStartClient \o From(NetStart, 5) = From(ClientScript, 1)
  <2>1. From(NetStart, 5) = <<"start5", "start6">>
    BY <1>8
  <2>2. NetStartClient \o <<"start5", "start6">> = ClientScript
    <3>1. /\ NetStartClient \in Seq(Steps) /\ Len(NetStartClient) = 6
          /\ \A i \in 1 .. 6 : NetStartClient[i] = ClientScript[i]
      BY DEF NetStartClient, ClientScript, Steps
    <3>2. /\ <<"start5", "start6">> \in Seq(Steps) /\ Len(<<"start5", "start6">>) = 2
          /\ ClientScript[7] = "start5" /\ ClientScript[8] = "start6"
      BY DEF ClientScript, Steps
    <3> DEFINE c == NetStartClient \o <<"start5", "start6">>
    <3>3. /\ c \in Seq(Steps) /\ Len(c) = 8
          /\ \A i \in 1 .. 8 : c[i] = IF i <= 6 THEN NetStartClient[i] ELSE <<"start5", "start6">>[i - 6]
      <4> DEFINE d == <<"start5", "start6">>
      <4>1. d \in Seq(Steps) /\ Len(d) = 2
        BY <3>2
      <4> HIDE DEF d
      <4>2. /\ NetStartClient \o d \in Seq(Steps) /\ Len(NetStartClient \o d) = 8
            /\ \A i \in 1 .. 8 : (NetStartClient \o d)[i] = IF i <= 6 THEN NetStartClient[i] ELSE d[i - 6]
        <5>1. NetStartClient \o d \in Seq(Steps)
          BY <3>1, <4>1
        <5>2. Len(NetStartClient \o d) = 8
          <6>1. Len(NetStartClient \o d) = Len(NetStartClient) + Len(d)
            BY <3>1, <4>1, ConcatProperties
          <6> QED
            BY <3>1, <4>1, <6>1
        <5>3. \A i \in 1 .. Len(NetStartClient) + Len(d) :
                  (NetStartClient \o d)[i] = IF i <= Len(NetStartClient) THEN NetStartClient[i] ELSE d[i - Len(NetStartClient)]
          BY <3>1, <4>1, ConcatProperties
        <5> QED
          BY <3>1, <4>1, <5>1, <5>2, <5>3
      <4> QED
        BY <4>2 DEF d
    <3> HIDE DEF c
    <3>4. c[7] = ClientScript[7] /\ c[8] = ClientScript[8]
      BY <3>2, <3>3
    <3>5. \A i \in 1 .. 8 : c[i] = ClientScript[i]
      BY <3>1, <3>3, <3>4
    <3>6. c = ClientScript
      BY <1>1, <3>3, <3>5, SeqEqual
    <3> QED
      BY <3>6 DEF c
  <2>3. From(ClientScript, 1) = ClientScript
    BY <1>1, SubSeqFull DEF From
  <2> QED
    BY <2>1, <2>2, <2>3
<1>6. ASSUME NEW i \in 1 .. 4
      PROVE  /\ From(NetStart, i) # <<>>
             /\ Head(From(NetStart, i)) = NetStart[i]
             /\ Tail(From(NetStart, i)) = From(NetStart, i + 1)
  <2>1. i \in 1 .. Len(NetStart)
    BY <1>1
  <2> QED
    BY <1>1, <1>2, <2>1
<1>7. \A i \in 1 .. 8 : /\ From(ClientScript, i) # <<>>
                        /\ Head(From(ClientScript, i)) = ClientScript[i]
                        /\ Tail(From(ClientScript, i)) = From(ClientScript, i + 1)
  BY <1>1, <1>2
<1>9. <<>> \o From(NetStart, 5) = From(ClientScript, 7)
  <2> DEFINE c == From(ClientScript, 7)
             d == From(NetStart, 5)
  <2>1. d \in Seq(Steps) /\ Len(d) = 2 /\ d[1] = "start5" /\ d[2] = "start6"
    <3>1. /\ <<"start5", "start6">> \in Seq(Steps) /\ Len(<<"start5", "start6">>) = 2
          /\ <<"start5", "start6">>[1] = "start5" /\ <<"start5", "start6">>[2] = "start6"
      BY DEF Steps
    <3> QED
      BY <1>8, <3>1
  <2>2. c \in Seq(Steps) /\ Len(c) = 2 /\ c[1] = ClientScript[7] /\ c[2] = ClientScript[8]
    <3>1. \A i \in 7 .. 8 : ClientScript[i] \in Steps
      <4>1. ClientScript[7] \in Steps /\ ClientScript[8] \in Steps
        BY DEF ClientScript, Steps
      <4>2. \A i \in 7 .. 8 : i = 7 \/ i = 8
        OBVIOUS
      <4> QED
        BY <4>1, <4>2
    <3>2. /\ SubSeq(ClientScript, 7, 8) \in Seq(Steps)
          /\ Len(SubSeq(ClientScript, 7, 8)) = IF 7 <= 8 THEN 8 - 7 + 1 ELSE 0
          /\ \A i \in 1 .. 8 - 7 + 1 : SubSeq(ClientScript, 7, 8)[i] = ClientScript[7 + i - 1]
      BY <3>1, SubSeqProperties
    <3>3. c = SubSeq(ClientScript, 7, 8)
      BY <1>1 DEF From
    <3> HIDE DEF c
    <3> QED
      BY <3>2, <3>3
  <2>3. ClientScript[7] = "start5" /\ ClientScript[8] = "start6"
    BY DEF ClientScript
  <2> HIDE DEF c, d
  <2>4. \A i \in 1 .. 2 : c[i] = d[i]
    BY <2>1, <2>2, <2>3
  <2>5. c = d
    BY <2>1, <2>2, <2>4, SeqEqual
  <2>6. <<>> \o d = d
    BY <2>1
  <2> QED
    BY <2>5, <2>6 DEF c, d
<1> QED
  BY <1>3, <1>4, <1>5, <1>6, <1>7, <1>9

\* The step at the front of the list tells how far the start has come.
LEMMA StageAt ==
    ASSUME Stage, loading # <<>>
    PROVE  /\ Head(loading) = "start1" => InNetStart(1)
           /\ Head(loading) = "start2" => InNetStart(2)
           /\ Head(loading) = "start3" => InNetStart(3)
           /\ Head(loading) = "start4" => InNetStart(4)
           /\ Head(loading) = "client1" => InClientScript(1)
           /\ Head(loading) = "client2" => InClientScript(2)
           /\ Head(loading) = "client3" => InClientScript(3)
           /\ Head(loading) = "client4" => InClientScript(4)
           /\ Head(loading) = "client5" => InClientScript(5)
           /\ Head(loading) = "client6" => InClientScript(6)
           /\ Head(loading) = "start5" => InClientScript(7)
           /\ Head(loading) = "start6" => InClientScript(8)
           /\ Head(loading) = "finalizer" => Started
<1>1. /\ NetStart[1] = "start1" /\ NetStart[2] = "start2" /\ NetStart[3] = "start3"
      /\ NetStart[4] = "start4"
  BY DEF NetStart
<1>2. /\ ClientScript[1] = "client1" /\ ClientScript[2] = "client2" /\ ClientScript[3] = "client3"
      /\ ClientScript[4] = "client4" /\ ClientScript[5] = "client5" /\ ClientScript[6] = "client6"
      /\ ClientScript[7] = "start5" /\ ClientScript[8] = "start6"
  BY DEF ClientScript
<1>3. CASE \E i \in 1 .. 4 : InNetStart(i)
  <2>1. PICK i \in 1 .. 4 : InNetStart(i)
    BY <1>3
  <2>2. Head(loading) = NetStart[i]
    BY <2>1, Scripts DEF InNetStart
  <2>3. i = 1 \/ i = 2 \/ i = 3 \/ i = 4
    OBVIOUS
  <2> QED
    BY <1>1, <2>1, <2>2, <2>3
<1>4. CASE \E i \in 1 .. 8 : InClientScript(i)
  <2>1. PICK i \in 1 .. 8 : InClientScript(i)
    BY <1>4
  <2>2. Head(loading) = ClientScript[i]
    BY <2>1, Scripts DEF InClientScript
  <2>3. i = 1 \/ i = 2 \/ i = 3 \/ i = 4 \/ i = 5 \/ i = 6 \/ i = 7 \/ i = 8
    OBVIOUS
  <2> QED
    BY <1>2, <2>1, <2>2, <2>3
<1>5. CASE Started
  BY <1>5 DEF Started
<1> QED
  BY <1>3, <1>4, <1>5 DEF Stage, Quiet

\* With calm requests each loading step leads from one stage to the next.
LEMMA LoadingStage ==
    ASSUME TypeOK, Stage, LoadingStep, calm'
    PROVE  Stage' /\ fault' = "none"
<1>1. ASSUME NEW step, Loading(step)
      PROVE  /\ loading # <<>> /\ Head(loading) = step /\ fault = "none"
  BY <1>1 DEF Loading, Running
<1> Width \in Nat /\ Width > 2
  BY AppEventsAssumption
<1> DEFINE L(n, d) == [refs |-> n, done |-> d]
<1>2. /\ \A d \in BOOLEAN : L(0, d) \in Loads
      /\ L(1, FALSE) \in Loads /\ L(2, FALSE) \in Loads
  BY DEF Loads
<1>3. /\ LoadBegin(L(1, FALSE)) = L(2, FALSE) /\ LoadEnd(L(2, FALSE)) = L(1, FALSE)
      /\ LoadEnd(L(1, FALSE)).refs = 0
  <2>1. (1 + 1) % Width = 2
    BY Wraps
  <2>2. (2 + Width - 1) % Width = 1
    BY Wraps
  <2>3. (1 + Width - 1) % Width = 0
    BY Wraps
  <2>4. LoadBegin(L(1, FALSE)) = L((1 + 1) % Width, FALSE)
    BY DEF LoadBegin
  <2>5. LoadEnd(L(2, FALSE)) = L((2 + Width - 1) % Width, FALSE \/ (2 + Width - 1) % Width = 0)
    BY DEF LoadEnd
  <2>6. LoadEnd(L(1, FALSE)).refs = (1 + Width - 1) % Width
    BY DEF LoadEnd
  <2>7. (FALSE \/ (2 + Width - 1) % Width = 0) = FALSE
    BY <2>2
  <2> HIDE DEF L
  <2> QED
    BY <2>1, <2>2, <2>3, <2>4, <2>5, <2>6, <2>7
<1> HIDE DEF L
<1>4. ASSUME NEW i \in 1 .. 4, InNetStart(i)
      PROVE  /\ Tail(loading) = From(NetStart, i + 1)
             /\ level = "created" /\ result /\ load = L(1, FALSE)
  BY <1>4, Scripts DEF InNetStart, L
<1>5. ASSUME NEW i \in 1 .. 8, InClientScript(i)
      PROVE  /\ Tail(loading) = From(ClientScript, i + 1)
             /\ level = IF i <= 3 THEN "created" ELSE "loaded"
             /\ result /\ load = L(IF i \in 2 .. 6 THEN 2 ELSE 1, FALSE)
             /\ i > 2 => connected
  BY <1>5, Scripts DEF InClientScript, L
<1>6. ASSUME NEW i \in 1 .. 4, loading' = From(NetStart, i), level' = "created", result',
             load' = L(1, FALSE)
      PROVE  Stage'
  BY <1>6 DEF Stage, InNetStart, L
<1>7. ASSUME NEW i \in 1 .. 8, loading' = From(ClientScript, i),
             level' = IF i <= 3 THEN "created" ELSE "loaded", result',
             load' = L(IF i \in 2 .. 6 THEN 2 ELSE 1, FALSE), i > 2 => connected'
      PROVE  Stage'
  BY <1>7 DEF Stage, InClientScript, L
<1>8. CASE NetStart1
  <2>1. InNetStart(1)
    BY <1>1, <1>8, StageAt DEF NetStart1
  <2>2. Tail(loading) = From(NetStart, 2) /\ level = "created" /\ result /\ load = L(1, FALSE)
    BY <1>4, <2>1
  <2>3. loading' = From(NetStart, 2) /\ UNCHANGED <<load, result, level, fault>>
    BY <1>8, <2>2 DEF NetStart1, Done
  <2> QED
    BY <1>1, <1>6, <1>8, <2>2, <2>3 DEF NetStart1
<1>9. CASE NetStart2
  <2>1. InNetStart(2)
    BY <1>1, <1>9, StageAt DEF NetStart2
  <2>2. Tail(loading) = From(NetStart, 3) /\ level = "created" /\ result /\ load = L(1, FALSE)
    BY <1>4, <2>1
  <2>3. loading' = From(NetStart, 3) /\ UNCHANGED <<load, result, level, fault>>
    BY <1>9, <2>2 DEF NetStart2, Done
  <2> QED
    BY <1>1, <1>6, <1>9, <2>2, <2>3 DEF NetStart2
<1>10. CASE NetStart4
  <2>1. InNetStart(4)
    BY <1>1, <1>10, StageAt DEF NetStart4
  <2>2. Tail(loading) = From(NetStart, 5) /\ level = "created" /\ result /\ load = L(1, FALSE)
    BY <1>4, <2>1
  <2>3. loading' = From(ClientScript, 1) /\ UNCHANGED <<load, result, level, fault>>
    BY <1>10, <2>2, Scripts DEF NetStart4
  <2> QED
    BY <1>1, <1>7, <1>10, <2>2, <2>3 DEF NetStart4
<1>11. CASE NetStart6
  <2>1. InClientScript(8)
    BY <1>1, <1>11, StageAt DEF NetStart6
  <2>2. /\ Tail(loading) = From(ClientScript, 9) /\ level = "loaded"
        /\ result /\ load = L(1, FALSE) /\ connected
    BY <1>5, <2>1
  <2>3. /\ loading' = <<"finalizer">> \o <<>> /\ load' = LoadEnd(L(1, FALSE)) /\ failed' = FALSE
        /\ UNCHANGED <<level, fault>>
    BY <1>11, <2>2, Scripts DEF NetStart6, Ended
  <2>4. loading' = <<"finalizer">>
    BY <2>3
  <2> QED
    BY <1>1, <1>3, <1>11, <2>2, <2>3, <2>4 DEF Stage, Started, NetStart6
<1>12. CASE NetStep
  <2>1. PICK step \in {"start3", "start5", "client4", "client5"} : Loading(step)
    BY <1>12 DEF NetStep
  <2>2. loading' = Tail(loading) /\ UNCHANGED <<level, load, result, connected, failed, fault>>
    BY <1>12 DEF NetStep, Done
  <2>3. CASE step = "start3"
    <3>1. InNetStart(3)
      BY <1>1, <2>1, <2>3, StageAt
    <3>2. Tail(loading) = From(NetStart, 4) /\ level = "created" /\ result /\ load = L(1, FALSE)
      BY <1>4, <3>1
    <3> QED
      BY <1>1, <1>6, <2>1, <2>2, <3>2
  <2>4. CASE step = "start5"
    <3>1. InClientScript(7)
      BY <1>1, <2>1, <2>4, StageAt
    <3> QED
      BY <1>1, <1>5, <1>7, <2>1, <2>2, <3>1
  <2>5. CASE step = "client4"
    <3>1. InClientScript(4)
      BY <1>1, <2>1, <2>5, StageAt
    <3> QED
      BY <1>1, <1>5, <1>7, <2>1, <2>2, <3>1
  <2>6. CASE step = "client5"
    <3>1. InClientScript(5)
      BY <1>1, <2>1, <2>6, StageAt
    <3> QED
      BY <1>1, <1>5, <1>7, <2>1, <2>2, <3>1
  <2> QED
    BY <2>3, <2>4, <2>5, <2>6
<1>13. CASE NetStartClient1
  <2>1. InClientScript(1)
    BY <1>1, <1>13, StageAt DEF NetStartClient1
  <2>2. /\ Tail(loading) = From(ClientScript, 2) /\ level = "created"
        /\ result /\ load = L(1, FALSE)
    BY <1>5, <2>1
  <2>3. /\ loading' = From(ClientScript, 2) /\ load' = L(2, FALSE)
        /\ UNCHANGED <<level, result, fault>>
    BY <1>3, <1>13, <2>2 DEF NetStartClient1, Done
  <2>4. Loading("client1")
    BY <1>13 DEF NetStartClient1
  <2> QED
    BY <1>1, <1>7, <2>2, <2>3, <2>4
<1>14. CASE NetStartClient2
  <2>1. InClientScript(2)
    BY <1>1, <1>14, StageAt DEF NetStartClient2
  <2>2. /\ Tail(loading) = From(ClientScript, 3) /\ level = "created"
        /\ result /\ load = L(2, FALSE)
    BY <1>5, <2>1
  <2>3. /\ loading' = From(ClientScript, 3) /\ connected'
        /\ UNCHANGED <<level, load, result, fault>>
    BY <1>14, <2>2 DEF NetStartClient2, Done
  <2> QED
    BY <1>1, <1>7, <1>14, <2>2, <2>3 DEF NetStartClient2
<1>15. CASE NetStartClient3
  <2>1. InClientScript(3)
    BY <1>1, <1>15, StageAt DEF NetStartClient3
  <2>2. /\ Tail(loading) = From(ClientScript, 4) /\ level = "created"
        /\ result /\ load = L(2, FALSE) /\ connected
    BY <1>5, <2>1
  <2>3. /\ loading' = From(ClientScript, 4) /\ connected' /\ level' = "loaded"
        /\ UNCHANGED <<load, result, fault>>
    BY <1>15, <2>2 DEF NetStartClient3, Done
  <2> QED
    BY <1>1, <1>7, <1>15, <2>2, <2>3 DEF NetStartClient3
<1>16. CASE NetStartClient6
  <2>1. InClientScript(6)
    BY <1>1, <1>16, StageAt DEF NetStartClient6
  <2>2. /\ Tail(loading) = From(ClientScript, 7) /\ level = "loaded"
        /\ result /\ load = L(2, FALSE) /\ connected
    BY <1>5, <2>1
  <2>3. /\ loading' = From(ClientScript, 7) /\ load' = L(1, FALSE)
        /\ connected' /\ result' /\ UNCHANGED <<level, fault>>
    BY <1>3, <1>16, <2>2 DEF NetStartClient6, Done
  <2>4. Loading("client6")
    BY <1>16 DEF NetStartClient6
  <2> QED
    BY <1>1, <1>7, <2>2, <2>3, <2>4
<1>17. CASE Finalizer
  <2>1. Started
    BY <1>1, <1>17, StageAt DEF Finalizer
  <2>2. Tail(<<"finalizer">>) = <<>>
    OBVIOUS
  <2>3. level = "loaded" /\ ~failed /\ loading = <<"finalizer">>
    BY <2>1 DEF Started
  <2>4. loading' = <<>> /\ UNCHANGED <<level, load, fault>>
    BY <1>17, <2>2, <2>3 DEF Finalizer, Done, Started
  <2> QED
    BY <1>1, <1>17, <2>1, <2>4 DEF Stage, Started, Quiet, Finalizer
<1> QED
  BY <1>8, <1>9, <1>10, <1>11, <1>12, <1>13, <1>14, <1>15, <1>16, <1>17 DEF LoadingStep


-----------------------------------------------------------------------------
(* A start that may fail goes through the same scripts.                    *)

InNet(i) == loading = From(NetStart, i) /\ level = "created"

InClient(i) == /\ loading = From(ClientScript, i)
               /\ level # "none"
               /\ i <= 3 => level = "created"
               /\ i \in 4 .. 6 /\ connected => level = "loaded"
               /\ i > 6 /\ result => level = "loaded"

Final == loading = <<"finalizer">> /\ level # "none" /\ (~failed => level = "loaded")

LEMMA UnderwayIs ==
    Underway <=> \/ fault # "none"
                 \/ loading = <<>> /\ level # "created"
                 \/ \E i \in 1 .. 4 : InNet(i)
                 \/ \E i \in 1 .. 8 : InClient(i)
                 \/ Final
  BY DEF Underway, InNet, InClient, Final

\* The step at the front of the list tells where.
LEMMA UnderwayAt ==
    ASSUME Underway, fault = "none", loading # <<>>
    PROVE  /\ Head(loading) = "start1" => InNet(1)
           /\ Head(loading) = "start2" => InNet(2)
           /\ Head(loading) = "start3" => InNet(3)
           /\ Head(loading) = "start4" => InNet(4)
           /\ Head(loading) = "client1" => InClient(1)
           /\ Head(loading) = "client2" => InClient(2)
           /\ Head(loading) = "client3" => InClient(3)
           /\ Head(loading) = "client4" => InClient(4)
           /\ Head(loading) = "client5" => InClient(5)
           /\ Head(loading) = "client6" => InClient(6)
           /\ Head(loading) = "start5" => InClient(7)
           /\ Head(loading) = "start6" => InClient(8)
           /\ Head(loading) = "finalizer" => Final
<1>1. /\ NetStart[1] = "start1" /\ NetStart[2] = "start2" /\ NetStart[3] = "start3"
      /\ NetStart[4] = "start4"
  BY DEF NetStart
<1>2. /\ ClientScript[1] = "client1" /\ ClientScript[2] = "client2" /\ ClientScript[3] = "client3"
      /\ ClientScript[4] = "client4" /\ ClientScript[5] = "client5" /\ ClientScript[6] = "client6"
      /\ ClientScript[7] = "start5" /\ ClientScript[8] = "start6"
  BY DEF ClientScript
<1>3. CASE \E i \in 1 .. 4 : InNet(i)
  <2>1. PICK i \in 1 .. 4 : InNet(i)
    BY <1>3
  <2>2. Head(loading) = NetStart[i]
    BY <2>1, Scripts DEF InNet
  <2>3. i = 1 \/ i = 2 \/ i = 3 \/ i = 4
    OBVIOUS
  <2> QED
    BY <1>1, <2>1, <2>2, <2>3
<1>4. CASE \E i \in 1 .. 8 : InClient(i)
  <2>1. PICK i \in 1 .. 8 : InClient(i)
    BY <1>4
  <2>2. Head(loading) = ClientScript[i]
    BY <2>1, Scripts DEF InClient
  <2>3. i = 1 \/ i = 2 \/ i = 3 \/ i = 4 \/ i = 5 \/ i = 6 \/ i = 7 \/ i = 8
    OBVIOUS
  <2> QED
    BY <1>2, <2>1, <2>2, <2>3
<1>5. CASE Final
  BY <1>5 DEF Final
<1> QED
  BY <1>3, <1>4, <1>5, UnderwayIs

\* Each loading step, failed or not, leads from one place in the scripts to the next.
LEMMA LoadingUnderway ==
    ASSUME TypeOK, Underway, LoadingStep
    PROVE  Underway'
<1>1. ASSUME NEW step, Loading(step)
      PROVE  /\ loading # <<>> /\ Head(loading) = step /\ fault = "none"
  BY <1>1 DEF Loading, Running
<1>2. ASSUME NEW i \in 1 .. 4, InNet(i)
      PROVE  Tail(loading) = From(NetStart, i + 1) /\ level = "created"
  BY <1>2, Scripts DEF InNet
<1>3. ASSUME NEW i \in 1 .. 8, InClient(i)
      PROVE  Tail(loading) = From(ClientScript, i + 1)
  BY <1>3, Scripts DEF InClient
<1>4. ASSUME NEW i \in 1 .. 4, InNet(i)' PROVE Underway'
  BY <1>4 DEF Underway, InNet
<1>5. ASSUME NEW i \in 1 .. 8, InClient(i)' PROVE Underway'
  BY <1>5 DEF Underway, InClient
<1>6. ASSUME NEW i \in 1 .. 3, InNet(i), loading' = Tail(loading), level' = level
      PROVE  Underway'
  <2>1. InNet(i + 1)'
    BY <1>2, <1>6 DEF InNet
  <2> QED
    BY <1>4, <2>1
<1>7. ASSUME NEW i \in 1 .. 7, InClient(i), loading' = Tail(loading), level' = level,
             UNCHANGED <<connected, result>>, i \notin {3, 6}
      PROVE  Underway'
  <2>1. InClient(i + 1)'
    BY <1>3, <1>7 DEF InClient
  <2> QED
    BY <1>5, <2>1
<1>8. CASE NetStart1
  <2>1. InNet(1) /\ loading' = Tail(loading) /\ level' = level
    BY <1>1, <1>8, UnderwayAt DEF NetStart1, Done
  <2> QED
    BY <1>6, <2>1
<1>9. CASE NetStart2
  <2>1. InNet(2) /\ loading' = Tail(loading) /\ level' = level
    BY <1>1, <1>9, UnderwayAt DEF NetStart2, Done
  <2> QED
    BY <1>6, <2>1
<1>10. CASE NetStart4
  <2>1. InNet(4)
    BY <1>1, <1>10, UnderwayAt DEF NetStart4
  <2>2. Tail(loading) = From(NetStart, 5) /\ level = "created"
    BY <1>2, <2>1
  <2>u. UNCHANGED <<level, result>>
    BY <1>10 DEF NetStart4
  <2>3. CASE result
    <3>1. loading' = From(ClientScript, 1)
      BY <1>10, <2>2, <2>3, Scripts DEF NetStart4
    <3>2. InClient(1)'
      BY <2>2, <2>u, <3>1 DEF InClient
    <3> QED
      BY <1>5, <3>2
  <2>4. CASE ~result
    <3>1. loading' = From(ClientScript, 7)
      BY <1>10, <2>2, <2>4, Scripts DEF NetStart4
    <3>2. InClient(7)'
      BY <2>2, <2>u, <2>4, <3>1 DEF InClient
    <3> QED
      BY <1>5, <3>2
  <2> QED
    BY <2>3, <2>4
<1>11. CASE NetStart6
  <2>1. InClient(8)
    BY <1>1, <1>11, UnderwayAt DEF NetStart6
  <2>2. Tail(loading) = <<>>
    <3>1. Tail(loading) = From(ClientScript, 9)
      BY <1>3, <2>1
    <3> QED
      BY <3>1, Scripts
  <2>3. loading' = <<"finalizer">> \o <<>> /\ failed' = ~result /\ level' = level
    BY <1>11, <2>2, Zenon DEF NetStart6
  <2>5. loading' = <<"finalizer">>
    BY <2>3
  <2>6. level # "none" /\ (result => level = "loaded")
    BY <2>1 DEF InClient
  <2>4. Final'
    BY <2>3, <2>5, <2>6 DEF Final
  <2> QED
    BY <2>4 DEF Final, Underway
<1>12. CASE NetStep
  <2>1. PICK step \in {"start3", "start5", "client4", "client5"} : Loading(step)
    BY <1>12 DEF NetStep
  <2>2. loading' = Tail(loading) /\ UNCHANGED <<level, connected, result>>
    BY <1>12 DEF NetStep, Done
  <2>3. InNet(3) \/ InClient(7) \/ InClient(4) \/ InClient(5)
    BY <1>1, <2>1, UnderwayAt
  <2> QED
    BY <1>6, <1>7, <2>2, <2>3
<1>13. CASE NetStartClient1
  <2>1. InClient(1) /\ loading' = Tail(loading) /\ UNCHANGED <<level, connected, result>>
    BY <1>1, <1>13, UnderwayAt DEF NetStartClient1, Done
  <2> QED
    BY <1>7, <2>1
<1>14. CASE NetStartClient2
  <2>1. InClient(2) /\ loading' = Tail(loading) /\ UNCHANGED <<level, result>>
    BY <1>1, <1>14, UnderwayAt DEF NetStartClient2, Done
  <2>2. InClient(3)'
    BY <1>3, <2>1 DEF InClient
  <2> QED
    BY <1>5, <2>2
<1>15. CASE NetStartClient3
  <2>1. InClient(3) /\ result' = result
    BY <1>1, <1>15, UnderwayAt DEF NetStartClient3
  <2>2. Tail(loading) = From(ClientScript, 4) /\ level = "created"
    BY <1>3, <2>1 DEF InClient
  <2>3. CASE loading' = Tail(loading)
    <3>1. level' # "none" /\ (connected' => level' = "loaded")
      BY <1>15, <2>2 DEF NetStartClient3
    <3>2. loading' = From(ClientScript, 4)
      BY <2>2, <2>3
    <3>3. InClient(4)'
      BY <3>1, <3>2 DEF InClient
    <3> QED
      BY <1>5, <3>3
  <2>4. CASE UNCHANGED <<level, loading>>
    <3>1. InClient(3)'
      BY <2>1, <2>4 DEF InClient
    <3> QED
      BY <1>5, <3>1
  <2> QED
    BY <1>15, <2>3, <2>4 DEF NetStartClient3, Done
<1>16. CASE NetStartClient6
  <2>1. InClient(6) /\ loading' = Tail(loading) /\ level' = level /\ result' = connected
    BY <1>1, <1>16, UnderwayAt DEF NetStartClient6, Done
  <2>2. InClient(7)'
    BY <1>3, <2>1 DEF InClient
  <2> QED
    BY <1>5, <2>2
<1>17. CASE Finalizer
  <2>1. Final
    BY <1>1, <1>17, UnderwayAt DEF Finalizer
  <2>2. CASE Dies("unloaded")
    BY <2>2 DEF Dies, Underway
  <2>3. CASE (level = "none" \/ ~failed) /\ Done /\ level' = level
    BY <2>1, <2>3 DEF Final, Done, Underway
  <2> QED
    BY <1>17, <2>2, <2>3 DEF Finalizer
<1> QED
  BY <1>8, <1>9, <1>10, <1>11, <1>12, <1>13, <1>14, <1>15, <1>16, <1>17 DEF LoadingStep

\* A handler that starts a level finds nothing being loaded, and one that ends a level
\* finds it loaded.
LEMMA HandlerUnderway ==
    ASSUME TypeOK, delivering => next > 0, Order, Underway, Handler
    PROVE  Underway'
<1>1. fault = "none" /\ ~Queue!Idle
  BY HandlerFrame
<1>2. loading # <<>> => level = "created"
  BY <1>1 DEF Order
<1>3. CASE Start /\ level = "none"
  <2>1. loading' = <<>> \o NetStart /\ level' = "created"
    BY <1>2, <1>3 DEF Start
  <2>2. <<>> \o NetStart = From(NetStart, 1)
    <3>1. NetStart \in Seq(Steps)
      BY ScriptTypes
    <3>2. <<>> \o NetStart = NetStart
      BY <3>1
    <3> QED
      BY <3>2, Scripts
  <2> QED
    BY <2>1, <2>2 DEF Underway
<1>4. CASE Disconnect
  <2>1. level = "loaded" /\ level' = "none" /\ loading' = loading
    BY <1>4 DEF Disconnect
  <2> QED
    BY <1>2, <2>1 DEF Underway
<1>5. CASE DisconnectNoLevel \/ Quit \/ QuickLoad
  <2>1. UNCHANGED <<level, loading, connected, result, failed, fault>>
    BY <1>5 DEF DisconnectNoLevel, Quit, QuickLoad, levelVars
  <2> QED
    BY <2>1 DEF Underway
<1>6. CASE (Start /\ level # "none") \/ DisconnectUnloaded \/ QuickLoadUnloaded
  <2>1. fault' # "none"
    BY <1>6 DEF Start, DisconnectUnloaded, QuickLoadUnloaded, Dies
  <2> QED
    BY <2>1 DEF Underway
<1> QED
  BY <1>3, <1>4, <1>5, <1>6 DEF Handler

LEMMA UnderwayStep ==
    ASSUME TypeOK, delivering => next > 0, Order, Underway, [Next]_appVars
    PROVE  Underway'
<1>1. CASE (\E r \in Requests : Request(r)) \/ ToggleMenu \/ Deliver \/ EndFrame \/ UNCHANGED appVars
  <2>1. UNCHANGED <<level, loading, connected, result, failed, fault>>
    BY <1>1 DEF Request, ToggleMenu, Deliver, EndFrame, appVars, levelVars
  <2> QED
    BY <2>1 DEF Underway
<1> QED
  BY <1>1, LoadingUnderway, HandlerUnderway DEF Next

-----------------------------------------------------------------------------
(* Calm frames.                                                            *)

\* While the one request of a frame is under way nothing is being loaded.
LEMMA CalmHandling ==
    ASSUME TypeOK, delivering => next > 0, CalmOK, calm, delivering
    PROVE  /\ loading = <<>> /\ level \in {"none", "loaded"} /\ load.refs = 0 /\ ~quit
           /\ deferred # <<>> /\ next \in 1 .. Len(deferred)
<1>1. next \in 1 .. Len(deferred) /\ Len(deferred) \in Nat
  BY DEF TypeOK
<1>2. Stage /\ CalmFrame
  BY DEF CalmOK
<1>3. loading = <<>>
  BY <1>1, <1>2 DEF CalmFrame, Queue!Idle
<1>4. Quiet
  BY <1>2, <1>3, Scripts DEF Stage, InNetStart, InClientScript, Started
<1>5. ~quit
  BY <1>1, <1>2 DEF CalmFrame, Queue!Idle, Handled
<1> QED
  BY <1>1, <1>3, <1>4, <1>5 DEF Quiet

\* Which event of which frame is being handled.
LEMMA CalmCurrent ==
    ASSUME "command" \notin Requests, TypeOK, delivering => next > 0, CalmOK, calm, delivering
    PROVE  /\ Current = "start" => next = Len(deferred) /\ deferred \in {<<"start">>, <<"disconnect", "start">>}
           /\ Current = "quit" => next = 2 /\ deferred = <<"disconnect", "quit">>
           /\ Current = "quickload" => deferred = <<"quickload">> /\ next = 1
           /\ Current = "disconnect" => next = 1 /\ deferred # <<"quickload">>
<1>1. deferred # <<>> /\ next \in 1 .. Len(deferred)
  BY CalmHandling
<1>2. PICK r \in Requests : deferred = EventsOf(r)
  BY <1>1 DEF CalmOK, CalmFrame
<1>3. r \in {"start", "restart", "disconnect", "quit", "quickload"}
  BY AppEventsAssumption
<1>4. CASE r = "start"
  <2>1. deferred = <<"start">>
    BY <1>2, <1>4, EventsFacts
  <2>2. next = 1
    BY <1>1, <2>1
  <2> QED
    BY <2>1, <2>2 DEF Current
<1>5. CASE r = "restart"
  <2>1. deferred = <<"disconnect", "start">>
    BY <1>2, <1>5, EventsFacts
  <2>2. next = 1 \/ next = 2
    BY <1>1, <2>1
  <2> QED
    BY <2>1, <2>2 DEF Current
<1>6. CASE r = "disconnect"
  <2>1. deferred = <<"disconnect">>
    BY <1>2, <1>6, EventsFacts
  <2>2. next = 1
    BY <1>1, <2>1
  <2> QED
    BY <2>1, <2>2 DEF Current
<1>7. CASE r = "quit"
  <2>1. deferred = <<"disconnect", "quit">>
    BY <1>2, <1>7, EventsFacts
  <2>2. next = 1 \/ next = 2
    BY <1>1, <2>1
  <2> QED
    BY <2>1, <2>2 DEF Current
<1>8. CASE r = "quickload"
  <2>1. deferred = <<"quickload">>
    BY <1>2, <1>8, EventsFacts
  <2>2. next = 1
    BY <1>1, <2>1
  <2> QED
    BY <2>1, <2>2 DEF Current
<1> QED
  BY <1>3, <1>4, <1>5, <1>6, <1>7, <1>8

\* No handler dies, and each leaves the level the rest of its frame counts on.
LEMMA CalmHandler ==
    ASSUME "command" \notin Requests, TypeOK, delivering => next > 0, StartsOnNoLevel, Order,
           CalmOK, calm, Handler
    PROVE  CalmOK'
<1>1. /\ fault = "none" /\ delivering /\ delivering' = FALSE
      /\ UNCHANGED <<deferred, next>>
      /\ next \in 1 .. Len(deferred) /\ Len(deferred) \in Nat
      /\ ~Queue!Idle /\ ~Queue!Idle'
  BY HandlerFrame
<1>2. /\ loading = <<>> /\ level \in {"none", "loaded"} /\ load.refs = 0 /\ ~quit
      /\ deferred # <<>>
  BY <1>1, CalmHandling
<1>3. fault' # "assert"
  BY HandlerOrder DEF StartsOnNoLevel
<1>4. /\ Current = "start" => next = Len(deferred) /\ deferred \in {<<"start">>, <<"disconnect", "start">>}
      /\ Current = "quit" => next = 2 /\ deferred = <<"disconnect", "quit">>
      /\ Current = "quickload" => deferred = <<"quickload">> /\ next = 1
      /\ Current = "disconnect" => next = 1 /\ deferred # <<"quickload">>
  BY <1>1, CalmCurrent
<1>5. /\ deferred = <<>> \/ \E r \in Requests : deferred = EventsOf(r)
      /\ deferred = <<"quickload">> => level = "loaded"
      /\ deferred = <<"disconnect", "quit">> /\ next > 0 /\ Handled(1) => level = "none"
  BY DEF CalmOK, CalmFrame
<1>6. ASSUME fault' = "none", Stage',
             next < Len(deferred) => loading' = <<>>,
             deferred = <<"quickload">> => level' = "loaded",
             deferred = <<"disconnect", "quit">> => level' = "none",
             quit' => level' = "none" /\ next = Len(deferred)
      PROVE  CalmOK'
  <2>1. Handled(Len(deferred))' = (next = Len(deferred))
    BY <1>1 DEF Handled
  <2>2. CalmFrame'
    <3>1. deferred' = <<>> \/ \E r \in Requests : deferred' = EventsOf(r)
      BY <1>1, <1>5
    <3>2. next' < Len(deferred') => loading' = <<>>
      BY <1>1, <1>6
    <3>3. deferred' = <<"quickload">> => level' = "loaded"
      BY <1>1, <1>6
    <3>4. deferred' = <<"disconnect", "quit">> => level' = "none"
      BY <1>1, <1>6
    <3>5. quit' => level' = "none" /\ Handled(Len(deferred))'
      BY <1>6, <2>1
    <3> QED
      BY <1>1, <3>1, <3>2, <3>3, <3>4, <3>5 DEF CalmFrame
  <2> QED
    BY <1>6, <2>2 DEF CalmOK
<1>7. ASSUME loading' = <<>>, level' \in {"none", "loaded"}, load'.refs = 0
      PROVE  Stage'
  BY <1>7 DEF Stage, Quiet
<1>8. Len(<<"start">>) = 1 /\ Len(<<"disconnect", "start">>) = 2 /\ Len(<<"disconnect", "quit">>) = 2
  OBVIOUS
<1>9. /\ <<"start">> # <<"quickload">> /\ <<"start">> # <<"disconnect", "quit">>
      /\ <<"disconnect", "start">> # <<"quickload">> /\ <<"disconnect", "start">> # <<"disconnect", "quit">>
      /\ <<"disconnect", "quit">> # <<"quickload">>
  OBVIOUS
<1>10. CASE Start
  <2>1. /\ Current = "start" /\ level = "none"
        /\ level' = "created" /\ load' = LoadEnd(LoadBegin(LoadBegin(load)))
        /\ loading' = loading \o NetStart /\ result' = TRUE
        /\ UNCHANGED <<quit, fault>>
    BY <1>3, <1>10 DEF Start, Handling, Dies
  <2>2. load' = [refs |-> 1, done |-> FALSE]
    <3> Width \in Nat /\ Width > 2
      BY AppEventsAssumption
    <3>1. load \in Loads /\ LoadBegin(load) \in Loads /\ LoadBegin(LoadBegin(load)) \in Loads
      BY LoadFacts DEF TypeOK
    <3>2. LoadBegin(load).refs = 1
      BY <1>2, <3>1, LoadFacts
    <3>3. LoadBegin(load).done = (load.done /\ LoadBegin(load).refs # 1)
      BY <3>1, LoadFacts
    <3>4. ~LoadBegin(load).done
      BY <3>2, <3>3
    <3>5. LoadBegin(LoadBegin(load)).refs = 2
      BY <3>1, <3>2, LoadFacts
    <3>6. LoadBegin(LoadBegin(load)).done = (LoadBegin(load).done /\ LoadBegin(LoadBegin(load)).refs # 1)
      BY <3>1, LoadFacts
    <3>7. ~LoadBegin(LoadBegin(load)).done
      BY <3>4, <3>6
    <3>8. load' \in Loads /\ load'.refs = 1
      BY <2>1, <3>1, <3>5, LoadFacts
    <3>9. load'.done = (LoadBegin(LoadBegin(load)).done \/ load'.refs = 0)
      BY <2>1, <3>1, LoadFacts
    <3>10. load'.done = FALSE
      BY <3>7, <3>8, <3>9 DEF Loads
    <3> QED
      BY <3>8, <3>10 DEF Loads
  <2>3. loading' = From(NetStart, 1)
    BY <1>2, <2>1, Scripts, ScriptTypes
  <2>4. Stage'
    BY <2>1, <2>2, <2>3 DEF Stage, InNetStart
  <2> QED
    BY <1>1, <1>2, <1>4, <1>6, <1>9, <2>1, <2>4
<1>11. CASE Disconnect
  <2>1. /\ Current = "disconnect" /\ level' = "none"
        /\ UNCHANGED <<loading, load, quit, fault>>
    BY <1>11 DEF Disconnect, Handling
  <2> QED
    BY <1>1, <1>2, <1>4, <1>6, <1>7, <2>1
<1>12. CASE DisconnectNoLevel
  <2>1. /\ Current = "disconnect" /\ level = "none"
        /\ UNCHANGED <<level, loading, load, quit, fault>>
    BY <1>12 DEF DisconnectNoLevel, Handling, levelVars
  <2> QED
    BY <1>1, <1>2, <1>4, <1>6, <1>7, <2>1
<1>13. CASE DisconnectUnloaded
  BY <1>2, <1>13 DEF DisconnectUnloaded
<1>14. CASE Quit
  <2>1. /\ Current = "quit"
        /\ UNCHANGED <<level, loading, load, fault>>
    BY <1>14 DEF Quit, Handling
  <2>2. next = 2 /\ deferred = <<"disconnect", "quit">>
    BY <1>4, <2>1
  <2>3. level = "none"
    BY <1>5, <2>2 DEF Handled
  <2> QED
    BY <1>1, <1>2, <1>6, <1>7, <1>8, <1>9, <2>1, <2>2, <2>3
<1>15. CASE QuickLoad
  <2>1. /\ Current = "quickload" /\ level = "loaded"
        /\ load' = LoadEnd(LoadBegin(load))
        /\ UNCHANGED <<level, loading, quit, fault>>
    BY <1>15 DEF QuickLoad, Handling
  <2>2. load'.refs = 0
    <3> Width \in Nat /\ Width > 2
      BY AppEventsAssumption
    <3>1. load \in Loads /\ LoadBegin(load) \in Loads
      BY LoadFacts DEF TypeOK
    <3>2. LoadBegin(load).refs = 1
      BY <1>2, <3>1, LoadFacts
    <3> QED
      BY <2>1, <3>1, <3>2, LoadFacts
  <2>3. deferred = <<"quickload">>
    BY <1>4, <2>1
  <2> QED
    BY <1>1, <1>2, <1>6, <1>7, <1>9, <2>1, <2>2, <2>3
<1>16. CASE QuickLoadUnloaded
  <2>1. Current = "quickload" /\ level # "loaded"
    BY <1>16 DEF QuickLoadUnloaded, Handling
  <2> QED
    BY <1>4, <1>5, <2>1
<1> QED
  BY <1>10, <1>11, <1>12, <1>13, <1>14, <1>15, <1>16 DEF Handler


\* A request is calm when nothing else is deferred.
LEMMA CalmRequest ==
    ASSUME TypeOK, delivering => next > 0, CalmOK, NEW r \in Requests, Request(r), calm'
    PROVE  CalmOK'
<1>1. /\ fault = "none" /\ Issued(r) /\ calm /\ deferred = <<>>
      /\ deferred' = deferred \o EventsOf(r)
      /\ UNCHANGED <<next, delivering>> /\ UNCHANGED levelVars
  BY DEF Request, Running, Queue!DeferAll
<1>2. next = 0 /\ ~delivering
  BY <1>1 DEF TypeOK
<1>3. ~quit
  BY <1>2 DEF Request, Running, Queue!Idle
<1>4. r \in AllRequests
  BY AppEventsAssumption DEF AllRequests
<1>5. EventsOf(r) \in Seq(Names)
  BY <1>4, EventsFacts
<1>6. deferred' = EventsOf(r)
  BY <1>1, <1>5
<1>7. EventsOf(r) = <<"quickload">> => level = "loaded"
  <2>1. r = "quickload" => level = "loaded"
    BY <1>1 DEF Issued
  <2>2. r # "quickload" => EventsOf(r) # <<"quickload">>
    BY <1>4, EventsFacts DEF AllRequests
  <2> QED
    BY <2>1, <2>2
<1>8. Stage'
  BY <1>1 DEF CalmOK, Stage, InNetStart, InClientScript, Started, Quiet, levelVars
<1> QED
  BY <1>1, <1>2, <1>3, <1>6, <1>7, <1>8 DEF CalmOK, CalmFrame, Queue!Idle, levelVars

LEMMA CalmDeliver ==
    ASSUME TypeOK, delivering => next > 0, CalmOK, Deliver, calm
    PROVE  CalmOK'
<1>1. /\ fault = "none" /\ ~delivering /\ delivering' = TRUE /\ next' = next + 1
      /\ next = 0 => loading = <<>>
      /\ next < Len(deferred) /\ ~(quit /\ next = 0)
      /\ UNCHANGED <<deferred, level, loading, load, result, connected, failed, menu, quit, fault>>
  BY DEF Deliver, Running, Queue!Begin, Queue!Idle, levelVars
<1>2. next \in Nat /\ Len(deferred) \in Nat
  BY DEF TypeOK
<1>3. Stage /\ CalmFrame
  BY DEF CalmOK
<1>4. loading = <<>> /\ ~quit
  BY <1>1, <1>2, <1>3 DEF CalmFrame, Queue!Idle, Handled
<1>5. Stage'
  BY <1>1, <1>3 DEF Stage, InNetStart, InClientScript, Started, Quiet
<1>6. next' > 0 /\ Handled(1)' => next > 0 /\ Handled(1)
  BY <1>1, <1>2 DEF Handled
<1> QED
  BY <1>1, <1>3, <1>4, <1>5, <1>6 DEF CalmOK, CalmFrame

LEMMA CalmEnd ==
    ASSUME CalmOK, EndFrame, calm
    PROVE  CalmOK'
<1>1. /\ deferred' = <<>> /\ next' = 0
      /\ UNCHANGED <<level, loading, load, result, connected, failed, menu, quit, fault>>
  BY DEF EndFrame, Queue!Clear, levelVars
<1>2. fault = "none" /\ Stage /\ CalmFrame
  BY DEF CalmOK
<1>3. Stage'
  BY <1>1, <1>2 DEF Stage, InNetStart, InClientScript, Started, Quiet
<1>4. <<>> # <<"quickload">> /\ <<>> # <<"disconnect", "quit">>
  OBVIOUS
<1> QED
  BY <1>1, <1>2, <1>3, <1>4 DEF CalmOK, CalmFrame, Queue!Idle

\* Loading steps run in Idle, on a level that stays loaded.
LEMMA CalmLoading ==
    ASSUME TypeOK, delivering => next > 0, CalmOK, LoadingStep, calm'
    PROVE  CalmOK'
<1>1. /\ fault = "none" /\ next = 0 /\ ~delivering /\ loading # <<>>
      /\ UNCHANGED <<deferred, next, delivering>>
      /\ UNCHANGED <<menu, quit>>
      /\ level' = level \/ level' = "loaded"
  BY LoadingFrame
<1>2. calm /\ ~quit
  <2>1. ASSUME NEW step, Loading(step)
        PROVE  ~quit
    BY <1>1, <2>1 DEF Loading, Running, Queue!Idle
  <2>2. CASE NetStart1 \/ NetStart2 \/ NetStart4 \/ NetStart6
    BY <2>1, <2>2 DEF NetStart1, NetStart2, NetStart4, NetStart6
  <2>3. CASE NetStep \/ NetStartClient1 \/ NetStartClient2 \/ NetStartClient6
    BY <2>1, <2>3 DEF NetStep, NetStartClient1, NetStartClient2, NetStartClient6
  <2>4. CASE NetStartClient3
    BY <2>1, <2>4 DEF NetStartClient3
  <2>5. CASE Finalizer
    BY <2>1, <2>5 DEF Finalizer, Dies
  <2> QED
    BY <2>2, <2>3, <2>4, <2>5 DEF LoadingStep
<1>3. Stage /\ CalmFrame
  BY <1>2 DEF CalmOK
<1>4. Stage' /\ fault' = "none"
  BY <1>3, LoadingStage
<1>5. /\ deferred' = <<>> \/ \E r \in Requests : deferred' = EventsOf(r)
      /\ deferred' = <<"quickload">> => level' = "loaded"
  BY <1>1, <1>3 DEF CalmFrame
<1> QED
  BY <1>1, <1>2, <1>4, <1>5 DEF CalmOK, CalmFrame, Queue!Idle

LEMMA CalmStep ==
    ASSUME "command" \notin Requests, IInv, [Next]_appVars
    PROVE  CalmOK'
<1> SUFFICES ASSUME calm' PROVE CalmOK'
  BY DEF CalmOK
<1>1. TypeOK /\ (delivering => next > 0) /\ StartsOnNoLevel /\ Order /\ CalmOK
  BY DEF IInv
<1>2. CASE \E r \in Requests : Request(r)
  BY <1>1, <1>2, CalmRequest
<1>3. CASE ToggleMenu
  <2>1. UNCHANGED <<deferred, next, delivering, level, loading, load, result, connected, failed,
                    quit, fault, calm>>
    BY <1>3 DEF ToggleMenu
  <2> QED
    BY <1>1, <2>1 DEF CalmOK, Stage, InNetStart, InClientScript, Started, Quiet, CalmFrame, Handled, Queue!Idle
<1>4. CASE Deliver
  BY <1>1, <1>4, CalmDeliver DEF Deliver
<1>5. CASE Handler
  <2>1. calm
    BY <1>5 DEF Handler, Start, Disconnect, DisconnectNoLevel, DisconnectUnloaded, Quit, QuickLoad,
       QuickLoadUnloaded, Dies, levelVars
  <2> QED
    BY <1>1, <1>5, <2>1, CalmHandler
<1>6. CASE EndFrame
  BY <1>1, <1>6, CalmEnd DEF EndFrame
<1>7. CASE LoadingStep
  BY <1>1, <1>7, CalmLoading
<1>8. CASE UNCHANGED appVars
  BY <1>1, <1>8 DEF appVars, levelVars, CalmOK, Stage, InNetStart, InClientScript, Started, Quiet, CalmFrame,
     Handled, Queue!Idle
<1> QED
  BY <1>2, <1>3, <1>4, <1>5, <1>6, <1>7, <1>8 DEF Next

-----------------------------------------------------------------------------
(* The inductive step.                                                     *)

\* The inductive invariant.
LEMMA IInvInit ==
    Init => IInv
<1> SUFFICES ASSUME Init PROVE IInv
  OBVIOUS
<1> USE DEF Init, Queue!QueueInit
<1>1. TypeOK
  <2>1. load \in Loads
    BY AppEventsAssumption DEF Loads
  <2>2. deferred \in Seq(Names) /\ loading \in Seq(Steps) /\ Len(deferred) = 0
    OBVIOUS
  <2> QED
    <3>1. next \in 0 .. Len(deferred) /\ delivering \in BOOLEAN /\ level \in {"none", "created", "loaded"}
      <4>1. next = 0
        OBVIOUS
      <4>2. delivering \in BOOLEAN /\ level \in {"none", "created", "loaded"}
        OBVIOUS
      <4> QED
        BY <2>2, <4>1, <4>2
    <3>2. /\ result \in BOOLEAN /\ connected \in BOOLEAN /\ failed \in BOOLEAN
          /\ menu \in BOOLEAN /\ quit \in BOOLEAN /\ calm \in BOOLEAN
          /\ fault \in Faults \cup {"none"}
      OBVIOUS
    <3> QED
      BY <2>1, <2>2, <3>1, <3>2 DEF TypeOK
<1>2. StartsOnNoLevel /\ Order /\ Underway
  BY DEF StartsOnNoLevel, Order, Underway
<1>3. CalmOK
  <2>1. <<>> # <<"quickload">> /\ <<>> # <<"disconnect", "quit">>
    OBVIOUS
  <2> QED
    BY <2>1 DEF CalmOK, Stage, Quiet, CalmFrame, Queue!Idle
<1> QED
  BY <1>1, <1>2, <1>3 DEF IInv

LEMMA IInvStep ==
    "command" \notin Requests /\ IInv /\ [Next]_appVars => IInv'
<1> SUFFICES ASSUME "command" \notin Requests, IInv, [Next]_appVars PROVE IInv'
  OBVIOUS
<1>1. /\ TypeOK /\ (delivering => next > 0) /\ StartsOnNoLevel /\ Order /\ Underway
  BY DEF IInv
<1>2. TypeOK'
  BY <1>1, TypeStep
<1>3. delivering' => next' > 0
  <2>1. CASE Handler
    BY <1>1, <2>1, HandlerFrame
  <2>2. CASE LoadingStep
    BY <1>1, <2>2, LoadingFrame
  <2>3. CASE (\E r \in Requests : Request(r)) \/ ToggleMenu \/ EndFrame \/ UNCHANGED appVars
    BY <1>1, <2>3 DEF Request, ToggleMenu, EndFrame, appVars, Queue!DeferAll, Queue!Clear
  <2>4. CASE Deliver
    BY <1>1, <2>4 DEF Deliver, Queue!Begin, TypeOK
  <2> QED
    BY <2>1, <2>2, <2>3, <2>4 DEF Next
<1>4. StartsOnNoLevel' /\ Order'
  BY <1>1, OrderStep
<1> QED
  BY <1>1, <1>2, <1>3, <1>4, UnderwayStep, CalmStep DEF IInv

-----------------------------------------------------------------------------
(* The theorems.                                                           *)

\* Counters, flags, lists and the wrapped reference count keep their types, the
\* console command start included.
THEOREM TypeCorrect ==
    Spec => []TypeOK
<1>1. Init => TypeOK
  BY IInvInit DEF IInv
<1> QED
  BY <1>1, TypeStep, PTL DEF Spec

\* Without the console command start the program keeps its invariant.
THEOREM Invariant ==
    ASSUME "command" \notin Requests
    PROVE  Spec => []IInv
<1>1. IInv /\ [Next]_appVars => IInv'
  BY IInvStep
<1> QED
  BY <1>1, IInvInit, PTL DEF Spec

\* Without the console command start no start is handled while a level exists: the
\* assertion of CApplication::OnEvent holds however many requests share a frame and
\* whatever handlers and loading steps defer.
THEOREM NoLevelAtStart ==
    ASSUME "command" \notin Requests
    PROVE  Spec => []StartsOnNoLevel
<1>1. IInv => StartsOnNoLevel
  BY DEF IInv
<1> QED
  BY <1>1, Invariant, PTL

\* As long as requests come one per frame and starts succeed, no handler and no loading
\* step meets a level that is gone or half made.
THEOREM NeverFaults ==
    ASSUME "command" \notin Requests
    PROVE  Spec => []NoFault
<1>1. IInv => NoFault
  BY DEF IInv, CalmOK, NoFault
<1> QED
  BY <1>1, Invariant, PTL

\* The same for the loading screen: it stays until the last step of a start, and
\* LoadBegin and LoadEnd even out.
THEOREM ScreenWhileLoading ==
    ASSUME "command" \notin Requests
    PROVE  Spec => []LoadScreen
<1>1. IInv => LoadScreen
  <2> SUFFICES ASSUME IInv, calm
               PROVE  /\ load.done => \A k \in DOMAIN loading : loading[k] = "finalizer"
                      /\ Queue!Idle /\ loading = <<>> => load.refs = 0
    BY DEF LoadScreen
  <2>1. Stage
    BY DEF IInv, CalmOK
  <2>2. load.done => Started \/ Quiet
    BY <2>1 DEF Stage, InNetStart, InClientScript
  <2>3. Started \/ Quiet => \A k \in DOMAIN loading : loading[k] = "finalizer"
    BY DEF Started, Quiet
  <2>4. loading = <<>> => Quiet
    BY <2>1, Scripts DEF Stage, InNetStart, InClientScript, Started
  <2> QED
    BY <2>2, <2>3, <2>4 DEF Quiet
<1> QED
  BY <1>1, Invariant, PTL

\* As long as the program lives and nothing is deferred, the player has the menu before
\* him or a level, and a half made level has steps left that will finish it, whatever
\* requests have shared a frame and whichever steps have failed.
THEOREM NeverLeftAlone ==
    ASSUME "command" \notin Requests
    PROVE  Spec => []LevelOrMenu
<1>1. IInv => LevelOrMenu
  <2> SUFFICES ASSUME IInv, fault = "none", deferred = <<>>
               PROVE  IF quit THEN calm => level = "none"
                      ELSE /\ menu \/ level # "none"
                           /\ level = "created" => loading # <<>>
    BY DEF LevelOrMenu
  <2>1. DOMAIN deferred = {}
    OBVIOUS
  <2>2. level = "none" => menu \/ quit
    BY <2>1 DEF IInv, Order
  <2>3. calm /\ quit => level = "none"
    BY DEF IInv, CalmOK, CalmFrame
  <2>4. level = "created" => loading # <<>>
    <3> SUFFICES ASSUME level = "created", loading = <<>> PROVE FALSE
      OBVIOUS
    <3>1. \A i \in 1 .. 4 : ~InNet(i)
      BY Scripts DEF InNet
    <3>2. \A i \in 1 .. 8 : ~InClient(i)
      BY Scripts DEF InClient
    <3>3. ~Final
      BY DEF Final
    <3> QED
      BY <3>1, <3>2, <3>3, UnderwayIs DEF IInv
  <2> QED
    BY <2>2, <2>3, <2>4
<1> QED
  BY <1>1, Invariant, PTL

=============================================================================
