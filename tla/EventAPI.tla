------------------------------- MODULE EventAPI -------------------------------
(***************************************************************************)
(* CEventAPI, xrEngine/EventAPI.cpp: named events shared by reference      *)
(* count, signalled at once or deferred to CEventAPI::OnFrame.  A handler  *)
(* may call every operation again, so signals nest.  The critical section  *)
(* is recursive and is held by OnFrame and Signal throughout: other        *)
(* threads run only where the main thread's own code does.                 *)
(***************************************************************************)
EXTENDS Integers, Sequences, FiniteSets, SequencesExt

CONSTANTS Names,       \* the names of the events
          Receivers,   \* the IEventReceivers
          MaxDeferred, \* bound: events deferred for one frame
          MaxNested    \* bound: signals inside one another

ASSUME EventAPIAssumption == MaxDeferred \in Nat /\ MaxNested \in Nat

VARIABLES
    ref,       \* dwRefCount of the event of a name, 0 when there is none
    handlers,  \* Handlers of the event
    attached,  \* the events a receiver has got from Handler_Attach
    owned,     \* the events got from Create and kept (CContextMenu)
    deferred,  \* Events_Deferred: [name, live], not live once E is deleted
    index,     \* where OnFrame is in Events_Deferred, 0 outside of it
    stack,     \* the running CEvent::Signal calls: [name, pos, by]
    calling    \* the innermost of them is in OnEvent

eventVars == <<ref, handlers, attached, owned, deferred, index, stack, calling>>

Signallers == {"name", "owner", "frame"}

Deferred == [name : Names, live : BOOLEAN]
Signalling == [name : Names, pos : Nat \ {0}, by : Signallers]

TypeOK == /\ ref \in [Names -> Nat]
          /\ handlers \in [Names -> Seq(Receivers)]
          /\ attached \in [Receivers -> SUBSET Names]
          /\ owned \in SUBSET Names
          /\ deferred \in Seq(Deferred)
          /\ index \in 0 .. Len(deferred) + 1
          /\ stack \in Seq(Signalling)
          /\ calling \in BOOLEAN

Init == /\ ref = [n \in Names |-> 0]
        /\ handlers = [n \in Names |-> <<>>]
        /\ attached = [r \in Receivers |-> {}]
        /\ owned = {}
        /\ deferred = <<>> /\ index = 0
        /\ stack = <<>> /\ calling = FALSE

\* Code outside of the API: between frames, or inside a handler.
ClientsTurn == calling \/ (stack = <<>> /\ index = 0)

\* Create: the event of the name, made when there is none.
\* Mutant: the event found is not counted.
Uncounted(n) == [ref EXCEPT ![n] = IF @ = 0 THEN 1 ELSE @]
Acquired(n) == [ref EXCEPT ![n] = @ + 1]

\* Destroy: the event goes with its last reference.
Dies(n) == ref[n] = 1
Released(n) == [ref EXCEPT ![n] = @ - 1]

-----------------------------------------------------------------------------
(* Operations of the clients.                                              *)

\* A client attaches to an event once, in its constructor.
Handler_Attach(n, r) ==
    /\ ClientsTurn
    /\ n \notin attached[r]
    /\ attached' = [attached EXCEPT ![r] = @ \cup {n}]
    /\ ref' = Acquired(n)
    /\ handlers' = [handlers EXCEPT ![n] = IF Contains(@, r) THEN @ ELSE Append(@, r)]
    /\ UNCHANGED <<owned, deferred, index, stack, calling>>

\* Erasing moves the later handlers down, also under a running Signal.
Handler_Detach(n, r) ==
    /\ ClientsTurn
    /\ n \in attached[r]
    /\ attached' = [attached EXCEPT ![r] = @ \ {n}]
    /\ ref' = Released(n)
    /\ handlers' = [handlers EXCEPT ![n] = IF Dies(n) THEN <<>> ELSE RemoveFirst(@, r)]
    /\ UNCHANGED <<owned, deferred, index, stack, calling>>

Create(n) == /\ ClientsTurn
             /\ n \notin owned
             /\ owned' = owned \cup {n}
             /\ ref' = Acquired(n)
             /\ UNCHANGED <<handlers, attached, deferred, index, stack, calling>>

\* The owner does not let go of the event while its own Signal of it runs.
Destroy(n) == /\ ClientsTurn
              /\ n \in owned
              /\ \A k \in DOMAIN stack : stack[k].by = "owner" => stack[k].name # n
              /\ owned' = owned \ {n}
              /\ ref' = Released(n)
              /\ handlers' = [handlers EXCEPT ![n] = IF Dies(n) THEN <<>> ELSE @]
              /\ UNCHANGED <<attached, deferred, index, stack, calling>>

\* Defer by name: the reference of its Create becomes the one of the entry.
Defer(n) == /\ ClientsTurn
            /\ Len(deferred) < MaxDeferred
            /\ deferred' = Append(deferred, [name |-> n, live |-> TRUE])
            /\ ref' = Acquired(n)
            /\ UNCHANGED <<handlers, attached, owned, index, stack, calling>>

\* Signal by name holds a reference, Signal by EVENT relies on its owner's.
Signal(n, by) ==
    /\ ClientsTurn
    /\ Len(stack) < MaxNested
    /\ by = "owner" => n \in owned
    /\ ref' = IF by = "name" THEN Acquired(n) ELSE ref
    /\ stack' = Append(stack, [name |-> n, pos |-> 1, by |-> by])
    /\ calling' = FALSE
    /\ UNCHANGED <<handlers, attached, owned, deferred, index>>

-----------------------------------------------------------------------------
(* CEvent::Signal: the loop over Handlers.                                 *)

Top == stack[Len(stack)]

InLoop == stack # <<>> /\ ~calling

Call == /\ InLoop
        /\ Top.pos <= Len(handlers[Top.name])
        /\ calling' = TRUE
        /\ UNCHANGED <<ref, handlers, attached, owned, deferred, index, stack>>

Return == /\ calling
          /\ calling' = FALSE
          /\ stack' = [stack EXCEPT ![Len(stack)].pos = @ + 1]
          /\ UNCHANGED <<ref, handlers, attached, owned, deferred, index>>

\* What the Destroy after a Signal by name or from OnFrame lets go of.
\* Mutant: OnFrame keeps the reference of the entry.
ReleasesByName(by) == by = "name"
Releases(by) == by # "owner"

EndSignal ==
    /\ InLoop
    /\ Top.pos > Len(handlers[Top.name])
    /\ IF Releases(Top.by)
       THEN /\ ref' = Released(Top.name)
            /\ handlers' = [handlers EXCEPT ![Top.name] = IF Dies(Top.name) THEN <<>> ELSE @]
       ELSE UNCHANGED <<ref, handlers>>
    /\ IF Top.by = "frame"
       THEN /\ deferred' = [deferred EXCEPT ![index].live = ~Dies(Top.name)]
            /\ index' = index + 1
       ELSE UNCHANGED <<deferred, index>>
    /\ stack' = Front(stack)
    /\ calling' = (Len(stack) > 1)
    /\ UNCHANGED <<attached, owned>>

-----------------------------------------------------------------------------
(* CEventAPI::OnFrame.                                                     *)

OnFrame == /\ index = 0 /\ stack = <<>>
           /\ deferred # <<>>
           /\ index' = 1
           /\ UNCHANGED <<ref, handlers, attached, owned, deferred, stack, calling>>

\* Mutant: the loop stops before the last event.
LeftButLast(k) == k < Len(deferred)
Left(k) == k <= Len(deferred)

SignalDeferred ==
    /\ index > 0 /\ stack = <<>>
    /\ Left(index)
    /\ stack' = <<[name |-> deferred[index].name, pos |-> 1, by |-> "frame"]>>
    /\ UNCHANGED <<ref, handlers, attached, owned, deferred, index, calling>>

EndFrame == /\ index > 0 /\ stack = <<>>
            /\ ~Left(index)
            /\ deferred' = <<>>
            /\ index' = 0
            /\ UNCHANGED <<ref, handlers, attached, owned, stack, calling>>

Next == \/ \E n \in Names : \/ \E r \in Receivers : Handler_Attach(n, r) \/ Handler_Detach(n, r)
                            \/ Create(n) \/ Destroy(n)
                            \/ Defer(n)
                            \/ Signal(n, "name") \/ Signal(n, "owner")
        \/ Call \/ Return \/ EndSignal
        \/ OnFrame \/ SignalDeferred \/ EndFrame

Spec == Init /\ [][Next]_eventVars

-----------------------------------------------------------------------------
(* Properties.                                                             *)

\* The entries of Events_Deferred that hold a reference to the event.
Undelivered(n) == {k \in DOMAIN deferred : k >= index /\ deferred[k].name = n}

Attached(n) == {r \in Receivers : n \in attached[r]}

SignalsByName(n) == {k \in DOMAIN stack : stack[k].name = n /\ stack[k].by = "name"}

\* The count of an event is the number of those that hold it: receivers,
\* owner, undelivered entries and signals by name.  So no event is leaked, and
\* none is deleted while a signal loops over its handlers or an entry waits for it.
\* Exactly the attached receivers are handlers, each once, whatever handlers call.
RefExact ==
    \A n \in Names :
        /\ ref[n] = Cardinality(Attached(n)) + (IF n \in owned THEN 1 ELSE 0)
                    + Cardinality(Undelivered(n)) + Cardinality(SignalsByName(n))
        /\ \A k \in DOMAIN stack : stack[k].name = n => ref[n] > 0
        /\ ToSet(handlers[n]) = Attached(n)
        /\ IsInjective(handlers[n])

InFrame == stack # <<>> /\ stack[1].by = "frame"

\* OnFrame and the signals inside one another: the outermost signal of a frame is that
\* of the entry OnFrame is at, and an owner keeps the event it signals.
Running ==
    /\ calling => stack # <<>>
    /\ index > 0 => deferred # <<>>
    /\ index > 0 /\ stack # <<>> => InFrame
    /\ InFrame => index \in DOMAIN deferred /\ deferred[index].name = stack[1].name
    /\ \A k \in DOMAIN stack : /\ stack[k].by = "frame" => k = 1
                               /\ stack[k].by = "owner" => stack[k].name \in owned

\* The inductive invariant of the proofs.
IInv == TypeOK /\ RefExact /\ Running /\ \A n \in Names : IsFiniteSet(Attached(n))

Queue == INSTANCE EventQueueSpec WITH
            deferred <- [k \in DOMAIN deferred |-> deferred[k].name],
            next <- IF InFrame \/ index = 0 THEN index ELSE index - 1,
            delivering <- InFrame

\* Each deferred event is signalled once and in order, and none is lost.
ImplementsSpec == Queue!QueueSpec
=============================================================================
