---------------------------- MODULE EventQueueSpec ----------------------------
(***************************************************************************)
(* What CEventAPI promises of deferred events: each is delivered once, in  *)
(* the order of Defer, events that handlers defer during the frame         *)
(* included, and none is forgotten when the frame ends.                    *)
(***************************************************************************)
EXTENDS Naturals, Sequences

CONSTANTS Names,       \* the names of the events
          MaxDeferred  \* bound: the events deferred for one frame

VARIABLES deferred,    \* the events of this frame, delivered ones included
          next,        \* how many of them have been delivered or begun
          delivering   \* the last begun is being delivered

queueVars == <<deferred, next, delivering>>

QueueInit == deferred = <<>> /\ next = 0 /\ delivering = FALSE

Idle == next = 0

\* Only a handler runs while the frame's events are delivered.
DeferAll(events) == /\ Idle \/ delivering
                    /\ Len(deferred) + Len(events) <= MaxDeferred
                    /\ deferred' = deferred \o events
                    /\ UNCHANGED <<next, delivering>>

Begin == /\ ~delivering
         /\ next < Len(deferred)
         /\ next' = next + 1
         /\ delivering' = TRUE
         /\ UNCHANGED deferred

End == /\ delivering
       /\ delivering' = FALSE
       /\ UNCHANGED <<deferred, next>>

Clear == /\ ~delivering
         /\ next > 0 /\ next = Len(deferred)
         /\ deferred' = <<>>
         /\ next' = 0
         /\ UNCHANGED delivering

\* Peek looks at the whole frame, delivered events included.
Peek(n) == \E k \in DOMAIN deferred : deferred[k] = n

QueueNext == \/ \E n \in Names : DeferAll(<<n>>)
             \/ Begin \/ End \/ Clear

QueueSpec == QueueInit /\ [][QueueNext]_queueVars
=============================================================================
