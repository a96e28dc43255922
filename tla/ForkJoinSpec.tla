----------------------------- MODULE ForkJoinSpec -----------------------------
(***************************************************************************)
(* What the two-thread frame promises: the work handed over in the serial  *)
(* part of a frame is done once and in order in the parallel part, and the *)
(* serial part, where the list of work may be touched, resumes when all of *)
(* it is done.                                                             *)
(***************************************************************************)
EXTENDS Naturals, Sequences

CONSTANTS Jobs

VARIABLES todo,      \* the work that is left, in order
          parallel   \* the parallel part of the frame

forkVars == <<todo, parallel>>

ForkInit == todo = <<>> /\ parallel = FALSE

\* New work comes at the back or, from the renderer, at the front.
Push(job) == /\ ~parallel
             /\ todo' \in {Append(todo, job), <<job>> \o todo}
             /\ UNCHANGED parallel

Drop == /\ ~parallel
        /\ \E k \in DOMAIN todo : todo' = SubSeq(todo, 1, k - 1) \o SubSeq(todo, k + 1, Len(todo))
        /\ UNCHANGED parallel

Fork == /\ ~parallel
        /\ parallel' = TRUE
        /\ UNCHANGED todo

Run == /\ parallel
       /\ todo # <<>>
       /\ todo' = Tail(todo)
       /\ UNCHANGED parallel

Join == /\ parallel
        /\ todo = <<>>
        /\ parallel' = FALSE
        /\ UNCHANGED todo

ForkNext == (\E job \in Jobs : Push(job)) \/ Drop \/ Fork \/ Run \/ Join

ForkSpec == ForkInit /\ [][ForkNext]_forkVars
=============================================================================
