------------------------------ MODULE MirrorSpec ------------------------------
(***************************************************************************)
(* What the server promises its client: the client sees the changes of one *)
(* tree of entities, each of them legal where it is made and where it      *)
(* arrives, once and in the order in which they were made.                 *)
(***************************************************************************)
EXTENDS Naturals, Sequences, SequencesExt

CONSTANTS Entities,
          Owners,   \* may hold others
          Absent, Free

VARIABLES world,    \* where each entity is on the server: Absent, Free or an owner
          mirror,   \* the same on the client
          log       \* changes the client has not seen: [e |-> entity, to |-> place]

mirrorVars == <<world, mirror, log>>

Places == {Absent, Free} \cup Owners

MirrorInit == /\ world \in [Entities -> Places]
              /\ mirror = world
              /\ log = <<>>

\* An entity appears free or in the hands of an owner, changes hands only by way of
\* the free state and disappears from there, and only when it holds nothing.
Legal(tree, c) ==
    /\ tree[c.e] # c.to
    /\ c.to \in Owners => c.to # c.e /\ tree[c.to] # Absent /\ tree[c.e] \in {Absent, Free}
    /\ c.to = Absent => tree[c.e] = Free /\ \A e \in Entities : tree[e] # c.e

Apply(tree, c) == [tree EXCEPT ![c.e] = c.to]

AfterFirst(changes, k) == FoldLeft(Apply, world, SubSeq(changes, 1, k))

\* The server makes any number of changes in one go.
Change ==
    /\ IsPrefix(log, log')
    /\ LET made == SubSeq(log', Len(log) + 1, Len(log'))
       IN  /\ \A k \in DOMAIN made : Legal(AfterFirst(made, k - 1), made[k])
           /\ world' = AfterFirst(made, Len(made))
    /\ UNCHANGED mirror

\* The client sees the next one; what it cannot do it asks the server to undo.
Deliver ==
    /\ log # <<>>
    /\ Legal(mirror, Head(log))
    /\ mirror' = Apply(mirror, Head(log))
    /\ \/ world' = world /\ log' = Tail(log)
       \/ LET back == [e |-> Head(log).e, to |-> Free]
          IN  /\ Head(log).to \in Owners
              /\ Legal(world, back)
              /\ world' = Apply(world, back)
              /\ log' = Append(Tail(log), back)

MirrorNext == Change \/ Deliver

MirrorSpecification == MirrorInit /\ [][MirrorNext]_mirrorVars
=============================================================================
