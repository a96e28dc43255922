----------------------------- MODULE MCSheduler -----------------------------
(* Instances of Sheduler for TLC.                                          *)
EXTENDS Sheduler

\* A frame lasts 1: the first interval is over in the next one but one, the second later.
\* One object is told no more than 1, the other the 2 that may have passed.
MCDeltas == {1}
MCIntervals == {1, 2}
MCLongest == [o \in Objects |-> IF o = CHOOSE x \in Objects : TRUE THEN 1 ELSE 2]
=============================================================================
