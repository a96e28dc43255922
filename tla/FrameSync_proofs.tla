--------------------------- MODULE FrameSync_proofs ---------------------------
(***************************************************************************)
(* Proofs about FrameSync, for any delegates and any bound on their number.*)
(***************************************************************************)
EXTENDS FrameSync, SequenceTheorems, TLAPS

-----------------------------------------------------------------------------
(* Sequences.                                                              *)

\* To leave out one position shifts the later ones left: std::vector::erase.
LEMMA EraseType ==
    ASSUME NEW S, NEW s \in Seq(S), NEW i \in 1 .. Len(s)
    PROVE  LET erased == SubSeq(s, 1, i - 1) \o SubSeq(s, i + 1, Len(s))
           IN  /\ erased \in Seq(S)
               /\ Len(erased) = Len(s) - 1
               /\ \A j \in 1 .. Len(s) - 1 : erased[j] = IF j < i THEN s[j] ELSE s[j + 1]
<1> DEFINE front == SubSeq(s, 1, i - 1)
           back == SubSeq(s, i + 1, Len(s))
<1>1. /\ front \in Seq(S) /\ Len(front) = i - 1
      /\ \A j \in 1 .. i - 1 : front[j] = s[j]
  OBVIOUS
<1>2. /\ back \in Seq(S) /\ Len(back) = Len(s) - i
      /\ \A j \in 1 .. Len(s) - i : back[j] = s[i + j]
  OBVIOUS
<1> HIDE DEF front, back
<1>3. /\ front \o back \in Seq(S)
      /\ Len(front \o back) = Len(s) - 1
  BY <1>1, <1>2
<1>4. ASSUME NEW j \in 1 .. Len(s) - 1
      PROVE (front \o back)[j] = IF j < i THEN s[j] ELSE s[j + 1]
  BY <1>1, <1>2
<1> QED
  BY <1>3, <1>4 DEF front, back

LEMMA InitIInv == Init => IInv
<1> SUFFICES ASSUME Init PROVE IInv
  OBVIOUS
<1>1. TypeOK
  <2>1. seqParallel \in Seq(Jobs) /\ pit \in 1 .. Len(seqParallel) + 1
    BY DEF Init
  <2> QED
    BY <2>1 DEF Init, TypeOK
<1>2. Handshake
  BY DEF Init, Handshake, Meets
<1>3. JobsInOrder
  BY DEF Init, JobsInOrder
<1> QED
  BY <1>1, <1>2, <1>3 DEF IInv

\* The delegates change only while the secondary thread waits.
LEMMA SerialIInv ==
    ASSUME IInv, NEW job \in Jobs, PushParallel(job) \/ RemoveParallel(job)
    PROVE  IInv'
<1>1. seqParallel' \in Seq(Jobs)
  <2>1. CASE PushParallel(job)
    <3>1. seqParallel \in Seq(Jobs) /\ <<job>> \in Seq(Jobs)
      BY DEF IInv, TypeOK
    <3>2. Append(seqParallel, job) \in Seq(Jobs) /\ <<job>> \o seqParallel \in Seq(Jobs)
      BY <3>1
    <3> QED
      BY <2>1, <3>2 DEF PushParallel
  <2>2. CASE RemoveParallel(job)
    BY <2>2, EraseType DEF RemoveParallel, RemoveAt, IInv, TypeOK
  <2> QED
    BY <2>1, <2>2
<1>2. /\ primary \in {"pump", "frame"}
      /\ UNCHANGED <<primary, secondary, syncProcessFrame, syncFrameDone, syncThreadExit,
                     mt_bMustExit, pit>>
  BY DEF PushParallel, RemoveParallel, Serial
<1>3. secondary = "wait" /\ ~syncFrameDone /\ pit = 1
  BY <1>2 DEF IInv, Handshake, Meets, JobsInOrder
<1>4. TypeOK'
  BY <1>1, <1>2, <1>3 DEF IInv, TypeOK
<1>5. Handshake'
  BY <1>2 DEF IInv, Handshake, Meets
<1>6. JobsInOrder'
  BY <1>2, <1>3 DEF JobsInOrder
<1> QED
  BY <1>4, <1>5, <1>6 DEF IInv

LEMMA PrimaryIInv == IInv /\ PrimaryStep => IInv'
<1> SUFFICES ASSUME IInv, PrimaryStep PROVE IInv'
  OBVIOUS
<1> USE DEF Primary, PrimaryStep, SpawnThread, StartEventLoop, FrameMove, ProcessFrame,
            Render, FrameEnds, FrameDone, QuitLoop, MustExit, StopThread, Wake, WaitExit,
            Exited, EndEventLoop
<1>1. UNCHANGED <<seqParallel, pit>>
  OBVIOUS
<1>2. TypeOK'
  BY <1>1 DEF IInv, TypeOK
<1>3. Handshake'
  BY DEF IInv, TypeOK, Handshake, Meets
<1>4. JobsInOrder'
  BY <1>1 DEF IInv, TypeOK, Handshake, Meets, JobsInOrder
<1> QED
  BY <1>2, <1>3, <1>4 DEF IInv

LEMMA SecondaryIInv == IInv /\ SecondaryStep => IInv'
<1> SUFFICES ASSUME IInv, SecondaryStep PROVE IInv'
  OBVIOUS
<1> USE DEF Secondary, SecondaryStep, WaitProcessFrame, StartJobs, CallJob, ReturnJob,
            ClearJobs, ProcessMT, SetFrameDone, ClearMustExit, ExitThread
<1>1. TypeOK'
  <2>1. seqParallel' \in Seq(Jobs)
    <3>1. seqParallel' = seqParallel \/ seqParallel' = <<>>
      OBVIOUS
    <3>2. seqParallel \in Seq(Jobs) /\ <<>> \in Seq(Jobs)
      BY DEF IInv, TypeOK
    <3> QED
      BY <3>1, <3>2
  <2>2. pit' \in 1 .. Len(seqParallel') + 1
    BY <2>1 DEF IInv, TypeOK, JobsInOrder
  <2> QED
    BY <2>1, <2>2 DEF IInv, TypeOK
<1>2. Handshake'
  BY DEF IInv, TypeOK, Handshake, Meets
<1>3. JobsInOrder'
  BY DEF IInv, TypeOK, Handshake, Meets, JobsInOrder
<1> QED
  BY <1>1, <1>2, <1>3 DEF IInv

\* The invariant of the two threads.
THEOREM Invariant == Spec => []IInv
<1>1. ASSUME IInv, [Next]_threadVars PROVE IInv'
  <2>1. CASE \E job \in Jobs : PushParallel(job) \/ RemoveParallel(job)
    BY <1>1, <2>1, SerialIInv
  <2>2. CASE PrimaryStep
    BY <1>1, <2>2, PrimaryIInv
  <2>3. CASE SecondaryStep
    BY <1>1, <2>3, SecondaryIInv
  <2>4. CASE UNCHANGED threadVars
    BY <1>1, <2>4 DEF threadVars, IInv, TypeOK, Handshake, Meets, JobsInOrder
  <2> QED
    BY <1>1, <2>1, <2>2, <2>3, <2>4 DEF Next
<1> QED
  BY <1>1, InitIInv, PTL DEF Spec

\* The threads and their list keep their types: the loop over seqParallel never
\* leaves it.
THEOREM TypeCorrect == Spec => []TypeOK
<1>1. IInv => TypeOK
  BY DEF IInv
<1> QED
  BY <1>1, Invariant, PTL

\* EndEventLoop returns, and the device with its events is destroyed, only behind
\* the last use the secondary thread makes of it.
THEOREM DeviceSafe == Spec => []DeviceOutlivesThread
<1>1. IInv => DeviceOutlivesThread
  BY DEF IInv, Handshake, Meets, DeviceOutlivesThread
<1> QED
  BY <1>1, Invariant, PTL

-----------------------------------------------------------------------------
(* The threads implement ForkJoinSpec.                                     *)

Left == SubSeq(seqParallel, pit, Len(seqParallel))
InParallel == primary \in {"render", "wait"}

\* With the loop at its start, all of the list is left.
LEMMA AllLeft ==
    ASSUME NEW S, NEW s \in Seq(S)
    PROVE  SubSeq(s, 1, Len(s)) = s
OBVIOUS

\* A return from a job takes one from what is left.
LEMMA OneLess ==
    ASSUME NEW S, NEW s \in Seq(S), NEW i \in 1 .. Len(s)
    PROVE  /\ SubSeq(s, i, Len(s)) # <<>>
           /\ SubSeq(s, i + 1, Len(s)) = Tail(SubSeq(s, i, Len(s)))
<1> DEFINE left == SubSeq(s, i, Len(s))
<1>1. Len(left) = Len(s) - i + 1
  OBVIOUS
<1>2. Tail(left) = SubSeq(s, i + 1, Len(s))
  BY HeadTailOfSubSeq, Len(s) \in i .. Len(s)
<1> HIDE DEF left
<1>3. left # <<>>
  BY <1>1
<1> QED
  BY <1>2, <1>3 DEF left

\* A delegate that is pushed or removed is so in the work of the serial part.
LEMMA SerialRefines ==
    ASSUME IInv, NEW job \in Jobs, PushParallel(job) \/ RemoveParallel(job)
    PROVE  Frames!Push(job) \/ Frames!Drop
<1>1. Serial /\ UNCHANGED <<primary, pit>> /\ ~InParallel /\ ~InParallel'
  BY DEF PushParallel, RemoveParallel, Serial, InParallel
<1>2. pit = 1 /\ seqParallel \in Seq(Jobs) /\ seqParallel' \in Seq(Jobs)
  BY <1>1, SerialIInv DEF Serial, IInv, TypeOK, Handshake, Meets, JobsInOrder
<1>3. Left = seqParallel /\ Left' = seqParallel'
  BY <1>1, <1>2, AllLeft DEF Left
<1>4. CASE PushParallel(job)
  <2>1. seqParallel' \in {Append(seqParallel, job), <<job>> \o seqParallel}
    BY <1>4 DEF PushParallel
  <2> QED
    BY <1>1, <1>3, <2>1 DEF Frames!Push, Left, InParallel
<1>5. CASE RemoveParallel(job)
  <2>1. PICK k \in 1 .. Len(seqParallel) : seqParallel' = RemoveAt(seqParallel, k)
    BY <1>5 DEF RemoveParallel
  <2>2. seqParallel' = SubSeq(seqParallel, 1, k - 1) \o SubSeq(seqParallel, k + 1, Len(seqParallel))
    BY <2>1 DEF RemoveAt
  <2>3. DOMAIN seqParallel = 1 .. Len(seqParallel)
    BY <1>2
  <2> QED
    BY <1>1, <1>3, <2>2, <2>3 DEF Frames!Drop, Left, InParallel
<1> QED
  BY <1>4, <1>5

LEMMA PrimaryRefines ==
    ASSUME IInv, PrimaryStep
    PROVE  Frames!Fork \/ Frames!Join \/ UNCHANGED Frames!forkVars
<1> USE DEF Primary
<1>1. UNCHANGED <<seqParallel, pit>> /\ Left' = Left
  BY DEF PrimaryStep, SpawnThread, StartEventLoop, FrameMove, ProcessFrame, Render, FrameEnds,
         QuitLoop, MustExit, StopThread, Wake, WaitExit, EndEventLoop, Left
<1>2. CASE ProcessFrame
  BY <1>1, <1>2 DEF ProcessFrame, Frames!Fork, Left
<1>3. CASE FrameEnds
  <2>1. seqParallel = <<>> /\ pit = 1
    BY <1>3 DEF FrameEnds, FrameDone, IInv, Handshake, Meets, JobsInOrder
  <2>2. Left = <<>>
    BY <2>1 DEF Left
  <2> QED
    BY <1>1, <1>3, <2>2 DEF FrameEnds, Frames!Join, Left
<1>4. CASE ~ProcessFrame /\ ~FrameEnds
  <2>1. InParallel' = InParallel
    BY <1>4 DEF PrimaryStep, SpawnThread, StartEventLoop, FrameMove, Render, QuitLoop, MustExit,
                StopThread, WaitExit, EndEventLoop, InParallel
  <2> QED
    BY <1>1, <2>1 DEF Frames!forkVars, Left, InParallel
<1> QED
  BY <1>2, <1>3, <1>4

LEMMA SecondaryRefines ==
    ASSUME IInv, SecondaryStep
    PROVE  Frames!Run \/ UNCHANGED Frames!forkVars
<1> USE DEF Secondary
<1>1. UNCHANGED primary /\ InParallel' = InParallel
  BY DEF SecondaryStep, WaitProcessFrame, StartJobs, CallJob, ReturnJob, ClearJobs, ProcessMT,
         SetFrameDone, ClearMustExit, ExitThread, InParallel
<1>2. CASE ReturnJob
  <2>1. InParallel /\ pit \in 1 .. Len(seqParallel) /\ seqParallel \in Seq(Jobs)
    BY <1>2 DEF ReturnJob, IInv, TypeOK, Handshake, Meets, JobsInOrder, InParallel
  <2>2. Left # <<>> /\ Left' = Tail(Left)
    BY <1>2, <2>1, OneLess DEF ReturnJob, Left
  <2> QED
    BY <1>1, <2>1, <2>2 DEF Frames!Run, Left, InParallel
<1>3. CASE ClearJobs
  <2>1. seqParallel \in Seq(Jobs) /\ pit = Len(seqParallel) + 1
    BY <1>3 DEF ClearJobs, IInv, TypeOK
  <2>2. Left = <<>>
    BY <2>1 DEF Left
  <2>3. Left' = <<>>
    BY <1>3 DEF ClearJobs, Left
  <2> QED
    BY <1>1, <2>2, <2>3 DEF Frames!forkVars, Left, InParallel
<1>4. CASE ~ReturnJob /\ ~ClearJobs
  <2>1. UNCHANGED <<seqParallel, pit>>
    BY <1>4 DEF SecondaryStep, WaitProcessFrame, StartJobs, CallJob, ProcessMT, SetFrameDone,
                ClearMustExit, ExitThread, IInv, JobsInOrder
  <2> QED
    BY <1>1, <2>1 DEF Frames!forkVars, Left, InParallel
<1> QED
  BY <1>2, <1>3, <1>4

\* Each delegate that is pushed and not removed is called once, in order, in the
\* parallel part of the frame, and only the secondary thread touches the list there:
\* the two threads implement ForkJoinSpec.
THEOREM Implements == Spec => ImplementsSpec
<1>1. Init => Frames!ForkInit
  BY DEF Init, Frames!ForkInit
<1>2. IInv /\ [Next]_threadVars => [Frames!ForkNext]_Frames!forkVars
  <2> SUFFICES ASSUME IInv, [Next]_threadVars PROVE [Frames!ForkNext]_Frames!forkVars
    OBVIOUS
  <2>1. CASE \E job \in Jobs : PushParallel(job) \/ RemoveParallel(job)
    BY <2>1, SerialRefines DEF Frames!ForkNext
  <2>2. CASE PrimaryStep
    BY <2>2, PrimaryRefines DEF Frames!ForkNext
  <2>3. CASE SecondaryStep
    BY <2>3, SecondaryRefines DEF Frames!ForkNext
  <2>4. CASE UNCHANGED threadVars
    BY <2>4 DEF threadVars, Frames!forkVars
  <2> QED
    BY <2>1, <2>2, <2>3, <2>4 DEF Next
<1> QED
  BY <1>1, <1>2, Invariant, PTL DEF Spec, ImplementsSpec, Frames!ForkSpec

=============================================================================
