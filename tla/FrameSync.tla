------------------------------ MODULE FrameSync -------------------------------
(***************************************************************************)
(* The primary and the secondary thread of CRenderDevice, device.cpp: once *)
(* per frame the primary thread hands seqParallel and seqFrameMT to the    *)
(* secondary, renders, and waits for it; EndEventLoop stops it.  The three *)
(* Events are Win32 auto-reset events: Set of a set event has no effect,   *)
(* and one waiter takes it.                                                *)
(***************************************************************************)
EXTENDS Integers, Sequences, SequencesExt

CONSTANTS Jobs,     \* the delegates pushed into seqParallel
          MaxJobs   \* bound: the length of seqParallel

ASSUME FrameSyncAssumption == MaxJobs \in Nat

VARIABLES
    primary,           \* where the primary thread is
    secondary,         \* where the secondary thread is
    syncProcessFrame,  \* the three events
    syncFrameDone,
    syncThreadExit,
    mt_bMustExit,      \* mt_bMustExit
    seqParallel,       \* seqParallel
    pit                \* the loop over it

threadVars == <<primary, secondary, syncProcessFrame, syncFrameDone, syncThreadExit,
                mt_bMustExit, seqParallel, pit>>

TypeOK ==
    /\ primary \in {"prepare", "starting", "pump", "frame", "render", "wait",
                    "end", "stop", "exit", "spin", "done"}
    /\ secondary \in {"unborn", "wait", "woken", "loop", "call", "mt", "set",
                      "cleared", "done"}
    /\ syncProcessFrame \in BOOLEAN /\ syncFrameDone \in BOOLEAN
    /\ syncThreadExit \in BOOLEAN /\ mt_bMustExit \in BOOLEAN
    /\ seqParallel \in Seq(Jobs)
    /\ pit \in 1 .. Len(seqParallel) + 1

Init == /\ primary = "prepare" /\ secondary = "unborn"
        /\ syncProcessFrame = FALSE /\ syncFrameDone = FALSE /\ syncThreadExit = FALSE
        /\ mt_bMustExit = FALSE
        /\ seqParallel = <<>> /\ pit = 1

-----------------------------------------------------------------------------
(* The primary thread.                                                     *)

Primary(from, to) == primary = from /\ primary' = to

\* PrepareEventLoop starts the thread and clears the flag some time later.
SpawnThread == /\ Primary("prepare", "starting")
               /\ secondary' = "wait"
               /\ UNCHANGED <<syncProcessFrame, syncFrameDone, syncThreadExit, mt_bMustExit,
                              seqParallel, pit>>

StartEventLoop == /\ Primary("starting", "pump")
                  /\ mt_bMustExit' = FALSE
                  /\ UNCHANGED <<secondary, syncProcessFrame, syncFrameDone, syncThreadExit,
                                 seqParallel, pit>>

\* Window messages, loading steps and FrameMove push and remove delegates.
Serial == primary \in {"pump", "frame"}

PushParallel(job) ==
    /\ Serial
    /\ Len(seqParallel) < MaxJobs
    /\ seqParallel' \in {Append(seqParallel, job), <<job>> \o seqParallel}
    /\ UNCHANGED <<primary, secondary, syncProcessFrame, syncFrameDone, syncThreadExit,
                   mt_bMustExit, pit>>

\* Only the first of equal delegates is erased.
RemoveParallel(job) ==
    /\ Serial
    /\ \E k \in 1 .. Len(seqParallel) :
          /\ seqParallel[k] = job /\ \A j \in 1 .. k - 1 : seqParallel[j] # job
          /\ seqParallel' = RemoveAt(seqParallel, k)
    /\ UNCHANGED <<primary, secondary, syncProcessFrame, syncFrameDone, syncThreadExit,
                   mt_bMustExit, pit>>

\* An iteration with loading steps or without a device ends without the secondary.
FrameMove == /\ Primary("pump", "frame")
             /\ UNCHANGED <<secondary, syncProcessFrame, syncFrameDone, syncThreadExit,
                            mt_bMustExit, seqParallel, pit>>

ProcessFrame == /\ Primary("frame", "render")
                /\ syncProcessFrame' = TRUE
                /\ UNCHANGED <<secondary, syncFrameDone, syncThreadExit, mt_bMustExit,
                               seqParallel, pit>>

\* Mutant: the event is reset before it is waited for.
RenderAndReset == /\ Primary("render", "wait")
                  /\ syncFrameDone' = FALSE
                  /\ UNCHANGED <<secondary, syncProcessFrame, syncThreadExit,
                                 mt_bMustExit, seqParallel, pit>>

Render == /\ Primary("render", "wait")
          /\ UNCHANGED <<secondary, syncProcessFrame, syncFrameDone, syncThreadExit,
                         mt_bMustExit, seqParallel, pit>>

\* Mutant: the frame ends without waiting.
AnyTime == TRUE
FrameDone == syncFrameDone

FrameEnds == /\ Primary("wait", "pump")
             /\ FrameDone
             /\ syncFrameDone' = FALSE
             /\ UNCHANGED <<secondary, syncProcessFrame, syncThreadExit, mt_bMustExit,
                            seqParallel, pit>>

\* WM_QUIT, then EndEventLoop.
QuitLoop == /\ Primary("pump", "end")
            /\ UNCHANGED <<secondary, syncProcessFrame, syncFrameDone, syncThreadExit,
                           mt_bMustExit, seqParallel, pit>>

MustExit == /\ Primary("end", "stop")
            /\ mt_bMustExit' = TRUE
            /\ UNCHANGED <<secondary, syncProcessFrame, syncFrameDone, syncThreadExit,
                           seqParallel, pit>>

Wake == syncProcessFrame' = TRUE

StopThread == /\ Primary("stop", "exit")
              /\ Wake
              /\ UNCHANGED <<secondary, syncFrameDone, syncThreadExit, mt_bMustExit,
                             seqParallel, pit>>

\* Mutant: only the flag is waited for.
FlagOnly == TRUE
Exited == syncThreadExit
WaitExit == /\ Primary("exit", "spin")
            /\ Exited
            /\ syncThreadExit' = FALSE
            /\ UNCHANGED <<secondary, syncProcessFrame, syncFrameDone, mt_bMustExit,
                           seqParallel, pit>>

EndEventLoop == /\ Primary("spin", "done")
                /\ ~mt_bMustExit
                /\ UNCHANGED <<secondary, syncProcessFrame, syncFrameDone, syncThreadExit,
                               mt_bMustExit, seqParallel, pit>>

PrimaryStep == \/ SpawnThread \/ StartEventLoop
               \/ FrameMove \/ ProcessFrame \/ Render \/ FrameEnds
               \/ QuitLoop \/ MustExit \/ StopThread \/ WaitExit \/ EndEventLoop

-----------------------------------------------------------------------------
(* SecondaryThreadProc.                                                    *)

Secondary(from, to) == secondary = from /\ secondary' = to

WaitProcessFrame == /\ Secondary("wait", "woken")
                    /\ syncProcessFrame
                    /\ syncProcessFrame' = FALSE
                    /\ UNCHANGED <<primary, syncFrameDone, syncThreadExit, mt_bMustExit,
                                   seqParallel, pit>>

StartJobs == /\ Secondary("woken", "loop")
             /\ ~mt_bMustExit
             /\ pit' = 1
             /\ UNCHANGED <<primary, syncProcessFrame, syncFrameDone, syncThreadExit,
                            mt_bMustExit, seqParallel>>

\* A job is done when its call returns.
CallJob == /\ Secondary("loop", "call")
           /\ pit <= Len(seqParallel)
           /\ UNCHANGED <<primary, syncProcessFrame, syncFrameDone, syncThreadExit,
                          mt_bMustExit, seqParallel, pit>>

ReturnJob == /\ Secondary("call", "loop")
             /\ pit' = pit + 1
             /\ UNCHANGED <<primary, syncProcessFrame, syncFrameDone, syncThreadExit,
                            mt_bMustExit, seqParallel>>

ClearJobs == /\ Secondary("loop", "mt")
             /\ pit > Len(seqParallel)
             /\ seqParallel' = <<>>
             /\ pit' = 1
             /\ UNCHANGED <<primary, syncProcessFrame, syncFrameDone, syncThreadExit,
                            mt_bMustExit>>

\* seqFrameMT.Process; see Registrator.
ProcessMT == /\ Secondary("mt", "set")
             /\ UNCHANGED <<primary, syncProcessFrame, syncFrameDone, syncThreadExit,
                            mt_bMustExit, seqParallel, pit>>

SetFrameDone == /\ Secondary("set", "wait")
                /\ syncFrameDone' = TRUE
                /\ UNCHANGED <<primary, syncProcessFrame, syncThreadExit, mt_bMustExit,
                               seqParallel, pit>>

ClearMustExit == /\ Secondary("woken", "cleared")
                 /\ mt_bMustExit
                 /\ mt_bMustExit' = FALSE
                 /\ UNCHANGED <<primary, syncProcessFrame, syncFrameDone, syncThreadExit,
                                seqParallel, pit>>

ExitThread == /\ Secondary("cleared", "done")
              /\ syncThreadExit' = TRUE
              /\ UNCHANGED <<primary, syncProcessFrame, syncFrameDone, mt_bMustExit,
                             seqParallel, pit>>

SecondaryStep == \/ WaitProcessFrame \/ StartJobs \/ CallJob \/ ReturnJob
                 \/ ClearJobs \/ ProcessMT \/ SetFrameDone
                 \/ ClearMustExit \/ ExitThread

-----------------------------------------------------------------------------

Next == \/ \E job \in Jobs : PushParallel(job) \/ RemoveParallel(job)
        \/ PrimaryStep
        \/ SecondaryStep

Spec == Init /\ [][Next]_threadVars

\* Both threads are scheduled and jobs return; WM_QUIT need not come.
Fairness == /\ WF_threadVars(PrimaryStep /\ ~QuitLoop)
            /\ WF_threadVars(SecondaryStep)

LiveSpec == Spec /\ Fairness

-----------------------------------------------------------------------------
(* Properties.                                                             *)

\* The secondary thread at one of its places, and which signals are set then.
Meets(places, process, done, exit, must) ==
    /\ secondary \in places
    /\ syncProcessFrame = process /\ syncFrameDone = done
    /\ syncThreadExit = exit /\ mt_bMustExit = must

\* Where the two threads may be together: at most one signal is under way, and it
\* goes to the thread that waits for it.
Handshake ==
    /\ primary = "prepare" => Meets({"unborn"}, FALSE, FALSE, FALSE, FALSE)
    /\ primary \in {"starting", "pump", "frame", "end"} => Meets({"wait"}, FALSE, FALSE, FALSE, FALSE)
    /\ primary \in {"render", "wait"} =>
          \/ Meets({"wait"}, TRUE, FALSE, FALSE, FALSE)
          \/ Meets({"woken", "loop", "call", "mt", "set"}, FALSE, FALSE, FALSE, FALSE)
          \/ Meets({"wait"}, FALSE, TRUE, FALSE, FALSE)
    /\ primary = "stop" => Meets({"wait"}, FALSE, FALSE, FALSE, TRUE)
    /\ primary = "exit" =>
          \/ Meets({"wait"}, TRUE, FALSE, FALSE, TRUE)
          \/ Meets({"woken"}, FALSE, FALSE, FALSE, TRUE)
          \/ Meets({"cleared"}, FALSE, FALSE, FALSE, FALSE)
          \/ Meets({"done"}, FALSE, FALSE, TRUE, FALSE)
    /\ primary \in {"spin", "done"} => Meets({"done"}, FALSE, FALSE, FALSE, FALSE)

\* The loop over seqParallel is where it should be, and has emptied it when the
\* frame is reported done.
JobsInOrder ==
    /\ secondary \notin {"loop", "call"} => pit = 1
    /\ secondary = "call" => pit <= Len(seqParallel)
    /\ secondary \in {"mt", "set"} \/ syncFrameDone => seqParallel = <<>>

\* The inductive invariant behind the properties below.
IInv == TypeOK /\ Handshake /\ JobsInOrder

Frames == INSTANCE ForkJoinSpec WITH
             todo <- SubSeq(seqParallel, pit, Len(seqParallel)),
             parallel <- primary \in {"render", "wait"}

\* Every delegate pushed before a frame and not removed is called once in it, in
\* order, and the list is touched by one thread at a time.
ImplementsSpec == Frames!ForkSpec

\* EndEventLoop returns only when the thread has made its last use of the device,
\* whose events are destroyed next.
DeviceOutlivesThread == primary = "done" => secondary = "done"

\* No wake-up is lost: every frame that is handed over ends, and so does the handshake
\* of EndEventLoop.
WaitsEnd == /\ primary = "render" ~> primary = "pump"
            /\ primary = "end" ~> primary = "done"
=============================================================================
