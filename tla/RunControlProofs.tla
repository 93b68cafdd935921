-------------------------- MODULE RunControlProofs --------------------------
(***************************************************************************)
(* The threads of rcdaq.cc keep out of each other's way under the rules    *)
(* that CalmOperation names, for every number of trigger loops, readlist,  *)
(* capacity and bound.  ControlInv is proved action by action; the safety  *)
(* properties of the control part follow from it.                          *)
(***************************************************************************)
EXTENDS RunControl, BufferExchangeProofs, FiniteSetTheorems

-----------------------------------------------------------------------------
(* The inductive invariant behind ReadoutsDontOverlap and RoomForRunData.   *)

\* What keeps the threads apart: one thread takes commands, disable_trigger()
\* sleeps long enough, runs end by daq_end or else by themselves, and daq_begin
\* waits for the last trigger loop and for whatever the other rules do not cover.
CalmOperation ==
    /\ \E c : Cmds = {c}
    /\ SleepCovers /\ LoopsEnd
    /\ max_events = 0 \/ (BeginWaits /\ "daq_end" \notin Commands)
    /\ BeginWaits \/ "daq_fake_trigger" \notin Commands

BeginPlaces == {"open", "count", "prepare", "begrun"}
EndPlaces   == {"endrun", "flush", "close", "reset"}

\* Which function a thread is in says where it can be.  EventLoop begins no
\* run and the command threads roll none over.
JobPlaces ==
    /\ \A c \in Cmds :
        \/ job[c] = "none"  /\ pc[c] \in {"idle", "create", "fake"}
        \/ job[c] = "begin" /\ pc[c] \in BeginPlaces
        \/ job[c] = "end"   /\ pc[c] \in EndPlaces \cup {"sleep"} /\ max_events = 0
    /\ \/ job[evt] = "none" /\ pc[evt] \in {"idle", "reading", "rollOver"}
       \/ job[evt] = "none" /\ pc[evt] = "autoEnd" /\ max_events > 0
       \/ job[evt] = "end"  /\ pc[evt] \in EndPlaces \cup {"sleep"} /\ max_events > 0
       \/ job[evt] = "roll" /\ pc[evt] \in BeginPlaces \cup EndPlaces
    /\ rstatus = 1 => max_events > 0

\* A thread is inside readout() or switch_buffer() only where it called them.
BusyPlaces == \A t \in Threads : Busy(t) => pc[t] \in {"begrun", "endrun", "flush", "reading"}

\* While a command thread begins a run, EventLoop and the trigger loops rest.
BeginAlone ==
    \A c \in Cmds : job[c] = "begin" =>
        pc[evt] = "idle" /\ TriggerSem = 0 /\ \A l \in Loops : loop[l] = "none"

\* DAQ_RUNNING is set in daq_begin() until daq_end() is past its sleep, and
\* EventLoop does nothing without it unless it ends the run itself.
RunningPlaces ==
    /\ \A c \in Cmds : job[c] = "begin" /\ pc[c] \in {"prepare", "begrun"} => Running
    /\ \A t \in Threads : pc[t] = "sleep" => Running
    /\ \A t \in Threads : job[t] = "end" /\ pc[t] \in EndPlaces => ~Running
    /\ \A c \in Cmds : pc[c] = "create" => ~Running
    /\ max_events = 0 /\ ~Running => pc[evt] = "idle"

OneLoop == \A l, m \in Loops : loop[l] # "none" /\ loop[m] # "none" => l = m

\* Without fake triggers, the trigger a loop waits for is in one place:
\* announced, being read out, or done.
TriggerToken ==
    "daq_fake_trigger" \notin Commands =>
        /\ \A c \in Cmds : pc[c] # "fake"
        /\ (\E l \in Loops : loop[l] = "wait") <=>
                TriggerSem = 1 \/ TriggerDone = 1 \/ pc[evt] = "reading"
        /\ TriggerSem = 1 => TriggerDone = 0 /\ pc[evt] # "reading"
                             /\ Trigger_Todo = "DAQ_READ"
        /\ TriggerDone = 1 => pc[evt] # "reading"

ControlTypes ==
    /\ Running \in BOOLEAN /\ TriggerSem \in {0, 1} /\ TriggerDone \in {0, 1}
    /\ rd \in [Threads -> {"out", "nextEvent", "retry", "addSubevents"}]
    /\ sw \in [Threads -> {"out", "lockWrite", "lockSend", "swap", "unlockWrite",
                           "unlockSend"}]
    /\ pc \in [Threads -> {"idle", "open", "count", "prepare", "begrun", "sleep", "endrun",
                           "flush", "close", "reset", "reading", "autoEnd", "rollOver",
                           "fake", "create"}]
    /\ job \in [Threads -> {"none", "begin", "end", "roll"}]
    /\ loop \in [Loops -> {"none", "check", "fire", "wait"}]
    /\ rstatus \in 0 .. 2

ControlInv ==
    /\ ControlTypes /\ JobPlaces /\ BusyPlaces /\ BeginAlone /\ RunningPlaces
    /\ OneLoop /\ TriggerToken

\* While a run is active the sizes are those of the readlist.  EventLoop reads
\* data and rolls over in an active run only, and what is read behind it is the
\* end-run event.
SizesKnown ==
    /\ Running /\ (\A c \in Cmds : pc[c] # "prepare") => Eventsize = DeviceList
    /\ pc[evt] \in {"reading", "rollOver"} \/ job[evt] = "roll" => Running
    /\ etype \in [Threads -> EventTypes]
    /\ \A t \in Threads : pc[t] \in {"endrun", "flush"} => etype[t] = ENDRUNEVENT

-----------------------------------------------------------------------------
(* The inductive invariant behind RCTypeOK and ClosedFilesKept.             *)

\* A rollover has a run number to go on with, within the bound of the model.
RollFits ==
    /\ pc[evt] = "reading" /\ rd[evt] = "out" /\ rstatus = 2 => TheRun < RunBound
    /\ pc[evt] = "rollOver" => TheRun < RunBound
    /\ job[evt] = "roll" /\ pc[evt] \in EndPlaces => TheRun < RunBound

\* What the double buffer needs of its clients, and the open event in it.
BufferTypes ==
    /\ WriteSem \in {0, 1} /\ SendSem \in {0, 1}
    /\ WriteProtectSem \in {0, 1} /\ SendProtectSem \in {0, 1}
    /\ fillBuffer \in Buffers /\ transportBuffer \in Buffers
    /\ header \in [Buffers -> Event \cup {NoEvent}]
    /\ has_end \in [Buffers -> {0, 1}]
    /\ Bufseq \in [Buffers -> Nat] /\ Runnr \in [Buffers -> Nat]
    /\ Buffer_number \in Nat /\ Event_number \in Nat
    /\ etype \in [Threads -> EventTypes]
    /\ writer \in {"wait", "writing"} /\ wbuf \in Buffers
    /\ sender \in {"wait", "sending"} /\ sbuf \in Buffers /\ snum \in Nat
    /\ file \in [Fds -> Seq(Event)] /\ fileBufs \in [Fds -> Seq(Nat)]
    /\ monitored \in Seq(Event) /\ accepted \in Seq(Event)
    /\ \A t \in Threads : rd[t] = "addSubevents" =>
            HasRoom(fillBuffer) /\ header[fillBuffer] \in Event

\* outfile_fd and file_is_open agree.
OpenAgrees == file_is_open <=> outfile_fd # 0

\* The writer works on the file that is open, or on none; it is at rest while
\* that file is being closed.
WriterFile ==
    /\ writer = "writing" => wfd \in {0, outfile_fd}
    /\ \A t \in Threads : pc[t] = "close" => WriteProtectSem = 1
    /\ \A t \in Threads : pc[t] \in {"open", "count", "prepare"} => TheRun > 0

HandOverInv ==
    /\ ControlInv /\ RCTypeOK /\ BufferTypes /\ RollFits /\ OpenAgrees
    /\ WriterFile /\ Exclusive /\ WriteToken /\ SendToken

-----------------------------------------------------------------------------
USE DEF semVars, bufVars, countVars, runVars, writerVars, senderVars, triggerVars, readlist,
        runFlags, rcVars

\* With one command thread, there are two threads that read out.
LEMMA TwoThreads ==
    ASSUME CalmOperation
    PROVE  \E c : Cmds = {c} /\ Threads = {evt, c} /\ c # evt
BY RunControlAssumption DEF CalmOperation

\* What rcdaq_init() leaves behind is calm.
LEMMA ControlInit == RCInit => ControlInv
<1> SUFFICES ASSUME RCInit PROVE ControlInv
  OBVIOUS
<1>0. evt \in Threads /\ Cmds \subseteq Threads
  BY RunControlAssumption
<1>1. ControlTypes
  <2>1. Running \in BOOLEAN
    BY DEF RCInit
  <2>2. /\ TriggerSem \in {0, 1} /\ TriggerDone \in {0, 1} /\ rstatus \in 0 .. 2
        /\ rd = [t \in Threads |-> "out"] /\ sw = [t \in Threads |-> "out"]
        /\ pc = [t \in Threads |-> "idle"] /\ job = [t \in Threads |-> "none"]
        /\ loop = [l \in Loops |-> "none"]
    BY DEF RCInit
  <2> QED
    BY <2>1, <2>2 DEF ControlTypes
<1>a. /\ \A t \in Threads : pc[t] = "idle" /\ job[t] = "none"
      /\ \A l \in Loops : loop[l] = "none"
  BY DEF RCInit
<1>2. JobPlaces /\ BusyPlaces /\ BeginAlone
  BY <1>0 DEF RCInit, JobPlaces, BusyPlaces, Busy, BeginAlone
<1>3. RunningPlaces
  BY <1>0, <1>a DEF RunningPlaces
<1>4. OneLoop /\ TriggerToken
  BY <1>0 DEF RCInit, OneLoop, TriggerToken
<1> QED
  BY <1>1, <1>2, <1>3, <1>4 DEF ControlInv

-----------------------------------------------------------------------------
\* The steps of daq_begin() and of the second half of a rollover.
LEMMA BeginControl ==
    ASSUME CalmOperation, ControlInv, NEW t \in Threads, BeginStep(t)
    PROVE  ControlInv'
<1> USE DEF ControlInv, ControlTypes, JobPlaces, BusyPlaces, BeginAlone, RunningPlaces, OneLoop,
            TriggerToken, BeginPlaces, EndPlaces, Goto, Finish, Busy, EnterReadout
<1>0. PICK c : Cmds = {c} /\ Threads = {evt, c} /\ c # evt
  BY TwoThreads
<1>1. CASE OpenFile(t)
  BY <1>0, <1>1 DEF OpenFile
<1>2. CASE OpenFails(t)
  BY <1>0, <1>2 DEF OpenFails
<1>3. CASE StartCounting(t)
  <2>1. CASE t = c
    <3>1. Running' = TRUE
      BY <1>0, <1>3, <2>1 DEF StartCounting
    <3> QED
      BY <1>0, <1>3, <2>1, <3>1 DEF StartCounting
  <2>2. CASE t = evt
    <3>1. Running' = Running
      BY <1>0, <1>3, <2>2 DEF StartCounting
    <3> QED
      BY <1>0, <1>3, <2>2, <3>1 DEF StartCounting
  <2> QED
    BY <1>0, <2>1, <2>2
<1>4. CASE PrepareRun(t)
  BY <1>0, <1>4 DEF PrepareRun
<1>5. CASE SizesFail(t)
  BY <1>0, <1>5 DEF SizesFail
<1>6. CASE BeginDone(t)
  <2>1. CASE t = evt
    BY <1>0, <1>6, <2>1 DEF BeginDone, vars
  <2>2. CASE t = c
    <3>1. job[c] = "begin" /\ pc[evt] = "idle" /\ job[evt] = "none" /\ TriggerSem = 0
      BY <1>0, <1>6, <2>2 DEF BeginDone
    <3>2. PICK l \in Loops : loop' = [loop EXCEPT ![l] = "check"]
      BY <1>6, <2>2, <3>1 DEF BeginDone
    <3>3. \A m \in Loops : loop'[m] = IF m = l THEN "check" ELSE "none"
      BY <3>1, <3>2, <1>0
    <3>4. ControlTypes' /\ JobPlaces' /\ BusyPlaces' /\ BeginAlone'
      BY <1>0, <1>6, <2>2, <3>1, <3>2 DEF BeginDone, vars
    <3>5. RunningPlaces' /\ OneLoop'
      BY <1>0, <1>6, <2>2, <3>1, <3>3 DEF BeginDone, vars
    <3>6. TriggerToken'
      BY <1>0, <1>6, <2>2, <3>1, <3>3 DEF BeginDone, vars
    <3> QED
      BY <3>4, <3>5, <3>6
  <2> QED
    BY <1>0, <2>1, <2>2
<1> QED
  BY <1>1, <1>2, <1>3, <1>4, <1>5, <1>6 DEF BeginStep

\* daq_end(), AutoEnd, and the first half of a rollover.
LEMMA EndControl ==
    ASSUME CalmOperation, ControlInv, NEW t \in Threads,
           EndStep(t) \/ DaqEnd(t) \/ AutoEnd \/ RollOver
    PROVE  ControlInv'
<1> USE DEF ControlInv, ControlTypes, JobPlaces, BusyPlaces, BeginAlone, RunningPlaces, OneLoop,
            TriggerToken, BeginPlaces, EndPlaces, Goto, Finish, Busy, EnterReadout, EnterSwitch
<1>0. PICK c : Cmds = {c} /\ Threads = {evt, c} /\ c # evt
  BY TwoThreads
<1>1. CASE WakeUp(t)
  <2>1. Running /\ Running' = FALSE
    BY <1>0, <1>1 DEF WakeUp
  <2>2. CASE t = evt
    BY <1>0, <1>1, <2>1, <2>2 DEF WakeUp, CalmOperation
  <2>3. CASE t = c
    BY <1>0, <1>1, <2>1, <2>3 DEF WakeUp, CalmOperation, Quiet
  <2> QED
    BY <1>0, <2>2, <2>3
<1>2. CASE Flush(t)
  BY <1>0, <1>2 DEF Flush
<1>3. CASE AwaitWriter(t)
  BY <1>0, <1>3 DEF AwaitWriter, vars
<1>4. CASE CloseFile(t)
  BY <1>0, <1>4 DEF CloseFile
<1>5. CASE ResetCounters(t)
  BY <1>0, <1>5 DEF ResetCounters
<1>6. CASE DaqEnd(t)
  BY <1>0, <1>6 DEF DaqEnd, StartEnd, vars, CalmOperation
<1>7. CASE AutoEnd
  BY <1>0, <1>7 DEF AutoEnd, StartEnd, vars
<1>8. CASE RollOver
  BY <1>0, <1>8 DEF RollOver
<1> QED
  BY <1>1, <1>2, <1>3, <1>4, <1>5, <1>6, <1>7, <1>8 DEF EndStep

\* The other commands, and the end of a fake trigger or of create_device.
LEMMA CommandControl ==
    ASSUME CalmOperation, ControlInv, NEW t \in Threads,
           \/ Command(t) /\ ~DaqEnd(t)
           \/ FakeDone(t) \/ AddReadoutdevice(t) \/ DeviceRefused(t)
    PROVE  ControlInv'
<1> USE DEF ControlInv, ControlTypes, JobPlaces, BusyPlaces, BeginAlone, RunningPlaces, OneLoop,
            TriggerToken, BeginPlaces, EndPlaces, Goto, Finish, Busy, SetTrigger
<1>0. PICK c : Cmds = {c} /\ Threads = {evt, c} /\ c # evt
  BY TwoThreads
<1>1. ASSUME NEW irun \in RunNumbers, DaqBegin(t, irun) PROVE ControlInv'
  <2>1. t = c
    BY <1>0, <1>1 DEF DaqBegin
  <2>2. CASE BeginWaits
    BY <1>0, <1>1, <2>1, <2>2 DEF DaqBegin, AtRest
  <2>3. CASE ~BeginWaits
    BY <1>0, <1>1, <2>1, <2>3 DEF DaqBegin, CalmOperation
  <2> QED
    BY <2>2, <2>3
<1>2. CASE DaqOpen(t) \/ DaqClose(t)
  BY <1>0, <1>2 DEF DaqOpen, DaqClose, vars
<1>3. CASE FakeTrigger(t)
  <2>1. "daq_fake_trigger" \in Commands /\ BeginWaits /\ t = c
    BY <1>0, <1>3 DEF FakeTrigger, CalmOperation
  <2>2. TriggerToken'
    BY <1>3, <2>1 DEF FakeTrigger
  <2>3. ControlTypes' /\ JobPlaces' /\ BusyPlaces' /\ BeginAlone'
    BY <1>0, <1>3, <2>1 DEF FakeTrigger, vars
  <2>4. RunningPlaces' /\ OneLoop'
    BY <1>0, <1>3, <2>1 DEF FakeTrigger, vars
  <2> QED
    BY <2>2, <2>3, <2>4
<1>4. CASE CreateDevice(t)
  BY <1>0, <1>4 DEF CreateDevice, vars
<1>5. CASE FakeDone(t)
  BY <1>0, <1>5 DEF FakeDone, vars
<1>6. CASE AddReadoutdevice(t) \/ DeviceRefused(t)
  BY <1>0, <1>6 DEF AddReadoutdevice, DeviceRefused, vars
<1> QED
  BY <1>1, <1>2, <1>3, <1>4, <1>5, <1>6 DEF Command

\* The trigger loops and EventLoop.
LEMMA LoopControl ==
    ASSUME CalmOperation, ControlInv,
           \/ \E l \in Loops : LoopStep(l)
           \/ EventTrigger \/ NotActive \/ EventDone
    PROVE  ControlInv'
<1> USE DEF ControlInv, ControlTypes, JobPlaces, BusyPlaces, BeginAlone, RunningPlaces, OneLoop,
            TriggerToken, BeginPlaces, EndPlaces, Goto, Finish, Busy, SetTrigger, EnterReadout
<1>0. PICK c : Cmds = {c} /\ Threads = {evt, c} /\ c # evt
  BY TwoThreads
<1>1. ASSUME NEW l \in Loops, LoopCheck(l) \/ NoTrigger(l) PROVE ControlInv'
  BY <1>0, <1>1 DEF LoopCheck, NoTrigger, vars
<1>2. ASSUME NEW l \in Loops, LoopFire(l) PROVE ControlInv'
  BY <1>0, <1>2 DEF LoopFire, vars
<1>3. ASSUME NEW l \in Loops, LoopDone(l) PROVE ControlInv'
  BY <1>0, <1>3 DEF LoopDone, vars
<1>4. CASE EventTrigger
  BY <1>0, <1>4 DEF EventTrigger
<1>5. CASE NotActive
  BY <1>0, <1>5 DEF NotActive, vars
<1>6. CASE EventDone
  BY <1>0, <1>6 DEF EventDone, vars
<1> QED
  BY <1>1, <1>2, <1>3, <1>4, <1>5, <1>6 DEF LoopStep

\* The steps inside readout() and switch_buffer(), and the two consumers.
LEMMA ExchangeControl ==
    ASSUME CalmOperation, ControlInv,
           \/ \E t \in Threads : Readout(t) \/ Switch(t)
           \/ (WriterStep \/ SenderStep) /\ UNCHANGED rcVars
           \/ UNCHANGED allVars
    PROVE  ControlInv'
<1> USE DEF ControlInv, ControlTypes, JobPlaces, BusyPlaces, BeginAlone, RunningPlaces, OneLoop,
            TriggerToken, Busy
<1>1. ASSUME NEW t \in Threads, Readout(t) PROVE ControlInv'
  <2>1. /\ Busy(t) /\ \A u \in Threads \ {t} : rd'[u] = rd[u] /\ sw'[u] = sw[u]
        /\ rd' \in [Threads -> {"out", "nextEvent", "retry", "addSubevents"}]
        /\ sw' \in [Threads -> {"out", "lockWrite", "lockSend", "swap", "unlockWrite",
                                "unlockSend"}]
    <3>1. CASE NextEvent(t) \/ BufferFull(t) \/ DropEmptyEvent(t)
      BY <3>1 DEF NextEvent, BufferFull, DropEmptyEvent
    <3>2. ASSUME NEW timeUp \in BOOLEAN, KeepEvent(t, timeUp) PROVE <2>1!:
      BY <3>2 DEF KeepEvent
    <3> QED
      BY <1>1, <3>1, <3>2 DEF Readout, ReadoutStep
  <2>2. rstatus' \in 0 .. 2 /\ (rstatus' = 1 => max_events > 0)
    BY <1>1 DEF Readout, ReturnCode
  <2> QED
    BY <1>1, <2>1, <2>2 DEF Readout
<1>2. ASSUME NEW t \in Threads, Switch(t) PROVE ControlInv'
  <2>1. /\ Busy(t) /\ \A u \in Threads \ {t} : sw'[u] = sw[u]
        /\ rd' = rd
        /\ sw' \in [Threads -> {"out", "lockWrite", "lockSend", "swap", "unlockWrite",
                                "unlockSend"}]
    BY <1>2 DEF Switch, SwitchStep, LockWriteProtect, LockSendProtect, Swap, UnlockWrite,
        UnlockSend
  <2> QED
    BY <1>2, <2>1 DEF Switch
<1>3. CASE (WriterStep \/ SenderStep) /\ UNCHANGED rcVars
  <2>1. rd' = rd /\ sw' = sw
    BY <1>3 DEF WriterStep, WriterTake, WriterStore, WriterFail, WriterSkip, WriterRelease,
        SenderStep, SenderTake, SenderDone
  <2> QED
    BY <1>3, <2>1
<1>4. CASE UNCHANGED allVars
  BY <1>4 DEF allVars, vars
<1> QED
  BY <1>1, <1>2, <1>3, <1>4

\* No step breaks the rules by which the threads keep apart.
LEMMA ControlNext ==
    ASSUME CalmOperation, ControlInv, [RCNext]_allVars
    PROVE  ControlInv'
<1>1. ASSUME NEW t \in Threads, Command(t) PROVE ControlInv'
  BY <1>1, EndControl, CommandControl
<1>2. ASSUME NEW t \in Threads, ThreadStep(t) PROVE ControlInv'
  BY <1>2, BeginControl, EndControl, CommandControl, ExchangeControl DEF ThreadStep
<1>3. CASE EventLoopStep
  BY <1>3, LoopControl, EndControl, RunControlAssumption DEF EventLoopStep
<1>4. CASE \E l \in Loops : LoopStep(l)
  BY <1>4, LoopControl
<1>5. CASE (WriterStep \/ SenderStep) /\ UNCHANGED rcVars
  BY <1>5, ExchangeControl
<1>6. CASE UNCHANGED allVars
  BY <1>6, ExchangeControl
<1> QED
  BY <1>1, <1>2, <1>3, <1>4, <1>5, <1>6 DEF RCNext

\* ControlInv is an invariant of every calm run control.
THEOREM ControlInvariance ==
    ASSUME CalmOperation PROVE RCSpec => []ControlInv
<1>1. ControlInv /\ [RCNext]_allVars => ControlInv'
  BY ControlNext
<1> QED
  BY <1>1, ControlInit, PTL DEF RCSpec

\* The places of the two threads exclude each other.
LEMMA ControlApart ==
    ASSUME CalmOperation PROVE ControlInv => ReadoutsDontOverlap
<1> SUFFICES ASSUME ControlInv PROVE ReadoutsDontOverlap
  OBVIOUS
<1>1. PICK c : Cmds = {c} /\ Threads = {evt, c} /\ c # evt
  BY TwoThreads
<1>2. ~Busy(evt) \/ ~Busy(c)
  BY <1>1 DEF ControlInv, JobPlaces, BusyPlaces, BeginAlone, RunningPlaces, BeginPlaces,
      EndPlaces
<1> QED
  BY <1>1, <1>2 DEF ReadoutsDontOverlap

\* EventLoop and the command thread are never both inside readout() or
\* switch_buffer(), although no lock keeps them apart.
THEOREM ReadoutsApart ==
    ASSUME CalmOperation PROVE RCSpec => []ReadoutsDontOverlap
BY ControlApart, ControlInvariance, PTL

-----------------------------------------------------------------------------
(* Room for all devices                                                      *)

\* The steps that touch DAQ_RUNNING, the readlist or the sizes, by which a thread
\* enters or leaves daq_begin() and daq_end(), or that read another event.
LEMMA SizesStep ==
    ASSUME CalmOperation, ControlInv, SizesKnown, [RCNext]_allVars
    PROVE  SizesKnown'
<1> USE DEF SizesKnown, ControlInv, ControlTypes, JobPlaces, BeginAlone, RunningPlaces,
            BeginPlaces, EndPlaces, Goto, Finish, EnterReadout
<1>0. PICK c : Cmds = {c} /\ Threads = {evt, c} /\ c # evt
  BY TwoThreads
<1>a. {DATAEVENT, BEGRUNEVENT, ENDRUNEVENT} \subseteq EventTypes
  BY RunControlAssumption
<1>1. ASSUME NEW t \in Threads, Command(t) PROVE SizesKnown'
  BY <1>0, <1>1 DEF Command, DaqBegin, DaqEnd, StartEnd, DaqOpen, DaqClose, FakeTrigger,
      CreateDevice, vars
<1>2. ASSUME NEW t \in Threads, BeginStep(t) PROVE SizesKnown'
  <2>1. CASE StartCounting(t)
    <3>1. CASE t = c
      <4>1. Running' = TRUE /\ pc'[c] = "prepare"
        BY <1>0, <2>1, <3>1 DEF StartCounting
      <4> QED
        BY <1>0, <2>1, <3>1, <4>1 DEF StartCounting
    <3>2. CASE t = evt
      <4>1. Running' = Running
        BY <1>0, <2>1, <3>2 DEF StartCounting
      <4> QED
        BY <1>0, <2>1, <3>2, <4>1 DEF StartCounting
    <3> QED
      BY <1>0, <3>1, <3>2
  <2>2. CASE OpenFile(t) \/ OpenFails(t)
    BY <1>0, <2>2 DEF OpenFile, OpenFails
  <2>3. CASE PrepareRun(t) \/ SizesFail(t)
    BY <1>0, <1>a, <2>3 DEF PrepareRun, SizesFail, SetEventsizes
  <2>4. CASE BeginDone(t)
    BY <1>0, <2>4 DEF BeginDone, vars
  <2> QED
    BY <1>2, <2>1, <2>2, <2>3, <2>4 DEF BeginStep
<1>3. ASSUME NEW t \in Threads, EndStep(t) PROVE SizesKnown'
  <2>1. CASE WakeUp(t)
    <3>1. Running' = FALSE /\ (t = evt \/ Quiet)
      BY <2>1 DEF WakeUp, CalmOperation
    <3> QED
      BY <1>0, <1>a, <2>1, <3>1 DEF WakeUp, Quiet
  <2>2. CASE Flush(t) \/ AwaitWriter(t)
    BY <1>0, <2>2 DEF Flush, AwaitWriter, vars
  <2>3. CASE CloseFile(t) \/ ResetCounters(t)
    BY <1>0, <2>3 DEF CloseFile, ResetCounters
  <2> QED
    BY <1>3, <2>1, <2>2, <2>3 DEF EndStep
<1>4. ASSUME NEW t \in Threads,
             FakeDone(t) \/ Readout(t) \/ Switch(t) \/ AddReadoutdevice(t) \/ DeviceRefused(t)
      PROVE  SizesKnown'
  <2>1. CASE Readout(t) \/ Switch(t)
    <3>1. /\ Running' = Running /\ pc' = pc /\ job' = job
          /\ Eventsize' = Eventsize /\ DeviceList' = DeviceList
      BY <2>1 DEF Readout, Switch
    <3>2. etype' = etype
      BY <2>1 DEF Readout, ReadoutStep, NextEvent, BufferFull, DropEmptyEvent, KeepEvent,
          Switch, SwitchStep, LockWriteProtect, LockSendProtect, Swap, UnlockWrite, UnlockSend
    <3> QED
      BY <3>1, <3>2
  <2>2. CASE FakeDone(t) \/ DeviceRefused(t)
    BY <1>0, <2>2 DEF FakeDone, DeviceRefused, vars
  <2>3. CASE AddReadoutdevice(t)
    BY <1>0, <2>3 DEF AddReadoutdevice, vars
  <2> QED
    BY <1>4, <2>1, <2>2, <2>3
<1>5. CASE EventLoopStep
  <2>1. CASE EventTrigger \/ NotActive
    BY <1>0, <1>a, <2>1 DEF EventTrigger, NotActive, vars
  <2>2. CASE EventDone
    BY <1>0, <2>2 DEF EventDone, vars
  <2>3. CASE AutoEnd
    BY <1>0, <2>3 DEF AutoEnd, StartEnd, vars
  <2>4. CASE RollOver
    BY <1>0, <1>a, <2>4 DEF RollOver
  <2> QED
    BY <1>5, <2>1, <2>2, <2>3, <2>4 DEF EventLoopStep
<1>6. ASSUME NEW l \in Loops, LoopStep(l) PROVE SizesKnown'
  BY <1>6 DEF LoopStep, LoopCheck, NoTrigger, LoopFire, LoopDone, vars
<1>7. CASE (WriterStep \/ SenderStep) /\ UNCHANGED rcVars
  <2>1. etype' = etype
    BY <1>7 DEF WriterStep, WriterTake, WriterStore, WriterFail, WriterSkip, WriterRelease,
        SenderStep, SenderTake, SenderDone
  <2> QED
    BY <1>7, <2>1
<1>8. CASE UNCHANGED allVars
  BY <1>8 DEF allVars, vars
<1> QED
  BY <1>1, <1>2, <1>3, <1>4, <1>5, <1>6, <1>7, <1>8 DEF RCNext, ThreadStep

\* Until its run is over, a readout has room for all the devices on the readlist,
\* also while create_device is about to add one to a run that ends by itself, and
\* in a run left behind by a begin that failed.
THEOREM RoomForDevices ==
    ASSUME CalmOperation PROVE RCSpec => []RoomForRunData
<1>1. RCInit => SizesKnown
  <2>1. ASSUME RCInit PROVE SizesKnown
    <3>1. /\ Eventsize = DeviceList /\ \A t \in Threads : pc[t] = "idle" /\ job[t] = "none"
          /\ etype = [t \in Threads |-> DATAEVENT]
      BY <2>1 DEF RCInit
    <3> QED
      BY <3>1, RunControlAssumption DEF SizesKnown
  <2> QED
    BY <2>1
<1>2. ControlInv /\ SizesKnown /\ [RCNext]_allVars => SizesKnown'
  BY SizesStep
<1>3. ASSUME ControlInv, SizesKnown PROVE RoomForRunData
  <2>1. PICK c : Cmds = {c} /\ Threads = {evt, c} /\ c # evt
    BY TwoThreads
  <2>2. ASSUME NEW t \in Threads, Busy(t), etype[t] # ENDRUNEVENT PROVE Eventsize = DeviceList
    <3>1. pc[t] \in {"begrun", "reading"}
      BY <1>3, <2>2 DEF ControlInv, BusyPlaces, SizesKnown
    <3>2. Running /\ pc[c] # "prepare"
      BY <1>3, <2>1, <3>1 DEF ControlInv, JobPlaces, BeginAlone, RunningPlaces, BeginPlaces,
          EndPlaces, SizesKnown
    <3> QED
      BY <1>3, <2>1, <3>2 DEF SizesKnown
  <2> QED
    BY <2>2 DEF RoomForRunData
<1> QED
  BY <1>1, <1>2, <1>3, ControlInvariance, PTL DEF RCSpec

-----------------------------------------------------------------------------
(* The double buffer in the hands of several threads                         *)

\* While a thread begins, ends or rolls over a run, no other thread does, and
\* no other thread is inside readout() or switch_buffer().
LEMMA SessionAlone ==
    ASSUME CalmOperation, ControlInv, NEW t \in Threads, NEW u \in Threads, t # u,
           pc[t] \in BeginPlaces \cup EndPlaces
    PROVE  ~Busy(u) /\ pc[u] \notin BeginPlaces \cup EndPlaces
<1>1. PICK c : Cmds = {c} /\ Threads = {evt, c} /\ c # evt
  BY TwoThreads
<1>2. pc[u] \notin {"begrun", "endrun", "flush", "reading"} \cup BeginPlaces \cup EndPlaces
  BY <1>1 DEF ControlInv, JobPlaces, BeginAlone, RunningPlaces, BeginPlaces, EndPlaces
<1> QED
  BY <1>2 DEF ControlInv, BusyPlaces

\* What the functions of run control do to the exchange besides filling buffers.
ClientStep ==
    /\ UNCHANGED <<semVars, writerVars, senderVars, accepted>>
    /\ Buffer_number' \in {Buffer_number, 0, 1} /\ Event_number' \in {Event_number, 0, 1}
    /\ UNCHANGED bufVars \/ \E t \in Threads : PrepareRun(t) \/ SizesFail(t)
    /\ \/ UNCHANGED <<rd, etype, sw>>
       \/ \E t \in Threads, e \in EventTypes : EnterReadout(t, e) /\ UNCHANGED sw
       \/ \E t \in Threads : EnterSwitch(t) /\ UNCHANGED <<rd, etype>>

\* Every step is one of run control or one of the exchange.
LEMMA StepKinds ==
    ASSUME [RCNext]_allVars
    PROVE  \/ ClientStep
           \/ \E t \in Threads : Readout(t) \/ Switch(t)
           \/ (WriterStep \/ SenderStep) /\ UNCHANGED rcVars
<1>0. evt \in Threads /\ {DATAEVENT, BEGRUNEVENT, ENDRUNEVENT} \subseteq EventTypes
  BY RunControlAssumption
<1>1. ASSUME NEW t \in Threads, Command(t) PROVE ClientStep
  BY <1>1 DEF Command, DaqBegin, DaqEnd, StartEnd, DaqOpen, DaqClose, FakeTrigger,
      CreateDevice, ClientStep, vars
<1>2. ASSUME NEW t \in Threads, BeginStep(t) PROVE ClientStep
  BY <1>0, <1>2 DEF BeginStep, OpenFile, OpenFails, StartCounting, PrepareRun, SizesFail,
      BeginDone, ClientStep, vars
<1>3. ASSUME NEW t \in Threads, EndStep(t) PROVE ClientStep
  BY <1>0, <1>3 DEF EndStep, WakeUp, Flush, AwaitWriter, CloseFile, ResetCounters, ClientStep,
      vars
<1>4. ASSUME NEW t \in Threads, FakeDone(t) \/ AddReadoutdevice(t) \/ DeviceRefused(t)
      PROVE  ClientStep
  BY <1>4 DEF FakeDone, AddReadoutdevice, DeviceRefused, ClientStep, vars
<1>5. CASE EventLoopStep
  BY <1>0, <1>5 DEF EventLoopStep, EventTrigger, NotActive, EventDone, AutoEnd, StartEnd,
      RollOver, ClientStep, vars
<1>6. ASSUME NEW l \in Loops, LoopStep(l) PROVE ClientStep
  BY <1>6 DEF LoopStep, LoopCheck, NoTrigger, LoopFire, LoopDone, ClientStep, vars
<1>7. CASE UNCHANGED allVars
  BY <1>7 DEF ClientStep, allVars, vars
<1> QED
  BY <1>1, <1>2, <1>3, <1>4, <1>5, <1>6, <1>7 DEF RCNext, ThreadStep

\* The two tokens are never held twice.
LEMMA TokensStep ==
    ASSUME CalmOperation, ControlInv, BufferTypes, RCTypeOK, Exclusive, WriteToken, SendToken,
           [RCNext]_allVars
    PROVE  Exclusive' /\ WriteToken' /\ SendToken'
<1> USE DEF Exclusive, WriteToken, SendToken, Busy
<1>0. /\ rd \in [Threads -> {"out", "nextEvent", "retry", "addSubevents"}]
      /\ sw \in [Threads -> {"out", "lockWrite", "lockSend", "swap", "unlockWrite",
                            "unlockSend"}]
      /\ WriteSem \in {0, 1} /\ SendSem \in {0, 1}
      /\ WriteProtectSem \in {0, 1} /\ SendProtectSem \in {0, 1}
      /\ writer \in {"wait", "writing"} /\ sender \in {"wait", "sending"}
  BY DEF ControlInv, ControlTypes, BufferTypes
<1>1. \A t, u \in Threads : t # u => ~Busy(t)' \/ ~Busy(u)'
  <2>1. ControlInv'
    BY ControlNext
  <2>2. (ControlInv => ReadoutsDontOverlap)'
    BY ControlApart, PTL
  <2> QED
    BY <2>1, <2>2 DEF ReadoutsDontOverlap
<1>2. CASE ClientStep
  BY <1>0, <1>1, <1>2 DEF ClientStep, EnterReadout, EnterSwitch
<1>3. ASSUME NEW t \in Threads, Readout(t)
      PROVE  Exclusive' /\ WriteToken' /\ SendToken'
  BY <1>0, <1>1, <1>3 DEF Readout, ReadoutStep, NextEvent, BufferFull, DropEmptyEvent, KeepEvent
<1>4. ASSUME NEW t \in Threads, Switch(t)
      PROVE  Exclusive' /\ WriteToken' /\ SendToken'
  <2>1. \A u \in Threads : u # t => sw[u] = "out"
    BY <1>0, <1>4 DEF Switch, SwitchStep, LockWriteProtect, LockSendProtect, Swap,
                UnlockWrite, UnlockSend
  <2>2. CASE LockWriteProtect(t)
    BY <1>0, <1>1, <2>1, <2>2 DEF LockWriteProtect
  <2>3. CASE LockSendProtect(t)
    BY <1>0, <1>1, <2>1, <2>3 DEF LockSendProtect
  <2>4. CASE Swap(t)
    BY <1>0, <1>1, <2>1, <2>4 DEF Swap
  <2>5. CASE UnlockWrite(t)
    BY <1>0, <1>1, <2>1, <2>5 DEF UnlockWrite
  <2>6. CASE UnlockSend(t)
    BY <1>0, <1>1, <2>1, <2>6 DEF UnlockSend
  <2> QED
    BY <1>4, <2>2, <2>3, <2>4, <2>5, <2>6 DEF Switch, SwitchStep
<1>5. CASE WriterStep
  <2>1. CASE WriterTake
    BY <1>0, <1>1, <2>1 DEF WriterTake
  <2>2. CASE WriterRelease
    BY <1>0, <1>1, <2>2 DEF WriterRelease
  <2> QED
    BY <1>5, <2>1, <2>2 DEF WriterStep, WriterStore, WriterFail, WriterSkip
<1>6. CASE SenderStep
  BY <1>0, <1>1, <1>6 DEF SenderStep, SenderTake, SenderDone
<1> QED
  BY <1>2, <1>3, <1>4, <1>5, <1>6, StepKinds

\* The flags and the readlist keep their types.
LEMMA FlagTypesStep ==
    ASSUME RCTypeOK, [RCNext]_allVars
    PROVE  /\ TriggerControl' \in {0, 1} /\ Trigger_Todo' \in {"none", "DAQ_READ"}
           /\ daq_open_flag' \in BOOLEAN /\ file_is_open' \in BOOLEAN
           /\ DeviceList' \in 0 .. DeviceBound /\ Eventsize' \in 0 .. DeviceBound
<1> DEFINE FlagTypes == /\ TriggerControl \in {0, 1} /\ Trigger_Todo \in {"none", "DAQ_READ"}
                        /\ daq_open_flag \in BOOLEAN /\ file_is_open \in BOOLEAN
                        /\ DeviceList \in 0 .. DeviceBound /\ Eventsize \in 0 .. DeviceBound
<1>0. FlagTypes
  BY DEF RCTypeOK
<1> SUFFICES FlagTypes'
  OBVIOUS
<1>1. ASSUME NEW t \in Threads, Command(t) PROVE FlagTypes'
  BY <1>0, <1>1 DEF Command, DaqBegin, DaqEnd, StartEnd, DaqOpen, DaqClose, FakeTrigger,
      SetTrigger, CreateDevice
<1>2. ASSUME NEW t \in Threads, BeginStep(t) PROVE FlagTypes'
  BY <1>0, <1>2 DEF BeginStep, OpenFile, OpenFails, StartCounting, PrepareRun, SizesFail,
      BeginDone, SetEventsizes
<1>3. ASSUME NEW t \in Threads, EndStep(t) PROVE FlagTypes'
  BY <1>0, <1>3 DEF EndStep, WakeUp, Flush, AwaitWriter, CloseFile, ResetCounters
<1>4. ASSUME NEW t \in Threads,
             FakeDone(t) \/ Readout(t) \/ Switch(t) \/ AddReadoutdevice(t) \/ DeviceRefused(t)
      PROVE  FlagTypes'
  <2>1. CASE AddReadoutdevice(t)
    BY <1>0, <2>1, RunControlAssumption DEF AddReadoutdevice
  <2>2. CASE ~AddReadoutdevice(t)
    BY <1>0, <1>4, <2>2 DEF FakeDone, Readout, Switch, DeviceRefused
  <2> QED
    BY <2>1, <2>2
<1>5. CASE EventLoopStep
  BY <1>0, <1>5 DEF EventLoopStep, EventTrigger, NotActive, EventDone, AutoEnd, StartEnd, RollOver
<1>6. ASSUME NEW l \in Loops, LoopStep(l) PROVE FlagTypes'
  BY <1>0, <1>6 DEF LoopStep, LoopCheck, NoTrigger, LoopFire, LoopDone, SetTrigger
<1>7. CASE UNCHANGED rcVars
  BY <1>0, <1>7
<1> QED
  BY <1>1, <1>2, <1>3, <1>4, <1>5, <1>6, <1>7 DEF RCNext, ThreadStep, allVars

\* Run numbers stay within the bound of the model, also across rollovers.
LEMMA RunNumbersStep ==
    ASSUME CalmOperation, ControlInv, RCTypeOK, RollFits, [RCNext]_allVars
    PROVE  TheRun' \in 0 .. RunBound /\ RollFits'
<1> USE DEF RollFits, ControlInv, JobPlaces, BeginAlone, RunningPlaces, BeginPlaces,
            EndPlaces, Goto, Finish
<1>0. PICK c : Cmds = {c} /\ Threads = {evt, c} /\ c # evt
  BY TwoThreads
<1>a. TheRun \in 0 .. RunBound /\ RunBound \in Nat /\ RunNumbers \subseteq Nat
  BY RunControlAssumption DEF RCTypeOK
<1>b. /\ rd \in [Threads -> {"out", "nextEvent", "retry", "addSubevents"}]
      /\ pc \in [Threads -> {"idle", "open", "count", "prepare", "begrun", "sleep", "endrun",
                             "flush", "close", "reset", "reading", "autoEnd", "rollOver",
                             "fake", "create"}]
      /\ job \in [Threads -> {"none", "begin", "end", "roll"}]
  BY DEF ControlTypes
<1> DEFINE Goal == TheRun \in 0 .. RunBound /\ RollFits
<1>1. ASSUME NEW t \in Threads, Command(t) PROVE Goal'
  <2>1. ASSUME NEW irun \in RunNumbers, DaqBegin(t, irun) PROVE Goal'
    <3>1. pc[evt] = "idle" /\ t = c
      BY <1>0, <2>1 DEF DaqBegin, AtRest, CalmOperation
    <3> QED
      BY <1>0, <1>a, <1>b, <2>1, <3>1 DEF DaqBegin
  <2>2. CASE DaqEnd(t) \/ DaqOpen(t) \/ DaqClose(t) \/ FakeTrigger(t) \/ CreateDevice(t)
    BY <1>0, <1>a, <1>b, <2>2 DEF DaqEnd, StartEnd, DaqOpen, DaqClose, FakeTrigger, CreateDevice,
        vars
  <2> QED
    BY <1>1, <2>1, <2>2 DEF Command
<1>2. ASSUME NEW t \in Threads, BeginStep(t) PROVE Goal'
  BY <1>0, <1>a, <1>b, <1>2 DEF BeginStep, OpenFile, OpenFails, StartCounting, PrepareRun,
      SizesFail, BeginDone, EnterReadout, vars
<1>3. ASSUME NEW t \in Threads, EndStep(t) PROVE Goal'
  <2>1. CASE WakeUp(t) \/ Flush(t) \/ AwaitWriter(t) \/ CloseFile(t)
    BY <1>0, <1>a, <1>b, <2>1 DEF WakeUp, Flush, AwaitWriter, CloseFile, EnterReadout, vars
  <2>2. CASE ResetCounters(t)
    BY <1>0, <1>a, <1>b, <2>2 DEF ResetCounters
  <2> QED
    BY <1>3, <2>1, <2>2 DEF EndStep
<1>4. ASSUME NEW t \in Threads, FakeDone(t) \/ AddReadoutdevice(t) \/ DeviceRefused(t)
      PROVE  Goal'
  BY <1>0, <1>a, <1>b, <1>4 DEF FakeDone, AddReadoutdevice, DeviceRefused, vars
<1>5. ASSUME NEW t \in Threads, Readout(t) PROVE Goal'
  <2>1. UNCHANGED <<TheRun, pc, job>>
    BY <1>5 DEF Readout, ReadoutStep, NextEvent, BufferFull, DropEmptyEvent, KeepEvent
  <2>2. CASE t = evt /\ rd[t] = "addSubevents"
    <3>1. rstatus' = 2 => TheRun < RunBound
      <4>1. PICK full \in {FALSE, MaxVolume /\ TheRun < RunBound} :
                rstatus' = ReturnCode(t, full)
        BY <1>5, <2>2 DEF Readout
      <4>2. CASE full = FALSE
        BY <4>1, <4>2 DEF ReturnCode
      <4>3. CASE TheRun < RunBound
        BY <4>3
      <4> QED
        BY <4>1, <4>2, <4>3
    <3> QED
      BY <1>a, <2>1, <3>1
  <2>3. CASE t = evt /\ rd[t] # "addSubevents"
    BY <1>a, <1>b, <1>5, <2>1, <2>3 DEF Readout, ReadoutStep, NextEvent, BufferFull,
        DropEmptyEvent, KeepEvent
  <2>4. CASE t # evt
    <3>1. rstatus' = rstatus
      BY <1>5, <2>4 DEF Readout
    <3>2. rd'[evt] = rd[evt]
      BY <1>0, <1>b, <1>5, <2>4 DEF Readout, ReadoutStep, NextEvent, BufferFull,
          DropEmptyEvent, KeepEvent
    <3> QED
      BY <1>a, <2>1, <3>1, <3>2
  <2> QED
    BY <2>2, <2>3, <2>4
<1>6. ASSUME NEW t \in Threads, Switch(t) PROVE Goal'
  BY <1>a, <1>6 DEF Switch, SwitchStep, LockWriteProtect, LockSendProtect, Swap, UnlockWrite,
      UnlockSend
<1>7. CASE EventLoopStep
  <2>1. CASE EventTrigger \/ NotActive
    BY <1>0, <1>a, <1>b, <2>1 DEF EventTrigger, NotActive, EnterReadout, vars
  <2>2. CASE EventDone
    BY <1>0, <1>a, <1>b, <2>2 DEF EventDone, Busy, ControlTypes, vars
  <2>3. CASE AutoEnd
    BY <1>0, <1>a, <1>b, <2>3 DEF AutoEnd, StartEnd, vars
  <2>4. CASE RollOver
    BY <1>0, <1>a, <1>b, <2>4 DEF RollOver, EnterReadout
  <2> QED
    BY <1>7, <2>1, <2>2, <2>3, <2>4 DEF EventLoopStep
<1>8. ASSUME NEW l \in Loops, LoopStep(l) PROVE Goal'
  BY <1>a, <1>8 DEF LoopStep, LoopCheck, NoTrigger, LoopFire, LoopDone, vars
<1>9. CASE (WriterStep \/ SenderStep) /\ UNCHANGED rcVars
  BY <1>a, <1>9 DEF WriterStep, WriterTake, WriterRelease, WriterStore, WriterFail, WriterSkip,
      SenderStep, SenderTake, SenderDone
<1>10. CASE UNCHANGED allVars
  BY <1>a, <1>10 DEF allVars, vars
<1> QED
  BY <1>1, <1>2, <1>3, <1>4, <1>5, <1>6, <1>7, <1>8, <1>9, <1>10 DEF RCNext, ThreadStep

\* open_file() and close() set the flag along with the descriptor.
LEMMA OpenAgreesStep ==
    ASSUME WriterFile, OpenAgrees, [RCNext]_allVars
    PROVE  OpenAgrees'
<1>1. ASSUME NEW t \in Threads, OpenFile(t) PROVE OpenAgrees'
  <2>1. CASE daq_open_flag
    <3>1. outfile_fd' = TheRun /\ file_is_open' = TRUE
      BY <1>1, <2>1 DEF OpenFile
    <3>2. TheRun # 0
      BY <1>1 DEF OpenFile, WriterFile
    <3> QED
      BY <3>1, <3>2 DEF OpenAgrees
  <2>2. CASE ~daq_open_flag
    <3>1. outfile_fd' = outfile_fd /\ file_is_open' = file_is_open
      BY <1>1, <2>2 DEF OpenFile
    <3> QED
      BY <3>1 DEF OpenAgrees
  <2> QED
    BY <2>1, <2>2
<1>2. ASSUME NEW t \in Threads, OpenFails(t) PROVE OpenAgrees'
  <2>1. file_is_open' = file_is_open /\ outfile_fd' = IF file_is_open THEN outfile_fd ELSE 0
    BY <1>2 DEF OpenFails
  <2> QED
    BY <2>1, Zenon DEF OpenAgrees
<1>3. ASSUME NEW t \in Threads, CloseFile(t) PROVE OpenAgrees'
  BY <1>3 DEF CloseFile, OpenAgrees
<1>4. CASE \A t \in Threads : ~OpenFile(t) /\ ~OpenFails(t) /\ ~CloseFile(t)
  <2>1. outfile_fd' = outfile_fd /\ file_is_open' = file_is_open
    <3> DEFINE Same == outfile_fd' = outfile_fd /\ file_is_open' = file_is_open
    <3>1. ASSUME NEW t \in Threads, Command(t) PROVE Same
      BY <3>1 DEF Command, DaqBegin, DaqEnd, StartEnd, DaqOpen, DaqClose, FakeTrigger,
          CreateDevice, vars
    <3>2. ASSUME NEW t \in Threads, BeginStep(t) \/ EndStep(t) PROVE Same
      BY <1>4, <3>2 DEF BeginStep, StartCounting, PrepareRun, SizesFail, BeginDone, EndStep,
          WakeUp, Flush, AwaitWriter, ResetCounters, vars
    <3>3. ASSUME NEW t \in Threads, FakeDone(t) \/ AddReadoutdevice(t) \/ DeviceRefused(t)
          PROVE  Same
      BY <3>3 DEF FakeDone, AddReadoutdevice, DeviceRefused, vars
    <3>4. ASSUME NEW t \in Threads, Readout(t) \/ Switch(t) PROVE Same
      BY <3>4 DEF Readout, ReadoutStep, NextEvent, BufferFull, DropEmptyEvent, KeepEvent,
          Switch, SwitchStep, LockWriteProtect, LockSendProtect, Swap, UnlockWrite, UnlockSend
    <3>5. CASE EventLoopStep
      BY <3>5 DEF EventLoopStep, EventTrigger, NotActive, EventDone, AutoEnd, StartEnd,
          RollOver, vars
    <3>6. ASSUME NEW l \in Loops, LoopStep(l) PROVE Same
      BY <3>6 DEF LoopStep, LoopCheck, NoTrigger, LoopFire, LoopDone, vars
    <3>7. CASE (WriterStep \/ SenderStep) /\ UNCHANGED rcVars
      BY <3>7 DEF WriterStep, WriterTake, WriterRelease, WriterStore, WriterFail, WriterSkip,
          SenderStep, SenderTake, SenderDone
    <3>8. CASE UNCHANGED allVars
      BY <3>8 DEF allVars, vars
    <3> QED
      BY <3>1, <3>2, <3>3, <3>4, <3>5, <3>6, <3>7, <3>8 DEF RCNext, ThreadStep
  <2> QED
    BY <2>1 DEF OpenAgrees
<1> QED
  BY <1>1, <1>2, <1>3, <1>4

\* The file a writer works on is the one that is open, or none.
LEMMA WriterFileStep ==
    ASSUME CalmOperation, HandOverInv, [RCNext]_allVars
    PROVE  /\ WriterFile'
           /\ outfile_fd' \in {0} \cup Fds /\ wfd' \in {0} \cup Fds /\ existing' \subseteq Fds
<1> DEFINE Goal == /\ WriterFile
                   /\ outfile_fd \in {0} \cup Fds /\ wfd \in {0} \cup Fds /\ existing \subseteq Fds
<1> SUFFICES Goal'
  OBVIOUS
<1> USE DEF WriterFile, Goto, Finish
<1>0. /\ ControlInv /\ WriterFile
      /\ outfile_fd \in {0} \cup Fds /\ wfd \in {0} \cup Fds /\ existing \subseteq Fds
      /\ TheRun \in 0 .. RunBound /\ RunBound \in Nat /\ Fds = 1 .. RunBound
      /\ RunNumbers \subseteq Nat
      /\ pc \in [Threads -> {"idle", "open", "count", "prepare", "begrun", "sleep", "endrun",
                             "flush", "close", "reset", "reading", "autoEnd", "rollOver",
                             "fake", "create"}]
  BY RunControlAssumption DEF HandOverInv, RCTypeOK
<1>a. evt \in Threads
  BY RunControlAssumption
<1>b. \A t, u \in Threads : pc[t] = "close" => ~Busy(u)
  BY <1>0, SessionAlone DEF EndPlaces, ControlInv, BusyPlaces
<1>1. ASSUME NEW t \in Threads, Command(t) PROVE Goal'
  <2>1. ASSUME NEW irun \in RunNumbers, DaqBegin(t, irun) PROVE Goal'
    BY <1>0, <2>1 DEF DaqBegin
  <2>2. CASE DaqEnd(t) \/ DaqOpen(t) \/ DaqClose(t) \/ FakeTrigger(t) \/ CreateDevice(t)
    BY <1>0, <2>2 DEF DaqEnd, StartEnd, DaqOpen, DaqClose, FakeTrigger, CreateDevice, vars
  <2> QED
    BY <1>1, <2>1, <2>2 DEF Command
<1>2. ASSUME NEW t \in Threads, BeginStep(t) PROVE Goal'
  <2>a. ~file_is_open => outfile_fd = 0
    BY DEF HandOverInv, OpenAgrees
  <2>1. CASE OpenFile(t)
    <3>1. CASE daq_open_flag
      <4>1. ~file_is_open /\ outfile_fd' = TheRun /\ existing' = existing \cup {TheRun}
        BY <2>1, <3>1 DEF OpenFile
      <4>2. outfile_fd = 0 /\ TheRun \in Fds
        BY <1>0, <2>a, <2>1, <4>1 DEF OpenFile
      <4>3. pc' = [pc EXCEPT ![t] = "count"] /\ UNCHANGED <<writer, wfd, WriteProtectSem, TheRun>>
        BY <2>1 DEF OpenFile
      <4> QED
        BY <1>0, <4>1, <4>2, <4>3
    <3>2. CASE ~daq_open_flag
      BY <1>0, <2>1, <3>2 DEF OpenFile
    <3> QED
      BY <3>1, <3>2
  <2>2. CASE OpenFails(t)
    <3>1. outfile_fd' = outfile_fd
      BY <2>a, <2>2 DEF OpenFails
    <3> QED
      BY <1>0, <2>2, <3>1 DEF OpenFails
  <2>3. CASE StartCounting(t) \/ PrepareRun(t) \/ SizesFail(t) \/ BeginDone(t)
    BY <1>0, <2>3 DEF StartCounting, PrepareRun, SizesFail, BeginDone, vars
  <2> QED
    BY <1>2, <2>1, <2>2, <2>3 DEF BeginStep
<1>3. ASSUME NEW t \in Threads, EndStep(t) PROVE Goal'
  <2>1. CASE WakeUp(t) \/ Flush(t)
    BY <1>0, <2>1 DEF WakeUp, Flush
  <2>2. CASE AwaitWriter(t)
    BY <1>0, <2>2 DEF AwaitWriter, vars
  <2>3. CASE CloseFile(t)
    <3>1. writer # "writing"
      BY <1>0, <2>3 DEF CloseFile, HandOverInv, WriteToken
    <3> QED
      BY <1>0, <2>3, <3>1 DEF CloseFile
  <2>4. CASE ResetCounters(t)
    BY <1>0, <2>4 DEF ResetCounters
  <2> QED
    BY <1>3, <2>1, <2>2, <2>3, <2>4 DEF EndStep
<1>4. ASSUME NEW t \in Threads, FakeDone(t) \/ AddReadoutdevice(t) \/ DeviceRefused(t)
      PROVE  Goal'
  BY <1>0, <1>4 DEF FakeDone, AddReadoutdevice, DeviceRefused, vars
<1>5. ASSUME NEW t \in Threads, Readout(t) PROVE Goal'
  BY <1>0, <1>5 DEF Readout, ReadoutStep, NextEvent, BufferFull, DropEmptyEvent, KeepEvent
<1>6. ASSUME NEW t \in Threads, Switch(t) PROVE Goal'
  <2>1. CASE LockWriteProtect(t)
    <3>1. \A u \in Threads : pc[u] # "close"
      BY <1>b, <2>1 DEF LockWriteProtect, Busy
    <3> QED
      BY <1>0, <1>6, <2>1, <3>1 DEF Switch, LockWriteProtect
  <2>2. CASE LockSendProtect(t) \/ Swap(t) \/ UnlockWrite(t) \/ UnlockSend(t)
    BY <1>0, <1>6, <2>2 DEF Switch, LockSendProtect, Swap, UnlockWrite, UnlockSend
  <2> QED
    BY <1>6, <2>1, <2>2 DEF Switch, SwitchStep
<1>7. CASE EventLoopStep
  <2>1. CASE EventTrigger \/ NotActive
    BY <1>0, <1>a, <2>1 DEF EventTrigger, NotActive, vars
  <2>2. CASE EventDone
    BY <1>0, <1>a, <2>2 DEF EventDone, ControlInv, ControlTypes, vars
  <2>3. CASE AutoEnd \/ RollOver
    BY <1>0, <1>a, <2>3 DEF AutoEnd, StartEnd, RollOver, vars
  <2> QED
    BY <1>7, <2>1, <2>2, <2>3 DEF EventLoopStep
<1>8. ASSUME NEW l \in Loops, LoopStep(l) PROVE Goal'
  BY <1>0, <1>8 DEF LoopStep, LoopCheck, NoTrigger, LoopFire, LoopDone, vars
<1>9. CASE (WriterStep \/ SenderStep) /\ UNCHANGED rcVars
  <2>1. CASE WriterTake
    BY <1>0, <1>9, <2>1 DEF WriterTake
  <2>2. CASE WriterRelease
    BY <1>0, <1>9, <2>2 DEF WriterRelease
  <2>3. CASE SenderStep
    BY <1>0, <1>9, <2>3 DEF SenderStep, SenderTake, SenderDone
  <2> QED
    BY <1>9, <2>1, <2>2, <2>3 DEF WriterStep, WriterStore, WriterFail, WriterSkip
<1>10. CASE UNCHANGED allVars
  BY <1>0, <1>10 DEF allVars, vars
<1> QED
  BY <1>1, <1>2, <1>3, <1>4, <1>5, <1>6, <1>7, <1>8, <1>9, <1>10 DEF RCNext, ThreadStep

\* The buffers keep their types and their limit, and the event that is open in
\* the fill buffer still fits.
LEMMA BufferTypesStep ==
    ASSUME CalmOperation, HandOverInv, [RCNext]_allVars
    PROVE  /\ BufferTypes'
           /\ events' \in [Buffers -> Seq(Event)]
           /\ \A b \in Buffers : Len(events'[b]) <= Capacity
<1> DEFINE Goal == /\ BufferTypes
                   /\ events \in [Buffers -> Seq(Event)]
                   /\ \A b \in Buffers : Len(events[b]) <= Capacity
<1> SUFFICES Goal'
  OBVIOUS
<1>0. /\ Goal /\ Exclusive /\ ControlInv
      /\ rd \in [Threads -> {"out", "nextEvent", "retry", "addSubevents"}]
      /\ Capacity \in Nat \ {0} /\ TheRun \in Nat /\ TheRun \in 0 .. RunBound
      /\ outfile_fd \in {0} \cup Fds /\ wfd \in {0} \cup Fds
  <2>1. Goal /\ Exclusive /\ ControlInv /\ RCTypeOK
    BY DEF HandOverInv, RCTypeOK
  <2>2. rd \in [Threads -> {"out", "nextEvent", "retry", "addSubevents"}]
    BY <2>1 DEF ControlInv, ControlTypes
  <2>3. /\ TheRun \in 0 .. RunBound /\ outfile_fd \in {0} \cup Fds /\ wfd \in {0} \cup Fds
    BY <2>1 DEF RCTypeOK
  <2>4. Capacity \in Nat \ {0} /\ RunBound \in Nat
    BY ExchangeAssumption, RunControlAssumption
  <2> HIDE DEF Goal
  <2> QED
    BY <2>1, <2>2, <2>3, <2>4
<1> USE DEF BufferTypes, HasRoom
<1>a. NoEvent \in Event \cup {NoEvent} /\ {"Buffer1", "Buffer2"} = Buffers
  BY DEF Buffers
<1>b. /\ events \in [Buffers -> Seq(Event)] /\ \A b \in Buffers : Len(events[b]) <= Capacity
      /\ header \in [Buffers -> Event \cup {NoEvent}] /\ has_end \in [Buffers -> {0, 1}]
      /\ Bufseq \in [Buffers -> Nat] /\ Runnr \in [Buffers -> Nat]
      /\ fillBuffer \in Buffers /\ transportBuffer \in Buffers
      /\ Buffer_number \in Nat /\ Event_number \in Nat /\ TheRun \in Nat
  BY <1>0, Zenon
<1>c. << >> \in Seq(Event) /\ Len(<< >>) = 0 /\ Capacity \in Nat
  <2> HIDE DEF BufferTypes, HasRoom
  <2> QED
    BY <1>0
\* A buffer that is prepared is empty and has its numbers.
<1>d. ASSUME NEW b0 \in Buffers, NEW n0 \in Nat,
             events' = [events EXCEPT ![b0] = << >>],
             header' = [header EXCEPT ![b0] = NoEvent],
             Bufseq' = [Bufseq EXCEPT ![b0] = n0],
             Runnr' = IF TheRun > 0 THEN [Runnr EXCEPT ![b0] = TheRun] ELSE Runnr
      PROVE  /\ events' \in [Buffers -> Seq(Event)]
             /\ \A b \in Buffers : Len(events'[b]) <= Capacity
             /\ header' \in [Buffers -> Event \cup {NoEvent}]
             /\ Bufseq' \in [Buffers -> Nat] /\ Runnr' \in [Buffers -> Nat]
  <2> HIDE DEF BufferTypes, HasRoom
  <2>1. events' \in [Buffers -> Seq(Event)]
    BY <1>b, <1>c, <1>d
  <2>2. ASSUME NEW b \in Buffers PROVE Len(events'[b]) <= Capacity
    <3>1. events'[b] = events[b] \/ events'[b] = << >>
      BY <1>b, <1>d
    <3> QED
      BY <1>b, <1>c, <3>1
  <2>3. header' \in [Buffers -> Event \cup {NoEvent}]
    BY <1>a, <1>b, <1>d
  <2>4. Bufseq' \in [Buffers -> Nat] /\ Runnr' \in [Buffers -> Nat]
    BY <1>b, <1>d
  <2> QED
    BY <2>1, <2>2, <2>3, <2>4
<1>1. CASE ClientStep
  <2>1. /\ rd' \in [Threads -> {"out", "nextEvent", "retry", "addSubevents"}]
        /\ etype' \in [Threads -> EventTypes]
        /\ \A t \in Threads : rd'[t] = "addSubevents" => rd[t] = "addSubevents"
    BY <1>0, <1>1 DEF ClientStep, EnterReadout
  <2>a. /\ UNCHANGED <<semVars, writerVars, senderVars, accepted>>
        /\ Buffer_number' \in Nat /\ Event_number' \in Nat
    <3>1. /\ UNCHANGED <<semVars, writerVars, senderVars, accepted>>
          /\ Buffer_number' \in {Buffer_number, 0, 1} /\ Event_number' \in {Event_number, 0, 1}
      BY <1>1 DEF ClientStep
    <3> QED
      BY <1>b, <3>1
  <2>2. CASE UNCHANGED bufVars
    BY <1>0, <2>1, <2>a, <2>2
  <2>3. ASSUME NEW t \in Threads, PrepareRun(t) PROVE Goal'
    <3>1. \A u \in Threads : rd'[u] # "addSubevents"
      BY <1>0, <2>1, <2>3, SessionAlone DEF PrepareRun, EnterReadout, Busy, BeginPlaces
    <3>2. /\ events' = [events EXCEPT !["Buffer1"] = << >>]
          /\ header' = [header EXCEPT !["Buffer1"] = NoEvent]
          /\ has_end' = [has_end EXCEPT !["Buffer1"] = 0]
          /\ Bufseq' = [Bufseq EXCEPT !["Buffer1"] = Buffer_number]
          /\ Runnr' = IF TheRun > 0 THEN [Runnr EXCEPT !["Buffer1"] = TheRun] ELSE Runnr
          /\ fillBuffer' = "Buffer1" /\ transportBuffer' = "Buffer2"
      BY <2>3 DEF PrepareRun, PrepareNext
    <3>3. /\ events' \in [Buffers -> Seq(Event)] /\ \A b \in Buffers : Len(events'[b]) <= Capacity
          /\ header' \in [Buffers -> Event \cup {NoEvent}]
          /\ Bufseq' \in [Buffers -> Nat] /\ Runnr' \in [Buffers -> Nat]
      BY <1>a, <1>b, <1>d, <3>2
    <3>4. /\ has_end' \in [Buffers -> {0, 1}]
          /\ fillBuffer' \in Buffers /\ transportBuffer' \in Buffers
      BY <1>a, <1>b, <3>2
    <3> QED
      BY <1>0, <2>1, <2>a, <3>1, <3>3, <3>4
  <2>4. ASSUME NEW t \in Threads, SizesFail(t) PROVE Goal'
    <3>1. \A u \in Threads : rd'[u] # "addSubevents"
      BY <1>0, <2>1, <2>4, SessionAlone DEF SizesFail, Busy, BeginPlaces, ControlInv, BusyPlaces
    <3> QED
      BY <1>0, <1>a, <2>1, <2>a, <2>4, <3>1 DEF SizesFail
  <2> QED
    BY <1>1, <2>2, <2>3, <2>4 DEF ClientStep
<1>2. ASSUME NEW t \in Threads, Readout(t) PROVE Goal'
  <2>0. \A u \in Threads : u # t => rd[u] = "out"
    BY <1>0, <1>2 DEF Exclusive, Busy, Readout, ReadoutStep, NextEvent, BufferFull,
        DropEmptyEvent, KeepEvent
  <2>1. CASE NextEvent(t)
    <3>1. [run |-> Runnr[fillBuffer], type |-> etype[t], num |-> Event_number] \in Event
      <4>1. etype[t] \in EventTypes
        BY <1>0
      <4> QED
        BY <1>b, <4>1 DEF Event
    <3> QED
      BY <1>0, <2>0, <2>1, <3>1 DEF NextEvent
  <2>2. CASE BufferFull(t) \/ DropEmptyEvent(t)
    BY <1>0, <1>a, <2>0, <2>2 DEF BufferFull, DropEmptyEvent
  <2>3. ASSUME NEW timeUp \in BOOLEAN, KeepEvent(t, timeUp) PROVE Goal'
    <3>1. Len(events[fillBuffer]) < Capacity /\ header[fillBuffer] \in Event
      BY <1>0, <2>3 DEF KeepEvent
    <3>2. /\ events' = [events EXCEPT ![fillBuffer] = Append(events[fillBuffer], header[fillBuffer])]
          /\ accepted' = Append(accepted, header[fillBuffer])
      BY <2>3 DEF KeepEvent
    <3>3. accepted' \in Seq(Event) /\ events' \in [Buffers -> Seq(Event)]
      BY <1>0, <3>1, <3>2
    <3>4. \A b \in Buffers : Len(events'[b]) <= Capacity
      BY <1>0, <3>1, <3>2
    <3>5. \A u \in Threads : rd'[u] # "addSubevents"
      BY <1>0, <2>0, <2>3 DEF KeepEvent
    <3>6. /\ header' \in [Buffers -> Event \cup {NoEvent}] /\ Event_number' \in Nat
          /\ UNCHANGED <<semVars, fillBuffer, transportBuffer, has_end, Bufseq, Runnr,
                         Buffer_number, etype, writerVars, senderVars>>
      BY <1>0, <1>a, <2>3 DEF KeepEvent
    <3> QED
      BY <1>0, <3>3, <3>4, <3>5, <3>6
  <2> QED
    BY <1>2, <2>1, <2>2, <2>3 DEF Readout, ReadoutStep
<1>3. ASSUME NEW t \in Threads, Switch(t) PROVE Goal'
  <2>1. CASE Swap(t)
    <3>1. \A u \in Threads : rd[u] # "addSubevents"
      BY <1>0, <2>1 DEF Exclusive, Busy, Swap
    <3>2. /\ events' = [events EXCEPT ![transportBuffer] = << >>]
          /\ header' = [header EXCEPT ![transportBuffer] = NoEvent]
          /\ has_end' = [[has_end EXCEPT ![fillBuffer] = 1] EXCEPT ![transportBuffer] = 0]
          /\ Bufseq' = [Bufseq EXCEPT ![transportBuffer] = Buffer_number + 1]
          /\ Runnr' = IF TheRun > 0 THEN [Runnr EXCEPT ![transportBuffer] = TheRun] ELSE Runnr
          /\ fillBuffer' = transportBuffer /\ transportBuffer' = fillBuffer
      BY <2>1 DEF Swap, PrepareNext
    <3>3. /\ events' \in [Buffers -> Seq(Event)] /\ \A b \in Buffers : Len(events'[b]) <= Capacity
          /\ header' \in [Buffers -> Event \cup {NoEvent}]
          /\ Bufseq' \in [Buffers -> Nat] /\ Runnr' \in [Buffers -> Nat]
      <4>1. Buffer_number + 1 \in Nat
        BY <1>b
      <4> QED
        BY <1>b, <1>d, <3>2, <4>1
    <3>4. /\ has_end' \in [Buffers -> {0, 1}]
          /\ fillBuffer' \in Buffers /\ transportBuffer' \in Buffers
      BY <1>b, <3>2
    <3>6. /\ Buffer_number' \in Nat /\ rd' = rd
          /\ UNCHANGED <<semVars, Event_number, etype, writerVars, senderVars, accepted>>
      BY <1>0, <2>1 DEF Swap
    <3>7. \A u \in Threads : rd'[u] # "addSubevents"
      BY <3>1, <3>6
    <3> QED
      BY <1>0, <3>3, <3>4, <3>6, <3>7
  <2>2. CASE LockWriteProtect(t) \/ LockSendProtect(t) \/ UnlockWrite(t) \/ UnlockSend(t)
    BY <1>0, <2>2 DEF LockWriteProtect, LockSendProtect, UnlockWrite, UnlockSend
  <2> QED
    BY <1>3, <2>1, <2>2 DEF Switch, SwitchStep
<1>4. CASE WriterStep
  <2>1. CASE WriterTake
    BY <1>0, <2>1 DEF WriterTake, SealTransport
  <2>2. CASE WriterStore
    <3>1. file[wfd] \o events[wbuf] \in Seq(Event) /\ Append(fileBufs[wfd], Bufseq[wbuf]) \in Seq(Nat)
      BY <1>0, <2>2 DEF WriterStore
    <3> QED
      BY <1>0, <2>2, <3>1 DEF WriterStore, WriterRelease
  <2>3. CASE WriterFail \/ WriterSkip
    BY <1>0, <2>3 DEF WriterFail, WriterSkip, WriterRelease
  <2> QED
    BY <1>4, <2>1, <2>2, <2>3 DEF WriterStep
<1>5. CASE SenderStep
  <2>1. monitored \o events[sbuf] \in Seq(Event)
    BY <1>0
  <2> QED
    BY <1>0, <1>5, <2>1 DEF SenderStep, SenderTake, SenderDone, SealTransport
<1> QED
  BY <1>1, <1>2, <1>3, <1>4, <1>5, StepKinds

\* HandOverInv is an invariant of every calm run control.
LEMMA HandOverNext ==
    ASSUME CalmOperation, HandOverInv, [RCNext]_allVars
    PROVE  HandOverInv'
<1>1. ControlInv' /\ Exclusive' /\ WriteToken' /\ SendToken'
  BY ControlNext, TokensStep DEF HandOverInv
<1>2. BufferTypes' /\ RollFits' /\ OpenAgrees' /\ WriterFile'
  BY BufferTypesStep, RunNumbersStep, OpenAgreesStep, WriterFileStep DEF HandOverInv
<1>3. RCTypeOK'
  BY <1>1, BufferTypesStep, RunNumbersStep, WriterFileStep, FlagTypesStep
  DEF HandOverInv, ControlInv, ControlTypes, RCTypeOK
<1> QED
  BY <1>1, <1>2, <1>3 DEF HandOverInv

LEMMA HandOverInit == RCInit => HandOverInv
<1> SUFFICES ASSUME RCInit PROVE HandOverInv
  OBVIOUS
<1>0. /\ ControlInv /\ evt \in Threads /\ DATAEVENT \in EventTypes /\ Capacity \in Nat \ {0}
      /\ RunBound \in Nat /\ DeviceBound \in Nat
  BY ControlInit, RunControlAssumption, ExchangeAssumption
<1>1. BufferTypes
  BY <1>0 DEF RCInit, BufferTypes, Buffers
<1>2. events \in [Buffers -> Seq(Event)] /\ \A b \in Buffers : Len(events[b]) <= Capacity
  BY <1>0 DEF RCInit
<1>3. daq_open_flag \in BOOLEAN /\ file_is_open \in BOOLEAN
  BY DEF RCInit
<1>4. RCTypeOK
  BY <1>0, <1>2, <1>3 DEF RCInit, RCTypeOK, ControlInv, ControlTypes
<1>5. OpenAgrees
  BY DEF RCInit, OpenAgrees
<1>6. RollFits /\ WriterFile
  BY <1>0 DEF RCInit, RollFits, WriterFile, EndPlaces
<1>7. Exclusive /\ WriteToken /\ SendToken
  BY DEF RCInit, Exclusive, Busy, WriteToken, SendToken
<1> QED
  BY <1>0, <1>1, <1>4, <1>5, <1>6, <1>7 DEF HandOverInv

LEMMA HandOverInvariance ==
    ASSUME CalmOperation PROVE RCSpec => []HandOverInv
<1>1. HandOverInv /\ [RCNext]_allVars => HandOverInv'
  BY HandOverNext
<1> QED
  BY <1>1, HandOverInit, PTL DEF RCSpec

\* The types of run control, and the limit of the buffers across runs.
THEOREM RunControlTypes ==
    ASSUME CalmOperation PROVE RCSpec => []RCTypeOK
<1>1. HandOverInv => RCTypeOK
  BY DEF HandOverInv
<1> QED
  BY <1>1, HandOverInvariance, PTL

\* The writer thread never adds to a file that daq_end() or a rollover has closed,
\* whatever files fail to open and whatever logging is switched on or off.
THEOREM ClosedFiles ==
    ASSUME CalmOperation PROVE RCSpec => ClosedFilesKept
<1> DEFINE Kept == \A r \in existing : outfile_fd # r => file'[r] = file[r]
<1>1. ASSUME HandOverInv, [RCNext]_allVars PROVE Kept
  <2>1. CASE WriterStore
    <3>1. wfd = outfile_fd /\ file' = [file EXCEPT ![wfd] = file[wfd] \o events[wbuf]]
      BY <1>1, <2>1 DEF HandOverInv, WriterFile, WriterStore, WriterRelease
    <3>2. existing \subseteq Fds /\ file \in [Fds -> Seq(Event)]
      BY <1>1 DEF HandOverInv, RCTypeOK, BufferTypes
    <3> QED
      BY <3>1, <3>2
  <2>2. CASE ~WriterStore
    <3>1. file' = file
      BY <1>1, <2>2, StepKinds DEF ClientStep, Readout, ReadoutStep, NextEvent, BufferFull,
          DropEmptyEvent, KeepEvent, Switch, SwitchStep, LockWriteProtect, LockSendProtect, Swap,
          UnlockWrite, UnlockSend, WriterStep, WriterTake, WriterFail, WriterSkip, SenderStep,
          SenderTake, SenderDone
    <3> QED
      BY <3>1
  <2> QED
    BY <2>1, <2>2
<1>2. HandOverInv /\ [RCNext]_allVars => [Kept]_allVars
  BY <1>1
<1> QED
  BY <1>2, HandOverInvariance, PTL DEF RCSpec, ClosedFilesKept

=============================================================================
