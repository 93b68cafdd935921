---------------------------- MODULE RunStreamProofs ----------------------------
(***************************************************************************)
(* Across runs, each file is the stream of its run: from begin-run to      *)
(* end-run event, nothing lost, nothing of another run; and what the       *)
(* monitors get is one event stream.  RunInv is proved part by part, under *)
(* CalmOperation and PlainRuns; each lemma assumes the parts it needs.     *)
(***************************************************************************)
EXTENDS RunControlProofs, BufferNumbersProofs

-----------------------------------------------------------------------------
(* The inductive invariant behind StableWhileInUse, FileIsWholeRun,         *)
(* RunIsBracketed and MonitorIsBracketed.                                   *)

\* Every run has a number of its own and the event sizes fit; open() fails in
\* daq_begin, if at all, and not in a rollover, which goes on without its file;
\* logging is switched on only where daq_begin then waits for the writer.
PlainRuns ==
    /\ RunNumbers = {0} /\ ~SizesMayFail
    /\ OpenMayFail => ~MaxVolume
    /\ BeginWaits \/ "daq_open" \notin Commands

\* Some thread is at one of these places.
At(places) == \E t \in Threads : pc[t] \in places

\* The buffers are not yet prepared for the current run, or its end is over.
Unprepared == At({"open", "count", "prepare"}) \/ (~Running /\ ~At(EndPlaces))

\* EventLoop works, and a run is rolled over, during a run only, the latter when
\* max_volume is set.
RunPlaces ==
    /\ job[evt] = "roll" \/ pc[evt] = "rollOver" \/ rstatus = 2 => MaxVolume
    /\ job[evt] = "roll" \/ pc[evt] \in {"reading", "rollOver"} => Running
    /\ \A c \in Cmds : job[c] = "begin" /\ pc[c] \in {"open", "count"} => ~Running

\* The open file is that of the current run.
FileOfRun ==
    /\ outfile_fd # 0 => /\ outfile_fd = TheRun /\ ~At({"open", "reset"})
                         /\ Running \/ At({"count", "prepare", "endrun", "flush", "close"})
    /\ fillBuffer # transportBuffer

\* With logging enabled, a run that is prepared has its file open.
LoggingOpens ==
    \/ Running /\ pc[evt] \notin {"reset", "open"}
    \/ At({"count", "prepare"})
    \/ ~BeginWaits /\ \E c \in Cmds : pc[c] \in {"endrun", "flush", "close"}
    => (daq_open_flag => outfile_fd # 0)

\* Run numbers grow: those of the events and files there are have been used
\* before, and a new run has a new number.
NumbersGrow ==
    /\ \A i \in DOMAIN accepted : accepted[i].run <= TheRun
    /\ \A r \in existing : r <= TheRun
    /\ outfile_fd # 0 => outfile_fd \in existing
    /\ At({"open", "count", "prepare"}) => \A i \in DOMAIN accepted : accepted[i].run < TheRun
    /\ At({"open"}) => TheRun \notin existing
    /\ \A r \in Fds \ existing : file[r] = << >> /\ fileBufs[r] = << >>
    /\ At({"count", "prepare"}) /\ outfile_fd # 0 =>
            file[outfile_fd] = << >> /\ fileBufs[outfile_fd] = << >>
    /\ \/ Running /\ pc[evt] # "reset"
       \/ At({"open", "count", "prepare", "begrun", "endrun", "flush"})
       => (TheRun \in existing => outfile_fd = TheRun)

\* The file of the run is about to be opened or closed, or has just been.
Settled ==
    \/ At({"close"})
    \/ outfile_fd # 0 /\ At({"count", "prepare"})
    \/ daq_open_flag /\ \/ At({"open"})
                        \/ pc[evt] = "reset" /\ job[evt] = "roll"
                        \/ ~BeginWaits /\ ~Running /\ ~At({"endrun", "flush", "close"})

\* Outside a run the fill buffer is empty, and when the file is opened or closed
\* the writer has nothing left.
NothingLeft ==
    /\ Unprepared \/ At({"close", "reset"}) => events[fillBuffer] = << >>
    /\ \A t \in Threads : pc[t] = "flush" =>
            /\ rd[t] = "out"
            /\ sw[t] \in {"unlockWrite", "unlockSend", "out"} => events[fillBuffer] = << >>
    /\ Settled => ~WriterOwes

\* The type of the events that are read at a place.
TypeAt(place) ==
    CASE place = "begrun" -> BEGRUNEVENT
      [] place = "endrun" -> ENDRUNEVENT
      [] OTHER            -> DATAEVENT

\* The fill buffer and the event that is open in it are those of the run.
OwnRun ==
    /\ ~Unprepared => Runnr[fillBuffer] = TheRun /\ TheRun > 0
    /\ \A t \in Threads : rd[t] # "out" => etype[t] = TypeAt(pc[t])
    /\ SubeventsGoToOwnEvent

\* The consumers read a closed buffer, the transport buffer.
ConsumersApart ==
    /\ writer = "writing" /\ wfd # 0 => wbuf = transportBuffer
    /\ writer = "writing" /\ outfile_fd # 0 => wfd = outfile_fd
    /\ outfile_fd # 0 /\ WriterOwes => has_end[transportBuffer] = 1
    /\ SenderKeepsUp =>
        /\ sender = "sending" => sbuf = transportBuffer
        /\ SenderOwes => has_end[transportBuffer] = 1

\* All that the open file will get.
Stream == Stored \o ForWriter

\* The events readout() kept before those of the open file.
Earlier == Len(accepted) - Len(Stream)

\* The open file and the buffers on the way to it hold the events of the run,
\* which are the last ones, numbered from 1.
StreamIsRun ==
    outfile_fd # 0 /\ dropped = {} =>
        /\ Earlier >= 0
        /\ \A i \in DOMAIN accepted : accepted[i].run = TheRun <=> i > Earlier
        /\ \A i \in DOMAIN Stream :
                Stream[i] = accepted[Earlier + i] /\ Stream[i].num = i

\* The counters of the run go with its stream, and its buffers are numbered
\* from 1 without a gap.
StreamCounts ==
    outfile_fd # 0 /\ dropped = {} =>
        /\ \A i \in DOMAIN StoredBufs : StoredBufs[i] = i
        /\ At({"prepare"}) => Event_number = 1 /\ Buffer_number = 1
        /\ ~At({"count", "prepare"}) =>
            /\ Len(Stream) = Event_number - 1 /\ Len(StoredBufs) = LastDone
            /\ Bufseq[fillBuffer] = Buffer_number
            /\ WriterOwes => Bufseq[transportBuffer] = Buffer_number - 1

\* The begin-run event of the current run is being read; it is kept; the end-run
\* event is kept.
Opening == \E t \in Threads : pc[t] = "begrun" /\ rd[t] # "out"
Begun == ~Unprepared /\ ~Opening
Ended ==
    \/ At({"flush", "close", "reset"})
    \/ \E t \in Threads : pc[t] = "endrun" /\ rd[t] = "out"

\* The events follow each other from mark to mark: a begin-run event where the
\* run number changes, an end-run event before it.
RunsMarked ==
    /\ \A i \in DOMAIN accepted :
        /\ accepted[i].type = BEGRUNEVENT <=> i = 1 \/ accepted[i - 1].run # accepted[i].run
        /\ i < Len(accepted) =>
                (accepted[i].type = ENDRUNEVENT <=> accepted[i + 1].run # accepted[i].run)
    /\ Begun => Len(accepted) > 0
    /\ Len(accepted) > 0 =>
        LET last == accepted[Len(accepted)]
        IN  /\ last.type = ENDRUNEVENT <=> ~Begun \/ Ended
            /\ Begun => last.run = TheRun
            /\ Opening => last.run # TheRun

RunInv ==
    /\ HandOverInv /\ RunPlaces /\ FileOfRun /\ LoggingOpens /\ NumbersGrow /\ NothingLeft
    /\ OwnRun /\ ConsumersApart /\ StreamIsRun /\ StreamCounts /\ FileIsWholeRun

MarkedInv == RunInv /\ RunsMarked

-----------------------------------------------------------------------------
USE DEF semVars, bufVars, countVars, runVars, writerVars, senderVars, triggerVars, readlist,
        runFlags, rcVars

\* The parts of HandOverInv, with the types of what the places are about.
PlaceTypes ==
    /\ pc \in [Threads -> {"idle", "open", "count", "prepare", "begrun", "sleep", "endrun",
                           "flush", "close", "reset", "reading", "autoEnd", "rollOver",
                           "fake", "create"}]
    /\ job \in [Threads -> {"none", "begin", "end", "roll"}]

LEMMA HandOverParts ==
    ASSUME HandOverInv
    PROVE  /\ Running \in BOOLEAN /\ daq_open_flag \in BOOLEAN
           /\ PlaceTypes /\ ControlInv /\ JobPlaces /\ BusyPlaces /\ BeginAlone
           /\ RunningPlaces /\ BufferTypes /\ OpenAgrees /\ WriterFile /\ Exclusive
           /\ WriteToken /\ SendToken
BY DEF HandOverInv, RCTypeOK, ControlInv, PlaceTypes

\* Inside readout() and switch_buffer() a thread stays where it is in run control.
LEMMA InsideStays ==
    ASSUME NEW t \in Threads, Readout(t) \/ Switch(t)
    PROVE  /\ Running' = Running /\ daq_open_flag' = daq_open_flag
           /\ UNCHANGED <<pc, job, TheRun, outfile_fd, existing>> /\ Busy(t)
BY DEF Busy, Readout, ReadoutStep, NextEvent, BufferFull, DropEmptyEvent, KeepEvent, Switch, SwitchStep,
       LockWriteProtect, LockSendProtect, Swap, UnlockWrite, UnlockSend

-----------------------------------------------------------------------------
\* EventLoop works, and rolls a run over, during a run only.
LEMMA RunPlacesStep ==
    ASSUME CalmOperation, HandOverInv, RunPlaces, [RCNext]_allVars
    PROVE  RunPlaces'
<1> USE DEF RunPlaces, PlaceTypes, JobPlaces, BeginAlone, RunningPlaces, BeginPlaces, EndPlaces, Goto, Finish
<1>0. PICK c : Cmds = {c} /\ Threads = {evt, c} /\ c # evt
  BY TwoThreads
<1>a. PlaceTypes /\ JobPlaces /\ BeginAlone /\ RunningPlaces
  BY HandOverParts
<1>b. Running \in BOOLEAN /\ rstatus \in 0 .. 2
  BY HandOverParts DEF ControlInv, ControlTypes
<1>1. ASSUME NEW t \in Threads, Command(t) PROVE RunPlaces'
  <2>1. ASSUME NEW irun \in RunNumbers, DaqBegin(t, irun) PROVE RunPlaces'
    <3>1. Running' = Running
      BY <2>1 DEF DaqBegin
    <3> QED
      BY <1>0, <1>a, <1>b, <2>1, <3>1 DEF DaqBegin
  <2>2. CASE DaqEnd(t) \/ DaqOpen(t) \/ DaqClose(t) \/ FakeTrigger(t) \/ CreateDevice(t)
    BY <1>0, <1>a, <1>b, <2>2 DEF DaqEnd, StartEnd, DaqOpen, DaqClose, FakeTrigger, CreateDevice
  <2> QED
    BY <1>1, <2>1, <2>2 DEF Command
<1>2. ASSUME NEW t \in Threads, BeginStep(t) PROVE RunPlaces'
  <2>1. CASE StartCounting(t)
    <3>1. CASE t = c
      <4>1. Running' = TRUE
        BY <1>0, <1>a, <2>1, <3>1 DEF StartCounting
      <4> QED
        BY <1>0, <1>a, <1>b, <2>1, <3>1, <4>1 DEF StartCounting
    <3>2. CASE t = evt
      <4>1. Running' = Running
        BY <1>0, <1>a, <2>1, <3>2 DEF StartCounting
      <4> QED
        BY <1>0, <1>a, <1>b, <2>1, <3>2, <4>1 DEF StartCounting
    <3> QED
      BY <1>0, <3>1, <3>2
  <2>2. CASE ~StartCounting(t)
    BY <1>0, <1>a, <1>b, <1>2, <2>2 DEF BeginStep, OpenFile, OpenFails, PrepareRun, SizesFail,
        BeginDone
  <2> QED
    BY <2>1, <2>2
<1>3. ASSUME NEW t \in Threads, EndStep(t) PROVE RunPlaces'
  <2>1. CASE WakeUp(t)
    <3>1. Running' = FALSE
      BY <1>b, <2>1, <1>0, <1>a DEF WakeUp
    <3> QED
      BY <1>0, <1>a, <1>b, <2>1, <3>1 DEF WakeUp, Quiet, CalmOperation
  <2>2. CASE ~WakeUp(t)
    BY <1>0, <1>a, <1>b, <1>3, <2>2 DEF EndStep, Flush, AwaitWriter, CloseFile, ResetCounters
  <2> QED
    BY <2>1, <2>2
<1>4. ASSUME NEW t \in Threads,
             FakeDone(t) \/ Readout(t) \/ Switch(t) \/ AddReadoutdevice(t) \/ DeviceRefused(t)
      PROVE  RunPlaces'
  <2>1. CASE Readout(t) \/ Switch(t)
    <3>1. ASSUME Readout(t), rstatus' # rstatus, rstatus' = 2 PROVE MaxVolume
      <4>1. PICK full \in {FALSE, MaxVolume /\ TheRun < RunBound} : rstatus' = ReturnCode(t, full)
        BY <3>1 DEF Readout
      <4>2. full
        BY <3>1, <4>1 DEF ReturnCode
      <4>3. full = FALSE \/ full = (MaxVolume /\ TheRun < RunBound)
        BY <4>1
      <4> QED
        BY <4>2, <4>3, Zenon
    <3>2. rstatus' = 2 => rstatus = 2 \/ MaxVolume
      BY <2>1, <3>1 DEF Switch
    <3> QED
      BY <2>1, <3>2, InsideStays
  <2>2. CASE FakeDone(t) \/ AddReadoutdevice(t) \/ DeviceRefused(t)
    BY <1>0, <1>a, <1>b, <2>2 DEF FakeDone, AddReadoutdevice, DeviceRefused
  <2> QED
    BY <1>4, <2>1, <2>2
<1>5. CASE EventLoopStep
  BY <1>0, <1>a, <1>b, <1>5 DEF EventLoopStep, EventTrigger, NotActive, EventDone, AutoEnd,
      StartEnd, RollOver
<1>6. ASSUME NEW l \in Loops, LoopStep(l) PROVE RunPlaces'
  BY <1>6 DEF LoopStep, LoopCheck, NoTrigger, LoopFire, LoopDone
<1>7. CASE UNCHANGED rcVars
  BY <1>7
<1> QED
  BY <1>1, <1>2, <1>3, <1>4, <1>5, <1>6, <1>7 DEF RCNext, ThreadStep, allVars

-----------------------------------------------------------------------------
(* The steps of plain runs                                                   *)

\* daq_begin returns -1 as open() fails.
BeginFails(t) ==
    /\ job[t] = "begin" /\ pc[t] = "open" /\ ~Running
    /\ daq_open_flag /\ outfile_fd = 0
    /\ Finish(t)
    /\ UNCHANGED <<vars, triggerVars, runFlags, rstatus>>

\* The steps that begin, end or roll over a run, and daq_open.
SessionStep(t) ==
    \/ OpenFile(t) \/ StartCounting(t) \/ PrepareRun(t) \/ BeginDone(t)
    \/ WakeUp(t) \/ Flush(t) \/ AwaitWriter(t) \/ CloseFile(t) \/ ResetCounters(t)
    \/ DaqBegin(t, 0) \/ BeginFails(t) \/ (t = evt /\ RollOver) \/ DaqOpen(t)

\* Where a thread is when it is not at work on the beginning or end of a run.
Elsewhere == {"idle", "sleep", "reading", "autoEnd", "rollOver", "fake", "create"}

\* What the other steps outside readout() and switch_buffer() may do.
OtherStep ==
    /\ UNCHANGED <<semVars, bufVars, countVars, runVars, sw, writerVars, senderVars, accepted,
                   existing>>
    /\ Running' = Running
    /\ daq_open_flag' = daq_open_flag \/ daq_open_flag' = FALSE
    /\ \A t \in Threads : \/ pc'[t] = pc[t] /\ job'[t] = job[t]
                          \/ pc[t] \in Elsewhere /\ pc'[t] \in Elsewhere
    /\ \/ UNCHANGED <<rd, etype>>
       \/ Running /\ pc[evt] = "idle" /\ pc'[evt] = "reading" /\ EnterReadout(evt, DATAEVENT)

\* In plain runs nothing fails but open() in daq_begin, and every step is of one of these kinds.
LEMMA RunSteps ==
    ASSUME CalmOperation, PlainRuns, HandOverInv, RunPlaces, FileOfRun, NumbersGrow,
           [RCNext]_allVars
    PROVE  \/ \E t \in Threads : SessionStep(t) \/ Readout(t) \/ Switch(t)
           \/ (WriterStep \/ SenderStep) /\ UNCHANGED rcVars
           \/ OtherStep
<1> USE DEF Goto, Finish, Elsewhere, PlaceTypes, JobPlaces
<1>0. PICK c : Cmds = {c} /\ Threads = {evt, c} /\ c # evt
  BY TwoThreads
<1>a. PlaceTypes /\ JobPlaces /\ OpenAgrees
  BY HandOverParts
<1>1. ASSUME NEW t \in Threads, Command(t) PROVE SessionStep(t) \/ OtherStep
  <2>1. ASSUME NEW irun \in RunNumbers, DaqBegin(t, irun) PROVE SessionStep(t)
    BY <2>1 DEF PlainRuns, SessionStep
  <2>2. CASE DaqEnd(t) \/ FakeTrigger(t) \/ CreateDevice(t)
    BY <1>0, <1>a, <2>2 DEF DaqEnd, StartEnd, FakeTrigger, CreateDevice, OtherStep, vars
  <2>3. CASE DaqClose(t)
    BY <1>0, <1>a, <2>3 DEF DaqClose, OtherStep, vars
  <2> QED
    BY <1>1, <2>1, <2>2, <2>3 DEF Command, SessionStep
<1>2. ASSUME NEW t \in Threads, BeginStep(t) PROVE SessionStep(t)
  <2>1. ~SizesFail(t)
    BY DEF SizesFail, PlainRuns
  <2>2. ASSUME OpenFails(t) PROVE BeginFails(t)
    <3>1. pc[t] = "open" /\ daq_open_flag
      BY <2>2 DEF OpenFails
    <3>2. outfile_fd = 0 /\ ~file_is_open /\ TheRun \notin existing
      BY <1>a, <3>1 DEF OpenAgrees, FileOfRun, NumbersGrow, At
    <3>3. OpenMayFail
      BY <2>2, <3>2 DEF OpenFails
    <3>4. job[evt] # "roll"
      BY <3>3 DEF PlainRuns, RunPlaces
    <3>5. t \in Cmds /\ job[t] = "begin"
      BY <1>0, <1>a, <3>1, <3>4 DEF BeginPlaces, EndPlaces
    <3>6. ~Running
      BY <3>1, <3>5 DEF RunPlaces
    <3> QED
      BY <2>2, <3>1, <3>2, <3>5, <3>6 DEF OpenFails, BeginFails, vars, runVars
  <2> QED
    BY <1>2, <2>1, <2>2 DEF BeginStep, SessionStep
<1>3. ASSUME NEW t \in Threads, EndStep(t) PROVE SessionStep(t)
  BY <1>3 DEF EndStep, SessionStep
<1>4. ASSUME NEW t \in Threads, FakeDone(t) \/ AddReadoutdevice(t) \/ DeviceRefused(t)
      PROVE  OtherStep
  BY <1>0, <1>a, <1>4 DEF FakeDone, AddReadoutdevice, DeviceRefused, OtherStep, vars
<1>5. CASE EventLoopStep
  <2>1. CASE EventTrigger
    BY <1>0, <1>a, <2>1 DEF EventTrigger, OtherStep
  <2>2. CASE NotActive
    BY <1>0, <1>a, <2>2 DEF NotActive, OtherStep, vars
  <2>3. CASE EventDone
    <3>1. rstatus \in 0 .. 2
      BY HandOverParts DEF ControlInv, ControlTypes
    <3> QED
      BY <1>0, <1>a, <2>3, <3>1 DEF EventDone, OtherStep, vars
  <2>4. CASE AutoEnd
    BY <1>0, <1>a, <2>4 DEF AutoEnd, StartEnd, OtherStep, vars
  <2>5. CASE RollOver
    BY <1>0, <2>5 DEF SessionStep
  <2> QED
    BY <1>5, <2>1, <2>2, <2>3, <2>4, <2>5 DEF EventLoopStep
<1>6. ASSUME NEW l \in Loops, LoopStep(l) PROVE OtherStep
  BY <1>6 DEF LoopStep, LoopCheck, NoTrigger, LoopFire, LoopDone, OtherStep, vars
<1>7. CASE UNCHANGED allVars
  BY <1>7 DEF allVars, vars, OtherStep
<1> QED
  BY <1>1, <1>2, <1>3, <1>4, <1>5, <1>6, <1>7 DEF RCNext, ThreadStep

\* The file that is open stays that of the current run.
LEMMA FileOfRunStep ==
    ASSUME CalmOperation, PlainRuns, HandOverInv, RunPlaces, FileOfRun, NumbersGrow,
           [RCNext]_allVars
    PROVE  FileOfRun'
<1> USE DEF FileOfRun, At, PlaceTypes, JobPlaces, RunningPlaces, RunPlaces, BeginPlaces, EndPlaces,
            Goto, Finish
<1>0. PICK c : Cmds = {c} /\ Threads = {evt, c} /\ c # evt
  BY TwoThreads
<1>a. PlaceTypes /\ JobPlaces /\ RunningPlaces
  BY HandOverParts
<1>b. \A t, u \in Threads : t # u /\ pc[t] \in BeginPlaces \cup EndPlaces =>
            pc[u] \notin BeginPlaces \cup EndPlaces
  BY SessionAlone, HandOverParts
<1>1. ASSUME NEW t \in Threads, OpenFile(t) PROVE FileOfRun'
  <2>1. UNCHANGED <<fillBuffer, transportBuffer, TheRun>> /\ pc' = [pc EXCEPT ![t] = "count"]
    BY <1>1 DEF OpenFile
  <2>2. outfile_fd' # 0 => outfile_fd' = TheRun
    <3>1. outfile_fd = 0
      BY <1>1 DEF OpenFile
    <3> QED
      BY <1>1, <3>1 DEF OpenFile
  <2>3. pc[t] = "open"
    BY <1>1 DEF OpenFile
  <2> QED
    BY <1>0, <1>a, <1>b, <2>1, <2>2, <2>3
<1>2. ASSUME NEW t \in Threads, StartCounting(t) PROVE FileOfRun'
  BY <1>0, <1>a, <1>b, <1>2 DEF StartCounting
<1>3. ASSUME NEW t \in Threads, PrepareRun(t) PROVE FileOfRun'
  <2>1. Running /\ Running' = Running
    BY <1>0, <1>a, <1>3 DEF PrepareRun
  <2> QED
    BY <1>0, <1>a, <1>b, <1>3, <2>1 DEF PrepareRun
<1>4. ASSUME NEW t \in Threads, BeginDone(t) PROVE FileOfRun'
  <2>1. Running /\ Running' = Running
    BY <1>0, <1>a, <1>4 DEF BeginDone
  <2> QED
    BY <1>0, <1>a, <1>b, <1>4, <2>1 DEF BeginDone, vars
<1>5. ASSUME NEW t \in Threads, WakeUp(t) PROVE FileOfRun'
  <2>1. /\ UNCHANGED <<fillBuffer, transportBuffer, TheRun, outfile_fd>>
        /\ pc' = [pc EXCEPT ![t] = "endrun"] /\ pc[t] = "sleep"
    BY <1>5 DEF WakeUp
  <2> QED
    BY <1>0, <1>a, <2>1
<1>6. ASSUME NEW t \in Threads, Flush(t) PROVE FileOfRun'
  BY <1>0, <1>a, <1>b, <1>6 DEF Flush
<1>7. ASSUME NEW t \in Threads, AwaitWriter(t) PROVE FileOfRun'
  <2>1. outfile_fd # 0 => file_is_open
    BY HandOverParts DEF OpenAgrees
  <2>2. outfile_fd # 0 => pc' = [pc EXCEPT ![t] = "close"]
    BY <1>7, <2>1 DEF AwaitWriter
  <2>3. UNCHANGED <<fillBuffer, transportBuffer, TheRun, outfile_fd, Running>> /\ pc[t] = "flush"
    BY <1>7 DEF AwaitWriter, vars
  <2> QED
    BY <1>0, <1>a, <1>b, <2>2, <2>3
<1>8. ASSUME NEW t \in Threads, CloseFile(t) PROVE FileOfRun'
  BY <1>8 DEF CloseFile
<1>9. ASSUME NEW t \in Threads, ResetCounters(t) PROVE FileOfRun'
  BY <1>9 DEF ResetCounters
<1>10. ASSUME NEW t \in Threads, DaqBegin(t, 0) PROVE FileOfRun'
  <2>1. ~At({"count", "prepare", "endrun", "flush", "close"})
    <3>1. t = c /\ pc[t] = "idle" /\ ~Running
      BY <1>0, <1>10 DEF DaqBegin
    <3>2. pc[evt] \notin {"count", "prepare", "endrun", "flush", "close"}
      BY <1>0, <1>a, <1>10, <3>1 DEF DaqBegin, AtRest, CalmOperation
    <3> QED
      BY <1>0, <3>1, <3>2
  <2> QED
    BY <1>10, <2>1 DEF DaqBegin
<1>11. CASE RollOver
  BY <1>0, <1>a, <1>b, <1>11 DEF RollOver
<1>12. ASSUME NEW t \in Threads, DaqOpen(t) PROVE FileOfRun'
  BY <1>12 DEF DaqOpen, vars
<1>13. ASSUME NEW t \in Threads, Readout(t) \/ Switch(t) PROVE FileOfRun'
  <2>1. {fillBuffer', transportBuffer'} = {fillBuffer, transportBuffer}
    BY <1>13 DEF Readout, ReadoutStep, NextEvent, BufferFull, DropEmptyEvent, KeepEvent, Switch,
        SwitchStep, LockWriteProtect, LockSendProtect, Swap, UnlockWrite, UnlockSend
  <2> QED
    BY <1>13, <2>1, InsideStays
<1>14. CASE (WriterStep \/ SenderStep) /\ UNCHANGED rcVars
  BY <1>14 DEF WriterStep, WriterTake, WriterRelease, WriterStore, WriterFail, WriterSkip,
      SenderStep, SenderTake, SenderDone
<1>15. CASE OtherStep
  <2>1. /\ UNCHANGED <<fillBuffer, transportBuffer, TheRun, outfile_fd>> /\ Running' = Running
        /\ \A t \in Threads, p \in BeginPlaces \cup EndPlaces : pc'[t] = p <=> pc[t] = p
    BY <1>15 DEF OtherStep, Elsewhere
  <2> QED
    BY <1>0, <2>1
<1>16. ASSUME NEW t \in Threads, BeginFails(t) PROVE FileOfRun'
  BY <1>16 DEF BeginFails, vars
<1> QED
  BY <1>1, <1>2, <1>3, <1>4, <1>5, <1>6, <1>7, <1>8, <1>9, <1>10, <1>11, <1>12, <1>13, <1>14, <1>15,
     <1>16, RunSteps DEF SessionStep

\* With logging enabled the file is open from open_file() to close().
LEMMA LoggingOpensStep ==
    ASSUME CalmOperation, PlainRuns, HandOverInv, RunPlaces, FileOfRun, LoggingOpens, NumbersGrow,
           [RCNext]_allVars
    PROVE  LoggingOpens'
<1> USE DEF LoggingOpens, At, PlaceTypes, JobPlaces, RunningPlaces, RunPlaces, BeginPlaces,
            EndPlaces, Goto, Finish
<1>0. PICK c : Cmds = {c} /\ Threads = {evt, c} /\ c # evt
  BY TwoThreads
<1>a. PlaceTypes /\ JobPlaces /\ RunningPlaces
  BY HandOverParts
<1>b. \A t, u \in Threads : t # u /\ pc[t] \in BeginPlaces \cup EndPlaces =>
            pc[u] \notin BeginPlaces \cup EndPlaces
  BY SessionAlone, HandOverParts
<1>c. Running \in BOOLEAN /\ daq_open_flag \in BOOLEAN
  BY HandOverParts
<1>1. ASSUME NEW t \in Threads, OpenFile(t) PROVE LoggingOpens'
  <2>1. daq_open_flag' = daq_open_flag
    BY <1>1 DEF OpenFile
  <2>2. daq_open_flag => outfile_fd' # 0
    <3>1. TheRun > 0 /\ TheRun \in Nat
      BY <1>1, HandOverParts DEF OpenFile, WriterFile, HandOverInv, RCTypeOK
    <3> QED
      BY <1>1, <3>1 DEF OpenFile
  <2> QED
    BY <2>1, <2>2
<1>2. ASSUME NEW t \in Threads, StartCounting(t) PROVE LoggingOpens'
  <2>1. pc[t] = "count" /\ daq_open_flag' = daq_open_flag /\ outfile_fd' = outfile_fd
    BY <1>2 DEF StartCounting
  <2> QED
    BY <2>1
<1>3. ASSUME NEW t \in Threads, PrepareRun(t) PROVE LoggingOpens'
  <2>1. pc[t] = "prepare" /\ daq_open_flag' = daq_open_flag /\ outfile_fd' = outfile_fd
    BY <1>3 DEF PrepareRun
  <2> QED
    BY <2>1
<1>4. ASSUME NEW t \in Threads, BeginDone(t) PROVE LoggingOpens'
  <2>1. Running /\ daq_open_flag' = daq_open_flag /\ outfile_fd' = outfile_fd
    BY <1>0, <1>a, <1>4 DEF BeginDone, vars
  <2>2. pc[evt] \notin {"reset", "open"}
    BY <1>0, <1>b, <1>4 DEF BeginDone
  <2> QED
    BY <2>1, <2>2
<1>5. ASSUME NEW t \in Threads, WakeUp(t) PROVE LoggingOpens'
  <2>1. /\ daq_open_flag' = daq_open_flag /\ outfile_fd' = outfile_fd
        /\ pc' = [pc EXCEPT ![t] = "endrun"] /\ pc[t] = "sleep" /\ Running' = FALSE /\ Running
    BY <1>0, <1>a, <1>c, <1>5 DEF WakeUp
  <2>2. pc[evt] \notin {"reset", "open"}
    BY <1>0, <1>a, <1>5 DEF WakeUp, Quiet, CalmOperation
  <2> QED
    BY <1>0, <1>a, <2>1, <2>2
<1>6. ASSUME NEW t \in Threads, Flush(t) PROVE LoggingOpens'
  <2>1. /\ daq_open_flag' = daq_open_flag /\ outfile_fd' = outfile_fd /\ Running' = Running
        /\ pc' = [pc EXCEPT ![t] = "flush"] /\ pc[t] = "endrun"
    BY <1>6 DEF Flush
  <2> QED
    BY <1>0, <1>a, <1>b, <2>1
<1>7. ASSUME NEW t \in Threads, AwaitWriter(t) PROVE LoggingOpens'
  <2>1. /\ daq_open_flag' = daq_open_flag /\ outfile_fd' = outfile_fd /\ Running' = Running
        /\ pc[t] = "flush"
    BY <1>7 DEF AwaitWriter, vars
  <2>2. pc' = [pc EXCEPT ![t] = "close"] \/ pc' = [pc EXCEPT ![t] = "reset"]
    BY <1>7 DEF AwaitWriter
  <2> QED
    BY <1>0, <1>a, <1>b, <2>1, <2>2
<1>8. ASSUME NEW t \in Threads, CloseFile(t) PROVE LoggingOpens'
  <2>1. Running' = Running /\ pc' = [pc EXCEPT ![t] = "reset"] /\ pc[t] = "close"
    BY <1>8 DEF CloseFile
  <2>2. CASE t = evt
    BY <1>0, <1>a, <1>b, <2>1, <2>2
  <2>3. CASE t = c
    BY <1>0, <1>a, <1>b, <2>1, <2>3
  <2> QED
    BY <1>0, <2>2, <2>3
<1>9. ASSUME NEW t \in Threads, ResetCounters(t) PROVE LoggingOpens'
  <2>1. /\ daq_open_flag' = daq_open_flag /\ outfile_fd' = outfile_fd /\ Running' = Running
        /\ pc[t] = "reset"
        /\ IF job[t] = "roll" THEN pc' = [pc EXCEPT ![t] = "open"]
                              ELSE pc' = [pc EXCEPT ![t] = "idle"]
    BY <1>9 DEF ResetCounters
  <2> QED
    BY <1>0, <1>a, <1>b, <2>1
<1>10. ASSUME NEW t \in Threads, DaqBegin(t, 0) PROVE LoggingOpens'
  <2>1. /\ daq_open_flag' = daq_open_flag /\ outfile_fd' = outfile_fd /\ Running' = Running
        /\ pc[t] = "idle" /\ pc' = [pc EXCEPT ![t] = "open"] /\ t = c
    BY <1>0, <1>10 DEF DaqBegin
  <2> QED
    BY <1>0, <1>a, <2>1
<1>11. CASE RollOver
  <2>1. /\ daq_open_flag' = daq_open_flag /\ outfile_fd' = outfile_fd /\ Running' = Running
        /\ pc[evt] = "rollOver" /\ pc' = [pc EXCEPT ![evt] = "endrun"]
    BY <1>11 DEF RollOver
  <2> QED
    BY <1>0, <1>a, <2>1
<1>12. ASSUME NEW t \in Threads, DaqOpen(t) PROVE LoggingOpens'
  <2>1. BeginWaits
    BY <1>12 DEF PlainRuns, DaqOpen
  <2>2. ~Running /\ Running' = Running /\ UNCHANGED pc /\ t = c /\ pc[c] = "idle"
    BY <1>0, <1>12 DEF DaqOpen
  <2>3. pc[evt] \notin {"count", "prepare"}
    BY <1>0, <1>a, <2>2
  <2> QED
    BY <1>0, <2>1, <2>2, <2>3
<1>13. ASSUME NEW t \in Threads, Readout(t) \/ Switch(t) PROVE LoggingOpens'
  BY <1>13, InsideStays
<1>14. CASE (WriterStep \/ SenderStep) /\ UNCHANGED rcVars
  <2>1. outfile_fd' = outfile_fd
    BY <1>14 DEF WriterStep, WriterTake, WriterRelease, WriterStore, WriterFail, WriterSkip,
      SenderStep, SenderTake, SenderDone
  <2> QED
    BY <1>14, <2>1
<1>15. CASE OtherStep
  <2>1. /\ outfile_fd' = outfile_fd /\ Running' = Running
        /\ \A t \in Threads, p \in BeginPlaces \cup EndPlaces : pc'[t] = p <=> pc[t] = p
        /\ daq_open_flag' => daq_open_flag
    BY <1>c, <1>15 DEF OtherStep, Elsewhere
  <2> QED
    BY <1>0, <2>1
<1>16. ASSUME NEW t \in Threads, BeginFails(t) PROVE LoggingOpens'
  <2>1. /\ pc' = [pc EXCEPT ![t] = "idle"] /\ ~Running /\ Running' = Running
        /\ t = c /\ pc[evt] = "idle"
    BY <1>0, <1>a, <1>16, HandOverParts DEF BeginFails, BeginAlone
  <2> QED
    BY <1>0, <1>a, <2>1
<1> QED
  BY <1>1, <1>2, <1>3, <1>4, <1>5, <1>6, <1>7, <1>8, <1>9, <1>10, <1>11, <1>12, <1>13, <1>14, <1>15,
     <1>16, RunSteps DEF SessionStep

\* Run numbers grow, and a new file is empty.
LEMMA NumbersGrowStep ==
    ASSUME CalmOperation, PlainRuns, HandOverInv, RunPlaces, FileOfRun, NumbersGrow, NothingLeft,
           OwnRun, [RCNext]_allVars
    PROVE  NumbersGrow'
<1> USE DEF At, PlaceTypes, JobPlaces, RunningPlaces, RunPlaces, BeginPlaces, EndPlaces,
            Goto, Finish
<1>0. PICK c : Cmds = {c} /\ Threads = {evt, c} /\ c # evt
  BY TwoThreads
<1>a. PlaceTypes /\ JobPlaces /\ RunningPlaces
  BY HandOverParts
<1>b. \A t, u \in Threads : t # u /\ pc[t] \in BeginPlaces \cup EndPlaces =>
            pc[u] \notin BeginPlaces \cup EndPlaces
  BY SessionAlone, HandOverParts
<1>c. /\ TheRun \in Nat /\ existing \subseteq Nat /\ outfile_fd \in Nat /\ accepted \in Seq(Event)
      /\ \A i \in DOMAIN accepted : accepted[i].run \in Nat
  <2>1. /\ accepted \in Seq(Event) /\ existing \subseteq Fds
        /\ outfile_fd \in {0} \cup Fds /\ TheRun \in 0 .. RunBound
    BY DEF HandOverInv, RCTypeOK, BufferTypes
  <2>2. RunBound \in Nat /\ Fds = 1 .. RunBound
    BY RunControlAssumption
  <2>3. TheRun \in Nat /\ existing \subseteq Nat /\ outfile_fd \in Nat
    BY <2>1, <2>2
  <2>4. \A i \in DOMAIN accepted : accepted[i] \in Event
    BY <2>1
  <2>5. \A e \in Event : e.run \in Nat
    BY DEF Event
  <2> QED
    BY <2>1, <2>3, <2>4, <2>5
<1>d. file \in [Fds -> Seq(Event)] /\ fileBufs \in [Fds -> Seq(Nat)] /\ existing \subseteq Fds
  BY DEF HandOverInv, RCTypeOK, BufferTypes
\* Steps after which nothing but the places has changed.
<1>e. ASSUME UNCHANGED <<accepted, TheRun, existing, outfile_fd, file, fileBufs>>,
             At({"open", "count", "prepare"})' => At({"open", "count", "prepare"}),
             At({"open"})' => At({"open"}), At({"count", "prepare"})' => At({"count", "prepare"}),
             \/ Running' /\ pc'[evt] # "reset"
             \/ At({"open", "count", "prepare", "begrun", "endrun", "flush"})'
             =>
                \/ Running /\ pc[evt] # "reset"
                \/ At({"open", "count", "prepare", "begrun", "endrun", "flush"})
      PROVE  NumbersGrow'
  BY <1>e DEF NumbersGrow
<1>1. ASSUME NEW t \in Threads, OpenFile(t) PROVE NumbersGrow'
  <2>1. /\ UNCHANGED <<accepted, TheRun, file, fileBufs>> /\ Running' = Running
        /\ pc[t] = "open" /\ pc' = [pc EXCEPT ![t] = "count"] /\ TheRun \notin existing
        /\ outfile_fd = 0
    BY <1>1 DEF OpenFile, FileOfRun, NumbersGrow
  <2>2. CASE daq_open_flag
    <3>1. outfile_fd' = TheRun /\ existing' = existing \cup {TheRun}
      BY <1>1, <2>2 DEF OpenFile
    <3>2. TheRun \in Fds
      BY <2>1, HandOverParts, RunControlAssumption DEF WriterFile, HandOverInv, RCTypeOK
    <3> QED
      BY <1>0, <1>a, <1>b, <1>c, <1>d, <2>1, <3>1, <3>2 DEF NumbersGrow
  <2>3. CASE ~daq_open_flag
    <3>1. outfile_fd' = outfile_fd /\ existing' = existing
      BY <1>1, <2>3 DEF OpenFile
    <3> QED
      BY <1>0, <1>a, <1>b, <1>c, <1>d, <2>1, <3>1 DEF NumbersGrow
  <2> QED
    BY <2>2, <2>3
<1>2. ASSUME NEW t \in Threads, StartCounting(t) PROVE NumbersGrow'
  <2>1. /\ UNCHANGED <<accepted, TheRun, existing, outfile_fd, file, fileBufs>>
        /\ pc[t] = "count" /\ pc' = [pc EXCEPT ![t] = "prepare"]
    BY <1>2 DEF StartCounting
  <2> QED
    BY <1>0, <1>a, <1>b, <1>e, <2>1
<1>3. ASSUME NEW t \in Threads, PrepareRun(t) PROVE NumbersGrow'
  <2>1. /\ UNCHANGED <<accepted, TheRun, existing, outfile_fd, file, fileBufs>>
        /\ pc[t] = "prepare" /\ pc' = [pc EXCEPT ![t] = "begrun"]
    BY <1>3 DEF PrepareRun
  <2> QED
    BY <1>0, <1>a, <1>b, <1>e, <2>1
<1>4. ASSUME NEW t \in Threads, BeginDone(t) PROVE NumbersGrow'
  <2>1. /\ UNCHANGED <<accepted, TheRun, existing, outfile_fd, file, fileBufs>>
        /\ pc[t] = "begrun" /\ pc' = [pc EXCEPT ![t] = "idle"]
    BY <1>4 DEF BeginDone, vars
  <2> QED
    BY <1>0, <1>a, <1>b, <1>e, <2>1
<1>5. ASSUME NEW t \in Threads, WakeUp(t) PROVE NumbersGrow'
  <2>1. /\ UNCHANGED <<accepted, TheRun, existing, outfile_fd, file, fileBufs>>
        /\ pc[t] = "sleep" /\ pc' = [pc EXCEPT ![t] = "endrun"] /\ Running
    BY <1>0, <1>a, <1>5 DEF WakeUp
  <2>2. pc[evt] # "reset"
    BY <1>0, <1>a, <1>5 DEF WakeUp, Quiet, CalmOperation
  <2> QED
    BY <1>0, <1>a, <1>e, <2>1, <2>2
<1>6. ASSUME NEW t \in Threads, Flush(t) PROVE NumbersGrow'
  <2>1. /\ UNCHANGED <<accepted, TheRun, existing, outfile_fd, file, fileBufs>>
        /\ pc[t] = "endrun" /\ pc' = [pc EXCEPT ![t] = "flush"]
    BY <1>6 DEF Flush
  <2> QED
    BY <1>0, <1>a, <1>b, <1>e, <2>1
<1>7. ASSUME NEW t \in Threads, AwaitWriter(t) PROVE NumbersGrow'
  <2>1. /\ UNCHANGED <<accepted, TheRun, existing, outfile_fd, file, fileBufs>>
        /\ pc[t] = "flush"
    BY <1>7 DEF AwaitWriter, vars
  <2>2. pc' = [pc EXCEPT ![t] = "close"] \/ pc' = [pc EXCEPT ![t] = "reset"]
    BY <1>7 DEF AwaitWriter
  <2> QED
    BY <1>0, <1>a, <1>b, <1>e, <2>1, <2>2
<1>8. ASSUME NEW t \in Threads, CloseFile(t) PROVE NumbersGrow'
  <2>1. /\ UNCHANGED <<accepted, TheRun, existing, file, fileBufs>> /\ Running' = Running
        /\ pc[t] = "close" /\ pc' = [pc EXCEPT ![t] = "reset"] /\ outfile_fd' = 0
    BY <1>8 DEF CloseFile
  <2>2. ~(Running' /\ pc'[evt] # "reset")
    BY <1>0, <1>a, <2>1
  <2>3. ~At({"open", "count", "prepare", "begrun", "endrun", "flush"})'
    BY <1>0, <1>a, <1>b, <2>1
  <2> QED
    BY <2>1, <2>2, <2>3 DEF NumbersGrow
<1>9. ASSUME NEW t \in Threads, ResetCounters(t) PROVE NumbersGrow'
  <2>1. /\ UNCHANGED <<accepted, existing, outfile_fd, file, fileBufs>> /\ Running' = Running
        /\ pc[t] = "reset" /\ outfile_fd = 0
    BY <1>9 DEF ResetCounters, FileOfRun
  <2>2. CASE job[t] = "roll"
    <3>1. TheRun' = TheRun + 1 /\ pc' = [pc EXCEPT ![t] = "open"]
      BY <1>9, <2>2 DEF ResetCounters
    <3> QED
      BY <1>0, <1>a, <1>b, <1>c, <2>1, <3>1 DEF NumbersGrow
  <2>3. CASE job[t] # "roll"
    <3>1. TheRun' = TheRun /\ pc' = [pc EXCEPT ![t] = "idle"] /\ ~Running
      BY <1>0, <1>a, <1>9, <2>3 DEF ResetCounters
    <3> QED
      BY <1>0, <1>a, <1>b, <1>e, <2>1, <3>1
  <2> QED
    BY <2>2, <2>3
<1>10. ASSUME NEW t \in Threads, DaqBegin(t, 0) PROVE NumbersGrow'
  <2>1. /\ UNCHANGED <<accepted, existing, outfile_fd, file, fileBufs>>
        /\ TheRun' = TheRun + 1 /\ pc' = [pc EXCEPT ![t] = "open"] /\ pc[t] = "idle" /\ t = c
        /\ ~Running /\ Running' = Running
    BY <1>0, <1>10 DEF DaqBegin
  <2>2. pc[evt] \notin {"count", "prepare"}
    BY <1>0, <1>a, <2>1
  <2> QED
    BY <1>0, <1>a, <1>c, <2>1, <2>2 DEF NumbersGrow
<1>11. CASE RollOver
  <2>1. /\ UNCHANGED <<accepted, TheRun, existing, outfile_fd, file, fileBufs>>
        /\ pc[evt] = "rollOver" /\ pc' = [pc EXCEPT ![evt] = "endrun"]
    BY <1>11 DEF RollOver
  <2> QED
    BY <1>0, <1>a, <1>e, <2>1
<1>12. ASSUME NEW t \in Threads, DaqOpen(t) PROVE NumbersGrow'
  BY <1>12, <1>e DEF DaqOpen, vars
<1>13. ASSUME NEW t \in Threads, Readout(t) \/ Switch(t) PROVE NumbersGrow'
  <2>1. CASE \E timeUp \in BOOLEAN : KeepEvent(t, timeUp)
    <3>1. /\ accepted' = Append(accepted, header[fillBuffer]) /\ header[fillBuffer].run = TheRun
          /\ rd[t] = "addSubevents"
      <4>1. accepted' = Append(accepted, header[fillBuffer]) /\ rd[t] = "addSubevents"
        BY <2>1 DEF KeepEvent
      <4>2. SubeventsGoToOwnEvent
        BY DEF OwnRun
      <4>3. header[fillBuffer] = [run |-> TheRun, type |-> etype[t], num |-> Event_number]
        BY <4>1, <4>2 DEF SubeventsGoToOwnEvent
      <4> QED
        BY <4>1, <4>3
    <3>2. UNCHANGED <<file, fileBufs>>
      BY <2>1 DEF KeepEvent
    <3>3. ~At({"open", "count", "prepare"})
      <4>1. Busy(t)
        BY <3>1 DEF Busy
      <4>2. pc[t] \notin {"open", "count", "prepare"}
        BY <4>1, HandOverParts DEF BusyPlaces
      <4> QED
        BY <4>1, <4>2, SessionAlone, HandOverParts
    <3>4. header[fillBuffer] \in Event
      BY <3>1, HandOverParts DEF BufferTypes
    <3>5. \A i \in DOMAIN accepted' : accepted'[i].run <= TheRun
      BY <1>c, <3>1, <3>4 DEF NumbersGrow
    <3> QED
      BY <1>13, <3>2, <3>3, <3>5, InsideStays DEF NumbersGrow
  <2>2. CASE ~\E timeUp \in BOOLEAN : KeepEvent(t, timeUp)
    <3>1. UNCHANGED <<accepted, file, fileBufs>>
      BY <1>13, <2>2 DEF Readout, ReadoutStep, NextEvent, BufferFull, DropEmptyEvent, Switch,
          SwitchStep, LockWriteProtect, LockSendProtect, Swap, UnlockWrite, UnlockSend
    <3> QED
      BY <1>13, <1>e, <3>1, InsideStays
  <2> QED
    BY <2>1, <2>2
<1>14. CASE (WriterStep \/ SenderStep) /\ UNCHANGED rcVars
  <2>1. UNCHANGED <<accepted, TheRun, existing, outfile_fd>> /\ pc' = pc /\ Running' = Running
    BY <1>14 DEF WriterStep, WriterTake, WriterRelease, WriterStore, WriterFail, WriterSkip,
      SenderStep, SenderTake, SenderDone
  <2>2. CASE WriterStore
    <3>1. writer = "writing" /\ wfd = outfile_fd /\ wfd # 0
      BY <2>2, HandOverParts DEF WriterStore, WriterRelease, WriterFile
    <3>2. \A r \in Fds : r # wfd => file'[r] = file[r] /\ fileBufs'[r] = fileBufs[r]
      BY <1>d, <2>2 DEF WriterStore
    <3>3. outfile_fd \in existing /\ ~At({"count", "prepare"})
      BY <3>1 DEF NumbersGrow, NothingLeft, Settled, WriterOwes
    <3> QED
      BY <2>1, <3>1, <3>2, <3>3 DEF NumbersGrow
  <2>3. CASE ~WriterStore
    <3>1. UNCHANGED <<file, fileBufs>>
      BY <1>14, <2>3 DEF WriterStep, WriterTake, WriterFail, WriterSkip, SenderStep, SenderTake,
          SenderDone
    <3> QED
      BY <1>e, <2>1, <3>1
  <2> QED
    BY <2>2, <2>3
<1>15. CASE OtherStep
  <2>1. /\ UNCHANGED <<accepted, TheRun, existing, outfile_fd, file, fileBufs>>
        /\ Running' = Running
        /\ \A t \in Threads, p \in BeginPlaces \cup EndPlaces : pc'[t] = p <=> pc[t] = p
    BY <1>15 DEF OtherStep, Elsewhere
  <2> QED
    BY <1>0, <1>e, <2>1
<1>16. ASSUME NEW t \in Threads, BeginFails(t) PROVE NumbersGrow'
  <2>1. /\ UNCHANGED <<accepted, TheRun, existing, outfile_fd, file, fileBufs>>
        /\ pc' = [pc EXCEPT ![t] = "idle"] /\ Running' = Running
    BY <1>16 DEF BeginFails, vars
  <2>2. \A u \in Threads : pc'[u] = pc[u] \/ pc'[u] = "idle"
    BY <1>a, <2>1
  <2>3. ~Running
    BY <1>16 DEF BeginFails
  <2> QED
    BY <1>e, <2>1, <2>2, <2>3
<1> QED
  BY <1>1, <1>2, <1>3, <1>4, <1>5, <1>6, <1>7, <1>8, <1>9, <1>10, <1>11, <1>12, <1>13, <1>14, <1>15,
     <1>16, RunSteps DEF SessionStep


\* A thread inside readout() or switch_buffer() is at work for an active run, or
\* ends one, and nobody else begins or ends any.
LEMMA BusyAlone ==
    ASSUME CalmOperation, HandOverInv, RunPlaces, NEW t \in Threads, Busy(t)
    PROVE  /\ ~At({"open", "count", "prepare", "close", "reset"})
           /\ Running \/ pc[t] \in {"endrun", "flush"}
           /\ ~Unprepared
<1>0. PICK c : Cmds = {c} /\ Threads = {evt, c} /\ c # evt
  BY TwoThreads
<1>1. pc[t] \in {"begrun", "endrun", "flush", "reading"}
  BY HandOverParts DEF BusyPlaces
<1>2. \A u \in Threads : u # t => pc[u] \notin BeginPlaces \cup EndPlaces
  BY SessionAlone, HandOverParts
<1>3. Running \/ pc[t] \in {"endrun", "flush"}
  BY <1>0, <1>1, HandOverParts DEF JobPlaces, RunningPlaces, RunPlaces, BeginPlaces, EndPlaces
<1> QED
  BY <1>1, <1>2, <1>3 DEF At, Unprepared, BeginPlaces, EndPlaces

\* Between runs the buffers are empty, and no file is opened or closed before the
\* writer is through.
LEMMA NothingLeftStep ==
    ASSUME CalmOperation, PlainRuns, HandOverInv, RunPlaces, FileOfRun, LoggingOpens, NumbersGrow,
           NothingLeft, [RCNext]_allVars
    PROVE  NothingLeft'
<1> USE DEF At, PlaceTypes, JobPlaces, RunningPlaces, RunPlaces, BeginPlaces, EndPlaces,
            Goto, Finish, Unprepared
<1>0. PICK c : Cmds = {c} /\ Threads = {evt, c} /\ c # evt
  BY TwoThreads
<1>a. PlaceTypes /\ JobPlaces /\ RunningPlaces
  BY HandOverParts
<1>b. \A t, u \in Threads : t # u /\ pc[t] \in BeginPlaces \cup EndPlaces =>
            pc[u] \notin BeginPlaces \cup EndPlaces
  BY SessionAlone, HandOverParts
<1>c. Running \in BOOLEAN /\ daq_open_flag \in BOOLEAN
  BY HandOverParts
<1>d. /\ rd \in [Threads -> {"out", "nextEvent", "retry", "addSubevents"}]
      /\ sw \in [Threads -> {"out", "lockWrite", "lockSend", "swap", "unlockWrite",
                            "unlockSend"}]
      /\ events \in [Buffers -> Seq(Event)] /\ fillBuffer \in Buffers /\ transportBuffer \in Buffers
  BY DEF HandOverInv, RCTypeOK, BufferTypes, ControlInv, ControlTypes
\* A step that leaves the buffers alone has to keep the places in order.
<1>e. ASSUME UNCHANGED <<events, fillBuffer, sw, writer, WriteSem>>,
             (Unprepared \/ At({"close", "reset"}))' =>
                    Unprepared \/ At({"close", "reset"}) \/ events[fillBuffer] = << >>,
             \A t \in Threads : pc'[t] = "flush" => pc[t] = "flush" /\ rd'[t] = rd[t],
             Settled' => Settled \/ ~WriterOwes
      PROVE  NothingLeft'
  <2>1. WriterOwes' = WriterOwes
    BY <1>e DEF WriterOwes
  <2> QED
    BY <1>e, <2>1 DEF NothingLeft
<1>1. ASSUME NEW t \in Threads, OpenFile(t) PROVE NothingLeft'
  <2>1. /\ UNCHANGED <<events, fillBuffer, rd, sw, writer, WriteSem>> /\ Running' = Running
        /\ pc[t] = "open" /\ pc' = [pc EXCEPT ![t] = "count"] /\ daq_open_flag' = daq_open_flag
        /\ outfile_fd = 0 /\ (outfile_fd' # 0 => daq_open_flag)
    BY <1>1 DEF OpenFile, FileOfRun
  <2>2. Settled' => Settled
    BY <1>0, <1>a, <1>b, <2>1 DEF Settled
  <2> QED
    BY <1>0, <1>b, <1>e, <2>1, <2>2, <1>a
<1>2. ASSUME NEW t \in Threads, StartCounting(t) PROVE NothingLeft'
  <2>1. /\ UNCHANGED <<events, fillBuffer, rd, sw, writer, WriteSem, outfile_fd>>
        /\ pc[t] = "count" /\ pc' = [pc EXCEPT ![t] = "prepare"] /\ daq_open_flag' = daq_open_flag
    BY <1>2 DEF StartCounting
  <2>2. Running => Running'
    BY <1>2 DEF StartCounting
  <2>3. Settled' => Settled
    BY <1>0, <1>a, <1>b, <2>1, <2>2 DEF Settled
  <2> QED
    BY <1>0, <1>b, <1>e, <2>1, <2>3, <1>a
<1>3. ASSUME NEW t \in Threads, PrepareRun(t) PROVE NothingLeft'
  <2>1. /\ UNCHANGED <<sw, writer, WriteSem, outfile_fd, job>> /\ Running /\ Running' = Running
        /\ pc[t] = "prepare" /\ pc' = [pc EXCEPT ![t] = "begrun"]
        /\ events' = [events EXCEPT !["Buffer1"] = << >>] /\ fillBuffer' = "Buffer1"
    BY <1>0, <1>a, <1>3 DEF PrepareRun, PrepareNext
  <2>2. events'[fillBuffer'] = << >>
    BY <1>d, <2>1 DEF Buffers
  <2>3. ~Settled' /\ \A u \in Threads : pc'[u] # "flush"
    BY <1>0, <1>a, <1>b, <2>1 DEF Settled
  <2> QED
    BY <2>2, <2>3 DEF NothingLeft
<1>4. ASSUME NEW t \in Threads, BeginDone(t) PROVE NothingLeft'
  <2>1. /\ UNCHANGED <<events, fillBuffer, rd, sw, writer, WriteSem, outfile_fd>> /\ Running
        /\ Running' = Running
        /\ pc[t] = "begrun" /\ pc' = [pc EXCEPT ![t] = "idle"] /\ daq_open_flag' = daq_open_flag
    BY <1>0, <1>a, <1>4 DEF BeginDone, vars
  <2>2. ~Settled'
    BY <1>0, <1>a, <1>b, <2>1 DEF Settled
  <2> QED
    BY <1>0, <1>b, <1>e, <2>1, <2>2, <1>a
<1>5. ASSUME NEW t \in Threads, WakeUp(t) PROVE NothingLeft'
  <2>1. /\ UNCHANGED <<events, fillBuffer, sw, writer, WriteSem, outfile_fd, job>>
        /\ pc[t] = "sleep" /\ pc' = [pc EXCEPT ![t] = "endrun"] /\ daq_open_flag' = daq_open_flag
        /\ \A u \in Threads : u # t => rd'[u] = rd[u]
    BY <1>d, <1>5 DEF WakeUp, EnterReadout
  <2>2. \A u \in Threads : u # t => pc[u] \notin BeginPlaces \cup EndPlaces
    <3>1. pc[t] = "sleep" /\ (t = evt \/ Quiet) /\ BeginAlone
      BY <1>5, HandOverParts DEF WakeUp, CalmOperation
    <3> QED
      BY <1>0, <1>a, <3>1 DEF Quiet, BeginAlone
  <2>3. ~Settled' /\ ~(Unprepared \/ At({"close", "reset"}))'
    BY <1>0, <1>a, <2>1, <2>2 DEF Settled
  <2> QED
    BY <1>0, <1>a, <1>e, <2>1, <2>2, <2>3
<1>6. ASSUME NEW t \in Threads, Flush(t) PROVE NothingLeft'
  <2>1. /\ UNCHANGED <<events, fillBuffer, rd, writer, WriteSem, outfile_fd, job>>
        /\ Running' = Running
        /\ pc[t] = "endrun" /\ pc' = [pc EXCEPT ![t] = "flush"] /\ daq_open_flag' = daq_open_flag
        /\ rd[t] = "out" /\ sw[t] = "out" /\ sw' = [sw EXCEPT ![t] = "lockWrite"]
    BY <1>6 DEF Flush, Busy, EnterSwitch
  <2>2. ~Settled' /\ ~(Unprepared \/ At({"close", "reset"}))'
    BY <1>0, <1>a, <1>b, <2>1 DEF Settled
  <2>3. \A u \in Threads : u # t => pc'[u] # "flush"
    BY <1>a, <1>b, <2>1
  <2>4. sw'[t] = "lockWrite"
    BY <1>d, <2>1
  <2> QED
    BY <2>1, <2>2, <2>3, <2>4 DEF NothingLeft
<1>7. ASSUME NEW t \in Threads, AwaitWriter(t) PROVE NothingLeft'
  <2>1. /\ UNCHANGED <<events, fillBuffer, rd, sw, writer, WriteSem, outfile_fd, job>>
        /\ Running' = Running /\ daq_open_flag' = daq_open_flag
        /\ pc[t] = "flush" /\ rd[t] = "out" /\ sw[t] = "out"
    BY <1>7 DEF AwaitWriter, vars, Busy
  <2>2. events[fillBuffer] = << >>
    BY <2>1 DEF NothingLeft
  <2>3. CASE file_is_open
    <3>1. pc' = [pc EXCEPT ![t] = "close"] /\ WriteProtectSem = 1
      BY <1>7, <2>3 DEF AwaitWriter
    <3>2. ~WriterOwes
      BY <3>1, HandOverParts DEF WriterOwes, WriteToken
    <3> QED
      BY <1>a, <1>e, <2>1, <2>2, <3>1, <3>2
  <2>4. CASE ~file_is_open
    <3>1. pc' = [pc EXCEPT ![t] = "reset"] /\ outfile_fd = 0
      BY <1>7, <2>4, HandOverParts DEF AwaitWriter, OpenAgrees
    <3>2. Settled' => Settled
      <4>1. ASSUME t = evt, job[evt] = "roll" PROVE ~daq_open_flag
        BY <1>a, <2>1, <3>1, <4>1 DEF LoggingOpens
      <4>2. ASSUME t = c, ~BeginWaits PROVE ~daq_open_flag
        BY <1>0, <2>1, <3>1, <4>2 DEF LoggingOpens
      <4>3. t = evt /\ ~BeginWaits => job[evt] = "roll" /\ Running
        BY <1>0, <1>a, <2>1 DEF CalmOperation
      <4> QED
        BY <1>0, <1>a, <1>b, <2>1, <3>1, <4>1, <4>2, <4>3 DEF Settled
    <3> QED
      BY <1>a, <1>e, <2>1, <2>2, <3>1, <3>2
  <2> QED
    BY <2>3, <2>4
<1>8. ASSUME NEW t \in Threads, CloseFile(t) PROVE NothingLeft'
  <2>1. /\ UNCHANGED <<events, fillBuffer, rd, sw, writer, WriteSem>>
        /\ pc[t] = "close" /\ pc' = [pc EXCEPT ![t] = "reset"]
    BY <1>8 DEF CloseFile
  <2>2. ~WriterOwes
    BY <2>1 DEF NothingLeft, Settled
  <2> QED
    BY <1>a, <1>e, <2>1, <2>2
<1>9. ASSUME NEW t \in Threads, ResetCounters(t) PROVE NothingLeft'
  <2>1. /\ UNCHANGED <<events, fillBuffer, rd, sw, writer, WriteSem, outfile_fd>>
        /\ Running' = Running /\ pc[t] = "reset" /\ daq_open_flag' = daq_open_flag
    BY <1>9 DEF ResetCounters
  <2>2. CASE job[t] = "roll"
    <3>1. pc' = [pc EXCEPT ![t] = "open"] /\ t = evt
      BY <1>0, <1>a, <1>9, <2>2 DEF ResetCounters
    <3>2. Settled' => Settled
      BY <1>0, <1>a, <1>b, <2>1, <2>2, <3>1 DEF Settled
    <3> QED
      BY <1>a, <1>e, <2>1, <3>1, <3>2
  <2>3. CASE job[t] # "roll"
    <3>1. pc' = [pc EXCEPT ![t] = "idle"]
      BY <1>9, <2>3 DEF ResetCounters
    <3>2. Settled' => Settled
      BY <1>0, <1>a, <1>b, <2>1, <3>1 DEF Settled
    <3> QED
      BY <1>a, <1>e, <2>1, <3>1, <3>2
  <2> QED
    BY <2>2, <2>3
<1>10. ASSUME NEW t \in Threads, DaqBegin(t, 0) PROVE NothingLeft'
  <2>1. /\ UNCHANGED <<events, fillBuffer, rd, sw, writer, WriteSem, outfile_fd>>
        /\ Running' = Running /\ ~Running /\ daq_open_flag' = daq_open_flag
        /\ pc[t] = "idle" /\ pc' = [pc EXCEPT ![t] = "open"] /\ t = c
    BY <1>0, <1>10 DEF DaqBegin
  <2>2. pc[evt] \notin BeginPlaces \cup EndPlaces
    BY <1>0, <1>a, <1>10, <2>1 DEF DaqBegin, AtRest, CalmOperation
  <2>3. CASE BeginWaits
    <3>1. ~WriterOwes
      BY <1>10, <2>3 DEF DaqBegin, AtRest, WriterOwes, Busy
    <3> QED
      BY <1>0, <1>a, <1>e, <2>1, <2>2, <3>1
  <2>4. CASE ~BeginWaits
    <3>1. Settled' => Settled
      BY <1>0, <1>a, <2>1, <2>2, <2>4 DEF Settled
    <3> QED
      BY <1>0, <1>a, <1>e, <2>1, <2>2, <3>1
  <2> QED
    BY <2>3, <2>4
<1>11. CASE RollOver
  <2>1. /\ UNCHANGED <<events, fillBuffer, sw, writer, WriteSem, outfile_fd>>
        /\ Running' = Running /\ daq_open_flag' = daq_open_flag
        /\ pc[evt] = "rollOver" /\ pc' = [pc EXCEPT ![evt] = "endrun"]
        /\ \A u \in Threads : u # evt => rd'[u] = rd[u]
    BY <1>d, <1>11 DEF RollOver, EnterReadout
  <2>2. Settled' => Settled
    BY <1>0, <1>a, <2>1 DEF Settled
  <2> QED
    BY <1>0, <1>a, <1>e, <2>1, <2>2
<1>12. ASSUME NEW t \in Threads, DaqOpen(t) PROVE NothingLeft'
  <2>1. BeginWaits
    BY <1>12 DEF PlainRuns, DaqOpen
  <2>2. /\ UNCHANGED <<events, fillBuffer, rd, sw, writer, WriteSem, outfile_fd, pc, job>>
        /\ Running' = Running /\ ~Running /\ pc[c] = "idle"
    BY <1>0, <1>12 DEF DaqOpen, vars
  <2>3. pc[evt] # "open" /\ ~(pc[evt] = "reset" /\ job[evt] = "roll")
    BY <1>0, <1>a, <2>2
  <2>4. Settled' => Settled
    BY <1>0, <2>1, <2>2, <2>3 DEF Settled
  <2> QED
    BY <1>e, <2>2, <2>4
<1>13. ASSUME NEW t \in Threads, Readout(t) \/ Switch(t) PROVE NothingLeft'
  <2>1. /\ Busy(t) /\ Running' = Running /\ daq_open_flag' = daq_open_flag
        /\ UNCHANGED <<pc, job, outfile_fd>>
    BY <1>13, InsideStays
  <2>2. ~(Unprepared \/ At({"close", "reset"}))'
    BY <2>1, BusyAlone
  <2>3. ~Settled'
    <3>1. evt \in Threads /\ ~At({"open", "count", "prepare", "close", "reset"})
          /\ (Running \/ pc[t] \in {"endrun", "flush"})
      BY <1>0, <2>1, BusyAlone
    <3> QED
      BY <2>1, <3>1 DEF Settled
  <2>4. \A u \in Threads : pc'[u] = "flush" => u = t
    BY <2>1, SessionAlone, HandOverParts
  <2>5. ASSUME pc[t] = "flush"
        PROVE  /\ rd'[t] = "out"
               /\ sw'[t] \in {"unlockWrite", "unlockSend", "out"} => events'[fillBuffer'] = << >>
    <3>1. rd[t] = "out"
      BY <2>5 DEF NothingLeft
    <3>2. CASE Readout(t)
      BY <3>1, <3>2 DEF Readout, ReadoutStep, NextEvent, BufferFull, DropEmptyEvent, KeepEvent
    <3>3. CASE Switch(t)
      <4>1. rd' = rd
        BY <3>3 DEF Switch, SwitchStep, LockWriteProtect, LockSendProtect, Swap, UnlockWrite,
            UnlockSend
      <4>2. CASE Swap(t)
        BY <1>d, <3>1, <4>1, <4>2 DEF Swap, PrepareNext
      <4>3. CASE LockWriteProtect(t) \/ LockSendProtect(t)
        BY <1>d, <3>1, <4>1, <4>3 DEF LockWriteProtect, LockSendProtect
      <4>4. CASE UnlockWrite(t) \/ UnlockSend(t)
        BY <1>d, <2>5, <3>1, <4>1, <4>4 DEF UnlockWrite, UnlockSend, NothingLeft
      <4> QED
        BY <3>3, <4>2, <4>3, <4>4 DEF Switch, SwitchStep
    <3> QED
      BY <1>13, <3>2, <3>3
  <2> QED
    BY <2>1, <2>2, <2>3, <2>4, <2>5 DEF NothingLeft
<1>14. CASE (WriterStep \/ SenderStep) /\ UNCHANGED rcVars
  <2>1. UNCHANGED <<events, fillBuffer, rd, sw, outfile_fd, pc, job>> /\ Running' = Running
        /\ daq_open_flag' = daq_open_flag
    BY <1>14 DEF WriterStep, WriterTake, WriterRelease, WriterStore, WriterFail, WriterSkip,
      SenderStep, SenderTake, SenderDone
  <2>2. WriterOwes' => WriterOwes
    <3>1. CASE WriterTake \/ SenderStep
      BY <2>1, <3>1 DEF WriterTake, SenderStep, SenderTake, SenderDone, WriterOwes
    <3>2. CASE WriterRelease
      BY <2>1, <3>2 DEF WriterRelease, WriterOwes
    <3> QED
      BY <1>14, <3>1, <3>2 DEF WriterStep, WriterStore, WriterFail, WriterSkip
  <2>3. Settled' = Settled /\ (Unprepared \/ At({"close", "reset"}))' =
            (Unprepared \/ At({"close", "reset"}))
    BY <2>1 DEF Settled
  <2> QED
    BY <2>1, <2>2, <2>3 DEF NothingLeft
<1>15. CASE OtherStep
  <2>1. /\ UNCHANGED <<events, fillBuffer, sw, writer, WriteSem, outfile_fd>>
        /\ Running' = Running
        /\ \A t \in Threads, p \in BeginPlaces \cup EndPlaces : pc'[t] = p <=> pc[t] = p
        /\ daq_open_flag' => daq_open_flag
        /\ pc'[evt] = "reset" => job'[evt] = job[evt]
    BY <1>0, <1>c, <1>15 DEF OtherStep, Elsewhere
  <2>2. \A t \in Threads : pc'[t] = "flush" => rd'[t] = rd[t]
    BY <1>0, <1>d, <1>15, <2>1 DEF OtherStep, EnterReadout
  <2>3. Settled' => Settled
    BY <1>0, <2>1 DEF Settled
  <2> QED
    BY <1>0, <1>e, <2>1, <2>2, <2>3
<1>16. ASSUME NEW t \in Threads, BeginFails(t) PROVE NothingLeft'
  <2>1. /\ UNCHANGED <<events, fillBuffer, rd, sw, writer, WriteSem>>
        /\ pc[t] = "open" /\ daq_open_flag /\ pc' = [pc EXCEPT ![t] = "idle"]
    BY <1>16 DEF BeginFails, vars
  <2>2. Unprepared /\ Settled
    BY <2>1 DEF Settled
  <2>3. ~WriterOwes
    BY <2>2 DEF NothingLeft
  <2>4. \A u \in Threads : pc'[u] = "flush" => pc[u] = "flush"
    BY <1>a, <2>1
  <2> QED
    BY <1>e, <2>1, <2>2, <2>3, <2>4
<1> QED
  BY <1>1, <1>2, <1>3, <1>4, <1>5, <1>6, <1>7, <1>8, <1>9, <1>10, <1>11, <1>12, <1>13, <1>14, <1>15,
     <1>16, RunSteps DEF SessionStep


\* The fill buffer has the number of the run, and readout() asks for the type of
\* event that belongs there.
LEMMA OwnRunStep ==
    ASSUME CalmOperation, PlainRuns, HandOverInv, RunPlaces, FileOfRun, NumbersGrow, OwnRun,
           [RCNext]_allVars
    PROVE  OwnRun'
<1> USE DEF At, PlaceTypes, JobPlaces, RunningPlaces, RunPlaces, BeginPlaces, EndPlaces,
            Goto, Finish
<1>0. PICK c : Cmds = {c} /\ Threads = {evt, c} /\ c # evt
  BY TwoThreads
<1>a. PlaceTypes /\ JobPlaces /\ RunningPlaces
  BY HandOverParts
<1>b. \A t, u \in Threads : t # u /\ pc[t] \in BeginPlaces \cup EndPlaces =>
            pc[u] \notin BeginPlaces \cup EndPlaces /\ rd[u] = "out"
  BY SessionAlone, HandOverParts DEF Busy
<1>c. \A t \in Threads : rd[t] # "out" => pc[t] \in {"begrun", "endrun", "flush", "reading"}
  BY HandOverParts DEF BusyPlaces, Busy
<1>d. /\ rd \in [Threads -> {"out", "nextEvent", "retry", "addSubevents"}]
      /\ etype \in [Threads -> EventTypes] /\ Runnr \in [Buffers -> Nat] /\ TheRun \in Nat
      /\ fillBuffer \in Buffers /\ transportBuffer \in Buffers /\ Event_number \in Nat
      /\ header \in [Buffers -> Event \cup {NoEvent}]
  <2> HIDE DEF At, PlaceTypes, JobPlaces, RunningPlaces, RunPlaces, BeginPlaces, EndPlaces
  <2>1. ControlTypes /\ BufferTypes /\ RCTypeOK
    BY DEF HandOverInv, ControlInv
  <2>2. rd \in [Threads -> {"out", "nextEvent", "retry", "addSubevents"}]
    BY <2>1 DEF ControlTypes
  <2>3. /\ etype \in [Threads -> EventTypes] /\ Runnr \in [Buffers -> Nat]
        /\ fillBuffer \in Buffers /\ transportBuffer \in Buffers /\ Event_number \in Nat
        /\ header \in [Buffers -> Event \cup {NoEvent}]
    BY <2>1 DEF BufferTypes
  <2>4. TheRun \in Nat
    BY <2>1, RunControlAssumption DEF RCTypeOK
  <2> QED
    BY <2>2, <2>3, <2>4
\* Steps outside the buffers that leave the open events where they are.
<1>e. ASSUME UNCHANGED <<fillBuffer, Runnr, TheRun, header, Event_number>>,
             Unprepared => Unprepared',
             \A t \in Threads : rd'[t] # "out" =>
                \/ rd'[t] = rd[t] /\ etype'[t] = etype[t] /\ TypeAt(pc'[t]) = TypeAt(pc[t])
                \/ rd'[t] = "nextEvent" /\ etype'[t] = TypeAt(pc'[t])
      PROVE  OwnRun'
  <2>1. /\ (Runnr[fillBuffer] = TheRun /\ TheRun > 0) \/ Unprepared
        /\ \A t \in Threads : rd[t] # "out" => etype[t] = TypeAt(pc[t])
        /\ \A t \in Threads : rd[t] = "addSubevents" =>
              header[fillBuffer] = [run |-> TheRun, type |-> etype[t], num |-> Event_number]
    BY DEF OwnRun, SubeventsGoToOwnEvent
  <2> QED
    BY <1>e, <2>1 DEF OwnRun, SubeventsGoToOwnEvent
<1>f. ASSUME Unprepared', \A t \in Threads : rd'[t] = "out" PROVE OwnRun'
  BY <1>f DEF OwnRun, SubeventsGoToOwnEvent
<1>1. ASSUME NEW t \in Threads, OpenFile(t) \/ StartCounting(t) PROVE OwnRun'
  <2>1. /\ rd' = rd /\ pc[t] \in BeginPlaces /\ (pc' = [pc EXCEPT ![t] = "count"]
                                                \/ pc' = [pc EXCEPT ![t] = "prepare"])
        /\ pc[t] \in {"open", "count"}
    BY <1>1 DEF OpenFile, StartCounting
  <2>2. \A u \in Threads : rd'[u] = "out"
    BY <1>b, <1>c, <2>1
  <2> QED
    BY <1>a, <1>f, <2>1, <2>2 DEF Unprepared
<1>3. ASSUME NEW t \in Threads, PrepareRun(t) PROVE OwnRun'
  <2>1. /\ pc[t] = "prepare" /\ pc' = [pc EXCEPT ![t] = "begrun"] /\ TheRun' = TheRun
        /\ fillBuffer' = "Buffer1"
        /\ Runnr' = IF TheRun > 0 THEN [Runnr EXCEPT !["Buffer1"] = TheRun] ELSE Runnr
        /\ rd' = [rd EXCEPT ![t] = "nextEvent"] /\ etype' = [etype EXCEPT ![t] = BEGRUNEVENT]
    BY <1>3 DEF PrepareRun, PrepareNext, EnterReadout
  <2>2. TheRun > 0
    BY <2>1, HandOverParts DEF WriterFile
  <2>3. Runnr'[fillBuffer'] = TheRun'
    BY <1>d, <2>1, <2>2 DEF Buffers
  <2>4. \A u \in Threads : rd'[u] = IF u = t THEN "nextEvent" ELSE "out"
    BY <1>b, <1>d, <2>1
  <2>5. etype'[t] = TypeAt(pc'[t])
    BY <1>a, <1>d, <2>1 DEF TypeAt
  <2> QED
    BY <2>1, <2>2, <2>3, <2>4, <2>5 DEF OwnRun, SubeventsGoToOwnEvent
<1>4. ASSUME NEW t \in Threads, BeginDone(t) PROVE OwnRun'
  <2>1. /\ UNCHANGED <<fillBuffer, Runnr, TheRun, header, Event_number, rd, etype>>
        /\ pc[t] = "begrun" /\ pc' = [pc EXCEPT ![t] = "idle"] /\ rd[t] = "out"
    BY <1>4 DEF BeginDone, vars, Busy
  <2>2. ~Unprepared
    <3>1. Running
      BY <1>0, <1>a, <2>1
    <3> QED
      BY <1>a, <1>b, <2>1, <3>1 DEF Unprepared
  <2>3. \A u \in Threads : rd'[u] = "out"
    BY <1>b, <2>1
  <2> QED
    BY <1>e, <2>1, <2>2, <2>3
<1>5. ASSUME NEW t \in Threads, WakeUp(t) PROVE OwnRun'
  <2>1. /\ UNCHANGED <<fillBuffer, Runnr, TheRun, header, Event_number>>
        /\ pc[t] = "sleep" /\ pc' = [pc EXCEPT ![t] = "endrun"]
        /\ rd' = [rd EXCEPT ![t] = "nextEvent"] /\ etype' = [etype EXCEPT ![t] = ENDRUNEVENT]
    BY <1>5 DEF WakeUp, EnterReadout
  <2>2. Unprepared => Unprepared'
    BY <1>a, <2>1 DEF Unprepared
  <2>3. \A u \in Threads : u # t => rd'[u] = rd[u] /\ etype'[u] = etype[u] /\ pc'[u] = pc[u]
    BY <1>a, <1>d, <2>1
  <2>4. rd'[t] = "nextEvent" /\ etype'[t] = TypeAt(pc'[t])
    BY <1>a, <1>d, <2>1 DEF TypeAt
  <2> QED
    BY <1>e, <2>1, <2>2, <2>3, <2>4
<1>6. ASSUME NEW t \in Threads, Flush(t) \/ AwaitWriter(t) \/ CloseFile(t) PROVE OwnRun'
  <2>1. /\ UNCHANGED <<fillBuffer, Runnr, TheRun, header, Event_number, rd, etype>>
        /\ Running' = Running
        /\ pc[t] \in {"endrun", "flush", "close"}
    BY <1>6 DEF Flush, AwaitWriter, CloseFile, vars
  <2>2. \E p \in {"flush", "close", "reset"} : pc' = [pc EXCEPT ![t] = p]
    BY <1>6 DEF Flush, AwaitWriter, CloseFile
  <2>3. rd[t] = "out"
    BY <1>6, <1>c DEF Flush, AwaitWriter, CloseFile, Busy
  <2>4. \A u \in Threads : rd'[u] = "out"
    BY <1>b, <2>1, <2>3
  <2>5. Unprepared => Unprepared'
    BY <1>a, <1>b, <2>1, <2>2 DEF Unprepared
  <2> QED
    BY <1>e, <2>1, <2>4, <2>5
<1>9. ASSUME NEW t \in Threads, ResetCounters(t) PROVE OwnRun'
  <2>1. pc[t] = "reset" /\ rd' = rd /\ Running' = Running
    BY <1>9 DEF ResetCounters
  <2>2. \A u \in Threads : rd'[u] = "out"
    BY <1>b, <1>c, <2>1
  <2>3. Unprepared'
    <3>1. CASE job[t] = "roll"
      <4>1. pc' = [pc EXCEPT ![t] = "open"]
        BY <1>9, <3>1 DEF ResetCounters
      <4> QED
        BY <1>a, <4>1 DEF Unprepared
    <3>2. CASE job[t] # "roll"
      <4>1. pc' = [pc EXCEPT ![t] = "idle"] /\ ~Running
        BY <1>0, <1>a, <1>9, <3>2 DEF ResetCounters
      <4> QED
        BY <1>a, <1>b, <2>1, <4>1 DEF Unprepared
    <3> QED
      BY <3>1, <3>2
  <2> QED
    BY <1>f, <2>2, <2>3
<1>10. ASSUME NEW t \in Threads, DaqBegin(t, 0) PROVE OwnRun'
  <2>1. rd' = rd /\ pc[t] = "idle" /\ pc' = [pc EXCEPT ![t] = "open"] /\ ~Running /\ t = c
    BY <1>0, <1>10 DEF DaqBegin
  <2>2. pc[evt] \notin EndPlaces
    BY <1>0, <1>a, <1>10, <2>1 DEF DaqBegin, AtRest, CalmOperation
  <2>3. Unprepared
    BY <1>0, <2>1, <2>2 DEF Unprepared
  <2>4. \A u \in Threads : rd'[u] = "out"
    BY <2>1, <2>3, BusyAlone DEF Busy
  <2> QED
    BY <1>a, <1>f, <2>1, <2>4 DEF Unprepared
<1>11. CASE RollOver
  <2>1. /\ UNCHANGED <<fillBuffer, Runnr, TheRun, header, Event_number>> /\ Running' = Running
        /\ pc[evt] = "rollOver" /\ pc' = [pc EXCEPT ![evt] = "endrun"]
        /\ rd' = [rd EXCEPT ![evt] = "nextEvent"] /\ etype' = [etype EXCEPT ![evt] = ENDRUNEVENT]
    BY <1>11 DEF RollOver, EnterReadout
  <2>2. Unprepared => Unprepared'
    BY <1>0, <1>a, <2>1 DEF Unprepared
  <2>3. \A u \in Threads : u # evt => rd'[u] = rd[u] /\ etype'[u] = etype[u] /\ pc'[u] = pc[u]
    BY <1>a, <1>d, <2>1
  <2>4. rd'[evt] = "nextEvent" /\ etype'[evt] = TypeAt(pc'[evt])
    BY <1>0, <1>a, <1>d, <2>1 DEF TypeAt
  <2> QED
    BY <1>e, <2>1, <2>2, <2>3, <2>4
<1>12. ASSUME NEW t \in Threads, DaqOpen(t) PROVE OwnRun'
  <2>1. UNCHANGED <<fillBuffer, Runnr, TheRun, header, Event_number, rd, etype, pc>>
        /\ Running' = Running
    BY <1>12 DEF DaqOpen, vars
  <2> QED
    BY <1>e, <2>1 DEF Unprepared
<1>13. ASSUME NEW t \in Threads, Readout(t) \/ Switch(t) PROVE OwnRun'
  <2>1. Busy(t) /\ Unprepared' = Unprepared /\ UNCHANGED <<pc, TheRun>>
    <3>1. Busy(t) /\ UNCHANGED <<pc, TheRun>> /\ Running' = Running
      BY <1>13, InsideStays
    <3> QED
      BY <3>1 DEF Unprepared
  <2>2. ~Unprepared /\ Runnr[fillBuffer] = TheRun /\ TheRun > 0
    BY <2>1, BusyAlone DEF OwnRun
  <2>3. \A u \in Threads : u # t => rd[u] = "out"
    BY <2>1, HandOverParts DEF Exclusive, Busy
  <2>4. rd[t] # "out" => etype[t] = TypeAt(pc[t])
    BY DEF OwnRun
  <2>5. rd[t] = "addSubevents" =>
            header[fillBuffer] = [run |-> TheRun, type |-> etype[t], num |-> Event_number]
    BY DEF OwnRun, SubeventsGoToOwnEvent
  <2>6. CASE NextEvent(t)
    <3>1. /\ UNCHANGED <<fillBuffer, Runnr, Event_number, etype>> /\ rd[t] # "out"
          /\ rd' = [rd EXCEPT ![t] = "addSubevents"]
          /\ header' = [header EXCEPT ![fillBuffer] = [run |-> Runnr[fillBuffer],
                            type |-> etype[t], num |-> Event_number]]
      BY <2>6 DEF NextEvent
    <3>2. \A u \in Threads : u # t => rd'[u] = "out"
      BY <1>d, <2>3, <3>1
    <3>3. header'[fillBuffer'] = [run |-> TheRun, type |-> etype[t], num |-> Event_number]
      BY <1>d, <2>2, <3>1
    <3> QED
      BY <2>1, <2>2, <2>4, <3>1, <3>2, <3>3 DEF OwnRun, SubeventsGoToOwnEvent
  <2>7. CASE BufferFull(t) \/ DropEmptyEvent(t) \/ \E timeUp \in BOOLEAN : KeepEvent(t, timeUp)
    <3>1. /\ UNCHANGED <<fillBuffer, Runnr, etype>>
          /\ \E p \in {"retry", "out"} : rd' = [rd EXCEPT ![t] = p]
          /\ rd[t] # "out"
      BY <2>7 DEF BufferFull, DropEmptyEvent, KeepEvent
    <3>2. \A u \in Threads : rd'[u] # "out" => u = t /\ rd'[u] = "retry"
      BY <1>d, <2>3, <3>1
    <3> QED
      BY <2>1, <2>2, <2>4, <3>1, <3>2 DEF OwnRun, SubeventsGoToOwnEvent
  <2>8. CASE Swap(t)
    <3>1. /\ fillBuffer' = transportBuffer /\ UNCHANGED <<rd, etype, Event_number>>
          /\ Runnr' = IF TheRun > 0 THEN [Runnr EXCEPT ![transportBuffer] = TheRun] ELSE Runnr
          /\ sw[t] # "out"
      BY <2>8 DEF Swap, PrepareNext
    <3>2. Runnr'[fillBuffer'] = TheRun'
      BY <1>d, <2>1, <2>2, <3>1
    <3>3. \A u \in Threads : rd'[u] # "addSubevents"
      BY <2>3, <3>1, HandOverParts DEF Exclusive
    <3> QED
      BY <2>1, <2>2, <2>3, <2>4, <3>1, <3>2, <3>3 DEF OwnRun, SubeventsGoToOwnEvent
  <2>9. CASE LockWriteProtect(t) \/ LockSendProtect(t) \/ UnlockWrite(t) \/ UnlockSend(t)
    <3>1. UNCHANGED <<fillBuffer, Runnr, TheRun, header, Event_number, rd, etype, pc>>
      BY <2>1, <2>9 DEF LockWriteProtect, LockSendProtect, UnlockWrite, UnlockSend
    <3> QED
      BY <1>e, <2>1, <3>1
  <2> QED
    BY <1>13, <2>6, <2>7, <2>8, <2>9 DEF Readout, ReadoutStep, Switch, SwitchStep
<1>14. CASE (WriterStep \/ SenderStep) /\ UNCHANGED rcVars
  <2>1. UNCHANGED <<fillBuffer, Runnr, TheRun, header, Event_number, rd, etype, pc>>
        /\ Running' = Running
    BY <1>14 DEF WriterStep, WriterTake, WriterRelease, WriterStore, WriterFail, WriterSkip,
      SenderStep, SenderTake, SenderDone
  <2> QED
    BY <1>e, <2>1 DEF Unprepared
<1>15. CASE OtherStep
  <2>1. /\ UNCHANGED <<fillBuffer, Runnr, TheRun, header, Event_number>>
        /\ Running' = Running
        /\ \A t \in Threads, p \in BeginPlaces \cup EndPlaces : pc'[t] = p <=> pc[t] = p
    BY <1>15 DEF OtherStep, Elsewhere
  <2>2. Unprepared' = Unprepared /\ \A t \in Threads : TypeAt(pc'[t]) = TypeAt(pc[t])
    BY <2>1 DEF Unprepared, TypeAt
  <2>3. CASE UNCHANGED <<rd, etype>>
    BY <1>e, <2>1, <2>2, <2>3
  <2>4. CASE pc'[evt] = "reading" /\ EnterReadout(evt, DATAEVENT)
    <3>1. rd' = [rd EXCEPT ![evt] = "nextEvent"] /\ etype' = [etype EXCEPT ![evt] = DATAEVENT]
      BY <2>4 DEF EnterReadout
    <3>2. \A u \in Threads : u # evt => rd'[u] = rd[u] /\ etype'[u] = etype[u]
      BY <1>d, <3>1
    <3>3. rd'[evt] = "nextEvent" /\ etype'[evt] = TypeAt(pc'[evt])
      BY <1>0, <1>d, <2>4, <3>1 DEF TypeAt
    <3> QED
      BY <1>e, <2>1, <2>2, <3>2, <3>3
  <2> QED
    BY <1>15, <2>3, <2>4 DEF OtherStep
<1>16. ASSUME NEW t \in Threads, BeginFails(t) PROVE OwnRun'
  <2>1. /\ pc[t] = "open" /\ ~Running /\ Running' = Running /\ t = c
        /\ pc' = [pc EXCEPT ![t] = "idle"] /\ rd' = rd
    BY <1>0, <1>a, <1>16 DEF BeginFails, vars
  <2>2. \A u \in Threads : rd'[u] = "out"
    BY <1>b, <1>c, <2>1
  <2>3. Unprepared'
    BY <1>0, <1>a, <1>b, <2>1 DEF Unprepared
  <2> QED
    BY <1>f, <2>2, <2>3
<1> QED
  BY <1>1, <1>3, <1>4, <1>5, <1>6, <1>9, <1>10, <1>11, <1>12, <1>13, <1>14, <1>15,
     <1>16, RunSteps DEF SessionStep


\* The consumers work on the transport buffer, and it is closed.
LEMMA ConsumersApartStep ==
    ASSUME CalmOperation, PlainRuns, HandOverInv, RunPlaces, FileOfRun, NumbersGrow, NothingLeft,
           ConsumersApart, [RCNext]_allVars
    PROVE  ConsumersApart'
<1>0. /\ has_end \in [Buffers -> {0, 1}] /\ fillBuffer \in Buffers /\ transportBuffer \in Buffers
      /\ sw \in [Threads -> {"out", "lockWrite", "lockSend", "swap", "unlockWrite", "unlockSend"}]
      /\ fillBuffer # transportBuffer /\ WriteSem \in {0, 1} /\ SendSem \in {0, 1}
      /\ writer \in {"wait", "writing"} /\ sender \in {"wait", "sending"}
  BY DEF HandOverInv, BufferTypes, ControlInv, ControlTypes, FileOfRun
\* Steps by which no buffer changes and no consumer starts.
<1>e. ASSUME UNCHANGED <<transportBuffer, wbuf, sbuf, wfd, outfile_fd>>,
             has_end'[transportBuffer] = has_end[transportBuffer],
             writer' = "writing" => writer = "writing",
             sender' = "sending" => sender = "sending",
             WriterOwes' => WriterOwes, SenderOwes' => SenderOwes
      PROVE  ConsumersApart'
  BY <1>e DEF ConsumersApart
<1>1. ASSUME NEW t \in Threads, OpenFile(t) PROVE ConsumersApart'
  <2>1. /\ UNCHANGED <<transportBuffer, wbuf, sbuf, wfd, has_end, writer, sender, WriteSem,
                       SendSem, sw>>
        /\ pc[t] = "open" /\ (outfile_fd' # 0 => outfile_fd # 0 \/ daq_open_flag)
    BY <1>1 DEF OpenFile
  <2>2. WriterOwes' = WriterOwes /\ SenderOwes' = SenderOwes
    BY <2>1 DEF WriterOwes, SenderOwes
  <2>3. outfile_fd' = outfile_fd \/ ~WriterOwes
    BY <1>1, <2>1 DEF OpenFile, NothingLeft, Settled, At
  <2> QED
    BY <2>1, <2>2, <2>3 DEF ConsumersApart, WriterOwes
<1>2. ASSUME NEW t \in Threads, PrepareRun(t) PROVE ConsumersApart'
  <2>1. /\ UNCHANGED <<wbuf, sbuf, wfd, writer, sender, WriteSem, SendSem, sw, outfile_fd>>
        /\ pc[t] = "prepare" /\ (SenderKeepsUp => sender = "wait" /\ SendSem = 0)
    BY <1>2 DEF PrepareRun
  <2>2. WriterOwes' = WriterOwes /\ SenderOwes' = SenderOwes
    BY <2>1 DEF WriterOwes, SenderOwes
  <2>3. outfile_fd # 0 => ~WriterOwes
    BY <2>1 DEF NothingLeft, Settled, At
  <2>4. writer # "writing" \/ wfd = 0
    BY <2>3, HandOverParts DEF WriterFile, WriterOwes
  <2>5. \A u \in Threads : sw[u] = "out"
    BY <2>1, BusyAlone DEF Busy, At
  <2>6. SenderKeepsUp => sender # "sending" /\ ~SenderOwes
    BY <2>1, <2>5 DEF SenderOwes
  <2> QED
    BY <2>1, <2>2, <2>3, <2>4, <2>6 DEF ConsumersApart
<1>3. ASSUME NEW t \in Threads, Flush(t) PROVE ConsumersApart'
  <2>1. /\ UNCHANGED <<transportBuffer, has_end, wbuf, sbuf, wfd, outfile_fd, writer, sender,
                       WriteSem, SendSem>>
        /\ sw' = [sw EXCEPT ![t] = "lockWrite"]
    BY <1>3 DEF Flush, EnterSwitch
  <2>2. (WriterOwes' => WriterOwes) /\ (SenderOwes' => SenderOwes)
    BY <1>0, <2>1 DEF WriterOwes, SenderOwes
  <2> QED
    BY <1>e, <2>1, <2>2
<1>4. ASSUME NEW t \in Threads, CloseFile(t) PROVE ConsumersApart'
  <2>1. /\ UNCHANGED <<transportBuffer, has_end, wbuf, sbuf, wfd, writer, sender, WriteSem,
                       SendSem, sw>>
        /\ outfile_fd' = 0
    BY <1>4 DEF CloseFile
  <2>2. SenderOwes' = SenderOwes
    BY <2>1 DEF SenderOwes
  <2> QED
    BY <2>1, <2>2 DEF ConsumersApart
<1>5. ASSUME UNCHANGED <<transportBuffer, has_end, wbuf, sbuf, wfd, outfile_fd, writer, sender,
                         WriteSem, SendSem, sw>>
      PROVE  ConsumersApart'
  BY <1>5, <1>e DEF WriterOwes, SenderOwes
<1>6. ASSUME NEW t \in Threads,
             SessionStep(t), ~OpenFile(t), ~PrepareRun(t), ~Flush(t), ~CloseFile(t)
      PROVE  ConsumersApart'
  <2>1. UNCHANGED <<transportBuffer, has_end, wbuf, sbuf, wfd, outfile_fd, writer, sender,
                    WriteSem, SendSem, sw>>
    BY <1>6 DEF SessionStep, StartCounting, BeginDone, WakeUp, AwaitWriter, ResetCounters,
        DaqBegin, BeginFails, RollOver, DaqOpen, vars
  <2> QED
    BY <1>5, <2>1
<1>7. ASSUME NEW t \in Threads, Readout(t) \/ Switch(t) PROVE ConsumersApart'
  <2>1. CASE Swap(t)
    <3>1. /\ UNCHANGED <<writer, sender, wfd, outfile_fd>> /\ transportBuffer' = fillBuffer
          /\ has_end' = [[has_end EXCEPT ![fillBuffer] = 1] EXCEPT ![transportBuffer] = 0]
          /\ sw[t] = "swap"
      BY <2>1 DEF Swap, PrepareNext
    <3>2. writer = "wait" /\ sender = "wait"
      BY <3>1, HandOverParts DEF WriteToken, SendToken
    <3>3. has_end'[transportBuffer'] = 1
      BY <1>0, <3>1
    <3> QED
      BY <3>1, <3>2, <3>3 DEF ConsumersApart
  <2>2. CASE ~Swap(t)
    <3>1. /\ UNCHANGED <<transportBuffer, has_end, wbuf, sbuf, wfd, outfile_fd, writer, sender>>
      BY <1>7, <2>2 DEF Readout, ReadoutStep, NextEvent, BufferFull, DropEmptyEvent, KeepEvent,
          Switch, SwitchStep, LockWriteProtect, LockSendProtect, UnlockWrite, UnlockSend
    <3>2. WriterOwes' => WriterOwes
      <4>1. WriteSem' = 1 => WriteSem = 1 \/ sw[t] = "unlockWrite"
        BY <1>7, <2>2 DEF Readout, ReadoutStep, NextEvent, BufferFull, DropEmptyEvent, KeepEvent,
            Switch, SwitchStep, LockWriteProtect, LockSendProtect, UnlockWrite, UnlockSend
      <4>2. \A u \in Threads : sw'[u] = "unlockWrite" => sw[u] = "unlockWrite"
        BY <1>0, <1>7, <2>2 DEF Readout, ReadoutStep, NextEvent, BufferFull, DropEmptyEvent,
            KeepEvent, Switch, SwitchStep, LockWriteProtect, LockSendProtect, UnlockWrite,
            UnlockSend
      <4> QED
        BY <3>1, <4>1, <4>2 DEF WriterOwes
    <3>3. SenderOwes' => SenderOwes
      <4>1. SendSem' = 1 => SendSem = 1 \/ sw[t] = "unlockSend"
        BY <1>7, <2>2 DEF Readout, ReadoutStep, NextEvent, BufferFull, DropEmptyEvent, KeepEvent,
            Switch, SwitchStep, LockWriteProtect, LockSendProtect, UnlockWrite, UnlockSend
      <4>2. \A u \in Threads : sw'[u] \in {"unlockWrite", "unlockSend"} =>
                                    sw[u] \in {"unlockWrite", "unlockSend"}
        BY <1>0, <1>7, <2>2 DEF Readout, ReadoutStep, NextEvent, BufferFull, DropEmptyEvent,
            KeepEvent, Switch, SwitchStep, LockWriteProtect, LockSendProtect, UnlockWrite,
            UnlockSend
      <4> QED
        BY <3>1, <4>1, <4>2 DEF SenderOwes
    <3> QED
      BY <1>e, <3>1, <3>2, <3>3
  <2> QED
    BY <2>1, <2>2
<1>8. CASE WriterStep /\ UNCHANGED rcVars
  <2>1. CASE WriterTake
    <3>1. /\ UNCHANGED <<transportBuffer, sbuf, outfile_fd, sender, SendSem, sw>>
          /\ wbuf' = transportBuffer /\ WriteSem = 1
          /\ \/ has_end' = has_end
             \/ has_end' = [has_end EXCEPT ![transportBuffer] = 1]
      BY <2>1 DEF WriterTake, SealTransport
    <3>2. has_end'[transportBuffer] = has_end[transportBuffer] \/ has_end'[transportBuffer] = 1
      BY <1>0, <3>1
    <3>3. WriterOwes /\ SenderOwes' = SenderOwes
      BY <3>1 DEF WriterOwes, SenderOwes
    <3>4. wfd' = outfile_fd
      BY <2>1 DEF WriterTake
    <3> QED
      BY <3>1, <3>2, <3>3, <3>4 DEF ConsumersApart
  <2>2. CASE WriterRelease
    <3>1. /\ UNCHANGED <<transportBuffer, has_end, wbuf, wfd, outfile_fd, sbuf, sender, SendSem,
                         sw, WriteSem>>
          /\ writer' = "wait" /\ writer = "writing"
      BY <2>2 DEF WriterRelease
    <3>2. (WriterOwes' => WriterOwes) /\ SenderOwes' = SenderOwes
      BY <3>1 DEF WriterOwes, SenderOwes
    <3> QED
      BY <1>e, <3>1, <3>2
  <2> QED
    BY <1>8, <2>1, <2>2 DEF WriterStep, WriterStore, WriterFail, WriterSkip
<1>9. CASE SenderStep /\ UNCHANGED rcVars
  <2>1. CASE SenderTake
    <3>1. /\ UNCHANGED <<transportBuffer, wbuf, wfd, outfile_fd, writer, WriteSem, sw>>
          /\ sbuf' = transportBuffer /\ SendSem = 1
          /\ has_end' = [has_end EXCEPT ![transportBuffer] = 1]
      BY <2>1 DEF SenderTake, SealTransport
    <3>2. has_end'[transportBuffer] = 1 /\ WriterOwes' = WriterOwes
      BY <1>0, <3>1 DEF WriterOwes
    <3> QED
      BY <3>1, <3>2 DEF ConsumersApart
  <2>2. CASE SenderDone
    <3>1. /\ UNCHANGED <<transportBuffer, has_end, wbuf, wfd, outfile_fd, sbuf, writer, SendSem,
                         sw, WriteSem>>
          /\ sender' = "wait" /\ sender = "sending"
      BY <2>2 DEF SenderDone
    <3>2. WriterOwes' = WriterOwes /\ (SenderOwes' => SenderOwes)
      BY <3>1 DEF WriterOwes, SenderOwes
    <3> QED
      BY <1>e, <3>1, <3>2
  <2> QED
    BY <1>9, <2>1, <2>2 DEF SenderStep
<1>10. CASE OtherStep
  BY <1>5, <1>10 DEF OtherStep
<1> QED
  BY <1>1, <1>2, <1>3, <1>4, <1>6, <1>7, <1>8, <1>9, <1>10, RunSteps


-----------------------------------------------------------------------------
(* The stream of the open file                                               *)

LEMMA StreamTypes ==
    ASSUME HandOverInv
    PROVE  /\ accepted \in Seq(Event) /\ Stored \in Seq(Event) /\ StoredBufs \in Seq(Nat)
           /\ events[fillBuffer] \in Seq(Event) /\ events[transportBuffer] \in Seq(Event)
           /\ ForWriter \in Seq(Event) /\ Stream \in Seq(Event)
<1>1. /\ accepted \in Seq(Event) /\ events \in [Buffers -> Seq(Event)]
      /\ fillBuffer \in Buffers /\ transportBuffer \in Buffers /\ outfile_fd \in {0} \cup Fds
      /\ file \in [Fds -> Seq(Event)] /\ fileBufs \in [Fds -> Seq(Nat)]
  BY DEF HandOverInv, RCTypeOK, BufferTypes
<1>2. /\ Stored \in Seq(Event) /\ StoredBufs \in Seq(Nat)
  BY <1>1, EmptySeq DEF Stored, StoredBufs
<1>3. /\ events[fillBuffer] \in Seq(Event) /\ events[transportBuffer] \in Seq(Event)
      /\ << >> \in Seq(Event)
  BY <1>1, EmptySeq
<1>4. \A a, b \in Seq(Event) : a \o b \in Seq(Event)
  BY ConcatProperties
<1>5. ForWriter \in Seq(Event)
  BY <1>3, <1>4 DEF ForWriter
<1> QED
  BY <1>1, <1>2, <1>3, <1>4, <1>5 DEF Stream

\* A file that has just been opened is empty, and so is everything on the way to it.
LEMMA FreshFile ==
    ASSUME HandOverInv, NumbersGrow, NothingLeft, At({"count", "prepare"}), outfile_fd # 0
    PROVE  /\ Stream = << >> /\ StoredBufs = << >> /\ ~WriterOwes
           /\ \A i \in DOMAIN accepted : accepted[i].run < TheRun
<1>1. Stored = << >> /\ StoredBufs = << >>
  BY DEF NumbersGrow, Stored, StoredBufs
<1>2. At({"open", "count", "prepare"})
  BY DEF At
<1>3. events[fillBuffer] = << >> /\ ~WriterOwes
  BY <1>2 DEF NothingLeft, Unprepared, Settled
<1>4. Stream = << >> \o (<< >> \o << >>)
  BY <1>1, <1>3 DEF Stream, ForWriter
<1>5. << >> \o << >> = << >>
  BY EmptySeq, ConcatEmptySeq
<1> QED
  BY <1>1, <1>2, <1>3, <1>4, <1>5 DEF NumbersGrow

\* A fresh file has the stream of a run without events.
LEMMA FreshStream ==
    ASSUME HandOverInv, NumbersGrow, NothingLeft, At({"count", "prepare"})
    PROVE  StreamIsRun
<1> SUFFICES ASSUME outfile_fd # 0 PROVE StreamIsRun
  BY DEF StreamIsRun
<1>1. Stream = << >> /\ \A i \in DOMAIN accepted : accepted[i].run < TheRun
  BY FreshFile
<1>2. Len(accepted) \in Nat /\ DOMAIN accepted = 1 .. Len(accepted) /\ TheRun \in Nat
  BY StreamTypes, LenProperties, RunControlAssumption DEF HandOverInv, RCTypeOK
<1>3. Earlier = Len(accepted) /\ DOMAIN Stream = {}
  BY <1>1, <1>2 DEF Earlier
<1>4. \A i \in DOMAIN accepted : accepted[i].run \in Nat
  <2>1. \A i \in DOMAIN accepted : accepted[i] \in Event
    BY StreamTypes
  <2> QED
    BY <2>1 DEF Event
<1> QED
  BY <1>1, <1>2, <1>3, <1>4 DEF StreamIsRun

\* Steps that move the stream along, or do not touch it.
LEMMA SameStream ==
    ASSUME StreamIsRun, UNCHANGED <<accepted, TheRun, outfile_fd>>,
           outfile_fd # 0 => Stream' = Stream,
           dropped' = dropped
    PROVE  StreamIsRun'
<1>1. CASE outfile_fd = 0
  BY <1>1 DEF StreamIsRun
<1>2. CASE outfile_fd # 0
  <2>1. Stream' = Stream
    BY <1>2
  <2>2. Earlier' = Earlier
    BY <2>1 DEF Earlier
  <2> QED
    BY <2>1, <2>2 DEF StreamIsRun
<1> QED
  BY <1>1, <1>2

\* An event that readout() keeps is the next one of the open file.
LEMMA KeptInStream ==
    ASSUME CalmOperation, HandOverInv, RunPlaces, FileOfRun, OwnRun, StreamIsRun, StreamCounts,
           NEW t \in Threads, NEW timeUp \in BOOLEAN, KeepEvent(t, timeUp)
    PROVE  /\ WriterOwes' = WriterOwes /\ Stream' = Append(Stream, header[fillBuffer])
           /\ StreamIsRun'
<1> DEFINE ev == header[fillBuffer]
<1>0. rd[t] = "addSubevents" /\ Busy(t)
  BY DEF KeepEvent, Busy
<1>1. /\ ev = [run |-> TheRun, type |-> etype[t], num |-> Event_number]
      /\ ev \in Event /\ Event_number \in Nat /\ TheRun \in Nat
  <2>1. ev = [run |-> TheRun, type |-> etype[t], num |-> Event_number]
    BY <1>0 DEF OwnRun, SubeventsGoToOwnEvent
  <2>2. ev \in Event /\ Event_number \in Nat
    BY <1>0 DEF HandOverInv, BufferTypes
  <2>3. TheRun \in Nat
    BY RunControlAssumption DEF HandOverInv, RCTypeOK
  <2> QED
    BY <2>1, <2>2, <2>3
<1>2. /\ events \in [Buffers -> Seq(Event)] /\ fillBuffer \in Buffers /\ transportBuffer \in Buffers
      /\ fillBuffer # transportBuffer
      /\ sw \in [Threads -> {"out", "lockWrite", "lockSend", "swap", "unlockWrite", "unlockSend"}]
  BY DEF HandOverInv, RCTypeOK, BufferTypes, FileOfRun, ControlInv, ControlTypes
<1>3. /\ events'[fillBuffer'] = Append(events[fillBuffer], ev)
      /\ events'[transportBuffer'] = events[transportBuffer]
      /\ accepted' = Append(accepted, ev)
      /\ UNCHANGED <<TheRun, outfile_fd, file, dropped>>
  BY <1>2 DEF KeepEvent
<1>4. WriterOwes' = WriterOwes
  <2>1. sw[t] = "out" /\ UNCHANGED <<writer, WriteSem>>
    BY DEF KeepEvent
  <2>2. \A u \in Threads : sw'[u] = "unlockWrite" <=> sw[u] = "unlockWrite"
    <3>1. CASE timeUp
      BY <1>2, <2>1, <3>1 DEF KeepEvent
    <3>2. CASE ~timeUp
      BY <3>2 DEF KeepEvent
    <3> QED
      BY <3>1, <3>2
  <2> QED
    BY <2>1, <2>2 DEF WriterOwes
<1>5. ForWriter' = Append(ForWriter, ev)
  <2>1. PICK b \in Seq(Event) : /\ ForWriter = b \o events[fillBuffer]
                                /\ ForWriter' = b \o Append(events[fillBuffer], ev)
    BY <1>3, <1>4, StreamTypes, EmptySeq DEF ForWriter
  <2>2. Append(b \o events[fillBuffer], ev) = b \o Append(events[fillBuffer], ev)
    BY <1>1, StreamTypes, EventsAppend, Zenon
  <2> QED
    BY <2>1, <2>2
<1>6. Stream' = Append(Stream, ev)
  <2>1. Stream' = Stored \o Append(ForWriter, ev)
    BY <1>3, <1>5 DEF Stream, Stored
  <2>2. Append(Stored \o ForWriter, ev) = Stored \o Append(ForWriter, ev)
    BY <1>1, StreamTypes, EventsAppend, Zenon
  <2> QED
    BY <2>1, <2>2 DEF Stream
<1>7. /\ Len(accepted') = Len(accepted) + 1 /\ Len(accepted) \in Nat
      /\ DOMAIN accepted' = 1 .. Len(accepted) + 1 /\ DOMAIN accepted = 1 .. Len(accepted)
      /\ \A i \in 1 .. Len(accepted) : accepted'[i] = accepted[i]
      /\ accepted'[Len(accepted) + 1] = ev
  BY <1>1, <1>3, StreamTypes, AppendProperties, LenProperties
<1>8. /\ Len(Stream') = Len(Stream) + 1 /\ Len(Stream) \in Nat
      /\ DOMAIN Stream' = 1 .. Len(Stream) + 1 /\ DOMAIN Stream = 1 .. Len(Stream)
      /\ \A i \in 1 .. Len(Stream) : Stream'[i] = Stream[i]
      /\ Stream'[Len(Stream) + 1] = ev
  BY <1>1, <1>6, StreamTypes, AppendProperties, LenProperties
<1>9. ASSUME outfile_fd # 0, dropped = {} PROVE ev.run = TheRun /\ ev.num = Len(Stream) + 1
  <2>1. ~At({"count", "prepare"})
    BY <1>0, BusyAlone DEF At
  <2> QED
    BY <1>1, <1>8, <1>9, <2>1 DEF StreamCounts
<1>10. StreamIsRun'
  <2> SUFFICES ASSUME outfile_fd # 0, dropped = {} PROVE StreamIsRun'
    BY <1>3 DEF StreamIsRun
  <2>1. Earlier \in Nat /\ Earlier' = Earlier /\ Len(accepted) = Earlier + Len(Stream)
    BY <1>7, <1>8 DEF Earlier, StreamIsRun
  <2>2. \A i \in DOMAIN accepted' : accepted'[i].run = TheRun <=> i > Earlier
    BY <1>7, <1>8, <1>9, <2>1 DEF StreamIsRun
  <2>3. \A i \in DOMAIN Stream' : Stream'[i] = accepted'[Earlier + i] /\ Stream'[i].num = i
    <3>1. TAKE i \in DOMAIN Stream'
    <3>2. CASE i = Len(Stream) + 1
      BY <1>7, <1>8, <1>9, <2>1, <3>2
    <3>3. CASE i \in DOMAIN Stream
      BY <1>7, <1>8, <2>1, <3>3 DEF StreamIsRun
    <3> QED
      BY <1>8, <3>2, <3>3
  <2> QED
    BY <1>3, <2>1, <2>2, <2>3 DEF StreamIsRun
<1> QED
  BY <1>4, <1>6, <1>10

\* switch_buffer() hands the stream on as it is.
LEMMA SwappedStream ==
    ASSUME HandOverInv, FileOfRun, NEW t \in Threads, Swap(t)
    PROVE  Stream' = Stream /\ ~WriterOwes /\ WriterOwes'
<1>1. /\ events \in [Buffers -> Seq(Event)] /\ fillBuffer \in Buffers /\ transportBuffer \in Buffers
      /\ fillBuffer # transportBuffer
      /\ sw \in [Threads -> {"out", "lockWrite", "lockSend", "swap", "unlockWrite", "unlockSend"}]
  BY DEF HandOverInv, RCTypeOK, BufferTypes, FileOfRun, ControlInv, ControlTypes
<1>2. sw[t] = "swap" /\ sw' = [sw EXCEPT ![t] = "unlockWrite"]
  BY DEF Swap
<1>3. ~WriterOwes /\ WriterOwes'
  <2>1. WriterOwes'
    BY <1>1, <1>2 DEF WriterOwes
  <2>2. \A u \in Threads : u # t => sw[u] = "out"
    BY <1>2, HandOverParts DEF Exclusive, Busy
  <2> QED
    BY <1>2, <2>1, <2>2, HandOverParts DEF WriteToken, WriterOwes
<1>4. /\ events'[fillBuffer'] = << >> /\ events'[transportBuffer'] = events[fillBuffer]
      /\ UNCHANGED <<outfile_fd, file>>
  BY <1>1 DEF Swap, PrepareNext
<1>5. ForWriter' = ForWriter
  <2>1. ForWriter = << >> \o events[fillBuffer] /\ ForWriter' = events[fillBuffer] \o << >>
    BY <1>3, <1>4 DEF ForWriter
  <2> QED
    BY <2>1, StreamTypes, ConcatEmptySeq
<1> QED
  BY <1>3, <1>4, <1>5 DEF Stream, Stored

\* The writer moves the stream from the transport buffer to the file.
LEMMA WrittenStream ==
    ASSUME HandOverInv, ConsumersApart, outfile_fd # 0, WriterStore
    PROVE  /\ Stream' = Stream /\ WriterOwes /\ ~WriterOwes'
           /\ StoredBufs' = Append(StoredBufs, Bufseq[transportBuffer])
<1>1. wfd = outfile_fd /\ wbuf = transportBuffer /\ writer = "writing"
  BY DEF WriterStore, WriterRelease, ConsumersApart
<1>2. file \in [Fds -> Seq(Event)] /\ fileBufs \in [Fds -> Seq(Nat)] /\ outfile_fd \in Fds
  BY DEF HandOverInv, RCTypeOK, BufferTypes
<1>3. /\ Stored' = Stored \o events[transportBuffer]
      /\ StoredBufs' = Append(StoredBufs, Bufseq[transportBuffer])
  BY <1>1, <1>2 DEF WriterStore, WriterRelease, Stored, StoredBufs
<1>4. WriterOwes /\ ~WriterOwes'
  BY <1>1, HandOverParts DEF WriterStore, WriterRelease, WriterOwes, WriteToken
<1>5. ForWriter = events[transportBuffer] \o events[fillBuffer] /\ ForWriter' = events[fillBuffer]
  <2>1. ForWriter = events[transportBuffer] \o events[fillBuffer]
    BY <1>4 DEF ForWriter
  <2>2. /\ fillBuffer' = fillBuffer /\ events' = events
        /\ ForWriter' = << >> \o events[fillBuffer]
    <3>1. fillBuffer' = fillBuffer /\ events' = events
      BY DEF WriterStore, WriterRelease
    <3> QED
      BY <1>4, <3>1 DEF ForWriter
  <2> QED
    BY <2>1, <2>2, StreamTypes, ConcatEmptySeq
<1>6. (Stored \o events[transportBuffer]) \o events[fillBuffer]
            = Stored \o (events[transportBuffer] \o events[fillBuffer])
  <2>1. Stored \in Seq(Event) /\ events[transportBuffer] \in Seq(Event) /\ events[fillBuffer] \in Seq(Event)
    BY StreamTypes
  <2> QED
    BY <2>1, EventsAssociative, ZenonT(60)
<1> QED
  BY <1>3, <1>4, <1>5, <1>6 DEF Stream


\* The open file, with what is on the way to it, stays the stream of the run.
LEMMA StreamStep ==
    ASSUME CalmOperation, PlainRuns, HandOverInv, RunPlaces, FileOfRun, NumbersGrow, NothingLeft,
           OwnRun, ConsumersApart, StreamIsRun, StreamCounts, [RCNext]_allVars,
           HandOverInv', FileOfRun', NumbersGrow', NothingLeft'
    PROVE  StreamIsRun' /\ StreamCounts'
<1> USE DEF At, PlaceTypes, BeginPlaces, EndPlaces, Goto, Finish
<1>0. PICK c : Cmds = {c} /\ Threads = {evt, c} /\ c # evt
  BY TwoThreads
<1>a. PlaceTypes /\ JobPlaces
  BY HandOverParts
<1>b. \A t, u \in Threads : t # u /\ pc[t] \in BeginPlaces \cup EndPlaces =>
            pc[u] \notin BeginPlaces \cup EndPlaces
  BY SessionAlone, HandOverParts
<1>c. /\ Bufseq \in [Buffers -> Nat] /\ fillBuffer \in Buffers /\ transportBuffer \in Buffers
      /\ fillBuffer # transportBuffer /\ Event_number \in Nat /\ Buffer_number \in Nat
      /\ Len(StoredBufs) \in Nat /\ Len(Stream) \in Nat
  BY StreamTypes, LenProperties DEF HandOverInv, BufferTypes, FileOfRun
\* Without an open file there is nothing to say.
<1>d. ASSUME outfile_fd' = 0 PROVE StreamIsRun' /\ StreamCounts'
  BY <1>d DEF StreamIsRun, StreamCounts
\* Steps that leave the stream and the counters alone.
<1>e. ASSUME UNCHANGED <<accepted, TheRun, outfile_fd, file, fileBufs, dropped, events, fillBuffer,
                         transportBuffer, Bufseq, Event_number, Buffer_number>>,
             WriterOwes' = WriterOwes,
             At({"prepare"})' => At({"prepare"}),
             At({"count", "prepare"}) => At({"count", "prepare"})'
      PROVE  StreamIsRun' /\ StreamCounts'
  <2>1. Stream' = Stream /\ StoredBufs' = StoredBufs /\ LastDone' = LastDone
    BY <1>e DEF Stream, Stored, StoredBufs, ForWriter, LastDone
  <2>2. StreamIsRun'
    BY <1>e, <2>1, SameStream
  <2>3. StreamCounts'
    BY <1>e, <2>1 DEF StreamCounts
  <2> QED
    BY <2>2, <2>3
\* The buffers on the way to the file are the same, and so are the events in them.
<1>f. ASSUME UNCHANGED <<accepted, TheRun, outfile_fd, file, fileBufs, dropped, events, fillBuffer,
                         transportBuffer, Bufseq, Event_number, Buffer_number, writer, WriteSem,
                         sw>>,
             \A u \in Threads : pc'[u] \in {"count", "prepare"} \/ pc[u] \in {"count", "prepare"}
                                    => pc'[u] = pc[u]
      PROVE  StreamIsRun' /\ StreamCounts'
  BY <1>e, <1>f DEF WriterOwes
<1>1. ASSUME NEW t \in Threads, OpenFile(t) \/ StartCounting(t)
      PROVE  StreamIsRun' /\ StreamCounts'
  <2>1. /\ pc[t] \in {"open", "count"}
        /\ \/ pc' = [pc EXCEPT ![t] = "count"]
           \/ pc' = [pc EXCEPT ![t] = "prepare"] /\ Event_number' = 1 /\ Buffer_number' = 1
    BY <1>1 DEF OpenFile, StartCounting
  <2>2. At({"count", "prepare"})'
    BY <1>a, <2>1
  <2>3. StreamIsRun'
    <3>1. (HandOverInv /\ NumbersGrow /\ NothingLeft /\ At({"count", "prepare"}) => StreamIsRun)'
      BY FreshStream, PTL
    <3> QED
      BY <2>2, <3>1
  <2>4. outfile_fd' # 0 => StoredBufs' = << >>
    <3>1. (HandOverInv /\ NumbersGrow /\ NothingLeft /\ At({"count", "prepare"})
              /\ outfile_fd # 0 => StoredBufs = << >>)'
      BY FreshFile, PTL
    <3> QED
      BY <2>2, <3>1
  <2>5. At({"prepare"})' => Event_number' = 1 /\ Buffer_number' = 1
    BY <1>a, <1>b, <2>1
  <2> QED
    BY <2>2, <2>3, <2>4, <2>5 DEF StreamCounts
<1>2. ASSUME NEW t \in Threads, PrepareRun(t) PROVE StreamIsRun' /\ StreamCounts'
  <2>1. /\ UNCHANGED <<accepted, TheRun, outfile_fd, file, fileBufs, dropped, Event_number,
                       Buffer_number, writer, WriteSem, sw>>
        /\ pc[t] = "prepare" /\ pc' = [pc EXCEPT ![t] = "begrun"]
        /\ fillBuffer' = "Buffer1" /\ events' = [events EXCEPT !["Buffer1"] = << >>]
        /\ Bufseq' = [Bufseq EXCEPT !["Buffer1"] = Buffer_number]
    BY <1>2 DEF PrepareRun, PrepareNext
  <2> SUFFICES ASSUME outfile_fd # 0, dropped = {} PROVE StreamIsRun' /\ StreamCounts'
    BY <1>d, <2>1 DEF StreamIsRun, StreamCounts
  <2>2. /\ Stream = << >> /\ StoredBufs = << >> /\ ~WriterOwes
    BY <2>1, FreshFile
  <2>3. ~WriterOwes' /\ StoredBufs' = << >>
    BY <2>1, <2>2 DEF WriterOwes, StoredBufs
  <2>4. events'[fillBuffer'] = << >> /\ Bufseq'[fillBuffer'] = Buffer_number'
    <3>1. events \in [Buffers -> Seq(Event)]
      BY DEF HandOverInv, RCTypeOK
    <3> QED
      BY <1>c, <2>1, <3>1 DEF Buffers
  <2>5. Stream' = << >>
    <3>1. Stored = << >>
      BY <2>1 DEF NumbersGrow, Stored
    <3>2. Stream' = << >> \o (<< >> \o << >>)
      BY <2>1, <2>3, <2>4, <3>1 DEF Stream, Stored, ForWriter
    <3>3. << >> \o << >> = << >>
      BY EmptySeq, ConcatEmptySeq
    <3> QED
      BY <3>2, <3>3
  <2>6. StreamIsRun'
    BY <2>1, <2>2, <2>5, SameStream
  <2>7. Event_number = 1 /\ Buffer_number = 1
    BY <2>1 DEF StreamCounts
  <2>8. ~At({"prepare"})'
    BY <1>a, <1>b, <2>1
  <2>9. Len(Stream') = 0 /\ Len(StoredBufs') = 0 /\ LastDone' = 0
    BY <2>1, <2>3, <2>5, <2>7, EmptySeq DEF LastDone
  <2> QED
    BY <2>1, <2>3, <2>4, <2>6, <2>7, <2>8, <2>9 DEF StreamCounts
<1>3. ASSUME NEW t \in Threads, CloseFile(t) \/ ResetCounters(t) \/ DaqBegin(t, 0)
      PROVE  StreamIsRun' /\ StreamCounts'
  <2>1. CASE CloseFile(t)
    BY <1>d, <2>1 DEF CloseFile
  <2>2. CASE ResetCounters(t)
    BY <1>d, <2>2 DEF ResetCounters, FileOfRun
  <2>3. CASE DaqBegin(t, 0)
    <3>1. pc'[t] = "open"
      BY <1>a, <2>3 DEF DaqBegin
    <3> QED
      BY <1>d, <3>1 DEF FileOfRun
  <2> QED
    BY <1>3, <2>1, <2>2, <2>3
<1>4. ASSUME NEW t \in Threads, BeginDone(t) \/ DaqOpen(t) \/ AwaitWriter(t)
      PROVE  StreamIsRun' /\ StreamCounts'
  <2>1. UNCHANGED vars /\ pc[t] \notin {"count", "prepare"}
    BY <1>4 DEF BeginDone, DaqOpen, AwaitWriter
  <2>2. pc' = pc \/ \E p \in {"idle", "close", "reset"} : pc' = [pc EXCEPT ![t] = p]
    BY <1>4 DEF BeginDone, DaqOpen, AwaitWriter
  <2> QED
    BY <1>a, <1>f, <2>1, <2>2 DEF vars
<1>5. ASSUME NEW t \in Threads, WakeUp(t) \/ (t = evt /\ RollOver)
      PROVE  StreamIsRun' /\ StreamCounts'
  <2>1. /\ UNCHANGED <<semVars, bufVars, countVars, runVars, sw, writerVars, accepted>>
        /\ pc[t] \in {"sleep", "rollOver"} /\ pc' = [pc EXCEPT ![t] = "endrun"]
    BY <1>5 DEF WakeUp, RollOver
  <2> QED
    BY <1>a, <1>f, <2>1
<1>6. ASSUME NEW t \in Threads, Flush(t) PROVE StreamIsRun' /\ StreamCounts'
  <2>1. /\ UNCHANGED <<semVars, bufVars, countVars, runVars, writerVars, accepted>>
        /\ pc[t] = "endrun" /\ pc' = [pc EXCEPT ![t] = "flush"]
        /\ sw[t] = "out" /\ sw' = [sw EXCEPT ![t] = "lockWrite"]
    BY <1>6 DEF Flush, EnterSwitch, Busy
  <2>2. sw \in [Threads -> {"out", "lockWrite", "lockSend", "swap", "unlockWrite", "unlockSend"}]
    BY DEF HandOverInv, ControlInv, ControlTypes
  <2>3. WriterOwes' = WriterOwes
    BY <2>1, <2>2 DEF WriterOwes
  <2> QED
    BY <1>a, <1>e, <2>1, <2>3
<1>7. ASSUME NEW t \in Threads, Readout(t) \/ Switch(t) PROVE StreamIsRun' /\ StreamCounts'
  <2>0. UNCHANGED <<pc, TheRun, outfile_fd>> /\ Busy(t)
    BY <1>7, InsideStays
  <2>1. ~At({"count", "prepare"})
    BY <2>0, BusyAlone
  <2>2. ASSUME NEW timeUp \in BOOLEAN, KeepEvent(t, timeUp) PROVE StreamIsRun' /\ StreamCounts'
    <3>1. StreamIsRun' /\ WriterOwes' = WriterOwes /\ Stream' = Append(Stream, header[fillBuffer])
      BY <2>2, KeptInStream
    <3>2. /\ UNCHANGED <<dropped, fillBuffer, transportBuffer, Bufseq, Buffer_number, fileBufs>>
          /\ Event_number' = Event_number + 1 /\ rd[t] = "addSubevents"
      BY <2>2 DEF KeepEvent
    <3>3. StoredBufs' = StoredBufs /\ LastDone' = LastDone
      BY <2>0, <3>1, <3>2 DEF StoredBufs, LastDone
    <3>4. Len(Stream') = Len(Stream) + 1
      <4>1. header[fillBuffer] \in Event
        BY <3>2 DEF HandOverInv, BufferTypes
      <4> QED
        BY <3>1, <4>1, StreamTypes, AppendProperties
    <3>5. StreamCounts'
      BY <1>c, <2>0, <2>1, <3>1, <3>2, <3>3, <3>4 DEF StreamCounts
    <3> QED
      BY <3>1, <3>5
  <2>3. CASE Swap(t)
    <3>1. Stream' = Stream /\ ~WriterOwes /\ WriterOwes'
      BY <2>3, SwappedStream
    <3>2. /\ UNCHANGED <<accepted, dropped, fileBufs, Event_number>>
          /\ Buffer_number' = Buffer_number + 1
          /\ fillBuffer' = transportBuffer /\ transportBuffer' = fillBuffer
          /\ Bufseq' = [Bufseq EXCEPT ![transportBuffer] = Buffer_number + 1]
      BY <2>3 DEF Swap, PrepareNext
    <3>3. StreamIsRun'
      BY <2>0, <3>1, <3>2, SameStream
    <3>4. StoredBufs' = StoredBufs /\ LastDone' = LastDone
      BY <1>c, <2>0, <3>1, <3>2 DEF StoredBufs, LastDone
    <3>5. Bufseq'[fillBuffer'] = Buffer_number' /\ Bufseq'[transportBuffer'] = Bufseq[fillBuffer]
      BY <1>c, <3>2
    <3>6. StreamCounts'
      BY <1>c, <2>0, <2>1, <3>1, <3>2, <3>4, <3>5 DEF StreamCounts
    <3> QED
      BY <3>3, <3>6
  <2>4. CASE ~Swap(t) /\ ~\E timeUp \in BOOLEAN : KeepEvent(t, timeUp)
    <3>1. UNCHANGED <<accepted, TheRun, outfile_fd, file, fileBufs, dropped, events, fillBuffer,
                      transportBuffer, Bufseq, Event_number, Buffer_number, writer>>
      BY <1>7, <2>4 DEF Readout, ReadoutStep, NextEvent, BufferFull, DropEmptyEvent, Switch,
          SwitchStep, LockWriteProtect, LockSendProtect, UnlockWrite, UnlockSend
    <3>2. WriterOwes' = WriterOwes
      <4>0. sw \in [Threads -> {"out", "lockWrite", "lockSend", "swap", "unlockWrite",
                               "unlockSend"}]
        BY DEF HandOverInv, ControlInv, ControlTypes
      <4>1. CASE UnlockWrite(t)
        BY <4>1 DEF UnlockWrite, WriterOwes
      <4>2. CASE ~UnlockWrite(t)
        <5>1. WriteSem' = WriteSem
          BY <1>7, <2>4, <4>2 DEF Readout, ReadoutStep, NextEvent, BufferFull, DropEmptyEvent,
              Switch, SwitchStep, LockWriteProtect, LockSendProtect, UnlockSend
        <5>2. \A u \in Threads : sw'[u] = "unlockWrite" <=> sw[u] = "unlockWrite"
          BY <1>7, <2>4, <4>0, <4>2 DEF Readout, ReadoutStep, NextEvent, BufferFull,
              DropEmptyEvent, Switch, SwitchStep, LockWriteProtect, LockSendProtect, UnlockSend
        <5> QED
          BY <3>1, <5>1, <5>2 DEF WriterOwes
      <4> QED
        BY <4>1, <4>2
    <3> QED
      BY <1>e, <2>0, <3>1, <3>2
  <2> QED
    BY <2>2, <2>3, <2>4
<1>8. CASE (WriterStep \/ SenderStep) /\ UNCHANGED rcVars
  <2>0. /\ UNCHANGED <<pc, TheRun, outfile_fd, accepted, events, fillBuffer, transportBuffer,
                       Bufseq, Event_number, Buffer_number, sw>>
    BY <1>8 DEF WriterStep, WriterTake, WriterStore, WriterFail, WriterSkip, WriterRelease,
        SenderStep, SenderTake, SenderDone
  <2>1. CASE WriterStore
    <3> SUFFICES ASSUME outfile_fd # 0 PROVE StreamIsRun' /\ StreamCounts'
      BY <1>d, <2>0
    <3>1. /\ Stream' = Stream /\ WriterOwes /\ ~WriterOwes'
          /\ StoredBufs' = Append(StoredBufs, Bufseq[transportBuffer])
      BY <2>1, WrittenStream
    <3>2. dropped' = dropped
      BY <2>1 DEF WriterStore
    <3>3. StreamIsRun'
      BY <2>0, <3>1, <3>2, SameStream
    <3>4. ~At({"count", "prepare"})
      BY <3>1 DEF NothingLeft, Settled
    <3>5. StreamCounts'
      <4> SUFFICES ASSUME dropped = {} PROVE StreamCounts'
        BY <3>2 DEF StreamCounts
      <4>1. /\ Len(StoredBufs) = Buffer_number - 2 /\ Bufseq[transportBuffer] = Buffer_number - 1
            /\ Len(Stream) = Event_number - 1 /\ Bufseq[fillBuffer] = Buffer_number
            /\ \A i \in DOMAIN StoredBufs : StoredBufs[i] = i
        BY <3>1, <3>4 DEF StreamCounts, LastDone
      <4>2. /\ DOMAIN StoredBufs' = 1 .. Buffer_number - 1 /\ DOMAIN StoredBufs = 1 .. Buffer_number - 2
            /\ Len(StoredBufs') = Buffer_number - 1
            /\ \A i \in 1 .. Buffer_number - 2 : StoredBufs'[i] = StoredBufs[i]
            /\ StoredBufs'[Buffer_number - 1] = Buffer_number - 1
        BY <1>c, <3>1, <4>1, StreamTypes, AppendProperties, LenProperties
      <4>3. \A i \in DOMAIN StoredBufs' : StoredBufs'[i] = i
        BY <1>c, <4>1, <4>2
      <4>4. LastDone' = Buffer_number - 1
        BY <2>0, <3>1 DEF LastDone
      <4> QED
        BY <2>0, <3>1, <3>4, <4>1, <4>2, <4>3, <4>4 DEF StreamCounts
    <3> QED
      BY <3>3, <3>5
  <2>2. CASE WriterFail
    <3>1. dropped' # {}
      BY <2>2 DEF WriterFail
    <3> QED
      BY <3>1 DEF StreamIsRun, StreamCounts
  <2>3. CASE WriterSkip
    <3>1. outfile_fd = 0
      BY <2>3 DEF WriterSkip, WriterRelease, ConsumersApart
    <3> QED
      BY <1>d, <2>0, <3>1
  <2>4. CASE WriterTake \/ SenderStep
    <3>1. UNCHANGED <<file, fileBufs, dropped>>
      BY <2>4 DEF WriterTake, SenderStep, SenderTake, SenderDone
    <3>2. WriterOwes' = WriterOwes
      BY <2>4, <2>0 DEF WriterTake, SenderStep, SenderTake, SenderDone, WriterOwes
    <3> QED
      BY <1>e, <2>0, <3>1, <3>2
  <2> QED
    BY <1>8, <2>1, <2>2, <2>3, <2>4 DEF WriterStep
<1>9. CASE OtherStep
  <2>1. /\ UNCHANGED <<semVars, bufVars, countVars, runVars, sw, writerVars, accepted>>
        /\ \A u \in Threads : \/ pc'[u] = pc[u]
                              \/ pc[u] \in Elsewhere /\ pc'[u] \in Elsewhere
    BY <1>9 DEF OtherStep
  <2> QED
    BY <1>f, <2>1 DEF Elsewhere
<1>10. ASSUME NEW t \in Threads, BeginFails(t) PROVE StreamIsRun' /\ StreamCounts'
  BY <1>d, <1>10 DEF BeginFails, vars
<1> QED
  BY <1>1, <1>2, <1>3, <1>4, <1>5, <1>6, <1>7, <1>8, <1>9, <1>10, RunSteps DEF SessionStep


-----------------------------------------------------------------------------
(* The files that are closed                                                 *)

\* IsRun for any sequence a of the events that were kept.
RunIn(a, r, s) ==
    \E m, n \in 0 .. Len(a) :
        /\ s = SubSeq(a, m + 1, n)
        /\ \A i \in DOMAIN a : a[i].run = r <=> i \in m + 1 .. n

\* The events of one run stay the same when an event of another run is kept.
LEMMA RunKept ==
    ASSUME NEW a \in Seq(Event), NEW e \in Event, NEW r, e.run # r, NEW s, RunIn(a, r, s)
    PROVE  RunIn(Append(a, e), r, s)
<1> DEFINE b == Append(a, e)
<1>1. /\ Len(a) \in Nat /\ DOMAIN a = 1 .. Len(a)
      /\ b \in Seq(Event) /\ Len(b) = Len(a) + 1 /\ DOMAIN b = 1 .. Len(a) + 1
      /\ \A i \in 1 .. Len(a) : b[i] = a[i] /\ a[i] \in Event
      /\ b[Len(a) + 1] = e
  BY AppendProperties, LenProperties, ElementOfSeq
<1>2. PICK m, n \in 0 .. Len(a) :
          /\ s = SubSeq(a, m + 1, n)
          /\ \A i \in DOMAIN a : a[i].run = r <=> i \in m + 1 .. n
  BY DEF RunIn
<1>3. m \in Int /\ n \in Int /\ \A i \in m + 1 .. n : i \in 1 .. Len(a)
  BY <1>1
<1>4. SubSeq(b, m + 1, n) = SubSeq(a, m + 1, n)
  <2>1. \A i \in m + 1 .. n : a[i] \in Event /\ b[i] \in Event /\ b[i] = a[i]
    BY <1>1, <1>3
  <2>2. /\ SubSeq(a, m + 1, n) \in Seq(Event) /\ SubSeq(b, m + 1, n) \in Seq(Event)
        /\ Len(SubSeq(a, m + 1, n)) = IF m + 1 <= n THEN n - m ELSE 0
        /\ Len(SubSeq(b, m + 1, n)) = IF m + 1 <= n THEN n - m ELSE 0
        /\ \A i \in 1 .. n - m : SubSeq(a, m + 1, n)[i] = a[m + i]
        /\ \A i \in 1 .. n - m : SubSeq(b, m + 1, n)[i] = b[m + i]
    <3>1. m + 1 \in Int
      BY <1>3
    <3>2. /\ SubSeq(a, m + 1, n) \in Seq(Event)
          /\ Len(SubSeq(a, m + 1, n)) = IF m + 1 <= n THEN n - (m + 1) + 1 ELSE 0
          /\ \A i \in 1 .. n - (m + 1) + 1 : SubSeq(a, m + 1, n)[i] = a[(m + 1) + i - 1]
      BY <1>3, <2>1, <3>1, SubSeqProperties
    <3>3. /\ SubSeq(b, m + 1, n) \in Seq(Event)
          /\ Len(SubSeq(b, m + 1, n)) = IF m + 1 <= n THEN n - (m + 1) + 1 ELSE 0
          /\ \A i \in 1 .. n - (m + 1) + 1 : SubSeq(b, m + 1, n)[i] = b[(m + 1) + i - 1]
      BY <1>3, <2>1, <3>1, SubSeqProperties
    <3>4. n - (m + 1) + 1 = n - m /\ \A i \in 1 .. n - m : (m + 1) + i - 1 = m + i
      BY <1>3
    <3> QED
      BY <3>2, <3>3, <3>4
  <2>3. \A i \in 1 .. n - m : b[m + i] = a[m + i]
    BY <1>3, <2>1
  <2>4. /\ Len(SubSeq(a, m + 1, n)) = Len(SubSeq(b, m + 1, n))
        /\ \A i \in 1 .. Len(SubSeq(b, m + 1, n)) :
                SubSeq(b, m + 1, n)[i] = SubSeq(a, m + 1, n)[i]
    BY <1>3, <2>2, <2>3
  <2> QED
    BY <2>2, <2>4, SeqEqual
<1>5. \A i \in DOMAIN b : b[i].run = r <=> i \in m + 1 .. n
  <2>1. TAKE i \in DOMAIN b
  <2>2. CASE i = Len(a) + 1
    BY <1>1, <1>3, <2>2
  <2>3. CASE i \in DOMAIN a
    BY <1>1, <1>2, <2>3
  <2> QED
    BY <1>1, <2>2, <2>3
<1>6. m \in 0 .. Len(b) /\ n \in 0 .. Len(b)
  BY <1>1
<1> QED
  BY <1>2, <1>4, <1>5, <1>6 DEF RunIn

\* When the file is closed, its run is complete in it.
LEMMA ClosedFile ==
    ASSUME CalmOperation, HandOverInv, FileOfRun, NumbersGrow, NothingLeft, StreamIsRun,
           StreamCounts, At({"close"}), outfile_fd # 0, dropped = {}
    PROVE  /\ RunIn(accepted, outfile_fd, file[outfile_fd])
           /\ \A i \in DOMAIN file[outfile_fd] : file[outfile_fd][i].num = i
           /\ \A i \in DOMAIN fileBufs[outfile_fd] : fileBufs[outfile_fd][i] = i
<1>1. events[fillBuffer] = << >> /\ ~WriterOwes
  BY DEF NothingLeft, Settled, At
<1>2. ForWriter = << >>
  <2>1. ForWriter = << >> \o << >>
    BY <1>1 DEF ForWriter
  <2> QED
    BY <2>1, EmptySeq, ConcatEmptySeq
<1>3. Stream = file[outfile_fd] /\ StoredBufs = fileBufs[outfile_fd]
  <2>1. Stream = Stored \o << >>
    BY <1>2 DEF Stream
  <2> QED
    BY <2>1, StreamTypes, ConcatEmptySeq DEF Stored, StoredBufs
<1>4. outfile_fd = TheRun
  BY DEF FileOfRun
<1>5. /\ Len(accepted) \in Nat /\ DOMAIN accepted = 1 .. Len(accepted)
      /\ Len(Stream) \in Nat /\ DOMAIN Stream = 1 .. Len(Stream)
      /\ \A i \in DOMAIN accepted : accepted[i] \in Event
  BY StreamTypes, LenProperties, ElementOfSeq
<1>6. /\ Earlier \in Nat /\ Len(accepted) = Earlier + Len(Stream)
      /\ \A i \in DOMAIN accepted : accepted[i].run = TheRun <=> i > Earlier
      /\ \A i \in DOMAIN Stream : Stream[i] = accepted[Earlier + i] /\ Stream[i].num = i
  BY <1>5 DEF StreamIsRun, Earlier
<1>7. Stream = SubSeq(accepted, Earlier + 1, Len(accepted))
  <2> DEFINE p == Earlier + 1
  <2>1. p \in Int /\ Len(accepted) \in Int /\ \A i \in p .. Len(accepted) : accepted[i] \in Event
    BY <1>5, <1>6
  <2> HIDE DEF p
  <2>2. /\ SubSeq(accepted, p, Len(accepted)) \in Seq(Event)
        /\ Len(SubSeq(accepted, p, Len(accepted)))
                = IF p <= Len(accepted) THEN Len(accepted) - p + 1 ELSE 0
        /\ \A i \in 1 .. Len(accepted) - p + 1 :
                SubSeq(accepted, p, Len(accepted))[i] = accepted[p + i - 1]
    BY <2>1, SubSeqProperties
  <2>3. /\ Len(SubSeq(accepted, p, Len(accepted))) = Len(Stream)
        /\ \A i \in 1 .. Len(Stream) :
                SubSeq(accepted, p, Len(accepted))[i] = accepted[Earlier + i]
    BY <1>5, <1>6, <2>2 DEF p
  <2>4. Stream \in Seq(Event) /\ \A i \in 1 .. Len(Stream) : Stream[i] = accepted[Earlier + i]
    BY <1>5, <1>6, StreamTypes
  <2>5. Stream = SubSeq(accepted, p, Len(accepted))
    BY <2>2, <2>3, <2>4, SeqEqual
  <2> QED
    BY <2>5 DEF p
<1>8. RunIn(accepted, TheRun, Stream)
  <2>1. \A i \in DOMAIN accepted : accepted[i].run = TheRun <=> i \in Earlier + 1 .. Len(accepted)
    BY <1>5, <1>6
  <2>2. Earlier \in 0 .. Len(accepted) /\ Len(accepted) \in 0 .. Len(accepted)
    BY <1>5, <1>6
  <2> QED
    BY <1>7, <2>1, <2>2 DEF RunIn
<1>9. \A i \in DOMAIN StoredBufs : StoredBufs[i] = i
  BY DEF StreamCounts
<1> QED
  BY <1>3, <1>4, <1>6, <1>8, <1>9

\* A file is closed when its run is complete, and stays as it is.
LEMMA FilesStep ==
    ASSUME CalmOperation, PlainRuns, HandOverInv, RunPlaces, FileOfRun, NumbersGrow, NothingLeft,
           OwnRun, StreamIsRun, StreamCounts, FileIsWholeRun, [RCNext]_allVars
    PROVE  FileIsWholeRun'
<1> DEFINE Whole(r) == /\ RunIn(accepted, r, file[r])
                       /\ \A i \in DOMAIN file[r] : file[r][i].num = i
                       /\ \A i \in DOMAIN fileBufs[r] : fileBufs[r][i] = i
<1>1. dropped = {} => \A r \in existing \ {outfile_fd} : Whole(r)
  BY DEF FileIsWholeRun, IsRun, RunIn
<1>2. SUFFICES ASSUME dropped' = {}, NEW r \in existing' \ {outfile_fd'} PROVE Whole(r)'
  BY DEF FileIsWholeRun, IsRun, RunIn
<1>3. /\ file \in [Fds -> Seq(Event)] /\ fileBufs \in [Fds -> Seq(Nat)] /\ accepted \in Seq(Event)
      /\ existing \subseteq Fds
  BY DEF HandOverInv, RCTypeOK, BufferTypes
<1>4. ASSUME NEW t \in Threads, OpenFile(t) PROVE Whole(r)'
  <2>1. /\ UNCHANGED <<accepted, file, fileBufs, dropped>> /\ outfile_fd = 0
        /\ existing' \ {outfile_fd'} \subseteq existing
    BY <1>4 DEF OpenFile, FileOfRun, At
  <2>2. r \in existing \ {outfile_fd}
    BY <1>3, <2>1, RunControlAssumption
  <2> QED
    BY <1>1, <1>2, <2>1, <2>2
<1>5. ASSUME NEW t \in Threads, CloseFile(t) PROVE Whole(r)'
  <2>1. /\ UNCHANGED <<accepted, file, fileBufs, dropped, existing>> /\ pc[t] = "close"
    BY <1>5 DEF CloseFile
  <2>2. CASE r = outfile_fd
    <3>1. outfile_fd # 0
      BY <1>3, <2>1, <2>2, RunControlAssumption
    <3>2. Whole(r)
      BY <1>2, <2>1, <2>2, <3>1, ClosedFile DEF At
    <3> QED
      BY <2>1, <3>2
  <2>3. CASE r # outfile_fd
    BY <1>1, <1>2, <2>1, <2>3
  <2> QED
    BY <2>2, <2>3
<1>6. ASSUME NEW t \in Threads, SessionStep(t), ~OpenFile(t), ~CloseFile(t) PROVE Whole(r)'
  <2>1. UNCHANGED <<accepted, file, fileBufs, dropped, existing, outfile_fd>>
    BY <1>6 DEF SessionStep, StartCounting, PrepareRun, BeginDone, WakeUp, Flush, AwaitWriter,
        ResetCounters, DaqBegin, BeginFails, RollOver, DaqOpen, vars
  <2> QED
    BY <1>1, <1>2, <2>1
<1>7. ASSUME NEW t \in Threads, Readout(t) \/ Switch(t) PROVE Whole(r)'
  <2>0. UNCHANGED <<TheRun, outfile_fd, existing>> /\ Busy(t)
    BY <1>7, InsideStays
  <2>1. UNCHANGED <<file, fileBufs, dropped>>
    BY <1>7 DEF Readout, ReadoutStep, NextEvent, BufferFull, DropEmptyEvent, KeepEvent, Switch,
        SwitchStep, LockWriteProtect, LockSendProtect, Swap, UnlockWrite, UnlockSend
  <2>2. Whole(r)
    BY <1>1, <1>2, <2>0, <2>1
  <2>3. CASE \E timeUp \in BOOLEAN : KeepEvent(t, timeUp)
    <3>1. accepted' = Append(accepted, header[fillBuffer]) /\ rd[t] = "addSubevents"
      BY <2>3 DEF KeepEvent
    <3>2. header[fillBuffer] = [run |-> TheRun, type |-> etype[t], num |-> Event_number]
      BY <3>1 DEF OwnRun, SubeventsGoToOwnEvent
    <3>3. header[fillBuffer].run = TheRun /\ header[fillBuffer] \in Event
      BY <3>1, <3>2 DEF HandOverInv, BufferTypes
    <3>4. TheRun # r
      <4>1. \/ Running /\ pc[evt] # "reset"
            \/ At({"open", "count", "prepare", "begrun", "endrun", "flush"})
        BY <2>0, BusyAlone, RunControlAssumption DEF At
      <4> QED
        BY <1>2, <2>0, <4>1 DEF NumbersGrow
    <3>5. RunIn(accepted', r, file[r])
      BY <1>3, <2>2, <3>1, <3>3, <3>4, RunKept
    <3> QED
      BY <2>1, <2>2, <3>5
  <2>4. CASE ~\E timeUp \in BOOLEAN : KeepEvent(t, timeUp)
    <3>1. accepted' = accepted
      BY <1>7, <2>4 DEF Readout, ReadoutStep, NextEvent, BufferFull, DropEmptyEvent, Switch,
          SwitchStep, LockWriteProtect, LockSendProtect, Swap, UnlockWrite, UnlockSend
    <3> QED
      BY <2>1, <2>2, <3>1
  <2> QED
    BY <2>3, <2>4
<1>8. CASE (WriterStep \/ SenderStep) /\ UNCHANGED rcVars
  <2>1. UNCHANGED <<accepted, existing, outfile_fd>>
    BY <1>8 DEF WriterStep, WriterTake, WriterRelease, WriterStore, WriterFail, WriterSkip,
        SenderStep, SenderTake, SenderDone
  <2>2. dropped = {}
    BY <1>2, <1>8 DEF WriterStep, WriterTake, WriterStore, WriterFail, WriterSkip,
        SenderStep, SenderTake, SenderDone
  <2>3. Whole(r)
    BY <1>1, <1>2, <2>1, <2>2
  <2>4. file'[r] = file[r] /\ fileBufs'[r] = fileBufs[r]
    <3>1. CASE WriterStore
      <4>1. wfd # r
        BY <1>2, <2>1, <1>3, <3>1, HandOverParts, RunControlAssumption
           DEF WriterStore, WriterRelease, WriterFile
      <4> QED
        BY <1>3, <3>1, <4>1 DEF WriterStore
    <3>2. CASE ~WriterStore
      BY <1>8, <3>2 DEF WriterStep, WriterTake, WriterFail, WriterSkip, SenderStep, SenderTake,
          SenderDone
    <3> QED
      BY <3>1, <3>2
  <2> QED
    BY <2>1, <2>3, <2>4
<1>9. CASE OtherStep
  BY <1>1, <1>2, <1>9 DEF OtherStep
<1> QED
  BY <1>4, <1>5, <1>6, <1>7, <1>8, <1>9, RunSteps


-----------------------------------------------------------------------------
(* RunInv is inductive                                                       *)

LEMMA RunInit == ASSUME CalmOperation, RCInit PROVE RunInv
<1>1. HandOverInv
  BY HandOverInit
<1>0. PICK c : Cmds = {c} /\ Threads = {evt, c} /\ c # evt
  BY TwoThreads
<1>a. /\ \A t \in Threads : pc[t] = "idle" /\ job[t] = "none" /\ rd[t] = "out" /\ sw[t] = "out"
      /\ Running = FALSE /\ outfile_fd = 0 /\ accepted = << >> /\ existing = {} /\ TheRun = 0
      /\ rstatus = 0
  BY DEF RCInit
<1>2. RunPlaces
  BY <1>0, <1>a DEF RunPlaces
<1>3. FileOfRun
  BY <1>a DEF RCInit, FileOfRun
<1>4. LoggingOpens
  BY <1>0, <1>a DEF LoggingOpens, At
<1>5. NumbersGrow
  <2>1. \A r \in Fds : file[r] = << >> /\ fileBufs[r] = << >>
    BY DEF RCInit
  <2> QED
    BY <1>0, <1>a, <2>1, EmptySeq DEF NumbersGrow, At
<1>6. NothingLeft
  <2>1. events[fillBuffer] = << >> /\ ~WriterOwes
    BY <1>a DEF RCInit, Buffers, WriterOwes
  <2> QED
    BY <1>a, <2>1 DEF NothingLeft
<1>7. OwnRun
  <2>1. Unprepared
    BY <1>a DEF Unprepared, At, EndPlaces
  <2> QED
    BY <1>a, <2>1 DEF OwnRun, SubeventsGoToOwnEvent
<1>8. ConsumersApart
  <2>1. writer = "wait" /\ sender = "wait" /\ ~WriterOwes /\ ~SenderOwes
    BY <1>a DEF RCInit, WriterOwes, SenderOwes
  <2> QED
    BY <2>1 DEF ConsumersApart
<1>9. StreamIsRun /\ StreamCounts /\ FileIsWholeRun
  BY <1>a DEF StreamIsRun, StreamCounts, FileIsWholeRun
<1> QED
  BY <1>1, <1>2, <1>3, <1>4, <1>5, <1>6, <1>7, <1>8, <1>9 DEF RunInv

LEMMA RunInvNext ==
    ASSUME CalmOperation, PlainRuns, RunInv, [RCNext]_allVars
    PROVE  RunInv'
<1> USE DEF RunInv
<1>1. HandOverInv'
  BY HandOverNext
<1>2. RunPlaces'
  BY RunPlacesStep
<1>3. FileOfRun' /\ LoggingOpens' /\ NumbersGrow' /\ NothingLeft'
  BY FileOfRunStep, LoggingOpensStep, NumbersGrowStep, NothingLeftStep
<1>4. OwnRun' /\ ConsumersApart'
  BY OwnRunStep, ConsumersApartStep
<1>5. StreamIsRun' /\ StreamCounts'
  BY <1>1, <1>3, StreamStep
<1>6. FileIsWholeRun'
  BY FilesStep
<1> QED
  BY <1>1, <1>2, <1>3, <1>4, <1>5, <1>6

LEMMA RunInvariance ==
    ASSUME CalmOperation, PlainRuns PROVE RCSpec => []RunInv
<1>1. RCInit => RunInv
  BY RunInit
<1>2. RunInv /\ [RCNext]_allVars => RunInv'
  BY RunInvNext
<1> QED
  BY <1>1, <1>2, PTL DEF RCSpec

\* A file that daq_end() or a rollover has closed holds every event readout()
\* kept during its run and no other, in order and with consecutive numbers, for
\* any sequence of commands, runs and rollovers and any interleaving of the
\* threads, unless a write() failed.
THEOREM WholeFiles ==
    ASSUME CalmOperation, PlainRuns PROVE RCSpec => []FileIsWholeRun
<1>1. RunInv => FileIsWholeRun
  BY DEF RunInv
<1> QED
  BY <1>1, RunInvariance, PTL

\* Across runs, too, addSubevent() adds to the event of the current run that this
\* very readout() opened.
THEOREM OwnEventAcrossRuns ==
    ASSUME CalmOperation, PlainRuns PROVE RCSpec => []SubeventsGoToOwnEvent
<1>1. RunInv => SubeventsGoToOwnEvent
  BY DEF RunInv, OwnRun
<1> QED
  BY <1>1, RunInvariance, PTL


\* Run control, too, leaves a buffer alone while writeout() or sendDataZmq() reads
\* it: daq_begin() prepares the buffers when both are through.
LEMMA StableAcrossRunsStep ==
    ASSUME CalmOperation, PlainRuns, SenderKeepsUp, RunInv, [RCNext]_allVars
    PROVE  UsedBuffersSame
<1> USE DEF RunInv, SameBuffer
<1>0. /\ fillBuffer \in Buffers /\ transportBuffer \in Buffers /\ fillBuffer # transportBuffer
      /\ events \in [Buffers -> Seq(Event)] /\ header \in [Buffers -> Event \cup {NoEvent}]
      /\ has_end \in [Buffers -> {0, 1}] /\ Bufseq \in [Buffers -> Nat]
  BY DEF HandOverInv, RCTypeOK, BufferTypes, FileOfRun
<1>1. /\ writer = "writing" /\ wfd # 0 => wbuf = transportBuffer /\ outfile_fd # 0 /\ WriterOwes
      /\ sender = "sending" => sbuf = transportBuffer /\ SenderOwes
  BY HandOverParts DEF ConsumersApart, WriterFile, WriterOwes, SenderOwes
<1>a. ASSUME UNCHANGED <<events, header, has_end, Bufseq>> PROVE UsedBuffersSame
  BY <1>a DEF UsedBuffersSame
<1>b. ASSUME SameBuffer(transportBuffer) PROVE UsedBuffersSame
  BY <1>1, <1>b DEF UsedBuffersSame
<1>2. ASSUME NEW t \in Threads, SessionStep(t) PROVE UsedBuffersSame
  <2>1. CASE PrepareRun(t)
    <3>1. pc[t] = "prepare" /\ sender = "wait"
      BY <2>1 DEF PrepareRun
    <3>2. outfile_fd # 0 => ~WriterOwes
      BY <3>1 DEF NothingLeft, Settled, At
    <3> QED
      BY <1>1, <3>1, <3>2 DEF UsedBuffersSame
  <2>2. CASE ~PrepareRun(t)
    <3>1. UNCHANGED <<events, header, has_end, Bufseq>>
      BY <1>2, <2>2 DEF SessionStep, OpenFile, StartCounting, BeginDone, WakeUp, Flush,
          AwaitWriter, CloseFile, ResetCounters, DaqBegin, BeginFails, RollOver, DaqOpen,
          vars
    <3> QED
      BY <1>a, <3>1
  <2> QED
    BY <2>1, <2>2
<1>3. ASSUME NEW t \in Threads, Readout(t) \/ Switch(t) PROVE UsedBuffersSame
  <2>1. CASE Swap(t)
    <3>1. sw[t] = "swap"
      BY <2>1 DEF Swap
    <3>2. writer = "wait" /\ sender = "wait"
      BY <3>1, HandOverParts DEF WriteToken, SendToken
    <3> QED
      BY <3>2 DEF UsedBuffersSame
  <2>2. CASE ~Swap(t)
    <3>1. SameBuffer(transportBuffer)
      BY <1>0, <1>3, <2>2 DEF Readout, ReadoutStep, NextEvent, BufferFull, DropEmptyEvent,
          KeepEvent, Switch, SwitchStep, LockWriteProtect, LockSendProtect, UnlockWrite,
          UnlockSend
    <3> QED
      BY <1>b, <3>1
  <2> QED
    BY <2>1, <2>2
<1>4. CASE (WriterStep \/ SenderStep) /\ UNCHANGED rcVars
  <2>1. /\ UNCHANGED <<events, header, Bufseq>>
        /\ has_end' = has_end \/ has_end' = [has_end EXCEPT ![transportBuffer] = 1]
        /\ has_end' = has_end \/ writer = "wait" \/ (writer = "writing" /\ sender = "wait")
    BY <1>4 DEF WriterStep, WriterTake, WriterStore, WriterFail, WriterSkip, WriterRelease,
        SenderStep, SenderTake, SenderDone, SealTransport, HandOverInv, BufferTypes
  <2>2. /\ writer = "writing" /\ wfd # 0 => has_end[transportBuffer] = 1
        /\ sender = "sending" => has_end[transportBuffer] = 1
    BY <1>1 DEF ConsumersApart
  <2>3. ASSUME has_end[transportBuffer] = 1 PROVE SameBuffer(transportBuffer)
    BY <1>0, <2>1, <2>3
  <2> QED
    BY <1>1, <2>2, <2>3 DEF UsedBuffersSame
<1>5. CASE OtherStep
  BY <1>a, <1>5 DEF OtherStep
<1> QED
  BY <1>2, <1>3, <1>4, <1>5, RunSteps

\* Across runs, too, no step changes a buffer while writeout() or sendDataZmq()
\* reads it, if a rollover finds the last buffer sent.
THEOREM StableAcrossRuns ==
    ASSUME CalmOperation, PlainRuns, SenderKeepsUp PROVE RCSpec => StableWhileInUse
<1>1. ASSUME RunInv, [RCNext]_allVars PROVE [UsedBuffersSame]_vars
  BY <1>1, StableAcrossRunsStep
<1>2. RunInv /\ [RCNext]_allVars => [UsedBuffersSame]_vars
  BY <1>1
<1> QED
  BY <1>2, RunInvariance, PTL DEF RCSpec, StableWhileInUse


-----------------------------------------------------------------------------
(* The marks of the runs                                                     *)

\* A step that keeps no event leaves it open or closed whether the run is marked.
MarksStay ==
    /\ accepted' = accepted
    /\ Begun' => Begun /\ TheRun' = TheRun
    /\ ~Begun' \/ Ended' <=> ~Begun \/ Ended
    /\ Opening' => \/ Opening /\ TheRun' = TheRun
                   \/ \A i \in DOMAIN accepted : accepted[i].run < TheRun'

\* What it takes to keep an event: it is the first one, the last one, or it lies
\* between the two.
MarksKept(t) ==
    /\ pc[t] \in {"begrun", "endrun", "reading"}
    /\ ~Ended /\ Begun' /\ ~Opening' /\ TheRun' = TheRun
    /\ Begun <=> pc[t] # "begrun"
    /\ Opening <=> pc[t] = "begrun"
    /\ Ended' <=> pc[t] = "endrun"

LEMMA MarkSteps ==
    ASSUME CalmOperation, PlainRuns, HandOverInv, RunPlaces, FileOfRun, NumbersGrow, NothingLeft,
           OwnRun, enable_empty_event_flag = 1, [RCNext]_allVars
    PROVE  \/ MarksStay
           \/ \E t \in Threads, timeUp \in BOOLEAN : KeepEvent(t, timeUp) /\ MarksKept(t)
<1> USE DEF At, PlaceTypes, JobPlaces, RunningPlaces, RunPlaces, BeginPlaces, EndPlaces,
            Goto, Finish
<1>0. PICK c : Cmds = {c} /\ Threads = {evt, c} /\ c # evt
  BY TwoThreads
<1>a. PlaceTypes /\ JobPlaces /\ RunningPlaces
  BY HandOverParts
<1>b. \A t, u \in Threads : t # u /\ pc[t] \in BeginPlaces \cup EndPlaces =>
            pc[u] \notin BeginPlaces \cup EndPlaces /\ rd[u] = "out"
  BY SessionAlone, HandOverParts DEF Busy
<1>c. /\ rd \in [Threads -> {"out", "nextEvent", "retry", "addSubevents"}]
      /\ sw \in [Threads -> {"out", "lockWrite", "lockSend", "swap", "unlockWrite",
                            "unlockSend"}]
  BY DEF HandOverInv, ControlInv, ControlTypes
<1>d. Running \in BOOLEAN
  BY HandOverParts
<1>e. ASSUME UNCHANGED <<accepted, TheRun>>, Begun' = Begun, Ended' = Ended, Opening' => Opening
      PROVE  MarksStay
  BY <1>e DEF MarksStay
<1>1. ASSUME NEW t \in Threads, OpenFile(t) \/ StartCounting(t) PROVE MarksStay
  <2>1. /\ UNCHANGED <<accepted, TheRun, rd>> /\ pc[t] \in {"open", "count"}
        /\ \E p \in {"count", "prepare"} : pc' = [pc EXCEPT ![t] = p]
    BY <1>1 DEF OpenFile, StartCounting
  <2>2. ~Begun /\ ~Begun'
    BY <1>a, <2>1 DEF Begun, Unprepared
  <2>3. ~Opening'
    BY <1>a, <1>b, <2>1 DEF Opening
  <2> QED
    BY <2>1, <2>2, <2>3 DEF MarksStay
<1>2. ASSUME NEW t \in Threads, PrepareRun(t) PROVE MarksStay
  <2>1. /\ UNCHANGED <<accepted, TheRun>> /\ pc[t] = "prepare"
        /\ pc' = [pc EXCEPT ![t] = "begrun"] /\ rd' = [rd EXCEPT ![t] = "nextEvent"]
    BY <1>2 DEF PrepareRun, EnterReadout
  <2>2. ~Begun
    BY <2>1 DEF Begun, Unprepared
  <2>3. ~Begun'
    BY <1>a, <1>c, <2>1 DEF Begun, Opening
  <2>4. \A i \in DOMAIN accepted : accepted[i].run < TheRun'
    BY <2>1 DEF NumbersGrow
  <2> QED
    BY <2>1, <2>2, <2>3, <2>4 DEF MarksStay
<1>3. ASSUME NEW t \in Threads, BeginDone(t) PROVE MarksStay
  <2>1. /\ UNCHANGED <<accepted, TheRun, rd>> /\ Running' = Running
        /\ pc[t] = "begrun" /\ pc' = [pc EXCEPT ![t] = "idle"] /\ rd[t] = "out"
    BY <1>3 DEF BeginDone, vars, Busy
  <2>2. Running
    BY <1>0, <1>a, <2>1
  <2>3. Begun /\ Begun'
    BY <1>a, <1>b, <2>1, <2>2 DEF Begun, Opening, Unprepared
  <2>4. ~Opening'
    BY <2>3 DEF Begun
  <2>5. ~Ended /\ ~Ended'
    BY <1>a, <1>b, <2>1 DEF Ended
  <2> QED
    BY <2>1, <2>3, <2>4, <2>5 DEF MarksStay
<1>4. ASSUME NEW t \in Threads, WakeUp(t) \/ (t = evt /\ RollOver) PROVE MarksStay
  <2>1. /\ UNCHANGED <<accepted, TheRun>> /\ pc[t] \in {"sleep", "rollOver"}
        /\ pc' = [pc EXCEPT ![t] = "endrun"] /\ rd' = [rd EXCEPT ![t] = "nextEvent"]
        /\ (pc[t] = "sleep" /\ (t = evt \/ Quiet)) \/ (t = evt /\ Running)
    BY <1>4, <1>a DEF WakeUp, RollOver, EnterReadout, CalmOperation
  <2>2. \A u \in Threads : u # t => pc[u] \notin BeginPlaces \cup EndPlaces
    <3>1. BeginAlone
      BY HandOverParts
    <3> QED
      BY <1>0, <1>a, <2>1, <3>1 DEF Quiet, BeginAlone
  <2>3. Running
    BY <1>0, <1>a, <2>1
  <2>4. Begun /\ ~Ended
    BY <2>1, <2>2, <2>3 DEF Begun, Unprepared, Opening, Ended
  <2>5. Begun' /\ ~Ended' /\ ~Opening'
    BY <1>a, <1>c, <2>1, <2>2 DEF Begun, Unprepared, Opening, Ended
  <2> QED
    BY <2>1, <2>4, <2>5 DEF MarksStay
<1>5. ASSUME NEW t \in Threads, Flush(t) \/ AwaitWriter(t) \/ CloseFile(t) PROVE MarksStay
  <2>1. /\ UNCHANGED <<accepted, TheRun, rd>> /\ pc[t] \in {"endrun", "flush", "close"}
        /\ \E p \in {"flush", "close", "reset"} : pc' = [pc EXCEPT ![t] = p]
        /\ pc[t] = "endrun" => rd[t] = "out"
    BY <1>5 DEF Flush, AwaitWriter, CloseFile, vars, Busy
  <2>2. Begun /\ Ended
    BY <1>a, <1>b, <2>1 DEF Begun, Unprepared, Opening, Ended
  <2>3. Begun' /\ Ended' /\ ~Opening'
    BY <1>a, <1>b, <2>1 DEF Begun, Unprepared, Opening, Ended
  <2> QED
    BY <2>1, <2>2, <2>3 DEF MarksStay
<1>6. ASSUME NEW t \in Threads, ResetCounters(t) PROVE MarksStay
  <2>1. /\ UNCHANGED <<accepted, rd>> /\ Running' = Running /\ pc[t] = "reset"
        /\ \/ pc' = [pc EXCEPT ![t] = "open"]
           \/ pc' = [pc EXCEPT ![t] = "idle"] /\ ~Running
    BY <1>0, <1>a, <1>6 DEF ResetCounters
  <2>2. Ended
    BY <2>1 DEF Ended
  <2>3. Unprepared'
    BY <1>a, <1>b, <2>1 DEF Unprepared
  <2>4. ~Opening'
    BY <1>a, <1>b, <2>1 DEF Opening
  <2> QED
    BY <2>1, <2>2, <2>3, <2>4 DEF MarksStay, Begun
<1>7. ASSUME NEW t \in Threads, DaqBegin(t, 0) PROVE MarksStay
  <2>1. /\ UNCHANGED <<accepted, rd>> /\ pc[t] = "idle" /\ pc' = [pc EXCEPT ![t] = "open"]
        /\ ~Running /\ t = c
    BY <1>0, <1>7 DEF DaqBegin
  <2>2. pc[evt] \notin EndPlaces
    BY <1>0, <1>a, <1>7, <2>1 DEF DaqBegin, AtRest, CalmOperation
  <2>3. Unprepared
    BY <1>0, <2>1, <2>2 DEF Unprepared
  <2>4. \A u \in Threads : rd[u] = "out"
    BY <2>3, BusyAlone DEF Busy
  <2>5. Unprepared' /\ ~Opening'
    BY <1>a, <2>1, <2>4 DEF Unprepared, Opening
  <2> QED
    BY <2>1, <2>3, <2>5 DEF MarksStay, Begun
<1>8. ASSUME NEW t \in Threads, DaqOpen(t) PROVE MarksStay
  <2>1. UNCHANGED <<accepted, TheRun, pc, rd>> /\ Running' = Running
    BY <1>8 DEF DaqOpen, vars
  <2> QED
    BY <1>e, <2>1 DEF Begun, Opening, Unprepared, Ended
<1>9. ASSUME NEW t \in Threads, NEW timeUp \in BOOLEAN, KeepEvent(t, timeUp),
             Readout(t) \/ Switch(t)
      PROVE  MarksKept(t)
  <2>1. /\ UNCHANGED <<pc, TheRun>> /\ Running' = Running /\ Busy(t)
        /\ rd[t] = "addSubevents" /\ rd' = [rd EXCEPT ![t] = "out"]
    BY <1>9, InsideStays DEF KeepEvent
  <2>2. pc[t] \in {"begrun", "endrun", "reading"}
    <3>1. pc[t] \in {"begrun", "endrun", "flush", "reading"}
      BY <2>1, HandOverParts DEF BusyPlaces
    <3> QED
      BY <2>1, <3>1 DEF NothingLeft
  <2>3. ~Unprepared /\ ~Unprepared'
    BY <2>1, BusyAlone DEF Unprepared
  <2>4. \A u \in Threads : u # t => rd[u] = "out" /\ rd'[u] = "out"
    BY <1>c, <2>1, HandOverParts DEF Exclusive, Busy
  <2>5. \A u \in Threads : u # t => pc[u] \notin BeginPlaces \cup EndPlaces
    BY <2>1, SessionAlone, HandOverParts
  <2>6. rd'[t] = "out"
    BY <1>c, <2>1
  <2>7. ~Opening' /\ (Opening <=> pc[t] = "begrun")
    BY <2>1, <2>4, <2>6 DEF Opening
  <2>8. ~Ended /\ (Ended' <=> pc[t] = "endrun")
    BY <2>1, <2>2, <2>5, <2>6 DEF Ended
  <2> QED
    BY <2>1, <2>2, <2>3, <2>7, <2>8 DEF MarksKept, Begun
<1>10. ASSUME NEW t \in Threads, Readout(t) \/ Switch(t),
              ~\E timeUp \in BOOLEAN : KeepEvent(t, timeUp)
       PROVE  MarksStay
  <2>1. UNCHANGED <<pc, TheRun>> /\ Running' = Running
    BY <1>10, InsideStays
  <2>2. ~DropEmptyEvent(t)
    BY DEF DropEmptyEvent
  <2>3. accepted' = accepted
    BY <1>10, <2>2 DEF Readout, ReadoutStep, NextEvent, BufferFull, Switch,
        SwitchStep, LockWriteProtect, LockSendProtect, Swap, UnlockWrite, UnlockSend
  <2>4. \A u \in Threads : rd'[u] = "out" <=> rd[u] = "out"
    <3>1. CASE NextEvent(t) \/ BufferFull(t)
      BY <1>c, <3>1 DEF NextEvent, BufferFull
    <3>2. CASE Switch(t)
      BY <3>2 DEF Switch, SwitchStep, LockWriteProtect, LockSendProtect, Swap, UnlockWrite,
          UnlockSend
    <3> QED
      BY <1>10, <2>2, <3>1, <3>2 DEF Readout, ReadoutStep
  <2>5. Begun' = Begun /\ Ended' = Ended /\ (Opening' => Opening)
    BY <2>1, <2>4 DEF Begun, Opening, Unprepared, Ended
  <2> QED
    BY <1>e, <2>1, <2>3, <2>5
<1>11. CASE (WriterStep \/ SenderStep) /\ UNCHANGED rcVars
  <2>1. UNCHANGED <<accepted, TheRun, pc, rd>> /\ Running' = Running
    BY <1>11 DEF WriterStep, WriterTake, WriterRelease, WriterStore, WriterFail, WriterSkip,
      SenderStep, SenderTake, SenderDone
  <2> QED
    BY <1>e, <2>1 DEF Begun, Opening, Unprepared, Ended
<1>12. CASE OtherStep
  <2>1. /\ UNCHANGED <<accepted, TheRun>> /\ Running' = Running
        /\ \A t \in Threads, p \in BeginPlaces \cup EndPlaces : pc'[t] = p <=> pc[t] = p
    BY <1>12 DEF OtherStep, Elsewhere
  <2>2. \A t \in Threads : pc[t] \in {"begrun", "endrun"} => rd'[t] = rd[t]
    <3>1. CASE UNCHANGED <<rd, etype>>
      BY <3>1
    <3>2. CASE pc[evt] = "idle" /\ EnterReadout(evt, DATAEVENT)
      BY <1>0, <1>c, <3>2 DEF EnterReadout
    <3> QED
      BY <1>12, <3>1, <3>2 DEF OtherStep
  <2>3. Begun' = Begun /\ Ended' = Ended /\ (Opening' => Opening)
    BY <2>1, <2>2 DEF Begun, Opening, Unprepared, Ended
  <2> QED
    BY <1>e, <2>1, <2>3
<1>13. ASSUME NEW t \in Threads, BeginFails(t) PROVE MarksStay
  <2>1. /\ UNCHANGED <<accepted, TheRun, rd>> /\ pc[t] = "open" /\ t = c
        /\ pc' = [pc EXCEPT ![t] = "idle"] /\ ~Running /\ Running' = Running
    BY <1>0, <1>a, <1>13 DEF BeginFails, vars
  <2>2. Unprepared /\ Unprepared'
    BY <1>0, <1>a, <1>b, <2>1 DEF Unprepared
  <2>3. ~Opening'
    BY <1>0, <1>a, <1>b, <2>1 DEF Opening
  <2>4. Ended' <=> Ended
    BY <1>0, <1>a, <1>b, <2>1 DEF Ended
  <2> QED
    BY <2>1, <2>2, <2>3, <2>4 DEF MarksStay, Begun
<1> QED
  BY <1>1, <1>2, <1>3, <1>4, <1>5, <1>6, <1>7, <1>8, <1>9, <1>10, <1>11, <1>12, <1>13, RunSteps
     DEF SessionStep


\* The types of events differ, and TypeAt tells them apart.
LEMMA MarkTypes ==
    \A p \in {"begrun", "endrun", "reading"} :
        /\ TypeAt(p) = BEGRUNEVENT <=> p = "begrun"
        /\ TypeAt(p) = ENDRUNEVENT <=> p = "endrun"
BY DEF TypeAt, BEGRUNEVENT, ENDRUNEVENT, DATAEVENT

LEMMA RunsMarkedStep ==
    ASSUME CalmOperation, PlainRuns, HandOverInv, RunPlaces, FileOfRun, NumbersGrow, NothingLeft,
           OwnRun, RunsMarked, enable_empty_event_flag = 1, [RCNext]_allVars
    PROVE  RunsMarked'
<1>1. /\ accepted \in Seq(Event) /\ Len(accepted) \in Nat /\ DOMAIN accepted = 1 .. Len(accepted)
      /\ \A i \in 1 .. Len(accepted) : accepted[i].run \in Nat
  <2>1. accepted \in Seq(Event)
    BY StreamTypes
  <2>2. \A i \in 1 .. Len(accepted) : accepted[i] \in Event
    BY <2>1, ElementOfSeq
  <2> QED
    BY <2>1, <2>2, LenProperties DEF Event
<1>2. TheRun \in Nat
  <2>1. TheRun \in 0 .. RunBound
    BY DEF HandOverInv, RCTypeOK
  <2> QED
    BY <2>1, RunControlAssumption
<1>3. CASE MarksStay
  <2>1. ASSUME Len(accepted) > 0
        PROVE  Opening' => accepted[Len(accepted)].run # TheRun'
    <3>1. Opening /\ TheRun' = TheRun => accepted[Len(accepted)].run # TheRun
      BY <2>1 DEF RunsMarked
    <3>2. (\A i \in DOMAIN accepted : accepted[i].run < TheRun')
                => accepted[Len(accepted)].run # TheRun'
      <4> SUFFICES ASSUME \A i \in DOMAIN accepted : accepted[i].run < TheRun'
                   PROVE  accepted[Len(accepted)].run # TheRun'
        OBVIOUS
      <4>1. accepted[Len(accepted)].run < TheRun' /\ accepted[Len(accepted)].run \in Nat
        BY <1>1, <2>1
      <4>2. TheRun' \in Nat
        <5>1. TheRun' \in 0 .. RunBound
          BY HandOverNext DEF HandOverInv, RCTypeOK
        <5> QED
          BY <5>1, RunControlAssumption
      <4> QED
        BY <4>1, <4>2
    <3> QED
      BY <1>3, <3>1, <3>2 DEF MarksStay
  <2> QED
    BY <1>3, <2>1 DEF MarksStay, RunsMarked
<1>4. ASSUME NEW t \in Threads, NEW timeUp \in BOOLEAN, KeepEvent(t, timeUp), MarksKept(t)
      PROVE  RunsMarked'
  <2> DEFINE ev == header[fillBuffer]
             L == Len(accepted)
  <2>1. accepted' = Append(accepted, ev) /\ rd[t] = "addSubevents"
    BY <1>4 DEF KeepEvent
  <2>2. /\ ev \in Event /\ ev = [run |-> TheRun, type |-> etype[t], num |-> Event_number]
        /\ etype[t] = TypeAt(pc[t])
    BY <2>1 DEF OwnRun, SubeventsGoToOwnEvent, HandOverInv, BufferTypes
  <2>3. /\ ev.run = TheRun
        /\ ev.type = BEGRUNEVENT <=> pc[t] = "begrun"
        /\ ev.type = ENDRUNEVENT <=> pc[t] = "endrun"
    BY <1>4, <2>2, MarkTypes DEF MarksKept
  <2>4. /\ Len(accepted') = L + 1 /\ DOMAIN accepted' = 1 .. L + 1
        /\ \A i \in 1 .. L : accepted'[i] = accepted[i]
        /\ accepted'[L + 1] = ev
    BY <1>1, <2>1, <2>2, AppendProperties, LenProperties
  <2>5. /\ pc[t] = "begrun" => (L > 0 => accepted[L].run # TheRun)
        /\ pc[t] # "begrun" => L > 0 /\ accepted[L].run = TheRun
        /\ L > 0 => (accepted[L].type = ENDRUNEVENT <=> pc[t] = "begrun")
    BY <1>4 DEF MarksKept, RunsMarked
  <2>8. \A i \in 1 .. Len(accepted) :
            /\ accepted[i].type = BEGRUNEVENT <=> i = 1 \/ accepted[i - 1].run # accepted[i].run
            /\ i < Len(accepted) =>
                (accepted[i].type = ENDRUNEVENT <=> accepted[i + 1].run # accepted[i].run)
    BY <1>1 DEF RunsMarked
  <2> HIDE DEF ev, L
  <2>6. /\ Begun' /\ ~Opening' /\ TheRun' = TheRun /\ (Ended' <=> pc[t] = "endrun")
        /\ L \in Nat /\ L = Len(accepted)
    BY <1>1, <1>4 DEF MarksKept, L
  <2>7. \A i \in 1 .. L + 1 :
            /\ accepted'[i].type = BEGRUNEVENT <=> i = 1 \/ accepted'[i - 1].run # accepted'[i].run
            /\ i < L + 1 =>
                (accepted'[i].type = ENDRUNEVENT <=> accepted'[i + 1].run # accepted'[i].run)
    <3>1. TAKE i \in 1 .. L + 1
    <3>2. CASE i = L + 1
      <4>1. CASE L = 0
        BY <2>3, <2>4, <2>5, <2>6, <3>2, <4>1
      <4>2. CASE L > 0
        <5>1. accepted'[i - 1] = accepted[L] /\ accepted'[i] = ev
          BY <2>4, <2>6, <3>2, <4>2
        <5> QED
          BY <2>3, <2>5, <2>6, <3>2, <4>2, <5>1
      <4> QED
        BY <2>6, <4>1, <4>2
    <3>3. CASE i = L /\ L > 0
      <4>1. /\ accepted'[i] = accepted[L] /\ accepted'[i + 1] = ev
            /\ i > 1 => accepted'[i - 1] = accepted[L - 1]
        BY <2>4, <2>6, <3>3
      <4>2. accepted[L].type = BEGRUNEVENT <=> L = 1 \/ accepted[L - 1].run # accepted[L].run
        BY <2>6, <2>8, <3>3
      <4> QED
        BY <2>3, <2>5, <2>6, <3>3, <4>1, <4>2
    <3>4. CASE i < L
      <4>1. /\ accepted'[i] = accepted[i] /\ accepted'[i + 1] = accepted[i + 1]
            /\ i > 1 => accepted'[i - 1] = accepted[i - 1]
        BY <2>4, <2>6, <3>4
      <4>2. /\ accepted[i].type = BEGRUNEVENT <=> i = 1 \/ accepted[i - 1].run # accepted[i].run
            /\ accepted[i].type = ENDRUNEVENT <=> accepted[i + 1].run # accepted[i].run
        BY <2>6, <2>8, <3>4
      <4> QED
        BY <2>6, <3>4, <4>1, <4>2
    <3> QED
      BY <2>6, <3>2, <3>3, <3>4
  <2> QED
    BY <2>3, <2>4, <2>6, <2>7 DEF RunsMarked
<1> QED
  BY <1>3, <1>4, MarkSteps

LEMMA RunsMarkedInvariance ==
    ASSUME CalmOperation, PlainRuns, enable_empty_event_flag = 1
    PROVE  RCSpec => []MarkedInv
<1>1. ASSUME RCInit PROVE MarkedInv
  <2>1. accepted = << >> /\ \A t \in Threads : pc[t] = "idle" /\ Running = FALSE
    BY <1>1 DEF RCInit
  <2>2. ~Begun
    BY <1>1 DEF RCInit, Begun, Unprepared, At, EndPlaces
  <2> QED
    BY <1>1, <2>1, <2>2, RunInit, EmptySeq DEF MarkedInv, RunsMarked
<1>2. ASSUME MarkedInv, [RCNext]_allVars PROVE MarkedInv'
  BY <1>2, RunInvNext, RunsMarkedStep DEF MarkedInv, RunInv
<1> QED
  BY <1>1, <1>2, PTL DEF RCSpec

\* With the marks in order, the whole run in a closed file is bracketed by them.
LEMMA WholeIsBracketed ==
    ASSUME MarkedInv PROVE RunIsBracketed
<1> SUFFICES ASSUME dropped = {}, NEW r \in existing \ {outfile_fd}, Len(file[r]) > 0,
                    NEW i \in 1 .. Len(file[r])
             PROVE  /\ file[r][i].type = BEGRUNEVENT <=> i = 1
                    /\ file[r][i].type = ENDRUNEVENT <=> i = Len(file[r])
  <2>1. \A r \in existing : file[r] \in Seq(Event)
    BY DEF MarkedInv, RunInv, HandOverInv, RCTypeOK, BufferTypes
  <2>2. \A r \in existing :
            /\ Len(file[r]) \in Nat /\ DOMAIN file[r] = 1 .. Len(file[r])
            /\ Len([i \in DOMAIN file[r] |-> file[r][i].type]) = Len(file[r])
    BY <2>1, LenProperties
  <2> QED
    BY <2>2 DEF RunIsBracketed
<1>1. PICK m, n \in 0 .. Len(accepted) :
          /\ file[r] = SubSeq(accepted, m + 1, n)
          /\ \A j \in DOMAIN accepted : accepted[j].run = r <=> j \in m + 1 .. n
  BY DEF MarkedInv, RunInv, FileIsWholeRun, IsRun
<1>2. /\ accepted \in Seq(Event) /\ Len(accepted) \in Nat /\ DOMAIN accepted = 1 .. Len(accepted)
      /\ \A j \in 1 .. Len(accepted) : accepted[j] \in Event
  BY StreamTypes, LenProperties, ElementOfSeq DEF MarkedInv, RunInv
<1>3. /\ Len(file[r]) = n - m /\ m < n
      /\ \A j \in 1 .. n - m : file[r][j] = accepted[m + j]
  <2>1. m + 1 \in Int /\ n \in Int /\ m \in Int /\ \A j \in m + 1 .. n : accepted[j] \in Event
    BY <1>1, <1>2
  <2>2. /\ Len(file[r]) = IF m + 1 <= n THEN n - (m + 1) + 1 ELSE 0
        /\ \A j \in 1 .. n - (m + 1) + 1 : file[r][j] = accepted[(m + 1) + j - 1]
    BY <1>1, <2>1, SubSeqProperties
  <2>3. m + 1 <= n
    BY <2>1, <2>2
  <2>4. n - (m + 1) + 1 = n - m /\ \A j \in 1 .. n - m : (m + 1) + j - 1 = m + j
    BY <2>1
  <2> QED
    BY <2>1, <2>2, <2>3, <2>4
<1>4. /\ m \in Nat /\ n \in Nat /\ n <= Len(accepted) /\ i \in 1 .. n - m
      /\ file[r][i] = accepted[m + i] /\ m + i \in 1 .. Len(accepted)
  BY <1>1, <1>2, <1>3
<1>5. accepted[m + i].run = r
  BY <1>1, <1>2, <1>4
<1>8. \A k \in 1 .. Len(accepted) :
          /\ accepted[k].type = BEGRUNEVENT <=> k = 1 \/ accepted[k - 1].run # accepted[k].run
          /\ k < Len(accepted) =>
                (accepted[k].type = ENDRUNEVENT <=> accepted[k + 1].run # accepted[k].run)
  BY <1>2 DEF MarkedInv, RunsMarked
<1>6. file[r][i].type = BEGRUNEVENT <=> i = 1
  <2>1. accepted[m + i].type = BEGRUNEVENT
            <=> m + i = 1 \/ accepted[m + i - 1].run # accepted[m + i].run
    <3>1. m + i \in 1 .. Len(accepted)
      BY <1>4
    <3> HIDE DEF MarkedInv
    <3>2. \A k \in 1 .. Len(accepted) :
            accepted[k].type = BEGRUNEVENT <=> k = 1 \/ accepted[k - 1].run # accepted[k].run
      BY <1>8
    <3> QED
      BY <3>1, <3>2
  <2>2. CASE i = 1
    <3>1. m + i # 1 => m \in DOMAIN accepted /\ m + i - 1 = m /\ m \notin m + 1 .. n
      BY <1>2, <1>4, <2>2
    <3> QED
      BY <1>1, <1>4, <1>5, <2>1, <2>2, <3>1
  <2>3. CASE i # 1
    <3>1. m + i # 1 /\ m + i - 1 \in DOMAIN accepted /\ m + i - 1 \in m + 1 .. n
      BY <1>2, <1>4, <2>3
    <3> QED
      BY <1>1, <1>4, <1>5, <2>1, <2>3, <3>1
  <2> QED
    BY <2>2, <2>3
<1>7. file[r][i].type = ENDRUNEVENT <=> i = Len(file[r])
  <2>1. CASE m + i < Len(accepted)
    <3>1. accepted[m + i].type = ENDRUNEVENT <=> accepted[m + i + 1].run # accepted[m + i].run
      BY <1>4, <1>8, <2>1
    <3>2. m + i + 1 \in DOMAIN accepted /\ (m + i + 1 \in m + 1 .. n <=> i # n - m)
      BY <1>2, <1>4, <2>1
    <3>3. accepted[m + i + 1].run = r <=> i # n - m
      BY <1>1, <3>2
    <3> QED
      BY <1>3, <1>4, <1>5, <3>1, <3>3
  <2>2. CASE m + i = Len(accepted)
    <3>1. i = Len(file[r])
      BY <1>2, <1>3, <1>4, <2>2
    <3>2. ~Begun \/ Ended
      <4> SUFFICES ASSUME Begun, ~Ended PROVE FALSE
        OBVIOUS
      <4>1. TheRun = r
        BY <1>2, <1>4, <1>5, <2>2 DEF MarkedInv, RunsMarked
      <4>2. \/ Running /\ pc[evt] # "reset"
            \/ At({"open", "count", "prepare", "begrun", "endrun", "flush"})
        <5>1. pc[evt] # "reset"
          BY RunControlAssumption DEF Ended, At
        <5> QED
          BY <5>1 DEF Begun, Ended, Unprepared, At, EndPlaces
      <4> QED
        BY <4>1, <4>2 DEF MarkedInv, RunInv, NumbersGrow
    <3>3. accepted[m + i].type = ENDRUNEVENT
      BY <1>2, <1>4, <2>2, <3>2 DEF MarkedInv, RunsMarked
    <3> QED
      BY <1>4, <3>1, <3>3
  <2> QED
    BY <1>2, <1>4, <2>1, <2>2
<1> QED
  BY <1>6, <1>7

\* With empty events kept, the begin-run event is the first of every closed file,
\* the end-run event the last, and neither appears in between.
THEOREM BracketedFiles ==
    ASSUME CalmOperation, PlainRuns, enable_empty_event_flag = 1
    PROVE  RCSpec => []RunIsBracketed
BY RunsMarkedInvariance, WholeIsBracketed, PTL


-----------------------------------------------------------------------------
(* The monitoring stream, when a rollover finds the last buffer sent         *)

\* While nobody is in switch_buffer() and the sender is through, the sender owes
\* nothing.
LEMMA SenderThrough ==
    ASSUME CalmOperation, HandOverInv, RunPlaces, At({"open", "count", "prepare", "close", "reset"}),
           sender = "wait", SendSem = 0
    PROVE  ~SenderOwes
<1>1. \A t \in Threads : ~Busy(t)
  BY BusyAlone
<1> QED
  BY <1>1 DEF SenderOwes, Busy

\* daq_begin() and a rollover prepare the buffers when there is nothing left in them.
LEMMA PreparedForSender ==
    ASSUME CalmOperation, HandOverInv, RunPlaces, NothingLeft, SenderKeepsUp,
           NEW t \in Threads, PrepareRun(t)
    PROVE  ForSender = << >> /\ ForSender' = << >>
<1>1. At({"prepare"}) /\ Unprepared /\ sender = "wait" /\ SendSem = 0
  BY DEF PrepareRun, At, Unprepared
<1>2. ~SenderOwes
  BY <1>1, SenderThrough DEF At
<1>3. ~SenderOwes'
  BY <1>2 DEF PrepareRun, SenderOwes
<1>4. events[fillBuffer] = << >>
  BY <1>1 DEF NothingLeft
<1>5. events'[fillBuffer'] = << >>
  <2>1. events \in [Buffers -> Seq(Event)]
    BY DEF HandOverInv, RCTypeOK
  <2> QED
    BY <2>1 DEF PrepareRun, PrepareNext, Buffers
<1>6. << >> \o << >> = << >>
  BY EmptySeq, ConcatEmptySeq
<1> QED
  BY <1>2, <1>3, <1>4, <1>5, <1>6 DEF ForSender

\* switch_buffer() hands the stream on as it is.
LEMMA SwappedForSender ==
    ASSUME HandOverInv, FileOfRun, NEW t \in Threads, Swap(t)
    PROVE  ForSender' = ForSender
<1>1. /\ events \in [Buffers -> Seq(Event)] /\ fillBuffer \in Buffers /\ transportBuffer \in Buffers
      /\ fillBuffer # transportBuffer
      /\ sw \in [Threads -> {"out", "lockWrite", "lockSend", "swap", "unlockWrite", "unlockSend"}]
  BY DEF HandOverInv, RCTypeOK, BufferTypes, FileOfRun, ControlInv, ControlTypes
<1>2. sw[t] = "swap" /\ sw' = [sw EXCEPT ![t] = "unlockWrite"]
  BY DEF Swap
<1>3. SenderOwes'
  BY <1>1, <1>2 DEF SenderOwes
<1>4. ~SenderOwes
  <2>1. \A u \in Threads : u # t => sw[u] = "out"
    BY <1>2, HandOverParts DEF Exclusive, Busy
  <2> QED
    BY <1>2, <2>1, HandOverParts DEF SendToken, SenderOwes
<1>5. events'[fillBuffer'] = << >> /\ events'[transportBuffer'] = events[fillBuffer]
  BY <1>1 DEF Swap, PrepareNext
<1>6. ForSender = << >> \o events[fillBuffer] /\ ForSender' = events[fillBuffer] \o << >>
  BY <1>3, <1>4, <1>5 DEF ForSender
<1> QED
  BY <1>6, StreamTypes, ConcatEmptySeq

\* An event that readout() keeps is the next one for the monitors.
LEMMA KeptForSender ==
    ASSUME HandOverInv, FileOfRun, OwnRun, NEW t \in Threads, NEW timeUp \in BOOLEAN,
           KeepEvent(t, timeUp)
    PROVE  ForSender' = Append(ForSender, header[fillBuffer]) /\ header[fillBuffer] \in Event
<1> DEFINE ev == header[fillBuffer]
<1>1. ev \in Event
  <2>1. rd[t] = "addSubevents"
    BY DEF KeepEvent
  <2> QED
    BY <2>1 DEF HandOverInv, BufferTypes
<1>2. /\ events \in [Buffers -> Seq(Event)] /\ fillBuffer \in Buffers /\ transportBuffer \in Buffers
      /\ fillBuffer # transportBuffer
      /\ sw \in [Threads -> {"out", "lockWrite", "lockSend", "swap", "unlockWrite", "unlockSend"}]
  BY DEF HandOverInv, RCTypeOK, BufferTypes, FileOfRun, ControlInv, ControlTypes
<1>3. /\ events'[fillBuffer'] = Append(events[fillBuffer], ev)
      /\ events'[transportBuffer'] = events[transportBuffer]
  BY <1>2 DEF KeepEvent
<1>4. SenderOwes' = SenderOwes
  <2>1. sw[t] = "out" /\ UNCHANGED <<sender, SendSem>>
    BY DEF KeepEvent
  <2>2. \A u \in Threads : sw'[u] \in {"unlockWrite", "unlockSend"}
                                <=> sw[u] \in {"unlockWrite", "unlockSend"}
    <3>1. CASE timeUp
      BY <1>2, <2>1, <3>1 DEF KeepEvent
    <3>2. CASE ~timeUp
      BY <3>2 DEF KeepEvent
    <3> QED
      BY <3>1, <3>2
  <2> QED
    BY <2>1, <2>2 DEF SenderOwes
<1>5. PICK b \in Seq(Event) : /\ ForSender = b \o events[fillBuffer]
                              /\ ForSender' = b \o Append(events[fillBuffer], ev)
  BY <1>3, <1>4, StreamTypes, EmptySeq DEF ForSender
<1>6. Append(b \o events[fillBuffer], ev) = b \o Append(events[fillBuffer], ev)
  BY <1>1, StreamTypes, EventsAppend, Zenon
<1> QED
  BY <1>1, <1>5, <1>6

\* Types of the stream.
LEMMA SenderTypes ==
    ASSUME HandOverInv
    PROVE  /\ monitored \in Seq(Event) /\ ForSender \in Seq(Event)
           /\ events[fillBuffer] \in Seq(Event) /\ events[transportBuffer] \in Seq(Event)
<1>1. monitored \in Seq(Event)
  BY DEF HandOverInv, BufferTypes
<1>2. (IF SenderOwes THEN events[transportBuffer] ELSE << >>) \in Seq(Event)
  BY StreamTypes, EmptySeq
<1> QED
  BY <1>1, <1>2, StreamTypes, ConcatProperties DEF ForSender

\* What a step may do to the monitoring stream: nothing, append the event that
\* readout() keeps, or move the buffer of the sender out of it.
MonitorKinds ==
    \/ UNCHANGED <<accepted, monitored, ForSender>>
    \/ \E e \in Event : /\ accepted' = Append(accepted, e)
                        /\ ForSender' = Append(ForSender, e)
                        /\ monitored' = monitored
    \/ /\ accepted' = accepted
       /\ monitored' = monitored \o events[transportBuffer]
       /\ ForSender = events[transportBuffer] \o ForSender'
       /\ ForSender' = events[fillBuffer]

\* The sender moves its buffer from memory to the monitors.
LEMMA SentStream ==
    ASSUME HandOverInv, ConsumersApart, SenderKeepsUp, SenderDone
    PROVE  MonitorKinds
<1>1. sender = "sending" /\ sbuf = transportBuffer
  BY DEF SenderDone, ConsumersApart
<1>2. SenderOwes /\ ~SenderOwes'
  BY <1>1, HandOverParts DEF SenderDone, SenderOwes, SendToken
<1>3. /\ ForSender = events[transportBuffer] \o events[fillBuffer]
      /\ ForSender' = events[fillBuffer]
  BY <1>2, SenderTypes, ConcatEmptySeq DEF SenderDone, ForSender
<1>4. monitored' = monitored \o events[transportBuffer] /\ accepted' = accepted
  BY <1>1 DEF SenderDone
<1> QED
  BY <1>3, <1>4 DEF MonitorKinds

\* Every step does one of these.
LEMMA MonitorStep ==
    ASSUME CalmOperation, PlainRuns, SenderKeepsUp, RunInv, [RCNext]_allVars
    PROVE  MonitorKinds
<1> USE DEF RunInv
\* Steps that leave the buffers, the sender and switch_buffer() alone.
<1>a. ASSUME UNCHANGED <<accepted, monitored, events, fillBuffer, transportBuffer>>,
             SenderOwes' = SenderOwes
      PROVE  MonitorKinds
  BY <1>a DEF MonitorKinds, ForSender
<1>1. ASSUME NEW t \in Threads, SessionStep(t) PROVE MonitorKinds
  <2>1. CASE PrepareRun(t)
    <3>1. accepted' = accepted /\ monitored' = monitored
      BY <2>1 DEF PrepareRun
    <3> QED
      BY <2>1, <3>1, PreparedForSender DEF MonitorKinds
  <2>2. CASE Flush(t)
    <3>1. \A u \in Threads : sw'[u] \in {"unlockWrite", "unlockSend"}
                                  <=> sw[u] \in {"unlockWrite", "unlockSend"}
      <4>1. sw[t] = "out" /\ sw' = [sw EXCEPT ![t] = "lockWrite"]
        BY <2>2 DEF Flush, EnterSwitch, Busy
      <4>2. sw \in [Threads -> {"out", "lockWrite", "lockSend", "swap", "unlockWrite",
                               "unlockSend"}]
        BY DEF HandOverInv, ControlInv, ControlTypes
      <4> QED
        BY <4>1, <4>2
    <3>2. UNCHANGED <<accepted, monitored, events, fillBuffer, transportBuffer, sender, SendSem>>
      BY <2>2 DEF Flush
    <3>3. SenderOwes' = SenderOwes
      BY <3>1, <3>2 DEF SenderOwes
    <3> QED
      BY <1>a, <3>2, <3>3
  <2>3. CASE ~PrepareRun(t) /\ ~Flush(t)
    <3>1. UNCHANGED <<accepted, monitored, events, fillBuffer, transportBuffer, sender, SendSem,
                      sw>>
      BY <1>1, <2>3 DEF SessionStep, OpenFile, StartCounting, BeginDone, WakeUp, AwaitWriter,
          CloseFile, ResetCounters, DaqBegin, BeginFails, RollOver, DaqOpen, vars
    <3> QED
      BY <1>a, <3>1 DEF SenderOwes
  <2> QED
    BY <2>1, <2>2, <2>3
<1>2. ASSUME NEW t \in Threads, Readout(t) PROVE MonitorKinds
  <2>1. ASSUME NEW timeUp \in BOOLEAN, KeepEvent(t, timeUp) PROVE MonitorKinds
    <3>1. ForSender' = Append(ForSender, header[fillBuffer]) /\ header[fillBuffer] \in Event
      BY <2>1, KeptForSender
    <3>2. accepted' = Append(accepted, header[fillBuffer]) /\ monitored' = monitored
      BY <2>1 DEF KeepEvent
    <3> QED
      BY <3>1, <3>2 DEF MonitorKinds
  <2>2. CASE NextEvent(t) \/ BufferFull(t) \/ DropEmptyEvent(t)
    <3>1. UNCHANGED <<accepted, monitored, events, fillBuffer, transportBuffer, sender, SendSem>>
      BY <2>2 DEF NextEvent, BufferFull, DropEmptyEvent
    <3>2. sw' = sw \/ (sw[t] = "out" /\ sw' = [sw EXCEPT ![t] = "lockWrite"])
      BY <2>2 DEF NextEvent, BufferFull, DropEmptyEvent
    <3>3. sw \in [Threads -> {"out", "lockWrite", "lockSend", "swap", "unlockWrite",
                             "unlockSend"}]
      BY DEF HandOverInv, ControlInv, ControlTypes
    <3>4. \A u \in Threads : sw'[u] \in {"unlockWrite", "unlockSend"}
                                  <=> sw[u] \in {"unlockWrite", "unlockSend"}
      BY <3>2, <3>3
    <3>5. SenderOwes' = SenderOwes
      BY <3>1, <3>4 DEF SenderOwes
    <3> QED
      BY <1>a, <3>1, <3>5
  <2> QED
    BY <1>2, <2>1, <2>2 DEF Readout, ReadoutStep
<1>3. ASSUME NEW t \in Threads, Switch(t) PROVE MonitorKinds
  <2>1. CASE Swap(t)
    <3>1. accepted' = accepted /\ monitored' = monitored
      BY <2>1 DEF Swap
    <3> QED
      BY <2>1, <3>1, SwappedForSender DEF MonitorKinds
  <2>2. CASE ~Swap(t)
    <3>1. /\ UNCHANGED <<accepted, monitored, events, fillBuffer, transportBuffer, sender>>
          /\ \/ SendSem' = SendSem /\ sw[t] \notin {"unlockWrite", "unlockSend"}
                    /\ sw' \in {[sw EXCEPT ![t] = "lockSend"], [sw EXCEPT ![t] = "swap"]}
             \/ SendSem' = SendSem /\ sw[t] = "unlockWrite"
                    /\ sw' = [sw EXCEPT ![t] = "unlockSend"]
             \/ SendSem' = 1 /\ sw[t] = "unlockSend" /\ sw' = [sw EXCEPT ![t] = "out"]
      BY <1>3, <2>2 DEF Switch, SwitchStep, LockWriteProtect, LockSendProtect, UnlockWrite,
          UnlockSend
    <3>2. sw \in [Threads -> {"out", "lockWrite", "lockSend", "swap", "unlockWrite",
                             "unlockSend"}]
      BY DEF HandOverInv, ControlInv, ControlTypes
    <3>3. SenderOwes' = SenderOwes
      BY <3>1, <3>2 DEF SenderOwes
    <3> QED
      BY <1>a, <3>1, <3>3
  <2> QED
    BY <2>1, <2>2
<1>4. CASE (WriterStep \/ SenderStep) /\ UNCHANGED rcVars
  <2>1. CASE SenderDone
    BY <2>1, SentStream
  <2>2. CASE ~SenderDone
    <3>1. UNCHANGED <<accepted, monitored, events, fillBuffer, transportBuffer, sw>>
      BY <1>4, <2>2 DEF WriterStep, WriterTake, WriterStore, WriterFail, WriterSkip,
          WriterRelease, SenderStep, SenderTake
    <3>2. \/ UNCHANGED <<sender, SendSem>>
          \/ SendSem = 1 /\ sender' = "sending"
      BY <1>4, <2>2 DEF WriterStep, WriterTake, WriterStore, WriterFail, WriterSkip,
          WriterRelease, SenderStep, SenderTake
    <3>3. SenderOwes' = SenderOwes
      BY <3>1, <3>2 DEF SenderOwes
    <3> QED
      BY <1>a, <3>1, <3>3
  <2> QED
    BY <2>1, <2>2
<1>5. CASE OtherStep
  <2>1. UNCHANGED <<accepted, monitored, events, fillBuffer, transportBuffer, sender, SendSem, sw>>
    BY <1>5 DEF OtherStep
  <2> QED
    BY <1>a, <2>1 DEF SenderOwes
<1> QED
  BY <1>1, <1>2, <1>3, <1>4, <1>5, RunSteps

\* So the monitors have seen what is not left in memory.
LEMMA SeenStep ==
    ASSUME CalmOperation, PlainRuns, SenderKeepsUp, RunInv, MonitorSeesAll, [RCNext]_allVars
    PROVE  MonitorSeesAll'
<1>1. /\ monitored \in Seq(Event) /\ ForSender \in Seq(Event)
      /\ events[fillBuffer] \in Seq(Event) /\ events[transportBuffer] \in Seq(Event)
  BY SenderTypes DEF RunInv
<1>2. CASE UNCHANGED <<accepted, monitored, ForSender>>
  BY <1>2 DEF MonitorSeesAll
<1>3. ASSUME NEW e \in Event, accepted' = Append(accepted, e), ForSender' = Append(ForSender, e),
             monitored' = monitored
      PROVE  MonitorSeesAll'
  <2>1. Append(monitored \o ForSender, e) = monitored \o Append(ForSender, e)
    BY <1>1, EventsAppend, Zenon
  <2> QED
    BY <1>3, <2>1 DEF MonitorSeesAll
<1>4. CASE /\ accepted' = accepted
           /\ monitored' = monitored \o events[transportBuffer]
           /\ ForSender = events[transportBuffer] \o ForSender'
           /\ ForSender' = events[fillBuffer]
  <2>1. (monitored \o events[transportBuffer]) \o events[fillBuffer]
            = monitored \o (events[transportBuffer] \o events[fillBuffer])
    BY <1>1, EventsAssociative, Zenon
  <2> QED
    BY <1>4, <2>1 DEF MonitorSeesAll
<1> QED
  BY <1>2, <1>3, <1>4, MonitorStep DEF MonitorKinds

\* Across runs, too, the monitors get every buffer, once and in order: what they
\* have seen and what is on the way to them is what readout() kept, if daq_begin()
\* and a rollover find the last buffer sent.
THEOREM MonitorAcrossRuns ==
    ASSUME CalmOperation, PlainRuns, SenderKeepsUp PROVE RCSpec => []MonitorSeesAll
<1>1. ASSUME RCInit PROVE MonitorSeesAll
  <2>1. monitored = << >> /\ accepted = << >> /\ events[fillBuffer] = << >> /\ ~SenderOwes
    BY <1>1 DEF RCInit, SenderOwes, Buffers
  <2>2. << >> \o << >> = << >>
    BY EmptySeq, ConcatEmptySeq
  <2> QED
    BY <2>1, <2>2 DEF MonitorSeesAll, ForSender
<1>2. RCInit => MonitorSeesAll
  BY <1>1
<1>3. RunInv /\ MonitorSeesAll /\ [RCNext]_allVars => MonitorSeesAll'
  BY SeenStep
<1> QED
  BY <1>2, <1>3, RunInvariance, PTL DEF RCSpec

\* Each step is one of the abstract stream, or none of it.
LEMMA AcrossRunsStep ==
    ASSUME CalmOperation, PlainRuns, SenderKeepsUp, RunInv, [RCNext]_allVars
    PROVE  [MonitorsAcrossRuns!Next]_(MonitorsAcrossRuns!vars)
<1>1. /\ monitored \in Seq(Event) /\ ForSender \in Seq(Event)
      /\ events[fillBuffer] \in Seq(Event) /\ events[transportBuffer] \in Seq(Event)
  BY SenderTypes DEF RunInv
<1>2. CASE UNCHANGED <<accepted, monitored, ForSender>>
  BY <1>2 DEF MonitorsAcrossRuns!vars
<1>3. ASSUME NEW e \in Event, ForSender' = Append(ForSender, e), monitored' = monitored
      PROVE  MonitorsAcrossRuns!Accept
  BY <1>1, <1>3, AppendAccepted DEF MonitorsAcrossRuns!Accept
<1>4. CASE /\ monitored' = monitored \o events[transportBuffer]
           /\ ForSender = events[transportBuffer] \o ForSender'
           /\ ForSender' = events[fillBuffer]
  <2>1. [MonitorStream!Next]_(MonitorStream!vars)
    BY <1>1, <1>4, MonitorBatch
  <2>2. MonitorStream!Accept => MonitorsAcrossRuns!Accept
    BY PayloadEvents DEF MonitorStream!Accept, MonitorsAcrossRuns!Accept
  <2> QED
    BY <2>1, <2>2 DEF MonitorStream!Next, MonitorStream!vars, MonitorStream!Store,
        MonitorStream!Discard, MonitorStream!Rest, MonitorsAcrossRuns!Next,
        MonitorsAcrossRuns!vars, MonitorsAcrossRuns!Store, MonitorsAcrossRuns!Discard,
        MonitorsAcrossRuns!Rest
<1> QED
  BY <1>2, <1>3, <1>4, MonitorStep DEF MonitorKinds, MonitorsAcrossRuns!Next

\* Run control implements the abstract event stream towards the monitors: no run
\* that begins, ends or is rolled over makes it lose, repeat or reorder an event.
THEOREM MonitorRefinementAcrossRuns ==
    ASSUME CalmOperation, PlainRuns, SenderKeepsUp PROVE RCSpec => ImplementsAcrossRuns
<1>1. RCInit => MonitorsAcrossRuns!Init
  <2>1. << >> \o << >> = << >>
    BY EmptySeq, ConcatEmptySeq
  <2> QED
    BY <2>1 DEF RCInit, SenderOwes, Buffers, ForSender, MonitorsAcrossRuns!Init
<1>2. RunInv /\ [RCNext]_allVars => [MonitorsAcrossRuns!Next]_(MonitorsAcrossRuns!vars)
  BY AcrossRunsStep
<1> QED
  BY <1>1, <1>2, RunInvariance, PTL DEF RCSpec, ImplementsAcrossRuns, MonitorsAcrossRuns!Spec

\* What the monitors have seen is the beginning of a stream with its marks in order.
LEMMA SeenIsBracketed ==
    ASSUME MarkedInv, MonitorSeesAll PROVE MonitorIsBracketed
<1>1. /\ monitored \in Seq(Event) /\ ForSender \in Seq(Event)
      /\ accepted = monitored \o ForSender
  BY SenderTypes DEF MarkedInv, RunInv, MonitorSeesAll
<1>2. /\ Len(monitored) \in Nat /\ DOMAIN accepted = 1 .. Len(accepted)
      /\ Len(monitored) <= Len(accepted) /\ Len(accepted) \in Nat
      /\ \A i \in 1 .. Len(monitored) : accepted[i] = monitored[i]
  BY <1>1, ConcatProperties, LenProperties
<1>3. \A i \in 1 .. Len(accepted) :
          /\ accepted[i].type = BEGRUNEVENT <=> i = 1 \/ accepted[i - 1].run # accepted[i].run
          /\ i < Len(accepted) =>
                (accepted[i].type = ENDRUNEVENT <=> accepted[i + 1].run # accepted[i].run)
  BY <1>2 DEF MarkedInv, RunsMarked
<1> SUFFICES ASSUME NEW i \in 2 .. Len(monitored), monitored[i].run # monitored[i - 1].run
             PROVE  monitored[i - 1].type = ENDRUNEVENT /\ monitored[i].type = BEGRUNEVENT
  BY DEF MonitorIsBracketed
<1>4. /\ i \in 1 .. Len(accepted) /\ i - 1 \in 1 .. Len(accepted) /\ i # 1
      /\ i - 1 < Len(accepted) /\ (i - 1) + 1 = i
      /\ accepted[i] = monitored[i] /\ accepted[i - 1] = monitored[i - 1]
  BY <1>2
<1>5. accepted[i].type = BEGRUNEVENT
  BY <1>3, <1>4
<1>6. accepted[i - 1].type = ENDRUNEVENT
  <2>1. accepted[i - 1].type = ENDRUNEVENT <=> accepted[(i - 1) + 1].run # accepted[i - 1].run
    BY <1>3, <1>4
  <2> QED
    BY <1>4, <2>1
<1> QED
  BY <1>4, <1>5, <1>6

\* The stream that feeds the monitors changes from one run to the next between an
\* end-run and a begin-run event.
THEOREM BracketedMonitors ==
    ASSUME CalmOperation, PlainRuns, SenderKeepsUp, enable_empty_event_flag = 1
    PROVE  RCSpec => []MonitorIsBracketed
BY RunsMarkedInvariance, MonitorAcrossRuns, SeenIsBracketed, PTL

-----------------------------------------------------------------------------
(* The numbers announced across runs                                         *)

\* The last message announced number s, and a buffer of the same run before it; or
\* s is the first number of a run.
Follows(s) ==
    \/ s = 1
    \/ Len(monitor) > 0 /\ monitor[Len(monitor)].seq = s - 1 /\ monitor[Len(monitor)].num = s

\* What NumbersAnnounced says of the i-th of the messages m.
InOrder(m, i) ==
    /\ m[i].seq = 1 \/ (i > 1 /\ m[i].seq = m[i - 1].seq + 1)
    /\ \/ m[i].num = m[i].seq + 1
       \/ m[i].num \in {0, 1} /\ (i < Len(m) => m[i + 1].seq = 1)

\* While a run is prepared, Buffer_number is the number of the fill buffer, one
\* past that of the buffer the sender owes; else it is 0 or 1, which is what the
\* sender announces when it comes too late.
SenderCounts ==
    /\ monitor \in Seq([num : Nat, seq : Nat])
    /\ Unprepared => Buffer_number \in {0, 1}
    /\ At({"prepare"}) => Buffer_number = 1
    /\ ~Unprepared => Bufseq[fillBuffer] = Buffer_number
    /\ ~Unprepared /\ ~SenderOwes => Follows(Buffer_number)
    /\ SenderOwes => Follows(Bufseq[transportBuffer])
    /\ ~Unprepared /\ SenderOwes => Bufseq[transportBuffer] = Buffer_number - 1
    /\ sender = "sending" =>
            snum = Bufseq[transportBuffer] + 1 \/ (Unprepared /\ snum \in {0, 1})

\* What a step may do to Buffer_number while the buffers and the sender stay as
\* they are: daq_begin() and the rollover set it before they prepare the buffers,
\* and the end of a run does when it is over.
CountsApart ==
    /\ UNCHANGED <<Bufseq, fillBuffer, transportBuffer, monitor, snum, sender>>
    /\ SenderOwes' <=> SenderOwes
    /\ \/ /\ Buffer_number' = Buffer_number /\ (Unprepared' <=> Unprepared)
          /\ At({"prepare"})' => At({"prepare"})
       \/ Buffer_number' = 1 /\ Unprepared /\ Unprepared'
       \/ Buffer_number' = 0 /\ Unprepared' /\ ~At({"prepare"})'

\* Nobody else is in switch_buffer(), so the sender owes what it owed before.
LEMMA SenderOwesAsBefore ==
    ASSUME HandOverInv, UNCHANGED <<sender, SendSem>>,
           NEW t \in Threads, NEW p, sw' = [sw EXCEPT ![t] = p],
           sw[t] \in {"unlockWrite", "unlockSend"} <=> p \in {"unlockWrite", "unlockSend"}
    PROVE  SenderOwes' <=> SenderOwes
<1>1. sw \in [Threads -> {"out", "lockWrite", "lockSend", "swap", "unlockWrite", "unlockSend"}]
  BY DEF HandOverInv, ControlInv, ControlTypes
<1>2. \A u \in Threads : sw'[u] \in {"unlockWrite", "unlockSend"}
                              <=> sw[u] \in {"unlockWrite", "unlockSend"}
  BY <1>1
<1> QED
  BY <1>2 DEF SenderOwes

\* Every step counts apart from the buffers, or prepares a run, switches buffers
\* or is one of the sender.
LEMMA NumberSteps ==
    ASSUME CalmOperation, PlainRuns, RunInv, [RCNext]_allVars
    PROVE  \/ CountsApart
           \/ \E t \in Threads : PrepareRun(t) \/ (Switch(t) /\ Swap(t))
           \/ (SenderTake \/ SenderDone) /\ UNCHANGED rcVars
<1> USE DEF RunInv, At, PlaceTypes, JobPlaces, RunningPlaces, RunPlaces, BeginPlaces, EndPlaces,
            Goto, Finish
<1>0. PICK c : Cmds = {c} /\ Threads = {evt, c} /\ c # evt
  BY TwoThreads
<1>a. PlaceTypes /\ JobPlaces /\ RunningPlaces /\ BeginAlone
  BY HandOverParts
<1>b. \A t, u \in Threads : t # u /\ pc[t] \in BeginPlaces \cup EndPlaces =>
            pc[u] \notin BeginPlaces \cup EndPlaces
  BY SessionAlone, HandOverParts
\* Steps that leave the count alone.
<1>c. ASSUME UNCHANGED <<Buffer_number, Bufseq, fillBuffer, transportBuffer, monitor, snum, sender>>,
             SenderOwes' <=> SenderOwes, Unprepared' <=> Unprepared,
             \A t \in Threads : pc'[t] = "prepare" => pc[t] = "prepare"
      PROVE  CountsApart
  BY <1>c DEF CountsApart
<1>1. ASSUME NEW t \in Threads, OpenFile(t) PROVE CountsApart
  <2>1. /\ UNCHANGED <<Buffer_number, Bufseq, fillBuffer, transportBuffer, monitor, snum, sender,
                       SendSem, sw>>
        /\ pc[t] = "open" /\ pc' = [pc EXCEPT ![t] = "count"]
    BY <1>1 DEF OpenFile
  <2>2. Unprepared /\ Unprepared'
    BY <1>a, <2>1 DEF Unprepared
  <2> QED
    BY <1>a, <1>c, <2>1, <2>2 DEF SenderOwes
<1>2. ASSUME NEW t \in Threads, StartCounting(t) PROVE CountsApart
  <2>1. /\ UNCHANGED <<Bufseq, fillBuffer, transportBuffer, monitor, snum, sender, SendSem, sw>>
        /\ Buffer_number' = 1
        /\ pc[t] = "count" /\ pc' = [pc EXCEPT ![t] = "prepare"]
    BY <1>2 DEF StartCounting
  <2>2. Unprepared /\ Unprepared'
    BY <1>a, <2>1 DEF Unprepared
  <2> QED
    BY <2>1, <2>2 DEF CountsApart, SenderOwes
<1>3. ASSUME NEW t \in Threads, BeginDone(t) PROVE CountsApart
  <2>1. /\ UNCHANGED <<Buffer_number, Bufseq, fillBuffer, transportBuffer, monitor, snum, sender,
                       SendSem, sw>>
        /\ Running' = Running
        /\ pc[t] = "begrun" /\ pc' = [pc EXCEPT ![t] = "idle"]
    BY <1>3 DEF BeginDone, vars
  <2>2. Running
    BY <1>0, <1>a, <2>1
  <2>3. ~Unprepared /\ ~Unprepared'
    BY <1>a, <1>b, <2>1, <2>2 DEF Unprepared
  <2> QED
    BY <1>a, <1>c, <2>1, <2>3 DEF SenderOwes
<1>4. ASSUME NEW t \in Threads, WakeUp(t) \/ (t = evt /\ RollOver) PROVE CountsApart
  <2>1. /\ UNCHANGED <<Buffer_number, Bufseq, fillBuffer, transportBuffer, monitor, snum, sender,
                       SendSem, sw>>
        /\ pc[t] \in {"sleep", "rollOver"} /\ pc' = [pc EXCEPT ![t] = "endrun"]
        /\ (pc[t] = "sleep" /\ (t = evt \/ Quiet)) \/ (t = evt /\ Running)
    BY <1>4, <1>a DEF WakeUp, RollOver, CalmOperation
  <2>2. \A u \in Threads : u # t => pc[u] \notin BeginPlaces \cup EndPlaces
    BY <1>0, <1>a, <2>1 DEF Quiet, BeginAlone
  <2>3. Running
    BY <1>0, <1>a, <2>1
  <2>4. ~Unprepared /\ ~Unprepared'
    BY <1>a, <2>1, <2>2, <2>3 DEF Unprepared
  <2> QED
    BY <1>a, <1>c, <2>1, <2>4 DEF SenderOwes
<1>5. ASSUME NEW t \in Threads, Flush(t) \/ AwaitWriter(t) \/ CloseFile(t) PROVE CountsApart
  <2>1. /\ UNCHANGED <<Buffer_number, Bufseq, fillBuffer, transportBuffer, monitor, snum, sender,
                       SendSem>>
        /\ pc[t] \in {"endrun", "flush", "close"}
        /\ \E p \in {"flush", "close", "reset"} : pc' = [pc EXCEPT ![t] = p]
    BY <1>5 DEF Flush, AwaitWriter, CloseFile, vars
  <2>2. ~Unprepared /\ ~Unprepared'
    BY <1>a, <1>b, <2>1 DEF Unprepared
  <2>3. SenderOwes' <=> SenderOwes
    <3>1. CASE Flush(t)
      <4>1. sw[t] = "out" /\ sw' = [sw EXCEPT ![t] = "lockWrite"]
        BY <3>1 DEF Flush, EnterSwitch, Busy
      <4> QED
        BY <2>1, <4>1, SenderOwesAsBefore
    <3>2. CASE ~Flush(t)
      BY <1>5, <2>1, <3>2 DEF AwaitWriter, CloseFile, vars, SenderOwes
    <3> QED
      BY <3>1, <3>2
  <2> QED
    BY <1>a, <1>c, <2>1, <2>2, <2>3
<1>6. ASSUME NEW t \in Threads, ResetCounters(t) PROVE CountsApart
  <2>1. /\ UNCHANGED <<Bufseq, fillBuffer, transportBuffer, monitor, snum, sender, SendSem, sw>>
        /\ Buffer_number' = 0 /\ Running' = Running /\ pc[t] = "reset"
        /\ \/ pc' = [pc EXCEPT ![t] = "open"]
           \/ pc' = [pc EXCEPT ![t] = "idle"] /\ ~Running
    BY <1>0, <1>a, <1>6 DEF ResetCounters
  <2>2. Unprepared' /\ ~At({"prepare"})'
    BY <1>a, <1>b, <2>1 DEF Unprepared
  <2> QED
    BY <2>1, <2>2 DEF CountsApart, SenderOwes
<1>7. ASSUME NEW t \in Threads, DaqBegin(t, 0) PROVE CountsApart
  <2>1. /\ UNCHANGED <<Buffer_number, Bufseq, fillBuffer, transportBuffer, monitor, snum, sender,
                       SendSem, sw>>
        /\ pc[t] = "idle" /\ pc' = [pc EXCEPT ![t] = "open"]
        /\ ~Running /\ t = c
    BY <1>0, <1>7 DEF DaqBegin
  <2>2. pc[evt] \notin EndPlaces
    BY <1>0, <1>a, <1>7, <2>1 DEF DaqBegin, AtRest, CalmOperation
  <2>3. Unprepared /\ Unprepared'
    BY <1>0, <1>a, <2>1, <2>2 DEF Unprepared
  <2> QED
    BY <1>a, <1>c, <2>1, <2>3 DEF SenderOwes
<1>8. ASSUME NEW t \in Threads, BeginFails(t) PROVE CountsApart
  <2>1. /\ UNCHANGED <<Buffer_number, Bufseq, fillBuffer, transportBuffer, monitor, snum, sender,
                       SendSem, sw>>
        /\ pc[t] = "open" /\ t = c
        /\ pc' = [pc EXCEPT ![t] = "idle"] /\ ~Running /\ Running' = Running
    BY <1>0, <1>a, <1>8 DEF BeginFails, vars
  <2>2. Unprepared /\ Unprepared'
    BY <1>0, <1>a, <1>b, <2>1 DEF Unprepared
  <2> QED
    BY <1>a, <1>c, <2>1, <2>2 DEF SenderOwes
<1>9. ASSUME NEW t \in Threads, DaqOpen(t) PROVE CountsApart
  <2>1. /\ UNCHANGED <<Buffer_number, Bufseq, fillBuffer, transportBuffer, monitor, snum, sender,
                       SendSem, sw, pc>>
        /\ Running' = Running
    BY <1>9 DEF DaqOpen, vars
  <2> QED
    BY <1>c, <2>1 DEF SenderOwes, Unprepared
<1>10. ASSUME NEW t \in Threads, Readout(t) \/ (Switch(t) /\ ~Swap(t)) PROVE CountsApart
  <2>1. pc' = pc /\ Running' = Running
    BY <1>10, InsideStays
  <2>2. /\ UNCHANGED <<Buffer_number, Bufseq, fillBuffer, transportBuffer, monitor, snum, sender>>
        /\ \/ SendSem' = SendSem /\ sw' = sw
           \/ SendSem' = SendSem /\ sw[t] \notin {"unlockWrite", "unlockSend"}
                /\ \E p \in {"lockWrite", "lockSend", "swap"} : sw' = [sw EXCEPT ![t] = p]
           \/ SendSem' = SendSem /\ sw[t] = "unlockWrite"
                /\ sw' = [sw EXCEPT ![t] = "unlockSend"]
           \/ SendSem' = 1 /\ sw[t] = "unlockSend" /\ sw' = [sw EXCEPT ![t] = "out"]
    BY <1>10 DEF Readout, ReadoutStep, NextEvent, BufferFull, DropEmptyEvent, KeepEvent, Switch,
        SwitchStep, LockWriteProtect, LockSendProtect, UnlockWrite, UnlockSend
  <2>3. SenderOwes' <=> SenderOwes
    <3>1. CASE SendSem' = SendSem /\ sw' = sw
      BY <2>2, <3>1 DEF SenderOwes
    <3>2. CASE SendSem' = 1 /\ sw[t] = "unlockSend"
      BY <3>2 DEF SenderOwes
    <3> QED
      BY <2>2, <3>1, <3>2, SenderOwesAsBefore
  <2> QED
    BY <1>c, <2>1, <2>2, <2>3 DEF Unprepared
<1>11. CASE WriterStep /\ UNCHANGED rcVars
  <2>1. UNCHANGED <<Buffer_number, Bufseq, fillBuffer, transportBuffer, monitor, snum, sender,
                    SendSem, sw, pc>>
    BY <1>11 DEF WriterStep, WriterTake, WriterRelease, WriterStore, WriterFail, WriterSkip
  <2>2. Running' = Running
    BY <1>11
  <2> QED
    BY <1>c, <2>1, <2>2 DEF SenderOwes, Unprepared
<1>12. CASE OtherStep
  <2>1. /\ UNCHANGED <<Buffer_number, Bufseq, fillBuffer, transportBuffer, monitor, snum, sender,
                       SendSem, sw>>
        /\ Running' = Running
        /\ \A t \in Threads, p \in BeginPlaces \cup EndPlaces : pc'[t] = p <=> pc[t] = p
    BY <1>12 DEF OtherStep, Elsewhere
  <2> QED
    BY <1>c, <2>1 DEF SenderOwes, Unprepared
<1> QED
  BY <1>1, <1>2, <1>3, <1>4, <1>5, <1>6, <1>7, <1>8, <1>9, <1>10, <1>11, <1>12, RunSteps
     DEF SessionStep, SenderStep

\* A message that follows the last one, with the number that goes with its buffer
\* or a late one, keeps the order of the numbers.
LEMMA OneMoreMessage ==
    ASSUME NEW M, NEW m \in Seq(M), NEW x \in M, NEW L, L = Len(m), M = [num : Nat, seq : Nat],
           \A i \in DOMAIN m : InOrder(m, i),
           x.seq = 1 \/ (L > 0 /\ m[L].seq = x.seq - 1 /\ m[L].num = x.seq),
           x.num = x.seq + 1 \/ x.num \in {0, 1}
    PROVE  \A i \in DOMAIN Append(m, x) : InOrder(Append(m, x), i)
<1> DEFINE n == Append(m, x)
<1>1. /\ L \in Nat /\ DOMAIN m = 1 .. L /\ Len(n) = L + 1 /\ DOMAIN n = 1 .. L + 1
      /\ \A i \in 1 .. L : n[i] = m[i]
      /\ n[L + 1] = x
  BY LenProperties, AppendProperties
<1>2. \A i \in 1 .. L : m[i].num \in Nat /\ m[i].seq \in Nat
  <2>1. \A i \in 1 .. L : m[i] \in M
    BY <1>1, ElementOfSeq
  <2> QED
    BY <2>1
<1> HIDE DEF n
<1> SUFFICES ASSUME NEW i \in 1 .. L + 1 PROVE InOrder(n, i)
  BY <1>1 DEF n
<1>3. CASE i = L + 1
  <2>1. n[i] = x /\ (L > 0 => n[i - 1] = m[L])
    BY <1>1, <1>3
  <2>2. x.num \in Nat /\ x.seq \in Nat
    OBVIOUS
  <2> QED
    BY <1>1, <1>2, <1>3, <2>1, <2>2 DEF InOrder
<1>4. CASE i \in 1 .. L
  <2>1. InOrder(m, i) /\ n[i] = m[i] /\ (i > 1 => n[i - 1] = m[i - 1])
    BY <1>1, <1>4
  <2>2. ASSUME i < L PROVE n[i + 1] = m[i + 1]
    <3>1. L \in Nat /\ \A j \in 1 .. L : n[j] = m[j]
      BY <1>1
    <3>2. i + 1 \in 1 .. L
      BY <1>4, <2>2, <3>1
    <3> QED
      BY <3>1, <3>2
  <2>3. i = L => n[i + 1] = x
    BY <1>1, <1>4
  <2>4. i < L \/ i = L
    BY <1>1, <1>4
  <2>5. x.num \in Nat /\ x.seq \in Nat
    OBVIOUS
  <2>6. n[i].seq = 1 \/ (i > 1 /\ n[i].seq = n[i - 1].seq + 1)
    BY <2>1 DEF InOrder
  <2>7. n[i].num = n[i].seq + 1 \/ (n[i].num \in {0, 1} /\ n[i + 1].seq = 1)
    <3>1. CASE i < L
      BY <1>1, <2>1, <2>2, <3>1 DEF InOrder
    <3>2. CASE i = L
      <4>1. m[L].num = m[L].seq + 1 \/ m[L].num \in {0, 1}
        BY <2>1, <3>2 DEF InOrder
      <4>2. x.seq = 1 \/ m[L].num = m[L].seq + 1
        <5>1. m[L].seq \in Nat
          BY <1>2, <1>4, <3>2
        <5>2. m[L].seq = x.seq - 1 => x.seq = m[L].seq + 1
          BY <2>5, <5>1
        <5> QED
          BY <5>2
      <4>3. n[i] = m[L] /\ n[i + 1] = x
        BY <2>1, <2>3, <3>2
      <4> QED
        BY <4>1, <4>2, <4>3
    <3> QED
      BY <2>4, <3>1, <3>2
  <2> QED
    BY <2>6, <2>7 DEF InOrder
<1> QED
  BY <1>1, <1>3, <1>4

LEMMA OneMoreAnnounced ==
    ASSUME monitor \in Seq([num : Nat, seq : Nat]), NumbersAnnounced,
           NEW n \in Nat, NEW s \in Nat, monitor' = Append(monitor, [num |-> n, seq |-> s]),
           Follows(s), n = s + 1 \/ n \in {0, 1}
    PROVE  /\ monitor' \in Seq([num : Nat, seq : Nat]) /\ NumbersAnnounced'
           /\ monitor'[Len(monitor')] = [num |-> n, seq |-> s] /\ Len(monitor') > 0
<1>1. PICK M : M = [num : Nat, seq : Nat]
  OBVIOUS
<1>2. PICK x \in M : x = [num |-> n, seq |-> s]
  BY <1>1
<1>3. PICK m \in Seq(M) : m = monitor
  BY <1>1
<1>4. \A i \in DOMAIN m : InOrder(m, i)
  BY <1>3 DEF NumbersAnnounced, InOrder
<1>5. x.seq = 1 \/ (Len(m) > 0 /\ m[Len(m)].seq = x.seq - 1 /\ m[Len(m)].num = x.seq)
  BY <1>2, <1>3 DEF Follows
<1>6. \A i \in DOMAIN Append(m, x) : InOrder(Append(m, x), i)
  BY <1>1, <1>2, <1>4, <1>5, OneMoreMessage
<1>7. monitor' = Append(m, x)
  BY <1>2, <1>3
<1>8. NumbersAnnounced'
  BY <1>6, <1>7 DEF NumbersAnnounced, InOrder
<1>9. /\ Append(m, x) \in Seq(M) /\ Len(Append(m, x)) = Len(m) + 1
      /\ Append(m, x)[Len(m) + 1] = x /\ Len(m) \in Nat
  BY AppendProperties, LenProperties
<1> QED
  BY <1>1, <1>2, <1>7, <1>8, <1>9

LEMMA SenderCountsStep ==
    ASSUME CalmOperation, PlainRuns, SenderKeepsUp, RunInv, SenderCounts, NumbersAnnounced,
           [RCNext]_allVars
    PROVE  SenderCounts' /\ NumbersAnnounced'
<1> USE DEF RunInv
<1>a. /\ fillBuffer \in Buffers /\ transportBuffer \in Buffers /\ fillBuffer # transportBuffer
      /\ Bufseq \in [Buffers -> Nat] /\ Buffer_number \in Nat /\ snum \in Nat
      /\ sender \in {"wait", "sending"}
      /\ sw \in [Threads -> {"out", "lockWrite", "lockSend", "swap", "unlockWrite", "unlockSend"}]
  BY DEF HandOverInv, BufferTypes, FileOfRun, ControlInv, ControlTypes
<1>1. CASE CountsApart
  <2>1. (\A s : Follows(s)' <=> Follows(s)) /\ NumbersAnnounced'
    BY <1>1 DEF CountsApart, Follows, NumbersAnnounced
  <2>2. CASE /\ Buffer_number' = Buffer_number /\ (Unprepared' <=> Unprepared)
             /\ At({"prepare"})' => At({"prepare"})
    BY <1>1, <2>1, <2>2 DEF CountsApart, SenderCounts
  <2>3. CASE Buffer_number' = 1 /\ Unprepared /\ Unprepared'
    BY <1>1, <2>1, <2>3 DEF CountsApart, SenderCounts
  <2>4. CASE Buffer_number' = 0 /\ Unprepared' /\ ~At({"prepare"})'
    BY <1>1, <2>1, <2>4 DEF CountsApart, SenderCounts
  <2> QED
    BY <1>1, <2>2, <2>3, <2>4, <2>1 DEF CountsApart
<1>2. ASSUME NEW t \in Threads, PrepareRun(t) PROVE SenderCounts' /\ NumbersAnnounced'
  <2>1. /\ UNCHANGED <<monitor, sender, SendSem, sw, Buffer_number>> /\ sender = "wait" /\ SendSem = 0
        /\ fillBuffer' = "Buffer1" /\ Bufseq' = [Bufseq EXCEPT !["Buffer1"] = Buffer_number]
        /\ pc[t] = "prepare" /\ pc' = [pc EXCEPT ![t] = "begrun"] /\ Running' = Running
    BY <1>2 DEF PrepareRun, PrepareNext, Goto
  <2>2. Buffer_number = 1
    BY <2>1 DEF SenderCounts, At
  <2>3. ~SenderOwes
    BY <2>1, SenderThrough DEF At
  <2>4. ~SenderOwes'
    BY <2>1, <2>3 DEF SenderOwes
  <2>5. ~At({"prepare"})'
    <3>1. \A u \in Threads : u # t => pc[u] # "prepare"
      BY <2>1, SessionAlone, HandOverParts DEF BeginPlaces
    <3> QED
      BY <2>1, <3>1, HandOverParts DEF At, PlaceTypes
  <2>6. Bufseq'[fillBuffer'] = 1
    BY <1>a, <2>1, <2>2 DEF Buffers
  <2>7. NumbersAnnounced'
    BY <2>1 DEF NumbersAnnounced
  <2> QED
    BY <2>1, <2>2, <2>4, <2>5, <2>6, <2>7 DEF SenderCounts, Follows
<1>3. ASSUME NEW t \in Threads, Switch(t), Swap(t)
      PROVE  SenderCounts' /\ NumbersAnnounced'
  <2>1. /\ UNCHANGED <<monitor, sender, SendSem>> /\ Buffer_number' = Buffer_number + 1
        /\ fillBuffer' = transportBuffer /\ transportBuffer' = fillBuffer
        /\ Bufseq' = [Bufseq EXCEPT ![transportBuffer] = Buffer_number + 1]
        /\ sw[t] = "swap" /\ sw' = [sw EXCEPT ![t] = "unlockWrite"]
    BY <1>3 DEF Swap, PrepareNext
  <2>2. ~Unprepared
    BY <2>1, BusyAlone DEF Busy
  <2>3. ~SenderOwes /\ sender = "wait"
    <3>1. \A u \in Threads : u # t => sw[u] = "out"
      BY <2>1, HandOverParts DEF Exclusive, Busy
    <3> QED
      BY <2>1, <3>1, HandOverParts DEF SendToken, SenderOwes
  <2>4. SenderOwes'
    BY <1>a, <2>1 DEF SenderOwes
  <2>5. Follows(Buffer_number) /\ Bufseq[fillBuffer] = Buffer_number
    BY <2>2, <2>3 DEF SenderCounts
  <2>6. Bufseq'[transportBuffer'] = Buffer_number /\ Bufseq'[fillBuffer'] = Buffer_number + 1
    BY <1>a, <2>1, <2>5
  <2>7. Follows(Bufseq[transportBuffer])'
    BY <2>1, <2>5, <2>6 DEF Follows
  <2>8. ~Unprepared' /\ ~At({"prepare"})'
    <3>1. /\ ~At({"open", "count", "prepare", "close", "reset"})
          /\ Running \/ pc[t] \in {"endrun", "flush"}
      BY <2>1, BusyAlone DEF Busy
    <3>2. pc' = pc /\ Running' = Running
      BY <1>3, InsideStays
    <3> QED
      BY <3>1, <3>2 DEF Unprepared, At, EndPlaces
  <2>9. NumbersAnnounced'
    BY <2>1 DEF NumbersAnnounced
  <2> QED
    BY <1>a, <2>1, <2>3, <2>4, <2>6, <2>7, <2>8, <2>9 DEF SenderCounts
<1>4. CASE (SenderTake \/ SenderDone) /\ UNCHANGED rcVars
  <2>0. /\ UNCHANGED <<Buffer_number, Bufseq, fillBuffer, transportBuffer, sw, pc>>
        /\ Running' = Running
    BY <1>4 DEF SenderTake, SenderDone
  <2>1. (Unprepared' <=> Unprepared) /\ (At({"prepare"})' <=> At({"prepare"}))
    BY <2>0 DEF Unprepared, At
  <2>2. CASE SenderTake
    <3>1. /\ SendSem = 1 /\ sender' = "sending" /\ snum' = Buffer_number /\ monitor' = monitor
      BY <2>2 DEF SenderTake
    <3>2. SenderOwes /\ SenderOwes'
      BY <3>1 DEF SenderOwes
    <3>3. (\A s : Follows(s)' <=> Follows(s)) /\ NumbersAnnounced'
      BY <3>1 DEF Follows, NumbersAnnounced
    <3> QED
      BY <1>a, <2>0, <2>1, <3>1, <3>2, <3>3 DEF SenderCounts
  <2>3. CASE SenderDone
    <3>1. /\ sender = "sending" /\ sender' = "wait" /\ sbuf = transportBuffer /\ snum' = snum
          /\ monitor' = Append(monitor, [num |-> snum, seq |-> Bufseq[transportBuffer]])
      BY <2>3 DEF SenderDone, ConsumersApart
    <3>2. SenderOwes /\ ~SenderOwes'
      BY <3>1, <2>3, HandOverParts DEF SenderDone, SenderOwes, SendToken
    <3>3. /\ Follows(Bufseq[transportBuffer])
          /\ snum = Bufseq[transportBuffer] + 1 \/ (Unprepared /\ snum \in {0, 1})
          /\ ~Unprepared => Bufseq[transportBuffer] = Buffer_number - 1
                            /\ Bufseq[fillBuffer] = Buffer_number
          /\ Bufseq[transportBuffer] \in Nat /\ monitor \in Seq([num : Nat, seq : Nat])
      BY <1>a, <3>1, <3>2 DEF SenderCounts
    <3>4. /\ monitor' \in Seq([num : Nat, seq : Nat]) /\ NumbersAnnounced' /\ Len(monitor') > 0
          /\ monitor'[Len(monitor')] = [num |-> snum, seq |-> Bufseq[transportBuffer]]
      BY <1>a, <3>1, <3>3, OneMoreAnnounced
    <3>5. ~Unprepared => Follows(Buffer_number)'
      BY <1>a, <2>0, <3>3, <3>4 DEF Follows
    <3> QED
      BY <2>0, <2>1, <3>1, <3>2, <3>3, <3>4, <3>5 DEF SenderCounts
  <2> QED
    BY <1>4, <2>2, <2>3
<1> QED
  BY <1>1, <1>2, <1>3, <1>4, NumberSteps

\* In every sequence of runs the monitors can tell by the announced numbers which
\* buffers make up a run: they count up from 2 with the buffers, but for the last
\* one of a run, which may be announced as 0 or 1.
THEOREM AnnouncedAcrossRuns ==
    ASSUME CalmOperation, PlainRuns, SenderKeepsUp PROVE RCSpec => []NumbersAnnounced
<1>1. ASSUME RCInit PROVE SenderCounts /\ NumbersAnnounced
  <2>1. /\ monitor = << >> /\ ~SenderOwes /\ sender = "wait" /\ Buffer_number = 0
        /\ \A t \in Threads : pc[t] = "idle"
        /\ Running = FALSE
    BY <1>1 DEF RCInit, SenderOwes
  <2>2. Unprepared /\ ~At({"prepare"})
    BY <2>1 DEF Unprepared, At, EndPlaces
  <2>3. NumbersAnnounced /\ monitor \in Seq([num : Nat, seq : Nat])
    BY <2>1, EmptySeq DEF NumbersAnnounced
  <2> QED
    BY <2>1, <2>2, <2>3 DEF SenderCounts
<1>2. RCInit => SenderCounts /\ NumbersAnnounced
  BY <1>1
<1>3. RunInv /\ SenderCounts /\ NumbersAnnounced /\ [RCNext]_allVars
          => SenderCounts' /\ NumbersAnnounced'
  BY SenderCountsStep
<1> QED
  BY <1>2, <1>3, RunInvariance, PTL DEF RCSpec

=============================================================================
