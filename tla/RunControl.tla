------------------------------ MODULE RunControl ------------------------------
(***************************************************************************)
(* Runs in rcdaq.cc: daq_begin(), daq_end() and daq_restart_new_file()     *)
(* around the double buffer of BufferExchange, with the threads that       *)
(* trigger (daq_triggerloop), read out (EventLoop) and take commands (the  *)
(* zmq server, and the web server, which takes no lock in common with it). *)
(*                                                                         *)
(* Nothing in rcdaq.cc keeps these threads apart but timing: sleep(1) in   *)
(* disable_trigger(), and what the operator does.  Four constants name     *)
(* these assumptions; the properties say what holds under which of them.   *)
(***************************************************************************)
EXTENDS BufferExchange, FiniteSets, SequencesExt

CONSTANTS
    evt, Cmds,        \* the thread of EventLoop, and those that take commands
    Commands,         \* the commands in use
    Loops,            \* identities of the trigger loop threads
    RunNumbers,       \* arguments of daq_begin; 0 takes the next number
    max_events,       \* automatic end, 0 for none
    MaxVolume,        \* TRUE: max_volume is set
    OpenMayFail,      \* TRUE: open() of a new file may fail
    SizesMayFail,     \* TRUE: a readlist may need more than max_length
    RunBound,         \* bound of the model on TheRun
    DeviceBound,      \* bound of the model on the devices
    SleepCovers,      \* sleep(1) outlasts the readout or rollover under way
    LoopsEnd,         \* daq_begin finds no trigger loop of an earlier run
    BeginWaits,       \* daq_begin comes when the threads have come to rest
    SenderKeepsUp     \* a rollover finds the last buffer sent

DATAEVENT   == 1
BEGRUNEVENT == 9
ENDRUNEVENT == 12

ASSUME RunControlAssumption ==
    /\ evt \notin Cmds /\ Threads = {evt} \cup Cmds
    /\ Commands \subseteq {"daq_begin", "daq_end", "daq_open", "daq_close",
                           "daq_fake_trigger", "create_device"}
    /\ {DATAEVENT, BEGRUNEVENT, ENDRUNEVENT} \subseteq EventTypes
    /\ RunNumbers \subseteq Nat /\ max_events \in Nat
    /\ RunBound \in Nat /\ Fds = 1 .. RunBound /\ DeviceBound \in Nat

VARIABLES
    Running,         \* Daq_Status & DAQ_RUNNING
    TriggerControl, Trigger_Todo,
    TriggerSem, TriggerDone,  \* mutexes used as semaphores, 1 is unlocked
    daq_open_flag, file_is_open,
    DeviceList,      \* the number of devices on the readlist
    Eventsize,       \* the number of devices nextEvent() sets room aside for
    pc, job,         \* where each thread is, and in which function
    rstatus,         \* what the last readout() of EventLoop returned
    loop,            \* the trigger loop threads
    existing         \* the files there are

triggerVars == <<TriggerControl, Trigger_Todo, TriggerSem, TriggerDone, loop>>
readlist    == <<DeviceList, Eventsize>>
runFlags    == <<Running, daq_open_flag, file_is_open, existing, readlist>>
rcVars      == <<triggerVars, runFlags, pc, job, rstatus>>
allVars     == <<vars, rcVars>>

Goto(t, to) == pc' = [pc EXCEPT ![t] = to]

Finish(t) ==
    /\ pc'  = [pc EXCEPT ![t] = "idle"]
    /\ job' = [job EXCEPT ![t] = "none"]

\* Nothing of an earlier run is left to do.
AtRest ==
    /\ \A t \in Threads : pc[t] = "idle" /\ ~Busy(t)
    /\ \A l \in Loops : loop[l] = "none"
    /\ TriggerSem = 0 /\ WriteSem = 0 /\ SendSem = 0
    /\ writer = "wait" /\ sender = "wait"

-----------------------------------------------------------------------------
(* daq_begin(), and the second half of daq_restart_new_file()               *)

DaqBegin(t, irun) ==
    /\ "daq_begin" \in Commands /\ t \in Cmds /\ pc[t] = "idle"
    /\ BeginWaits => AtRest
    /\ LoopsEnd => \A l \in Loops : loop[l] = "none"
    /\ ~Running
    /\ TheRun' = IF irun = 0 THEN TheRun + 1 ELSE irun
    /\ TheRun' <= RunBound /\ Len(monitor) < BufferBound
    /\ job' = [job EXCEPT ![t] = "begin"]
    /\ Goto(t, "open")
    /\ UNCHANGED <<semVars, bufVars, countVars, outfile_fd, rd, etype, sw, writerVars,
                   senderVars, accepted, triggerVars, runFlags, rstatus>>

\* open_file() with O_EXCL, when logging is enabled.
OpenFile(t) ==
    /\ pc[t] = "open"
    /\ daq_open_flag => ~file_is_open /\ TheRun \notin existing
    /\ IF daq_open_flag
         THEN /\ outfile_fd' = TheRun
              /\ file_is_open' = TRUE
              /\ existing' = existing \cup {TheRun}
         ELSE UNCHANGED <<outfile_fd, file_is_open, existing>>
    /\ Goto(t, "count")
    /\ UNCHANGED <<semVars, bufVars, countVars, TheRun, rd, etype, sw, writerVars,
                   senderVars, accepted, triggerVars, Running, daq_open_flag, readlist, job, rstatus>>

\* The call returns -1.  A failing open() clears the descriptor.
OpenFails(t) ==
    /\ pc[t] = "open" /\ daq_open_flag
    /\ file_is_open \/ TheRun \in existing \/ OpenMayFail
    /\ outfile_fd' = IF file_is_open THEN outfile_fd ELSE 0
    /\ Finish(t)
    /\ UNCHANGED <<semVars, bufVars, countVars, TheRun, rd, etype, sw, writerVars,
                   senderVars, accepted, triggerVars, runFlags, rstatus>>

\* Counters to 1; the run is active from here on.
StartCounting(t) ==
    /\ pc[t] = "count"
    /\ Buffer_number' = 1 /\ Event_number' = 1
    /\ Running' = (Running \/ job[t] = "begin")
    /\ Goto(t, "prepare")
    /\ UNCHANGED <<semVars, bufVars, runVars, rd, etype, sw, writerVars, senderVars,
                   accepted, triggerVars, daq_open_flag, file_is_open, existing, readlist,
                   job, rstatus>>

\* set_eventsizes() sums up the readlist as it is now.
SetEventsizes == Eventsize' = DeviceList

\* The event sizes fit the buffers: Buffer1 is prepared and the begin-run
\* event is read.
PrepareRun(t) ==
    /\ pc[t] = "prepare"
    /\ SenderKeepsUp => sender = "wait" /\ SendSem = 0
    /\ SetEventsizes
    /\ fillBuffer' = "Buffer1" /\ transportBuffer' = "Buffer2"
    /\ PrepareNext("Buffer1", Buffer_number, TheRun, events, header, has_end)
    /\ EnterReadout(t, BEGRUNEVENT)
    /\ Goto(t, "begrun")
    /\ UNCHANGED <<semVars, countVars, runVars, sw, writerVars, senderVars, accepted,
                   triggerVars, Running, daq_open_flag, file_is_open, existing,
                   DeviceList, job, rstatus>>

\* They do not fit: return -1, with the run active and the file open.
SizesFail(t) ==
    /\ pc[t] = "prepare" /\ SizesMayFail
    /\ SetEventsizes
    /\ fillBuffer' = "Buffer1" /\ transportBuffer' = "Buffer2"
    /\ Finish(t)
    /\ UNCHANGED <<semVars, events, header, has_end, Bufseq, Runnr, countVars, runVars,
                   rd, etype, sw, writerVars, senderVars, accepted, triggerVars, Running,
                   daq_open_flag, file_is_open, existing, DeviceList, rstatus>>

\* enable_trigger() starts a trigger loop, daq_restart_new_file() does not.
BeginDone(t) ==
    /\ pc[t] = "begrun" /\ ~Busy(t)
    /\ IF job[t] = "begin"
         THEN /\ TriggerControl' = 1
              /\ \E l \in Loops : loop[l] = "none" /\ loop' = [loop EXCEPT ![l] = "check"]
         ELSE UNCHANGED <<TriggerControl, loop>>
    /\ Finish(t)
    /\ UNCHANGED <<vars, Trigger_Todo, TriggerSem, TriggerDone, runFlags, rstatus>>

BeginStep(t) ==
    \/ OpenFile(t) \/ OpenFails(t) \/ StartCounting(t) \/ PrepareRun(t)
    \/ SizesFail(t) \/ BeginDone(t)

-----------------------------------------------------------------------------
(* daq_end(), and the first half of daq_restart_new_file()                  *)

\* The check for an active run, then disable_trigger().
StartEnd(t) ==
    /\ Running
    /\ TriggerControl' = 0
    /\ job' = [job EXCEPT ![t] = "end"]
    /\ Goto(t, "sleep")
    /\ UNCHANGED <<vars, Trigger_Todo, TriggerSem, TriggerDone, loop, runFlags, rstatus>>

DaqEnd(t) ==
    /\ "daq_end" \in Commands /\ t \in Cmds /\ pc[t] = "idle"
    /\ StartEnd(t)

\* After max_events EventLoop calls daq_end() itself; there may be no run now.
AutoEnd ==
    /\ pc[evt] = "autoEnd"
    /\ \/ StartEnd(evt)
       \/ ~Running /\ Finish(evt) /\ UNCHANGED <<vars, triggerVars, runFlags, rstatus>>

\* Mutant of RollOver: no end-run event.
RollOverUnmarked ==
    /\ pc[evt] = "rollOver"
    /\ job' = [job EXCEPT ![evt] = "roll"]
    /\ Goto(evt, "endrun")
    /\ UNCHANGED <<vars, triggerVars, runFlags, rstatus>>

\* After max_volume it goes on with a new file.
RollOver ==
    /\ pc[evt] = "rollOver"
    /\ job' = [job EXCEPT ![evt] = "roll"]
    /\ EnterReadout(evt, ENDRUNEVENT)
    /\ Goto(evt, "endrun")
    /\ UNCHANGED <<semVars, bufVars, countVars, runVars, sw, writerVars, senderVars,
                   accepted, triggerVars, runFlags, rstatus>>

\* No readout of a trigger is under way, and no rollover.  A trigger loop may
\* well be left: wait_for_trigger() of a plugin may outlast the sleep.
Quiet == pc[evt] \notin {"reading", "rollOver"} /\ job[evt] # "roll"

\* Mutant of WakeUp: disable_trigger() without the sleep(1).
WakeUpAtOnce(t) ==
    /\ pc[t] = "sleep"
    /\ Running' = ~Running
    /\ EnterReadout(t, ENDRUNEVENT)
    /\ Goto(t, "endrun")
    /\ UNCHANGED <<semVars, bufVars, countVars, runVars, sw, writerVars, senderVars,
                   accepted, triggerVars, daq_open_flag, file_is_open, existing, readlist,
                   job, rstatus>>

\* sleep(1) returns; DAQ_RUNNING is toggled and the end-run event is read.
WakeUp(t) ==
    /\ pc[t] = "sleep"
    /\ SleepCovers => t = evt \/ Quiet
    /\ Running' = ~Running
    /\ EnterReadout(t, ENDRUNEVENT)
    /\ Goto(t, "endrun")
    /\ UNCHANGED <<semVars, bufVars, countVars, runVars, sw, writerVars, senderVars,
                   accepted, triggerVars, daq_open_flag, file_is_open, existing, readlist,
                   job, rstatus>>

\* Mutant of Flush: the last buffer is not flushed.
FlushNothing(t) ==
    /\ pc[t] = "endrun" /\ ~Busy(t)
    /\ Goto(t, "flush")
    /\ UNCHANGED <<vars, triggerVars, runFlags, job, rstatus>>

\* The buffer flush.
Flush(t) ==
    /\ pc[t] = "endrun" /\ ~Busy(t)
    /\ EnterSwitch(t)
    /\ Goto(t, "flush")
    /\ UNCHANGED <<semVars, bufVars, countVars, runVars, rd, etype, writerVars,
                   senderVars, accepted, triggerVars, runFlags, job, rstatus>>

\* Mutant of AwaitWriter: the file is closed without waiting for the writer.
AwaitNobody(t) ==
    /\ pc[t] = "flush" /\ ~Busy(t)
    /\ Goto(t, IF file_is_open THEN "close" ELSE "reset")
    /\ UNCHANGED <<vars, triggerVars, runFlags, job, rstatus>>

\* lock and unlock WriteProtectSem: the writer is done with the last buffer.
AwaitWriter(t) ==
    /\ pc[t] = "flush" /\ ~Busy(t)
    /\ file_is_open => WriteProtectSem = 1
    /\ Goto(t, IF file_is_open THEN "close" ELSE "reset")
    /\ UNCHANGED <<vars, triggerVars, runFlags, job, rstatus>>

CloseFile(t) ==
    /\ pc[t] = "close"
    /\ outfile_fd' = 0
    /\ file_is_open' = FALSE
    /\ Goto(t, "reset")
    /\ UNCHANGED <<semVars, bufVars, countVars, TheRun, rd, etype, sw, writerVars,
                   senderVars, accepted, triggerVars, Running, daq_open_flag, existing,
                   readlist, job, rstatus>>

\* Counters to 0; a rollover goes on with the next run number.
ResetCounters(t) ==
    /\ pc[t] = "reset"
    /\ Buffer_number' = 0 /\ Event_number' = 0
    /\ IF job[t] = "roll"
         THEN TheRun' = TheRun + 1 /\ Goto(t, "open") /\ UNCHANGED job
         ELSE Finish(t) /\ UNCHANGED TheRun
    /\ UNCHANGED <<semVars, bufVars, outfile_fd, rd, etype, sw, writerVars, senderVars,
                   accepted, triggerVars, runFlags, rstatus>>

EndStep(t) ==
    \/ WakeUp(t) \/ Flush(t) \/ AwaitWriter(t) \/ CloseFile(t) \/ ResetCounters(t)

-----------------------------------------------------------------------------
(* The trigger loops, fake triggers, EventLoop() and the logging commands   *)

SetTrigger == Trigger_Todo' = "DAQ_READ" /\ TriggerSem' = 1

LoopCheck(l) ==
    /\ loop[l] = "check"
    /\ loop' = [loop EXCEPT ![l] = IF TriggerControl = 1 THEN "fire" ELSE "none"]
    /\ UNCHANGED <<vars, TriggerControl, Trigger_Todo, TriggerSem, TriggerDone, runFlags,
                   pc, job, rstatus>>

\* wait_for_trigger() of a registered TriggerHandler comes back without one.
NoTrigger(l) ==
    /\ loop[l] = "fire"
    /\ loop' = [loop EXCEPT ![l] = "check"]
    /\ UNCHANGED <<vars, TriggerControl, Trigger_Todo, TriggerSem, TriggerDone, runFlags,
                   pc, job, rstatus>>

LoopFire(l) ==
    /\ loop[l] = "fire"
    /\ Len(accepted) < EventBound
    /\ SetTrigger
    /\ loop' = [loop EXCEPT ![l] = "wait"]
    /\ UNCHANGED <<vars, TriggerControl, TriggerDone, runFlags, pc, job, rstatus>>

LoopDone(l) ==
    /\ loop[l] = "wait" /\ TriggerDone = 1
    /\ TriggerDone' = 0
    /\ loop' = [loop EXCEPT ![l] = "check"]
    /\ UNCHANGED <<vars, TriggerControl, Trigger_Todo, TriggerSem, runFlags, pc, job,
                   rstatus>>

\* daq_fake_trigger(1, 0)
FakeTrigger(t) ==
    /\ "daq_fake_trigger" \in Commands /\ t \in Cmds /\ pc[t] = "idle"
    /\ Len(accepted) < EventBound
    /\ SetTrigger
    /\ Goto(t, "fake")
    /\ UNCHANGED <<vars, TriggerControl, TriggerDone, loop, runFlags, job, rstatus>>

FakeDone(t) ==
    /\ pc[t] = "fake" /\ TriggerDone = 1
    /\ TriggerDone' = 0
    /\ Goto(t, "idle")
    /\ UNCHANGED <<vars, TriggerControl, Trigger_Todo, TriggerSem, loop, runFlags, job,
                   rstatus>>

\* EventLoop gets TriggerSem during a run: with nothing to do it waits again.
EventTrigger ==
    /\ pc[evt] = "idle" /\ TriggerSem = 1 /\ Running
    /\ TriggerSem' = 0
    /\ IF Trigger_Todo = "DAQ_READ"
         THEN EnterReadout(evt, DATAEVENT) /\ Goto(evt, "reading")
         ELSE UNCHANGED <<rd, etype, pc>>
    /\ UNCHANGED <<semVars, bufVars, countVars, runVars, sw, writerVars, senderVars,
                   accepted, TriggerControl, Trigger_Todo, TriggerDone, loop, runFlags,
                   job, rstatus>>

\* "Run not active": reset_deadtime() lets the trigger loop go on.
NotActive ==
    /\ pc[evt] = "idle" /\ TriggerSem = 1 /\ ~Running
    /\ TriggerSem' = 0
    /\ Trigger_Todo' = "none"
    /\ TriggerDone' = 1
    /\ UNCHANGED <<vars, TriggerControl, loop, runFlags, pc, job, rstatus>>

\* What readout() returns once the event is in the buffer: 1 at max_events,
\* else 2 at max_volume, for data events of an active run.
ReturnCode(t, full) ==
    IF ~Running \/ etype[t] # DATAEVENT THEN 0
    ELSE IF max_events > 0 /\ Event_number' >= max_events THEN 1
    ELSE IF full THEN 2 ELSE 0

\* A step inside readout(); "full" means run_volume has reached max_volume.
Readout(t) ==
    /\ ReadoutStep(t)
    /\ \E full \in {FALSE, MaxVolume /\ TheRun < RunBound} :
         rstatus' = IF t = evt /\ rd[t] = "addSubevents" THEN ReturnCode(t, full) ELSE rstatus
    /\ UNCHANGED <<triggerVars, runFlags, pc, job>>

Switch(t) == SwitchStep(t) /\ UNCHANGED rcVars

\* Mutant of EventDone: without reset_deadtime().
EventDoneSilent ==
    /\ pc[evt] = "reading" /\ ~Busy(evt)
    /\ Trigger_Todo' = "none"
    /\ Goto(evt, CASE rstatus = 0 -> "idle" [] rstatus = 1 -> "autoEnd"
                   [] rstatus = 2 -> "rollOver")
    /\ UNCHANGED <<vars, TriggerControl, TriggerSem, TriggerDone, loop, runFlags, job,
                   rstatus>>

\* The event is in: reset_deadtime(), then what readout() asked for.
EventDone ==
    /\ pc[evt] = "reading" /\ ~Busy(evt)
    /\ Trigger_Todo' = "none"
    /\ TriggerDone' = 1
    /\ Goto(evt, CASE rstatus = 0 -> "idle" [] rstatus = 1 -> "autoEnd"
                   [] rstatus = 2 -> "rollOver")
    /\ UNCHANGED <<vars, TriggerControl, TriggerSem, loop, runFlags, job, rstatus>>

DaqOpen(t) ==
    /\ "daq_open" \in Commands /\ t \in Cmds /\ pc[t] = "idle" /\ ~Running
    /\ daq_open_flag' = TRUE
    /\ UNCHANGED <<vars, triggerVars, Running, file_is_open, existing, readlist, pc, job,
                   rstatus>>

DaqClose(t) ==
    /\ "daq_close" \in Commands /\ t \in Cmds /\ pc[t] = "idle" /\ ~Running
    /\ daq_open_flag' = FALSE
    /\ UNCHANGED <<vars, triggerVars, Running, file_is_open, existing, readlist, pc, job,
                   rstatus>>

-----------------------------------------------------------------------------
(* create_device: DeviceList and Eventsize are globals without a lock, and  *)
(* every readout() goes through DeviceList as it is by then.                *)

\* Mutant of CreateDevice: no check for an active run.
CreateDeviceAnytime(t) ==
    /\ "create_device" \in Commands /\ t \in Cmds /\ pc[t] = "idle"
    /\ Goto(t, "create")
    /\ UNCHANGED <<vars, triggerVars, runFlags, job, rstatus>>

\* create_device_mod() checks for an active run first, and then constructs the
\* device, which may take a while for real hardware.
CreateDevice(t) ==
    /\ "create_device" \in Commands /\ t \in Cmds /\ pc[t] = "idle" /\ ~Running
    /\ Goto(t, "create")
    /\ UNCHANGED <<vars, triggerVars, runFlags, job, rstatus>>

AddReadoutdevice(t) ==
    /\ pc[t] = "create" /\ DeviceList < DeviceBound
    /\ DeviceList' = DeviceList + 1
    /\ Goto(t, "idle")
    /\ UNCHANGED <<vars, triggerVars, Running, daq_open_flag, file_is_open, existing,
                   Eventsize, job, rstatus>>

\* The parameters are wrong, or the device already exists.
DeviceRefused(t) ==
    /\ pc[t] = "create"
    /\ Goto(t, "idle")
    /\ UNCHANGED <<vars, triggerVars, runFlags, job, rstatus>>

-----------------------------------------------------------------------------
\* What rcdaq_init() leaves behind; logging is enabled or not.
RCInit ==
    /\ WriteSem = 0 /\ SendSem = 0 /\ WriteProtectSem = 1 /\ SendProtectSem = 1
    /\ fillBuffer = "Buffer1" /\ transportBuffer = "Buffer2"
    /\ TheRun = 0 /\ outfile_fd = 0
    /\ events  = [b \in Buffers |-> << >>]
    /\ header  = [b \in Buffers |-> NoEvent]
    /\ has_end = [b \in Buffers |-> 0]
    /\ Bufseq  = [b \in Buffers |-> 1]
    /\ Runnr   = [b \in Buffers |-> 1]
    /\ Buffer_number = 0 /\ Event_number = 0
    /\ rd = [t \in Threads |-> "out"]
    /\ sw = [t \in Threads |-> "out"]
    /\ etype = [t \in Threads |-> DATAEVENT]
    /\ writer = "wait" /\ wbuf = "Buffer2" /\ wfd = 0
    /\ sender = "wait" /\ sbuf = "Buffer2" /\ snum = 0
    /\ file     = [f \in Fds |-> << >>]
    /\ fileBufs = [f \in Fds |-> << >>]
    /\ monitor = << >> /\ monitored = << >> /\ accepted = << >>
    /\ dropped = {} /\ torn = {}
    /\ Running = FALSE
    /\ TriggerControl = 0 /\ Trigger_Todo = "none" /\ TriggerSem = 0 /\ TriggerDone = 0
    /\ daq_open_flag \in BOOLEAN
    /\ file_is_open = FALSE /\ existing = {}
    /\ DeviceList = 0 /\ Eventsize = 0
    /\ pc  = [t \in Threads |-> "idle"]
    /\ job = [t \in Threads |-> "none"]
    /\ rstatus = 0
    /\ loop = [l \in Loops |-> "none"]

Command(t) ==
    \/ \E irun \in RunNumbers : DaqBegin(t, irun)
    \/ DaqEnd(t) \/ DaqOpen(t) \/ DaqClose(t) \/ FakeTrigger(t) \/ CreateDevice(t)

\* The steps a thread takes once it is at work.
ThreadStep(t) ==
    \/ BeginStep(t) \/ EndStep(t) \/ FakeDone(t) \/ Readout(t) \/ Switch(t)
    \/ AddReadoutdevice(t) \/ DeviceRefused(t)

EventLoopStep == EventTrigger \/ NotActive \/ EventDone \/ AutoEnd \/ RollOver

LoopStep(l) == LoopCheck(l) \/ NoTrigger(l) \/ LoopFire(l) \/ LoopDone(l)

RCNext ==
    \/ \E t \in Threads : Command(t) \/ ThreadStep(t)
    \/ EventLoopStep
    \/ \E l \in Loops : LoopStep(l)
    \/ (WriterStep \/ SenderStep) /\ UNCHANGED rcVars

RCSpec == RCInit /\ [][RCNext]_allVars

(***************************************************************************)
(* Fairness: the kernel schedules every thread, write() returns, and so    *)
(* does wait_for_trigger(); send() on a PUB socket drops instead of        *)
(* blocking.  (With PUSHPULL set it is a PUSH socket, whose send() blocks  *)
(* without a peer: then SenderStep is not fair.)  Commands are not fair:   *)
(* the operator may stop giving them.                                      *)
(***************************************************************************)
RCFairness ==
    /\ WF_allVars(WriterStep /\ UNCHANGED rcVars)
    /\ WF_allVars(SenderStep /\ UNCHANGED rcVars)
    /\ \A t \in Threads : WF_allVars(ThreadStep(t))
    /\ WF_allVars(EventLoopStep)
    /\ \A l \in Loops : WF_allVars(LoopStep(l))

RCFairSpec == RCSpec /\ RCFairness

-----------------------------------------------------------------------------
(* Properties *)

\* Types of the variables that this module adds or widens; across runs, too, a
\* buffer never holds more events than it has room for.
RCTypeOK ==
    /\ events \in [Buffers -> Seq(Event)]
    /\ \A b \in Buffers : Len(events[b]) <= Capacity
    /\ TheRun \in 0 .. RunBound /\ outfile_fd \in {0} \cup Fds
    /\ wfd \in {0} \cup Fds
    /\ Running \in BOOLEAN /\ TriggerControl \in {0, 1}
    /\ Trigger_Todo \in {"none", "DAQ_READ"}
    /\ TriggerSem \in {0, 1} /\ TriggerDone \in {0, 1}
    /\ daq_open_flag \in BOOLEAN /\ file_is_open \in BOOLEAN
    /\ existing \subseteq Fds
    /\ DeviceList \in 0 .. DeviceBound /\ Eventsize \in 0 .. DeviceBound
    /\ pc \in [Threads -> {"idle", "open", "count", "prepare", "begrun", "sleep", "endrun",
                           "flush", "close", "reset", "reading", "autoEnd", "rollOver",
                           "fake", "create"}]
    /\ job \in [Threads -> {"none", "begin", "end", "roll"}]
    /\ rstatus \in 0 .. 2
    /\ loop \in [Loops -> {"none", "check", "fire", "wait"}]

\* readout() and switch_buffer() work on globals without a lock: EventLoop and
\* the command threads are never inside them at the same time.
ReadoutsDontOverlap ==
    \A t, u \in Threads : t # u => ~Busy(t) \/ ~Busy(u)

\* The events readout() kept during run r follow each other, and they are s.
IsRun(r, s) ==
    \E m, n \in 0 .. Len(accepted) :
        /\ s = SubSeq(accepted, m + 1, n)
        /\ \A i \in DOMAIN accepted : accepted[i].run = r <=> i \in m + 1 .. n

\* A file that is no longer the output file holds every event readout() kept
\* during its run and no other, in buffers and with event numbers that count
\* from 1 (unless a write() failed).
FileIsWholeRun ==
    dropped = {} =>
        \A r \in existing \ {outfile_fd} :
            /\ IsRun(r, file[r])
            /\ \A i \in DOMAIN file[r] : file[r][i].num = i
            /\ \A i \in DOMAIN fileBufs[r] : fileBufs[r][i] = i

\* A file is never written to after daq_end() or a rollover has closed it.
ClosedFilesKept ==
    [][\A r \in existing : outfile_fd # r => file'[r] = file[r]]_allVars

\* The begin-run event is the first event of a finished file, the end-run
\* event is the last, and neither appears in between.
RunIsBracketed ==
    dropped = {} =>
        \A r \in existing \ {outfile_fd} :
            LET types == [i \in DOMAIN file[r] |-> file[r][i].type]
                n == Len(types)
            IN n > 0 => \A i \in 1 .. n :
                    /\ types[i] = BEGRUNEVENT <=> i = 1
                    /\ types[i] = ENDRUNEVENT <=> i = n

\* The same for the stream that feeds the monitors: it changes from one run to
\* the next between an end-run and a begin-run event.
MonitorIsBracketed ==
    \A i \in 2 .. Len(monitored) :
        monitored[i].run # monitored[i - 1].run =>
            monitored[i - 1].type = ENDRUNEVENT /\ monitored[i].type = BEGRUNEVENT

\* Across runs, too, the monitors get the abstract event stream without loss:
\* daq_begin() and a rollover prepare the buffers anew only when what was in them
\* has been sent.
MonitorsAcrossRuns == INSTANCE EventStream WITH
    Payload <- Event, MayFail <- FALSE, logging <- TRUE,
    inMemory <- ForSender, stored <- monitored
ImplementsAcrossRuns == MonitorsAcrossRuns!Spec

\* daq_end() ends the run: once it has changed the status, no run is active
\* until it is through.
EndStopsRun ==
    \A t \in Threads :
        job[t] = "end" /\ pc[t] \in {"endrun", "flush", "close", "reset"} => ~Running

\* Up to the end of its run, a readout has room for all the devices it goes
\* through: the readlist has not grown since the sizes were computed, although a
\* device may be on its way in while a run ends by itself, and although a begin
\* that failed leaves a run active.  (The end-run event of an automatic end is
\* the one without such room: create_device sees no active run by then.)
RoomForRunData ==
    \A t \in Threads : Busy(t) /\ etype[t] # ENDRUNEVENT => Eventsize = DeviceList

\* The number announced with a buffer is one past that of the buffer, in the
\* order of the buffers of a run from 1 on.  Only the last buffer of a run may
\* go out with another: Buffer_number is global, and daq_end(), a rollover and
\* the next daq_begin() set it without waiting for the sender, to 0 and to 1.
NumbersAnnounced ==
    \A i \in DOMAIN monitor :
        /\ monitor[i].seq = 1 \/ (i > 1 /\ monitor[i].seq = monitor[i - 1].seq + 1)
        /\ \/ monitor[i].num = monitor[i].seq + 1
           \/ /\ monitor[i].num \in {0, 1}
              /\ i < Len(monitor) => monitor[i + 1].seq = 1

\* daq_begin(), daq_end() and the rollover return.
CallsReturn ==
    \A t \in Threads : job[t] # "none" ~> job[t] = "none"

\* TriggerControl = 0 makes the trigger process terminate.
TriggerLoopTerminates ==
    TriggerControl = 0 ~> (\A l \in Loops : loop[l] = "none") \/ TriggerControl = 1

=============================================================================
