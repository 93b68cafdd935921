---------------------------- MODULE BufferExchange ----------------------------
(***************************************************************************)
(* The double buffer of rcdaq.cc.  One thread at a time runs readout(),    *)
(* which packs events into the fill buffer; switch_buffer() hands a full   *)
(* buffer to two consumers at once, the writer thread (writebuffers) and   *)
(* the monitoring thread (sendMonitorDataZmq).                             *)
(*                                                                         *)
(* The hand-over uses four pthread mutexes as binary semaphores: a thread  *)
(* locks a mutex that another thread unlocks.  WriteSem and SendSem say    *)
(* "a buffer is ready", WriteProtectSem and SendProtectSem say "the        *)
(* transport buffer may be replaced".  1 is unlocked, 0 is locked, and     *)
(* unlocking an unlocked mutex leaves it unlocked.                         *)
(*                                                                         *)
(* The words of a buffer are abstracted to the sequence of its events;     *)
(* module DaqBuffer counts the words.  RunControl extends this module with *)
(* the threads that begin, end and roll over runs.                         *)
(***************************************************************************)
EXTENDS Integers, Sequences

CONSTANTS
    Threads,                  \* threads that may run readout or switch_buffer
    EventTypes,               \* event types that are read out
    ReadTypes,                \* types for which the readlist can return data
    enable_empty_event_flag,  \* 1: keep events without any subevent
    Capacity,                 \* events that fit into one buffer
    Fds,                      \* output files (the file of run r is r)
    DiskMayFail,              \* TRUE: write() may fail
    EventBound, BufferBound   \* bounds of the model, not of the code

ASSUME ExchangeAssumption ==
    /\ EventTypes \subseteq Nat /\ EventTypes # {}
    /\ ReadTypes \subseteq EventTypes
    /\ enable_empty_event_flag \in {0, 1}
    /\ Capacity \in Nat \ {0}
    /\ Fds \subseteq Nat \ {0}
    /\ DiskMayFail \in BOOLEAN
    /\ EventBound \in Nat
    /\ BufferBound \in Nat

Buffers == {"Buffer1", "Buffer2"}

\* An event as the reader of a file sees it: its header words.
Event == [run : Nat, type : EventTypes, num : Nat]

\* A buffer whose current_event is not one that nextEvent placed in it.
NoEvent == [run |-> 0, type |-> 0, num |-> 0]

VARIABLES
    WriteSem, SendSem, WriteProtectSem, SendProtectSem,
    fillBuffer, transportBuffer,  \* the two global pointers
    events,         \* events[b]: the complete events in buffer b
    header,         \* header[b]: the event nextEvent opened in b, or NoEvent
    has_end,        \* has_end[b]: 1 once the end-of-buffer event is in place
    Bufseq, Runnr,  \* sequence and run number in the header of each buffer
    Buffer_number, Event_number, TheRun, outfile_fd,
    rd, etype,      \* rd[t]: where t is in readout(), and its argument
    sw,             \* sw[t]: where t is in switch_buffer()
    writer, wbuf, wfd, \* the writer thread, its buffer and its file
    sender, sbuf, snum, \* the sender, its buffer and the number it announces
    file, fileBufs, \* file[f]: the events in the buffers that are whole in file
                    \* f; fileBufs[f]: the Bufseqs of these buffers
    monitor,        \* per buffer passed to zmq: announced number and Bufseq
    monitored,      \* the events in those buffers
    accepted,       \* history: every event kept by readout, in order
    dropped,        \* history: Bufseq of the buffers write() failed on...
    torn            \* ...and of those of which a first part is in the file

semVars    == <<WriteSem, SendSem, WriteProtectSem, SendProtectSem>>
bufVars    == <<fillBuffer, transportBuffer, events, header, has_end, Bufseq, Runnr>>
countVars  == <<Buffer_number, Event_number>>
runVars    == <<TheRun, outfile_fd>>
writerVars == <<writer, wbuf, wfd, file, fileBufs, dropped, torn>>
senderVars == <<sender, sbuf, snum, monitor, monitored>>
vars       == <<semVars, bufVars, countVars, runVars, rd, etype, sw,
                writerVars, senderVars, accepted>>

-----------------------------------------------------------------------------
(* daqBuffer *)

\* Mutant of HasRoom: the limit is off by one.
HasRoomOneMore(b) == Len(events[b]) <= Capacity

\* nextEvent() finds room; an event that was dropped gave its words back.
HasRoom(b) == Len(events[b]) < Capacity

\* Mutant of PrepareNext: the buffer is not emptied.
PrepareNextKeepsEvents(b, seq, run, ev, hd, he) ==
    /\ events' = ev
    /\ header'  = [hd EXCEPT ![b] = NoEvent]
    /\ has_end' = [he EXCEPT ![b] = 0]
    /\ Bufseq'  = [Bufseq EXCEPT ![b] = seq]
    /\ Runnr'   = IF run > 0 THEN [Runnr EXCEPT ![b] = run] ELSE Runnr

\* Mutant of PrepareNext: the run number of the buffer is not updated.
PrepareNextKeepsRun(b, seq, run, ev, hd, he) ==
    /\ events'  = [ev EXCEPT ![b] = << >>]
    /\ header'  = [hd EXCEPT ![b] = NoEvent]
    /\ has_end' = [he EXCEPT ![b] = 0]
    /\ Bufseq'  = [Bufseq EXCEPT ![b] = seq]
    /\ UNCHANGED Runnr

\* daqBuffer::prepare_next(seq, run) on buffer b, given the contents ev, hd,
\* he the buffers have otherwise.
PrepareNext(b, seq, run, ev, hd, he) ==
    /\ events'  = [ev EXCEPT ![b] = << >>]
    /\ header'  = [hd EXCEPT ![b] = NoEvent]
    /\ has_end' = [he EXCEPT ![b] = 0]
    /\ Bufseq'  = [Bufseq EXCEPT ![b] = seq]
    /\ Runnr'   = IF run > 0 THEN [Runnr EXCEPT ![b] = run] ELSE Runnr

-----------------------------------------------------------------------------
(* readout(), as the sub-machine rd[t] of the thread that calls it *)

\* t is inside readout() or switch_buffer().
Busy(t) == rd[t] # "out" \/ sw[t] # "out"

EnterReadout(t, e) ==
    /\ ~Busy(t)
    /\ rd'    = [rd EXCEPT ![t] = "nextEvent"]
    /\ etype' = [etype EXCEPT ![t] = e]

\* The event fits: nextEvent() writes its header.  After a switch the status
\* of the second nextEvent() is not looked at.
NextEvent(t) ==
    /\ rd[t] \in {"nextEvent", "retry"}
    /\ sw[t] = "out"
    /\ HasRoom(fillBuffer)
    /\ header' = [header EXCEPT ![fillBuffer] =
                    [run |-> Runnr[fillBuffer], type |-> etype[t], num |-> Event_number]]
    /\ rd' = [rd EXCEPT ![t] = "addSubevents"]
    /\ UNCHANGED <<semVars, fillBuffer, transportBuffer, events, has_end, Bufseq,
                   Runnr, countVars, runVars, etype, sw, writerVars, senderVars, accepted>>

\* It does not fit: readout() switches buffers and tries again.
BufferFull(t) ==
    /\ rd[t] = "nextEvent"
    /\ sw[t] = "out"
    /\ ~HasRoom(fillBuffer)
    /\ rd' = [rd EXCEPT ![t] = "retry"]
    /\ sw' = [sw EXCEPT ![t] = "lockWrite"]
    /\ UNCHANGED <<semVars, bufVars, countVars, runVars, etype, writerVars,
                   senderVars, accepted>>

\* The devices returned data, or empty events are kept.  When the adaptive
\* buffering time is over (timeUp) the buffer is switched before returning.
KeepEvent(t, timeUp) ==
    /\ rd[t] = "addSubevents"
    /\ sw[t] = "out"
    /\ enable_empty_event_flag = 1 \/ etype[t] \in ReadTypes
    /\ events'   = [events EXCEPT ![fillBuffer] = Append(@, header[fillBuffer])]
    /\ header'   = [header EXCEPT ![fillBuffer] = NoEvent]
    /\ accepted' = Append(accepted, header[fillBuffer])
    /\ Event_number' = Event_number + 1
    /\ rd' = [rd EXCEPT ![t] = "out"]
    /\ sw' = IF timeUp THEN [sw EXCEPT ![t] = "lockWrite"] ELSE sw
    /\ UNCHANGED <<semVars, fillBuffer, transportBuffer, has_end, Bufseq, Runnr,
                   Buffer_number, runVars, etype, writerVars, senderVars>>

\* No device returned anything: emptyEvent() takes the header back.
DropEmptyEvent(t) ==
    /\ rd[t] = "addSubevents"
    /\ sw[t] = "out"
    /\ enable_empty_event_flag = 0
    /\ header' = [header EXCEPT ![fillBuffer] = NoEvent]
    /\ rd' = [rd EXCEPT ![t] = "out"]
    /\ UNCHANGED <<semVars, fillBuffer, transportBuffer, events, has_end, Bufseq, Runnr,
                   countVars, runVars, etype, sw, writerVars, senderVars, accepted>>

-----------------------------------------------------------------------------
(* switch_buffer(), as the sub-machine sw[t] *)

EnterSwitch(t) ==
    /\ ~Busy(t)
    /\ sw' = [sw EXCEPT ![t] = "lockWrite"]

\* Mutant of LockWriteProtect: it does not wait for the writer.
LockWriteProtectNoWait(t) ==
    /\ sw[t] = "lockWrite"
    /\ WriteProtectSem' = 0
    /\ sw' = [sw EXCEPT ![t] = "lockSend"]
    /\ UNCHANGED <<WriteSem, SendSem, SendProtectSem, bufVars, countVars, runVars, rd,
                   etype, writerVars, senderVars, accepted>>

LockWriteProtect(t) ==
    /\ sw[t] = "lockWrite"
    /\ WriteProtectSem = 1
    /\ WriteProtectSem' = 0
    /\ sw' = [sw EXCEPT ![t] = "lockSend"]
    /\ UNCHANGED <<WriteSem, SendSem, SendProtectSem, bufVars, countVars, runVars, rd,
                   etype, writerVars, senderVars, accepted>>

\* Mutant of LockSendProtect: it does not wait for the sender.
LockSendProtectNoWait(t) ==
    /\ sw[t] = "lockSend"
    /\ SendProtectSem' = 0
    /\ sw' = [sw EXCEPT ![t] = "swap"]
    /\ UNCHANGED <<WriteSem, SendSem, WriteProtectSem, bufVars, countVars, runVars, rd,
                   etype, writerVars, senderVars, accepted>>

LockSendProtect(t) ==
    /\ sw[t] = "lockSend"
    /\ SendProtectSem = 1
    /\ SendProtectSem' = 0
    /\ sw' = [sw EXCEPT ![t] = "swap"]
    /\ UNCHANGED <<WriteSem, SendSem, WriteProtectSem, bufVars, countVars, runVars, rd,
                   etype, writerVars, senderVars, accepted>>

\* Mutant of Swap: addEoB() is left to the consumers.
SwapWithoutEoB(t) ==
    /\ sw[t] = "swap"
    /\ fillBuffer' = transportBuffer
    /\ transportBuffer' = fillBuffer
    /\ Buffer_number' = Buffer_number + 1
    /\ PrepareNext(transportBuffer, Buffer_number + 1, TheRun, events, header, has_end)
    /\ sw' = [sw EXCEPT ![t] = "unlockWrite"]
    /\ UNCHANGED <<semVars, Event_number, runVars, rd, etype, writerVars, senderVars,
                   accepted>>

\* Mutant of Swap: Buffer_number++ in place of ++Buffer_number.
SwapPostIncrement(t) ==
    /\ sw[t] = "swap"
    /\ fillBuffer' = transportBuffer
    /\ transportBuffer' = fillBuffer
    /\ Buffer_number' = Buffer_number + 1
    /\ PrepareNext(transportBuffer, Buffer_number, TheRun, events, header,
                   [has_end EXCEPT ![fillBuffer] = 1])
    /\ sw' = [sw EXCEPT ![t] = "unlockWrite"]
    /\ UNCHANGED <<semVars, Event_number, runVars, rd, etype, writerVars, senderVars,
                   accepted>>

\* addEoB() on the full buffer, exchange of the pointers, prepare_next() on
\* the empty one with the incremented Buffer_number.
Swap(t) ==
    /\ sw[t] = "swap"
    /\ fillBuffer' = transportBuffer
    /\ transportBuffer' = fillBuffer
    /\ Buffer_number' = Buffer_number + 1
    /\ PrepareNext(transportBuffer, Buffer_number + 1, TheRun, events, header,
                   [has_end EXCEPT ![fillBuffer] = 1])
    /\ sw' = [sw EXCEPT ![t] = "unlockWrite"]
    /\ UNCHANGED <<semVars, Event_number, runVars, rd, etype, writerVars, senderVars,
                   accepted>>

\* Mutant of UnlockWrite: the writer is not woken up.
UnlockWriteForgets(t) ==
    /\ sw[t] = "unlockWrite"
    /\ sw' = [sw EXCEPT ![t] = "unlockSend"]
    /\ UNCHANGED <<semVars, bufVars, countVars, runVars, rd, etype, writerVars,
                   senderVars, accepted>>

UnlockWrite(t) ==
    /\ sw[t] = "unlockWrite"
    /\ WriteSem' = 1
    /\ sw' = [sw EXCEPT ![t] = "unlockSend"]
    /\ UNCHANGED <<SendSem, WriteProtectSem, SendProtectSem, bufVars, countVars, runVars,
                   rd, etype, writerVars, senderVars, accepted>>

UnlockSend(t) ==
    /\ sw[t] = "unlockSend"
    /\ SendSem' = 1
    /\ sw' = [sw EXCEPT ![t] = "out"]
    /\ UNCHANGED <<WriteSem, WriteProtectSem, SendProtectSem, bufVars, countVars, runVars,
                   rd, etype, writerVars, senderVars, accepted>>

SwitchStep(t) ==
    \/ LockWriteProtect(t) \/ LockSendProtect(t) \/ Swap(t)
    \/ UnlockWrite(t) \/ UnlockSend(t)

ReadoutStep(t) ==
    \/ NextEvent(t) \/ BufferFull(t) \/ DropEmptyEvent(t)
    \/ \E timeUp \in BOOLEAN : KeepEvent(t, timeUp)

-----------------------------------------------------------------------------
(* writebuffers(): the writer thread *)

\* daqBuffer::writeout() and sendDataZmq() close a buffer that is still open.
SealTransport == has_end' = [has_end EXCEPT ![transportBuffer] = 1]

\* lock(WriteSem) returns; the thread evaluates outfile_fd and transportBuffer.
WriterTake ==
    /\ writer = "wait"
    /\ WriteSem = 1
    /\ WriteSem' = 0
    /\ writer' = "writing"
    /\ wbuf' = transportBuffer
    /\ wfd' = outfile_fd
    /\ IF outfile_fd # 0 THEN SealTransport ELSE UNCHANGED has_end
    /\ UNCHANGED <<SendSem, WriteProtectSem, SendProtectSem, fillBuffer, transportBuffer,
                   events, header, Bufseq, Runnr, countVars, runVars, rd, etype, sw,
                   file, fileBufs, dropped, torn, senderVars, accepted>>

WriterRelease ==
    /\ writer = "writing"
    /\ writer' = "wait"
    /\ WriteProtectSem' = 1
    /\ UNCHANGED <<WriteSem, SendSem, SendProtectSem, bufVars, countVars, runVars, rd,
                   etype, sw, wbuf, wfd, senderVars, accepted>>

\* writeout() of the whole buffer, then unlock(WriteProtectSem).
WriterStore ==
    /\ WriterRelease
    /\ wfd # 0
    /\ file' = [file EXCEPT ![wfd] = @ \o events[wbuf]]
    /\ fileBufs' = [fileBufs EXCEPT ![wfd] = Append(@, Bufseq[wbuf])]
    /\ UNCHANGED <<dropped, torn>>

\* write() fails: writen() gives up, before or behind a first part of the buffer,
\* and writebuffers() goes on all the same.
WriterFail ==
    /\ WriterRelease
    /\ wfd # 0
    /\ DiskMayFail
    /\ dropped' = dropped \cup {Bufseq[wbuf]}
    /\ torn' = torn \/ torn' = torn \cup {Bufseq[wbuf]}
    /\ UNCHANGED <<file, fileBufs>>

\* Logging is off: the buffer is not written anywhere.
WriterSkip ==
    /\ WriterRelease
    /\ wfd = 0
    /\ UNCHANGED <<file, fileBufs, dropped, torn>>

WriterStep == WriterTake \/ WriterStore \/ WriterFail \/ WriterSkip

-----------------------------------------------------------------------------
(* sendMonitorDataZmq(): the monitoring thread *)

\* lock(SendSem) returns; the thread evaluates transportBuffer and the global
\* Buffer_number, the arguments of sendDataZmq().
SenderTake ==
    /\ sender = "wait"
    /\ SendSem = 1
    /\ SendSem' = 0
    /\ sender' = "sending"
    /\ sbuf' = transportBuffer
    /\ snum' = Buffer_number
    /\ SealTransport
    /\ UNCHANGED <<WriteSem, WriteProtectSem, SendProtectSem, fillBuffer, transportBuffer,
                   events, header, Bufseq, Runnr, countVars, runVars, rd, etype, sw,
                   writerVars, monitor, monitored, accepted>>

\* Mutant of SenderDone: SendProtectSem stays locked.
SenderDoneKeepsLock ==
    /\ sender = "sending"
    /\ sender' = "wait"
    /\ monitor' = Append(monitor, [num |-> snum, seq |-> Bufseq[sbuf]])
    /\ monitored' = monitored \o events[sbuf]
    /\ UNCHANGED <<semVars, bufVars, countVars, runVars, rd, etype, sw, writerVars,
                   sbuf, snum, accepted>>

\* The four-part message is handed to zmq, then unlock(SendProtectSem).
SenderDone ==
    /\ sender = "sending"
    /\ sender' = "wait"
    /\ monitor' = Append(monitor, [num |-> snum, seq |-> Bufseq[sbuf]])
    /\ monitored' = monitored \o events[sbuf]
    /\ SendProtectSem' = 1
    /\ UNCHANGED <<WriteSem, SendSem, WriteProtectSem, bufVars, countVars, runVars, rd,
                   etype, sw, writerVars, sbuf, snum, accepted>>

SenderStep == SenderTake \/ SenderDone

-----------------------------------------------------------------------------
(* The exchange during one run.  Its clients do not overlap: a thread calls *)
(* readout() or switch_buffer() only while no other thread is inside one of *)
(* them.  rcdaq.cc has no lock that enforces it; RunControl examines it.    *)

Alone == \A t \in Threads : ~Busy(t)

CallReadout(t, e) ==
    /\ Alone
    /\ Event_number <= EventBound
    /\ EnterReadout(t, e)
    /\ UNCHANGED <<semVars, bufVars, countVars, runVars, sw, writerVars, senderVars,
                   accepted>>

\* The flush at the end of a run.
CallSwitch(t) ==
    /\ Alone
    /\ Buffer_number <= BufferBound
    /\ EnterSwitch(t)
    /\ UNCHANGED <<semVars, bufVars, countVars, runVars, rd, etype, writerVars,
                   senderVars, accepted>>

\* The mutexes as rcdaq_init() leaves them, the buffers as daq_begin() does.
Init ==
    /\ WriteSem = 0 /\ SendSem = 0
    /\ WriteProtectSem = 1 /\ SendProtectSem = 1
    /\ fillBuffer = "Buffer1" /\ transportBuffer = "Buffer2"
    /\ TheRun \in Fds
    /\ outfile_fd \in {0, TheRun}
    /\ events  = [b \in Buffers |-> << >>]
    /\ header  = [b \in Buffers |-> NoEvent]
    /\ has_end = [b \in Buffers |-> 0]
    /\ Bufseq  = [b \in Buffers |-> 1]
    /\ Runnr   = [b \in Buffers |-> IF b = "Buffer1" THEN TheRun ELSE 1]
    /\ Buffer_number = 1 /\ Event_number = 1
    /\ rd = [t \in Threads |-> "out"]
    /\ sw = [t \in Threads |-> "out"]
    /\ etype = [t \in Threads |-> CHOOSE e \in EventTypes : TRUE]
    /\ writer = "wait" /\ wbuf = "Buffer2" /\ wfd = 0
    /\ sender = "wait" /\ sbuf = "Buffer2" /\ snum = 0
    /\ file     = [f \in Fds |-> << >>]
    /\ fileBufs = [f \in Fds |-> << >>]
    /\ monitor = << >> /\ monitored = << >> /\ accepted = << >>
    /\ dropped = {} /\ torn = {}

Next ==
    \/ \E t \in Threads :
        \/ \E e \in EventTypes : CallReadout(t, e)
        \/ CallSwitch(t)
        \/ ReadoutStep(t)
        \/ SwitchStep(t)
    \/ WriterStep
    \/ SenderStep

Spec == Init /\ [][Next]_vars

-----------------------------------------------------------------------------
(* Properties *)

\* The writer (the sender) has yet to deal with the transport buffer.
WriterOwes ==
    \/ writer = "writing" \/ WriteSem = 1
    \/ \E t \in Threads : sw[t] = "unlockWrite"

\* The output file, if there is one: its events and their buffers' numbers.
Stored == IF outfile_fd = 0 THEN << >> ELSE file[outfile_fd]
StoredBufs == IF outfile_fd = 0 THEN << >> ELSE fileBufs[outfile_fd]

Increasing(s) == \A i, j \in DOMAIN s : i < j => s[i] < s[j]
Elements(s) == {s[i] : i \in DOMAIN s}

\* The number of the last buffer the writer is done with, 0 if there is none.
LastDone == Buffer_number - (IF WriterOwes THEN 2 ELSE 1)

SenderOwes ==
    \/ sender = "sending" \/ SendSem = 1
    \/ \E t \in Threads : sw[t] \in {"unlockWrite", "unlockSend"}

\* The events in memory that the file (the monitors) will get.
ForWriter == (IF WriterOwes THEN events[transportBuffer] ELSE << >>) \o events[fillBuffer]
ForSender == (IF SenderOwes THEN events[transportBuffer] ELSE << >>) \o events[fillBuffer]

\* Types of the variables; a buffer never holds more events than it has room for.
TypeOK ==
    /\ WriteSem \in {0, 1} /\ SendSem \in {0, 1}
    /\ WriteProtectSem \in {0, 1} /\ SendProtectSem \in {0, 1}
    /\ fillBuffer \in Buffers /\ transportBuffer \in Buffers
    /\ events \in [Buffers -> Seq(Event)]
    /\ \A b \in Buffers : Len(events[b]) <= Capacity
    /\ header \in [Buffers -> Event \cup {NoEvent}]
    /\ has_end \in [Buffers -> {0, 1}]
    /\ Bufseq \in [Buffers -> Nat] /\ Runnr \in [Buffers -> Nat]
    /\ Buffer_number \in Nat /\ Event_number \in Nat
    /\ TheRun \in Fds /\ outfile_fd \in {0, TheRun}
    /\ rd \in [Threads -> {"out", "nextEvent", "retry", "addSubevents"}]
    /\ etype \in [Threads -> EventTypes]
    /\ sw \in [Threads -> {"out", "lockWrite", "lockSend", "swap", "unlockWrite",
                           "unlockSend"}]
    /\ writer \in {"wait", "writing"} /\ wbuf \in Buffers /\ wfd \in {0, outfile_fd}
    /\ sender \in {"wait", "sending"} /\ sbuf \in Buffers /\ snum \in Nat
    /\ file \in [Fds -> Seq(Event)] /\ fileBufs \in [Fds -> Seq(Nat)]
    /\ monitor \in Seq([num : Nat, seq : Nat]) /\ monitored \in Seq(Event)
    /\ accepted \in Seq(Event) /\ dropped \in SUBSET Nat /\ torn \in SUBSET Nat

\* Every event readout() kept is in the output file, in the transport buffer
\* the writer has yet to store, or in the fill buffer: none is lost, stored
\* twice or out of order, however the three threads interleave in the
\* hand-over of switch_buffer(), unless a write() failed.
NothingLost ==
    outfile_fd # 0 /\ dropped = {} =>
        accepted = Stored \o ForWriter

\* The same for the monitoring stream: zmq gets every buffer, once, in order.
MonitorSeesAll ==
    accepted = monitored \o ForSender

\* A buffer that is being written or sent is not the one being filled, and
\* its end-of-buffer event is already there: writeout() and sendDataZmq()
\* would otherwise both append it to the buffer they share.
ConsumersOwnTheirBuffer ==
    /\ writer = "writing" => wbuf # fillBuffer /\ has_end[wbuf] = 1
    /\ sender = "sending" => sbuf # fillBuffer /\ has_end[sbuf] = 1

\* The four parts of buffer b that its words stand for.
SameBuffer(b) ==
    /\ events'[b] = events[b] /\ header'[b] = header[b]
    /\ has_end'[b] = has_end[b] /\ Bufseq'[b] = Bufseq[b]

UsedBuffersSame ==
    /\ writer = "writing" /\ wfd # 0 => SameBuffer(wbuf)
    /\ sender = "sending" => SameBuffer(sbuf)

\* While writeout() or sendDataZmq() reads a buffer, no step of any thread
\* changes that buffer.
StableWhileInUse == [][UsedBuffersSame]_vars

\* readout() ignores the status of its second nextEvent(): the buffer that
\* switch_buffer() has just prepared always has room, so that current_event
\* is never null when the devices are read.
RetryFits ==
    \A t \in Threads : rd[t] = "retry" /\ sw[t] = "out" => HasRoom(fillBuffer)

\* addSubevent() adds to the event this very readout() opened, with the
\* current run, type and event number in its header.
SubeventsGoToOwnEvent ==
    \A t \in Threads : rd[t] = "addSubevents" =>
        header[fillBuffer] = [run |-> TheRun, type |-> etype[t], num |-> Event_number]

\* The numbers of the buffers that are whole in the file increase, and up to the
\* last buffer the writer is done with the missing ones are exactly those whose
\* write() failed, the torn ones among them: before a whole buffer, a gap is as
\* long as what was lost there.  (Behind the last one nothing shows a loss, and
\* what a torn buffer does to those behind it is the subject of FileIterator.)
GapsShowLosses ==
    outfile_fd # 0 =>
        /\ Increasing(StoredBufs)
        /\ Elements(StoredBufs) = (1 .. LastDone) \ dropped
        /\ torn \subseteq dropped

\* A thread that enters switch_buffer() returns from it: the writer and the
\* sender always free the two "protect" mutexes again.
SwitchCompletes ==
    \A t \in Threads : sw[t] = "lockWrite" ~> sw[t] = "out"

\* A buffer switched while a file is open is eventually in that file (or its
\* write failed), also when the run is ended or rolled over at once.
SwitchedIsWritten ==
    \A f \in Fds, n \in 1 .. BufferBound :
        (outfile_fd = f /\ Buffer_number > n) ~>
            \/ n \in dropped
            \/ \E i \in DOMAIN fileBufs[f] : fileBufs[f][i] = n

-----------------------------------------------------------------------------
(* Refinement: both consumers see the abstract event stream.              *)

Payload == [run : Fds, type : EventTypes, num : 1 .. EventBound]

FileStream == INSTANCE EventStream WITH
    MayFail <- DiskMayFail, logging <- outfile_fd # 0,
    inMemory <- ForWriter, stored <- Stored

MonitorStream == INSTANCE EventStream WITH
    MayFail <- FALSE, logging <- TRUE,
    inMemory <- ForSender, stored <- monitored

\* Into the output file, the exchange delivers the abstract event stream.
ImplementsFileStream == FileStream!Spec

\* To the monitors, the exchange delivers the abstract stream without loss.
ImplementsMonitorStream == MonitorStream!Spec

=============================================================================
