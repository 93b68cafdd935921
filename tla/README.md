# A formal model of the ddaq data acquisition

TLA+ modules, TLC runs and TLAPS proofs for the data path and the run control of
`ddaq_earth` (a derivative of RCDAQ), for its `datasink`, which collects the buffers
of several servers, and for the parts of `ddaq_earth_onlinelib` that read back what
was written and run the online monitor. File references are relative to the root of
the repository; `rcdaq.cc` without a directory is `src/ddaq_earth/src/rcdaq.cc`.

    tlc -workers 2 -config RunControl.cfg MCRunControl.tla     # one run
    tlapm BufferExchangeProofs.tla                             # one module of proofs

`PROJECT.json` lists the runs, the mutants that show that each property can
fail, the line of code behind every definition, the hazards and the findings.

## 1. The system

### Components

| Component | Where | State it keeps | Operations |
|---|---|---|---|
| Core of the DAQ | `rcdaq.cc` | two `daqBuffer`s and the pointers `fillBuffer`, `transportBuffer`; four mutexes used as semaphores; `Daq_Status`, `TheRun`, `Event_number`, `Buffer_number`, `outfile_fd`, `file_is_open`, `daq_open_flag`; `TriggerControl`, `TriggerSem`, `TriggerDone`, `Trigger_Todo`; limits `max_events`, `max_volume`; the device lists | `readout`, `switch_buffer`, `daq_begin`, `daq_end`, `daq_restart_new_file`, `daq_open`, `daq_close`, `daq_fake_trigger`, set-up calls |
| Buffer and event | `daqBuffer.cc`, `daqONCSEvent.cc`, `daqPRDFEvent.cc` | `max_length`, `max_size`, `left`, `current_index`, `has_end`, header words | `prepare_next`, `nextEvent`, `addSubevent`, `emptyEvent`, `addEoB`, `writeout`, `sendDataZmq`, `setMaxSize` |
| Devices | `daq_device_*.cc` | what they were created with | `max_length(etype)`, `put_data(etype, adr, length)`, `init`, `rearm`, `endrun` |
| Command server | `rcdaq_server.cc`, client `rcdaq_client.cc` | the zmq socket, the options | one request, one call into the core, one reply |
| Web control | `rcdaq_mg_server.cc` over the vendored `mongoose.cc` | a copy of the status for the page | polls the core, calls `daq_begin`, `daq_end` in its own thread |
| Trigger handlers | `TriggerHandler.h`, plugins | hardware | `wait_for_trigger`, `enable`, `disable`, `rearm` |
| Datasink | `datasink.cc` | `sink_data`, `flag_outfile`, `TheRun`, `outfile_fd`, `totalbytes`, `MaxFileSize`, statistics of each server | a data thread that receives, counts, writes and rolls over; a main thread that takes `daq_begin`, `daq_end`, `daq_open`, `daq_close`, `daq_set_maxvolume` |
| Reader library | `ddaq_earth_onlinelib/src` | position in file, block and buffer | `getNextEvent`, `oncsBuffer::getEvent`, `setup`, `decode` of subevents |
| Online monitor | `pmonitor.cc`, `pMutex.cc` | `theState`, `stopcondition`, `totalevents`, `runningTM`, the iterator | `pstart`, `pstop`, `prun`, `pwait`, `pprocess` |
| Digitizer plugins | `ddaq_earth_caenplugin`, `ddaq_earth_caenpadcplugin` | vendor handles | device and trigger interfaces |
| Examples, tools | `ddaq_earth_useranalysis`, `devtools`, scripts | none of its own | user code, documentation, upstream copies |

### Threads and how they meet

    trigger loop --TriggerSem--> EventLoop --readout()--> fillBuffer
        ^--------TriggerDone--------'                         |
                                                       switch_buffer()
    command threads (zmq, web): daq_begin, daq_end        |         |
        call readout() and switch_buffer() themselves   WriteSem  SendSem
                                                          v         v
                                                writebuffers   sendMonitorDataZmq
                                                 file(run)       zmq PUSH

* `daq_triggerloop` (rcdaq.cc:1195) hands each trigger to `EventLoop` through
  `TriggerSem` and waits for `TriggerDone`. `daq_fake_trigger` uses the same two.
* `EventLoop` (rcdaq.cc:1266) reads the event into the fill buffer. When the
  buffer is full, or at an adaptive flush, `switch_buffer` (rcdaq.cc:695) swaps
  the buffers and wakes the writer and the sender. It returns the way to go on:
  1 calls `daq_end()`, 2 calls `daq_restart_new_file()`, both in this thread.
* `daq_begin` and `daq_end` run in the thread that got the command and read the
  begin-run and end-run events themselves: three threads can call `readout` on
  the same globals. Nothing but the run status and `sleep(1)` keeps them apart.
* All four semaphores are mutexes that one thread locks and another unlocks.
* `sendMonitorDataZmq` of each server feeds the sockets of `datasink`, whose two
  threads share every global and lock nothing; its own commands and those of the
  servers are two streams that only the operator's script keeps in step.
* The file is read record by record by `fileEventiterator`, also while `writen`
  is at work on it; `pprocess` runs that iterator in a thread next to the prompt.

### What is hard here

The hand-over of two buffers among three threads; the end of a run against a
trigger that is still being handled; the automatic end and the rollover against
commands; a rollover that reuses buffers still in use; word counts at the last
word of a buffer; devices that return more than they promised; `write`, `open`
and the event sizes that fail half way; a file that is read behind a partial
write; two threads of `datasink` with one run number and one descriptor; a flag
that a thread sets only after it was started. `PROJECT.json` lists each of these
hazards with its line, the properties that watch it, and what they leave open.

### What makes each component correct

* Buffers: each kept event reaches the file and the monitors once and in order,
  unless a write failed, and then the gap before the next whole buffer shows it; a
  buffer does not change while it is being written or sent; nobody waits for ever.
* Words of a buffer: counters agree, nothing is placed past `max_size`, `writeout`
  stays inside the allocation, the reader finds the same events.
* Run control: one file is one run, begun and ended by its markers; a closed file
  stays as it is; readouts never overlap; the monitors can tell the buffers of a run
  by the announced numbers; calls return and the trigger loop terminates.
* Set-up: during a run the event sizes are those of the readlist.
* Datasink: every buffer that arrives with logging enabled is in one file, once and
  in order, across files too if nobody hurries; files do not mix runs.
* Monitor: every event is processed once and in order over any number of starts and
  stops; `pstop` stops the loop after the event at hand; `pwait` returns.
* File iterator: it hands out the buffers of the file, whole and in order; behind a
  damaged buffer it is in step again.

## 2. Modules

| Module | Models | Extends |
|---|---|---|
| `EventStream` | the promise: accepted events leave memory in order, once, unless a batch is lost | |
| `BufferExchange` | `readout`, `switch_buffer`, writer and sender around the two buffers | |
| `BufferExchangeProofs` | proofs: the inductive invariant of the exchange | `BufferExchange`, TLAPS |
| `BufferNumbersProofs` | proofs: numbers of buffers and events, stability, the two refinements of `EventStream` | `BufferExchangeProofs` |
| `RunControl` | `daq_begin`, `daq_end`, rollover, `EventLoop`, trigger loops, fake trigger, open and close, the readlist | `BufferExchange` |
| `RunControlProofs` | proofs: who can be where, and which file the writer has | `RunControl`, `BufferExchangeProofs` |
| `RunStreamProofs` | proofs: the events of a run, in its file and at the monitors | `RunControlProofs`, `BufferNumbersProofs` |
| `DaqBuffer` | the word counters of one buffer, with the devices that fill it | |
| `OncsReader` | `oncsBuffer::getEvent` over such a buffer | `DaqBuffer` |
| `DaqBufferProofs` | proofs: the words of a buffer, and what is read back | `OncsReader`, TLAPS |
| `Datasink` | the two threads of `datasink.cc`, its files and descriptors, the servers and sockets around it | |
| `DatasinkProofs` | proofs | `Datasink`, TLAPS |
| `FileIterator` | `writen` and `fileEventiterator` at the two ends of a file | |
| `FileIteratorProofs` | proofs | `FileIterator`, TLAPS |
| `Pmonitor` | the monitor's event loop and the commands at its prompt | |
| `PmonitorProofs` | proofs | `Pmonitor`, TLAPS |
| `MCBufferExchange`, `MCRunControl`, `MCDaqBuffer`, `MCDatasink`, `MCFileIterator`, `MCPmonitor` | instances for TLC | |

The inductive invariants are in the proof modules, and so are the rules of operation
(`CalmOperation`, `PlainRuns`) that some theorems assume. TLC checks an invariant
when the MC module of a run is made to extend the proof module.

The modules follow the data: `DaqBuffer` fills one buffer, `BufferExchange` and
`RunControl` hand buffers on, `FileIterator` takes them from the file and
`OncsReader` the events from a buffer, `Pmonitor` the events from the iterator;
`Datasink` is the other way out of `BufferExchange`. What one promises, the next
starts from: `StableWhileInUse` that a buffer is one unit for the file,
`ReadsBack` that it is one for the reader, `GapsShowLosses` that the numbers in a
file tell what is missing before a whole buffer. `Datasink` numbers the buffers of
a server in the order in which they were sent (`n`), which its properties need; the
number that the server announces with a buffer, which only the statistics use, is
in `RunControl` (`NumbersAnnounced`).

`DaqBuffer` and `BufferExchange` meet in one number: what is a count of words in
the first is `Capacity`, a number of events, in the second. `EmptyBufferFitsAll`
(any event fits into an empty buffer) is what makes `Capacity >= 1` true.

### BufferExchange

A mutex used as a semaphore is a variable that is 1 (unlocked) or 0. Every
thread `t` that calls `readout()` has a sub-machine `rd[t]`, and one for
`switch_buffer()`, `sw[t]`, with a state per blocking or shared step:

| Step | Code |
|---|---|
| `EnterReadout`, `NextEvent` | rcdaq.cc:1358-1371, `daqBuffer::nextEvent` |
| `BufferFull`, then `SwitchStep`, then `NextEvent` again | rcdaq.cc:1372-1377; its status is ignored |
| `KeepEvent`, `DropEmptyEvent` | rcdaq.cc:1379-1452, with the adaptive flush at its end |
| `LockWriteProtect`, `LockSendProtect`, `Swap`, `UnlockWrite`, `UnlockSend` | rcdaq.cc:703-717 |
| `WriterTake`, `WriterStore` or `WriterFail` or `WriterSkip`, `WriterRelease` | `writebuffers`, `daqBuffer::writeout`, `writen` |
| `SenderTake`, `SenderDone` | `sendMonitorDataZmq`, `daqBuffer::sendDataZmq` |

`DropEmptyEvent` is possible when no device has data for that event type or when
a device that could returns none. An adaptive flush depends on the clock and may
come after any event. In `Next` a thread calls `readout()` or `switch_buffer()`
only while no other is in there; `RunControl` replaces this assumption by the
real callers. `accepted`, `dropped` and `torn` are history variables.

A `write()` that fails may have written a first part of the buffer: `WriterFail`
notes it in `torn`. `file` holds the buffers that are whole in it, and
`GapsShowLosses` is about them: the numbers increase, and up to the last buffer the
writer is done with, those that are missing are the failed ones. It does not promise
that a reader learns of every loss: behind a lost last buffer there is nothing to
show a gap, and a torn buffer shifts those behind it (`FileIterator`).

### RunControl

`pc[t]` is where each thread is and `job[t]` in which function. `daq_begin` is
`DaqBegin`, `OpenFile` or `OpenFails`, `StartCounting`, `PrepareRun` or
`SizesFail`, the readout of the begin-run event, and `BeginDone`, which starts a
trigger loop. `daq_end` is `StartEnd`, `WakeUp` (the `sleep(1)` of
`disable_trigger` is over, the flag is toggled), the readout of the end-run
event, `Flush`, `AwaitWriter`, `CloseFile`, `ResetCounters`. A rollover runs
through the second part of `daq_end` and the first of `daq_begin` in the thread
of `EventLoop`. The file of run r is `file[r]`; `existing` are the names open()
with `O_EXCL` refuses.

The readlist is the number of its devices, `DeviceList`, and the number nextEvent()
sets room aside for, `Eventsize`. `create_device_mod` (rcdaq_server.cc:130) asks
for the run status once, then constructs the device, which takes its time, and
then `add_readoutdevice` appends it (`CreateDevice`, then `AddReadoutdevice` or
`DeviceRefused`). `SetEventsizes` is part of `PrepareRun` and of `SizesFail`.

Four constants name what the code leaves to timing. Each is a guard, and where
an assumption is FALSE the guard is gone:

| Constant | Assumption | Where the code relies on it |
|---|---|---|
| `SleepCovers` | the one second of `disable_trigger` is longer than the readout or rollover under way | rcdaq.cc:269 |
| `LoopsEnd` | `daq_begin` finds no trigger loop of an earlier run | rcdaq.cc:278 joins nobody |
| `BeginWaits` | `daq_begin` comes after the threads have finished with the previous run | rcdaq.cc:884 has no lock |
| `SenderKeepsUp` | the last buffer has been sent when the buffers are reset | rcdaq.cc:1084, :928 |

`SleepCovers` says that no readout of a trigger and no rollover is under way when
the sleep is over (`Quiet`), and nothing about the trigger loops: one that is in
`wait_for_trigger` of a plugin, or waits for a `TriggerDone` that nobody gives, may be
there when the sleep is over, and may still fire while the run ends. What it
must not do is to outlast the time until the next `daq_begin` (`LoopsEnd`). With
`LoopsEnd` FALSE TLC finds a loop of the run before that fires a trigger into the
begin-run readout (`ReadoutsDontOverlap`), as it does with `SleepCovers` FALSE for
the end-run readout.

`NumbersAnnounced` is about `Buffer_number`, which the sender reads when it runs
(rcdaq.cc:587) and not when the buffer was switched. `daq_end` and the rollover set it
to 0 and `daq_begin` to 1 without waiting for the sender, so that the last
buffer of a run can go out with 0 or 1; the property says that no other buffer does,
and that the others count up from 2 with the buffers of the run.

### DaqBuffer and OncsReader

The counters in 32-bit words, and of the memory the event headers (length, type,
sequence number) by index, the stale ones of earlier uses included: this is
what a reader that runs past the last event would find. `PutLengths` says how
many words each kind of device can return: a `random` device pads to an even
number, one more than it promised; the file devices fit their data into all the
room that is left.

In `OncsReader` each step of `DaqBuffer` goes on beside a reader that takes a closed
buffer and calls `GetEvent`, which is `oncsBuffer::getEvent` with its index, until it
returns nothing: `evt_index` is where it is and `found` what it has handed out. The
program reads a copy (the record in the file), so the buffer is used again only when
the reader is through.

The format is ONCS: `WRITEPRDF` is not defined in the build, so `daqPRDFEvent`
is never created by `rcdaq.cc`.

### Datasink

`main` and `data` are where the two threads are. Where they race for the run number
and the descriptor, a step is one access: `TheRun++` is a load and a store,
`open_file()` gets `TheRun` by value (the compiler may load it again or keep what it
stored), calls `open()`, and stores the descriptor, and `write()` and `close()` take
`outfile_fd` as it is by then. The flag and the descriptor are tested in one step
(`Test`): an orderly operator changes the flag only when the data thread has nothing
in hand.

| Step | Code (datasink.cc) |
|---|---|
| `CheckSink`, `Receive` | the test of `sink_data`, then the poll, which may last into the next run |
| `Test`, `Write` | logging enabled and `outfile_fd` not 0; then `write()` to what `outfile_fd` is by then, which may fail or fall short, and nothing comes of it |
| `RollClose`, `RollNext`, `RollNumber`, `RollCall`, `RollOpen` or `RollRefused`, `RollStore` or `GiveUp` | the next file when one is full; `exit(0)` if it exists |
| `DaqBegin`, `BeginZero` or `BeginNext` and `BeginNumber`, `BeginCall`, `BeginOpen` or `BeginRefused`, `BeginStore` | `daq_begin`, which closes no file, and goes on without one if `open()` is refused |
| `DaqEnd`, `DaqOpen`, `DaqClose` and `CloseFlag`, `SetMaxVolume` | the other commands that change what is written |
| `ServerBegin`, `Send`, `ServerEnd` | `daq_begin`, `sendMonitorDataZmq` and `daq_end` of rcdaq.cc as the sink sees them: `RunControl` has them in full |

`table` is the kernel's table of descriptors; open() takes the lowest free one, so
that a descriptor one thread closes is the one the other gets. Descriptor 0 is
standard input. `queue[s]` is what the sockets hold, in order; with `PubSub` a
message may be lost, without it the same steps are PUSH and PULL. The volume
(`totalbytes`, a sum that both threads set) is not counted: with a limit set any write
may fill the file, without one none does. The statistics of `daq_status` are not
modelled: one thread resets them while the other counts, and nothing but the
operator reads them. History variables: `hasty` records
a begin or end that came before the servers had ended and their buffers were dealt with,
`refused` the runs whose `daq_begin` got no file, `spoiled` the buffers on which
`write()` failed.

### FileIterator

The file is a sequence of half blocks, the coarsest unit in which a partial
`write()` can put the rest of the file off the grid of 8192 bytes. `WriteSome` and
`WriteFails` are the loop of `writen`; the reader is `read_next_buffer`
(fileEventiterator.cc:148) record by record, with a file that is closed or one
that grows (`online`). A data word at the beginning of a block that equals the
marker of a buffer is left out: no format prevents it, and the reader cannot tell.

### Pmonitor

Threads and prompt run one loop, `Get` to `Count`, with two ways out. The thread
takes `runningTM` and sets `running` only after `pstart()` has returned, so a quick
operator starts a second thread; `patient` says whether he waits. `Get` and
`Advance` part `getNextEvent()` where the mutex matters. `evt`, `nevents` and
`ncount` are locals, reset when they go out of scope. `Prun` next to a thread is
left out: nothing holds when both use the iterator.

## 3. Runs

| Run | Question | Instance and why it is enough |
|---|---|---|
| `BufferExchange` | Is anything lost, repeated, changed in use, or misnumbered in the hand-over? Does it implement `EventStream` for the file and the monitors? | 2 threads, 2 events per buffer, 5 events, 3 buffers: each buffer is used again after it was consumed, writes fail or break off, both consumers lag; with and without an output file |
| `DaqBuffer` | Do the counters hold to the last word, and does the reader find what was written? | the worst readlist the reserve covers, six odd random devices, sizes below, at and above a block, two uses of the memory |
| `RunControl` | Runs begun and ended by commands as fast as the guards allow (`BeginWaits` FALSE): is a file a whole run, are readouts apart, do the announced numbers tell the buffers of a run, and do the monitors get one `EventStream`? | 3 runs, 4 events, 2 per buffer: a run has full, flushed and empty buffers, and the last of one run meets the begin of the next; the open() of a run may fail |
| `RunControlAuto` | The same for the automatic end and the rollover, with logging switched on and off between runs | 9 events, `max_events` 4, 3 run numbers: two runs that both end by themselves, with logging switched in between, so that a second file is closed by an automatic end; two rollovers, then an automatic end in the third run. Not in it: three runs in a row that all end by themselves |
| `RunControlFaults` | With open() failing, runs refused for their sizes, reused numbers, automatic ends, fake triggers and devices created whenever the command allows: does a closed file stay as it is, and is there room for every device that is read out? | 2 run numbers, 3 events, `max_events` 3, one device, which may be constructed while a run begins or ends by itself |
| `RunControlLive` | Do `daq_begin`, `daq_end`, the rollover and `switch_buffer` return, does the trigger loop terminate, is every switched buffer written? | 2 runs, 2 events, open() may fail; 5 buffers, so that each of the two is used again |
| `Datasink` | Is a buffer in one file, once, in order; do files keep runs apart? | 1 server (the data thread takes one message at a time), 3 messages, 2 runs of the sink, 4 files, 3 descriptors for them; messages may be lost, writes fail; any write may fill its file once a volume is set |
| `FileIterator` | Does the reader get what was written, and how much does a failed write cost? | 4 buffers of 1 or 3 blocks: one lost, one hidden by it, one found again, one more; both readers |
| `Pmonitor` | Is every event processed once, can a loop be stopped, does `pwait` return? | 3 threads, 3 events, requests without a limit and of 2; quick and patient operators |
| `DaqBufferEmpty`, `EndTogglesRun`, `FakeTriggerHangs` | findings, see below | |

All bounds are guards: `EventBound` on the events, `BufferBound` on the buffers,
`RunBound` on the runs, `UseBound` on the uses of a buffer, `DeviceBound` on the
readlist, `SendBound` on the messages and `EpochBound` on the runs of the sink. Two
runs suffice to carry a buffer, a trigger loop or a writer from one run into the
next, and a third to close a file behind that; after it the same states come again but for the numbers,
since `daq_begin` resets the counters. `LoopSymmetry` and `ThreadSymmetry` are used
in safety runs only. The instances add a stuttering step in the final state, so that
deadlock is checked everywhere but in `RunControlFaults` and `FakeTriggerHangs`,
where a fake trigger can really leave the trigger loop waiting (see the findings),
and in `Datasink`, which exits when a rollover finds its file there.

`RoomForRunData` is about every readout but that of the end-run event. With the
automatic end that one is read after `DAQ_RUNNING` has been taken back, and a
command thread may put a device on the list meanwhile: there the code sets no room
aside. For two command threads, where one may begin a run while the other
constructs a device, the property does not hold either.

`RunsKeptApart` assumes an operator who is not `hasty`. `InOneFile` holds for hasty
operators as well, but for the order across files: a `daq_begin` that races a
rollover may store its file after the younger one of the data thread, and what
arrives later then goes to the older file; without the exception for haste TLC finds
just that. Nor does it hold for hasty operators once a `daq_begin` was refused its
file: then the buffers of another run can be the ones without a file.

`WrittenIsRead` speaks of files without failed writes, `DamageIsLocal` of the others.

`StableWhileInUse` holds in `RunControl` for a writer with an open file only: a
writer without one touches nothing, and the code relies on it.

### Fairness

`RCFairness` (run `RunControlLive`) is weak fairness of each thread once it is at
work: the kernel schedules every thread, `write()` returns, with or without an
error, and the zmq `send()` returns. The last is an assumption on the other side:
a PUSH socket without a peer blocks, and then `switch_buffer` and `daq_end` block
as well. A mutex that becomes free again and again goes to its waiter because
it has one waiter at a time. `wait_for_trigger` returns, with or without a
trigger. `FairSpec` of `Pmonitor` is weak fairness of each thread and of the
prompt: `getNextEvent()` and the user's `process_event()` return; the mutex goes
round a fixed set of threads while the prompt waits. Commands are not fair.

## 4. Proofs

Every invariant and action property of a passing run is proved for all values of
the constants; the bounds are constants too, so that the proofs hold for any of
them. Each proof has an inductive invariant that TLC checked on the
instance of the run first. What a theorem assumes beyond the `ASSUME` of its module
is in its statement. The theorems on `RunControl` are about `RCSpec`; the `MCSpec` of
its runs adds a step that changes nothing.

| Module | Inductive invariant | Gives | Assumes |
|---|---|---|---|
| `BufferExchangeProofs` | `IInv` | `TypeOK`, `NothingLost`, `MonitorSeesAll`, `ConsumersOwnTheirBuffer`, `SubeventsGoToOwnEvent`, `RetryFits` | |
| `BufferNumbersProofs` | `NumbersInv` | `GapsShowLosses`, `StableWhileInUse`, `ImplementsFileStream`, `ImplementsMonitorStream` | |
| `DaqBufferProofs` | `CInv` | `FitsInBuffer`, `TypeOK`, `Accounting`, `WriteoutInside` | `DevicesBehave` |
| | `EInv` | `EmptyBufferFitsAll` | |
| | `ReadInv` | `ReadsBack` | `DevicesBehave` |
| `RunControlProofs` | `ControlInv` | `ReadoutsDontOverlap` | `CalmOperation` |
| | with `SizesKnown` | `RoomForRunData` | `CalmOperation` |
| | `HandOverInv` | `RCTypeOK`, `ClosedFilesKept` | `CalmOperation` |
| `RunStreamProofs` | `RunInv` | `FileIsWholeRun`, `SubeventsGoToOwnEvent` | `CalmOperation`, `PlainRuns` |
| | | `StableWhileInUse`, `MonitorSeesAll`, `ImplementsAcrossRuns` | and `SenderKeepsUp` |
| | with `SenderCounts` | `NumbersAnnounced` | and `SenderKeepsUp` |
| | `MarkedInv` | `RunIsBracketed`, `MonitorIsBracketed` | and `enable_empty_event_flag = 1` (the second `SenderKeepsUp` too) |
| `DatasinkProofs` | `ApartInv` | `RunsKeptApart` | `Orderly` |
| | `OneFileInv` | `InOneFile` | `Orderly` |
| `FileIteratorProofs` | `IterInv` | `WrittenIsRead`, `DamageIsLocal` | |
| `PmonitorProofs` | `StreamInv`, `StopInv` | `EventsOnceInOrder`, `StopWorks` | |

### The double buffer

`NothingLost` is not inductive: it says nothing of who may touch which buffer.
`IInv` adds
* `Exclusive`: one thread is in `readout` or `switch_buffer`;
* `WriteToken` and `SendToken`: `WriteProtectSem`, `WriteSem`, the consumer and
  the thread inside the switch share one token, so that the transport buffer is
  swapped only when its consumer has finished;
* `Separate`: the fill and transport buffers differ, and a consumer works on the
  transport buffer, which is closed;
* `FillReady` and `SubeventsGoToOwnEvent`: the fill buffer has the current run
  number, it is empty at a second `nextEvent()`, and an open event has room.

`ExclusiveStep` and `TokenStep` prove the control part for every step. The data
part has one lemma for the steps that move no event (`QuietStep`) and one for each
that does: `KeepEventStep`, `SwapStep`, `WriterReleaseStep` and `SenderDoneStep`
state what the step does to `Stored`, `ForWriter` and `ForSender`. Two lemmas on
sequences carry the concatenations.

`NumbersInv` adds that the fill buffer has the number `Buffer_number`, the one in
flight the number before it, and that a failed write was one of a buffer the writer
is done with. The two refinements map each step (`StreamsStep`): `KeepEvent` is an
`Accept`, a release by a consumer a `Store` of the buffer in flight or, after a
failed write or without a file, a `Discard`; the rest stutters.

### Words of a buffer

`Capacity` proves `FitsInBuffer` for every size and every readlist whose
devices put at most six words per event beyond their promises and none behind a
file reader (`DevicesBehave`). The argument counts the reserve: `prepare_next` sets
`EOBLENGTH` = 4 words aside, `nextEvent` asks for four more, and the end-of-buffer
event takes two; the other six absorb the overrun. A device behind a file reader
breaks the premise, because the file reader measures itself against all the room
that is left. `EmptyBufferFits` needs no such premise: `set_eventsizes` refuses a
readlist whose promises do not fit, and only promises enter `nextEvent`. The
assumptions on `Promised` and `Overrun` are stated in the module; TLC evaluates
them, for the instance, in the run `DaqBuffer`.

`ReadInv` says of the memory what `getEvent` relies on: there is a sequence of places
(`Places`), one for each event kept and one for where they end, each place
as far behind the one before as the length word there says, and the headers at them
are those of the events. Operations write behind the last place only, whatever the
memory held there before. The reader (`Reading`) stands at one of the places and has
handed out the events below it; the places are an existential, so that nothing has
to be defined by recursion over the words.

### Run control

`CalmOperation` says when the code, which has no lock here, is right:
* one command thread besides `EventLoop`;
* `SleepCovers`: `disable_trigger` sleeps longer than the readout or rollover under
  way takes, and `LoopsEnd`: a trigger loop has left by the next `daq_begin`;
* runs are ended by commands (`max_events = 0`), or by themselves and never by
  `daq_end`, and then `daq_begin` waits (`BeginWaits`): by hand and automatically
  together is the finding `EndTogglesRun`;
* fake triggers only with `BeginWaits`: they can leave a trigger loop behind
  (the finding `FakeTriggerHangs`).

Runs ended by commands without fake triggers need no `BeginWaits`. Failing `open()`
and refused sizes, names that exist, devices created at any time and logging
switched on and off are all within `CalmOperation`.

`ControlInv` says which function a thread can be in at which place (`JobPlaces`),
that `EventLoop` rests while a command thread begins a run (`BeginAlone`), where the
run is active (`RunningPlaces`), and where the trigger is that a loop waits for:
announced, being read out, or done (`TriggerToken`). `SizesKnown` adds that
`Eventsize` is that of the readlist while a run is active, but for the moment in
`daq_begin` before the sizes are computed, and which readouts are outside a run.
`HandOverInv` adds the tokens of the double buffer for three threads that enter it,
and that the writer's descriptor is the open file or none.

`FileIsWholeRun` needs `PlainRuns`:
* run numbers of their own and event sizes that fit: a run that is refused for its
  sizes stays active with its file open, and its end-run event goes there from a
  buffer that still has the number of the run before;
* `open()` may fail in `daq_begin`, which then returns without a run (`BeginFails`),
  but not in a rollover, which goes on without a file (see the findings);
* no `daq_open` beside a fast `daq_begin`.

`RunInv` then follows the events: the file that is open
and the buffers on the way to it hold exactly the last events kept, those of the
run, numbered from 1 (`StreamIsRun`, `StreamCounts`); run numbers grow
(`NumbersGrow`); nothing is left in memory when a file is opened or closed
(`NothingLeft`). `MarkedInv` adds that begin-run and end-run events stand exactly
where the run number changes. The monitors' stream is proved only for a sender that
has sent the last buffer when the buffers are reset (`SenderKeepsUp`), which the
code leaves to timing; without it the property is false. With it the monitors get one
`EventStream` over all runs: `MonitorKinds` says of every step that it accepts one
event, or passes on the buffer that was sent, or leaves the stream as it is, for the
buffers that `daq_begin` and the rollover prepare anew are empty by then.

`AnnouncedAcrossRuns` follows the sender's buffer: `SenderCounts` says which number it
has, and that `Buffer_number` is one past it as long as the run is neither
ended nor rolled over, so that only the last buffer of a run can meet the reset.

### Datasink

`RunsKeptApart` needs `Dry` at the
moments a run begins or ends, that every descriptor a thread is about to write
to was opened in this run (`RightFile`), or, when `open()` was refused, is none: 0,
which refers to standard input as long as nobody has closed it (`StdinStays`).
`InOneFile` has the longest proof. `OneFileInv` says
* `InFlight`, `Filed`: what a server sent is in order along queue, data thread and
  file, and no buffer is in two files;
* `CreatedOnce`: `O_EXCL` makes every file new and every descriptor one of them;
* `FilesOpen`: with logging there is a file to write to whenever something may be
  written, and what one thread has opened but not stored is another descriptor,
  which the other thread does not close; this is the race for `outfile_fd`. A patient
  operator's run may have no file (`NoFileNow`), and then nothing is written and
  nothing rolls over;
* `LoggedFlag`, `AllThere`: what was sent with logging finds it enabled, and none
  is dropped between the test and `write()` but those `write()` failed on
  (`spoiled`) and those of runs without a file;
* `Newest`, `AcrossFiles`: without haste the file in use is the youngest.

Neither relies on the run number a thread passes to `open_file()`: with `O_EXCL`, a
number that another thread has changed or used in between makes `open()` fail, never
write over a file. `Orderly` is an operator who opens and closes between runs and not
before the first file: a `daq_close` during a run drops what arrives after it, as it
should, and one before the first file closes standard input (see the findings).

### File and monitor

`IterInv` places the buffers of the file (`Placed`: each as far as it was written)
and the reader among them: on the grid of records, each buffer found, ahead, being
read, or displaced (`Accounted`). `DamageIsLocal` is its value at the end.

`EventsOnceInOrder` alone does not say who is inside `getNextEvent()`. `StreamInv`
adds
* `Places`: the parts of the loop a thread and the prompt can be in;
* `Mutex`: a thread holds `runningTM` from `Lock` to its release, so at most one is
  in the loop (`OneInLoop`);
* `OpAlone`: when the prompt is in `prun()` there are no threads;
* `InHand`: the iterator is one event ahead of `process_event()` exactly while a
  loop has an event in hand, and that event is the one in between.

`StopInv` adds, for a patient operator, `OneActive` (one thread between `pstart()`
and the end of its loop, and the flag says so) and `StopHolds` (a `pstop()` stays in
force until its loop leaves; `late` is 0 before the last event and at most 1 after
it). The step lemmas split by who moves: commands (`StreamCommand`, `StopCommand`),
the steps outside the loop (`StreamOutside`) and those inside it (`StreamLoop`).

### Only model-checked

Liveness, which is out of the prover's reach: `CallsReturn`,
`TriggerLoopTerminates`, `SwitchCompletes`, `SwitchedIsWritten`, `WaitEnds`.

## 5. Findings

Each has a run in which TLC shows the behaviour.

* `DaqBufferEmpty`: a buffer without events, which the flush at the end of an
  empty run writes, is read back as one event: `getEvent` tests for the end of
  the buffer only behind an event it has handed out (oncsBuffer.cc:193).
* `EndTogglesRun`: `daq_end` clears its flag with `^=` (rcdaq.cc:1159) a second
  after it has tested it. By hand and by the automatic end together it makes the
  run active again.
* `FakeTriggerHangs`: a fake trigger next to a trigger loop can take its
  `TriggerDone`; the loop waits for ever.

Seen while modelling and without a run:

* `readout` takes back every event without data, begin-run and end-run events
  included, unless it is built with `ENABLE_EMPTY_EVENT`; the manual says that they
  are always there. The runs that state `RunIsBracketed` enable it.
* A rollover waits for the writer and not for the sender; the monitors miss the
  end of a run when they are slow (`MonitorIsBracketed` with `SenderKeepsUp` FALSE).
* A rollover whose `open()` fails is not noticed (rcdaq.cc:1299) and goes on in the
  buffers of the old run with the number of the next; the events kept from then on
  are under the old number, which the file closed before does not have.
* `max_volume` rolls over where the manual (rcdaq_doc.tex:1342) has it end the run;
  `max_events` counts the number of the next event, which begins at 1; the status
  says that a run has ended before its last buffer is on disk, and
  `wait_for_run_end.sh` polls that status.
* A run that ends by itself lets `create_device` through while its end-run event
  is read (above). The request `daq_clear_readlist` (rcdaq_server.cc:656) lists the
  readlist and clears nothing.
* `datasink`: a run number given with `daq_begin` is taken from the word
  `daq_begin` and becomes 0 (datasink.cc:237), the second such run has no file. A
  `daq_close` before the first file closes standard input; the next file gets
  descriptor 0, which the data thread takes for "no file", and nothing is written
  (the assumption `Orderly` excludes it).
* `datasink`: a `daq_begin` that races a rollover may store its new file after the
  data thread has stored a younger one: the older file is then the one in use, and
  buffers go into the files out of the order in which the files were created
  (`InOneFile` states the order across files for operators who are not hasty).
* `pstop()` before the thread is in its loop is lost or refused; a second
  `pstart()` before that starts a second thread, which goes on when the first ends.

## 6. What is not modelled

* Two threads in `daq_begin` at once (zmq and web): the check at rcdaq.cc:886 is
  without a lock and nothing holds once both have passed it. The runs have one
  command thread, and `EventLoop` beside it.
* `Daq_Status` as one word: `DAQ_READING` and `DAQ_RUNNING` are bits that two
  threads change without a lock. `Running` is a flag of its own.
* The event type of a fake trigger before the first real one (`CurrentEventType`
  is what the last handler left) and triggers of other types: all are DATAEVENT.
* `daq_shutdown`, elog, statistics, file rules and names, and the set-up requests
  other than `create_device`. The command server is one thread, one request after
  the other, with no state of its own; the client and the web pages have none.
* `datasink_multicorewrite.cc` and `datasink_nomulticore.cc`: they are not built.
  Of `datasink`, run types, the statistics and the volume shown by the status (the
  two threads set them without a lock); more than one server in the instance (the
  module takes a set).
* `prun` next to a thread, and `pclose`: the monitor's stream stays open.
* The iterators over sockets, lists and test events.
* Contents of events, PRDF, decoders, digitizers and presentation. These, the
  examples and copies under `devtools`, and the vendored `mongoose.cc`, are by far
  most of the lines of the repository: the decoders are pure functions of one
  event's words, `devtools` holds other programs, and the digitizer plugins drive
  vendor libraries that are not in the repository.

## 7. Plan

Done: `EventStream`, `BufferExchange`, `DaqBuffer`, `OncsReader`, `RunControl`,
`Datasink`, `FileIterator`, `Pmonitor`, and the proofs of section 4: the state
properties and action properties of all of them.

Next proofs:
1. `FileIsWholeRun` for the runs before a rollover whose `open()` fails.
2. `WrittenIsRead` and `ReadsBack` joined: a reader of the file gets the events.

Next models: two servers and a `daq_end` of all of them in `Datasink`;
`TriggerHandshake` as an abstract specification of `TriggerSem` and `TriggerDone`
that `RunControl` without fake triggers implements.
