------------------------------- MODULE Datasink -------------------------------
(***************************************************************************)
(* datasink.cc: a program of its own that collects the buffers of several  *)
(* rcdaq servers in one file per run.  Its data thread, datasink(), takes  *)
(* the messages from a zmq socket, writes them, and opens a new file when  *)
(* one is full; its main thread obeys daq_begin, daq_end, daq_open,        *)
(* daq_close and daq_set_maxvolume.  The two share everything and lock     *)
(* nothing (DataSinkSem is never used).                                    *)
(*                                                                         *)
(* Of a server, rcdaq.cc, there is what the sink sees of it: it sends      *)
(* buffers from its daq_begin on, and one more after its daq_end.  With    *)
(* PUSH and PULL sockets its messages arrive in order; with PUB and SUB    *)
(* some may be lost.  How the sink counts the messages, for daq_status, is *)
(* left out.                                                               *)
(***************************************************************************)
EXTENDS Integers, FiniteSets, Functions, SequencesExt

CONSTANTS
    Servers,
    NoFile, Stdin,    \* what a closed descriptor and descriptor 0 refer to
    Fds,              \* 0 and the descriptors files can get, lowest first
    PubSub,           \* the sockets are PUB and SUB, which may lose messages
    Orderly,          \* daq_open and daq_close come between runs, and
                      \* daq_close when a file has been opened
    SendBound,        \* bound of the model on the buffers of all servers
    EpochBound,       \* bound of the model on the uses of daq_begin
    RunBound          \* bound of the model on the run numbers

ASSUME DatasinkAssumption ==
    /\ Fds \subseteq Nat /\ 0 \in Fds
    /\ SendBound \in Nat /\ EpochBound \in Nat /\ RunBound \in Nat
    /\ PubSub \in BOOLEAN /\ Orderly \in BOOLEAN
    /\ NoFile \notin Nat /\ Stdin \notin Nat /\ NoFile # Stdin

VARIABLES
    serving, queue,          \* a server: where it is in a run, its messages
    sink_data, flag_outfile, MaxFileSize, TheRun, outfile_fd,
    table, content, created, \* descriptors, files, their order of creation
    main, mfd, mrun,         \* the main thread, its descriptor and run number
    data, msg, dfd, drun,    \* the data thread, and the message it holds
    epoch, fileEpoch,        \* history: runs of the sink, and that of a file;
    sent, lost,              \* the buffers of each server, those zmq dropped
    hasty, refused,          \* a command came too early; runs without a file
    spoiled                  \* the buffers on which write() failed

serverVars == <<serving, queue>>
fileVars   == <<table, content, created, fileEpoch>>
flags      == <<sink_data, flag_outfile, MaxFileSize>>
mainVars   == <<main, mfd, mrun>>
dataVars   == <<data, msg, dfd, drun>>
history    == <<epoch, sent, lost, hasty>>
vars == <<serverVars, flags, TheRun, outfile_fd, fileVars, mainVars, dataVars,
          history, refused, spoiled>>

\* No server is in a run and everything sent has been dealt with.
Dry ==
    /\ \A s \in Servers : serving[s] = "stopped" /\ queue[s] = << >>
    /\ data \in {"check", "poll"}

-----------------------------------------------------------------------------
(* The servers                                                              *)

\* The script that runs the experiment starts them when the sink has answered,
\* and when the last buffer of their last run has been sent.
ServerBegin(s) ==
    /\ serving[s] = "stopped" /\ sink_data /\ main = "idle" /\ data # "exited"
    /\ serving' = [serving EXCEPT ![s] = "running"]
    /\ UNCHANGED <<queue, flags, TheRun, outfile_fd, fileVars, mainVars, dataVars,
                   history, refused, spoiled>>

\* sendDataZmq(), on a server's own thread.
Send(s) ==
    LET b == [srv |-> s, n |-> Len(sent[s]) + 1, run |-> epoch, logged |-> flag_outfile]
    IN  /\ serving[s] # "stopped"
        /\ SumFunction([x \in Servers |-> Len(sent[x])]) < SendBound
        /\ serving' = [serving EXCEPT ![s] = IF @ = "ending" THEN "stopped" ELSE @]
        /\ sent'    = [sent EXCEPT ![s] = Append(@, b)]
        /\ \/ queue' = [queue EXCEPT ![s] = Append(@, b)] /\ UNCHANGED lost
           \/ PubSub /\ lost' = lost \cup {b} /\ UNCHANGED queue
        /\ UNCHANGED <<flags, TheRun, outfile_fd, fileVars, mainVars, dataVars, epoch,
                       hasty, refused, spoiled>>

\* daq_end() flushes the last buffer and does not wait until it is sent.
ServerEnd(s) ==
    /\ serving[s] = "running"
    /\ serving' = [serving EXCEPT ![s] = "ending"]
    /\ UNCHANGED <<queue, flags, TheRun, outfile_fd, fileVars, mainVars, dataVars,
                   history, refused, spoiled>>

-----------------------------------------------------------------------------
(* open_file() and the kernel                                               *)

\* Mutant of CanOpen: without O_EXCL.
CanOpenAny(run) == \E fd \in Fds : table[fd] = NoFile

CanOpen(run) == run \notin ToSet(created) /\ \E fd \in Fds : table[fd] = NoFile

LowestFd == CHOOSE fd \in Fds : table[fd] = NoFile /\ \A x \in Fds : table[x] = NoFile => fd <= x

CreateFile(run) ==
    /\ table'     = [table EXCEPT ![LowestFd] = run]
    /\ content'   = [content EXCEPT ![run] = << >>]
    /\ created'   = Append(created, run)
    /\ fileEpoch' = [fileEpoch EXCEPT ![run] = epoch]

CloseFd(fd) == table' = [table EXCEPT ![fd] = NoFile]

-----------------------------------------------------------------------------
(* The main thread                                                          *)

Listens == main = "idle" /\ data # "exited"

\* The operator's haste is noted where runs could mix.
DaqBegin(arg) ==
    /\ Listens /\ epoch < EpochBound
    /\ sink_data' = TRUE
    /\ main' = IF arg THEN "zero" ELSE "next"
    /\ epoch' = epoch + 1
    /\ hasty' = (hasty \/ ~Dry)
    /\ UNCHANGED <<serverVars, flag_outfile, MaxFileSize, TheRun, outfile_fd, fileVars,
                   mfd, mrun, dataVars, sent, lost, refused, spoiled>>

\* A run number given makes atoi() parse the word daq_begin.
BeginZero ==
    /\ main = "zero"
    /\ TheRun' = 0 /\ mrun' = 0
    /\ main' = "call"
    /\ UNCHANGED <<serverVars, flags, outfile_fd, fileVars, mfd, dataVars, history,
                   refused, spoiled>>

\* TheRun++, a load and a store.
BeginNext ==
    /\ main = "next" /\ TheRun < RunBound
    /\ mrun' = TheRun + 1
    /\ main' = "number"
    /\ UNCHANGED <<serverVars, flags, TheRun, outfile_fd, fileVars, mfd, dataVars,
                   history, refused, spoiled>>

BeginNumber ==
    /\ main = "number"
    /\ TheRun' = mrun
    /\ main' = "call"
    /\ UNCHANGED <<serverVars, flags, outfile_fd, fileVars, mfd, mrun, dataVars, history,
                   refused, spoiled>>

\* open_file() gets TheRun by value, loaded again or not.
BeginCall ==
    /\ main = "call"
    /\ mrun' \in {mrun, TheRun}
    /\ main' = IF flag_outfile THEN "open" ELSE "idle"
    /\ UNCHANGED <<serverVars, flags, TheRun, outfile_fd, fileVars, mfd, dataVars,
                   history, refused, spoiled>>

BeginOpen ==
    /\ main = "open" /\ CanOpen(mrun)
    /\ CreateFile(mrun)
    /\ mfd' = LowestFd
    /\ main' = "store"
    /\ UNCHANGED <<serverVars, flags, TheRun, outfile_fd, mrun, dataVars, history,
                   refused, spoiled>>

\* The run goes on without a file.
BeginRefused ==
    /\ main = "open" /\ ~CanOpen(mrun)
    /\ mfd' = 0
    /\ main' = "store"
    /\ refused' = refused \cup {epoch}
    /\ UNCHANGED <<serverVars, flags, TheRun, outfile_fd, fileVars, mrun, dataVars,
                   history, spoiled>>

\* Mutant of BeginStore: a descriptor once stored is kept.
BeginStoreOnce ==
    /\ main = "store"
    /\ outfile_fd' = (IF outfile_fd = 0 THEN mfd ELSE outfile_fd)
    /\ main' = "idle" /\ mfd' = 0 /\ mrun' = 0
    /\ UNCHANGED <<serverVars, flags, TheRun, fileVars, dataVars, history, refused, spoiled>>

\* The descriptor of an earlier file stays open; what is local to the call ends.
BeginStore ==
    /\ main = "store"
    /\ outfile_fd' = mfd
    /\ main' = "idle" /\ mfd' = 0 /\ mrun' = 0
    /\ UNCHANGED <<serverVars, flags, TheRun, fileVars, dataVars, history, refused, spoiled>>

\* Nothing is waited for and nothing closed.
DaqEnd ==
    /\ Listens
    /\ sink_data' = FALSE
    /\ hasty' = (hasty \/ ~Dry)
    /\ UNCHANGED <<serverVars, flag_outfile, MaxFileSize, TheRun, outfile_fd, fileVars,
                   mainVars, dataVars, epoch, sent, lost, refused, spoiled>>

\* rcdaq itself refuses it in a run, and so does an orderly operator.
DaqOpen ==
    /\ Listens
    /\ Orderly => ~sink_data /\ Dry
    /\ flag_outfile' = TRUE
    /\ UNCHANGED <<serverVars, sink_data, MaxFileSize, TheRun, outfile_fd, fileVars,
                   mainVars, dataVars, history, refused, spoiled>>

\* outfile_fd keeps the number of the closed descriptor; before the first
\* file that is 0, and the next file gets it.
DaqClose ==
    /\ Listens
    /\ Orderly => Dry /\ outfile_fd # 0
    /\ flag_outfile
    /\ CloseFd(outfile_fd)
    /\ main' = "close"
    /\ UNCHANGED <<serverVars, flags, TheRun, outfile_fd, content, created, fileEpoch,
                   mfd, mrun, dataVars, history, refused, spoiled>>

CloseFlag ==
    /\ main = "close"
    /\ flag_outfile' = FALSE
    /\ main' = "idle"
    /\ UNCHANGED <<serverVars, sink_data, MaxFileSize, TheRun, outfile_fd, fileVars,
                   mfd, mrun, dataVars, history, refused, spoiled>>

\* A volume, or 0 for none.
SetMaxVolume(volume) ==
    /\ Listens
    /\ MaxFileSize' = volume
    /\ UNCHANGED <<serverVars, sink_data, flag_outfile, TheRun, outfile_fd, fileVars,
                   mainVars, dataVars, history, refused, spoiled>>

MainStep ==
    \/ BeginZero \/ BeginNext \/ BeginNumber \/ BeginCall \/ BeginOpen \/ BeginRefused
    \/ BeginStore \/ CloseFlag

Command ==
    \/ \E arg \in BOOLEAN : DaqBegin(arg)
    \/ \E volume \in {0, 1} : SetMaxVolume(volume)
    \/ DaqEnd \/ DaqOpen \/ DaqClose

-----------------------------------------------------------------------------
(* The data thread                                                          *)

\* It spins while sink_data is false...
CheckSink ==
    /\ data = "check" /\ sink_data
    /\ data' = "poll"
    /\ UNCHANGED <<serverVars, flags, TheRun, outfile_fd, fileVars, mainVars, msg, dfd,
                   drun, history, refused, spoiled>>

\* ...and never looks at it again before a message has come.
Receive(s) ==
    /\ data = "poll" /\ queue[s] # << >>
    /\ queue' = [queue EXCEPT ![s] = Tail(@)]
    /\ msg'   = << Head(queue[s]) >>
    /\ data'  = "test"
    /\ UNCHANGED <<serving, flags, TheRun, outfile_fd, fileVars, mainVars, dfd, drun,
                   history, refused, spoiled>>

\* The message goes on to the monitors when the file is done with it.
Test ==
    /\ data = "test"
    /\ IF flag_outfile /\ outfile_fd # 0
         THEN data' = "write" /\ UNCHANGED msg
         ELSE data' = "check" /\ msg' = << >>
    /\ UNCHANGED <<serverVars, flags, TheRun, outfile_fd, fileVars, mainVars, dfd, drun,
                   history, refused, spoiled>>

\* write() to what outfile_fd is by now; on a closed descriptor it fails, and on
\* a file it may fail or fall short: nothing comes of it.  The volume, a sum of
\* bytes that both threads set without a lock, is over the limit then or not.
Write ==
    LET f == table[outfile_fd]
    IN  /\ data = "write"
        /\ \/ f \in {NoFile, Stdin} /\ UNCHANGED <<content, spoiled>>
           \/ f \notin {NoFile, Stdin} /\ UNCHANGED spoiled
              /\ content' = [content EXCEPT ![f] = @ \o msg]
           \/ f \notin {NoFile, Stdin} /\ UNCHANGED content
              /\ spoiled' = spoiled \cup ToSet(msg)
        /\ \E full \in {FALSE, MaxFileSize > 0} : data' = IF full THEN "close" ELSE "check"
        /\ msg' = << >>
        /\ UNCHANGED <<serverVars, flags, TheRun, outfile_fd, table, created, fileEpoch,
                       mainVars, dfd, drun, history, refused>>

\* A full file is closed and the next one opened.
RollClose ==
    /\ data = "close"
    /\ CloseFd(outfile_fd)
    /\ data' = "next"
    /\ UNCHANGED <<serverVars, flags, TheRun, outfile_fd, content, created, fileEpoch,
                   mainVars, msg, dfd, drun, history, refused, spoiled>>

\* TheRun++ again.
RollNext ==
    /\ data = "next" /\ TheRun < RunBound
    /\ drun' = TheRun + 1
    /\ data' = "number"
    /\ UNCHANGED <<serverVars, flags, TheRun, outfile_fd, fileVars, mainVars, msg, dfd,
                   history, refused, spoiled>>

RollNumber ==
    /\ data = "number"
    /\ TheRun' = drun
    /\ data' = "call"
    /\ UNCHANGED <<serverVars, flags, outfile_fd, fileVars, mainVars, msg, dfd, drun,
                   history, refused, spoiled>>

RollCall ==
    /\ data = "call"
    /\ drun' \in {drun, TheRun}
    /\ data' = "open"
    /\ UNCHANGED <<serverVars, flags, TheRun, outfile_fd, fileVars, mainVars, msg, dfd,
                   history, refused, spoiled>>

RollOpen ==
    /\ data = "open" /\ CanOpen(drun)
    /\ CreateFile(drun)
    /\ dfd' = LowestFd
    /\ data' = "store"
    /\ UNCHANGED <<serverVars, flags, TheRun, outfile_fd, mainVars, msg, drun, history,
                   refused, spoiled>>

\* Without it the whole program exits, once open_file() has cleared outfile_fd.
RollRefused ==
    /\ data = "open" /\ ~CanOpen(drun)
    /\ data' = "giveUp"
    /\ UNCHANGED <<serverVars, flags, TheRun, outfile_fd, fileVars, mainVars, msg, dfd,
                   drun, history, refused, spoiled>>

GiveUp ==
    /\ data = "giveUp"
    /\ outfile_fd' = 0
    /\ data' = "exited"
    /\ UNCHANGED <<serverVars, flags, TheRun, fileVars, mainVars, msg, dfd, drun, history,
                   refused, spoiled>>

RollStore ==
    /\ data = "store"
    /\ outfile_fd' = dfd
    /\ data' = "check" /\ dfd' = 0 /\ drun' = 0
    /\ UNCHANGED <<serverVars, flags, TheRun, fileVars, mainVars, msg, history, refused,
                   spoiled>>

DataStep ==
    \/ CheckSink \/ (\E s \in Servers : Receive(s)) \/ Test \/ Write \/ RollClose
    \/ RollNext \/ RollNumber \/ RollCall \/ RollOpen \/ RollRefused \/ GiveUp \/ RollStore

-----------------------------------------------------------------------------
Init ==
    /\ serving = [s \in Servers |-> "stopped"] /\ queue = [s \in Servers |-> << >>]
    /\ sink_data = FALSE /\ flag_outfile = FALSE /\ MaxFileSize = 0
    /\ TheRun = 0 /\ outfile_fd = 0
    /\ table = [fd \in Fds |-> IF fd = 0 THEN Stdin ELSE NoFile]
    /\ content = [f \in 0 .. RunBound |-> << >>] /\ created = << >>
    /\ fileEpoch = [f \in 0 .. RunBound |-> 0]
    /\ main = "idle" /\ mfd = 0 /\ mrun = 0
    /\ data = "check" /\ msg = << >> /\ dfd = 0 /\ drun = 0
    /\ epoch = 0 /\ sent = [s \in Servers |-> << >>] /\ lost = {}
    /\ hasty = FALSE /\ refused = {} /\ spoiled = {}

Next ==
    \/ \E s \in Servers : ServerBegin(s) \/ Send(s) \/ ServerEnd(s)
    \/ data # "exited" /\ MainStep
    \/ Command \/ DataStep

Spec == Init /\ [][Next]_vars

-----------------------------------------------------------------------------
(* Properties                                                               *)

Message == [srv : Servers, n : Nat, run : Nat, logged : BOOLEAN]
Files   == 0 .. RunBound

OnItsWay(b) == b \in ToSet(msg) \cup ToSet(queue[b.srv])
Holding(b)  == {f \in Files : b \in ToSet(content[f])}
SentBefore(b, c) == b.srv = c.srv => b.n < c.n

\* A buffer sent with logging enabled that no subscriber socket has lost is
\* still on its way or in one file, unless write() failed on it, and no file is
\* written over; there it comes behind what its server sent before it.  A
\* daq_begin that gets no file costs the buffers of its own run, if nobody
\* hurries the sink.  Across files the order is kept without haste: a daq_begin
\* that races with a rollover may store its new file after the younger one of the
\* data thread.  Both race with the writing thread for outfile_fd and TheRun, in
\* haste as well as not.
InOneFile ==
    /\ (hasty => refused = {}) =>
        \A s \in Servers : \A b \in ToSet(sent[s]) : b.logged /\ b \notin lost =>
            IF OnItsWay(b) THEN Holding(b) = {}
            ELSE \/ \E f \in Files : Holding(b) = {f}
                 \/ Holding(b) = {} /\ (b \in spoiled \/ b.run \in refused)
    /\ \A f \in Files : \A i, j \in DOMAIN content[f] :
            i < j => SentBefore(content[f][i], content[f][j])
    /\ ~hasty => \A p, q \in DOMAIN created : p < q =>
            \A b \in ToSet(content[created[p]]), c \in ToSet(content[created[q]]) :
                SentBefore(b, c)

\* When daq_begin and daq_end wait until the servers have ended and the last
\* buffer has been dealt with, no file mixes the buffers of two runs, although
\* nothing in datasink() ties a buffer to a run, daq_end closes no file, and a
\* daq_begin may get none.
RunsKeptApart ==
    ~hasty => \A f \in ToSet(created) : \A b \in ToSet(content[f]) :
        b.logged => b.run = fileEpoch[f]

=============================================================================
