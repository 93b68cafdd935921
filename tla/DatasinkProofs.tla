---------------------------- MODULE DatasinkProofs ----------------------------
(***************************************************************************)
(* datasink files every buffer once and keeps runs apart, for every number *)
(* of servers, every volume, descriptor table and bound, and any           *)
(* interleaving of its two threads with the messages and the commands, if  *)
(* the operator is as patient as the properties ask.                       *)
(***************************************************************************)
EXTENDS Datasink, SequenceTheorems, WellFoundedInduction, TLAPS

-----------------------------------------------------------------------------
(* The inductive invariants behind RunsKeptApart.                           *)

SinkTypes ==
    /\ serving \in [Servers -> {"stopped", "running", "ending"}]
    /\ queue \in [Servers -> Seq(Message)] /\ msg \in Seq(Message)
    /\ sink_data \in BOOLEAN /\ flag_outfile \in BOOLEAN
    /\ TheRun \in Files /\ mrun \in Files /\ drun \in Files
    /\ table \in [Fds -> Files \cup {NoFile, Stdin}]
    /\ content \in [Files -> Seq(Message)] /\ fileEpoch \in [Files -> Nat]
    /\ created \in Seq(Files)
    /\ outfile_fd \in Fds /\ mfd \in Fds /\ dfd \in Fds
    /\ main \in {"idle", "zero", "next", "number", "call", "open", "store", "close"}
    /\ data \in {"check", "poll", "test", "write", "close", "next", "number", "call", "open",
                 "giveUp", "store", "exited"}
    /\ epoch \in Nat /\ sent \in [Servers -> Seq(Message)] /\ lost \subseteq Message
    /\ hasty \in BOOLEAN /\ refused \subseteq Nat /\ spoiled \subseteq Message

\* While a patient operator's daq_begin is at work, and between runs, nothing
\* is on its way.
Beginning == main \in {"zero", "next", "number", "call", "open", "store"}
DryBetween == ~hasty /\ (Beginning \/ ~sink_data) => Dry

\* An orderly daq_close finds the sink dry as well, so that logging is not
\* switched while the data thread is at a file.
DryClose == Orderly =>
    /\ main = "close" => Dry
    /\ data \in {"write", "close", "next", "number", "call", "open", "giveUp", "store"} =>
           flag_outfile

\* What is on its way is of the run the sink is in.
InThisRun == ~hasty =>
    /\ data \notin {"test", "write"} => msg = << >>
    /\ \A i \in DOMAIN msg : msg[i].run = epoch
    /\ \A s \in Servers : \A i \in DOMAIN queue[s] : queue[s][i].run = epoch

\* Descriptor 0 is never a file's: neither daq_close nor a rollover closes it.
StdinStays == Orderly /\ ~hasty =>
    /\ table[0] = Stdin
    /\ data \in {"write", "close"} => outfile_fd # 0

\* Whatever a thread is going to write to was opened in this run.
OfThisRun(fd) == table[fd] \in {NoFile, Stdin} \/ fileEpoch[table[fd]] = epoch
RightFile == Orderly /\ ~hasty =>
    /\ flag_outfile /\ sink_data /\ main = "idle" => OfThisRun(outfile_fd)
    /\ main = "store" => OfThisRun(mfd)
    /\ data = "store" => OfThisRun(dfd)

OneRunPerFile == Orderly /\ ~hasty =>
    \A f \in Files : \A i \in DOMAIN content[f] : content[f][i].run = fileEpoch[f]

ApartInv ==
    /\ SinkTypes /\ DryBetween /\ DryClose /\ InThisRun
    /\ StdinStays /\ RightFile /\ OneRunPerFile

-----------------------------------------------------------------------------
(* The inductive invariants behind InOneFile.                               *)

\* Every message is one that was sent, and those of a server stay in order on
\* their way: queue, then the data thread, then a file.
Genuine(b) == b.n \in DOMAIN sent[b.srv] /\ sent[b.srv][b.n] = b

InFlight ==
    /\ Len(msg) <= 1
    /\ data \notin {"test", "write"} => msg = << >>
    /\ \A i \in DOMAIN msg : Genuine(msg[i])
    /\ \A s \in Servers : \A i \in DOMAIN sent[s] : sent[s][i].srv = s /\ sent[s][i].n = i
    /\ \A s \in Servers : \A i \in DOMAIN queue[s] :
            queue[s][i].srv = s /\ Genuine(queue[s][i])
    /\ \A s \in Servers : \A i, j \in DOMAIN queue[s] : i < j => queue[s][i].n < queue[s][j].n
    /\ \A i \in DOMAIN msg, s \in Servers : \A j \in DOMAIN queue[s] :
            SentBefore(msg[i], queue[s][j])

Filed ==
    /\ \A f \in Files : \A i \in DOMAIN content[f] :
            /\ Genuine(content[f][i])
            /\ \A j \in DOMAIN msg : SentBefore(content[f][i], msg[j])
            /\ \A s \in Servers : \A j \in DOMAIN queue[s] : SentBefore(content[f][i], queue[s][j])
    /\ \A f \in Files : \A i, j \in DOMAIN content[f] :
            i < j => SentBefore(content[f][i], content[f][j])
    /\ \A f, g \in Files : \A i \in DOMAIN content[f], j \in DOMAIN content[g] :
            f # g => content[f][i] # content[g][j]

\* O_EXCL: no file is created twice.
CreatedOnce ==
    /\ \A p, q \in DOMAIN created : created[p] = created[q] => p = q
    /\ \A fd \in Fds : table[fd] \in ToSet(created) \cup {NoFile, Stdin}
    /\ \A f \in Files : f \notin ToSet(created) => content[f] = << >>

\* With logging there is a file to write to whenever something may be written,
\* but in a run that got none; and what a thread has opened and not stored yet
\* is another file that nobody closes.
IsFile(fd) == fd # 0 /\ table[fd] \in Files
Rolling == data \in {"next", "number", "call", "open", "giveUp", "store", "exited"}
NoFileNow == outfile_fd = 0 /\ ~hasty /\ epoch \in refused /\ data \in {"check", "poll", "test"}
FilesOpen == Orderly /\ (hasty => refused = {}) =>
    /\ table[0] = Stdin
    /\ main \in {"open", "store"} => flag_outfile
    /\ flag_outfile /\ ~Rolling =>
          \/ IsFile(outfile_fd)
          \/ Dry /\ (sink_data => Beginning \/ main = "close")
          \/ NoFileNow
    /\ main = "store" => \/ IsFile(mfd) /\ (mfd # outfile_fd \/ Rolling \/ Dry)
                         \/ mfd = 0 /\ ~hasty /\ epoch \in refused
    /\ data = "store" => IsFile(dfd)
    /\ main = "store" /\ data = "store" => mfd # dfd

\* What is on its way and was sent with logging finds logging enabled.
LoggedFlag == Orderly =>
    /\ \A i \in DOMAIN msg : msg[i].logged => flag_outfile
    /\ \A s \in Servers : \A i \in DOMAIN queue[s] : queue[s][i].logged => flag_outfile

Everywhere(b) == OnItsWay(b) \/ b \in lost \/ Holding(b) # {} \/ b \in spoiled \/ b.run \in refused
AllThere == Orderly /\ (hasty => refused = {}) =>
    \A s \in Servers : \A i \in DOMAIN sent[s] : sent[s][i].logged => Everywhere(sent[s][i])

\* Without haste the file in use is the last one created.
NewestFile(fd) ==
    table[fd] \in {NoFile, Stdin} \/ (created # << >> /\ table[fd] = created[Len(created)])
Newest == Orderly /\ ~hasty =>
    /\ flag_outfile /\ sink_data /\ main = "idle" => NewestFile(outfile_fd)
    /\ data \in {"next", "number", "call", "open"} => table[outfile_fd] = NoFile
    /\ main = "store" => NewestFile(mfd)
    /\ data = "store" => NewestFile(dfd)

AcrossFiles == Orderly /\ ~hasty =>
    \A p, q \in DOMAIN created : p < q =>
        \A i \in DOMAIN content[created[p]], j \in DOMAIN content[created[q]] :
            SentBefore(content[created[p]][i], content[created[q]][j])

OneFileInv ==
    /\ SinkTypes /\ DryBetween /\ DryClose /\ InThisRun /\ StdinStays
    /\ InFlight /\ Filed /\ CreatedOnce
    /\ FilesOpen /\ LoggedFlag /\ AllThere /\ Newest /\ AcrossFiles

-----------------------------------------------------------------------------
USE DEF serverVars, fileVars, flags, mainVars, dataVars, history, vars

-----------------------------------------------------------------------------
(* Types                                                                     *)

\* open() gets a free descriptor.
LEMMA Lowest ==
    ASSUME NEW run, CanOpen(run)
    PROVE  LowestFd \in Fds /\ table[LowestFd] = NoFile
<1> DEFINE T == {fd \in Fds : table[fd] = NoFile}
<1>1. T \subseteq Nat /\ T # {}
  BY DatasinkAssumption DEF CanOpen
<1>2. \E x \in T : \A y \in T : ~(<<y, x>> \in OpToRel(<, Nat))
  BY <1>1, NatLessThanWellFounded, WFMin
<1>3. PICK x \in T : \A y \in T : x <= y
  <2> DEFINE Less == {ss \in Nat \X Nat : ss[1] < ss[2]}
  <2>1. \E x \in T : \A y \in T : ~(<<y, x>> \in Less)
    BY <1>2 DEF OpToRel
  <2>2. \A x, y \in Nat : <<y, x>> \in Less <=> y < x
    OBVIOUS
  <2>3. PICK x \in T : \A y \in T : ~(<<y, x>> \in Less)
    BY <2>1
  <2> HIDE DEF Less
  <2>4. \A y \in T : ~(y < x)
    BY <1>1, <2>2, <2>3
  <2>5. \A y \in T : x <= y
    BY <1>1, <2>4
  <2> QED
    BY <2>5
<1>4. \E fd \in Fds : table[fd] = NoFile /\ \A y \in Fds : table[y] = NoFile => fd <= y
  BY <1>3
<1> QED
  BY <1>4 DEF LowestFd

\* The program starts with the types it keeps.
LEMMA SinkTypesInit == Init => SinkTypes
<1> SUFFICES ASSUME Init PROVE SinkTypes
  OBVIOUS
<1>1. << >> \in Seq(Message) /\ << >> \in Seq(Files)
  BY EmptySeq
<1>2. 0 \in Fds /\ 0 \in Files
  BY DatasinkAssumption DEF Files
<1> QED
  BY <1>1, <1>2 DEF Init, SinkTypes, Files

\* A step of a server keeps the types.
LEMMA SinkTypesServer ==
    ASSUME SinkTypes, NEW s \in Servers, ServerBegin(s) \/ Send(s) \/ ServerEnd(s)
    PROVE  SinkTypes'
<1> USE DEF SinkTypes
<1>1. CASE ServerBegin(s) \/ ServerEnd(s)
  <2>1. serving' \in [Servers -> {"stopped", "running", "ending"}]
    BY <1>1 DEF ServerBegin, ServerEnd
  <2>2. UNCHANGED <<queue, flags, TheRun, outfile_fd, fileVars, mainVars, dataVars, history,
                    refused, spoiled>>
    BY <1>1 DEF ServerBegin, ServerEnd
  <2> QED
    BY <2>1, <2>2
<1>2. CASE Send(s)
  <2> DEFINE b == [srv |-> s, n |-> Len(sent[s]) + 1, run |-> epoch, logged |-> flag_outfile]
  <2>1. b \in Message
    <3>1. Len(sent[s]) \in Nat
      BY LenProperties
    <3> QED
      BY <3>1 DEF Message
  <2>2. /\ serving' = [serving EXCEPT ![s] = IF @ = "ending" THEN "stopped" ELSE @]
        /\ sent' = [sent EXCEPT ![s] = Append(@, b)]
        /\ \/ queue' = [queue EXCEPT ![s] = Append(@, b)] /\ UNCHANGED lost
           \/ lost' = lost \cup {b} /\ UNCHANGED queue
        /\ UNCHANGED <<flags, TheRun, outfile_fd, fileVars, mainVars, dataVars, epoch,
                       hasty, refused, spoiled>>
    BY <1>2 DEF Send
  <2> HIDE DEF b
  <2>3. Append(queue[s], b) \in Seq(Message) /\ Append(sent[s], b) \in Seq(Message)
    BY <2>1, AppendProperties
  <2>4. queue' \in [Servers -> Seq(Message)] /\ sent' \in [Servers -> Seq(Message)]
    <3>1. queue \in [Servers -> Seq(Message)] /\ sent \in [Servers -> Seq(Message)]
      OBVIOUS
    <3> HIDE DEF SinkTypes
    <3>2. queue' \in [Servers -> Seq(Message)]
      BY <2>2, <2>3, <3>1
    <3>3. sent' \in [Servers -> Seq(Message)]
      BY <2>2, <2>3, <3>1
    <3> QED
      BY <3>2, <3>3
  <2>5. serving' \in [Servers -> {"stopped", "running", "ending"}]
    <3>1. serving \in [Servers -> {"stopped", "running", "ending"}]
      OBVIOUS
    <3> HIDE DEF SinkTypes
    <3> QED
      BY <2>2, <3>1
  <2>6. lost' \subseteq Message
    BY <2>1, <2>2
  <2> QED
    BY <2>2, <2>4, <2>5, <2>6
<1> QED
  BY <1>1, <1>2

\* A file that is created is of the run it is opened for; one that is closed is
\* no file any more.
LEMMA FileTypes ==
    ASSUME SinkTypes
    PROVE  /\ \A run \in Files : CanOpen(run) /\ CreateFile(run) =>
                /\ table' \in [Fds -> Files \cup {NoFile, Stdin}]
                /\ content' \in [Files -> Seq(Message)] /\ fileEpoch' \in [Files -> Nat]
                /\ created' \in Seq(Files)
           /\ CloseFd(outfile_fd) => table' \in [Fds -> Files \cup {NoFile, Stdin}]
<1>1. << >> \in Seq(Message)
  BY EmptySeq
<1>2. /\ table \in [Fds -> Files \cup {NoFile, Stdin}] /\ content \in [Files -> Seq(Message)]
      /\ fileEpoch \in [Files -> Nat] /\ epoch \in Nat
  BY DEF SinkTypes
<1>3. ASSUME NEW run \in Files PROVE Append(created, run) \in Seq(Files)
  BY <1>3, AppendProperties DEF SinkTypes
<1> QED
  BY <1>1, <1>2, <1>3 DEF CreateFile, CloseFd

\* A step of the main thread keeps the types.
LEMMA SinkTypesMain ==
    ASSUME SinkTypes, MainStep \/ Command
    PROVE  SinkTypes'
<1> USE DEF SinkTypes
<1>0. 0 \in Fds /\ 0 \in Files
  BY DatasinkAssumption DEF Files
<1>1. CASE BeginNext
  <2>1. mrun' \in Files
    BY <1>1, DatasinkAssumption DEF BeginNext, Files
  <2> QED
    BY <1>1, <2>1 DEF BeginNext
<1>2. CASE BeginOpen
  BY <1>2, Lowest, FileTypes DEF BeginOpen, CreateFile
<1>3. CASE BeginZero \/ BeginNumber \/ BeginStore
  BY <1>0, <1>3 DEF BeginZero, BeginNumber, BeginStore
<1>4. CASE BeginCall
  BY <1>4 DEF BeginCall
<1>11. CASE BeginRefused
  BY <1>0, <1>11 DEF BeginRefused
<1>5. CASE CloseFlag
  BY <1>5 DEF CloseFlag
<1>9. CASE DaqOpen
  <2>1. flag_outfile' = TRUE
    BY <1>9 DEF DaqOpen
  <2> QED
    BY <1>9, <2>1 DEF DaqOpen
<1>10. CASE \E volume \in {0, 1} : SetMaxVolume(volume)
  BY <1>10 DEF SetMaxVolume
<1>8. CASE DaqEnd
  <2>1. hasty' \in BOOLEAN /\ sink_data' = FALSE
    BY <1>8 DEF DaqEnd
  <2> QED
    BY <1>8, <2>1 DEF DaqEnd
<1>6. CASE DaqClose
  BY <1>6, FileTypes DEF DaqClose
<1>7. ASSUME NEW arg \in BOOLEAN, DaqBegin(arg) PROVE SinkTypes'
  <2>1. epoch' \in Nat /\ hasty' \in BOOLEAN /\ sink_data' = TRUE /\ main' \in {"zero", "next"}
    BY <1>7 DEF DaqBegin
  <2> QED
    BY <1>7, <2>1 DEF DaqBegin
<1> QED
  BY <1>1, <1>2, <1>3, <1>4, <1>5, <1>6, <1>7, <1>8, <1>9, <1>10, <1>11
     DEF MainStep, Command

\* What the data thread takes from a socket.
LEMMA ReceiveTypes ==
    ASSUME SinkTypes, NEW s \in Servers, Receive(s)
    PROVE  SinkTypes'
<1> USE DEF SinkTypes
<1> DEFINE b == Head(queue[s])
<1>1. b \in Message /\ Tail(queue[s]) \in Seq(Message)
  BY HeadTailProperties DEF Receive
<1>2. << b >> \in Seq(Message)
  BY <1>1
<1>3. /\ queue' = [queue EXCEPT ![s] = Tail(@)] /\ msg' = << b >>
      /\ data' = "test"
      /\ UNCHANGED <<serving, flags, TheRun, outfile_fd, fileVars, mainVars, dfd, drun,
                     history, refused, spoiled>>
  BY DEF Receive
<1> HIDE DEF b
<1>4. queue' \in [Servers -> Seq(Message)] /\ msg' \in Seq(Message)
  BY <1>1, <1>2, <1>3
<1> QED
  BY <1>3, <1>4

\* A step of the data thread keeps the types.
LEMMA SinkTypesData ==
    ASSUME SinkTypes, DataStep
    PROVE  SinkTypes'
<1> USE DEF SinkTypes
<1>0. << >> \in Seq(Message) /\ 0 \in Fds /\ 0 \in Files
  BY EmptySeq, DatasinkAssumption DEF Files
<1>1. CASE CheckSink
  BY <1>1 DEF CheckSink
<1>2. CASE Test
  BY <1>0, <1>2 DEF Test
<1>3. CASE Write
  <2>1. \A f \in Files : content[f] \o msg \in Seq(Message)
    BY ConcatProperties
  <2>2. content' \in [Files -> Seq(Message)]
    <3>1. \/ content' = content
          \/ /\ table[outfile_fd] \notin {NoFile, Stdin}
             /\ content' = [content EXCEPT ![table[outfile_fd]] = @ \o msg]
      BY <1>3 DEF Write
    <3>2. table[outfile_fd] \in Files \cup {NoFile, Stdin}
      OBVIOUS
    <3>3. CASE /\ table[outfile_fd] \in Files
               /\ content' = [content EXCEPT ![table[outfile_fd]] = @ \o msg]
      BY <2>1, <3>3
    <3> QED
      BY <3>1, <3>2, <3>3
  <2>3. data' \in {"close", "check"} /\ msg' = << >>
    BY <1>3 DEF Write
  <2>4. spoiled' \subseteq Message
    <3>1. ToSet(msg) \subseteq Message
      BY DEF ToSet
    <3> QED
      BY <1>3, <3>1 DEF Write
  <2> QED
    BY <1>0, <1>3, <2>2, <2>3, <2>4 DEF Write
<1>4. CASE RollClose
  BY <1>4, FileTypes DEF RollClose
<1>5. CASE RollNext
  <2>1. drun' \in Files
    BY <1>5, DatasinkAssumption DEF RollNext, Files
  <2> QED
    BY <1>5, <2>1 DEF RollNext
<1>6. CASE RollOpen
  BY <1>6, Lowest, FileTypes DEF RollOpen, CreateFile
<1>7. CASE RollNumber \/ RollCall \/ RollRefused
  BY <1>7 DEF RollNumber, RollCall, RollRefused
<1>8. CASE GiveUp \/ RollStore
  BY <1>0, <1>8 DEF GiveUp, RollStore
<1> QED
  BY <1>1, <1>2, <1>3, <1>4, <1>5, <1>6, <1>7, <1>8, ReceiveTypes DEF DataStep

\* Every step keeps the types.
LEMMA SinkTypesStep == SinkTypes /\ [Next]_vars => SinkTypes'
<1> SUFFICES ASSUME SinkTypes, [Next]_vars PROVE SinkTypes'
  OBVIOUS
<1>1. CASE UNCHANGED vars
  BY <1>1 DEF SinkTypes
<1> QED
  BY <1>1, SinkTypesServer, SinkTypesMain, SinkTypesData DEF Next

-----------------------------------------------------------------------------
(* When nothing is on its way                                                *)

\* A dry sink stays dry until a server begins, which takes a sink in a run and
\* an idle main thread.
LEMMA DryKept ==
    ASSUME SinkTypes, Dry, [Next]_vars
    PROVE  \/ Dry'
           \/ main' = "idle" /\ sink_data' = TRUE /\ hasty' = hasty /\ ~Beginning'
              /\ data' = data /\ flag_outfile' = flag_outfile
<1>1. /\ \A s \in Servers : serving[s] = "stopped" /\ queue[s] = << >>
      /\ data \in {"check", "poll"}
  BY DEF Dry, SinkTypes
<1>2. ASSUME NEW s \in Servers, ServerBegin(s)
      PROVE  main' = "idle" /\ sink_data' = TRUE /\ hasty' = hasty /\ ~Beginning' /\ data' = data
             /\ flag_outfile' = flag_outfile
  BY <1>2 DEF ServerBegin, Beginning, SinkTypes
<1>3. ASSUME NEW s \in Servers, Send(s) \/ ServerEnd(s) PROVE FALSE
  BY <1>1, <1>3 DEF Send, ServerEnd
<1>5. ASSUME NEW s \in Servers, Receive(s) PROVE FALSE
  BY <1>1, <1>5 DEF Receive
<1>6. CASE CheckSink
  BY <1>1, <1>6 DEF CheckSink, Dry
<1>7. CASE UNCHANGED <<serving, queue, data>>
  BY <1>1, <1>7 DEF Dry
<1>8. MainStep \/ Command => UNCHANGED <<serving, queue, data>>
  BY DEF MainStep, Command, BeginZero, BeginNext, BeginNumber, BeginCall, BeginOpen,
         BeginRefused, BeginStore, CloseFlag, DaqBegin, DaqEnd, DaqOpen, DaqClose, SetMaxVolume
<1>9. DataStep => CheckSink \/ \E s \in Servers : Receive(s)
  BY <1>1 DEF DataStep, Test, Write, RollClose, RollNext, RollNumber, RollCall, RollOpen,
              RollRefused, GiveUp, RollStore
<1>10. CASE UNCHANGED vars
  BY <1>7, <1>10
<1> QED
  BY <1>2, <1>3, <1>5, <1>6, <1>7, <1>8, <1>9, <1>10 DEF Next

\* What a step that is no daq_begin and no daq_end leaves as it is.
LEMMA CommandOnly ==
    ASSUME [Next]_vars
    PROVE  \/ \E arg \in BOOLEAN : DaqBegin(arg)
           \/ DaqEnd
           \/ /\ hasty' = hasty /\ sink_data' = sink_data /\ epoch' = epoch
              /\ Beginning' => Beginning
              /\ main' = "close" => main = "close" \/ DaqClose
<1> USE DEF Beginning
<1>1. ASSUME NEW s \in Servers, ServerBegin(s) \/ Send(s) \/ ServerEnd(s)
      PROVE  UNCHANGED <<hasty, sink_data, epoch, main>>
  BY <1>1 DEF ServerBegin, Send, ServerEnd
<1>2. ASSUME DataStep
      PROVE  UNCHANGED <<hasty, sink_data, epoch, main>>
  BY <1>2 DEF DataStep, CheckSink, Receive, Test, Write, RollClose, RollNext, RollNumber,
              RollCall, RollOpen, RollRefused, GiveUp, RollStore
<1>3. ASSUME MainStep
      PROVE  /\ UNCHANGED <<hasty, sink_data, epoch>> /\ main' # "close"
             /\ main' # "idle" => Beginning
  BY <1>3 DEF MainStep, BeginZero, BeginNext, BeginNumber, BeginCall, BeginOpen, BeginRefused,
              BeginStore, CloseFlag
<1>4. ASSUME DaqOpen \/ DaqClose \/ \E volume \in {0, 1} : SetMaxVolume(volume)
      PROVE  /\ UNCHANGED <<hasty, sink_data, epoch>>
             /\ main' \in {"idle", "close"} /\ (main' = "close" => DaqClose)
  BY <1>4 DEF DaqOpen, DaqClose, SetMaxVolume, Listens
<1>5. Beginning' => main' # "idle"
  OBVIOUS
<1> QED
  BY <1>1, <1>2, <1>3, <1>4, <1>5 DEF Next, Command

\* What the history remembers, and when logging is switched off.
LEMMA Remembered ==
    ASSUME SinkTypes, [Next]_vars
    PROVE  /\ hasty => hasty'
           /\ refused \subseteq refused'
           /\ CloseFlag \/ (flag_outfile => flag_outfile')
<1> DEFINE Kept == /\ hasty => hasty'
                   /\ refused \subseteq refused'
                   /\ CloseFlag \/ (flag_outfile => flag_outfile')
<1>1. ASSUME NEW s \in Servers, ServerBegin(s) \/ Send(s) \/ ServerEnd(s) PROVE Kept
  BY <1>1 DEF ServerBegin, Send, ServerEnd
<1>2. ASSUME MainStep PROVE Kept
  <2>1. CASE BeginRefused
    <3>1. refused \subseteq refused' /\ hasty' = hasty /\ flag_outfile' = flag_outfile
      BY <2>1 DEF BeginRefused
    <3> QED
      BY <3>1
  <2>2. CASE BeginZero \/ BeginNext \/ BeginNumber \/ BeginCall \/ BeginOpen \/ BeginStore
    BY <2>2 DEF BeginZero, BeginNext, BeginNumber, BeginCall, BeginOpen, BeginStore
  <2>3. CASE CloseFlag
    BY <2>3 DEF CloseFlag
  <2> QED
    BY <1>2, <2>1, <2>2, <2>3 DEF MainStep
<1>3. ASSUME Command PROVE Kept
  <2>1. ASSUME (\E arg \in BOOLEAN : DaqBegin(arg)) \/ DaqEnd PROVE Kept
    <3>1. /\ refused' = refused /\ flag_outfile' = flag_outfile
          /\ hasty' = (hasty \/ ~Dry)
      BY <2>1 DEF DaqBegin, DaqEnd
    <3> QED
      BY <3>1
  <2>2. ASSUME DaqOpen \/ DaqClose \/ \E volume \in {0, 1} : SetMaxVolume(volume) PROVE Kept
    <3>1. /\ refused' = refused /\ hasty' = hasty
          /\ flag_outfile' = flag_outfile \/ flag_outfile' = TRUE
      BY <2>2 DEF DaqOpen, DaqClose, SetMaxVolume
    <3> QED
      BY <3>1
  <2> QED
    BY <1>3, <2>1, <2>2 DEF Command
<1>4. ASSUME DataStep PROVE Kept
  BY <1>4 DEF DataStep, CheckSink, Receive, Test, Write, RollClose, RollNext, RollNumber,
              RollCall, RollOpen, RollRefused, GiveUp, RollStore
<1>5. ASSUME UNCHANGED vars PROVE Kept
  BY <1>5
<1> QED
  BY <1>1, <1>2, <1>3, <1>4, <1>5 DEF Next

\* While a patient operator begins a run, and between runs, the sink is dry.
LEMMA DryBetweenStep ==
    ASSUME SinkTypes, DryBetween, [Next]_vars
    PROVE  DryBetween'
<1> SUFFICES ASSUME ~hasty', Beginning' \/ ~sink_data'
             PROVE  Dry'
  BY DEF DryBetween, Beginning
<1>1. CASE (\E arg \in BOOLEAN : DaqBegin(arg)) \/ DaqEnd
  <2>1. Dry
    BY <1>1 DEF DaqBegin, DaqEnd
  <2>2. UNCHANGED <<serving, queue, data>>
    BY <1>1 DEF DaqBegin, DaqEnd
  <2> QED
    BY <2>1, <2>2 DEF Dry
<1>2. CASE ~((\E arg \in BOOLEAN : DaqBegin(arg)) \/ DaqEnd)
  <2>1. hasty' = hasty /\ sink_data' = sink_data /\ (Beginning' => Beginning)
    BY <1>2, CommandOnly
  <2>2. Dry
    BY <2>1 DEF DryBetween
  <2>3. Dry' \/ (sink_data' = TRUE /\ ~Beginning')
    BY <2>2, DryKept
  <2> QED
    BY <2>3
<1> QED
  BY <1>1, <1>2

-----------------------------------------------------------------------------
(* Runs are kept apart                                                       *)

\* The dry invariant in the form the proofs use: a thread that is at a message
\* or at a file is in a run.
LEMMA InARun ==
    ASSUME SinkTypes, DryBetween, DryClose, Orderly, ~hasty, data \notin {"check", "poll"}
    PROVE  main = "idle" /\ sink_data /\ ~Dry
<1>1. ~Dry
  BY DEF Dry
<1>2. ~Beginning /\ sink_data
  BY <1>1 DEF DryBetween
<1>3. main # "close"
  BY <1>1 DEF DryClose
<1> QED
  BY <1>1, <1>2, <1>3 DEF Beginning, SinkTypes

\* Of a message that is taken from a queue, or of one that is left there, the
\* run is known.
LEMMA InThisRunStep ==
    ASSUME SinkTypes, InThisRun, [Next]_vars
    PROVE  InThisRun'
<1> SUFFICES ASSUME ~hasty'
             PROVE  /\ data' \notin {"test", "write"} => msg' = << >>
                    /\ \A i \in DOMAIN msg' : msg'[i].run = epoch'
                    /\ \A s \in Servers : \A i \in DOMAIN queue'[s] : queue'[s][i].run = epoch'
  BY DEF InThisRun
<1>1. ASSUME NEW arg \in BOOLEAN, DaqBegin(arg)
      PROVE  /\ msg' = << >>
             /\ \A s \in Servers : queue'[s] = << >>
  <2>1. ~hasty /\ Dry
    BY <1>1 DEF DaqBegin
  <2>2. msg = << >> /\ \A s \in Servers : queue[s] = << >>
    BY <2>1 DEF Dry, InThisRun
  <2> QED
    BY <1>1, <2>2 DEF DaqBegin, serverVars
<1>2. CASE \E arg \in BOOLEAN : DaqBegin(arg)
  BY <1>1, <1>2
<1> SUFFICES ASSUME ~(\E arg \in BOOLEAN : DaqBegin(arg))
             PROVE  /\ data' \notin {"test", "write"} => msg' = << >>
                    /\ \A i \in DOMAIN msg' : msg'[i].run = epoch'
                    /\ \A s \in Servers : \A i \in DOMAIN queue'[s] : queue'[s][i].run = epoch'
  BY <1>2
<1>3. ~hasty /\ epoch' = epoch
  <2>1. ASSUME DaqEnd PROVE ~hasty /\ epoch' = epoch
    BY <2>1 DEF DaqEnd
  <2> QED
    BY <2>1, CommandOnly
<1>4. /\ data \notin {"test", "write"} => msg = << >>
      /\ \A i \in DOMAIN msg : msg[i].run = epoch
      /\ \A s \in Servers : \A i \in DOMAIN queue[s] : queue[s][i].run = epoch
  BY <1>3 DEF InThisRun
<1>5. ASSUME NEW s \in Servers, Send(s)
      PROVE  /\ data' = data /\ msg' = msg
             /\ \A t \in Servers : \A i \in DOMAIN queue'[t] : queue'[t][i].run = epoch
  <2> DEFINE b == [srv |-> s, n |-> Len(sent[s]) + 1, run |-> epoch, logged |-> flag_outfile]
  <2>1. b.run = epoch
    OBVIOUS
  <2>2. /\ queue' \in {queue, [queue EXCEPT ![s] = Append(@, b)]}
        /\ data' = data /\ msg' = msg
    BY <1>5 DEF Send
  <2> HIDE DEF b
  <2>3. queue \in [Servers -> Seq(Message)]
    BY DEF SinkTypes
  <2>4. \A i \in DOMAIN Append(queue[s], b) : Append(queue[s], b)[i].run = epoch
    BY <1>4, <2>1, <2>3
  <2> QED
    BY <1>4, <2>2, <2>3, <2>4
<1>6. ASSUME NEW s \in Servers, Receive(s)
      PROVE  /\ data' = "test"
             /\ \A i \in DOMAIN msg' : msg'[i].run = epoch
             /\ \A t \in Servers : \A i \in DOMAIN queue'[t] : queue'[t][i].run = epoch
  <2>1. /\ queue[s] # << >> /\ data' = "test" /\ msg' = << Head(queue[s]) >>
        /\ queue' = [queue EXCEPT ![s] = Tail(@)]
    BY <1>6 DEF Receive
  <2>2. queue \in [Servers -> Seq(Message)]
    BY DEF SinkTypes
  <2>3. Head(queue[s]).run = epoch
    BY <1>4, <2>1, <2>2
  <2>4. \A i \in DOMAIN Tail(queue[s]) : Tail(queue[s])[i].run = epoch
    BY <1>4, <2>1, <2>2
  <2>5. ASSUME NEW i \in DOMAIN msg' PROVE msg'[i].run = epoch
    BY <2>1, <2>3
  <2>6. ASSUME NEW t \in Servers, NEW i \in DOMAIN queue'[t] PROVE queue'[t][i].run = epoch
    <3>1. CASE t = s
      <4>1. queue'[t] = Tail(queue[s])
        BY <2>1, <2>2, <3>1
      <4> QED
        BY <2>4, <2>6, <4>1
    <3>2. CASE t # s
      BY <1>4, <2>1, <2>2, <2>6, <3>2
    <3> QED
      BY <3>1, <3>2
  <2> QED
    BY <2>1, <2>5, <2>6
<1>7. ASSUME Test
      PROVE  /\ (data' = "write" /\ msg' = msg) \/ msg' = << >>
             /\ queue' = queue
  BY <1>7 DEF Test
<1>8. ASSUME Write
      PROVE  msg' = << >> /\ queue' = queue
  BY <1>8 DEF Write
<1>9. ASSUME \/ CheckSink \/ RollClose \/ RollNext \/ RollNumber \/ RollCall \/ RollOpen
            \/ RollRefused \/ GiveUp \/ RollStore
      PROVE  msg' = msg /\ queue' = queue /\ data \notin {"test", "write"}
  BY <1>9 DEF CheckSink, RollClose, RollNext, RollNumber, RollCall, RollOpen, RollRefused,
              GiveUp, RollStore
<1>10. ASSUME MainStep \/ Command
       PROVE  msg' = msg /\ queue' = queue /\ data' = data
  BY <1>10 DEF MainStep, Command, BeginZero, BeginNext, BeginNumber, BeginCall, BeginOpen,
               BeginRefused, BeginStore, CloseFlag, DaqBegin, DaqEnd, DaqOpen, DaqClose, SetMaxVolume
<1>11. ASSUME NEW s \in Servers, ServerBegin(s) \/ ServerEnd(s)
       PROVE  msg' = msg /\ queue' = queue /\ data' = data
  BY <1>11 DEF ServerBegin, ServerEnd
<1>12. CASE msg' = msg /\ queue' = queue /\ (data' = data \/ data \notin {"test", "write"})
  BY <1>3, <1>4, <1>12
<1>13. CASE msg' = << >> /\ queue' = queue
  BY <1>3, <1>4, <1>13
<1>14. CASE data' \in {"test", "write"} /\ msg' = msg /\ queue' = queue
  BY <1>3, <1>4, <1>14
<1>15. CASE \E s \in Servers : Send(s)
  BY <1>3, <1>4, <1>5, <1>15
<1>16. CASE \E s \in Servers : Receive(s)
  BY <1>3, <1>6, <1>16
<1>17. CASE UNCHANGED vars
  BY <1>12, <1>17
<1> QED
  BY <1>7, <1>8, <1>9, <1>10, <1>11, <1>12, <1>13, <1>14, <1>15, <1>16, <1>17 DEF Next, DataStep

\* An orderly operator closes the file of a dry sink, and no file is at work
\* without logging.
LEMMA DryCloseStep ==
    ASSUME SinkTypes, DryClose, [Next]_vars
    PROVE  DryClose'
<1> DEFINE AtFile == {"write", "close", "next", "number", "call", "open", "giveUp", "store"}
<1> SUFFICES ASSUME Orderly
             PROVE  /\ main' = "close" => Dry'
                    /\ data' \in AtFile => flag_outfile'
  BY DEF DryClose
<1>2. /\ main = "close" => Dry
      /\ data \in AtFile => flag_outfile
  BY DEF DryClose
<1>3. ASSUME main' = "close" PROVE Dry'
  <2>1. main = "close" \/ DaqClose
    BY <1>3, CommandOnly DEF DaqBegin, DaqEnd, Listens
  <2>2. Dry
    BY <1>2, <2>1 DEF DaqClose
  <2> QED
    BY <1>3, <2>2, DryKept
<1>4. ASSUME data' \in AtFile PROVE flag_outfile'
  <2>1. ASSUME NEW s \in Servers, ServerBegin(s) \/ Send(s) \/ ServerEnd(s)
        PROVE  data' = data /\ flag_outfile' = flag_outfile
    BY <2>1 DEF ServerBegin, Send, ServerEnd
  <2>2. ASSUME BeginZero \/ BeginNext \/ BeginNumber \/ BeginCall \/ BeginOpen \/ BeginRefused \/ BeginStore
        PROVE  data' = data /\ flag_outfile' = flag_outfile
    BY <2>2 DEF BeginZero, BeginNext, BeginNumber, BeginCall, BeginOpen, BeginRefused, BeginStore
  <2>3. ASSUME CloseFlag PROVE FALSE
    <3>1. data \in {"check", "poll"} /\ data' = data
      BY <1>2, <2>3 DEF CloseFlag, Dry
    <3> QED
      BY <1>4, <3>1
  <2>4. ASSUME Command PROVE data' = data /\ flag_outfile' \in {flag_outfile, TRUE}
    BY <2>4 DEF Command, DaqBegin, DaqEnd, DaqOpen, DaqClose, SetMaxVolume
  <2>5. ASSUME DataStep PROVE flag_outfile
    <3>1. ASSUME CheckSink \/ RollStore \/ GiveUp \/ \E s \in Servers : Receive(s) PROVE FALSE
      BY <1>4, <3>1 DEF CheckSink, RollStore, GiveUp, Receive
    <3>2. CASE Test
      BY <1>4, <3>2 DEF Test
    <3>3. CASE Write \/ RollClose \/ RollNext \/ RollNumber \/ RollCall \/ RollOpen \/ RollRefused
      BY <1>2, <3>3 DEF Write, RollClose, RollNext, RollNumber, RollCall, RollOpen, RollRefused
    <3> QED
      BY <2>5, <3>1, <3>2, <3>3 DEF DataStep
  <2>6. ASSUME DataStep PROVE flag_outfile' = flag_outfile
    BY <2>6 DEF DataStep, CheckSink, Receive, Test, Write, RollClose, RollNext, RollNumber,
                RollCall, RollOpen, RollRefused, GiveUp, RollStore
  <2>7. CASE data' = data /\ flag_outfile' \in {flag_outfile, TRUE}
    BY <1>2, <1>4, <2>7
  <2>8. CASE UNCHANGED vars
    BY <2>7, <2>8
  <2> QED
    BY <2>1, <2>2, <2>3, <2>4, <2>5, <2>6, <2>7, <2>8 DEF Next, MainStep
<1> QED
  BY <1>3, <1>4

\* Without haste and disorder descriptor 0 stays as it was.
LEMMA StdinStaysStep ==
    ASSUME SinkTypes, DryBetween, DryClose, StdinStays, [Next]_vars
    PROVE  StdinStays'
<1> SUFFICES ASSUME Orderly, ~hasty'
             PROVE  /\ table'[0] = Stdin
                    /\ data' \in {"write", "close"} => outfile_fd' # 0
  BY DEF StdinStays
<1> DEFINE Goal == /\ table'[0] = Stdin
                   /\ data' \in {"write", "close"} => outfile_fd' # 0
<1>0. ~hasty
  BY Remembered
<1>1. /\ table[0] = Stdin
      /\ data \in {"write", "close"} => outfile_fd # 0
  BY <1>0 DEF StdinStays
<1>2. /\ table \in [Fds -> Files \cup {NoFile, Stdin}] /\ 0 \in Fds /\ NoFile # Stdin
      /\ outfile_fd \in Fds
  BY DatasinkAssumption DEF SinkTypes
<1>3. ASSUME NEW run, CanOpen(run), CreateFile(run) PROVE table'[0] = Stdin
  <2>1. LowestFd # 0
    BY <1>1, <1>2, <1>3, Lowest
  <2> QED
    BY <1>1, <1>2, <1>3, <2>1 DEF CreateFile
<1>4. CASE UNCHANGED <<table, outfile_fd, data>>
  BY <1>1, <1>4
<1>5. ASSUME NEW s \in Servers, ServerBegin(s) \/ Send(s) \/ ServerEnd(s)
      PROVE  UNCHANGED <<table, outfile_fd, data>>
  BY <1>5 DEF ServerBegin, Send, ServerEnd
<1>6. ASSUME \/ BeginZero \/ BeginNext \/ BeginNumber \/ BeginCall \/ BeginRefused \/ CloseFlag
             \/ DaqEnd \/ DaqOpen \/ (\E arg \in BOOLEAN : DaqBegin(arg))
             \/ \E volume \in {0, 1} : SetMaxVolume(volume)
      PROVE  UNCHANGED <<table, outfile_fd, data>>
  BY <1>6 DEF BeginZero, BeginNext, BeginNumber, BeginCall, BeginRefused, CloseFlag, DaqEnd,
              DaqOpen, DaqBegin, SetMaxVolume
<1>7. CASE BeginOpen
  <2>1. CanOpen(mrun) /\ CreateFile(mrun) /\ UNCHANGED <<outfile_fd, data>>
    BY <1>7 DEF BeginOpen
  <2> QED
    BY <1>1, <1>3, <2>1
<1>8. CASE BeginStore
  <2>1. data' \in {"check", "poll"} /\ table' = table
    BY <1>0, <1>8 DEF BeginStore, Beginning, DryBetween, Dry
  <2> QED
    BY <1>1, <2>1
<1>9. CASE DaqClose
  <2>1. outfile_fd # 0 /\ CloseFd(outfile_fd) /\ UNCHANGED <<outfile_fd, data>>
    BY <1>9 DEF DaqClose
  <2> QED
    BY <1>1, <1>2, <2>1 DEF CloseFd
<1>10. CASE Test
  BY <1>1, <1>10 DEF Test
<1>11. CASE Write
  BY <1>1, <1>11 DEF Write
<1>12. CASE RollClose
  <2>1. outfile_fd # 0 /\ CloseFd(outfile_fd) /\ data' = "next"
    BY <1>1, <1>12 DEF RollClose
  <2> QED
    BY <1>1, <1>2, <2>1 DEF CloseFd
<1>13. CASE RollOpen
  <2>1. CanOpen(drun) /\ CreateFile(drun) /\ data' = "store"
    BY <1>13 DEF RollOpen
  <2> QED
    BY <1>1, <1>3, <2>1
<1>14. ASSUME \/ CheckSink \/ (\E s \in Servers : Receive(s)) \/ RollNext \/ RollNumber \/ RollCall
              \/ RollRefused \/ GiveUp \/ RollStore
       PROVE  table' = table /\ data' \notin {"write", "close"}
  BY <1>14 DEF CheckSink, Receive, RollNext, RollNumber, RollCall, RollRefused, GiveUp, RollStore
<1>15. CASE UNCHANGED vars
  BY <1>4, <1>15
<1>16. Goal
  BY <1>1, <1>4, <1>5, <1>6, <1>7, <1>8, <1>9, <1>10, <1>11, <1>12, <1>13, <1>14, <1>15
     DEF Next, MainStep, Command, DataStep
<1> QED
  BY <1>16

\* A descriptor of this run's file remains one, whatever is opened or closed.
LEMMA FilesKept ==
    ASSUME SinkTypes, NEW fd \in Fds, OfThisRun(fd), epoch' = epoch, NEW run \in Files,
           \/ CanOpen(run) /\ CreateFile(run)
           \/ CloseFd(outfile_fd) /\ UNCHANGED fileEpoch
           \/ UNCHANGED <<table, fileEpoch>>
    PROVE  OfThisRun(fd)'
<1>1. /\ table \in [Fds -> Files \cup {NoFile, Stdin}] /\ fileEpoch \in [Files -> Nat]
      /\ outfile_fd \in Fds
  BY DEF SinkTypes
<1>2. CASE CanOpen(run) /\ CreateFile(run)
  BY <1>1, <1>2, Lowest DEF OfThisRun, CreateFile
<1>3. CASE CloseFd(outfile_fd) /\ UNCHANGED fileEpoch
  BY <1>1, <1>3 DEF OfThisRun, CloseFd
<1>4. CASE UNCHANGED <<table, fileEpoch>>
  BY <1>4 DEF OfThisRun
<1> QED
  BY <1>2, <1>3, <1>4

\* What the threads hold to write to was opened in this run.
LEMMA RightFileStep ==
    ASSUME SinkTypes, DryBetween, DryClose, StdinStays, RightFile, [Next]_vars
    PROVE  RightFile'
<1> SUFFICES ASSUME Orderly, ~hasty'
             PROVE  /\ flag_outfile' /\ sink_data' /\ main' = "idle"
                          => OfThisRun(outfile_fd)'
                    /\ main' = "store" => OfThisRun(mfd)'
                    /\ data' = "store" => OfThisRun(dfd)'
  BY DEF RightFile
<1> DEFINE Goal == /\ flag_outfile' /\ sink_data' /\ main' = "idle"
                          => OfThisRun(outfile_fd)'
                   /\ main' = "store" => OfThisRun(mfd)'
                   /\ data' = "store" => OfThisRun(dfd)'
<1>0. ~hasty
  BY Remembered
<1>1. /\ flag_outfile /\ sink_data /\ main = "idle" => OfThisRun(outfile_fd)
      /\ main = "store" => OfThisRun(mfd)
      /\ data = "store" => OfThisRun(dfd)
  BY <1>0 DEF RightFile
<1>2. outfile_fd \in Fds /\ mfd \in Fds /\ dfd \in Fds /\ mrun \in Files /\ drun \in Files
  BY DEF SinkTypes
<1>3. Beginning \/ ~sink_data => data \in {"check", "poll"}
  BY <1>0 DEF DryBetween, Dry
<1>21. table[0] = Stdin
  BY <1>0 DEF StdinStays
<1>4. CASE UNCHANGED <<table, fileEpoch, epoch, outfile_fd, mfd, dfd>>
           /\ (data' = data \/ data' # "store")
           /\ (main' = main \/ main' \notin {"idle", "store"})
           /\ UNCHANGED <<flag_outfile, sink_data>>
  BY <1>1, <1>4 DEF OfThisRun
<1>5. ASSUME NEW s \in Servers, ServerBegin(s) \/ Send(s) \/ ServerEnd(s)
      PROVE  Goal
  <2>1. UNCHANGED <<table, fileEpoch, epoch, outfile_fd, mfd, dfd, data, main, flag_outfile, sink_data>>
    BY <1>5 DEF ServerBegin, Send, ServerEnd
  <2> QED
    BY <1>4, <2>1
<1>6. ASSUME NEW arg \in BOOLEAN, DaqBegin(arg) PROVE Goal
  <2>1. data' \in {"check", "poll"} /\ main' \in {"zero", "next"}
    BY <1>6 DEF DaqBegin, Dry
  <2> QED
    BY <2>1
<1>7. CASE BeginZero \/ BeginNext \/ BeginNumber \/ BeginCall
  <2>1. /\ data' \in {"check", "poll"}
        /\ main' \in {"number", "call", "open"} \/ (main' = "idle" /\ ~flag_outfile')
    BY <1>3, <1>7 DEF BeginZero, BeginNext, BeginNumber, BeginCall, Beginning
  <2> QED
    BY <2>1
<1>8. CASE BeginOpen
  <2>1. /\ data' \in {"check", "poll"} /\ main' = "store" /\ mfd' = LowestFd
        /\ CanOpen(mrun) /\ CreateFile(mrun) /\ epoch' = epoch
    BY <1>3, <1>8 DEF BeginOpen, Beginning
  <2>2. OfThisRun(mfd)'
    <3>1. table'[LowestFd] = mrun /\ fileEpoch'[mrun] = epoch
      BY <2>1, Lowest DEF CreateFile, SinkTypes
    <3> QED
      BY <2>1, <3>1 DEF OfThisRun
  <2> QED
    BY <2>1, <2>2
<1>9. CASE BeginRefused
  <2>1. /\ data' \in {"check", "poll"} /\ main' = "store" /\ mfd' = 0 /\ table' = table
    BY <1>3, <1>9 DEF BeginRefused, Beginning
  <2> QED
    BY <1>21, <2>1 DEF OfThisRun
<1>10. CASE BeginStore
  <2>1. /\ data' \in {"check", "poll"} /\ main' = "idle" /\ outfile_fd' = mfd /\ main = "store"
        /\ UNCHANGED <<table, fileEpoch, epoch>>
    BY <1>3, <1>10 DEF BeginStore, Beginning
  <2> QED
    BY <1>1, <2>1 DEF OfThisRun
<1>12. CASE CloseFlag
  <2>1. /\ ~flag_outfile' /\ main' = "idle" /\ data' = data
        /\ UNCHANGED <<table, fileEpoch, epoch, dfd>>
    BY <1>12 DEF CloseFlag
  <2> QED
    BY <1>1, <2>1 DEF OfThisRun
<1>13. CASE DaqEnd \/ DaqOpen
  <2>1. sink_data' = FALSE /\ main' = "idle" /\ data' \in {"check", "poll"}
    BY <1>0, <1>13 DEF DaqEnd, DaqOpen, Listens, Dry, SinkTypes
  <2> QED
    BY <2>1
<1>14. CASE DaqClose
  <2>1. main' = "close" /\ data' \in {"check", "poll"}
    BY <1>14 DEF DaqClose, Dry
  <2> QED
    BY <2>1
<1>15. CASE \/ \E volume \in {0, 1} : SetMaxVolume(volume)
            \/ CheckSink \/ Test \/ Write \/ RollNext \/ RollNumber \/ RollCall \/ RollRefused
            \/ \E s \in Servers : Receive(s)
  <2>1. /\ UNCHANGED <<table, fileEpoch, epoch, outfile_fd, mfd, dfd, main, flag_outfile, sink_data>>
        /\ data' = data \/ data' # "store"
    BY <1>15 DEF SetMaxVolume, CheckSink, Test, Write, RollNext, RollNumber, RollCall, RollRefused,
                 Receive
  <2> QED
    BY <1>4, <2>1
<1>16. CASE RollClose
  <2>1. /\ UNCHANGED <<fileEpoch, epoch, outfile_fd, mfd, dfd, main, flag_outfile, sink_data>>
        /\ CloseFd(outfile_fd) /\ data' = "next"
    BY <1>16 DEF RollClose
  <2>2. \A fd \in Fds : OfThisRun(fd) => table'[fd] \in {NoFile, Stdin} \/ fileEpoch'[table'[fd]] = epoch'
    BY <1>2, <2>1, FilesKept DEF OfThisRun
  <2> QED
    BY <1>1, <1>2, <2>1, <2>2 DEF OfThisRun
<1>17. CASE RollOpen
  <2>1. /\ UNCHANGED <<epoch, outfile_fd, mfd, main, flag_outfile, sink_data>>
        /\ CanOpen(drun) /\ CreateFile(drun) /\ dfd' = LowestFd
    BY <1>17 DEF RollOpen
  <2>2. \A fd \in Fds : OfThisRun(fd) => table'[fd] \in {NoFile, Stdin} \/ fileEpoch'[table'[fd]] = epoch'
    BY <1>2, <2>1, FilesKept DEF OfThisRun
  <2>3. table'[LowestFd] = drun /\ fileEpoch'[drun] = epoch
    BY <2>1, Lowest DEF CreateFile, SinkTypes
  <2> QED
    BY <1>1, <1>2, <2>1, <2>2, <2>3 DEF OfThisRun
<1>18. CASE RollStore
  <2>1. /\ outfile_fd' = dfd /\ data = "store" /\ data' = "check"
        /\ UNCHANGED <<table, fileEpoch, epoch, mfd, main>>
    BY <1>18 DEF RollStore
  <2> QED
    BY <1>1, <2>1 DEF OfThisRun
<1>11. CASE GiveUp
  <2>1. /\ outfile_fd' = 0 /\ data' = "exited"
        /\ UNCHANGED <<table, fileEpoch, epoch, mfd, main>>
    BY <1>11 DEF GiveUp
  <2> QED
    BY <1>1, <1>21, <2>1 DEF OfThisRun
<1>19. CASE UNCHANGED vars
  BY <1>4, <1>19
<1>20. Goal
  BY <1>5, <1>6, <1>7, <1>8, <1>9, <1>10, <1>11, <1>12, <1>13, <1>14, <1>15, <1>16, <1>17, <1>18,
     <1>19 DEF Next, MainStep, Command, DataStep
<1> QED
  BY <1>20

\* write() adds messages of this run to a file of this run; a file just
\* created is empty.
LEMMA OneRunPerFileStep ==
    ASSUME Orderly, ApartInv, [Next]_vars
    PROVE  OneRunPerFile'
<1> SUFFICES ASSUME ~hasty', NEW f \in Files, NEW i \in DOMAIN content'[f]
             PROVE  content'[f][i].run = fileEpoch'[f]
  BY DEF OneRunPerFile
<1>1. ~hasty
  BY CommandOnly DEF DaqBegin, DaqEnd
<1>2. /\ content \in [Files -> Seq(Message)] /\ fileEpoch \in [Files -> Nat]
      /\ msg \in Seq(Message) /\ mrun \in Files /\ drun \in Files /\ outfile_fd \in Fds
      /\ table \in [Fds -> Files \cup {NoFile, Stdin}]
  BY DEF ApartInv, SinkTypes
<1>3. \A g \in Files : \A j \in DOMAIN content[g] : content[g][j].run = fileEpoch[g]
  BY <1>1 DEF ApartInv, OneRunPerFile
<1>4. CASE content' = content /\ fileEpoch' = fileEpoch
  BY <1>3, <1>4
<1>5. ASSUME NEW run \in Files, CreateFile(run) PROVE content'[f][i].run = fileEpoch'[f]
  <2>1. CASE f = run
    BY <1>2, <1>5, <2>1 DEF CreateFile
  <2>2. CASE f # run
    BY <1>2, <1>3, <1>5, <2>2 DEF CreateFile
  <2> QED
    BY <2>1, <2>2
<1>6. CASE Write
  <2>1. data = "write" /\ fileEpoch' = fileEpoch
    BY <1>6 DEF Write
  <2>2. main = "idle" /\ sink_data
    BY <1>1, <2>1, InARun DEF ApartInv
  <2>3. flag_outfile
    BY <1>1, <2>1 DEF ApartInv, DryClose
  <2>4. OfThisRun(outfile_fd)
    BY <1>1, <2>1, <2>2, <2>3 DEF ApartInv, RightFile
  <2>5. \A j \in DOMAIN msg : msg[j].run = epoch
    BY <1>1 DEF ApartInv, InThisRun
  <2>6. CASE content' = content
    BY <1>4, <2>1, <2>6
  <2>7. CASE content' # content
    <3> DEFINE g == table[outfile_fd]
    <3>1. g \in Files /\ g \notin {NoFile, Stdin} /\ content' = [content EXCEPT ![g] = @ \o msg]
      BY <1>2, <1>6, <2>7 DEF Write
    <3>2. fileEpoch[g] = epoch
      BY <2>4, <3>1 DEF OfThisRun
    <3> HIDE DEF g
    <3>3. CASE f # g
      BY <1>2, <1>3, <2>1, <3>1, <3>3
    <3>4. CASE f = g
      <4>1. content'[f] = content[g] \o msg /\ content[g] \in Seq(Message)
        BY <1>2, <3>1, <3>4
      <4>2. content'[f][i] = IF i <= Len(content[g]) THEN content[g][i] ELSE msg[i - Len(content[g])]
        BY <1>2, <4>1, ConcatProperties
      <4>3. i \in 1 .. Len(content[g]) + Len(msg) /\ Len(content[g]) \in Nat /\ Len(msg) \in Nat
        BY <1>2, <4>1, ConcatProperties, LenProperties
      <4>4. CASE i <= Len(content[g])
        <5>1. i \in DOMAIN content[g]
          BY <4>1, <4>3, <4>4
        <5> QED
          BY <1>3, <2>1, <3>1, <3>4, <4>2, <4>4, <5>1
      <4>5. CASE ~(i <= Len(content[g]))
        <5>1. i - Len(content[g]) \in DOMAIN msg
          BY <1>2, <4>3, <4>5
        <5> QED
          BY <2>1, <2>5, <3>2, <3>4, <4>2, <4>5, <5>1
      <4> QED
        BY <4>4, <4>5
    <3> QED
      BY <3>3, <3>4
  <2> QED
    BY <2>6, <2>7
<1>7. ASSUME NEW s \in Servers, ServerBegin(s) \/ Send(s) \/ ServerEnd(s)
      PROVE  content' = content /\ fileEpoch' = fileEpoch
  BY <1>7 DEF ServerBegin, Send, ServerEnd
<1>8. ASSUME MainStep \/ Command
      PROVE  \/ content' = content /\ fileEpoch' = fileEpoch
             \/ \E run \in Files : CreateFile(run)
  BY <1>2, <1>8 DEF MainStep, Command, BeginZero, BeginNext, BeginNumber, BeginCall, BeginOpen, BeginRefused,
              BeginStore, CloseFlag, DaqBegin, DaqEnd, DaqOpen, DaqClose, SetMaxVolume
<1>9. ASSUME DataStep
      PROVE  \/ content' = content /\ fileEpoch' = fileEpoch
             \/ \E run \in Files : CreateFile(run)
             \/ Write
  BY <1>2, <1>9 DEF DataStep, CheckSink, Receive, Test, RollClose, RollNext, RollNumber,
                    RollCall, RollOpen, RollRefused, GiveUp, RollStore
<1>10. CASE UNCHANGED vars
  BY <1>4, <1>10
<1> QED
  BY <1>4, <1>5, <1>6, <1>7, <1>8, <1>9, <1>10 DEF Next

\* The inductive invariant.
LEMMA ApartInvariance ==
    ASSUME Orderly
    PROVE  Spec => []ApartInv
<1>1. Init => ApartInv
  <2> SUFFICES ASSUME Init PROVE ApartInv
    OBVIOUS
  <2>1. SinkTypes
    BY SinkTypesInit
  <2>2. Dry /\ main = "idle" /\ data = "check" /\ ~sink_data /\ ~flag_outfile
    BY DEF Init, Dry
  <2>5. table[0] = Stdin
    BY DatasinkAssumption DEF Init
  <2>3. msg = << >> /\ \A s \in Servers : queue[s] = << >>
    BY DEF Init
  <2>4. \A f \in Files : content[f] = << >>
    BY DEF Init, Files
  <2> QED
    BY <2>1, <2>2, <2>3, <2>4, <2>5 DEF ApartInv, DryBetween, DryClose, InThisRun, StdinStays, RightFile,
                                 OneRunPerFile
<1>2. ApartInv /\ [Next]_vars => ApartInv'
  <2> SUFFICES ASSUME ApartInv, [Next]_vars PROVE ApartInv'
    OBVIOUS
  <2>1. /\ SinkTypes /\ DryBetween /\ DryClose /\ InThisRun /\ StdinStays /\ RightFile
        /\ OneRunPerFile
    BY DEF ApartInv
  <2> QED
    BY <2>1, SinkTypesStep, DryBetweenStep, DryCloseStep, InThisRunStep, StdinStaysStep,
       RightFileStep, OneRunPerFileStep DEF ApartInv
<1> QED
  BY <1>1, <1>2, PTL DEF Spec

\* datasink keeps runs apart: when the operator waits until the servers have
\* ended and the last buffer has been dealt with before daq_begin and daq_end,
\* and opens and closes between runs, no file mixes the buffers of two runs.
THEOREM KeepsRunsApart ==
    ASSUME Orderly
    PROVE  Spec => []RunsKeptApart
<1>1. ApartInv => RunsKeptApart
  <2> SUFFICES ASSUME ApartInv, ~hasty,
                      NEW f \in ToSet(created), NEW b \in ToSet(content[f])
               PROVE  b.run = fileEpoch[f]
    BY DEF RunsKeptApart
  <2>1. f \in Files
    BY DEF ApartInv, SinkTypes, ToSet
  <2>2. PICK i \in DOMAIN content[f] : b = content[f][i]
    BY DEF ToSet
  <2> QED
    BY <2>1, <2>2 DEF ApartInv, OneRunPerFile
<1> QED
  BY <1>1, ApartInvariance, PTL

-----------------------------------------------------------------------------
(* Every buffer goes to one file                                             *)

\* The buffer is where it was put in the history of what was sent.
SentIn(S, b) == b.n \in DOMAIN S[b.srv] /\ S[b.srv][b.n] = b

\* A sequence with one element more.
LEMMA AppendElements ==
    ASSUME NEW S, NEW q \in Seq(S), NEW b \in S
    PROVE  /\ Append(q, b) \in Seq(S)
           /\ \A i \in DOMAIN q : i \in DOMAIN Append(q, b) /\ Append(q, b)[i] = q[i] /\ i < Len(q) + 1
           /\ Len(q) + 1 \in DOMAIN Append(q, b) /\ Append(q, b)[Len(q) + 1] = b
           /\ \A i \in DOMAIN Append(q, b) :
                 \/ i \in DOMAIN q /\ Append(q, b)[i] = q[i]
                 \/ i = Len(q) + 1 /\ Append(q, b)[i] = b
<1> DEFINE k == Len(q)
           new == Append(q, b)
<1>1. /\ k \in Nat /\ DOMAIN q = 1 .. k /\ DOMAIN new = 1 .. k + 1 /\ new \in Seq(S)
      /\ \A i \in 1 .. k : new[i] = q[i]
      /\ new[k + 1] = b
  <2>1. k \in Nat /\ DOMAIN q = 1 .. k
    BY LenProperties
  <2>2. new \in Seq(S) /\ Len(new) = k + 1 /\ (\A i \in 1 .. k : new[i] = q[i]) /\ new[k + 1] = b
    BY AppendProperties
  <2>3. DOMAIN new = 1 .. k + 1
    BY <2>2, LenProperties
  <2> QED
    BY <2>1, <2>2, <2>3
<1> HIDE DEF k, new
<1>2. \A i \in 1 .. k : i \in 1 .. k + 1 /\ i < k + 1
  BY <1>1
<1>3. k + 1 \in 1 .. k + 1 /\ \A i \in 1 .. k + 1 : i \in 1 .. k \/ i = k + 1
  BY <1>1
<1>4. /\ \A i \in DOMAIN q : i \in DOMAIN new /\ new[i] = q[i] /\ i < k + 1
      /\ k + 1 \in DOMAIN new
      /\ \A i \in DOMAIN new : (i \in DOMAIN q /\ new[i] = q[i]) \/ (i = k + 1 /\ new[i] = b)
  BY <1>1, <1>2, <1>3
<1> QED
  BY <1>1, <1>4 DEF k, new

\* The buffer a server sends is its next one.
LEMMA SendEffect ==
    ASSUME SinkTypes, NEW s \in Servers, Send(s)
    PROVE  \E b \in Message :
              /\ b.srv = s /\ b.n = Len(sent[s]) + 1 /\ b.logged = flag_outfile
              /\ sent' = [sent EXCEPT ![s] = Append(@, b)]
              /\ \A t \in Servers : \A i \in DOMAIN sent'[t] :
                    \/ i \in DOMAIN sent[t] /\ sent'[t][i] = sent[t][i]
                    \/ t = s /\ i = b.n /\ sent'[t][i] = b
              /\ SentIn(sent', b)
              /\ \A t \in Servers : \A i \in DOMAIN queue[t] :
                    i \in DOMAIN queue'[t] /\ queue'[t][i] = queue[t][i]
              /\ \A t \in Servers : \A i \in DOMAIN queue'[t] :
                    \/ i \in DOMAIN queue[t] /\ queue'[t][i] = queue[t][i]
                    \/ t = s /\ i = Len(queue[s]) + 1 /\ queue'[t][i] = b
              /\ \/ b \in lost'
                 \/ \E i \in DOMAIN queue'[s] : queue'[s][i] = b
              /\ lost \subseteq lost'
              /\ UNCHANGED <<msg, content, created, table, flag_outfile, sink_data, outfile_fd,
                             mfd, dfd, main, data, epoch, hasty, refused, spoiled>>
<1> DEFINE b == [srv |-> s, n |-> Len(sent[s]) + 1, run |-> epoch, logged |-> flag_outfile]
<1>1. b \in Message
  <2>1. /\ Len(sent[s]) \in Nat /\ epoch \in Nat
        /\ flag_outfile \in BOOLEAN
    BY LenProperties DEF SinkTypes
  <2> QED
    BY <2>1 DEF Message
<1>2. b.srv = s /\ b.n = Len(sent[s]) + 1 /\ b.logged = flag_outfile
  OBVIOUS
<1>3. /\ sent' = [sent EXCEPT ![s] = Append(@, b)]
      /\ \/ queue' = [queue EXCEPT ![s] = Append(@, b)] /\ lost' = lost
         \/ queue' = queue /\ lost' = lost \cup {b}
      /\ UNCHANGED <<msg, content, created, table, flag_outfile, sink_data, outfile_fd,
                     mfd, dfd, main, data, epoch, hasty, refused, spoiled>>
  BY DEF Send
<1> HIDE DEF b
<1>4. /\ sent \in [Servers -> Seq(Message)] /\ queue \in [Servers -> Seq(Message)]
      /\ sent[s] \in Seq(Message) /\ queue[s] \in Seq(Message)
  BY DEF SinkTypes
<1>5. /\ \A t \in Servers : \A i \in DOMAIN sent'[t] :
            \/ i \in DOMAIN sent[t] /\ sent'[t][i] = sent[t][i]
            \/ t = s /\ i = b.n /\ sent'[t][i] = b
      /\ SentIn(sent', b)
  <2>1. sent'[s] = Append(sent[s], b) /\ \A t \in Servers : t # s => sent'[t] = sent[t]
    BY <1>3, <1>4
  <2>2. /\ b.n \in DOMAIN Append(sent[s], b) /\ Append(sent[s], b)[b.n] = b
        /\ \A i \in DOMAIN Append(sent[s], b) :
              \/ i \in DOMAIN sent[s] /\ Append(sent[s], b)[i] = sent[s][i]
              \/ i = b.n /\ Append(sent[s], b)[i] = b
    BY <1>1, <1>2, <1>4, AppendElements
  <2>3. SentIn(sent', b)
    BY <1>2, <2>1, <2>2 DEF SentIn
  <2> QED
    BY <2>1, <2>2, <2>3
<1>6. /\ \A t \in Servers : \A i \in DOMAIN queue[t] :
            i \in DOMAIN queue'[t] /\ queue'[t][i] = queue[t][i]
      /\ \A t \in Servers : \A i \in DOMAIN queue'[t] :
            \/ i \in DOMAIN queue[t] /\ queue'[t][i] = queue[t][i]
            \/ t = s /\ i = Len(queue[s]) + 1 /\ queue'[t][i] = b
      /\ b \in lost' \/ \E i \in DOMAIN queue'[s] : queue'[s][i] = b
      /\ lost \subseteq lost'
  <2>1. CASE queue' = queue /\ lost' = lost \cup {b}
    BY <2>1
  <2>2. CASE queue' = [queue EXCEPT ![s] = Append(@, b)] /\ lost' = lost
    <3>1. queue'[s] = Append(queue[s], b) /\ \A t \in Servers : t # s => queue'[t] = queue[t]
      BY <1>4, <2>2
    <3>2. /\ \A i \in DOMAIN queue[s] :
                i \in DOMAIN Append(queue[s], b) /\ Append(queue[s], b)[i] = queue[s][i]
          /\ Len(queue[s]) + 1 \in DOMAIN Append(queue[s], b)
          /\ Append(queue[s], b)[Len(queue[s]) + 1] = b
          /\ \A i \in DOMAIN Append(queue[s], b) :
                \/ i \in DOMAIN queue[s] /\ Append(queue[s], b)[i] = queue[s][i]
                \/ i = Len(queue[s]) + 1 /\ Append(queue[s], b)[i] = b
      BY <1>1, <1>4, AppendElements
    <3> QED
      BY <2>2, <3>1, <3>2
  <2> QED
    BY <1>3, <2>1, <2>2
<1> QED
  BY <1>1, <1>2, <1>3, <1>5, <1>6

\* What was sent stays sent.
LEMMA GenuineKept ==
    ASSUME SinkTypes, NEW s \in Servers, NEW b \in Message,
           sent' = [sent EXCEPT ![s] = Append(@, b)],
           NEW c \in Message, Genuine(c)
    PROVE  SentIn(sent', c) /\ (c.srv = s => c.n \in 1 .. Len(sent[s]))
<1>1. c.srv \in Servers /\ c.n \in Nat
  BY DEF Message
<1>2. sent \in [Servers -> Seq(Message)]
  BY DEF SinkTypes
<1>3. sent[c.srv] \in Seq(Message) /\ sent[s] \in Seq(Message)
  BY <1>1, <1>2
<1>4. c.n \in DOMAIN sent[c.srv] /\ sent[c.srv][c.n] = c
  BY DEF Genuine
<1>5. CASE c.srv = s
  <2>1. sent'[s] = Append(sent[s], b)
    BY <1>2
  <2>2. /\ Len(sent[s]) \in Nat /\ DOMAIN sent[s] = 1 .. Len(sent[s])
        /\ DOMAIN Append(sent[s], b) = 1 .. Len(sent[s]) + 1
        /\ \A i \in 1 .. Len(sent[s]) : Append(sent[s], b)[i] = sent[s][i]
    BY <1>3, LenProperties, AppendProperties
  <2>3. c.n \in 1 .. Len(sent[s]) /\ c.n \in 1 .. Len(sent[s]) + 1
    BY <1>4, <1>5, <2>2
  <2> QED
    BY <1>4, <1>5, <2>1, <2>2, <2>3 DEF SentIn
<1>6. CASE c.srv # s
  <2>1. sent'[c.srv] = sent[c.srv]
    BY <1>1, <1>2, <1>6
  <2> QED
    BY <1>4, <1>6, <2>1 DEF SentIn
<1> QED
  BY <1>5, <1>6

\* What a thread takes from a socket is the oldest message there.
LEMMA ReceiveEffect ==
    ASSUME SinkTypes, NEW s \in Servers, Receive(s)
    PROVE  /\ data = "poll" /\ data' = "test"
           /\ queue[s] \in Seq(Message) /\ 1 \in DOMAIN queue[s]
           /\ msg' = << queue[s][1] >>
           /\ queue' \in [Servers -> Seq(Message)]
           /\ \A t \in Servers : t # s => queue'[t] = queue[t]
           /\ \A i \in DOMAIN queue'[s] : i + 1 \in DOMAIN queue[s] /\ queue'[s][i] = queue[s][i + 1]
           /\ \A i \in DOMAIN queue[s] : i = 1 \/ (i - 1 \in DOMAIN queue'[s] /\ queue'[s][i - 1] = queue[s][i])
           /\ UNCHANGED <<sent, content, created, table, flag_outfile, sink_data, outfile_fd,
                          mfd, dfd, main, hasty, refused, lost, spoiled>>
<1>1. /\ queue[s] # << >> /\ data = "poll" /\ data' = "test" /\ msg' = << Head(queue[s]) >>
      /\ queue' = [queue EXCEPT ![s] = Tail(@)]
      /\ UNCHANGED <<sent, content, created, table, flag_outfile, sink_data, outfile_fd,
                     mfd, dfd, main, hasty, refused, lost, spoiled>>
  BY DEF Receive
<1>2. queue \in [Servers -> Seq(Message)]
  BY DEF SinkTypes
<1>3. queue[s] \in Seq(Message)
  BY <1>2
<1> DEFINE q == queue[s]
<1>4. /\ Len(q) \in Nat \ {0} /\ DOMAIN q = 1 .. Len(q) /\ Head(q) = q[1]
      /\ Tail(q) \in Seq(Message) /\ Len(Tail(q)) = Len(q) - 1
      /\ \A i \in 1 .. Len(Tail(q)) : Tail(q)[i] = q[i + 1]
  BY <1>1, <1>3, HeadTailProperties, LenProperties, EmptySeq
<1>5. DOMAIN Tail(q) = 1 .. Len(q) - 1
  BY <1>4, LenProperties
<1>6. /\ queue' \in [Servers -> Seq(Message)] /\ queue'[s] = Tail(q)
      /\ \A t \in Servers : t # s => queue'[t] = queue[t]
  BY <1>1, <1>2, <1>4
<1>7. 1 \in DOMAIN q
  BY <1>4
<1>8. \A i \in DOMAIN Tail(q) : i + 1 \in DOMAIN q /\ Tail(q)[i] = q[i + 1]
  BY <1>4, <1>5
<1>9. \A i \in DOMAIN q : i = 1 \/ (i - 1 \in DOMAIN Tail(q) /\ Tail(q)[i - 1] = q[i])
  <2> SUFFICES ASSUME NEW i \in DOMAIN q, i # 1
               PROVE  i - 1 \in DOMAIN Tail(q) /\ Tail(q)[i - 1] = q[i]
    OBVIOUS
  <2>1. i \in Nat /\ i - 1 \in 1 .. Len(q) - 1 /\ (i - 1) + 1 = i
    BY <1>4
  <2> QED
    BY <1>4, <1>5, <2>1
<1> QED
  BY <1>1, <1>3, <1>4, <1>6, <1>7, <1>8, <1>9

\* What write() finds in a file afterwards: what was there and, at the end of
\* the file it writes to, the message.
LEMMA WriteEffect ==
    ASSUME SinkTypes, InFlight, Write
    PROVE  /\ data = "write" /\ msg' = << >> /\ data' \in {"close", "check"}
           /\ content' \in [Files -> Seq(Message)]
           /\ \A g \in Files : \A i \in DOMAIN content[g] :
                    i \in DOMAIN content'[g] /\ content'[g][i] = content[g][i]
           /\ \A g \in Files : \A i \in DOMAIN content'[g] :
                 \/ i \in DOMAIN content[g] /\ content'[g][i] = content[g][i]
                 \/ /\ g = table[outfile_fd] /\ i = Len(content[g]) + 1
                    /\ 1 \in DOMAIN msg /\ content'[g][i] = msg[1]
           /\ table[outfile_fd] \in Files =>
                 \A j \in DOMAIN msg :
                     \/ msg[j] \in spoiled'
                     \/ \E i \in DOMAIN content'[table[outfile_fd]] :
                            content'[table[outfile_fd]][i] = msg[j]
           /\ spoiled \subseteq spoiled'
           /\ UNCHANGED <<sent, queue, created, table, flag_outfile, sink_data, outfile_fd,
                          mfd, dfd, main, hasty, refused, lost>>
<1> DEFINE f == table[outfile_fd]
<1>1. /\ data = "write" /\ msg' = << >> /\ data' \in {"close", "check"}
      /\ UNCHANGED <<sent, queue, created, table, flag_outfile, sink_data, outfile_fd,
                     mfd, dfd, main, hasty, refused, lost>>
  BY DEF Write
<1>2. content \in [Files -> Seq(Message)] /\ msg \in Seq(Message) /\ f \in Files \cup {NoFile, Stdin}
  BY DEF SinkTypes
<1>3. /\ \/ f \notin Files /\ content' = content
         \/ f \in Files /\ content' = content /\ \A j \in DOMAIN msg : msg[j] \in spoiled'
         \/ f \in Files /\ content' = [content EXCEPT ![f] = @ \o msg]
      /\ spoiled \subseteq spoiled'
  <2>1. NoFile \notin Files /\ Stdin \notin Files
    BY DatasinkAssumption DEF Files
  <2> QED
    BY <1>2, <2>1 DEF Write, ToSet
<1>4. Len(msg) \in Nat /\ Len(msg) <= 1 /\ DOMAIN msg = 1 .. Len(msg)
  BY <1>2, LenProperties DEF InFlight
<1> HIDE DEF f
<1>5. CASE f \notin Files /\ content' = content
  BY <1>1, <1>2, <1>3, <1>5 DEF f
<1>7. CASE content' = content /\ \A j \in DOMAIN msg : msg[j] \in spoiled'
  BY <1>1, <1>2, <1>3, <1>7 DEF f
<1>6. CASE f \in Files /\ content' = [content EXCEPT ![f] = @ \o msg]
  <2> DEFINE c == content[f]
             k == Len(c)
  <2>1. c \in Seq(Message) /\ c \o msg \in Seq(Message)
    BY <1>2, <1>6, ConcatProperties
  <2>2. /\ k \in Nat /\ DOMAIN c = 1 .. k
        /\ DOMAIN (c \o msg) = 1 .. k + Len(msg)
        /\ \A i \in 1 .. k + Len(msg) : (c \o msg)[i] = IF i <= k THEN c[i] ELSE msg[i - k]
    <3>1. k \in Nat /\ DOMAIN c = 1 .. k
      BY <2>1, LenProperties
    <3>2. Len(c \o msg) = k + Len(msg) /\ DOMAIN (c \o msg) = 1 .. Len(c \o msg)
      BY <1>2, <2>1, ConcatProperties, LenProperties
    <3>3. \A i \in 1 .. k + Len(msg) : (c \o msg)[i] = IF i <= k THEN c[i] ELSE msg[i - k]
      BY <1>2, <2>1, ConcatProperties
    <3> QED
      BY <3>1, <3>2, <3>3
  <2>3. /\ content' \in [Files -> Seq(Message)] /\ content'[f] = c \o msg
        /\ \A g \in Files : g # f => content'[g] = content[g]
    BY <1>2, <1>6, <2>1
  <2> DEFINE new == c \o msg
             m == Len(msg)
  <2> HIDE DEF new, k, m
  <2>4. \A i \in DOMAIN c : i \in DOMAIN new /\ new[i] = c[i]
    BY <1>4, <2>2 DEF new, m
  <2>5. \A i \in DOMAIN new : \/ i \in DOMAIN c /\ new[i] = c[i]
                              \/ i = k + 1 /\ 1 \in DOMAIN msg /\ new[i] = msg[1]
    <3> SUFFICES ASSUME NEW i \in DOMAIN new, i \notin DOMAIN c
                 PROVE  i = k + 1 /\ 1 \in DOMAIN msg /\ new[i] = msg[1]
      BY <2>4
    <3>1. i \in 1 .. k + m /\ k \in Nat /\ m \in Nat /\ m <= 1 /\ ~(i <= k)
      BY <1>4, <2>2 DEF new, m
    <3>2. i = k + 1 /\ m = 1 /\ i - k = 1
      BY <3>1
    <3>3. new[i] = msg[i - k]
      BY <2>2, <3>1 DEF new, m
    <3> QED
      BY <1>4, <3>2, <3>3 DEF m
  <2>6. \A j \in DOMAIN msg : \E i \in DOMAIN new : new[i] = msg[j]
    <3> SUFFICES ASSUME NEW j \in DOMAIN msg PROVE \E i \in DOMAIN new : new[i] = msg[j]
      OBVIOUS
    <3>1. j \in 1 .. m /\ k \in Nat /\ m \in Nat
      BY <1>4, <2>2 DEF m
    <3>2. k + j \in 1 .. k + m /\ ~(k + j <= k) /\ (k + j) - k = j
      BY <3>1
    <3>3. k + j \in DOMAIN new /\ new[k + j] = msg[j]
      BY <2>2, <3>2 DEF new, m
    <3> QED
      BY <3>3
  <2>7. \A g \in Files : \A i \in DOMAIN content[g] :
            i \in DOMAIN content'[g] /\ content'[g][i] = content[g][i]
    BY <2>3, <2>4 DEF new
  <2>8. \A g \in Files : \A i \in DOMAIN content'[g] :
            \/ i \in DOMAIN content[g] /\ content'[g][i] = content[g][i]
            \/ /\ g = f /\ i = Len(content[g]) + 1
               /\ 1 \in DOMAIN msg /\ content'[g][i] = msg[1]
    BY <2>3, <2>5 DEF new, k
  <2> QED
    BY <1>1, <1>3, <2>3, <2>6, <2>7, <2>8 DEF f, new
<1> QED
  BY <1>3, <1>5, <1>6, <1>7

\* open() empties no file.
LEMMA OpenEffect ==
    ASSUME SinkTypes, CreatedOnce, NEW run \in Files, CanOpen(run), CreateFile(run)
    PROVE  content' = content /\ created' = Append(created, run)
<1>1. content \in [Files -> Seq(Message)] /\ mrun \in Files /\ drun \in Files
  BY DEF SinkTypes
<1>2. content[run] = << >>
  BY <1>1 DEF CreatedOnce, CanOpen
<1> QED
  BY <1>1, <1>2 DEF CreateFile

\* The steps that move a message, and those that do not.
LEMMA FlowSteps ==
    ASSUME SinkTypes, CreatedOnce, [Next]_vars
    PROVE  \/ \E s \in Servers : Send(s)
           \/ \E s \in Servers : Receive(s)
           \/ Test \/ Write
           \/ /\ UNCHANGED <<sent, queue, msg, lost, content, spoiled>>
              /\ data' = data \/ {data, data'} \cap {"test", "write"} = {}
<1> DEFINE Still == /\ UNCHANGED <<sent, queue, msg, lost, content, spoiled>>
                    /\ data' = data \/ {data, data'} \cap {"test", "write"} = {}
<1>1. ASSUME NEW s \in Servers, ServerBegin(s) \/ ServerEnd(s) PROVE Still
  BY <1>1 DEF ServerBegin, ServerEnd
<1>2. ASSUME MainStep PROVE Still
  <2>1. CASE BeginOpen
    BY <2>1, OpenEffect DEF BeginOpen, SinkTypes
  <2>2. CASE BeginZero \/ BeginNext \/ BeginNumber \/ BeginCall \/ BeginRefused \/ BeginStore \/ CloseFlag
    BY <2>2 DEF BeginZero, BeginNext, BeginNumber, BeginCall, BeginRefused, BeginStore, CloseFlag
  <2> QED
    BY <1>2, <2>1, <2>2 DEF MainStep
<1>3. ASSUME Command PROVE Still
  BY <1>3 DEF Command, DaqBegin, DaqEnd, DaqOpen, DaqClose, SetMaxVolume
<1>4. ASSUME \/ CheckSink \/ RollClose \/ RollNext \/ RollNumber \/ RollCall \/ RollOpen
             \/ RollRefused \/ GiveUp \/ RollStore
      PROVE  Still
  <2>1. CASE RollOpen
    BY <2>1, OpenEffect DEF RollOpen, SinkTypes
  <2>2. CASE \/ CheckSink \/ RollClose \/ RollNext \/ RollNumber \/ RollCall
             \/ RollRefused \/ GiveUp \/ RollStore
    BY <2>2 DEF CheckSink, RollClose, RollNext, RollNumber, RollCall, RollRefused, GiveUp, RollStore
  <2> QED
    BY <1>4, <2>1, <2>2
<1>5. ASSUME UNCHANGED vars PROVE Still
  BY <1>5
<1> QED
  BY <1>1, <1>2, <1>3, <1>4, <1>5 DEF Next, DataStep

\* Messages keep their order on their way.
LEMMA InFlightStep ==
    ASSUME SinkTypes, CreatedOnce, InFlight, [Next]_vars
    PROVE  InFlight'
<1>1. /\ sent \in [Servers -> Seq(Message)] /\ queue \in [Servers -> Seq(Message)]
      /\ msg \in Seq(Message)
  BY DEF SinkTypes
<1>2. /\ \A s \in Servers : \A i \in DOMAIN queue[s] :
            queue[s][i] \in Message /\ queue[s][i].n \in Nat /\ i \in Nat /\ i <= Len(queue[s])
      /\ \A i \in DOMAIN msg : msg[i] \in Message /\ msg[i].n \in Nat
  <2>1. \A b \in Message : b.n \in Nat
    BY DEF Message
  <2>2. ASSUME NEW s \in Servers, NEW i \in DOMAIN queue[s]
        PROVE  queue[s][i] \in Message /\ i \in Nat /\ i <= Len(queue[s])
    BY <1>1, <2>2, ElementOfSeq, LenProperties
  <2>3. ASSUME NEW i \in DOMAIN msg PROVE msg[i] \in Message
    BY <1>1, <2>3, ElementOfSeq, LenProperties
  <2> QED
    BY <2>1, <2>2, <2>3
<1>3. /\ Len(msg) <= 1
      /\ data \notin {"test", "write"} => msg = << >>
      /\ \A i \in DOMAIN msg : SentIn(sent, msg[i])
      /\ \A s \in Servers : \A i \in DOMAIN sent[s] : sent[s][i].srv = s /\ sent[s][i].n = i
      /\ \A s \in Servers : \A i \in DOMAIN queue[s] :
            queue[s][i].srv = s /\ SentIn(sent, queue[s][i])
      /\ \A s \in Servers : \A i, j \in DOMAIN queue[s] : i < j => queue[s][i].n < queue[s][j].n
      /\ \A i \in DOMAIN msg, s \in Servers : \A j \in DOMAIN queue[s] :
            SentBefore(msg[i], queue[s][j])
  BY DEF InFlight, Genuine, SentIn
<1> SUFFICES
      /\ Len(msg') <= 1
      /\ data' \notin {"test", "write"} => msg' = << >>
      /\ \A i \in DOMAIN msg' : SentIn(sent', msg'[i])
      /\ \A s \in Servers : \A i \in DOMAIN sent'[s] : sent'[s][i].srv = s /\ sent'[s][i].n = i
      /\ \A s \in Servers : \A i \in DOMAIN queue'[s] :
            queue'[s][i].srv = s /\ SentIn(sent', queue'[s][i])
      /\ \A s \in Servers : \A i, j \in DOMAIN queue'[s] : i < j => queue'[s][i].n < queue'[s][j].n
      /\ \A i \in DOMAIN msg', s \in Servers : \A j \in DOMAIN queue'[s] :
            SentBefore(msg'[i], queue'[s][j])
  BY DEF InFlight, Genuine, SentIn, SentBefore
<1> DEFINE Goal ==
      /\ Len(msg') <= 1
      /\ data' \notin {"test", "write"} => msg' = << >>
      /\ \A i \in DOMAIN msg' : SentIn(sent', msg'[i])
      /\ \A s \in Servers : \A i \in DOMAIN sent'[s] : sent'[s][i].srv = s /\ sent'[s][i].n = i
      /\ \A s \in Servers : \A i \in DOMAIN queue'[s] :
            queue'[s][i].srv = s /\ SentIn(sent', queue'[s][i])
      /\ \A s \in Servers : \A i, j \in DOMAIN queue'[s] : i < j => queue'[s][i].n < queue'[s][j].n
      /\ \A i \in DOMAIN msg', s \in Servers : \A j \in DOMAIN queue'[s] :
            SentBefore(msg'[i], queue'[s][j])
<1>4. ASSUME NEW s \in Servers, Send(s) PROVE Goal
  <2>1. PICK b \in Message :
              /\ b.srv = s /\ b.n = Len(sent[s]) + 1 /\ b.logged = flag_outfile
              /\ sent' = [sent EXCEPT ![s] = Append(@, b)]
              /\ \A t \in Servers : \A i \in DOMAIN sent'[t] :
                    \/ i \in DOMAIN sent[t] /\ sent'[t][i] = sent[t][i]
                    \/ t = s /\ i = b.n /\ sent'[t][i] = b
              /\ SentIn(sent', b)
              /\ \A t \in Servers : \A i \in DOMAIN queue'[t] :
                    \/ i \in DOMAIN queue[t] /\ queue'[t][i] = queue[t][i]
                    \/ t = s /\ i = Len(queue[s]) + 1 /\ queue'[t][i] = b
              /\ msg' = msg /\ data' = data
    BY <1>4, SendEffect
  <2>2. \A i \in DOMAIN msg : SentIn(sent', msg[i]) /\ (msg[i].srv = s => msg[i].n < b.n)
    <3> SUFFICES ASSUME NEW i \in DOMAIN msg
                 PROVE  SentIn(sent', msg[i]) /\ (msg[i].srv = s => msg[i].n < b.n)
      OBVIOUS
    <3>1. SentIn(sent', msg[i]) /\ (msg[i].srv = s => msg[i].n \in 1 .. Len(sent[s]))
      BY <1>2, <1>3, <2>1, GenuineKept DEF Genuine, SentIn
    <3> QED
      BY <1>1, <2>1, <3>1, LenProperties
  <2>3. \A t \in Servers : \A i \in DOMAIN queue[t] :
            SentIn(sent', queue[t][i]) /\ (t = s => queue[t][i].n < b.n)
    <3> SUFFICES ASSUME NEW t \in Servers, NEW i \in DOMAIN queue[t]
                 PROVE  SentIn(sent', queue[t][i]) /\ (t = s => queue[t][i].n < b.n)
      OBVIOUS
    <3>1. queue[t][i] \in Message /\ queue[t][i].srv = t /\ SentIn(sent, queue[t][i])
      BY <1>2, <1>3
    <3>2. SentIn(sent', queue[t][i]) /\ (queue[t][i].srv = s => queue[t][i].n \in 1 .. Len(sent[s]))
      BY <2>1, <3>1, GenuineKept DEF Genuine, SentIn
    <3> QED
      BY <1>1, <2>1, <3>1, <3>2, LenProperties
  <2>4. Len(msg') <= 1 /\ (data' \notin {"test", "write"} => msg' = << >>)
    BY <1>3, <2>1
  <2>5. \A i \in DOMAIN msg' : SentIn(sent', msg'[i])
    BY <2>1, <2>2
  <2>6. \A t \in Servers : \A i \in DOMAIN sent'[t] : sent'[t][i].srv = t /\ sent'[t][i].n = i
    BY <1>3, <2>1
  <2>7. \A t \in Servers : \A i \in DOMAIN queue'[t] :
            queue'[t][i].srv = t /\ SentIn(sent', queue'[t][i])
    <3> SUFFICES ASSUME NEW t \in Servers, NEW i \in DOMAIN queue'[t]
                 PROVE  queue'[t][i].srv = t /\ SentIn(sent', queue'[t][i])
      OBVIOUS
    <3>1. CASE i \in DOMAIN queue[t] /\ queue'[t][i] = queue[t][i]
      BY <1>3, <2>3, <3>1
    <3>2. CASE t = s /\ queue'[t][i] = b
      BY <2>1, <3>2
    <3> QED
      BY <2>1, <3>1, <3>2
  <2>8. \A t \in Servers : \A i, j \in DOMAIN queue'[t] : i < j => queue'[t][i].n < queue'[t][j].n
    <3> SUFFICES ASSUME NEW t \in Servers, NEW i \in DOMAIN queue'[t], NEW j \in DOMAIN queue'[t], i < j
                 PROVE  queue'[t][i].n < queue'[t][j].n
      OBVIOUS
    <3>1. CASE i \in DOMAIN queue[t] /\ j \in DOMAIN queue[t] /\ queue'[t][i] = queue[t][i]
               /\ queue'[t][j] = queue[t][j]
      BY <1>3, <3>1
    <3>2. CASE i \in DOMAIN queue[t] /\ queue'[t][i] = queue[t][i] /\ t = s /\ queue'[t][j] = b
      BY <2>3, <3>2
    <3>3. CASE i = Len(queue[s]) + 1 /\ t = s
      <4>1. j \in Nat /\ (j <= Len(queue[s]) \/ j = Len(queue[s]) + 1) /\ Len(queue[s]) \in Nat
        BY <1>1, <1>2, <2>1, <3>3, LenProperties
      <4> QED
        BY <3>3, <4>1
    <3> QED
      BY <2>1, <3>1, <3>2, <3>3
  <2>9. \A i \in DOMAIN msg', t \in Servers : \A j \in DOMAIN queue'[t] :
            SentBefore(msg'[i], queue'[t][j])
    <3> SUFFICES ASSUME NEW i \in DOMAIN msg, NEW t \in Servers, NEW j \in DOMAIN queue'[t]
                 PROVE  SentBefore(msg[i], queue'[t][j])
      BY <2>1
    <3>1. CASE j \in DOMAIN queue[t] /\ queue'[t][j] = queue[t][j]
      BY <1>3, <3>1
    <3>2. CASE queue'[t][j] = b
      BY <2>1, <2>2, <3>2 DEF SentBefore
    <3> QED
      BY <2>1, <3>1, <3>2
  <2> QED
    BY <2>4, <2>5, <2>6, <2>7, <2>8, <2>9
<1>5. ASSUME NEW s \in Servers, Receive(s) PROVE Goal
  <2>1. /\ data = "poll" /\ data' = "test"
        /\ 1 \in DOMAIN queue[s]
        /\ msg' = << queue[s][1] >>
        /\ \A t \in Servers : t # s => queue'[t] = queue[t]
        /\ \A i \in DOMAIN queue'[s] : i + 1 \in DOMAIN queue[s] /\ queue'[s][i] = queue[s][i + 1]
        /\ sent' = sent
    BY <1>5, ReceiveEffect
  <2>2. \A i \in DOMAIN queue'[s] : i \in Nat /\ i > 0
    BY <1>5, ReceiveEffect, LenProperties
  <2>3. Len(msg') = 1 /\ DOMAIN msg' = {1} /\ msg'[1] = queue[s][1]
    BY <2>1
  <2>4. \A i \in DOMAIN msg' : msg'[i] = queue[s][1]
    BY <2>3
  <2>5. \A i \in DOMAIN msg' : SentIn(sent', msg'[i])
    BY <1>3, <2>1, <2>4
  <2>6. \A t \in Servers : \A i \in DOMAIN queue'[t] : \E j \in DOMAIN queue[t] :
              queue'[t][i] = queue[t][j] /\ (t = s => j = i + 1)
    BY <2>1
  <2>7. \A t \in Servers : \A i \in DOMAIN queue'[t] :
            queue'[t][i].srv = t /\ SentIn(sent', queue'[t][i])
    <3> SUFFICES ASSUME NEW t \in Servers, NEW i \in DOMAIN queue'[t]
                 PROVE  queue'[t][i].srv = t /\ SentIn(sent', queue'[t][i])
      OBVIOUS
    <3>1. PICK j \in DOMAIN queue[t] : queue'[t][i] = queue[t][j]
      BY <2>6
    <3> QED
      BY <1>3, <2>1, <3>1
  <2>8. \A t \in Servers : \A i, j \in DOMAIN queue'[t] : i < j => queue'[t][i].n < queue'[t][j].n
    <3> SUFFICES ASSUME NEW t \in Servers, NEW i \in DOMAIN queue'[t], NEW j \in DOMAIN queue'[t], i < j
                 PROVE  queue'[t][i].n < queue'[t][j].n
      OBVIOUS
    <3>1. CASE t # s
      BY <1>3, <2>1, <3>1
    <3>2. CASE t = s
      <4>1. i + 1 < j + 1
        BY <2>2, <3>2
      <4> QED
        BY <1>3, <2>1, <3>2, <4>1
    <3> QED
      BY <3>1, <3>2
  <2>9. \A i \in DOMAIN msg', t \in Servers : \A j \in DOMAIN queue'[t] :
            SentBefore(msg'[i], queue'[t][j])
    <3> SUFFICES ASSUME NEW t \in Servers, NEW j \in DOMAIN queue'[t]
                 PROVE  SentBefore(queue[s][1], queue'[t][j])
      BY <2>4
    <3>1. CASE t # s
      BY <1>3, <2>1, <2>7, <3>1 DEF SentBefore
    <3>2. CASE t = s
      <4>1. 1 < j + 1
        BY <2>2, <3>2
      <4> QED
        BY <1>3, <2>1, <3>2, <4>1 DEF SentBefore
    <3> QED
      BY <3>1, <3>2
  <2>10. \A t \in Servers : \A i \in DOMAIN sent'[t] : sent'[t][i].srv = t /\ sent'[t][i].n = i
    BY <1>3, <2>1
  <2> QED
    BY <2>1, <2>3, <2>5, <2>7, <2>8, <2>9, <2>10
<1>6. CASE UNCHANGED <<sent, queue, msg>> /\ data' \in {"test", "write"}
  BY <1>3, <1>6
<1>7. CASE UNCHANGED <<sent, queue>> /\ msg' = << >>
  BY <1>3, <1>7
<1>8. ASSUME Test
      PROVE  /\ UNCHANGED <<sent, queue>>
             /\ msg' = << >> \/ (msg' = msg /\ data' = "write")
  BY <1>8 DEF Test
<1>9. ASSUME Write PROVE UNCHANGED <<sent, queue>> /\ msg' = << >>
  BY <1>9 DEF Write
<1>10. CASE /\ UNCHANGED <<sent, queue, msg, lost, content, spoiled>>
            /\ data' = data \/ {data, data'} \cap {"test", "write"} = {}
  BY <1>3, <1>10
<1> QED
  BY <1>4, <1>5, <1>6, <1>7, <1>8, <1>9, <1>10, FlowSteps

\* No file is created twice, and a message gets into files that were created.
LEMMA CreatedOnceStep ==
    ASSUME SinkTypes, CreatedOnce, InFlight, [Next]_vars
    PROVE  CreatedOnce'
<1>1. /\ created \in Seq(Files) /\ mrun \in Files /\ drun \in Files /\ outfile_fd \in Fds
      /\ table \in [Fds -> Files \cup {NoFile, Stdin}] /\ content \in [Files -> Seq(Message)]
  BY DEF SinkTypes
<1>2. /\ \A p, q \in DOMAIN created : created[p] = created[q] => p = q
      /\ \A fd \in Fds : table[fd] \in ToSet(created) \cup {NoFile, Stdin}
      /\ \A f \in Files : f \notin ToSet(created) => content[f] = << >>
  BY DEF CreatedOnce
<1>3. ASSUME NEW run \in Files, CanOpen(run), CreateFile(run) PROVE CreatedOnce'
  <2>1. content' = content /\ created' = Append(created, run) /\ run \notin ToSet(created)
    BY <1>3, OpenEffect DEF CanOpen
  <2>2. /\ \A p \in DOMAIN created : p \in DOMAIN created' /\ created'[p] = created[p]
        /\ Len(created) + 1 \in DOMAIN created' /\ created'[Len(created) + 1] = run
        /\ \A p \in DOMAIN created' : \/ p \in DOMAIN created /\ created'[p] = created[p]
                                      \/ p = Len(created) + 1 /\ created'[p] = run
    BY <1>1, <2>1, AppendElements
  <2>3. \A p \in DOMAIN created : created[p] # run
    BY <2>1 DEF ToSet
  <2>4. \A p, q \in DOMAIN created' : created'[p] = created'[q] => p = q
    BY <1>2, <2>2, <2>3
  <2>5. ToSet(created) \subseteq ToSet(created') /\ run \in ToSet(created')
    BY <2>2 DEF ToSet
  <2>6. \A fd \in Fds : table'[fd] \in ToSet(created') \cup {NoFile, Stdin}
    BY <1>1, <1>2, <1>3, <2>5 DEF CreateFile
  <2>7. \A f \in Files : f \notin ToSet(created') => content'[f] = << >>
    BY <1>2, <2>1, <2>5
  <2> QED
    BY <2>4, <2>6, <2>7 DEF CreatedOnce
<1>4. CASE UNCHANGED <<created, content>> /\ CloseFd(outfile_fd)
  <2>1. \A fd \in Fds : table'[fd] \in {table[fd], NoFile}
    BY <1>1, <1>4 DEF CloseFd
  <2> QED
    BY <1>2, <1>4, <2>1 DEF CreatedOnce
<1>5. CASE UNCHANGED <<created, content, table>>
  BY <1>2, <1>5 DEF CreatedOnce
<1>6. CASE Write
  <2>1. /\ UNCHANGED <<created, table>>
        /\ content' \in [Files -> Seq(Message)]
        /\ \A g \in Files : \A i \in DOMAIN content'[g] :
              i \in DOMAIN content[g] \/ g = table[outfile_fd]
    BY <1>6, WriteEffect
  <2>2. ASSUME NEW f \in Files, f \notin ToSet(created) PROVE content'[f] = << >>
    <3>1. content[f] = << >> /\ DOMAIN content[f] = {}
      BY <1>2, <2>2
    <3>2. f # table[outfile_fd]
      <4>1. f \notin {NoFile, Stdin}
        BY DatasinkAssumption DEF Files
      <4> QED
        BY <1>1, <1>2, <2>2, <4>1
    <3>3. DOMAIN content'[f] = {} /\ content'[f] \in Seq(Message)
      BY <2>1, <3>1, <3>2
    <3>4. DOMAIN content'[f] = 1 .. Len(content'[f]) /\ Len(content'[f]) \in Nat
      BY <3>3, LenProperties
    <3>5. Len(content'[f]) = 0
      <4> DEFINE k == Len(content'[f])
      <4>1. k \in Nat /\ 1 .. k = {}
        BY <3>3, <3>4
      <4> HIDE DEF k
      <4>2. k = 0
        <5>1. 1 \notin 1 .. k
          BY <4>1
        <5> QED
          BY <4>1, <5>1
      <4> QED
        BY <4>2 DEF k
    <3> QED
      BY <3>3, <3>5, EmptySeq
  <2> QED
    BY <1>2, <2>1, <2>2 DEF CreatedOnce
<1>7. ASSUME NEW s \in Servers, ServerBegin(s) \/ Send(s) \/ ServerEnd(s)
      PROVE  UNCHANGED <<created, content, table>>
  BY <1>7 DEF ServerBegin, Send, ServerEnd
<1>8. ASSUME MainStep \/ Command
      PROVE  \/ \E run \in Files : CanOpen(run) /\ CreateFile(run)
             \/ UNCHANGED <<created, content>> /\ CloseFd(outfile_fd)
             \/ UNCHANGED <<created, content, table>>
  BY <1>1, <1>8 DEF MainStep, Command, BeginZero, BeginNext, BeginNumber, BeginCall, BeginOpen,
                    BeginRefused, BeginStore, CloseFlag, DaqBegin, DaqEnd, DaqOpen, DaqClose, SetMaxVolume
<1>9. ASSUME DataStep
      PROVE  \/ \E run \in Files : CanOpen(run) /\ CreateFile(run)
             \/ UNCHANGED <<created, content>> /\ CloseFd(outfile_fd)
             \/ UNCHANGED <<created, content, table>>
             \/ Write
  BY <1>1, <1>9 DEF DataStep, CheckSink, Receive, Test, RollClose, RollNext, RollNumber,
                    RollCall, RollOpen, RollRefused, GiveUp, RollStore
<1>10. CASE UNCHANGED vars
  BY <1>5, <1>10
<1> QED
  BY <1>3, <1>4, <1>5, <1>6, <1>7, <1>8, <1>9, <1>10 DEF Next

\* In a file messages are in order and ahead of those that are on their way.
LEMMA FiledStep ==
    ASSUME SinkTypes, CreatedOnce, InFlight, Filed, [Next]_vars
    PROVE  Filed'
<1>1. /\ sent \in [Servers -> Seq(Message)] /\ queue \in [Servers -> Seq(Message)]
      /\ msg \in Seq(Message) /\ content \in [Files -> Seq(Message)]
  BY DEF SinkTypes
<1>2. /\ \A f \in Files : \A i \in DOMAIN content[f] :
            content[f][i] \in Message /\ content[f][i].n \in Nat /\ i \in Nat /\ i < Len(content[f]) + 1
      /\ \A i \in DOMAIN msg : msg[i] \in Message /\ msg[i].n \in Nat
  <2>1. \A b \in Message : b.n \in Nat
    BY DEF Message
  <2>2. ASSUME NEW f \in Files, NEW i \in DOMAIN content[f]
        PROVE  content[f][i] \in Message /\ i \in Nat /\ i < Len(content[f]) + 1
    <3>1. content[f] \in Seq(Message)
      BY <1>1
    <3> DEFINE k == Len(content[f])
    <3>2. k \in Nat /\ DOMAIN content[f] = 1 .. k
      BY <3>1, LenProperties
    <3> HIDE DEF k
    <3>3. i \in Nat /\ i < k + 1 /\ i \in 1 .. k
      BY <2>2, <3>2
    <3> QED
      BY <3>1, <3>3, ElementOfSeq DEF k
  <2>3. ASSUME NEW i \in DOMAIN msg PROVE msg[i] \in Message
    BY <1>1, <2>3, ElementOfSeq, LenProperties
  <2> QED
    BY <2>1, <2>2, <2>3
<1>3. /\ \A f \in Files : \A i \in DOMAIN content[f] :
            /\ SentIn(sent, content[f][i])
            /\ \A j \in DOMAIN msg : SentBefore(content[f][i], msg[j])
            /\ \A s \in Servers : \A j \in DOMAIN queue[s] : SentBefore(content[f][i], queue[s][j])
      /\ \A f \in Files : \A i, j \in DOMAIN content[f] :
            i < j => SentBefore(content[f][i], content[f][j])
      /\ \A f, g \in Files : \A i \in DOMAIN content[f], j \in DOMAIN content[g] :
            f # g => content[f][i] # content[g][j]
  BY DEF Filed, Genuine, SentIn
<1> DEFINE Goal ==
      /\ \A f \in Files : \A i \in DOMAIN content'[f] :
            /\ SentIn(sent', content'[f][i])
            /\ \A j \in DOMAIN msg' : SentBefore(content'[f][i], msg'[j])
            /\ \A s \in Servers : \A j \in DOMAIN queue'[s] : SentBefore(content'[f][i], queue'[s][j])
      /\ \A f \in Files : \A i, j \in DOMAIN content'[f] :
            i < j => SentBefore(content'[f][i], content'[f][j])
      /\ \A f, g \in Files : \A i \in DOMAIN content'[f], j \in DOMAIN content'[g] :
            f # g => content'[f][i] # content'[g][j]
<1> SUFFICES Goal
  BY DEF Filed, Genuine, SentIn, SentBefore
<1>4. ASSUME NEW s \in Servers, Send(s) PROVE Goal
  <2>1. PICK b \in Message :
              /\ b.srv = s /\ b.n = Len(sent[s]) + 1
              /\ sent' = [sent EXCEPT ![s] = Append(@, b)]
              /\ \A t \in Servers : \A i \in DOMAIN queue'[t] :
                    \/ i \in DOMAIN queue[t] /\ queue'[t][i] = queue[t][i]
                    \/ t = s /\ i = Len(queue[s]) + 1 /\ queue'[t][i] = b
              /\ msg' = msg /\ content' = content
    BY <1>4, SendEffect
  <2>2. ASSUME NEW f \in Files, NEW i \in DOMAIN content[f]
        PROVE  SentIn(sent', content[f][i]) /\ SentBefore(content[f][i], b)
    <3>1. /\ SentIn(sent', content[f][i])
          /\ content[f][i].srv = s => content[f][i].n \in 1 .. Len(sent[s])
      BY <1>2, <1>3, <2>1, <2>2, GenuineKept DEF Genuine, SentIn
    <3> QED
      BY <1>1, <2>1, <3>1, LenProperties DEF SentBefore
  <2>3. ASSUME NEW f \in Files, NEW i \in DOMAIN content[f], NEW t \in Servers, NEW j \in DOMAIN queue'[t]
        PROVE  SentBefore(content[f][i], queue'[t][j])
    <3>1. CASE j \in DOMAIN queue[t] /\ queue'[t][j] = queue[t][j]
      BY <1>3, <3>1
    <3>2. CASE queue'[t][j] = b
      BY <2>2, <3>2
    <3> QED
      BY <2>1, <3>1, <3>2
  <2>4. msg' = msg /\ content' = content
    BY <2>1
  <2>5. \A f \in Files : \A i \in DOMAIN content'[f] :
            /\ SentIn(sent', content'[f][i])
            /\ \A j \in DOMAIN msg' : SentBefore(content'[f][i], msg'[j])
            /\ \A t \in Servers : \A j \in DOMAIN queue'[t] : SentBefore(content'[f][i], queue'[t][j])
    BY <1>3, <2>2, <2>3, <2>4
  <2> QED
    BY <1>3, <2>4, <2>5
<1>5. ASSUME NEW s \in Servers, Receive(s) PROVE Goal
  <2>1. /\ 1 \in DOMAIN queue[s]
        /\ msg' = << queue[s][1] >>
        /\ \A t \in Servers : t # s => queue'[t] = queue[t]
        /\ \A i \in DOMAIN queue'[s] : i + 1 \in DOMAIN queue[s] /\ queue'[s][i] = queue[s][i + 1]
        /\ sent' = sent /\ content' = content
    BY <1>5, ReceiveEffect
  <2>2. \A i \in DOMAIN msg' : msg'[i] = queue[s][1]
    BY <2>1
  <2>3. \A t \in Servers : \A i \in DOMAIN queue'[t] : \E j \in DOMAIN queue[t] :
              queue'[t][i] = queue[t][j]
    BY <2>1
  <2>4. ASSUME NEW f \in Files, NEW i \in DOMAIN content[f], NEW t \in Servers, NEW j \in DOMAIN queue'[t]
        PROVE  SentBefore(content[f][i], queue'[t][j])
    <3>1. PICK k \in DOMAIN queue[t] : queue'[t][j] = queue[t][k]
      BY <2>3
    <3> QED
      BY <1>3, <3>1
  <2>5. ASSUME NEW f \in Files, NEW i \in DOMAIN content[f], NEW j \in DOMAIN msg'
        PROVE  SentBefore(content[f][i], msg'[j])
    BY <1>3, <2>1, <2>2
  <2> QED
    BY <1>3, <2>1, <2>4, <2>5
<1>6. CASE Write
  <2>1. /\ msg' = << >> /\ UNCHANGED <<sent, queue>>
        /\ \A g \in Files : \A i \in DOMAIN content'[g] :
              \/ i \in DOMAIN content[g] /\ content'[g][i] = content[g][i]
              \/ /\ g = table[outfile_fd] /\ i = Len(content[g]) + 1
                 /\ 1 \in DOMAIN msg /\ content'[g][i] = msg[1]
    BY <1>6, WriteEffect
  <2>2. /\ \A i \in DOMAIN msg : SentIn(sent, msg[i])
        /\ \A i \in DOMAIN msg, s \in Servers : \A j \in DOMAIN queue[s] :
              SentBefore(msg[i], queue[s][j])
    BY DEF InFlight, Genuine, SentIn
  <2>3. ASSUME NEW f \in Files, NEW i \in DOMAIN content'[f]
        PROVE  /\ SentIn(sent', content'[f][i])
               /\ \A s \in Servers : \A j \in DOMAIN queue'[s] : SentBefore(content'[f][i], queue'[s][j])
    <3>1. CASE i \in DOMAIN content[f] /\ content'[f][i] = content[f][i]
      BY <1>3, <2>1, <3>1
    <3>2. CASE 1 \in DOMAIN msg /\ content'[f][i] = msg[1]
      BY <2>1, <2>2, <3>2
    <3> QED
      BY <2>1, <3>1, <3>2
  <2>4. ASSUME NEW f \in Files, NEW i \in DOMAIN content'[f], NEW j \in DOMAIN content'[f], i < j
        PROVE  SentBefore(content'[f][i], content'[f][j])
    <3>1. CASE /\ i \in DOMAIN content[f] /\ content'[f][i] = content[f][i]
               /\ j \in DOMAIN content[f] /\ content'[f][j] = content[f][j]
      BY <1>3, <2>4, <3>1
    <3>2. CASE /\ i \in DOMAIN content[f] /\ content'[f][i] = content[f][i]
               /\ 1 \in DOMAIN msg /\ content'[f][j] = msg[1]
      BY <1>3, <3>2
    <3>3. CASE i = Len(content[f]) + 1
      <4>1. Len(content[f]) \in Nat
        BY <1>1, LenProperties
      <4>2. j \in DOMAIN content[f] \/ j = Len(content[f]) + 1
        BY <2>1
      <4>3. j \in DOMAIN content[f] => j \in Nat /\ j < Len(content[f]) + 1
        BY <1>2
      <4> QED
        BY <2>4, <3>3, <4>1, <4>2, <4>3
    <3> QED
      BY <2>1, <3>1, <3>2, <3>3
  <2>5. ASSUME NEW f \in Files, NEW g \in Files, f # g,
               NEW i \in DOMAIN content'[f], NEW j \in DOMAIN content'[g]
        PROVE  content'[f][i] # content'[g][j]
    <3>1. \A h \in Files : \A k \in DOMAIN content[h] : 1 \in DOMAIN msg => content[h][k] # msg[1]
      BY <1>2, <1>3 DEF SentBefore
    <3>2. CASE /\ i \in DOMAIN content[f] /\ content'[f][i] = content[f][i]
               /\ j \in DOMAIN content[g] /\ content'[g][j] = content[g][j]
      BY <1>3, <2>5, <3>2
    <3>3. CASE f = table[outfile_fd] /\ 1 \in DOMAIN msg /\ content'[f][i] = msg[1]
      <4>1. j \in DOMAIN content[g] /\ content'[g][j] = content[g][j]
        BY <2>1, <2>5, <3>3
      <4> QED
        BY <3>1, <3>3, <4>1
    <3>4. CASE g = table[outfile_fd] /\ 1 \in DOMAIN msg /\ content'[g][j] = msg[1]
      <4>1. i \in DOMAIN content[f] /\ content'[f][i] = content[f][i]
        BY <2>1, <2>5, <3>4
      <4> QED
        BY <3>1, <3>4, <4>1
    <3> QED
      BY <2>1, <3>2, <3>3, <3>4
  <2>6. \A f \in Files : \A i \in DOMAIN content'[f] :
            \A j \in DOMAIN msg' : SentBefore(content'[f][i], msg'[j])
    BY <2>1
  <2> QED
    BY <2>3, <2>4, <2>5, <2>6
<1>7. CASE UNCHANGED <<sent, queue, content>> /\ msg' \in {msg, << >>}
  BY <1>3, <1>7
<1>8. CASE Test
  BY <1>7, <1>8 DEF Test
<1> QED
  BY <1>4, <1>5, <1>6, <1>7, <1>8, FlowSteps

\* Logging is not switched off while a message sent with it is on its way.
LEMMA LoggedFlagStep ==
    ASSUME SinkTypes, DryClose, CreatedOnce, InFlight, LoggedFlag, [Next]_vars
    PROVE  LoggedFlag'
<1> SUFFICES ASSUME Orderly
             PROVE  /\ \A i \in DOMAIN msg' : msg'[i].logged => flag_outfile'
                    /\ \A s \in Servers : \A i \in DOMAIN queue'[s] :
                            queue'[s][i].logged => flag_outfile'
  BY DEF LoggedFlag
<1> DEFINE Goal == /\ \A i \in DOMAIN msg' : msg'[i].logged => flag_outfile'
                   /\ \A s \in Servers : \A i \in DOMAIN queue'[s] :
                            queue'[s][i].logged => flag_outfile'
<1>1. /\ \A i \in DOMAIN msg : msg[i].logged => flag_outfile
      /\ \A s \in Servers : \A i \in DOMAIN queue[s] : queue[s][i].logged => flag_outfile
  BY DEF LoggedFlag
<1>2. ASSUME NEW s \in Servers, Send(s) PROVE Goal
  <2>1. PICK b \in Message :
              /\ b.logged = flag_outfile
              /\ \A t \in Servers : \A i \in DOMAIN queue'[t] :
                    \/ i \in DOMAIN queue[t] /\ queue'[t][i] = queue[t][i]
                    \/ t = s /\ i = Len(queue[s]) + 1 /\ queue'[t][i] = b
              /\ msg' = msg /\ flag_outfile' = flag_outfile
    BY <1>2, SendEffect
  <2>2. ASSUME NEW t \in Servers, NEW i \in DOMAIN queue'[t], queue'[t][i].logged
        PROVE  flag_outfile
    <3>1. CASE i \in DOMAIN queue[t] /\ queue'[t][i] = queue[t][i]
      BY <1>1, <2>2, <3>1
    <3>2. CASE queue'[t][i] = b
      BY <2>1, <2>2, <3>2
    <3> QED
      BY <2>1, <3>1, <3>2
  <2> QED
    BY <1>1, <2>1, <2>2
<1>3. ASSUME NEW s \in Servers, Receive(s) PROVE Goal
  <2>1. /\ 1 \in DOMAIN queue[s]
        /\ msg' = << queue[s][1] >>
        /\ \A t \in Servers : t # s => queue'[t] = queue[t]
        /\ \A i \in DOMAIN queue'[s] : i + 1 \in DOMAIN queue[s] /\ queue'[s][i] = queue[s][i + 1]
        /\ flag_outfile' = flag_outfile
    BY <1>3, ReceiveEffect
  <2>2. \A i \in DOMAIN msg' : msg'[i] = queue[s][1]
    BY <2>1
  <2>3. ASSUME NEW t \in Servers, NEW i \in DOMAIN queue'[t], queue'[t][i].logged
        PROVE  flag_outfile
    <3>1. CASE t = s
      BY <1>1, <2>1, <2>3, <3>1
    <3>2. CASE t # s
      BY <1>1, <2>1, <2>3, <3>2
    <3> QED
      BY <3>1, <3>2
  <2> QED
    BY <1>1, <2>1, <2>2, <2>3
<1>4. CASE queue' = queue /\ msg' \in {msg, << >>} /\ (flag_outfile => flag_outfile')
  BY <1>1, <1>4
<1>5. CASE CloseFlag
  <2>1. Dry /\ queue' = queue /\ msg' = msg
    BY <1>5 DEF CloseFlag, DryClose
  <2>2. msg = << >> /\ \A s \in Servers : queue[s] = << >>
    BY <2>1 DEF Dry, InFlight
  <2> QED
    BY <2>1, <2>2
<1>6. ASSUME Test PROVE queue' = queue /\ msg' \in {msg, << >>}
  BY <1>6 DEF Test
<1>7. ASSUME Write PROVE queue' = queue /\ msg' \in {msg, << >>}
  BY <1>7 DEF Write
<1>8. Goal
  BY <1>2, <1>3, <1>4, <1>5, <1>6, <1>7, FlowSteps, Remembered
<1> QED
  BY <1>8

\* What open() and close() do to the descriptors of files.
LEMMA Descriptors ==
    ASSUME SinkTypes, table[0] = Stdin
    PROVE  /\ \A run \in Files : CanOpen(run) /\ CreateFile(run) =>
                /\ LowestFd \in Fds \ {0} /\ table'[LowestFd] \in Files /\ table'[0] = Stdin
                /\ \A fd \in Fds : IsFile(fd) => fd # LowestFd /\ table'[fd] = table[fd]
           /\ CloseFd(outfile_fd) =>
                /\ \A fd \in Fds : fd # outfile_fd => table'[fd] = table[fd]
<1>1. table \in [Fds -> Files \cup {NoFile, Stdin}] /\ outfile_fd \in Fds
  BY DEF SinkTypes
<1>2. 0 \in Fds /\ NoFile \notin Files /\ Stdin # NoFile
  BY DatasinkAssumption DEF Files
<1>3. ASSUME NEW run \in Files, CanOpen(run), CreateFile(run)
      PROVE  /\ LowestFd \in Fds \ {0} /\ table'[LowestFd] \in Files /\ table'[0] = Stdin
             /\ \A fd \in Fds : IsFile(fd) => fd # LowestFd /\ table'[fd] = table[fd]
  <2>1. LowestFd \in Fds /\ table[LowestFd] = NoFile
    BY <1>3, Lowest
  <2>2. table' = [table EXCEPT ![LowestFd] = run]
    BY <1>3 DEF CreateFile
  <2> QED
    BY <1>1, <1>2, <1>3, <2>1, <2>2 DEF IsFile
<1> QED
  BY <1>1, <1>3 DEF CloseFd

\* Whenever a message may be written there is a file to write to, or the run
\* got none.
LEMMA FilesOpenStep ==
    ASSUME SinkTypes, DryBetween, DryClose, FilesOpen, [Next]_vars
    PROVE  FilesOpen'
<1> DEFINE Early == Beginning \/ main = "close"
           Goal == /\ table'[0] = Stdin
                   /\ main' \in {"open", "store"} => flag_outfile'
                   /\ flag_outfile' /\ ~Rolling' =>
                        \/ outfile_fd' # 0 /\ table'[outfile_fd'] \in Files
                        \/ Dry' /\ (sink_data' => Early')
                        \/ NoFileNow'
                   /\ main' = "store" =>
                        \/ /\ mfd' # 0 /\ table'[mfd'] \in Files
                           /\ mfd' # outfile_fd' \/ Rolling' \/ Dry'
                        \/ mfd' = 0 /\ ~hasty' /\ epoch' \in refused'
                   /\ data' = "store" => dfd' # 0 /\ table'[dfd'] \in Files
                   /\ main' = "store" /\ data' = "store" => mfd' # dfd'
<1> SUFFICES ASSUME Orderly, hasty' => refused' = {} PROVE Goal
  BY DEF FilesOpen, IsFile
<1>0. hasty => refused = {}
  BY Remembered
<1>1. /\ table[0] = Stdin
      /\ main \in {"open", "store"} => flag_outfile
      /\ flag_outfile /\ ~Rolling => IsFile(outfile_fd) \/ (Dry /\ (sink_data => Early)) \/ NoFileNow
      /\ main = "store" => \/ IsFile(mfd) /\ (mfd # outfile_fd \/ Rolling \/ Dry)
                           \/ mfd = 0 /\ ~hasty /\ epoch \in refused
      /\ data = "store" => IsFile(dfd)
      /\ main = "store" /\ data = "store" => mfd # dfd
  BY <1>0 DEF FilesOpen
<1>2. outfile_fd \in Fds /\ mfd \in Fds /\ dfd \in Fds /\ mrun \in Files /\ drun \in Files
  BY DEF SinkTypes
<1>3. /\ \A run \in Files : CanOpen(run) /\ CreateFile(run) =>
           /\ LowestFd \in Fds \ {0} /\ table'[LowestFd] \in Files /\ table'[0] = Stdin
           /\ \A fd \in Fds : IsFile(fd) => fd # LowestFd /\ table'[fd] = table[fd]
      /\ CloseFd(outfile_fd) =>
           /\ \A fd \in Fds : fd # outfile_fd => table'[fd] = table[fd]
  BY <1>1, Descriptors
<1>4. 0 \in Fds
  BY DatasinkAssumption
<1>5. UNCHANGED <<serving, queue, data>> => Dry' = Dry
  BY DEF Dry
<1>6. Dry => data \in {"check", "poll"}
  BY DEF Dry
\* Steps that leave the descriptors and both threads where they are.
<1>7. ASSUME UNCHANGED <<table, outfile_fd, mfd, dfd, flag_outfile, sink_data, main, data,
                         hasty, refused, epoch>>,
             Dry => Dry' \/ (main = "idle" /\ sink_data)
      PROVE  Goal
  <2>1. Early' = Early /\ Rolling' = Rolling /\ NoFileNow' = NoFileNow
    BY <1>7 DEF Rolling, NoFileNow, Beginning
  <2>2. Dry /\ (sink_data => Early) => Dry'
    BY <1>7 DEF Beginning
  <2> QED
    BY <1>1, <1>7, <2>1, <2>2 DEF IsFile
<1>8. ASSUME NEW s \in Servers, ServerBegin(s) \/ Send(s) \/ ServerEnd(s) PROVE Goal
  <2>1. UNCHANGED <<table, outfile_fd, mfd, dfd, flag_outfile, sink_data, main, data,
                    hasty, refused, epoch>>
    BY <1>8 DEF ServerBegin, Send, ServerEnd
  <2>2. Dry => Dry' \/ (main = "idle" /\ sink_data)
    <3>1. ServerBegin(s) => main = "idle" /\ sink_data
      BY DEF ServerBegin
    <3>2. Send(s) \/ ServerEnd(s) => ~Dry
      BY DEF Send, ServerEnd, Dry
    <3> QED
      BY <1>8, <3>1, <3>2
  <2> QED
    BY <1>7, <2>1, <2>2
<1>9. CASE UNCHANGED vars \/ \E volume \in {0, 1} : SetMaxVolume(volume)
  <2>1. /\ UNCHANGED <<table, outfile_fd, mfd, dfd, flag_outfile, sink_data, main, data,
                       hasty, refused, epoch>>
        /\ UNCHANGED <<serving, queue, data>>
    BY <1>9 DEF SetMaxVolume
  <2> QED
    BY <1>5, <1>7, <2>1
\* Steps of the data thread at a message.
<1>10. ASSUME UNCHANGED <<table, outfile_fd, mfd, dfd, flag_outfile, sink_data, main,
                          hasty, refused, epoch>>,
              ~Dry, ~Rolling, data' # "store", NoFileNow => NoFileNow' \/ Rolling'
       PROVE  Goal
  BY <1>1, <1>10 DEF IsFile
<1>11. CASE (\E s \in Servers : Receive(s)) \/ Test \/ Write
  <2>1. ASSUME NEW s \in Servers, Receive(s)
        PROVE  /\ UNCHANGED <<table, outfile_fd, mfd, dfd, flag_outfile, sink_data, main,
                              hasty, refused, epoch>>
               /\ ~Dry /\ ~Rolling /\ data' # "store" /\ data' = "test"
    BY <2>1 DEF Receive, Dry, Rolling
  <2>2. ASSUME Test \/ Write
        PROVE  /\ UNCHANGED <<table, outfile_fd, mfd, dfd, flag_outfile, sink_data, main,
                              hasty, refused, epoch>>
               /\ ~Dry /\ ~Rolling /\ data' # "store"
               /\ data = "write" \/ (data' = "check" \/ outfile_fd # 0)
    BY <2>2 DEF Test, Write, Dry, Rolling
  <2>3. NoFileNow => NoFileNow' \/ Rolling'
    BY <1>11, <2>1, <2>2 DEF NoFileNow
  <2> QED
    BY <1>10, <1>11, <2>1, <2>2, <2>3
<1>12. CASE CheckSink
  <2>1. /\ UNCHANGED <<table, outfile_fd, mfd, dfd, flag_outfile, sink_data, main, serving, queue,
                       hasty, refused, epoch>>
        /\ data = "check" /\ data' = "poll"
    BY <1>12 DEF CheckSink
  <2>2. Dry' = Dry /\ ~Rolling /\ ~Rolling' /\ NoFileNow' = NoFileNow /\ Early' = Early
    BY <2>1 DEF Dry, Rolling, NoFileNow, Beginning
  <2> QED
    BY <1>1, <2>1, <2>2 DEF IsFile
<1>13. CASE DaqEnd \/ DaqOpen \/ \E arg \in BOOLEAN : DaqBegin(arg)
  <2>1. /\ UNCHANGED <<table, outfile_fd, mfd, dfd, data, serving, queue, refused>>
        /\ main' # "store" /\ main' # "open"
    BY <1>13 DEF DaqEnd, DaqOpen, DaqBegin, Listens
  <2>8. ASSUME NEW arg \in BOOLEAN, DaqBegin(arg)
        PROVE  Early' /\ flag_outfile' = flag_outfile /\ (hasty' \/ Dry)
    <3>1. Early' /\ flag_outfile' = flag_outfile
      BY <2>8 DEF DaqBegin, Beginning
    <3>2. hasty' = (hasty \/ ~Dry)
      BY <2>8 DEF DaqBegin
    <3> QED
      BY <3>1, <3>2
  <2>2. /\ DaqEnd => sink_data' = FALSE /\ flag_outfile' = flag_outfile /\ epoch' = epoch
        /\ DaqOpen => Dry /\ ~sink_data'
        /\ \A arg \in BOOLEAN : DaqBegin(arg) =>
              Early' /\ flag_outfile' = flag_outfile /\ (hasty' \/ Dry)
    <3>1. DaqEnd => sink_data' = FALSE /\ flag_outfile' = flag_outfile /\ epoch' = epoch
      BY DEF DaqEnd
    <3>2. DaqOpen => Dry /\ ~sink_data'
      BY DEF DaqOpen
    <3> HIDE DEF Early
    <3> QED
      BY <2>8, <3>1, <3>2
  <2>3. Dry' = Dry /\ Rolling' = Rolling
    BY <1>5, <2>1 DEF Rolling
  <2>5. NoFileNow /\ flag_outfile' => NoFileNow' \/ Dry'
    <3>1. NoFileNow => ~hasty'
      BY <2>1 DEF NoFileNow
    <3>2. DaqEnd /\ NoFileNow => NoFileNow'
      BY <2>1, <2>2, <3>1 DEF NoFileNow
    <3> QED
      BY <1>13, <2>2, <2>3, <3>1, <3>2
  <2>6. sink_data' => Early' \/ ~(DaqEnd \/ DaqOpen)
    BY <2>2
  <2>7. sink_data' => Early'
    BY <1>13, <2>2, <2>6
  <2>4. flag_outfile' /\ ~Rolling' =>
                        \/ outfile_fd' # 0 /\ table'[outfile_fd'] \in Files
                        \/ Dry' /\ (sink_data' => Early')
                        \/ NoFileNow'
    <3>1. DaqOpen => Dry'
      BY <2>2, <2>3
    <3>2. ~DaqOpen => flag_outfile' = flag_outfile
      BY <1>13, <2>2
    <3> QED
      BY <1>1, <2>1, <2>3, <2>5, <2>7, <3>1, <3>2 DEF IsFile
  <2> QED
    BY <1>1, <2>1, <2>4 DEF IsFile
<1>14. CASE DaqClose
  <2>1. /\ Dry /\ outfile_fd # 0 /\ main' = "close" /\ CloseFd(outfile_fd)
        /\ UNCHANGED <<serving, queue, data>>
    BY <1>14 DEF DaqClose
  <2>2. table'[0] = Stdin
    BY <1>1, <1>3, <1>4, <2>1
  <2> QED
    BY <1>5, <1>6, <2>1, <2>2
<1>15. CASE CloseFlag
  <2>1. /\ UNCHANGED <<table, outfile_fd, mfd, dfd, data>>
        /\ ~flag_outfile' /\ main' = "idle"
    BY <1>15 DEF CloseFlag
  <2> QED
    BY <1>1, <2>1 DEF IsFile
<1>16. CASE BeginZero \/ BeginNext \/ BeginNumber \/ BeginCall
  <2>1. /\ UNCHANGED <<table, outfile_fd, mfd, dfd, data, sink_data, flag_outfile, serving, queue,
                       hasty, refused, epoch>>
        /\ \/ main' \in {"number", "call"}
           \/ IF flag_outfile THEN main' = "open" ELSE main' = "idle"
        /\ main \in {"zero", "next", "number", "call"}
    BY <1>16 DEF BeginZero, BeginNext, BeginNumber, BeginCall
  <2>2. /\ Dry' = Dry /\ Rolling' = Rolling /\ NoFileNow' = NoFileNow
        /\ flag_outfile' => Early'
    BY <1>5, <2>1 DEF Rolling, NoFileNow, Beginning
  <2> QED
    BY <1>1, <2>1, <2>2 DEF IsFile
<1>17. CASE BeginOpen
  <2>1. /\ UNCHANGED <<outfile_fd, dfd, data, sink_data, flag_outfile, serving, queue,
                       hasty, refused, epoch>>
        /\ main = "open" /\ main' = "store" /\ mfd' = LowestFd /\ CanOpen(mrun) /\ CreateFile(mrun)
    BY <1>17 DEF BeginOpen
  <2>2. Dry' = Dry /\ Rolling' = Rolling /\ NoFileNow' = NoFileNow /\ Early'
    BY <1>5, <2>1 DEF Rolling, NoFileNow, Beginning
  <2>3. flag_outfile
    BY <1>1, <2>1
  <2>4. /\ LowestFd # 0 /\ table'[LowestFd] \in Files /\ table'[0] = Stdin
        /\ IsFile(outfile_fd) => outfile_fd # LowestFd /\ table'[outfile_fd] = table[outfile_fd]
        /\ IsFile(dfd) => dfd # LowestFd /\ table'[dfd] = table[dfd]
    BY <1>2, <1>3, <2>1
  <2>5. NoFileNow => outfile_fd # LowestFd
    BY <2>4 DEF NoFileNow
  <2> QED
    BY <1>1, <2>1, <2>2, <2>3, <2>4, <2>5 DEF IsFile
<1>18. CASE BeginRefused
  <2>1. /\ UNCHANGED <<table, outfile_fd, dfd, data, sink_data, flag_outfile, serving, queue,
                       hasty, epoch>>
        /\ main = "open" /\ main' = "store" /\ mfd' = 0
        /\ epoch' \in refused' /\ refused \subseteq refused'
    BY <1>18 DEF BeginRefused
  <2>2. Dry' = Dry /\ Rolling' = Rolling /\ (NoFileNow => NoFileNow') /\ Early'
    BY <1>5, <2>1 DEF Rolling, NoFileNow, Beginning
  <2>3. ~hasty'
    BY <2>1
  <2>4. data' = "store" => mfd' # dfd'
    BY <1>1, <2>1 DEF IsFile
  <2> QED
    BY <1>1, <2>1, <2>2, <2>3, <2>4 DEF IsFile
<1>19. CASE BeginStore
  <2>1. /\ UNCHANGED <<table, dfd, data, hasty, refused, epoch>>
        /\ main = "store" /\ main' = "idle" /\ outfile_fd' = mfd
    BY <1>19 DEF BeginStore
  <2>2. mfd = 0 /\ ~hasty /\ epoch \in refused => NoFileNow'
    <3>1. ~hasty => data \in {"check", "poll"}
      BY <2>1 DEF DryBetween, Beginning, Dry
    <3> QED
      BY <2>1, <3>1 DEF NoFileNow
  <2> QED
    BY <1>1, <2>1, <2>2 DEF IsFile
<1>21. CASE RollClose
  <2>1. /\ UNCHANGED <<outfile_fd, mfd, dfd, main, flag_outfile, hasty, refused, epoch>>
        /\ data = "close" /\ data' = "next" /\ CloseFd(outfile_fd)
    BY <1>21 DEF RollClose
  <2>2. ~Dry /\ flag_outfile /\ ~Rolling /\ Rolling' /\ ~NoFileNow
    BY <1>6, <2>1 DEF DryClose, Rolling, NoFileNow
  <2>3. IsFile(outfile_fd)
    BY <1>1, <2>2
  <2>4. table'[0] = Stdin
    BY <1>1, <1>3, <1>4, <2>1, <2>3 DEF IsFile
  <2>5. main = "store" => \/ IsFile(mfd) /\ table'[mfd] = table[mfd]
                          \/ mfd = 0 /\ ~hasty /\ epoch \in refused
    BY <1>1, <1>2, <1>3, <2>1, <2>2
  <2> QED
    BY <1>1, <2>1, <2>2, <2>4, <2>5 DEF IsFile
<1>22. CASE RollNext \/ RollNumber \/ RollCall \/ RollRefused
  <2>1. /\ UNCHANGED <<table, outfile_fd, mfd, dfd, main, flag_outfile, hasty, refused, epoch>>
        /\ data' \in {"number", "call", "open", "giveUp"}
    BY <1>22 DEF RollNext, RollNumber, RollCall, RollRefused
  <2>2. Rolling'
    BY <2>1 DEF Rolling
  <2> QED
    BY <1>1, <2>1, <2>2 DEF IsFile
<1>20. CASE GiveUp
  <2>1. /\ UNCHANGED <<table, mfd, dfd, main, flag_outfile, hasty, refused, epoch>>
        /\ data' = "exited"
    BY <1>20 DEF GiveUp
  <2>2. Rolling'
    BY <2>1 DEF Rolling
  <2> QED
    BY <1>1, <2>1, <2>2 DEF IsFile
<1>23. CASE RollOpen
  <2>1. /\ UNCHANGED <<outfile_fd, mfd, main, flag_outfile, hasty, refused, epoch>>
        /\ data' = "store" /\ dfd' = LowestFd /\ CanOpen(drun) /\ CreateFile(drun)
    BY <1>23 DEF RollOpen
  <2>2. Rolling'
    BY <2>1 DEF Rolling
  <2>3. /\ LowestFd # 0 /\ table'[LowestFd] \in Files /\ table'[0] = Stdin
        /\ IsFile(mfd) => mfd # LowestFd /\ table'[mfd] = table[mfd]
    BY <1>2, <1>3, <2>1
  <2> QED
    BY <1>1, <2>1, <2>2, <2>3 DEF IsFile
<1>24. CASE RollStore
  <2>1. /\ UNCHANGED <<table, mfd, main, flag_outfile, hasty, refused, epoch>>
        /\ data = "store" /\ data' = "check" /\ outfile_fd' = dfd
    BY <1>24 DEF RollStore
  <2> QED
    BY <1>1, <2>1 DEF IsFile
<1> QED
  BY <1>8, <1>9, <1>11, <1>12, <1>13, <1>14, <1>15, <1>16, <1>17, <1>18, <1>19, <1>20, <1>21,
     <1>22, <1>23, <1>24 DEF Next, MainStep, Command, DataStep

\* Every logged message that was sent is somewhere, write() failed on it, or its
\* run got no file.
LEMMA AllThereStep ==
    ASSUME SinkTypes, DryClose, InThisRun, CreatedOnce, InFlight, LoggedFlag, FilesOpen, AllThere,
           [Next]_vars
    PROVE  AllThere'
<1> DEFINE Here(b) ==
              \/ \E j \in DOMAIN msg : msg[j] = b
              \/ \E j \in DOMAIN queue[b.srv] : queue[b.srv][j] = b
              \/ b \in lost
              \/ \E f \in Files : \E j \in DOMAIN content[f] : content[f][j] = b
              \/ b \in spoiled \/ b.run \in refused
           There(b) ==
              \/ \E j \in DOMAIN msg' : msg'[j] = b
              \/ \E j \in DOMAIN queue'[b.srv] : queue'[b.srv][j] = b
              \/ b \in lost'
              \/ \E f \in Files : \E j \in DOMAIN content'[f] : content'[f][j] = b
              \/ b \in spoiled' \/ b.run \in refused'
<1>1. SUFFICES ASSUME Orderly, hasty' => refused' = {}, NEW s \in Servers, NEW i \in DOMAIN sent'[s],
                      sent'[s][i].logged
               PROVE  There(sent'[s][i])
  BY DEF AllThere, Everywhere, OnItsWay, Holding, ToSet
<1>2. (hasty => refused = {}) /\ refused \subseteq refused'
  BY <1>1, Remembered
<1>3. ASSUME NEW t \in Servers, NEW j \in DOMAIN sent[t], sent[t][j].logged
      PROVE  Here(sent[t][j])
  <2>1. Everywhere(sent[t][j])
    BY <1>1, <1>2, <1>3 DEF AllThere
  <2> QED
    BY <2>1 DEF Everywhere, OnItsWay, Holding, ToSet
<1>4. flag_outfile /\ data \in {"test", "write"} =>
          IsFile(outfile_fd) \/ (data = "test" /\ ~hasty /\ epoch \in refused)
  BY <1>1, <1>2 DEF FilesOpen, Rolling, Dry, NoFileNow
<1>5. ASSUME NEW t \in Servers, Send(t) PROVE There(sent'[s][i])
  <2>1. PICK b \in Message :
              /\ b.srv = t
              /\ \A u \in Servers : \A j \in DOMAIN sent'[u] :
                    \/ j \in DOMAIN sent[u] /\ sent'[u][j] = sent[u][j]
                    \/ u = t /\ j = b.n /\ sent'[u][j] = b
              /\ \A u \in Servers : \A j \in DOMAIN queue[u] :
                    j \in DOMAIN queue'[u] /\ queue'[u][j] = queue[u][j]
              /\ \/ b \in lost'
                 \/ \E j \in DOMAIN queue'[t] : queue'[t][j] = b
              /\ lost \subseteq lost'
              /\ msg' = msg /\ content' = content /\ spoiled' = spoiled /\ refused' = refused
    BY <1>5, SendEffect
  <2>2. CASE sent'[s][i] = b
    <3>1. There(b)
      BY <2>1
    <3> HIDE DEF There
    <3> QED
      BY <2>2, <3>1
  <2>3. CASE i \in DOMAIN sent[s] /\ sent'[s][i] = sent[s][i]
    <3> DEFINE c == sent[s][i]
    <3>1. Here(c) /\ c.srv = s
      BY <1>1, <1>3, <2>3 DEF InFlight
    <3> HIDE DEF c
    <3>2. ASSUME \E j \in DOMAIN queue[c.srv] : queue[c.srv][j] = c PROVE There(c)
      BY <1>1, <2>1, <3>1, <3>2
    <3>3. ASSUME (\E j \in DOMAIN msg : msg[j] = c) \/ c \in lost \/ c \in spoiled \/ c.run \in refused
          PROVE  There(c)
      BY <2>1, <3>3
    <3>4. ASSUME \E f \in Files : \E j \in DOMAIN content[f] : content[f][j] = c PROVE There(c)
      BY <2>1, <3>4
    <3>5. There(c)
      BY <3>1, <3>2, <3>3, <3>4
    <3> HIDE DEF There
    <3> QED
      BY <2>3, <3>5 DEF c
  <2> QED
    BY <2>1, <2>2, <2>3
<1>6. CASE ~(\E t \in Servers : Send(t))
  <2>1. sent' = sent
    BY <1>6, FlowSteps, ReceiveEffect, WriteEffect DEF Test
  <2> DEFINE c == sent[s][i]
  <2>2. Here(c) /\ c.srv = s /\ c.logged
    BY <1>1, <1>3, <2>1 DEF InFlight
  <2> HIDE DEF c
  <2>8. CASE c.run \in refused
    BY <1>2, <2>1, <2>8 DEF c
  <2>3. ASSUME NEW t \in Servers, Receive(t) PROVE There(c)
    <3>1. /\ data = "poll" /\ 1 \in DOMAIN queue[t]
          /\ msg' = << queue[t][1] >>
          /\ \A u \in Servers : u # t => queue'[u] = queue[u]
          /\ \A j \in DOMAIN queue[t] : j = 1 \/ (j - 1 \in DOMAIN queue'[t] /\ queue'[t][j - 1] = queue[t][j])
          /\ UNCHANGED <<content, lost, spoiled, refused>>
      BY <2>3, ReceiveEffect
    <3>2. msg = << >>
      BY <3>1 DEF InFlight
    <3>3. 1 \in DOMAIN msg' /\ msg'[1] = queue[t][1]
      BY <3>1
    <3>4. ASSUME NEW j \in DOMAIN queue[c.srv], queue[c.srv][j] = c PROVE There(c)
      <4>1. CASE c.srv = t
        BY <3>1, <3>3, <3>4, <4>1
      <4>2. CASE c.srv # t
        BY <2>2, <3>1, <3>4, <4>2
      <4> QED
        BY <4>1, <4>2
    <3> QED
      BY <2>2, <3>1, <3>2, <3>4
  <2>4. ASSUME Test PROVE There(c)
    <3>1. UNCHANGED <<queue, lost, content, spoiled, refused>> /\ data = "test"
      BY <2>4 DEF Test
    <3>2. ASSUME NEW j \in DOMAIN msg, msg[j] = c PROVE msg' = msg \/ c.run \in refused
      <4>1. flag_outfile
        BY <1>1, <2>2, <3>2 DEF LoggedFlag
      <4>2. CASE IsFile(outfile_fd)
        BY <2>4, <4>1, <4>2 DEF Test, IsFile
      <4>3. CASE ~hasty /\ epoch \in refused
        BY <3>2, <4>3 DEF InThisRun
      <4> QED
        BY <1>4, <3>1, <4>1, <4>2, <4>3
    <3> QED
      BY <2>2, <3>1, <3>2
  <2>5. ASSUME Write PROVE There(c)
    <3>1. /\ data = "write" /\ UNCHANGED <<queue, lost, refused>>
          /\ \A g \in Files : \A j \in DOMAIN content[g] :
                   j \in DOMAIN content'[g] /\ content'[g][j] = content[g][j]
          /\ table[outfile_fd] \in Files =>
                 \A j \in DOMAIN msg :
                     \/ msg[j] \in spoiled'
                     \/ \E k \in DOMAIN content'[table[outfile_fd]] :
                            content'[table[outfile_fd]][k] = msg[j]
          /\ spoiled \subseteq spoiled'
      BY <2>5, WriteEffect
    <3>2. ASSUME NEW j \in DOMAIN msg, msg[j] = c PROVE There(c)
      <4>1. flag_outfile
        BY <1>1, <2>2, <3>2 DEF LoggedFlag
      <4>2. table[outfile_fd] \in Files
        BY <1>4, <3>1, <4>1 DEF IsFile
      <4>3. CASE \E k \in DOMAIN content'[table[outfile_fd]] : content'[table[outfile_fd]][k] = msg[j]
        BY <3>2, <4>2, <4>3
      <4>4. CASE msg[j] \in spoiled'
        BY <3>2, <4>4
      <4> QED
        BY <3>1, <4>2, <4>3, <4>4
    <3> QED
      BY <2>2, <3>1, <3>2
  <2>6. ASSUME UNCHANGED <<sent, queue, msg, lost, content, spoiled>> PROVE There(c)
    BY <1>2, <2>2, <2>6
  <2>7. There(c)
    <3> HIDE DEF There
    <3> QED
      BY <1>6, <2>3, <2>4, <2>5, <2>6, FlowSteps
  <2> HIDE DEF There
  <2> QED
    BY <2>1, <2>7 DEF c
<1> QED
  BY <1>5, <1>6

\* Without haste, and with an orderly operator, a thread writes to the last file
\* created.
LEMMA NewestStep ==
    ASSUME SinkTypes, DryBetween, DryClose, StdinStays, Newest, [Next]_vars
    PROVE  Newest'
<1> DEFINE New(fd) == \/ table'[fd] \in {NoFile, Stdin}
                      \/ created' # << >> /\ table'[fd] = created'[Len(created')]
           Goal == /\ flag_outfile' /\ sink_data' /\ main' = "idle" => New(outfile_fd')
                   /\ data' \in {"next", "number", "call", "open"} => table'[outfile_fd'] = NoFile
                   /\ main' = "store" => New(mfd')
                   /\ data' = "store" => New(dfd')
<1> SUFFICES ASSUME Orderly, ~hasty' PROVE Goal
  BY DEF Newest, NewestFile
<1>0. ~hasty
  BY Remembered
<1>1. /\ flag_outfile /\ sink_data /\ main = "idle" => NewestFile(outfile_fd)
      /\ data \in {"next", "number", "call", "open"} => table[outfile_fd] = NoFile
      /\ main = "store" => NewestFile(mfd)
      /\ data = "store" => NewestFile(dfd)
      /\ table[0] = Stdin
  BY <1>0 DEF Newest, StdinStays
<1>2. outfile_fd \in Fds /\ mfd \in Fds /\ dfd \in Fds /\ mrun \in Files /\ drun \in Files
  BY DEF SinkTypes
<1>3. Beginning \/ ~sink_data => data \in {"check", "poll"}
  BY <1>0 DEF DryBetween, Dry
<1>4. CASE UNCHANGED <<table, created, outfile_fd, mfd, dfd>>
           /\ (data' = data \/ data' \notin {"store", "next", "number", "call", "open"})
           /\ (main' = main \/ main' \notin {"idle", "store"})
           /\ UNCHANGED <<flag_outfile, sink_data>>
  BY <1>1, <1>4 DEF NewestFile
<1>5. ASSUME NEW s \in Servers, ServerBegin(s) \/ Send(s) \/ ServerEnd(s)
      PROVE  Goal
  <2>1. UNCHANGED <<table, created, outfile_fd, mfd, dfd, data, main, flag_outfile, sink_data>>
    BY <1>5 DEF ServerBegin, Send, ServerEnd
  <2> QED
    BY <1>4, <2>1
<1>6. ASSUME NEW arg \in BOOLEAN, DaqBegin(arg) PROVE Goal
  <2>1. data' \in {"check", "poll"} /\ main' \in {"zero", "next"}
    BY <1>6 DEF DaqBegin, Dry
  <2> QED
    BY <2>1
<1>7. CASE BeginZero \/ BeginNext \/ BeginNumber \/ BeginCall
  <2>1. /\ data' \in {"check", "poll"}
        /\ main' \in {"number", "call", "open"} \/ (main' = "idle" /\ ~flag_outfile')
    BY <1>3, <1>7 DEF BeginZero, BeginNext, BeginNumber, BeginCall, Beginning
  <2> QED
    BY <2>1
\* The file that is created is the last one.
<1>8. ASSUME NEW run \in Files, CanOpen(run), CreateFile(run)
      PROVE  /\ table'[LowestFd] = run /\ created' # << >> /\ created'[Len(created')] = run
             /\ \A fd \in Fds : table[fd] = NoFile => table'[fd] \in {NoFile, run}
  <2>1. created \in Seq(Files) /\ table \in [Fds -> Files \cup {NoFile, Stdin}]
    BY DEF SinkTypes
  <2>2. created' = Append(created, run) /\ table' = [table EXCEPT ![LowestFd] = run]
    BY <1>8 DEF CreateFile
  <2>3. created' \in Seq(Files) /\ Len(created') = Len(created) + 1 /\ created'[Len(created) + 1] = run
    BY <1>8, <2>1, <2>2, AppendProperties
  <2>4. created' # << >>
    BY <2>1, <2>3, EmptySeq, LenProperties
  <2> QED
    BY <1>8, <2>1, <2>2, <2>3, <2>4, Lowest
<1>9. CASE BeginOpen
  <2>1. /\ data' \in {"check", "poll"} /\ main' = "store" /\ mfd' = LowestFd
        /\ CanOpen(mrun) /\ CreateFile(mrun)
    BY <1>3, <1>9 DEF BeginOpen, Beginning
  <2> QED
    BY <1>2, <1>8, <2>1
<1>10. CASE BeginRefused
  <2>1. data' \in {"check", "poll"} /\ main' = "store" /\ mfd' = 0 /\ table' = table
    BY <1>3, <1>10 DEF BeginRefused, Beginning
  <2> QED
    BY <1>1, <2>1
<1>11. CASE BeginStore
  <2>1. /\ data' \in {"check", "poll"} /\ main' = "idle" /\ outfile_fd' = mfd /\ main = "store"
        /\ UNCHANGED <<table, created>>
    BY <1>3, <1>11 DEF BeginStore, Beginning
  <2> QED
    BY <1>1, <2>1 DEF NewestFile
<1>13. CASE CloseFlag
  <2>1. /\ ~flag_outfile' /\ main' = "idle" /\ data' = data
        /\ UNCHANGED <<table, created, outfile_fd, dfd>>
    BY <1>13 DEF CloseFlag
  <2> QED
    BY <1>1, <2>1 DEF NewestFile
<1>14. CASE DaqEnd \/ DaqOpen
  <2>1. sink_data' = FALSE /\ main' = "idle" /\ data' \in {"check", "poll"}
    BY <1>0, <1>14 DEF DaqEnd, DaqOpen, Listens, Dry, SinkTypes
  <2> QED
    BY <2>1
<1>15. CASE DaqClose
  <2>1. main' = "close" /\ data' \in {"check", "poll"}
    BY <1>15 DEF DaqClose, Dry
  <2> QED
    BY <2>1
<1>16. CASE \/ \E volume \in {0, 1} : SetMaxVolume(volume)
            \/ CheckSink \/ Test \/ Write \/ RollRefused \/ \E s \in Servers : Receive(s)
  <2>1. /\ UNCHANGED <<table, created, outfile_fd, mfd, dfd, main, flag_outfile, sink_data>>
        /\ data' = data \/ data' \notin {"store", "next", "number", "call", "open"}
    BY <1>16 DEF SetMaxVolume, CheckSink, Test, Write, RollRefused, Receive
  <2> QED
    BY <1>4, <2>1
<1>17. CASE RollClose
  <2>1. /\ UNCHANGED <<outfile_fd, main, sink_data>>
        /\ CloseFd(outfile_fd) /\ data = "close" /\ data' = "next"
    BY <1>17 DEF RollClose
  <2>2. main # "store"
    BY <1>3, <2>1 DEF Beginning
  <2>3. table'[outfile_fd] = NoFile
    BY <1>2, <2>1 DEF CloseFd, SinkTypes
  <2> QED
    BY <2>1, <2>2, <2>3
<1>18. CASE RollNext \/ RollNumber \/ RollCall
  <2>1. /\ UNCHANGED <<table, created, outfile_fd, main, flag_outfile, sink_data>>
        /\ data \in {"next", "number", "call"} /\ data' \in {"number", "call", "open"}
    BY <1>18 DEF RollNext, RollNumber, RollCall
  <2>2. main # "store"
    BY <1>3, <2>1 DEF Beginning
  <2> QED
    BY <1>1, <2>1, <2>2
<1>19. CASE RollOpen
  <2>1. /\ UNCHANGED <<outfile_fd, main>>
        /\ CanOpen(drun) /\ CreateFile(drun) /\ dfd' = LowestFd /\ data = "open" /\ data' = "store"
    BY <1>19 DEF RollOpen
  <2>2. main # "store"
    BY <1>3, <2>1 DEF Beginning
  <2>3. table[outfile_fd] = NoFile
    BY <1>1, <2>1
  <2>4. New(outfile_fd)
    BY <1>2, <1>8, <2>1, <2>3
  <2> QED
    BY <1>2, <1>8, <2>1, <2>2, <2>4
<1>20. CASE RollStore
  <2>1. /\ outfile_fd' = dfd /\ data = "store" /\ data' = "check"
        /\ UNCHANGED <<table, created, main>>
    BY <1>20 DEF RollStore
  <2>2. main # "store"
    BY <1>3, <2>1 DEF Beginning
  <2> QED
    BY <1>1, <2>1, <2>2 DEF NewestFile
<1>12. CASE GiveUp
  <2>1. /\ outfile_fd' = 0 /\ data = "giveUp" /\ data' = "exited"
        /\ UNCHANGED <<table, created, main>>
    BY <1>12 DEF GiveUp
  <2>2. main # "store"
    BY <1>3, <2>1 DEF Beginning
  <2> QED
    BY <1>1, <2>1, <2>2
<1>21. CASE UNCHANGED vars
  BY <1>4, <1>21
<1>22. Goal
  BY <1>5, <1>6, <1>7, <1>9, <1>10, <1>11, <1>12, <1>13, <1>14, <1>15, <1>16, <1>17, <1>18,
     <1>19, <1>20, <1>21 DEF Next, MainStep, Command, DataStep
<1> QED
  BY <1>22

\* Without haste, a file created later has what was sent later.
LEMMA AcrossFilesStep ==
    ASSUME SinkTypes, DryBetween, DryClose, CreatedOnce, InFlight, Filed, Newest, AcrossFiles,
           [Next]_vars
    PROVE  AcrossFiles'
<1> DEFINE Goal == \A p, q \in DOMAIN created' : p < q =>
                      \A i \in DOMAIN content'[created'[p]], j \in DOMAIN content'[created'[q]] :
                          SentBefore(content'[created'[p]][i], content'[created'[q]][j])
<1> SUFFICES ASSUME Orderly, ~hasty' PROVE Goal
  BY DEF AcrossFiles, SentBefore
<1>0. ~hasty
  BY Remembered
<1>1. \A p, q \in DOMAIN created : p < q =>
          \A i \in DOMAIN content[created[p]], j \in DOMAIN content[created[q]] :
              SentBefore(content[created[p]][i], content[created[q]][j])
  BY <1>0 DEF AcrossFiles
<1>2. /\ created \in Seq(Files) /\ content \in [Files -> Seq(Message)] /\ mrun \in Files /\ drun \in Files
      /\ \A p \in DOMAIN created : created[p] \in Files /\ p \in Nat /\ p <= Len(created)
      /\ Len(created) \in Nat /\ DOMAIN created = 1 .. Len(created)
  <2>1. created \in Seq(Files) /\ content \in [Files -> Seq(Message)] /\ mrun \in Files /\ drun \in Files
    BY DEF SinkTypes
  <2>2. Len(created) \in Nat /\ DOMAIN created = 1 .. Len(created)
    BY <2>1, LenProperties
  <2>3. \A p \in DOMAIN created : created[p] \in Files
    BY <2>1, <2>2, ElementOfSeq
  <2> QED
    BY <2>1, <2>2, <2>3
<1>3. CASE UNCHANGED <<created, content>>
  BY <1>1, <1>3
<1>4. ASSUME NEW run \in Files, CanOpen(run), CreateFile(run) PROVE Goal
  <2>1. content' = content /\ created' = Append(created, run) /\ run \notin ToSet(created)
    BY <1>4, OpenEffect DEF CanOpen
  <2>2. content[run] = << >>
    BY <1>2, <2>1 DEF CreatedOnce
  <2>3. \A p \in DOMAIN created' : \/ p \in DOMAIN created /\ created'[p] = created[p]
                                   \/ p = Len(created) + 1 /\ created'[p] = run
    <3>1. \A p \in DOMAIN Append(created, run) :
              \/ p \in DOMAIN created /\ Append(created, run)[p] = created[p]
              \/ p = Len(created) + 1 /\ Append(created, run)[p] = run
      BY <1>2, AppendElements
    <3> QED
      BY <2>1, <3>1
  <2> SUFFICES ASSUME NEW p \in DOMAIN created', NEW q \in DOMAIN created', p < q,
                      NEW i \in DOMAIN content'[created'[p]], NEW j \in DOMAIN content'[created'[q]]
               PROVE  SentBefore(content'[created'[p]][i], content'[created'[q]][j])
    OBVIOUS
  <2>4. DOMAIN content[run] = {}
    BY <2>2
  <2>5. created'[p] # run /\ created'[q] # run
    BY <2>1, <2>4
  <2>6. /\ p \in DOMAIN created /\ created'[p] = created[p]
        /\ q \in DOMAIN created /\ created'[q] = created[q]
    BY <2>3, <2>5
  <2> QED
    BY <1>1, <2>1, <2>6
<1>5. CASE Write
  <2>1. /\ data = "write" /\ created' = created
        /\ \A g \in Files : \A i \in DOMAIN content'[g] :
              \/ i \in DOMAIN content[g] /\ content'[g][i] = content[g][i]
              \/ /\ g = table[outfile_fd]
                 /\ 1 \in DOMAIN msg /\ content'[g][i] = msg[1]
    BY <1>5, WriteEffect
  <2>2. NewestFile(outfile_fd)
    <3>1. main = "idle" /\ sink_data /\ flag_outfile
      BY <1>0, <2>1, InARun DEF DryClose
    <3> QED
      BY <1>0, <3>1 DEF Newest
  <2> SUFFICES ASSUME NEW p \in DOMAIN created, NEW q \in DOMAIN created, p < q,
                      NEW i \in DOMAIN content'[created[p]], NEW j \in DOMAIN content'[created[q]]
               PROVE  SentBefore(content'[created[p]][i], content'[created[q]][j])
    BY <2>1
  <2>3. created[p] # table[outfile_fd]
    <3>1. SUFFICES ASSUME created[p] = table[outfile_fd] PROVE FALSE
      OBVIOUS
    <3>2. created[p] \notin {NoFile, Stdin}
      BY <1>2, DatasinkAssumption DEF Files
    <3>3. created[p] = created[Len(created)] /\ Len(created) \in DOMAIN created
      BY <1>2, <2>2, <3>1, <3>2 DEF NewestFile
    <3>4. p = Len(created)
      BY <3>3 DEF CreatedOnce
    <3> QED
      BY <1>2, <3>4
  <2>4. i \in DOMAIN content[created[p]] /\ content'[created[p]][i] = content[created[p]][i]
    BY <1>2, <2>1, <2>3
  <2>5. CASE /\ j \in DOMAIN content[created[q]]
             /\ content'[created[q]][j] = content[created[q]][j]
    BY <1>1, <2>4, <2>5
  <2>6. CASE 1 \in DOMAIN msg /\ content'[created[q]][j] = msg[1]
    BY <1>2, <2>4, <2>6 DEF Filed
  <2> QED
    BY <1>2, <2>1, <2>5, <2>6
<1>6. ASSUME NEW s \in Servers, ServerBegin(s) \/ Send(s) \/ ServerEnd(s)
      PROVE  UNCHANGED <<created, content>>
  BY <1>6 DEF ServerBegin, Send, ServerEnd
<1>7. ASSUME MainStep \/ Command
      PROVE  (\E run \in Files : CanOpen(run) /\ CreateFile(run)) \/ UNCHANGED <<created, content>>
  BY <1>2, <1>7 DEF MainStep, Command, BeginZero, BeginNext, BeginNumber, BeginCall, BeginOpen,
                    BeginRefused, BeginStore, CloseFlag, DaqBegin, DaqEnd, DaqOpen, DaqClose, SetMaxVolume
<1>8. ASSUME DataStep
      PROVE  (\E run \in Files : CanOpen(run) /\ CreateFile(run)) \/ UNCHANGED <<created, content>> \/ Write
  BY <1>2, <1>8 DEF DataStep, CheckSink, Receive, Test, RollClose, RollNext, RollNumber,
                    RollCall, RollOpen, RollRefused, GiveUp, RollStore
<1>9. CASE UNCHANGED vars
  BY <1>3, <1>9
<1> QED
  BY <1>3, <1>4, <1>5, <1>6, <1>7, <1>8, <1>9 DEF Next

\* The inductive invariant.
LEMMA OneFileInvariance ==
    ASSUME Orderly
    PROVE  Spec => []OneFileInv
<1>1. Init => OneFileInv
  <2> SUFFICES ASSUME Init PROVE OneFileInv
    OBVIOUS
  <2>1. SinkTypes
    BY SinkTypesInit
  <2>2. Dry /\ main = "idle" /\ data = "check" /\ ~sink_data /\ ~flag_outfile /\ msg = << >>
    BY DEF Init, Dry
  <2>3. /\ \A s \in Servers : queue[s] = << >> /\ sent[s] = << >>
        /\ \A f \in Files : content[f] = << >>
        /\ created = << >>
    BY DEF Init, Files
  <2>4. /\ \A fd \in Fds : table[fd] \in {NoFile, Stdin}
        /\ table[0] = Stdin
    BY DatasinkAssumption DEF Init
  <2>5. DryBetween /\ DryClose /\ InThisRun /\ StdinStays
    BY <2>2, <2>3, <2>4 DEF DryBetween, DryClose, InThisRun, StdinStays
  <2>6. InFlight
    BY <2>2, <2>3 DEF InFlight
  <2>7. Filed
    BY <2>3 DEF Filed
  <2>8. CreatedOnce
    BY <2>3, <2>4 DEF CreatedOnce
  <2>9. FilesOpen
    BY <2>2, <2>4 DEF FilesOpen
  <2>10. LoggedFlag
    BY <2>2, <2>3 DEF LoggedFlag
  <2>11. AllThere
    BY <2>3 DEF AllThere
  <2>12. Newest /\ AcrossFiles
    BY <2>2, <2>3 DEF Newest, AcrossFiles
  <2> QED
    BY <2>1, <2>5, <2>6, <2>7, <2>8, <2>9, <2>10, <2>11, <2>12 DEF OneFileInv
<1>2. OneFileInv /\ [Next]_vars => OneFileInv'
  <2> SUFFICES ASSUME OneFileInv, [Next]_vars PROVE OneFileInv'
    OBVIOUS
  <2>1. /\ SinkTypes /\ DryBetween /\ DryClose /\ InThisRun /\ StdinStays
        /\ InFlight /\ Filed /\ CreatedOnce
        /\ FilesOpen /\ LoggedFlag /\ AllThere /\ Newest /\ AcrossFiles
    BY DEF OneFileInv
  <2>2. /\ SinkTypes' /\ DryBetween' /\ DryClose' /\ InThisRun' /\ StdinStays'
        /\ InFlight' /\ Filed' /\ CreatedOnce' /\ FilesOpen' /\ LoggedFlag'
    BY <2>1, SinkTypesStep, DryBetweenStep, DryCloseStep, InThisRunStep, StdinStaysStep,
       InFlightStep, FiledStep, CreatedOnceStep, FilesOpenStep, LoggedFlagStep
  <2>3. AllThere' /\ Newest' /\ AcrossFiles'
    BY <2>1, AllThereStep, NewestStep, AcrossFilesStep
  <2> QED
    BY <2>2, <2>3 DEF OneFileInv
<1> QED
  BY <1>1, <1>2, PTL DEF Spec

\* What a file has is no longer on its way.
LEMMA FiledIsThere ==
    ASSUME SinkTypes, InFlight, Filed, NEW s \in Servers, NEW b \in ToSet(sent[s]),
           NEW f \in Files, b \in ToSet(content[f])
    PROVE  ~OnItsWay(b) /\ Holding(b) = {f}
<1>1. PICK i \in DOMAIN content[f] : content[f][i] = b
  BY DEF ToSet
<1>2. PICK k \in DOMAIN sent[s] : sent[s][k] = b
  BY DEF ToSet
<1>3. b.srv = s /\ b.n = k
  BY <1>2 DEF InFlight
<1>4. k \in Nat
  <2>1. sent[s] \in Seq(Message)
    BY DEF SinkTypes
  <2>2. DOMAIN sent[s] = 1 .. Len(sent[s])
    BY <2>1, LenProperties
  <2> QED
    BY <1>2, <2>2
<1>5. ~(b.n < b.n)
  BY <1>3, <1>4
<1>6. \A j \in DOMAIN msg : msg[j] # b
  BY <1>1, <1>5 DEF Filed, SentBefore
<1>7. \A j \in DOMAIN queue[s] : queue[s][j] # b
  BY <1>1, <1>5 DEF Filed, SentBefore
<1>8. ~OnItsWay(b)
  BY <1>3, <1>6, <1>7 DEF OnItsWay, ToSet
<1>9. ASSUME NEW g \in Files, g # f PROVE b \notin ToSet(content[g])
  BY <1>1, <1>9 DEF Filed, ToSet
<1> QED
  BY <1>8, <1>9 DEF Holding

\* datasink files every buffer once: when the operator opens and closes between
\* runs, each logged buffer that no socket lost is on its way or in one file, in
\* order, unless write() failed on it or, with a patient operator, its run got no
\* file; and in order across files, if nobody hurries the sink.
THEOREM FilesOnce ==
    ASSUME Orderly
    PROVE  Spec => []InOneFile
<1>1. OneFileInv => InOneFile
  <2> SUFFICES ASSUME OneFileInv PROVE InOneFile
    OBVIOUS
  <2>1. ASSUME hasty => refused = {},
               NEW s \in Servers, NEW b \in ToSet(sent[s]), b.logged, b \notin lost
        PROVE  IF OnItsWay(b) THEN Holding(b) = {}
               ELSE \/ \E f \in Files : Holding(b) = {f}
                    \/ Holding(b) = {} /\ (b \in spoiled \/ b.run \in refused)
    <3>1. OnItsWay(b) \/ Holding(b) # {} \/ b \in spoiled \/ b.run \in refused
      <4>1. PICK i \in DOMAIN sent[s] : b = sent[s][i]
        BY DEF ToSet
      <4>2. Everywhere(sent[s][i])
        BY <2>1, <4>1 DEF OneFileInv, AllThere
      <4> QED
        BY <2>1, <4>1, <4>2 DEF Everywhere
    <3>2. ASSUME NEW f \in Files, b \in ToSet(content[f])
          PROVE  ~OnItsWay(b) /\ Holding(b) = {f}
      BY <3>2, FiledIsThere DEF OneFileInv
    <3>3. Holding(b) # {} => \E f \in Files : b \in ToSet(content[f])
      BY DEF Holding
    <3> QED
      BY <3>1, <3>2, <3>3
  <2>2. ASSUME ~hasty, NEW p \in DOMAIN created, NEW q \in DOMAIN created, p < q,
               NEW b \in ToSet(content[created[p]]), NEW c \in ToSet(content[created[q]])
        PROVE  SentBefore(b, c)
    <3>1. PICK i \in DOMAIN content[created[p]], j \in DOMAIN content[created[q]] :
              b = content[created[p]][i] /\ c = content[created[q]][j]
      BY DEF ToSet
    <3> QED
      BY <2>2, <3>1 DEF OneFileInv, AcrossFiles
  <2>3. \A f \in Files : \A i, j \in DOMAIN content[f] :
            i < j => SentBefore(content[f][i], content[f][j])
    BY DEF OneFileInv, Filed
  <2> QED
    BY <2>1, <2>2, <2>3 DEF InOneFile
<1> QED
  BY <1>1, OneFileInvariance, PTL

=============================================================================
