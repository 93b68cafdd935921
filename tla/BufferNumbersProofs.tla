------------------------ MODULE BufferNumbersProofs ------------------------
(***************************************************************************)
(* What leaves the double buffer.  On top of IInv, the numbers of the two  *)
(* buffers follow Buffer_number; from that, a gap in the file marks a      *)
(* failed write and nothing else.                                          *)
(* No step changes a buffer a consumer is reading.  And the double buffer  *)
(* implements EventStream twice, once for each consumer: every step maps   *)
(* to a step of it or to a stutter.                                        *)
(***************************************************************************)
EXTENDS BufferExchangeProofs

-----------------------------------------------------------------------------
(* The inductive invariant behind GapsShowLosses and the refinements.       *)

\* The buffer that is filled has the current number, a buffer in flight the
\* one before; a failed write was one of a buffer the writer is done with.
BufferNumbers ==
    /\ Bufseq[fillBuffer] = Buffer_number
    /\ WriterOwes \/ SenderOwes => Bufseq[transportBuffer] = Buffer_number - 1
    /\ LastDone \in Nat /\ dropped \subseteq 1 .. LastDone

\* Events are numbered from 1, up to the bound of the model.
EventNumbers ==
    /\ Event_number >= 1
    /\ \A t \in Threads : rd[t] # "out" => Event_number <= EventBound

NumbersInv ==
    /\ IInv /\ BufferNumbers /\ EventNumbers /\ GapsShowLosses

-----------------------------------------------------------------------------
USE DEF semVars, bufVars, countVars, runVars, writerVars, senderVars

\* A step that leaves the numbers and the debts of both consumers alone leaves
\* what they say alone.
LEMMA NumbersUnchanged ==
    ASSUME BufferNumbers, GapsShowLosses,
           UNCHANGED <<fillBuffer, transportBuffer, Bufseq, Buffer_number,
                       dropped, torn, fileBufs, outfile_fd>>,
           WriterOwes' <=> WriterOwes, SenderOwes' <=> SenderOwes
    PROVE  BufferNumbers' /\ GapsShowLosses'
<1>1. StoredBufs' = StoredBufs /\ LastDone' = LastDone
  BY DEF StoredBufs, LastDone
<1>2. BufferNumbers'
  BY <1>1 DEF BufferNumbers
<1>3. GapsShowLosses'
  BY <1>1 DEF GapsShowLosses
<1> QED
  BY <1>2, <1>3

\* switch_buffer() numbers the buffer it prepares: the one in flight is now one
\* behind, and no buffer has left the memory.
LEMMA SwapNumbers ==
    ASSUME NumbersInv, NEW t \in Threads, Swap(t)
    PROVE  BufferNumbers' /\ GapsShowLosses'
<1> USE DEF NumbersInv, IInv
<1>1. sw[t] = "swap" /\ sw'[t] = "unlockWrite"
  BY DEF Swap, TypeOK
<1>2. \A u \in Threads : u # t => sw[u] = "out"
  BY <1>1 DEF Exclusive, Busy
<1>3. ~WriterOwes /\ ~SenderOwes /\ WriterOwes' /\ SenderOwes' /\ sender' = "wait"
  BY <1>1, <1>2 DEF Swap, WriteToken, SendToken, WriterOwes, SenderOwes
<1>4. /\ fillBuffer' = transportBuffer /\ transportBuffer' = fillBuffer
      /\ Buffer_number' = Buffer_number + 1
      /\ Bufseq'[fillBuffer'] = Buffer_number + 1
      /\ Bufseq'[transportBuffer'] = Bufseq[fillBuffer]
      /\ UNCHANGED <<dropped, torn, fileBufs, outfile_fd>>
  BY DEF Swap, PrepareNext, Separate, TypeOK
<1>5. Buffer_number \in Nat
  BY DEF TypeOK
<1>6. LastDone' = LastDone
  BY <1>3, <1>4, <1>5 DEF LastDone
<1>7. BufferNumbers'
  <2>2. dropped' \subseteq 1 .. LastDone'
    BY <1>4, <1>6 DEF BufferNumbers, LastDone
  <2>3. Bufseq'[transportBuffer'] = Buffer_number' - 1
    BY <1>4, <1>5 DEF BufferNumbers
  <2>4. LastDone' \in Nat
    BY <1>6 DEF BufferNumbers
  <2> QED
    BY <1>4, <2>2, <2>3, <2>4 DEF BufferNumbers
<1>9. GapsShowLosses'
  <2>1. StoredBufs' = StoredBufs
    BY <1>4 DEF StoredBufs
  <2> QED
    BY <1>4, <1>6, <2>1 DEF GapsShowLosses
<1> QED
  BY <1>7, <1>9

\* Behind an increasing sequence of numbers up to n - 1, n keeps it increasing
\* and joins the set of its numbers.
LEMMA AppendNext ==
    ASSUME NEW n \in Nat, NEW s \in Seq(Nat), NEW lost,
           Increasing(s), Elements(s) = (1 .. (n - 1)) \ lost,
           n >= 1, n \notin lost
    PROVE  Increasing(Append(s, n)) /\ Elements(Append(s, n)) = (1 .. n) \ lost
<1> DEFINE r == Append(s, n)
<1>1. /\ DOMAIN s = 1 .. Len(s) /\ DOMAIN r = 1 .. Len(s) + 1 /\ Len(s) \in Nat
      /\ r[Len(s) + 1] = n /\ \A i \in DOMAIN s : r[i] = s[i]
  BY AppendProperties, LenProperties
<1>2. \A i \in DOMAIN s : s[i] \in 1 .. (n - 1)
  BY DEF Elements
<1> HIDE DEF r
<1>3. \A i \in DOMAIN r : i \in DOMAIN s \/ i = Len(s) + 1
  BY <1>1
<1>4. Increasing(r)
  <2> SUFFICES ASSUME NEW i \in DOMAIN r, NEW j \in DOMAIN r, i < j
               PROVE  r[i] < r[j]
    BY DEF Increasing
  <2>1. i \in DOMAIN s
    BY <1>1
  <2>2. CASE j \in DOMAIN s
    BY <1>1, <2>1, <2>2 DEF Increasing
  <2>3. CASE j = Len(s) + 1
    BY <1>1, <1>2, <2>1, <2>3
  <2> QED
    BY <1>3, <2>2, <2>3
<1>5. Elements(r) = Elements(s) \cup {n}
  <2> USE DEF Elements
  <2>1. ASSUME NEW x, x \in Elements(r)
        PROVE  x \in Elements(s) \cup {n}
    <3>1. PICK i \in DOMAIN r : x = r[i]
      BY <2>1
    <3> QED
      BY <1>1, <1>3, <3>1
  <2>2. ASSUME NEW x, x \in Elements(s) \cup {n}
        PROVE  x \in Elements(r)
    <3>1. CASE x = n
      <4>1. Len(s) + 1 \in DOMAIN r
        BY <1>1
      <4> QED
        BY <1>1, <3>1, <4>1
    <3>2. CASE x \in Elements(s)
      <4>1. PICK i \in DOMAIN s : x = s[i]
        BY <3>2
      <4> QED
        BY <1>1, <4>1
    <3> QED
      BY <2>2, <3>1, <3>2
  <2> QED
    BY <2>1, <2>2
<1>6. (1 .. n) \ lost = ((1 .. (n - 1)) \ lost) \cup {n}
  OBVIOUS
<1> QED
  BY <1>4, <1>5, <1>6 DEF r

\* The writer is done with buffer n = Buffer_number - 1: either n goes behind all
\* numbers of the file, or it is one of the dropped.
LEMMA WriterNumbers ==
    ASSUME NumbersInv, WriterStore \/ WriterFail \/ WriterSkip
    PROVE  BufferNumbers' /\ GapsShowLosses'
<1> USE DEF NumbersInv, IInv
<1> DEFINE n == Buffer_number - 1
<1>1. WriterRelease
  BY DEF WriterStore, WriterFail, WriterSkip
<1>2. WriterOwes /\ ~WriterOwes' /\ (SenderOwes' <=> SenderOwes)
  BY <1>1 DEF WriterRelease, WriterOwes, SenderOwes, WriteToken, TypeOK
<1>3. /\ UNCHANGED <<fillBuffer, transportBuffer, Bufseq, Buffer_number,
                     outfile_fd>>
      /\ Bufseq[wbuf] = n /\ wfd = outfile_fd
  BY <1>1, <1>2 DEF WriterRelease, Separate, BufferNumbers
<1>4. n \in Nat /\ n >= 1 /\ LastDone = n - 1 /\ LastDone' = n
  BY <1>2, <1>3 DEF LastDone, BufferNumbers, TypeOK
<1>5. dropped \subseteq 1 .. (n - 1)
  BY <1>4 DEF BufferNumbers
<1>6. /\ dropped' \subseteq 1 .. n
      /\ WriterStore \/ WriterSkip => dropped' = dropped
      /\ WriterFail => dropped' = dropped \cup {n}
  <2>1. (WriterStore \/ WriterSkip => dropped' = dropped)
        /\ (WriterFail => dropped' = dropped \cup {n})
    BY <1>3 DEF WriterStore, WriterFail, WriterSkip
  <2>2. 1 .. (n - 1) \subseteq 1 .. n /\ n \in 1 .. n
    BY <1>4
  <2> QED
    BY <1>5, <2>1, <2>2
<1>7. BufferNumbers'
  BY <1>2, <1>3, <1>4, <1>6 DEF BufferNumbers
<1>9. torn' \subseteq dropped' \/ outfile_fd = 0
  BY <1>3 DEF GapsShowLosses, WriterStore, WriterFail, WriterSkip
<1>8. GapsShowLosses'
  <2> SUFFICES ASSUME outfile_fd # 0 PROVE GapsShowLosses'
    BY <1>3 DEF GapsShowLosses
  <2> DEFINE s == fileBufs[outfile_fd]
  <2>1. /\ outfile_fd \in Fds /\ s \in Seq(Nat)
        /\ StoredBufs = s /\ StoredBufs' = fileBufs'[outfile_fd]
    BY <1>3 DEF StoredBufs, TypeOK
  <2>2. Increasing(s) /\ Elements(s) = (1 .. (n - 1)) \ dropped
    BY <1>4, <2>1 DEF GapsShowLosses
  <2>3. CASE WriterStore
    <3>1. StoredBufs' = Append(s, n) /\ n \notin dropped /\ dropped' = dropped
      <4>1. fileBufs \in [Fds -> Seq(Nat)]
        BY DEF TypeOK
      <4>2. fileBufs' = [fileBufs EXCEPT ![outfile_fd] = Append(@, n)]
        BY <1>3, <2>3 DEF WriterStore
      <4>3. StoredBufs' = Append(s, n)
        BY <2>1, <4>1, <4>2
      <4>4. n \notin dropped /\ dropped' = dropped
        BY <1>4, <1>5, <1>6, <2>3
      <4> QED
        BY <4>3, <4>4
    <3>2. n \in Nat /\ n >= 1 /\ LastDone' = n
      BY <1>4
    <3> HIDE DEF n, s
    <3>3. Increasing(Append(s, n)) /\ Elements(Append(s, n)) = (1 .. n) \ dropped
      BY <2>1, <2>2, <3>1, <3>2, AppendNext
    <3> QED
      BY <1>9, <3>1, <3>2, <3>3 DEF GapsShowLosses
  <2>4. CASE WriterFail
    <3>1. StoredBufs' = s
      BY <2>1, <2>4 DEF WriterFail
    <3>2. (1 .. n) \ dropped' = (1 .. (n - 1)) \ dropped
      BY <1>4, <1>6, <2>4
    <3> QED
      BY <1>4, <1>9, <2>2, <3>1, <3>2 DEF GapsShowLosses
  <2> QED
    BY <1>3, <2>3, <2>4 DEF WriterSkip
<1> QED
  BY <1>7, <1>8

\* The sender is done with its buffer, whose number it leaves alone.
LEMMA SenderNumbers ==
    ASSUME NumbersInv, SenderDone
    PROVE  BufferNumbers' /\ GapsShowLosses'
<1> USE DEF NumbersInv, IInv
<1>1. SenderOwes /\ ~SenderOwes' /\ (WriterOwes' <=> WriterOwes)
  BY DEF SenderDone, WriterOwes, SenderOwes, SendToken, TypeOK
<1>2. UNCHANGED <<fillBuffer, transportBuffer, Bufseq, Buffer_number, fileBufs,
                  dropped, torn, outfile_fd>>
  BY DEF SenderDone
<1>3. LastDone' = LastDone /\ StoredBufs' = StoredBufs
  BY <1>1, <1>2 DEF LastDone, StoredBufs
<1> QED
  BY <1>1, <1>2, <1>3 DEF BufferNumbers, GapsShowLosses

\* Event numbers start at 1 and a readout in progress stays within the bound:
\* only KeepEvent counts, and it ends the readout.
LEMMA EventNumbersStep ==
    ASSUME TypeOK, Exclusive, EventNumbers, [Next]_vars
    PROVE  EventNumbers'
<1> USE DEF EventNumbers
<1>0. rd \in [Threads -> {"out", "nextEvent", "retry", "addSubevents"}] /\ Event_number \in Nat
  BY DEF TypeOK
<1>1. ASSUME NEW t \in Threads, NEW e \in EventTypes, CallReadout(t, e)
      PROVE  EventNumbers'
  BY <1>0, <1>1 DEF CallReadout, EnterReadout
<1>2. ASSUME NEW t \in Threads, NEW timeUp \in BOOLEAN, KeepEvent(t, timeUp)
      PROVE  EventNumbers'
  <2>1. \A u \in Threads : u # t => rd[u] = "out"
    BY <1>2 DEF KeepEvent, Exclusive, Busy
  <2> QED
    BY <1>0, <1>2, <2>1 DEF KeepEvent
<1>3. ASSUME NEW t \in Threads, NextEvent(t) \/ BufferFull(t) \/ DropEmptyEvent(t)
      PROVE  EventNumbers'
  BY <1>0, <1>3 DEF NextEvent, BufferFull, DropEmptyEvent
<1>4. ASSUME UNCHANGED <<Event_number, rd>>
      PROVE  EventNumbers'
  BY <1>4
<1>5. ASSUME NEW t \in Threads, CallSwitch(t) \/ SwitchStep(t)
      PROVE  UNCHANGED <<Event_number, rd>>
  BY <1>5 DEF CallSwitch, EnterSwitch, SwitchStep, LockWriteProtect, LockSendProtect, Swap,
              UnlockWrite, UnlockSend
<1>6. ASSUME WriterStep \/ SenderStep
      PROVE  UNCHANGED <<Event_number, rd>>
  BY <1>6 DEF WriterStep, WriterTake, WriterStore, WriterFail, WriterSkip, WriterRelease,
              SenderStep, SenderTake, SenderDone
<1>7. ASSUME UNCHANGED vars
      PROVE  UNCHANGED <<Event_number, rd>>
  BY <1>7 DEF vars
<1> QED
  BY <1>1, <1>2, <1>3, <1>4, <1>5, <1>6, <1>7 DEF Next, ReadoutStep

-----------------------------------------------------------------------------
\* The initial state satisfies the invariant of the numbers.
LEMMA InitNumbers == Init => NumbersInv
<1> SUFFICES ASSUME Init PROVE NumbersInv
  OBVIOUS
<1>1. IInv
  BY InitInvariant
<1>2. ~WriterOwes /\ ~SenderOwes
  BY DEF Init, WriterOwes, SenderOwes
<1>3. LastDone = 0 /\ Len(<< >>) = 0 /\ DOMAIN << >> = {} /\ 1 .. 0 = {}
  BY <1>2 DEF Init, LastDone
<1>4. BufferNumbers /\ EventNumbers
  BY <1>2, <1>3 DEF Init, BufferNumbers, EventNumbers, Buffers
<1>5. GapsShowLosses
  <2>1. StoredBufs = << >> /\ dropped = {} /\ torn = {}
    BY DEF Init, StoredBufs
  <2>2. Increasing(StoredBufs) /\ Elements(StoredBufs) = {}
    BY <1>3, <2>1 DEF Increasing, Elements
  <2> QED
    BY <1>3, <2>1, <2>2 DEF GapsShowLosses
<1> QED
  BY <1>1, <1>4, <1>5 DEF NumbersInv

\* Every step keeps it.
LEMMA NextNumbers == NumbersInv /\ [Next]_vars => NumbersInv'
<1> SUFFICES ASSUME NumbersInv, [Next]_vars PROVE NumbersInv'
  OBVIOUS
<1> DEFINE Goal == BufferNumbers' /\ GapsShowLosses'
<1>1. IInv /\ IInv'
  BY NextInvariant DEF NumbersInv
<1>2. EventNumbers'
  BY EventNumbersStep DEF NumbersInv, IInv
<1>3. ASSUME \/ \E t \in Threads :
                 \/ \E e \in EventTypes : CallReadout(t, e)
                 \/ CallSwitch(t) \/ NextEvent(t) \/ BufferFull(t) \/ DropEmptyEvent(t)
                 \/ LockWriteProtect(t) \/ LockSendProtect(t) \/ UnlockWrite(t)
                 \/ UnlockSend(t)
             \/ WriterTake \/ SenderTake
      PROVE  Goal
  <2>1. (WriterOwes' <=> WriterOwes) /\ (SenderOwes' <=> SenderOwes)
    BY <1>1, <1>3, QuietStep
  <2>2. UNCHANGED <<fillBuffer, transportBuffer, Bufseq, Buffer_number,
                    dropped, torn, fileBufs, outfile_fd>>
    BY <1>3 DEF CallReadout, CallSwitch, NextEvent, BufferFull, DropEmptyEvent,
                LockWriteProtect, LockSendProtect, UnlockWrite, UnlockSend, WriterTake,
                SenderTake
  <2> QED
    BY <2>1, <2>2, NumbersUnchanged DEF NumbersInv
<1>4. ASSUME NEW t \in Threads, NEW timeUp \in BOOLEAN, KeepEvent(t, timeUp)
      PROVE  Goal
  <2>1. (WriterOwes' <=> WriterOwes) /\ (SenderOwes' <=> SenderOwes)
    BY <1>1, <1>4, KeepEventStep
  <2>2. UNCHANGED <<fillBuffer, transportBuffer, Bufseq, Buffer_number,
                    dropped, torn, fileBufs, outfile_fd>>
    BY <1>4 DEF KeepEvent
  <2> QED
    BY <2>1, <2>2, NumbersUnchanged DEF NumbersInv, BufferNumbers
<1>5. ASSUME NEW t \in Threads, Swap(t)
      PROVE  Goal
  BY <1>5, SwapNumbers
<1>6. ASSUME WriterStore \/ WriterFail \/ WriterSkip
      PROVE  Goal
  BY <1>6, WriterNumbers
<1>7. ASSUME SenderDone
      PROVE  Goal
  BY <1>7, SenderNumbers
<1>8. ASSUME UNCHANGED vars
      PROVE  Goal
  <2>1. (WriterOwes' <=> WriterOwes) /\ (SenderOwes' <=> SenderOwes)
    BY <1>8 DEF vars, WriterOwes, SenderOwes
  <2> QED
    BY <1>8, <2>1, NumbersUnchanged DEF vars, NumbersInv, BufferNumbers
<1>9. Goal
  BY <1>3, <1>4, <1>5, <1>6, <1>7, <1>8
     DEF Next, ReadoutStep, SwitchStep, WriterStep, SenderStep
<1> QED
  BY <1>1, <1>2, <1>9 DEF NumbersInv

\* NumbersInv holds in every reachable state.
THEOREM NumbersInvariance == Spec => []NumbersInv
<1> QED
  BY InitNumbers, NextNumbers, PTL DEF Spec

\* The buffer numbers in the file increase, and exactly the buffers whose
\* write() failed are missing.
THEOREM GapsCorrect == Spec => []GapsShowLosses
<1>1. NumbersInv => GapsShowLosses
  BY DEF NumbersInv
<1> QED
  BY <1>1, NumbersInvariance, PTL

-----------------------------------------------------------------------------
(***************************************************************************)
(* No step changes a buffer that a consumer is reading.                    *)
(***************************************************************************)
\* The four steps that write into a buffer write into the fill buffer, seal a
\* transport buffer that is sealed already, or prepare a buffer nobody owes.
LEMMA StableStep == IInv /\ [Next]_vars => [UsedBuffersSame]_vars
<1> SUFFICES ASSUME IInv, [Next]_vars
             PROVE  UsedBuffersSame
  OBVIOUS
<1> USE DEF IInv, UsedBuffersSame, SameBuffer
<1>0. /\ writer = "writing" => wbuf = transportBuffer
      /\ sender = "sending" => sbuf = transportBuffer
      /\ writer = "writing" \/ sender = "sending" => has_end[transportBuffer] = 1
      /\ fillBuffer # transportBuffer
      /\ fillBuffer \in Buffers /\ transportBuffer \in Buffers
  BY DEF Separate, WriterOwes, SenderOwes, TypeOK
<1>1. ASSUME UNCHANGED <<events, header, has_end, Bufseq>>
      PROVE  UsedBuffersSame
  BY <1>1
<1>2. ASSUME NEW t \in Threads, NEW e \in EventTypes,
             CallReadout(t, e) \/ CallSwitch(t) \/ BufferFull(t) \/ LockWriteProtect(t)
             \/ LockSendProtect(t) \/ UnlockWrite(t) \/ UnlockSend(t)
      PROVE  UsedBuffersSame
  BY <1>1, <1>2 DEF CallReadout, CallSwitch, BufferFull, LockWriteProtect, LockSendProtect,
                    UnlockWrite, UnlockSend
<1>3. ASSUME NEW t \in Threads, NextEvent(t) \/ DropEmptyEvent(t)
      PROVE  UsedBuffersSame
  BY <1>0, <1>3 DEF NextEvent, DropEmptyEvent, TypeOK
<1>4. ASSUME NEW t \in Threads, NEW timeUp \in BOOLEAN, KeepEvent(t, timeUp)
      PROVE  UsedBuffersSame
  BY <1>0, <1>4 DEF KeepEvent, TypeOK
<1>5. ASSUME NEW t \in Threads, Swap(t)
      PROVE  UsedBuffersSame
  BY <1>5 DEF Swap, WriteToken, SendToken
<1>6. ASSUME WriterTake \/ SenderTake
      PROVE  UsedBuffersSame
  BY <1>0, <1>6 DEF WriterTake, SenderTake, SealTransport, TypeOK
<1>7. ASSUME WriterStore \/ WriterFail \/ WriterSkip \/ SenderDone
      PROVE  UsedBuffersSame
  BY <1>1, <1>7 DEF WriterStore, WriterFail, WriterSkip, WriterRelease, SenderDone
<1>8. ASSUME UNCHANGED vars
      PROVE  UsedBuffersSame
  BY <1>1, <1>8 DEF vars
<1>9. EventTypes # {}
  BY ExchangeAssumption
<1> QED
  BY <1>2, <1>3, <1>4, <1>5, <1>6, <1>7, <1>8, <1>9
     DEF Next, ReadoutStep, SwitchStep, WriterStep, SenderStep

\* While writeout() or sendDataZmq() reads a buffer, no step of any thread
\* changes it.
THEOREM StableBuffers == Spec => StableWhileInUse
<1> QED
  BY StableStep, Invariance, PTL DEF Spec, StableWhileInUse

-----------------------------------------------------------------------------
(***************************************************************************)
(* The batch that leaves memory is a prefix of it.                         *)
(***************************************************************************)
\* Of a stream a \o b, the first Len(a) events are a and the rest is b.
LEMMA SplitStream ==
    \A a, b \in Seq(Event) :
        /\ SubSeq(a \o b, 1, Len(a)) = a
        /\ SubSeq(a \o b, Len(a) + 1, Len(a \o b)) = b
        /\ Len(a) \in Nat /\ Len(a) <= Len(a \o b)
        /\ a # << >> => Len(a) >= 1
<1> TAKE a, b \in Seq(Event)
<1> DEFINE c == a \o b
<1>1. /\ c \in Seq(Event) /\ Len(c) = Len(a) + Len(b)
      /\ \A i \in 1 .. Len(a) : c[i] = a[i]
      /\ \A i \in 1 .. Len(b) : c[Len(a) + i] = b[i]
      /\ Len(a) \in Nat /\ Len(b) \in Nat
  BY ConcatProperties, LenProperties
<1>2. a # << >> => Len(a) >= 1
  BY EmptySeq, LenProperties
<1> HIDE DEF c
<1>3. SubSeq(c, 1, Len(a)) = a
  BY <1>1, SubSeqProperties, SeqEqual
<1>4. SubSeq(c, Len(a) + 1, Len(c)) = b
  BY <1>1, SubSeqProperties, SeqEqual
<1> QED
  BY <1>1, <1>2, <1>3, <1>4 DEF c

\* A batch a at the head of the memory stream m, stored behind st, is a Store of
\* the file stream (a discarded one a Discard), or no step at all if it is empty.
LEMMA FileBatch ==
    ASSUME NEW a \in Seq(Event), ForWriter' \in Seq(Event), Stored \in Seq(Event),
           ForWriter = a \o ForWriter', outfile_fd' = outfile_fd,
           \/ outfile_fd # 0 /\ Stored' = Stored \o a
           \/ (outfile_fd = 0 \/ DiskMayFail) /\ Stored' = Stored
    PROVE  [FileStream!Next]_(FileStream!vars)
<1>1. PICK b \in Seq(Event) : b = ForWriter'
  OBVIOUS
<1>2. ForWriter = a \o b
  BY <1>1
<1>3. /\ SubSeq(ForWriter, 1, Len(a)) = a
      /\ SubSeq(ForWriter, Len(a) + 1, Len(ForWriter)) = ForWriter'
      /\ Len(a) \in Nat /\ Len(a) <= Len(ForWriter)
      /\ a # << >> => Len(a) >= 1
  <2>1. /\ SubSeq(a \o b, 1, Len(a)) = a /\ SubSeq(a \o b, Len(a) + 1, Len(a \o b)) = b
        /\ Len(a) \in Nat /\ Len(a) <= Len(a \o b)
        /\ a # << >> => Len(a) >= 1
    BY SplitStream, Zenon
  <2> QED
    BY <1>1, <1>2, <2>1
<1>4. Len(ForWriter) \in Nat
  <2>1. a \o b \in Seq(Event)
    BY <1>1, ConcatProperties
  <2> QED
    BY <1>2, <2>1, LenProperties
<1>5. CASE a = << >>
  <2>1. ForWriter' = ForWriter
    BY <1>1, <1>2, <1>5, ConcatEmptySeq
  <2>2. Stored' = Stored
    BY <1>5, ConcatEmptySeq
  <2> QED
    BY <2>1, <2>2 DEF FileStream!vars
<1>6. CASE a # << >>
  <2>1. Len(a) \in 1 .. Len(ForWriter)
    BY <1>3, <1>4, <1>6
  <2>2. ForWriter' = FileStream!Rest(Len(a))
    BY <1>3 DEF FileStream!Rest
  <2>3. FileStream!Store(Len(a)) \/ FileStream!Discard(Len(a))
    BY <1>3, <2>2 DEF FileStream!Store, FileStream!Discard
  <2> QED
    BY <2>1, <2>3 DEF FileStream!Next
<1> QED
  BY <1>5, <1>6

\* The same for the monitoring stream, which loses nothing.
LEMMA MonitorBatch ==
    ASSUME NEW a \in Seq(Event), ForSender' \in Seq(Event), monitored \in Seq(Event),
           ForSender = a \o ForSender', monitored' = monitored \o a
    PROVE  [MonitorStream!Next]_(MonitorStream!vars)
<1>1. PICK b \in Seq(Event) : b = ForSender'
  OBVIOUS
<1>2. ForSender = a \o b
  BY <1>1
<1>3. /\ SubSeq(ForSender, 1, Len(a)) = a
      /\ SubSeq(ForSender, Len(a) + 1, Len(ForSender)) = ForSender'
      /\ Len(a) \in Nat /\ Len(a) <= Len(ForSender)
      /\ a # << >> => Len(a) >= 1
  <2>1. /\ SubSeq(a \o b, 1, Len(a)) = a /\ SubSeq(a \o b, Len(a) + 1, Len(a \o b)) = b
        /\ Len(a) \in Nat /\ Len(a) <= Len(a \o b)
        /\ a # << >> => Len(a) >= 1
    BY SplitStream, Zenon
  <2> QED
    BY <1>1, <1>2, <2>1
<1>4. Len(ForSender) \in Nat
  <2>1. a \o b \in Seq(Event)
    BY <1>1, ConcatProperties
  <2> QED
    BY <1>2, <2>1, LenProperties
<1>5. CASE a = << >>
  <2>1. ForSender' = ForSender
    BY <1>1, <1>2, <1>5, ConcatEmptySeq
  <2>2. monitored' = monitored
    BY <1>5, ConcatEmptySeq
  <2> QED
    BY <2>1, <2>2 DEF MonitorStream!vars
<1>6. CASE a # << >>
  <2>1. Len(a) \in 1 .. Len(ForSender)
    BY <1>3, <1>4, <1>6
  <2>2. ForSender' = MonitorStream!Rest(Len(a))
    BY <1>3 DEF MonitorStream!Rest
  <2>3. MonitorStream!Store(Len(a))
    BY <1>3, <2>2 DEF MonitorStream!Store
  <2> QED
    BY <2>1, <2>3 DEF MonitorStream!Next
<1> QED
  BY <1>5, <1>6

\* The payload of the streams are events.
LEMMA PayloadEvents == Payload \subseteq Event
<1>1. Fds \subseteq Nat /\ 1 .. EventBound \subseteq Nat
  BY ExchangeAssumption
<1>2. ASSUME NEW e \in Payload PROVE e \in Event
  <2>1. PICK r \in Fds, y \in EventTypes, n \in 1 .. EventBound :
            e = [run |-> r, type |-> y, num |-> n]
    BY <1>2 DEF Payload
  <2>2. r \in Nat /\ n \in Nat
    BY <1>1
  <2> QED
    BY <2>1, <2>2 DEF Event
<1> QED
  BY <1>2

\* What Accept says of a stream to which one event is appended.
LEMMA AppendAccepted ==
    \A m \in Seq(Event), e \in Event :
        /\ Len(Append(m, e)) = Len(m) + 1
        /\ SubSeq(Append(m, e), 1, Len(m)) = m
        /\ Append(m, e)[Len(m) + 1] = e
<1> TAKE m \in Seq(Event), e \in Event
<1>1. /\ Append(m, e) \in Seq(Event) /\ Len(Append(m, e)) = Len(m) + 1
      /\ \A i \in 1 .. Len(m) : Append(m, e)[i] = m[i]
      /\ Append(m, e)[Len(m) + 1] = e /\ Len(m) \in Nat
  BY AppendProperties, LenProperties
<1>2. SubSeq(Append(m, e), 1, Len(m)) = m
  BY <1>1, SubSeqProperties, SeqEqual
<1> QED
  BY <1>1, <1>2

\* The event that readout() keeps is a legal event of the abstract stream.
LEMMA KeptPayload ==
    ASSUME NumbersInv, NEW t \in Threads, NEW timeUp \in BOOLEAN, KeepEvent(t, timeUp)
    PROVE  header[fillBuffer] \in Payload
<1>1. header[fillBuffer] = [run |-> TheRun, type |-> etype[t], num |-> Event_number]
  BY DEF KeepEvent, NumbersInv, IInv, SubeventsGoToOwnEvent
<1>2. TheRun \in Fds /\ etype[t] \in EventTypes /\ Event_number \in Nat
  BY DEF NumbersInv, IInv, TypeOK
<1>3. Event_number >= 1 /\ Event_number <= EventBound
  BY DEF KeepEvent, NumbersInv, EventNumbers
<1> QED
  BY <1>1, <1>2, <1>3, ExchangeAssumption DEF Payload

\* The initial state of the exchange is one of both abstract streams.
LEMMA InitStreams == Init => FileStream!Init /\ MonitorStream!Init
<1> SUFFICES ASSUME Init PROVE FileStream!Init /\ MonitorStream!Init
  OBVIOUS
<1>1. ~WriterOwes /\ ~SenderOwes
  BY DEF Init, WriterOwes, SenderOwes
<1>2. ForWriter = << >> \o << >> /\ ForSender = << >> \o << >>
      /\ Stored = << >> /\ monitored = << >>
  BY <1>1 DEF Init, ForWriter, ForSender, Stored, Buffers
<1>3. << >> \o << >> = << >>
  BY EmptySeq, ConcatEmptySeq
<1> QED
  BY <1>2, <1>3 DEF FileStream!Init, MonitorStream!Init

\* Every step of the exchange is a step of both streams, or no step of them.
LEMMA StreamsStep ==
    NumbersInv /\ [Next]_vars
        => [FileStream!Next]_(FileStream!vars) /\ [MonitorStream!Next]_(MonitorStream!vars)
<1> DEFINE F == [FileStream!Next]_(FileStream!vars)
           M == [MonitorStream!Next]_(MonitorStream!vars)
<1> SUFFICES ASSUME NumbersInv, [Next]_vars PROVE F /\ M
  OBVIOUS
<1>0. /\ IInv /\ TypeOK /\ IInv'
      /\ events[transportBuffer] \in Seq(Event) /\ monitored \in Seq(Event)
      /\ Stored \in Seq(Event)
  BY NextInvariant, EmptySeq DEF NumbersInv, IInv, TypeOK, Stored
<1>1. ForWriter' \in Seq(Event) /\ ForSender' \in Seq(Event)
  <2>1. /\ events'[transportBuffer'] \in Seq(Event) /\ events'[fillBuffer'] \in Seq(Event)
        /\ << >> \in Seq(Event)
    BY <1>0, EmptySeq DEF IInv, TypeOK
  <2> QED
    BY <2>1, ConcatProperties DEF ForWriter, ForSender
<1>2. ASSUME UNCHANGED <<ForWriter, ForSender, outfile_fd, Stored, monitored>>
      PROVE  F /\ M
  BY <1>2 DEF FileStream!vars, MonitorStream!vars
<1>3. ASSUME \/ \E t \in Threads :
                 \/ \E e \in EventTypes : CallReadout(t, e)
                 \/ CallSwitch(t) \/ NextEvent(t) \/ BufferFull(t) \/ DropEmptyEvent(t)
                 \/ LockWriteProtect(t) \/ LockSendProtect(t) \/ UnlockWrite(t)
                 \/ UnlockSend(t)
             \/ WriterTake \/ SenderTake
      PROVE  F /\ M
  <2>1. UNCHANGED <<fillBuffer, transportBuffer, events, accepted, outfile_fd, file,
                    monitored, dropped>>
    BY <1>3 DEF CallReadout, CallSwitch, NextEvent, BufferFull, DropEmptyEvent,
                LockWriteProtect, LockSendProtect, UnlockWrite, UnlockSend, WriterTake,
                SenderTake
  <2>2. UNCHANGED <<ForWriter, ForSender, Stored>>
    BY <1>0, <1>3, <2>1, QuietStep, StreamsUnchanged
  <2> QED
    BY <1>2, <2>1, <2>2
<1>4. ASSUME NEW t \in Threads, NEW timeUp \in BOOLEAN, KeepEvent(t, timeUp)
      PROVE  F /\ M
  <2>1. /\ ForWriter' = Append(ForWriter, header[fillBuffer])
        /\ ForSender' = Append(ForSender, header[fillBuffer])
    BY <1>0, <1>4, KeepEventStep
  <2>2. header[fillBuffer] \in Payload
    BY <1>4, KeptPayload
  <2>3. UNCHANGED <<outfile_fd, Stored, monitored>>
    BY <1>4 DEF KeepEvent, Stored
  <2>4. ForWriter \in Seq(Event) /\ ForSender \in Seq(Event)
    <3>1. events[transportBuffer] \in Seq(Event) /\ events[fillBuffer] \in Seq(Event)
          /\ << >> \in Seq(Event)
      BY <1>0, EmptySeq DEF IInv, TypeOK
    <3> QED
      BY <3>1, ConcatProperties DEF ForWriter, ForSender
  <2>5. header[fillBuffer] \in Event
    BY <2>2, PayloadEvents
  <2>6. FileStream!Accept
    BY <2>1, <2>2, <2>3, <2>4, <2>5, AppendAccepted DEF FileStream!Accept
  <2>7. MonitorStream!Accept
    BY <2>1, <2>2, <2>3, <2>4, <2>5, AppendAccepted DEF MonitorStream!Accept
  <2> QED
    BY <2>6, <2>7 DEF FileStream!Next, MonitorStream!Next
<1>5. ASSUME NEW t \in Threads, Swap(t)
      PROVE  F /\ M
  <2>1. UNCHANGED <<ForWriter, ForSender>>
    BY <1>0, <1>5, SwapStep
  <2>2. UNCHANGED <<outfile_fd, Stored, monitored>>
    BY <1>5 DEF Swap, Stored
  <2> QED
    BY <1>2, <2>1, <2>2
<1>6. ASSUME WriterStore \/ WriterFail \/ WriterSkip
      PROVE  F /\ M
  <2>1. ForWriter = events[transportBuffer] \o ForWriter' /\ ForSender' = ForSender
    BY <1>0, <1>6, WriterReleaseStep
  <2>2. /\ outfile_fd' = outfile_fd /\ monitored' = monitored
        /\ wbuf = transportBuffer /\ wfd = outfile_fd
    BY <1>0, <1>6 DEF WriterStore, WriterFail, WriterSkip, WriterRelease, IInv, Separate
  <2>3. \/ outfile_fd # 0 /\ Stored' = Stored \o events[transportBuffer]
        \/ (outfile_fd = 0 \/ DiskMayFail) /\ Stored' = Stored
    <3>1. CASE WriterStore
      BY <1>0, <2>2, <3>1 DEF WriterStore, Stored, TypeOK
    <3>2. CASE WriterFail \/ WriterSkip
      BY <2>2, <3>2 DEF WriterFail, WriterSkip, Stored
    <3> QED
      BY <1>6, <3>1, <3>2
  <2>4. F
    BY <1>0, <1>1, <2>1, <2>2, <2>3, FileBatch
  <2>5. M
    BY <2>1, <2>2 DEF MonitorStream!vars
  <2> QED
    BY <2>4, <2>5
<1>7. ASSUME SenderDone
      PROVE  F /\ M
  <2>1. /\ ForSender = events[transportBuffer] \o ForSender'
        /\ monitored' = monitored \o events[transportBuffer]
        /\ ForWriter' = ForWriter
    BY <1>0, <1>7, SenderDoneStep
  <2>2. UNCHANGED <<outfile_fd, Stored>>
    BY <1>7 DEF SenderDone, Stored
  <2>3. M
    BY <1>0, <1>1, <2>1, MonitorBatch
  <2>4. F
    BY <2>1, <2>2 DEF FileStream!vars
  <2> QED
    BY <2>3, <2>4
<1>8. ASSUME UNCHANGED vars
      PROVE  F /\ M
  <2>1. (WriterOwes' <=> WriterOwes) /\ (SenderOwes' <=> SenderOwes)
    BY <1>8 DEF vars, WriterOwes, SenderOwes
  <2> QED
    BY <1>2, <1>8, <2>1, StreamsUnchanged DEF vars
<1> HIDE DEF F, M
<1> QED
  BY <1>3, <1>4, <1>5, <1>6, <1>7, <1>8
     DEF Next, ReadoutStep, SwitchStep, WriterStep, SenderStep

\* What reaches the output file is the abstract event stream: no interleaving
\* of the threads makes the file lose, repeat or reorder an event.
THEOREM FileRefinement == Spec => ImplementsFileStream
<1> QED
  BY InitStreams, StreamsStep, NumbersInvariance, PTL
     DEF Spec, ImplementsFileStream, FileStream!Spec

\* What reaches the monitors is the abstract event stream without losses.
THEOREM MonitorRefinement == Spec => ImplementsMonitorStream
<1> QED
  BY InitStreams, StreamsStep, NumbersInvariance, PTL
     DEF Spec, ImplementsMonitorStream, MonitorStream!Spec

=============================================================================
