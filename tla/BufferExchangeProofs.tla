------------------------ MODULE BufferExchangeProofs ------------------------
(***************************************************************************)
(* For every number of threads, every capacity and every bound, the double *)
(* buffer loses, repeats and reorders nothing.  The invariant IInv is      *)
(* proved part by part; what each part needs of the others is in the       *)
(* ASSUME of its lemma.                                                    *)
(***************************************************************************)
EXTENDS BufferExchange, SequenceTheorems, TLAPS

-----------------------------------------------------------------------------
(* The inductive invariant behind NothingLost and MonitorSeesAll.           *)

\* One thread at a time is in readout() or switch_buffer(), and readout()
\* waits inside switch_buffer() only before its second nextEvent().
Exclusive ==
    /\ \A t, u \in Threads : t # u => ~Busy(t) \/ ~Busy(u)
    /\ \A t \in Threads : rd[t] \in {"nextEvent", "addSubevents"} => sw[t] = "out"

\* WriteProtectSem, WriteSem and the writer's turn are one token: at most one
\* of them has it, or a thread between lock(WriteProtectSem) and
\* unlock(WriteSem).  The same for the sender.
WriteToken ==
    /\ WriteSem = 1 => WriteProtectSem = 0 /\ writer = "wait"
    /\ writer = "writing" => WriteProtectSem = 0
    /\ \A t \in Threads : sw[t] \in {"lockSend", "swap", "unlockWrite"} =>
            WriteProtectSem = 0 /\ WriteSem = 0 /\ writer = "wait"

SendToken ==
    /\ SendSem = 1 => SendProtectSem = 0 /\ sender = "wait"
    /\ sender = "sending" => SendProtectSem = 0
    /\ \A t \in Threads : sw[t] \in {"swap", "unlockWrite", "unlockSend"} =>
            SendProtectSem = 0 /\ SendSem = 0 /\ sender = "wait"

\* The consumers work on the transport buffer, which is closed and is not
\* the fill buffer.
Separate ==
    /\ fillBuffer # transportBuffer
    /\ WriterOwes \/ SenderOwes => has_end[transportBuffer] = 1
    /\ writer = "writing" => wbuf = transportBuffer /\ wfd = outfile_fd
    /\ sender = "sending" => sbuf = transportBuffer

\* The fill buffer carries the current run; the second nextEvent() meets an
\* empty buffer, and an open event has room.
FillReady ==
    /\ Runnr[fillBuffer] = TheRun
    /\ \A t \in Threads :
        /\ rd[t] = "retry" /\ sw[t] \in {"unlockWrite", "unlockSend", "out"} =>
                events[fillBuffer] = << >>
        /\ rd[t] = "addSubevents" => HasRoom(fillBuffer)

IInv ==
    /\ TypeOK /\ Exclusive /\ WriteToken /\ SendToken /\ Separate /\ FillReady
    /\ SubeventsGoToOwnEvent /\ NothingLost /\ MonitorSeesAll

-----------------------------------------------------------------------------
USE DEF semVars, bufVars, countVars, runVars, writerVars, senderVars

(***************************************************************************)
(* Sequences: how an append or a hand-over rearranges a concatenation.     *)
(***************************************************************************)
\* Appending to the last part of a stream appends to the stream.
LEMMA EventsAppend ==
    \A a, b \in Seq(Event) : \A e \in Event : Append(a \o b, e) = a \o Append(b, e)
<1> TAKE a, b \in Seq(Event)
<1> TAKE e \in Event
<1>1. <<e>> \in Seq(Event) /\ a \o b \in Seq(Event)
  BY ConcatProperties
<1>2. Append(a \o b, e) = (a \o b) \o <<e>>
  BY <1>1, AppendIsConcat
<1>3. @ = a \o (b \o <<e>>)
  BY <1>1, ConcatAssociative
<1>4. b \o <<e>> = Append(b, e)
  BY AppendIsConcat
<1> QED
  BY <1>2, <1>3, <1>4

\* Concatenation is associative, for sequences of events.
LEMMA EventsAssociative ==
    \A a, b, c \in Seq(Event) : (a \o b) \o c = a \o (b \o c)
BY ConcatAssociative

-----------------------------------------------------------------------------
(***************************************************************************)
(* The control part: who is where, and who holds which token.              *)
(***************************************************************************)
\* No step brings a second thread into readout() or switch_buffer().
LEMMA ExclusiveStep ==
    ASSUME TypeOK, Exclusive, [Next]_vars
    PROVE  Exclusive'
<1> USE DEF Exclusive, Busy
<1>0. /\ rd \in [Threads -> {"out", "nextEvent", "retry", "addSubevents"}]
      /\ sw \in [Threads -> {"out", "lockWrite", "lockSend", "swap", "unlockWrite",
                            "unlockSend"}]
  BY DEF TypeOK
<1>1. ASSUME NEW t \in Threads, NEW e \in EventTypes, CallReadout(t, e)
      PROVE  Exclusive'
  BY <1>0, <1>1 DEF CallReadout, EnterReadout, Alone
<1>2. ASSUME NEW t \in Threads, CallSwitch(t)
      PROVE  Exclusive'
  BY <1>0, <1>2 DEF CallSwitch, EnterSwitch, Alone
<1>3. ASSUME NEW t \in Threads, ReadoutStep(t)
      PROVE  Exclusive'
  <2>1. CASE NextEvent(t)
    BY <1>0, <2>1 DEF NextEvent
  <2>2. CASE BufferFull(t)
    BY <1>0, <2>2 DEF BufferFull
  <2>3. CASE DropEmptyEvent(t)
    BY <1>0, <2>3 DEF DropEmptyEvent
  <2>4. ASSUME NEW timeUp \in BOOLEAN, KeepEvent(t, timeUp)
        PROVE  Exclusive'
    <3>1. CASE timeUp
      BY <1>0, <2>4, <3>1 DEF KeepEvent
    <3>2. CASE ~timeUp
      BY <1>0, <2>4, <3>2 DEF KeepEvent
    <3> QED
      BY <3>1, <3>2
  <2> QED
    BY <1>3, <2>1, <2>2, <2>3, <2>4 DEF ReadoutStep
<1>4. ASSUME NEW t \in Threads, SwitchStep(t)
      PROVE  Exclusive'
  BY <1>0, <1>4 DEF SwitchStep, LockWriteProtect, LockSendProtect, Swap, UnlockWrite, UnlockSend
<1>5. CASE WriterStep
  <2>1. CASE WriterTake
    BY <1>0, <2>1 DEF WriterTake
  <2>2. CASE WriterRelease
    BY <1>0, <2>2 DEF WriterRelease
  <2> QED
    BY <1>5, <2>1, <2>2 DEF WriterStep, WriterStore, WriterFail, WriterSkip
<1>6. CASE SenderStep
  BY <1>0, <1>6 DEF SenderStep, SenderTake, SenderDone
<1>7. CASE UNCHANGED vars
  BY <1>0, <1>7 DEF vars
<1> QED
  BY <1>0, <1>1, <1>2, <1>3, <1>4, <1>5, <1>6, <1>7 DEF Next

\* The tokens are passed on, never duplicated.
LEMMA TokenStep ==
    ASSUME TypeOK, Exclusive, WriteToken, SendToken, [Next]_vars
    PROVE  WriteToken' /\ SendToken'
<1> USE DEF WriteToken, SendToken
<1>0. /\ rd \in [Threads -> {"out", "nextEvent", "retry", "addSubevents"}]
      /\ sw \in [Threads -> {"out", "lockWrite", "lockSend", "swap", "unlockWrite",
                            "unlockSend"}]
      /\ WriteSem \in {0, 1} /\ SendSem \in {0, 1}
      /\ WriteProtectSem \in {0, 1} /\ SendProtectSem \in {0, 1}
      /\ writer \in {"wait", "writing"} /\ sender \in {"wait", "sending"}
  BY DEF TypeOK
<1>1. ASSUME NEW t \in Threads, NEW e \in EventTypes, CallReadout(t, e)
      PROVE  WriteToken' /\ SendToken'
  BY <1>0, <1>1 DEF CallReadout, EnterReadout
<1>2. ASSUME NEW t \in Threads, CallSwitch(t)
      PROVE  WriteToken' /\ SendToken'
  BY <1>0, <1>2 DEF CallSwitch, EnterSwitch
<1>3. ASSUME NEW t \in Threads, ReadoutStep(t)
      PROVE  WriteToken' /\ SendToken'
  BY <1>0, <1>3 DEF ReadoutStep, NextEvent, BufferFull, DropEmptyEvent, KeepEvent
<1>4. ASSUME NEW t \in Threads, SwitchStep(t)
      PROVE  WriteToken' /\ SendToken'
  <2>1. \A u \in Threads : u # t => sw[u] = "out"
    BY <1>0, <1>4 DEF Exclusive, Busy, SwitchStep, LockWriteProtect, LockSendProtect, Swap,
                UnlockWrite, UnlockSend
  <2>2. CASE LockWriteProtect(t)
    BY <1>0, <2>1, <2>2 DEF LockWriteProtect
  <2>3. CASE LockSendProtect(t)
    BY <1>0, <2>1, <2>3 DEF LockSendProtect
  <2>4. CASE Swap(t)
    BY <1>0, <2>1, <2>4 DEF Swap
  <2>5. CASE UnlockWrite(t)
    BY <1>0, <2>1, <2>5 DEF UnlockWrite
  <2>6. CASE UnlockSend(t)
    BY <1>0, <2>1, <2>6 DEF UnlockSend
  <2> QED
    BY <1>0, <1>4, <2>2, <2>3, <2>4, <2>5, <2>6 DEF SwitchStep
<1>5. CASE WriterStep
  <2>1. CASE WriterTake
    BY <1>0, <2>1 DEF WriterTake
  <2>2. CASE WriterRelease
    BY <1>0, <2>2 DEF WriterRelease
  <2> QED
    BY <1>5, <2>1, <2>2 DEF WriterStep, WriterStore, WriterFail, WriterSkip
<1>6. CASE SenderStep
  BY <1>0, <1>6 DEF SenderStep, SenderTake, SenderDone
<1>7. CASE UNCHANGED vars
  BY <1>0, <1>7 DEF vars
<1> QED
  BY <1>0, <1>1, <1>2, <1>3, <1>4, <1>5, <1>6, <1>7 DEF Next

-----------------------------------------------------------------------------
(***************************************************************************)
(* The data part, one lemma per group of actions.                          *)
(***************************************************************************)
\* Steps that move no event: each of them keeps the streams as they are.
LEMMA StreamsUnchanged ==
    ASSUME UNCHANGED <<fillBuffer, transportBuffer, events, accepted, outfile_fd, file,
                       monitored, dropped>>,
           WriterOwes' <=> WriterOwes, SenderOwes' <=> SenderOwes
    PROVE  /\ ForWriter' = ForWriter /\ ForSender' = ForSender /\ Stored' = Stored
           /\ NothingLost => NothingLost'
           /\ MonitorSeesAll => MonitorSeesAll'
<1>1. ForWriter' = ForWriter /\ ForSender' = ForSender /\ Stored' = Stored
  BY DEF ForWriter, ForSender, Stored
<1> QED
  BY <1>1 DEF NothingLost, MonitorSeesAll

\* Every quiet step keeps types, ownership and the state of the fill buffer, and
\* neither consumer starts or stops owing a buffer.
LEMMA QuietStep ==
    ASSUME IInv,
           \/ \E t \in Threads :
                \/ \E e \in EventTypes : CallReadout(t, e)
                \/ CallSwitch(t) \/ NextEvent(t) \/ BufferFull(t) \/ DropEmptyEvent(t)
                \/ LockWriteProtect(t) \/ LockSendProtect(t) \/ UnlockWrite(t)
                \/ UnlockSend(t)
           \/ WriterTake \/ SenderTake
    PROVE  /\ TypeOK' /\ Separate' /\ FillReady' /\ SubeventsGoToOwnEvent'
           /\ WriterOwes' <=> WriterOwes
           /\ SenderOwes' <=> SenderOwes
<1> DEFINE Goal == /\ TypeOK' /\ Separate' /\ FillReady' /\ SubeventsGoToOwnEvent'
                   /\ WriterOwes' <=> WriterOwes
                   /\ SenderOwes' <=> SenderOwes
<1> USE DEF IInv
<1>1. ASSUME NEW t \in Threads, NEW e \in EventTypes, CallReadout(t, e)
      PROVE  Goal
  <2>1. TypeOK'
    BY <1>1, ExchangeAssumption DEF TypeOK, CallReadout, EnterReadout, Alone, Busy, Event
  <2>2. (WriterOwes' <=> WriterOwes) /\ (SenderOwes' <=> SenderOwes)
    BY <1>1 DEF TypeOK, WriterOwes, SenderOwes, CallReadout, EnterReadout, Alone, Busy
  <2>3. Separate'
    BY <1>1, <2>2 DEF TypeOK, Separate, WriteToken, SendToken, CallReadout, EnterReadout, Alone, Busy
  <2>4. FillReady'
    BY <1>1 DEF TypeOK, FillReady, Exclusive, HasRoom, CallReadout, EnterReadout, Alone, Busy
  <2>5. SubeventsGoToOwnEvent'
    BY <1>1 DEF TypeOK, SubeventsGoToOwnEvent, Exclusive, FillReady, Buffers, CallReadout, EnterReadout, Alone, Busy
  <2> QED
    BY <2>1, <2>2, <2>3, <2>4, <2>5
<1>2. ASSUME NEW t \in Threads, CallSwitch(t)
      PROVE  Goal
  <2>1. TypeOK'
    BY <1>2, ExchangeAssumption DEF TypeOK, CallSwitch, EnterSwitch, Alone, Busy, Event
  <2>2. (WriterOwes' <=> WriterOwes) /\ (SenderOwes' <=> SenderOwes)
    BY <1>2 DEF TypeOK, WriterOwes, SenderOwes, CallSwitch, EnterSwitch, Alone, Busy
  <2>3. Separate'
    BY <1>2, <2>2 DEF TypeOK, Separate, WriteToken, SendToken, CallSwitch, EnterSwitch, Alone, Busy
  <2>4. FillReady'
    BY <1>2 DEF TypeOK, FillReady, Exclusive, HasRoom, CallSwitch, EnterSwitch, Alone, Busy
  <2>5. SubeventsGoToOwnEvent'
    BY <1>2 DEF TypeOK, SubeventsGoToOwnEvent, Exclusive, FillReady, Buffers, CallSwitch, EnterSwitch, Alone, Busy
  <2> QED
    BY <2>1, <2>2, <2>3, <2>4, <2>5
<1>3. ASSUME NEW t \in Threads, NextEvent(t)
      PROVE  Goal
  <2>1. TypeOK'
    BY <1>3, ExchangeAssumption DEF TypeOK, NextEvent, Event
  <2>2. (WriterOwes' <=> WriterOwes) /\ (SenderOwes' <=> SenderOwes)
    BY <1>3 DEF TypeOK, WriterOwes, SenderOwes, NextEvent
  <2>3. Separate'
    BY <1>3, <2>2 DEF TypeOK, Separate, WriteToken, SendToken, NextEvent
  <2>4. FillReady'
    BY <1>3 DEF TypeOK, FillReady, Exclusive, HasRoom, NextEvent
  <2>5. SubeventsGoToOwnEvent'
    BY <1>3 DEF Busy, TypeOK, SubeventsGoToOwnEvent, Exclusive, FillReady, Buffers, NextEvent
  <2> QED
    BY <2>1, <2>2, <2>3, <2>4, <2>5
<1>4. ASSUME NEW t \in Threads, BufferFull(t)
      PROVE  Goal
  <2>1. TypeOK'
    BY <1>4, ExchangeAssumption DEF TypeOK, BufferFull, Event
  <2>2. (WriterOwes' <=> WriterOwes) /\ (SenderOwes' <=> SenderOwes)
    BY <1>4 DEF TypeOK, WriterOwes, SenderOwes, BufferFull
  <2>3. Separate'
    BY <1>4, <2>2 DEF TypeOK, Separate, WriteToken, SendToken, BufferFull
  <2>4. FillReady'
    BY <1>4 DEF TypeOK, FillReady, Exclusive, HasRoom, BufferFull
  <2>5. SubeventsGoToOwnEvent'
    BY <1>4 DEF Busy, TypeOK, SubeventsGoToOwnEvent, Exclusive, FillReady, Buffers, BufferFull
  <2> QED
    BY <2>1, <2>2, <2>3, <2>4, <2>5
<1>5. ASSUME NEW t \in Threads, DropEmptyEvent(t)
      PROVE  Goal
  <2>1. TypeOK'
    BY <1>5, ExchangeAssumption DEF TypeOK, DropEmptyEvent, Event
  <2>2. (WriterOwes' <=> WriterOwes) /\ (SenderOwes' <=> SenderOwes)
    BY <1>5 DEF TypeOK, WriterOwes, SenderOwes, DropEmptyEvent
  <2>3. Separate'
    BY <1>5, <2>2 DEF TypeOK, Separate, WriteToken, SendToken, DropEmptyEvent
  <2>4. FillReady'
    BY <1>5 DEF TypeOK, FillReady, Exclusive, HasRoom, DropEmptyEvent
  <2>5. SubeventsGoToOwnEvent'
    BY <1>5 DEF Busy, TypeOK, SubeventsGoToOwnEvent, Exclusive, FillReady, Buffers, DropEmptyEvent
  <2> QED
    BY <2>1, <2>2, <2>3, <2>4, <2>5
<1>6. ASSUME NEW t \in Threads, LockWriteProtect(t)
      PROVE  Goal
  <2>1. TypeOK'
    BY <1>6, ExchangeAssumption DEF TypeOK, LockWriteProtect, Event
  <2>2. (WriterOwes' <=> WriterOwes) /\ (SenderOwes' <=> SenderOwes)
    BY <1>6 DEF TypeOK, WriterOwes, SenderOwes, LockWriteProtect
  <2>3. Separate'
    BY <1>6, <2>2 DEF TypeOK, Separate, WriteToken, SendToken, LockWriteProtect
  <2>4. FillReady'
    BY <1>6 DEF TypeOK, FillReady, Exclusive, HasRoom, LockWriteProtect
  <2>5. SubeventsGoToOwnEvent'
    BY <1>6 DEF Busy, TypeOK, SubeventsGoToOwnEvent, Exclusive, FillReady, Buffers, LockWriteProtect
  <2> QED
    BY <2>1, <2>2, <2>3, <2>4, <2>5
<1>7. ASSUME NEW t \in Threads, LockSendProtect(t)
      PROVE  Goal
  <2>1. TypeOK'
    BY <1>7, ExchangeAssumption DEF TypeOK, LockSendProtect, Event
  <2>2. (WriterOwes' <=> WriterOwes) /\ (SenderOwes' <=> SenderOwes)
    BY <1>7 DEF TypeOK, WriterOwes, SenderOwes, LockSendProtect
  <2>3. Separate'
    BY <1>7, <2>2 DEF TypeOK, Separate, WriteToken, SendToken, LockSendProtect
  <2>4. FillReady'
    BY <1>7 DEF TypeOK, FillReady, Exclusive, HasRoom, LockSendProtect
  <2>5. SubeventsGoToOwnEvent'
    BY <1>7 DEF Busy, TypeOK, SubeventsGoToOwnEvent, Exclusive, FillReady, Buffers, LockSendProtect
  <2> QED
    BY <2>1, <2>2, <2>3, <2>4, <2>5
<1>8. ASSUME NEW t \in Threads, UnlockWrite(t)
      PROVE  Goal
  <2>1. TypeOK'
    BY <1>8, ExchangeAssumption DEF TypeOK, UnlockWrite, Event
  <2>2. (WriterOwes' <=> WriterOwes) /\ (SenderOwes' <=> SenderOwes)
    BY <1>8 DEF TypeOK, WriterOwes, SenderOwes, UnlockWrite
  <2>3. Separate'
    BY <1>8, <2>2 DEF TypeOK, Separate, WriteToken, SendToken, UnlockWrite
  <2>4. FillReady'
    BY <1>8 DEF TypeOK, FillReady, Exclusive, HasRoom, UnlockWrite
  <2>5. SubeventsGoToOwnEvent'
    BY <1>8 DEF Busy, TypeOK, SubeventsGoToOwnEvent, Exclusive, FillReady, Buffers, UnlockWrite
  <2> QED
    BY <2>1, <2>2, <2>3, <2>4, <2>5
<1>9. ASSUME NEW t \in Threads, UnlockSend(t)
      PROVE  Goal
  <2>1. TypeOK'
    BY <1>9, ExchangeAssumption DEF TypeOK, UnlockSend, Event
  <2>2. (WriterOwes' <=> WriterOwes) /\ (SenderOwes' <=> SenderOwes)
    BY <1>9 DEF TypeOK, WriterOwes, SenderOwes, UnlockSend
  <2>3. Separate'
    BY <1>9, <2>2 DEF TypeOK, Separate, WriteToken, SendToken, UnlockSend
  <2>4. FillReady'
    BY <1>9 DEF TypeOK, FillReady, Exclusive, HasRoom, UnlockSend
  <2>5. SubeventsGoToOwnEvent'
    BY <1>9 DEF Busy, TypeOK, SubeventsGoToOwnEvent, Exclusive, FillReady, Buffers, UnlockSend
  <2> QED
    BY <2>1, <2>2, <2>3, <2>4, <2>5
<1>10. ASSUME WriterTake
      PROVE  Goal
  <2>1. TypeOK'
    BY <1>10, ExchangeAssumption DEF TypeOK, WriterTake, SealTransport, Event
  <2>2. (WriterOwes' <=> WriterOwes) /\ (SenderOwes' <=> SenderOwes)
    BY <1>10 DEF TypeOK, WriterOwes, SenderOwes, WriterTake, SealTransport
  <2>3. Separate'
    BY <1>10, <2>2 DEF TypeOK, Separate, WriteToken, SendToken, WriterTake, SealTransport
  <2>4. FillReady'
    BY <1>10 DEF TypeOK, FillReady, Exclusive, HasRoom, WriterTake, SealTransport
  <2>5. SubeventsGoToOwnEvent'
    BY <1>10 DEF Busy, TypeOK, SubeventsGoToOwnEvent, Exclusive, FillReady, Buffers, WriterTake, SealTransport
  <2> QED
    BY <2>1, <2>2, <2>3, <2>4, <2>5
<1>11. ASSUME SenderTake
      PROVE  Goal
  <2>1. TypeOK'
    BY <1>11, ExchangeAssumption DEF TypeOK, SenderTake, SealTransport, Event
  <2>2. (WriterOwes' <=> WriterOwes) /\ (SenderOwes' <=> SenderOwes)
    BY <1>11 DEF TypeOK, WriterOwes, SenderOwes, SenderTake, SealTransport
  <2>3. Separate'
    BY <1>11, <2>2 DEF TypeOK, Separate, WriteToken, SendToken, SenderTake, SealTransport
  <2>4. FillReady'
    BY <1>11 DEF TypeOK, FillReady, Exclusive, HasRoom, SenderTake, SealTransport
  <2>5. SubeventsGoToOwnEvent'
    BY <1>11 DEF Busy, TypeOK, SubeventsGoToOwnEvent, Exclusive, FillReady, Buffers, SenderTake, SealTransport
  <2> QED
    BY <2>1, <2>2, <2>3, <2>4, <2>5
<1> QED
  BY <1>1, <1>2, <1>3, <1>4, <1>5, <1>6, <1>7, <1>8, <1>9, <1>10, <1>11

-----------------------------------------------------------------------------
(***************************************************************************)
(* The four steps that move events.                                        *)
(***************************************************************************)
\* readout() keeps an event: it goes to the end of the fill buffer and of the
\* history, so both streams stay complete.
LEMMA KeepEventStep ==
    ASSUME IInv, NEW t \in Threads, NEW timeUp \in BOOLEAN, KeepEvent(t, timeUp)
    PROVE  /\ TypeOK' /\ Separate' /\ FillReady' /\ SubeventsGoToOwnEvent'
           /\ NothingLost' /\ MonitorSeesAll'
           /\ (WriterOwes' <=> WriterOwes) /\ (SenderOwes' <=> SenderOwes)
           /\ ForWriter' = Append(ForWriter, header[fillBuffer])
           /\ ForSender' = Append(ForSender, header[fillBuffer])
<1> DEFINE ev == header[fillBuffer]
<1> USE DEF IInv
<1>1. ev \in Event
  <2>1. ev = [run |-> TheRun, type |-> etype[t], num |-> Event_number]
    BY DEF KeepEvent, SubeventsGoToOwnEvent
  <2>2. TheRun \in Nat /\ etype[t] \in EventTypes /\ Event_number \in Nat
    BY ExchangeAssumption DEF TypeOK
  <2> QED
    BY <2>1, <2>2 DEF Event
<1>2. /\ events'[fillBuffer] = Append(events[fillBuffer], ev)
      /\ events'[transportBuffer] = events[transportBuffer]
      /\ accepted' = Append(accepted, ev)
      /\ UNCHANGED <<fillBuffer, transportBuffer, outfile_fd, file, monitored, dropped>>
  BY DEF KeepEvent, Separate, TypeOK
<1>3. sw[t] = "out" /\ \A u \in Threads : u # t => rd[u] = "out" /\ sw[u] = "out"
  BY DEF KeepEvent, Exclusive, Busy
<1>4. /\ sw'[t] \in {"out", "lockWrite"} /\ rd'[t] = "out"
      /\ \A u \in Threads : u # t => rd'[u] = rd[u] /\ sw'[u] = sw[u]
  <2>1. CASE timeUp
    BY <2>1 DEF KeepEvent, TypeOK
  <2>2. CASE ~timeUp
    BY <2>2, <1>3 DEF KeepEvent, TypeOK
  <2> QED
    BY <2>1, <2>2
<1>5. (WriterOwes' <=> WriterOwes) /\ (SenderOwes' <=> SenderOwes)
  BY <1>3, <1>4 DEF KeepEvent, WriterOwes, SenderOwes
<1>6. TypeOK'
  <2>1. Append(events[fillBuffer], ev) \in Seq(Event) /\ Append(accepted, ev) \in Seq(Event)
    BY <1>1, AppendProperties DEF TypeOK
  <2>2. Len(Append(events[fillBuffer], ev)) <= Capacity
    BY <1>1, AppendProperties, LenProperties, ExchangeAssumption
       DEF KeepEvent, FillReady, HasRoom, TypeOK
  <2>3. /\ events' \in [Buffers -> Seq(Event)]
        /\ \A b \in Buffers : Len(events'[b]) <= Capacity
    BY <2>1, <2>2 DEF KeepEvent, TypeOK
  <2>4. /\ sw' \in [Threads -> {"out", "lockWrite", "lockSend", "swap", "unlockWrite",
                               "unlockSend"}]
        /\ rd' \in [Threads -> {"out", "nextEvent", "retry", "addSubevents"}]
    <3>1. CASE timeUp
      BY <3>1 DEF KeepEvent, TypeOK
    <3>2. CASE ~timeUp
      BY <3>2 DEF KeepEvent, TypeOK
    <3> QED
      BY <3>1, <3>2
  <2>5. header' \in [Buffers -> Event \cup {NoEvent}] /\ Event_number' \in Nat
    BY DEF KeepEvent, TypeOK
  <2>6. accepted' \in Seq(Event)
    BY <1>2, <2>1
  <2> QED
    BY <2>3, <2>4, <2>5, <2>6 DEF KeepEvent, TypeOK
<1>7. Separate'
  BY <1>5 DEF KeepEvent, Separate, TypeOK
<1>8. FillReady' /\ SubeventsGoToOwnEvent'
  BY <1>3, <1>4 DEF KeepEvent, FillReady, SubeventsGoToOwnEvent
<1>9. /\ events[fillBuffer] \in Seq(Event) /\ events[transportBuffer] \in Seq(Event)
      /\ Stored \in Seq(Event) /\ monitored \in Seq(Event) /\ << >> \in Seq(Event)
  BY EmptySeq DEF TypeOK, Stored
<1>10. /\ ForWriter \in Seq(Event) /\ ForSender \in Seq(Event)
       /\ ForWriter' = Append(ForWriter, ev) /\ ForSender' = Append(ForSender, ev)
  <2>1. \A b \in Seq(Event) : /\ b \o events[fillBuffer] \in Seq(Event)
                              /\ b \o Append(events[fillBuffer], ev)
                                    = Append(b \o events[fillBuffer], ev)
    <3>1. \A b \in Seq(Event) : \A e \in Event :
            b \o Append(events[fillBuffer], e) = Append(b \o events[fillBuffer], e)
      BY <1>9, EventsAppend, Zenon
    <3>2. \A b \in Seq(Event) : b \o events[fillBuffer] \in Seq(Event)
      BY <1>9, ConcatProperties
    <3> QED
      BY <1>1, <3>1, <3>2, Zenon
  <2>2. PICK b \in Seq(Event) :
            /\ ForWriter = b \o events[fillBuffer]
            /\ ForWriter' = b \o Append(events[fillBuffer], ev)
    BY <1>2, <1>5, <1>9 DEF ForWriter
  <2>3. PICK c \in Seq(Event) :
            /\ ForSender = c \o events[fillBuffer]
            /\ ForSender' = c \o Append(events[fillBuffer], ev)
    BY <1>2, <1>5, <1>9 DEF ForSender
  <2> QED
    BY <2>1, <2>2, <2>3, Zenon
<1>11. \A a \in Seq(Event) : /\ Append(a \o ForWriter, ev) = a \o Append(ForWriter, ev)
                             /\ Append(a \o ForSender, ev) = a \o Append(ForSender, ev)
  <2>1. \A a, b \in Seq(Event) : Append(a \o b, ev) = a \o Append(b, ev)
    BY <1>1, EventsAppend, Zenon
  <2> QED
    BY <1>10, <2>1, Zenon
<1>12. NothingLost'
  <2>1. Stored' = Stored
    BY <1>2 DEF Stored
  <2> QED
    BY <1>2, <1>9, <1>10, <1>11, <2>1 DEF NothingLost
<1>13. MonitorSeesAll'
  BY <1>2, <1>9, <1>10, <1>11 DEF MonitorSeesAll
<1> QED
  BY <1>5, <1>6, <1>7, <1>8, <1>10, <1>12, <1>13

\* switch_buffer() hands over the fill buffer when neither consumer owes the
\* transport buffer any more: what was last in both streams becomes the batch
\* in flight, and the empty buffer takes its place.
LEMMA SwapStep ==
    ASSUME IInv, NEW t \in Threads, Swap(t)
    PROVE  /\ TypeOK' /\ Separate' /\ FillReady' /\ SubeventsGoToOwnEvent'
           /\ NothingLost' /\ MonitorSeesAll'
           /\ ForWriter' = ForWriter /\ ForSender' = ForSender
<1> USE DEF IInv
<1>1. sw[t] = "swap" /\ \A u \in Threads : u # t => rd[u] = "out" /\ sw[u] = "out"
  BY DEF Swap, Exclusive, Busy
<1>2. ~WriterOwes /\ ~SenderOwes
  BY <1>1 DEF WriteToken, SendToken, WriterOwes, SenderOwes
<1>3. sw'[t] = "unlockWrite" /\ rd' = rd /\ \A u \in Threads : u # t => sw'[u] = sw[u]
  BY DEF Swap, TypeOK
<1>4. WriterOwes' /\ SenderOwes'
  BY <1>3 DEF WriterOwes, SenderOwes
<1>5. /\ fillBuffer' = transportBuffer /\ transportBuffer' = fillBuffer
      /\ events'[fillBuffer'] = << >> /\ events'[transportBuffer'] = events[fillBuffer]
      /\ has_end'[transportBuffer'] = 1
      /\ Runnr'[fillBuffer'] = TheRun
      /\ UNCHANGED <<TheRun, outfile_fd, file, monitored, accepted, dropped>>
  BY ExchangeAssumption DEF Swap, PrepareNext, Separate, TypeOK
<1>6. TypeOK'
  <2>1. << >> \in Seq(Event) /\ Len(<< >>) = 0
    BY EmptySeq
  <2>2. /\ events' \in [Buffers -> Seq(Event)]
        /\ \A b \in Buffers : Len(events'[b]) <= Capacity
    <3>1. events' = [events EXCEPT ![transportBuffer] = << >>]
      BY DEF Swap, PrepareNext
    <3>2. 0 <= Capacity
      BY ExchangeAssumption
    <3> QED
      BY <2>1, <3>1, <3>2 DEF TypeOK
  <2>3. /\ header' \in [Buffers -> Event \cup {NoEvent}]
        /\ has_end' \in [Buffers -> {0, 1}]
    BY DEF Swap, PrepareNext, TypeOK
  <2>4. Bufseq' \in [Buffers -> Nat] /\ Runnr' \in [Buffers -> Nat]
    <3>1. TheRun \in Nat /\ Buffer_number + 1 \in Nat
      BY ExchangeAssumption DEF TypeOK
    <3>2. Bufseq' = [Bufseq EXCEPT ![transportBuffer] = Buffer_number + 1]
      BY DEF Swap, PrepareNext
    <3>3. Runnr' = Runnr \/ Runnr' = [Runnr EXCEPT ![transportBuffer] = TheRun]
      BY DEF Swap, PrepareNext
    <3> QED
      BY <3>1, <3>2, <3>3 DEF TypeOK
  <2>5. Buffer_number' \in Nat /\ sw' \in [Threads -> {"out", "lockWrite", "lockSend",
                               "swap", "unlockWrite", "unlockSend"}]
    BY DEF Swap, TypeOK
  <2> QED
    BY <2>2, <2>3, <2>4, <2>5 DEF Swap, TypeOK
<1>7. Separate'
  BY <1>1, <1>5 DEF Swap, Separate, WriteToken, SendToken
<1>8. FillReady' /\ SubeventsGoToOwnEvent'
  BY <1>1, <1>3, <1>5 DEF FillReady, SubeventsGoToOwnEvent, Exclusive, Swap
<1>9. ForWriter' = ForWriter /\ ForSender' = ForSender
  <2>1. events[fillBuffer] \in Seq(Event)
    BY DEF TypeOK
  <2>2. ForWriter = << >> \o events[fillBuffer] /\ ForSender = << >> \o events[fillBuffer]
    BY <1>2 DEF ForWriter, ForSender
  <2>3. ForWriter' = events[fillBuffer] \o << >> /\ ForSender' = events[fillBuffer] \o << >>
    BY <1>4, <1>5 DEF ForWriter, ForSender
  <2> QED
    BY <2>1, <2>2, <2>3, ConcatEmptySeq
<1>10. NothingLost' /\ MonitorSeesAll'
  BY <1>5, <1>9 DEF NothingLost, MonitorSeesAll, Stored
<1> QED
  BY <1>6, <1>7, <1>8, <1>9, <1>10

\* The writer is done with its buffer: the batch moves from memory to the file
\* (or is lost to a failed write, or was not to be stored at all).
LEMMA WriterReleaseStep ==
    ASSUME IInv, WriterStore \/ WriterFail \/ WriterSkip
    PROVE  /\ TypeOK' /\ Separate' /\ FillReady' /\ SubeventsGoToOwnEvent'
           /\ NothingLost' /\ MonitorSeesAll'
           /\ WriterOwes /\ ForWriter = events[transportBuffer] \o ForWriter'
           /\ ForSender' = ForSender
<1> USE DEF IInv
<1>1. WriterRelease
  BY DEF WriterStore, WriterFail, WriterSkip
<1>2. WriterOwes /\ ~WriterOwes'
  BY <1>1 DEF WriterRelease, WriterOwes, WriteToken, TypeOK
<1>3. SenderOwes' <=> SenderOwes
  BY <1>1 DEF WriterRelease, SenderOwes
<1>4. /\ events[fillBuffer] \in Seq(Event) /\ events[transportBuffer] \in Seq(Event)
      /\ Stored \in Seq(Event) /\ wbuf = transportBuffer /\ wfd = outfile_fd
  BY <1>1, EmptySeq DEF TypeOK, Stored, Separate, WriterRelease
<1>5. ForWriter' = events[fillBuffer] /\ ForSender' = ForSender
  BY <1>1, <1>2, <1>3, <1>4, ConcatEmptySeq DEF WriterRelease, ForWriter, ForSender
<1>6. ForWriter = events[transportBuffer] \o ForWriter'
  BY <1>2, <1>5 DEF ForWriter
<1>7. TypeOK'
  <2>1. CASE WriterStore
    <3>1. /\ file[outfile_fd] \o events[wbuf] \in Seq(Event)
          /\ Append(fileBufs[outfile_fd], Bufseq[wbuf]) \in Seq(Nat)
      BY <2>1, <1>4, ConcatProperties, AppendProperties DEF TypeOK, WriterStore
    <3>2. file' \in [Fds -> Seq(Event)] /\ fileBufs' \in [Fds -> Seq(Nat)]
      BY <2>1, <1>4, <3>1 DEF TypeOK, WriterStore
    <3> QED
      BY <2>1, <3>2 DEF TypeOK, WriterStore, WriterRelease
  <2>2. CASE WriterFail
    BY <2>2 DEF TypeOK, WriterFail, WriterRelease
  <2>3. CASE WriterSkip
    BY <2>3 DEF TypeOK, WriterSkip, WriterRelease
  <2> QED
    BY <2>1, <2>2, <2>3
<1>8. Separate' /\ FillReady' /\ SubeventsGoToOwnEvent'
  BY <1>1, <1>2, <1>3 DEF WriterRelease, Separate, FillReady, HasRoom, SubeventsGoToOwnEvent
<1>9. MonitorSeesAll'
  BY <1>1, <1>5 DEF WriterRelease, MonitorSeesAll
<1>10. NothingLost'
  <2> SUFFICES ASSUME outfile_fd' # 0, dropped' = {}
               PROVE  accepted' = Stored' \o ForWriter'
    BY DEF NothingLost
  <2>1. WriterStore /\ dropped = {}
    BY <1>1, <1>4 DEF WriterStore, WriterFail, WriterSkip, WriterRelease
  <2>2. Stored' = Stored \o events[transportBuffer]
    BY <2>1, <1>1, <1>4 DEF WriterStore, WriterRelease, Stored, TypeOK
  <2>3. accepted' = Stored \o (events[transportBuffer] \o events[fillBuffer])
    BY <1>1, <1>5, <1>6, <2>1 DEF NothingLost, WriterRelease
  <2>4. (Stored \o events[transportBuffer]) \o events[fillBuffer]
            = Stored \o (events[transportBuffer] \o events[fillBuffer])
    BY <1>4, EventsAssociative, Zenon
  <2> QED
    BY <1>5, <2>2, <2>3, <2>4
<1> QED
  BY <1>2, <1>5, <1>6, <1>7, <1>8, <1>9, <1>10

\* The sender is done: the batch moves from memory to the monitors.
LEMMA SenderDoneStep ==
    ASSUME IInv, SenderDone
    PROVE  /\ TypeOK' /\ Separate' /\ FillReady' /\ SubeventsGoToOwnEvent'
           /\ NothingLost' /\ MonitorSeesAll'
           /\ SenderOwes /\ ForSender = events[transportBuffer] \o ForSender'
           /\ monitored' = monitored \o events[transportBuffer]
           /\ ForWriter' = ForWriter
<1> USE DEF IInv
<1>1. SenderOwes /\ ~SenderOwes'
  BY DEF SenderDone, SenderOwes, SendToken, TypeOK
<1>2. WriterOwes' <=> WriterOwes
  BY DEF SenderDone, WriterOwes
<1>3. /\ events[fillBuffer] \in Seq(Event) /\ events[transportBuffer] \in Seq(Event)
      /\ monitored \in Seq(Event) /\ sbuf = transportBuffer
  BY DEF TypeOK, Separate, SenderDone
<1>4. ForSender' = events[fillBuffer] /\ ForWriter' = ForWriter
  BY <1>1, <1>2, <1>3, ConcatEmptySeq DEF SenderDone, ForWriter, ForSender
<1>5. ForSender = events[transportBuffer] \o ForSender'
  BY <1>1, <1>4 DEF ForSender
<1>6. TypeOK'
  <2>1. [num |-> snum, seq |-> Bufseq[sbuf]] \in [num : Nat, seq : Nat]
    BY DEF TypeOK
  <2>2. monitor' \in Seq([num : Nat, seq : Nat])
    BY <2>1, AppendProperties DEF TypeOK, SenderDone
  <2>3. monitored' \in Seq(Event)
    BY <1>3, ConcatProperties DEF SenderDone
  <2> QED
    BY <2>2, <2>3 DEF TypeOK, SenderDone
<1>7. Separate' /\ FillReady' /\ SubeventsGoToOwnEvent'
  BY <1>1, <1>2 DEF SenderDone, Separate, FillReady, HasRoom, SubeventsGoToOwnEvent
<1>8. NothingLost'
  BY <1>4 DEF SenderDone, NothingLost, Stored
<1>9. monitored' = monitored \o events[transportBuffer]
  BY <1>3 DEF SenderDone
<1>10. MonitorSeesAll'
  <2>1. accepted' = monitored \o (events[transportBuffer] \o events[fillBuffer])
    BY <1>4, <1>5 DEF SenderDone, MonitorSeesAll
  <2>2. (monitored \o events[transportBuffer]) \o events[fillBuffer]
            = monitored \o (events[transportBuffer] \o events[fillBuffer])
    BY <1>3, EventsAssociative, Zenon
  <2> QED
    BY <1>4, <1>9, <2>1, <2>2 DEF MonitorSeesAll
<1> QED
  BY <1>1, <1>4, <1>5, <1>6, <1>7, <1>8, <1>9, <1>10

-----------------------------------------------------------------------------
(***************************************************************************)
(* The theorems.                                                           *)
(***************************************************************************)
\* The mutexes as rcdaq_init() leaves them and the buffers as daq_begin()
\* leaves them satisfy the invariant.
LEMMA InitInvariant == Init => IInv
<1> SUFFICES ASSUME Init PROVE IInv
  OBVIOUS
<1> USE DEF Init
<1>1. \A S : << >> \in Seq(S)
  BY EmptySeq
<1>2. TheRun \in Nat /\ TheRun # 0 /\ Capacity \in Nat /\ 0 <= Capacity
  BY ExchangeAssumption
<1>3. (CHOOSE e \in EventTypes : TRUE) \in EventTypes
  BY ExchangeAssumption
<1>4. ~WriterOwes /\ ~SenderOwes
  BY DEF WriterOwes, SenderOwes
<1>5. TypeOK
  <2>1. Len(<< >>) = 0 /\ 1 \in Nat /\ 0 \in Nat
    BY EmptySeq
  <2> QED
    BY <1>1, <1>2, <1>3, <2>1 DEF TypeOK, Buffers
<1>6. Exclusive /\ WriteToken /\ SendToken
  BY DEF Exclusive, Busy, WriteToken, SendToken
<1>7. Separate /\ FillReady /\ SubeventsGoToOwnEvent
  BY <1>4 DEF Separate, FillReady, SubeventsGoToOwnEvent, Buffers
<1>8. NothingLost /\ MonitorSeesAll
  <2>1. ForWriter = << >> \o << >> /\ ForSender = << >> \o << >> /\ Stored = << >>
    BY <1>4 DEF ForWriter, ForSender, Stored, Buffers
  <2>2. << >> \o << >> = << >>
    BY <1>1, ConcatEmptySeq
  <2> QED
    BY <2>1, <2>2 DEF NothingLost, MonitorSeesAll
<1> QED
  BY <1>5, <1>6, <1>7, <1>8 DEF IInv

\* Every step of the five kinds of threads keeps the invariant.
LEMMA NextInvariant == IInv /\ [Next]_vars => IInv'
<1> SUFFICES ASSUME IInv, [Next]_vars PROVE IInv'
  OBVIOUS
<1> DEFINE Data == /\ TypeOK' /\ Separate' /\ FillReady' /\ SubeventsGoToOwnEvent'
                   /\ NothingLost' /\ MonitorSeesAll'
<1>1. Exclusive' /\ WriteToken' /\ SendToken'
  BY ExclusiveStep, TokenStep DEF IInv
<1>2. ASSUME \/ \E t \in Threads :
                 \/ \E e \in EventTypes : CallReadout(t, e)
                 \/ CallSwitch(t) \/ NextEvent(t) \/ BufferFull(t) \/ DropEmptyEvent(t)
                 \/ LockWriteProtect(t) \/ LockSendProtect(t) \/ UnlockWrite(t)
                 \/ UnlockSend(t)
             \/ WriterTake \/ SenderTake
      PROVE  Data
  <2>1. UNCHANGED <<fillBuffer, transportBuffer, events, accepted, outfile_fd, file,
                    monitored, dropped>>
    BY <1>2 DEF CallReadout, CallSwitch, NextEvent, BufferFull, DropEmptyEvent,
                LockWriteProtect, LockSendProtect, UnlockWrite, UnlockSend, WriterTake,
                SenderTake
  <2> QED
    BY <1>2, <2>1, QuietStep, StreamsUnchanged DEF IInv
<1>3. ASSUME NEW t \in Threads, NEW timeUp \in BOOLEAN, KeepEvent(t, timeUp)
      PROVE  Data
  BY <1>3, KeepEventStep
<1>4. ASSUME NEW t \in Threads, Swap(t)
      PROVE  Data
  BY <1>4, SwapStep
<1>5. ASSUME WriterStore \/ WriterFail \/ WriterSkip
      PROVE  Data
  BY <1>5, WriterReleaseStep
<1>6. ASSUME SenderDone
      PROVE  Data
  BY <1>6, SenderDoneStep
<1>7. ASSUME UNCHANGED vars
      PROVE  Data
  <2>1. (WriterOwes' <=> WriterOwes) /\ (SenderOwes' <=> SenderOwes)
    BY <1>7 DEF vars, WriterOwes, SenderOwes
  <2>2. TypeOK'
    BY <1>7 DEF vars, IInv, TypeOK
  <2>3. Separate' /\ SubeventsGoToOwnEvent'
    BY <1>7, <2>1 DEF vars, IInv, Separate, SubeventsGoToOwnEvent
  <2>4. FillReady'
    BY <1>7 DEF vars, IInv, FillReady, HasRoom
  <2>5. NothingLost' /\ MonitorSeesAll'
    BY <1>7, <2>1, StreamsUnchanged DEF vars, IInv
  <2> QED
    BY <2>2, <2>3, <2>4, <2>5
<1>8. Data
  BY <1>2, <1>3, <1>4, <1>5, <1>6, <1>7
     DEF Next, ReadoutStep, SwitchStep, WriterStep, SenderStep
<1> QED
  BY <1>1, <1>8 DEF IInv

\* IInv holds in every reachable state.
THEOREM Invariance == Spec => []IInv
<1> QED
  BY InitInvariant, NextInvariant, PTL DEF Spec

\* The variables of the exchange keep their types, and no buffer ever holds
\* more events than nextEvent() found room for.
THEOREM TypeCorrect == Spec => []TypeOK
<1>1. IInv => TypeOK
  BY DEF IInv
<1> QED
  BY <1>1, Invariance, PTL

\* As long as write() does not fail, every event readout() kept reaches the
\* output file exactly once and in order.
THEOREM FileCorrect == Spec => []NothingLost
<1>1. IInv => NothingLost
  BY DEF IInv
<1> QED
  BY <1>1, Invariance, PTL

\* Every event readout() kept is passed to the monitors once and in order.
THEOREM MonitorCorrect == Spec => []MonitorSeesAll
<1>1. IInv => MonitorSeesAll
  BY DEF IInv
<1> QED
  BY <1>1, Invariance, PTL

\* A buffer being written or sent is closed and is not the one being filled.
THEOREM BuffersOwned == Spec => []ConsumersOwnTheirBuffer
<1>1. IInv => ConsumersOwnTheirBuffer
  BY DEF IInv, Separate, ConsumersOwnTheirBuffer, WriterOwes, SenderOwes
<1> QED
  BY <1>1, Invariance, PTL

\* addSubevent() adds to the event that its own readout() opened, whose header
\* has the current run, type and number.
THEOREM OwnEvent == Spec => []SubeventsGoToOwnEvent
<1>1. IInv => SubeventsGoToOwnEvent
  BY DEF IInv
<1> QED
  BY <1>1, Invariance, PTL

\* The second nextEvent() of a readout() always succeeds: the status that
\* readout() does not look at is always 0.
THEOREM RetrySucceeds == Spec => []RetryFits
<1>1. IInv => RetryFits
  <2> SUFFICES ASSUME IInv, NEW t \in Threads, rd[t] = "retry", sw[t] = "out"
               PROVE  HasRoom(fillBuffer)
    BY DEF RetryFits
  <2>1. events[fillBuffer] = << >>
    BY DEF IInv, FillReady
  <2>2. Len(<< >>) = 0 /\ 0 < Capacity
    BY EmptySeq, ExchangeAssumption
  <2> QED
    BY <2>1, <2>2 DEF HasRoom
<1> QED
  BY <1>1, Invariance, PTL

=============================================================================
