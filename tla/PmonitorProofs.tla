---------------------------- MODULE PmonitorProofs ----------------------------
(***************************************************************************)
(* Proofs about the event loop of pmonitor, for any number of threads, any *)
(* stream and any requests.                                                *)
(*                                                                         *)
(* EventsOnceInOrder rests on mutual exclusion in the loop: StreamInv says *)
(* who is in it (Places, Mutex, OpAlone) and what is between the iterator  *)
(* and process_event() (InHand).  StopWorks rests, for the operator who    *)
(* waits, on there being one loop at a time (OneActive), which keeps the   *)
(* flag and stopcondition from being reset by another (StopHolds).         *)
(***************************************************************************)
EXTENDS Pmonitor, TLAPS

-----------------------------------------------------------------------------
(* The inductive invariants behind EventsOnceInOrder and StopWorks.         *)

\* The parts of pprocess() and prun() each of them comes to.
Places ==
    /\ \A t \in Threads : pc[t] \notin {"prompt", "pwait"}
    /\ pc[op] \in {"prompt", "pwait", "get", "advance", "process", "check", "clear"}

\* A thread holds the mutex from Lock to its release.
Mutex ==
    \A t \in Threads :
        pc[t] \notin {"none", "start", "lock", "stopClear"} => runningTM = t

\* prun() has the prompt, which alone starts threads.
OpAlone ==
    pc[op] \notin {"prompt", "pwait"} => \A t \in Threads : pc[t] = "none"

\* The events behind process_event(), and the one between it and the iterator.
InHand ==
    /\ \A i \in DOMAIN processed : processed[i] = i
    /\ \A u \in Loopers : pc[u] = "advance" =>
           evt[u] = position + 1 /\ position = Len(processed)
    /\ \A u \in Loopers : pc[u] = "process" =>
           evt[u] = position /\ position = Len(processed) + 1
    /\ (\A u \in Loopers : pc[u] # "process") => position = Len(processed)

StreamInv == TypeOK /\ Places /\ Mutex /\ OpAlone /\ InHand

\* From pstart() to the end of the loop.
Active(u) == pc[u] \notin {"none", "release", "prompt", "pwait"}

\* Of a patient operator's threads one at a time is under way, and the flag
\* says so as soon as it is in the loop.
OneActive ==
    /\ \A u, v \in Loopers : Active(u) /\ Active(v) => u = v
    /\ \A u \in Loopers : Active(u) /\ pc[u] \notin {"start", "lock", "setRunning"} => running

\* A pstop() is in force until its loop leaves.
StopHolds ==
    /\ stopped # Nobody => stopcondition = 1 /\ InLoop(stopped)
    /\ late <= 1
    /\ stopped # Nobody /\ pc[stopped] # "check" => late = 0

StopInv == StreamInv /\ (patient => OneActive /\ StopHolds)

-----------------------------------------------------------------------------
\* The prompt is not a thread of its own.
LEMMA OpIsNoThread == op \in Loopers /\ op \notin Threads /\ Threads \subseteq Loopers
  BY PmonitorAssumption DEF Loopers

\* Two loops are never at work on the stream together, for want of the mutex or
\* of a prompt to start them from.
LEMMA OneInLoop ==
  ASSUME StreamInv, NEW u \in Loopers, NEW v \in Loopers, InLoop(u), InLoop(v)
  PROVE  u = v
<1>1. CASE u = op
  BY <1>1, OpIsNoThread DEF StreamInv, Places, OpAlone, InLoop, Loopers
<1>2. CASE v = op
  BY <1>2, OpIsNoThread DEF StreamInv, Places, OpAlone, InLoop, Loopers
<1>3. CASE u # op /\ v # op
  BY <1>3 DEF StreamInv, Mutex, InLoop, Loopers
<1>4. QED BY <1>1, <1>2, <1>3

LEMMA StreamInit == Init => StreamInv
<1>1. SUFFICES ASSUME Init PROVE StreamInv
  OBVIOUS
<1>2. TypeOK
  <2>1. processed \in Seq(1 .. LastEvent)
    BY <1>1 DEF Init
  <2>2. pc \in [Loopers -> PCs]
    BY <1>1 DEF Init, PCs
  <2>3. /\ nevents \in [Loopers -> Nat] /\ ncount \in [Loopers -> Nat]
        /\ evt \in [Loopers -> 0 .. LastEvent] /\ position \in 0 .. LastEvent
    BY <1>1, PmonitorAssumption DEF Init
  <2>4. QED BY <1>1, <2>1, <2>2, <2>3 DEF Init, TypeOK
<1>3. Places /\ Mutex /\ OpAlone
  BY <1>1, OpIsNoThread DEF Init, Places, Mutex, OpAlone, Loopers
<1>4. InHand
  <2>1. DOMAIN processed = {} /\ Len(processed) = 0 /\ position = 0
    BY <1>1 DEF Init
  <2>2. \A u \in Loopers : pc[u] \notin {"advance", "process"}
    BY <1>1 DEF Init
  <2>3. QED BY <2>1, <2>2 DEF InHand
<1>5. QED BY <1>2, <1>3, <1>4 DEF StreamInv

\* A command starts a loop or touches none.
LEMMA StreamCommand == StreamInv /\ (Command \/ PwaitReturns) => StreamInv'
<1>1. SUFFICES ASSUME StreamInv, Command \/ PwaitReturns PROVE StreamInv'
  OBVIOUS
<1> USE OpIsNoThread
<1>2. TypeOK /\ Places /\ Mutex /\ OpAlone /\ InHand
  BY <1>1 DEF StreamInv
<1>3. CASE Pfileopen
  BY <1>2, <1>3 DEF Pfileopen, StreamInv, TypeOK, Places, Mutex, OpAlone, InHand, locals
<1>4. ASSUME NEW n \in Requests, Pstart(n) PROVE StreamInv'
  <2>1. PICK t \in Threads : pc[t] = "none" /\ pc' = [pc EXCEPT ![t] = "start"]
    BY <1>4 DEF Pstart, Goto
  <2>2. TypeOK'
    BY <1>2, <1>4, <2>1, PmonitorAssumption DEF Pstart, TypeOK, PCs, locals
  <2>3. Places' /\ Mutex' /\ OpAlone'
    BY <1>2, <1>4, <2>1 DEF Pstart, AtPrompt, TypeOK, Places, Mutex, OpAlone
  <2>4. InHand'
    BY <1>2, <1>4, <2>1 DEF Pstart, TypeOK, InHand, locals
  <2>5. QED BY <2>2, <2>3, <2>4 DEF StreamInv
<1>5. ASSUME NEW n \in Requests, Prun(n) PROVE StreamInv'
  <2>1. TypeOK'
    BY <1>2, <1>5, PmonitorAssumption DEF Prun, TypeOK, PCs, Goto
  <2>2. Places' /\ Mutex' /\ OpAlone'
    BY <1>2, <1>5 DEF Prun, Goto, TypeOK, Places, Mutex, OpAlone
  <2>3. InHand'
    BY <1>2, <1>5 DEF Prun, Goto, AtPrompt, TypeOK, InHand
  <2>4. QED BY <2>1, <2>2, <2>3 DEF StreamInv
<1>6. CASE Pstop
  <2>1. TypeOK'
    BY <1>2, <1>6 DEF Pstop, TypeOK, locals
  <2>2. Places' /\ Mutex' /\ OpAlone'
    <3>1. UNCHANGED <<opened, running, pc, locals>>
      BY <1>6 DEF Pstop, locals
    <3>2. Places'
      BY <1>2, <3>1 DEF Places
    <3>3. Mutex' /\ OpAlone'
      BY <1>2, <1>6 DEF Pstop, Mutex, OpAlone
    <3>4. QED BY <3>2, <3>3
  <2>3. InHand'
    BY <1>2, <1>6 DEF Pstop, InHand, locals
  <2>4. QED BY <2>1, <2>2, <2>3 DEF StreamInv
<1>7. CASE Pwait
  <2>1. TypeOK'
    BY <1>2, <1>7 DEF Pwait, TypeOK, PCs, Goto, state, locals
  <2>2. Places' /\ Mutex' /\ OpAlone'
    BY <1>2, <1>7 DEF Pwait, Goto, AtPrompt, TypeOK, Places, Mutex, OpAlone, state
  <2>3. InHand'
    BY <1>2, <1>7 DEF Pwait, Goto, AtPrompt, TypeOK, InHand, state, locals
  <2>4. QED BY <2>1, <2>2, <2>3 DEF StreamInv
<1>8. CASE PwaitReturns
  <2>1. TypeOK'
    BY <1>2, <1>8 DEF PwaitReturns, TypeOK, PCs, Goto, state, locals
  <2>2. Places' /\ Mutex' /\ OpAlone'
    BY <1>2, <1>8 DEF PwaitReturns, Goto, TypeOK, Places, Mutex, OpAlone, state
  <2>3. InHand'
    BY <1>2, <1>8 DEF PwaitReturns, Goto, TypeOK, InHand, state, locals
  <2>4. QED BY <2>1, <2>2, <2>3 DEF StreamInv
<1>9. QED BY <1>1, <1>3, <1>4, <1>5, <1>6, <1>7, <1>8 DEF Command

\* Outside the loop a thread touches the mutex, the flags and its place.
LEMMA StreamOutside ==
  ASSUME StreamInv, NEW t \in Threads,
         Start(t) \/ Lock(t) \/ SetRunning(t) \/ StopRelease(t) \/ StopClear(t) \/ Release(t)
  PROVE  StreamInv'
<1> USE OpIsNoThread
<1>1. TypeOK /\ Places /\ Mutex /\ OpAlone /\ InHand
  BY DEF StreamInv
<1>2. PICK to \in PCs : pc' = [pc EXCEPT ![t] = to]
  BY DEF Start, Lock, SetRunning, StopRelease, StopClear, Release, Goto, PCs
<1>3. TypeOK'
  <2>1. CASE Start(t)
    BY <1>1, <2>1 DEF Start, Goto, TypeOK, PCs
  <2>2. CASE Lock(t)
    BY <1>1, <2>2 DEF Lock, Goto, TypeOK, PCs, locals
  <2>3. CASE SetRunning(t)
    BY <1>1, <2>3 DEF SetRunning, Goto, TypeOK, PCs, locals
  <2>4. CASE StopRelease(t)
    BY <1>1, <2>4 DEF StopRelease, Goto, TypeOK, PCs, locals
  <2>5. CASE StopClear(t)
    BY <1>1, <2>5 DEF StopClear, EndOfScope, Goto, TypeOK, PCs
  <2>6. CASE Release(t)
    BY <1>1, <2>6 DEF Release, Goto, TypeOK, PCs, locals
  <2>7. QED BY <2>1, <2>2, <2>3, <2>4, <2>5, <2>6
<1>4. Places'
  BY <1>1 DEF Start, Lock, SetRunning, StopRelease, StopClear, Release, Goto, TypeOK, Places
<1>5. Mutex'
  BY <1>1, PmonitorAssumption
  DEF Start, Lock, SetRunning, StopRelease, StopClear, Release, Goto, TypeOK, Mutex
<1>6. OpAlone'
  BY <1>1 DEF Start, Lock, SetRunning, StopRelease, StopClear, Release, Goto, TypeOK, OpAlone
<1>7. InHand'
  <2>1. pc[t] \notin {"advance", "process"} /\ pc'[t] \notin {"advance", "process"}
    BY <1>1 DEF Start, Lock, SetRunning, StopRelease, StopClear, Release, Goto, TypeOK, Loopers
  <2>2. UNCHANGED <<evt, position, processed>>
    BY DEF Start, Lock, SetRunning, StopRelease, StopClear, Release, locals
  <2>3. \A u \in Loopers : u # t => pc'[u] = pc[u]
    BY <1>1, <1>2 DEF TypeOK
  <2>4. QED BY <1>1, <2>1, <2>2, <2>3 DEF InHand
<1>8. QED BY <1>3, <1>4, <1>5, <1>6, <1>7 DEF StreamInv

\* In the loop an event goes from the iterator to process_event(): one of them
\* is in hand from Advance to Process, and nobody else is there.
LEMMA StreamLoop ==
  ASSUME StreamInv, NEW u \in Loopers, LoopStep(u)
  PROVE  StreamInv'
<1> USE OpIsNoThread
<1>1. TypeOK /\ Places /\ Mutex /\ OpAlone /\ InHand
  BY DEF StreamInv
<1>2. TypeOK'
  <2>1. CASE Get(u)
    <3>1. evt' \in [Loopers -> 0 .. LastEvent]
      <4>1. position < LastEvent => position + 1 \in 0 .. LastEvent
        BY <1>1, PmonitorAssumption DEF TypeOK
      <4>2. 0 \in 0 .. LastEvent
        BY PmonitorAssumption
      <4>3. \E e \in 0 .. LastEvent : evt' = [evt EXCEPT ![u] = e]
        BY <2>1, <4>1, <4>2 DEF Get
      <4>4. QED BY <1>1, <4>3 DEF TypeOK
    <3>2. pc' \in [Loopers -> PCs] /\ stopped' \in Loopers \cup {Nobody}
      BY <1>1, <2>1 DEF Get, Goto, TypeOK, PCs
    <3>3. QED BY <1>1, <2>1, <3>1, <3>2 DEF Get, TypeOK, state
  <2>2. CASE Advance(u)
    BY <1>1, <2>2 DEF Advance, Goto, TypeOK, PCs, locals
  <2>3. CASE Process(u)
    <3>1. evt[u] \in 1 .. LastEvent
      BY <1>1, <2>3, PmonitorAssumption DEF Process, InHand, TypeOK
    <3>2. processed' \in Seq(1 .. LastEvent)
      <4>1. processed \in Seq(1 .. LastEvent)
        BY <1>1 DEF TypeOK
      <4>2. Append(processed, evt[u]) \in Seq(1 .. LastEvent)
        BY <3>1, <4>1
      <4>3. QED BY <2>3, <4>1, <4>2 DEF Process
    <3>3. evt' \in [Loopers -> 0 .. LastEvent] /\ late' \in Nat
      BY <1>1, <2>3, PmonitorAssumption DEF Process, TypeOK
    <3>4. pc' \in [Loopers -> PCs]
      BY <1>1, <2>3 DEF Process, Goto, StopExit, TypeOK, PCs
    <3>5. stopped' \in Loopers \cup {Nobody}
      BY <1>1, <2>3 DEF Process, Forget, TypeOK
    <3>6. QED BY <1>1, <2>3, <3>2, <3>3, <3>4, <3>5 DEF Process, TypeOK, state
  <2>4. CASE Stopped(u)
    BY <1>1, <2>4 DEF Stopped, Forget, Goto, StopExit, TypeOK, PCs, state, locals
  <2>5. CASE Count(u)
    <3>1. ncount' \in [Loopers -> Nat]
      <4>1. ncount \in [Loopers -> Nat]
        BY <1>1 DEF TypeOK
      <4>2. QED BY <2>5, <4>1 DEF Count
    <3>2. pc' \in [Loopers -> PCs] /\ stopped' \in Loopers \cup {Nobody}
      BY <1>1, <2>5 DEF Count, Forget, Goto, TypeOK, PCs
    <3>3. QED BY <1>1, <2>5, <3>1, <3>2 DEF Count, TypeOK, state
  <2>6. CASE Clear(u)
    BY <1>1, <2>6 DEF Clear, EndOfScope, Goto, TypeOK, PCs
  <2>7. QED BY <2>1, <2>2, <2>3, <2>4, <2>5, <2>6 DEF LoopStep
<1>3. Places' /\ Mutex' /\ OpAlone'
  <2>1. runningTM' = runningTM /\ \A v \in Loopers : v # u => pc'[v] = pc[v]
    BY <1>1 DEF LoopStep, Get, Advance, Process, Stopped, Count, Clear, Goto, state, TypeOK
  <2>2. pc[u] \in {"get", "advance", "process", "check", "clear"}
    BY DEF LoopStep, Get, Advance, Process, Stopped, Count, Clear
  <2>3. pc'[u] \in IF u = op THEN {"get", "advance", "process", "check", "clear", "prompt"}
                   ELSE {"get", "advance", "process", "check", "clear", "stopRelease", "release"}
    BY <1>1 DEF LoopStep, Get, Advance, Process, Stopped, Count, Clear, Goto, StopExit, TypeOK
  <2>4. QED BY <1>1, <2>1, <2>2, <2>3 DEF Places, Mutex, OpAlone, Loopers
<1>4. InHand'
  <2>1. \A v \in Loopers : v # u /\ InLoop(u) => pc[v] \notin {"advance", "process"}
    BY OneInLoop DEF InLoop
  <2>2. CASE Get(u)
    BY <1>1, <2>1, <2>2 DEF Get, Goto, InHand, TypeOK, InLoop, state
  <2>3. CASE Advance(u)
    BY <1>1, <2>1, <2>3 DEF Advance, Goto, InHand, TypeOK, InLoop, locals
  <2>4. CASE Process(u)
    <3>1. processed' = Append(processed, position) /\ position' = position
      BY <1>1, <2>4 DEF Process, InHand, state
    <3>2. Len(processed') = position
      BY <1>1, <2>4, <3>1 DEF Process, InHand, TypeOK
    <3>3. \A i \in DOMAIN processed' : processed'[i] = i
      BY <1>1, <2>4, <3>1 DEF Process, InHand, TypeOK
    <3>4. \A v \in Loopers : pc'[v] \notin {"advance", "process"}
      BY <1>1, <2>1, <2>4 DEF Process, Goto, StopExit, InLoop, TypeOK
    <3>5. QED BY <3>1, <3>2, <3>3, <3>4 DEF InHand
  <2>5. CASE Stopped(u)
    BY <1>1, <2>1, <2>5 DEF Stopped, StopExit, Goto, InHand, TypeOK, InLoop, state, locals
  <2>6. CASE Count(u)
    BY <1>1, <2>1, <2>6 DEF Count, Goto, InHand, TypeOK, InLoop, state
  <2>7. CASE Clear(u)
    BY <1>1, <2>7 DEF Clear, Goto, InHand, TypeOK
  <2>8. QED BY <2>2, <2>3, <2>4, <2>5, <2>6, <2>7 DEF LoopStep
<1>5. QED BY <1>2, <1>3, <1>4 DEF StreamInv

LEMMA StreamNext == StreamInv /\ [Next]_vars => StreamInv'
<1>1. SUFFICES ASSUME StreamInv, [Next]_vars PROVE StreamInv'
  OBVIOUS
<1>2. CASE UNCHANGED vars
  BY <1>1, <1>2
  DEF StreamInv, TypeOK, Places, Mutex, OpAlone, InHand, vars, state, locals
<1>3. CASE Command \/ PwaitReturns
  BY <1>1, <1>3, StreamCommand
<1>4. CASE LoopStep(op)
  BY <1>1, <1>4, StreamLoop, OpIsNoThread
<1>5. ASSUME NEW t \in Threads, ThreadStep(t) PROVE StreamInv'
  BY <1>1, <1>5, StreamOutside, StreamLoop, OpIsNoThread DEF ThreadStep
<1>6. QED BY <1>1, <1>2, <1>3, <1>4, <1>5 DEF Next, PromptStep

LEMMA StreamInvariant == Spec => []StreamInv
  BY StreamInit, StreamNext, PTL DEF Spec

\* process_event() sees every event once and in order, whatever the operator
\* starts, stops and waits for, and however the threads interleave.
THEOREM EventsInOrder == Spec => []EventsOnceInOrder
<1>1. StreamInv => EventsOnceInOrder
  <2>1. SUFFICES ASSUME StreamInv PROVE EventsOnceInOrder
    OBVIOUS
  <2>2. TypeOK /\ InHand
    BY <2>1 DEF StreamInv
  <2>3. position \in Nat /\ Len(processed) \in Nat
    BY <2>2, PmonitorAssumption DEF TypeOK
  <2>4. position = Len(processed) \/ position = Len(processed) + 1
    BY <2>2 DEF InHand
  <2>5. QED BY <2>2, <2>3, <2>4 DEF EventsOnceInOrder, InHand
<1>2. QED BY <1>1, StreamInvariant, PTL

-----------------------------------------------------------------------------
(* A patient operator's pstop()                                             *)

LEMMA StopInit == Init => StopInv
<1>1. SUFFICES ASSUME Init PROVE StopInv
  OBVIOUS
<1>2. \A u \in Loopers : pc[u] \in {"none", "prompt"}
  BY <1>1 DEF Init
<1>3. OneActive
  BY <1>2 DEF OneActive, Active
<1>4. StopHolds
  BY <1>1 DEF Init, StopHolds
<1>5. QED BY <1>1, <1>3, <1>4, StreamInit DEF StopInv

\* An operator who waits until a thread is in its loop starts none beside it.
LEMMA StopCommand ==
  ASSUME StreamInv, patient, OneActive, StopHolds, Command \/ PwaitReturns
  PROVE  OneActive' /\ StopHolds'
<1> USE OpIsNoThread
<1>1. TypeOK
  BY DEF StreamInv
<1>2. CASE Pfileopen
  BY <1>2 DEF Pfileopen, OneActive, Active, StopHolds, InLoop
<1>3. ASSUME NEW n \in Requests, Pstart(n) PROVE OneActive' /\ StopHolds'
  <2>1. PICK t \in Threads : pc[t] = "none" /\ pc' = [pc EXCEPT ![t] = "start"]
    BY <1>3 DEF Pstart, Goto
  <2>2. \A u \in Loopers : ~Active(u)
    BY <1>3 DEF Pstart, AtPrompt, Settled, OneActive, Active, Loopers
  <2>3. OneActive'
    BY <1>1, <1>3, <2>1, <2>2 DEF Pstart, OneActive, Active, TypeOK
  <2>4. stopped = Nobody
    BY <1>1, <2>2 DEF StopHolds, InLoop, Active, TypeOK
  <2>5. StopHolds'
    BY <1>3, <2>4 DEF Pstart, StopHolds
  <2>6. QED BY <2>3, <2>5
<1>4. ASSUME NEW n \in Requests, Prun(n) PROVE OneActive' /\ StopHolds'
  <2>1. \A u \in Loopers : ~Active(u)
    BY <1>4 DEF Prun, AtPrompt, Active, Loopers
  <2>2. OneActive'
    BY <1>1, <1>4, <2>1 DEF Prun, Goto, OneActive, Active, TypeOK
  <2>3. stopped = Nobody
    BY <1>1, <2>1 DEF StopHolds, InLoop, Active, TypeOK
  <2>4. StopHolds'
    BY <1>4, <2>3 DEF Prun, StopHolds
  <2>5. QED BY <2>2, <2>4
<1>5. CASE Pstop
  <2>1. OneActive'
    BY <1>5 DEF Pstop, OneActive, Active
  <2>2. CASE \E u \in Loopers : InLoop(u) /\ stopped' = u /\ late' = 0
    BY <1>5, <2>1, <2>2 DEF Pstop, StopHolds, InLoop
  <2>3. CASE (\A u \in Loopers : ~InLoop(u)) /\ UNCHANGED <<stopped, late>>
    BY <1>1, <1>5, <2>1, <2>3 DEF Pstop, StopHolds, InLoop, TypeOK
  <2>4. QED BY <1>5, <2>2, <2>3 DEF Pstop
<1>6. CASE Pwait \/ PwaitReturns
  <2>1. pc[op] \in {"prompt", "pwait"} /\ pc' \in {[pc EXCEPT ![op] = "prompt"], [pc EXCEPT ![op] = "pwait"]}
    BY <1>6 DEF Pwait, PwaitReturns, AtPrompt, Goto
  <2>2. UNCHANGED <<running, stopcondition, stopped, late>>
    BY <1>6 DEF Pwait, PwaitReturns, state
  <2>3. OneActive'
    BY <1>1, <2>1, <2>2 DEF OneActive, Active, TypeOK
  <2>4. StopHolds'
    BY <1>1, <2>1, <2>2 DEF StopHolds, InLoop, TypeOK
  <2>5. QED BY <2>3, <2>4
<1>7. QED BY <1>2, <1>3, <1>4, <1>5, <1>6 DEF Command

\* The flag is set before the loop and cleared behind it.
LEMMA OneActiveStep ==
  ASSUME StreamInv, OneActive, NEW u \in Loopers,
         LoopStep(u) \/ (u \in Threads /\ ThreadStep(u))
  PROVE  OneActive'
<1>1. TypeOK
  BY DEF StreamInv
<1>2. \A v \in Loopers : v # u => pc'[v] = pc[v]
  BY <1>1 DEF ThreadStep, Start, Lock, SetRunning, StopRelease, StopClear, Release,
     LoopStep, Get, Advance, Process, Stopped, Count, Clear, Goto, TypeOK
<1>3. CASE pc[u] = "release"
  <2>1. UNCHANGED running /\ pc'[u] = "none"
    BY <1>1, <1>3 DEF ThreadStep, Start, Lock, SetRunning, StopRelease, StopClear, Release,
       LoopStep, Get, Advance, Process, Stopped, Count, Clear, Goto, TypeOK
  <2>2. QED BY <1>2, <2>1 DEF OneActive, Active
<1>4. CASE pc[u] # "release"
  <2>1. Active(u)
    BY <1>4 DEF Active, ThreadStep, Start, Lock, SetRunning, StopRelease, StopClear, Release,
       LoopStep, Get, Advance, Process, Stopped, Count, Clear
  <2>2. \A v \in Loopers : v # u => ~Active(v) /\ pc'[v] = pc[v]
    BY <1>2, <2>1 DEF OneActive
  <2>3. Active(u)' /\ pc'[u] \notin {"start", "lock", "setRunning"} => running'
    BY <1>1, <2>1 DEF OneActive, Active, ThreadStep, Start, Lock, SetRunning, StopRelease,
       StopClear, Release, LoopStep, Get, Advance, Process, Stopped, Count, Clear, Goto,
       StopExit, TypeOK, state
  <2>4. QED BY <2>2, <2>3 DEF OneActive, Active
<1>5. QED BY <1>3, <1>4

\* Only the loop that is to stop counts, and it counts one event at most.
LEMMA StopHoldsStep ==
  ASSUME StreamInv, OneActive, StopHolds, NEW u \in Loopers,
         LoopStep(u) \/ (u \in Threads /\ ThreadStep(u))
  PROVE  StopHolds'
<1>1. TypeOK
  BY DEF StreamInv
<1>2. Nobody \notin Loopers
  BY PmonitorAssumption DEF Loopers
<1>3. stopped # Nobody /\ pc[u] # "release" => stopped = u
  <2>1. stopped # Nobody => stopped \in Loopers /\ Active(stopped)
    BY <1>1 DEF StopHolds, InLoop, Active, TypeOK
  <2>2. pc[u] # "release" => Active(u)
    BY DEF Active, ThreadStep, Start, Lock, SetRunning, StopRelease, StopClear, Release,
       LoopStep, Get, Advance, Process, Stopped, Count, Clear
  <2>3. QED BY <2>1, <2>2 DEF OneActive
<1>4. CASE Get(u)
  BY <1>1, <1>2, <1>3, <1>4 DEF Get, Goto, StopHolds, InLoop, TypeOK, state
<1>5. CASE Advance(u)
  BY <1>1, <1>2, <1>3, <1>5 DEF Advance, Goto, StopHolds, InLoop, TypeOK
<1>6. CASE Process(u)
  BY <1>1, <1>2, <1>3, <1>6 DEF Process, Forget, Goto, StopExit, StopHolds, InLoop, TypeOK, state
<1>7. CASE Stopped(u)
  BY <1>1, <1>2, <1>3, <1>7 DEF Stopped, Forget, Goto, StopExit, StopHolds, InLoop, TypeOK, state
<1>8. CASE Count(u)
  <2>1. stopped = Nobody
    BY <1>2, <1>3, <1>8 DEF Count, StopHolds
  <2>2. stopped' = Nobody /\ late' = late
    BY <1>2, <1>8, <2>1 DEF Count, Forget
  <2>3. QED BY <2>2 DEF StopHolds
<1>9. CASE Clear(u)
  BY <1>1, <1>2, <1>3, <1>9 DEF Clear, Goto, StopHolds, InLoop, TypeOK
<1>10. CASE Start(u) \/ Lock(u) \/ SetRunning(u) \/ StopRelease(u) \/ StopClear(u)
  <2>1. stopped = Nobody
    BY <1>2, <1>3, <1>10 DEF Start, Lock, SetRunning, StopRelease, StopClear, StopHolds, InLoop
  <2>2. UNCHANGED <<stopped, late>>
    BY <1>10 DEF Start, Lock, SetRunning, StopRelease, StopClear
  <2>3. QED BY <2>1, <2>2 DEF StopHolds
<1>11. CASE Release(u)
  <2>1. stopped # u
    BY <1>2, <1>11 DEF Release, StopHolds, InLoop
  <2>2. QED BY <1>1, <1>11, <2>1 DEF Release, Goto, StopHolds, InLoop, TypeOK
<1>12. QED BY <1>4, <1>5, <1>6, <1>7, <1>8, <1>9, <1>10, <1>11 DEF LoopStep, ThreadStep

LEMMA StopNext == StopInv /\ [Next]_vars => StopInv'
<1>1. SUFFICES ASSUME StopInv, [Next]_vars PROVE StopInv'
  OBVIOUS
<1>2. StreamInv'
  BY <1>1, StreamNext DEF StopInv
<1>3. ASSUME patient' PROVE OneActive' /\ StopHolds'
  <2>1. patient /\ StreamInv /\ OneActive /\ StopHolds
    <3>1. patient' = patient
      BY <1>1 DEF vars, Next, Command, Pfileopen, Pstart, Prun, Pstop, Pwait, PromptStep,
         PwaitReturns, ThreadStep, Start, Lock, SetRunning, StopRelease, StopClear, Release,
         LoopStep, Get, Advance, Process, Stopped, Count, Clear
    <3>2. QED BY <1>1, <1>3, <3>1 DEF StopInv
  <2>2. CASE UNCHANGED vars
    BY <2>1, <2>2 DEF OneActive, Active, StopHolds, InLoop, vars, state
  <2>3. CASE Command \/ PwaitReturns
    BY <2>1, <2>3, StopCommand
  <2>4. CASE LoopStep(op)
    <3>1. OneActive'
      BY <2>1, <2>4, OneActiveStep, OpIsNoThread
    <3>2. StopHolds'
      BY <2>1, <2>4, StopHoldsStep, OpIsNoThread
    <3>3. QED BY <3>1, <3>2
  <2>5. ASSUME NEW t \in Threads, ThreadStep(t) PROVE OneActive' /\ StopHolds'
    <3>1. t \in Loopers /\ (LoopStep(t) \/ (t \in Threads /\ ThreadStep(t)))
      BY <2>5, OpIsNoThread
    <3>2. OneActive'
      BY <2>1, <3>1, OneActiveStep
    <3>3. StopHolds'
      BY <2>1, <3>1, StopHoldsStep
    <3>4. QED BY <3>2, <3>3
  <2>6. QED BY <1>1, <2>2, <2>3, <2>4, <2>5 DEF Next, PromptStep
<1>4. QED BY <1>2, <1>3 DEF StopInv

\* For the operator who waits until a thread is in its loop, pstop() is never
\* refused while a loop is under way and lets one event at most pass.
THEOREM PatientStops == Spec => []StopWorks
<1>1. StopInv => StopWorks
  BY DEF StopInv, StopWorks, OneActive, StopHolds, Active, InLoop
<1>2. QED BY <1>1, StopInit, StopNext, PTL DEF Spec

=============================================================================
