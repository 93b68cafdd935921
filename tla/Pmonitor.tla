------------------------------- MODULE Pmonitor -------------------------------
(***************************************************************************)
(* The event loop of the online monitor, pmonitor.cc.  At the ROOT prompt, *)
(* pstart() runs pprocess() in a thread, prun() runs the same loop in the  *)
(* foreground, pstop() sets a flag and pwait() waits for a mutex that the  *)
(* threads hold while they are in the loop.                                *)
(*                                                                         *)
(* pstart() looks at a flag that only the new thread sets, so that a quick *)
(* operator can start a second thread, which waits for the mutex.          *)
(* "patient" says whether the operator of this behaviour waits until a     *)
(* thread he has started is in its loop (or done) before he goes on.       *)
(***************************************************************************)
EXTENDS Naturals, Sequences

CONSTANTS
    Threads, op,      \* the threads pstart() may start, and the prompt
    Nobody,
    LastEvent,        \* events in the stream
    Requests          \* arguments of pstart() and prun(); 0 is no limit

ASSUME PmonitorAssumption ==
    /\ op \notin Threads /\ Nobody \notin Threads \cup {op}
    /\ LastEvent \in Nat /\ Requests \subseteq Nat

Loopers == Threads \cup {op}

VARIABLES
    patient,
    opened,           \* theState: a stream is open
    running,          \* theState.running
    stopcondition, totalevents,
    runningTM,        \* the mutex: who holds it
    position,         \* events the iterator has handed out
    pc,               \* where each thread and the prompt are
    nevents, ncount, evt,          \* the locals of the loop; 0 out of their scope
    processed,        \* history: the events process_event() has seen
    stopped, late     \* history: the loop a pstop() was meant for, and the
                      \* events it has processed since

state  == <<opened, running, stopcondition, totalevents, runningTM, position>>
locals == <<nevents, ncount, evt>>
vars   == <<patient, state, pc, locals, processed, stopped, late>>

Goto(u, to) == pc' = [pc EXCEPT ![u] = to]

\* Inside the loop: from the start of the first event to the decision to leave.
InLoop(u) == pc[u] \in {"get", "advance", "process", "check"}

\* Every thread started so far has reached its loop or is done.
Settled == \A t \in Threads : pc[t] \notin {"start", "lock", "setRunning"}

AtPrompt == pc[op] = "prompt" /\ (patient => Settled)

-----------------------------------------------------------------------------
(* The commands.  One that is refused changes nothing and is left out.      *)

\* pfileopen() and its kin; the stream stays open from then on.
Pfileopen ==
    /\ AtPrompt /\ ~opened
    /\ opened' = TRUE
    /\ UNCHANGED <<patient, running, stopcondition, totalevents, runningTM, position, pc,
                   locals, processed, stopped, late>>

\* TThread::Run() starts a thread, also when the last one is still running.
Pstart(n) ==
    /\ AtPrompt /\ opened /\ ~running
    /\ totalevents' = n
    /\ \E t \in Threads : pc[t] = "none" /\ Goto(t, "start")
    /\ UNCHANGED <<patient, opened, running, stopcondition, runningTM, position, locals,
                   processed, stopped, late>>

\* It asks nobody; here the operator does not use it next to a thread.
Prun(n) ==
    /\ AtPrompt /\ opened
    /\ \A t \in Threads : pc[t] = "none"
    /\ stopcondition' = 0
    /\ running' = TRUE
    /\ nevents' = [nevents EXCEPT ![op] = n]
    /\ ncount'  = [ncount EXCEPT ![op] = 0]
    /\ Goto(op, "get")
    /\ UNCHANGED <<patient, opened, totalevents, runningTM, position, evt,
                   processed, stopped, late>>

Pstop ==
    /\ AtPrompt /\ running
    /\ stopcondition' = 1
    /\ \/ \E u \in Loopers : InLoop(u) /\ stopped' = u /\ late' = 0
       \/ (\A u \in Loopers : ~InLoop(u)) /\ UNCHANGED <<stopped, late>>
    /\ UNCHANGED <<patient, opened, running, totalevents, runningTM, position, pc, locals,
                   processed>>

Pwait ==
    /\ AtPrompt
    /\ Goto(op, "pwait")
    /\ UNCHANGED <<patient, state, locals, processed, stopped, late>>

\* runningTM.Lock() and Release().
PwaitReturns ==
    /\ pc[op] = "pwait" /\ runningTM = Nobody
    /\ Goto(op, "prompt")
    /\ UNCHANGED <<patient, state, locals, processed, stopped, late>>

-----------------------------------------------------------------------------
(* pprocess() and prun()                                                    *)

\* Up to the lock.
Start(t) ==
    /\ pc[t] = "start"
    /\ nevents' = [nevents EXCEPT ![t] = totalevents]
    /\ ncount'  = [ncount EXCEPT ![t] = 0]
    /\ stopcondition' = 0
    /\ Goto(t, "lock")
    /\ UNCHANGED <<patient, opened, running, totalevents, runningTM, position, evt,
                   processed, stopped, late>>

\* Mutant of Lock: the threads do not exclude each other.
LockNothing(t) ==
    /\ pc[t] = "lock"
    /\ Goto(t, "setRunning")
    /\ UNCHANGED <<patient, state, locals, processed, stopped, late>>

Lock(t) ==
    /\ pc[t] = "lock" /\ runningTM = Nobody
    /\ runningTM' = t
    /\ Goto(t, "setRunning")
    /\ UNCHANGED <<patient, opened, running, stopcondition, totalevents, position, locals,
                   processed, stopped, late>>

SetRunning(t) ==
    /\ pc[t] = "setRunning"
    /\ running' = TRUE
    /\ Goto(t, "get")
    /\ UNCHANGED <<patient, opened, stopcondition, totalevents, runningTM, position, locals,
                   processed, stopped, late>>

\* getNextEvent() takes the event at its position, 0 at the end of the stream...
Get(u) ==
    /\ pc[u] = "get"
    /\ IF position < LastEvent
         THEN /\ evt' = [evt EXCEPT ![u] = position + 1]
              /\ Goto(u, "advance")
              /\ UNCHANGED stopped
         ELSE /\ evt' = [evt EXCEPT ![u] = 0]
              /\ Goto(u, "clear")
              /\ stopped' = IF stopped = u THEN Nobody ELSE stopped
    /\ UNCHANGED <<patient, state, nevents, ncount, processed, late>>

\* ...and moves on.
Advance(u) ==
    /\ pc[u] = "advance"
    /\ position' = evt[u]
    /\ Goto(u, "process")
    /\ UNCHANGED <<patient, opened, running, stopcondition, totalevents, runningTM, locals,
                   processed, stopped, late>>

\* The way out after a status or pstop().
StopExit(u) == IF u = op THEN "clear" ELSE "stopRelease"

Forget(u) == stopped' = IF stopped = u THEN Nobody ELSE stopped

\* process_event() of the user; a status other than 0 ends the loop.
Process(u) ==
    /\ pc[u] = "process"
    /\ processed' = Append(processed, evt[u])
    /\ evt'  = [evt EXCEPT ![u] = 0]
    /\ late' = IF stopped = u THEN late + 1 ELSE late
    /\ \/ Goto(u, "check") /\ UNCHANGED stopped
       \/ Goto(u, StopExit(u)) /\ Forget(u)
    /\ UNCHANGED <<patient, state, nevents, ncount>>

\* So does pstop()...
Stopped(u) ==
    /\ pc[u] = "check" /\ stopcondition # 0
    /\ Goto(u, StopExit(u))
    /\ Forget(u)
    /\ UNCHANGED <<patient, state, locals, processed, late>>

\* Mutant of Count: the loop goes on whatever stopcondition says.
CountUnasked(u) ==
    /\ pc[u] = "check"
    /\ Goto(u, "get")
    /\ UNCHANGED <<patient, state, locals, processed, stopped, late>>

\* ...and the last of the events asked for.
Count(u) ==
    LET n == ncount[u] + 1
        last == nevents[u] > 0 /\ n >= nevents[u]
    IN  /\ pc[u] = "check" /\ stopcondition = 0
        /\ ncount' = [ncount EXCEPT ![u] = IF nevents[u] > 0 THEN n ELSE 0]
        /\ IF last THEN Goto(u, "clear") /\ Forget(u)
                   ELSE Goto(u, "get") /\ UNCHANGED stopped
        /\ UNCHANGED <<patient, state, nevents, evt, processed, late>>

EndOfScope(u) ==
    /\ nevents' = [nevents EXCEPT ![u] = 0]
    /\ ncount'  = [ncount EXCEPT ![u] = 0]

\* Mutant of StopRelease: a stopped loop keeps the mutex.
StopKeeps(t) ==
    /\ pc[t] = "stopRelease"
    /\ Goto(t, "stopClear")
    /\ UNCHANGED <<patient, state, locals, processed, stopped, late>>

\* A stopped thread gives the mutex back before it clears the flag...
StopRelease(t) ==
    /\ pc[t] = "stopRelease"
    /\ runningTM' = Nobody
    /\ Goto(t, "stopClear")
    /\ UNCHANGED <<patient, opened, running, stopcondition, totalevents, position, locals,
                   processed, stopped, late>>

StopClear(t) ==
    /\ pc[t] = "stopClear"
    /\ running' = FALSE
    /\ EndOfScope(t)
    /\ Goto(t, "none")
    /\ UNCHANGED <<patient, opened, stopcondition, totalevents, runningTM, position, evt,
                   processed, stopped, late>>

\* ...any other end, and prun(), clears the flag first.
Clear(u) ==
    /\ pc[u] = "clear"
    /\ running' = FALSE
    /\ EndOfScope(u)
    /\ Goto(u, IF u = op THEN "prompt" ELSE "release")
    /\ UNCHANGED <<patient, opened, stopcondition, totalevents, runningTM, position, evt,
                   processed, stopped, late>>

Release(t) ==
    /\ pc[t] = "release"
    /\ runningTM' = Nobody
    /\ Goto(t, "none")
    /\ UNCHANGED <<patient, opened, running, stopcondition, totalevents, position, locals,
                   processed, stopped, late>>

-----------------------------------------------------------------------------
Init ==
    /\ patient \in BOOLEAN
    /\ opened = FALSE /\ running = FALSE
    /\ stopcondition = 0 /\ totalevents = 0
    /\ runningTM = Nobody /\ position = 0
    /\ pc = [u \in Loopers |-> IF u = op THEN "prompt" ELSE "none"]
    /\ nevents = [u \in Loopers |-> 0] /\ ncount = [u \in Loopers |-> 0]
    /\ evt = [u \in Loopers |-> 0]
    /\ processed = << >> /\ stopped = Nobody /\ late = 0

Command ==
    \/ Pfileopen \/ Pstop \/ Pwait
    \/ (\E n \in Requests : Pstart(n) \/ Prun(n))

LoopStep(u) ==
    Get(u) \/ Advance(u) \/ Process(u) \/ Stopped(u) \/ Count(u) \/ Clear(u)

ThreadStep(t) ==
    \/ Start(t) \/ Lock(t) \/ SetRunning(t) \/ LoopStep(t)
    \/ StopRelease(t) \/ StopClear(t) \/ Release(t)

PromptStep == LoopStep(op) \/ PwaitReturns

Next == Command \/ PromptStep \/ \E t \in Threads : ThreadStep(t)

Spec == Init /\ [][Next]_vars

(***************************************************************************)
(* Fairness: the kernel schedules the threads, the iterator comes back     *)
(* with an event or the end of the stream, and so does process_event().    *)
(* Commands are not fair.  While the prompt waits in pwait() nobody starts *)
(* threads, and the mutex goes round the threads there are.                *)
(***************************************************************************)
FairSpec ==
    /\ Spec
    /\ \A t \in Threads : WF_vars(ThreadStep(t))
    /\ WF_vars(PromptStep)

-----------------------------------------------------------------------------
(* Properties *)

PCs == {"none", "start", "lock", "setRunning", "get", "advance", "process", "check",
        "stopRelease", "stopClear", "clear", "release", "prompt", "pwait"}

\* Types of the variables.
TypeOK ==
    /\ patient \in BOOLEAN /\ opened \in BOOLEAN /\ running \in BOOLEAN
    /\ stopcondition \in {0, 1} /\ totalevents \in Nat
    /\ runningTM \in Threads \cup {Nobody}
    /\ position \in 0 .. LastEvent
    /\ pc \in [Loopers -> PCs]
    /\ nevents \in [Loopers -> Nat] /\ ncount \in [Loopers -> Nat]
    /\ evt \in [Loopers -> 0 .. LastEvent]
    /\ processed \in Seq(1 .. LastEvent)
    /\ stopped \in Loopers \cup {Nobody} /\ late \in Nat

\* However starts, stops and waits are mixed, process_event() sees every event
\* of the stream once and in order, up to where the iterator stands: nothing is
\* lost when a loop is stopped and another one goes on, and two threads never
\* take the same event.
EventsOnceInOrder ==
    /\ \A i \in DOMAIN processed : processed[i] = i
    /\ Len(processed) <= position /\ position <= Len(processed) + 1
    /\ (\A u \in Loopers : pc[u] # "process") => Len(processed) = position

\* A patient operator can stop every loop: pstop() is not refused while one is
\* under way, and after it the loop processes the event at hand and no more.
StopWorks ==
    patient =>
        /\ \A u \in Loopers : InLoop(u) => running
        /\ late <= 1

\* pwait() returns once the loops have come to their end.
WaitEnds == pc[op] = "pwait" ~> pc[op] = "prompt"

=============================================================================
