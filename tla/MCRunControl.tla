---------------------------- MODULE MCRunControl ----------------------------
(***************************************************************************)
(* RunControl on small instances: EventLoop, one command thread, and room  *)
(* for a second trigger loop.                                              *)
(***************************************************************************)
EXTENDS RunControl

CONSTANTS c1, l1, l2

MCCmds    == {c1}
MCThreads == {evt, c1}
MCLoops   == {l1, l2}
MCFds     == 1 .. RunBound
LoopSymmetry == Permutations(MCLoops)

\* The last run of the instance is over and nobody is at work.
Finished ==
    /\ AtRest /\ ~Running
    /\ TheRun = RunBound \/ Len(monitor) >= BufferBound
    /\ UNCHANGED allVars

MCSpec == RCInit /\ [][RCNext \/ Finished]_allVars
MCFairSpec == MCSpec /\ RCFairness

=============================================================================
