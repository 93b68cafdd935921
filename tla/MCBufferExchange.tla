-------------------------- MODULE MCBufferExchange --------------------------
(***************************************************************************)
(* BufferExchange on small instances: two threads that take turns in       *)
(* readout(), buffers of one or two events.                                *)
(***************************************************************************)
EXTENDS BufferExchange, TLC

CONSTANTS t1, t2

MCThreads == {t1, t2}
ThreadSymmetry == Permutations(MCThreads)

\* Both bounds are reached and nobody is at work: the instance may rest here.
Finished ==
    /\ Event_number > EventBound /\ Buffer_number > BufferBound
    /\ Alone /\ ~WriterOwes /\ ~SenderOwes
    /\ UNCHANGED vars

MCSpec == Init /\ [][Next \/ Finished]_vars

=============================================================================
