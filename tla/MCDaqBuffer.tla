----------------------------- MODULE MCDaqBuffer -----------------------------
(***************************************************************************)
(* DaqBuffer with the word counts of the code: six random devices with an  *)
(* odd number of words (the worst readlist the reserve still covers) and   *)
(* sizes that bring the buffer to exactly the last word.                   *)
(***************************************************************************)
EXTENDS OncsReader, TLC

Dev(kind, e, n) == [kind |-> kind, etype |-> e, n |-> n]

MCDevices ==
    << Dev("random", 1, 101), Dev("random", 1, 101), Dev("random", 1, 101),
       Dev("random", 1, 101), Dev("random", 1, 101), Dev("random", 1, 101),
       Dev("deadtime", 2, 2024), Dev("command", 9, 0), Dev("file", 9, 900) >>

MCTail(len(_, _)) ==
    [e \in EventTypes |->
        LET sum[i \in 1 .. Last + 1] ==
                IF i = Last + 1 THEN 0 ELSE len(MCDevices[i], e) + sum[i + 1]
        IN  sum]

MCPromised == MCTail(MaxLength)
MCOverrun  == MCTail(Extra)

=============================================================================
