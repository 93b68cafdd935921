----------------------------- MODULE EventStream -----------------------------
(***************************************************************************)
(* What the data path of rcdaq promises, without buffers or threads: an    *)
(* accepted event waits in memory and leaves it once, in the order of      *)
(* acceptance, together with any number of its successors.                 *)
(***************************************************************************)
EXTENDS Integers, Sequences

CONSTANTS
    Payload,  \* the events that can be accepted
    MayFail   \* TRUE: storing a batch can fail, and then the batch is lost

VARIABLES
    logging,   \* TRUE: batches are stored; FALSE: they are discarded
    inMemory,  \* accepted, not yet stored
    stored

vars == <<logging, inMemory, stored>>

Rest(k) == SubSeq(inMemory, k + 1, Len(inMemory))

Init == logging \in BOOLEAN /\ inMemory = << >> /\ stored = << >>

\* Said of the memory after the step, so that Payload may be infinite for TLC.
Accept ==
    LET n == Len(inMemory)
    IN  /\ Len(inMemory') = n + 1
        /\ SubSeq(inMemory', 1, n) = inMemory
        /\ inMemory'[n + 1] \in Payload
        /\ UNCHANGED <<logging, stored>>

Store(k) ==
    /\ logging
    /\ stored' = stored \o SubSeq(inMemory, 1, k)
    /\ inMemory' = Rest(k)
    /\ UNCHANGED logging

Discard(k) ==
    /\ ~logging \/ MayFail
    /\ inMemory' = Rest(k)
    /\ UNCHANGED <<logging, stored>>

Next == Accept \/ \E k \in 1 .. Len(inMemory) : Store(k) \/ Discard(k)

Spec == Init /\ [][Next]_vars

=============================================================================
