----------------------------- MODULE OncsReader -----------------------------
(***************************************************************************)
(* oncsBuffer::getEvent() of the online library on a buffer that daqBuffer *)
(* wrote: the iterator calls it until it returns nothing.  What it reads   *)
(* is a copy, so that here the buffer is used again when it is through.    *)
(***************************************************************************)
EXTENDS DaqBuffer

VARIABLES
    evt_index,   \* current_index of oncsBuffer: the next event, -1 at the end
    found        \* the events handed out

readerVars == <<evt_index, found>>

ReaderInit == Init /\ evt_index = -1 /\ found = << >>

\* A buffer that has been closed is handed to the constructor of oncsBuffer.
WriteStep ==
    /\ evt_index < 0
    /\ Next
    /\ evt_index' = IF state' = "closed" THEN 0 ELSE -1
    /\ found' = << >>

\* Words 0 and 1 of an end-of-buffer event.
IsEoB(i) == i \in DOMAIN heads /\ heads[i].len = 2 /\ heads[i].type = 0

\* Where no event was begun, the length is some word of a subevent or of an
\* earlier use of the memory.
EventsAt(i) == IF i \in DOMAIN heads THEN {heads[i]} ELSE {Header(l, 0, 0) : l \in 0 .. 1}

\* The new index points outside the memory (the code compares with a length in
\* bytes), behind the logical end, or at an end-of-buffer event.
AtEnd(i) == i < 0 \/ i >= Length \/ i > Length \div 4 \/ IsEoB(i)

\* The event at the index is handed out.  The test for the end of the buffer
\* is made at the index behind it, never at index 0.
GetEvent ==
    /\ evt_index >= 0
    /\ \E evt \in EventsAt(evt_index) :
        LET next == evt_index + evt.len
        IN  IF evt.len <= 0 THEN evt_index' = -1 /\ found' = found
            ELSE /\ evt_index' = IF AtEnd(next) THEN -1 ELSE next
                 /\ found' = Append(found, evt)
    /\ UNCHANGED vars

ReaderNext == WriteStep \/ GetEvent

ReaderSpec == ReaderInit /\ [][ReaderNext]_<<vars, readerVars>>

-----------------------------------------------------------------------------
(* Properties *)

\* The reader hands out the events that readout() kept, in order and with their
\* lengths, types and numbers, and when it is through it has all of them,
\* whatever the memory held before: headers taken back by emptyEvent() and those
\* of earlier uses of the buffer do not come back.
ReadsBack ==
    state = "closed" /\ kept # << >> =>
        IF evt_index < 0 THEN found = kept
        ELSE Len(found) < Len(kept) /\ found = SubSeq(kept, 1, Len(found))

\* "are we pointing to an end-of-buffer event?": a buffer without events has
\* none to be read.
EmptyReadsEmpty == state = "closed" /\ kept = << >> => found = << >>

=============================================================================
