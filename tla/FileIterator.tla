----------------------------- MODULE FileIterator -----------------------------
(***************************************************************************)
(* A file of buffers between writen() of rcdaq.cc, which puts whole        *)
(* 8192-byte blocks there buffer by buffer and gives a buffer up when a    *)
(* write() fails, and fileEventiterator, which reads record by record: it  *)
(* skips records until one starts with the marker of a buffer and takes as *)
(* many as the length next to the marker says.                             *)
(*                                                                         *)
(* The file is a sequence of half blocks, so that a write() that breaks    *)
(* off inside a block shifts all that follows.  Half block i of buffer b   *)
(* is <<b, i>>; <<b, 1>> holds length and marker.  The file may be read    *)
(* while it is written ("online") or afterwards.                           *)
(***************************************************************************)
EXTENDS Naturals, Sequences

CONSTANTS
    Sizes,            \* blocks of a buffer
    BufferBound       \* bound of the model on the buffers

ASSUME FileIteratorAssumption == Sizes \subseteq Nat \ {0} /\ BufferBound \in Nat

VARIABLES
    online,
    file,
    blocks,           \* blocks of each buffer handed to writen()
    from,             \* where in the file it begins
    nleft,            \* half blocks writen() has yet to write; 0: it is not at work
    failed,           \* history: the buffers it gave up
    closed,           \* the file is complete
    pos,              \* half blocks read() has returned
    reading,          \* "none", "header" or "body" of a buffer, or the "end"
    buffer_size, bp,  \* blocks to read and records read of the current buffer
    got               \* history: the buffers handed to makeBuffer()

writerVars == <<file, blocks, from, nleft, failed, closed>>
readerVars == <<pos, reading, buffer_size, bp, got>>
vars == <<online, writerVars, readerVars>>

-----------------------------------------------------------------------------
(* writen(), called by writeout()                                           *)

HalfBlocks(b) == 2 * blocks[b]
Current == Len(blocks)

StartBuffer(n) ==
    /\ nleft = 0 /\ ~closed /\ Len(blocks) < BufferBound
    /\ blocks' = Append(blocks, n)
    /\ from'   = Append(from, Len(file))
    /\ nleft'  = 2 * n
    /\ UNCHANGED <<online, file, failed, closed, readerVars>>

\* write() puts down as much as it likes; the loop goes on with the rest.
WriteSome ==
    /\ \E k \in 1 .. nleft :
         LET first == HalfBlocks(Current) - nleft
         IN  /\ file'  = file \o [i \in 1 .. k |-> <<Current, first + i>>]
             /\ nleft' = nleft - k
    /\ UNCHANGED <<online, blocks, from, failed, closed, readerVars>>

\* write() returns -1: the rest of the buffer is never written.
WriteFails ==
    /\ nleft > 0
    /\ nleft'  = 0
    /\ failed' = failed \cup {Current}
    /\ UNCHANGED <<online, file, blocks, from, closed, readerVars>>

CloseFile ==
    /\ nleft = 0 /\ ~closed
    /\ closed' = TRUE
    /\ UNCHANGED <<online, file, blocks, from, nleft, failed, readerVars>>

-----------------------------------------------------------------------------
(* fileEventiterator                                                        *)

MayRead == online \/ closed

\* read() of one record: all of it, or what there is up to the end.
FullRecord == pos + 2 <= Len(file)
Record == <<file[pos + 1], file[pos + 2]>>
ReadShort == pos' = Len(file)

\* getNextEvent() needs a buffer.
NextBuffer ==
    /\ MayRead /\ reading = "none"
    /\ reading' = "header"
    /\ buffer_size' = 0 /\ bp' = << >>
    /\ UNCHANGED <<online, writerVars, pos, got>>

IsHeader(record) == record[1][2] = 1

\* Mutant of SkipRecord: the first record without a marker is the end.
SkipRecordStops ==
    /\ MayRead /\ reading = "header" /\ FullRecord
    /\ ~IsHeader(Record)
    /\ reading' = "end"
    /\ UNCHANGED <<online, writerVars, pos, buffer_size, bp, got>>

SkipRecord ==
    /\ MayRead /\ reading = "header" /\ FullRecord
    /\ ~IsHeader(Record)
    /\ pos' = pos + 2
    /\ UNCHANGED <<online, writerVars, reading, buffer_size, bp, got>>

ReadHeader ==
    /\ MayRead /\ reading = "header" /\ FullRecord
    /\ IsHeader(Record)
    /\ pos' = pos + 2
    /\ buffer_size' = blocks[Record[1][1]]
    /\ bp' = <<Record>>
    /\ reading' = "body"
    /\ UNCHANGED <<online, writerVars, got>>

\* The status of a failed read stays: the iterator returns no more events.
HeaderShort ==
    /\ MayRead /\ reading = "header" /\ ~FullRecord
    /\ ReadShort
    /\ reading' = "end"
    /\ UNCHANGED <<online, writerVars, buffer_size, bp, got>>

\* Mutant of AllRead: one record too few.
AllReadButOne == Len(bp) + 1 >= buffer_size

AllRead == Len(bp) >= buffer_size

ReadBody ==
    /\ MayRead /\ reading = "body" /\ ~AllRead /\ FullRecord
    /\ pos' = pos + 2
    /\ bp' = Append(bp, Record)
    /\ UNCHANGED <<online, writerVars, reading, buffer_size, got>>

\* makeBuffer(), of all records or of those before a short one ("salvaging").
HandOver ==
    /\ got' = Append(got, bp)
    /\ reading' = "none"
    /\ buffer_size' = 0 /\ bp' = << >>

BodyDone ==
    /\ MayRead /\ reading = "body" /\ AllRead
    /\ HandOver
    /\ UNCHANGED <<online, writerVars, pos>>

BodyShort ==
    /\ MayRead /\ reading = "body" /\ ~AllRead /\ ~FullRecord
    /\ ReadShort
    /\ HandOver
    /\ UNCHANGED <<online, writerVars>>

-----------------------------------------------------------------------------
Init ==
    /\ online \in BOOLEAN
    /\ file = << >> /\ blocks = << >> /\ from = << >>
    /\ nleft = 0 /\ failed = {} /\ closed = FALSE
    /\ pos = 0 /\ reading = "none" /\ buffer_size = 0 /\ bp = << >> /\ got = << >>

Write == (\E n \in Sizes : StartBuffer(n)) \/ WriteSome \/ WriteFails \/ CloseFile

Read ==
    \/ NextBuffer \/ SkipRecord \/ ReadHeader \/ HeaderShort
    \/ ReadBody \/ BodyDone \/ BodyShort

Next == Write \/ Read

Spec == Init /\ [][Next]_vars

-----------------------------------------------------------------------------
(* Properties *)

BufferOf(records) == records[1][1][1]

\* Record i of buffer b as it was written.
BlockOf(b, i) == <<<<b, 2 * i - 1>>, <<b, 2 * i>>>>

Intact(records) ==
    \A i \in DOMAIN records : records[i] = BlockOf(BufferOf(records), i)

Whole(records) == Intact(records) /\ Len(records) = blocks[BufferOf(records)]

\* While every write() succeeds, a reader gets the buffers in the order they
\* were written, none twice, and of each the records it was written with; what
\* a reader of a growing file misses is the tail of a buffer, or what comes
\* after its end.  A reader of a closed file gets every buffer whole.
WrittenIsRead ==
    failed = {} =>
        /\ \A i \in DOMAIN got : Intact(got[i])
        /\ \A i \in 2 .. Len(got) : BufferOf(got[i - 1]) < BufferOf(got[i])
        /\ ~online /\ reading = "end" =>
               Len(got) = Len(blocks) /\ \A i \in DOMAIN got : Whole(got[i])

\* A broken block has moved buffer b off the 8192-byte grid, or b starts where
\* the missing records of a buffer would have been.
Displaced(b) ==
    \/ from[b] % 2 = 1
    \/ \E d \in failed : from[d] < from[b] /\ from[b] < from[d] + HalfBlocks(d)

\* A buffer that writen() gave up costs the reader of the closed file no more
\* than the buffers that start where the missing records would have been, and
\* those that a broken block has moved off the 8192-byte grid: every other
\* buffer is found, whole.
DamageIsLocal ==
    ~online /\ reading = "end" =>
        \A b \in DOMAIN blocks \ failed :
            Displaced(b) \/ \E i \in DOMAIN got : BufferOf(got[i]) = b /\ Whole(got[i])

=============================================================================
