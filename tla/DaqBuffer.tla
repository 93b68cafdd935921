------------------------------ MODULE DaqBuffer ------------------------------
(***************************************************************************)
(* The words of one daqBuffer: what nextEvent(), addSubevent(),            *)
(* emptyEvent(), addEoB() and prepare_next() do to its counters while      *)
(* readout() packs events, and where the event headers come to lie.        *)
(* Module BufferExchange uses this buffer as a sequence of events with     *)
(* room for Capacity of them; here the room is counted in 32-bit words.    *)
(*                                                                         *)
(* The format is DAQONCSFORMAT, the one rcdaq.cc is built with.  Of the    *)
(* memory only event headers are kept (length, type and sequence number,   *)
(* by the index of their first word), stale ones included.                 *)
(***************************************************************************)
EXTENDS Integers, Sequences, FiniteSets

CONSTANTS
    DeviceList,   \* the readlist: a sequence of devices
    EventTypes,
    enable_empty_event_flag,
    max_length,   \* words allocated
    Promised,     \* Promised[e][i]: sum of max_length(e) of devices i, i+1, ..
    Overrun,      \* Overrun[e][i]: words they may put beyond their promises
    FileBytes,    \* sizes of the files and lists that devices read
    Sizes,        \* arguments of daq_setmaxbuffersize, in bytes
    EventBound, UseBound \* bounds of the model: events per run, uses of the buffer

BUFFERHEADERLENGTH == 4
EOBLENGTH          == 4
EVTHEADERLENGTH    == 8
SEVTHEADERLENGTH   == 4
Block              == 2048  \* words in 8192 bytes

Last    == Len(DeviceList)
Readers == {"file", "filenumbers"}
Kinds   == {"random", "gauss", "deadtime", "rtclock", "command"} \cup Readers

\* n is the number of words (or of words to read) the device was created with.
Device == [kind : Kinds, etype : EventTypes, n : Nat]

-----------------------------------------------------------------------------
(* The devices: the length each one promises and the lengths it returns.   *)

PadEven(k) == k + (k % 2)
Least(a, b) == IF a < b THEN a ELSE b

GaussWords == 4  \* four values
ClockWords == 6  \* the time now and at the last readout
DeadtimeLength(d) == IF d.n = 0 THEN 0 ELSE SEVTHEADERLENGTH + PadEven(d.n)

\* daq_device_*::max_length(e)
MaxLength(d, e) ==
    IF e # d.etype \/ d.kind = "command" THEN 0 ELSE
    CASE d.kind = "random"   -> SEVTHEADERLENGTH + d.n
      [] d.kind = "gauss"    -> SEVTHEADERLENGTH + GaussWords
      [] d.kind = "deadtime" -> IF d.n = 0 THEN 0 ELSE SEVTHEADERLENGTH + d.n + 2
      [] d.kind = "rtclock"  -> SEVTHEADERLENGTH + ClockWords
      [] d.kind \in Readers  -> SEVTHEADERLENGTH + d.n + 1

\* The words of a file of f bytes, truncated when they would fill the room.  A
\* negative length makes read() fail: its -1 is padded with 9 bytes.
FileWords(f, room) ==
    LET n == IF (f + 3) \div 4 + SEVTHEADERLENGTH + 1 >= room
             THEN 4 * (room - SEVTHEADERLENGTH - 2) ELSE f
    IN  IF n < 0 THEN 2 ELSE 2 * ((Least(f, n) + 7) \div 8)

\* filenumbers stops reading numbers once they fill the room, after the
\* first one at the earliest.
ListWords(k, room) ==
    LET most == room - SEVTHEADERLENGTH - 1
    IN  PadEven(Least(k, IF most < 1 THEN 1 ELSE most))

\* What daq_device_*::put_data(e, _, room) may return: file readers return 0
\* when there is no file; /dev/urandom always delivers.
PutLengths(d, e, room) ==
    IF e # d.etype \/ d.kind = "command" THEN {0} ELSE
    CASE d.kind = "random"   -> {SEVTHEADERLENGTH + PadEven(d.n)}
      [] d.kind = "gauss"    -> {SEVTHEADERLENGTH + GaussWords}
      [] d.kind = "deadtime" -> {DeadtimeLength(d)}
      [] d.kind = "rtclock"  -> {SEVTHEADERLENGTH + ClockWords}
      [] d.kind = "file"     ->
            {0} \cup {SEVTHEADERLENGTH + FileWords(f, room) : f \in FileBytes}
      [] d.kind = "filenumbers" ->
            {0} \cup {SEVTHEADERLENGTH + ListWords(k, room) : k \in FileBytes}

\* A random device with an odd number of words pads one it did not promise.
Extra(d, e) == IF e = d.etype /\ d.kind = "random" THEN d.n % 2 ELSE 0

TailSum(f, len(_, _)) ==
    /\ f \in [EventTypes -> [1 .. Last + 1 -> Nat]]
    /\ \A e \in EventTypes :
        /\ f[e][Last + 1] = 0
        /\ \A i \in 1 .. Last : f[e][i] = len(DeviceList[i], e) + f[e][i + 1]

\* The readlists whose events always fit: at most six devices put one word
\* more than promised, and nothing that writes comes behind a file reader,
\* which checks its length against all the room that is left in the event,
\* not against what it promised.
DevicesBehave ==
    /\ \A e \in EventTypes : Overrun[e][1] <= 6
    /\ \A i \in 1 .. Last :
        DeviceList[i].kind \in Readers =>
            /\ DeviceList[i].n >= 8
            /\ Promised[DeviceList[i].etype][i + 1] = 0

ASSUME BufferAssumption ==
    /\ DeviceList \in Seq(Device)
    /\ EventTypes \subseteq Nat /\ IsFiniteSet(EventTypes)
    /\ enable_empty_event_flag \in {0, 1}
    /\ max_length \in Nat \ {0} /\ max_length % Block = 0
    /\ FileBytes \subseteq Nat /\ Sizes \subseteq Nat
    /\ TailSum(Promised, MaxLength)
    /\ TailSum(Overrun, Extra)
    /\ EventBound \in Nat /\ UseBound \in Nat

-----------------------------------------------------------------------------
VARIABLES
    max_size,       \* words that may be used
    left,           \* words left, as daqBuffer counts them
    current_index,  \* next free word after the buffer header
    Length,         \* length in the buffer header, in bytes
    has_end,
    heads,          \* index -> event header in memory, stale ones included
    state,          \* "stopped", "ready", "devices" (in an event) or "closed"
    dev,            \* the device to be read next
    room,           \* words left in the current event, as daqEvent counts them
    start, etype,   \* its first word and type
    Event_number,
    kept,           \* history: the events of the buffer
    uses            \* history: calls of prepare_next()

counters == <<left, current_index, Length>>
current  == <<dev, room, start, etype>>
history  == <<kept, uses>>
vars     == <<max_size, counters, has_end, heads, state, current, Event_number, history>>

\* set_eventsizes()
Eventsize(e) == EVTHEADERLENGTH + Promised[e][1]

\* daqBuffer::setMaxSize(size): the new max_size, and whether it returns 0.
Rounded(size) == ((size + 4 * Block - 1) \div (4 * Block)) * Block
\* Bug: max_size not limited to the words that are allocated.
NewMaxSizeUnlimited(size) == IF size = 0 THEN max_length ELSE Rounded(size)

NewMaxSize(size) == IF size = 0 THEN max_length ELSE Least(Rounded(size), max_length)
SetMaxSizeOk(size) == size = 0 \/ Rounded(size) <= max_length

Header(len, e, seq) == [len |-> len, type |-> e, seq |-> seq]

\* The headers that survive when n words are written at index a.
Overwrite(hs, a, n) == [i \in DOMAIN hs \ (a .. a + n - 1) |-> hs[i]]
PutHead(hs, a, n, h) ==
    [i \in (DOMAIN hs \ (a .. a + n - 1)) \cup {a} |-> IF i = a THEN h ELSE hs[i]]

\* Bug: the length in the header counted in words instead of bytes.
UseWordsAsBytes(n) ==
    /\ left' = left - n
    /\ current_index' = current_index + n
    /\ Length' = Length + n

Use(n) ==
    /\ left' = left - n
    /\ current_index' = current_index + n
    /\ Length' = Length + 4 * n

PrepareNext(size) ==
    /\ Length' = 4 * BUFFERHEADERLENGTH
    /\ current_index' = 0
    /\ left' = size - BUFFERHEADERLENGTH - EOBLENGTH
    /\ has_end' = 0
    /\ uses < UseBound
    /\ uses' = uses + 1
    /\ kept' = << >>

\* Bug: emptyEvent() forgets to move the write position back.
EmptyEventKeepsHeader == UNCHANGED counters

\* Bug: emptyEvent() takes back the header of the other event format.
EmptyEventOfPRDF == Use(-(EVTHEADERLENGTH + 8))

\* daqBuffer::emptyEvent()
EmptyEvent == Use(-EVTHEADERLENGTH)

-----------------------------------------------------------------------------
\* daq_setmaxbuffersize(), refused while a run is active.
SetMaxSize(size) ==
    /\ state = "stopped"
    /\ max_size' = NewMaxSize(size)
    /\ UNCHANGED <<counters, has_end, heads, state, current, Event_number, history>>

\* Bug: the check forgets the words around the event.
WantedExact == LET need == {4 * Eventsize(e) : e \in EventTypes}
               IN  {n \in need : n > 4 * max_size /\ \A m \in need : m <= n}

\* The size check of daq_begin(): 32 words are wanted beyond the largest event.
\* When they exceed the allocated words the run is not started; the check then
\* leaves max_size as SetMaxSize(0) does.
Wanted == LET need == {4 * Eventsize(e) + 4 * 32 : e \in EventTypes}
          IN  {n \in need : n > 4 * max_size /\ \A m \in need : m <= n}

Begin ==
    /\ state = "stopped"
    /\ \A size \in Wanted : SetMaxSizeOk(size)
    /\ max_size' \in IF Wanted = {} THEN {max_size} ELSE {NewMaxSize(n) : n \in Wanted}
    /\ PrepareNext(max_size')
    /\ Event_number' = 1
    /\ state' = "ready"
    /\ UNCHANGED <<heads, current>>

\* Bug: no reserve for the end of the buffer.
FitsWithoutReserve(e) == Eventsize(e) <= left

Fits(e) == Eventsize(e) <= left - EOBLENGTH

NextEvent(e) ==
    /\ state = "ready"
    /\ Event_number <= EventBound
    /\ Fits(e)
    /\ heads' = PutHead(heads, current_index, EVTHEADERLENGTH,
                        Header(EVTHEADERLENGTH, e, Event_number))
    /\ Use(EVTHEADERLENGTH)
    /\ start' = current_index /\ etype' = e /\ dev' = 1
    /\ room' = Eventsize(e) - EVTHEADERLENGTH
    /\ state' = "devices"
    /\ UNCHANGED <<max_size, has_end, Event_number, history>>

\* addSubevent() of the next device.  When the room is already negative the
\* event does not count what the device wrote.
AddSubevent ==
    /\ state = "devices"
    /\ dev <= Last
    /\ \E put \in PutLengths(DeviceList[dev], etype, room) :
        LET len == IF room < 0 THEN 0 ELSE put
        IN  /\ heads' = [Overwrite(heads, current_index, put) EXCEPT ![start].len = @ + len]
            /\ room' = room - len
            /\ Use(len)
    /\ dev' = dev + 1
    /\ UNCHANGED <<max_size, has_end, state, start, etype, Event_number, history>>

Empty == heads[start].len = EVTHEADERLENGTH

KeepEvent ==
    /\ state = "devices" /\ dev > Last
    /\ enable_empty_event_flag = 1 \/ ~Empty
    /\ kept' = Append(kept, heads[start])
    /\ Event_number' = Event_number + 1
    /\ state' = "ready"
    /\ UNCHANGED <<max_size, counters, has_end, heads, current, uses>>

\* emptyEvent() takes the header back.
DropEmptyEvent ==
    /\ state = "devices" /\ dev > Last
    /\ enable_empty_event_flag = 0 /\ Empty
    /\ EmptyEvent
    /\ state' = "ready"
    /\ UNCHANGED <<max_size, has_end, heads, current, Event_number, history>>

\* addEoB() when the buffer is switched: because an event does not fit, or
\* to flush it.
AddEoB ==
    /\ state = "ready"
    /\ heads' = PutHead(heads, current_index, 2, Header(2, 0, 0))
    /\ current_index' = current_index + 2
    /\ Length' = Length + 4 * 2
    /\ has_end' = 1
    /\ state' = "closed"
    /\ UNCHANGED <<max_size, left, current, Event_number, history>>

\* The buffer is switched in again.
Reuse ==
    /\ state = "closed"
    /\ PrepareNext(max_size)
    /\ state' = "ready"
    /\ UNCHANGED <<max_size, heads, current, Event_number>>

EndRun ==
    /\ state = "closed"
    /\ state' = "stopped"
    /\ UNCHANGED <<max_size, counters, has_end, heads, current, Event_number, history>>

Init ==
    /\ max_size = max_length
    /\ left = max_length - BUFFERHEADERLENGTH - EOBLENGTH
    /\ current_index = 0 /\ Length = 4 * BUFFERHEADERLENGTH /\ has_end = 0
    /\ heads = << >>
    /\ state = "stopped"
    /\ dev = 1 /\ room = 0 /\ start = 0 /\ etype = 0
    /\ Event_number = 1
    /\ kept = << >> /\ uses = 0

Next ==
    \/ \E size \in Sizes : SetMaxSize(size)
    \/ Begin
    \/ \E e \in EventTypes : NextEvent(e)
    \/ AddSubevent \/ KeepEvent \/ DropEmptyEvent
    \/ AddEoB \/ Reuse \/ EndRun

Spec == Init /\ [][Next]_vars

-----------------------------------------------------------------------------
(* Properties *)

\* Types of the counters.
TypeOK ==
    /\ max_size \in Nat /\ left \in Int /\ current_index \in Nat /\ Length \in Nat
    /\ has_end \in {0, 1}
    /\ state \in {"stopped", "ready", "devices", "closed"}
    /\ dev \in 1 .. Last + 1 /\ room \in Int /\ start \in Nat
    /\ etype \in EventTypes \cup {0}
    /\ Event_number \in Nat /\ uses \in Nat

\* The three counters of a buffer agree with each other.
Accounting ==
    state # "stopped" =>
        /\ Length = 4 * (BUFFERHEADERLENGTH + current_index)
        /\ left + current_index = max_size - BUFFERHEADERLENGTH - EOBLENGTH + 2 * has_end

\* Events, header and end-of-buffer event together never need more words
\* than max_size: the reserve of EOBLENGTH words, taken twice, makes up for
\* devices that return more than they promised.
FitsInBuffer ==
    state # "stopped" =>
        BUFFERHEADERLENGTH + current_index + 2 * (1 - has_end) <= max_size

\* writeout() rounds up to whole 8192-byte blocks and still stays inside the
\* words that were allocated.
WriteoutInside ==
    state # "stopped" =>
        ((Length + 8192 - 1) \div 8192) * 8192 <= 4 * max_length

\* daq_begin() leaves enough room for every event type in an empty buffer,
\* so that the second nextEvent() of a readout() succeeds.
EmptyBufferFitsAll ==
    state = "ready" /\ current_index = 0 => \A e \in EventTypes : Fits(e)

=============================================================================
