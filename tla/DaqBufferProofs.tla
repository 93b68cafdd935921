--------------------------- MODULE DaqBufferProofs ---------------------------
(***************************************************************************)
(* For every readlist that behaves (DevicesBehave), every buffer size and  *)
(* every sequence of events, the words of a buffer stay inside max_size,   *)
(* its three counters agree, and the reader library finds in it what       *)
(* readout() kept.                                                         *)
(***************************************************************************)
EXTENDS OncsReader, FiniteSetTheorems, SequenceTheorems, WellFoundedInduction, TLAPS

USE DEF BUFFERHEADERLENGTH, EOBLENGTH, EVTHEADERLENGTH, SEVTHEADERLENGTH, Block,
        counters, current, history

\* What the devices that are still to be read may need: their promises, less
\* the extra words the devices before them have already put.
Owed(e, i) == Promised[e][i] - (Overrun[e][1] - Overrun[e][i])

\* No device takes more than leaves the others what they may need.
LEMMA DeviceFits ==
    ASSUME DevicesBehave, NEW e \in EventTypes, NEW i \in 1 .. Last, NEW r \in Int,
           r >= Owed(e, i), Overrun[e][i] <= Overrun[e][1],
           NEW l \in PutLengths(DeviceList[i], e, r)
    PROVE  /\ l \in Nat
           /\ r - l >= Owed(e, i + 1)
           /\ Overrun[e][i + 1] <= Overrun[e][1]
<1> DEFINE d == DeviceList[i]
<1>1. d \in Device /\ Last \in Nat /\ d.n \in Nat /\ d.etype \in EventTypes
  <2>1. d \in Device /\ Last \in Nat
    BY BufferAssumption DEF Last
  <2> QED
    BY <2>1 DEF Device
<1>2. /\ Promised[e][i] \in Nat /\ Promised[e][i + 1] \in Nat
      /\ Overrun[e][i] \in Nat /\ Overrun[e][i + 1] \in Nat /\ Overrun[e][1] \in Nat
      /\ Promised[e][i] = MaxLength(d, e) + Promised[e][i + 1]
      /\ Overrun[e][i] = Extra(d, e) + Overrun[e][i + 1]
      /\ Overrun[e][1] <= 6
  <2>1. /\ Promised \in [EventTypes -> [1 .. Last + 1 -> Nat]]
        /\ Promised[e][i] = MaxLength(d, e) + Promised[e][i + 1]
    BY BufferAssumption DEF TailSum
  <2>2. /\ Overrun \in [EventTypes -> [1 .. Last + 1 -> Nat]]
        /\ Overrun[e][i] = Extra(d, e) + Overrun[e][i + 1]
    BY BufferAssumption DEF TailSum
  <2>3. i \in 1 .. Last + 1 /\ i + 1 \in 1 .. Last + 1 /\ 1 \in 1 .. Last + 1
    BY <1>1
  <2>4. Promised[e] \in [1 .. Last + 1 -> Nat] /\ Overrun[e] \in [1 .. Last + 1 -> Nat]
    BY <2>1, <2>2
  <2>5. Overrun[e][1] <= 6
    BY DEF DevicesBehave
  <2> QED
    BY <2>1, <2>2, <2>3, <2>4, <2>5
<1>3. Overrun[e][i + 1] <= Overrun[e][i] /\ Extra(d, e) \in {0, 1}
  BY <1>1, <1>2 DEF Extra
<1>4. ASSUME l \in Nat, l <= MaxLength(d, e) + Extra(d, e), MaxLength(d, e) \in Nat
      PROVE  r - l >= Owed(e, i + 1)
  BY <1>2, <1>3, <1>4 DEF Owed
<1>5. CASE e # d.etype \/ d.kind = "command"
  <2>1. PutLengths(d, e, r) = {0} /\ MaxLength(d, e) = 0
    BY <1>5 DEF PutLengths, MaxLength
  <2> QED
    BY <1>2, <1>3, <1>4, <2>1
<1>6. CASE e = d.etype /\ d.kind = "random"
  <2>1. /\ l = SEVTHEADERLENGTH + PadEven(d.n) /\ MaxLength(d, e) = SEVTHEADERLENGTH + d.n
        /\ Extra(d, e) = d.n % 2
    BY <1>6 DEF PutLengths, MaxLength, Extra, Readers
  <2> QED
    BY <1>1, <1>2, <1>3, <1>4, <2>1 DEF PadEven
<1>7. CASE e = d.etype /\ d.kind \in {"gauss", "rtclock"}
  <2>1. l = MaxLength(d, e) /\ l \in Nat
    BY <1>7 DEF PutLengths, MaxLength, Readers, GaussWords, ClockWords
  <2> QED
    BY <1>2, <1>3, <1>4, <2>1
<1>8. CASE e = d.etype /\ d.kind = "deadtime"
  <2>1. /\ l = IF d.n = 0 THEN 0 ELSE SEVTHEADERLENGTH + PadEven(d.n)
        /\ MaxLength(d, e) = IF d.n = 0 THEN 0 ELSE SEVTHEADERLENGTH + d.n + 2
    BY <1>8 DEF PutLengths, MaxLength, Readers, DeadtimeLength
  <2> QED
    BY <1>1, <1>2, <1>3, <1>4, <2>1 DEF PadEven
<1>9. CASE e = d.etype /\ d.kind \in Readers
  <2>1. Promised[e][i + 1] = 0 /\ d.n >= 8 /\ MaxLength(d, e) = SEVTHEADERLENGTH + d.n + 1
    BY <1>9 DEF DevicesBehave, MaxLength, Readers
  <2>2. r >= 7
    BY <1>1, <1>2, <2>1 DEF Owed
  <2>3. l \in Nat /\ l <= r
    <3>1. CASE l = 0
      BY <2>2, <3>1
    <3>2. ASSUME NEW f \in FileBytes, l = SEVTHEADERLENGTH + FileWords(f, r)
          PROVE  l \in Nat /\ l <= r
      <4> DEFINE n == IF (f + 3) \div 4 + SEVTHEADERLENGTH + 1 >= r
                      THEN 4 * (r - SEVTHEADERLENGTH - 2) ELSE f
                 c == Least(f, n)
                 q == (c + 7) \div 8
      <4>1. f \in Nat
        BY <3>2, BufferAssumption
      <4>2. (f + 3) \div 4 \in Int /\ f <= 4 * ((f + 3) \div 4)
        BY <4>1
      <4>3. n \in Nat /\ c \in Nat /\ c <= 4 * (r - 6)
        <5>1. CASE (f + 3) \div 4 + SEVTHEADERLENGTH + 1 >= r
          BY <2>2, <4>1, <5>1 DEF Least
        <5>2. CASE ~((f + 3) \div 4 + SEVTHEADERLENGTH + 1 >= r)
          BY <2>2, <4>1, <4>2, <5>2 DEF Least
        <5> QED
          BY <5>1, <5>2
      <4>6. FileWords(f, r) = 2 * q
        BY <4>3 DEF FileWords
      <4> HIDE DEF c, n
      <4>4. q \in Nat /\ 8 * q <= c + 7
        BY <4>3
      <4>5. l = SEVTHEADERLENGTH + 2 * q
        BY <3>2, <4>6
      <4> HIDE DEF q
      <4> QED
        BY <2>2, <4>3, <4>4, <4>5
    <3>3. ASSUME NEW f \in FileBytes, l = SEVTHEADERLENGTH + ListWords(f, r)
          PROVE  l \in Nat /\ l <= r
      BY <2>2, <3>3, BufferAssumption DEF ListWords, Least, PadEven
    <3> QED
      BY <1>9, <3>1, <3>2, <3>3 DEF PutLengths, Readers
  <2> QED
    BY <1>2, <1>3, <2>1, <2>3 DEF Owed
<1> QED
  BY <1>1, <1>5, <1>6, <1>7, <1>8, <1>9 DEF Device, Kinds

\* max_size is a whole number of blocks, at least one, and not more than
\* was allocated.
SizeOk == max_size \in Nat /\ max_size >= Block /\ max_size <= max_length

\* The invariant: what is left of the buffer covers what is left of the
\* current event and the reserve of nextEvent().
Room ==
    /\ state = "ready" => left + 2 >= 0
    /\ state = "closed" => left + 2 >= 0
    /\ state = "devices" =>
        /\ etype \in EventTypes
        /\ Overrun[etype][dev] <= Overrun[etype][1]
        /\ room >= Owed(etype, dev)
        /\ left >= EOBLENGTH + room
        /\ current_index >= EVTHEADERLENGTH

Ends == has_end = IF state = "closed" THEN 1 ELSE 0

CInv == TypeOK /\ SizeOk /\ Room /\ Accounting /\ (state # "stopped" => Ends)

\* setMaxSize() keeps max_size between one block and what was allocated.
LEMMA SizeInRange ==
    ASSUME NEW n \in Nat
    PROVE  /\ NewMaxSize(n) \in Nat
           /\ NewMaxSize(n) >= Block /\ NewMaxSize(n) <= max_length
<1>1. max_length \in Nat /\ max_length >= Block
  BY BufferAssumption
<1>2. CASE n = 0
  BY <1>1, <1>2 DEF NewMaxSize
<1>3. CASE n # 0
  <2>1. Rounded(n) \in Nat /\ Rounded(n) >= Block
    BY <1>3 DEF Rounded
  <2> QED
    BY <1>1, <1>3, <2>1 DEF NewMaxSize, Least
<1> QED
  BY <1>2, <1>3

\* What set_eventsizes() computes is a number of words.
LEMMA EventsizeNat ==
    ASSUME NEW e \in EventTypes
    PROVE  /\ Eventsize(e) \in Nat /\ Eventsize(e) = EVTHEADERLENGTH + Promised[e][1]
           /\ Promised[e][1] \in Nat /\ Overrun[e][1] \in Nat
           /\ Promised[e][Last + 1] = 0 /\ Overrun[e][Last + 1] = 0
<1>1. Last \in Nat
  BY BufferAssumption DEF Last
<1>2. Promised[e] \in [1 .. Last + 1 -> Nat] /\ Overrun[e] \in [1 .. Last + 1 -> Nat]
  BY BufferAssumption DEF TailSum
<1>3. Promised[e][Last + 1] = 0 /\ Overrun[e][Last + 1] = 0
  BY BufferAssumption DEF TailSum
<1>4. Promised[e][1] \in Nat /\ Overrun[e][1] \in Nat
  BY <1>1, <1>2
<1> QED
  BY <1>3, <1>4 DEF Eventsize

\* Six words at most are missing when the last promises are kept.
LEMMA OwedBounded ==
    ASSUME DevicesBehave, NEW e \in EventTypes, NEW i \in 1 .. Last + 1
    PROVE  Owed(e, i) \in Int /\ Owed(e, i) >= -6
<1>1. Promised[e] \in [1 .. Last + 1 -> Nat] /\ Overrun[e] \in [1 .. Last + 1 -> Nat]
  BY BufferAssumption DEF TailSum
<1>2. Promised[e][i] \in Nat /\ Overrun[e][i] \in Nat
  BY <1>1
<1>3. Overrun[e][1] \in Nat /\ Overrun[e][1] <= 6
  BY EventsizeNat DEF DevicesBehave
<1> QED
  BY <1>2, <1>3 DEF Owed

\* The buffers of a new rcdaq satisfy the invariant.
LEMMA CInit == Init => CInv
<1> SUFFICES ASSUME Init PROVE CInv
  OBVIOUS
<1>1. max_length \in Nat /\ max_length >= Block /\ Last \in Nat
  BY BufferAssumption DEF Last
<1> QED
  BY <1>1 DEF Init, CInv, TypeOK, SizeOk, Room, Accounting

\* Every operation keeps it.
LEMMA CNext == DevicesBehave /\ CInv /\ [Next]_vars => CInv'
<1> SUFFICES ASSUME DevicesBehave, CInv, [Next]_vars PROVE CInv'
  OBVIOUS
<1> USE DEF CInv, Ends
<1>0. Last \in Nat /\ max_length \in Nat /\ Sizes \subseteq Nat /\ EventTypes \subseteq Nat
  BY BufferAssumption DEF Last
<1>1. ASSUME NEW size \in Sizes, SetMaxSize(size)
      PROVE  CInv'
  <2>1. SizeOk'
    BY <1>0, <1>1, SizeInRange DEF SetMaxSize, SizeOk
  <2> QED
    BY <1>1, <2>1 DEF SetMaxSize, TypeOK, SizeOk, Room, Accounting
<1>2. CASE Begin
  <2>1. SizeOk'
    <3>1. ASSUME NEW n \in Wanted
          PROVE  n \in Nat
      BY <3>1, EventsizeNat DEF Wanted
    <3> QED
      BY <1>2, <3>1, SizeInRange DEF Begin, SizeOk
  <2>2. /\ state' = "ready" /\ Length' = 4 * 4 /\ current_index' = 0 /\ has_end' = 0
        /\ left' = max_size' - 8 /\ Event_number' = 1 /\ uses' \in Nat
        /\ dev' = dev /\ room' = room /\ start' = start /\ etype' = etype
    BY <1>2 DEF Begin, PrepareNext, TypeOK
  <2>3. TypeOK'
    BY <2>1, <2>2 DEF TypeOK, SizeOk
  <2> DEFINE size == max_size'
  <2>4. size \in Nat /\ size >= Block
    BY <2>1 DEF SizeOk
  <2>5. left' + 2 >= 0
    <3>1. left' = size - 8
      BY <2>2
    <3> HIDE DEF size
    <3> QED
      BY <2>4, <3>1
  <2>6. Room'
    BY <2>2, <2>5 DEF Room
  <2>7. Accounting' /\ Ends'
    BY <2>2, <2>4 DEF Accounting
  <2> QED
    BY <2>1, <2>3, <2>6, <2>7
<1>3. ASSUME NEW e \in EventTypes, NextEvent(e)
      PROVE  CInv'
  <2>1. /\ Eventsize(e) \in Nat /\ Eventsize(e) = 8 + Promised[e][1]
        /\ Promised[e][1] \in Nat /\ Overrun[e][1] \in Nat
    BY EventsizeNat
  <2>2. /\ state = "ready" /\ state' = "devices" /\ etype' = e /\ dev' = 1
        /\ room' = Eventsize(e) - 8 /\ Eventsize(e) <= left - 4
        /\ left' = left - 8 /\ current_index' = current_index + 8
        /\ Length' = Length + 4 * 8 /\ start' = current_index
        /\ UNCHANGED <<max_size, has_end, Event_number, uses>>
    BY <1>3 DEF NextEvent, Fits, Use
  <2>3. TypeOK' /\ SizeOk' /\ Accounting' /\ Ends'
    BY <1>0, <2>1, <2>2 DEF TypeOK, SizeOk, Accounting
  <2>4. Room'
    BY <2>1, <2>2 DEF Room, Owed, TypeOK
  <2> QED
    BY <2>3, <2>4
<1>4. CASE AddSubevent
  <2>1. state = "devices" /\ dev \in 1 .. Last /\ room \in Int /\ etype \in EventTypes
    BY <1>0, <1>4 DEF AddSubevent, TypeOK, Room
  <2>2. PICK put \in PutLengths(DeviceList[dev], etype, room) :
            LET len == IF room < 0 THEN 0 ELSE put
            IN  room' = room - len /\ Use(len)
    BY <1>4 DEF AddSubevent
  <2> DEFINE len == IF room < 0 THEN 0 ELSE put
  <2>3. /\ put \in Nat /\ room - put >= Owed(etype, dev + 1)
        /\ Overrun[etype][dev + 1] <= Overrun[etype][1]
    BY <2>1, DeviceFits DEF Room
  <2>4. len \in Nat /\ room - len >= Owed(etype, dev + 1)
    <3>1. dev + 1 \in 1 .. Last + 1
      BY <1>0, <2>1
    <3>2. Owed(etype, dev + 1) \in Int
      BY <2>1, <3>1, OwedBounded
    <3> QED
      BY <2>1, <2>3, <3>2
  <2>5. /\ room' = room - len /\ left' = left - len /\ Length' = Length + 4 * len
        /\ current_index' = current_index + len /\ dev' = dev + 1 /\ state' = "devices"
        /\ UNCHANGED <<max_size, has_end, start, etype, Event_number, uses>>
    BY <1>4, <2>1, <2>2 DEF AddSubevent, Use
  <2> HIDE DEF len
  <2>6. TypeOK' /\ SizeOk' /\ Accounting' /\ Ends'
    BY <1>0, <2>1, <2>4, <2>5 DEF TypeOK, SizeOk, Accounting
  <2>7. Room'
    BY <2>1, <2>3, <2>4, <2>5 DEF Room, Owed, TypeOK
  <2> QED
    BY <2>6, <2>7
<1>5. ASSUME state = "devices", dev > Last
      PROVE  left + 2 >= 0
  <2>1. dev = Last + 1 /\ etype \in EventTypes /\ room >= Owed(etype, dev)
    BY <1>0, <1>5 DEF TypeOK, Room
  <2>2. /\ Promised[etype][Last + 1] = 0 /\ Overrun[etype][Last + 1] = 0
        /\ Overrun[etype][1] \in Nat /\ Overrun[etype][1] <= 6
    BY <2>1, EventsizeNat DEF DevicesBehave
  <2> QED
    BY <1>5, <2>1, <2>2 DEF Owed, Room, TypeOK
<1>6. CASE KeepEvent
  BY <1>0, <1>5, <1>6 DEF KeepEvent, TypeOK, SizeOk, Room, Accounting
<1>7. CASE DropEmptyEvent
  <2>1. /\ state = "devices" /\ dev > Last /\ state' = "ready"
        /\ left' = left + 8 /\ current_index' = current_index - 8
        /\ Length' = Length - 4 * 8
        /\ UNCHANGED <<max_size, has_end, dev, room, start, etype, Event_number, uses>>
    BY <1>7 DEF DropEmptyEvent, EmptyEvent, Use, TypeOK
  <2> QED
    BY <1>0, <1>5, <2>1 DEF TypeOK, SizeOk, Room, Accounting
<1>8. CASE AddEoB
  BY <1>0, <1>8 DEF AddEoB, TypeOK, SizeOk, Room, Accounting
<1>9. CASE Reuse
  BY <1>9 DEF Reuse, PrepareNext, TypeOK, SizeOk, Room, Accounting
<1>10. CASE EndRun
  BY <1>10 DEF EndRun, TypeOK, SizeOk, Room, Accounting
<1>11. CASE UNCHANGED vars
  BY <1>11 DEF vars, TypeOK, SizeOk, Room, Accounting
<1> QED
  BY <1>1, <1>2, <1>3, <1>4, <1>6, <1>7, <1>8, <1>9, <1>10, <1>11 DEF Next

\* The invariant holds in every reachable state.
THEOREM CounterInvariance ==
    ASSUME DevicesBehave
    PROVE  Spec => []CInv
<1>1. CInv /\ [Next]_vars => CInv'
  BY CNext
<1> QED
  BY <1>1, CInit, PTL DEF Spec

-----------------------------------------------------------------------------
(***************************************************************************)
(* daq_begin() makes room for the largest event: there is one, because     *)
(* there are finitely many event types.                                    *)
(***************************************************************************)
\* A finite set of numbers that is not empty has a largest element: a smallest
\* set without one would have one once an element is taken out.
LEMMA LargestElement ==
    ASSUME NEW S \in SUBSET Nat, IsFiniteSet(S), S # {}
    PROVE  \E m \in S : \A x \in S : x <= m
<1> DEFINE HasLargest(T) == \E m \in T : \A x \in T : x <= m
           Bad == {T \in FiniteSubsetsOf(Nat) : T # {} /\ ~HasLargest(T)}
<1> SUFFICES ASSUME Bad # {} PROVE FALSE
  BY DEF FiniteSubsetsOf
<1>1. PICK T \in Bad : \A U \in Bad : <<U, T>> \notin StrictSubsetOrdering(Nat)
  BY FS_StrictSubsetOrderingWellFounded, WFMin
<1>2. /\ T \in SUBSET Nat /\ IsFiniteSet(T) /\ T # {} /\ ~HasLargest(T)
  BY DEF FiniteSubsetsOf
<1>3. PICK e \in T : TRUE
  BY <1>2
<1> DEFINE U == T \ {e}
<1>4. IsFiniteSet(U) /\ U \in SUBSET Nat /\ <<U, T>> \in StrictSubsetOrdering(Nat)
  BY <1>2, <1>3, FS_RemoveElement DEF StrictSubsetOrdering
<1>5. U \notin Bad
  BY <1>1, <1>4
<1>6. CASE U = {}
  <2>1. T = {e}
    BY <1>3, <1>6
  <2> QED
    BY <1>2, <2>1
<1>7. CASE HasLargest(U)
  <2>1. PICK m \in U : \A x \in U : x <= m
    BY <1>7
  <2>2. HasLargest(T)
    BY <1>2, <1>3, <2>1
  <2> QED
    BY <1>2, <2>2
<1> QED
  BY <1>4, <1>5, <1>6, <1>7 DEF FiniteSubsetsOf

\* Once begun, max_size has room for every event and 32 words more.
RoomForAll == state # "stopped" => \A e \in EventTypes : Eventsize(e) + 32 <= max_size

\* The part of CInv that does not depend on the readlist, and RoomForAll.
EInv ==
    /\ left \in Int /\ room \in Int /\ current_index \in Int /\ Length \in Int
    /\ state \in {"stopped", "ready", "devices", "closed"}
    /\ dev \in 1 .. Last + 1 /\ etype \in EventTypes \cup {0}
    /\ SizeOk /\ Accounting /\ (state # "stopped" => Ends) /\ RoomForAll

\* Whatever a device returns, it is a number of words.
LEMMA PutLengthsInt ==
    ASSUME NEW i \in 1 .. Last, NEW e \in EventTypes \cup {0}, NEW r \in Int,
           NEW l \in PutLengths(DeviceList[i], e, r)
    PROVE  l \in Int
<1> DEFINE d == DeviceList[i]
<1>1. d \in Device /\ d.n \in Nat /\ d.kind \in Kinds
  <2>1. d \in Device
    BY BufferAssumption DEF Last
  <2> QED
    BY <2>1 DEF Device
<1> HIDE DEF d
<1>2. CASE e # d.etype \/ d.kind = "command"
  BY <1>2 DEF PutLengths, d
<1>3. CASE e = d.etype /\ d.kind \in {"random", "gauss", "rtclock", "deadtime"}
  BY <1>1, <1>3 DEF PutLengths, Readers, PadEven, GaussWords, ClockWords, DeadtimeLength, d
<1>4. CASE e = d.etype /\ d.kind = "file"
  <2>1. CASE l = 0
    BY <2>1
  <2>2. ASSUME NEW f \in FileBytes, l = SEVTHEADERLENGTH + FileWords(f, r)
        PROVE  l \in Int
    BY <2>2, BufferAssumption DEF FileWords, Least
  <2> QED
    BY <1>4, <2>1, <2>2 DEF PutLengths, Readers, d
<1>5. CASE e = d.etype /\ d.kind = "filenumbers"
  <2>1. CASE l = 0
    BY <2>1
  <2>2. ASSUME NEW f \in FileBytes, l = SEVTHEADERLENGTH + ListWords(f, r)
        PROVE  l \in Int
    BY <2>2, BufferAssumption DEF ListWords, Least, PadEven
  <2> QED
    BY <1>5, <2>1, <2>2 DEF PutLengths, Readers, d
<1> QED
  BY <1>1, <1>2, <1>3, <1>4, <1>5 DEF Kinds, Readers

\* The check of daq_begin(): either max_size is large enough for the largest
\* event, or setMaxSize() makes it so, or the run does not begin.
LEMMA BeginMakesRoom ==
    ASSUME SizeOk, Begin
    PROVE  \A e \in EventTypes : Eventsize(e) + 32 <= max_size'
<1> SUFFICES ASSUME NEW e \in EventTypes PROVE Eventsize(e) + 32 <= max_size'
  OBVIOUS
<1> DEFINE size[x \in EventTypes] == 4 * Eventsize(x) + 4 * 32
           need == {size[x] : x \in EventTypes}
<1>1. \A x \in EventTypes : Eventsize(x) \in Nat /\ size[x] \in Nat /\ size[x] # 0
  BY EventsizeNat
<1>2. need \in SUBSET Nat /\ need # {} /\ size[e] \in need
  BY <1>1
<1>3. IsFiniteSet(need)
  <2>1. size \in Surjection(EventTypes, need)
    BY DEF Surjection
  <2> QED
    BY <2>1, BufferAssumption, FS_Surjection
<1>4. PICK m \in need : \A n \in need : n <= m
  BY <1>2, <1>3, LargestElement
<1>5. m \in Nat /\ m # 0 /\ 4 * Eventsize(e) + 128 <= m
  BY <1>1, <1>2, <1>4
<1>6. need = {4 * Eventsize(x) + 4 * 32 : x \in EventTypes}
  OBVIOUS
<1>7. Wanted = {n \in need : n > 4 * max_size /\ \A k \in need : k <= n}
  BY <1>6 DEF Wanted
<1> HIDE DEF need, size
<1>8. max_size \in Nat /\ Eventsize(e) \in Nat
  BY <1>1 DEF SizeOk
<1>9. CASE m > 4 * max_size
  <2>1. Wanted = {m}
    <3>1. m \in Wanted
      BY <1>4, <1>7, <1>9
    <3>2. ASSUME NEW n \in Wanted PROVE n = m
      <4>1. n \in need /\ n \in Nat /\ m <= n /\ n <= m
        BY <1>2, <1>4, <1>7, <3>2
      <4> QED
        BY <1>5, <4>1
    <3> QED
      BY <3>1, <3>2
  <2>2. max_size' = NewMaxSize(m) /\ Rounded(m) <= max_length
    BY <1>5, <2>1 DEF Begin, SetMaxSizeOk
  <2>3. max_size' = Rounded(m)
    BY <1>5, <2>2, BufferAssumption DEF NewMaxSize, Least, Rounded
  <2> QED
    BY <1>5, <1>8, <2>3 DEF Rounded
<1>10. CASE ~(m > 4 * max_size)
  <2>1. Wanted = {}
    <3>1. ASSUME NEW n \in Wanted PROVE FALSE
      <4>1. n \in Nat /\ n <= m /\ n > 4 * max_size
        BY <1>2, <1>4, <1>7, <3>1
      <4> QED
        BY <1>5, <1>8, <1>10, <4>1
    <3> QED
      BY <3>1
  <2>2. max_size' = max_size
    BY <2>1 DEF Begin
  <2> QED
    BY <1>5, <1>8, <1>10, <2>2
<1> QED
  BY <1>9, <1>10

\* Every operation keeps the room that daq_begin() made.
LEMMA ENext == EInv /\ [Next]_vars => EInv'
<1> SUFFICES ASSUME EInv, [Next]_vars PROVE EInv'
  OBVIOUS
<1> USE DEF EInv, Ends
<1>0. /\ Sizes \subseteq Nat /\ max_length \in Nat /\ max_size \in Nat
      /\ \A e \in EventTypes : Eventsize(e) \in Nat
      /\ Last \in Nat
  BY BufferAssumption, EventsizeNat DEF SizeOk, Last
<1>1. ASSUME NEW size \in Sizes, SetMaxSize(size)
      PROVE  EInv'
  <2>1. SizeOk'
    BY <1>0, <1>1, SizeInRange DEF SetMaxSize, SizeOk
  <2> QED
    BY <1>1, <2>1 DEF SetMaxSize, Accounting, RoomForAll
<1>2. CASE Begin
  <2>1. SizeOk'
    <3>1. ASSUME NEW n \in Wanted
          PROVE  n \in Nat
      BY <3>1, EventsizeNat DEF Wanted
    <3> QED
      BY <1>2, <3>1, SizeInRange DEF Begin, SizeOk
  <2>2. RoomForAll'
    BY <1>2, BeginMakesRoom DEF RoomForAll, Eventsize
  <2>3. max_size' \in Nat
    BY <2>1 DEF SizeOk
  <2>4. /\ state' = "ready" /\ Length' = 4 * 4 /\ current_index' = 0 /\ has_end' = 0
        /\ left' = max_size' - 8 /\ UNCHANGED <<room, dev, etype>>
    BY <1>2, <2>3 DEF Begin, PrepareNext
  <2> QED
    BY <2>1, <2>2, <2>3, <2>4 DEF Accounting
<1>3. ASSUME NEW e \in EventTypes, NextEvent(e)
      PROVE  EInv'
  BY <1>0, <1>3 DEF NextEvent, Use, SizeOk, Accounting, RoomForAll
<1>4. CASE AddSubevent
  <2>1. PICK put \in PutLengths(DeviceList[dev], etype, room) :
            LET len == IF room < 0 THEN 0 ELSE put
            IN  room' = room - len /\ Use(len)
    BY <1>4 DEF AddSubevent
  <2>2. put \in Int
    BY <1>0, <1>4, PutLengthsInt DEF AddSubevent
  <2> QED
    BY <1>0, <1>4, <2>1, <2>2 DEF AddSubevent, Use, SizeOk, Accounting, RoomForAll
<1>5. CASE KeepEvent
  BY <1>0, <1>5 DEF KeepEvent, SizeOk, Accounting, RoomForAll
<1>6. CASE DropEmptyEvent
  BY <1>0, <1>6 DEF DropEmptyEvent, EmptyEvent, Use, SizeOk, Accounting, RoomForAll
<1>7. CASE AddEoB
  BY <1>0, <1>7 DEF AddEoB, SizeOk, Accounting, RoomForAll
<1>8. CASE Reuse
  BY <1>0, <1>8 DEF Reuse, PrepareNext, SizeOk, Accounting, RoomForAll
<1>9. CASE EndRun
  BY <1>9 DEF EndRun, SizeOk, Accounting, RoomForAll
<1>10. CASE UNCHANGED vars
  BY <1>10 DEF vars, SizeOk, Accounting, RoomForAll
<1> QED
  BY <1>1, <1>2, <1>3, <1>4, <1>5, <1>6, <1>7, <1>8, <1>9, <1>10 DEF Next

-----------------------------------------------------------------------------
(***************************************************************************)
(* The theorems.                                                           *)
(***************************************************************************)
\* For every readlist that behaves, header, events and end-of-buffer event
\* together never need more words than max_size.
THEOREM Capacity ==
    ASSUME DevicesBehave
    PROVE  Spec => []FitsInBuffer
<1>1. CInv => FitsInBuffer
  <2> SUFFICES ASSUME CInv PROVE FitsInBuffer
    OBVIOUS
  <2>1. state # "stopped" => left + 2 >= 0
    BY OwedBounded DEF CInv, Room, TypeOK
  <2> QED
    BY <2>1 DEF CInv, TypeOK, SizeOk, Accounting, FitsInBuffer, Ends
<1> QED
  BY <1>1, CounterInvariance, PTL

\* The counters keep their types and agree with each other.
THEOREM Counters ==
    ASSUME DevicesBehave
    PROVE  Spec => [](TypeOK /\ Accounting)
<1>1. CInv => TypeOK /\ Accounting
  BY DEF CInv
<1> QED
  BY <1>1, CounterInvariance, PTL

\* writeout() rounds the length up to blocks of 8192 bytes and never reads
\* beyond the words that were allocated.
THEOREM WriteoutBounded ==
    ASSUME DevicesBehave
    PROVE  Spec => []WriteoutInside
<1>1. CInv /\ FitsInBuffer => WriteoutInside
  <2> SUFFICES ASSUME CInv, FitsInBuffer PROVE WriteoutInside
    OBVIOUS
  <2>1. ASSUME state # "stopped"
        PROVE  /\ Length \in Nat /\ Length <= 4 * max_length
               /\ max_length \in Nat /\ max_length % 2048 = 0
    BY <2>1, BufferAssumption
       DEF CInv, TypeOK, SizeOk, Accounting, FitsInBuffer, Ends
  <2>2. \A n, m \in Nat : m % 2048 = 0 /\ n <= 4 * m =>
            ((n + 8192 - 1) \div 8192) * 8192 <= 4 * m
    OBVIOUS
  <2> QED
    BY <2>1, <2>2 DEF WriteoutInside
<1> QED
  BY <1>1, CounterInvariance, Capacity, PTL

\* Whatever the readlist, daq_begin() leaves an empty buffer room for every
\* event: the nextEvent() after a switch succeeds.
THEOREM EmptyBufferFits == Spec => []EmptyBufferFitsAll
<1>1. Init => EInv
  BY BufferAssumption DEF Init, EInv, SizeOk, Accounting, RoomForAll, Last
<1>2. EInv => EmptyBufferFitsAll
  <2> SUFFICES ASSUME EInv, state = "ready", current_index = 0, NEW e \in EventTypes
               PROVE  Fits(e)
    BY DEF EmptyBufferFitsAll
  <2>1. left = max_size - 8 /\ max_size \in Nat /\ Eventsize(e) + 32 <= max_size
    BY DEF EInv, Ends, Accounting, RoomForAll, SizeOk
  <2> QED
    BY <2>1, EventsizeNat DEF Fits
<1> QED
  BY <1>1, <1>2, ENext, PTL DEF Spec

-----------------------------------------------------------------------------
(***************************************************************************)
(* What the reader finds.  The headers of the kept events lie where the    *)
(* lengths before them say, from index 0 to the end-of-buffer event, and   *)
(* nothing that is written later touches them.                             *)
(***************************************************************************)
AnyHeader == [len : Int, type : Nat, seq : Nat]

\* The index behind the last event that was kept.
EventsEnd ==
    CASE state = "devices" -> start
      [] state = "closed"  -> current_index - 2
      [] OTHER             -> current_index

\* p[k] is the index of event k.
Places(p) ==
    /\ p[1] = 0 /\ p[Len(kept) + 1] = EventsEnd
    /\ \A k \in 1 .. Len(kept) :
        /\ p[k] \in DOMAIN heads /\ heads[p[k]] = kept[k]
        /\ kept[k].len >= EVTHEADERLENGTH
        /\ p[k + 1] = p[k] + kept[k].len
        /\ p[k] + EVTHEADERLENGTH <= EventsEnd

\* The reader is at the event behind those it has handed out.
Reading(p) ==
    state = "closed" /\ kept # << >> =>
        IF evt_index < 0 THEN found = kept
        ELSE /\ Len(found) < Len(kept) /\ found = SubSeq(kept, 1, Len(found))
             /\ evt_index = p[Len(found) + 1]

Laid == state # "stopped" =>
    \E p \in [1 .. Len(kept) + 1 -> Nat] : Places(p) /\ Reading(p)

\* The event in hand begins at start and ends at current_index.
InHand ==
    /\ state = "devices" =>
        /\ start \in DOMAIN heads /\ heads[start].len = current_index - start
        /\ current_index >= start + EVTHEADERLENGTH
    /\ state = "closed" => current_index >= 2 /\ IsEoB(current_index - 2)

ReaderTypes ==
    /\ DOMAIN heads \subseteq Nat /\ \A i \in DOMAIN heads : heads[i] \in AnyHeader
    /\ kept \in Seq(AnyHeader) /\ found \in Seq(AnyHeader) /\ evt_index \in Int
    /\ evt_index >= 0 => state = "closed"

ReadInv == CInv /\ ReaderTypes /\ InHand /\ Laid

\* Events stay where they are when what is written lies behind them.
LEMMA PlacesStay ==
    ASSUME ReaderTypes, NEW p \in [1 .. Len(kept) + 1 -> Nat], Places(p),
           kept' = kept, EventsEnd' = EventsEnd,
           \A i \in DOMAIN heads : i + EVTHEADERLENGTH <= EventsEnd =>
                i \in DOMAIN heads' /\ heads'[i] = heads[i]
    PROVE  Places(p)'
BY DEF Places

\* A header that is put down is there, and what lies before it stays.
LEMMA HeaderPut ==
    ASSUME ReaderTypes, NEW a \in Nat, NEW n \in Nat, NEW h \in AnyHeader,
           heads' = PutHead(heads, a, n, h)
    PROVE  /\ a \in DOMAIN heads' /\ heads'[a] = h
           /\ DOMAIN heads' \subseteq Nat /\ \A i \in DOMAIN heads' : heads'[i] \in AnyHeader
           /\ \A i \in DOMAIN heads : i < a => i \in DOMAIN heads' /\ heads'[i] = heads[i]
BY DEF ReaderTypes, PutHead

\* The headers when a device has put n words at index a and the event that
\* begins at s is longer by l words.
Grown(a, n, s, l) == [Overwrite(heads, a, n) EXCEPT ![s].len = @ + l]

\* The same for the data of a device, which adds to the length of its event.
LEMMA DataPut ==
    ASSUME ReaderTypes, NEW a \in Nat, NEW n \in Nat, NEW s \in DOMAIN heads, NEW l \in Int,
           s < a, heads' = Grown(a, n, s, l)
    PROVE  /\ s \in DOMAIN heads' /\ heads'[s].len = heads[s].len + l
           /\ DOMAIN heads' \subseteq Nat /\ \A i \in DOMAIN heads' : heads'[i] \in AnyHeader
           /\ \A i \in DOMAIN heads : i < s => i \in DOMAIN heads' /\ heads'[i] = heads[i]
<1> DEFINE o == Overwrite(heads, a, n)
<1>1. /\ DOMAIN o = DOMAIN heads \ (a .. a + n - 1)
      /\ \A i \in DOMAIN o : o[i] = heads[i]
      /\ o = [i \in DOMAIN o |-> o[i]]
  BY DEF Overwrite
<1>2. s \in Nat /\ s \in DOMAIN o
  BY <1>1 DEF ReaderTypes
<1>3. heads' = [o EXCEPT ![s] = [o[s] EXCEPT !.len = o[s].len + l]]
  BY DEF Grown
<1> HIDE DEF o
<1>4. /\ DOMAIN heads' = DOMAIN o
      /\ heads'[s] = [o[s] EXCEPT !.len = o[s].len + l]
      /\ \A i \in DOMAIN o : i # s => heads'[i] = o[i]
  BY <1>1, <1>2, <1>3
<1>5. o[s] = heads[s] /\ heads[s] \in AnyHeader
  BY <1>1, <1>2 DEF ReaderTypes
<1>6. heads'[s] \in AnyHeader /\ heads'[s].len = heads[s].len + l
  BY <1>4, <1>5 DEF AnyHeader
<1>7. \A i \in DOMAIN heads' : heads'[i] \in AnyHeader
  BY <1>1, <1>4, <1>6 DEF ReaderTypes
<1>8. \A i \in DOMAIN heads : i < s => i \in DOMAIN o
  BY <1>1, <1>2 DEF ReaderTypes
<1> QED
  BY <1>1, <1>2, <1>4, <1>6, <1>7, <1>8 DEF ReaderTypes

\* The buffer starts empty, and so does the reader.
LEMMA ReadInit == ReaderInit => ReadInv
<1> SUFFICES ASSUME ReaderInit PROVE ReadInv
  OBVIOUS
<1>1. << >> \in Seq(AnyHeader)
  BY EmptySeq
<1> QED
  BY <1>1, CInit DEF ReaderInit, ReadInv, Init, ReaderTypes, InHand, Laid

\* While the buffer is filled every kept event keeps its place, and the next one
\* is placed behind it.
LEMMA WriteStepRead ==
    ASSUME DevicesBehave, ReadInv, WriteStep
    PROVE  ReadInv'
<1>1. CInv'
  BY CNext DEF ReadInv, WriteStep
<1>2. /\ Last \in Nat /\ EventTypes \subseteq Nat /\ current_index \in Nat /\ start \in Nat
      /\ Event_number \in Nat
  BY BufferAssumption DEF Last, ReadInv, CInv, TypeOK
<1>3. /\ found' \in Seq(AnyHeader) /\ evt_index < 0 /\ evt_index' \in {0, -1}
      /\ evt_index' >= 0 => state' = "closed"
  BY EmptySeq DEF WriteStep
<1>4. Len(kept) \in Nat
  BY LenProperties DEF ReadInv, ReaderTypes
<1>5. ReaderTypes
  BY DEF ReadInv
<1>6. ASSUME state' # "closed" PROVE \A p : Reading(p)'
  BY <1>6 DEF Reading
<1>7. ASSUME NEW size \in Sizes, SetMaxSize(size)
      PROVE  ReadInv'
  BY <1>1, <1>3, <1>7 DEF SetMaxSize, ReadInv, ReaderTypes, InHand, Laid
<1>8. CASE Begin \/ Reuse
  <2>1. /\ state' = "ready" /\ kept' = << >> /\ heads' = heads /\ current_index' = 0
    BY <1>8 DEF Begin, Reuse, PrepareNext
  <2> DEFINE q == [k \in 1 .. 1 |-> 0]
  <2>2. q \in [1 .. Len(kept') + 1 -> Nat] /\ q[1] = 0
    BY <2>1
  <2>3. Places(q)'
    BY <2>1, <2>2 DEF Places, EventsEnd
  <2>4. Laid'
    BY <1>6, <2>1, <2>2, <2>3 DEF Laid
  <2>5. ReaderTypes' /\ InHand'
    BY <1>3, <1>5, <2>1, EmptySeq DEF ReaderTypes, InHand
  <2> QED
    BY <1>1, <2>4, <2>5 DEF ReadInv
<1>9. ASSUME NEW e \in EventTypes, NextEvent(e)
      PROVE  ReadInv'
  <2> DEFINE h == Header(EVTHEADERLENGTH, e, Event_number)
  <2>1. /\ state = "ready" /\ state' = "devices" /\ start' = current_index
        /\ current_index' = current_index + 8 /\ kept' = kept
        /\ heads' = PutHead(heads, current_index, EVTHEADERLENGTH, h)
    BY <1>9 DEF NextEvent, Use
  <2>2. h \in AnyHeader /\ h.len = 8
    BY <1>2 DEF Header, AnyHeader
  <2> HIDE DEF h
  <2>3. /\ start' \in DOMAIN heads' /\ heads'[start'] = h
        /\ DOMAIN heads' \subseteq Nat /\ \A i \in DOMAIN heads' : heads'[i] \in AnyHeader
        /\ \A i \in DOMAIN heads : i < current_index =>
                i \in DOMAIN heads' /\ heads'[i] = heads[i]
    BY <1>2, <1>5, <2>1, <2>2, HeaderPut
  <2>4. PICK p \in [1 .. Len(kept) + 1 -> Nat] : Places(p)
    BY <2>1 DEF ReadInv, Laid
  <2>5. EventsEnd' = EventsEnd /\ EventsEnd = current_index
    BY <2>1 DEF EventsEnd
  <2>6. \A i \in DOMAIN heads : i + EVTHEADERLENGTH <= EventsEnd =>
            i \in DOMAIN heads' /\ heads'[i] = heads[i]
    BY <1>2, <1>5, <2>3, <2>5 DEF ReaderTypes
  <2>7. Places(p)'
    BY <1>5, <2>1, <2>4, <2>5, <2>6, PlacesStay
  <2>8. Laid'
    BY <1>6, <2>1, <2>4, <2>7 DEF Laid
  <2>9. ReaderTypes' /\ InHand'
    BY <1>2, <1>3, <1>5, <2>1, <2>2, <2>3 DEF ReaderTypes, InHand
  <2> QED
    BY <1>1, <2>8, <2>9 DEF ReadInv
<1>10. CASE AddSubevent
  <2>1. state = "devices" /\ dev \in 1 .. Last /\ room \in Int /\ etype \in EventTypes
    BY <1>2, <1>10 DEF AddSubevent, ReadInv, CInv, TypeOK, Room
  <2>2. PICK put \in PutLengths(DeviceList[dev], etype, room) :
            LET len == IF room < 0 THEN 0 ELSE put
            IN  /\ heads' = [Overwrite(heads, current_index, put) EXCEPT ![start].len = @ + len]
                /\ Use(len)
    BY <1>10 DEF AddSubevent
  <2> DEFINE len == IF room < 0 THEN 0 ELSE put
  <2>3. put \in Nat
    BY <2>1, DeviceFits DEF ReadInv, CInv, Room
  <2>4. len \in Nat
    BY <2>1, <2>3
  <2>5. /\ state' = "devices" /\ start' = start /\ kept' = kept
        /\ current_index' = current_index + len
        /\ heads' = Grown(current_index, put, start, len)
    BY <1>10, <2>1, <2>2 DEF AddSubevent, Use, Grown
  <2> HIDE DEF len
  <2>6. /\ start \in DOMAIN heads /\ heads[start].len = current_index - start
        /\ current_index >= start + 8 /\ start < current_index
    BY <1>2, <2>1 DEF ReadInv, InHand
  <2>7. /\ start \in DOMAIN heads' /\ heads'[start].len = heads[start].len + len
        /\ DOMAIN heads' \subseteq Nat /\ \A i \in DOMAIN heads' : heads'[i] \in AnyHeader
        /\ \A i \in DOMAIN heads : i < start => i \in DOMAIN heads' /\ heads'[i] = heads[i]
    BY <1>2, <1>5, <2>3, <2>4, <2>5, <2>6, DataPut
  <2>8. PICK p \in [1 .. Len(kept) + 1 -> Nat] : Places(p)
    BY <2>1 DEF ReadInv, Laid
  <2>9. EventsEnd' = EventsEnd /\ EventsEnd = start
    BY <2>1, <2>5 DEF EventsEnd
  <2>10. \A i \in DOMAIN heads : i + EVTHEADERLENGTH <= EventsEnd =>
             i \in DOMAIN heads' /\ heads'[i] = heads[i]
    BY <1>2, <1>5, <2>7, <2>9 DEF ReaderTypes
  <2>11. Places(p)'
    BY <1>5, <2>5, <2>8, <2>9, <2>10, PlacesStay
  <2>12. Laid'
    BY <1>6, <2>5, <2>8, <2>11 DEF Laid
  <2>13. ReaderTypes'
    BY <1>3, <1>5, <2>5, <2>7 DEF ReaderTypes
  <2>14. InHand'
    <3>1. heads'[start].len = current_index' - start /\ current_index' >= start + 8
      BY <1>2, <2>4, <2>5, <2>6, <2>7
    <3> QED
      BY <2>5, <2>7, <3>1 DEF InHand
  <2> QED
    BY <1>1, <2>12, <2>13, <2>14 DEF ReadInv
<1>11. CASE KeepEvent
  <2>1. /\ state = "devices" /\ state' = "ready" /\ heads' = heads
        /\ current_index' = current_index /\ kept' = Append(kept, heads[start])
    BY <1>11 DEF KeepEvent
  <2>2. /\ start \in DOMAIN heads /\ heads[start].len = current_index - start
        /\ current_index >= start + 8 /\ heads[start] \in AnyHeader
    BY <1>5, <2>1 DEF ReadInv, InHand, ReaderTypes
  <2> DEFINE n == Len(kept)
  <2>3. /\ Len(kept') = n + 1 /\ kept'[n + 1] = heads[start] /\ kept' \in Seq(AnyHeader)
        /\ \A k \in 1 .. n : kept'[k] = kept[k]
    BY <1>5, <2>1, <2>2, AppendProperties DEF ReaderTypes
  <2>4. PICK p \in [1 .. n + 1 -> Nat] : Places(p)
    BY <2>1 DEF ReadInv, Laid
  <2>5. PICK q \in [1 .. Len(kept') + 1 -> Nat] :
            q[n + 2] = current_index /\ \A k \in 1 .. n + 1 : q[k] = p[k]
    <3> DEFINE r == [k \in 1 .. n + 2 |-> IF k = n + 2 THEN current_index ELSE p[k]]
    <3>1. /\ r \in [1 .. Len(kept') + 1 -> Nat] /\ r[n + 2] = current_index
          /\ \A k \in 1 .. n + 1 : r[k] = p[k]
      BY <1>2, <1>4, <2>3, <2>4
    <3> QED
      BY <3>1
  <2>6. EventsEnd = start /\ EventsEnd' = current_index
    BY <2>1 DEF EventsEnd
  <2>7. p[1] = 0 /\ p[n + 1] = start
    BY <2>4, <2>6 DEF Places
  <2>8. \A k \in 1 .. n : /\ q[k] \in DOMAIN heads' /\ heads'[q[k]] = kept'[k]
                          /\ kept'[k].len >= 8 /\ q[k + 1] = q[k] + kept'[k].len
                          /\ q[k] + 8 <= EventsEnd'
    <3> SUFFICES ASSUME NEW k \in 1 .. n
                 PROVE  /\ q[k] \in DOMAIN heads' /\ heads'[q[k]] = kept'[k]
                        /\ kept'[k].len >= 8 /\ q[k + 1] = q[k] + kept'[k].len
                        /\ q[k] + 8 <= EventsEnd'
      OBVIOUS
    <3>1. k \in 1 .. n + 1 /\ k + 1 \in 1 .. n + 1 /\ p[k] \in Nat
      BY <1>4, <2>4
    <3>2. /\ p[k] \in DOMAIN heads /\ heads[p[k]] = kept[k] /\ kept[k].len >= 8
          /\ p[k + 1] = p[k] + kept[k].len /\ p[k] + 8 <= start
      BY <2>4, <2>6 DEF Places
    <3> QED
      BY <1>2, <2>1, <2>2, <2>3, <2>5, <2>6, <3>1, <3>2
  <2>9. /\ q[n + 1] \in DOMAIN heads' /\ heads'[q[n + 1]] = kept'[n + 1]
        /\ kept'[n + 1].len >= 8 /\ q[n + 2] = q[n + 1] + kept'[n + 1].len
        /\ q[n + 1] + 8 <= EventsEnd'
    <3>1. n + 1 \in 1 .. n + 1 /\ n + 1 + 1 = n + 2
      BY <1>4
    <3>2. q[n + 1] = start
      BY <2>5, <2>7, <3>1
    <3>3. kept'[n + 1].len = current_index - start /\ current_index \in Nat /\ start \in Nat
      BY <1>2, <2>2, <2>3
    <3> HIDE DEF n
    <3> QED
      BY <2>1, <2>2, <2>3, <2>5, <2>6, <3>2, <3>3
  <2>10. Places(q)'
    <3>1. q[1] = 0
      BY <1>4, <2>5, <2>7
    <3>2. \A k \in 1 .. n + 1 : k \in 1 .. n \/ k = n + 1
      BY <1>4
    <3>3. n + 1 + 1 = n + 2
      BY <1>4
    <3>4. q[Len(kept') + 1] = EventsEnd'
      BY <2>3, <2>5, <2>6, <3>3
    <3>5. \A k \in 1 .. Len(kept') :
              /\ q[k] \in DOMAIN heads' /\ heads'[q[k]] = kept'[k]
              /\ kept'[k].len >= 8 /\ q[k + 1] = q[k] + kept'[k].len
              /\ q[k] + 8 <= EventsEnd'
      <4> HIDE DEF n
      <4> QED
        BY <2>3, <2>8, <2>9, <3>2, <3>3
    <3> QED
      BY <3>1, <3>4, <3>5 DEF Places
  <2>11. Laid'
    <3>1. q \in [1 .. Len(kept') + 1 -> Nat] /\ Places(q)' /\ Reading(q)'
      BY <1>6, <2>1, <2>5, <2>10
    <3> QED
      BY <3>1 DEF Laid
  <2>12. ReaderTypes' /\ InHand'
    BY <1>3, <1>5, <2>1, <2>3 DEF ReaderTypes, InHand
  <2> QED
    BY <1>1, <2>11, <2>12 DEF ReadInv
<1>12. CASE DropEmptyEvent
  <2>1. /\ state = "devices" /\ state' = "ready" /\ heads' = heads /\ kept' = kept
        /\ heads[start].len = 8 /\ current_index' = current_index - 8
    BY <1>12 DEF DropEmptyEvent, EmptyEvent, Use, Empty
  <2>2. EventsEnd = start /\ EventsEnd' = start
    BY <1>2, <2>1 DEF EventsEnd, ReadInv, InHand
  <2>3. PICK p \in [1 .. Len(kept) + 1 -> Nat] : Places(p)
    BY <2>1 DEF ReadInv, Laid
  <2>4. Places(p)'
    BY <1>5, <2>1, <2>2, <2>3, PlacesStay
  <2>5. Laid'
    BY <1>6, <2>1, <2>3, <2>4 DEF Laid
  <2>6. ReaderTypes' /\ InHand'
    BY <1>3, <1>5, <2>1 DEF ReaderTypes, InHand
  <2> QED
    BY <1>1, <2>5, <2>6 DEF ReadInv
<1>13. CASE AddEoB
  <2>1. /\ state = "ready" /\ state' = "closed" /\ kept' = kept
        /\ current_index' = current_index + 2
        /\ heads' = PutHead(heads, current_index, 2, Header(2, 0, 0))
    BY <1>13 DEF AddEoB
  <2>2. Header(2, 0, 0) \in AnyHeader
    BY DEF Header, AnyHeader
  <2>3. /\ current_index \in DOMAIN heads' /\ heads'[current_index] = Header(2, 0, 0)
        /\ DOMAIN heads' \subseteq Nat /\ \A i \in DOMAIN heads' : heads'[i] \in AnyHeader
        /\ \A i \in DOMAIN heads : i < current_index =>
                i \in DOMAIN heads' /\ heads'[i] = heads[i]
    BY <1>2, <1>5, <2>1, <2>2, HeaderPut
  <2>4. PICK p \in [1 .. Len(kept) + 1 -> Nat] : Places(p)
    BY <2>1 DEF ReadInv, Laid
  <2>5. EventsEnd' = current_index /\ EventsEnd = current_index
    BY <1>2, <2>1 DEF EventsEnd
  <2>6. Places(p)'
    BY <1>2, <1>5, <2>1, <2>3, <2>4, <2>5, PlacesStay DEF ReaderTypes
  <2>7. Reading(p)'
    <3>1. evt_index' = 0 /\ found' = << >> /\ Len(<< >>) = 0
      BY <2>1, EmptySeq DEF WriteStep
    <3>2. ASSUME kept # << >> PROVE Len(kept) > 0 /\ SubSeq(kept, 1, 0) = << >>
      BY <1>5, <3>2, SubSeqEmpty, EmptySeq, LenProperties DEF ReaderTypes
    <3>3. p[1] = 0
      BY <2>4 DEF Places
    <3> QED
      BY <2>1, <3>1, <3>2, <3>3 DEF Reading
  <2>8. Laid'
    BY <2>1, <2>4, <2>6, <2>7 DEF Laid
  <2>9. InHand'
    <3>1. current_index' - 2 = current_index /\ current_index' >= 2
      BY <1>2, <2>1
    <3> QED
      BY <2>1, <2>3, <3>1 DEF InHand, IsEoB, Header
  <2>10. ReaderTypes'
    BY <1>3, <1>5, <2>1, <2>3 DEF ReaderTypes
  <2> QED
    BY <1>1, <2>8, <2>9, <2>10 DEF ReadInv
<1>14. CASE EndRun
  BY <1>1, <1>3, <1>5, <1>14 DEF EndRun, ReadInv, ReaderTypes, InHand, Laid
<1> QED
  BY <1>7, <1>8, <1>9, <1>10, <1>11, <1>12, <1>13, <1>14 DEF WriteStep, Next

\* Each call of getEvent() hands out the next event that was kept; the index
\* behind the last one is that of the end-of-buffer event, and no other is.
LEMMA GetEventRead ==
    ASSUME ReadInv, GetEvent
    PROVE  ReadInv'
<1>1. UNCHANGED vars /\ state = "closed" /\ evt_index \in Nat
  BY DEF GetEvent, ReadInv, ReaderTypes
<1>2. CInv' /\ InHand'
  BY <1>1 DEF vars, ReadInv, CInv, TypeOK, SizeOk, Room, Accounting, Ends, InHand, IsEoB
<1>3. PICK evt \in EventsAt(evt_index) :
        LET next == evt_index + evt.len
        IN  IF evt.len <= 0 THEN evt_index' = -1 /\ found' = found
            ELSE /\ evt_index' = IF AtEnd(next) THEN -1 ELSE next
                 /\ found' = Append(found, evt)
  BY DEF GetEvent
<1>4. evt \in AnyHeader
  BY DEF EventsAt, Header, AnyHeader, ReadInv, ReaderTypes
<1>5. ReaderTypes'
  <2>1. evt.len \in Int /\ evt_index + evt.len \in Int
    BY <1>1, <1>4 DEF AnyHeader
  <2>2. found \in Seq(AnyHeader) /\ Append(found, evt) \in Seq(AnyHeader)
    BY <1>4, AppendProperties DEF ReadInv, ReaderTypes
  <2>3. evt_index' \in Int
    BY <1>3, <2>1
  <2>4. found' \in Seq(AnyHeader)
    BY <1>3, <2>2
  <2> QED
    BY <1>1, <2>3, <2>4 DEF vars, ReadInv, ReaderTypes
<1>6. PICK p \in [1 .. Len(kept) + 1 -> Nat] : Places(p) /\ Reading(p)
  BY <1>1 DEF ReadInv, Laid
<1>7. Places(p)'
  BY <1>1, <1>6 DEF vars, Places, EventsEnd
<1>8. Reading(p)'
  <2> SUFFICES ASSUME kept # << >>
               PROVE  IF evt_index' < 0 THEN found' = kept
                      ELSE /\ Len(found') < Len(kept)
                           /\ found' = SubSeq(kept, 1, Len(found'))
                           /\ evt_index' = p[Len(found') + 1]
    BY <1>1 DEF vars, Reading
  <2> DEFINE n == Len(kept)
             m == Len(found)
             next == evt_index + evt.len
  <2>1. /\ n \in Nat /\ m \in Nat /\ m < n /\ found = SubSeq(kept, 1, m)
        /\ evt_index = p[m + 1] /\ kept \in Seq(AnyHeader) /\ found \in Seq(AnyHeader)
    BY <1>1, <1>6, LenProperties DEF Reading, ReadInv, ReaderTypes
  <2>2. /\ p[m + 1] \in DOMAIN heads /\ heads[p[m + 1]] = kept[m + 1]
        /\ kept[m + 1].len >= 8 /\ p[m + 1 + 1] = p[m + 1] + kept[m + 1].len
    <3>1. m + 1 \in 1 .. n
      BY <2>1
    <3> HIDE DEF m
    <3> QED
      BY <1>6, <3>1 DEF Places
  <2>3. evt = kept[m + 1] /\ next = p[m + 2]
    BY <2>1, <2>2 DEF EventsAt
  <2>4. /\ evt_index' = IF AtEnd(next) THEN -1 ELSE next
        /\ found' = Append(found, kept[m + 1])
    BY <1>3, <1>4, <2>2, <2>3 DEF AnyHeader
  <2>5. found' = SubSeq(kept, 1, m + 1) /\ Len(found') = m + 1
    BY <2>1, <2>4, SubSeqProperties, AppendProperties
  <2>6. CASE m + 1 = n
    <3>1. next = current_index - 2
      BY <1>1, <1>6, <2>1, <2>3, <2>6 DEF Places, EventsEnd
    <3>2. AtEnd(next)
      BY <1>1, <3>1 DEF AtEnd, ReadInv, InHand
    <3>3. SubSeq(kept, 1, n) = kept
      BY <2>1, SubSeqFull
    <3> QED
      BY <2>4, <2>5, <2>6, <3>2, <3>3
  <2>7. CASE m + 1 < n
    <3>1. /\ p[m + 2] \in DOMAIN heads /\ heads[p[m + 2]] = kept[m + 2]
          /\ kept[m + 2].len >= 8 /\ p[m + 2] + 8 <= current_index - 2
      <4>1. m + 2 \in 1 .. n
        BY <2>1, <2>7
      <4> HIDE DEF m
      <4> QED
        BY <1>1, <1>6, <4>1 DEF Places, EventsEnd
    <3>2. next \in Nat /\ next < current_index /\ ~IsEoB(next)
      <4>1. m + 2 \in 1 .. n + 1 /\ p[m + 2] \in Nat
        BY <2>1, <2>7
      <4>2. current_index \in Nat
        BY DEF ReadInv, CInv, TypeOK
      <4>3. heads[p[m + 2]].len # 2
        BY <3>1
      <4> HIDE DEF m, n, next
      <4> QED
        BY <2>3, <3>1, <4>1, <4>2, <4>3 DEF IsEoB
    <3>3. Length = 4 * (4 + current_index) /\ current_index \in Nat
      BY <1>1 DEF ReadInv, CInv, TypeOK, Accounting
    <3> HIDE DEF next
    <3>4. ~AtEnd(next)
      BY <3>2, <3>3 DEF AtEnd
    <3> QED
      BY <2>1, <2>3, <2>4, <2>5, <2>7, <3>2, <3>4
  <2> QED
    BY <2>1, <2>6, <2>7
<1> QED
  BY <1>1, <1>2, <1>5, <1>6, <1>7, <1>8 DEF vars, ReadInv, Laid

\* For every readlist that behaves, whatever the memory held before, the reader
\* library hands out the events that readout() kept, in order, and all of them.
THEOREM EventsReadBack ==
    ASSUME DevicesBehave
    PROVE  ReaderSpec => []ReadsBack
<1>1. ReadInv /\ [ReaderNext]_<<vars, readerVars>> => ReadInv'
  <2>1. ReadInv /\ UNCHANGED <<vars, readerVars>> => ReadInv'
    <3> SUFFICES ASSUME ReadInv, UNCHANGED <<vars, readerVars>> PROVE ReadInv'
      OBVIOUS
    <3>1. /\ heads' = heads /\ kept' = kept /\ state' = state /\ start' = start
          /\ current_index' = current_index /\ evt_index' = evt_index /\ found' = found
      BY DEF vars, readerVars, counters, current, history
    <3>2. CInv'
      BY CNext DEF vars, ReadInv
    <3>3. ReaderTypes' /\ InHand'
      BY <3>1 DEF ReadInv, ReaderTypes, InHand, IsEoB
    <3>4. ASSUME NEW p PROVE Places(p)' = Places(p) /\ Reading(p)' = Reading(p)
      BY <3>1 DEF Places, Reading, EventsEnd
    <3>5. Laid'
      BY <3>1, <3>4 DEF ReadInv, Laid
    <3> QED
      BY <3>2, <3>3, <3>5 DEF ReadInv
  <2> QED
    BY <2>1, WriteStepRead, GetEventRead DEF ReaderNext
<1>2. ReadInv => ReadsBack
  BY DEF ReadInv, ReadsBack, Laid, Reading
<1> QED
  BY <1>1, <1>2, ReadInit, PTL DEF ReaderSpec

=============================================================================
