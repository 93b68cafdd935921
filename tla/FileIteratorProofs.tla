-------------------------- MODULE FileIteratorProofs --------------------------
(***************************************************************************)
(* For every number of buffers and every size, wherever write() breaks off *)
(* and however the reader and the writer of a file interleave: the reader  *)
(* gets what was written, and a buffer that was given up costs it no more  *)
(* than that buffer and what it displaces.  The invariant IterInv is       *)
(* proved part by part.                                                    *)
(***************************************************************************)
EXTENDS FileIterator, SequenceTheorems, TLAPS

-----------------------------------------------------------------------------
(* The inductive invariant behind WrittenIsRead and DamageIsLocal.          *)

HalfBlock == Nat \X Nat

Types ==
    /\ online \in BOOLEAN /\ closed \in BOOLEAN
    /\ file \in Seq(HalfBlock) /\ nleft \in Nat
    /\ blocks \in Seq(Sizes) /\ from \in Seq(Nat) /\ Len(from) = Len(blocks)
    /\ failed \subseteq DOMAIN blocks
    /\ pos \in 0 .. Len(file) /\ reading \in {"none", "header", "body", "end"}
    /\ buffer_size \in Nat
    /\ bp \in Seq(HalfBlock \X HalfBlock) /\ got \in Seq(Seq(HalfBlock \X HalfBlock))

\* Where buffer b begins; what is written next begins at the end of the file.
Starts == Append(from, Len(file))

\* The buffers lie one behind the other, each as far as it was written: to its
\* end unless it failed or writen() is at work on it.
Placed ==
    /\ Starts[1] = 0
    /\ \A b, c \in 1 .. Len(blocks) + 1 : b <= c => Starts[b] <= Starts[c]
    /\ \A b \in DOMAIN blocks : Starts[b + 1] <= Starts[b] + HalfBlocks(b)
    /\ \A b \in DOMAIN blocks \ failed :
            Starts[b + 1] + (IF b = Current THEN nleft ELSE 0) = Starts[b] + HalfBlocks(b)
    /\ \A b \in DOMAIN blocks : \A p \in Starts[b] + 1 .. Starts[b + 1] :
            file[p] = <<b, p - Starts[b]>>
    /\ \A p \in DOMAIN file : \E b \in DOMAIN blocks : p \in Starts[b] + 1 .. Starts[b + 1]
    /\ nleft > 0 => ~closed /\ Current \in DOMAIN blocks \ failed

\* The reader is where the records it has of the current buffer end.
InBody ==
    reading = "body" =>
        /\ BufferOf(bp) \in DOMAIN blocks /\ buffer_size = blocks[BufferOf(bp)]
        /\ Len(bp) \in 1 .. buffer_size /\ pos = from[BufferOf(bp)] + 2 * Len(bp)

\* While nothing fails, what the reader has lies behind it and in order.
ReadInOrder ==
    failed = {} =>
        /\ \A i \in DOMAIN got : /\ Intact(got[i]) /\ BufferOf(got[i]) \in DOMAIN blocks
                                 /\ from[BufferOf(got[i])] < pos
        /\ \A i \in 2 .. Len(got) : BufferOf(got[i - 1]) < BufferOf(got[i])
        /\ reading = "body" =>
                Intact(bp) /\ \A i \in DOMAIN got : BufferOf(got[i]) < BufferOf(bp)

\* The reader of a closed file starts when it is closed, and as long as nothing
\* has failed it is through with the buffers it has and no other.
ReadAfterwards ==
    ~online =>
        /\ ~closed => reading = "none" /\ pos = 0 /\ got = << >>
        /\ closed /\ failed = {} =>
            /\ Len(got) <= Len(blocks)
            /\ \A i \in DOMAIN got : BufferOf(got[i]) = i /\ Len(got[i]) = blocks[i]
            /\ reading \in {"none", "header"} => pos = Starts[Len(got) + 1]
            /\ reading = "body" => BufferOf(bp) = Len(got) + 1
            /\ reading = "end" => Len(got) = Len(blocks)

\* It has buffer b before it, beyond what it takes for the current buffer.
Ahead(b) ==
    \/ reading \in {"none", "header"} /\ pos <= from[b]
    \/ reading = "body" /\ from[BufferOf(bp)] + 2 * buffer_size <= from[b]

\* It is on the 8192-byte grid or at the end; every buffer that is not given up
\* or displaced it has found, or has before it, or is reading.
Accounted ==
    ~online /\ closed =>
        /\ reading # "end" => pos % 2 = 0 \/ pos = Len(file)
        /\ \A b \in DOMAIN blocks \ failed :
            \/ Displaced(b)
            \/ \E i \in DOMAIN got : BufferOf(got[i]) = b /\ Whole(got[i])
            \/ Ahead(b)
            \/ reading = "body" /\ BufferOf(bp) = b /\ Intact(bp)

IterInv == Types /\ Placed /\ InBody /\ ReadInOrder /\ ReadAfterwards /\ Accounted

-----------------------------------------------------------------------------
USE DEF writerVars, readerVars, vars, HalfBlocks, Current

\* What the types say of the places in the file.
LEMMA PlaceFacts ==
    ASSUME Types
    PROVE  /\ Len(blocks) \in Nat /\ Len(file) \in Nat /\ pos \in Nat /\ nleft \in Nat
           /\ DOMAIN blocks = 1 .. Len(blocks) /\ DOMAIN from = 1 .. Len(blocks)
           /\ DOMAIN file = 1 .. Len(file)
           /\ \A b \in 1 .. Len(blocks) :
                /\ from[b] \in Nat /\ Starts[b] = from[b]
                /\ blocks[b] \in Nat /\ blocks[b] > 0
           /\ Starts[Len(blocks) + 1] = Len(file)
           /\ \A b \in 1 .. Len(blocks) + 1 : Starts[b] \in Nat
<1>1. /\ Len(blocks) \in Nat /\ Len(file) \in Nat /\ nleft \in Nat
      /\ DOMAIN blocks = 1 .. Len(blocks) /\ DOMAIN from = 1 .. Len(blocks)
      /\ DOMAIN file = 1 .. Len(file)
  BY LenProperties DEF Types
<1>2. \A b \in 1 .. Len(blocks) : from[b] \in Nat /\ blocks[b] \in Sizes
  BY <1>1, ElementOfSeq DEF Types
<1>3. pos \in Nat
  BY <1>1 DEF Types
<1>4. /\ Starts[Len(blocks) + 1] = Len(file)
      /\ \A b \in 1 .. Len(blocks) : Starts[b] = from[b]
  BY <1>1, AppendProperties DEF Starts, Types
<1>5. \A b \in 1 .. Len(blocks) : blocks[b] \in Nat /\ blocks[b] > 0
  <2>1. \A n \in Sizes : n \in Nat /\ n > 0
    BY FileIteratorAssumption
  <2> QED
    BY <1>2, <2>1
<1>6. \A b \in 1 .. Len(blocks) + 1 : b \in 1 .. Len(blocks) \/ b = Len(blocks) + 1
  BY <1>1
<1> QED
  BY <1>1, <1>2, <1>3, <1>4, <1>5, <1>6

-----------------------------------------------------------------------------
(* The writer                                                                *)

\* A buffer that is begun starts where the file ends so far.
LEMMA StartBufferPlaced ==
    ASSUME Types, Placed, NEW n \in Sizes, StartBuffer(n)
    PROVE  Placed'
<1> DEFINE L == Len(blocks)
<1>1. /\ nleft = 0 /\ ~closed /\ closed' = closed /\ nleft' = 2 * n
      /\ file' = file /\ failed' = failed
      /\ blocks' = Append(blocks, n) /\ from' = Append(from, Len(file))
  BY DEF StartBuffer
<1>2. /\ L \in Nat /\ DOMAIN blocks = 1 .. L /\ Len(file) \in Nat /\ failed \subseteq 1 .. L
      /\ DOMAIN file = 1 .. Len(file) /\ n \in Nat /\ n > 0
      /\ \A b \in 1 .. L : blocks[b] \in Nat /\ b \in 1 .. L + 1 /\ b + 1 \in 1 .. L + 1
      /\ \A b \in 1 .. L + 1 : Starts[b] \in Nat
      /\ Starts[L + 1] = Len(file)
  BY PlaceFacts, FileIteratorAssumption DEF Types
<1>3. /\ Len(blocks') = L + 1 /\ DOMAIN blocks' = 1 .. L + 1
      /\ \A b \in 1 .. L : blocks'[b] = blocks[b]
      /\ blocks'[L + 1] = n
  BY <1>1, AppendProperties, LenProperties DEF Types
<1>4. /\ \A b \in 1 .. L + 1 : Starts'[b] = Starts[b]
      /\ Starts'[L + 2] = Len(file)
  <2>1. Starts \in Seq(Nat) /\ Len(Starts) = L + 1
    BY <1>2, AppendProperties, LenProperties DEF Starts, Types
  <2>2. Starts' = Append(Starts, Len(file))
    BY <1>1 DEF Starts
  <2> QED
    BY <1>2, <2>1, <2>2, AppendProperties
<1>5. \A b, c \in 1 .. L + 1 : b <= c => Starts[b] <= Starts[c]
  BY DEF Placed
<1>6. \A b \in 1 .. L : /\ Starts[b + 1] <= Starts[b] + 2 * blocks[b]
                        /\ b \notin failed => Starts[b + 1] = Starts[b] + 2 * blocks[b]
  <2> SUFFICES ASSUME NEW b \in 1 .. L
               PROVE  /\ Starts[b + 1] <= Starts[b] + 2 * blocks[b]
                      /\ b \notin failed => Starts[b + 1] = Starts[b] + 2 * blocks[b]
    OBVIOUS
  <2>1. /\ Starts[b + 1] <= Starts[b] + 2 * blocks[b]
        /\ b \notin failed =>
                Starts[b + 1] + (IF b = Len(blocks) THEN nleft ELSE 0) = Starts[b] + 2 * blocks[b]
    BY <1>2 DEF Placed
  <2>2. nleft = 0 /\ Starts[b] \in Nat /\ Starts[b + 1] \in Nat /\ blocks[b] \in Nat
    BY <1>1, <1>2
  <2>3. b \notin failed => Starts[b + 1] + 0 = Starts[b] + 2 * blocks[b]
    BY <2>1, <2>2
  <2> QED
    BY <2>1, <2>2, <2>3
<1>7. /\ \A b \in 1 .. L : \A p \in Starts[b] + 1 .. Starts[b + 1] : file[p] = <<b, p - Starts[b]>>
      /\ \A p \in 1 .. Len(file) : \E b \in 1 .. L : p \in Starts[b] + 1 .. Starts[b + 1]
  BY <1>2 DEF Placed
<1>8. Starts[1] = 0 /\ 1 \in 1 .. L + 1
  BY <1>2 DEF Placed
<1> HIDE DEF L
<1>9. \A b \in 1 .. L + 2 : b \in 1 .. L + 1 \/ b = L + 2
  BY <1>2
<1>10. \A b \in 1 .. L + 1 : b \in 1 .. L \/ (b = L + 1 /\ b + 1 = L + 2)
  BY <1>2
<1>11. /\ Starts'[1] = 0
       /\ \A b, c \in 1 .. L + 2 : b <= c => Starts'[b] <= Starts'[c]
  <2>1. L + 1 \in 1 .. L + 1
    BY <1>2
  <2>2. \A b \in 1 .. L + 1 : Starts[b] <= Len(file)
    BY <1>2, <1>5, <2>1
  <2>3. \A b \in 1 .. L + 1 : ~(L + 2 <= b)
    BY <1>2
  <2>4. ASSUME NEW b \in 1 .. L + 2, NEW c \in 1 .. L + 2, b <= c
        PROVE  Starts'[b] <= Starts'[c]
    <3>1. CASE c = L + 2 /\ b = L + 2
      BY <1>2, <1>4, <3>1
    <3>2. CASE c = L + 2 /\ b \in 1 .. L + 1
      BY <1>4, <2>2, <3>2
    <3>3. CASE c \in 1 .. L + 1
      <4>1. b \in 1 .. L + 1
        BY <1>9, <2>3, <2>4, <3>3
      <4> QED
        BY <1>4, <1>5, <2>4, <3>3, <4>1
    <3> QED
      BY <1>9, <3>1, <3>2, <3>3
  <2> QED
    BY <1>4, <1>8, <2>4
<1>12. /\ \A b \in 1 .. L + 1 : Starts'[b + 1] <= Starts'[b] + 2 * blocks'[b]
       /\ \A b \in (1 .. L + 1) \ failed :
            Starts'[b + 1] + (IF b = L + 1 THEN nleft' ELSE 0) = Starts'[b] + 2 * blocks'[b]
  <2>1. ASSUME NEW b \in 1 .. L
        PROVE  /\ Starts'[b + 1] <= Starts'[b] + 2 * blocks'[b] /\ b # L + 1
               /\ b \notin failed => Starts'[b + 1] + 0 = Starts'[b] + 2 * blocks'[b]
    <3>1. /\ Starts'[b] = Starts[b] /\ Starts'[b + 1] = Starts[b + 1] /\ blocks'[b] = blocks[b]
          /\ Starts[b + 1] \in Nat
      BY <1>2, <1>3, <1>4
    <3>2. b # L + 1
      BY <1>2
    <3> QED
      BY <1>6, <3>1, <3>2
  <2>2. /\ Starts'[L + 2] = Len(file) /\ Starts'[L + 1] = Len(file) /\ blocks'[L + 1] = n
        /\ nleft' = 2 * n
    BY <1>1, <1>2, <1>3, <1>4
  <2>3. /\ Starts'[L + 2] <= Starts'[L + 1] + 2 * blocks'[L + 1]
        /\ Starts'[L + 2] + nleft' = Starts'[L + 1] + 2 * blocks'[L + 1]
    BY <1>2, <2>2
  <2>4. ASSUME NEW b \in 1 .. L + 1
        PROVE  /\ Starts'[b + 1] <= Starts'[b] + 2 * blocks'[b]
               /\ b \notin failed =>
                    Starts'[b + 1] + (IF b = L + 1 THEN nleft' ELSE 0) = Starts'[b] + 2 * blocks'[b]
    <3>1. CASE b \in 1 .. L
      BY <2>1, <3>1
    <3>2. CASE b = L + 1 /\ b + 1 = L + 2
      BY <2>3, <3>2
    <3> QED
      BY <1>10, <3>1, <3>2
  <2> QED
    BY <2>4
<1>13. /\ \A b \in 1 .. L + 1 : \A p \in Starts'[b] + 1 .. Starts'[b + 1] :
            file[p] = <<b, p - Starts'[b]>>
       /\ \A p \in 1 .. Len(file) : \E b \in 1 .. L + 1 : p \in Starts'[b] + 1 .. Starts'[b + 1]
  <2>1. \A p \in Starts'[L + 1] + 1 .. Starts'[L + 2] : FALSE
    BY <1>2, <1>4
  <2>2. \A b \in 1 .. L : Starts'[b] = Starts[b] /\ Starts'[b + 1] = Starts[b + 1]
    BY <1>2, <1>4
  <2>3. \A b \in 1 .. L + 1 : \A p \in Starts'[b] + 1 .. Starts'[b + 1] :
            file[p] = <<b, p - Starts'[b]>>
    <3> SUFFICES ASSUME NEW b \in 1 .. L + 1, NEW p \in Starts'[b] + 1 .. Starts'[b + 1]
                 PROVE  file[p] = <<b, p - Starts'[b]>>
      OBVIOUS
    <3>1. b \in 1 .. L
      BY <1>10, <2>1
    <3> QED
      BY <1>7, <2>2, <3>1
  <2>4. ASSUME NEW p \in 1 .. Len(file)
        PROVE  \E b \in 1 .. L + 1 : p \in Starts'[b] + 1 .. Starts'[b + 1]
    <3>1. PICK b \in 1 .. L : p \in Starts[b] + 1 .. Starts[b + 1]
      BY <1>7
    <3> QED
      BY <1>2, <2>2, <3>1
  <2> QED
    BY <2>3, <2>4
<1>14. L + 1 \in (1 .. L + 1) \ failed /\ (L + 1) + 1 = L + 2
  BY <1>2
<1> QED
  BY <1>1, <1>2, <1>3, <1>11, <1>12, <1>13, <1>14 DEF Placed

\* write() adds to the last buffer.
LEMMA WriteSomePlaced ==
    ASSUME Types, Placed, WriteSome
    PROVE  Placed' /\ Len(file') >= Len(file) /\ file' \in Seq(HalfBlock) /\ nleft' \in Nat
<1> DEFINE L == Len(blocks)
           Half == 2 * blocks[L]
<1>1. PICK k \in 1 .. nleft :
          /\ file'  = file \o [i \in 1 .. k |-> <<L, (Half - nleft) + i>>]
          /\ nleft' = nleft - k
  BY DEF WriteSome
<1>2. UNCHANGED <<blocks, from, failed, closed>>
  BY DEF WriteSome
<1>3. /\ L \in Nat /\ DOMAIN blocks = 1 .. L /\ Len(file) \in Nat /\ nleft \in Nat /\ k \in Nat
      /\ DOMAIN file = 1 .. Len(file) /\ failed \subseteq 1 .. L
      /\ \A b \in 1 .. L + 1 : Starts[b] \in Nat
      /\ k > 0 /\ nleft > 0 /\ k <= nleft /\ Starts[L + 1] = Len(file)
      /\ \A b \in 1 .. L : blocks[b] \in Nat /\ b \in 1 .. L + 1 /\ b + 1 \in 1 .. L + 1
  BY PlaceFacts DEF Types
<1>4. ~closed /\ L \in (1 .. L) \ failed
  BY <1>3 DEF Placed
<1>5. Len(file) + nleft = Starts[L] + Half /\ Half \in Nat /\ Starts[L] \in Nat
  <2>1. Starts[L + 1] + (IF L = L THEN nleft ELSE 0) = Starts[L] + 2 * blocks[L]
    BY <1>3, <1>4 DEF Placed
  <2> QED
    BY <1>3, <1>4, <2>1
<1>6. \A b, c \in 1 .. L + 1 : b <= c => Starts[b] <= Starts[c]
  BY DEF Placed
<1>7. \A b \in 1 .. L : /\ Starts[b + 1] <= Starts[b] + 2 * blocks[b]
                        /\ b \notin failed /\ b # L => Starts[b + 1] = Starts[b] + 2 * blocks[b]
  <2> SUFFICES ASSUME NEW b \in 1 .. L
               PROVE  /\ Starts[b + 1] <= Starts[b] + 2 * blocks[b]
                      /\ b \notin failed /\ b # L => Starts[b + 1] = Starts[b] + 2 * blocks[b]
    OBVIOUS
  <2>1. /\ Starts[b + 1] <= Starts[b] + 2 * blocks[b]
        /\ b \notin failed =>
                Starts[b + 1] + (IF b = Len(blocks) THEN nleft ELSE 0) = Starts[b] + 2 * blocks[b]
    BY <1>3 DEF Placed
  <2>2. Starts[b] \in Nat /\ Starts[b + 1] \in Nat /\ blocks[b] \in Nat
    BY <1>3
  <2>3. b \notin failed /\ b # L => Starts[b + 1] + 0 = Starts[b] + 2 * blocks[b]
    BY <2>1, <2>2
  <2> QED
    BY <2>1, <2>2, <2>3
<1>8. /\ \A b \in 1 .. L : \A p \in Starts[b] + 1 .. Starts[b + 1] : file[p] = <<b, p - Starts[b]>>
      /\ \A p \in 1 .. Len(file) : \E b \in 1 .. L : p \in Starts[b] + 1 .. Starts[b + 1]
  BY <1>3 DEF Placed
<1>9. Starts[1] = 0
  BY DEF Placed
<1>10. Starts[L] <= Len(file)
  <2>1. L + 1 \in 1 .. L + 1 /\ L \in 1 .. L + 1 /\ L <= L + 1
    BY <1>3, <1>4
  <2> QED
    BY <1>3, <1>6, <2>1
<1> HIDE DEF L, Half
<1>11. /\ file' \in Seq(HalfBlock) /\ Len(file') = Len(file) + k
       /\ DOMAIN file' = 1 .. Len(file) + k
       /\ \A p \in 1 .. Len(file) : file'[p] = file[p]
       /\ \A p \in Len(file) + 1 .. Len(file) + k : file'[p] = <<L, p - Starts[L]>>
  <2> DEFINE more == [i \in 1 .. k |-> <<L, (Half - nleft) + i>>]
  <2>1. \A i \in 1 .. k : <<L, (Half - nleft) + i>> \in HalfBlock
    <3>1. \A i \in 1 .. k : (Half - nleft) + i \in Nat
      BY <1>3, <1>5, <1>10
    <3> QED
      BY <1>3, <3>1 DEF HalfBlock
  <2>2. more \in [1 .. k -> HalfBlock]
    BY <2>1
  <2>3. more \in Seq(HalfBlock) /\ Len(more) = k /\ DOMAIN more = 1 .. k
    BY <1>3, <2>2, LenProperties
  <2>4. file \in Seq(HalfBlock)
    BY DEF Types
  <2>5. \A i \in 1 .. k : more[i] = <<L, (Half - nleft) + i>>
    OBVIOUS
  <2> HIDE DEF more
  <2>6. /\ file' \in Seq(HalfBlock) /\ Len(file') = Len(file) + k
        /\ \A p \in 1 .. Len(file) + k :
                file'[p] = IF p <= Len(file) THEN file[p] ELSE more[p - Len(file)]
    <3>1. file' = file \o more
      BY <1>1 DEF more
    <3> QED
      BY <2>3, <2>4, <3>1, ConcatProperties
  <2>7. DOMAIN file' = 1 .. Len(file) + k
    BY <2>6, LenProperties
  <2>8. \A p \in Len(file) + 1 .. Len(file) + k :
            /\ p - Len(file) \in 1 .. k /\ ~(p <= Len(file)) /\ p \in 1 .. Len(file) + k
            /\ (Half - nleft) + (p - Len(file)) = p - Starts[L]
    <3> TAKE p \in Len(file) + 1 .. Len(file) + k
    <3>1. p \in Nat /\ p >= Len(file) + 1 /\ p <= Len(file) + k
      BY <1>3
    <3>2. /\ Half \in Nat /\ nleft \in Nat /\ Len(file) \in Nat /\ Starts[L] \in Nat /\ k \in Nat
          /\ Len(file) + nleft = Starts[L] + Half
      BY <1>3, <1>5
    <3> QED
      BY <3>1, <3>2
  <2>9. /\ \A p \in 1 .. Len(file) : p \in 1 .. Len(file) + k /\ p <= Len(file)
    BY <1>3
  <2>10. \A p \in 1 .. Len(file) : file'[p] = file[p]
    BY <2>6, <2>9
  <2>11. ASSUME NEW p \in Len(file) + 1 .. Len(file) + k
         PROVE  file'[p] = <<L, p - Starts[L]>>
    <3>1. file'[p] = more[p - Len(file)]
      BY <2>6, <2>8
    <3> QED
      BY <2>5, <2>8, <3>1
  <2> QED
    BY <2>6, <2>7, <2>10, <2>11
<1>12. /\ \A b \in 1 .. L : Starts'[b] = Starts[b]
       /\ Starts'[L + 1] = Len(file) + k
  <2>1. from \in Seq(Nat) /\ Len(from) = L /\ Len(file) + k \in Nat
    BY <1>3 DEF Types, L
  <2>2. Starts' = Append(from, Len(file) + k) /\ Starts = Append(from, Len(file))
    BY <1>2, <1>11 DEF Starts
  <2>3. /\ \A b \in 1 .. L : Append(from, Len(file) + k)[b] = from[b]
        /\ Append(from, Len(file) + k)[L + 1] = Len(file) + k
    BY <2>1, AppendProperties
  <2>4. \A b \in 1 .. L : Append(from, Len(file))[b] = from[b]
    BY <1>3, <2>1, AppendProperties
  <2> QED
    BY <2>2, <2>3, <2>4
<1>13. Len(blocks') = L /\ DOMAIN blocks' = 1 .. L
  BY <1>2, <1>3 DEF L
<1>14. \A b \in 1 .. L : b = L \/ b + 1 \in 1 .. L
  BY <1>3
<1>15. /\ Starts'[1] = 0
       /\ \A b, c \in 1 .. L + 1 : b <= c => Starts'[b] <= Starts'[c]
  <2>1. 1 \in 1 .. L /\ L + 1 \in 1 .. L + 1
    BY <1>3, <1>4
  <2>2. \A b \in 1 .. L + 1 : b \in 1 .. L \/ b = L + 1
    BY <1>3
  <2>3. \A b \in 1 .. L : Starts'[b] <= Starts'[L + 1] /\ ~(L + 1 <= b)
    BY <1>3, <1>6, <1>12, <2>1
  <2>4. Starts'[L + 1] <= Starts'[L + 1]
    BY <1>3, <1>12
  <2> QED
    BY <1>3, <1>6, <1>9, <1>12, <2>1, <2>2, <2>3, <2>4
<1>16. /\ \A b \in 1 .. L : Starts'[b + 1] <= Starts'[b] + 2 * blocks[b]
       /\ \A b \in (1 .. L) \ failed :
            Starts'[b + 1] + (IF b = L THEN nleft' ELSE 0) = Starts'[b] + 2 * blocks[b]
  <2>1. ASSUME NEW b \in 1 .. L, b # L
        PROVE  /\ Starts'[b + 1] <= Starts'[b] + 2 * blocks[b]
               /\ b \notin failed => Starts'[b + 1] + 0 = Starts'[b] + 2 * blocks[b]
    <3>1. /\ Starts'[b] = Starts[b] /\ Starts'[b + 1] = Starts[b + 1] /\ Starts[b + 1] \in Nat
      BY <1>3, <1>12, <1>14, <2>1
    <3> QED
      BY <1>7, <2>1, <3>1
  <2>2. /\ Starts'[L + 1] + nleft' = Starts'[L] + 2 * blocks[L]
        /\ Starts'[L + 1] <= Starts'[L] + 2 * blocks[L]
    BY <1>1, <1>3, <1>4, <1>5, <1>12 DEF Half
  <2> QED
    BY <2>1, <2>2
<1>17. ASSUME NEW b \in 1 .. L, NEW p \in Starts'[b] + 1 .. Starts'[b + 1]
       PROVE  file'[p] = <<b, p - Starts'[b]>>
  <2>1. CASE p <= Len(file)
    <3>1. p \in Starts[b] + 1 .. Starts[b + 1] /\ p \in 1 .. Len(file)
      <4>1. /\ Starts'[b] = Starts[b] /\ Starts[b] \in Nat
            /\ b # L => Starts'[b + 1] = Starts[b + 1] /\ Starts[b + 1] \in Nat
            /\ b = L => Starts'[b + 1] = Len(file) + k /\ Starts[b + 1] = Len(file)
        BY <1>3, <1>12, <1>14
      <4> QED
        BY <1>3, <2>1, <4>1
    <3> QED
      BY <1>8, <1>11, <1>12, <3>1
  <2>2. CASE ~(p <= Len(file))
    <3>1. b = L
      <4> SUFFICES ASSUME b # L PROVE FALSE
        OBVIOUS
      <4>0. /\ b + 1 \in 1 .. L /\ b + 1 \in 1 .. L + 1 /\ L + 1 \in 1 .. L + 1 /\ b + 1 <= L + 1
            /\ b \in 1 .. L + 1
        BY <1>3, <1>14
      <4>1. /\ Starts'[b + 1] \in Nat /\ Starts'[b] \in Nat
        BY <1>3, <1>12, <4>0
      <4>2. Starts'[b + 1] <= Len(file)
        BY <1>3, <1>6, <1>12, <4>0
      <4> QED
        BY <1>3, <2>2, <4>1, <4>2
    <3>2. p \in Len(file) + 1 .. Len(file) + k
      BY <1>3, <1>5, <1>12, <2>2, <3>1
    <3> QED
      BY <1>11, <1>12, <3>1, <3>2
  <2> QED
    BY <2>1, <2>2
<1>18. ASSUME NEW p \in 1 .. Len(file) + k
       PROVE  \E b \in 1 .. L : p \in Starts'[b] + 1 .. Starts'[b + 1]
  <2>1. CASE p <= Len(file)
    <3>0. p \in 1 .. Len(file)
      BY <1>3, <2>1
    <3>1. PICK b \in 1 .. L : p \in Starts[b] + 1 .. Starts[b + 1]
      BY <1>8, <3>0
    <3>2. p \in Starts'[b] + 1 .. Starts'[b + 1]
      <4>1. /\ Starts'[b] = Starts[b] /\ Starts[b] \in Nat
            /\ b # L => Starts'[b + 1] = Starts[b + 1] /\ Starts[b + 1] \in Nat
            /\ b = L => Starts'[b + 1] = Len(file) + k /\ Starts[b + 1] = Len(file)
        BY <1>3, <1>12, <1>14
      <4> QED
        BY <1>3, <3>1, <4>1
    <3> QED
      BY <3>2
  <2>2. CASE ~(p <= Len(file))
    <3>1. L \in 1 .. L /\ p \in Starts'[L] + 1 .. Starts'[L + 1]
      BY <1>3, <1>4, <1>5, <1>10, <1>12, <2>2
    <3> QED
      BY <3>1
  <2> QED
    BY <2>1, <2>2
<1>19. nleft' \in Nat /\ Len(file') >= Len(file)
  BY <1>1, <1>3, <1>11
<1> QED
  BY <1>2, <1>4, <1>11, <1>13, <1>15, <1>16, <1>17, <1>18, <1>19 DEF Placed

\* A buffer that is given up ends where the file does.
LEMMA WriteFailsPlaced ==
    ASSUME Types, Placed, WriteFails
    PROVE  Placed'
<1>1. /\ UNCHANGED <<file, blocks, from, closed>> /\ nleft' = 0
      /\ failed' = failed \cup {Current}
  BY DEF WriteFails
<1>2. Starts' = Starts
  BY <1>1 DEF Starts
<1>3. /\ DOMAIN blocks = 1 .. Len(blocks)
      /\ \A b \in 1 .. Len(blocks) + 1 : Starts[b] \in Nat
  BY PlaceFacts
<1>4. \A b \in DOMAIN blocks \ failed' :
            Starts[b + 1] + (IF b = Current THEN nleft' ELSE 0) = Starts[b] + HalfBlocks(b)
  BY <1>1 DEF Placed
<1> QED
  BY <1>1, <1>2, <1>4 DEF Placed

\* The writer leaves what is there where it is.
LEMMA PlacedStep ==
    ASSUME Types, Placed, [Next]_vars
    PROVE  Placed'
<1>1. CASE UNCHANGED writerVars
  <2>1. Starts' = Starts
    BY <1>1 DEF Starts
  <2> QED
    BY <1>1, <2>1 DEF Placed
<1>2. ASSUME NEW n \in Sizes, StartBuffer(n) PROVE Placed'
  BY <1>2, StartBufferPlaced
<1>3. CASE WriteSome
  BY <1>3, WriteSomePlaced
<1>4. CASE WriteFails
  BY <1>4, WriteFailsPlaced
<1>5. CASE CloseFile
  <2>1. Starts' = Starts /\ UNCHANGED <<file, blocks, failed, nleft>> /\ nleft = 0
    BY <1>5 DEF CloseFile, Starts
  <2> QED
    BY <2>1 DEF Placed
<1>6. CASE Read
  <2>1. UNCHANGED writerVars
    BY <1>6 DEF Read, NextBuffer, SkipRecord, ReadHeader, HeaderShort, ReadBody, BodyDone, BodyShort
  <2> QED
    BY <1>1, <2>1
<1> QED
  BY <1>1, <1>2, <1>3, <1>4, <1>5, <1>6 DEF Next, Write

-----------------------------------------------------------------------------
(* What a reader finds at a place                                            *)

\* A record with a marker is the first of a buffer.
LEMMA HeaderBegins ==
    ASSUME Types, Placed, FullRecord, IsHeader(Record)
    PROVE  /\ Record[1][1] \in DOMAIN blocks /\ from[Record[1][1]] = pos
           /\ Record[1] = <<Record[1][1], 1>>
<1>1. /\ pos + 1 \in DOMAIN file /\ Record[1] = file[pos + 1] /\ file[pos + 1][2] = 1
  BY PlaceFacts DEF FullRecord, IsHeader, Record
<1>2. PICK b \in DOMAIN blocks : pos + 1 \in Starts[b] + 1 .. Starts[b + 1]
  BY <1>1 DEF Placed
<1>3. file[pos + 1] = <<b, (pos + 1) - Starts[b]>>
  BY <1>2 DEF Placed
<1>4. Starts[b] = from[b] /\ from[b] \in Nat /\ pos \in Nat
  BY <1>2, PlaceFacts
<1>5. from[b] = pos
  BY <1>1, <1>3, <1>4
<1> QED
  BY <1>1, <1>2, <1>3, <1>4, <1>5

\* A buffer that is not given up is there from its first half block to its last,
\* or to the end of the file.
LEMMA Intactness ==
    ASSUME Types, Placed, NEW b \in DOMAIN blocks \ failed,
           NEW i \in 1 .. 2 * blocks[b], from[b] + i <= Len(file)
    PROVE  file[from[b] + i] = <<b, i>>
<1>1. /\ Starts[b] = from[b] /\ from[b] \in Nat /\ blocks[b] \in Nat /\ i \in Nat
      /\ Len(blocks) \in Nat /\ b \in 1 .. Len(blocks) /\ Len(file) \in Nat /\ nleft \in Nat
      /\ Starts[Len(blocks) + 1] = Len(file)
  BY PlaceFacts
<1>2. Starts[b + 1] + (IF b = Len(blocks) THEN nleft ELSE 0) = Starts[b] + 2 * blocks[b]
  BY DEF Placed
<1>3. Starts[b + 1] \in Nat
  <2>1. b + 1 \in 1 .. Len(blocks) + 1
    BY <1>1
  <2> QED
    BY <2>1, PlaceFacts
<1>4. from[b] + i \in Starts[b] + 1 .. Starts[b + 1]
  <2>1. CASE b = Len(blocks)
    <3> DEFINE x == from[b]
               size == Len(file)
    <3>1. /\ Starts[b] = x /\ Starts[b + 1] = size /\ x \in Nat /\ size \in Nat /\ i \in Nat
          /\ i > 0 /\ x + i <= size
      BY <1>1, <2>1
    <3> HIDE DEF x, size
    <3>2. x + i \in x + 1 .. size
      BY <3>1
    <3> QED
      BY <3>1, <3>2 DEF x
  <2>2. CASE b # Len(blocks)
    <3> DEFINE x == Starts[b]
               y == Starts[b + 1]
               k == blocks[b]
    <3>1. y + 0 = x + 2 * k
      BY <1>2, <2>2
    <3>2. from[b] = x /\ x \in Nat /\ y \in Nat /\ k \in Nat /\ i \in 1 .. 2 * k
      BY <1>1, <1>3
    <3> HIDE DEF x, y, k
    <3>3. x + i \in x + 1 .. y
      BY <3>1, <3>2
    <3> QED
      BY <3>2, <3>3 DEF x, y
  <2> QED
    BY <2>1, <2>2
<1>5. file[from[b] + i] = <<b, (from[b] + i) - Starts[b]>>
  BY <1>4 DEF Placed
<1> QED
  BY <1>1, <1>5

\* In a closed file it is there altogether.
LEMMA AllThere ==
    ASSUME Types, Placed, closed, NEW b \in DOMAIN blocks \ failed
    PROVE  /\ from[b] \in Nat /\ blocks[b] \in Nat /\ blocks[b] > 0
           /\ from[b] + 2 * blocks[b] <= Len(file)
           /\ Starts[b + 1] = from[b] + 2 * blocks[b]
<1>1. /\ Starts[b] = from[b] /\ from[b] \in Nat /\ blocks[b] \in Nat /\ blocks[b] > 0
      /\ Len(blocks) \in Nat /\ b \in 1 .. Len(blocks) /\ Len(file) \in Nat /\ nleft \in Nat
      /\ Starts[Len(blocks) + 1] = Len(file)
      /\ b + 1 \in 1 .. Len(blocks) + 1 /\ Len(blocks) + 1 \in 1 .. Len(blocks) + 1
      /\ b + 1 <= Len(blocks) + 1
  BY PlaceFacts
<1>2. Starts[b + 1] + (IF b = Len(blocks) THEN nleft ELSE 0) = Starts[b] + 2 * blocks[b]
  BY DEF Placed
<1>3. nleft = 0
  BY <1>1 DEF Placed
<1>4. Starts[b + 1] \in Nat
  BY <1>1, PlaceFacts
<1>5. Starts[b + 1] + 0 = Starts[b] + 2 * blocks[b]
  BY <1>2, <1>3
<1>6. Starts[b + 1] <= Len(file)
  BY <1>1 DEF Placed
<1> QED
  BY <1>1, <1>4, <1>5, <1>6

\* Buffers begin in the order they are written.
LEMMA BeginInOrder ==
    ASSUME Types, Placed, NEW b \in DOMAIN blocks, NEW c \in DOMAIN blocks, from[b] < from[c]
    PROVE  b < c
<1>1. /\ b \in 1 .. Len(blocks) + 1 /\ c \in 1 .. Len(blocks) + 1
      /\ Starts[b] = from[b] /\ Starts[c] = from[c] /\ from[b] \in Nat /\ from[c] \in Nat
      /\ b \in Nat /\ c \in Nat
  BY PlaceFacts
<1>2. c <= b => Starts[c] <= Starts[b]
  BY <1>1 DEF Placed
<1> QED
  BY <1>1, <1>2

\* What a buffer takes or leaves a gap for lies before one that is not displaced.
LEMMA ClearOf ==
    ASSUME Types, Placed, NEW b \in DOMAIN blocks, ~Displaced(b),
           NEW d \in DOMAIN blocks, from[d] < from[b]
    PROVE  from[d] + 2 * blocks[d] <= from[b]
<1>1. /\ from[b] \in Nat /\ from[d] \in Nat /\ blocks[d] \in Nat
      /\ Starts[b] = from[b] /\ Starts[d] = from[d]
      /\ b \in 1 .. Len(blocks) /\ d \in 1 .. Len(blocks) /\ Len(blocks) \in Nat
  BY PlaceFacts
<1>2. CASE d \in failed
  BY <1>1, <1>2 DEF Displaced
<1>3. CASE d \notin failed
  <2>1. d < b
    BY BeginInOrder
  <2>2. /\ d + 1 \in 1 .. Len(blocks) + 1 /\ b \in 1 .. Len(blocks) + 1 /\ d + 1 <= b
        /\ d # Len(blocks)
    BY <1>1, <2>1
  <2>3. Starts[d + 1] <= Starts[b] /\ Starts[d + 1] \in Nat
    BY <2>2, PlaceFacts DEF Placed
  <2>4. Starts[d + 1] + 0 = Starts[d] + 2 * blocks[d]
    BY <1>3, <2>2 DEF Placed
  <2> QED
    BY <1>1, <2>3, <2>4
<1> QED
  BY <1>2, <1>3

-----------------------------------------------------------------------------
(* Types                                                                     *)

\* What a step leaves as it is.
LEMMA OlderBuffers ==
    ASSUME Types, Placed, [Next]_vars
    PROVE  /\ online' = online /\ failed \subseteq failed' /\ (closed => UNCHANGED writerVars)
           /\ DOMAIN blocks \subseteq DOMAIN blocks'
           /\ \A b \in DOMAIN blocks : blocks'[b] = blocks[b] /\ from'[b] = from[b]
<1>1. CASE UNCHANGED <<online, writerVars>>
  BY <1>1
<1>2. ASSUME NEW n \in Sizes, StartBuffer(n)
      PROVE  /\ ~closed /\ online' = online /\ failed' = failed
             /\ DOMAIN blocks \subseteq DOMAIN blocks'
             /\ \A b \in DOMAIN blocks : blocks'[b] = blocks[b] /\ from'[b] = from[b]
  <2>1. /\ blocks' = Append(blocks, n) /\ from' = Append(from, Len(file))
        /\ ~closed /\ online' = online /\ failed' = failed
    BY <1>2 DEF StartBuffer
  <2>2. /\ blocks \in Seq(Sizes) /\ from \in Seq(Nat) /\ Len(from) = Len(blocks)
        /\ Len(file) \in Nat
    BY PlaceFacts DEF Types
  <2>3. /\ DOMAIN blocks = 1 .. Len(blocks) /\ DOMAIN blocks' = 1 .. Len(blocks) + 1
        /\ \A b \in 1 .. Len(blocks) : blocks'[b] = blocks[b] /\ from'[b] = from[b]
    BY <2>1, <2>2, AppendProperties, LenProperties
  <2>4. 1 .. Len(blocks) \subseteq 1 .. Len(blocks) + 1
    BY PlaceFacts
  <2> QED
    BY <2>1, <2>3, <2>4
<1>3. CASE WriteSome
  <2>1. nleft > 0
    <3>1. PICK k \in 1 .. nleft : nleft' = nleft - k
      BY <1>3 DEF WriteSome
    <3> QED
      BY PlaceFacts, <3>1
  <2>2. ~closed
    BY <2>1 DEF Placed
  <2> QED
    BY <1>3, <2>2 DEF WriteSome
<1>4. CASE WriteFails
  <2>1. ~closed
    BY <1>4 DEF WriteFails, Placed
  <2> QED
    BY <1>4, <2>1 DEF WriteFails
<1>5. CASE CloseFile
  BY <1>5 DEF CloseFile
<1>6. CASE Read
  <2>1. UNCHANGED <<online, writerVars>>
    BY <1>6 DEF Read, NextBuffer, SkipRecord, ReadHeader, HeaderShort, ReadBody, BodyDone, BodyShort
  <2> QED
    BY <1>1, <2>1
<1>7. CASE UNCHANGED vars
  BY <1>1, <1>7
<1> QED
  BY <1>2, <1>3, <1>4, <1>5, <1>6, <1>7 DEF Next, Write

\* What a full record is.
LEMMA RecordFacts ==
    ASSUME Types, FullRecord
    PROVE  /\ pos + 1 \in DOMAIN file /\ pos + 2 \in DOMAIN file /\ pos + 2 <= Len(file)
           /\ Record \in HalfBlock \X HalfBlock
           /\ Record[1] = file[pos + 1] /\ Record[2] = file[pos + 2]
<1>1. pos \in Nat /\ Len(file) \in Nat /\ DOMAIN file = 1 .. Len(file)
  BY PlaceFacts
<1>2. pos + 1 \in DOMAIN file /\ pos + 2 \in DOMAIN file /\ pos + 2 <= Len(file)
  BY <1>1 DEF FullRecord
<1>3. file[pos + 1] \in HalfBlock /\ file[pos + 2] \in HalfBlock
  BY <1>1, <1>2, ElementOfSeq DEF Types
<1> QED
  BY <1>2, <1>3 DEF Record

\* A step keeps the types.
LEMMA TypesStep ==
    ASSUME Types, Placed, [Next]_vars
    PROVE  Types'
<1> DEFINE Records == HalfBlock \X HalfBlock
<1>1. /\ online \in BOOLEAN /\ closed \in BOOLEAN
      /\ file \in Seq(HalfBlock) /\ nleft \in Nat
      /\ blocks \in Seq(Sizes) /\ from \in Seq(Nat) /\ Len(from) = Len(blocks)
      /\ failed \subseteq DOMAIN blocks
      /\ pos \in 0 .. Len(file) /\ reading \in {"none", "header", "body", "end"}
      /\ buffer_size \in Nat
      /\ bp \in Seq(Records) /\ got \in Seq(Seq(Records))
  BY DEF Types
<1>2. pos \in Nat /\ Len(file) \in Nat
  BY PlaceFacts
<1> HIDE DEF Records
<1>3. ASSUME NEW n \in Sizes, StartBuffer(n)
      PROVE  Types'
  <2>1. /\ blocks' = Append(blocks, n) /\ from' = Append(from, Len(file))
        /\ nleft' = 2 * n /\ failed' = failed
        /\ UNCHANGED <<online, file, closed, readerVars>>
    BY <1>3 DEF StartBuffer
  <2>2. n \in Nat
    BY FileIteratorAssumption
  <2>3. /\ blocks' \in Seq(Sizes) /\ from' \in Seq(Nat) /\ Len(from') = Len(blocks')
    BY <1>1, <1>2, <2>1, AppendProperties
  <2>4. failed' \subseteq DOMAIN blocks'
    BY <1>1, <1>3, <2>1, OlderBuffers DEF Next, Write
  <2> QED
    BY <1>1, <2>1, <2>2, <2>3, <2>4 DEF Types, Records
<1>4. CASE WriteSome
  <2>1. UNCHANGED <<online, blocks, from, failed, closed, readerVars>>
    BY <1>4 DEF WriteSome
  <2>2. file' \in Seq(HalfBlock) /\ Len(file') >= Len(file) /\ nleft' \in Nat
    BY <1>4, WriteSomePlaced
  <2>3. pos \in 0 .. Len(file')
    <3>1. Len(file') \in Nat
      BY <2>2, LenProperties
    <3> QED
      BY <1>1, <1>2, <2>2, <3>1
  <2> QED
    BY <1>1, <2>1, <2>2, <2>3 DEF Types, Records
<1>5. CASE WriteFails
  <2>1. /\ failed' = failed \cup {Len(blocks)} /\ nleft' = 0 /\ nleft > 0
        /\ UNCHANGED <<online, file, blocks, from, closed, readerVars>>
    BY <1>5 DEF WriteFails
  <2>2. Len(blocks) \in DOMAIN blocks
    BY <2>1 DEF Placed
  <2> QED
    BY <1>1, <2>1, <2>2 DEF Types, Records
<1>6. CASE CloseFile
  <2>1. closed' = TRUE /\ UNCHANGED <<online, file, blocks, from, nleft, failed, readerVars>>
    BY <1>6 DEF CloseFile
  <2> QED
    BY <1>1, <2>1 DEF Types, Records
<1>7. << >> \in Seq(Records) /\ Append(got, bp) \in Seq(Seq(Records))
  BY <1>1, EmptySeq, AppendProperties
<1>8. CASE NextBuffer
  BY <1>1, <1>7, <1>8 DEF NextBuffer, Types, Records
<1>9. CASE SkipRecord
  <2>1. pos + 2 \in 0 .. Len(file)
    BY <1>2, <1>9, RecordFacts DEF SkipRecord
  <2> QED
    BY <1>1, <1>9, <2>1 DEF SkipRecord, Types, Records
<1>10. CASE ReadHeader
  <2>1. /\ FullRecord /\ IsHeader(Record) /\ UNCHANGED <<online, writerVars, got>>
        /\ pos' = pos + 2 /\ buffer_size' = blocks[Record[1][1]]
        /\ bp' = <<Record>> /\ reading' = "body"
    BY <1>10 DEF ReadHeader
  <2>2. pos + 2 \in 0 .. Len(file)
    BY <1>2, <2>1, RecordFacts
  <2>3. blocks[Record[1][1]] \in Nat
    BY <2>1, HeaderBegins, PlaceFacts
  <2>4. <<Record>> \in Seq(Records)
    <3>1. Record \in Records
      BY <2>1, RecordFacts DEF Records
    <3> QED
      BY <3>1
  <2> QED
    BY <1>1, <2>1, <2>2, <2>3, <2>4 DEF Types, Records
<1>11. CASE HeaderShort
  <2>1. Len(file) \in 0 .. Len(file)
    BY <1>2
  <2> QED
    BY <1>1, <1>11, <2>1 DEF HeaderShort, ReadShort, Types, Records
<1>12. CASE ReadBody
  <2>1. /\ FullRecord /\ UNCHANGED <<online, writerVars, reading, buffer_size, got>>
        /\ pos' = pos + 2 /\ bp' = Append(bp, Record)
    BY <1>12 DEF ReadBody
  <2>2. pos + 2 \in 0 .. Len(file)
    BY <1>2, <2>1, RecordFacts
  <2>3. Append(bp, Record) \in Seq(Records)
    <3>1. Record \in Records
      BY <2>1, RecordFacts DEF Records
    <3> QED
      BY <1>1, <3>1, AppendProperties
  <2> QED
    BY <1>1, <2>1, <2>2, <2>3 DEF Types, Records
<1>13. CASE BodyDone
  BY <1>1, <1>7, <1>13 DEF BodyDone, HandOver, Types, Records
<1>14. CASE BodyShort
  <2>1. Len(file) \in 0 .. Len(file)
    BY <1>2
  <2> QED
    BY <1>1, <1>7, <1>14, <2>1 DEF BodyShort, ReadShort, HandOver, Types, Records
<1>15. CASE UNCHANGED vars
  BY <1>1, <1>15 DEF Types, Records
<1> QED
  BY <1>3, <1>4, <1>5, <1>6, <1>8, <1>9, <1>10, <1>11, <1>12, <1>13, <1>14, <1>15
     DEF Next, Write, Read


-----------------------------------------------------------------------------
(* Reading                                                                   *)

\* The writer does not touch what the reader has, nor the reader the file.
LEMMA WriterOrReader ==
    ASSUME [Next]_vars
    PROVE  UNCHANGED readerVars \/ (Read /\ MayRead /\ UNCHANGED <<online, writerVars>>)
<1>1. CASE Read
  BY <1>1 DEF Read, NextBuffer, SkipRecord, ReadHeader, HeaderShort, ReadBody, BodyDone, BodyShort
<1>2. CASE Write
  BY <1>2 DEF Write, StartBuffer, WriteSome, WriteFails, CloseFile
<1> QED
  BY <1>1, <1>2 DEF Next

\* One more record does not change what buffer the records are of.
LEMMA AppendRecord ==
    ASSUME Types, FullRecord, Len(bp) > 0
    PROVE  /\ Len(Append(bp, Record)) = Len(bp) + 1 /\ Len(bp) \in Nat
           /\ DOMAIN bp = 1 .. Len(bp) /\ DOMAIN Append(bp, Record) = 1 .. Len(bp) + 1
           /\ \A i \in 1 .. Len(bp) : Append(bp, Record)[i] = bp[i]
           /\ Append(bp, Record)[Len(bp) + 1] = Record
           /\ BufferOf(Append(bp, Record)) = BufferOf(bp)
<1>1. bp \in Seq(HalfBlock \X HalfBlock) /\ Record \in HalfBlock \X HalfBlock
  BY RecordFacts DEF Types
<1>2. /\ Len(Append(bp, Record)) = Len(bp) + 1 /\ Len(bp) \in Nat
      /\ DOMAIN bp = 1 .. Len(bp) /\ DOMAIN Append(bp, Record) = 1 .. Len(bp) + 1
      /\ \A i \in 1 .. Len(bp) : Append(bp, Record)[i] = bp[i]
      /\ Append(bp, Record)[Len(bp) + 1] = Record
  BY <1>1, AppendProperties, LenProperties
<1>3. 1 \in 1 .. Len(bp)
  BY <1>2
<1> QED
  BY <1>2, <1>3 DEF BufferOf

\* The reader's place in a buffer is that of the records it has of it.
LEMMA InBodyStep ==
    ASSUME Types, Placed, InBody, [Next]_vars
    PROVE  InBody'
<1>1. CASE UNCHANGED readerVars
  <2> SUFFICES ASSUME reading' = "body"
               PROVE  /\ BufferOf(bp') \in DOMAIN blocks'
                      /\ buffer_size' = blocks'[BufferOf(bp')]
                      /\ Len(bp') \in 1 .. buffer_size'
                      /\ pos' = from'[BufferOf(bp')] + 2 * Len(bp')
    BY DEF InBody, BufferOf
  <2>1. /\ BufferOf(bp) \in DOMAIN blocks /\ buffer_size = blocks[BufferOf(bp)]
        /\ Len(bp) \in 1 .. buffer_size /\ pos = from[BufferOf(bp)] + 2 * Len(bp)
    BY <1>1 DEF InBody
  <2>2. bp' = bp /\ buffer_size' = buffer_size /\ pos' = pos
    BY <1>1
  <2> QED
    BY <2>1, <2>2, OlderBuffers
<1>2. CASE UNCHANGED writerVars /\ ReadHeader
  <2>1. /\ FullRecord /\ IsHeader(Record) /\ blocks' = blocks /\ from' = from
        /\ pos' = pos + 2 /\ buffer_size' = blocks[Record[1][1]] /\ bp' = <<Record>>
    BY <1>2 DEF ReadHeader
  <2>2. Record[1][1] \in DOMAIN blocks /\ from[Record[1][1]] = pos
    BY <2>1, HeaderBegins
  <2>3. blocks[Record[1][1]] \in Nat /\ blocks[Record[1][1]] > 0 /\ pos \in Nat
    BY <2>2, PlaceFacts
  <2>4. BufferOf(bp') = Record[1][1] /\ Len(bp') = 1
    BY <2>1 DEF BufferOf
  <2>5. Len(bp') \in 1 .. buffer_size' /\ pos' = from[Record[1][1]] + 2 * Len(bp')
    BY <2>1, <2>2, <2>3, <2>4
  <2> QED
    BY <2>1, <2>2, <2>4, <2>5 DEF InBody, BufferOf
<1>3. CASE UNCHANGED writerVars /\ ReadBody
  <2>1. /\ FullRecord /\ blocks' = blocks /\ from' = from /\ reading = "body" /\ ~AllRead
        /\ pos' = pos + 2 /\ buffer_size' = buffer_size /\ bp' = Append(bp, Record)
    BY <1>3 DEF ReadBody
  <2>2. /\ BufferOf(bp) \in DOMAIN blocks /\ buffer_size = blocks[BufferOf(bp)]
        /\ Len(bp) \in 1 .. buffer_size /\ pos = from[BufferOf(bp)] + 2 * Len(bp)
    BY <2>1 DEF InBody
  <2>3. buffer_size \in Nat /\ pos \in Nat /\ from[BufferOf(bp)] \in Nat
    BY <2>2, PlaceFacts
  <2>4. Len(bp) > 0 /\ Len(bp) + 1 \in 1 .. buffer_size
    BY <2>1, <2>2, <2>3 DEF AllRead
  <2>5. Len(bp') = Len(bp) + 1 /\ BufferOf(bp') = BufferOf(bp) /\ Len(bp) \in Nat
    BY <2>1, <2>4, AppendRecord
  <2>6. pos' = from[BufferOf(bp)] + 2 * (Len(bp) + 1)
    BY <2>1, <2>2, <2>3, <2>5
  <2> QED
    BY <2>1, <2>2, <2>4, <2>5, <2>6 DEF InBody, BufferOf
<1>4. CASE reading' # "body"
  BY <1>4 DEF InBody
<1>5. Read => ReadHeader \/ ReadBody \/ reading' # "body"
  BY DEF Read, NextBuffer, SkipRecord, HeaderShort, BodyDone, BodyShort, HandOver
<1> QED
  BY <1>1, <1>2, <1>3, <1>4, <1>5, WriterOrReader


\* The record that begins a buffer is its first.
LEMMA FirstRecord ==
    ASSUME Types, Placed, FullRecord, NEW b \in DOMAIN blocks \ failed, from[b] = pos
    PROVE  Record = BlockOf(b, 1) /\ IsHeader(Record) /\ Record[1][1] = b
<1>1. /\ Record = <<file[pos + 1], file[pos + 2]>> /\ pos + 2 <= Len(file)
      /\ pos \in Nat /\ Len(file) \in Nat /\ blocks[b] \in Nat /\ blocks[b] > 0
  BY RecordFacts, PlaceFacts DEF Record
<1>2. /\ 1 \in 1 .. 2 * blocks[b] /\ 2 \in 1 .. 2 * blocks[b]
      /\ from[b] + 1 <= Len(file) /\ from[b] + 2 <= Len(file)
  BY <1>1
<1>3. file[from[b] + 1] = <<b, 1>> /\ file[from[b] + 2] = <<b, 2>>
  BY <1>2, Intactness
<1>4. Record = <<<<b, 1>>, <<b, 2>>>>
  BY <1>1, <1>3
<1>5. BlockOf(b, 1) = <<<<b, 1>>, <<b, 2>>>>
  BY DEF BlockOf
<1> QED
  BY <1>4, <1>5 DEF IsHeader

\* The record after those the reader has of a buffer is the next one of it.
LEMMA NextRecord ==
    ASSUME Types, Placed, InBody, reading = "body", Len(bp) < buffer_size, FullRecord,
           BufferOf(bp) \notin failed, Intact(bp)
    PROVE  Intact(Append(bp, Record))
<1> DEFINE b == BufferOf(bp)
           more == Append(bp, Record)
<1>1. /\ b \in DOMAIN blocks \ failed /\ buffer_size = blocks[b]
      /\ Len(bp) \in 1 .. buffer_size /\ pos = from[b] + 2 * Len(bp)
  BY DEF InBody
<1>2. /\ blocks[b] \in Nat /\ from[b] \in Nat /\ pos \in Nat /\ Len(file) \in Nat
  BY <1>1, PlaceFacts
<1>3. Len(bp) > 0
  BY <1>1, <1>2
<1>4. /\ Len(bp) \in Nat /\ DOMAIN bp = 1 .. Len(bp) /\ DOMAIN more = 1 .. Len(bp) + 1
      /\ \A i \in 1 .. Len(bp) : more[i] = bp[i]
      /\ more[Len(bp) + 1] = Record
      /\ BufferOf(more) = b
  BY <1>3, AppendRecord
<1>5. \A i \in 1 .. Len(bp) : bp[i] = BlockOf(b, i)
  BY <1>4 DEF Intact
<1>6. Record = <<file[pos + 1], file[pos + 2]>> /\ pos + 2 <= Len(file)
  BY RecordFacts DEF Record
<1> DEFINE n == Len(bp)
<1> HIDE DEF b, more, n
<1>7. n = Len(bp) /\ n \in Nat
  BY <1>4 DEF n
<1>8. /\ 2 * n + 1 \in 1 .. 2 * blocks[b] /\ 2 * n + 2 \in 1 .. 2 * blocks[b]
      /\ from[b] + (2 * n + 1) <= Len(file) /\ from[b] + (2 * n + 2) <= Len(file)
      /\ from[b] + (2 * n + 1) = pos + 1 /\ from[b] + (2 * n + 2) = pos + 2
      /\ 2 * (n + 1) - 1 = 2 * n + 1 /\ 2 * (n + 1) = 2 * n + 2
  <2> DEFINE k == blocks[b]
             x == from[b]
             size == Len(file)
  <2>1. /\ k \in Nat /\ x \in Nat /\ size \in Nat /\ n < k
        /\ pos = x + 2 * n /\ pos + 2 <= size
    BY <1>1, <1>2, <1>6, <1>7
  <2> HIDE DEF k, x, size
  <2>2. /\ 2 * n + 1 \in 1 .. 2 * k /\ 2 * n + 2 \in 1 .. 2 * k
        /\ x + (2 * n + 1) <= size /\ x + (2 * n + 2) <= size
        /\ x + (2 * n + 1) = pos + 1 /\ x + (2 * n + 2) = pos + 2
        /\ 2 * (n + 1) - 1 = 2 * n + 1 /\ 2 * (n + 1) = 2 * n + 2
    BY <1>7, <2>1
  <2> QED
    BY <2>2 DEF k, x, size
<1>9. /\ file[from[b] + (2 * n + 1)] = <<b, 2 * n + 1>>
      /\ file[from[b] + (2 * n + 2)] = <<b, 2 * n + 2>>
  BY <1>1, <1>8, Intactness
<1>10. Record = BlockOf(b, n + 1)
  <2>1. BlockOf(b, n + 1) = <<<<b, 2 * n + 1>>, <<b, 2 * n + 2>>>>
    BY <1>8 DEF BlockOf
  <2> QED
    BY <1>6, <1>8, <1>9, <2>1
<1>11. ASSUME NEW i \in DOMAIN more
       PROVE  more[i] = BlockOf(b, i)
  <2>1. CASE i \in 1 .. Len(bp)
    BY <1>4, <1>5, <2>1
  <2>2. CASE i = n + 1
    BY <1>4, <1>7, <1>10, <2>2
  <2> QED
    BY <1>4, <1>7, <2>1, <2>2
<1> QED
  BY <1>4, <1>11 DEF Intact, more

\* Handing over adds the current buffer's records to what was handed over.
LEMMA HandOverFacts ==
    ASSUME Types, HandOver
    PROVE  /\ Len(got') = Len(got) + 1 /\ Len(got) \in Nat
           /\ DOMAIN got = 1 .. Len(got) /\ DOMAIN got' = 1 .. Len(got) + 1
           /\ \A i \in 1 .. Len(got) : got'[i] = got[i]
           /\ got'[Len(got) + 1] = bp
           /\ reading' = "none"
  BY AppendProperties, LenProperties DEF Types, HandOver

\* As long as nothing fails, the reader gets what was written, in order.
LEMMA ReadInOrderStep ==
    ASSUME Types, Placed, InBody, ReadInOrder, [Next]_vars
    PROVE  ReadInOrder'
<1> SUFFICES ASSUME failed' = {}
             PROVE  /\ \A i \in DOMAIN got' : /\ Intact(got'[i])
                                              /\ BufferOf(got'[i]) \in DOMAIN blocks'
                                              /\ from'[BufferOf(got'[i])] < pos'
                    /\ \A i \in 2 .. Len(got') : BufferOf(got'[i - 1]) < BufferOf(got'[i])
                    /\ reading' = "body" =>
                            /\ Intact(bp')
                            /\ \A i \in DOMAIN got' : BufferOf(got'[i]) < BufferOf(bp')
  BY DEF ReadInOrder, Intact, BufferOf, BlockOf
<1>1. /\ failed = {}
      /\ \A i \in DOMAIN got : /\ Intact(got[i]) /\ BufferOf(got[i]) \in DOMAIN blocks
                               /\ from[BufferOf(got[i])] < pos
      /\ \A i \in 2 .. Len(got) : BufferOf(got[i - 1]) < BufferOf(got[i])
      /\ reading = "body" =>
                Intact(bp) /\ \A i \in DOMAIN got : BufferOf(got[i]) < BufferOf(bp)
  BY OlderBuffers DEF ReadInOrder
<1>2. pos \in Nat /\ Len(file) \in Nat /\ pos <= Len(file)
  BY PlaceFacts DEF Types
<1>3. \A i \in DOMAIN got : from[BufferOf(got[i])] \in Nat
  BY <1>1, PlaceFacts
<1>4. CASE UNCHANGED readerVars
  <2>1. got' = got /\ bp' = bp /\ pos' = pos /\ reading' = reading
    BY <1>4
  <2>2. \A i \in DOMAIN got : /\ BufferOf(got[i]) \in DOMAIN blocks'
                              /\ from'[BufferOf(got[i])] = from[BufferOf(got[i])]
    BY <1>1, OlderBuffers
  <2> QED
    BY <1>1, <2>1, <2>2
<1>5. CASE UNCHANGED writerVars /\ Read
  <2>1. blocks' = blocks /\ from' = from /\ file' = file
    BY <1>5
  <2>2. CASE got' = got /\ pos' \in {pos, pos + 2, Len(file)} /\ reading' # "body"
    <3>1. \A i \in DOMAIN got : from[BufferOf(got[i])] < pos'
      BY <1>1, <1>2, <1>3, <2>2
    <3> QED
      BY <1>1, <2>1, <2>2, <3>1
  <2>3. CASE ReadHeader
    <3>1. /\ FullRecord /\ IsHeader(Record) /\ got' = got /\ pos' = pos + 2 /\ bp' = <<Record>>
      BY <2>3 DEF ReadHeader
    <3> DEFINE b == Record[1][1]
    <3>2. b \in DOMAIN blocks \ failed /\ from[b] = pos
      BY <1>1, <3>1, HeaderBegins
    <3>3. Record = BlockOf(b, 1)
      BY <3>1, <3>2, FirstRecord
    <3>4. BufferOf(bp') = b
      BY <3>1 DEF BufferOf
    <3>5. Intact(bp')
      <4>1. DOMAIN bp' = {1} /\ bp'[1] = Record
        BY <3>1
      <4> QED
        BY <3>3, <3>4, <4>1 DEF Intact
    <3>6. \A i \in DOMAIN got : BufferOf(got[i]) < b
      BY <1>1, <3>2, BeginInOrder
    <3>7. \A i \in DOMAIN got : from[BufferOf(got[i])] < pos'
      BY <1>1, <1>2, <1>3, <3>1
    <3> QED
      BY <1>1, <2>1, <3>1, <3>4, <3>5, <3>6, <3>7
  <2>4. CASE ReadBody
    <3>1. /\ FullRecord /\ reading = "body" /\ ~AllRead /\ got' = got /\ pos' = pos + 2
          /\ bp' = Append(bp, Record)
      BY <2>4 DEF ReadBody
    <3>2. /\ BufferOf(bp) \in DOMAIN blocks /\ Len(bp) \in 1 .. buffer_size
          /\ buffer_size = blocks[BufferOf(bp)]
      BY <3>1 DEF InBody
    <3>3. Len(bp) < buffer_size /\ Len(bp) > 0
      <4>1. buffer_size \in Nat
        BY <3>2, PlaceFacts
      <4> QED
        BY <3>1, <3>2, <4>1 DEF AllRead
    <3>4. Intact(bp')
      BY <1>1, <3>1, <3>3, NextRecord
    <3>5. BufferOf(bp') = BufferOf(bp)
      BY <3>1, <3>3, AppendRecord
    <3>6. \A i \in DOMAIN got : from[BufferOf(got[i])] < pos'
      BY <1>1, <1>2, <1>3, <3>1
    <3> QED
      BY <1>1, <2>1, <3>1, <3>4, <3>5, <3>6
  <2>5. CASE HandOver /\ reading = "body" /\ pos' \in {pos, Len(file)}
    <3>1. /\ Len(got') = Len(got) + 1 /\ Len(got) \in Nat
          /\ DOMAIN got = 1 .. Len(got) /\ DOMAIN got' = 1 .. Len(got) + 1
          /\ \A i \in 1 .. Len(got) : got'[i] = got[i]
          /\ got'[Len(got) + 1] = bp
          /\ reading' = "none"
      BY <2>5, HandOverFacts
    <3>2. BufferOf(bp) \in DOMAIN blocks /\ from[BufferOf(bp)] < pos'
      <4>1. /\ BufferOf(bp) \in DOMAIN blocks /\ Len(bp) \in 1 .. buffer_size
            /\ pos = from[BufferOf(bp)] + 2 * Len(bp) /\ buffer_size = blocks[BufferOf(bp)]
        BY <2>5 DEF InBody
      <4>2. from[BufferOf(bp)] \in Nat /\ buffer_size \in Nat
        BY <4>1, PlaceFacts
      <4> QED
        BY <1>2, <2>5, <4>1, <4>2
    <3>3. \A i \in 1 .. Len(got) : from[BufferOf(got[i])] < pos'
      BY <1>1, <1>2, <1>3, <2>5, <3>1
    <3>4. \A i \in 1 .. Len(got) + 1 : i \in 1 .. Len(got) \/ i = Len(got) + 1
      BY <3>1
    <3>5. \A i \in DOMAIN got' : /\ Intact(got'[i]) /\ BufferOf(got'[i]) \in DOMAIN blocks
                                 /\ from[BufferOf(got'[i])] < pos'
      BY <1>1, <2>5, <3>1, <3>2, <3>3, <3>4
    <3>6. \A i \in 2 .. Len(got') : BufferOf(got'[i - 1]) < BufferOf(got'[i])
      <4>1. ASSUME NEW i \in 2 .. Len(got) + 1
            PROVE  BufferOf(got'[i - 1]) < BufferOf(got'[i])
        <5>1. /\ i - 1 \in 1 .. Len(got)
              /\ (i \in 2 .. Len(got) /\ i \in 1 .. Len(got)) \/ i = Len(got) + 1
          BY <3>1
        <5>2. got'[i - 1] = got[i - 1]
          BY <3>1, <5>1
        <5>3. CASE i \in 2 .. Len(got) /\ i \in 1 .. Len(got)
          BY <1>1, <3>1, <5>2, <5>3
        <5>4. CASE i = Len(got) + 1
          BY <1>1, <2>5, <3>1, <5>1, <5>2, <5>4
        <5> QED
          BY <5>1, <5>3, <5>4
      <4> QED
        BY <3>1, <4>1
    <3> QED
      BY <2>1, <3>1, <3>5, <3>6
  <2>6. \/ got' = got /\ pos' \in {pos, pos + 2, Len(file)} /\ reading' # "body"
        \/ ReadHeader \/ ReadBody
        \/ HandOver /\ reading = "body" /\ pos' \in {pos, Len(file)}
    BY <1>5 DEF Read, NextBuffer, SkipRecord, HeaderShort, BodyDone, BodyShort, ReadShort
  <2> QED
    BY <2>2, <2>3, <2>4, <2>5, <2>6
<1> QED
  BY <1>4, <1>5, WriterOrReader


\* A reader of a closed file, nothing failed, is at the beginning of the next
\* buffer when it looks for one.
LEMMA AtNextBuffer ==
    ASSUME Types, Placed, closed, failed = {},
           Len(got) \in Nat, Len(got) <= Len(blocks), pos = Starts[Len(got) + 1]
    PROVE  \/ Len(got) = Len(blocks) /\ ~FullRecord
           \/ /\ Len(got) + 1 \in DOMAIN blocks /\ from[Len(got) + 1] = pos /\ FullRecord
              /\ IsHeader(Record) /\ Record[1][1] = Len(got) + 1
<1>1. /\ Len(blocks) \in Nat /\ DOMAIN blocks = 1 .. Len(blocks) /\ Len(file) \in Nat
      /\ pos \in Nat /\ Starts[Len(blocks) + 1] = Len(file)
  BY PlaceFacts
<1>2. CASE Len(got) = Len(blocks)
  BY <1>1, <1>2 DEF FullRecord
<1>3. CASE Len(got) # Len(blocks)
  <2>1. Len(got) + 1 \in DOMAIN blocks \ failed
    BY <1>1, <1>3
  <2>2. from[Len(got) + 1] = pos
    BY <1>1, <2>1, PlaceFacts
  <2>3. FullRecord
    <3>1. /\ blocks[Len(got) + 1] \in Nat /\ blocks[Len(got) + 1] > 0
          /\ from[Len(got) + 1] + 2 * blocks[Len(got) + 1] <= Len(file)
      BY <2>1, AllThere
    <3> QED
      BY <1>1, <2>2, <3>1 DEF FullRecord
  <2> QED
    BY <2>1, <2>2, <2>3, FirstRecord
<1> QED
  BY <1>2, <1>3

\* A reader of a closed file in the middle of a buffer has the rest before it.
LEMMA BodyIsThere ==
    ASSUME Types, Placed, InBody, closed, reading = "body", Len(bp) < buffer_size,
           BufferOf(bp) \notin failed
    PROVE  FullRecord
<1>1. /\ BufferOf(bp) \in DOMAIN blocks \ failed /\ buffer_size = blocks[BufferOf(bp)]
      /\ Len(bp) \in 1 .. buffer_size /\ pos = from[BufferOf(bp)] + 2 * Len(bp)
  BY DEF InBody
<1>2. /\ from[BufferOf(bp)] \in Nat /\ buffer_size \in Nat
      /\ from[BufferOf(bp)] + 2 * buffer_size <= Len(file)
  BY <1>1, AllThere
<1>3. pos \in Nat /\ Len(file) \in Nat
  BY PlaceFacts
<1> DEFINE x == from[BufferOf(bp)]
           k == Len(bp)
           size == Len(file)
<1>4. /\ x \in Nat /\ buffer_size \in Nat /\ size \in Nat /\ k \in 1 .. buffer_size
      /\ k < buffer_size /\ pos = x + 2 * k /\ x + 2 * buffer_size <= size
  BY <1>1, <1>2, <1>3
<1> HIDE DEF x, k, size
<1>5. pos + 2 <= size
  BY <1>4
<1> QED
  BY <1>5 DEF FullRecord, size

\* Whoever reads afterwards reads buffer after buffer, as long as none failed.
LEMMA ReadAfterwardsStep ==
    ASSUME Types, Placed, InBody, ReadAfterwards, [Next]_vars
    PROVE  ReadAfterwards'
<1> SUFFICES ASSUME ~online'
             PROVE  /\ ~closed' => reading' = "none" /\ pos' = 0 /\ got' = << >>
                    /\ closed' /\ failed' = {} =>
                        /\ Len(got') <= Len(blocks')
                        /\ \A i \in DOMAIN got' : BufferOf(got'[i]) = i /\ Len(got'[i]) = blocks'[i]
                        /\ reading' \in {"none", "header"} => pos' = Starts'[Len(got') + 1]
                        /\ reading' = "body" => BufferOf(bp') = Len(got') + 1
                        /\ reading' = "end" => Len(got') = Len(blocks')
  BY DEF ReadAfterwards, BufferOf
<1>1. ~online
  BY OlderBuffers
<1>2. CASE ~closed
  <2>1. reading = "none" /\ pos = 0 /\ got = << >>
    BY <1>1, <1>2 DEF ReadAfterwards
  <2>2. UNCHANGED readerVars
    BY <1>1, <1>2, WriterOrReader DEF MayRead
  <2>3. Starts'[1] = 0
    BY PlacedStep DEF Placed
  <2>4. Len(blocks') >= 0
    BY TypesStep, LenProperties DEF Types
  <2> QED
    BY <2>1, <2>2, <2>3, <2>4
<1>3. CASE closed
  <2>1. UNCHANGED writerVars
    BY <1>3, OlderBuffers
  <2>2. Starts' = Starts
    BY <2>1 DEF Starts
  <2> SUFFICES ASSUME failed = {}
               PROVE  /\ Len(got') <= Len(blocks)
                      /\ \A i \in DOMAIN got' : BufferOf(got'[i]) = i /\ Len(got'[i]) = blocks[i]
                      /\ reading' \in {"none", "header"} => pos' = Starts[Len(got') + 1]
                      /\ reading' = "body" => BufferOf(bp') = Len(got') + 1
                      /\ reading' = "end" => Len(got') = Len(blocks)
    BY <1>3, <2>1, <2>2
  <2>3. /\ Len(got) <= Len(blocks)
        /\ \A i \in DOMAIN got : BufferOf(got[i]) = i /\ Len(got[i]) = blocks[i]
        /\ reading \in {"none", "header"} => pos = Starts[Len(got) + 1]
        /\ reading = "body" => BufferOf(bp) = Len(got) + 1
        /\ reading = "end" => Len(got) = Len(blocks)
    BY <1>1, <1>3 DEF ReadAfterwards
  <2>4. Len(got) \in Nat /\ DOMAIN got = 1 .. Len(got) /\ Len(blocks) \in Nat
        /\ DOMAIN blocks = 1 .. Len(blocks)
    BY LenProperties DEF Types
  <2>5. CASE UNCHANGED readerVars
    BY <2>3, <2>5
  <2>6. CASE NextBuffer
    BY <2>3, <2>6 DEF NextBuffer
  <2>7. CASE SkipRecord \/ ReadHeader \/ HeaderShort
    <3>1. reading = "header" /\ got' = got
      BY <2>7 DEF SkipRecord, ReadHeader, HeaderShort
    <3>2. pos = Starts[Len(got) + 1]
      BY <2>3, <3>1
    <3>3. CASE Len(got) = Len(blocks) /\ ~FullRecord
      <4>1. HeaderShort
        BY <2>7, <3>3 DEF SkipRecord, ReadHeader
      <4> QED
        BY <2>3, <3>1, <3>3, <4>1 DEF HeaderShort
    <3>4. CASE FullRecord /\ IsHeader(Record) /\ Record[1][1] = Len(got) + 1
      <4>1. bp' = <<Record>> /\ reading' = "body"
        BY <2>7, <3>4 DEF SkipRecord, HeaderShort, ReadHeader
      <4>2. BufferOf(bp') = Len(got) + 1
        BY <3>4, <4>1 DEF BufferOf
      <4> QED
        BY <2>3, <3>1, <4>1, <4>2
    <3> QED
      BY <1>3, <2>3, <2>4, <3>2, <3>3, <3>4, AtNextBuffer
  <2>8. CASE reading = "body" /\ (ReadBody \/ BodyDone \/ BodyShort)
    <3>1. /\ BufferOf(bp) \in DOMAIN blocks /\ buffer_size = blocks[BufferOf(bp)]
          /\ Len(bp) \in 1 .. buffer_size /\ pos = from[BufferOf(bp)] + 2 * Len(bp)
          /\ BufferOf(bp) = Len(got) + 1
      BY <2>3, <2>8 DEF InBody
    <3>2. buffer_size \in Nat /\ from[BufferOf(bp)] \in Nat
      BY <3>1, PlaceFacts
    <3>3. CASE ReadBody
      <4>1. Len(bp) > 0 /\ FullRecord /\ bp' = Append(bp, Record) /\ got' = got /\ reading' = reading
        BY <3>1, <3>2, <3>3 DEF ReadBody
      <4>2. BufferOf(bp') = BufferOf(bp)
        BY <4>1, AppendRecord
      <4> QED
        BY <2>3, <2>8, <4>1, <4>2
    <3>4. CASE BodyDone
      <4>1. /\ HandOver /\ pos' = pos /\ Len(bp) = buffer_size
        BY <3>1, <3>2, <3>4 DEF BodyDone, AllRead
      <4>2. /\ Len(got') = Len(got) + 1
            /\ DOMAIN got' = 1 .. Len(got) + 1
            /\ \A i \in 1 .. Len(got) : got'[i] = got[i]
            /\ got'[Len(got) + 1] = bp /\ reading' = "none"
        BY <4>1, HandOverFacts
      <4>3. Starts[(Len(got) + 1) + 1] = from[BufferOf(bp)] + 2 * buffer_size
        BY <1>3, <3>1, AllThere
      <4>4. pos' = Starts[Len(got') + 1]
        BY <3>1, <4>1, <4>2, <4>3
      <4>5. \A i \in 1 .. Len(got) + 1 : i \in 1 .. Len(got) \/ i = Len(got) + 1
        BY <2>4
      <4>6. \A i \in DOMAIN got' : BufferOf(got'[i]) = i /\ Len(got'[i]) = blocks[i]
        BY <2>3, <2>4, <3>1, <4>1, <4>2, <4>5
      <4>7. Len(got') <= Len(blocks)
        BY <2>4, <3>1, <4>2
      <4> QED
        BY <4>2, <4>4, <4>6, <4>7
    <3>5. CASE BodyShort
      <4>1. Len(bp) < buffer_size /\ ~FullRecord
        BY <3>1, <3>2, <3>5 DEF BodyShort, AllRead
      <4> QED
        BY <1>3, <2>8, <4>1, BodyIsThere
    <3> QED
      BY <2>8, <3>3, <3>4, <3>5
  <2>9. Read => \/ NextBuffer \/ SkipRecord \/ ReadHeader \/ HeaderShort
                \/ reading = "body" /\ (ReadBody \/ BodyDone \/ BodyShort)
    BY DEF Read, ReadBody, BodyDone, BodyShort
  <2> QED
    BY <2>5, <2>6, <2>7, <2>8, <2>9, WriterOrReader
<1> QED
  BY <1>2, <1>3, TypesStep DEF Types


\* The reader loses sight of no buffer that is there and not displaced.
LEMMA AccountedStep ==
    ASSUME Types, Placed, InBody, ReadAfterwards, Accounted, [Next]_vars
    PROVE  Accounted'
<1> DEFINE Found(b) == \E i \in DOMAIN got : BufferOf(got[i]) = b /\ Whole(got[i])
           Reading(b) == reading = "body" /\ BufferOf(bp) = b /\ Intact(bp)
<1> SUFFICES ASSUME ~online', closed'
             PROVE  /\ reading' # "end" => pos' % 2 = 0 \/ pos' = Len(file')
                    /\ \A b \in DOMAIN blocks' \ failed' :
                          Displaced(b)' \/ Found(b)' \/ Ahead(b)' \/ Reading(b)'
  BY DEF Accounted
<1>1. ~online
  BY OlderBuffers
<1>2. pos \in Nat /\ Len(file) \in Nat /\ pos <= Len(file)
  BY PlaceFacts DEF Types
<1>3. CASE ~closed
  <2>1. CloseFile
    <3>1. Write \/ UNCHANGED vars
      BY <1>1, <1>3 DEF Next, Read, MayRead, NextBuffer, SkipRecord, ReadHeader, HeaderShort,
                        ReadBody, BodyDone, BodyShort
    <3> QED
      BY <1>3, <3>1 DEF Write, StartBuffer, WriteSome, WriteFails
  <2>2. reading = "none" /\ pos = 0
    BY <1>1, <1>3 DEF ReadAfterwards
  <2>3. reading' = "none" /\ pos' = 0 /\ blocks' = blocks /\ from' = from
    BY <2>1, <2>2 DEF CloseFile
  <2>4. \A b \in DOMAIN blocks : from[b] >= 0
    BY PlaceFacts
  <2>5. \A b \in DOMAIN blocks' \ failed' : Ahead(b)'
    BY <2>3, <2>4 DEF Ahead
  <2> QED
    BY <2>3, <2>5
<1>4. CASE closed
  <2>1. UNCHANGED writerVars
    BY <1>4, OlderBuffers
  <2>2. /\ reading # "end" => pos % 2 = 0 \/ pos = Len(file)
        /\ \A b \in DOMAIN blocks \ failed : Displaced(b) \/ Found(b) \/ Ahead(b) \/ Reading(b)
    BY <1>1, <1>4 DEF Accounted
  <2>3. \A b : Displaced(b)' <=> Displaced(b)
    BY <2>1 DEF Displaced
  <2>4. \A b \in DOMAIN blocks \ failed :
            /\ from[b] \in Nat /\ blocks[b] \in Nat /\ blocks[b] > 0
            /\ from[b] + 2 * blocks[b] <= Len(file)
    BY <1>4, AllThere
  <2>5. ASSUME got' = got, NEW b, Found(b)
        PROVE  Found(b)'
    BY <2>1, <2>5 DEF BufferOf, Whole, Intact
  <2>6. CASE UNCHANGED readerVars
    <3>1. \A b : (Found(b) => Found(b)') /\ (Ahead(b) => Ahead(b)') /\ (Reading(b) => Reading(b)')
      BY <2>1, <2>5, <2>6 DEF Ahead, Intact, BufferOf
    <3> QED
      BY <2>1, <2>2, <2>3, <2>6, <3>1
  <2>7. CASE NextBuffer
    <3>1. reading = "none" /\ reading' = "header" /\ pos' = pos /\ got' = got
      BY <2>7 DEF NextBuffer
    <3>2. \A b : (Ahead(b) => Ahead(b)') /\ ~Reading(b)
      BY <2>1, <3>1 DEF Ahead
    <3> QED
      BY <2>1, <2>2, <2>3, <2>5, <3>1, <3>2
  <2>8. CASE SkipRecord
    <3>1. /\ reading = "header" /\ reading' = "header" /\ pos' = pos + 2 /\ got' = got
          /\ FullRecord /\ ~IsHeader(Record)
      BY <2>8 DEF SkipRecord
    <3>2. pos % 2 = 0 /\ (pos + 2) % 2 = 0
      BY <1>2, <2>2, <3>1 DEF FullRecord
    <3>3. ASSUME NEW b \in DOMAIN blocks \ failed, ~Displaced(b), Ahead(b)
          PROVE  Ahead(b)'
      <4>1. pos <= from[b]
        BY <3>1, <3>3 DEF Ahead
      <4>2. from[b] # pos
        BY <3>1, FirstRecord
      <4>3. from[b] % 2 # 1
        BY <3>3 DEF Displaced
      <4>4. pos + 2 <= from[b]
        BY <1>2, <2>4, <3>2, <4>1, <4>2, <4>3
      <4> QED
        BY <2>1, <3>1, <4>4 DEF Ahead
    <3> QED
      BY <2>1, <2>2, <2>3, <2>5, <3>1, <3>2, <3>3
  <2>9. CASE ReadHeader
    <3>1. /\ reading = "header" /\ reading' = "body" /\ pos' = pos + 2 /\ got' = got
          /\ FullRecord /\ IsHeader(Record) /\ bp' = <<Record>>
          /\ buffer_size' = blocks[Record[1][1]]
      BY <2>9 DEF ReadHeader
    <3> DEFINE c == Record[1][1]
    <3>2. c \in DOMAIN blocks /\ from[c] = pos
      BY <3>1, HeaderBegins
    <3>3. BufferOf(bp') = c
      BY <3>1 DEF BufferOf
    <3>4. (pos + 2) % 2 = 0
      BY <1>2, <2>2, <3>1 DEF FullRecord
    <3>5. ASSUME NEW b \in DOMAIN blocks \ failed, ~Displaced(b), Ahead(b)
          PROVE  Ahead(b)' \/ Reading(b)'
      <4>1. pos <= from[b]
        BY <3>1, <3>5 DEF Ahead
      <4>2. CASE from[b] = pos
        <5>1. Record = BlockOf(b, 1) /\ c = b
          BY <3>1, <4>2, FirstRecord
        <5>2. DOMAIN bp' = {1} /\ bp'[1] = Record
          BY <3>1
        <5>3. Intact(bp')
          BY <3>3, <5>1, <5>2 DEF Intact
        <5>4. Intact(bp)'
          BY <5>3 DEF Intact, BufferOf, BlockOf
        <5>5. BufferOf(bp)' = b
          BY <3>3, <5>1 DEF BufferOf
        <5> QED
          BY <3>1, <5>4, <5>5
      <4>3. CASE from[b] # pos
        <5>1. from[c] + 2 * blocks[c] <= from[b]
          BY <1>2, <2>4, <3>2, <3>5, <4>1, <4>3, ClearOf
        <5>2. BufferOf(bp)' = c
          BY <3>3 DEF BufferOf
        <5>3. /\ reading' = "body" /\ from' = from /\ buffer_size' = blocks[c]
              /\ from'[BufferOf(bp)'] + 2 * buffer_size' <= from'[b]
          BY <2>1, <3>1, <5>1, <5>2
        <5> QED
          BY <5>3 DEF Ahead
      <4> QED
        BY <4>2, <4>3
    <3> QED
      BY <2>1, <2>2, <2>3, <2>5, <3>1, <3>4, <3>5
  <2>10. CASE HeaderShort
    <3>1. /\ reading = "header" /\ reading' = "end" /\ got' = got /\ ~FullRecord
      BY <2>10 DEF HeaderShort
    <3>2. ASSUME NEW b \in DOMAIN blocks \ failed
          PROVE  ~Ahead(b) /\ ~Reading(b)
      <4>1. ~(pos <= from[b])
        BY <1>2, <2>4, <3>1 DEF FullRecord
      <4> QED
        BY <3>1, <4>1 DEF Ahead
    <3> QED
      BY <2>1, <2>2, <2>3, <2>5, <3>1, <3>2
  <2>11. CASE reading = "body" /\ (ReadBody \/ BodyDone \/ BodyShort)
    <3> DEFINE c == BufferOf(bp)
    <3>1. /\ c \in DOMAIN blocks /\ buffer_size = blocks[c]
          /\ Len(bp) \in 1 .. buffer_size /\ pos = from[c] + 2 * Len(bp)
      BY <2>11 DEF InBody
    <3>2. buffer_size \in Nat /\ from[c] \in Nat /\ Len(bp) \in Nat /\ Len(bp) > 0
          /\ Len(bp) <= buffer_size
      BY <3>1, PlaceFacts
    <3>3. \A b : Ahead(b) <=> from[c] + 2 * buffer_size <= from[b]
      BY <2>11 DEF Ahead
    <3>4. CASE ReadBody
      <4>1. /\ FullRecord /\ Len(bp) < buffer_size /\ reading' = reading /\ pos' = pos + 2
            /\ got' = got /\ bp' = Append(bp, Record) /\ buffer_size' = buffer_size
        BY <3>2, <3>4 DEF ReadBody, AllRead
      <4>2. BufferOf(bp)' = c
        <5>1. BufferOf(Append(bp, Record)) = BufferOf(bp)
          BY <3>2, <4>1, AppendRecord
        <5> QED
          BY <4>1, <5>1 DEF BufferOf
      <4>3. (pos + 2) % 2 = 0
        BY <1>2, <2>2, <2>11, <4>1 DEF FullRecord
      <4>4. ASSUME NEW b, Ahead(b)
            PROVE  Ahead(b)'
        <5>1. from[c] + 2 * buffer_size <= from[b]
          BY <3>3, <4>4
        <5>2. /\ reading' = "body" /\ from' = from
              /\ from'[BufferOf(bp)'] + 2 * buffer_size' <= from'[b]
          BY <2>1, <2>11, <4>1, <4>2, <5>1
        <5> QED
          BY <5>2 DEF Ahead
      <4>5. ASSUME NEW b \in DOMAIN blocks \ failed, Reading(b)
            PROVE  Reading(b)'
        <5>1. Intact(Append(bp, Record))
          BY <2>11, <4>1, <4>5, NextRecord
        <5>2. Intact(bp)'
          BY <4>1, <5>1 DEF Intact, BufferOf, BlockOf
        <5> QED
          BY <2>11, <4>1, <4>2, <4>5, <5>2
      <4> QED
        BY <2>1, <2>2, <2>3, <2>5, <4>1, <4>3, <4>4, <4>5
    <3>5. CASE BodyDone
      <4>1. HandOver /\ pos' = pos /\ Len(bp) = buffer_size
        BY <3>2, <3>5 DEF BodyDone, AllRead
      <4>2. /\ DOMAIN got = 1 .. Len(got) /\ DOMAIN got' = 1 .. Len(got) + 1 /\ Len(got) \in Nat
            /\ \A i \in 1 .. Len(got) : got'[i] = got[i]
            /\ got'[Len(got) + 1] = bp /\ reading' = "none"
        BY <4>1, HandOverFacts
      <4>3. pos % 2 = 0 \/ pos = Len(file)
        BY <2>2, <2>11
      <4>4. ASSUME NEW b, Ahead(b)
            PROVE  Ahead(b)'
        <5>1. pos' <= from'[b]
          BY <2>1, <3>1, <3>3, <4>1, <4>4
        <5> QED
          BY <4>2, <5>1 DEF Ahead
      <4>5. ASSUME NEW b, Found(b)
            PROVE  Found(b)'
        <5>1. PICK i \in DOMAIN got : BufferOf(got[i]) = b /\ Whole(got[i])
          BY <4>5
        <5>2. i \in DOMAIN got' /\ got'[i] = got[i]
          BY <4>2
        <5>3. BufferOf(got[i])' = b /\ Whole(got[i])'
          BY <2>1, <5>1, <5>2 DEF BufferOf, Whole, Intact, BlockOf
        <5> QED
          BY <5>2, <5>3
      <4>6. ASSUME NEW b \in DOMAIN blocks \ failed, Reading(b)
            PROVE  Found(b)'
        <5>1. Len(got) + 1 \in DOMAIN got' /\ got'[Len(got) + 1] = bp
          BY <4>2
        <5>2. BufferOf(bp) = b /\ Intact(bp) /\ Len(bp) = blocks[b]
          BY <3>1, <4>1, <4>6
        <5>3. \E i \in DOMAIN got' : got'[i] = bp
          BY <5>1
        <5>4. PICK i \in DOMAIN got' : got'[i] = bp
          BY <5>3
        <5>5. BufferOf(got[i])' = b /\ Whole(got[i])'
          BY <2>1, <5>2, <5>4 DEF BufferOf, Whole, Intact, BlockOf
        <5> QED
          BY <5>4, <5>5
      <4> QED
        BY <2>1, <2>2, <2>3, <4>1, <4>3, <4>4, <4>5, <4>6
    <3>6. CASE BodyShort
      <4>1. HandOver /\ pos' = Len(file) /\ ~FullRecord /\ Len(bp) < buffer_size
        BY <3>2, <3>6 DEF BodyShort, AllRead, ReadShort
      <4>2. /\ DOMAIN got = 1 .. Len(got) /\ DOMAIN got' = 1 .. Len(got) + 1 /\ Len(got) \in Nat
            /\ \A i \in 1 .. Len(got) : got'[i] = got[i]
        BY <4>1, HandOverFacts
      <4>3. from[c] + 2 * buffer_size > Len(file)
        BY <1>2, <3>1, <3>2, <4>1 DEF FullRecord
      <4>4. ASSUME NEW b \in DOMAIN blocks \ failed
            PROVE  ~Ahead(b) /\ ~Reading(b)
        <5>1. ~Ahead(b)
          <6>1. /\ from[b] \in Nat /\ blocks[b] \in Nat /\ blocks[b] > 0
                /\ from[b] + 2 * blocks[b] <= Len(file)
            BY <2>4
          <6>2. from[c] \in Nat /\ buffer_size \in Nat
            BY <3>2
          <6>3. ~(from[c] + 2 * buffer_size <= from[b])
            BY <1>2, <4>3, <6>1, <6>2
          <6> QED
            BY <3>3, <6>3
        <5>2. ~Reading(b)
          BY <1>4, <2>11, <4>1, BodyIsThere
        <5> QED
          BY <5>1, <5>2
      <4>5. ASSUME NEW b, Found(b)
            PROVE  Found(b)'
        <5>1. PICK i \in DOMAIN got : BufferOf(got[i]) = b /\ Whole(got[i])
          BY <4>5
        <5>2. i \in DOMAIN got' /\ got'[i] = got[i]
          BY <4>2
        <5>3. BufferOf(got[i])' = b /\ Whole(got[i])'
          BY <2>1, <5>1, <5>2 DEF BufferOf, Whole, Intact, BlockOf
        <5> QED
          BY <5>2, <5>3
      <4>6. file' = file
        BY <2>1
      <4> QED
        BY <2>1, <2>2, <2>3, <4>1, <4>4, <4>5, <4>6
    <3> QED
      BY <2>11, <3>4, <3>5, <3>6
  <2>12. Read => \/ NextBuffer \/ SkipRecord \/ ReadHeader \/ HeaderShort
                 \/ reading = "body" /\ (ReadBody \/ BodyDone \/ BodyShort)
    BY DEF Read, ReadBody, BodyDone, BodyShort
  <2> QED
    BY <2>6, <2>7, <2>8, <2>9, <2>10, <2>11, <2>12, WriterOrReader
<1> QED
  BY <1>3, <1>4, TypesStep DEF Types


-----------------------------------------------------------------------------
(* The theorems                                                              *)

\* The invariant: where the buffers lie, where the reader is among them, what
\* it has and what it has before it.
THEOREM IterInvariance == Spec => []IterInv
<1>1. Init => IterInv
  <2> SUFFICES ASSUME Init PROVE IterInv
    OBVIOUS
  <2>1. /\ online \in BOOLEAN /\ file = << >> /\ blocks = << >> /\ from = << >>
        /\ nleft = 0 /\ failed = {} /\ closed = FALSE
        /\ pos = 0 /\ reading = "none" /\ buffer_size = 0 /\ bp = << >> /\ got = << >>
    BY DEF Init
  <2>2. Types
    <3>1. \A S : << >> \in Seq(S)
      BY EmptySeq
    <3>2. Len(blocks) = 0 /\ Len(file) = 0 /\ Len(from) = 0
      BY <2>1
    <3>3. pos \in 0 .. Len(file) /\ nleft \in Nat /\ buffer_size \in Nat
      BY <2>1, <3>2
    <3> QED
      BY <2>1, <3>1, <3>2, <3>3 DEF Types
  <2>3. Placed
    <3>1. Len(blocks) = 0 /\ Len(file) = 0 /\ DOMAIN blocks = {} /\ DOMAIN file = {}
      BY <2>1
    <3>2. Starts[1] = 0
      BY <2>1, <3>1 DEF Starts
    <3>3. \A b \in 1 .. Len(blocks) + 1 : b = 1
      BY <3>1
    <3> QED
      BY <2>1, <3>1, <3>2, <3>3 DEF Placed
  <2>4. InBody
    BY <2>1 DEF InBody
  <2>5. ReadInOrder
    BY <2>1 DEF ReadInOrder
  <2>6. ReadAfterwards /\ Accounted
    BY <2>1 DEF ReadAfterwards, Accounted
  <2> QED
    BY <2>2, <2>3, <2>4, <2>5, <2>6 DEF IterInv
<1>2. IterInv /\ [Next]_vars => IterInv'
  <2> SUFFICES ASSUME IterInv, [Next]_vars PROVE IterInv'
    OBVIOUS
  <2> USE DEF IterInv
  <2> QED
    BY TypesStep, PlacedStep, InBodyStep, ReadInOrderStep, ReadAfterwardsStep, AccountedStep
<1> QED
  BY <1>1, <1>2, PTL DEF Spec

\* fileEventiterator gives back what writen() wrote: the buffers in order, none
\* twice, of each the records it has; and of a closed file every buffer whole.
THEOREM ReadBack == Spec => []WrittenIsRead
<1>1. IterInv => WrittenIsRead
  <2> SUFFICES ASSUME IterInv, failed = {}
               PROVE  /\ \A i \in DOMAIN got : Intact(got[i])
                      /\ \A i \in 2 .. Len(got) : BufferOf(got[i - 1]) < BufferOf(got[i])
                      /\ ~online /\ reading = "end" =>
                             Len(got) = Len(blocks) /\ \A i \in DOMAIN got : Whole(got[i])
    BY DEF WrittenIsRead
  <2>1. /\ \A i \in DOMAIN got : Intact(got[i])
        /\ \A i \in 2 .. Len(got) : BufferOf(got[i - 1]) < BufferOf(got[i])
    BY DEF IterInv, ReadInOrder
  <2>2. ASSUME ~online, reading = "end"
        PROVE  Len(got) = Len(blocks) /\ \A i \in DOMAIN got : Whole(got[i])
    <3>1. closed
      BY <2>2 DEF IterInv, ReadAfterwards
    <3>2. /\ Len(got) = Len(blocks)
          /\ \A i \in DOMAIN got : BufferOf(got[i]) = i /\ Len(got[i]) = blocks[i]
      BY <2>2, <3>1 DEF IterInv, ReadAfterwards
    <3> QED
      BY <2>1, <3>2 DEF Whole
  <2> QED
    BY <2>1, <2>2
<1> QED
  BY <1>1, IterInvariance, PTL

\* A write() that fails costs the reader of the closed file the buffer it was
\* writing and those it displaces; it finds every other one, whole.
THEOREM LocalDamage == Spec => []DamageIsLocal
<1>1. IterInv => DamageIsLocal
  <2> SUFFICES ASSUME IterInv, ~online, reading = "end", NEW b \in DOMAIN blocks \ failed
               PROVE  \/ Displaced(b)
                      \/ \E i \in DOMAIN got : BufferOf(got[i]) = b /\ Whole(got[i])
    BY DEF DamageIsLocal
  <2>1. closed
    BY DEF IterInv, ReadAfterwards
  <2>2. \/ Displaced(b)
        \/ \E i \in DOMAIN got : BufferOf(got[i]) = b /\ Whole(got[i])
        \/ Ahead(b)
    BY <2>1 DEF IterInv, Accounted
  <2> QED
    BY <2>2 DEF Ahead
<1> QED
  BY <1>1, IterInvariance, PTL


=============================================================================
