-------------------------- MODULE StreamBuffer_proofs --------------------------
(***************************************************************************)
(* Proofs about StreamBuffer, for every initial size, shrink threshold,    *)
(* set of chunks and bound on the unread bytes.                            *)
(***************************************************************************)
EXTENDS StreamBuffer, SequenceTheorems, TLAPS

\* The part of a sequence after position m, up to position n.
LEMMA SubSeqFacts ==
  ASSUME NEW S, NEW s \in Seq(S), NEW n \in 0..Len(s), NEW m \in 0..n
  PROVE  /\ SubSeq(s, m + 1, n) \in Seq(S)
         /\ Len(SubSeq(s, m + 1, n)) = n - m
         /\ \A i \in 1..(n - m) : SubSeq(s, m + 1, n)[i] = s[m + i]
  OBVIOUS

\* Writing into a buffer, as insert() and readv do, gives a buffer again, long
\* enough for what was there and for what was written.
LEMMA OverlayType ==
  ASSUME NEW buf \in Seq(Bytes), NEW pos \in Nat, NEW data \in Seq(Bytes),
         pos <= Len(buf)
  PROVE  /\ Overlay(buf, pos, data) \in Seq(Bytes)
         /\ Len(Overlay(buf, pos, data)) = Larger(Len(buf), pos + Len(data))
         /\ \A i \in 1..Len(Overlay(buf, pos, data)) :
              Overlay(buf, pos, data)[i] =
                IF pos < i /\ i <= pos + Len(data) THEN data[i - pos]
                ELSE buf[i]
<1> DEFINE n == Larger(Len(buf), pos + Len(data))
<1>1. n \in Nat
  BY DEF Larger
<1>2. \A i \in 1..n : ~(pos < i /\ i <= pos + Len(data)) => i <= Len(buf)
  BY DEF Larger
<1>3. \A i \in 1..n :
        (IF pos < i /\ i <= pos + Len(data) THEN data[i - pos]
         ELSE IF i <= Len(buf) THEN buf[i] ELSE Zero) \in Bytes
  BY <1>1, <1>2
<1>4. Overlay(buf, pos, data) \in [1..n -> Bytes]
  BY <1>3 DEF Overlay
<1>5. Overlay(buf, pos, data) \in Seq(Bytes) /\ Len(Overlay(buf, pos, data)) = n
  BY <1>1, <1>4
<1>6. \A i \in 1..n : Overlay(buf, pos, data)[i] =
        IF pos < i /\ i <= pos + Len(data) THEN data[i - pos] ELSE buf[i]
  BY <1>1, <1>2 DEF Overlay
<1> QED
  BY <1>5, <1>6

\* vector::resize gives a buffer of the requested length.
LEMMA ResizeType ==
  ASSUME NEW buf \in Seq(Bytes), NEW n \in Nat
  PROVE  Resize(buf, n) \in Seq(Bytes) /\ Len(Resize(buf, n)) = n
<1>1. Zero \in Bytes
  BY BufferAssumption
<1>2. Resize(buf, n) \in [1..n -> Bytes]
  BY <1>1 DEF Resize
<1> QED
  BY <1>2

\* The inductive invariant: the positions are ordered, the dead head fills at
\* most half of the buffer, and both the unread bytes and the capacity are
\* bounded.  The bound on the capacity needs the one on the head: a growing
\* insert() makes the capacity reader_ plus the unread bytes.
Inv ==
  /\ TypeOK
  /\ HeadAtMostHalf
  /\ CapacityBounded
  /\ size <= MaxUnread

\* The two parts of a readv are chunks that add up to the data received.
LEMMA ReadvParts ==
  ASSUME TypeOK, NEW data \in Seq(Bytes)
  PROVE  /\ InPlace(data) \in Seq(Bytes) /\ Overflow(data) \in Seq(Bytes)
         /\ Len(InPlace(data)) + Len(Overflow(data)) = Len(data)
         /\ (writer_ + Len(InPlace(data))) + Len(Overflow(data))
              = writer_ + Len(data)
         /\ Len(InPlace(data)) <= space
         /\ Len(Overflow(data)) > 0 => Len(InPlace(data)) = space
         /\ \A i \in 1..Len(InPlace(data)) : InPlace(data)[i] = data[i]
         /\ \A i \in 1..Len(Overflow(data)) :
              Overflow(data)[i] = data[Len(InPlace(data)) + i]
<1> DEFINE m == IF Len(data) > space THEN space ELSE Len(data)
<1>1. m \in 0..Len(data) /\ space \in Nat /\ m <= space
      /\ (Len(data) - m > 0 => m = space)
  BY DEF TypeOK, space
<1>2. /\ InPlace(data) \in Seq(Bytes) /\ Len(InPlace(data)) = m
      /\ \A i \in 1..m : InPlace(data)[i] = data[i]
  BY <1>1, SubSeqFacts, InPlace(data) = SubSeq(data, 0 + 1, m) DEF InPlace
<1>3. /\ Overflow(data) \in Seq(Bytes) /\ Len(Overflow(data)) = Len(data) - m
      /\ \A i \in 1..(Len(data) - m) : Overflow(data)[i] = data[m + i]
  <2>1. Overflow(data) = SubSeq(data, m + 1, Len(data))
    BY <1>2 DEF Overflow
  <2>2. Len(data) \in 0..Len(data)
    OBVIOUS
  <2>3. m \in 0..Len(data)
    BY <1>1
  <2> HIDE DEF m
  <2> QED
    BY <2>1, <2>2, <2>3, SubSeqFacts
<1>4. (writer_ + m) + (Len(data) - m) = writer_ + Len(data)
  <2> HIDE DEF m
  <2> QED
    BY <1>1 DEF TypeOK
<1> HIDE DEF m
<1> QED
  BY <1>1, <1>2, <1>3, <1>4

\* Any write at writer_ that respects the bound on the unread bytes keeps the
\* invariant; insert() and stream_recv are such writes.
LEMMA WriteKeepsInv ==
  ASSUME Inv, NEW len \in Nat, size + len <= MaxUnread,
         buffer_' \in Seq(Bytes), writer_' = writer_ + len,
         Len(buffer_') = Larger(Len(buffer_), writer_ + len),
         UNCHANGED <<reader_, shrink_count_>>
  PROVE  Inv'
  BY BufferAssumption
     DEF Inv, TypeOK, HeadAtMostHalf, CapacityBounded, Larger, size

\* Each operation of the buffer keeps the invariant.
LEMMA InvInductive == Inv /\ [Next]_vars => Inv'
<1> SUFFICES ASSUME Inv, [Next]_vars PROVE Inv'
  OBVIOUS
<1> USE BufferAssumption
<1>1. ASSUME NEW data \in Chunks, insert(data) PROVE Inv'
  <2>1. data \in Seq(Bytes)
    OBVIOUS
  <2>2. buffer_ \in Seq(Bytes) /\ writer_ \in Nat /\ writer_ <= Len(buffer_)
    BY DEF Inv, TypeOK
  <2>3. buffer_' \in Seq(Bytes)
        /\ Len(buffer_') = Larger(Len(buffer_), writer_ + Len(data))
    BY <1>1, <2>1, <2>2, OverlayType DEF insert
  <2> QED
    BY <1>1, <2>1, <2>3, WriteKeepsInv DEF insert
<1>2. ASSUME NEW data \in Chunks, stream_recv(data) PROVE Inv'
  <2> DEFINE filled == Overlay(buffer_, writer_, InPlace(data))
             pushed == writer_ + Len(InPlace(data))
  <2>1. data \in Seq(Bytes) /\ TypeOK
    BY DEF Inv
  <2>2. buffer_ \in Seq(Bytes) /\ writer_ \in Nat /\ writer_ <= Len(buffer_)
        /\ space \in Nat /\ writer_ + space = Len(buffer_)
    BY DEF Inv, TypeOK, space
  <2>3. /\ InPlace(data) \in Seq(Bytes) /\ Overflow(data) \in Seq(Bytes)
        /\ Len(InPlace(data)) + Len(Overflow(data)) = Len(data)
        /\ Len(InPlace(data)) <= space
    BY <2>1, ReadvParts
  <2>4. filled \in Seq(Bytes) /\ Len(filled) = Len(buffer_)
    BY <2>2, <2>3, OverlayType DEF Larger
  <2>5. pushed \in Nat /\ pushed <= Len(filled)
    BY <2>2, <2>3, <2>4
  <2>6. buffer_' = Overlay(filled, pushed, Overflow(data))
        /\ writer_' = pushed + Len(Overflow(data))
    BY <1>2 DEF stream_recv
  <2>7. buffer_' \in Seq(Bytes)
        /\ Len(buffer_') = Larger(Len(filled), pushed + Len(Overflow(data)))
    BY <2>3, <2>4, <2>5, <2>6, OverlayType
  <2>8. writer_' = writer_ + Len(data)
        /\ Len(buffer_') = Larger(Len(buffer_), writer_ + Len(data))
    <3>1. pushed + Len(Overflow(data)) = writer_ + Len(data)
      BY <2>1, ReadvParts
    <3> QED
      BY <2>4, <2>6, <2>7, <3>1
  <2>9. size + Len(data) <= MaxUnread /\ UNCHANGED <<reader_, shrink_count_>>
    BY <1>2 DEF stream_recv
  <2> QED
    BY <2>1, <2>7, <2>8, <2>9, WriteKeepsInv
<1>3. ASSUME NEW n \in 0..size, pop(n) PROVE Inv'
  <2> DEFINE read == reader_ + n
  <2>1. read \in Nat /\ read <= writer_ /\ reader_ <= read
    BY DEF Inv, TypeOK, size
  <2>2. CASE read >= writer_
    <3>1. shrink /\ reader_' = 0 /\ writer_' = 0
      BY <1>3, <2>2 DEF pop
    <3>2. CASE Len(buffer_) <= initial_size \/ shrink_count_ < kShrinkThreshold
      BY <3>1, <3>2 DEF shrink, Inv, TypeOK, HeadAtMostHalf, CapacityBounded,
                        Larger, size
    <3>3. CASE Len(buffer_) > initial_size /\ ~(shrink_count_ < kShrinkThreshold)
      <4> DEFINE len == Larger(Len(buffer_) \div 2, initial_size)
      <4>1. len \in Nat /\ initial_size <= len /\ len <= Len(buffer_)
        BY <3>3 DEF Inv, TypeOK, Larger
      <4>2. shrink_count_' = 0 /\ buffer_' = Resize(buffer_, len)
        BY <3>1, <3>3 DEF shrink, Inv, TypeOK
      <4>3. buffer_' \in Seq(Bytes) /\ Len(buffer_') = len
        BY <4>1, <4>2, ResizeType DEF Inv, TypeOK
      <4> HIDE DEF len
      <4> QED
        BY <3>1, <4>1, <4>2, <4>3
           DEF Inv, TypeOK, HeadAtMostHalf, CapacityBounded, Larger, size
    <3> QED
      BY <3>2, <3>3 DEF Inv, TypeOK
  <2>3. CASE read < writer_ /\ read > Len(buffer_) \div 2
    <3> DEFINE live == SubSeq(buffer_, read + 1, writer_)
    <3>1. compact(read) /\ UNCHANGED shrink_count_
      BY <1>3, <2>1, <2>3 DEF pop, Inv, TypeOK
    <3>2. live \in Seq(Bytes) /\ Len(live) = writer_ - read
      BY <2>1, <2>3, SubSeqFacts DEF Inv, TypeOK
    <3>3. buffer_' \in Seq(Bytes) /\ Len(buffer_') = Larger(Len(buffer_), Len(live))
      <4>1. buffer_ \in Seq(Bytes) /\ 0 \in Nat /\ 0 <= Len(buffer_)
        BY DEF Inv, TypeOK
      <4>2. buffer_' = Overlay(buffer_, 0, live) /\ 0 + Len(live) = Len(live)
        BY <3>1, <3>2 DEF compact
      <4> HIDE DEF live
      <4> QED
        BY <3>2, <4>1, <4>2, OverlayType
    <3> HIDE DEF live
    <3> QED
      BY <2>1, <2>3, <3>1, <3>2, <3>3
         DEF compact, Inv, TypeOK, HeadAtMostHalf, CapacityBounded, Larger, size
  <2>4. CASE read < writer_ /\ ~(read > Len(buffer_) \div 2)
    <3>1. reader_' = read /\ UNCHANGED <<buffer_, writer_, shrink_count_>>
      BY <1>3, <2>1, <2>4 DEF pop, Inv, TypeOK
    <3> QED
      BY <2>1, <2>4, <3>1
         DEF Inv, TypeOK, HeadAtMostHalf, CapacityBounded, Larger, size
  <2> QED
    BY <2>1, <2>2, <2>3, <2>4 DEF Inv, TypeOK
<1>4. CASE clear
  BY <1>4 DEF clear, Inv, TypeOK, HeadAtMostHalf, CapacityBounded, Larger, size
<1>5. CASE UNCHANGED vars
  BY <1>5 DEF vars, Inv, TypeOK, HeadAtMostHalf, CapacityBounded, Larger, size
<1> QED
  BY <1>1, <1>2, <1>3, <1>4, <1>5 DEF Next

\* The constructor of StreamBuffer establishes the inductive invariant.
LEMMA InitInv == Init => Inv
<1> SUFFICES ASSUME Init PROVE Inv
  OBVIOUS
<1>1. buffer_ \in [1..initial_size -> Bytes] /\ initial_size \in Nat
  BY BufferAssumption DEF Init
<1>2. buffer_ \in Seq(Bytes) /\ Len(buffer_) = initial_size
  BY <1>1
<1> QED
  BY <1>2, BufferAssumption
     DEF Init, Inv, TypeOK, HeadAtMostHalf, CapacityBounded, Larger, size

\* Every sequence of buffer operations keeps the inductive invariant.
LEMMA SpecInv == Spec => []Inv
  BY InitInv, InvInductive, PTL DEF Spec

\* reader_ and writer_ never cross and never leave the vector, for every
\* sequence of insert, stream_recv, pop and clear.
THEOREM TypeCorrect == Spec => []TypeOK
<1>1. Inv => TypeOK
  BY DEF Inv
<1> QED
  BY <1>1, SpecInv, PTL

\* The capacity never exceeds twice the largest number of unread bytes (or the
\* initial size), whatever the workload: the buffer cannot creep.
THEOREM CapacityIsBounded == Spec => []CapacityBounded
<1>1. Inv => CapacityBounded
  BY DEF Inv
<1> QED
  BY <1>1, SpecInv, PTL

-------------------------------------------------------------------------------
\* The part of a buffer between two positions is a sequence of bytes.
LEMMA WindowFacts ==
  ASSUME NEW buf \in Seq(Bytes), NEW r \in Nat, NEW w \in Nat,
         r <= w, w <= Len(buf)
  PROVE  /\ Window(buf, r, w) \in Seq(Bytes) /\ Len(Window(buf, r, w)) = w - r
         /\ \A i \in 1..(w - r) : Window(buf, r, w)[i] = buf[r + i]
<1>1. w - r \in Nat
  OBVIOUS
<1>2. Window(buf, r, w) \in [1..(w - r) -> Bytes]
  BY DEF Window
<1> QED
  BY <1>1, <1>2 DEF Window

\* The concatenation of two sequences of bytes.
LEMMA ConcatFacts ==
  ASSUME NEW s \in Seq(Bytes), NEW t \in Seq(Bytes)
  PROVE  /\ s \o t \in Seq(Bytes) /\ Len(s \o t) = Len(s) + Len(t)
         /\ \A i \in 1..(Len(s) + Len(t)) :
              (s \o t)[i] = IF i <= Len(s) THEN s[i] ELSE t[i - Len(s)]
  BY ConcatProperties

\* Writing data at writer_ and leaving the bytes before it alone appends the
\* data to the unread bytes.
LEMMA WriteAppends ==
  ASSUME TypeOK, TypeOK', NEW data \in Seq(Bytes),
         reader_' = reader_, writer_' = writer_ + Len(data),
         \A i \in 1..writer_ : buffer_'[i] = buffer_[i],
         \A i \in 1..Len(data) : buffer_'[writer_ + i] = data[i]
  PROVE  Unread' = Unread \o data
<1> DEFINE old == Window(buffer_, reader_, writer_)
           all == Window(buffer_', reader_, writer_')
           len == writer_' - reader_
<1>1. /\ old \in Seq(Bytes) /\ Len(old) = writer_ - reader_
      /\ \A i \in 1..(writer_ - reader_) : old[i] = buffer_[reader_ + i]
  BY ZenonT(30), WindowFacts DEF TypeOK
<1>2. /\ all \in Seq(Bytes) /\ Len(all) = writer_' - reader_
      /\ \A i \in 1..(writer_' - reader_) : all[i] = buffer_'[reader_ + i]
  <2>1. buffer_' \in Seq(Bytes) /\ reader_ \in Nat /\ writer_' \in Nat
        /\ reader_ <= writer_' /\ writer_' <= Len(buffer_')
    BY DEF TypeOK
  <2> QED
    BY <2>1, WindowFacts
<1>3. Unread = old /\ Unread' = all
  BY DEF Unread
<1> HIDE DEF old, all
<1>4. /\ old \o data \in Seq(Bytes) /\ Len(old \o data) = Len(old) + Len(data)
      /\ \A i \in 1..(Len(old) + Len(data)) :
           (old \o data)[i] = IF i <= Len(old) THEN old[i]
                              ELSE data[i - Len(old)]
  BY <1>1, ConcatFacts
<1>5. Len(old) \in Nat /\ Len(data) \in Nat /\ reader_ + Len(old) = writer_
      /\ len = Len(old) + Len(data) /\ reader_ \in Nat /\ writer_ \in Nat
  BY <1>1 DEF TypeOK
<1>6. ASSUME NEW i \in 1..len PROVE all[i] = (old \o data)[i]
  <2>0. i \in 1..(Len(old) + Len(data))
    BY <1>5
  <2>1. CASE i <= Len(old)
    <3>1. i \in 1..(writer_ - reader_) /\ reader_ + i \in 1..writer_
      BY <1>1, <1>5, <2>1
    <3> QED
      BY <1>1, <1>2, <1>4, <2>0, <2>1, <3>1
  <2>2. CASE ~(i <= Len(old))
    <3> DEFINE j == i - Len(old)
    <3>1. j \in 1..Len(data) /\ writer_ + j = reader_ + i
      <4> DEFINE a == Len(old)
                 b == Len(data)
      <4>1. /\ a \in Nat /\ b \in Nat /\ reader_ + a = writer_
            /\ reader_ \in Nat /\ i \in 1..(a + b) /\ ~(i <= a)
        BY <1>5, <2>0, <2>2
      <4> HIDE DEF a, b
      <4>2. i - a \in 1..b /\ writer_ + (i - a) = reader_ + i
        BY <4>1
      <4> QED
        BY <4>2 DEF a, b
    <3>2. (old \o data)[i] = data[j]
      BY <1>4, <2>0, <2>2
    <3> HIDE DEF j
    <3>3. buffer_'[reader_ + i] = data[j]
      BY <3>1
    <3> QED
      BY <1>2, <3>2, <3>3
  <2> QED
    BY <2>1, <2>2
<1>7. Len(all) = Len(old \o data) /\ Len(all) = len
  BY <1>2, <1>4, <1>5
<1> HIDE DEF len
<1>8. all = old \o data
  BY <1>2, <1>4, <1>6, <1>7, SeqEqual
<1> QED
  BY <1>3, <1>8

\* What Overlay puts where: the old bytes before pos, the data after it.
LEMMA OverlayParts ==
  ASSUME NEW buf \in Seq(Bytes), NEW pos \in Nat, NEW data \in Seq(Bytes),
         pos <= Len(buf)
  PROVE  /\ \A i \in 1..pos : Overlay(buf, pos, data)[i] = buf[i]
         /\ \A i \in 1..Len(data) : Overlay(buf, pos, data)[pos + i] = data[i]
<1> DEFINE new == Overlay(buf, pos, data)
<1>1. /\ Len(new) = Larger(Len(buf), pos + Len(data))
      /\ \A i \in 1..Len(new) :
           new[i] = IF pos < i /\ i <= pos + Len(data) THEN data[i - pos]
                    ELSE buf[i]
  BY OverlayType
<1>2. \A i \in 1..pos :
        i \in 1..Larger(Len(buf), pos + Len(data)) /\ ~(pos < i)
  BY DEF Larger
<1>3. \A i \in 1..Len(data) :
        /\ pos + i \in 1..Larger(Len(buf), pos + Len(data))
        /\ pos < pos + i /\ pos + i <= pos + Len(data) /\ (pos + i) - pos = i
  BY DEF Larger
<1> HIDE DEF new
<1>4. \A i \in 1..pos : new[i] = buf[i]
  BY <1>1, <1>2
<1>5. \A i \in 1..Len(data) : new[pos + i] = data[i]
  BY <1>1, <1>3
<1> QED
  BY <1>4, <1>5 DEF new

\* insert(data) appends data to the unread bytes.
LEMMA InsertAppends ==
  ASSUME Inv, Inv', NEW data \in Chunks, insert(data)
  PROVE  Unread' = Unread \o data
<1>1. /\ buffer_ \in Seq(Bytes) /\ data \in Seq(Bytes)
      /\ reader_ \in Nat /\ writer_ \in Nat
      /\ reader_ <= writer_ /\ writer_ <= Len(buffer_)
  BY BufferAssumption DEF Inv, TypeOK
<1>2. /\ buffer_' = Overlay(buffer_, writer_, data)
      /\ reader_' = reader_ /\ writer_' = writer_ + Len(data)
  BY DEF insert
<1>3. /\ buffer_' \in Seq(Bytes)
      /\ Len(buffer_') = Larger(Len(buffer_), writer_ + Len(data))
      /\ \A i \in 1..writer_ : buffer_'[i] = buffer_[i]
      /\ \A i \in 1..Len(data) : buffer_'[writer_ + i] = data[i]
  <2>1. /\ buffer_' \in Seq(Bytes)
        /\ Len(buffer_') = Larger(Len(buffer_), writer_ + Len(data))
    BY <1>1, <1>2, OverlayType
  <2>2. /\ \A i \in 1..writer_ : buffer_'[i] = buffer_[i]
        /\ \A i \in 1..Len(data) : buffer_'[writer_ + i] = data[i]
    BY <1>1, <1>2, OverlayParts
  <2> QED
    BY <2>1, <2>2
<1>4. TypeOK /\ TypeOK'
  BY DEF Inv
<1> QED
  BY <1>1, <1>2, <1>3, <1>4, WriteAppends

\* A readv appends what it received to the unread bytes, whatever part of it
\* went through ex_buf.
LEMMA RecvAppends ==
  ASSUME Inv, Inv', NEW data \in Chunks, stream_recv(data)
  PROVE  Unread' = Unread \o data
<1> DEFINE first  == InPlace(data)
           rest   == Overflow(data)
           filled == Overlay(buffer_, writer_, first)
           pushed == writer_ + Len(first)
<1>1. /\ buffer_ \in Seq(Bytes) /\ data \in Seq(Bytes)
      /\ reader_ \in Nat /\ writer_ \in Nat
      /\ reader_ <= writer_ /\ writer_ <= Len(buffer_)
      /\ space \in Nat /\ writer_ + space = Len(buffer_)
  BY BufferAssumption DEF Inv, TypeOK, space
<1>2. /\ first \in Seq(Bytes) /\ rest \in Seq(Bytes)
      /\ Len(first) + Len(rest) = Len(data)
      /\ pushed + Len(rest) = writer_ + Len(data)
      /\ Len(first) <= space
      /\ \A i \in 1..Len(first) : first[i] = data[i]
      /\ \A i \in 1..Len(rest) : rest[i] = data[Len(first) + i]
  BY <1>1, ReadvParts DEF Inv
<1>3. /\ buffer_' = Overlay(filled, pushed, rest)
      /\ reader_' = reader_ /\ writer_' = pushed + Len(rest)
  BY DEF stream_recv
<1> HIDE DEF first, rest
<1>4. pushed \in Nat /\ writer_ <= pushed /\ pushed <= Len(buffer_)
  BY <1>1, <1>2
<1>5. /\ filled \in Seq(Bytes) /\ Len(filled) = Len(buffer_)
      /\ \A i \in 1..writer_ : filled[i] = buffer_[i]
      /\ \A i \in 1..Len(first) : filled[writer_ + i] = first[i]
  <2>1. Larger(Len(buffer_), pushed) = Len(buffer_)
    BY <1>1, <1>4 DEF Larger
  <2>2. /\ filled \in Seq(Bytes)
        /\ Len(filled) = Larger(Len(buffer_), writer_ + Len(first))
    BY <1>1, <1>2, OverlayType
  <2>3. /\ \A i \in 1..writer_ : filled[i] = buffer_[i]
        /\ \A i \in 1..Len(first) : filled[writer_ + i] = first[i]
    BY <1>1, <1>2, OverlayParts
  <2> QED
    BY <2>1, <2>2, <2>3
<1> HIDE DEF filled
<1>6. /\ buffer_' \in Seq(Bytes)
      /\ Len(buffer_') = Larger(Len(filled), pushed + Len(rest))
      /\ \A i \in 1..pushed : buffer_'[i] = filled[i]
      /\ \A i \in 1..Len(rest) : buffer_'[pushed + i] = rest[i]
  <2> HIDE DEF pushed
  <2>1. pushed <= Len(filled)
    BY <1>4, <1>5
  <2>2. /\ buffer_' \in Seq(Bytes)
        /\ Len(buffer_') = Larger(Len(filled), pushed + Len(rest))
    BY <1>2, <1>3, <1>4, <1>5, <2>1, OverlayType
  <2>3. /\ \A i \in 1..pushed : buffer_'[i] = filled[i]
        /\ \A i \in 1..Len(rest) : buffer_'[pushed + i] = rest[i]
    BY <1>2, <1>3, <1>4, <1>5, <2>1, OverlayParts
  <2> QED
    BY <2>2, <2>3
<1>7. \A i \in 1..writer_ : buffer_'[i] = buffer_[i]
  <2>1. \A i \in 1..writer_ : i \in 1..pushed
    BY <1>1, <1>4
  <2> QED
    BY <1>5, <1>6, <2>1
<1>8. ASSUME NEW i \in 1..Len(data) PROVE buffer_'[writer_ + i] = data[i]
  <2>1. Len(first) \in Nat /\ Len(rest) \in Nat /\ Len(data) \in Nat
    BY <1>1, <1>2
  <2>2. CASE i <= Len(first)
    <3>1. i \in 1..Len(first) /\ writer_ + i \in 1..pushed
      BY <1>1, <2>1, <2>2
    <3> QED
      BY <1>2, <1>5, <1>6, <3>1
  <2>3. CASE ~(i <= Len(first))
    <3> DEFINE j == i - Len(first)
    <3>1. j \in 1..Len(rest) /\ pushed + j = writer_ + i
          /\ Len(first) + j = i
      BY <1>1, <1>2, <2>1, <2>3
    <3> HIDE DEF j
    <3> QED
      BY <1>2, <1>6, <3>1
  <2> QED
    BY <2>2, <2>3
<1>9. writer_' = writer_ + Len(data)
  BY <1>2, <1>3
<1>10. TypeOK /\ TypeOK'
  BY DEF Inv
<1> QED
  BY <1>1, <1>3, <1>7, <1>8, <1>9, <1>10, WriteAppends

\* The unread bytes that remain after the first n have been read.
LEMMA DropFirst ==
  ASSUME TypeOK, NEW n \in 0..size
  PROVE  SubSeq(Unread, n + 1, Len(Unread))
           = Window(buffer_, reader_ + n, writer_)
<1> DEFINE k    == reader_ + n
           rest == Window(buffer_, k, writer_)
           tail == SubSeq(Unread, n + 1, Len(Unread))
<1>0. /\ buffer_ \in Seq(Bytes) /\ reader_ \in Nat /\ writer_ \in Nat
      /\ reader_ <= writer_ /\ writer_ <= Len(buffer_) /\ n \in Nat
      /\ n <= writer_ - reader_
  BY DEF TypeOK, size
<1>1. /\ Unread \in Seq(Bytes) /\ Len(Unread) = writer_ - reader_
      /\ \A i \in 1..(writer_ - reader_) : Unread[i] = buffer_[reader_ + i]
  BY <1>0, WindowFacts DEF Unread
<1>2. k \in Nat /\ k <= writer_
  BY <1>0
<1>3. Len(Unread) \in 0..Len(Unread) /\ n \in 0..Len(Unread)
      /\ Len(Unread) - n = writer_ - k
  BY <1>0, <1>1
<1>4. \A i \in 1..(writer_ - k) :
        n + i \in 1..(writer_ - reader_) /\ reader_ + (n + i) = k + i
  BY <1>0
<1> HIDE DEF k
<1>5. /\ rest \in Seq(Bytes) /\ Len(rest) = writer_ - k
      /\ \A i \in 1..(writer_ - k) : rest[i] = buffer_[k + i]
  BY <1>0, <1>2, WindowFacts
<1>6. /\ tail \in Seq(Bytes) /\ Len(tail) = Len(Unread) - n
      /\ \A i \in 1..(Len(Unread) - n) : tail[i] = Unread[n + i]
  BY <1>1, <1>3, SubSeqFacts
<1> HIDE DEF rest, tail
<1>7. \A i \in 1..(writer_ - k) : tail[i] = rest[i]
  BY <1>1, <1>3, <1>4, <1>5, <1>6
<1>8. tail = rest
  BY <1>3, <1>5, <1>6, <1>7, SeqEqual
<1> QED
  BY <1>8 DEF k, rest, tail

\* pop(n) removes the first n unread bytes and no other, also when it moves or
\* shrinks the buffer.
LEMMA PopDrops ==
  ASSUME Inv, NEW n \in 0..size, pop(n)
  PROVE  Unread' = SubSeq(Unread, n + 1, Len(Unread))
<1> DEFINE read == reader_ + n
<1>1. /\ buffer_ \in Seq(Bytes) /\ reader_ \in Nat /\ writer_ \in Nat
      /\ reader_ <= writer_ /\ writer_ <= Len(buffer_) /\ size = writer_ - reader_
      /\ n \in 0..(writer_ - reader_)
  BY DEF Inv, TypeOK, size
<1>2. read \in 0..writer_ /\ read \in Nat /\ read <= writer_
  BY <1>1
<1>3. SubSeq(Unread, n + 1, Len(Unread)) = Window(buffer_, read, writer_)
  BY DropFirst DEF Inv
<1>4. CASE read >= writer_
  <2>1. reader_' = 0 /\ writer_' = 0
    BY <1>4 DEF pop
  <2>2. Unread' = [i \in 1..(0 - 0) |-> buffer_'[0 + i]]
    BY <2>1 DEF Unread, Window
  <2>3. Window(buffer_, read, writer_)
          = [i \in 1..(writer_ - read) |-> buffer_[read + i]]
    BY DEF Window
  <2> HIDE DEF read
  <2>4. 0 - 0 = 0 /\ writer_ - read = 0
    BY <1>1, <1>2, <1>4
  <2>5. Unread' = <<>> /\ Window(buffer_, read, writer_) = <<>>
    BY <2>2, <2>3, <2>4
  <2> QED
    BY <1>3, <2>5
<1>5. CASE ~(read >= writer_) /\ read > Len(buffer_) \div 2
  <2> DEFINE live == SubSeq(buffer_, read + 1, writer_)
  <2>1. /\ buffer_' = Overlay(buffer_, 0, live)
        /\ reader_' = 0 /\ writer_' = writer_ - read
    BY <1>5 DEF pop, compact
  <2>2. live \in Seq(Bytes) /\ Len(live) = writer_ - read
        /\ \A i \in 1..(writer_ - read) : live[i] = buffer_[read + i]
    <3>1. writer_ \in 0..Len(buffer_)
      BY <1>1
    <3> HIDE DEF read
    <3> QED
      BY <1>1, <1>2, <3>1, SubSeqFacts
  <2> HIDE DEF live
  <2>3. \A i \in 1..Len(live) : buffer_'[0 + i] = live[i]
    BY <1>1, <2>1, <2>2, 0 \in Nat, 0 <= Len(buffer_), OverlayParts
  <2> HIDE DEF read
  <2>4. Unread' = [i \in 1..((writer_ - read) - 0) |-> buffer_'[0 + i]]
    BY <2>1 DEF Unread, Window
  <2>5. (writer_ - read) - 0 = writer_ - read
    BY <1>1, <1>2
  <2>6. Unread' = [i \in 1..(writer_ - read) |-> buffer_[read + i]]
    BY <2>2, <2>3, <2>4, <2>5
  <2> QED
    BY <1>3, <2>6 DEF Window
<1>6. CASE ~(read >= writer_) /\ ~(read > Len(buffer_) \div 2)
  BY <1>3, <1>6 DEF pop, Unread
<1> QED
  BY <1>4, <1>5, <1>6

\* Every operation of the buffer puts bytes at the back of the queue, takes
\* bytes from its front, or leaves it alone.
LEMMA StepRefines ==
  Inv /\ Inv' /\ [Next]_vars => [Queue!Put \/ Queue!Take]_Unread
<1> SUFFICES ASSUME Inv, Inv', [Next]_vars
             PROVE  Queue!Put \/ Queue!Take \/ UNCHANGED Unread
  OBVIOUS
<1>1. /\ Unread \in Seq(Bytes) /\ Len(Unread) = size /\ size \in Nat
  <2>1. /\ buffer_ \in Seq(Bytes) /\ reader_ \in Nat /\ writer_ \in Nat
        /\ reader_ <= writer_ /\ writer_ <= Len(buffer_)
    BY DEF Inv, TypeOK
  <2>2. Unread \in Seq(Bytes) /\ Len(Unread) = writer_ - reader_
    BY <2>1, WindowFacts DEF Unread
  <2> QED
    BY <2>1, <2>2 DEF size
<1>2. ASSUME NEW data \in Chunks, Unread' = Unread \o data PROVE Queue!Put
  <2>1. data \in Seq(Bytes)
    BY BufferAssumption
  <2> QED
    BY <1>1, <1>2, <2>1 DEF Queue!Put
<1>3. ASSUME NEW n \in 0..size, Unread' = SubSeq(Unread, n + 1, Len(Unread))
      PROVE  Queue!Take
  <2>1. Len(Unread) \in 0..Len(Unread) /\ n \in 0..Len(Unread)
    BY <1>1
  <2>2. /\ Unread' \in Seq(Bytes) /\ Len(Unread') = Len(Unread) - n
        /\ \A i \in 1..(Len(Unread) - n) : Unread'[i] = Unread[n + i]
    BY <1>1, <1>3, <2>1, SubSeqFacts
  <2>3. Unread' = [i \in 1..(Len(Unread) - n) |-> Unread[n + i]]
    BY <2>2
  <2> QED
    BY <2>1, <2>3 DEF Queue!Take
<1>4. CASE clear
  <2> DEFINE n == Len(Unread)
  <2>1. Unread' = [i \in 1..(0 - 0) |-> buffer_'[0 + i]]
    BY <1>4 DEF clear, Unread, Window
  <2>2. n \in 0..Len(Unread) /\ Len(Unread) - n = 0 /\ 0 - 0 = 0
    BY <1>1
  <2>3. Unread' = [i \in 1..(Len(Unread) - n) |-> Unread[n + i]]
    BY <2>1, <2>2
  <2> QED
    BY <2>2, <2>3 DEF Queue!Take
<1>5. CASE UNCHANGED vars
  BY <1>5 DEF vars, Unread
<1> QED
  BY <1>2, <1>3, <1>4, <1>5, InsertAppends, RecvAppends, PopDrops DEF Next

\* StreamBuffer implements a FIFO byte queue: for every sequence of insert,
\* stream_recv, pop and clear, bytes enter at the back and leave at the front
\* and no growth, compaction or shrinking alters the ones in between.
THEOREM ImplementsByteQueue == Spec => BytesInOrder
<1>1. Init => Queue!QueueInit
  <2> SUFFICES ASSUME Init PROVE Unread = <<>>
    BY DEF Queue!QueueInit
  <2>1. Unread = [i \in 1..0 |-> buffer_[0 + i]]
    BY DEF Init, Unread, Window
  <2> QED
    BY <2>1
<1>2. Inv /\ Inv' /\ [Next]_vars => [Queue!Put \/ Queue!Take]_Unread
  BY StepRefines
<1> QED
  BY <1>1, <1>2, SpecInv, PTL DEF Spec, BytesInOrder, Queue!QueueSpec

\* insert() and stream_recv append exactly the bytes they are given, in order,
\* and pop(n) removes exactly the first n, for every capacity and every split
\* of a readv over the buffer and ex_buf.
THEOREM OperationsAreExact == Spec => ExactBytes
<1> DEFINE Exact ==
      /\ \A data \in Chunks :
           insert(data) \/ stream_recv(data) => Unread' = Unread \o data
      /\ \A n \in 0..size :
           pop(n) => Unread' = SubSeq(Unread, n + 1, Len(Unread))
<1>1. Inv /\ Inv' => Exact
  BY InsertAppends, RecvAppends, PopDrops
<1> HIDE DEF Exact
<1>2. Spec => [][Exact]_vars
  BY <1>1, SpecInv, PTL
<1> QED
  BY <1>2 DEF Exact, ExactBytes
===============================================================================
