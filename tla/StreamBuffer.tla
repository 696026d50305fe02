----------------------------- MODULE StreamBuffer -----------------------------
(***************************************************************************)
(* kzevent::core::StreamBuffer (stream_buffer.hpp, stream_buffer.cpp), the *)
(* growing and shrinking byte buffer behind every stream socket, together  *)
(* with the two functions of inet.cpp that fill and drain it: stream_recv  *)
(* (readv into the free tail and a stack buffer) and stream_send.          *)
(*                                                                         *)
(* buffer_ is a sequence, so index 0 of the vector is buffer_[1]; the      *)
(* unread bytes are those after position reader_ up to position writer_.   *)
(***************************************************************************)
EXTENDS Naturals, Sequences

CONSTANTS
  Bytes,            \* the byte values told apart
  Zero,             \* what vector::resize puts into new elements
  initial_size,     \* initial_size_
  kShrinkThreshold, \* complete drains before the buffer is halved
  ExSize,           \* size of the stack buffer ex_buf of stream_recv
  Chunks,           \* the pieces of data that are inserted or received
  MaxUnread         \* bound on the unread bytes

ASSUME BufferAssumption ==
  /\ Zero \in Bytes
  /\ initial_size \in Nat \ {0}
  /\ kShrinkThreshold \in Nat /\ ExSize \in Nat /\ MaxUnread \in Nat
  /\ Chunks \subseteq Seq(Bytes)

VARIABLES buffer_, reader_, writer_, shrink_count_

vars == <<buffer_, reader_, writer_, shrink_count_>>

\* size() and space()
size  == writer_ - reader_
space == Len(buffer_) - writer_

Larger(m, n) == IF m >= n THEN m ELSE n

\* buf, resized with zeros if it is too short, with data written after pos.
Overlay(buf, pos, data) ==
  [i \in 1..Larger(Len(buf), pos + Len(data)) |->
     IF pos < i /\ i <= pos + Len(data) THEN data[i - pos]
     ELSE IF i <= Len(buf) THEN buf[i] ELSE Zero]

\* vector::resize
Resize(buf, n) == [i \in 1..n |-> IF i <= Len(buf) THEN buf[i] ELSE Zero]

Init ==
  /\ buffer_ = [i \in 1..initial_size |-> Zero]
  /\ reader_ = 0 /\ writer_ = 0 /\ shrink_count_ = 0

\* Mutant: the data is written at reader_.
insert_AtReader(data) ==
  /\ size + Len(data) <= MaxUnread
  /\ buffer_' = Overlay(buffer_, reader_, data)
  /\ writer_' = writer_ + Len(data)
  /\ UNCHANGED <<reader_, shrink_count_>>

insert(data) ==
  /\ size + Len(data) <= MaxUnread
  /\ buffer_' = Overlay(buffer_, writer_, data)
  /\ writer_' = writer_ + Len(data)
  /\ UNCHANGED <<reader_, shrink_count_>>

\* The part of a readv that lands in the free tail, and the part that
\* overflows into ex_buf.
InPlace(data)  == SubSeq(data, 1, IF Len(data) > space THEN space
                                  ELSE Len(data))
Overflow(data) == SubSeq(data, Len(InPlace(data)) + 1, Len(data))

\* Mutant: what overflowed is inserted at the old writer_ (no push first).
stream_recv_NoPush(data) ==
  /\ data # <<>> /\ Len(data) <= space + ExSize
  /\ size + Len(data) <= MaxUnread
  /\ buffer_' = Overlay(Overlay(buffer_, writer_, InPlace(data)),
                        writer_, Overflow(data))
  /\ writer_' = writer_ + Len(Overflow(data))
  /\ UNCHANGED <<reader_, shrink_count_>>

\* A readv that returned data: push() for what is in place, then insert() for
\* the rest.
stream_recv(data) ==
  /\ data # <<>> /\ Len(data) <= space + ExSize
  /\ size + Len(data) <= MaxUnread
  /\ LET filled == Overlay(buffer_, writer_, InPlace(data))
         pushed == writer_ + Len(InPlace(data))
     IN /\ buffer_' = Overlay(filled, pushed, Overflow(data))
        /\ writer_' = pushed + Len(Overflow(data))
  /\ UNCHANGED <<reader_, shrink_count_>>

\* shrink(): every kShrinkThreshold + 1 complete drains of a grown buffer
\* halve it, but never below initial_size.
shrink ==
  IF Len(buffer_) <= initial_size
    THEN shrink_count_' = 0 /\ UNCHANGED buffer_
  ELSE IF shrink_count_ < kShrinkThreshold
    THEN shrink_count_' = shrink_count_ + 1 /\ UNCHANGED buffer_
  ELSE /\ shrink_count_' = 0
       /\ buffer_' = Resize(buffer_, Larger(Len(buffer_) \div 2,
                                            initial_size))

\* compact(), when the first `read` bytes have been read.
compact(read) ==
  /\ buffer_' = Overlay(buffer_, 0, SubSeq(buffer_, read + 1, writer_))
  /\ reader_' = 0 /\ writer_' = writer_ - read

\* Mutant: pop never moves the unread bytes to the front.
pop_NoCompact(n) ==
  LET read == reader_ + n IN
  IF read >= writer_
    THEN shrink /\ reader_' = 0 /\ writer_' = 0
  ELSE reader_' = read /\ UNCHANGED <<buffer_, writer_, shrink_count_>>

\* pop(n), as stream_send and the frame loop call it, with n <= size().
pop(n) ==
  LET read == reader_ + n IN
  IF read >= writer_
    THEN shrink /\ reader_' = 0 /\ writer_' = 0
  ELSE IF read > Len(buffer_) \div 2
    THEN compact(read) /\ UNCHANGED shrink_count_
  ELSE reader_' = read /\ UNCHANGED <<buffer_, writer_, shrink_count_>>

\* Mutant: clear() forgets reader_.
clear_KeepsReader ==
  /\ writer_' = 0
  /\ UNCHANGED <<buffer_, reader_, shrink_count_>>

clear ==
  /\ reader_' = 0 /\ writer_' = 0
  /\ UNCHANGED <<buffer_, shrink_count_>>

Next ==
  \/ \E data \in Chunks : insert(data) \/ stream_recv(data)
  \/ \E n \in 0..size : pop(n)
  \/ clear

Spec == Init /\ [][Next]_vars

-------------------------------------------------------------------------------
\* The buffer and its two positions keep their types and never cross:
\* 0 <= reader_ <= writer_ <= buffer_.size(), so data(), end() and every
\* std::copy of the class stay inside the vector.
TypeOK ==
  /\ buffer_ \in Seq(Bytes)
  /\ reader_ \in Nat /\ writer_ \in Nat
  /\ reader_ <= writer_ /\ writer_ <= Len(buffer_)
  /\ shrink_count_ \in 0..kShrinkThreshold

\* Memory stays proportional to the data: however the reads and writes are
\* interleaved, insert()'s growth, pop()'s compaction and shrink() keep the
\* capacity at no less than initial_size and at no more than twice the largest
\* number of unread bytes (or initial_size, if that is more).
CapacityBounded ==
  /\ initial_size <= Len(buffer_)
  /\ Len(buffer_) <= Larger(initial_size, 2 * MaxUnread)

\* Why the bound holds: between operations the dead bytes in front of the
\* unread ones fill at most half of the buffer (the compaction in pop()).
HeadAtMostHalf == 2 * reader_ <= Len(buffer_)

\* The unread bytes, from data() to end().
Window(buf, from, to) == [i \in 1..(to - from) |-> buf[from + i]]
Unread == Window(buffer_, reader_, writer_)

\* The unread bytes form a FIFO queue: growth, compaction, shrinking and the
\* two-part readv neither lose, duplicate, reorder nor alter a byte.
Queue == INSTANCE ByteQueue WITH content <- Unread
BytesInOrder == Queue!QueueSpec

\* Each operation does to the unread bytes exactly what its caller asked for:
\* insert(data) and a readv of data, however it is split over the free tail
\* and ex_buf, append data; pop(n) drops the first n bytes, also when it
\* compacts or shrinks.
ExactBytes ==
  [][/\ \A data \in Chunks :
          insert(data) \/ stream_recv(data) => Unread' = Unread \o data
     /\ \A n \in 0..size :
          pop(n) => Unread' = SubSeq(Unread, n + 1, Len(Unread))
    ]_vars
===============================================================================
