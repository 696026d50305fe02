------------------------------- MODULE ByteQueue -------------------------------
(***************************************************************************)
(* What a stream buffer promises: a first-in first-out queue of bytes.     *)
(* Bytes enter at the back and leave at the front, unchanged.              *)
(***************************************************************************)
EXTENDS Naturals, Sequences

CONSTANT Bytes

VARIABLE content

QueueInit == content = <<>>

\* Some bytes are added at the back.
Put ==
  /\ content' \in Seq(Bytes)
  /\ Len(content') >= Len(content)
  /\ \A i \in 1..Len(content) : content'[i] = content[i]

\* Some bytes, perhaps all, are taken from the front.
Take ==
  \E n \in 0..Len(content) :
    content' = [i \in 1..(Len(content) - n) |-> content[n + i]]

QueueSpec == QueueInit /\ [][Put \/ Take]_content
================================================================================
