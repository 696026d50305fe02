---------------------------- MODULE MCStreamBuffer ----------------------------
(***************************************************************************)
(* A StreamBuffer over two byte values, with pieces of up to three bytes.  *)
(***************************************************************************)
EXTENDS StreamBuffer

SmallChunks == UNION {[1..n -> Bytes] : n \in 0..3}
===============================================================================
