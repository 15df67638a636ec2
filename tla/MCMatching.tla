---------------------------- MODULE MCMatching -----------------------------
(* Matching for TLC: addresses of two bytes, four digits 0 and a; targets  *)
(* of up to four of the characters 0, a, A, some too long or not hex.      *)
EXTENDS Matching, SequencesExt

Bytes == 2

MCAddress == [1 .. Bytes -> {0, 10, 160, 170}]

MCBatch == MCAddress \X MCAddress

MCText ==
  BoundedSeq({48, 65, 97}, 4)
    \union {<< 71 >>, << 58 >>, << 47 >>, << 64 >>, << 96 >>, << 103 >>}
    \union {<< 48, 48, 48, 48, 48 >>, << 97, 48, 97, 48, 71 >>}
============================================================================
