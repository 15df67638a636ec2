--------------------------- MODULE MCMetalKernels ---------------------------
(* MetalKernels for TLC: the documented values of each switch that takes   *)
(* part in the choice of a path, in every combination.                     *)
EXTENDS MetalKernels

Flag == {Unset, FALSE, TRUE}

MCEnvironment ==
  {[GROUP |-> g, INVERT |-> i, WINDOW |-> w, CHUNK |-> c, FUSE |-> f,
    STRIDE |-> s, AFFINE |-> a, KSPLIT |-> k, PERSIST |-> p, SIMD |-> m] :
     g \in {Unset, 64}, i \in {Unset, TRUE}, w \in {Unset, 4},
     c \in {Unset, 0, 4, 32}, f \in Flag, s \in {Unset, 1, 8, 16, 64},
     a \in Flag, k \in Flag, p \in Flag, m \in Flag}
=============================================================================
