---------------------------- MODULE MCBufferUse ----------------------------
(* Instances of BufferUse for TLC: the buffers are interchangeable.         *)
EXTENDS BufferUse

BufferSymmetry == Permutations(Buffers)
=============================================================================
