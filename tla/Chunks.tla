-------------------------------- MODULE Chunks --------------------------------
(* chunkArray of src/utils/chunk-array.ts, for a chunk size of at least one.  *)
EXTENDS Integers, Sequences

\* Mutant: a last chunk that is not full is forgotten.
ChunkArrayFullOnly(items, size) ==
  [k \in 1 .. (Len(items) \div size) |-> SubSeq(items, (k - 1) * size + 1, k * size)]

\* chunkArray(items, size): consecutive pieces of that size, the last one may be short.
ChunkArray(items, size) ==
  [k \in 1 .. ((Len(items) + size - 1) \div size) |->
     SubSeq(items, (k - 1) * size + 1, IF k * size <= Len(items) THEN k * size ELSE Len(items))]
=============================================================================
