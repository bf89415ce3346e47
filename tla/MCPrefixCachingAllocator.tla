----------------------- MODULE MCPrefixCachingAllocator -----------------------
(* Instance of PrefixCachingAllocator for TLC.                               *)
EXTENDS PrefixCachingAllocator, TLC

\* Physical blocks, block objects and hashes are interchangeable.
Symmetry ==
  Permutations(BlockIds) \cup Permutations(Objects) \cup Permutations(Hashes)
=============================================================================
