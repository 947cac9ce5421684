------------------------- MODULE MCDescriptorTracking -------------------------
\* DescriptorTracking with interchangeable threads, pools, sets and layouts.
EXTENDS DescriptorTracking, TLC

Symmetry ==
    Permutations(Threads) \cup Permutations(Pools) \cup Permutations(Sets)
      \cup Permutations(Layouts)
===============================================================================
