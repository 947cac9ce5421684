--------------------------- MODULE MCStagingReclaim ---------------------------
\* StagingReclaim with interchangeable threads, batches and pairs.
EXTENDS StagingReclaim, TLC

Symmetry ==
    Permutations(Submitters) \cup Permutations(Batches) \cup Permutations(Pairs)
===============================================================================
