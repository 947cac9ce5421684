--------------------------- MODULE MCCommandBuffers ---------------------------
\* CommandBuffers with interchangeable pools, command buffers and sets.
EXTENDS CommandBuffers, TLC

Symmetry ==
    Permutations(CommandPools) \cup Permutations(CommandBuffers) \cup Permutations(Sets)
===============================================================================
