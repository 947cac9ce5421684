----------------------- MODULE MCDescriptorSetAllocator -----------------------
\* DescriptorSetAllocator with a few interchangeable pools and sets.
EXTENDS DescriptorSetAllocator, TLC

HandleSymmetry == Permutations(Pools)
===============================================================================
