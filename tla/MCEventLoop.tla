---------------------------- MODULE MCEventLoop ----------------------------
EXTENDS EventLoop, TLC

Symmetry == Permutations(Keys) \cup Permutations(OrderIds) \cup Permutations(ExtIds)

=============================================================================
