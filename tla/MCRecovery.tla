----------------------------- MODULE MCRecovery -----------------------------
EXTENDS Recovery, TLC

Symmetry == Permutations(OrderIds) \cup Permutations(ExtIds)
              \cup Permutations(SignalKeys) \cup Permutations(RecoveredKeys)

=============================================================================
