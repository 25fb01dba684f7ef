------------------------- MODULE MCExecutionEngine -------------------------
EXTENDS ExecutionEngine, TLC

Symmetry == Permutations(Keys) \cup Permutations(OrderIds)
              \cup Permutations(ExtIds) \cup Permutations(Callers)

=============================================================================
