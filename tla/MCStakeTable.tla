---------------------------- MODULE MCStakeTable ----------------------------
EXTENDS StakeTable, TLC

\* Accounts and keys are interchangeable.
Symmetry == Permutations(Validator) \cup Permutations(Delegator) \cup Permutations(Key)
=============================================================================
