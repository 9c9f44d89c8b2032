---------------------------- MODULE MCFinanceOps ----------------------------
EXTENDS FinanceOps, TLC

FinanceSymmetry == Permutations(Keys) \cup Permutations(Nonces) \cup Permutations(Workers)
=============================================================================
