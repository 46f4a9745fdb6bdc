------------------------ MODULE MCSocialTransactions ------------------------
EXTENDS SocialTransactions, TLC

Symmetry == Permutations(Requests)

============================================================================
