------------------------ MODULE MCRoomTransactions -------------------------
EXTENDS RoomTransactions, TLC

Symmetry == Permutations(Users) \cup Permutations(Requests)

============================================================================
