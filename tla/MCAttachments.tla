--------------------------- MODULE MCAttachments ---------------------------
EXTENDS Attachments, TLC

Symmetry == Permutations(Requests)

============================================================================
