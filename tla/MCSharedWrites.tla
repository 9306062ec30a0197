--------------------------- MODULE MCSharedWrites ---------------------------
EXTENDS SharedWrites, TLC

Interchangeable ==
    Permutations(Writers) \cup Permutations(Ops) \cup Permutations(Resources)
        \cup Permutations(Payloads)
=============================================================================
