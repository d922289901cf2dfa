--------------------------- MODULE MCLoginLimiter ---------------------------
EXTENDS LoginLimiter, TLC

Interchangeable == Permutations(Workers) \cup Permutations(Keys)
=============================================================================
