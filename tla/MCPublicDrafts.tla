---------------------------- MODULE MCPublicDrafts ----------------------------
EXTENDS PublicDraftsRefinement, TLC

Interchangeable == Permutations(Workers) \cup Permutations(Drafts)
=============================================================================
