------------------------------ MODULE MCWebPages ------------------------------
EXTENDS WebPages, TLC

Interchangeable == Permutations(Events) \cup Permutations(Categories) \cup Permutations(Names)
=============================================================================
