-------------------------- MODULE MCConfiguration ---------------------------
\* The keys that noise gives differ in nothing but their identity.
EXTENDS Configuration, TLC

Interchangeable == Permutations(Key \ {Spliced})
=============================================================================
