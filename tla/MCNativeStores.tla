--------------------------- MODULE MCNativeStores ---------------------------
EXTENDS NativeStores, TLC

Symmetry == Permutations(Publishers) \cup Permutations(Facts)
              \cup Permutations(Services)
=============================================================================
