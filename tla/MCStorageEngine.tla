--------------------------- MODULE MCStorageEngine ---------------------------
(* Instances of StorageEngine for TLC. Payloads, keys and workers are symmetric.*)
EXTENDS StorageEngine, TLC

Symmetry == Permutations(Keys) \cup Permutations(Blobs) \cup Permutations(Workers)

==============================================================================
