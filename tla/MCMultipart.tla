----------------------------- MODULE MCMultipart -----------------------------
(* Instances of Multipart for TLC. Uploads, parts, payloads and workers are   *)
(* symmetric.                                                                 *)
EXTENDS Multipart, TLC

Symmetry ==
    Permutations(Uploads) \cup Permutations(Parts) \cup Permutations(Blobs)
    \cup Permutations(Workers)

==============================================================================
