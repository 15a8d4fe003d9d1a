------------------------- MODULE MCMetadataService -------------------------
(* Two projects, ids that any order of requests may take. *)
EXTENDS MetadataService, TLC

CONSTANTS t1, t2, r1, r2

\* newId() is only compared, so ids may be exchanged.
Symmetry == Permutations({t1, t2}) \cup Permutations({r1, r2})
=============================================================================
