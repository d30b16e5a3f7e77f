--------------------------- MODULE MCSchemaUpgrade ---------------------------
(* Small instances of SchemaUpgrade for TLC. *)
EXTENDS SchemaUpgrade, TLC

CONSTANTS r1, r2, r3, r4

RequestSymmetry == Permutations(Requests)
=============================================================================
