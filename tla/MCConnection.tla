---------------------------- MODULE MCConnection ----------------------------
(* Model-checking instance of Connection: three socket slots, so that an  *)
(* orphaned socket, the current one and a third attempt can coexist.      *)
EXTENDS Connection, TLC

CONSTANTS s1, s2, s3

MCSlots == {s1, s2, s3}

MCSymmetry == Permutations(MCSlots)

=============================================================================
