----------------------------- MODULE MCEvidence -----------------------------
(* The commands over the evidence files with a few files, tests and packs,  *)
(* and Trace with the instances of MCTrace.                                 *)
EXTENDS Evidence, MCTrace, TLC

CONSTANTS p1, p2    \* the audit-pack commands, interchangeable

PackSymmetry == Permutations({p1, p2})

=============================================================================
