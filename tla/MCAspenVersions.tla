--------------------------- MODULE MCAspenVersions ---------------------------
(* Instances of AspenVersions for TLC. *)
EXTENDS AspenVersions, TLC

CONSTANTS r1, r2

OneReader  == {r1}
TwoReaders == {r1, r2}
=============================================================================
