----------------------------- MODULE MCWallClock -----------------------------
(* Instances of WallClock for TLC.  Nothing tells two formats or two zones   *)
(* apart.                                                                    *)
EXTENDS WallClock, TLC

Symmetry == Permutations(Formats) \cup Permutations(Zones)
=============================================================================
