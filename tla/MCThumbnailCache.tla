-------------------------- MODULE MCThumbnailCache --------------------------
(***************************************************************************)
(* Instances of ThumbnailCache: two threads at one file, of factories of   *)
(* the normal size in a world where anything fails, or of one size each in *)
(* a world where nothing does.                                             *)
(***************************************************************************)
EXTENDS ThumbnailCache

CONSTANTS normal, large, t1, t2

AllNormal == [t \in Threads |-> normal]
BothSizes == [t \in Threads |-> IF t = t1 THEN normal ELSE large]

TestSetups ==
  {[sizeOf |-> AllNormal, faults |-> {"write", "cancel", "crash", "clean"}],
   [sizeOf |-> BothSizes, faults |-> {}]}
RenameFails == {[sizeOf |-> AllNormal, faults |-> {"rename"}]}
=============================================================================
