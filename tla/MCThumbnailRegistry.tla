------------------------ MODULE MCThumbnailRegistry ------------------------
(***************************************************************************)
(* Instances of ThumbnailRegistry: a user directory and a system directory *)
(* that may be unmounted.                                                  *)
(***************************************************************************)
EXTENDS ThumbnailRegistry

CONSTANTS user, system, a, b, png, pdf

OneFileEach == [p \in Paths |-> IF p = a THEN user ELSE system]
BothInSystem == [p \in Paths |-> system]

\* a may claim one type or both, b only one of them.
Overlapping == [p \in Paths |-> IF p = a THEN {{png}, {png, pdf}} ELSE {{png}}]
OneClaim == [p \in Paths |-> {{png}}]
=============================================================================
