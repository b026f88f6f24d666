---------------------------- MODULE MCBackground ----------------------------
(***************************************************************************)
(* Instances of Background: an image a, and a slide show of a, a           *)
(* transition to b, and b; or a show that does not give its durations.     *)
(***************************************************************************)
EXTENDS Background

CONSTANTS a, b, album

Static(durations, image) ==
  [fixed |-> TRUE, durations |-> durations, file1 |-> image, file2 |-> None]
Transition(durations, from, to) ==
  [fixed |-> FALSE, durations |-> durations, file1 |-> from, file2 |-> to]

WellFormed ==
  album :> [start_time |-> 5,
           elements |-> <<Static(<<1>>, a), Transition(<<2>>, a, b), Static(<<2>>, b)>>]
NoDurations ==
  album :> [start_time |-> 5,
           elements |-> <<Static(<<>>, a), Static(<<>>, b)>>]

Symmetry == Permutations(Placements) \cup Permutations(Colors)
=============================================================================
