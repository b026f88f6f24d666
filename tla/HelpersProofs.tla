---------------------------- MODULE HelpersProofs ----------------------------
(***************************************************************************)
(* The components of Helpers, each proved for itself: a step of Helpers is *)
(* a step of the component that was chosen, and of the others none.        *)
(*                                                                         *)
(* Here are, for any number of fades and surfaces, that a fade which is    *)
(* started runs or has told its client once that it is finished, as long   *)
(* as gnome_bg_crossfade_stop has lost none; for any number of tasks, that *)
(* one of gnome_start_systemd_scope which is answered with success has had *)
(* its process moved or had nothing to do, and that the name of an         *)
(* application of ASCII is read back from that of its unit, whatever its   *)
(* length; for any number of runs of thumbnailers at once, in every        *)
(* sandbox and whichever step fails, that what a run makes is gone when it *)
(* is over, but for a registry that could not be removed; for rules files  *)
(* of any length, that the tables of the layouts can be walked and are     *)
(* complete, after any number of parses; and, for any number of listed     *)
(* names, that the table of the locales does not depend on their order,    *)
(* and that the name of a locale has every part that is needed to tell it  *)
(* from another of its language or of its territory.                       *)
(*                                                                         *)
(* FoldLeft (SequencesExt) folds over a set of places; that such a fold is *)
(* a run over the elements, one after the other, is proved first, and the  *)
(* loops over rules files, listed names and ISO codes are inductions over  *)
(* those runs (UpTo, in DataInduction).                                    *)
(***************************************************************************)
EXTENDS Helpers, FiniteSetTheorems, SequenceTheorems, DataInduction, TLAPS

-----------------------------------------------------------------------------
(* The fade (Crossfade)                                                    *)

\* What the types rest on: the constants, that a fade is lengthened once, and
\* that each finished comes after its start.
FadeCountInv ==
  /\ is_first_frame => total_duration = Duration
  /\ finished + (IF Fade!IsStarted THEN 1 ELSE 0) <= started
  /\ Len(stack) <= finished

\* The fade that IsStarted speaks of is attached, and a surface that it lacks
\* could not be copied while it ran.
FadeRunningInv ==
  fade = "alive" /\ Fade!IsStarted =>
    /\ timeout_id \in sources
    /\ failed \/ (fading_surface /\ end_surface)

\* The inductive strengthening of EveryFadeFinishesOnce.
FadeIInv == Fade!TypeOK /\ FadeCountInv /\ FadeRunningInv /\ Fade!EveryFadeFinishesOnce

\* The cardinality of no element, and of one, as the fade has it.
LEMMA NoneAndOne ==
  Fade!Cardinality({}) = 0 /\ \A x : Fade!Cardinality({x}) = 1
BY FS_EmptySet, FS_Singleton DEF Fade!Cardinality, Cardinality

LEMMA LongestIsLonger ==
  ASSUME Duration \in Nat
  PROVE  Fade!Longest \in Nat /\ Duration <= Fade!Longest
BY DEF Fade!Longest

LEMMA FadeInit ==
  ASSUME {Duration, MaxStarts, MaxSets, MaxClockSets} \subseteq Nat, None \notin Fade!Ids
  PROVE  Fade!Init => FadeIInv
<1> SUFFICES ASSUME Fade!Init PROVE FadeIInv
  OBVIOUS
<1>1. Fade!Cardinality(sources) = 0
  BY NoneAndOne DEF Fade!Init
<1>2. Fade!TypeOK
  <2>1. 0 \in -Duration..Fade!Longest
    BY LongestIsLonger
  <2>2. <<>> \in Seq({"tick", "stop"}) /\ Len(<<>>) = 0
    OBVIOUS
  <2>3. {fading_surface, end_surface, is_first_frame, animations, failed} \subseteq BOOLEAN
    BY DEF Fade!Init
  <2>4. stack \in Seq({"tick", "stop"}) /\ Len(stack) <= MaxStarts
    BY <2>2 DEF Fade!Init
  <2>5. 0 \in 0..MaxStarts /\ 0 \in 0..MaxSets /\ 0 \in 0..MaxClockSets
    OBVIOUS
  <2>. QED BY <2>1, <2>3, <2>4, <2>5 DEF Fade!Init, Fade!TypeOK
<1>3. FadeCountInv /\ FadeRunningInv
  BY DEF Fade!Init, FadeCountInv, FadeRunningInv, Fade!IsStarted
<1>4. Fade!EveryFadeFinishesOnce
  BY <1>1 DEF Fade!Init, Fade!EveryFadeFinishesOnce
<1>. QED BY <1>2, <1>3, <1>4 DEF FadeIInv

\* on_finished ends the fade that IsStarted speaks of, if there is one, and
\* tells the client of it (gnome-bg-crossfade.c:423-449).
LEMMA OnFinishedEnds ==
  ASSUME {Duration, MaxStarts, MaxSets, MaxClockSets} \subseteq Nat, None \notin Fade!Ids,
         FadeIInv, fade = "alive",
         NEW caller \in {"tick", "stop"}, Fade!OnFinished(caller),
         NEW id \in sources, Fade!IsStarted /\ caller # "tick" => id = timeout_id,
         sources' = sources \ {id},
         UNCHANGED <<elapsed, clock_sets>>, total_duration' \in {Duration, Fade!Longest},
         is_first_frame' \in BOOLEAN, is_first_frame' => total_duration' = Duration,
         UNCHANGED <<started, lost, animations, Fade!callVars>>
  PROVE  FadeIInv'
<1>1. CASE ~Fade!IsStarted
  <2>1. Fade!TypeOK'
    BY <1>1 DEF FadeIInv, Fade!TypeOK, Fade!OnFinished, Fade!callVars,
                Fade!surfaceVars, Fade!Ids, Fade!Longest
  <2>2. FadeCountInv'
    BY <1>1 DEF FadeIInv, FadeCountInv, Fade!OnFinished, Fade!IsStarted
  <2>3. FadeRunningInv'
    BY <1>1 DEF FadeRunningInv, Fade!OnFinished, Fade!IsStarted
  <2>4. Fade!EveryFadeFinishesOnce'
    <3>1. lost = {} => sources = {}
      BY <1>1 DEF FadeIInv, Fade!EveryFadeFinishesOnce, Fade!IsStarted
    <3>2. lost # {}
      BY <3>1
    <3>. QED BY <1>1, <3>2 DEF Fade!EveryFadeFinishesOnce, Fade!OnFinished
  <2>. QED BY <2>1, <2>2, <2>3, <2>4 DEF FadeIInv
<1>2. CASE Fade!IsStarted /\ (~end_surface \/ ~fading_surface)
  <2>1. Fade!TypeOK'
    BY <1>2 DEF FadeIInv, Fade!TypeOK, Fade!OnFinished, Fade!callVars,
                Fade!surfaceVars, Fade!Ids, Fade!Longest
  <2>2. FadeCountInv'
    BY <1>2 DEF FadeIInv, FadeCountInv, Fade!OnFinished, Fade!IsStarted
  <2>3. FadeRunningInv'
    BY <1>2 DEF FadeRunningInv, Fade!OnFinished
  <2>4. Fade!EveryFadeFinishesOnce'
    BY <1>2 DEF FadeIInv, FadeRunningInv, Fade!EveryFadeFinishesOnce,
                Fade!OnFinished, Fade!callVars
  <2>. QED BY <2>1, <2>2, <2>3, <2>4 DEF FadeIInv
<1>3. CASE Fade!IsStarted /\ end_surface /\ fading_surface
  <2>1. /\ end_surface' = FALSE /\ fading_surface' = FALSE /\ timeout_id' = None
        /\ finished' = finished + 1 /\ stack' = Append(stack, caller) /\ fade' = fade
    BY <1>3 DEF Fade!OnFinished
  <2>2. /\ finished \in Nat /\ started \in Nat /\ started <= MaxStarts
        /\ finished + 1 <= started /\ Len(stack) <= finished /\ Len(stack) \in Nat
        /\ stack \in Seq({"tick", "stop"}) /\ Len(stack') = Len(stack) + 1
        /\ stack' \in Seq({"tick", "stop"})
    BY <1>3, <2>1 DEF FadeIInv, Fade!TypeOK, FadeCountInv
  <2>3. finished' \in 0..MaxStarts /\ Len(stack') <= MaxStarts
    BY <2>1, <2>2
  <2>4. Fade!TypeOK'
    BY <2>1, <2>2, <2>3 DEF FadeIInv, Fade!TypeOK, Fade!callVars, Fade!Ids, Fade!Longest
  <2>5. FadeCountInv' /\ FadeRunningInv'
    BY <2>1, <2>2 DEF FadeCountInv, FadeRunningInv, Fade!IsStarted
  <2>6. Fade!EveryFadeFinishesOnce'
    <3>1. SUFFICES ASSUME lost = {}
          PROVE  started' = finished' + Fade!Cardinality(sources') /\ sources' = {timeout_id'} \ {None}
      BY <2>1 DEF Fade!EveryFadeFinishesOnce
    <3>2. sources = {timeout_id} /\ sources' = {} /\ started = finished + Fade!Cardinality(sources)
      BY <1>3, <3>1 DEF FadeIInv, Fade!EveryFadeFinishesOnce, Fade!IsStarted
    <3>3. Fade!Cardinality(sources) = 1 /\ Fade!Cardinality(sources') = 0
      BY <3>2, NoneAndOne
    <3>. QED BY <2>1, <2>2, <3>2, <3>3
  <2>. QED BY <2>4, <2>5, <2>6 DEF FadeIInv
<1>. QED BY <1>1, <1>2, <1>3

\* Each step keeps the invariant: what the client calls, also from a handler
\* of finished, and what the main loop does.
LEMMA FadeStep ==
  ASSUME {Duration, MaxStarts, MaxSets, MaxClockSets} \subseteq Nat, None \notin Fade!Ids
  PROVE  FadeIInv /\ [Fade!Next]_(fadeVars) => FadeIInv'
<1> SUFFICES ASSUME FadeIInv, [Fade!Next]_(fadeVars) PROVE FadeIInv'
  OBVIOUS
<1> USE DEF Fade!surfaceVars, Fade!timeVars, Fade!callVars
<1>1. CASE UNCHANGED fadeVars
  <2>1. Fade!TypeOK' /\ FadeCountInv'
    BY <1>1 DEF fadeVars, Fade!surfaceVars, Fade!timeVars, Fade!callVars, FadeIInv,
                Fade!TypeOK, FadeCountInv, Fade!IsStarted, Fade!Ids, Fade!Longest
  <2>2. FadeRunningInv' /\ Fade!EveryFadeFinishesOnce'
    BY <1>1 DEF fadeVars, Fade!surfaceVars, Fade!timeVars, Fade!callVars, FadeIInv,
                FadeRunningInv, Fade!EveryFadeFinishesOnce, Fade!IsStarted
  <2>. QED BY <2>1, <2>2 DEF FadeIInv
<1>2. ASSUME Fade!SetStartSurface PROVE FadeIInv'
  <2>1. Fade!TypeOK' /\ FadeCountInv'
    BY <1>2 DEF Fade!SetStartSurface, FadeIInv, Fade!TypeOK, FadeCountInv,
                Fade!IsStarted, Fade!Ids, Fade!Longest
  <2>2. FadeRunningInv'
    BY <1>2 DEF Fade!SetStartSurface, FadeIInv, FadeRunningInv, Fade!IsStarted
  <2>3. Fade!EveryFadeFinishesOnce'
    BY <1>2 DEF Fade!SetStartSurface, Fade!ClientRuns, FadeIInv,
                Fade!EveryFadeFinishesOnce
  <2>. QED BY <2>1, <2>2, <2>3 DEF FadeIInv
<1>3. ASSUME Fade!SetEndSurface PROVE FadeIInv'
  <2>1. Fade!TypeOK' /\ FadeCountInv'
    BY <1>3, LongestIsLonger
       DEF Fade!SetEndSurface, FadeIInv, Fade!TypeOK, FadeCountInv, Fade!IsStarted,
           Fade!Ids
  <2>2. FadeRunningInv'
    BY <1>3 DEF Fade!SetEndSurface, FadeIInv, FadeRunningInv, Fade!IsStarted
  <2>3. Fade!EveryFadeFinishesOnce'
    BY <1>3 DEF Fade!SetEndSurface, Fade!ClientRuns, FadeIInv,
                Fade!EveryFadeFinishesOnce
  <2>. QED BY <2>1, <2>2, <2>3 DEF FadeIInv
<1>4. ASSUME Fade!Start PROVE FadeIInv'
  <2>1. /\ started \in Nat /\ finished \in Nat /\ started' = started + 1
        /\ started' \in Fade!Ids /\ timeout_id' = started' /\ ~Fade!IsStarted
    BY <1>4 DEF Fade!Start, FadeIInv, Fade!TypeOK, Fade!Ids
  <2>2. Fade!TypeOK'
    BY <1>4, <2>1, LongestIsLonger DEF Fade!Start, FadeIInv, Fade!TypeOK, Fade!Ids
  <2>3. FadeCountInv' /\ FadeRunningInv'
    BY <1>4, <2>1 DEF Fade!Start, FadeIInv, FadeCountInv, FadeRunningInv, Fade!IsStarted
  <2>4. Fade!EveryFadeFinishesOnce'
    <3>1. SUFFICES ASSUME lost = {}
          PROVE  /\ started' = finished' + Fade!Cardinality(sources')
                 /\ sources' = {timeout_id'} \ {None}
      BY <1>4 DEF Fade!Start, Fade!ClientRuns, Fade!EveryFadeFinishesOnce
    <3>2. sources = {} /\ started = finished + Fade!Cardinality(sources)
      BY <1>4, <2>1, <3>1 DEF Fade!Start, Fade!ClientRuns, FadeIInv,
                              Fade!EveryFadeFinishesOnce, Fade!IsStarted
    <3>3. sources' = {started'}
      BY <1>4, <3>2 DEF Fade!Start
    <3>4. Fade!Cardinality(sources) = 0 /\ Fade!Cardinality(sources') = 1
      BY <3>2, <3>3, NoneAndOne
    <3>. QED BY <1>4, <2>1, <3>2, <3>3, <3>4 DEF Fade!Start
  <2>. QED BY <2>2, <2>3, <2>4 DEF FadeIInv
<1>5. ASSUME Fade!Stop PROVE FadeIInv'
  <2>1. timeout_id \in sources /\ Fade!IsStarted
    BY <1>5 DEF Fade!Stop, Fade!ClientRuns, Fade!RemoveSource, FadeIInv, FadeRunningInv
  <2>2. total_duration' \in {Duration, Fade!Longest} /\ is_first_frame' \in BOOLEAN
    BY <1>5 DEF Fade!Stop, FadeIInv, Fade!TypeOK
  <2>3. is_first_frame' => total_duration' = Duration
    BY <1>5 DEF Fade!Stop, FadeIInv, FadeCountInv
  <2>. QED BY <1>5, <2>1, <2>2, <2>3, OnFinishedEnds DEF Fade!Stop, Fade!ClientRuns,
                                                         Fade!RemoveSource
<1>6. ASSUME Fade!Pass PROVE FadeIInv'
  <2>1. elapsed' \in -Duration..Fade!Longest
    BY <1>6, LongestIsLonger DEF Fade!Pass, FadeIInv, Fade!TypeOK
  <2>2. Fade!TypeOK' /\ FadeCountInv'
    BY <1>6, <2>1 DEF Fade!Pass, FadeIInv, Fade!TypeOK, FadeCountInv, Fade!IsStarted,
                      Fade!Ids
  <2>3. FadeRunningInv' /\ Fade!EveryFadeFinishesOnce'
    BY <1>6 DEF Fade!Pass, FadeIInv, FadeRunningInv, Fade!EveryFadeFinishesOnce,
                Fade!IsStarted
  <2>. QED BY <2>2, <2>3 DEF FadeIInv
<1>7. ASSUME NEW id \in Fade!Ids, Fade!Tick(id) PROVE FadeIInv'
  <2>1. /\ fade = "alive" /\ id \in sources
        /\ total_duration' = Fade!DurationNow /\ is_first_frame' = (is_first_frame /\ ~Fade!Lengthens)
        /\ UNCHANGED <<elapsed, clock_sets, started, lost, animations, Fade!callVars>>
    BY <1>7 DEF Fade!Tick
  <2>2. /\ total_duration' \in {Duration, Fade!Longest} /\ is_first_frame' \in BOOLEAN
        /\ is_first_frame' => total_duration' = Duration
    <3>1. CASE Fade!Lengthens
      BY <2>1, <3>1 DEF Fade!DurationNow, Fade!Lengthens, FadeIInv, FadeCountInv,
                        Fade!Longest
    <3>2. CASE ~Fade!Lengthens
      BY <2>1, <3>2 DEF Fade!DurationNow, FadeIInv, Fade!TypeOK, FadeCountInv
    <3>. QED BY <3>1, <3>2
  <2>3. CASE sources' = sources \ {id} /\ Fade!OnFinished("tick")
    BY <2>1, <2>2, <2>3, OnFinishedEnds
  <2>4. CASE UNCHANGED <<fade, Fade!surfaceVars, timeout_id, sources, stack, finished>>
    <3>1. Fade!TypeOK' /\ FadeCountInv'
      BY <2>1, <2>2, <2>4 DEF FadeIInv, Fade!TypeOK, FadeCountInv, Fade!IsStarted,
                              Fade!Ids, Fade!Longest
    <3>2. FadeRunningInv' /\ Fade!EveryFadeFinishesOnce'
      BY <2>1, <2>4 DEF FadeIInv, FadeRunningInv, Fade!EveryFadeFinishesOnce,
                        Fade!IsStarted
    <3>. QED BY <3>1, <3>2 DEF FadeIInv
  <2>. QED BY <1>7, <2>3, <2>4 DEF Fade!Tick
<1>8. ASSUME Fade!HandlerReturns PROVE FadeIInv'
  <2>1. /\ stack \in Seq({"tick", "stop"}) /\ stack # <<>>
        /\ stack' = SubSeq(stack, 1, Len(stack) - 1)
        /\ UNCHANGED <<sources, Fade!timeVars, started, finished, animations, Fade!callVars>>
    BY <1>8 DEF Fade!HandlerReturns, Fade!Front, FadeIInv, Fade!TypeOK
  <2>2. /\ Len(stack) \in Nat /\ Len(stack) > 0 /\ Len(stack') = Len(stack) - 1
        /\ stack' \in Seq({"tick", "stop"})
    <3> DEFINE Callers == {"tick", "stop"}
    <3>1. Len(stack) \in Nat \ {0}
      BY <2>1, EmptySeq
    <3>2. \A i \in 1..(Len(stack) - 1) : stack[i] \in Callers
      BY <2>1, <3>1
    <3>3. /\ SubSeq(stack, 1, Len(stack) - 1) \in Seq(Callers)
          /\ Len(SubSeq(stack, 1, Len(stack) - 1)) =
               IF 1 <= Len(stack) - 1 THEN Len(stack) - 1 ELSE 0
      <4> HIDE DEF Callers
      <4>1. 1 \in Int /\ Len(stack) - 1 \in Int /\ (Len(stack) - 1) - 1 + 1 = Len(stack) - 1
        BY <3>1
      <4>. QED BY <3>2, <4>1, SubSeqProperties
    <3>4. stack' \in Seq(Callers)
      BY <2>1, <3>3
    <3>5. Len(stack') = IF 1 <= Len(stack) - 1 THEN Len(stack) - 1 ELSE 0
      <4> HIDE DEF Callers
      <4>. QED BY <2>1, <3>3
    <3>6. Len(stack') = Len(stack) - 1
      <4>1. \A n \in Nat \ {0} : (IF 1 <= n - 1 THEN n - 1 ELSE 0) = n - 1
        OBVIOUS
      <4>. QED BY <3>1, <3>5, <4>1
    <3>. QED BY <3>1, <3>4, <3>6
  <2>3. \/ UNCHANGED <<timeout_id, lost>>
        \/ timeout_id' = None /\ lost' = lost \cup ({timeout_id} \ {None})
    BY <1>8 DEF Fade!HandlerReturns
  <2>4. UNCHANGED <<fade, Fade!surfaceVars>>
    BY <1>8 DEF Fade!HandlerReturns
  <2>5. fade = "alive"
    BY <1>8 DEF Fade!HandlerReturns
  <2>6. Fade!TypeOK'
    <3>1. Len(stack') <= MaxStarts
      BY <2>2 DEF FadeIInv, Fade!TypeOK
    <3>2. timeout_id' \in Fade!Ids \cup {None} /\ lost' \subseteq Fade!Ids
      BY <2>3 DEF FadeIInv, Fade!TypeOK
    <3>3. /\ fade' = "alive"
          /\ {fading_surface', end_surface'} \subseteq BOOLEAN
      BY <2>4, <2>5 DEF FadeIInv, Fade!TypeOK
    <3>. QED BY <2>1, <2>2, <3>1, <3>2, <3>3 DEF FadeIInv, Fade!TypeOK, Fade!Ids,
                                                 Fade!Longest
  <2>7. FadeCountInv'
    BY <2>1, <2>2, <2>3 DEF FadeIInv, Fade!TypeOK, FadeCountInv, Fade!IsStarted
  <2>8. FadeRunningInv'
    BY <2>1, <2>3, <2>4 DEF FadeIInv, FadeRunningInv, Fade!IsStarted
  <2>9. Fade!EveryFadeFinishesOnce'
    BY <2>1, <2>3, <2>4, <2>5 DEF FadeIInv, Fade!EveryFadeFinishesOnce
  <2>. QED BY <2>6, <2>7, <2>8, <2>9 DEF FadeIInv
<1>9. ASSUME Fade!Finalize PROVE FadeIInv'
  <2>1. /\ fade' \in {"finalized", "undefined", "aborted"}
        /\ fade' = "aborted" => Fade!IsStarted /\ ~(end_surface /\ fading_surface)
        /\ fade = "alive" /\ timeout_id' = None /\ sources' \subseteq sources
        /\ fading_surface' = FALSE /\ end_surface' = FALSE
        /\ UNCHANGED <<Fade!timeVars, stack, started, finished, lost, animations, Fade!callVars>>
    BY <1>9 DEF Fade!Finalize
  <2>2. FadeCountInv'
    <3>1. finished \in Nat /\ started \in Nat /\ finished <= started
      BY DEF FadeIInv, Fade!TypeOK, FadeCountInv, Fade!IsStarted
    <3>. QED BY <2>1, <3>1 DEF FadeIInv, FadeCountInv, Fade!IsStarted
  <2>5. Fade!TypeOK'
    BY <2>1 DEF FadeIInv, Fade!TypeOK, Fade!Ids, Fade!Longest
  <2>3. FadeRunningInv'
    BY <2>1 DEF FadeRunningInv
  <2>4. Fade!EveryFadeFinishesOnce'
    BY <2>1 DEF FadeIInv, FadeRunningInv, Fade!EveryFadeFinishesOnce
  <2>. QED BY <2>2, <2>3, <2>4, <2>5 DEF FadeIInv
<1>10. ASSUME Fade!AnimationsSwitched PROVE FadeIInv'
  <2>1. Fade!TypeOK' /\ FadeCountInv'
    BY <1>10 DEF Fade!AnimationsSwitched, FadeIInv, Fade!TypeOK, FadeCountInv,
                 Fade!IsStarted, Fade!Ids, Fade!Longest
  <2>2. FadeRunningInv' /\ Fade!EveryFadeFinishesOnce'
    BY <1>10 DEF Fade!AnimationsSwitched, FadeIInv, FadeRunningInv,
                 Fade!EveryFadeFinishesOnce, Fade!IsStarted
  <2>. QED BY <2>1, <2>2 DEF FadeIInv
<1>11. ASSUME Fade!TickAfterFree PROVE FadeIInv'
  <2>1. Fade!TypeOK' /\ FadeCountInv'
    BY <1>11 DEF Fade!TickAfterFree, FadeIInv, Fade!TypeOK, FadeCountInv,
                 Fade!IsStarted, Fade!Ids, Fade!Longest
  <2>2. FadeRunningInv' /\ Fade!EveryFadeFinishesOnce'
    BY <1>11 DEF Fade!TickAfterFree, FadeRunningInv, Fade!EveryFadeFinishesOnce
  <2>. QED BY <2>1, <2>2 DEF FadeIInv
<1>12. ASSUME Fade!ClockIsSet PROVE FadeIInv'
  <2>1. clock_sets' \in 0..MaxClockSets
    BY <1>12 DEF Fade!ClockIsSet, FadeIInv, Fade!TypeOK
  <2>2. Fade!TypeOK' /\ FadeCountInv'
    BY <1>12, <2>1 DEF Fade!ClockIsSet, FadeIInv, Fade!TypeOK, FadeCountInv,
                       Fade!IsStarted, Fade!Ids, Fade!Longest
  <2>3. FadeRunningInv' /\ Fade!EveryFadeFinishesOnce'
    BY <1>12 DEF Fade!ClockIsSet, FadeIInv, FadeRunningInv, Fade!EveryFadeFinishesOnce,
                 Fade!IsStarted
  <2>. QED BY <2>2, <2>3 DEF FadeIInv
<1>. QED
  BY <1>1, <1>2, <1>3, <1>4, <1>5, <1>6, <1>7, <1>8, <1>9, <1>10, <1>11, <1>12, Zenon
     DEF Fade!Next

-----------------------------------------------------------------------------
(* The scope (SystemdScope)                                                *)

\* A task waits for the bus or for systemd with the name of its unit.
ScopeWaitInv ==
  \A t \in Tasks :
    /\ task[t].step \in {"bus", "call"} => task[t].unit \in Scope!Units
    /\ t \in wire => task[t].step # "new" /\ task[t].unit \in Scope!Units

\* A task has been answered when it has returned and not before, and a "done"
\* of systemd's is there only for a process that was moved.
ScopeAnswerInv ==
  \A t \in Tasks :
    /\ task[t].step \in {"new", "bus", "call"} => task[t].returns = 0
    /\ task[t].step \in {"returned", "done"} => task[t].returns = 1
    /\ replies[t] = "done" => t \in moved
    /\ task[t].step \in {"returned", "done"} /\ task[t].result = "true" =>
         \/ task[t].unit = None \/ t \in moved
         \/ task[t].step = "returned" /\ task[t].cancelled

\* The inductive strengthening of SuccessMeansMoved.
ScopeIInv == Scope!TypeOK /\ ScopeWaitInv /\ ScopeAnswerInv

-----------------------------------------------------------------------------
\* The record that a task may be, as gnome_start_systemd_scope and its
\* callbacks fill it in (gnome-systemd.c:32-36, 196-280).
TaskType == [step : {"new", "bus", "call", "returned", "done"},
             name : AppNames \cup {None},
             unit : Scope!Units \cup {None},
             result : {None, "true", "error", "cancelled"},
             cancelled : BOOLEAN,
             returns : Nat]

\* What a step may make of task t.
Fits(t, it) ==
  /\ it \in TaskType /\ it.step # "new"
  /\ it.step \in {"bus", "call"} => it.unit \in Scope!Units /\ it.returns = 0
  /\ it.step \in {"returned", "done"} => it.returns = 1
  /\ it.step \in {"returned", "done"} /\ it.result = "true" =>
       \/ it.unit = None \/ t \in moved
       \/ it.step = "returned" /\ it.cancelled

\* A step that changes one task, and hands it to the bus or answers it,
\* keeps the invariant if what it makes of the task fits
\* (gnome-systemd.c:46-143).
LEMMA OneTask ==
  ASSUME ScopeIInv, NEW t \in Tasks, NEW it, Fits(t, it),
         task' = [task EXCEPT ![t] = it],
         wire' = wire \/ wire' = wire \cup {t},
         t \in wire' => it.unit \in Scope!Units,
         UNCHANGED <<replies, units, moved>>
  PROVE  ScopeIInv'
<1>1. Scope!TypeOK'
  BY DEF Fits, ScopeIInv, Scope!TypeOK, TaskType, Scope!Units
<1>2. /\ task'[t] = it
      /\ \A u \in Tasks : u # t => task'[u] = task[u] /\ (u \in wire' => u \in wire)
  BY DEF ScopeIInv, Scope!TypeOK
<1>3. ScopeWaitInv'
  <2>1. SUFFICES ASSUME NEW u \in Tasks
        PROVE  /\ task'[u].step \in {"bus", "call"} => task'[u].unit \in Scope!Units
               /\ u \in wire' => task'[u].step # "new" /\ task'[u].unit \in Scope!Units
    BY DEF ScopeWaitInv, Scope!Units, Scope!Unit
  <2>2. CASE u = t
    BY <1>2, <2>2 DEF Fits, Scope!Units
  <2>3. CASE u # t
    BY <1>2, <2>3 DEF ScopeIInv, ScopeWaitInv
  <2>. QED BY <2>2, <2>3
<1>4. ScopeAnswerInv'
  <2>1. SUFFICES ASSUME NEW u \in Tasks
        PROVE  /\ task'[u].step \in {"new", "bus", "call"} => task'[u].returns = 0
               /\ task'[u].step \in {"returned", "done"} => task'[u].returns = 1
               /\ replies'[u] = "done" => u \in moved'
               /\ task'[u].step \in {"returned", "done"} /\ task'[u].result = "true" =>
                    \/ task'[u].unit = None \/ u \in moved'
                    \/ task'[u].step = "returned" /\ task'[u].cancelled
    BY DEF ScopeAnswerInv
  <2>2. CASE u = t
    BY <1>2, <2>2 DEF Fits, ScopeIInv, ScopeAnswerInv, TaskType
  <2>3. CASE u # t
    BY <1>2, <2>3 DEF ScopeIInv, ScopeAnswerInv
  <2>. QED BY <2>2, <2>3
<1>. QED BY <1>1, <1>3, <1>4 DEF ScopeIInv

\* A task that is answered fits, if success is what it says it is.
LEMMA ReturnedFits ==
  ASSUME NEW t \in Tasks, NEW it \in TaskType, it.returns = 0,
         NEW result \in {"true", "error"},
         result = "true" => it.unit = None \/ t \in moved \/ it.cancelled
  PROVE  Fits(t, Scope!Returned(it, result)) /\ Scope!Returned(it, result).unit = it.unit
<1> DEFINE new == Scope!Returned(it, result)
<1>1. /\ new.step = "returned" /\ new.result = result /\ new.returns = 1
      /\ new.unit = it.unit /\ new.cancelled = it.cancelled
  BY DEF Scope!Returned, TaskType
<1>2. new \in TaskType
  <2>1. [it EXCEPT !.step = "returned", !.result = result] \in TaskType
    BY DEF TaskType
  <2>2. it.returns + 1 \in Nat
    OBVIOUS
  <2>. QED BY <2>1, <2>2, Zenon DEF Scope!Returned, TaskType
<1> HIDE DEF new
<1>3. Fits(t, new)
  BY <1>1, <1>2 DEF Fits
<1>. QED BY <1>1, <1>3 DEF new

LEMMA ScopeInit == Scope!Init => ScopeIInv
BY DEF Scope!Init, Scope!NewTask, ScopeIInv, Scope!TypeOK, ScopeWaitInv,
       ScopeAnswerInv, Scope!Units

\* Each step keeps the invariant, whoever takes it: the client, the main
\* loop, the bus or systemd.
LEMMA ScopeStep == ScopeIInv /\ [Scope!Next]_(scopeVars) => ScopeIInv'
<1> SUFFICES ASSUME ScopeIInv, [Scope!Next]_(scopeVars) PROVE ScopeIInv'
  OBVIOUS
<1>1. CASE UNCHANGED scopeVars
  BY <1>1 DEF scopeVars, ScopeIInv, Scope!TypeOK, ScopeWaitInv, ScopeAnswerInv,
              Scope!Units
<1>2. ASSUME NEW t \in Tasks, Scope!Request(t) PROVE ScopeIInv'
  <2>1. PICK name \in AppNames \cup {None}, pid \in Pids,
             res \in {"unit", "ENODATA", "error"}, connection \in BOOLEAN :
          LET it == [task[t] EXCEPT !.name = name, !.unit = Scope!Unit(name, pid)]
          IN \/ res = "ENODATA" /\ Scope!Return(t, [it EXCEPT !.unit = None], "true")
             \/ res = "error" /\ Scope!Return(t, it, "error")
             \/ res = "unit" /\ connection /\ Scope!StartUnit(t, it)
             \/ /\ res = "unit" /\ ~connection
                /\ task' = [task EXCEPT ![t] = [it EXCEPT !.step = "bus"]]
                /\ UNCHANGED wire
    BY <1>2, Zenon DEF Scope!Request
  <2> DEFINE it == [task[t] EXCEPT !.name = name, !.unit = Scope!Unit(name, pid)]
  <2>2. /\ task[t] \in TaskType /\ task[t].step = "new" /\ task[t].returns = 0
        /\ t \notin wire /\ UNCHANGED <<replies, units, moved>>
    BY <1>2 DEF Scope!Request, ScopeIInv, Scope!TypeOK, ScopeWaitInv,
                ScopeAnswerInv, TaskType
  <2>3. Scope!Unit(name, pid) \in Scope!Units
    BY DEF Scope!Units
  <2>4. /\ it \in TaskType /\ it.unit \in Scope!Units /\ it.returns = 0
        /\ [it EXCEPT !.unit = None] \in TaskType
        /\ [it EXCEPT !.unit = None].returns = 0 /\ [it EXCEPT !.unit = None].unit = None
    BY <2>2, <2>3 DEF TaskType
  <2>5. CASE Scope!Return(t, [it EXCEPT !.unit = None], "true")
    <3> DEFINE new == Scope!Returned([it EXCEPT !.unit = None], "true")
    <3>1. Fits(t, new)
      BY <2>4, ReturnedFits
    <3>2. task' = [task EXCEPT ![t] = new] /\ wire' = wire /\ t \notin wire
      BY <2>2, <2>5 DEF Scope!Return
    <3> HIDE DEF new
    <3>. QED BY <2>2, <3>1, <3>2, OneTask
  <2>6. CASE Scope!Return(t, it, "error")
    <3> DEFINE new == Scope!Returned(it, "error")
    <3>1. Fits(t, new)
      BY <2>4, ReturnedFits
    <3>2. task' = [task EXCEPT ![t] = new] /\ wire' = wire /\ t \notin wire
      BY <2>2, <2>6 DEF Scope!Return
    <3> HIDE DEF new
    <3>. QED BY <2>2, <3>1, <3>2, OneTask
  <2>7. CASE Scope!StartUnit(t, it)
    <3> DEFINE new == [it EXCEPT !.step = "call"]
    <3>1. Fits(t, new) /\ new.unit \in Scope!Units
      BY <2>2, <2>4 DEF Fits, TaskType
    <3>2. task' = [task EXCEPT ![t] = new] /\ wire' = wire \cup {t}
      BY <2>7 DEF Scope!StartUnit
    <3> HIDE DEF new
    <3>. QED BY <2>2, <3>1, <3>2, OneTask
  <2>8. CASE task' = [task EXCEPT ![t] = [it EXCEPT !.step = "bus"]] /\ UNCHANGED wire
    <3> DEFINE new == [it EXCEPT !.step = "bus"]
    <3>1. Fits(t, new)
      BY <2>2, <2>4 DEF Fits, TaskType
    <3>2. task' = [task EXCEPT ![t] = new] /\ wire' = wire
      BY <2>8
    <3> HIDE DEF new
    <3>. QED BY <2>2, <3>1, <3>2, OneTask
  <2>. QED BY <2>1, <2>5, <2>6, <2>7, <2>8
<1>3. ASSUME NEW t \in Tasks, task[t].step \in {"bus", "call"},
             NEW result \in {"true", "error"}, Scope!Return(t, task[t], result),
             UNCHANGED <<replies, units, moved>>,
             result = "true" => t \in moved \/ task[t].cancelled
      PROVE  ScopeIInv'
  <2>1. task[t] \in TaskType /\ task[t].unit \in Scope!Units /\ task[t].returns = 0
    BY <1>3 DEF ScopeIInv, Scope!TypeOK, ScopeWaitInv, ScopeAnswerInv, TaskType
  <2> DEFINE new == Scope!Returned(task[t], result)
  <2>2. Fits(t, new) /\ new.unit \in Scope!Units
    BY <1>3, <2>1, ReturnedFits
  <2>3. task' = [task EXCEPT ![t] = new] /\ wire' = wire
    BY <1>3 DEF Scope!Return
  <2> HIDE DEF new
  <2>. QED BY <1>3, <2>2, <2>3, OneTask
<1>4. ASSUME NEW t \in Tasks, Scope!BusGotten(t) PROVE ScopeIInv'
  <2>1. CASE Scope!StartUnit(t, task[t])
    <3>1. task[t] \in TaskType /\ task[t].unit \in Scope!Units /\ task[t].returns = 0
      BY <1>4 DEF Scope!BusGotten, ScopeIInv, Scope!TypeOK, ScopeWaitInv,
                  ScopeAnswerInv, TaskType
    <3> DEFINE new == [task[t] EXCEPT !.step = "call"]
    <3>2. Fits(t, new) /\ new.unit \in Scope!Units
      BY <3>1 DEF Fits, TaskType
    <3>3. /\ task' = [task EXCEPT ![t] = new] /\ wire' = wire \cup {t}
          /\ UNCHANGED <<replies, units, moved>>
      BY <1>4, <2>1 DEF Scope!BusGotten, Scope!StartUnit
    <3> HIDE DEF new
    <3>. QED BY <3>2, <3>3, OneTask
  <2>2. CASE Scope!Return(t, task[t], "error")
    BY <1>3, <1>4, <2>2 DEF Scope!BusGotten
  <2>. QED BY <1>4, <2>1, <2>2 DEF Scope!BusGotten
<1>5. ASSUME NEW t \in Tasks, Scope!OnStartTransientUnit(t) PROVE ScopeIInv'
  <2>1. PICK outcome \in Scope!Outcomes(t) :
          Scope!Return(t, task[t],
            IF outcome \in {"done", "cancelled"} THEN "true" ELSE "error")
    BY <1>5 DEF Scope!OnStartTransientUnit
  <2>2. /\ outcome = "done" => t \in moved
        /\ outcome = "cancelled" => task[t].cancelled
    BY DEF Scope!Outcomes, ScopeIInv, Scope!TypeOK, ScopeAnswerInv
  <2>. QED BY <1>3, <1>5, <2>1, <2>2 DEF Scope!OnStartTransientUnit
<1>6. ASSUME NEW t \in Tasks, Scope!Callback(t) PROVE ScopeIInv'
  <2>1. /\ task[t] \in TaskType /\ task[t].returns = 1
        /\ t \in wire => task[t].unit \in Scope!Units
    BY <1>6 DEF Scope!Callback, ScopeIInv, Scope!TypeOK, ScopeWaitInv,
                ScopeAnswerInv, TaskType
  <2>2. task[t].result = "true" =>
          task[t].unit = None \/ t \in moved \/ task[t].cancelled
    BY <1>6 DEF Scope!Callback, ScopeIInv, ScopeAnswerInv
  <2> DEFINE new == [task[t] EXCEPT !.step = "done",
                       !.result = IF task[t].cancelled THEN "cancelled" ELSE @]
  <2>3. Fits(t, new) /\ (t \in wire => new.unit \in Scope!Units)
    BY <2>1, <2>2 DEF Fits, TaskType
  <2>4. /\ task' = [task EXCEPT ![t] = new] /\ wire' = wire
        /\ UNCHANGED <<replies, units, moved>>
    BY <1>6 DEF Scope!Callback
  <2> HIDE DEF new
  <2>. QED BY <2>3, <2>4, OneTask
<1>7. ASSUME NEW t \in Tasks, Scope!Cancel(t) PROVE ScopeIInv'
  <2>1. task[t] \in TaskType
    BY DEF ScopeIInv, Scope!TypeOK, TaskType
  <2> DEFINE new == [task[t] EXCEPT !.cancelled = TRUE]
  <2>2. Fits(t, new) /\ (t \in wire => new.unit \in Scope!Units)
    BY <1>7, <2>1 DEF Fits, TaskType, Scope!Cancel, ScopeIInv, ScopeWaitInv,
                      ScopeAnswerInv
  <2>3. /\ task' = [task EXCEPT ![t] = new] /\ wire' = wire
        /\ UNCHANGED <<replies, units, moved>>
    BY <1>7 DEF Scope!Cancel
  <2> HIDE DEF new
  <2>. QED BY <2>2, <2>3, OneTask
<1>8. ASSUME NEW t \in Tasks, Scope!CallArrives(t) PROVE ScopeIInv'
  <2>1. Scope!TypeOK'
    BY <1>8 DEF Scope!CallArrives, ScopeIInv, Scope!TypeOK, ScopeWaitInv, Scope!Units
  <2>2. ScopeWaitInv'
    BY <1>8 DEF Scope!CallArrives, ScopeIInv, ScopeWaitInv, Scope!Units
  <2>3. ScopeAnswerInv'
    BY <1>8 DEF Scope!CallArrives, ScopeIInv, Scope!TypeOK, ScopeAnswerInv
  <2>. QED BY <2>1, <2>2, <2>3 DEF ScopeIInv
<1>9. ASSUME Scope!ScopeEnds PROVE ScopeIInv'
  BY <1>9 DEF Scope!ScopeEnds, ScopeIInv, Scope!TypeOK, ScopeWaitInv,
              ScopeAnswerInv, Scope!Units
<1>. QED BY <1>1, <1>2, <1>4, <1>5, <1>6, <1>7, <1>8, <1>9 DEF Scope!Next

-----------------------------------------------------------------------------
(* The names of units (systemd_unit_name_escape, and systemd that reads    *)
(* them): a recursive function over the chars of a name.                   *)

\* A char of ASCII that is not kept is escaped with four, of which the first
\* is a backslash, and the last two are the digits that systemd reads.
Piece(c) == IF c \in Scope!AlNum \cup {58, 95, 46} THEN <<c>> ELSE Scope!EscapeChar(c)

IsHex(c) == c \in (48..57) \cup (97..102)

\* A digit that "%02x" prints is one that systemd reads, as that digit.
LEMMA HexDigits ==
  ASSUME NEW d \in 0..15
  PROVE  Scope!Hex(d) \in Int /\ IsHex(Scope!Hex(d)) /\ Scope!Digit(Scope!Hex(d)) = d
<1>1. CASE d < 10
  <2>1. Scope!Hex(d) = 48 + d /\ 48 + d \in 48..57
    BY <1>1 DEF Scope!Hex
  <2>. QED BY <2>1 DEF IsHex, Scope!Digit
<1>2. CASE d >= 10
  <2>1. Scope!Hex(d) = 87 + d /\ 87 + d \in 97..102
    BY <1>2 DEF Scope!Hex
  <2>. QED BY <2>1 DEF IsHex, Scope!Digit
<1>. QED BY <1>1, <1>2

\* The length and the elements of two sequences end to end.
LEMMA Appended ==
  ASSUME NEW a \in Seq(Int), NEW b \in Seq(Int)
  PROVE  /\ a \o b \in Seq(Int)
         /\ Len(a \o b) = Len(a) + Len(b)
         /\ \A i \in 1..(Len(a) + Len(b)) :
              (a \o b)[i] = IF i <= Len(a) THEN a[i] ELSE b[i - Len(a)]
<1>1. a \o b \in Seq(Int) /\ Len(a \o b) = Len(a) + Len(b)
  OBVIOUS
<1>2. \A i \in 1..(Len(a) + Len(b)) :
        (a \o b)[i] = IF i <= Len(a) THEN a[i] ELSE b[i - Len(a)]
  OBVIOUS
<1>. QED BY <1>1, <1>2

\* Four chars, put together from two and two.
LEMMA TwoAndTwo ==
  ASSUME NEW a \in Seq(Int), NEW b \in Seq(Int), NEW w \in Seq(Int),
         Len(a) = 2, Len(b) = 2, Len(w) = 4,
         a[1] = w[1], a[2] = w[2], b[1] = w[3], b[2] = w[4]
  PROVE  a \o b = w
<1> DEFINE m == Len(a)
           n == Len(b)
           c == a \o b
<1>1. c \in Seq(Int) /\ Len(c) = m + n
  BY Appended
<1>2. \A i \in 1..(m + n) : c[i] = IF i <= m THEN a[i] ELSE b[i - m]
  BY Appended
<1>3. m = 2 /\ n = 2
  OBVIOUS
<1> HIDE DEF m, n, c
<1>4. ASSUME NEW i \in 1..Len(c) PROVE c[i] = w[i]
  <2>1. i = 1 \/ i = 2 \/ i = 3 \/ i = 4
    BY <1>1, <1>3
  <2>. QED BY <1>2, <1>3, <2>1
<1>5. Len(c) = Len(w)
  BY <1>1, <1>3
<1>6. c = w
  BY <1>1, <1>4, <1>5, SeqEqual
<1>. QED BY <1>6 DEF c
\* A char becomes itself, or a backslash, an x and the two digits it is read
\* back from (gnome-systemd.c:154-176).
LEMMA PieceOfAscii ==
  ASSUME NEW c \in 0..127
  PROVE  /\ Piece(c) \in Seq(Int)
         /\ \/ Piece(c) = <<c>> /\ c # 92
            \/ \E h \in Int, l \in Int :
                 /\ Piece(c) = <<92, 120, h, l>> /\ IsHex(h) /\ IsHex(l)
                 /\ 16 * Scope!Digit(h) + Scope!Digit(l) = c
<1>1. CASE c \in Scope!AlNum \cup {58, 95, 46}
  <2>1. Piece(c) = <<c>> /\ c # 92
    BY <1>1 DEF Piece, Scope!AlNum
  <2>. QED BY <2>1
<1>2. CASE c \notin Scope!AlNum \cup {58, 95, 46}
  <2> DEFINE h == Scope!Hex((c % 256) \div 16)
             l == Scope!Hex(c % 16)
  <2>1. Piece(c) = <<92, 120>> \o <<>> \o <<h, l>>
    BY <1>2 DEF Piece, Scope!EscapeChar
  <2>2. /\ (c % 256) \div 16 \in 0..15 /\ c % 16 \in 0..15
        /\ 16 * ((c % 256) \div 16) + (c % 16) = c
    <3>1. c % 256 = c
      OBVIOUS
    <3>2. c = (c \div 16) * 16 + (c % 16) /\ c % 16 \in 0..15 /\ c \div 16 \in Int
      OBVIOUS
    <3>3. c \div 16 \in 0..15
      BY <3>2
    <3>. QED BY <3>1, <3>2, <3>3
  <2>3. /\ h \in Int /\ l \in Int /\ IsHex(h) /\ IsHex(l)
        /\ 16 * Scope!Digit(h) + Scope!Digit(l) = c
    BY <2>2, HexDigits
  <2> HIDE DEF h, l
  <2>4. Piece(c) = <<92, 120, h, l>>
    <3>1. <<92, 120>> \o <<>> = <<92, 120>>
      OBVIOUS
    <3>2. <<92, 120>> \o <<h, l>> = <<92, 120, h, l>>
      <4> DEFINE a == <<92, 120>>
                 b == <<h, l>>
                 w == <<92, 120, h, l>>
      <4>1. a \in Seq(Int) /\ b \in Seq(Int) /\ w \in Seq(Int)
        BY <2>3
      <4>2. Len(a) = 2 /\ Len(b) = 2 /\ Len(w) = 4
        OBVIOUS
      <4>3. /\ a[1] = w[1] /\ a[2] = w[2] /\ b[1] = w[3] /\ b[2] = w[4]
        OBVIOUS
      <4> HIDE DEF a, b, w
      <4>4. a \o b = w
        BY <4>1, <4>2, <4>3, TwoAndTwo
      <4>. QED BY <4>4 DEF a, b, w
    <3>. QED BY <2>1, <3>1, <3>2
  <2>. QED BY <2>3, <2>4
<1>. QED BY <1>1, <1>2

\* The recursive function of Unescape, from m up, and that there is one.
RestFrom(name, g, m) ==
  g = [i \in m..(Len(name) + 1) |->
         IF i > Len(name) THEN <<>>
         ELSE IF /\ i + 3 <= Len(name) /\ name[i] = 92 /\ name[i + 1] = 120
                 /\ IsHex(name[i + 2]) /\ IsHex(name[i + 3])
         THEN <<16 * Scope!Digit(name[i + 2]) + Scope!Digit(name[i + 3])>> \o g[i + 4]
         ELSE <<name[i]>> \o g[i + 1]]

\* The recursive function that Unescape is made with exists.
LEMMA RestExists ==
  ASSUME NEW name, Len(name) \in Nat
  PROVE  \E g : RestFrom(name, g, 1)
<1> DEFINE L == Len(name)
           H == {d \in Nat : \E g : RestFrom(name, g, L + 1 - d)}
<1>1. 0 \in H
  <2> DEFINE g == [i \in (L + 1)..(L + 1) |-> <<>>]
  <2>1. RestFrom(name, g, L + 1)
    BY DEF RestFrom
  <2>. QED BY <2>1
<1>2. ASSUME NEW d \in 0..(L - 1), d \in H PROVE d + 1 \in H
  <2> DEFINE m == L - d
  <2>1. PICK g : RestFrom(name, g, m + 1)
    BY <1>2
  <2>2. m \in 1..L
    OBVIOUS
  <2> HIDE DEF m
  <2> DEFINE Escaped(i) == /\ i + 3 <= L /\ name[i] = 92 /\ name[i + 1] = 120
                           /\ IsHex(name[i + 2]) /\ IsHex(name[i + 3])
             value(i, f) == IF i > L THEN <<>>
                            ELSE IF Escaped(i)
                            THEN <<16 * Scope!Digit(name[i + 2]) + Scope!Digit(name[i + 3])>>
                                   \o f[i + 4]
                            ELSE <<name[i]>> \o f[i + 1]
             f == [i \in m..(L + 1) |-> IF i = m THEN value(m, g) ELSE g[i]]
  <2>3. g = [i \in (m + 1)..(L + 1) |-> value(i, g)]
    BY <2>1 DEF RestFrom
  <2>4. ASSUME NEW i \in m..(L + 1) PROVE f[i] = value(i, f)
    <3>1. \A j \in (m + 1)..(L + 1) : f[j] = g[j]
      BY <2>2
    <3>2. CASE i = m
      <4>1. f[i] = value(i, g)
        BY <3>2
      <4>2. Escaped(i) => i + 4 \in (m + 1)..(L + 1)
        BY <2>2, <3>2
      <4>3. i + 1 \in (m + 1)..(L + 1)
        BY <2>2, <3>2
      <4> HIDE DEF f, Escaped
      <4>. QED BY <3>1, <4>1, <4>2, <4>3
    <3>3. CASE i # m
      <4>1. i \in (m + 1)..(L + 1)
        BY <2>2, <3>3
      <4>2. f[i] = value(i, g)
        BY <2>3, <3>3, <4>1
      <4>3. Escaped(i) => i + 4 \in (m + 1)..(L + 1)
        BY <2>2, <4>1
      <4>4. i <= L => i + 1 \in (m + 1)..(L + 1)
        BY <2>2, <4>1
      <4> HIDE DEF f, Escaped
      <4>. QED BY <2>2, <3>1, <4>1, <4>2, <4>3, <4>4
    <3>. QED BY <3>2, <3>3
  <2>5. f = [i \in m..(L + 1) |-> f[i]]
    OBVIOUS
  <2>6. f = [i \in m..(L + 1) |-> value(i, f)]
    <3> HIDE DEF f, value
    <3>. QED BY <2>4, <2>5
  <2>7. RestFrom(name, f, m)
    <3> HIDE DEF f
    <3>. QED BY <2>6 DEF RestFrom
  <2>8. m = L + 1 - (d + 1)
    BY DEF m
  <2> HIDE DEF f
  <2>. QED BY <2>7, <2>8
<1>3. L \in H
  <2>1. L \in Nat
    OBVIOUS
  <2> HIDE DEF H, L
  <2>2. \A n \in 0..L : n \in H
    BY <1>1, <1>2, <2>1, UpTo
  <2>. QED BY <2>1, <2>2
<1>. QED BY <1>3

\* Unescape is that function of the first place.
LEMMA UnescapeIsRest ==
  ASSUME NEW name, Len(name) \in Nat
  PROVE  \E g : RestFrom(name, g, 1) /\ Scope!Unescape(name) = g[1]
<1> DEFINE rest == CHOOSE g : g = [i \in 1..(Len(name) + 1) |->
         IF i > Len(name) THEN <<>>
         ELSE IF /\ i + 3 <= Len(name) /\ name[i] = 92 /\ name[i + 1] = 120
                 /\ name[i + 2] \in (48..57) \cup (97..102)
                 /\ name[i + 3] \in (48..57) \cup (97..102)
         THEN <<16 * Scope!Digit(name[i + 2]) + Scope!Digit(name[i + 3])>> \o g[i + 4]
         ELSE <<name[i]>> \o g[i + 1]]
<1>1. RestFrom(name, rest, 1)
  BY RestExists, ZenonT(30) DEF RestFrom, IsHex
<1>2. Scope!Unescape(name) = rest[1]
  BY DEF Scope!Unescape
<1> HIDE DEF rest
<1>. QED BY <1>1, <1>2, Zenon

\* What the first k pieces make: f is FlattenSeq's function for n of them.
Made(f, k) == IF k = 0 THEN <<>> ELSE f[k]

\* f makes them of n pieces, which are sequences of chars.
Makes(f, pieces, n) ==
  n \in Nat /\ FlattenedTo(pieces, f, n) /\ \A i \in 1..n : pieces[i] \in Seq(Int)

\* The whole grows by one piece at a time.
LEMMA MadeGrows ==
  ASSUME NEW n, NEW pieces, NEW f, Makes(f, pieces, n)
  PROVE  /\ \A k \in 0..n : Made(f, k) \in Seq(Int)
         /\ \A k \in 1..n : Made(f, k) = Made(f, k - 1) \o pieces[k]
<1>. n \in Nat /\ \A i \in 1..n : pieces[i] \in Seq(Int)
  BY DEF Makes
<1>1. \A k \in 1..n : f[k] = IF k = 1 THEN pieces[k] ELSE f[k - 1] \o pieces[k]
  BY DEF Makes, FlattenedTo
<1>2. ASSUME NEW k \in 1..n PROVE Made(f, k) = Made(f, k - 1) \o pieces[k]
  <2>1. CASE k = 1
    <3>1. pieces[k] \in Seq(Int) /\ Made(f, k) = pieces[k] /\ Made(f, k - 1) = <<>>
      BY <1>1, <2>1 DEF Made
    <3>2. <<>> \o pieces[k] = pieces[k]
      BY <3>1, ConcatEmptySeq
    <3>. QED BY <3>1, <3>2
  <2>2. CASE k # 1
    <3>1. f[k] = f[k - 1] \o pieces[k]
      BY <1>1, <2>2
    <3>2. Made(f, k) = f[k] /\ Made(f, k - 1) = f[k - 1]
      BY <2>2 DEF Made
    <3>. QED BY <3>1, <3>2
  <2>. QED BY <2>1, <2>2
<1> DEFINE H == {k \in Nat : Made(f, k) \in Seq(Int)}
<1>3. 0 \in H
  BY DEF Made
<1>4. ASSUME NEW k \in 0..(n - 1), k \in H PROVE k + 1 \in H
  <2>1. PICK i \in 1..n : i = k + 1
    OBVIOUS
  <2>2. i - 1 = k
    BY <2>1
  <2>3. Made(f, i) = Made(f, k) \o pieces[i]
    BY <1>2, <2>2
  <2>4. pieces[i] \in Seq(Int) /\ Made(f, k) \in Seq(Int)
    BY <1>4
  <2>5. Made(f, k) \o pieces[i] \in Seq(Int)
    BY <2>4, Appended
  <2>6. Made(f, k + 1) \in Seq(Int) /\ k + 1 \in Nat
    <3>1. Made(f, i) \in Seq(Int)
      BY <2>3, <2>5
    <3>. QED BY <2>1, <3>1
  <2>. QED BY <2>6
<1>5. \A k \in 0..n : k \in H
  <2> HIDE DEF H
  <2>. QED BY <1>3, <1>4, UpTo
<1>. QED BY <1>2, <1>5

\* What was appended stays where it is.
LEMMA MadeStays ==
  ASSUME NEW n, NEW pieces, NEW f, Makes(f, pieces, n),
         NEW k \in 0..n
  PROVE  /\ Len(Made(f, k)) <= Len(Made(f, n))
         /\ \A j \in 1..Len(Made(f, k)) : Made(f, n)[j] = Made(f, k)[j]
<1>. n \in Nat /\ \A i \in 1..n : pieces[i] \in Seq(Int)
  BY DEF Makes
<1> DEFINE H == {d \in Nat :
             d <= n - k =>
               /\ Len(Made(f, k)) <= Len(Made(f, k + d))
               /\ \A j \in 1..Len(Made(f, k)) : Made(f, k + d)[j] = Made(f, k)[j]}
<1>1. /\ \A i \in 0..n : Made(f, i) \in Seq(Int)
      /\ \A i \in 1..n : Made(f, i) = Made(f, i - 1) \o pieces[i]
  BY MadeGrows
<1>2. 0 \in H
  <2>1. Len(Made(f, k)) \in Nat
    BY <1>1
  <2>. QED BY <2>1
<1>3. ASSUME NEW d \in 0..(n - k - 1), d \in H PROVE d + 1 \in H
  <2>1. PICK i \in 1..n : i = k + d + 1
    OBVIOUS
  <2>2. Made(f, i - 1) \in Seq(Int) /\ pieces[i] \in Seq(Int)
    BY <1>1
  <2>3. Made(f, i) = Made(f, i - 1) \o pieces[i]
    BY <1>1
  <2> DEFINE a == Made(f, i - 1)
             c == Made(f, i)
  <2>4. /\ Len(c) = Len(a) + Len(pieces[i])
        /\ \A j \in 1..(Len(a) + Len(pieces[i])) :
             c[j] = IF j <= Len(a) THEN a[j] ELSE pieces[i][j - Len(a)]
    <3> DEFINE b == pieces[i]
    <3>1. a \in Seq(Int) /\ b \in Seq(Int)
      BY <2>2
    <3>2. c = a \o b
      BY <2>3
    <3> HIDE DEF a, b, c
    <3>3. /\ Len(c) = Len(a) + Len(b)
          /\ \A j \in 1..(Len(a) + Len(b)) :
               c[j] = IF j <= Len(a) THEN a[j] ELSE b[j - Len(a)]
      BY <3>1, <3>2, Appended
    <3>. QED BY <3>3 DEF b
  <2>5. Len(a) \in Nat /\ Len(pieces[i]) \in Nat
    BY <2>2
  <2>6. /\ Len(Made(f, k)) <= Len(a)
        /\ \A j \in 1..Len(Made(f, k)) : a[j] = Made(f, k)[j]
    <3>1. i - 1 = k + d /\ d <= n - k
      BY <2>1
    <3>. QED BY <1>3, <3>1
  <2>7. Len(Made(f, k)) \in Nat
    BY <1>1
  <2> DEFINE short == Len(Made(f, k))
             more == Len(pieces[i])
             long == Len(a)
  <2> HIDE DEF a, c
  <2>8. /\ short <= Len(c)
        /\ \A j \in 1..short : c[j] = Made(f, k)[j]
    <3>1. /\ Len(c) = long + more
          /\ \A j \in 1..(long + more) : j <= long => c[j] = a[j]
      BY <2>4
    <3>2. short \in Nat /\ more \in Nat /\ long \in Nat /\ short <= long
      BY <2>5, <2>6, <2>7
    <3>3. \A j \in 1..short : a[j] = Made(f, k)[j]
      BY <2>6
    <3> HIDE DEF short, more, long
    <3>4. \A j \in 1..short : j \in 1..(long + more) /\ j <= long
      BY <3>2
    <3>. QED BY <3>1, <3>2, <3>3, <3>4
  <2>9. c = Made(f, k + (d + 1))
    BY <2>1 DEF c
  <2>. QED BY <2>8, <2>9
<1>4. n - k \in H
  <2> DEFINE bound == n - k
  <2>1. bound \in Nat
    OBVIOUS
  <2>2. \A d \in 0..(bound - 1) : d \in H => d + 1 \in H
    BY <1>3
  <2> HIDE DEF H, bound
  <2>3. \A d \in 0..bound : d \in H
    BY <1>2, <2>1, <2>2, UpTo
  <2>. QED BY <2>1, <2>3 DEF bound
<1>5. k + (n - k) = n
  OBVIOUS
<1>. QED BY <1>4, <1>5

\* Piece k, of that size, comes after the first "at" chars of the whole.
Comes(f, pieces, n, k, at, size) ==
  /\ k \in 1..n /\ at \in Nat /\ size \in Nat
  /\ at = Len(Made(f, k - 1)) /\ size = Len(pieces[k])

\* The places of piece k in the whole.
LEMMA PieceIsThere ==
  ASSUME NEW n, NEW pieces, NEW f, Makes(f, pieces, n),
         NEW k, NEW at, NEW size, Comes(f, pieces, n, k, at, size)
  PROVE  /\ Len(Made(f, k)) = at + size
         /\ \A j \in 1..size : Made(f, n)[at + j] = pieces[k][j]
<1>. n \in Nat /\ \A i \in 1..n : pieces[i] \in Seq(Int)
  BY DEF Makes
<1>. /\ k \in 1..n /\ at \in Nat /\ size \in Nat
     /\ at = Len(Made(f, k - 1)) /\ size = Len(pieces[k])
  BY DEF Comes
<1> DEFINE a == Made(f, k - 1)
           c == Made(f, k)
           p == pieces[k]
           all == Made(f, n)
<1>1. a \in Seq(Int) /\ p \in Seq(Int) /\ c = a \o p
  <2>1. /\ \A i \in 0..n : Made(f, i) \in Seq(Int)
        /\ \A i \in 1..n : Made(f, i) = Made(f, i - 1) \o pieces[i]
    BY MadeGrows
  <2>2. k - 1 \in 0..n
    OBVIOUS
  <2>. QED BY <2>1, <2>2
<1> HIDE DEF a, c, p
<1>2. /\ Len(c) = Len(a) + Len(p)
      /\ \A j \in 1..(Len(a) + Len(p)) : c[j] = IF j <= Len(a) THEN a[j] ELSE p[j - Len(a)]
  BY <1>1, Appended
<1>3. \A j \in 1..Len(c) : all[j] = c[j]
  BY MadeStays DEF c
<1>4. Len(a) \in Nat /\ Len(p) \in Nat
  BY <1>1
<1> HIDE DEF all
<1>5. ASSUME NEW j \in 1..Len(p) PROVE all[Len(a) + j] = p[j]
  <2>1. Len(a) + j \in 1..(Len(a) + Len(p)) /\ ~(Len(a) + j <= Len(a))
        /\ (Len(a) + j) - Len(a) = j
    BY <1>4
  <2>. QED BY <1>2, <1>3, <2>1
<1>. QED BY <1>2, <1>5 DEF a, c, p, all

\* Reading one piece: where the next begins the rest of the name is read.
Reads(app, n, k, name, L, g, at, piece, size) ==
  /\ n \in Nat /\ app \in Seq(0..127) /\ n = Len(app) /\ k \in 1..n
  /\ L \in Nat /\ L = Len(name) /\ RestFrom(name, g, 1)
  /\ at \in Nat /\ piece = Piece(app[k])
  /\ size \in Nat /\ size = Len(piece) /\ at + size <= L
  /\ \A j \in 1..size : name[at + j] = piece[j]
  /\ g[(at + size) + 1] = SubSeq(app, k + 1, n)

ReadsFrom(app, n, k, g, at) == g[at + 1] = SubSeq(app, k, n)

LEMMA ReadsOn ==
  ASSUME NEW n, NEW app, NEW k, NEW name, NEW L, NEW g, NEW at, NEW piece, NEW size,
         Reads(app, n, k, name, L, g, at, piece, size)
  PROVE  ReadsFrom(app, n, k, g, at)
<1>. /\ n \in Nat /\ app \in Seq(0..127) /\ n = Len(app) /\ k \in 1..n
     /\ L \in Nat /\ L = Len(name) /\ RestFrom(name, g, 1)
     /\ at \in Nat /\ piece = Piece(app[k])
     /\ size \in Nat /\ size = Len(piece) /\ at + size <= L
     /\ \A j \in 1..size : name[at + j] = piece[j]
     /\ g[(at + size) + 1] = SubSeq(app, k + 1, n)
  BY DEF Reads
<1>1. \A i \in 1..(L + 1) :
        g[i] = IF i > L THEN <<>>
               ELSE IF /\ i + 3 <= L /\ name[i] = 92 /\ name[i + 1] = 120
                       /\ IsHex(name[i + 2]) /\ IsHex(name[i + 3])
               THEN <<16 * Scope!Digit(name[i + 2]) + Scope!Digit(name[i + 3])>> \o g[i + 4]
               ELSE <<name[i]>> \o g[i + 1]
  BY DEF RestFrom
<1>2. SubSeq(app, k, n) = <<app[k]>> \o SubSeq(app, k + 1, n)
  <2>1. k \in 1..Len(app) /\ n \in k..Len(app)
    OBVIOUS
  <2>2. app \in Seq(0..127)
    OBVIOUS
  <2>. QED BY ONLY <2>1, <2>2, SubSeqRecursiveFirst
<1>3. CASE piece = <<app[k]>> /\ app[k] # 92
  <2>1. size = 1 /\ piece[1] = app[k]
    BY <1>3
  <2>2. PICK i \in 1..L : i = at + 1
    BY <2>1
  <2>3. name[i] = app[k]
    BY <2>1, <2>2
  <2>4. g[i + 1] = SubSeq(app, k + 1, n)
    <3>1. (at + size) + 1 = i + 1
      BY <2>1, <2>2
    <3>2. g[(at + size) + 1] = SubSeq(app, k + 1, n)
      OBVIOUS
    <3>. QED BY ONLY <3>1, <3>2
  <2>5. i \in 1..(L + 1) /\ ~(i > L)
    OBVIOUS
  <2>6. g[i] = <<name[i]>> \o g[i + 1]
    BY <1>1, <1>3, <2>3, <2>5
  <2>. QED BY <1>2, <2>2, <2>3, <2>4, <2>6 DEF ReadsFrom
<1>4. CASE \E h \in Int, l \in Int :
             /\ piece = <<92, 120, h, l>> /\ IsHex(h) /\ IsHex(l)
             /\ 16 * Scope!Digit(h) + Scope!Digit(l) = app[k]
  <2>1. PICK h \in Int, l \in Int :
             /\ piece = <<92, 120, h, l>> /\ IsHex(h) /\ IsHex(l)
             /\ 16 * Scope!Digit(h) + Scope!Digit(l) = app[k]
    BY <1>4
  <2>2. /\ size = 4 /\ piece[1] = 92 /\ piece[2] = 120 /\ piece[3] = h /\ piece[4] = l
    BY <2>1
  <2>3. PICK i \in 1..L : i = at + 1
    BY <2>2
  <2>4. name[at + 1] = 92 /\ name[at + 2] = 120 /\ name[at + 3] = h /\ name[at + 4] = l
    <3>1. 1 \in 1..size /\ 2 \in 1..size /\ 3 \in 1..size /\ 4 \in 1..size
      BY <2>2
    <3>2. /\ name[at + 1] = piece[1] /\ name[at + 2] = piece[2]
          /\ name[at + 3] = piece[3] /\ name[at + 4] = piece[4]
      BY <3>1
    <3>. QED BY <2>2, <3>2
  <2>5. at + 2 = i + 1 /\ at + 3 = i + 2 /\ at + 4 = i + 3 /\ (at + 4) + 1 = i + 4
        /\ i + 3 <= L /\ i \in 1..(L + 1) /\ ~(i > L)
    BY <2>2, <2>3
  <2>6. name[i] = 92 /\ name[i + 1] = 120 /\ name[i + 2] = h /\ name[i + 3] = l
    BY <2>3, <2>4, <2>5
  <2>7. g[i] = <<16 * Scope!Digit(name[i + 2]) + Scope!Digit(name[i + 3])>> \o g[i + 4]
    BY <1>1, <2>1, <2>5, <2>6
  <2>8. g[i + 4] = SubSeq(app, k + 1, n)
    <3>1. (at + size) + 1 = (at + 4) + 1
      BY <2>2
    <3>2. g[(at + size) + 1] = SubSeq(app, k + 1, n)
      OBVIOUS
    <3>. QED BY ONLY <2>5, <3>1, <3>2
  <2>9. <<16 * Scope!Digit(name[i + 2]) + Scope!Digit(name[i + 3])>> = <<app[k]>>
    BY <2>1, <2>6
  <2>. QED BY <1>2, <2>3, <2>7, <2>8, <2>9 DEF ReadsFrom
<1>5. app[k] \in 0..127
  BY ElementOfSeq
<1>. QED BY <1>3, <1>4, <1>5, PieceOfAscii DEF ReadsFrom

\* Reading from the place where piece k + 1 begins gives the rest of the name.
LEMMA ReadsTheRest ==
  ASSUME NEW n \in Nat, NEW app \in Seq(0..127), n = Len(app), NEW pieces,
         \A i \in 1..n : pieces[i] = Piece(app[i]),
         NEW f, FlattenedTo(pieces, f, n),
         NEW name, name = Made(f, n), NEW g, RestFrom(name, g, 1)
  PROVE  g[1] = app
<1> DEFINE start(k) == Len(Made(f, k))
           H == {d \in Nat : d <= n => g[start(n - d) + 1] = SubSeq(app, (n - d) + 1, n)}
<1>1. \A i \in 1..n : pieces[i] \in Seq(Int)
  <2>1. \A i \in 1..n : app[i] \in 0..127
    BY ElementOfSeq
  <2>. QED BY <2>1, PieceOfAscii
<1>0. Makes(f, pieces, n)
  BY <1>1 DEF Makes
<1>2. \A k \in 0..n : Made(f, k) \in Seq(Int)
  BY <1>0, MadeGrows
<1>3. PICK L \in Nat : L = Len(name)
  BY <1>2
<1>4. \A k \in 0..n : start(k) \in Nat /\ start(k) <= L
  <2>1. \A k \in 0..n : start(k) <= Len(Made(f, n))
    BY <1>0, MadeStays
  <2>. QED BY <1>2, <1>3, <2>1
<1>5. 0 \in H
  <2>1. start(n - 0) = L /\ (n - 0) + 1 = n + 1
    BY <1>3
  <2>2. g[L + 1] = <<>>
    <3>1. L + 1 \in 1..(Len(name) + 1) /\ L + 1 > Len(name)
      BY <1>3
    <3>. QED BY <3>1 DEF RestFrom
  <2>3. SubSeq(app, n + 1, n) = <<>>
    BY SubSeqEmpty
  <2> HIDE DEF start
  <2>. QED BY <2>1, <2>2, <2>3
<1>6. ASSUME NEW d \in 0..(n - 1), d \in H PROVE d + 1 \in H
  <2>1. PICK k \in 1..n : k = n - d
    OBVIOUS
  <2>2. g[start(k) + 1] = SubSeq(app, k + 1, n)
    BY <1>6, <2>1
  <2>3. PICK piece : piece = Piece(app[k]) /\ piece = pieces[k] /\ piece \in Seq(Int)
    BY <1>1
  <2>4. PICK size \in Nat : size = Len(piece)
    BY <2>3
  <2>5. PICK at \in Nat : at = start(k - 1)
    <3>1. k - 1 \in 0..n
      OBVIOUS
    <3> HIDE DEF start
    <3>. QED BY <1>4, <3>1
  <2>6. /\ start(k) = at + size
        /\ \A j \in 1..size : name[at + j] = piece[j]
    <3>1. at = Len(Made(f, k - 1)) /\ size = Len(pieces[k])
      BY <2>3, <2>4, <2>5
    <3>2. /\ Len(Made(f, k)) = at + size
          /\ \A j \in 1..size : Made(f, n)[at + j] = pieces[k][j]
      <4>1. Comes(f, pieces, n, k, at, size)
        BY <3>1 DEF Comes
      <4>. QED BY ONLY <1>0, <4>1, PieceIsThere
    <3>. QED BY <2>3, <3>2
  <2>7. at + size <= L
    <3> HIDE DEF start
    <3>. QED BY <1>4, <2>6
  <2>8. g[(at + size) + 1] = SubSeq(app, k + 1, n)
    BY <2>2, <2>6
  <2>9. g[at + 1] = SubSeq(app, k, n)
    <3> HIDE DEF start, H
    <3>1. \A j \in 1..size : name[at + j] = piece[j]
      BY <2>6
    <3>2. piece = Piece(app[k]) /\ size = Len(piece) /\ L = Len(name)
      BY <1>3, <2>3, <2>4
    <3>3. Reads(app, n, k, name, L, g, at, piece, size)
      BY <2>7, <2>8, <3>1, <3>2 DEF Reads
    <3>4. ReadsFrom(app, n, k, g, at)
      BY ONLY <3>3, ReadsOn
    <3>. QED BY <3>4 DEF ReadsFrom
  <2>10. n - (d + 1) = k - 1 /\ (n - (d + 1)) + 1 = k /\ d + 1 \in Nat
    BY <2>1
  <2> HIDE DEF start
  <2>. QED BY <2>5, <2>9, <2>10
<1>7. n \in H
  <2> HIDE DEF H
  <2>1. \A d \in 0..n : d \in H
    BY <1>5, <1>6, UpTo
  <2>. QED BY <2>1
<1>8. start(n - n) = 0 /\ (n - n) + 1 = 1 /\ 0 + 1 = 1
  BY DEF Made
<1>9. g[1] = SubSeq(app, 1, n)
  <2> HIDE DEF start
  <2>. QED BY <1>7, <1>8
<1>. QED BY <1>9, SubSeqFull

\* systemd reads back what was escaped: the loop of systemd_unit_name_escape
\* undone by unit_name_unescape, for any name of ASCII.
LEMMA EscapedNamesCanBeRead ==
  ASSUME NEW app \in Seq(0..127)
  PROVE  Scope!Unescape(Scope!systemd_unit_name_escape(app)) = app
<1> DEFINE n == Len(app)
           pieces == [i \in 1..n |-> Piece(app[i])]
<1>1. n \in Nat /\ DOMAIN app = 1..n /\ Len(pieces) = n
  OBVIOUS
<1>2. Scope!systemd_unit_name_escape(app) = Scope!FlattenSeq(pieces)
  BY <1>1 DEF Scope!systemd_unit_name_escape, Piece
<1>3. Scope!FlattenSeq(pieces) = FlattenSeq(pieces)
  BY DEF Scope!FlattenSeq, FlattenSeq
<1>4. \A i \in 1..n : pieces[i] = Piece(app[i]) /\ pieces[i] \in Seq(Int)
  <2>1. \A i \in 1..n : app[i] \in 0..127
    BY ElementOfSeq
  <2>2. \A i \in 1..n : pieces[i] = Piece(app[i])
    OBVIOUS
  <2> HIDE DEF pieces
  <2>. QED BY <2>1, <2>2, PieceOfAscii
<1>5. CASE n = 0
  <2>1. pieces = <<>> /\ app = <<>>
    BY <1>5
  <2>2. FlattenSeq(pieces) = <<>>
    BY <2>1 DEF FlattenSeq
  <2>3. PICK g : RestFrom(<<>>, g, 1) /\ Scope!Unescape(<<>>) = g[1]
    BY UnescapeIsRest
  <2>4. g[1] = <<>>
    BY <2>3 DEF RestFrom
  <2>. QED BY <1>2, <1>3, <2>1, <2>2, <2>3, <2>4
<1>6. CASE n > 0
  <2>1. PICK f : FlattenedTo(pieces, f, n) /\ FlattenSeq(pieces) = f[n]
    <3> HIDE DEF pieces
    <3>. QED BY <1>1, <1>6, Flattening
  <2>2. Made(f, n) = f[n] /\ Made(f, n) \in Seq(Int)
    <3>1. Made(f, n) = f[n]
      BY <1>6 DEF Made
    <3> HIDE DEF n, pieces
    <3>2. \A k \in 0..n : Made(f, k) \in Seq(Int)
      <4>1. Makes(f, pieces, n)
        BY <1>1, <1>4, <2>1 DEF Makes
      <4>. QED BY <4>1, MadeGrows
    <3>3. n \in 0..n
      BY <1>1
    <3>. QED BY <3>1, <3>2, <3>3
  <2>3. PICK g : RestFrom(Made(f, n), g, 1) /\ Scope!Unescape(Made(f, n)) = g[1]
    BY <2>2, UnescapeIsRest
  <2>4. g[1] = app
    <3> HIDE DEF pieces
    <3>. QED BY <1>1, <1>4, <2>1, <2>3, ReadsTheRest
  <2>. QED BY <1>2, <1>3, <2>1, <2>2, <2>3, <2>4
<1>. QED BY <1>1, <1>5, <1>6

\* The unit of a task is that of its name, for some process
\* (gnome-systemd.c:196-280).
ScopeUnitInv ==
  \A t \in Tasks :
    task[t].unit # None => \E pid \in Pids : task[t].unit = Scope!Unit(task[t].name, pid)

\* A step that leaves name and unit of the one task it changes alone.
LEMMA SameUnit ==
  ASSUME Scope!TypeOK, ScopeUnitInv, NEW t \in Tasks, NEW it,
         task' = [task EXCEPT ![t] = it],
         it.unit = task[t].unit, it.name = task[t].name
  PROVE  ScopeUnitInv'
<1>1. \A u \in Tasks : task'[u].unit = task[u].unit /\ task'[u].name = task[u].name
  BY DEF Scope!TypeOK
<1>2. SUFFICES ASSUME NEW u \in Tasks, task'[u].unit # None
      PROVE  \E pid \in Pids : task'[u].unit = Scope!Unit(task'[u].name, pid)
  BY DEF ScopeUnitInv, Scope!Unit
<1>3. PICK pid \in Pids : task[u].unit = Scope!Unit(task[u].name, pid)
  BY <1>1, <1>2 DEF ScopeUnitInv
<1>4. Scope!Unit(task'[u].name, pid) = Scope!Unit(task[u].name, pid)
  BY <1>1
<1>. QED BY <1>1, <1>3, <1>4

\* An answer changes neither name nor unit.
LEMMA ReturnedKeeps ==
  ASSUME NEW it \in TaskType, NEW result
  PROVE  Scope!Returned(it, result).unit = it.unit /\ Scope!Returned(it, result).name = it.name
BY DEF Scope!Returned, TaskType

\* Only the request names the unit, and of the name it was made with.
LEMMA ScopeUnitStep ==
  Scope!TypeOK /\ ScopeUnitInv /\ [Scope!Next]_(scopeVars) => ScopeUnitInv'
<1> SUFFICES ASSUME Scope!TypeOK, ScopeUnitInv, [Scope!Next]_(scopeVars) PROVE ScopeUnitInv'
  OBVIOUS
<1>1. \A t \in Tasks : task[t] \in TaskType
  BY DEF Scope!TypeOK, TaskType
<1>2. ASSUME UNCHANGED task PROVE ScopeUnitInv'
  BY <1>2 DEF ScopeUnitInv, Scope!Unit
<1>3. ASSUME NEW t \in Tasks, NEW result, Scope!Return(t, task[t], result)
      PROVE  ScopeUnitInv'
  <2>1. PICK new : /\ new = Scope!Returned(task[t], result)
                   /\ task' = [task EXCEPT ![t] = new]
    BY <1>3 DEF Scope!Return
  <2>2. new.unit = task[t].unit /\ new.name = task[t].name
    BY <1>1, <2>1, ReturnedKeeps
  <2>. QED BY <2>1, <2>2, SameUnit
<1>4. ASSUME NEW t \in Tasks, Scope!Request(t) PROVE ScopeUnitInv'
  <2>1. PICK name \in AppNames \cup {None}, pid \in Pids,
             res \in {"unit", "ENODATA", "error"}, connection \in BOOLEAN :
          LET it == [task[t] EXCEPT !.name = name, !.unit = Scope!Unit(name, pid)]
          IN \/ res = "ENODATA" /\ Scope!Return(t, [it EXCEPT !.unit = None], "true")
             \/ res = "error" /\ Scope!Return(t, it, "error")
             \/ res = "unit" /\ connection /\ Scope!StartUnit(t, it)
             \/ /\ res = "unit" /\ ~connection
                /\ task' = [task EXCEPT ![t] = [it EXCEPT !.step = "bus"]]
                /\ UNCHANGED wire
    BY <1>4, Zenon DEF Scope!Request
  <2>2. PICK u : u = Scope!Unit(name, pid)
    OBVIOUS
  <2> DEFINE it == [task[t] EXCEPT !.name = name, !.unit = u]
             without == [it EXCEPT !.unit = None]
  <2>3. \E new : /\ task' = [task EXCEPT ![t] = new]
                 /\ new.unit = None \/ (new.unit = u /\ new.name = name)
    <3>1. it.unit = u /\ it.name = name /\ without.unit = None
      BY <1>1 DEF TaskType
    <3>2. \/ task' = [task EXCEPT ![t] = Scope!Returned(without, "true")]
          \/ task' = [task EXCEPT ![t] = Scope!Returned(it, "error")]
          \/ task' = [task EXCEPT ![t] = [it EXCEPT !.step = "call"]]
          \/ task' = [task EXCEPT ![t] = [it EXCEPT !.step = "bus"]]
      BY <2>1, <2>2 DEF Scope!Return, Scope!StartUnit
    <3>3. /\ Scope!Returned(without, "true").unit = None
          /\ Scope!Returned(it, "error").unit = u /\ Scope!Returned(it, "error").name = name
          /\ [it EXCEPT !.step = "call"].unit = u /\ [it EXCEPT !.step = "call"].name = name
          /\ [it EXCEPT !.step = "bus"].unit = u /\ [it EXCEPT !.step = "bus"].name = name
      BY <1>1 DEF TaskType, Scope!Returned
    <3> HIDE DEF it, without
    <3>. QED BY <3>2, <3>3
  <2>4. PICK new : /\ task' = [task EXCEPT ![t] = new]
                   /\ new.unit = None \/ (new.unit = u /\ new.name = name)
    BY <2>3
  <2>5. /\ task'[t] = new
        /\ \A v \in Tasks : v # t => task'[v] = task[v]
    BY <2>4 DEF Scope!TypeOK
  <2>6. SUFFICES ASSUME NEW v \in Tasks, task'[v].unit # None
        PROVE  \E p \in Pids : task'[v].unit = Scope!Unit(task'[v].name, p)
    BY DEF ScopeUnitInv, Scope!Unit
  <2>7. CASE v = t
    BY <2>2, <2>4, <2>5, <2>6, <2>7
  <2>8. CASE v # t
    BY <2>5, <2>6, <2>8 DEF ScopeUnitInv
  <2>. QED BY <2>7, <2>8, Zenon
<1>5. ASSUME NEW t \in Tasks, Scope!StartUnit(t, task[t]) PROVE ScopeUnitInv'
  <2>1. PICK new : /\ new = [task[t] EXCEPT !.step = "call"]
                   /\ task' = [task EXCEPT ![t] = new]
    BY <1>5 DEF Scope!StartUnit
  <2>2. new.unit = task[t].unit /\ new.name = task[t].name
    BY <1>1, <2>1 DEF TaskType
  <2>. QED BY <2>1, <2>2, SameUnit
<1>6. ASSUME NEW t \in Tasks, Scope!Callback(t) PROVE ScopeUnitInv'
  <2>1. PICK new : /\ new = [task[t] EXCEPT !.step = "done",
                              !.result = IF task[t].cancelled THEN "cancelled" ELSE @]
                   /\ task' = [task EXCEPT ![t] = new]
    BY <1>6 DEF Scope!Callback
  <2>2. new.unit = task[t].unit /\ new.name = task[t].name
    BY <1>1, <2>1 DEF TaskType
  <2>. QED BY <2>1, <2>2, SameUnit
<1>7. ASSUME NEW t \in Tasks, Scope!Cancel(t) PROVE ScopeUnitInv'
  <2>1. PICK new : /\ new = [task[t] EXCEPT !.cancelled = TRUE]
                   /\ task' = [task EXCEPT ![t] = new]
    BY <1>7 DEF Scope!Cancel
  <2>2. new.unit = task[t].unit /\ new.name = task[t].name
    BY <1>1, <2>1 DEF TaskType
  <2>. QED BY <2>1, <2>2, SameUnit
<1>8. ASSUME NEW t \in Tasks, Scope!BusGotten(t) PROVE ScopeUnitInv'
  BY <1>3, <1>5, <1>8 DEF Scope!BusGotten
<1>9. ASSUME NEW t \in Tasks, Scope!OnStartTransientUnit(t) PROVE ScopeUnitInv'
  BY <1>3, <1>9 DEF Scope!OnStartTransientUnit
<1>10. ASSUME NEW t \in Tasks, Scope!CallArrives(t) PROVE ScopeUnitInv'
  BY <1>2, <1>10 DEF Scope!CallArrives
<1>11. ASSUME Scope!ScopeEnds PROVE ScopeUnitInv'
  BY <1>2, <1>11 DEF Scope!ScopeEnds
<1>12. CASE UNCHANGED scopeVars
  BY <1>2, <1>12 DEF scopeVars
<1>. QED BY <1>4, <1>6, <1>7, <1>8, <1>9, <1>10, <1>11, <1>12 DEF Scope!Next

\* The name of an application is of chars, and of ASCII when none is negative.
LEMMA NamesOfAscii ==
  ASSUME NEW name \in AppNames \cup {None},
         \A i \in DOMAIN Scope!AppName(name) : Scope!AppName(name)[i] >= 0
  PROVE  Scope!AppName(name) \in Seq(0..127)
<1>1. Scope!Unknown \in Seq(-128..127) /\ Scope!DotDesktop \in Seq(-128..127)
  BY DEF Scope!Unknown, Scope!DotDesktop
<1>2. PICK app : app = Scope!AppName(name) /\ app \in Seq(-128..127)
  <2>1. CASE name = None
    BY <1>1, <2>1 DEF Scope!AppName
  <2>2. CASE name # None
    <3>1. name.base \in Seq(-128..127)
      BY <2>2, ScopeAssumption
    <3>2. \A last \in Seq(-128..127) : name.base \o last \in Seq(-128..127)
      BY <3>1
    <3>3. <<>> \in Seq(-128..127)
      OBVIOUS
    <3>. QED BY <1>1, <2>2, <3>2, <3>3 DEF Scope!AppName
  <2>. QED BY <2>1, <2>2
<1>3. \A i \in DOMAIN app : app[i] \in 0..127
  <2>1. DOMAIN app = 1..Len(app)
    BY <1>2
  <2>2. \A i \in 1..Len(app) : app[i] \in -128..127
    BY <1>2, ElementOfSeq
  <2>3. \A i \in DOMAIN app : app[i] >= 0
    BY <1>2
  <2>4. \A c \in -128..127 : c >= 0 => c \in 0..127
    OBVIOUS
  <2>5. SUFFICES ASSUME NEW i \in DOMAIN app PROVE app[i] \in 0..127
    OBVIOUS
  <2>6. app[i] \in -128..127 /\ app[i] >= 0
    BY <2>1, <2>2, <2>3, Zenon
  <2>. QED BY ONLY <2>4, <2>6
<1>4. \E n \in Nat : app \in [1..n -> 0..127]
  <2>1. app \in [1..Len(app) -> -128..127] /\ Len(app) \in Nat
    BY <1>2, LenProperties
  <2>. QED BY <1>3, <2>1
<1>5. app \in Seq(0..127)
  BY <1>4, SeqDef
<1>. QED BY <1>2, <1>5

-----------------------------------------------------------------------------
(* The runs of thumbnailers (ThumbnailScript)                              *)

\* Where a run has a descriptor, and files, at all.
ScriptHoldsInv ==
  \A r \in Runs :
    /\ r \in fds => run[r].step \in {"ready", "child", "exited", "cleaning", "leaving"}
    /\ run[r].step \in {"idle", "begun"} => \A file \in files : file[1] # r

\* What a finished run left is what its thumbnailer left, and where.
ScriptLeftInv ==
  \A r \in Runs : run[r].step = "done" =>
    \A file \in files : file[1] = r =>
      Script!Has(r, "left") /\ file[2] \in {"outdir", "left"}

\* A registry half written could not be removed, or belongs to a run that will
\* clean the directory or has it yet to read.
ScriptRegistryInv ==
  \A r \in registry \ {Script!Registry} :
    /\ r \in Runs
    /\ \/ r \in spared
       \/ run[r].has_gst_registry /\ run[r].step \in {"child", "exited"}
       \/ run[r].step = "cleaning" /\ r \in run[r].unread

\* The records of TypeOK.
ScriptExec ==
  [step : {"idle", "begun", "made", "ready", "child", "exited", "cleaning", "leaving", "done"},
   sandbox : {"none", "bwrap", "flatpak"}, has_gst_registry : BOOLEAN,
   unread : SUBSET Runs]

ScriptIInv == Script!TypeOK /\ ScriptHoldsInv /\ ScriptLeftInv /\ ScriptRegistryInv

LEMMA ScriptRunType == Script!TypeOK => run \in [Runs -> ScriptExec]
  BY DEF Script!TypeOK, ScriptExec

\* Each field can be given another of its values.
LEMMA ExecFields ==
  ASSUME NEW exec \in ScriptExec
  PROVE /\ \A step \in {"idle", "begun", "made", "ready", "child", "exited", "cleaning",
                        "leaving", "done"} : [exec EXCEPT !.step = step] \in ScriptExec
        /\ \A sandbox \in {"none", "bwrap", "flatpak"} :
             [exec EXCEPT !.sandbox = sandbox] \in ScriptExec
        /\ \A gst \in BOOLEAN : [exec EXCEPT !.has_gst_registry = gst] \in ScriptExec
        /\ \A unread \in SUBSET Runs : [exec EXCEPT !.unread = unread] \in ScriptExec
BY DEF ScriptExec

LEMMA NoExecType ==
  Script!NoExec \in ScriptExec /\ [Script!NoExec EXCEPT !.step = "done"] \in ScriptExec
  BY DEF Script!NoExec, ScriptExec

LEMMA ScriptInit == Script!Init => ScriptIInv
<1> SUFFICES ASSUME Script!Init PROVE ScriptIInv
  OBVIOUS
<1>1. run \in [Runs -> ScriptExec]
  BY NoExecType DEF Script!Init
<1>2. Script!TypeOK
  BY <1>1 DEF Script!Init, Script!TypeOK, ScriptExec
<1>3. ScriptHoldsInv /\ ScriptLeftInv /\ ScriptRegistryInv
  BY DEF Script!Init, Script!NoExec, ScriptHoldsInv, ScriptLeftInv, ScriptRegistryInv
<1>. QED BY <1>2, <1>3 DEF ScriptIInv

\* A run that has begun nothing, or makes its files, leaves what the others
\* hold as it was (generate_thumbnail, script_exec_new).
LEMMA ScriptBeginStep ==
  ASSUME ScriptIInv, NEW r \in Runs,
         Script!Generate(r) \/ Script!ScriptExecNew(r) \/ Script!NoSessionBus(r)
  PROVE ScriptIInv'
<1>1. CASE Script!Generate(r)
  <2> PICK step \in {"begun", "done"} : run' = [run EXCEPT ![r].step = step]
    BY <1>1 DEF Script!Generate
  <2>1. run[r].step = "idle" /\ UNCHANGED <<environment, portal, Script!fileVars, script>>
    BY <1>1 DEF Script!Generate, Script!At
  <2>2. Script!TypeOK'
    BY <2>1 DEF ScriptIInv, Script!TypeOK, Script!fileVars, Script!registryVars
  <2>3. ScriptHoldsInv' /\ ScriptLeftInv' /\ ScriptRegistryInv'
    BY <2>1 DEF ScriptIInv, Script!TypeOK, ScriptHoldsInv, ScriptLeftInv,
                ScriptRegistryInv, Script!fileVars, Script!registryVars, Script!Has
  <2>. QED BY <2>2, <2>3, Zenon DEF ScriptIInv
<1>2. CASE Script!ScriptExecNew(r)
  <2> PICK version \in Script!PortalVersion, fails \in BOOLEAN :
        LET sandbox == Script!Sandbox(version)
        IN /\ portal' = IF environment = "flatpak" THEN version ELSE portal
           /\ run' = IF fails
                     THEN [run EXCEPT ![r] = [Script!NoExec EXCEPT !.step = "done"]]
                     ELSE [run EXCEPT ![r].step = "made", ![r].sandbox = sandbox]
           /\ files' = IF fails THEN files
                       ELSE files \cup {<<r, IF sandbox = "none" THEN "outfile"
                                             ELSE "outdir">>}
    BY <1>2 DEF Script!ScriptExecNew
  <2>1. /\ run[r].step = "begun" /\ script = "alive"
        /\ UNCHANGED <<environment, fds, registry, spared, script>>
    BY <1>2 DEF Script!ScriptExecNew, Script!At, Script!registryVars
  <2>2. /\ Script!Sandbox(version) \in {"none", "bwrap", "flatpak"}
        /\ version \in {None, "old", "new"}
    BY DEF Script!Sandbox, Script!PortalVersion, ScriptIInv, Script!TypeOK
  <2>3. CASE fails
    <3>1. Script!TypeOK'
      <4>1. run \in [Runs -> ScriptExec]
        BY ScriptRunType DEF ScriptIInv
      <4>2. run' \in [Runs -> ScriptExec]
        BY <2>3, <4>1, NoExecType
      <4>. QED BY <2>1, <2>2, <2>3, <4>2 DEF ScriptIInv, Script!TypeOK, ScriptExec
    <3>2. ScriptHoldsInv' /\ ScriptLeftInv' /\ ScriptRegistryInv'
      BY <2>1, <2>2, <2>3 DEF ScriptIInv, Script!TypeOK, ScriptHoldsInv, ScriptLeftInv,
                              ScriptRegistryInv, Script!Has, Script!NoExec
    <3>. QED BY <3>1, <3>2 DEF ScriptIInv
  <2>4. CASE ~fails
    <3> DEFINE what == IF Script!Sandbox(version) = "none" THEN "outfile" ELSE "outdir"
    <3>1. what \in Script!Private /\ files' = files \cup {<<r, what>>}
      BY <2>4 DEF Script!Private
    <3>2. files' \subseteq Runs \X Script!Private
      BY <3>1 DEF ScriptIInv, Script!TypeOK
    <3>3. run' \in [Runs -> ScriptExec]
      <4> DEFINE new == [run[r] EXCEPT !.step = "made", !.sandbox = Script!Sandbox(version)]
      <4>1. run \in [Runs -> ScriptExec]
        BY ScriptRunType DEF ScriptIInv
      <4>2. new \in ScriptExec
        <5>1. run[r] \in ScriptExec
          BY <4>1
        <5>2. [run[r] EXCEPT !.step = "made"] \in ScriptExec
          BY <5>1, ExecFields
        <5>. QED BY <2>2, <5>2, ExecFields
      <4>3. run' = [run EXCEPT ![r] = new]
        BY <2>4, <4>1 DEF ScriptExec
      <4>. QED BY <4>1, <4>2, <4>3
    <3>4. Script!TypeOK'
      BY <2>1, <2>2, <3>2, <3>3 DEF ScriptIInv, Script!TypeOK, ScriptExec
    <3>5. ScriptHoldsInv' /\ ScriptLeftInv' /\ ScriptRegistryInv'
      BY <2>1, <2>2, <2>4 DEF ScriptIInv, Script!TypeOK, ScriptHoldsInv,
                              ScriptLeftInv, ScriptRegistryInv, Script!Has
    <3>. QED BY <3>4, <3>5 DEF ScriptIInv
  <2>. QED BY <2>3, <2>4
<1>3. CASE Script!NoSessionBus(r)
  BY <1>3 DEF Script!NoSessionBus, Script!fileVars, Script!registryVars, ScriptIInv,
              Script!TypeOK, ScriptHoldsInv, ScriptLeftInv, ScriptRegistryInv, Script!Has
<1>. QED BY <1>1, <1>2, <1>3

\* The command is expanded and started (expand_thumbnailing_cmd, g_spawn_sync).
LEMMA ScriptStartStep ==
  ASSUME ScriptIInv, NEW r \in Runs, Script!ExpandCmd(r) \/ Script!Spawn(r)
  PROVE ScriptIInv'
<1>1. CASE Script!ExpandCmd(r)
  <2> PICK parsed \in BOOLEAN, filter \in BOOLEAN, complete \in BOOLEAN, gst \in BOOLEAN :
        LET sandbox == run[r].sandbox
            expanded == parsed /\ (sandbox = "bwrap" => filter) /\ complete
        IN /\ run' = [run EXCEPT
                        ![r].step = IF expanded THEN "ready" ELSE "leaving",
                        ![r].has_gst_registry = parsed /\ sandbox # "none" /\ gst]
           /\ Script!SetupSeccomp(r, parsed /\ sandbox = "bwrap" /\ filter)
    BY <1>1 DEF Script!ExpandCmd
  <2>1. run[r].step = "made" /\ UNCHANGED <<environment, portal, files, registry, spared, script>>
    BY <1>1 DEF Script!ExpandCmd, Script!At, Script!registryVars
  <2>2. fds' = fds \/ fds' = fds \cup {r}
    BY DEF Script!SetupSeccomp
  <2>3. Script!TypeOK'
    <3> DEFINE expanded == parsed /\ (run[r].sandbox = "bwrap" => filter) /\ complete
               step == IF expanded THEN "ready" ELSE "leaving"
               gstreamer == parsed /\ run[r].sandbox # "none" /\ gst
               new == [run[r] EXCEPT !.step = step,
                                     !.has_gst_registry = gstreamer]
    <3>1. run \in [Runs -> ScriptExec]
      BY ScriptRunType DEF ScriptIInv
    <3>2. step \in {"ready", "leaving"}
      OBVIOUS
    <3>3. gstreamer \in BOOLEAN
      OBVIOUS
    <3> HIDE DEF expanded, step, gstreamer
    <3>4. new \in ScriptExec
      <4>1. run[r] \in ScriptExec
        BY <3>1
      <4>2. [run[r] EXCEPT !.step = step] \in ScriptExec
        BY <3>2, <4>1, ExecFields
      <4>. QED BY <3>3, <4>2, ExecFields
    <3>5. run' = [run EXCEPT ![r] = new]
      BY <3>1 DEF ScriptExec, step, gstreamer, expanded
    <3>6. run' \in [Runs -> ScriptExec]
      BY <3>1, <3>4, <3>5
    <3>. QED BY <2>1, <2>2, <3>6 DEF ScriptIInv, Script!TypeOK, ScriptExec
  <2>4. /\ run'[r].step \in {"ready", "leaving"}
        /\ \A q \in Runs \ {r} : run'[q] = run[q]
    BY DEF ScriptIInv, Script!TypeOK
  <2>5. ScriptHoldsInv' /\ ScriptLeftInv' /\ ScriptRegistryInv'
    BY <2>1, <2>2, <2>4 DEF ScriptIInv, Script!TypeOK, ScriptHoldsInv,
                            ScriptLeftInv, ScriptRegistryInv, Script!Has
  <2>. QED BY <2>3, <2>5 DEF ScriptIInv
<1>2. CASE Script!Spawn(r)
  BY <1>2 DEF Script!Spawn, ScriptIInv, Script!TypeOK, ScriptHoldsInv,
              ScriptLeftInv, ScriptRegistryInv, Script!fileVars, Script!registryVars,
              Script!At, Script!Has
<1>. QED BY <1>1, <1>2

\* The child is over: the directory is opened, read and cleaned (script_exec,
\* clean_gst_registry_dir).
LEMMA ScriptCleanStep ==
  ASSUME ScriptIInv, NEW r \in Runs,
         \/ Script!Finish(r) \/ Script!NoGstCacheDir(r)
         \/ Script!CleanGstRegistryDir(r) \/ Script!Cleaned(r)
  PROVE ScriptIInv'
<1>0. run \in [Runs -> ScriptExec] /\ registry \subseteq Runs \cup {Script!Registry}
  BY ScriptRunType DEF ScriptIInv, Script!TypeOK
<1>1. CASE Script!Finish(r)
  <2> DEFINE others == registry \ {Script!Registry}
             reads(opened) == run[r].has_gst_registry /\ opened
             new(opened) == [run[r] EXCEPT
                               !.step = IF reads(opened) THEN "cleaning" ELSE "leaving",
                               !.unread = IF reads(opened) THEN others ELSE {}]
  <2> PICK opened \in BOOLEAN :
        /\ run' = [run EXCEPT
                     ![r].step = IF run[r].has_gst_registry /\ opened
                                 THEN "cleaning" ELSE "leaving",
                     ![r].unread = IF run[r].has_gst_registry /\ opened THEN others ELSE {}]
        /\ spared' = IF run[r].has_gst_registry /\ ~opened THEN spared \cup others ELSE spared
    BY <1>1 DEF Script!Finish
  <2>1. /\ run[r].step = "exited"
        /\ UNCHANGED <<environment, portal, files, fds, registry, script>>
    BY <1>1 DEF Script!Finish, Script!At
  <2>2. others \subseteq Runs /\ spared' \subseteq Runs
    BY <1>0 DEF ScriptIInv, Script!TypeOK
  <2>3. new(opened) \in ScriptExec /\ run' = [run EXCEPT ![r] = new(opened)]
    <3> DEFINE step == IF reads(opened) THEN "cleaning" ELSE "leaving"
               unread == IF reads(opened) THEN others ELSE {}
    <3>1. step \in {"cleaning", "leaving"} /\ unread \in SUBSET Runs
      BY <2>2
    <3>2. run' = [run EXCEPT ![r].step = step, ![r].unread = unread]
      OBVIOUS
    <3> HIDE DEF step, unread
    <3>3. [run[r] EXCEPT !.step = step] \in ScriptExec
      BY <1>0, <3>1, ExecFields
    <3>4. [[run[r] EXCEPT !.step = step] EXCEPT !.unread = unread] \in ScriptExec
      BY <3>1, <3>3, ExecFields
    <3>5. run' = [run EXCEPT ![r] = [[run[r] EXCEPT !.step = step] EXCEPT !.unread = unread]]
      BY <1>0, <3>2 DEF ScriptExec
    <3>. QED BY <3>4, <3>5 DEF step, unread
  <2>4. Script!TypeOK'
    <3>1. run' \in [Runs -> ScriptExec]
      BY <1>0, <2>3
    <3>. QED BY <2>1, <2>2, <3>1 DEF ScriptIInv, Script!TypeOK, ScriptExec
  <2>5. /\ run'[r].step = IF reads(opened) THEN "cleaning" ELSE "leaving"
        /\ run'[r].unread = IF reads(opened) THEN others ELSE {}
        /\ \A q \in Runs \ {r} : run'[q] = run[q]
    BY <1>0 DEF ScriptExec
  <2>6. ScriptHoldsInv' /\ ScriptLeftInv'
    <3>1. run'[r].step \in {"cleaning", "leaving"}
      BY <2>5
    <3> HIDE DEF reads, others
    <3>2. ScriptHoldsInv'
      BY <2>1, <2>5, <3>1 DEF ScriptIInv, ScriptHoldsInv
    <3>3. ScriptLeftInv'
      BY <2>1, <2>5, <3>1 DEF ScriptIInv, ScriptLeftInv, Script!Has
    <3>. QED BY <3>2, <3>3
  <2>7. ScriptRegistryInv'
    <3> SUFFICES ASSUME NEW q \in others
                 PROVE /\ q \in Runs
                       /\ \/ q \in spared'
                          \/ run'[q].has_gst_registry /\ run'[q].step \in {"child", "exited"}
                          \/ run'[q].step = "cleaning" /\ q \in run'[q].unread
      BY <2>1 DEF ScriptRegistryInv
    <3>1. q \in Runs
      BY <2>2
    <3>2. CASE q = r
      BY <2>1, <2>5, <3>2 DEF ScriptIInv, ScriptRegistryInv
    <3>3. CASE q # r
      BY <2>5, <3>1, <3>3 DEF ScriptIInv, ScriptRegistryInv
    <3>. QED BY <3>1, <3>2, <3>3
  <2>. QED BY <2>4, <2>6, <2>7 DEF ScriptIInv
<1>2. CASE Script!NoGstCacheDir(r)
  BY <1>2 DEF Script!NoGstCacheDir, Script!fileVars, Script!registryVars, ScriptIInv,
              Script!TypeOK, ScriptHoldsInv, ScriptLeftInv, ScriptRegistryInv, Script!Has
<1>3. CASE Script!CleanGstRegistryDir(r)
  <2> PICK name \in run[r].unread \cup (registry \ {Script!Registry}), removed \in BOOLEAN :
        /\ run' = [run EXCEPT ![r].unread = @ \ {name}]
        /\ registry' = IF removed THEN registry \ {name} ELSE registry
        /\ spared' = IF removed THEN spared \ {name} ELSE spared \cup ({name} \cap registry)
    BY <1>3 DEF Script!CleanGstRegistryDir
  <2>1. run[r].step = "cleaning" /\ UNCHANGED <<environment, portal, files, fds, script>>
    BY <1>3 DEF Script!CleanGstRegistryDir, Script!At
  <2>2. name \in Runs
    BY <1>0 DEF ScriptExec
  <2>3. /\ run'[r] = [run[r] EXCEPT !.unread = run[r].unread \ {name}]
        /\ \A q \in Runs \ {r} : run'[q] = run[q]
    BY <1>0 DEF ScriptExec
  <2>4. run' \in [Runs -> ScriptExec]
    <3>1. run' = [run EXCEPT ![r] = [run[r] EXCEPT !.unread = run[r].unread \ {name}]]
      BY <1>0 DEF ScriptExec
    <3>2. [run[r] EXCEPT !.unread = run[r].unread \ {name}] \in ScriptExec
      BY <1>0 DEF ScriptExec
    <3>. QED BY <1>0, <3>1, <3>2
  <2>5. Script!TypeOK'
    BY <2>1, <2>2, <2>4 DEF ScriptIInv, Script!TypeOK, ScriptExec
  <2>6. run'[r].step = run[r].step /\ run'[r].unread = run[r].unread \ {name}
    BY <1>0, <2>3 DEF ScriptExec
  <2>7. ScriptHoldsInv' /\ ScriptLeftInv'
    BY <2>1, <2>3, <2>6 DEF ScriptIInv, ScriptHoldsInv, ScriptLeftInv, Script!Has
  <2>8. ScriptRegistryInv'
    <3> SUFFICES ASSUME NEW q \in registry' \ {Script!Registry}
                 PROVE /\ q \in Runs
                       /\ \/ q \in spared'
                          \/ run'[q].has_gst_registry /\ run'[q].step \in {"child", "exited"}
                          \/ run'[q].step = "cleaning" /\ q \in run'[q].unread
      BY DEF ScriptRegistryInv
    <3>1. q \in registry /\ q \in Runs
      BY <1>0
    <3>2. CASE q = name
      BY <3>1, <3>2
    <3>3. CASE q # name /\ q = r
      BY <2>1, <2>6, <3>1, <3>3 DEF ScriptIInv, ScriptRegistryInv
    <3>4. CASE q # name /\ q # r
      BY <2>3, <3>1, <3>4 DEF ScriptIInv, ScriptRegistryInv
    <3>. QED BY <3>1, <3>2, <3>3, <3>4
  <2>. QED BY <2>5, <2>7, <2>8 DEF ScriptIInv
<1>4. CASE Script!Cleaned(r)
  <2>1. /\ run[r].step = "cleaning" /\ run[r].unread = {}
        /\ run' = [run EXCEPT ![r].step = "leaving"]
        /\ UNCHANGED <<environment, portal, files, fds, registry, spared, script>>
    BY <1>4 DEF Script!Cleaned, Script!At, Script!fileVars, Script!registryVars
  <2>2. run' \in [Runs -> ScriptExec]
    <3>1. run' = [run EXCEPT ![r] = [run[r] EXCEPT !.step = "leaving"]]
      BY <1>0, <2>1 DEF ScriptExec
    <3>2. [run[r] EXCEPT !.step = "leaving"] \in ScriptExec
      BY <1>0 DEF ScriptExec
    <3>. QED BY <1>0, <3>1, <3>2
  <2>3. Script!TypeOK'
    BY <2>1, <2>2 DEF ScriptIInv, Script!TypeOK, ScriptExec
  <2>4. run'[r].step = "leaving" /\ \A q \in Runs \ {r} : run'[q] = run[q]
    BY <1>0, <2>1 DEF ScriptExec
  <2>5. ScriptHoldsInv' /\ ScriptLeftInv' /\ ScriptRegistryInv'
    BY <2>1, <2>4 DEF ScriptIInv, ScriptHoldsInv, ScriptLeftInv, ScriptRegistryInv, Script!Has
  <2>. QED BY <2>3, <2>5 DEF ScriptIInv
<1>. QED BY <1>1, <1>2, <1>3, <1>4

\* The run ends (script_exec_free).
LEMMA ScriptEndStep ==
  ASSUME ScriptIInv, NEW r \in Runs, Script!ScriptExecFree(r)
  PROVE ScriptIInv'
<1>1. run \in [Runs -> ScriptExec]
  BY ScriptRunType DEF ScriptIInv
<1>2. /\ run[r].step = "leaving" /\ script = "alive"
      /\ files' = files \ ({r} \X ({"infile_tmp", "outfile"}
                             \cup (IF Script!Has(r, "left") THEN {} ELSE {"outdir"})))
      /\ fds' = fds \ {r}
      /\ run' = [run EXCEPT ![r] = [Script!NoExec EXCEPT !.step = "done"]]
      /\ UNCHANGED <<environment, portal, registry, spared, script>>
  BY DEF Script!ScriptExecFree, Script!At, Script!registryVars
<1>3. Script!TypeOK'
  <2>1. run' \in [Runs -> ScriptExec]
    BY <1>1, <1>2, NoExecType
  <2>. QED BY <1>2, <2>1 DEF ScriptIInv, Script!TypeOK, ScriptExec
<1>4. run'[r].step = "done" /\ \A q \in Runs \ {r} : run'[q] = run[q]
  BY <1>1, <1>2 DEF Script!NoExec
<1>5. ScriptHoldsInv' /\ ScriptRegistryInv'
  BY <1>2, <1>4 DEF ScriptIInv, Script!TypeOK, ScriptHoldsInv, ScriptRegistryInv
<1>6. ScriptLeftInv'
  <2> SUFFICES ASSUME NEW q \in Runs, run'[q].step = "done",
                      NEW file \in files', file[1] = q
               PROVE Script!Has(q, "left")' /\ file[2] \in {"outdir", "left"}
    BY DEF ScriptLeftInv
  <2>1. PICK what \in Script!Private : file = <<q, what>>
    BY <1>2 DEF ScriptIInv, Script!TypeOK
  <2>2. Script!Has(q, "left")' <=> Script!Has(q, "left")
    BY <1>2 DEF Script!Has
  <2>3. CASE q = r
    BY <1>2, <2>1, <2>2, <2>3 DEF Script!Private, Script!Has
  <2>4. CASE q # r
    BY <1>2, <1>4, <2>1, <2>2, <2>4 DEF ScriptIInv, Script!TypeOK, ScriptLeftInv
  <2>. QED BY <2>3, <2>4
<1>. QED BY <1>3, <1>5, <1>6 DEF ScriptIInv

\* The child writes only while its run waits for it.
LEMMA ScriptChildStep ==
  ASSUME ScriptIInv, NEW r \in Runs,
         \/ Script!Write(r) \/ Script!WriteRegistry(r)
         \/ Script!RenameRegistry(r) \/ Script!Exit(r)
  PROVE ScriptIInv'
<1>1. CASE Script!Write(r)
  <2> PICK what \in {"outfile", "left", "infile_tmp"} : files' = files \cup {<<r, what>>}
    BY <1>1 DEF Script!Write
  <2>1. /\ run[r].step = "child"
        /\ UNCHANGED <<environment, portal, run, fds, registry, spared, script>>
    BY <1>1 DEF Script!Write, Script!At, Script!registryVars
  <2>2. Script!TypeOK'
    BY <2>1 DEF ScriptIInv, Script!TypeOK, Script!Private
  <2>3. ScriptHoldsInv' /\ ScriptLeftInv' /\ ScriptRegistryInv'
    BY <2>1 DEF ScriptIInv, Script!TypeOK, ScriptHoldsInv, ScriptLeftInv,
                ScriptRegistryInv, Script!Has
  <2>. QED BY <2>2, <2>3 DEF ScriptIInv
<1>2. CASE Script!WriteRegistry(r)
  BY <1>2 DEF Script!WriteRegistry, ScriptIInv, Script!TypeOK, ScriptHoldsInv,
              ScriptLeftInv, ScriptRegistryInv, Script!At, Script!Has
<1>3. CASE Script!RenameRegistry(r)
  BY <1>3 DEF Script!RenameRegistry, ScriptIInv, Script!TypeOK, ScriptHoldsInv,
              ScriptLeftInv, ScriptRegistryInv, Script!At, Script!Has
<1>4. CASE Script!Exit(r)
  <2> run' = [run EXCEPT ![r].step = "exited"]
    BY <1>4 DEF Script!Exit
  <2>1. run[r].step = "child" /\ UNCHANGED <<environment, portal, Script!fileVars, script>>
    BY <1>4 DEF Script!Exit, Script!At
  <2>2. Script!TypeOK'
    <3> DEFINE new == [run[r] EXCEPT !.step = "exited"]
    <3>1. run \in [Runs -> ScriptExec]
      BY ScriptRunType DEF ScriptIInv
    <3>2. new \in ScriptExec
      BY <3>1 DEF ScriptExec
    <3>3. run' = [run EXCEPT ![r] = new]
      BY <3>1 DEF ScriptExec
    <3>4. run' \in [Runs -> ScriptExec]
      BY <3>1, <3>2, <3>3
    <3>. QED BY <2>1, <3>4 DEF ScriptIInv, Script!TypeOK, ScriptExec, Script!fileVars,
                               Script!registryVars
  <2>3. ScriptHoldsInv' /\ ScriptLeftInv' /\ ScriptRegistryInv'
    BY <2>1 DEF ScriptIInv, Script!TypeOK, ScriptHoldsInv, ScriptLeftInv,
                ScriptRegistryInv, Script!fileVars, Script!registryVars, Script!Has
  <2>. QED BY <2>2, <2>3 DEF ScriptIInv
<1>. QED BY <1>1, <1>2, <1>3, <1>4

LEMMA ScriptStep == ScriptIInv /\ [Script!Next]_(scriptVars) => ScriptIInv'
<1> SUFFICES ASSUME ScriptIInv, [Script!Next]_(scriptVars) PROVE ScriptIInv'
  OBVIOUS
<1>1. CASE Script!Next
  BY <1>1, ScriptBeginStep, ScriptStartStep, ScriptCleanStep, ScriptEndStep,
     ScriptChildStep DEF Script!Next
<1>2. CASE UNCHANGED scriptVars
  BY <1>2 DEF scriptVars, ScriptIInv, Script!TypeOK, ScriptHoldsInv,
              ScriptLeftInv, ScriptRegistryInv, Script!Has
<1>. QED BY <1>1, <1>2

-----------------------------------------------------------------------------
(* The loops of the parsers (XkbInfo, Languages)                           *)

\* The greatest of a set, as the two components have it.
LEMMA SameLibrary == \A S : Xkb!Max(S) = Max(S) /\ Lang!Max(S) = Max(S)
BY DEF Xkb!Max, Lang!Max, Max

\* The folds of the components, told apart by name.
Folded(which, with, q, x) ==
  IF which = "xml" THEN Xkb!ParseElement(q, x)
  ELSE IF which = "registry"
  THEN IF with.elements[x].element = with.which
       THEN Xkb!AddEntry(q, Xkb!EntryOf(with.elements, x)) ELSE q
  ELSE IF which = "locales" THEN Lang!AddLocale(q, x)
  ELSE Lang!ParseTag(q, x)

\* What is folded up to each place, and up to any set of places.
FoldsTo(which, with, p, s, r, n) ==
  /\ r[0] = p
  /\ \A i \in 1..n : r[i] = Folded(which, with, r[i - 1], s[i])
Folds(which, with, p, s, n, g) ==
  g = [t \in SUBSET (1..n) |->
         IF t = {} THEN p ELSE Folded(which, with, g[t \ {Max(t)}], s[Max(t)])]

\* The function that FoldLeft chooses, of sets of places, exists.
LEMMA SomeFold ==
  ASSUME NEW which, NEW with, NEW p, NEW s, NEW n \in Nat
  PROVE  \E g : Folds(which, with, p, s, n, g)
<1> DEFINE Next1(g, t) == IF t = {} THEN p
                          ELSE Folded(which, with, g[t \ {Max(t)}], s[Max(t)])
           H == {k \in Nat : \E g : g = [t \in SUBSET (1..k) |-> Next1(g, t)]}
<1>1. 0 \in H
  <2> DEFINE g == [t \in {{}} |-> p]
  <2>1. SUBSET (1..0) = {{}}
    OBVIOUS
  <2>2. g = [t \in SUBSET (1..0) |-> Next1(g, t)]
    BY <2>1
  <2>. QED BY <2>2
<1>2. ASSUME NEW k \in Nat, k \in H PROVE k + 1 \in H
  <2>1. PICK g : g = [t \in SUBSET (1..k) |-> Next1(g, t)]
    BY <1>2
  <2> DEFINE f == [t \in SUBSET (1..(k + 1)) |-> Next1(g, t)]
  <2>2. ASSUME NEW t \in SUBSET (1..(k + 1)) PROVE f[t] = Next1(f, t)
    <3>1. CASE t = {}
      BY <3>1
    <3>2. CASE t # {}
      <4>1. /\ Max(t) \in t
            /\ t \ {Max(t)} \in SUBSET (1..(Max(t) - 1))
        <5>1. k + 1 \in Nat
          OBVIOUS
        <5>. QED BY ONLY <3>2, <5>1, t \in SUBSET (1..(k + 1)), LastPlace
      <4>2. PICK u : u = t \ {Max(t)}
        OBVIOUS
      <4>3. u \in SUBSET (1..k) /\ u \in SUBSET (1..(k + 1))
        <5>1. PICK last : last = Max(t)
          OBVIOUS
        <5>2. last \in 1..(k + 1) /\ u \in SUBSET (1..(last - 1))
          BY <4>1, <4>2, <5>1
        <5>3. \A i \in u : i \in 1..(last - 1)
          BY <5>2
        <5>4. \A i \in 1..(last - 1) : i \in 1..k /\ i \in 1..(k + 1)
          BY <5>2
        <5>. QED BY <5>3, <5>4
      <4>4. f[u] = g[u]
        <5>1. g[u] = Next1(g, u)
          BY <2>1, <4>3
        <5>2. f[u] = Next1(g, u)
          BY <4>3
        <5>. QED BY <5>1, <5>2
      <4>5. f[t] = Next1(g, t)
        OBVIOUS
      <4> HIDE DEF f
      <4>. QED BY <3>2, <4>2, <4>4, <4>5
    <3>. QED BY <3>1, <3>2
  <2>3. f = [t \in SUBSET (1..(k + 1)) |-> Next1(f, t)]
    <3> DEFINE same == [t \in SUBSET (1..(k + 1)) |-> Next1(f, t)]
    <3>1. f = [t \in SUBSET (1..(k + 1)) |-> f[t]]
      OBVIOUS
    <3> HIDE DEF f, Next1
    <3>. QED BY <2>2, <3>1
  <2> HIDE DEF f, Next1
  <2>. QED BY <2>3
<1>3. n \in H
  <2> HIDE DEF H
  <2>1. \A k \in 0..(n - 1) : k \in H => k + 1 \in H
    BY <1>2
  <2>2. \A k \in 0..n : k \in H
    BY <1>1, <2>1, UpTo
  <2>. QED BY <2>2
<1>. QED BY <1>3 DEF Folds

\* A fold is the last of a run, which takes one element after the other.
LEMMA FoldRun ==
  ASSUME NEW which, NEW with, NEW p, NEW s, NEW n \in Nat, NEW iter,
         Folds(which, with, p, s, n, iter)
  PROVE  \E r : FoldsTo(which, with, p, s, r, n) /\ iter[1..n] = r[n]
<1> DEFINE Next1(g, t) == IF t = {} THEN p
                          ELSE Folded(which, with, g[t \ {Max(t)}], s[Max(t)])
           r == [i \in 0..n |-> iter[1..i]]
<1>1. iter = [t \in SUBSET (1..n) |-> Next1(iter, t)]
  BY DEF Folds
<1>2. FoldsTo(which, with, p, s, r, n)
  <2>1. r[0] = p
    <3>1. 1..0 = {} /\ {} \in SUBSET (1..n)
      OBVIOUS
    <3>2. iter[{}] = Next1(iter, {})
      BY <1>1, <3>1
    <3>. QED BY <3>1, <3>2
  <2>2. ASSUME NEW i \in 1..n PROVE r[i] = Folded(which, with, r[i - 1], s[i])
    <3>1. PICK t : t = 1..i
      OBVIOUS
    <3>2. t # {} /\ t \in SUBSET (1..n)
      BY <3>1
    <3>3. Max(t) = i /\ t \ {Max(t)} = 1..(i - 1)
      BY <3>1, PlacesBefore
    <3>4. iter[t] = Next1(iter, t)
      BY <1>1, <3>2
    <3>5. r[i] = iter[t] /\ r[i - 1] = iter[1..(i - 1)]
      BY <3>1
    <3> HIDE DEF r
    <3>. QED BY <3>2, <3>3, <3>4, <3>5
  <2>. QED BY <2>1, <2>2 DEF FoldsTo
<1>3. r[n] = iter[1..n]
  OBVIOUS
<1> HIDE DEF r
<1>. QED BY <1>2, <1>3

\* The elements of a file of XML are parsed one after the other.
LEMMA ParsingIsARun ==
  ASSUME NEW p, NEW s, NEW n \in Nat, DOMAIN s = 1..n
  PROVE  \E r : FoldsTo("xml", 0, p, s, r, n) /\ Xkb!FoldLeft(Xkb!ParseElement, p, s) = r[n]
<1> DEFINE F(g) == g = [t \in SUBSET (1..n) |->
                          IF t = {} THEN p
                          ELSE Xkb!ParseElement(g[t \ {Max(t)}], s[Max(t)])]
           iter == CHOOSE g : F(g)
<1>1. \A g : Folds("xml", 0, p, s, n, g) <=> F(g)
  BY DEF Folds, Folded
<1>2. Folds("xml", 0, p, s, n, iter)
  <2>1. \E g : F(g)
    BY <1>1, SomeFold
  <2> HIDE DEF F
  <2>. QED BY <1>1, <2>1
<1>3. Xkb!FoldLeft(Xkb!ParseElement, p, s) = iter[1..n]
  BY SameLibrary DEF Xkb!FoldLeft, Xkb!MapThenFoldSet
<1> HIDE DEF iter
<1>. QED BY <1>2, <1>3, FoldRun

\* The places of the elements, from the last to the first, and what one of the
\* two runs of add_layouts is given.
Backwards(s) == Xkb!Reverse([i \in DOMAIN s |-> i])
Adding(s, which) == [elements |-> s, which |-> which]

\* The elements are given to add_layouts one after the other.
LEMMA AddingIsARun ==
  ASSUME NEW p, NEW s, NEW n \in Nat, DOMAIN s = 1..n, NEW which
  PROVE  \E r : /\ FoldsTo("registry", Adding(s, which), p, Backwards(s), r, n)
                /\ Xkb!AddLayouts(p, s, which) = r[n]
<1> DEFINE places == Xkb!Reverse([i \in DOMAIN s |-> i])
           Step(q, i) == IF s[i].element = which
                         THEN Xkb!AddEntry(q, Xkb!EntryOf(s, i)) ELSE q
           F(g) == g = [t \in SUBSET (DOMAIN places) |->
                          IF t = {} THEN p ELSE Step(g[t \ {Max(t)}], places[Max(t)])]
           iter == CHOOSE g : F(g)
<1>1. DOMAIN places = 1..n
  BY DEF Xkb!Reverse
<1>2. Xkb!AddLayouts(p, s, which) = iter[DOMAIN places]
  BY SameLibrary DEF Xkb!AddLayouts, Xkb!FoldLeft, Xkb!MapThenFoldSet
<1>3. places = Backwards(s)
  BY DEF Backwards
<1> HIDE DEF places
<1>4. \A g : Folds("registry", Adding(s, which), p, places, n, g) <=> F(g)
  BY <1>1 DEF Folds, Folded, Adding
<1>5. Folds("registry", Adding(s, which), p, places, n, iter)
  <2>1. \E g : F(g)
    BY <1>4, SomeFold
  <2> HIDE DEF F
  <2>. QED BY <1>4, <2>1
<1> HIDE DEF iter
<1>6. \E r : FoldsTo("registry", Adding(s, which), p, places, r, n) /\ iter[1..n] = r[n]
  BY <1>5, FoldRun
<1>. QED BY <1>1, <1>2, <1>3, <1>6

-----------------------------------------------------------------------------
(* The heap and the tables of layouts (XkbInfo)                            *)

\* A layout, where it points to and what is asked of the heap they are in.
Cell == [id : Xkb!Ids \cup {None}, xkb_name : LayoutNames, main_layout : Nat \cup {None},
         codes : [Xkb!Kinds -> SUBSET LayoutCodes], live : BOOLEAN]
HeapInv(h) ==
  h \in Seq(Cell) /\ \A l \in 1..Len(h) : h[l].main_layout \in 1..Len(h) \cup {None}

\* A table and the indexes with one layout more, and the indexes of a table.
Added(table, id, l) ==
  [i \in DOMAIN table \cup {id} |-> IF i = id THEN l ELSE table[i]]
Indexed(h, ix, l) ==
  [k \in DOMAIN ix |-> IF k[2] \in Xkb!NamesOf(Xkb!CodesOf(h, l, k[1]), k[1])
                       THEN ix[k] \cup {l} ELSE ix[k]]
Places(table) == {table[id] : id \in DOMAIN table}
Index(h, table) ==
  [k \in Xkb!Kinds \X Xkb!Texts |->
     {l \in Places(table) : k[2] \in Xkb!NamesOf(Xkb!CodesOf(h, l, k[1]), k[1])}]

\* The layouts of the table are alive and have their ids, and so have their
\* main layouts, one of which may not be in the table yet: that under way.
TableInv(h, table, open) ==
  /\ DOMAIN table \subseteq Xkb!Ids
  /\ \A id \in DOMAIN table :
       /\ table[id] \in 1..Len(h) /\ table[id] # open
       /\ h[table[id]].live /\ h[table[id]].id = id
MainInv(h, table, open) ==
  \A id \in DOMAIN table :
    LET main == h[table[id]].main_layout
    IN main # None =>
         /\ h[main].live
         /\ main # open => h[main].id \in DOMAIN table /\ table[h[main].id] = main
         /\ main = open => h[open].xkb_name \notin DOMAIN table
OpenInv(h, open) ==
  open # None =>
    /\ open \in 1..Len(h)
    /\ h[open].live /\ h[open].id = None /\ h[open].main_layout = None
Tables(h, table, ix, open) ==
  /\ TableInv(h, table, open) /\ MainInv(h, table, open) /\ OpenInv(h, open)
  /\ ix = Index(h, table)

\* The heaps differ at one place at most, and there only in what a layout is
\* called and if it lives.
SameBut(h, g, x) ==
  /\ Len(h) <= Len(g)
  /\ \A l \in 1..Len(h) :
       /\ g[l].codes = h[l].codes /\ g[l].main_layout = h[l].main_layout
       /\ g[l].xkb_name = h[l].xkb_name
       /\ l # x => g[l].id = h[l].id /\ g[l].live = h[l].live

\* Such heaps have the same codes, and so the same indexes.
LEMMA SameCodes ==
  ASSUME NEW h, NEW g, NEW x, HeapInv(h), SameBut(h, g, x), NEW l \in 1..Len(h), NEW kind
  PROVE  Xkb!CodesOf(g, l, kind) = Xkb!CodesOf(h, l, kind)
<1>1. h[l].main_layout \in 1..Len(h) \cup {None}
  BY DEF HeapInv
<1>2. g[l].codes = h[l].codes /\ g[l].main_layout = h[l].main_layout
  BY DEF SameBut
<1>3. h[l].main_layout # None => g[h[l].main_layout].codes = h[h[l].main_layout].codes
  BY <1>1 DEF SameBut
<1>. QED BY <1>2, <1>3 DEF Xkb!CodesOf

LEMMA SameIndex ==
  ASSUME NEW h, NEW g, NEW x, HeapInv(h), SameBut(h, g, x), NEW table,
         \A id \in DOMAIN table : table[id] \in 1..Len(h)
  PROVE  Index(g, table) = Index(h, table)
<1>1. \A l \in Places(table) : l \in 1..Len(h)
  BY DEF Places
<1>2. \A l \in Places(table) : \A kind : Xkb!CodesOf(g, l, kind) = Xkb!CodesOf(h, l, kind)
  BY <1>1, SameCodes
<1>. QED BY <1>2 DEF Index

\* Another layout is made, or one that nothing points to is freed.
LEMMA SameTables ==
  ASSUME NEW h, NEW g, NEW x, HeapInv(h), Len(h) \in Nat, SameBut(h, g, x),
         NEW table, NEW ix, NEW open,
         Tables(h, table, ix, open), x \notin 1..Len(h)
  PROVE  Tables(g, table, ix, open)
<1>1. \A l \in 1..Len(h) : /\ l \in 1..Len(g)
                           /\ g[l].main_layout = h[l].main_layout /\ g[l].id = h[l].id
                           /\ g[l].live = h[l].live /\ g[l].xkb_name = h[l].xkb_name
                           /\ h[l].main_layout \in 1..Len(h) \cup {None}
  BY DEF SameBut, HeapInv
<1>2. TableInv(g, table, open)
  BY <1>1 DEF Tables, TableInv
<1>3. OpenInv(g, open)
  BY <1>1 DEF Tables, OpenInv
<1>4. MainInv(g, table, open)
  <2>1. SUFFICES ASSUME NEW id \in DOMAIN table, NEW main,
                        main = g[table[id]].main_layout, main # None
        PROVE  /\ g[main].live
               /\ main # open => g[main].id \in DOMAIN table /\ table[g[main].id] = main
               /\ main = open => g[open].xkb_name \notin DOMAIN table
    BY DEF MainInv
  <2>2. table[id] \in 1..Len(h)
    BY DEF Tables, TableInv
  <2>3. main = h[table[id]].main_layout /\ main \in 1..Len(h)
    BY <1>1, <2>1, <2>2
  <2>4. /\ h[main].live
        /\ main # open => h[main].id \in DOMAIN table /\ table[h[main].id] = main
        /\ main = open => h[open].xkb_name \notin DOMAIN table
    BY <2>1, <2>3 DEF Tables, MainInv
  <2>. QED BY <1>1, <2>3, <2>4
<1>5. ix = Index(g, table)
  BY SameIndex DEF Tables, TableInv
<1>. QED BY <1>2, <1>3, <1>4, <1>5 DEF Tables

\* A layout that is not in the table is added to it.
LEMMA AddTables ==
  ASSUME NEW h, NEW table, NEW ix, NEW open, HeapInv(h), Tables(h, table, ix, open),
         NEW l \in 1..Len(h), l # open, h[l].live, NEW id \in Xkb!Ids, id = h[l].id,
         id \notin DOMAIN table,
         NEW main, main = h[l].main_layout,
         main # None => /\ h[main].live
                        /\ main # open => h[main].id \in DOMAIN table /\ table[h[main].id] = main
                        /\ main = open => h[open].xkb_name \notin DOMAIN table,
         open # None => id # h[open].xkb_name
  PROVE  Tables(h, Added(table, id, l), Indexed(h, ix, l), open)
<1> DEFINE more == Added(table, id, l)
<1>1. /\ DOMAIN more = DOMAIN table \cup {id}
      /\ more[id] = l
      /\ \A i \in DOMAIN table : i # id /\ more[i] = table[i]
  BY DEF Added
<1> HIDE DEF more
<1>2. TableInv(h, more, open)
  BY <1>1 DEF Tables, TableInv
<1>3. OpenInv(h, open)
  BY DEF Tables
<1>4. MainInv(h, more, open)
  <2>1. SUFFICES ASSUME NEW i \in DOMAIN more, NEW m, m = h[more[i]].main_layout, m # None
        PROVE  /\ h[m].live
               /\ m # open => h[m].id \in DOMAIN more /\ more[h[m].id] = m
               /\ m = open => h[open].xkb_name \notin DOMAIN more
    BY DEF MainInv
  <2>2. /\ h[m].live
        /\ m # open => h[m].id \in DOMAIN table /\ table[h[m].id] = m
        /\ m = open => h[open].xkb_name \notin DOMAIN table
    <3>1. CASE i = id
      BY <1>1, <2>1, <3>1
    <3>2. CASE i # id
      <4>1. i \in DOMAIN table /\ m = h[table[i]].main_layout
        BY <1>1, <2>1, <3>2
      <4>. QED BY <2>1, <4>1 DEF Tables, MainInv
    <3>. QED BY <3>1, <3>2
  <2>. QED BY <1>1, <2>1, <2>2
<1>5. Indexed(h, ix, l) = Index(h, more)
  <2>1. Places(more) = Places(table) \cup {l}
    BY <1>1 DEF Places
  <2>2. ix = Index(h, table)
    BY DEF Tables
  <2>. QED BY <2>1, <2>2 DEF Indexed, Index
<1>. QED BY <1>2, <1>3, <1>4, <1>5 DEF Tables, more

\* The layout under way ends: one of its name was there before, and it is freed.
LEMMA CloseFreed ==
  ASSUME NEW h, NEW g, NEW table, NEW ix, NEW open, HeapInv(h), Len(h) \in Nat,
         Tables(h, table, ix, open), open # None, SameBut(h, g, open),
         h[open].xkb_name \in DOMAIN table
  PROVE  Tables(g, table, ix, None)
<1>1. \A l \in 1..Len(h) : /\ l \in 1..Len(g)
                           /\ g[l].main_layout = h[l].main_layout
                           /\ l # open => g[l].id = h[l].id /\ g[l].live = h[l].live
                           /\ h[l].main_layout \in 1..Len(h) \cup {None}
  BY DEF SameBut, HeapInv
<1>2. \A id \in DOMAIN table : /\ table[id] \in 1..Len(h) /\ table[id] # open
                               /\ h[table[id]].main_layout # open
  BY DEF Tables, TableInv, MainInv
<1>3. TableInv(g, table, None)
  <2>1. None \notin Nat
    BY LayoutsAssumption DEF Xkb!AreRulesFiles
  <2>. QED BY <1>1, <1>2, <2>1 DEF Tables, TableInv
<1>4. MainInv(g, table, None)
  <2>1. SUFFICES ASSUME NEW id \in DOMAIN table, NEW main,
                        main = g[table[id]].main_layout, main # None
        PROVE  g[main].live /\ g[main].id \in DOMAIN table /\ table[g[main].id] = main
    BY DEF MainInv
  <2>2. main = h[table[id]].main_layout /\ main \in 1..Len(h) /\ main # open
    BY <1>1, <1>2, <2>1
  <2>3. h[main].live /\ h[main].id \in DOMAIN table /\ table[h[main].id] = main
    BY <2>1, <2>2 DEF Tables, MainInv
  <2>. QED BY <1>1, <2>2, <2>3
<1>5. ix = Index(g, table)
  BY <1>2, SameIndex DEF Tables
<1>. QED BY <1>3, <1>4, <1>5 DEF Tables, OpenInv

\* The layout under way ends and is added.
LEMMA CloseAdded ==
  ASSUME NEW h, NEW g, NEW table, NEW ix, NEW open, HeapInv(h), Len(h) \in Nat,
         Tables(h, table, ix, open), open # None, SameBut(h, g, open), g[open].live,
         NEW id \in Xkb!Ids, id = h[open].xkb_name, g[open].id = id, id \notin DOMAIN table
  PROVE  Tables(g, Added(table, id, open), Indexed(g, ix, open), None)
<1> DEFINE more == Added(table, id, open)
<1>1. /\ DOMAIN more = DOMAIN table \cup {id}
      /\ more[id] = open
      /\ \A i \in DOMAIN table : i # id /\ more[i] = table[i]
  BY DEF Added
<1>2. \A l \in 1..Len(h) : /\ l \in 1..Len(g)
                           /\ g[l].main_layout = h[l].main_layout
                           /\ l # open => g[l].id = h[l].id /\ g[l].live = h[l].live
                           /\ h[l].main_layout \in 1..Len(h) \cup {None}
  BY DEF SameBut, HeapInv
<1>3. open \in 1..Len(h) /\ h[open].main_layout = None
  BY DEF Tables, OpenInv
<1>4. \A i \in DOMAIN table : table[i] \in 1..Len(h) /\ table[i] # open
  BY DEF Tables, TableInv
<1>5. ix = Index(g, table)
  BY <1>4, SameIndex DEF Tables
<1> HIDE DEF more
<1>6. TableInv(g, more, None)
  <2>1. None \notin Nat
    BY LayoutsAssumption DEF Xkb!AreRulesFiles
  <2>2. DOMAIN more \subseteq Xkb!Ids
    BY <1>1 DEF Tables, TableInv
  <2>3. ASSUME NEW i \in DOMAIN table
        PROVE  more[i] \in 1..Len(g) /\ g[more[i]].live /\ g[more[i]].id = i
    <3>1. h[table[i]].live /\ h[table[i]].id = i
      BY DEF Tables, TableInv
    <3>. QED BY <1>1, <1>2, <1>4, <3>1
  <2>4. \A i \in DOMAIN more : more[i] \in 1..Len(g) /\ g[more[i]].live /\ g[more[i]].id = i
    BY <1>1, <1>2, <1>3, <2>3
  <2>5. Len(g) \in Nat \/ TRUE
    OBVIOUS
  <2>. QED BY <1>2, <1>3, <1>4, <1>1, <2>1, <2>2, <2>4 DEF TableInv
<1>7. MainInv(g, more, None)
  <2>1. SUFFICES ASSUME NEW i \in DOMAIN more, NEW m, m = g[more[i]].main_layout, m # None
        PROVE  g[m].live /\ g[m].id \in DOMAIN more /\ more[g[m].id] = m
    BY DEF MainInv
  <2>2. i \in DOMAIN table /\ m = h[table[i]].main_layout /\ m \in 1..Len(h)
    BY <1>1, <1>2, <1>3, <1>4, <2>1
  <2>3. /\ h[m].live
        /\ m # open => h[m].id \in DOMAIN table /\ table[h[m].id] = m
    BY <2>1, <2>2 DEF Tables, MainInv
  <2>. QED BY <1>1, <1>2, <2>2, <2>3
<1>8. Indexed(g, ix, open) = Index(g, more)
  <2>1. Places(more) = Places(table) \cup {open}
    BY <1>1 DEF Places
  <2>. QED BY <1>5, <2>1 DEF Indexed, Index
<1>. QED BY <1>6, <1>7, <1>8 DEF Tables, OpenInv, more

\* A parser, whose table and indexes point into its heap.
IsParser(p) ==
  p = [heap |-> p.heap, table |-> p.table, indexes |-> p.indexes, options |-> p.options,
       layout |-> p.layout, group |-> p.group, failed |-> p.failed,
       undefined |-> p.undefined]

TableType(h, table) ==
  DOMAIN table \subseteq Xkb!Ids /\ \A id \in DOMAIN table : table[id] \in 1..Len(h)
IndexType(h, ix) == ix \in [Xkb!Kinds \X Xkb!Texts -> SUBSET (1..Len(h))]
ParserInv(p) ==
  /\ IsParser(p) /\ HeapInv(p.heap)
  /\ TableType(p.heap, p.table) /\ IndexType(p.heap, p.indexes)
  /\ p.layout \in 1..Len(p.heap) \cup {None} /\ p.group \in {None, "open", "freed"}
  /\ p.failed \in BOOLEAN /\ p.undefined \in BOOLEAN

\* What a parser has when one more layout is in its table, and when it is
\* freed instead.
AddedOrFreed(p, l, q) ==
  /\ IsParser(q)
  /\ q.options = p.options /\ q.layout = p.layout /\ q.group = p.group
  /\ q.failed = p.failed /\ q.undefined = p.undefined
  /\ p.heap[l].id \in DOMAIN p.table =>
       /\ q.heap = [p.heap EXCEPT ![l].live = FALSE]
       /\ q.table = p.table /\ q.indexes = p.indexes
  /\ p.heap[l].id \notin DOMAIN p.table =>
       /\ q.heap = p.heap /\ q.table = Added(p.table, p.heap[l].id, l)
       /\ q.indexes = Indexed(p.heap, p.indexes, l)

\* One of them is what AddOrFree does.
LEMMA AddOrFreeFields ==
  ASSUME NEW p, IsParser(p), NEW l, NEW q, q = Xkb!AddOrFree(p, l)
  PROVE  AddedOrFreed(p, l, q)
<1>1. CASE p.heap[l].id \in DOMAIN p.table
  <2>1. q = [p EXCEPT !.heap[l].live = FALSE]
    BY <1>1 DEF Xkb!AddOrFree, Xkb!Free
  <2>2. q = [p EXCEPT !.heap = [p.heap EXCEPT ![l].live = FALSE]]
    BY <2>1
  <2> DEFINE h == [p.heap EXCEPT ![l].live = FALSE]
  <2>3. q = [p EXCEPT !.heap = h]
    BY <2>2
  <2> HIDE DEF h
  <2>4. IsParser(q) /\ q.heap = h /\ q.table = p.table /\ q.indexes = p.indexes
        /\ q.options = p.options /\ q.layout = p.layout /\ q.group = p.group
        /\ q.failed = p.failed /\ q.undefined = p.undefined
    BY <2>3 DEF IsParser
  <2>. QED BY <1>1, <2>4 DEF h, AddedOrFreed
<1>2. CASE p.heap[l].id \notin DOMAIN p.table
  <2> DEFINE t == Added(p.table, p.heap[l].id, l)
             x == Indexed(p.heap, p.indexes, l)
  <2>1. q = [p EXCEPT !.table = t, !.indexes = x]
    BY <1>2 DEF Xkb!AddOrFree, Xkb!AddLayout, Added, Indexed, IsParser
  <2> HIDE DEF t, x
  <2>2. IsParser(q) /\ q.heap = p.heap /\ q.table = t /\ q.indexes = x
        /\ q.options = p.options /\ q.layout = p.layout /\ q.group = p.group
        /\ q.failed = p.failed /\ q.undefined = p.undefined
    BY <2>1 DEF IsParser
  <2>. QED BY <1>2, <2>2 DEF t, x, AddedOrFreed
<1>. QED BY <1>1, <1>2

\* A heap that has one layout more.
Longer(h, g, l, c) ==
  /\ HeapInv(g) /\ Len(h) \in Nat /\ Len(g) = l /\ l \in 1..Len(g) /\ g[l] = c
  /\ l \notin 1..Len(h)
  /\ \A i \in 1..Len(h) : i \in 1..Len(g) /\ g[i] = h[i]
  /\ SameBut(h, g, l)

\* Append gives such a heap.
LEMMA MoreHeap ==
  ASSUME NEW h, HeapInv(h), NEW c \in Cell, c.main_layout \in 1..Len(h) \cup {None}
  PROVE  Longer(h, Append(h, c), Len(h) + 1, c)
<1> DEFINE g == Append(h, c)
           l == Len(h) + 1
<1>1. h \in Seq(Cell) /\ Len(h) \in Nat /\ \A i \in 1..Len(h) : h[i].main_layout \in 1..Len(h) \cup {None}
  BY DEF HeapInv
<1>2. g \in Seq(Cell) /\ Len(g) = l /\ g[l] = c /\ \A i \in 1..Len(h) : g[i] = h[i]
  BY <1>1
<1>3. \A i \in 1..Len(h) : i \in 1..Len(g)
  BY <1>1, <1>2
<1>4. l \notin 1..Len(h) /\ l \in 1..Len(g)
  BY <1>1, <1>2
<1>5. ASSUME NEW i \in 1..Len(g) PROVE g[i].main_layout \in 1..Len(g) \cup {None}
  <2>1. CASE i = l
    BY <1>2, <1>3, <2>1
  <2>2. CASE i # l
    <3>1. i \in 1..Len(h)
      BY <1>1, <1>2, <2>2
    <3>. QED BY <1>1, <1>2, <1>3, <3>1
  <2>. QED BY <2>1, <2>2
<1>6. HeapInv(g)
  BY <1>2, <1>5 DEF HeapInv
<1>7. SameBut(h, g, l)
  <2>1. Len(h) <= Len(g)
    BY <1>1, <1>2
  <2>. QED BY <1>2, <2>1 DEF SameBut
<1>. QED BY <1>1, <1>2, <1>3, <1>4, <1>6, <1>7 DEF Longer

\* A heap whose layout l is freed.
LEMMA FreedHeap ==
  ASSUME NEW h, HeapInv(h), NEW l \in 1..Len(h), NEW g, g = [h EXCEPT ![l].live = FALSE]
  PROVE  HeapInv(g) /\ Len(h) \in Nat /\ Len(g) = Len(h) /\ SameBut(h, g, l)
<1>1. h \in Seq(Cell) /\ Len(h) \in Nat /\ DOMAIN h = 1..Len(h)
      /\ \A i \in 1..Len(h) : h[i] \in Cell /\ h[i].main_layout \in 1..Len(h) \cup {None}
  BY DEF HeapInv
<1> DEFINE c == [h[l] EXCEPT !.live = FALSE]
<1>2. /\ c \in Cell /\ c.main_layout = h[l].main_layout /\ c.codes = h[l].codes
      /\ c.xkb_name = h[l].xkb_name
  BY <1>1 DEF Cell
<1>3. g = [h EXCEPT ![l] = c]
  BY <1>1
<1> HIDE DEF c
<1>4. g \in Seq(Cell) /\ Len(g) = Len(h)
  <2>1. h \in Seq(Cell) /\ l \in 1..Len(h) /\ c \in Cell
    BY <1>1, <1>2
  <2>. QED BY ONLY <1>3, <2>1, ExceptSeq, ZenonT(30)
<1>5. \A i \in 1..Len(h) : g[i] = IF i = l THEN c ELSE h[i]
  BY <1>1, <1>3
<1>6. HeapInv(g)
  BY <1>1, <1>2, <1>4, <1>5 DEF HeapInv
<1>7. SameBut(h, g, l)
  <2>1. Len(h) <= Len(g)
    BY <1>1, <1>4
  <2>. QED BY <1>2, <1>5, <2>1 DEF SameBut
<1>. QED BY <1>1, <1>4, <1>6, <1>7

\* Types are kept when a heap grows.
LEMMA SameTypes ==
  ASSUME NEW h, NEW g, Len(h) <= Len(g), Len(h) \in Nat, Len(g) \in Nat, NEW table, NEW ix,
         TableType(h, table), IndexType(h, ix)
  PROVE  TableType(g, table) /\ IndexType(g, ix)
<1>1. \A l \in 1..Len(h) : l \in 1..Len(g)
  OBVIOUS
<1>2. TableType(g, table)
  BY <1>1 DEF TableType
<1>3. \A k \in Xkb!Kinds \X Xkb!Texts : ix[k] \in SUBSET (1..Len(g))
  BY <1>1 DEF IndexType
<1>4. IndexType(g, ix)
  BY <1>3 DEF IndexType
<1>. QED BY <1>2, <1>4

\* The types of a table and of indexes, with one layout more.
LEMMA AddTypes ==
  ASSUME NEW h, NEW table, NEW ix, TableType(h, table), IndexType(h, ix),
         NEW l \in 1..Len(h), NEW id \in Xkb!Ids
  PROVE  TableType(h, Added(table, id, l)) /\ IndexType(h, Indexed(h, ix, l))
<1>1. TableType(h, Added(table, id, l))
  BY DEF TableType, Added
<1>2. DOMAIN ix = Xkb!Kinds \X Xkb!Texts /\ \A k \in DOMAIN ix : ix[k] \in SUBSET (1..Len(h))
  BY DEF IndexType
<1>3. Indexed(h, ix, l) \in [Xkb!Kinds \X Xkb!Texts -> SUBSET (1..Len(h))]
  BY <1>2 DEF Indexed
<1>. QED BY <1>1, <1>3 DEF IndexType

\* Another layout is made, and added to the tables or freed.
LEMMA AddNew ==
  ASSUME NEW p, ParserInv(p), Tables(p.heap, p.table, p.indexes, p.layout),
         NEW c \in Cell, c.live, c.id \in Xkb!Ids, NEW main, main = c.main_layout,
         main # None =>
           /\ main \in 1..Len(p.heap) /\ p.heap[main].live
           /\ main # p.layout => /\ p.heap[main].id \in DOMAIN p.table
                                 /\ p.table[p.heap[main].id] = main
           /\ main = p.layout => p.heap[p.layout].xkb_name \notin DOMAIN p.table,
         p.layout # None => c.id # p.heap[p.layout].xkb_name,
         NEW q, q = Xkb!AddOrFree([p EXCEPT !.heap = Append(@, c)], Len(p.heap) + 1)
  PROVE  /\ ParserInv(q) /\ Tables(q.heap, q.table, q.indexes, q.layout)
         /\ q.layout = p.layout /\ q.failed = p.failed /\ q.undefined = p.undefined
         /\ q.group = p.group
<1> DEFINE h == p.heap
           g == Append(h, c)
           l == Len(h) + 1
           id == c.id
           r == [p EXCEPT !.heap = g]
<1>1. IsParser(p) /\ HeapInv(h) /\ TableType(h, p.table) /\ IndexType(h, p.indexes)
      /\ p.layout \in 1..Len(h) \cup {None} /\ p.group \in {None, "open", "freed"}
      /\ p.failed \in BOOLEAN /\ p.undefined \in BOOLEAN
  BY DEF ParserInv
<1>2. /\ IsParser(r) /\ r.heap = g /\ r.table = p.table /\ r.indexes = p.indexes
      /\ r.layout = p.layout /\ r.failed = p.failed /\ r.undefined = p.undefined
      /\ r.group = p.group
  <2> HIDE DEF g
  <2>. QED BY <1>1 DEF IsParser
<1>3. q = Xkb!AddOrFree(r, l)
  OBVIOUS
<1>4. Tables(h, p.table, p.indexes, p.layout)
  OBVIOUS
<1>5. c.main_layout \in 1..Len(h) \cup {None}
  OBVIOUS
<1>6. /\ main # None =>
           /\ main \in 1..Len(h) /\ h[main].live
           /\ main # p.layout => h[main].id \in DOMAIN p.table /\ p.table[h[main].id] = main
           /\ main = p.layout => h[p.layout].xkb_name \notin DOMAIN p.table
      /\ p.layout # None => id # h[p.layout].xkb_name
  OBVIOUS
<1>7. /\ HeapInv(g) /\ Len(h) \in Nat /\ Len(g) = l /\ l \in 1..Len(g) /\ g[l] = c
      /\ l \notin 1..Len(h)
      /\ \A i \in 1..Len(h) : i \in 1..Len(g) /\ g[i] = h[i]
      /\ SameBut(h, g, l)
  <2>1. Longer(h, g, l, c)
    BY <1>1, <1>5, MoreHeap
  <2> HIDE DEF h, g, l
  <2>. QED BY <2>1 DEF Longer
<1>8. id \in Xkb!Ids /\ g[l].id = id /\ g[l].live /\ g[l].main_layout = main
  BY <1>7
<1> HIDE DEF h, g, l, id, r
<1>9. Tables(g, p.table, p.indexes, p.layout)
  BY <1>1, <1>4, <1>7, SameTables
<1>10. TableType(g, p.table) /\ IndexType(g, p.indexes) /\ Len(g) \in Nat
  <2>1. Len(h) <= Len(g) /\ Len(g) \in Nat
    BY <1>7 DEF SameBut, l
  <2>. QED BY <1>1, <1>7, <2>1, SameTypes
<1>11. /\ IsParser(q) /\ q.layout = p.layout /\ q.group = p.group
       /\ q.failed = p.failed /\ q.undefined = p.undefined
       /\ id \in DOMAIN p.table =>
            /\ q.heap = [g EXCEPT ![l].live = FALSE]
            /\ q.table = p.table /\ q.indexes = p.indexes
       /\ id \notin DOMAIN p.table =>
            /\ q.heap = g /\ q.table = Added(p.table, id, l)
            /\ q.indexes = Indexed(g, p.indexes, l)
  <2>1. id = r.heap[l].id
    BY <1>2, <1>8
  <2>2. AddedOrFreed(r, l, q)
    BY <1>2, <1>3, AddOrFreeFields
  <2>. QED BY <1>2, <2>1, <2>2 DEF AddedOrFreed
<1>12. CASE id \in DOMAIN p.table
  <2>1. HeapInv(q.heap) /\ Len(q.heap) = Len(g) /\ SameBut(g, q.heap, l)
    <3>1. q.heap = [g EXCEPT ![l].live = FALSE]
      BY <1>11, <1>12
    <3>. QED BY ONLY <1>7, <3>1, FreedHeap
  <2>2. SameBut(h, q.heap, l) /\ Len(h) <= Len(q.heap)
    <3>1. Len(h) <= Len(g) /\ \A i \in 1..Len(h) : i \in 1..Len(g) /\ i # l
      BY <1>7 DEF SameBut
    <3>2. \A i \in 1..Len(h) :
            /\ q.heap[i].codes = g[i].codes /\ q.heap[i].main_layout = g[i].main_layout
            /\ q.heap[i].xkb_name = g[i].xkb_name
            /\ q.heap[i].id = g[i].id /\ q.heap[i].live = g[i].live
      BY <2>1, <3>1 DEF SameBut
    <3>3. Len(h) <= Len(q.heap)
      BY <2>1, <3>1
    <3>4. \A i \in 1..Len(h) : g[i] = h[i]
      BY <1>7
    <3>. QED BY <3>2, <3>3, <3>4, ZenonT(30) DEF SameBut
  <2>3. Tables(q.heap, p.table, p.indexes, p.layout)
    BY <1>1, <1>4, <1>7, <2>2, SameTables
  <2>4. TableType(q.heap, q.table) /\ IndexType(q.heap, q.indexes)
    <3>1. Len(g) <= Len(q.heap) /\ Len(q.heap) \in Nat
      BY <1>10, <2>1
    <3>. QED BY <1>10, <1>11, <1>12, <2>1, <3>1, SameTypes
  <2>5. q.layout \in 1..Len(q.heap) \cup {None}
    BY <1>1, <1>7, <1>11, <2>1
  <2>. QED BY <1>1, <1>11, <1>12, <2>1, <2>3, <2>4, <2>5 DEF ParserInv
<1>13. CASE id \notin DOMAIN p.table
  <2>1. l # p.layout
    <3>1. None \notin Nat
      BY LayoutsAssumption DEF Xkb!AreRulesFiles
    <3>. QED BY <1>1, <1>7, <3>1
  <2>2. main # None => /\ g[main].live
                       /\ main # p.layout => g[main].id \in DOMAIN p.table
                                             /\ p.table[g[main].id] = main
                       /\ main = p.layout => g[p.layout].xkb_name \notin DOMAIN p.table
    BY <1>6, <1>7
  <2>3. p.layout # None => id # g[p.layout].xkb_name
    BY <1>1, <1>6, <1>7
  <2>4. Tables(g, Added(p.table, id, l), Indexed(g, p.indexes, l), p.layout)
    BY <1>7, <1>8, <1>9, <1>13, <2>1, <2>2, <2>3, AddTables
  <2>5. TableType(q.heap, q.table) /\ IndexType(q.heap, q.indexes)
    BY <1>7, <1>8, <1>10, <1>11, <1>13, AddTypes
  <2>6. q.layout \in 1..Len(q.heap) \cup {None}
    BY <1>1, <1>7, <1>11, <1>13
  <2>. QED BY <1>1, <1>7, <1>11, <1>13, <2>4, <2>5, <2>6 DEF ParserInv
<1>. QED BY <1>12, <1>13

-----------------------------------------------------------------------------
(* The parser of XML (XkbInfo)                                             *)

\* A layout that was begun at or before element i is over.
Closed(s, i) ==
  \A j \in 1..i : s[j].element = "layout" => \E k \in j..i : s[k].element = "/layout"
NoLayoutTo(s, i) == \A j \in 1..i : s[j].element # "layout"

\* In the first parse nothing freed is left over from another.
Fresh(p, first) ==
  /\ first => ~p.undefined
  /\ first /\ ~p.failed => p.group # "freed" /\ (p.layout # None => p.heap[p.layout].live)

\* A parser after element i of a file of XML: it may hold a layout that a file
\* before this one left open, or an earlier parse, and then fails at the first.
XmlInv(p, s, i, first) ==
  /\ ParserInv(p) /\ Fresh(p, first)
  /\ ~p.failed =>
       /\ p.layout = None => Closed(s, i)
       /\ \/ Tables(p.heap, p.table, p.indexes, p.layout)
          \/ /\ p.layout # None /\ NoLayoutTo(s, i)
             /\ Tables(p.heap, p.table, p.indexes, None)

\* None is neither a place in the heap nor a name.
LEMMA NoneIsNoPlace == None \notin Nat /\ None \notin LayoutNames
BY LayoutsAssumption DEF Xkb!AreRulesFiles, Xkb!Ids

\* What a parser has once some of its parts are others.
Parts(p, h, t, x, l, group, f, gone) ==
  /\ IsParser(p) /\ p.heap = h /\ p.table = t /\ p.indexes = x /\ p.layout = l
  /\ p.group = group /\ p.failed = f /\ p.undefined = gone

\* A parser that begins a layout, and one that fails.
LEMMA BegunParts ==
  ASSUME NEW p, IsParser(p), NEW h, NEW l, NEW q, q = [p EXCEPT !.heap = h, !.layout = l]
  PROVE  Parts(q, h, p.table, p.indexes, l, p.group, p.failed, p.undefined)
BY DEF IsParser, Parts

LEMMA FailedParts ==
  ASSUME NEW p, IsParser(p), NEW h, NEW group, NEW gone, NEW q,
         q = [p EXCEPT !.failed = TRUE, !.undefined = gone, !.heap = h, !.group = group]
  PROVE  Parts(q, h, p.table, p.indexes, p.layout, group, TRUE, gone)
<1>1. IsParser(q)
  BY DEF IsParser
<1>2. q.heap = h /\ q.table = p.table /\ q.indexes = p.indexes /\ q.layout = p.layout
      /\ q.group = group /\ q.failed = TRUE /\ q.undefined = gone
  BY DEF IsParser
<1>. QED BY <1>1, <1>2 DEF Parts

\* An error stops the parser.
LEMMA ErrorInv ==
  ASSUME NEW p, NEW s, NEW i, NEW first, ParserInv(p), ~p.failed, Fresh(p, first)
  PROVE  XmlInv(Xkb!ParseError(p), s, i, first)
<1> DEFINE h == p.heap
           c(l) == IF l = p.layout THEN [h[l] EXCEPT !.live = FALSE] ELSE h[l]
           g == [l \in DOMAIN h |-> c(l)]
           gone == p.undefined \/ (p.layout # None /\ ~p.heap[p.layout].live)
                               \/ p.group = "freed"
           group == IF p.group = None THEN None ELSE "freed"
           q == [p EXCEPT !.failed = TRUE, !.undefined = gone, !.heap = g, !.group = group]
<1>1. Xkb!ParseError(p) = q
  BY DEF Xkb!ParseError
<1>2. gone \in BOOLEAN /\ group \in {None, "open", "freed"}
  BY DEF ParserInv
<1>3. HeapInv(g) /\ Len(g) = Len(h)
  <2>1. h \in Seq(Cell) /\ Len(h) \in Nat /\ DOMAIN h = 1..Len(h)
        /\ \A l \in 1..Len(h) : h[l] \in Cell /\ h[l].main_layout \in 1..Len(h) \cup {None}
    BY DEF ParserInv, HeapInv
  <2>2. ASSUME NEW l \in 1..Len(h)
        PROVE  c(l) \in Cell /\ c(l).main_layout = h[l].main_layout
    BY <2>1 DEF Cell
  <2> HIDE DEF c
  <2>3. g \in [1..Len(h) -> Cell] /\ \A l \in 1..Len(h) : g[l] = c(l)
    BY <2>1, <2>2
  <2> HIDE DEF g
  <2>4. g \in Seq(Cell) /\ Len(g) = Len(h)
    BY <2>1, <2>3
  <2>. QED BY <2>1, <2>2, <2>3, <2>4 DEF HeapInv
<1>4. /\ IsParser(p) /\ TableType(h, p.table) /\ IndexType(h, p.indexes)
      /\ p.layout \in 1..Len(h) \cup {None}
  BY DEF ParserInv
<1> HIDE DEF gone, group, g, h
<1>5. /\ IsParser(q) /\ q.heap = g /\ q.table = p.table /\ q.indexes = p.indexes
      /\ q.layout = p.layout /\ q.group = group /\ q.failed /\ q.failed \in BOOLEAN
      /\ q.undefined = gone
  <2>1. Parts(q, g, p.table, p.indexes, p.layout, group, TRUE, gone)
    BY <1>4, FailedParts
  <2> HIDE DEF q
  <2>. QED BY <2>1 DEF Parts
<1> HIDE DEF q
<1>6. ParserInv(q)
  <2>1. TableType(g, q.table) /\ IndexType(g, q.indexes)
    BY <1>3, <1>4, <1>5 DEF TableType, IndexType
  <2>. QED BY <1>2, <1>3, <1>4, <1>5, <2>1 DEF ParserInv
<1>7. Fresh(q, first)
  <2>1. first => ~gone
    BY DEF Fresh, gone
  <2>. QED BY <1>5, <2>1 DEF Fresh
<1>. QED BY <1>1, <1>5, <1>6, <1>7 DEF XmlInv

\* A layout begins.
LEMMA LayoutInv ==
  ASSUME NEW p, NEW s, NEW first, NEW i \in Nat, i > 0, XmlInv(p, s, i - 1, first), ~p.failed, NEW e,
         e.name \in LayoutNames, e.codes \in [Xkb!Kinds -> SUBSET LayoutCodes]
  PROVE  XmlInv(Xkb!StartLayout(p, e), s, i, first)
<1>1. ParserInv(p) /\ Fresh(p, first)
  BY DEF XmlInv
<1>2. CASE p.layout # None
  BY <1>1, <1>2, ErrorInv DEF Xkb!StartLayout
<1>3. CASE p.layout = None
  <2> DEFINE h == p.heap
             c == Xkb!New(None, e.name, None, e.codes)
             g == Append(h, c)
             l == Len(h) + 1
             q == [p EXCEPT !.heap = g, !.layout = l]
  <2>1. Xkb!StartLayout(p, e) = q
    BY <1>3 DEF Xkb!StartLayout
  <2>2. c \in Cell /\ c.main_layout = None /\ c.live /\ c.id = None
    BY DEF Cell, Xkb!New
  <2>3. HeapInv(h) /\ IsParser(p) /\ TableType(h, p.table) /\ IndexType(h, p.indexes)
        /\ p.group \in {None, "open", "freed"} /\ p.undefined \in BOOLEAN
        /\ p.failed \in BOOLEAN
    BY <1>1 DEF ParserInv
  <2>4. Longer(h, g, l, c)
    BY <2>2, <2>3, MoreHeap
  <2>5. Tables(h, p.table, p.indexes, None)
    BY <1>3 DEF XmlInv
  <2> HIDE DEF h, c, g, l
  <2>6. /\ IsParser(q) /\ q.heap = g /\ q.table = p.table /\ q.indexes = p.indexes
        /\ q.layout = l /\ q.group = p.group /\ q.failed = p.failed
        /\ q.undefined = p.undefined
    <3>1. Parts(q, g, p.table, p.indexes, l, p.group, p.failed, p.undefined)
      BY <2>3, BegunParts
    <3> HIDE DEF q
    <3>. QED BY <3>1 DEF Parts
  <2> HIDE DEF q
  <2>7. Tables(g, p.table, p.indexes, None)
    BY <2>3, <2>4, <2>5, SameTables DEF Longer
  <2>8. Tables(g, p.table, p.indexes, l)
    <3>1. \A id \in DOMAIN p.table :
            /\ p.table[id] \in 1..Len(h)
            /\ g[p.table[id]].main_layout \in 1..Len(h) \cup {None}
      BY <2>3, <2>4 DEF HeapInv, TableType, Longer
    <3>2. l \notin 1..Len(h) /\ l \in 1..Len(g) /\ g[l] = c
      BY <2>4 DEF Longer
    <3>3. TableInv(g, p.table, l)
      BY <2>7, <3>1, <3>2 DEF Tables, TableInv
    <3>4. MainInv(g, p.table, l)
      <4>1. SUFFICES ASSUME NEW id \in DOMAIN p.table, NEW main,
                            main = g[p.table[id]].main_layout, main # None
            PROVE  /\ g[main].live
                   /\ main # l => g[main].id \in DOMAIN p.table
                                  /\ p.table[g[main].id] = main
                   /\ main = l => g[l].xkb_name \notin DOMAIN p.table
        BY DEF MainInv
      <4>2. main \in 1..Len(h) /\ main # l
        BY <3>1, <3>2, <4>1
      <4>3. /\ g[main].live
            /\ g[main].id \in DOMAIN p.table /\ p.table[g[main].id] = main
        BY <2>7, <4>1 DEF Tables, MainInv
      <4>. QED BY <4>2, <4>3
    <3>5. OpenInv(g, l)
      BY <2>2, <3>2 DEF OpenInv
    <3>. QED BY <2>7, <3>3, <3>4, <3>5 DEF Tables
  <2>9. ParserInv(q)
    <3>1. TableType(g, p.table) /\ IndexType(g, p.indexes)
      <4>1. Len(h) <= Len(g) /\ Len(h) \in Nat /\ Len(g) \in Nat
        <5>1. Len(h) \in Nat
          BY <2>4 DEF Longer
        <5>. QED BY <2>4, <5>1 DEF Longer, SameBut, l
      <4>. QED BY <2>3, <4>1, SameTypes
    <3>. QED BY <2>3, <2>4, <2>6, <3>1 DEF ParserInv, Longer
  <2>10. q.layout # None
    BY <2>4, <2>6, NoneIsNoPlace DEF Longer
  <2>11. Fresh(q, first)
    <3>1. g[l].live
      BY <2>2, <2>4 DEF Longer
    <3>. QED BY <1>1, <2>6, <3>1 DEF Fresh
  <2>. QED BY <2>1, <2>6, <2>8, <2>9, <2>10, <2>11 DEF XmlInv
<1>. QED BY <1>2, <1>3

\* A layout ends.
LEMMA EndLayoutInv ==
  ASSUME NEW p, NEW s, NEW first, NEW i \in Nat, i > 0, ParserInv(p), ~p.failed,
         Fresh(p, first),
         s[i].element = "/layout",
         p.layout # None, Tables(p.heap, p.table, p.indexes, p.layout)
  PROVE  XmlInv(Xkb!EndLayout(p), s, i, first)
<1> DEFINE h == p.heap
           l == p.layout
           id == h[l].xkb_name
           c == [h[l] EXCEPT !.id = id]
           g == [h EXCEPT ![l] = c]
           r == [p EXCEPT !.heap = g]
           t == Xkb!AddOrFree(r, l)
           q == [t EXCEPT !.layout = None]
<1>1. Xkb!EndLayout(p) = q
  <2>1. [p EXCEPT !.heap[p.layout].id = p.heap[p.layout].xkb_name] = r
    OBVIOUS
  <2>. QED BY <2>1 DEF Xkb!EndLayout
<1>2. /\ HeapInv(h) /\ IsParser(p) /\ TableType(h, p.table) /\ IndexType(h, p.indexes)
      /\ p.group \in {None, "open", "freed"} /\ p.undefined \in BOOLEAN
      /\ p.failed \in BOOLEAN
      /\ l \in 1..Len(h) /\ Tables(h, p.table, p.indexes, l) /\ h[l].live
  BY DEF ParserInv, Tables, OpenInv
<1>3. h \in Seq(Cell) /\ Len(h) \in Nat /\ h[l] \in Cell
      /\ \A m \in 1..Len(h) : h[m].main_layout \in 1..Len(h) \cup {None}
  BY <1>2 DEF HeapInv
<1>4. /\ c \in Cell /\ c.main_layout = h[l].main_layout /\ c.codes = h[l].codes
      /\ c.xkb_name = h[l].xkb_name /\ c.live = h[l].live /\ c.id = id
      /\ id \in Xkb!Ids
  BY <1>3 DEF Cell, Xkb!Ids
<1> HIDE DEF c
<1>5. g \in Seq(Cell) /\ Len(g) = Len(h)
      /\ \A m \in 1..Len(h) : g[m] = IF m = l THEN c ELSE h[m]
  <2>1. g = [h EXCEPT ![l] = c]
    OBVIOUS
  <2> HIDE DEF g, h, l
  <2>. QED BY ONLY <1>2, <1>3, <1>4, <2>1, ExceptSeq
<1>. HIDE DEF g, h, l, id
<1>6. HeapInv(g)
  BY <1>2, <1>3, <1>4, <1>5 DEF HeapInv
<1>7. SameBut(h, g, l)
  <2>1. Len(h) <= Len(g)
    BY <1>3, <1>5
  <2>. QED BY <1>4, <1>5, <2>1 DEF SameBut
<1>8. /\ IsParser(r) /\ r.heap = g /\ r.table = p.table /\ r.indexes = p.indexes
      /\ r.group = p.group /\ r.failed = p.failed /\ r.undefined = p.undefined
  BY <1>2 DEF IsParser
<1> HIDE DEF r
<1>9. /\ IsParser(t) /\ t.group = p.group
      /\ t.failed = p.failed /\ t.undefined = p.undefined
      /\ id \in DOMAIN p.table =>
           /\ t.heap = [g EXCEPT ![l].live = FALSE]
           /\ t.table = p.table /\ t.indexes = p.indexes
      /\ id \notin DOMAIN p.table =>
           /\ t.heap = g /\ t.table = Added(p.table, id, l)
           /\ t.indexes = Indexed(g, p.indexes, l)
  <2>1. id = r.heap[l].id
    BY <1>2, <1>4, <1>5, <1>8
  <2>2. AddedOrFreed(r, l, t)
    BY <1>8, AddOrFreeFields
  <2> HIDE DEF t
  <2>. QED BY <1>8, <2>1, <2>2 DEF AddedOrFreed
<1> HIDE DEF t
<1>10. /\ IsParser(q) /\ q.heap = t.heap /\ q.table = t.table /\ q.indexes = t.indexes
       /\ q.layout = None /\ q.group = t.group /\ q.failed = t.failed
       /\ q.undefined = t.undefined
  BY <1>9 DEF IsParser
<1> HIDE DEF q
<1>14. Fresh(q, first)
  BY <1>9, <1>10 DEF Fresh
<1>11. Closed(s, i)
  <2>1. \A j \in 1..i : i \in j..i
    OBVIOUS
  <2>. QED BY <2>1 DEF Closed
<1>12. CASE id \in DOMAIN p.table
  <2>1. q.heap = [g EXCEPT ![l].live = FALSE] /\ q.table = p.table /\ q.indexes = p.indexes
    BY <1>9, <1>10, <1>12
  <2>2. HeapInv(q.heap) /\ Len(q.heap) = Len(g) /\ SameBut(g, q.heap, l)
    BY <1>2, <1>5, <1>6, <2>1, FreedHeap
  <2>3. SameBut(h, q.heap, l)
    <3>1. Len(h) <= Len(q.heap)
      BY <1>3, <1>5, <2>2
    <3>2. \A m \in 1..Len(h) :
            /\ q.heap[m].codes = g[m].codes /\ q.heap[m].main_layout = g[m].main_layout
            /\ q.heap[m].xkb_name = g[m].xkb_name
            /\ m # l => q.heap[m].id = g[m].id /\ q.heap[m].live = g[m].live
      BY <1>5, <2>2 DEF SameBut
    <3>. QED BY <1>7, <3>1, <3>2 DEF SameBut
  <2>4. Tables(q.heap, q.table, q.indexes, None)
    <3>1. h[l].xkb_name \in DOMAIN p.table /\ l # None
      BY <1>12 DEF id, l
    <3>. QED BY <1>2, <1>3, <2>1, <2>3, <3>1, CloseFreed
  <2>5. TableType(q.heap, q.table) /\ IndexType(q.heap, q.indexes)
    BY <1>2, <1>5, <2>1, <2>2 DEF TableType, IndexType
  <2>6. ParserInv(q)
    BY <1>2, <1>9, <1>10, <2>2, <2>5 DEF ParserInv
  <2>. QED BY <1>1, <1>10, <1>11, <1>14, <2>4, <2>6 DEF XmlInv
<1>13. CASE id \notin DOMAIN p.table
  <2>1. q.heap = g /\ q.table = Added(p.table, id, l) /\ q.indexes = Indexed(g, p.indexes, l)
    BY <1>9, <1>10, <1>13
  <2>2. Tables(q.heap, q.table, q.indexes, None)
    <3>1. g[l].live /\ g[l].id = id /\ id = h[l].xkb_name /\ l # None
      BY <1>2, <1>4, <1>5 DEF id, l
    <3>. QED BY <1>2, <1>3, <1>4, <1>7, <1>13, <2>1, <3>1, CloseAdded
  <2>3. TableType(q.heap, q.table) /\ IndexType(q.heap, q.indexes)
    <3>1. TableType(g, p.table) /\ IndexType(g, p.indexes) /\ l \in 1..Len(g)
      BY <1>2, <1>5 DEF TableType, IndexType
    <3>. QED BY <1>4, <2>1, <3>1, AddTypes
  <2>4. ParserInv(q)
    BY <1>2, <1>6, <1>9, <1>10, <2>1, <2>3 DEF ParserInv
  <2>. QED BY <1>1, <1>10, <1>11, <1>14, <2>2, <2>4 DEF XmlInv
<1>. QED BY <1>12, <1>13

\* A variant of the layout that is open.
LEMMA VariantInv ==
  ASSUME NEW p, NEW s, NEW first, NEW i, ParserInv(p), ~p.failed, Fresh(p, first), NEW e,
         e.name \in LayoutNames, e.codes \in [Xkb!Kinds -> SUBSET LayoutCodes],
         Tables(p.heap, p.table, p.indexes, p.layout)
  PROVE  XmlInv(Xkb!Variant(p, e), s, i, first)
<1>1. CASE p.layout = None
  BY <1>1, ErrorInv, Zenon DEF Xkb!Variant
<1>2. CASE p.layout # None
  <2> DEFINE h == p.heap
             l == p.layout
             name == h[l].xkb_name
             main == IF name \in DOMAIN p.table THEN p.table[name] ELSE l
             id == <<name, e.name>>
             c == Xkb!New(id, e.name, main, e.codes)
             q == Xkb!AddOrFree([p EXCEPT !.heap = Append(@, c)], Len(h) + 1)
  <2>1. Xkb!Variant(p, e) = q
    BY <1>2 DEF Xkb!Variant
  <2>2. HeapInv(h) /\ TableType(h, p.table) /\ TableInv(h, p.table, l) /\ OpenInv(h, l)
        /\ l \in 1..Len(h)
    BY <1>2 DEF ParserInv, Tables
  <2>3. h[l] \in Cell /\ Len(h) \in Nat
    BY <2>2 DEF HeapInv
  <2>4. name \in LayoutNames
    BY <2>3 DEF Cell
  <2>5. id \in Xkb!Ids /\ id # name
    BY <2>4, LayoutsAssumption DEF Xkb!Ids, Xkb!AreRulesFiles
  <2>6. /\ main \in 1..Len(h) /\ h[main].live
        /\ main # l => h[main].id \in DOMAIN p.table /\ p.table[h[main].id] = main
        /\ main = l => name \notin DOMAIN p.table
    <3>1. CASE name \in DOMAIN p.table
      BY <2>2, <3>1, Zenon DEF TableInv
    <3>2. CASE name \notin DOMAIN p.table
      BY <1>2, <2>2, <3>2 DEF OpenInv
    <3>. HIDE DEF main, name
    <3>. QED BY <3>1, <3>2, Zenon
  <2>7. c \in Cell /\ c.live /\ c.id = id /\ c.main_layout = main
    <3>1. main \in Nat \cup {None}
      <4> HIDE DEF main
      <4>. QED BY <2>3, <2>6
    <3> HIDE DEF id, main
    <3>. QED BY <2>5, <3>1 DEF Cell, Xkb!New
  <2>8. /\ ParserInv(q) /\ Tables(q.heap, q.table, q.indexes, q.layout)
        /\ q.layout = p.layout /\ q.failed = p.failed
        /\ q.undefined = p.undefined /\ q.group = p.group
    <3> HIDE DEF id, c, main
    <3>. QED BY <2>5, <2>6, <2>7, AddNew
  <2> HIDE DEF q
  <2>9. Fresh(q, first)
    BY <2>8 DEF Fresh, Tables, OpenInv
  <2>. QED BY <1>2, <2>1, <2>8, <2>9, Zenon DEF XmlInv
<1>. QED BY <1>1, <1>2

\* What is known of the elements of a rules file.
Elements(s) ==
  /\ Len(s) \in Nat /\ DOMAIN s = 1..Len(s)
  /\ \A i \in 1..Len(s) : s[i].element \in {"layout", "variant"} =>
       s[i].name \in LayoutNames /\ s[i].codes \in [Xkb!Kinds -> SUBSET LayoutCodes]
  /\ \A i \in 1..Len(s) : s[i].element = "variant" =>
       \E j \in 1..i : s[j].element = "layout"
Nested(s) ==
  \A i \in 1..Len(s) : s[i].element = "/layout" =>
    \E j \in 1..i : s[j].element = "layout" /\ \A k \in j..(i - 1) : s[k].element # "/layout"

\* So it is for every file that is taken for granted.
LEMMA FileFacts ==
  ASSUME NEW s, Xkb!IsRulesFile(s)
  PROVE  Elements(s) /\ Nested(s)
<1>1. s \in Seq(Xkb!Range(s))
  BY DEF Xkb!IsRulesFile
<1>2. Len(s) \in Nat /\ DOMAIN s = 1..Len(s)
  BY <1>1
<1>3. ASSUME NEW i \in 1..Len(s), s[i].element \in {"layout", "variant"}
      PROVE  s[i].name \in LayoutNames /\ s[i].codes \in [Xkb!Kinds -> SUBSET LayoutCodes]
  BY <1>2, <1>3 DEF Xkb!IsRulesFile
<1>4. ASSUME NEW i \in 1..Len(s), s[i].element = "variant"
      PROVE  \E j \in 1..i : s[j].element = "layout"
  BY <1>2, <1>4 DEF Xkb!IsRulesFile
<1>5. Elements(s)
  BY <1>2, <1>3, <1>4 DEF Elements
<1>6. ASSUME NEW i \in 1..Len(s), s[i].element = "/layout"
      PROVE  \E j \in 1..i : s[j].element = "layout"
                             /\ \A k \in j..(i - 1) : s[k].element # "/layout"
  BY <1>2, <1>6 DEF Xkb!IsRulesFile
<1>. QED BY <1>5, <1>6 DEF Nested

\* An element that is no part of a layout.
LEMMA OtherInv ==
  ASSUME NEW p, NEW s, NEW first, NEW i \in Nat, i > 0, XmlInv(p, s, i - 1, first),
         s[i].element # "layout",
         NEW q, NEW group \in {None, "open", "freed"}, NEW error \in BOOLEAN,
         p.failed => error, NEW gone \in BOOLEAN,
         Parts(q, p.heap, p.table, p.indexes, p.layout, group, error, gone),
         Fresh(q, first)
  PROVE  XmlInv(q, s, i, first)
<1>1. /\ IsParser(q) /\ q.heap = p.heap /\ q.table = p.table /\ q.indexes = p.indexes
      /\ q.layout = p.layout /\ q.group = group /\ q.failed = error
      /\ q.undefined = gone
  BY DEF Parts
<1>2. ParserInv(q)
  BY <1>1 DEF XmlInv, ParserInv
<1>3. \A j \in 1..i : j = i \/ j \in 1..(i - 1)
  OBVIOUS
<1>4. Closed(s, i - 1) => Closed(s, i)
  <2>1. \A j \in 1..(i - 1) : \A k \in j..(i - 1) : k \in j..i
    OBVIOUS
  <2>. QED BY <1>3, <2>1 DEF Closed
<1>5. NoLayoutTo(s, i - 1) => NoLayoutTo(s, i)
  BY <1>3 DEF NoLayoutTo
<1>. QED BY <1>1, <1>2, <1>4, <1>5 DEF XmlInv

\* A parser that begins or ends a group.
LEMMA GroupParts ==
  ASSUME NEW p, IsParser(p), NEW group, NEW o, NEW gone, NEW q
  PROVE  /\ q = [p EXCEPT !.group = group, !.undefined = gone] =>
              Parts(q, p.heap, p.table, p.indexes, p.layout, group, p.failed, gone)
         /\ q = [p EXCEPT !.group = group, !.options = o] =>
              Parts(q, p.heap, p.table, p.indexes, p.layout, group, p.failed, p.undefined)
<1>1. CASE q = [p EXCEPT !.group = group, !.undefined = gone]
  BY <1>1 DEF IsParser, Parts
<1>2. CASE q = [p EXCEPT !.group = group, !.options = o]
  BY <1>2 DEF IsParser, Parts
<1>. QED BY <1>1, <1>2

\* A parser that cannot read a file, is given all options or uses what is freed.
LEMMA OtherParts ==
  ASSUME NEW p, IsParser(p), NEW o, NEW q
  PROVE  /\ q = [p EXCEPT !.options = o] =>
              Parts(q, p.heap, p.table, p.indexes, p.layout, p.group, p.failed, p.undefined)
         /\ q = [p EXCEPT !.failed = TRUE] =>
              Parts(q, p.heap, p.table, p.indexes, p.layout, p.group, TRUE, p.undefined)
         /\ \A gone : q = [p EXCEPT !.undefined = gone] =>
              Parts(q, p.heap, p.table, p.indexes, p.layout, p.group, p.failed, gone)
BY DEF IsParser, Parts

\* Whatever element comes next.
LEMMA ElementInv ==
  ASSUME NEW s, Elements(s), Nested(s), NEW first, NEW i \in 1..Len(s),
         NEW p, XmlInv(p, s, i - 1, first)
  PROVE  XmlInv(Xkb!ParseElement(p, s[i]), s, i, first)
<1> DEFINE e == s[i]
<1>1. /\ i \in Nat /\ i > 0 /\ ParserInv(p) /\ IsParser(p) /\ Fresh(p, first)
      /\ p.group \in {None, "open", "freed"} /\ p.failed \in BOOLEAN /\ p.undefined \in BOOLEAN
  BY DEF Elements, XmlInv, ParserInv
<1>2. CASE p.failed
  BY <1>1, <1>2 DEF Xkb!ParseElement, XmlInv
<1>3. CASE ~p.failed /\ e.element = "layout"
  <2>1. e.name \in LayoutNames /\ e.codes \in [Xkb!Kinds -> SUBSET LayoutCodes]
    BY <1>3 DEF Elements
  <2>2. Xkb!ParseElement(p, e) = Xkb!StartLayout(p, e)
    BY <1>3 DEF Xkb!ParseElement
  <2> HIDE DEF e
  <2>3. XmlInv(Xkb!StartLayout(p, e), s, i, first)
    BY <1>1, <1>3, <2>1, LayoutInv
  <2>. QED BY <2>2, <2>3 DEF e
<1>4. CASE ~p.failed /\ e.element = "/layout"
  <2>1. PICK j \in 1..i : s[j].element = "layout"
                          /\ \A k \in j..(i - 1) : s[k].element # "/layout"
    BY <1>4 DEF Nested
  <2>2. j \in 1..(i - 1)
    BY <1>1, <1>4, <2>1
  <2>3. ~Closed(s, i - 1) /\ ~NoLayoutTo(s, i - 1)
    BY <2>1, <2>2 DEF Closed, NoLayoutTo
  <2>4. p.layout # None /\ Tables(p.heap, p.table, p.indexes, p.layout)
    BY <1>4, <2>3 DEF XmlInv
  <2>5. Xkb!ParseElement(p, e) = Xkb!EndLayout(p)
    BY <1>4 DEF Xkb!ParseElement
  <2>. QED BY <1>1, <1>4, <2>4, <2>5, EndLayoutInv
<1>5. CASE ~p.failed /\ e.element = "variant"
  <2>1. e.name \in LayoutNames /\ e.codes \in [Xkb!Kinds -> SUBSET LayoutCodes]
    BY <1>5 DEF Elements
  <2>2. PICK j \in 1..i : s[j].element = "layout"
    BY <1>5 DEF Elements
  <2>3. j \in 1..(i - 1)
    BY <1>1, <1>5, <2>2
  <2>4. ~NoLayoutTo(s, i - 1)
    BY <2>2, <2>3 DEF NoLayoutTo
  <2>5. Tables(p.heap, p.table, p.indexes, p.layout)
    BY <1>5, <2>4 DEF XmlInv
  <2>6. Xkb!ParseElement(p, e) = Xkb!Variant(p, e)
    BY <1>5 DEF Xkb!ParseElement
  <2> HIDE DEF e
  <2>7. XmlInv(Xkb!Variant(p, e), s, i, first)
    BY <1>1, <1>5, <2>1, <2>5, VariantInv
  <2>. QED BY <2>6, <2>7 DEF e
<1>6. CASE ~p.failed /\ e.element \notin {"layout", "/layout", "variant"}
  <2> DEFINE q == Xkb!ParseElement(p, e)
             gone == p.undefined \/ (p.layout # None /\ ~p.heap[p.layout].live)
             late == p.undefined \/ p.group = "freed"
             more == [name \in DOMAIN p.options \cup {e.name} |->
                        IF name = e.name THEN e.options ELSE p.options[name]]
  <2>1. \/ q = Xkb!ParseError(p) \/ q = [p EXCEPT !.undefined = late]
        \/ q = [p EXCEPT !.group = "open", !.undefined = gone]
        \/ q = [p EXCEPT !.group = None, !.options = more]
        \/ q = [p EXCEPT !.failed = TRUE]
    <3>1. \/ q = Xkb!StartGroup(p) \/ q = Xkb!EndGroup(p, e) \/ q = Xkb!Option(p)
          \/ q = [p EXCEPT !.failed = TRUE] \/ q = Xkb!ParseError(p)
      BY <1>6 DEF Xkb!ParseElement
    <3>2. Xkb!StartGroup(p) = Xkb!ParseError(p)
          \/ Xkb!StartGroup(p) = [p EXCEPT !.group = "open", !.undefined = gone]
      BY DEF Xkb!StartGroup
    <3>3. Xkb!EndGroup(p, e) = Xkb!ParseError(p)
          \/ Xkb!EndGroup(p, e) = [p EXCEPT !.group = None, !.options = more]
      BY <1>1 DEF Xkb!EndGroup, IsParser
    <3>4. Xkb!Option(p) = Xkb!ParseError(p) \/ Xkb!Option(p) = [p EXCEPT !.undefined = late]
      BY DEF Xkb!Option
    <3> HIDE DEF q, gone, late, more
    <3>. QED BY <3>1, <3>2, <3>3, <3>4
  <2>2. /\ gone \in BOOLEAN /\ (first => ~gone)
        /\ late \in BOOLEAN /\ (first => ~late)
    BY <1>1, <1>6 DEF Fresh
  <2> HIDE DEF q, gone, late, more
  <2>3. CASE q = Xkb!ParseError(p)
    <3>1. XmlInv(Xkb!ParseError(p), s, i, first)
      BY <1>1, <1>6, ErrorInv
    <3>. QED BY <2>3, <3>1 DEF q
  <2>4. CASE q # Xkb!ParseError(p)
    <3>1. PICK group \in {None, "open", "freed"}, error \in BOOLEAN, undefined \in BOOLEAN :
            /\ Parts(q, p.heap, p.table, p.indexes, p.layout, group, error, undefined)
            /\ p.failed => error
            /\ first => ~undefined /\ (~error => group # "freed")
      <4>1. CASE q = [p EXCEPT !.undefined = late]
        <5>1. Parts(q, p.heap, p.table, p.indexes, p.layout, p.group, p.failed, late)
          BY <1>1, <4>1, OtherParts
        <5>. QED BY <1>1, <1>6, <2>2, <5>1 DEF Fresh
      <4>2. CASE q = [p EXCEPT !.group = "open", !.undefined = gone]
        <5>1. Parts(q, p.heap, p.table, p.indexes, p.layout, "open", p.failed, gone)
          BY <1>1, <4>2, GroupParts
        <5>. QED BY <1>1, <2>2, <5>1
      <4>3. CASE q = [p EXCEPT !.group = None, !.options = more]
        <5>1. Parts(q, p.heap, p.table, p.indexes, p.layout, None, p.failed, p.undefined)
          BY <1>1, <4>3, GroupParts
        <5>2. None # "freed"
          BY LayoutsAssumption DEF Xkb!AreRulesFiles
        <5>. QED BY <1>1, <1>6, <5>1, <5>2 DEF Fresh
      <4>4. CASE q = [p EXCEPT !.failed = TRUE]
        <5>1. Parts(q, p.heap, p.table, p.indexes, p.layout, p.group, TRUE, p.undefined)
          BY <1>1, <4>4, OtherParts
        <5>. QED BY <1>1, <1>6, <5>1 DEF Fresh
      <4>. QED BY <2>1, <2>4, <4>1, <4>2, <4>3, <4>4
    <3>2. Fresh(q, first)
      BY <1>1, <1>6, <3>1 DEF Fresh, Parts
    <3>3. XmlInv(q, s, i, first)
      BY <1>1, <1>6, <3>1, <3>2, OtherInv
    <3>. QED BY <3>3 DEF q
  <2>. QED BY <2>3, <2>4
<1>. QED BY <1>2, <1>3, <1>4, <1>5, <1>6

\* A whole file.
LEMMA FileInv ==
  ASSUME NEW s, Xkb!IsRulesFile(s), NEW first, NEW p, XmlInv(p, s, 0, first)
  PROVE  XmlInv(Xkb!FoldLeft(Xkb!ParseElement, p, s), s, Len(s), first)
<1>1. Elements(s) /\ Nested(s) /\ Len(s) \in Nat /\ DOMAIN s = 1..Len(s)
  BY FileFacts DEF Elements
<1>2. PICK r : FoldsTo("xml", 0, p, s, r, Len(s)) /\ Xkb!FoldLeft(Xkb!ParseElement, p, s) = r[Len(s)]
  BY <1>1, ParsingIsARun
<1> DEFINE H == {k \in 0..Len(s) : XmlInv(r[k], s, k, first)}
<1>3. 0 \in H
  BY <1>1, <1>2 DEF FoldsTo
<1>4. ASSUME NEW k \in 0..(Len(s) - 1), k \in H PROVE k + 1 \in H
  <2>1. k + 1 \in 1..Len(s) /\ (k + 1) - 1 = k
    BY <1>1
  <2>2. r[k + 1] = Xkb!ParseElement(r[k], s[k + 1])
    BY <1>2, <2>1 DEF FoldsTo, Folded
  <2>3. XmlInv(r[k], s, k, first)
    BY <1>4
  <2>4. XmlInv(r[k + 1], s, k + 1, first)
    BY <1>1, <2>1, <2>2, <2>3, ElementInv
  <2>. QED BY <1>1, <2>1, <2>4
<1>5. Len(s) \in H
  <2> HIDE DEF H
  <2>1. \A k \in 0..Len(s) : k \in H
    BY <1>1, <1>3, <1>4, UpTo
  <2>. QED BY <1>1, <2>1
<1>. QED BY <1>2, <1>5

-----------------------------------------------------------------------------
(* libxkbregistry (XkbInfo)                                                *)

\* The parser of libxkbregistry has no layout open, and does not fail.
RegistryInv(p) ==
  /\ ParserInv(p) /\ p.layout = None /\ p.group = None /\ p.undefined = FALSE
  /\ Tables(p.heap, p.table, p.indexes, None)

\* Two files, one after the other.
LEMMA BothFiles ==
  ASSUME NEW s, Elements(s), NEW t, Elements(t), s \in Seq(Xkb!Range(s)), t \in Seq(Xkb!Range(t))
  PROVE  Elements(s \o t)
<1> DEFINE u == s \o t
           S == Xkb!Range(s) \cup Xkb!Range(t)
<1>1. s \in Seq(S) /\ t \in Seq(S)
  <2>1. \A i \in 1..Len(s) : s[i] \in S
    BY DEF Elements, Xkb!Range
  <2>2. \A i \in 1..Len(t) : t[i] \in S
    BY DEF Elements, Xkb!Range
  <2> HIDE DEF S
  <2>. QED BY <2>1, <2>2
<1> HIDE DEF S
<1>2. /\ u \in Seq(S) /\ Len(u) = Len(s) + Len(t)
      /\ \A i \in 1..Len(u) : u[i] = IF i <= Len(s) THEN s[i] ELSE t[i - Len(s)]
  BY <1>1
<1>3. Len(s) \in Nat /\ Len(t) \in Nat /\ Len(u) \in Nat /\ DOMAIN u = 1..Len(u)
  BY <1>2 DEF Elements
<1> HIDE DEF u
<1>4. \A i \in 1..Len(s) : i \in 1..Len(u) /\ u[i] = s[i]
  BY <1>2, <1>3
<1>5. \A i \in 1..Len(t) : i + Len(s) \in 1..Len(u) /\ u[i + Len(s)] = t[i]
  <2>1. ASSUME NEW i \in 1..Len(t)
        PROVE  i + Len(s) \in 1..Len(u) /\ u[i + Len(s)] = t[i]
    <3>1. PICK k : k = i + Len(s)
      OBVIOUS
    <3>2. k \in 1..Len(u) /\ ~(k <= Len(s)) /\ k - Len(s) = i
      BY <1>2, <1>3, <3>1
    <3>. QED BY <1>2, <3>1, <3>2
  <2>. QED BY <2>1
<1>6. ASSUME NEW i \in 1..Len(u)
      PROVE  i \in 1..Len(s) \/ \E j \in 1..Len(t) : i = j + Len(s)
  <2>1. CASE i <= Len(s)
    BY <1>3, <2>1
  <2>2. CASE ~(i <= Len(s))
    <3>1. i - Len(s) \in 1..Len(t) /\ i = (i - Len(s)) + Len(s)
      BY <1>2, <1>3, <2>2
    <3>. QED BY <3>1
  <2>. QED BY <2>1, <2>2
<1>7. ASSUME NEW i \in 1..Len(u), u[i].element \in {"layout", "variant"}
      PROVE  u[i].name \in LayoutNames /\ u[i].codes \in [Xkb!Kinds -> SUBSET LayoutCodes]
  <2>1. CASE i \in 1..Len(s)
    BY <1>4, <1>7, <2>1 DEF Elements
  <2>2. ASSUME NEW j \in 1..Len(t), i = j + Len(s)
        PROVE  u[i].name \in LayoutNames /\ u[i].codes \in [Xkb!Kinds -> SUBSET LayoutCodes]
    BY <1>5, <1>7, <2>2 DEF Elements
  <2>. QED BY <1>6, <2>1, <2>2
<1>8. ASSUME NEW i \in 1..Len(u), u[i].element = "variant"
      PROVE  \E j \in 1..i : u[j].element = "layout"
  <2>1. CASE i \in 1..Len(s)
    <3>1. PICK j \in 1..i : s[j].element = "layout"
      BY <1>4, <1>8, <2>1 DEF Elements
    <3>2. j \in 1..Len(s)
      BY <1>3, <2>1
    <3>. QED BY <1>4, <3>1, <3>2
  <2>2. ASSUME NEW k \in 1..Len(t), i = k + Len(s)
        PROVE  \E j \in 1..i : u[j].element = "layout"
    <3>1. t[k].element = "variant"
      BY <1>5, <1>8, <2>2
    <3>2. PICK j \in 1..k : t[j].element = "layout"
      BY <3>1 DEF Elements
    <3>3. j \in 1..Len(t) /\ j + Len(s) \in 1..i
      BY <1>3, <2>2
    <3>. QED BY <1>5, <3>2, <3>3
  <2>. QED BY <1>6, <2>1, <2>2
<1>. QED BY <1>3, <1>7, <1>8 DEF Elements, u

\* What libxkbregistry tells of a layout or variant.
LEMMA EntryFacts ==
  ASSUME NEW s, Elements(s), NEW i \in 1..Len(s), s[i].element \in {"layout", "variant"},
         NEW e, e = Xkb!EntryOf(s, i)
  PROVE  /\ e.name \in LayoutNames /\ e.variant \in LayoutNames \cup {None}
         /\ e.codes \in [Xkb!Kinds -> SUBSET LayoutCodes]
<1>1. Len(s) \in Nat /\ i \in Nat
  BY DEF Elements
<1> DEFINE t == {j \in 1..i : s[j].element = "layout"}
           main == CHOOSE j \in 1..i : /\ s[j].element = "layout"
                                       /\ \A k \in (j + 1)..i : s[k].element # "layout"
<1>2. t # {} /\ t \in SUBSET (1..i)
  <2>1. CASE s[i].element = "layout"
    <3>1. i \in t
      BY <1>1, <2>1
    <3>. QED BY <3>1
  <2>2. CASE s[i].element = "variant"
    BY <2>2 DEF Elements
  <2>. QED BY <2>1, <2>2
<1>3. \E j \in 1..i : /\ s[j].element = "layout"
                      /\ \A k \in (j + 1)..i : s[k].element # "layout"
  <2>1. Max(t) \in t /\ \A k \in t : k <= Max(t)
    <3> HIDE DEF t
    <3>. QED BY <1>1, <1>2, LastPlace
  <2>2. PICK j : j = Max(t)
    OBVIOUS
  <2>3. j \in 1..i /\ s[j].element = "layout"
    BY <2>1, <2>2
  <2>4. ASSUME NEW k \in (j + 1)..i PROVE s[k].element # "layout"
    <3>1. k \in 1..i /\ ~(k <= j)
      BY <1>1, <2>3
    <3>. QED BY <2>1, <2>2, <3>1
  <2>. QED BY <2>3, <2>4
<1>4. main \in 1..i /\ s[main].element = "layout"
  BY <1>3
<1> HIDE DEF main
<1>5. main \in 1..Len(s)
  BY <1>1, <1>4
<1>6. s[main].name \in LayoutNames
  BY <1>4, <1>5 DEF Elements
<1>7. /\ s[i].name \in LayoutNames /\ s[i].codes \in [Xkb!Kinds -> SUBSET LayoutCodes]
  BY DEF Elements
<1>8. /\ e.name = s[main].name /\ e.codes = s[i].codes
      /\ e.variant = IF s[i].element = "variant" THEN s[i].name ELSE None
  BY DEF Xkb!EntryOf, main
<1>. QED BY <1>6, <1>7, <1>8

\* An entry is added, freed as there was one before, or left out.
LEMMA EntryInv ==
  ASSUME NEW p, RegistryInv(p), NEW e, e.name \in LayoutNames,
         e.variant \in LayoutNames \cup {None},
         e.codes \in [Xkb!Kinds -> SUBSET LayoutCodes]
  PROVE  RegistryInv(Xkb!AddEntry(p, e)) /\ Xkb!AddEntry(p, e).failed = p.failed
<1>1. CASE e.variant # None /\ e.name \notin DOMAIN p.table
  BY <1>1 DEF Xkb!AddEntry
<1>2. CASE ~(e.variant # None /\ e.name \notin DOMAIN p.table)
  <2> DEFINE h == p.heap
             main == IF e.variant = None THEN None ELSE p.table[e.name]
             xkb_name == IF e.variant = None THEN e.name ELSE e.variant
             id == IF e.variant = None THEN e.name ELSE <<e.name, e.variant>>
             c == Xkb!New(id, xkb_name, main, e.codes)
             q == Xkb!AddOrFree([p EXCEPT !.heap = Append(@, c)], Len(h) + 1)
  <2>1. Xkb!AddEntry(p, e) = q
    BY <1>2 DEF Xkb!AddEntry
  <2>2. ParserInv(p) /\ p.layout = None /\ Tables(h, p.table, p.indexes, p.layout)
        /\ TableType(h, p.table) /\ TableInv(h, p.table, None) /\ HeapInv(h)
    BY DEF RegistryInv, ParserInv, Tables
  <2>3. main # None =>
          /\ main \in 1..Len(h) /\ h[main].live
          /\ h[main].id \in DOMAIN p.table /\ p.table[h[main].id] = main
          /\ main # p.layout
    BY <1>2, <2>2 DEF TableInv
  <2>4. id \in Xkb!Ids /\ xkb_name \in LayoutNames
    BY DEF Xkb!Ids
  <2>5. main \in Nat \cup {None}
    <3>1. Len(h) \in Nat
      BY <2>2 DEF HeapInv
    <3> HIDE DEF main
    <3>. QED BY <2>3, <3>1
  <2>6. c \in Cell /\ c.live /\ c.id = id /\ c.main_layout = main
    <3> HIDE DEF id, main, xkb_name
    <3>. QED BY <2>4, <2>5 DEF Cell, Xkb!New
  <2>7. /\ ParserInv(q) /\ Tables(q.heap, q.table, q.indexes, q.layout)
        /\ q.layout = p.layout /\ q.failed = p.failed /\ q.undefined = p.undefined
        /\ q.group = p.group
    <3> HIDE DEF id, main, c, xkb_name
    <3>. QED BY <2>2, <2>3, <2>4, <2>6, AddNew
  <2> HIDE DEF q
  <2>. QED BY <2>1, <2>2, <2>7 DEF RegistryInv
<1>. QED BY <1>1, <1>2

\* All layouts, or all variants.
LEMMA AddLayoutsInv ==
  ASSUME NEW s, Elements(s), NEW which \in {"layout", "variant"}, NEW p, RegistryInv(p)
  PROVE  RegistryInv(Xkb!AddLayouts(p, s, which)) /\ Xkb!AddLayouts(p, s, which).failed = p.failed
<1> DEFINE n == Len(s)
<1>1. n \in Nat /\ DOMAIN s = 1..n
  BY DEF Elements
<1>2. /\ \A i \in 1..n : Backwards(s)[i] \in 1..n
  <2> DEFINE w == [i \in DOMAIN s |-> i]
  <2>1. w \in Seq(Nat) /\ Len(w) = n /\ \A i \in 1..n : w[i] = i
    BY <1>1
  <2> HIDE DEF w
  <2>2. \A i \in 1..n : Xkb!Reverse(w)[i] = w[n - i + 1] /\ n - i + 1 \in 1..n
    BY <1>1, <2>1 DEF Xkb!Reverse
  <2>. QED BY <1>1, <2>1, <2>2 DEF Backwards, w
<1> HIDE DEF n
<1>3. PICK r : /\ FoldsTo("registry", Adding(s, which), p, Backwards(s), r, n)
               /\ Xkb!AddLayouts(p, s, which) = r[n]
  BY <1>1, AddingIsARun
<1> DEFINE H == {k \in 0..n : RegistryInv(r[k]) /\ r[k].failed = p.failed}
<1>4. 0 \in H
  BY <1>1, <1>3 DEF FoldsTo
<1>5. ASSUME NEW k \in 0..(n - 1), k \in H PROVE k + 1 \in H
  <2>1. k + 1 \in 1..n /\ (k + 1) - 1 = k
    BY <1>1
  <2>2. PICK i : i = Backwards(s)[k + 1]
    OBVIOUS
  <2>3. i \in 1..Len(s)
    BY <1>2, <2>1, <2>2 DEF n
  <2>4. r[k + 1] = IF s[i].element = which THEN Xkb!AddEntry(r[k], Xkb!EntryOf(s, i))
                   ELSE r[k]
    BY <1>3, <2>1, <2>2 DEF FoldsTo, Folded, Adding
  <2>5. RegistryInv(r[k]) /\ r[k].failed = p.failed
    BY <1>5
  <2>6. RegistryInv(r[k + 1]) /\ r[k + 1].failed = p.failed
    <3>1. CASE s[i].element = which
      <4>1. PICK e : e = Xkb!EntryOf(s, i)
        OBVIOUS
      <4>2. /\ e.name \in LayoutNames /\ e.variant \in LayoutNames \cup {None}
            /\ e.codes \in [Xkb!Kinds -> SUBSET LayoutCodes]
        BY <2>3, <3>1, <4>1, EntryFacts
      <4>3. RegistryInv(Xkb!AddEntry(r[k], e)) /\ Xkb!AddEntry(r[k], e).failed = r[k].failed
        BY <2>5, <4>2, EntryInv
      <4>. QED BY <2>4, <2>5, <3>1, <4>1, <4>3
    <3>2. CASE s[i].element # which
      BY <2>4, <2>5, <3>2
    <3>. QED BY <3>1, <3>2
  <2>. QED BY <1>1, <2>1, <2>6
<1>6. n \in H
  <2> HIDE DEF H
  <2>1. \A k \in 0..n : k \in H
    BY <1>1, <1>4, <1>5, UpTo
  <2>. QED BY <1>1, <2>1
<1>. QED BY <1>3, <1>6

-----------------------------------------------------------------------------
(* The layouts (XkbInfo)                                                   *)

\* The inductive strengthening of LayoutTablesAreSound.
XkbTypeInv ==
  /\ xkbregistry \in BOOLEAN /\ show_all_sources \in BOOLEAN /\ rules \in RulesFiles
  /\ HeapInv(heap)
  /\ layouts_table # None => TableType(heap, layouts_table) /\ IndexType(heap, indexes)
  /\ indexes # None => IndexType(heap, indexes)
  /\ current = [layout |-> current.layout, group |-> current.group]
  /\ current.layout \in 1..Len(heap) \cup {None} /\ current.group \in {None, "open", "freed"}
  /\ parses \in 0..MaxParses /\ info \in {"alive", "undefined"}
XkbTablesInv ==
  /\ xkbregistry \/ parses = 0 => current.layout = None /\ current.group = None
  /\ info = "undefined" => ~xkbregistry /\ parses > 1
  /\ layouts_table # None =>
       \E open \in {None, current.layout} : Tables(heap, layouts_table, indexes, open)
XkbIInv == XkbTypeInv /\ XkbTablesInv

\* It holds at the start.
LEMMA XkbInit == Xkb!Init => XkbIInv
<1> SUFFICES ASSUME Xkb!Init PROVE XkbIInv
  OBVIOUS
<1>1. HeapInv(heap)
  <2>1. <<>> \in Seq(Cell) /\ Len(<<>>) = 0
    OBVIOUS
  <2>. QED BY <2>1 DEF Xkb!Init, HeapInv
<1>2. parses \in 0..MaxParses
  BY LayoutsAssumption DEF Xkb!Init
<1>. QED BY <1>1, <1>2 DEF Xkb!Init, XkbIInv, XkbTypeInv, XkbTablesInv

\* It implies the types, and that the tables are sound.
LEMMA XkbSound ==
  XkbIInv => Xkb!TypeOK /\ Xkb!LayoutTablesAreSound
<1> SUFFICES ASSUME XkbIInv PROVE Xkb!TypeOK /\ Xkb!LayoutTablesAreSound
  OBVIOUS
<1>1. Xkb!TypeOK
  <2>1. \A l \in 1..Len(heap) : heap[l] \in Cell /\ heap[l].main_layout \in 1..Len(heap) \cup {None}
    BY DEF XkbIInv, XkbTypeInv, HeapInv
  <2>2. \A l \in 1..Len(heap) :
          /\ heap[l].id \in Xkb!Ids \cup {None} /\ heap[l].live \in BOOLEAN
          /\ heap[l].codes \in [Xkb!Kinds -> SUBSET LayoutCodes]
    BY <2>1 DEF Cell
  <2>. QED BY <2>1, <2>2 DEF XkbIInv, XkbTypeInv, Xkb!TypeOK, Xkb!Layouts, TableType, IndexType
<1>2. ASSUME layouts_table # None
      PROVE  \E open \in {None, current.layout} :
               /\ TableInv(heap, layouts_table, open) /\ MainInv(heap, layouts_table, open)
               /\ indexes = Index(heap, layouts_table)
  BY <1>2 DEF XkbIInv, XkbTablesInv, Tables
<1>3. Xkb!NoDanglingLayouts
  <2>1. SUFFICES ASSUME layouts_table # None
        PROVE  /\ \A id \in DOMAIN layouts_table :
                    LET l == heap[layouts_table[id]]
                    IN /\ l.live /\ l.id = id
                       /\ l.main_layout # None =>
                            /\ heap[l.main_layout].live
                            /\ l.main_layout # current.layout =>
                                 /\ heap[l.main_layout].id \in DOMAIN layouts_table
                                 /\ layouts_table[heap[l.main_layout].id] = l.main_layout
               /\ \A k \in DOMAIN indexes : \A l \in indexes[k] : heap[l].live
    BY DEF Xkb!NoDanglingLayouts
  <2>2. PICK open \in {None, current.layout} :
          /\ TableInv(heap, layouts_table, open) /\ MainInv(heap, layouts_table, open)
          /\ indexes = Index(heap, layouts_table)
    BY <1>2, <2>1
  <2>3. ASSUME NEW id \in DOMAIN layouts_table
        PROVE  LET l == heap[layouts_table[id]]
               IN /\ l.live /\ l.id = id
                  /\ l.main_layout # None =>
                       /\ heap[l.main_layout].live
                       /\ l.main_layout # current.layout =>
                            /\ heap[l.main_layout].id \in DOMAIN layouts_table
                            /\ layouts_table[heap[l.main_layout].id] = l.main_layout
    BY <2>2 DEF TableInv, MainInv
  <2>4. ASSUME NEW k \in DOMAIN indexes, NEW l \in indexes[k] PROVE heap[l].live
    <3>1. l \in Places(layouts_table)
      BY <2>2, <2>4 DEF Index
    <3>. QED BY <2>2, <3>1 DEF Places, TableInv
  <2>. QED BY <2>3, <2>4
<1>4. Xkb!FoundByItsCodes
  <2> DEFINE Meant(kind, code, codes) ==
               \E c \in codes : CodeNames[<<kind, c>>] = CodeNames[<<kind, code>>]
             Serves(kind, code, l) ==
               \/ Meant(kind, code, l.codes[kind])
               \/ /\ l.codes[kind] = {} /\ l.main_layout # None
                  /\ Meant(kind, code, heap[l.main_layout].codes[kind])
  <2>1. SUFFICES ASSUME layouts_table # None, NEW kind \in Xkb!Kinds, NEW code \in LayoutCodes,
                        CodeNames[<<kind, code>>] # None
        PROVE  Xkb!LayoutsFor(kind, code) =
                 {id \in DOMAIN layouts_table : Serves(kind, code, heap[layouts_table[id]])}
    BY DEF Xkb!FoundByItsCodes
  <2>2. PICK open : TableInv(heap, layouts_table, open) /\ indexes = Index(heap, layouts_table)
    BY <1>2, <2>1
  <2> DEFINE k == <<kind, CodeNames[<<kind, code>>]>>
  <2>3. k \in Xkb!Kinds \X Xkb!Texts
    BY <2>1 DEF Xkb!Texts
  <2>4. indexes[k] = {l \in Places(layouts_table) :
                        CodeNames[<<kind, code>>] \in Xkb!NamesOf(Xkb!CodesOf(heap, l, kind), kind)}
    BY <2>2, <2>3 DEF Index
  <2>5. \A l : CodeNames[<<kind, code>>] \in Xkb!NamesOf(Xkb!CodesOf(heap, l, kind), kind)
                 <=> Serves(kind, code, heap[l])
    <3>1. \A codes : CodeNames[<<kind, code>>] \in Xkb!NamesOf(codes, kind)
                       <=> Meant(kind, code, codes)
      BY <2>1 DEF Xkb!NamesOf
    <3>2. \A l : Serves(kind, code, heap[l]) <=> Meant(kind, code, Xkb!CodesOf(heap, l, kind))
      BY DEF Xkb!CodesOf
    <3> HIDE DEF Serves, Meant
    <3>. QED BY <3>1, <3>2
  <2>6. Xkb!LayoutsFor(kind, code) = {heap[l].id : l \in indexes[k]}
    BY <2>1 DEF Xkb!LayoutsFor
  <2> HIDE DEF Serves, k
  <2>7. indexes[k] = {l \in Places(layouts_table) : Serves(kind, code, heap[l])}
    BY <2>4, <2>5
  <2>8. \A id \in DOMAIN layouts_table : heap[layouts_table[id]].id = id
    BY <2>2 DEF TableInv
  <2>. QED BY <2>6, <2>7, <2>8 DEF Places
<1>5. info = "undefined" => ~xkbregistry /\ parses > 1
  BY DEF XkbIInv, XkbTablesInv
<1>. QED BY <1>1, <1>3, <1>4, <1>5 DEF Xkb!LayoutTablesAreSound

\* A parser that was just made.
LEMMA NewParser ==
  ASSUME XkbIInv
  PROVE  /\ ParserInv(Xkb!Parser) /\ ~Xkb!Parser.failed
         /\ Xkb!Parser.layout = current.layout /\ Xkb!Parser.group = current.group
         /\ Xkb!Parser.undefined = FALSE
         /\ Tables(Xkb!Parser.heap, Xkb!Parser.table, Xkb!Parser.indexes, None)
<1> DEFINE p == Xkb!Parser
           none == [k \in Xkb!Kinds \X Xkb!Texts |-> {}]
<1>1. /\ IsParser(p) /\ p.heap = heap /\ p.table = <<>> /\ p.indexes = none
      /\ p.layout = current.layout /\ p.group = current.group
      /\ p.failed = FALSE /\ p.undefined = FALSE
  BY DEF Xkb!Parser, IsParser
<1>2. DOMAIN <<>> = {}
  OBVIOUS
<1>3. Tables(heap, <<>>, none, None)
  <2>1. Places(<<>>) = {}
    BY <1>2 DEF Places
  <2>2. none = Index(heap, <<>>)
    BY <2>1 DEF Index
  <2>3. TableInv(heap, <<>>, None) /\ MainInv(heap, <<>>, None) /\ OpenInv(heap, None)
    BY <1>2 DEF TableInv, MainInv, OpenInv
  <2>. QED BY <2>2, <2>3 DEF Tables
<1>4. TableType(heap, <<>>) /\ IndexType(heap, none)
  BY <1>2 DEF TableType, IndexType
<1> HIDE DEF p, none
<1>5. ParserInv(p)
  BY <1>1, <1>4 DEF ParserInv, XkbIInv, XkbTypeInv
<1>. QED BY <1>1, <1>3, <1>5 DEF p

\* What a parser leaves, that failed or did not.
ParsedInv(p) ==
  /\ ParserInv(p)
  /\ ~p.failed => \E open \in {None, p.layout} : Tables(p.heap, p.table, p.indexes, open)

\* What the parser of XML leaves, after one file or two.
LEMMA XmlParsed ==
  ASSUME XkbIInv, NEW q, q = Xkb!ParseXML(Xkb!Parser, rules)
  PROVE  ParsedInv(q) /\ (parses = 0 => ~q.undefined)
<1> DEFINE p == Xkb!Parser
           first == parses = 0
           base == Xkb!FoldLeft(Xkb!ParseElement, p, rules.base)
           both == Xkb!FoldLeft(Xkb!ParseElement, base, rules.extras)
<1>1. Xkb!IsRulesFile(rules.base) /\ Xkb!IsRulesFile(rules.extras)
  BY LayoutsAssumption DEF Xkb!AreRulesFiles, XkbIInv, XkbTypeInv
<1>2. \A s : Closed(s, 0) /\ NoLayoutTo(s, 0)
  BY DEF Closed, NoLayoutTo
<1>3. XmlInv(p, rules.base, 0, first)
  <2>1. first => p.layout = None /\ p.group = None
    BY NewParser DEF XkbIInv, XkbTablesInv
  <2>2. None # "freed"
    BY LayoutsAssumption DEF Xkb!AreRulesFiles
  <2>3. Fresh(p, first)
    <3> HIDE DEF p, first
    <3>. QED BY <2>1, <2>2, NewParser DEF Fresh, p
  <2> HIDE DEF p, first
  <2>4. ParserInv(p) /\ ~p.failed /\ Tables(p.heap, p.table, p.indexes, None)
    BY NewParser DEF p
  <2>. QED BY <1>2, <2>3, <2>4 DEF XmlInv
<1> HIDE DEF first
<1>4. XmlInv(base, rules.base, Len(rules.base), first)
  <2> HIDE DEF p
  <2>. QED BY <1>1, <1>3, FileInv
<1> HIDE DEF base
<1>7. q = base \/ (~base.failed /\ q = both)
  BY DEF Xkb!ParseXML, base, both
<1>8. CASE q = base
  BY <1>4, <1>8 DEF XmlInv, ParsedInv, Fresh, first
<1>9. CASE ~base.failed /\ q = both
  <2>1. XmlInv(base, rules.extras, 0, first)
    BY <1>2, <1>4 DEF XmlInv
  <2>2. XmlInv(both, rules.extras, Len(rules.extras), first)
    BY <1>1, <2>1, FileInv
  <2> HIDE DEF both
  <2>. QED BY <1>9, <2>2 DEF XmlInv, ParsedInv, Fresh, first
<1>. QED BY <1>7, <1>8, <1>9

\* What the parser of libxkbregistry leaves.
LEMMA RegistryParsed ==
  ASSUME XkbIInv, xkbregistry, NEW q, q = Xkb!ParseWithRegistry(Xkb!Parser, rules)
  PROVE  ParsedInv(q) /\ q.layout = None /\ q.group = None /\ q.undefined = FALSE
<1> DEFINE p == Xkb!Parser
           more == IF show_all_sources THEN rules.extras ELSE <<>>
           elements == rules.base \o more
           all == Xkb!AddLayouts(Xkb!AddLayouts(p, elements, "layout"), elements, "variant")
<1>1. Xkb!IsRulesFile(rules.base) /\ Xkb!IsRulesFile(rules.extras)
  BY LayoutsAssumption DEF Xkb!AreRulesFiles, XkbIInv, XkbTypeInv
<1>2. RegistryInv(p) /\ p.failed = FALSE
  <2>1. current.layout = None /\ current.group = None
    BY DEF XkbIInv, XkbTablesInv
  <2>2. p.failed \in BOOLEAN
    BY NewParser DEF ParserInv
  <2>. QED BY <2>1, <2>2, NewParser DEF RegistryInv
<1>3. Elements(more) /\ more \in Seq(Xkb!Range(more))
  <2>1. CASE show_all_sources
    BY <1>1, <2>1, FileFacts DEF Xkb!IsRulesFile
  <2>2. CASE ~show_all_sources
    <3>1. more = <<>> /\ DOMAIN <<>> = 1..0 /\ Len(<<>>) = 0 /\ <<>> \in Seq(Xkb!Range(<<>>))
      BY <2>2
    <3>2. Elements(<<>>)
      BY <3>1 DEF Elements
    <3>. QED BY <3>1, <3>2
  <2>. QED BY <2>1, <2>2
<1> HIDE DEF more
<1>4. Elements(elements)
  <2>1. Elements(rules.base) /\ rules.base \in Seq(Xkb!Range(rules.base))
    BY <1>1, FileFacts DEF Xkb!IsRulesFile
  <2>. QED BY <1>3, <2>1, BothFiles
<1> HIDE DEF elements, p
<1>5. RegistryInv(all) /\ all.failed = FALSE
  <2>1. PICK r : r = Xkb!AddLayouts(p, elements, "layout")
    OBVIOUS
  <2>2. RegistryInv(r) /\ r.failed = FALSE
    BY <1>2, <1>4, <2>1, AddLayoutsInv
  <2>3. RegistryInv(Xkb!AddLayouts(r, elements, "variant"))
        /\ Xkb!AddLayouts(r, elements, "variant").failed = r.failed
    BY <1>4, <2>2, AddLayoutsInv
  <2>. QED BY <2>1, <2>2, <2>3
<1> HIDE DEF all
<1>6. q = [p EXCEPT !.failed = TRUE] \/ q = [all EXCEPT !.options = Xkb!OptionsOf(elements)]
  BY DEF Xkb!ParseWithRegistry, p, all, elements, more
<1>7. CASE q = [p EXCEPT !.failed = TRUE]
  <2>1. IsParser(p)
    BY <1>2 DEF RegistryInv, ParserInv
  <2>2. /\ IsParser(q) /\ q.heap = p.heap /\ q.table = p.table /\ q.indexes = p.indexes
        /\ q.layout = p.layout /\ q.group = p.group /\ q.failed = TRUE
        /\ q.undefined = p.undefined
    BY <1>7, <2>1 DEF IsParser
  <2>. QED BY <1>2, <2>2 DEF RegistryInv, ParserInv, ParsedInv
<1>8. CASE q = [all EXCEPT !.options = Xkb!OptionsOf(elements)]
  <2>1. IsParser(all)
    BY <1>5 DEF RegistryInv, ParserInv
  <2>2. PICK o : q = [all EXCEPT !.options = o]
    BY <1>8
  <2>3. Parts(q, all.heap, all.table, all.indexes, all.layout, all.group, all.failed,
              all.undefined)
    BY <2>1, <2>2, OtherParts
  <2>. QED BY <1>5, <2>3 DEF Parts, RegistryInv, ParserInv, ParsedInv
<1>. QED BY <1>6, <1>7, <1>8

\* All layouts of a table are freed.
LEMMA FreeAllInv ==
  ASSUME NEW h, HeapInv(h), NEW table, NEW g, g = Xkb!FreeAll(h, table)
  PROVE  HeapInv(g) /\ Len(g) = Len(h)
<1> DEFINE c(l) == IF \E id \in DOMAIN table : table[id] = l
                   THEN [h[l] EXCEPT !.live = FALSE] ELSE h[l]
<1>1. h \in Seq(Cell) /\ Len(h) \in Nat /\ DOMAIN h = 1..Len(h)
      /\ \A l \in 1..Len(h) : h[l] \in Cell /\ h[l].main_layout \in 1..Len(h) \cup {None}
  BY DEF HeapInv
<1>2. ASSUME NEW l \in 1..Len(h)
      PROVE  c(l) \in Cell /\ c(l).main_layout = h[l].main_layout
  BY <1>1 DEF Cell
<1>3. g = [l \in 1..Len(h) |-> c(l)]
  BY <1>1 DEF Xkb!FreeAll
<1> HIDE DEF c
<1>4. g \in [1..Len(h) -> Cell] /\ \A l \in 1..Len(h) : g[l] = c(l)
  BY <1>2, <1>3
<1>5. g \in Seq(Cell) /\ Len(g) = Len(h)
  BY <1>1, <1>4
<1>. QED BY <1>1, <1>2, <1>4, <1>5 DEF HeapInv

\* The files are parsed, by either parser.
LEMMA ParseInv ==
  ASSUME XkbIInv, Xkb!EnsureRulesAreParsed
  PROVE  XkbIInv'
<1> DEFINE p == IF xkbregistry THEN Xkb!ParseWithRegistry(Xkb!Parser, rules)
                ELSE Xkb!ParseXML(Xkb!Parser, rules)
<1>1. ParsedInv(p)
  BY XmlParsed, RegistryParsed
<1>2. /\ xkbregistry => p.layout = None /\ p.group = None
      /\ xkbregistry \/ parses = 0 => ~p.undefined
  BY XmlParsed, RegistryParsed
<1>3. /\ layouts_table' = IF p.failed THEN None ELSE p.table
      /\ indexes' = IF p.failed THEN None ELSE p.indexes
      /\ heap' = IF p.failed THEN Xkb!FreeAll(p.heap, p.table) ELSE p.heap
      /\ current' = [layout |-> p.layout, group |-> p.group]
      /\ info' = IF p.undefined THEN "undefined" ELSE info
      /\ parses' = parses + 1
      /\ UNCHANGED <<xkbregistry, rules, show_all_sources>>
      /\ parses < MaxParses
  BY DEF Xkb!EnsureRulesAreParsed, Xkb!ParseRules
<1> HIDE DEF p
<1>4. /\ HeapInv(p.heap) /\ TableType(p.heap, p.table) /\ IndexType(p.heap, p.indexes)
      /\ p.layout \in 1..Len(p.heap) \cup {None} /\ p.group \in {None, "open", "freed"}
      /\ p.failed \in BOOLEAN /\ p.undefined \in BOOLEAN
  BY <1>1 DEF ParsedInv, ParserInv
<1>5. HeapInv(heap') /\ Len(heap') = Len(p.heap)
  BY <1>3, <1>4, FreeAllInv
<1>6. current'.layout = p.layout /\ current'.group = p.group
      /\ current' = [layout |-> current'.layout, group |-> current'.group]
  BY <1>3
<1>7. parses' \in 0..MaxParses
  BY <1>3, LayoutsAssumption DEF XkbIInv, XkbTypeInv
<1>8. /\ layouts_table' # None =>
           TableType(heap', layouts_table') /\ IndexType(heap', indexes')
      /\ indexes' # None => IndexType(heap', indexes')
  BY <1>3, <1>4
<1>9. XkbTypeInv'
  <2>1. current.layout' = p.layout /\ current.group' = p.group
    BY <1>6
  <2>2. HeapInv(heap)' /\ Len(heap)' = Len(p.heap)
    BY <1>5 DEF HeapInv
  <2>. QED BY <1>3, <1>4, <1>5, <1>6, <1>7, <1>8, <2>1, <2>2
       DEF XkbIInv, XkbTypeInv, HeapInv, TableType, IndexType
<1>10. XkbTablesInv'
  <2>1. current.layout' = p.layout /\ current.group' = p.group
    BY <1>6
  <2>2. parses \in Nat /\ parses' = parses + 1 /\ parses' # 0 /\ (parses # 0 => parses' > 1)
    BY <1>3, LayoutsAssumption DEF XkbIInv, XkbTypeInv
  <2>3. xkbregistry' \/ parses' = 0 => current.layout' = None /\ current.group' = None
    BY <1>2, <1>3, <2>1, <2>2
  <2>4. info' = "undefined" => ~xkbregistry' /\ parses' > 1
    <3>1. CASE p.undefined
      BY <1>2, <1>3, <2>2, <3>1
    <3>2. CASE ~p.undefined
      BY <1>3, <2>2, <3>2 DEF XkbIInv, XkbTablesInv
    <3>. QED BY <3>1, <3>2
  <2>5. ASSUME layouts_table' # None
        PROVE  \E open \in {None, current.layout'} : Tables(heap', layouts_table', indexes', open)
    <3>1. ~p.failed /\ heap' = p.heap /\ layouts_table' = p.table /\ indexes' = p.indexes
      BY <1>3, <2>5
    <3>. QED BY <1>1, <2>1, <3>1 DEF ParsedInv
  <2>. QED BY <2>3, <2>4, <2>5 DEF XkbTablesInv, Tables, TableInv, MainInv, OpenInv
<1>. QED BY <1>9, <1>10 DEF XkbIInv

\* Every step preserves it.
LEMMA XkbStep ==
  ASSUME XkbIInv, [Xkb!Next]_xkbVars
  PROVE  XkbIInv'
<1>1. CASE Xkb!EnsureRulesAreParsed
  BY <1>1, ParseInv
<1>2. CASE Xkb!ShowAllSourcesChanged
  <2>1. layouts_table' = None /\ show_all_sources' \in BOOLEAN
        /\ UNCHANGED <<xkbregistry, rules, indexes, current, parses, info>>
        /\ (heap' = heap \/ heap' = Xkb!FreeAll(heap, layouts_table))
    BY <1>2 DEF Xkb!ShowAllSourcesChanged
  <2>2. HeapInv(heap') /\ Len(heap') = Len(heap)
    BY <2>1, FreeAllInv DEF XkbIInv, XkbTypeInv
  <2>3. XkbTypeInv'
    BY <2>1, <2>2 DEF XkbIInv, XkbTypeInv, HeapInv, IndexType
  <2>4. XkbTablesInv'
    BY <2>1 DEF XkbIInv, XkbTablesInv
  <2>. QED BY <2>3, <2>4 DEF XkbIInv
<1>3. CASE Xkb!RulesInstalled
  BY <1>3 DEF Xkb!RulesInstalled, XkbIInv, XkbTypeInv, XkbTablesInv
<1>4. CASE UNCHANGED xkbVars
  BY <1>4 DEF xkbVars, XkbIInv, XkbTypeInv, XkbTablesInv
<1>. QED BY <1>1, <1>2, <1>3, <1>4 DEF Xkb!Next

-----------------------------------------------------------------------------
(* The names of the locales (Languages)                                    *)

\* The names that are listed are added one after the other, and the elements of
\* an ISO file are read one after the other.
LEMMA CollectingIsARun ==
  ASSUME NEW p, NEW s, NEW n \in Nat, DOMAIN s = 1..n
  PROVE  \E r : FoldsTo("locales", 0, p, s, r, n) /\ Lang!FoldLeft(Lang!AddLocale, p, s) = r[n]
<1> DEFINE F(g) == g = [t \in SUBSET (1..n) |->
                          IF t = {} THEN p
                          ELSE Lang!AddLocale(g[t \ {Max(t)}], s[Max(t)])]
           iter == CHOOSE g : F(g)
<1>1. \A g : Folds("locales", 0, p, s, n, g) <=> F(g)
  BY DEF Folds, Folded
<1>2. Folds("locales", 0, p, s, n, iter)
  <2>1. \E g : F(g)
    BY <1>1, SomeFold
  <2> HIDE DEF F
  <2>. QED BY <1>1, <2>1
<1>3. Lang!FoldLeft(Lang!AddLocale, p, s) = iter[1..n]
  BY SameLibrary DEF Lang!FoldLeft, Lang!MapThenFoldSet
<1> HIDE DEF iter
<1>. QED BY <1>2, <1>3, FoldRun

LEMMA ReadingIsARun ==
  ASSUME NEW p, NEW s, NEW n \in Nat, DOMAIN s = 1..n
  PROVE  \E r : FoldsTo("tags", 0, p, s, r, n) /\ Lang!FoldLeft(Lang!ParseTag, p, s) = r[n]
<1> DEFINE F(g) == g = [t \in SUBSET (1..n) |->
                          IF t = {} THEN p
                          ELSE Lang!ParseTag(g[t \ {Max(t)}], s[Max(t)])]
           iter == CHOOSE g : F(g)
<1>1. \A g : Folds("tags", 0, p, s, n, g) <=> F(g)
  BY DEF Folds, Folded
<1>2. Folds("tags", 0, p, s, n, iter)
  <2>1. \E g : F(g)
    BY <1>1, SomeFold
  <2> HIDE DEF F
  <2>. QED BY <1>1, <2>1
<1>3. Lang!FoldLeft(Lang!ParseTag, p, s) = iter[1..n]
  BY SameLibrary DEF Lang!FoldLeft, Lang!MapThenFoldSet
<1> HIDE DEF iter
<1>. QED BY <1>2, <1>3, FoldRun

-----------------------------------------------------------------------------
(* What a listed name is used by                                           *)

\* What add_locale calls the id: the name without its codeset.
Id(name) == [name EXCEPT !.codeset = None]

\* What is taken for granted of a listed name, and of UTF-8.
LEMMA ListedFacts ==
  ASSUME NEW name \in Lang!ListedNames
  PROVE  Lang!IsName(name) /\ \A c \in Lang!CodesetsOf(name) : Len(c) \in Nat
BY LocalesAssumption DEF Lang!AreListings

LEMMA CodesetFacts ==
  /\ None # "UTF-8" /\ None # "utf8"
  /\ \A c : Lang!normalize_codeset(c) = "UTF-8" <=> c \in {"UTF-8", "utf8"}
  /\ \A c : Lang!normalize_codeset(Lang!normalize_codeset(c)) = Lang!normalize_codeset(c)
  /\ \A c : c # None => Lang!normalize_codeset(c) # None
BY LocalesAssumption DEF Lang!AreListings, Lang!normalize_codeset, Lang!Utf8

\* No charset is utf8, and that of a name with a codeset of UTF-8 is UTF-8.
LEMMA CharsetFacts ==
  ASSUME libc \in Libcs, NEW name
  PROVE  /\ Lang!Charset(name) # "utf8"
         /\ name.codeset = "UTF-8" => Lang!Charset(name) \in {"UTF-8", None}
         /\ Lang!Charset(name) = "UTF-8" => Lang!MayBeUtf8(libc, name)
<1> DEFINE fits == {l \in libc.installed :
                 /\ l.language = name.language /\ l.territory = name.territory
                 /\ l.modifier = IF name.matches THEN name.modifier ELSE None
                 /\ \/ name.codeset = None /\ l.default
                    \/ name.codeset = l.charset
                    \/ name.codeset \in {"UTF-8", "utf8", "utf-8"} /\ l.charset = "UTF-8"}
           one == CHOOSE l \in fits : TRUE
<1>1. Lang!Charset(name) = IF libc.lax THEN "UTF-8" ELSE IF fits = {} THEN None ELSE one.charset
  BY DEF Lang!Charset, Lang!Utf8, Lang!Spellings
<1>2. fits # {} => one \in fits
  OBVIOUS
<1>3. \A l \in fits : l.charset # "utf8"
  BY LocalesAssumption DEF Lang!AreListings
<1>4. name.codeset = "UTF-8" => \A l \in fits : l.charset = "UTF-8"
  BY CodesetFacts
<1>5. \A l \in fits : l.charset = "UTF-8" => Lang!MayBeUtf8(libc, name)
  BY DEF Lang!MayBeUtf8, Lang!Spellings, Lang!Utf8
<1>6. libc.lax => Lang!MayBeUtf8(libc, name)
  BY DEF Lang!MayBeUtf8
<1> HIDE DEF fits, one
<1>. QED BY <1>1, <1>2, <1>3, <1>4, <1>5, <1>6, CodesetFacts

\* The name of a locale that is taken.
Usable(name) ==
  /\ name.matches /\ name.codeset # None /\ Lang!IsName(name)
  /\ Lang!Charset(name) = "UTF-8" /\ Lang!HasTranslations(name)
  /\ Lang!gnome_parse_locale(name) = name

\* A name with a codeset, parsed.
LEMMA ParsedName ==
  ASSUME libc \in Libcs, NEW name, Lang!IsName(name), name.matches, name.codeset # None,
         Lang!Charset(name) = "UTF-8", NEW parsed, parsed = Lang!gnome_parse_locale(name)
  PROVE  /\ Lang!IsName(parsed) /\ parsed.matches
         /\ parsed.codeset \in {name.codeset, Lang!normalize_codeset(name.codeset)}
         /\ parsed.codeset # None
         /\ Id(parsed) = Id(name) /\ Lang!Charset(parsed) = "UTF-8"
         /\ Lang!gnome_parse_locale(parsed) = parsed
<1> DEFINE c == Lang!normalize_codeset(name.codeset)
           normalized == [name EXCEPT !.codeset = c]
<1>1. /\ Lang!IsName(normalized) /\ normalized.codeset = c /\ normalized.matches
      /\ Id(normalized) = Id(name) /\ normalized.matches = name.matches
  <2> HIDE DEF c
  <2>1. Lang!IsName(normalized) /\ normalized.codeset = c /\ normalized.matches = name.matches
    <3>1. normalized.codeset = c /\ normalized.matches = name.matches
      BY DEF Lang!IsName
    <3>2. normalized =
            [language |-> normalized.language, territory |-> normalized.territory,
             codeset |-> normalized.codeset, modifier |-> normalized.modifier,
             matches |-> normalized.matches]
      BY DEF Lang!IsName
    <3> HIDE DEF normalized
    <3>. QED BY <3>1, <3>2 DEF Lang!IsName
  <2>2. Id(normalized) = Id(name)
    BY DEF Lang!IsName, Id
  <2>. QED BY <2>1, <2>2
<1>2. parsed = IF Lang!language_name_is_valid(normalized) THEN normalized ELSE name
  BY DEF Lang!gnome_parse_locale
<1>3. CASE parsed = name /\ ~Lang!language_name_is_valid(normalized)
  BY <1>2, <1>3
<1>4. CASE Lang!language_name_is_valid(normalized)
  <2>1. parsed = normalized
    BY <1>2, <1>4
  <2>2. Lang!Charset(normalized) = "UTF-8"
    <3>1. CASE c = "UTF-8"
      BY <1>1, <1>4, <3>1, CharsetFacts DEF Lang!language_name_is_valid
    <3>2. CASE c # "UTF-8"
      <4>1. c = name.codeset
        BY <3>2, CodesetFacts DEF Lang!normalize_codeset, Lang!Utf8
      <4>2. normalized = name
        BY <4>1 DEF Lang!IsName
      <4>. QED BY <4>2
    <3>. QED BY <3>1, <3>2
  <2>3. [normalized EXCEPT !.codeset = Lang!normalize_codeset(normalized.codeset)] = normalized
    <3>1. Lang!normalize_codeset(normalized.codeset) = normalized.codeset
      BY <1>1, CodesetFacts
    <3> HIDE DEF normalized
    <3>. QED BY <1>1, <3>1 DEF Lang!IsName
  <2>4. Lang!gnome_parse_locale(normalized) = normalized
    <3> HIDE DEF normalized
    <3>. QED BY <1>1, <2>3 DEF Lang!gnome_parse_locale
  <2>5. c # None
    BY CodesetFacts
  <2> HIDE DEF normalized, c
  <2>. QED BY <1>1, <2>1, <2>2, <2>4, <2>5 DEF c
<1>. QED BY <1>2, <1>3, <1>4

\* A listed name that is taken is used by one that is usable.
LEMMA TakenFacts ==
  ASSUME libc \in Libcs, NEW x, Lang!IsName(x), NEW name, name = Lang!LocaleOf(x),
         name # None
  PROVE  /\ Usable(name) /\ name.codeset \in Lang!CodesetsOf(x)
         /\ Id(name) = Id(x) /\ Lang!MayBeUtf8(libc, x)
<1> DEFINE used == IF x.codeset = None THEN Lang!AppendUtf8(x) ELSE x
<1>1. /\ Lang!Utf8Name(x) = used \/ Lang!Utf8Name(x) = None
      /\ Lang!Utf8Name(x) # None =>
           \/ Lang!normalize_codeset(Lang!Charset(x)) = "UTF-8"
           \/ x.codeset = None
  BY DEF Lang!Utf8Name, Lang!Utf8
<1>2. /\ Lang!Utf8Name(x) = used /\ Lang!language_name_is_valid(used)
      /\ name = Lang!gnome_parse_locale(used) /\ Lang!HasTranslations(name)
  BY <1>1 DEF Lang!LocaleOf
<1>3. used.matches
  BY <1>2 DEF Lang!gnome_parse_locale
<1>4. CASE x.codeset = None
  <2>1. used = [x EXCEPT !.codeset = "UTF-8", !.matches = @ /\ x.modifier = None]
    BY <1>4 DEF Lang!AppendUtf8, Lang!Utf8
  <2>2. x.matches = TRUE
    BY <1>3, <2>1 DEF Lang!IsName
  <2>3. used = [x EXCEPT !.codeset = "UTF-8"]
    BY <1>3, <2>1, <2>2 DEF Lang!IsName
  <2>4. /\ Lang!IsName(used) /\ used.codeset = "UTF-8" /\ Id(used) = Id(x)
    BY <2>3 DEF Lang!IsName, Id
  <2> HIDE DEF used
  <2>5. Lang!Charset(used) = "UTF-8"
    BY <1>2, <2>4, CharsetFacts DEF Lang!language_name_is_valid
  <2>6. used.codeset # None
    BY <2>4, CodesetFacts
  <2>7. /\ Lang!IsName(name) /\ name.matches
        /\ name.codeset \in {used.codeset, Lang!normalize_codeset(used.codeset)}
        /\ name.codeset # None
        /\ Id(name) = Id(used) /\ Lang!Charset(name) = "UTF-8"
        /\ Lang!gnome_parse_locale(name) = name
    BY <1>2, <1>3, <2>4, <2>5, <2>6, ParsedName
  <2>8. name.codeset \in Lang!CodesetsOf(x)
    BY <1>4, <2>4, <2>7, CodesetFacts DEF Lang!CodesetsOf, Lang!Utf8
  <2>9. Lang!MayBeUtf8(libc, x)
    BY <1>4 DEF Lang!MayBeUtf8
  <2>. QED BY <1>2, <2>4, <2>7, <2>8, <2>9 DEF Usable
<1>5. CASE x.codeset # None
  <2>1. used = x
    BY <1>5
  <2>2. Lang!Charset(x) = "UTF-8"
    BY <1>1, <1>2, <1>5, <2>1, CodesetFacts, CharsetFacts DEF Lang!LocaleOf
  <2>3. /\ Lang!IsName(name) /\ name.matches
        /\ name.codeset \in {x.codeset, Lang!normalize_codeset(x.codeset)}
        /\ name.codeset # None
        /\ Id(name) = Id(x) /\ Lang!Charset(name) = "UTF-8"
        /\ Lang!gnome_parse_locale(name) = name
    BY <1>2, <1>3, <1>5, <2>1, <2>2, ParsedName
  <2>4. Lang!MayBeUtf8(libc, x)
    BY <2>2, CharsetFacts
  <2>. QED BY <1>2, <1>5, <2>3, <2>4 DEF Usable, Lang!CodesetsOf
<1>. QED BY <1>4, <1>5

\* The names that are taken of those listed, and a table that has of each of
\* their ids the one whose codeset is longest.
Taken(S) == {Lang!LocaleOf(x) : x \in S} \ {None}
Best(map, S) ==
  /\ map = [id \in DOMAIN map |-> map[id]]
  /\ DOMAIN map = {Id(name) : name \in Taken(S)}
  /\ \A id \in DOMAIN map :
       /\ map[id] \in Taken(S) /\ Id(map[id]) = id
       /\ \A name \in Taken(S) :
            Id(name) = id => Len(name.codeset) <= Len(map[id].codeset)

\* What is taken is usable, and is some listed name but for the codeset.
LEMMA TakenIsUsable ==
  ASSUME libc \in Libcs, NEW S \in SUBSET Lang!ListedNames, NEW name \in Taken(S)
  PROVE  /\ Usable(name) /\ Len(name.codeset) \in Nat
         /\ \E x \in S : /\ name.codeset \in Lang!CodesetsOf(x) /\ Id(name) = Id(x)
                        /\ Lang!MayBeUtf8(libc, x)
<1>1. PICK x \in S : name = Lang!LocaleOf(x) /\ name # None
  BY DEF Taken
<1>2. Lang!IsName(x) /\ \A c \in Lang!CodesetsOf(x) : Len(c) \in Nat
  BY ListedFacts
<1>. QED BY <1>1, <1>2, TakenFacts

\* One more name is listed.
LEMMA AddBest ==
  ASSUME libc \in Libcs, NEW S \in SUBSET Lang!ListedNames, NEW map, Best(map, S),
         NEW x \in Lang!ListedNames
  PROVE  Best(Lang!AddLocale(map, x), S \cup {x})
<1> DEFINE locale == Lang!LocaleOf(x)
           T == S \cup {x}
<1>1. Taken(T) = IF locale = None THEN Taken(S) ELSE Taken(S) \cup {locale}
  BY DEF Taken
<1>2. CASE locale = None
  <2>1. Lang!AddLocale(map, x) = map
    BY <1>2 DEF Lang!AddLocale
  <2>. QED BY <1>1, <1>2, <2>1 DEF Best
<1>3. CASE locale # None
  <2> DEFINE id == Id(locale)
             keeps == id \in DOMAIN map /\ Len(map[id].codeset) > Len(locale.codeset)
             put == Lang!Put(map, id, locale)
  <2>1. Lang!AddLocale(map, x) = IF keeps THEN map ELSE put
    BY <1>3 DEF Lang!AddLocale, Id
  <2>2. Taken(T) = Taken(S) \cup {locale}
    BY <1>1, <1>3
  <2>3. \A name \in Taken(T) : Len(name.codeset) \in Nat
    BY TakenIsUsable
  <2>4. Len(locale.codeset) \in Nat
    BY <2>2, <2>3
  <2> HIDE DEF locale, T
  <2>5. CASE keeps
    <3>1. DOMAIN map = {Id(name) : name \in Taken(T)}
      BY <2>2, <2>5 DEF Best
    <3>2. ASSUME NEW i \in DOMAIN map
          PROVE  /\ map[i] \in Taken(T) /\ Id(map[i]) = i
                 /\ \A name \in Taken(T) :
                      Id(name) = i => Len(name.codeset) <= Len(map[i].codeset)
      <4>1. /\ map[i] \in Taken(S) /\ Id(map[i]) = i
            /\ \A name \in Taken(S) : Id(name) = i => Len(name.codeset) <= Len(map[i].codeset)
        BY DEF Best
      <4>2. Id(locale) = i => Len(locale.codeset) <= Len(map[i].codeset)
        <5>1. Len(map[i].codeset) \in Nat
          BY <2>2, <2>3, <4>1
        <5>. QED BY <2>4, <2>5, <5>1
      <4>. QED BY <2>2, <4>1, <4>2
    <3>3. Best(map, T)
      BY <3>1, <3>2 DEF Best
    <3>. QED BY <2>1, <2>5, <3>3 DEF T
  <2>6. CASE ~keeps
    <3>1. /\ DOMAIN put = DOMAIN map \cup {id} /\ put = [i \in DOMAIN put |-> put[i]]
          /\ put[id] = locale /\ \A i \in DOMAIN map : i # id => put[i] = map[i]
      BY DEF Lang!Put
    <3> HIDE DEF put
    <3>2. DOMAIN put = {Id(name) : name \in Taken(T)}
      BY <2>2, <3>1 DEF Best
    <3>3. ASSUME NEW i \in DOMAIN put
          PROVE  /\ put[i] \in Taken(T) /\ Id(put[i]) = i
                 /\ \A name \in Taken(T) :
                      Id(name) = i => Len(name.codeset) <= Len(put[i].codeset)
      <4>1. CASE i = id
        <5>1. put[i] = locale
          BY <3>1, <4>1
        <5>2. ASSUME NEW name \in Taken(T), Id(name) = i
              PROVE  Len(name.codeset) <= Len(locale.codeset)
          <6>1. CASE name = locale
            BY <2>4, <6>1
          <6>2. CASE name # locale
            <7>1. name \in Taken(S)
              BY <2>2, <6>2
            <7>2. id \in DOMAIN map /\ Len(name.codeset) <= Len(map[id].codeset)
                  /\ map[id] \in Taken(S)
              BY <4>1, <5>2, <7>1 DEF Best
            <7>3. Len(name.codeset) \in Nat /\ Len(map[id].codeset) \in Nat
              BY <2>2, <2>3, <7>1, <7>2
            <7>. QED BY <2>4, <2>6, <7>2, <7>3
          <6>. QED BY <6>1, <6>2
        <5>. QED BY <2>2, <4>1, <5>1, <5>2
      <4>2. CASE i # id
        <5>1. i \in DOMAIN map /\ put[i] = map[i]
          BY <3>1, <4>2
        <5>2. /\ map[i] \in Taken(S) /\ Id(map[i]) = i
              /\ \A name \in Taken(S) : Id(name) = i => Len(name.codeset) <= Len(map[i].codeset)
          BY <5>1 DEF Best
        <5>. QED BY <2>2, <4>2, <5>1, <5>2
      <4>. QED BY <4>1, <4>2
    <3>4. Best(put, T)
      BY <3>1, <3>2, <3>3 DEF Best
    <3>. QED BY <2>1, <2>6, <3>4 DEF T
  <2>. QED BY <2>5, <2>6
<1>. QED BY <1>2, <1>3

\* All names, in whatever order, give the same table.
LEMMA CollectedIsBest ==
  ASSUME libc \in Libcs, NEW s, NEW n \in Nat, DOMAIN s = 1..n,
         \A i \in 1..n : s[i] \in Lang!ListedNames
  PROVE  Best(Lang!FoldLeft(Lang!AddLocale, <<>>, s), Lang!ToSet(s))
<1>1. PICK r : FoldsTo("locales", 0, <<>>, s, r, n)
               /\ Lang!FoldLeft(Lang!AddLocale, <<>>, s) = r[n]
  BY CollectingIsARun
<1> DEFINE S(k) == {s[i] : i \in 1..k}
           H == {k \in 0..n : Best(r[k], S(k))}
<1>2. 0 \in H
  <2>1. r[0] = <<>> /\ DOMAIN <<>> = {} /\ 1..0 = {}
    BY <1>1 DEF FoldsTo
  <2>2. S(0) = {} /\ Taken({}) = {}
    BY <2>1 DEF Taken
  <2>3. <<>> = [i \in {} |-> <<>>[i]]
    OBVIOUS
  <2>4. Best(<<>>, {})
    BY <2>1, <2>2, <2>3 DEF Best
  <2>5. Best(r[0], S(0))
    BY <2>1, <2>2, <2>4
  <2>. QED BY <2>5
<1>3. ASSUME NEW k \in 0..(n - 1), k \in H PROVE k + 1 \in H
  <2>1. k + 1 \in 1..n /\ (k + 1) - 1 = k
    OBVIOUS
  <2>2. r[k + 1] = Lang!AddLocale(r[k], s[k + 1])
    BY <1>1, <2>1 DEF FoldsTo, Folded
  <2>3. S(k) \in SUBSET Lang!ListedNames /\ s[k + 1] \in Lang!ListedNames
    <3>1. \A i \in 1..k : i \in 1..n
      OBVIOUS
    <3>. QED BY <2>1, <3>1
  <2>4. S(k + 1) = S(k) \cup {s[k + 1]}
    <3>1. 1..(k + 1) = 1..k \cup {k + 1}
      OBVIOUS
    <3>. QED BY <3>1
  <2>5. Best(r[k], S(k))
    BY <1>3
  <2> HIDE DEF S
  <2>6. Best(r[k + 1], S(k + 1))
    BY <2>2, <2>3, <2>4, <2>5, AddBest
  <2>. QED BY <2>1, <2>6
<1>4. n \in H
  <2> HIDE DEF H
  <2>1. \A k \in 0..n : k \in H
    BY <1>2, <1>3, UpTo
  <2>. QED BY <2>1
<1>5. S(n) = Lang!ToSet(s)
  BY DEF Lang!ToSet
<1>. QED BY <1>1, <1>4, <1>5

\* There is one such table: no two codesets of a locale are equally long.
LEMMA BestIsOne ==
  ASSUME libc \in Libcs, NEW S \in SUBSET Lang!ListedNames,
         NEW map, NEW other, Best(map, S), Best(other, S)
  PROVE  map = other
<1>1. DOMAIN map = DOMAIN other
  BY DEF Best
<1>2. ASSUME NEW id \in DOMAIN map PROVE map[id] = other[id]
  <2>1. PICK a, b : a = map[id] /\ b = other[id]
    OBVIOUS
  <2>2. /\ a \in Taken(S) /\ b \in Taken(S) /\ Id(a) = id /\ Id(b) = id
        /\ Len(a.codeset) <= Len(b.codeset) /\ Len(b.codeset) <= Len(a.codeset)
    BY <1>1, <2>1 DEF Best
  <2>3. /\ Usable(a) /\ Usable(b)
        /\ Len(a.codeset) \in Nat /\ Len(b.codeset) \in Nat
    BY <2>2, TakenIsUsable
  <2>4. PICK x \in S : /\ a.codeset \in Lang!CodesetsOf(x) /\ Id(a) = Id(x)
                      /\ Lang!MayBeUtf8(libc, x)
    BY <2>2, TakenIsUsable
  <2>5. PICK y \in S : /\ b.codeset \in Lang!CodesetsOf(y) /\ Id(b) = Id(y)
                      /\ Lang!MayBeUtf8(libc, y)
    BY <2>2, TakenIsUsable
  <2>6. Len(a.codeset) = Len(b.codeset)
    BY <2>2, <2>3
  <2>7. a.codeset = b.codeset
    <3>1. [x EXCEPT !.codeset = None] = [y EXCEPT !.codeset = None]
      BY <2>2, <2>4, <2>5 DEF Id
    <3>2. \A library \in Libcs :
            \A u, v \in {name \in Lang!ListedNames : Lang!MayBeUtf8(library, name)} :
              [u EXCEPT !.codeset = None] = [v EXCEPT !.codeset = None] =>
                \A c \in Lang!CodesetsOf(u), d \in Lang!CodesetsOf(v) : Len(c) = Len(d) => c = d
      BY LocalesAssumption DEF Lang!AreListings
    <3>3. /\ x \in {name \in Lang!ListedNames : Lang!MayBeUtf8(libc, name)}
          /\ y \in {name \in Lang!ListedNames : Lang!MayBeUtf8(libc, name)}
      BY <2>4, <2>5
    <3>. QED BY ONLY <3>1, <3>2, <3>3, <2>4, <2>5, <2>6, libc \in Libcs
  <2>8. a = [Id(a) EXCEPT !.codeset = a.codeset]
    BY <2>3 DEF Usable, Lang!IsName, Id
  <2>9. b = [Id(b) EXCEPT !.codeset = b.codeset]
    BY <2>3 DEF Usable, Lang!IsName, Id
  <2>. QED BY <2>1, <2>2, <2>7, <2>8, <2>9
<1>3. map = [id \in DOMAIN map |-> map[id]] /\ other = [id \in DOMAIN other |-> other[id]]
  BY DEF Best
<1>. QED BY <1>1, <1>2, <1>3

\* The sequence that SetToSeq chooses has the elements of the set.
LEMMA SetAsSequence ==
  ASSUME NEW S, IsFiniteSet(S), NEW s, s = Lang!SetToSeq(S)
  PROVE  /\ Cardinality(S) \in Nat /\ DOMAIN s = 1..Cardinality(S)
         /\ Lang!ToSet(s) = S
<1> DEFINE n == Cardinality(S)
<1>1. n \in Nat /\ ExistsBijection(1..n, S)
  BY FS_CardinalityType
<1>2. IsFiniteSet(1..n) /\ Cardinality(1..n) = n
  <2>1. n \in Int /\ 1 \in Int
    BY <1>1
  <2> HIDE DEF n
  <2>2. IsFiniteSet(1..n) /\ Cardinality(1..n) = IF 1 > n THEN 0 ELSE n - 1 + 1
    BY <2>1, FS_Interval
  <2>. QED BY <1>1, <2>2
<1>3. \E f \in [1..n -> S] : Lang!IsInjective(f)
  BY <1>1 DEF ExistsBijection, Bijection, Injection, IsInjective, Lang!IsInjective
<1>4. s = CHOOSE f \in [1..n -> S] : Lang!IsInjective(f)
  BY DEF Lang!SetToSeq, Lang!Cardinality, Cardinality
<1>5. s \in [1..n -> S] /\ Lang!IsInjective(s)
  BY <1>3, <1>4
<1>6. s \in Injection(1..n, S)
  BY <1>5 DEF Injection, IsInjective, Lang!IsInjective
<1>7. s \in Surjection(1..n, S)
  <2> HIDE DEF n
  <2>. QED BY <1>2, <1>6, FS_Injection DEF n
<1>. QED BY <1>1, <1>5, <1>7 DEF Surjection, Lang!ToSet

\* The tables of the ISO codes, at whatever place a file broke.
Tags(map) == \A code \in DOMAIN map : Len(code) \in {2, 3}

\* Their codes have two or three letters, if those read before had.
LEMMA ReadFacts ==
  ASSUME NEW before, Tags(before),
         NEW entries, Lang!AreEntries(entries), NEW map \in Lang!Read(before, entries)
  PROVE  Tags(map)
<1>1. PICK n \in 0..Len(entries) :
        map = Lang!FoldLeft(Lang!ParseTag, before, SubSeq(entries, 1, n))
  BY DEF Lang!Read
<1>2. entries \in Seq(Lang!ToSet(entries)) /\ Len(entries) \in Nat
  BY DEF Lang!AreEntries
<1>3. n \in Nat
  BY <1>2
<1> DEFINE s == SubSeq(entries, 1, n)
<1>4. DOMAIN s = 1..n /\ \A i \in 1..n : s[i] \in Lang!ToSet(entries)
  <2>1. DOMAIN s = 1..n /\ \A i \in 1..n : i \in 1..Len(entries) /\ s[i] = entries[i]
    BY <1>2, <1>3
  <2>2. \A i \in 1..Len(entries) : entries[i] \in Lang!ToSet(entries)
    BY <1>2
  <2>. QED BY <2>1, <2>2
<1> HIDE DEF s
<1>5. PICK r : /\ FoldsTo("tags", 0, before, s, r, n)
               /\ Lang!FoldLeft(Lang!ParseTag, before, s) = r[n]
  BY <1>3, <1>4, ReadingIsARun
<1> DEFINE H == {k \in 0..n : Tags(r[k])}
<1>6. 0 \in H
  <2>1. r[0] = before
    BY <1>5 DEF FoldsTo
  <2>. QED BY <1>3, <2>1
<1>7. ASSUME NEW k \in 0..(n - 1), k \in H PROVE k + 1 \in H
  <2>1. k + 1 \in 1..n /\ (k + 1) - 1 = k
    BY <1>3
  <2>2. PICK entry : entry = s[k + 1]
    OBVIOUS
  <2>3. r[k + 1] = Lang!ParseTag(r[k], entry)
    BY <1>5, <2>1, <2>2 DEF FoldsTo, Folded
  <2>4. ~entry.misfit => \A code \in entry.codes : Len(code) \in {2, 3}
    BY <1>4, <2>1, <2>2 DEF Lang!AreEntries
  <2>5. Tags(r[k])
    BY <1>7
  <2>6. Tags(r[k + 1])
    BY <2>3, <2>4, <2>5 DEF Tags, Lang!ParseTag
  <2>. QED BY <1>3, <2>1, <2>6
<1>8. n \in H
  <2> HIDE DEF H
  <2>1. \A k \in 0..n : k \in H
    BY <1>3, <1>6, <1>7, UpTo
  <2>. QED BY <1>3, <2>1
<1>. QED BY <1>1, <1>5, <1>8 DEF s

\* So have both tables.
LEMMA TablesFacts ==
  /\ \A map \in Lang!ReadLanguages : Tags(map)
  /\ \A map \in Lang!ReadTerritories : Tags(map)
<1>1. Tags(<<>>)
  BY DEF Tags
<1>2. ASSUME NEW map \in Lang!ReadLanguages PROVE Tags(map)
  <2>1. PICK first \in Lang!Read(<<>>, LanguageEntries.iso_639) :
          map \in Lang!Read(first, LanguageEntries.iso_639_3)
    BY DEF Lang!ReadLanguages
  <2>2. Tags(first)
    BY <1>1, <2>1, LocalesAssumption, ReadFacts
  <2>. QED BY <2>1, <2>2, LocalesAssumption, ReadFacts
<1>3. ASSUME NEW map \in Lang!ReadTerritories PROVE Tags(map)
  BY <1>1, LocalesAssumption, ReadFacts DEF Lang!ReadTerritories
<1>. QED BY <1>2, <1>3

-----------------------------------------------------------------------------
(* The locales (Languages)                                                 *)

\* The inductive strengthening of the properties of the locales: the table has
\* the best of the names that were listed when it was made.
LangIInv ==
  /\ libc \in Libcs
  /\ available_locales_map # None =>
       /\ Best(available_locales_map, listed)
       /\ IsFiniteSet(listed) /\ listed \in SUBSET Lang!ListedNames
  /\ languages_map # None => languages_map \in Lang!ReadLanguages
  /\ territories_map # None => territories_map \in Lang!ReadTerritories

\* It holds at the start.
LEMMA LangInit == Lang!Init => LangIInv
BY DEF Lang!Init, LangIInv

\* What is listed, from whichever source.
LEMMA ListingFacts ==
  ASSUME libc \in Libcs, NEW lines \in Listings \cup {<<>>},
         NEW dirents \in Listings \cup {<<>>}
  PROVE  /\ Best(Lang!Collected(lines, dirents), Lang!ToSet(lines \o dirents))
         /\ IsFiniteSet(Lang!ToSet(lines \o dirents))
         /\ Lang!ToSet(lines \o dirents) \in SUBSET Lang!ListedNames
<1>1. ASSUME NEW names \in Listings \cup {<<>>} PROVE names \in Seq(Lang!ListedNames)
  <2>1. CASE names = <<>>
    BY <2>1
  <2>2. CASE names \in Listings
    <3>1. names \in Seq(Lang!ToSet(names)) /\ Lang!ToSet(names) \subseteq Lang!ListedNames
      BY <2>2, LocalesAssumption DEF Lang!AreListings, Lang!ListedNames
    <3>. QED BY <3>1
  <2>. QED BY <2>1, <2>2
<1> DEFINE s == lines \o dirents
           n == Len(s)
<1>2. s \in Seq(Lang!ListedNames)
  BY <1>1
<1> HIDE DEF s
<1>3. n \in Nat /\ DOMAIN s = 1..n /\ \A i \in 1..n : s[i] \in Lang!ListedNames
  BY <1>2
<1> HIDE DEF n
<1>4. Best(Lang!FoldLeft(Lang!AddLocale, <<>>, s), Lang!ToSet(s))
  BY <1>3, CollectedIsBest
<1>5. IsFiniteSet(Lang!ToSet(s)) /\ Lang!ToSet(s) \in SUBSET Lang!ListedNames
  <2>1. Lang!ToSet(s) = {s[i] : i \in 1..n}
    BY <1>3 DEF Lang!ToSet
  <2>2. IsFiniteSet(1..n)
    BY <1>3, FS_Interval
  <2> DEFINE f == [i \in 1..n |-> s[i]]
  <2>3. f \in Surjection(1..n, Lang!ToSet(s))
    BY <2>1 DEF Surjection
  <2>4. IsFiniteSet(Lang!ToSet(s))
    BY <2>2, <2>3, FS_Surjection
  <2>. QED BY <1>3, <2>1, <2>4
<1>. QED BY <1>4, <1>5 DEF Lang!Collected, s

\* The names that are taken are the same as long as the C library is.
LEMMA SameTaken ==
  ASSUME libc' = libc
  PROVE  \A x : Lang!LocaleOf(x)' = Lang!LocaleOf(x)
<1>1. ASSUME NEW name PROVE Lang!Charset(name)' = Lang!Charset(name)
  BY DEF Lang!Charset
<1>2. ASSUME NEW name
      PROVE  Lang!language_name_is_valid(name)' = Lang!language_name_is_valid(name)
  BY <1>1 DEF Lang!language_name_is_valid
<1>3. ASSUME NEW name PROVE Lang!gnome_parse_locale(name)' = Lang!gnome_parse_locale(name)
  BY <1>2 DEF Lang!gnome_parse_locale
<1>4. ASSUME NEW name PROVE Lang!Utf8Name(name)' = Lang!Utf8Name(name)
  BY <1>1 DEF Lang!Utf8Name
<1>. QED BY <1>2, <1>3, <1>4 DEF Lang!LocaleOf

\* So are the best of them.
LEMMA SameBest ==
  ASSUME libc' = libc, Best(available_locales_map', listed')
  PROVE  Best(available_locales_map, listed)'
BY SameTaken DEF Best, Taken

\* What any call does to the tables.
LEMMA LangMoves ==
  ASSUME Lang!Next
  PROVE  /\ libc' = libc
         /\ Lang!Collect \/ UNCHANGED <<available_locales_map, listed>>
         /\ Lang!languages_init \/ UNCHANGED languages_map
         /\ Lang!territories_init \/ UNCHANGED territories_map
<1>1. CASE Lang!GetAllLocales
  BY <1>1 DEF Lang!GetAllLocales
<1>2. ASSUME NEW locale \in Locales, Lang!GetInputSourceFromLocale(locale)
      PROVE  UNCHANGED <<libc, available_locales_map, listed, languages_map, territories_map>>
  BY <1>2 DEF Lang!GetInputSourceFromLocale
<1>3. ASSUME NEW locale \in Locales, NEW translation \in InLanguages,
             \/ Lang!GetLanguageFromLocale(locale, translation)
             \/ Lang!GetCountryFromLocale(locale, translation)
      PROVE  /\ libc' = libc
             /\ Lang!Collect \/ UNCHANGED <<available_locales_map, listed>>
             /\ Lang!languages_init /\ Lang!territories_init
  BY <1>3 DEF Lang!GetLanguageFromLocale, Lang!GetCountryFromLocale
<1>4. ASSUME NEW code \in Codes, NEW translation \in InLanguages,
             \/ Lang!GetLanguageFromCode(code, translation)
             \/ Lang!GetCountryFromCode(code, translation)
      PROVE  /\ UNCHANGED <<libc, available_locales_map, listed>>
             /\ Lang!languages_init \/ UNCHANGED languages_map
             /\ Lang!territories_init \/ UNCHANGED territories_map
  BY <1>4 DEF Lang!GetLanguageFromCode, Lang!GetCountryFromCode
<1>. QED BY <1>1, <1>2, <1>3, <1>4 DEF Lang!Next

\* Every step preserves it.
LEMMA LangStep ==
  ASSUME LangIInv, [Lang!Next]_langVars
  PROVE  LangIInv'
<1>1. /\ libc' = libc
      /\ Lang!Collect \/ UNCHANGED <<available_locales_map, listed>>
      /\ Lang!languages_init \/ UNCHANGED languages_map
      /\ Lang!territories_init \/ UNCHANGED territories_map
  BY LangMoves DEF langVars
<1>2. available_locales_map' # None =>
        /\ Best(available_locales_map', listed')
        /\ IsFiniteSet(listed') /\ listed' \in SUBSET Lang!ListedNames
  <2>1. CASE UNCHANGED <<available_locales_map, listed>>
    BY <2>1 DEF LangIInv
  <2>2. CASE Lang!Collect /\ available_locales_map = None
    <3>1. PICK lines \in Listings \cup {<<>>}, dirents \in Listings \cup {<<>>} :
            /\ available_locales_map' = Lang!Collected(lines, dirents)
            /\ listed' = Lang!ToSet(lines \o dirents)
      BY <2>2 DEF Lang!Collect
    <3>2. libc \in Libcs
      BY DEF LangIInv
    <3>. QED BY <3>1, <3>2, ListingFacts
  <2>. QED BY <1>1, <2>1, <2>2 DEF Lang!Collect
<1>3. languages_map' # None => languages_map' \in Lang!ReadLanguages
  BY <1>1 DEF LangIInv, Lang!languages_init
<1>4. territories_map' # None => territories_map' \in Lang!ReadTerritories
  BY <1>1 DEF LangIInv, Lang!territories_init
<1>5. available_locales_map' # None => Best(available_locales_map, listed)'
  BY <1>1, <1>2, SameBest
<1>6. libc' \in Libcs
  BY <1>1 DEF LangIInv
<1>. QED BY <1>2, <1>3, <1>4, <1>5, <1>6 DEF LangIInv

\* It implies the types.
LEMMA LangTypes == LangIInv => Lang!TypeOK
<1> SUFFICES ASSUME LangIInv PROVE Lang!TypeOK
  OBVIOUS
<1>1. ASSUME available_locales_map # None, NEW id \in DOMAIN available_locales_map
      PROVE  LET name == available_locales_map[id]
             IN /\ name.matches /\ name.codeset # None
                /\ id = [name EXCEPT !.codeset = None]
  <2>1. /\ libc \in Libcs /\ Best(available_locales_map, listed)
        /\ listed \in SUBSET Lang!ListedNames
    BY <1>1 DEF LangIInv
  <2>2. PICK name : name = available_locales_map[id]
    OBVIOUS
  <2>3. name \in Taken(listed) /\ Id(name) = id
    BY <2>1, <2>2 DEF Best
  <2>4. Usable(name)
    BY <2>1, <2>3, TakenIsUsable
  <2>. QED BY <2>2, <2>3, <2>4 DEF Usable, Id
<1>2. languages_map # None => Tags(languages_map)
  BY TablesFacts DEF LangIInv
<1>3. territories_map # None => Tags(territories_map)
  BY TablesFacts DEF LangIInv
<1>. QED BY <1>1, <1>2, <1>3 DEF Lang!TypeOK, LangIInv, Tags

\* It implies that the locales are usable, in whatever order they came.
LEMMA LangUsable == LangIInv => Lang!LocalesAreUsable
<1> SUFFICES ASSUME LangIInv, available_locales_map # None PROVE Lang!LocalesAreUsable
  BY DEF Lang!LocalesAreUsable
<1>1. /\ libc \in Libcs /\ Best(available_locales_map, listed)
      /\ listed \in SUBSET Lang!ListedNames /\ IsFiniteSet(listed)
  BY DEF LangIInv
<1>2. available_locales_map = Lang!Collected(Lang!SetToSeq(listed), <<>>)
  <2> DEFINE s == Lang!SetToSeq(listed)
             n == Cardinality(listed)
  <2>1. n \in Nat /\ DOMAIN s = 1..n /\ Lang!ToSet(s) = listed
    BY <1>1, SetAsSequence
  <2> HIDE DEF n, s
  <2>2. \A i \in 1..n : s[i] \in Lang!ListedNames
    BY <1>1, <2>1 DEF Lang!ToSet
  <2>3. Best(Lang!FoldLeft(Lang!AddLocale, <<>>, s), listed)
    BY <1>1, <2>1, <2>2, CollectedIsBest
  <2>4. s \o <<>> = s
    <3>1. s = [i \in 1..n |-> s[i]]
      BY <2>1 DEF s, Lang!SetToSeq
    <3>. QED BY <2>1, <3>1
  <2>5. Lang!Collected(s, <<>>) = Lang!FoldLeft(Lang!AddLocale, <<>>, s)
    BY <2>4 DEF Lang!Collected
  <2>6. available_locales_map = Lang!Collected(s, <<>>)
    BY <1>1, <2>3, <2>5, BestIsOne
  <2>. QED BY <2>6 DEF s
<1>3. ASSUME NEW id \in DOMAIN available_locales_map, NEW name, name = available_locales_map[id]
      PROVE  /\ Lang!Charset(name) = Lang!Utf8 /\ Lang!HasTranslations(name)
             /\ Lang!gnome_normalize_locale(name) = name
  <2>1. name \in Taken(listed)
    BY <1>1, <1>3 DEF Best
  <2>2. Usable(name)
    BY <1>1, <2>1, TakenIsUsable
  <2>. QED BY <2>2 DEF Usable, Lang!Utf8, Lang!gnome_normalize_locale
<1>. QED BY <1>2, <1>3 DEF Lang!LocalesAreUsable

\* One locale of a code is the only one.
LEMMA UniqueFacts ==
  ASSUME NEW map, IsFiniteSet(DOMAIN map), NEW a \in DOMAIN map, NEW b \in DOMAIN map, a # b
  PROVE  /\ a.language = b.language => ~Lang!is_unique_language(map, a.language)
         /\ a.territory = b.territory => ~Lang!is_unique_territory(map, a.territory)
<1>1. ASSUME NEW S \in SUBSET DOMAIN map, a \in S, b \in S PROVE Cardinality(S) # 1
  <2>1. IsFiniteSet(S)
    BY FS_Subset
  <2>2. ~\E x : S = {x}
    BY <1>1
  <2>. QED BY <2>1, <2>2, FS_Singleton
<1>2. Lang!is_unique_language(map, a.language)
        <=> Cardinality({id \in DOMAIN map : id.language = a.language}) = 1
  BY DEF Lang!is_unique_language, Lang!Cardinality, Cardinality
<1>3. Lang!is_unique_territory(map, a.territory)
        <=> Cardinality({id \in DOMAIN map : id.territory = a.territory}) = 1
  BY DEF Lang!is_unique_territory, Lang!Cardinality, Cardinality
<1>. QED BY <1>1, <1>2, <1>3

\* What is known of an available locale and of the name it is used by.
LEMMA AvailableFacts ==
  ASSUME LangIInv, available_locales_map # None,
         NEW id \in DOMAIN available_locales_map,
         NEW name, name = available_locales_map[id]
  PROVE  /\ Lang!gnome_parse_locale(name) = name /\ name # None
         /\ name.language = id.language /\ name.territory = id.territory
         /\ name.modifier = id.modifier
<1>1. /\ libc \in Libcs /\ Best(available_locales_map, listed)
      /\ listed \in SUBSET Lang!ListedNames
  BY DEF LangIInv
<1>2. name \in Taken(listed) /\ Id(name) = id /\ name # None
  BY <1>1 DEF Best, Taken
<1>3. Usable(name)
  BY <1>1, <1>2, TakenIsUsable
<1>4. Lang!gnome_parse_locale(name) = name /\ Lang!IsName(name)
  BY <1>3 DEF Usable
<1>. QED BY <1>2, <1>4 DEF Id, Lang!IsName

\* There are finitely many.
LEMMA FinitelyManyAvailable ==
  ASSUME LangIInv, available_locales_map # None
  PROVE  IsFiniteSet(DOMAIN available_locales_map)
<1>1. Best(available_locales_map, listed) /\ IsFiniteSet(listed)
  BY DEF LangIInv
<1> DEFINE f == [x \in listed |-> Id(Lang!LocaleOf(x))]
           S == {f[x] : x \in listed}
<1>2. f \in Surjection(listed, S)
  BY DEF Surjection
<1>3. IsFiniteSet(S)
  <2> HIDE DEF f, S
  <2>. QED BY <1>1, <1>2, FS_Surjection
<1>4. DOMAIN available_locales_map \in SUBSET S
  BY <1>1 DEF Best, Taken
<1> HIDE DEF S
<1>. QED BY <1>3, <1>4, FS_Subset

\* It implies that names tell the locales apart: of two locales with one code
\* neither is alone with it, so their names have all their parts.
LEMMA LangApart == LangIInv => Lang!NamesTellLocalesApart
<1> DEFINE names == available_locales_map
           Ltext(id, translation) ==
             Lang!get_translated_language(languages_map, id.language, translation)
           Mtext(id, translation) ==
             Lang!gnome_get_translated_modifier(id.modifier, translation)
           Ttext(id, translation) ==
             IF id.territory = None THEN None
             ELSE Lang!get_translated_territory(territories_map, id.territory, translation)
           Lname(id, translation) ==
             Lang!LanguageName(names[id], translation, languages_map, territories_map, names)
           Cname(id, translation) ==
             Lang!CountryName(names[id], translation, languages_map, territories_map, names)
<1>1. SUFFICES ASSUME LangIInv, names # None, languages_map # None, territories_map # None,
                      NEW a \in DOMAIN names, NEW b \in DOMAIN names,
                      NEW translation \in InLanguages
               PROVE  /\ (/\ a.language = b.language
                          /\ Lname(a, translation) = Lname(b, translation)
                          /\ Lname(a, translation) # None) =>
                           /\ Ttext(a, translation) = Ttext(b, translation)
                           /\ Mtext(a, translation) = Mtext(b, translation)
                      /\ (/\ a.territory = b.territory
                          /\ Cname(a, translation) = Cname(b, translation)
                          /\ Cname(a, translation) # None) =>
                           /\ Ltext(a, translation) = Ltext(b, translation)
                           /\ Mtext(a, translation) = Mtext(b, translation)
  BY Zenon DEF Lang!NamesTellLocalesApart
<1>2. ASSUME NEW id \in DOMAIN names, Lname(id, translation) # None,
             ~Lang!is_unique_language(names, id.language)
      PROVE  /\ Lname(id, translation).territory = Ttext(id, translation)
             /\ Lname(id, translation).modifier = Mtext(id, translation)
  <2>1. PICK name : /\ name = names[id] /\ Lang!gnome_parse_locale(name) = name
                    /\ name.language = id.language /\ name.territory = id.territory
                    /\ name.modifier = id.modifier /\ name # None
    BY <1>1, AvailableFacts
  <2>2. PICK l, m, t, c : /\ l = Ltext(id, translation) /\ m = Mtext(id, translation)
                          /\ t = Ttext(id, translation)
                          /\ c = Lang!CodesetShown(name.codeset, name)
    OBVIOUS
  <2>3. Lname(id, translation) =
          IF l = None THEN None
          ELSE [language |-> l, modifier |-> m, territory |-> t, codeset |-> c]
    BY <1>2, <2>1, <2>2 DEF Lang!LanguageName
  <2> HIDE DEF Lname
  <2>. QED BY <1>2, <2>2, <2>3
<1>3. ASSUME NEW id \in DOMAIN names, Cname(id, translation) # None,
             ~Lang!is_unique_territory(names, id.territory)
      PROVE  /\ Cname(id, translation).language = Ltext(id, translation)
             /\ Cname(id, translation).modifier = Mtext(id, translation)
  <2>1. PICK name : /\ name = names[id] /\ Lang!gnome_parse_locale(name) = name
                    /\ name.language = id.language /\ name.territory = id.territory
                    /\ name.modifier = id.modifier /\ name # None
    BY <1>1, AvailableFacts
  <2>2. PICK l, m, t, c : /\ l = Ltext(id, translation) /\ m = Mtext(id, translation)
                          /\ t = Ttext(id, translation)
                          /\ c = Lang!CodesetShown(name.codeset, translation)
    OBVIOUS
  <2>3. Cname(id, translation) =
          IF t = None THEN None
          ELSE [territory |-> t, language |-> l, modifier |-> m, codeset |-> c]
    BY <1>3, <2>1, <2>2 DEF Lang!CountryName
  <2> HIDE DEF Cname
  <2>. QED BY <1>3, <2>2, <2>3
<1>4. a # b => /\ a.language = b.language =>
                    /\ ~Lang!is_unique_language(names, a.language)
                    /\ ~Lang!is_unique_language(names, b.language)
               /\ a.territory = b.territory =>
                    /\ ~Lang!is_unique_territory(names, a.territory)
                    /\ ~Lang!is_unique_territory(names, b.territory)
  BY <1>1, FinitelyManyAvailable, UniqueFacts
<1> HIDE DEF names, Lname, Cname, Ltext, Ttext, Mtext
<1>5. CASE a = b
  BY <1>5
<1>6. CASE a # b
  BY <1>1, <1>2, <1>3, <1>4, <1>6
<1>. QED BY <1>5, <1>6

-----------------------------------------------------------------------------
(* Helpers                                                                 *)

\* The invariants of the components, without what the main loop owes.
LEMMA FadeInductive == Spec => []FadeIInv
<1>1. {Duration, MaxStarts, MaxSets, MaxClockSets} \subseteq Nat /\ None \notin Fade!Ids
  BY FadeAssumption DEF Fade!Ids
<1>2. Init => FadeIInv
  BY <1>1, FadeInit DEF Init
<1>3. FadeIInv /\ [Next]_vars => FadeIInv'
  <2>1. [Next]_vars => [Fade!Next]_(fadeVars)
    BY DEF Next, vars, fadeVars
  <2>2. FadeIInv /\ [Fade!Next]_(fadeVars) => FadeIInv'
    BY <1>1, FadeStep
  <2>. QED BY <2>1, <2>2
<1>. QED BY <1>2, <1>3, PTL DEF Spec

LEMMA ScopeInductive == Spec => []ScopeIInv
<1>1. Init => ScopeIInv
  BY ScopeInit DEF Init
<1>2. [Next]_vars => [Scope!Next]_(scopeVars)
  BY DEF Next, vars, scopeVars
<1>. QED BY <1>1, <1>2, ScopeStep, PTL DEF Spec

LEMMA ScriptInductive == Spec => []ScriptIInv
<1>1. Init => ScriptIInv
  BY ScriptInit DEF Init
<1>2. [Next]_vars => [Script!Next]_(scriptVars)
  BY DEF Next, vars, scriptVars
<1>. QED BY <1>1, <1>2, ScriptStep, PTL DEF Spec

LEMMA XkbInductive == Spec => []XkbIInv
<1>1. Init => XkbIInv
  BY XkbInit DEF Init
<1>2. XkbIInv /\ [Next]_vars => XkbIInv'
  BY XkbStep DEF Next, vars
<1>. QED BY <1>1, <1>2, PTL DEF Spec

LEMMA LangInductive == Spec => []LangIInv
<1>1. Init => LangIInv
  BY LangInit DEF Init
<1>2. LangIInv /\ [Next]_vars => LangIInv'
  BY LangStep DEF Next, vars
<1>. QED BY <1>1, <1>2, PTL DEF Spec

\* Every component has its types: the fade (gnome-bg-crossfade.c:37-46), the
\* tasks, the bus and systemd (gnome-systemd.c:32-36), the runs and their files
\* (gnome-desktop-thumbnail-script.c:48-70), the layouts and the parser
\* (gnome-xkb-info.c:46-93) and the locales (gnome-languages.c:57-70).
THEOREM TypeCorrect == Spec => []TypeOK
<1>1. FadeIInv => Fade!TypeOK
  BY DEF FadeIInv
<1>2. ScopeIInv => Scope!TypeOK
  BY DEF ScopeIInv
<1>3. ScriptIInv => Script!TypeOK
  BY DEF ScriptIInv
<1>4. FadeIInv /\ ScopeIInv /\ ScriptIInv /\ XkbIInv /\ LangIInv => TypeOK
  BY <1>1, <1>2, <1>3, XkbSound, LangTypes DEF TypeOK
<1>. QED BY <1>4, FadeInductive, ScopeInductive, ScriptInductive, XkbInductive,
            LangInductive, PTL

\* A fade that was started runs, or has told its client once that it is
\* finished, until a handler of gnome_bg_crossfade_stop starts one
\* (gnome-bg-crossfade.c:423-536).
THEOREM FadesFinishOnce == Spec => []EveryFadeFinishesOnce
<1>1. FadeIInv => EveryFadeFinishesOnce
  BY DEF FadeIInv, EveryFadeFinishesOnce
<1>. QED BY <1>1, FadeInductive, PTL

\* Success means that the process was moved to its scope or that there was
\* nothing to do, and a task is answered at most once, for any number of
\* tasks, cancelled or timed out at any point (gnome-systemd.c:46-143).
THEOREM SuccessIsTrue == Spec => []SuccessMeansMoved
<1>1. ScopeIInv => SuccessMeansMoved
  BY DEF ScopeIInv, Scope!TypeOK, ScopeAnswerInv, SuccessMeansMoved,
         Scope!SuccessMeansMoved
<1>. QED BY <1>1, ScopeInductive, PTL

\* The name of an application is read back from that of its unit, whatever
\* the ASCII it is of and for any number of tasks (gnome-systemd.c:154-280).
THEOREM NamesAreReadBack == Spec => []NamesCanBeExtracted
<1>1. Scope!TypeOK /\ ScopeUnitInv => NamesCanBeExtracted
  <2> SUFFICES ASSUME Scope!TypeOK, ScopeUnitInv, NEW t \in Tasks, task[t].unit # None,
                      \A i \in DOMAIN Scope!AppName(task[t].name) :
                         Scope!AppName(task[t].name)[i] >= 0
               PROVE  Scope!Unescape(task[t].unit.name) = Scope!AppName(task[t].name)
    BY DEF NamesCanBeExtracted, Scope!NamesCanBeExtracted
  <2>1. PICK pid \in Pids : task[t].unit = Scope!Unit(task[t].name, pid)
    BY DEF ScopeUnitInv
  <2>2. task[t].unit.name = Scope!systemd_unit_name_escape(Scope!AppName(task[t].name))
    BY <2>1 DEF Scope!Unit
  <2>3. task[t].name \in AppNames \cup {None}
    BY DEF Scope!TypeOK
  <2>4. Scope!AppName(task[t].name) \in Seq(0..127)
    BY <2>3, NamesOfAscii
  <2>. QED BY <2>2, <2>4, EscapedNamesCanBeRead
<1>2. Init => ScopeUnitInv
  BY DEF Init, Scope!Init, Scope!NewTask, ScopeUnitInv
<1>3. [Next]_vars => [Scope!Next]_(scopeVars)
  BY DEF Next, vars, scopeVars
<1>4. ScopeIInv => Scope!TypeOK
  BY DEF ScopeIInv
<1>. QED BY <1>1, <1>2, <1>3, <1>4, ScopeInductive, ScopeUnitStep, PTL DEF Spec

\* Whatever fails, and however the runs interleave, a run that is over has no
\* descriptor open, no file but what its thumbnailer left, and no half-written
\* registry in GStreamer's directory but one that could not be removed
\* (gnome-desktop-thumbnail-script.c:964-998, 1187-1222).
THEOREM RunsCleanUp == Spec => []NothingLeftBehind
<1>1. ScriptIInv => NothingLeftBehind
  <2> SUFFICES ASSUME ScriptIInv, NEW r \in Runs, run[r].step \in {"idle", "done"}
               PROVE /\ r \notin fds
                     /\ \A file \in files : file[1] = r =>
                          Script!Has(r, "left") /\ file[2] \in {"outdir", "left"}
                     /\ r \in registry => r \in spared
    BY DEF NothingLeftBehind, Script!NothingLeftBehind
  <2>1. r \notin fds
    BY DEF ScriptIInv, ScriptHoldsInv
  <2>2. \A file \in files : file[1] = r =>
          Script!Has(r, "left") /\ file[2] \in {"outdir", "left"}
    BY DEF ScriptIInv, ScriptHoldsInv, ScriptLeftInv
  <2>3. r # Script!Registry /\ r \in registry => r \in spared
    BY DEF ScriptIInv, ScriptRegistryInv
  <2>. QED BY <2>1, <2>2, <2>3, ScriptAssumption
<1>. QED BY <1>1, ScriptInductive, PTL

\* For any rules files, with libxkbregistry and without, whatever the settings
\* and whichever file fails: what is reached from the tables of the layouts is
\* alive, also after another parse, the main layout of a variant is the one in
\* the table, and who asks for a language or a country gets the layouts with a
\* code of that name (gnome-xkb-info.c:140-202, 742-797, 1123-1191).
THEOREM LayoutTablesStaySound == Spec => []LayoutTablesAreSound
<1>1. XkbIInv => LayoutTablesAreSound
  BY XkbSound DEF LayoutTablesAreSound
<1>. QED BY <1>1, XkbInductive, PTL

\* The table of the locales is the same in whatever order any number of names
\* was listed, and each can be used: the C library has it in UTF-8, there are
\* translations for it and its name is normalized (gnome-languages.c:352-439).
THEOREM LocalesStayUsable == Spec => []LocalesAreUsable
<1>1. LangIInv => LocalesAreUsable
  BY LangUsable DEF LocalesAreUsable
<1>. QED BY <1>1, LangInductive, PTL

\* Two available locales of one language or one territory have one name only if
\* nothing else of them has names that differ, whatever the catalogs say and
\* whatever was read of the ISO files (gnome-languages.c:1070-1241).
THEOREM NamesStayApart == Spec => []NamesTellLocalesApart
<1>1. LangIInv => NamesTellLocalesApart
  BY LangApart DEF NamesTellLocalesApart
<1>. QED BY <1>1, LangInductive, PTL
=============================================================================
