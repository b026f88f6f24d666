------------------------------ MODULE Crossfade ------------------------------
(***************************************************************************)
(* GnomeBGCrossfade (gnome-bg-crossfade.c): a fade is a timeout source of  *)
(* the main loop whose destroy notify, on_finished, tells the client.  The *)
(* client's handler may call the fade again, from the end of a tick and    *)
(* from within gnome_bg_crossfade_stop; finalize tells nobody, for then    *)
(* the handlers are gone.                                                  *)
(*                                                                         *)
(* Surfaces are there or not: tile_surface may fail to copy one.  Time is  *)
(* that of the real time clock, which may be set, in units of which a fade *)
(* takes Duration; the client's drawing does not call the fade.            *)
(***************************************************************************)
EXTENDS Integers, Sequences, SequencesExt, FiniteSets

CONSTANTS Duration,    \* total_duration of a new fade: .75 seconds
          None,
          MaxStarts,   \* bound: fades started
          MaxSets,     \* bound: surfaces set
          MaxClockSets \* bound: how often the clock is set

VARIABLES
  state,             \* "alive", "aborted", "undefined" or "finalized"
  fading_surface, end_surface,     \* are they there
  timeout_id,        \* the source's id, or None
  sources,           \* the ids of the sources that are attached
  elapsed,           \* the time since start_time, if the clock was not set
  clock_sets,        \* how often it was set
  total_duration,
  is_first_frame,
  stack,             \* whence the handlers of finished that run were called
  started, finished, \* history: how many fades were
  lost,              \* history: the sources stop forgot
  animations,        \* the setting gtk-enable-animations
  sets, failed       \* how many surfaces were set; one failed during a fade

surfaceVars == <<fading_surface, end_surface>>
timeVars == <<elapsed, clock_sets, total_duration, is_first_frame>>
callVars == <<sets, failed>>
vars == <<state, surfaceVars, timeout_id, sources, timeVars, stack,
          started, finished, lost, animations, callVars>>

Ids == 1..MaxStarts
\* A fade is lengthened once, to one and a half of its duration.
Longest == (3 * Duration) \div 2

TypeOK ==
  /\ state \in {"alive", "aborted", "undefined", "finalized"}
  /\ {fading_surface, end_surface, is_first_frame, animations, failed} \subseteq BOOLEAN
  /\ timeout_id \in Ids \cup {None}
  /\ sources \subseteq Ids /\ lost \subseteq Ids
  /\ elapsed \in -Duration..Longest /\ total_duration \in {Duration, Longest}
  /\ clock_sets \in 0..MaxClockSets
  /\ stack \in Seq({"tick", "stop"}) /\ Len(stack) <= MaxStarts
  /\ started \in 0..MaxStarts /\ finished \in 0..MaxStarts /\ sets \in 0..MaxSets

Init ==
  /\ state = "alive"
  /\ fading_surface = FALSE /\ end_surface = FALSE
  /\ timeout_id = None /\ sources = {}
  /\ elapsed = 0 /\ clock_sets = 0 /\ total_duration = Duration /\ is_first_frame = FALSE
  /\ stack = <<>>
  /\ started = 0 /\ finished = 0 /\ lost = {}
  /\ animations = TRUE
  /\ sets = 0 /\ failed = FALSE

IsStarted == timeout_id # None
-----------------------------------------------------------------------------
(* What the client calls, from its own code or from a handler of finished  *)

ClientRuns == state = "alive"

\* tile_surface returns NULL when cairo fails.
SetStartSurface ==
  /\ ClientRuns /\ sets < MaxSets
  /\ fading_surface' \in BOOLEAN
  /\ sets' = sets + 1
  /\ failed' = (failed \/ (sources # {} /\ ~fading_surface'))
  /\ UNCHANGED <<state, end_surface, timeout_id, sources, timeVars, stack,
                 started, finished, lost, animations>>

SetEndSurface ==
  /\ ClientRuns /\ sets < MaxSets
  /\ end_surface' \in BOOLEAN
  /\ elapsed' = 0
  /\ sets' = sets + 1
  /\ failed' = (failed \/ (sources # {} /\ ~end_surface'))
  /\ UNCHANGED <<state, fading_surface, timeout_id, sources, clock_sets, total_duration,
                 is_first_frame, stack, started, finished, lost, animations>>

Start ==
  /\ ClientRuns /\ started < MaxStarts
  /\ fading_surface /\ end_surface /\ ~IsStarted
  /\ started' = started + 1
  /\ timeout_id' = started'
  /\ sources' = sources \cup {started'}
  /\ elapsed' = 0 /\ total_duration' = Duration /\ is_first_frame' = TRUE
  /\ UNCHANGED <<state, surfaceVars, clock_sets, stack, finished, lost, animations, callVars>>

\* on_finished, the destroy notify of the source: it has ended the fade and
\* emits finished to a handler, or there is no fade for it, or an assertion
\* that both surfaces are there fails.
OnFinished(caller) ==
  IF ~IsStarted
  THEN UNCHANGED <<state, surfaceVars, timeout_id, stack, finished>>
  ELSE IF ~end_surface \/ ~fading_surface
  THEN /\ state' = "aborted"
       /\ UNCHANGED <<surfaceVars, timeout_id, stack, finished>>
  ELSE /\ end_surface' = FALSE /\ fading_surface' = FALSE
       /\ timeout_id' = None
       /\ finished' = finished + 1
       /\ stack' = Append(stack, caller)
       /\ UNCHANGED state

\* gnome_bg_crossfade_stop up to the handler that g_source_remove calls; the
\* rest is HandlerReturns.
RemoveSource(caller) ==
  /\ IsStarted
  /\ sources' = sources \ {timeout_id}
  /\ OnFinished(caller)

\* As if timeout_id were cleared before the source is removed.
Stop_ForgetsFirst ==
  /\ ClientRuns /\ IsStarted
  /\ sources' = sources \ {timeout_id}
  /\ timeout_id' = None
  /\ UNCHANGED <<state, surfaceVars, stack, finished, timeVars, started, lost,
                 animations, callVars>>

Stop ==
  /\ ClientRuns
  /\ RemoveSource("stop")
  /\ UNCHANGED <<timeVars, started, lost, animations, callVars>>
-----------------------------------------------------------------------------
(* The main loop                                                           *)

Pass ==
  /\ state = "alive" /\ stack = <<>> /\ sources # {}
  /\ elapsed < Longest
  /\ elapsed' = elapsed + 1
  /\ UNCHANGED <<state, surfaceVars, timeout_id, sources, clock_sets, total_duration,
                 is_first_frame, stack, started, finished, lost, animations, callVars>>

\* get_current_time reads the real time: a fade may be over at once, or start
\* only when the time it started at has come again.
ClockIsSet ==
  /\ state = "alive" /\ sources # {} /\ clock_sets < MaxClockSets
  /\ clock_sets' = clock_sets + 1
  /\ elapsed' \in -Duration..Longest
  /\ UNCHANGED <<state, surfaceVars, timeout_id, sources, total_duration,
                 is_first_frame, stack, started, finished, lost, animations, callVars>>

\* percent_done > .33 and percent_done > .99; it is 0 before start_time.
AThirdIsDone == 3 * elapsed > total_duration
IsDone(duration) == elapsed >= duration

\* on_tick: after a third of the duration with is_first_frame still set, the
\* fade is lengthened and looked at again.
Lengthens_Always == AThirdIsDone   \* is_first_frame is not looked at
Lengthens == is_first_frame /\ AThirdIsDone
DurationNow ==
  IF Lengthens THEN (3 * total_duration) \div 2 ELSE total_duration

Tick(id) ==
  /\ state = "alive" /\ stack = <<>> /\ id \in sources
  /\ total_duration' = DurationNow
  /\ is_first_frame' = (is_first_frame /\ ~Lengthens)
  /\ IF ~fading_surface \/ ~animations \/ IsDone(DurationNow)
     THEN sources' = sources \ {id} /\ OnFinished("tick")
     ELSE UNCHANGED <<state, surfaceVars, timeout_id, sources, stack, finished>>
  /\ UNCHANGED <<elapsed, clock_sets, started, lost, animations, callVars>>

\* The handler of finished returns to on_finished, and that to the main loop
\* or to stop, which clears timeout_id.
HandlerReturns ==
  /\ state = "alive" /\ stack # <<>>
  /\ stack' = Front(stack)
  /\ IF Last(stack) = "tick"
     THEN UNCHANGED <<timeout_id, lost>>
     ELSE /\ timeout_id' = None
          /\ lost' = lost \cup ({timeout_id} \ {None})
  /\ UNCHANGED <<state, surfaceVars, sources, timeVars, started, finished,
                 animations, callVars>>

\* The client drops its reference, at the latest when the handlers that run
\* have returned: gnome_bg_crossfade_finalize stops the fade, which frees the
\* surfaces, or takes an end surface that is left for a GObject.
Finalize ==
  /\ state = "alive" /\ stack = <<>>
  /\ state' \in IF IsStarted
               THEN IF end_surface /\ fading_surface THEN {"finalized"} ELSE {"aborted"}
               ELSE IF end_surface THEN {"finalized", "undefined"} ELSE {"finalized"}
  /\ sources' = sources \ {timeout_id}
  /\ timeout_id' = None
  /\ fading_surface' = FALSE /\ end_surface' = FALSE
  /\ UNCHANGED <<timeVars, stack, started, finished, lost, animations, callVars>>

\* The user switches animations on or off.
AnimationsSwitched ==
  /\ animations' = ~animations
  /\ UNCHANGED <<state, surfaceVars, timeout_id, sources, timeVars, stack,
                 started, finished, lost, callVars>>

\* A source that stop forgot ticks on for a fade that is freed.
TickAfterFree ==
  /\ state = "finalized" /\ sources # {}
  /\ state' = "undefined"
  /\ UNCHANGED <<surfaceVars, timeout_id, sources, timeVars, stack,
                 started, finished, lost, animations, callVars>>

Next ==
  \/ SetStartSurface \/ SetEndSurface \/ Start \/ Stop
  \/ Pass \/ ClockIsSet \/ (\E id \in Ids : Tick(id))
  \/ HandlerReturns \/ Finalize \/ AnimationsSwitched \/ TickAfterFree

\* The main loop runs, sources that are ready are dispatched, handlers return.
Fairness ==
  /\ WF_vars(Pass) /\ WF_vars(HandlerReturns)
  /\ \A id \in Ids : WF_vars(Tick(id))

Spec == Init /\ [][Next]_vars /\ Fairness
-----------------------------------------------------------------------------
(* While no handler of stop has started a fade, each fade that was started *)
(* runs or has told the client once that it is finished, whoever ended it, *)
(* and at most its own source is left; and on_finished meets a missing     *)
(* surface only when one could not be copied during the fade.              *)
EveryFadeFinishesOnce ==
  /\ lost = {} /\ state = "alive" =>
       /\ started = finished + Cardinality(sources)
       /\ sources = {timeout_id} \ {None}
  /\ state = "aborted" => failed

\* A source ends, once the client no longer resets its time by setting the
\* end surface and nobody sets the clock: on_tick does not lengthen a fade for
\* ever, and a clock set back delays its end but does not undo it.
EverySourceEnds ==
  \A id \in Ids : id \in sources ~> (id \notin sources \/ state # "alive")

\* gnome_bg_crossfade_is_started "reveals whether or not fade is currently
\* running on a window" (gnome-bg-crossfade.c:503).
IsStartedWhileItRuns ==
  state = "alive" /\ stack = <<>> => (IsStarted <=> sources # {})
=============================================================================
