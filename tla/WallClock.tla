------------------------------ MODULE WallClock ------------------------------
(***************************************************************************)
(* GnomeWallClock (gnome-wall-clock.c): a string with the current time,    *)
(* renewed by a DateTimeSource at each minute or second, when a setting or *)
(* a property of the clock changes, and when /etc/localtime changes.       *)
(*                                                                         *)
(* update_clock reads the time, arms a new source and then shows the time  *)
(* it read.  The clock may be set, and time goes on, between any two of    *)
(* these steps.  The string is modelled by what it was made from.          *)
(***************************************************************************)
EXTENDS DateTimeSource

CONSTANTS SecondsPerMinute, Formats, Zones

ASSUME ClockAssumption == SecondsPerMinute \in Nat \ {0}

VARIABLES
  settings,    \* clock-show-seconds, and the other keys as one format
  time_only, force_seconds,   \* properties of the clock
  localtime,   \* /etc/localtime
  timezone,    \* as the clock last read it
  notices,     \* changes to be signalled: "settings" and "localtime"
  pc,          \* the step update_clock is at
  reading,     \* what update_clock has read: now, and what to show of it
  clock        \* clock_string

confVars == <<settings, localtime>>
propVars == <<time_only, force_seconds>>
vars == <<sourceVars, confVars, propVars, timezone, notices, pc, reading, clock>>

Readings == [now : 0..MaxReal, seconds : BOOLEAN, format : Formats,
             time_only : BOOLEAN, zone : Zones]

TypeOK ==
  /\ real \in 0..MaxReal /\ sets \in 0..MaxSets
  /\ source \in Sources(SecondsPerMinute)
  /\ settings \in [seconds : BOOLEAN, format : Formats]
  /\ time_only \in BOOLEAN /\ force_seconds \in BOOLEAN
  /\ localtime \in Zones /\ timezone \in Zones
  /\ notices \subseteq {"settings", "localtime"}
  /\ pc \in {"idle", "create", "check", "show", "finalized"}
  /\ reading \in Readings /\ clock \in Readings

-----------------------------------------------------------------------------
(* update_clock                                                            *)

Minute(second) == second \div SecondsPerMinute

\* The second at which the string made from a reading is out of date.
Expiry_EverySecond(r) == Second(r.now) + 1
Expiry_InTicks(r) == r.now + TicksPerSecond
Expiry(r) ==
  IF r.seconds THEN Second(r.now) + 1
  ELSE Second(r.now) + (SecondsPerMinute - (Second(r.now) % SecondsPerMinute))

\* The format counts only with the parts that time_only does not hide.
Reading(onlyTime, force, zone) ==
  [now |-> real, seconds |-> force \/ settings.seconds,
   format |-> settings.format, time_only |-> onlyTime, zone |-> zone]

\* update_clock up to g_source_remove.
ReadTime(onlyTime, force, zone) ==
  /\ reading' = Reading(onlyTime, force, zone)
  /\ source' = NoSource /\ UNCHANGED <<real, sets>>
  /\ pc' = "create"

\* _gnome_datetime_source_new
CreateSource ==
  /\ pc = "create"
  /\ Create(Expiry(reading))
  /\ pc' = "check"
  /\ UNCHANGED <<confVars, propVars, timezone, notices, reading, clock>>

CheckSource ==
  /\ pc = "check"
  /\ CheckBackwards(reading.now)
  /\ pc' = "show"
  /\ UNCHANGED <<confVars, propVars, timezone, notices, reading, clock>>

ShowTime ==
  /\ pc = "show"
  /\ clock' = reading
  /\ pc' = "idle"
  /\ UNCHANGED <<sourceVars, confVars, propVars, timezone, notices, reading>>

-----------------------------------------------------------------------------
(* What makes the clock update                                             *)

\* gnome_wall_clock_init
Init ==
  /\ real \in 0..MaxReal /\ sets = 0
  /\ settings \in [seconds : BOOLEAN, format : Formats]
  /\ time_only = FALSE /\ force_seconds = FALSE
  /\ localtime \in Zones /\ timezone = localtime
  /\ notices = {}
  /\ source = NoSource
  /\ pc = "create"
  /\ reading = Reading(FALSE, FALSE, timezone)
  /\ clock = reading

\* The main loop wakes up for something else than the source.
LoopWakesUp ==
  /\ pc = "idle"
  /\ Reschedule
  /\ UNCHANGED <<confVars, propVars, timezone, notices, pc, reading, clock>>

\* g_datetime_source_dispatch
Dispatch ==
  /\ pc = "idle" /\ (Ready \/ MayBeReady)
  /\ ReadTime(time_only, force_seconds, timezone)
  /\ UNCHANGED <<confVars, propVars, timezone, notices, clock>>

OnSchemaChange ==
  /\ pc = "idle" /\ "settings" \in notices
  /\ notices' = notices \ {"settings"}
  /\ ReadTime(time_only, force_seconds, timezone)
  /\ UNCHANGED <<confVars, propVars, timezone, clock>>

\* on_tz_changed and update_timezone
OnTzChanged ==
  /\ pc = "idle" /\ "localtime" \in notices
  /\ notices' = notices \ {"localtime"}
  /\ timezone' = localtime
  /\ ReadTime(time_only, force_seconds, localtime)
  /\ UNCHANGED <<confVars, propVars, clock>>

\* gnome_wall_clock_set_property
SetProperty(onlyTime, force) ==
  /\ pc = "idle"
  /\ time_only' = onlyTime
  /\ force_seconds' = force
  /\ ReadTime(onlyTime, force, timezone)
  /\ UNCHANGED <<confVars, timezone, notices, clock>>

\* gnome_wall_clock_finalize
Finalize ==
  /\ pc = "idle"
  /\ pc' = "finalized"
  /\ source' = NoSource
  /\ notices' = {}
  /\ UNCHANGED <<real, sets, confVars, propVars, timezone, reading, clock>>

\* Other programs: each change is signalled later, several of one file or of
\* the settings perhaps together.
ChangeSettings(new) ==
  /\ new # settings
  /\ settings' = new
  /\ notices' = notices \cup {"settings"}
  /\ UNCHANGED <<sourceVars, localtime, propVars, timezone, pc, reading, clock>>

ChangeLocaltime(zone) ==
  /\ zone # localtime
  /\ localtime' = zone
  /\ notices' = notices \cup {"localtime"}
  /\ UNCHANGED <<sourceVars, settings, propVars, timezone, pc, reading, clock>>

Time ==
  /\ Tick \/ \E tick \in 0..MaxReal : SetClock(tick)
  /\ UNCHANGED <<confVars, propVars, timezone, notices, pc, reading, clock>>

UpdateClock == CreateSource \/ CheckSource \/ ShowTime

Next ==
  \/ UpdateClock \/ Dispatch \/ LoopWakesUp \/ OnSchemaChange \/ OnTzChanged \/ Finalize
  \/ \E onlyTime, force \in BOOLEAN : SetProperty(onlyTime, force)
  \/ \E new \in [seconds : BOOLEAN, format : Formats] : ChangeSettings(new)
  \/ \E zone \in Zones : ChangeLocaltime(zone)
  \/ Time

Spec == Init /\ [][Next]_vars

-----------------------------------------------------------------------------
(* Properties                                                              *)

Same(tick1, tick2, seconds) ==
  IF seconds THEN Second(tick1) = Second(tick2)
  ELSE Minute(Second(tick1)) = Minute(Second(tick2))

IsCurrent == Same(clock.now, real, clock.seconds)

\* Whenever the clock sits idle with nothing to dispatch it shows the time that
\* is, even if the clock was set while it was being updated.  Without a timerfd
\* it is at most a second late, whatever else wakes the loop up, as long as
\* nobody sets the clock back.
ShownTimeIsCurrent ==
  pc = "idle" /\ ~Ready =>
    \/ IsCurrent
    \/ /\ ~source.timerfd
       /\ IF Due THEN source.late + source.wakeup <= TicksPerSecond ELSE sets > 0

\* The clock wakes up only to show something else, as long as nobody sets the
\* time: no second-by-second wakeups when it shows minutes, and no busy loop.
WakesOnlyToShowAnotherTime ==
  pc = "idle" /\ Ready /\ sets = 0 /\ source.timerfd => ~IsCurrent

\* What is shown follows the settings, the properties and the time zone, once
\* their changes are signalled.
ShownAsConfigured ==
  pc = "idle" /\ notices = {} =>
    /\ clock.seconds = (force_seconds \/ settings.seconds)
    /\ clock.format = settings.format
    /\ clock.time_only = time_only
    /\ clock.zone = localtime

\* The two together: an idle clock shows the time that is, as it is configured
\* (update_clock, gnome-wall-clock.c:400-445, and whatever calls it).
ShowsTheTime == ShownTimeIsCurrent /\ ShownAsConfigured
=============================================================================
