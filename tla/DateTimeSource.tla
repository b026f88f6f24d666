--------------------------- MODULE DateTimeSource ---------------------------
(***************************************************************************)
(* The GSource of gnome-datetime-source.c, which is ready when the real    *)
(* time reaches a given second, and with cancel_on_set (the only way the   *)
(* library uses it) also soon after the system clock is set.  It rests on  *)
(* a timerfd; where that fails it wakes up after a second, counted anew    *)
(* each time the main loop wakes up for something else.                    *)
(*                                                                         *)
(* Time advances in ticks; a resume from suspend, which CLOCK_MONOTONIC    *)
(* does not count, sets the clock forward.                                 *)
(***************************************************************************)
EXTENDS Integers

CONSTANTS TicksPerSecond,
          MaxReal,   (* bound: the last tick of the real time               *)
          MaxSets    (* bound: how often the clock is set                   *)

ASSUME SourceAssumption ==
  /\ TicksPerSecond \in Nat \ {0}
  /\ MaxReal \in Nat
  /\ MaxSets \in Nat

VARIABLES
  real,    \* CLOCK_REALTIME
  sets,    \* how often it was set
  source   \* the source: its timerfd and what the kernel knows of it

sourceVars == <<real, sets, source>>

Second(tick) == tick \div TicksPerSecond
LastExpiry(longest) == Second(MaxReal) + longest

Sources(longest) ==
  [timerfd : BOOLEAN,           \* else the wakeup_expiration counts
   expiry : 0..LastExpiry(longest),  \* real_expiration
   wakeup : 0..TicksPerSecond,  \* ticks to wakeup_expiration
   late : 0..TicksPerSecond,    \* for checking: ticks of sleep after the expiry
   expired : BOOLEAN,           \* the timer went off
   canceled : BOOLEAN,          \* by TFD_TIMER_CANCEL_ON_SET
   initially_expired : BOOLEAN]

\* No source: none was created yet, or g_source_remove took it away.
NoSource == [timerfd |-> FALSE, expiry |-> 0, wakeup |-> 0, late |-> 0,
             expired |-> FALSE, canceled |-> FALSE, initially_expired |-> FALSE]

Due == Second(real) >= source.expiry

\* g_datetime_source_init_timerfd up to timerfd_settime, and the fallback of
\* _gnome_datetime_source_new.
Create(expiry) ==
  /\ \E works \in BOOLEAN :
       source' = [timerfd |-> works, expiry |-> expiry,
                  wakeup |-> IF works THEN 0 ELSE TicksPerSecond,
                  late |-> 0, expired |-> Second(real) >= expiry,
                  canceled |-> FALSE, initially_expired |-> FALSE]
  /\ UNCHANGED <<real, sets>>

\* The end of g_datetime_source_init_timerfd: the clock may have been set
\* backwards before the timer could notice.
CheckBackwards_Skipped(expectedNow) == UNCHANGED sourceVars
CheckBackwards(expectedNow) ==
  /\ source' = [source EXCEPT !.initially_expired =
                  source.timerfd /\ Second(real) < Second(expectedNow)]
  /\ UNCHANGED <<real, sets>>

\* g_datetime_source_prepare and g_datetime_source_check: when the loop wakes
\* up for this source.
Ready ==
  IF source.timerfd
  THEN source.initially_expired \/ source.expired \/ source.canceled
  ELSE source.wakeup = 0

\* Without a timerfd the time is also looked at whenever the loop happens to
\* wake up for something else; if it is not time yet, a second starts anew.
MayBeReady == ~source.timerfd /\ Due

Reschedule_Always ==
  /\ ~source.timerfd
  /\ source' = [source EXCEPT !.wakeup = TicksPerSecond]
  /\ UNCHANGED <<real, sets>>
Reschedule ==
  /\ ~source.timerfd /\ ~Ready /\ ~Due
  /\ source' = [source EXCEPT !.wakeup = TicksPerSecond]
  /\ UNCHANGED <<real, sets>>

\* The kernel: time goes on, or is set.
Sleeps == ~source.timerfd /\ source.wakeup > 0

Tick ==
  /\ real < MaxReal
  /\ real' = real + 1
  /\ source' = IF source = NoSource THEN NoSource ELSE
                [source EXCEPT
                   !.expired = @ \/ Second(real') >= source.expiry,
                   !.wakeup = IF @ = 0 THEN 0 ELSE @ - 1,
                   !.late = IF Sleeps /\ Due /\ @ < TicksPerSecond THEN @ + 1 ELSE @]
  /\ UNCHANGED sets

SetClock(tick) ==
  /\ sets < MaxSets
  /\ sets' = sets + 1
  /\ real' = tick
  /\ source' = IF source = NoSource THEN NoSource ELSE
                [source EXCEPT
                   !.expired = @ \/ Second(tick) >= source.expiry,
                   !.canceled = TRUE,
                   !.late = IF Second(tick) >= source.expiry THEN @ ELSE 0]
=============================================================================
