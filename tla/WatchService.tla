---------------------------- MODULE WatchService ----------------------------
(***************************************************************************)
(* What GnomeIdleMonitor promises its client (the documentation comments   *)
(* of gnome_idle_monitor_add_idle_watch, _add_user_active_watch and        *)
(* _remove_watch): a watch is called back only between being added and     *)
(* being removed, a user-active watch at most once, one callback at a      *)
(* time.  There is no bus and no Mutter here.                              *)
(***************************************************************************)
CONSTANTS Watches, NoWatch

VARIABLES known,    \* the ids the client was ever given
          armed,    \* the watches that may be called back
          oneTime,  \* the watches that are over once called
          running   \* the watch whose callback is running

vars == <<known, armed, oneTime, running>>

Init ==
  /\ known = {}
  /\ armed = {}
  /\ oneTime = {}
  /\ running = NoWatch

Add(w) ==
  /\ w \notin known
  /\ known' = known \cup {w}
  /\ armed' = armed \cup {w}
  /\ oneTime' \in {oneTime, oneTime \cup {w}}
  /\ UNCHANGED running

Remove(w) ==
  /\ armed' = armed \ {w}
  /\ UNCHANGED <<known, oneTime, running>>

Call(w) ==
  /\ running = NoWatch
  /\ w \in armed
  /\ running' = w
  /\ UNCHANGED <<known, armed, oneTime>>

Return ==
  /\ running # NoWatch
  /\ running' = NoWatch
  /\ armed' = armed \ ({running} \cap oneTime)
  /\ UNCHANGED <<known, oneTime>>

Close ==
  /\ running = NoWatch
  /\ armed' = {}
  /\ UNCHANGED <<known, oneTime, running>>

Next == (\E w \in Watches : Add(w) \/ Remove(w) \/ Call(w)) \/ Return \/ Close

Spec == Init /\ [][Next]_vars
=============================================================================
