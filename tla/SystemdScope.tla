----------------------------- MODULE SystemdScope -----------------------------
(***************************************************************************)
(* gnome_start_systemd_scope (gnome-systemd.c): a task asks for the bus,   *)
(* then asks the user's systemd to put a process in a scope of its own,    *)
(* and may be cancelled all along.  systemd and the bus are external.      *)
(*                                                                         *)
(* A name is a sequence of chars, which are signed: the bytes of a letter  *)
(* beyond ASCII are negative.                                              *)
(***************************************************************************)
EXTENDS Integers, Sequences, SequencesExt, FiniteSets

CONSTANTS Tasks, Pids,
          Names,     \* [directory, desktop : BOOLEAN, base : sequence of chars]
          None       \* also the name NULL

VARIABLES
  task,      \* for each task where it stands and what is known of it
  wire,      \* the tasks whose call has not reached systemd
  replies,   \* what systemd answered to a task, or "none"
  units,     \* the scopes systemd has, and the processes in them
  moved      \* history: the tasks whose process got its scope

vars == <<task, wire, replies, units, moved>>
-----------------------------------------------------------------------------
(* Names                                                                   *)

DotDesktop == <<46, 100, 101, 115, 107, 116, 111, 112>>
Unknown == <<111, 114, 103, 46, 102, 114, 101, 101, 100, 101, 115, 107, 116, 111,
             112, 46, 85, 110, 107, 110, 111, 119, 110>>

\* The last part of a path, the id of a desktop file, or the name as it is.
AppName(name) ==
  IF name = None THEN Unknown
  ELSE name.base \o (IF name.desktop /\ name.directory THEN DotDesktop ELSE <<>>)

AlNum == (48..57) \cup (65..90) \cup (97..122)
Hex(digit) == IF digit < 10 THEN 48 + digit ELSE 87 + digit

\* "\x%02x" of a char, which is widened to an int first.
EscapeChar(char) ==
  <<92, 120>>
  \o (IF char < 0 THEN [i \in 1..6 |-> Hex(15)] ELSE <<>>)
  \o <<Hex((char % 256) \div 16), Hex(char % 16)>>

systemd_unit_name_escape_KeepsBackslash(in) ==
  FlattenSeq([i \in DOMAIN in |->
    IF in[i] \in AlNum \cup {58, 95, 46, 92} THEN <<in[i]>> ELSE EscapeChar(in[i])])
systemd_unit_name_escape(in) ==
  FlattenSeq([i \in DOMAIN in |->
    IF in[i] \in AlNum \cup {58, 95, 46} THEN <<in[i]>> ELSE EscapeChar(in[i])])

\* app-gnome-NAME-PID.scope
Unit(name, pid) == [name |-> systemd_unit_name_escape(AppName(name)), pid |-> pid]

\* What systemd reads: \xHH is the char of that code.
Digit(char) == IF char \in 48..57 THEN char - 48 ELSE char - 87
Unescape(name) ==
  LET IsHex(char) == char \in (48..57) \cup (97..102)
      Escaped(i) == /\ i + 3 <= Len(name) /\ name[i] = 92 /\ name[i + 1] = 120
                    /\ IsHex(name[i + 2]) /\ IsHex(name[i + 3])
      rest[i \in 1..(Len(name) + 1)] ==
        IF i > Len(name) THEN <<>>
        ELSE IF Escaped(i)
        THEN <<16 * Digit(name[i + 2]) + Digit(name[i + 3])>> \o rest[i + 4]
        ELSE <<name[i]>> \o rest[i + 1]
  IN rest[1]
-----------------------------------------------------------------------------
NewTask == [step |-> "new", name |-> None, unit |-> None, result |-> None,
            cancelled |-> FALSE, returns |-> 0]

Units == {Unit(name, pid) : name \in Names \cup {None}, pid \in Pids}

TypeOK ==
  /\ task \in [Tasks -> [step : {"new", "bus", "call", "returned", "done"},
                         name : Names \cup {None},
                         unit : Units \cup {None},
                         result : {None, "true", "error", "cancelled"},
                         cancelled : BOOLEAN,
                         returns : Nat]]
  /\ wire \subseteq Tasks /\ moved \subseteq Tasks
  /\ replies \in [Tasks -> {"none", "done", "exists"}]
  /\ units \subseteq Units

Init ==
  /\ task = [t \in Tasks |-> NewTask]
  /\ wire = {} /\ units = {} /\ moved = {}
  /\ replies = [t \in Tasks |-> "none"]

\* The task with an answer, for which GTask calls the callback.
Returned(it, result) ==
  [it EXCEPT !.step = "returned", !.result = result, !.returns = @ + 1]

\* start_systemd_scope.
StartUnit(t, it) ==
  /\ task' = [task EXCEPT ![t] = [it EXCEPT !.step = "call"]]
  /\ wire' = wire \cup {t}

Return(t, it, result) ==
  /\ task' = [task EXCEPT ![t] = Returned(it, result)]
  /\ UNCHANGED wire

\* gnome_start_systemd_scope, by what sd_pid_get_user_unit says of the calling
\* process and whether the client has a connection.
Request(t) ==
  /\ task[t].step = "new"
  /\ \E name \in Names \cup {None}, pid \in Pids, res \in {"unit", "ENODATA", "error"},
        connection \in BOOLEAN :
       LET it == [task[t] EXCEPT !.name = name, !.unit = Unit(name, pid)]
       IN \/ res = "ENODATA" /\ Return(t, [it EXCEPT !.unit = None], "true")
          \/ res = "error" /\ Return(t, it, "error")
          \/ res = "unit" /\ connection /\ StartUnit(t, it)
          \/ /\ res = "unit" /\ ~connection
             /\ task' = [task EXCEPT ![t] = [it EXCEPT !.step = "bus"]]
             /\ UNCHANGED wire
  /\ UNCHANGED <<replies, units, moved>>

\* on_bus_gotten_cb; the connection may fail for any reason.
BusGotten_NotCancelled(t) ==
  /\ task[t].step = "bus" /\ ~task[t].cancelled
  /\ StartUnit(t, task[t]) \/ Return(t, task[t], "error")
  /\ UNCHANGED <<replies, units, moved>>
BusGotten(t) ==
  /\ task[t].step = "bus"
  /\ StartUnit(t, task[t]) \/ Return(t, task[t], "error")
  /\ UNCHANGED <<replies, units, moved>>

\* What on_start_transient_unit_cb finds: systemd's reply, the timeout of one
\* second, which is also that of a systemd that is not there, or that the
\* call was cancelled, whatever has become of it.
Outcomes(t) ==
  {"timeout"} \cup ({replies[t]} \ {"none"})
  \cup (IF task[t].cancelled THEN {"cancelled"} ELSE {})

OnStartTransientUnit_AnyError(t) ==
  /\ task[t].step = "call"
  /\ Return(t, task[t], "true")
  /\ UNCHANGED <<replies, units, moved>>
OnStartTransientUnit(t) ==
  /\ task[t].step = "call"
  /\ \E outcome \in Outcomes(t) :
       Return(t, task[t], IF outcome \in {"done", "cancelled"} THEN "true" ELSE "error")
  /\ UNCHANGED <<replies, units, moved>>

\* The client's callback: a task that was cancelled says so, whatever it was
\* given to return.
Callback(t) ==
  /\ task[t].step = "returned"
  /\ task' = [task EXCEPT ![t].step = "done",
                          ![t].result = IF task[t].cancelled THEN "cancelled" ELSE @]
  /\ UNCHANGED <<wire, replies, units, moved>>

Cancel(t) ==
  /\ task[t].step \notin {"new", "done"} /\ ~task[t].cancelled
  /\ task' = [task EXCEPT ![t].cancelled = TRUE]
  /\ UNCHANGED <<wire, replies, units, moved>>

\* StartTransientUnit of systemd, in the mode fail.
CallArrives(t) ==
  /\ t \in wire
  /\ wire' = wire \ {t}
  /\ IF task[t].unit \in units
     THEN replies' = [replies EXCEPT ![t] = "exists"] /\ UNCHANGED <<units, moved>>
     ELSE /\ replies' = [replies EXCEPT ![t] = "done"]
          /\ units' = units \cup {task[t].unit}
          /\ moved' = moved \cup {t}
  /\ UNCHANGED task

\* The process ends and its scope is collected.
ScopeEnds ==
  /\ \E unit \in units : units' = units \ {unit}
  /\ UNCHANGED <<task, wire, replies, moved>>

Next ==
  \/ \E t \in Tasks : \/ Request(t) \/ BusGotten(t) \/ OnStartTransientUnit(t)
                      \/ Callback(t) \/ Cancel(t) \/ CallArrives(t)
  \/ ScopeEnds

\* The main loop dispatches; the bus answers, if only that it is not there.
Fairness ==
  \A t \in Tasks :
    WF_vars(BusGotten(t)) /\ WF_vars(OnStartTransientUnit(t)) /\ WF_vars(Callback(t))

Spec == Init /\ [][Next]_vars /\ Fairness
-----------------------------------------------------------------------------
\* A task is answered at most once, and one that is answered with success
\* had nothing to do, or its process was moved to a scope of its own: not when
\* the unit was there already, the call timed out or the task was cancelled.
SuccessMeansMoved ==
  \A t \in Tasks :
    /\ task[t].returns <= 1
    /\ task[t].step = "done" /\ task[t].result = "true" =>
         task[t].unit = None \/ t \in moved

\* The name of the application can be had back from that of its unit ("so that
\* it can be extracted from the unit name", gnome-systemd.c:234), so two
\* applications never share one; for names of ASCII only.
NamesCanBeExtracted ==
  \A t \in Tasks :
    LET app == AppName(task[t].name)
    IN task[t].unit # None /\ (\A i \in DOMAIN app : app[i] >= 0) =>
         Unescape(task[t].unit.name) = app

\* A task that was begun is answered, also when systemd never replies or the
\* task is cancelled while it waits for the bus.
EveryTaskIsAnswered ==
  \A t \in Tasks : task[t].step # "new" ~> task[t].step = "done"
=============================================================================
