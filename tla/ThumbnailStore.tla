--------------------------- MODULE ThumbnailStore ---------------------------
(***************************************************************************)
(* What the calls that write the thumbnail cache promise, with files that  *)
(* change at once: save_thumbnail puts a thumbnail in place and forgets an *)
(* earlier failure, after which it returns TRUE, or else it marks the      *)
(* failure; create_failed_thumbnail only marks it.  A call that puts       *)
(* nothing returns FALSE, and so may one that is cancelled.                *)
(***************************************************************************)
CONSTANTS Threads, Sizes, Uris, MTimes, None

VARIABLES thumb,   \* the mtime of the thumbnail of each size and URI
          failed,  \* the mtime of the failed thumbnail of each URI
          job      \* the call each thread makes, and what it did so far

vars == <<thumb, failed, job>>

Jobs == [op : {"save", "create_failed"}, size : Sizes, uri : Uris, mtime : MTimes,
         did : SUBSET {"put", "mark", "forget", "cancel"}]

Init == /\ thumb = [s \in Sizes |-> [u \in Uris |-> None]]
        /\ failed = [u \in Uris |-> None]
        /\ job = [t \in Threads |-> None]

Begin(t, op, s, u, m) ==
  /\ job[t] = None
  /\ job' = [job EXCEPT ![t] = [op |-> op, size |-> s, uri |-> u,
                               mtime |-> m, did |-> {}]]
  /\ UNCHANGED <<thumb, failed>>

Did(t, what) == job' = [job EXCEPT ![t].did = @ \cup {what}]

MayPut(j) == j # None /\ j.op = "save" /\ j.did \subseteq {"cancel"}
MayMark(j) == j # None /\ {"put", "mark"} \cap j.did = {}

Put(t) ==
  /\ MayPut(job[t])
  /\ Did(t, "put")
  /\ thumb' = [thumb EXCEPT ![job[t].size][job[t].uri] = job[t].mtime]
  /\ UNCHANGED failed

Mark(t) ==
  /\ MayMark(job[t])
  /\ Did(t, "mark")
  /\ failed' = [failed EXCEPT ![job[t].uri] = job[t].mtime]
  /\ UNCHANGED thumb

\* A cancelled call need not forget any more.
Forget(t) ==
  /\ job[t] # None /\ job[t].op = "save" /\ "put" \in job[t].did
  /\ Did(t, "forget")
  /\ \/ failed' = [failed EXCEPT ![job[t].uri] = None]
     \/ "cancel" \in job[t].did /\ UNCHANGED failed
  /\ UNCHANGED thumb

Cancel(t) ==
  /\ job[t] # None /\ "cancel" \notin job[t].did
  /\ Did(t, "cancel")
  /\ UNCHANGED <<thumb, failed>>

\* The call returns: one that put a thumbnail has forgotten the failure too.
Return(t) ==
  /\ job[t] # None
  /\ "put" \in job[t].did => {"forget", "cancel"} \cap job[t].did # {}
  /\ job' = [job EXCEPT ![t] = None]
  /\ UNCHANGED <<thumb, failed>>

\* The user deletes the cache, with what some calls have only just put there.
Clean ==
  /\ thumb' = [s \in Sizes |-> [u \in Uris |-> None]]
  /\ failed' = [u \in Uris |-> None]
  /\ \E last \in [Threads -> {{}, {"put"}, {"mark"}}] :
       /\ \A t \in Threads : /\ "put" \in last[t] => MayPut(job[t])
                             /\ "mark" \in last[t] => MayMark(job[t])
       /\ job' = [t \in Threads |-> IF last[t] = {} THEN job[t]
                                     ELSE [job[t] EXCEPT !.did = @ \cup last[t]]]

\* The programs end.
Crash == /\ job' = [t \in Threads |-> None]
         /\ UNCHANGED <<thumb, failed>>

Next ==
  \/ \E t \in Threads :
       \/ \E op \in {"save", "create_failed"}, s \in Sizes, u \in Uris, m \in MTimes :
            Begin(t, op, s, u, m)
       \/ Put(t) \/ Mark(t) \/ Forget(t) \/ Cancel(t)
       \/ Return(t)
  \/ Crash \/ Clean

Spec == Init /\ [][Next]_vars
=============================================================================
