---------------------------- MODULE IdleMonitor ----------------------------
(***************************************************************************)
(* GnomeIdleMonitor (libgnome-desktop/gnome-idle-monitor.c): the client    *)
(* side of Mutter's idle monitor.  A client adds and removes watches at    *)
(* any time; the monitor registers them with whichever Mutter owns the bus *)
(* name, again after every restart of Mutter, and forwards its WatchFired  *)
(* signals to the watches' callbacks.                                      *)
(*                                                                         *)
(* Everything in the process runs on one main loop.  The session bus       *)
(* delivers in order: what the process sends is in outbox, what it will    *)
(* receive (name changes, replies, signals) is in inbox.  Only the         *)
(* creation of an object manager runs in a thread of its own, so its       *)
(* result arrives at any time.  Bus and Mutter are external: they do what  *)
(* the D-Bus interface in idle-monitor.xml promises.                       *)
(***************************************************************************)
EXTENDS Integers, Sequences, FiniteSets

CONSTANTS Watches,     (* the watches the client may ever add, one per id    *)
          NoWatch,     (* NULL, where a watch is expected                    *)
          MaxOwners,   (* bound: how often Mutter starts                     *)
          MaxId,       (* bound: the watch ids one Mutter hands out          *)
          MaxFired,    (* bound: WatchFired signals in flight                *)
          SlowOwners,  (* the Mutters that may take longer to reply than     *)
                       (* D-Bus waits                                        *)
          ReuseFreed   (* may malloc give a watch the block freed just before? *)

ASSUME ConstantsAssumption ==
  /\ IsFiniteSet(Watches)
  /\ NoWatch \notin Watches
  /\ MaxOwners \in Nat
  /\ MaxId \in Nat
  /\ MaxFired \in Nat
  /\ SlowOwners \subseteq 1..MaxOwners
  /\ ReuseFreed \in BOOLEAN

Owners == 1..MaxOwners   \* the unique bus names Mutter's instances get
NoOwner == 0
Ids == 1..MaxId          \* upstream ids; 0 means "not registered"

VARIABLES
  \* GnomeIdleMonitorPrivate
  disposed,     \* dispose has run
  watches,      \* the watches in the hash table of that name
  byUpstream,   \* watches_by_upstream_id
  proxy,        \* the Mutter instance priv->proxy talks to
  om,           \* the Mutter instance priv->om talks to
  managers,     \* per Mutter instance, how far its object manager has come
  \* GnomeIdleMonitorWatch; "dead" is: added and no longer in watches
  added,        \* the ids handed out so far
  kind,         \* "active" for timeout_msec = 0
  ref,          \* ref_count, 0 before the watch is made and after it is freed
  upstream,     \* upstream_id
  \* the main loop
  calls,        \* <<w, g>>: an Add*Watch call for w on g awaits on_watch_added
  callee,       \* the watch whose callback is running
  block,        \* the watch now in the memory on_watch_fired points to
  \* the bus and Mutter
  outbox, inbox,
  nameOwner,    \* the instance the name watcher last reported, if not gone
  started,      \* instances started so far
  owner,        \* the instance that owns the name now
  registered,   \* its watches
  nextId        \* its next watch id

privVars == <<disposed, watches, byUpstream, proxy, om, managers>>
watchVars == <<added, kind, ref, upstream>>
loopVars == <<calls, callee, block>>
mutterVars == <<started, owner, registered, nextId>>
vars == <<privVars, watchVars, loopVars, outbox, inbox, nameOwner, mutterVars>>

Request(op, g, w, u) == [op |-> op, owner |-> g, watch |-> w, id |-> u]
Requests ==
  [op : {"add"}, owner : Owners, watch : Watches, id : {0}] \cup
  [op : {"remove"}, owner : Owners \cup {NoOwner}, watch : {NoWatch}, id : Ids]
Message(type, g, w, u) == [type |-> type, owner |-> g, watch |-> w, id |-> u]
Messages ==
  [type : {"appeared", "vanished"}, owner : Owners, watch : {NoWatch}, id : {0}] \cup
  [type : {"added", "fired"}, owner : Owners, watch : Watches, id : Ids] \cup
  [type : {"failed"}, owner : Owners, watch : Watches, id : {0}]

TypeOK ==
  /\ disposed \in BOOLEAN
  /\ watches \subseteq Watches
  /\ byUpstream \in [Ids -> Watches \cup {NoWatch}]
  /\ proxy \in Owners \cup {NoOwner}
  /\ om \in Owners \cup {NoOwner}
  /\ managers \in [Owners -> {"none", "creating", "waiting", "done"}]
  /\ added \subseteq Watches
  /\ kind \in [Watches -> {"idle", "active"}]
  /\ ref \in [Watches -> Int]
  /\ upstream \in [Watches -> Ids \cup {0}]
  /\ calls \subseteq Watches \X Owners
  /\ callee \in Watches \cup {NoWatch}
  /\ block \in Watches \cup {NoWatch}
  /\ outbox \in Seq(Requests)
  /\ inbox \in Seq(Messages)
  /\ nameOwner \in Owners \cup {NoOwner}
  /\ started \in 0..MaxOwners
  /\ owner \in Owners \cup {NoOwner}
  /\ registered \in [Ids -> Watches \cup {NoWatch}]
  /\ nextId \in 1..(MaxId + 1)

Init ==
  /\ disposed = FALSE
  /\ watches = {}
  /\ byUpstream = [u \in Ids |-> NoWatch]
  /\ proxy = NoOwner
  /\ om = NoOwner
  /\ managers = [g \in Owners |-> "none"]
  /\ added = {}
  /\ kind = [w \in Watches |-> "idle"]
  /\ ref = [w \in Watches |-> 0]
  /\ upstream = [w \in Watches |-> 0]
  /\ calls = {}
  /\ callee = NoWatch
  /\ block = NoWatch
  /\ outbox = <<>>
  /\ inbox = <<>>
  /\ nameOwner = NoOwner
  /\ started = 0
  /\ owner = NoOwner
  /\ registered = [u \in Ids |-> NoWatch]
  /\ nextId = 1

-----------------------------------------------------------------------------
(* Reference counts and the two hash tables.                               *)

\* Mutant: the last reference leaves the index entry behind.
Unref_KeepsIndex(w, up, index) ==
  /\ ref' = [ref EXCEPT ![w] = @ - 1]
  /\ byUpstream' = index

\* idle_monitor_watch_unref, given the watch's upstream id and the index as
\* they are when it is called: the last reference also drops the index entry.
Unref(w, up, index) ==
  /\ ref' = [ref EXCEPT ![w] = @ - 1]
  /\ byUpstream' = IF ref[w] = 1 /\ up # 0
                   THEN [index EXCEPT ![up] = NoWatch]
                   ELSE index

\* gnome_idle_monitor_remove_watch_internal; the table's destroy function
\* marks the watch dead and drops the table's reference.
RemoveInternal(w) ==
  IF w \in watches
  THEN watches' = watches \ {w} /\ Unref(w, upstream[w], byUpstream)
  ELSE UNCHANGED <<watches, ref, byUpstream>>

\* The orders in which g_hash_table_foreach may visit S.
Orders(S) ==
  {s \in [1..Cardinality(S) -> S] : \A w \in S : \E i \in DOMAIN s : s[i] = w}

-----------------------------------------------------------------------------
(* The client's calls.  They may come from a callback.                     *)

\* gnome_idle_monitor_add_idle_watch, gnome_idle_monitor_add_user_active_watch.
\* After the running callback removed its own watch, the new one may be given
\* the very block on_watch_fired still points to.
AddWatch(w, k) ==
  /\ ~disposed
  /\ w \notin added
  /\ added' = added \cup {w}
  /\ watches' = watches \cup {w}
  /\ kind' = [kind EXCEPT ![w] = k]
  /\ IF proxy = NoOwner
     THEN /\ ref' = [ref EXCEPT ![w] = 1]
          /\ UNCHANGED <<calls, outbox>>
     ELSE /\ ref' = [ref EXCEPT ![w] = 2]
          /\ calls' = calls \cup {<<w, proxy>>}
          /\ outbox' = Append(outbox, Request("add", proxy, w, 0))
  /\ \/ UNCHANGED block
     \/ /\ ReuseFreed
        /\ callee # NoWatch
        /\ ref[block] = 0
        /\ block' = w
  /\ UNCHANGED <<disposed, byUpstream, proxy, om, managers, upstream, callee,
                 inbox, nameOwner, mutterVars>>

\* Mutant: RemoveWatch is sent for a watch Mutter does not know yet.
RemoveWatch_AlwaysTellsMutter(w) ==
  /\ ~disposed
  /\ w \in watches
  /\ outbox' = Append(outbox, Request("remove", proxy, NoWatch, upstream[w]))
  /\ RemoveInternal(w)
  /\ UNCHANGED <<disposed, proxy, om, managers, added, kind, upstream, loopVars,
                 inbox, nameOwner, mutterVars>>

\* gnome_idle_monitor_remove_watch, for an id that is in the table.
RemoveWatch(w) ==
  /\ ~disposed
  /\ w \in watches
  /\ outbox' = IF upstream[w] # 0
               THEN Append(outbox, Request("remove", proxy, NoWatch, upstream[w]))
               ELSE outbox
  /\ RemoveInternal(w)
  /\ UNCHANGED <<disposed, proxy, om, managers, added, kind, upstream, loopVars,
                 inbox, nameOwner, mutterVars>>

\* gnome_idle_monitor_dispose: every call is cancelled, both tables go.
\* on_watch_fired holds a reference, so it never runs under a callback.
Dispose ==
  /\ ~disposed
  /\ callee = NoWatch
  /\ disposed' = TRUE
  /\ proxy' = NoOwner
  /\ om' = NoOwner
  /\ watches' = {}
  /\ ref' = [w \in Watches |-> IF w \in watches THEN ref[w] - 1 ELSE ref[w]]
  /\ byUpstream' = [u \in Ids |-> NoWatch]
  /\ UNCHANGED <<managers, added, kind, upstream, loopVars, outbox, inbox,
                 nameOwner, mutterVars>>

-----------------------------------------------------------------------------
(* Handlers the main loop runs.  Each takes the next message, or a result  *)
(* that does not come over the bus.                                        *)

Receive(type) ==
  /\ callee = NoWatch
  /\ inbox # <<>>
  /\ Head(inbox).type = type
  /\ inbox' = Tail(inbox)

\* on_name_appeared: start creating an object manager for the new owner.
OnNameAppeared ==
  /\ ~disposed
  /\ Receive("appeared")
  /\ nameOwner' = Head(inbox).owner
  /\ managers' = [managers EXCEPT ![Head(inbox).owner] = "creating"]
  /\ UNCHANGED <<disposed, watches, byUpstream, proxy, om, watchVars, loopVars,
                 outbox, mutterVars>>

\* Mutant: clear_watch drops the index entries and keeps the upstream ids.
OnNameVanished_KeepsIds ==
  /\ ~disposed
  /\ Receive("vanished")
  /\ nameOwner' = NoOwner
  /\ byUpstream' = [u \in Ids |-> IF \E w \in watches : upstream[w] = u
                                  THEN NoWatch ELSE byUpstream[u]]
  /\ proxy' = NoOwner
  /\ om' = NoOwner
  /\ managers' = [g \in Owners |-> IF managers[g] = "waiting" THEN "done"
                                   ELSE managers[g]]
  /\ UNCHANGED <<disposed, watches, added, kind, ref, upstream, loopVars, outbox,
                 mutterVars>>

\* on_name_vanished: clear_watch on every watch of the table.  Entries of
\* watches no longer in the table are left alone, as the code leaves them.
\* A manager that waits for its object is freed or, when priv->om no longer
\* pointed to it, hears nothing more from its dead peer.
OnNameVanished ==
  /\ ~disposed
  /\ Receive("vanished")
  /\ nameOwner' = NoOwner
  /\ byUpstream' = [u \in Ids |-> IF \E w \in watches : upstream[w] = u
                                  THEN NoWatch ELSE byUpstream[u]]
  /\ upstream' = [w \in Watches |-> IF w \in watches THEN 0 ELSE upstream[w]]
  /\ proxy' = NoOwner
  /\ om' = NoOwner
  /\ managers' = [g \in Owners |-> IF managers[g] = "waiting" THEN "done"
                                   ELSE managers[g]]
  /\ UNCHANGED <<disposed, watches, added, kind, ref, loopVars, outbox,
                 mutterVars>>

\* connect_proxy: take the instance's proxy and register every known watch.
ConnectProxy(g) ==
  /\ proxy' = g
  /\ managers' = [managers EXCEPT ![g] = "done"]
  /\ ref' = [w \in Watches |-> IF w \in watches THEN ref[w] + 1 ELSE ref[w]]
  /\ calls' = calls \cup (watches \X {g})
  /\ \E order \in Orders(watches) :
       outbox' = outbox \o [i \in 1..Cardinality(watches) |->
                              Request("add", g, order[i], 0)]

\* Mutant: get_proxy does not wait for an object that is not there yet.
OnObjectManagerReady_NeverWaits(g) ==
  /\ callee = NoWatch
  /\ ~disposed
  /\ managers[g] = "creating"
  /\ \/ /\ owner # g
        /\ managers' = [managers EXCEPT ![g] = "done"]
        /\ UNCHANGED <<om, proxy, ref, calls, outbox>>
     \/ /\ nameOwner \in {g, NoOwner}
        /\ om' = g
        /\ ConnectProxy(g)
     \/ /\ om' = g
        /\ managers' = [managers EXCEPT ![g] = "done"]
        /\ UNCHANGED <<proxy, ref, calls, outbox>>
  /\ UNCHANGED <<disposed, watches, byUpstream, added, kind, upstream,
                 callee, block, inbox, nameOwner, mutterVars>>

\* on_object_manager_ready and get_proxy.  A manager whose peer is gone drops
\* its objects when it hears so itself, which may be just after the name
\* watcher heard it.
OnObjectManagerReady(g) ==
  /\ callee = NoWatch
  /\ ~disposed
  /\ managers[g] = "creating"
  /\ \/ /\ owner # g                  \* GetManagedObjects failed
        /\ managers' = [managers EXCEPT ![g] = "done"]
        /\ UNCHANGED <<om, proxy, ref, calls, outbox>>
     \/ /\ nameOwner \in {g, NoOwner} \* the object is there
        /\ om' = g
        /\ ConnectProxy(g)
     \/ /\ om' = g                    \* not yet, or no longer
        /\ managers' = [managers EXCEPT
                          ![g] = IF nameOwner = g THEN "waiting" ELSE "done"]
        /\ UNCHANGED <<proxy, ref, calls, outbox>>
  /\ UNCHANGED <<disposed, watches, byUpstream, added, kind, upstream,
                 callee, block, inbox, nameOwner, mutterVars>>

\* on_object_added, for the idle monitor's path; it disconnects itself.
OnObjectAdded(g) ==
  /\ callee = NoWatch
  /\ ~disposed
  /\ managers[g] = "waiting"
  /\ ConnectProxy(g)
  /\ UNCHANGED <<disposed, watches, byUpstream, om, added, kind, upstream,
                 callee, block, inbox, nameOwner, mutterVars>>

\* Mutant: the registration of a watch removed meanwhile is left standing.
WatchAdded_ForgetsDead(w, u) ==
  IF w \notin watches
  THEN Unref(w, upstream[w], byUpstream) /\ UNCHANGED <<outbox, upstream>>
  ELSE /\ upstream' = [upstream EXCEPT ![w] = u]
       /\ Unref(w, u, [byUpstream EXCEPT ![u] = w])
       /\ UNCHANGED outbox

\* on_watch_added with a result.
WatchAdded(w, u) ==
  IF w \notin watches
  THEN /\ outbox' = IF u # 0
                    THEN Append(outbox, Request("remove", proxy, NoWatch, u))
                    ELSE outbox
       /\ Unref(w, upstream[w], byUpstream)
       /\ UNCHANGED upstream
  ELSE /\ upstream' = [upstream EXCEPT ![w] = u]
       /\ Unref(w, u, [byUpstream EXCEPT ![u] = w])
       /\ UNCHANGED outbox

\* Mutant: the error path keeps the call's reference.
WatchNotAdded_Leaks(w) == UNCHANGED <<ref, byUpstream, outbox, upstream>>

\* on_watch_added with an error.
WatchNotAdded(w) ==
  /\ Unref(w, upstream[w], byUpstream)
  /\ UNCHANGED <<outbox, upstream>>

\* A reply; GDBus drops the reply of a call that is no longer pending.
OnWatchAdded ==
  LET m == Head(inbox)
      call == <<m.watch, m.owner>>
  IN /\ ~disposed
     /\ Receive("added") \/ Receive("failed")
     /\ calls' = calls \ {call}
     /\ \/ call \in calls /\ m.type = "added" /\ WatchAdded(m.watch, m.id)
        \/ call \in calls /\ m.type = "failed" /\ WatchNotAdded(m.watch)
        \/ call \notin calls /\ UNCHANGED <<outbox, upstream, ref, byUpstream>>
     /\ UNCHANGED <<disposed, watches, proxy, om, managers, added, kind, callee,
                    block, nameOwner, mutterVars>>

\* on_watch_added with an error of the process's own making: the call timed
\* out, or dispose cancelled it (a result that was already there included).
CallFails(w, g) ==
  /\ callee = NoWatch
  /\ <<w, g>> \in calls
  /\ g \in SlowOwners \/ disposed
  /\ calls' = calls \ {<<w, g>>}
  /\ WatchNotAdded(w)
  /\ UNCHANGED <<disposed, watches, proxy, om, managers, added, kind, callee,
                 block, inbox, nameOwner, mutterVars>>

\* on_watch_fired up to the callback; a watch that is not indexed is ignored.
OnWatchFired ==
  /\ ~disposed
  /\ Receive("fired")
  /\ callee' = byUpstream[Head(inbox).id]
  /\ block' = callee'
  /\ UNCHANGED <<privVars, watchVars, calls, outbox, nameOwner, mutterVars>>

\* Mutant: a user-active watch stays in the table after its callback.
CallbackReturns_KeepsOneTime ==
  /\ callee # NoWatch
  /\ callee' = NoWatch
  /\ block' = NoWatch
  /\ UNCHANGED <<privVars, watchVars, calls, outbox, inbox, nameOwner, mutterVars>>

\* The rest of on_watch_fired.  It reads timeout_msec and id from the memory
\* that held the watch, whatever that memory holds now.
CallbackReturns ==
  /\ callee # NoWatch
  /\ IF kind[block] = "active"
     THEN RemoveInternal(block)
     ELSE UNCHANGED <<watches, ref, byUpstream>>
  /\ callee' = NoWatch
  /\ block' = NoWatch
  /\ UNCHANGED <<disposed, proxy, om, managers, added, kind, upstream, calls,
                 outbox, inbox, nameOwner, mutterVars>>

\* After dispose nothing the bus delivers reaches the monitor.
Discard ==
  /\ disposed
  /\ inbox # <<>>
  /\ inbox' = Tail(inbox)
  /\ UNCHANGED <<privVars, watchVars, loopVars, outbox, nameOwner, mutterVars>>

-----------------------------------------------------------------------------
(* The session bus and Mutter.                                             *)

MutterStarts ==
  /\ owner = NoOwner
  /\ started < MaxOwners
  /\ started' = started + 1
  /\ owner' = started + 1
  /\ registered' = [u \in Ids |-> NoWatch]
  /\ nextId' = 1
  /\ inbox' = Append(inbox, Message("appeared", started + 1, NoWatch, 0))
  /\ UNCHANGED <<privVars, watchVars, loopVars, outbox, nameOwner>>

MutterExits ==
  /\ owner # NoOwner
  /\ owner' = NoOwner
  /\ registered' = [u \in Ids |-> NoWatch]
  /\ inbox' = Append(inbox, Message("vanished", owner, NoWatch, 0))
  /\ UNCHANGED <<privVars, watchVars, loopVars, outbox, nameOwner, started, nextId>>

\* The bus takes the process's next message to its addressee; a call to an
\* instance that is gone is answered with an error.
RequestArrives ==
  LET m == Head(outbox)
  IN /\ outbox # <<>>
     /\ outbox' = Tail(outbox)
     /\ \/ /\ m.op = "add" /\ m.owner = owner /\ nextId <= MaxId
           /\ registered' = [registered EXCEPT ![nextId] = m.watch]
           /\ nextId' = nextId + 1
           /\ inbox' = Append(inbox, Message("added", owner, m.watch, nextId))
        \/ /\ m.op = "add" /\ m.owner # owner
           /\ inbox' = Append(inbox, Message("failed", m.owner, m.watch, 0))
           /\ UNCHANGED <<registered, nextId>>
        \/ /\ m.op = "remove"
           /\ registered' = IF m.owner = owner
                            THEN [registered EXCEPT ![m.id] = NoWatch]
                            ELSE registered
           /\ UNCHANGED <<inbox, nextId>>
     /\ UNCHANGED <<privVars, watchVars, loopVars, nameOwner, started, owner>>

\* Mutter drops a user-active watch when it fires.
MutterFires(u) ==
  /\ registered[u] # NoWatch
  /\ Cardinality({i \in DOMAIN inbox : inbox[i].type = "fired"}) < MaxFired
  /\ inbox' = Append(inbox, Message("fired", owner, registered[u], u))
  /\ registered' = IF kind[registered[u]] = "active"
                   THEN [registered EXCEPT ![u] = NoWatch]
                   ELSE registered
  /\ UNCHANGED <<privVars, watchVars, loopVars, outbox, nameOwner, started,
                 owner, nextId>>

-----------------------------------------------------------------------------
MainLoop ==
  \/ OnNameAppeared
  \/ OnNameVanished
  \/ \E g \in Owners : OnObjectManagerReady(g) \/ OnObjectAdded(g)
  \/ OnWatchAdded
  \/ \E w \in Watches, g \in Owners : CallFails(w, g)
  \/ OnWatchFired
  \/ CallbackReturns
  \/ Discard

Client ==
  \/ \E w \in Watches, k \in {"idle", "active"} : AddWatch(w, k)
  \/ \E w \in Watches : RemoveWatch(w)
  \/ Dispose

Bus ==
  \/ MutterStarts
  \/ MutterExits
  \/ RequestArrives
  \/ \E u \in Ids : MutterFires(u)

Next == MainLoop \/ Client \/ Bus

Spec == Init /\ [][Next]_vars

-----------------------------------------------------------------------------
(* Properties.                                                             *)

Pending(w) == {g \in Owners : <<w, g>> \in calls}
Live(w) == ref[w] > 0

\* A watch's references are the table's and one per call in flight: it is
\* never freed while on_watch_added may still be handed it, and always freed
\* in the end (idle_monitor_watch_ref and _unref on every path).
RefCountInv ==
  \A w \in Watches :
    ref[w] = (IF w \in watches THEN 1 ELSE 0) + Cardinality(Pending(w))

\* watches_by_upstream_id is exactly the inverse of the upstream ids of the
\* watches in the table, over any number of Mutter restarts: no entry outlives
\* its watch, no registered watch is missing, no two share an id.  A watch with
\* a call in flight has no upstream id, so dropping the last reference in
\* on_watch_added never reaches into a monitor that is gone.
IndexInv ==
  /\ \A u \in Ids : byUpstream[u] # NoWatch =>
       byUpstream[u] \in watches /\ upstream[byUpstream[u]] = u
  /\ \A w \in watches : upstream[w] # 0 => byUpstream[upstream[w]] = w
  /\ \A w \in Watches : Pending(w) # {} => upstream[w] = 0

\* Every RemoveWatch the process sends goes to the very Mutter that handed
\* out the id, for a watch the client no longer has: neither a NULL proxy nor
\* the id of another of its watches after a restart.
RemoveReachesItsMutter ==
  \A i \in DOMAIN outbox :
    LET m == outbox[i] IN
      m.op = "remove" =>
        /\ m.owner # NoOwner
        /\ m.owner = owner /\ registered[m.id] # NoWatch =>
             registered[m.id] \notin watches

\* on_watch_fired calls the watch Mutter fired the signal for, and only while
\* the client has not removed it.
CallsTheRightWatch ==
  [][callee' # NoWatch /\ callee = NoWatch =>
       callee' = Head(inbox).watch /\ callee' \in watches]_vars

\* A watch leaves the table by remove_watch, by dispose, or, one-time as it
\* is, after its own callback ran ("this watch is one-time and will de-activate
\* after the function is called"); no other watch's callback takes it along.
OnlyItsOwnCallbackRemoves ==
  [][callee # NoWatch /\ callee' = NoWatch => watches \ watches' \subseteq {callee}]_vars

\* As long as one Mutter keeps running and replies in time, every watch the
\* client keeps is registered there in the end and known by the id it got,
\* whatever an instance before it failed to answer.
EventuallyRegistered ==
  \A w \in Watches, g \in Owners \ SlowOwners :
    (w \in watches /\ owner = g) ~>
      (w \notin watches \/ owner # g \/ (upstream[w] # 0 /\ byUpstream[upstream[w]] = w))

\* A Mutter that replies in time forgets every watch the client removed,
\* whichever of the removal and the reply to its registration came first.
EventuallyUnregistered ==
  \A w \in Watches, u \in Ids :
    (w \in added \ watches /\ registered[u] = w /\ owner \notin SlowOwners) ~>
      (disposed \/ registered[u] # w)

\* Seen by the client, all this is a WatchService: restarts of Mutter, calls
\* in flight and ids handed out anew do not show.
Service == INSTANCE WatchService
             WITH known <- added, armed <- watches, running <- callee,
                  oneTime <- {w \in added : kind[w] = "active"}
ImplementsService == Service!Spec

\* Handlers the main loop dispatches and what the bus and a running Mutter
\* do; the client, and Mutter's starts, exits and signals, owe nothing.
Fairness ==
  /\ WF_vars(OnNameAppeared)
  /\ WF_vars(OnNameVanished)
  /\ \A g \in Owners : WF_vars(OnObjectManagerReady(g))
  /\ \A g \in Owners : WF_vars(OnObjectAdded(g))
  /\ WF_vars(OnWatchAdded)
  /\ WF_vars(OnWatchFired)
  /\ WF_vars(CallbackReturns)
  /\ WF_vars(RequestArrives)

FairSpec == Spec /\ Fairness
=============================================================================
