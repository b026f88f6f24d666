------------------------- MODULE IdleMonitorProofs -------------------------
(***************************************************************************)
(* For any number of watches, restarts of Mutter and messages in flight:   *)
(* the reference counts of GnomeIdleMonitor's watches are right, its index *)
(* by Mutter's ids is exact, a removal reaches the Mutter that gave the id *)
(* out, only the watch that fired is called, and, where memory is not used *)
(* again at once, the monitor implements WatchService.                     *)
(*                                                                         *)
(* There are two invariants.  IInv is about the watches and their          *)
(* references and needs little of the bus.  BusInv says what is in flight: *)
(* what is asked of an instance and what it answers come in one order, so  *)
(* that an answer is for the call it is taken for, and an id is one watch. *)
(***************************************************************************)
EXTENDS IdleMonitor, FiniteSetTheorems, TLAPS

\* What the reference counts rest on: only watches that were added are
\* anywhere, and an instance of Mutter is called only after its object
\* manager is done, which happens once per instance.
KnownInv ==
  /\ watches \subseteq added
  /\ \A w \in Watches, g \in Owners :
       <<w, g>> \in calls => w \in added /\ managers[g] = "done"
  /\ proxy # NoOwner => managers[proxy] = "done"
  /\ callee # NoWatch => block # NoWatch

\* An instance appears once: its manager is started by one message only.
AppearInv ==
  /\ \A g \in Owners : g > started => managers[g] = "none"
  /\ \A i \in 1..Len(inbox) : inbox[i].type = "appeared" =>
       /\ inbox[i].owner <= started
       /\ managers[inbox[i].owner] = "none"
  /\ \A i, j \in 1..Len(inbox) :
       inbox[i].type = "appeared" /\ inbox[j].type = "appeared" /\ i # j =>
         inbox[i].owner # inbox[j].owner

\* Only a running Mutter has watches.
MutterInv == \A u \in Ids : registered[u] # NoWatch => owner # NoOwner

\* The inductive strengthening of RefCountInv.
IInv == TypeOK /\ KnownInv /\ AppearInv /\ MutterInv /\ RefCountInv

-----------------------------------------------------------------------------
(* Sets of Mutter instances are finite, and count as sets do.              *)

LEMMA OwnersFinite ==
  ASSUME NEW S, S \subseteq Owners
  PROVE  IsFiniteSet(S) /\ Cardinality(S) \in Nat
<1>1. IsFiniteSet(Owners)
  BY ConstantsAssumption, FS_Interval DEF Owners, ConstantsAssumption
<1>2. IsFiniteSet(S)
  BY <1>1, FS_Subset
<1>3. QED
  BY <1>2, FS_CardinalityType

LEMMA CountAdd ==
  ASSUME NEW S, S \subseteq Owners, NEW g, g \in Owners, g \notin S
  PROVE  Cardinality(S \cup {g}) = Cardinality(S) + 1
  BY OwnersFinite, FS_AddElement

LEMMA CountRemove ==
  ASSUME NEW S, S \subseteq Owners, NEW g, g \in S
  PROVE  Cardinality(S \ {g}) = Cardinality(S) - 1
  BY OwnersFinite, FS_RemoveElement

LEMMA CountType ==
  ASSUME NEW w
  PROVE  Cardinality(Pending(w)) \in Nat
  BY OwnersFinite DEF Pending

LEMMA NoneCounts == Cardinality({}) = 0
  BY FS_EmptySet

-----------------------------------------------------------------------------
(* Type correctness, one step per action.                                  *)

LEMMA UnrefType ==
  ASSUME NEW w \in Watches, NEW up \in Ids \cup {0},
         NEW index \in [Ids -> Watches \cup {NoWatch}],
         ref \in [Watches -> Int], Unref(w, up, index)
  PROVE  /\ ref' \in [Watches -> Int]
         /\ byUpstream' \in [Ids -> Watches \cup {NoWatch}]
  BY DEF Unref

LEMMA RemoveInternalType ==
  ASSUME TypeOK, NEW w \in Watches, RemoveInternal(w)
  PROVE  /\ watches' \subseteq Watches
         /\ ref' \in [Watches -> Int]
         /\ byUpstream' \in [Ids -> Watches \cup {NoWatch}]
  BY UnrefType DEF TypeOK, RemoveInternal

\* Receiving a message leaves a shorter inbox of messages.
LEMMA ReceiveType ==
  ASSUME TypeOK, inbox # <<>>
  PROVE  /\ Head(inbox) \in Messages
         /\ Tail(inbox) \in Seq(Messages)
  BY DEF TypeOK

LEMMA ConnectProxyType ==
  ASSUME TypeOK, NEW g \in Owners, ConnectProxy(g)
  PROVE  /\ proxy' \in Owners
         /\ managers' \in [Owners -> {"none", "creating", "waiting", "done"}]
         /\ ref' \in [Watches -> Int]
         /\ calls' \subseteq Watches \X Owners
         /\ outbox' \in Seq(Requests)
<1>1. PICK order \in Orders(watches) :
        outbox' = outbox \o [i \in 1..Cardinality(watches) |->
                               Request("add", g, order[i], 0)]
  BY DEF ConnectProxy
<1>2. watches \subseteq Watches /\ IsFiniteSet(watches)
  BY FS_Subset, ConstantsAssumption DEF TypeOK, ConstantsAssumption
<1>3. Cardinality(watches) \in Nat
  BY <1>2, FS_CardinalityType
<1>4. \A i \in 1..Cardinality(watches) : Request("add", g, order[i], 0) \in Requests
  BY <1>1, <1>2 DEF Orders, Request, Requests
<1>5. [i \in 1..Cardinality(watches) |-> Request("add", g, order[i], 0)] \in Seq(Requests)
  BY <1>3, <1>4
<1>6. outbox' \in Seq(Requests)
  BY <1>1, <1>5 DEF TypeOK
<1>7. /\ proxy' \in Owners
      /\ managers' \in [Owners -> {"none", "creating", "waiting", "done"}]
      /\ ref' \in [Watches -> Int]
      /\ calls' \subseteq Watches \X Owners
  BY DEF ConnectProxy, TypeOK
<1>8. QED
  BY <1>6, <1>7

LEMMA TypeInit == Init => TypeOK
<1> SUFFICES ASSUME Init PROVE TypeOK
  OBVIOUS
<1>1. started \in 0..MaxOwners /\ nextId \in 1..(MaxId + 1)
  BY ConstantsAssumption DEF Init, ConstantsAssumption
<1>2. outbox \in Seq(Requests) /\ inbox \in Seq(Messages)
  BY DEF Init
<1>3. /\ disposed \in BOOLEAN
      /\ watches \subseteq Watches
      /\ added \subseteq Watches
      /\ calls \subseteq Watches \X Owners
      /\ proxy \in Owners \cup {NoOwner}
      /\ om \in Owners \cup {NoOwner}
      /\ nameOwner \in Owners \cup {NoOwner}
      /\ owner \in Owners \cup {NoOwner}
      /\ callee \in Watches \cup {NoWatch}
      /\ block \in Watches \cup {NoWatch}
  BY DEF Init
<1>4. /\ byUpstream \in [Ids -> Watches \cup {NoWatch}]
      /\ registered \in [Ids -> Watches \cup {NoWatch}]
      /\ managers \in [Owners -> {"none", "creating", "waiting", "done"}]
      /\ kind \in [Watches -> {"idle", "active"}]
      /\ ref \in [Watches -> Int]
      /\ upstream \in [Watches -> Ids \cup {0}]
  BY DEF Init
<1>5. QED
  BY <1>1, <1>2, <1>3, <1>4 DEF TypeOK

LEMMA TypeStep == TypeOK /\ MutterInv /\ [Next]_vars => TypeOK'
<1> SUFFICES ASSUME TypeOK, MutterInv, [Next]_vars PROVE TypeOK'
  OBVIOUS
<1> USE DEF privVars, watchVars, loopVars, mutterVars
<1>1. ASSUME NEW w \in Watches, NEW k \in {"idle", "active"}, AddWatch(w, k)
      PROVE  TypeOK'
  <2>1. outbox' \in Seq(Requests) /\ calls' \subseteq Watches \X Owners
        /\ ref' \in [Watches -> Int]
    <3>1. CASE proxy = NoOwner
      BY <1>1, <3>1 DEF AddWatch, TypeOK
    <3>2. CASE proxy # NoOwner
      <4>1. proxy \in Owners /\ Request("add", proxy, w, 0) \in Requests
        <5>1. proxy \in Owners
          BY <3>2 DEF TypeOK
        <5>2. QED
          BY <5>1 DEF Request, Requests
      <4>2. /\ ref' = [ref EXCEPT ![w] = 2]
            /\ calls' = calls \cup {<<w, proxy>>}
            /\ outbox' = Append(outbox, Request("add", proxy, w, 0))
        BY <1>1, <3>2 DEF AddWatch
      <4>3. outbox' \in Seq(Requests)
        BY <4>1, <4>2 DEF TypeOK
      <4>4. QED
        BY <4>1, <4>2, <4>3 DEF TypeOK
    <3>3. QED
      BY <3>1, <3>2
  <2>2. block' \in Watches \cup {NoWatch}
    BY <1>1 DEF AddWatch, TypeOK
  <2>3. QED
    BY <1>1, <2>1, <2>2 DEF AddWatch, TypeOK
<1>2. ASSUME NEW w \in Watches, RemoveWatch(w)
      PROVE  TypeOK'
  <2>1. outbox' \in Seq(Requests)
    BY <1>2 DEF RemoveWatch, TypeOK, Request, Requests
  <2>2. QED
    BY <1>2, <2>1, RemoveInternalType DEF RemoveWatch, TypeOK
<1>3. CASE Dispose
  BY <1>3 DEF Dispose, TypeOK
<1>4. CASE OnNameAppeared
  BY <1>4, ReceiveType DEF OnNameAppeared, Receive, TypeOK, Messages
<1>5. CASE OnNameVanished
  BY <1>5, ReceiveType DEF OnNameVanished, Receive, TypeOK
<1>6. ASSUME NEW g \in Owners, OnObjectManagerReady(g)
      PROVE  TypeOK'
  <2>1. CASE ConnectProxy(g) /\ om' = g
    BY <1>6, <2>1, ConnectProxyType DEF OnObjectManagerReady, TypeOK
  <2>2. CASE ~(ConnectProxy(g) /\ om' = g)
    BY <1>6, <2>2 DEF OnObjectManagerReady, TypeOK
  <2>3. QED
    BY <2>1, <2>2
<1>7. ASSUME NEW g \in Owners, OnObjectAdded(g)
      PROVE  TypeOK'
  BY <1>7, ConnectProxyType DEF OnObjectAdded, TypeOK
<1>8. CASE OnWatchAdded
  <2> DEFINE m == Head(inbox)
  <2>1. inbox # <<>> /\ inbox' = Tail(inbox)
        /\ (m.type = "added" \/ m.type = "failed")
    BY <1>8 DEF OnWatchAdded, Receive
  <2>2. m \in Messages /\ inbox' \in Seq(Messages)
    BY <2>1, ReceiveType
  <2>3. m.watch \in Watches /\ m.id \in Ids \cup {0} /\ (m.type = "added" => m.id \in Ids)
    BY <2>1, <2>2 DEF Messages
  <2>4. CASE m.type = "added" /\ WatchAdded(m.watch, m.id)
    <3>1. CASE m.watch \notin watches
      <4>1. Unref(m.watch, upstream[m.watch], byUpstream) /\ upstream' = upstream
            /\ outbox' = Append(outbox, Request("remove", proxy, NoWatch, m.id))
        BY <2>3, <2>4, <3>1, ConstantsAssumption DEF WatchAdded, Ids, ConstantsAssumption
      <4>2. outbox' \in Seq(Requests)
        BY <4>1, <2>3, <2>4 DEF Request, Requests, TypeOK
      <4>3. ref' \in [Watches -> Int] /\ byUpstream' \in [Ids -> Watches \cup {NoWatch}]
        BY <4>1, <2>3, UnrefType DEF TypeOK
      <4>4. QED
        BY <1>8, <2>2, <4>1, <4>2, <4>3 DEF OnWatchAdded, TypeOK
    <3>2. CASE m.watch \in watches
      <4>1. /\ Unref(m.watch, m.id, [byUpstream EXCEPT ![m.id] = m.watch])
            /\ upstream' = [upstream EXCEPT ![m.watch] = m.id]
            /\ outbox' = outbox
        BY <2>4, <3>2 DEF WatchAdded
      <4>2. [byUpstream EXCEPT ![m.id] = m.watch] \in [Ids -> Watches \cup {NoWatch}]
        BY <2>3 DEF TypeOK
      <4>3. ref' \in [Watches -> Int] /\ byUpstream' \in [Ids -> Watches \cup {NoWatch}]
        <5> HIDE DEF m
        <5>1. ref \in [Watches -> Int]
          BY DEF TypeOK
        <5>2. QED
          BY <4>1, <2>3, <4>2, <5>1, UnrefType
      <4>4. QED
        BY <1>8, <2>2, <2>3, <4>1, <4>3 DEF OnWatchAdded, TypeOK
    <3>3. QED
      BY <3>1, <3>2
  <2>5. CASE m.type = "failed" /\ WatchNotAdded(m.watch)
    <3>1. ref' \in [Watches -> Int] /\ byUpstream' \in [Ids -> Watches \cup {NoWatch}]
      BY <2>3, <2>5, UnrefType DEF TypeOK, WatchNotAdded
    <3>2. QED
      BY <1>8, <2>2, <2>5, <3>1 DEF OnWatchAdded, TypeOK, WatchNotAdded
  <2>6. CASE UNCHANGED <<outbox, upstream, ref, byUpstream>>
    BY <1>8, <2>2, <2>6 DEF OnWatchAdded, TypeOK
  <2>7. QED
    BY <1>8, <2>4, <2>5, <2>6 DEF OnWatchAdded
<1>9. ASSUME NEW w \in Watches, NEW g \in Owners, CallFails(w, g)
      PROVE  TypeOK'
  <2>1. ref' \in [Watches -> Int] /\ byUpstream' \in [Ids -> Watches \cup {NoWatch}]
    BY <1>9, UnrefType DEF TypeOK, CallFails, WatchNotAdded
  <2>2. QED
    BY <1>9, <2>1 DEF CallFails, WatchNotAdded, TypeOK
<1>10. CASE OnWatchFired
  <2>1. Head(inbox).id \in Ids
    BY <1>10, ReceiveType DEF OnWatchFired, Receive, Messages
  <2>2. QED
    BY <1>10, <2>1, ReceiveType DEF OnWatchFired, Receive, TypeOK
<1>11. CASE CallbackReturns
  <2>1. CASE block \in Watches /\ kind[block] = "active"
    BY <1>11, <2>1, RemoveInternalType DEF CallbackReturns, TypeOK
  <2>2. CASE kind[block] # "active"
    BY <1>11, <2>2 DEF CallbackReturns, TypeOK
  <2>3. CASE block = NoWatch /\ kind[block] = "active"
    <3>1. NoWatch \notin watches
      BY ConstantsAssumption DEF ConstantsAssumption, TypeOK
    <3>2. QED
      BY <1>11, <2>3, <3>1 DEF CallbackReturns, TypeOK, RemoveInternal
  <2>4. QED
    BY <2>1, <2>2, <2>3 DEF TypeOK
<1>12. CASE Discard
  BY <1>12, ReceiveType DEF Discard, TypeOK
<1>13. CASE MutterStarts
  <2>1. started + 1 \in Owners /\ 1 \in 1..(MaxId + 1)
    BY <1>13, ConstantsAssumption DEF MutterStarts, TypeOK, Owners, ConstantsAssumption
  <2>2. inbox' \in Seq(Messages)
    BY <1>13, <2>1 DEF MutterStarts, TypeOK, Message, Messages
  <2>3. QED
    BY <1>13, <2>1, <2>2 DEF MutterStarts, TypeOK, Owners
<1>14. CASE MutterExits
  <2>1. inbox' \in Seq(Messages)
    BY <1>14 DEF MutterExits, TypeOK, Message, Messages
  <2>2. QED
    BY <1>14, <2>1 DEF MutterExits, TypeOK
<1>15. CASE RequestArrives
  <2> DEFINE m == Head(outbox)
  <2>1. m \in Requests /\ outbox' \in Seq(Requests)
    BY <1>15 DEF RequestArrives, TypeOK
  <2>2. CASE m.op = "add" /\ m.owner = owner /\ nextId <= MaxId
    <3>1. /\ m.watch \in Watches /\ m.owner \in Owners
          /\ nextId \in Ids /\ nextId + 1 \in 1..(MaxId + 1)
      <4>1. m.watch \in Watches /\ m.owner \in Owners
        BY <2>1, <2>2 DEF Requests
      <4>2. nextId \in 1..(MaxId + 1) /\ nextId <= MaxId /\ MaxId \in Nat
        BY <2>2, ConstantsAssumption DEF TypeOK, ConstantsAssumption
      <4>3. nextId \in Ids /\ nextId + 1 \in 1..(MaxId + 1)
        BY <4>2 DEF Ids
      <4>. QED BY <4>1, <4>3
    <3>2. /\ registered' = [registered EXCEPT ![nextId] = m.watch]
          /\ nextId' = nextId + 1
          /\ inbox' = Append(inbox, Message("added", owner, m.watch, nextId))
      BY <1>15, <2>2 DEF RequestArrives
    <3>3. inbox' \in Seq(Messages)
      BY <2>2, <3>1, <3>2 DEF TypeOK, Message, Messages
    <3>4. QED
      BY <1>15, <2>1, <3>1, <3>2, <3>3 DEF RequestArrives, TypeOK
  <2>3. CASE m.op = "add" /\ m.owner # owner
    <3>1. inbox' = Append(inbox, Message("failed", m.owner, m.watch, 0))
          /\ UNCHANGED <<registered, nextId>>
      BY <1>15, <2>3 DEF RequestArrives
    <3>2. Message("failed", m.owner, m.watch, 0) \in Messages
      BY <2>1, <2>3 DEF Message, Messages, Requests
    <3>3. QED
      BY <1>15, <2>1, <3>1, <3>2 DEF RequestArrives, TypeOK
  <2>4. CASE m.op = "remove"
    <3>1. m.id \in Ids
      BY <2>1, <2>4 DEF Requests
    <3>2. QED
      BY <1>15, <2>1, <2>4, <3>1 DEF RequestArrives, TypeOK
  <2>5. QED
    BY <1>15, <2>2, <2>3, <2>4 DEF RequestArrives
<1>16. ASSUME NEW u \in Ids, MutterFires(u)
       PROVE  TypeOK'
  <2>1. owner \in Owners /\ registered[u] \in Watches
    BY <1>16 DEF MutterFires, MutterInv, TypeOK
  <2>2. inbox' \in Seq(Messages)
    BY <1>16, <2>1 DEF MutterFires, TypeOK, Message, Messages
  <2>3. QED
    BY <1>16, <2>2 DEF MutterFires, TypeOK
<1>17. CASE UNCHANGED vars
  BY <1>17 DEF vars, TypeOK
<1>18. QED
  BY <1>1, <1>2, <1>3, <1>4, <1>5, <1>6, <1>7, <1>8, <1>9, <1>10, <1>11, <1>12,
     <1>13, <1>14, <1>15, <1>16, <1>17 DEF Next, MainLoop, Client, Bus

-----------------------------------------------------------------------------
(* The reference counts.  An action disturbs them through Unref of one     *)
(* watch, through ConnectProxy, or through dispose.                        *)

LEMMA StructureInit == Init => KnownInv /\ AppearInv /\ MutterInv
  BY DEF Init, KnownInv, AppearInv, MutterInv, NoOwner

LEMMA RefCountInit == Init => RefCountInv
<1> SUFFICES ASSUME Init, NEW w \in Watches
             PROVE  ref[w] = (IF w \in watches THEN 1 ELSE 0) + Cardinality(Pending(w))
  BY DEF RefCountInv
<1>1. Pending(w) = {}
  BY DEF Init, Pending
<1>2. QED
  BY <1>1, NoneCounts DEF Init

LEMMA MutterStep == TypeOK /\ MutterInv /\ [Next]_vars => MutterInv'
<1> SUFFICES ASSUME TypeOK, MutterInv, [Next]_vars PROVE MutterInv'
  OBVIOUS
<1> USE DEF MutterInv
<1>1. CASE RequestArrives
  <2> DEFINE m == Head(outbox)
  <2>1. m \in Requests
    BY <1>1 DEF RequestArrives, TypeOK
  <2>2. m.op = "add" => m.owner # NoOwner
    BY <2>1, ConstantsAssumption DEF Requests, Owners, NoOwner, ConstantsAssumption
  <2>3. QED
    BY <1>1, <2>2 DEF RequestArrives, TypeOK
<1>2. CASE MutterStarts
  BY <1>2 DEF MutterStarts
<1>3. CASE MutterExits
  BY <1>3 DEF MutterExits
<1>4. CASE \E u \in Ids : MutterFires(u)
  BY <1>4 DEF MutterFires, TypeOK
<1>5. CASE UNCHANGED mutterVars
  BY <1>5 DEF mutterVars
<1>6. Client => UNCHANGED mutterVars
  BY DEF Client, AddWatch, RemoveWatch, Dispose
<1>7. MainLoop => UNCHANGED mutterVars
  BY DEF MainLoop, OnNameAppeared, OnNameVanished, OnObjectManagerReady,
         OnObjectAdded, OnWatchAdded, CallFails, OnWatchFired, CallbackReturns,
         Discard, mutterVars
<1>8. QED
  BY <1>1, <1>2, <1>3, <1>4, <1>5, <1>6, <1>7 DEF Next, Bus, vars, mutterVars

\* Taking the next message keeps AppearInv if it starts no manager but that
\* of the instance whose appearance it reports.
LEMMA AppearTail ==
  ASSUME TypeOK, AppearInv, inbox # <<>>, inbox' = Tail(inbox),
         UNCHANGED started,
         \A g \in Owners : managers[g] = "none" =>
           \/ managers'[g] = "none"
           \/ Head(inbox).type = "appeared" /\ g = Head(inbox).owner
  PROVE  AppearInv'
<1>1. /\ Len(inbox) \in Nat \ {0}
      /\ Len(inbox') = Len(inbox) - 1
      /\ \A i \in 1..Len(inbox') : inbox'[i] = inbox[i + 1] /\ i + 1 \in 1..Len(inbox)
      /\ Head(inbox) = inbox[1] /\ 1 \in 1..Len(inbox)
      /\ \A i \in 1..Len(inbox) : inbox[i] \in Messages /\ inbox[i].owner \in Owners
  <2>1. Len(inbox) \in Nat \ {0} /\ \A i \in 1..Len(inbox) : inbox[i] \in Messages
    BY DEF TypeOK
  <2>2. \A m \in Messages : m.owner \in Owners
    BY DEF Messages
  <2>3. QED
    BY <2>1, <2>2 DEF TypeOK
<1>2. \A g \in Owners : g > started' => managers'[g] = "none"
  BY <1>1 DEF AppearInv, TypeOK, Owners
<1>3. \A i \in 1..Len(inbox') : inbox'[i].type = "appeared" =>
        /\ inbox'[i].owner <= started'
        /\ managers'[inbox'[i].owner] = "none"
  <2> SUFFICES ASSUME NEW i \in 1..Len(inbox'), inbox'[i].type = "appeared"
               PROVE  /\ inbox'[i].owner <= started'
                      /\ managers'[inbox'[i].owner] = "none"
    OBVIOUS
  <2>1. /\ inbox[i + 1].owner <= started
        /\ inbox[i + 1].owner \in Owners
        /\ managers[inbox[i + 1].owner] = "none"
    BY <1>1 DEF AppearInv
  <2>2. ~(inbox[1].type = "appeared" /\ inbox[i + 1].owner = inbox[1].owner)
    BY <1>1 DEF AppearInv
  <2>3. QED
    BY <1>1, <2>1, <2>2
<1>4. \A i, j \in 1..Len(inbox') :
        inbox'[i].type = "appeared" /\ inbox'[j].type = "appeared" /\ i # j =>
          inbox'[i].owner # inbox'[j].owner
  BY <1>1 DEF AppearInv
<1>5. QED
  BY <1>2, <1>3, <1>4 DEF AppearInv

\* So does appending a message that reports no appearance.
LEMMA AppearAppend ==
  ASSUME TypeOK, AppearInv, NEW m, m.type # "appeared",
         inbox' = Append(inbox, m), UNCHANGED <<started, managers>>
  PROVE  AppearInv'
<1>1. /\ Len(inbox) \in Nat
      /\ Len(inbox') = Len(inbox) + 1
      /\ \A i \in 1..Len(inbox) : inbox'[i] = inbox[i]
      /\ inbox'[Len(inbox) + 1] = m
  BY DEF TypeOK
<1>2. \A i \in 1..Len(inbox') : inbox'[i].type = "appeared" =>
        i \in 1..Len(inbox) /\ inbox'[i] = inbox[i]
  BY <1>1
<1>3. QED
  BY <1>2 DEF AppearInv

\* And anything that leaves the inbox alone and starts no manager.
LEMMA AppearSame ==
  ASSUME AppearInv, UNCHANGED <<inbox, started>>,
         TypeOK,
         \A g \in Owners : managers[g] = "none" => managers'[g] = "none"
  PROVE  AppearInv'
<1>1. \A i \in 1..Len(inbox) : inbox[i].owner \in Owners
  <2>1. \A m \in Messages : m.owner \in Owners
    BY DEF Messages
  <2>2. QED
    BY <2>1 DEF TypeOK
<1>2. QED
  BY <1>1 DEF AppearInv

LEMMA AppearStep == TypeOK /\ AppearInv /\ [Next]_vars => AppearInv'
<1> SUFFICES ASSUME TypeOK, AppearInv, [Next]_vars PROVE AppearInv'
  OBVIOUS
<1> USE DEF privVars, watchVars, loopVars, mutterVars
<1>1. CASE Client
  <2>1. UNCHANGED <<inbox, started, managers>>
    BY <1>1 DEF Client, AddWatch, RemoveWatch, Dispose
  <2>2. QED
    BY <2>1, AppearSame
<1>2. CASE OnNameAppeared
  <2>1. /\ inbox # <<>> /\ inbox' = Tail(inbox) /\ UNCHANGED started
        /\ Head(inbox).type = "appeared"
        /\ managers' = [managers EXCEPT ![Head(inbox).owner] = "creating"]
    BY <1>2 DEF OnNameAppeared, Receive
  <2>2. \A g \in Owners : g # Head(inbox).owner => managers'[g] = managers[g]
    BY <2>1 DEF TypeOK
  <2>3. QED
    BY <2>1, <2>2, AppearTail
<1>3. CASE OnNameVanished
  <2>1. /\ inbox # <<>> /\ inbox' = Tail(inbox) /\ UNCHANGED started
        /\ \A g \in Owners : managers[g] = "none" => managers'[g] = "none"
    BY <1>3 DEF OnNameVanished, Receive
  <2>2. QED
    BY <2>1, AppearTail
<1>4. ASSUME NEW g \in Owners, OnObjectManagerReady(g) \/ OnObjectAdded(g)
      PROVE  AppearInv'
  <2>1. /\ UNCHANGED <<inbox, started>>
        /\ managers[g] # "none"
        /\ \A h \in Owners : h # g => managers'[h] = managers[h]
    BY <1>4 DEF OnObjectManagerReady, OnObjectAdded, ConnectProxy, TypeOK
  <2>2. QED
    BY <2>1, AppearSame
<1>5. CASE OnWatchAdded \/ OnWatchFired \/ Discard
  <2>1. inbox # <<>> /\ inbox' = Tail(inbox) /\ UNCHANGED <<started, managers>>
    BY <1>5 DEF OnWatchAdded, OnWatchFired, Discard, Receive
  <2>2. QED
    BY <2>1, AppearTail
<1>6. CASE (\E w \in Watches, g \in Owners : CallFails(w, g)) \/ CallbackReturns
  <2>1. UNCHANGED <<inbox, started, managers>>
    BY <1>6 DEF CallFails, CallbackReturns
  <2>2. QED
    BY <2>1, AppearSame
<1>7. CASE MutterStarts
  <2> DEFINE g == started + 1
             m == Message("appeared", g, NoWatch, 0)
  <2>1. /\ Len(inbox) \in Nat
        /\ inbox' = Append(inbox, m)
        /\ started' = g /\ UNCHANGED managers
        /\ started \in Nat /\ g \in Owners
        /\ m.owner = g
    BY <1>7, ConstantsAssumption
       DEF MutterStarts, TypeOK, Owners, ConstantsAssumption, Message
  <2>2. /\ Len(inbox') = Len(inbox) + 1
        /\ \A i \in 1..Len(inbox) : inbox'[i] = inbox[i]
        /\ inbox'[Len(inbox) + 1] = m
    BY <2>1 DEF TypeOK
  <2>3. managers[g] = "none"
    BY <2>1 DEF AppearInv
  <2>4. \A i \in 1..Len(inbox) : inbox[i].owner \in Owners
    <3>1. \A n \in Messages : n.owner \in Owners
      BY DEF Messages
    <3>2. QED
      BY <3>1 DEF TypeOK
  <2>5. \A h \in Owners : h > started' => managers'[h] = "none"
    BY <2>1 DEF AppearInv, Owners
  <2> HIDE DEF m
  <2>6. \A i \in 1..Len(inbox') : inbox'[i].type = "appeared" =>
          /\ inbox'[i].owner <= started'
          /\ managers'[inbox'[i].owner] = "none"
    BY <2>1, <2>2, <2>3, <2>4 DEF AppearInv, Owners
  <2>7. \A i, j \in 1..Len(inbox') :
          inbox'[i].type = "appeared" /\ inbox'[j].type = "appeared" /\ i # j =>
            inbox'[i].owner # inbox'[j].owner
    BY <2>1, <2>2, <2>4 DEF AppearInv, Owners
  <2>8. QED
    BY <2>5, <2>6, <2>7 DEF AppearInv
<1>8. CASE MutterExits
  BY <1>8, AppearAppend DEF MutterExits, Message
<1>9. CASE RequestArrives
  <2>1. CASE inbox' = inbox
    BY <1>9, <2>1, AppearSame DEF RequestArrives
  <2>2. CASE inbox' # inbox
    <3>1. PICK m : inbox' = Append(inbox, m) /\ m.type # "appeared"
      BY <1>9, <2>2 DEF RequestArrives, Message
    <3>2. UNCHANGED <<started, managers>>
      BY <1>9 DEF RequestArrives
    <3>3. QED
      BY <3>1, <3>2, AppearAppend
  <2>3. QED
    BY <2>1, <2>2
<1>10. CASE \E u \in Ids : MutterFires(u)
  <2>1. PICK m : inbox' = Append(inbox, m) /\ m.type # "appeared"
    BY <1>10 DEF MutterFires, Message
  <2>2. UNCHANGED <<started, managers>>
    BY <1>10 DEF MutterFires
  <2>3. QED
    BY <2>1, <2>2, AppearAppend
<1>11. CASE UNCHANGED vars
  BY <1>11, AppearSame DEF vars
<1>12. QED
  BY <1>1, <1>2, <1>3, <1>4, <1>5, <1>6, <1>7, <1>8, <1>9, <1>10, <1>11
     DEF Next, MainLoop, Bus

LEMMA KnownStep == TypeOK /\ KnownInv /\ AppearInv /\ [Next]_vars => KnownInv'
<1> SUFFICES ASSUME TypeOK, KnownInv, AppearInv, [Next]_vars PROVE KnownInv'
  OBVIOUS
<1> USE DEF KnownInv, privVars, watchVars, loopVars, mutterVars
<1>1. ASSUME NEW w \in Watches, NEW k \in {"idle", "active"}, AddWatch(w, k)
      PROVE  KnownInv'
  <2>1. w # NoWatch
    BY ConstantsAssumption DEF ConstantsAssumption
  <2>2. QED
    BY <1>1, <2>1 DEF AddWatch, TypeOK
<1>2. ASSUME NEW w \in Watches, RemoveWatch(w)
      PROVE  KnownInv'
  BY <1>2 DEF RemoveWatch, RemoveInternal
<1>3. CASE Dispose
  BY <1>3 DEF Dispose
<1>4. CASE OnNameAppeared
  <2> DEFINE g == Head(inbox).owner
  <2>1. inbox # <<>> /\ inbox[1] = Head(inbox) /\ 1 \in 1..Len(inbox)
        /\ Head(inbox).type = "appeared" /\ g \in Owners
    BY <1>4, ReceiveType DEF OnNameAppeared, Receive, TypeOK, Messages
  <2>2. managers[g] = "none"
    BY <2>1 DEF AppearInv
  <2>3. \A h \in Owners : managers[h] = "done" => managers'[h] = "done"
    BY <1>4, <2>1, <2>2 DEF OnNameAppeared, TypeOK
  <2>4. QED
    BY <1>4, <2>3 DEF OnNameAppeared, TypeOK
<1>5. CASE OnNameVanished
  BY <1>5 DEF OnNameVanished, TypeOK
<1>6. ASSUME NEW g \in Owners, OnObjectManagerReady(g) \/ OnObjectAdded(g)
      PROVE  KnownInv'
  <2>1. /\ UNCHANGED <<watches, added, callee, block>>
        /\ managers[g] # "done"
        /\ \A h \in Owners : h # g => managers'[h] = managers[h]
    BY <1>6 DEF OnObjectManagerReady, OnObjectAdded, ConnectProxy, TypeOK
  <2>2. CASE ConnectProxy(g)
    <3>1. managers'[g] = "done" /\ proxy' = g /\ calls' = calls \cup (watches \X {g})
      BY <2>2 DEF ConnectProxy, TypeOK
    <3>2. QED
      BY <2>1, <3>1 DEF TypeOK
  <2>3. CASE ~ConnectProxy(g)
    <3>1. UNCHANGED <<proxy, calls>>
      BY <1>6, <2>3 DEF OnObjectManagerReady, OnObjectAdded
    <3>2. QED
      BY <2>1, <3>1 DEF TypeOK
  <2>4. QED
    BY <2>2, <2>3
<1>7. CASE OnWatchAdded
  BY <1>7 DEF OnWatchAdded
<1>8. CASE \E w \in Watches, g \in Owners : CallFails(w, g)
  BY <1>8 DEF CallFails
<1>9. CASE OnWatchFired
  BY <1>9 DEF OnWatchFired
<1>10. CASE CallbackReturns
  BY <1>10 DEF CallbackReturns, RemoveInternal
<1>11. CASE Discard \/ Bus
  BY <1>11 DEF Discard, Bus, MutterStarts, MutterExits, RequestArrives, MutterFires
<1>12. CASE UNCHANGED vars
  BY <1>12 DEF vars
<1>13. QED
  BY <1>1, <1>2, <1>3, <1>4, <1>5, <1>6, <1>7, <1>8, <1>9, <1>10, <1>11, <1>12
     DEF Next, MainLoop, Client

\* Taking a watch out of the table drops exactly the table's reference.
LEMMA TableUnref ==
  ASSUME TypeOK, RefCountInv, NEW w \in Watches, RemoveInternal(w), UNCHANGED calls
  PROVE  RefCountInv'
<1> SUFFICES ASSUME NEW v \in Watches
             PROVE  ref'[v] = (IF v \in watches' THEN 1 ELSE 0) + Cardinality(Pending(v)')
  BY DEF RefCountInv
<1>1. Pending(v)' = Pending(v) /\ Cardinality(Pending(v)) \in Nat
  BY CountType DEF Pending
<1>2. ref[v] = (IF v \in watches THEN 1 ELSE 0) + Cardinality(Pending(v))
  BY DEF RefCountInv
<1>3. CASE w \in watches
  BY <1>1, <1>2, <1>3 DEF RemoveInternal, Unref, TypeOK
<1>4. CASE w \notin watches
  BY <1>1, <1>2, <1>4 DEF RemoveInternal, TypeOK
<1>5. QED
  BY <1>3, <1>4

\* The end of a call drops exactly that call's reference.
LEMMA CallUnref ==
  ASSUME TypeOK, RefCountInv, NEW w \in Watches, NEW g \in Owners,
         <<w, g>> \in calls, calls' = calls \ {<<w, g>>}, UNCHANGED watches,
         ref' = [ref EXCEPT ![w] = @ - 1]
  PROVE  RefCountInv'
<1> SUFFICES ASSUME NEW v \in Watches
             PROVE  ref'[v] = (IF v \in watches' THEN 1 ELSE 0) + Cardinality(Pending(v)')
  BY DEF RefCountInv
<1>1. ref[v] = (IF v \in watches THEN 1 ELSE 0) + Cardinality(Pending(v))
      /\ Cardinality(Pending(v)) \in Nat
  BY CountType DEF RefCountInv
<1>2. CASE v = w
  <2>1. Pending(w)' = Pending(w) \ {g} /\ g \in Pending(w) /\ Pending(w) \subseteq Owners
    BY DEF Pending
  <2>2. Cardinality(Pending(w)') = Cardinality(Pending(w)) - 1
    BY <2>1, CountRemove
  <2>3. QED
    BY <1>1, <1>2, <2>2 DEF TypeOK
<1>3. CASE v # w
  <2>1. Pending(v)' = Pending(v)
    BY <1>3 DEF Pending
  <2>2. QED
    BY <1>1, <1>3, <2>1 DEF TypeOK
<1>4. QED
  BY <1>2, <1>3

\* A watch nobody refers to yet has no call in flight.
LEMMA NewWatchCount ==
  ASSUME TypeOK, KnownInv, NEW w \in Watches, w \notin added
  PROVE  Pending(w) = {} /\ w \notin watches
  BY DEF KnownInv, Pending

\* connect_proxy takes one reference per call it makes, none made before.
LEMMA ConnectCount ==
  ASSUME TypeOK, KnownInv, RefCountInv, NEW g \in Owners, managers[g] # "done",
         ConnectProxy(g), UNCHANGED watches
  PROVE  RefCountInv'
<1> SUFFICES ASSUME NEW v \in Watches
             PROVE  ref'[v] = (IF v \in watches' THEN 1 ELSE 0) + Cardinality(Pending(v)')
  BY DEF RefCountInv
<1>1. ref[v] = (IF v \in watches THEN 1 ELSE 0) + Cardinality(Pending(v))
      /\ Cardinality(Pending(v)) \in Nat
  BY CountType DEF RefCountInv
<1>2. ref'[v] = IF v \in watches THEN ref[v] + 1 ELSE ref[v]
  BY DEF ConnectProxy
<1>3. CASE v \in watches
  <2>1. Pending(v)' = Pending(v) \cup {g} /\ Pending(v) \subseteq Owners
    BY <1>3 DEF Pending, ConnectProxy
  <2>2. g \notin Pending(v)
    BY DEF Pending, KnownInv
  <2>3. Cardinality(Pending(v)') = Cardinality(Pending(v)) + 1
    BY <2>1, <2>2, CountAdd
  <2>4. QED
    BY <1>1, <1>2, <1>3, <2>3 DEF TypeOK
<1>4. CASE v \notin watches
  <2>1. Pending(v)' = Pending(v)
    BY <1>4 DEF Pending, ConnectProxy
  <2>2. QED
    BY <1>1, <1>2, <1>4, <2>1
<1>5. QED
  BY <1>3, <1>4

LEMMA RefCountStep == TypeOK /\ KnownInv /\ RefCountInv /\ [Next]_vars => RefCountInv'
<1> SUFFICES ASSUME TypeOK, KnownInv, RefCountInv, [Next]_vars PROVE RefCountInv'
  OBVIOUS
<1> USE DEF privVars, watchVars, loopVars, mutterVars
<1>1. ASSUME NEW w \in Watches, NEW k \in {"idle", "active"}, AddWatch(w, k)
      PROVE  RefCountInv'
  <2> SUFFICES ASSUME NEW v \in Watches
               PROVE  ref'[v] = (IF v \in watches' THEN 1 ELSE 0) + Cardinality(Pending(v)')
    BY DEF RefCountInv
  <2>1. Pending(w) = {} /\ w \notin watches /\ watches' = watches \cup {w}
    BY <1>1, NewWatchCount DEF AddWatch
  <2>2. CASE v # w
    <3>1. Pending(v)' = Pending(v) /\ ref'[v] = ref[v]
      BY <1>1, <2>2 DEF AddWatch, Pending, TypeOK
    <3>2. QED
      BY <2>1, <2>2, <3>1 DEF RefCountInv
  <2>3. CASE v = w /\ proxy = NoOwner
    <3>1. Pending(w)' = {} /\ ref'[w] = 1
      BY <1>1, <2>1, <2>3 DEF AddWatch, Pending, TypeOK
    <3>2. QED
      BY <2>1, <2>3, <3>1, NoneCounts
  <2>4. CASE v = w /\ proxy # NoOwner
    <3>1. proxy \in Owners
      BY <2>4 DEF TypeOK
    <3>2. Pending(w)' = {} \cup {proxy} /\ ref'[w] = 2
      BY <1>1, <2>1, <2>4, <3>1 DEF AddWatch, Pending, TypeOK
    <3>3. Cardinality(Pending(w)') = 0 + 1
      BY <3>1, <3>2, NoneCounts, CountAdd
    <3>4. QED
      BY <2>1, <2>4, <3>2, <3>3
  <2>5. QED
    BY <2>2, <2>3, <2>4
<1>2. ASSUME NEW w \in Watches, RemoveWatch(w)
      PROVE  RefCountInv'
  BY <1>2, TableUnref DEF RemoveWatch
<1>3. CASE Dispose
  <2> SUFFICES ASSUME NEW v \in Watches
               PROVE  ref'[v] = (IF v \in watches' THEN 1 ELSE 0) + Cardinality(Pending(v)')
    BY DEF RefCountInv
  <2>1. Pending(v)' = Pending(v) /\ Cardinality(Pending(v)) \in Nat
    BY <1>3, CountType DEF Dispose, Pending
  <2>2. QED
    BY <1>3, <2>1 DEF Dispose, RefCountInv
<1>4. ASSUME NEW g \in Owners, OnObjectManagerReady(g) \/ OnObjectAdded(g)
      PROVE  RefCountInv'
  <2>1. UNCHANGED watches /\ managers[g] # "done"
    BY <1>4 DEF OnObjectManagerReady, OnObjectAdded
  <2>2. CASE ConnectProxy(g)
    BY <2>1, <2>2, ConnectCount
  <2>3. CASE ~ConnectProxy(g)
    <3>1. UNCHANGED <<ref, calls>>
      BY <1>4, <2>3 DEF OnObjectManagerReady, OnObjectAdded
    <3>2. QED
      BY <2>1, <3>1 DEF RefCountInv, Pending
  <2>4. QED
    BY <2>2, <2>3
<1>5. CASE OnWatchAdded
  <2> DEFINE m == Head(inbox)
  <2>1. m.watch \in Watches /\ m.owner \in Owners
    BY <1>5, ReceiveType DEF OnWatchAdded, Receive, Messages
  <2>2. CASE <<m.watch, m.owner>> \in calls
    <3>1. ref' = [ref EXCEPT ![m.watch] = @ - 1]
      BY <1>5, <2>2 DEF OnWatchAdded, WatchAdded, WatchNotAdded, Unref
    <3>2. QED
      BY <1>5, <2>1, <2>2, <3>1, CallUnref DEF OnWatchAdded
  <2>3. CASE <<m.watch, m.owner>> \notin calls
    <3>1. UNCHANGED <<watches, ref, calls>>
      BY <1>5, <2>3 DEF OnWatchAdded
    <3>2. QED
      BY <3>1 DEF RefCountInv, Pending
  <2>4. QED
    BY <2>2, <2>3
<1>6. ASSUME NEW w \in Watches, NEW g \in Owners, CallFails(w, g)
      PROVE  RefCountInv'
  BY <1>6, CallUnref DEF CallFails, WatchNotAdded, Unref
<1>7. CASE CallbackReturns
  <2>1. UNCHANGED calls /\ block \in Watches
    BY <1>7, ConstantsAssumption DEF CallbackReturns, TypeOK, KnownInv, ConstantsAssumption
  <2>2. CASE RemoveInternal(block)
    BY <2>1, <2>2, TableUnref
  <2>3. CASE UNCHANGED <<watches, ref, byUpstream>>
    BY <2>1, <2>3 DEF RefCountInv, Pending
  <2>4. QED
    BY <1>7, <2>2, <2>3 DEF CallbackReturns
<1>8. CASE UNCHANGED <<watches, ref, calls>>
  BY <1>8 DEF RefCountInv, Pending
<1>9. ASSUME OnNameAppeared \/ OnNameVanished \/ OnWatchFired \/ Discard \/ Bus
             \/ UNCHANGED vars
      PROVE  UNCHANGED <<watches, ref, calls>>
  BY <1>9 DEF OnNameAppeared, OnNameVanished, OnWatchFired, Discard, Bus,
              MutterStarts, MutterExits, RequestArrives, MutterFires, vars
<1>10. QED
  BY <1>1, <1>2, <1>3, <1>4, <1>5, <1>6, <1>7, <1>8, <1>9 DEF Next, MainLoop, Client

-----------------------------------------------------------------------------
LEMMA Inductive == Spec => []IInv
<1>1. Init => IInv
  BY TypeInit, StructureInit, RefCountInit DEF IInv
<1>2. IInv /\ [Next]_vars => IInv'
  BY TypeStep, KnownStep, AppearStep, MutterStep, RefCountStep DEF IInv
<1>3. QED
  BY <1>1, <1>2, PTL DEF Spec

\* Every reachable state is well typed, however often Mutter restarts.
THEOREM TypeCorrect == Spec => []TypeOK
<1>1. IInv => TypeOK
  BY DEF IInv
<1>2. QED
  BY <1>1, Inductive, PTL

\* idle_monitor_watch_ref and _unref balance: a watch lives exactly as long as
\* the table holds it or a call of it is in flight.
THEOREM RefCountsBalance == Spec => []RefCountInv
<1>1. IInv => RefCountInv
  BY DEF IInv
<1>2. QED
  BY <1>1, Inductive, PTL

\* So on_watch_added, which is handed a bare pointer, never gets a freed watch.
THEOREM CallsHoldTheirWatch ==
  Spec => [](\A w \in Watches : Pending(w) # {} => Live(w))
<1>1. IInv => (\A w \in Watches : Pending(w) # {} => Live(w))
  <2> SUFFICES ASSUME IInv, NEW w \in Watches, NEW g \in Pending(w)
               PROVE  ref[w] > 0
    BY DEF Live
  <2>1. Pending(w) \ {g} \subseteq Owners /\ g \in Owners /\ g \notin Pending(w) \ {g}
        /\ Pending(w) = (Pending(w) \ {g}) \cup {g}
    BY DEF Pending
  <2>2. Cardinality(Pending(w)) = Cardinality(Pending(w) \ {g}) + 1
    BY <2>1, CountAdd
  <2>3. Cardinality(Pending(w) \ {g}) \in Nat
    BY <2>1, OwnersFinite
  <2>4. QED
    BY <2>2, <2>3 DEF IInv, RefCountInv
<1>2. QED
  BY <1>1, Inductive, PTL

-----------------------------------------------------------------------------
(* What on_watch_fired points to while it calls the client.                *)

\* Where freed blocks are not reused at once, it still means the watch it called.
BlockInv == block = callee

LEMMA BlockStep ==
  ASSUME ReuseFreed = FALSE
  PROVE  BlockInv /\ [Next]_vars => BlockInv'
<1> USE DEF BlockInv, privVars, watchVars, loopVars, mutterVars
<1>1. BlockInv /\ Client => BlockInv'
  BY DEF Client, AddWatch, RemoveWatch, Dispose
<1>2. BlockInv /\ MainLoop => BlockInv'
  BY DEF MainLoop, OnNameAppeared, OnNameVanished, OnObjectManagerReady,
         OnObjectAdded, OnWatchAdded, CallFails, OnWatchFired, CallbackReturns,
         Discard
<1>3. BlockInv /\ Bus => BlockInv'
  BY DEF Bus, MutterStarts, MutterExits, RequestArrives, MutterFires
<1>4. QED
  BY <1>1, <1>2, <1>3 DEF Next, vars

-----------------------------------------------------------------------------
(* The index of the watches: what the monitor, the bus and Mutter together *)
(* know.  Messages are in order, and that order is what keeps an instance's *)
(* ids apart from those of the one before it.                              *)

\* Where the name watcher's news, and what an instance sent, stand in the inbox.
At(i, type, g) ==
  i \in 1..Len(inbox) /\ inbox[i].type = type /\ inbox[i].owner = g
Asked(k, g, w) ==
  /\ k \in 1..Len(outbox)
  /\ outbox[k].op = "add" /\ outbox[k].owner = g /\ outbox[k].watch = w
Answered(i, g, w) ==
  /\ i \in 1..Len(inbox)
  /\ inbox[i].type \in {"added", "failed"} /\ inbox[i].owner = g /\ inbox[i].watch = w

\* The news of the bus name alternates, ends with the present owner, and
\* encloses what that owner sent.
NameInv ==
  /\ owner # NoOwner =>
       /\ nameOwner = owner \/ \E j \in Nat : At(j, "appeared", owner)
       /\ \A j \in Nat : ~At(j, "vanished", owner)
  /\ nameOwner # NoOwner /\ nameOwner # owner => \E j \in Nat : At(j, "vanished", nameOwner)
  /\ \A i \in Nat, type \in {"vanished", "added", "fired"}, g \in Owners :
       At(i, type, g) =>
         nameOwner = g \/ \E j \in Nat : j < i /\ At(j, "appeared", g)
  /\ \A i \in Nat, g \in Owners : At(i, "appeared", g) /\ nameOwner # NoOwner =>
       \E j \in Nat : j < i /\ At(j, "vanished", nameOwner)
  /\ \A i, j \in Nat, type \in {"appeared", "vanished", "added", "fired"}, g \in Owners :
       i < j /\ At(i, "vanished", g) => ~At(j, type, g)
  /\ \A i, k \in Nat, g, h \in Owners :
       i < k /\ At(i, "appeared", g) /\ At(k, "appeared", h) =>
         \E j \in Nat : i < j /\ j < k /\ At(j, "vanished", g)
  /\ \A i \in Nat, g \in Owners : At(i, "appeared", g) /\ g # owner =>
       \E j \in Nat : i < j /\ At(j, "vanished", g)

\* Only the instances started so far sent anything, only those whose object
\* manager is done were asked anything.
MessagesInv ==
  /\ \A i \in Nat, type \in {"appeared", "vanished", "added", "fired", "failed"}, g \in Owners :
       At(i, type, g) => g <= started
  /\ \A i \in Nat, g \in Owners, w \in Watches : Answered(i, g, w) => managers[g] = "done"
RequestsInv ==
  \A k \in Nat, g \in Owners, w \in Watches :
    Asked(k, g, w) => managers[g] = "done" /\ w \in added
OwnersInv ==
  /\ owner <= started /\ nameOwner <= started
  /\ nameOwner # NoOwner => managers[nameOwner] # "none"
  /\ disposed => watches = {}
SentInv == MessagesInv /\ RequestsInv /\ OwnersInv

\* Calls are answered in the order in which they were made, as far as the
\* instance that is asked is there.
ReplyInv ==
  /\ \A w \in Watches, g \in Owners : <<w, g>> \in calls =>
       (\E k \in Nat : Asked(k, g, w)) \/ (\E i \in Nat : Answered(i, g, w))
  /\ \A j \in Nat, w \in Watches, g, h \in Owners :
       At(j, "added", h) /\ Answered(j, h, w) /\ <<w, g>> \in calls /\ g # h =>
         \E i \in Nat : i < j /\ Answered(i, g, w)
  /\ \A k \in Nat, w \in Watches, g, h \in Owners :
       Asked(k, h, w) /\ h = owner /\ <<w, g>> \in calls /\ g # h =>
         (\E j \in Nat : j < k /\ Asked(j, g, w)) \/ (\E i \in Nat : Answered(i, g, w))

\* The monitor's proxy is for the instance it last heard of, as far as a watch
\* is registered or is about to be.
ProxyInv ==
  /\ \A g \in Owners : managers[g] = "waiting" => nameOwner = g
  /\ \A w \in Watches, g \in Owners : <<w, g>> \in calls /\ nameOwner = g => proxy = g
  /\ \A w \in watches : upstream[w] # 0 => nameOwner = proxy /\ proxy # NoOwner

\* Some of the process, the bus and the Mutters knows id u of instance g to be w's.
Told(g, u, w) ==
  \E i \in 1..Len(inbox) :
    /\ inbox[i].type \in {"added", "fired"}
    /\ inbox[i].owner = g /\ inbox[i].id = u /\ inbox[i].watch = w
Given(g, u, w) ==
  \/ Told(g, u, w)
  \/ w \in watches /\ upstream[w] = u /\ proxy = g
  \/ registered[u] = w /\ owner = g

\* An instance gives each id to one watch.
IdInv ==
  \A g \in Owners, u \in Ids, w \in Watches : Given(g, u, w) =>
    /\ w \in added /\ g <= started
    /\ g = owner => u < nextId
    /\ \A v \in Watches : Given(g, u, v) => v = w

\* An id that is to be removed belongs to no watch the client still has.
Removal(k, g, u) ==
  /\ k \in 1..Len(outbox)
  /\ outbox[k].op = "remove" /\ outbox[k].owner = g /\ outbox[k].id = u
RemoveInv ==
  \A k \in Nat, g \in Owners \cup {NoOwner}, u \in Ids : Removal(k, g, u) =>
    /\ g # NoOwner /\ g <= started
    /\ g = owner => u < nextId
    /\ \A w \in Watches : Given(g, u, w) => w \notin watches

UnaddedInv == \A w \in Watches : w \notin added => upstream[w] = 0

BusInv ==
  /\ ~disposed => NameInv /\ ReplyInv /\ ProxyInv
  /\ SentInv /\ IdInv /\ RemoveInv /\ UnaddedInv /\ IndexInv

LEMMA AtTail ==
  ASSUME TypeOK, inbox # <<>>, inbox' = Tail(inbox)
  PROVE  /\ \A i \in Nat : \A type, g : At(i, type, g)' => At(i + 1, type, g)
         /\ \A i \in Nat : \A type, g : At(i, type, g) /\ i # 1 =>
              i - 1 \in Nat /\ At(i - 1, type, g)'
         /\ \A i \in Nat : \A g, w : Answered(i, g, w)' => Answered(i + 1, g, w)
         /\ \A i \in Nat : \A g, w : Answered(i, g, w) /\ i # 1 =>
              i - 1 \in Nat /\ Answered(i - 1, g, w)'
<1>1. /\ Len(inbox) \in Nat \ {0}
      /\ Len(inbox') = Len(inbox) - 1
      /\ \A i \in 1..Len(inbox') : inbox'[i] = inbox[i + 1]
  BY DEF TypeOK
<1>. QED BY <1>1 DEF At, Answered

LEMMA AtAppend ==
  ASSUME TypeOK, NEW m, inbox' = Append(inbox, m)
  PROVE  /\ Len(inbox) \in Nat
         /\ \A i \in Nat : \A type, g : At(i, type, g) => i <= Len(inbox) /\ At(i, type, g)'
         /\ \A i \in Nat : \A type, g : At(i, type, g)' =>
              At(i, type, g) \/ (i = Len(inbox) + 1 /\ m.type = type /\ m.owner = g)
         /\ \A i \in Nat : i = Len(inbox) + 1 => At(i, m.type, m.owner)'
         /\ \A i \in Nat : \A g, w : Answered(i, g, w) => i <= Len(inbox) /\ Answered(i, g, w)'
         /\ \A i \in Nat : \A g, w : Answered(i, g, w)' =>
              \/ Answered(i, g, w)
              \/ /\ i = Len(inbox) + 1 /\ m.type \in {"added", "failed"}
                 /\ m.owner = g /\ m.watch = w
         /\ m.type \in {"added", "failed"} =>
              \A i \in Nat : i = Len(inbox) + 1 => Answered(i, m.owner, m.watch)'
<1>1. /\ Len(inbox) \in Nat
      /\ Len(inbox') = Len(inbox) + 1
      /\ \A i \in 1..Len(inbox) : inbox'[i] = inbox[i]
      /\ inbox'[Len(inbox) + 1] = m
  BY DEF TypeOK
<1>. QED BY <1>1 DEF At, Answered

LEMMA HeadAt ==
  ASSUME TypeOK, inbox # <<>>
  PROVE  /\ At(1, Head(inbox).type, Head(inbox).owner)
         /\ \A type, g : At(1, type, g) => type = Head(inbox).type /\ g = Head(inbox).owner
         /\ Head(inbox).owner \in Owners
<1>1. Head(inbox) = inbox[1] /\ 1 \in 1..Len(inbox) /\ Head(inbox) \in Messages
  BY DEF TypeOK
<1>. QED BY <1>1 DEF At, Messages

\* The owners are numbers.
LEMMA OwnerTypes ==
  ASSUME TypeOK
  PROVE  /\ owner \in Nat /\ nameOwner \in Nat /\ proxy \in Nat /\ started \in Nat
         /\ Owners \subseteq Nat \ {NoOwner}
         /\ NoOwner = 0
BY ConstantsAssumption DEF TypeOK, Owners, NoOwner, ConstantsAssumption

\* Nothing was received and the name has the same owner.
LEMMA NameSame ==
  ASSUME NameInv, UNCHANGED <<inbox, owner, nameOwner>>
  PROVE  NameInv'
BY DEF NameInv, At

\* The next message is handled.
LEMMA NameTail ==
  ASSUME TypeOK, NameInv, inbox # <<>>, inbox' = Tail(inbox), UNCHANGED owner,
         \/ Head(inbox).type = "appeared" /\ nameOwner' = Head(inbox).owner
         \/ Head(inbox).type = "vanished" /\ nameOwner' = NoOwner
         \/ Head(inbox).type \notin {"appeared", "vanished"} /\ nameOwner' = nameOwner
  PROVE  NameInv'
<1>0. PICK h \in Owners : h = Head(inbox).owner
  BY HeadAt
<1>1. At(1, Head(inbox).type, h)
      /\ \A type, g : At(1, type, g) => type = Head(inbox).type /\ g = h
  BY <1>0, HeadAt
<1>2. owner \in Nat /\ nameOwner \in Nat /\ NoOwner = 0 /\ Owners \subseteq Nat \ {0}
  BY OwnerTypes
<1>3. /\ \A i \in Nat : \A type, g : At(i, type, g)' => At(i + 1, type, g)
      /\ \A i \in Nat : \A type, g : At(i, type, g) /\ i # 1 =>
              i - 1 \in Nat /\ At(i - 1, type, g)'
  BY AtTail
<1>4. ~At(0, "vanished", nameOwner) /\ \A i \in Nat : \A type, g : At(i, type, g) => i >= 1
  BY DEF At
<1>a. nameOwner \in Owners \cup {NoOwner} /\ owner \in Owners \cup {NoOwner}
  BY DEF TypeOK
<1>5. CASE Head(inbox).type = "appeared" /\ nameOwner' = h
  <2>1. nameOwner = NoOwner
    BY <1>1, <1>4, <1>5, <1>2 DEF NameInv
  <2>2. owner # NoOwner =>
          /\ nameOwner' = owner \/ \E j \in Nat : At(j, "appeared", owner)'
          /\ \A j \in Nat : ~At(j, "vanished", owner)'
    BY <1>1, <1>2, <1>3, <1>5, <2>1 DEF NameInv
  <2>3. ASSUME h # owner PROVE \E j \in Nat : At(j, "vanished", h)'
    <3>1. PICK j \in Nat : 1 < j /\ At(j, "vanished", h)
      BY <1>1, <1>5, <2>3 DEF NameInv
    <3>. QED BY <1>3, <3>1
  <2>4. ASSUME NEW i \in Nat, NEW type \in {"vanished", "added", "fired"}, NEW g \in Owners,
               At(i, type, g)'
        PROVE  h = g \/ \E j \in Nat : j < i /\ At(j, "appeared", g)'
    <3>1. At(i + 1, type, g)
      BY <1>3, <2>4
    <3>2. PICK j \in Nat : j < i + 1 /\ At(j, "appeared", g)
      BY <1>2, <2>1, <3>1 DEF NameInv
    <3>3. j = 1 => h = g
      BY <1>1, <3>2
    <3>4. j # 1 => j - 1 \in Nat /\ j - 1 < i /\ At(j - 1, "appeared", g)'
      BY <1>3, <3>2
    <3>. QED BY <3>3, <3>4
  <2>5. ASSUME NEW i \in Nat, NEW g \in Owners, At(i, "appeared", g)'
        PROVE  \E j \in Nat : j < i /\ At(j, "vanished", h)'
    <3>1. At(i + 1, "appeared", g) /\ 1 < i + 1
      BY <1>3, <2>5 DEF At
    <3>2. PICK j \in Nat : 1 < j /\ j < i + 1 /\ At(j, "vanished", h)
      BY <1>1, <1>5, <3>1 DEF NameInv
    <3>3. j - 1 \in Nat /\ j - 1 < i /\ At(j - 1, "vanished", h)'
      BY <1>3, <3>2
    <3>. QED BY <3>3
  <2>6. \A i, j \in Nat, type \in {"appeared", "vanished", "added", "fired"}, g \in Owners :
       i < j /\ At(i, "vanished", g)' => ~At(j, type, g)'
    BY <1>3 DEF NameInv
  <2>7. \A i, k \in Nat, g, f \in Owners :
       i < k /\ At(i, "appeared", g)' /\ At(k, "appeared", f)' =>
         \E j \in Nat : i < j /\ j < k /\ At(j, "vanished", g)'
    BY <1>3, <1>4 DEF NameInv
  <2>8. \A i \in Nat, g \in Owners : At(i, "appeared", g)' /\ g # owner =>
       \E j \in Nat : i < j /\ At(j, "vanished", g)'
    BY <1>3, <1>4 DEF NameInv
  <2>. QED BY <1>1, <1>5, <2>2, <2>3, <2>4, <2>5, <2>6, <2>7, <2>8 DEF NameInv
<1>6. CASE Head(inbox).type = "vanished" /\ nameOwner' = NoOwner
  <2>1. nameOwner = h /\ h # owner /\ \A i \in Nat, type \in {"appeared", "vanished", "added", "fired"} :
          1 < i => ~At(i, type, h)
    BY <1>1, <1>2, <1>4, <1>6 DEF NameInv
  <2>2. owner # NoOwner =>
          /\ \E j \in Nat : At(j, "appeared", owner)'
          /\ \A j \in Nat : ~At(j, "vanished", owner)'
    BY <1>1, <1>2, <1>3, <1>6, <2>1 DEF NameInv
  <2>4. ASSUME NEW i \in Nat, NEW type \in {"vanished", "added", "fired"}, NEW g \in Owners,
               At(i, type, g)'
        PROVE  \E j \in Nat : j < i /\ At(j, "appeared", g)'
    <3>1. At(i + 1, type, g) /\ 1 < i + 1
      BY <1>3, <2>4 DEF At
    <3>2. g # h
      BY <2>1, <3>1
    <3>3. PICK j \in Nat : j < i + 1 /\ At(j, "appeared", g)
      BY <2>1, <3>1, <3>2 DEF NameInv
    <3>4. j - 1 \in Nat /\ j - 1 < i /\ At(j - 1, "appeared", g)'
      BY <1>1, <1>3, <1>6, <3>3
    <3>. QED BY <3>4
  <2>6. \A i, j \in Nat, type \in {"appeared", "vanished", "added", "fired"}, g \in Owners :
       i < j /\ At(i, "vanished", g)' => ~At(j, type, g)'
    BY <1>3 DEF NameInv
  <2>7. \A i, k \in Nat, g, f \in Owners :
       i < k /\ At(i, "appeared", g)' /\ At(k, "appeared", f)' =>
         \E j \in Nat : i < j /\ j < k /\ At(j, "vanished", g)'
    BY <1>3, <1>4 DEF NameInv
  <2>8. \A i \in Nat, g \in Owners : At(i, "appeared", g)' /\ g # owner =>
       \E j \in Nat : i < j /\ At(j, "vanished", g)'
    BY <1>3, <1>4 DEF NameInv
  <2>. QED BY <1>2, <1>6, <2>2, <2>4, <2>6, <2>7, <2>8 DEF NameInv
<1>7. CASE Head(inbox).type \notin {"appeared", "vanished"} /\ nameOwner' = nameOwner
  <2>1. \A i \in Nat : \A type \in {"appeared", "vanished"} : \A g : At(i, type, g) =>
          i - 1 \in Nat /\ 1 < i /\ At(i - 1, type, g)'
    BY <1>1, <1>3, <1>4, <1>7
  <2>2. owner # NoOwner =>
          /\ nameOwner' = owner \/ \E j \in Nat : At(j, "appeared", owner)'
          /\ \A j \in Nat : ~At(j, "vanished", owner)'
    BY <1>3, <1>7, <2>1 DEF NameInv
  <2>3. nameOwner # NoOwner /\ nameOwner # owner =>
          \E j \in Nat : At(j, "vanished", nameOwner)'
    BY <1>7, <2>1 DEF NameInv
  <2>4. ASSUME NEW i \in Nat, NEW type \in {"vanished", "added", "fired"}, NEW g \in Owners,
               At(i, type, g)'
        PROVE  nameOwner = g \/ \E j \in Nat : j < i /\ At(j, "appeared", g)'
    <3>1. At(i + 1, type, g)
      BY <1>3, <2>4
    <3>2. CASE \E j \in Nat : j < i + 1 /\ At(j, "appeared", g)
      BY <2>1, <3>2
    <3>. QED BY <3>1, <3>2 DEF NameInv
  <2>5. ASSUME NEW i \in Nat, NEW g \in Owners, At(i, "appeared", g)', nameOwner # NoOwner
        PROVE  \E j \in Nat : j < i /\ At(j, "vanished", nameOwner)'
    <3>1. At(i + 1, "appeared", g)
      BY <1>3, <2>5
    <3>2. PICK j \in Nat : j < i + 1 /\ At(j, "vanished", nameOwner)
      BY <2>5, <3>1 DEF NameInv
    <3>. QED BY <1>7, <2>1, <3>2
  <2>6. \A i, j \in Nat, type \in {"appeared", "vanished", "added", "fired"}, g \in Owners :
       i < j /\ At(i, "vanished", g)' => ~At(j, type, g)'
    BY <1>3 DEF NameInv
  <2>7. \A i, k \in Nat, g, f \in Owners :
       i < k /\ At(i, "appeared", g)' /\ At(k, "appeared", f)' =>
         \E j \in Nat : i < j /\ j < k /\ At(j, "vanished", g)'
    BY <1>3, <1>4 DEF NameInv
  <2>8. \A i \in Nat, g \in Owners : At(i, "appeared", g)' /\ g # owner =>
       \E j \in Nat : i < j /\ At(j, "vanished", g)'
    BY <1>3, <1>4 DEF NameInv
  <2>. QED BY <1>7, <2>2, <2>3, <2>4, <2>5, <2>6, <2>7, <2>8 DEF NameInv
<1>. QED BY <1>0, <1>5, <1>6, <1>7

\* Another message from the present owner, or a reply in the name of one that
\* is gone.
LEMMA NameAppend ==
  ASSUME TypeOK, NameInv, NEW m, inbox' = Append(inbox, m), UNCHANGED <<owner, nameOwner>>,
         \/ m.type \in {"added", "fired"} /\ m.owner = owner /\ owner # NoOwner
         \/ m.type = "failed"
  PROVE  NameInv'
<1>1. /\ Len(inbox) \in Nat
      /\ \A i \in Nat : \A type, g : At(i, type, g) => i <= Len(inbox) /\ At(i, type, g)'
      /\ \A i \in Nat : \A type, g : At(i, type, g)' =>
           At(i, type, g) \/ (i = Len(inbox) + 1 /\ m.type = type /\ m.owner = g)
  BY AtAppend
<1>2. \A i \in Nat : \A type \in {"appeared", "vanished"} : \A g :
        At(i, type, g)' => At(i, type, g)
  BY <1>1
<1>3. owner # NoOwner =>
        /\ nameOwner' = owner \/ \E j \in Nat : At(j, "appeared", owner)'
        /\ \A j \in Nat : ~At(j, "vanished", owner)'
  BY <1>1, <1>2 DEF NameInv
<1>4. nameOwner # NoOwner /\ nameOwner # owner =>
        \E j \in Nat : At(j, "vanished", nameOwner)'
  BY <1>1 DEF NameInv
<1>5. ASSUME NEW i \in Nat, NEW type \in {"vanished", "added", "fired"}, NEW g \in Owners,
             At(i, type, g)'
      PROVE  nameOwner = g \/ \E j \in Nat : j < i /\ At(j, "appeared", g)'
  BY <1>1, <1>5 DEF NameInv
<1>6. \A i \in Nat, g \in Owners : At(i, "appeared", g)' /\ nameOwner # NoOwner =>
        \E j \in Nat : j < i /\ At(j, "vanished", nameOwner)'
  BY <1>1, <1>2 DEF NameInv
<1>7. \A i, j \in Nat, type \in {"appeared", "vanished", "added", "fired"}, g \in Owners :
        i < j /\ At(i, "vanished", g)' => ~At(j, type, g)'
  BY <1>1, <1>2 DEF NameInv
<1>8. \A i, k \in Nat, g, f \in Owners :
        i < k /\ At(i, "appeared", g)' /\ At(k, "appeared", f)' =>
          \E j \in Nat : i < j /\ j < k /\ At(j, "vanished", g)'
  BY <1>1, <1>2 DEF NameInv
<1>9. \A i \in Nat, g \in Owners : At(i, "appeared", g)' /\ g # owner =>
        \E j \in Nat : i < j /\ At(j, "vanished", g)'
  BY <1>1, <1>2 DEF NameInv
<1>. QED BY <1>3, <1>4, <1>5, <1>6, <1>7, <1>8, <1>9 DEF NameInv

LEMMA NameMutterStarts == TypeOK /\ SentInv /\ NameInv /\ MutterStarts => NameInv'
<1> SUFFICES ASSUME TypeOK, SentInv, NameInv, MutterStarts PROVE NameInv'
  OBVIOUS
<1>0. PICK f \in Owners : f = started + 1 /\ f \in Nat /\ f # NoOwner
  BY ConstantsAssumption DEF MutterStarts, TypeOK, Owners, NoOwner, ConstantsAssumption
<1>1. /\ inbox' = Append(inbox, Message("appeared", f, NoWatch, 0))
      /\ owner = NoOwner /\ owner' = f /\ nameOwner' = nameOwner
  BY <1>0 DEF MutterStarts, mutterVars
<1>2. /\ Len(inbox) \in Nat
      /\ \A i \in Nat : \A type, g : At(i, type, g) => i <= Len(inbox) /\ At(i, type, g)'
      /\ \A i \in Nat : \A type, g : At(i, type, g)' =>
           At(i, type, g) \/ (i = Len(inbox) + 1 /\ type = "appeared" /\ g = f)
      /\ \A i \in Nat : i = Len(inbox) + 1 => At(i, "appeared", f)'
  BY <1>1, AtAppend DEF Message
<1>3. \A i \in Nat, type \in {"appeared", "vanished", "added", "fired", "failed"} : ~At(i, type, f)
  BY <1>0, OwnerTypes DEF SentInv, MessagesInv
<1>4. (\E j \in Nat : At(j, "appeared", f)') /\ \A j \in Nat : ~At(j, "vanished", f)'
  BY <1>2, <1>3
<1>5. nameOwner # NoOwner => \E j \in Nat : At(j, "vanished", nameOwner)'
  BY <1>1, <1>2 DEF NameInv
<1>6. \A i \in Nat, type \in {"vanished", "added", "fired"}, g \in Owners :
       At(i, type, g)' =>
         nameOwner = g \/ \E j \in Nat : j < i /\ At(j, "appeared", g)'
  BY <1>2 DEF NameInv
<1>7. \A i \in Nat, g \in Owners : At(i, "appeared", g)' /\ nameOwner # NoOwner =>
        \E j \in Nat : j < i /\ At(j, "vanished", nameOwner)'
  <2>1. nameOwner # NoOwner => \E j \in Nat : j <= Len(inbox) /\ At(j, "vanished", nameOwner)'
    BY <1>1, <1>2 DEF NameInv
  <2>. QED BY <1>1, <1>2, <2>1 DEF NameInv
<1>8. \A i, j \in Nat, type \in {"appeared", "vanished", "added", "fired"}, g \in Owners :
        i < j /\ At(i, "vanished", g)' => ~At(j, type, g)'
  BY <1>2, <1>3 DEF NameInv
<1>9. \A i, k \in Nat, g, h \in Owners :
        i < k /\ At(i, "appeared", g)' /\ At(k, "appeared", h)' =>
          \E j \in Nat : i < j /\ j < k /\ At(j, "vanished", g)'
  <2> SUFFICES ASSUME NEW i \in Nat, NEW k \in Nat, NEW g \in Owners, NEW h \in Owners,
                      i < k, At(i, "appeared", g)', At(k, "appeared", h)'
               PROVE  \E j \in Nat : i < j /\ j < k /\ At(j, "vanished", g)'
    OBVIOUS
  <2>1. CASE At(k, "appeared", h)
    BY <1>2, <2>1 DEF NameInv
  <2>2. CASE k = Len(inbox) + 1
    <3>1. At(i, "appeared", g) /\ g # owner
      BY <1>1, <1>2, <2>2, OwnerTypes
    <3>2. PICK j \in Nat : i < j /\ At(j, "vanished", g)
      BY <3>1 DEF NameInv
    <3>. QED BY <1>2, <2>2, <3>2
  <2>. QED BY <1>2, <2>1, <2>2
<1>10. \A i \in Nat, g \in Owners : At(i, "appeared", g)' /\ g # f =>
        \E j \in Nat : i < j /\ At(j, "vanished", g)'
  BY <1>1, <1>2, OwnerTypes DEF NameInv
<1>. QED BY <1>1, <1>4, <1>5, <1>6, <1>7, <1>8, <1>9, <1>10 DEF NameInv

LEMMA NameMutterExits == TypeOK /\ NameInv /\ MutterExits => NameInv'
<1> SUFFICES ASSUME TypeOK, NameInv, MutterExits PROVE NameInv'
  OBVIOUS
<1>0. PICK f \in Owners : f = owner /\ f # NoOwner
  BY DEF MutterExits, TypeOK
<1>1. /\ inbox' = Append(inbox, Message("vanished", f, NoWatch, 0))
      /\ owner' = NoOwner /\ nameOwner' = nameOwner
  BY <1>0 DEF MutterExits
<1>2. /\ Len(inbox) \in Nat
      /\ \A i \in Nat : \A type, g : At(i, type, g) => i <= Len(inbox) /\ At(i, type, g)'
      /\ \A i \in Nat : \A type, g : At(i, type, g)' =>
           At(i, type, g) \/ (i = Len(inbox) + 1 /\ type = "vanished" /\ g = f)
      /\ \A i \in Nat : i = Len(inbox) + 1 => At(i, "vanished", f)'
  BY <1>1, AtAppend DEF Message
<1>3. \A j \in Nat : ~At(j, "vanished", f)
  BY <1>0 DEF NameInv
<1>4. nameOwner # NoOwner => \E j \in Nat : At(j, "vanished", nameOwner)'
  BY <1>0, <1>1, <1>2 DEF NameInv
<1>5. \A i \in Nat, type \in {"vanished", "added", "fired"}, g \in Owners :
       At(i, type, g)' =>
         nameOwner = g \/ \E j \in Nat : j < i /\ At(j, "appeared", g)'
  BY <1>0, <1>2 DEF NameInv
<1>6. \A i \in Nat, g \in Owners : At(i, "appeared", g)' /\ nameOwner # NoOwner =>
        \E j \in Nat : j < i /\ At(j, "vanished", nameOwner)'
  BY <1>1, <1>2 DEF NameInv
<1>7. \A i, j \in Nat, type \in {"appeared", "vanished", "added", "fired"}, g \in Owners :
        i < j /\ At(i, "vanished", g)' => ~At(j, type, g)'
  BY <1>2, <1>3 DEF NameInv
<1>8. \A i, k \in Nat, g, h \in Owners :
        i < k /\ At(i, "appeared", g)' /\ At(k, "appeared", h)' =>
          \E j \in Nat : i < j /\ j < k /\ At(j, "vanished", g)'
  BY <1>2 DEF NameInv
<1>9. \A i \in Nat, g \in Owners : At(i, "appeared", g)' =>
        \E j \in Nat : i < j /\ At(j, "vanished", g)'
  BY <1>0, <1>2 DEF NameInv
<1>. QED BY <1>1, <1>4, <1>5, <1>6, <1>7, <1>8, <1>9 DEF NameInv

-----------------------------------------------------------------------------
(* What a step does to the messages on their way.                          *)

LEMMA ToldTail ==
  ASSUME TypeOK, inbox # <<>>, inbox' = Tail(inbox)
  PROVE  \A g, u, w : Told(g, u, w)' => Told(g, u, w)
<1>1. /\ Len(inbox) \in Nat \ {0}
      /\ Len(inbox') = Len(inbox) - 1
      /\ \A i \in 1..Len(inbox') : inbox'[i] = inbox[i + 1] /\ i + 1 \in 1..Len(inbox)
  BY DEF TypeOK
<1>. QED BY <1>1 DEF Told

LEMMA ToldAppend ==
  ASSUME TypeOK, NEW m, inbox' = Append(inbox, m)
  PROVE  \A g, u, w : Told(g, u, w)' =>
           \/ Told(g, u, w)
           \/ m.type \in {"added", "fired"} /\ m.owner = g /\ m.id = u /\ m.watch = w
<1>1. /\ Len(inbox) \in Nat
      /\ Len(inbox') = Len(inbox) + 1
      /\ \A i \in 1..Len(inbox) : inbox'[i] = inbox[i]
      /\ inbox'[Len(inbox) + 1] = m
  BY DEF TypeOK
<1>. QED BY <1>1 DEF Told

LEMMA OutboxTail ==
  ASSUME TypeOK, outbox # <<>>, outbox' = Tail(outbox)
  PROVE  /\ \A k \in Nat : \A g, w : Asked(k, g, w)' => Asked(k + 1, g, w)
         /\ \A k \in Nat : \A g, w : Asked(k, g, w) /\ k # 1 =>
              k - 1 \in Nat /\ Asked(k - 1, g, w)'
         /\ \A k \in Nat : \A g, u : Removal(k, g, u)' => Removal(k + 1, g, u)
<1>1. /\ Len(outbox) \in Nat \ {0}
      /\ Len(outbox') = Len(outbox) - 1
      /\ \A k \in 1..Len(outbox') : outbox'[k] = outbox[k + 1]
  BY DEF TypeOK
<1>. QED BY <1>1 DEF Asked, Removal

LEMMA OutboxAppend ==
  ASSUME TypeOK, NEW m, outbox' = Append(outbox, m)
  PROVE  /\ Len(outbox) \in Nat
         /\ \A k \in Nat : \A g, w : Asked(k, g, w) => k <= Len(outbox) /\ Asked(k, g, w)'
         /\ \A k \in Nat : \A g, w : Asked(k, g, w)' =>
              \/ Asked(k, g, w)
              \/ k = Len(outbox) + 1 /\ m.op = "add" /\ m.owner = g /\ m.watch = w
         /\ m.op = "add" =>
              \A k \in Nat : k = Len(outbox) + 1 => Asked(k, m.owner, m.watch)'
         /\ \A k \in Nat : \A g, u : Removal(k, g, u)' =>
              Removal(k, g, u) \/ (m.op = "remove" /\ m.owner = g /\ m.id = u)
<1>1. /\ Len(outbox) \in Nat
      /\ Len(outbox') = Len(outbox) + 1
      /\ \A k \in 1..Len(outbox) : outbox'[k] = outbox[k]
      /\ outbox'[Len(outbox) + 1] = m
  BY DEF TypeOK
<1>. QED BY <1>1 DEF Asked, Removal

LEMMA Concat ==
  ASSUME NEW S, NEW s \in Seq(S), NEW t \in Seq(S)
  PROVE  /\ Len(s \o t) = Len(s) + Len(t)
         /\ \A k \in 1..Len(s) : (s \o t)[k] = s[k]
         /\ \A k \in 1..Len(t) : (s \o t)[Len(s) + k] = t[k]
<1>1. Len(s \o t) = Len(s) + Len(t)
  OBVIOUS
<1>2. \A k \in 1..Len(s) : (s \o t)[k] = s[k]
  OBVIOUS
<1>3. ASSUME NEW k \in 1..Len(t) PROVE (s \o t)[Len(s) + k] = t[k]
  OBVIOUS
<1>. QED BY <1>1, <1>2, <1>3

LEMMA ConnectAsks ==
  ASSUME TypeOK, NEW g \in Owners, ConnectProxy(g)
  PROVE  /\ Len(outbox) \in Nat
         /\ \A k \in Nat : \A h, w : Asked(k, h, w) => k <= Len(outbox) /\ Asked(k, h, w)'
         /\ \A k \in Nat : \A h, w : Asked(k, h, w)' =>
              Asked(k, h, w) \/ (k > Len(outbox) /\ h = g /\ w \in watches)
         /\ \A w \in watches : \E k \in Nat : k > Len(outbox) /\ Asked(k, g, w)'
         /\ \A k \in Nat : \A h, u : Removal(k, h, u)' => Removal(k, h, u)
<1>1. PICK order \in Orders(watches) :
        outbox' = outbox \o [i \in 1..Cardinality(watches) |->
                               Request("add", g, order[i], 0)]
  BY DEF ConnectProxy
<1>2. Cardinality(watches) \in Nat
  BY FS_Subset, FS_CardinalityType, ConstantsAssumption DEF TypeOK, ConstantsAssumption
<1>3. PICK n \in Nat : n = Cardinality(watches)
  BY <1>2
<1>4. /\ \A i \in 1..n : order[i] \in watches
      /\ \A w \in watches : \E i \in 1..n : order[i] = w
  BY <1>1, <1>3 DEF Orders
<1>5. PICK asks : asks = [i \in 1..n |-> Request("add", g, order[i], 0)]
  OBVIOUS
<1>6. /\ Len(outbox) \in Nat
      /\ outbox' = outbox \o asks
      /\ asks \in Seq(Requests) /\ Len(asks) = n
  <2>1. \A i \in 1..n : Request("add", g, order[i], 0) \in Requests
    BY <1>4 DEF Request, Requests, TypeOK
  <2>2. asks \in [1..n -> Requests]
    BY <1>5, <2>1
  <2>3. asks \in Seq(Requests) /\ Len(asks) = n
    BY <1>3, <2>2
  <2>. QED BY <1>1, <1>3, <1>5, <2>3 DEF TypeOK
<1>7. /\ Len(outbox') = Len(outbox) + n
      /\ \A k \in 1..Len(outbox) : outbox'[k] = outbox[k]
      /\ \A i \in 1..n : outbox'[Len(outbox) + i] = asks[i]
  <2>1. outbox \in Seq(Requests)
    BY DEF TypeOK
  <2>2. asks \in Seq(Requests) /\ Len(asks) = n
    BY <1>6
  <2>3. Len(outbox \o asks) = Len(outbox) + Len(asks)
    BY <2>1, <2>2, Concat
  <2>4. \A k \in 1..Len(outbox) : (outbox \o asks)[k] = outbox[k]
    BY <2>1, <2>2, Concat
  <2>5. \A i \in 1..Len(asks) : (outbox \o asks)[Len(outbox) + i] = asks[i]
    BY <2>1, <2>2, Concat
  <2>. QED BY <1>6, <2>2, <2>3, <2>4, <2>5
<1>8. \A i \in 1..n : asks[i].op = "add" /\ asks[i].owner = g /\ asks[i].watch = order[i]
  BY <1>5 DEF Request
<1>9. \A k \in 1..Len(outbox') : k \notin 1..Len(outbox) =>
        \E i \in 1..n : outbox'[k] = asks[i]
  <2> SUFFICES ASSUME NEW k \in 1..Len(outbox'), k \notin 1..Len(outbox)
               PROVE  \E i \in 1..n : outbox'[k] = asks[i]
    OBVIOUS
  <2>1. k - Len(outbox) \in 1..n /\ k = Len(outbox) + (k - Len(outbox))
    BY <1>6, <1>7
  <2>. QED BY <1>7, <2>1
<1>10. \A k \in Nat : \A h, w : Asked(k, h, w) => k <= Len(outbox) /\ Asked(k, h, w)'
  BY <1>6, <1>7 DEF Asked
<1>11. \A k \in Nat : \A h, w : Asked(k, h, w)' =>
         Asked(k, h, w) \/ (k > Len(outbox) /\ h = g /\ w \in watches)
  <2> SUFFICES ASSUME NEW k \in Nat, NEW h, NEW w, Asked(k, h, w)', ~Asked(k, h, w)
               PROVE  k > Len(outbox) /\ h = g /\ w \in watches
    OBVIOUS
  <2>1. k \in 1..Len(outbox') /\ k \notin 1..Len(outbox)
    BY <1>7 DEF Asked
  <2>2. PICK i \in 1..n : outbox'[k] = asks[i]
    BY <1>9, <2>1
  <2>3. k > Len(outbox)
    BY <1>6, <2>1
  <2>4. outbox'[k].owner = h /\ outbox'[k].watch = w
    BY DEF Asked
  <2>5. asks[i].owner = g /\ asks[i].watch \in watches
    BY <1>4, <1>8
  <2>. QED BY <2>2, <2>3, <2>4, <2>5
<1>12. ASSUME NEW w \in watches PROVE \E k \in Nat : k > Len(outbox) /\ Asked(k, g, w)'
  <2>1. PICK i \in 1..n : order[i] = w
    BY <1>4
  <2>2. PICK k \in Nat : k = Len(outbox) + i
    BY <1>6
  <2>3. k > Len(outbox) /\ k \in 1..Len(outbox')
    BY <1>6, <1>7, <2>2
  <2>. QED BY <1>7, <1>8, <2>1, <2>2, <2>3 DEF Asked
<1>13. \A k \in Nat : \A h, u : Removal(k, h, u)' => Removal(k, h, u)
  BY <1>6, <1>7, <1>8, <1>9 DEF Removal
<1>. QED BY <1>6, <1>10, <1>11, <1>12, <1>13

-----------------------------------------------------------------------------
(* Who was asked, and who answers.                                         *)

LEMMA ManagersStep ==
  ASSUME TypeOK, AppearInv, [Next]_vars
  PROVE  /\ \A g \in Owners : managers[g] = "done" => managers'[g] = "done"
         /\ \A g \in Owners : managers[g] # "none" => managers'[g] # "none"
         /\ started \in Nat /\ started' \in Nat /\ started <= started'
         /\ added \subseteq added'
<1> USE DEF privVars, watchVars, loopVars, mutterVars
<1>1. started \in Nat
  BY OwnerTypes
<1>2. CASE OnNameAppeared
  <2>1. At(1, "appeared", Head(inbox).owner) /\ Head(inbox).owner \in Owners
    BY <1>2, HeadAt DEF OnNameAppeared, Receive
  <2>2. managers[Head(inbox).owner] = "none"
    BY <2>1 DEF At, AppearInv
  <2>. QED BY <1>1, <1>2, <2>1, <2>2 DEF OnNameAppeared, TypeOK
<1>3. CASE OnNameVanished
  BY <1>1, <1>3 DEF OnNameVanished, TypeOK
<1>4. CASE \E g \in Owners : OnObjectManagerReady(g) \/ OnObjectAdded(g)
  BY <1>1, <1>4 DEF OnObjectManagerReady, OnObjectAdded, ConnectProxy, TypeOK
<1>5. CASE MutterStarts
  BY <1>1, <1>5 DEF MutterStarts
<1>6. CASE UNCHANGED <<managers, started>> /\ added \subseteq added'
  BY <1>1, <1>6
<1>7. ASSUME OnWatchAdded \/ (\E w \in Watches, g \in Owners : CallFails(w, g))
             \/ OnWatchFired \/ CallbackReturns \/ Discard \/ Client \/ MutterExits
             \/ RequestArrives \/ (\E u \in Ids : MutterFires(u)) \/ UNCHANGED vars
      PROVE  UNCHANGED <<managers, started>> /\ added \subseteq added'
  BY <1>7 DEF OnWatchAdded, CallFails, OnWatchFired, CallbackReturns, Discard, Client,
       AddWatch, RemoveWatch, Dispose, MutterExits, RequestArrives, MutterFires, vars
<1>. QED BY <1>2, <1>3, <1>4, <1>5, <1>6, <1>7 DEF Next, MainLoop, Bus

LEMMA MessagesStep ==
  ASSUME TypeOK, AppearInv, SentInv, [Next]_vars,
         \/ inbox' = inbox
         \/ inbox # <<>> /\ inbox' = Tail(inbox)
         \/ \E m : /\ inbox' = Append(inbox, m)
                   /\ m.owner <= started'
                   /\ m.type \in {"added", "failed"} => managers[m.owner] = "done"
  PROVE  MessagesInv'
<1>1. /\ \A g \in Owners : managers[g] = "done" => managers'[g] = "done"
      /\ started \in Nat /\ started' \in Nat /\ started <= started'
      /\ Owners \subseteq Nat
  BY ManagersStep, OwnerTypes
<1>2. CASE inbox' = inbox
  BY <1>1, <1>2 DEF SentInv, MessagesInv, At, Answered
<1>3. CASE inbox # <<>> /\ inbox' = Tail(inbox)
  BY <1>1, <1>3, AtTail DEF SentInv, MessagesInv
<1>4. ASSUME NEW m, inbox' = Append(inbox, m), m.owner <= started',
             m.type \in {"added", "failed"} => managers[m.owner] = "done"
      PROVE  MessagesInv'
  <2>1. /\ \A i \in Nat : \A type, g : At(i, type, g)' => At(i, type, g) \/ m.owner = g
        /\ \A i \in Nat : \A g, w : Answered(i, g, w)' =>
             Answered(i, g, w) \/ (m.type \in {"added", "failed"} /\ m.owner = g)
    BY <1>4, AtAppend
  <2>. QED BY <1>1, <1>4, <2>1 DEF SentInv, MessagesInv
<1>. QED BY <1>2, <1>3, <1>4

LEMMA RequestsStep ==
  ASSUME TypeOK, AppearInv, SentInv, [Next]_vars,
         \/ outbox' = outbox
         \/ outbox # <<>> /\ outbox' = Tail(outbox)
         \/ \E m : /\ outbox' = Append(outbox, m)
                   /\ m.op = "add" => managers[m.owner] = "done" /\ m.watch \in added'
         \/ \E g \in Owners : ConnectProxy(g) /\ watches \subseteq added
  PROVE  RequestsInv'
<1>1. /\ \A g \in Owners : managers[g] = "done" => managers'[g] = "done"
      /\ added \subseteq added'
  BY ManagersStep
<1>2. CASE outbox' = outbox
  BY <1>1, <1>2 DEF SentInv, RequestsInv, Asked
<1>3. CASE outbox # <<>> /\ outbox' = Tail(outbox)
  BY <1>1, <1>3, OutboxTail DEF SentInv, RequestsInv
<1>4. ASSUME NEW m, outbox' = Append(outbox, m),
             m.op = "add" => managers[m.owner] = "done" /\ m.watch \in added'
      PROVE  RequestsInv'
  <2>1. \A k \in Nat : \A g, w : Asked(k, g, w)' =>
          Asked(k, g, w) \/ (m.op = "add" /\ m.owner = g /\ m.watch = w)
    BY <1>4, OutboxAppend
  <2>. QED BY <1>1, <1>4, <2>1 DEF SentInv, RequestsInv
<1>5. ASSUME NEW g \in Owners, ConnectProxy(g), watches \subseteq added
      PROVE  RequestsInv'
  <2>1. \A k \in Nat : \A h, w : Asked(k, h, w)' => Asked(k, h, w) \/ (h = g /\ w \in watches)
    BY <1>5, ConnectAsks
  <2>2. managers'[g] = "done"
    BY <1>5 DEF ConnectProxy, TypeOK
  <2>. QED BY <1>1, <1>5, <2>1, <2>2 DEF SentInv, RequestsInv
<1>. QED BY <1>2, <1>3, <1>4, <1>5

LEMMA OwnersStep ==
  TypeOK /\ AppearInv /\ SentInv /\ [Next]_vars => OwnersInv'
<1> SUFFICES ASSUME TypeOK, AppearInv, SentInv, [Next]_vars PROVE OwnersInv'
  OBVIOUS
<1> USE DEF privVars, watchVars, loopVars, mutterVars
<1>1. /\ \A g \in Owners : managers[g] # "none" => managers'[g] # "none"
      /\ started \in Nat /\ started' \in Nat /\ started <= started'
      /\ owner \in Nat /\ nameOwner \in Nat /\ NoOwner = 0
      /\ nameOwner \in Owners \cup {NoOwner}
  BY ManagersStep, OwnerTypes DEF TypeOK
<1>2. disposed' => watches' = {}
  <2>1. CASE Client
    BY <2>1 DEF Client, AddWatch, RemoveWatch, Dispose, SentInv, OwnersInv
  <2>2. CASE MainLoop
    BY <2>2 DEF MainLoop, OnNameAppeared, OnNameVanished, OnObjectManagerReady,
         OnObjectAdded, OnWatchAdded, CallFails, OnWatchFired, CallbackReturns, RemoveInternal,
         Discard, SentInv, OwnersInv
  <2>3. CASE Bus \/ UNCHANGED vars
    BY <2>3 DEF Bus, MutterStarts, MutterExits, RequestArrives, MutterFires, vars, SentInv, OwnersInv
  <2>. QED BY <2>1, <2>2, <2>3 DEF Next
<1>3. owner' <= started'
  <2>1. CASE MutterStarts \/ MutterExits
    BY <1>1, <2>1 DEF MutterStarts, MutterExits
  <2>2. CASE owner' = owner
    BY <1>1, <2>2 DEF SentInv, OwnersInv
  <2>3. ASSUME Client \/ MainLoop \/ RequestArrives \/ (\E u \in Ids : MutterFires(u)) \/ UNCHANGED vars
        PROVE  owner' = owner
    BY <2>3 DEF Client, AddWatch, RemoveWatch, Dispose, MainLoop, OnNameAppeared,
         OnNameVanished, OnObjectManagerReady, OnObjectAdded, OnWatchAdded, CallFails,
         OnWatchFired, CallbackReturns, Discard, RequestArrives, MutterFires, vars
  <2>. QED BY <2>1, <2>2, <2>3 DEF Next, Bus
<1>4. nameOwner' <= started' /\ (nameOwner' # NoOwner => managers'[nameOwner'] # "none")
  <2>1. CASE OnNameAppeared
    <3>1. At(1, "appeared", Head(inbox).owner) /\ Head(inbox).owner \in Owners
      BY <2>1, HeadAt DEF OnNameAppeared, Receive
    <3>2. Head(inbox).owner <= started
      BY <3>1 DEF SentInv, MessagesInv
    <3>. QED BY <2>1, <3>1, <3>2 DEF OnNameAppeared, TypeOK
  <2>2. CASE OnNameVanished
    BY <1>1, <2>2 DEF OnNameVanished
  <2>3. CASE nameOwner' = nameOwner
    BY <1>1, <2>3 DEF SentInv, OwnersInv
  <2>4. ASSUME Client \/ (MainLoop /\ ~OnNameAppeared /\ ~OnNameVanished) \/ Bus \/ UNCHANGED vars
        PROVE  nameOwner' = nameOwner
    BY <2>4 DEF Client, AddWatch, RemoveWatch, Dispose, MainLoop,
         OnObjectManagerReady, OnObjectAdded, OnWatchAdded, CallFails,
         OnWatchFired, CallbackReturns, Discard, Bus, MutterStarts, MutterExits,
         RequestArrives, MutterFires, vars
  <2>. QED BY <2>1, <2>2, <2>3, <2>4 DEF Next
<1>. QED BY <1>2, <1>3, <1>4 DEF OwnersInv

LEMMA SentStep ==
  TypeOK /\ KnownInv /\ AppearInv /\ MutterInv /\ SentInv /\ [Next]_vars => SentInv'
<1> SUFFICES ASSUME TypeOK, KnownInv, AppearInv, MutterInv, SentInv, [Next]_vars PROVE SentInv'
  OBVIOUS
<1> USE DEF privVars, watchVars, loopVars, mutterVars
<1>0. /\ \A g \in Owners : managers[g] = "done" => g <= started
      /\ owner <= started /\ started \in Nat
      /\ owner \in Owners \cup {NoOwner}
  <2>1. owner <= started /\ owner \in Owners \cup {NoOwner}
    BY DEF SentInv, OwnersInv, TypeOK
  <2>2. Owners \subseteq Nat /\ started \in Nat
    BY OwnerTypes
  <2>3. \A g \in Owners : g > started => managers[g] = "none"
    BY DEF AppearInv
  <2>. QED BY <2>1, <2>2, <2>3
<1>1. ASSUME NEW w \in Watches, NEW k \in {"idle", "active"}, AddWatch(w, k) PROVE SentInv'
  <2>1. inbox' = inbox /\ added' = added \cup {w}
    BY <1>1 DEF AddWatch
  <2>2. CASE proxy = NoOwner
    <3>1. outbox' = outbox
      BY <1>1, <2>2 DEF AddWatch
    <3>. QED BY <2>1, <3>1, MessagesStep, RequestsStep, OwnersStep DEF SentInv
  <2>3. CASE proxy # NoOwner
    <3>1. outbox' = Append(outbox, Request("add", proxy, w, 0))
      BY <1>1, <2>3 DEF AddWatch
    <3>2. managers[proxy] = "done"
      BY <2>3 DEF KnownInv
    <3>3. RequestsInv'
      BY <2>1, <3>1, <3>2, RequestsStep DEF Request
    <3>. QED BY <2>1, <3>3, MessagesStep, OwnersStep DEF SentInv
  <2>. QED BY <2>2, <2>3
<1>2. ASSUME NEW w \in Watches, RemoveWatch(w) PROVE SentInv'
  <2>1. outbox' = outbox \/ \E m : outbox' = Append(outbox, m) /\ m.op = "remove"
    BY <1>2 DEF RemoveWatch, Request
  <2>2. RequestsInv'
    BY <2>1, RequestsStep
  <2>. QED BY <1>2, <2>2, MessagesStep, OwnersStep DEF RemoveWatch, SentInv
<1>3. CASE Dispose
  BY <1>3, MessagesStep, RequestsStep, OwnersStep DEF Dispose, SentInv
<1>4. CASE OnNameAppeared \/ OnNameVanished \/ OnWatchFired \/ Discard
  <2>1. outbox' = outbox /\ inbox # <<>> /\ inbox' = Tail(inbox)
    BY <1>4 DEF OnNameAppeared, OnNameVanished, OnWatchFired, Discard, Receive
  <2>. QED BY <2>1, MessagesStep, RequestsStep, OwnersStep DEF SentInv
<1>5. ASSUME NEW g \in Owners, OnObjectManagerReady(g) \/ OnObjectAdded(g) PROVE SentInv'
  <2>1. inbox' = inbox /\ (outbox' = outbox \/ ConnectProxy(g)) /\ watches \subseteq added
    BY <1>5 DEF OnObjectManagerReady, OnObjectAdded, KnownInv
  <2>. QED BY <2>1, MessagesStep, RequestsStep, OwnersStep DEF SentInv
<1>6. CASE OnWatchAdded
  <2>1. inbox # <<>> /\ inbox' = Tail(inbox)
    BY <1>6 DEF OnWatchAdded, Receive
  <2>2. outbox' = outbox \/ \E m : outbox' = Append(outbox, m) /\ m.op = "remove"
    BY <1>6 DEF OnWatchAdded, WatchAdded, WatchNotAdded, Request
  <2>3. RequestsInv'
    BY <2>2, RequestsStep
  <2>. QED BY <2>1, <2>3, MessagesStep, OwnersStep DEF SentInv
<1>7. CASE (\E w \in Watches, g \in Owners : CallFails(w, g)) \/ CallbackReturns \/ UNCHANGED vars
  <2>1. inbox' = inbox /\ outbox' = outbox
    BY <1>7 DEF CallFails, WatchNotAdded, CallbackReturns, vars
  <2>. QED BY <2>1, MessagesStep, RequestsStep, OwnersStep DEF SentInv
<1>8. CASE MutterStarts
  <2>1. /\ inbox' = Append(inbox, Message("appeared", started + 1, NoWatch, 0))
        /\ started' = started + 1 /\ outbox' = outbox
    BY <1>8 DEF MutterStarts
  <2>2. MessagesInv'
    BY <1>0, <2>1, MessagesStep DEF Message
  <2>. QED BY <2>1, <2>2, RequestsStep, OwnersStep DEF SentInv
<1>9. CASE MutterExits
  <2>1. /\ inbox' = Append(inbox, Message("vanished", owner, NoWatch, 0))
        /\ started' = started /\ outbox' = outbox
    BY <1>9 DEF MutterExits
  <2>2. MessagesInv'
    BY <1>0, <2>1, MessagesStep DEF Message
  <2>. QED BY <2>1, <2>2, RequestsStep, OwnersStep DEF SentInv
<1>10. CASE RequestArrives
  <2> DEFINE m == Head(outbox)
  <2>1. outbox # <<>> /\ outbox' = Tail(outbox) /\ started' = started /\ m \in Requests
    BY <1>10 DEF RequestArrives, TypeOK
  <2>2. m.op = "add" => m.owner \in Owners /\ m.watch \in Watches
    BY <2>1 DEF Requests
  <2>3. m.op = "add" => managers[m.owner] = "done"
    <3>1. 1 \in Nat /\ 1 \in 1..Len(outbox) /\ outbox[1] = m
      BY <2>1 DEF TypeOK
    <3>2. m.op = "add" => Asked(1, m.owner, m.watch)
      BY <3>1 DEF Asked
    <3>. QED BY <2>2, <3>1, <3>2 DEF SentInv, RequestsInv
  <2>4. \/ inbox' = inbox
        \/ \E n : inbox' = Append(inbox, n) /\ n.owner = m.owner /\ m.op = "add"
    BY <1>10 DEF RequestArrives, Message
  <2>5. MessagesInv'
    <3>1. CASE inbox' = inbox
      BY <3>1, MessagesStep
    <3>2. ASSUME NEW n, inbox' = Append(inbox, n), n.owner = m.owner, m.op = "add"
          PROVE  MessagesInv'
      BY <1>0, <2>1, <2>2, <2>3, <3>2, MessagesStep
    <3>. QED BY <2>4, <3>1, <3>2
  <2>. QED BY <2>1, <2>5, RequestsStep, OwnersStep DEF SentInv
<1>11. ASSUME NEW u \in Ids, MutterFires(u) PROVE SentInv'
  <2>1. /\ inbox' = Append(inbox, Message("fired", owner, registered[u], u))
        /\ started' = started /\ outbox' = outbox
    BY <1>11 DEF MutterFires
  <2>2. MessagesInv'
    BY <1>0, <2>1, MessagesStep DEF Message
  <2>. QED BY <2>1, <2>2, RequestsStep, OwnersStep DEF SentInv
<1>. QED BY <1>1, <1>2, <1>3, <1>4, <1>5, <1>6, <1>7, <1>8, <1>9, <1>10, <1>11
         DEF Next, MainLoop, Client, Bus

LEMMA NameStep ==
  TypeOK /\ MutterInv /\ SentInv /\ NameInv /\ [Next]_vars => disposed' \/ NameInv'
<1> SUFFICES ASSUME TypeOK, MutterInv, SentInv, NameInv, [Next]_vars PROVE disposed' \/ NameInv'
  OBVIOUS
<1> USE DEF privVars, watchVars, loopVars, mutterVars
<1>1. CASE Client \/ (\E g \in Owners : OnObjectManagerReady(g) \/ OnObjectAdded(g))
           \/ (\E w \in Watches, g \in Owners : CallFails(w, g)) \/ CallbackReturns
           \/ UNCHANGED vars
  <2>1. UNCHANGED <<inbox, owner, nameOwner>>
    BY <1>1 DEF Client, AddWatch, RemoveWatch, Dispose, OnObjectManagerReady,
         OnObjectAdded, CallFails, CallbackReturns, vars
  <2>. QED BY <2>1, NameSame
<1>2. CASE OnNameAppeared \/ OnNameVanished \/ OnWatchAdded \/ OnWatchFired
  <2>1. /\ inbox # <<>> /\ inbox' = Tail(inbox) /\ UNCHANGED owner
        /\ \/ Head(inbox).type = "appeared" /\ nameOwner' = Head(inbox).owner
           \/ Head(inbox).type = "vanished" /\ nameOwner' = NoOwner
           \/ Head(inbox).type \notin {"appeared", "vanished"} /\ nameOwner' = nameOwner
    BY <1>2 DEF OnNameAppeared, OnNameVanished, OnWatchAdded, OnWatchFired, Receive
  <2>. QED BY <2>1, NameTail
<1>3. CASE Discard
  BY <1>3 DEF Discard
<1>4. CASE MutterStarts \/ MutterExits
  BY <1>4, NameMutterStarts, NameMutterExits
<1>5. CASE RequestArrives
  <2>1. UNCHANGED <<owner, nameOwner>>
    BY <1>5 DEF RequestArrives
  <2>2. Head(outbox).op = "add" => Head(outbox).owner # NoOwner
    <3>1. Head(outbox) \in Requests
      BY <1>5 DEF RequestArrives, TypeOK
    <3>. QED BY <3>1, OwnerTypes DEF Requests
  <2>3. \/ inbox' = inbox
        \/ \E m : /\ inbox' = Append(inbox, m)
                  /\ \/ m.type = "added" /\ m.owner = owner /\ owner # NoOwner
                     \/ m.type = "failed"
    BY <1>5, <2>2 DEF RequestArrives, Message
  <2>4. CASE inbox' = inbox
    BY <2>1, <2>4, NameSame
  <2>. QED BY <2>1, <2>3, <2>4, NameAppend
<1>6. ASSUME NEW u \in Ids, MutterFires(u) PROVE NameInv'
  <2>1. /\ UNCHANGED <<owner, nameOwner>> /\ owner # NoOwner
        /\ inbox' = Append(inbox, Message("fired", owner, registered[u], u))
    BY <1>6 DEF MutterFires, MutterInv
  <2>. QED BY <2>1, NameAppend DEF Message
<1>. QED BY <1>1, <1>2, <1>3, <1>4, <1>5, <1>6 DEF Next, MainLoop, Bus

-----------------------------------------------------------------------------
(* The proxy, and the answers that are awaited.                            *)

\* What an instance that runs sent is not for a monitor that connects to
\* another one.
LEMMA StillTheSame ==
  ASSUME TypeOK, SentInv, NameInv, NEW h \in Owners, managers[h] = "done",
         AppearInv, h = owner \/ \E j \in Nat : At(j, "added", h)
  PROVE  nameOwner = h
<1>1. \A j \in Nat : ~At(j, "appeared", h)
  BY DEF At, AppearInv
<1>. QED BY <1>1, OwnerTypes DEF NameInv

\* An object manager is done with before another instance is heard of.
LEMMA ConnectFacts ==
  ASSUME TypeOK, KnownInv, ProxyInv, NEW g \in Owners,
         OnObjectManagerReady(g) \/ OnObjectAdded(g), ConnectProxy(g)
  PROVE  /\ nameOwner \in {g, NoOwner} /\ proxy' = g
         /\ \A w \in watches : upstream[w] = 0
<1>0. NoOwner \notin Owners /\ nameOwner \in Owners \cup {NoOwner}
  BY OwnerTypes DEF TypeOK
<1>1. proxy # g /\ proxy' = g
  BY <1>0 DEF OnObjectManagerReady, OnObjectAdded, ConnectProxy, KnownInv
<1>2. nameOwner \in {g, NoOwner}
  <2>1. CASE OnObjectManagerReady(g)
    BY <1>1, <2>1 DEF OnObjectManagerReady
  <2>2. CASE OnObjectAdded(g)
    BY <2>2 DEF OnObjectAdded, ProxyInv
  <2>. QED BY <2>1, <2>2
<1>3. \A w \in watches : upstream[w] = 0
  BY <1>1, <1>2 DEF ProxyInv
<1>. QED BY <1>1, <1>2, <1>3

LEMMA ProxyStep ==
  TypeOK /\ UnaddedInv /\ KnownInv /\ AppearInv /\ SentInv /\ NameInv /\ ProxyInv
    /\ ~disposed /\ [Next]_vars => disposed' \/ ProxyInv'
<1> SUFFICES ASSUME TypeOK, UnaddedInv, KnownInv, AppearInv, SentInv, NameInv, ProxyInv,
                    ~disposed, [Next]_vars
             PROVE  disposed' \/ ProxyInv'
  OBVIOUS
<1> USE DEF privVars, watchVars, loopVars, mutterVars
<1>0. nameOwner \in Owners \cup {NoOwner} /\ proxy \in Owners \cup {NoOwner} /\ NoOwner \notin Owners
      /\ NoOwner = 0
  BY OwnerTypes DEF TypeOK
<1>1. ASSUME NEW w \in Watches, NEW k \in {"idle", "active"}, AddWatch(w, k) PROVE ProxyInv'
  BY <1>0, <1>1 DEF AddWatch, ProxyInv, UnaddedInv
<1>2. ASSUME NEW w \in Watches, RemoveWatch(w) PROVE ProxyInv'
  BY <1>2 DEF RemoveWatch, RemoveInternal, ProxyInv
<1>3. CASE Dispose
  BY <1>3 DEF Dispose
<1>4. CASE OnNameAppeared
  <2>1. PICK h \in Owners : h = Head(inbox).owner /\ At(1, "appeared", h)
    BY <1>4, HeadAt DEF OnNameAppeared, Receive
  <2>2. nameOwner = NoOwner
    BY <1>0, <2>1 DEF NameInv, At
  <2>3. managers[h] = "none"
    BY <2>1 DEF AppearInv, At
  <2>4. \A w \in Watches : <<w, h>> \notin calls
    BY <2>3 DEF KnownInv
  <2>5. \A g \in Owners : managers'[g] # "waiting"
    BY <1>0, <1>4, <2>1, <2>2 DEF OnNameAppeared, ProxyInv, TypeOK
  <2>6. \A w \in watches : upstream[w] = 0
    BY <2>2 DEF ProxyInv
  <2>. QED BY <1>4, <2>1, <2>4, <2>5, <2>6 DEF OnNameAppeared, ProxyInv
<1>5. CASE OnNameVanished
  <2>1. \A g \in Owners : managers'[g] # "waiting"
    BY <1>5 DEF OnNameVanished, TypeOK
  <2>2. \A w \in watches' : upstream'[w] = 0
    BY <1>5 DEF OnNameVanished, TypeOK
  <2>. QED BY <1>0, <1>5, <2>1, <2>2 DEF OnNameVanished, ProxyInv
<1>6. ASSUME NEW g \in Owners, OnObjectManagerReady(g) \/ OnObjectAdded(g) PROVE ProxyInv'
  <2>1. UNCHANGED <<watches, upstream, nameOwner>> /\ managers[g] # "done"
        /\ \A h \in Owners : h # g => managers'[h] = managers[h]
    BY <1>6 DEF OnObjectManagerReady, OnObjectAdded, ConnectProxy, TypeOK
  <2>2. CASE ConnectProxy(g)
    <3>1. nameOwner \in {g, NoOwner} /\ \A w \in watches : upstream[w] = 0
      BY <1>6, <2>2, ConnectFacts
    <3>2. managers'[g] = "done" /\ proxy' = g /\ calls' = calls \cup (watches \X {g})
      BY <2>2 DEF ConnectProxy, TypeOK
    <3>. QED BY <1>0, <2>1, <3>1, <3>2 DEF ProxyInv
  <2>3. CASE ~ConnectProxy(g)
    <3>1. UNCHANGED <<proxy, calls>> /\ (managers'[g] = "waiting" => nameOwner = g)
      BY <1>6, <2>3 DEF OnObjectManagerReady, OnObjectAdded, TypeOK
    <3>. QED BY <2>1, <3>1 DEF ProxyInv
  <2>. QED BY <2>2, <2>3
<1>7. CASE OnWatchAdded
  <2> DEFINE m == Head(inbox)
  <2>1. UNCHANGED <<managers, nameOwner, proxy, watches>> /\ calls' \subseteq calls
    BY <1>7 DEF OnWatchAdded
  <2>2. CASE upstream' = upstream
    BY <2>1, <2>2 DEF ProxyInv
  <2>3. CASE upstream' # upstream
    <3>1. <<m.watch, m.owner>> \in calls /\ m.type = "added"
          /\ upstream' = [upstream EXCEPT ![m.watch] = m.id]
      BY <1>7, <2>3 DEF OnWatchAdded, WatchAdded, WatchNotAdded
    <3>2. At(1, "added", m.owner) /\ m.owner \in Owners /\ m.watch \in Watches
      BY <1>7, <3>1, HeadAt, ReceiveType DEF OnWatchAdded, Receive, Messages
    <3>3. managers[m.owner] = "done"
      BY <3>1, <3>2 DEF KnownInv
    <3>4. nameOwner = m.owner
      BY <3>2, <3>3, StillTheSame
    <3>5. proxy = m.owner
      BY <3>1, <3>2, <3>4 DEF ProxyInv
    <3>. QED BY <1>0, <2>1, <3>1, <3>2, <3>4, <3>5 DEF ProxyInv, TypeOK
  <2>. QED BY <2>2, <2>3
<1>8. CASE (\E w \in Watches, g \in Owners : CallFails(w, g)) \/ CallbackReturns
           \/ OnWatchFired \/ Discard \/ Bus \/ UNCHANGED vars
  <2>1. UNCHANGED <<managers, nameOwner, proxy, upstream>> /\ calls' \subseteq calls
        /\ watches' \subseteq watches
    BY <1>8 DEF CallFails, WatchNotAdded, CallbackReturns, RemoveInternal, OnWatchFired, Discard,
          Bus, MutterStarts, MutterExits, RequestArrives, MutterFires, vars
  <2>. QED BY <2>1 DEF ProxyInv
<1>. QED BY <1>1, <1>2, <1>3, <1>4, <1>5, <1>6, <1>7, <1>8 DEF Next, MainLoop, Client

\* Neither requests nor answers moved.
LEMMA ReplyQuiet ==
  ASSUME ReplyInv, calls' \subseteq calls,
         \A k \in Nat : \A g, w : Asked(k, g, w)' <=> Asked(k, g, w),
         \A i \in Nat : \A g, w : Answered(i, g, w)' <=> Answered(i, g, w),
         \A i \in Nat : \A g : At(i, "added", g)' => At(i, "added", g),
         \A k \in Nat : \A h, w : Asked(k, h, w) /\ h = owner' => h = owner
  PROVE  ReplyInv'
<1>1. \A w \in Watches, g \in Owners : <<w, g>> \in calls' =>
        (\E k \in Nat : Asked(k, g, w)') \/ (\E i \in Nat : Answered(i, g, w)')
  BY DEF ReplyInv
<1>2. \A j \in Nat, w \in Watches, g, h \in Owners :
        At(j, "added", h)' /\ Answered(j, h, w)' /\ <<w, g>> \in calls' /\ g # h =>
          \E i \in Nat : i < j /\ Answered(i, g, w)'
  BY DEF ReplyInv
<1>3. \A k \in Nat, w \in Watches, g, h \in Owners :
        Asked(k, h, w)' /\ h = owner' /\ <<w, g>> \in calls' /\ g # h =>
          (\E j \in Nat : j < k /\ Asked(j, g, w)') \/ (\E i \in Nat : Answered(i, g, w)')
  BY DEF ReplyInv
<1>. QED BY <1>1, <1>2, <1>3 DEF ReplyInv

\* The next message is handled; if it is a reply, its call is over.
LEMMA ReplyTail ==
  ASSUME TypeOK, ReplyInv, inbox # <<>>, inbox' = Tail(inbox), calls' \subseteq calls,
         UNCHANGED owner,
         \A k \in Nat : \A g, w : Asked(k, g, w)' <=> Asked(k, g, w),
         \A g, w : Answered(1, g, w) => <<w, g>> \notin calls'
  PROVE  ReplyInv'
<1>1. /\ \A i \in Nat : \A type, g : At(i, type, g)' => At(i + 1, type, g)
      /\ \A i \in Nat : \A g, w : Answered(i, g, w)' => Answered(i + 1, g, w)
      /\ \A i \in Nat : \A g, w : Answered(i, g, w) /\ i # 1 =>
           i - 1 \in Nat /\ Answered(i - 1, g, w)'
  BY AtTail
<1>2. \A i \in Nat : \A g, w : Answered(i, g, w) /\ <<w, g>> \in calls' =>
        i - 1 \in Nat /\ Answered(i - 1, g, w)'
  BY <1>1
<1>3. \A w \in Watches, g \in Owners : <<w, g>> \in calls' =>
        (\E k \in Nat : Asked(k, g, w)') \/ (\E i \in Nat : Answered(i, g, w)')
  BY <1>2 DEF ReplyInv
<1>4. ASSUME NEW j \in Nat, NEW w \in Watches, NEW g \in Owners, NEW h \in Owners,
             At(j, "added", h)', Answered(j, h, w)', <<w, g>> \in calls', g # h
      PROVE  \E i \in Nat : i < j /\ Answered(i, g, w)'
  <2>1. At(j + 1, "added", h) /\ Answered(j + 1, h, w) /\ <<w, g>> \in calls
    BY <1>1, <1>4
  <2>2. PICK i \in Nat : i < j + 1 /\ Answered(i, g, w)
    BY <1>4, <2>1 DEF ReplyInv
  <2>3. i - 1 \in Nat /\ i - 1 < j /\ Answered(i - 1, g, w)'
    BY <1>2, <1>4, <2>2
  <2>. QED BY <2>3
<1>5. ASSUME NEW k \in Nat, NEW w \in Watches, NEW g \in Owners, NEW h \in Owners,
             Asked(k, h, w)', h = owner, <<w, g>> \in calls', g # h
      PROVE  (\E j \in Nat : j < k /\ Asked(j, g, w)') \/ (\E i \in Nat : Answered(i, g, w)')
  <2>1. (\E j \in Nat : j < k /\ Asked(j, g, w)) \/ (\E i \in Nat : Answered(i, g, w))
    BY <1>5 DEF ReplyInv
  <2>. QED BY <1>2, <1>5, <2>1
<1>. QED BY <1>3, <1>4, <1>5 DEF ReplyInv

LEMMA HeadAsked ==
  ASSUME TypeOK, outbox # <<>>, Head(outbox).op = "add"
  PROVE  Asked(1, Head(outbox).owner, Head(outbox).watch)
BY DEF Asked, TypeOK

\* A request arrives, and is answered unless it is a removal.
LEMMA ReplyArrives ==
  ASSUME TypeOK, ReplyInv, outbox # <<>>, outbox' = Tail(outbox), UNCHANGED <<owner, calls>>,
         \/ Head(outbox).op # "add" /\ inbox' = inbox
         \/ /\ Head(outbox).op = "add"
            /\ \E n : /\ inbox' = Append(inbox, n) /\ n.type \in {"added", "failed"}
                      /\ n.owner = Head(outbox).owner /\ n.watch = Head(outbox).watch
                      /\ n.type = "added" => n.owner = owner
  PROVE  ReplyInv'
<1>1. /\ \A k \in Nat : \A g, w : Asked(k, g, w)' => Asked(k + 1, g, w)
      /\ \A k \in Nat : \A g, w : Asked(k, g, w) /\ k # 1 =>
           k - 1 \in Nat /\ Asked(k - 1, g, w)'
  BY OutboxTail
<1>2. \A g, w : /\ Asked(1, g, w) => Head(outbox).op = "add" /\ Head(outbox).owner = g
                                     /\ Head(outbox).watch = w
                /\ ~Asked(0, g, w)
  BY DEF Asked
<1>3. CASE Head(outbox).op # "add" /\ inbox' = inbox
  <2>1. /\ \A i \in Nat : \A g, w : Answered(i, g, w)' <=> Answered(i, g, w)
        /\ \A i \in Nat : \A type, g : At(i, type, g)' <=> At(i, type, g)
    BY <1>3 DEF Answered, At
  <2>2. \A k \in Nat : \A g, w : Asked(k, g, w) => k - 1 \in Nat /\ Asked(k - 1, g, w)'
    BY <1>1, <1>2, <1>3
  <2>3. \A w \in Watches, g \in Owners : <<w, g>> \in calls' =>
          (\E k \in Nat : Asked(k, g, w)') \/ (\E i \in Nat : Answered(i, g, w)')
    BY <2>1, <2>2 DEF ReplyInv
  <2>4. \A j \in Nat, w \in Watches, g, h \in Owners :
          At(j, "added", h)' /\ Answered(j, h, w)' /\ <<w, g>> \in calls' /\ g # h =>
            \E i \in Nat : i < j /\ Answered(i, g, w)'
    BY <2>1 DEF ReplyInv
  <2>5. ASSUME NEW k \in Nat, NEW w \in Watches, NEW g \in Owners, NEW h \in Owners,
               Asked(k, h, w)', h = owner, <<w, g>> \in calls', g # h
        PROVE  (\E j \in Nat : j < k /\ Asked(j, g, w)') \/ (\E i \in Nat : Answered(i, g, w)')
    <3>1. (\E j \in Nat : j < k + 1 /\ Asked(j, g, w)) \/ (\E i \in Nat : Answered(i, g, w))
      BY <1>1, <2>5 DEF ReplyInv
    <3>2. \A j \in Nat : j < k + 1 /\ Asked(j, g, w) =>
            j - 1 \in Nat /\ j - 1 < k /\ Asked(j - 1, g, w)'
      BY <2>2
    <3>. QED BY <2>1, <3>1, <3>2
  <2>. QED BY <2>3, <2>4, <2>5 DEF ReplyInv
<1>4. ASSUME NEW n, inbox' = Append(inbox, n), n.type \in {"added", "failed"},
             n.owner = Head(outbox).owner, n.watch = Head(outbox).watch,
             n.type = "added" => n.owner = owner
      PROVE  ReplyInv'
  <2>1. /\ Len(inbox) \in Nat
        /\ \A i \in Nat : \A type, g : At(i, type, g)' =>
             At(i, type, g) \/ (i = Len(inbox) + 1 /\ n.type = type /\ n.owner = g)
        /\ \A i \in Nat : \A g, w : Answered(i, g, w) => i <= Len(inbox) /\ Answered(i, g, w)'
        /\ \A i \in Nat : \A g, w : Answered(i, g, w)' =>
             \/ Answered(i, g, w)
             \/ i = Len(inbox) + 1 /\ n.owner = g /\ n.watch = w
        /\ \A i \in Nat : \A type, g : At(i, type, g) => i <= Len(inbox) /\ At(i, type, g)'
        /\ \A i \in Nat : i = Len(inbox) + 1 => Answered(i, n.owner, n.watch)'
    BY <1>4, AtAppend
  <2>2. \A g, w : Asked(1, g, w) => \E i \in Nat : Answered(i, g, w)'
    BY <1>2, <1>4, <2>1
  <2>3. \A k \in Nat : \A g, w : Asked(k, g, w) =>
          (k - 1 \in Nat /\ Asked(k - 1, g, w)') \/ \E i \in Nat : Answered(i, g, w)'
    BY <1>1, <2>2
  <2>4. \A w \in Watches, g \in Owners : <<w, g>> \in calls' =>
          (\E k \in Nat : Asked(k, g, w)') \/ (\E i \in Nat : Answered(i, g, w)')
    BY <2>1, <2>3 DEF ReplyInv
  <2>5. ASSUME NEW j \in Nat, NEW w \in Watches, NEW g \in Owners, NEW h \in Owners,
               At(j, "added", h)', Answered(j, h, w)', <<w, g>> \in calls', g # h
        PROVE  \E i \in Nat : i < j /\ Answered(i, g, w)'
    <3>1. CASE j = Len(inbox) + 1
      <4>1. ~At(j, "added", h) /\ ~Answered(j, h, w)
        BY <2>1, <3>1
      <4>2. n.owner = h /\ n.watch = w /\ h = owner
        BY <1>4, <2>1, <2>5, <4>1
      <4>3. Asked(1, h, w)
        BY <1>4, <4>2, HeadAsked
      <4>4. (\E l \in Nat : l < 1 /\ Asked(l, g, w)) \/ (\E i \in Nat : Answered(i, g, w))
        BY <2>5, <4>2, <4>3 DEF ReplyInv
      <4>5. PICK i \in Nat : Answered(i, g, w)
        BY <1>2, <4>4
      <4>. QED BY <2>1, <3>1, <4>5
    <3>2. CASE j # Len(inbox) + 1
      <4>1. PICK i \in Nat : i < j /\ Answered(i, g, w)
        BY <2>1, <2>5, <3>2 DEF ReplyInv
      <4>. QED BY <2>1, <4>1
    <3>. QED BY <3>1, <3>2
  <2>6. ASSUME NEW k \in Nat, NEW w \in Watches, NEW g \in Owners, NEW h \in Owners,
               Asked(k, h, w)', h = owner, <<w, g>> \in calls', g # h
        PROVE  (\E j \in Nat : j < k /\ Asked(j, g, w)') \/ (\E i \in Nat : Answered(i, g, w)')
    <3>1. (\E j \in Nat : j < k + 1 /\ Asked(j, g, w)) \/ (\E i \in Nat : Answered(i, g, w))
      BY <1>1, <2>6 DEF ReplyInv
    <3>2. \A j \in Nat : j < k + 1 /\ Asked(j, g, w) =>
            \/ j - 1 \in Nat /\ j - 1 < k /\ Asked(j - 1, g, w)'
            \/ \E i \in Nat : Answered(i, g, w)'
      BY <2>3
    <3>. QED BY <2>1, <3>1, <3>2
  <2>. QED BY <2>4, <2>5, <2>6 DEF ReplyInv
<1>. QED BY <1>3, <1>4

\* A new watch is asked for, for which nobody has been asked before.
LEMMA ReplyAsk ==
  ASSUME TypeOK, KnownInv, SentInv, IdInv, ReplyInv, NEW w \in Watches, NEW k \in {"idle", "active"},
         AddWatch(w, k), proxy # NoOwner
  PROVE  ReplyInv'
<1>0. PICK p \in Owners : p = proxy
  BY DEF TypeOK
<1>1. /\ w \notin added /\ calls' = calls \cup {<<w, p>>} /\ inbox' = inbox /\ owner' = owner
      /\ outbox' = Append(outbox, Request("add", p, w, 0))
  BY <1>0 DEF AddWatch, mutterVars
<1>2. /\ Len(outbox) \in Nat
      /\ \A l \in Nat : \A g, v : Asked(l, g, v) => l <= Len(outbox) /\ Asked(l, g, v)'
      /\ \A l \in Nat : \A g, v : Asked(l, g, v)' =>
           Asked(l, g, v) \/ (l = Len(outbox) + 1 /\ p = g /\ w = v)
      /\ \A l \in Nat : l = Len(outbox) + 1 => Asked(l, p, w)'
  BY <1>1, OutboxAppend DEF Request
<1>3. /\ \A i \in Nat : \A g, v : Answered(i, g, v)' <=> Answered(i, g, v)
      /\ \A i \in Nat : \A type, g : At(i, type, g)' <=> At(i, type, g)
  BY <1>1 DEF Answered, At
<1>4. /\ \A g \in Owners : <<w, g>> \notin calls
      /\ \A l \in Nat, g \in Owners : ~Asked(l, g, w)
      /\ \A i \in Nat, g \in Owners : ~(At(i, "added", g) /\ Answered(i, g, w))
  <2>1. \A g \in Owners : <<w, g>> \notin calls
    BY <1>1 DEF KnownInv
  <2>2. \A l \in Nat, g \in Owners : ~Asked(l, g, w)
    BY <1>1 DEF SentInv, RequestsInv
  <2>3. ASSUME NEW i \in Nat, NEW g \in Owners, At(i, "added", g), Answered(i, g, w) PROVE FALSE
    <3>1. inbox[i] \in Messages /\ inbox[i].type = "added"
      BY <2>3 DEF At, TypeOK
    <3>2. inbox[i].id \in Ids /\ Told(g, inbox[i].id, w)
      BY <2>3, <3>1 DEF At, Answered, Told, Messages
    <3>. QED BY <1>1, <3>2 DEF IdInv, Given
  <2>. QED BY <2>1, <2>2, <2>3
<1>5. \A v \in Watches, g \in Owners : <<v, g>> \in calls' =>
        (\E l \in Nat : Asked(l, g, v)') \/ (\E i \in Nat : Answered(i, g, v)')
  BY <1>1, <1>2, <1>3 DEF ReplyInv
<1>6. \A j \in Nat, v \in Watches, g, h \in Owners :
        At(j, "added", h)' /\ Answered(j, h, v)' /\ <<v, g>> \in calls' /\ g # h =>
          \E i \in Nat : i < j /\ Answered(i, g, v)'
  BY <1>1, <1>3, <1>4 DEF ReplyInv
<1>7. ASSUME NEW l \in Nat, NEW v \in Watches, NEW g \in Owners, NEW h \in Owners,
             Asked(l, h, v)', h = owner, <<v, g>> \in calls', g # h
      PROVE  (\E j \in Nat : j < l /\ Asked(j, g, v)') \/ (\E i \in Nat : Answered(i, g, v)')
  <2>1. Asked(l, h, v) /\ v # w /\ <<v, g>> \in calls
    BY <1>1, <1>2, <1>4, <1>7
  <2>. QED BY <1>2, <1>3, <1>7, <2>1 DEF ReplyInv
<1>. QED BY <1>1, <1>5, <1>6, <1>7 DEF ReplyInv

\* A new instance is asked for every watch; no other one still answers then.
LEMMA ReplyConnect ==
  ASSUME TypeOK, AppearInv, SentInv, NameInv, ReplyInv, NEW f \in Owners, ConnectProxy(f),
         nameOwner \in {f, NoOwner}, UNCHANGED <<inbox, owner>>
  PROVE  ReplyInv'
<1>1. calls' = calls \cup (watches \X {f}) /\ watches \subseteq Watches
  BY DEF ConnectProxy, TypeOK
<1>2. /\ Len(outbox) \in Nat
      /\ \A l \in Nat : \A g, v : Asked(l, g, v) => l <= Len(outbox) /\ Asked(l, g, v)'
      /\ \A l \in Nat : \A g, v : Asked(l, g, v)' =>
           Asked(l, g, v) \/ (l > Len(outbox) /\ g = f /\ v \in watches)
      /\ \A v \in watches : \E l \in Nat : l > Len(outbox) /\ Asked(l, f, v)'
  BY ConnectAsks
<1>3. /\ \A i \in Nat : \A g, v : Answered(i, g, v)' <=> Answered(i, g, v)
      /\ \A i \in Nat : \A type, g : At(i, type, g)' <=> At(i, type, g)
  BY DEF Answered, At
<1>4. \A h \in Owners, i, l \in Nat, v \in Watches :
        (At(i, "added", h) /\ Answered(i, h, v)) \/ (Asked(l, h, v) /\ h = owner) => h = f
  <2> SUFFICES ASSUME NEW h \in Owners, NEW i \in Nat, NEW l \in Nat, NEW v \in Watches,
                      (At(i, "added", h) /\ Answered(i, h, v)) \/ (Asked(l, h, v) /\ h = owner)
               PROVE  h = f
    OBVIOUS
  <2>1. managers[h] = "done"
    BY DEF SentInv, MessagesInv, RequestsInv
  <2>2. nameOwner = h
    BY <2>1, StillTheSame
  <2>. QED BY <2>2, OwnerTypes
<1>5. \A v \in Watches, g \in Owners : <<v, g>> \in calls' =>
        (\E l \in Nat : Asked(l, g, v)') \/ (\E i \in Nat : Answered(i, g, v)')
  BY <1>1, <1>2, <1>3 DEF ReplyInv
<1>6. \A j \in Nat, v \in Watches, g, h \in Owners :
        At(j, "added", h)' /\ Answered(j, h, v)' /\ <<v, g>> \in calls' /\ g # h =>
          \E i \in Nat : i < j /\ Answered(i, g, v)'
  BY <1>1, <1>3, <1>4 DEF ReplyInv
<1>7. ASSUME NEW l \in Nat, NEW v \in Watches, NEW g \in Owners, NEW h \in Owners,
             Asked(l, h, v)', h = owner, <<v, g>> \in calls', g # h
      PROVE  (\E j \in Nat : j < l /\ Asked(j, g, v)') \/ (\E i \in Nat : Answered(i, g, v)')
  <2>1. CASE Asked(l, h, v)
    <3>1. h = f /\ <<v, g>> \in calls
      BY <1>1, <1>4, <1>7, <2>1, OwnerTypes
    <3>. QED BY <1>2, <1>3, <1>7, <2>1, <3>1 DEF ReplyInv
  <2>2. CASE ~Asked(l, h, v)
    <3>1. l > Len(outbox) /\ h = f /\ <<v, g>> \in calls
      BY <1>1, <1>2, <1>7, <2>2
    <3>2. (\E j \in Nat : Asked(j, g, v)) \/ (\E i \in Nat : Answered(i, g, v))
      BY <3>1 DEF ReplyInv
    <3>3. \A j \in Nat : Asked(j, g, v) => j < l /\ Asked(j, g, v)'
      BY <1>2, <3>1
    <3>. QED BY <1>3, <3>2, <3>3
  <2>. QED BY <2>1, <2>2
<1>. QED BY <1>5, <1>6, <1>7 DEF ReplyInv

LEMMA ReplyStep ==
  TypeOK /\ KnownInv /\ AppearInv /\ MutterInv /\ SentInv /\ NameInv /\ ProxyInv /\ IdInv
    /\ ReplyInv /\ ~disposed /\ [Next]_vars => disposed' \/ ReplyInv'
<1> SUFFICES ASSUME TypeOK, KnownInv, AppearInv, MutterInv, SentInv, NameInv, ProxyInv, IdInv,
                    ReplyInv, ~disposed, [Next]_vars
             PROVE  disposed' \/ ReplyInv'
  OBVIOUS
<1> USE DEF privVars, watchVars, loopVars, mutterVars
<1>0. NoOwner \notin Owners
  BY OwnerTypes
<1>1. ASSUME NEW w \in Watches, NEW k \in {"idle", "active"}, AddWatch(w, k) PROVE ReplyInv'
  <2>1. CASE proxy = NoOwner
    <3>1. UNCHANGED <<calls, outbox, inbox, owner>>
      BY <1>1, <2>1 DEF AddWatch
    <3>. QED BY <3>1, ReplyQuiet DEF Asked, Answered, At
  <2>. QED BY <1>1, <2>1, ReplyAsk
<1>2. ASSUME NEW w \in Watches, RemoveWatch(w) PROVE ReplyInv'
  <2>1. UNCHANGED <<calls, inbox, owner>>
    BY <1>2 DEF RemoveWatch
  <2>2. \A k \in Nat : \A g, v : Asked(k, g, v)' <=> Asked(k, g, v)
    BY <1>2, OutboxAppend DEF RemoveWatch, Request, Asked
  <2>3. /\ \A i \in Nat : \A g, v : Answered(i, g, v)' <=> Answered(i, g, v)
        /\ \A i \in Nat : \A g : At(i, "added", g)' => At(i, "added", g)
    BY <2>1 DEF Answered, At
  <2>. QED BY <2>1, <2>2, <2>3, ReplyQuiet
<1>3. CASE Dispose
  BY <1>3 DEF Dispose
<1>4. CASE OnNameAppeared \/ OnNameVanished \/ OnWatchFired
  <2>1. /\ inbox # <<>> /\ inbox' = Tail(inbox) /\ UNCHANGED <<owner, calls, outbox>>
        /\ Head(inbox).type \notin {"added", "failed"}
    BY <1>4 DEF OnNameAppeared, OnNameVanished, OnWatchFired, Receive
  <2>2. \A g, w : ~Answered(1, g, w)
    BY <2>1 DEF Answered
  <2>. QED BY <2>1, <2>2, ReplyTail DEF Asked
<1>5. ASSUME NEW g \in Owners, OnObjectManagerReady(g) \/ OnObjectAdded(g) PROVE ReplyInv'
  <2>1. UNCHANGED <<inbox, owner, nameOwner>> /\ managers[g] # "done"
    BY <1>5 DEF OnObjectManagerReady, OnObjectAdded
  <2>2. CASE ConnectProxy(g)
    <3>1. nameOwner \in {g, NoOwner}
      BY <1>5, <2>2, ConnectFacts
    <3>. QED BY <2>1, <2>2, <3>1, ReplyConnect
  <2>3. CASE ~ConnectProxy(g)
    <3>1. UNCHANGED <<calls, outbox>>
      BY <1>5, <2>3 DEF OnObjectManagerReady, OnObjectAdded
    <3>. QED BY <2>1, <3>1, ReplyQuiet DEF Asked, Answered, At
  <2>. QED BY <2>2, <2>3
<1>6. CASE OnWatchAdded
  <2>1. /\ inbox # <<>> /\ inbox' = Tail(inbox) /\ UNCHANGED owner
        /\ calls' = calls \ {<<Head(inbox).watch, Head(inbox).owner>>}
    BY <1>6 DEF OnWatchAdded, Receive
  <2>2. \A g, w : Answered(1, g, w) => <<w, g>> \notin calls'
    BY <2>1 DEF Answered
  <2>3. \A k \in Nat : \A g, v : Asked(k, g, v)' <=> Asked(k, g, v)
    BY <1>6, OutboxAppend DEF OnWatchAdded, WatchAdded, WatchNotAdded, Request, Asked
  <2>. QED BY <2>1, <2>2, <2>3, ReplyTail
<1>7. CASE (\E w \in Watches, g \in Owners : CallFails(w, g)) \/ CallbackReturns \/ UNCHANGED vars
  <2>1. UNCHANGED <<inbox, outbox, owner>> /\ calls' \subseteq calls
    BY <1>7 DEF CallFails, WatchNotAdded, CallbackReturns, vars
  <2>. QED BY <2>1, ReplyQuiet DEF Asked, Answered, At
<1>8. CASE Discard
  BY <1>8 DEF Discard
<1>9. ASSUME NEW n, inbox' = Append(inbox, n), n.type \notin {"added", "failed"},
             UNCHANGED <<outbox, calls>>, owner' # owner => \A k \in Nat : \A w : ~Asked(k, owner', w)
      PROVE  ReplyInv'
  <2>1. /\ \A i \in Nat : \A g, v : Answered(i, g, v)' <=> Answered(i, g, v)
        /\ \A i \in Nat : \A g : At(i, "added", g)' => At(i, "added", g)
    BY <1>9, AtAppend
  <2>2. \A k \in Nat : \A g, v : Asked(k, g, v)' <=> Asked(k, g, v)
    BY <1>9 DEF Asked
  <2>3. \A k \in Nat : \A h, w : Asked(k, h, w) /\ h = owner' => h = owner
    BY <1>9
  <2>. QED BY <1>9, <2>1, <2>2, <2>3, ReplyQuiet
<1>10. ASSUME NEW k \in Nat, NEW h, NEW w, Asked(k, h, w) PROVE h \in Owners /\ managers[h] = "done"
  <2>1. outbox[k] \in Requests /\ outbox[k].op = "add"
    BY <1>10 DEF Asked, TypeOK
  <2>2. h \in Owners /\ w \in Watches
    BY <1>10, <2>1 DEF Asked, Requests
  <2>. QED BY <1>10, <2>2 DEF SentInv, RequestsInv
<1>11. CASE MutterStarts
  <2>1. /\ inbox' = Append(inbox, Message("appeared", started + 1, NoWatch, 0))
        /\ UNCHANGED <<outbox, calls>> /\ owner' = started + 1
    BY <1>11 DEF MutterStarts
  <2>2. \A k \in Nat : \A w : ~Asked(k, owner', w)
    <3> SUFFICES ASSUME NEW k \in Nat, NEW w, Asked(k, started + 1, w) PROVE FALSE
      BY <2>1
    <3>1. started + 1 \in Owners /\ managers[started + 1] = "done"
      BY <1>10
    <3>. QED BY <3>1, OwnerTypes DEF AppearInv
  <2>. QED BY <1>9, <2>1, <2>2 DEF Message
<1>12. CASE MutterExits
  <2>1. /\ inbox' = Append(inbox, Message("vanished", owner, NoWatch, 0))
        /\ UNCHANGED <<outbox, calls>> /\ owner' = NoOwner
    BY <1>12 DEF MutterExits
  <2>2. \A k \in Nat : \A w : ~Asked(k, owner', w)
    BY <1>0, <1>10, <2>1
  <2>. QED BY <1>9, <2>1, <2>2 DEF Message
<1>13. CASE RequestArrives
  <2>1. UNCHANGED <<owner, calls>> /\ outbox # <<>> /\ outbox' = Tail(outbox)
    BY <1>13 DEF RequestArrives
  <2>2. \/ Head(outbox).op # "add" /\ inbox' = inbox
        \/ /\ Head(outbox).op = "add"
           /\ \E n : /\ inbox' = Append(inbox, n) /\ n.type \in {"added", "failed"}
                     /\ n.owner = Head(outbox).owner /\ n.watch = Head(outbox).watch
                     /\ n.type = "added" => n.owner = owner
    BY <1>13 DEF RequestArrives, Message
  <2>. QED BY <2>1, <2>2, ReplyArrives
<1>14. ASSUME NEW u \in Ids, MutterFires(u) PROVE ReplyInv'
  <2>1. /\ inbox' = Append(inbox, Message("fired", owner, registered[u], u))
        /\ UNCHANGED <<outbox, calls, owner>>
    BY <1>14 DEF MutterFires
  <2>. QED BY <1>9, <2>1 DEF Message
<1>. QED BY <1>1, <1>2, <1>3, <1>4, <1>5, <1>6, <1>7, <1>8, <1>11, <1>12, <1>13, <1>14
         DEF Next, MainLoop, Client, Bus

\* A reply that is still awaited comes from the instance of the proxy.
LEMMA AnswerFacts ==
  ASSUME TypeOK, KnownInv, AppearInv, SentInv, NameInv, ProxyInv, ReplyInv, inbox # <<>>,
         Head(inbox).type = "added", <<Head(inbox).watch, Head(inbox).owner>> \in calls
  PROVE  /\ Head(inbox).watch \in Watches /\ Head(inbox).id \in Ids
         /\ nameOwner = Head(inbox).owner /\ proxy = Head(inbox).owner /\ proxy \in Owners
         /\ Told(proxy, Head(inbox).id, Head(inbox).watch)
         /\ Pending(Head(inbox).watch) = {Head(inbox).owner}
<1>1. Head(inbox) \in Messages /\ Head(inbox) = inbox[1] /\ 1 \in 1..Len(inbox)
  BY ReceiveType DEF TypeOK
<1>2. PICK w \in Watches, h \in Owners, u \in Ids :
        Head(inbox).watch = w /\ Head(inbox).owner = h /\ Head(inbox).id = u
  BY <1>1 DEF Messages
<1>3. At(1, "added", h) /\ Answered(1, h, w) /\ Told(h, u, w) /\ <<w, h>> \in calls
  BY <1>1, <1>2 DEF At, Answered, Told
<1>4. managers[h] = "done"
  BY <1>3 DEF KnownInv
<1>5. nameOwner = h /\ proxy = h
  BY <1>3, <1>4, StillTheSame DEF ProxyInv
<1>6. \A g \in Owners : <<w, g>> \in calls => g = h
  <2> SUFFICES ASSUME NEW g \in Owners, <<w, g>> \in calls, g # h PROVE FALSE
    OBVIOUS
  <2>1. PICK i \in Nat : i < 1 /\ Answered(i, g, w)
    BY <1>3 DEF ReplyInv
  <2>. QED BY <2>1 DEF Answered
<1>. QED BY <1>2, <1>3, <1>5, <1>6 DEF Pending

LEMMA UnaddedStep == TypeOK /\ KnownInv /\ UnaddedInv /\ [Next]_vars => UnaddedInv'
<1> SUFFICES ASSUME TypeOK, KnownInv, UnaddedInv, [Next]_vars PROVE UnaddedInv'
  OBVIOUS
<1> USE DEF privVars, watchVars, loopVars, mutterVars, UnaddedInv
<1>1. CASE OnNameVanished
  BY <1>1 DEF OnNameVanished, TypeOK
<1>2. CASE OnWatchAdded
  BY <1>2, ReceiveType DEF OnWatchAdded, WatchAdded, WatchNotAdded, KnownInv, TypeOK
<1>3. CASE upstream' = upstream /\ added \subseteq added'
  BY <1>3
<1>4. ASSUME Client \/ (MainLoop /\ ~OnNameVanished /\ ~OnWatchAdded) \/ Bus \/ UNCHANGED vars
      PROVE  upstream' = upstream /\ added \subseteq added'
  BY <1>4 DEF Client, AddWatch, RemoveWatch, Dispose, MainLoop, OnNameAppeared,
       OnObjectManagerReady, OnObjectAdded, CallFails, WatchNotAdded, OnWatchFired,
       CallbackReturns, Discard, Bus, MutterStarts, MutterExits, RequestArrives, MutterFires, vars
<1>. QED BY <1>1, <1>2, <1>3, <1>4 DEF Next

-----------------------------------------------------------------------------
(* Who knows which id to be whose.                                         *)

\* Mutter has just given w the id u.
NewId(g, u, w) ==
  /\ RequestArrives
  /\ Head(outbox).op = "add" /\ Head(outbox).watch = w
  /\ g = owner /\ Head(outbox).owner = g /\ u = nextId /\ nextId' = nextId + 1

\* Ids are passed on, and made by the instance that runs only.
LEMMA GivenStep ==
  ASSUME TypeOK, KnownInv, AppearInv, MutterInv, SentInv, UnaddedInv,
         ~disposed => NameInv /\ ReplyInv /\ ProxyInv, [Next]_vars
  PROVE  \A g \in Owners, u \in Ids, w \in Watches :
           Given(g, u, w)' => Given(g, u, w) \/ NewId(g, u, w)
<1> USE DEF privVars, watchVars, loopVars, mutterVars
<1> SUFFICES ASSUME NEW g \in Owners, NEW u \in Ids, NEW w \in Watches, Given(g, u, w)'
             PROVE  Given(g, u, w) \/ NewId(g, u, w)
  OBVIOUS
<1>0. u # 0 /\ w # NoWatch /\ g # NoOwner
  BY ConstantsAssumption, OwnerTypes DEF ConstantsAssumption, Ids
<1>a. ASSUME inbox' = inbox PROVE Told(g, u, w)' => Told(g, u, w)
  BY <1>a DEF Told
<1>b. ASSUME inbox # <<>>, inbox' = Tail(inbox) PROVE Told(g, u, w)' => Told(g, u, w)
  BY <1>b, ToldTail
<1>c. ASSUME NEW m, inbox' = Append(inbox, m), m.type \notin {"added", "fired"}
      PROVE  Told(g, u, w)' => Told(g, u, w)
  BY <1>c, ToldAppend
<1>1. ASSUME NEW v \in Watches, NEW k \in {"idle", "active"}, AddWatch(v, k)
      PROVE  Given(g, u, w)
  BY <1>0, <1>1, <1>a DEF AddWatch, Given, UnaddedInv
<1>2. ASSUME NEW v \in Watches, RemoveWatch(v) PROVE Given(g, u, w)
  BY <1>2, <1>a DEF RemoveWatch, RemoveInternal, Given
<1>3. CASE Dispose
  BY <1>3, <1>a DEF Dispose, Given
<1>4. CASE OnNameAppeared \/ OnWatchFired \/ Discard
  BY <1>4, <1>b DEF OnNameAppeared, OnWatchFired, Discard, Receive, Given
<1>5. CASE OnNameVanished
  BY <1>0, <1>5, <1>b DEF OnNameVanished, Receive, Given
<1>6. ASSUME NEW h \in Owners, OnObjectManagerReady(h) \/ OnObjectAdded(h)
      PROVE  Given(g, u, w)
  <2>1. inbox' = inbox /\ UNCHANGED <<watches, upstream, registered, owner>> /\ ~disposed
    BY <1>6 DEF OnObjectManagerReady, OnObjectAdded
  <2>2. CASE ConnectProxy(h)
    BY <1>0, <1>6, <1>a, <2>1, <2>2, ConnectFacts DEF Given
  <2>3. CASE ~ConnectProxy(h)
    <3>1. UNCHANGED proxy
      BY <1>6, <2>3 DEF OnObjectManagerReady, OnObjectAdded
    <3>. QED BY <1>a, <2>1, <3>1 DEF Given
  <2>. QED BY <2>2, <2>3
<1>7. CASE OnWatchAdded
  <2>1. /\ inbox # <<>> /\ inbox' = Tail(inbox) /\ ~disposed
        /\ UNCHANGED <<watches, proxy, registered, owner>>
    BY <1>7 DEF OnWatchAdded, Receive
  <2>2. CASE upstream' = upstream
    BY <1>b, <2>1, <2>2 DEF Given
  <2>3. CASE upstream' # upstream
    <3>1. /\ <<Head(inbox).watch, Head(inbox).owner>> \in calls /\ Head(inbox).type = "added"
          /\ upstream' = [upstream EXCEPT ![Head(inbox).watch] = Head(inbox).id]
      BY <1>7, <2>3 DEF OnWatchAdded, WatchAdded, WatchNotAdded
    <3>2. Told(proxy, Head(inbox).id, Head(inbox).watch)
      BY <2>1, <3>1, AnswerFacts
    <3>. QED BY <1>b, <2>1, <3>1, <3>2 DEF Given, TypeOK
  <2>. QED BY <2>2, <2>3
<1>8. CASE (\E v \in Watches, h \in Owners : CallFails(v, h)) \/ CallbackReturns \/ UNCHANGED vars
  <2>1. /\ UNCHANGED <<inbox, upstream, proxy, registered, owner>>
        /\ watches' \subseteq watches
    BY <1>8 DEF CallFails, WatchNotAdded, CallbackReturns, RemoveInternal, vars
  <2>. QED BY <1>a, <2>1 DEF Given
<1>9. CASE MutterStarts
  BY <1>0, <1>9, <1>c DEF MutterStarts, Message, Given
<1>10. CASE MutterExits
  BY <1>0, <1>10, <1>c DEF MutterExits, Message, Given
<1>11. CASE RequestArrives
  <2> DEFINE m == Head(outbox)
  <2>1. UNCHANGED <<watches, upstream, proxy, owner>>
    BY <1>11 DEF RequestArrives
  <2>2. CASE m.op = "add" /\ m.owner = owner
    <3>1. /\ registered' = [registered EXCEPT ![nextId] = m.watch] /\ nextId' = nextId + 1
          /\ inbox' = Append(inbox, Message("added", owner, m.watch, nextId))
      BY <1>11, <2>2 DEF RequestArrives
    <3>2. Told(g, u, w)' => Told(g, u, w) \/ (owner = g /\ u = nextId /\ m.watch = w)
      BY <3>1, ToldAppend DEF Message
    <3>3. registered'[u] = w => registered[u] = w \/ (u = nextId /\ m.watch = w)
      BY <3>1 DEF TypeOK
    <3>4. owner = g /\ u = nextId /\ m.watch = w => NewId(g, u, w)
      BY <1>11, <2>2, <3>1 DEF NewId
    <3>. QED BY <2>1, <3>2, <3>3, <3>4 DEF Given
  <2>3. CASE m.op = "add" /\ m.owner # owner
    <3>1. /\ UNCHANGED registered
          /\ inbox' = Append(inbox, Message("failed", m.owner, m.watch, 0))
      BY <1>11, <2>3 DEF RequestArrives
    <3>2. Told(g, u, w)' => Told(g, u, w)
      BY <1>c, <3>1 DEF Message
    <3>. QED BY <2>1, <3>1, <3>2 DEF Given
  <2>4. CASE m.op # "add"
    <3>1. inbox' = inbox /\ (registered'[u] = w => registered[u] = w)
      BY <1>0, <1>11, <2>4 DEF RequestArrives, TypeOK
    <3>. QED BY <1>a, <2>1, <3>1 DEF Given
  <2>. QED BY <2>2, <2>3, <2>4
<1>12. ASSUME NEW v \in Ids, MutterFires(v) PROVE Given(g, u, w)
  <2>1. /\ inbox' = Append(inbox, Message("fired", owner, registered[v], v))
        /\ UNCHANGED <<watches, upstream, proxy, owner>>
    BY <1>12 DEF MutterFires
  <2>2. Told(g, u, w)' => Told(g, u, w) \/ (owner = g /\ u = v /\ registered[v] = w)
    BY <2>1, ToldAppend DEF Message
  <2>3. registered'[u] = w => registered[u] = w
    BY <1>0, <1>12 DEF MutterFires, TypeOK
  <2>. QED BY <2>1, <2>2, <2>3 DEF Given
<1>. QED BY <1>1, <1>2, <1>3, <1>4, <1>5, <1>6, <1>7, <1>8, <1>9, <1>10, <1>11, <1>12
         DEF Next, MainLoop, Client, Bus

\* The ids an instance gave stay below the next one it gives.
LEMMA NextIdStep ==
  ASSUME TypeOK, SentInv, [Next]_vars, NEW g \in Owners, NEW u \in Ids, g <= started,
         g = owner => u < nextId, g = owner'
  PROVE  u < nextId'
<1> USE DEF privVars, watchVars, loopVars, mutterVars
<1>0. g \in Nat \ {NoOwner} /\ u \in Nat /\ nextId \in Nat /\ started \in Nat
  BY OwnerTypes, ConstantsAssumption DEF Ids, TypeOK, ConstantsAssumption
<1>1. CASE MutterStarts \/ MutterExits
  BY <1>0, <1>1 DEF MutterStarts, MutterExits
<1>2. CASE RequestArrives
  BY <1>0, <1>2 DEF RequestArrives
<1>3. CASE UNCHANGED <<owner, nextId>>
  BY <1>3
<1>4. ASSUME Client \/ MainLoop \/ (\E v \in Ids : MutterFires(v)) \/ UNCHANGED vars
      PROVE  UNCHANGED <<owner, nextId>>
  BY <1>4 DEF Client, AddWatch, RemoveWatch, Dispose, MainLoop, OnNameAppeared, OnNameVanished,
       OnObjectManagerReady, OnObjectAdded, OnWatchAdded, CallFails, WatchNotAdded, OnWatchFired,
       CallbackReturns, Discard, MutterFires, vars
<1>. QED BY <1>1, <1>2, <1>3, <1>4 DEF Next, Bus

LEMMA IdStep ==
  ASSUME TypeOK, KnownInv, AppearInv, MutterInv, SentInv, UnaddedInv, IdInv,
         ~disposed => NameInv /\ ReplyInv /\ ProxyInv, [Next]_vars
  PROVE  IdInv'
<1>1. \A g \in Owners, u \in Ids, w \in Watches :
        Given(g, u, w)' => Given(g, u, w) \/ NewId(g, u, w)
  BY GivenStep
<1>2. \A g \in Owners, u \in Ids, w \in Watches : NewId(g, u, w) =>
        /\ w \in added /\ g <= started /\ g = owner /\ u = nextId /\ nextId' = nextId + 1
        /\ owner' = owner /\ w = Head(outbox).watch
  <2> SUFFICES ASSUME NEW g \in Owners, NEW u \in Ids, NEW w \in Watches, NewId(g, u, w)
               PROVE  w \in added /\ g <= started /\ owner' = owner
    BY DEF NewId
  <2>1. Asked(1, g, w) /\ owner' = owner
    BY HeadAsked DEF NewId, RequestArrives
  <2>. QED BY <2>1 DEF SentInv, RequestsInv, OwnersInv, NewId
<1>3. added \subseteq added' /\ started <= started' /\ started \in Nat /\ started' \in Nat
      /\ Owners \subseteq Nat
  BY ManagersStep, OwnerTypes
<1>4. nextId \in Nat
  BY ConstantsAssumption DEF TypeOK, ConstantsAssumption
<1> SUFFICES ASSUME NEW g \in Owners, NEW u \in Ids, NEW w \in Watches, Given(g, u, w)'
             PROVE  /\ w \in added' /\ g <= started'
                    /\ g = owner' => u < nextId'
                    /\ \A v \in Watches : Given(g, u, v)' => v = w
  BY DEF IdInv
<1>5. w \in added' /\ g <= started'
  BY <1>1, <1>2, <1>3 DEF IdInv
<1>6. g = owner' => u < nextId'
  <2>1. CASE Given(g, u, w)
    BY <2>1, NextIdStep DEF IdInv
  <2>2. CASE NewId(g, u, w)
    BY <1>2, <1>4, <2>2
  <2>. QED BY <1>1, <2>1, <2>2
<1>7. ASSUME NEW v \in Watches, Given(g, u, v)' PROVE v = w
  <2>1. \A x \in Watches : ~(NewId(g, u, w) /\ Given(g, u, x)) /\ ~(NewId(g, u, v) /\ Given(g, u, x))
    BY <1>2, <1>4 DEF IdInv
  <2>. QED BY <1>1, <1>2, <1>7, <2>1 DEF IdInv
<1>. QED BY <1>5, <1>6, <1>7

\* The process sends a removal when it removes a watch, or when it learns the
\* id of a watch it has removed.
LEMMA RemovalStep ==
  ASSUME TypeOK, KnownInv, AppearInv, SentInv, ~disposed => NameInv /\ ReplyInv /\ ProxyInv,
         [Next]_vars, NEW k \in Nat, NEW g \in Owners \cup {NoOwner}, NEW u \in Ids,
         Removal(k, g, u)'
  PROVE  \/ \E l \in Nat : Removal(l, g, u)
         \/ g \in Owners /\ \E w \in Watches : Given(g, u, w) /\ w \notin watches'
<1> USE DEF privVars, watchVars, loopVars, mutterVars
<1>1. CASE outbox' = outbox
  BY <1>1 DEF Removal
<1>2. CASE outbox # <<>> /\ outbox' = Tail(outbox)
  BY <1>2, OutboxTail
<1>3. ASSUME NEW m, outbox' = Append(outbox, m), m.op = "add"
      PROVE  Removal(k, g, u)
  BY <1>3, OutboxAppend
<1>4. ASSUME NEW w \in Watches, RemoveWatch(w)
      PROVE  Removal(k, g, u) \/ (g \in Owners /\ Given(g, u, w) /\ w \notin watches')
  <2>1. w \in watches /\ ~disposed /\ watches' = watches \ {w}
    BY <1>4 DEF RemoveWatch, RemoveInternal
  <2>2. CASE upstream[w] # 0
    <3>1. proxy # NoOwner /\ proxy \in Owners
      BY <2>1, <2>2 DEF ProxyInv, TypeOK
    <3>2. Removal(k, g, u) \/ (g = proxy /\ u = upstream[w])
      BY <1>4, <2>2, OutboxAppend DEF RemoveWatch, Request
    <3>. QED BY <2>1, <3>1, <3>2 DEF Given
  <2>3. CASE upstream[w] = 0
    BY <1>1, <1>4, <2>3 DEF RemoveWatch, Removal
  <2>. QED BY <2>2, <2>3
<1>5. CASE OnWatchAdded
  <2>1. inbox # <<>> /\ ~disposed /\ watches' = watches
    BY <1>5 DEF OnWatchAdded, Receive
  <2>2. CASE outbox' = outbox
    BY <1>1, <2>2
  <2>3. CASE outbox' # outbox
    <3>1. /\ <<Head(inbox).watch, Head(inbox).owner>> \in calls /\ Head(inbox).type = "added"
          /\ Head(inbox).watch \notin watches
          /\ outbox' = Append(outbox, Request("remove", proxy, NoWatch, Head(inbox).id))
      BY <1>5, <2>3 DEF OnWatchAdded, WatchAdded, WatchNotAdded
    <3>2. /\ Told(proxy, Head(inbox).id, Head(inbox).watch) /\ proxy \in Owners
          /\ Head(inbox).watch \in Watches
      BY <2>1, <3>1, AnswerFacts
    <3>3. Removal(k, g, u) \/ (g = proxy /\ u = Head(inbox).id)
      BY <3>1, OutboxAppend DEF Request
    <3>. QED BY <2>1, <3>1, <3>2, <3>3 DEF Given
  <2>. QED BY <2>2, <2>3
<1>6. ASSUME NEW w \in Watches, NEW j \in {"idle", "active"}, AddWatch(w, j)
      PROVE  Removal(k, g, u)
  <2>1. outbox' = outbox \/ outbox' = Append(outbox, Request("add", proxy, w, 0))
    BY <1>6 DEF AddWatch
  <2>. QED BY <1>1, <1>3, <2>1 DEF Request, Removal
<1>7. ASSUME NEW h \in Owners, OnObjectManagerReady(h) \/ OnObjectAdded(h)
      PROVE  Removal(k, g, u)
  <2>1. outbox' = outbox \/ ConnectProxy(h)
    BY <1>7 DEF OnObjectManagerReady, OnObjectAdded
  <2>. QED BY <2>1, ConnectAsks DEF Removal
<1>8. CASE RequestArrives
  BY <1>2, <1>8 DEF RequestArrives
<1>9. ASSUME Dispose \/ OnNameAppeared \/ OnNameVanished \/ OnWatchFired \/ CallbackReturns
             \/ (\E w \in Watches, h \in Owners : CallFails(w, h)) \/ Discard
             \/ MutterStarts \/ MutterExits \/ (\E v \in Ids : MutterFires(v)) \/ UNCHANGED vars
      PROVE  outbox' = outbox
  BY <1>9 DEF Dispose, OnNameAppeared, OnNameVanished, OnWatchFired, CallbackReturns, CallFails,
       WatchNotAdded, Discard, MutterStarts, MutterExits, MutterFires, vars
<1>. QED BY <1>1, <1>4, <1>5, <1>6, <1>7, <1>8, <1>9 DEF Next, MainLoop, Client, Bus

\* Watches come to the table when they are added, and then only.
LEMMA WatchesStep ==
  ASSUME TypeOK, KnownInv, [Next]_vars, NEW w \in watches', w \notin watches
  PROVE  w \notin added
<1> USE DEF privVars, watchVars, loopVars, mutterVars
<1>1. CASE Client
  BY <1>1 DEF Client, AddWatch, RemoveWatch, RemoveInternal, Dispose
<1>2. CASE MainLoop
  BY <1>2 DEF MainLoop, OnNameAppeared, OnNameVanished, OnObjectManagerReady, OnObjectAdded,
       OnWatchAdded, CallFails, OnWatchFired, CallbackReturns, RemoveInternal, Discard
<1>3. CASE Bus \/ UNCHANGED vars
  BY <1>3 DEF Bus, MutterStarts, MutterExits, RequestArrives, MutterFires, vars
<1>. QED BY <1>1, <1>2, <1>3 DEF Next

LEMMA RemoveStep ==
  ASSUME TypeOK, KnownInv, AppearInv, MutterInv, SentInv, UnaddedInv, IdInv, RemoveInv,
         ~disposed => NameInv /\ ReplyInv /\ ProxyInv, [Next]_vars
  PROVE  RemoveInv'
<1>1. /\ \A g \in Owners, u \in Ids, w \in Watches :
           Given(g, u, w)' => Given(g, u, w) \/ NewId(g, u, w)
      /\ \A w \in watches' : w \in watches \/ w \notin added
  BY GivenStep, WatchesStep
<1>2. /\ \A g \in Owners : g <= started => g <= started'
      /\ nextId \in Nat /\ NoOwner \notin Owners
  BY ManagersStep, OwnerTypes, ConstantsAssumption DEF TypeOK, ConstantsAssumption
<1> SUFFICES ASSUME NEW k \in Nat, NEW g \in Owners \cup {NoOwner}, NEW u \in Ids,
                    Removal(k, g, u)'
             PROVE  /\ g # NoOwner /\ g <= started'
                    /\ g = owner' => u < nextId'
                    /\ \A w \in Watches : Given(g, u, w)' => w \notin watches'
  BY DEF RemoveInv
<1>3. /\ g \in Owners /\ g <= started /\ (g = owner => u < nextId)
      /\ \A w \in Watches : Given(g, u, w) => w \notin watches'
  <2>1. CASE \E l \in Nat : Removal(l, g, u)
    <3>1. /\ g \in Owners /\ g <= started /\ (g = owner => u < nextId)
          /\ \A w \in Watches : Given(g, u, w) => w \notin watches
      BY <1>2, <2>1 DEF RemoveInv
    <3>2. \A w \in Watches : Given(g, u, w) => w \in added
      BY <3>1 DEF IdInv
    <3>. QED BY <1>1, <3>1, <3>2
  <2>2. ASSUME g \in Owners, NEW w \in Watches, Given(g, u, w), w \notin watches'
        PROVE  /\ g \in Owners /\ g <= started /\ (g = owner => u < nextId)
               /\ \A v \in Watches : Given(g, u, v) => v \notin watches'
    BY <2>2 DEF IdInv
  <2>. QED BY <2>1, <2>2, RemovalStep
<1>4. g <= started' /\ (g = owner' => u < nextId')
  BY <1>2, <1>3, NextIdStep
<1>5. \A w \in Watches : ~NewId(g, u, w)
  BY <1>2, <1>3 DEF NewId
<1>. QED BY <1>1, <1>2, <1>3, <1>4, <1>5

-----------------------------------------------------------------------------
(* The index.                                                              *)

\* A watch of the table that is not waiting for a reply has one reference,
\* one that is waiting has more.
LEMMA TableCount ==
  ASSUME TypeOK, RefCountInv, NEW w \in watches
  PROVE  /\ ref[w] = 1 <=> Pending(w) = {}
         /\ w \in Watches
<1>1. w \in Watches /\ ref[w] = 1 + Cardinality(Pending(w)) /\ Cardinality(Pending(w)) \in Nat
  BY CountType DEF RefCountInv, TypeOK
<1>2. IsFiniteSet(Pending(w))
  BY OwnersFinite DEF Pending
<1>3. Cardinality(Pending(w)) = 0 <=> Pending(w) = {}
  BY <1>2, FS_EmptySet
<1>. QED BY <1>1, <1>3

\* Neither the index nor the ids changed, no call was made.
LEMMA IndexSame ==
  ASSUME IndexInv, UNCHANGED <<byUpstream, watches, upstream>>, calls' \subseteq calls
  PROVE  IndexInv'
BY DEF IndexInv, Pending

\* A watch and its index entry leave together.
LEMMA IndexRemove ==
  ASSUME TypeOK, RefCountInv, IndexInv, NEW w, RemoveInternal(w), UNCHANGED <<upstream, calls>>
  PROVE  IndexInv'
<1>1. CASE w \notin watches
  BY <1>1, IndexSame DEF RemoveInternal
<1>2. CASE w \in watches
  <2>0. w \in Watches /\ watches \subseteq Watches /\ upstream \in [Watches -> Ids \cup {0}]
        /\ byUpstream \in [Ids -> Watches \cup {NoWatch}]
    BY <1>2 DEF TypeOK
  <2>1. watches' = watches \ {w} /\ Unref(w, upstream[w], byUpstream)
    BY <1>2 DEF RemoveInternal
  <2>2. CASE upstream[w] = 0
    <3>1. byUpstream' = byUpstream
      BY <2>1, <2>2 DEF Unref
    <3>2. 0 \notin Ids
      BY DEF Ids
    <3>. QED BY <2>0, <2>1, <2>2, <3>1, <3>2 DEF IndexInv, Pending
  <2>3. CASE upstream[w] # 0
    <3>1. ref[w] = 1
      BY <1>2, <2>0, <2>3, TableCount DEF IndexInv
    <3>2. byUpstream' = [byUpstream EXCEPT ![upstream[w]] = NoWatch]
      BY <2>1, <2>3, <3>1 DEF Unref
    <3>3. \A u \in Ids : byUpstream'[u] # NoWatch =>
            byUpstream'[u] \in watches' /\ upstream[byUpstream'[u]] = u
      BY <2>0, <2>1, <3>2 DEF IndexInv
    <3>4. ASSUME NEW v \in watches', upstream[v] # 0 PROVE byUpstream'[upstream[v]] = v
      <4>1. v \in watches /\ v # w /\ upstream[v] \in Ids
        BY <2>0, <2>1, <3>4
      <4>2. byUpstream[upstream[v]] = v /\ byUpstream[upstream[w]] = w
        BY <1>2, <2>3, <3>4, <4>1 DEF IndexInv
      <4>. QED BY <2>0, <3>2, <4>1, <4>2
    <3>. QED BY <3>3, <3>4 DEF IndexInv, Pending
  <2>. QED BY <2>2, <2>3
<1>. QED BY <1>1, <1>2

\* A reply comes for a watch that has no id.
LEMMA IndexAnswer ==
  ASSUME TypeOK, RefCountInv, KnownInv, AppearInv, SentInv, NameInv, ProxyInv, ReplyInv, IdInv,
         IndexInv, OnWatchAdded
  PROVE  IndexInv'
<1> DEFINE w == Head(inbox).watch
           h == Head(inbox).owner
           u == Head(inbox).id
<1>1. /\ inbox # <<>> /\ watches' = watches /\ calls' = calls \ {<<w, h>>}
      /\ proxy' = proxy
  BY DEF OnWatchAdded, Receive
<1>2. CASE UNCHANGED <<byUpstream, upstream>>
  BY <1>1, <1>2, IndexSame
<1>3. CASE <<w, h>> \in calls /\ Head(inbox).type = "added" /\ WatchAdded(w, u)
  <2>1. /\ w \in Watches /\ u \in Ids /\ Told(proxy, u, w) /\ proxy \in Owners
        /\ Pending(w) = {h}
    BY <1>1, <1>3, AnswerFacts
  <2>2. upstream[w] = 0
    BY <2>1 DEF IndexInv
  <2>3. CASE w \notin watches
    <3>1. UNCHANGED <<byUpstream, upstream>>
      BY <1>3, <2>2, <2>3 DEF WatchAdded, Unref
    <3>. QED BY <1>2, <3>1
  <2>4. CASE w \in watches
    <3>1. ref[w] # 1
      BY <2>1, <2>4, TableCount
    <3>2. /\ upstream' = [upstream EXCEPT ![w] = u]
          /\ byUpstream' = [byUpstream EXCEPT ![u] = w]
      BY <1>3, <2>4, <3>1 DEF WatchAdded, Unref
    <3>3. \A v \in watches : upstream[v] = u => v = w
      BY <2>1 DEF IdInv, Given, TypeOK
    <3>4. 0 \notin Ids /\ watches \subseteq Watches
          /\ upstream \in [Watches -> Ids \cup {0}]
          /\ byUpstream \in [Ids -> Watches \cup {NoWatch}]
      BY DEF Ids, TypeOK
    <3>5. \A x \in Ids : byUpstream'[x] # NoWatch =>
            byUpstream'[x] \in watches /\ upstream'[byUpstream'[x]] = x
      BY <2>1, <2>2, <2>4, <3>2, <3>4 DEF IndexInv
    <3>6. \A v \in watches : upstream'[v] # 0 => byUpstream'[upstream'[v]] = v
      BY <2>1, <2>2, <2>4, <3>2, <3>3, <3>4 DEF IndexInv
    <3>7. \A v \in Watches : Pending(v)' # {} => upstream'[v] = 0
      BY <1>1, <2>1, <3>2, <3>4 DEF IndexInv, Pending
    <3>. QED BY <1>1, <3>5, <3>6, <3>7 DEF IndexInv
  <2>. QED BY <2>3, <2>4
<1>4. CASE <<w, h>> \in calls /\ WatchNotAdded(w)
  <2>1. Head(inbox) \in Messages
    BY <1>1, ReceiveType
  <2>2. w \in Watches /\ h \in Owners /\ upstream[w] = 0
    BY <1>4, <2>1 DEF IndexInv, Pending, TypeOK
  <2>3. UNCHANGED <<byUpstream, upstream>>
    BY <1>4, <2>2 DEF WatchNotAdded, Unref
  <2>. QED BY <1>2, <2>3
<1>. QED BY <1>2, <1>3, <1>4 DEF OnWatchAdded

LEMMA IndexStep ==
  ASSUME TypeOK, RefCountInv, KnownInv, AppearInv, SentInv, UnaddedInv, IdInv, IndexInv,
         ~disposed => NameInv /\ ReplyInv /\ ProxyInv, [Next]_vars
  PROVE  IndexInv'
<1> USE DEF privVars, watchVars, loopVars, mutterVars
<1>1. ASSUME NEW w \in Watches, NEW k \in {"idle", "active"}, AddWatch(w, k) PROVE IndexInv'
  <2>1. /\ w \notin added /\ watches' = watches \cup {w} /\ UNCHANGED <<byUpstream, upstream>>
        /\ calls' = calls \/ calls' = calls \cup {<<w, proxy>>}
    BY <1>1 DEF AddWatch
  <2>2. upstream[w] = 0
    BY <2>1 DEF UnaddedInv
  <2>. QED BY <2>1, <2>2 DEF IndexInv, Pending
<1>2. ASSUME NEW w \in Watches, RemoveWatch(w) PROVE IndexInv'
  BY <1>2, IndexRemove DEF RemoveWatch
<1>3. CASE Dispose
  BY <1>3 DEF Dispose, IndexInv, Pending
<1>4. CASE OnNameVanished
  <2>1. \A u \in Ids : byUpstream'[u] = NoWatch
    BY <1>4 DEF OnNameVanished, IndexInv
  <2>2. \A w \in Watches : upstream'[w] # 0 => w \notin watches /\ upstream'[w] = upstream[w]
    BY <1>4 DEF OnNameVanished
  <2>3. watches' = watches /\ calls' = calls /\ watches \subseteq Watches
    BY <1>4 DEF OnNameVanished, TypeOK
  <2>. QED BY <2>1, <2>2, <2>3 DEF IndexInv, Pending
<1>5. ASSUME NEW g \in Owners, OnObjectManagerReady(g) \/ OnObjectAdded(g) PROVE IndexInv'
  <2>1. UNCHANGED <<byUpstream, watches, upstream>> /\ ~disposed
    BY <1>5 DEF OnObjectManagerReady, OnObjectAdded
  <2>2. CASE ConnectProxy(g)
    <3>1. calls' = calls \cup (watches \X {g}) /\ \A w \in watches : upstream[w] = 0
      BY <1>5, <2>1, <2>2, ConnectFacts DEF ConnectProxy
    <3>. QED BY <2>1, <3>1 DEF IndexInv, Pending
  <2>3. CASE ~ConnectProxy(g)
    BY <1>5, <2>1, <2>3, IndexSame DEF OnObjectManagerReady, OnObjectAdded
  <2>. QED BY <2>2, <2>3
<1>6. CASE OnWatchAdded
  BY <1>6, IndexAnswer DEF OnWatchAdded
<1>7. ASSUME NEW w \in Watches, NEW g \in Owners, CallFails(w, g) PROVE IndexInv'
  <2>1. upstream[w] = 0
    BY <1>7 DEF CallFails, IndexInv, Pending
  <2>2. UNCHANGED <<byUpstream, watches, upstream>> /\ calls' \subseteq calls
    BY <1>7, <2>1 DEF CallFails, WatchNotAdded, Unref
  <2>. QED BY <2>2, IndexSame
<1>8. CASE CallbackReturns
  <2>1. RemoveInternal(block) \/ UNCHANGED <<watches, ref, byUpstream>>
    BY <1>8 DEF CallbackReturns
  <2>2. UNCHANGED <<upstream, calls>>
    BY <1>8 DEF CallbackReturns
  <2>. QED BY <2>1, <2>2, IndexRemove, IndexSame
<1>9. CASE OnNameAppeared \/ OnWatchFired \/ Discard \/ Bus \/ UNCHANGED vars
  <2>1. UNCHANGED <<byUpstream, watches, upstream, calls>>
    BY <1>9 DEF OnNameAppeared, OnWatchFired, Discard, Bus, MutterStarts, MutterExits,
         RequestArrives, MutterFires, vars
  <2>. QED BY <2>1, IndexSame
<1>. QED BY <1>1, <1>2, <1>3, <1>4, <1>5, <1>6, <1>7, <1>8, <1>9 DEF Next, MainLoop, Client

-----------------------------------------------------------------------------
(* What follows.                                                           *)

LEMMA BusInit == Init => BusInv
<1> SUFFICES ASSUME Init PROVE BusInv
  OBVIOUS
<1>1. /\ \A i : \A type, g : ~At(i, type, g)
      /\ \A i : \A g, w : ~Answered(i, g, w)
      /\ \A k : \A g, w : ~Asked(k, g, w)
      /\ \A k : \A g, u : ~Removal(k, g, u)
  BY DEF Init, At, Answered, Asked, Removal
<1>2. \A g \in Owners, u \in Ids, w \in Watches : ~Given(g, u, w)
  BY ConstantsAssumption DEF Init, Given, Told, ConstantsAssumption
<1>3. NameInv
  BY <1>1 DEF Init, NameInv
<1>4. ReplyInv /\ ProxyInv
  BY <1>1 DEF Init, ReplyInv, ProxyInv
<1>5. SentInv
  BY <1>1 DEF Init, SentInv, MessagesInv, RequestsInv, OwnersInv, NoOwner
<1>6. IdInv /\ RemoveInv
  BY <1>1, <1>2 DEF IdInv, RemoveInv
<1>7. UnaddedInv /\ IndexInv
  BY DEF Init, UnaddedInv, IndexInv, Pending
<1>. QED BY <1>3, <1>4, <1>5, <1>6, <1>7 DEF BusInv

LEMMA BusStep == IInv /\ BusInv /\ [Next]_vars => BusInv'
<1> SUFFICES ASSUME IInv, BusInv, [Next]_vars PROVE BusInv'
  OBVIOUS
<1>1. /\ TypeOK /\ KnownInv /\ AppearInv /\ MutterInv /\ RefCountInv
      /\ SentInv /\ UnaddedInv /\ IdInv /\ RemoveInv /\ IndexInv
      /\ ~disposed => NameInv /\ ReplyInv /\ ProxyInv
  BY DEF IInv, BusInv
<1>2. disposed => disposed'
  BY DEF Next, MainLoop, Client, Bus, OnNameAppeared, OnNameVanished, OnObjectManagerReady,
     OnObjectAdded, OnWatchAdded, CallFails, OnWatchFired, CallbackReturns, Discard, AddWatch,
     RemoveWatch, Dispose, MutterStarts, MutterExits, RequestArrives, MutterFires, vars,
     privVars
<1>3. ~disposed' => NameInv' /\ ReplyInv' /\ ProxyInv'
  BY <1>1, <1>2, NameStep, ReplyStep, ProxyStep
<1>4. SentInv' /\ UnaddedInv'
  BY <1>1, SentStep, UnaddedStep
<1>5. IdInv'
  BY <1>1, IdStep
<1>6. RemoveInv'
  BY <1>1, RemoveStep
<1>7. IndexInv'
  BY <1>1, IndexStep
<1>. QED BY <1>3, <1>4, <1>5, <1>6, <1>7 DEF BusInv

LEMMA BusInductive == Spec => [](IInv /\ BusInv)
<1>1. Init => BusInv
  BY BusInit
<1>2. IInv /\ BusInv /\ [Next]_vars => BusInv'
  BY BusStep
<1>3. QED
  BY <1>1, <1>2, Inductive, PTL DEF Spec

\* watches_by_upstream_id is exactly the inverse of the upstream ids of the
\* watches in the table (on_watch_added, clear_watch, idle_monitor_watch_unref),
\* over any number of restarts of Mutter and whatever is in flight.
THEOREM IndexStaysExact == Spec => []IndexInv
<1>1. BusInv => IndexInv
  BY DEF BusInv
<1>2. QED
  BY <1>1, BusInductive, PTL

\* Every RemoveWatch goes to the Mutter that handed out the id, for a watch the
\* client no longer has (gnome_idle_monitor_remove_watch, on_watch_added).
THEOREM RemovalsReachTheirMutter == Spec => []RemoveReachesItsMutter
<1>1. IInv /\ BusInv => RemoveReachesItsMutter
  <2> SUFFICES ASSUME IInv, BusInv, NEW i \in DOMAIN outbox, outbox[i].op = "remove"
               PROVE  /\ outbox[i].owner # NoOwner
                      /\ outbox[i].owner = owner /\ registered[outbox[i].id] # NoWatch =>
                           registered[outbox[i].id] \notin watches
    BY DEF RemoveReachesItsMutter
  <2>1. TypeOK /\ RemoveInv
    BY DEF IInv, BusInv
  <2>2. i \in Nat /\ i \in 1..Len(outbox) /\ outbox[i] \in Requests
    BY <2>1 DEF TypeOK
  <2>3. outbox[i].owner \in Owners \cup {NoOwner} /\ outbox[i].id \in Ids
    BY <2>2 DEF Requests
  <2>4. Removal(i, outbox[i].owner, outbox[i].id)
    BY <2>2 DEF Removal
  <2>5. /\ outbox[i].owner # NoOwner
        /\ \A w \in Watches : Given(outbox[i].owner, outbox[i].id, w) => w \notin watches
    BY <2>1, <2>2, <2>3, <2>4 DEF RemoveInv
  <2>. QED BY <2>1, <2>3, <2>5 DEF Given, TypeOK
<1>2. QED
  BY <1>1, BusInductive, PTL

LEMMA CallStep == IInv /\ BusInv /\ OnWatchFired /\ callee' # NoWatch =>
                    callee' = Head(inbox).watch /\ callee' \in watches
<1> SUFFICES ASSUME IInv, BusInv, OnWatchFired, callee' # NoWatch
             PROVE  callee' = Head(inbox).watch /\ callee' \in watches
  OBVIOUS
<1>1. /\ TypeOK /\ IdInv /\ IndexInv /\ NameInv /\ ProxyInv
      /\ inbox # <<>> /\ Head(inbox).type = "fired"
  BY DEF IInv, BusInv, OnWatchFired, Receive
<1>2. Head(inbox) \in Messages /\ Head(inbox) = inbox[1] /\ 1 \in 1..Len(inbox)
  BY <1>1, ReceiveType DEF TypeOK
<1>3. PICK w \in Watches, h \in Owners, u \in Ids :
        Head(inbox).watch = w /\ Head(inbox).owner = h /\ Head(inbox).id = u
  BY <1>1, <1>2 DEF Messages
<1>4. At(1, "fired", h) /\ Told(h, u, w)
  BY <1>1, <1>2, <1>3 DEF At, Told
<1>5. nameOwner = h
  <2>1. nameOwner = h \/ \E j \in Nat : j < 1 /\ At(j, "appeared", h)
    BY <1>1, <1>4 DEF NameInv
  <2>. QED BY <2>1 DEF At
<1>6. PICK v \in watches : callee' = v /\ byUpstream[u] = v /\ upstream[v] = u
  BY <1>1, <1>3 DEF OnWatchFired, IndexInv
<1>7. v \in Watches /\ u # 0
  BY <1>1 DEF TypeOK, Ids
<1>8. Given(h, u, v)
  BY <1>1, <1>5, <1>6, <1>7 DEF ProxyInv, Given
<1>. QED BY <1>1, <1>3, <1>4, <1>6, <1>7, <1>8 DEF IdInv, Given

\* on_watch_fired calls the watch Mutter fired the signal for, and only while
\* the client has not removed it: no id of an instance that is gone is taken
\* for one of the instance that followed it.
THEOREM TheRightWatchIsCalled == Spec => CallsTheRightWatch
<1>1. IInv /\ BusInv /\ [Next]_vars =>
        [callee' # NoWatch /\ callee = NoWatch =>
           callee' = Head(inbox).watch /\ callee' \in watches]_vars
  <2>1. ASSUME Client \/ (MainLoop /\ ~OnWatchFired) \/ Bus \/ UNCHANGED vars,
               callee = NoWatch
        PROVE  callee' = NoWatch
    BY <2>1 DEF Client, AddWatch, RemoveWatch, Dispose, MainLoop, OnNameAppeared,
         OnNameVanished, OnObjectManagerReady, OnObjectAdded, OnWatchAdded, CallFails,
         CallbackReturns, Discard, Bus, MutterStarts, MutterExits, RequestArrives,
         MutterFires, vars, loopVars
  <2>. QED BY <2>1, CallStep DEF Next
<1>2. QED
  BY <1>1, BusInductive, PTL DEF Spec, CallsTheRightWatch

\* What on_watch_fired points to means another watch than the one it called only
\* after the callback has removed its own.
ReusedInv ==
  /\ callee # NoWatch => callee \in added
  /\ callee # NoWatch /\ block # callee => callee \notin watches

LEMMA ReusedStep == IInv /\ BusInv /\ ReusedInv /\ [Next]_vars => ReusedInv'
<1> SUFFICES ASSUME IInv, BusInv, ReusedInv, [Next]_vars PROVE ReusedInv'
  OBVIOUS
<1> USE DEF ReusedInv
<1>1. ASSUME NEW w \in Watches, NEW k \in {"idle", "active"}, AddWatch(w, k)
      PROVE  ReusedInv'
  <2>1. /\ w \notin added /\ added' = added \cup {w} /\ watches' = watches \cup {w}
        /\ callee' = callee
        /\ block' = block \/ (callee # NoWatch /\ ref[block] = 0)
    BY <1>1 DEF AddWatch
  <2>2. ASSUME callee # NoWatch, block = callee, ref[block] = 0
        PROVE  callee \notin watches
    <3>1. callee \in Watches /\ Cardinality(Pending(callee)) \in Nat
      BY <2>2, OwnersFinite DEF IInv, TypeOK, Pending
    <3>2. QED
      BY <2>2, <3>1 DEF IInv, RefCountInv
  <2>3. QED
    BY <2>1, <2>2
<1>2. ASSUME NEW w \in Watches, RemoveWatch(w)
      PROVE  ReusedInv'
  BY <1>2 DEF RemoveWatch, RemoveInternal, loopVars
<1>3. CASE OnWatchFired
  <2>1. inbox # <<>> /\ Head(inbox).type = "fired" /\ Head(inbox) \in Messages
    BY <1>3, ReceiveType DEF OnWatchFired, Receive, IInv
  <2>2. callee' = byUpstream[Head(inbox).id] /\ block' = callee' /\ Head(inbox).id \in Ids
        /\ added' = added
    BY <1>3, <2>1 DEF OnWatchFired, Messages, watchVars
  <2>3. QED
    BY <2>2 DEF BusInv, IndexInv, IInv, KnownInv
<1>4. CASE CallbackReturns
  BY <1>4 DEF CallbackReturns
<1>5. CASE UNCHANGED <<added, watches, callee, block>>
  BY <1>5
<1>6. CASE Dispose \/ (MainLoop /\ ~OnWatchFired /\ ~CallbackReturns) \/ Bus \/ UNCHANGED vars
  <2>1. added' = added /\ callee' = callee /\ block' = block /\ watches' \subseteq watches
    BY <1>6 DEF Dispose, MainLoop, OnNameAppeared, OnNameVanished, OnObjectManagerReady,
         OnObjectAdded, ConnectProxy, OnWatchAdded, CallFails, Receive, Discard, Bus,
         MutterStarts, MutterExits, RequestArrives, MutterFires, privVars, watchVars,
         loopVars, vars
  <2>2. QED
    BY <2>1
<1>7. QED
  BY <1>1, <1>2, <1>3, <1>4, <1>6 DEF Next, Client

\* When the callback of a watch returns (on_watch_fired), another watch leaves
\* the table with it only if the callback had removed its own watch, and if the
\* other is a one-time watch too: whether or not malloc reuses memory at once.
THEOREM CallbacksRemoveOnlyThemselves ==
  Spec => [][callee # NoWatch /\ callee' = NoWatch =>
               \A w \in watches \ watches' :
                 w = callee \/ (callee \notin watches /\ kind[w] = "active")]_vars
<1> DEFINE Taken == callee # NoWatch /\ callee' = NoWatch =>
                      \A w \in watches \ watches' :
                        w = callee \/ (callee \notin watches /\ kind[w] = "active")
<1>1. Init => ReusedInv
  BY DEF Init, ReusedInv
<1>2. IInv /\ BusInv /\ ReusedInv /\ [Next]_vars => ReusedInv'
  BY ReusedStep
<1>3. ReusedInv /\ [Next]_vars => [Taken]_vars
  <2> SUFFICES ASSUME ReusedInv, Next, callee # NoWatch, callee' = NoWatch
               PROVE  Taken
    OBVIOUS
  <2>1. CallbackReturns
    BY DEF Next, MainLoop, Client, Bus, OnNameAppeared, OnNameVanished,
           OnObjectManagerReady, OnObjectAdded, OnWatchAdded, CallFails,
           OnWatchFired, Discard, Receive, AddWatch, RemoveWatch, Dispose,
           MutterStarts, MutterExits, RequestArrives, MutterFires,
           privVars, watchVars, loopVars
  <2>2. QED
    BY <2>1 DEF CallbackReturns, RemoveInternal, ReusedInv
<1>4. QED
  BY <1>1, <1>2, <1>3, BusInductive, PTL DEF Spec

-----------------------------------------------------------------------------
(* What the client sees.                                                   *)

OneTime == {w \in added : kind[w] = "active"}

\* Only the client adds watches, and a watch stays what it was added as.
LEMMA OneTimeStep ==
  ASSUME [Next]_vars, ~Client
  PROVE  UNCHANGED <<added, kind>>
BY DEF Next, MainLoop, OnNameAppeared,
       OnNameVanished, OnObjectManagerReady, OnObjectAdded, OnWatchAdded, CallFails,
       OnWatchFired, CallbackReturns, Discard, Bus, MutterStarts, MutterExits, RequestArrives,
       MutterFires, vars, watchVars

\* Every step of the monitor, the bus or Mutter is one of the service or none.
LEMMA ServiceStep ==
  ASSUME IInv, BusInv, BlockInv, [Next]_vars
  PROVE  [Service!Next]_(Service!vars)
<1> USE DEF privVars, watchVars, loopVars, mutterVars
<1>0. /\ TypeOK /\ KnownInv
      /\ watches \subseteq added /\ added \subseteq Watches
      /\ NoWatch \notin Watches
  BY ConstantsAssumption DEF IInv, KnownInv, TypeOK, ConstantsAssumption
<1>1. ASSUME NEW w \in Watches, NEW k \in {"idle", "active"}, AddWatch(w, k)
      PROVE  Service!Add(w)
  <2>1. /\ w \notin added /\ added' = added \cup {w} /\ watches' = watches \cup {w}
        /\ callee' = callee /\ kind' = [kind EXCEPT ![w] = k]
    BY <1>1 DEF AddWatch
  <2>2. \A v \in added : kind'[v] = kind[v]
    BY <1>0, <2>1 DEF TypeOK
  <2>3. kind'[w] = k
    BY <2>1 DEF TypeOK, IInv
  <2>4. OneTime' = IF k = "active" THEN OneTime \cup {w} ELSE OneTime
    BY <2>1, <2>2, <2>3 DEF OneTime
  <2>. QED BY <2>1, <2>4 DEF Service!Add, OneTime
<1>2. ASSUME NEW w \in Watches, RemoveWatch(w) PROVE Service!Remove(w)
  BY <1>2 DEF RemoveWatch, RemoveInternal, Service!Remove
<1>3. CASE Dispose
  BY <1>3 DEF Dispose, Service!Close, Service!Next
<1>4. CASE OnWatchFired /\ callee' # NoWatch
  <2>1. callee = NoWatch /\ UNCHANGED <<added, kind, watches>>
    BY <1>4 DEF OnWatchFired, Receive
  <2>2. callee' \in watches /\ callee' \in Watches
    BY <1>0, <1>4, CallStep
  <2>3. Service!Call(callee')
    BY <2>1, <2>2 DEF Service!Call
  <2>. QED BY <2>2, <2>3 DEF Service!Next
<1>5. CASE CallbackReturns
  <2>1. callee # NoWatch /\ callee' = NoWatch /\ UNCHANGED <<added, kind>> /\ block = callee
    BY <1>5 DEF CallbackReturns, BlockInv
  <2>2. watches' = watches \ ({callee} \cap OneTime)
    BY <1>0, <1>5, <2>1 DEF CallbackReturns, RemoveInternal, OneTime
  <2>3. Service!Return
    BY <2>1, <2>2 DEF Service!Return, OneTime
  <2>. QED BY <2>3 DEF Service!Next
<1>6. ASSUME (MainLoop /\ ~(OnWatchFired /\ callee' # NoWatch) /\ ~CallbackReturns)
             \/ Bus \/ UNCHANGED vars
      PROVE  UNCHANGED <<added, kind, watches, callee>>
  BY <1>6 DEF MainLoop, OnNameAppeared,
       OnNameVanished, OnObjectManagerReady, OnObjectAdded, OnWatchAdded, CallFails,
       OnWatchFired, Receive, Discard, Bus, MutterStarts, MutterExits, RequestArrives,
       MutterFires, vars
<1>7. CASE UNCHANGED <<added, kind, watches, callee>>
  BY <1>7 DEF Service!vars
<1>8. CASE Client
  BY <1>1, <1>2, <1>3, <1>8 DEF Client, Service!Next
<1>9. CASE MainLoop \/ Bus \/ UNCHANGED vars
  BY <1>4, <1>5, <1>6, <1>7, <1>9
<1>. QED BY <1>8, <1>9 DEF Next

\* Seen by its client the monitor is a WatchService: restarts of Mutter, calls
\* in flight, late answers and ids handed out anew do not show, as long as no
\* new watch is made in the memory of the one whose callback is running.
THEOREM MonitorImplementsService ==
  ASSUME ReuseFreed = FALSE
  PROVE  Spec => ImplementsService
<1>1. Init => BlockInv /\ Service!Init
  BY DEF Init, BlockInv, Service!Init
<1>2. BlockInv /\ [Next]_vars => BlockInv'
  BY BlockStep
<1>3. IInv /\ BusInv /\ BlockInv /\ [Next]_vars => [Service!Next]_(Service!vars)
  BY ServiceStep
<1>4. QED
  BY <1>1, <1>2, <1>3, BusInductive, PTL DEF Spec, ImplementsService, Service!Spec

=============================================================================
