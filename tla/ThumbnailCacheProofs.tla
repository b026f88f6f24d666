------------------------ MODULE ThumbnailCacheProofs -------------------------
(***************************************************************************)
(* No reader of the cache ever sees half a thumbnail, and save_thumbnail   *)
(* leaves no temporary file, for any number of threads, sizes and URIs,    *)
(* whatever fails, whoever cancels, and when the cache is deleted or the   *)
(* programs end between any two system calls.  And the calls implement     *)
(* ThumbnailStore, step by step, unless g_rename fails.                    *)
(***************************************************************************)
EXTENDS ThumbnailCache, TLAPS

\* What is about to be renamed into place is whole.
WholeInv ==
  \A t \in Threads : pc[t] = "rename" /\ temp[t] # None => temp[t].whole

\* After the unlink there is no temporary file, up to the next mkstemp.
UnlinkedInv ==
  \A t \in Threads : pc[t] \in {"idle", "can_thumbnail", "generate", "forget", "return"}
                     => temp[t] = None

IInv == TypeOK /\ WholeInv /\ UnlinkedInv /\ NoPartialThumbnails

LEMMA SizesAreSizes ==
  ASSUME TypeOK, NEW t \in Threads
  PROVE SizeOf[t] \in Sizes /\ Dir(t) \in Sizes \cup {"fail"}
BY CacheAssumption DEF TypeOK, SizeOf, Dir

LEMMA FilesAreFiles ==
  ASSUME NEW m \in MTimes, NEW w \in BOOLEAN
  PROVE [mtime |-> m, whole |-> w] \in Files
BY DEF Files

LEMMA InitHolds == Init => IInv
BY CacheAssumption
   DEF Init, IInv, TypeOK, WholeInv, UnlinkedInv, NoPartialThumbnails, MTimes, Steps

\* The variables of calls that are over keep their types.
LEMMA NoCallsType ==
  ASSUME TypeOK, NEW T, NoCalls(T)
  PROVE /\ mtime' \in [Threads -> MTimes]
        /\ op' \in [Threads -> {"save", "create_failed"}]
        /\ place' \in [Threads -> {"thumb", "fail"}]
        /\ ret' \in [Threads -> {"ok", "failed", "cancelled"}]
        /\ cancelled' \in [Threads -> BOOLEAN]
<1>1. 0 \in MTimes
  BY CacheAssumption DEF MTimes
<1>. QED BY <1>1 DEF TypeOK, NoCalls

\* Steps that leave the files alone.
LEMMA CallStep ==
  ASSUME IInv, NEW t \in Threads,
         \/ \E u \in Uris : Lookup(t, u)
         \/ CanThumbnail(t)
         \/ \E call \in {"save", "create_failed"} : Generate(t, call)
         \/ CheckCancelled(t) \/ Return(t) \/ Cancel(t)
  PROVE IInv'
<1>1. ASSUME NEW u \in Uris, Lookup(t, u) PROVE IInv'
  BY <1>1 DEF Lookup, Goto, At, fileVars, IInv, TypeOK, Steps, WholeInv, UnlinkedInv,
              NoPartialThumbnails
<1>2. CASE CanThumbnail(t)
  <2>1. CASE Goto(t, "idle") /\ NoCalls({t})
    BY <1>2, <2>1, NoCallsType
       DEF CanThumbnail, Goto, At, fileVars, IInv, TypeOK, Steps, WholeInv, UnlinkedInv,
           NoPartialThumbnails
  <2>2. CASE Goto(t, "generate") /\ UNCHANGED <<mtime, op, place, ret, cancelled>>
    BY <1>2, <2>2
       DEF CanThumbnail, Goto, At, fileVars, IInv, TypeOK, Steps, WholeInv, UnlinkedInv,
           NoPartialThumbnails
  <2>. QED BY <1>2, <2>1, <2>2 DEF CanThumbnail
<1>3. ASSUME NEW call \in {"save", "create_failed"}, Generate(t, call) PROVE IInv'
  BY <1>3 DEF Generate, Goto, At, fileVars, IInv, TypeOK, Steps, WholeInv, UnlinkedInv,
              NoPartialThumbnails
<1>4. CASE CheckCancelled(t)
  BY <1>4 DEF CheckCancelled, Goto, At, fileVars, callVars, IInv, TypeOK, Steps, WholeInv,
              UnlinkedInv, NoPartialThumbnails
<1>5. CASE Return(t)
  BY <1>5, NoCallsType
     DEF Return, Goto, At, fileVars, IInv, TypeOK, Steps, WholeInv, UnlinkedInv,
         NoPartialThumbnails
<1>6. CASE Cancel(t)
  BY <1>6 DEF Cancel, fileVars, callVars, IInv, TypeOK, WholeInv, UnlinkedInv,
              NoPartialThumbnails
<1>. QED BY <1>1, <1>2, <1>3, <1>4, <1>5, <1>6

\* save_thumbnail up to its g_rename writes only the thread's own file.
LEMMA WriteStep ==
  ASSUME IInv, NEW t \in Threads,
         MkdirWithParents(t) \/ Mkstemp(t) \/ WriteImage(t)
  PROVE IInv'
<1>1. CASE MkdirWithParents(t)
  <2>1. /\ ret' = [ret EXCEPT ![t] = "failed"]
        /\ UNCHANGED <<setup, now, thumb, failed, temp, callVars, place, cancelled>>
    BY <1>1 DEF MkdirWithParents
  <2>2. dirs' \subseteq Sizes \cup {"fail"}
    BY <1>1, SizesAreSizes DEF MkdirWithParents, IInv, TypeOK
  <2>3. \E label \in {"mkstemp", "unlink"} : pc' = [pc EXCEPT ![t] = label]
    BY <1>1 DEF MkdirWithParents, Goto
  <2>4. TypeOK'
    <3>1. pc' \in [Threads -> Steps]
      BY <2>3 DEF IInv, TypeOK, Steps
    <3>. QED BY <2>1, <2>2, <3>1 DEF callVars, IInv, TypeOK
  <2>5. WholeInv' /\ UnlinkedInv' /\ NoPartialThumbnails'
    BY <2>1, <2>3 DEF IInv, TypeOK, WholeInv, UnlinkedInv, NoPartialThumbnails
  <2>. QED BY <2>4, <2>5 DEF IInv
<1>2. CASE Mkstemp(t)
  <2>1. [mtime |-> mtime[t], whole |-> FALSE] \in Files
    BY FilesAreFiles DEF IInv, TypeOK
  <2>2. temp' \in [Threads -> Files \cup {None}] /\ pc' \in [Threads -> Steps]
    BY <1>2, <2>1 DEF Mkstemp, Goto, IInv, TypeOK, Steps
  <2>. QED BY <1>2, <2>2
           DEF Mkstemp, Goto, At, callVars, IInv, TypeOK, WholeInv, UnlinkedInv,
               NoPartialThumbnails
<1>3. CASE WriteImage(t)
  <2>1. [mtime |-> mtime[t], whole |-> TRUE] \in Files
    BY FilesAreFiles DEF IInv, TypeOK
  <2>2. temp' \in [Threads -> Files \cup {None}] /\ pc' \in [Threads -> Steps]
    BY <1>3, <2>1 DEF WriteImage, Goto, IInv, TypeOK, Steps
  <2>3. TypeOK'
    BY <1>3, <2>2 DEF WriteImage, callVars, IInv, TypeOK
  <2>4. WholeInv' /\ UnlinkedInv'
    <3>1. \A s \in Threads \ {t} : temp'[s] = temp[s] /\ pc'[s] = pc[s]
      BY <1>3 DEF WriteImage, Goto, IInv, TypeOK
    <3>2. \/ pc'[t] = "rename" /\ temp'[t] = [mtime |-> mtime[t], whole |-> TRUE]
          \/ pc'[t] = "unlink"
      BY <1>3 DEF WriteImage, Goto, IInv, TypeOK
    <3>. QED BY <3>1, <3>2 DEF IInv, WholeInv, UnlinkedInv
  <2>5. NoPartialThumbnails'
    BY <1>3 DEF WriteImage, IInv, NoPartialThumbnails
  <2>. QED BY <2>3, <2>4, <2>5 DEF IInv
<1>. QED BY <1>1, <1>2, <1>3

\* g_rename puts a whole file in place, or changes nothing.
LEMMA RenameStep ==
  ASSUME IInv, NEW t \in Threads, Rename(t)
  PROVE IInv'
<1>1. /\ pc[t] = "rename" /\ pc' = [pc EXCEPT ![t] = "check"]
      /\ UNCHANGED <<setup, now, dirs, callVars, place, ret, cancelled>>
  BY DEF Rename, At, Goto
<1>2. CASE UNCHANGED <<thumb, failed, temp>>
  BY <1>1, <1>2 DEF callVars, IInv, TypeOK, Steps, WholeInv, UnlinkedInv, NoPartialThumbnails
<1>3. CASE /\ temp[t] # None
           /\ temp' = [temp EXCEPT ![t] = None]
           /\ IF place[t] = "fail"
              THEN failed' = [failed EXCEPT ![uri[t]] = temp[t]] /\ UNCHANGED thumb
              ELSE thumb' = [thumb EXCEPT ![SizeOf[t]][uri[t]] = temp[t]]
                   /\ UNCHANGED failed
  <2>1. temp[t] \in Files /\ temp[t].whole /\ uri[t] \in Uris /\ SizeOf[t] \in Sizes
    BY <1>1, <1>3, SizesAreSizes DEF IInv, TypeOK, WholeInv
  <2>2. failed' \in [Uris -> Files \cup {None}]
    BY <1>3, <2>1 DEF IInv, TypeOK
  <2>3. thumb' \in [Sizes -> [Uris -> Files \cup {None}]]
    BY <1>3, <2>1 DEF IInv, TypeOK
  <2>4. NoPartialThumbnails'
    <3>1. \A u \in Uris : failed'[u] # None => failed'[u].whole
      <4> SUFFICES ASSUME NEW u \in Uris, failed'[u] # None PROVE failed'[u].whole
        OBVIOUS
      <4>1. failed \in [Uris -> Files \cup {None}]
        BY DEF IInv, TypeOK
      <4>2. failed'[u] = failed[u] \/ failed'[u] = temp[t]
        BY <1>3, <4>1
      <4>3. NoPartialThumbnails
        BY DEF IInv
      <4>. QED BY <2>1, <4>2, <4>3 DEF NoPartialThumbnails
    <3>2. \A u \in Uris, s \in Sizes : thumb'[s][u] # None => thumb'[s][u].whole
      <4> SUFFICES ASSUME NEW u \in Uris, NEW s \in Sizes, thumb'[s][u] # None
                   PROVE thumb'[s][u].whole
        OBVIOUS
      <4>1. thumb \in [Sizes -> [Uris -> Files \cup {None}]]
        BY DEF IInv, TypeOK
      <4>2. thumb'[s][u] = thumb[s][u] \/ thumb'[s][u] = temp[t]
        BY <1>3, <2>1, <4>1
      <4>3. NoPartialThumbnails
        BY DEF IInv
      <4>. QED BY <2>1, <4>2, <4>3 DEF NoPartialThumbnails
    <3>. QED BY <3>1, <3>2 DEF NoPartialThumbnails
  <2>5. TypeOK'
    BY <1>1, <1>3, <2>2, <2>3 DEF callVars, IInv, TypeOK, Steps
  <2>6. WholeInv' /\ UnlinkedInv'
    BY <1>1, <1>3 DEF IInv, TypeOK, WholeInv, UnlinkedInv
  <2>. QED BY <2>4, <2>5, <2>6 DEF IInv
<1>. QED BY <1>2, <1>3 DEF Rename

\* The end of save_thumbnail, and the failure that is forgotten.
LEMMA UnlinkStep ==
  ASSUME IInv, NEW t \in Threads, Unlink(t) \/ ForgetFailure(t)
  PROVE IInv'
<1>1. CASE Unlink(t)
  <2>1. /\ temp' = [temp EXCEPT ![t] = None] /\ pc[t] = "unlink"
        /\ UNCHANGED <<setup, now, thumb, failed, dirs, callVars, ret, cancelled>>
    BY <1>1 DEF Unlink, At
  <2>2. \E label \in {"mkdir", "forget", "return"} : pc' = [pc EXCEPT ![t] = label]
    BY <1>1 DEF Unlink, Goto
  <2>3. place' \in [Threads -> {"thumb", "fail"}]
    BY <1>1 DEF Unlink, IInv, TypeOK
  <2>4. TypeOK'
    <3>1. pc' \in [Threads -> Steps]
      BY <2>2 DEF IInv, TypeOK, Steps
    <3>2. temp' \in [Threads -> Files \cup {None}]
      BY <2>1 DEF IInv, TypeOK
    <3>. QED BY <2>1, <2>3, <3>1, <3>2 DEF callVars, IInv, TypeOK
  <2>5. WholeInv' /\ UnlinkedInv'
    <3>1. \A s \in Threads \ {t} : temp'[s] = temp[s] /\ pc'[s] = pc[s]
      BY <2>1, <2>2 DEF IInv, TypeOK
    <3>2. temp'[t] = None /\ pc'[t] # "rename"
      BY <2>1, <2>2 DEF IInv, TypeOK
    <3>. QED BY <3>1, <3>2 DEF IInv, WholeInv, UnlinkedInv
  <2>6. NoPartialThumbnails'
    BY <2>1 DEF IInv, NoPartialThumbnails
  <2>. QED BY <2>4, <2>5, <2>6 DEF IInv
<1>2. CASE ForgetFailure(t)
  BY <1>2 DEF ForgetFailure, Goto, At, callVars, IInv, TypeOK, Steps, WholeInv, UnlinkedInv,
              NoPartialThumbnails
<1>. QED BY <1>1, <1>2

\* What happens around the threads.
LEMMA WorldStep ==
  ASSUME IInv, (\E u \in Uris : Touch(u)) \/ Crash \/ Clean
  PROVE IInv'
<1>1. ASSUME NEW u \in Uris, Touch(u) PROVE IInv'
  <2>1. now' \in [Uris -> MTimes]
    BY <1>1, CacheAssumption DEF Touch, IInv, TypeOK, MTimes
  <2>. QED BY <1>1, <2>1
           DEF Touch, fileVars, callVars, IInv, TypeOK, WholeInv, UnlinkedInv,
               NoPartialThumbnails
<1>2. CASE Crash
  BY <1>2, NoCallsType
     DEF Crash, IInv, TypeOK, Steps, WholeInv, UnlinkedInv, NoPartialThumbnails
<1>3. CASE Clean
  BY <1>3 DEF Clean, callVars, IInv, TypeOK, WholeInv, UnlinkedInv, NoPartialThumbnails
<1>. QED BY <1>1, <1>2, <1>3

LEMMA IInvStep == IInv /\ [Next]_vars => IInv'
<1> SUFFICES ASSUME IInv, [Next]_vars PROVE IInv'
  OBVIOUS
<1>1. ASSUME NEW t \in Threads, Work(t) PROVE IInv'
  BY <1>1, CallStep, WriteStep, RenameStep, UnlinkStep DEF Work
<1>2. CASE Next
  BY <1>1, <1>2, CallStep, WorldStep DEF Next
<1>3. CASE UNCHANGED vars
  BY <1>3 DEF vars, fileVars, callVars, IInv, TypeOK, WholeInv, UnlinkedInv,
              NoPartialThumbnails
<1>. QED BY <1>2, <1>3

LEMMA Inductive == Spec => []IInv
BY InitHolds, IInvStep, PTL DEF Spec

\* The cache and the calls on it have their types.
THEOREM TypeCorrect == Spec => []TypeOK
<1>1. IInv => TypeOK
  BY DEF IInv
<1>. QED BY <1>1, Inductive, PTL

\* A thumbnail in its place is whole, and no way out of save_thumbnail leaves
\* its temporary file (save_thumbnail's mkstemp, save, rename and unlink).
THEOREM SavesAreAtomic == Spec => []NothingHalfWritten
<1>1. IInv => NothingHalfWritten
  BY DEF IInv, UnlinkedInv, NothingHalfWritten, NoTemporaryLeft
<1>. QED BY <1>1, Inductive, PTL

-----------------------------------------------------------------------------
(* The calls implement ThumbnailStore in a world where g_rename does not   *)
(* fail.  (Where it does, save_thumbnail reports a thumbnail it did not    *)
(* put in place.)                                                          *)

Before == {"idle", "can_thumbnail", "generate"}

\* What a thread's variables say of its call: how save_thumbnail stands, that
\* only saving puts a thumbnail, and that its file is of the mtime it has.
CallOf(t) ==
  /\ pc[t] \in {"rename", "check", "forget"} => ret[t] = "ok"
  /\ pc[t] \in Before \cup {"mkdir", "mkstemp", "write"} => ret[t] = "failed"
  /\ pc[t] \notin Before /\ place[t] = "thumb" => op[t] = "save"
  /\ pc[t] = "forget" => place[t] = "thumb"
  /\ ret[t] = "cancelled" => cancelled[t]
  /\ temp[t] # None => temp[t].mtime = mtime[t]

CallInv == \A t \in Threads : CallOf(t)

RInv == IInv /\ CallInv /\ "rename" \notin Faults

\* What ThumbnailStore sees.
JobOf(t) == IF pc[t] \in Before THEN None
            ELSE [op |-> op[t], size |-> SizeOf[t], uri |-> uri[t],
                  mtime |-> mtime[t], did |-> Done(t)]
JobsNow == [t \in Threads |-> JobOf(t)]
ThumbNow == [s \in Sizes |-> [u \in Uris |-> Where(thumb[s][u])]]
FailedNow == [u \in Uris |-> Where(failed[u])]

LEMMA StoreSees ==
  /\ Store!vars = <<ThumbNow, FailedNow, JobsNow>>
  /\ Store!vars' = <<ThumbNow', FailedNow', JobsNow'>>
BY DEF Store!vars, ThumbNow, FailedNow, JobsNow, JobOf, Before

\* A step of one thread leaves the calls of the others alone.
Only(t) ==
  /\ UNCHANGED setup
  /\ \A s \in Threads \ {t} :
       UNCHANGED <<pc[s], uri[s], mtime[s], op[s], place[s], ret[s], cancelled[s], temp[s]>>

LEMMA OthersStay ==
  ASSUME NEW t \in Threads, Only(t), CallInv, CallOf(t)'
  PROVE  CallInv' /\ JobsNow' = [JobsNow EXCEPT ![t] = JobOf(t)']
<1>1. ASSUME NEW s \in Threads \ {t} PROVE CallOf(s)' /\ JobOf(s)' = JobOf(s)
  <2>1. /\ setup' = setup /\ pc'[s] = pc[s] /\ uri'[s] = uri[s] /\ mtime'[s] = mtime[s]
        /\ op'[s] = op[s] /\ place'[s] = place[s] /\ ret'[s] = ret[s]
        /\ cancelled'[s] = cancelled[s] /\ temp'[s] = temp[s]
    BY <1>1 DEF Only
  <2>2. CallOf(s)'
    BY <1>1, <2>1 DEF CallInv, CallOf
  <2>3. Done(s)' = Done(s)
    BY <2>1 DEF Done, Moved, Succeeds, At
  <2>. QED BY <2>1, <2>2, <2>3 DEF JobOf, SizeOf
<1>. QED BY <1>1 DEF CallInv, JobsNow

\* Calls have the type of jobs, and None is none of them.
LEMMA JobIsNoNone ==
  ASSUME TypeOK, NEW t \in Threads, pc[t] \notin Before
  PROVE  JobOf(t) # None
<1>1. SizeOf[t] \in Sizes
  BY SizesAreSizes
<1>2. Done(t) \subseteq {"put", "mark", "forget", "cancel"}
  BY DEF Done
<1>. QED BY <1>1, <1>2, StoreAssumption DEF JobOf, Store!Jobs, TypeOK

\* Steps that do nothing the store sees, in their order.
LEMMA HiddenStep ==
  ASSUME RInv, NEW t \in Threads,
         \/ \E u \in Uris : Lookup(t, u)
         \/ CanThumbnail(t) \/ MkdirWithParents(t) \/ Mkstemp(t) \/ WriteImage(t)
         \/ CheckCancelled(t) \/ Unlink(t)
  PROVE  /\ Only(t) /\ CallOf(t)' /\ JobOf(t)' = JobOf(t)
         /\ UNCHANGED <<thumb, failed>>
<1>. TypeOK /\ CallOf(t)
  BY DEF RInv, IInv, CallInv
<1>1. ASSUME NEW u \in Uris, Lookup(t, u)
      PROVE  /\ Only(t) /\ CallOf(t)' /\ JobOf(t)' = JobOf(t) /\ UNCHANGED <<thumb, failed>>
  <2>1. pc[t] = "idle" /\ temp[t] = None
    BY <1>1 DEF Lookup, At, RInv, IInv, UnlinkedInv
  <2>. QED BY <1>1, <2>1
           DEF Lookup, Goto, fileVars, TypeOK, Only, CallOf, JobOf, Before
<1>2. CASE CanThumbnail(t)
  <2>1. pc[t] = "can_thumbnail" /\ temp[t] = None
    BY <1>2 DEF CanThumbnail, At, RInv, IInv, UnlinkedInv
  <2>2. CASE Goto(t, "idle") /\ NoCalls({t})
    BY <1>2, <2>1, <2>2
       DEF CanThumbnail, Goto, NoCalls, fileVars, TypeOK, Only, CallOf, JobOf, Before
  <2>3. CASE Goto(t, "generate") /\ UNCHANGED <<mtime, op, place, ret, cancelled>>
    BY <1>2, <2>1, <2>3
       DEF CanThumbnail, Goto, fileVars, TypeOK, Only, CallOf, JobOf, Before
  <2>. QED BY <1>2, <2>2, <2>3 DEF CanThumbnail
<1>3. CASE MkdirWithParents(t)
  <2>1. Only(t) /\ UNCHANGED <<thumb, failed>>
    BY <1>3 DEF MkdirWithParents, Goto, callVars, TypeOK, Only
  <2>2. CallOf(t)'
    BY <1>3 DEF MkdirWithParents, Goto, callVars, TypeOK, CallOf, Before, At
  <2>3. Done(t)' = Done(t)
    BY <1>3 DEF MkdirWithParents, Goto, callVars, TypeOK, CallOf, Before, Done, Moved, At, Succeeds
  <2>. QED BY <1>3, <2>1, <2>2, <2>3
           DEF MkdirWithParents, Goto, callVars, At, TypeOK, JobOf, Before, SizeOf
<1>4. CASE Mkstemp(t)
  <2>1. Only(t) /\ UNCHANGED <<thumb, failed>>
    BY <1>4 DEF Mkstemp, Goto, callVars, TypeOK, Only
  <2>2. CallOf(t)'
    BY <1>4 DEF Mkstemp, Goto, callVars, TypeOK, CallOf, Before, At
  <2>3. Done(t)' = Done(t)
    BY <1>4 DEF Mkstemp, Goto, callVars, TypeOK, CallOf, Before, Done, Moved, At, Succeeds
  <2>. QED BY <1>4, <2>1, <2>2, <2>3
           DEF Mkstemp, Goto, callVars, At, TypeOK, JobOf, Before, SizeOf
<1>5. CASE WriteImage(t)
  <2>1. Only(t) /\ UNCHANGED <<thumb, failed>>
    BY <1>5 DEF WriteImage, Goto, callVars, TypeOK, Only
  <2>2. \/ /\ pc'[t] = "rename" /\ ret'[t] = "ok"
           /\ temp'[t] = [mtime |-> mtime[t], whole |-> TRUE]
        \/ pc'[t] = "unlink" /\ ret'[t] = "failed" /\ temp'[t] = temp[t]
    <3>1. pc[t] = "write" /\ ret[t] = "failed"
      BY <1>5 DEF WriteImage, At, CallOf
    <3>. QED BY <1>5, <3>1 DEF WriteImage, Goto, TypeOK
  <2>3. [mtime |-> mtime[t], whole |-> TRUE] \in Files
    BY FilesAreFiles DEF TypeOK
  <2>4. [mtime |-> mtime[t], whole |-> TRUE] # None
    BY <2>3, CacheAssumption
  <2>5. CallOf(t)'
    BY <1>5, <2>2 DEF WriteImage, callVars, At, CallOf, Before
  <2>6. Done(t) = IF cancelled[t] THEN {"cancel"} ELSE {}
    BY <1>5 DEF WriteImage, At, CallOf, Before, Done, Moved
  <2>7. Done(t)' = IF cancelled[t] THEN {"cancel"} ELSE {}
    BY <1>5, <2>2, <2>4 DEF WriteImage, At, Before, Done, Moved
  <2>. QED BY <1>5, <2>1, <2>2, <2>5, <2>6, <2>7
           DEF WriteImage, callVars, At, TypeOK, JobOf, Before, SizeOf
<1>6. CASE CheckCancelled(t)
  <2>1. Only(t) /\ UNCHANGED <<thumb, failed>>
    BY <1>6 DEF CheckCancelled, Goto, fileVars, callVars, TypeOK, Only
  <2>2. CallOf(t)'
    BY <1>6 DEF CheckCancelled, Goto, fileVars, callVars, TypeOK, CallOf, Before, At
  <2>3. Done(t)' = Done(t)
    BY <1>6 DEF CheckCancelled, Goto, fileVars, callVars, TypeOK, CallOf, Before, Done, Moved, At, Succeeds
  <2>. QED BY <1>6, <2>1, <2>2, <2>3
           DEF CheckCancelled, Goto, fileVars, callVars, At, TypeOK, JobOf, Before, SizeOf
<1>7. CASE Unlink(t)
  <2>1. Only(t) /\ UNCHANGED <<thumb, failed>>
    BY <1>7 DEF Unlink, Goto, callVars, TypeOK, Only
  <2>2. CallOf(t)'
    BY <1>7 DEF Unlink, Goto, callVars, TypeOK, CallOf, Before, At
  <2>3. Done(t)' = Done(t)
    BY <1>7 DEF Unlink, Goto, callVars, TypeOK, CallOf, Before, Done, Moved, At, Succeeds
  <2>. QED BY <1>7, <2>1, <2>2, <2>3
           DEF Unlink, Goto, callVars, At, TypeOK, JobOf, Before, SizeOf
<1>. QED BY <1>1, <1>2, <1>3, <1>4, <1>5, <1>6, <1>7

\* The steps that the store sees.
LEMMA BeginStep ==
  ASSUME RInv, NEW t \in Threads, NEW call \in {"save", "create_failed"}, Generate(t, call),
         NEW s, NEW u, NEW m, s = SizeOf[t], u = uri[t], m = mtime[t]
  PROVE  CallInv' /\ Store!Begin(t, call, s, u, m)
<1>. TypeOK /\ CallOf(t) /\ CallInv
  BY DEF RInv, IInv, CallInv
<1>1. pc[t] = "generate" /\ temp[t] = None
  BY DEF Generate, At, RInv, IInv, UnlinkedInv
<1>2. Only(t) /\ CallOf(t)'
  BY <1>1 DEF Generate, Goto, fileVars, TypeOK, Only, CallOf, Before
<1>3. JobOf(t) = None
  BY <1>1 DEF JobOf, Before
<1>4. JobOf(t)' = [op |-> call, size |-> s, uri |-> u, mtime |-> m, did |-> {}]
  <2>1. Done(t)' = {}
    BY <1>1 DEF Generate, Goto, fileVars, TypeOK, CallOf, Before, Done, Moved, At, Succeeds
  <2>. QED BY <1>1, <2>1 DEF Generate, Goto, TypeOK, JobOf, Before, SizeOf
<1>5. UNCHANGED <<ThumbNow, FailedNow>>
  BY DEF Generate, fileVars, ThumbNow, FailedNow
<1>6. CallInv' /\ JobsNow' = [JobsNow EXCEPT ![t] = JobOf(t)']
  BY <1>2, OthersStay
<1>7. JobsNow[t] = None
  BY <1>3 DEF JobsNow
<1>. QED BY <1>4, <1>5, <1>6, <1>7
         DEF Store!Begin, JobsNow, ThumbNow, FailedNow, JobOf, Before

LEMMA RenameRefines ==
  ASSUME RInv, NEW t \in Threads, Rename(t)
  PROVE  CallInv' /\ (\/ UNCHANGED <<ThumbNow, FailedNow, JobsNow>>
                      \/ Store!Put(t) \/ Store!Mark(t))
<1>. TypeOK /\ CallOf(t) /\ CallInv
  BY DEF RInv, IInv, CallInv
<1>1. /\ pc[t] = "rename" /\ pc' = [pc EXCEPT ![t] = "check"] /\ ret[t] = "ok"
      /\ UNCHANGED <<setup, now, dirs, callVars, place, ret, cancelled>>
      /\ \A s \in Threads \ {t} : temp'[s] = temp[s]
  BY DEF Rename, At, Goto, CallOf, TypeOK
<1>2. Only(t) /\ CallOf(t)'
  <2>1. temp'[t] = None \/ temp'[t] = temp[t]
    BY DEF Rename, TypeOK
  <2>. QED BY <1>1, <2>1 DEF callVars, TypeOK, Only, CallOf, Before
<1>3. CallInv' /\ JobsNow' = [JobsNow EXCEPT ![t] = JobOf(t)']
  BY <1>2, OthersStay
<1>4. CASE temp[t] = None
  <2>1. UNCHANGED <<thumb, failed, temp>>
    BY <1>4 DEF Rename
  <2>2. Done(t)' = Done(t)
    BY <1>1, <1>4 DEF callVars, TypeOK, Done, Moved, At, Succeeds
  <2>3. JobOf(t)' = JobOf(t)
    BY <1>1, <2>2 DEF callVars, TypeOK, JobOf, Before, SizeOf
  <2>4. UNCHANGED <<ThumbNow, FailedNow>>
    BY <2>1 DEF ThumbNow, FailedNow
  <2>5. JobsNow' = JobsNow
    BY <1>3, <2>3 DEF JobsNow
  <2>. QED BY <1>3, <2>4, <2>5
<1>5. CASE temp[t] # None
  <2>1. /\ temp' = [temp EXCEPT ![t] = None]
        /\ IF place[t] = "fail"
           THEN failed' = [failed EXCEPT ![uri[t]] = temp[t]] /\ UNCHANGED thumb
           ELSE thumb' = [thumb EXCEPT ![SizeOf[t]][uri[t]] = temp[t]] /\ UNCHANGED failed
    BY <1>5 DEF Rename, RInv
  <2>2. Where(temp[t]) = mtime[t]
    BY <1>5 DEF Where, CallOf
  <2>3. SizeOf[t] \in Sizes /\ uri[t] \in Uris
    BY SizesAreSizes DEF TypeOK
  <2>4. Done(t) = IF cancelled[t] THEN {"cancel"} ELSE {}
    BY <1>1, <1>5 DEF Done, Moved, At
  <2>5. Done(t)' = Done(t) \cup {IF place[t] = "thumb" THEN "put" ELSE "mark"}
    BY <1>1, <2>4 DEF Done, Moved, At, TypeOK
  <2>6. JobsNow[t] = JobOf(t) /\ JobsNow[t] # None
    BY <1>1, JobIsNoNone DEF JobsNow, Before
  <2>7. JobOf(t) = [op |-> op[t], size |-> SizeOf[t], uri |-> uri[t], mtime |-> mtime[t],
                    did |-> Done(t)]
    BY <1>1 DEF JobOf, Before
  <2>8. JobOf(t)' = [JobOf(t) EXCEPT !.did =
                       @ \cup {IF place[t] = "thumb" THEN "put" ELSE "mark"}]
    <3>1. JobOf(t)' = [op |-> op[t], size |-> SizeOf[t], uri |-> uri[t], mtime |-> mtime[t],
                       did |-> Done(t)']
      BY <1>1 DEF JobOf, Before, callVars, SizeOf, TypeOK
    <3>. QED BY <2>5, <2>7, <3>1
  <2>9. CASE place[t] = "fail"
    <3>1. FailedNow' = [FailedNow EXCEPT ![uri[t]] = mtime[t]] /\ ThumbNow' = ThumbNow
      BY <2>1, <2>2, <2>3, <2>9 DEF FailedNow, ThumbNow, TypeOK
    <3>2. JobsNow' = [JobsNow EXCEPT ![t].did = @ \cup {"mark"}]
      BY <1>3, <2>6, <2>8, <2>9 DEF JobsNow
    <3>3. Store!MayMark(JobsNow[t])
      BY <2>4, <2>6, <2>7 DEF Store!MayMark
    <3>4. JobsNow[t].uri = uri[t] /\ JobsNow[t].mtime = mtime[t]
      BY <2>6, <2>7
    <3>5. Store!Mark(t)
      BY <3>1, <3>2, <3>3, <3>4
         DEF Store!Mark, Store!Did, JobsNow, JobOf, Before, ThumbNow, FailedNow
    <3>. QED BY <1>3, <3>5
  <2>10. CASE place[t] = "thumb"
    <3>1. FailedNow' = FailedNow
      BY <2>1, <2>10 DEF FailedNow
    <3>2. ThumbNow' = [ThumbNow EXCEPT ![SizeOf[t]][uri[t]] = mtime[t]]
      <4>1. thumb' = [thumb EXCEPT ![SizeOf[t]][uri[t]] = temp[t]]
        BY <2>1, <2>10
      <4>2. \A s \in Sizes, u \in Uris :
              thumb'[s][u] = IF s = SizeOf[t] /\ u = uri[t] THEN temp[t] ELSE thumb[s][u]
        BY <2>3, <4>1 DEF TypeOK
      <4>3. \A s \in Sizes, u \in Uris :
              ThumbNow'[s][u] = IF s = SizeOf[t] /\ u = uri[t] THEN mtime[t]
                                ELSE ThumbNow[s][u]
        BY <2>2, <4>2 DEF ThumbNow
      <4>4. /\ ThumbNow = [s \in Sizes |-> [u \in Uris |-> ThumbNow[s][u]]]
            /\ ThumbNow' = [s \in Sizes |-> [u \in Uris |-> ThumbNow'[s][u]]]
        BY DEF ThumbNow
      <4>5. ThumbNow' = [s \in Sizes |-> [u \in Uris |->
                           IF s = SizeOf[t] /\ u = uri[t] THEN mtime[t] ELSE ThumbNow[s][u]]]
        BY <4>3, <4>4
      <4>. HIDE DEF ThumbNow
      <4>6. [ThumbNow EXCEPT ![SizeOf[t]][uri[t]] = mtime[t]] =
              [s \in Sizes |-> [u \in Uris |->
                 IF s = SizeOf[t] /\ u = uri[t] THEN mtime[t] ELSE ThumbNow[s][u]]]
        BY <2>3, <4>4
      <4>. QED BY <4>5, <4>6
    <3>3. JobsNow' = [JobsNow EXCEPT ![t].did = @ \cup {"put"}]
      BY <1>3, <2>6, <2>8, <2>10 DEF JobsNow
    <3>4. op[t] = "save"
      BY <1>1, <2>10 DEF CallOf, Before
    <3>5. Store!MayPut(JobsNow[t])
      BY <2>4, <2>6, <2>7, <3>4 DEF Store!MayPut
    <3>6. /\ JobsNow[t].size = SizeOf[t] /\ JobsNow[t].uri = uri[t]
          /\ JobsNow[t].mtime = mtime[t]
      BY <2>6, <2>7
    <3>7. Store!Put(t)
      BY <3>1, <3>2, <3>3, <3>5, <3>6
         DEF Store!Put, Store!Did, JobsNow, JobOf, Before, ThumbNow, FailedNow
    <3>. QED BY <1>3, <3>7
  <2>. QED BY <2>9, <2>10 DEF TypeOK
<1>. QED BY <1>4, <1>5

LEMMA ForgetRefines ==
  ASSUME RInv, NEW t \in Threads, ForgetFailure(t)
  PROVE  CallInv' /\ Store!Forget(t)
<1>. TypeOK /\ CallOf(t) /\ CallInv
  BY DEF RInv, IInv, CallInv
<1>1. /\ pc[t] = "forget" /\ pc' = [pc EXCEPT ![t] = "return"]
      /\ ret[t] = "ok" /\ op[t] = "save" /\ place[t] = "thumb"
      /\ UNCHANGED <<setup, now, thumb, dirs, temp, callVars, place, ret, cancelled>>
  BY DEF ForgetFailure, At, Goto, CallOf, Before
<1>2. Only(t) /\ CallOf(t)'
  BY <1>1 DEF callVars, TypeOK, Only, CallOf, Before
<1>3. CallInv' /\ JobsNow' = [JobsNow EXCEPT ![t] = JobOf(t)']
  BY <1>2, OthersStay
<1>4. Done(t) = {"put"} \cup (IF cancelled[t] THEN {"cancel"} ELSE {})
  BY <1>1 DEF Done, Moved, At
<1>5. Done(t)' = Done(t) \cup {"forget"}
  BY <1>1, <1>4 DEF Done, Moved, At, Succeeds, callVars, TypeOK
<1>6. JobsNow[t] = JobOf(t) /\ JobsNow[t] # None
  BY <1>1, JobIsNoNone DEF JobsNow, Before
<1>7. JobOf(t) = [op |-> op[t], size |-> SizeOf[t], uri |-> uri[t], mtime |-> mtime[t],
                  did |-> Done(t)]
  BY <1>1 DEF JobOf, Before
<1>8. JobOf(t)' = [JobOf(t) EXCEPT !.did = @ \cup {"forget"}]
  <2>1. JobOf(t)' = [op |-> op[t], size |-> SizeOf[t], uri |-> uri[t], mtime |-> mtime[t],
                     did |-> Done(t)']
    BY <1>1 DEF JobOf, Before, callVars, SizeOf, TypeOK
  <2>. QED BY <1>5, <1>7, <2>1
<1>9. JobsNow' = [JobsNow EXCEPT ![t].did = @ \cup {"forget"}]
  BY <1>3, <1>6, <1>8 DEF JobsNow
<1>10. /\ JobsNow[t].op = "save" /\ JobsNow[t].uri = uri[t]
       /\ "put" \in JobsNow[t].did /\ (cancelled[t] => "cancel" \in JobsNow[t].did)
  BY <1>1, <1>4, <1>6, <1>7
<1>11. ThumbNow' = ThumbNow
  BY <1>1 DEF ThumbNow
<1>12. FailedNow' = IF cancelled[t] THEN FailedNow ELSE [FailedNow EXCEPT ![uri[t]] = None]
  BY DEF ForgetFailure, FailedNow, Where, TypeOK
<1>. QED BY <1>3, <1>6, <1>9, <1>10, <1>11, <1>12
         DEF Store!Forget, Store!Did, JobsNow, JobOf, Before, ThumbNow, FailedNow

LEMMA ReturnRefines ==
  ASSUME RInv, NEW t \in Threads, Return(t)
  PROVE  CallInv' /\ Store!Return(t)
<1>. TypeOK /\ CallOf(t) /\ CallInv
  BY DEF RInv, IInv, CallInv
<1>1. /\ pc[t] = "return" /\ temp[t] = None /\ pc' = [pc EXCEPT ![t] = "idle"]
      /\ UNCHANGED <<setup, now, fileVars, uri>> /\ NoCalls({t})
  BY DEF Return, At, Goto, RInv, IInv, UnlinkedInv
<1>2. Only(t) /\ CallOf(t)'
  BY <1>1 DEF fileVars, NoCalls, TypeOK, Only, CallOf, Before
<1>3. CallInv' /\ JobsNow' = [JobsNow EXCEPT ![t] = JobOf(t)']
  BY <1>2, OthersStay
<1>4. JobOf(t)' = None
  BY <1>1 DEF JobOf, Before, TypeOK
<1>5. JobsNow[t] = JobOf(t) /\ JobsNow[t] # None
  BY <1>1, JobIsNoNone DEF JobsNow, Before
<1>6. "put" \in Done(t) => {"forget", "cancel"} \cap Done(t) # {}
  <2> SUFFICES ASSUME "put" \in Done(t) PROVE "forget" \in Done(t) \/ "cancel" \in Done(t)
    OBVIOUS
  <2>1. Moved(t) /\ place[t] = "thumb" /\ op[t] = "save" /\ ret[t] # "failed"
    BY <1>1 DEF Done, Moved, At, CallOf, Before
  <2>2. CASE ret[t] = "ok"
    BY <1>1, <2>1, <2>2 DEF Done, At, Succeeds
  <2>3. CASE ret[t] = "cancelled"
    BY <2>3 DEF Done, CallOf
  <2>. QED BY <2>1, <2>2, <2>3 DEF TypeOK
<1>7. JobsNow[t].did = Done(t)
  BY <1>1, <1>5 DEF JobOf, Before
<1>8. UNCHANGED <<ThumbNow, FailedNow>>
  BY <1>1 DEF fileVars, ThumbNow, FailedNow
<1>. QED BY <1>3, <1>4, <1>5, <1>6, <1>7, <1>8
         DEF Store!Return, JobsNow, JobOf, Before, ThumbNow, FailedNow

LEMMA CancelRefines ==
  ASSUME RInv, NEW t \in Threads, Cancel(t)
  PROVE  CallInv' /\ Store!Cancel(t)
<1>. TypeOK /\ CallOf(t) /\ CallInv
  BY DEF RInv, IInv, CallInv
<1>1. /\ pc[t] \notin Before /\ ~cancelled[t]
      /\ cancelled' = [cancelled EXCEPT ![t] = TRUE]
      /\ UNCHANGED <<setup, now, fileVars, pc, callVars, place, ret>>
  BY DEF Cancel, Before
<1>2. Only(t) /\ CallOf(t)'
  BY <1>1 DEF fileVars, callVars, TypeOK, Only, CallOf, Before
<1>3. CallInv' /\ JobsNow' = [JobsNow EXCEPT ![t] = JobOf(t)']
  BY <1>2, OthersStay
<1>4. "cancel" \notin Done(t)
  BY <1>1 DEF Done
<1>5. Done(t)' = Done(t) \cup {"cancel"}
  BY <1>1 DEF Done, Moved, At, Succeeds, fileVars, callVars, TypeOK
<1>6. JobsNow[t] = JobOf(t) /\ JobsNow[t] # None
  BY <1>1, JobIsNoNone DEF JobsNow
<1>7. JobOf(t) = [op |-> op[t], size |-> SizeOf[t], uri |-> uri[t], mtime |-> mtime[t],
                  did |-> Done(t)]
  BY <1>1 DEF JobOf
<1>8. JobOf(t)' = [JobOf(t) EXCEPT !.did = @ \cup {"cancel"}]
  BY <1>1, <1>5, <1>7 DEF JobOf, callVars, SizeOf
<1>9. JobsNow' = [JobsNow EXCEPT ![t].did = @ \cup {"cancel"}]
  BY <1>3, <1>6, <1>8 DEF JobsNow
<1>10. "cancel" \notin JobsNow[t].did
  BY <1>4, <1>6, <1>7
<1>11. UNCHANGED <<ThumbNow, FailedNow>>
  BY <1>1 DEF fileVars, ThumbNow, FailedNow
<1>. QED BY <1>3, <1>6, <1>9, <1>10, <1>11
         DEF Store!Cancel, Store!Did, JobsNow, JobOf, Before, ThumbNow, FailedNow

\* When the cache is deleted, a thread that is about to rename its file has
\* lost it: as if it had put it there just before.
LEMMA CleanRefines ==
  ASSUME RInv, Clean
  PROVE  CallInv' /\ Store!Clean
<1>. TypeOK /\ CallInv
  BY DEF RInv, IInv
<1>. DEFINE Loses(t) == pc[t] = "rename" /\ temp[t] # None
            what(t) == IF place[t] = "thumb" THEN "put" ELSE "mark"
            last == [t \in Threads |-> IF Loses(t) THEN {what(t)} ELSE {}]
<1>1. /\ thumb' = [s \in Sizes |-> [u \in Uris |-> None]]
      /\ failed' = [u \in Uris |-> None]
      /\ temp' = [t \in Threads |-> None]
      /\ UNCHANGED <<setup, now, pc, callVars, place, ret, cancelled>>
  BY DEF Clean
<1>2. CallInv'
  BY <1>1 DEF callVars, CallInv, CallOf
<1>3. ThumbNow' = [s \in Sizes |-> [u \in Uris |-> None]] /\ FailedNow' = [u \in Uris |-> None]
  BY <1>1 DEF ThumbNow, FailedNow, Where
<1>4. ASSUME NEW t \in Threads
      PROVE  /\ JobOf(t)' = IF last[t] = {} THEN JobOf(t)
                            ELSE [JobOf(t) EXCEPT !.did = @ \cup last[t]]
             /\ "put" \in last[t] => Store!MayPut(JobOf(t))
             /\ "mark" \in last[t] => Store!MayMark(JobOf(t))
  <2>1. CASE Loses(t)
    <3>1. Done(t) = IF cancelled[t] THEN {"cancel"} ELSE {}
      BY <2>1 DEF Done, Moved, At
    <3>2. Done(t)' = Done(t) \cup {what(t)}
      BY <1>1, <2>1, <3>1 DEF Done, Moved, At, TypeOK
    <3>3. JobOf(t) = [op |-> op[t], size |-> SizeOf[t], uri |-> uri[t], mtime |-> mtime[t],
                      did |-> Done(t)]
      BY <2>1 DEF JobOf, Before
    <3>4. JobOf(t)' = [JobOf(t) EXCEPT !.did = @ \cup {what(t)}]
      <4>1. JobOf(t)' = [op |-> op[t], size |-> SizeOf[t], uri |-> uri[t], mtime |-> mtime[t],
                         did |-> Done(t)']
        BY <1>1, <2>1 DEF JobOf, Before, callVars, SizeOf
      <4>. QED BY <3>2, <3>3, <4>1
    <3>5. last[t] = {what(t)}
      BY <2>1
    <3>6. JobOf(t) # None
      BY <2>1, JobIsNoNone DEF Before
    <3>7. place[t] = "thumb" => op[t] = "save"
      BY <2>1 DEF CallInv, CallOf, Before
    <3>8. JobOf(t).op = op[t] /\ JobOf(t).did = Done(t)
      BY <3>3
    <3>9. what(t) = "put" => Store!MayPut(JobOf(t))
      BY <3>1, <3>6, <3>7, <3>8 DEF Store!MayPut
    <3>10. Store!MayMark(JobOf(t))
      BY <3>1, <3>6, <3>8 DEF Store!MayMark
    <3>. QED BY <3>4, <3>5, <3>9, <3>10
  <2>2. CASE ~Loses(t)
    <3>1. Done(t)' = Done(t)
      BY <1>1, <2>2 DEF Done, Moved, At, Succeeds, callVars
    <3>2. JobOf(t)' = JobOf(t)
      BY <1>1, <3>1 DEF JobOf, callVars, SizeOf
    <3>. QED BY <2>2, <3>2
  <2>. QED BY <2>1, <2>2
<1>5. JobsNow' = [t \in Threads |-> IF last[t] = {} THEN JobsNow[t]
                                    ELSE [JobsNow[t] EXCEPT !.did = @ \cup last[t]]]
  BY <1>4 DEF JobsNow
<1>6. \A t \in Threads : /\ "put" \in last[t] => Store!MayPut(JobsNow[t])
                         /\ "mark" \in last[t] => Store!MayMark(JobsNow[t])
  BY <1>4 DEF JobsNow
<1>7. last \in [Threads -> {{}, {"put"}, {"mark"}}]
  OBVIOUS
<1>. HIDE DEF last
<1>8. Store!Clean
  BY <1>3, <1>5, <1>6, <1>7 DEF Store!Clean, JobsNow, JobOf, Before, ThumbNow, FailedNow
<1>. QED BY <1>2, <1>8

LEMMA RefinesStep == RInv /\ [Next]_vars => RInv' /\ [Store!Next]_(Store!vars)
<1> SUFFICES ASSUME RInv, [Next]_vars PROVE RInv' /\ [Store!Next]_(Store!vars)
  OBVIOUS
<1>0. IInv' /\ "rename" \notin Faults'
  <2>1. setup' = setup
    BY DEF Next, Work, Lookup, CanThumbnail, Generate, MkdirWithParents, Mkstemp, WriteImage,
           Rename, CheckCancelled, Unlink, ForgetFailure, Return, Touch, Cancel, Crash, Clean,
           vars
  <2>2. IInv'
    BY IInvStep DEF RInv
  <2>. QED BY <2>1, <2>2 DEF RInv, Faults
<1>1. ASSUME NEW t \in Threads,
             \/ \E u \in Uris : Lookup(t, u)
             \/ CanThumbnail(t) \/ MkdirWithParents(t) \/ Mkstemp(t) \/ WriteImage(t)
             \/ CheckCancelled(t) \/ Unlink(t)
      PROVE  CallInv' /\ UNCHANGED Store!vars
  <2>1. /\ Only(t) /\ CallOf(t)' /\ JobOf(t)' = JobOf(t)
        /\ UNCHANGED <<thumb, failed>>
    BY <1>1, HiddenStep
  <2>2. CallInv' /\ JobsNow' = [JobsNow EXCEPT ![t] = JobOf(t)']
    BY <2>1, OthersStay DEF RInv
  <2>3. JobsNow' = JobsNow
    BY <2>1, <2>2 DEF JobsNow
  <2>4. ThumbNow' = ThumbNow /\ FailedNow' = FailedNow
    BY <2>1 DEF ThumbNow, FailedNow
  <2>. QED BY <2>2, <2>3, <2>4, StoreSees
<1>2. ASSUME NEW t \in Threads, NEW call \in {"save", "create_failed"}, Generate(t, call)
      PROVE  CallInv' /\ Store!Next
  <2>1. SizeOf[t] \in Sizes /\ uri[t] \in Uris /\ mtime[t] \in MTimes
    BY SizesAreSizes DEF RInv, IInv, TypeOK
  <2>2. PICK s \in Sizes, u \in Uris, m \in MTimes :
          s = SizeOf[t] /\ u = uri[t] /\ m = mtime[t]
    BY <2>1
  <2>3. CallInv' /\ Store!Begin(t, call, s, u, m)
    BY <1>2, <2>2, BeginStep
  <2>. QED BY <2>3 DEF Store!Next
<1>3. ASSUME NEW t \in Threads, Rename(t) PROVE CallInv' /\ [Store!Next]_(Store!vars)
  <2>1. CallInv' /\ (\/ UNCHANGED <<ThumbNow, FailedNow, JobsNow>>
                     \/ Store!Put(t) \/ Store!Mark(t))
    BY <1>3, RenameRefines
  <2>2. CASE UNCHANGED <<ThumbNow, FailedNow, JobsNow>>
    BY <2>1, <2>2, StoreSees
  <2>3. CASE Store!Put(t) \/ Store!Mark(t)
    BY <2>1, <2>3 DEF Store!Next
  <2>. QED BY <2>1, <2>2, <2>3
<1>4. ASSUME NEW t \in Threads, ForgetFailure(t) \/ Return(t) \/ Cancel(t)
      PROVE  CallInv' /\ Store!Next
  <2>1. CallInv' /\ (Store!Forget(t) \/ Store!Return(t) \/ Store!Cancel(t))
    BY <1>4, ForgetRefines, ReturnRefines, CancelRefines
  <2>. QED BY <2>1 DEF Store!Next
<1>5. ASSUME NEW u \in Uris, Touch(u) PROVE CallInv' /\ UNCHANGED Store!vars
  <2>1. UNCHANGED <<setup, fileVars, pc, callVars, place, ret, cancelled>>
    BY <1>5 DEF Touch
  <2>2. CallInv'
    BY <2>1 DEF fileVars, callVars, RInv, CallInv, CallOf
  <2>3. \A t \in Threads : Done(t)' = Done(t)
    BY <2>1 DEF fileVars, callVars, Done, Moved, At, Succeeds
  <2>4. JobsNow' = JobsNow
    BY <2>1, <2>3 DEF callVars, JobsNow, JobOf, SizeOf
  <2>5. ThumbNow' = ThumbNow /\ FailedNow' = FailedNow
    BY <2>1 DEF fileVars, ThumbNow, FailedNow
  <2>. QED BY <2>2, <2>4, <2>5, StoreSees
<1>6. ASSUME Crash PROVE CallInv' /\ [Store!Next]_(Store!vars)
  <2>1. CallInv'
    BY <1>6 DEF Crash, NoCalls, CallInv, CallOf, Before
  <2>2. JobsNow' = [t \in Threads |-> None] /\ ThumbNow' = ThumbNow /\ FailedNow' = FailedNow
    BY <1>6 DEF Crash, JobsNow, JobOf, Before, ThumbNow, FailedNow
  <2>3. Store!Crash
    BY <2>2 DEF Store!Crash, JobsNow, JobOf, Before, ThumbNow, FailedNow
  <2>. QED BY <2>1, <2>3 DEF Store!Next
<1>7. ASSUME Clean PROVE CallInv' /\ [Store!Next]_(Store!vars)
  BY <1>7, CleanRefines DEF Store!Next
<1>8. ASSUME UNCHANGED vars PROVE CallInv' /\ [Store!Next]_(Store!vars)
  <2>1. UNCHANGED <<setup, fileVars, pc, callVars, place, ret, cancelled>>
    BY <1>8 DEF vars
  <2>2. CallInv'
    BY <2>1 DEF fileVars, callVars, RInv, CallInv, CallOf
  <2>3. \A t \in Threads : Done(t)' = Done(t)
    BY <2>1 DEF fileVars, callVars, Done, Moved, At, Succeeds
  <2>4. JobsNow' = JobsNow
    BY <2>1, <2>3 DEF callVars, JobsNow, JobOf, SizeOf
  <2>5. ThumbNow' = ThumbNow /\ FailedNow' = FailedNow
    BY <2>1 DEF fileVars, ThumbNow, FailedNow
  <2>. QED BY <2>2, <2>4, <2>5, StoreSees
<1>9. ASSUME NEW t \in Threads, Work(t) PROVE CallInv' /\ [Store!Next]_(Store!vars)
  BY <1>1, <1>2, <1>3, <1>4, <1>9 DEF Work
<1>10. CallInv' /\ [Store!Next]_(Store!vars)
  BY <1>1, <1>4, <1>5, <1>6, <1>7, <1>8, <1>9 DEF Next
<1>. QED BY <1>0, <1>10 DEF RInv

\* Whoever else saves, whoever cancels, and also when the cache is deleted or
\* the programs end, the calls of any threads do what ThumbnailStore promises:
\* save_thumbnail puts its thumbnail and forgets the failure, or marks one
\* (gnome_desktop_thumbnail_factory_save_thumbnail and _create_failed_thumbnail).
THEOREM SavesImplementTheStore == Spec /\ "rename" \notin Faults => ImplementsStore
<1>1. Init /\ "rename" \notin Faults => RInv /\ Store!Init
  <2> SUFFICES ASSUME Init, "rename" \notin Faults PROVE RInv /\ Store!Init
    OBVIOUS
  <2>1. RInv
    BY InitHolds DEF Init, RInv, CallInv, CallOf, Before
  <2>2. Store!Init
    BY DEF Init, Store!Init, Where
  <2>. QED BY <2>1, <2>2
<1>. QED BY <1>1, RefinesStep, PTL DEF Spec, ImplementsStore, Store!Spec
=============================================================================
