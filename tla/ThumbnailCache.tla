--------------------------- MODULE ThumbnailCache ---------------------------
(***************************************************************************)
(* The thumbnail cache on disk (gnome-desktop-thumbnail.c): worker threads *)
(* of several programs look for thumbnails, generate them, and save them   *)
(* or mark the failure, with no lock between them.  A factory of each size *)
(* has its own directory; the failed thumbnails of all sizes share one.    *)
(*                                                                         *)
(* One step is one system call that other programs can see the effect of. *)
(* A thread does what the documentation of the factory describes: it looks *)
(* for a thumbnail of the file's current mtime, asks can_thumbnail,        *)
(* generates, and then saves, or records that it could not.                *)
(***************************************************************************)
EXTENDS Naturals, FiniteSets

CONSTANTS Threads, Sizes, Uris,
          MaxMTime,   (* bound: how often a file changes                    *)
          None,
          Setups      (* the worlds that are looked at: the size of the     *)
                      (* factory each thread uses, and what may go wrong    *)

MTimes == 0..MaxMTime
Files == [mtime : MTimes, whole : BOOLEAN]
FaultKinds == {"write",   \* a directory or file cannot be made or written
               "rename",  \* g_rename fails
               "cancel",  \* the caller cancels
               "crash",   \* the programs end at any point
               "clean"}   \* the user deletes the cache

ASSUME CacheAssumption ==
  /\ MaxMTime \in Nat
  /\ Setups \subseteq [sizeOf : [Threads -> Sizes], faults : SUBSET FaultKinds]
  /\ None \notin Nat \cup Files

Steps == {"idle", "can_thumbnail", "generate", "mkdir", "mkstemp", "write",
          "rename", "check", "unlink", "forget", "return"}

VARIABLES
  setup,      \* the world it is, of Setups
  now,        \* the mtime of each file
  thumb,      \* thumbnail_path of each size and URI: a file or None
  failed,     \* thumbnail_failed_path of each URI: a file or None
  dirs,       \* which of the cache's directories exist
  temp,       \* the temporary file each thread made
  pc, uri, mtime,
  op,         \* the call: "save" or "create_failed"
  place,      \* where save_thumbnail is to put its file: "thumb" or "fail"
  ret,        \* what becomes of save_thumbnail: "ok", or its error
  cancelled   \* the call's GCancellable

fileVars == <<thumb, failed, dirs, temp>>
callVars == <<uri, mtime, op>>
vars == <<setup, now, fileVars, pc, callVars, place, ret, cancelled>>

SizeOf == setup.sizeOf
Faults == setup.faults

TypeOK ==
  /\ setup \in Setups
  /\ now \in [Uris -> MTimes]
  /\ thumb \in [Sizes -> [Uris -> Files \cup {None}]]
  /\ failed \in [Uris -> Files \cup {None}]
  /\ dirs \subseteq Sizes \cup {"fail"}
  /\ temp \in [Threads -> Files \cup {None}]
  /\ pc \in [Threads -> Steps]
  /\ uri \in [Threads -> Uris] /\ mtime \in [Threads -> MTimes]
  /\ op \in [Threads -> {"save", "create_failed"}]
  /\ place \in [Threads -> {"thumb", "fail"}]
  /\ ret \in [Threads -> {"ok", "failed", "cancelled"}] /\ cancelled \in [Threads -> BOOLEAN]

Init ==
  /\ setup \in Setups
  /\ now = [u \in Uris |-> 0]
  /\ thumb = [s \in Sizes |-> [u \in Uris |-> None]]
  /\ failed = [u \in Uris |-> None]
  /\ dirs = {}
  /\ temp = [t \in Threads |-> None]
  /\ pc = [t \in Threads |-> "idle"]
  /\ uri \in [Threads -> Uris]
  /\ mtime = [t \in Threads |-> 0]
  /\ op = [t \in Threads |-> "save"]
  /\ place = [t \in Threads |-> "thumb"]
  /\ ret = [t \in Threads |-> "failed"]
  /\ cancelled = [t \in Threads |-> FALSE]

\* A call's variables before it and after it.
NoCalls(T) ==
  /\ mtime' = [t \in Threads |-> IF t \in T THEN 0 ELSE mtime[t]]
  /\ op' = [t \in Threads |-> IF t \in T THEN "save" ELSE op[t]]
  /\ place' = [t \in Threads |-> IF t \in T THEN "thumb" ELSE place[t]]
  /\ ret' = [t \in Threads |-> IF t \in T THEN "failed" ELSE ret[t]]
  /\ cancelled' = [t \in Threads |-> IF t \in T THEN FALSE ELSE cancelled[t]]

Goto(t, label) == pc' = [pc EXCEPT ![t] = label]
At(t, label) == pc[t] = label
Dir(t) == IF place[t] = "fail" THEN "fail" ELSE SizeOf[t]

-----------------------------------------------------------------------------
(* Looking for a thumbnail.  Opening a file and reading it is one step: a  *)
(* rename puts another file in its place and leaves the open one alone.    *)

\* validate_thumbnail_path and gnome_desktop_thumbnail_is_valid: a file that
\* cannot be loaded whole is no thumbnail.
IsValid(file, m) == file # None /\ file.whole /\ file.mtime = m

\* gnome_desktop_thumbnail_factory_lookup, for a file as it is now.
Lookup_RoundsUp(t, u) ==
  /\ At(t, "idle")
  /\ ~IsValid(thumb[SizeOf[t]][u], now[u] + 1)
  /\ uri' = [uri EXCEPT ![t] = u]
  /\ mtime' = [mtime EXCEPT ![t] = now[u] + 1]
  /\ Goto(t, "can_thumbnail")
  /\ UNCHANGED <<setup, now, fileVars, op, place, ret, cancelled>>
Lookup_OneBehind(t, u) ==
  /\ At(t, "idle")
  /\ ~IsValid(thumb[SizeOf[t]][u], now[u])
  /\ uri' = [uri EXCEPT ![t] = u]
  /\ mtime' = [mtime EXCEPT ![t] = IF now[u] = 0 THEN 0 ELSE now[u] - 1]
  /\ Goto(t, "can_thumbnail")
  /\ UNCHANGED <<setup, now, fileVars, op, place, ret, cancelled>>
Lookup(t, u) ==
  /\ At(t, "idle")
  /\ ~IsValid(thumb[SizeOf[t]][u], now[u])
  /\ uri' = [uri EXCEPT ![t] = u]
  /\ mtime' = [mtime EXCEPT ![t] = now[u]]
  /\ Goto(t, "can_thumbnail")
  /\ UNCHANGED <<setup, now, fileVars, op, place, ret, cancelled>>

\* gnome_desktop_thumbnail_factory_can_thumbnail, for a type with a thumbnailer.
CanThumbnail(t) ==
  /\ At(t, "can_thumbnail")
  /\ \/ /\ IsValid(failed[uri[t]], mtime[t])
        /\ Goto(t, "idle") /\ NoCalls({t})
     \/ /\ ~IsValid(failed[uri[t]], mtime[t])
        /\ Goto(t, "generate")
        /\ UNCHANGED <<mtime, op, place, ret, cancelled>>
  /\ UNCHANGED <<setup, now, fileVars, uri>>

\* gnome_desktop_thumbnail_factory_generate_thumbnail gives a pixbuf or none,
\* and the thread calls save_thumbnail or create_failed_thumbnail.
Generate(t, call) ==
  /\ At(t, "generate")
  /\ op' = [op EXCEPT ![t] = call]
  /\ place' = [place EXCEPT ![t] = IF call = "save" THEN "thumb" ELSE "fail"]
  /\ cancelled' = [cancelled EXCEPT ![t] = FALSE]
  /\ Goto(t, "mkdir")
  /\ UNCHANGED <<setup, now, fileVars, uri, mtime, ret>>

-----------------------------------------------------------------------------
(* save_thumbnail                                                          *)

MkdirWithParents(t) ==
  /\ At(t, "mkdir")
  /\ ret' = [ret EXCEPT ![t] = "failed"]
  /\ \/ dirs' = dirs \cup {Dir(t)} /\ Goto(t, "mkstemp")
     \/ "write" \in Faults /\ UNCHANGED dirs /\ Goto(t, "unlink")
  /\ UNCHANGED <<setup, now, thumb, failed, temp, callVars, place, cancelled>>

\* g_mkstemp makes a file of a name that is not in use.
Mkstemp(t) ==
  /\ At(t, "mkstemp")
  /\ \/ /\ Dir(t) \in dirs
        /\ temp' = [temp EXCEPT ![t] = [mtime |-> mtime[t], whole |-> FALSE]]
        /\ Goto(t, "write")
     \/ /\ "write" \in Faults \/ Dir(t) \notin dirs
        /\ UNCHANGED temp
        /\ Goto(t, "unlink")
  /\ UNCHANGED <<setup, now, thumb, failed, dirs, callVars, place, ret, cancelled>>

\* gdk_pixbuf_save writes the image and its tEXt keys under that name.
WriteImage_IgnoresErrors(t) ==
  /\ At(t, "write")
  /\ ret' = [ret EXCEPT ![t] = "ok"]
  /\ \E whole \in IF "write" \in Faults THEN BOOLEAN ELSE {TRUE} :
       temp' = [temp EXCEPT ![t] = [mtime |-> mtime[t], whole |-> whole]]
  /\ Goto(t, "rename")
  /\ UNCHANGED <<setup, now, thumb, failed, dirs, callVars, place, cancelled>>
WriteImage(t) ==
  /\ At(t, "write")
  /\ \/ /\ Dir(t) \in dirs
        /\ temp' = [temp EXCEPT ![t] = [mtime |-> mtime[t], whole |-> TRUE]]
        /\ ret' = [ret EXCEPT ![t] = "ok"]
        /\ Goto(t, "rename")
     \/ /\ "write" \in Faults \/ Dir(t) \notin dirs
        /\ UNCHANGED <<temp, ret>>
        /\ Goto(t, "unlink")
  /\ UNCHANGED <<setup, now, thumb, failed, dirs, callVars, place, cancelled>>

\* g_rename, whose result nobody looks at.
Rename(t) ==
  /\ At(t, "rename")
  /\ \/ /\ temp[t] # None
        /\ temp' = [temp EXCEPT ![t] = None]
        /\ IF place[t] = "fail"
           THEN failed' = [failed EXCEPT ![uri[t]] = temp[t]] /\ UNCHANGED thumb
           ELSE thumb' = [thumb EXCEPT ![SizeOf[t]][uri[t]] = temp[t]]
                /\ UNCHANGED failed
     \/ /\ "rename" \in Faults \/ temp[t] = None
        /\ UNCHANGED <<thumb, failed, temp>>
  /\ Goto(t, "check")
  /\ UNCHANGED <<setup, now, dirs, callVars, place, ret, cancelled>>

CheckCancelled(t) ==
  /\ At(t, "check")
  /\ ret' = [ret EXCEPT ![t] = IF cancelled[t] THEN "cancelled" ELSE @]
  /\ Goto(t, "unlink")
  /\ UNCHANGED <<setup, now, fileVars, callVars, place, cancelled>>

\* The temporary file goes, if it is still there; save_thumbnail returns, and
\* gnome_desktop_thumbnail_factory_save_thumbnail calls it a second time for
\* the failed thumbnail, unless the error says the call was cancelled.
Unlink_MarksCancelled(t) ==
  /\ At(t, "unlink")
  /\ temp' = [temp EXCEPT ![t] = None]
  /\ IF op[t] = "save" /\ place[t] = "thumb" /\ ret[t] # "ok"
     THEN place' = [place EXCEPT ![t] = "fail"] /\ Goto(t, "mkdir")
     ELSE /\ Goto(t, IF op[t] = "save" /\ place[t] = "thumb" THEN "forget" ELSE "return")
          /\ UNCHANGED place
  /\ UNCHANGED <<setup, now, thumb, failed, dirs, callVars, ret, cancelled>>
Unlink(t) ==
  /\ At(t, "unlink")
  /\ temp' = [temp EXCEPT ![t] = None]
  /\ IF op[t] = "save" /\ place[t] = "thumb" /\ ret[t] = "failed"
     THEN place' = [place EXCEPT ![t] = "fail"] /\ Goto(t, "mkdir")
     ELSE /\ Goto(t, IF op[t] = "save" /\ place[t] = "thumb" /\ ret[t] = "ok"
                     THEN "forget" ELSE "return")
          /\ UNCHANGED place
  /\ UNCHANGED <<setup, now, thumb, failed, dirs, callVars, ret, cancelled>>

\* After a good save an earlier failure is forgotten; g_file_delete does
\* nothing once the call is cancelled.
ForgetFailure(t) ==
  /\ At(t, "forget")
  /\ failed' = IF cancelled[t] THEN failed ELSE [failed EXCEPT ![uri[t]] = None]
  /\ Goto(t, "return")
  /\ UNCHANGED <<setup, now, thumb, dirs, temp, callVars, place, ret, cancelled>>

\* The value a call returns; that of the second save_thumbnail is dropped.
Succeeds(t) == ret[t] = "ok" /\ (op[t] = "save" => place[t] = "thumb")

Return(t) ==
  /\ At(t, "return")
  /\ Goto(t, "idle") /\ NoCalls({t})
  /\ UNCHANGED <<setup, now, fileVars, uri>>

-----------------------------------------------------------------------------
(* The rest of the world                                                   *)

\* The file changes.
Touch(u) ==
  /\ now[u] < MaxMTime
  /\ now' = [now EXCEPT ![u] = @ + 1]
  /\ UNCHANGED <<setup, fileVars, pc, callVars, place, ret, cancelled>>

Cancel(t) ==
  /\ "cancel" \in Faults
  /\ pc[t] \notin {"idle", "can_thumbnail", "generate"} /\ ~cancelled[t]
  /\ cancelled' = [cancelled EXCEPT ![t] = TRUE]
  /\ UNCHANGED <<setup, now, fileVars, pc, callVars, place, ret>>

\* The programs end; what they were writing stays where it is for good.
Crash ==
  /\ "crash" \in Faults
  /\ pc' = [t \in Threads |-> "idle"]
  /\ temp' = [t \in Threads |-> None]
  /\ NoCalls(Threads)
  /\ UNCHANGED <<setup, now, thumb, failed, dirs, uri>>

\* The thumbnails directory is removed with all it holds.
Clean ==
  /\ "clean" \in Faults
  /\ dirs' = {}
  /\ thumb' = [s \in Sizes |-> [u \in Uris |-> None]]
  /\ failed' = [u \in Uris |-> None]
  /\ temp' = [t \in Threads |-> None]
  /\ UNCHANGED <<setup, now, pc, callVars, place, ret, cancelled>>

Work(t) == \/ CanThumbnail(t)
           \/ \E call \in {"save", "create_failed"} : Generate(t, call)
           \/ MkdirWithParents(t) \/ Mkstemp(t) \/ WriteImage(t) \/ Rename(t)
           \/ CheckCancelled(t) \/ Unlink(t) \/ ForgetFailure(t) \/ Return(t)

Next == \/ \E t \in Threads : \/ \E u \in Uris : Lookup(t, u)
                              \/ Work(t) \/ Cancel(t)
        \/ \E u \in Uris : Touch(u)
        \/ Crash \/ Clean

Spec == Init /\ [][Next]_vars

\* Threads run, and a program that shows a file looks for its thumbnail again
\* as long as it has none.
FairSpec == /\ Spec
            /\ \A t \in Threads : /\ WF_vars(Work(t))
                                  /\ \A u \in Uris : SF_vars(Lookup(t, u))

-----------------------------------------------------------------------------
(* Properties                                                              *)

\* Thumbnails are written aside and renamed into place: whatever fails, and
\* whenever the program ends, a reader finds a whole image or none.
NoPartialThumbnails ==
  /\ \A u \in Uris, s \in Sizes : thumb[s][u] # None => thumb[s][u].whole
  /\ \A u \in Uris : failed[u] # None => failed[u].whole

\* No way out of save_thumbnail leaves its temporary file behind.
NoTemporaryLeft ==
  \A t \in Threads : pc[t] \in {"idle", "can_thumbnail", "generate", "return"}
                     => temp[t] = None

\* The two together: nothing half written is ever seen, or stays
\* (save_thumbnail, gnome-desktop-thumbnail.c:1296-1365).
NothingHalfWritten == NoPartialThumbnails /\ NoTemporaryLeft

\* "Return value: TRUE if everything went fine": when save_thumbnail returns
\* TRUE there is a thumbnail for the URI, whoever else is saving.
TrueMeansSaved ==
  \A t \in Threads :
    At(t, "return") /\ Succeeds(t) /\ op[t] = "save" => thumb[SizeOf[t]][uri[t]] # None

\* The calls do what ThumbnailStore promises, as if each file changed at once.
\* A file deleted just before it is renamed was put in place just before.
Where(file) == IF file = None THEN None ELSE file.mtime
Moved(t) == \/ At(t, "check") \/ (At(t, "rename") /\ temp[t] = None)
            \/ (ret[t] # "failed" /\ pc[t] \in {"unlink", "forget", "return"})
Done(t) == (IF ~Moved(t) THEN {} ELSE IF place[t] = "thumb" THEN {"put"} ELSE {"mark"})
           \cup (IF At(t, "return") /\ Succeeds(t) /\ op[t] = "save" THEN {"forget"} ELSE {})
           \cup (IF cancelled[t] THEN {"cancel"} ELSE {})
Store == INSTANCE ThumbnailStore WITH
  thumb <- [s \in Sizes |-> [u \in Uris |-> Where(thumb[s][u])]],
  failed <- [u \in Uris |-> Where(failed[u])],
  job <- [t \in Threads |->
            IF pc[t] \in {"idle", "can_thumbnail", "generate"} THEN None
            ELSE [op |-> op[t], size |-> SizeOf[t], uri |-> uri[t],
                  mtime |-> mtime[t], did |-> Done(t)]]
ImplementsStore == Store!Spec

ASSUME StoreAssumption == None \notin Store!Jobs

\* "For future queries [...] immediately return an error after looking up the
\* fail entry": where nothing fails, a file that no longer changes is not
\* thumbnailed for ever; in the end it has a thumbnail or a failed one, in
\* every size somebody uses.
EventuallyDecided ==
  Faults = {} =>
    \A t \in Threads, u \in Uris, m \in MTimes :
      <>[](now[u] = m) => <>[](\/ IsValid(thumb[SizeOf[t]][u], m)
                               \/ IsValid(failed[u], m))
=============================================================================
