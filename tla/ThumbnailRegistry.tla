------------------------- MODULE ThumbnailRegistry -------------------------
(***************************************************************************)
(* The thumbnailers a GnomeDesktopThumbnailFactory knows                   *)
(* (gnome-desktop-thumbnail.c): it scans the thumbnailers directories      *)
(* once, follows their changes through file monitors, maps each MIME type  *)
(* to one thumbnailer, and obeys the "disable" settings.                   *)
(*                                                                         *)
(* Every operation below holds the factory's lock, except the scan made    *)
(* while the factory is constructed, which no other thread can see yet.    *)
(* Other programs install, change and delete .thumbnailer files at any     *)
(* time, also during the scan; the monitors report that later, in order.   *)
(* Monitors are made with G_FILE_MONITOR_NONE, so the MOVED event the      *)
(* handler also knows is never delivered: moves come as deletions and      *)
(* creations.  g_dir_read_name is taken to return each name once.          *)
(***************************************************************************)
EXTENDS Naturals, Sequences, FiniteSets

CONSTANTS Paths,      (* the .thumbnailer files there may ever be           *)
          Dirs,       (* the thumbnailers directories                       *)
          DirOf,      (* the directory of each path                         *)
          MimeTypes,  (* the MIME types                                     *)
          Claims,     (* the MimeType lists each file may contain           *)
          Mounts,     (* the directories that may be unmounted              *)
          NoPath,     (* NULL, where a thumbnailer is expected              *)
          Broken,     (* the content of a file thumbnailer_load rejects     *)
          Gone,       (* the content of a file that does not exist          *)
          MaxEvents   (* bound: events the monitors have not delivered yet  *)

ASSUME RegistryAssumption ==
  /\ DirOf \in [Paths -> Dirs]
  /\ Claims \in [Paths -> SUBSET SUBSET MimeTypes]
  /\ Mounts \subseteq Dirs
  /\ NoPath \notin Paths
  /\ IsFiniteSet(MimeTypes)
  /\ \A claim \in SUBSET MimeTypes : claim # Broken /\ claim # Gone
  /\ MaxEvents \in Nat

VARIABLES
  \* GnomeDesktopThumbnailFactoryPrivate
  alive,      \* not finalized
  listed,     \* thumbnailers, as a set of paths
  types,      \* mime_types of each thumbnailer in the list
  refs,       \* ref_count of each thumbnailer
  mimeMap,    \* mime_types_map
  monitors,   \* the directories watched
  loaded, disabled, disabledTypes,
  \* gnome_desktop_thumbnail_factory_load_thumbnailers under way
  scan,       \* directories still to scan, the one being read included
  unseen,     \* files g_dir_read_name may still return
  \* the file system, the settings and what has not been delivered
  disk,       \* the MimeType list of each file, Broken or Gone
  mounted,
  events,     \* changes each directory's monitor still has to report
  settings,   \* "disable-all" and "disable"
  changed     \* keys whose change has not been signalled yet

listVars == <<listed, types, refs, mimeMap>>
confVars == <<disabled, disabledTypes, changed>>
scanVars == <<scan, unseen, loaded>>
worldVars == <<disk, mounted, settings>>
vars == <<alive, listVars, monitors, confVars, scanVars, worldVars, events>>

Events == [type : {"created", "changed", "deleted"}, path : Paths] \cup
          {[type |-> "unmounted"]}
Loadable(p) == disk[p] \notin {Broken, Gone}
InDir(d) == {p \in Paths : DirOf[p] = d}
Entries(map, p) == {m \in MimeTypes : map[m] = p}

TypeOK ==
  /\ alive \in BOOLEAN
  /\ listed \subseteq Paths
  /\ types \in [Paths -> SUBSET MimeTypes]
  /\ refs \in [Paths -> Nat]
  /\ mimeMap \in [MimeTypes -> Paths \cup {NoPath}]
  /\ monitors \subseteq Dirs
  /\ loaded \in BOOLEAN /\ disabled \in BOOLEAN
  /\ disabledTypes \subseteq MimeTypes
  /\ scan \subseteq Dirs /\ unseen \subseteq Paths
  /\ \A p \in Paths : disk[p] \in Claims[p] \cup {Broken, Gone}
  /\ mounted \subseteq Dirs
  /\ events \in [Dirs -> Seq(Events)]
  /\ settings \in [all : BOOLEAN, types : SUBSET MimeTypes]
  /\ changed \subseteq {"disable-all", "disable"}

\* gnome_desktop_thumbnail_factory_init up to the scan.
Init ==
  /\ disk \in [Paths -> {Gone} \cup UNION {Claims[p] : p \in Paths}]
  /\ \A p \in Paths : Loadable(p) => disk[p] \in Claims[p]
  /\ mounted = Dirs
  /\ settings \in [all : BOOLEAN, types : {{}}]
  /\ changed = {}
  /\ events = [d \in Dirs |-> <<>>]
  /\ alive = TRUE
  /\ listed = {}
  /\ types = [p \in Paths |-> {}]
  /\ refs = [p \in Paths |-> 0]
  /\ mimeMap = [m \in MimeTypes |-> NoPath]
  /\ monitors = {}
  /\ disabled = settings.all
  /\ disabledTypes = {}
  /\ loaded = FALSE
  /\ scan = IF settings.all THEN {} ELSE Dirs
  /\ unseen = {}

-----------------------------------------------------------------------------
(* The thumbnailers and their references.  The list holds one, and each    *)
(* entry of the MIME type map one more.                                    *)

\* The map after the entries of path p are removed.
Without(p) == [m \in MimeTypes |-> IF mimeMap[m] = p THEN NoPath ELSE mimeMap[m]]

\* gnome_desktop_thumbnail_factory_register_mime_types: the first thumbnailer
\* of a type keeps it.
Register(map, p, claimed) ==
  [m \in MimeTypes |-> IF m \in claimed /\ map[m] = NoPath THEN p ELSE map[m]]

\* thumbnailer_new and gnome_desktop_thumbnail_factory_add_thumbnailer.
AddThumbnailer(p) ==
  IF Loadable(p)
  THEN LET map == Register(mimeMap, p, disk[p])
       IN /\ listed' = listed \cup {p}
          /\ types' = [types EXCEPT ![p] = disk[p]]
          /\ mimeMap' = map
          /\ refs' = [refs EXCEPT ![p] = 1 + Cardinality(Entries(map, p))]
  ELSE UNCHANGED listVars

\* The thumbnailer of path p leaves the list and the map.
DropThumbnailer_NoUnref(p) ==
  /\ listed' = listed \ {p}
  /\ types' = [types EXCEPT ![p] = {}]
  /\ mimeMap' = Without(p)
  /\ refs' = [refs EXCEPT ![p] = @ - Cardinality(Entries(mimeMap, p))]
DropThumbnailer(p) ==
  /\ listed' = listed \ {p}
  /\ types' = [types EXCEPT ![p] = {}]
  /\ mimeMap' = Without(p)
  /\ refs' = [refs EXCEPT ![p] = @ - Cardinality(Entries(mimeMap, p)) - 1]

\* A listed thumbnailer is read again; thumbnailer_load drops the list's
\* reference when the file is no longer good.
ReloadThumbnailer_KeepsMap(p) ==
  IF Loadable(p)
  THEN /\ types' = [types EXCEPT ![p] = disk[p]]
       /\ UNCHANGED <<listed, mimeMap, refs>>
  ELSE DropThumbnailer(p)
ReloadThumbnailer_UnrefsTwice(p) ==
  IF Loadable(p)
  THEN AddThumbnailer(p)
  ELSE /\ listed' = listed \ {p}
       /\ types' = [types EXCEPT ![p] = {}]
       /\ mimeMap' = Without(p)
       /\ refs' = [refs EXCEPT ![p] = @ - Cardinality(Entries(mimeMap, p)) - 2]
ReloadThumbnailer(p) ==
  IF Loadable(p)
  THEN LET map == Register(Without(p), p, disk[p])
       IN /\ types' = [types EXCEPT ![p] = disk[p]]
          /\ mimeMap' = map
          /\ refs' = [refs EXCEPT ![p] = @ - Cardinality(Entries(mimeMap, p))
                                         + Cardinality(Entries(map, p))]
          /\ UNCHANGED listed
  ELSE DropThumbnailer(p)

-----------------------------------------------------------------------------
(* gnome_desktop_thumbnail_factory_load_thumbnailers                       *)

\* Open a directory and start watching it; one that is not there is skipped.
OpenDir(d) ==
  /\ alive /\ d \in scan /\ d \notin monitors
  /\ scan \cap monitors = {}
  /\ IF d \in mounted
     THEN /\ monitors' = monitors \cup {d}
          /\ unseen' = {p \in InDir(d) : disk[p] # Gone}
          /\ UNCHANGED <<scan, loaded>>
     ELSE /\ scan' = scan \ {d}
          /\ loaded' = (scan' = {})
          /\ UNCHANGED <<monitors, unseen>>
  /\ UNCHANGED <<alive, listVars, confVars, worldVars, events>>

\* g_dir_read_name returns p, which may be gone again.
ReadEntry(p) ==
  /\ alive /\ p \in unseen
  /\ unseen' = unseen \ {p}
  /\ AddThumbnailer(p)
  /\ UNCHANGED <<alive, monitors, confVars, scan, loaded, worldVars, events>>

CloseDir(d) ==
  /\ alive /\ d \in scan \cap monitors
  /\ unseen = {}
  /\ scan' = scan \ {d}
  /\ loaded' = (scan' = {})
  /\ UNCHANGED <<alive, listVars, monitors, confVars, unseen, worldVars, events>>

Scan == \/ \E d \in Dirs : OpenDir(d) \/ CloseDir(d)
        \/ \E p \in Paths : ReadEntry(p)

-----------------------------------------------------------------------------
(* Main loop callbacks: none runs before the scan returns to the loop.     *)

UpdateOrCreateThumbnailer_OnlyUpdates(p) ==
  IF p \in listed THEN ReloadThumbnailer(p) ELSE UNCHANGED listVars
UpdateOrCreateThumbnailer(p) ==
  IF p \in listed THEN ReloadThumbnailer(p) ELSE AddThumbnailer(p)

RemoveThumbnailer(p) ==
  IF p \in listed THEN DropThumbnailer(p) ELSE UNCHANGED listVars

\* The loop of remove_thumbnailers_for_dir stops at its first match.
RemoveThumbnailersForDir(d) ==
  /\ monitors' = monitors \ {d}
  /\ IF listed \cap InDir(d) = {}
     THEN UNCHANGED listVars
     ELSE \E p \in listed \cap InDir(d) : DropThumbnailer(p)

ThumbnailersDirectoryChanged(d) ==
  /\ alive /\ scan = {}
  /\ events[d] # <<>>
  /\ events' = [events EXCEPT ![d] = Tail(@)]
  /\ LET e == Head(events[d]) IN
     CASE e.type \in {"created", "changed"} ->
            UpdateOrCreateThumbnailer(e.path) /\ UNCHANGED monitors
       [] e.type = "deleted" ->
            RemoveThumbnailer(e.path) /\ UNCHANGED monitors
       [] e.type = "unmounted" -> RemoveThumbnailersForDir(d)
  /\ UNCHANGED <<alive, confVars, scanVars, worldVars>>

DisabledAllChanged_KeepsTypes ==
  /\ alive /\ scan = {}
  /\ "disable-all" \in changed
  /\ changed' = changed \ {"disable-all"}
  /\ disabled' = settings.all
  /\ disabledTypes' = disabledTypes
  /\ scan' = IF settings.all \/ loaded THEN {} ELSE Dirs
  /\ UNCHANGED <<alive, listVars, monitors, unseen, loaded, worldVars, events>>
\* external_thumbnailers_disabled_all_changed_cb
DisabledAllChanged ==
  /\ alive /\ scan = {}
  /\ "disable-all" \in changed
  /\ changed' = changed \ {"disable-all"}
  /\ disabled' = settings.all
  /\ disabledTypes' = IF settings.all THEN {} ELSE settings.types
  /\ scan' = IF settings.all \/ loaded THEN {} ELSE Dirs
  /\ UNCHANGED <<alive, listVars, monitors, unseen, loaded, worldVars, events>>

\* external_thumbnailers_disabled_changed_cb
DisabledChanged ==
  /\ alive /\ scan = {}
  /\ "disable" \in changed
  /\ changed' = changed \ {"disable"}
  /\ disabledTypes' = IF disabled THEN disabledTypes ELSE settings.types
  /\ UNCHANGED <<alive, listVars, monitors, disabled, scanVars, worldVars, events>>

\* gnome_desktop_thumbnail_factory_finalize, once the last user let go.
Finalize ==
  /\ alive /\ scan = {}
  /\ alive' = FALSE
  /\ refs' = [p \in Paths |-> refs[p] - Cardinality(Entries(mimeMap, p))
                              - (IF p \in listed THEN 1 ELSE 0)]
  /\ listed' = {}
  /\ types' = [p \in Paths |-> {}]
  /\ mimeMap' = [m \in MimeTypes |-> NoPath]
  /\ monitors' = {}
  /\ events' = [d \in Dirs |-> <<>>]
  /\ changed' = {}
  /\ disabledTypes' = {}
  /\ UNCHANGED <<disabled, scanVars, worldVars>>

-----------------------------------------------------------------------------
(* Other programs                                                          *)

Report(d, e) ==
  IF d \in monitors
  THEN /\ Len(events[d]) < MaxEvents
       /\ events' = [events EXCEPT ![d] = Append(@, e)]
  ELSE UNCHANGED events

\* A file appears, and a scan of its directory may still come across it.
Install(p, content) ==
  LET d == DirOf[p] IN
  /\ alive /\ d \in mounted /\ disk[p] = Gone
  /\ disk' = [disk EXCEPT ![p] = content]
  /\ Report(d, [type |-> "created", path |-> p])
  /\ unseen' \in IF d \in scan \cap monitors /\ p \notin listed
                 THEN {unseen, unseen \cup {p}} ELSE {unseen}
  /\ UNCHANGED <<alive, listVars, monitors, confVars, scan, loaded, mounted, settings>>

Rewrite(p, content) ==
  /\ alive /\ disk[p] \notin {Gone, content}
  /\ disk' = [disk EXCEPT ![p] = content]
  /\ Report(DirOf[p], [type |-> "changed", path |-> p])
  /\ UNCHANGED <<alive, listVars, monitors, confVars, scanVars, mounted, settings>>

Delete(p) ==
  /\ alive /\ disk[p] # Gone
  /\ disk' = [disk EXCEPT ![p] = Gone]
  /\ Report(DirOf[p], [type |-> "deleted", path |-> p])
  /\ UNCHANGED <<alive, listVars, monitors, confVars, scanVars, mounted, settings>>

Unmount(d) ==
  /\ alive /\ d \in Mounts \cap mounted
  /\ mounted' = mounted \ {d}
  /\ disk' = [p \in Paths |-> IF DirOf[p] = d THEN Gone ELSE disk[p]]
  /\ Report(d, [type |-> "unmounted"])
  /\ UNCHANGED <<alive, listVars, monitors, confVars, scanVars, settings>>

ChangeSetting(new) ==
  /\ alive /\ new # settings
  /\ settings' = new
  /\ changed' = changed \cup (IF new.all # settings.all THEN {"disable-all"} ELSE {})
                        \cup (IF new.types # settings.types THEN {"disable"} ELSE {})
  /\ UNCHANGED <<alive, listVars, monitors, disabled, disabledTypes, scanVars,
                 disk, mounted, events>>

World ==
  \/ \E p \in Paths : \/ \E c \in Claims[p] \cup {Broken} : Install(p, c) \/ Rewrite(p, c)
                      \/ Delete(p)
  \/ \E d \in Dirs : Unmount(d)
  \/ \E new \in [all : BOOLEAN, types : {{}, MimeTypes}] : ChangeSetting(new)

Callbacks == \/ \E d \in Dirs : ThumbnailersDirectoryChanged(d)
             \/ DisabledAllChanged
             \/ DisabledChanged

Next == Scan \/ Callbacks \/ Finalize \/ World

Spec == Init /\ [][Next]_vars

\* The thread that scans goes on, and the main loop dispatches each source.
FairSpec == /\ Spec
            /\ WF_vars(Scan)
            /\ \A d \in Dirs : WF_vars(ThumbnailersDirectoryChanged(d))
            /\ WF_vars(DisabledAllChanged)
            /\ WF_vars(DisabledChanged)

-----------------------------------------------------------------------------
(* Properties                                                              *)

\* thumbnailer_ref and thumbnailer_unref balance: one reference for the list,
\* one for each entry of the map, and none once both are gone.
RefsBalance ==
  \A p \in Paths :
    refs[p] = Cardinality(Entries(mimeMap, p)) + (IF p \in listed THEN 1 ELSE 0)

\* gnome_desktop_thumbnail_factory_generate_thumbnail takes its command from
\* the map: the map never leads to a thumbnailer that was removed, or that no
\* longer claims the type.
MapIsSound ==
  \A m \in MimeTypes :
    mimeMap[m] # NoPath => mimeMap[m] \in listed /\ m \in types[mimeMap[m]]

Settled == alive /\ scan = {} /\ loaded /\ changed = {}
           /\ \A d \in Dirs : events[d] = <<>>

\* The scan and the monitors together miss nothing: once every event is
\* handled, the list is what the watched directories hold.
ListIsWhatIsOnDisk ==
  Settled => \A d \in monitors : \A p \in InDir(d) :
    /\ p \in listed <=> Loadable(p)
    /\ Loadable(p) => types[p] = disk[p]

\* "Remove all the thumbnailers inside this @thumbnailer_dir": no thumbnailer
\* outlives the file system it was on.
NoneAfterUnmount ==
  Settled => \A p \in listed : DirOf[p] \in mounted

\* Whatever the order in which the two keys are signalled, the factory ends up
\* with what they say.
SettingsAreObeyed ==
  alive /\ changed = {} =>
    /\ disabled = settings.all
    /\ ~disabled => disabledTypes = settings.types

\* A file that stays in a watched directory is listed in the end with what it
\* contains, whatever else changes.
EventuallyListed ==
  \A p \in Paths : \A c \in Claims[p] :
    <>[](alive /\ disk[p] = c /\ DirOf[p] \in monitors)
      => <>[](p \in listed /\ types[p] = c)
=============================================================================
