----------------------- MODULE ThumbnailRegistryProofs -----------------------
(***************************************************************************)
(* For any thumbnailers, directories and MIME types, and however their     *)
(* files change during the scan and after it: the references balance, the  *)
(* map leads to thumbnailers that are there, the settings are obeyed, and  *)
(* the list is what is on disk once every report is handled.               *)
(***************************************************************************)
EXTENDS ThumbnailRegistry, FiniteSetTheorems, TLAPS

\* What a file may contain; the mounted directories need not be followed.
DiskInv == disk \in [Paths -> (SUBSET MimeTypes) \cup {Broken, Gone}]

\* The types of the list, the map and what the monitors report.
ListInv ==
  /\ listed \subseteq Paths
  /\ types \in [Paths -> SUBSET MimeTypes]
  /\ refs \in [Paths -> Int]
  /\ mimeMap \in [MimeTypes -> Paths \cup {NoPath}]

EventInv == events \in [Dirs -> Seq(Events)] /\ unseen \subseteq Paths

\* A change of "disable-all" not yet signalled is the only reason to be wrong
\* about it.
SettingsInv ==
  /\ settings \in [all : BOOLEAN, types : SUBSET MimeTypes]
  /\ alive /\ "disable-all" \notin changed => disabled = settings.all
  /\ changed \subseteq {"disable-all", "disable"}

\* A thumbnailer is added once: what the scan has still to read is not in the
\* list, and no directory is scanned again when it has been watched.
ScanInv ==
  /\ unseen \cap listed = {}
  /\ \A p \in unseen : DirOf[p] \in scan \cap monitors
  /\ \A p \in listed : DirOf[p] \in scan => DirOf[p] \in monitors
  /\ ~loaded /\ scan = {} =>
       /\ listed = {} /\ monitors = {}
       /\ \A d \in Dirs : events[d] = <<>>

IInv ==
  /\ DiskInv /\ ListInv /\ EventInv /\ ScanInv
  /\ RefsBalance /\ MapIsSound
  /\ SettingsInv /\ SettingsAreObeyed

-----------------------------------------------------------------------------
(* The map and the numbers of its entries.                                 *)

LEMMA EntriesCount ==
  ASSUME NEW map, NEW p
  PROVE Cardinality(Entries(map, p)) \in Nat
<1>1. IsFiniteSet(Entries(map, p))
  BY RegistryAssumption, FS_Subset DEF Entries
<1>. QED BY <1>1, FS_CardinalityType

LEMMA EntriesSame ==
  ASSUME NEW map, NEW other, NEW p, \A m \in MimeTypes : map[m] = p <=> other[m] = p
  PROVE Entries(map, p) = Entries(other, p)
BY DEF Entries

LEMMA EntriesNone ==
  ASSUME NEW map, NEW p, \A m \in MimeTypes : map[m] # p
  PROVE Cardinality(Entries(map, p)) = 0
<1>1. Entries(map, p) = {}
  BY DEF Entries
<1>. QED BY <1>1, FS_EmptySet

\* Registering a thumbnailer takes no type from another one.
LEMMA RegisterOthers ==
  ASSUME NEW map \in [MimeTypes -> Paths \cup {NoPath}], NEW p \in Paths,
         NEW claimed
  PROVE /\ Register(map, p, claimed) \in [MimeTypes -> Paths \cup {NoPath}]
        /\ \A q \in Paths \ {p} : Entries(Register(map, p, claimed), q) = Entries(map, q)
<1>1. Register(map, p, claimed) \in [MimeTypes -> Paths \cup {NoPath}]
  BY DEF Register
<1>2. ASSUME NEW q \in Paths \ {p}
      PROVE Entries(Register(map, p, claimed), q) = Entries(map, q)
  BY RegistryAssumption DEF Register, Entries
<1>. QED BY <1>1, <1>2

LEMMA WithoutOthers ==
  ASSUME ListInv, NEW p \in Paths
  PROVE /\ Without(p) \in [MimeTypes -> Paths \cup {NoPath}]
        /\ \A m \in MimeTypes : Without(p)[m] # p
        /\ \A q \in Paths \ {p} : Entries(Without(p), q) = Entries(mimeMap, q)
        /\ Cardinality(Entries(Without(p), p)) = 0
<1>1. Without(p) \in [MimeTypes -> Paths \cup {NoPath}]
  BY DEF Without, ListInv
<1>2. \A m \in MimeTypes : Without(p)[m] # p
  BY RegistryAssumption DEF Without
<1>3. ASSUME NEW q \in Paths \ {p} PROVE Entries(Without(p), q) = Entries(mimeMap, q)
  BY RegistryAssumption DEF Without, Entries
<1>. QED BY <1>1, <1>2, <1>3, EntriesNone

-----------------------------------------------------------------------------
(* The three things that happen to a thumbnailer keep the list, the map    *)
(* and the references together.                                            *)

Sound == ListInv /\ RefsBalance /\ MapIsSound

LEMMA AddStep ==
  ASSUME Sound, DiskInv, NEW p \in Paths \ listed, AddThumbnailer(p)
  PROVE Sound'
<1>1. CASE ~Loadable(p)
  BY <1>1 DEF AddThumbnailer, listVars, Sound, ListInv, RefsBalance, MapIsSound, Entries
<1>2. CASE Loadable(p)
  <2> DEFINE map == Register(mimeMap, p, disk[p])
  <2>1. /\ listed' = listed \cup {p}
        /\ types' = [types EXCEPT ![p] = disk[p]]
        /\ mimeMap' = map
        /\ refs' = [refs EXCEPT ![p] = 1 + Cardinality(Entries(map, p))]
    BY <1>2 DEF AddThumbnailer
  <2>2. disk[p] \subseteq MimeTypes
    BY <1>2 DEF Loadable, DiskInv
  <2>3. Cardinality(Entries(map, p)) \in Nat
    BY EntriesCount
  <2>4. /\ map \in [MimeTypes -> Paths \cup {NoPath}]
        /\ \A q \in Paths \ {p} : Entries(map, q) = Entries(mimeMap, q)
    BY RegisterOthers DEF Sound, ListInv
  <2>5. ListInv'
    BY <2>1, <2>2, <2>3, <2>4 DEF Sound, ListInv
  <2>6. RefsBalance'
    <3> SUFFICES ASSUME NEW q \in Paths
                 PROVE refs'[q] = Cardinality(Entries(mimeMap', q))
                                  + (IF q \in listed' THEN 1 ELSE 0)
      BY DEF RefsBalance, Entries
    <3>1. CASE q = p
      BY <2>1, <2>3, <3>1 DEF Sound, ListInv
    <3>2. CASE q # p
      BY <2>1, <2>4, <3>2 DEF Sound, ListInv, RefsBalance
    <3>. QED BY <3>1, <3>2
  <2>7. MapIsSound'
    <3> SUFFICES ASSUME NEW m \in MimeTypes, map[m] # NoPath
                 PROVE map[m] \in listed' /\ m \in types'[map[m]]
      BY <2>1 DEF MapIsSound
    <3>1. CASE mimeMap[m] = NoPath
      BY <2>1, <2>2, <3>1 DEF Sound, ListInv, Register
    <3>2. CASE mimeMap[m] # NoPath /\ mimeMap[m] # p
      BY <2>1, <3>2 DEF Sound, ListInv, MapIsSound, Register
    <3>3. mimeMap[m] # p
      BY RegistryAssumption DEF Sound, MapIsSound
    <3>. QED BY <3>1, <3>2, <3>3
  <2>. QED BY <2>5, <2>6, <2>7 DEF Sound
<1>. QED BY <1>1, <1>2

LEMMA DropStep ==
  ASSUME Sound, NEW p \in listed, DropThumbnailer(p)
  PROVE Sound'
<1>1. /\ p \in Paths
      /\ listed' = listed \ {p}
      /\ types' = [types EXCEPT ![p] = {}]
      /\ mimeMap' = Without(p)
      /\ refs' = [refs EXCEPT ![p] = refs[p] - Cardinality(Entries(mimeMap, p)) - 1]
  BY DEF DropThumbnailer, Sound, ListInv
<1>2. /\ Without(p) \in [MimeTypes -> Paths \cup {NoPath}]
      /\ \A m \in MimeTypes : Without(p)[m] # p
      /\ \A q \in Paths \ {p} : Entries(Without(p), q) = Entries(mimeMap, q)
      /\ Cardinality(Entries(Without(p), p)) = 0
  BY <1>1, WithoutOthers DEF Sound
<1>3. Cardinality(Entries(mimeMap, p)) \in Nat
  BY EntriesCount
<1>4. ListInv'
  BY <1>1, <1>2, <1>3 DEF Sound, ListInv
<1>5. RefsBalance'
  <2> SUFFICES ASSUME NEW q \in Paths
               PROVE refs'[q] = Cardinality(Entries(mimeMap', q))
                                + (IF q \in listed' THEN 1 ELSE 0)
    BY DEF RefsBalance, Entries
  <2>1. CASE q = p
    BY <1>1, <1>2, <1>3, <2>1 DEF Sound, ListInv, RefsBalance
  <2>2. CASE q # p
    BY <1>1, <1>2, <2>2 DEF Sound, ListInv, RefsBalance
  <2>. QED BY <2>1, <2>2
<1>6. MapIsSound'
  BY <1>1, <1>2, RegistryAssumption DEF Sound, ListInv, MapIsSound, Without
<1>. QED BY <1>4, <1>5, <1>6 DEF Sound

LEMMA ReloadStep ==
  ASSUME Sound, DiskInv, NEW p \in listed, ReloadThumbnailer(p)
  PROVE Sound'
<1>1. CASE ~Loadable(p)
  BY <1>1, DropStep DEF ReloadThumbnailer
<1>2. CASE Loadable(p)
  <2> DEFINE map == Register(Without(p), p, disk[p])
  <2>1. /\ p \in Paths
        /\ types' = [types EXCEPT ![p] = disk[p]]
        /\ mimeMap' = map
        /\ refs' = [refs EXCEPT ![p] = refs[p] - Cardinality(Entries(mimeMap, p))
                                       + Cardinality(Entries(map, p))]
        /\ listed' = listed
    BY <1>2 DEF ReloadThumbnailer, Sound, ListInv
  <2>2. disk[p] \subseteq MimeTypes
    BY <1>2, <2>1 DEF Loadable, DiskInv
  <2>3. /\ Cardinality(Entries(map, p)) \in Nat
        /\ Cardinality(Entries(mimeMap, p)) \in Nat
    BY EntriesCount
  <2>4. /\ Without(p) \in [MimeTypes -> Paths \cup {NoPath}]
        /\ \A m \in MimeTypes : Without(p)[m] # p
        /\ \A q \in Paths \ {p} : Entries(Without(p), q) = Entries(mimeMap, q)
    BY <2>1, WithoutOthers DEF Sound
  <2>5. /\ map \in [MimeTypes -> Paths \cup {NoPath}]
        /\ \A q \in Paths \ {p} : Entries(map, q) = Entries(Without(p), q)
    BY <2>1, <2>4, RegisterOthers
  <2>6. ListInv'
    BY <2>1, <2>2, <2>3, <2>5 DEF Sound, ListInv
  <2>7. RefsBalance'
    <3> SUFFICES ASSUME NEW q \in Paths
                 PROVE refs'[q] = Cardinality(Entries(mimeMap', q))
                                  + (IF q \in listed' THEN 1 ELSE 0)
      BY DEF RefsBalance, Entries
    <3>1. CASE q = p
      BY <2>1, <2>3, <3>1 DEF Sound, ListInv, RefsBalance
    <3>2. CASE q # p
      BY <2>1, <2>4, <2>5, <3>2 DEF Sound, ListInv, RefsBalance
    <3>. QED BY <3>1, <3>2
  <2>8. MapIsSound'
    <3> SUFFICES ASSUME NEW m \in MimeTypes, map[m] # NoPath
                 PROVE map[m] \in listed /\ m \in types'[map[m]]
      BY <2>1 DEF MapIsSound
    <3>1. CASE map[m] = p
      BY <2>1, <2>2, <2>4, <3>1 DEF Sound, ListInv, Register
    <3>2. CASE map[m] # p
      BY <2>1, <2>4, <3>2 DEF Sound, ListInv, MapIsSound, Register, Without
    <3>. QED BY <3>1, <3>2
  <2>. QED BY <2>6, <2>7, <2>8 DEF Sound
<1>. QED BY <1>1, <1>2

LEMMA SameListStep ==
  ASSUME Sound, UNCHANGED listVars
  PROVE Sound'
BY DEF listVars, Sound, ListInv, RefsBalance, MapIsSound, Entries

-----------------------------------------------------------------------------
(* The steps                                                               *)

\* The settings, in steps that have nothing to do with them.
LEMMA SameSettings ==
  ASSUME SettingsInv, SettingsAreObeyed, UNCHANGED <<alive, confVars, settings>>
  PROVE SettingsInv' /\ SettingsAreObeyed'
BY DEF confVars, SettingsInv, SettingsAreObeyed

LEMMA ScanStep ==
  ASSUME IInv, Scan
  PROVE IInv'
<1>0. Sound /\ DiskInv /\ EventInv /\ ScanInv /\ SettingsInv /\ SettingsAreObeyed
  BY DEF IInv, Sound
<1>1. ASSUME NEW d \in Dirs, OpenDir(d) \/ CloseDir(d) PROVE IInv'
  <2>1. UNCHANGED <<alive, confVars, settings, listVars, disk, events>>
    BY <1>1 DEF OpenDir, CloseDir, worldVars
  <2>2. unseen' \subseteq Paths
    BY <1>0, <1>1 DEF OpenDir, CloseDir, EventInv, InDir
  <2>3. ScanInv'
    <3>1. CASE OpenDir(d)
      <4>1. /\ d \in scan /\ d \notin monitors /\ scan \cap monitors = {}
            /\ unseen = {} /\ UNCHANGED <<listed, events>>
        BY <1>0, <2>1, <3>1 DEF OpenDir, listVars, ScanInv
      <4>2. CASE d \in mounted
        <5>1. /\ monitors' = monitors \cup {d} /\ UNCHANGED <<scan, loaded>>
              /\ \A p \in unseen' : DirOf[p] = d
          BY <3>1, <4>2 DEF OpenDir, InDir
        <5>2. \A p \in listed : DirOf[p] # d
          BY <1>0, <4>1 DEF ScanInv
        <5>. QED BY <1>0, <4>1, <5>1, <5>2 DEF ScanInv
      <4>3. CASE d \notin mounted
        <5>1. /\ scan' = scan \ {d} /\ loaded' = (scan' = {})
              /\ UNCHANGED <<monitors, unseen>>
          BY <3>1, <4>3 DEF OpenDir
        <5>. QED BY <1>0, <4>1, <5>1 DEF ScanInv
      <4>. QED BY <4>2, <4>3
    <3>2. CASE CloseDir(d)
      BY <1>0, <2>1, <3>2 DEF CloseDir, listVars, ScanInv
    <3>. QED BY <1>1, <3>1, <3>2
  <2>. QED BY <1>0, <2>1, <2>2, <2>3, SameListStep, SameSettings
           DEF IInv, Sound, DiskInv, EventInv
<1>2. ASSUME NEW p \in Paths, ReadEntry(p) PROVE IInv'
  <2>1. /\ unseen' = unseen \ {p} /\ AddThumbnailer(p)
        /\ UNCHANGED <<alive, confVars, settings, disk, events, monitors, scan, loaded>>
    BY <1>2 DEF ReadEntry, worldVars
  <2>2. p \in unseen /\ p \notin listed
    BY <1>0, <1>2 DEF ReadEntry, ScanInv
  <2>3. listed' \subseteq listed \cup {p}
    BY <2>1 DEF AddThumbnailer, listVars
  <2>4. ScanInv'
    BY <1>0, <2>1, <2>2, <2>3 DEF ScanInv
  <2>. QED BY <1>0, <2>1, <2>2, <2>4, AddStep, SameSettings
           DEF IInv, Sound, DiskInv, EventInv
<1>. QED BY <1>1, <1>2 DEF Scan

\* A monitor's report.
LEMMA MonitorStep ==
  ASSUME IInv, NEW d \in Dirs, ThumbnailersDirectoryChanged(d)
  PROVE IInv'
<1>0. Sound /\ DiskInv /\ EventInv /\ ScanInv /\ SettingsInv /\ SettingsAreObeyed
  BY DEF IInv, Sound
<1>1. /\ events[d] # <<>> /\ events' = [events EXCEPT ![d] = Tail(events[d])]
      /\ UNCHANGED <<alive, confVars, settings, disk, unseen>>
  BY DEF ThumbnailersDirectoryChanged, worldVars, scanVars
<1>2. events[d] \in Seq(Events) /\ Tail(events[d]) \in Seq(Events)
  BY <1>0, <1>1 DEF EventInv
<1>3. Head(events[d]) \in Events
  BY <1>1, <1>2
<1>4. EventInv'
  BY <1>0, <1>1, <1>2 DEF EventInv
<1>5. Sound'
  <2> DEFINE e == Head(events[d])
  <2>1. CASE e.type \in {"created", "changed"}
    <3>1. e.path \in Paths
      BY <1>3, <2>1 DEF Events
    <3>2. UpdateOrCreateThumbnailer(e.path)
      BY <2>1 DEF ThumbnailersDirectoryChanged
    <3>. QED BY <1>0, <3>1, <3>2, AddStep, ReloadStep DEF UpdateOrCreateThumbnailer
  <2>2. CASE e.type = "deleted"
    <3>1. RemoveThumbnailer(e.path)
      BY <2>2 DEF ThumbnailersDirectoryChanged
    <3>. QED BY <1>0, <3>1, DropStep, SameListStep DEF RemoveThumbnailer
  <2>3. CASE e.type = "unmounted"
    <3>1. RemoveThumbnailersForDir(d)
      BY <2>3 DEF ThumbnailersDirectoryChanged
    <3>. QED BY <1>0, <3>1, DropStep, SameListStep DEF RemoveThumbnailersForDir
  <2>. QED BY <1>3, <2>1, <2>2, <2>3 DEF Events
<1>6. ScanInv'
  <2>1. scan = {} /\ UNCHANGED <<scan, loaded>>
    BY DEF ThumbnailersDirectoryChanged, scanVars
  <2>2. loaded /\ unseen = {}
    BY <1>0, <1>1, <2>1 DEF ScanInv
  <2>. QED BY <1>1, <2>1, <2>2 DEF ScanInv
<1>. QED BY <1>0, <1>1, <1>4, <1>5, <1>6, SameSettings DEF IInv, Sound, DiskInv

\* The settings' signals.
LEMMA SettingsStep ==
  ASSUME IInv, DisabledAllChanged \/ DisabledChanged
  PROVE IInv'
<1>1. UNCHANGED <<listVars, disk, events, unseen, settings, alive>>
  BY DEF DisabledAllChanged, DisabledChanged, worldVars, scanVars
<1>2. Sound' /\ DiskInv' /\ EventInv'
  BY <1>1, SameListStep DEF IInv, Sound, DiskInv, EventInv
<1>3. SettingsInv' /\ SettingsAreObeyed'
  <2>1. CASE DisabledAllChanged
    BY <1>1, <2>1 DEF DisabledAllChanged, IInv, SettingsInv, SettingsAreObeyed
  <2>2. CASE DisabledChanged
    BY <1>1, <2>2 DEF DisabledChanged, IInv, SettingsInv, SettingsAreObeyed
  <2>. QED BY <2>1, <2>2
<1>4. ScanInv'
  BY <1>1 DEF DisabledAllChanged, DisabledChanged, IInv, ScanInv, listVars, scanVars
<1>. QED BY <1>2, <1>3, <1>4 DEF IInv, Sound

\* The end of the factory drops every reference there is.
LEMMA FinalizeStep ==
  ASSUME IInv, Finalize
  PROVE IInv'
<1>1. /\ listed' = {} /\ types' = [p \in Paths |-> {}]
      /\ mimeMap' = [m \in MimeTypes |-> NoPath]
      /\ refs' = [p \in Paths |-> refs[p] - Cardinality(Entries(mimeMap, p))
                                  - (IF p \in listed THEN 1 ELSE 0)]
      /\ events' = [d \in Dirs |-> <<>>]
      /\ UNCHANGED <<disk, unseen, settings>>
      /\ alive' = FALSE /\ changed' = {}
  BY DEF Finalize, worldVars, scanVars
<1>2. \A p \in Paths : refs'[p] = 0
  BY <1>1, EntriesCount DEF IInv, ListInv, RefsBalance
<1>3. \A p \in Paths : Cardinality(Entries(mimeMap', p)) = 0
  BY <1>1, EntriesNone, RegistryAssumption
<1>4. ListInv'
  BY <1>1, <1>2 DEF ListInv
<1>5. RefsBalance'
  BY <1>1, <1>2, <1>3 DEF RefsBalance, Entries
<1>6. MapIsSound'
  BY <1>1 DEF MapIsSound
<1>7. DiskInv' /\ EventInv'
  BY <1>1 DEF IInv, DiskInv, EventInv
<1>8. SettingsInv' /\ SettingsAreObeyed'
  BY <1>1 DEF IInv, SettingsInv, SettingsAreObeyed
<1>9. ScanInv'
  BY <1>1 DEF Finalize, IInv, ScanInv, scanVars
<1>. QED BY <1>4, <1>5, <1>6, <1>7, <1>8, <1>9 DEF IInv

\* A change is reported behind those that are not handled yet.
LEMMA ReportType ==
  ASSUME EventInv, NEW d \in Dirs, NEW e \in Events, Report(d, e)
  PROVE /\ events' \in [Dirs -> Seq(Events)]
        /\ monitors = {} => events' = events
<1>1. \/ events' = events
      \/ events' = [events EXCEPT ![d] = Append(events[d], e)] /\ d \in monitors
  BY DEF Report
<1>2. Append(events[d], e) \in Seq(Events)
  BY DEF EventInv
<1>3. events' \in [Dirs -> Seq(Events)]
  BY <1>1, <1>2 DEF EventInv
<1>4. monitors = {} => events' = events
  BY <1>1
<1>. QED BY <1>3, <1>4

LEMMA WorldStep ==
  ASSUME IInv, World
  PROVE IInv'
<1>0. Sound /\ DiskInv /\ EventInv /\ ScanInv /\ SettingsInv /\ SettingsAreObeyed
  BY DEF IInv, Sound
<1>1. ASSUME NEW p \in Paths, NEW c \in Claims[p] \cup {Broken}, Install(p, c) \/ Rewrite(p, c)
      PROVE IInv'
  <2>1. c \in (SUBSET MimeTypes) \cup {Broken} /\ DirOf[p] \in Dirs
    BY RegistryAssumption
  <2>2. /\ disk' = [disk EXCEPT ![p] = c]
        /\ unseen' \in {unseen, unseen \cup {p}}
        /\ UNCHANGED <<alive, confVars, settings, listVars>>
    BY <1>1 DEF Install, Rewrite, scanVars
  <2>3. \E type \in {"created", "changed"} : Report(DirOf[p], [type |-> type, path |-> p])
    BY <1>1 DEF Install, Rewrite
  <2>4. events' \in [Dirs -> Seq(Events)]
    BY <1>0, <2>1, <2>3, ReportType DEF Events
  <2>5. DiskInv'
    BY <1>0, <2>1, <2>2 DEF DiskInv
  <2>6. EventInv'
    BY <1>0, <2>2, <2>4 DEF EventInv
  <2>7. ScanInv'
    <3>1. monitors = {} => events' = events
      BY <1>0, <2>1, <2>3, ReportType DEF Events
    <3>2. UNCHANGED <<scan, loaded, monitors, listed>>
      BY <1>1 DEF Install, Rewrite, scanVars, listVars
    <3>3. unseen' = unseen \/ (DirOf[p] \in scan \cap monitors /\ p \notin listed)
      BY <1>1 DEF Install, Rewrite, scanVars
    <3>. QED BY <1>0, <2>2, <3>1, <3>2, <3>3 DEF ScanInv
  <2>. QED BY <1>0, <2>2, <2>5, <2>6, <2>7, SameListStep, SameSettings DEF IInv, Sound
<1>2. ASSUME NEW p \in Paths, Delete(p) PROVE IInv'
  <2>1. /\ disk' = [disk EXCEPT ![p] = Gone] /\ Report(DirOf[p], [type |-> "deleted", path |-> p])
        /\ UNCHANGED <<alive, confVars, settings, listVars, unseen>>
    BY <1>2 DEF Delete, scanVars
  <2>2. DirOf[p] \in Dirs /\ [type |-> "deleted", path |-> p] \in Events
    BY RegistryAssumption DEF Events
  <2>3. DiskInv' /\ EventInv'
    BY <1>0, <2>1, <2>2, ReportType DEF DiskInv, EventInv
  <2>4. ScanInv'
    <3>1. monitors = {} => events' = events
      BY <1>0, <2>1, <2>2, ReportType
    <3>2. UNCHANGED <<scan, loaded, monitors, listed, unseen>>
      BY <1>2 DEF Delete, scanVars, listVars
    <3>. QED BY <1>0, <3>1, <3>2 DEF ScanInv
  <2>. QED BY <1>0, <2>1, <2>3, <2>4, SameListStep, SameSettings DEF IInv, Sound
<1>3. ASSUME NEW d \in Dirs, Unmount(d) PROVE IInv'
  <2>1. /\ disk' = [p \in Paths |-> IF DirOf[p] = d THEN Gone ELSE disk[p]]
        /\ Report(d, [type |-> "unmounted"])
        /\ UNCHANGED <<alive, confVars, settings, listVars, unseen>>
    BY <1>3 DEF Unmount, scanVars
  <2>2. DiskInv' /\ EventInv'
    BY <1>0, <2>1, ReportType DEF DiskInv, EventInv, Events
  <2>3. ScanInv'
    <3>1. monitors = {} => events' = events
      BY <1>0, <2>1, ReportType DEF Events
    <3>2. UNCHANGED <<scan, loaded, monitors, listed, unseen>>
      BY <1>3 DEF Unmount, scanVars, listVars
    <3>. QED BY <1>0, <3>1, <3>2 DEF ScanInv
  <2>. QED BY <1>0, <2>1, <2>2, <2>3, SameListStep, SameSettings DEF IInv, Sound
<1>4. ASSUME NEW new \in [all : BOOLEAN, types : {{}, MimeTypes}], ChangeSetting(new)
      PROVE IInv'
  <2>1. /\ alive /\ new # settings /\ settings' = new
        /\ changed' = changed \cup (IF new.all # settings.all THEN {"disable-all"} ELSE {})
                              \cup (IF new.types # settings.types THEN {"disable"} ELSE {})
        /\ UNCHANGED <<alive, listVars, disabled, disabledTypes, disk, unseen, events>>
    BY <1>4 DEF ChangeSetting, scanVars
  <2>2. SettingsInv'
    BY <1>0, <2>1 DEF SettingsInv
  <2>3. changed' # {}
    BY <1>0, <2>1 DEF SettingsInv
  <2>4. ScanInv'
    BY <1>0, <1>4 DEF ChangeSetting, scanVars, listVars, ScanInv
  <2>. QED BY <1>0, <2>1, <2>2, <2>3, <2>4, SameListStep
           DEF IInv, Sound, DiskInv, EventInv, SettingsAreObeyed
<1>. QED BY <1>1, <1>2, <1>3, <1>4 DEF World

-----------------------------------------------------------------------------
LEMMA InitHolds == Init => IInv
<1> SUFFICES ASSUME Init PROVE IInv
  OBVIOUS
<1>1. DiskInv
  BY RegistryAssumption DEF Init, DiskInv
<1>2. \A p \in Paths : Cardinality(Entries(mimeMap, p)) = 0
  BY EntriesNone, RegistryAssumption DEF Init
<1>3. ListInv /\ EventInv /\ MapIsSound
  BY DEF Init, ListInv, EventInv, MapIsSound
<1>4. RefsBalance
  BY <1>2 DEF Init, RefsBalance
<1>5. SettingsInv /\ SettingsAreObeyed
  BY DEF Init, SettingsInv, SettingsAreObeyed
<1>6. ScanInv
  BY DEF Init, ScanInv
<1>. QED BY <1>1, <1>3, <1>4, <1>5, <1>6 DEF IInv

LEMMA Inductive == Spec => []IInv
<1>1. IInv /\ [Next]_vars => IInv'
  <2> SUFFICES ASSUME IInv, [Next]_vars PROVE IInv'
    OBVIOUS
  <2>1. CASE Next
    BY <2>1, ScanStep, MonitorStep, SettingsStep, FinalizeStep, WorldStep DEF Next, Callbacks
  <2>2. CASE UNCHANGED vars
    <3>1. UNCHANGED <<alive, listVars, confVars, settings, disk, events, unseen>>
      BY <2>2 DEF vars, worldVars, scanVars
    <3>2. ScanInv'
      BY <2>2 DEF vars, listVars, scanVars, IInv, ScanInv
    <3>. QED BY <3>1, <3>2, SameListStep, SameSettings DEF IInv, Sound, DiskInv, EventInv
  <2>. QED BY <2>1, <2>2
<1>. QED BY InitHolds, <1>1, PTL DEF Spec

\* One reference for the list and one for each entry of the map, whatever is
\* installed, rewritten, removed or unmounted and when (thumbnailer_ref and
\* thumbnailer_unref in every handler).
THEOREM ReferencesBalance == Spec => []RefsBalance
<1>1. IInv => RefsBalance
  BY DEF IInv
<1>. QED BY <1>1, Inductive, PTL

\* A MIME type is never mapped to a thumbnailer that was removed or that gave
\* the type up (register_mime_types, and the handlers that remove).
THEOREM MapStaysSound == Spec => []MapIsSound
<1>1. IInv => MapIsSound
  BY DEF IInv
<1>. QED BY <1>1, Inductive, PTL

\* Once both keys are signalled, in whichever order, the factory does what the
\* settings say (external_thumbnailers_disabled_all_changed_cb and
\* external_thumbnailers_disabled_changed_cb).
THEOREM SettingsWin == Spec => []SettingsAreObeyed
<1>1. IInv => SettingsAreObeyed
  BY DEF IInv
<1>. QED BY <1>1, Inductive, PTL

-----------------------------------------------------------------------------
(* The types.                                                              *)

PlacesInv ==
  /\ alive \in BOOLEAN /\ loaded \in BOOLEAN /\ disabled \in BOOLEAN
  /\ monitors \subseteq Dirs /\ scan \subseteq Dirs /\ mounted \subseteq Dirs
  /\ disabledTypes \subseteq MimeTypes
  /\ \A p \in Paths : disk[p] \in Claims[p] \cup {Broken, Gone}

LEMMA PlacesStep == IInv /\ PlacesInv /\ [Next]_vars => PlacesInv'
<1> SUFFICES ASSUME IInv, PlacesInv, [Next]_vars PROVE PlacesInv'
  OBVIOUS
<1> USE DEF PlacesInv
<1>1. CASE Scan
  BY <1>1 DEF Scan, OpenDir, ReadEntry, CloseDir, confVars, worldVars
<1>2. CASE Callbacks
  <2>1. settings.all \in BOOLEAN /\ settings.types \subseteq MimeTypes
    BY DEF IInv, SettingsInv
  <2>2. ASSUME NEW d \in Dirs, ThumbnailersDirectoryChanged(d) PROVE monitors' \subseteq Dirs
    <3>1. Head(events[d]) \in Events
      BY <2>2 DEF ThumbnailersDirectoryChanged, IInv, EventInv
    <3>2. UNCHANGED monitors \/ RemoveThumbnailersForDir(d)
      <4>1. CASE Head(events[d]).type \in {"created", "changed"}
        BY <2>2, <4>1 DEF ThumbnailersDirectoryChanged
      <4>2. CASE Head(events[d]).type = "deleted"
        BY <2>2, <4>2 DEF ThumbnailersDirectoryChanged
      <4>3. CASE Head(events[d]).type = "unmounted"
        BY <2>2, <4>3 DEF ThumbnailersDirectoryChanged
      <4>. QED BY <3>1, <4>1, <4>2, <4>3 DEF Events
    <3>. QED BY <3>2 DEF RemoveThumbnailersForDir
  <2>3. ASSUME NEW d \in Dirs, ThumbnailersDirectoryChanged(d) PROVE PlacesInv'
    BY <2>2, <2>3 DEF ThumbnailersDirectoryChanged, confVars, scanVars, worldVars
  <2>4. CASE DisabledAllChanged \/ DisabledChanged
    BY <2>1, <2>4 DEF DisabledAllChanged, DisabledChanged, scanVars, worldVars
  <2>. QED BY <1>2, <2>3, <2>4 DEF Callbacks
<1>3. CASE Finalize
  BY <1>3 DEF Finalize, scanVars, worldVars
<1>4. CASE World
  <2>1. UNCHANGED <<alive, loaded, disabled, monitors, scan, disabledTypes>>
    BY <1>4 DEF World, Install, Rewrite, Delete, Unmount, ChangeSetting, confVars, scanVars
  <2>2. mounted' \subseteq mounted
    BY <1>4 DEF World, Install, Rewrite, Delete, Unmount, ChangeSetting
  <2>3. \A p \in Paths : disk'[p] \in Claims[p] \cup {Broken, Gone}
    <3>1. disk \in [Paths -> (SUBSET MimeTypes) \cup {Broken, Gone}]
      BY DEF IInv, DiskInv
    <3>2. CASE \E p \in Paths : \E c \in Claims[p] \cup {Broken} : Install(p, c) \/ Rewrite(p, c)
      BY <3>1, <3>2 DEF Install, Rewrite
    <3>3. CASE \E p \in Paths : Delete(p)
      BY <3>1, <3>3 DEF Delete
    <3>4. CASE \E d \in Dirs : Unmount(d)
      BY <3>4 DEF Unmount
    <3>5. CASE \E new \in [all : BOOLEAN, types : {{}, MimeTypes}] : ChangeSetting(new)
      BY <3>5 DEF ChangeSetting
    <3>. QED BY <1>4, <3>2, <3>3, <3>4, <3>5 DEF World
  <2>. QED BY <2>1, <2>2, <2>3
<1>5. CASE UNCHANGED vars
  BY <1>5 DEF vars, confVars, scanVars, worldVars
<1>. QED BY <1>1, <1>2, <1>3, <1>4, <1>5 DEF Next

LEMMA PlacesHold == Spec => []PlacesInv
<1>1. Init => PlacesInv
  BY RegistryAssumption DEF Init, PlacesInv, Loadable
<1>2. QED BY <1>1, PlacesStep, Inductive, PTL DEF Spec

\* Every reachable state is well typed; no thumbnailer ever has fewer
\* references than none.
THEOREM TypeCorrect == Spec => []TypeOK
<1>1. IInv /\ PlacesInv => TypeOK
  <2> SUFFICES ASSUME IInv, PlacesInv PROVE TypeOK
    OBVIOUS
  <2>1. \A p \in Paths : refs[p] \in Nat
    BY EntriesCount DEF IInv, RefsBalance
  <2>2. refs \in [Paths -> Nat]
    BY <2>1 DEF IInv, ListInv
  <2>. QED BY <2>2 DEF TypeOK, PlacesInv, IInv, ListInv, EventInv, SettingsInv
<1>2. QED BY <1>1, Inductive, PlacesHold, PTL

-----------------------------------------------------------------------------
(* The scan and the monitors together miss nothing.                        *)

\* The list shows p as it is on disk.
Same(p) ==
  /\ p \in listed <=> Loadable(p)
  /\ Loadable(p) => types[p] = disk[p]

\* A report on p that the monitor of d still has to make.
Reported(d, i, p) ==
  /\ i \in 1..Len(events[d])
  /\ events[d][i].type # "unmounted" => events[d][i].path = p
Deleted(d, i, p) ==
  i \in 1..Len(events[d]) /\ events[d][i].type = "deleted" /\ events[d][i].path = p

\* Where the list is behind the disk the scan will still come to the file or a
\* report is on its way.
SeenInv ==
  \A d \in monitors : \A p \in InDir(d) :
    Same(p) \/ p \in unseen \/ \E i \in Nat : Reported(d, i, p)

\* The last report on a file that is there is not of its deletion.
DeletedInv ==
  \A d \in monitors : \A p \in InDir(d) : \A i \in Nat : Deleted(d, i, p) =>
    disk[p] = Gone \/ \E j \in Nat : i < j /\ Reported(d, j, p)

\* A monitor reports what happens in its directory, while there is one.
PlaceInv ==
  /\ \A d \in Dirs : \A i \in Nat : i \in 1..Len(events[d]) /\ events[d][i].type # "unmounted" =>
       DirOf[events[d][i].path] = d
  /\ \A d \in scan : d \notin monitors => events[d] = <<>>

FreshInv == SeenInv /\ DeletedInv /\ PlaceInv

LEMMA EventTail ==
  ASSUME EventInv, NEW d \in Dirs, events[d] # <<>>,
         events' = [events EXCEPT ![d] = Tail(events[d])]
  PROVE  /\ \A c \in Dirs : c # d => events'[c] = events[c]
         /\ \A i \in Nat : \A p : Reported(d, i, p) /\ i # 1 =>
              i - 1 \in Nat /\ Reported(d, i - 1, p)'
         /\ \A i \in Nat : \A p : Deleted(d, i, p)' => Deleted(d, i + 1, p)
         /\ \A p : Reported(d, 1, p) =>
              (Head(events[d]).type # "unmounted" => Head(events[d]).path = p)
         /\ \A p : Head(events[d]).type = "deleted" /\ Head(events[d]).path = p => Deleted(d, 1, p)
         /\ \A i \in Nat : i \in 1..Len(events'[d]) =>
              i + 1 \in 1..Len(events[d]) /\ events'[d][i] = events[d][i + 1]
<1>1. /\ events[d] \in Seq(Events) /\ events'[d] = Tail(events[d])
      /\ \A c \in Dirs : c # d => events'[c] = events[c]
  BY DEF EventInv
<1>2. /\ Len(events[d]) \in Nat \ {0} /\ Head(events[d]) = events[d][1]
      /\ Len(events'[d]) = Len(events[d]) - 1
      /\ \A i \in 1..Len(events'[d]) : events'[d][i] = events[d][i + 1]
  <2>1. PICK s \in Seq(Events) : s = events[d]
    BY <1>1
  <2>2. s # <<>> /\ events'[d] = Tail(s)
    BY <1>1, <2>1
  <2>3. /\ Len(s) \in Nat \ {0} /\ Head(s) = s[1] /\ Len(Tail(s)) = Len(s) - 1
        /\ \A i \in 1..Len(Tail(s)) : Tail(s)[i] = s[i + 1]
    BY <2>2
  <2>. QED BY <2>1, <2>2, <2>3
<1>3. \A i \in Nat : \A p : Reported(d, i, p) /\ i # 1 =>
        i - 1 \in Nat /\ Reported(d, i - 1, p)'
  BY <1>2 DEF Reported
<1>4. \A i \in Nat : \A p : Deleted(d, i, p)' => Deleted(d, i + 1, p)
  BY <1>2 DEF Deleted
<1>5. /\ \A p : Reported(d, 1, p) =>
           (Head(events[d]).type # "unmounted" => Head(events[d]).path = p)
      /\ \A p : Head(events[d]).type = "deleted" /\ Head(events[d]).path = p => Deleted(d, 1, p)
  BY <1>2 DEF Reported, Deleted
<1>6. \A i \in Nat : i \in 1..Len(events'[d]) =>
        i + 1 \in 1..Len(events[d]) /\ events'[d][i] = events[d][i + 1]
  BY <1>2
<1>. QED BY <1>1, <1>3, <1>4, <1>5, <1>6

LEMMA EventAppend ==
  ASSUME EventInv, NEW d \in Dirs, NEW e \in Events, d \in monitors, Report(d, e)
  PROVE  /\ \A c \in Dirs : c # d => events'[c] = events[c]
         /\ \A i \in Nat : \A p : Reported(d, i, p) => Reported(d, i, p)'
         /\ \A i \in Nat : \A p : Deleted(d, i, p)' =>
              Deleted(d, i, p) \/ (e.type = "deleted" /\ e.path = p)
         /\ \E n \in Nat :
              /\ \A i \in Nat : \A p : Deleted(d, i, p) => i < n
              /\ \A p : (e.type # "unmounted" => e.path = p) => Reported(d, n, p)'
         /\ \A i \in Nat : i \in 1..Len(events'[d]) =>
              (i \in 1..Len(events[d]) /\ events'[d][i] = events[d][i]) \/ events'[d][i] = e
<1>1. /\ events[d] \in Seq(Events) /\ events'[d] = Append(events[d], e)
      /\ \A c \in Dirs : c # d => events'[c] = events[c]
  BY DEF EventInv, Report
<1>2. /\ Len(events[d]) \in Nat /\ Len(events'[d]) = Len(events[d]) + 1
      /\ \A i \in 1..Len(events[d]) : events'[d][i] = events[d][i]
      /\ events'[d][Len(events[d]) + 1] = e
  BY <1>1
<1>3. PICK n \in Nat : n = Len(events[d]) + 1
  BY <1>2
<1>4. Len(events'[d]) = n /\ events'[d][n] = e /\ n >= 1
  BY <1>2, <1>3
<1>5. \A i \in Nat : \A p : Reported(d, i, p) => Reported(d, i, p)'
  BY <1>2 DEF Reported
<1>6. \A i \in Nat : \A p : Deleted(d, i, p)' =>
        Deleted(d, i, p) \/ (e.type = "deleted" /\ e.path = p)
  BY <1>2, <1>3, <1>4 DEF Deleted
<1>7. \A i \in Nat : \A p : Deleted(d, i, p) => i < n
  BY <1>2, <1>3 DEF Deleted
<1>8. \A p : (e.type # "unmounted" => e.path = p) => Reported(d, n, p)'
  BY <1>4 DEF Reported
<1>9. \A i \in Nat : i \in 1..Len(events'[d]) =>
        (i \in 1..Len(events[d]) /\ events'[d][i] = events[d][i]) \/ events'[d][i] = e
  BY <1>2, <1>3, <1>4
<1>. QED BY <1>1, <1>5, <1>6, <1>7, <1>8, <1>9

\* What is reported about one directory says nothing about another.
LEMMA OtherDir ==
  ASSUME NEW c, events'[c] = events[c]
  PROVE  /\ \A i \in Nat : \A p : Reported(c, i, p)' <=> Reported(c, i, p)
         /\ \A i \in Nat : \A p : Deleted(c, i, p)' <=> Deleted(c, i, p)
BY DEF Reported, Deleted

\* Something happens in directory d.
LEMMA FreshWorld ==
  ASSUME IInv, PlacesInv, FreshInv, NEW d \in Dirs, NEW e \in Events, Report(d, e),
         UNCHANGED <<listed, types, monitors, scan>>, unseen \subseteq unseen',
         \A p \in Paths : ~(DirOf[p] = d /\ (e.type # "unmounted" => e.path = p)) =>
           disk'[p] = disk[p],
         \A p \in InDir(d) : e.type = "deleted" /\ e.path = p => disk'[p] = Gone,
         e.type # "unmounted" => DirOf[e.path] = d
  PROVE  FreshInv'
<1>0. EventInv /\ PlaceInv /\ monitors \subseteq Dirs /\ scan \subseteq Dirs
  BY DEF IInv, PlacesInv, FreshInv
<1>1. \A c \in Dirs : c # d \/ d \notin monitors => events'[c] = events[c]
  BY DEF Report, IInv, EventInv
<1>2. ASSUME NEW p \in Paths, disk'[p] = disk[p] PROVE Same(p)' <=> Same(p)
  BY <1>2 DEF Same, Loadable
<1>3. ASSUME NEW c \in monitors, NEW p \in InDir(c)
      PROVE  /\ Same(p)' \/ p \in unseen' \/ \E i \in Nat : Reported(c, i, p)'
             /\ \A i \in Nat : Deleted(c, i, p)' =>
                  disk'[p] = Gone \/ \E j \in Nat : i < j /\ Reported(c, j, p)'
  <2>0. p \in Paths /\ DirOf[p] = c /\ c \in Dirs
    BY <1>0 DEF InDir
  <2>1. CASE c # d
    <3>1. disk'[p] = disk[p] /\ events'[c] = events[c]
      BY <1>0, <1>1, <2>0, <2>1
    <3>2. /\ \A i \in Nat : Reported(c, i, p)' <=> Reported(c, i, p)
          /\ \A i \in Nat : Deleted(c, i, p)' <=> Deleted(c, i, p)
      BY <3>1, OtherDir
    <3>3. Same(p)' \/ p \in unseen' \/ \E i \in Nat : Reported(c, i, p)'
      BY <1>2, <2>0, <3>1, <3>2 DEF FreshInv, SeenInv
    <3>. QED BY <3>1, <3>2, <3>3 DEF FreshInv, DeletedInv
  <2>2. CASE c = d
    <3>0. EventInv /\ d \in monitors
      BY <1>0, <2>2
    <3>1. /\ \A i \in Nat : Reported(d, i, p) => Reported(d, i, p)'
          /\ \A i \in Nat : Deleted(d, i, p)' =>
               Deleted(d, i, p) \/ (e.type = "deleted" /\ e.path = p)
      BY <3>0, EventAppend
    <3>2. PICK n \in Nat :
            /\ \A i \in Nat : \A q : Deleted(d, i, q) => i < n
            /\ \A q : (e.type # "unmounted" => e.path = q) => Reported(d, n, q)'
      BY <3>0, EventAppend
    <3>3. CASE e.type # "unmounted" => e.path = p
      <4>1. Reported(d, n, p)'
        BY <3>2, <3>3
      <4>2. \A i \in Nat : Deleted(d, i, p) => i < n
        BY <3>2
      <4>. QED BY <2>2, <3>1, <4>1, <4>2
    <3>4. CASE ~(e.type # "unmounted" => e.path = p)
      <4>1. disk'[p] = disk[p]
        BY <2>0, <3>4
      <4>2. Same(p)' \/ p \in unseen' \/ \E i \in Nat : Reported(d, i, p)'
        BY <1>2, <2>0, <2>2, <3>1, <4>1 DEF FreshInv, SeenInv
      <4>3. \A i \in Nat : Deleted(d, i, p)' => Deleted(d, i, p)
        BY <3>1, <3>4
      <4>4. \A i \in Nat : Deleted(d, i, p) =>
              disk[p] = Gone \/ \E j \in Nat : i < j /\ Reported(d, j, p)
        BY <2>2 DEF FreshInv, DeletedInv
      <4>. QED BY <2>2, <3>1, <4>1, <4>2, <4>3, <4>4
    <3>. QED BY <3>3, <3>4
  <2>. QED BY <2>1, <2>2
<1>4. ASSUME NEW c \in Dirs, NEW i \in Nat, i \in 1..Len(events'[c]),
             events'[c][i].type # "unmounted"
      PROVE  DirOf[events'[c][i].path] = c
  <2>1. CASE c = d /\ d \in monitors
    <3>1. (i \in 1..Len(events[d]) /\ events'[d][i] = events[d][i]) \/ events'[d][i] = e
      BY <1>0, <1>4, <2>1, EventAppend
    <3>. QED BY <1>0, <1>4, <2>1, <3>1 DEF PlaceInv
  <2>2. CASE ~(c = d /\ d \in monitors)
    <3>1. events'[c] = events[c]
      BY <1>1, <2>2
    <3>. QED BY <1>0, <1>4, <3>1 DEF PlaceInv
  <2>. QED BY <2>1, <2>2
<1>5. \A c \in scan' : c \notin monitors' => events'[c] = <<>>
  BY <1>0, <1>1 DEF PlaceInv
<1>6. SeenInv' /\ DeletedInv'
  BY <1>3 DEF SeenInv, DeletedInv, InDir
<1>7. PlaceInv'
  BY <1>4, <1>5 DEF PlaceInv
<1>. QED BY <1>6, <1>7 DEF FreshInv

\* The handler reads the file again, whatever was reported about it.
LEMMA Reread ==
  ASSUME IInv, NEW p \in Paths, UNCHANGED disk,
         \/ UpdateOrCreateThumbnailer(p)
         \/ p \notin listed /\ AddThumbnailer(p)
  PROVE  Same(p)' /\ \A q \in Paths \ {p} : Same(q)' <=> Same(q)
<1>1. types \in [Paths -> SUBSET MimeTypes] /\ listed \subseteq Paths
  BY DEF IInv, ListInv
<1>2. Loadable(p)' <=> Loadable(p)
  BY DEF Loadable
<1>3. CASE Loadable(p)
  <2>1. listed' = listed \cup {p} /\ types' = [types EXCEPT ![p] = disk[p]]
    BY <1>3 DEF UpdateOrCreateThumbnailer, AddThumbnailer, ReloadThumbnailer
  <2>. QED BY <1>1, <1>2, <1>3, <2>1 DEF Same, Loadable
<1>4. CASE ~Loadable(p)
  <2>1. p \notin listed' /\ listed' \ {p} = listed \ {p}
        /\ (types' = [types EXCEPT ![p] = {}] \/ types' = types)
    BY <1>4 DEF UpdateOrCreateThumbnailer, AddThumbnailer, ReloadThumbnailer, DropThumbnailer,
         listVars
  <2>. QED BY <1>1, <1>2, <1>4, <2>1 DEF Same, Loadable
<1>. QED BY <1>3, <1>4

LEMMA Removed ==
  ASSUME IInv, NEW p \in Paths, UNCHANGED disk, RemoveThumbnailer(p)
  PROVE  /\ disk[p] = Gone => Same(p)'
         /\ \A q \in Paths \ {p} : Same(q)' <=> Same(q)
<1>1. types \in [Paths -> SUBSET MimeTypes] /\ listed \subseteq Paths
  BY DEF IInv, ListInv
<1>2. p \notin listed' /\ listed' \ {p} = listed \ {p}
      /\ (types' = [types EXCEPT ![p] = {}] \/ types' = types)
  BY DEF RemoveThumbnailer, DropThumbnailer, listVars
<1>. QED BY <1>1, <1>2 DEF Same, Loadable

LEMMA HeadPlace ==
  ASSUME EventInv, PlaceInv, NEW d \in Dirs, events[d] # <<>>, Head(events[d]).type # "unmounted"
  PROVE  DirOf[Head(events[d]).path] = d
<1>1. PICK s \in Seq(Events) : s = events[d]
  BY DEF EventInv
<1>2. 1 \in Nat /\ 1 \in 1..Len(s) /\ Head(s) = s[1]
  BY <1>1
<1>. QED BY <1>1, <1>2 DEF PlaceInv

LEMMA FreshMonitor ==
  ASSUME IInv, PlacesInv, FreshInv, NEW d \in Dirs, ThumbnailersDirectoryChanged(d)
  PROVE  FreshInv'
<1> DEFINE e == Head(events[d])
<1>0. EventInv /\ PlaceInv /\ monitors \subseteq Dirs /\ scan = {} /\ scan' = {}
  BY DEF IInv, PlacesInv, FreshInv, ThumbnailersDirectoryChanged, scanVars
<1>1. /\ events[d] # <<>> /\ events' = [events EXCEPT ![d] = Tail(events[d])]
      /\ UNCHANGED <<disk, unseen>>
  BY DEF ThumbnailersDirectoryChanged, worldVars, scanVars
<1>2. e \in Events
  BY <1>0, <1>1 DEF EventInv
<1>3. /\ \A c \in Dirs : c # d => events'[c] = events[c]
      /\ \A i \in Nat : \A p : Reported(d, i, p) /\ i # 1 =>
           i - 1 \in Nat /\ Reported(d, i - 1, p)'
      /\ \A i \in Nat : \A p : Deleted(d, i, p)' => Deleted(d, i + 1, p)
      /\ \A p : Reported(d, 1, p) => (e.type # "unmounted" => e.path = p)
      /\ \A p : e.type = "deleted" /\ e.path = p => Deleted(d, 1, p)
      /\ \A i \in Nat : i \in 1..Len(events'[d]) =>
           i + 1 \in 1..Len(events[d]) /\ events'[d][i] = events[d][i + 1]
  BY <1>0, <1>1, EventTail
<1>4. /\ monitors' \subseteq monitors
      /\ e.type = "unmounted" => d \notin monitors'
      /\ e.type # "unmounted" => e.path \in Paths
  <2>1. e.type = "unmounted" => RemoveThumbnailersForDir(d)
    BY DEF ThumbnailersDirectoryChanged
  <2>2. e.type # "unmounted" => e.path \in Paths /\ e.type \in {"created", "changed", "deleted"}
    BY <1>2 DEF Events
  <2>3. e.type \in {"created", "changed"} => UNCHANGED monitors
    BY DEF ThumbnailersDirectoryChanged
  <2>4. e.type = "deleted" => UNCHANGED monitors
    BY DEF ThumbnailersDirectoryChanged
  <2>. QED BY <2>1, <2>2, <2>3, <2>4 DEF RemoveThumbnailersForDir
<1>5. \A p \in Paths : (DirOf[p] # d \/ (e.type # "unmounted" /\ e.path # p)) =>
        (Same(p)' <=> Same(p))
  <2>1. CASE e.type \in {"created", "changed"}
    <3>1. UpdateOrCreateThumbnailer(e.path)
      BY <2>1 DEF ThumbnailersDirectoryChanged
    <3>2. DirOf[e.path] = d
      BY <1>0, <1>1, <2>1, HeadPlace
    <3>. QED BY <1>1, <1>4, <2>1, <3>1, <3>2, Reread
  <2>2. CASE e.type = "deleted"
    <3>1. RemoveThumbnailer(e.path)
      BY <2>2 DEF ThumbnailersDirectoryChanged
    <3>2. DirOf[e.path] = d
      BY <1>0, <1>1, <2>2, HeadPlace
    <3>. QED BY <1>1, <1>4, <2>2, <3>1, <3>2, Removed
  <2>3. CASE e.type = "unmounted"
    <3>1. RemoveThumbnailersForDir(d)
      BY <2>3 DEF ThumbnailersDirectoryChanged
    <3>2. types \in [Paths -> SUBSET MimeTypes]
      BY DEF IInv, ListInv
    <3>3. \/ UNCHANGED <<listed, types>>
          \/ \E q \in InDir(d) : listed' = listed \ {q} /\ types' = [types EXCEPT ![q] = {}]
      BY <3>1 DEF RemoveThumbnailersForDir, DropThumbnailer, listVars
    <3>4. \A p \in Paths : DirOf[p] # d => (p \in listed' <=> p \in listed) /\ types'[p] = types[p]
      BY <3>2, <3>3 DEF InDir
    <3>. QED BY <1>1, <2>3, <3>4 DEF Same, Loadable
  <2>. QED BY <1>2, <2>1, <2>2, <2>3 DEF Events
<1>6. ASSUME NEW c \in monitors', NEW p \in InDir(c)
      PROVE  /\ Same(p)' \/ p \in unseen' \/ \E i \in Nat : Reported(c, i, p)'
             /\ \A i \in Nat : Deleted(c, i, p)' =>
                  disk'[p] = Gone \/ \E j \in Nat : i < j /\ Reported(c, j, p)'
  <2>0. p \in Paths /\ DirOf[p] = c /\ c \in Dirs /\ c \in monitors /\ disk'[p] = disk[p]
    BY <1>0, <1>1, <1>4 DEF InDir
  <2>1. CASE c # d
    <3>1. /\ \A i \in Nat : Reported(c, i, p)' <=> Reported(c, i, p)
          /\ \A i \in Nat : Deleted(c, i, p)' <=> Deleted(c, i, p)
      BY <1>3, <2>0, <2>1, OtherDir
    <3>2. Same(p)' <=> Same(p)
      BY <1>5, <2>0, <2>1
    <3>3. Same(p)' \/ p \in unseen' \/ \E i \in Nat : Reported(c, i, p)'
      BY <1>1, <2>0, <3>1, <3>2 DEF FreshInv, SeenInv
    <3>. QED BY <2>0, <3>1, <3>3 DEF FreshInv, DeletedInv
  <2>2. CASE c = d
    <3>0. e.type # "unmounted" /\ e.path \in Paths
      BY <1>4, <2>2
    <3>1. \A i \in Nat : Deleted(d, i, p)' =>
            disk[p] = Gone \/ \E j \in Nat : i < j /\ Reported(d, j, p)'
      <4> SUFFICES ASSUME NEW i \in Nat, Deleted(d, i, p)', disk[p] # Gone
                   PROVE  \E j \in Nat : i < j /\ Reported(d, j, p)'
        OBVIOUS
      <4>1. PICK j \in Nat : i + 1 < j /\ Reported(d, j, p)
        BY <1>3, <2>0, <2>2 DEF FreshInv, DeletedInv
      <4>2. j - 1 \in Nat /\ i < j - 1 /\ Reported(d, j - 1, p)'
        BY <1>3, <4>1
      <4>. QED BY <4>2
    <3>2. CASE e.path # p
      <4>1. Same(p)' <=> Same(p)
        BY <1>5, <2>0, <3>0, <3>2
      <4>2. \A i \in Nat : Reported(d, i, p) => i - 1 \in Nat /\ Reported(d, i - 1, p)'
        BY <1>3, <3>0, <3>2
      <4>3. Same(p)' \/ p \in unseen' \/ \E i \in Nat : Reported(d, i, p)'
        BY <1>1, <2>0, <2>2, <4>1, <4>2 DEF FreshInv, SeenInv
      <4>. QED BY <2>0, <2>2, <3>1, <4>3
    <3>3. CASE e.path = p /\ e.type \in {"created", "changed"}
      <4>1. UpdateOrCreateThumbnailer(p)
        BY <3>3 DEF ThumbnailersDirectoryChanged
      <4>2. Same(p)'
        BY <1>1, <2>0, <4>1, Reread
      <4>. QED BY <2>0, <2>2, <3>1, <4>2
    <3>4. CASE e.path = p /\ e.type = "deleted"
      <4>1. RemoveThumbnailer(p)
        BY <3>4 DEF ThumbnailersDirectoryChanged
      <4>2. disk[p] = Gone => Same(p)'
        BY <1>1, <2>0, <4>1, Removed
      <4>3. disk[p] # Gone => \E j \in Nat : 1 < j /\ Reported(d, j, p)
        BY <1>3, <2>0, <2>2, <3>4 DEF FreshInv, DeletedInv
      <4>4. disk[p] # Gone => \E j \in Nat : Reported(d, j, p)'
        BY <1>3, <4>3
      <4>. QED BY <2>0, <2>2, <3>1, <4>2, <4>4
    <3>. QED BY <1>2, <3>0, <3>2, <3>3, <3>4 DEF Events
  <2>. QED BY <2>1, <2>2
<1>7. ASSUME NEW c \in Dirs, NEW i \in Nat, i \in 1..Len(events'[c]),
             events'[c][i].type # "unmounted"
      PROVE  DirOf[events'[c][i].path] = c
  <2>1. CASE c = d
    <3>1. i + 1 \in Nat /\ i + 1 \in 1..Len(events[d]) /\ events'[d][i] = events[d][i + 1]
      BY <1>3, <1>7, <2>1
    <3>. QED BY <1>0, <1>7, <2>1, <3>1 DEF PlaceInv
  <2>2. CASE c # d
    BY <1>0, <1>3, <1>7, <2>2 DEF PlaceInv
  <2>. QED BY <2>1, <2>2
<1>8. SeenInv' /\ DeletedInv'
  BY <1>6 DEF SeenInv, DeletedInv, InDir
<1>9. PlaceInv'
  BY <1>0, <1>7 DEF PlaceInv
<1>. QED BY <1>8, <1>9 DEF FreshInv

LEMMA FreshScan ==
  ASSUME IInv, PlacesInv, FreshInv, Scan
  PROVE  FreshInv'
<1>0. EventInv /\ ScanInv /\ PlaceInv /\ monitors \subseteq Dirs /\ scan \subseteq Dirs
      /\ listed \subseteq Paths
  BY DEF IInv, PlacesInv, FreshInv, ListInv
<1>1. UNCHANGED <<disk, events>>
  BY DEF Scan, OpenDir, ReadEntry, CloseDir, worldVars
<1>2. /\ \A c \in Dirs, i \in Nat : \A p : Reported(c, i, p)' <=> Reported(c, i, p)
      /\ \A c \in Dirs, i \in Nat : \A p : Deleted(c, i, p)' <=> Deleted(c, i, p)
  BY <1>1 DEF Reported, Deleted
<1>3. ASSUME NEW d \in Dirs, OpenDir(d), d \in mounted PROVE FreshInv'
  <2>1. /\ d \in scan /\ d \notin monitors /\ unseen = {} /\ monitors' = monitors \cup {d}
        /\ unseen' = {p \in InDir(d) : disk[p] # Gone} /\ UNCHANGED <<listed, types, scan>>
    BY <1>0, <1>3 DEF OpenDir, ScanInv, listVars
  <2>2. \A p \in Paths : Same(p)' <=> Same(p)
    BY <1>1, <2>1 DEF Same, Loadable
  <2>3. \A p \in InDir(d) : p \notin listed
    BY <1>0, <2>1 DEF ScanInv, InDir
  <2>4. \A p \in InDir(d) : Same(p) \/ p \in unseen'
    BY <2>1, <2>3 DEF Same, Loadable
  <2>5. events[d] = <<>>
    BY <1>0, <2>1 DEF PlaceInv
  <2>6. \A i \in Nat : \A p : ~Deleted(d, i, p)
    BY <2>5 DEF Deleted
  <2>7. SeenInv'
    BY <1>0, <1>2, <2>1, <2>2, <2>4 DEF FreshInv, SeenInv, InDir
  <2>8. DeletedInv'
    BY <1>0, <1>1, <1>2, <2>1, <2>6 DEF FreshInv, DeletedInv, InDir
  <2>9. PlaceInv'
    BY <1>0, <1>1, <2>1 DEF PlaceInv
  <2>. QED BY <2>7, <2>8, <2>9 DEF FreshInv
<1>4. ASSUME NEW d \in Dirs, (OpenDir(d) /\ d \notin mounted) \/ CloseDir(d) PROVE FreshInv'
  <2>1. /\ scan' \subseteq scan /\ UNCHANGED <<monitors, listed, types, unseen>>
    BY <1>4 DEF OpenDir, CloseDir, listVars
  <2>2. \A p \in Paths : Same(p)' <=> Same(p)
    BY <1>1, <2>1 DEF Same, Loadable
  <2>3. SeenInv'
    BY <1>0, <1>2, <2>1, <2>2 DEF FreshInv, SeenInv, InDir
  <2>4. DeletedInv'
    BY <1>0, <1>1, <1>2, <2>1 DEF FreshInv, DeletedInv, InDir
  <2>5. PlaceInv'
    BY <1>0, <1>1, <2>1 DEF PlaceInv
  <2>. QED BY <2>3, <2>4, <2>5 DEF FreshInv
<1>5. ASSUME NEW p \in Paths, ReadEntry(p) PROVE FreshInv'
  <2>1. /\ unseen' = unseen \ {p} /\ AddThumbnailer(p) /\ p \notin listed
        /\ UNCHANGED <<monitors, scan>>
    BY <1>0, <1>5 DEF ReadEntry, ScanInv
  <2>2. Same(p)' /\ \A q \in Paths \ {p} : Same(q)' <=> Same(q)
    BY <1>1, <2>1, Reread
  <2>3. SeenInv'
    BY <1>0, <1>2, <2>1, <2>2 DEF FreshInv, SeenInv, InDir
  <2>4. DeletedInv'
    BY <1>0, <1>1, <1>2, <2>1 DEF FreshInv, DeletedInv, InDir
  <2>5. PlaceInv'
    BY <1>0, <1>1, <2>1 DEF PlaceInv
  <2>. QED BY <2>3, <2>4, <2>5 DEF FreshInv
<1>. QED BY <1>3, <1>4, <1>5 DEF Scan

\* Neither the list, the disk nor the reports change.
LEMMA FreshSame ==
  ASSUME PlacesInv, FreshInv, UNCHANGED <<listed, types, disk, events, unseen, monitors>>,
         \A d \in scan' : d \notin monitors => events[d] = <<>>
  PROVE  FreshInv'
BY DEF FreshInv, SeenInv, DeletedInv, PlaceInv, PlacesInv, InDir, Same, Loadable, Reported, Deleted

LEMMA FreshStep == IInv /\ PlacesInv /\ FreshInv /\ [Next]_vars => FreshInv'
<1> SUFFICES ASSUME IInv, PlacesInv, FreshInv, [Next]_vars PROVE FreshInv'
  OBVIOUS
<1>0. EventInv /\ ScanInv /\ DiskInv /\ PlaceInv /\ scan \subseteq Dirs
  BY DEF IInv, FreshInv, PlacesInv
<1>1. CASE DisabledAllChanged \/ DisabledChanged
  <2>1. UNCHANGED <<listed, types, disk, events, unseen, monitors>>
    BY <1>1 DEF DisabledAllChanged, DisabledChanged, listVars, scanVars, worldVars
  <2>2. \A d \in scan' : events[d] = <<>> \/ d \in scan
    BY <1>0, <1>1 DEF DisabledAllChanged, DisabledChanged, scanVars, ScanInv
  <2>. QED BY <1>0, <2>1, <2>2, FreshSame DEF PlaceInv
<1>2. CASE Finalize
  <2>1. monitors' = {} /\ events' = [d \in Dirs |-> <<>>] /\ scan' = scan
    BY <1>2 DEF Finalize, scanVars
  <2>2. SeenInv' /\ DeletedInv'
    BY <2>1 DEF SeenInv, DeletedInv
  <2>3. PlaceInv'
    BY <1>0, <2>1 DEF PlaceInv
  <2>. QED BY <2>2, <2>3 DEF FreshInv
<1>3. ASSUME NEW p \in Paths, NEW c \in Claims[p] \cup {Broken}, Install(p, c) \/ Rewrite(p, c)
      PROVE FreshInv'
  <2>1. PICK t \in {"created", "changed"} : Report(DirOf[p], [type |-> t, path |-> p])
    BY <1>3 DEF Install, Rewrite
  <2>2. PICK e \in Events : e = [type |-> t, path |-> p]
    BY DEF Events
  <2>3. e.type \in {"created", "changed"} /\ e.path = p /\ DirOf[p] \in Dirs /\ Report(DirOf[p], e)
    BY <2>1, <2>2, RegistryAssumption
  <2>4. /\ disk' = [disk EXCEPT ![p] = c] /\ UNCHANGED <<listed, types, monitors, scan>>
        /\ unseen \subseteq unseen'
    BY <1>3 DEF Install, Rewrite, listVars, scanVars
  <2>5. \A q \in Paths : q # p => disk'[q] = disk[q]
    BY <1>0, <2>4 DEF DiskInv
  <2>. QED BY <2>3, <2>4, <2>5, FreshWorld
<1>4. ASSUME NEW p \in Paths, Delete(p) PROVE FreshInv'
  <2>1. PICK e \in Events : e = [type |-> "deleted", path |-> p]
    BY DEF Events
  <2>2. e.type = "deleted" /\ e.path = p /\ DirOf[p] \in Dirs /\ Report(DirOf[p], e)
    BY <1>4, <2>1, RegistryAssumption DEF Delete
  <2>3. disk' = [disk EXCEPT ![p] = Gone] /\ UNCHANGED <<listed, types, monitors, scan, unseen>>
    BY <1>4 DEF Delete, listVars, scanVars
  <2>4. disk'[p] = Gone /\ \A q \in Paths : q # p => disk'[q] = disk[q]
    BY <1>0, <2>3 DEF DiskInv
  <2>. QED BY <2>2, <2>3, <2>4, FreshWorld
<1>5. ASSUME NEW d \in Dirs, Unmount(d) PROVE FreshInv'
  <2>1. PICK e \in Events : e = [type |-> "unmounted"]
    BY DEF Events
  <2>2. e.type = "unmounted" /\ Report(d, e)
    BY <1>5, <2>1 DEF Unmount
  <2>3. /\ disk' = [p \in Paths |-> IF DirOf[p] = d THEN Gone ELSE disk[p]]
        /\ UNCHANGED <<listed, types, monitors, scan, unseen>>
    BY <1>5 DEF Unmount, listVars, scanVars
  <2>. QED BY <2>2, <2>3, FreshWorld
<1>6. ASSUME (\E new \in [all : BOOLEAN, types : {{}, MimeTypes}] : ChangeSetting(new))
             \/ UNCHANGED vars
      PROVE  FreshInv'
  <2>1. UNCHANGED <<listed, types, disk, events, unseen, monitors, scan>>
    BY <1>6 DEF ChangeSetting, vars, listVars, scanVars, worldVars
  <2>. QED BY <1>0, <2>1, FreshSame DEF PlaceInv
<1>. QED BY <1>1, <1>2, <1>3, <1>4, <1>5, <1>6, FreshScan, FreshMonitor DEF Next, Callbacks, World

LEMMA FreshHolds == Spec => []FreshInv
<1>1. Init => FreshInv
  BY DEF Init, FreshInv, SeenInv, DeletedInv, PlaceInv
<1>2. QED BY <1>1, FreshStep, Inductive, PlacesHold, PTL DEF Spec

\* Once every report is handled the list is what the watched directories hold,
\* whatever other programs did during the scan and after it
\* (gnome_desktop_thumbnail_factory_load_thumbnailers, thumbnailers_directory_changed).
THEOREM NothingIsMissed == Spec => []ListIsWhatIsOnDisk
<1>1. IInv /\ PlacesInv /\ FreshInv => ListIsWhatIsOnDisk
  <2> SUFFICES ASSUME IInv, PlacesInv, FreshInv, Settled, NEW d \in monitors, NEW p \in InDir(d)
               PROVE  Same(p)
    BY DEF ListIsWhatIsOnDisk, Same
  <2>1. d \in Dirs /\ scan = {} /\ events[d] = <<>>
    BY DEF PlacesInv, Settled
  <2>2. unseen = {}
    BY <2>1 DEF IInv, ScanInv
  <2>3. \A i \in Nat : ~Reported(d, i, p)
    BY <2>1 DEF Reported
  <2>. QED BY <2>2, <2>3 DEF FreshInv, SeenInv
<1>2. QED BY <1>1, Inductive, PlacesHold, FreshHolds, PTL
=============================================================================
