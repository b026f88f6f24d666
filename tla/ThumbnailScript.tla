--------------------------- MODULE ThumbnailScript ---------------------------
(***************************************************************************)
(* gnome_desktop_thumbnail_script_exec (gnome-desktop-thumbnail-script.c)  *)
(* and its caller gnome_desktop_thumbnail_factory_generate_thumbnail: a    *)
(* thread runs a thumbnailer in a sandbox, and removes what it made for it *)
(* and what the thumbnailer left.  Several threads do so at once.          *)
(*                                                                         *)
(* Files are known by the run they belong to and by what they are; those   *)
(* a run has made are taken to be removable, those of GStreamer not.  The  *)
(* options of the sandbox and the filter of system calls are data for the  *)
(* programs that are started, and the thumbnail is one for the caller; the  *)
(* thumbnailer is external.                                                *)
(***************************************************************************)
EXTENDS Naturals

CONSTANTS Runs, None

VARIABLES
  environment,  \* where the process runs: "host", "flatpak" or "snap"
  portal,       \* the static version of get_portal_version, or None
  run,          \* for each run its ScriptExec and where it stands
  files,        \* the temporary files there are: <<run, what>>
  fds,          \* the runs whose descriptor of the filter is open
  registry,     \* GStreamer's directory: the registry, and files half written
  spared,       \* history: of those, the ones that could not be removed
  state         \* "alive" or "crashed"

vars == <<environment, portal, run, files, fds, registry, spared, state>>
registryVars == <<registry, spared>>
fileVars == <<files, fds, registryVars>>

Registry == 0   \* gstreamer-1.0.registry
Private == {"outdir", "outfile", "infile_tmp", "left"}

TypeOK ==
  /\ environment \in {"host", "flatpak", "snap"}
  /\ portal \in {None, "old", "new"}
  /\ run \in [Runs -> [step : {"idle", "begun", "made", "ready", "child", "exited",
                               "cleaning", "leaving", "done"},
                       sandbox : {"none", "bwrap", "flatpak"},
                       has_gst_registry : BOOLEAN,
                       unread : SUBSET Runs]]  \* by g_dir_read_name
  /\ files \subseteq Runs \X Private
  /\ fds \subseteq Runs /\ spared \subseteq Runs /\ registry \subseteq Runs \cup {Registry}
  /\ state \in {"alive", "crashed"}

NoExec == [step |-> "idle", sandbox |-> "none", has_gst_registry |-> FALSE, unread |-> {}]

Init ==
  /\ environment \in {"host", "flatpak", "snap"}
  /\ portal = None
  /\ run = [r \in Runs |-> NoExec]
  /\ files = {} /\ fds = {} /\ registry = {} /\ spared = {}
  /\ state = "alive"

At(r, step) == state = "alive" /\ run[r].step = step
Has(r, what) == <<r, what>> \in files
-----------------------------------------------------------------------------
(* The thread                                                              *)

\* generate_thumbnail: the file has a preview, the caller cancelled or there
\* is no thumbnailer; else its script is run.
Generate(r) ==
  /\ At(r, "idle")
  /\ \E step \in {"begun", "done"} : run' = [run EXCEPT ![r].step = step]
  /\ UNCHANGED <<environment, portal, fileVars, state>>

\* The portal is asked once; a failure counts as old ever after.
PortalVersion == IF portal = None THEN {"old", "new"} ELSE {portal}

Sandbox(version) ==
  CASE environment = "host" -> "bwrap"
    [] environment = "flatpak" /\ version = "new" -> "flatpak"
    [] OTHER -> "none"

\* script_exec_new: a file or a directory for the output is made, after which
\* nothing fails any more.
ScriptExecNew(r) ==
  /\ At(r, "begun")
  /\ \E version \in PortalVersion, fails \in BOOLEAN :
       LET sandbox == Sandbox(version)
       IN /\ portal' = IF environment = "flatpak" THEN version ELSE portal
          /\ run' = IF fails
                    THEN [run EXCEPT ![r] = [NoExec EXCEPT !.step = "done"]]
                    ELSE [run EXCEPT ![r].step = "made", ![r].sandbox = sandbox]
          /\ files' = IF fails THEN files
                      ELSE files \cup {<<r, IF sandbox = "none" THEN "outfile"
                                            ELSE "outdir">>}
  /\ UNCHANGED <<environment, fds, registryVars, state>>

\* get_portal_version reads the message of an error that is not there when
\* there is no session bus to ask on.
NoSessionBus(r) ==
  /\ At(r, "begun") /\ environment = "flatpak" /\ portal = None
  /\ state' = "crashed"
  /\ UNCHANGED <<environment, portal, run, fileVars>>

\* setup_seccomp: the descriptor is open when it succeeds, and only then.
SetupSeccomp(r, succeeds) == fds' = IF succeeds THEN fds \cup {r} ELSE fds

\* expand_thumbnailing_cmd, which may fail to parse the command, to make the
\* filter, or to find where the input and the output go.
ExpandCmd(r) ==
  /\ At(r, "made")
  /\ \E parses, filter, complete, gst \in BOOLEAN :
       LET sandbox == run[r].sandbox
           expanded == parses /\ (sandbox = "bwrap" => filter) /\ complete
       IN /\ run' = [run EXCEPT
                       ![r].step = IF expanded THEN "ready" ELSE "leaving",
                       ![r].has_gst_registry = parses /\ sandbox # "none" /\ gst]
          /\ SetupSeccomp(r, parses /\ sandbox = "bwrap" /\ filter)
  /\ UNCHANGED <<environment, portal, files, registryVars, state>>

\* g_spawn_sync.  When it fails, the message of an error is read that is not
\* there if the caller does not want one.
Spawn(r) ==
  /\ At(r, "ready")
  /\ \/ run' = [run EXCEPT ![r].step = "child"] /\ UNCHANGED state
     \/ run' = [run EXCEPT ![r].step = "exited"] /\ UNCHANGED state
     \/ state' = "crashed" /\ UNCHANGED run
  /\ UNCHANGED <<environment, portal, fileVars>>

\* The output is read, if the child exited well.  Then clean_gst_registry_dir
\* opens the directory, or leaves what is in it.
Finish(r) ==
  /\ At(r, "exited")
  /\ \E opened \in BOOLEAN :
       LET gst == run[r].has_gst_registry
           others == registry \ {Registry}
       IN /\ run' = [run EXCEPT
                       ![r].step = IF gst /\ opened THEN "cleaning" ELSE "leaving",
                       ![r].unread = IF gst /\ opened THEN others ELSE {}]
          /\ spared' = IF gst /\ ~opened THEN spared \cup others ELSE spared
  /\ UNCHANGED <<environment, portal, files, fds, registry, state>>

\* There is no path to open when the directory is gone and cannot be made, and
\* no error whose message is read.
NoGstCacheDir(r) ==
  /\ At(r, "exited") /\ run[r].has_gst_registry
  /\ state' = "crashed"
  /\ UNCHANGED <<environment, portal, run, fileVars>>

\* A turn of the loop of clean_gst_registry_dir: all but the registry itself are
\* removed if they can be, perhaps also what was written since the directory
\* was opened.  Another run may have removed the file.
CleanGstRegistryDir(r) ==
  /\ At(r, "cleaning")
  /\ \E name \in run[r].unread \cup (registry \ {Registry}), removed \in BOOLEAN :
       /\ run' = [run EXCEPT ![r].unread = @ \ {name}]
       /\ registry' = IF removed THEN registry \ {name} ELSE registry
       /\ spared' = IF removed THEN spared \ {name} ELSE spared \cup ({name} \cap registry)
  /\ UNCHANGED <<environment, portal, files, fds, state>>

Cleaned(r) ==
  /\ At(r, "cleaning") /\ run[r].unread = {}
  /\ run' = [run EXCEPT ![r].step = "leaving"]
  /\ UNCHANGED <<environment, portal, fileVars, state>>

\* script_exec_free: rmdir fails when there is something left.
ScriptExecFree_LeavesMountPoint(r) ==
  /\ At(r, "leaving")
  /\ LET kept == files \ {<<r, "outfile">>}
     IN files' = IF kept \cap ({r} \X {"left", "infile_tmp"}) = {}
                 THEN kept \ {<<r, "outdir">>} ELSE kept
  /\ fds' = fds \ {r}
  /\ run' = [run EXCEPT ![r] = [NoExec EXCEPT !.step = "done"]]
  /\ UNCHANGED <<environment, portal, registryVars, state>>
ScriptExecFree(r) ==
  /\ At(r, "leaving")
  /\ files' = files \ ({r} \X ({"infile_tmp", "outfile"}
                               \cup (IF Has(r, "left") THEN {} ELSE {"outdir"})))
  /\ fds' = fds \ {r}
  /\ run' = [run EXCEPT ![r] = [NoExec EXCEPT !.step = "done"]]
  /\ UNCHANGED <<environment, portal, registryVars, state>>
-----------------------------------------------------------------------------
(* The child: bwrap makes the mount point of the input, GStreamer writes   *)
(* its registry beside the old one and renames it.                         *)

Write(r) ==
  /\ At(r, "child")
  /\ \E what \in {"outfile", "left", "infile_tmp"} :
       /\ what = "infile_tmp" => run[r].sandbox = "bwrap"
       /\ what = "left" => run[r].sandbox # "none"
       /\ files' = files \cup {<<r, what>>}
  /\ UNCHANGED <<environment, portal, run, fds, registryVars, state>>

WriteRegistry(r) ==
  /\ At(r, "child") /\ run[r].has_gst_registry
  /\ registry' = registry \cup {r}
  /\ UNCHANGED <<environment, portal, run, files, fds, spared, state>>

RenameRegistry(r) ==
  /\ At(r, "child") /\ r \in registry
  /\ registry' = (registry \ {r}) \cup {Registry}
  /\ spared' = spared \ {r}
  /\ UNCHANGED <<environment, portal, run, files, fds, state>>

Exit(r) ==
  /\ At(r, "child")
  /\ run' = [run EXCEPT ![r].step = "exited"]
  /\ UNCHANGED <<environment, portal, fileVars, state>>
-----------------------------------------------------------------------------
Next ==
  \E r \in Runs :
    \/ Generate(r) \/ ScriptExecNew(r) \/ NoSessionBus(r) \/ ExpandCmd(r) \/ Spawn(r)
    \/ Finish(r) \/ NoGstCacheDir(r) \/ CleanGstRegistryDir(r) \/ Cleaned(r)
    \/ ScriptExecFree(r)
    \/ Write(r) \/ WriteRegistry(r) \/ RenameRegistry(r) \/ Exit(r)

Spec == Init /\ [][Next]_vars
-----------------------------------------------------------------------------
\* Wherever a run failed, its descriptor is closed and nothing of it is left
\* when it is over, but files the thumbnailer left in the directory that was
\* its /tmp, and a registry half written that could not be removed.
NothingLeftBehind ==
  state = "alive" =>
    \A r \in Runs : run[r].step \in {"idle", "done"} =>
      /\ r \notin fds
      /\ \A file \in files : file[1] = r =>
           Has(r, "left") /\ file[2] \in {"outdir", "left"}
      /\ r \in registry => r \in spared
=============================================================================
