------------------------------- MODULE Helpers -------------------------------
(***************************************************************************)
(* The components of the library that share no state with any other: a     *)
(* behaviour is one of the component that is chosen at the start.          *)
(***************************************************************************)
EXTENDS Integers, Sequences, FiniteSets

CONSTANTS None,
          Components,   \* the components to choose from
          Duration, MaxStarts, MaxSets, MaxClockSets,                 \* Crossfade
          Tasks, Pids, AppNames,                                      \* SystemdScope
          Runs,                                                       \* ThumbnailScript
          RulesFiles, LayoutNames, LayoutCodes, CodeNames, MaxParses, \* XkbInfo
          Libcs, Listings, Translations, LanguageEntries,             \* Languages
          TerritoryEntries, Messages, Capitals, Modifiers, InputSources, Locales,
          Codes, InLanguages, LcMessages

ASSUME FadeAssumption ==
  {Duration, MaxStarts, MaxSets, MaxClockSets} \subseteq Nat /\ None \notin 1..MaxStarts

\* Names are of chars, which are signed.
ASSUME ScopeAssumption == \A name \in AppNames \ {None} : name.base \in Seq(-128..127)

VARIABLES
  component,
  fade, fading_surface, end_surface, timeout_id, sources, elapsed, clock_sets,
  total_duration, is_first_frame, stack, started, finished, lost, animations, sets, failed,
  task, wire, replies, units, moved,
  script, environment, portal, run, files, fds, registry, spared,
  info, xkbregistry, rules, show_all_sources, heap, layouts_table, indexes,
  options, current, parses,
  libc, available_locales_map, listed, languages_map, territories_map, answer

Fade == INSTANCE Crossfade WITH state <- fade
Scope == INSTANCE SystemdScope WITH Names <- AppNames
Script == INSTANCE ThumbnailScript WITH state <- script
Xkb == INSTANCE XkbInfo WITH state <- info, Names <- LayoutNames, Codes <- LayoutCodes
Lang == INSTANCE Languages

ASSUME ScriptAssumption == Script!Registry \notin Runs
ASSUME LayoutsAssumption == Xkb!AreRulesFiles /\ MaxParses \in Nat
ASSUME LocalesAssumption ==
  /\ Lang!AreListings /\ Lang!AreEntries(TerritoryEntries)
  /\ Lang!AreEntries(LanguageEntries.iso_639) /\ Lang!AreEntries(LanguageEntries.iso_639_3)

fadeVars == <<fade, fading_surface, end_surface, timeout_id, sources, elapsed,
              clock_sets, total_duration, is_first_frame, stack, started, finished, lost,
              animations, sets, failed>>
scopeVars == <<task, wire, replies, units, moved>>
scriptVars == <<script, environment, portal, run, files, fds, registry, spared>>
xkbVars == <<info, xkbregistry, rules, show_all_sources, heap, layouts_table,
             indexes, options, current, parses>>
langVars == <<libc, available_locales_map, listed, languages_map, territories_map,
              answer>>
vars == <<component, fadeVars, scopeVars, scriptVars, xkbVars, langVars>>

TypeOK ==
  /\ Fade!TypeOK /\ Scope!TypeOK /\ Script!TypeOK /\ Xkb!TypeOK /\ Lang!TypeOK

\* The components that are not chosen stay in one of their initial states.
Init ==
  /\ component \in Components
  /\ Fade!Init /\ Scope!Init /\ Script!Init /\ Xkb!Init /\ Lang!Init
  /\ component # "script" => environment = "host"
  /\ component # "xkb" =>
       ~xkbregistry /\ ~show_all_sources /\ rules = CHOOSE r \in RulesFiles : TRUE
  /\ component # "languages" => libc = CHOOSE l \in Libcs : TRUE

Next ==
  \/ /\ component = "fade" /\ Fade!Next
     /\ UNCHANGED <<component, scopeVars, scriptVars, xkbVars, langVars>>
  \/ /\ component = "scope" /\ Scope!Next
     /\ UNCHANGED <<component, fadeVars, scriptVars, xkbVars, langVars>>
  \/ /\ component = "script" /\ Script!Next
     /\ UNCHANGED <<component, fadeVars, scopeVars, xkbVars, langVars>>
  \/ /\ component = "xkb" /\ Xkb!Next
     /\ UNCHANGED <<component, fadeVars, scopeVars, scriptVars, langVars>>
  \/ /\ component = "languages" /\ Lang!Next
     /\ UNCHANGED <<component, fadeVars, scopeVars, scriptVars, xkbVars>>

\* The main loop dispatches the fade's sources and the task's answers.
Fairness ==
  /\ component = "fade" => Fade!Fairness
  /\ component = "scope" => Scope!Fairness

Spec == Init /\ [][Next]_vars /\ Fairness
-----------------------------------------------------------------------------
\* A fade that was started runs or has told its client once that it finished
\* (gnome-bg-crossfade.c:462-536).
EveryFadeFinishesOnce == Fade!EveryFadeFinishesOnce

\* The source of a fade ends once its surfaces and the clock are
\* no longer set (gnome-bg-crossfade.c:368-421).
EverySourceEnds == component = "fade" => Fade!EverySourceEnds

\* A task answered with success had nothing to do, or its process was moved
\* (gnome-systemd.c:46-69).
SuccessMeansMoved == Scope!SuccessMeansMoved

\* The name of an application can be had back from that of its unit
\* (gnome-systemd.c:147-161).
NamesCanBeExtracted == Scope!NamesCanBeExtracted

\* A task that was begun is answered (gnome-systemd.c:71-143).
EveryTaskIsAnswered == component = "scope" => Scope!EveryTaskIsAnswered

\* A run of a thumbnailer leaves nothing of its own behind, whatever failed but
\* the removal of a half-written registry
\* (gnome-desktop-thumbnail-script.c:964-998).
NothingLeftBehind == Script!NothingLeftBehind

\* What is reached from the tables of the layouts is alive, also when a file
\* ended or failed within an element, and who asks for a language or country
\* gets the layouts of that name (gnome-xkb-info.c:140-202, 742-797, 1123-1191).
LayoutTablesAreSound == Xkb!LayoutTablesAreSound

\* The available locales can be used, and are the same in whatever order they
\* were listed (gnome-languages.c:352-439).
LocalesAreUsable == Lang!LocalesAreUsable

\* Two available locales of one language or one territory have one name only if
\* nothing else of them has names that differ (gnome-languages.c:1070-1241, as the
\* comments at 1363-1385 ask of the modifiers).
NamesTellLocalesApart == Lang!NamesTellLocalesApart
=============================================================================
