----------------------------- MODULE Background -----------------------------
(***************************************************************************)
(* GnomeBG (gnome-bg/gnome-bg.c): the background image or slide show, its  *)
(* caches in memory and on disk, and the timers that make the client draw  *)
(* it again, between a client, a file monitor and the main loop.           *)
(*                                                                         *)
(* A picture is what it is made from: which version of which file, whether *)
(* it was scaled for a placement, and when.  Time is in seconds: the 100   *)
(* ms of the queued signals pass within one, and so does a client's        *)
(* reaction to a signal.  There is one monitor and one screen size.        *)
(***************************************************************************)
EXTENDS SlideShow

CONSTANTS Images,         \* image files
          Shows,          \* slide show files
          Documents,      \* what each show file holds
          SameAspect,     \* the images of the screen's aspect ratio
          Placements, Colors, Frames,
          CacheSize, KeepExpensiveCacheSecs,
          None,
          MaxTime,        \* bound: the last second
          MaxEdits,       \* bound: how often a file is rewritten or deleted
          MaxCalls        \* bound: setters and thumbnails

Files == Images \cup Shows
Times == 0..MaxTime
Gone == -1        \* what get_mtime says of a file that is not there
Show == [file \in Shows |-> Parse(Documents[file])]
Current == [file \in Shows |-> [time \in Times |-> CurrentSlide(Show[file], time)]]

ASSUME BackgroundAssumption ==
  /\ Images \cap Shows = {} /\ None \notin Files \cup Nat
  /\ SameAspect \subseteq Images /\ {"original", "mixed"} \cap Placements = {}
  /\ \A file \in Shows :
       Documents[file].elements \in
         Seq([fixed : BOOLEAN, durations : Seq(Nat),
              file1 : Files \cup {None}, file2 : Files \cup {None}])
  /\ CacheSize \in Nat \ {0, 1} /\ KeepExpensiveCacheSecs \in 0..(MaxUint - 1)
  /\ MaxTime \in 0..MaxUint /\ MaxEdits \in Nat /\ MaxCalls \in Nat

VARIABLES
  now,
  disk,          \* each file's version and mtime
  edits, calls,  \* how many there were
  filename, placement, color, file_mtime,
  file_event,    \* the file monitor has something to report
  changed_id, transitioned_id, blow_caches_id,   \* sources: are they there
  ignore_pending_change,
  timeout_id,    \* when it goes off, or None
  file_cache,    \* newest first
  pixbuf_cache,
  wallpaper,     \* the file of ~/.cache/wallpaper, or None
  due,           \* the client was told to draw, and has not drawn yet
  shown,         \* what it last drew
  state,         \* "alive", "aborted", "undefined" or "finalized"
  outdated       \* history: a picture that was not right was to be saved on disk

confVars == <<filename, placement, color, file_mtime>>
timerVars == <<changed_id, transitioned_id, blow_caches_id,
               ignore_pending_change, timeout_id>>
cacheVars == <<file_cache, pixbuf_cache>>
clientVars == <<due, shown>>
worldVars == <<now, disk, edits>>
vars == <<worldVars, calls, confVars, file_event, timerVars, cacheVars,
          wallpaper, clientVars, state, outdated>>

Versions == 0..MaxEdits
Scales == Placements \cup {"original", "mixed"}
Contents == [version : Versions, scaled : Scales]
Entries == [type : {"pixbuf", "slideshow", "thumbnail"}, file : Files,
            content : Contents]
Pictures == [file : Files, version : Versions, image : Images, scaled : Scales,
             made : Times]

TypeOK ==
  /\ now \in Times /\ edits \in 0..MaxEdits /\ calls \in 0..MaxCalls
  /\ disk \in [Files -> [version : Versions, mtime : Times \cup {Gone}]]
  /\ filename \in Files \cup {None} /\ placement \in Placements /\ color \in Colors
  /\ file_mtime \in Times \cup {Gone}
  /\ {file_event, changed_id, transitioned_id, blow_caches_id,
      ignore_pending_change, due, outdated} \subseteq BOOLEAN
  /\ timeout_id \in Nat \cup {None}
  /\ file_cache \in Seq(Entries) /\ Len(file_cache) < CacheSize
  /\ pixbuf_cache \in Pictures \cup {None}
  /\ wallpaper \in [file : Images, placement : Placements, content : Contents,
                   mtime : Times] \cup {None}
  /\ shown \in [file : Files \cup {None}, color : Colors, placement : Placements,
                picture : Pictures \cup {None}]
  /\ state \in {"alive", "aborted", "undefined", "finalized"}
-----------------------------------------------------------------------------
(* The caches                                                              *)

Has(cache, type, file) ==
  \E i \in DOMAIN cache : cache[i].type = type /\ cache[i].file = file
ContentOf(cache, type, file) ==
  (CHOOSE entry \in Range(cache) : entry.type = type /\ entry.file = file).content

\* file_cache_entry_new and bound_cache.
Add_KeepsOneMore(cache, type, file, content) ==
  LET longer == <<[type |-> type, file |-> file, content |-> content]>> \o cache
  IN SubSeq(longer, 1, Min({Len(longer), CacheSize}))
Add(cache, type, file, content) ==
  LET longer == <<[type |-> type, file |-> file, content |-> content]>> \o cache
  IN SubSeq(longer, 1, Min({Len(longer), CacheSize - 1}))

Exists(file) == disk[file].mtime # Gone
OnDisk(file) == IF Exists(file) THEN [version |-> disk[file].version, scaled |-> "original"]
                ELSE None

\* cache_file_is_valid, for the placement that counts now; it is so for any
\* file that is gone.
WallpaperIsValid(file) ==
  /\ wallpaper # None
  /\ wallpaper.file = file /\ wallpaper.placement = placement
  /\ disk[file].mtime < wallpaper.mtime

\* get_as_pixbuf_for_size, get_as_slideshow and get_as_thumbnail: the file
\* cache after the call, and what it returns.
Get(cache, type, file, loaded) ==
  IF Has(cache, type, file) THEN [cache |-> cache, content |-> ContentOf(cache, type, file)]
  ELSE [cache |-> IF loaded = None THEN cache ELSE Add(cache, type, file, loaded),
        content |-> loaded]

AsPixbuf(cache, file, monitor) ==
  Get(cache, "pixbuf", file, IF file \notin Images THEN None
                             ELSE IF monitor # -1 /\ WallpaperIsValid(file) THEN wallpaper.content
                             ELSE OnDisk(file))
AsSlideshow(cache, file) ==
  Get(cache, "slideshow", file, IF file \in Shows THEN OnDisk(file) ELSE None)
AsThumbnail(cache, file) ==
  Get(cache, "thumbnail", file, IF file \in Images THEN OnDisk(file) ELSE None)

ClearCache ==
  /\ file_cache' = <<>>
  /\ pixbuf_cache' = None
  /\ timeout_id' = None

QueueChanged_KeepsIgnoring ==
  changed_id' = TRUE /\ UNCHANGED ignore_pending_change
QueueChanged ==
  changed_id' = TRUE /\ ignore_pending_change' = FALSE

EnsureTimeout(seconds) ==
  timeout_id' = IF timeout_id = None /\ seconds < MaxUint
                THEN now + seconds ELSE timeout_id

-----------------------------------------------------------------------------
(* get_pixbuf_for_size                                                     *)

\* A picture that is scaled for the screen, or as wide and high in proportion.
HitsCache(picture) ==
  picture # None /\ (picture.scaled # "original" \/ picture.image \in SameAspect)

Picture(content, image, scaled) ==
  [file |-> filename, version |-> content.version, image |-> image,
   scaled |-> scaled, made |-> now]

BlowInIdle(seconds) ==
  blow_caches_id' = (blow_caches_id \/ seconds > KeepExpensiveCacheSecs)

\* An image, or nothing that can be read.
LoadImage(monitor) ==
  LET pixbuf == AsPixbuf(file_cache, filename, monitor) IN
  /\ AsSlideshow(file_cache, filename).content = None
  /\ file_cache' = pixbuf.cache
  /\ pixbuf_cache' = IF pixbuf.content = None THEN None
                     ELSE Picture(pixbuf.content, filename, pixbuf.content.scaled)
  /\ BlowInIdle(MaxUint)
  /\ UNCHANGED <<timeout_id, state>>

LoadSlide(monitor) ==
  LET loaded == AsSlideshow(file_cache, filename)
      show == Show[filename]
      slide == show.slides[Current[filename][now]]
      first == AsPixbuf(loaded.cache, slide.file1, monitor)
      second == IF slide.fixed THEN first
                ELSE AsPixbuf(first.cache, slide.file2, monitor)
  IN /\ loaded.content # None
     /\ Current[filename][now] # NoSlide
     /\ file_cache' = second.cache
     /\ pixbuf_cache' = IF None \in {first.content, second.content} THEN None
                        ELSE Picture(loaded.content, slide.file1, first.content.scaled)
     /\ EnsureTimeout(SlideTimeout(slide))
     /\ BlowInIdle(SlideTimeout(slide))
     /\ UNCHANGED state

\* "this should never happen"
NoCurrentSlide ==
  /\ AsSlideshow(file_cache, filename).content # None
  /\ Current[filename][now] = NoSlide
  /\ state' = "aborted"
  /\ UNCHANGED <<cacheVars, timeout_id, blow_caches_id>>

\* Given the pixbuf cache as it is when it is called.
GetPixbufForSize(cached, monitor) ==
  IF HitsCache(cached) \/ filename = None
  THEN /\ pixbuf_cache' = IF HitsCache(cached) THEN cached ELSE None
       /\ UNCHANGED <<file_mtime, file_cache, timeout_id, blow_caches_id, state>>
  ELSE /\ file_mtime' = disk[filename].mtime
       /\ LoadImage(monitor) \/ LoadSlide(monitor) \/ NoCurrentSlide

-----------------------------------------------------------------------------
(* The client                                                              *)

Rescaled(picture) ==
  IF picture.scaled \in {"original", placement} THEN placement ELSE "mixed"

\* refresh_cache_file; a slide show is of no image format and is not cached.
\* What was saved before is removed, also when the picture cannot be saved.
RefreshCacheFile(picture) ==
  IF picture = None \/ filename \notin Images \/ ~Exists(filename)
       \/ WallpaperIsValid(filename)
  THEN UNCHANGED <<wallpaper, outdated>>
  ELSE /\ wallpaper' \in {None, [file |-> filename, placement |-> placement,
                                content |-> [version |-> picture.version,
                                             scaled |-> Rescaled(picture)],
                                mtime |-> now]}
       /\ outdated' = \/ outdated
                      \/ picture.version # disk[filename].version
                      \/ Rescaled(picture) # placement

\* gnome_bg_draw, or gnome_bg_create_surface, which first drops a picture that
\* is not of the screen's size.  A client that draws of its own accord may say
\* that it does not want the pending signal.
Draw(surface, ignore) ==
  LET cached == IF surface /\ pixbuf_cache # None /\ pixbuf_cache.scaled = "original"
                THEN None ELSE pixbuf_cache
  IN /\ state = "alive"
     /\ ignore => changed_id
     /\ GetPixbufForSize(cached, 0)
     /\ RefreshCacheFile(pixbuf_cache')
     /\ ignore_pending_change' = (ignore \/ ignore_pending_change)
     /\ due' = FALSE
     /\ shown' = [file |-> filename, color |-> color, placement |-> placement,
                  picture |-> pixbuf_cache']
     /\ UNCHANGED <<worldVars, calls, filename, placement, color, file_event,
                    changed_id, transitioned_id>>

Call == /\ state = "alive"
        /\ calls < MaxCalls
        /\ calls' = calls + 1

\* gnome_bg_is_dark
IsDark ==
  /\ Call
  /\ GetPixbufForSize(pixbuf_cache, -1)
  /\ UNCHANGED <<worldVars, filename, placement, color, file_event, changed_id,
                 transitioned_id, ignore_pending_change, wallpaper, clientVars,
                 outdated>>

SetRgba(new) ==
  /\ Call
  /\ new # color
  /\ color' = new
  /\ QueueChanged
  /\ UNCHANGED <<worldVars, filename, placement, file_mtime, file_event,
                 transitioned_id, blow_caches_id, timeout_id, cacheVars,
                 wallpaper, clientVars, state, outdated>>

SetPlacement(new) ==
  /\ Call
  /\ new # placement
  /\ placement' = new
  /\ QueueChanged
  /\ UNCHANGED <<worldVars, filename, color, file_mtime, file_event,
                 transitioned_id, blow_caches_id, timeout_id, cacheVars,
                 wallpaper, clientVars, state, outdated>>

IsDifferent(new) ==
  new # filename \/ (new # None /\ disk[new].mtime # file_mtime)

\* gnome_bg_set_filename, for a file that is different.
SetFilename(new) ==
  /\ Call
  /\ IsDifferent(new)
  /\ filename' = new
  /\ file_mtime' = IF new = None THEN Gone ELSE disk[new].mtime
  /\ file_event' = FALSE
  /\ ClearCache
  /\ QueueChanged
  /\ UNCHANGED <<worldVars, placement, color, transitioned_id, blow_caches_id,
                 wallpaper, clientVars, state, outdated>>

\* gnome_bg_changes_with_time, gnome_bg_has_multiple_sizes, or
\* gnome_bg_get_image_size, which looks for the current slide.
LookAtShow ==
  LET show == AsSlideshow(file_cache, filename)
  IN /\ Call
     /\ filename # None
     /\ file_cache' = show.cache
     /\ \/ UNCHANGED state
        \/ /\ show.content # None /\ Current[filename][now] = NoSlide
           /\ state' = "aborted"
     /\ UNCHANGED <<worldVars, confVars, file_event, timerVars, pixbuf_cache,
                    wallpaper, clientVars, outdated>>

\* gnome_bg_create_thumbnail, and gnome_bg_create_frame_thumbnail of a frame.
\* No frame of that number leaves is_fixed as it was on the stack: the loop
\* that skips transitions may never end, or else the file names are garbage.
CreateThumbnail(frame) ==
  LET loaded == AsSlideshow(file_cache, filename)
      show == Show[filename]
      number == IF frame = None THEN Current[filename][now] ELSE FrameSlide(show, frame)
      slide == show.slides[number]
      first == AsThumbnail(loaded.cache, slide.file1)
      second == IF slide.fixed THEN first ELSE AsThumbnail(first.cache, slide.file2)
  IN /\ Call
     /\ \/ /\ filename \in Images /\ frame = None
           /\ file_cache' = AsThumbnail(file_cache, filename).cache
           /\ UNCHANGED <<timeout_id, state>>
        \/ /\ loaded.content # None
           /\ frame # None => frame < Len(show.slides)
           /\ number # NoSlide
           /\ file_cache' = second.cache
           /\ EnsureTimeout(SlideTimeout(slide))
           /\ UNCHANGED state
        \/ /\ loaded.content # None
           /\ frame # None => frame < Len(show.slides)
           /\ number = NoSlide
           /\ state' = IF frame = None THEN "aborted" ELSE "undefined"
           /\ UNCHANGED <<file_cache, timeout_id>>
     /\ UNCHANGED <<worldVars, confVars, file_event, changed_id, transitioned_id,
                    blow_caches_id, ignore_pending_change, pixbuf_cache,
                    wallpaper, clientVars, outdated>>

\* gnome_bg_dispose and gnome_bg_finalize
Finalize ==
  /\ state = "alive"
  /\ state' = "finalized"
  /\ filename' = None /\ file_event' = FALSE
  /\ ClearCache
  /\ changed_id' = FALSE /\ transitioned_id' = FALSE /\ blow_caches_id' = FALSE
  /\ UNCHANGED <<worldVars, calls, placement, color, file_mtime,
                 ignore_pending_change, wallpaper, clientVars, outdated>>

-----------------------------------------------------------------------------
(* The main loop.  The timeouts are of low priority, behind idle handlers. *)

FileChanged ==
  /\ state = "alive" /\ file_event
  /\ file_event' = FALSE
  /\ ClearCache
  /\ QueueChanged
  /\ UNCHANGED <<worldVars, calls, confVars, transitioned_id, blow_caches_id,
                 wallpaper, clientVars, state, outdated>>

LowPriority == state = "alive" /\ ~blow_caches_id

DoChanged ==
  /\ LowPriority /\ changed_id
  /\ changed_id' = FALSE
  /\ due' = (due \/ ~ignore_pending_change)
  /\ UNCHANGED <<worldVars, calls, confVars, file_event, transitioned_id,
                 blow_caches_id, ignore_pending_change, timeout_id, cacheVars,
                 wallpaper, shown, state, outdated>>

OnTimeout ==
  /\ LowPriority /\ timeout_id # None /\ timeout_id <= now
  /\ timeout_id' = None
  /\ transitioned_id' = TRUE
  /\ UNCHANGED <<worldVars, calls, confVars, file_event, changed_id,
                 blow_caches_id, ignore_pending_change, cacheVars, wallpaper,
                 clientVars, state, outdated>>

DoTransitioned_KeepsPixbuf ==
  /\ LowPriority /\ transitioned_id
  /\ transitioned_id' = FALSE
  /\ due' = TRUE
  /\ UNCHANGED <<worldVars, calls, confVars, file_event, changed_id,
                 blow_caches_id, ignore_pending_change, timeout_id, cacheVars,
                 wallpaper, shown, state, outdated>>
DoTransitioned ==
  /\ LowPriority /\ transitioned_id
  /\ transitioned_id' = FALSE
  /\ pixbuf_cache' = None
  /\ due' = TRUE
  /\ UNCHANGED <<worldVars, calls, confVars, file_event, changed_id,
                 blow_caches_id, ignore_pending_change, timeout_id, file_cache,
                 wallpaper, shown, state, outdated>>

\* The entries that are not pixbufs.
Inexpensive(cache) ==
  FlattenSeq([i \in DOMAIN cache |-> IF cache[i].type = "pixbuf" THEN <<>>
                                     ELSE <<cache[i]>>])

BlowExpensiveCaches_KeepsPixbuf ==
  /\ state = "alive" /\ blow_caches_id
  /\ blow_caches_id' = FALSE
  /\ file_cache' = Inexpensive(file_cache)
  /\ UNCHANGED <<worldVars, calls, confVars, file_event, changed_id,
                 transitioned_id, ignore_pending_change, timeout_id,
                 pixbuf_cache, wallpaper, clientVars, state, outdated>>
BlowExpensiveCaches ==
  /\ state = "alive" /\ blow_caches_id
  /\ blow_caches_id' = FALSE
  /\ file_cache' = Inexpensive(file_cache)
  /\ pixbuf_cache' = None
  /\ UNCHANGED <<worldVars, calls, confVars, file_event, changed_id,
                 transitioned_id, ignore_pending_change, timeout_id, wallpaper,
                 clientVars, state, outdated>>

-----------------------------------------------------------------------------
(* The rest of the world                                                   *)

\* A file is written, or deleted.
Rewrite(file) ==
  /\ state = "alive"
  /\ edits < MaxEdits
  /\ edits' = edits + 1
  /\ \/ disk' = [disk EXCEPT ![file] = [version |-> @.version + 1, mtime |-> now]]
     \/ Exists(file) /\ disk' = [disk EXCEPT ![file].mtime = Gone]
  /\ file_event' = (file_event \/ file = filename)
  /\ UNCHANGED <<now, calls, confVars, timerVars, cacheVars, wallpaper,
                 clientVars, state, outdated>>

\* A second passes once all that is due in it is done.
Tick ==
  /\ state = "alive"
  /\ now < MaxTime
  /\ ~changed_id /\ ~transitioned_id /\ ~blow_caches_id /\ ~due
  /\ timeout_id # None => timeout_id > now
  /\ now' = now + 1
  /\ UNCHANGED <<disk, edits, calls, confVars, file_event, timerVars, cacheVars,
                 wallpaper, clientVars, state, outdated>>

Init ==
  /\ now = 0
  /\ disk = [file \in Files |-> [version |-> 0, mtime |-> 0]]
  /\ edits = 0 /\ calls = 0
  /\ filename = None /\ placement \in Placements /\ color \in Colors
  /\ file_mtime = 0
  /\ file_event = FALSE
  /\ changed_id = FALSE /\ transitioned_id = FALSE /\ blow_caches_id = FALSE
  /\ ignore_pending_change = FALSE
  /\ timeout_id = None
  /\ file_cache = <<>> /\ pixbuf_cache = None
  /\ wallpaper = None
  /\ due = FALSE
  /\ shown = [file |-> None, color |-> color, placement |-> placement,
              picture |-> None]
  /\ state = "alive"
  /\ outdated = FALSE

Next ==
  \/ \E surface, ignore \in BOOLEAN : Draw(surface, ignore)
  \/ IsDark \/ LookAtShow \/ Finalize
  \/ \E frame \in Frames \cup {None} : CreateThumbnail(frame)
  \/ \E new \in Colors : SetRgba(new)
  \/ \E new \in Placements : SetPlacement(new)
  \/ \E new \in Files \cup {None} : SetFilename(new)
  \/ FileChanged \/ DoChanged \/ OnTimeout \/ DoTransitioned \/ BlowExpensiveCaches
  \/ \E file \in Files : Rewrite(file)
  \/ Tick

Spec == Init /\ [][Next]_vars

-----------------------------------------------------------------------------
(* Properties                                                              *)

\* Nothing is on its way to the client, and no report of the file monitor.
Settled == state = "alive" /\ ~changed_id /\ ~due /\ ~file_event

\* What the client drew last is what the setters asked for, from the file as it
\* is now, if it is there, whatever is cached where and whichever signals it
\* asked not to get; unless an outdated picture was for the cache on disk.
ShownIsUpToDate ==
  Settled =>
    /\ shown.file = filename /\ shown.color = color /\ shown.placement = placement
    /\ shown.picture # None /\ ~outdated =>
         /\ shown.picture.file = filename
         /\ Exists(filename) => shown.picture.version = disk[filename].version
         /\ Exists(filename) /\ filename \in Images =>
              shown.picture.scaled \in {"original", placement}

\* A slide show goes on: no slide is shown for longer than the longest timeout
\* of the show, however often it was redrawn, thumbnailed or looked at.
NoSlideStaysTooLong ==
  Settled /\ filename \in Shows /\ shown.picture # None =>
    \E slide \in Range(Show[filename].slides) :
      now <= shown.picture.made + SlideTimeout(slide)

\* "Blow all expensive caches if we're not gonna update the background for a
\* while": the picture of an image is not kept once it has been drawn.
NoExpensiveCaches ==
  state = "alive" /\ filename \notin Shows /\ ~blow_caches_id =>
    /\ pixbuf_cache = None
    /\ \A entry \in Range(file_cache) : entry.type # "pixbuf"

\* "this should never happen since we have slides and we should always find a
\* current slide for the elapsed time since beginning".
AlwaysACurrentSlide == state # "aborted"
=============================================================================
