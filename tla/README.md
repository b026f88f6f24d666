# A verification of libgnome-desktop

TLA+ models of the parts of gnome-desktop that keep state, wait for somebody
else, or can be interrupted; TLC runs that check them on small instances; and
proofs, checked by TLAPS, of what holds for every instance. File names below are
those of `src/libgnome-desktop/`.

## 1. The system

libgnome-desktop is a library of largely independent components, each used by
one GNOME program or another. They live in the client's process, mostly on its
main loop, and talk to the outside: to Mutter over D-Bus, to the file system that
other programs write at the same time, to the system clock, to worker threads.

| Component | State it keeps | Operations | Talks to | What is hard | What makes it correct |
|---|---|---|---|---|---|
| Idle monitor (`gnome-idle-monitor.c`) | watches by id and by Mutter's id, reference counts, a proxy and an object manager | add, remove, dispose; name appeared and vanished, manager ready, object added, `AddIdleWatch` answered, `WatchFired` | Mutter, over the session bus; the client's callbacks | Mutter restarts and hands out ids again; calls in flight when a watch goes; callbacks that add and remove | the client's watches, all of them and no others, are registered with the running Mutter; a watch is called only for its own signal and while the client has it; nothing is freed while it may be used |
| Thumbnailer registry (`gnome-desktop-thumbnail.c`, factory) | a list of thumbnailers, a map from MIME type to thumbnailer, both with references; monitors; the settings | scan, file created/changed/deleted, unmount, settings changed, finalize | directories that others change, GSettings | changes during the scan; reloads that fail; two keys signalled in either order | list and map say what is on disk and in the settings; references balance |
| Thumbnail cache (same file) | PNG files on disk, shared by all programs | lookup, can_thumbnail, save, create_failed | other threads and programs, with no lock | failures and crashes between any two system calls; a failed mark shared by all sizes | no partial image is ever seen, no file is left behind, a file is not thumbnailed for ever |
| Date-time source, wall clock (`gnome-datetime-source.c`, `gnome-wall-clock.c`) | a timerfd or a wakeup each second, the string shown, the settings and zone it is made from | update, dispatch, set a property, settings and zone changed | the kernel's timer, GSettings, `/etc/localtime` | the clock is set between two steps of an update; timers that cannot be made | the string is that of the present minute or second, and nothing wakes up in between |
| Background, slide show (`gnome-bg/`) | file name, placement, colors; three caches; two queued signals and a slide timer | setters, draw, create surface, thumbnails, is_dark; file changed, timers | the image files, the client that draws, `~/.cache/wallpaper` | stale caches; signals that a client asks not to get; timers that are not set anew | the client ends up drawing what was asked for from the files as they are; slides go on |
| QR codes, QR widget (`gnome-qr/`, `gnome-qr-gtk/`) | a task per request; text, level, texture and cancellable of the widget | generate, cancel, finish; set text, set level, dispose | a thread for each request | results that come late or in another order, errors, cancellation at any point | the widget shows the code of its text; each request is answered; the pixels are right |
| Crossfade (`gnome-bg-crossfade.c`) | two surfaces, a timeout source | set surfaces, start, tick, finish, stop | GTK, handlers of `finished` | handlers that start the next fade inside stop; a clock that is set while a fade runs | `finished` once per fade; a fade ends, and can be stopped |
| Thumbnail script (`gnome-desktop-thumbnail-script.c`) | temporary files and descriptors of one run | prepare, spawn, read, clean up | bubblewrap, Flatpak portal, the thumbnailer | failures half-way; two runs that share a registry directory | no temporary file stays, nor a half-written registry that could be removed |
| XKB info (`gnome-xkb-info.c`) | four tables that point into each other | lazy parse, lookups, setting changed | rules files, libxkbregistry | entries given twice; files that break off; tables dropped one by one | no table leads to what another has freed; layouts are found by the names of their codes |
| Languages (`gnome-languages.c`) | lazily filled static tables | parse, normalize and describe locales | the C library, ISO code files | listings in any order and spelling; files and translations that are missing | the table does not depend on the order; a shortened name is never that of another locale |
| systemd scopes (`gnome-systemd.c`) | one task | start a scope | session bus, systemd | two asynchronous calls, cancelled in either | the task returns exactly once |
| PNP ids, gettext helpers, version | none worth naming | one lookup each | udev, gettext | nothing | |

The components interact little. The factory's registry and the cache are one
object seen from two sides that share no state but the settings; the wall clock
owns a date-time source, the background a slide show, the QR widget one request
at a time. Those pairs are composed in one model each. The factory runs the
thumbnail script in a thread of its caller and shares only files with it. The
others share nothing at all.

`PROJECT.json` lists the same components with what is and is not modelled, every
hazard at the line where it bites, and the code each definition stands for.

## 2. The modules

Modules are written to be proved about as well as checked: constants carry named
assumptions, there is one action per handler or system call, and recursion is
left to folds and recursive functions. A definition named `X_Something` next to `X` is `X`
with a plausible bug: the checks put it in X's place to see that a property notices.

| Module | Models |
|---|---|
| `IdleMonitor` | `gnome-idle-monitor.c` with the bus and Mutter as its environment |
| `WatchService` | abstract: what the idle monitor promises a client |
| `ThumbnailRegistry` | the factory's thumbnailers, monitors and settings |
| `ThumbnailCache` | the cache on disk, one system call a step |
| `ThumbnailStore` | abstract: the calls that write the cache, with files that change at once |
| `DateTimeSource`, `WallClock` | the GSource, and the clock that extends it |
| `SlideShow`, `Background` | the slide show as pure operators, and the background that extends it |
| `QrCode`, `QrWidget` | requests and their threads, and the widget that extends them |
| `Crossfade` | `gnome-bg-crossfade.c` |
| `SystemdScope` | `gnome-systemd.c` with the bus and systemd |
| `ThumbnailScript` | `gnome-desktop-thumbnail-script.c` and the thread that runs it |
| `XkbInfo` | `gnome-xkb-info.c`, with either parser |
| `Languages` | `gnome-languages.c` |
| `Helpers` | `Crossfade`, `SystemdScope`, `ThumbnailScript`, `XkbInfo` and `Languages`, one of them at a time |
| `MC...` | the values the runs give to constants that are not plain sets, and symmetry sets |
| `...Proofs` | theorems about the module of that name (section 4) |
| `DataInduction` | lemmas for induction over numbers and sequences |

### The idle monitor

State is that of `GnomeIdleMonitorPrivate` and `GnomeIdleMonitorWatch`, plus what is on
its way on the bus: `outbox` (calls to Mutter) and `inbox` (name changes, replies,
signals), both in order, as the bus delivers them. Actions: `AddWatch`, `RemoveWatch` and
`Dispose` of the client, also from inside a callback; `OnNameAppeared`, `OnNameVanished`,
`OnObjectManagerReady`, `OnObjectAdded`, `OnWatchAdded`, `OnWatchFired` and `CallbackReturns` on the main
loop; and, external, a Mutter that starts, exits, takes requests and fires.
An object manager is made in a thread of its own, so its completion is not ordered with
the bus. A watch that `remove_watch` has taken out of the table but that a call still
refers to is one that is not in `watches`; its "dead" flag is that.
`SlowOwners` are the Mutters whose replies may come too late for the call.

Left out: destroy notifies do not call back into the monitor; Mutter never
hands out the id 0; between the vanishing of a name and what the object manager
makes of it, more is allowed than happens.

`WatchService` is the client's view: a watch is called only between add and
remove, one callback at a time, a user-active watch once. `ImplementsService`
says that restarts, calls in flight and reused ids never show.

### The thumbnailer registry

`listed`, `types`, `refs` and `mimeMap` are the list, the hash table and the counts. The
scan is one action per directory and per entry read; each change of the disk
queues an event for the monitor of its directory. Names a directory
reader returns come once each. Directories that do not exist when
the factory is made are never watched, as in the code, and so are not among `Dirs`. When a
thumbnailer goes, another that claims the same type is not promoted; the model
does what the code does, and no property says otherwise.

### The thumbnail cache

Each step of `save_thumbnail` that other programs can see is an action: mkdir,
mkstemp, write, rename, the check after it, unlink, and forgetting the failed mark.
A `setup` chosen at the start says which size each thread uses and what may go wrong.
Temporary names are unique, as mkstemp's
are, so that a temporary file is its thread's. A crash ends all threads and
leaves temporary files, which nothing looks at again.

`ThumbnailStore` has three one-step effects, put, mark and forget. The mapping
takes a file's mtime for the file, and what a call did from its program counter. A file that the
user deletes between the check and the rename's effect counts as put and
deleted at once.

### The clock

`update_clock` is four actions, in the code's order: read the time and drop the source;
create the source; check that the clock was not set back meanwhile; show. Time is in ticks, so that
a second has an inside. Formatting is left out: the string is modelled by what it was
made from. A property set from inside `notify::clock` acts as one set just after.

Where no timerfd can be made, the source wakes up after a second; `LoopWakesUp` is the main
loop waking up for something else, when `g_datetime_source_check` looks at the time too and, if it is not
due, starts that second anew (`Reschedule`). The field `late` of the source counts, for the properties, how
long it has slept since its expiry.

### The background

A picture is what it was made from: the version of a file, how it was scaled,
and when. That is enough to say whether it is stale. The three caches are a sequence (bounded as
in `bound_cache`), one picture, and the file on disk with its mtime.
Draw, create surface, is_dark and the thumbnails all load through
`GetPixbufForSize` or the file cache, and so set timers and queue `blow_expensive_caches` in the
same way. `SlideShow` computes what the parser makes of durations, the slide for a time and
the slide for a frame number.

Files are rewritten and deleted, and saving in the cache on disk may fail after the picture
that was there was removed. `get_mtime` says -1 of a file that is gone, so its cached picture
stays valid; `ShownIsUpToDate` therefore claims nothing about what a deleted file looks like,
only that the caches never mix up files, and that a file which is there is shown as it is.

Simplified: monitor 0, the only one `gnome_bg_draw` draws for, and one screen size; whole
seconds, within which queued signals and a client's reaction happen. Where `create_frame_thumbnail` reads a variable
nobody set, the state is "undefined" and nothing more is claimed. References to slide
shows (one leaks with each draw) are not counted.

### QR codes

A request is a task with its thread's progress. A task that is cancelled returns
at once, which the model takes from GTask with `return_on_cancel`; what its thread still does is
dropped. Each row is one step, after which the thread looks at its cancellable, and
the bytes are computed as `fill_block` appends them, so that the result can be
compared with an independent definition of the picture, `Drawn`. The widget has the
application's own requests beside it in the same main loop.

### Crossfade

A fade is a source of the main loop with a destroy notify, `OnFinished`, that tells the client.
The client's handler may call anything, from both places where it is run: the end of a
tick, and `stop`. `finalize` stops the fade too, but its handlers are gone by then. `stack` keeps those places, so that what `stop` still does after the
handler returned, clearing `timeout_id`, is a step of its own, `HandlerReturns`. `Tick` follows the
lengthening of a fade. Time is that of the real time clock, which may be set while a fade runs (`ClockIsSet`): back,
so that `percent_done` stays 0 for a while, or forward. Surfaces are there or not, since `tile_surface` may fail.
`finalize` takes an end surface that is left for a GObject: it may go well or leave the state "undefined".
What is drawn is left out, and so is the client's drawing calling the fade.

### systemd scopes

A task with its two asynchronous steps: getting a connection and calling `StartTransientUnit`. Cancelling
may come at any time and is only looked at by whoever is asked next: the bus, the reply, and finally `g_task_propagate_boolean`.
systemd refuses a unit that is there already, and a scope may end. The name of a unit is
computed character by character, because the property about it is that it can be undone:
`Unescape` is what systemd does.

### The thumbnail script

A run is the thread from `generate_thumbnail` through `script_exec_new`, the command's
expansion, `g_spawn_sync`, reading and cleaning up; its child writes its output, other files, the mount
point of the input, and GStreamer's registry as a temporary file renamed into place. Several
runs share that registry's directory, and each cleans all of it, one name at a time, while others write there: opening the
directory may fail, and so may each removal (`spared` remembers what was left so). The version of the portal is asked for once
per process. In three places the code reads the message of an error that is not there: the caller wants none and the
spawn fails, there is no session bus to ask for the portal, or the directory of the registry cannot be made. Then the state is "crashed".
Files a run has made itself are taken to be removable.

### XKB info

Layouts are places in a heap that only grows, so that a pointer to a freed one is known for what it
is. Both parsers work on one record, `Parser`; a rules file is a sequence of the elements they meet. The
two indexes are made as layouts are added, of the names that `gnome_get_language_from_code` and
`gnome_get_country_from_code` have for their codes (`CodeNames`): codes of one name are one, and a code without a name is in none. The
locale of the program, in which these names are, does not change. A file of extras may
give a layout again, for the sake of new variants: the second layout is freed at its end and its variants
belong to the first. After an error the XML parser leaves the pointers to what it was in, and the
next parse goes on with them, fails on them, or uses one that is freed: the state "undefined". The rules files may be replaced between two parses.

### Languages

The list of locales is made on first use from what `locale -a` prints and the directories hold, in
any order; territories from one ISO file and languages from two, read one after the other, of which each may be missing or broken
at any place. Names are records, and `matches` tells whether the
regular expression takes one. Two C libraries are given: one that knows only its locales,
and one, as musl is, that takes any name. It is the answers to the public functions, asked in any order, that may
make the tables. An entry of an ISO file is a list of items, and a catalog translates the whole list, of which the first
item is shown; `Messages` are the catalogs, in which nothing keeps two translations apart, and what is in none stays as it is.
What is assumed of listings and ISO files is stated in `AreListings` and `AreEntries`: most of all that
the codesets in UTF-8 a locale is listed with differ in length, which is what the choice between them looks at.
`NamesTellLocalesApart` is about what the functions decide, when a name needs its modifier and country: two locales of a language
get one name only when what could tell them apart has the same name, or none, in that translation.

### Why these five are one model

The fade, the scopes, the script, the keyboard layouts and the locales share no state, and a configuration for
each would make too many runs to go through in a reasonable time. `Helpers` has the variables of all and a `component` that is chosen at the start
and runs alone; the others stay in an initial state. So its states are the sum of theirs, not the product,
and each property is that of its module.

## 3. What is checked

`expect: pass` runs finish without error; a `violation` run shows a
disagreement between the code and what its comments or documentation say.

| Run | Configuration | Shows |
|---|---|---|
| `idle` | `IdleMonitor.cfg` | `RefCountInv`, `IndexInv`, `RemoveReachesItsMutter`, `CallsTheRightWatch`, `ImplementsService`; `EventuallyRegistered`, `EventuallyUnregistered` for Mutters that are not slow |
| `idle_reuse` (violation) | `IdleMonitorReuse.cfg` | `OnlyItsOwnCallbackRemoves`: the callback's watch is read after it may have been freed |
| `registry` | `ThumbnailRegistry.cfg` | `RefsBalance`, `MapIsSound`, `ListIsWhatIsOnDisk`, `SettingsAreObeyed`, `EventuallyListed` |
| `registry_unmount` (violation) | `ThumbnailRegistryUnmount.cfg` | `NoneAfterUnmount`: only one thumbnailer of an unmounted directory is dropped |
| `cache` | `ThumbnailCache.cfg` | `NothingHalfWritten`, `ImplementsStore`, with failures, cancellation, crashes and a cleaned cache; `EventuallyDecided` with two sizes that share failed marks, where nothing fails |
| `cache_rename` (violation) | `ThumbnailCacheRename.cfg` | `TrueMeansSaved`: the result of `g_rename` is not looked at |
| `clock` | `WallClock.cfg` | `ShowsTheTime`, with a timerfd and without, `WakesOnlyToShowAnotherTime` |
| `background` | `Background.cfg` | `ShownIsUpToDate`, `NoSlideStaysTooLong`, `NoExpensiveCaches` |
| `slideshow_durations` (violation) | `BackgroundNoDurations.cfg` | `AlwaysACurrentSlide` for a show that gives no durations |
| `qr` | `QrWidget.cfg` | `PixelsAreTheModules`, `ShowsItsText`, `NoAnswerIsLost`, `NeverShowsAnOldText` |
| `helpers` | `Helpers.cfg` | `EveryFadeFinishesOnce`; `SuccessMeansMoved`, `NamesCanBeExtracted`; `NothingLeftBehind`; `LayoutTablesAreSound`; `LocalesAreUsable`, `NamesTellLocalesApart`; `EverySourceEnds`, `EveryTaskIsAnswered` |
| `crossfade_lost` (violation) | `Crossfade.cfg` | `IsStartedWhileItRuns`: a fade started by a handler of `stop` runs on and cannot be stopped |

Every passing run also checks its type invariant. What each property says
is stated above its definition.

### Bounds, and why they are enough

- Idle monitor: two watches, two Mutter instances of which one is slow, ids 1 and 2 per instance, two
  `WatchFired` in flight. Two watches are what it takes to confuse
  one with another, two instances what it takes to reuse an id; the proofs take
  the counts away. Nothing is claimed to happen in the end of a slow Mutter: a timed-out
  `AddIdleWatch` is never repeated.
- Registry: two files in two directories that claim overlapping types, one of the
  directories unmountable; two undelivered events per directory, so that one can be outdated by the next.
- Cache: two threads, one URI, one change of the file; one size where things fail, two where
  they do not. Different URIs share nothing but the failed directory.
- Clock: two ticks a second, two seconds a minute, two minutes, the clock set
  once to any time, two formats and zones.
- Background: two images and a show of three slides (fixed, transition, fixed) whose timeouts
  differ, three seconds, three setters or thumbnails, one file rewritten or
  deleted, the code's cache. Show, images and
  thumbnails together are more entries than it keeps.
- QR: three codes asked for, of which one by the application; one or two modules a
  side; a text that does not fit at one level; a size that rounds up. Two codes in flight
  are enough for the wrong order, the third is a widget that changes its mind twice.
- Crossfade: the clock set once, from a duration before the start of the fade to its longest end; three fades and six surfaces, so that a fade can be started in a handler that was run
  in a handler; two units of time, so that a third is passed before the end.
- Scopes: two tasks for the same process, so that the unit may exist; names that take each way, one with
  characters that look like an escape, one with a character beyond ASCII.
- Script: two runs, which is what it takes to clean the other's registry.
- XKB: files that give layouts again, that break off, and that are replaced by others; two codes of one name and one without; three parses, so that one
  after a broken one is followed by a good one.
- Languages: three listings that give locales twice, in both orders and spellings, and with a modifier; both C libraries; ISO files that disagree about a code; two locales to translate to, one with a
catalog in which two languages, and two countries, have the same name.

Deadlock is not checked where the system may stop: a disposed monitor, a
finalized factory, background or fade, a task that was answered, or a bound that is used up.

### Fairness

- Idle monitor: weak fairness of each handler of the main loop, which dispatches
  every source that stays ready, and of the bus and a running Mutter. The client, and
  Mutter's starts, exits and signals, owe nothing.
- Registry: the scanning thread goes on, and each monitor and each settings
  key is dispatched. Nobody else has to do anything.
- Cache: threads that made a call finish it (weak), and a program that shows a file asks for its
  thumbnail again and again while it has none (strong, per thread and
  URI). That is the documented use of the factory and is a premise of `EventuallyDecided`, not a result.
- Crossfade: time passes, the main loop dispatches each source and handlers return. The client owes nothing;
  it is bounded in how often it resets a fade's time, and so is whoever sets the clock.
- Scopes: the main loop calls back, and a call ends by an answer or its timeout; systemd owes nothing.

The other properties are safety properties. Where an answer must not be lost (QR),
the invariant says that it is queued or was given; that the main loop then gets to it is
taken for granted.

## 4. What is proved

All for any values of the constants that meet the assumptions named in their modules.

| Module | Theorems | States |
|---|---|---|
| `IdleMonitorProofs` | `TypeCorrect`, `RefCountsBalance` | `TypeOK`; `RefCountInv`: a watch has a reference for the table and one for each call in flight, so it is neither freed early nor leaked |
| | `CallsHoldTheirWatch` | a call in flight always refers to a watch that is still there |
| | `IndexStaysExact`, `RemovalsReachTheirMutter`, `TheRightWatchIsCalled` | `IndexInv`, `RemoveReachesItsMutter`, `CallsTheRightWatch` |
| | `CallbacksRemoveOnlyThemselves` | whatever the allocator does, a callback that returns takes another watch away only if it had removed its own and the other is a user-active one: how far the damage of finding 1 can go |
| | `MonitorImplementsService` | with memory not reused at once, `ImplementsService`: the refinement of `WatchService`, which finding 1 breaks otherwise |
| `ThumbnailRegistryProofs` | `TypeCorrect`, `ReferencesBalance`, `MapStaysSound`, `SettingsWin` | `TypeOK`, `RefsBalance`, `MapIsSound`, `SettingsAreObeyed` |
| | `NothingIsMissed` | `ListIsWhatIsOnDisk` |
| `ThumbnailCacheProofs` | `TypeCorrect`, `SavesAreAtomic` | `TypeOK`, `NothingHalfWritten` |
| | `SavesImplementTheStore` | `ImplementsStore`, the refinement of `ThumbnailStore`, where `g_rename` does not fail |
| `WallClockProofs` | `TypeCorrect`, `ClockShowsTheTime`, `NoIdleWakeups` | `TypeOK`, `ShowsTheTime`, `WakesOnlyToShowAnotherTime` |
| `BackgroundProofs` | `InvariantHolds` | the inductive invariant of the next four |
| | `TypeCorrect`, `WhatIsShownIsUpToDate`, `SlidesGoOn`, `CachesAreBlown` | `TypeOK`, `ShownIsUpToDate`, `NoSlideStaysTooLong`, `NoExpensiveCaches` |
| `QrWidgetProofs` | `InvariantHolds` | the inductive invariant of the next five |
| | `TypeCorrect`, `PixelsAreRight`, `TheTextIsShown`, `EveryAnswerComes`, `NoOldTextIsShown` | `TypeOK`, `PixelsAreTheModules`, `ShowsItsText`, `NoAnswerIsLost`, `NeverShowsAnOldText` |
| `HelpersProofs` | `TypeCorrect` | `TypeOK` |
| | `FadesFinishOnce`, `SuccessIsTrue`, `NamesAreReadBack`, `RunsCleanUp` | `EveryFadeFinishesOnce`, `SuccessMeansMoved`, `NamesCanBeExtracted`, `NothingLeftBehind` |
| | `LayoutTablesStaySound`, `LocalesStayUsable`, `NamesStayApart` | `LayoutTablesAreSound`, `LocalesAreUsable`, `NamesTellLocalesApart` |
| `DataInduction` | lemmas only | induction over numbers as a fact about sets of them, the greatest of some places, and what `FlattenSeq` computes |

So every invariant and action property that a passing run checks is proved, and both refinements.

None of these properties is inductive. What each rests on, beside the types:

- `RefCountInv`: that `ConnectProxy` adds exactly one reference per watch needs
  that no call for the new instance is in flight yet, and so that instances are told of only
  once (`AppearInv`), that calls go only to instances whose manager is done (`KnownInv`), and that only a running
  Mutter has watches (`MutterInv`). Lemmas about cardinalities of sets of instances carry the counting.
- The index, the removals and the callbacks of the idle monitor need to know what is in flight on the bus, which is
  `BusInv`. What the bus says of Mutter's name alternates and encloses what the instance in between sent (`NameInv`).
  A pending call is a request in the outbox or an answer in the inbox, and the answers to one watch come in the
  order in which they were asked for (`ReplyInv`), so that an answer is never taken for that of another instance. The proxy
  is that of the instance last heard of (`ProxyInv`), and an id of an instance
  is one watch, wherever it is known (`IdInv`): in the table, on the way, or in Mutter.
- `ImplementsService`: with that, every handler is a step of `WatchService` or a stutter. The mapping is
  over the client's watches, so only the block that a callback returns to must still be its own watch
  (`BlockInv`), which is what a block used again breaks: that is the assumption `ReuseFreed = FALSE`, and finding 1.
- The registry: a thumbnailer that is added must not be in the list already, or its
  references would be wrong for good. `ScanInv`: a file the scan has still to read is not listed, a directory that is
  watched is not scanned again, and nothing is listed before the first scan. `SettingsInv`: a change not yet signalled is the only
  reason to be wrong about a setting. Assumed: the MIME types are finite.
- `ListIsWhatIsOnDisk`: wherever the list is behind the disk, the scan still comes to the file or a report is on
  its way (`SeenInv`); and a report of a deletion is the last one only of a file that is gone (`DeletedInv`), since
  the handler takes its word for it without looking.
- The cache: what is about to be renamed is whole (`WholeInv`), and between unlink and the next mkstemp there is no
  temporary file (`UnlinkedInv`). Nothing is assumed about other threads.
- `ImplementsStore`: what a thread is about to do is what its call was begun with, and what it has done what the
  abstract call has (`CallInv`). Each system call is then one atomic effect or a stutter: the effects are the rename into
  place, of a thumbnail or of a failed mark, and the unlink of a mark that is out of date. A failing `g_rename` breaks this, which is finding 3, and is excluded. Assumed: the value that stands for nothing is
  neither a file nor a job.
- The clock: the timer is set for the second after the time that was read and, if it has not gone off, that second has
  not come (`TimerInv`); without a timerfd, what the source has slept since then and what is left of its second make a second at most (`LateInv`); the time is not before the one read unless the kernel said so (`BackwardsInv`, which needs the check
  made after the timer is set); what was read is what is configured, but for changes not yet signalled (`ConfiguredInv`). `NoIdleWakeups`
  adds that, with the clock never set, a timer goes off for no other reason (`NeverSetInv`).
- The background: each entry of the three caches was made from the file as it is, but for a change that is not yet
  reported, and two entries of one file agree (`CachesInv`, `WallpaperInv`); every drawing goes through
  `get_pixbuf_for_size`, which makes a right picture from right caches and leaves them right. `ShownInv` carries that to what
  the client drew last, as long as it is not about to draw again. `TimeInv`: for a picture of a slide a timer is set, or has
  gone off, in time. TLC checked the whole of it in a run of 785,698 states before it was proved. Assumed are what the code's constants and the
  parser give: the cache holds at least two entries, an image is not a show, a slide has durations
  that are numbers.
- The QR codes: by the phase of its thread, how much of the picture a task has painted (`PhaseInv`), what it may be
  answered with (`AnswerInv`), and that the tasks that have returned unanswered are those whose callback is queued, each once; all tasks of a
  widget but its last are cancelled, and the last is of its text and level (`WidgetInv`). That the bytes are
  the picture is an induction over the rows painted. Sizes are numbers without a width, for every size that the request
  allows. Assumed of the encoder: its code is a square of Booleans, and the colors fit the format.
- The fade: each `finished` comes after its start and each handler after its `finished` (`FadeCountInv`); the fade that `is_started` speaks of is
  attached, and has its surfaces unless one could not be copied while it ran (`FadeRunningInv`). Assumed: bounds and duration are
  numbers, and no source's id is `None`.
- The scope: a task that waits does so with the name of its unit (`ScopeWaitInv`); it is answered when it has returned and not before, and systemd
  says "done" only of a process that was moved (`ScopeAnswerInv`). In between, a task that was cancelled may hold a success that its client never sees.
- `NamesCanBeExtracted`: the unit of a task was made from its name (`ScopeUnitInv`); each char becomes a piece that is read as that char (`PieceOfAscii`), and
  from the place of each piece the rest of the name is read (`ReadsTheRest`, an induction from the end). Assumed:
  a name is a sequence of chars.
- The script: only a run that is under way has a descriptor, and one that has not begun no files (`ScriptHoldsInv`); what a finished run left is its thumbnailer's (`ScriptLeftInv`); and a
  registry that is half written belongs to a run that has still to come to it in the directory, or could not be removed (`ScriptRegistryInv`).
- The layouts: the tables of the object are sound, unless the XML parser was left within a layout (`XkbTablesInv`). While a
  file is parsed one layout may be under way that is not in the table yet, although its variants are and point to it: `Tables` says
  what holds then, and that no layout of its name was there before any of those variants came. When it ends, either there is
  one of its name, and nothing points to the one under way, which is freed; or it is added, and its variants with it become
  sound. A parser that goes on with a layout from an earlier file fails at the first one of this file (`XmlInv`); if it uses freed memory before, the state is
  "undefined", of which it is only claimed that neither libxkbregistry nor a first parse leads there. With
  libxkbregistry all main layouts come first (`RegistryInv`). Assumed (`LayoutsAssumption`): the elements of XML are nested, which GMarkup
  makes sure of; a variant comes in a layout; and the id of a variant, which has a "+", is not the name of a layout.
- The locales: the table has, of each locale, the longest of its names that are taken (`Best`). There is only one such table, and each
  name that is added keeps it one, so that the order of the names does not matter. A name that is taken was parsed, and
  parsing it again changes nothing (`ParsedName`).
- The names of locales: two ids differ in language, territory or modifier; where the language is not unique all three are in the name,
  so that one name means one name of each part; and where it is unique there is no other locale of it. Translations are functions of what is
  translated, and nothing else is used of them. Assumed (`LocalesAssumption`): no charset is called "utf8"; spellings of one
  locale that are in UTF-8 and equally long are the same, without which the code's result does depend on the order (it compares
  lengths and nothing else); an ISO code has two or three letters.

In `HelpersProofs` a step of the whole is a step of the component that was chosen,
and leaves the variables of the others alone, so that what is an invariant of a component is one of the whole.

The prover has no rule of induction, but `DataInduction` has one that it can use: that a set of numbers which is not empty has a
smallest is taken from the library, and what is to be proved by induction is stated as membership of
a set. The recursive functions of the model (`FlattenSeq`, the names of units, and `FoldLeft`, which is one over sets of places) are
unfolded with it: each loop over a rules file, a listing or an ISO file is shown to be a run that takes one element after the other
(`FoldRun`), and what holds of it is an induction over that run.

Only model-checked:

- Liveness (`EventuallyRegistered`, `EventuallyUnregistered`, `EventuallyListed`, `EventuallyDecided`, `EverySourceEnds`,
  `EveryTaskIsAnswered`), which is out of the prover's reach, as `ENABLED` is.
- What the constants of a run say of its environment: assumptions are evaluated by TLC for the values of each run,
  and taken for granted by the proofs.

## 5. Disagreements found

1. `gnome-idle-monitor.c:91`: `on_watch_fired` reads its watch after the callback,
   which may have removed it; if the block was given to a new user-active watch, that one
   is removed without having fired.
2. `gnome-desktop-thumbnail.c:499`: the loop meant to "remove all the thumbnailers
   inside this" directory stops after the first.
3. `gnome-desktop-thumbnail.c:1356`: `save_thumbnail` returns TRUE when `g_rename` failed.
4. `gnome-bg/gnome-bg-slide-show.c:560`: the place that "should never happen" is
   reached by a show of several slides without durations.
5. `gnome-bg-crossfade.c:535`: `stop` clears `timeout_id` after the handlers of `finished` ran; a fade that
   one of them started runs on, while `is_started` says that none does.

Seen while modelling, and shown by the models' states rather than by a run of their own:

- `gnome-bg-crossfade.c:388`: every fade is lengthened to one and a half of its duration, since `is_first_frame` is still set
  after a third of it, while the comment at line 403 has a fade "never longer than .75 seconds" (`Longest`).
- `gnome-datetime-source.c:125`: without a timerfd a clock that was set back may stay unnoticed while the main loop wakes up for other things, though
  the documentation at line 234 promises a second at most (the last case of `ShownTimeIsCurrent`).
- `gnome-xkb-info.c:659`: `parse_error` leaves pointers to what it freed that are "only used while parsing" (line 83), and the next parse uses them ("undefined").
- `gnome-bg-crossfade.c:134`: `finalize` calls `g_object_unref` on an end surface that is left, which is no GObject ("undefined").
- `gnome-bg-crossfade.c:431`: an assertion fails if a surface cannot be copied while a fade runs (`failed`).
- `gnome-desktop-thumbnail-script.c:1287`: the message of an error is read that the caller may have asked not to get ("crashed"); the same at lines
  1034, when there is no session bus, and 1202, when there is no directory to open.
- `gnome-systemd.c:158`: a byte beyond ASCII is escaped with eight digits instead of two (`NamesCanBeExtracted` is about ASCII names).

## 6. Not modelled, and why

Pixels, colors, scaling, the text of dates and the content of the catalogs are values computed
in one go, with no state to get wrong. The arguments, seccomp filter and mounts of the
sandbox are data handed to other programs. `gnome-bg.c` and
`gnome-bg-slide-show.c` at the top level are older copies for GTK 3 of what is modelled. PNP ids, the gettext helpers
and the version are single calls. Headers, D-Bus interface files, tests and examples were read, not modelled.

## 7. The plan

Done: every component with state is modelled; every safety property and every action property of the passing runs is proved,
with both refinements.

Left to model: in `Background`, screens that change their size; in `QrWidget`, the drawing of the texture.

Left to prove: nothing that is stated now, but liveness. A refinement worth stating is that of a background by one without caches.
