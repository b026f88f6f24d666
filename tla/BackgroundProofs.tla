-------------------------- MODULE BackgroundProofs --------------------------
(***************************************************************************)
(* Proofs about Background: the client shows the file as it is, its slide  *)
(* shows go on, and no expensive picture stays in memory, for any images,  *)
(* documents and bounds.                                                   *)
(*                                                                         *)
(* The state that the properties speak of, what was drawn, follows what is *)
(* kept in three caches.  The invariant says of each entry that it is      *)
(* right, and get_pixbuf_for_size, which every drawing goes through, is    *)
(* shown to give a right picture from right caches.                        *)
(***************************************************************************)
EXTENDS Background, DataInduction

-----------------------------------------------------------------------------
(* The inductive invariant.                                                *)

\* No version of a file is newer than there were edits.
EditsInv == \A file \in Files : disk[file].version <= edits

\* What was saved on disk.
WallpaperInv ==
  wallpaper # None =>
    /\ wallpaper.mtime <= now
    /\ ~outdated =>
         /\ wallpaper.content.scaled = wallpaper.placement
         /\ Exists(wallpaper.file) /\ disk[wallpaper.file].mtime < wallpaper.mtime =>
              wallpaper.content.version = disk[wallpaper.file].version

\* What is in memory was made from the file as it is, but for a change that
\* the monitor has not reported; and what was read scaled, from the wallpaper.
UpToDate(version) ==
  ~outdated /\ ~file_event /\ filename # None /\ Exists(filename) =>
    version = disk[filename].version
AsSaved(scaled) ==
  ~outdated /\ filename \in Images /\ scaled # "original"
    /\ wallpaper # None /\ wallpaper.file = filename => wallpaper.placement = scaled

RightEntry(entry) ==
  /\ IF entry.type = "slideshow" THEN entry.file \in Shows ELSE entry.file \in Images
  /\ entry.type # "thumbnail" /\ entry.file = filename => UpToDate(entry.content.version)
  /\ entry.type = "pixbuf" /\ entry.file = filename => AsSaved(entry.content.scaled)
RightCache(cache) ==
  /\ \A entry \in Range(cache) : RightEntry(entry)
  /\ \A e, d \in Range(cache) : e.type = d.type /\ e.file = d.file => e.content = d.content
RightPicture(picture) ==
  picture # None =>
    /\ picture.file = filename
    /\ UpToDate(picture.version)
    /\ AsSaved(picture.scaled)
Agree(cache, picture) ==
  filename \in Images /\ picture # None =>
    \A entry \in Range(cache) :
      entry.type = "pixbuf" /\ entry.file = filename => entry.content.scaled = picture.scaled

CachesInv ==
  /\ RightCache(file_cache) /\ RightPicture(pixbuf_cache)
  /\ Agree(file_cache, pixbuf_cache)

\* The client is not to draw again.
Ready == /\ state = "alive" /\ ~file_event /\ ~due
         /\ ~changed_id \/ ignore_pending_change

ShownInv ==
  Ready =>
    /\ shown.file = filename /\ shown.color = color /\ shown.placement = placement
    /\ shown.picture # None /\ ~outdated =>
         /\ shown.picture.file = filename
         /\ Exists(filename) => shown.picture.version = disk[filename].version
         /\ Exists(filename) /\ filename \in Images =>
              shown.picture.scaled \in {"original", placement}

\* A timer is set, or has gone off, in time for a picture of a slide.
Lasts(picture, slide) ==
  /\ now <= picture.made + SlideTimeout(slide)
  /\ \/ transitioned_id
     \/ MaxTime <= picture.made + SlideTimeout(slide)
     \/ timeout_id # None /\ timeout_id <= picture.made + SlideTimeout(slide)
InTime(picture) ==
  picture # None => \E slide \in Range(Show[filename].slides) : Lasts(picture, slide)

TimeInv ==
  /\ timeout_id # None => now <= timeout_id
  /\ filename \in Shows =>
       /\ timeout_id # None =>
            \E slide \in Range(Show[filename].slides) : timeout_id <= now + SlideTimeout(slide)
       /\ InTime(pixbuf_cache)
       /\ Ready => InTime(shown.picture)

IInv == /\ TypeOK /\ EditsInv /\ WallpaperInv /\ CachesInv /\ ShownInv
        /\ NoExpensiveCaches /\ TimeInv
-----------------------------------------------------------------------------
(* Slides.                                                                 *)

LEMMA MinOfTwo ==
  ASSUME NEW m \in Nat, NEW n \in Nat
  PROVE  Min({m, n}) = IF m <= n THEN m ELSE n
<1> DEFINE least == IF m <= n THEN m ELSE n
<1>1. least \in {m, n} /\ \A k \in {m, n} : least <= k
  OBVIOUS
<1>2. \A j, k \in {m, n} : j <= k /\ k <= j => j = k
  OBVIOUS
<1> HIDE DEF least
<1>3. Min({m, n}) \in {m, n} /\ \A k \in {m, n} : Min({m, n}) <= k
  BY <1>1 DEF Min
<1>4. Min({m, n}) = least
  BY <1>1, <1>2, <1>3
<1>. QED BY <1>4 DEF least

LEMMA MinIsMember ==
  ASSUME NEW S \in SUBSET Nat, S # {}
  PROVE  Min(S) \in S
<1>1. \E n \in S : \A m \in S : n <= m
  BY Smallest
<1>. QED BY <1>1 DEF Min

\* A document's durations are natural numbers, and so are its slides'.
LEMMA DurationType ==
  ASSUME NEW durations \in Seq(Nat)
  PROVE  (IF durations = <<>> THEN 0 ELSE Last(durations)) \in Nat
BY DEF Last

LEMMA SlidesType ==
  ASSUME NEW file \in Shows
  PROVE  /\ DOMAIN Show[file].slides \subseteq Nat \ {0}
         /\ \A i \in DOMAIN Show[file].slides :
              /\ Show[file].slides[i] \in
                   [fixed : BOOLEAN, duration : Nat, file1 : Files \cup {None},
                    file2 : Files \cup {None}]
              /\ SlideTimeout(Show[file].slides[i]) \in Nat
<1> DEFINE elements == Documents[file].elements
           one == [fixed : BOOLEAN, durations : Seq(Nat), file1 : Files \cup {None},
                   file2 : Files \cup {None}]
           other == [fixed : BOOLEAN, duration : Nat, file1 : Files \cup {None},
                     file2 : Files \cup {None}]
<1>1. elements \in Seq(one)
  BY BackgroundAssumption
<1>2. Show[file].slides =
        [i \in DOMAIN elements |->
           IF Len(elements) = 1 THEN [Slide(elements[i]) EXCEPT !.duration = MaxUint]
           ELSE Slide(elements[i])]
  BY DEF Show, Parse
<1>3. \A i \in DOMAIN elements : elements[i] \in one
  <2> HIDE DEF elements, one
  <2>. QED BY <1>1
<1>4. DOMAIN elements \subseteq Nat \ {0}
  <2> HIDE DEF elements, one
  <2>. QED BY <1>1
<1>5. ASSUME NEW element \in one PROVE Slide(element) \in other
  <2>1. element.durations \in Seq(Nat)
    OBVIOUS
  <2>2. Duration(element) \in Nat
    BY <2>1, DurationType DEF Duration
  <2>. QED BY <2>2 DEF Slide
<1>6. ASSUME NEW slide \in other
      PROVE  [slide EXCEPT !.duration = MaxUint] \in other /\ SlideTimeout(slide) \in Nat
  BY SlideShowAssumption DEF SlideTimeout
<1> HIDE DEF elements, one, other
<1>7. ASSUME NEW i \in DOMAIN Show[file].slides PROVE Show[file].slides[i] \in other
  <2>1. i \in DOMAIN elements
    BY <1>2
  <2>2. Show[file].slides[i] = IF Len(elements) = 1 THEN [Slide(elements[i]) EXCEPT !.duration = MaxUint]
           ELSE Slide(elements[i])
    BY <1>2, <2>1
  <2>3. Slide(elements[i]) \in other
    BY <1>3, <1>5, <2>1
  <2>. QED BY <1>6, <2>2, <2>3
<1>8. DOMAIN Show[file].slides \subseteq Nat \ {0}
  BY <1>2, <1>4
<1>. QED BY <1>6, <1>7, <1>8 DEF other

\* The current slide, and the slide of a frame, are slides of the show.
LEMMA SlideNumbers ==
  ASSUME NEW file \in Shows, NEW time \in Times, NEW frame
  PROVE  /\ Current[file][time] \in DOMAIN Show[file].slides \cup {NoSlide}
         /\ FrameSlide(Show[file], frame) \in DOMAIN Show[file].slides \cup {NoSlide}
<1>1. DOMAIN Show[file].slides \subseteq Nat
  BY SlidesType
<1>2. ASSUME NEW S, S \subseteq DOMAIN Show[file].slides
      PROVE  (IF S = {} THEN NoSlide ELSE Min(S)) \in DOMAIN Show[file].slides \cup {NoSlide}
  BY <1>1, <1>2, MinIsMember
<1>3. Current[file][time] = CurrentSlide(Show[file], time)
  BY DEF Current
<1> DEFINE show == Show[file]
<1> HIDE DEF show
<1>4. CurrentSlide(show, time) \in DOMAIN show.slides \cup {NoSlide}
  <2> DEFINE S == {i \in DOMAIN show.slides :
                       /\ Delta(show, time) >= 0
                       /\ Elapsed(show, i) + show.slides[i].duration > Delta(show, time)}
  <2>1. CurrentSlide(show, time) = IF S = {} THEN NoSlide ELSE Min(S)
    BY DEF CurrentSlide
  <2>2. S \subseteq DOMAIN show.slides
    OBVIOUS
  <2> HIDE DEF S
  <2>. QED BY <1>2, <2>1, <2>2 DEF show
<1>5. FrameSlide(show, frame) \in DOMAIN show.slides \cup {NoSlide}
  <2> DEFINE S == {i \in DOMAIN show.slides :
                   /\ show.slides[i].fixed
                   /\ Cardinality({k \in 1..(i - 1) : show.slides[k].fixed}) = frame}
  <2>1. FrameSlide(show, frame) = IF S = {} THEN NoSlide ELSE Min(S)
    BY DEF FrameSlide
  <2>2. S \subseteq DOMAIN show.slides
    OBVIOUS
  <2> HIDE DEF S
  <2>. QED BY <1>2, <2>1, <2>2 DEF show
<1>. QED BY <1>3, <1>4, <1>5 DEF show

-----------------------------------------------------------------------------
(* Caches.                                                                 *)

LEMMA InexpensiveEntries ==
  ASSUME NEW cache \in Seq(Entries)
  PROVE  /\ Inexpensive(cache) \in Seq(Entries) /\ Len(Inexpensive(cache)) <= Len(cache)
         /\ \A entry \in Range(Inexpensive(cache)) :
              entry \in Range(cache) /\ entry.type # "pixbuf"
<1> DEFINE seqs == [i \in DOMAIN cache |-> IF cache[i].type = "pixbuf" THEN <<>>
                                           ELSE <<cache[i]>>]
           Kept(s, n) ==
             /\ s \in Seq(Entries) /\ Len(s) <= n
             /\ \A k \in 1..Len(s) : \E i \in DOMAIN cache : s[k] = cache[i] /\ s[k].type # "pixbuf"
<1>1. Inexpensive(cache) = FlattenSeq(seqs)
  BY DEF Inexpensive
<1>2. Len(cache) \in Nat /\ DOMAIN cache = 1..Len(cache) /\ \A i \in DOMAIN cache : cache[i] \in Entries
  OBVIOUS
<1>3. Len(seqs) = Len(cache)
  BY <1>2
<1>4. \A i \in 1..Len(cache) : Kept(seqs[i], 1)
  <2> TAKE i \in 1..Len(cache)
  <2>1. cache[i] \in Entries /\ i \in DOMAIN cache
    BY <1>2
  <2>2. CASE cache[i].type = "pixbuf"
    <3>1. seqs[i] = <<>>
      BY <1>2, <2>2
    <3> HIDE DEF seqs
    <3>. QED BY <3>1
  <2>3. CASE cache[i].type # "pixbuf"
    <3>1. seqs[i] = <<cache[i]>>
      BY <1>2, <2>3
    <3> HIDE DEF seqs
    <3>2. seqs[i] \in Seq(Entries) /\ Len(seqs[i]) = 1 /\ seqs[i][1] = cache[i]
      BY <2>1, <3>1
    <3>. QED BY <2>1, <2>3, <3>2
  <2>. QED BY <2>2, <2>3
<1>5. Kept(FlattenSeq(seqs), Len(cache))
  <2>1. CASE Len(cache) = 0
    <3>1. FlattenSeq(seqs) = <<>>
      <4>1. seqs = <<>>
        BY <1>2, <2>1
      <4> HIDE DEF seqs
      <4>. QED BY <4>1 DEF FlattenSeq
    <3> HIDE DEF seqs
    <3>. QED BY <3>1, <2>1
  <2>2. CASE Len(cache) > 0
    <3> HIDE DEF seqs
    <3>1. PICK f : FlattenedTo(seqs, f, Len(seqs)) /\ FlattenSeq(seqs) = f[Len(seqs)]
      BY <1>2, <1>3, <2>2, Flattening
    <3>2. \A i \in 1..Len(cache) : f[i] = IF i = 1 THEN seqs[i] ELSE f[i - 1] \o seqs[i]
      BY <1>3, <3>1 DEF FlattenedTo
    <3> DEFINE H == {n \in Nat : n = 0 \/ Kept(f[n], n)}
    <3>3. ASSUME NEW n \in 0..(Len(cache) - 1), n \in H PROVE n + 1 \in H
      <4>1. n + 1 \in 1..Len(cache) /\ n \in Nat /\ (n + 1) - 1 = n
        BY <1>2
      <4>2. Kept(seqs[n + 1], 1)
        BY <1>4, <4>1
      <4>3. CASE n = 0
        <5>1. f[n + 1] = seqs[n + 1]
          BY <3>2, <4>1, <4>3
        <5>. QED BY <4>1, <4>2, <4>3, <5>1
      <4>4. CASE n # 0
        <5>1. f[n + 1] = f[n] \o seqs[n + 1]
          <6>1. f[n + 1] = IF n + 1 = 1 THEN seqs[n + 1] ELSE f[(n + 1) - 1] \o seqs[n + 1]
            BY <3>2, <4>1
          <6>2. n + 1 # 1
            BY <4>1, <4>4
          <6>3. f[n + 1] = f[(n + 1) - 1] \o seqs[n + 1]
            BY <6>1, <6>2
          <6>. QED BY <4>1, <6>3
        <5>2. Kept(f[n], n)
          BY <3>3, <4>4
        <5>3. PICK s, t : s = f[n] /\ t = seqs[n + 1]
          OBVIOUS
        <5>4. s \in Seq(Entries) /\ t \in Seq(Entries) /\ Len(s) <= n /\ Len(t) <= 1
          BY <4>2, <5>2, <5>3
        <5>5. /\ s \o t \in Seq(Entries) /\ Len(s \o t) = Len(s) + Len(t)
              /\ \A k \in 1..Len(s \o t) :
                   (s \o t)[k] = IF k <= Len(s) THEN s[k] ELSE t[k - Len(s)]
          BY <5>4
        <5>6. Len(s \o t) <= n + 1
          BY <5>4, <5>5, <4>1
        <5>7. ASSUME NEW k \in 1..Len(s \o t)
              PROVE  \E i \in DOMAIN cache : (s \o t)[k] = cache[i] /\ (s \o t)[k].type # "pixbuf"
          <6>1. CASE k <= Len(s)
            <7>1. k \in 1..Len(s) /\ (s \o t)[k] = s[k]
              BY <5>4, <5>5, <6>1
            <7>. QED BY <5>2, <5>3, <7>1
          <6>2. CASE k > Len(s)
            <7>1. k - Len(s) \in 1..Len(t) /\ (s \o t)[k] = t[k - Len(s)]
              BY <5>4, <5>5, <6>2
            <7>. QED BY <4>2, <5>3, <7>1
          <6>. QED BY <6>1, <6>2, <5>4
        <5>8. Kept(s \o t, n + 1)
          BY <5>5, <5>6, <5>7
        <5>9. f[n + 1] = s \o t /\ n + 1 \in Nat
          BY <4>1, <5>1, <5>3
        <5> HIDE DEF Kept
        <5>. QED BY <5>8, <5>9
      <4>. QED BY <4>3, <4>4
    <3>4. 0 \in H
      OBVIOUS
    <3> DEFINE bound == Len(cache)
    <3>5. bound \in Nat /\ \A n \in 0..(bound - 1) : n \in H => n + 1 \in H
      BY <1>2, <3>3
    <3> HIDE DEF H, bound
    <3>6. \A n \in 0..bound : n \in H
      BY <3>4, <3>5, UpTo
    <3>7. bound \in H
      BY <3>5, <3>6
    <3>8. bound # 0 /\ FlattenSeq(seqs) = f[bound]
      BY <1>3, <2>2, <3>1 DEF bound
    <3>9. bound = Len(cache)
      BY DEF bound
    <3>10. Kept(f[bound], bound)
      BY <3>7, <3>8 DEF H
    <3>. QED BY <3>8, <3>9, <3>10
  <2>3. Len(cache) \in Nat
    BY <1>2
  <2> HIDE DEF Kept, seqs
  <2>. QED BY <2>1, <2>2, <2>3
<1> HIDE DEF seqs
<1>6. PICK s : s = Inexpensive(cache)
  OBVIOUS
<1>7. Kept(s, Len(cache))
  BY <1>1, <1>5, <1>6
<1>8. \A entry \in Range(s) : entry \in Range(cache) /\ entry.type # "pixbuf"
  BY <1>7 DEF Range
<1>. QED BY <1>6, <1>7, <1>8

LEMMA AddEntries ==
  ASSUME NEW cache \in Seq(Entries), Len(cache) < CacheSize,
         NEW type, NEW file, NEW content,
         [type |-> type, file |-> file, content |-> content] \in Entries
  PROVE  /\ Add(cache, type, file, content) \in Seq(Entries)
         /\ Len(Add(cache, type, file, content)) < CacheSize
         /\ Range(Add(cache, type, file, content)) \subseteq
              Range(cache) \cup {[type |-> type, file |-> file, content |-> content]}
<1> DEFINE entry == [type |-> type, file |-> file, content |-> content]
           longer == <<entry>> \o cache
           kept == Min({Len(longer), CacheSize - 1})
<1>1. entry \in Entries /\ CacheSize \in Nat /\ CacheSize > 1 /\ Len(cache) \in Nat
  BY BackgroundAssumption
<1> HIDE DEF entry
<1>2. /\ longer \in Seq(Entries) /\ Len(longer) = Len(cache) + 1
      /\ longer[1] = entry /\ \A i \in 2..Len(longer) : longer[i] = cache[i - 1]
  BY <1>1
<1>3. kept = IF Len(longer) <= CacheSize - 1 THEN Len(longer) ELSE CacheSize - 1
  <2> HIDE DEF longer
  <2>. QED BY <1>1, <1>2, MinOfTwo
<1>4. kept \in 1..Len(longer) /\ kept < CacheSize
  <2> HIDE DEF longer, kept
  <2>. QED BY <1>1, <1>2, <1>3
<1>5. Add(cache, type, file, content) = SubSeq(longer, 1, kept)
  BY DEF Add, entry
<1> HIDE DEF longer, kept
<1>6. /\ SubSeq(longer, 1, kept) \in Seq(Entries) /\ Len(SubSeq(longer, 1, kept)) = kept
      /\ \A i \in 1..kept : SubSeq(longer, 1, kept)[i] = longer[i]
  BY <1>2, <1>4
<1>7. PICK s : s = SubSeq(longer, 1, kept)
  OBVIOUS
<1>8. Range(s) \subseteq Range(cache) \cup {entry}
  <2> SUFFICES ASSUME NEW i \in DOMAIN s PROVE s[i] \in Range(cache) \cup {entry}
    BY DEF Range
  <2>1. i \in 1..kept /\ s[i] = longer[i]
    BY <1>6, <1>7
  <2>2. CASE i = 1
    BY <1>2, <2>1, <2>2
  <2>3. CASE i # 1
    <3>1. i \in 2..Len(longer) /\ i - 1 \in DOMAIN cache
      BY <1>1, <1>2, <1>4, <2>1, <2>3
    <3>. QED BY <1>2, <2>1, <3>1 DEF Range
  <2>. QED BY <2>2, <2>3
<1>. QED BY <1>4, <1>5, <1>6, <1>7, <1>8 DEF entry

Made(type, file, content) == [type |-> type, file |-> file, content |-> content]

-----------------------------------------------------------------------------
(* The file cache.                                                         *)

\* What a look at the file cache gives: it is still right, it has at most an
\* entry of that type more, and what was found is as right as an entry.
GotRight(cache, got, type, file) ==
  /\ got.cache \in Seq(Entries) /\ Len(got.cache) < CacheSize
  /\ RightCache(got.cache)
  /\ \A entry \in Range(got.cache) : entry.type = type \/ entry \in Range(cache)
  /\ got.content # None =>
       /\ Made(type, file, got.content) \in Entries
       /\ RightEntry(Made(type, file, got.content))
       /\ \A entry \in Range(got.cache) :
            entry.type = type /\ entry.file = file => entry.content = got.content

LEMMA EntryIsMade ==
  ASSUME NEW entry \in Entries
  PROVE  entry = Made(entry.type, entry.file, entry.content)
BY DEF Entries, Made

LEMMA GetIsRight ==
  ASSUME NEW cache \in Seq(Entries), Len(cache) < CacheSize, RightCache(cache),
         NEW type, NEW file, NEW loaded,
         loaded # None => Made(type, file, loaded) \in Entries
                          /\ RightEntry(Made(type, file, loaded))
  PROVE  GotRight(cache, Get(cache, type, file, loaded), type, file)
<1>1. ASSUME NEW entry \in Range(cache) PROVE entry \in Entries
  BY <1>1 DEF Range
<1>2. CASE Has(cache, type, file)
  <2>1. PICK i \in DOMAIN cache : cache[i].type = type /\ cache[i].file = file
    BY <1>2 DEF Has
  <2>2. cache[i] \in Range(cache)
    BY <2>1 DEF Range
  <2>3. \E entry \in Range(cache) : entry.type = type /\ entry.file = file
    BY <2>1, <2>2
  <2>4. PICK entry \in Range(cache) :
          entry.type = type /\ entry.file = file
          /\ ContentOf(cache, type, file) = entry.content
    BY <2>3 DEF ContentOf
  <2>5. PICK got : got = Get(cache, type, file, loaded)
    OBVIOUS
  <2>6. got.cache = cache /\ got.content = entry.content
    BY <1>2, <2>4, <2>5 DEF Get
  <2>7. entry = Made(type, file, got.content)
    BY <1>1, <2>4, <2>6, EntryIsMade
  <2>8. entry \in Entries /\ RightEntry(entry)
    BY <1>1, <2>4 DEF RightCache
  <2>9. \A e \in Range(cache) : e.type = type /\ e.file = file => e.content = got.content
    BY <2>4, <2>6 DEF RightCache
  <2>10. GotRight(cache, got, type, file)
    BY <2>6, <2>7, <2>8, <2>9 DEF GotRight
  <2>. QED BY <2>5, <2>10
<1>3. CASE ~Has(cache, type, file)
  <2>1. \A entry \in Range(cache) : ~(entry.type = type /\ entry.file = file)
    BY <1>3 DEF Has, Range
  <2>2. CASE loaded = None
    <3>1. PICK got : got = Get(cache, type, file, loaded)
      OBVIOUS
    <3>2. got.cache = cache /\ got.content = None
      BY <1>3, <2>2, <3>1 DEF Get
    <3>3. GotRight(cache, got, type, file)
      BY <3>2 DEF GotRight
    <3>. QED BY <3>1, <3>3
  <2>3. CASE loaded # None
    <3>1. PICK got, new, longer :
            /\ got = Get(cache, type, file, loaded)
            /\ new = Made(type, file, loaded)
            /\ longer = Add(cache, type, file, loaded)
      OBVIOUS
    <3>2. got.cache = longer /\ got.content = loaded
      BY <1>3, <2>3, <3>1 DEF Get
    <3>3. new \in Entries /\ RightEntry(new)
      BY <2>3, <3>1
    <3>4. /\ longer \in Seq(Entries) /\ Len(longer) < CacheSize
          /\ Range(longer) \subseteq Range(cache) \cup {new}
      BY <3>1, <3>3, AddEntries DEF Made
    <3>5. new.type = type /\ new.file = file /\ new.content = loaded
      BY <3>1 DEF Made
    <3>6. RightCache(longer)
      <4>1. \A entry \in Range(longer) : RightEntry(entry)
        BY <3>3, <3>4 DEF RightCache
      <4>2. ASSUME NEW e \in Range(longer), NEW d \in Range(longer),
                   e.type = d.type, e.file = d.file
            PROVE  e.content = d.content
        <5>1. CASE e \in Range(cache) /\ d \in Range(cache)
          BY <4>2, <5>1 DEF RightCache
        <5>2. CASE e = new /\ d = new
          BY <5>2
        <5>3. CASE (e = new /\ d \in Range(cache)) \/ (d = new /\ e \in Range(cache))
          BY <2>1, <3>5, <4>2, <5>3
        <5>. QED BY <3>4, <5>1, <5>2, <5>3
      <4>. QED BY <4>1, <4>2 DEF RightCache
    <3>7. \A e \in Range(longer) : e.type = type /\ e.file = file => e.content = loaded
      BY <2>1, <3>4, <3>5
    <3>8. \A e \in Range(longer) : e.type = type \/ e \in Range(cache)
      BY <3>4, <3>5
    <3>9. GotRight(cache, got, type, file)
      BY <3>1, <3>2, <3>3, <3>4, <3>6, <3>7, <3>8 DEF GotRight
    <3>. QED BY <3>1, <3>9
  <2>. QED BY <2>2, <2>3
<1>. QED BY <1>2, <1>3

\* A file that is there, read as it is.
LEMMA OnDiskIsRight ==
  ASSUME TypeOK, NEW type \in {"pixbuf", "slideshow", "thumbnail"}, NEW file \in Files,
         IF type = "slideshow" THEN file \in Shows ELSE file \in Images,
         OnDisk(file) # None
  PROVE  Made(type, file, OnDisk(file)) \in Entries
         /\ RightEntry(Made(type, file, OnDisk(file)))
<1>1. disk[file].version \in Versions
  BY DEF TypeOK, Versions
<1>2. OnDisk(file) = [version |-> disk[file].version, scaled |-> "original"]
  BY DEF OnDisk
<1>3. PICK content : content = OnDisk(file)
  OBVIOUS
<1>4. content \in Contents /\ content.version = disk[file].version /\ content.scaled = "original"
  BY <1>1, <1>2, <1>3 DEF Contents, Scales
<1>5. Made(type, file, content) \in Entries
  BY <1>4 DEF Made, Entries
<1>6. /\ Made(type, file, content).type = type /\ Made(type, file, content).file = file
      /\ Made(type, file, content).content = content
  BY DEF Made
<1>7. RightEntry(Made(type, file, content))
  BY <1>4, <1>6 DEF RightEntry, UpToDate, AsSaved
<1>. QED BY <1>3, <1>5, <1>7

\* The wallpaper that was saved stands for the file, if nothing was made wrong.
LEMMA WallpaperIsRight ==
  ASSUME TypeOK, WallpaperInv, NEW file \in Images, WallpaperIsValid(file)
  PROVE  Made("pixbuf", file, wallpaper.content) \in Entries
         /\ RightEntry(Made("pixbuf", file, wallpaper.content))
<1>1. /\ wallpaper.content \in Contents /\ wallpaper.file = file
      /\ wallpaper # None /\ disk[file].mtime < wallpaper.mtime
  BY DEF TypeOK, WallpaperIsValid
<1>2. PICK content : content = wallpaper.content
  OBVIOUS
<1>3. Made("pixbuf", file, content) \in Entries
  BY <1>1, <1>2 DEF Made, Entries, Files
<1>4. /\ Made("pixbuf", file, content).type = "pixbuf" /\ Made("pixbuf", file, content).file = file
      /\ Made("pixbuf", file, content).content = content
  BY DEF Made
<1>5. ~outdated => content.scaled = wallpaper.placement
  BY <1>1, <1>2 DEF WallpaperInv
<1>6. ~outdated /\ Exists(file) => content.version = disk[file].version
  BY <1>1, <1>2 DEF WallpaperInv
<1>7. RightEntry(Made("pixbuf", file, content))
  BY <1>4, <1>5, <1>6 DEF RightEntry, UpToDate, AsSaved
<1>. QED BY <1>2, <1>3, <1>7

LEMMA AsPixbufIsRight ==
  ASSUME TypeOK, WallpaperInv, NEW cache \in Seq(Entries), Len(cache) < CacheSize,
         RightCache(cache), NEW file \in Files \cup {None}, NEW monitor
  PROVE  GotRight(cache, AsPixbuf(cache, file, monitor), "pixbuf", file)
<1>1. PICK loaded :
        loaded = IF file \notin Images THEN None
                 ELSE IF monitor # -1 /\ WallpaperIsValid(file) THEN wallpaper.content
                 ELSE OnDisk(file)
  OBVIOUS
<1>2. ASSUME loaded # None
      PROVE  Made("pixbuf", file, loaded) \in Entries
             /\ RightEntry(Made("pixbuf", file, loaded))
  <2>1. file \in Images /\ file \in Files
    BY <1>1, <1>2 DEF Files
  <2>2. CASE monitor # -1 /\ WallpaperIsValid(file)
    <3>1. loaded = wallpaper.content
      BY <1>1, <2>1, <2>2
    <3>. QED BY <2>1, <2>2, <3>1, WallpaperIsRight
  <2>3. CASE ~(monitor # -1 /\ WallpaperIsValid(file))
    <3>1. loaded = OnDisk(file)
      BY <1>1, <2>1, <2>3
    <3>. QED BY <1>2, <2>1, <3>1, OnDiskIsRight
  <2>. QED BY <2>2, <2>3
<1>3. GotRight(cache, Get(cache, "pixbuf", file, loaded), "pixbuf", file)
  BY <1>2, GetIsRight
<1>. QED BY <1>1, <1>3 DEF AsPixbuf

LEMMA AsSlideshowIsRight ==
  ASSUME TypeOK, NEW cache \in Seq(Entries), Len(cache) < CacheSize,
         RightCache(cache), NEW file \in Files \cup {None}
  PROVE  GotRight(cache, AsSlideshow(cache, file), "slideshow", file)
<1>1. PICK loaded : loaded = IF file \in Shows THEN OnDisk(file) ELSE None
  OBVIOUS
<1>2. ASSUME loaded # None
      PROVE  Made("slideshow", file, loaded) \in Entries
             /\ RightEntry(Made("slideshow", file, loaded))
  BY <1>1, <1>2, OnDiskIsRight DEF Files
<1>3. GotRight(cache, Get(cache, "slideshow", file, loaded), "slideshow", file)
  BY <1>2, GetIsRight
<1>. QED BY <1>1, <1>3 DEF AsSlideshow

LEMMA AsThumbnailIsRight ==
  ASSUME TypeOK, NEW cache \in Seq(Entries), Len(cache) < CacheSize,
         RightCache(cache), NEW file \in Files \cup {None}
  PROVE  GotRight(cache, AsThumbnail(cache, file), "thumbnail", file)
<1>1. PICK loaded : loaded = IF file \in Images THEN OnDisk(file) ELSE None
  OBVIOUS
<1>2. ASSUME loaded # None
      PROVE  Made("thumbnail", file, loaded) \in Entries
             /\ RightEntry(Made("thumbnail", file, loaded))
  BY <1>1, <1>2, OnDiskIsRight DEF Files
<1>3. GotRight(cache, Get(cache, "thumbnail", file, loaded), "thumbnail", file)
  BY <1>2, GetIsRight
<1>. QED BY <1>1, <1>3 DEF AsThumbnail

\* What was found in the file cache, or read, can be used.
LEMMA GotContent ==
  ASSUME NEW cache, NEW got, NEW type, NEW file,
         GotRight(cache, got, type, file), got.content # None
  PROVE  /\ got.content \in Contents /\ file \in Files
         /\ IF type = "slideshow" THEN file \in Shows ELSE file \in Images
         /\ type # "thumbnail" /\ file = filename => UpToDate(got.content.version)
         /\ type = "pixbuf" /\ file = filename => AsSaved(got.content.scaled)
<1>1. PICK made, content : made = Made(type, file, content) /\ content = got.content
  OBVIOUS
<1>2. made \in Entries /\ RightEntry(made)
  BY <1>1 DEF GotRight
<1>3. made.type = type /\ made.file = file /\ made.content = content
  BY <1>1 DEF Made
<1>4. content \in Contents /\ file \in Files
  BY <1>2, <1>3 DEF Entries
<1>. QED BY <1>1, <1>2, <1>3, <1>4 DEF RightEntry

-----------------------------------------------------------------------------
(* get_pixbuf_for_size.                                                    *)

PictureType ==
  /\ file_cache' \in Seq(Entries) /\ Len(file_cache') < CacheSize
  /\ pixbuf_cache' \in Pictures \cup {None}
  /\ timeout_id' \in Nat \cup {None} /\ file_mtime' \in Times \cup {Gone}
  /\ blow_caches_id' \in BOOLEAN /\ state' \in {"alive", "aborted"}

PictureRight ==
  /\ RightCache(file_cache') /\ RightPicture(pixbuf_cache')
  /\ Agree(file_cache', pixbuf_cache')

PictureBlown ==
  state' = "alive" /\ filename \notin Shows /\ ~blow_caches_id' =>
    /\ pixbuf_cache' = None
    /\ \A entry \in Range(file_cache') : entry.type # "pixbuf"

\* A timeout that is set stays, and one is set for a slide, or none is needed.
Timed(made, timeout, slide) ==
  /\ now <= made + SlideTimeout(slide)
  /\ \/ transitioned_id
     \/ MaxTime <= made + SlideTimeout(slide)
     \/ timeout # None /\ timeout <= made + SlideTimeout(slide)
TimeoutKept ==
  /\ timeout_id # None => timeout_id' = timeout_id
  /\ timeout_id' # None => now <= timeout_id'
  /\ filename \in Shows /\ timeout_id' # None =>
       \E slide \in Range(Show[filename].slides) : timeout_id' <= now + SlideTimeout(slide)
PictureTimed ==
  filename \in Shows /\ pixbuf_cache' # None =>
    \E slide \in Range(Show[filename].slides) : Timed(pixbuf_cache'.made, timeout_id', slide)

GotPicture == PictureType /\ PictureRight /\ PictureBlown /\ TimeoutKept /\ PictureTimed

LEMMA BasicTypes ==
  ASSUME TypeOK
  PROVE  /\ file_cache \in Seq(Entries) /\ Len(file_cache) < CacheSize
         /\ pixbuf_cache \in Pictures \cup {None}
         /\ timeout_id \in Nat \cup {None} /\ file_mtime \in Times \cup {Gone}
         /\ filename \in Files \cup {None}
         /\ now \in Nat /\ now \in Times /\ now <= MaxTime
         /\ blow_caches_id \in BOOLEAN /\ transitioned_id \in BOOLEAN
BY BackgroundAssumption DEF TypeOK, Times

LEMMA TimeoutUnchanged ==
  ASSUME TypeOK, TimeInv, timeout_id' = timeout_id
  PROVE  TimeoutKept
BY DEF TimeInv, TimeoutKept

LEMMA PictureUnchanged ==
  ASSUME TypeOK, TimeInv, timeout_id' = timeout_id, pixbuf_cache' = pixbuf_cache
  PROVE  PictureTimed
BY DEF TimeInv, PictureTimed, Timed, InTime, Lasts

LEMMA CacheHit ==
  ASSUME IInv, state = "alive", filename # None \/ pixbuf_cache # None,
         pixbuf_cache' = pixbuf_cache,
         UNCHANGED <<file_mtime, file_cache, timeout_id, blow_caches_id, state>>
  PROVE  GotPicture
<1>1. TypeOK /\ TimeInv /\ CachesInv /\ NoExpensiveCaches
  BY DEF IInv
<1>2. PictureType
  BY <1>1, BasicTypes DEF PictureType
<1>3. PictureRight
  BY <1>1 DEF CachesInv, PictureRight
<1>4. PictureBlown
  BY <1>1 DEF NoExpensiveCaches, PictureBlown
<1>. QED BY <1>1, <1>2, <1>3, <1>4, TimeoutUnchanged, PictureUnchanged DEF GotPicture

LEMMA NoFile ==
  ASSUME IInv, state = "alive", filename = None, pixbuf_cache' = None,
         UNCHANGED <<file_mtime, file_cache, timeout_id, blow_caches_id, state>>
  PROVE  GotPicture
<1>1. TypeOK /\ TimeInv /\ CachesInv /\ NoExpensiveCaches
  BY DEF IInv
<1>2. PictureType
  BY <1>1, BasicTypes DEF PictureType
<1>3. PictureRight
  BY <1>1 DEF CachesInv, PictureRight, RightPicture, Agree
<1>4. PictureBlown
  BY <1>1 DEF NoExpensiveCaches, PictureBlown
<1>5. PictureTimed
  BY DEF PictureTimed
<1>. QED BY <1>1, <1>2, <1>3, <1>4, <1>5, TimeoutUnchanged DEF GotPicture

LEMMA FileTime ==
  ASSUME TypeOK, filename # None
  PROVE  filename \in Files /\ disk[filename].mtime \in Times \cup {Gone}
BY DEF TypeOK

LEMMA ShowAborts ==
  ASSUME IInv, state = "alive", filename # None, file_mtime' = disk[filename].mtime,
         NoCurrentSlide
  PROVE  GotPicture
<1>1. TypeOK /\ TimeInv /\ CachesInv /\ NoExpensiveCaches
  BY DEF IInv
<1>2. UNCHANGED <<file_cache, pixbuf_cache, timeout_id, blow_caches_id>> /\ state' = "aborted"
  BY DEF NoCurrentSlide, cacheVars
<1>3. PictureType
  BY <1>1, <1>2, BasicTypes, FileTime DEF PictureType
<1>4. PictureRight
  BY <1>1, <1>2 DEF CachesInv, PictureRight
<1>5. PictureBlown
  BY <1>2 DEF PictureBlown
<1>. QED BY <1>1, <1>2, <1>3, <1>4, <1>5, TimeoutUnchanged, PictureUnchanged DEF GotPicture

LEMMA PictureOf ==
  ASSUME TypeOK, NEW content \in Contents, NEW image \in Images, NEW scaled \in Scales,
         filename \in Files
  PROVE  /\ Picture(content, image, scaled) \in Pictures
         /\ Picture(content, image, scaled).file = filename
         /\ Picture(content, image, scaled).version = content.version
         /\ Picture(content, image, scaled).scaled = scaled
         /\ Picture(content, image, scaled).made = now
<1>1. now \in Times /\ content.version \in Versions
  BY DEF TypeOK, Contents
<1>. QED BY <1>1 DEF Picture, Pictures

LEMMA ImageLoaded ==
  ASSUME IInv, state = "alive", filename # None, file_mtime' = disk[filename].mtime,
         NEW monitor, LoadImage(monitor)
  PROVE  GotPicture
<1>1. TypeOK /\ TimeInv /\ CachesInv /\ WallpaperInv
  BY DEF IInv
<1>2. /\ file_cache \in Seq(Entries) /\ Len(file_cache) < CacheSize
      /\ RightCache(file_cache) /\ filename \in Files
  BY <1>1, BasicTypes DEF CachesInv
<1>3. PICK got : got = AsPixbuf(file_cache, filename, monitor)
  OBVIOUS
<1>4. GotRight(file_cache, got, "pixbuf", filename)
  BY <1>1, <1>2, <1>3, AsPixbufIsRight
<1>5. /\ file_cache' = got.cache
      /\ pixbuf_cache' = IF got.content = None THEN None
                         ELSE Picture(got.content, filename, got.content.scaled)
      /\ UNCHANGED <<timeout_id, state>>
  BY <1>3 DEF LoadImage
<1>6. blow_caches_id' = TRUE
  <2>1. MaxUint > KeepExpensiveCacheSecs
    BY BackgroundAssumption, SlideShowAssumption
  <2>2. BlowInIdle(MaxUint)
    BY DEF LoadImage
  <2>. QED BY <2>1, <2>2 DEF BlowInIdle
<1>7. pixbuf_cache' # None =>
        /\ got.content # None /\ got.content \in Contents /\ filename \in Images
        /\ UpToDate(got.content.version) /\ AsSaved(got.content.scaled)
        /\ pixbuf_cache' \in Pictures
        /\ pixbuf_cache'.file = filename /\ pixbuf_cache'.version = got.content.version
        /\ pixbuf_cache'.scaled = got.content.scaled
  <2> SUFFICES ASSUME pixbuf_cache' # None
      PROVE /\ got.content # None /\ got.content \in Contents /\ filename \in Images
        /\ UpToDate(got.content.version) /\ AsSaved(got.content.scaled)
        /\ pixbuf_cache' \in Pictures
        /\ pixbuf_cache'.file = filename /\ pixbuf_cache'.version = got.content.version
        /\ pixbuf_cache'.scaled = got.content.scaled
    OBVIOUS
  <2>1. got.content # None /\ pixbuf_cache' = Picture(got.content, filename, got.content.scaled)
    BY <1>5
  <2>2. /\ got.content \in Contents /\ filename \in Images
        /\ UpToDate(got.content.version) /\ AsSaved(got.content.scaled)
    BY <1>4, <2>1, GotContent
  <2>3. got.content.scaled \in Scales
    BY <2>2 DEF Contents
  <2>. QED BY <1>1, <1>2, <2>1, <2>2, <2>3, PictureOf
<1>8. PictureType
  <2>1. file_cache' \in Seq(Entries) /\ Len(file_cache') < CacheSize
    BY <1>4, <1>5 DEF GotRight
  <2>. QED BY <1>1, <1>5, <1>6, <1>7, <2>1, BasicTypes, FileTime DEF PictureType
<1>9. PictureRight
  <2>1. RightCache(file_cache')
    BY <1>4, <1>5 DEF GotRight
  <2>2. RightPicture(pixbuf_cache')
    BY <1>7 DEF RightPicture
  <2>3. Agree(file_cache', pixbuf_cache')
    BY <1>4, <1>5, <1>7 DEF Agree, GotRight
  <2>. QED BY <2>1, <2>2, <2>3 DEF PictureRight
<1>10. PictureBlown
  BY <1>6 DEF PictureBlown
<1>11. PictureTimed
  BY <1>7, BackgroundAssumption DEF PictureTimed
<1>. QED BY <1>1, <1>5, <1>8, <1>9, <1>10, <1>11, TimeoutUnchanged DEF GotPicture

\* The timeout for a slide that begins or is still on.
LEMMA SlideIsTimed ==
  ASSUME TypeOK, TimeInv, filename \in Shows, NEW slide \in Range(Show[filename].slides),
         EnsureTimeout(SlideTimeout(slide))
  PROVE  /\ TimeoutKept /\ timeout_id' \in Nat \cup {None}
         /\ \E s \in Range(Show[filename].slides) : Timed(now, timeout_id', s)
<1>1. now \in Nat /\ now <= MaxTime /\ timeout_id \in Nat \cup {None} /\ transitioned_id \in BOOLEAN
  BY BasicTypes
<1>2. \A s \in Range(Show[filename].slides) : SlideTimeout(s) \in Nat
  BY SlidesType DEF Range
<1>3. None \notin Nat /\ MaxTime \in Nat /\ MaxUint \in Nat /\ MaxTime <= MaxUint
  BY BackgroundAssumption, SlideShowAssumption
<1>4. PICK seconds \in Nat : seconds = SlideTimeout(slide)
  BY <1>2
<1>5. timeout_id' = IF timeout_id = None /\ seconds < MaxUint THEN now + seconds ELSE timeout_id
  BY <1>4 DEF EnsureTimeout
<1>6. CASE timeout_id # None
  <2>1. timeout_id' = timeout_id
    BY <1>5, <1>6
  <2>2. PICK s \in Range(Show[filename].slides) : timeout_id <= now + SlideTimeout(s)
    BY <1>6 DEF TimeInv
  <2>3. Timed(now, timeout_id', s)
    BY <1>1, <1>2, <1>6, <2>1, <2>2 DEF Timed
  <2>. QED BY <1>1, <2>1, <2>3, TimeoutUnchanged
<1>7. CASE timeout_id = None /\ seconds < MaxUint
  <2>1. timeout_id' = now + seconds
    BY <1>5, <1>7
  <2>2. timeout_id' \in Nat /\ now <= timeout_id' /\ timeout_id' <= now + SlideTimeout(slide)
    BY <1>1, <1>4, <2>1
  <2>3. TimeoutKept
    BY <1>7, <2>2 DEF TimeoutKept
  <2>4. now <= now + SlideTimeout(slide) /\ timeout_id' # None
    BY <1>1, <1>3, <1>4, <2>2
  <2>5. Timed(now, timeout_id', slide)
    BY <2>2, <2>4 DEF Timed
  <2>. QED BY <2>2, <2>3, <2>5
<1>8. CASE timeout_id = None /\ ~(seconds < MaxUint)
  <2>1. timeout_id' = timeout_id
    BY <1>5, <1>8
  <2>2. MaxTime <= now + SlideTimeout(slide) /\ now <= now + SlideTimeout(slide)
    BY <1>1, <1>3, <1>4, <1>8
  <2>3. Timed(now, timeout_id', slide)
    BY <2>2 DEF Timed
  <2>. QED BY <1>1, <2>1, <2>3, TimeoutUnchanged
<1>. QED BY <1>6, <1>7, <1>8

LEMMA SlideLoaded ==
  ASSUME IInv, state = "alive", filename # None, file_mtime' = disk[filename].mtime,
         NEW monitor, LoadSlide(monitor)
  PROVE  GotPicture
<1>1. TypeOK /\ TimeInv /\ CachesInv /\ WallpaperInv
  BY DEF IInv
<1>2. /\ file_cache \in Seq(Entries) /\ Len(file_cache) < CacheSize
      /\ RightCache(file_cache) /\ filename \in Files /\ now \in Times
  BY <1>1, BasicTypes DEF CachesInv
<1>3. PICK loaded, slide, first, second :
        /\ loaded = AsSlideshow(file_cache, filename)
        /\ slide = Show[filename].slides[Current[filename][now]]
        /\ first = AsPixbuf(loaded.cache, slide.file1, monitor)
        /\ second = IF slide.fixed THEN first ELSE AsPixbuf(first.cache, slide.file2, monitor)
  OBVIOUS
<1>4. /\ loaded.content # None /\ Current[filename][now] # NoSlide
      /\ file_cache' = second.cache
      /\ pixbuf_cache' = IF None \in {first.content, second.content} THEN None
                         ELSE Picture(loaded.content, slide.file1, first.content.scaled)
      /\ EnsureTimeout(SlideTimeout(slide)) /\ BlowInIdle(SlideTimeout(slide))
      /\ state' = state
  BY <1>3 DEF LoadSlide
<1>5. GotRight(file_cache, loaded, "slideshow", filename)
  BY <1>1, <1>2, <1>3, AsSlideshowIsRight
<1>6. /\ filename \in Shows /\ loaded.content \in Contents /\ UpToDate(loaded.content.version)
      /\ filename \notin Images
  BY <1>4, <1>5, GotContent, BackgroundAssumption
<1>7. /\ slide \in Range(Show[filename].slides)
      /\ slide.file1 \in Files \cup {None} /\ slide.file2 \in Files \cup {None}
  <2>1. Current[filename][now] \in DOMAIN Show[filename].slides
    BY <1>2, <1>4, <1>6, SlideNumbers
  <2>. QED BY <1>3, <1>6, <2>1, SlidesType DEF Range
<1>8. GotRight(loaded.cache, first, "pixbuf", slide.file1)
  <2>1. loaded.cache \in Seq(Entries) /\ Len(loaded.cache) < CacheSize /\ RightCache(loaded.cache)
    BY <1>5 DEF GotRight
  <2>. QED BY <1>1, <1>3, <1>7, <2>1, AsPixbufIsRight
<1>9. second.cache \in Seq(Entries) /\ Len(second.cache) < CacheSize /\ RightCache(second.cache)
  <2>1. first.cache \in Seq(Entries) /\ Len(first.cache) < CacheSize /\ RightCache(first.cache)
    BY <1>8 DEF GotRight
  <2>2. CASE slide.fixed
    BY <1>3, <2>1, <2>2
  <2>3. CASE ~slide.fixed
    <3>1. GotRight(first.cache, second, "pixbuf", slide.file2)
      BY <1>1, <1>3, <1>7, <2>1, <2>3, AsPixbufIsRight
    <3>. QED BY <3>1 DEF GotRight
  <2>. QED BY <2>2, <2>3
<1>10. pixbuf_cache' # None =>
         /\ pixbuf_cache' \in Pictures /\ pixbuf_cache'.file = filename
         /\ pixbuf_cache'.version = loaded.content.version /\ pixbuf_cache'.made = now
  <2> SUFFICES ASSUME pixbuf_cache' # None
      PROVE  /\ pixbuf_cache' \in Pictures /\ pixbuf_cache'.file = filename
             /\ pixbuf_cache'.version = loaded.content.version /\ pixbuf_cache'.made = now
    OBVIOUS
  <2>1. /\ first.content # None
        /\ pixbuf_cache' = Picture(loaded.content, slide.file1, first.content.scaled)
    BY <1>4
  <2>2. first.content \in Contents /\ slide.file1 \in Images
    BY <1>8, <2>1, GotContent
  <2>3. first.content.scaled \in Scales
    BY <2>2 DEF Contents
  <2>. QED BY <1>1, <1>2, <1>6, <2>1, <2>2, <2>3, PictureOf
<1>11. /\ TimeoutKept /\ timeout_id' \in Nat \cup {None}
       /\ \E s \in Range(Show[filename].slides) : Timed(now, timeout_id', s)
  BY <1>1, <1>4, <1>6, <1>7, SlideIsTimed
<1>12. PictureType
  <2>1. blow_caches_id' \in BOOLEAN
    BY <1>4 DEF BlowInIdle
  <2>2. file_mtime' \in Times \cup {Gone}
    BY <1>1, FileTime
  <2>. QED BY <1>4, <1>9, <1>10, <1>11, <2>1, <2>2 DEF PictureType
<1>13. PictureRight
  <2>1. RightPicture(pixbuf_cache')
    BY <1>6, <1>10 DEF RightPicture, AsSaved
  <2>2. Agree(file_cache', pixbuf_cache')
    BY <1>6 DEF Agree
  <2>. QED BY <1>4, <1>9, <2>1, <2>2 DEF PictureRight
<1>14. PictureBlown
  BY <1>6 DEF PictureBlown
<1>15. PictureTimed
  BY <1>10, <1>11 DEF PictureTimed
<1>. QED BY <1>11, <1>12, <1>13, <1>14, <1>15 DEF GotPicture

\* get_pixbuf_for_size, when it is called with the picture that is kept, or
\* with none.
LEMMA GetPixbuf ==
  ASSUME IInv, state = "alive", NEW cached, cached = pixbuf_cache \/ cached = None,
         NEW monitor, GetPixbufForSize(cached, monitor)
  PROVE  GotPicture
<1>1. CASE HitsCache(cached)
  <2>1. cached = pixbuf_cache /\ pixbuf_cache # None
    BY <1>1 DEF HitsCache
  <2>2. /\ pixbuf_cache' = pixbuf_cache
        /\ UNCHANGED <<file_mtime, file_cache, timeout_id, blow_caches_id, state>>
    BY <1>1, <2>1 DEF GetPixbufForSize
  <2>. QED BY <2>1, <2>2, CacheHit
<1>2. CASE ~HitsCache(cached) /\ filename = None
  <2>1. /\ pixbuf_cache' = None
        /\ UNCHANGED <<file_mtime, file_cache, timeout_id, blow_caches_id, state>>
    BY <1>2 DEF GetPixbufForSize
  <2>. QED BY <1>2, <2>1, NoFile
<1>3. CASE ~HitsCache(cached) /\ filename # None
  <2>1. /\ file_mtime' = disk[filename].mtime
        /\ LoadImage(monitor) \/ LoadSlide(monitor) \/ NoCurrentSlide
    BY <1>3 DEF GetPixbufForSize
  <2>. QED BY <1>3, <2>1, ImageLoaded, SlideLoaded, ShowAborts
<1>. QED BY <1>1, <1>2, <1>3

-----------------------------------------------------------------------------
(* What steps leave alone.                                                 *)

LEMMA CachesKept ==
  ASSUME CachesInv, UNCHANGED <<file_cache, pixbuf_cache, disk, filename, file_event,
                                wallpaper, outdated>>
  PROVE  CachesInv'
BY DEF CachesInv, RightCache, RightPicture, RightEntry, Agree, UpToDate, AsSaved, Exists

LEMMA CachesCleared ==
  ASSUME file_cache' = <<>>, pixbuf_cache' = None
  PROVE  CachesInv'
<1>1. Range(file_cache') = {}
  BY DEF Range
<1>. QED BY <1>1 DEF CachesInv, RightCache, RightPicture, Agree

LEMMA WallpaperKept ==
  ASSUME WallpaperInv, EditsInv, UNCHANGED <<now, disk, edits, wallpaper, outdated>>
  PROVE  WallpaperInv' /\ EditsInv'
BY DEF WallpaperInv, EditsInv, Exists

\* As long as the client does not draw.
LEMMA ShownKept ==
  ASSUME ShownInv, Ready' => Ready,
         UNCHANGED <<disk, filename, color, placement, shown, outdated>>
  PROVE  ShownInv'
BY DEF ShownInv, Exists

LEMMA TimeKept ==
  ASSUME TimeInv, Ready' => Ready, pixbuf_cache' \in {None, pixbuf_cache},
         transitioned_id' = transitioned_id, UNCHANGED <<now, filename, shown, timeout_id>>
  PROVE  TimeInv'
<1>1. CASE filename \notin Shows
  BY <1>1 DEF TimeInv
<1>2. CASE filename \in Shows
  <2>1. InTime(pixbuf_cache) /\ (Ready => InTime(shown.picture))
    BY <1>2 DEF TimeInv
  <2>2. \A picture : InTime(picture) => (InTime(picture))'
    BY DEF InTime, Lasts
  <2>3. InTime(pixbuf_cache)'
    BY <2>1 DEF InTime, Lasts
  <2>4. Ready' => InTime(shown.picture)'
    BY <2>1 DEF InTime, Lasts
  <2>. QED BY <2>3, <2>4 DEF TimeInv
<1>. QED BY <1>1, <1>2

LEMMA CallType ==
  ASSUME TypeOK, Call
  PROVE  calls' \in 0..MaxCalls /\ state = "alive"
BY BackgroundAssumption DEF TypeOK, Call

-----------------------------------------------------------------------------
(* The steps.                                                              *)

LEMMA SetRgbaStep ==
  ASSUME IInv, NEW new \in Colors, SetRgba(new) PROVE IInv'
<1>1. TypeOK'
  <2>1. TypeOK /\ calls' \in 0..MaxCalls
    BY CallType DEF IInv, SetRgba
  <2>. QED BY <2>1 DEF SetRgba, QueueChanged, worldVars, cacheVars, clientVars, TypeOK
<1>2. ~Ready'
  BY DEF SetRgba, QueueChanged, Ready
<1>3. WallpaperInv' /\ EditsInv'
  BY WallpaperKept DEF IInv, SetRgba, worldVars
<1>4. CachesInv'
  BY CachesKept DEF IInv, SetRgba, worldVars, cacheVars
<1>5. ShownInv'
  BY <1>2 DEF ShownInv
<1>6. NoExpensiveCaches'
  BY DEF IInv, SetRgba, cacheVars, NoExpensiveCaches
<1>7. TimeInv'
  BY <1>2, TimeKept DEF IInv, SetRgba, worldVars, clientVars, cacheVars
<1>. QED BY <1>1, <1>3, <1>4, <1>5, <1>6, <1>7 DEF IInv

LEMMA SetPlacementStep ==
  ASSUME IInv, NEW new \in Placements, SetPlacement(new) PROVE IInv'
<1>1. TypeOK'
  <2>1. TypeOK /\ calls' \in 0..MaxCalls
    BY CallType DEF IInv, SetPlacement
  <2>. QED BY <2>1 DEF SetPlacement, QueueChanged, worldVars, cacheVars, clientVars, TypeOK
<1>2. ~Ready'
  BY DEF SetPlacement, QueueChanged, Ready
<1>3. WallpaperInv' /\ EditsInv'
  BY WallpaperKept DEF IInv, SetPlacement, worldVars
<1>4. CachesInv'
  BY CachesKept DEF IInv, SetPlacement, worldVars, cacheVars
<1>5. ShownInv'
  BY <1>2 DEF ShownInv
<1>6. NoExpensiveCaches'
  BY DEF IInv, SetPlacement, cacheVars, NoExpensiveCaches
<1>7. TimeInv'
  BY <1>2, TimeKept DEF IInv, SetPlacement, worldVars, clientVars, cacheVars
<1>. QED BY <1>1, <1>3, <1>4, <1>5, <1>6, <1>7 DEF IInv

\* The caches and the timeout are gone, and the client will hear of it.
LEMMA Cleared ==
  ASSUME ClearCache, ~Ready' \/ filename' \notin Shows
  PROVE  CachesInv' /\ NoExpensiveCaches' /\ TimeInv'
<1>1. file_cache' = <<>> /\ pixbuf_cache' = None /\ timeout_id' = None
  BY DEF ClearCache
<1>2. NoExpensiveCaches'
  BY <1>1 DEF NoExpensiveCaches, Range
<1>3. TimeInv'
  BY <1>1 DEF TimeInv, InTime
<1>. QED BY <1>1, <1>2, <1>3, CachesCleared

LEMMA ClearedType ==
  ASSUME ClearCache
  PROVE  /\ file_cache' \in Seq(Entries) /\ Len(file_cache') < CacheSize
         /\ pixbuf_cache' \in Pictures \cup {None} /\ timeout_id' \in Nat \cup {None}
BY BackgroundAssumption DEF ClearCache

LEMMA SetFilenameStep ==
  ASSUME IInv, NEW new \in Files \cup {None}, SetFilename(new) PROVE IInv'
<1>0. ClearCache /\ TypeOK
  BY DEF IInv, SetFilename
<1>1. TypeOK'
  <2>1. file_mtime' \in Times \cup {Gone}
    BY <1>0 DEF SetFilename, TypeOK
  <2>2. calls' \in 0..MaxCalls
    BY <1>0, CallType DEF SetFilename
  <2>. QED BY <1>0, <2>1, <2>2, ClearedType
       DEF SetFilename, QueueChanged, worldVars, clientVars, TypeOK
<1>2. ~Ready'
  BY DEF SetFilename, QueueChanged, Ready
<1>3. WallpaperInv' /\ EditsInv'
  BY WallpaperKept DEF IInv, SetFilename, worldVars
<1>5. ShownInv'
  BY <1>2 DEF ShownInv
<1>. QED BY <1>0, <1>1, <1>2, <1>3, <1>5, Cleared DEF IInv

LEMMA FinalizeStep ==
  ASSUME IInv, Finalize PROVE IInv'
<1>0. ClearCache /\ TypeOK
  BY DEF IInv, Finalize
<1>1. TypeOK'
  BY <1>0, ClearedType DEF Finalize, worldVars, clientVars, TypeOK
<1>2. ~Ready'
  BY DEF Finalize, Ready
<1>3. WallpaperInv' /\ EditsInv'
  BY WallpaperKept DEF IInv, Finalize, worldVars
<1>5. ShownInv'
  BY <1>2 DEF ShownInv
<1>. QED BY <1>0, <1>1, <1>2, <1>3, <1>5, Cleared DEF IInv

LEMMA FileChangedStep ==
  ASSUME IInv, FileChanged PROVE IInv'
<1>0. ClearCache /\ TypeOK
  BY DEF IInv, FileChanged
<1>1. TypeOK'
  BY <1>0, ClearedType DEF FileChanged, QueueChanged, worldVars, confVars, clientVars, TypeOK
<1>2. ~Ready'
  BY DEF FileChanged, QueueChanged, Ready
<1>3. WallpaperInv' /\ EditsInv'
  BY WallpaperKept DEF IInv, FileChanged, worldVars
<1>5. ShownInv'
  BY <1>2 DEF ShownInv
<1>. QED BY <1>0, <1>1, <1>2, <1>3, <1>5, Cleared DEF IInv

LEMMA DoChangedStep ==
  ASSUME IInv, DoChanged PROVE IInv'
<1>1. TypeOK'
  BY DEF IInv, DoChanged, worldVars, confVars, cacheVars, TypeOK
<1>2. Ready' => Ready
  BY DEF DoChanged, Ready
<1>3. WallpaperInv' /\ EditsInv'
  BY WallpaperKept DEF IInv, DoChanged, worldVars
<1>4. CachesInv'
  BY CachesKept DEF IInv, DoChanged, worldVars, cacheVars, confVars
<1>5. ShownInv'
  BY <1>2, ShownKept DEF IInv, DoChanged, worldVars, confVars
<1>6. NoExpensiveCaches'
  BY DEF IInv, DoChanged, cacheVars, confVars, NoExpensiveCaches
<1>7. TimeInv'
  BY <1>2, TimeKept DEF IInv, DoChanged, worldVars, confVars, cacheVars
<1>. QED BY <1>1, <1>3, <1>4, <1>5, <1>6, <1>7 DEF IInv

LEMMA OnTimeoutStep ==
  ASSUME IInv, OnTimeout PROVE IInv'
<1>1. TypeOK'
  BY DEF IInv, OnTimeout, worldVars, confVars, cacheVars, clientVars, TypeOK
<1>2. Ready' => Ready
  BY DEF OnTimeout, clientVars, Ready
<1>3. WallpaperInv' /\ EditsInv'
  BY WallpaperKept DEF IInv, OnTimeout, worldVars
<1>4. CachesInv'
  BY CachesKept DEF IInv, OnTimeout, worldVars, cacheVars, confVars
<1>5. ShownInv'
  BY <1>2, ShownKept DEF IInv, OnTimeout, worldVars, confVars, clientVars
<1>6. NoExpensiveCaches'
  BY DEF IInv, OnTimeout, cacheVars, confVars, NoExpensiveCaches
<1>7. TimeInv'
  <2>1. /\ timeout_id' = None /\ transitioned_id' = TRUE
        /\ UNCHANGED <<now, filename, pixbuf_cache, shown>> /\ TimeInv
    BY DEF IInv, OnTimeout, worldVars, confVars, cacheVars, clientVars
  <2>2. filename \in Shows => InTime(pixbuf_cache)'
    BY <2>1 DEF TimeInv, InTime, Lasts
  <2>3. filename \in Shows /\ Ready' => InTime(shown.picture)'
    BY <1>2, <2>1 DEF TimeInv, InTime, Lasts
  <2>. QED BY <2>1, <2>2, <2>3 DEF TimeInv
<1>. QED BY <1>1, <1>3, <1>4, <1>5, <1>6, <1>7 DEF IInv

LEMMA DoTransitionedStep ==
  ASSUME IInv, DoTransitioned PROVE IInv'
<1>1. TypeOK'
  BY DEF IInv, DoTransitioned, worldVars, confVars, TypeOK
<1>2. ~Ready'
  BY DEF DoTransitioned, Ready
<1>3. WallpaperInv' /\ EditsInv'
  BY WallpaperKept DEF IInv, DoTransitioned, worldVars
<1>4. CachesInv'
  <2>1. RightCache(file_cache)'
    BY DEF IInv, DoTransitioned, worldVars, confVars, CachesInv, RightCache, RightEntry,
           UpToDate, AsSaved, Exists
  <2>2. RightPicture(pixbuf_cache)' /\ Agree(file_cache, pixbuf_cache)'
    BY DEF DoTransitioned, RightPicture, Agree
  <2>. QED BY <2>1, <2>2 DEF CachesInv
<1>5. ShownInv'
  BY <1>2 DEF ShownInv
<1>6. NoExpensiveCaches'
  BY DEF IInv, DoTransitioned, confVars, NoExpensiveCaches
<1>7. TimeInv'
  BY <1>2 DEF IInv, DoTransitioned, worldVars, confVars, TimeInv, InTime
<1>. QED BY <1>1, <1>3, <1>4, <1>5, <1>6, <1>7 DEF IInv

LEMMA BlowStep ==
  ASSUME IInv, BlowExpensiveCaches PROVE IInv'
<1>0. TypeOK /\ file_cache' = Inexpensive(file_cache) /\ pixbuf_cache' = None
  BY DEF IInv, BlowExpensiveCaches
<1>1. /\ file_cache' \in Seq(Entries) /\ Len(file_cache') <= Len(file_cache)
      /\ \A entry \in Range(file_cache') : entry \in Range(file_cache) /\ entry.type # "pixbuf"
  BY <1>0, BasicTypes, InexpensiveEntries
<1>2. TypeOK'
  <2>1. Len(file_cache') < CacheSize
    BY <1>0, <1>1, BackgroundAssumption DEF TypeOK
  <2>. QED BY <1>0, <1>1, <2>1 DEF BlowExpensiveCaches, worldVars, confVars, clientVars, TypeOK
<1>3. WallpaperInv' /\ EditsInv'
  BY WallpaperKept DEF IInv, BlowExpensiveCaches, worldVars
<1>4. CachesInv'
  <2>1. RightCache(file_cache')
    BY <1>1 DEF IInv, CachesInv, RightCache
  <2>2. RightCache(file_cache)'
    BY <2>1 DEF BlowExpensiveCaches, worldVars, confVars, RightCache, RightEntry,
           UpToDate, AsSaved, Exists
  <2>3. RightPicture(pixbuf_cache)' /\ Agree(file_cache, pixbuf_cache)'
    BY <1>0 DEF RightPicture, Agree
  <2>. QED BY <2>2, <2>3 DEF CachesInv
<1>5. Ready' => Ready
  BY DEF BlowExpensiveCaches, clientVars, Ready
<1>6. ShownInv'
  BY <1>5, ShownKept DEF IInv, BlowExpensiveCaches, worldVars, confVars, clientVars
<1>7. NoExpensiveCaches'
  BY <1>0, <1>1 DEF NoExpensiveCaches
<1>8. TimeInv'
  BY <1>0, <1>5, TimeKept DEF IInv, BlowExpensiveCaches, worldVars, confVars, clientVars
<1>. QED BY <1>2, <1>3, <1>4, <1>6, <1>7, <1>8 DEF IInv

\* The file cache has more show files or thumbnails than it had.
LEMMA CacheGrown ==
  ASSUME TypeOK, CachesInv, NoExpensiveCaches, RightCache(file_cache'),
         \A entry \in Range(file_cache') : entry.type # "pixbuf" \/ entry \in Range(file_cache),
         state = "alive",
         UNCHANGED <<pixbuf_cache, disk, filename, file_event, wallpaper, outdated, blow_caches_id>>
  PROVE  CachesInv' /\ NoExpensiveCaches'
<1>1. RightCache(file_cache)'
  BY DEF RightCache, RightEntry, UpToDate, AsSaved, Exists
<1>2. RightPicture(pixbuf_cache)'
  BY DEF CachesInv, RightPicture, UpToDate, AsSaved, Exists
<1>3. Agree(file_cache, pixbuf_cache)'
  BY DEF CachesInv, Agree
<1>4. NoExpensiveCaches'
  BY DEF NoExpensiveCaches
<1>. QED BY <1>1, <1>2, <1>3, <1>4 DEF CachesInv

\* A timeout was set, or not.
LEMMA TimeoutSet ==
  ASSUME TimeInv, TimeoutKept, Ready' => Ready, transitioned_id' = transitioned_id,
         UNCHANGED <<now, filename, shown, pixbuf_cache>>
  PROVE  TimeInv'
<1>1. timeout_id' # None => now <= timeout_id'
  BY DEF TimeoutKept
<1>2. filename \in Shows /\ timeout_id' # None =>
        \E slide \in Range(Show[filename].slides) : timeout_id' <= now + SlideTimeout(slide)
  BY DEF TimeoutKept
<1>3. timeout_id # None => timeout_id' = timeout_id
  BY DEF TimeoutKept
<1>4. filename \in Shows => InTime(pixbuf_cache)'
  BY <1>3 DEF TimeInv, InTime, Lasts
<1>5. filename \in Shows /\ Ready' => InTime(shown.picture)'
  BY <1>3 DEF TimeInv, InTime, Lasts
<1>. QED BY <1>1, <1>2, <1>4, <1>5 DEF TimeInv

LEMMA LookAtShowStep ==
  ASSUME IInv, LookAtShow PROVE IInv'
<1>1. TypeOK /\ CachesInv /\ NoExpensiveCaches /\ TimeInv /\ ShownInv
  BY DEF IInv
<1>2. PICK got : got = AsSlideshow(file_cache, filename)
  OBVIOUS
<1>3. GotRight(file_cache, got, "slideshow", filename)
  BY <1>1, <1>2, BasicTypes, AsSlideshowIsRight DEF CachesInv
<1>4. /\ file_cache' = got.cache /\ state = "alive" /\ state' \in {"alive", "aborted"}
      /\ UNCHANGED <<worldVars, confVars, file_event, timerVars, pixbuf_cache,
                     wallpaper, clientVars, outdated>>
  BY <1>2 DEF LookAtShow, Call
<1>5. TypeOK'
  <2>1. calls' \in 0..MaxCalls
    BY <1>1, CallType DEF LookAtShow
  <2>2. file_cache' \in Seq(Entries) /\ Len(file_cache') < CacheSize
    BY <1>3, <1>4 DEF GotRight
  <2>. QED BY <1>1, <1>4, <2>1, <2>2 DEF worldVars, confVars, timerVars, clientVars, TypeOK
<1>6. Ready' => Ready
  BY <1>4 DEF Ready, timerVars, clientVars
<1>7. WallpaperInv' /\ EditsInv'
  BY <1>4, WallpaperKept DEF IInv, worldVars
<1>8. CachesInv' /\ NoExpensiveCaches'
  BY <1>1, <1>3, <1>4, CacheGrown DEF GotRight, worldVars, confVars, timerVars
<1>9. ShownInv'
  BY <1>1, <1>4, <1>6, ShownKept DEF worldVars, confVars, clientVars
<1>10. TimeInv'
  BY <1>1, <1>4, <1>6, TimeKept DEF worldVars, confVars, timerVars, clientVars
<1>. QED BY <1>5, <1>7, <1>8, <1>9, <1>10 DEF IInv

LEMMA CreateThumbnailStep ==
  ASSUME IInv, NEW frame \in Frames \cup {None}, CreateThumbnail(frame) PROVE IInv'
<1>1. TypeOK /\ CachesInv /\ NoExpensiveCaches /\ TimeInv /\ ShownInv
  BY DEF IInv
<1>2. /\ Call /\ state = "alive"
      /\ UNCHANGED <<worldVars, confVars, file_event, changed_id, transitioned_id,
                     blow_caches_id, ignore_pending_change, pixbuf_cache,
                     wallpaper, clientVars, outdated>>
  BY DEF CreateThumbnail, Call
<1>3. /\ file_cache \in Seq(Entries) /\ Len(file_cache) < CacheSize /\ RightCache(file_cache)
      /\ filename \in Files \cup {None} /\ now \in Times
  BY <1>1, BasicTypes DEF CachesInv
<1> DEFINE Grown == /\ file_cache' \in Seq(Entries) /\ Len(file_cache') < CacheSize
                    /\ RightCache(file_cache')
                    /\ \A entry \in Range(file_cache') :
                         entry.type # "pixbuf" \/ entry \in Range(file_cache)
<1>4. Grown /\ TimeoutKept /\ timeout_id' \in Nat \cup {None} /\ state' \in {"alive", "aborted", "undefined"}
  <2>1. PICK loaded, show, number, slide, first, second :
          /\ loaded = AsSlideshow(file_cache, filename)
          /\ show = Show[filename]
          /\ number = IF frame = None THEN Current[filename][now] ELSE FrameSlide(show, frame)
          /\ slide = show.slides[number]
          /\ first = AsThumbnail(loaded.cache, slide.file1)
          /\ second = IF slide.fixed THEN first ELSE AsThumbnail(first.cache, slide.file2)
    OBVIOUS
  <2>2. \/ /\ file_cache' = AsThumbnail(file_cache, filename).cache
           /\ UNCHANGED <<timeout_id, state>>
        \/ /\ loaded.content # None /\ number # NoSlide
           /\ file_cache' = second.cache
           /\ EnsureTimeout(SlideTimeout(slide))
           /\ UNCHANGED state
        \/ /\ state' = IF frame = None THEN "aborted" ELSE "undefined"
           /\ UNCHANGED <<file_cache, timeout_id>>
    BY <2>1 DEF CreateThumbnail
  <2>3. CASE /\ file_cache' = AsThumbnail(file_cache, filename).cache
             /\ UNCHANGED <<timeout_id, state>>
    <3>1. GotRight(file_cache, AsThumbnail(file_cache, filename), "thumbnail", filename)
      BY <1>1, <1>3, AsThumbnailIsRight
    <3>2. Grown
      BY <2>3, <3>1 DEF GotRight
    <3>. QED BY <1>1, <1>2, <2>3, <3>2, BasicTypes, TimeoutUnchanged
  <2>4. CASE /\ loaded.content # None /\ number # NoSlide
             /\ file_cache' = second.cache
             /\ EnsureTimeout(SlideTimeout(slide))
             /\ UNCHANGED state
    <3>1. GotRight(file_cache, loaded, "slideshow", filename)
      BY <1>1, <1>3, <2>1, AsSlideshowIsRight
    <3>2. filename \in Shows
      BY <2>4, <3>1, GotContent
    <3>3. number \in DOMAIN show.slides
      BY <1>3, <2>1, <2>4, <3>2, SlideNumbers
    <3>4. /\ slide \in Range(Show[filename].slides)
          /\ slide.file1 \in Files \cup {None} /\ slide.file2 \in Files \cup {None}
      BY <2>1, <3>2, <3>3, SlidesType DEF Range
    <3>5. GotRight(loaded.cache, first, "thumbnail", slide.file1)
      <4>1. loaded.cache \in Seq(Entries) /\ Len(loaded.cache) < CacheSize /\ RightCache(loaded.cache)
        BY <3>1 DEF GotRight
      <4>. QED BY <1>1, <2>1, <3>4, <4>1, AsThumbnailIsRight
    <3>6. /\ first.cache \in Seq(Entries) /\ Len(first.cache) < CacheSize /\ RightCache(first.cache)
          /\ \A entry \in Range(first.cache) : entry.type # "pixbuf" \/ entry \in Range(file_cache)
      BY <3>1, <3>5 DEF GotRight
    <3>7. Grown
      <4>1. CASE slide.fixed
        BY <2>1, <2>4, <3>6, <4>1
      <4>2. CASE ~slide.fixed
        <5>1. GotRight(first.cache, second, "thumbnail", slide.file2)
          BY <1>1, <2>1, <3>4, <3>6, <4>2, AsThumbnailIsRight
        <5>2. \A entry \in Range(second.cache) : entry.type # "pixbuf" \/ entry \in Range(file_cache)
          BY <3>6, <5>1 DEF GotRight
        <5>. QED BY <2>4, <5>1, <5>2 DEF GotRight
      <4>. QED BY <4>1, <4>2
    <3>8. TimeoutKept /\ timeout_id' \in Nat \cup {None}
      BY <1>1, <2>4, <3>2, <3>4, SlideIsTimed
    <3>. QED BY <1>2, <2>4, <3>7, <3>8
  <2>5. CASE /\ state' = IF frame = None THEN "aborted" ELSE "undefined"
             /\ UNCHANGED <<file_cache, timeout_id>>
    <3>1. Grown
      BY <1>3, <2>5
    <3>. QED BY <1>1, <2>5, <3>1, BasicTypes, TimeoutUnchanged
  <2> HIDE DEF Grown
  <2>. QED BY <2>2, <2>3, <2>4, <2>5
<1>5. TypeOK'
  <2>1. calls' \in 0..MaxCalls
    BY <1>1, <1>2, CallType
  <2>. QED BY <1>1, <1>2, <1>4, <2>1 DEF worldVars, confVars, clientVars, TypeOK
<1>6. Ready' => Ready
  BY <1>2 DEF Ready, clientVars
<1>7. WallpaperInv' /\ EditsInv'
  BY <1>2, WallpaperKept DEF IInv, worldVars
<1>8. CachesInv' /\ NoExpensiveCaches'
  BY <1>1, <1>2, <1>4, CacheGrown DEF worldVars, confVars
<1>9. ShownInv'
  BY <1>1, <1>2, <1>6, ShownKept DEF worldVars, confVars, clientVars
<1>10. TimeInv'
  BY <1>1, <1>2, <1>4, <1>6, TimeoutSet DEF worldVars, confVars, clientVars
<1>. QED BY <1>5, <1>7, <1>8, <1>9, <1>10 DEF IInv

LEMMA RewriteStep ==
  ASSUME IInv, NEW file \in Files, Rewrite(file) PROVE IInv'
<1>1. TypeOK /\ EditsInv /\ WallpaperInv /\ CachesInv /\ NoExpensiveCaches /\ TimeInv /\ ShownInv
  BY DEF IInv
<1>2. /\ edits' = edits + 1 /\ edits < MaxEdits /\ state = "alive"
      /\ file_event' = (file_event \/ file = filename)
      /\ UNCHANGED <<now, calls, confVars, timerVars, cacheVars, wallpaper,
                     clientVars, state, outdated>>
  BY DEF Rewrite
<1>3. /\ \A f \in Files \ {file} : disk'[f] = disk[f]
      /\ disk'[file].mtime \in {now, Gone}
      /\ disk'[file].version \in {disk[file].version, disk[file].version + 1}
      /\ disk' \in [Files -> [version : Versions, mtime : Times \cup {Gone}]]
  <2>1. disk[file].version \in Nat /\ edits \in Nat /\ disk[file].version <= edits /\ now \in Times
    BY <1>1, BackgroundAssumption DEF TypeOK, EditsInv, Versions
  <2>2. disk[file].version \in Versions /\ disk[file].version + 1 \in Versions
    BY <1>1, <1>2, <2>1, BackgroundAssumption DEF TypeOK, Versions
  <2>3. CASE disk' = [disk EXCEPT ![file] = [version |-> @.version + 1, mtime |-> now]]
    BY <1>1, <2>1, <2>2, <2>3 DEF TypeOK
  <2>4. CASE disk' = [disk EXCEPT ![file].mtime = Gone]
    <3>1. disk[file] \in [version : Versions, mtime : Times \cup {Gone}]
      BY <1>1 DEF TypeOK
    <3>2. disk' = [disk EXCEPT ![file] = [disk[file] EXCEPT !.mtime = Gone]]
      BY <2>4
    <3>3. [disk[file] EXCEPT !.mtime = Gone] \in [version : Versions, mtime : Times \cup {Gone}]
      BY <3>1
    <3>. QED BY <1>1, <3>1, <3>2, <3>3 DEF TypeOK
  <2>. QED BY <2>3, <2>4 DEF Rewrite
<1>4. TypeOK'
  <2>1. edits' \in 0..MaxEdits
    BY <1>1, <1>2, BackgroundAssumption DEF TypeOK
  <2>. QED BY <1>1, <1>2, <1>3, <2>1 DEF confVars, timerVars, cacheVars, clientVars, TypeOK
<1>5. EditsInv'
  <2>1. edits \in Nat /\ \A f \in Files : disk[f].version \in Nat
    BY <1>1, BackgroundAssumption DEF TypeOK, Versions
  <2>. QED BY <1>1, <1>2, <1>3, <2>1 DEF EditsInv
<1>6. WallpaperInv'
  <2> SUFFICES ASSUME wallpaper # None
      PROVE  (/\ wallpaper.mtime <= now
              /\ ~outdated =>
                   /\ wallpaper.content.scaled = wallpaper.placement
                   /\ Exists(wallpaper.file) /\ disk[wallpaper.file].mtime < wallpaper.mtime =>
                        wallpaper.content.version = disk[wallpaper.file].version)'
    BY <1>2 DEF WallpaperInv
  <2>1. wallpaper.file \in Files /\ wallpaper.mtime \in Nat /\ now \in Nat
    BY <1>1 DEF TypeOK, Files, Times
  <2>2. CASE wallpaper.file = file
    <3>1. disk'[file].mtime = Gone \/ ~(disk'[file].mtime < wallpaper.mtime)
      BY <1>1, <1>3, <2>1 DEF WallpaperInv
    <3>. QED BY <1>1, <1>2, <2>2, <3>1 DEF WallpaperInv, Exists
  <2>3. CASE wallpaper.file # file
    BY <1>1, <1>2, <1>3, <2>1, <2>3 DEF WallpaperInv, Exists
  <2>. QED BY <2>2, <2>3
<1>7. \A version : UpToDate(version) => UpToDate(version)'
  <2> SUFFICES ASSUME NEW version, UpToDate(version), ~outdated', ~file_event', filename # None, Exists(filename)'
      PROVE  version = disk'[filename].version
    BY <1>2 DEF UpToDate, confVars
  <2>1. filename \in Files \ {file} /\ ~file_event
    BY <1>1, <1>2 DEF TypeOK
  <2>2. disk'[filename] = disk[filename] /\ ~outdated /\ filename' = filename
    BY <1>2, <1>3, <2>1 DEF confVars
  <2>3. Exists(filename)
    BY <2>2 DEF Exists
  <2>. QED BY <2>1, <2>2, <2>3 DEF UpToDate
<1>8. \A scaled : AsSaved(scaled) => AsSaved(scaled)'
  BY <1>2 DEF AsSaved, confVars
<1>9. CachesInv'
  <2>1. RightCache(file_cache)'
    BY <1>1, <1>2, <1>7, <1>8 DEF CachesInv, RightCache, RightEntry, confVars, cacheVars
  <2>2. RightPicture(pixbuf_cache)'
    BY <1>1, <1>2, <1>7, <1>8 DEF CachesInv, RightPicture, confVars, cacheVars
  <2>3. Agree(file_cache, pixbuf_cache)'
    BY <1>1, <1>2 DEF CachesInv, Agree, confVars, cacheVars
  <2>. QED BY <2>1, <2>2, <2>3 DEF CachesInv
<1>10. Ready' => Ready /\ filename # file
  BY <1>2 DEF Ready, timerVars, clientVars
<1>11. ShownInv'
  <2> SUFFICES ASSUME Ready'
      PROVE (/\ shown.file = filename /\ shown.color = color /\ shown.placement = placement
             /\ shown.picture # None /\ ~outdated =>
                 /\ shown.picture.file = filename
                 /\ Exists(filename) => shown.picture.version = disk[filename].version
                 /\ Exists(filename) /\ filename \in Images =>
                      shown.picture.scaled \in {"original", placement})'
    BY DEF ShownInv
  <2>1. Ready /\ filename # file
    BY <1>10
  <2>2. shown.picture # None /\ ~outdated => filename \in Files
    <3>1. shown.picture # None => shown.picture.file \in Files
      BY <1>1 DEF TypeOK, Pictures
    <3>. QED BY <1>1, <2>1, <3>1 DEF ShownInv
  <2>3. filename \in Files => disk'[filename] = disk[filename]
    BY <1>3, <2>1
  <2>. QED BY <1>1, <1>2, <2>1, <2>2, <2>3 DEF ShownInv, Exists, confVars, clientVars
<1>12. NoExpensiveCaches'
  BY <1>1, <1>2 DEF NoExpensiveCaches, confVars, timerVars, cacheVars
<1>13. TimeInv'
  BY <1>1, <1>2, <1>10, TimeKept DEF confVars, timerVars, cacheVars, clientVars
<1>. QED BY <1>4, <1>5, <1>6, <1>9, <1>11, <1>12, <1>13 DEF IInv

LEMMA TickStep ==
  ASSUME IInv, Tick PROVE IInv'
<1>1. TypeOK /\ EditsInv /\ WallpaperInv /\ CachesInv /\ NoExpensiveCaches /\ TimeInv /\ ShownInv
  BY DEF IInv
<1>2. /\ now' = now + 1 /\ now < MaxTime /\ ~transitioned_id
      /\ timeout_id # None => timeout_id > now
      /\ UNCHANGED <<disk, edits, calls, confVars, file_event, timerVars, cacheVars, wallpaper,
                     clientVars, state, outdated>>
  BY DEF Tick
<1>3. now \in Nat /\ now' \in Times /\ now' \in Nat /\ MaxTime \in Nat
  BY <1>1, <1>2, BackgroundAssumption DEF TypeOK, Times
<1>4. TypeOK'
  BY <1>1, <1>2, <1>3 DEF confVars, timerVars, cacheVars, clientVars, TypeOK
<1>5. WallpaperInv'
  <2>1. wallpaper # None => wallpaper.mtime \in Nat
    BY <1>1 DEF TypeOK, Times
  <2>. QED BY <1>1, <1>2, <1>3, <2>1 DEF WallpaperInv, Exists
<1>6. EditsInv'
  BY <1>1, <1>2 DEF EditsInv
<1>7. CachesInv'
  BY <1>1, <1>2, CachesKept DEF confVars, cacheVars
<1>8. Ready' => Ready
  BY <1>2 DEF Ready, timerVars, clientVars
<1>9. ShownInv'
  BY <1>1, <1>2, <1>8, ShownKept DEF confVars, clientVars
<1>10. NoExpensiveCaches'
  BY <1>1, <1>2 DEF NoExpensiveCaches, confVars, timerVars, cacheVars
<1>11. TimeInv'
  <2>1. timeout_id \in Nat \cup {None} /\ timeout_id' = timeout_id
    BY <1>1, <1>2 DEF TypeOK, timerVars
  <2>2. timeout_id' # None => now' <= timeout_id'
    BY <1>2, <1>3, <2>1
  <2>3. CASE filename \notin Shows
    BY <1>2, <2>2, <2>3 DEF TimeInv, confVars
  <2>4. CASE filename \in Shows
    <3>1. \A s \in Range(Show[filename].slides) : SlideTimeout(s) \in Nat
      BY <2>4, SlidesType DEF Range
    <3>2. timeout_id' # None =>
            \E slide \in Range(Show[filename].slides) : timeout_id' <= now' + SlideTimeout(slide)
      <4> SUFFICES ASSUME timeout_id # None
          PROVE  \E slide \in Range(Show[filename].slides) : timeout_id <= now' + SlideTimeout(slide)
        BY <2>1
      <4>1. PICK slide \in Range(Show[filename].slides) : timeout_id <= now + SlideTimeout(slide)
        BY <1>1, <2>4 DEF TimeInv
      <4>2. SlideTimeout(slide) \in Nat /\ timeout_id \in Nat
        BY <2>1, <3>1
      <4>. QED BY <1>2, <1>3, <4>1, <4>2
    <3>3. ASSUME NEW picture \in Pictures, InTime(picture), picture # None
          PROVE  \E slide \in Range(Show[filename].slides) :
                   /\ now' <= picture.made + SlideTimeout(slide)
                   /\ \/ MaxTime <= picture.made + SlideTimeout(slide)
                      \/ timeout_id # None /\ timeout_id <= picture.made + SlideTimeout(slide)
      <4>1. PICK slide \in Range(Show[filename].slides) : Lasts(picture, slide)
        BY <3>3 DEF InTime
      <4>2. SlideTimeout(slide) \in Nat /\ picture.made \in Nat
        BY <3>1, <3>3 DEF Pictures, Times
      <4>3. PICK end \in Nat : end = picture.made + SlideTimeout(slide)
        BY <4>2
      <4>4. MaxTime <= end \/ (timeout_id # None /\ timeout_id <= end)
        BY <1>2, <4>1, <4>3 DEF Lasts
      <4>5. now' <= end
        BY <1>2, <1>3, <2>1, <4>4
      <4>. QED BY <4>3, <4>4, <4>5
    <3>4. pixbuf_cache \in Pictures \cup {None} /\ shown.picture \in Pictures \cup {None}
      BY <1>1 DEF TypeOK
    <3>5. InTime(pixbuf_cache)'
      <4> SUFFICES ASSUME pixbuf_cache # None PROVE InTime(pixbuf_cache)'
        BY <1>2 DEF InTime, cacheVars
      <4>1. InTime(pixbuf_cache) /\ pixbuf_cache \in Pictures
        BY <1>1, <2>4, <3>4 DEF TimeInv
      <4>. QED BY <1>2, <2>1, <3>3, <4>1 DEF InTime, Lasts, cacheVars, confVars
    <3>6. Ready' => InTime(shown.picture)'
      <4> SUFFICES ASSUME Ready', shown.picture # None PROVE InTime(shown.picture)'
        BY <1>2 DEF InTime, clientVars
      <4>1. InTime(shown.picture) /\ shown.picture \in Pictures
        BY <1>1, <1>8, <2>4, <3>4 DEF TimeInv
      <4>. QED BY <1>2, <2>1, <3>3, <4>1 DEF InTime, Lasts, clientVars, confVars
    <3>. QED BY <1>2, <2>2, <3>2, <3>5, <3>6 DEF TimeInv, confVars
  <2>. QED BY <2>3, <2>4
<1>. QED BY <1>4, <1>5, <1>6, <1>7, <1>9, <1>10, <1>11 DEF IInv

LEMMA IsDarkStep ==
  ASSUME IInv, IsDark PROVE IInv'
<1>1. TypeOK /\ CachesInv /\ TimeInv /\ ShownInv
  BY DEF IInv
<1>2. /\ Call /\ state = "alive"
      /\ UNCHANGED <<worldVars, filename, placement, color, file_event, changed_id,
                     transitioned_id, ignore_pending_change, wallpaper, clientVars, outdated>>
  BY DEF IsDark, Call
<1>3. PictureType /\ PictureRight /\ PictureBlown /\ TimeoutKept /\ PictureTimed
  <2>1. GotPicture
    BY <1>2, GetPixbuf DEF IsDark
  <2>. QED BY <2>1 DEF GotPicture
<1>4. TypeOK'
  <2>1. calls' \in 0..MaxCalls
    BY <1>1, <1>2, CallType
  <2>. QED BY <1>1, <1>2, <1>3, <2>1 DEF PictureType, worldVars, clientVars, TypeOK
<1>5. WallpaperInv' /\ EditsInv'
  BY <1>2, WallpaperKept DEF IInv, worldVars
<1>6. CachesInv'
  <2>1. RightCache(file_cache')
    BY <1>3 DEF PictureRight
  <2>2. RightPicture(pixbuf_cache') /\ Agree(file_cache', pixbuf_cache')
    BY <1>3 DEF PictureRight
  <2>3. RightCache(file_cache)'
    BY <1>2, <2>1 DEF RightCache, RightEntry, UpToDate, AsSaved, Exists, worldVars
  <2>4. RightPicture(pixbuf_cache)'
    BY <1>2, <2>2 DEF RightPicture, UpToDate, AsSaved, Exists, worldVars
  <2>5. Agree(file_cache, pixbuf_cache)'
    BY <1>2, <2>2 DEF Agree
  <2>. QED BY <2>3, <2>4, <2>5 DEF CachesInv
<1>7. Ready' => Ready
  BY <1>2 DEF Ready, clientVars
<1>8. ShownInv'
  BY <1>1, <1>2, <1>7, ShownKept DEF worldVars, clientVars
<1>9. NoExpensiveCaches'
  BY <1>2, <1>3 DEF PictureBlown, NoExpensiveCaches
<1>10. TimeInv'
  <2>1. /\ timeout_id # None => timeout_id' = timeout_id
        /\ timeout_id' # None => now <= timeout_id'
    BY <1>3 DEF TimeoutKept
  <2>2. filename \in Shows /\ timeout_id' # None =>
          \E slide \in Range(Show[filename].slides) : timeout_id' <= now + SlideTimeout(slide)
    BY <1>3 DEF TimeoutKept
  <2>3. filename \in Shows => InTime(pixbuf_cache)'
    BY <1>2, <1>3 DEF PictureTimed, Timed, InTime, Lasts, worldVars
  <2>4. filename \in Shows /\ Ready' => InTime(shown.picture)'
    BY <1>1, <1>2, <1>7, <2>1 DEF TimeInv, InTime, Lasts, worldVars, clientVars
  <2>. QED BY <1>2, <2>1, <2>2, <2>3, <2>4 DEF TimeInv, worldVars
<1>. QED BY <1>4, <1>5, <1>6, <1>8, <1>9, <1>10 DEF IInv

\* refresh_cache_file leaves the wallpaper, drops it, or saves the picture; and
\* a picture that is not for this placement is not taken for one.
LEMMA Refreshed ==
  ASSUME TypeOK, NEW picture \in Pictures \cup {None}, RightPicture(picture),
         RefreshCacheFile(picture)
  PROVE  /\ wallpaper' \in [file : Images, placement : Placements, content : Contents,
                            mtime : Times] \cup {None}
         /\ outdated' \in BOOLEAN /\ (~outdated' => ~outdated)
         /\ \/ UNCHANGED <<wallpaper, outdated>>
            \/ /\ picture # None /\ filename \in Images /\ Exists(filename)
               /\ wallpaper' # None =>
                    /\ wallpaper'.file = filename /\ wallpaper'.placement = placement
                    /\ wallpaper'.mtime = now
               /\ ~outdated' =>
                    /\ picture.version = disk[filename].version
                    /\ picture.scaled \in {"original", placement}
                    /\ wallpaper' # None =>
                         /\ wallpaper'.content.version = disk[filename].version
                         /\ wallpaper'.content.scaled = placement
         /\ ~outdated' /\ picture # None /\ filename \in Images /\ Exists(filename) =>
              picture.scaled \in {"original", placement}
<1>1. /\ wallpaper \in [file : Images, placement : Placements, content : Contents,
                        mtime : Times] \cup {None}
      /\ outdated \in BOOLEAN /\ placement \in Placements /\ now \in Times
  BY DEF TypeOK
<1>2. CASE picture = None \/ filename \notin Images \/ ~Exists(filename)
            \/ WallpaperIsValid(filename)
  <2>1. UNCHANGED <<wallpaper, outdated>>
    BY <1>2 DEF RefreshCacheFile
  <2>2. ~outdated /\ picture # None /\ filename \in Images /\ Exists(filename) =>
          picture.scaled \in {"original", placement}
    BY <1>2 DEF RightPicture, AsSaved, WallpaperIsValid
  <2>. QED BY <1>1, <2>1, <2>2
<1>3. CASE ~(picture = None \/ filename \notin Images \/ ~Exists(filename)
              \/ WallpaperIsValid(filename))
  <2>1. PICK scaled : scaled = Rescaled(picture)
    OBVIOUS
  <2>2. picture \in Pictures /\ picture.version \in Versions /\ picture.scaled \in Scales
    BY <1>3 DEF Pictures
  <2>3. /\ scaled \in Scales
        /\ scaled = placement => picture.scaled \in {"original", placement}
    BY <1>1, <2>1, BackgroundAssumption DEF Rescaled, Scales
  <2>4. PICK new : new = [file |-> filename, placement |-> placement,
                          content |-> [version |-> picture.version, scaled |-> scaled],
                          mtime |-> now]
    OBVIOUS
  <2>5. new \in [file : Images, placement : Placements, content : Contents, mtime : Times]
    BY <1>1, <1>3, <2>2, <2>3, <2>4 DEF Contents
  <2>6. /\ wallpaper' \in {None, new}
        /\ outdated' = (outdated \/ picture.version # disk[filename].version
                                 \/ scaled # placement)
    BY <1>3, <2>1, <2>4 DEF RefreshCacheFile
  <2>7. /\ new.file = filename /\ new.placement = placement /\ new.mtime = now
        /\ new.content.version = picture.version /\ new.content.scaled = scaled
    BY <2>4
  <2>8. ~outdated' => ~outdated /\ picture.version = disk[filename].version /\ scaled = placement
    BY <2>6
  <2>9. outdated' \in BOOLEAN
    BY <2>6
  <2> HIDE <2>4
  <2>. QED BY <1>3, <2>3, <2>5, <2>6, <2>7, <2>8, <2>9
<1>. QED BY <1>2, <1>3

LEMMA DrawStep ==
  ASSUME IInv, NEW surface \in BOOLEAN, NEW ignore \in BOOLEAN, Draw(surface, ignore)
  PROVE  IInv'
<1>1. TypeOK /\ EditsInv /\ WallpaperInv /\ CachesInv /\ TimeInv /\ ShownInv
  BY DEF IInv
<1>2. /\ state = "alive"
      /\ ignore_pending_change' = (ignore \/ ignore_pending_change)
      /\ due' = FALSE
      /\ shown' = [file |-> filename, color |-> color, placement |-> placement,
                   picture |-> pixbuf_cache']
      /\ UNCHANGED <<worldVars, calls, filename, placement, color, file_event,
                     changed_id, transitioned_id>>
  BY DEF Draw
<1>3. PictureType /\ PictureRight /\ PictureBlown /\ TimeoutKept /\ PictureTimed
  <2>1. PICK cached :
          /\ cached = IF surface /\ pixbuf_cache # None /\ pixbuf_cache.scaled = "original"
                      THEN None ELSE pixbuf_cache
          /\ GetPixbufForSize(cached, 0)
    BY DEF Draw
  <2>2. cached = pixbuf_cache \/ cached = None
    BY <2>1
  <2>3. GotPicture
    BY <1>2, <2>1, <2>2, GetPixbuf
  <2>. QED BY <2>3 DEF GotPicture
<1>4. PICK picture : picture = pixbuf_cache'
  OBVIOUS
<1>5. picture \in Pictures \cup {None} /\ RightPicture(picture) /\ RefreshCacheFile(picture)
  BY <1>3, <1>4 DEF PictureType, PictureRight, Draw
<1>6. /\ wallpaper' \in [file : Images, placement : Placements, content : Contents,
                         mtime : Times] \cup {None}
      /\ outdated' \in BOOLEAN /\ (~outdated' => ~outdated)
  BY <1>1, <1>5, Refreshed
<1>7. \/ UNCHANGED <<wallpaper, outdated>>
      \/ /\ picture # None /\ filename \in Images /\ Exists(filename)
         /\ wallpaper' # None =>
              /\ wallpaper'.file = filename /\ wallpaper'.placement = placement
              /\ wallpaper'.mtime = now
         /\ ~outdated' =>
              /\ picture.version = disk[filename].version
              /\ picture.scaled \in {"original", placement}
              /\ wallpaper' # None =>
                   /\ wallpaper'.content.version = disk[filename].version
                   /\ wallpaper'.content.scaled = placement
  BY <1>1, <1>5, Refreshed
<1>8. ~outdated' /\ picture # None /\ filename \in Images /\ Exists(filename) =>
        picture.scaled \in {"original", placement}
  BY <1>1, <1>5, Refreshed
<1>9. TypeOK'
  <2>1. shown' \in [file : Files \cup {None}, color : Colors, placement : Placements,
                    picture : Pictures \cup {None}]
    BY <1>1, <1>2, <1>4, <1>5 DEF TypeOK
  <2>2. ignore_pending_change' \in BOOLEAN
    BY <1>2
  <2>. QED BY <1>1, <1>2, <1>3, <1>6, <2>1, <2>2 DEF PictureType, worldVars, TypeOK
<1>10. EditsInv'
  BY <1>1, <1>2 DEF EditsInv, worldVars
<1>11. WallpaperInv'
  <2>1. CASE UNCHANGED <<wallpaper, outdated>>
    BY <1>1, <1>2, <2>1, WallpaperKept DEF worldVars
  <2>2. CASE ~(UNCHANGED <<wallpaper, outdated>>)
    <3>1. now \in Nat
      BY <1>1 DEF TypeOK, Times
    <3>. QED BY <1>2, <1>7, <2>2, <3>1 DEF WallpaperInv, worldVars
  <2>. QED BY <2>1, <2>2
<1>12. \A version : UpToDate(version) => UpToDate(version)'
  BY <1>2, <1>6 DEF UpToDate, Exists, worldVars
<1>13. \A scaled : AsSaved(scaled) /\ (picture # None /\ filename \in Images => scaled = picture.scaled)
                     => AsSaved(scaled)'
  BY <1>2, <1>6, <1>7 DEF AsSaved
<1>14. CachesInv'
  <2>1. RightCache(file_cache') /\ RightPicture(picture) /\ Agree(file_cache', picture)
    BY <1>3, <1>4 DEF PictureRight
  <2>2. filename' = filename
    BY <1>2
  <2>3. ASSUME NEW entry \in Range(file_cache')
        PROVE  RightEntry(entry)'
    <3>1. RightEntry(entry)
      BY <2>1 DEF RightCache
    <3>2. entry.type # "thumbnail" /\ entry.file = filename => UpToDate(entry.content.version)'
      BY <1>12, <3>1 DEF RightEntry
    <3>3. entry.type = "pixbuf" /\ entry.file = filename => AsSaved(entry.content.scaled)'
      BY <1>13, <2>1, <3>1 DEF RightEntry, Agree
    <3>. QED BY <2>2, <3>1, <3>2, <3>3 DEF RightEntry
  <2>4. RightCache(file_cache)'
    BY <2>1, <2>3 DEF RightCache
  <2>5. RightPicture(pixbuf_cache)'
    BY <1>4, <1>12, <1>13, <2>1, <2>2 DEF RightPicture
  <2>6. Agree(file_cache, pixbuf_cache)'
    BY <1>4, <2>1, <2>2 DEF Agree
  <2>. QED BY <2>4, <2>5, <2>6 DEF CachesInv
<1>15. ShownInv'
  <2> SUFFICES ASSUME Ready'
      PROVE (/\ shown.file = filename /\ shown.color = color /\ shown.placement = placement
             /\ shown.picture # None /\ ~outdated =>
                 /\ shown.picture.file = filename
                 /\ Exists(filename) => shown.picture.version = disk[filename].version
                 /\ Exists(filename) /\ filename \in Images =>
                      shown.picture.scaled \in {"original", placement})'
    BY DEF ShownInv
  <2>1. shown'.picture = picture /\ shown'.file = filename /\ shown'.color = color /\ shown'.placement = placement
    BY <1>2, <1>4
  <2>2. ~file_event
    BY <1>2 DEF Ready
  <2>3. picture # None => picture.file = filename /\ filename \in Files
    BY <1>5 DEF RightPicture, Pictures
  <2>4. picture # None /\ ~outdated /\ Exists(filename) => picture.version = disk[filename].version
    BY <1>5, <2>2, <2>3, BackgroundAssumption DEF RightPicture, UpToDate
  <2>. QED BY <1>2, <1>6, <1>8, <2>1, <2>3, <2>4 DEF Exists, worldVars
<1>16. NoExpensiveCaches'
  BY <1>2, <1>3 DEF PictureBlown, NoExpensiveCaches
<1>17. TimeInv'
  <2>1. timeout_id' # None => now <= timeout_id'
    BY <1>3 DEF TimeoutKept
  <2>2. filename \in Shows /\ timeout_id' # None =>
          \E slide \in Range(Show[filename].slides) : timeout_id' <= now + SlideTimeout(slide)
    BY <1>3 DEF TimeoutKept
  <2>3. filename \in Shows => InTime(pixbuf_cache)'
    BY <1>2, <1>3 DEF PictureTimed, Timed, InTime, Lasts, worldVars
  <2>4. shown'.picture = pixbuf_cache'
    BY <1>2
  <2>5. filename \in Shows => InTime(shown.picture)'
    BY <2>3, <2>4 DEF InTime, Lasts
  <2>. QED BY <1>2, <2>1, <2>2, <2>3, <2>5 DEF TimeInv, worldVars
<1>. QED BY <1>9, <1>10, <1>11, <1>14, <1>15, <1>16, <1>17 DEF IInv

-----------------------------------------------------------------------------
(* The theorems.                                                           *)

LEMMA InitIsRight == Init => IInv
<1> SUFFICES ASSUME Init PROVE IInv
  OBVIOUS
<1>1. TypeOK
  <2>1. 0 \in Times /\ 0 \in Versions /\ 0 \in 0..MaxEdits /\ 0 \in 0..MaxCalls
    BY BackgroundAssumption DEF Times, Versions
  <2>2. disk \in [Files -> [version : Versions, mtime : Times \cup {Gone}]]
    BY <2>1 DEF Init
  <2>3. file_cache \in Seq(Entries) /\ Len(file_cache) < CacheSize
    BY BackgroundAssumption DEF Init
  <2>. QED BY <2>1, <2>2, <2>3 DEF Init, TypeOK
<1>2. EditsInv /\ WallpaperInv
  BY DEF Init, EditsInv, WallpaperInv
<1>3. Range(file_cache) = {} /\ pixbuf_cache = None
  BY DEF Init, Range
<1>4. CachesInv
  BY <1>3 DEF CachesInv, RightCache, RightPicture, Agree
<1>5. ShownInv
  BY DEF Init, ShownInv
<1>6. NoExpensiveCaches
  BY <1>3 DEF NoExpensiveCaches
<1>7. TimeInv
  BY DEF Init, TimeInv, InTime
<1>. QED BY <1>1, <1>2, <1>4, <1>5, <1>6, <1>7 DEF IInv

LEMMA Stutters == IInv /\ UNCHANGED vars => IInv'
<1> SUFFICES ASSUME IInv, UNCHANGED vars PROVE IInv'
  OBVIOUS
<1>1. TypeOK'
  BY DEF IInv, vars, worldVars, confVars, timerVars, cacheVars, clientVars, TypeOK
<1>2. WallpaperInv' /\ EditsInv'
  BY WallpaperKept DEF IInv, vars, worldVars
<1>3. CachesInv'
  BY CachesKept DEF IInv, vars, worldVars, confVars, cacheVars
<1>4. Ready' => Ready
  BY DEF vars, timerVars, clientVars, Ready
<1>5. ShownInv'
  BY <1>4, ShownKept DEF IInv, vars, worldVars, confVars, clientVars
<1>6. NoExpensiveCaches'
  BY DEF IInv, vars, confVars, timerVars, cacheVars, NoExpensiveCaches
<1>7. TimeInv'
  BY <1>4, TimeKept DEF IInv, vars, worldVars, confVars, timerVars, cacheVars, clientVars
<1>. QED BY <1>1, <1>2, <1>3, <1>5, <1>6, <1>7 DEF IInv

\* Whatever the client, the main loop and the disk do, and in whichever order
\* (gnome-bg.c:237-2421), the caches, the timer and what is drawn are right.
THEOREM InvariantHolds == Spec => []IInv
<1>1. IInv /\ [Next]_vars => IInv'
  BY DrawStep, IsDarkStep, LookAtShowStep, FinalizeStep, CreateThumbnailStep, SetRgbaStep,
     SetPlacementStep, SetFilenameStep, FileChangedStep, DoChangedStep, OnTimeoutStep,
     DoTransitionedStep, BlowStep, RewriteStep, TickStep, Stutters DEF Next
<1>. QED BY <1>1, InitIsRight, PTL DEF Spec

\* The state keeps its types, and bound_cache keeps the file cache below its
\* size, however many files a show names.
THEOREM TypeCorrect == Spec => []TypeOK
<1>1. IInv => TypeOK
  BY DEF IInv
<1>. QED BY <1>1, InvariantHolds, PTL

\* What the client drew last is what was asked for, from the file as it is, in
\* every state in which nothing is on its way to it: for any images, shows and
\* clients, whatever is cached in memory and on disk.
THEOREM WhatIsShownIsUpToDate == Spec => []ShownIsUpToDate
<1>1. IInv => ShownIsUpToDate
  BY DEF IInv, ShownInv, Ready, ShownIsUpToDate, Settled
<1>. QED BY <1>1, InvariantHolds, PTL

\* No slide stays for longer than the longest timeout of its show, whatever the
\* document's durations are.
THEOREM SlidesGoOn == Spec => []NoSlideStaysTooLong
<1>1. IInv => NoSlideStaysTooLong
  BY DEF IInv, TimeInv, InTime, Lasts, Ready, NoSlideStaysTooLong, Settled
<1>. QED BY <1>1, InvariantHolds, PTL

\* The pictures of an image are gone once the idle handler has run.
THEOREM CachesAreBlown == Spec => []NoExpensiveCaches
<1>1. IInv => NoExpensiveCaches
  BY DEF IInv
<1>. QED BY <1>1, InvariantHolds, PTL
=============================================================================
