----------------------------- MODULE SlideShow -----------------------------
(***************************************************************************)
(* A slide show (gnome-bg-slide-show.c): what the parser makes of a        *)
(* document, and which slide is on at a given time.                        *)
(*                                                                         *)
(* A document is its start time and its static and transition elements,    *)
(* each with the numbers that its <duration> elements hold (none, one or   *)
(* several) and the images it names; one size of each.  Durations are      *)
(* whole seconds, and none is negative.                                    *)
(***************************************************************************)
EXTENDS Integers, SequencesExt, FiniteSetsExt

CONSTANTS MaxUint,    \* G_MAXUINT, "only one slide"
          FadeSteps   \* 64 steps of a transition

ASSUME SlideShowAssumption == MaxUint \in Nat /\ FadeSteps \in Nat \ {0}

NoSlide == 0

-----------------------------------------------------------------------------
(* The parser                                                              *)

Sum(numbers) == FoldSeq(LAMBDA x, y : x + y, 0, numbers)

\* A <duration> sets that of the slide, and adds to that of the show.
Duration(element) == IF element.durations = <<>> THEN 0 ELSE Last(element.durations)
Slide(element) == [fixed |-> element.fixed, duration |-> Duration(element),
                   file1 |-> element.file1, file2 |-> element.file2]
TotalDuration(elements) ==
  Sum([i \in DOMAIN elements |-> Sum(elements[i].durations)])

\* parse_file_contents, for a document that has slides.
Parse(document) ==
  LET elements == document.elements
      only == Len(elements) = 1
  IN [start_time |-> document.start_time,
      total_duration |-> IF only THEN MaxUint ELSE TotalDuration(elements),
      slides |-> [i \in DOMAIN elements |->
                    IF only THEN [Slide(elements[i]) EXCEPT !.duration = MaxUint]
                    ELSE Slide(elements[i])]]

-----------------------------------------------------------------------------
(* Which slide                                                             *)

\* The seconds since the show began its present round; -1 stands for the NaN
\* that fmod makes of a total duration of 0.
Delta(show, now) ==
  IF show.total_duration = 0 THEN -1
  ELSE (now - show.start_time) % show.total_duration

Elapsed(show, i) == Sum([k \in 1..(i - 1) |-> show.slides[k].duration])

\* gnome_bg_slide_show_get_current_slide: NoSlide is its g_assert_not_reached.
CurrentSlide(show, now) ==
  LET delta == Delta(show, now)
      candidates == {i \in DOMAIN show.slides :
                       /\ delta >= 0
                       /\ Elapsed(show, i) + show.slides[i].duration > delta}
  IN IF candidates = {} THEN NoSlide ELSE Min(candidates)

\* gnome_bg_slide_show_get_slide counts only the slides that are fixed.
FrameSlide(show, frame) ==
  LET frames == {i \in DOMAIN show.slides :
                   /\ show.slides[i].fixed
                   /\ Cardinality({k \in 1..(i - 1) : show.slides[k].fixed}) = frame}
  IN IF frames = {} THEN NoSlide ELSE Min(frames)

\* get_slide_timeout, cut to whole seconds by its callers.
SlideTimeout(slide) ==
  IF slide.fixed THEN slide.duration ELSE slide.duration \div FadeSteps
=============================================================================
