------------------------------- MODULE QrCode -------------------------------
(***************************************************************************)
(* Making QR codes (gnome-qr/gnome-qr.c): asynchronous requests, each      *)
(* carried out by a thread as a GTask that returns on cancel, and the      *)
(* bytes that a thread paints, row by row.                                 *)
(*                                                                         *)
(* The qrcodegen library says which modules of the code of a text are      *)
(* dark, or that the text does not fit.  Sizes are numbers without a       *)
(* width: those of the code whose picture fits an int.                     *)
(***************************************************************************)
EXTENDS Integers, SequencesExt, FiniteSetsExt

CONSTANTS Texts, Levels,
          Modules,    \* the rows of the code of a text at a level, or <<>>
          None

ASSUME QrCodeAssumption ==
  \A text \in Texts, level \in Levels :
    /\ Modules[text][level] \in Seq(Seq(BOOLEAN))
    /\ \A row \in Range(Modules[text][level]) : Len(row) = Len(Modules[text][level])

VARIABLES tasks,        \* the requests in the order they were made
          completions   \* those whose callback the main loop is to call

taskVars == <<tasks, completions>>

Formats == {"a-8", "g-8", "rgb-888", "rgba-8888"}
Color == [red : 0..255, green : 0..255, blue : 0..255, alpha : 0..255]
Request == [text : Texts, requested_size : Nat, bg_color : Color \cup {None},
            fg_color : Color \cup {None}, format : Formats, ecc : Levels]

White == [red |-> 255, green |-> 255, blue |-> 255, alpha |-> 255]
Black == [red |-> 0, green |-> 0, blue |-> 0, alpha |-> 255]
Transparent == [red |-> 0, green |-> 0, blue |-> 0, alpha |-> 0]

-----------------------------------------------------------------------------
(* gnome_qr_generate_qr_code_sync                                          *)

\* The bytes of one pixel.
Pixel(color, format) ==
  CASE format = "a-8" -> <<color.alpha>>
    [] format = "g-8" -> <<color.red>>
    [] format = "rgb-888" -> <<color.red, color.green, color.blue>>
    [] format = "rgba-8888" -> <<color.red, color.green, color.blue, color.alpha>>

\* No color, or one that the format can hold.
ColorValid(color, format) ==
  color # None =>
    /\ format = "g-8" => color.red = color.green /\ color.red = color.blue
    /\ format \in {"g-8", "rgb-888"} => color.alpha = 255

Background(request) ==
  IF request.bg_color # None THEN request.bg_color
  ELSE IF request.format = "a-8" THEN Transparent ELSE White
Foreground(request) == IF request.fg_color # None THEN request.fg_color ELSE Black

Code(request) == Modules[request.text][request.ecc]
QrSize(request) == Len(Code(request))

\* ceil (requested_size / qr_size), and at least 1.
BlockSize(request) ==
  Max({1, (request.requested_size + QrSize(request) - 1) \div QrSize(request)})
PixelSize(request) == QrSize(request) * BlockSize(request)

Repeat(bytes, times) == FlattenSeq([i \in 1..times |-> bytes])

\* What the loop over rows appends for one of them.
PaintedRow_Once(request, row) ==
  FlattenSeq([column \in 1..QrSize(request) |->
    Repeat(Pixel(IF Code(request)[row][column] THEN Foreground(request)
                 ELSE Background(request), request.format), BlockSize(request))])
PaintedRow(request, row) ==
  LET Block(column) ==
        Repeat(Pixel(IF Code(request)[row][column] THEN Foreground(request)
                     ELSE Background(request), request.format),
               BlockSize(request))
  IN Repeat(FlattenSeq([column \in 1..QrSize(request) |-> Block(column)]),
            BlockSize(request))

-----------------------------------------------------------------------------
(* The task of a request.  When it is cancelled it returns at once, and    *)
(* what its thread makes of it later is dropped.                           *)

NewTask(owner, request) ==
  [owner |-> owner, request |-> request, phase |-> "queued", row |-> 0,
   pixels |-> <<>>, result |-> "none", cancelled |-> FALSE, returned |-> FALSE,
   answer |-> "none"]

\* g_cancellable_cancel, for a task number or None.
WithCancelled(task) ==
  IF task = None THEN tasks
  ELSE [tasks EXCEPT ![task].cancelled = TRUE, ![task].returned = TRUE]
CompletionsWith(task) ==
  IF task = None \/ tasks[task].returned THEN completions
  ELSE Append(completions, task)

\* g_task_return_pointer, or g_task_return_error when the pixels are freed.
Return(task, result) ==
  /\ tasks' = [tasks EXCEPT ![task].phase = "done", ![task].returned = TRUE,
                            ![task].result = result, ![task].row = 0,
                            ![task].pixels = IF result = "pixels" THEN @ ELSE <<>>]
  /\ completions' = CompletionsWith(task)

\* g_task_propagate_pointer
Answer(task) == IF tasks[task].cancelled THEN "cancelled" ELSE tasks[task].result

-----------------------------------------------------------------------------
(* The steps of the thread of a task                                       *)

Start(task) ==
  /\ tasks[task].phase = "queued"
  /\ IF tasks[task].cancelled
     THEN Return(task, "cancelled")
     ELSE /\ tasks' = [tasks EXCEPT ![task].phase = "encoding"]
          /\ UNCHANGED completions

EncodeText_NoErrorReturned(task) ==
  /\ tasks[task].phase = "encoding"
  /\ IF Code(tasks[task].request) # <<>>
     THEN /\ tasks' = [tasks EXCEPT ![task].phase = "painting"]
          /\ UNCHANGED completions
     ELSE /\ tasks' = [tasks EXCEPT ![task].phase = "done"]
          /\ UNCHANGED completions
EncodeText(task) ==
  /\ tasks[task].phase = "encoding"
  /\ IF Code(tasks[task].request) = <<>> THEN Return(task, "failed")
     ELSE IF tasks[task].cancelled THEN Return(task, "cancelled")
     ELSE /\ tasks' = [tasks EXCEPT ![task].phase = "painting"]
          /\ UNCHANGED completions

PaintRow(task) ==
  /\ tasks[task].phase = "painting"
  /\ tasks[task].row < QrSize(tasks[task].request)
  /\ IF tasks[task].cancelled THEN Return(task, "cancelled")
     ELSE /\ tasks' = [tasks EXCEPT ![task].row = @ + 1,
                         ![task].pixels =
                           @ \o PaintedRow(tasks[task].request, tasks[task].row + 1)]
          /\ UNCHANGED completions

Painted(task) ==
  /\ tasks[task].phase = "painting"
  /\ tasks[task].row = QrSize(tasks[task].request)
  /\ Return(task, IF tasks[task].cancelled THEN "cancelled" ELSE "pixels")

Thread(task) == Start(task) \/ EncodeText(task) \/ PaintRow(task) \/ Painted(task)

-----------------------------------------------------------------------------
(* What the bytes must be                                                  *)

\* Each byte, by its place among those of a square of PixelSize pixels a side,
\* each the color of the module that it lies in.
Drawn(request) ==
  LET side == PixelSize(request)
      Module(pixel) == Code(request)[((pixel \div side) \div BlockSize(request)) + 1]
                                    [((pixel % side) \div BlockSize(request)) + 1]
      width == Len(Pixel(White, request.format))
  IN [byte \in 1..(side * side * width) |->
        Pixel(IF Module((byte - 1) \div width) THEN Foreground(request)
              ELSE Background(request), request.format)[((byte - 1) % width) + 1]]
=============================================================================
