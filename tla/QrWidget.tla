------------------------------ MODULE QrWidget ------------------------------
(***************************************************************************)
(* GnomeQrWidget (gnome-qr-gtk/gnome-qr-widget.c): a widget that shows the *)
(* QR code of its text, made in a thread whenever the text or the error    *)
(* correction level changes.  An application makes codes of its own beside *)
(* it, and cancels them.                                                   *)
(*                                                                         *)
(* g_object_new sets the text, and then the level from its first value to  *)
(* its default: two of the calls that are modelled.  Its size and its      *)
(* alternative text do not touch the code and are left out.                *)
(***************************************************************************)
EXTENDS QrCode

CONSTANTS Empty,        \* NULL, or the text with nothing in it
          FirstLevel,   \* the level of zeroed memory
          Requests,     \* what the application asks for
          MaxTasks,     \* bound: how many codes are asked for
          MaxRequests   \* bound: how many of them by the application

ASSUME QrWidgetAssumption ==
  /\ Empty \notin Texts /\ FirstLevel \in Levels /\ {MaxTasks, MaxRequests} \subseteq Nat
  /\ None \notin Nat /\ Requests \subseteq Request
  /\ \A request \in Requests :
       /\ ColorValid(request.bg_color, request.format)
       /\ ColorValid(request.fg_color, request.format)

VARIABLES text, ecc_level,
          texture,       \* what is shown, or None
          cancellable,   \* the task it is of, or None
          disposed

widgetVars == <<text, ecc_level, texture, cancellable, disposed>>
vars == <<taskVars, widgetVars>>

WidgetRequest(string, level) ==
  [text |-> string, requested_size |-> 0, bg_color |-> None, fg_color |-> None,
   format |-> "g-8", ecc |-> level]
AllRequests ==
  Requests \cup {WidgetRequest(string, level) : string \in Texts, level \in Levels}

\* The right picture of each request that can have one.
Picture ==
  [request \in {r \in AllRequests : Code(r) # <<>>} |->
     [size |-> PixelSize(request), pixels |-> Drawn(request)]]
Fits(string, level) == string # Empty /\ Modules[string][level] # <<>>
Texture(string, level) == Picture[WidgetRequest(string, level)]
Results == {"none", "pixels", "failed", "cancelled"}

TypeOK ==
  /\ Len(tasks) <= MaxTasks
  /\ \A task \in DOMAIN tasks :
       /\ tasks[task].owner \in {"widget", "application"}
       /\ tasks[task].request \in AllRequests
       /\ tasks[task].phase \in {"queued", "encoding", "painting", "done"}
       /\ tasks[task].row \in 0..QrSize(tasks[task].request)
       /\ tasks[task].result \in Results /\ tasks[task].answer \in Results
       /\ {tasks[task].cancelled, tasks[task].returned} \subseteq BOOLEAN
       /\ tasks[task].pixels \in Seq(0..255)
  /\ completions \in Seq(DOMAIN tasks) /\ IsInjective(completions)
  /\ text \in Texts \cup {Empty} /\ ecc_level \in Levels
  /\ texture \in Range(Picture) \cup {None}
  /\ cancellable \in DOMAIN tasks \cup {None}
  /\ disposed \in BOOLEAN

-----------------------------------------------------------------------------
(* The widget                                                              *)

\* gnome_qr_widget_update, once the text or the level is set.
Update_NoCancel ==
  /\ UNCHANGED completions
  /\ IF text' = Empty
     THEN tasks' = tasks /\ cancellable' = None /\ texture' = None
     ELSE /\ tasks' = Append(tasks, NewTask("widget", WidgetRequest(text', ecc_level')))
          /\ cancellable' = Len(tasks) + 1
          /\ UNCHANGED texture
Update_KeepsTexture ==
  /\ completions' = CompletionsWith(cancellable)
  /\ IF text' = Empty
     THEN /\ tasks' = WithCancelled(cancellable)
          /\ cancellable' = None
          /\ UNCHANGED texture
     ELSE /\ tasks' = Append(WithCancelled(cancellable),
                             NewTask("widget", WidgetRequest(text', ecc_level')))
          /\ cancellable' = Len(tasks) + 1
          /\ UNCHANGED texture
Update ==
  /\ completions' = CompletionsWith(cancellable)
  /\ IF text' = Empty
     THEN /\ tasks' = WithCancelled(cancellable)
          /\ cancellable' = None
          /\ texture' = None
     ELSE /\ tasks' = Append(WithCancelled(cancellable),
                             NewTask("widget", WidgetRequest(text', ecc_level')))
          /\ cancellable' = Len(tasks) + 1
          /\ UNCHANGED texture

Alive == ~disposed /\ Len(tasks) < MaxTasks

SetText(new) ==
  /\ Alive
  /\ new # text
  /\ text' = new
  /\ UNCHANGED <<ecc_level, disposed>>
  /\ Update

SetEccLevel(new) ==
  /\ Alive
  /\ new # ecc_level
  /\ ecc_level' = new
  /\ UNCHANGED <<text, disposed>>
  /\ Update

Dispose ==
  /\ ~disposed
  /\ disposed' = TRUE
  /\ tasks' = WithCancelled(cancellable)
  /\ completions' = CompletionsWith(cancellable)
  /\ cancellable' = None
  /\ texture' = None
  /\ UNCHANGED <<text, ecc_level>>

Answered(task) ==
  /\ completions # <<>> /\ task = Head(completions)
  /\ completions' = Tail(completions)
  /\ tasks' = [tasks EXCEPT ![task].answer = Answer(task)]

OnQrCodeGenerated_RequestedSize(task) ==
  /\ Answered(task)
  /\ tasks[task].owner = "widget"
  /\ texture' = IF Answer(task) # "pixels" THEN texture
                ELSE [size |-> tasks[task].request.requested_size,
                      pixels |-> tasks[task].pixels]
  /\ UNCHANGED <<text, ecc_level, cancellable, disposed>>
OnQrCodeGenerated(task) ==
  /\ Answered(task)
  /\ tasks[task].owner = "widget"
  /\ texture' = IF Answer(task) # "pixels" THEN texture
                ELSE [size |-> PixelSize(tasks[task].request),
                      pixels |-> tasks[task].pixels]
  /\ UNCHANGED <<text, ecc_level, cancellable, disposed>>

-----------------------------------------------------------------------------
(* The application                                                         *)

GenerateQrCodeAsync(request) ==
  /\ Len(tasks) < MaxTasks
  /\ Cardinality({t \in DOMAIN tasks : tasks[t].owner = "application"}) < MaxRequests
  /\ tasks' = Append(tasks, NewTask("application", request))
  /\ UNCHANGED <<completions, widgetVars>>

Cancel(task) ==
  /\ tasks[task].owner = "application" /\ ~tasks[task].cancelled
  /\ tasks' = WithCancelled(task)
  /\ completions' = CompletionsWith(task)
  /\ UNCHANGED widgetVars

GenerateQrCodeFinish(task) ==
  /\ Answered(task)
  /\ tasks[task].owner = "application"
  /\ UNCHANGED widgetVars

-----------------------------------------------------------------------------
Init ==
  /\ tasks = <<>> /\ completions = <<>>
  /\ text = Empty /\ ecc_level = FirstLevel
  /\ texture = None /\ cancellable = None /\ disposed = FALSE

MainLoop == \E task \in DOMAIN tasks : OnQrCodeGenerated(task) \/ GenerateQrCodeFinish(task)
ThreadStep == \E task \in DOMAIN tasks : Thread(task) /\ UNCHANGED widgetVars

Next ==
  \/ \E new \in Texts \cup {Empty} : SetText(new)
  \/ \E new \in Levels : SetEccLevel(new)
  \/ Dispose
  \/ \E request \in Requests : GenerateQrCodeAsync(request)
  \/ ThreadStep \/ MainLoop
  \/ \E task \in DOMAIN tasks : Cancel(task)

Spec == Init /\ [][Next]_vars

-----------------------------------------------------------------------------
(* Properties                                                              *)

\* The code that a request is answered with is a square at least as large as
\* was asked for, smaller by one pixel a module would not be, and each of its
\* bytes is what the module it lies in, the colors and the format say.
PixelsAreTheModules ==
  \A task \in DOMAIN tasks :
    tasks[task].answer = "pixels" =>
      LET request == tasks[task].request IN
      /\ tasks[task].pixels = Picture[request].pixels
      /\ PixelSize(request) >= request.requested_size
      /\ PixelSize(request) - QrSize(request) <
           Max({1, request.requested_size})

\* Once no code is on its way, the widget shows that of its text at its level,
\* whatever else it was asked for before; nothing if it has no text or is
\* disposed of.  Where the text does not fit, it goes on showing what it did.
ShowsItsText ==
  /\ disposed \/ text = Empty => texture = None
  /\ cancellable # None =>
       CASE tasks[cancellable].answer = "pixels" -> texture = Texture(text, ecc_level)
         [] tasks[cancellable].answer = "failed" -> ~Fits(text, ecc_level)
         [] OTHER -> tasks[cancellable].answer = "none"

\* A code that comes late is never shown: whenever the texture is replaced, it
\* is by that of the text that the widget has then.
NeverShowsAnOldText ==
  [][texture' \notin {texture, None} =>
       Fits(text, ecc_level) /\ texture' = Texture(text, ecc_level)]_vars

\* Each request is answered, whether it succeeds, fails or is cancelled before,
\* while or after its thread works on it: the answer of one that is cancelled, or
\* whose thread is done, was given or is on its way.
NoAnswerIsLost ==
  \A task \in DOMAIN tasks :
    tasks[task].cancelled \/ tasks[task].phase = "done" =>
      tasks[task].answer # "none" \/ task \in Range(completions)
=============================================================================
