------------------------------ MODULE Display ------------------------------
(***************************************************************************)
(* The panel: a frame of the game is copied and drawn by a task of its own *)
(* strip by strip, leaving out the strips that the frame before showed;    *)
(* pages, hints, the frames of the start animation and those of colour     *)
(* games are drawn by the caller.  Both use one strip buffer, and a        *)
(* transfer from it to the panel is over when the panel says so.           *)
(*                                                                         *)
(* A strip of a frame is its contents, those of everything else are not    *)
(* told apart.  Rows 1..Rows are the strips of the game's picture, the     *)
(* next stands for the rest of the panel.  A transfer or a call of the     *)
(* panel driver may fail, and a transfer may take longer than is waited;   *)
(* from then on the token of a late transfer is taken for that of a later  *)
(* one, the buffer is filled while it is read, and what the panel shows is *)
(* no longer followed.                                                     *)
(***************************************************************************)
EXTENDS Naturals

CONSTANTS
  Rows,         \* strips of a frame, 11
  Shades        \* what a strip of a frame may show

ASSUME DisplayAssumption ==
  Rows \in Nat \ {0} /\ Shades # {} /\ {"page", "unknown"} \intersect Shades = {}

Frames == [1..Rows -> Shades]
Outside == Rows + 1
Zero == [r \in 1..Rows |-> CHOOSE s \in Shades : TRUE]

VARIABLES
  panel,        \* what the panel shows
  strip,        \* s_strip
  dma,          \* the row that is being transferred, or 0
  s_done,       \* the semaphore given when a transfer is over
  shown,        \* s_previous_frame and s_previous_valid
  job,          \* s_queued_frame, s_frame_free, the notification, s_frame_error
  task,         \* the frame task: where it is
  ui,           \* the caller's drawing: where it is
  late          \* history: a transfer was not awaited to its end

display_vars == <<panel, strip, dma, s_done, shown, job, task, ui, late>>

NotDrawing == [at |-> "idle"]
Drawing(kind, frame, row) == [at |-> "fill", kind |-> kind, frame |-> frame, row |-> row]

\* Pages and clears cover the panel, a hint or a footer only its edge.
FirstRow(kind) == IF kind = "hint" THEN Outside ELSE 1
LastRow(kind) == IF kind \in {"page", "hint"} THEN Outside ELSE Rows
OfFrame(kind) == kind \in {"game", "boot"}
(* Mutant: a page leaves the remembered frame valid. *)
Invalidates_Colour(kind) == kind = "colour"
Invalidates(kind) == kind \in {"page", "colour"}

---------------------------------------------------------------------------
\* gb_display_frame, gb_display_boot_frame and the others, strip by strip:
\* d is the drawing before, e the drawing after, with what it did to shown.

\* A strip that the panel shows already is passed over.
Unchanged(d) == OfFrame(d.kind) /\ shown.valid /\ shown.frame[d.row] = d.frame[d.row]

Contents(d) == IF OfFrame(d.kind) THEN d.frame[d.row] ELSE "page"

Followed(contents) == IF late THEN "unknown" ELSE contents

Following(d) == [d EXCEPT !.at = "fill", !.row = @ + 1]
Ended(d) == d.row > LastRow(d.kind)

\* The strip buffer is filled.
Fill(d, e) ==
  /\ d.at = "fill" /\ ~Ended(d)
  /\ IF d.row <= Rows /\ Unchanged(d)
     THEN e = Following(d) /\ UNCHANGED strip
     ELSE e = [d EXCEPT !.at = "send"] /\ strip' = Followed(Contents(d))
  /\ UNCHANGED <<panel, dma, s_done, shown, job, late>>

\* esp_lcd_panel_draw_bitmap, which waits for a transfer under way.
Send(d, e) ==
  /\ d.at = "send" /\ dma = 0
  /\ dma' = d.row /\ e = [d EXCEPT !.at = "await"]
  /\ UNCHANGED <<panel, strip, s_done, shown, job, late>>

Await(d, e) ==
  /\ d.at = "await" /\ s_done
  /\ s_done' = FALSE /\ e = Following(d)
  /\ UNCHANGED <<panel, strip, dma, shown, job, late>>

\* The driver refuses the strip, or it is not transferred in time.
Invalid(d) == shown' = IF OfFrame(d.kind) THEN [shown EXCEPT !.valid = FALSE] ELSE shown
DrawFails(d, e) ==
  /\ \/ d.at = "send" /\ UNCHANGED <<panel, strip, late>>
     \/ /\ d.at = "await" /\ ~s_done /\ late' = TRUE
        /\ panel' = [r \in 1..Outside |-> "unknown"] /\ strip' = "unknown"
  /\ e = [at |-> "failed"] /\ Invalid(d)
  /\ UNCHANGED <<dma, s_done, job>>

DrawEnds(d, e) ==
  /\ d.at = "fill" /\ Ended(d) /\ e = [at |-> "drawn"]
  /\ shown' = IF OfFrame(d.kind) THEN [valid |-> TRUE, frame |-> d.frame] ELSE shown
  /\ UNCHANGED <<panel, strip, dma, s_done, job, late>>

Draws(d, e) == Fill(d, e) \/ Send(d, e) \/ Await(d, e) \/ DrawFails(d, e) \/ DrawEnds(d, e)

\* transfer_done: the panel has taken what the buffer holds by now.
TransferDone ==
  /\ dma # 0
  /\ panel' = [panel EXCEPT ![dma] = strip] /\ dma' = 0 /\ s_done' = TRUE
  /\ UNCHANGED <<strip, shown, job, task, ui, late>>

---------------------------------------------------------------------------
\* frame_task.
FrameNotified ==
  /\ task.at = "idle" /\ job.notified
  /\ job' = [job EXCEPT !.notified = FALSE] /\ task' = Drawing("game", job.frame, 1)
  /\ UNCHANGED <<panel, strip, dma, s_done, shown, ui, late>>
FrameDraws == task.at \in {"fill", "send", "await"} /\ Draws(task, task') /\ UNCHANGED ui
FrameEnds ==
  /\ task.at \in {"drawn", "failed"} /\ task' = NotDrawing
  /\ job' = [job EXCEPT !.free = TRUE, !.error = @ \/ task.at = "failed"]
  /\ UNCHANGED <<panel, strip, dma, s_done, shown, ui, late>>
FrameTask == FrameNotified \/ FrameDraws \/ FrameEnds

---------------------------------------------------------------------------
\* The caller's operations.

\* wait_frame_idle: in time and without an error of the task, or not.
Idle == job.free /\ ~job.error
NotIdle == (job.free /\ job.error) \/ (~job.free /\ task.at = "await" /\ ~s_done)

\* gb_display_ui, _clear, _lines, _gamepad_test: "page"; _footer, _game_hint:
\* "hint"; _color_frame: "colour"; _boot_frame: "boot".
BeginDrawing(kind, frame) ==
  /\ ui = NotDrawing
  /\ \/ /\ Idle /\ ui' = Drawing(kind, frame, FirstRow(kind))
        /\ shown' = IF Invalidates(kind) THEN [shown EXCEPT !.valid = FALSE] ELSE shown
     \/ NotIdle /\ ui' = [at |-> "failed"] /\ UNCHANGED shown
  /\ UNCHANGED <<panel, strip, dma, s_done, job, task, late>>
CallerDraws == ui.at \in {"fill", "send", "await"} /\ Draws(ui, ui') /\ UNCHANGED task
Returns(result) ==
  /\ ui.at = result /\ ui' = NotDrawing
  /\ UNCHANGED <<panel, strip, dma, s_done, shown, job, task, late>>

\* gb_display_submit_frame: not queued, an error, or queued.
Submit(frame) ==
  /\ job.free /\ ~job.error
  /\ job' = [job EXCEPT !.free = FALSE, !.notified = TRUE, !.frame = frame]
  /\ UNCHANGED <<panel, strip, dma, s_done, shown, task, ui, late>>

DisplayInit ==
  /\ panel = [r \in 1..Outside |-> "page"] /\ strip = "page" /\ dma = 0 /\ s_done = FALSE
  /\ shown = [valid |-> FALSE, frame |-> Zero]
  /\ job = [frame |-> Zero, free |-> TRUE, notified |-> FALSE, error |-> FALSE]
  /\ task = NotDrawing /\ ui = NotDrawing /\ late = FALSE
=============================================================================
