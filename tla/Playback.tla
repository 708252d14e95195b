------------------------------ MODULE Playback ------------------------------
(***************************************************************************)
(* A game as it is played: run_game from the choice of a game to the       *)
(* return to the menu, with the pause, the screen switched off and the     *)
(* start animation, over the sound of Audio and the panel of Display.      *)
(*                                                                         *)
(* The catalogue, the emulator, the saves and the input are those of other *)
(* modules: here a game can be opened or not, a frame can be emulated or   *)
(* not, a save can fail and a pause be asked for at any iteration.  How    *)
(* many frames are drawn and how many blocks of sound are due follows the  *)
(* clock; any choice is taken.                                             *)
(***************************************************************************)
EXTENDS Audio, Display

VARIABLES
  at,           \* where the game loop, or the caller of run_game, is
  then,         \* where it goes on when a stop of the sound is over
  enabled,      \* audio_enabled
  setting,      \* s_sound_enabled && s_volume > 0
  game,         \* the session: of a colour game, played already
  asleep,       \* bsp_audio_sleep was called
  abandoned     \* history: a stop was not awaited to its end

loop_vars == <<at, then, enabled, setting, game, asleep, abandoned>>
vars == <<audio_vars, display_vars, loop_vars>>

InGame == {"clear", "hint", "play", "sound", "full", "resend", "draw"}
Stopping == {"stop", "flush", "wait"}
Places ==
  {"page", "menu", "loading", "boot", "frames", "chime", "chiming", "begin", "paused", "pause",
   "resume", "dark", "blank", "asleep"} \union InGame \union Stopping

NoSound == UNCHANGED audio_vars
NoPicture == UNCHANGED display_vars
KeepsLoop == UNCHANGED <<then, enabled, setting, game, asleep, abandoned>>
To(place) == at' = place /\ KeepsLoop

\* gb_audio_stop is called, to go on at next.
Stops(next) ==
  at' = "stop" /\ then' = next /\ UNCHANGED <<enabled, setting, game, asleep, abandoned>>

(* Mutant: an exit of the loop leaves the sound on. *)
Leaves_Sounding == To("page")
\* An exit of the loop: the sound is stopped, the session destroyed.
Leaves == IF enabled THEN Stops("page") ELSE To("page")

\* A drawing of the caller begins, or has ended.
Calls(kind, frame) == BeginDrawing(kind, frame) /\ UNCHANGED loop_vars /\ NoSound
Succeeds(next) == Returns("drawn") /\ To(next) /\ NoSound
Fails == Returns("failed") /\ NoSound
Either(next) == (Returns("drawn") \/ Returns("failed")) /\ To(next) /\ NoSound

---------------------------------------------------------------------------
\* The menus, and run_game up to boot_animation. A page that cannot be drawn
\* is passed over.
Page == at = "page" /\ (Calls("page", Zero) \/ Either("menu"))

\* The scrolling footer of a menu.
Footer == at = "menu" /\ (Calls("hint", Zero) \/ Either("menu"))

Menu ==
  /\ at = "menu" /\ ui = NotDrawing /\ NoSound /\ NoPicture
  /\ \/ To("page")
     \/ /\ setting' = ~setting /\ at' = "page"
        /\ UNCHANGED <<then, enabled, game, asleep, abandoned>>
     \/ /\ at' = "loading" /\ game' \in [colour : BOOLEAN, played : {FALSE}]
        /\ UNCHANGED <<then, enabled, setting, asleep, abandoned>>

\* The game cannot be opened, no controller is there, or it starts.
Loading ==
  /\ at = "loading"
  /\ \/ Calls("page", Zero)
     \/ \E next \in {"page", "paused", "boot"} : Either(next)

BootClears ==
  at = "boot" /\ (Calls("page", Zero) \/ Succeeds("frames") \/ (Fails /\ To("page")))
BootFrames ==
  /\ at = "frames"
  /\ \/ \E f \in Frames : Calls("boot", f)
     \/ Succeeds("frames") \/ Succeeds("chime") \/ (Fails /\ To("page"))

\* The start sound is written by the loop itself.
Chime ==
  /\ NoPicture /\ UNCHANGED <<s_queue, s_task, s_failed, s_stop_requested, s_stopped>>
  /\ \/ at = "chime" /\ ~setting /\ To("begin") /\ UNCHANGED volume
     \/ at = "chime" /\ setting /\ To("chiming") /\ volume' = TRUE
     \/ at = "chime" /\ setting /\ To("page") /\ volume' = FALSE
     \/ at = "chiming" /\ (To("begin") \/ To("page")) /\ volume' = FALSE

\* The sound begins, at first and after a pause, as the settings are now.
Begins ==
  /\ at \in {"begin", "resume"} /\ NoPicture
  /\ enabled' = setting /\ UNCHANGED <<then, setting, game, asleep, abandoned>>
  /\ \/ ~setting /\ NoSound /\ at' = "clear"
     \/ setting /\ StartSucceeds /\ at' = "clear"
     \/ setting /\ StartFails /\ at' = "page"

\* prepare_game_screen
Clears == at = "clear" /\ (Calls("page", Zero) \/ Succeeds("hint") \/ (Fails /\ Leaves))
Hints ==
  /\ at = "hint"
  /\ \/ Calls("hint", Zero)
     \/ /\ Returns("drawn") /\ NoSound
        /\ at' = "play" /\ game' = [game EXCEPT !.played = TRUE]
        /\ UNCHANGED <<then, enabled, setting, asleep, abandoned>>
     \/ Fails /\ Leaves

---------------------------------------------------------------------------
\* An iteration of run_game's loop.

\* Select or OK was held, the controller is gone.
PauseAsked ==
  /\ at = "play" /\ NoSound /\ NoPicture
  /\ IF enabled THEN Stops("paused if stopped") ELSE To("paused")

\* The save of every half minute failed.
AutosaveFails ==
  /\ at = "play" /\ NoSound /\ NoPicture
  /\ IF enabled THEN Stops("paused") ELSE To("paused")

\* The display is broken, or the emulator is.
DisplayBroken == at = "play" /\ job.free /\ job.error /\ Leaves /\ NoSound /\ NoPicture
StepFails == at = "play" /\ Leaves /\ NoSound /\ NoPicture
StepFrame ==
  /\ at = "play" /\ ~(job.free /\ job.error)
  /\ To("sound") /\ NoSound /\ NoPicture

\* The blocks of sound that are due.
SoundBroken == at = "sound" /\ enabled /\ Stops("page") /\ NoSound /\ NoPicture
SoundSubmitted ==
  /\ at = "sound" /\ enabled /\ ~s_failed /\ NoPicture
  /\ \E sent \in BOOLEAN : SendOutcome(sent) /\ To(IF sent THEN "sound" ELSE "full")
OldestDropped == at = "full" /\ DropOldest /\ To("resend") /\ NoPicture
SoundResent ==
  /\ at = "resend" /\ NoPicture
  /\ (\E sent \in BOOLEAN : SendOutcome(sent)) /\ To("sound")
SoundDone == at = "sound" /\ To("draw") /\ NoSound /\ NoPicture

\* The frame is shown if the display was idle and its turn has come.
FrameSkipped == at = "draw" /\ ui = NotDrawing /\ To("play") /\ NoSound /\ NoPicture
FrameSubmitted ==
  /\ at = "draw" /\ ~game.colour /\ NoSound
  /\ (\E f \in Frames : Submit(f)) /\ To("play")
FrameColoured ==
  /\ at = "draw" /\ game.colour
  /\ (job.free /\ Calls("colour", Zero)) \/ Succeeds("play") \/ (Fails /\ Leaves)

Play ==
  \/ PauseAsked \/ AutosaveFails \/ DisplayBroken \/ StepFails \/ StepFrame
  \/ SoundBroken \/ SoundSubmitted \/ OldestDropped \/ SoundResent \/ SoundDone
  \/ FrameSkipped \/ FrameSubmitted \/ FrameColoured

---------------------------------------------------------------------------
\* gb_audio_stop goes on where it was called.
After(stopped) ==
  /\ at' = CASE then = "paused if stopped" -> IF stopped THEN "paused" ELSE "page"
             [] then = "dark if stopped" -> IF stopped THEN "dark" ELSE "pause"
             [] OTHER -> then
  /\ then' = "page" /\ UNCHANGED <<enabled, setting, game, asleep>>

Stop ==
  /\ NoPicture
  /\ \/ at = "stop" /\ ~s_queue.open /\ After(TRUE) /\ NoSound /\ UNCHANGED abandoned
     \/ at = "stop" /\ StopRequest /\ To("flush")
     \/ at = "flush" /\ StopFlush /\ To("wait")
     \/ at = "wait" /\ StopTaken /\ After(~s_failed) /\ abandoned' = FALSE
     \/ at = "wait" /\ StopTimesOut /\ After(FALSE) /\ abandoned' = TRUE

\* pause_game, entered and left.
Paused == at = "paused" /\ (Calls("page", Zero) \/ Either("pause"))
Pause ==
  /\ at = "pause" /\ NoSound /\ NoPicture
  /\ \/ To("paused")
     \/ To(IF game.played THEN "resume" ELSE "boot")
     \/ IF game.played THEN Leaves ELSE To("page")
     \/ Stops("dark if stopped")
     \/ /\ setting' = ~setting /\ at' = "paused"
        /\ UNCHANGED <<then, enabled, game, asleep, abandoned>>

\* screen_off_loop after its stop of the sound.
SoundSleeps ==
  /\ at = "dark" /\ NoSound /\ NoPicture
  /\ \/ /\ at' = "blank" /\ asleep' = TRUE
        /\ UNCHANGED <<then, enabled, setting, game, abandoned>>
     \/ To("pause")
ScreenOff ==
  /\ at = "blank" /\ NoSound /\ NoPicture
  /\ \/ Idle /\ To("asleep")
     \/ /\ at' = "pause" /\ asleep' = FALSE
        /\ UNCHANGED <<then, enabled, setting, game, abandoned>>
ScreenOn ==
  /\ at = "asleep" /\ NoSound /\ NoPicture
  /\ at' = "pause" /\ asleep' = FALSE
  /\ UNCHANGED <<then, enabled, setting, game, abandoned>>

Loop ==
  \/ Page \/ Footer \/ Menu \/ Loading \/ BootClears \/ BootFrames \/ Chime \/ Begins \/ Clears \/ Hints
  \/ Play \/ Stop \/ Paused \/ Pause \/ SoundSleeps \/ ScreenOff \/ ScreenOn
  \/ CallerDraws /\ UNCHANGED <<audio_vars, loop_vars>>

Init ==
  /\ AudioInit /\ DisplayInit
  /\ at = "page" /\ then = "page" /\ enabled = FALSE /\ setting \in BOOLEAN
  /\ game = [colour |-> FALSE, played |-> FALSE] /\ asleep = FALSE /\ abandoned = FALSE

Next ==
  \/ Loop
  \/ AudioTask /\ UNCHANGED <<display_vars, loop_vars>>
  \/ (FrameTask \/ TransferDone) /\ UNCHANGED <<audio_vars, loop_vars>>

Spec == Init /\ [][Next]_vars

---------------------------------------------------------------------------
\* Properties.
Sounding == s_task \notin {"none", "ended"}

(* There is sound only while a game is played: whichever way the loop is    *)
(* left, to the pause or the menu, the task that writes to the codec has    *)
(* ended and the codec is silent, unless a stop was given up while a write  *)
(* hung. The codec is never put to sleep under a task that writes           *)
(* (game_main.c, run_game and screen_off_loop).                             *)
SoundOnlyInGame ==
  /\ AudioTypes /\ at \in Places /\ {enabled, setting, asleep, abandoned} \subseteq BOOLEAN
  /\ Sounding \/ volume => abandoned \/ at \in InGame \union Stopping \union {"chiming"}
  /\ asleep => ~Sounding
  /\ Sounding /\ at = "chiming" => abandoned

(* A task that still runs has its queue, and whoever waits for it to stop   *)
(* does not wait for a task that itself waits for ever: neither for blocks  *)
(* nor for a stop block that was thrown away. The block that is being       *)
(* submitted finds room after the oldest was dropped, though the task takes *)
(* blocks meanwhile (gb_audio.c, gb_audio_stop and gb_audio_submit).        *)
StopReachesTheTask ==
  /\ s_task # "none" <=> s_queue.open
  /\ at = "wait" /\ s_task \in {"first", "second"} => Waiting > 0
  /\ at = "wait" /\ s_task = "ended" => s_stopped
  /\ at = "resend" => s_queue.blocks < QueueLength

(* What the next frame leaves out is on the panel already: after a drawing  *)
(* that succeeded every strip shows the frame that is remembered, whatever  *)
(* pages, hints and start frames were drawn before and whoever drew them.   *)
(* The strip buffer never has two users. Both as long as no transfer was    *)
(* given up (gb_display.c, gb_display_frame and wait_frame_idle).           *)
DrawnIsShown ==
  ~late =>
    /\ ui.at \in {"idle", "drawn", "failed"} \/ task.at \in {"idle", "drawn", "failed"}
    /\ shown.valid /\ {ui.at, task.at} \intersect {"fill", "send", "await"} = {} =>
         \A r \in 1..Rows : panel[r] = shown.frame[r]
=============================================================================
