--------------------------- MODULE PlaybackProofs ---------------------------
(***************************************************************************)
(* The sound of a game ends with the game and its task can be stopped, for *)
(* any length of the queue and of the start, and whatever is drawn.  What  *)
(* a frame leaves out is on the panel already, for any number of rows and  *)
(* any shades, until a transfer is given up.                               *)
(***************************************************************************)
EXTENDS Playback, TLAPS

Continuations == {"page", "paused", "paused if stopped", "dark if stopped"}

SoundTypes ==
  /\ AudioTypes /\ at \in Places /\ then \in Continuations
  /\ {enabled, setting, asleep, abandoned} \subseteq BOOLEAN

\* The task has a queue as long as it lives, and is heard of at its end.
TaskAndQueue ==
  /\ s_task # "none" <=> s_queue.open
  /\ s_stopped <=> s_task = "ended"
  /\ volume => Sounding \/ at = "chiming"

\* Where there is sound: in the game that asked for it, until it is stopped.
SoundAndPlace ==
  /\ Sounding => abandoned \/ at \in Stopping \/ (at \in InGame /\ enabled)
  /\ at \in InGame /\ enabled => s_queue.open
  /\ at \in {"full", "resend"} => enabled
  /\ at = "resend" => s_queue.blocks < QueueLength

\* What a stop has done by now.
StopUnderWay ==
  /\ at \in {"flush", "wait"} => s_queue.open /\ s_stop_requested
  /\ at = "wait" => s_queue.blocks = 0 /\ (s_task \in {"first", "second"} => s_queue.stop)

\* The codec sleeps without a task.
SleepIsSilent ==
  /\ at \in {"dark", "blank", "asleep"} => s_task = "none"
  /\ asleep => at \in {"blank", "asleep"}

SoundIInv == SoundTypes /\ TaskAndQueue /\ SoundAndPlace /\ StopUnderWay /\ SleepIsSilent

-----------------------------------------------------------------------------
(* The menus are reached in silence. *)
LEMMA SoundInit == Init => SoundIInv
<1> SUFFICES ASSUME Init PROVE SoundIInv
  OBVIOUS
<1>1. /\ s_queue = Closed /\ s_task = "none" /\ at = "page" /\ then = "page"
      /\ s_failed = FALSE /\ s_stop_requested = FALSE /\ s_stopped = FALSE /\ volume = FALSE
      /\ enabled = FALSE /\ setting \in BOOLEAN /\ asleep = FALSE /\ abandoned = FALSE
  BY DEF Init, AudioInit
<1>2. SoundTypes
  BY <1>1 DEF SoundTypes, AudioTypes, TaskPlaces, Places, Continuations
<1>3. TaskAndQueue /\ SoundAndPlace /\ StopUnderWay /\ SleepIsSilent
  BY <1>1 DEF Closed, TaskAndQueue, SoundAndPlace, StopUnderWay, SleepIsSilent, Sounding, InGame,
              Stopping
<1> QED BY <1>2, <1>3 DEF SoundIInv

(* A queue that is open, and one from which a block is taken. *)
LEMMA OpenQueue ==
  ASSUME AudioTypes, s_queue.open
  PROVE  /\ s_queue \in [open : {TRUE}, blocks : 0..QueueLength, stop : BOOLEAN]
         /\ s_queue.blocks \in 0..QueueLength /\ s_queue.stop \in BOOLEAN
<1>1. ~Closed.open
  BY DEF Closed
<1>2. s_queue \in [open : {TRUE}, blocks : 0..QueueLength, stop : BOOLEAN]
  BY <1>1 DEF AudioTypes
<1> QED BY <1>2

LEMMA SendsBlocks ==
  ASSUME AudioTypes, s_queue.open, NEW n \in 0..QueueLength, Sends(n)
  PROVE  /\ s_queue' \in [open : {TRUE}, blocks : 0..QueueLength, stop : BOOLEAN]
         /\ s_queue'.open = TRUE /\ s_queue'.blocks = n /\ s_queue'.stop = s_queue.stop
<1>1. s_queue \in [open : {TRUE}, blocks : 0..QueueLength, stop : BOOLEAN]
  BY OpenQueue
<1>2. s_queue' = [s_queue EXCEPT !.blocks = n]
  BY DEF Sends
<1> QED BY Zenon, <1>1, <1>2

(* The task of the sound, whatever the game does meanwhile. *)
LEMMA TaskStep ==
  ASSUME SoundIInv, AudioTask, UNCHANGED loop_vars
  PROVE  SoundIInv'
<1> USE AudioAssumption
    DEF SoundIInv, SoundTypes, AudioTypes, TaskPlaces, Ends, TaskAndQueue,
        SoundAndPlace, StopUnderWay, SleepIsSilent, Sounding, InGame, Stopping, loop_vars
<1>1. CASE TaskPrefill
  BY <1>1 DEF TaskPrefill
<1>2. CASE TaskTop
  BY <1>2 DEF TaskTop
<1>3. CASE TaskReceives
  <2>1. s_queue.open /\ s_queue.blocks \in 0..QueueLength /\ s_queue.stop \in BOOLEAN
    BY <1>3, OpenQueue DEF TaskReceives
  <2> DEFINE Taken == /\ s_queue.blocks > 0
                      /\ s_queue' = [s_queue EXCEPT !.blocks = @ - 1]
                      /\ s_task' = IF s_task = "first" THEN "second" ELSE "write"
                      /\ UNCHANGED <<s_stopped, volume>>
             Stopped == s_queue.blocks = 0 /\ s_queue.stop /\ s_queue' = Queue(0, FALSE) /\ Ends
  <2>0. /\ s_task \in {"first", "second"} /\ UNCHANGED <<s_failed, s_stop_requested>>
        /\ Taken \/ Stopped
    BY Zenon, <1>3 DEF TaskReceives
  <2>2. CASE Taken
    <3>1. s_queue.blocks - 1 \in 0..QueueLength /\ Sends(s_queue.blocks - 1)
      BY <2>1, <2>2 DEF Sends
    <3>2. /\ s_queue' \in [open : {TRUE}, blocks : 0..QueueLength, stop : BOOLEAN]
          /\ s_queue'.open = TRUE /\ s_queue'.blocks = s_queue.blocks - 1
          /\ s_queue'.stop = s_queue.stop
      BY <2>1, <3>1, SendsBlocks
    <3>3. /\ s_task' = IF s_task = "first" THEN "second" ELSE "write"
          /\ s_task \in {"first", "second"}
          /\ UNCHANGED <<s_failed, s_stop_requested, s_stopped, volume>>
      BY <2>0, <2>2
    <3>4. SoundTypes'
      BY <3>2, <3>3
    <3>5. TaskAndQueue'
      BY <3>2, <3>3
    <3>6. SoundAndPlace'
      BY <2>1, <3>2, <3>3
    <3>7. StopUnderWay'
      BY <2>1, <2>2, <3>2, <3>3
    <3>8. SleepIsSilent'
      BY <3>3
    <3> QED BY <3>4, <3>5, <3>6, <3>7, <3>8
  <2>3. CASE Stopped
    <3>1. /\ s_queue' \in [open : {TRUE}, blocks : 0..QueueLength, stop : BOOLEAN]
          /\ s_queue'.open = TRUE /\ s_queue'.blocks = 0 /\ s_queue'.stop = FALSE
      BY <2>3 DEF Queue
    <3> QED BY <2>0, <2>1, <2>3, <3>1
  <2> QED BY <2>0, <2>2, <2>3
<1>4. CASE TaskWritten
  BY <1>4 DEF TaskWritten
<1>5. CASE TaskWriteFails
  BY <1>5 DEF TaskWriteFails
<1> QED BY <1>1, <1>2, <1>3, <1>4, <1>5 DEF AudioTask

-----------------------------------------------------------------------------
\* The loop goes on without touching the sound, to a place that asks for no
\* more than the last.
QuietMove ==
  /\ UNCHANGED <<audio_vars, enabled, abandoned>>
  /\ at' \in Places /\ then' \in Continuations /\ setting' \in BOOLEAN /\ asleep' \in BOOLEAN
  /\ at' \notin {"flush", "wait", "full", "resend", "dark"} \/ at' = at
  /\ at = "chiming" => at' = at
  /\ at \in Stopping => at' = at
  /\ at \in InGame /\ enabled => at' \in InGame \union {"stop"}
  /\ at' \in InGame => at \in InGame
  /\ at' \in {"blank", "asleep"} => at \in {"dark", "blank", "asleep"}
  /\ asleep' => at' \in {"blank", "asleep"}

LEMMA QuietMoveKeeps ==
  ASSUME SoundIInv, QuietMove PROVE SoundIInv'
<1> USE DEF QuietMove, SoundIInv, audio_vars, InGame, Stopping
<1>1. SoundTypes'
  BY DEF SoundTypes, AudioTypes
<1>2. TaskAndQueue'
  BY DEF TaskAndQueue, Sounding
<1>3. SoundAndPlace'
  BY DEF SoundAndPlace, Sounding
<1>4. StopUnderWay' /\ SleepIsSilent'
  BY DEF StopUnderWay, SleepIsSilent
<1> QED BY <1>1, <1>2, <1>3, <1>4

(* Drawing does not move the loop, *)
LEMMA StaysQuiet ==
  ASSUME SoundIInv, UNCHANGED <<audio_vars, loop_vars>> PROVE QuietMove
BY DEF QuietMove, SoundIInv, SoundTypes, SleepIsSilent, InGame, Stopping, loop_vars

LEMMA CallsQuiet ==
  ASSUME SoundIInv, NEW kind, NEW frame, Calls(kind, frame) PROVE QuietMove
BY StaysQuiet DEF Calls, NoSound

(* a silent place is left for another, *)
Silent == {"page", "menu", "loading", "boot", "frames", "chime", "begin", "paused", "pause"}

LEMMA QuietFacts ==
  ASSUME SoundIInv
  PROVE  /\ then \in Continuations /\ setting \in BOOLEAN /\ asleep \in BOOLEAN
         /\ asleep => at \in {"blank", "asleep"}
BY DEF SoundIInv, SoundTypes, SleepIsSilent

LEMMA ChangesQuiet ==
  ASSUME SoundIInv, at \in Silent, at' \in Silent \union {"stop", "resume"},
         then' \in Continuations, setting' \in BOOLEAN, UNCHANGED <<enabled, asleep, abandoned>>,
         NoSound
  PROVE  QuietMove
<1>1. ~asleep /\ ~asleep' /\ asleep' \in BOOLEAN
  BY QuietFacts DEF Silent
<1>2. at' \in Places
  BY DEF Silent, Places, Stopping
<1> QED BY <1>1, <1>2 DEF QuietMove, NoSound, Silent, InGame, Stopping

LEMMA GoesQuiet ==
  ASSUME SoundIInv, at \in Silent, NEW place \in Silent \union {"stop", "resume"}, To(place), NoSound
  PROVE  QuietMove
BY ChangesQuiet, QuietFacts DEF To, KeepsLoop

LEMMA StopsQuiet ==
  ASSUME SoundIInv, at \in Silent, NEW next \in Continuations, Stops(next), NoSound
  PROVE  QuietMove
BY ChangesQuiet, QuietFacts DEF Stops

(* and the menus, the pause and the iterations of the game are quiet. *)
LEMMA MenusAreQuiet ==
  ASSUME SoundIInv,
         Page \/ Footer \/ Menu \/ Loading \/ BootClears \/ BootFrames \/ Paused \/ Pause
         \/ SoundSleeps \/ ScreenOff \/ ScreenOn
  PROVE  QuietMove
<1>1. CASE Page
  BY <1>1, CallsQuiet, GoesQuiet DEF Page, Either, Silent
<1>2. CASE Footer
  BY <1>2, CallsQuiet, GoesQuiet DEF Footer, Either, Silent
<1>3. CASE Menu
  <2>1. at \in Silent /\ NoSound
    BY <1>3 DEF Menu, Silent
  <2>2. CASE To("page")
    BY <2>1, <2>2, GoesQuiet DEF Silent
  <2>3. CASE ~To("page")
    <3>1. /\ at' \in Silent /\ setting' \in BOOLEAN
          /\ UNCHANGED <<then, enabled, asleep, abandoned>>
      BY <1>3, <2>3, QuietFacts DEF Menu, Silent
    <3> QED BY <2>1, <3>1, ChangesQuiet, QuietFacts
  <2> QED BY <2>2, <2>3
<1>4. CASE Loading
  BY <1>4, CallsQuiet, GoesQuiet DEF Loading, Either, Silent
<1>5. CASE BootClears
  BY <1>5, CallsQuiet, GoesQuiet DEF BootClears, Succeeds, Fails, Silent
<1>6. CASE BootFrames
  BY <1>6, CallsQuiet, GoesQuiet DEF BootFrames, Succeeds, Fails, Silent
<1>7. CASE Paused
  BY <1>7, CallsQuiet, GoesQuiet DEF Paused, Either, Silent
<1>8. CASE Pause
  <2>1. at \in Silent /\ NoSound
    BY <1>8 DEF Pause, Silent
  <2>2. CASE \E place \in Silent \union {"resume"} : To(place)
    BY <2>1, <2>2, GoesQuiet
  <2>3. CASE \E next \in Continuations : Stops(next)
    BY <2>1, <2>3, StopsQuiet
  <2>4. CASE at' = "paused" /\ setting' = ~setting /\ UNCHANGED <<then, enabled, asleep, abandoned>>
    <3>1. at' \in Silent /\ setting' \in BOOLEAN /\ then' \in Continuations
      BY <2>4, QuietFacts DEF Silent
    <3> QED BY <2>1, <2>4, <3>1, ChangesQuiet
  <2> QED BY <1>8, <2>2, <2>3, <2>4 DEF Pause, Leaves, Silent, Continuations
<1>9. CASE SoundSleeps
  <2>1. at = "dark" /\ at' \in {"blank", "pause"} /\ NoSound
    BY <1>9 DEF SoundSleeps, To
  <2>2. then' \in Continuations /\ setting' \in BOOLEAN /\ UNCHANGED <<enabled, abandoned>>
    BY <1>9, QuietFacts DEF SoundSleeps, To, KeepsLoop
  <2>3. asleep' \in BOOLEAN
    BY <1>9, QuietFacts DEF SoundSleeps, To, KeepsLoop
  <2>4. asleep' => at' = "blank"
    BY <1>9, QuietFacts DEF SoundSleeps, To, KeepsLoop
  <2> QED BY <2>1, <2>2, <2>3, <2>4 DEF QuietMove, NoSound, Places, InGame, Stopping
<1>10. CASE ScreenOff
  <2>1. at = "blank" /\ at' \in {"asleep", "pause"} /\ NoSound
    BY <1>10 DEF ScreenOff, To
  <2>2. then' \in Continuations /\ setting' \in BOOLEAN /\ UNCHANGED <<enabled, abandoned>>
    BY <1>10, QuietFacts DEF ScreenOff, To, KeepsLoop
  <2>3. asleep' \in BOOLEAN
    BY <1>10, QuietFacts DEF ScreenOff, To, KeepsLoop
  <2>4. asleep' => at' = "asleep"
    BY <1>10, QuietFacts DEF ScreenOff, To, KeepsLoop
  <2> QED BY <2>1, <2>2, <2>3, <2>4 DEF QuietMove, NoSound, Places, InGame, Stopping
<1>11. CASE ScreenOn
  BY <1>11, QuietFacts DEF ScreenOn, QuietMove, NoSound, Places, InGame, Stopping
<1> QED BY <1>1, <1>2, <1>3, <1>4, <1>5, <1>6, <1>7, <1>8, <1>9, <1>10, <1>11

LEMMA GameIsQuiet ==
  ASSUME SoundIInv,
         Clears \/ Hints \/ PauseAsked \/ AutosaveFails \/ DisplayBroken \/ StepFails \/ StepFrame
         \/ SoundBroken \/ SoundDone \/ FrameSkipped \/ FrameSubmitted \/ FrameColoured
  PROVE  QuietMove
<1>0. /\ then \in Continuations /\ setting \in BOOLEAN /\ asleep \in BOOLEAN
      /\ asleep => at \in {"blank", "asleep"}
  BY DEF SoundIInv, SoundTypes, SleepIsSilent
<1> USE <1>0
    DEF Either, Succeeds, Fails, To, Stops, Leaves, KeepsLoop, NoSound, Places, Continuations,
        InGame, Stopping
<1>1. CASE Clears
  BY <1>1, CallsQuiet DEF Clears, QuietMove
<1>2. CASE Hints
  BY <1>2, CallsQuiet DEF Hints, QuietMove
<1>3. CASE PauseAsked
  BY <1>3 DEF PauseAsked, QuietMove
<1>4. CASE AutosaveFails
  BY <1>4 DEF AutosaveFails, QuietMove
<1>5. CASE DisplayBroken
  BY <1>5 DEF DisplayBroken, QuietMove
<1>6. CASE StepFails
  BY <1>6 DEF StepFails, QuietMove
<1>7. CASE StepFrame
  BY <1>7 DEF StepFrame, QuietMove
<1>8. CASE SoundBroken
  BY <1>8 DEF SoundBroken, QuietMove
<1>9. CASE SoundDone
  BY <1>9 DEF SoundDone, QuietMove
<1>10. CASE FrameSkipped
  BY <1>10 DEF FrameSkipped, QuietMove
<1>11. CASE FrameSubmitted
  BY <1>11 DEF FrameSubmitted, QuietMove
<1>12. CASE FrameColoured
  BY <1>12, CallsQuiet DEF FrameColoured, QuietMove
<1> QED BY <1>1, <1>2, <1>3, <1>4, <1>5, <1>6, <1>7, <1>8, <1>9, <1>10, <1>11, <1>12

-----------------------------------------------------------------------------
(* A queue that is written by the game holds as many blocks as it can. *)
LEMMA SubmitKeeps ==
  ASSUME SoundIInv, at \in {"sound", "full", "resend"}, enabled,
         NEW n \in 0..QueueLength, Sends(n),
         UNCHANGED <<s_task, s_failed, s_stop_requested, s_stopped, volume>>,
         at' \in {"sound", "full", "resend"}, KeepsLoop,
         at' = "resend" => n < QueueLength
  PROVE  SoundIInv'
<1>1. AudioTypes /\ s_queue.open
  BY DEF SoundIInv, SoundTypes, SoundAndPlace, InGame
<1>2. /\ s_queue' \in [open : {TRUE}, blocks : 0..QueueLength, stop : BOOLEAN]
      /\ s_queue'.open = TRUE /\ s_queue'.blocks = n
  BY <1>1, SendsBlocks
<1>3. SoundTypes'
  BY <1>2 DEF SoundIInv, SoundTypes, AudioTypes, KeepsLoop, Places, InGame
<1>4. TaskAndQueue'
  BY <1>1, <1>2 DEF SoundIInv, TaskAndQueue, Sounding
<1>5. SoundAndPlace'
  BY <1>2 DEF SoundIInv, SoundAndPlace, Sounding, KeepsLoop, InGame, Stopping
<1>6. StopUnderWay' /\ SleepIsSilent'
  BY DEF SoundIInv, StopUnderWay, SleepIsSilent, KeepsLoop
<1> QED BY <1>3, <1>4, <1>5, <1>6 DEF SoundIInv

LEMMA BlocksStep ==
  ASSUME SoundIInv, SoundSubmitted \/ OldestDropped \/ SoundResent
  PROVE  SoundIInv'
<1>1. /\ at \in {"sound", "full", "resend"} /\ at' \in {"sound", "full", "resend"} /\ KeepsLoop
      /\ UNCHANGED <<s_task, s_failed, s_stop_requested, s_stopped, volume>>
  BY DEF SoundSubmitted, OldestDropped, SoundResent, SendOutcome, DropOldest, To
<1>2. enabled /\ s_queue.open /\ AudioTypes
  BY <1>1 DEF SoundSubmitted, SoundIInv, SoundTypes, SoundAndPlace, InGame, OldestDropped,
              SoundResent
<1>3. s_queue.blocks \in 0..QueueLength
  BY <1>2, OpenQueue
<1>4. CASE OldestDropped
  <2>1. PICK n \in 0..QueueLength : Sends(n) /\ n < QueueLength
    <3>1. CASE s_queue.blocks = 0
      BY <1>4, <3>1, AudioAssumption DEF OldestDropped, DropOldest
    <3>2. CASE s_queue.blocks # 0
      BY <1>3, <1>4, <3>2, AudioAssumption DEF OldestDropped, DropOldest
    <3> QED BY <3>1, <3>2
  <2> QED BY <1>1, <1>2, <2>1, SubmitKeeps
<1>5. CASE SoundSubmitted \/ SoundResent
  <2>1. at' # "resend"
    BY <1>5 DEF SoundSubmitted, SoundResent, To
  <2>2. PICK sent \in BOOLEAN : SendOutcome(sent)
    BY Zenon, <1>5 DEF SoundSubmitted, SoundResent
  <2>3. PICK n \in 0..QueueLength : Sends(n)
    <3>1. CASE s_queue.blocks < QueueLength
      <4>1. sent
        BY Zenon, <2>2, <3>1 DEF SendOutcome
      <4>2. Sends(s_queue.blocks + 1)
        BY Zenon, <2>2, <4>1 DEF SendOutcome
      <4>3. s_queue.blocks + 1 \in 0..QueueLength
        BY <1>3, <3>1, AudioAssumption
      <4> QED BY Zenon, <4>2, <4>3
    <3>2. CASE ~(s_queue.blocks < QueueLength)
      <4>1. ~sent
        BY Zenon, <2>2, <3>2 DEF SendOutcome
      <4>2. Sends(s_queue.blocks)
        BY Zenon, <2>2, <4>1 DEF SendOutcome
      <4> QED BY Zenon, <1>3, <4>2
    <3> QED BY <3>1, <3>2
  <2> QED BY <1>1, <1>2, <2>1, <2>3, SubmitKeeps
<1> QED BY <1>4, <1>5

(* The start sound: nothing else makes the codec audible meanwhile. *)
LEMMA ChimeStep ==
  ASSUME SoundIInv, Chime
  PROVE  SoundIInv'
<1>1. /\ UNCHANGED <<s_queue, s_task, s_failed, s_stop_requested, s_stopped>> /\ KeepsLoop
      /\ at \in {"chime", "chiming"} /\ at' \in {"chiming", "begin", "page"}
  BY DEF Chime, To
<1>0. volume \in BOOLEAN
  BY DEF SoundIInv, SoundTypes, AudioTypes
<1>2. volume' \in BOOLEAN /\ (volume' => at' = "chiming" \/ (volume /\ at = "chime"))
  <2>1. \/ volume' = volume /\ at = "chime"
        \/ volume' = TRUE /\ at' = "chiming"
        \/ volume' = FALSE
    BY Zenon DEF Chime, To
  <2>2. CASE volume' = volume /\ at = "chime"
    BY Zenon, <1>0, <2>2
  <2>3. CASE volume' = TRUE /\ at' = "chiming"
    BY Zenon, <2>3
  <2>4. CASE volume' = FALSE
    BY Zenon, <2>4
  <2> QED BY Zenon, <2>1, <2>2, <2>3, <2>4
<1>3. SoundTypes'
  BY <1>1, <1>2 DEF SoundIInv, SoundTypes, AudioTypes, KeepsLoop, Places
<1>4. TaskAndQueue'
  BY <1>1, <1>2 DEF SoundIInv, TaskAndQueue, Sounding
<1>5. SoundAndPlace'
  BY <1>1 DEF SoundIInv, SoundAndPlace, Sounding, KeepsLoop, InGame, Stopping
<1>6. StopUnderWay' /\ SleepIsSilent'
  BY <1>1 DEF SoundIInv, StopUnderWay, SleepIsSilent, KeepsLoop
<1> QED BY <1>3, <1>4, <1>5, <1>6 DEF SoundIInv

(* A game, or its rest after a pause, begins. *)
LEMMA BeginsStep ==
  ASSUME SoundIInv, Begins
  PROVE  SoundIInv'
<1>1. /\ at \in {"begin", "resume"} /\ at' \in {"clear", "page"} /\ enabled' = setting
      /\ UNCHANGED <<then, setting, asleep, abandoned>>
  BY DEF Begins
<1>2. /\ SoundTypes /\ TaskAndQueue /\ SoundAndPlace /\ SleepIsSilent /\ AudioTypes
      /\ setting \in BOOLEAN /\ ~asleep
  BY <1>1 DEF SoundIInv, SoundTypes, SleepIsSilent
<1>3. SleepIsSilent' /\ StopUnderWay'
  BY <1>1, <1>2 DEF SleepIsSilent, StopUnderWay
<1>4. CASE UNCHANGED audio_vars /\ (setting => at' = "page")
  <2>1. SoundTypes'
    BY <1>1, <1>2, <1>4 DEF SoundTypes, AudioTypes, audio_vars, Places, InGame
  <2>2. TaskAndQueue' /\ SoundAndPlace'
    BY <1>1, <1>2, <1>4 DEF TaskAndQueue, SoundAndPlace, Sounding, InGame, Stopping, audio_vars
  <2> QED BY <1>3, <2>1, <2>2 DEF SoundIInv
<1>5. CASE setting /\ StartSucceeds /\ at' = "clear"
  <2>1. /\ s_queue' \in [open : {TRUE}, blocks : 0..QueueLength, stop : BOOLEAN]
        /\ s_queue'.open = TRUE
    BY <1>5, AudioAssumption DEF StartSucceeds, Queue
  <2>2. /\ s_task' = "prefill" /\ volume' = TRUE /\ s_failed' = FALSE
        /\ s_stop_requested' = FALSE /\ s_stopped' = FALSE
    BY <1>5 DEF StartSucceeds
  <2>3. SoundTypes'
    BY <1>1, <1>2, <2>1, <2>2 DEF SoundTypes, AudioTypes, TaskPlaces, Places, InGame
  <2>4. TaskAndQueue' /\ SoundAndPlace'
    BY <1>1, <1>5, <2>1, <2>2 DEF TaskAndQueue, SoundAndPlace, Sounding, InGame
  <2> QED BY <1>3, <2>3, <2>4 DEF SoundIInv
<1>6. CASE /\ CanStart /\ volume' = FALSE /\ s_failed' = FALSE /\ s_stop_requested' = FALSE
           /\ UNCHANGED <<s_queue, s_task, s_stopped>> /\ at' = "page"
  <2>1. SoundTypes'
    BY <1>1, <1>2, <1>6 DEF SoundTypes, AudioTypes, Places
  <2>2. TaskAndQueue' /\ SoundAndPlace'
    BY <1>1, <1>2, <1>6 DEF TaskAndQueue, SoundAndPlace, Sounding, InGame, Stopping
  <2> QED BY <1>3, <2>1, <2>2 DEF SoundIInv
<1> QED BY <1>4, <1>5, <1>6 DEF Begins, StartFails, NoSound

(* gb_audio_stop, and where its caller goes on. *)
LEMMA AfterStop ==
  ASSUME SoundIInv, at \in Stopping, NEW stopped \in BOOLEAN, After(stopped)
  PROVE  /\ at' \in {"page", "paused", "pause", "dark"} /\ (at' = "dark" => stopped)
         /\ then' \in Continuations /\ UNCHANGED <<enabled, setting, asleep>> /\ ~asleep
<1>1. then \in Continuations /\ ~asleep
  BY DEF SoundIInv, SoundTypes, SleepIsSilent, Stopping
<1>2. /\ at' \in {"page", "paused", "pause", "dark"} /\ (at' = "dark" => stopped)
      /\ then' = "page" /\ UNCHANGED <<enabled, setting, asleep>>
  BY <1>1 DEF After, Continuations
<1> QED BY <1>1, <1>2 DEF Continuations

(* The task is gone, or goes on without its queue having been closed. *)
LEMMA StoppedKeeps ==
  ASSUME SoundIInv, at \in Stopping, NEW stopped \in BOOLEAN, After(stopped),
         abandoned' \in BOOLEAN,
         s_queue' \in [open : {TRUE}, blocks : 0..QueueLength, stop : BOOLEAN] \union {Closed},
         s_task' \in TaskPlaces,
         {s_failed', s_stop_requested', s_stopped', volume'} \subseteq BOOLEAN,
         s_task' # "none" <=> s_queue'.open, s_stopped' <=> s_task' = "ended",
         volume' => Sounding', Sounding' => abandoned', stopped => s_task' = "none"
  PROVE  SoundIInv'
<1>1. /\ at' \in {"page", "paused", "pause", "dark"} /\ (at' = "dark" => stopped)
      /\ then' \in Continuations /\ UNCHANGED <<enabled, setting, asleep>> /\ ~asleep
  BY AfterStop
<1>2. SoundTypes'
  BY <1>1 DEF SoundIInv, SoundTypes, AudioTypes, Places
<1>3. TaskAndQueue'
  BY DEF TaskAndQueue
<1>4. SoundAndPlace'
  BY <1>1 DEF SoundAndPlace, InGame
<1>5. StopUnderWay' /\ SleepIsSilent'
  BY <1>1 DEF StopUnderWay, SleepIsSilent
<1> QED BY <1>2, <1>3, <1>4, <1>5 DEF SoundIInv

LEMMA StopStep ==
  ASSUME SoundIInv, Stop
  PROVE  SoundIInv'
<1>0. /\ SoundTypes /\ AudioTypes /\ TaskAndQueue /\ SoundAndPlace /\ StopUnderWay /\ SleepIsSilent
      /\ abandoned \in BOOLEAN
  BY DEF SoundIInv, SoundTypes
<1>1. CASE at = "stop" /\ ~s_queue.open /\ After(TRUE) /\ NoSound /\ UNCHANGED abandoned
  <2>1. s_task = "none" /\ at \in Stopping /\ ~volume /\ ~s_stopped
    BY <1>0, <1>1 DEF TaskAndQueue, Sounding, Stopping
  <2>2. /\ s_queue' = s_queue /\ s_task' = s_task /\ s_failed' = s_failed
        /\ s_stop_requested' = s_stop_requested /\ s_stopped' = s_stopped /\ volume' = volume
    BY <1>1 DEF NoSound, audio_vars
  <2>3. ~Sounding' /\ TRUE \in BOOLEAN /\ abandoned' \in BOOLEAN
    BY <1>0, <1>1, <2>1, <2>2 DEF Sounding
  <2>4. /\ s_queue' \in [open : {TRUE}, blocks : 0..QueueLength, stop : BOOLEAN] \union {Closed}
        /\ s_task' \in TaskPlaces
        /\ {s_failed', s_stop_requested', s_stopped', volume'} \subseteq BOOLEAN
    BY <1>0, <2>2 DEF AudioTypes
  <2> QED BY <1>1, <2>1, <2>2, <2>3, <2>4, StoppedKeeps
<1>2. CASE at = "stop" /\ StopRequest /\ To("flush")
  <2>1. /\ s_queue.open /\ s_stop_requested' = TRUE /\ at' = "flush" /\ ~asleep
        /\ UNCHANGED <<s_queue, s_task, s_failed, s_stopped, volume, then, enabled, setting,
                       asleep, abandoned>>
    BY <1>0, <1>2 DEF StopRequest, To, KeepsLoop, SleepIsSilent
  <2>2. SoundTypes'
    BY <1>0, <2>1 DEF SoundTypes, AudioTypes, Places, Stopping
  <2>3. TaskAndQueue' /\ SoundAndPlace'
    BY <1>0, <1>2, <2>1 DEF TaskAndQueue, SoundAndPlace, Sounding, InGame, Stopping
  <2>4. StopUnderWay' /\ SleepIsSilent'
    BY <2>1 DEF StopUnderWay, SleepIsSilent
  <2> QED BY <2>2, <2>3, <2>4 DEF SoundIInv
<1>3. CASE at = "flush" /\ StopFlush /\ To("wait")
  <2>1. /\ at' = "wait" /\ ~asleep
        /\ s_queue' \in [open : {TRUE}, blocks : 0..QueueLength, stop : BOOLEAN]
        /\ s_queue'.open = TRUE /\ s_queue'.blocks = 0 /\ s_queue'.stop = TRUE
        /\ s_queue.open /\ s_stop_requested
        /\ UNCHANGED <<s_task, s_failed, s_stop_requested, s_stopped, volume, then, enabled,
                       setting, asleep, abandoned>>
    BY <1>0, <1>3, AudioAssumption
       DEF StopFlush, Queue, To, KeepsLoop, SleepIsSilent, StopUnderWay
  <2>2. SoundTypes'
    BY <1>0, <2>1 DEF SoundTypes, AudioTypes, Places, Stopping
  <2>3. TaskAndQueue' /\ SoundAndPlace'
    BY <1>0, <1>3, <2>1 DEF TaskAndQueue, SoundAndPlace, Sounding, InGame, Stopping
  <2>4. StopUnderWay' /\ SleepIsSilent'
    BY <2>1 DEF StopUnderWay, SleepIsSilent
  <2> QED BY <2>2, <2>3, <2>4 DEF SoundIInv
<1>4. CASE at = "wait" /\ StopTaken /\ After(~s_failed) /\ abandoned' = FALSE
  <2>1. /\ s_queue' = Closed /\ s_task' = "none" /\ s_stopped' = FALSE
        /\ UNCHANGED <<s_failed, s_stop_requested, volume>> /\ s_task = "ended"
    BY <1>0, <1>4 DEF StopTaken, TaskAndQueue
  <2>2. /\ ~volume' /\ ~Sounding' /\ ~s_queue'.open /\ s_task' \in TaskPlaces
        /\ at \in Stopping
    BY <1>0, <1>4, <2>1 DEF TaskAndQueue, Sounding, Closed, TaskPlaces, Stopping
  <2>3. {s_failed', s_stop_requested', s_stopped', volume'} \subseteq BOOLEAN
    BY <1>0, <2>1 DEF AudioTypes
  <2>4. (~s_failed) \in BOOLEAN /\ abandoned' \in BOOLEAN
    BY <1>4
  <2> QED BY <1>4, <2>1, <2>2, <2>3, <2>4, StoppedKeeps
<1>5. CASE at = "wait" /\ StopTimesOut /\ After(FALSE) /\ abandoned' = TRUE
  <2>1. /\ s_task = "write" /\ s_queue' = s_queue /\ s_task' = s_task /\ s_failed' = s_failed
        /\ s_stop_requested' = s_stop_requested /\ s_stopped' = s_stopped /\ volume' = volume
    BY <1>5 DEF StopTimesOut, audio_vars
  <2>2. at \in Stopping /\ s_queue.open /\ ~s_stopped /\ Sounding'
    BY <1>0, <1>5, <2>1 DEF TaskAndQueue, Sounding, Stopping
  <2>3. /\ s_queue' \in [open : {TRUE}, blocks : 0..QueueLength, stop : BOOLEAN] \union {Closed}
        /\ s_task' \in TaskPlaces
        /\ {s_failed', s_stop_requested', s_stopped', volume'} \subseteq BOOLEAN
    BY <1>0, <2>1 DEF AudioTypes
  <2>4. FALSE \in BOOLEAN /\ abandoned' \in BOOLEAN
    BY <1>5
  <2> QED BY <1>5, <2>1, <2>2, <2>3, <2>4, StoppedKeeps
<1> QED BY Zenon, <1>1, <1>2, <1>3, <1>4, <1>5 DEF Stop

(* Every step of the program. *)
LEMMA SoundStep == SoundIInv /\ [Next]_vars => SoundIInv'
<1> SUFFICES ASSUME SoundIInv, [Next]_vars PROVE SoundIInv'
  OBVIOUS
<1>1. CASE Page \/ Footer \/ Menu \/ Loading \/ BootClears \/ BootFrames \/ Paused \/ Pause
           \/ SoundSleeps \/ ScreenOff \/ ScreenOn
  BY <1>1, MenusAreQuiet, QuietMoveKeeps
<1>2. CASE Clears \/ Hints \/ PauseAsked \/ AutosaveFails \/ DisplayBroken \/ StepFails \/ StepFrame
           \/ SoundBroken \/ SoundDone \/ FrameSkipped \/ FrameSubmitted \/ FrameColoured
  BY <1>2, GameIsQuiet, QuietMoveKeeps
<1>3. CASE SoundSubmitted \/ OldestDropped \/ SoundResent
  BY <1>3, BlocksStep
<1>4. CASE Chime \/ Begins \/ Stop
  BY <1>4, ChimeStep, BeginsStep, StopStep
<1>5. CASE UNCHANGED <<audio_vars, loop_vars>>
  BY <1>5, StaysQuiet, QuietMoveKeeps
<1>6. CASE AudioTask /\ UNCHANGED loop_vars
  BY <1>6, TaskStep
<1>7. Loop => \/ Page \/ Footer \/ Menu \/ Loading \/ BootClears \/ BootFrames \/ Chime \/ Begins
              \/ Clears \/ Hints \/ Play \/ Stop \/ Paused \/ Pause \/ SoundSleeps \/ ScreenOff
              \/ ScreenOn \/ UNCHANGED <<audio_vars, loop_vars>>
  BY Zenon DEF Loop
<1>8. Next => Loop \/ (AudioTask /\ UNCHANGED loop_vars) \/ UNCHANGED <<audio_vars, loop_vars>>
  BY DEF Next
<1>9. UNCHANGED vars => UNCHANGED <<audio_vars, loop_vars>>
  BY DEF vars
<1> QED BY Zenon, <1>1, <1>2, <1>3, <1>4, <1>5, <1>6, <1>7, <1>8, <1>9 DEF Play

(* The inductive invariant: the queue and the task come and go together,    *)
(* a game that began with sound has its queue until it calls gb_audio_stop, *)
(* and gb_audio_stop leaves nothing for the task to wait for.               *)
THEOREM SoundInvariant == Spec => []SoundIInv
<1>1. Init => SoundIInv
  BY SoundInit
<1>2. SoundIInv /\ [Next]_vars => SoundIInv'
  BY SoundStep
<1> QED BY <1>1, <1>2, PTL DEF Spec

(* Whichever way run_game and pause_game are left, the codec is silent and  *)
(* its task at an end, but for a stop given up while a write hung, and      *)
(* screen_off_loop puts no codec to sleep under a task that writes.         *)
THEOREM SoundStopsWithGame == Spec => []SoundOnlyInGame
<1>1. SoundIInv => SoundOnlyInGame
  <2> SUFFICES ASSUME SoundIInv PROVE SoundOnlyInGame
    OBVIOUS
  <2>1. SoundTypes /\ TaskAndQueue /\ SoundAndPlace /\ SleepIsSilent
    BY DEF SoundIInv
  <2>2. AudioTypes /\ at \in Places /\ {enabled, setting, asleep, abandoned} \subseteq BOOLEAN
    BY <2>1 DEF SoundTypes
  <2>3. Sounding => abandoned \/ at \in InGame \union Stopping
    BY <2>1 DEF SoundAndPlace
  <2>4. volume => Sounding \/ at = "chiming"
    BY <2>1 DEF TaskAndQueue
  <2>5. asleep => ~Sounding
    BY <2>1 DEF SleepIsSilent, Sounding
  <2>6. "chiming" \notin InGame \union Stopping
    BY DEF InGame, Stopping
  <2> QED BY <2>2, <2>3, <2>4, <2>5, <2>6 DEF SoundOnlyInGame
<1> QED BY <1>1, SoundInvariant, PTL

(* gb_audio_stop never waits for a task that waits for ever, and the block  *)
(* that gb_audio_submit sends again finds room.                             *)
THEOREM StopIsHeard == Spec => []StopReachesTheTask
<1>1. SoundIInv => StopReachesTheTask
  <2> SUFFICES ASSUME SoundIInv PROVE StopReachesTheTask
    OBVIOUS
  <2>1. SoundTypes /\ TaskAndQueue /\ SoundAndPlace /\ StopUnderWay
    BY DEF SoundIInv
  <2>2. at = "wait" /\ s_task \in {"first", "second"} => Waiting > 0
    <3> SUFFICES ASSUME at = "wait", s_task \in {"first", "second"} PROVE Waiting > 0
      OBVIOUS
    <3>1. s_queue.blocks = 0 /\ s_queue.stop
      BY <2>1 DEF StopUnderWay
    <3> QED BY <3>1 DEF Waiting
  <2>3. s_task # "none" <=> s_queue.open
    BY <2>1 DEF TaskAndQueue
  <2>4. at = "wait" /\ s_task = "ended" => s_stopped
    BY <2>1 DEF TaskAndQueue
  <2>5. at = "resend" => s_queue.blocks < QueueLength
    BY <2>1 DEF SoundAndPlace
  <2> QED BY <2>2, <2>3, <2>4, <2>5 DEF StopReachesTheTask
<1> QED BY <1>1, SoundInvariant, PTL

-----------------------------------------------------------------------------
(***************************************************************************)
(* The picture.  A drawing of the caller or of the task, while it lasts:   *)
(* the strips above its row show it, those below what was shown before.    *)
(***************************************************************************)
Active == {"fill", "send", "await"}
Kinds == {"game", "boot", "page", "hint", "colour"}
ActiveDrawings ==
  {d \in [at : Active, kind : Kinds, frame : Frames, row : 1..(Outside + 1)] :
     d.at # "fill" => d.row <= LastRow(d.kind)}
Drawings == ActiveDrawings \union [at : {"idle", "drawn", "failed"}]
Pixels == Shades \union {"page", "unknown"}

PictureTypes ==
  /\ panel \in [1..Outside -> Pixels] /\ strip \in Pixels
  /\ dma \in 0..Outside /\ s_done \in BOOLEAN /\ late \in BOOLEAN
  /\ shown \in [valid : BOOLEAN, frame : Frames]
  /\ job \in [frame : Frames, free : BOOLEAN, notified : BOOLEAN, error : BOOLEAN]
  /\ task \in Drawings /\ ui \in Drawings

\* The task draws what was submitted, until it says so, and the loop submits
\* only what it does not draw itself.
Calling == {"page", "menu", "loading", "boot", "frames", "clear", "hint", "paused"}
Turns ==
  /\ job.free => task = NotDrawing /\ ~job.notified
  /\ job.notified => task = NotDrawing
  /\ ~job.free => ui.at \in {"idle", "failed"}
  /\ ui # NotDrawing => at \in Calling \/ (at = "draw" /\ game.colour)

\* The strip under way is the drawing's own.
Transfer(d) ==
  /\ d.at # "fill" => strip = Contents(d)
  /\ d.at = "await" => IF s_done THEN dma = 0 ELSE dma = d.row

Above(d, r) == r < d.row \/ (r = d.row /\ d.at = "await" /\ s_done)
Below(d, r) == r > d.row \/ (r = d.row /\ d.at # "await") \/ d.kind = "hint"
Progress(d) ==
  /\ d.kind = "hint" => d.row >= Outside
  /\ OfFrame(d.kind) => \A r \in 1..Rows : Above(d, r) => panel[r] = d.frame[r]
  /\ shown.valid =>
       ~Invalidates(d.kind) /\ \A r \in 1..Rows : Below(d, r) => panel[r] = shown.frame[r]

ShowsFrame == shown.valid => \A r \in 1..Rows : panel[r] = shown.frame[r]
NoTransfer == dma = 0 /\ ~s_done
Followable ==
  /\ task.at # "await" /\ ui.at # "await" => NoTransfer
  /\ task.at \in Active => Transfer(task) /\ Progress(task)
  /\ ui.at \in Active => Transfer(ui) /\ Progress(ui)
  /\ task.at \notin Active /\ ui.at \notin Active => ShowsFrame

PictureIInv == PictureTypes /\ Turns /\ (~late => Followable)

-----------------------------------------------------------------------------
LEMMA ZeroIsFrame == Zero \in Frames
BY DisplayAssumption DEF Zero, Frames

LEMMA RestingIsDrawing ==
  /\ [at |-> "idle"] \in Drawings /\ [at |-> "drawn"] \in Drawings /\ [at |-> "failed"] \in Drawings
  /\ \A d \in Drawings : d.at \in Active => d \in ActiveDrawings
  /\ \A d \in Drawings : d.at = "idle" => d = NotDrawing
BY DEF Drawings, ActiveDrawings, Active, NotDrawing

LEMMA ActiveRows == Rows \in Nat /\ Outside = Rows + 1 /\ Outside \in Nat
BY DisplayAssumption DEF Outside

\* The fields of a drawing that has not ended, and of the two that follow it.
LEMMA ActiveFields ==
  ASSUME NEW d \in ActiveDrawings
  PROVE  /\ d.at \in Active /\ d.kind \in Kinds /\ d.frame \in Frames
         /\ d.row \in 1..(Outside + 1) /\ Rows \in Nat /\ Outside = Rows + 1
         /\ LastRow(d.kind) \in {Rows, Outside}
         /\ d.at # "fill" => d.row <= LastRow(d.kind)
BY DisplayAssumption DEF ActiveDrawings, LastRow, Outside

LEMMA MovesTo ==
  ASSUME NEW d \in ActiveDrawings, NEW place \in Active,
         place = "fill" \/ d.row <= LastRow(d.kind)
  PROVE  LET e == [d EXCEPT !.at = place]
         IN  /\ e \in ActiveDrawings /\ e.at = place
             /\ e.kind = d.kind /\ e.frame = d.frame /\ e.row = d.row
<1> DEFINE e == [d EXCEPT !.at = place]
<1>1. /\ e \in [at : Active, kind : Kinds, frame : Frames, row : 1..(Outside + 1)]
      /\ e.at = place /\ e.kind = d.kind /\ e.frame = d.frame /\ e.row = d.row
  BY Zenon DEF ActiveDrawings
<1> HIDE DEF e
<1>2. e \in ActiveDrawings
  BY <1>1 DEF ActiveDrawings
<1> QED BY <1>1, <1>2 DEF e

LEMMA FollowingFields ==
  ASSUME NEW d \in ActiveDrawings, d.row <= LastRow(d.kind)
  PROVE  /\ Following(d) \in ActiveDrawings /\ Following(d).at = "fill"
         /\ Following(d).kind = d.kind /\ Following(d).frame = d.frame
         /\ Following(d).row = d.row + 1
<1> DEFINE n == d.row + 1
           e == [d EXCEPT !.at = "fill", !.row = n]
<1>1. n \in 1..(Outside + 1) /\ "fill" \in Active
  BY ActiveFields DEF Active
<1>2. Following(d) = e
  BY Zenon DEF Following
<1> HIDE DEF n
<1>3. /\ e \in [at : Active, kind : Kinds, frame : Frames, row : 1..(Outside + 1)]
      /\ e.at = "fill" /\ e.kind = d.kind /\ e.frame = d.frame /\ e.row = n
  BY Zenon, <1>1 DEF ActiveDrawings
<1> HIDE DEF e
<1>4. e \in ActiveDrawings
  BY <1>3 DEF ActiveDrawings
<1> QED BY <1>2, <1>3, <1>4 DEF n

LEMMA ContentsType ==
  ASSUME NEW d \in ActiveDrawings, d.row <= LastRow(d.kind) PROVE Contents(d) \in Pixels
<1>1. CASE OfFrame(d.kind)
  <2>1. d.row \in 1..Rows /\ d.frame \in [1..Rows -> Shades]
    BY <1>1, ActiveFields DEF OfFrame, LastRow, Frames
  <2> QED BY <1>1, <2>1 DEF Contents, Pixels
<1>2. CASE ~OfFrame(d.kind)
  BY <1>2 DEF Contents, Pixels
<1> QED BY <1>1, <1>2

\* What has become of the remembered frame.
LEMMA InvalidShown ==
  ASSUME NEW s \in [valid : BOOLEAN, frame : Frames]
  PROVE  LET t == [s EXCEPT !.valid = FALSE]
         IN  t \in [valid : BOOLEAN, frame : Frames] /\ ~t.valid /\ t.frame = s.frame
OBVIOUS

(* One step of a drawing, whoever's it is, keeps the types, *)
LEMMA DrawTypes ==
  ASSUME PictureTypes, NEW d \in ActiveDrawings, NEW e, Draws(d, e)
  PROVE  /\ e \in Drawings /\ UNCHANGED job
         /\ panel' \in [1..Outside -> Pixels] /\ strip' \in Pixels
         /\ dma' \in 0..Outside /\ s_done' \in BOOLEAN /\ late' \in BOOLEAN
         /\ shown' \in [valid : BOOLEAN, frame : Frames]
<1>t. /\ panel \in [1..Outside -> Pixels] /\ strip \in Pixels
      /\ dma \in 0..Outside /\ s_done \in BOOLEAN /\ late \in BOOLEAN
      /\ shown \in [valid : BOOLEAN, frame : Frames] /\ "unknown" \in Pixels
      /\ ActiveDrawings \subseteq Drawings
  BY DEF PictureTypes, Pixels, Drawings
<1>f. /\ d.at \in Active /\ d.frame \in Frames /\ d.row \in 1..(Outside + 1)
      /\ Rows \in Nat /\ Outside = Rows + 1 /\ LastRow(d.kind) \in {Rows, Outside}
      /\ d.at # "fill" => d.row <= LastRow(d.kind)
  BY ActiveFields
<1>1. CASE Fill(d, e)
  <2>1. d.row <= LastRow(d.kind)
    BY <1>1, <1>f DEF Fill, Ended
  <2>2. e \in ActiveDrawings
    BY <1>1, <2>1, MovesTo, FollowingFields DEF Fill, Active
  <2>3. strip' \in Pixels
    BY <1>1, <1>t, <2>1, ContentsType DEF Fill, Followed
  <2> QED BY <1>1, <1>t, <2>2, <2>3 DEF Fill
<1>2. CASE Send(d, e)
  <2>1. d.row <= LastRow(d.kind) /\ d.row \in 0..Outside
    BY <1>2, <1>f DEF Send
  <2>2. e \in ActiveDrawings
    BY <1>2, <2>1, MovesTo DEF Send, Active
  <2> QED BY <1>2, <1>t, <2>1, <2>2 DEF Send
<1>3. CASE Await(d, e)
  <2>1. d.row <= LastRow(d.kind)
    BY <1>3, <1>f DEF Await
  <2>2. e \in ActiveDrawings
    BY <1>3, <2>1, FollowingFields DEF Await
  <2> QED BY <1>3, <1>t, <2>2 DEF Await
<1>4. CASE DrawFails(d, e)
  <2>1. e \in Drawings
    BY <1>4, RestingIsDrawing DEF DrawFails
  <2>2. shown' \in [valid : BOOLEAN, frame : Frames]
    BY <1>4, <1>t, InvalidShown DEF DrawFails, Invalid
  <2>3. /\ panel' \in [1..Outside -> Pixels] /\ strip' \in Pixels
        /\ late' \in BOOLEAN
    BY <1>4, <1>t DEF DrawFails
  <2> QED BY <1>4, <1>t, <2>1, <2>2, <2>3 DEF DrawFails
<1>5. CASE DrawEnds(d, e)
  <2>1. e \in Drawings
    BY <1>5, RestingIsDrawing DEF DrawEnds
  <2>2. [valid |-> TRUE, frame |-> d.frame] \in [valid : BOOLEAN, frame : Frames]
    BY <1>f
  <2>3. shown' \in [valid : BOOLEAN, frame : Frames]
    BY <1>5, <1>t, <2>2 DEF DrawEnds
  <2> QED BY <1>5, <1>t, <2>1, <2>3 DEF DrawEnds
<1> QED BY <1>1, <1>2, <1>3, <1>4, <1>5 DEF Draws

(* and, as long as no transfer was given up, its account of the panel. *)
LEMMA DrawFollows ==
  ASSUME PictureTypes, ~late, NEW d \in ActiveDrawings, Transfer(d), Progress(d),
         d.at # "await" => NoTransfer, NEW e, Draws(d, e), ~late'
  PROVE  /\ e.at \in Active => Transfer(e)' /\ Progress(e)'
         /\ e.at # "await" => NoTransfer'
         /\ e.at \notin Active => ShowsFrame'
<1>t. /\ panel \in [1..Outside -> Pixels] /\ shown \in [valid : BOOLEAN, frame : Frames]
  BY DEF PictureTypes
<1>f. /\ d.at \in Active /\ d.kind \in Kinds /\ d.frame \in Frames /\ d.row \in 1..(Outside + 1)
      /\ Rows \in Nat /\ Outside = Rows + 1 /\ LastRow(d.kind) \in {Rows, Outside}
      /\ d.at # "fill" => d.row <= LastRow(d.kind)
  BY ActiveFields
<1>p. /\ d.kind = "hint" => d.row >= Outside
      /\ OfFrame(d.kind) => \A r \in 1..Rows : Above(d, r) => panel[r] = d.frame[r]
      /\ shown.valid =>
           ~Invalidates(d.kind) /\ \A r \in 1..Rows : Below(d, r) => panel[r] = shown.frame[r]
  BY DEF Progress
<1>1. CASE Fill(d, e)
  <2>1. d.at = "fill" /\ d.row <= LastRow(d.kind) /\ NoTransfer /\ UNCHANGED <<panel, dma, s_done, shown>>
    BY <1>1, <1>f DEF Fill, Ended
  <2>2. CASE d.row <= Rows /\ Unchanged(d)
    <3>1. e = Following(d) /\ OfFrame(d.kind) /\ shown.valid /\ shown.frame[d.row] = d.frame[d.row]
      BY <1>1, <2>2 DEF Fill, Unchanged
    <3>2. e.at = "fill" /\ e.kind = d.kind /\ e.frame = d.frame /\ e.row = d.row + 1
      BY <2>1, <3>1, FollowingFields
    <3>3. panel[d.row] = d.frame[d.row]
      BY <1>f, <1>p, <2>1, <2>2, <3>1 DEF Below
    <3>4. \A r \in 1..Rows : Above(e, r)' => panel[r] = d.frame[r]
      BY <1>f, <1>p, <2>1, <3>1, <3>2, <3>3 DEF Above
    <3>5. \A r \in 1..Rows : Below(e, r)' => panel[r] = shown.frame[r]
      BY <1>f, <1>p, <2>1, <3>1, <3>2 DEF Below, OfFrame
    <3>6. Progress(e)'
      BY <1>f, <1>p, <2>1, <3>1, <3>2, <3>4, <3>5 DEF Progress
    <3> QED BY <2>1, <3>2, <3>6 DEF Transfer, NoTransfer, Active
  <2>3. CASE ~(d.row <= Rows /\ Unchanged(d))
    <3>1. e = [d EXCEPT !.at = "send"] /\ strip' = Contents(d)
      BY <1>1, <2>3 DEF Fill, Followed
    <3>2. e.at = "send" /\ e.kind = d.kind /\ e.frame = d.frame /\ e.row = d.row
      BY <2>1, <3>1, MovesTo DEF Active
    <3>3. Contents(e) = Contents(d)
      BY <3>2 DEF Contents
    <3>4. \A r \in 1..Rows : /\ Above(e, r)' => Above(d, r)
                             /\ Below(e, r)' => Below(d, r)
      BY <2>1, <3>2 DEF Above, Below
    <3>5. Progress(e)'
      BY <1>p, <2>1, <3>2, <3>4 DEF Progress
    <3> QED BY <2>1, <3>1, <3>2, <3>3, <3>5 DEF Transfer, NoTransfer, Active
  <2> QED BY <2>2, <2>3
<1>2. CASE Send(d, e)
  <2>1. /\ d.at = "send" /\ NoTransfer /\ strip = Contents(d) /\ dma' = d.row
        /\ e = [d EXCEPT !.at = "await"] /\ UNCHANGED <<panel, strip, s_done, shown>>
    BY <1>2 DEF Send, Transfer
  <2>2. e.at = "await" /\ e.kind = d.kind /\ e.frame = d.frame /\ e.row = d.row
    BY <1>f, <2>1, MovesTo DEF Active
  <2>3. Contents(e) = Contents(d)
    BY <2>2 DEF Contents
  <2>4. \A r \in 1..Rows : /\ Above(e, r)' => Above(d, r)
                           /\ Below(e, r)' => Below(d, r)
    BY <2>1, <2>2 DEF Above, Below, NoTransfer
  <2>5. Progress(e)'
    BY <1>p, <2>1, <2>2, <2>4 DEF Progress
  <2> QED BY <2>1, <2>2, <2>3, <2>5 DEF Transfer, NoTransfer, Active
<1>3. CASE Await(d, e)
  <2>1. /\ d.at = "await" /\ s_done /\ dma = 0 /\ s_done' = FALSE /\ e = Following(d)
        /\ UNCHANGED <<panel, dma, shown>>
    BY <1>3 DEF Await, Transfer
  <2>2. e.at = "fill" /\ e.kind = d.kind /\ e.frame = d.frame /\ e.row = d.row + 1
    BY <1>f, <2>1, FollowingFields
  <2>3. \A r \in 1..Rows : /\ Above(e, r)' => Above(d, r)
                           /\ Below(e, r)' => Below(d, r)
    BY <1>f, <2>1, <2>2 DEF Above, Below
  <2>4. Progress(e)'
    BY <1>f, <1>p, <2>1, <2>2, <2>3 DEF Progress
  <2> QED BY <2>1, <2>2, <2>4 DEF Transfer, NoTransfer, Active
<1>4. CASE DrawFails(d, e)
  <2>1. /\ d.at = "send" /\ NoTransfer /\ UNCHANGED <<panel, dma, s_done>> /\ e.at = "failed"
        /\ Invalid(d)
    BY <1>4 DEF DrawFails
  <2>2. ShowsFrame'
    <3>1. CASE OfFrame(d.kind)
      BY <1>t, <2>1, <3>1, InvalidShown DEF Invalid, ShowsFrame
    <3>2. CASE ~OfFrame(d.kind)
      <4>1. shown' = shown
        BY <2>1, <3>2 DEF Invalid
      <4>2. shown.valid => d.kind = "hint"
        BY <1>f, <1>p, <3>2 DEF Invalidates, OfFrame, Kinds
      <4> QED BY <1>p, <2>1, <4>1, <4>2 DEF ShowsFrame, Below
    <3> QED BY <3>1, <3>2
  <2> QED BY <2>1, <2>2 DEF NoTransfer, Active
<1>5. CASE DrawEnds(d, e)
  <2>1. /\ d.at = "fill" /\ d.row > LastRow(d.kind) /\ NoTransfer /\ UNCHANGED <<panel, dma, s_done>>
        /\ e.at = "drawn"
        /\ shown' = IF OfFrame(d.kind) THEN [valid |-> TRUE, frame |-> d.frame] ELSE shown
    BY <1>5 DEF DrawEnds, Ended
  <2>2. ShowsFrame'
    <3>1. CASE OfFrame(d.kind)
      <4>1. LastRow(d.kind) = Rows
        BY <3>1 DEF OfFrame, LastRow
      <4>2. \A r \in 1..Rows : panel[r] = d.frame[r]
        BY <1>f, <1>p, <2>1, <3>1, <4>1 DEF Above
      <4> QED BY <2>1, <3>1, <4>2 DEF ShowsFrame
    <3>2. CASE ~OfFrame(d.kind)
      <4>1. shown.valid => d.kind = "hint"
        BY <1>f, <1>p, <3>2 DEF Invalidates, OfFrame, Kinds
      <4> QED BY <1>p, <2>1, <3>2, <4>1 DEF ShowsFrame, Below
    <3> QED BY <3>1, <3>2
  <2> QED BY <2>1, <2>2 DEF NoTransfer, Active
<1> QED BY <1>1, <1>2, <1>3, <1>4, <1>5 DEF Draws

-----------------------------------------------------------------------------
(* At most one of the two draws. *)
LEMMA OneDraws ==
  ASSUME PictureTypes, Turns
  PROVE  /\ task.at \in Active => ~job.free /\ ui.at \notin Active
         /\ ui.at \in Active => job.free /\ task.at = "idle"
         /\ ~job.free => ui.at \notin Active
BY DEF Turns, Active, NotDrawing, PictureTypes

(* The task takes the frame that was submitted, draws it and says so. *)
LEMMA FrameTaskKeeps ==
  ASSUME PictureIInv, FrameTask, UNCHANGED loop_vars
  PROVE  PictureIInv'
<1>t. /\ PictureTypes /\ Turns /\ (~late => Followable)
      /\ UNCHANGED <<at, game>>
  BY DEF PictureIInv, loop_vars
<1>j. /\ job \in [frame : Frames, free : BOOLEAN, notified : BOOLEAN, error : BOOLEAN]
      /\ job.free \in BOOLEAN /\ task \in Drawings /\ Rows \in Nat /\ Outside = Rows + 1
  <2>1. Rows \in Nat /\ Outside = Rows + 1
    BY ActiveRows
  <2>2. /\ job \in [frame : Frames, free : BOOLEAN, notified : BOOLEAN, error : BOOLEAN]
        /\ task \in Drawings
    BY <1>t DEF PictureTypes
  <2> QED BY <2>1, <2>2
<1>1. CASE FrameNotified
  <2>1. /\ task.at = "idle" /\ job.notified /\ ~job.free /\ ui.at \notin Active
        /\ task' = Drawing("game", job.frame, 1)
        /\ job' = [job EXCEPT !.notified = FALSE]
        /\ UNCHANGED <<panel, strip, dma, s_done, shown, ui, late>>
    BY <1>1, <1>t, OneDraws DEF FrameNotified, Turns
  <2>2. /\ task'.at = "fill" /\ task'.kind = "game" /\ task'.frame = job.frame /\ task'.row = 1
        /\ task' \in ActiveDrawings
    BY <1>j, <2>1 DEF Drawing, ActiveDrawings, Active, Kinds
  <2>3. /\ job' \in [frame : Frames, free : BOOLEAN, notified : BOOLEAN, error : BOOLEAN]
        /\ job'.free = job.free /\ job'.notified = FALSE
    <3>1. FALSE \in BOOLEAN
      OBVIOUS
    <3> QED BY Zenon, <1>j, <2>1, <3>1
  <2>4. PictureTypes'
    BY <1>t, <2>1, <2>2, <2>3 DEF PictureTypes, Drawings, Pixels
  <2>5. Turns'
    BY <1>t, <2>1, <2>3 DEF Turns
  <2>6. ASSUME ~late' PROVE Followable'
    <3>1. NoTransfer /\ ShowsFrame
      BY <1>t, <2>1, <2>6 DEF Followable, Active
    <3>2. Transfer(task)' /\ Progress(task)'
      BY <1>j, <2>1, <2>2, <3>1
      DEF Transfer, Progress, Above, Below, ShowsFrame, Invalidates
    <3>3. NoTransfer'
      BY <2>1, <3>1 DEF NoTransfer
    <3> QED BY <2>1, <2>2, <3>2, <3>3 DEF Followable, Active
  <2> QED BY <2>4, <2>5, <2>6 DEF PictureIInv
<1>2. CASE FrameDraws
  <2>1. task.at \in Active /\ Draws(task, task') /\ UNCHANGED ui /\ task \in ActiveDrawings
    BY <1>2, <1>j, RestingIsDrawing DEF FrameDraws, Active
  <2>2. ~job.free /\ ui.at \notin Active /\ task # NotDrawing /\ ~job.notified
    BY <1>t, <2>1, OneDraws DEF Turns, NotDrawing, Active
  <2>3. /\ task' \in Drawings /\ UNCHANGED job
        /\ panel' \in [1..Outside -> Pixels] /\ strip' \in Pixels
        /\ dma' \in 0..Outside /\ s_done' \in BOOLEAN /\ late' \in BOOLEAN
        /\ shown' \in [valid : BOOLEAN, frame : Frames]
    BY <1>t, <2>1, DrawTypes
  <2>4. PictureTypes'
    BY <1>t, <2>1, <2>3 DEF PictureTypes, Drawings, ActiveDrawings, Pixels
  <2>5. Turns'
    BY <1>t, <2>1, <2>2, <2>3 DEF Turns
  <2>6. ASSUME ~late' PROVE Followable'
    <3>1. ~late
      BY <1>t, <2>1, <2>6 DEF Draws, Fill, Send, Await, DrawFails, DrawEnds, PictureTypes
    <3>2. /\ Transfer(task) /\ Progress(task) /\ (task.at # "await" => NoTransfer)
      BY <1>t, <2>1, <2>2, <3>1 DEF Followable, Active
    <3>3. /\ task'.at \in Active => Transfer(task)' /\ Progress(task)'
          /\ task'.at # "await" => NoTransfer'
          /\ task'.at \notin Active => ShowsFrame'
      BY <1>t, <2>1, <2>6, <3>1, <3>2, DrawFollows
      DEF Transfer, Progress, Above, Below
    <3> QED BY <2>1, <2>2, <3>3 DEF Followable
  <2> QED BY <2>4, <2>5, <2>6 DEF PictureIInv
<1>3. CASE FrameEnds
  <2>1. /\ task.at \in {"drawn", "failed"} /\ task' = NotDrawing
        /\ job' = [job EXCEPT !.free = TRUE, !.error = @ \/ task.at = "failed"]
        /\ UNCHANGED <<panel, strip, dma, s_done, shown, ui, late>>
    BY <1>3 DEF FrameEnds
  <2>2. /\ job' \in [frame : Frames, free : BOOLEAN, notified : BOOLEAN, error : BOOLEAN]
        /\ job'.free = TRUE /\ job'.notified = job.notified
    <3> DEFINE error == job.error \/ task.at = "failed"
    <3>1. TRUE \in BOOLEAN /\ error \in BOOLEAN
      OBVIOUS
    <3>2. job' = [job EXCEPT !.free = TRUE, !.error = error]
      BY Zenon, <2>1
    <3> HIDE DEF error
    <3> QED BY Zenon, <1>j, <3>1, <3>2
  <2>3. task # NotDrawing /\ ~job.notified
    BY <1>t, <2>1 DEF Turns, NotDrawing
  <2>4. PictureTypes'
    BY <1>t, <2>1, <2>2, RestingIsDrawing
    DEF PictureTypes, NotDrawing, Drawings, ActiveDrawings, Pixels
  <2>5. Turns'
    BY <1>t, <2>1, <2>2, <2>3 DEF Turns
  <2>6. ASSUME ~late' PROVE Followable'
    <3>1. task'.at = "idle"
      BY <2>1 DEF NotDrawing
    <3> QED BY <1>t, <2>1, <2>6, <3>1
        DEF Followable, Active, Transfer, Progress, Above, Below, ShowsFrame, NoTransfer
  <2> QED BY <2>4, <2>5, <2>6 DEF PictureIInv
<1> QED BY <1>1, <1>2, <1>3 DEF FrameTask

(* The panel has taken the strip of whoever draws. *)
LEMMA TransferDoneKeeps ==
  ASSUME PictureIInv, TransferDone, UNCHANGED loop_vars
  PROVE  PictureIInv'
<1>t. /\ PictureTypes /\ Turns /\ (~late => Followable)
      /\ dma # 0 /\ dma' = 0 /\ s_done' = TRUE /\ panel' = [panel EXCEPT ![dma] = strip]
      /\ UNCHANGED <<strip, shown, job, task, ui, late, at, game>>
  BY DEF PictureIInv, loop_vars, TransferDone
<1>1. PictureTypes'
  <2>1. panel' \in [1..Outside -> Pixels] /\ 0 \in 0..Outside
    BY <1>t, ActiveRows DEF PictureTypes
  <2>2. PictureTypes
    BY <1>t
  <2> QED BY <1>t, <2>1, <2>2 DEF PictureTypes
<1>2. Turns'
  BY <1>t DEF Turns
<1>3. ASSUME NEW d \in ActiveDrawings, d.at = "await", ~late, Transfer(d), Progress(d)
      PROVE  Transfer(d)' /\ Progress(d)'
  <2>1. /\ dma = d.row /\ ~s_done /\ strip = Contents(d)
    BY <1>t, <1>3 DEF Transfer
  <2>2. /\ panel \in [1..Outside -> Pixels] /\ dma \in 1..Outside
        /\ Rows \in Nat /\ Outside = Rows + 1
    BY <1>t, DisplayAssumption DEF PictureTypes, Outside
  <2>3. panel'[dma] = strip /\ \A r \in 1..Outside : r # dma => panel'[r] = panel[r]
    BY <1>t, <2>2
  <2>4. OfFrame(d.kind) => panel'[d.row] = d.frame[d.row]
    BY <2>1, <2>3 DEF Contents
  <2>5. \A r \in 1..Rows : /\ Above(d, r)' => Above(d, r) \/ r = d.row
                           /\ Below(d, r)' => Below(d, r) /\ (r # d.row \/ d.kind = "hint")
    BY <1>3, <1>t, <2>2 DEF Above, Below, ActiveDrawings
  <2>6. Transfer(d)'
    BY <1>3, <1>t, <2>1 DEF Transfer
  <2>7. OfFrame(d.kind) => \A r \in 1..Rows : Above(d, r)' => panel'[r] = d.frame[r]
    <3> SUFFICES ASSUME OfFrame(d.kind), NEW r \in 1..Rows, Above(d, r)'
                 PROVE  panel'[r] = d.frame[r]
      OBVIOUS
    <3>1. CASE r = d.row
      BY <2>4, <3>1
    <3>2. CASE r # d.row
      BY <1>3, <2>1, <2>2, <2>3, <2>5, <3>2 DEF Progress
    <3> QED BY <3>1, <3>2
  <2>8. shown.valid => \A r \in 1..Rows : Below(d, r)' => panel'[r] = shown.frame[r]
    <3> SUFFICES ASSUME shown.valid, NEW r \in 1..Rows, Below(d, r)'
                 PROVE  panel'[r] = shown.frame[r]
      OBVIOUS
    <3>1. r # d.row
      BY <1>3, <2>2, <2>5 DEF Progress
    <3> QED BY <1>3, <2>1, <2>2, <2>3, <2>5, <3>1 DEF Progress
  <2> QED BY <1>3, <1>t, <2>6, <2>7, <2>8 DEF Progress
<1>4. ASSUME ~late' PROVE Followable'
  <2>1. ~late /\ Followable
    BY <1>t, <1>4
  <2>2. task.at = "await" \/ ui.at = "await"
    BY <1>t, <2>1 DEF Followable, NoTransfer
  <2>3. CASE task.at = "await"
    <3>1. ui.at \notin Active /\ task \in ActiveDrawings
      BY <1>t, <2>3, OneDraws, RestingIsDrawing DEF Active, PictureTypes
    <3>2. Transfer(task) /\ Progress(task)
      BY <2>1, <2>3 DEF Followable, Active
    <3>3. Transfer(task)' /\ Progress(task)'
      BY <1>t, <1>3, <2>1, <2>3, <3>1, <3>2 DEF Transfer, Progress, Above, Below
    <3> QED BY <1>t, <2>3, <3>1, <3>3 DEF Followable, Active
  <2>4. CASE ui.at = "await"
    <3>1. task.at \notin Active /\ ui \in ActiveDrawings
      BY <1>t, <2>4, OneDraws, RestingIsDrawing DEF Active, PictureTypes
    <3>2. Transfer(ui) /\ Progress(ui)
      BY <2>1, <2>4 DEF Followable, Active
    <3>3. Transfer(ui)' /\ Progress(ui)'
      BY <1>t, <1>3, <2>1, <2>4, <3>1, <3>2 DEF Transfer, Progress, Above, Below
    <3> QED BY <1>t, <2>4, <3>1, <3>3 DEF Followable, Active
  <2> QED BY <2>2, <2>3, <2>4
<1> QED BY <1>1, <1>2, <1>4 DEF PictureIInv

-----------------------------------------------------------------------------
\* What the loop does about the picture in one step.
Begin ==
  /\ at \in Calling \/ (at = "draw" /\ game.colour)
  /\ UNCHANGED <<at, game>>
  /\ \E kind \in Kinds \ {"game"}, frame \in Frames : BeginDrawing(kind, frame)
Return == Returns("drawn") \/ Returns("failed")
Elsewhere == ui = NotDrawing /\ UNCHANGED display_vars
Submitting == ui = NotDrawing /\ \E frame \in Frames : Submit(frame)
GoOn == UNCHANGED <<at, game>> /\ CallerDraws

LEMMA CallsBegin ==
  ASSUME at \in Calling \/ (at = "draw" /\ game.colour),
         NEW kind \in Kinds \ {"game"}, NEW frame \in Frames, Calls(kind, frame)
  PROVE  Begin
BY DEF Calls, Begin, loop_vars

LEMMA LoopDraws ==
  ASSUME PictureIInv, Loop PROVE Begin \/ Return \/ Elsewhere \/ Submitting \/ GoOn
<1>t. /\ Zero \in Frames /\ {"page", "hint", "boot", "colour"} \subseteq Kinds \ {"game"}
      /\ ui # NotDrawing => at \in Calling \/ (at = "draw" /\ game.colour)
  BY ZeroIsFrame DEF PictureIInv, Turns, Kinds
<1>1. CASE Page \/ Footer \/ Loading \/ BootClears \/ BootFrames \/ Clears \/ Hints \/ Paused
  BY <1>1, <1>t, CallsBegin
  DEF Page, Footer, Loading, BootClears, BootFrames, Clears, Hints, Paused, Either, Succeeds, Fails,
      Return, Calling
<1>2. CASE Menu
  BY <1>2 DEF Menu, NoPicture, Elsewhere
<1>3. CASE Chime \/ Begins \/ Stop \/ Pause \/ SoundSleeps \/ ScreenOff \/ ScreenOn
  <2>1. at \notin Calling /\ at # "draw" /\ UNCHANGED display_vars
    BY <1>3 DEF Chime, Begins, Stop, Pause, SoundSleeps, ScreenOff, ScreenOn, NoPicture, Calling
  <2> QED BY <1>t, <2>1 DEF Elsewhere
<1>4. CASE PauseAsked \/ AutosaveFails \/ DisplayBroken \/ StepFails \/ StepFrame
           \/ SoundBroken \/ SoundSubmitted \/ OldestDropped \/ SoundResent \/ SoundDone
  <2>1. at \notin Calling /\ at # "draw" /\ UNCHANGED display_vars
    BY <1>4 DEF PauseAsked, AutosaveFails, DisplayBroken, StepFails, StepFrame, SoundBroken,
                SoundSubmitted, OldestDropped, SoundResent, SoundDone, NoPicture, Calling
  <2> QED BY <1>t, <2>1 DEF Elsewhere
<1>5. CASE FrameSkipped
  BY <1>5 DEF FrameSkipped, NoPicture, Elsewhere
<1>6. CASE FrameSubmitted
  BY <1>6, <1>t DEF FrameSubmitted, Submitting, Calling
<1>7. CASE FrameColoured
  BY <1>7, <1>t, CallsBegin DEF FrameColoured, Succeeds, Fails, Return
<1>8. CASE CallerDraws /\ UNCHANGED <<audio_vars, loop_vars>>
  BY <1>8 DEF GoOn, loop_vars
<1> QED BY Zenon, <1>1, <1>2, <1>3, <1>4, <1>5, <1>6, <1>7, <1>8 DEF Loop, Play

(* A drawing of the caller begins once the task is idle, or fails. *)
LEMMA BeginKeeps == ASSUME PictureIInv, Begin PROVE PictureIInv'
<1>t. /\ PictureTypes /\ Turns /\ (~late => Followable) /\ UNCHANGED <<at, game>>
      /\ at \in Calling \/ (at = "draw" /\ game.colour)
  BY DEF PictureIInv, Begin
<1>1. PICK kind \in Kinds \ {"game"}, frame \in Frames : BeginDrawing(kind, frame)
  BY DEF Begin
<1>2. ui = NotDrawing /\ UNCHANGED <<panel, strip, dma, s_done, job, task, late>>
  BY <1>1 DEF BeginDrawing
<1>r. ui.at = "idle" /\ ui.at \notin Active
  BY <1>2 DEF NotDrawing, Active
<1>3. CASE NotIdle /\ ui' = [at |-> "failed"] /\ UNCHANGED shown
  <2>1. ui'.at = "failed" /\ ui'.at \notin Active /\ ui' \in Drawings
    BY <1>3, RestingIsDrawing DEF Active
  <2>2. PictureTypes'
    BY <1>t, <1>2, <1>3, <2>1 DEF PictureTypes
  <2>3. Turns'
    BY <1>t, <1>2, <2>1 DEF Turns
  <2>4. ~late' => Followable'
    BY <1>t, <1>2, <1>r, <1>3, <2>1
    DEF Followable, Transfer, Progress, Above, Below, ShowsFrame, NoTransfer
  <2> QED BY <2>2, <2>3, <2>4 DEF PictureIInv
<1>4. CASE /\ Idle /\ ui' = Drawing(kind, frame, FirstRow(kind))
           /\ shown' = IF Invalidates(kind) THEN [shown EXCEPT !.valid = FALSE] ELSE shown
  <2>1. job.free /\ task = NotDrawing /\ task.at \notin Active
    BY <1>t, <1>4 DEF Idle, Turns, NotDrawing, Active
  <2>2. FirstRow(kind) \in 1..(Outside + 1) /\ (kind = "hint" => FirstRow(kind) = Outside)
    BY ActiveRows DEF FirstRow
  <2>3. /\ ui'.at = "fill" /\ ui'.kind = kind /\ ui'.frame = frame /\ ui'.row = FirstRow(kind)
        /\ ui' \in ActiveDrawings
    BY <1>4, <2>2 DEF Drawing, ActiveDrawings, Active, Kinds
  <2>4. /\ shown \in [valid : BOOLEAN, frame : Frames]
        /\ shown' \in [valid : BOOLEAN, frame : Frames]
        /\ shown'.valid => shown' = shown /\ ~Invalidates(kind)
    <3>1. shown \in [valid : BOOLEAN, frame : Frames]
      BY <1>t DEF PictureTypes
    <3> QED BY <1>4, <3>1, InvalidShown
  <2>5. PictureTypes'
    BY <1>t, <1>2, <2>3, <2>4 DEF PictureTypes, Drawings
  <2>6. Turns'
    BY <1>t, <1>2, <2>1 DEF Turns
  <2>7. ASSUME ~late' PROVE Followable'
    <3>1. NoTransfer /\ ShowsFrame
      BY <1>t, <1>2, <1>r, <2>1, <2>7 DEF Followable, Active
    <3>2. NoTransfer' /\ Transfer(ui)'
      BY <1>2, <2>3, <3>1 DEF NoTransfer, Transfer
    <3>3. Progress(ui)'
      <4>1. OfFrame(kind) => FirstRow(kind) = 1
        BY DEF OfFrame, FirstRow
      <4> QED BY <1>2, <2>2, <2>3, <2>4, <3>1, <4>1, ActiveRows
          DEF Progress, Above, Below, ShowsFrame
    <3> QED BY <1>2, <2>1, <2>3, <3>2, <3>3 DEF Followable, Active
  <2> QED BY <2>5, <2>6, <2>7 DEF PictureIInv
<1> QED BY <1>1, <1>3, <1>4 DEF BeginDrawing

LEMMA ReturnKeeps == ASSUME PictureIInv, Return PROVE PictureIInv'
<1>t. /\ PictureTypes /\ Turns /\ (~late => Followable)
  BY DEF PictureIInv
<1>1. /\ ui.at \in {"drawn", "failed"} /\ ui' = NotDrawing
      /\ UNCHANGED <<panel, strip, dma, s_done, shown, job, task, late>>
  BY DEF Return, Returns
<1>2. ui'.at = "idle" /\ ui'.at \notin Active /\ ui.at \notin Active /\ ui' \in Drawings
  BY <1>1, RestingIsDrawing DEF NotDrawing, Active
<1>3. PictureTypes'
  BY <1>t, <1>1, <1>2 DEF PictureTypes
<1>4. Turns'
  BY <1>t, <1>1, <1>2 DEF Turns
<1>5. ~late' => Followable'
  BY <1>t, <1>1, <1>2
  DEF Followable, Transfer, Progress, Above, Below, ShowsFrame, NoTransfer
<1> QED BY <1>3, <1>4, <1>5 DEF PictureIInv

LEMMA ElsewhereKeeps == ASSUME PictureIInv, Elsewhere PROVE PictureIInv'
<1>t. /\ PictureTypes /\ Turns /\ (~late => Followable)
  BY DEF PictureIInv
<1>1. /\ ui = NotDrawing
      /\ UNCHANGED <<panel, strip, dma, s_done, shown, job, task, ui, late>>
  BY DEF Elsewhere, display_vars
<1>2. PictureTypes'
  BY <1>t, <1>1 DEF PictureTypes
<1>3. Turns'
  BY <1>t, <1>1 DEF Turns
<1>4. ~late' => Followable'
  BY <1>t, <1>1 DEF Followable, Transfer, Progress, Above, Below, ShowsFrame, NoTransfer
<1> QED BY <1>2, <1>3, <1>4 DEF PictureIInv

(* A frame is submitted to an idle task by a loop that does not draw. *)
LEMMA SubmitsFrame == ASSUME PictureIInv, Submitting PROVE PictureIInv'
<1>t. /\ PictureTypes /\ Turns /\ (~late => Followable)
  BY DEF PictureIInv
<1>1. PICK frame \in Frames : Submit(frame)
  BY DEF Submitting
<1>2. /\ ui = NotDrawing /\ job.free
      /\ job' = [job EXCEPT !.free = FALSE, !.notified = TRUE, !.frame = frame]
      /\ UNCHANGED <<panel, strip, dma, s_done, shown, task, ui, late>>
  BY <1>1 DEF Submitting, Submit
<1>3. job \in [frame : Frames, free : BOOLEAN, notified : BOOLEAN, error : BOOLEAN]
  BY <1>t DEF PictureTypes
<1>4. /\ job' \in [frame : Frames, free : BOOLEAN, notified : BOOLEAN, error : BOOLEAN]
      /\ job'.free = FALSE
  <2>1. TRUE \in BOOLEAN /\ FALSE \in BOOLEAN
    OBVIOUS
  <2> QED BY Zenon, <1>2, <1>3, <2>1
<1>5. PictureTypes'
  BY <1>t, <1>2, <1>4 DEF PictureTypes
<1>6. Turns'
  BY <1>t, <1>2, <1>4 DEF Turns, NotDrawing
<1>7. ~late' => Followable'
  BY <1>t, <1>2 DEF Followable, Transfer, Progress, Above, Below, ShowsFrame, NoTransfer
<1> QED BY <1>5, <1>6, <1>7 DEF PictureIInv

(* The caller draws a strip. *)
LEMMA CallerKeeps == ASSUME PictureIInv, GoOn PROVE PictureIInv'
<1>t. /\ PictureTypes /\ Turns /\ (~late => Followable) /\ UNCHANGED <<at, game>>
  BY DEF PictureIInv, GoOn
<1>1. ui.at \in Active /\ Draws(ui, ui') /\ UNCHANGED task /\ ui \in ActiveDrawings
  <2>1. ui.at \in Active /\ Draws(ui, ui') /\ UNCHANGED task
    BY DEF GoOn, CallerDraws, Active
  <2> QED BY <1>t, <2>1, RestingIsDrawing DEF PictureTypes
<1>2. job.free /\ task.at = "idle" /\ ui # NotDrawing
  BY <1>t, <1>1, OneDraws DEF NotDrawing, Active
<1>3. /\ ui' \in Drawings /\ UNCHANGED job
      /\ panel' \in [1..Outside -> Pixels] /\ strip' \in Pixels
      /\ dma' \in 0..Outside /\ s_done' \in BOOLEAN /\ late' \in BOOLEAN
      /\ shown' \in [valid : BOOLEAN, frame : Frames]
  BY <1>t, <1>1, DrawTypes
<1>4. PictureTypes'
  BY <1>t, <1>1, <1>3 DEF PictureTypes
<1>5. Turns'
  BY <1>t, <1>1, <1>2, <1>3 DEF Turns
<1>6. ASSUME ~late' PROVE Followable'
  <2>1. ~late
    BY <1>t, <1>1, <1>6 DEF Draws, Fill, Send, Await, DrawFails, DrawEnds, PictureTypes
  <2>2. Transfer(ui) /\ Progress(ui) /\ (ui.at # "await" => NoTransfer)
    BY <1>t, <1>1, <1>2, <2>1 DEF Followable
  <2>3. /\ ui'.at \in Active => Transfer(ui)' /\ Progress(ui)'
        /\ ui'.at # "await" => NoTransfer'
        /\ ui'.at \notin Active => ShowsFrame'
    BY <1>t, <1>1, <1>6, <2>1, <2>2, DrawFollows DEF Transfer, Progress, Above, Below
  <2> QED BY <1>1, <1>2, <2>3 DEF Followable, Active
<1> QED BY <1>4, <1>5, <1>6 DEF PictureIInv

LEMMA PictureInit == Init => PictureIInv
<1> SUFFICES ASSUME Init PROVE PictureIInv
  OBVIOUS
<1>1. /\ panel = [r \in 1..Outside |-> "page"] /\ strip = "page" /\ dma = 0 /\ s_done = FALSE
      /\ shown = [valid |-> FALSE, frame |-> Zero]
      /\ job = [frame |-> Zero, free |-> TRUE, notified |-> FALSE, error |-> FALSE]
      /\ task = NotDrawing /\ ui = NotDrawing /\ late = FALSE
  BY DEF Init, DisplayInit
<1>2. NotDrawing \in Drawings /\ NotDrawing.at \notin Active
  BY RestingIsDrawing DEF NotDrawing, Active
<1>3. PictureTypes
  <2>1. "page" \in Pixels /\ 0 \in 0..Outside
    BY ActiveRows DEF Pixels
  <2>2. panel \in [1..Outside -> Pixels]
    BY <1>1, <2>1
  <2>3. /\ shown \in [valid : BOOLEAN, frame : Frames]
        /\ job \in [frame : Frames, free : BOOLEAN, notified : BOOLEAN, error : BOOLEAN]
    BY <1>1, ZeroIsFrame
  <2> QED BY <1>1, <1>2, <2>1, <2>2, <2>3 DEF PictureTypes
<1>4. Turns
  BY <1>1 DEF Turns
<1>5. Followable
  BY <1>1, <1>2 DEF Followable, NoTransfer, ShowsFrame
<1> QED BY <1>3, <1>4, <1>5 DEF PictureIInv

LEMMA PictureStep == PictureIInv /\ [Next]_vars => PictureIInv'
<1> SUFFICES ASSUME PictureIInv, [Next]_vars PROVE PictureIInv'
  OBVIOUS
<1>1. CASE Loop
  BY <1>1, LoopDraws, BeginKeeps, ReturnKeeps, ElsewhereKeeps, SubmitsFrame, CallerKeeps
<1>2. CASE UNCHANGED <<display_vars, loop_vars>>
  <2>1. /\ UNCHANGED <<panel, strip, dma, s_done, shown, job, task, ui, late, at, game>>
        /\ PictureTypes /\ Turns /\ (~late => Followable)
    BY <1>2 DEF display_vars, loop_vars, PictureIInv
  <2>2. PictureTypes' /\ Turns'
    BY <2>1 DEF PictureTypes, Turns
  <2>3. ~late' => Followable'
    BY <2>1 DEF Followable, Transfer, Progress, Above, Below, ShowsFrame, NoTransfer
  <2> QED BY <2>2, <2>3 DEF PictureIInv
<1>3. CASE (FrameTask \/ TransferDone) /\ UNCHANGED loop_vars
  BY <1>3, FrameTaskKeeps, TransferDoneKeeps
<1> QED BY Zenon, <1>1, <1>2, <1>3 DEF Next, vars

(* The inductive invariant: the frame task draws from the submission to its *)
(* notice, the loop draws only when the task does not, and the strips above *)
(* the row that is being drawn show the drawing, those below what is        *)
(* remembered, until a transfer is given up.                                *)
THEOREM PictureInvariant == Spec => []PictureIInv
BY PictureInit, PictureStep, PTL DEF Spec

(* What the next frame leaves out is on the panel already, and the strip    *)
(* buffer never has two users, as long as no transfer was given up          *)
(* (gb_display.c, gb_display_frame and wait_frame_idle).                    *)
THEOREM LeftOutIsOnThePanel == Spec => []DrawnIsShown
<1>1. PictureIInv => DrawnIsShown
  <2> SUFFICES ASSUME PictureIInv, ~late PROVE DrawnIsShown
    BY DEF DrawnIsShown
  <2>1. PictureTypes /\ Turns /\ Followable
    BY DEF PictureIInv
  <2>2. \A d \in Drawings : d.at \in Active \/ d.at \in {"idle", "drawn", "failed"}
    BY DEF Drawings, ActiveDrawings
  <2>3. ui.at \in {"idle", "drawn", "failed"} \/ task.at \in {"idle", "drawn", "failed"}
    BY <2>1, <2>2, OneDraws DEF PictureTypes
  <2>4. task.at \notin Active /\ ui.at \notin Active => ShowsFrame
    BY <2>1 DEF Followable
  <2> QED BY <2>3, <2>4 DEF DrawnIsShown, ShowsFrame, Active
<1> QED BY <1>1, PictureInvariant, PTL

=============================================================================
