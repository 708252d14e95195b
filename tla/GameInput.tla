----------------------------- MODULE GameInput -----------------------------
(***************************************************************************)
(* What the menu task does with the controller while a game runs: the      *)
(* emulation loop of run_game, the pause menu of pause_game and the screen *)
(* sleep it offers, against a Bluetooth task that may report a sample      *)
(* between any two of their reads.  Each read of the controller is a step, *)
(* because each is a critical section of its own.                          *)
(*                                                                         *)
(* The board's three buttons arrive through a queue of their own and are   *)
(* chosen here whenever the code looks at that queue.  Which line of the   *)
(* menu is highlighted is chosen when it is confirmed.  Saving, sound and  *)
(* screen are reduced to whether they succeeded: Saves models the first.   *)
(***************************************************************************)
EXTENDS InputBuffer

CONSTANTS
  Hold,         \* GB_SELECT_PAUSE_US, in ticks
  Debounce,     \* the 80 ms of gb_screen_sleep_step, in ticks
  Opposites     \* the pairs of keys that cancel: left and right, up and down

ASSUME GameInputAssumption ==
  /\ Hold \in Nat /\ Debounce \in Nat
  /\ Buttons \subseteq {"right", "left", "up", "down", "a", "b", "view", "menu"}
  /\ Opposites \subseteq SUBSET Buttons

VARIABLES
  task,         \* where the menu task is
  hold,         \* select_pause of run_game, select_back of pause_game
  menu,         \* pad_input of pause_game
  board,        \* the board's message carried to the rest of the iteration
  sleep,        \* the state of screen_off_loop
  given,        \* the controller's keys the running frame is stepped with
  acted,        \* history: the keys whose press a page acted on in this step
  used,         \* history: keys held since before the page, or since it acted
  unreleased,   \* history: keys a page acted on, or down when the game was
                \* entered or resumed, and not let go since
  carried       \* history: keys down since before the controller connected

page == <<hold, menu, board, sleep, given>>
gameVars == <<inputVars, task, page, acted, used, unreleased, carried>>

Playing == {"frame", "poll", "step"}
Tasks ==
  Playing \union {"games", "start", "rearm", "pause", "disarm", "menuInit", "menu",
                  "menuAct", "reinit", "sleep", "woken", "exit"}
MenuKeys == {"up", "down", "a", "b"} \intersect Buttons
MenuActions == {"none", "up", "down", "confirm", "back"}

Goto(t) == task' = t

\* What the menu task leaves alone when it only looks at the controller, and
\* the history of the keys a step acts on.
LooksOnly == UNCHANGED inputVars
NoAction == acted' = {} /\ UNCHANGED <<used, unreleased, carried>>
Acts(keys) ==
  /\ acted' = keys
  /\ used' = used \union keys /\ unreleased' = unreleased \union keys
  /\ UNCHANGED carried
EntersGame ==
  /\ acted' = {} /\ unreleased' = unreleased \union sample.keys
  /\ UNCHANGED <<used, carried>>

---------------------------------------------------------------------------
\* gb_select_pause: the gesture, on a sample p.
(* Mutant: Select counts although it was down when the page opened. *)
HoldInit_Armed(p) ==
  [connected |-> p.connected, armed |-> p.connected, holding |-> FALSE, started |-> 0]

HoldInit(p) ==
  [connected |-> p.connected, armed |-> p.connected /\ "view" \notin p.keys,
   holding |-> FALSE, started |-> 0]
HoldStarted(h) == IF h.holding THEN h.started ELSE now
HoldFires(h, p) ==
  /\ p.connected /\ h.connected /\ "view" \in p.keys /\ h.armed
  /\ now - HoldStarted(h) >= Hold
HoldStep(h, p) ==
  IF ~p.connected \/ ~h.connected THEN HoldInit(p)
  ELSE IF "view" \notin p.keys THEN [h EXCEPT !.armed = TRUE, !.holding = FALSE]
  ELSE IF ~h.armed THEN h
  ELSE [h EXCEPT !.holding = TRUE, !.started = HoldStarted(h), !.armed = ~HoldFires(h, p)]

\* A page opened with a key down does not act on that key.
OpenPage ==
  /\ hold' = HoldInit(sample)
  /\ used' = sample.keys /\ acted' = {} /\ UNCHANGED <<unreleased, carried>>

\* gb_menu_input: of the keys that went down since the last poll, the first in
\* the order the code asks for; up and down together move nothing.

MenuInit(p) == [connected |-> p.connected, down |-> p.keys \intersect MenuKeys]
Rank == [up |-> 1, down |-> 2, a |-> 3, b |-> 4]
MenuPress(m, p) ==
  LET fresh == {k \in (p.keys \intersect MenuKeys) \ m.down :
                 /\ k = "up" => "down" \notin p.keys
                 /\ k = "down" => "up" \notin p.keys}
  IN  IF ~p.connected \/ ~m.connected \/ fresh = {} THEN "none"
      ELSE CHOOSE k \in fresh : \A other \in fresh : Rank[k] <= Rank[other]
MenuAction(k) == CASE k = "a" -> "confirm" [] k = "b" -> "back" [] OTHER -> k

\* gb_screen_sleep_step. Phases: 0 waits for a release, 1 for a press, 2 for
\* that press to end, 3 is awake.
(* Mutant: the press that wakes the screen also ends the sleep. *)
SleepPress_Awake(s, down) ==
  IF s.phase = 1 /\ down THEN [s EXCEPT !.phase = 3, !.released = FALSE] ELSE s

SleepPress(s, down) ==
  IF s.phase = 1 /\ down THEN [s EXCEPT !.phase = 2, !.released = FALSE] ELSE s
SleepRelease(s, down) ==
  IF s.phase \notin {0, 2} THEN s
  ELSE IF down THEN [s EXCEPT !.released = FALSE]
  ELSE IF ~s.released THEN [s EXCEPT !.released = TRUE, !.since = now]
  ELSE IF now - s.since >= Debounce THEN [s EXCEPT !.phase = @ + 1, !.released = FALSE]
  ELSE s
SleepStep(s, down) == SleepRelease(SleepPress(s, down), down)
Asleep == [phase |-> 0, released |-> FALSE, since |-> 0, lit |-> FALSE]

\* gb_input_map
GameKeys(keys) == keys \ UNION {pair \in Opposites : pair \subseteq keys}

GameInit ==
  /\ InputInit
  /\ task = "games"
  /\ hold = HoldInit(Gone) /\ menu = MenuInit(Gone)
  /\ board = "none" /\ sleep = Asleep /\ given = {}
  /\ acted = {} /\ used = {} /\ unreleased = {} /\ carried = {}

---------------------------------------------------------------------------
\* run_game, up to its loop: a game that loads starts paused when there is no
\* controller to play it with.
LaunchGame ==
  /\ task = "games"
  /\ IF sample.connected THEN Goto("start") ELSE Goto("pause")
  /\ NoAction /\ UNCHANGED <<inputVars, page>>

\* The animation, the sound and the screen come before the buffer is armed;
\* any of them may fail and end the game.
Start ==
  /\ task = "start"
  /\ SetGameplay(TRUE) /\ Goto("rearm")
  /\ EntersGame /\ UNCHANGED page

StartFails ==
  /\ task = "start" /\ Goto("exit")
  /\ NoAction /\ LooksOnly /\ UNCHANGED page

Rearm ==
  /\ task = "rearm" /\ Goto("frame")
  /\ OpenPage /\ LooksOnly /\ UNCHANGED <<menu, board, sleep, given>>

FrameSnapshot ==
  /\ task = "frame" /\ Goto("poll")
  /\ Take
  /\ NoAction /\ UNCHANGED page

(* Mutant: a missing controller does not pause the game. *)
PollGame_AnyController ==
  /\ task = "poll"
  /\ hold' = HoldStep(hold, sample)
  /\ \E boardPause \in BOOLEAN :
       IF boardPause \/ HoldFires(hold, sample)
       THEN given' = {} /\ (Goto("pause") \/ Goto("exit"))
       ELSE given' = GameKeys(played.keys) /\ Goto("step")
  /\ IF HoldFires(hold, sample) THEN Acts({"view"}) ELSE NoAction
  /\ LooksOnly /\ UNCHANGED <<menu, board, sleep>>

(* Mutant: the keys of a frame are added to those of the frame before. *)
PollGame_AddsKeys ==
  /\ task = "poll"
  /\ hold' = HoldStep(hold, sample)
  /\ \E boardPause \in BOOLEAN :
       IF boardPause \/ HoldFires(hold, sample) \/ ~played.connected
       THEN given' = {} /\ (Goto("pause") \/ Goto("exit"))
       ELSE given' = given \union GameKeys(played.keys) /\ Goto("step")
  /\ IF HoldFires(hold, sample) THEN Acts({"view"}) ELSE NoAction
  /\ LooksOnly /\ UNCHANGED <<menu, board, sleep>>

\* The gesture looks at the live sample, the keys come from the snapshot.
\* Stopping the sound for a pause may fail, and ends the game.
PollGame ==
  /\ task = "poll"
  /\ hold' = HoldStep(hold, sample)
  /\ \E boardPause \in BOOLEAN :
       IF boardPause \/ HoldFires(hold, sample) \/ ~played.connected
       THEN given' = {} /\ (Goto("pause") \/ Goto("exit"))
       ELSE given' = GameKeys(played.keys) /\ Goto("step")
  /\ IF HoldFires(hold, sample) THEN Acts({"view"}) ELSE NoAction
  /\ LooksOnly /\ UNCHANGED <<menu, board, sleep>>

\* A frame is emulated and shown; a failed automatic save pauses the game and
\* a failed transfer ends it.
StepFrame ==
  /\ task = "step"
  /\ Goto("frame") \/ Goto("pause") \/ Goto("exit")
  /\ NoAction /\ LooksOnly /\ UNCHANGED page

\* destroy_game_session
Exit ==
  /\ task = "exit" /\ Goto("games")
  /\ SetGameplay(FALSE)
  /\ NoAction /\ UNCHANGED page

---------------------------------------------------------------------------
\* pause_game
OpenPause ==
  /\ task = "pause" /\ Goto("disarm")
  /\ OpenPage
  /\ UNCHANGED <<inputVars, menu, board, sleep, given>>

Disarm ==
  /\ task = "disarm" /\ Goto("menuInit")
  /\ SetGameplay(FALSE)
  /\ NoAction /\ UNCHANGED page

InitMenu ==
  /\ task = "menuInit" /\ Goto("menu")
  /\ menu' = MenuInit(sample)
  /\ NoAction /\ LooksOnly /\ UNCHANGED <<hold, board, sleep, given>>

\* menu_button_receive: a hold of Select stands for a long press of the board's
\* OK, and takes the place of whatever the queue held.
ReceiveButton ==
  /\ task = "menu" /\ Goto("menuAct")
  /\ hold' = HoldStep(hold, sample)
  /\ IF HoldFires(hold, sample)
     THEN board' = "long" /\ Acts({"view"})
     ELSE board' \in (MenuActions \ {"back"}) \union {"long"} /\ NoAction
  /\ LooksOnly /\ UNCHANGED <<menu, sleep, given>>

\* What a confirmed line, or B, does.
Resume(p) == IF p.connected THEN Goto("start") ELSE Goto("menu")
SaveAndLeave == Goto("exit") \/ Goto("menu")
FallAsleep ==
  \/ Goto("sleep") /\ sleep' = Asleep
  \/ Goto("reinit") /\ UNCHANGED sleep
Confirmed(p) ==
  \/ Resume(p) /\ UNCHANGED sleep
  \/ Goto("menu") /\ UNCHANGED sleep           \* sync the battery save
  \/ Goto("reinit") /\ UNCHANGED sleep         \* settings_loop
  \/ FallAsleep
  \/ SaveAndLeave /\ UNCHANGED sleep

Perform(action, p) ==
  CASE action \in {"none", "up", "down"} -> Goto("menu") /\ UNCHANGED sleep
    [] action = "back" -> Resume(p) /\ UNCHANGED sleep
    [] action = "confirm" -> Confirmed(p)

\* The rest of an iteration.  The controller's edges are noted even when the
\* board's button is the one obeyed.
ActOnMenu ==
  /\ task = "menuAct"
  /\ menu' = MenuInit(sample)
  /\ LET press == MenuPress(menu, sample)
         obeyed == board = "none" /\ press # "none"
     IN  /\ CASE board = "long" -> SaveAndLeave /\ UNCHANGED sleep
              [] board # "long" -> Perform(IF obeyed THEN MenuAction(press) ELSE board, sample)
         /\ IF obeyed THEN Acts({press}) ELSE NoAction
  /\ board' = "none"
  /\ LooksOnly /\ UNCHANGED <<hold, given>>

\* After settings_loop or a screen sleep that did not resume.
Reinit ==
  /\ task = "reinit" /\ Goto("menuInit")
  /\ OpenPage /\ LooksOnly /\ UNCHANGED <<menu, board, sleep, given>>

---------------------------------------------------------------------------
\* screen_off_loop: one poll. A board button counts like a key.
Poll(down) ==
  /\ sleep' = [SleepStep(sleep, down) EXCEPT
                !.lit = sleep.lit \/ SleepStep(sleep, down).phase >= 2]

PollSleep ==
  /\ task = "sleep" /\ sleep.phase # 3
  /\ \E pressing \in BOOLEAN :
       LET keyDown == sample.connected /\ (sample.keys # {} \/ sample.other)
           woke == sleep.phase = 1 /\ (pressing \/ keyDown)
       IN  /\ Poll(pressing \/ keyDown)
           /\ IF woke THEN Acts(sample.keys) ELSE NoAction
  /\ \/ Goto("sleep")
     \/ ~sleep.lit /\ sleep'.lit /\ Goto("reinit")   \* the screen does not come on
  /\ LooksOnly /\ UNCHANGED <<hold, menu, board, given>>

WakeUp ==
  /\ task = "sleep" /\ sleep.phase = 3
  /\ Goto("woken") \/ Goto("reinit")                 \* the sound may not come on
  /\ NoAction /\ LooksOnly /\ UNCHANGED page

Woken ==
  /\ task = "woken"
  /\ IF sample.connected THEN Goto("start") ELSE Goto("reinit")
  /\ NoAction /\ LooksOnly /\ UNCHANGED page

---------------------------------------------------------------------------
MenuTask ==
  \/ Start \/ StartFails \/ Rearm \/ FrameSnapshot \/ PollGame \/ StepFrame
  \/ Exit \/ OpenPause \/ Disarm \/ InitMenu \/ ReceiveButton
  \/ ActOnMenu \/ Reinit \/ PollSleep \/ WakeUp \/ Woken

\* The player may hold keys through a connection; the first report that has one
\* of them up shows that it was let go.
ControllerHistory ==
  /\ acted' = {}
  /\ used' = used \intersect sample'.keys
  /\ unreleased' = unreleased \intersect sample'.keys
  /\ \/ ~sample'.connected /\ carried' = {}
     \/ sample'.connected /\ ~sample.connected /\ carried' \in SUBSET Buttons
     \/ sample'.connected /\ sample.connected /\ carried' = carried \intersect sample'.keys

\* The Bluetooth task: a sample, at any moment.
Controller ==
  /\ Change
  /\ ControllerHistory
  /\ UNCHANGED <<task, page>>

Clock == Tick /\ NoAction /\ UNCHANGED <<task, page>>

GameNext == MenuTask \/ LaunchGame \/ Controller \/ Clock
GameSpec == GameInit /\ [][GameNext]_gameVars

\* The menu task runs whenever it can; the player owes nothing, not even a
\* launch.
FairGame == GameSpec /\ WF_gameVars(MenuTask)

---------------------------------------------------------------------------
\* The types of the menu task's state and of the history.
PageTypeOK ==
  /\ task \in Tasks
  /\ hold \in [connected : BOOLEAN, armed : BOOLEAN, holding : BOOLEAN, started : Nat]
  /\ menu \in [connected : BOOLEAN, down : SUBSET MenuKeys]
  /\ board \in MenuActions \union {"long"}
  /\ sleep \in [phase : 0 .. 3, released : BOOLEAN, since : Nat, lit : BOOLEAN]
  /\ given \in SUBSET Buttons
  /\ acted \in SUBSET Buttons /\ used \in SUBSET Buttons

GameTypeOK == PageTypeOK /\ unreleased \in SUBSET Buttons /\ carried \in SUBSET Buttons

\* A press counts once.  The hold that opened the pause does not also leave the
\* game, the A that confirmed a line does not confirm the next, a failed exit is
\* not retried by the same hold, and a key held when the screen went off does
\* not wake it: no page acts on a key held since before it opened, or since a
\* page last acted on it, as far as the reports tell (ReconnectNeedsRelease).
\* The state keeps its types (pause_game, gb_menu_input_step, gb_select_pause_step).
PressActsOnce == [][GameTypeOK' /\ acted' \intersect used = {}]_gameVars

\* The press that woke the screen is over before the game goes on.
WakePressConsumed == [][task = "sleep" /\ task' = "woken" => used = {}]_gameVars

\* A key belongs to the page that took it: the A that chose a line or resumed
\* the game, the B that went back, the Select whose hold opened the pause, the key
\* that lit the screen, or one merely held while the game came back, is not among
\* the keys a frame is stepped with until a report has it up (run_game,
\* pause_game, gb_input_buffer_reset).  A disconnection has every key up, and so
\* has the first sample of a connection: what is held over both is the matter of
\* NoCarriedKeyInPlay.
MenuKeysStayOut == task = "step" => given \intersect unreleased = {}

\* A controller that stays away does not leave the game running.
DisconnectPauses ==
  (task \in Playing /\ ~sample.connected) ~> (sample.connected \/ task \notin Playing)

\* While play goes on, the game ends up stepped with the keys the player holds,
\* or with none until the controller has once been let go.
GameCatchesUp ==
  <>[](task \in Playing) =>
    <>[](task = "step" => given = (IF armed THEN GameKeys(sample.keys) ELSE {}))

\* README: "Select held on entry, resume or reconnect must be released before
\* another long press".
ReconnectNeedsRelease == [][acted' \intersect carried \intersect {"view"} = {}]_gameVars

\* No frame is stepped with a key that was down before the controller connected
\* and was never let go.  The code does not keep this: device_ready's report that
\* every key is up arms the buffer, and the first real report looks like a press.
NoCarriedKeyInPlay == task = "step" => given \intersect carried = {}
=============================================================================
