# FoloToy Game Boy: a TLA+ verification of the firmware

The firmware turns an ESP32-C3 board with a 240×320 screen, three buttons and a
Bluetooth controller into a Game Boy. Games live in a flash partition and are
installed over a Wi-Fi page; battery saves live in a small file system. This
directory models the parts of it whose correctness depends on the order of
events, checks them with TLC and proves the central invariants with TLAPS.

## 1. The system

Two FreeRTOS tasks carry the program's own logic: the *menu task* (`app_main`,
which also runs the game) and, while the management screen is open, the *HTTP
task* of `esp_http_server`. A Bluetooth task delivers controller events, and
small tasks feed the display and the audio codec.

| Part | Source | State it keeps | Operations | Correct when |
| --- | --- | --- | --- | --- |
| ROM catalogue | `main/gb_storage.c` | two directory slots, legacy table, ROM sectors; in RAM the table, the slot, the generation, two flags, the open row | init, open, upload, delete, rename, publish, tokens | the table shown is the one a restart finds; no listed ROM is ever damaged |
| Saves | `main/gb_saves.c`, `gb_port.cpp` | two copies per ROM; in RAM cartridge RAM and its dirty flag | load, write, delete, prune | no saved progress is lost to a failed or interrupted write |
| Web page | `main/gb_web.c` | server handle, Wi-Fi state | list, upload, rename, delete, start, stop | a request acts on the row it was shown; its answer is true |
| Application flow | `main/game_main.c` | place in the menus | home, pairing, list, management, settings, pause, game | saves before leaving, server only while its screen is up, sound only in a game |
| Input | `main/gb_input.c`, `gb_screen_sleep.h` | transition buffer, gesture timers, previous levels | push, take, map, menu step | no stuck key, no lost press |
| Discovery, controller | `main/gamepad_discovery.c`, `gamepad.c`, `bluepad32/bt/uni_bt_le.c` | candidate list, device slot, links, passkey timer, scan policy | discovered, ready, data, disconnected, select, cancel, scan | scan follows the screens; disconnect releases all keys; nothing pairs behind a cancellation |
| iine link, BLE cache | `bluepad32/bt/uni_bt_le_iine.c`, `uni_bt_le_advertisement.c` | link phase and deadlines; cache entries | packet, tick, confirm; merge, expire | every attempt ends; no unverified controller without consent; a device is judged by what it said |
| Audio | `main/gb_audio.c` | block queue, counters, stop flag | start, submit, stop | oldest block dropped, stop never hangs |
| Display | `main/gb_display.c` | frame ownership, transfer token, sticky error | submit, idle, strip | what an unchanged strip leaves out is on the panel |
| Pacing | `gb_frame_pacing.c`, `gb_audio_pacing.c` | window of costs | draw, record, due | (not modelled) |

The parts touch each other at few places. The menu task and the HTTP task share
the catalogue and the save files, one after the other by construction: the
server runs only while the management screen is up. The web page uses row
*tokens* that bind a generation, a row and its entry. `gb_saves` asks
`gb_storage` which saves still have a game. A running game holds a pointer into
the catalogue's table and a mapping of its ROM. The Bluetooth task talks to the
menu task through one lock-protected structure, and is in turn asked to change
its scan by a flag and a callback queued on its run loop. The game loop hands
blocks of sound to one task by a queue and frames to another by a buffer and a
notification.

What is hard in this code: power may fail inside any flash or file operation,
every such operation may fail with its effect partly or wholly done, both
counters wrap, browsers keep stale pages across edits and restarts, and the two
tasks meet when the management screen is entered and left. Controllers answer
late, twice or never, a cancelled connection may still succeed, and the tasks of
sound and picture must be stopped or awaited on each of a dozen ways out of a
game. `PROJECT.json` lists
the hazards one by one with the line each bites at.

## 2. The modules

| Module | Models | Rests on |
| --- | --- | --- |
| `SerialNumber` | wrapping counters: `Newer`, `Successor` | |
| `RomTable` | one table: acceptable rows, free space, what the edits build | |
| `Catalog` | `gb_storage.c` between any two flash calls | `RomTable`, `SerialNumber` |
| `AtomicCatalog` | what `gb_storage` promises: whole edits, confirmed or locked | `SerialNumber` |
| `Saves` | one game's two save copies and its session | `SerialNumber` |
| `Management` | both tasks around the catalogue and all saves | `AtomicCatalog` |
| `InputBuffer` | the controller's live state and the buffer of its changes | |
| `GameInput` | the emulation loop, pause menu and screen sleep reading it | `InputBuffer` |
| `Controller` | discovery list, selection, device slot, links and scan policy, against the menu | |
| `IineLink` | the private protocol of the L1241 controller | |
| `AdvertisementCache` | joining what devices advertise | |
| `Audio` | the sound queue, its task and the stop handshake | |
| `Display` | the panel, its strip buffer and the frame task | |
| `Playback` | `run_game` and its exits over sound and picture | `Audio`, `Display` |
| `CatalogProofs`, `SavesProofs`, `ManagementProofs`, `InputProofs`, `ControllerProofs`, `IineLinkProofs`, `AdvertisementCacheProofs`, `PlaybackProofs` | theorems | |
| `MCCatalog`, `MCSaves`, `MCManagement`, `MCInputBuffer`, `MCGameInput`, `MCController`, `MCIineLink`, `MCAdvertisementCache`, `MCPlayback` | constants for TLC | |

`Catalog` implements `AtomicCatalog` (property `ImplementsAtomic`), and
`Management` is composed from `AtomicCatalog` instead of `Catalog`, which keeps
its state small enough to add browsers, saves and both tasks. The property
`UsesCatalog` says that the composition really obeys the specification it is
built on. `GameInput` extends `InputBuffer` and `Playback` extends `Audio` and
`Display`; they call the operations of these where `run_game` calls them, and
what they state is about the whole.

### Catalog

The variables carry the names of the static variables (`s_entries`,
`s_directory_slot`, `s_generation`, `s_catalog_trusted`, `s_needs_reload`,
`s_selected`); `slot`, `legacy` and `sector` are the flash. `pc` is the flash
call the current operation is in, because that is where power may fail and where
an error may be reported: `erase_rom`, `stream_rom`, `erase_slot`, `write_slot`,
`verify_slot`. Each has an action for success, one for a reported failure with
any part of its effect done, and a share of `PowerCut` (`Interrupted`). Boot has
one action per outcome of `gb_storage_init`: a directory, the legacy table, an
empty device, a slot that cannot be read, and everything else that blocks.

Abstractions: lengths are sectors; a ROM stands for its bytes and their SHA-256;
a slot is intact or not (its digest decides in the code); a name is valid or
does not exist in the model; the search loops of `find_gap` and
`gb_storage_available` are given by what they compute. A partly written sector
is either what it was or what it becomes, sector by sector from the start.
Sectors of a ROM that is being streamed hold the new ROM's bytes as soon as they
are written. Flash does not decay on its own: a slot becomes unreadable only
when it is erased or a read fails at boot. `mbedtls_sha256` does not fail: if it
did at boot, `read_directory` would refuse a good slot without noting an error,
and the older one could be taken.

### Saves

`file` holds the two copies: absent, damaged, or valid with a sequence number
and contents. `writing` is the copy that `gb_saves_write` has chosen and its
sequence number; `pc` runs through `truncate`, `write`, `verify`. `acceptable`
is history: the contents a load may rightly find, i.e. the last confirmed save
and whatever has been handed to `gb_saves_write` since. Contents are opaque.
`Play` is a write of the cartridge program to its RAM (`writeByte` of the
emulator). `ReadFaults` lets a sound file fail to be read,
which the code takes for a bad or a missing copy; `HasRtc` is a cartridge with a
clock, whose saves are always written. A load that fails changes nothing and is
not an action.

Leaving a game by the pause menu is `Exit` when nothing needs saving, otherwise
`BeginWrite` with `leaving`, then `Verify`. The paths of `run_game` that destroy
the session without saving (screen, sound or ROM failure) are `Abandon`.

### Management

The state joins the catalogue, the copies that exist of every ROM's save, the
place of the menu task (`ui`), the place of the HTTP task (`http`), the request
it is working on, its last answer, and one page per browser. Handlers are cut
where an outcome is decided: accepted, published, written, confirmed or not,
first and second save file removed. Pruning reads directory entries in any order
and starts over after a removal, as the code does with `rewinddir`; without that
call the position after a removal would be unspecified. A browser's page
survives restarts of the device. `told` is history: the list that the last
answer implies.

Abstractions: save files are identified by the ROM. The code uses the first
eight bytes of its SHA-256 in file names and compares all 32 in the delete
handler; two ROMs that share eight bytes are not modelled. A request refused at
once changes nothing and is not an action. The Wi-Fi driver's own start and
stop states are not modelled. `httpd_stop` waits for the request in progress
unless `StopMayFail`.

### InputBuffer and GameInput

`InputBuffer` is the buffer of `gb_input.c` with the functions of `gamepad.c`
that lock it: `Report` is `set_sample`, `SetGameplay` is `gamepad_set_gameplay`,
`Take` is `gamepad_frame_snapshot`. A push has four cases, a take has four, one
operator each. `s_sample` and the buffer's `latest` are written together and are
one variable; the ring is a sequence. A sample is whether a controller is
connected, which mapped keys are down, and whether anything else is. `seen`,
`changes`, `wentDown` and `releasedAt` are history, and like all that the code can
know they are of reports. A controller always begins with every key up, because
`device_ready` reports that whatever the player holds.

`GameInput` adds the menu task. Each of its reads of the controller is a step of
its own, as each is a critical section of its own, and `task` is the place
between two of them: `frame`, `poll`, `step` in the loop of `run_game`; `pause`,
`disarm`, `menuInit`, `menu`, `menuAct`, `reinit` in `pause_game`; `sleep` and
`woken` in `screen_off_loop`; `start` and `rearm` on the way back into the game.
`hold`, `menu` and `sleep` are the structures `gb_select_pause_t`,
`gb_menu_input_t` and `gb_screen_sleep_t`. Two local variables hold the first,
one in the loop and one in the menu, but each is initialised before it is used
and never alive with the other, so they are one. `acted`, `used` and
`unreleased` are history: the keys a page acted on in this step, those held since
before the page opened or since it acted, and those not let go since a page took
them or the game came back. `carried` is history of the player's fingers and not
of reports: the keys held since before the controller connected.

Abstractions: the board's buttons are chosen when their queue is read; the
Start and Select they add to a frame join the controller's keys and are left
out of `given`. The highlighted line is chosen when it is confirmed, the
settings screen is one step, and saves, sound and screen only succeed or fail.
Stick positions and keyboard reports are already keys. The 32-bit millisecond
clock of the screen's sleep does not wrap.

### Controller

The variables follow the code's: `disc` is `s_discovery`, `slot` the one device
of `uni_hid_device.c`, `link` the stack's connection to each controller,
`allowed`, `updating` and `queued` are `s_scan_allowed`,
`s_scan_update_pending` and the callback on the run loop, `passTimer` is
`s_passkey_timer` with the address it is for. `radio` says whether the stack is
asked to listen, which `enabled` (`bt_scanning_enabled`) only intends.

The handlers of the Bluetooth task run to completion on its run loop and are one
action each: `AdvertListed`, `AdvertConnects` and `AdvertRefused` are
`device_discovered` with what `uni_bt_le.c` does of its answer; `LinkUp`,
`LinkFails`, `LinkClosed` the connection events; `Passkey`, `PairingOk`,
`PairingFails`, `RepairStarts` those of `security_event` and the security
manager; `HidFound`, `IinePending`, `DeviceReady`, `DeviceDeclined`, `Report` the
way from a secured link to reports. `apply_scan_policy` is two steps,
`ApplyReads` and one of `ApplyDrops`, `ApplyConfirms`, `ApplyConfirmsLate`,
`ApplyScans`, because the menu task may change its mind between the critical
section and what is done of it. Every critical section of the menu task is a
step; `task` is its place in `pairing_loop` (`top`, `drain`, `resnap`), in
`management_loop` (`manage`), and inside `update_scan_policy` (`update`,
`enqueue`), from which it goes `back`. `snap` is `pairing_loop`'s copy of the
list.

The radio and the controller may do anything the code is prepared for: a
cancelled attempt succeeds or fails, a link closes unasked, a controller
advertises while its old link is still open, pairing fails or is repeated. Left
out are names, kinds, signal strength and the revision counter that asks for a
redraw. Two attempts never overlap, which is assumed of the stack: a failed
attempt's event names no device, and the code tells whichever slot waits.

### IineLink

`s` is `links[0]` (one device is configured), `gatt` whether the GATT client has
an operation of this connection outstanding, `answers` what the controller was
asked and may answer at any later time, any number of times. `tick` is one
action per branch, `packet_handler` one per kind of packet and outcome;
`Begins` is `check_start`, which fails the link when the client refuses.
`SecuredAgain` is a security event that arrives while the failed link's
connection still closes: the code then begins the link anew on the old
connection, with serials from the start. A deadline may be found due by any
later tick, so each timeout races each answer. Payloads are left out but for the
firmware they tell.

### AdvertisementCache

`cache` is the table of `uni_bt_le_advertisement.c`, whose `observe` expires,
chooses a slot and joins the packet, one operator each; `scan_start` and
`scan_stop` reset it. `heard`, `silent`, `quiet` and `crowded` are history.
A packet is what its fields parse to, malformed ones change nothing. The clock
is the code's 32-bit one, modulo `Wrap`.

### Audio, Display and Playback

`Audio` has the task of `gb_audio.c` by its places: waiting for the first
blocks, testing the stop flag, taking the first and the second block, writing.
`StopRequest`, `StopFlush`, and `StopTaken` or `StopTimesOut` are the three
parts of `gb_audio_stop`; `SendOutcome`, `DropOldest` and the second
`SendOutcome` those of `gb_audio_submit`, between any two of which the task may
take a block. The queue is a number of blocks and the stop block behind them.

`Display` has the two users of the one strip buffer, `task` and `ui`, each
filling, sending and awaiting strip after strip; `dma` is the strip on its way
and `TransferDone` the interrupt, at which the panel takes what the buffer holds
by then. `shown` is the remembered frame, `job` the frame handed over. A
transfer that is given up (`late`) leaves a token that the next strip will take
for its own, and a panel that is no longer followed.

`Playback` walks `run_game` from the choice of a game to the return to the menu:
`at` names the place, `then` where a stop of the sound goes on. Opening,
emulation, saves and input may succeed, fail or ask for a pause at any
iteration, as their own modules treat them. How many sound blocks are due and
whether a frame is drawn is any choice, which covers the pacing functions. The
stop at a pause, at a failed autosave, at the screen's sleep and at each error
exit is a step where the code has it.

## 3. What is checked

| Run | Question | Bounds |
| --- | --- | --- |
| `catalog` | the safety of the catalogue, the inductive invariant, and that `Catalog` implements `AtomicCatalog` | 5 data sectors, ROMs of 2 and 3 sectors, 2 names, 2 rows, generation mod 4, legacy image absent, with one game, or unacceptable |
| `saves` | no save is lost to writes that fail; leaving keeps progress | 3 contents, sequence mod 4, no clock |
| `saves_first_write` | a promise of the plan that the code does not keep | as above |
| `management` | saves of installed games, tokens, answers, pruning, the played game; pruning ends, the screen can be left, the catalogue is used as specified | 2 names, 2 ROMs, 2 rows, 1 browser, at most 2 edits; starting empty or with two rows of one ROM |
| `input_buffer` | order, age, completeness of what frames play, and the inductive invariant | 2 keys, ring of 3, age limit 1, 6 changes, clock to 4 |
| `game_input` | one press acts once; a key the menu took stays out of the game; a controller that is gone pauses the game; the game catches up | A and Select, ring of 1, hold and debounce of 1 tick, 3 changes, clock to 2 |
| `controller` | the scan policy, cancellation, the owner of the keys, the radio, what OK selects | a gamepad and an L1241, a list of 2 |
| `controller_live` | attempts and updates end | an L1241, a list of 1 |
| `controller_forgotten` | a sentence of the README that the code does not keep | as `controller` |
| `iine_link` | busy links, consent, replies to the right request; the handshake ends | 2 attempts, as in the code |
| `advertisement_cache` | one entry per device; judged by what it said since its silence | 3 devices, 2 entries, lifetime 2, clock mod 5, 3 kinds of packets, nothing heard for at most 3 |
| `playback` | sound only in a game, the stop handshake, the remembered frame | queue of 3, 2 blocks awaited at the start, 2 strips of 2 shades |

Why these are enough. Generation and sequence counters enter the code through
the sign of a difference and through equality; modulo 4 every pair of
neighbours, the wrap and one stale distance occur. Two rows are needed for a
delete that moves a row, for a name that is taken and for a shared save; two
ROM sizes make gaps that fit and gaps that do not. A save needs an old, a new
and an abandoned content; a cartridge with a clock differs only in being written
at every save, and the proofs cover both values of `HasRtc`. In `management` a page is stale whenever anything was
edited after it was fetched, and uploads need no page, so one browser meets
every stale token that two would; `MaxEdition` stays below `GenMod`, because in
the code a page would have to survive 2^32 edits to see its generation again.
Every bound is a constant of the module or of its `.cfg`.
Six changes overflow a ring of three and leave room for a disconnection.
In `game_input` three changes are a connection, a press and its release, or a
connection and two presses; two ticks are a hold in the game followed by one in
the menu, or the two silences the screen's sleep waits for; the clock stops
there, which leaves the tasks running. Its keys are not a pair of opposite
directions, so the cancelling in `gb_input_map` is in the model and not in this
run. Two controllers are what a stale selection, a cancelled attempt and a
second one need, and one that is an L1241 passes through every phase; under
fairness a single controller suffices, since each property is about one slot or
one flag. The cache has a device more than entries, and a clock that wraps
within two lifetimes. A sound queue one block longer than what is awaited at the
start is full, has room and is empty within the same game; two strips let one be
left out and the other be sent.

Deadlock is checked everywhere: power may always be cut or come back, a
controller may always appear, a scan may always be started or stopped, and the
game loop and the menu always go on.

### The properties

* `ReadyViewIsDurable`: whenever `gb_storage` answers, its table is the one a
  restart would find. Setting `s_needs_reload` before the directory write is
  what makes this true.
* `DurableRomsIntact`: no interruption damages a ROM the next boot will list.
* `IInv` of `Catalog` contains these and more: `TrustedIsDurable` (a catalogue
  that saves may be pruned by is the durable one), `SlotsInOrder` (two good
  slots are one generation apart, also at the wrap), `WrittenIsAcceptable` (no
  operation writes a directory the next boot refuses), `SelectedIsOpened` (the
  row under `s_selected` is still the ROM handed out).
* `IInv` of `Saves`: `SavedProgressSurvives`, `CleanSessionIsDurable`,
  `CopiesInOrder`. With `ExitKeepsProgress` and `OverwritesOlder`: progress that
  was loaded or confirmed is found again.
* `LiveSavesKept` (a step property): a save file disappears only when no game of
  the durable catalogue has its ROM.
* `TokensAreFresh`: a row that delete or rename would accept was shown in a list
  that is still current.
* `AnswersHold`: an answer stays true until the next request, over power cuts.
* `PlayedGameIsListed`, `PruneLeavesNoOrphan`, `PruneEnds`, `StopReturns`,
  `UsesCatalog`.
* `InputIInv`, `NoSilentSkip`, `NoGhostKeys`: frames play the controller's
  changes in order, count what they lose (but for what a disconnection or a
  switch of gameplay clears away), never play a key long after its release, and
  end with what is held.
* `OnlyNewKeysInPlay`: a frame plays only keys that a report showed going down
  since the game was entered or resumed and since the controller connected. It
  does not keep out a key that is held while the controller connects: that key is
  reported up at first, which arms the buffer, and going down afterwards
  (`MCGameInputCarried.cfg` below).
* `MenuKeysStayOut`: a key that a page took (the A that resumed the game, the
  Select that paused it, the key that lit the screen), or that was down when the
  game came back, is not among the keys a frame is stepped with before a report
  or a disconnection has it up. It relates what the menu did to what the buffer
  hands out several frames later, through every way back into the game.
* `PressActsOnce`: as far as the reports tell, no page acts on a key held since
  before it opened or since a page acted on it; the hold of Select that pauses
  the game does not leave it.
* `WakePressConsumed`: the press that woke the screen has ended.
* `DisconnectPauses`, `GameCatchesUp`.
* `ControllerIInv`: keys are down only while a controller owns the input, is set
  up and its link is not known to be gone; a passkey is on the screen only while
  the timer that takes it down runs for its controller; the selected controller
  stays on the list, so a full list cannot refuse its reconnection.
* `ScanFollowsPolicy`: no change is lost between the pending flag and the run
  loop. It begins with the first policy applied after the stack is up:
  `platform_ready` starts the scan without asking.
* `NothingInBackground`: once a cancellation was carried out, the slot is empty,
  connected, or works for the selection.
* `NeverDeaf`: whatever ended the last attempt, a device that scans and has an
  empty slot is listening.
* `SelectsWhatItRead`: OK selects the candidate at the cursor of the list the
  page read, though the list went on changing.
* `AttemptsEnd`, `UpdatesEnd`, `HandshakeEnds`: nothing waits for ever for a
  controller that does not answer or a user who does not decide.
* `IineTypeOK`: a link is busy exactly while its GATT operation is outstanding,
  so no completion is awaited that cannot come.
* `ConsentComesFirst`: a controller whose firmware was not verified is used only
  with the user's consent, given on this link; one that is no L1241 never.
* `RepliesAnswerTheRequest`: a late answer to an earlier request is not taken
  for the one awaited. Links begun anew on a closing connection are excepted:
  their serials start over, and the code does take such an answer.
* `CacheTypeOK`, `JudgedByWhatWasHeard`: a device has one entry, which says
  exactly what its packets said together since it was last silent, in any order.
* `SoundOnlyInGame`: whichever way a game is left, the sound task has ended and
  the codec is silent, unless a stop was given up while a write hung; the codec
  is never put to sleep under a task that writes.
* `StopReachesTheTask`: who waits for the sound task does not wait for a task
  that waits for ever, and the block that follows a dropped one finds room.
* `DrawnIsShown`: after a drawing that succeeded the panel shows the remembered
  frame, so leaving out unchanged strips is right; the strip buffer never has
  two users. Both until a transfer is given up.

### Fairness

`management` assumes weak fairness of each task's own steps: both run under
a preemptive scheduler and make no call that blocks for ever (receiving is given
up after `recv_wait_timeout`, five seconds). It assumes strong fairness of
`gb_web_stop`: the stop message stays on the server's control socket, which the
server's loop looks at in every round, so a stream of requests does not hide it.
`game_input` assumes weak fairness of the menu task,
which polls and never blocks for ever on the controller.
`controller_live` assumes weak fairness of the menu's update and of the queued
callback, and strong fairness of the two timers and of the stack's answer to a
cancelled or closing link: the run loop serves timers, callbacks and events in
turn, so one that is due is not passed over for ever because others come between.
`iine_link` assumes weak fairness of `tick`, whose timer every tick arms again.
Nothing is assumed of the operator, of browsers, of the controller, its
advertisements and answers, or of the power supply. The
other specifications are checked for safety only and have no fairness.

### Where code and documents differ

Two runs show it:

* `saves_first_write`. Power lost inside the first write of a game leaves one
  damaged copy and none else; `gb_saves_load` then reports an error and the game
  cannot be started. The plan promises an old or a new complete version, and
  `README.md` names only the case that both copies are damaged.
* `controller_forgotten`. Cancelling deletes the device slot and calls
  `gap_connect_cancel`, but the link may come up first. btstack then reports a
  normal connection, for which `uni_bt_le_on_connection_complete` finds no
  device and returns; nobody closes the link, and while it stays the stack
  refuses the next connection to the same controller. `README.md` and the
  recovery notes say that the connection is cancelled. The link ends when the
  controller gives up, or when it insists on pairing (`OrphanPairs`).

Five more can be seen by running TLC with the configuration named, which is
expected to report a violation:

* `MCSavesReadFault.cfg` (`OverwritesOlder`). `check_copy` and `exists` do not
  tell a read error from a bad or missing copy, so one failed read makes a write
  truncate the newer copy.
* `MCManagementStop.cfg` (`UploadsOutsideGames`). An error of `httpd_stop` is
  logged and then ignored; a request in progress goes on under a running game.
* `MCManagementFooter.cfg` (`StorageAccessSerialized`). The footer of the
  management screen reads the table without a lock while the HTTP task may be
  replacing it. Only the numbers shown can be wrong.
* `MCGameInputHeld.cfg` (`ReconnectNeedsRelease`). The README says that a Select
  held on reconnect must be released first. `device_ready` reports every key up
  before the controller has said which are down; a poll in between arms the
  gesture, and a Select that was never released then leaves the game from the
  pause menu.
* `MCGameInputCarried.cfg` (`NoCarriedKeyInPlay`). The same report arms the
  buffer when the game is entered or resumed on it, and a key the player never
  let go is played as soon as its first report comes. In
  `test_gb_input_buffer.c` a key held when the controller comes back is not
  played before it is let go, which the buffer alone assures and `device_ready`
  undoes.

A disconnection that begins and ends between two frames does not pause the game
either, since the loop looks once a frame; its keys are released all the same.

## 4. What is proved

All theorems hold for every value of the constants that the named assumptions
admit: `RomTableAssumption` and `CatalogAssumption` (sizes positive, one bank is
at least a sector, a counter of at least four values, an erased sector holds no
ROM), `SavesAssumption`, `InputBufferAssumption`, `ControllerAssumption` (a list
of at least one), `IineLinkAssumption` (at least one attempt),
`CacheAssumption` (the time during which nothing at all is heard ends before the
clock of 2^32 milliseconds has gone round), `AudioAssumption` (the queue holds
the blocks that are awaited at the start, at least two), `DisplayAssumption`,
`GameInputAssumption` and `ManagementAssumption` (a list of at least one game;
the firmware may come with any list that fits). Two groups of theorems need more
than the code gives, and say so:

* The theorems of `SavesProofs` other than `TypeCorrect` also assume
  `~ReadFaults`: with read errors `OverwritesOlder` is false, as
  `MCSavesReadFault.cfg` shows.
* `AnswersAreKept`, `PlayedGameStays`, `PruneIsComplete` and `SavesOfGamesStay`
  of `ManagementProofs` also assume `~StopMayFail`: when `httpd_stop` reports an
  error a request goes on under a running game or a pruning, and may delete that
  game, as `MCManagementStop.cfg` shows. The other theorems of that module do
  not need it.

Every invariant and step property that a passing run checks is stated by a
theorem; what the runs add is liveness, and the instances on which the formulas
were tried first.

**CatalogProofs.** `Spec => []IInv`. None of the properties is inductive alone:
that the chosen slot is the table in RAM depends on which slot is current, that
on the other slot being blank or one generation behind, and the intact ROM bytes
on an upload's target being disjoint from every listed row. `IInv` therefore
joins `CurrentSlotIsRam`, `OtherSlotIsNeighbour` (what flash holds while RAM is
in step with it), `PendingTable` and `PendingEdit` (what the operation in
progress may publish, and that it is one upload, deletion or renaming away from
the table), `Flags`, and the properties. Both counters rest on
`SuccessorIsNewer`: with at least three values the successor is newer than its
predecessor and not the other way round. Lemmas say what the three edits do to a valid
table, what a restart would list after each flash effect (`DurableIsRam`,
`DurableAfterErase`, `DurableAfterWrite`, `DurableIsUpdated`), and that there is
no further way to change the flash (`FlashEffects`). The properties follow
from `IInv`.

`CatalogIsAtomic`, `Spec => ImplementsAtomic`, is the refinement: what a restart
would list is the abstract list (`Committed`), the table in RAM the view
(`View`), and a step of `gb_storage.c` is an abstract step or leaves both alone.
The write of the slot is where an edit takes effect, before it is verified: if
the verification fails, or power is lost there, the abstract catalogue has
committed an edit it could not confirm, which is what a caller must be ready
for. `PendingEdit` is what makes that write one of the three edits, long after
the call that began it.

**SavesProofs.** `Spec => []IInv` with `WritingFollows` (the copy in progress
continues the other) and `GoodIsAcceptable`, from which the five properties
follow, `ExitKeepsProgress` as a property of steps.

**ManagementProofs.** `Spec => []ManagementIInv`, for any games, browsers and
length of the list, whether `httpd_stop` may fail or not. Most of the invariant
holds in either case: what status, view and durable list are to each other
(`CatalogInUse`); what a request carries over its several steps
(`RequestInWork`), such as that the ROM to be deleted is the one of the row and
that a shared save is not removed; and that a page of the current generation is
the current list (`PagesWereShown`). From it follow `TokensAreFresh` and
`UsesCatalog`. Together with `CatalogIsAtomic` the latter closes the
composition: the catalogue the tasks are proved over is the one that
`gb_storage.c` implements.

The rest, `TakeTurns`, needs a server that stops when it is told to: it lives
from its start to its stop, and a game or a pruning runs only outside
(`OneTaskAtATime`); a pruning without an error has either met every orphan or
still has it before it (`PruneMeetsOrphans`); copy `b` of a save goes only after
copy `a` has gone (`RemovedInOrder`). It gives `AnswersHold`,
`PlayedGameIsListed`, `PruneLeavesNoOrphan` and `LiveSavesKept`; with
`StopMayFail` TLC finds each of the four violated.

**InputProofs.** `InputSpec => []InputIInv`, for any set of keys, any
capacity of at least one, any age limit and sessions of any length
(`InputBufferAssumption`). What makes the properties inductive is that an armed
ring holds the last changes by number (`Consecutive`), the newest being the live
state (`LastIsLive`), and that a key of a waiting state that is up by now went
up after that state was taken (`Waiting`). `NoStuckKey`, `HeldKeysStayOut`,
`ChangesInOrder` and `GhostsExpire` follow.

`GameSpec => []GameIInv` joins the buffer's invariant with two parts. `Fresh`
says that no consumer is ready to take a key for a new press that was acted on or
found down before: the gesture is not armed (`HoldIsFresh`), the menu counts it
as down (`EdgesAreFresh`), and the sleep waits for a press only when none is left
(`WakeIsFresh`), because each of them starts over where a page is entered.
`PressesActOnce` and `WakePressIsOver` follow, the first as a property of steps.
`KeptOut` says what the loop owes the pages: a buffer that is armed while the
game runs has seen every taken key go up (`ArmedByRelease`), since a switch of
gameplay arms it only if all keys are up and a report only when they are; so the
frame's copy (`SnapshotIsFree`) and the keys it is stepped with are free of them.
Keys are taken only outside the loop or in the step that leaves it, so an armed
buffer is never surprised by one. `PageKeysStayOut` follows.

**ControllerProofs.** `Spec => []ControllerIInv`, for any set of controllers and
any length of the list. `KeysNeedTheOwner`
rests on every loss of the owner's link going through `device_disconnected`, and
`TargetStaysListed` on the list being cleared only while nothing is selected.
`DecisionHolds` is what `ScanFollowsPolicy` and `NothingInBackground` need
between two steps: as long as no update is asked for, the decision the run loop
carries out, or has carried out, is the one of the moment, since everything
that changes its inputs asks for an update; while the menu is between its change
and the flag, nothing is promised. `SnapshotHolds` does the same for
`SelectsWhatItRead`: while the page uses its copy of the list, the list only
grows, and the cursor is on it. The lemmas say what each function of `gamepad_discovery.c` keeps. `NeverDeaf` splits the
steps by whether they end an attempt, which all call `resume_scanning_hint`, or
only change who is listed.

**IineLinkProofs.** `Spec => []IineIInv` for any number of attempts. A reply is
matched by its serial alone, so `RepliesAnswerTheRequest` rests on
`SerialsCount` (serials count the requests made, so they are not used twice) and
`AskedInOrder` (no answer is due to a serial yet to come, and the one last asked
is of the step's own kind); `ConsentComesFirst` rests on `QuestionIsForOthers`.
`BusyIsOutstanding`, `ConsentIsFirst` and `RepliesMatch` follow.

**AdvertisementCacheProofs.** `CacheTypeOK` is inductive: a device never has two
entries. `Spec => []CacheIInv` adds the history. An entry is exactly as old as
its device is silent (`AgeIsSilence`), although the age is a difference modulo
`Wrap`: an entry that has outlived its time goes with the next packet of anyone,
so none gets old enough for the clock to come round. It reads like a set of
packets since the last silence (`SaidByHeard`), and like all of them unless more
devices were heard at a time than fit (`HeardIsSaid`); joining a packet adds it
to the set, whichever order they come in (`JoinedReads`). That a packet of a new
device then never replaces an entry is the pigeonhole principle over the devices
that are audible (`RoomLeft`), which are finitely many though `Devices` need not
be. `JudgedFairly` follows, with `ClassIsSaid`: no class without a packet that
says so.

**PlaybackProofs.** `Spec => []SoundIInv`, for any length of the queue and of
the start, and whatever the panel does. `SoundOnlyInGame` and
`StopReachesTheTask` rest on what `SoundIInv` adds: a queue is open exactly while
a task is left (`TaskAndQueue`), a game that began with sound has its queue
until it calls `gb_audio_stop` (`SoundAndPlace`), which has set the flag before
it empties the queue and leaves the stop block for a task that waits for blocks
(`StopUnderWay`), and the way to the codec's sleep is only taken without a task
(`SleepIsSilent`). Most steps do not touch the sound; one lemma
(`QuietMoveKeeps`) covers them, and the others have one each.

`Spec => []PictureIInv` is the same for the picture, for any number of rows and
any shades. `Turns` says who may draw: the frame task from a submission until its
notice, the loop only when the task has nothing left. As long as no transfer was
given up, `Transfer` says that the strip and the transfer under way belong to
the drawing, and `Progress` that the rows it has passed show its frame while the
rows ahead still show what is remembered, unless that was declared invalid
before the first strip. `DrawnIsShown` is what is left when nobody draws. The
invariant says nothing more once `late` holds: the code does not recover the
token of a transfer it gave up.

Model-checked only: liveness (`PruneEnds`, `StopReturns`, `DisconnectPauses`,
`GameCatchesUp`, `AttemptsEnd`, `UpdatesEnd`, `HandshakeEnds`), which is out of
the prover's reach, as are ENABLED and induction over data: the sum `used`
of the sizes in a table is not reasoned about by its definition. The two properties that the
code violates and the five configurations below them are TLC's alone.

## 5. Not modelled

* The emulator core, the board's drivers, btstack and most of bluepad32 come
  from other projects and are vendored; with the generated font they are more
  than nine tenths of the repository's lines, so the modelled share of all lines
  stays small. btstack appears in `Controller` and `IineLink` as what
  it may answer. The emulator is an instruction interpreter whose state is out
  of a model checker's reach.
* Frame and sound pacing are arithmetic on measured times; `Playback` allows
  every answer they may give.
* Boot pictures and chime, the conversion of pixels, game names (UTF-8 and URL
  decoding of one string), the test screen and the layout of the other screens
  keep no state that others use.
* HTTP parsing, the Origin check, the page's JavaScript, the Wi-Fi driver's own
  states and logging are left out, as are packing and release tools.
* Of the application flow, the list, settings and test screens only choose what
  the modelled parts do next.

Some behaviours are known and have no property, since no document speaks of
them: a frame error is never cleared, so drawing stays refused until a restart;
a stop of the sound that timed out makes the next start fail until a later stop
succeeds; a failed stop at a pause ends the game without the save the pause menu
would have made; OK may select the first candidate in the pass in which it was
found, before the screen shows it.

## 6. Plan

1. done: `SerialNumber`, `RomTable`, `Catalog`, `AtomicCatalog` with the
   inductive invariant proved; `Saves` with its invariant proved; `Management`.
2. done: `InputBuffer` with its invariant proved; `GameInput`.
3. done: `Controller`, `IineLink`, `AdvertisementCache`, each with an invariant
   proved; `Audio`, `Display`, `Playback`, with the invariant of the sound proved.
4. done: proofs that `Catalog` implements `AtomicCatalog` and `GameInput`
   `InputBuffer`; of every invariant and step property the runs check.
5. `RomSpace` and pacing: the loops of `find_gap`, `gb_storage_available` and
   the pacing functions against reference definitions over bounded inputs.
