----------------------------- MODULE Controller -----------------------------
(***************************************************************************)
(* Choosing, connecting and losing a BLE controller: the discovery list,   *)
(* the scan policy, the one device slot and the links of the radio, on the *)
(* Bluetooth task, against the menu task that selects, cancels, confirms   *)
(* and opens the management page.                                          *)
(*                                                                         *)
(* Every critical section of the menu task is a step.  The handlers of the *)
(* Bluetooth task run one after another on its run loop and are steps,     *)
(* except apply_scan_policy, whose reading and acting are apart, because   *)
(* the menu may change its mind in between.                                *)
(*                                                                         *)
(* Names, kinds and signal strength are left out.  Two controllers are     *)
(* never asked for at once: a cancelled attempt is answered before the     *)
(* user can select another and the other is heard.                         *)
(***************************************************************************)
EXTENDS Naturals, Sequences

CONSTANTS
  Peers,        \* the controllers in range
  Iine,         \* those that announce themselves as L1241
  MaxListed,    \* GAMEPAD_DISCOVERY_MAX
  None          \* no controller

ASSUME ControllerAssumption ==
  Iine \subseteq Peers /\ MaxListed \in Nat \ {0} /\ None \notin Peers

VARIABLES
  disc,         \* s_discovery
  slot,         \* g_devices[0]
  link,         \* the stack's connection to each controller
  owner,        \* s_owner is the slot
  connected,    \* s_sample.connected
  held,         \* s_sample has a key down
  allowed,      \* s_scan_allowed
  updating,     \* s_scan_update_pending
  queued,       \* s_scan_update is on the run loop
  applying,     \* what apply_scan_policy decided, before it acts
  enabled,      \* bt_scanning_enabled, and is_scanning
  radio,        \* the stack is asked to scan
  passTimer,    \* s_passkey_timer runs, for s_passkey_address
  ready,        \* on_init_complete was called; a policy was applied since
  task,         \* where the menu task is
  back,         \* where it returns to from update_scan_policy
  snap,         \* pairing_loop's discovery
  cursor        \* pairing_loop's selected

board == <<task, back, snap, cursor>>
input == <<owner, connected, held>>
policy == <<allowed, updating, queued, applying>>
vars == <<disc, slot, link, input, policy, enabled, radio, passTimer, ready, board>>

Phases == {"discovered", "linked", "secured", "confirming", "setup", "ready"}
NoSlot == [peer |-> None, phase |-> "none", repaired |-> FALSE, timed |-> FALSE]
NewSlot(p) == [peer |-> p, phase |-> "discovered", repaired |-> FALSE, timed |-> TRUE]
NothingFound == [list |-> <<>>, selected |-> None, passkey |-> FALSE, failed |-> FALSE,
                 pending |-> FALSE, asked |-> FALSE]
Listed(d) == {d.list[i] : i \in DOMAIN d.list}

---------------------------------------------------------------------------
\* gamepad_discovery: the list and the selection, changed under s_lock.
observe(d, p) ==
  IF p \in Listed(d) \/ Len(d.list) = MaxListed THEN d
  ELSE [d EXCEPT !.list = Append(@, p)]

\* The flags that belong to one selection.
Unmarked(d) ==
  [d EXCEPT !.passkey = FALSE, !.failed = FALSE, !.pending = FALSE, !.asked = FALSE]
select(d, p) == [Unmarked(d) EXCEPT !.selected = p]

begin_scan(d) == IF d.selected # None THEN d ELSE [d EXCEPT !.list = <<>>]
clear_selection(d) == begin_scan(select(d, None))

pairing_done(d, p, ok) ==
  IF d.selected # p THEN d
  ELSE [d EXCEPT !.passkey = FALSE, !.failed = ~ok, !.pending = @ /\ ok, !.asked = @ /\ ok]
iine_confirmation(d, p, pending) ==
  IF d.selected # p THEN d ELSE [d EXCEPT !.pending = pending, !.asked = FALSE]

---------------------------------------------------------------------------
\* The Bluetooth task: what its handlers share.
BtIdle == applying = "no"
Open == link[slot.peer] = "open"
InPhase(phase) == slot.phase = phase /\ Open
StepTo(phase) == slot' = [slot EXCEPT !.phase = phase]

\* update_scan_policy, called by a handler: nothing can come between its parts.
Update == updating' = TRUE /\ queued' = (queued \/ ~updating)

\* resume_scanning_hint
ResumeScan == radio' = (radio \/ enabled)

\* device_disconnected
(* Mutant: the keys of a lost controller stay down. *)
device_disconnected_Held ==
  /\ disc' = pairing_done(disc, slot.peer, FALSE)
  /\ passTimer' = IF passTimer = slot.peer THEN None ELSE passTimer
  /\ IF owner
     THEN /\ owner' = FALSE /\ connected' = FALSE /\ UNCHANGED held
          /\ Update /\ UNCHANGED <<allowed, applying>>
     ELSE UNCHANGED <<input, policy>>
device_disconnected ==
  /\ disc' = pairing_done(disc, slot.peer, FALSE)
  /\ passTimer' = IF passTimer = slot.peer THEN None ELSE passTimer
  /\ IF owner
     THEN /\ owner' = FALSE /\ connected' = FALSE /\ held' = FALSE
          /\ Update /\ UNCHANGED <<allowed, applying>>
     ELSE UNCHANGED <<input, policy>>

\* hog_disconnect: an open link is closed, an attempt is cancelled; either is
\* answered later.  The slot stays.
Hangup(p) ==
  /\ link' = [link EXCEPT ![p] = CASE @ = "open" -> "closing"
                                   [] @ = "connecting" -> "cancelled"
                                   [] OTHER -> @]
  /\ ResumeScan
HangupOnly == Hangup(slot.peer) /\ UNCHANGED <<input, policy, enabled, ready, board>>

\* uni_hid_device_disconnect and uni_hid_device_delete.
Disconnect == Hangup(slot.peer) /\ device_disconnected
DropSlot == Disconnect /\ slot' = NoSlot /\ UNCHANGED <<enabled, ready, board>>

---------------------------------------------------------------------------
\* The Bluetooth task: the scan.

\* on_init_complete starts the scan without asking the policy.
PlatformReady ==
  /\ BtIdle /\ ready = "no"
  /\ ready' = "started" /\ enabled' = TRUE /\ radio' = (radio \/ ~enabled)
  /\ UNCHANGED <<disc, slot, link, input, policy, passTimer, board>>

\* apply_scan_policy reads what is wanted ...
ApplyReads ==
  /\ BtIdle /\ queued
  /\ queued' = FALSE /\ updating' = FALSE
  /\ applying' = IF allowed /\ ~connected THEN "scan" ELSE "stop"
  /\ passTimer' = IF disc.passkey THEN passTimer ELSE None
  /\ UNCHANGED <<disc, slot, link, input, allowed, enabled, radio, ready, board>>

\* ... then drops a slot that is not the selected one, or hands it the user's
\* confirmation, which may come too late, and starts or stops the scan.
ScanAsDecided(asked) ==
  /\ applying' = "no" /\ UNCHANGED <<allowed, updating, queued>>
  /\ enabled' = (applying = "scan")
  /\ radio' = IF enabled = (applying = "scan") THEN asked ELSE applying = "scan"
  /\ ready' = IF ready = "no" THEN ready ELSE "applied"
  /\ UNCHANGED <<input, board>>

(* Mutant: a slot whose link is already up is left to finish. *)
Unwanted_Discovered == slot # NoSlot /\ ~owner /\ slot.peer # disc.selected /\ ~Open

Unwanted == slot # NoSlot /\ ~owner /\ slot.peer # disc.selected
Confirming == slot # NoSlot /\ ~owner /\ ~Unwanted /\ disc.pending /\ disc.asked

ApplyDrops ==
  /\ ~BtIdle /\ Unwanted
  /\ link' = [link EXCEPT ![slot.peer] = CASE @ = "open" -> "closing"
                                           [] @ = "connecting" -> "cancelled"
                                           [] OTHER -> @]
  /\ slot' = NoSlot
  /\ passTimer' = IF passTimer = slot.peer THEN None ELSE passTimer
  /\ ScanAsDecided(radio \/ enabled)
  /\ UNCHANGED disc

ApplyConfirms ==
  /\ ~BtIdle /\ Confirming
  /\ IF InPhase("confirming")
     THEN /\ disc' = iine_confirmation(disc, slot.peer, FALSE)
          /\ slot' = [slot EXCEPT !.phase = "setup", !.timed = TRUE]
     ELSE disc' = [disc EXCEPT !.asked = FALSE] /\ UNCHANGED slot
  /\ ScanAsDecided(radio)
  /\ UNCHANGED <<link, passTimer>>

ApplyConfirmsLate ==
  /\ ~BtIdle /\ Confirming /\ InPhase("confirming")
  /\ link' = [link EXCEPT ![slot.peer] = "closing"]
  /\ slot' = [slot EXCEPT !.timed = FALSE]
  /\ disc' = pairing_done(disc, slot.peer, FALSE)
  /\ passTimer' = IF passTimer = slot.peer THEN None ELSE passTimer
  /\ ScanAsDecided(radio \/ enabled)

ApplyScans ==
  /\ ~BtIdle /\ ~Unwanted /\ ~Confirming
  /\ ScanAsDecided(radio)
  /\ UNCHANGED <<disc, slot, link, passTimer>>

\* An advertisement.  Any is listed; the selected controller's is answered
\* with a slot and a connection, which is refused while the stack still has
\* one to it.
Heard(p) == radio /\ BtIdle /\ slot.peer # p /\ link[p] \in {"none", "cancelled"}
Admitted(p) == disc.selected = p /\ p \in Listed(observe(disc, p)) /\ slot = NoSlot

AdvertListed(p) ==
  /\ Heard(p) /\ ~Admitted(p)
  /\ disc' = IF p \in Listed(observe(disc, p))
             THEN pairing_done(observe(disc, p), p, TRUE) ELSE disc
  /\ UNCHANGED <<slot, link, input, policy, enabled, radio, passTimer, ready, board>>

AdvertConnects(p) ==
  /\ Heard(p) /\ Admitted(p) /\ link[p] = "none"
  /\ \A q \in Peers : link[q] \notin {"connecting", "cancelled"}
  /\ disc' = pairing_done(disc, p, TRUE)
  /\ slot' = NewSlot(p) /\ link' = [link EXCEPT ![p] = "connecting"] /\ radio' = FALSE
  /\ UNCHANGED <<input, policy, enabled, passTimer, ready, board>>

(* Mutant: a refused connection leaves the radio off. *)
AdvertRefused_Deaf(p) ==
  /\ Heard(p) /\ Admitted(p) /\ link[p] # "none"
  /\ disc' = pairing_done(disc, p, FALSE)
  /\ passTimer' = IF passTimer = p THEN None ELSE passTimer
  /\ radio' = FALSE
  /\ UNCHANGED <<slot, link, input, policy, enabled, ready, board>>

AdvertRefused(p) ==
  /\ Heard(p) /\ Admitted(p) /\ link[p] # "none"
  /\ disc' = pairing_done(disc, p, FALSE)
  /\ passTimer' = IF passTimer = p THEN None ELSE passTimer
  /\ radio' = enabled
  /\ UNCHANGED <<slot, link, input, policy, enabled, ready, board>>

---------------------------------------------------------------------------
\* The Bluetooth task: links.  A cancelled attempt may still succeed, and then
\* nothing is told of it.
LinkUp(p) ==
  /\ BtIdle /\ link[p] \in {"connecting", "cancelled"}
  /\ link' = [link EXCEPT ![p] = "open"]
  /\ IF slot.peer = p THEN StepTo("linked") ELSE UNCHANGED slot
  /\ UNCHANGED <<disc, input, policy, enabled, radio, passTimer, ready, board>>

\* A failed attempt names no controller: the slot that waits is told.
LinkFails(p) ==
  /\ BtIdle /\ link[p] \in {"connecting", "cancelled"}
  /\ link' = [link EXCEPT ![p] = "none"]
  /\ IF slot.phase \in {"none", "setup", "ready"}
     THEN UNCHANGED <<disc, slot, input, policy, passTimer>>
     ELSE device_disconnected /\ slot' = NoSlot
  /\ ResumeScan
  /\ UNCHANGED <<enabled, ready, board>>

\* Disconnection complete, asked for or not.
LinkClosed(p) ==
  /\ BtIdle /\ link[p] \in {"open", "closing"}
  /\ link' = [link EXCEPT ![p] = "none"]
  /\ IF slot.peer = p
     THEN device_disconnected /\ slot' = NoSlot /\ ResumeScan
     ELSE UNCHANGED <<disc, slot, input, policy, radio, passTimer>>
  /\ UNCHANGED <<enabled, ready, board>>

\* A link nobody wants is closed if the controller insists on pairing.
OrphanPairs(p) ==
  /\ BtIdle /\ link[p] = "open" /\ slot.peer # p
  /\ Hangup(p)
  /\ UNCHANGED <<disc, slot, input, policy, enabled, passTimer, ready, board>>

---------------------------------------------------------------------------
\* The Bluetooth task: pairing and setting up the slot's controller.
Passkey ==
  /\ BtIdle /\ InPhase("linked")
  /\ disc.selected = slot.peer
  /\ disc' = [disc EXCEPT !.passkey = TRUE, !.failed = FALSE]
  /\ slot' = [slot EXCEPT !.timed = TRUE]
  /\ passTimer' = slot.peer
  /\ UNCHANGED <<link, input, policy, enabled, radio, ready, board>>

PairingSays(ok) ==
  /\ disc' = pairing_done(disc, slot.peer, ok)
  /\ passTimer' = IF disc.selected = slot.peer THEN None ELSE passTimer

PasskeyCancelled ==
  /\ BtIdle /\ InPhase("linked")
  /\ PairingSays(TRUE)
  /\ UNCHANGED <<slot, link, input, policy, enabled, radio, ready, board>>

PairingOk ==
  /\ BtIdle /\ InPhase("linked")
  /\ PairingSays(TRUE) /\ StepTo("secured")
  /\ UNCHANGED <<link, input, policy, enabled, radio, ready, board>>

\* The controller lost its bond: the old one is deleted, once.
RepairStarts ==
  /\ BtIdle /\ InPhase("linked") /\ ~slot.repaired
  /\ PairingSays(FALSE) /\ slot' = [slot EXCEPT !.repaired = TRUE]
  /\ UNCHANGED <<link, input, policy, enabled, radio, ready, board>>

PairingFails ==
  /\ BtIdle /\ InPhase("linked")
  /\ PairingSays(FALSE) /\ HangupOnly /\ UNCHANGED slot

\* A GATT query fails, or encryption ends.
GattFails ==
  /\ BtIdle /\ slot.phase \in {"linked", "secured", "setup", "ready"} /\ Open
  /\ HangupOnly /\ UNCHANGED <<disc, slot, passTimer>>

\* The HID service's report maps are read: none may be a controller's.
HidFound ==
  /\ BtIdle /\ InPhase("secured") /\ slot.peer \notin Iine
  /\ StepTo("setup") /\ ResumeScan
  /\ UNCHANGED <<disc, link, input, policy, enabled, passTimer, ready, board>>

HidUnsupported ==
  /\ BtIdle /\ InPhase("secured") /\ slot.peer \notin Iine
  /\ DropSlot

\* The L1241 handshake: the firmware is known, or the user is asked.
IineVerified ==
  /\ BtIdle /\ InPhase("secured") /\ slot.peer \in Iine
  /\ StepTo("setup")
  /\ UNCHANGED <<disc, link, input, policy, enabled, radio, passTimer, ready, board>>

(* Mutant: nothing bounds the wait for the user. *)
IinePending_Untimed ==
  /\ BtIdle /\ InPhase("secured") /\ slot.peer \in Iine
  /\ slot' = [slot EXCEPT !.phase = "confirming", !.timed = FALSE]
  /\ disc' = iine_confirmation(disc, slot.peer, TRUE)
  /\ UNCHANGED <<link, input, policy, enabled, radio, passTimer, ready, board>>

IinePending ==
  /\ BtIdle /\ InPhase("secured") /\ slot.peer \in Iine
  /\ slot' = [slot EXCEPT !.phase = "confirming", !.timed = TRUE]
  /\ disc' = iine_confirmation(disc, slot.peer, TRUE)
  /\ UNCHANGED <<link, input, policy, enabled, radio, passTimer, ready, board>>

\* fail: the slot is left for the disconnection to delete, without a timer.
IineFails ==
  /\ BtIdle /\ slot.phase \in {"secured", "confirming", "setup", "ready"} /\ Open
  /\ slot.peer \in Iine
  /\ Disconnect /\ slot' = [slot EXCEPT !.timed = FALSE]
  /\ UNCHANGED <<enabled, ready, board>>

\* device_ready
DeviceReady ==
  /\ BtIdle /\ InPhase("setup") /\ disc.selected = slot.peer
  /\ disc' = pairing_done(disc, slot.peer, TRUE) /\ passTimer' = None
  /\ slot' = [slot EXCEPT !.phase = "ready", !.timed = FALSE]
  /\ owner' = TRUE /\ connected' = TRUE /\ held' = FALSE
  /\ Update
  /\ UNCHANGED <<link, allowed, applying, enabled, radio, ready, board>>

\* The platform declines: not the selection any more, or not a controller.
DeviceDeclined ==
  /\ BtIdle /\ InPhase("setup")
  /\ DropSlot

Report ==
  /\ BtIdle /\ slot.phase \in {"ready", "setup"} /\ Open /\ owner
  /\ held' \in BOOLEAN
  /\ UNCHANGED <<disc, slot, link, owner, connected, policy, enabled, radio, passTimer,
                 ready, board>>

---------------------------------------------------------------------------
\* The Bluetooth task: timers.
ConnectionTimeout ==
  /\ BtIdle /\ slot.timed /\ slot.phase # "ready"
  /\ DropSlot

PasskeyTimeout ==
  /\ BtIdle /\ passTimer # None
  /\ disc' = pairing_done(disc, passTimer, FALSE) /\ passTimer' = None
  /\ UNCHANGED <<slot, link, input, policy, enabled, radio, ready, board>>

---------------------------------------------------------------------------
\* The menu task.
BtUntouched == UNCHANGED <<slot, link, input, applying, enabled, radio, passTimer, ready>>
Goto(t) == task' = t /\ UNCHANGED back
ThenUpdate(t) == task' = "update" /\ back' = t

(* Mutant: a request made while another is carried out is not queued. *)
UpdateFlags_Late ==
  /\ task = "update"
  /\ updating' = BtIdle
  /\ task' = IF updating \/ ~BtIdle THEN back ELSE "enqueue"
  /\ UNCHANGED <<disc, allowed, queued, back, snap, cursor>> /\ BtUntouched
(* Mutant: the flag is set, the callback is not queued. *)
UpdateFlags_Only ==
  /\ task = "update"
  /\ updating' = TRUE /\ task' = back
  /\ UNCHANGED <<disc, allowed, queued, back, snap, cursor>> /\ BtUntouched

UpdateFlags ==
  /\ task = "update"
  /\ updating' = TRUE
  /\ task' = IF updating THEN back ELSE "enqueue"
  /\ UNCHANGED <<disc, allowed, queued, back, snap, cursor>> /\ BtUntouched

UpdateEnqueues ==
  /\ task = "enqueue"
  /\ queued' = TRUE /\ task' = back
  /\ UNCHANGED <<disc, allowed, updating, back, snap, cursor>> /\ BtUntouched

\* management_loop keeps the scan off while the page is open.
OpenManagement ==
  /\ task = "home" /\ allowed' = FALSE /\ ThenUpdate("manage")
  /\ UNCHANGED <<disc, updating, queued, snap, cursor>> /\ BtUntouched

CloseManagement ==
  /\ task = "manage" /\ allowed' = TRUE /\ ThenUpdate("home")
  /\ UNCHANGED <<disc, updating, queued, snap, cursor>> /\ BtUntouched

MenuOnly == UNCHANGED <<allowed, updating, queued>> /\ BtUntouched

OpenPairing ==
  /\ task = "home" /\ ~connected
  /\ disc' = begin_scan(disc)
  /\ cursor' = 1 /\ Goto("top")
  /\ MenuOnly /\ UNCHANGED snap

PairingEnds ==
  /\ task = "top" /\ connected
  /\ Goto("home") /\ snap' = NothingFound /\ cursor' = 1
  /\ MenuOnly /\ UNCHANGED disc

Snapshot ==
  /\ task = "top" /\ ~connected
  /\ snap' = disc
  /\ cursor' = IF disc.list # <<>> /\ cursor > Len(disc.list) THEN Len(disc.list) ELSE cursor
  /\ Goto("drain")
  /\ MenuOnly /\ UNCHANGED disc

\* The buttons waiting are taken one by one against the snapshot.
LeavePairing ==
  /\ task = "drain" /\ snap.selected = None
  /\ Goto("home") /\ snap' = NothingFound /\ cursor' = 1
  /\ MenuOnly /\ UNCHANGED disc

ClearSelection ==
  /\ task = "drain" /\ snap.selected # None
  /\ disc' = clear_selection(disc)
  /\ ThenUpdate("resnap")
  /\ UNCHANGED <<snap, cursor>> /\ MenuOnly

(* Mutant: the list read before the cancellation is used again. *)
Resnap_Stale ==
  /\ task = "resnap"
  /\ snap' = [snap EXCEPT !.selected = None, !.pending = FALSE]
  /\ cursor' = 1 /\ Goto("drain")
  /\ MenuOnly /\ UNCHANGED disc

Resnap ==
  /\ task = "resnap"
  /\ snap' = disc /\ cursor' = 1 /\ Goto("drain")
  /\ MenuOnly /\ UNCHANGED disc

ConfirmIine ==
  /\ task = "drain" /\ snap.pending
  /\ disc.selected # None /\ disc.pending /\ ~disc.asked
  /\ disc' = [disc EXCEPT !.asked = TRUE]
  /\ ThenUpdate("drain")
  /\ UNCHANGED <<snap, cursor>> /\ MenuOnly

Browsing == task = "drain" /\ snap.selected = None /\ ~snap.pending /\ snap.list # <<>>

MoveCursor ==
  /\ Browsing
  /\ cursor' \in {(cursor % Len(snap.list)) + 1,
                  ((cursor + Len(snap.list) - 2) % Len(snap.list)) + 1}
  /\ MenuOnly /\ UNCHANGED <<disc, task, back, snap>>

SelectCandidate ==
  /\ Browsing /\ cursor <= Len(disc.list)
  /\ disc' = select(disc, disc.list[cursor])
  /\ ThenUpdate("drain")
  /\ UNCHANGED <<snap, cursor>> /\ MenuOnly

Drained ==
  /\ task = "drain"
  /\ Goto("top") /\ snap' = NothingFound
  /\ MenuOnly /\ UNCHANGED <<disc, cursor>>

---------------------------------------------------------------------------
Init ==
  /\ disc = NothingFound /\ slot = NoSlot /\ link = [p \in Peers |-> "none"]
  /\ owner = FALSE /\ connected = FALSE /\ held = FALSE
  /\ allowed = TRUE /\ updating = FALSE /\ queued = FALSE /\ applying = "no"
  /\ enabled = FALSE /\ radio = FALSE /\ passTimer = None /\ ready = "no"
  /\ task = "home" /\ back = "home" /\ snap = NothingFound /\ cursor = 1

Policy == PlatformReady \/ ApplyReads \/ ApplyDrops \/ ApplyConfirms \/ ApplyConfirmsLate
          \/ ApplyScans
Links ==
  \E p \in Peers :
    \/ AdvertListed(p) \/ AdvertConnects(p) \/ AdvertRefused(p)
    \/ LinkUp(p) \/ LinkFails(p) \/ LinkClosed(p) \/ OrphanPairs(p)
Pairing == Passkey \/ PasskeyCancelled \/ PairingOk \/ RepairStarts \/ PairingFails
Setup ==
  \/ GattFails \/ HidFound \/ HidUnsupported
  \/ IineVerified \/ IinePending \/ IineFails
  \/ DeviceReady \/ DeviceDeclined \/ Report
Timers == ConnectionTimeout \/ PasskeyTimeout
Bluetooth == Policy \/ Links \/ Pairing \/ Setup \/ Timers
Menu ==
  \/ UpdateFlags \/ UpdateEnqueues \/ OpenManagement \/ CloseManagement
  \/ OpenPairing \/ PairingEnds \/ Snapshot \/ LeavePairing
  \/ ClearSelection \/ Resnap \/ ConfirmIine \/ MoveCursor \/ SelectCandidate \/ Drained

Next == Bluetooth \/ Menu

Spec == Init /\ [][Next]_vars

\* The run loop serves its timers, its callbacks and the stack's events in turn,
\* so none of them waits for ever; the menu task is preempted, never stopped.
\* Advertisements, answers and keys need not come.
Answered(p) == (link[p] = "cancelled" /\ (LinkUp(p) \/ LinkFails(p)))
               \/ (link[p] = "closing" /\ LinkClosed(p))
FairSpec ==
  /\ Spec
  /\ WF_vars(UpdateFlags) /\ WF_vars(UpdateEnqueues)
  /\ WF_vars(ApplyReads)
  /\ WF_vars(ApplyDrops \/ ApplyConfirms \/ ApplyConfirmsLate \/ ApplyScans)
  /\ SF_vars(ConnectionTimeout) /\ SF_vars(PasskeyTimeout)
  /\ \A p \in Peers : SF_vars(Answered(p))

---------------------------------------------------------------------------
\* Properties.

Discoveries ==
  [list : Seq(Peers), selected : Peers \union {None},
   passkey : BOOLEAN, failed : BOOLEAN, pending : BOOLEAN, asked : BOOLEAN]
Slots ==
  {NoSlot} \union [peer : Peers, phase : Phases, repaired : BOOLEAN, timed : BOOLEAN]

(* The type of every variable. *)
ControllerTypeOK ==
  /\ disc \in Discoveries /\ Len(disc.list) <= MaxListed
  /\ snap \in Discoveries /\ Len(snap.list) <= MaxListed
  /\ slot \in Slots
  /\ link \in [Peers -> {"none", "connecting", "cancelled", "open", "closing"}]
  /\ {owner, connected, held, allowed, updating, queued, enabled, radio} \subseteq BOOLEAN
  /\ applying \in {"no", "scan", "stop"}
  /\ passTimer \in Peers \union {None}
  /\ ready \in {"no", "started", "applied"}
  /\ task \in {"home", "manage", "update", "enqueue", "top", "drain", "resnap"}
  /\ back \in {"home", "manage", "drain", "resnap"}
  /\ cursor \in 1..MaxListed

(* The sample and the slot agree, whatever order links, timers and reports  *)
(* come in: keys are down only while a controller owns the input, and the   *)
(* owner is a set up device whose link is not known to be gone              *)
(* (gamepad.c: device_disconnected, device_ready, controller_data).         *)
KeysNeedTheOwner ==
  /\ held => connected
  /\ connected <=> owner
  /\ owner => slot.phase = "ready" /\ link[slot.peer] \in {"open", "closing"}

(* Everything asked of the Bluetooth task has been carried out. *)
Settled == ~updating /\ BtIdle /\ task \notin {"update", "enqueue"}

(* No request is lost between the pending flag and the run loop: once the   *)
(* platform applied a policy and none is pending, the scan is on exactly    *)
(* when it is allowed and nothing is connected, however the menu's changes  *)
(* and the controller's coming and going interleave (gamepad.c:             *)
(* apply_scan_policy, update_scan_policy).                                  *)
ScanFollowsPolicy ==
  ready = "applied" /\ Settled => enabled = (allowed /\ ~connected)

(* "A cancelled selection must not finish pairing in the background"        *)
(* (gamepad.c, apply_scan_policy): once a cancellation has been carried     *)
(* out, the slot is empty, connected, or works for the selection.           *)
NothingInBackground ==
  Settled => slot = NoSlot \/ owner \/ slot.peer = disc.selected

(* The radio is never left deaf: whatever ended the last attempt, a device  *)
(* that scans for controllers and has none in its slot is listening         *)
(* (uni_bt_le.c: hog_connect, hog_disconnect, resume_scanning_hint).        *)
NeverDeaf == enabled /\ slot = NoSlot => radio

(* A passkey is on the screen only while the timer that will take it down   *)
(* runs for the controller it was shown for (gamepad.c: security_event,     *)
(* apply_scan_policy, device_disconnected).                                 *)
PasskeyIsTimed == disc.passkey => passTimer = disc.selected

(* The target of reconnection stays on the list, so a full list cannot keep *)
(* it from being admitted again (gamepad_discovery.c: observe, begin_scan). *)
TargetStaysListed == disc.selected # None => disc.selected \in Listed(disc)

(* What the properties below rest on between two steps.  A decision holds   *)
(* until an update is asked for, which the menu has done before it set the  *)
(* flag; while it is carried out, it is the decision of the moment.         *)
Unasked == ~updating /\ task # "update"
DecisionHolds ==
  Unasked =>
    /\ BtIdle /\ ready = "applied" => enabled = (allowed /\ ~connected)
    /\ ~BtIdle => (applying = "scan") = (allowed /\ ~connected)
    /\ BtIdle => slot = NoSlot \/ owner \/ slot.peer = disc.selected

(* The list the page read only grew since, and the cursor is on it.         *)
Grown(s, d) ==
  Len(s.list) <= Len(d.list) /\ \A i \in 1..Len(s.list) : d.list[i] = s.list[i]
Reading == task = "drain" \/ (task \in {"update", "enqueue"} /\ back = "drain")
SnapshotHolds ==
  Reading => Grown(snap, disc) /\ (snap.list # <<>> => cursor <= Len(snap.list))

(* The invariant of the proofs.                                             *)
ControllerIInv ==
  /\ ControllerTypeOK /\ KeysNeedTheOwner /\ PasskeyIsTimed /\ TargetStaysListed
  /\ DecisionHolds /\ SnapshotHolds

(* What OK selects is the candidate at the cursor of the list the page read,*)
(* although the Bluetooth task went on changing the list (game_main.c,      *)
(* pairing_loop).                                                           *)
SelectsWhatItRead ==
  [][disc'.selected \notin {disc.selected, None} =>
       cursor \in DOMAIN snap.list /\ disc'.selected = snap.list[cursor]]_vars

(* A slot is never kept for ever by an attempt: it is given up or becomes   *)
(* the owner, whatever the controller does (uni_hid_device.c,               *)
(* device_connection_timeout; uni_bt_le_iine.c, fail).                      *)
AttemptsEnd == slot # NoSlot ~> slot = NoSlot \/ owner

(* Every requested update is carried out. *)
UpdatesEnd == updating ~> ~updating

(* README.md and the recovery notes: cancelling or timing out an attempt    *)
(* cancels the connection. A link is open only for the slot.                *)
NoLinkIsForgotten == \A p \in Peers : link[p] = "open" => slot.peer = p

=============================================================================
