---------------------------- MODULE InputBuffer ----------------------------
(***************************************************************************)
(* The controller's live state and the buffer of its changes the emulation *)
(* loop reads: gb_input.c, used by gamepad.c inside one critical section   *)
(* per call.  The Bluetooth task reports samples, the menu task turns      *)
(* gameplay on and off and takes one state per emulated frame; the clock   *)
(* of both is esp_timer_get_time.                                          *)
(*                                                                         *)
(* s_sample and the buffer's latest are written together by set_sample and *)
(* are one variable here.  The last four variables are history: no action *)
(* of the code reads them.                                                 *)
(***************************************************************************)
EXTENDS Integers, Sequences

CONSTANTS
  Buttons,      \* the keys a Game Boy has a use for
  Capacity,     \* GB_INPUT_BUFFER_CAPACITY
  MaxAge,       \* GB_INPUT_BUFFER_MAX_AGE_US, in ticks of the clock
  MaxNow,       \* bound: the clock stops there
  MaxChanges    \* bound: how many reports the controller makes

ASSUME InputBufferAssumption ==
  /\ Capacity \in Nat \ {0}
  /\ MaxAge \in Nat /\ MaxNow \in Nat /\ MaxChanges \in Nat

VARIABLES
  now,          \* esp_timer_get_time
  sample,       \* s_sample, s_input_buffer.latest
  events,       \* the ring from head, count entries
  enabled, armed,
  dropped,      \* states discarded so far, what the log line counts
  reported,     \* the reported_drops of gamepad_frame_snapshot
  played,       \* the sample the current frame plays
  changes,      \* history: changes of keys or connection reported so far
  seen,         \* history: the newest change a frame played, or that came
                \* while none was being kept
  wentDown,     \* history: keys a report showed going down since gameplay was
                \* last switched
  releasedAt    \* history: when each key was last let go

buffer == <<sample, events, enabled, armed, dropped, reported, played>>
history == <<changes, seen, wentDown, releasedAt>>
inputVars == <<now, buffer, history>>

\* any_button is set by every mapped key; `other` stands for the buttons that
\* have no use in a game.
Gone == [connected |-> FALSE, keys |-> {}, other |-> FALSE]
Samples == [connected : {TRUE}, keys : SUBSET Buttons, other : BOOLEAN] \union {Gone}
released(p) == p.connected /\ ~p.other /\ p.keys = {}

\* What a frame reads of a sample, and what the ring keeps of one.
Played(p) == [connected |-> p.connected, keys |-> p.keys]
Silent == [connected |-> sample.connected, keys |-> {}]
Event(p) == [keys |-> p.keys, at |-> now, n |-> changes + 1]

InputInit ==
  /\ now = 0
  /\ sample = Gone /\ events = <<>>
  /\ enabled = FALSE /\ armed = FALSE
  /\ dropped = 0 /\ reported = 0
  /\ played = Played(Gone)
  /\ changes = 0 /\ seen = 0 /\ wentDown = {}
  /\ releasedAt = [k \in Buttons |-> 0]

---------------------------------------------------------------------------
\* gb_input_buffer_push, by the Bluetooth task.

(* Mutant: a disconnection empties the ring but leaves the buffer armed. *)
PushCleared_StaysArmed(p) ==
  /\ ~p.connected \/ ~enabled
  /\ events' = <<>>
  /\ seen' = changes' /\ UNCHANGED <<armed, dropped>>

\* Without a controller, or outside a game, nothing is kept.
PushCleared(p) ==
  /\ ~p.connected \/ ~enabled
  /\ events' = <<>> /\ armed' = FALSE
  /\ seen' = changes' /\ UNCHANGED dropped

\* A controller held when the game began counts only once it is let go.
PushUnarmed(p) ==
  /\ p.connected /\ enabled /\ ~armed
  /\ armed' = released(p)
  /\ seen' = changes' /\ UNCHANGED <<events, dropped>>

PushSame(p) ==
  /\ p.connected /\ enabled /\ armed /\ p.keys = sample.keys
  /\ UNCHANGED <<events, armed, dropped, seen>>

\* A full ring is emptied first, the releases with the presses before them.
PushQueued(p) ==
  /\ p.connected /\ enabled /\ armed /\ p.keys # sample.keys
  /\ IF Len(events) = Capacity
     THEN events' = <<Event(p)>> /\ dropped' = dropped + Len(events)
     ELSE events' = Append(events, Event(p)) /\ UNCHANGED dropped
  /\ UNCHANGED <<armed, seen>>

\* set_sample
Report(p) ==
  /\ sample' = p
  /\ changes' = IF Played(p) = Played(sample) THEN changes ELSE changes + 1
  /\ PushCleared(p) \/ PushUnarmed(p) \/ PushSame(p) \/ PushQueued(p)
  /\ wentDown' = IF p.connected THEN wentDown \union (p.keys \ sample.keys) ELSE {}
  /\ releasedAt' = [k \in Buttons |->
                      IF k \in sample.keys \ p.keys THEN now ELSE releasedAt[k]]
  /\ UNCHANGED <<now, enabled, reported, played>>

---------------------------------------------------------------------------
\* The menu task, which runs the emulation loop.

(* Mutant: the buffer is armed without waiting for a release. *)
SetGameplay_AtOnce(on) ==
  /\ events' = <<>>
  /\ enabled' = on /\ armed' = (on /\ sample.connected)
  /\ seen' = changes /\ wentDown' = {}
  /\ UNCHANGED <<now, sample, dropped, reported, played, changes, releasedAt>>

\* gb_input_buffer_reset, by gamepad_set_gameplay
SetGameplay(on) ==
  /\ events' = <<>>
  /\ enabled' = on
  /\ armed' = (on /\ released(sample))
  /\ seen' = changes /\ wentDown' = {}
  /\ UNCHANGED <<now, sample, dropped, reported, played, changes, releasedAt>>

(* Mutant: a backlog is stale when its newest entry is. *)
Stale_Newest == events # <<>> /\ now - events[Len(events)].at > MaxAge

Stale == events # <<>> /\ now - Head(events).at > MaxAge

TakeNothing ==
  /\ ~enabled \/ ~armed
  /\ played' = Silent
  /\ UNCHANGED <<events, dropped, seen>>

(* Mutant: a stale backlog is discarded without being counted. *)
TakeStale_Uncounted ==
  /\ enabled /\ armed /\ Stale
  /\ played' = Played(sample)
  /\ events' = <<>> /\ UNCHANGED dropped
  /\ seen' = changes

\* The whole backlog goes with its oldest entry, and the game sees the
\* controller as it is.
TakeStale ==
  /\ enabled /\ armed /\ Stale
  /\ played' = Played(sample)
  /\ events' = <<>> /\ dropped' = dropped + Len(events)
  /\ seen' = changes

TakeLatest ==
  /\ enabled /\ armed /\ events = <<>>
  /\ played' = Played(sample)
  /\ seen' = changes
  /\ UNCHANGED <<events, dropped>>

TakeOldest ==
  /\ enabled /\ armed /\ events # <<>> /\ ~Stale
  /\ played' = [connected |-> TRUE, keys |-> Head(events).keys]
  /\ seen' = Head(events).n
  /\ events' = Tail(events)
  /\ UNCHANGED dropped

\* gamepad_frame_snapshot: drops not yet reported are logged with the frame.
Take ==
  /\ TakeNothing \/ TakeStale \/ TakeLatest \/ TakeOldest
  /\ reported' = dropped'
  /\ UNCHANGED <<now, sample, enabled, armed, changes, wentDown, releasedAt>>

\* Bounds: the clock stops at MaxNow, the controller after MaxChanges.
\* device_ready reports a controller with every key up, whatever the player
\* holds; the first report of controller_data then shows a key that was held
\* all along going down.
Tick ==
  /\ now < MaxNow
  /\ now' = now + 1
  /\ UNCHANGED <<buffer, history>>

Change ==
  /\ changes < MaxChanges
  /\ \E p \in Samples :
       /\ p # sample
       /\ p.connected /\ ~sample.connected => released(p)
       /\ Report(p)

InputNext ==
  \/ Change
  \/ \E on \in BOOLEAN : SetGameplay(on)
  \/ Take
  \/ Tick

InputSpec == InputInit /\ [][InputNext]_inputVars

---------------------------------------------------------------------------
InputTypeOK ==
  /\ now \in Nat
  /\ sample \in Samples
  /\ events \in Seq([keys : SUBSET Buttons, at : Nat, n : Nat])
  /\ Len(events) <= Capacity
  /\ enabled \in BOOLEAN /\ armed \in BOOLEAN
  /\ dropped \in Nat /\ reported \in Nat
  /\ played \in [connected : BOOLEAN, keys : SUBSET Buttons]
  /\ changes \in Nat /\ seen \in Nat
  /\ wentDown \in SUBSET Buttons
  /\ releasedAt \in [Buttons -> Nat]

\* The newest waiting state is the live one, through every overflow, discard
\* and disconnection: the frame that empties the ring plays what the player is
\* holding, and no key stays down in the game.
LastIsLive == events # <<>> => events[Len(events)].keys = sample.keys

\* A frame plays only keys that a report showed going down since the game was
\* entered or resumed, and since the controller connected: what the reports show
\* as held through the menu does not reach the game.  It says nothing of a key
\* that is held while the controller connects: the reports have it up at first
\* and going down afterwards, and the game plays it (NoCarriedKeyInPlay).
OnlyNewKeysInPlay == [][Take => played'.keys \subseteq wentDown]_inputVars

\* Changes are played in the order they were made, one a frame; one that no
\* frame plays is counted by the warning of that frame, unless it came while
\* the buffer was not armed, or a disconnection or a switch of gameplay cleared
\* it away.
NoSilentSkip ==
  [][Take => /\ seen <= seen'
             /\ seen' <= seen + 1 \/ reported' # reported]_inputVars

\* A frame plays a key that is no longer down only within MaxAge of its
\* release, however long the emulation stalled.
NoGhostKeys ==
  [][Take => \A k \in played'.keys \ sample.keys : now - releasedAt[k] <= MaxAge]_inputVars

\* The inductive invariant: an armed buffer holds the changes the game has yet
\* to see, in order, and nothing else.
Armed == armed => enabled /\ sample.connected /\ sample.keys \subseteq wentDown
OnlyWhenArmed == events # <<>> => armed
Consecutive ==
  armed =>
    /\ \A i \in 1 .. Len(events) : events[i].n = changes - Len(events) + i
    /\ seen <= changes - Len(events)
    /\ seen = changes - Len(events) \/ reported < dropped
Counted == reported <= dropped /\ seen <= changes
Waiting ==
  \A i \in 1 .. Len(events) :
    /\ events[i].at <= now
    /\ events[i].keys \subseteq wentDown
    /\ \A k \in events[i].keys \ sample.keys : events[i].at <= releasedAt[k]

InputIInv ==
  /\ InputTypeOK
  /\ Armed
  /\ OnlyWhenArmed
  /\ LastIsLive
  /\ Consecutive
  /\ Counted
  /\ Waiting
=============================================================================
