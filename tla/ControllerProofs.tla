-------------------------- MODULE ControllerProofs --------------------------
(***************************************************************************)
(* The sample, the passkey timer and the target of reconnection stay       *)
(* consistent for any controllers and any length of the list.              *)
(***************************************************************************)
EXTENDS Controller, TLAPS

(***************************************************************************)
(* The discovery list                                                      *)
(***************************************************************************)
Fits(d) == d \in Discoveries /\ Len(d.list) <= MaxListed
Aims(d) == Fits(d) /\ (d.selected # None => d.selected \in Listed(d))

\* e is d with flags of the selection changed, none of which shows a passkey
\* anew.
Refines(e, d) ==
  /\ e \in Discoveries /\ e.list = d.list /\ e.selected = d.selected
  /\ e.passkey => d.passkey

LEMMA RefinesAims ==
  ASSUME NEW d, NEW e, Aims(d), Refines(e, d) PROVE Aims(e)
BY DEF Aims, Fits, Refines, Listed

(* Looking for controllers only adds one to a list that has room. *)
LEMMA ObserveAims ==
  ASSUME NEW d, NEW p \in Peers, Aims(d)
  PROVE  /\ Aims(observe(d, p))
         /\ observe(d, p).selected = d.selected /\ observe(d, p).passkey = d.passkey
<1> DEFINE e == [d EXCEPT !.list = Append(d.list, p)]
<1>1. CASE observe(d, p) = d
  BY <1>1
<1>2. CASE observe(d, p) # d
  <2>1. observe(d, p) = e /\ Len(d.list) # MaxListed
    BY <1>2 DEF observe
  <2>2. d.list \in Seq(Peers) /\ Len(d.list) <= MaxListed /\ d \in Discoveries
    BY DEF Aims, Fits, Discoveries
  <2>3. Append(d.list, p) \in Seq(Peers) /\ Len(Append(d.list, p)) <= MaxListed
    BY <2>1, <2>2, ControllerAssumption
  <2>4. e \in Discoveries
    BY Zenon, <2>2, <2>3 DEF Discoveries
  <2>5. e.list = Append(d.list, p) /\ e.selected = d.selected /\ e.passkey = d.passkey
    BY Zenon, <2>2 DEF Discoveries
  <2>6. Listed(d) \subseteq {Append(d.list, p)[i] : i \in DOMAIN Append(d.list, p)}
    BY <2>2 DEF Listed
  <2>7. {Append(d.list, p)[i] : i \in DOMAIN Append(d.list, p)} = Listed(e)
    BY Zenon, <2>5 DEF Listed
  <2> HIDE DEF e
  <2>8. Aims(e)
    BY <2>3, <2>4, <2>5, <2>6, <2>7 DEF Aims, Fits
  <2> QED BY <2>1, <2>5, <2>8
<1> QED BY <1>1, <1>2

(* Selecting shows no passkey, and what is selected is what was asked for. *)
LEMMA SelectFits ==
  ASSUME NEW d, NEW p \in Peers \union {None}, Fits(d)
  PROVE  /\ select(d, p) \in Discoveries /\ select(d, p).list = d.list
         /\ select(d, p).selected = p /\ select(d, p).passkey = FALSE
<1>1. d \in Discoveries /\ FALSE \in BOOLEAN
  BY DEF Fits
<1>2. Unmarked(d) \in Discoveries /\ Unmarked(d).list = d.list /\ Unmarked(d).passkey = FALSE
  BY Zenon, <1>1 DEF Unmarked, Discoveries
<1> QED BY Zenon, <1>2 DEF select, Discoveries

LEMMA SelectAims ==
  ASSUME NEW d, NEW p \in Listed(d), Fits(d)
  PROVE  Aims(select(d, p)) /\ ~select(d, p).passkey
<1>1. p \in Peers
  BY DEF Fits, Discoveries, Listed
<1>2. /\ select(d, p) \in Discoveries /\ select(d, p).list = d.list
      /\ select(d, p).selected = p /\ select(d, p).passkey = FALSE
  BY <1>1, SelectFits
<1>3. Listed(select(d, p)) = Listed(d)
  BY Zenon, <1>2 DEF Listed
<1> QED BY <1>2, <1>3 DEF Aims, Fits

(* The list is only cleared while nothing is selected. *)
LEMMA BeginScanAims ==
  ASSUME NEW d, Aims(d)
  PROVE  /\ Aims(begin_scan(d))
         /\ begin_scan(d).selected = d.selected /\ begin_scan(d).passkey = d.passkey
<1>1. d \in Discoveries /\ Len(d.list) <= MaxListed
  BY DEF Aims, Fits
<1>2. CASE d.selected # None
  BY <1>2 DEF begin_scan
<1>3. CASE d.selected = None
  <2> DEFINE e == [d EXCEPT !.list = <<>>]
  <2>1. <<>> \in Seq(Peers) /\ Len(<<>>) = 0
    OBVIOUS
  <2>2. e \in Discoveries /\ e.list = <<>> /\ e.selected = d.selected /\ e.passkey = d.passkey
    BY Zenon, <1>1, <2>1 DEF Discoveries
  <2>3. begin_scan(d) = e
    BY <1>3 DEF begin_scan
  <2> HIDE DEF e
  <2> QED BY <1>3, <2>1, <2>2, <2>3, ControllerAssumption DEF Aims, Fits
<1> QED BY <1>2, <1>3

LEMMA ClearAims ==
  ASSUME NEW d, Fits(d)
  PROVE  Aims(clear_selection(d)) /\ ~clear_selection(d).passkey
<1>1. Aims(select(d, None)) /\ ~select(d, None).passkey
  BY SelectFits DEF Aims, Fits
<1> QED BY <1>1, BeginScanAims DEF clear_selection

LEMMA ClearSelects ==
  ASSUME NEW d, Fits(d) PROVE clear_selection(d).selected = None
<1>1. Aims(select(d, None)) /\ select(d, None).selected = None
  BY SelectFits DEF Aims, Fits
<1> QED BY <1>1, BeginScanAims DEF clear_selection

(* What pairing says of a controller takes its passkey down. *)
LEMMA PairingDoneRefines ==
  ASSUME NEW d \in Discoveries, NEW p, NEW ok \in BOOLEAN
  PROVE  Refines(pairing_done(d, p, ok), d) /\ (d.selected = p => ~pairing_done(d, p, ok).passkey)
<1>1. CASE d.selected # p
  BY <1>1 DEF pairing_done, Refines
<1>2. CASE d.selected = p
  <2> DEFINE pending == d.pending /\ ok
             asked == d.asked /\ ok
             e == [d EXCEPT !.passkey = FALSE, !.failed = ~ok, !.pending = pending,
               !.asked = asked]
  <2>1. FALSE \in BOOLEAN /\ (~ok) \in BOOLEAN /\ pending \in BOOLEAN /\ asked \in BOOLEAN
    OBVIOUS
  <2>2. pairing_done(d, p, ok) = e
    BY Zenon, <1>2 DEF pairing_done
  <2> HIDE DEF pending, asked
  <2>3. /\ e \in Discoveries /\ e.list = d.list /\ e.selected = d.selected /\ e.passkey = FALSE
    BY Zenon, <2>1 DEF Discoveries
  <2> QED BY <2>2, <2>3 DEF Refines
<1> QED BY <1>1, <1>2

LEMMA ConfirmationRefines ==
  ASSUME NEW d \in Discoveries, NEW p, NEW pending \in BOOLEAN
  PROVE  Refines(iine_confirmation(d, p, pending), d)
<1>1. CASE d.selected # p
  BY <1>1 DEF iine_confirmation, Refines
<1>2. CASE d.selected = p
  <2>1. FALSE \in BOOLEAN
    OBVIOUS
  <2> QED BY Zenon, <1>2, <2>1 DEF iine_confirmation, Refines, Discoveries
<1> QED BY <1>1, <1>2

LEMMA AskedRefines ==
  ASSUME NEW d \in Discoveries, NEW asked \in BOOLEAN
  PROVE  Refines([d EXCEPT !.asked = asked], d)
BY Zenon DEF Refines, Discoveries

LEMMA PasskeyAims ==
  ASSUME NEW d, Aims(d)
  PROVE  LET e == [d EXCEPT !.passkey = TRUE, !.failed = FALSE]
         IN  Aims(e) /\ e.selected = d.selected
<1> DEFINE e == [d EXCEPT !.passkey = TRUE, !.failed = FALSE]
<1>1. d \in Discoveries /\ TRUE \in BOOLEAN /\ FALSE \in BOOLEAN
  BY DEF Aims, Fits
<1>2. e \in Discoveries /\ e.list = d.list /\ e.selected = d.selected
  BY Zenon, <1>1 DEF Discoveries
<1> HIDE DEF e
<1>3. Aims(e) /\ e.selected = d.selected
  BY <1>2 DEF Aims, Fits, Listed
<1> QED BY <1>3 DEF e

-----------------------------------------------------------------------------
(***************************************************************************)
(* The slot and the links                                                  *)
(***************************************************************************)
LiveSlots == [peer : Peers, phase : Phases, repaired : BOOLEAN, timed : BOOLEAN]
LinkStates == {"none", "connecting", "cancelled", "open", "closing"}

\* The types of what is no record.
PlainTypes ==
  /\ link \in [Peers -> LinkStates]
  /\ owner \in BOOLEAN /\ connected \in BOOLEAN /\ held \in BOOLEAN
  /\ allowed \in BOOLEAN /\ updating \in BOOLEAN /\ queued \in BOOLEAN
  /\ enabled \in BOOLEAN /\ radio \in BOOLEAN
  /\ applying \in {"no", "scan", "stop"}
  /\ passTimer \in Peers \union {None}
  /\ ready \in {"no", "started", "applied"}
  /\ task \in {"home", "manage", "update", "enqueue", "top", "drain", "resnap"}
  /\ back \in {"home", "manage", "drain", "resnap"}
  /\ cursor \in 1..MaxListed

Parts ==
  /\ Aims(disc) /\ Fits(snap) /\ slot \in Slots /\ PlainTypes
  /\ KeysNeedTheOwner /\ PasskeyIsTimed

LEMMA InvariantHasParts ==
  /\ ControllerIInv <=> Parts /\ DecisionHolds /\ SnapshotHolds
  /\ ControllerIInv' <=> Parts' /\ DecisionHolds' /\ SnapshotHolds'
BY DEF ControllerIInv, Parts, ControllerTypeOK, Aims, Fits, PlainTypes, TargetStaysListed,
   LinkStates

LEMMA EmptySlot ==
  /\ NoSlot.peer = None /\ NoSlot.phase = "none" /\ NoSlot.timed = FALSE /\ NoSlot \in Slots
  /\ NoSlot.peer \notin Peers
BY ControllerAssumption DEF NoSlot, Slots

LEMMA SlotIsLive ==
  ASSUME slot \in Slots, slot.phase # "none" \/ slot.peer \in Peers \/ slot # NoSlot
  PROVE  /\ slot \in LiveSlots /\ slot.peer \in Peers /\ slot.phase \in Phases
<1>1. slot \in LiveSlots
  BY EmptySlot DEF Slots, LiveSlots
<1> QED BY <1>1 DEF LiveSlots

(* A live slot stays one, whatever its set-up does to it. *)
LEMMA SlotSteps ==
  ASSUME NEW l \in LiveSlots, NEW phase \in Phases, NEW timed \in BOOLEAN
  PROVE  /\ [l EXCEPT !.phase = phase] \in LiveSlots
         /\ [l EXCEPT !.phase = phase].phase = phase
         /\ [l EXCEPT !.phase = phase].peer = l.peer
         /\ [l EXCEPT !.phase = phase, !.timed = timed] \in LiveSlots
         /\ [l EXCEPT !.phase = phase, !.timed = timed].phase = phase
         /\ [l EXCEPT !.phase = phase, !.timed = timed].peer = l.peer
         /\ [l EXCEPT !.timed = timed] \in LiveSlots
         /\ [l EXCEPT !.timed = timed].phase = l.phase
         /\ [l EXCEPT !.timed = timed].peer = l.peer
         /\ [l EXCEPT !.repaired = timed] \in LiveSlots
         /\ [l EXCEPT !.repaired = timed].phase = l.phase
         /\ [l EXCEPT !.repaired = timed].peer = l.peer
BY Zenon DEF LiveSlots

LEMMA LiveIsSlot == LiveSlots \subseteq Slots
BY DEF LiveSlots, Slots

LEMMA NewSlotLive ==
  ASSUME NEW p \in Peers
  PROVE  NewSlot(p) \in Slots /\ NewSlot(p).peer = p /\ NewSlot(p).phase = "discovered"
<1>1. "discovered" \in Phases /\ TRUE \in BOOLEAN /\ FALSE \in BOOLEAN
  BY DEF Phases
<1> QED BY Zenon, <1>1, LiveIsSlot DEF NewSlot, LiveSlots

\* Any change of link p, and what hanging up makes of it.
Relinks(p, state) == link' = [link EXCEPT ![p] = state]
HungUp(p) ==
  CASE link[p] = "open" -> "closing" [] link[p] = "connecting" -> "cancelled" [] OTHER -> link[p]

LEMMA HungUpType ==
  ASSUME link \in [Peers -> LinkStates], NEW p \in Peers
  PROVE  /\ HungUp(p) \in LinkStates
         /\ link[p] \in {"open", "closing"} => HungUp(p) \in {"open", "closing"}
BY DEF HungUp, LinkStates

(* The keys of the owner stay its own while its slot is set up and its link *)
(* is not known to be gone, *)
LEMMA OwnerKeeps ==
  ASSUME KeysNeedTheOwner, UNCHANGED <<owner, connected, held>>,
         owner => /\ slot'.phase = slot.phase /\ slot'.peer = slot.peer
                  /\ link'[slot.peer] \in {"open", "closing"}
  PROVE  KeysNeedTheOwner'
BY Zenon DEF KeysNeedTheOwner

(* and are up when there is no owner. *)
LEMMA NoOwnerNoKeys ==
  ASSUME owner' = FALSE, connected' = FALSE, held' = FALSE PROVE KeysNeedTheOwner'
BY DEF KeysNeedTheOwner

(* Losing the controller of the slot takes its passkey and its keys away. *)
LEMMA DisconnectedEffect ==
  ASSUME Parts, device_disconnected, slot.peer \in Peers
  PROVE  /\ Aims(disc') /\ PasskeyIsTimed' /\ passTimer' \in Peers \union {None}
         /\ owner' = FALSE /\ connected' = FALSE /\ held' = FALSE
         /\ allowed' \in BOOLEAN /\ updating' \in BOOLEAN /\ queued' \in BOOLEAN
         /\ applying' = applying
<1>1. disc \in Discoveries /\ disc' = pairing_done(disc, slot.peer, FALSE) /\ FALSE \in BOOLEAN
  BY DEF Parts, Aims, Fits, device_disconnected
<1>2. Refines(disc', disc) /\ (disc.selected = slot.peer => ~disc'.passkey)
  BY <1>1, PairingDoneRefines
<1>3. Aims(disc')
  BY <1>2, RefinesAims DEF Parts
<1>4. PasskeyIsTimed'
  <2> SUFFICES ASSUME disc'.passkey PROVE passTimer' = disc'.selected
    BY DEF PasskeyIsTimed
  <2>1. disc.passkey /\ disc'.selected = disc.selected /\ disc.selected # slot.peer
    BY <1>2 DEF Refines
  <2>2. passTimer = disc.selected
    BY <2>1 DEF Parts, PasskeyIsTimed
  <2> QED BY <2>1, <2>2 DEF device_disconnected
<1>5. passTimer' \in Peers \union {None}
  BY DEF Parts, PlainTypes, device_disconnected
<1>6. CASE owner
  BY <1>3, <1>4, <1>5, <1>6 DEF Parts, PlainTypes, device_disconnected, Update
<1>7. CASE ~owner
  BY <1>3, <1>4, <1>5, <1>7
  DEF Parts, PlainTypes, KeysNeedTheOwner, device_disconnected, input, policy
<1> QED BY <1>6, <1>7

(* Telling of a pairing leaves the passkey to its timer. *)
LEMMA PairingDoneTimed ==
  ASSUME Parts, NEW p, NEW ok \in BOOLEAN, disc' = pairing_done(disc, p, ok),
         passTimer' \in {passTimer, None},
         passTimer' # passTimer => (disc.passkey => p = disc.selected)
  PROVE  Aims(disc') /\ PasskeyIsTimed' /\ passTimer' \in Peers \union {None}
<1>1. Refines(disc', disc) /\ (disc.selected = p => ~disc'.passkey)
  BY PairingDoneRefines DEF Parts, Aims, Fits
<1>2. Aims(disc')
  BY <1>1, RefinesAims DEF Parts
<1>3. PasskeyIsTimed'
  BY <1>1 DEF Parts, PasskeyIsTimed, Refines
<1> QED BY <1>2, <1>3 DEF Parts, PlainTypes

(* An untouched selection and timer stay consistent. *)
LEMMA RefinesTimed ==
  ASSUME Parts, Refines(disc', disc), passTimer' = passTimer
  PROVE  Aims(disc') /\ PasskeyIsTimed'
BY RefinesAims DEF Parts, PasskeyIsTimed, Refines

-----------------------------------------------------------------------------
LEMMA HangupKeeps ==
  ASSUME Parts, NEW p \in Peers, Hangup(p)
  PROVE  /\ link' \in [Peers -> LinkStates] /\ radio' \in BOOLEAN
         /\ \A q \in Peers : link[q] \in {"open", "closing"} => link'[q] \in {"open", "closing"}
<1>1. link \in [Peers -> LinkStates] /\ link' = [link EXCEPT ![p] = HungUp(p)]
  BY DEF Parts, PlainTypes, Hangup, HungUp
<1>2. radio' \in BOOLEAN
  BY DEF Parts, PlainTypes, Hangup, ResumeScan
<1>3. HungUp(p) \in LinkStates
      /\ (link[p] \in {"open", "closing"} => HungUp(p) \in {"open", "closing"})
  BY <1>1, HungUpType
<1> QED BY <1>1, <1>2, <1>3

LEMMA DropSlotKeeps ==
  ASSUME Parts, DropSlot, slot.peer \in Peers PROVE Parts'
<1>1. Hangup(slot.peer) /\ device_disconnected /\ slot' = NoSlot
  BY DEF DropSlot, Disconnect
<1>2. /\ Aims(disc') /\ PasskeyIsTimed' /\ passTimer' \in Peers \union {None}
      /\ owner' = FALSE /\ connected' = FALSE /\ held' = FALSE
      /\ allowed' \in BOOLEAN /\ updating' \in BOOLEAN /\ queued' \in BOOLEAN
      /\ applying' = applying
  BY <1>1, DisconnectedEffect
<1>3. link' \in [Peers -> LinkStates] /\ radio' \in BOOLEAN
  BY <1>1, HangupKeeps
<1> QED BY <1>1, <1>2, <1>3, EmptySlot, NoOwnerNoKeys DEF Parts, PlainTypes, Fits, DropSlot, board

(* The steps of the menu task that leave the Bluetooth task's state alone. *)
LEMMA MenuKeeps ==
  ASSUME Parts, BtUntouched, Aims(disc'), Fits(snap'),
         allowed' \in BOOLEAN, updating' \in BOOLEAN, queued' \in BOOLEAN,
         task' \in {"home", "manage", "update", "enqueue", "top", "drain", "resnap"},
         back' \in {"home", "manage", "drain", "resnap"}, cursor' \in 1..MaxListed,
         disc'.passkey => disc.passkey /\ disc'.selected = disc.selected
  PROVE  Parts'
<1>1. KeysNeedTheOwner'
  BY DEF Parts, KeysNeedTheOwner, BtUntouched, input
<1>2. PasskeyIsTimed'
  BY DEF Parts, PasskeyIsTimed, BtUntouched
<1> QED BY <1>1, <1>2 DEF Parts, PlainTypes, BtUntouched, input

LEMMA EmptyFits == Fits(NothingFound)
<1>1. <<>> \in Seq(Peers) /\ Len(<<>>) = 0 /\ FALSE \in BOOLEAN /\ None \in Peers \union {None}
  OBVIOUS
<1>2. NothingFound \in Discoveries /\ NothingFound.list = <<>>
  BY Zenon, <1>1 DEF NothingFound, Discoveries
<1> QED BY <1>1, <1>2, ControllerAssumption DEF Fits

(* The cursor stays on a list that is not longer than it may be. *)
LEMMA CursorStays ==
  ASSUME NEW n \in 1..MaxListed, NEW k \in Nat
  PROVE  (k % n) + 1 \in 1..MaxListed
<1>1. k % n \in 0..(n - 1)
  BY ControllerAssumption
<1> QED BY <1>1, ControllerAssumption

LEMMA MenuStep == Parts /\ Menu => Parts'
<1> SUFFICES ASSUME Parts, Menu PROVE Parts'
  OBVIOUS
<1>t. /\ Aims(disc) /\ Fits(snap) /\ Fits(disc) /\ cursor \in 1..MaxListed /\ 1 \in 1..MaxListed
      /\ allowed \in BOOLEAN /\ updating \in BOOLEAN /\ queued \in BOOLEAN
      /\ back \in {"home", "manage", "drain", "resnap"}
      /\ disc \in Discoveries /\ snap \in Discoveries /\ MaxListed \in Nat
  BY ControllerAssumption DEF Parts, PlainTypes, Aims, Fits
<1>1. CASE UpdateFlags
  BY <1>1, <1>t, MenuKeeps, EmptyFits DEF UpdateFlags
<1>2. CASE UpdateEnqueues
  BY <1>2, <1>t, MenuKeeps, EmptyFits DEF UpdateEnqueues
<1>3. CASE OpenManagement
  BY <1>3, <1>t, MenuKeeps, EmptyFits DEF OpenManagement, ThenUpdate
<1>4. CASE CloseManagement
  BY <1>4, <1>t, MenuKeeps, EmptyFits DEF CloseManagement, ThenUpdate
<1>5. CASE PairingEnds
  BY <1>5, <1>t, MenuKeeps, EmptyFits DEF PairingEnds, MenuOnly, Goto
<1>6. CASE LeavePairing
  BY <1>6, <1>t, MenuKeeps, EmptyFits DEF LeavePairing, MenuOnly, Goto
<1>7. CASE Resnap
  BY <1>7, <1>t, MenuKeeps, EmptyFits DEF Resnap, MenuOnly, Goto
<1>8. CASE Drained
  BY <1>8, <1>t, MenuKeeps, EmptyFits DEF Drained, MenuOnly, Goto
<1>9. CASE OpenPairing
  BY <1>9, <1>t, MenuKeeps, BeginScanAims DEF OpenPairing, MenuOnly, Goto
<1>10. CASE Snapshot
  <2>1. cursor' \in 1..MaxListed
    <3>1. Len(disc.list) \in Nat /\ (disc.list # <<>> => Len(disc.list) \in 1..MaxListed)
      BY <1>t DEF Fits, Discoveries
    <3> QED BY <1>10, <1>t, <3>1 DEF Snapshot
  <2> QED BY <1>10, <1>t, <2>1, MenuKeeps DEF Snapshot, MenuOnly, Goto
<1>11. CASE ClearSelection
  BY <1>11, <1>t, MenuKeeps, ClearAims DEF ClearSelection, MenuOnly, ThenUpdate
<1>12. CASE ConfirmIine
  <2>1. Refines(disc', disc)
    BY <1>12, <1>t, AskedRefines DEF ConfirmIine
  <2>2. Aims(disc') /\ (disc'.passkey => disc.passkey /\ disc'.selected = disc.selected)
    BY <1>t, <2>1, RefinesAims DEF Refines
  <2> QED BY <1>12, <1>t, <2>2, MenuKeeps DEF ConfirmIine, MenuOnly, ThenUpdate
<1>13. CASE MoveCursor
  <2>1. Len(snap.list) \in 1..MaxListed
    BY <1>13, <1>t DEF MoveCursor, Browsing, Fits, Discoveries
  <2>2. cursor \in Nat /\ cursor + Len(snap.list) - 2 \in Nat
    BY <1>t, <2>1
  <2>3. cursor' \in 1..MaxListed
    BY <1>13, <2>1, <2>2, CursorStays DEF MoveCursor
  <2>4. task' = "drain" /\ UNCHANGED <<disc, back, snap>>
    BY <1>13 DEF MoveCursor, Browsing
  <2> QED BY <1>13, <1>t, <2>3, <2>4, MenuKeeps DEF MoveCursor, MenuOnly
<1>14. CASE SelectCandidate
  <2>1. disc.list[cursor] \in Listed(disc)
    BY <1>14, <1>t DEF SelectCandidate, Listed, Fits, Discoveries
  <2>2. Aims(disc') /\ ~disc'.passkey
    BY <1>14, <1>t, <2>1, SelectAims DEF SelectCandidate
  <2> QED BY <1>14, <1>t, <2>2, MenuKeeps DEF SelectCandidate, MenuOnly, ThenUpdate
<1> QED
  BY <1>1, <1>2, <1>3, <1>4, <1>5, <1>6, <1>7, <1>8, <1>9, <1>10, <1>11, <1>12, <1>13,
     <1>14 DEF Menu

(* The steps of the Bluetooth task that leave the menu's state alone. *)
LEMMA BluetoothKeeps ==
  ASSUME Parts, UNCHANGED board, Aims(disc'), PasskeyIsTimed', slot' \in Slots, KeysNeedTheOwner',
         link' \in [Peers -> LinkStates], passTimer' \in Peers \union {None},
         owner' \in BOOLEAN, connected' \in BOOLEAN, held' \in BOOLEAN,
         allowed' \in BOOLEAN, updating' \in BOOLEAN, queued' \in BOOLEAN,
         enabled' \in BOOLEAN, radio' \in BOOLEAN,
         applying' \in {"no", "scan", "stop"}, ready' \in {"no", "started", "applied"}
  PROVE  Parts'
BY DEF Parts, PlainTypes, board, Fits

\* What a step does not touch keeps its part.
LEMMA Untouched ==
  ASSUME Parts
  PROVE  /\ UNCHANGED <<disc, passTimer>> => Aims(disc') /\ PasskeyIsTimed'
         /\ UNCHANGED <<slot, link, input>> => KeysNeedTheOwner'
         /\ UNCHANGED input => owner' \in BOOLEAN /\ connected' \in BOOLEAN /\ held' \in BOOLEAN
         /\ UNCHANGED policy => /\ allowed' \in BOOLEAN /\ updating' \in BOOLEAN
                               /\ queued' \in BOOLEAN /\ applying' \in {"no", "scan", "stop"}
BY DEF Parts, PlainTypes, PasskeyIsTimed, KeysNeedTheOwner, input, policy

LEMMA ScanDecided ==
  ASSUME Parts, NEW asked \in BOOLEAN, ScanAsDecided(asked)
  PROVE  /\ UNCHANGED <<board, input>>
         /\ allowed' \in BOOLEAN /\ updating' \in BOOLEAN /\ queued' \in BOOLEAN
         /\ enabled' \in BOOLEAN /\ radio' \in BOOLEAN
         /\ applying' \in {"no", "scan", "stop"} /\ ready' \in {"no", "started", "applied"}
BY DEF Parts, PlainTypes, ScanAsDecided

(* The part of the run loop that carries out the policy. *)
LEMMA PolicyStep == Parts /\ Policy => Parts'
<1> SUFFICES ASSUME Parts, Policy PROVE Parts'
  OBVIOUS
<1>t. /\ Aims(disc) /\ disc \in Discoveries /\ slot \in Slots /\ PlainTypes
      /\ KeysNeedTheOwner /\ PasskeyIsTimed
      /\ radio \in BOOLEAN /\ (radio \/ enabled) \in BOOLEAN
  BY DEF Parts, Aims, Fits, PlainTypes
<1>1. CASE PlatformReady
  BY <1>1, <1>t, Untouched, BluetoothKeeps DEF PlatformReady, PlainTypes
<1>2. CASE ApplyReads
  <2>1. Aims(disc') /\ PasskeyIsTimed' /\ passTimer' \in Peers \union {None}
    BY <1>2, <1>t DEF ApplyReads, PasskeyIsTimed, PlainTypes
  <2> QED BY <1>2, <1>t, <2>1, Untouched, BluetoothKeeps DEF ApplyReads, PlainTypes
<1>3. CASE ApplyDrops
  <2>1. slot.peer \in Peers /\ ~owner
    BY <1>3, <1>t, SlotIsLive DEF ApplyDrops, Unwanted
  <2>2. link' = [link EXCEPT ![slot.peer] = HungUp(slot.peer)]
    BY <1>3, <1>t, <2>1 DEF ApplyDrops, HungUp, PlainTypes
  <2>3. link' \in [Peers -> LinkStates]
    BY <1>t, <2>1, <2>2, HungUpType DEF PlainTypes
  <2>4. slot' \in Slots
    BY <1>3, EmptySlot DEF ApplyDrops
  <2>5. slot.peer # disc.selected
    BY <1>3 DEF ApplyDrops, Unwanted
  <2>6. Aims(disc') /\ PasskeyIsTimed' /\ passTimer' \in Peers \union {None}
    BY <1>3, <1>t, <2>5 DEF ApplyDrops, PasskeyIsTimed, PlainTypes
  <2>7. ScanAsDecided(radio \/ enabled)
    BY <1>3 DEF ApplyDrops
  <2>8. KeysNeedTheOwner'
    BY <1>t, <2>1, <2>7, ScanDecided DEF KeysNeedTheOwner, PlainTypes, input
  <2> QED BY <1>t, <2>3, <2>4, <2>6, <2>7, <2>8, ScanDecided, Untouched, BluetoothKeeps
<1>4. CASE ApplyConfirms
  <2>1. slot \in LiveSlots /\ slot.peer \in Peers /\ ~owner
    BY <1>4, <1>t, SlotIsLive DEF ApplyConfirms, Confirming
  <2>2. Refines(disc', disc)
    <3>1. FALSE \in BOOLEAN
      OBVIOUS
    <3> QED BY <1>4, <1>t, <3>1, ConfirmationRefines, AskedRefines DEF ApplyConfirms
  <2>3. slot' \in Slots
    <3>1. TRUE \in BOOLEAN /\ "setup" \in Phases
      BY DEF Phases
    <3>2. [slot EXCEPT !.phase = "setup", !.timed = TRUE] \in LiveSlots
      BY <2>1, <3>1, SlotSteps
    <3>3. slot' \in {slot, [slot EXCEPT !.phase = "setup", !.timed = TRUE]}
      BY <1>4 DEF ApplyConfirms
    <3> QED BY <1>t, <3>2, <3>3, LiveIsSlot
  <2>4. ScanAsDecided(radio) /\ UNCHANGED <<link, passTimer>>
    BY <1>4 DEF ApplyConfirms
  <2>5. KeysNeedTheOwner'
    BY <1>t, <2>1, <2>4, ScanDecided DEF KeysNeedTheOwner, PlainTypes, input
  <2>6. Aims(disc') /\ PasskeyIsTimed'
    BY <2>2, <2>4, RefinesTimed
  <2> QED BY <1>t, <2>3, <2>4, <2>5, <2>6, ScanDecided, Untouched, BluetoothKeeps DEF PlainTypes
<1>5. CASE ApplyConfirmsLate
  <2>1. slot \in LiveSlots /\ slot.peer \in Peers /\ ~owner
    BY <1>5, <1>t, SlotIsLive DEF ApplyConfirmsLate, Confirming
  <2>2. link' \in [Peers -> LinkStates]
    BY <1>5, <1>t, <2>1 DEF ApplyConfirmsLate, PlainTypes, LinkStates
  <2>3. slot' \in Slots
    <3>1. FALSE \in BOOLEAN /\ slot.phase \in Phases
      BY <2>1 DEF LiveSlots
    <3> QED BY <1>5, <2>1, <3>1, SlotSteps, LiveIsSlot DEF ApplyConfirmsLate
  <2>4. ScanAsDecided(radio \/ enabled)
    BY <1>5 DEF ApplyConfirmsLate
  <2>5. KeysNeedTheOwner'
    BY <1>t, <2>1, <2>4, ScanDecided DEF KeysNeedTheOwner, PlainTypes, input
  <2>6. disc.selected = slot.peer
    BY <1>5, <2>1 DEF ApplyConfirmsLate, Confirming, Unwanted
  <2>7. Aims(disc') /\ PasskeyIsTimed' /\ passTimer' \in Peers \union {None}
    <3>1. FALSE \in BOOLEAN /\ disc' = pairing_done(disc, slot.peer, FALSE)
      BY <1>5 DEF ApplyConfirmsLate
    <3>2. passTimer' \in {passTimer, None}
      BY <1>5 DEF ApplyConfirmsLate
    <3> QED BY <2>6, <3>1, <3>2, PairingDoneTimed
  <2> QED BY <1>t, <2>2, <2>3, <2>4, <2>5, <2>7, ScanDecided, Untouched, BluetoothKeeps
<1>6. CASE ApplyScans
  <2>1. ScanAsDecided(radio) /\ UNCHANGED <<disc, slot, link, passTimer>>
    BY <1>6 DEF ApplyScans
  <2> QED BY <1>t, <2>1, ScanDecided, Untouched, BluetoothKeeps DEF PlainTypes
<1> QED
  BY <1>1, <1>2, <1>3, <1>4, <1>5, <1>6 DEF Policy

\* A handler changes only the slot, to a live one of the same controller.
Same == UNCHANGED <<disc, link, input, policy, enabled, passTimer, ready, board>>
LEMMA SlotChanges ==
  ASSUME Parts, Same, slot' \in LiveSlots, slot'.peer = slot.peer, radio' \in BOOLEAN,
         ~owner \/ slot'.phase = slot.phase
  PROVE  Parts'
<1>1. KeysNeedTheOwner'
  BY DEF Parts, KeysNeedTheOwner, Same, input
<1> QED BY <1>1, LiveIsSlot, Untouched, BluetoothKeeps DEF Same, Parts, PlainTypes

(* Advertisements, connections and disconnections. *)
LEMMA LinkStep == Parts /\ Links => Parts'
<1> SUFFICES ASSUME Parts, NEW p \in Peers,
                    \/ AdvertListed(p) \/ AdvertConnects(p) \/ AdvertRefused(p)
                    \/ LinkUp(p) \/ LinkFails(p) \/ LinkClosed(p) \/ OrphanPairs(p)
             PROVE  Parts'
  BY DEF Links
<1>t. /\ Aims(disc) /\ disc \in Discoveries /\ slot \in Slots /\ PlainTypes
      /\ KeysNeedTheOwner /\ PasskeyIsTimed
      /\ link \in [Peers -> LinkStates] /\ TRUE \in BOOLEAN /\ FALSE \in BOOLEAN
  BY DEF Parts, Aims, Fits, PlainTypes
<1>1. CASE AdvertListed(p)
  <2> DEFINE d == observe(disc, p)
  <2>1. Aims(d) /\ d.selected = disc.selected /\ d.passkey = disc.passkey /\ d \in Discoveries
    BY <1>t, ObserveAims DEF Aims, Fits
  <2> HIDE DEF d
  <2>2. Refines(pairing_done(d, p, TRUE), d)
    BY <1>t, <2>1, PairingDoneRefines
  <2>3. disc' \in {disc, pairing_done(d, p, TRUE)}
    BY <1>1 DEF AdvertListed, d
  <2>4. Aims(disc') /\ (disc'.passkey => disc.passkey) /\ disc'.selected = disc.selected
    BY <1>t, <2>1, <2>2, <2>3, RefinesAims DEF Refines
  <2>5. PasskeyIsTimed'
    BY <1>1, <1>t, <2>4 DEF AdvertListed, PasskeyIsTimed
  <2> QED BY <1>1, <1>t, <2>4, <2>5, Untouched, BluetoothKeeps DEF AdvertListed, PlainTypes
<1>2. CASE AdvertConnects(p)
  <2>1. Refines(disc', disc)
    BY <1>2, <1>t, PairingDoneRefines DEF AdvertConnects
  <2>2. ~owner
    BY <1>2, <1>t, EmptySlot DEF AdvertConnects, Admitted, KeysNeedTheOwner
  <2>3. KeysNeedTheOwner'
    BY <1>2, <1>t, <2>2 DEF AdvertConnects, KeysNeedTheOwner, PlainTypes, input
  <2>4. Aims(disc') /\ PasskeyIsTimed'
    BY <1>2, <2>1, RefinesTimed DEF AdvertConnects
  <2>5. slot' \in Slots /\ link' \in [Peers -> LinkStates]
    BY <1>2, <1>t, NewSlotLive DEF AdvertConnects, LinkStates
  <2> QED BY <1>2, <1>t, <2>3, <2>4, <2>5, Untouched, BluetoothKeeps DEF AdvertConnects,
         PlainTypes
<1>3. CASE AdvertRefused(p)
  <2>1. disc' = pairing_done(disc, p, FALSE) /\ disc.selected = p /\ passTimer' \in {passTimer,
          None}
    BY <1>3 DEF AdvertRefused, Admitted
  <2>2. Aims(disc') /\ PasskeyIsTimed' /\ passTimer' \in Peers \union {None}
    BY <1>t, <2>1, PairingDoneTimed
  <2> QED BY <1>3, <1>t, <2>2, Untouched, BluetoothKeeps DEF AdvertRefused, PlainTypes
<1>4. CASE LinkUp(p)
  <2>1. link' \in [Peers -> LinkStates] /\ link'[p] = "open"
        /\ (\A q \in Peers : q # p => link'[q] = link[q])
    BY <1>4, <1>t DEF LinkUp, LinkStates
  <2>2. slot' \in Slots /\ (slot.peer # p => slot' = slot)
    <3>1. CASE slot.peer = p
      <4>1. slot \in LiveSlots /\ "linked" \in Phases
        BY <1>t, <3>1, SlotIsLive DEF Phases
      <4>2. [slot EXCEPT !.phase = "linked"] \in LiveSlots
        BY <1>t, <4>1, SlotSteps
      <4> QED BY <1>4, <3>1, <4>2, LiveIsSlot DEF LinkUp, StepTo
    <3>2. CASE slot.peer # p
      BY <1>4, <1>t, <3>2 DEF LinkUp
    <3> QED BY <3>1, <3>2
  <2>3. owner => slot.peer # p /\ slot.peer \in Peers
    <3>1. owner => slot.phase # "none"
      BY <1>t DEF KeysNeedTheOwner
    <3> QED BY <1>4, <1>t, <3>1, SlotIsLive DEF LinkUp, KeysNeedTheOwner
  <2>4. KeysNeedTheOwner'
    <3>1. UNCHANGED <<owner, connected, held>>
      BY <1>4 DEF LinkUp, input
    <3> QED BY <1>t, <2>1, <2>2, <2>3, <3>1 DEF KeysNeedTheOwner
  <2> QED BY <1>4, <1>t, <2>1, <2>2, <2>4, Untouched, BluetoothKeeps DEF LinkUp, PlainTypes
<1>5. CASE LinkFails(p)
  <2>1. link' \in [Peers -> LinkStates] /\ (\A q \in Peers : q # p => link'[q] = link[q])
    BY <1>5, <1>t DEF LinkFails, LinkStates
  <2>2. radio' \in BOOLEAN
    BY <1>5, <1>t DEF LinkFails, ResumeScan, PlainTypes
  <2>3. CASE slot.phase \in {"none", "setup", "ready"}
    <3>1. UNCHANGED <<disc, slot, input, policy, passTimer>>
      BY <1>5, <2>3 DEF LinkFails
    <3>2. owner => slot.peer # p /\ slot.peer \in Peers
      <4>1. owner => slot.phase # "none"
        BY <1>t DEF KeysNeedTheOwner
      <4> QED BY <1>5, <1>t, <4>1, SlotIsLive DEF LinkFails, KeysNeedTheOwner
    <3>3. KeysNeedTheOwner'
      BY <1>t, <2>1, <3>1, <3>2 DEF KeysNeedTheOwner, input
    <3> QED BY <1>5, <1>t, <2>1, <2>2, <3>1, <3>3, Untouched, BluetoothKeeps DEF LinkFails,
           PlainTypes
  <2>4. CASE slot.phase \notin {"none", "setup", "ready"}
    <3>1. device_disconnected /\ slot' = NoSlot
      BY <1>5, <2>4 DEF LinkFails
    <3>2. slot.peer \in Peers
      BY <1>t, <2>4, SlotIsLive
    <3> QED BY <1>5, <1>t, <2>1, <2>2, <3>1, <3>2, DisconnectedEffect, NoOwnerNoKeys, EmptySlot,
               BluetoothKeeps DEF LinkFails, PlainTypes
  <2> QED BY <2>3, <2>4
<1>6. CASE LinkClosed(p)
  <2>1. link' \in [Peers -> LinkStates] /\ (\A q \in Peers : q # p => link'[q] = link[q])
    BY <1>6, <1>t DEF LinkClosed, LinkStates
  <2>2. CASE slot.peer # p
    <3>1. UNCHANGED <<disc, slot, input, policy, radio, passTimer>>
      BY <1>6, <2>2 DEF LinkClosed
    <3>2. owner => slot.peer \in Peers
      <4>1. owner => slot.phase # "none"
        BY <1>t DEF KeysNeedTheOwner
      <4> QED BY <1>t, <4>1, SlotIsLive
    <3>3. KeysNeedTheOwner'
      BY <1>t, <2>1, <2>2, <3>1, <3>2 DEF KeysNeedTheOwner, input
    <3> QED BY <1>6, <1>t, <2>1, <3>1, <3>3, Untouched, BluetoothKeeps DEF LinkClosed, PlainTypes
  <2>3. CASE slot.peer = p
    <3>1. device_disconnected /\ slot' = NoSlot /\ radio' \in BOOLEAN
      BY <1>6, <1>t, <2>3 DEF LinkClosed, ResumeScan, PlainTypes
    <3> QED BY <1>6, <1>t, <2>1, <2>3, <3>1, DisconnectedEffect, NoOwnerNoKeys, EmptySlot,
               BluetoothKeeps DEF LinkClosed, PlainTypes
  <2> QED BY <2>2, <2>3
<1>7. CASE OrphanPairs(p)
  <2>1. /\ link' \in [Peers -> LinkStates] /\ radio' \in BOOLEAN
        /\ \A q \in Peers : link[q] \in {"open", "closing"} => link'[q] \in {"open", "closing"}
    BY <1>7, HangupKeeps DEF OrphanPairs
  <2>2. owner => slot.peer \in Peers
    <3>1. owner => slot.phase # "none"
      BY <1>t DEF KeysNeedTheOwner
    <3> QED BY <1>t, <3>1, SlotIsLive
  <2>3. KeysNeedTheOwner'
    BY <1>7, <1>t, <2>1, <2>2 DEF OrphanPairs, KeysNeedTheOwner, input
  <2> QED BY <1>7, <1>t, <2>1, <2>3, Untouched, BluetoothKeeps DEF OrphanPairs, PlainTypes
<1> QED
  BY <1>1, <1>2, <1>3, <1>4, <1>5, <1>6, <1>7

(* Pairing tells of the slot's controller and takes its passkey down, or    *)
(* puts it up with its timer.                                               *)
LEMMA SaysEffect ==
  ASSUME Parts, NEW ok \in BOOLEAN, PairingSays(ok)
  PROVE  Aims(disc') /\ PasskeyIsTimed' /\ passTimer' \in Peers \union {None}
<1>1. disc' = pairing_done(disc, slot.peer, ok) /\ passTimer' \in {passTimer, None}
      /\ (passTimer' # passTimer => slot.peer = disc.selected)
  BY DEF PairingSays
<1> QED BY <1>1, PairingDoneTimed

LEMMA PairingStep == Parts /\ Pairing => Parts'
<1> SUFFICES ASSUME Parts, Pairing PROVE Parts'
  OBVIOUS
<1>t. /\ Aims(disc) /\ disc \in Discoveries /\ slot \in Slots /\ PlainTypes
      /\ KeysNeedTheOwner /\ PasskeyIsTimed
      /\ link \in [Peers -> LinkStates] /\ TRUE \in BOOLEAN /\ FALSE \in BOOLEAN
  BY DEF Parts, Aims, Fits, PlainTypes
<1>l. slot \in LiveSlots /\ slot.peer \in Peers /\ slot.phase \in Phases /\ ~owner
  <2>1. slot.phase = "linked"
    BY DEF Pairing, Passkey, PasskeyCancelled, PairingOk, RepairStarts, PairingFails, InPhase
  <2> QED BY <1>t, <2>1, SlotIsLive DEF KeysNeedTheOwner
<1>1. CASE Passkey
  <2>1. disc.selected = slot.peer /\ passTimer' = slot.peer
    BY <1>1 DEF Passkey
  <2>2. Aims(disc') /\ disc'.selected = disc.selected
    BY <1>1, <1>t, PasskeyAims DEF Passkey
  <2>3. PasskeyIsTimed'
    BY <2>1, <2>2 DEF PasskeyIsTimed
  <2>4. slot' \in LiveSlots
    BY <1>1, <1>t, <1>l, SlotSteps DEF Passkey
  <2>5. KeysNeedTheOwner'
    BY <1>1, <1>t, <1>l DEF Passkey, KeysNeedTheOwner, PlainTypes, input
  <2> QED BY <1>1, <1>t, <1>l, <2>1, <2>2, <2>3, <2>4, <2>5, LiveIsSlot, Untouched, BluetoothKeeps
          DEF Passkey, PlainTypes
<1>2. CASE PasskeyCancelled
  <2>1. PairingSays(TRUE)
    BY <1>2 DEF PasskeyCancelled
  <2>2. Aims(disc') /\ PasskeyIsTimed' /\ passTimer' \in Peers \union {None}
    BY <1>t, <2>1, SaysEffect
  <2> QED BY <1>2, <1>t, <2>2, Untouched, BluetoothKeeps DEF PasskeyCancelled, PlainTypes
<1>3. CASE PairingOk
  <2>1. PairingSays(TRUE)
    BY <1>3 DEF PairingOk
  <2>2. Aims(disc') /\ PasskeyIsTimed' /\ passTimer' \in Peers \union {None}
    BY <1>t, <2>1, SaysEffect
  <2>3. slot' \in LiveSlots
    <3>1. "secured" \in Phases
      BY DEF Phases
    <3> QED BY <1>3, <1>t, <1>l, <3>1, SlotSteps DEF PairingOk, StepTo
  <2>4. KeysNeedTheOwner'
    BY <1>3, <1>t, <1>l DEF PairingOk, KeysNeedTheOwner, PlainTypes, input
  <2> QED BY <1>3, <1>t, <2>2, <2>3, <2>4, LiveIsSlot, Untouched, BluetoothKeeps
          DEF PairingOk, PlainTypes
<1>4. CASE RepairStarts
  <2>1. PairingSays(FALSE)
    BY <1>4 DEF RepairStarts
  <2>2. Aims(disc') /\ PasskeyIsTimed' /\ passTimer' \in Peers \union {None}
    BY <1>t, <2>1, SaysEffect
  <2>3. slot' \in LiveSlots
    BY <1>4, <1>t, <1>l, SlotSteps DEF RepairStarts
  <2>4. KeysNeedTheOwner'
    BY <1>4, <1>t, <1>l DEF RepairStarts, KeysNeedTheOwner, PlainTypes, input
  <2> QED BY <1>4, <1>t, <2>2, <2>3, <2>4, LiveIsSlot, Untouched, BluetoothKeeps
          DEF RepairStarts, PlainTypes
<1>5. CASE PairingFails
  <2>1. PairingSays(FALSE) /\ Hangup(slot.peer)
    BY <1>5 DEF PairingFails, HangupOnly
  <2>2. Aims(disc') /\ PasskeyIsTimed' /\ passTimer' \in Peers \union {None}
    BY <1>t, <2>1, SaysEffect
  <2>3. link' \in [Peers -> LinkStates] /\ radio' \in BOOLEAN
    BY <1>l, <2>1, HangupKeeps
  <2>4. KeysNeedTheOwner'
    BY <1>5, <1>t, <1>l DEF PairingFails, HangupOnly, KeysNeedTheOwner, PlainTypes, input
  <2> QED BY <1>5, <1>t, <2>2, <2>3, <2>4, Untouched, BluetoothKeeps
          DEF PairingFails, HangupOnly, PlainTypes
<1> QED
  BY <1>1, <1>2, <1>3, <1>4, <1>5 DEF Pairing

(* Setting up the slot's controller, to its last report. *)
LEMMA SetupStep == Parts /\ Setup => Parts'
<1> SUFFICES ASSUME Parts, Setup PROVE Parts'
  OBVIOUS
<1>t. /\ Aims(disc) /\ disc \in Discoveries /\ slot \in Slots /\ PlainTypes
      /\ KeysNeedTheOwner /\ PasskeyIsTimed
      /\ link \in [Peers -> LinkStates] /\ TRUE \in BOOLEAN /\ FALSE \in BOOLEAN
      /\ radio \in BOOLEAN /\ (radio \/ enabled) \in BOOLEAN
  BY DEF Parts, Aims, Fits, PlainTypes
<1>l. slot \in LiveSlots /\ slot.peer \in Peers /\ slot.phase \in Phases
  <2>1. slot.phase # "none"
    BY DEF Setup, GattFails, HidFound, HidUnsupported, IineVerified, IinePending, IineFails,
           DeviceReady, DeviceDeclined, Report, InPhase
  <2> QED BY <1>t, <2>1, SlotIsLive
<1>p. {"setup", "confirming", "ready"} \subseteq Phases
  BY DEF Phases
<1>1. CASE GattFails
  <2>1. Hangup(slot.peer) /\ UNCHANGED <<disc, slot, passTimer, input, policy, enabled, ready,
          board>>
    BY <1>1 DEF GattFails, HangupOnly
  <2>2. /\ link' \in [Peers -> LinkStates] /\ radio' \in BOOLEAN
        /\ \A q \in Peers : link[q] \in {"open", "closing"} => link'[q] \in {"open", "closing"}
    BY <1>l, <2>1, HangupKeeps
  <2>3. KeysNeedTheOwner'
    BY <1>t, <1>l, <2>1, <2>2 DEF KeysNeedTheOwner, input
  <2> QED BY <1>t, <2>1, <2>2, <2>3, Untouched, BluetoothKeeps DEF PlainTypes
<1>2. CASE HidFound \/ IineVerified
  <2>1. ~owner
    BY <1>2, <1>t DEF HidFound, IineVerified, InPhase, KeysNeedTheOwner
  <2>2. slot' \in LiveSlots /\ slot'.peer = slot.peer
    <3>1. slot' = [slot EXCEPT !.phase = "setup"]
      BY <1>2 DEF HidFound, IineVerified, StepTo
    <3> QED BY <1>t, <1>l, <1>p, <3>1, SlotSteps
  <2> QED BY <1>2, <1>t, <2>1, <2>2, SlotChanges DEF HidFound, IineVerified, ResumeScan, Same
<1>3. CASE HidUnsupported \/ DeviceDeclined
  BY <1>3, <1>l, DropSlotKeeps DEF HidUnsupported, DeviceDeclined
<1>4. CASE IinePending
  <2>1. ~owner
    BY <1>4, <1>t DEF IinePending, InPhase, KeysNeedTheOwner
  <2>2. slot' \in LiveSlots
    BY <1>4, <1>t, <1>l, <1>p, SlotSteps DEF IinePending
  <2>3. Refines(disc', disc)
    BY <1>4, <1>t, ConfirmationRefines DEF IinePending
  <2>4. Aims(disc') /\ PasskeyIsTimed'
    BY <1>4, <2>3, RefinesTimed DEF IinePending
  <2>5. KeysNeedTheOwner'
    BY <1>4, <1>t, <2>1 DEF IinePending, KeysNeedTheOwner, PlainTypes, input
  <2> QED BY <1>4, <1>t, <2>2, <2>4, <2>5, LiveIsSlot, Untouched, BluetoothKeeps
          DEF IinePending, PlainTypes
<1>5. CASE IineFails
  <2>1. Hangup(slot.peer) /\ device_disconnected
    BY <1>5 DEF IineFails, Disconnect
  <2>2. slot' \in LiveSlots
    BY <1>5, <1>t, <1>l, SlotSteps DEF IineFails
  <2>3. link' \in [Peers -> LinkStates] /\ radio' \in BOOLEAN
    BY <1>l, <2>1, HangupKeeps
  <2> QED BY <1>5, <1>t, <1>l, <2>1, <2>2, <2>3, LiveIsSlot, DisconnectedEffect, NoOwnerNoKeys,
             BluetoothKeeps DEF IineFails, PlainTypes
<1>6. CASE DeviceReady
  <2>1. slot' \in LiveSlots /\ slot'.phase = "ready" /\ slot'.peer = slot.peer
    BY <1>6, <1>t, <1>l, <1>p, SlotSteps DEF DeviceReady
  <2>2. disc' = pairing_done(disc, slot.peer,
          TRUE) /\ passTimer' = None /\ disc.selected = slot.peer
    BY <1>6 DEF DeviceReady
  <2>3. Aims(disc') /\ PasskeyIsTimed' /\ passTimer' \in Peers \union {None}
    BY <1>t, <2>2, PairingDoneTimed
  <2>4. link'[slot'.peer] = "open" /\ owner' = TRUE /\ connected' = TRUE /\ held' = FALSE
    BY <1>6, <2>1 DEF DeviceReady, InPhase, Open
  <2>5. KeysNeedTheOwner'
    BY <2>1, <2>4 DEF KeysNeedTheOwner
  <2>6. updating' \in BOOLEAN /\ queued' \in BOOLEAN
    BY <1>6, <1>t DEF DeviceReady, Update, PlainTypes
  <2> QED BY <1>6, <1>t, <2>1, <2>3, <2>4, <2>5, <2>6, LiveIsSlot, BluetoothKeeps
          DEF DeviceReady, PlainTypes
<1>7. CASE Report
  <2>1. owner /\ UNCHANGED <<slot, link, owner, connected>> /\ held' \in BOOLEAN
    BY <1>7 DEF Report
  <2>2. KeysNeedTheOwner'
    BY <1>t, <2>1 DEF KeysNeedTheOwner, PlainTypes
  <2> QED BY <1>7, <1>t, <2>1, <2>2, Untouched, BluetoothKeeps DEF Report, PlainTypes
<1> QED
  BY <1>1, <1>2, <1>3, <1>4, <1>5, <1>6, <1>7 DEF Setup

(* The connection's and the passkey's timers. *)
LEMMA TimerStep == Parts /\ Timers => Parts'
<1> SUFFICES ASSUME Parts, Timers PROVE Parts'
  OBVIOUS
<1>1. CASE ConnectionTimeout
  <2>1. slot # NoSlot /\ DropSlot
    BY <1>1, EmptySlot DEF ConnectionTimeout
  <2>2. slot.peer \in Peers
    BY <2>1, SlotIsLive DEF Parts
  <2> QED BY <2>1, <2>2, DropSlotKeeps
<1>2. CASE PasskeyTimeout
  <2>1. /\ disc' = pairing_done(disc, passTimer, FALSE) /\ passTimer' = None
        /\ UNCHANGED <<slot, link, input, policy, enabled, radio, ready, board>>
    BY <1>2 DEF PasskeyTimeout
  <2>2. disc.passkey => passTimer = disc.selected
    BY DEF Parts, PasskeyIsTimed
  <2>3. Aims(disc') /\ PasskeyIsTimed' /\ passTimer' \in Peers \union {None}
    BY <2>1, <2>2, PairingDoneTimed
  <2> QED BY <2>1, <2>3, Untouched, BluetoothKeeps DEF Parts, PlainTypes
<1> QED
  BY <1>1, <1>2 DEF Timers

-----------------------------------------------------------------------------
LEMMA PartsInit == Init => Parts
<1> SUFFICES ASSUME Init PROVE Parts
  OBVIOUS
<1>1. Fits(disc) /\ Fits(snap) /\ disc.selected = None /\ disc.passkey = FALSE
  BY EmptyFits DEF Init, NothingFound
<1>2. Aims(disc) /\ PasskeyIsTimed
  BY <1>1 DEF Aims, PasskeyIsTimed
<1>3. PlainTypes
  <2>1. link \in [Peers -> LinkStates]
    BY DEF Init, LinkStates
  <2>2. /\ owner \in BOOLEAN /\ connected \in BOOLEAN /\ held \in BOOLEAN
        /\ allowed \in BOOLEAN /\ updating \in BOOLEAN /\ queued \in BOOLEAN
        /\ enabled \in BOOLEAN /\ radio \in BOOLEAN
    BY DEF Init
  <2>3. cursor \in 1..MaxListed
    BY ControllerAssumption DEF Init
  <2> QED BY <2>1, <2>2, <2>3 DEF Init, PlainTypes
<1>4. slot \in Slots /\ KeysNeedTheOwner
  BY EmptySlot DEF Init, KeysNeedTheOwner
<1> QED BY <1>1, <1>2, <1>3, <1>4 DEF Parts

LEMMA PartsStep == Parts /\ [Next]_vars => Parts'
<1>1. Parts /\ UNCHANGED vars => Parts'
  BY DEF vars, input, policy, board, Parts, PlainTypes, Fits, Aims, Listed, KeysNeedTheOwner,
         PasskeyIsTimed
<1> QED BY <1>1, PolicyStep, LinkStep, PairingStep, SetupStep, TimerStep, MenuStep
    DEF Next, Bluetooth

-----------------------------------------------------------------------------
(***************************************************************************)
(* What a step of the Bluetooth task leaves of the selection, of the list  *)
(* and of the decision                                                     *)
(***************************************************************************)
LEMMA GrownFurther ==
  ASSUME NEW s, NEW d, NEW e, s.list \in Seq(Peers), d.list \in Seq(Peers), e.list \in Seq(Peers),
         Grown(s, d), Grown(d, e)
  PROVE  Grown(s, e)
BY DEF Grown

LEMMA GrownItself == ASSUME NEW d, NEW e, e.list = d.list PROVE Grown(d, e)
BY DEF Grown

\* The selection stays, the list only grows.
Later(d, e) == Fits(e) /\ e.selected = d.selected /\ Grown(d, e)

LEMMA RefinesLater ==
  ASSUME NEW d, NEW e, Fits(d), Refines(e, d) PROVE Later(d, e)
BY DEF Refines, Later, Fits, Grown

LEMMA LaterItself == ASSUME NEW d, Fits(d) PROVE Later(d, d)
BY DEF Later, Grown

LEMMA ObserveLater ==
  ASSUME NEW d, NEW p \in Peers, Aims(d) PROVE Later(d, observe(d, p))
<1>1. Aims(observe(d, p)) /\ observe(d, p).selected = d.selected
  BY ObserveAims
<1>2. d.list \in Seq(Peers) /\ d \in Discoveries
  BY DEF Aims, Fits, Discoveries
<1>3. CASE observe(d, p) = d
  BY <1>1, <1>3 DEF Later, Aims, Grown
<1>4. CASE observe(d, p) # d
  <2>1. observe(d, p) = [d EXCEPT !.list = Append(d.list, p)]
    BY <1>4 DEF observe
  <2>2. observe(d, p).list = Append(d.list, p)
    BY Zenon, <1>2, <2>1 DEF Discoveries
  <2>3. Grown(d, observe(d, p))
    BY <1>2, <2>2 DEF Grown
  <2> QED BY <1>1, <2>3 DEF Later, Aims
<1> QED BY <1>3, <1>4

\* What is left of the slot: nothing, the owner, one for the selection, or the
\* same controller's as before.
Serves ==
  slot' = NoSlot \/ owner' \/ slot'.peer = disc.selected \/ (slot'.peer = slot.peer /\ owner' = owner)
Handled ==
  /\ BtIdle /\ UNCHANGED <<allowed, applying, enabled, ready, board>>
  /\ Later(disc, disc')
  /\ updating' \/ (UNCHANGED <<updating, connected>> /\ Serves)

LEMMA LostHandled ==
  ASSUME Parts, BtIdle, UNCHANGED <<enabled, ready, board>>, device_disconnected,
         slot' = NoSlot \/ slot'.peer = slot.peer
  PROVE  Handled
<1>1. disc \in Discoveries /\ Fits(disc) /\ FALSE \in BOOLEAN
  BY DEF Parts, Aims, Fits
<1>2. Later(disc, disc')
  BY <1>1, PairingDoneRefines, RefinesLater DEF device_disconnected
<1>3. CASE owner
  BY <1>2, <1>3 DEF device_disconnected, Update, Handled
<1>4. CASE ~owner
  BY <1>2, <1>4 DEF device_disconnected, Handled, Serves, input, policy
<1> QED BY <1>3, <1>4

\* A handler that tells the application of no change of the input.
LEMMA QuietHandled ==
  ASSUME Parts, BtIdle, UNCHANGED <<owner, connected, policy, enabled, ready, board>>,
         disc' = disc \/ Refines(disc', disc) \/ Later(disc, disc'),
         slot' = NoSlot \/ slot'.peer = slot.peer \/ slot'.peer = disc.selected
  PROVE  Handled
<1>1. Fits(disc)
  BY DEF Parts, Aims
<1>2. Later(disc, disc')
  BY <1>1, LaterItself, RefinesLater
<1> QED BY <1>2 DEF Handled, Serves, policy

LEMMA LinkHandled == ASSUME Parts, Links PROVE Handled
<1> SUFFICES ASSUME NEW p \in Peers,
                    \/ AdvertListed(p) \/ AdvertConnects(p) \/ AdvertRefused(p)
                    \/ LinkUp(p) \/ LinkFails(p) \/ LinkClosed(p) \/ OrphanPairs(p)
             PROVE  Handled
  BY DEF Links
<1>t. /\ Aims(disc) /\ disc \in Discoveries /\ slot \in Slots
      /\ TRUE \in BOOLEAN /\ FALSE \in BOOLEAN
  BY DEF Parts, Aims, Fits
<1>1. CASE AdvertListed(p)
  <2> DEFINE d == observe(disc, p)
  <2>1. Later(disc, d) /\ Fits(d) /\ d \in Discoveries
    BY <1>t, ObserveLater DEF Later, Fits
  <2> HIDE DEF d
  <2>2. Later(d, pairing_done(d, p, TRUE))
    BY <1>t, <2>1, PairingDoneRefines, RefinesLater
  <2>3. disc' \in {disc, pairing_done(d, p, TRUE)}
    BY <1>1 DEF AdvertListed, d
  <2>4. Later(disc, pairing_done(d, p, TRUE))
    BY <1>t, <2>1, <2>2, GrownFurther DEF Later, Fits, Discoveries
  <2>5. disc' = disc \/ Later(disc, disc')
    BY <2>3, <2>4
  <2> QED BY <1>1, <2>5, QuietHandled DEF AdvertListed, Heard, input
<1>2. CASE AdvertConnects(p)
  <2>1. Refines(disc', disc)
    BY <1>2, <1>t, PairingDoneRefines DEF AdvertConnects
  <2>2. slot'.peer = disc.selected
    BY <1>2, NewSlotLive DEF AdvertConnects, Admitted
  <2> QED BY <1>2, <2>1, <2>2, QuietHandled DEF AdvertConnects, Heard, input
<1>3. CASE AdvertRefused(p)
  <2>1. Refines(disc', disc)
    BY <1>3, <1>t, PairingDoneRefines DEF AdvertRefused
  <2> QED BY <1>3, <2>1, QuietHandled DEF AdvertRefused, Heard, input
<1>4. CASE LinkUp(p)
  <2>1. slot'.peer = slot.peer
    <3>1. CASE slot.peer = p
      <4>1. slot \in LiveSlots /\ "linked" \in Phases
        BY <1>t, <3>1, SlotIsLive DEF Phases
      <4>2. [slot EXCEPT !.phase = "linked"].peer = slot.peer
        BY <1>t, <4>1, SlotSteps
      <4> QED BY <1>4, <3>1, <4>2 DEF LinkUp, StepTo
    <3>2. CASE slot.peer # p
      BY <1>4, <3>2 DEF LinkUp
    <3> QED BY <3>1, <3>2
  <2> QED BY <1>4, <2>1, QuietHandled DEF LinkUp, input
<1>5. CASE LinkFails(p)
  <2>1. CASE slot.phase \in {"none", "setup", "ready"}
    BY <1>5, <2>1, QuietHandled DEF LinkFails, input
  <2>2. CASE slot.phase \notin {"none", "setup", "ready"}
    BY <1>5, <2>2, LostHandled DEF LinkFails
  <2> QED BY <2>1, <2>2
<1>6. CASE LinkClosed(p)
  <2>1. CASE slot.peer = p
    BY <1>6, <2>1, LostHandled DEF LinkClosed
  <2>2. CASE slot.peer # p
    BY <1>6, <2>2, QuietHandled DEF LinkClosed, input
  <2> QED BY <2>1, <2>2
<1>7. CASE OrphanPairs(p)
  BY <1>7, QuietHandled DEF OrphanPairs, input
<1> QED
  BY <1>1, <1>2, <1>3, <1>4, <1>5, <1>6, <1>7

LEMMA PairingHandled == ASSUME Parts, Pairing PROVE Handled
<1>t. /\ disc \in Discoveries /\ Aims(disc) /\ slot \in Slots
      /\ TRUE \in BOOLEAN /\ FALSE \in BOOLEAN /\ "secured" \in Phases
  BY DEF Parts, Aims, Fits, Phases
<1>l. slot \in LiveSlots /\ slot.phase \in Phases
  <2>1. slot.phase = "linked"
    BY DEF Pairing, Passkey, PasskeyCancelled, PairingOk, RepairStarts, PairingFails, InPhase
  <2> QED BY <1>t, <2>1, SlotIsLive
<1>1. CASE Passkey
  <2>1. slot'.peer = slot.peer
    BY <1>1, <1>t, <1>l, SlotSteps DEF Passkey
  <2>2. disc' = [disc EXCEPT !.passkey = TRUE, !.failed = FALSE]
    BY <1>1 DEF Passkey
  <2>3. disc'.list = disc.list /\ disc'.selected = disc.selected /\ Fits(disc')
    <3>1. disc' \in Discoveries /\ disc'.list = disc.list /\ disc'.selected = disc.selected
      BY Zenon, <1>t, <2>2 DEF Discoveries
    <3> QED BY <1>t, <3>1 DEF Aims, Fits
  <2>4. Later(disc, disc')
    BY <2>3, GrownItself DEF Later
  <2> QED BY <1>1, <2>1, <2>4, QuietHandled DEF Passkey, input
<1>2. CASE PasskeyCancelled \/ PairingOk
  <2>1. Refines(disc', disc)
    BY <1>2, <1>t, PairingDoneRefines DEF PasskeyCancelled, PairingOk, PairingSays
  <2>2. slot' \in {slot, [slot EXCEPT !.phase = "secured"]}
    BY <1>2 DEF PasskeyCancelled, PairingOk, StepTo
  <2>3. [slot EXCEPT !.phase = "secured"].peer = slot.peer
    BY <1>t, <1>l, SlotSteps
  <2>4. slot'.peer = slot.peer
    BY <2>2, <2>3
  <2> QED BY <1>2, <2>1, <2>4, QuietHandled DEF PasskeyCancelled, PairingOk, input
<1>3. CASE RepairStarts \/ PairingFails
  <2>1. Refines(disc', disc)
    BY <1>3, <1>t, PairingDoneRefines DEF RepairStarts, PairingFails, PairingSays
  <2>2. slot' \in {slot, [slot EXCEPT !.repaired = TRUE]}
    BY <1>3 DEF RepairStarts, PairingFails
  <2>3. slot'.peer = slot.peer
    BY <1>t, <1>l, <2>2, SlotSteps
  <2> QED BY <1>3, <2>1, <2>3, QuietHandled DEF RepairStarts, PairingFails, HangupOnly, input
<1> QED BY <1>1, <1>2, <1>3 DEF Pairing

LEMMA SetupHandled == ASSUME Parts, Setup PROVE Handled
<1>t. /\ disc \in Discoveries /\ Aims(disc) /\ slot \in Slots
      /\ TRUE \in BOOLEAN /\ FALSE \in BOOLEAN /\ {"setup", "confirming", "ready"} \subseteq Phases
  BY DEF Parts, Aims, Fits, Phases
<1>l. slot \in LiveSlots /\ slot.phase \in Phases
  <2>1. slot.phase # "none"
    BY DEF Setup, GattFails, HidFound, HidUnsupported, IineVerified, IinePending, IineFails,
           DeviceReady, DeviceDeclined, Report, InPhase
  <2> QED BY <1>t, <2>1, SlotIsLive
<1>1. CASE GattFails \/ Report
  BY <1>1, QuietHandled DEF GattFails, Report, HangupOnly, input
<1>2. CASE HidFound \/ IineVerified
  <2>1. slot' = [slot EXCEPT !.phase = "setup"]
    BY <1>2 DEF HidFound, IineVerified, StepTo
  <2>2. slot'.peer = slot.peer
    BY <1>t, <1>l, <2>1, SlotSteps
  <2> QED BY <1>2, <2>2, QuietHandled DEF HidFound, IineVerified, input
<1>3. CASE HidUnsupported \/ DeviceDeclined
  BY <1>3, LostHandled DEF HidUnsupported, DeviceDeclined, DropSlot, Disconnect
<1>4. CASE IinePending
  <2>1. Refines(disc', disc)
    BY <1>4, <1>t, ConfirmationRefines DEF IinePending
  <2>2. slot'.peer = slot.peer
    BY <1>4, <1>t, <1>l, SlotSteps DEF IinePending
  <2> QED BY <1>4, <2>1, <2>2, QuietHandled DEF IinePending, input
<1>5. CASE IineFails
  <2>1. slot'.peer = slot.peer
    BY <1>5, <1>t, <1>l, SlotSteps DEF IineFails
  <2> QED BY <1>5, <2>1, LostHandled DEF IineFails, Disconnect
<1>6. CASE DeviceReady
  <2>1. Refines(disc', disc)
    BY <1>6, <1>t, PairingDoneRefines DEF DeviceReady
  <2>2. Later(disc, disc')
    BY <1>t, <2>1, RefinesLater DEF Aims
  <2> QED BY <1>6, <2>2 DEF DeviceReady, Update, Handled
<1> QED BY <1>1, <1>2, <1>3, <1>4, <1>5, <1>6 DEF Setup

LEMMA TimerHandled == ASSUME Parts, Timers PROVE Handled
<1>1. CASE ConnectionTimeout
  BY <1>1, LostHandled DEF ConnectionTimeout, DropSlot, Disconnect
<1>2. CASE PasskeyTimeout
  <2>1. disc \in Discoveries /\ FALSE \in BOOLEAN
    BY DEF Parts, Aims, Fits
  <2>2. Refines(disc', disc)
    BY <1>2, <2>1, PairingDoneRefines DEF PasskeyTimeout
  <2> QED BY <1>2, <2>2, QuietHandled DEF PasskeyTimeout, input
<1> QED BY <1>1, <1>2 DEF Timers

-----------------------------------------------------------------------------
(***************************************************************************)
(* The decision holds until an update is asked for                         *)
(***************************************************************************)
\* What carrying out a decision leaves: the scan as decided, and a slot that
\* is empty, the owner's or the selection's.
LEMMA DecisionCarriedOut ==
  ASSUME Parts, ~BtIdle, Policy
  PROVE  /\ UNCHANGED <<allowed, updating, connected, owner, board>> /\ BtIdle'
         /\ enabled' = (applying = "scan")
         /\ Later(disc, disc')
         /\ slot' = NoSlot \/ owner \/ slot'.peer = disc.selected
<1>t. /\ disc \in Discoveries /\ Fits(disc) /\ slot \in Slots /\ FALSE \in BOOLEAN
      /\ TRUE \in BOOLEAN /\ "setup" \in Phases
  BY DEF Parts, Aims, Fits, Phases
<1>1. CASE ApplyDrops
  BY <1>1, <1>t, LaterItself DEF ApplyDrops, ScanAsDecided, BtIdle, input
<1>2. CASE ApplyConfirms
  <2>1. slot \in LiveSlots /\ slot.peer = disc.selected
    BY <1>2, <1>t, SlotIsLive DEF ApplyConfirms, Confirming, Unwanted
  <2>2. Refines(disc', disc)
    BY <1>2, <1>t, ConfirmationRefines, AskedRefines DEF ApplyConfirms
  <2>3. slot' \in {slot, [slot EXCEPT !.phase = "setup", !.timed = TRUE]}
    BY <1>2 DEF ApplyConfirms
  <2>4. slot'.peer = slot.peer
    <3>1. [slot EXCEPT !.phase = "setup", !.timed = TRUE].peer = slot.peer
      BY <1>t, <2>1, SlotSteps
    <3> QED BY <2>3, <3>1
  <2>5. Later(disc, disc')
    BY <1>t, <2>2, RefinesLater
  <2> QED BY <1>2, <2>1, <2>4, <2>5 DEF ApplyConfirms, ScanAsDecided, BtIdle, input
<1>3. CASE ApplyConfirmsLate
  <2>1. slot \in LiveSlots /\ slot.peer = disc.selected /\ slot.phase \in Phases
    BY <1>3, <1>t, SlotIsLive DEF ApplyConfirmsLate, Confirming, Unwanted
  <2>2. Refines(disc', disc)
    BY <1>3, <1>t, PairingDoneRefines DEF ApplyConfirmsLate
  <2>3. slot'.peer = slot.peer
    BY <1>3, <1>t, <2>1, SlotSteps DEF ApplyConfirmsLate
  <2>4. Later(disc, disc')
    BY <1>t, <2>2, RefinesLater
  <2> QED BY <1>3, <2>1, <2>3, <2>4 DEF ApplyConfirmsLate, ScanAsDecided, BtIdle, input
<1>4. CASE ApplyScans
  BY <1>4, <1>t, LaterItself DEF ApplyScans, Unwanted, ScanAsDecided, BtIdle, input
<1>5. ~PlatformReady /\ ~ApplyReads
  BY DEF PlatformReady, ApplyReads
<1> QED BY <1>1, <1>2, <1>3, <1>4, <1>5 DEF Policy

\* The parts of DecisionHolds, each a relation of its own.
ScanHolds == BtIdle /\ ready = "applied" => enabled = (allowed /\ ~connected)
PlanHolds == ~BtIdle => (applying = "scan") = (allowed /\ ~connected)
SlotHolds == BtIdle => slot = NoSlot \/ owner \/ slot.peer = disc.selected

LEMMA DecisionParts ==
  /\ DecisionHolds <=> (Unasked => ScanHolds /\ PlanHolds /\ SlotHolds)
  /\ DecisionHolds' <=> (Unasked' => ScanHolds' /\ PlanHolds' /\ SlotHolds')
BY Zenon DEF DecisionHolds, ScanHolds, PlanHolds, SlotHolds

LEMMA DecisionByPolicy ==
  ASSUME Parts, DecisionHolds, Policy PROVE DecisionHolds'
<1>t. allowed \in BOOLEAN /\ connected \in BOOLEAN
  BY DEF Parts, PlainTypes
<1>1. CASE PlatformReady
  <2>1. /\ BtIdle /\ ready' = "started"
        /\ UNCHANGED <<disc, slot, owner, connected, allowed, updating, applying, task>>
    BY <1>1 DEF PlatformReady, input, policy, board
  <2> QED BY <2>1 DEF DecisionHolds, Unasked, BtIdle
<1>2. CASE ApplyReads
  <2>1. applying' = (IF allowed /\ ~connected THEN "scan" ELSE "stop")
        /\ UNCHANGED <<allowed, connected>>
    BY <1>2 DEF ApplyReads, input
  <2>2. ~BtIdle' /\ (applying' = "scan") = (allowed' /\ ~connected')
    BY <1>t, <2>1 DEF BtIdle
  <2> QED BY <2>2 DEF DecisionHolds
<1>3. CASE ~BtIdle
  <2>1. /\ UNCHANGED <<allowed, updating, connected, owner, task>> /\ BtIdle'
        /\ enabled' = (applying = "scan") /\ disc'.selected = disc.selected
        /\ slot' = NoSlot \/ owner \/ slot'.peer = disc.selected
    BY <1>3, DecisionCarriedOut DEF Later, board
  <2>2. Unasked' => enabled' = (allowed' /\ ~connected')
    BY <1>3, <2>1 DEF DecisionHolds, Unasked
  <2> QED BY <2>1, <2>2 DEF DecisionHolds
<1>4. BtIdle => PlatformReady \/ ApplyReads
  BY DEF Policy, ApplyDrops, ApplyConfirms, ApplyConfirmsLate, ApplyScans
<1> QED BY <1>1, <1>2, <1>3, <1>4

LEMMA DecisionByHandler ==
  ASSUME DecisionHolds, Handled, slot' \in Slots PROVE DecisionHolds'
<1>1. CASE updating'
  BY <1>1 DEF DecisionHolds, Unasked
<1>2. CASE ~updating'
  <2>1. /\ BtIdle /\ UNCHANGED <<allowed, applying, enabled, ready, task, updating, connected>>
        /\ disc'.selected = disc.selected /\ Serves
    BY <1>2 DEF Handled, Later, board
  <2>2. (Unasked' <=> Unasked) /\ BtIdle'
    BY <2>1 DEF Unasked, BtIdle
  <2>3. Unasked => ScanHolds /\ PlanHolds /\ SlotHolds
    BY DecisionParts
  <2>4. ScanHolds => ScanHolds'
    BY <2>1 DEF ScanHolds, BtIdle
  <2>5. PlanHolds'
    BY <2>2 DEF PlanHolds
  <2>6. SlotHolds => SlotHolds'
    <3>1. slot = NoSlot /\ slot'.peer = slot.peer => slot' = NoSlot
      BY EmptySlot, ControllerAssumption DEF Slots
    <3> QED BY <2>1, <3>1 DEF SlotHolds, Serves
  <2> QED BY <2>2, <2>3, <2>4, <2>5, <2>6, DecisionParts
<1> QED BY <1>1, <1>2

\* A step of the menu task asks for an update or changes nothing it is about.
LEMMA MenuAsks ==
  ASSUME Parts, Menu
  PROVE  /\ UNCHANGED <<slot, owner, connected, applying, enabled, ready>>
         /\ \/ updating' \/ task' = "update"
            \/ (UNCHANGED <<allowed, updating>> /\ task # "update" /\ disc'.selected = disc.selected)
<1>1. UNCHANGED <<slot, owner, connected, applying, enabled, ready>>
  BY DEF Menu, UpdateFlags, UpdateEnqueues, OpenManagement, CloseManagement, OpenPairing,
       PairingEnds, Snapshot, LeavePairing, ClearSelection, Resnap, ConfirmIine, MoveCursor,
       SelectCandidate, Drained, MenuOnly, BtUntouched, input
<1>2. CASE UpdateFlags \/ OpenManagement \/ CloseManagement \/ ClearSelection \/ ConfirmIine
           \/ SelectCandidate
  BY <1>1, <1>2 DEF UpdateFlags, OpenManagement, CloseManagement, ClearSelection, ConfirmIine,
       SelectCandidate, ThenUpdate
<1>3. CASE OpenPairing
  <2>1. disc'.selected = disc.selected
    BY <1>3, BeginScanAims DEF OpenPairing, Parts
  <2> QED BY <1>1, <1>3, <2>1 DEF OpenPairing, MenuOnly
<1>4. CASE UpdateEnqueues \/ PairingEnds \/ Snapshot \/ LeavePairing \/ Resnap \/ MoveCursor
           \/ Drained
  BY <1>1, <1>4 DEF UpdateEnqueues, PairingEnds, Snapshot, LeavePairing, Resnap, MoveCursor,
       Browsing, Drained, MenuOnly
<1> QED BY <1>2, <1>3, <1>4 DEF Menu

LEMMA DecisionByMenu ==
  ASSUME Parts, DecisionHolds, Menu PROVE DecisionHolds'
<1>1. /\ UNCHANGED <<slot, owner, connected, applying, enabled, ready>>
      /\ \/ updating' \/ task' = "update"
         \/ (UNCHANGED <<allowed, updating>> /\ task # "update" /\ disc'.selected = disc.selected)
  BY MenuAsks
<1>2. CASE updating' \/ task' = "update"
  BY <1>2 DEF DecisionHolds, Unasked
<1>3. CASE UNCHANGED <<allowed, updating>> /\ task # "update" /\ disc'.selected = disc.selected
  BY <1>1, <1>3 DEF DecisionHolds, Unasked, BtIdle
<1> QED BY <1>1, <1>2, <1>3

LEMMA HandlersHandle ==
  ASSUME Parts, Links \/ Pairing \/ Setup \/ Timers PROVE Handled
BY LinkHandled, PairingHandled, SetupHandled, TimerHandled

LEMMA DecisionStep == Parts /\ DecisionHolds /\ [Next]_vars => DecisionHolds'
<1> SUFFICES ASSUME Parts, DecisionHolds, [Next]_vars PROVE DecisionHolds'
  OBVIOUS
<1>1. CASE UNCHANGED vars
  BY <1>1 DEF vars, input, policy, board, DecisionHolds, Unasked, BtIdle
<1>2. slot' \in Slots
  BY PartsStep DEF Parts
<1> QED BY <1>1, <1>2, DecisionByPolicy, DecisionByHandler, HandlersHandle, DecisionByMenu
    DEF Next, Bluetooth

-----------------------------------------------------------------------------
(***************************************************************************)
(* The page's snapshot                                                     *)
(***************************************************************************)
\* A step that leaves the page alone lets the list grow.
LEMMA SnapshotLater ==
  ASSUME Parts, SnapshotHolds, UNCHANGED board, Later(disc, disc') PROVE SnapshotHolds'
<1>1. /\ snap.list \in Seq(Peers) /\ disc.list \in Seq(Peers) /\ disc'.list \in Seq(Peers)
      /\ Grown(disc, disc')
  BY DEF Parts, Aims, Fits, Discoveries, Later
<1>2. Grown(snap, disc) => Grown(snap, disc')
  BY <1>1, GrownFurther
<1>3. Grown(snap, disc') => Grown(snap', disc')
  BY DEF board
<1> QED BY <1>2, <1>3 DEF SnapshotHolds, Reading, board

\* The cursor wraps round on the list it moves over.
LEMMA CursorWraps ==
  ASSUME NEW n \in Nat \ {0}, NEW k \in Nat PROVE (k % n) + 1 <= n
OBVIOUS

LEMMA SnapshotByMenu ==
  ASSUME Parts, SnapshotHolds, Menu PROVE SnapshotHolds'
<1>t. /\ Aims(disc) /\ disc.list \in Seq(Peers) /\ snap.list \in Seq(Peers)
      /\ disc \in Discoveries /\ cursor \in Nat \ {0} /\ Fits(disc)
      /\ 1 \in 1..MaxListed
  BY ControllerAssumption DEF Parts, PlainTypes, Aims, Fits, Discoveries
<1>1. CASE UpdateFlags \/ UpdateEnqueues
  <2>1. UNCHANGED <<disc, snap, cursor, back>> /\ task \in {"update", "enqueue"}
        /\ task' \in {"enqueue", back}
    BY <1>1 DEF UpdateFlags, UpdateEnqueues
  <2>2. Reading' => Reading
    BY <2>1 DEF Reading
  <2> QED BY <2>1, <2>2 DEF SnapshotHolds, Grown
<1>2. CASE \/ OpenManagement \/ CloseManagement \/ OpenPairing \/ PairingEnds \/ LeavePairing
           \/ ClearSelection \/ Drained
  BY <1>2 DEF OpenManagement, CloseManagement, OpenPairing, PairingEnds, LeavePairing,
       ClearSelection, Drained, ThenUpdate, Goto, SnapshotHolds, Reading
<1>3. CASE Snapshot
  <2>1. snap' = disc /\ disc' = disc /\ (disc.list # <<>> => cursor' <= Len(disc.list))
    BY <1>3, <1>t DEF Snapshot
  <2> QED BY <2>1, GrownItself DEF SnapshotHolds
<1>4. CASE Resnap
  <2>1. snap' = disc /\ disc' = disc /\ cursor' = 1
    BY <1>4 DEF Resnap, MenuOnly
  <2>2. disc.list # <<>> => 1 <= Len(disc.list)
    BY <1>t
  <2> QED BY <2>1, <2>2, GrownItself DEF SnapshotHolds
<1>5. CASE ConfirmIine
  <2>1. Refines(disc', disc)
    BY <1>5, <1>t, AskedRefines DEF ConfirmIine
  <2>2. Reading /\ UNCHANGED <<snap, cursor>>
    BY <1>5 DEF ConfirmIine, Reading
  <2> QED BY <2>1, <2>2 DEF Refines, SnapshotHolds, Grown
<1>6. CASE MoveCursor
  <2>1. /\ Reading /\ UNCHANGED <<disc, snap>> /\ snap.list # <<>>
        /\ cursor' \in {(cursor % Len(snap.list)) + 1,
                        ((cursor + Len(snap.list) - 2) % Len(snap.list)) + 1}
    BY <1>6 DEF MoveCursor, Browsing, Reading
  <2>2. Len(snap.list) \in Nat \ {0}
    BY <1>t, <2>1
  <2>3. cursor + Len(snap.list) - 2 \in Nat
    BY <1>t, <2>2
  <2>4. cursor' <= Len(snap.list)
    BY <1>t, <2>1, <2>2, <2>3, CursorWraps
  <2> QED BY <2>1, <2>4 DEF SnapshotHolds, Grown
<1>7. CASE SelectCandidate
  <2>1. disc.list[cursor] \in Peers \union {None}
    BY <1>7, <1>t DEF SelectCandidate
  <2>2. disc'.list = disc.list
    BY <1>7, <1>t, <2>1, SelectFits DEF SelectCandidate
  <2>3. Reading /\ UNCHANGED <<snap, cursor>>
    BY <1>7 DEF SelectCandidate, Browsing, Reading
  <2> QED BY <2>2, <2>3 DEF SnapshotHolds, Grown
<1> QED BY <1>1, <1>2, <1>3, <1>4, <1>5, <1>6, <1>7 DEF Menu

LEMMA PolicyLater == ASSUME Parts, Policy PROVE UNCHANGED board /\ Later(disc, disc')
<1>1. CASE BtIdle
  <2>1. UNCHANGED <<disc, board>>
    BY <1>1 DEF Policy, PlatformReady, ApplyReads, ApplyDrops, ApplyConfirms, ApplyConfirmsLate,
                ApplyScans
  <2> QED BY <2>1, LaterItself DEF Parts, Aims
<1>2. CASE ~BtIdle
  BY <1>2, DecisionCarriedOut
<1> QED BY <1>1, <1>2

LEMMA SnapshotStep == Parts /\ SnapshotHolds /\ [Next]_vars => SnapshotHolds'
<1> SUFFICES ASSUME Parts, SnapshotHolds, [Next]_vars PROVE SnapshotHolds'
  OBVIOUS
<1>1. CASE Bluetooth
  BY <1>1, PolicyLater, HandlersHandle, SnapshotLater DEF Bluetooth, Handled
<1>2. CASE Menu
  BY <1>2, SnapshotByMenu
<1>3. CASE UNCHANGED vars
  BY <1>3 DEF vars, board, SnapshotHolds, Reading, Grown
<1> QED BY <1>1, <1>2, <1>3 DEF Next

-----------------------------------------------------------------------------
LEMMA ControllerInit == Init => ControllerIInv
<1>1. Init => Parts
  BY PartsInit
<1>2. Init => DecisionHolds
  BY DEF Init, DecisionHolds, BtIdle
<1>3. Init => SnapshotHolds
  BY DEF Init, SnapshotHolds, Reading
<1> QED BY <1>1, <1>2, <1>3, InvariantHasParts

LEMMA ControllerStep == ControllerIInv /\ [Next]_vars => ControllerIInv'
<1>1. ControllerIInv => Parts /\ DecisionHolds /\ SnapshotHolds
  BY InvariantHasParts
<1>2. Parts' /\ DecisionHolds' /\ SnapshotHolds' => ControllerIInv'
  BY InvariantHasParts
<1> QED BY <1>1, <1>2, PartsStep, DecisionStep, SnapshotStep

(* Keys are down only for an owner that is set up, a passkey is shown only  *)
(* under its timer, the target of reconnection stays on the list, a         *)
(* decision of the policy holds until an update is asked for, and the page  *)
(* reads a list that only grows, whatever links, timers, reports and the    *)
(* user do (gamepad.c, gamepad_discovery.c, game_main.c).                   *)
THEOREM ControllerInvariant == Spec => []ControllerIInv
BY ControllerInit, ControllerStep, PTL DEF Spec

(* No request is lost between the pending flag and the run loop: once a     *)
(* policy was applied and none is asked for, the scan is on exactly when it *)
(* is allowed and nothing is connected (gamepad.c, apply_scan_policy,       *)
(* update_scan_policy).                                                     *)
THEOREM NoRequestIsLost == Spec => []ScanFollowsPolicy
<1>1. ControllerIInv => ScanFollowsPolicy
  BY DEF ControllerIInv, DecisionHolds, ScanFollowsPolicy, Settled, Unasked
<1> QED BY <1>1, ControllerInvariant, PTL

(* A cancelled selection does not finish pairing in the background          *)
(* (gamepad.c, apply_scan_policy).                                          *)
THEOREM CancelledIsDropped == Spec => []NothingInBackground
<1>1. ControllerIInv => NothingInBackground
  BY DEF ControllerIInv, DecisionHolds, NothingInBackground, Settled, Unasked
<1> QED BY <1>1, ControllerInvariant, PTL

(* What OK selects is the candidate the page showed at the cursor           *)
(* (game_main.c, pairing_loop).                                             *)
THEOREM SelectsAsShown == Spec => SelectsWhatItRead
<1> DEFINE Chosen == disc'.selected \notin {disc.selected, None}
           Shown == cursor \in DOMAIN snap.list /\ disc'.selected = snap.list[cursor]
<1>1. ASSUME ControllerIInv, [Next]_vars, Chosen PROVE Shown
  <2>1. Parts /\ SnapshotHolds
    BY <1>1, InvariantHasParts
  <2>2. ~Bluetooth
    BY <1>1, <2>1, PolicyLater, HandlersHandle DEF Bluetooth, Handled, Later
  <2>3. SelectCandidate
    <3>1. ~OpenPairing
      BY <1>1, <2>1, BeginScanAims DEF OpenPairing, Parts
    <3>2. ~ClearSelection
      <4>1. ClearSelection => disc'.selected = None
        BY <2>1, ClearSelects DEF ClearSelection, Parts, Aims
      <4> QED BY <1>1, <4>1
    <3>3. ~ConfirmIine
      <4>1. ConfirmIine => Refines(disc', disc)
        BY <2>1, AskedRefines DEF ConfirmIine, Parts, Aims, Fits
      <4> QED BY <1>1, <4>1 DEF Refines
    <3>4. disc' # disc
      BY <1>1
    <3>5. Menu
      BY <1>1, <2>2, <3>4 DEF Next, vars
    <3> QED BY <3>1, <3>2, <3>3, <3>4, <3>5
        DEF Menu, UpdateFlags, UpdateEnqueues, OpenManagement, CloseManagement, PairingEnds,
            Snapshot, LeavePairing, Resnap, MoveCursor, Drained, MenuOnly
  <2>4. /\ Grown(snap, disc) /\ cursor <= Len(snap.list) /\ cursor <= Len(disc.list)
        /\ disc' = select(disc, disc.list[cursor])
    BY <2>1, <2>3 DEF SelectCandidate, Browsing, SnapshotHolds, Reading
  <2>5. /\ Fits(disc) /\ disc.list \in Seq(Peers) /\ snap.list \in Seq(Peers)
        /\ cursor \in Nat \ {0}
    BY <2>1, ControllerAssumption DEF Parts, PlainTypes, Aims, Fits, Discoveries
  <2>6. disc.list[cursor] \in Peers /\ cursor \in DOMAIN snap.list
        /\ disc.list[cursor] = snap.list[cursor]
    BY <2>4, <2>5 DEF Grown
  <2>7. disc'.selected = disc.list[cursor]
    BY <2>4, <2>5, <2>6, SelectFits
  <2> QED BY <2>6, <2>7
<1>2. ControllerIInv /\ [Next]_vars => [Chosen => Shown]_vars
  BY <1>1
<1> QED BY <1>2, ControllerInvariant, PTL DEF Spec, SelectsWhatItRead

-----------------------------------------------------------------------------
(***************************************************************************)
(* Whoever empties the slot, or fails to fill it, scans on                 *)
(***************************************************************************)
ScansOn == radio' = (radio \/ enabled) /\ enabled' = enabled
SlotStays == UNCHANGED <<enabled, radio>> /\ (slot' = slot \/ slot' # NoSlot)

LEMMA LiveIsTaken == ASSUME NEW l \in LiveSlots PROVE l # NoSlot
BY EmptySlot DEF LiveSlots

(* The policy turns the radio with the scan. *)
LEMMA PolicyHears ==
  ASSUME Parts, NeverDeaf, Policy PROVE NeverDeaf'
<1>t. /\ enabled \in BOOLEAN /\ radio \in BOOLEAN /\ slot \in Slots
  BY DEF Parts, PlainTypes
<1>1. CASE PlatformReady
  BY <1>t, <1>1 DEF PlatformReady, NeverDeaf
<1>2. CASE ApplyReads
  BY <1>2 DEF ApplyReads, NeverDeaf
<1>3. CASE ApplyDrops
  BY <1>t, <1>3 DEF ApplyDrops, ScanAsDecided, NeverDeaf
<1>4. CASE ApplyConfirms
  <2>1. slot # NoSlot /\ slot \in LiveSlots /\ slot.peer \in Peers
    BY <1>4, <1>t, SlotIsLive DEF ApplyConfirms, Confirming
  <2>2. slot' # NoSlot
    <3>1. TRUE \in BOOLEAN /\ "setup" \in Phases
      BY DEF Phases
    <3>2. [slot EXCEPT !.phase = "setup", !.timed = TRUE] \in LiveSlots
      BY <2>1, <3>1, SlotSteps
    <3>3. slot' \in {slot, [slot EXCEPT !.phase = "setup", !.timed = TRUE]}
      BY <1>4 DEF ApplyConfirms
    <3> QED BY <2>1, <3>2, <3>3, LiveIsTaken
  <2> QED BY <2>2 DEF NeverDeaf
<1>5. CASE ApplyConfirmsLate
  BY <1>t, <1>5 DEF ApplyConfirmsLate, ScanAsDecided, NeverDeaf
<1>6. CASE ApplyScans
  BY <1>t, <1>6 DEF ApplyScans, ScanAsDecided, NeverDeaf
<1> QED
  BY <1>1, <1>2, <1>3, <1>4, <1>5, <1>6 DEF Policy

(* Every other handler scans on, or leaves a slot taken. *)
LEMMA HandlerHears ==
  ASSUME Parts, Links \/ Pairing \/ Setup \/ Timers
  PROVE  ScansOn \/ SlotStays \/ slot' # NoSlot \/ radio' = enabled'
<1>t. slot \in Slots /\ TRUE \in BOOLEAN /\ FALSE \in BOOLEAN
  BY DEF Parts
<1>l. slot.phase # "none" => slot \in LiveSlots /\ slot.phase \in Phases
  BY <1>t, SlotIsLive
<1>p. {"linked", "secured", "confirming", "setup", "ready"} \subseteq Phases
  BY DEF Phases
<1>1. ASSUME NEW p \in Peers, AdvertListed(p) \/ AdvertRefused(p) \/ OrphanPairs(p)
             \/ LinkFails(p) \/ LinkClosed(p)
      PROVE  ScansOn \/ SlotStays \/ radio' = enabled'
  BY <1>1 DEF AdvertListed, AdvertRefused, OrphanPairs, LinkFails, LinkClosed, Hangup, ResumeScan,
              ScansOn, SlotStays
<1>2. ASSUME NEW p \in Peers, AdvertConnects(p) PROVE slot' # NoSlot
  BY <1>2, NewSlotLive, EmptySlot DEF AdvertConnects
<1>3. ASSUME NEW p \in Peers, LinkUp(p) PROVE SlotStays
  <2>1. CASE slot.peer = p
    <3>1. slot \in LiveSlots
      BY <1>t, <2>1, SlotIsLive
    <3>2. slot' = [slot EXCEPT !.phase = "linked"]
      BY <1>3, <2>1 DEF LinkUp, StepTo
    <3> QED BY <1>3, <1>t, <1>p, <3>1, <3>2, SlotSteps, LiveIsTaken DEF LinkUp, SlotStays
  <2>2. CASE slot.peer # p
    BY <1>3, <2>2 DEF LinkUp, SlotStays
  <2> QED BY <2>1, <2>2
<1>4. CASE Pairing
  <2>1. slot \in LiveSlots /\ slot.phase \in Phases
    BY <1>4, <1>l DEF Pairing, Passkey, PasskeyCancelled, PairingOk, RepairStarts, PairingFails,
                      InPhase
  <2>2. CASE Passkey \/ PairingOk \/ RepairStarts
    <3>1. slot' \in {[slot EXCEPT !.timed = TRUE], [slot EXCEPT !.phase = "secured"],
                     [slot EXCEPT !.repaired = TRUE]}
      BY <2>2 DEF Passkey, PairingOk, RepairStarts, StepTo
    <3>2. /\ [slot EXCEPT !.timed = TRUE] \in LiveSlots
          /\ [slot EXCEPT !.repaired = TRUE] \in LiveSlots
      BY <1>t, <2>1, SlotSteps
    <3>3. [slot EXCEPT !.phase = "secured"] \in LiveSlots
      BY <1>t, <1>p, <2>1, SlotSteps
    <3> QED BY <3>1, <3>2, <3>3, LiveIsTaken
  <2>3. CASE PasskeyCancelled \/ PairingFails
    BY <2>3 DEF PasskeyCancelled, PairingFails, HangupOnly, Hangup, ResumeScan, ScansOn, SlotStays
  <2> QED BY <1>4, <2>2, <2>3 DEF Pairing
<1>5. CASE Setup
  <2>1. slot \in LiveSlots /\ slot.phase \in Phases
    BY <1>5, <1>l DEF Setup, GattFails, HidFound, HidUnsupported, IineVerified, IinePending,
                      IineFails, DeviceReady, DeviceDeclined, Report, InPhase
  <2>2. CASE IineVerified \/ IinePending \/ DeviceReady
    <3>1. slot' \in {[slot EXCEPT !.phase = "setup"],
                     [slot EXCEPT !.phase = "confirming", !.timed = TRUE],
                     [slot EXCEPT !.phase = "ready", !.timed = FALSE]}
      BY <2>2 DEF IineVerified, IinePending, DeviceReady, StepTo
    <3>2. [slot EXCEPT !.phase = "setup"] \in LiveSlots
      BY <1>t, <1>p, <2>1, SlotSteps
    <3>3. [slot EXCEPT !.phase = "confirming", !.timed = TRUE] \in LiveSlots
      BY <1>t, <1>p, <2>1, SlotSteps
    <3>4. [slot EXCEPT !.phase = "ready", !.timed = FALSE] \in LiveSlots
      BY <1>t, <1>p, <2>1, SlotSteps
    <3> QED BY <3>1, <3>2, <3>3, <3>4, LiveIsTaken
  <2>3. CASE GattFails \/ HidFound \/ HidUnsupported \/ IineFails \/ DeviceDeclined \/ Report
    BY <2>3 DEF GattFails, HidFound, HidUnsupported, IineFails, DeviceDeclined, Report, DropSlot,
                Disconnect, HangupOnly, Hangup, ResumeScan, ScansOn, SlotStays
  <2> QED BY <1>5, <2>2, <2>3 DEF Setup
<1>6. CASE Timers
  BY <1>6 DEF Timers, ConnectionTimeout, PasskeyTimeout, DropSlot, Disconnect, Hangup, ResumeScan,
              ScansOn, SlotStays
<1> QED
  BY <1>1, <1>2, <1>3, <1>4, <1>5, <1>6 DEF Links

LEMMA HearsStep == Parts /\ NeverDeaf /\ [Next]_vars => NeverDeaf'
<1> SUFFICES ASSUME Parts, NeverDeaf, [Next]_vars PROVE NeverDeaf'
  OBVIOUS
<1>t. enabled \in BOOLEAN /\ radio \in BOOLEAN
  BY DEF Parts, PlainTypes
<1>1. CASE Policy
  BY <1>1, PolicyHears
<1>2. CASE Links \/ Pairing \/ Setup \/ Timers
  BY <1>2, <1>t, HandlerHears DEF ScansOn, SlotStays, NeverDeaf
<1>3. CASE Menu
  BY <1>3 DEF Menu, UpdateFlags, UpdateEnqueues, OpenManagement, CloseManagement, OpenPairing,
       PairingEnds, Snapshot, LeavePairing, ClearSelection, Resnap, ConfirmIine, MoveCursor,
       SelectCandidate, Drained, MenuOnly, BtUntouched, NeverDeaf
<1>4. CASE UNCHANGED vars
  BY <1>4 DEF vars, NeverDeaf
<1> QED
  BY <1>1, <1>2, <1>3, <1>4 DEF Next, Bluetooth

(* However the last attempt ended, a device that looks for a controller and *)
(* has none in its slot is listening (uni_bt_le.c, hog_connect,             *)
(* hog_disconnect, resume_scanning_hint).                                   *)
THEOREM RadioNeverDeaf == Spec => []NeverDeaf
<1>1. Init => Parts /\ NeverDeaf
  BY PartsInit DEF Init, NeverDeaf
<1>2. Parts /\ NeverDeaf /\ [Next]_vars => (Parts /\ NeverDeaf)'
  BY PartsStep, HearsStep
<1> QED BY <1>1, <1>2, PTL DEF Spec

=============================================================================
