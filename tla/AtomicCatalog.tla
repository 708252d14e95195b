---------------------------- MODULE AtomicCatalog ----------------------------
(***************************************************************************)
(* What gb_storage promises its callers, without flash sectors, slots or   *)
(* generations: a durable list of named games that changes one whole edit  *)
(* at a time, and a view of it that is either exact or locked.             *)
(*                                                                         *)
(* An edit is requested by Upload, Delete or Rename.  From then on the     *)
(* durable list is either the old one or the requested one, and the view   *)
(* says nothing until the edit is confirmed; if it is not confirmed the    *)
(* view stays locked until the device has been restarted.                  *)
(***************************************************************************)
EXTENDS Integers, Sequences, SequencesExt, SerialNumber

CONSTANTS Names, Roms, Playable, MaxRoms, GenMod

Game == [name : Names, rom : Roms]

VARIABLES
  committed,  \* the list a fault-free restart would show
  view,       \* the list in RAM
  goal,       \* the list the edit in progress asks for
  status,     \* "off", "ready", "publishing", "written" or "locked"
  edition,    \* the generation of the durable list
  trusted     \* the view may be used as evidence that a game is not there

durable == <<committed, edition>>
vars == <<durable, view, goal, status, trusted>>

Fresh(games, name) == \A i \in DOMAIN games : games[i].name # name

Init ==
  /\ committed \in Seq(Game)
  /\ view = <<>>
  /\ goal = <<>>
  /\ status = "off"
  /\ edition = 0
  /\ trusted = FALSE

(* A restart reads the durable list, or refuses to show anything.  A       *)
(* device on which no list was ever stored has an empty one, which is not  *)
(* trusted.                                                                *)
Load ==
  /\ status = "off"
  /\ trusted' \in BOOLEAN
  /\ \/ view' = committed /\ status' = "ready" /\ trusted'
     \/ view' = <<>> /\ committed = <<>> /\ status' = "ready" /\ ~trusted'
     \/ view' = <<>> /\ status' = "locked" /\ ~trusted'
  /\ UNCHANGED <<durable, goal>>

Begin(games) ==
  /\ status = "ready"
  /\ goal' = games
  /\ status' = "publishing"
  /\ trusted' = FALSE
  /\ UNCHANGED <<durable, view>>

Upload(name, rom) ==
  /\ Len(view) < MaxRoms
  /\ Fresh(view, name)
  /\ Begin(Append(view, [name |-> name, rom |-> rom]))

Delete(i) == Begin(RemoveAt(view, i))

Rename(i, name) ==
  /\ Fresh(view, name)
  /\ Begin([view EXCEPT ![i].name = name])

BecomesDurable ==
  /\ committed' = goal
  /\ edition' = Successor(edition, GenMod)

(* The requested list became durable, and the writer has been told so. *)
Written ==
  /\ status = "publishing"
  /\ BecomesDurable
  /\ status' = "written"
  /\ UNCHANGED <<view, goal, trusted>>

(* The outcome of the write is not known. *)
Uncertain ==
  /\ status = "publishing"
  /\ BecomesDurable \/ UNCHANGED durable
  /\ goal' = <<>>
  /\ status' = "locked"
  /\ UNCHANGED <<view, trusted>>

Confirm ==
  /\ status = "written"
  /\ view' = goal
  /\ goal' = <<>>
  /\ status' = "ready"
  /\ trusted' = TRUE
  /\ UNCHANGED durable

(* The new list is durable but could not be read back. *)
Unconfirmed ==
  /\ status = "written"
  /\ goal' = <<>>
  /\ status' = "locked"
  /\ UNCHANGED <<durable, view, trusted>>

(* Power is lost; a list half-way to durable ends up on either side. *)
PowerCut ==
  /\ status # "off"
  /\ (status = "publishing" /\ BecomesDurable) \/ UNCHANGED durable
  /\ view' = <<>>
  /\ goal' = <<>>
  /\ status' = "off"
  /\ trusted' = FALSE

Next ==
  \/ Load
  \/ \E name \in Names, rom \in Playable : Upload(name, rom)
  \/ \E i \in DOMAIN view : Delete(i)
  \/ \E i \in DOMAIN view, name \in Names : Rename(i, name)
  \/ Written
  \/ Uncertain
  \/ Confirm
  \/ Unconfirmed
  \/ PowerCut

Spec == Init /\ [][Next]_vars

(* A view that is not locked shows exactly what is durable. *)
ReadyViewIsCommitted == status = "ready" => view = committed
=============================================================================
