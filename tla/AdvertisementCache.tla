------------------------ MODULE AdvertisementCache ------------------------
(***************************************************************************)
(* What is remembered of the Bluetooth LE devices that advertise while a   *)
(* scan runs.  A device tells what it is in pieces, an advertisement and   *)
(* its scan response, so the pieces are joined in a table of a few entries *)
(* until the device has been silent for a while; the class of the joined   *)
(* entry decides whether it is offered to the user.                        *)
(*                                                                         *)
(* A packet is what its fields parse to.  One that is malformed changes    *)
(* nothing at all and is left out, as is one of a device that has a slot   *)
(* (Controller), which is not looked at: for the cache it is silent.  The  *)
(* clock counts milliseconds modulo Wrap; MaxQuiet bounds the time during  *)
(* which nothing at all is heard.                                          *)
(***************************************************************************)
EXTENDS Integers, FiniteSets

CONSTANTS
  Devices,      \* pairs of address and address type
  Packets,      \* the packets they may send
  Size,         \* UNI_BT_LE_ADV_CACHE_SIZE
  TTL,          \* UNI_BT_LE_ADV_TTL_MS
  Wrap,         \* 2^32
  MaxQuiet      \* bound: no silence is longer

Appearances == {"unset", "generic", "keyboard", "mouse", "joystick", "gamepad", "remote", "other"}
Names == {"", "iine", "xiaomi", "other"}
AllPackets ==
  [hid : BOOLEAN, iine : BOOLEAN, appearance : Appearances \union {"absent"},
   name : Names, complete : BOOLEAN]

ASSUME CacheAssumption ==
  /\ Packets \subseteq AllPackets
  /\ Size \in Nat \ {0} /\ TTL \in Nat \ {0} /\ MaxQuiet \in Nat
  /\ Wrap \in Nat /\ TTL + MaxQuiet <= Wrap

VARIABLES
  cache,        \* advertisement_cache: the entries in use
  now,          \* btstack_run_loop_get_time_ms
  scanning,     \* is_scanning
  heard,        \* history: the packets of a device since its last silence
  silent,       \* history: for how long it has been silent, at most TTL
  quiet,        \* history: the time since anything was heard
  crowded       \* history: more devices were heard at a time than fit

history == <<heard, silent, quiet, crowded>>
vars == <<cache, now, scanning, history>>

Slots == 1..Size
Unused == [used |-> FALSE]
Fresh(d) ==
  [used |-> TRUE, device |-> d, last |-> now, hid |-> FALSE, iine |-> FALSE,
   appearance |-> "unset", name |-> "", complete |-> FALSE]

---------------------------------------------------------------------------
\* uni_bt_le_adv_is_iine and uni_bt_le_adv_cod.
IsIine(e) ==
  /\ ~e.hid
  /\ e.appearance \in {"unset", "generic", "joystick", "gamepad"}
  /\ e.iine \/ (e.complete /\ e.name = "iine")

Cod(e) ==
  LET xiaomi == e.complete /\ e.name = "xiaomi"
  IN  CASE IsIine(e) -> "gamepad"
        [] ~IsIine(e) /\ e.appearance \in {"keyboard", "mouse", "joystick", "gamepad"} -> e.appearance
        [] ~IsIine(e) /\ e.appearance \in {"unset", "generic"} /\ (e.hid \/ xiaomi) -> "candidate"
        [] ~IsIine(e) /\ e.appearance = "remote" /\ xiaomi -> "candidate"
        [] OTHER -> "none"

\* The fields of packet p joined to entry e.
Joined(e, p) ==
  LET named == p.name # "" /\ (p.complete \/ ~e.complete)
  IN  [e EXCEPT !.last = now, !.hid = @ \/ p.hid, !.iine = @ \/ p.iine,
                !.appearance = IF p.appearance = "absent" THEN @ ELSE p.appearance,
                !.name = IF named THEN p.name ELSE @,
                !.complete = IF named THEN p.complete ELSE @]

Age(e) == (now - e.last) % Wrap
Outlived(e) == e.used /\ Age(e) >= TTL
(* Mutant: an entry stays although its device was silent. *)
Kept_Forever == cache
Kept == [i \in Slots |-> IF Outlived(cache[i]) THEN Unused ELSE cache[i]]

Entries(table, d) == {i \in Slots : table[i].used /\ table[i].device = d}
Spare(table) == {i \in Slots : ~table[i].used}
Oldest(table) == {i \in Slots : \A j \in Slots : Age(table[j]) <= Age(table[i])}

First(S) == {i \in S : \A j \in S : i <= j}

(* Mutant: a device that is known already takes a spare slot too. *)
Chosen_Anew(table, d) ==
  IF Spare(table) # {} THEN First(Spare(table)) ELSE First(Oldest(table))

\* The slot that takes a packet of d: its own, the first spare, the oldest.
Chosen(table, d) ==
  CASE Entries(table, d) # {} -> Entries(table, d)
    [] Entries(table, d) = {} /\ Spare(table) # {} -> First(Spare(table))
    [] OTHER -> First(Oldest(table))

\* uni_bt_le_adv_observe
observe(d, p) ==
  \E i \in Chosen(Kept, d) :
    cache' = [Kept EXCEPT ![i] = Joined(IF i \in Entries(Kept, d) THEN @ ELSE Fresh(d), p)]

---------------------------------------------------------------------------
Forgotten ==
  /\ heard' = [d \in Devices |-> {}] /\ silent' = [d \in Devices |-> TTL]
  /\ quiet' = 0 /\ crowded' = FALSE
Audible == {d \in Devices : heard[d] # {}}

\* uni_bt_le_on_gap_event_advertising_report, which the controller may
\* still deliver after the scan was stopped.
AdvertisingReport(d, p) ==
  /\ observe(d, p)
  /\ heard' = [heard EXCEPT ![d] = @ \union {p}]
  /\ silent' = [silent EXCEPT ![d] = 0] /\ quiet' = 0
  /\ crowded' = (crowded \/ Cardinality(Audible \union {d}) > Size)
  /\ UNCHANGED <<now, scanning>>

adv_reset == cache' = [i \in Slots |-> Unused] /\ Forgotten

scan_start ==
  /\ scanning' = TRUE
  /\ IF scanning THEN UNCHANGED <<cache, history>> ELSE adv_reset
  /\ UNCHANGED now

scan_stop == scanning' = FALSE /\ adv_reset /\ UNCHANGED now

\* A millisecond passes; only here a silence becomes too long.
Elapse ==
  /\ quiet < MaxQuiet
  /\ now' = (now + 1) % Wrap /\ quiet' = quiet + 1
  /\ silent' = [d \in Devices |-> IF silent[d] < TTL THEN silent[d] + 1 ELSE TTL]
  /\ heard' = [d \in Devices |-> IF silent'[d] < TTL THEN heard[d] ELSE {}]
  /\ UNCHANGED <<cache, scanning, crowded>>

Init ==
  /\ cache = [i \in Slots |-> Unused] /\ now \in 0..(Wrap - 1) /\ scanning = FALSE
  /\ heard = [d \in Devices |-> {}] /\ silent = [d \in Devices |-> TTL]
  /\ quiet = 0 /\ crowded = FALSE

Next ==
  \/ \E d \in Devices, p \in Packets : AdvertisingReport(d, p)
  \/ scan_start \/ scan_stop \/ Elapse

Spec == Init /\ [][Next]_vars

---------------------------------------------------------------------------
\* Properties.
UsedEntries ==
  [used : {TRUE}, device : Devices, last : 0..(Wrap - 1), hid : BOOLEAN, iine : BOOLEAN,
   appearance : Appearances, name : Names, complete : BOOLEAN]

(* A device has one entry at most, so that what it tells in two packets is  *)
(* joined and not told twice, whatever expires or is replaced in between    *)
(* (uni_bt_le_advertisement.c, uni_bt_le_adv_observe).                      *)
CacheTypeOK ==
  /\ cache \in [Slots -> UsedEntries \union {Unused}]
  /\ now \in 0..(Wrap - 1) /\ scanning \in BOOLEAN
  /\ \A i, j \in Slots :
       cache[i].used /\ cache[j].used /\ cache[i].device = cache[j].device => i = j

\* What the packets of H say together, in whichever order they came.
Says(H) ==
  [hid |-> \E p \in H : p.hid, iine |-> \E p \in H : p.iine,
   appearances |-> {p.appearance : p \in H} \ {"absent"},
   complete |-> \E p \in H : p.complete /\ p.name # "",
   names |-> {p.name : p \in {q \in H : q.name # "" /\
                (q.complete \/ ~\E r \in H : r.complete /\ r.name # "")}}]
Agrees(e, said) ==
  /\ e.hid = said.hid /\ e.iine = said.iine /\ e.complete = said.complete
  /\ e.appearance \in (IF said.appearances = {} THEN {"unset"} ELSE said.appearances)
  /\ e.name \in (IF said.names = {} THEN {""} ELSE said.names)

OffersInput(p) ==
  \/ p.hid \/ p.iine \/ (p.complete /\ p.name \in {"iine", "xiaomi"})
  \/ p.appearance \in {"keyboard", "mouse", "joystick", "gamepad"}

(* A device is judged by all its packets since it was last silent, in       *)
(* whichever order they came, and by no older one: its entry neither        *)
(* outlives the silence or the scan, also when the clock wraps, nor is it   *)
(* lost while there is room. An entry replaced for want of room may be      *)
(* begun again with less. No device is offered that never said it is an     *)
(* input device (uni_bt_le_adv_observe, uni_bt_le_adv_cod; uni_bt_le.c,     *)
(* uni_bt_le_scan_start and uni_bt_le_scan_stop).                           *)
JudgedByWhatWasHeard ==
  /\ \A i \in Slots : cache[i].used /\ Age(cache[i]) < TTL =>
       /\ \E H \in SUBSET heard[cache[i].device] : H # {} /\ Agrees(cache[i], Says(H))
       /\ Cod(cache[i]) # "none" =>
            \E p \in heard[cache[i].device] : OffersInput(p)
  /\ \A d \in Devices : heard[d] # {} /\ ~crowded =>
       \E i \in Slots : /\ cache[i].used /\ cache[i].device = d
                        /\ Agrees(cache[i], Says(heard[d]))

=============================================================================
