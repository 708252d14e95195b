------------------------------ MODULE IineLink ------------------------------
(***************************************************************************)
(* The private protocol of the L1241 controller, from the first security   *)
(* completion of a connection to its disconnection: discovery of the       *)
(* configuration service, subscription, the identity and capability        *)
(* requests with their retries, the user's consent to an unknown firmware, *)
(* the switch to the test page, and keepalives.                            *)
(*                                                                         *)
(* The GATT client takes one operation of a connection at a time and       *)
(* refuses another; it may also refuse for reasons of its own.  A request  *)
(* the controller received may be answered at any later time, repeatedly,  *)
(* before or after the write that carried it completes.  A deadline in the *)
(* future may be found due by any later tick; one set to the present is    *)
(* due at the next.  Packets that do not parse change nothing and are left *)
(* out, and so are the payloads but for the firmware they tell.            *)
(***************************************************************************)
EXTENDS Naturals

CONSTANTS
  MaxAttempts   \* the requests made of one kind, 2 in tick

ASSUME IineLinkAssumption == MaxAttempts \in Nat \ {0}

VARIABLES
  dev,          \* the device slot: "off", "up", or "closing" after fail
  fw,           \* what the connected controller is: "known", "other", "foreign"
  s,            \* links[0]
  gatt,         \* an operation of the GATT client is outstanding
  answers,      \* history: what the controller was asked on this connection
  consented,    \* history: the user confirmed on this link
  restarted     \* history: this connection had a link before

connection == <<fw, answers, consented, restarted>>
vars == <<dev, s, gatt, connection>>

UpToTheQuestion == {"SERVICE", "CHARACTERISTICS", "SUBSCRIBE", "INFO", "CONFIRM"}
PastTheQuestion == {"CAPS", "MODE", "DELAY", "TEST", "RUNNING"}

NoLink == [step |-> "none"]
Linked == s # NoLink
Began ==
  [step |-> "SERVICE", busy |-> TRUE, replied |-> "no", ready |-> FALSE, found |-> {},
   serial |-> 0, attempts |-> 0, firmware |-> "unread"]

\* reset, alone or by fail, which also asks for the disconnection.
Reset == s' = NoLink
Fail == Reset /\ dev' = "closing" /\ UNCHANGED <<gatt, connection>>

\* advance
To(l, step) == [l EXCEPT !.step = step, !.attempts = 0, !.replied = "no"]

\* check_start: the link goes on as l when the client takes the operation.
Accepted(l) == ~gatt /\ gatt' = TRUE /\ s' = [l EXCEPT !.busy = TRUE] /\ UNCHANGED dev
Begins(l) ==
  /\ \/ Accepted(l)
     \/ Reset /\ dev' = "closing" /\ UNCHANGED gatt
  /\ UNCHANGED <<fw, consented, restarted>>

---------------------------------------------------------------------------
\* The device slot.

\* A controller is connected, its link secured and its GATT client idle.
\* Security may be reported again, also while a failed link closes.
Secured ==
  /\ dev = "off"
  /\ fw' \in {"known", "other", "foreign"} /\ answers' = {}
  /\ \/ s' = Began /\ gatt' = TRUE /\ dev' = "up"
     \/ Reset /\ dev' = "closing" /\ UNCHANGED gatt
  /\ consented' = FALSE /\ restarted' = FALSE

SecuredAgain ==
  /\ dev # "off" /\ ~Linked
  /\ \/ Accepted(Began)
     \/ Reset /\ dev' = "closing" /\ UNCHANGED gatt
  /\ consented' = FALSE /\ restarted' = TRUE
  /\ UNCHANGED <<fw, answers>>

\* The slot is deleted: cancelled, timed out, disconnected.
Deleted ==
  /\ dev # "off"
  /\ dev' = "off" /\ Reset /\ gatt' = FALSE
  /\ UNCHANGED connection

\* uni_bt_le_iine_confirm, in time: a consent applied later fails as ConfirmTimeout.
Confirm ==
  /\ Linked /\ s.step = "CONFIRM"
  /\ s' = To(s, "CAPS") /\ consented' = TRUE
  /\ UNCHANGED <<dev, fw, gatt, answers, restarted>>

---------------------------------------------------------------------------
\* packet_handler
ServiceResult ==
  /\ gatt /\ Linked /\ s.step = "SERVICE"
  /\ IF "service" \in s.found
     THEN Fail
     ELSE /\ s' = [s EXCEPT !.found = {"service"}]
          /\ UNCHANGED <<dev, gatt, connection>>

CharacteristicResult(chr) ==
  /\ gatt /\ Linked /\ s.step = "CHARACTERISTICS"
  /\ IF chr \in s.found
     THEN Fail
     ELSE /\ s' = [s EXCEPT !.found = @ \union {chr}]
          /\ UNCHANGED <<dev, gatt, connection>>

\* The operation is over. The next one of the discovery begins in its handler.
Completes == gatt /\ Linked /\ s.busy

CompletesBadly ==
  /\ Completes
  /\ Reset /\ dev' = "closing" /\ gatt' = FALSE
  /\ UNCHANGED connection

\* The next operation may begin in the handler of the last: the client is free.
Continues(l) ==
  /\ \/ gatt' = TRUE /\ s' = [l EXCEPT !.busy = TRUE] /\ UNCHANGED dev
     \/ gatt' = FALSE /\ Reset /\ dev' = "closing"
  /\ UNCHANGED connection

ServiceComplete ==
  /\ Completes /\ s.step = "SERVICE" /\ "service" \in s.found
  /\ Continues([s EXCEPT !.step = "CHARACTERISTICS"])

CharacteristicsComplete ==
  /\ Completes /\ s.step = "CHARACTERISTICS" /\ {"write", "notify"} \subseteq s.found
  /\ Continues([s EXCEPT !.step = "SUBSCRIBE"])

NothingFound ==
  /\ Completes
  /\ \/ s.step = "SERVICE" /\ "service" \notin s.found
     \/ s.step = "CHARACTERISTICS" /\ ~({"write", "notify"} \subseteq s.found)
  /\ Reset /\ dev' = "closing" /\ gatt' = FALSE
  /\ UNCHANGED connection

(* Mutant: the subscription's completion leaves the link busy. *)
WriteComplete_Busy ==
  /\ Completes /\ s.step \notin {"SERVICE", "CHARACTERISTICS"}
  /\ gatt' = FALSE
  /\ s' = IF s.step = "SUBSCRIBE" THEN To(s, "INFO") ELSE [s EXCEPT !.busy = FALSE]
  /\ UNCHANGED <<dev, connection>>

WriteComplete ==
  /\ Completes /\ s.step \notin {"SERVICE", "CHARACTERISTICS"}
  /\ gatt' = FALSE
  /\ s' = IF s.step = "SUBSCRIBE" THEN [To(s, "INFO") EXCEPT !.busy = FALSE]
          ELSE [s EXCEPT !.busy = FALSE]
  /\ UNCHANGED <<dev, connection>>

\* Nobody is left to hear of it.
CompletesUnheard ==
  /\ gatt /\ ~Linked
  /\ gatt' = FALSE
  /\ UNCHANGED <<dev, s, connection>>

\* A reply is taken once, and only for the request last made.
(* Mutant: the serial of a reply is not compared. *)
Answers_Any(a) == s.step \in {"INFO", "CAPS"} /\ s.attempts > 0 /\ s.replied = "no"

Answers(a) ==
  /\ s.step \in {"INFO", "CAPS"} /\ s.attempts > 0 /\ s.replied = "no"
  /\ a.serial = s.serial

Reply(a) ==
  /\ Linked /\ Answers(a)
  /\ s' = [s EXCEPT !.replied = a.kind]
  /\ UNCHANGED <<dev, gatt, connection>>

---------------------------------------------------------------------------
\* tick
GattTimeout == Linked /\ s.busy /\ Fail

Idle == Linked /\ ~s.busy
Asking == Idle /\ s.step \in {"INFO", "CAPS"}

Identified ==
  /\ Asking /\ s.step = "INFO" /\ s.replied # "no"
  /\ \/ /\ s.replied = "INFO" /\ fw = "known"
        /\ s' = [To(s, "CAPS") EXCEPT !.firmware = fw]
        /\ UNCHANGED <<dev, gatt, connection>>
     \/ /\ s.replied = "INFO" /\ fw = "other"
        /\ s' = [To(s, "CONFIRM") EXCEPT !.firmware = fw]
        /\ UNCHANGED <<dev, gatt, connection>>
     \/ /\ s.replied # "INFO" \/ fw = "foreign"
        /\ Fail

CapsKnown ==
  /\ Asking /\ s.step = "CAPS" /\ s.replied # "no"
  /\ s' = To(s, "MODE")
  /\ UNCHANGED <<dev, gatt, connection>>

(* Mutant: a request is repeated for ever. *)
Ask_Forever ==
  /\ Asking /\ s.replied = "no"
  /\ Begins([s EXCEPT !.attempts = MaxAttempts])
  /\ UNCHANGED answers

Ask ==
  /\ Asking /\ s.replied = "no" /\ s.attempts < MaxAttempts
  /\ Begins([s EXCEPT !.attempts = @ + 1, !.serial = @ + 1])
  /\ answers' = IF gatt'
                THEN answers \union {[serial |-> s.serial + 1, kind |-> s.step]}
                ELSE answers

\* The capability reply is optional.
(* Mutant: so is the identity. *)
Unanswered_Optional ==
  /\ Asking /\ s.replied = "no" /\ s.attempts = MaxAttempts
  /\ s' = To(s, "MODE")
  /\ UNCHANGED <<dev, gatt, connection>>

Unanswered ==
  /\ Asking /\ s.replied = "no" /\ s.attempts = MaxAttempts
  /\ IF s.step = "INFO" THEN Fail
     ELSE /\ s' = To(s, "MODE")
          /\ UNCHANGED <<dev, gatt, connection>>

ConfirmTimeout == Idle /\ s.step = "CONFIRM" /\ Fail

\* The serials of these requests are never compared and are not kept.
SendMode == Idle /\ s.step = "MODE" /\ Begins([s EXCEPT !.step = "DELAY"]) /\ UNCHANGED answers
SendTest == Idle /\ s.step = "DELAY" /\ Begins([s EXCEPT !.step = "TEST"]) /\ UNCHANGED answers
Keepalive == Idle /\ s.step = "RUNNING" /\ Begins(s) /\ UNCHANGED answers

Usable ==
  /\ Idle /\ s.step = "TEST"
  /\ s' = [s EXCEPT !.step = "RUNNING", !.ready = TRUE]
  /\ UNCHANGED <<dev, gatt, connection>>

\* The platform declines and the slot is deleted.
Declined == Idle /\ s.step = "TEST" /\ Deleted

---------------------------------------------------------------------------
Init ==
  /\ dev = "off" /\ fw = "known" /\ s = NoLink /\ gatt = FALSE
  /\ answers = {} /\ consented = FALSE /\ restarted = FALSE

Tick ==
  \/ GattTimeout \/ Identified \/ CapsKnown \/ Ask \/ Unanswered \/ ConfirmTimeout
  \/ SendMode \/ SendTest \/ Usable \/ Declined \/ Keepalive
Packet ==
  \/ ServiceResult \/ (\E chr \in {"write", "notify"} : CharacteristicResult(chr))
  \/ CompletesBadly \/ ServiceComplete \/ CharacteristicsComplete \/ NothingFound
  \/ WriteComplete \/ CompletesUnheard
  \/ (\E a \in answers : Reply(a))
Next == Secured \/ SecuredAgain \/ Deleted \/ Confirm \/ Tick \/ Packet

Spec == Init /\ [][Next]_vars

\* The timer of a link is armed again by every tick.
FairSpec == Spec /\ WF_vars(Tick)

---------------------------------------------------------------------------
\* Properties.
Links ==
  [step : UpToTheQuestion \union PastTheQuestion, busy : BOOLEAN, ready : BOOLEAN,
   replied : {"no", "INFO", "CAPS"}, found : SUBSET {"service", "write", "notify"},
   serial : 0..2 * MaxAttempts, attempts : 0..MaxAttempts,
   firmware : {"unread", "known", "other"}]

(* The link is busy exactly while its operation is outstanding, whatever    *)
(* order completions, timeouts and restarts come in: the wire buffer that   *)
(* GATT borrows is not built anew before the write that uses it is over,    *)
(* and no completion is awaited that cannot come (uni_bt_le_iine.c:         *)
(* send_request, check_start, packet_handler). No link outlives its device, *)
(* only a link that is ready runs.                                          *)
IineTypeOK ==
  /\ dev \in {"off", "up", "closing"} /\ fw \in {"known", "other", "foreign"}
  /\ s \in Links \union {NoLink}
  /\ {gatt, consented, restarted} \subseteq BOOLEAN
  /\ answers \subseteq [serial : 1..2 * MaxAttempts, kind : {"INFO", "CAPS"}]
  /\ Linked => dev # "off" /\ s.busy = gatt /\ (s.ready <=> s.step = "RUNNING")

(* A controller whose firmware was not verified goes past the question only *)
(* if the user consented on this very link, and one that is no L1241 never  *)
(* does ("user accepted unverified firmware for this connection",           *)
(* uni_bt_le_iine.c).                                                       *)
ConsentComesFirst ==
  Linked /\ s.step \in PastTheQuestion =>
    s.firmware = fw /\ (fw = "known" \/ (fw = "other" /\ consented))

(* A reply that is taken answers the request that waits: a late or repeated *)
(* answer to an earlier one is not mistaken for it (uni_bt_le_iine.c,       *)
(* packet_handler). A link begun again before the failed one's connection   *)
(* is closed counts its serials from the start and is excepted.             *)
RepliesAnswerTheRequest ==
  Linked /\ ~restarted /\ s.replied # "no" /\ s.step \in {"INFO", "CAPS"} => s.replied = s.step

(* Every handshake ends: the controller is usable or its link is given up,  *)
(* although nothing is ever answered and the user never decides             *)
(* (uni_bt_le_iine.c, tick).                                                *)
HandshakeEnds == Linked ~> ~Linked \/ s.ready

=============================================================================
