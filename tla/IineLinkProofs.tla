--------------------------- MODULE IineLinkProofs ---------------------------
(* The safety of the L1241 link, for any number of attempts.                *)
EXTENDS IineLink, TLAPS

\* The serials count the requests made, of which each step makes at most
\* MaxAttempts.
SerialsCount ==
  Linked =>
    /\ s.step \in {"SERVICE", "CHARACTERISTICS", "SUBSCRIBE"} => s.serial = 0 /\ s.attempts = 0
    /\ s.step = "INFO" => s.serial = s.attempts
    /\ s.step = "CONFIRM" => s.serial <= MaxAttempts
    /\ s.step = "CAPS" => s.serial <= MaxAttempts + s.attempts

\* Only the question waits for consent, and for a firmware that needs it.
QuestionIsForOthers ==
  Linked /\ s.step = "CONFIRM" => s.firmware = fw /\ fw = "other"

\* Without a restart no answer is due to a serial yet to come, and the one
\* last asked is of the step's own kind.
AskedInOrder ==
  Linked /\ ~restarted =>
    \A a \in answers :
      /\ a.serial <= s.serial
      /\ a.serial = s.serial /\ s.attempts > 0 /\ s.step \in {"INFO", "CAPS"}
           => a.kind = s.step

IineIInv ==
  /\ IineTypeOK /\ SerialsCount
  /\ ConsentComesFirst /\ QuestionIsForOthers
  /\ RepliesAnswerTheRequest /\ AskedInOrder

-----------------------------------------------------------------------------
(* A connection begins without a link. *)
LEMMA IineInit == Init => IineIInv
BY DEF Init, IineIInv, IineTypeOK, SerialsCount, ConsentComesFirst, QuestionIsForOthers,
       RepliesAnswerTheRequest, AskedInOrder, Linked, NoLink

(* Giving a link up asks nothing of the rest, *)
LEMMA LinkLost ==
  ASSUME IineIInv, s' = NoLink, dev' \in {"off", "up", "closing"},
         fw' \in {"known", "other", "foreign"},
         gatt' \in BOOLEAN, consented' \in BOOLEAN, restarted' \in BOOLEAN,
         answers' \subseteq [serial : 1..2 * MaxAttempts, kind : {"INFO", "CAPS"}]
  PROVE  IineIInv'
BY DEF IineIInv, IineTypeOK, SerialsCount, ConsentComesFirst, QuestionIsForOthers,
       RepliesAnswerTheRequest, AskedInOrder, Linked

(* and beginning one asks for an outstanding operation only. *)
LEMMA LinkBegun ==
  ASSUME IineIInv, s' \in {Began, [Began EXCEPT !.busy = TRUE]}, dev' \in {"up", "closing"},
         fw' \in {"known", "other", "foreign"},
         gatt' = TRUE, consented' \in BOOLEAN, restarted' \in BOOLEAN,
         (restarted' = TRUE /\ answers' = answers) \/ answers' = {}
  PROVE  IineIInv'
<1>1. Began \in Links
  BY IineLinkAssumption DEF Began, Links, UpToTheQuestion, PastTheQuestion
<1>2. TRUE \in BOOLEAN
  OBVIOUS
<1>3. [Began EXCEPT !.busy = TRUE] \in Links
  BY Zenon, <1>1, <1>2 DEF Links
<1>4. /\ s' \in Links
      /\ s'.step = "SERVICE" /\ s'.busy = TRUE /\ s'.ready = FALSE /\ s'.replied = "no"
      /\ s'.serial = 0 /\ s'.attempts = 0
  <2>1. CASE s' = Began
    BY <1>1, <2>1 DEF Began
  <2>2. CASE s' = [Began EXCEPT !.busy = TRUE]
    BY Zenon, <1>1, <1>3, <2>2 DEF Began, Links
  <2> QED BY <2>1, <2>2
<1>5. IineTypeOK'
  BY <1>4 DEF IineIInv, IineTypeOK, Linked
<1>6. SerialsCount'
  BY <1>4 DEF SerialsCount
<1>7. ConsentComesFirst' /\ QuestionIsForOthers' /\ RepliesAnswerTheRequest' /\ AskedInOrder'
  BY <1>4 DEF ConsentComesFirst, QuestionIsForOthers, RepliesAnswerTheRequest, AskedInOrder,
         PastTheQuestion
<1> QED BY <1>5, <1>6, <1>7 DEF IineIInv

(* Every step of the run loop, the user and the controller preserves it. *)
LEMMA IineStep == IineIInv /\ [Next]_vars => IineIInv'
<1> SUFFICES ASSUME IineIInv, [Next]_vars PROVE IineIInv'
  OBVIOUS
<1>a. MaxAttempts \in Nat \ {0} /\ 0 \in 0..MaxAttempts
  BY IineLinkAssumption
<1>t. IineTypeOK
  BY DEF IineIInv
<1>l. Linked => /\ s \in Links /\ dev # "off" /\ s.busy = gatt /\ (s.ready <=> s.step = "RUNNING")
                /\ s.step \in UpToTheQuestion \union PastTheQuestion
                /\ s.busy \in BOOLEAN /\ s.ready \in BOOLEAN
                /\ s.serial \in Nat /\ s.attempts \in 0..MaxAttempts
  BY <1>a, <1>t DEF IineTypeOK, Linked, Links
<1>1. CASE Secured
  BY <1>1, <1>t, LinkLost, LinkBegun DEF Secured, Reset, IineTypeOK
<1>2. CASE SecuredAgain
  BY <1>2, <1>t, LinkLost, LinkBegun DEF SecuredAgain, Accepted, Reset, IineTypeOK
<1>3. CASE Deleted
  BY <1>3, <1>t, LinkLost DEF Deleted, Reset, connection, IineTypeOK
<1>4. CASE Confirm
  <2>0. Linked /\ s' = [s EXCEPT !.step = "CAPS", !.attempts = 0, !.replied = "no"] /\ dev' = dev
    BY <1>4, <1>l DEF Confirm, To, connection
  <2>1. "CAPS" \in UpToTheQuestion \union PastTheQuestion /\ "no" \in {"no", "INFO",
          "CAPS"} /\ 0 \in 0..MaxAttempts
    BY <1>4, <1>a, <1>t, <1>l, <2>0 DEF Confirm, To, IineTypeOK, IineIInv, SerialsCount, Links,
       UpToTheQuestion, PastTheQuestion
  <2>2. s' \in Links
    BY Zenon, <1>l, <2>0, <2>1 DEF Links
  <2>3. /\ s'.step = "CAPS"
         /\ s'.busy = s.busy
         /\ s'.ready = s.ready
         /\ s'.replied = "no"
         /\ s'.serial = s.serial
         /\ s'.attempts = 0
         /\ s'.firmware = s.firmware
    BY Zenon, <1>l, <2>0 DEF Links
  <2>t. IineTypeOK'
    BY <1>4, <1>a, <1>t, <1>l, <2>0, <2>2, <2>3, <2>1 DEF Confirm, IineTypeOK, IineIInv,
       SerialsCount, Linked, connection
  <2>s. SerialsCount'
    BY <1>4, <1>a, <1>l, <2>0, <2>3 DEF Confirm, IineIInv, SerialsCount
  <2>c. ConsentComesFirst' /\ QuestionIsForOthers'
    BY <1>4, <1>l, <2>0, <2>3 DEF Confirm, IineIInv, ConsentComesFirst, QuestionIsForOthers,
       UpToTheQuestion, PastTheQuestion, connection
  <2>r. RepliesAnswerTheRequest' /\ AskedInOrder'
    BY <1>4, <1>a, <1>t, <1>l, <2>0, <2>3 DEF Confirm, IineIInv, IineTypeOK,
       RepliesAnswerTheRequest, AskedInOrder, connection
  <2> QED BY <2>t, <2>s, <2>c, <2>r DEF IineIInv
<1>5. CASE ServiceResult
  <2>0. CASE s' = NoLink
    BY <1>5, <1>t, <1>l, <2>0, LinkLost DEF ServiceResult, Fail, Reset, IineTypeOK, connection
  <2>1. CASE s' # NoLink
    <3>0. Linked /\ s' = [s EXCEPT !.found = {"service"}] /\ dev' = dev
      BY <1>5, <2>1, <1>l DEF ServiceResult, Fail, Reset, connection
    <3>1. {"service"} \in SUBSET {"service", "write", "notify"}
      BY <1>5, <2>1, <1>a, <1>t, <1>l, <3>0 DEF ServiceResult, Fail, Reset, IineTypeOK,
         IineIInv, SerialsCount, Links, UpToTheQuestion, PastTheQuestion
    <3>2. s' \in Links
      BY Zenon, <1>l, <3>0, <3>1 DEF Links
    <3>3. /\ s'.step = s.step
           /\ s'.busy = s.busy
           /\ s'.ready = s.ready
           /\ s'.replied = s.replied
           /\ s'.serial = s.serial
           /\ s'.attempts = s.attempts
           /\ s'.firmware = s.firmware
      BY Zenon, <1>l, <3>0 DEF Links
    <3>t. IineTypeOK'
      BY <1>5, <2>1, <1>a, <1>t, <1>l, <3>0, <3>2, <3>3, <3>1 DEF ServiceResult, Fail, Reset,
         IineTypeOK, IineIInv, SerialsCount, Linked, connection
    <3>s. SerialsCount'
      BY <1>5, <2>1, <1>a, <1>l, <3>0, <3>3 DEF ServiceResult, Fail, Reset, IineIInv, SerialsCount
    <3>c. ConsentComesFirst' /\ QuestionIsForOthers'
      BY <1>5, <2>1, <1>l, <3>0, <3>3 DEF ServiceResult, Fail, Reset, IineIInv,
         ConsentComesFirst, QuestionIsForOthers, UpToTheQuestion, PastTheQuestion, connection
    <3>r. RepliesAnswerTheRequest' /\ AskedInOrder'
      BY <1>5, <2>1, <1>a, <1>t, <1>l, <3>0, <3>3 DEF ServiceResult, Fail, Reset, IineIInv,
         IineTypeOK, RepliesAnswerTheRequest, AskedInOrder, connection
    <3> QED BY <3>t, <3>s, <3>c, <3>r DEF IineIInv
  <2> QED BY <2>0, <2>1
<1>6. CASE CompletesBadly
  BY <1>6, <1>t, LinkLost DEF CompletesBadly, Reset, connection, IineTypeOK
<1>7. CASE ServiceComplete
  <2>0. CASE s' = NoLink
    BY <1>7, <1>t, <1>l, <2>0, LinkLost DEF ServiceComplete, Completes, Continues, Reset,
       IineTypeOK, connection
  <2>1. CASE s' # NoLink
    <3>0. Linked /\ s' = [[s EXCEPT !.step = "CHARACTERISTICS"] EXCEPT !.busy = TRUE]
            /\ dev' = dev
      BY <1>7, <2>1, <1>l DEF ServiceComplete, Completes, Continues, Reset, connection
    <3>1. "CHARACTERISTICS" \in UpToTheQuestion \union PastTheQuestion /\ TRUE \in BOOLEAN
      BY <1>7, <2>1, <1>a, <1>t, <1>l, <3>0 DEF ServiceComplete, Completes, Continues, Reset,
         IineTypeOK, IineIInv, SerialsCount, Links, UpToTheQuestion, PastTheQuestion
    <3>2. s' \in Links
      BY Zenon, <1>l, <3>0, <3>1 DEF Links
    <3>3. /\ s'.step = "CHARACTERISTICS"
           /\ s'.busy = TRUE
           /\ s'.ready = s.ready
           /\ s'.replied = s.replied
           /\ s'.serial = s.serial
           /\ s'.attempts = s.attempts
           /\ s'.firmware = s.firmware
      BY Zenon, <1>l, <3>0 DEF Links
    <3>t. IineTypeOK'
      BY <1>7, <2>1, <1>a, <1>t, <1>l, <3>0, <3>2, <3>3, <3>1 DEF ServiceComplete, Completes,
         Continues, Reset, IineTypeOK, IineIInv, SerialsCount, Linked, connection
    <3>s. SerialsCount'
      BY <1>7, <2>1, <1>a, <1>l, <3>0, <3>3 DEF ServiceComplete, Completes, Continues, Reset,
         IineIInv, SerialsCount
    <3>c. ConsentComesFirst' /\ QuestionIsForOthers'
      BY <1>7, <2>1, <1>l, <3>0, <3>3 DEF ServiceComplete, Completes, Continues, Reset,
         IineIInv, ConsentComesFirst, QuestionIsForOthers, UpToTheQuestion, PastTheQuestion,
         connection
    <3>r. RepliesAnswerTheRequest' /\ AskedInOrder'
      BY <1>7, <2>1, <1>a, <1>t, <1>l, <3>0, <3>3 DEF ServiceComplete, Completes, Continues,
         Reset, IineIInv, IineTypeOK, RepliesAnswerTheRequest, AskedInOrder, connection
    <3> QED BY <3>t, <3>s, <3>c, <3>r DEF IineIInv
  <2> QED BY <2>0, <2>1
<1>8. CASE CharacteristicsComplete
  <2>0. CASE s' = NoLink
    BY <1>8, <1>t, <1>l, <2>0, LinkLost DEF CharacteristicsComplete, Completes, Continues,
       Reset, IineTypeOK, connection
  <2>1. CASE s' # NoLink
    <3>0. Linked /\ s' = [[s EXCEPT !.step = "SUBSCRIBE"] EXCEPT !.busy = TRUE] /\ dev' = dev
      BY <1>8, <2>1, <1>l DEF CharacteristicsComplete, Completes, Continues, Reset, connection
    <3>1. "SUBSCRIBE" \in UpToTheQuestion \union PastTheQuestion /\ TRUE \in BOOLEAN
      BY <1>8, <2>1, <1>a, <1>t, <1>l, <3>0 DEF CharacteristicsComplete, Completes, Continues,
         Reset, IineTypeOK, IineIInv, SerialsCount, Links, UpToTheQuestion, PastTheQuestion
    <3>2. s' \in Links
      BY Zenon, <1>l, <3>0, <3>1 DEF Links
    <3>3. /\ s'.step = "SUBSCRIBE"
           /\ s'.busy = TRUE
           /\ s'.ready = s.ready
           /\ s'.replied = s.replied
           /\ s'.serial = s.serial
           /\ s'.attempts = s.attempts
           /\ s'.firmware = s.firmware
      BY Zenon, <1>l, <3>0 DEF Links
    <3>t. IineTypeOK'
      BY <1>8, <2>1, <1>a, <1>t, <1>l, <3>0, <3>2, <3>3, <3>1 DEF CharacteristicsComplete,
         Completes, Continues, Reset, IineTypeOK, IineIInv, SerialsCount, Linked, connection
    <3>s. SerialsCount'
      BY <1>8, <2>1, <1>a, <1>l, <3>0, <3>3 DEF CharacteristicsComplete, Completes, Continues,
         Reset, IineIInv, SerialsCount
    <3>c. ConsentComesFirst' /\ QuestionIsForOthers'
      BY <1>8, <2>1, <1>l, <3>0, <3>3 DEF CharacteristicsComplete, Completes, Continues, Reset,
         IineIInv, ConsentComesFirst, QuestionIsForOthers, UpToTheQuestion, PastTheQuestion,
         connection
    <3>r. RepliesAnswerTheRequest' /\ AskedInOrder'
      BY <1>8, <2>1, <1>a, <1>t, <1>l, <3>0, <3>3 DEF CharacteristicsComplete, Completes,
         Continues, Reset, IineIInv, IineTypeOK, RepliesAnswerTheRequest, AskedInOrder, connection
    <3> QED BY <3>t, <3>s, <3>c, <3>r DEF IineIInv
  <2> QED BY <2>0, <2>1
<1>9. CASE NothingFound
  BY <1>9, <1>t, LinkLost DEF NothingFound, Reset, connection, IineTypeOK
<1>10. CASE WriteComplete
  <2>1. CASE s.step = "SUBSCRIBE"
    <3>0. Linked /\ s' = [[s EXCEPT !.step = "INFO", !.attempts = 0,
            !.replied = "no"] EXCEPT !.busy = FALSE] /\ dev' = dev
      BY <1>10, <2>1, <1>l DEF WriteComplete, Completes, To, connection
    <3>1. "INFO" \in UpToTheQuestion \union PastTheQuestion /\ "no" \in {"no", "INFO",
            "CAPS"} /\ 0 \in 0..MaxAttempts /\ FALSE \in BOOLEAN
      BY <1>10, <2>1, <1>a, <1>t, <1>l, <3>0 DEF WriteComplete, Completes, To, IineTypeOK,
         IineIInv, SerialsCount, Links, UpToTheQuestion, PastTheQuestion
    <3>2. s' \in Links
      BY Zenon, <1>l, <3>0, <3>1 DEF Links
    <3>3. /\ s'.step = "INFO"
           /\ s'.busy = FALSE
           /\ s'.ready = s.ready
           /\ s'.replied = "no"
           /\ s'.serial = s.serial
           /\ s'.attempts = 0
           /\ s'.firmware = s.firmware
      BY Zenon, <1>l, <3>0 DEF Links
    <3>t. IineTypeOK'
      BY <1>10, <2>1, <1>a, <1>t, <1>l, <3>0, <3>2, <3>3, <3>1 DEF WriteComplete, Completes,
         IineTypeOK, IineIInv, SerialsCount, Linked, connection
    <3>s. SerialsCount'
      BY <1>10, <2>1, <1>a, <1>l, <3>0, <3>3 DEF WriteComplete, Completes, IineIInv, SerialsCount
    <3>c. ConsentComesFirst' /\ QuestionIsForOthers'
      BY <1>10, <2>1, <1>l, <3>0, <3>3 DEF WriteComplete, Completes, IineIInv,
         ConsentComesFirst, QuestionIsForOthers, UpToTheQuestion, PastTheQuestion, connection
    <3>r. RepliesAnswerTheRequest' /\ AskedInOrder'
      BY <1>10, <2>1, <1>a, <1>t, <1>l, <3>0, <3>3 DEF WriteComplete, Completes, IineIInv,
         IineTypeOK, RepliesAnswerTheRequest, AskedInOrder, connection
    <3> QED BY <3>t, <3>s, <3>c, <3>r DEF IineIInv
  <2>2. CASE s.step # "SUBSCRIBE"
    <3>0. Linked /\ s' = [s EXCEPT !.busy = FALSE] /\ dev' = dev
      BY <1>10, <2>2, <1>l DEF WriteComplete, Completes, To, connection
    <3>1. FALSE \in BOOLEAN
      BY <1>10, <2>2, <1>a, <1>t, <1>l, <3>0 DEF WriteComplete, Completes, To, IineTypeOK,
         IineIInv, SerialsCount, Links, UpToTheQuestion, PastTheQuestion
    <3>2. s' \in Links
      BY Zenon, <1>l, <3>0, <3>1 DEF Links
    <3>3. /\ s'.step = s.step
           /\ s'.busy = FALSE
           /\ s'.ready = s.ready
           /\ s'.replied = s.replied
           /\ s'.serial = s.serial
           /\ s'.attempts = s.attempts
           /\ s'.firmware = s.firmware
      BY Zenon, <1>l, <3>0 DEF Links
    <3>t. IineTypeOK'
      BY <1>10, <2>2, <1>a, <1>t, <1>l, <3>0, <3>2, <3>3, <3>1 DEF WriteComplete, Completes,
         IineTypeOK, IineIInv, SerialsCount, Linked, connection
    <3>s. SerialsCount'
      BY <1>10, <2>2, <1>a, <1>l, <3>0, <3>3 DEF WriteComplete, Completes, IineIInv, SerialsCount
    <3>c. ConsentComesFirst' /\ QuestionIsForOthers'
      BY <1>10, <2>2, <1>l, <3>0, <3>3 DEF WriteComplete, Completes, IineIInv,
         ConsentComesFirst, QuestionIsForOthers, UpToTheQuestion, PastTheQuestion, connection
    <3>r. RepliesAnswerTheRequest' /\ AskedInOrder'
      BY <1>10, <2>2, <1>a, <1>t, <1>l, <3>0, <3>3 DEF WriteComplete, Completes, IineIInv,
         IineTypeOK, RepliesAnswerTheRequest, AskedInOrder, connection
    <3> QED BY <3>t, <3>s, <3>c, <3>r DEF IineIInv
  <2> QED BY <1>10, <2>1, <2>2
<1>11. CASE CompletesUnheard
  BY <1>11, <1>t, LinkLost DEF CompletesUnheard, connection, Linked, IineTypeOK
<1>12. CASE GattTimeout
  BY <1>12, <1>t, LinkLost DEF GattTimeout, Fail, Reset, connection, IineTypeOK
<1>13. CASE Identified
  <2>0. CASE s' = NoLink
    BY <1>13, <1>t, <1>l, <2>0, LinkLost DEF Identified, Asking, Idle, To, Fail, Reset,
       IineTypeOK, connection
  <2>1. CASE s.replied = "INFO" /\ fw = "known" /\ s' # NoLink
    <3>0. Linked /\ s' = [[s EXCEPT !.step = "CAPS", !.attempts = 0,
            !.replied = "no"] EXCEPT !.firmware = fw] /\ dev' = dev
      BY <1>13, <2>1, <1>l DEF Identified, Asking, Idle, To, Fail, Reset, connection
    <3>1. "CAPS" \in UpToTheQuestion \union PastTheQuestion /\ "no" \in {"no", "INFO",
            "CAPS"} /\ 0 \in 0..MaxAttempts /\ fw \in {"unread", "known", "other"}
      BY <1>13, <2>1, <1>a, <1>t, <1>l, <3>0 DEF Identified, Asking, Idle, To, Fail, Reset,
         IineTypeOK, IineIInv, SerialsCount, Links, UpToTheQuestion, PastTheQuestion
    <3>2. s' \in Links
      BY Zenon, <1>l, <3>0, <3>1 DEF Links
    <3>3. /\ s'.step = "CAPS"
           /\ s'.busy = s.busy
           /\ s'.ready = s.ready
           /\ s'.replied = "no"
           /\ s'.serial = s.serial
           /\ s'.attempts = 0
           /\ s'.firmware = fw
      BY Zenon, <1>l, <3>0 DEF Links
    <3>t. IineTypeOK'
      BY <1>13, <2>1, <1>a, <1>t, <1>l, <3>0, <3>2, <3>3, <3>1 DEF Identified, Asking, Idle,
         Fail, Reset, IineTypeOK, IineIInv, SerialsCount, Linked, connection
    <3>s. SerialsCount'
      BY <1>13, <2>1, <1>a, <1>l, <3>0, <3>3 DEF Identified, Asking, Idle, Fail, Reset,
         IineIInv, SerialsCount
    <3>c. ConsentComesFirst' /\ QuestionIsForOthers'
      BY <1>13, <2>1, <1>l, <3>0, <3>3 DEF Identified, Asking, Idle, Fail, Reset, IineIInv,
         ConsentComesFirst, QuestionIsForOthers, UpToTheQuestion, PastTheQuestion, connection
    <3>r. RepliesAnswerTheRequest' /\ AskedInOrder'
      BY <1>13, <2>1, <1>a, <1>t, <1>l, <3>0, <3>3 DEF Identified, Asking, Idle, Fail, Reset,
         IineIInv, IineTypeOK, RepliesAnswerTheRequest, AskedInOrder, connection
    <3> QED BY <3>t, <3>s, <3>c, <3>r DEF IineIInv
  <2>2. CASE s.replied = "INFO" /\ fw = "other" /\ s' # NoLink
    <3>0. Linked /\ s' = [[s EXCEPT !.step = "CONFIRM", !.attempts = 0,
            !.replied = "no"] EXCEPT !.firmware = fw] /\ dev' = dev
      BY <1>13, <2>2, <1>l DEF Identified, Asking, Idle, To, Fail, Reset, connection
    <3>1. "CONFIRM" \in UpToTheQuestion \union PastTheQuestion /\ "no" \in {"no", "INFO",
            "CAPS"} /\ 0 \in 0..MaxAttempts /\ fw \in {"unread", "known", "other"}
      BY <1>13, <2>2, <1>a, <1>t, <1>l, <3>0 DEF Identified, Asking, Idle, To, Fail, Reset,
         IineTypeOK, IineIInv, SerialsCount, Links, UpToTheQuestion, PastTheQuestion
    <3>2. s' \in Links
      BY Zenon, <1>l, <3>0, <3>1 DEF Links
    <3>3. /\ s'.step = "CONFIRM"
           /\ s'.busy = s.busy
           /\ s'.ready = s.ready
           /\ s'.replied = "no"
           /\ s'.serial = s.serial
           /\ s'.attempts = 0
           /\ s'.firmware = fw
      BY Zenon, <1>l, <3>0 DEF Links
    <3>t. IineTypeOK'
      BY <1>13, <2>2, <1>a, <1>t, <1>l, <3>0, <3>2, <3>3, <3>1 DEF Identified, Asking, Idle,
         Fail, Reset, IineTypeOK, IineIInv, SerialsCount, Linked, connection
    <3>s. SerialsCount'
      BY <1>13, <2>2, <1>a, <1>l, <3>0, <3>3 DEF Identified, Asking, Idle, Fail, Reset,
         IineIInv, SerialsCount
    <3>c. ConsentComesFirst' /\ QuestionIsForOthers'
      BY <1>13, <2>2, <1>l, <3>0, <3>3 DEF Identified, Asking, Idle, Fail, Reset, IineIInv,
         ConsentComesFirst, QuestionIsForOthers, UpToTheQuestion, PastTheQuestion, connection
    <3>r. RepliesAnswerTheRequest' /\ AskedInOrder'
      BY <1>13, <2>2, <1>a, <1>t, <1>l, <3>0, <3>3 DEF Identified, Asking, Idle, Fail, Reset,
         IineIInv, IineTypeOK, RepliesAnswerTheRequest, AskedInOrder, connection
    <3> QED BY <3>t, <3>s, <3>c, <3>r DEF IineIInv
  <2> QED BY <1>13, <2>0, <2>1, <2>2 DEF Identified, Asking, Idle, To, Fail, Reset
<1>14. CASE CapsKnown
  <2>0. Linked /\ s' = [s EXCEPT !.step = "MODE", !.attempts = 0, !.replied = "no"] /\ dev' = dev
    BY <1>14, <1>l DEF CapsKnown, Asking, Idle, To, connection
  <2>1. "MODE" \in UpToTheQuestion \union PastTheQuestion /\ "no" \in {"no", "INFO",
          "CAPS"} /\ 0 \in 0..MaxAttempts
    BY <1>14, <1>a, <1>t, <1>l, <2>0 DEF CapsKnown, Asking, Idle, To, IineTypeOK, IineIInv,
       SerialsCount, Links, UpToTheQuestion, PastTheQuestion
  <2>2. s' \in Links
    BY Zenon, <1>l, <2>0, <2>1 DEF Links
  <2>3. /\ s'.step = "MODE"
         /\ s'.busy = s.busy
         /\ s'.ready = s.ready
         /\ s'.replied = "no"
         /\ s'.serial = s.serial
         /\ s'.attempts = 0
         /\ s'.firmware = s.firmware
    BY Zenon, <1>l, <2>0 DEF Links
  <2>t. IineTypeOK'
    BY <1>14, <1>a, <1>t, <1>l, <2>0, <2>2, <2>3, <2>1 DEF CapsKnown, Asking, Idle, IineTypeOK,
       IineIInv, SerialsCount, Linked, connection
  <2>s. SerialsCount'
    BY <1>14, <1>a, <1>l, <2>0, <2>3 DEF CapsKnown, Asking, Idle, IineIInv, SerialsCount
  <2>c. ConsentComesFirst' /\ QuestionIsForOthers'
    BY <1>14, <1>l, <2>0, <2>3 DEF CapsKnown, Asking, Idle, IineIInv, ConsentComesFirst,
       QuestionIsForOthers, UpToTheQuestion, PastTheQuestion, connection
  <2>r. RepliesAnswerTheRequest' /\ AskedInOrder'
    BY <1>14, <1>a, <1>t, <1>l, <2>0, <2>3 DEF CapsKnown, Asking, Idle, IineIInv, IineTypeOK,
       RepliesAnswerTheRequest, AskedInOrder, connection
  <2> QED BY <2>t, <2>s, <2>c, <2>r DEF IineIInv
<1>15. CASE Ask
  <2>a. /\ s.serial + 1 \in 1..2 * MaxAttempts
        /\ [serial |-> s.serial + 1, kind |-> s.step] \in [serial : 1..2 * MaxAttempts,
          kind : {"INFO", "CAPS"}]
        /\ answers' \subseteq [serial : 1..2 * MaxAttempts, kind : {"INFO", "CAPS"}]
    BY <1>15, <1>a, <1>t, <1>l DEF Ask, Asking, Idle, IineTypeOK, IineIInv, SerialsCount
  <2>0. CASE s' = NoLink
    BY <1>15, <1>t, <2>0, <2>a, LinkLost DEF Ask, Asking, Idle, Begins, Accepted, Reset,
       IineTypeOK
  <2>1. CASE s' # NoLink
    <3>0. Linked /\ s' = [[s EXCEPT !.attempts = s.attempts + 1,
            !.serial = s.serial + 1] EXCEPT !.busy = TRUE] /\ dev' = dev
      BY <1>15, <2>1, <1>l DEF Ask, Asking, Idle, Begins, Accepted, Reset, connection
    <3>1. s.attempts + 1 \in 0..MaxAttempts /\ [serial |-> s.serial + 1,
            kind |-> s.step] \in [serial : 1..2 * MaxAttempts, kind : {"INFO",
            "CAPS"}] /\ s.serial + 1 \in 0..2 * MaxAttempts /\ TRUE \in BOOLEAN
      BY <1>15, <2>1, <1>a, <1>t, <1>l, <3>0 DEF Ask, Asking, Idle, Begins, Accepted, Reset,
         IineTypeOK, IineIInv, SerialsCount, Links, UpToTheQuestion, PastTheQuestion
    <3>2. s' \in Links
      BY Zenon, <1>l, <3>0, <3>1 DEF Links
    <3>3. /\ s'.step = s.step
           /\ s'.busy = TRUE
           /\ s'.ready = s.ready
           /\ s'.replied = s.replied
           /\ s'.serial = s.serial + 1
           /\ s'.attempts = s.attempts + 1
           /\ s'.firmware = s.firmware
      BY Zenon, <1>l, <3>0 DEF Links
    <3>t. IineTypeOK'
      BY <1>15, <2>1, <1>a, <1>t, <1>l, <3>0, <3>2, <3>3, <3>1 DEF Ask, Asking, Idle, Begins,
         Accepted, Reset, IineTypeOK, IineIInv, SerialsCount, Linked, connection
    <3>s. SerialsCount'
      BY <1>15, <2>1, <1>a, <1>l, <3>0, <3>3 DEF Ask, Asking, Idle, Begins, Accepted, Reset,
         IineIInv, SerialsCount
    <3>c. ConsentComesFirst' /\ QuestionIsForOthers'
      BY <1>15, <2>1, <1>l, <3>0, <3>3 DEF Ask, Asking, Idle, Begins, Accepted, Reset,
         IineIInv, ConsentComesFirst, QuestionIsForOthers, UpToTheQuestion, PastTheQuestion,
         connection
    <3>r. RepliesAnswerTheRequest' /\ AskedInOrder'
      BY <1>15, <2>1, <1>a, <1>t, <1>l, <3>0, <3>3 DEF Ask, Asking, Idle, Begins, Accepted,
         Reset, IineIInv, IineTypeOK, RepliesAnswerTheRequest, AskedInOrder, connection
    <3> QED BY <3>t, <3>s, <3>c, <3>r DEF IineIInv
  <2> QED BY <2>0, <2>1
<1>16. CASE Unanswered
  <2>0. CASE s' = NoLink
    BY <1>16, <1>t, <1>l, <2>0, LinkLost DEF Unanswered, Asking, Idle, To, Fail, Reset,
       IineTypeOK, connection
  <2>1. CASE s' # NoLink
    <3>0. Linked /\ s' = [s EXCEPT !.step = "MODE", !.attempts = 0,
            !.replied = "no"] /\ dev' = dev
      BY <1>16, <2>1, <1>l DEF Unanswered, Asking, Idle, To, Fail, Reset, connection
    <3>1. "MODE" \in UpToTheQuestion \union PastTheQuestion /\ "no" \in {"no", "INFO",
            "CAPS"} /\ 0 \in 0..MaxAttempts
      BY <1>16, <2>1, <1>a, <1>t, <1>l, <3>0 DEF Unanswered, Asking, Idle, To, Fail, Reset,
         IineTypeOK, IineIInv, SerialsCount, Links, UpToTheQuestion, PastTheQuestion
    <3>2. s' \in Links
      BY Zenon, <1>l, <3>0, <3>1 DEF Links
    <3>3. /\ s'.step = "MODE"
           /\ s'.busy = s.busy
           /\ s'.ready = s.ready
           /\ s'.replied = "no"
           /\ s'.serial = s.serial
           /\ s'.attempts = 0
           /\ s'.firmware = s.firmware
      BY Zenon, <1>l, <3>0 DEF Links
    <3>t. IineTypeOK'
      BY <1>16, <2>1, <1>a, <1>t, <1>l, <3>0, <3>2, <3>3, <3>1 DEF Unanswered, Asking, Idle,
         Fail, Reset, IineTypeOK, IineIInv, SerialsCount, Linked, connection
    <3>s. SerialsCount'
      BY <1>16, <2>1, <1>a, <1>l, <3>0, <3>3 DEF Unanswered, Asking, Idle, Fail, Reset,
         IineIInv, SerialsCount
    <3>c. ConsentComesFirst' /\ QuestionIsForOthers'
      BY <1>16, <2>1, <1>l, <3>0, <3>3 DEF Unanswered, Asking, Idle, Fail, Reset, IineIInv,
         ConsentComesFirst, QuestionIsForOthers, UpToTheQuestion, PastTheQuestion, connection
    <3>r. RepliesAnswerTheRequest' /\ AskedInOrder'
      BY <1>16, <2>1, <1>a, <1>t, <1>l, <3>0, <3>3 DEF Unanswered, Asking, Idle, Fail, Reset,
         IineIInv, IineTypeOK, RepliesAnswerTheRequest, AskedInOrder, connection
    <3> QED BY <3>t, <3>s, <3>c, <3>r DEF IineIInv
  <2> QED BY <2>0, <2>1
<1>17. CASE ConfirmTimeout
  BY <1>17, <1>t, LinkLost DEF ConfirmTimeout, Fail, Reset, connection, IineTypeOK
<1>18. CASE SendMode
  <2>0. CASE s' = NoLink
    BY <1>18, <1>t, <1>l, <2>0, LinkLost DEF SendMode, Idle, Begins, Accepted, Reset,
       IineTypeOK, connection
  <2>1. CASE s' # NoLink
    <3>0. Linked /\ s' = [[s EXCEPT !.step = "DELAY"] EXCEPT !.busy = TRUE] /\ dev' = dev
      BY <1>18, <2>1, <1>l DEF SendMode, Idle, Begins, Accepted, Reset, connection
    <3>1. "DELAY" \in UpToTheQuestion \union PastTheQuestion /\ TRUE \in BOOLEAN
      BY <1>18, <2>1, <1>a, <1>t, <1>l, <3>0 DEF SendMode, Idle, Begins, Accepted, Reset,
         IineTypeOK, IineIInv, SerialsCount, Links, UpToTheQuestion, PastTheQuestion
    <3>2. s' \in Links
      BY Zenon, <1>l, <3>0, <3>1 DEF Links
    <3>3. /\ s'.step = "DELAY"
           /\ s'.busy = TRUE
           /\ s'.ready = s.ready
           /\ s'.replied = s.replied
           /\ s'.serial = s.serial
           /\ s'.attempts = s.attempts
           /\ s'.firmware = s.firmware
      BY Zenon, <1>l, <3>0 DEF Links
    <3>t. IineTypeOK'
      BY <1>18, <2>1, <1>a, <1>t, <1>l, <3>0, <3>2, <3>3, <3>1 DEF SendMode, Idle, Begins,
         Accepted, Reset, IineTypeOK, IineIInv, SerialsCount, Linked, connection
    <3>s. SerialsCount'
      BY <1>18, <2>1, <1>a, <1>l, <3>0, <3>3 DEF SendMode, Idle, Begins, Accepted, Reset,
         IineIInv, SerialsCount
    <3>c. ConsentComesFirst' /\ QuestionIsForOthers'
      BY <1>18, <2>1, <1>l, <3>0, <3>3 DEF SendMode, Idle, Begins, Accepted, Reset, IineIInv,
         ConsentComesFirst, QuestionIsForOthers, UpToTheQuestion, PastTheQuestion, connection
    <3>r. RepliesAnswerTheRequest' /\ AskedInOrder'
      BY <1>18, <2>1, <1>a, <1>t, <1>l, <3>0, <3>3 DEF SendMode, Idle, Begins, Accepted, Reset,
         IineIInv, IineTypeOK, RepliesAnswerTheRequest, AskedInOrder, connection
    <3> QED BY <3>t, <3>s, <3>c, <3>r DEF IineIInv
  <2> QED BY <2>0, <2>1
<1>19. CASE SendTest
  <2>0. CASE s' = NoLink
    BY <1>19, <1>t, <1>l, <2>0, LinkLost DEF SendTest, Idle, Begins, Accepted, Reset,
       IineTypeOK, connection
  <2>1. CASE s' # NoLink
    <3>0. Linked /\ s' = [[s EXCEPT !.step = "TEST"] EXCEPT !.busy = TRUE] /\ dev' = dev
      BY <1>19, <2>1, <1>l DEF SendTest, Idle, Begins, Accepted, Reset, connection
    <3>1. "TEST" \in UpToTheQuestion \union PastTheQuestion /\ TRUE \in BOOLEAN
      BY <1>19, <2>1, <1>a, <1>t, <1>l, <3>0 DEF SendTest, Idle, Begins, Accepted, Reset,
         IineTypeOK, IineIInv, SerialsCount, Links, UpToTheQuestion, PastTheQuestion
    <3>2. s' \in Links
      BY Zenon, <1>l, <3>0, <3>1 DEF Links
    <3>3. /\ s'.step = "TEST"
           /\ s'.busy = TRUE
           /\ s'.ready = s.ready
           /\ s'.replied = s.replied
           /\ s'.serial = s.serial
           /\ s'.attempts = s.attempts
           /\ s'.firmware = s.firmware
      BY Zenon, <1>l, <3>0 DEF Links
    <3>t. IineTypeOK'
      BY <1>19, <2>1, <1>a, <1>t, <1>l, <3>0, <3>2, <3>3, <3>1 DEF SendTest, Idle, Begins,
         Accepted, Reset, IineTypeOK, IineIInv, SerialsCount, Linked, connection
    <3>s. SerialsCount'
      BY <1>19, <2>1, <1>a, <1>l, <3>0, <3>3 DEF SendTest, Idle, Begins, Accepted, Reset,
         IineIInv, SerialsCount
    <3>c. ConsentComesFirst' /\ QuestionIsForOthers'
      BY <1>19, <2>1, <1>l, <3>0, <3>3 DEF SendTest, Idle, Begins, Accepted, Reset, IineIInv,
         ConsentComesFirst, QuestionIsForOthers, UpToTheQuestion, PastTheQuestion, connection
    <3>r. RepliesAnswerTheRequest' /\ AskedInOrder'
      BY <1>19, <2>1, <1>a, <1>t, <1>l, <3>0, <3>3 DEF SendTest, Idle, Begins, Accepted, Reset,
         IineIInv, IineTypeOK, RepliesAnswerTheRequest, AskedInOrder, connection
    <3> QED BY <3>t, <3>s, <3>c, <3>r DEF IineIInv
  <2> QED BY <2>0, <2>1
<1>20. CASE Keepalive
  <2>0. CASE s' = NoLink
    BY <1>20, <1>t, <1>l, <2>0, LinkLost DEF Keepalive, Idle, Begins, Accepted, Reset,
       IineTypeOK, connection
  <2>1. CASE s' # NoLink
    <3>0. Linked /\ s' = [s EXCEPT !.busy = TRUE] /\ dev' = dev
      BY <1>20, <2>1, <1>l DEF Keepalive, Idle, Begins, Accepted, Reset, connection
    <3>1. TRUE \in BOOLEAN
      BY <1>20, <2>1, <1>a, <1>t, <1>l, <3>0 DEF Keepalive, Idle, Begins, Accepted, Reset,
         IineTypeOK, IineIInv, SerialsCount, Links, UpToTheQuestion, PastTheQuestion
    <3>2. s' \in Links
      BY Zenon, <1>l, <3>0, <3>1 DEF Links
    <3>3. /\ s'.step = s.step
           /\ s'.busy = TRUE
           /\ s'.ready = s.ready
           /\ s'.replied = s.replied
           /\ s'.serial = s.serial
           /\ s'.attempts = s.attempts
           /\ s'.firmware = s.firmware
      BY Zenon, <1>l, <3>0 DEF Links
    <3>t. IineTypeOK'
      BY <1>20, <2>1, <1>a, <1>t, <1>l, <3>0, <3>2, <3>3, <3>1 DEF Keepalive, Idle, Begins,
         Accepted, Reset, IineTypeOK, IineIInv, SerialsCount, Linked, connection
    <3>s. SerialsCount'
      BY <1>20, <2>1, <1>a, <1>l, <3>0, <3>3 DEF Keepalive, Idle, Begins, Accepted, Reset,
         IineIInv, SerialsCount
    <3>c. ConsentComesFirst' /\ QuestionIsForOthers'
      BY <1>20, <2>1, <1>l, <3>0, <3>3 DEF Keepalive, Idle, Begins, Accepted, Reset, IineIInv,
         ConsentComesFirst, QuestionIsForOthers, UpToTheQuestion, PastTheQuestion, connection
    <3>r. RepliesAnswerTheRequest' /\ AskedInOrder'
      BY <1>20, <2>1, <1>a, <1>t, <1>l, <3>0, <3>3 DEF Keepalive, Idle, Begins, Accepted,
         Reset, IineIInv, IineTypeOK, RepliesAnswerTheRequest, AskedInOrder, connection
    <3> QED BY <3>t, <3>s, <3>c, <3>r DEF IineIInv
  <2> QED BY <2>0, <2>1
<1>21. CASE Usable
  <2>0. Linked /\ s' = [s EXCEPT !.step = "RUNNING", !.ready = TRUE] /\ dev' = dev
    BY <1>21, <1>l DEF Usable, Idle, connection
  <2>1. "RUNNING" \in UpToTheQuestion \union PastTheQuestion /\ TRUE \in BOOLEAN
    BY <1>21, <1>a, <1>t, <1>l, <2>0 DEF Usable, Idle, IineTypeOK, IineIInv, SerialsCount,
       Links, UpToTheQuestion, PastTheQuestion
  <2>2. s' \in Links
    BY Zenon, <1>l, <2>0, <2>1 DEF Links
  <2>3. /\ s'.step = "RUNNING"
         /\ s'.busy = s.busy
         /\ s'.ready = TRUE
         /\ s'.replied = s.replied
         /\ s'.serial = s.serial
         /\ s'.attempts = s.attempts
         /\ s'.firmware = s.firmware
    BY Zenon, <1>l, <2>0 DEF Links
  <2>t. IineTypeOK'
    BY <1>21, <1>a, <1>t, <1>l, <2>0, <2>2, <2>3, <2>1 DEF Usable, Idle, IineTypeOK, IineIInv,
       SerialsCount, Linked, connection
  <2>s. SerialsCount'
    BY <1>21, <1>a, <1>l, <2>0, <2>3 DEF Usable, Idle, IineIInv, SerialsCount
  <2>c. ConsentComesFirst' /\ QuestionIsForOthers'
    BY <1>21, <1>l, <2>0, <2>3 DEF Usable, Idle, IineIInv, ConsentComesFirst,
       QuestionIsForOthers, UpToTheQuestion, PastTheQuestion, connection
  <2>r. RepliesAnswerTheRequest' /\ AskedInOrder'
    BY <1>21, <1>a, <1>t, <1>l, <2>0, <2>3 DEF Usable, Idle, IineIInv, IineTypeOK,
       RepliesAnswerTheRequest, AskedInOrder, connection
  <2> QED BY <2>t, <2>s, <2>c, <2>r DEF IineIInv
<1>22. CASE Declined
  BY <1>22, <1>t, LinkLost DEF Declined, Deleted, Reset, connection, IineTypeOK
<1>23. ASSUME NEW chr \in {"write", "notify"}, CharacteristicResult(chr) PROVE IineIInv'
  <2>0. CASE s' = NoLink
    BY <1>23, <1>t, <1>l, <2>0, LinkLost DEF CharacteristicResult, Fail, Reset, IineTypeOK,
       connection
  <2>1. CASE s' # NoLink
    <3>0. Linked /\ s' = [s EXCEPT !.found = s.found \union {chr}] /\ dev' = dev
      BY <1>23, <2>1, <1>l DEF CharacteristicResult, Fail, Reset, connection
    <3>1. s.found \union {chr} \in SUBSET {"service", "write", "notify"}
      BY <1>23, <2>1, <1>a, <1>t, <1>l, <3>0 DEF CharacteristicResult, Fail, Reset, IineTypeOK,
         IineIInv, SerialsCount, Links, UpToTheQuestion, PastTheQuestion
    <3>2. s' \in Links
      BY Zenon, <1>l, <3>0, <3>1 DEF Links
    <3>3. /\ s'.step = s.step
           /\ s'.busy = s.busy
           /\ s'.ready = s.ready
           /\ s'.replied = s.replied
           /\ s'.serial = s.serial
           /\ s'.attempts = s.attempts
           /\ s'.firmware = s.firmware
      BY Zenon, <1>l, <3>0 DEF Links
    <3>t. IineTypeOK'
      BY <1>23, <2>1, <1>a, <1>t, <1>l, <3>0, <3>2, <3>3, <3>1 DEF CharacteristicResult, Fail,
         Reset, IineTypeOK, IineIInv, SerialsCount, Linked, connection
    <3>s. SerialsCount'
      BY <1>23, <2>1, <1>a, <1>l, <3>0, <3>3 DEF CharacteristicResult, Fail, Reset, IineIInv,
         SerialsCount
    <3>c. ConsentComesFirst' /\ QuestionIsForOthers'
      BY <1>23, <2>1, <1>l, <3>0, <3>3 DEF CharacteristicResult, Fail, Reset, IineIInv,
         ConsentComesFirst, QuestionIsForOthers, UpToTheQuestion, PastTheQuestion, connection
    <3>r. RepliesAnswerTheRequest' /\ AskedInOrder'
      BY <1>23, <2>1, <1>a, <1>t, <1>l, <3>0, <3>3 DEF CharacteristicResult, Fail, Reset,
         IineIInv, IineTypeOK, RepliesAnswerTheRequest, AskedInOrder, connection
    <3> QED BY <3>t, <3>s, <3>c, <3>r DEF IineIInv
  <2> QED BY <2>0, <2>1
<1>24. ASSUME NEW a \in answers, Reply(a) PROVE IineIInv'
  <2>0. Linked /\ s' = [s EXCEPT !.replied = a.kind] /\ dev' = dev
    BY <1>24, <1>l DEF Reply, Answers, connection
  <2>1. a.kind \in {"no", "INFO", "CAPS"}
    BY <1>24, <1>a, <1>t, <1>l, <2>0 DEF Reply, Answers, IineTypeOK, IineIInv, SerialsCount,
       Links, UpToTheQuestion, PastTheQuestion
  <2>2. s' \in Links
    BY Zenon, <1>l, <2>0, <2>1 DEF Links
  <2>3. /\ s'.step = s.step
         /\ s'.busy = s.busy
         /\ s'.ready = s.ready
         /\ s'.replied = a.kind
         /\ s'.serial = s.serial
         /\ s'.attempts = s.attempts
         /\ s'.firmware = s.firmware
    BY Zenon, <1>l, <2>0 DEF Links
  <2>t. IineTypeOK'
    BY <1>24, <1>a, <1>t, <1>l, <2>0, <2>2, <2>3, <2>1 DEF Reply, Answers, IineTypeOK,
       IineIInv, SerialsCount, Linked, connection
  <2>s. SerialsCount'
    BY <1>24, <1>a, <1>l, <2>0, <2>3 DEF Reply, Answers, IineIInv, SerialsCount
  <2>c. ConsentComesFirst' /\ QuestionIsForOthers'
    BY <1>24, <1>l, <2>0, <2>3 DEF Reply, Answers, IineIInv, ConsentComesFirst,
       QuestionIsForOthers, UpToTheQuestion, PastTheQuestion, connection
  <2>r. RepliesAnswerTheRequest' /\ AskedInOrder'
    BY <1>24, <1>a, <1>t, <1>l, <2>0, <2>3 DEF Reply, Answers, IineIInv, IineTypeOK,
       RepliesAnswerTheRequest, AskedInOrder, connection
  <2> QED BY <2>t, <2>s, <2>c, <2>r DEF IineIInv
<1>25. CASE UNCHANGED vars
  BY <1>25 DEF vars, connection, IineIInv, IineTypeOK, SerialsCount, ConsentComesFirst,
     QuestionIsForOthers, RepliesAnswerTheRequest, AskedInOrder, Linked
<1> QED
  BY <1>1, <1>2, <1>3, <1>4, <1>5, <1>6, <1>7, <1>8, <1>9, <1>10, <1>11, <1>12, <1>13, <1>14,
     <1>15, <1>16, <1>17, <1>18, <1>19, <1>20, <1>21, <1>22, <1>23, <1>24, <1>25 DEF Next,
     Tick, Packet

-----------------------------------------------------------------------------
(* The invariant holds of every behaviour, however many attempts are made. *)
THEOREM IineInvariant == Spec => []IineIInv
<1>1. Init => IineIInv
  BY IineInit
<1>2. IineIInv /\ [Next]_vars => IineIInv'
  BY IineStep
<1> QED BY <1>1, <1>2, PTL DEF Spec

(* The link is busy exactly while its GATT operation is outstanding, and no *)
(* link outlives its device (uni_bt_le_iine.c, check_start, reset).         *)
THEOREM BusyIsOutstanding == Spec => []IineTypeOK
<1>1. IineIInv => IineTypeOK
  BY DEF IineIInv
<1> QED BY <1>1, IineInvariant, PTL

(* No controller of unverified firmware is made usable without the user's  *)
(* consent on this very link (uni_bt_le_iine.c, tick).                      *)
THEOREM ConsentIsFirst == Spec => []ConsentComesFirst
<1>1. IineIInv => ConsentComesFirst
  BY DEF IineIInv
<1> QED BY <1>1, IineInvariant, PTL

(* A late or repeated reply is not taken for the one awaited               *)
(* (uni_bt_le_iine.c, packet_handler).                                      *)
THEOREM RepliesMatch == Spec => []RepliesAnswerTheRequest
<1>1. IineIInv => RepliesAnswerTheRequest
  BY DEF IineIInv
<1> QED BY <1>1, IineInvariant, PTL

=============================================================================
