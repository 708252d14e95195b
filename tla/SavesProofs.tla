---------------------------- MODULE SavesProofs ----------------------------
(***************************************************************************)
(* Proofs about Saves for every set of save contents and every width of    *)
(* the sequence number, when reading a sound file does not fail.  The      *)
(* argument is the inductive invariant IInv of Saves.                      *)
(***************************************************************************)
EXTENDS Saves, TLAPS

(* The successor of a counter value is a counter value, is newer than it   *)
(* and not older, also where the counter wraps: this is what the signed    *)
(* comparison of gb_saves_load relies on.                                  *)
LEMMA SuccessorIsNewer ==
  ASSUME NEW m \in Nat, m >= 4, NEW a \in 0 .. m - 1
  PROVE  /\ Successor(a, m) \in 0 .. m - 1
         /\ Newer(Successor(a, m), a, m)
         /\ ~Newer(a, Successor(a, m), m)
<1>1. CASE a = m - 1
  BY <1>1 DEF Newer, Successor
<1>2. CASE a # m - 1
  BY <1>2 DEF Newer, Successor
<1> QED BY <1>1, <1>2

(* Types hold before the first power-on.                                   *)
LEMMA TypeInit == Init => TypeOK
<1>1. 0 \in 0 .. SeqMod - 1
  BY SavesAssumption
<1>2. Absent \in [state : {"absent", "damaged", "valid"}, sequence : 0 .. SeqMod - 1,
                  data : Saved]
  BY <1>1 DEF Absent, Saved
<1>3. [copy |-> "a", sequence |-> 0] \in [copy : Copies, sequence : 0 .. SeqMod - 1]
  BY <1>1 DEF Copies
<1> QED BY <1>2, <1>3 DEF Init, TypeOK, Saved

(* What a step does to the copies: nothing, or one of the three effects.   *)
Removes(c) == file' = [file EXCEPT ![c] = Absent]
Truncates == pc = "truncate" /\ file' = [file EXCEPT ![writing.copy] = Damaged]
Completes ==
  /\ pc = "write"
  /\ file' = [file EXCEPT ![writing.copy] = Valid(writing.sequence, sram)]

(* Whatever a file operation leaves of a copy is a copy.                   *)
LEMMA FileTypes ==
  ASSUME TypeOK,
         UNCHANGED file \/ Truncates \/ Completes \/ (\E c \in Copies : Removes(c))
  PROVE  file' \in [Copies -> [state : {"absent", "damaged", "valid"},
                              sequence : 0 .. SeqMod - 1, data : Saved]]
<1>1. /\ 0 \in 0 .. SeqMod - 1 /\ Blank \in Saved
      /\ writing.copy \in Copies /\ writing.sequence \in 0 .. SeqMod - 1
      /\ sram \in Saved
  BY SavesAssumption DEF TypeOK, Saved
<1> QED BY <1>1 DEF TypeOK, Truncates, Completes, Removes, Absent, Damaged, Valid

(* gb_saves_load prefers one of the two copies.                            *)
LEMMA PreferredIsCopy == ASSUME NEW seen PROVE Preferred(seen) \in Copies
BY DEF Preferred, Copies

(* A load yields cartridge RAM, nothing, or an error.                      *)
LEMMA DurableType == TypeOK => Durable \in Saved \cup {Unreadable}
BY PreferredIsCopy DEF TypeOK, Durable, Saved

(* Types are preserved, with or without read failures.                     *)
LEMMA TypeStep == TypeOK /\ [Next]_vars => TypeOK'
<1> SUFFICES ASSUME TypeOK, [Next]_vars PROVE TypeOK'
  OBVIOUS
<1> USE DEF sessionVars
<1>1. Blank \in Saved /\ Progress \subseteq Saved
  BY DEF Saved
<1>2. Boot => TypeOK'
  BY DEF TypeOK, Boot
<1>3. LoadEmpty => TypeOK'
  BY <1>1 DEF TypeOK, LoadEmpty
<1>4. LoadSaved => TypeOK'
  <2> SUFFICES ASSUME LoadSaved PROVE TypeOK'
    OBVIOUS
  <2>1. PICK c \in Copies : sram' = file[c].data /\ acceptable' = {file[c].data}
    BY PreferredIsCopy DEF LoadSaved
  <2>2. file[c].data \in Saved
    BY DEF TypeOK
  <2> QED BY <2>1, <2>2 DEF TypeOK, LoadSaved
<1>5. Play => TypeOK'
  BY <1>1 DEF TypeOK, Play
<1>6. Exit \/ Abandon \/ ErrorShown => TypeOK'
  BY <1>1 DEF TypeOK, Exit, Abandon, ErrorShown, EndSession
<1>7. BeginWrite => TypeOK'
  <2> SUFFICES ASSUME BeginWrite PROVE TypeOK'
    OBVIOUS
  <2>1. PICK seen \in Seen, found \in Found :
          writing' = [copy |-> Target(seen, found), sequence |-> NextSequence(seen)]
    BY DEF BeginWrite
  <2>2. Target(seen, found) \in Copies
    BY DEF Target, Other, Copies
  <2>3. Latest(seen) \in 0 .. SeqMod - 1
    BY PreferredIsCopy, SavesAssumption DEF Latest, TypeOK
  <2>4. NextSequence(seen) \in 0 .. SeqMod - 1
    BY <2>3, SuccessorIsNewer, SavesAssumption DEF NextSequence
  <2> QED BY <2>1, <2>2, <2>4 DEF TypeOK, BeginWrite
<1>8. Truncate \/ WriteCopy \/ WriteFails => TypeOK'
  <2>1. Truncate => Truncates
    BY DEF Truncate, Truncates
  <2>2. WriteCopy \/ WriteFails => UNCHANGED file \/ Truncates \/ Completes
    BY DEF WriteCopy, WriteFails, PartlyWritten, PartlyTruncated, Truncates, Completes
  <2> QED BY <2>1, <2>2, FileTypes DEF TypeOK, Truncate, WriteCopy, WriteFails
<1>9. Verify => TypeOK'
  BY <1>1 DEF TypeOK, Verify
<1>10. DeleteA \/ DeleteB => TypeOK'
  <2> SUFFICES ASSUME DeleteA \/ DeleteB PROVE TypeOK'
    OBVIOUS
  <2>1. UNCHANGED file \/ (\E c \in Copies : Removes(c))
    BY DEF DeleteA, DeleteB, RemoveCopy, Removes, Copies
  <2>2. file' \in [Copies -> [state : {"absent", "damaged", "valid"},
                             sequence : 0 .. SeqMod - 1, data : Saved]]
    BY <2>1, FileTypes
  <2>3. Durable' \in Saved \cup {Unreadable}
    <3>1. \A seen : Preferred(seen)' \in Copies
      BY DEF Preferred, Copies
    <3> QED BY <2>2, <3>1 DEF Durable, Saved
  <2> QED BY <2>2, <2>3 DEF TypeOK, DeleteA, DeleteB, RemoveCopy
<1>11. PowerCut => TypeOK'
  <2>1. PowerCut => UNCHANGED file \/ Truncates \/ Completes
    BY DEF PowerCut, PartlyWritten, PartlyTruncated, Truncates, Completes
  <2> QED BY <1>1, <2>1, FileTypes DEF TypeOK, PowerCut, EndSession
<1>12. UNCHANGED vars => TypeOK'
  BY DEF TypeOK, vars
<1> QED BY <1>2, <1>3, <1>4, <1>5, <1>6, <1>7, <1>8, <1>9, <1>10, <1>11, <1>12 DEF Next

-----------------------------------------------------------------------------
(***************************************************************************)
(* The three effects on the copies                                         *)
(***************************************************************************)

(* Truncating the other copy leaves the one a load would choose.           *)
LEMMA TruncateEffect ==
  ASSUME IInv, Truncates
  PROVE  /\ Good' = Good \ {writing.copy}
         /\ Good # {} => Durable' = Durable
         /\ Good = {} => Durable' = Unreadable
         /\ CopiesInOrder'
<1> DEFINE c == writing.copy
           o == Other(c)
<1>1. /\ c \in Copies /\ o \in Copies /\ c # o /\ Copies = {c, o}
      /\ file'[c] = Damaged /\ file'[o] = file[o]
  BY DEF IInv, TypeOK, Truncates, Copies, Other
<1>2. Good' = Good \ {c} /\ c \in Existing'
  BY <1>1 DEF Good, Existing, Damaged
<1>3. CopiesInOrder'
  BY <1>1, <1>2 DEF CopiesInOrder, Good
<1>4. CASE o \in Good
  <2>1. Preferred(Good) = o /\ Good' = {o}
    BY <1>1, <1>2, <1>4 DEF IInv, WritingFollows, Truncates, Good
  <2>2. Preferred(Good)' = o
    BY <1>1, <2>1 DEF Preferred, Copies
  <2> QED BY <1>1, <1>2, <1>3, <1>4, <2>1, <2>2 DEF Durable
<1>5. CASE o \notin Good
  <2>1. Good = {} /\ Good' = {}
    BY <1>2, <1>5 DEF IInv, WritingFollows, Truncates
  <2> QED BY <1>2, <1>3, <2>1 DEF Durable
<1> QED BY <1>4, <1>5

(* A copy written to its end is the one a load chooses.                    *)
LEMMA CompleteEffect ==
  ASSUME IInv, Completes
  PROVE  /\ Good' = Good \cup {writing.copy}
         /\ file'[writing.copy] = Valid(writing.sequence, sram)
         /\ Durable' = sram
         /\ CopiesInOrder'
<1> DEFINE c == writing.copy
           o == Other(c)
<1>1. /\ c \in Copies /\ o \in Copies /\ c # o /\ Copies = {c, o}
      /\ file'[c] = Valid(writing.sequence, sram) /\ file'[o] = file[o]
  BY DEF IInv, TypeOK, Completes, Copies, Other
<1>2. Good' = Good \cup {c}
  BY <1>1 DEF Good, Valid
<1>3. /\ file'[c].sequence = writing.sequence /\ file'[c].data = sram
  BY <1>1 DEF Valid
<1>4. CASE o \in Good
  <2>1. file'[c].sequence = Successor(file'[o].sequence, SeqMod)
    BY <1>1, <1>3, <1>4 DEF IInv, WritingFollows, InWrite, Completes
  <2>2. file'[o].sequence \in 0 .. SeqMod - 1
    BY <1>1 DEF IInv, TypeOK
  <2>3. /\ Newer(file'[c].sequence, file'[o].sequence, SeqMod)
        /\ ~Newer(file'[o].sequence, file'[c].sequence, SeqMod)
    BY <2>1, <2>2, SuccessorIsNewer, SavesAssumption
  <2>4. Good' = {c, o}
    BY <1>1, <1>2, <1>4 DEF Good
  <2>5. Preferred(Good)' = c
    BY <1>1, <2>3, <2>4 DEF Preferred, Copies
  <2>6. Durable' = sram
    BY <1>3, <2>4, <2>5 DEF Durable
  <2>7. CopiesInOrder'
    BY <1>1, <2>1 DEF CopiesInOrder, Copies
  <2> QED BY <1>1, <1>2, <2>6, <2>7
<1>5. CASE o \notin Good
  <2>1. Good' = {c}
    BY <1>1, <1>2, <1>5 DEF Good
  <2>2. Preferred(Good)' = c
    BY <1>1, <2>1 DEF Preferred, Copies
  <2>3. Durable' = sram
    BY <1>3, <2>1, <2>2 DEF Durable
  <2>4. CopiesInOrder'
    BY <1>1, <2>1 DEF CopiesInOrder
  <2> QED BY <1>1, <1>2, <2>3, <2>4
<1> QED BY <1>4, <1>5

(* A copy that was read back holds the session, and is the newest.         *)
LEMMA VerifiedIsDurable ==
  ASSUME IInv, pc = "verify", writing.copy \in Good
  PROVE  Durable = sram
<1> DEFINE c == writing.copy
           o == Other(c)
<1>1. /\ c \in Copies /\ o \in Copies /\ c # o /\ Copies = {c, o}
      /\ file[c] = Valid(writing.sequence, sram)
      /\ o \in Good => file[c].sequence = Successor(file[o].sequence, SeqMod)
  BY DEF IInv, TypeOK, WritingFollows, InWrite, Copies, Other, Valid
<1>2. file[o].sequence \in 0 .. SeqMod - 1
  BY <1>1 DEF IInv, TypeOK
<1>3. o \in Good => /\ Newer(file[c].sequence, file[o].sequence, SeqMod)
                    /\ ~Newer(file[o].sequence, file[c].sequence, SeqMod)
  BY <1>1, <1>2, SuccessorIsNewer, SavesAssumption
<1>4. Preferred(Good) = c
  BY <1>1, <1>3 DEF Preferred, Copies
<1> QED BY <1>1, <1>4 DEF Durable, Valid

(* remove_copy affects no copy but its own.                                *)
LEMMA RemoveEffect ==
  ASSUME NEW c \in Copies, Removes(c), TypeOK
  PROVE  CopiesInOrder'
BY DEF Removes, TypeOK, CopiesInOrder, Good, Absent

(* What a load would find depends on the files only.                       *)
LEMMA SameFiles ==
  ASSUME UNCHANGED file
  PROVE  /\ Good' = Good /\ Durable' = Durable
         /\ \A seen : Preferred(seen)' = Preferred(seen)
         /\ CopiesInOrder => CopiesInOrder'
BY DEF Good, Existing, Durable, Preferred, CopiesInOrder

-----------------------------------------------------------------------------
(***************************************************************************)
(* The inductive invariant                                                 *)
(***************************************************************************)

(* The invariant holds before the first save.                              *)
LEMMA InitIInv == Init => IInv
<1> SUFFICES ASSUME Init PROVE IInv
  OBVIOUS
<1>1. Good = {} /\ Existing = {}
  BY DEF Init, Good, Existing, Absent
<1>2. Durable = Blank
  BY <1>1 DEF Durable
<1>3. Good # Copies
  BY <1>1 DEF Copies
<1> QED BY <1>1, <1>2, <1>3, TypeInit
        DEF IInv, Init, CopiesInOrder, WritingFollows, GoodIsAcceptable,
            CleanSessionIsDurable, InWrite

(* Between two writes only the session and the save it holds matter.       *)
LEMMA QuietStep ==
  ASSUME IInv, TypeOK', pc' \notin {"truncate", "write", "verify"}, CopiesInOrder',
         GoodIsAcceptable', CleanSessionIsDurable'
  PROVE  IInv'
BY DEF IInv, WritingFollows, InWrite

(* A write that has been chosen continues the newest good copy in the      *)
(* other one.                                                              *)
LEMMA BeginWriteStep ==
  ASSUME ~ReadFaults, IInv, BeginWrite, TypeOK'
  PROVE  IInv'
<1>1. PICK found \in Found :
        writing' = [copy |-> Target(Good, found), sequence |-> NextSequence(Good)]
  BY DEF BeginWrite, Seen
<1> DEFINE c == writing'.copy
           o == Other(c)
<1>2. /\ UNCHANGED <<file, sram, sramDirty_>> /\ pc' = "truncate"
      /\ acceptable' = acceptable \cup {sram} /\ gb_port_needs_save
  BY DEF BeginWrite, sessionVars
<1>3. Good' = Good /\ Durable' = Durable /\ CopiesInOrder'
      /\ Preferred(Good)' = Preferred(Good)
  BY <1>2, SameFiles DEF IInv
<1>4. CASE Good = {}
  BY <1>2, <1>3, <1>4
     DEF IInv, WritingFollows, GoodIsAcceptable, CleanSessionIsDurable, InWrite,
         gb_port_needs_save
<1>5. CASE Good # {}
  <2>1. c = Other(Preferred(Good)) /\ o = Preferred(Good)
    BY <1>1, <1>5, PreferredIsCopy DEF Target, Other, Copies
  <2>2. writing'.sequence = Successor(file[o].sequence, SeqMod)
    BY <1>1, <1>5, <2>1 DEF NextSequence, Latest
  <2>3. o \in Good
    BY <1>5, <2>1 DEF Preferred, Good, Copies
  <2> QED BY <1>2, <1>3, <2>1, <2>2, <2>3
          DEF IInv, WritingFollows, GoodIsAcceptable, CleanSessionIsDurable, InWrite,
              gb_port_needs_save
<1> QED BY <1>4, <1>5

(* Every step of gb_saves.c and of the session preserves the invariant.    *)
LEMMA StepIInv == ASSUME ~ReadFaults PROVE IInv /\ [Next]_vars => IInv'
<1> SUFFICES ASSUME IInv, [Next]_vars PROVE IInv'
  OBVIOUS
<1> USE DEF sessionVars
<1>0. TypeOK'
  BY TypeStep DEF IInv
<1>1. ASSUME UNCHANGED file, UNCHANGED acceptable,
             pc' \notin {"playing", "truncate", "write", "verify"}
      PROVE  IInv'
  BY <1>0, <1>1, SameFiles, QuietStep
     DEF IInv, GoodIsAcceptable, CleanSessionIsDurable
<1>2. Boot \/ Exit \/ Abandon \/ ErrorShown => IInv'
  BY <1>1 DEF Boot, Exit, Abandon, ErrorShown
<1>3. LoadEmpty => IInv'
  <2> SUFFICES ASSUME LoadEmpty PROVE IInv'
    OBVIOUS
  <2>1. Good = {} /\ Existing = {} /\ UNCHANGED file
    BY DEF LoadEmpty, Seen, Found
  <2>2. Durable' = Blank /\ Good' = {} /\ CopiesInOrder'
    BY <2>1, SameFiles DEF IInv, Durable
  <2> QED BY <1>0, <2>2, QuietStep
          DEF LoadEmpty, GoodIsAcceptable, CleanSessionIsDurable
<1>4. LoadSaved => IInv'
  <2> SUFFICES ASSUME LoadSaved PROVE IInv'
    OBVIOUS
  <2>1. /\ Good # {} /\ UNCHANGED file
        /\ sram' = Durable /\ acceptable' = {Durable}
    BY DEF LoadSaved, Seen, Durable
  <2>2. Durable' = Durable /\ Good' = Good /\ CopiesInOrder'
    BY <2>1, SameFiles DEF IInv
  <2> QED BY <1>0, <2>1, <2>2, QuietStep
          DEF LoadSaved, GoodIsAcceptable, CleanSessionIsDurable
<1>5. Play => IInv'
  <2> SUFFICES ASSUME Play PROVE IInv'
    OBVIOUS
  <2>1. Durable' = Durable /\ Good' = Good /\ CopiesInOrder'
    BY SameFiles DEF IInv, Play
  <2> QED BY <1>0, <2>1, QuietStep
          DEF IInv, Play, GoodIsAcceptable, CleanSessionIsDurable, gb_port_needs_save
<1>6. BeginWrite => IInv'
  BY <1>0, BeginWriteStep
<1>7. Truncate => IInv'
  <2> SUFFICES ASSUME Truncate PROVE IInv'
    OBVIOUS
  <2>1. Truncates /\ UNCHANGED <<sram, sramDirty_, writing, acceptable>> /\ pc' = "write"
    BY DEF Truncate, Truncates
  <2>2. /\ Good' = Good \ {writing.copy} /\ CopiesInOrder'
        /\ Good # {} => Durable' = Durable
        /\ Good = {} => Durable' = Unreadable
    BY <2>1, TruncateEffect
  <2>3. GoodIsAcceptable'
    BY <2>1, <2>2 DEF IInv, GoodIsAcceptable, Durable
  <2>4. Other(writing.copy) # writing.copy
    BY DEF Other
  <2>5. file'[Other(writing.copy)] = file[Other(writing.copy)]
    BY <2>1, <2>4 DEF IInv, TypeOK, Truncates, Other, Copies
  <2>6. WritingFollows'
    BY <2>1, <2>2, <2>4, <2>5
       DEF IInv, WritingFollows, InWrite, Truncates, gb_port_needs_save
  <2> QED BY <1>0, <2>1, <2>2, <2>3, <2>6 DEF IInv, CleanSessionIsDurable
<1>8. WriteCopy => IInv'
  <2> SUFFICES ASSUME WriteCopy PROVE IInv'
    OBVIOUS
  <2>1. /\ pc = "write" /\ pc' = "verify"
        /\ UNCHANGED <<sram, sramDirty_, writing, acceptable>>
        /\ UNCHANGED file \/ Completes
    BY DEF WriteCopy, PartlyWritten, Completes
  <2>2. /\ CopiesInOrder' /\ GoodIsAcceptable'
        /\ writing.copy \in Good' =>
             file'[writing.copy] = Valid(writing.sequence, sram)
    <3>1. CASE UNCHANGED file
      BY <2>1, <3>1, SameFiles DEF IInv, GoodIsAcceptable, WritingFollows
    <3>2. CASE Completes
      BY <2>1, <3>2, CompleteEffect DEF IInv, GoodIsAcceptable, WritingFollows, InWrite
    <3> QED BY <2>1, <3>1, <3>2
  <2>3. Other(writing.copy) # writing.copy
    BY DEF Other
  <2>4. file'[Other(writing.copy)] = file[Other(writing.copy)]
    BY <2>1, <2>3 DEF IInv, TypeOK, Completes, Other, Copies
  <2>5. WritingFollows'
    BY <2>1, <2>2, <2>3, <2>4
       DEF IInv, WritingFollows, InWrite, Good, gb_port_needs_save
  <2> QED BY <1>0, <2>1, <2>2, <2>5 DEF IInv, CleanSessionIsDurable
<1>9. ASSUME UNCHANGED file \/ Truncates \/ Completes, UNCHANGED acceptable
      PROVE  CopiesInOrder' /\ GoodIsAcceptable'
  <2>1. CASE UNCHANGED file
    BY <1>9, <2>1, SameFiles DEF IInv, GoodIsAcceptable
  <2>2. CASE Truncates
    BY <1>9, <2>2, TruncateEffect DEF IInv, GoodIsAcceptable, Durable
  <2>3. CASE Completes
    BY <1>9, <2>3, CompleteEffect
       DEF IInv, GoodIsAcceptable, WritingFollows, InWrite, Completes
  <2> QED BY <1>9, <2>1, <2>2, <2>3
<1>10. WriteFails => IInv'
  <2> SUFFICES ASSUME WriteFails PROVE IInv'
    OBVIOUS
  <2>1. /\ UNCHANGED file \/ Truncates \/ Completes
        /\ UNCHANGED <<acceptable, sramDirty_>> /\ pc' = "playing" /\ InWrite
    BY DEF WriteFails, PartlyTruncated, PartlyWritten, Truncates, Completes, InWrite
  <2>2. gb_port_needs_save'
    BY <2>1 DEF IInv, WritingFollows, gb_port_needs_save
  <2> QED BY <1>0, <1>9, <2>1, <2>2, QuietStep DEF CleanSessionIsDurable
<1>11. Verify => IInv'
  <2> SUFFICES ASSUME Verify PROVE IInv'
    OBVIOUS
  <2>1. Durable = sram
    BY VerifiedIsDurable DEF Verify
  <2>2. /\ UNCHANGED file /\ acceptable' = {sram}
        /\ (pc' = "playing" /\ sram' = sram) \/ pc' = "menu"
    BY DEF Verify
  <2>3. Durable' = sram /\ CopiesInOrder'
    BY <2>1, <2>2, SameFiles DEF IInv
  <2> QED BY <1>0, <2>2, <2>3, QuietStep DEF GoodIsAcceptable, CleanSessionIsDurable
<1>12. DeleteA \/ DeleteB => IInv'
  <2> SUFFICES ASSUME DeleteA \/ DeleteB PROVE IInv'
    OBVIOUS
  <2>1. /\ UNCHANGED file \/ (\E c \in Copies : Removes(c))
        /\ Durable' \in acceptable' /\ pc' \in {"menu", "delete_b"}
    BY DEF DeleteA, DeleteB, RemoveCopy, Removes, Copies
  <2>2. CopiesInOrder'
    BY <2>1, SameFiles, RemoveEffect DEF IInv
  <2> QED BY <1>0, <2>1, <2>2, QuietStep DEF GoodIsAcceptable, CleanSessionIsDurable
<1>13. PowerCut => IInv'
  <2> SUFFICES ASSUME PowerCut PROVE IInv'
    OBVIOUS
  <2>1. /\ UNCHANGED file \/ Truncates \/ Completes
        /\ UNCHANGED acceptable /\ pc' = "off"
    BY DEF PowerCut, PartlyTruncated, PartlyWritten, Truncates, Completes
  <2> QED BY <1>0, <1>9, <2>1, QuietStep DEF CleanSessionIsDurable
<1>14. UNCHANGED vars => IInv'
  <2> SUFFICES ASSUME UNCHANGED vars PROVE IInv'
    OBVIOUS
  <2>1. UNCHANGED <<file, sram, sramDirty_, pc, writing, acceptable>>
    BY DEF vars
  <2>2. Durable' = Durable /\ Good' = Good /\ CopiesInOrder'
        /\ Preferred(Good)' = Preferred(Good)
    BY <2>1, SameFiles DEF IInv
  <2> QED BY <1>0, <2>1, <2>2
          DEF IInv, WritingFollows, GoodIsAcceptable, CleanSessionIsDurable, InWrite,
              gb_port_needs_save
<1> QED BY <1>2, <1>3, <1>4, <1>5, <1>6, <1>7, <1>8, <1>10, <1>11, <1>12, <1>13, <1>14
        DEF Next

-----------------------------------------------------------------------------
(***************************************************************************)
(* The theorems                                                            *)
(***************************************************************************)

(* The files, the session and the write in progress have their types,      *)
(* whether or not reads fail.                                              *)
THEOREM TypeCorrect == Spec => []TypeOK
<1>1. TypeOK /\ [Next]_vars => TypeOK'
  BY TypeStep
<1> QED BY TypeInit, <1>1, PTL DEF Spec

(* How the copies, the session and the write in progress are related.      *)
THEOREM InvariantHolds == ASSUME ~ReadFaults PROVE Spec => []IInv
<1>1. IInv /\ [Next]_vars => IInv'
  BY StepIInv
<1> QED BY InitIInv, <1>1, PTL DEF Spec

(* A save that was loaded or confirmed is never lost to a write.           *)
THEOREM SavedSurvives == ASSUME ~ReadFaults PROVE Spec => []SavedProgressSurvives
<1>1. IInv => SavedProgressSurvives
  BY DEF IInv, GoodIsAcceptable, SavedProgressSurvives
<1>2. Spec => []IInv
  BY InvariantHolds
<1> QED BY <1>1, <1>2, PTL

(* When nothing needs saving, a load would find what RAM holds.            *)
THEOREM CleanDurable == ASSUME ~ReadFaults PROVE Spec => []CleanSessionIsDurable
<1>1. IInv => CleanSessionIsDurable
  BY DEF IInv
<1>2. Spec => []IInv
  BY InvariantHolds
<1> QED BY <1>1, <1>2, PTL

(* The copy a load would choose is never the one truncated.                *)
THEOREM OlderOverwritten == ASSUME ~ReadFaults PROVE Spec => []OverwritesOlder
<1>1. IInv => OverwritesOlder
  <2> SUFFICES ASSUME IInv, pc = "truncate", Good # {}
               PROVE  writing.copy # Preferred(Good)
    BY DEF OverwritesOlder
  <2>1. Preferred(Good) = Other(writing.copy)
    BY DEF IInv, WritingFollows
  <2> QED BY <2>1 DEF Other
<1>2. Spec => []IInv
  BY InvariantHolds
<1> QED BY <1>1, <1>2, PTL

(* Two good copies are one save apart.                                     *)
THEOREM CopiesStayInOrder == ASSUME ~ReadFaults PROVE Spec => []CopiesInOrder
<1>1. IInv => CopiesInOrder
  BY DEF IInv
<1>2. Spec => []IInv
  BY InvariantHolds
<1> QED BY <1>1, <1>2, PTL

(* Leaving a game through the pause menu leaves its progress on flash.     *)
THEOREM ExitKeeps == ASSUME ~ReadFaults PROVE Spec => ExitKeepsProgress
<1> DEFINE Kept == pc \in {"playing", "verify"} /\ pc' = "menu" => Durable' = sram
<1>1. IInv /\ [Next]_vars => [Kept]_vars
  <2> SUFFICES ASSUME IInv, Next, pc \in {"playing", "verify"}, pc' = "menu"
               PROVE  Durable' = sram
    OBVIOUS
  <2>1. UNCHANGED file /\ Durable = sram
    <3>1. Exit => UNCHANGED file /\ Durable = sram
      BY DEF Exit, IInv, CleanSessionIsDurable
    <3>2. Verify => UNCHANGED file /\ Durable = sram
      BY VerifiedIsDurable DEF Verify
    <3> QED BY <3>1, <3>2
        DEF Next, Boot, LoadEmpty, LoadSaved, Play, Abandon, ErrorShown, BeginWrite,
            Truncate, WriteCopy, WriteFails, DeleteA, DeleteB, PowerCut
  <2> QED BY <2>1, SameFiles
<1>2. Spec => []IInv
  BY InvariantHolds
<1> QED BY <1>1, <1>2, PTL DEF Spec, ExitKeepsProgress
=============================================================================
