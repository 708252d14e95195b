-------------------------------- MODULE Saves --------------------------------
(***************************************************************************)
(* gb_saves.c: the two copies of one game's battery save, and the session  *)
(* that reads and writes them.                                             *)
(*                                                                         *)
(* A write replaces one copy and never touches the other, so that power    *)
(* may fail at any moment; a load takes the copy with the newer sequence   *)
(* number among those whose header and CRC are good.  A copy is written    *)
(* in three file operations (truncate, write and flush, read back), each   *)
(* of which may fail or lose power.  The game's task is the only one that  *)
(* uses the files while a game runs, and the HTTP task while the           *)
(* management page is open.                                                *)
(*                                                                         *)
(* ReadFaults says whether reading a sound file may fail.  check_copy and  *)
(* exists treat a failed fopen or fread as a bad or a missing file.        *)
(***************************************************************************)
EXTENDS Integers, FiniteSets, SerialNumber

CONSTANTS
  Progress,     \* the contents of cartridge RAM a game can produce
  Blank,        \* cartridge RAM as gb_port_create leaves it
  Unreadable,   \* what a load that fails with GB_SAVE_ERROR yields
  SeqMod,       \* the save sequence is an unsigned number mod SeqMod
  HasRtc,       \* the cartridge has a clock, which makes every save needed
  ReadFaults

ASSUME SavesAssumption ==
  /\ SeqMod \in Nat /\ SeqMod >= 4
  /\ HasRtc \in BOOLEAN
  /\ ReadFaults \in BOOLEAN
  /\ Blank \notin Progress
  /\ Unreadable \notin Progress \cup {Blank}

VARIABLES
  file,        \* the copies "a" and "b" on flash
  s_mounted,
  sram,        \* cartridge RAM of the session; Blank without one
  sramDirty_,
  pc,          \* where the task is; "off" without power
  writing,     \* the copy being written and its sequence number
  leaving,     \* the write was asked for by "exit game"
  acceptable   \* history: what a load may rightly find

sessionVars == <<sram, sramDirty_>>
vars == <<file, s_mounted, sessionVars, pc, writing, leaving, acceptable>>

Copies == {"a", "b"}
Other(c) == IF c = "a" THEN "b" ELSE "a"

Saved == Progress \cup {Blank}

Absent == [state |-> "absent", sequence |-> 0, data |-> Blank]
Damaged == [state |-> "damaged", sequence |-> 0, data |-> Blank]
Valid(sequence, data) ==
  [state |-> "valid", sequence |-> sequence, data |-> data]

(* What check_copy and exists find when no read fails. *)
Good == { c \in Copies : file[c].state = "valid" }
Existing == { c \in Copies : file[c].state # "absent" }

(* The sets of copies that may pass check_copy, and that may be found to   *)
(* exist, given that reads may fail.                                       *)
Seen == IF ReadFaults THEN SUBSET Good ELSE {Good}
Found == IF ReadFaults THEN SUBSET Existing ELSE {Existing}

(* The newer of the copies that passed, "b" unless "a" is newer. *)
Preferred(seen) ==
  IF "a" \in seen
     /\ ("b" \in seen => Newer(file["a"].sequence, file["b"].sequence, SeqMod))
  THEN "a" ELSE "b"

(* Mutant: the newer of two good copies is replaced. *)
Target_Newer(seen, found) ==
  IF seen = {} THEN IF "a" \in found THEN "b" ELSE "a"
  ELSE IF seen = Copies THEN Preferred(seen) ELSE Other(Preferred(seen))

(* The copy gb_saves_write replaces: with no good copy an unused one, else *)
(* the one that is not newest.                                             *)
Target(seen, found) ==
  IF seen = {} THEN IF "a" \in found THEN "b" ELSE "a"
  ELSE Other(Preferred(seen))

Latest(seen) == IF seen = {} THEN 0 ELSE file[Preferred(seen)].sequence

NextSequence(seen) == Successor(Latest(seen), SeqMod)

(* What a load without read failures would yield. *)
Durable ==
  IF Good # {} THEN file[Preferred(Good)].data
  ELSE IF Existing = {} THEN Blank ELSE Unreadable

gb_port_needs_save == HasRtc \/ sramDirty_

-----------------------------------------------------------------------------
Init ==
  /\ file = [c \in Copies |-> Absent]
  /\ s_mounted = FALSE
  /\ sram = Blank
  /\ sramDirty_ = FALSE
  /\ pc = "off"
  /\ writing = [copy |-> "a", sequence |-> 0]
  /\ leaving = FALSE
  /\ acceptable = {Blank}

(* gb_saves_init: the partition mounts or it does not; it is never         *)
(* formatted.                                                              *)
Boot ==
  /\ pc = "off"
  /\ s_mounted' \in BOOLEAN
  /\ pc' = "menu"
  /\ UNCHANGED <<file, sessionVars, writing, leaving, acceptable>>

-----------------------------------------------------------------------------
(***************************************************************************)
(* A session                                                               *)
(***************************************************************************)

(* gb_saves_load returns GB_SAVE_EMPTY: a new game. *)
LoadEmpty ==
  /\ pc = "menu"
  /\ s_mounted
  /\ {} \in Seen
  /\ {} \in Found
  /\ sram' = Blank
  /\ sramDirty_' = FALSE
  /\ acceptable' = {Blank}
  /\ pc' = "playing"
  /\ UNCHANGED <<file, s_mounted, writing, leaving>>

(* gb_saves_load returns GB_SAVE_LOADED.  After GB_SAVE_ERROR, with a bad  *)
(* copy and no good one or a copy that fails when it is read again, the    *)
(* session is destroyed and nothing has changed.                           *)
LoadSaved ==
  /\ pc = "menu"
  /\ s_mounted
  /\ \E seen \in Seen \ {{}} :
       /\ sram' = file[Preferred(seen)].data
       /\ acceptable' = {file[Preferred(seen)].data}
  /\ sramDirty_' = FALSE
  /\ pc' = "playing"
  /\ UNCHANGED <<file, s_mounted, writing, leaving>>

(* The game writes cartridge RAM. *)
Play ==
  /\ pc = "playing"
  /\ sram' \in Progress
  /\ sramDirty_' = TRUE
  /\ UNCHANGED <<file, s_mounted, pc, writing, leaving, acceptable>>

EndSession ==
  /\ sram' = Blank
  /\ sramDirty_' = FALSE

(* Mutant: the game may be left although its progress is not saved. *)
Exit_Unsaved ==
  /\ pc = "playing"
  /\ EndSession
  /\ pc' = "menu"
  /\ UNCHANGED <<file, s_mounted, writing, leaving, acceptable>>

(* "Exit game" on the pause menu, with nothing to save. *)
Exit ==
  /\ pc = "playing"
  /\ ~gb_port_needs_save
  /\ EndSession
  /\ pc' = "menu"
  /\ UNCHANGED <<file, s_mounted, writing, leaving, acceptable>>

(* The display, the sound or the ROM fails: the session is destroyed as it *)
(* is, and an error is shown.                                              *)
Abandon ==
  /\ pc = "playing"
  /\ EndSession
  /\ pc' = "error"
  /\ UNCHANGED <<file, s_mounted, writing, leaving, acceptable>>

ErrorShown ==
  /\ pc = "error"
  /\ pc' = "menu"
  /\ UNCHANGED <<file, s_mounted, sessionVars, writing, leaving, acceptable>>

-----------------------------------------------------------------------------
(***************************************************************************)
(* gb_saves_write                                                          *)
(***************************************************************************)

(* Both copies are checked and one is chosen, unless neither is good and   *)
(* both exist.                                                             *)
BeginWrite ==
  /\ pc = "playing"
  /\ gb_port_needs_save
  /\ \E seen \in Seen, found \in Found :
       /\ ~(seen = {} /\ found = Copies)
       /\ writing' = [copy |-> Target(seen, found), sequence |-> NextSequence(seen)]
  /\ leaving' \in BOOLEAN
  /\ acceptable' = acceptable \cup {sram}
  /\ pc' = "truncate"
  /\ UNCHANGED <<file, s_mounted, sessionVars>>

(* fopen(target, "wb") *)
Truncate ==
  /\ pc = "truncate"
  /\ file' = [file EXCEPT ![writing.copy] = Damaged]
  /\ pc' = "write"
  /\ UNCHANGED <<s_mounted, sessionVars, writing, leaving, acceptable>>

(* What a write may leave, whether it succeeds, fails or is cut short. *)
PartlyWritten ==
  \/ UNCHANGED file
  \/ file' = [file EXCEPT ![writing.copy] = Valid(writing.sequence, sram)]

PartlyTruncated ==
  \/ UNCHANGED file
  \/ file' = [file EXCEPT ![writing.copy] = Damaged]

(* fwrite, fflush, fsync and fclose report success; what reached the flash *)
(* the readback will examine.                                              *)
WriteCopy ==
  /\ pc = "write"
  /\ PartlyWritten
  /\ pc' = "verify"
  /\ UNCHANGED <<s_mounted, sessionVars, writing, leaving, acceptable>>

(* A file operation reports an error, or the readback fails. *)
WriteFails ==
  /\ \/ pc = "truncate" /\ PartlyTruncated
     \/ pc = "write" /\ PartlyWritten
     \/ pc = "verify" /\ UNCHANGED file /\ (writing.copy \in Good => ReadFaults)
  /\ pc' = "playing"
  /\ UNCHANGED <<s_mounted, sessionVars, writing, leaving, acceptable>>

(* The readback succeeds: gb_port_mark_saved.  A game that was being left  *)
(* is left now.                                                            *)
Verify ==
  /\ pc = "verify"
  /\ writing.copy \in Good
  /\ sramDirty_' = FALSE
  /\ acceptable' = {sram}
  /\ IF leaving THEN pc' = "menu" /\ sram' = Blank
                ELSE pc' = "playing" /\ UNCHANGED sram
  /\ UNCHANGED <<file, s_mounted, writing, leaving>>

-----------------------------------------------------------------------------
(***************************************************************************)
(* gb_saves_delete, and power                                              *)
(***************************************************************************)

(* remove_copy: the file is gone, or an error is reported. *)
RemoveCopy(c) ==
  /\ file' = [file EXCEPT ![c] = Absent] \/ UNCHANGED file
  /\ acceptable' = acceptable \cup {Durable'}

DeleteA ==
  /\ pc = "menu"
  /\ s_mounted
  /\ RemoveCopy("a")
  /\ pc' = "delete_b"
  /\ UNCHANGED <<s_mounted, sessionVars, writing, leaving>>

(* The second copy is removed even if the first could not be. *)
DeleteB ==
  /\ pc = "delete_b"
  /\ RemoveCopy("b")
  /\ pc' = "menu"
  /\ UNCHANGED <<s_mounted, sessionVars, writing, leaving>>

PowerCut ==
  /\ pc # "off"
  /\ \/ pc = "truncate" /\ PartlyTruncated
     \/ pc = "write" /\ PartlyWritten
     \/ pc \notin {"truncate", "write"} /\ UNCHANGED file
  /\ EndSession
  /\ s_mounted' = FALSE
  /\ pc' = "off"
  /\ UNCHANGED <<writing, leaving, acceptable>>

Next ==
  \/ Boot
  \/ LoadEmpty
  \/ LoadSaved
  \/ Play
  \/ Exit
  \/ Abandon
  \/ ErrorShown
  \/ BeginWrite
  \/ Truncate
  \/ WriteCopy
  \/ WriteFails
  \/ Verify
  \/ DeleteA
  \/ DeleteB
  \/ PowerCut

Spec == Init /\ [][Next]_vars

-----------------------------------------------------------------------------
(***************************************************************************)
(* Properties                                                              *)
(***************************************************************************)

(* Types of the files, the session and the write in progress.              *)
TypeOK ==
  /\ file \in [Copies -> [state : {"absent", "damaged", "valid"},
                          sequence : 0 .. SeqMod - 1, data : Saved]]
  /\ s_mounted \in BOOLEAN
  /\ sram \in Saved
  /\ sramDirty_ \in BOOLEAN
  /\ pc \in {"off", "menu", "playing", "truncate", "write", "verify", "delete_b",
            "error"}
  /\ writing \in [copy : Copies, sequence : 0 .. SeqMod - 1]
  /\ leaving \in BOOLEAN
  /\ acceptable \subseteq Saved \cup {Unreadable}

(* Once a save has been loaded or confirmed, no failed or interrupted      *)
(* write loses it: at every moment a load would find it, or a save that    *)
(* was being written since, whole.                                         *)
SavedProgressSurvives == Blank \notin acceptable => Durable \in acceptable

(* The same of the first save, where the old version is no save at all:    *)
(* after a restart a load finds an old or a new complete version, as the   *)
(* development plan promises of an interrupted write.                      *)
InterruptedSaveRecovers == pc = "menu" => Durable \in acceptable

(* gb_port_needs_save tells the truth: when nothing needs saving, a power  *)
(* cut or leaving the game without a write costs nothing, since a load     *)
(* would find what cartridge RAM holds.                                    *)
CleanSessionIsDurable ==
  pc = "playing" /\ ~gb_port_needs_save => Durable = sram

(* A game left through the pause menu leaves its cartridge RAM behind: a   *)
(* load at any later moment, before another session, would find it.        *)
ExitKeepsProgress ==
  [][(pc \in {"playing", "verify"} /\ pc' = "menu") => Durable' = sram]_vars

(* The copy about to be truncated is not the one a load would choose.      *)
OverwritesOlder ==
  pc = "truncate" /\ Good # {} => writing.copy # Preferred(Good)

(* Two good copies are one save apart, so that the signed comparison names *)
(* the newer also when the sequence wraps.                                 *)
CopiesInOrder ==
  Good = Copies =>
    \/ file["a"].sequence = Successor(file["b"].sequence, SeqMod)
    \/ file["b"].sequence = Successor(file["a"].sequence, SeqMod)

(***************************************************************************)
(* The inductive invariant                                                 *)
(***************************************************************************)

InWrite == pc \in {"truncate", "write", "verify"}

(* The write in progress continues the other copy, if that one is good;    *)
(* else there was no good copy.                                            *)
WritingFollows ==
  LET c == writing.copy
      o == Other(c)
  IN  /\ InWrite /\ o \in Good =>
           writing.sequence = Successor(file[o].sequence, SeqMod)
      /\ pc = "truncate" =>
           IF o \in Good THEN Preferred(Good) = o ELSE Good = {}
      /\ pc = "write" => c \notin Good
      /\ pc = "verify" /\ c \in Good => file[c] = Valid(writing.sequence, sram)
      /\ InWrite => sram \in acceptable /\ gb_port_needs_save

(* Good copies hold acceptable saves, and one is left once a save has been *)
(* loaded or confirmed.                                                    *)
GoodIsAcceptable ==
  /\ Good # {} => Durable \in acceptable
  /\ Blank \notin acceptable => Durable \in acceptable

IInv ==
  /\ TypeOK
  /\ CopiesInOrder
  /\ WritingFollows
  /\ GoodIsAcceptable
  /\ CleanSessionIsDurable
=============================================================================
