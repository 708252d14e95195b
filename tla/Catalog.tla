------------------------------- MODULE Catalog -------------------------------
(***************************************************************************)
(* gb_storage.c: the catalogue of installed ROMs in the flash partition    *)
(* "roms".                                                                 *)
(*                                                                         *)
(* Flash keeps two directory slots.  Each operation that changes the       *)
(* catalogue writes the whole table, with the next generation number, to   *)
(* the slot that is not current; gb_storage_init takes the newest slot     *)
(* that is intact.  A device that never published has only the legacy      *)
(* FGBR table an image may carry in sector 0.  ROM bytes lie between.      *)
(*                                                                         *)
(* An operation is cut into the flash calls it makes, because power may    *)
(* fail inside any of them and each may report an error.  One task at a    *)
(* time runs operations: the menu task, or the HTTP task while the         *)
(* management page is open.                                                *)
(***************************************************************************)
EXTENDS RomTable, SerialNumber

CONSTANTS
  GenMod,        \* the generation counter is an unsigned number mod GenMod
  LegacyTables   \* the FGBR tables an image may carry (<<>>: it has none)

ASSUME CatalogAssumption ==
  /\ GenMod \in Nat /\ GenMod >= 4
  /\ LegacyTables \subseteq Seq(Entry)

VARIABLES
  (* Flash, which survives a power cut. *)
  slot,              \* the two directory slots
  legacy,            \* the FGBR table; no operation writes sector 0
  sector,            \* which ROM a data sector holds a piece of
  (* Static variables of gb_storage.c. *)
  s_entries,         \* the table in RAM; its length is s_count
  s_directory_slot,  \* the current slot, -1 if none
  s_generation,
  s_catalog_trusted,
  s_needs_reload,
  s_selected,        \* the row s_selected points at, 0 for NULL
  (* The operation in progress. *)
  pc,                \* the flash call it is in; "idle"; "off" without power
  updated,           \* the table it is going to publish
  (* History. *)
  opened             \* the ROM gb_storage_open handed out for s_selected

flashVars == <<slot, legacy, sector>>
ramVars == <<s_entries, s_directory_slot, s_generation, s_catalog_trusted,
             s_needs_reload>>
selVars == <<s_selected, opened>>
vars == <<flashVars, ramVars, selVars, pc, updated>>

Slots == {0, 1}

(* A slot that is blank, half-written or fails its digest. *)
Torn == [intact |-> FALSE, generation |-> 0, entries |-> <<>>]

Directory(generation, entries) ==
  [intact |-> TRUE, generation |-> generation, entries |-> entries]

NextGeneration == Successor(s_generation, GenMod)

(* read_directory, when the flash read itself succeeds. *)
Readable(s) == slot[s].intact /\ entries_valid(slot[s].entries)

(* The scan of gb_storage_init over the slots whose read succeeds: slot 1  *)
(* replaces slot 0 only if it is newer.                                    *)
Chosen(reads) ==
  LET good(s) == s \in reads /\ Readable(s)
  IN  IF good(1) /\ (good(0) => Newer(slot[1].generation, slot[0].generation, GenMod))
      THEN 1
      ELSE IF good(0) THEN 0 ELSE -1

LegacyTable == IF entries_valid(legacy) THEN legacy ELSE <<>>

(* The catalogue a restart without read errors would show. *)
Durable == LET s == Chosen(Slots)
           IN  IF s = -1 THEN LegacyTable ELSE slot[s].entries

(* A row's bytes are on flash: hashing them gives the row's SHA-256. *)
Intact(e) == \A s \in Extent(e) : sector[s] = e.rom

(* The slot publish_directory writes. *)
Target == IF s_directory_slot = 0 THEN 1 ELSE 0

-----------------------------------------------------------------------------
(***************************************************************************)
(* Restart                                                                 *)
(***************************************************************************)

Init ==
  /\ slot = [s \in Slots |-> Torn]
  /\ legacy \in LegacyTables
  /\ sector = [s \in DataSectors |->
                 LET rows == { i \in DOMAIN LegacyTable :
                                 s \in Extent(LegacyTable[i]) }
                 IN  IF rows = {} THEN Erased
                     ELSE LegacyTable[CHOOSE i \in rows : TRUE].rom]
  /\ s_entries = <<>>
  /\ s_directory_slot = -1
  /\ s_generation = 0
  /\ s_catalog_trusted = FALSE
  /\ s_needs_reload = FALSE
  /\ s_selected = 0
  /\ opened = Erased
  /\ pc = "off"
  /\ updated = <<>>

(* The slot and generation gb_storage_init leaves behind. *)
TakeSlot(s) ==
  /\ s_directory_slot' = s
  /\ s_generation' = IF s = -1 THEN 0 ELSE slot[s].generation

Boot(entries, trusted, blocked) ==
  /\ pc = "off"
  /\ pc' = "idle"
  /\ s_entries' = entries
  /\ s_catalog_trusted' = trusted
  /\ s_needs_reload' = blocked
  /\ UNCHANGED <<flashVars, selVars, updated>>

BootFromDirectory ==
  LET s == Chosen(Slots) IN
  /\ s # -1
  /\ TakeSlot(s)
  /\ Boot(slot[s].entries, TRUE, FALSE)

BootFromLegacy ==
  /\ Chosen(Slots) = -1
  /\ legacy # <<>>
  /\ entries_valid(legacy)
  /\ TakeSlot(-1)
  /\ Boot(legacy, TRUE, FALSE)

(* Neither a directory nor an FGBR header: an empty catalogue, in which    *)
(* games may be installed but which is no evidence against a save file.    *)
BootEmpty ==
  /\ Chosen(Slots) = -1
  /\ legacy = <<>>
  /\ TakeSlot(-1)
  /\ Boot(<<>>, FALSE, FALSE)

(* Mutant: a slot that cannot be read is taken for an empty one. *)
BootReadError_OlderSlot ==
  \E reads \in SUBSET Slots :
    /\ reads # Slots
    /\ Chosen(reads) # -1
    /\ TakeSlot(Chosen(reads))
    /\ Boot(slot[Chosen(reads)].entries, TRUE, FALSE)

(* A directory slot cannot be read, so a newer directory may be hidden.    *)
BootReadError ==
  \E reads \in SUBSET Slots :
    /\ reads # Slots
    /\ TakeSlot(Chosen(reads))
    /\ Boot(<<>>, FALSE, TRUE)

(* No partition, no memory, or no directory and an FGBR header or table    *)
(* that cannot be read or is not acceptable.                               *)
BootBlocked ==
  /\ TakeSlot(-1)
  /\ Boot(<<>>, FALSE, TRUE)

-----------------------------------------------------------------------------
(***************************************************************************)
(* What a flash call may leave behind when it fails or loses power         *)
(***************************************************************************)

(* The row an upload is writing. *)
Incoming == updated[Len(updated)]

PrefixOfIncoming(n) == Incoming.offset .. Incoming.offset + n - 1

PartlyErased ==
  \E n \in 0 .. SizeOf(Incoming) :
    sector' = [s \in DataSectors |->
                 IF s \in PrefixOfIncoming(n) THEN Erased ELSE sector[s]]

PartlyStreamed ==
  \E n \in 0 .. SizeOf(Incoming) :
    sector' = [s \in DataSectors |->
                 IF s \in PrefixOfIncoming(n) THEN Incoming.rom ELSE sector[s]]

SlotPartlyErased == \/ slot' = [slot EXCEPT ![Target] = Torn]
                    \/ UNCHANGED slot

SlotPartlyWritten ==
  \/ slot' = [slot EXCEPT ![Target] = Torn]
  \/ slot' = [slot EXCEPT ![Target] = Directory(NextGeneration, updated)]

-----------------------------------------------------------------------------
(***************************************************************************)
(* Operations                                                              *)
(***************************************************************************)

Idle == pc = "idle" /\ ~s_needs_reload

unmap_selected == s_selected' = 0 /\ opened' = Erased

(* An operation returns without having published. *)
GiveUp ==
  /\ pc' = "idle"
  /\ updated' = <<>>
  /\ UNCHANGED <<legacy, ramVars, selVars>>

(* gb_storage_open: the bytes are hashed before they are handed out. *)
Open(i) ==
  /\ Idle
  /\ Intact(s_entries[i])
  /\ s_selected' = i
  /\ opened' = s_entries[i].rom
  /\ UNCHANGED <<flashVars, ramVars, pc, updated>>

(* gb_storage_upload: the guards, and the first-fit gap. *)
BeginUpload(name, rom) ==
  /\ Idle
  /\ valid_name(s_entries, name, 0)
  /\ Len(s_entries) < MaxRoms
  /\ RomSectors[rom] >= 2 * BankSectors
  /\ RomSectors[rom] <= limit
  /\ RomSectors[rom] % BankSectors = 0
  /\ RomSectors[rom] <= available(s_entries)
  /\ \E offset \in DataSectors :
       /\ find_gap(s_entries, RomSectors[rom], offset)
       /\ updated' = WithRow(s_entries, name, rom, offset)
  /\ unmap_selected
  /\ pc' = "erase_rom"
  /\ UNCHANGED <<flashVars, ramVars>>

EraseRom ==
  /\ pc = "erase_rom"
  /\ sector' = [s \in DataSectors |->
                  IF s \in Extent(Incoming) THEN Erased ELSE sector[s]]
  /\ pc' = "stream_rom"
  /\ UNCHANGED <<slot, legacy, ramVars, selVars, updated>>

EraseRomFails ==
  /\ pc = "erase_rom"
  /\ PartlyErased
  /\ UNCHANGED slot
  /\ GiveUp

(* All bytes received and written, and the header accepted. *)
StreamRom ==
  /\ pc = "stream_rom"
  /\ Incoming.rom \in Playable
  /\ sector' = [s \in DataSectors |->
                  IF s \in Extent(Incoming) THEN Incoming.rom ELSE sector[s]]
  /\ pc' = "erase_slot"
  /\ UNCHANGED <<slot, legacy, ramVars, selVars, updated>>

(* The connection, the flash or the header check fails. *)
StreamRomFails ==
  /\ pc = "stream_rom"
  /\ PartlyStreamed
  /\ UNCHANGED slot
  /\ GiveUp

(* gb_storage_delete *)
BeginDelete(i) ==
  /\ Idle
  /\ unmap_selected
  /\ updated' = WithoutRow(s_entries, i)
  /\ pc' = "erase_slot"
  /\ UNCHANGED <<flashVars, ramVars>>

(* gb_storage_rename; asking for the name the row has changes nothing. *)
BeginRename(i, name) ==
  /\ Idle
  /\ valid_name(s_entries, name, i)
  /\ s_entries[i].name # name
  /\ unmap_selected
  /\ updated' = WithName(s_entries, i, name)
  /\ pc' = "erase_slot"
  /\ UNCHANGED <<flashVars, ramVars>>

(***************************************************************************)
(* publish_directory                                                       *)
(***************************************************************************)

(* Mutant: RAM is believed while the write is in progress. *)
EraseSlot_StillReady ==
  /\ pc = "erase_slot"
  /\ slot' = [slot EXCEPT ![Target] = Torn]
  /\ pc' = "write_slot"
  /\ UNCHANGED <<legacy, sector, ramVars, selVars, updated>>

(* The slot is blank; from here on RAM is not believed until the new       *)
(* directory has been read back.                                           *)
EraseSlot ==
  /\ pc = "erase_slot"
  /\ slot' = [slot EXCEPT ![Target] = Torn]
  /\ s_needs_reload' = TRUE
  /\ s_catalog_trusted' = FALSE
  /\ pc' = "write_slot"
  /\ UNCHANGED <<legacy, sector, s_entries, s_directory_slot, s_generation,
                 selVars, updated>>

(* No memory for the buffers, or the erase reports an error. *)
EraseSlotFails ==
  /\ pc = "erase_slot"
  /\ SlotPartlyErased
  /\ UNCHANGED sector
  /\ GiveUp

(* The write reports success, which the readback will examine. *)
WriteSlot ==
  /\ pc = "write_slot"
  /\ SlotPartlyWritten
  /\ pc' = "verify_slot"
  /\ UNCHANGED <<legacy, sector, ramVars, selVars, updated>>

(* The write reports an error, whatever reached the flash. *)
WriteSlotFails ==
  /\ pc = "write_slot"
  /\ SlotPartlyWritten
  /\ UNCHANGED sector
  /\ GiveUp

VerifySlot ==
  /\ pc = "verify_slot"
  /\ Readable(Target)
  /\ slot[Target] = Directory(NextGeneration, updated)
  /\ s_entries' = updated
  /\ s_generation' = NextGeneration
  /\ s_directory_slot' = Target
  /\ s_catalog_trusted' = TRUE
  /\ s_needs_reload' = FALSE
  /\ pc' = "idle"
  /\ updated' = <<>>
  /\ UNCHANGED <<flashVars, selVars>>

(* The readback fails or differs. *)
VerifySlotFails ==
  /\ pc = "verify_slot"
  /\ UNCHANGED <<slot, sector>>
  /\ GiveUp

-----------------------------------------------------------------------------
(* What power loss leaves of the flash call it interrupts. *)
Interrupted ==
  \/ pc = "erase_rom" /\ PartlyErased /\ UNCHANGED slot
  \/ pc = "stream_rom" /\ PartlyStreamed /\ UNCHANGED slot
  \/ pc = "erase_slot" /\ SlotPartlyErased /\ UNCHANGED sector
  \/ pc = "write_slot" /\ SlotPartlyWritten /\ UNCHANGED sector
  \/ pc \in {"idle", "verify_slot"} /\ UNCHANGED <<slot, sector>>

(* The static variables are zero until the next gb_storage_init. *)
PowerCut ==
  /\ Interrupted
  /\ s_entries' = <<>>
  /\ s_directory_slot' = -1
  /\ s_generation' = 0
  /\ s_catalog_trusted' = FALSE
  /\ s_needs_reload' = FALSE
  /\ unmap_selected
  /\ pc' = "off"
  /\ updated' = <<>>
  /\ UNCHANGED legacy

Next ==
  \/ BootFromDirectory
  \/ BootFromLegacy
  \/ BootEmpty
  \/ BootReadError
  \/ BootBlocked
  \/ \E i \in DOMAIN s_entries : Open(i)
  \/ \E name \in Names, rom \in Roms : BeginUpload(name, rom)
  \/ EraseRom
  \/ EraseRomFails
  \/ StreamRom
  \/ StreamRomFails
  \/ \E i \in DOMAIN s_entries : BeginDelete(i)
  \/ \E i \in DOMAIN s_entries, name \in Names : BeginRename(i, name)
  \/ EraseSlot
  \/ EraseSlotFails
  \/ WriteSlot
  \/ WriteSlotFails
  \/ VerifySlot
  \/ VerifySlotFails
  \/ PowerCut

Spec == Init /\ [][Next]_vars

-----------------------------------------------------------------------------
(***************************************************************************)
(* Properties                                                              *)
(***************************************************************************)

(* Types of the flash, the static variables and the operation in progress. *)
TypeOK ==
  /\ slot \in [Slots -> [intact : BOOLEAN, generation : 0 .. GenMod - 1,
                          entries : Seq(Entry)]]
  /\ legacy \in Seq(Entry)
  /\ sector \in [DataSectors -> Roms \cup {Erased}]
  /\ s_entries \in Seq(Entry)
  /\ s_directory_slot \in {-1, 0, 1}
  /\ s_generation \in 0 .. GenMod - 1
  /\ s_catalog_trusted \in BOOLEAN
  /\ s_needs_reload \in BOOLEAN
  /\ s_selected \in Nat
  /\ opened \in Roms \cup {Erased}
  /\ pc \in {"off", "idle", "erase_rom", "stream_rom", "erase_slot",
             "write_slot", "verify_slot"}
  /\ updated \in Seq(Entry)

(* Whenever gb_storage does not ask for a reload, the table in RAM is the  *)
(* one a restart would find: an answer given to the user, a refused        *)
(* operation included, is never contradicted by the next power-on.  This   *)
(* is what setting s_needs_reload before the directory write, and refusing *)
(* to choose a slot when the other cannot be read, are for.                *)
ReadyViewIsDurable ==
  pc # "off" /\ ~s_needs_reload => s_entries = Durable

(* gb_saves_prune_orphans deletes the save files of every ROM absent from  *)
(* a trusted catalogue, so a trusted catalogue is never stale.             *)
TrustedIsDurable == s_catalog_trusted => s_entries = Durable

(* No operation and no interruption of one, whichever flash call it falls  *)
(* in, damages the bytes of a ROM the next restart will list: uploads      *)
(* erase free sectors only, and a directory is published after its bytes.  *)
DurableRomsIntact == \A i \in DOMAIN Durable : Intact(Durable[i])

(* The slot publish_directory erases is never the one a restart would      *)
(* choose, and two intact slots differ by one generation, so that the      *)
(* signed comparison names the newest even when the counter wraps.         *)
SlotsInOrder ==
  Readable(0) /\ Readable(1) =>
    \/ slot[0].generation = Successor(slot[1].generation, GenMod)
    \/ slot[1].generation = Successor(slot[0].generation, GenMod)

(* A directory that reaches flash is one that gb_storage_init accepts: the *)
(* tables built by upload, delete and rename have distinct names and       *)
(* disjoint rows inside the data area.                                     *)
WrittenIsAcceptable ==
  \A s \in Slots : slot[s].intact => entries_valid(slot[s].entries)

(* s_selected points into s_entries, whose rows move: while a ROM is open  *)
(* the row under the pointer is still the ROM that was opened and its      *)
(* bytes are untouched.                                                    *)
SelectedIsOpened ==
  s_selected # 0 =>
    /\ s_selected \in DOMAIN s_entries
    /\ s_entries[s_selected].rom = opened
    /\ Intact(s_entries[s_selected])

(***************************************************************************)
(* The inductive invariant                                                 *)
(***************************************************************************)

Publishing == pc \in {"write_slot", "verify_slot"}

(* The static variables describe the flash: always, except without power   *)
(* and after a reload has been asked for outside publish_directory.        *)
Synchronised == pc # "off" /\ (s_needs_reload => Publishing)

(* The current slot holds what RAM says; without one RAM holds the legacy  *)
(* table.                                                                  *)
CurrentSlotIsRam ==
  Synchronised =>
    \/ /\ s_directory_slot = -1
       /\ s_generation = 0
       /\ s_entries = LegacyTable
       /\ ~slot[1].intact
    \/ /\ s_directory_slot \in Slots
       /\ slot[s_directory_slot] = Directory(s_generation, s_entries)

(* The other slot holds nothing, or the generation before, or, once it has *)
(* been written, the generation after.                                     *)
OtherSlotIsNeighbour ==
  Synchronised =>
    \/ ~slot[Target].intact
    \/ /\ ~Publishing
       /\ s_directory_slot # -1
       /\ s_generation = Successor(slot[Target].generation, GenMod)
    \/ /\ pc = "verify_slot"
       /\ slot[Target] = Directory(NextGeneration, updated)

(* What the operation in progress is going to publish. *)
PendingTable ==
  /\ pc \notin {"off", "idle"} => entries_valid(updated)
  /\ pc \in {"erase_rom", "stream_rom"} =>
       /\ Len(updated) = Len(s_entries) + 1
       /\ \A i \in DOMAIN s_entries : updated[i] = s_entries[i]
  /\ pc \in {"erase_slot", "write_slot", "verify_slot"} =>
       \A i \in DOMAIN updated : Intact(updated[i])

(* The table differs from the one in RAM by the one edit the user asked for. *)
IsUpload(roms) ==
  /\ Len(s_entries) < MaxRoms
  /\ \E name \in Names, rom \in roms, offset \in DataSectors :
       /\ valid_name(s_entries, name, 0)
       /\ updated = WithRow(s_entries, name, rom, offset)

IsDelete == \E i \in DOMAIN s_entries : updated = WithoutRow(s_entries, i)

IsRename ==
  \E i \in DOMAIN s_entries, name \in Names :
    /\ valid_name(s_entries, name, 0)
    /\ updated = WithName(s_entries, i, name)

PendingEdit ==
  /\ pc \in {"erase_rom", "stream_rom"} => IsUpload(Roms)
  /\ pc = "erase_slot" => IsUpload(Playable) \/ IsDelete \/ IsRename

Flags ==
  /\ pc = "off" \/ s_needs_reload => ~s_catalog_trusted
  /\ pc # "idle" \/ s_needs_reload => s_selected = 0
  /\ pc = "off" => ~s_needs_reload
  /\ Publishing => s_needs_reload
  /\ pc \in {"erase_rom", "stream_rom", "erase_slot"} => ~s_needs_reload

(* Everything a step of gb_storage.c relies on from the step before: how   *)
(* RAM, the two slots, the ROM bytes and the operation in progress are     *)
(* related between any two flash calls.                                    *)
IInv ==
  /\ TypeOK
  /\ WrittenIsAcceptable
  /\ SlotsInOrder
  /\ CurrentSlotIsRam
  /\ OtherSlotIsNeighbour
  /\ PendingTable
  /\ PendingEdit
  /\ Flags
  /\ DurableRomsIntact
  /\ SelectedIsOpened

(***************************************************************************)
(* Catalog implements AtomicCatalog.  A game of the durable list carries   *)
(* the ROM that is really on flash under its row, not the one the row      *)
(* names.                                                                  *)
(***************************************************************************)
Games(es) == [i \in DOMAIN es |-> [name |-> es[i].name, rom |-> es[i].rom]]

GamesOnFlash(es) ==
  [i \in DOMAIN es |->
     [name |-> es[i].name, rom |-> IF Intact(es[i]) THEN es[i].rom ELSE Erased]]

Status ==
  CASE pc = "off" -> "off"
    [] pc = "write_slot" -> "publishing"
    [] pc = "verify_slot" /\ slot[Target].intact -> "written"
    [] pc = "verify_slot" /\ ~slot[Target].intact -> "locked"
    [] OTHER -> IF s_needs_reload THEN "locked" ELSE "ready"

Committed == GamesOnFlash(Durable)

View == Games(s_entries)

Goal == IF Status \in {"publishing", "written"} THEN Games(updated) ELSE <<>>

Edition == IF Chosen(Slots) = -1 THEN 0 ELSE slot[Chosen(Slots)].generation

Atomic == INSTANCE AtomicCatalog WITH
  committed <- Committed,
  view <- View,
  goal <- Goal,
  status <- Status,
  edition <- Edition,
  trusted <- s_catalog_trusted

(* The durable list changes by whole edits requested on a list shown to    *)
(* the user, is believed only when read back, and after an unconfirmed     *)
(* write nothing is done before a restart.                                 *)
ImplementsAtomic == Atomic!Spec
=============================================================================
