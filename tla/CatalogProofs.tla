---------------------------- MODULE CatalogProofs ----------------------------
(***************************************************************************)
(* Proofs about Catalog for every flash size, table size, set of ROMs and  *)
(* generation width.  The argument is the inductive invariant IInv of      *)
(* Catalog; the sections below prove what the operators of RomTable        *)
(* preserve, that Init and every step keep IInv, and what follows from it. *)
(***************************************************************************)
EXTENDS Catalog, TLAPS

(* The successor of a counter value is a counter value, is newer than it   *)
(* and not older, also where the counter wraps: this is what the signed    *)
(* comparison of gb_storage_init relies on.                                *)
LEMMA SuccessorIsNewer ==
  ASSUME NEW m \in Nat, m >= 4, NEW a \in 0 .. m - 1
  PROVE  /\ Successor(a, m) \in 0 .. m - 1
         /\ Newer(Successor(a, m), a, m)
         /\ ~Newer(a, Successor(a, m), m)
<1>1. CASE a = m - 1
  BY <1>1 DEF Newer, Successor
<1>2. CASE a # m - 1
  BY <1>2 DEF Newer, Successor
<1> QED BY <1>1, <1>2

-----------------------------------------------------------------------------
(***************************************************************************)
(* What the three mutating operations build                                *)
(***************************************************************************)

(* Every row of an acceptable ROM size has bytes.                          *)
LEMMA SizeIsPositive ==
  ASSUME NEW e \in Entry
  PROVE  SizeOf(e) \in Nat \ {0}
BY RomTableAssumption DEF SizeOf, Entry

(* Sectors of a row inside the data area belong to it and to no row apart  *)
(* from it.                                                                *)
LEMMA ApartRowsShareNothing ==
  ASSUME NEW e \in Entry, NEW f \in Entry, InRange(e), Apart(e, f)
  PROVE  \A s \in Extent(e) : s \in DataSectors /\ s \notin Extent(f)
<1>1. /\ e.offset \in Nat /\ f.offset \in Nat
      /\ SizeOf(e) \in Nat /\ SizeOf(f) \in Nat
      /\ DataEnd \in Nat
  BY SizeIsPositive, RomTableAssumption DEF Entry
<1> QED BY <1>1 DEF Apart, InRange, Extent, DataSectors

(* gb_storage_upload: a row in a free run, with a fresh name, keeps the    *)
(* table acceptable.                                                       *)
LEMMA WithRowIsValid ==
  ASSUME NEW es \in Seq(Entry), entries_valid(es), Len(es) < MaxRoms,
         NEW name \in Names, NEW rom \in Roms, NEW offset \in Nat,
         valid_name(es, name, 0),
         RomSectors[rom] >= 2 * BankSectors,
         RomSectors[rom] % BankSectors = 0,
         IsFree(es, offset, RomSectors[rom])
  PROVE  /\ WithRow(es, name, rom, offset) \in Seq(Entry)
         /\ entries_valid(WithRow(es, name, rom, offset))
         /\ Len(WithRow(es, name, rom, offset)) = Len(es) + 1
         /\ \A i \in DOMAIN es : WithRow(es, name, rom, offset)[i] = es[i]
<1> DEFINE e == [name |-> name, rom |-> rom, offset |-> offset]
           new == Append(es, e)
<1>1. e \in Entry /\ SizeOf(e) = RomSectors[rom] /\ SizeOf(e) \in Nat \ {0}
  BY SizeIsPositive DEF Entry, SizeOf
<1>2. /\ new \in Seq(Entry) /\ Len(new) = Len(es) + 1
      /\ DOMAIN new = 1 .. Len(es) + 1
      /\ DOMAIN es = 1 .. Len(es)
      /\ \A i \in DOMAIN es : new[i] = es[i]
      /\ new[Len(es) + 1] = e
  BY <1>1
<1>3. InRange(e)
  BY <1>1 DEF InRange, IsFree
<1>4. \A i \in DOMAIN es : e.name # es[i].name /\ Apart(e, es[i]) /\ Apart(es[i], e)
  <2> TAKE i \in DOMAIN es
  <2>1. es[i] \in Entry /\ i # 0
    BY <1>2
  <2>2. e.name # es[i].name
    BY <2>1 DEF valid_name
  <2> QED BY <1>1, <2>1, <2>2 DEF IsFree, Apart
<1>5. \A i \in DOMAIN new : InRange(new[i])
  BY <1>2, <1>3 DEF entries_valid
<1>6. ASSUME NEW i \in DOMAIN new, NEW j \in DOMAIN new, i # j
      PROVE  new[i].name # new[j].name /\ Apart(new[i], new[j])
  <2>1. CASE i \in DOMAIN es /\ j \in DOMAIN es
    BY <2>1, <1>2, <1>6 DEF entries_valid
  <2>2. CASE i = Len(es) + 1
    BY <2>2, <1>2, <1>4, <1>6
  <2>3. CASE j = Len(es) + 1
    BY <2>3, <1>2, <1>4, <1>6
  <2> QED BY <2>1, <2>2, <2>3, <1>2
<1>7. Len(new) <= MaxRoms
  BY <1>2, RomTableAssumption
<1> QED BY <1>2, <1>5, <1>6, <1>7 DEF WithRow, entries_valid

(* A sequence without one of its elements: the elements after it move up.  *)
LEMMA RemoveAtElements ==
  ASSUME NEW S, NEW seq \in Seq(S), NEW i \in DOMAIN seq
  PROVE  /\ RemoveAt(seq, i) \in Seq(S)
         /\ Len(RemoveAt(seq, i)) = Len(seq) - 1
         /\ \A j \in 1 .. Len(seq) - 1 :
              RemoveAt(seq, i)[j] = seq[IF j < i THEN j ELSE j + 1]
<1> DEFINE head == SubSeq(seq, 1, i - 1)
           tail == SubSeq(seq, i + 1, Len(seq))
<1>1. Len(seq) \in Nat /\ i \in 1 .. Len(seq)
  OBVIOUS
<1>2. /\ head \in Seq(S) /\ Len(head) = i - 1
      /\ \A j \in 1 .. i - 1 : head[j] = seq[j]
  BY <1>1
<1>3. /\ tail \in Seq(S) /\ Len(tail) = Len(seq) - i
      /\ \A j \in 1 .. Len(seq) - i : tail[j] = seq[i + j]
  BY <1>1
<1> HIDE DEF head, tail
<1>4. /\ head \o tail \in Seq(S) /\ Len(head \o tail) = Len(seq) - 1
  BY <1>1, <1>2, <1>3
<1>5. ASSUME NEW j \in 1 .. Len(seq) - 1
      PROVE  (head \o tail)[j] = seq[IF j < i THEN j ELSE j + 1]
  <2>1. CASE j < i
    BY <2>1, <1>1, <1>2, <1>3
  <2>2. CASE ~(j < i)
    <3>1. (head \o tail)[j] = tail[j - (i - 1)]
      BY <2>2, <1>1, <1>2, <1>3
    <3>2. j - (i - 1) \in 1 .. Len(seq) - i /\ i + (j - (i - 1)) = j + 1
      BY <2>2, <1>1
    <3> QED BY <2>2, <3>1, <3>2, <1>3
  <2> QED BY <2>1, <2>2
<1> QED BY <1>4, <1>5 DEF RemoveAt, head, tail

(* gb_storage_delete: every row of the new table is a row of the old one,  *)
(* and different rows stay different.                                      *)
LEMMA WithoutRowRows ==
  ASSUME NEW es \in Seq(Entry), NEW i \in DOMAIN es
  PROVE  /\ WithoutRow(es, i) \in Seq(Entry)
         /\ Len(WithoutRow(es, i)) = Len(es) - 1
         /\ \A j \in 1 .. Len(es) - 1 :
              WithoutRow(es, i)[j] = es[IF j < i THEN j ELSE j + 1]
BY RemoveAtElements DEF WithoutRow

(* gb_storage_delete: a table stays acceptable without one of its rows.    *)
LEMMA WithoutRowIsValid ==
  ASSUME NEW es \in Seq(Entry), entries_valid(es), NEW i \in DOMAIN es
  PROVE  entries_valid(WithoutRow(es, i))
<1> DEFINE new == WithoutRow(es, i)
           from(j) == IF j < i THEN j ELSE j + 1
<1>1. /\ new \in Seq(Entry) /\ Len(new) = Len(es) - 1
      /\ \A j \in 1 .. Len(es) - 1 : new[j] = es[from(j)]
  BY WithoutRowRows
<1> HIDE DEF new
<1>2. /\ i \in 1 .. Len(es) /\ Len(es) \in Nat /\ DOMAIN es = 1 .. Len(es)
      /\ DOMAIN new = 1 .. Len(es) - 1
  BY <1>1
<1>3. \A j \in DOMAIN new : from(j) \in DOMAIN es
  BY <1>2
<1>4. \A j, k \in DOMAIN new : j # k => from(j) # from(k)
  BY <1>2
<1>5. Len(new) <= MaxRoms
  BY <1>1, <1>2, RomTableAssumption DEF entries_valid
<1>6. \A j \in DOMAIN new : InRange(new[j])
  BY <1>1, <1>2, <1>3 DEF entries_valid
<1>7. ASSUME NEW j \in DOMAIN new, NEW k \in DOMAIN new, j # k
      PROVE  new[j].name # new[k].name /\ Apart(new[j], new[k])
  BY <1>1, <1>2, <1>3, <1>4, <1>7 DEF entries_valid
<1> QED BY <1>5, <1>6, <1>7 DEF entries_valid, new

(* gb_storage_rename: only the name of one row changes.                    *)
LEMMA WithNameIsValid ==
  ASSUME NEW es \in Seq(Entry), entries_valid(es), NEW i \in DOMAIN es,
         NEW name \in Names, valid_name(es, name, i)
  PROVE  /\ WithName(es, i, name) \in Seq(Entry)
         /\ entries_valid(WithName(es, i, name))
         /\ Len(WithName(es, i, name)) = Len(es)
         /\ \A j \in DOMAIN es :
              /\ WithName(es, i, name)[j].rom = es[j].rom
              /\ WithName(es, i, name)[j].offset = es[j].offset
<1> DEFINE new == WithName(es, i, name)
<1>1. /\ new \in Seq(Entry) /\ Len(new) = Len(es)
      /\ DOMAIN new = DOMAIN es
      /\ new[i].name = name
      /\ \A j \in DOMAIN es : j # i => new[j] = es[j]
      /\ \A j \in DOMAIN es :
           new[j].rom = es[j].rom /\ new[j].offset = es[j].offset
  <2> DEFINE row == [es[i] EXCEPT !.name = name]
  <2>1. es \in [1 .. Len(es) -> Entry] /\ Len(es) \in Nat
    OBVIOUS
  <2>2. row \in Entry /\ row.name = name /\ row.rom = es[i].rom
        /\ row.offset = es[i].offset
    BY <2>1 DEF Entry
  <2>3. new = [es EXCEPT ![i] = row]
    BY DEF WithName
  <2> HIDE DEF row, new
  <2>4. new \in [1 .. Len(es) -> Entry]
    BY <2>1, <2>2, <2>3
  <2>5. new \in Seq(Entry) /\ Len(new) = Len(es)
    BY <2>1, <2>4
  <2> QED BY <2>1, <2>2, <2>3, <2>4, <2>5
<1> HIDE DEF new
<1>2. \A j \in DOMAIN new : InRange(new[j])
  BY <1>1 DEF entries_valid, InRange, SizeOf
<1>3. ASSUME NEW j \in DOMAIN new, NEW k \in DOMAIN new, j # k
      PROVE  new[j].name # new[k].name /\ Apart(new[j], new[k])
  <2>1. Apart(new[j], new[k])
    BY <1>1, <1>3 DEF entries_valid, Apart, SizeOf
  <2>2. new[j].name # new[k].name
    BY <1>1, <1>3 DEF entries_valid, valid_name
  <2> QED BY <2>1, <2>2
<1> QED BY <1>1, <1>2, <1>3 DEF entries_valid, new

-----------------------------------------------------------------------------
(***************************************************************************)
(* Type correctness                                                        *)
(***************************************************************************)

(* The empty table, which a device without any directory shows.            *)
LEMMA EmptyTable == <<>> \in Seq(Entry) /\ entries_valid(<<>>)
<1>1. <<>> \in Seq(Entry) /\ Len(<<>>) = 0 /\ DOMAIN <<>> = {}
  OBVIOUS
<1> QED BY <1>1, RomTableAssumption DEF entries_valid

(* Types hold before the first power-on.                                   *)
LEMMA TypeInit == Init => TypeOK
<1> SUFFICES ASSUME Init PROVE TypeOK
  OBVIOUS
<1>1. legacy \in Seq(Entry) /\ LegacyTable \in Seq(Entry)
  BY CatalogAssumption DEF Init, LegacyTable
<1>2. sector \in [DataSectors -> Roms \cup {Erased}]
  <2>1. ASSUME NEW s \in DataSectors,
               { i \in DOMAIN LegacyTable : s \in Extent(LegacyTable[i]) } # {}
        PROVE  LegacyTable[CHOOSE i \in { i \in DOMAIN LegacyTable :
                                            s \in Extent(LegacyTable[i]) } : TRUE].rom
                 \in Roms
    <3> DEFINE rows == { i \in DOMAIN LegacyTable : s \in Extent(LegacyTable[i]) }
    <3>1. PICK i \in rows : TRUE
      BY <2>1
    <3>2. (CHOOSE j \in rows : TRUE) \in rows
      BY <3>1, Zenon
    <3>3. (CHOOSE j \in rows : TRUE) \in DOMAIN LegacyTable
      BY <3>2
    <3> HIDE DEF rows
    <3>4. LegacyTable[CHOOSE j \in rows : TRUE] \in Entry
      BY <3>3, <1>1
    <3>5. LegacyTable[CHOOSE j \in rows : TRUE].rom \in Roms
      BY <3>4 DEF Entry
    <3> QED BY <3>5, Zenon DEF rows
  <2> QED BY <2>1 DEF Init
<1>3. slot \in [Slots -> [intact : BOOLEAN, generation : 0 .. GenMod - 1,
                         entries : Seq(Entry)]]
  BY EmptyTable, CatalogAssumption DEF Init, Torn
<1>4. 0 \in 0 .. GenMod - 1
  BY CatalogAssumption
<1> QED BY <1>1, <1>2, <1>3, <1>4, EmptyTable DEF Init, TypeOK

(* While RAM and flash are synchronised the table in RAM is acceptable.    *)
LEMMA ReadyTableIsValid ==
  ASSUME IInv, Synchronised
  PROVE  entries_valid(s_entries)
<1>1. entries_valid(LegacyTable)
  BY EmptyTable DEF LegacyTable
<1>2. ASSUME s_directory_slot \in Slots,
             slot[s_directory_slot] = Directory(s_generation, s_entries)
      PROVE  entries_valid(s_entries)
  BY <1>2 DEF IInv, WrittenIsAcceptable, Directory
<1> QED BY <1>1, <1>2 DEF IInv, CurrentSlotIsRam

(* Types are preserved; that a published table is one relies on IInv.      *)
LEMMA TypeStep == IInv /\ [Next]_vars => TypeOK'
<1> SUFFICES ASSUME IInv, [Next]_vars PROVE TypeOK'
  OBVIOUS
<1> USE DEF TypeOK, flashVars, ramVars, selVars, Slots
<1>0. TypeOK
  BY DEF IInv
<1>1. Torn \in [intact : BOOLEAN, generation : 0 .. GenMod - 1, entries : Seq(Entry)]
  BY CatalogAssumption DEF Torn
<1>2. NextGeneration \in 0 .. GenMod - 1
  BY <1>0, SuccessorIsNewer, CatalogAssumption DEF NextGeneration
<1>3. Target \in Slots
  BY DEF Target
<1>4. ASSUME NEW es \in Seq(Entry), NEW g \in 0 .. GenMod - 1
      PROVE  Directory(g, es) \in [intact : BOOLEAN, generation : 0 .. GenMod - 1,
                                   entries : Seq(Entry)]
  BY DEF Directory
<1>5. ASSUME NEW reads PROVE Chosen(reads) \in {-1, 0, 1}
  BY DEF Chosen
<1>6. pc \in {"erase_rom", "stream_rom"} => Incoming \in Entry
  BY <1>0 DEF IInv, PendingTable, Incoming
<1>7. SlotPartlyErased \/ SlotPartlyWritten \/ UNCHANGED slot
        => slot' \in [Slots -> [intact : BOOLEAN, generation : 0 .. GenMod - 1,
                               entries : Seq(Entry)]]
  <2>1. Directory(NextGeneration, updated) \in
          [intact : BOOLEAN, generation : 0 .. GenMod - 1, entries : Seq(Entry)]
    BY <1>0, <1>2, <1>4
  <2> QED BY <1>0, <1>1, <1>3, <2>1 DEF SlotPartlyErased, SlotPartlyWritten
<1>8. ASSUME pc \in {"erase_rom", "stream_rom"}, PartlyErased \/ PartlyStreamed
      PROVE  sector' \in [DataSectors -> Roms \cup {Erased}]
  BY <1>0, <1>6, <1>8 DEF PartlyErased, PartlyStreamed, Entry
<1>9. GiveUp /\ slot' \in [Slots -> [intact : BOOLEAN, generation : 0 .. GenMod - 1,
                                   entries : Seq(Entry)]]
             /\ sector' \in [DataSectors -> Roms \cup {Erased}] => TypeOK'
  BY <1>0, EmptyTable DEF GiveUp
<1>10. ASSUME NEW es \in Seq(Entry), NEW trusted \in BOOLEAN, NEW blocked \in BOOLEAN,
              NEW s \in {-1, 0, 1}, TakeSlot(s), Boot(es, trusted, blocked)
       PROVE  TypeOK'
  <2>1. s_generation' \in 0 .. GenMod - 1
    BY <1>0, <1>10, CatalogAssumption DEF TakeSlot
  <2> QED BY <1>0, <1>10, <2>1 DEF TakeSlot, Boot
<1>11. BootFromDirectory => TypeOK'
  BY <1>0, <1>5, <1>10 DEF BootFromDirectory
<1>12. BootFromLegacy => TypeOK'
  BY <1>0, <1>10 DEF BootFromLegacy
<1>13. BootEmpty \/ BootReadError \/ BootBlocked => TypeOK'
  BY <1>0, <1>5, <1>10, EmptyTable DEF BootEmpty, BootReadError, BootBlocked
<1>14. ASSUME NEW i \in DOMAIN s_entries, Open(i) PROVE TypeOK'
  <2>1. s_entries[i] \in Entry /\ i \in Nat
    BY <1>0
  <2>2. s_entries[i].rom \in Roms
    BY <2>1 DEF Entry
  <2> QED BY <1>0, <1>14, <2>1, <2>2 DEF Open
<1>15. ASSUME NEW name \in Names, NEW rom \in Roms, BeginUpload(name, rom)
       PROVE  TypeOK'
  <2>1. PICK offset \in DataSectors : updated' = WithRow(s_entries, name, rom, offset)
    BY <1>15 DEF BeginUpload
  <2>2. [name |-> name, rom |-> rom, offset |-> offset] \in Entry
    BY DEF Entry, DataSectors
  <2>3. updated' \in Seq(Entry)
    BY <1>0, <2>1, <2>2 DEF WithRow
  <2> QED BY <1>0, <1>15, <2>3 DEF BeginUpload, unmap_selected
<1>16. EraseRom \/ StreamRom => TypeOK'
  BY <1>0, <1>6 DEF EraseRom, StreamRom, Entry
<1>17. EraseRomFails \/ StreamRomFails => TypeOK'
  BY <1>7, <1>8, <1>9 DEF EraseRomFails, StreamRomFails
<1>18. ASSUME NEW i \in DOMAIN s_entries, BeginDelete(i) PROVE TypeOK'
  <2>1. updated' \in Seq(Entry)
    BY <1>0, <1>18, WithoutRowRows DEF BeginDelete
  <2> QED BY <1>0, <1>18, <2>1 DEF BeginDelete, unmap_selected
<1>19. ASSUME NEW i \in DOMAIN s_entries, NEW name \in Names, BeginRename(i, name)
       PROVE  TypeOK'
  <2>1. entries_valid(s_entries)
    BY <1>19, ReadyTableIsValid DEF BeginRename, Idle, Synchronised
  <2>2. updated' \in Seq(Entry)
    BY <1>0, <1>19, <2>1, WithNameIsValid DEF BeginRename
  <2> QED BY <1>0, <1>19, <2>2 DEF BeginRename, unmap_selected
<1>20. EraseSlot => TypeOK'
  BY <1>0, <1>1, <1>3 DEF EraseSlot
<1>21. EraseSlotFails \/ WriteSlotFails \/ VerifySlotFails => TypeOK'
  BY <1>0, <1>7, <1>9 DEF EraseSlotFails, WriteSlotFails, VerifySlotFails
<1>22. WriteSlot => TypeOK'
  BY <1>0, <1>7 DEF WriteSlot
<1>23. VerifySlot => TypeOK'
  BY <1>0, <1>2, <1>3, EmptyTable DEF VerifySlot
<1>24. PowerCut => TypeOK'
  <2> SUFFICES ASSUME PowerCut PROVE TypeOK'
    OBVIOUS
  <2>1. /\ slot' \in [Slots -> [intact : BOOLEAN, generation : 0 .. GenMod - 1,
                               entries : Seq(Entry)]]
        /\ sector' \in [DataSectors -> Roms \cup {Erased}]
    BY <1>0, <1>7, <1>8 DEF PowerCut, Interrupted
  <2>2. 0 \in 0 .. GenMod - 1
    BY CatalogAssumption
  <2> QED BY <1>0, <2>1, <2>2, EmptyTable DEF PowerCut, unmap_selected
<1>25. UNCHANGED vars => TypeOK'
  BY <1>0 DEF vars
<1> QED BY <1>11, <1>12, <1>13, <1>14, <1>15, <1>16, <1>17, <1>18, <1>19, <1>20,
           <1>21, <1>22, <1>23, <1>24, <1>25 DEF Next

-----------------------------------------------------------------------------
(***************************************************************************)
(* Which directory a restart would choose                                  *)
(***************************************************************************)

(* With acceptable slots the scan looks at digests and generations only.   *)
LEMMA ReadableIsIntact ==
  ASSUME WrittenIsAcceptable, NEW s \in Slots
  PROVE  Readable(s) <=> slot[s].intact
BY DEF WrittenIsAcceptable, Readable

(* Until the new directory has been written, the catalogue on flash is the *)
(* table in RAM.                                                           *)
LEMMA DurableIsRam ==
  ASSUME IInv, Synchronised, ~(pc = "verify_slot" /\ slot[Target].intact)
  PROVE  Chosen(Slots) = s_directory_slot /\ Durable = s_entries
<1> USE DEF Slots
<1>1. TypeOK /\ WrittenIsAcceptable /\ CurrentSlotIsRam /\ OtherSlotIsNeighbour
  BY DEF IInv
<1>2. \A s \in Slots : Readable(s) <=> slot[s].intact
  BY <1>1, ReadableIsIntact
<1>3. pc = "verify_slot" => slot[Target] # Directory(NextGeneration, updated)
  BY DEF Directory
<1>4. CASE s_directory_slot = -1
  <2>1. /\ ~slot[0].intact /\ ~slot[1].intact
        /\ s_entries = LegacyTable
    BY <1>1, <1>3, <1>4 DEF CurrentSlotIsRam, OtherSlotIsNeighbour, Target
  <2> QED BY <1>2, <1>4, <2>1 DEF Chosen, Durable
<1>5. CASE s_directory_slot \in Slots
  <2>1. /\ slot[s_directory_slot].intact
        /\ slot[s_directory_slot].generation = s_generation
        /\ slot[s_directory_slot].entries = s_entries
        /\ Target = 1 - s_directory_slot
    BY <1>1, <1>5 DEF CurrentSlotIsRam, Target, Directory
  <2>2. CASE ~slot[Target].intact
    BY <1>2, <1>5, <2>1, <2>2 DEF Chosen, Durable
  <2>3. CASE slot[Target].intact
    <3> DEFINE g == slot[Target].generation
    <3>1. g \in 0 .. GenMod - 1 /\ s_generation = Successor(g, GenMod)
      BY <1>1, <1>3, <2>3 DEF OtherSlotIsNeighbour, TypeOK, Target
    <3>2. Newer(s_generation, g, GenMod) /\ ~Newer(g, s_generation, GenMod)
      BY <3>1, SuccessorIsNewer, CatalogAssumption
    <3> QED BY <1>2, <1>5, <2>1, <2>3, <3>2 DEF Chosen, Durable
  <2> QED BY <2>2, <2>3
<1> QED BY <1>1, <1>4, <1>5 DEF CurrentSlotIsRam

(* Once written, the new directory is the one a restart chooses.           *)
LEMMA DurableIsUpdated ==
  ASSUME IInv, pc = "verify_slot", slot[Target].intact
  PROVE  Chosen(Slots) = Target /\ Durable = updated
<1> USE DEF Slots
<1>1. TypeOK /\ WrittenIsAcceptable /\ CurrentSlotIsRam /\ OtherSlotIsNeighbour
  BY DEF IInv
<1>2. \A s \in Slots : Readable(s) <=> slot[s].intact
  BY <1>1, ReadableIsIntact
<1>3. Synchronised /\ Publishing
  BY DEF Synchronised, Publishing
<1>4. /\ slot[Target].generation = NextGeneration
      /\ slot[Target].entries = updated
  BY <1>1, <1>3 DEF OtherSlotIsNeighbour, Directory
<1>5. CASE s_directory_slot = -1
  <2>1. ~slot[1].intact /\ Target = 0
    BY <1>1, <1>3, <1>5 DEF CurrentSlotIsRam, Target
  <2> QED BY <1>2, <1>4, <2>1 DEF Chosen, Durable
<1>6. CASE s_directory_slot \in Slots
  <2>1. /\ slot[s_directory_slot].intact
        /\ slot[s_directory_slot].generation = s_generation
        /\ Target = 1 - s_directory_slot
    BY <1>1, <1>3, <1>6 DEF CurrentSlotIsRam, Target, Directory
  <2>2. /\ Newer(NextGeneration, s_generation, GenMod)
        /\ ~Newer(s_generation, NextGeneration, GenMod)
    BY <1>1, SuccessorIsNewer, CatalogAssumption DEF TypeOK, NextGeneration
  <2> QED BY <1>2, <1>4, <1>6, <2>1, <2>2 DEF Chosen, Durable
<1> QED BY <1>1, <1>3, <1>5, <1>6 DEF CurrentSlotIsRam

(* Losing the slot that is not current loses nothing.                      *)
LEMMA DurableAfterErase ==
  ASSUME IInv, Synchronised, pc # "verify_slot", UNCHANGED legacy,
         slot' = [slot EXCEPT ![Target] = Torn]
  PROVE  Durable' = s_entries /\ Edition' = s_generation
<1> USE DEF Slots
<1>1. TypeOK /\ WrittenIsAcceptable /\ CurrentSlotIsRam
  BY DEF IInv
<1>2. /\ Target \in Slots /\ ~slot'[Target].intact
      /\ \A s \in Slots : s # Target => slot'[s] = slot[s]
  BY <1>1 DEF TypeOK, Target, Torn
<1>3. \A s \in Slots : Readable(s)' <=> slot'[s].intact
  BY <1>1, <1>2 DEF WrittenIsAcceptable, Readable
<1>4. LegacyTable' = LegacyTable
  BY DEF LegacyTable
<1>5. CASE s_directory_slot = -1
  <2>1. /\ ~slot'[0].intact /\ ~slot'[1].intact
        /\ s_entries = LegacyTable /\ s_generation = 0
    BY <1>1, <1>2, <1>5 DEF CurrentSlotIsRam, Target
  <2> QED BY <1>3, <1>4, <2>1 DEF Chosen, Durable, Edition
<1>6. CASE s_directory_slot \in Slots
  <2>1. /\ slot'[s_directory_slot].intact
        /\ slot'[s_directory_slot].entries = s_entries
        /\ slot'[s_directory_slot].generation = s_generation
        /\ Target = 1 - s_directory_slot
    BY <1>1, <1>2, <1>6 DEF CurrentSlotIsRam, Target, Directory
  <2> QED BY <1>2, <1>3, <1>6, <2>1 DEF Chosen, Durable, Edition
<1> QED BY <1>1, <1>5, <1>6 DEF CurrentSlotIsRam

(* A completed write makes the new table durable.                          *)
LEMMA DurableAfterWrite ==
  ASSUME IInv, Synchronised, pc = "write_slot", UNCHANGED legacy,
         slot' = [slot EXCEPT ![Target] = Directory(NextGeneration, updated)]
  PROVE  Durable' = updated /\ Edition' = NextGeneration
<1> USE DEF Slots
<1>1. TypeOK /\ WrittenIsAcceptable /\ CurrentSlotIsRam /\ entries_valid(updated)
  BY DEF IInv, PendingTable
<1>2. /\ Target \in Slots
      /\ slot'[Target].intact
      /\ slot'[Target].entries = updated
      /\ slot'[Target].generation = NextGeneration
      /\ \A s \in Slots : s # Target => slot'[s] = slot[s]
  BY <1>1 DEF TypeOK, Target, Directory
<1>3. \A s \in Slots : Readable(s)' <=> slot'[s].intact
  BY <1>1, <1>2 DEF WrittenIsAcceptable, Readable
<1>5. CASE s_directory_slot = -1
  <2>1. ~slot'[1].intact /\ Target = 0
    BY <1>1, <1>2, <1>5 DEF CurrentSlotIsRam, Target
  <2> QED BY <1>2, <1>3, <2>1 DEF Chosen, Durable, Edition
<1>6. CASE s_directory_slot \in Slots
  <2>1. /\ slot'[s_directory_slot].generation = s_generation
        /\ Target = 1 - s_directory_slot
    BY <1>1, <1>2, <1>6 DEF CurrentSlotIsRam, Target, Directory
  <2>2. /\ Newer(NextGeneration, s_generation, GenMod)
        /\ ~Newer(s_generation, NextGeneration, GenMod)
    BY <1>1, SuccessorIsNewer, CatalogAssumption DEF TypeOK, NextGeneration
  <2> QED BY <1>2, <1>3, <1>6, <2>1, <2>2 DEF Chosen, Durable, Edition
<1> QED BY <1>1, <1>5, <1>6 DEF CurrentSlotIsRam

(* What a restart would list depends on the slots and the FGBR table only. *)
LEMMA DurableUnchanged ==
  ASSUME UNCHANGED <<slot, legacy>>
  PROVE  Durable' = Durable /\ Edition' = Edition
BY DEF Durable, Edition, Chosen, Readable, LegacyTable

-----------------------------------------------------------------------------
(***************************************************************************)
(* The flash: every step, a power cut included, leaves slots that are      *)
(* acceptable and in order, and the ROMs a restart would list intact       *)
(***************************************************************************)

FlashInv == WrittenIsAcceptable /\ SlotsInOrder /\ DurableRomsIntact

OnlyIncomingChanges ==
  /\ pc \in {"erase_rom", "stream_rom"}
  /\ UNCHANGED <<slot, legacy>>
  /\ \A s \in DataSectors : s \notin Extent(Incoming) => sector'[s] = sector[s]

OnlyTargetChanges ==
  /\ UNCHANGED <<sector, legacy>>
  /\ \/ pc = "erase_slot" /\ SlotPartlyErased
     \/ pc = "write_slot" /\ SlotPartlyWritten

(* There is no fourth way to change the flash.                             *)
LEMMA FlashEffects ==
  ASSUME IInv, [Next]_vars
  PROVE  UNCHANGED flashVars \/ OnlyIncomingChanges \/ OnlyTargetChanges
<1> USE DEF flashVars, ramVars, selVars
<1>1. pc \in {"erase_rom", "stream_rom"} => Incoming \in Entry
  BY DEF IInv, TypeOK, PendingTable, Incoming
<1>2. ASSUME Incoming \in Entry, NEW n \in 0 .. SizeOf(Incoming)
      PROVE  PrefixOfIncoming(n) \subseteq Extent(Incoming)
  BY <1>2, SizeIsPositive DEF PrefixOfIncoming, Extent, Entry
<1>3. ASSUME pc \in {"erase_rom", "stream_rom"}, UNCHANGED <<slot, legacy>>,
             PartlyErased \/ PartlyStreamed
      PROVE  OnlyIncomingChanges
  BY <1>1, <1>2, <1>3 DEF OnlyIncomingChanges, PartlyErased, PartlyStreamed
<1>4. BootFromDirectory \/ BootFromLegacy \/ BootEmpty \/ BootReadError \/ BootBlocked
        => UNCHANGED flashVars
  BY DEF BootFromDirectory, BootFromLegacy, BootEmpty, BootReadError, BootBlocked, Boot
<1>5. ASSUME NEW i, Open(i) \/ BeginDelete(i) PROVE UNCHANGED flashVars
  BY <1>5 DEF Open, BeginDelete
<1>6. ASSUME NEW x, NEW y, BeginUpload(x, y) \/ BeginRename(x, y)
      PROVE  UNCHANGED flashVars
  BY <1>6 DEF BeginUpload, BeginRename
<1>7. EraseRom \/ StreamRom => OnlyIncomingChanges
  BY DEF EraseRom, StreamRom, OnlyIncomingChanges
<1>8. EraseRomFails \/ StreamRomFails => OnlyIncomingChanges
  BY <1>3 DEF EraseRomFails, StreamRomFails, GiveUp
<1>9. EraseSlot => OnlyTargetChanges
  BY DEF EraseSlot, OnlyTargetChanges, SlotPartlyErased
<1>10. EraseSlotFails \/ WriteSlot \/ WriteSlotFails => OnlyTargetChanges
  BY DEF EraseSlotFails, WriteSlot, WriteSlotFails, GiveUp, OnlyTargetChanges
<1>11. VerifySlot \/ VerifySlotFails => UNCHANGED flashVars
  BY DEF VerifySlot, VerifySlotFails, GiveUp
<1>12. PowerCut => UNCHANGED flashVars \/ OnlyIncomingChanges \/ OnlyTargetChanges
  BY <1>3 DEF PowerCut, Interrupted, OnlyTargetChanges
<1>13. UNCHANGED vars => UNCHANGED flashVars
  BY DEF vars
<1> QED BY <1>4, <1>5, <1>6, <1>7, <1>8, <1>9, <1>10, <1>11, <1>12, <1>13 DEF Next

(* The rows a restart would list stay clear of an upload in progress.      *)
LEMMA IncomingIsApart ==
  ASSUME IInv, pc \in {"erase_rom", "stream_rom"}
  PROVE  /\ Durable = s_entries
         /\ entries_valid(s_entries)
         /\ \A i \in DOMAIN s_entries : Apart(s_entries[i], Incoming)
         /\ Incoming \in Entry
         /\ InRange(Incoming)
<1>1. Synchronised
  BY DEF IInv, Flags, Synchronised
<1>2. Durable = s_entries /\ entries_valid(s_entries)
  BY <1>1, DurableIsRam, ReadyTableIsValid
<1>3. /\ entries_valid(updated)
      /\ updated \in Seq(Entry) /\ s_entries \in Seq(Entry)
      /\ Len(updated) = Len(s_entries) + 1
      /\ \A i \in DOMAIN s_entries : updated[i] = s_entries[i]
  BY DEF IInv, PendingTable, TypeOK
<1>4. Len(updated) \in DOMAIN updated
  BY <1>3
<1>5. ASSUME NEW i \in DOMAIN s_entries
      PROVE  Apart(s_entries[i], Incoming)
  <2>1. i \in DOMAIN updated /\ i # Len(updated) /\ updated[i] = s_entries[i]
    BY <1>3
  <2> QED BY <1>3, <1>4, <2>1 DEF entries_valid, Incoming
<1> QED BY <1>2, <1>3, <1>4, <1>5 DEF entries_valid, Incoming

(* No flash call, finished, failed or interrupted, damages a listed ROM,   *)
(* puts the two slots out of order or writes an unacceptable directory.    *)
LEMMA FlashStep == IInv /\ [Next]_vars => FlashInv'
<1> SUFFICES ASSUME IInv, [Next]_vars PROVE FlashInv'
  OBVIOUS
<1>1. FlashInv /\ TypeOK
  BY DEF IInv, FlashInv
<1>2. CASE UNCHANGED flashVars
  <2>1. Durable' = Durable
    BY <1>2, DurableUnchanged DEF flashVars
  <2>2. WrittenIsAcceptable' /\ SlotsInOrder'
    BY <1>1, <1>2 DEF flashVars, FlashInv, WrittenIsAcceptable, SlotsInOrder, Readable
  <2> QED BY <1>1, <1>2, <2>1, <2>2 DEF flashVars, FlashInv, DurableRomsIntact, Intact
<1>3. CASE OnlyIncomingChanges
  <2>1. Durable' = Durable
    BY <1>3, DurableUnchanged DEF OnlyIncomingChanges
  <2>2. WrittenIsAcceptable' /\ SlotsInOrder'
    BY <1>1, <1>3 DEF OnlyIncomingChanges, FlashInv, WrittenIsAcceptable, SlotsInOrder, Readable
  <2>3. ASSUME NEW i \in DOMAIN Durable
        PROVE  \A s \in Extent(Durable[i]) : sector'[s] = Durable[i].rom
    <3>1. /\ Durable = s_entries /\ s_entries \in Seq(Entry)
          /\ Apart(Durable[i], Incoming) /\ InRange(Durable[i])
          /\ Incoming \in Entry
      BY <1>1, <1>3, IncomingIsApart DEF OnlyIncomingChanges, TypeOK, entries_valid
    <3>2. Durable[i] \in Entry
      BY <3>1
    <3>3. \A s \in Extent(Durable[i]) : s \in DataSectors /\ s \notin Extent(Incoming)
      BY <3>1, <3>2, ApartRowsShareNothing
    <3>4. \A s \in Extent(Durable[i]) : sector[s] = Durable[i].rom
      BY <1>1 DEF FlashInv, DurableRomsIntact, Intact
    <3> QED BY <1>3, <3>3, <3>4 DEF OnlyIncomingChanges
  <2>4. DurableRomsIntact'
    BY <2>1, <2>3 DEF DurableRomsIntact, Intact
  <2> QED BY <2>2, <2>4 DEF FlashInv
<1>4. CASE OnlyTargetChanges
  <2> USE DEF Slots
  <2>1. /\ Synchronised /\ Durable = s_entries
        /\ entries_valid(updated)
        /\ \A i \in DOMAIN updated : Intact(updated[i])
    BY <1>4, DurableIsRam DEF IInv, Flags, PendingTable, Publishing, Synchronised,
                              OnlyTargetChanges
  <2>2. Target \in Slots
    BY DEF Target
  <2>3. CASE UNCHANGED slot
    <3>1. UNCHANGED flashVars
      BY <1>4, <2>3 DEF OnlyTargetChanges, flashVars
    <3> QED BY <1>2, <3>1
  <2>4. CASE slot' = [slot EXCEPT ![Target] = Torn]
    <3>1. /\ ~slot'[Target].intact
          /\ \A s \in Slots : s # Target => slot'[s] = slot[s]
      BY <1>1, <2>2, <2>4 DEF TypeOK, Torn
    <3>2. WrittenIsAcceptable' /\ SlotsInOrder'
      <4>1. WrittenIsAcceptable'
        BY <1>1, <3>1 DEF FlashInv, WrittenIsAcceptable
      <4>2. ~slot'[0].intact \/ ~slot'[1].intact
        BY <2>2, <3>1
      <4>3. SlotsInOrder'
        BY <4>2 DEF SlotsInOrder, Readable
      <4> QED BY <4>1, <4>3
    <3>3. Durable' = Durable
      BY <1>4, <2>1, <2>4, DurableAfterErase DEF OnlyTargetChanges
    <3> QED BY <1>1, <1>4, <3>2, <3>3
            DEF FlashInv, DurableRomsIntact, Intact, OnlyTargetChanges
  <2>5. CASE /\ pc = "write_slot"
             /\ slot' = [slot EXCEPT ![Target] = Directory(NextGeneration, updated)]
    <3>1. /\ slot'[Target] = Directory(NextGeneration, updated)
          /\ \A s \in Slots : s # Target => slot'[s] = slot[s]
      BY <1>1, <2>2, <2>5 DEF TypeOK
    <3>2. WrittenIsAcceptable'
      BY <1>1, <2>1, <3>1 DEF FlashInv, WrittenIsAcceptable, Directory
    <3>3. \A s \in Slots : s # Target /\ slot[s].intact => slot[s].generation = s_generation
      BY <2>1 DEF IInv, CurrentSlotIsRam, Target, Directory
    <3>4. SlotsInOrder'
      BY <2>2, <3>1, <3>3 DEF SlotsInOrder, Readable, NextGeneration, Directory
    <3>5. Durable' = updated
      BY <1>4, <2>1, <2>5, DurableAfterWrite DEF OnlyTargetChanges
    <3> QED BY <1>4, <2>1, <3>2, <3>4, <3>5
            DEF FlashInv, DurableRomsIntact, Intact, OnlyTargetChanges
  <2> QED BY <1>4, <2>3, <2>4, <2>5 DEF OnlyTargetChanges, SlotPartlyErased, SlotPartlyWritten
<1> QED BY <1>2, <1>3, <1>4, FlashEffects

-----------------------------------------------------------------------------
(***************************************************************************)
(* The inductive invariant: initial states                                 *)
(***************************************************************************)

(* The rows of an acceptable table claim disjoint sectors, so that the     *)
(* image of a device holds the ROM of every row of its FGBR table.         *)
LEMMA LegacyRomsIntact ==
  ASSUME Init, NEW i \in DOMAIN LegacyTable
  PROVE  Intact(LegacyTable[i])
<1> DEFINE rows(s) == { j \in DOMAIN LegacyTable : s \in Extent(LegacyTable[j]) }
<1>1. /\ LegacyTable \in Seq(Entry)
      /\ entries_valid(LegacyTable)
  BY CatalogAssumption, EmptyTable DEF Init, LegacyTable
<1>2. \A j \in DOMAIN LegacyTable : LegacyTable[j] \in Entry /\ InRange(LegacyTable[j])
  BY <1>1 DEF entries_valid
<1>3. ASSUME NEW s \in Extent(LegacyTable[i])
      PROVE  s \in DataSectors /\ rows(s) = {i}
  <2>1. ASSUME NEW j \in DOMAIN LegacyTable, j # i
        PROVE  s \in DataSectors /\ s \notin Extent(LegacyTable[j])
    <3>1. Apart(LegacyTable[i], LegacyTable[j])
      BY <1>1, <2>1 DEF entries_valid
    <3> QED BY <1>2, <3>1, ApartRowsShareNothing
  <2>2. s \in DataSectors
    <3>1. /\ LegacyTable[i].offset \in Nat /\ SizeOf(LegacyTable[i]) \in Nat
          /\ DataEnd \in Nat
      BY <1>2, SizeIsPositive, RomTableAssumption DEF Entry
    <3> QED BY <1>2, <3>1 DEF InRange, Extent, DataSectors
  <2> QED BY <2>1, <2>2
<1>4. ASSUME NEW s \in Extent(LegacyTable[i])
      PROVE  sector[s] = LegacyTable[i].rom
  <2>1. sector[s] = LegacyTable[CHOOSE j \in rows(s) : TRUE].rom
    BY <1>3 DEF Init
  <2>2. (CHOOSE j \in rows(s) : TRUE) = i
    BY <1>3
  <2> QED BY <2>1, <2>2
<1> QED BY <1>4 DEF Intact

(* The invariant holds on a device that has never been powered.            *)
LEMMA InitIInv == Init => IInv
<1> SUFFICES ASSUME Init PROVE IInv
  OBVIOUS
<1>1. TypeOK
  BY TypeInit
<1>2. \A s \in Slots : ~slot[s].intact
  BY DEF Init, Torn
<1>3. ~Readable(0) /\ ~Readable(1)
  BY <1>2 DEF Readable, Slots
<1>4. Durable = LegacyTable
  BY <1>3 DEF Durable, Chosen
<1>5. DurableRomsIntact
  BY <1>4, LegacyRomsIntact DEF DurableRomsIntact
<1> QED BY <1>1, <1>2, <1>3, <1>5
        DEF Init, IInv, WrittenIsAcceptable, SlotsInOrder, CurrentSlotIsRam,
            OtherSlotIsNeighbour, PendingTable, PendingEdit, Flags, SelectedIsOpened,
            Synchronised, Publishing

-----------------------------------------------------------------------------
(***************************************************************************)
(* The static variables describe the flash                                 *)
(***************************************************************************)

InStep == CurrentSlotIsRam /\ OtherSlotIsNeighbour

(* gb_storage_init with both slots readable takes the newer one, and the   *)
(* other then holds the generation before.                                 *)
LEMMA BootInStep ==
  ASSUME IInv, BootFromDirectory \/ BootFromLegacy \/ BootEmpty
  PROVE  InStep'
<1> USE DEF Slots
<1>1. TypeOK /\ WrittenIsAcceptable /\ SlotsInOrder
  BY DEF IInv
<1>2. \A s \in Slots : Readable(s) <=> slot[s].intact
  BY <1>1, ReadableIsIntact
<1>3. CASE BootFromDirectory
  <2> DEFINE s == Chosen(Slots)
  <2>1. /\ s \in Slots /\ slot[s].intact /\ s_directory_slot' = s
        /\ s_generation' = slot[s].generation /\ s_entries' = slot[s].entries
        /\ UNCHANGED slot /\ pc' = "idle"
    BY <1>2, <1>3 DEF BootFromDirectory, Chosen, TakeSlot, Boot, flashVars
  <2>2. slot[s] = Directory(slot[s].generation, slot[s].entries)
    BY <1>1, <2>1 DEF TypeOK, Directory
  <2>3. CurrentSlotIsRam'
    BY <2>1, <2>2 DEF CurrentSlotIsRam, Directory
  <2>4. Target' = 1 - s /\ 1 - s \in Slots
    BY <2>1 DEF Target
  <2>5. ASSUME slot[1 - s].intact
        PROVE  slot[s].generation = Successor(slot[1 - s].generation, GenMod)
    <3>1. SUFFICES ASSUME slot[1 - s].generation = Successor(slot[s].generation, GenMod)
                   PROVE  FALSE
      BY <1>1, <1>2, <2>1, <2>5 DEF SlotsInOrder
    <3>2. slot[s].generation \in 0 .. GenMod - 1
      BY <1>1, <2>1 DEF TypeOK
    <3>3. /\ Newer(slot[1 - s].generation, slot[s].generation, GenMod)
          /\ ~Newer(slot[s].generation, slot[1 - s].generation, GenMod)
      BY <3>1, <3>2, SuccessorIsNewer, CatalogAssumption
    <3> QED BY <1>2, <2>1, <2>5, <3>3 DEF Chosen
  <2>6. OtherSlotIsNeighbour'
    <3> HIDE DEF s
    <3>1. slot'[Target'] = slot[1 - s] /\ s_generation' = slot[s].generation
          /\ s_directory_slot' # -1 /\ pc' = "idle"
      BY <2>1, <2>4
    <3> QED BY <2>5, <3>1 DEF OtherSlotIsNeighbour, Publishing
  <2> QED BY <2>3, <2>6 DEF InStep
<1>4. CASE BootFromLegacy \/ BootEmpty
  <2>1. ~slot[0].intact /\ ~slot[1].intact
    <3>1. Chosen(Slots) = -1
      BY <1>4 DEF BootFromLegacy, BootEmpty
    <3>2. ~Readable(0) /\ ~Readable(1)
      BY <3>1 DEF Chosen
    <3> QED BY <1>2, <3>2
  <2>2. /\ s_directory_slot' = -1 /\ s_generation' = 0
        /\ UNCHANGED <<slot, legacy>> /\ s_entries' = LegacyTable
    BY <1>4 DEF BootFromLegacy, BootEmpty, TakeSlot, Boot, flashVars, LegacyTable
  <2>3. CurrentSlotIsRam'
    BY <2>1, <2>2 DEF CurrentSlotIsRam, LegacyTable
  <2>4. OtherSlotIsNeighbour'
    BY <2>1, <2>2 DEF OtherSlotIsNeighbour, Target
  <2> QED BY <2>3, <2>4 DEF InStep
<1> QED BY <1>3, <1>4

(* Steps before publish_directory touch neither slots nor table.           *)
LEMMA QuietInStep ==
  ASSUME IInv, pc # "off", ~Publishing, ~Publishing', UNCHANGED <<slot, legacy, ramVars>>
  PROVE  InStep'
<1>1. Synchronised' => Synchronised
  BY DEF Synchronised, ramVars
<1>2. CurrentSlotIsRam'
  BY <1>1 DEF IInv, CurrentSlotIsRam, LegacyTable, ramVars
<1>3. OtherSlotIsNeighbour'
  BY <1>1 DEF IInv, OtherSlotIsNeighbour, Target, Publishing, ramVars
<1> QED BY <1>2, <1>3 DEF InStep

(* Losing or rewriting the other slot leaves the current one as it was.    *)
LEMMA CurrentSlotSurvives ==
  ASSUME IInv, Synchronised, OnlyTargetChanges,
         UNCHANGED <<s_entries, s_directory_slot, s_generation>>
  PROVE  CurrentSlotIsRam'
<1>1. \A s \in Slots : s # Target => slot'[s] = slot[s]
  BY DEF IInv, TypeOK, Slots, Target, OnlyTargetChanges, SlotPartlyErased, SlotPartlyWritten
<1>2. LegacyTable' = LegacyTable
  BY DEF OnlyTargetChanges, LegacyTable
<1> QED BY <1>1, <1>2 DEF IInv, CurrentSlotIsRam, Target, Slots

(* RAM and the slots stay in step: boot, publication, and what the failure *)
(* or the interruption of a publication leaves behind.                     *)
LEMMA InStepStep == IInv /\ [Next]_vars => InStep'
<1> SUFFICES ASSUME IInv, [Next]_vars PROVE InStep'
  OBVIOUS
<1> USE DEF Slots
<1>0. TypeOK /\ CurrentSlotIsRam /\ OtherSlotIsNeighbour /\ Flags
  BY DEF IInv
<1>1. Target \in Slots
  BY DEF Target
<1>2. pc' \in {"off", "idle"} /\ ~Synchronised' => InStep'
  BY DEF InStep, CurrentSlotIsRam, OtherSlotIsNeighbour
<1>3. BootFromDirectory \/ BootFromLegacy \/ BootEmpty => InStep'
  BY BootInStep
<1>4. BootReadError \/ BootBlocked => InStep'
  BY <1>2 DEF BootReadError, BootBlocked, Boot, Synchronised, Publishing
<1>5. ASSUME NEW i, Open(i) \/ BeginDelete(i) PROVE InStep'
  BY <1>5, QuietInStep DEF Open, BeginDelete, Idle, Publishing, flashVars
<1>6. ASSUME NEW x, NEW y, BeginUpload(x, y) \/ BeginRename(x, y) PROVE InStep'
  BY <1>6, QuietInStep DEF BeginUpload, BeginRename, Idle, Publishing, flashVars
<1>7. EraseRom \/ StreamRom => InStep'
  BY QuietInStep DEF EraseRom, StreamRom, Publishing
<1>8. EraseRomFails \/ StreamRomFails => InStep'
  BY QuietInStep DEF EraseRomFails, StreamRomFails, GiveUp, Publishing
<1>9. ASSUME EraseSlot \/ EraseSlotFails \/ WriteSlot PROVE InStep'
  <2>1. /\ Synchronised /\ pc # "verify_slot" /\ OnlyTargetChanges
        /\ UNCHANGED <<s_entries, s_directory_slot, s_generation>>
    BY <1>0, <1>9 DEF EraseSlot, EraseSlotFails, WriteSlot, GiveUp, ramVars, Flags,
       Synchronised, Publishing, OnlyTargetChanges, SlotPartlyErased
  <2>2. CurrentSlotIsRam'
    BY <2>1, CurrentSlotSurvives
  <2>3. Target' = Target /\ NextGeneration' = NextGeneration
    BY <2>1 DEF Target, NextGeneration
  <2>4. ASSUME ~slot'[Target].intact PROVE OtherSlotIsNeighbour'
    BY <2>3, <2>4 DEF OtherSlotIsNeighbour
  <2>5. ASSUME UNCHANGED slot, EraseSlotFails PROVE OtherSlotIsNeighbour'
    BY <1>0, <2>1, <2>3, <2>5
       DEF OtherSlotIsNeighbour, EraseSlotFails, GiveUp, Publishing, ramVars
  <2>6. ASSUME WriteSlot,
               slot' = [slot EXCEPT ![Target] = Directory(NextGeneration, updated)]
        PROVE  OtherSlotIsNeighbour'
    BY <1>0, <1>1, <2>3, <2>6 DEF OtherSlotIsNeighbour, WriteSlot, TypeOK
  <2>7. slot' = [slot EXCEPT ![Target] = Torn] => ~slot'[Target].intact
    BY <1>0, <1>1 DEF TypeOK, Torn
  <2>8. OtherSlotIsNeighbour'
    BY <1>9, <2>4, <2>5, <2>6, <2>7
       DEF EraseSlot, EraseSlotFails, WriteSlot, SlotPartlyErased, SlotPartlyWritten
  <2> QED BY <2>2, <2>8 DEF InStep
<1>10. WriteSlotFails \/ VerifySlotFails => InStep'
  BY <1>0, <1>2 DEF WriteSlotFails, VerifySlotFails, GiveUp, Flags, Synchronised,
                    Publishing, ramVars
<1>11. ASSUME VerifySlot PROVE InStep'
  <2>1. /\ slot[Target] = Directory(NextGeneration, updated)
        /\ s_directory_slot' = Target /\ s_generation' = NextGeneration
        /\ s_entries' = updated /\ UNCHANGED slot /\ pc' = "idle"
    BY <1>11 DEF VerifySlot, flashVars
  <2>2. CurrentSlotIsRam'
    BY <1>1, <2>1 DEF CurrentSlotIsRam, Directory
  <2>3. Synchronised
    BY <1>11 DEF VerifySlot, Synchronised, Publishing
  <2>4. CASE s_directory_slot = -1
    <3>1. ~slot[1].intact /\ Target = 0 /\ Target' = 1
      BY <1>0, <2>1, <2>3, <2>4 DEF CurrentSlotIsRam, Target
    <3> QED BY <2>1, <2>2, <3>1 DEF InStep, OtherSlotIsNeighbour
  <2>5. CASE s_directory_slot \in Slots
    <3>1. /\ slot[s_directory_slot].generation = s_generation
          /\ Target' = s_directory_slot
      BY <1>0, <2>1, <2>3, <2>5 DEF CurrentSlotIsRam, Target, Directory
    <3>2. s_generation' = Successor(slot'[Target'].generation, GenMod)
      BY <2>1, <3>1 DEF NextGeneration
    <3>3. OtherSlotIsNeighbour'
      BY <1>1, <2>1, <3>2 DEF OtherSlotIsNeighbour, Publishing
    <3> QED BY <2>2, <3>3 DEF InStep
  <2> QED BY <1>0, <2>3, <2>4, <2>5 DEF CurrentSlotIsRam
<1>12. PowerCut => InStep'
  BY <1>2 DEF PowerCut, Synchronised
<1>13. UNCHANGED vars => InStep'
  BY <1>0 DEF vars, flashVars, ramVars, InStep, CurrentSlotIsRam, OtherSlotIsNeighbour,
              LegacyTable, Target, NextGeneration, Synchronised, Publishing
<1> QED BY <1>3, <1>4, <1>5, <1>6, <1>7, <1>8, <1>9, <1>10, <1>11, <1>12, <1>13 DEF Next

-----------------------------------------------------------------------------
(***************************************************************************)
(* The operation in progress                                               *)
(***************************************************************************)

(* An idle catalogue: the table in RAM is acceptable and its ROMs are on   *)
(* flash, whole.                                                           *)
LEMMA IdleTable ==
  ASSUME IInv, Idle
  PROVE  /\ s_entries \in Seq(Entry)
         /\ entries_valid(s_entries)
         /\ \A i \in DOMAIN s_entries : Intact(s_entries[i])
<1>1. Synchronised /\ ~(pc = "verify_slot" /\ slot[Target].intact)
  BY DEF Idle, Synchronised
<1>2. Durable = s_entries /\ entries_valid(s_entries)
  BY <1>1, DurableIsRam, ReadyTableIsValid
<1> QED BY <1>2 DEF IInv, TypeOK, DurableRomsIntact

(* Two rows that differ only in name have the same bytes.                  *)
LEMMA IntactDependsOnBytes ==
  ASSUME NEW e, NEW f, f.rom = e.rom, f.offset = e.offset, Intact(e)
  PROVE  Intact(f)
BY DEF Intact, Extent, SizeOf

(* The table an operation is about to publish is acceptable, and its ROMs  *)
(* are whole before any directory names them.                              *)
LEMMA PendingStep == IInv /\ [Next]_vars => PendingTable'
<1> SUFFICES ASSUME IInv, [Next]_vars PROVE PendingTable'
  OBVIOUS
<1> USE DEF flashVars, ramVars, selVars
<1>0. TypeOK /\ PendingTable
  BY DEF IInv
<1>1. pc' \in {"off", "idle"} => PendingTable'
  BY DEF PendingTable
<1>2. BootFromDirectory \/ BootFromLegacy \/ BootEmpty \/ BootReadError \/ BootBlocked
        => PendingTable'
  BY <1>1 DEF BootFromDirectory, BootFromLegacy, BootEmpty, BootReadError, BootBlocked, Boot
<1>3. ASSUME NEW i, Open(i) PROVE PendingTable'
  BY <1>1, <1>3 DEF Open, Idle
<1>4. ASSUME NEW name \in Names, NEW rom \in Roms, BeginUpload(name, rom)
      PROVE  PendingTable'
  <2>1. PICK offset \in DataSectors :
          /\ find_gap(s_entries, RomSectors[rom], offset)
          /\ updated' = WithRow(s_entries, name, rom, offset)
    BY <1>4 DEF BeginUpload
  <2>2. IsFree(s_entries, offset, RomSectors[rom]) /\ offset \in Nat
    BY <2>1 DEF find_gap, FreeStarts, DataSectors
  <2>3. /\ valid_name(s_entries, name, 0) /\ Len(s_entries) < MaxRoms
        /\ RomSectors[rom] >= 2 * BankSectors /\ RomSectors[rom] % BankSectors = 0
        /\ pc' = "erase_rom" /\ UNCHANGED s_entries /\ Idle
    BY <1>4 DEF BeginUpload
  <2>4. /\ entries_valid(updated')
        /\ Len(updated') = Len(s_entries) + 1
        /\ \A i \in DOMAIN s_entries : updated'[i] = s_entries[i]
    BY <2>1, <2>2, <2>3, IdleTable, WithRowIsValid
  <2> QED BY <2>3, <2>4 DEF PendingTable
<1>5. EraseRom => PendingTable'
  BY <1>0 DEF EraseRom, PendingTable
<1>6. ASSUME StreamRom PROVE PendingTable'
  <2>1. /\ pc = "stream_rom" /\ pc' = "erase_slot" /\ UNCHANGED <<s_entries, updated>>
        /\ sector' = [s \in DataSectors |->
                        IF s \in Extent(Incoming) THEN Incoming.rom ELSE sector[s]]
    BY <1>6 DEF StreamRom
  <2>2. /\ Durable = s_entries /\ entries_valid(s_entries)
        /\ \A i \in DOMAIN s_entries : Apart(s_entries[i], Incoming)
        /\ Incoming \in Entry /\ InRange(Incoming)
    BY <2>1, IncomingIsApart
  <2>3. /\ entries_valid(updated)
        /\ updated \in Seq(Entry) /\ s_entries \in Seq(Entry)
        /\ Len(updated) = Len(s_entries) + 1
        /\ \A i \in DOMAIN s_entries : updated[i] = s_entries[i]
    BY <1>0, <2>1 DEF PendingTable, TypeOK
  <2>4. Intact(Incoming)'
    <3>1. \A s \in Extent(Incoming) : s \in DataSectors
      <4>1. /\ Incoming.offset \in Nat /\ SizeOf(Incoming) \in Nat /\ DataEnd \in Nat
        BY <2>2, SizeIsPositive, RomTableAssumption DEF Entry
      <4> QED BY <2>2, <4>1 DEF InRange, Extent, DataSectors
    <3>2. Incoming' = Incoming
      BY <2>1 DEF Incoming
    <3> QED BY <2>1, <3>1, <3>2 DEF Intact
  <2>5. ASSUME NEW i \in DOMAIN s_entries
        PROVE  \A s \in Extent(s_entries[i]) : sector'[s] = s_entries[i].rom
    <3>1. s_entries[i] \in Entry /\ InRange(s_entries[i]) /\ Intact(s_entries[i])
      BY <2>2, <2>3 DEF entries_valid, IInv, DurableRomsIntact
    <3>2. \A s \in Extent(s_entries[i]) : s \in DataSectors /\ s \notin Extent(Incoming)
      BY <2>2, <3>1, ApartRowsShareNothing
    <3> QED BY <2>1, <3>1, <3>2 DEF Intact
  <2>6. ASSUME NEW i \in DOMAIN updated
        PROVE  \A s \in Extent(updated[i]) : sector'[s] = updated[i].rom
    <3>1. CASE i \in DOMAIN s_entries
      BY <2>3, <2>5, <3>1
    <3>2. CASE i = Len(updated)
      BY <2>1, <2>4, <3>2 DEF Intact, Incoming
    <3> QED BY <2>3, <3>1, <3>2
  <2> QED BY <2>1, <2>3, <2>6 DEF PendingTable, Intact
<1>7. EraseRomFails \/ StreamRomFails \/ EraseSlotFails \/ WriteSlotFails \/ VerifySlotFails
        => PendingTable'
  BY <1>1 DEF EraseRomFails, StreamRomFails, EraseSlotFails, WriteSlotFails,
              VerifySlotFails, GiveUp
<1>8. ASSUME NEW i \in DOMAIN s_entries, BeginDelete(i) PROVE PendingTable'
  <2>1. /\ updated' = WithoutRow(s_entries, i)
        /\ pc' = "erase_slot" /\ UNCHANGED sector /\ Idle
    BY <1>8 DEF BeginDelete
  <2>2. /\ s_entries \in Seq(Entry) /\ entries_valid(s_entries)
        /\ \A j \in DOMAIN s_entries : Intact(s_entries[j])
    BY <2>1, IdleTable
  <2>3. /\ updated' \in Seq(Entry) /\ Len(updated') = Len(s_entries) - 1
        /\ \A j \in 1 .. Len(s_entries) - 1 :
             updated'[j] = s_entries[IF j < i THEN j ELSE j + 1]
    BY <2>1, <2>2, WithoutRowRows
  <2>4. \A j \in DOMAIN updated' : Intact(updated'[j])
    BY <2>2, <2>3
  <2>5. entries_valid(updated')
    BY <2>1, <2>2, WithoutRowIsValid
  <2> QED BY <2>1, <2>4, <2>5 DEF PendingTable, Intact
<1>9. ASSUME NEW i \in DOMAIN s_entries, NEW name \in Names, BeginRename(i, name)
      PROVE  PendingTable'
  <2>1. /\ updated' = WithName(s_entries, i, name) /\ valid_name(s_entries, name, i)
        /\ pc' = "erase_slot" /\ UNCHANGED sector /\ Idle
    BY <1>9 DEF BeginRename
  <2>2. /\ s_entries \in Seq(Entry) /\ entries_valid(s_entries)
        /\ \A j \in DOMAIN s_entries : Intact(s_entries[j])
    BY <2>1, IdleTable
  <2>3. /\ updated' \in Seq(Entry) /\ entries_valid(updated')
        /\ Len(updated') = Len(s_entries)
        /\ \A j \in DOMAIN s_entries :
             updated'[j].rom = s_entries[j].rom /\ updated'[j].offset = s_entries[j].offset
    BY <2>1, <2>2, WithNameIsValid
  <2>4. \A j \in DOMAIN updated' : Intact(updated'[j])
    BY <2>2, <2>3, IntactDependsOnBytes
  <2> QED BY <2>1, <2>3, <2>4 DEF PendingTable, Intact
<1>10. EraseSlot \/ WriteSlot => PendingTable'
  BY <1>0 DEF EraseSlot, WriteSlot, PendingTable, Intact
<1>11. VerifySlot \/ PowerCut => PendingTable'
  BY <1>1 DEF VerifySlot, PowerCut
<1>12. UNCHANGED vars => PendingTable'
  BY <1>0 DEF vars, PendingTable, Intact
<1> QED BY <1>2, <1>3, <1>4, <1>5, <1>6, <1>7, <1>8, <1>9, <1>10, <1>11, <1>12 DEF Next

(* What is going to be published is one edit of the table in RAM: nothing  *)
(* changes either table between the request and publish_directory.         *)
LEMMA EditStep == IInv /\ [Next]_vars => PendingEdit'
<1> SUFFICES ASSUME IInv, [Next]_vars PROVE PendingEdit'
  OBVIOUS
<1> USE DEF flashVars, ramVars, selVars
<1>0. PendingEdit
  BY DEF IInv
<1>1. pc' \notin {"erase_rom", "stream_rom", "erase_slot"} => PendingEdit'
  BY DEF PendingEdit
<1>2. ASSUME UNCHANGED <<s_entries, updated>>
      PROVE  /\ IsUpload(Roms) => IsUpload(Roms)'
             /\ IsUpload(Playable) => IsUpload(Playable)'
             /\ IsDelete => IsDelete'
             /\ IsRename => IsRename'
  BY <1>2 DEF IsUpload, IsDelete, IsRename
<1>3. BootFromDirectory \/ BootFromLegacy \/ BootEmpty \/ BootReadError \/ BootBlocked
        => PendingEdit'
  BY <1>1 DEF BootFromDirectory, BootFromLegacy, BootEmpty, BootReadError, BootBlocked, Boot
<1>4. ASSUME NEW i, Open(i) PROVE PendingEdit'
  BY <1>1, <1>4 DEF Open, Idle
<1>5. ASSUME NEW name \in Names, NEW rom \in Roms, BeginUpload(name, rom)
      PROVE  PendingEdit'
  <2>1. /\ Len(s_entries) < MaxRoms /\ valid_name(s_entries, name, 0)
        /\ \E offset \in DataSectors : updated' = WithRow(s_entries, name, rom, offset)
        /\ pc' = "erase_rom" /\ UNCHANGED s_entries
    BY <1>5 DEF BeginUpload
  <2>2. IsUpload(Roms)'
    BY <2>1 DEF IsUpload
  <2> QED BY <2>1, <2>2 DEF PendingEdit
<1>6. EraseRom => PendingEdit'
  BY <1>0, <1>2 DEF EraseRom, PendingEdit
<1>7. ASSUME StreamRom PROVE PendingEdit'
  <2>1. /\ IsUpload(Roms) /\ Incoming.rom \in Playable
        /\ pc' = "erase_slot" /\ UNCHANGED <<s_entries, updated>>
    BY <1>0, <1>7 DEF StreamRom, PendingEdit
  <2>2. PICK name \in Names, rom \in Roms, offset \in DataSectors :
          /\ valid_name(s_entries, name, 0)
          /\ updated = WithRow(s_entries, name, rom, offset)
    BY <2>1 DEF IsUpload
  <2>3. Incoming.rom = rom
    <3> DEFINE e == [name |-> name, rom |-> rom, offset |-> offset]
    <3>1. e \in Entry /\ s_entries \in Seq(Entry)
      BY DEF IInv, TypeOK, Entry, DataSectors
    <3>2. Append(s_entries, e)[Len(Append(s_entries, e))] = e
      BY <3>1
    <3> QED BY <2>2, <3>2 DEF WithRow, Incoming
  <2>4. IsUpload(Playable)
    BY <2>1, <2>2, <2>3 DEF IsUpload
  <2> QED BY <1>2, <2>1, <2>4 DEF PendingEdit
<1>8. EraseRomFails \/ StreamRomFails \/ EraseSlotFails \/ WriteSlotFails \/ VerifySlotFails
        => PendingEdit'
  BY <1>1 DEF EraseRomFails, StreamRomFails, EraseSlotFails, WriteSlotFails,
              VerifySlotFails, GiveUp
<1>9. ASSUME NEW i \in DOMAIN s_entries, BeginDelete(i) PROVE PendingEdit'
  <2>1. IsDelete' /\ pc' = "erase_slot"
    BY <1>9 DEF BeginDelete, IsDelete
  <2> QED BY <2>1 DEF PendingEdit
<1>10. ASSUME NEW i \in DOMAIN s_entries, NEW name \in Names, BeginRename(i, name)
       PROVE  PendingEdit'
  <2>1. valid_name(s_entries, name, 0)
    BY <1>10 DEF BeginRename, valid_name
  <2>2. IsRename' /\ pc' = "erase_slot"
    BY <1>10, <2>1 DEF BeginRename, IsRename
  <2> QED BY <2>2 DEF PendingEdit
<1>11. EraseSlot \/ WriteSlot \/ VerifySlot \/ PowerCut => PendingEdit'
  BY <1>1 DEF EraseSlot, WriteSlot, VerifySlot, PowerCut
<1>12. UNCHANGED vars => PendingEdit'
  BY <1>0, <1>2 DEF vars, PendingEdit
<1> QED BY <1>3, <1>4, <1>5, <1>6, <1>7, <1>8, <1>9, <1>10, <1>11, <1>12 DEF Next

-----------------------------------------------------------------------------
(***************************************************************************)
(* Trust, and the open ROM                                                 *)
(***************************************************************************)

(* When RAM may be believed, and when a ROM may be open.                   *)
LEMMA FlagsStep == IInv /\ [Next]_vars => Flags'
<1> SUFFICES ASSUME IInv, [Next]_vars PROVE Flags'
  OBVIOUS
<1> USE DEF flashVars, ramVars, selVars, Flags, Publishing
<1>0. TypeOK /\ Flags
  BY DEF IInv
<1>1. BootFromDirectory \/ BootFromLegacy \/ BootEmpty \/ BootReadError \/ BootBlocked
        => Flags'
  BY <1>0 DEF BootFromDirectory, BootFromLegacy, BootEmpty, BootReadError, BootBlocked, Boot
<1>2. ASSUME NEW i, Open(i) \/ BeginDelete(i) PROVE Flags'
  BY <1>0, <1>2 DEF Open, BeginDelete, Idle, unmap_selected
<1>3. ASSUME NEW x, NEW y, BeginUpload(x, y) \/ BeginRename(x, y) PROVE Flags'
  BY <1>0, <1>3 DEF BeginUpload, BeginRename, Idle, unmap_selected
<1>4. EraseRom \/ StreamRom \/ EraseSlot \/ WriteSlot \/ VerifySlot => Flags'
  BY <1>0 DEF EraseRom, StreamRom, EraseSlot, WriteSlot, VerifySlot
<1>5. EraseRomFails \/ StreamRomFails \/ EraseSlotFails \/ WriteSlotFails \/ VerifySlotFails
        => Flags'
  BY <1>0 DEF EraseRomFails, StreamRomFails, EraseSlotFails, WriteSlotFails,
              VerifySlotFails, GiveUp
<1>6. PowerCut => Flags'
  BY <1>0 DEF PowerCut, unmap_selected
<1>7. UNCHANGED vars => Flags'
  BY <1>0 DEF vars
<1> QED BY <1>1, <1>2, <1>3, <1>4, <1>5, <1>6, <1>7 DEF Next

(* Whoever moves rows or sectors has let go of the open ROM first.         *)
LEMMA SelectedStep == IInv /\ [Next]_vars => SelectedIsOpened'
<1> SUFFICES ASSUME IInv, [Next]_vars PROVE SelectedIsOpened'
  OBVIOUS
<1> USE DEF flashVars, ramVars, selVars, unmap_selected
<1>0. SelectedIsOpened /\ (pc # "idle" => s_selected = 0)
  BY DEF IInv, Flags
<1>1. s_selected' = 0 => SelectedIsOpened'
  BY DEF SelectedIsOpened
<1>2. pc # "idle" /\ UNCHANGED selVars => SelectedIsOpened'
  BY <1>0, <1>1
<1>3. BootFromDirectory \/ BootFromLegacy \/ BootEmpty \/ BootReadError \/ BootBlocked
        => SelectedIsOpened'
  BY <1>2 DEF BootFromDirectory, BootFromLegacy, BootEmpty, BootReadError, BootBlocked, Boot
<1>4. ASSUME NEW i \in DOMAIN s_entries, Open(i) PROVE SelectedIsOpened'
  BY <1>4 DEF Open, SelectedIsOpened, Intact
<1>5. ASSUME NEW i, BeginDelete(i) PROVE SelectedIsOpened'
  BY <1>1, <1>5 DEF BeginDelete
<1>6. ASSUME NEW x, NEW y, BeginUpload(x, y) \/ BeginRename(x, y) PROVE SelectedIsOpened'
  BY <1>1, <1>6 DEF BeginUpload, BeginRename
<1>7. EraseRom \/ StreamRom \/ EraseSlot \/ WriteSlot \/ VerifySlot => SelectedIsOpened'
  BY <1>2 DEF EraseRom, StreamRom, EraseSlot, WriteSlot, VerifySlot
<1>8. EraseRomFails \/ StreamRomFails \/ EraseSlotFails \/ WriteSlotFails \/ VerifySlotFails
        => SelectedIsOpened'
  BY <1>2 DEF EraseRomFails, StreamRomFails, EraseSlotFails, WriteSlotFails,
              VerifySlotFails, GiveUp
<1>9. PowerCut => SelectedIsOpened'
  BY <1>1 DEF PowerCut
<1>10. UNCHANGED vars => SelectedIsOpened'
  BY <1>0 DEF vars, SelectedIsOpened, Intact
<1> QED BY <1>3, <1>4, <1>5, <1>6, <1>7, <1>8, <1>9, <1>10 DEF Next

-----------------------------------------------------------------------------
(***************************************************************************)
(* The theorems                                                            *)
(***************************************************************************)

(* Every step of gb_storage.c preserves the invariant.                     *)
LEMMA StepIInv == IInv /\ [Next]_vars => IInv'
BY TypeStep, FlashStep, InStepStep, PendingStep, EditStep, FlagsStep, SelectedStep
   DEF IInv, FlashInv, InStep

(* RAM, the two directory slots, the ROM bytes and the operation in        *)
(* progress stay related as IInv says through every sequence of boots,     *)
(* operations, failing flash calls and power cuts.                         *)
THEOREM InvariantHolds == Spec => []IInv
BY InitIInv, StepIInv, PTL DEF Spec

(* Type correctness of the catalogue.                                      *)
THEOREM TypeCorrect == Spec => []TypeOK
<1>1. IInv => TypeOK
  BY DEF IInv
<1> QED BY <1>1, InvariantHolds, PTL

(* A table gb_storage answers from is the one a restart would find.        *)
THEOREM ReadyViewDurable == Spec => []ReadyViewIsDurable
<1>1. IInv => ReadyViewIsDurable
  <2> SUFFICES ASSUME IInv, pc # "off", ~s_needs_reload PROVE s_entries = Durable
    BY DEF ReadyViewIsDurable
  <2>1. Synchronised /\ pc # "verify_slot"
    BY DEF IInv, Flags, Synchronised, Publishing
  <2> QED BY <2>1, DurableIsRam
<1> QED BY <1>1, InvariantHolds, PTL

(* A catalogue that save files may be pruned by is never stale.            *)
THEOREM TrustedDurable == Spec => []TrustedIsDurable
<1>1. IInv => TrustedIsDurable
  <2> SUFFICES ASSUME IInv, s_catalog_trusted PROVE s_entries = Durable
    BY DEF TrustedIsDurable
  <2>1. Synchronised /\ pc # "verify_slot"
    BY DEF IInv, Flags, Synchronised, Publishing
  <2> QED BY <2>1, DurableIsRam
<1> QED BY <1>1, InvariantHolds, PTL

(* A ROM the next restart will list has its bytes on flash, at every       *)
(* moment power may fail.                                                  *)
THEOREM DurableRomsStayIntact == Spec => []DurableRomsIntact
<1>1. IInv => DurableRomsIntact
  BY DEF IInv
<1> QED BY <1>1, InvariantHolds, PTL

(* The generations of two acceptable slots are one apart.                  *)
THEOREM SlotsStayInOrder == Spec => []SlotsInOrder
<1>1. IInv => SlotsInOrder
  BY DEF IInv
<1> QED BY <1>1, InvariantHolds, PTL

(* No directory that an operation writes is refused by the next boot.      *)
THEOREM WrittenAcceptable == Spec => []WrittenIsAcceptable
<1>1. IInv => WrittenIsAcceptable
  BY DEF IInv
<1> QED BY <1>1, InvariantHolds, PTL

(* The row under s_selected is the ROM that was opened.                    *)
THEOREM SelectedOpened == Spec => []SelectedIsOpened
<1>1. IInv => SelectedIsOpened
  BY DEF IInv
<1> QED BY <1>1, InvariantHolds, PTL

-----------------------------------------------------------------------------
(***************************************************************************)
(* Catalog implements AtomicCatalog                                        *)
(***************************************************************************)

(* The rows a restart would list are on flash, so that the list seen from  *)
(* outside is the list of their names and ROMs.                            *)
LEMMA CommittedIsGames ==
  /\ IInv => Committed = Games(Durable)
  /\ IInv' => Committed' = Games(Durable)'
<1>1. IInv => Committed = Games(Durable)
  BY DEF IInv, DurableRomsIntact, Committed, GamesOnFlash, Games
<1>2. IInv' => Committed' = Games(Durable)'
  BY DEF IInv, DurableRomsIntact, Committed, GamesOnFlash, Games
<1> QED BY <1>1, <1>2

(* What the names of the phases stand for.                                 *)
LEMMA StatusIs ==
  /\ pc = "off" => Status = "off"
  /\ pc = "write_slot" => Status = "publishing"
  /\ pc = "verify_slot" /\ slot[Target].intact => Status = "written"
  /\ pc = "verify_slot" /\ ~slot[Target].intact => Status = "locked"
  /\ pc \in {"idle", "erase_rom", "stream_rom", "erase_slot"} =>
       Status = IF s_needs_reload THEN "locked" ELSE "ready"
BY DEF Status

(* While an operation has not been written, the durable list is the view.  *)
LEMMA ReadyIsCommitted ==
  ASSUME IInv, Synchronised, ~(pc = "verify_slot" /\ slot[Target].intact)
  PROVE  Committed = View /\ Edition = s_generation
<1>1. Chosen(Slots) = s_directory_slot /\ Durable = s_entries
  BY DurableIsRam
<1>2. Edition = s_generation
  BY <1>1 DEF IInv, CurrentSlotIsRam, Edition, Slots, Directory
<1> QED BY <1>1, <1>2, CommittedIsGames DEF View

(* A step that leaves the slots and the FGBR table alone leaves the        *)
(* durable list alone, also when it erases or writes sectors.              *)
LEMMA CommittedUnchanged ==
  ASSUME IInv, IInv', UNCHANGED <<slot, legacy>>
  PROVE  UNCHANGED <<Committed, Edition>>
<1>1. Durable' = Durable /\ Edition' = Edition
  BY DurableUnchanged
<1>2. Committed' = Games(Durable)'
  BY CommittedIsGames
<1>3. Committed = Games(Durable)
  BY CommittedIsGames
<1>4. Games(Durable)' = Games(Durable)
  BY <1>1 DEF Games
<1> QED BY <1>1, <1>2, <1>3, <1>4

(* Losing the slot that is not current changes nothing.                    *)
LEMMA CommittedAfterErase ==
  ASSUME IInv, IInv', Synchronised, pc # "verify_slot", UNCHANGED legacy,
         slot' = [slot EXCEPT ![Target] = Torn]
  PROVE  UNCHANGED <<Committed, Edition>>
<1>1. Durable' = s_entries /\ Edition' = s_generation
  BY DurableAfterErase
<1>2. Committed = Games(s_entries) /\ Edition = s_generation
  BY ReadyIsCommitted DEF View
<1>3. Committed' = Games(Durable)'
  BY CommittedIsGames
<1> QED BY <1>1, <1>2, <1>3 DEF Games

(* Writing it makes the requested list the durable one, under the next     *)
(* generation.                                                             *)
LEMMA CommittedAfterWrite ==
  ASSUME IInv, IInv', pc = "write_slot", UNCHANGED legacy,
         slot' = [slot EXCEPT ![Target] = Directory(NextGeneration, updated)]
  PROVE  Atomic!BecomesDurable
<1>1. Synchronised
  BY DEF Synchronised, Publishing
<1>2. Durable' = updated /\ Edition' = NextGeneration
  BY <1>1, DurableAfterWrite
<1>3. Edition = s_generation
  BY <1>1, ReadyIsCommitted
<1>4. Committed' = Games(Durable)'
  BY CommittedIsGames
<1>5. Goal = Games(updated)
  BY StatusIs DEF Goal
<1>6. Committed' = Goal
  BY <1>2, <1>4, <1>5 DEF Games
<1>7. Edition' = Atomic!Successor(Edition, GenMod)
  BY <1>2, <1>3 DEF NextGeneration, Successor, Atomic!Successor
<1> QED BY <1>6, <1>7 DEF Atomic!BecomesDurable

(* A device that was never powered shows what its image carries.           *)
LEMMA InitImplements == Init => Atomic!Init
<1> SUFFICES ASSUME Init PROVE Atomic!Init
  OBVIOUS
<1>1. IInv
  BY InitIInv
<1>2. ~Readable(0) /\ ~Readable(1)
  BY DEF Init, Torn, Readable, Slots
<1>3. Chosen(Slots) = -1
  BY <1>2 DEF Chosen
<1>4. Durable = LegacyTable /\ Edition = 0
  BY <1>3 DEF Durable, Edition
<1>5. LegacyTable \in Seq(Entry)
  BY CatalogAssumption, EmptyTable DEF Init, LegacyTable
<1>6. Committed \in Seq(Atomic!Game)
  <2>1. Committed = Games(LegacyTable)
    BY <1>1, <1>4, CommittedIsGames
  <2>2. Len(LegacyTable) \in Nat /\ DOMAIN LegacyTable = 1 .. Len(LegacyTable)
    BY <1>5
  <2>3. ASSUME NEW i \in 1 .. Len(LegacyTable)
        PROVE  [name |-> LegacyTable[i].name, rom |-> LegacyTable[i].rom] \in Atomic!Game
    <3>1. LegacyTable[i] \in Entry
      BY <1>5
    <3> QED BY <3>1 DEF Entry, Atomic!Game
  <2>4. Games(LegacyTable) \in [1 .. Len(LegacyTable) -> Atomic!Game]
    BY <2>2, <2>3 DEF Games
  <2> QED BY <2>1, <2>2, <2>4
<1>7. View = <<>>
  BY DEF Init, View, Games
<1>8. Status = "off" /\ Goal = <<>> /\ s_catalog_trusted = FALSE
  BY StatusIs DEF Init, Goal
<1> QED BY <1>4, <1>6, <1>7, <1>8 DEF Atomic!Init

(* Outside publish_directory a step between two flash calls is invisible.  *)
LEMMA QuietStutters ==
  ASSUME IInv, IInv', UNCHANGED <<slot, legacy, ramVars>>,
         pc \in {"idle", "erase_rom", "stream_rom", "erase_slot"},
         pc' \in {"idle", "erase_rom", "stream_rom", "erase_slot"}
  PROVE  UNCHANGED Atomic!vars
<1>1. UNCHANGED <<Committed, Edition>>
  BY CommittedUnchanged
<1>2. UNCHANGED <<View, s_catalog_trusted>>
  BY DEF View, Games, ramVars
<1>3. Status \in {"ready", "locked"} /\ Status' = Status
  BY DEF Status, ramVars
<1>4. Goal = <<>> /\ Goal' = <<>>
  BY <1>3 DEF Goal
<1> QED BY <1>1, <1>2, <1>3, <1>4 DEF Atomic!vars, Atomic!durable

(* gb_storage_init shows the durable list or refuses to show any.          *)
LEMMA BootImplements ==
  ASSUME IInv, IInv',
         BootFromDirectory \/ BootFromLegacy \/ BootEmpty \/ BootReadError \/ BootBlocked
  PROVE  Atomic!Load
<1>1. /\ pc = "off" /\ pc' = "idle" /\ UNCHANGED <<slot, legacy>>
  BY DEF BootFromDirectory, BootFromLegacy, BootEmpty, BootReadError, BootBlocked, Boot,
         flashVars
<1>2. UNCHANGED <<Committed, Edition>>
  BY <1>1, CommittedUnchanged
<1>3. Status = "off" /\ Status' = IF s_needs_reload' THEN "locked" ELSE "ready"
  BY <1>1 DEF Status
<1>4. Goal = <<>> /\ Goal' = <<>>
  BY <1>3 DEF Goal
<1>5. Committed = Games(Durable)
  BY CommittedIsGames
<1>6. s_catalog_trusted' \in BOOLEAN
  BY DEF IInv, TypeOK
<1>7. CASE BootFromDirectory \/ BootFromLegacy
  <2>1. /\ s_entries' = Durable
        /\ s_catalog_trusted' = TRUE /\ s_needs_reload' = FALSE
    BY <1>7 DEF BootFromDirectory, BootFromLegacy, Boot, Durable, LegacyTable
  <2>2. View' = Committed
    BY <1>5, <2>1 DEF View, Games
  <2> QED BY <1>2, <1>3, <1>4, <1>6, <2>1, <2>2 DEF Atomic!Load, Atomic!durable
<1>8. CASE BootEmpty
  <2>1. /\ Durable = <<>> /\ s_entries' = <<>>
        /\ s_catalog_trusted' = FALSE /\ s_needs_reload' = FALSE
    BY <1>8 DEF BootEmpty, Boot, Durable, LegacyTable
  <2>2. View' = <<>> /\ Committed = <<>>
    BY <1>5, <2>1 DEF View, Games
  <2> QED BY <1>2, <1>3, <1>4, <1>6, <2>1, <2>2 DEF Atomic!Load, Atomic!durable
<1>9. CASE BootReadError \/ BootBlocked
  <2>1. /\ s_entries' = <<>>
        /\ s_catalog_trusted' = FALSE /\ s_needs_reload' = TRUE
    BY <1>9 DEF BootReadError, BootBlocked, Boot
  <2>2. View' = <<>>
    BY <2>1 DEF View, Games
  <2> QED BY <1>2, <1>3, <1>4, <1>6, <2>1, <2>2 DEF Atomic!Load, Atomic!durable
<1> QED BY <1>7, <1>8, <1>9

(* The list of games a table stands for.                                   *)
LEMMA GamesOf ==
  ASSUME NEW es \in Seq(Entry)
  PROVE  /\ Games(es) \in Seq(Atomic!Game)
         /\ Len(Games(es)) = Len(es)
         /\ DOMAIN Games(es) = 1 .. Len(es)
         /\ \A i \in 1 .. Len(es) :
              Games(es)[i] = [name |-> es[i].name, rom |-> es[i].rom]
<1>1. Len(es) \in Nat /\ DOMAIN es = 1 .. Len(es)
  OBVIOUS
<1>2. ASSUME NEW i \in 1 .. Len(es)
      PROVE  [name |-> es[i].name, rom |-> es[i].rom] \in Atomic!Game
  <2>1. es[i] \in Entry
    BY <1>1
  <2> QED BY <2>1 DEF Entry, Atomic!Game
<1>3. Games(es) \in [1 .. Len(es) -> Atomic!Game]
  BY <1>1, <1>2 DEF Games
<1> QED BY <1>1, <1>3 DEF Games

(* The pending table of an upload stands for the view and one more game.   *)
LEMMA UploadIsEdit ==
  ASSUME IInv, IsUpload(Playable)
  PROVE  \E name \in Names, rom \in Playable :
           /\ Len(View) < MaxRoms
           /\ Atomic!Fresh(View, name)
           /\ Games(updated) = Append(View, [name |-> name, rom |-> rom])
<1>1. PICK name \in Names, rom \in Playable, offset \in DataSectors :
        /\ valid_name(s_entries, name, 0)
        /\ updated = WithRow(s_entries, name, rom, offset)
  BY DEF IsUpload
<1> DEFINE e == [name |-> name, rom |-> rom, offset |-> offset]
           g == [name |-> name, rom |-> rom]
           n == Len(s_entries)
<1>2. /\ s_entries \in Seq(Entry) /\ e \in Entry /\ g \in Atomic!Game
      /\ n \in Nat /\ DOMAIN s_entries = 1 .. n
  BY RomTableAssumption DEF IInv, TypeOK, Entry, DataSectors, Atomic!Game
<1>3. /\ View \in Seq(Atomic!Game) /\ Len(View) = n
      /\ DOMAIN View = 1 .. n
      /\ \A i \in 1 .. n :
           View[i] = [name |-> s_entries[i].name, rom |-> s_entries[i].rom]
  BY <1>2, GamesOf DEF View
<1>4. n < MaxRoms /\ Atomic!Fresh(View, name)
  BY <1>1, <1>2, <1>3 DEF IsUpload, valid_name, Atomic!Fresh
<1>5. e.name = name /\ e.rom = rom
  OBVIOUS
<1> HIDE DEF e
<1>6. /\ updated \in Seq(Entry) /\ Len(updated) = n + 1
      /\ \A i \in 1 .. n : updated[i] = s_entries[i]
      /\ updated[n + 1] = e
  BY <1>1, <1>2 DEF WithRow, e
<1>7. /\ Games(updated) \in Seq(Atomic!Game) /\ Len(Games(updated)) = n + 1
      /\ \A i \in 1 .. n : Games(updated)[i] = View[i]
      /\ Games(updated)[n + 1] = g
  <2>1. /\ Games(updated) \in Seq(Atomic!Game) /\ Len(Games(updated)) = n + 1
        /\ \A i \in 1 .. n + 1 :
             Games(updated)[i] = [name |-> updated[i].name, rom |-> updated[i].rom]
    BY <1>6, GamesOf
  <2>2. n + 1 \in 1 .. n + 1 /\ \A i \in 1 .. n : i \in 1 .. n + 1
    BY <1>2
  <2>3. Games(updated)[n + 1] = g
    BY <1>5, <1>6, <2>1, <2>2
  <2> QED BY <1>3, <1>6, <2>1, <2>2, <2>3
<1> HIDE DEF g, n
<1>8. Games(updated) = Append(View, g)
  BY <1>2, <1>3, <1>7
<1> QED BY <1>3, <1>4, <1>8 DEF g, n

(* The pending table of a deletion stands for the view without that game.  *)
LEMMA DeleteIsEdit ==
  ASSUME IInv, IsDelete
  PROVE  \E i \in DOMAIN View : Games(updated) = Atomic!RemoveAt(View, i)
<1>1. PICK i \in DOMAIN s_entries : updated = WithoutRow(s_entries, i)
  BY DEF IsDelete
<1> DEFINE n == Len(s_entries)
           from(j) == IF j < i THEN j ELSE j + 1
<1>2. s_entries \in Seq(Entry) /\ n \in Nat /\ i \in 1 .. n
  BY DEF IInv, TypeOK
<1>3. /\ View \in Seq(Atomic!Game) /\ Len(View) = n /\ DOMAIN View = 1 .. n
      /\ \A j \in 1 .. n :
           View[j] = [name |-> s_entries[j].name, rom |-> s_entries[j].rom]
  BY <1>2, GamesOf DEF View
<1>4. /\ updated \in Seq(Entry) /\ Len(updated) = n - 1
      /\ \A j \in 1 .. n - 1 : updated[j] = s_entries[from(j)]
  BY <1>1, <1>2, WithoutRowRows
<1>5. /\ Games(updated) \in Seq(Atomic!Game) /\ Len(Games(updated)) = n - 1
      /\ \A j \in 1 .. n - 1 :
           Games(updated)[j] = [name |-> updated[j].name, rom |-> updated[j].rom]
  BY <1>4, GamesOf
<1>6. \A j \in 1 .. n - 1 : from(j) \in 1 .. n
  BY <1>2
<1>7. /\ RemoveAt(View, i) \in Seq(Atomic!Game) /\ Len(RemoveAt(View, i)) = n - 1
      /\ \A j \in 1 .. n - 1 : RemoveAt(View, i)[j] = View[from(j)]
  <2>1. i \in DOMAIN View
    BY <1>2, <1>3
  <2>2. /\ RemoveAt(View, i) \in Seq(Atomic!Game)
        /\ Len(RemoveAt(View, i)) = Len(View) - 1
        /\ \A j \in 1 .. Len(View) - 1 :
             RemoveAt(View, i)[j] = View[IF j < i THEN j ELSE j + 1]
    BY <1>3, <2>1, RemoveAtElements, Zenon
  <2> QED BY <1>3, <2>2
<1> HIDE DEF n, from
<1>8. \A j \in 1 .. n - 1 : Games(updated)[j] = RemoveAt(View, i)[j]
  BY <1>3, <1>4, <1>5, <1>6, <1>7
<1>9. Games(updated) = RemoveAt(View, i)
  BY <1>5, <1>7, <1>8
<1>10. RemoveAt(View, i) = Atomic!RemoveAt(View, i)
  BY DEF RemoveAt, Atomic!RemoveAt
<1> QED BY <1>2, <1>3, <1>9, <1>10

(* The pending table of a renaming stands for the view with that name.     *)
LEMMA RenameIsEdit ==
  ASSUME IInv, IsRename
  PROVE  \E i \in DOMAIN View, name \in Names :
           /\ Atomic!Fresh(View, name)
           /\ Games(updated) = [View EXCEPT ![i].name = name]
<1>1. PICK i \in DOMAIN s_entries, name \in Names :
        valid_name(s_entries, name, 0) /\ updated = WithName(s_entries, i, name)
  BY DEF IsRename
<1> DEFINE n == Len(s_entries)
           row == [s_entries[i] EXCEPT !.name = name]
           game == [View[i] EXCEPT !.name = name]
<1>2. s_entries \in [1 .. n -> Entry] /\ s_entries \in Seq(Entry) /\ n \in Nat
      /\ i \in 1 .. n /\ DOMAIN s_entries = 1 .. n
  BY DEF IInv, TypeOK
<1>3. /\ View \in Seq(Atomic!Game) /\ Len(View) = n /\ DOMAIN View = 1 .. n
      /\ View \in [1 .. n -> Atomic!Game]
      /\ \A j \in 1 .. n :
           View[j] = [name |-> s_entries[j].name, rom |-> s_entries[j].rom]
  BY <1>2, GamesOf DEF View
<1>4. Atomic!Fresh(View, name)
  BY <1>1, <1>2, <1>3 DEF valid_name, Atomic!Fresh
<1>5. row \in Entry /\ row.name = name /\ row.rom = s_entries[i].rom
  BY <1>2 DEF Entry
<1>6. game = [name |-> name, rom |-> s_entries[i].rom] /\ game \in Atomic!Game
  <2>1. View[i] = [name |-> s_entries[i].name, rom |-> s_entries[i].rom]
    BY <1>2, <1>3
  <2>2. s_entries[i].rom \in Roms
    BY <1>2 DEF Entry
  <2> QED BY <2>1, <2>2 DEF Atomic!Game
<1>7. updated = [s_entries EXCEPT ![i] = row]
  BY <1>1 DEF WithName
<1> HIDE DEF row, game
<1>8. updated \in [1 .. n -> Entry] /\ updated \in Seq(Entry) /\ Len(updated) = n
  BY <1>2, <1>5, <1>7
<1>9. /\ Games(updated) \in Seq(Atomic!Game) /\ Len(Games(updated)) = n
      /\ DOMAIN Games(updated) = 1 .. n
      /\ \A j \in 1 .. n :
           Games(updated)[j] = [name |-> updated[j].name, rom |-> updated[j].rom]
  BY <1>8, GamesOf
<1>10. \A j \in 1 .. n : Games(updated)[j] = IF j = i THEN game ELSE View[j]
  BY <1>2, <1>3, <1>5, <1>6, <1>7, <1>9
<1>11. Games(updated) = [View EXCEPT ![i] = game]
  BY <1>3, <1>6, <1>9, <1>10
<1>12. Games(updated) = [View EXCEPT ![i].name = name]
  BY <1>11 DEF game
<1> QED BY <1>2, <1>3, <1>4, <1>12

(* publish_directory starts: one of the three edits has been asked for.    *)
LEMMA EraseSlotImplements ==
  ASSUME IInv, IInv', EraseSlot
  PROVE  Atomic!Next
<1>1. /\ pc = "erase_slot" /\ pc' = "write_slot"
      /\ slot' = [slot EXCEPT ![Target] = Torn] /\ UNCHANGED legacy
      /\ s_catalog_trusted' = FALSE
      /\ UNCHANGED <<s_entries, updated>>
  BY DEF EraseSlot
<1>2. Synchronised /\ ~s_needs_reload
  BY <1>1 DEF IInv, Flags, Synchronised
<1>3. UNCHANGED <<Committed, Edition>>
  BY <1>1, <1>2, CommittedAfterErase
<1>4. Status = "ready" /\ Status' = "publishing"
  BY <1>1, <1>2 DEF Status
<1>5. Goal' = Games(updated) /\ View' = View
  BY <1>1, <1>4 DEF Goal, View, Games
<1>6. Atomic!Begin(Games(updated))
  BY <1>1, <1>3, <1>4, <1>5 DEF Atomic!Begin, Atomic!durable
<1>7. IsUpload(Playable) \/ IsDelete \/ IsRename
  BY <1>1 DEF IInv, PendingEdit
<1>8. CASE IsUpload(Playable)
  <2>1. PICK name \in Names, rom \in Playable :
          /\ Len(View) < MaxRoms
          /\ Atomic!Fresh(View, name)
          /\ Games(updated) = Append(View, [name |-> name, rom |-> rom])
    BY <1>8, UploadIsEdit
  <2>2. Atomic!Upload(name, rom)
    BY <1>6, <2>1 DEF Atomic!Upload
  <2> QED BY <2>2 DEF Atomic!Next
<1>9. CASE IsDelete
  <2>1. PICK i \in DOMAIN View : Games(updated) = Atomic!RemoveAt(View, i)
    BY <1>9, DeleteIsEdit
  <2>2. Atomic!Delete(i)
    BY <1>6, <2>1 DEF Atomic!Delete
  <2> QED BY <2>2 DEF Atomic!Next
<1>10. CASE IsRename
  <2>1. PICK i \in DOMAIN View, name \in Names :
          /\ Atomic!Fresh(View, name)
          /\ Games(updated) = [View EXCEPT ![i].name = name]
    BY <1>10, RenameIsEdit
  <2>2. Atomic!Rename(i, name)
    BY <1>6, <2>1 DEF Atomic!Rename
  <2> QED BY <2>2 DEF Atomic!Next
<1> QED BY <1>7, <1>8, <1>9, <1>10

(* The directory write: durable and known to be, durable or not and not    *)
(* known.                                                                  *)
LEMMA WriteSlotImplements ==
  ASSUME IInv, IInv', WriteSlot \/ WriteSlotFails
  PROVE  Atomic!Written \/ Atomic!Uncertain
<1>1. /\ pc = "write_slot" /\ SlotPartlyWritten
      /\ UNCHANGED <<legacy, sector, ramVars>>
  BY DEF WriteSlot, WriteSlotFails, GiveUp
<1>2. /\ TypeOK /\ Synchronised /\ s_needs_reload /\ Target \in Slots
      /\ Target' = Target
  BY <1>1 DEF IInv, Flags, Synchronised, Publishing, Target, Slots, ramVars
<1>3. UNCHANGED <<View, s_catalog_trusted>>
  BY <1>1 DEF View, Games, ramVars
<1>4. Status = "publishing"
  BY <1>1 DEF Status
<1>5. \/ slot' = [slot EXCEPT ![Target] = Torn] /\ UNCHANGED <<Committed, Edition>>
      \/ /\ slot' = [slot EXCEPT ![Target] = Directory(NextGeneration, updated)]
         /\ Atomic!BecomesDurable
  BY <1>1, <1>2, CommittedAfterErase, CommittedAfterWrite DEF SlotPartlyWritten
<1>6. CASE WriteSlotFails
  <2>1. pc' = "idle" /\ s_needs_reload'
    BY <1>1, <1>2, <1>6 DEF WriteSlotFails, GiveUp, ramVars
  <2>2. Status' = "locked" /\ Goal' = <<>>
    BY <2>1 DEF Status, Goal
  <2> QED BY <1>3, <1>4, <1>5, <2>2 DEF Atomic!Uncertain, Atomic!durable
<1>7. CASE WriteSlot /\ slot' = [slot EXCEPT ![Target] = Torn]
  <2>1. pc' = "verify_slot" /\ ~slot'[Target'].intact
    BY <1>2, <1>7 DEF WriteSlot, TypeOK, Torn
  <2>2. Status' = "locked" /\ Goal' = <<>>
    BY <2>1 DEF Status, Goal
  <2>3. UNCHANGED <<Committed, Edition>>
    BY <1>1, <1>2, <1>7, CommittedAfterErase
  <2> QED BY <1>3, <1>4, <2>2, <2>3 DEF Atomic!Uncertain, Atomic!durable
<1>8. CASE /\ WriteSlot
           /\ slot' = [slot EXCEPT ![Target] = Directory(NextGeneration, updated)]
  <2>1. pc' = "verify_slot" /\ slot'[Target'].intact /\ updated' = updated
    BY <1>2, <1>8 DEF WriteSlot, TypeOK, Directory
  <2>2. Status' = "written"
    BY <2>1 DEF Status
  <2>3. Goal' = Goal
    BY <1>4, <2>1, <2>2 DEF Goal, Games
  <2>4. Atomic!BecomesDurable
    BY <1>1, <1>8, CommittedAfterWrite
  <2> QED BY <1>3, <1>4, <2>2, <2>3, <2>4 DEF Atomic!Written
<1> QED BY <1>1, <1>6, <1>7, <1>8 DEF SlotPartlyWritten

(* The readback confirms the edit, or leaves the view locked.              *)
LEMMA VerifySlotImplements ==
  ASSUME IInv, IInv', VerifySlot \/ VerifySlotFails
  PROVE  Atomic!Confirm \/ Atomic!Unconfirmed \/ UNCHANGED Atomic!vars
<1>1. pc = "verify_slot" /\ pc' = "idle" /\ UNCHANGED <<slot, legacy>>
  BY DEF VerifySlot, VerifySlotFails, GiveUp, flashVars
<1>2. UNCHANGED <<Committed, Edition>>
  BY <1>1, CommittedUnchanged
<1>3. CASE VerifySlot
  <2>1. /\ slot[Target].intact /\ s_entries' = updated
        /\ s_catalog_trusted' = TRUE /\ s_needs_reload' = FALSE
    BY <1>3 DEF VerifySlot, Directory
  <2>2. Status = "written" /\ Status' = "ready"
    BY <1>1, <2>1 DEF Status
  <2>3. Goal' = <<>> /\ View' = Goal
    BY <2>1, <2>2 DEF Goal, View, Games
  <2> QED BY <1>2, <2>1, <2>2, <2>3 DEF Atomic!Confirm, Atomic!durable
<1>4. CASE VerifySlotFails
  <2>1. s_needs_reload' /\ UNCHANGED <<View, s_catalog_trusted>>
    BY <1>1, <1>4 DEF VerifySlotFails, GiveUp, ramVars, View, Games, IInv, Flags, Publishing
  <2>2. Status' = "locked" /\ Goal' = <<>>
    BY <1>1, <2>1 DEF Status, Goal
  <2>3. CASE slot[Target].intact
    <3>1. Status = "written"
      BY <1>1, <2>3 DEF Status
    <3> QED BY <1>2, <2>1, <2>2, <3>1 DEF Atomic!Unconfirmed, Atomic!durable
  <2>4. CASE ~slot[Target].intact
    <3>1. Status = "locked" /\ Goal = <<>>
      BY <1>1, <2>4 DEF Status, Goal
    <3> QED BY <1>2, <2>1, <2>2, <3>1 DEF Atomic!vars, Atomic!durable
  <2> QED BY <2>3, <2>4
<1> QED BY <1>3, <1>4

(* Power fails in whatever flash call the operation is in.                 *)
LEMMA PowerCutImplements ==
  ASSUME IInv, IInv', PowerCut
  PROVE  Atomic!PowerCut
<1>1. /\ pc' = "off" /\ s_entries' = <<>> /\ s_catalog_trusted' = FALSE
      /\ UNCHANGED legacy /\ Interrupted
  BY DEF PowerCut
<1>2. Status' = "off" /\ Goal' = <<>> /\ View' = <<>>
  BY <1>1 DEF Status, Goal, View, Games
<1>3. pc # "off" /\ Status # "off"
  <2>1. pc \in {"idle", "erase_rom", "stream_rom", "erase_slot", "write_slot", "verify_slot"}
    BY <1>1 DEF Interrupted
  <2> QED BY <2>1 DEF Status
<1>4. CASE UNCHANGED slot
  <2>1. UNCHANGED <<Committed, Edition>>
    BY <1>1, <1>4, CommittedUnchanged
  <2> QED BY <1>1, <1>2, <1>3, <2>1 DEF Atomic!PowerCut, Atomic!durable
<1>5. CASE /\ pc \in {"erase_slot", "write_slot"}
           /\ slot' = [slot EXCEPT ![Target] = Torn]
  <2>1. Synchronised /\ pc # "verify_slot"
    BY <1>5 DEF IInv, Flags, Synchronised, Publishing
  <2>2. UNCHANGED <<Committed, Edition>>
    BY <1>1, <1>5, <2>1, CommittedAfterErase
  <2> QED BY <1>1, <1>2, <1>3, <2>2 DEF Atomic!PowerCut, Atomic!durable
<1>6. CASE /\ pc = "write_slot"
           /\ slot' = [slot EXCEPT ![Target] = Directory(NextGeneration, updated)]
  <2>1. Atomic!BecomesDurable
    BY <1>1, <1>6, CommittedAfterWrite
  <2>2. Status = "publishing"
    BY <1>6 DEF Status
  <2> QED BY <1>1, <1>2, <2>1, <2>2 DEF Atomic!PowerCut
<1> QED BY <1>1, <1>4, <1>5, <1>6 DEF Interrupted, SlotPartlyErased, SlotPartlyWritten

(* Every step of gb_storage.c is a step of the atomic list or invisible.   *)
LEMMA StepImplements ==
  IInv /\ IInv' /\ [Next]_vars => [Atomic!Next]_(Atomic!vars)
<1> SUFFICES ASSUME IInv, IInv', [Next]_vars
             PROVE  Atomic!Next \/ UNCHANGED Atomic!vars
  OBVIOUS
<1>1. CASE BootFromDirectory \/ BootFromLegacy \/ BootEmpty \/ BootReadError \/ BootBlocked
  BY <1>1, BootImplements DEF Atomic!Next
<1>2. ASSUME NEW i \in DOMAIN s_entries, Open(i) \/ BeginDelete(i)
      PROVE  UNCHANGED Atomic!vars
  BY <1>2, QuietStutters DEF Open, BeginDelete, Idle, flashVars
<1>3. ASSUME NEW x, NEW y, BeginUpload(x, y) \/ BeginRename(x, y)
      PROVE  UNCHANGED Atomic!vars
  BY <1>3, QuietStutters DEF BeginUpload, BeginRename, Idle, flashVars
<1>4. CASE EraseRom \/ StreamRom
  BY <1>4, QuietStutters DEF EraseRom, StreamRom
<1>5. CASE EraseRomFails \/ StreamRomFails
  BY <1>5, QuietStutters DEF EraseRomFails, StreamRomFails, GiveUp
<1>6. CASE EraseSlot
  BY <1>6, EraseSlotImplements
<1>7. CASE EraseSlotFails
  <2>1. /\ pc = "erase_slot" /\ pc' = "idle" /\ UNCHANGED <<legacy, ramVars>>
        /\ SlotPartlyErased
    BY <1>7 DEF EraseSlotFails, GiveUp
  <2>2. CASE UNCHANGED slot
    BY <2>1, <2>2, QuietStutters
  <2>3. CASE slot' = [slot EXCEPT ![Target] = Torn]
    <3>1. Synchronised /\ ~s_needs_reload /\ ~s_needs_reload'
      BY <2>1 DEF IInv, Flags, Synchronised, ramVars
    <3>2. UNCHANGED <<Committed, Edition>>
      BY <2>1, <2>3, <3>1, CommittedAfterErase
    <3>3. UNCHANGED <<View, s_catalog_trusted>>
      BY <2>1 DEF View, Games, ramVars
    <3>4. Status = "ready" /\ Status' = "ready"
      BY <2>1, <3>1 DEF Status
    <3>5. Goal = <<>> /\ Goal' = <<>>
      BY <3>4 DEF Goal
    <3> QED BY <3>2, <3>3, <3>4, <3>5 DEF Atomic!vars, Atomic!durable
  <2> QED BY <2>1, <2>2, <2>3 DEF SlotPartlyErased
<1>8. CASE WriteSlot \/ WriteSlotFails
  BY <1>8, WriteSlotImplements DEF Atomic!Next
<1>9. CASE VerifySlot \/ VerifySlotFails
  BY <1>9, VerifySlotImplements DEF Atomic!Next
<1>10. CASE PowerCut
  BY <1>10, PowerCutImplements DEF Atomic!Next
<1>11. CASE UNCHANGED vars
  <2>1. UNCHANGED <<slot, legacy, ramVars, pc, updated>>
    BY <1>11 DEF vars, flashVars
  <2>2. UNCHANGED <<Committed, Edition>>
    BY <2>1, CommittedUnchanged
  <2>3. UNCHANGED <<View, Status, s_catalog_trusted>>
    BY <2>1 DEF View, Games, Status, Target, ramVars
  <2>4. UNCHANGED Goal
    BY <2>1, <2>3 DEF Goal, Games
  <2> QED BY <2>2, <2>3, <2>4 DEF Atomic!vars, Atomic!durable
<1> QED BY <1>1, <1>2, <1>3, <1>4, <1>5, <1>6, <1>7, <1>8, <1>9, <1>10, <1>11 DEF Next

(* gb_storage keeps its promise to its callers: a durable list of games    *)
(* that changes by whole edits, a view that shows it exactly or says       *)
(* nothing, and no further edit after an unconfirmed one until a restart.  *)
THEOREM CatalogIsAtomic == Spec => ImplementsAtomic
<1>1. Init => Atomic!Init
  BY InitImplements
<1>2. IInv /\ IInv' /\ [Next]_vars => [Atomic!Next]_(Atomic!vars)
  BY StepImplements
<1> QED BY <1>1, <1>2, InvariantHolds, PTL DEF Spec, ImplementsAtomic, Atomic!Spec
=============================================================================
