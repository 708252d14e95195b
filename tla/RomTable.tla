------------------------------ MODULE RomTable ------------------------------
(***************************************************************************)
(* The ROM table of gb_storage.c: what a row is, when a table is           *)
(* acceptable, and how the rows divide the data area of the flash          *)
(* partition "roms".  Pure operators, without state: Catalog adds the      *)
(* directory slots, the RAM copy and the operations.                       *)
(*                                                                         *)
(* Lengths and offsets are counted in 4096-byte flash sectors.  Sector 0   *)
(* holds the legacy FGBR header, sectors 1 .. DataEnd - 1 hold ROM bytes,  *)
(* and the two directory slots lie after DataEnd.  A ROM is an element of  *)
(* Roms; it stands both for a file's bytes and for their SHA-256, which    *)
(* the code takes as the identity of those bytes.  A name is an element of *)
(* Names, the strings gb_name_valid accepts.                               *)
(***************************************************************************)
EXTENDS Integers, Sequences, FiniteSets, SequencesExt

CONSTANTS
  Names,        \* the valid game names an operator may choose
  Roms,         \* the ROM files, told apart by their SHA-256
  Playable,     \* the ROM files whose header the upload accepts
  RomSectors,   \* the length of each ROM file
  Erased,       \* what a sector holds when it holds no piece of a ROM
  DataEnd,      \* the first sector past the ROM data area
  BankSectors,  \* the sectors of one 16 KiB ROM bank
  MaxRoms       \* GB_STORAGE_MAX_ROMS

ASSUME RomTableAssumption ==
  /\ DataEnd \in Nat \ {0}
  /\ BankSectors \in Nat \ {0}
  /\ MaxRoms \in Nat \ {0}
  /\ RomSectors \in [Roms -> Nat \ {0}]
  /\ Playable \subseteq Roms
  /\ Erased \notin Roms

DataSectors == 1 .. DataEnd - 1

Entry == [name : Names, rom : Roms, offset : Nat]

SizeOf(e) == RomSectors[e.rom]

(* The sectors a row claims. *)
Extent(e) == e.offset .. e.offset + SizeOf(e) - 1

(* valid_range and the size and alignment tests on one row. *)
InRange(e) ==
  /\ e.offset >= 1
  /\ SizeOf(e) >= 2 * BankSectors
  /\ SizeOf(e) % BankSectors = 0
  /\ e.offset + SizeOf(e) <= DataEnd

Apart(e, f) ==
  \/ e.offset + SizeOf(e) <= f.offset
  \/ f.offset + SizeOf(f) <= e.offset

entries_valid(es) ==
  /\ Len(es) <= MaxRoms
  /\ \A i \in DOMAIN es : InRange(es[i])
  /\ \A i, j \in DOMAIN es :
       i # j => es[i].name # es[j].name /\ Apart(es[i], es[j])

(* valid_name: no row other than `except` has this name (0 excepts none). *)
valid_name(es, name, except) ==
  \A i \in DOMAIN es : i # except => es[i].name # name

(***************************************************************************)
(* Free space                                                              *)
(***************************************************************************)

(* Mutant: a run may start on the last sector of a row. *)
IsFree_Touching(es, start, n) ==
  /\ start >= 1
  /\ start + n <= DataEnd
  /\ \A i \in DOMAIN es :
       \/ es[i].offset + SizeOf(es[i]) <= start + 1
       \/ start + n <= es[i].offset

(* A run of n sectors from `start` that no row overlaps. *)
IsFree(es, start, n) ==
  /\ start >= 1
  /\ start + n <= DataEnd
  /\ \A i \in DOMAIN es :
       es[i].offset + SizeOf(es[i]) <= start \/ start + n <= es[i].offset

FreeStarts(es, n) == { start \in DataSectors : IsFree(es, start, n) }

(* find_gap is first fit: `start` is the lowest free run of n sectors. *)
find_gap(es, n, start) ==
  /\ start \in FreeStarts(es, n)
  /\ \A other \in FreeStarts(es, n) : start <= other

limit == ((DataEnd - 1) \div BankSectors) * BankSectors

used(es) == FoldSeq(LAMBDA e, sum : sum + SizeOf(e), 0, es)

(* The longest upload that fits both a free run and the quota, in banks. *)
available(es) ==
  LET fits == { n \in 2 * BankSectors .. limit :
                  /\ n % BankSectors = 0
                  /\ n <= limit - used(es)
                  /\ FreeStarts(es, n) # {} }
  IN  IF fits = {} THEN 0 ELSE Max(fits)

(***************************************************************************)
(* The tables the three mutating operations build                          *)
(***************************************************************************)
WithRow(es, name, rom, offset) ==
  Append(es, [name |-> name, rom |-> rom, offset |-> offset])

WithoutRow(es, i) == RemoveAt(es, i)

WithName(es, i, name) == [es EXCEPT ![i].name = name]
=============================================================================
