----------------------------- MODULE FlashSlots -----------------------------
(***************************************************************************)
(* The data the bootloader, the update protocol and the application share: *)
(* the two firmware slots in flash and the metadata record that describes  *)
(* them (shared/metadata.h), with the operations of drivers/flash.c on a   *)
(* slot.                                                                   *)
(*                                                                         *)
(* A slot is a row of cells, the unit a DATA frame's length counts in (a   *)
(* double-word).  A cell is erased, holds its part of some image, or holds *)
(* anything else (Junk).  A CRC is the name of the image it was computed   *)
(* over: two images never share one, and torn contents match none.         *)
(***************************************************************************)
EXTENDS Integers

CONSTANTS Image,         \* firmware images a host may send
          Junk, Erased,  \* a cell that holds garbage, a blank cell
          NoImage,       \* the zero crc32 of a slot never described
          NoMeta,        \* metadata_read() finds no valid copy
          SlotCells,     \* cells in a slot (SLOT_SIZE)
          PageCells,     \* cells in a flash page (FLASH_PAGE_SIZE)
          MAX_BOOT_FAILURES

ASSUME SlotsAssumption ==
    /\ Junk \notin Image \cup {Erased} /\ Erased \notin Image /\ NoImage \notin Image \cup {Junk, Erased}
    /\ SlotCells \in Nat \ {0} /\ PageCells \in Nat \ {0}
    /\ SlotCells % PageCells = 0
    /\ MAX_BOOT_FAILURES \in Nat \ {0}

Slot == {0, 1}
Other(s) == 1 - s

Cells == 1..SlotCells
Cell == Image \cup {Junk, Erased}
Contents == [Cells -> Cell]
Blank == [i \in Cells |-> Erased]

FwState == {"EMPTY", "IN_PROGRESS", "TESTING", "VALID"}
SlotInfo == [size : 0..SlotCells, crc32 : Image \cup {NoImage}, state : FwState]
Meta == [active_slot : Slot, boot_fail_count : 0..MAX_BOOT_FAILURES, slot : [Slot -> SlotInfo]]

ASSUME NoMetaAssumption == NoMeta \notin Meta

EmptySlot == [size |-> 0, crc32 |-> NoImage, state |-> "EMPTY"]

\* The zeroed metadata_t a handler starts from when there is nothing to read.
ZeroMeta == [active_slot |-> 0, boot_fail_count |-> 0, slot |-> [s \in Slot |-> EmptySlot]]

-----------------------------------------------------------------------------
(* What a slot holds *)

\* crc32_compute() over the described size gives the described crc32.
Holds(c, info) == info.size > 0 /\ \A i \in 1..info.size : c[i] = info.crc32

\* An image, from its first cell on, as the host sends it.
ImageContents(img, size) == [i \in Cells |-> IF i <= size THEN img ELSE Erased]

-----------------------------------------------------------------------------
(* Flash operations on a slot's contents *)

PageAt(offset) == (offset + 1)..(offset + PageCells)

\* flash_erase_page() of the page that starts at offset.
ErasePage(c, offset) == [i \in Cells |-> IF i \in PageAt(offset) THEN Erased ELSE c[i]]

\* The page while its erase is cut short.
HalfErased(c, offset) == [i \in Cells |-> IF i \in PageAt(offset) THEN Junk ELSE c[i]]

\* flash_write() programs cell after cell and stops with an error at the first
\* one that is not blank.
Reached(c, offset, len) ==
    {i \in Cells \cap (offset + 1)..(offset + len) :
        \A j \in (offset + 1)..i : c[j] = Erased}
Write(c, offset, len, data) ==
    [i \in Cells |-> IF i \in Reached(c, offset, len) THEN data ELSE c[i]]
WriteOk(c, offset, len) == \A i \in (offset + 1)..(offset + len) : c[i] = Erased

\* flash_write() cut short after n cells, with the next one possibly damaged.
CutWrites(c, offset, len, data) ==
    {Write(c, offset, n, data) : n \in 0..len} \cup
    {[Write(c, offset, n, data) EXCEPT ![offset + n + 1] = Junk] :
        n \in {k \in 0..(len - 1) : c[offset + k + 1] = Erased}}

\* on_data()'s lazy erase: the first block of a page finds the page blank.
Prepared(c, offset) == IF offset % PageCells = 0 THEN ErasePage(c, offset) ELSE c

\* Everything the slot can hold when on_data() stops before its end.
CutData(c, offset, len, data) ==
    {c} \cup (IF offset % PageCells = 0 THEN {HalfErased(c, offset)} ELSE {})
        \cup CutWrites(Prepared(c, offset), offset, len, data)
=============================================================================
