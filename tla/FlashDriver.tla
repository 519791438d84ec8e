----------------------------- MODULE FlashDriver -----------------------------
(***************************************************************************)
(* drivers/flash.c between the caller and the flash controller: the range  *)
(* checks in unsigned arithmetic of WIDTH bits, the choice of bank and     *)
(* page, and the controller's lock, mode and error bits over sequences of  *)
(* calls, faults and resets.  An address stands for a byte, a word for a   *)
(* double-word of WordSize bytes; what the bytes hold is FlashSlots'.      *)
(*                                                                         *)
(* The controller erases the page named in CR, or programs a word, when it *)
(* is unlocked, in that mode alone and without an error flag; anything     *)
(* else is a sequence error and does nothing.                              *)
(***************************************************************************)
EXTENDS Integers

CONSTANTS WIDTH,                 \* bits of an address
          FLASH_BASE, PageSize, PAGES_PER_BANK, WordSize,
          BootPages,             \* pages of the bootloader, at the start of the flash
          Pages                  \* pages of the part: two banks

ASSUME DriverAssumption == /\ {WIDTH, FLASH_BASE, PageSize, PAGES_PER_BANK, WordSize} \subseteq Nat \ {0}
                           /\ Pages = 2 * PAGES_PER_BANK /\ BootPages \in 1..Pages
                           /\ PageSize % WordSize = 0 /\ FLASH_BASE % PageSize = 0
                           /\ 2 ^ WIDTH \in Nat /\ PageSize < 2 ^ WIDTH

VARIABLES lock, per, pg, bker, pnb,  \* FLASH_CR
          error,                     \* an error flag of FLASH_SR is set
          broken,                    \* the unlock sequence failed: locked until a reset
          pc,                        \* the driver: idle, or in a call
          address, len,              \* the call's arguments
          i,                         \* flash_write(): offset of the next word
          touched                    \* history: the bytes erased or programmed by this call

cr == <<lock, per, pg, bker, pnb>>
call == <<address, len, i>>
vars == <<cr, error, broken, pc, call, touched>>

Address == 0..(2 ^ WIDTH - 1)
FLASH_END == FLASH_BASE + Pages * PageSize
bl_end == FLASH_BASE + BootPages * PageSize
Plus(a, n) == (a + n) % 2 ^ WIDTH

Init == /\ lock = TRUE /\ per = FALSE /\ pg = FALSE /\ bker = FALSE /\ pnb = 0
        /\ error \in BOOLEAN /\ broken = FALSE
        /\ pc = "idle" /\ address = 0 /\ len = 0 /\ i = 0 /\ touched = {}

-----------------------------------------------------------------------------
(* The checks *)

\* Mutant of address_in_flash: the end is computed without looking at its carry.
address_in_flashWraps(a, n) ==
    a >= FLASH_BASE /\ Plus(a, n) <= FLASH_END /\ ~(a < bl_end /\ Plus(a, n) > FLASH_BASE)

address_is_bootloader(a, n) == a < bl_end /\ Plus(a, n) > FLASH_BASE

address_in_flash(a, n) == /\ a >= FLASH_BASE
                          /\ Plus(a, n) <= FLASH_END
                          /\ Plus(a, n) >= a
                          /\ ~address_is_bootloader(a, n)

EraseAccepted(a) == address_in_flash(a, PageSize) /\ a % PageSize = 0
WriteAccepted(a, n) == /\ n > 0 /\ a % WordSize = 0 /\ n % WordSize = 0
                       /\ address_in_flash(a, n)

-----------------------------------------------------------------------------
(* The calls *)

Called(a, n, next) == /\ pc' = next
                      /\ address' = a /\ len' = n /\ i' = 0 /\ touched' = {}

\* flash_unlock(): a failed key sequence leaves LOCK set until the next reset.
Unlock == \/ ~broken /\ lock' = FALSE /\ UNCHANGED broken
          \/ lock /\ lock' = TRUE /\ broken' = TRUE

\* Mutant of Page: the page is counted from the start of the flash in both banks.
PageUnbanked(a) == (a - FLASH_BASE) \div PageSize

Page(a) == ((a - FLASH_BASE) \div PageSize) % PAGES_PER_BANK

\* flash_erase_page() up to CR.STRT: CR is built in one write, PER alone; a refusal, a
\* busy controller or a failed unlock returns.
BeginErase(a) ==
    /\ pc = "idle" /\ EraseAccepted(a)
    /\ \/ UNCHANGED vars                            \* SR_BSY
       \/ /\ Unlock /\ lock'
          /\ UNCHANGED <<per, pg, bker, pnb, error, pc, call, touched>>
       \/ /\ Unlock /\ ~lock'
          /\ Called(a, PageSize, "erase")
          /\ error' = FALSE
          /\ per' = TRUE /\ pg' = FALSE
          /\ bker' = ((a - FLASH_BASE) \div PageSize >= PAGES_PER_BANK)
          /\ pnb' = Page(a)

BeginWrite(a, n) ==
    /\ pc = "idle" /\ WriteAccepted(a, n)
    /\ \/ UNCHANGED vars                            \* SR_BSY
       \/ /\ Unlock /\ lock'
          /\ UNCHANGED <<per, pg, bker, pnb, error, pc, call, touched>>
       \/ /\ Unlock /\ ~lock'
          /\ Called(a, n, "write")
          /\ error' = FALSE
          /\ pg' = TRUE
          /\ UNCHANGED <<per, bker, pnb>>

-----------------------------------------------------------------------------
(* The controller *)

PageBytes == LET p == FLASH_BASE + (pnb + IF bker THEN PAGES_PER_BANK ELSE 0) * PageSize
             IN  p..(p + PageSize - 1)
WordBytes == (address + i)..(address + i + WordSize - 1)

Ready == ~lock /\ ~error

\* STRT: the page is erased, unless the mode bits or a flag forbid it.
Start == /\ pc = "erase"
         /\ pc' = "erased"
         /\ IF Ready /\ per /\ ~pg
            THEN touched' = PageBytes /\ error' \in BOOLEAN
            ELSE error' = TRUE /\ UNCHANGED touched
         /\ UNCHANGED <<cr, broken, call>>

Store == /\ pc = "write"
         /\ pc' = "wrote"
         /\ IF Ready /\ pg /\ ~per
            THEN touched' = touched \cup WordBytes /\ error' \in BOOLEAN
            ELSE error' = TRUE /\ UNCHANGED touched
         /\ UNCHANGED <<cr, broken, call>>

-----------------------------------------------------------------------------
(* The driver, once the controller is no longer busy *)

\* Mutant of Leave: an error returns before the mode bits are cleared.
LeaveEarly == /\ pc' = "idle" /\ lock' = TRUE
              /\ per' = (per /\ (error \/ pc # "erased"))
              /\ pg' = (pg /\ (error \/ pc # "wrote"))

\* The mode bit of this call is cleared and the controller locked, error or not.
Leave == /\ pc' = "idle" /\ lock' = TRUE
         /\ per' = (per /\ pc # "erased")
         /\ pg' = (pg /\ pc # "wrote")

\* flash_check_errors() clears the flags; the read-back changes nothing here.
EndErase == /\ pc = "erased"
            /\ error' = FALSE
            /\ Leave
            /\ UNCHANGED <<bker, pnb, broken, call, touched>>

NextWord == /\ pc = "wrote" /\ ~error /\ i + WordSize < len
            /\ i' = i + WordSize
            /\ pc' = "write"
            /\ UNCHANGED <<cr, error, broken, address, len, touched>>

EndWrite == /\ pc = "wrote" /\ (error \/ i + WordSize >= len)
            /\ error' = FALSE
            /\ Leave
            /\ UNCHANGED <<bker, pnb, broken, call, touched>>

\* A flag raised by a read, or by code outside the driver, between two calls.
Flag == /\ pc = "idle" /\ ~error
        /\ error' = TRUE
        /\ UNCHANGED <<cr, broken, pc, call, touched>>

Reset == /\ pc' = "idle" /\ lock' = TRUE /\ per' = FALSE /\ pg' = FALSE
         /\ bker' = FALSE /\ pnb' = 0 /\ error' = FALSE /\ broken' = FALSE
         /\ UNCHANGED <<call, touched>>

Next == \/ \E a \in Address : BeginErase(a) \/ \E n \in Address : BeginWrite(a, n)
        \/ Start \/ Store \/ EndErase \/ NextWord \/ EndWrite \/ Flag \/ Reset

Spec == Init /\ [][Next]_vars
-----------------------------------------------------------------------------
(* Properties *)

TypeOK == /\ {lock, per, pg, bker, error, broken} \subseteq BOOLEAN
          /\ pnb \in 0..(PAGES_PER_BANK - 1)
          /\ pc \in {"idle", "erase", "erased", "write", "wrote"}
          /\ address \in Address /\ len \in Address /\ i \in Address

\* drivers/flash.c:111-126: whatever address and length a bug presents, no byte of the
\* bootloader and none beyond the flash is erased or programmed.
BootloaderUntouched == touched \subseteq bl_end..(FLASH_END - 1)

\* A call touches the bytes it was asked for and no others: the page in its own bank, the
\* words in order.
OnlyAsked == touched \subseteq address..(address + len - 1)

\* Whatever errors came before, the controller finds what it needs to start: unlocked, the
\* mode of this call alone, no flag.
StartsClean == /\ pc = "erase" => Ready /\ per /\ ~pg
               /\ pc = "write" => Ready /\ pg /\ ~per
=============================================================================
