-------------------------- MODULE FlashDriverProofs --------------------------
(***************************************************************************)
(* Proofs about FlashDriver for every width of an address, every position  *)
(* of the flash that is aligned to a page, every page size and number of   *)
(* pages.  The invariant IInv says what the control register holds at      *)
(* each point of a call (Mode), that the page under erasure is the one of  *)
(* the address asked for (Erasing), that the words still to be written are *)
(* whole and inside the range asked for (Writing), and that nothing is     *)
(* touched unless the range was allowed (Asked).                           *)
(***************************************************************************)
EXTENDS FlashDriver, TLAPS

-----------------------------------------------------------------------------
(* Arithmetic *)

LEMMA Numbers ==
  /\ FLASH_BASE \in Nat /\ FLASH_BASE % PageSize = 0
  /\ PageSize \in Nat /\ PageSize > 0
  /\ PAGES_PER_BANK \in Nat /\ PAGES_PER_BANK > 0
  /\ WordSize \in Nat /\ WordSize > 0
  /\ 2 ^ WIDTH \in Nat /\ PageSize \in Address
  /\ Pages = 2 * PAGES_PER_BANK /\ BootPages \in Nat
  BY DriverAssumption DEF Address

\* An aligned number is a multiple.
LEMMA Multiple ==
  ASSUME NEW n \in Nat, NEW d \in Nat, d > 0, n % d = 0
  PROVE  n = (n \div d) * d /\ n \div d \in Nat
  OBVIOUS

LEMMA DivLess ==
  ASSUME NEW n \in Nat, NEW d \in Nat, NEW k \in Nat, d > 0, n < k * d
  PROVE  n \div d < k
  OBVIOUS

LEMMA ModTwice ==
  ASSUME NEW k \in Nat, NEW m \in Nat, m > 0, k < 2 * m
  PROVE  k % m = IF k >= m THEN k - m ELSE k
  OBVIOUS

LEMMA SumWraps ==
  ASSUME NEW m \in Nat, m > 0, NEW a \in 0..(m - 1), NEW n \in 0..(m - 1)
  PROVE  (a + n) % m = IF a + n < m THEN a + n ELSE a + n - m
<1>1. a + n \in Nat /\ a + n < 2 * m
  OBVIOUS
<1>2. QED
  BY <1>1, ModTwice

LEMMA DivExact ==
  ASSUME NEW k \in Nat, NEW d \in Nat, d > 0
  PROVE  (k * d) \div d = k
<1>1. \A n \in Nat : n = k * d => n < (k + 1) * d /\ n >= k * d
  OBVIOUS
<1>2. \A n, q \in Nat : n < (k + 1) * d /\ n >= k * d /\ q * d <= n /\ n < (q + 1) * d => q = k
  OBVIOUS
<1>3. k * d \in Nat
  OBVIOUS
<1>4. DEFINE q == (k * d) \div d
<1>5. q \in Nat /\ q * d <= k * d /\ k * d < (q + 1) * d
  BY <1>3
<1>6. QED
  BY <1>1, <1>2, <1>3, <1>5

LEMMA MultipleDifference ==
  ASSUME NEW a \in Nat, NEW b \in Nat, NEW d \in Nat, d > 0, a % d = 0, b % d = 0, a >= b
  PROVE  (a - b) \div d \in Nat /\ a - b = ((a - b) \div d) * d
<1>1. a = (a \div d) * d /\ b = (b \div d) * d /\ a \div d \in Nat /\ b \div d \in Nat
  BY Multiple
<1>2. PICK k \in Int : a - b = k * d
  <2>1. a - b = ((a \div d) - (b \div d)) * d
    BY <1>1
  <2>2. QED
    BY <1>1, <2>1
<1>3. k \in Nat
  BY <1>2
<1>4. QED
  BY <1>2, <1>3, DivExact
-----------------------------------------------------------------------------
(* The checks *)

\* What lies in the flash and beyond the bootloader.
Allowed(a, n) == bl_end <= a /\ a + n <= FLASH_END

LEMMA Sizes == FLASH_END \in Nat /\ bl_end \in Nat /\ FLASH_BASE <= bl_end
  BY Numbers DEF FLASH_END, bl_end

LEMMA InFlash ==
  ASSUME NEW a \in Address, NEW n \in Address, n > 0, address_in_flash(a, n)
  PROVE  Allowed(a, n)
<1>1. 2 ^ WIDTH \in Nat /\ 2 ^ WIDTH > 0 /\ a \in 0..(2 ^ WIDTH - 1) /\ n \in 0..(2 ^ WIDTH - 1)
  BY Numbers DEF Address
<1>2. Plus(a, n) = IF a + n < 2 ^ WIDTH THEN a + n ELSE a + n - 2 ^ WIDTH
  BY <1>1, SumWraps DEF Plus
<1>3. Plus(a, n) = a + n
  BY <1>1, <1>2 DEF address_in_flash
<1>4. QED
  BY <1>1, <1>3, Sizes, Numbers DEF address_in_flash, address_is_bootloader, Allowed

LEMMA EraseAllowed ==
  ASSUME NEW a \in Address, EraseAccepted(a)
  PROVE  Allowed(a, PageSize)
  BY InFlash, Numbers DEF EraseAccepted

LEMMA WriteAllowed ==
  ASSUME NEW a \in Address, NEW n \in Address, WriteAccepted(a, n)
  PROVE  Allowed(a, n)
  BY InFlash DEF WriteAccepted

\* The bank and page programmed into CR are those of the address.
LEMMA PageOfAddress ==
  ASSUME NEW a \in Nat, a >= FLASH_BASE, a + PageSize <= FLASH_END, a % PageSize = 0
  PROVE  LET bank == IF (a - FLASH_BASE) \div PageSize >= PAGES_PER_BANK THEN PAGES_PER_BANK ELSE 0
         IN  /\ Page(a) \in 0..(PAGES_PER_BANK - 1)
             /\ FLASH_BASE + (Page(a) + bank) * PageSize = a
<1> DEFINE k == (a - FLASH_BASE) \div PageSize
<1>1. k \in Nat /\ a - FLASH_BASE = k * PageSize
  BY Numbers, MultipleDifference
<1>2. k < 2 * PAGES_PER_BANK
  <2>1. a - FLASH_BASE \in Nat /\ a - FLASH_BASE < (2 * PAGES_PER_BANK) * PageSize
    BY Numbers DEF FLASH_END
  <2>2. QED
    BY <2>1, Numbers, DivLess
<1>3. Page(a) = IF k >= PAGES_PER_BANK THEN k - PAGES_PER_BANK ELSE k
  BY <1>1, <1>2, Numbers, ModTwice DEF Page
<1>4. QED
  BY <1>1, <1>2, <1>3, Numbers
-----------------------------------------------------------------------------
(* The invariant *)

\* What CR holds at each point of a call.
Mode == /\ pc = "idle" => lock /\ ~per /\ ~pg
        /\ pc = "erase" => Ready /\ per /\ ~pg
        /\ pc = "erased" => per /\ ~pg
        /\ pc = "write" => Ready /\ pg /\ ~per
        /\ pc = "wrote" => ~lock /\ pg /\ ~per

Erasing == pc \in {"erase", "erased"} =>
             /\ Allowed(address, len) /\ len = PageSize
             /\ PageBytes = address..(address + len - 1)

\* The words still to be written, the one under way included.
Writing == pc \in {"write", "wrote"} =>
             /\ Allowed(address, len)
             /\ \E k \in Nat : k > 0 /\ len - i = k * WordSize

Asked == touched = {} \/ Allowed(address, len)

IInv == TypeOK /\ Mode /\ Erasing /\ Writing /\ Asked /\ OnlyAsked

LEMMA InitInv == Init => IInv
<1> SUFFICES ASSUME Init PROVE IInv
  OBVIOUS
<1>1. 0 \in Address
  BY Numbers DEF Address
<1>2. TypeOK
  <2>1. {lock, per, pg, bker, error, broken} \subseteq BOOLEAN /\ pc = "idle" /\ pnb = 0
    BY DEF Init
  <2>2. 0 \in 0..(PAGES_PER_BANK - 1)
    BY Numbers
  <2>3. QED
    BY <1>1, <2>1, <2>2 DEF Init, TypeOK
<1>3. QED
  BY <1>2 DEF Init, IInv, Mode, Erasing, Writing, Asked, OnlyAsked

LEMMA BeginEraseInv ==
  ASSUME IInv, NEW a \in Address, BeginErase(a)
  PROVE  IInv'
<1>0. CASE UNCHANGED vars
  BY <1>0 DEF vars, cr, call, IInv, TypeOK, Mode, Ready, Erasing, Writing, Asked, OnlyAsked, PageBytes
<1>1. CASE Unlock /\ lock' /\ UNCHANGED <<per, pg, bker, pnb, error, pc, call, touched>>
  <2>1. UNCHANGED <<per, pg, bker, pnb, error, pc, call, touched>> /\ pc = "idle"
    BY <1>1 DEF BeginErase
  <2>2. lock' = TRUE /\ broken' \in BOOLEAN
    BY <1>1 DEF Unlock, IInv, TypeOK
  <2>3. TypeOK'
    BY <2>1, <2>2 DEF IInv, TypeOK, call
  <2>4. QED
    BY <2>1, <2>2, <2>3 DEF IInv, Mode, Erasing, Writing, Asked, OnlyAsked, call
<1>2. CASE ~UNCHANGED vars /\ Unlock /\ ~lock'
  <2>1. /\ pc' = "erase" /\ address' = a /\ len' = PageSize /\ i' = 0 /\ touched' = {}
        /\ error' = FALSE /\ per' = TRUE /\ pg' = FALSE
        /\ bker' = ((a - FLASH_BASE) \div PageSize >= PAGES_PER_BANK)
        /\ pnb' = Page(a)
    BY <1>2 DEF BeginErase, Called
  <2>2. lock' = FALSE /\ broken' \in BOOLEAN
    BY <1>2 DEF BeginErase, Unlock, IInv, TypeOK
  <2>3. Allowed(a, PageSize) /\ a % PageSize = 0 /\ a \in Nat /\ a >= FLASH_BASE
    BY EraseAllowed, Numbers DEF BeginErase, EraseAccepted, address_in_flash, Address
  <2>4. /\ Page(a) \in 0..(PAGES_PER_BANK - 1)
        /\ FLASH_BASE + (pnb' + IF bker' THEN PAGES_PER_BANK ELSE 0) * PageSize = a
    BY <2>1, <2>3, PageOfAddress DEF Allowed
  <2>5. 0 \in Address
    BY Numbers DEF Address
  <2>6. TypeOK'
    <3>1. bker' \in BOOLEAN
      BY <2>1
    <3>2. {lock', per', pg', bker', error', broken'} \subseteq BOOLEAN
      BY <2>1, <2>2, <3>1, Zenon
    <3>3. QED
      BY <2>1, <2>4, <2>5, <3>2, Numbers DEF TypeOK
  <2>7. Erasing'
    BY <2>1, <2>3, <2>4 DEF Erasing, Allowed, PageBytes
  <2>8. QED
    BY <2>1, <2>2, <2>6, <2>7 DEF IInv, Mode, Ready, Writing, Asked, OnlyAsked
<1>3. QED
  BY <1>0, <1>1, <1>2 DEF BeginErase

LEMMA BeginWriteInv ==
  ASSUME IInv, NEW a \in Address, NEW n \in Address, BeginWrite(a, n)
  PROVE  IInv'
<1>0. CASE UNCHANGED vars
  BY <1>0 DEF vars, cr, call, IInv, TypeOK, Mode, Ready, Erasing, Writing, Asked, OnlyAsked, PageBytes
<1>1. CASE Unlock /\ lock' /\ UNCHANGED <<per, pg, bker, pnb, error, pc, call, touched>>
  <2>1. UNCHANGED <<per, pg, bker, pnb, error, pc, call, touched>> /\ pc = "idle"
    BY <1>1 DEF BeginWrite
  <2>2. lock' = TRUE /\ broken' \in BOOLEAN
    BY <1>1 DEF Unlock, IInv, TypeOK
  <2>3. TypeOK'
    BY <2>1, <2>2 DEF IInv, TypeOK, call
  <2>4. QED
    BY <2>1, <2>2, <2>3 DEF IInv, Mode, Erasing, Writing, Asked, OnlyAsked, call
<1>2. CASE ~UNCHANGED vars /\ Unlock /\ ~lock'
  <2>1. /\ pc = "idle" /\ pc' = "write" /\ address' = a /\ len' = n /\ i' = 0 /\ touched' = {}
        /\ error' = FALSE /\ pg' = TRUE
        /\ UNCHANGED <<per, bker, pnb>>
    BY <1>2 DEF BeginWrite, Called
  <2>2. lock' = FALSE /\ broken' \in BOOLEAN
    BY <1>2 DEF BeginWrite, Unlock, IInv, TypeOK
  <2>3. Allowed(a, n)
    BY WriteAllowed DEF BeginWrite
  <2>4. \E k \in Nat : k > 0 /\ n - 0 = k * WordSize
    <3>1. n \in Nat /\ n > 0 /\ n % WordSize = 0
      BY Numbers DEF BeginWrite, WriteAccepted, Address
    <3>2. n = (n \div WordSize) * WordSize /\ n \div WordSize \in Nat
      BY <3>1, Numbers, Multiple
    <3>3. n \div WordSize > 0
      BY <3>1, <3>2, Numbers
    <3>4. QED
      BY <3>1, <3>2, <3>3
  <2>5. 0 \in Address
    BY Numbers DEF Address
  <2>6. TypeOK'
    BY <2>1, <2>2, <2>5 DEF IInv, TypeOK
  <2>7. QED
    BY <2>1, <2>2, <2>3, <2>4, <2>6 DEF IInv, Mode, Ready, Erasing, Writing, Asked, OnlyAsked
<1>3. QED
  BY <1>0, <1>1, <1>2 DEF BeginWrite
LEMMA ControllerInv ==
  ASSUME IInv, Start \/ Store
  PROVE  IInv'
<1> USE DEF IInv
<1>1. UNCHANGED <<lock, per, pg, bker, pnb, broken, address, len, i>> /\ error' \in BOOLEAN
  BY DEF Start, Store, cr, call
<1>2. PageBytes' = PageBytes
  BY <1>1 DEF PageBytes
<1>3. CASE Start
  <2>1. pc = "erase" /\ pc' = "erased" /\ touched' = PageBytes
    BY <1>3 DEF Start, Mode
  <2>2. QED
    BY <1>1, <1>2, <2>1 DEF TypeOK, Mode, Erasing, Writing, Asked, OnlyAsked
<1>4. CASE Store
  <2>1. pc = "write" /\ pc' = "wrote" /\ touched' = touched \cup WordBytes
    BY <1>4 DEF Store, Mode
  <2>2. WordBytes \subseteq address..(address + len - 1)
    <3>1. PICK k \in Nat : k > 0 /\ len - i = k * WordSize
      BY <2>1 DEF Writing
    <3>2. len - i >= WordSize /\ i \in Nat /\ address \in Nat
      BY <3>1, Numbers DEF TypeOK, Address
    <3>3. QED
      BY <3>2, Numbers DEF WordBytes, TypeOK, Address
  <2>3. TypeOK' /\ Mode' /\ Erasing' /\ Writing'
    BY <1>1, <2>1 DEF TypeOK, Mode, Ready, Erasing, Writing, Allowed
  <2>4. Asked' /\ OnlyAsked'
    BY <1>1, <2>1, <2>2 DEF Asked, OnlyAsked, Writing, Allowed
  <2>5. QED
    BY <2>3, <2>4
<1>5. QED
  BY <1>3, <1>4

LEMMA NextWordInv ==
  ASSUME IInv, NextWord
  PROVE  IInv'
<1> USE DEF IInv
<1>1. /\ pc = "wrote" /\ ~error /\ i + WordSize < len /\ i' = i + WordSize /\ pc' = "write"
      /\ UNCHANGED <<lock, per, pg, bker, pnb, error, broken, address, len, touched>>
  BY DEF NextWord, cr
<1>2. PICK k \in Nat : k > 0 /\ len - i = k * WordSize
  BY <1>1 DEF Writing
<1>3. i \in Nat /\ len \in Nat /\ len < 2 ^ WIDTH
  BY Numbers DEF TypeOK, Address
<1>4. k - 1 \in Nat /\ k - 1 > 0 /\ len - i' = (k - 1) * WordSize
  BY <1>1, <1>2, <1>3, Numbers
<1>5. i' \in Address
  BY <1>1, <1>3, Numbers DEF Address
<1>6. TypeOK' /\ Mode'
  BY <1>1, <1>5 DEF TypeOK, Mode, Ready
<1>7. Writing'
  BY <1>1, <1>4 DEF Writing, Allowed
<1>8. QED
  BY <1>1, <1>6, <1>7 DEF Erasing, Asked, OnlyAsked, Allowed

LEMMA IdleInv ==
  ASSUME IInv, EndErase \/ EndWrite \/ Flag \/ Reset
  PROVE  IInv'
<1> USE DEF IInv
<1>1. pc' = "idle" /\ UNCHANGED <<address, len, i, touched>> /\ lock' = TRUE
  BY DEF EndErase, EndWrite, Flag, Reset, Leave, call, cr, Mode, TypeOK
<1>2. ~per' /\ ~pg'
  <2>1. CASE EndErase
    BY <2>1 DEF EndErase, Leave, Mode
  <2>2. CASE EndWrite
    BY <2>2 DEF EndWrite, Leave, Mode
  <2>3. CASE Flag
    BY <2>3 DEF Flag, cr, Mode
  <2>4. CASE Reset
    BY <2>4 DEF Reset
  <2>5. QED
    BY <2>1, <2>2, <2>3, <2>4
<1>3. {per', pg', bker', error', broken'} \subseteq BOOLEAN
  BY DEF EndErase, EndWrite, Flag, Reset, Leave, cr, TypeOK
<1>4. pnb' \in 0..(PAGES_PER_BANK - 1)
  BY Numbers DEF EndErase, EndWrite, Flag, Reset, Leave, cr, TypeOK
<1>5. TypeOK'
  BY <1>1, <1>3, <1>4 DEF TypeOK
<1>6. QED
  BY <1>1, <1>2, <1>5 DEF Mode, Erasing, Writing, Asked, OnlyAsked, Allowed

LEMMA NextInv == IInv /\ [Next]_vars => IInv'
<1> SUFFICES ASSUME IInv, [Next]_vars PROVE IInv'
  OBVIOUS
<1>1. CASE UNCHANGED vars
  BY <1>1 DEF vars, cr, call, IInv, TypeOK, Mode, Ready, Erasing, PageBytes, Writing, Asked,
     OnlyAsked, Allowed
<1>2. QED
  BY <1>1, BeginEraseInv, BeginWriteInv, ControllerInv, NextWordInv, IdleInv DEF Next

\* Whatever the driver is called with, IInv holds after every access to the controller.
THEOREM DriverInvariant == Spec => []IInv
  BY InitInv, NextInv, PTL DEF Spec

\* The driver's state is of its type whatever it is called with.
THEOREM TypeCorrect == Spec => []TypeOK
<1>1. IInv => TypeOK
  BY DEF IInv
<1>2. QED
  BY <1>1, DriverInvariant, PTL

\* An erase changes its page and a write its words, for every page size, number of pages
\* and position of the flash.
THEOREM OnlyAskedHolds == Spec => []OnlyAsked
<1>1. IInv => OnlyAsked
  BY DEF IInv
<1>2. QED
  BY <1>1, DriverInvariant, PTL

\* drivers/flash.c:111-126, for every width of an address: no sum that wraps opens a way to
\* the bootloader or past the flash.
THEOREM BootloaderUntouchedHolds == Spec => []BootloaderUntouched
<1>1. ASSUME IInv PROVE BootloaderUntouched
  <2>1. touched \subseteq address..(address + len - 1) /\ address \in Nat /\ len \in Nat
    BY <1>1, Numbers DEF IInv, OnlyAsked, TypeOK, Address
  <2>2. CASE touched # {}
    BY <1>1, <2>1, <2>2, Sizes DEF IInv, Asked, Allowed, BootloaderUntouched
  <2>3. QED
    BY <2>2 DEF BootloaderUntouched
<1>2. QED
  BY <1>1, DriverInvariant, PTL

\* Every operation finds the controller ready, after any sequence of calls, errors and resets.
THEOREM StartsCleanHolds == Spec => []StartsClean
<1>1. IInv => StartsClean
  BY DEF IInv, Mode, StartsClean
<1>2. QED
  BY <1>1, DriverInvariant, PTL
=============================================================================
