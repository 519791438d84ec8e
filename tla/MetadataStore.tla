---------------------------- MODULE MetadataStore ----------------------------
(***************************************************************************)
(* drivers/metadata_mgr.c: the metadata record is kept twice, on two flash *)
(* pages, and every write goes to the page that does not hold the current  *)
(* copy.  The module models metadata_write() one flash operation at a time *)
(* (erase the page, program its double-words, read the record back) with a *)
(* flash fault or a power cut possible inside each of them.                *)
(*                                                                         *)
(* A page is a record: how many of its double-words are programmed, with   *)
(* which counter and content, and whether all of its cells hold what was   *)
(* written (ok).  A page whose erase or programming was cut has ok = FALSE *)
(* or fewer than Words double-words; the CRC over the record rejects both  *)
(* (no CRC collision: a torn record never checks out).                     *)
(***************************************************************************)
EXTENDS Integers

CONSTANTS Content,     \* records a caller may pass: slots, active slot, fail count
          Sane,        \* those whose fields metadata_is_valid() accepts
          NoContent,   \* metadata_read() found no valid copy
          Words,       \* double-words in metadata_t (48 bytes: 6)
          MaxCounter   \* writes the pages endure; far below the 2^32 of the counter

ASSUME StoreAssumption == /\ Sane \subseteq Content
                          /\ NoContent \notin Content
                          /\ Words \in Nat \ {0}
                          /\ MaxCounter \in Nat \ {0}

VARIABLES page,      \* the two metadata pages
          step,      \* where metadata_write() is
          target,    \* the page it writes
          counter,   \* the counter it writes
          content,   \* the record it writes
          status     \* what the last metadata_write() returned

vars == <<page, step, target, counter, content, status>>

PageIndex == {0, 1}

Page == [words : 0..Words, ok : BOOLEAN, counter : Nat, content : Content \cup {NoContent}]

Erased == [words |-> 0, ok |-> TRUE, counter |-> 0, content |-> NoContent]

Torn(p) == [p EXCEPT !.ok = FALSE]

-----------------------------------------------------------------------------
(* Reading *)

\* load_page() and metadata_is_valid(): magic, CRC, and fields in range.
Valid(p) == p.words = Words /\ p.ok /\ p.content \in Sane

Readable == \E i \in PageIndex : Valid(page[i])

\* The page metadata_read() prefers: the valid one, or of two valid ones the
\* one with the higher counter, page 0 on a tie.
CurrentPage == IF Valid(page[1]) /\ (Valid(page[0]) => page[1].counter > page[0].counter)
               THEN 1 ELSE 0

metadata_read == IF Readable THEN page[CurrentPage].content ELSE NoContent

\* Mutant of TargetPage: the first page, always.
TargetPageFirst == 0

\* select_target(): the page that does not hold the current copy.
TargetPage == IF Readable THEN 1 - CurrentPage ELSE 0

\* Mutant of NextCounter: the counter is not incremented.
NextCounterSame == IF Readable THEN page[CurrentPage].counter ELSE 1

\* One more than the counter of the current copy.
NextCounter == IF Readable THEN page[CurrentPage].counter + 1 ELSE 1

-----------------------------------------------------------------------------
(* Writing *)

\* A blank board, or one prepared by tools/write_metadata.py.
Init == /\ page \in {[i \in PageIndex |-> Erased]} \cup
                    {[i \in PageIndex |->
                        IF i = 0
                        THEN [words |-> Words, ok |-> TRUE, counter |-> 1, content |-> c]
                        ELSE Erased] : c \in Sane}
        /\ step = "idle"
        /\ target = 0
        /\ counter = 0
        /\ content = NoContent
        /\ status = "none"

\* metadata_write(src): choose the page and build the record.
Write(c) == /\ step = "idle"
            /\ NextCounter <= MaxCounter
            /\ target' = TargetPage
            /\ counter' = NextCounter
            /\ content' = c
            /\ step' = "erase"
            /\ status' = "none"
            /\ UNCHANGED page

Return(result) == /\ step' = "idle"
                  /\ status' = result

\* flash_erase_page(), checked blank by flash_is_erased().
Erase == /\ step = "erase"
         /\ page' = [page EXCEPT ![target] = Erased]
         /\ step' = "program"
         /\ UNCHANGED <<target, counter, content, status>>

\* The target page with one more of the record's double-words in it.
Programmed(p) == [words |-> p.words + 1, ok |-> p.ok, counter |-> counter, content |-> content]

\* One pass of flash_write()'s loop; after the last one its read-back compares.
Program == /\ step = "program"
           /\ page' = [page EXCEPT ![target] = Programmed(@)]
           /\ step' = IF page[target].words + 1 = Words THEN "verify" ELSE "program"
           /\ UNCHANGED <<target, counter, content, status>>

\* Mutant of Verify: the record is not read back.
VerifyNothing == /\ step = "verify"
                 /\ Return("META_OK")
                 /\ UNCHANGED <<page, target, counter, content>>

\* load_page() on what was just written, and the counter compared.
Verify == /\ step = "verify"
          /\ Return(IF Valid(page[target]) /\ page[target].counter = counter
                    THEN "META_OK" ELSE "META_ERR_VERIFY")
          /\ UNCHANGED <<page, target, counter, content>>

\* What a page can be once the operation under way stopped short: untouched,
\* damaged, or as if the operation had finished.
Interrupted(p) ==
    {p} \cup (IF step = "erase" THEN {Torn(p), Erased} ELSE {})
        \cup (IF step = "program" THEN {Torn(p), Programmed(p), Torn(Programmed(p))} ELSE {})

\* The flash controller reports an error, or the driver's own check fails.
FlashFault == /\ step \in {"erase", "program"}
              /\ \E q \in Interrupted(page[target]) : page' = [page EXCEPT ![target] = q]
              /\ Return(IF step = "erase" THEN "META_ERR_ERASE" ELSE "META_ERR_WRITE")
              /\ UNCHANGED <<target, counter, content>>

\* The supply fails; RAM, and with it the write under way, is gone.
PowerCut == /\ \E q \in Interrupted(page[target]) : page' = [page EXCEPT ![target] = q]
            /\ Return("none")
            /\ UNCHANGED <<target, counter, content>>

Next == \/ \E c \in Content : Write(c)
        \/ Erase
        \/ Program
        \/ Verify
        \/ FlashFault
        \/ PowerCut

Spec == Init /\ [][Next]_vars
-----------------------------------------------------------------------------
(* Properties *)

\* Types; a page being programmed is not complete yet and holds this record.
TypeOK == /\ page \in [PageIndex -> Page]
          /\ step \in {"idle", "erase", "program", "verify"}
          /\ target \in PageIndex
          /\ counter \in Nat
          /\ content \in Content \cup {NoContent}
          /\ status \in {"none", "META_OK", "META_ERR_ERASE", "META_ERR_WRITE", "META_ERR_VERIFY"}

\* shared/metadata_mgr.h:17-20: "a power cut can never destroy both copies": once
\* a valid copy exists there is one after every step, faults and cuts included.
CopySurvives == [][Readable => Readable']_vars

\* Two valid copies never carry the same counter, so metadata_read()'s choice
\* of page 0 on a tie (metadata_mgr.c:120-122) is never what decides.
NoCounterTie == Valid(page[0]) /\ Valid(page[1]) => page[0].counter # page[1].counter

\* While a write is under way the page it works on is not the one that
\* metadata_read() would choose, until the new record is complete on it
\* (metadata_mgr.c:141-147).
CurrentCopyUntouched ==
    step \in {"erase", "program"} /\ Readable => CurrentPage # target

\* A META_OK answer means that the next metadata_read() returns that record.
OkIsCurrent == status = "META_OK" => metadata_read = content

\* The dual-page store implements the single atomic register: a cut or failed
\* write leaves the old record or the new one, never a mixture or nothing.
Register == INSTANCE MetadataRegister WITH
                current <- metadata_read,
                pending <- IF step = "idle" THEN NoContent ELSE content
RefinesRegister == Register!Spec
=============================================================================
