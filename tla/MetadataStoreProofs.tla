------------------------- MODULE MetadataStoreProofs -------------------------
(***************************************************************************)
(* Proofs about MetadataStore, for every set of records, every number of   *)
(* double-words and every endurance.  The inductive invariant ties a write *)
(* under way to the page it left alone: while the target page is erased or *)
(* programmed the other page is the current one, and carries a smaller     *)
(* counter than the record being written.                                  *)
(***************************************************************************)
EXTENDS MetadataStore, TLAPS

Other == 1 - target

\* The record under way supersedes what the other page holds.
Supersedes == Valid(page[Other]) => page[Other].counter < counter

\* The inductive invariant: what is known at each step of metadata_write().
WriteInv ==
    /\ step # "idle" => content \in Content /\ status = "none" /\ Supersedes
    /\ step = "erase" => (Readable => CurrentPage = Other)
    /\ step = "program" => page[target].words < Words /\ page[target].ok
    /\ step = "verify" => page[target] = [words |-> Words, ok |-> TRUE,
                                          counter |-> counter, content |-> content]

IInv == TypeOK /\ NoCounterTie /\ WriteInv /\ OkIsCurrent

LEMMA InitInv == Init => IInv
<1> SUFFICES ASSUME Init PROVE IInv
  OBVIOUS
<1> USE StoreAssumption DEF Init, IInv, TypeOK, NoCounterTie, WriteInv, OkIsCurrent, PageIndex,
       Page, Erased, Valid
<1>1. CASE page = [i \in PageIndex |-> Erased]
  BY <1>1
<1>2. ASSUME NEW c \in Sane,
             page = [i \in PageIndex |->
                       IF i = 0
                       THEN [words |-> Words, ok |-> TRUE, counter |-> 1, content |-> c]
                       ELSE Erased]
      PROVE  IInv
  BY <1>2
<1>3. QED
  BY <1>1, <1>2

\* An erased page and a damaged one are well formed too.
LEMMA ErasedPage == Erased \in Page
  BY StoreAssumption DEF Erased, Page

LEMMA TornPage == \A p \in Page : Torn(p) \in Page
  BY DEF Torn, Page

\* Programming one more double-word of the record under way gives a well-formed page.
LEMMA ProgrammedPage ==
  ASSUME IInv, step = "program"
  PROVE  Programmed(page[target]) \in Page
<1>1. page[target] \in Page /\ page[target].words < Words
  BY DEF IInv, TypeOK, WriteInv
<1>2. page[target].words \in 0..Words /\ page[target].ok \in BOOLEAN
  BY <1>1 DEF Page
<1>3. page[target].words + 1 \in 0..Words
  BY <1>1, <1>2, StoreAssumption
<1>4. counter \in Nat /\ content \in Content \cup {NoContent}
  BY DEF IInv, TypeOK
<1>5. QED
  BY <1>2, <1>3, <1>4 DEF Page, Programmed

\* A flash operation that stops short, by a fault or by a cut, ends the write.
LEMMA InterruptedInv ==
  ASSUME IInv,
         NEW q \in Interrupted(page[target]),
         page' = [page EXCEPT ![target] = q],
         step' = "idle",
         status' \in {"none", "META_ERR_ERASE", "META_ERR_WRITE", "META_ERR_VERIFY"},
         UNCHANGED <<target, counter, content>>
  PROVE  IInv'
<1> USE StoreAssumption DEF IInv, PageIndex
<1>1. TypeOK'
  <2>1. q \in Page
    <3>1. CASE step = "erase"
      BY <3>1, ErasedPage, TornPage DEF TypeOK, Interrupted
    <3>2. CASE step = "program"
      <4>1. Programmed(page[target]) \in Page
        BY <3>2, ProgrammedPage
      <4>2. QED
        BY <3>2, <4>1, TornPage DEF TypeOK, Interrupted
    <3>3. CASE step \in {"idle", "verify"}
      BY <3>3 DEF TypeOK, Interrupted
    <3>4. QED
      BY <3>1, <3>2, <3>3 DEF TypeOK
  <2>2. QED
    BY <2>1 DEF TypeOK
<1>2. NoCounterTie'
  <2> USE DEF Page
  <2>1. CASE step = "idle"
    BY <2>1 DEF NoCounterTie, Interrupted, TypeOK, Valid
  <2>2. CASE step = "erase"
    BY <2>2 DEF NoCounterTie, Interrupted, Torn, Erased, TypeOK, Valid
  <2>3. CASE step = "program"
    BY <2>3 DEF NoCounterTie, Interrupted, Torn, Programmed, TypeOK, Valid, WriteInv, Supersedes, Other
  <2>4. CASE step = "verify"
    BY <2>4 DEF NoCounterTie, Interrupted, TypeOK, Valid
  <2>5. QED
    BY <2>1, <2>2, <2>3, <2>4 DEF TypeOK
<1>3. WriteInv' /\ OkIsCurrent'
  BY DEF WriteInv, OkIsCurrent
<1>4. QED
  BY <1>1, <1>2, <1>3

LEMMA StepInv == IInv /\ [Next]_vars => IInv'
<1> SUFFICES ASSUME IInv, [Next]_vars PROVE IInv'
  OBVIOUS
<1> USE StoreAssumption DEF IInv, PageIndex, Page
<1>1. ASSUME NEW c \in Content, Write(c) PROVE IInv'
  BY <1>1 DEF Write, TypeOK, NoCounterTie, WriteInv, OkIsCurrent, Supersedes, Other,
     Readable, CurrentPage, TargetPage, NextCounter, Valid
<1>2. CASE Erase
  BY <1>2 DEF Erase, Erased, TypeOK, NoCounterTie, WriteInv, OkIsCurrent, Supersedes, Other,
     Readable, CurrentPage, Valid
<1>3. CASE Program
  <2>1. Programmed(page[target]) \in Page
    BY <1>3, ProgrammedPage DEF Program
  <2>2. TypeOK'
    BY <1>3, <2>1 DEF Program, TypeOK
  <2>3. NoCounterTie'
    BY <1>3 DEF Program, Programmed, TypeOK, NoCounterTie, WriteInv, Supersedes, Other, Valid
  <2>4. WriteInv'
    <3>1. page' = [page EXCEPT ![target] = Programmed(page[target])]
      BY <1>3 DEF Program
    <3>2. page'[target] = Programmed(page[target]) /\ page'[Other] = page[Other]
      BY <3>1 DEF TypeOK, Other
    <3>3. UNCHANGED <<target, counter, content, status>> /\ step = "program"
      BY <1>3 DEF Program
    <3>4. Supersedes'
      BY <3>2, <3>3 DEF WriteInv, Supersedes, Valid, Other
    <3>5. step' = "program" => page'[target].words < Words /\ page'[target].ok
      <4>1. page[target].words \in 0..Words /\ page[target].words < Words
        BY <3>3 DEF WriteInv, TypeOK
      <4>2. QED
        BY <1>3, <3>2, <3>3, <4>1 DEF Program, WriteInv, Programmed
    <3>6. step' = "verify" => page'[target] = [words |-> Words, ok |-> TRUE,
                                               counter |-> counter, content |-> content]
      BY <1>3, <3>2, <3>3 DEF Program, WriteInv, Programmed
    <3>7. step' \in {"program", "verify"}
      BY <1>3 DEF Program
    <3>8. QED
      BY <3>3, <3>4, <3>5, <3>6, <3>7 DEF WriteInv
  <2>5. OkIsCurrent'
    BY <1>3 DEF Program, WriteInv, OkIsCurrent
  <2>6. QED
    BY <2>2, <2>3, <2>4, <2>5
<1>4. CASE Verify
  <2>1. TypeOK' /\ NoCounterTie' /\ WriteInv'
    BY <1>4 DEF Verify, Return, TypeOK, NoCounterTie, WriteInv, Valid
  <2>2. OkIsCurrent'
    BY <1>4 DEF Verify, Return, TypeOK, WriteInv, OkIsCurrent, Supersedes, Other,
       Readable, CurrentPage, metadata_read, Valid
  <2>3. QED
    BY <2>1, <2>2
<1>5. CASE FlashFault
  BY <1>5, InterruptedInv DEF FlashFault, Return
<1>6. CASE PowerCut
  BY <1>6, InterruptedInv DEF PowerCut, Return
<1>7. CASE UNCHANGED vars
  BY <1>7 DEF vars, TypeOK, NoCounterTie, WriteInv, OkIsCurrent, Supersedes, Other,
     Readable, CurrentPage, metadata_read, Valid
<1>8. QED
  BY <1>1, <1>2, <1>3, <1>4, <1>5, <1>6, <1>7 DEF Next

\* Types hold, two valid copies never tie, and META_OK means the record is the one read:
\* metadata_write()'s contract over every history of writes, faults and power cuts.
THEOREM StoreInvariant == Spec => []IInv
<1>1. QED
  BY InitInv, StepInv, PTL DEF Spec

THEOREM StoreSafe == Spec => [](TypeOK /\ NoCounterTie /\ OkIsCurrent)
<1>1. IInv => TypeOK /\ NoCounterTie /\ OkIsCurrent
  BY DEF IInv
<1>2. QED
  BY <1>1, StoreInvariant, PTL

\* The call's copies of the record, the pages and the counters stay in their ranges.
THEOREM TypeCorrect == Spec => []TypeOK
<1>1. QED
  BY StoreSafe, PTL

\* Two valid copies never share a counter, so metadata_read()'s preference for page A on a
\* tie (metadata_mgr.c:122) decides nothing.
THEOREM CountersDiffer == Spec => []NoCounterTie
<1>1. QED
  BY StoreSafe, PTL

\* The page being erased or programmed is never the one metadata_read() would choose.
LEMMA UntouchedFromInv == IInv => CurrentCopyUntouched
  BY StoreAssumption DEF IInv, CurrentCopyUntouched, WriteInv, TypeOK, Supersedes, Other, Readable,
     CurrentPage, Valid, PageIndex, Page

\* A write never works on the page metadata_read() would choose: the current copy stays
\* readable until the new one is complete.
THEOREM TargetNeverCurrent == Spec => []CurrentCopyUntouched
<1>1. QED
  BY UntouchedFromInv, StoreInvariant, PTL

\* A valid copy survives every step: a power cut never destroys both.
THEOREM CopyAlwaysSurvives == Spec => CopySurvives
<1>1. IInv /\ [Next]_vars => (Readable => Readable')
  <2> SUFFICES ASSUME IInv, [Next]_vars, Readable PROVE Readable'
    OBVIOUS
  <2> USE DEF PageIndex
  <2>1. CASE step \in {"erase", "program"}
    <3>1. Valid(page[Other]) /\ Other \in PageIndex /\ Other # target
      BY <2>1, UntouchedFromInv DEF CurrentCopyUntouched, IInv, TypeOK, Readable, CurrentPage, Other
    <3>2. page'[Other] = page[Other]
      BY <3>1, <2>1 DEF IInv, TypeOK, Next, Write, Erase, Program, Verify, FlashFault, PowerCut, vars
    <3>3. QED
      BY <3>1, <3>2 DEF Readable, Valid
  <2>2. CASE step \in {"idle", "verify"}
    <3>1. page' = page
      BY <2>2 DEF IInv, TypeOK, Next, Write, Erase, Program, Verify, FlashFault, PowerCut,
         Interrupted, vars
    <3>2. QED
      BY <3>1 DEF Readable, Valid
  <2>3. QED
    BY <2>1, <2>2 DEF IInv, TypeOK
<1>2. QED
  BY <1>1, StoreInvariant, PTL DEF Spec, CopySurvives

-----------------------------------------------------------------------------
(* Refinement: the dual-page store implements the atomic register. *)

Pending == IF step = "idle" THEN NoContent ELSE content

LEMMA InitRefines == Init => Register!Init
<1> SUFFICES ASSUME Init PROVE Register!Init
  OBVIOUS
<1>1. metadata_read \in Sane \cup {NoContent}
  BY StoreAssumption DEF Init, metadata_read, Readable, CurrentPage, Valid, PageIndex, Erased
<1>2. QED
  BY <1>1 DEF Init, Register!Init

\* What a page change does to the record read, when only the target page changes.
LEMMA ReadAfter ==
  ASSUME IInv, step # "idle", page' \in [PageIndex -> Page],
         page'[Other] = page[Other]
  PROVE  /\ Valid(page'[target]) /\ page'[target].counter = counter
              => metadata_read' = page'[target].content
         /\ ~Valid(page'[target]) /\ (Readable => CurrentPage # target)
              => metadata_read' = metadata_read
         /\ page'[target] = page[target] => metadata_read' = metadata_read
<1> USE StoreAssumption DEF IInv, TypeOK, PageIndex, Page
<1>1. target \in {0, 1} /\ Other \in {0, 1} /\ Other # target
  BY DEF Other
<1>2. Supersedes
  BY DEF WriteInv
<1>3. ASSUME Valid(page'[target]), page'[target].counter = counter
      PROVE  metadata_read' = page'[target].content
  BY <1>1, <1>2, <1>3 DEF Supersedes, metadata_read, Readable, CurrentPage, Valid, Other
<1>4. ASSUME ~Valid(page'[target]), Readable => CurrentPage # target
      PROVE  metadata_read' = metadata_read
  BY <1>1, <1>4 DEF metadata_read, Readable, CurrentPage, Valid, Other
<1>5. ASSUME page'[target] = page[target]
      PROVE  metadata_read' = metadata_read
  <2>1. page' = page
    BY <1>1, <1>5
  <2>2. QED
    BY <2>1 DEF metadata_read, Readable, CurrentPage, Valid
<1>6. QED
  BY <1>3, <1>4, <1>5

\* A fault or a cut leaves the old record current, or the whole new one.
LEMMA InterruptedRefines ==
  ASSUME IInv, step # "idle",
         NEW q \in Interrupted(page[target]),
         page' = [page EXCEPT ![target] = q],
         page' \in [PageIndex -> Page]
  PROVE  metadata_read' \in {metadata_read} \cup ({content} \cap Sane)
<1>1. target \in PageIndex /\ Other \in PageIndex /\ Other # target
  BY DEF IInv, TypeOK, PageIndex, Other
<1>2. page'[target] = q /\ page'[Other] = page[Other]
  BY <1>1 DEF IInv, TypeOK
<1>3. CASE q = page[target]
  BY <1>2, <1>3, ReadAfter
<1>4. CASE q # page[target]
  <2>1. step \in {"erase", "program"}
    BY <1>4 DEF Interrupted
  <2>2. Readable => CurrentPage # target
    BY <2>1, UntouchedFromInv DEF CurrentCopyUntouched
  <2>3. CASE ~Valid(q)
    BY <1>2, <2>2, <2>3, ReadAfter
  <2>4. CASE Valid(q)
    <3>1. q = Programmed(page[target])
      <4>1. ~Valid(Erased)
        BY StoreAssumption DEF Erased, Valid
      <4>2. ~Valid(Torn(page[target]))
        BY DEF IInv, TypeOK, Page, Torn, Valid
      <4>3. ~Valid(Torn(Programmed(page[target])))
        BY DEF Programmed, Torn, Valid
      <4>4. QED
        BY <1>4, <2>4, <4>1, <4>2, <4>3 DEF Interrupted
    <3>2. q.counter = counter /\ q.content = content /\ content \in Sane
      BY <3>1, <2>4 DEF Programmed, Valid
    <3>3. QED
      BY <1>2, <2>4, <3>2, ReadAfter
  <2>5. QED
    BY <2>3, <2>4
<1>5. QED
  BY <1>3, <1>4

LEMMA StepRefines == IInv /\ IInv' /\ [Next]_vars => [Register!Next]_(Register!vars)
<1> SUFFICES ASSUME IInv, IInv', [Next]_vars
             PROVE  Register!Next \/ UNCHANGED <<metadata_read, Pending, status>>
  BY DEF Register!vars, Pending
<1> USE StoreAssumption
<1>1. page' \in [PageIndex -> Page] /\ target \in PageIndex /\ Other \in PageIndex /\ Other # target
  BY DEF IInv, TypeOK, Other, PageIndex
<1>2. step # "idle" => Pending = content /\ content \in Content /\ content # NoContent
  BY DEF IInv, WriteInv, Pending
<1>3. page' = page => metadata_read' = metadata_read
  BY DEF metadata_read, Readable, CurrentPage, Valid
<1>4. ASSUME NEW c \in Content, Write(c) PROVE Register!Begin(c)
  BY <1>3, <1>4 DEF Write, Register!Begin, Pending
<1>5. CASE Erase
  <2>1. page'[target] = Erased /\ page'[Other] = page[Other]
    BY <1>1, <1>5 DEF Erase, IInv, TypeOK
  <2>2. ~Valid(page'[target]) /\ (Readable => CurrentPage # target)
    BY <1>5, <2>1, UntouchedFromInv DEF Erase, Erased, Valid, CurrentCopyUntouched
  <2>3. metadata_read' = metadata_read
    BY <1>1, <1>5, <2>1, <2>2, ReadAfter DEF Erase
  <2>4. QED
    BY <1>5, <2>3 DEF Erase, Pending
<1>6. CASE Program
  <2>1. page'[target] = Programmed(page[target]) /\ page'[Other] = page[Other]
    BY <1>1, <1>6 DEF Program, IInv, TypeOK
  <2>2. Readable => CurrentPage # target
    BY <1>6, UntouchedFromInv DEF Program, CurrentCopyUntouched
  <2>3. UNCHANGED <<Pending, status>>
    BY <1>6 DEF Program, Pending
  <2>4. CASE Valid(page'[target])
    <3>1. metadata_read' = content /\ content \in Sane
      BY <1>1, <1>6, <2>1, <2>4, ReadAfter DEF Program, Programmed, Valid
    <3>2. Register!TakeEffect
      BY <1>2, <1>6, <2>3, <3>1 DEF Program, Register!TakeEffect, Pending
    <3>3. QED
      BY <3>2 DEF Register!Next
  <2>5. CASE ~Valid(page'[target])
    BY <1>1, <1>6, <2>1, <2>2, <2>3, <2>5, ReadAfter DEF Program
  <2>6. QED
    BY <2>4, <2>5
<1>7. CASE Verify
  <2>1. metadata_read' = metadata_read /\ Pending' = NoContent
    BY <1>3, <1>7 DEF Verify, Return, Pending
  <2>2. CASE status' = "META_OK"
    <3>1. metadata_read = content /\ content \in Sane
      BY <1>7, <2>1, <2>2 DEF Verify, Return, IInv, OkIsCurrent, WriteInv, Valid
    <3>2. Register!ReturnOk
      BY <1>2, <1>7, <2>1, <2>2, <3>1 DEF Verify, Register!ReturnOk, Pending
    <3>3. QED
      BY <3>2 DEF Register!Next
  <2>3. CASE status' = "META_ERR_VERIFY"
    <3>1. Register!ReturnError
      BY <1>2, <1>7, <2>1, <2>3 DEF Verify, Register!ReturnError, Register!Outcome, Pending
    <3>2. QED
      BY <3>1 DEF Register!Next
  <2>4. QED
    BY <1>7, <2>2, <2>3 DEF Verify, Return
<1>8. CASE FlashFault
  <2>1. metadata_read' \in {metadata_read} \cup ({content} \cap Sane)
    BY <1>1, <1>8, InterruptedRefines DEF FlashFault
  <2>2. Register!ReturnError
    BY <1>2, <1>8, <2>1 DEF FlashFault, Return, Register!ReturnError, Register!Outcome, Pending
  <2>3. QED
    BY <2>2 DEF Register!Next
<1>9. CASE PowerCut
  <2>1. Pending' = NoContent /\ status' = "none"
    BY <1>9 DEF PowerCut, Return, Pending
  <2>2. CASE step = "idle"
    <3>1. page' = page
      BY <1>1, <1>9, <2>2 DEF PowerCut, Interrupted, IInv, TypeOK
    <3>2. QED
      BY <1>3, <2>1, <3>1 DEF Register!Next, Register!PowerCut, Register!Outcome, Pending
  <2>3. CASE step # "idle"
    <3>1. metadata_read' \in {metadata_read} \cup ({content} \cap Sane)
      BY <1>1, <1>9, <2>3, InterruptedRefines DEF PowerCut
    <3>2. Register!PowerCut
      BY <1>2, <2>1, <2>3, <3>1 DEF Register!PowerCut, Register!Outcome, Pending
    <3>3. QED
      BY <3>2 DEF Register!Next
  <2>4. QED
    BY <2>2, <2>3
<1>10. CASE UNCHANGED vars
  BY <1>3, <1>10 DEF vars, Pending
<1>11. QED
  BY <1>4, <1>5, <1>6, <1>7, <1>8, <1>9, <1>10 DEF Next, Register!Next

\* Whatever the flash and the power supply do, metadata_write() and metadata_read()
\* behave as one atomic register.
THEOREM StoreRefines == Spec => RefinesRegister
<1>1. QED
  BY InitRefines, StepRefines, StoreInvariant, PTL DEF Spec, RefinesRegister, Register!Spec
=============================================================================
