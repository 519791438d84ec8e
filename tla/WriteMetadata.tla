---------------------------- MODULE WriteMetadata ----------------------------
(***************************************************************************)
(* tools/write_metadata.py: describing an image that was flashed over SWD. *)
(* The tool reads both metadata pages through openocd, keeps what they say *)
(* of the other slot, erases both pages and writes one record.  Every      *)
(* openocd run may fail, and the cable may come off in the middle of one.  *)
(*                                                                         *)
(* Between runs of the tool the board updates itself: the writes of        *)
(* OtaSystem, on the page metadata_write() chooses (MetadataStore).  A     *)
(* page holds a record that passes the checks, with its counter, or none.  *)
(* An image stands for its size, CRC and version.                          *)
(***************************************************************************)
EXTENDS Integers

CONSTANTS Image, Junk,   \* images; a slot without a whole image
          NoImage,       \* the zero description of an EMPTY slot
          NoRecord,      \* a page without a valid record
          MaxCounter     \* bound on the record counter when a run of the tool begins

ASSUME ToolAssumption == /\ Junk \notin Image /\ NoImage \notin Image \cup {Junk}
                         /\ MaxCounter \in Nat \ {0}

Slot == {0, 1}
Other(s) == 1 - s
Info == [image : Image \cup {NoImage}, state : {"EMPTY", "IN_PROGRESS", "TESTING", "VALID"}]
Record == [active_slot : Slot, slot : [Slot -> Info]]
EmptySlot == [image |-> NoImage, state |-> "EMPTY"]
Page == [counter : 1..MaxCounter + 1, record : Record]

ASSUME NoRecordAssumption == NoRecord \notin Page

VARIABLES page,      \* the two metadata pages
          contents,  \* what each slot holds
          step,      \* where the tool is
          slot,      \* --slot
          dump,      \* what read_existing() got of each page
          failed,    \* an openocd run of this invocation failed
          existing   \* history: the other slot in the record in force when the tool began

all == <<page, contents, step, slot, dump, failed, existing>>
tool == <<slot, dump, failed, existing>>

-----------------------------------------------------------------------------
(* Records *)

\* Mutant of Best: the first page that checks out.
BestFirst(p) == IF p[0] # NoRecord THEN p[0] ELSE p[1]

\* The valid copy with the higher counter, page A on a tie: read_existing(), and
\* metadata_read() on the board.
Best(p) == IF p[1] # NoRecord /\ (p[0] # NoRecord => p[1].counter > p[0].counter)
           THEN p[1] ELSE p[0]

\* metadata_read()
Current == IF page[1] # NoRecord /\ (page[0] # NoRecord => page[1].counter > page[0].counter)
           THEN page[1] ELSE page[0]

ToolInit == /\ page = [i \in Slot |-> NoRecord]
            /\ contents = [s \in Slot |-> Junk]
            /\ step = "idle" /\ slot = 0
            /\ dump = [i \in Slot |-> NoRecord]
            /\ failed = FALSE /\ existing = EmptySlot

-----------------------------------------------------------------------------
(* The board, between two invocations *)

InForce == IF Current = NoRecord THEN [active_slot |-> 0, slot |-> [s \in Slot |-> EmptySlot]]
           ELSE Current.record
Active == InForce.active_slot

\* metadata_write(), on the page that is not current.
BoardWrites(r) ==
    LET n == IF Current = NoRecord THEN 1 ELSE Current.counter + 1
        i == IF Current # NoRecord /\ Current = page[0] THEN 1 ELSE 0
    IN  /\ step = "idle" /\ n <= MaxCounter
        /\ page' = [page EXCEPT ![i] = [counter |-> n, record |-> r]]
        /\ UNCHANGED <<step, tool>>

\* A transfer starts; it gets as far as the whole image, or not.
Transfer(img) == /\ BoardWrites([InForce EXCEPT !.slot[Other(Active)] =
                                    [image |-> img, state |-> "IN_PROGRESS"]])
                 /\ \E c \in {img, Junk} : contents' = [contents EXCEPT ![Other(Active)] = c]

Install == /\ InForce.slot[Other(Active)].state = "IN_PROGRESS"
           /\ contents[Other(Active)] = InForce.slot[Other(Active)].image
           /\ BoardWrites([InForce EXCEPT !.active_slot = Other(Active),
                                          !.slot[Other(Active)].state = "TESTING"])
           /\ UNCHANGED contents

Bootable(s) == InForce.slot[s].state # "EMPTY" /\ contents[s] = InForce.slot[s].image

Confirm == /\ Bootable(Active)
           /\ BoardWrites([InForce EXCEPT !.slot[Active].state = "VALID"])
           /\ UNCHANGED contents

RollBack == /\ InForce.slot[Active].state = "TESTING" /\ Bootable(Other(Active))
            /\ BoardWrites([InForce EXCEPT !.active_slot = Other(Active),
                                           !.slot[Active].state = "EMPTY"])
            /\ UNCHANGED contents

Board == Install \/ Confirm \/ RollBack \/ \E img \in Image : Transfer(img)

-----------------------------------------------------------------------------
(* The tool *)

\* make flashA or flashB, then the tool.
Begin(s, img) == /\ step = "idle"
                 /\ Current # NoRecord => Current.counter <= MaxCounter
                 /\ contents' = [contents EXCEPT ![s] = img]
                 /\ slot' = s
                 /\ dump' = [i \in Slot |-> NoRecord]
                 /\ failed' = FALSE
                 /\ existing' = InForce.slot[Other(s)]
                 /\ step' = "dump A"
                 /\ UNCHANGED page

\* dump_image: a run that fails counts as a page without a record.
Dump(i, here, next) == /\ step = here
                       /\ step' = next
                       /\ \/ dump' = [dump EXCEPT ![i] = page[i]] /\ UNCHANGED failed
                          \/ failed' = TRUE /\ UNCHANGED dump
                       /\ UNCHANGED <<page, contents, slot, existing>>

\* openocd hangs and its 90 s run out: the exception ends the tool, nothing was written.
TimedOut == /\ step \in {"dump A", "dump B"}
            /\ step' = "idle"
            /\ UNCHANGED <<page, contents, tool>>

\* What the new record says of the other slot: any that was described, by a state and a
\* size, is VALID.
Preserved(s) == IF /\ Best(dump) # NoRecord
                   /\ Best(dump).record.slot[s].state # "EMPTY"
                   /\ Best(dump).record.slot[s].image # NoImage
                THEN [Best(dump).record.slot[s] EXCEPT !.state = "VALID"] ELSE EmptySlot

NextCounter == IF Best(dump) # NoRecord THEN Best(dump).counter + 1 ELSE 1

\* build_metadata()
Built(s) == [counter |-> NextCounter,
             record |-> [active_slot |-> s,
                         slot |-> [t \in Slot |-> IF t = s
                                                  THEN [image |-> contents[s], state |-> "VALID"]
                                                  ELSE Preserved(t)]]]

\* Mutant of Erased: only the page that is written.
ErasedOne == [page EXCEPT ![0] = NoRecord]

\* flash erase_address over both pages.
Erased == [i \in Slot |-> NoRecord]

\* The last openocd run: the pages are erased in order, then page A is written.
WriteRecord == /\ step = "write"
               /\ page' = [Erased EXCEPT ![0] = Built(slot)]
               /\ step' = "done"
               /\ UNCHANGED <<contents, tool>>

\* It fails, or the cable comes off: before, between or after its steps.
WriteFails == /\ step = "write"
              /\ page' \in {page, [page EXCEPT ![0] = NoRecord], Erased,
                            [Erased EXCEPT ![0] = Built(slot)]}
              /\ step' = "idle"
              /\ UNCHANGED <<contents, tool>>

\* "reset run": the board starts again.
ResetRun == /\ step = "done"
            /\ step' = "idle"
            /\ UNCHANGED <<page, contents, tool>>

ToolNext == \/ Board
            \/ \E s \in Slot, img \in Image : Begin(s, img)
            \/ Dump(0, "dump A", "dump B") \/ Dump(1, "dump B", "write") \/ TimedOut
            \/ WriteRecord \/ WriteFails \/ ResetRun

ToolSpec == ToolInit /\ [][ToolNext]_all
-----------------------------------------------------------------------------
(* Properties *)

\* write_metadata.py:206, the record written is the one the board reads: no copy left on
\* the other page wins over it, whatever could be read of the pages before.
WrittenIsRead == step = "done" =>
    /\ Current # NoRecord /\ Current.record.active_slot = slot
    /\ Current.record.slot[slot] = [image |-> contents[slot], state |-> "VALID"]

\* write_metadata.py:91, when openocd could read the pages the other slot keeps the image
\* the record in force described, and is not invented when it described none.
OtherSlotKept ==
    step = "done" /\ ~failed =>
        Current.record.slot[Other(slot)].image =
            IF existing.state = "EMPTY" THEN NoImage ELSE existing.image
=============================================================================
