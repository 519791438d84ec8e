------------------------------ MODULE OtaSystem ------------------------------
(***************************************************************************)
(* One board and everything that decides what it runs: the boot decision   *)
(* of bootloader/main.c, the update protocol's handlers in                 *)
(* bootloader/src/protocol_mgr.c, the application's confirmation in        *)
(* app/main.c, a host that may send any frame at any time, and the resets, *)
(* power cuts and flash faults that can hit every one of them.             *)
(*                                                                         *)
(* The metadata record is the atomic register of MetadataRegister, which   *)
(* MetadataStore is proved to implement.  Durations are not modelled: a    *)
(* listen window may close whenever the protocol is idle, a transfer may   *)
(* time out whenever a pass of the loop received nothing.                  *)
(***************************************************************************)
EXTENDS FlashSlots

CONSTANTS Bootable,   \* images whose vector table slot_looks_bootable() accepts
          Healthy,    \* images that run; the others are reset by the watchdog
          SeqMod,     \* frame numbers (2^16), more of them than blocks in a slot
          MaxBlock,   \* cells the payload of a DATA frame can fill
          FramesPerPass, \* frames one protocol_poll() can drain from the ring
          FlashFaults \* whether flash operations may report errors

ASSUME SystemAssumption ==
    /\ Bootable \subseteq Image /\ Healthy \subseteq Image
    /\ SeqMod \in Nat /\ SeqMod > SlotCells + 1
    /\ MaxBlock \in Nat \ {0}
    /\ FramesPerPass \in Nat \ {0}
    /\ FlashFaults \in BOOLEAN

VARIABLES
    meta,          \* what metadata_read() returns
    flash,         \* contents of the two slots
    pc,            \* what the processor executes
    active,        \* main()'s active, then the slot the application runs from
    state,         \* protocol_mgr.c: protocol state
    target_slot, fw_size, fw_crc32, bytes_written, last_seq,
    frames,        \* frames dispatched in this pass of update_mode()'s loop
    confirmed,     \* app/main.c: confirm_startup() was called
    trials,        \* history, saturating: starts of the active slot's image while it is on
                   \* trial, since the slot became the active one
    returned,      \* history: 1 if the first of these was the rollback's own
    quiet          \* the host, the power supply and the flash behave from now on

history == <<trials, returned>>
stored == <<meta, flash, history>>    \* what survives a reset, with the history
transfer == <<state, target_slot, fw_size, fw_crc32, bytes_written, last_seq>>
vars == <<stored, pc, active, transfer, frames, confirmed, quiet>>

-----------------------------------------------------------------------------
(* Metadata *)

\* The slot on_start_update() and on_get_info() call active.
ActiveSlot == IF meta = NoMeta THEN 0 ELSE meta.active_slot
Current == IF meta = NoMeta THEN ZeroMeta ELSE meta

OnTrial(m) == m # NoMeta /\ m.slot[m.active_slot].state = "TESTING"

\* The record becomes m; the trial goes on only if the same slot stays on trial.
SameTrial(m) == OnTrial(meta) /\ OnTrial(m) /\ m.active_slot = meta.active_slot

Store(m) == /\ meta' = m
            /\ trials' = IF SameTrial(m) THEN trials ELSE 0
            /\ returned' = IF SameTrial(m) THEN returned ELSE 0

\* metadata_write(m) reports an error: it may or may not have taken effect.
StoreFails(m) == /\ FlashFaults /\ ~quiet
                 /\ \/ UNCHANGED <<meta, history>>
                    \/ Store(m)

SetSlot(m, s, info) == [m EXCEPT !.slot[s] = info]
SetState(m, s, st) == [m EXCEPT !.slot[s].state = st]

\* Mutant of Started: the trial counter is cleared.
StartedFresh(size, img) ==
    SetSlot([Current EXCEPT !.boot_fail_count = 0], Other(ActiveSlot),
            [size |-> size, crc32 |-> img, state |-> "IN_PROGRESS"])

\* on_start_update(): the target is invalidated, everything else is kept.
Started(size, img) ==
    SetSlot(Current, Other(ActiveSlot), [size |-> size, crc32 |-> img, state |-> "IN_PROGRESS"])

\* on_end_update(): the target becomes the active slot, on trial.
Installed ==
    SetSlot([Current EXCEPT !.active_slot = target_slot, !.boot_fail_count = 0], target_slot,
            [size |-> fw_size, crc32 |-> fw_crc32, state |-> "TESTING"])

\* Mutant of Attempted: the attempt is not counted.
AttemptedUncounted == meta

\* main(): one more attempt is recorded.
Attempted == [meta EXCEPT !.boot_fail_count = @ + 1]

\* Mutant of RolledBack: the rejected image keeps its state, as a fallback of the fallback.
RolledBackKept == [meta EXCEPT !.active_slot = Other(meta.active_slot), !.boot_fail_count = 0]

\* main(): the switch back to the other slot; the rejected image is given up.
RolledBack == [SetState(meta, meta.active_slot, "EMPTY")
                  EXCEPT !.active_slot = Other(meta.active_slot), !.boot_fail_count = 0]

\* Mutant of Confirmed: the slot's state is not promoted.
ConfirmedCounterOnly == [meta EXCEPT !.boot_fail_count = 0]

\* confirm_startup(), for the slot the application runs from.
Confirmed == [SetState(meta, active, "VALID") EXCEPT !.boot_fail_count = 0]

Seq == 0..(SeqMod - 1)

-----------------------------------------------------------------------------
(* Reset *)

\* protocol_init(): the transfer's context lives in RAM.
NoTransfer == /\ state' = "IDLE"
              /\ target_slot' = 0
              /\ fw_size' = 0
              /\ fw_crc32' = NoImage
              /\ bytes_written' = 0
              /\ last_seq' = SeqMod - 1

Restart == /\ pc' = "boot"
           /\ active' = 0
           /\ NoTransfer
           /\ frames' = 0
           /\ confirmed' = FALSE
           /\ UNCHANGED quiet

\* The power fails, or the reset button is pressed, whatever is under way.
PowerCut == ~quiet /\ Restart

\* A blank board, or one that tools/write_metadata.py described as running an
\* image flashed to slot A.
Init == /\ \/ meta = NoMeta /\ flash = [s \in Slot |-> Blank]
           \/ \E img \in Bootable \cap Healthy, size \in Cells :
                /\ meta = [ZeroMeta EXCEPT !.slot[0] =
                             [size |-> size, crc32 |-> img, state |-> "VALID"]]
                /\ flash = [s \in Slot |-> IF s = 0 THEN ImageContents(img, size) ELSE Blank]
        /\ pc = "boot" /\ active = 0
        /\ state = "IDLE" /\ target_slot = 0 /\ fw_size = 0 /\ fw_crc32 = NoImage
        /\ bytes_written = 0 /\ last_seq = SeqMod - 1
        /\ frames = 0 /\ confirmed = FALSE /\ trials = 0 /\ returned = 0
        /\ quiet = FALSE

-----------------------------------------------------------------------------
(* The boot decision: main() from metadata_read() to update_mode() or a jump *)

\* slot_looks_bootable(): a plausible vector table at the start of the slot.
LooksBootable(s) == flash[s][1] \in Bootable

\* image_is_intact(&meta, s)
Intact(s) == LooksBootable(s) /\ Holds(flash[s], meta.slot[s])

BootState == meta.slot[meta.active_slot].state

\* update_mode(listen_ms), after which main() jumps to the slot chosen here.
Listen == /\ pc' = "listen"
          /\ active' = meta.active_slot
          /\ UNCHANGED <<flash, transfer, frames, confirmed, quiet>>

\* update_mode(0): nothing is started until an update or a reset.
Park == /\ pc' = "parked"
        /\ UNCHANGED <<flash, active, transfer, frames, confirmed, quiet>>

Jump(s) == /\ pc' = "app"
           /\ active' = s
           /\ frames' = 0
           /\ UNCHANGED <<flash, transfer, confirmed, quiet>>

BootNoMeta == /\ pc = "boot" /\ meta = NoMeta
              /\ Park
              /\ UNCHANGED <<meta, history>>

BootValid == /\ pc = "boot" /\ meta # NoMeta /\ BootState = "VALID"
             /\ IF Intact(meta.active_slot) THEN Listen ELSE Park
             /\ UNCHANGED <<meta, history>>

BootNothing == /\ pc = "boot" /\ meta # NoMeta /\ BootState \in {"IN_PROGRESS", "EMPTY"}
               /\ Park
               /\ UNCHANGED <<meta, history>>

TrialOver == meta.boot_fail_count >= MAX_BOOT_FAILURES

\* The attempt is recorded before the jump; the result of the write is ignored.
BootTrial == /\ pc = "boot" /\ OnTrial(meta) /\ ~TrialOver /\ Intact(meta.active_slot)
             /\ Store(Attempted) \/ StoreFails(Attempted)
             /\ Listen

BootTrialInvalid == /\ pc = "boot" /\ OnTrial(meta) /\ ~TrialOver /\ ~Intact(meta.active_slot)
                    /\ Park
                    /\ UNCHANGED <<meta, history>>

\* Mutant of FallbackUsable: the fallback's image is not checked.
FallbackNotEmpty == meta.slot[Other(meta.active_slot)].state # "EMPTY"

FallbackUsable == /\ meta.slot[Other(meta.active_slot)].state # "EMPTY"
                  /\ Intact(Other(meta.active_slot))

\* The fallback is checked before the switch, then started without a window; when it is
\* on trial itself this start is no attempt of its record.
BootRollback == /\ pc = "boot" /\ OnTrial(meta) /\ TrialOver /\ FallbackUsable
                /\ \/ /\ meta' = RolledBack
                      /\ returned' = IF OnTrial(RolledBack) THEN 1 ELSE 0
                      /\ trials' = returned'
                      /\ Jump(Other(meta.active_slot))
                   \/ StoreFails(RolledBack) /\ Park

BootNoFallback == /\ pc = "boot" /\ OnTrial(meta) /\ TrialOver /\ ~FallbackUsable
                  /\ Park
                  /\ UNCHANGED <<meta, history>>

\* Cut while the record is being written: Store(m) here, nothing in IdleCut.
BootCut == /\ pc = "boot" /\ OnTrial(meta) /\ PowerCut
           /\ \/ ~TrialOver /\ Intact(meta.active_slot) /\ Store(Attempted)
              \/ TrialOver /\ FallbackUsable /\ Store(RolledBack)
           /\ UNCHANGED flash

\* case STATE_TESTING
BootTesting == /\ pc = "boot" /\ OnTrial(meta)
               /\ \/ BootTrial \/ BootTrialInvalid
                  \/ BootRollback \/ BootNoFallback

Boot == BootNoMeta \/ BootValid \/ BootNothing \/ BootTesting

-----------------------------------------------------------------------------
(* Update mode: one pass of the loop drains the ring and dispatches whole frames *)

Updating == pc \in {"listen", "parked"}

Frame == /\ Updating /\ ~quiet
         /\ frames < FramesPerPass
         /\ frames' = frames + 1
         /\ UNCHANGED <<pc, active, confirmed, quiet>>

AbortTransfer == /\ state' = "IDLE"
                 /\ bytes_written' = 0
                 /\ last_seq' = SeqMod - 1
                 /\ UNCHANGED <<target_slot, fw_size, fw_crc32>>

\* Mutant of Acceptable: the host may name the active slot.
AcceptableAnySlot(size, slot) == size \in Cells

\* What on_start_update() checks before anything is written; the handler runs in
\* any state of the protocol, RECEIVING and COMPLETE included.
Acceptable(size, slot) == size \in Cells /\ slot = Other(ActiveSlot)

on_start_update(size, slot) ==
    /\ Frame
    /\ UNCHANGED flash
    /\ \/ /\ ~Acceptable(size, slot)
          /\ UNCHANGED <<meta, history, transfer>>
       \/ /\ Acceptable(size, slot)
          /\ \E seq \in Seq, img \in Image :
               /\ Store(Started(size, img))
               /\ state' = "RECEIVING"
               /\ target_slot' = slot
               /\ fw_size' = size
               /\ fw_crc32' = img
               /\ bytes_written' = 0
               /\ last_seq' = seq
       \/ /\ Acceptable(size, slot)          \* ERR_FLASH, and the context is kept
          /\ \E img \in Image : StoreFails(Started(size, img))
          /\ UNCHANGED transfer

StartCut(size, img) == /\ Updating /\ frames < FramesPerPass /\ PowerCut
                       /\ size \in Cells
                       /\ Store(Started(size, img))
                       /\ UNCHANGED flash

expected_seq == (last_seq + 1) % SeqMod

Fits(seq, len) == /\ state = "RECEIVING"
                  /\ seq # last_seq /\ seq = expected_seq
                  /\ len > 0 /\ bytes_written + len <= fw_size

\* The bytes of a block: an image's, or anything.
Payload == Image \cup {Junk}

TargetBecomes(c) == flash' = [flash EXCEPT ![target_slot] = c]

\* Lengths are in cells; 0 stands for one that is zero or no multiple of 8.
on_data(seq, len) ==
    /\ Frame
    /\ UNCHANGED <<meta, history>>
    /\ \/ /\ \/ state # "RECEIVING"                    \* ERR_STATE
             \/ seq = last_seq                          \* acknowledged again
             \/ seq = expected_seq /\ len = 0           \* ERR_LENGTH
          /\ UNCHANGED <<flash, transfer>>
       \/ /\ state = "RECEIVING" /\ seq # last_seq
          /\ \/ seq # expected_seq                      \* ERR_SEQ
             \/ len > 0 /\ bytes_written + len > fw_size \* ERR_SIZE
          /\ AbortTransfer
          /\ UNCHANGED flash
       \/ /\ Fits(seq, len)
          /\ LET c == Prepared(flash[target_slot], bytes_written)
             IN  /\ \E data \in Payload : TargetBecomes(Write(c, bytes_written, len, data))
                 /\ IF WriteOk(c, bytes_written, len)
                    THEN /\ bytes_written' = bytes_written + len
                         /\ last_seq' = seq
                         /\ UNCHANGED <<state, target_slot, fw_size, fw_crc32>>
                    ELSE AbortTransfer
       \/ /\ Fits(seq, len) /\ FlashFaults             \* ERR_FLASH
          /\ \E data \in Payload :
               \E c \in CutData(flash[target_slot], bytes_written, len, data) : TargetBecomes(c)
          /\ AbortTransfer

DataCut(seq, len, data) ==
    /\ Updating /\ frames < FramesPerPass /\ PowerCut
    /\ Fits(seq, len)
    /\ \E c \in CutData(flash[target_slot], bytes_written, len, data) : TargetBecomes(c)
    /\ UNCHANGED <<meta, history>>

\* Mutant of Received: the image's CRC is not checked.
ReceivedSize == bytes_written = fw_size

\* The slot re-read from flash is the image START announced.
Received == /\ bytes_written = fw_size
            /\ Holds(flash[target_slot], [size |-> fw_size, crc32 |-> fw_crc32])

\* The frame's sequence number is not looked at.
on_end_update ==
    /\ Frame
    /\ UNCHANGED flash
    /\ \/ /\ state # "RECEIVING"
          /\ UNCHANGED <<meta, history, transfer>>
       \/ /\ state = "RECEIVING" /\ ~Received
          /\ AbortTransfer
          /\ UNCHANGED <<meta, history>>
       \/ /\ state = "RECEIVING" /\ Received
          /\ Store(Installed)
          /\ state' = "COMPLETE"
          /\ UNCHANGED <<target_slot, fw_size, fw_crc32, bytes_written, last_seq>>
       \/ /\ state = "RECEIVING" /\ Received
          /\ StoreFails(Installed)
          /\ AbortTransfer

EndCut == /\ Updating /\ frames < FramesPerPass /\ PowerCut
          /\ state = "RECEIVING" /\ Received
          /\ Store(Installed)
          /\ UNCHANGED flash

\* CMD_ABORT
on_abort == /\ Frame
            /\ AbortTransfer
            /\ UNCHANGED stored

\* CMD_GET_INFO, or a command nobody knows: nothing but an answer.
on_get_info == /\ Frame
               /\ UNCHANGED <<stored, transfer>>

\* Mutant of Timeout: the timer starts with the first block only.
TimeoutAfterData == /\ Updating /\ frames = 0 /\ state = "RECEIVING" /\ bytes_written > 0
                    /\ AbortTransfer
                    /\ UNCHANGED <<stored, pc, active, frames, confirmed, quiet>>

\* protocol_poll() received nothing for longer than timeout_ms.
Timeout == /\ Updating /\ frames = 0 /\ state = "RECEIVING"
           /\ AbortTransfer
           /\ UNCHANGED <<stored, pc, active, frames, confirmed, quiet>>

\* The rest of update_mode()'s loop, once protocol_poll() has returned; with nothing
\* received the loop just turns.
NextPass == /\ Updating /\ state # "COMPLETE"
            /\ frames' = 0
            /\ UNCHANGED <<stored, pc, active, transfer, confirmed, quiet>>

UpdateComplete == /\ Updating /\ state = "COMPLETE"
                  /\ Restart
                  /\ UNCHANGED stored

\* The listen window is over and nothing has started: jump to what main() chose
\* before the window opened.
WindowCloses == /\ pc = "listen" /\ state = "IDLE"
                /\ Jump(active)
                /\ trials' = IF OnTrial(meta) /\ active = meta.active_slot
                                /\ trials <= MAX_BOOT_FAILURES + returned
                             THEN trials + 1 ELSE trials
                /\ UNCHANGED <<meta, returned>>

-----------------------------------------------------------------------------
(* The application *)

\* The image the processor runs is the one its vector table belongs to.
Runs == flash[active][1] \in Healthy

AlreadyConfirmed == meta = NoMeta \/ (meta.slot[active].state = "VALID" /\ meta.boot_fail_count = 0)

\* confirm_startup(), reached once after CYCLES_BEFORE_CONFIRMATION cycles.
confirm_startup == /\ pc = "app" /\ ~confirmed /\ Runs
                   /\ confirmed' = TRUE
                   /\ \/ AlreadyConfirmed /\ UNCHANGED <<meta, history>>
                      \/ ~AlreadyConfirmed /\ (Store(Confirmed) \/ StoreFails(Confirmed))
                   /\ UNCHANGED <<flash, pc, active, transfer, frames, quiet>>

ConfirmCut == /\ pc = "app" /\ ~confirmed /\ Runs /\ ~AlreadyConfirmed /\ PowerCut
              /\ Store(Confirmed)
              /\ UNCHANGED flash

\* The watchdog or a fault resets an image that does not run; a sound one resets
\* itself when the host asks for an update (ota_trigger_poll()).
AppReset == /\ pc = "app"
            /\ Runs => ~quiet
            /\ Restart
            /\ UNCHANGED stored

\* A cycle of an application that works: it feeds the watchdog and goes on.
AppCycle == pc = "app" /\ Runs /\ UNCHANGED vars

-----------------------------------------------------------------------------
(* The system *)

\* A cut between two operations changes nothing that is stored.
IdleCut == PowerCut /\ UNCHANGED stored

\* From some point on the host is silent, the power stays on and the flash works.
GoQuiet == /\ ~quiet
           /\ quiet' = TRUE
           /\ UNCHANGED <<stored, pc, active, transfer, frames, confirmed>>

Sizes == 0..(SlotCells + 1)
Lengths == 0..MaxBlock

Frames == \/ \E size \in Sizes, slot \in Slot : on_start_update(size, slot)
          \/ \E seq \in Seq, len \in Lengths : on_data(seq, len)
          \/ on_end_update
          \/ on_abort
          \/ on_get_info

Cuts == \/ IdleCut \/ BootCut \/ EndCut \/ ConfirmCut
        \/ \E size \in Sizes, img \in Image : StartCut(size, img)
        \/ \E seq \in Seq, len \in Lengths, data \in Payload : DataCut(seq, len, data)

Loop == Timeout \/ NextPass \/ UpdateComplete \/ WindowCloses

Next == Boot \/ Frames \/ Loop \/ confirm_startup \/ AppCycle \/ AppReset \/ Cuts \/ GoQuiet

Spec == Init /\ [][Next]_vars

\* The processor keeps executing: main() decides, the loop's clock advances, the
\* application reaches its confirmation or the watchdog ends it.
Fairness == /\ WF_vars(Boot)
            /\ WF_vars(Timeout) /\ WF_vars(NextPass)
            /\ WF_vars(UpdateComplete) /\ WF_vars(WindowCloses)
            /\ WF_vars(confirm_startup)
            /\ WF_vars(AppReset /\ ~Runs)

FairSpec == Spec /\ Fairness
-----------------------------------------------------------------------------
(* Properties *)

TypeOK == /\ meta \in Meta \cup {NoMeta}
          /\ flash \in [Slot -> Contents]
          /\ pc \in {"boot", "listen", "parked", "app"}
          /\ active \in Slot
          /\ state \in {"IDLE", "RECEIVING", "COMPLETE"}
          /\ target_slot \in Slot
          /\ fw_size \in 0..SlotCells
          /\ fw_crc32 \in Image \cup {NoImage}
          /\ bytes_written \in 0..SlotCells
          /\ last_seq \in Seq
          /\ frames \in 0..FramesPerPass
          /\ confirmed \in BOOLEAN
          /\ trials \in 0..(MAX_BOOT_FAILURES + 2)
          /\ returned \in 0..1
          /\ quiet \in BOOLEAN

\* PROTOCOL.md section 8, no lying state: a slot recorded as TESTING or VALID,
\* or active and not EMPTY, holds exactly the image its record describes.
RecordHonest ==
    meta # NoMeta =>
        \A s \in Slot :
            \/ meta.slot[s].state \in {"TESTING", "VALID"}
            \/ s = meta.active_slot /\ meta.slot[s].state # "EMPTY"
            => Holds(flash[s], meta.slot[s])

\* An application only ever starts, and runs, from a slot whose image is complete.
RunsIntact == pc = "app" => meta # NoMeta /\ Intact(active)

\* The handlers only ever change a slot that is neither active nor promised to anyone.
OnlyTargetChanges ==
    [][\A s \in Slot : flash'[s] # flash[s] =>
          s # ActiveSlot /\ meta # NoMeta /\ meta.slot[s].state = "IN_PROGRESS"]_vars

\* The trial counter never goes back except by a confirmation of the running slot or a
\* change of active slot: a transfer that merely starts does not earn a trial more.
TrialCounterKept ==
    [][meta # NoMeta /\ meta' # NoMeta /\ meta'.boot_fail_count < meta.boot_fail_count =>
          \/ meta'.active_slot # meta.active_slot
          \/ pc = "app" /\ meta'.slot[active].state = "VALID"]_vars

\* README.md:35, an image on trial is given up: from an installation to its confirmation or
\* its replacement it is started at most MAX_BOOT_FAILURES times, however many transfers
\* start in between.  From a rollback to an image that is on trial itself (it was replaced
\* before it could confirm) it is once more, because main.c:464 starts it without counting.
\* Each change of the active slot begins the count anew, as it clears boot_fail_count.
TrialsBounded == trials <= MAX_BOOT_FAILURES + returned

\* README.md:33, a failed update never bricks the device: once the active slot holds
\* the image its record describes, it does so after every step, whatever fails.
HasImage == meta # NoMeta /\ Holds(flash[meta.active_slot], meta.slot[meta.active_slot])
ImageKept == [][HasImage => HasImage']_vars

\* A board whose image on trial never works, with a sound image in the other slot and
\* nobody interfering, ends up running the other image.
TrialFails == /\ quiet /\ pc = "boot" /\ OnTrial(meta)
              /\ Intact(meta.active_slot) /\ flash[meta.active_slot][1] \notin Healthy
              /\ FallbackUsable /\ flash[Other(meta.active_slot)][1] \in Healthy
RollbackHappens == TrialFails ~> (pc = "app" /\ Runs)

\* With nobody interfering, a sound image that has attempts left is confirmed.
TrialStarts == /\ quiet /\ pc = "boot" /\ OnTrial(meta) /\ ~TrialOver
               /\ Intact(meta.active_slot) /\ flash[meta.active_slot][1] \in Healthy
TrialSucceeds == TrialStarts ~> (meta # NoMeta /\ BootState = "VALID")

\* A listen window always ends, in a jump or a restart, once the host is silent.
WindowEnds == (quiet /\ pc = "listen") ~> (pc # "listen")
=============================================================================
