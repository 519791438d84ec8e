--------------------------- MODULE OtaSystemProofs ---------------------------
(***************************************************************************)
(* Proofs about OtaSystem for every number of images, cells, attempts and  *)
(* frame numbers.  The invariant Inv says what update mode knows while a   *)
(* transfer is open: its target is not the active slot and is recorded     *)
(* IN_PROGRESS.  With it, every step that changes the metadata or a slot   *)
(* has one of the shapes listed in StepShape, and the action properties    *)
(* follow from the shapes.                                                 *)
(*                                                                         *)
(* A board left alone (quiet) is then followed through a trial and after   *)
(* it: every step brings it nearer to the fallback, the confirmation or    *)
(* the application's cycles, and leads nowhere else.  With the fairness of *)
(* FairSpec that is RollbackHappens, TrialSucceeds and BackToApplication.  *)
(*                                                                         *)
(* The next part, about what a board starts (StartInv), holds for a host   *)
(* that waits for its acknowledgements, one frame per pass of the loop,    *)
(* and for flash operations that report no errors: ClaimStart shows that   *)
(* the first cannot be dropped.  Resets and power cuts are unrestricted.   *)
(*                                                                         *)
(* The last parts are about the two extensions of OtaSystem.  OtaUpdate    *)
(* implements ABUpdate, under the assumptions of StartInvariance: a step   *)
(* of the board has one of the shapes of StepShape, and each shape is a    *)
(* step of ABUpdate or a stutter.  Every step of OtaRequest is a step of   *)
(* OtaSystem or leaves the board alone, so what is proved of OtaSystem     *)
(* holds for a board that can be asked for updates; and a request is       *)
(* spent by the boot that reads it.                                        *)
(***************************************************************************)
EXTENDS OtaUpdate, OtaRequest, TLAPS

-----------------------------------------------------------------------------
(* Lemmas about the operators *)

LEMMA OtherSlot == \A s \in Slot : Other(s) \in Slot /\ Other(s) # s /\ Other(Other(s)) = s
  BY DEF Slot, Other

LEMMA TwoSlots == \A s, t \in Slot : s = t \/ s = Other(t)
  BY DEF Slot, Other

LEMMA ZeroMetaType == ZeroMeta \in Meta /\ EmptySlot \in SlotInfo
<1>1. EmptySlot \in SlotInfo
  BY SlotsAssumption DEF EmptySlot, SlotInfo, FwState
<1>2. QED
  BY <1>1, SlotsAssumption DEF ZeroMeta, Meta, Slot

\* A record with one slot described anew: well formed, and the rest is kept.
LEMMA SetSlotMeta ==
  ASSUME NEW m \in Meta, NEW s \in Slot, NEW info \in SlotInfo
  PROVE  /\ SetSlot(m, s, info) \in Meta
         /\ SetSlot(m, s, info).active_slot = m.active_slot
         /\ SetSlot(m, s, info).boot_fail_count = m.boot_fail_count
         /\ SetSlot(m, s, info).slot[s] = info
         /\ SetSlot(m, s, info).slot[Other(s)] = m.slot[Other(s)]
  BY OtherSlot DEF SetSlot, Meta

LEMMA SetStateMeta ==
  ASSUME NEW m \in Meta, NEW s \in Slot, NEW st \in FwState
  PROVE  /\ SetState(m, s, st) \in Meta
         /\ SetState(m, s, st).active_slot = m.active_slot
         /\ SetState(m, s, st).boot_fail_count = m.boot_fail_count
         /\ SetState(m, s, st).slot[s].state = st
         /\ SetState(m, s, st).slot[s].size = m.slot[s].size
         /\ SetState(m, s, st).slot[s].crc32 = m.slot[s].crc32
         /\ SetState(m, s, st).slot[Other(s)] = m.slot[Other(s)]
<1>1. m.slot \in [Slot -> SlotInfo]
  BY DEF Meta
<1>2. [m.slot[s] EXCEPT !.state = st] \in SlotInfo
  BY <1>1 DEF SlotInfo
<1>3. SetState(m, s, st) = [m EXCEPT !.slot = [m.slot EXCEPT ![s] = [m.slot[s] EXCEPT !.state = st]]]
  BY DEF SetState
<1>4. QED
  BY <1>1, <1>2, <1>3, OtherSlot DEF Meta, SlotInfo

\* The record pointed at another slot, with the trial counter cleared.
LEMMA RepointMeta ==
  ASSUME NEW m \in Meta, NEW s \in Slot
  PROVE  /\ [m EXCEPT !.active_slot = s, !.boot_fail_count = 0] \in Meta
         /\ [m EXCEPT !.active_slot = s, !.boot_fail_count = 0].active_slot = s
         /\ [m EXCEPT !.active_slot = s, !.boot_fail_count = 0].boot_fail_count = 0
         /\ [m EXCEPT !.active_slot = s, !.boot_fail_count = 0].slot = m.slot
<1>1. 0 \in 0..MAX_BOOT_FAILURES
  BY SlotsAssumption
<1>2. QED
  BY <1>1 DEF Meta

\* Two image descriptions that agree on size and CRC are held alike.
LEMMA HoldsSame ==
  ASSUME NEW c, NEW i, NEW j, i.size = j.size, i.crc32 = j.crc32
  PROVE  Holds(c, i) <=> Holds(c, j)
  BY DEF Holds

LEMMA CurrentMeta == TypeOK => Current \in Meta /\ ActiveSlot \in Slot /\ ActiveSlot = Current.active_slot
  BY ZeroMetaType DEF TypeOK, Current, ActiveSlot, Meta, ZeroMeta, Slot

LEMMA StartedMeta ==
  ASSUME TypeOK, NEW size \in Cells, NEW img \in Image
  PROVE  /\ Started(size, img) \in Meta
         /\ Started(size, img).active_slot = ActiveSlot
         /\ Started(size, img).boot_fail_count = Current.boot_fail_count
         /\ Started(size, img).slot[Other(ActiveSlot)].state = "IN_PROGRESS"
         /\ Started(size, img).slot[ActiveSlot] = Current.slot[ActiveSlot]
<1>1. [size |-> size, crc32 |-> img, state |-> "IN_PROGRESS"] \in SlotInfo
  BY SlotsAssumption DEF SlotInfo, FwState, Cells
<1>2. QED
  BY <1>1, CurrentMeta, SetSlotMeta, OtherSlot DEF Started

LEMMA InstalledMeta ==
  ASSUME TypeOK
  PROVE  /\ Installed \in Meta
         /\ Installed.active_slot = target_slot
         /\ Installed.boot_fail_count = 0
         /\ Installed.slot[target_slot] = [size |-> fw_size, crc32 |-> fw_crc32, state |-> "TESTING"]
         /\ Installed.slot[Other(target_slot)] = Current.slot[Other(target_slot)]
<1>1. [size |-> fw_size, crc32 |-> fw_crc32, state |-> "TESTING"] \in SlotInfo
  BY DEF TypeOK, SlotInfo, FwState
<1> DEFINE base == [Current EXCEPT !.active_slot = target_slot, !.boot_fail_count = 0]
<1>2. /\ base \in Meta /\ base.active_slot = target_slot
      /\ base.boot_fail_count = 0 /\ base.slot = Current.slot
  BY CurrentMeta, RepointMeta DEF TypeOK
<1>3. Installed = SetSlot(base, target_slot,
                          [size |-> fw_size, crc32 |-> fw_crc32, state |-> "TESTING"])
  BY DEF Installed
<1>4. target_slot \in Slot
  BY DEF TypeOK
<1> HIDE DEF base
<1>5. QED
  BY <1>1, <1>2, <1>3, <1>4, SetSlotMeta

LEMMA AttemptedMeta ==
  ASSUME TypeOK, meta # NoMeta, ~TrialOver
  PROVE  /\ Attempted \in Meta
         /\ Attempted.active_slot = meta.active_slot
         /\ Attempted.boot_fail_count = meta.boot_fail_count + 1
         /\ Attempted.slot = meta.slot
<1>1. meta \in Meta /\ meta.boot_fail_count + 1 \in 0..MAX_BOOT_FAILURES
  BY SlotsAssumption DEF TypeOK, Meta, TrialOver
<1>2. QED
  BY <1>1 DEF Attempted, Meta

LEMMA RolledBackMeta ==
  ASSUME TypeOK, meta # NoMeta
  PROVE  /\ RolledBack \in Meta
         /\ RolledBack.active_slot = Other(meta.active_slot)
         /\ RolledBack.boot_fail_count = 0
         /\ RolledBack.slot[meta.active_slot].state = "EMPTY"
         /\ RolledBack.slot[Other(meta.active_slot)] = meta.slot[Other(meta.active_slot)]
<1>1. meta \in Meta /\ meta.active_slot \in Slot
  BY DEF TypeOK, Meta
<1> DEFINE base == SetState(meta, meta.active_slot, "EMPTY")
<1>2. /\ base \in Meta /\ base.slot[meta.active_slot].state = "EMPTY"
      /\ base.slot[Other(meta.active_slot)] = meta.slot[Other(meta.active_slot)]
  BY <1>1, SetStateMeta DEF FwState
<1>3. RolledBack = [base EXCEPT !.active_slot = Other(meta.active_slot), !.boot_fail_count = 0]
  BY DEF RolledBack
<1> HIDE DEF base
<1>4. QED
  BY <1>1, <1>2, <1>3, OtherSlot, RepointMeta

LEMMA ConfirmedMeta ==
  ASSUME TypeOK, meta # NoMeta
  PROVE  /\ Confirmed \in Meta
         /\ Confirmed.active_slot = meta.active_slot
         /\ Confirmed.boot_fail_count = 0
         /\ Confirmed.slot[active].state = "VALID"
         /\ Confirmed.slot[active].size = meta.slot[active].size
         /\ Confirmed.slot[active].crc32 = meta.slot[active].crc32
         /\ Confirmed.slot[Other(active)] = meta.slot[Other(active)]
<1>1. meta \in Meta /\ active \in Slot
  BY DEF TypeOK
<1> DEFINE base == SetState(meta, active, "VALID")
<1>2. /\ base \in Meta /\ base.slot[active].state = "VALID"
      /\ base.active_slot = meta.active_slot
      /\ base.slot[active].size = meta.slot[active].size
      /\ base.slot[active].crc32 = meta.slot[active].crc32
      /\ base.slot[Other(active)] = meta.slot[Other(active)]
  BY <1>1, SetStateMeta DEF FwState
<1>3. Confirmed = [base EXCEPT !.boot_fail_count = 0]
  BY DEF Confirmed
<1> HIDE DEF base
<1>4. QED
  BY <1>1, <1>2, <1>3, SlotsAssumption DEF Meta

\* Whatever on_data() leaves in a slot is contents of a slot.
LEMMA DataContents ==
  ASSUME NEW c \in Contents, NEW offset \in Nat, NEW len \in Nat, NEW data \in Payload
  PROVE  /\ Prepared(c, offset) \in Contents
         /\ Write(Prepared(c, offset), offset, len, data) \in Contents
         /\ CutData(c, offset, len, data) \subseteq Contents
<1>1. Prepared(c, offset) \in Contents /\ HalfErased(c, offset) \in Contents
  BY DEF Prepared, ErasePage, HalfErased, Contents, Cell
<1>2. \A d \in Contents, n \in Nat : Write(d, offset, n, data) \in Contents
  BY DEF Write, Contents, Cell, Payload
<1>3. \A d \in Contents : \A i : [d EXCEPT ![i] = Junk] \in Contents
  BY DEF Contents, Cell
<1>4. CutWrites(Prepared(c, offset), offset, len, data) \subseteq Contents
  <2> DEFINE d == Prepared(c, offset)
  <2>1. \A n \in 0..len : Write(d, offset, n, data) \in Contents
    BY <1>1, <1>2
  <2>2. \A n \in 0..(len - 1) : Write(d, offset, n, data) \in Contents
    BY <1>1, <1>2
  <2>3. \A n \in 0..(len - 1) :
           [Write(d, offset, n, data) EXCEPT ![offset + n + 1] = Junk] \in Contents
    BY <2>2, <1>3
  <2> HIDE DEF d
  <2>4. CutWrites(d, offset, len, data) \subseteq Contents
    BY <2>1, <2>3 DEF CutWrites
  <2>5. QED
    BY <2>4 DEF d
<1>5. QED
  BY <1>1, <1>2, <1>4 DEF CutData

-----------------------------------------------------------------------------
(* The shapes of a step *)

Untouched == meta' = meta /\ flash' = flash
StartShape == /\ Updating
              /\ \E size \in Cells, img \in Image : meta' = Started(size, img)
              /\ flash' = flash
InstallShape == Updating /\ state = "RECEIVING" /\ Received /\ meta' = Installed /\ flash' = flash
AttemptShape == pc = "boot" /\ OnTrial(meta) /\ ~TrialOver /\ meta' = Attempted /\ flash' = flash
RollbackShape == pc = "boot" /\ OnTrial(meta) /\ TrialOver /\ FallbackUsable /\ meta' = RolledBack /\ flash' = flash
ConfirmShape == pc = "app" /\ meta # NoMeta /\ meta' = Confirmed /\ flash' = flash
DataShape == Updating /\ state = "RECEIVING" /\ meta' = meta /\ \E c \in Contents : TargetBecomes(c)

Shape == \/ Untouched \/ StartShape \/ InstallShape \/ AttemptShape
         \/ RollbackShape \/ ConfirmShape \/ DataShape

LEMMA DataStep ==
  ASSUME TypeOK, NEW seq \in Seq, NEW len \in Lengths,
         on_data(seq, len) \/ \E data \in Payload : DataCut(seq, len, data)
  PROVE  Untouched \/ DataShape
<1>1. /\ flash[target_slot] \in Contents /\ bytes_written \in Nat /\ len \in Nat
  BY SystemAssumption DEF TypeOK, Lengths
<1>2. \A data \in Payload :
        /\ Write(Prepared(flash[target_slot], bytes_written), bytes_written, len, data) \in Contents
        /\ CutData(flash[target_slot], bytes_written, len, data) \subseteq Contents
  BY <1>1, DataContents
<1>3. CASE on_data(seq, len)
  BY <1>2, <1>3 DEF on_data, Frame, Fits, Untouched, DataShape
<1>4. CASE \E data \in Payload : DataCut(seq, len, data)
  BY <1>2, <1>4 DEF DataCut, Fits, DataShape
<1>5. QED
  BY <1>3, <1>4

LEMMA StepShape == TypeOK /\ [Next]_vars => Shape
<1> SUFFICES ASSUME TypeOK, [Next]_vars PROVE Shape
  OBVIOUS
<1>1. CASE Boot
  BY <1>1 DEF Boot, BootNoMeta, BootValid, BootNothing, BootTrial, BootTesting, BootTrialInvalid, BootRollback,
     BootNoFallback, Store, StoreFails, Listen, Park, Jump, Shape, Untouched, AttemptShape,
     RollbackShape
<1>2. CASE Frames
  <2>1. ASSUME NEW size \in Sizes, NEW slot \in Slot, on_start_update(size, slot)
        PROVE  Shape
    BY <2>1 DEF on_start_update, Frame, Acceptable, Store, StoreFails, Shape, Untouched, StartShape
  <2>2. ASSUME NEW seq \in Seq, NEW len \in Lengths, on_data(seq, len)
        PROVE  Shape
    BY <2>2, DataStep DEF Shape
  <2>3. CASE on_end_update
    BY <2>3 DEF on_end_update, Frame, Store, StoreFails, Shape, Untouched, InstallShape
  <2>4. CASE on_abort \/ on_get_info
    BY <2>4 DEF on_abort, on_get_info, stored, Shape, Untouched
  <2>5. QED
    BY <1>2, <2>1, <2>2, <2>3, <2>4 DEF Frames
<1>3. CASE Loop
  BY <1>3 DEF Loop, Timeout, NextPass, UpdateComplete, WindowCloses, Jump, stored, Shape, Untouched
<1>4. CASE confirm_startup
  BY <1>4 DEF confirm_startup, AlreadyConfirmed, Store, StoreFails, Shape, Untouched, ConfirmShape
<1>5. CASE AppCycle \/ AppReset \/ GoQuiet \/ UNCHANGED vars
  BY <1>5 DEF AppCycle, AppReset, GoQuiet, vars, stored, Shape, Untouched
<1>6. CASE Cuts
  <2>1. ASSUME NEW size \in Sizes, NEW img \in Image, StartCut(size, img)
        PROVE  Shape
    BY <2>1 DEF StartCut, Store, Shape, StartShape
  <2>2. ASSUME NEW seq \in Seq, NEW len \in Lengths, NEW data \in Payload, DataCut(seq, len, data)
        PROVE  Shape
    BY <2>2, DataStep DEF Shape
  <2>3. CASE IdleCut \/ BootCut \/ EndCut \/ ConfirmCut
    BY <2>3 DEF IdleCut, BootCut, EndCut, ConfirmCut, AlreadyConfirmed, Store, stored, Shape,
       Untouched, AttemptShape, RollbackShape, InstallShape, ConfirmShape
  <2>4. QED
    BY <1>6, <2>1, <2>2, <2>3 DEF Cuts
<1>7. QED
  BY <1>1, <1>2, <1>3, <1>4, <1>5, <1>6 DEF Next

-----------------------------------------------------------------------------
(* Types and the invariant of an open transfer *)

StoredOK == meta \in Meta \cup {NoMeta} /\ flash \in [Slot -> Contents]

TransferInv == state = "RECEIVING" =>
                   /\ meta # NoMeta
                   /\ target_slot = Other(meta.active_slot)
                   /\ meta.slot[target_slot].state = "IN_PROGRESS"

OutsideUpdate == pc \in {"boot", "app"} => state = "IDLE"

Inv == TypeOK /\ TransferInv /\ OutsideUpdate

LEMMA ShapeStored == TypeOK /\ Shape => StoredOK'
<1> SUFFICES ASSUME TypeOK, Shape PROVE StoredOK'
  OBVIOUS
<1>1. CASE Untouched
  BY <1>1 DEF Untouched, StoredOK, TypeOK
<1>2. CASE StartShape
  BY <1>2, StartedMeta DEF StartShape, StoredOK, TypeOK
<1>3. CASE InstallShape
  BY <1>3, InstalledMeta DEF InstallShape, StoredOK, TypeOK
<1>4. CASE AttemptShape
  BY <1>4, AttemptedMeta DEF AttemptShape, OnTrial, StoredOK, TypeOK
<1>5. CASE RollbackShape
  BY <1>5, RolledBackMeta DEF RollbackShape, OnTrial, StoredOK, TypeOK
<1>6. CASE ConfirmShape
  BY <1>6, ConfirmedMeta DEF ConfirmShape, StoredOK, TypeOK
<1>7. CASE DataShape
  BY <1>7 DEF DataShape, TargetBecomes, StoredOK, TypeOK
<1>8. QED
  BY <1>1, <1>2, <1>3, <1>4, <1>5, <1>6, <1>7 DEF Shape

TransferOK == /\ state \in {"IDLE", "RECEIVING", "COMPLETE"}
              /\ target_slot \in Slot
              /\ fw_size \in 0..SlotCells
              /\ fw_crc32 \in Image \cup {NoImage}
              /\ bytes_written \in 0..SlotCells
              /\ last_seq \in Seq

HistoryOK == trials \in 0..(MAX_BOOT_FAILURES + 2) /\ returned \in 0..1

ControlOK == /\ pc \in {"boot", "listen", "parked", "app"}
             /\ active \in Slot
             /\ frames \in 0..FramesPerPass
             /\ confirmed \in BOOLEAN
             /\ HistoryOK
             /\ quiet \in BOOLEAN

LEMMA TypeParts == TypeOK <=> StoredOK /\ TransferOK /\ ControlOK
  BY DEF TypeOK, StoredOK, TransferOK, ControlOK, HistoryOK

LEMMA Zeros == /\ 0 \in Slot /\ 0 \in Seq /\ SeqMod - 1 \in Seq /\ 0 \in 0..SlotCells /\ 0 \in 0..FramesPerPass
               /\ {0, 1} \subseteq 0..(MAX_BOOT_FAILURES + 2)
  BY SlotsAssumption, SystemAssumption DEF Slot, Seq

LEMMA RestartOK == TypeOK /\ Restart => TransferOK' /\ pc' = "boot" /\ state' = "IDLE"
                                         /\ active' \in Slot /\ frames' \in 0..FramesPerPass
                                         /\ confirmed' \in BOOLEAN /\ quiet' \in BOOLEAN
  BY Zeros DEF Restart, NoTransfer, TransferOK, TypeOK

LEMMA HistoryKept == TypeOK /\ UNCHANGED history => HistoryOK'
  BY DEF history, HistoryOK, TypeOK

LEMMA StoreHistory == \A m : TypeOK /\ (Store(m) \/ StoreFails(m)) => HistoryOK'
  BY HistoryKept, Zeros DEF Store, StoreFails, HistoryOK, TypeOK

LEMMA TransferStep == TypeOK /\ [Next]_vars => TransferOK'
<1> SUFFICES ASSUME TypeOK, [Next]_vars PROVE TransferOK'
  OBVIOUS
<1>1. CASE UNCHANGED transfer
  BY <1>1 DEF transfer, TransferOK, TypeOK
<1>2. CASE Restart
  BY <1>2, RestartOK
<1>3. CASE AbortTransfer
  BY <1>3, Zeros DEF AbortTransfer, TransferOK, TypeOK
<1>4. ASSUME NEW size \in Sizes, NEW slot \in Slot, on_start_update(size, slot)
      PROVE  TransferOK'
  BY <1>1, <1>4, Zeros DEF on_start_update, Acceptable, Cells, TransferOK
<1>5. ASSUME NEW seq \in Seq, NEW len \in Lengths, on_data(seq, len)
      PROVE  TransferOK'
  <2>1. ASSUME Fits(seq, len), bytes_written' = bytes_written + len, last_seq' = seq,
               UNCHANGED <<state, target_slot, fw_size, fw_crc32>>
        PROVE  TransferOK'
    BY <2>1, SystemAssumption, SlotsAssumption DEF Fits, Lengths, TransferOK, TypeOK
  <2>2. QED
    BY <1>1, <1>3, <1>5, <2>1 DEF on_data
<1>6. CASE on_end_update
  BY <1>1, <1>3, <1>6 DEF on_end_update, TransferOK, TypeOK
<1>7. CASE on_abort \/ on_get_info \/ Timeout
  BY <1>1, <1>3, <1>7 DEF on_abort, on_get_info, Timeout
<1>8. CASE Boot
  BY <1>1, <1>2, <1>8 DEF Boot, BootNoMeta, BootValid, BootNothing, BootTrial, BootTesting, BootTrialInvalid,
     BootRollback, BootNoFallback, Listen, Park, Jump, transfer
<1>9. CASE NextPass \/ WindowCloses \/ confirm_startup \/ AppCycle \/ GoQuiet \/ UNCHANGED vars
  BY <1>1, <1>9 DEF NextPass, WindowCloses, Jump, confirm_startup, AppCycle, GoQuiet, vars, transfer
<1>10. CASE UpdateComplete \/ AppReset
  BY <1>2, <1>10 DEF UpdateComplete, AppReset
<1>11. CASE Cuts
  BY <1>2, <1>11 DEF Cuts, IdleCut, BootCut, EndCut, ConfirmCut, StartCut, DataCut, PowerCut
<1>12. QED
  BY <1>4, <1>5, <1>6, <1>7, <1>8, <1>9, <1>10, <1>11 DEF Next, Frames, Loop

LEMMA RollbackHistory == BootRollback /\ TypeOK => HistoryOK'
<1> SUFFICES ASSUME BootRollback, TypeOK PROVE HistoryOK'
  OBVIOUS
<1>1. CASE returned' = (IF OnTrial(RolledBack) THEN 1 ELSE 0) /\ trials' = returned'
  BY <1>1, Zeros DEF HistoryOK
<1>2. CASE StoreFails(RolledBack)
  BY <1>2, StoreHistory
<1>3. QED
  BY <1>1, <1>2 DEF BootRollback

LEMMA ControlStep == TypeOK /\ [Next]_vars => ControlOK'
<1> SUFFICES ASSUME TypeOK, [Next]_vars PROVE ControlOK'
  OBVIOUS
<1>1. CASE Restart /\ HistoryOK'
  BY <1>1, RestartOK, Zeros DEF ControlOK, TypeOK
<1>2. CASE Frame /\ HistoryOK'
  <2>1. frames' \in 0..FramesPerPass
    BY <1>2, SystemAssumption DEF Frame, TypeOK
  <2>2. QED
    BY <1>2, <2>1, Zeros DEF Frame, ControlOK, TypeOK
<1>3. CASE Boot
  <2>1. HistoryOK'
    BY <1>3, HistoryKept, StoreHistory, RollbackHistory DEF Boot, BootNoMeta, BootValid, BootNothing, BootTrial, BootTesting, BootTrialInvalid,
       BootRollback, BootNoFallback
  <2>2. meta # NoMeta => meta.active_slot \in Slot /\ Other(meta.active_slot) \in Slot
    BY OtherSlot DEF TypeOK, Meta
  <2>3. /\ pc' \in {"listen", "parked", "app"} /\ active' \in Slot
        /\ frames' \in {frames, 0} /\ UNCHANGED <<confirmed, quiet>>
    BY <1>3, <2>2 DEF Boot, BootNoMeta, BootValid, BootNothing, BootTrial, BootTesting, BootTrialInvalid,
       BootRollback, BootNoFallback, Listen, Park, Jump, OnTrial, TypeOK
  <2>4. QED
    BY <2>1, <2>3, Zeros DEF ControlOK, TypeOK
<1>4. CASE Frames
  <2>1. Frame /\ HistoryOK'
    BY <1>4, HistoryKept, StoreHistory DEF Frames, on_start_update, on_data, on_end_update, on_abort, on_get_info, stored
  <2>2. QED
    BY <1>2, <2>1
<1>5. CASE Timeout \/ NextPass
  BY <1>5, HistoryKept, Zeros DEF Timeout, NextPass, stored, ControlOK, TypeOK
<1>6. CASE UpdateComplete \/ AppReset
  BY <1>1, <1>6, HistoryKept DEF UpdateComplete, AppReset, stored
<1>7. CASE WindowCloses
  <2>1. HistoryOK'
    BY <1>7, SlotsAssumption DEF WindowCloses, HistoryOK, TypeOK
  <2>2. QED
    BY <1>7, <2>1, Zeros DEF WindowCloses, Jump, ControlOK, TypeOK
<1>8. CASE confirm_startup
  <2>1. HistoryOK'
    BY <1>8, HistoryKept, StoreHistory DEF confirm_startup
  <2>2. QED
    BY <1>8, <2>1, Zeros DEF confirm_startup, ControlOK, TypeOK
<1>9. CASE AppCycle \/ GoQuiet \/ UNCHANGED vars
  BY <1>9, HistoryKept DEF AppCycle, GoQuiet, vars, stored, ControlOK, TypeOK
<1>10. CASE Cuts
  <2>1. Restart /\ HistoryOK'
    BY <1>10, HistoryKept, StoreHistory DEF Cuts, IdleCut, BootCut, EndCut, ConfirmCut, StartCut, DataCut, PowerCut,
       stored
  <2>2. QED
    BY <1>1, <2>1
<1>11. QED
  BY <1>3, <1>4, <1>5, <1>6, <1>7, <1>8, <1>9, <1>10 DEF Next, Loop

LEMMA InitType == Init => TypeOK
<1> SUFFICES ASSUME Init PROVE TypeOK
  OBVIOUS
<1>1. TransferOK /\ ControlOK
  <2>1. HistoryOK
    BY Zeros DEF Init, HistoryOK
  <2>2. QED
    BY <2>1, Zeros DEF Init, TransferOK, ControlOK
<1>2. [s \in Slot |-> Blank] \in [Slot -> Contents]
  BY DEF Blank, Contents, Cell
<1>3. ASSUME NEW img \in Bootable \cap Healthy, NEW size \in Cells,
             meta = [ZeroMeta EXCEPT !.slot[0] =
                       [size |-> size, crc32 |-> img, state |-> "VALID"]],
             flash = [s \in Slot |-> IF s = 0 THEN ImageContents(img, size) ELSE Blank]
      PROVE  StoredOK
  <2>1. img \in Image
    BY <1>3, SystemAssumption
  <2>2. [size |-> size, crc32 |-> img, state |-> "VALID"] \in SlotInfo
    BY <2>1 DEF SlotInfo, FwState, Cells
  <2>3. meta \in Meta
    BY <1>3, <2>2, ZeroMetaType DEF Meta
  <2>4. ImageContents(img, size) \in Contents /\ Blank \in Contents
    BY <2>1 DEF ImageContents, Blank, Contents, Cell
  <2>5. QED
    BY <1>3, <2>3, <2>4 DEF StoredOK
<1>4. StoredOK
  BY <1>2, <1>3 DEF Init, StoredOK
<1>5. QED
  BY <1>1, <1>4, TypeParts

LEMMA TypeStep == TypeOK /\ [Next]_vars => TypeOK'
<1> SUFFICES ASSUME TypeOK, [Next]_vars PROVE TypeOK'
  OBVIOUS
<1>1. StoredOK' /\ TransferOK' /\ ControlOK'
  BY StepShape, ShapeStored, TransferStep, ControlStep
<1>2. QED
  BY <1>1 DEF TypeOK, StoredOK, TransferOK, ControlOK, HistoryOK

\* No action but a START opens a transfer, and none runs outside update mode with one open.
LEMMA OpenTransfer ==
  ASSUME Inv, [Next]_vars
  PROVE  /\ OutsideUpdate'
         /\ state' = "RECEIVING" =>
               \/ /\ state = "RECEIVING" /\ Updating /\ UNCHANGED target_slot
                  /\ \/ UNCHANGED meta
                     \/ \E size \in Cells, img \in Image : meta' = Started(size, img)
               \/ /\ target_slot' = Other(ActiveSlot)
                  /\ \E size \in Cells, img \in Image : meta' = Started(size, img)
<1> USE DEF Inv
<1>1. CASE Restart
  BY <1>1, RestartOK DEF OutsideUpdate
<1>2. CASE Boot
  BY <1>2 DEF Boot, BootNoMeta, BootValid, BootNothing, BootTrial, BootTesting, BootTrialInvalid, BootRollback,
     BootNoFallback, Listen, Park, Jump, OutsideUpdate, transfer
<1>3. CASE Frames
  <2>1. Updating /\ pc' = pc
    BY <1>3 DEF Frames, on_start_update, on_data, on_end_update, on_abort, on_get_info, Frame
  <2>2. ASSUME NEW size \in Sizes, NEW slot \in Slot, on_start_update(size, slot), state' = "RECEIVING"
        PROVE  \/ /\ state = "RECEIVING" /\ Updating /\ UNCHANGED target_slot
                  /\ \/ UNCHANGED meta
                     \/ \E sz \in Cells, im \in Image : meta' = Started(sz, im)
               \/ /\ target_slot' = Other(ActiveSlot)
                  /\ \E sz \in Cells, im \in Image : meta' = Started(sz, im)
    BY <2>1, <2>2 DEF on_start_update, Acceptable, Store, StoreFails, transfer
  <2>3. ASSUME NEW seq \in Seq, NEW len \in Lengths, on_data(seq, len),
               state' = "RECEIVING"
        PROVE  state = "RECEIVING" /\ UNCHANGED <<meta, target_slot>>
    BY <2>3 DEF on_data, Fits, AbortTransfer, transfer
  <2>4. ASSUME on_end_update \/ on_abort \/ on_get_info, state' = "RECEIVING"
        PROVE  state = "RECEIVING" /\ UNCHANGED <<meta, target_slot>>
    BY <2>4 DEF on_end_update, on_abort, on_get_info, stored, AbortTransfer, transfer
  <2>5. QED
    BY <1>3, <2>1, <2>2, <2>3, <2>4 DEF Frames, OutsideUpdate, Updating
<1>4. CASE Timeout \/ NextPass
  BY <1>4 DEF Timeout, NextPass, AbortTransfer, OutsideUpdate, Updating, stored, transfer
<1>5. CASE WindowCloses \/ confirm_startup
  BY <1>5 DEF WindowCloses, confirm_startup, Jump, OutsideUpdate, transfer
<1>6. CASE AppCycle \/ GoQuiet \/ UNCHANGED vars
  BY <1>6 DEF AppCycle, GoQuiet, vars, stored, transfer, OutsideUpdate, Updating, TypeOK
<1>7. CASE Cuts \/ UpdateComplete \/ AppReset
  BY <1>1, <1>7 DEF UpdateComplete, AppReset, Cuts, IdleCut, BootCut, EndCut, ConfirmCut, StartCut,
     DataCut, PowerCut
<1>8. QED
  BY <1>2, <1>3, <1>4, <1>5, <1>6, <1>7 DEF Next, Loop

LEMMA InvStep == Inv /\ [Next]_vars => Inv'
<1> SUFFICES ASSUME Inv, [Next]_vars PROVE Inv'
  OBVIOUS
<1>1. TypeOK' /\ OutsideUpdate'
  BY TypeStep, OpenTransfer DEF Inv
<1>2. ASSUME state' = "RECEIVING"
      PROVE  /\ meta' # NoMeta /\ target_slot' = Other(meta'.active_slot)
             /\ meta'.slot[target_slot'].state = "IN_PROGRESS"
  <2>1. CASE state = "RECEIVING" /\ UNCHANGED <<target_slot, meta>>
    BY <2>1 DEF Inv, TransferInv
  <2>2. ASSUME NEW size \in Cells, NEW img \in Image, meta' = Started(size, img),
               target_slot' = Other(ActiveSlot)
        PROVE  <1>2!2
    BY <2>2, StartedMeta, NoMetaAssumption DEF Inv
  <2>3. state = "RECEIVING" => target_slot = Other(ActiveSlot)
    BY DEF Inv, TransferInv, ActiveSlot
  <2>4. QED
    BY <1>2, <2>1, <2>2, <2>3, OpenTransfer
<1>3. QED
  BY <1>1, <1>2 DEF Inv, TransferInv

THEOREM Invariance == Spec => []Inv
<1>1. Init => Inv
  BY InitType DEF Init, Inv, TransferInv, OutsideUpdate
<1>2. QED
  BY <1>1, InvStep, PTL DEF Spec

\* Every variable keeps its type over every history.
THEOREM TypeCorrect == Spec => []TypeOK
<1>1. Inv => TypeOK
  BY DEF Inv
<1>2. QED
  BY <1>1, Invariance, PTL

-----------------------------------------------------------------------------
(* What a step may never do *)

\* The handlers change no slot but the one recorded IN_PROGRESS, which is never active.
THEOREM OnlyTargetChangesHolds == Spec => OnlyTargetChanges
<1>1. ASSUME Inv, [Next]_vars, NEW s \in Slot, flash'[s] # flash[s]
      PROVE  s # ActiveSlot /\ meta # NoMeta /\ meta.slot[s].state = "IN_PROGRESS"
  <2>1. DataShape
    BY <1>1, StepShape DEF Inv, Shape, Untouched, StartShape, InstallShape, AttemptShape,
       RollbackShape, ConfirmShape
  <2>2. s = target_slot
    BY <1>1, <2>1 DEF DataShape, TargetBecomes, Inv, TypeOK
  <2>3. QED
    BY <1>1, <2>1, <2>2, OtherSlot DEF DataShape, Inv, TransferInv, ActiveSlot, TypeOK, Meta
<1>2. Inv /\ [Next]_vars =>
         \A s \in Slot : flash'[s] # flash[s] =>
            s # ActiveSlot /\ meta # NoMeta /\ meta.slot[s].state = "IN_PROGRESS"
  BY <1>1
<1>3. QED
  BY <1>2, Invariance, PTL DEF Spec, OnlyTargetChanges

\* The counter goes back only with a confirmation or a change of active slot.
LEMMA CounterStep ==
  ASSUME Inv, [Next]_vars, meta # NoMeta, meta' # NoMeta,
         meta'.boot_fail_count < meta.boot_fail_count
  PROVE  \/ meta'.active_slot # meta.active_slot
         \/ pc = "app" /\ meta'.slot[active].state = "VALID"
<1> USE DEF Inv
<1>1. meta \in Meta /\ meta.active_slot \in Slot /\ meta.boot_fail_count \in Nat
  BY DEF TypeOK, Meta
<1>2. CASE Untouched \/ DataShape
  BY <1>1, <1>2 DEF Untouched, DataShape
<1>3. CASE StartShape
  BY <1>1, <1>3, StartedMeta DEF StartShape, Current
<1>4. CASE InstallShape
  BY <1>1, <1>4, InstalledMeta, OtherSlot DEF InstallShape, TransferInv
<1>5. CASE AttemptShape
  BY <1>1, <1>5, AttemptedMeta DEF AttemptShape
<1>6. CASE RollbackShape
  BY <1>1, <1>6, RolledBackMeta, OtherSlot DEF RollbackShape
<1>7. CASE ConfirmShape
  BY <1>1, <1>7, ConfirmedMeta DEF ConfirmShape
<1>8. QED
  BY <1>1, <1>2, <1>3, <1>4, <1>5, <1>6, <1>7, StepShape DEF Shape

\* A transfer that merely starts does not earn the image on trial a boot more.
THEOREM TrialCounterHolds == Spec => TrialCounterKept
<1>1. Inv /\ [Next]_vars =>
         (meta # NoMeta /\ meta' # NoMeta /\ meta'.boot_fail_count < meta.boot_fail_count =>
            \/ meta'.active_slot # meta.active_slot
            \/ pc = "app" /\ meta'.slot[active].state = "VALID")
  BY CounterStep
<1>2. QED
  BY <1>1, Invariance, PTL DEF Spec, TrialCounterKept

\* A failed update never bricks the device: the active slot goes on holding its image
\* through every transfer, rollback, confirmation, reset, power cut and flash fault.
THEOREM ImageKeptHolds == Spec => ImageKept
<1>1. ASSUME Inv, [Next]_vars, HasImage
      PROVE  HasImage'
  <2> USE DEF Inv, HasImage
  <2>1. /\ meta # NoMeta /\ meta \in Meta /\ meta.active_slot \in Slot
        /\ Holds(flash[meta.active_slot], meta.slot[meta.active_slot])
        /\ Current = meta /\ ActiveSlot = meta.active_slot
    BY <1>1 DEF TypeOK, Meta, Current, ActiveSlot
  <2>2. CASE Untouched
    BY <2>1, <2>2 DEF Untouched
  <2>3. CASE StartShape
    BY <1>1, <2>1, <2>3, StartedMeta, NoMetaAssumption DEF StartShape
  <2>4. CASE InstallShape
    <3>1. meta' # NoMeta /\ meta'.active_slot = target_slot
          /\ meta'.slot[target_slot] = [size |-> fw_size, crc32 |-> fw_crc32, state |-> "TESTING"]
      BY <1>1, <2>4, InstalledMeta, NoMetaAssumption DEF InstallShape
    <3>2. Holds(flash[target_slot], [size |-> fw_size, crc32 |-> fw_crc32])
      BY <2>4 DEF InstallShape, Received
    <3>3. QED
      BY <2>4, <3>1, <3>2 DEF InstallShape, Holds
  <2>5. CASE AttemptShape
    BY <1>1, <2>1, <2>5, AttemptedMeta, NoMetaAssumption DEF AttemptShape
  <2>6. CASE RollbackShape
    BY <1>1, <2>1, <2>6, RolledBackMeta, NoMetaAssumption DEF RollbackShape, FallbackUsable, Intact
  <2>7. CASE ConfirmShape
    <3>1. /\ meta' # NoMeta /\ meta'.active_slot = meta.active_slot /\ flash' = flash
          /\ meta'.slot[meta.active_slot].size = meta.slot[meta.active_slot].size
          /\ meta'.slot[meta.active_slot].crc32 = meta.slot[meta.active_slot].crc32
      BY <1>1, <2>1, <2>7, ConfirmedMeta, NoMetaAssumption, TwoSlots DEF ConfirmShape, TypeOK
    <3>2. QED
      BY <2>1, <3>1 DEF Holds
  <2>8. CASE DataShape
    <3>1. target_slot # meta.active_slot
      BY <1>1, <2>1, <2>8, OtherSlot DEF DataShape, TransferInv
    <3>2. flash'[meta.active_slot] = flash[meta.active_slot] /\ meta' = meta
      BY <1>1, <2>1, <2>8, <3>1 DEF DataShape, TargetBecomes, TypeOK
    <3>3. QED
      BY <2>1, <3>2
  <2>9. QED
    BY <1>1, <2>2, <2>3, <2>4, <2>5, <2>6, <2>7, <2>8, StepShape DEF Shape
<1>2. QED
  BY <1>1, Invariance, PTL DEF Spec, ImageKept

-----------------------------------------------------------------------------
(* Where a board left to itself is going *)

\* Steps of the board from the boot to what the application does.
StepsLeft == CASE pc = "boot" -> 3 [] pc = "listen" -> 2 [] pc = "app" -> 1

\* Steps until the fallback runs: those of the attempts left, and those of the one under way.
RollbackLeft == 3 * (MAX_BOOT_FAILURES - meta.boot_fail_count)
                  + CASE pc = "boot" -> 2 [] pc = "listen" -> 4 [] pc = "app" -> 3

\* Nobody interferes while the board boots slot s, waits in its window or runs it.
LeftAlone(s) == /\ quiet /\ state = "IDLE"
                /\ meta # NoMeta /\ meta.active_slot = s /\ Intact(s)
                /\ pc \in {"boot", "listen", "app"}
                /\ pc # "boot" => active = s

\* The image on trial in s never works, and the other slot holds one that does.
Condemned(s) == /\ LeftAlone(s) /\ BootState = "TESTING" /\ flash[s][1] \notin Healthy
                /\ FallbackUsable /\ flash[Other(s)][1] \in Healthy

\* The image on trial in s works and has an attempt left, or has been given its last one.
Promising(s) == /\ LeftAlone(s) /\ BootState = "TESTING" /\ flash[s][1] \in Healthy
                /\ ~confirmed
                /\ pc = "boot" => ~TrialOver

\* The image in s works and is VALID.
Settled(s) == LeftAlone(s) /\ Working(s)

\* main.c:421-510: with nobody interfering, an image that never works uses up its attempts,
\* every step of the board is one nearer to the end, and the only way out of the trial is
\* the other image.
RollbackCourse ==
    [][\A s \in Slot : Condemned(s) =>
          \/ pc' = "app" /\ active' = Other(s) /\ Runs'
          \/ /\ Condemned(s)' /\ RollbackLeft' \in Nat
             /\ IF pc' = pc THEN meta' = meta ELSE RollbackLeft' < RollbackLeft]_vars

\* A sound image that has an attempt left goes through the window to its confirmation, and
\* nowhere else.
TrialCourse ==
    [][\A s \in Slot : Promising(s) =>
          \/ meta' # NoMeta /\ meta'.active_slot = s /\ BootState' = "VALID"
          \/ /\ Promising(s)'
             /\ IF pc' = pc THEN meta' = meta ELSE StepsLeft' < StepsLeft]_vars

\* A sound VALID image goes through the window to its cycles, and stays there.
SettledCourse ==
    [][\A s \in Slot : Settled(s) => Settled(s)' /\ (pc' = pc \/ StepsLeft' < StepsLeft)]_vars

\* The application's own flag is clear whenever something else runs.
ConfirmedRuns == confirmed => pc = "app"

LEMMA ConfirmedRunsStep == ConfirmedRuns /\ [Next]_vars => ConfirmedRuns'
<1> SUFFICES ASSUME ConfirmedRuns, [Next]_vars PROVE ConfirmedRuns'
  OBVIOUS
<1>1. CASE Restart
  BY <1>1 DEF Restart, ConfirmedRuns
<1>2. CASE pc' = "app"
  BY <1>2 DEF ConfirmedRuns
<1>3. CASE confirmed' = confirmed /\ pc' = pc
  BY <1>3 DEF ConfirmedRuns
<1>4. CASE pc = "boot" /\ confirmed' = confirmed
  BY <1>4 DEF ConfirmedRuns
<1>5. CASE Boot
  BY <1>5, <1>4 DEF Boot, BootNoMeta, BootValid, BootNothing, BootTesting, BootTrial,
     BootTrialInvalid, BootRollback, BootNoFallback, Listen, Park, Jump
<1>6. CASE Frames
  BY <1>6, <1>3 DEF Frames, on_start_update, on_data, on_end_update, on_abort, on_get_info, Frame
<1>7. CASE Loop
  BY <1>7, <1>1, <1>2, <1>3 DEF Loop, Timeout, NextPass, UpdateComplete, WindowCloses, Jump
<1>8. CASE confirm_startup \/ AppCycle \/ GoQuiet \/ UNCHANGED vars
  BY <1>8, <1>3, <1>2 DEF confirm_startup, AppCycle, GoQuiet, vars
<1>9. CASE AppReset
  BY <1>9, <1>1 DEF AppReset
<1>10. CASE Cuts
  BY <1>10, <1>1 DEF Cuts, IdleCut, BootCut, EndCut, ConfirmCut, StartCut, DataCut, PowerCut
<1>11. QED
  BY <1>5, <1>6, <1>7, <1>8, <1>9, <1>10 DEF Next

\* What such a board does next.
LEMMA AloneStep ==
  ASSUME TypeOK, NEW s \in Slot, LeftAlone(s), [Next]_vars
  PROVE  /\ quiet' /\ state' = "IDLE" /\ flash' = flash
         /\ \/ meta' = meta /\ pc' = pc /\ active' = active /\ confirmed' = confirmed
            \/ Boot /\ confirmed' = confirmed
            \/ /\ pc = "listen" /\ pc' = "app" /\ active' = active
               /\ meta' = meta /\ confirmed' = confirmed
            \/ /\ pc = "app" /\ pc' = "app" /\ active' = active /\ Runs
               /\ (meta' = meta /\ AlreadyConfirmed) \/ meta' = Confirmed
            \/ /\ pc = "app" /\ ~Runs /\ pc' = "boot" /\ meta' = meta /\ confirmed' = FALSE
<1>1. quiet /\ state = "IDLE" /\ quiet \in BOOLEAN
  BY DEF LeftAlone, TypeOK
<1>2. CASE Boot
  BY <1>1, <1>2 DEF Boot, BootNoMeta, BootValid, BootNothing, BootTesting, BootTrial,
     BootTrialInvalid, BootRollback, BootNoFallback, Listen, Park, Jump, transfer
<1>3. CASE Loop
  BY <1>1, <1>3 DEF Loop, Timeout, NextPass, UpdateComplete, WindowCloses, Jump, stored, transfer
<1>4. CASE confirm_startup
  BY <1>1, <1>4 DEF confirm_startup, Store, StoreFails, transfer
<1>5. CASE AppCycle \/ UNCHANGED vars
  BY <1>1, <1>5 DEF AppCycle, vars, stored, transfer
<1>6. CASE AppReset
  BY <1>1, <1>6 DEF AppReset, Restart, NoTransfer, stored
<1>7. ~Frames /\ ~Cuts /\ ~GoQuiet
  BY <1>1 DEF Frames, on_start_update, on_data, on_end_update, on_abort, on_get_info, Frame,
     Cuts, IdleCut, BootCut, EndCut, ConfirmCut, StartCut, DataCut, PowerCut, GoQuiet
<1>8. QED
  BY <1>2, <1>3, <1>4, <1>5, <1>6, <1>7 DEF Next

\* Its boot decision, when the record describes what the slot holds.
LEMMA AloneBoots ==
  ASSUME TypeOK, NEW s \in Slot, LeftAlone(s), Boot
  PROVE  /\ pc = "boot"
         /\ BootState = "VALID" => pc' = "listen" /\ active' = s /\ meta' = meta
         /\ BootState = "TESTING" /\ ~TrialOver => pc' = "listen" /\ active' = s /\ meta' = Attempted
         /\ BootState = "TESTING" /\ TrialOver /\ FallbackUsable
               => pc' = "app" /\ active' = Other(s) /\ meta' = RolledBack
<1>1. quiet /\ meta # NoMeta /\ meta.active_slot = s /\ Intact(meta.active_slot)
  BY DEF LeftAlone
<1>2. CASE BootValid
  BY <1>1, <1>2 DEF BootValid, Listen
<1>3. CASE BootNothing \/ BootNoMeta
  BY <1>1, <1>3 DEF BootNothing, BootNoMeta
<1>4. CASE BootTrial
  BY <1>1, <1>4 DEF BootTrial, Listen, Store, StoreFails, OnTrial, BootState
<1>5. CASE BootRollback
  BY <1>1, <1>5 DEF BootRollback, Jump, Store, StoreFails, OnTrial, BootState
<1>6. CASE BootTrialInvalid \/ BootNoFallback
  BY <1>1, <1>6 DEF BootTrialInvalid, BootNoFallback, OnTrial, BootState
<1>7. QED
  BY <1>2, <1>3, <1>4, <1>5, <1>6 DEF Boot, BootTesting

\* What it knows of the slot lasts as long as the slot and its record.
LEMMA AloneKept ==
  ASSUME NEW s \in Slot, LeftAlone(s), quiet', state' = "IDLE", flash' = flash,
         meta' # NoMeta, meta'.active_slot = s, meta'.slot[s].size = meta.slot[s].size,
         meta'.slot[s].crc32 = meta.slot[s].crc32,
         pc' \in {"boot", "listen", "app"}, pc' # "boot" => active' = s
  PROVE  LeftAlone(s)'
<1>1. Intact(s)'
  BY DEF LeftAlone, Intact, LooksBootable, Holds
<1>2. QED
  BY <1>1 DEF LeftAlone

LEMMA AttemptedInfo ==
  ASSUME TypeOK, meta # NoMeta, ~TrialOver
  PROVE  /\ Attempted # NoMeta /\ Attempted.active_slot = meta.active_slot /\ Attempted.slot = meta.slot
         /\ Attempted.boot_fail_count = meta.boot_fail_count + 1
         /\ meta.boot_fail_count \in Nat /\ meta.boot_fail_count < MAX_BOOT_FAILURES
<1>1. meta \in Meta /\ meta.boot_fail_count \in 0..MAX_BOOT_FAILURES /\ MAX_BOOT_FAILURES \in Nat
  BY SlotsAssumption DEF TypeOK, Meta
<1>2. QED
  BY <1>1, AttemptedMeta, NoMetaAssumption DEF TrialOver

LEMMA RollbackCourseStep ==
  ASSUME TypeOK, NEW s \in Slot, Condemned(s), [Next]_vars
  PROVE  \/ pc' = "app" /\ active' = Other(s) /\ Runs'
         \/ /\ Condemned(s)' /\ RollbackLeft' \in Nat
            /\ IF pc' = pc THEN meta' = meta ELSE RollbackLeft' < RollbackLeft
<1>1. LeftAlone(s) /\ meta # NoMeta /\ meta.active_slot = s /\ meta \in Meta
  BY DEF Condemned, LeftAlone, TypeOK
<1>2. /\ BootState = "TESTING" /\ FallbackUsable
      /\ flash[s][1] \notin Healthy /\ flash[Other(s)][1] \in Healthy
  BY DEF Condemned
<1>3. quiet' /\ state' = "IDLE" /\ flash' = flash
  BY <1>1, AloneStep
<1>4. pc = "listen" \/ pc = "app" => active = s
  BY <1>1 DEF LeftAlone
<1>5. pc \in {"boot", "listen", "app"}
  BY <1>1 DEF LeftAlone
<1>6. meta.boot_fail_count \in 0..MAX_BOOT_FAILURES /\ MAX_BOOT_FAILURES \in Nat
  BY <1>1, SlotsAssumption DEF Meta
<1>7. ASSUME meta'.slot = meta.slot, meta' # NoMeta, meta'.active_slot = s,
             pc' \in {"boot", "listen", "app"}, pc' # "boot" => active' = s
      PROVE  Condemned(s)'
  <2>1. LeftAlone(s)'
    BY <1>1, <1>3, <1>7, AloneKept
  <2>2. BootState' = "TESTING" /\ FallbackUsable'
    BY <1>1, <1>2, <1>3, <1>7 DEF BootState, FallbackUsable, Intact, LooksBootable, Holds
  <2>3. QED
    BY <1>2, <1>3, <2>1, <2>2 DEF Condemned
<1>8. CASE meta' = meta /\ pc' = pc /\ active' = active
  <2>1. Condemned(s)'
    BY <1>1, <1>4, <1>5, <1>7, <1>8
  <2>2. RollbackLeft \in Nat
    BY <1>5, <1>6 DEF RollbackLeft
  <2>3. QED
    BY <1>8, <2>1, <2>2 DEF RollbackLeft
<1>9. CASE Boot /\ TrialOver
  <2>1. pc' = "app" /\ active' = Other(s)
    BY <1>1, <1>2, <1>9, AloneBoots
  <2>2. QED
    BY <1>2, <1>3, <2>1 DEF Runs
<1>10. CASE Boot /\ ~TrialOver
  <2>1. pc = "boot" /\ pc' = "listen" /\ active' = s /\ meta' = Attempted
    BY <1>1, <1>2, <1>10, AloneBoots
  <2>2. Condemned(s)'
    BY <1>1, <1>7, <1>10, <2>1, AttemptedInfo
  <2>3. /\ meta'.boot_fail_count = meta.boot_fail_count + 1
        /\ meta.boot_fail_count < MAX_BOOT_FAILURES
    BY <1>1, <1>10, <2>1, AttemptedInfo
  <2>4. RollbackLeft' = 3 * (MAX_BOOT_FAILURES - (meta.boot_fail_count + 1)) + 4
    BY <2>1, <2>3 DEF RollbackLeft
  <2>5. RollbackLeft = 3 * (MAX_BOOT_FAILURES - meta.boot_fail_count) + 2
    BY <2>1 DEF RollbackLeft
  <2>6. RollbackLeft' \in Nat /\ RollbackLeft' < RollbackLeft
    BY <1>6, <2>3, <2>4, <2>5
  <2>7. QED
    BY <2>1, <2>2, <2>6
<1>11. CASE pc = "listen" /\ pc' = "app" /\ active' = active /\ meta' = meta
  <2>1. Condemned(s)'
    BY <1>1, <1>4, <1>7, <1>11
  <2>2. RollbackLeft' = RollbackLeft - 1 /\ RollbackLeft' \in Nat /\ RollbackLeft \in Nat
    BY <1>6, <1>11 DEF RollbackLeft
  <2>3. QED
    BY <1>11, <2>1, <2>2
<1>12. CASE pc = "app" /\ pc' = "boot" /\ meta' = meta
  <2>1. Condemned(s)'
    BY <1>1, <1>7, <1>12
  <2>2. RollbackLeft' = RollbackLeft - 1 /\ RollbackLeft' \in Nat /\ RollbackLeft \in Nat
    BY <1>6, <1>12 DEF RollbackLeft
  <2>3. QED
    BY <1>12, <2>1, <2>2
<1>13. pc = "app" => ~Runs
  BY <1>2, <1>4 DEF Runs
<1>14. QED
  BY <1>1, <1>8, <1>9, <1>10, <1>11, <1>12, <1>13, AloneStep

\* RollbackCourse, for every threshold and every pair of images.
THEOREM RollbackCourseHolds == Spec => RollbackCourse
<1>1. TypeOK /\ [Next]_vars => [\A s \in Slot : Condemned(s) =>
          \/ pc' = "app" /\ active' = Other(s) /\ Runs'
          \/ /\ Condemned(s)' /\ RollbackLeft' \in Nat
             /\ IF pc' = pc THEN meta' = meta ELSE RollbackLeft' < RollbackLeft]_vars
  BY RollbackCourseStep
<1>2. QED
  BY <1>1, TypeCorrect, PTL DEF Spec, RollbackCourse

LEMMA ConfirmedInfo ==
  ASSUME TypeOK, meta # NoMeta, meta.active_slot = active
  PROVE  /\ Confirmed # NoMeta /\ Confirmed.active_slot = active
         /\ Confirmed.slot[active].state = "VALID"
         /\ Confirmed.slot[active].size = meta.slot[active].size
         /\ Confirmed.slot[active].crc32 = meta.slot[active].crc32
<1>1. meta \in Meta /\ active \in Slot
  BY DEF TypeOK
<1>2. QED
  BY <1>1, ConfirmedMeta, NoMetaAssumption

LEMMA TrialCourseStep ==
  ASSUME TypeOK, NEW s \in Slot, Promising(s), [Next]_vars
  PROVE  \/ meta' # NoMeta /\ meta'.active_slot = s /\ BootState' = "VALID"
         \/ /\ Promising(s)'
            /\ IF pc' = pc THEN meta' = meta ELSE StepsLeft' < StepsLeft
<1>1. LeftAlone(s) /\ meta # NoMeta /\ meta.active_slot = s
  BY DEF Promising, LeftAlone
<1>2. BootState = "TESTING" /\ flash[s][1] \in Healthy /\ ~confirmed
  BY DEF Promising
<1>3. quiet' /\ state' = "IDLE" /\ flash' = flash
  BY <1>1, AloneStep
<1>4. pc = "listen" \/ pc = "app" => active = s
  BY <1>1 DEF LeftAlone
<1>5. pc \in {"boot", "listen", "app"}
  BY <1>1 DEF LeftAlone
<1>6. ASSUME meta'.slot = meta.slot, meta' # NoMeta, meta'.active_slot = s, ~confirmed',
             pc' \in {"boot", "listen", "app"}, pc' # "boot" => active' = s,
             pc' = "boot" => meta' = meta /\ pc = "boot"
      PROVE  Promising(s)'
  <2>1. LeftAlone(s)'
    BY <1>1, <1>3, <1>6, AloneKept
  <2>2. BootState' = "TESTING"
    BY <1>1, <1>2, <1>6 DEF BootState
  <2>3. pc' = "boot" => ~TrialOver'
    BY <1>6 DEF Promising, TrialOver
  <2>4. QED
    BY <1>2, <1>3, <1>6, <2>1, <2>2, <2>3 DEF Promising
<1>7. CASE meta' = meta /\ pc' = pc /\ active' = active /\ confirmed' = confirmed
  BY <1>1, <1>2, <1>4, <1>5, <1>6, <1>7
<1>8. CASE Boot /\ confirmed' = confirmed
  <2>1. pc = "boot" /\ ~TrialOver
    BY <1>1, <1>8, AloneBoots DEF Promising
  <2>2. pc' = "listen" /\ active' = s /\ meta' = Attempted
    BY <1>1, <1>2, <1>8, <2>1, AloneBoots
  <2>3. Promising(s)'
    BY <1>1, <1>2, <1>6, <1>8, <2>1, <2>2, AttemptedInfo
  <2>4. QED
    BY <2>1, <2>2, <2>3 DEF StepsLeft
<1>9. CASE pc = "listen" /\ pc' = "app" /\ active' = active /\ meta' = meta /\ confirmed' = confirmed
  <2>1. Promising(s)'
    BY <1>1, <1>2, <1>4, <1>6, <1>9
  <2>2. QED
    BY <1>9, <2>1 DEF StepsLeft
<1>10. CASE pc = "app" /\ meta' = Confirmed
  <2>1. meta' # NoMeta /\ meta'.active_slot = s /\ meta'.slot[s].state = "VALID"
    BY <1>1, <1>4, <1>10, ConfirmedInfo
  <2>2. QED
    BY <2>1 DEF BootState
<1>11. pc = "app" => Runs /\ ~AlreadyConfirmed
  BY <1>1, <1>2, <1>4 DEF Runs, AlreadyConfirmed, BootState
<1>12. QED
  BY <1>1, <1>7, <1>8, <1>9, <1>10, <1>11, AloneStep

\* TrialCourse, for every threshold and every pair of images.
THEOREM TrialCourseHolds == Spec => TrialCourse
<1>1. TypeOK /\ [Next]_vars => [\A s \in Slot : Promising(s) =>
          \/ meta' # NoMeta /\ meta'.active_slot = s /\ BootState' = "VALID"
          \/ /\ Promising(s)'
             /\ IF pc' = pc THEN meta' = meta ELSE StepsLeft' < StepsLeft]_vars
  BY TrialCourseStep
<1>2. QED
  BY <1>1, TypeCorrect, PTL DEF Spec, TrialCourse

LEMMA SettledCourseStep ==
  ASSUME TypeOK, NEW s \in Slot, Settled(s), [Next]_vars
  PROVE  Settled(s)' /\ (pc' = pc \/ StepsLeft' < StepsLeft)
<1>1. LeftAlone(s) /\ meta # NoMeta /\ meta.active_slot = s /\ BootState = "VALID"
      /\ flash[s][1] \in Healthy
  BY DEF Settled, Working
<1>2. quiet' /\ state' = "IDLE" /\ flash' = flash
  BY <1>1, AloneStep
<1>3. pc = "listen" \/ pc = "app" => active = s
  BY <1>1 DEF LeftAlone
<1>4. pc \in {"boot", "listen", "app"}
  BY <1>1 DEF LeftAlone
<1>5. ASSUME meta' # NoMeta, meta'.active_slot = s, meta'.slot[s].state = "VALID",
             meta'.slot[s].size = meta.slot[s].size, meta'.slot[s].crc32 = meta.slot[s].crc32,
             pc' \in {"boot", "listen", "app"}, pc' # "boot" => active' = s
      PROVE  Settled(s)'
  <2>1. LeftAlone(s)'
    BY <1>1, <1>2, <1>5, AloneKept
  <2>2. Working(s)'
    BY <1>1, <1>2, <1>5, <2>1 DEF Working, LeftAlone, BootState
  <2>3. QED
    BY <2>1, <2>2 DEF Settled
<1>6. meta.slot[s].state = "VALID"
  BY <1>1 DEF BootState
<1>7. CASE meta' = meta /\ pc' = pc /\ active' = active
  BY <1>1, <1>3, <1>4, <1>5, <1>6, <1>7
<1>8. CASE Boot
  <2>1. pc = "boot" /\ pc' = "listen" /\ active' = s /\ meta' = meta
    BY <1>1, <1>8, AloneBoots
  <2>2. Settled(s)'
    BY <1>1, <1>5, <1>6, <2>1
  <2>3. QED
    BY <2>1, <2>2 DEF StepsLeft
<1>9. CASE pc = "listen" /\ pc' = "app" /\ active' = active /\ meta' = meta
  <2>1. Settled(s)'
    BY <1>1, <1>3, <1>5, <1>6, <1>9
  <2>2. QED
    BY <1>9, <2>1 DEF StepsLeft
<1>10. CASE pc = "app" /\ pc' = "app" /\ active' = active /\ meta' = Confirmed
  <2>1. meta' # NoMeta /\ meta'.active_slot = s /\ meta'.slot[s].state = "VALID"
        /\ meta'.slot[s].size = meta.slot[s].size /\ meta'.slot[s].crc32 = meta.slot[s].crc32
    BY <1>1, <1>3, <1>10, ConfirmedInfo
  <2>2. QED
    BY <1>3, <1>5, <1>10, <2>1
<1>11. pc = "app" => Runs
  BY <1>1, <1>3 DEF Runs
<1>12. QED
  BY <1>1, <1>3, <1>7, <1>8, <1>9, <1>10, <1>11, AloneStep

\* SettledCourse, for every pair of images.
THEOREM SettledCourseHolds == Spec => SettledCourse
<1>1. TypeOK /\ [Next]_vars =>
        [\A s \in Slot : Settled(s) => Settled(s)' /\ (pc' = pc \/ StepsLeft' < StepsLeft)]_vars
  BY SettledCourseStep
<1>2. QED
  BY <1>1, TypeCorrect, PTL DEF Spec, SettledCourse

\* RollbackHappens, TrialSucceeds and BackToApplication begin in the states the courses are about.
Begins == /\ TrialFails => Condemned(meta.active_slot)
          /\ TrialStarts => Promising(meta.active_slot)
          /\ \A s \in Slot : quiet /\ pc = "boot" /\ Working(s) => Settled(s)

\* Whatever came before the host fell silent, the courses start where the promises do.
THEOREM BeginsHolds == Spec => []Begins
<1>1. Init => ConfirmedRuns
  BY DEF Init, ConfirmedRuns
<1>2. Spec => []ConfirmedRuns
  BY <1>1, ConfirmedRunsStep, PTL DEF Spec
<1>3. ASSUME Inv, ConfirmedRuns PROVE Begins
  <2>1. pc = "boot" => state = "IDLE" /\ ~confirmed
    BY <1>3 DEF Inv, OutsideUpdate, ConfirmedRuns
  <2>2. TrialFails => Condemned(meta.active_slot)
    BY <2>1 DEF TrialFails, Condemned, LeftAlone, OnTrial, BootState
  <2>3. TrialStarts => Promising(meta.active_slot)
    BY <2>1 DEF TrialStarts, Promising, LeftAlone, OnTrial, BootState
  <2>4. \A s \in Slot : quiet /\ pc = "boot" /\ Working(s) => Settled(s)
    BY <2>1 DEF Working, Settled, LeftAlone
  <2>5. QED
    BY <2>2, <2>3, <2>4 DEF Begins
<1>4. QED
  BY <1>2, <1>3, Invariance, PTL

-----------------------------------------------------------------------------
(* What a board starts *)

\* Once END is accepted the pass is over: nothing more is dispatched before the reset.
PassOver == state = "COMPLETE" => frames >= FramesPerPass

\* The slot main() chose before it opened the listen window is still the active one.
Chosen(st) == /\ meta # NoMeta
              /\ active = meta.active_slot
              /\ meta.slot[active].state \in st
              /\ LooksBootable(active)

ChoiceStands == /\ pc = "listen" /\ state # "COMPLETE" => Chosen({"TESTING", "VALID"})
                /\ pc = "app" => Chosen({"IN_PROGRESS", "TESTING", "VALID"})

\* Starts of the image on trial never exceed the attempts recorded, the rollback's own start
\* apart; in a listen window one recorded attempt has not been used yet.
TrialsCounted == /\ ~OnTrial(meta) => trials = 0 /\ returned = 0
                 /\ OnTrial(meta) => trials <= meta.boot_fail_count + returned
                 /\ OnTrial(meta) /\ pc = "listen" /\ state # "COMPLETE"
                        => trials < meta.boot_fail_count + returned

StartInv == Inv /\ PassOver /\ RecordHonest /\ ChoiceStands /\ TrialsCounted

-----------------------------------------------------------------------------
(* RecordHonest *)

LEMMA HonestStep ==
  ASSUME Inv, RecordHonest, ChoiceStands, [Next]_vars
  PROVE  RecordHonest'
<1> USE DEF Inv
<1>1. Shape
  BY StepShape
<1>2. meta # NoMeta => /\ meta \in Meta /\ meta.active_slot \in Slot
                       /\ Current = meta /\ ActiveSlot = meta.active_slot
  BY DEF TypeOK, Meta, Current, ActiveSlot
<1>3. CASE Untouched
  BY <1>3 DEF Untouched, RecordHonest
<1>4. CASE StartShape
  <2>1. PICK size \in Cells, img \in Image : meta' = Started(size, img)
    BY <1>4 DEF StartShape
  <2>2. /\ meta'.active_slot = ActiveSlot /\ flash' = flash
        /\ meta'.slot[Other(ActiveSlot)].state = "IN_PROGRESS"
        /\ meta'.slot[ActiveSlot] = Current.slot[ActiveSlot]
        /\ ActiveSlot \in Slot /\ Other(ActiveSlot) # ActiveSlot
    BY <1>4, <2>1, StartedMeta, CurrentMeta, OtherSlot DEF StartShape
  <2>3. ASSUME NEW s \in Slot,
               \/ meta'.slot[s].state \in {"TESTING", "VALID"}
               \/ s = meta'.active_slot /\ meta'.slot[s].state # "EMPTY"
        PROVE  Holds(flash'[s], meta'.slot[s])
    <3>1. s = ActiveSlot
      BY <2>2, <2>3, TwoSlots
    <3>2. CASE meta = NoMeta
      BY <2>2, <2>3, <3>1, <3>2 DEF Current, ZeroMeta, EmptySlot
    <3>3. CASE meta # NoMeta
      BY <1>2, <2>2, <2>3, <3>1, <3>3 DEF RecordHonest
    <3>4. QED
      BY <3>2, <3>3
  <2>4. QED
    BY <2>3 DEF RecordHonest
<1>5. CASE InstallShape
  <2>1. /\ meta # NoMeta /\ target_slot \in Slot /\ flash' = flash
        /\ meta'.active_slot = target_slot
        /\ meta'.slot[target_slot] = [size |-> fw_size, crc32 |-> fw_crc32, state |-> "TESTING"]
        /\ meta'.slot[Other(target_slot)] = meta.slot[Other(target_slot)]
    BY <1>2, <1>5, InstalledMeta DEF InstallShape, TransferInv, TypeOK
  <2>2. Holds(flash[target_slot], meta'.slot[target_slot])
    BY <1>5, <2>1 DEF InstallShape, Received, Holds
  <2>3. meta.slot[Other(target_slot)].state \in {"TESTING", "VALID"}
            => Holds(flash[Other(target_slot)], meta.slot[Other(target_slot)])
    BY <2>1, OtherSlot DEF RecordHonest
  <2>4. ASSUME NEW s \in Slot,
               \/ meta'.slot[s].state \in {"TESTING", "VALID"}
               \/ s = meta'.active_slot /\ meta'.slot[s].state # "EMPTY"
        PROVE  Holds(flash'[s], meta'.slot[s])
    BY <2>1, <2>2, <2>3, <2>4, TwoSlots, OtherSlot
  <2>5. QED
    BY <2>4 DEF RecordHonest
<1>6. CASE AttemptShape
  <2>1. meta # NoMeta /\ meta'.slot = meta.slot /\ meta'.active_slot = meta.active_slot /\ flash' = flash
    BY <1>6, AttemptedMeta DEF AttemptShape, OnTrial
  <2>2. QED
    BY <2>1 DEF RecordHonest
<1>7. CASE RollbackShape
  <2>1. /\ meta # NoMeta /\ flash' = flash
        /\ meta'.active_slot = Other(meta.active_slot)
        /\ meta'.slot[meta.active_slot].state = "EMPTY"
        /\ meta'.slot[Other(meta.active_slot)] = meta.slot[Other(meta.active_slot)]
        /\ Holds(flash[Other(meta.active_slot)], meta.slot[Other(meta.active_slot)])
    BY <1>7, RolledBackMeta DEF RollbackShape, OnTrial, FallbackUsable, Intact
  <2>2. ASSUME NEW s \in Slot,
               \/ meta'.slot[s].state \in {"TESTING", "VALID"}
               \/ s = meta'.active_slot /\ meta'.slot[s].state # "EMPTY"
        PROVE  Holds(flash'[s], meta'.slot[s])
    BY <1>2, <2>1, <2>2, TwoSlots, OtherSlot
  <2>3. QED
    BY <2>2 DEF RecordHonest
<1>8. CASE ConfirmShape
  <2>1. /\ meta # NoMeta /\ active \in Slot /\ active = meta.active_slot /\ flash' = flash
        /\ Holds(flash[active], meta.slot[active])
    BY <1>8, <1>2 DEF ConfirmShape, ChoiceStands, Chosen, RecordHonest
  <2>2. /\ meta'.active_slot = meta.active_slot
        /\ meta'.slot[active].size = meta.slot[active].size
        /\ meta'.slot[active].crc32 = meta.slot[active].crc32
        /\ meta'.slot[Other(active)] = meta.slot[Other(active)]
    BY <1>8, ConfirmedMeta DEF ConfirmShape
  <2>3. Holds(flash'[active], meta'.slot[active])
    BY <2>1, <2>2 DEF Holds
  <2>4. ASSUME NEW s \in Slot,
               \/ meta'.slot[s].state \in {"TESTING", "VALID"}
               \/ s = meta'.active_slot /\ meta'.slot[s].state # "EMPTY"
        PROVE  Holds(flash'[s], meta'.slot[s])
    BY <2>1, <2>2, <2>3, <2>4, TwoSlots, OtherSlot DEF RecordHonest
  <2>5. QED
    BY <2>4 DEF RecordHonest
<1>9. CASE DataShape
  <2>1. /\ meta' = meta /\ meta # NoMeta
        /\ target_slot # meta.active_slot /\ meta.slot[target_slot].state = "IN_PROGRESS"
    BY <1>2, <1>9, OtherSlot DEF DataShape, TransferInv
  <2>2. \A s \in Slot : s # target_slot => flash'[s] = flash[s]
    BY <1>9 DEF DataShape, TargetBecomes, TypeOK
  <2>3. QED
    BY <2>1, <2>2 DEF RecordHonest
<1>10. QED
  BY <1>1, <1>3, <1>4, <1>5, <1>6, <1>7, <1>8, <1>9 DEF Shape

-----------------------------------------------------------------------------
(* The choice made before the window is still the right one after it *)

\* Chosen survives a step that leaves the active slot's description, and contents, alone.
LEMMA ChosenKept ==
  ASSUME NEW st \in SUBSET FwState, Chosen(st), active' = active,
         meta' # NoMeta, meta'.active_slot = meta.active_slot,
         meta'.slot[active].state = meta.slot[active].state,
         flash'[active] = flash[active]
  PROVE  Chosen(st)'
  BY DEF Chosen, LooksBootable

\* A frame handled in the window does not disturb the active slot.
LEMMA ListenFrame ==
  ASSUME Inv, Chosen({"TESTING", "VALID"}), StartShape \/ DataShape \/ Untouched, active' = active
  PROVE  Chosen({"TESTING", "VALID"})'
<1> USE DEF Inv
<1>1. /\ meta # NoMeta /\ active = meta.active_slot /\ active \in Slot
      /\ ActiveSlot = active /\ Current = meta
  BY DEF Chosen, TypeOK, ActiveSlot, Current
<1>2. {"TESTING", "VALID"} \in SUBSET FwState
  BY DEF FwState
<1>3. CASE Untouched
  BY <1>1, <1>2, <1>3, ChosenKept DEF Untouched
<1>4. CASE StartShape
  <2>1. PICK size \in Cells, img \in Image : meta' = Started(size, img)
    BY <1>4 DEF StartShape
  <2>2. meta' # NoMeta /\ meta'.active_slot = active /\ meta'.slot[active] = meta.slot[active]
    BY <1>1, <2>1, StartedMeta, NoMetaAssumption
  <2>3. QED
    BY <1>1, <1>2, <1>4, <2>2, ChosenKept DEF StartShape
<1>5. CASE DataShape
  <2>1. meta' = meta /\ target_slot # active
    BY <1>1, <1>5, OtherSlot DEF DataShape, TransferInv
  <2>2. flash'[active] = flash[active]
    BY <1>1, <1>5, <2>1 DEF DataShape, TargetBecomes, TypeOK
  <2>3. QED
    BY <1>1, <1>2, <2>1, <2>2, ChosenKept
<1>6. QED
  BY <1>3, <1>4, <1>5

LEMMA ChoiceStep ==
  ASSUME FramesPerPass = 1, ~FlashFaults, StartInv, [Next]_vars
  PROVE  PassOver' /\ ChoiceStands'
<1> USE DEF StartInv, Inv
<1>1. CASE Restart
  BY <1>1, RestartOK DEF PassOver, ChoiceStands
<1>2. CASE Boot
  <2>1. state' = "IDLE" /\ flash' = flash
    BY <1>2 DEF Boot, BootNoMeta, BootValid, BootNothing, BootTrial, BootTesting, BootTrialInvalid,
       BootRollback, BootNoFallback, Listen, Park, Jump, transfer, OutsideUpdate
  <2>2. meta # NoMeta => meta \in Meta /\ meta.active_slot \in Slot
    BY DEF TypeOK, Meta
  <2>3. CASE Park
    BY <2>1, <2>3 DEF Park, PassOver, ChoiceStands
  <2>4. CASE BootValid /\ Listen
    BY <2>1, <2>2, <2>4 DEF BootValid, Listen, Park, BootState, Intact, LooksBootable,
       PassOver, ChoiceStands, Chosen
  <2>5. CASE BootTrial
    <3>1. meta' = Attempted /\ meta # NoMeta
      BY <2>5 DEF BootTrial, Store, StoreFails, OnTrial
    <3>2. meta' # NoMeta /\ meta'.active_slot = meta.active_slot /\ meta'.slot = meta.slot
      BY <2>5, <3>1, AttemptedMeta, NoMetaAssumption DEF BootTrial
    <3>3. QED
      BY <2>1, <2>5, <3>2 DEF BootTrial, Listen, OnTrial, Intact, LooksBootable,
         PassOver, ChoiceStands, Chosen
  <2>6. CASE BootRollback /\ meta' = RolledBack /\ Jump(Other(meta.active_slot))
    <3>1. /\ meta' # NoMeta /\ meta'.active_slot = Other(meta.active_slot)
          /\ meta'.slot[Other(meta.active_slot)] = meta.slot[Other(meta.active_slot)]
      BY <2>6, RolledBackMeta, NoMetaAssumption DEF BootRollback, OnTrial
    <3>2. meta.slot[Other(meta.active_slot)].state \in {"IN_PROGRESS", "TESTING", "VALID"}
      BY <2>2, <2>6, OtherSlot DEF BootRollback, OnTrial, FallbackUsable, Meta, SlotInfo, FwState
    <3>3. QED
      BY <2>1, <2>6, <3>1, <3>2 DEF BootRollback, FallbackUsable, Jump, Intact, LooksBootable,
         PassOver, ChoiceStands, Chosen
  <2>7. QED
    BY <1>2, <2>3, <2>4, <2>5, <2>6 DEF Boot, BootNoMeta, BootValid, BootNothing, BootTesting, BootTrialInvalid,
       BootRollback, BootNoFallback
<1>3. CASE Frames
  <2>1. Frame
    BY <1>3 DEF Frames, on_start_update, on_data, on_end_update, on_abort, on_get_info
  <2>2. state # "COMPLETE" /\ pc' = pc /\ pc \in {"listen", "parked"} /\ active' = active
    BY <2>1 DEF Frame, PassOver, Updating, TypeOK
  <2>3. PassOver'
    BY <2>1 DEF Frame, PassOver, TypeOK
  <2>4. ASSUME state' # "COMPLETE" PROVE StartShape \/ DataShape \/ Untouched
    <3>1. ASSUME NEW size \in Sizes, NEW slot \in Slot, on_start_update(size, slot)
          PROVE  StartShape \/ Untouched
      BY <3>1 DEF on_start_update, Frame, Acceptable, Store, StoreFails, StartShape, Untouched
    <3>2. ASSUME NEW seq \in Seq, NEW len \in Lengths, on_data(seq, len)
          PROVE  DataShape \/ Untouched
      BY <3>2, DataStep
    <3>3. CASE on_end_update \/ on_abort \/ on_get_info
      BY <2>2, <2>4, <3>3 DEF on_end_update, on_abort, on_get_info, StoreFails, stored, Untouched
    <3>4. QED
      BY <1>3, <3>1, <3>2, <3>3 DEF Frames
  <2>5. QED
    BY <2>2, <2>3, <2>4, ListenFrame DEF ChoiceStands
<1>4. CASE Timeout \/ NextPass
  BY <1>4, ListenFrame DEF Timeout, NextPass, AbortTransfer, stored, transfer, Untouched, Updating,
     PassOver, ChoiceStands
<1>5. CASE WindowCloses
  <2>1. Chosen({"TESTING", "VALID"})
    BY <1>5 DEF WindowCloses, ChoiceStands
  <2>2. QED
    BY <1>5, <2>1 DEF WindowCloses, Jump, transfer, PassOver, ChoiceStands, Chosen, LooksBootable
<1>6. CASE confirm_startup
  <2>1. pc = "app" /\ pc' = "app" /\ state' = "IDLE" /\ active' = active /\ flash' = flash
        /\ Chosen({"IN_PROGRESS", "TESTING", "VALID"}) /\ active \in Slot
    BY <1>6 DEF confirm_startup, transfer, OutsideUpdate, ChoiceStands, TypeOK
  <2>2. CASE meta' = meta
    BY <2>1, <2>2 DEF PassOver, ChoiceStands, Chosen, LooksBootable
  <2>3. CASE meta' = Confirmed
    <3>1. meta' # NoMeta /\ meta'.active_slot = meta.active_slot /\ meta'.slot[active].state = "VALID"
      BY <2>1, <2>3, ConfirmedMeta, NoMetaAssumption DEF Chosen
    <3>2. QED
      BY <2>1, <3>1 DEF PassOver, ChoiceStands, Chosen, LooksBootable
  <2>4. QED
    BY <1>6, <2>2, <2>3 DEF confirm_startup, Store, StoreFails
<1>7. CASE AppCycle \/ GoQuiet \/ UNCHANGED vars
  BY <1>7 DEF AppCycle, GoQuiet, vars, stored, transfer, PassOver, ChoiceStands, Chosen, LooksBootable
<1>8. CASE Cuts \/ UpdateComplete \/ AppReset
  BY <1>1, <1>8 DEF UpdateComplete, AppReset, Cuts, IdleCut, BootCut, EndCut, ConfirmCut, StartCut,
     DataCut, PowerCut
<1>9. QED
  BY <1>2, <1>3, <1>4, <1>5, <1>6, <1>7, <1>8 DEF Next, Loop

-----------------------------------------------------------------------------
(* Starts and attempts *)

\* The rollback's own start of the fallback.
Returns == /\ meta' = RolledBack /\ pc' = "app"
           /\ returned' = (IF OnTrial(RolledBack) THEN 1 ELSE 0)
           /\ trials' = returned'

\* Without flash errors the history is only touched by Store and by the two jumps.
LEMMA TrialsChange ==
  ASSUME ~FlashFaults, TypeOK, [Next]_vars
  PROVE  \/ UNCHANGED <<meta, history>>
         \/ Store(meta')
         \/ WindowCloses
         \/ OnTrial(meta) /\ Returns
<1>1. CASE Boot
  BY <1>1 DEF Boot, BootNoMeta, BootValid, BootNothing, BootTrial, BootTesting, BootTrialInvalid,
     BootRollback, BootNoFallback, Store, StoreFails, Returns, Jump
<1>2. CASE Frames
  BY <1>2 DEF Frames, on_start_update, on_data, on_end_update, on_abort, on_get_info, Store, StoreFails, stored
<1>3. CASE Loop
  BY <1>3 DEF Loop, Timeout, NextPass, UpdateComplete, stored
<1>4. CASE confirm_startup
  BY <1>4 DEF confirm_startup, Store, StoreFails
<1>5. CASE AppCycle \/ AppReset \/ GoQuiet \/ UNCHANGED vars
  BY <1>5 DEF AppCycle, AppReset, GoQuiet, vars, stored
<1>6. CASE Cuts
  BY <1>6 DEF Cuts, IdleCut, BootCut, EndCut, ConfirmCut, StartCut, DataCut, Store, stored
<1>7. QED
  BY <1>1, <1>2, <1>3, <1>4, <1>5, <1>6 DEF Next

\* A step that stays in, or enters, the listen window of a trial.
LEMMA ListenStep ==
  ASSUME FramesPerPass = 1, ~FlashFaults, StartInv, [Next]_vars,
         pc' = "listen", state' # "COMPLETE", OnTrial(meta')
  PROVE  \/ BootTrial
         \/ /\ pc = "listen" /\ state # "COMPLETE"
            /\ UNCHANGED <<meta, history>> \/ (StartShape /\ Store(meta'))
<1> USE DEF StartInv, Inv
<1>1. CASE Boot
  BY <1>1 DEF Boot, BootNoMeta, BootValid, BootNothing, BootTesting, BootTrialInvalid, BootRollback, BootNoFallback,
     Listen, Park, Jump, OnTrial, BootState
<1>2. CASE Frames
  <2>1. Frame
    BY <1>2 DEF Frames, on_start_update, on_data, on_end_update, on_abort, on_get_info
  <2>2. state # "COMPLETE" /\ pc = "listen"
    BY <2>1 DEF Frame, PassOver, TypeOK
  <2>3. ASSUME NEW size \in Sizes, NEW slot \in Slot, on_start_update(size, slot)
        PROVE  UNCHANGED <<meta, history>> \/ (StartShape /\ Store(meta'))
    BY <2>3 DEF on_start_update, Frame, Acceptable, Store, StoreFails, StartShape
  <2>4. ASSUME on_end_update \/ on_abort \/ on_get_info \/ \E seq \in Seq, len \in Lengths : on_data(seq, len)
        PROVE  UNCHANGED <<meta, history>>
    BY <2>4 DEF on_end_update, on_abort, on_get_info, on_data, StoreFails, stored
  <2>5. QED
    BY <1>2, <2>2, <2>3, <2>4 DEF Frames
<1>3. CASE Loop
  BY <1>3 DEF Loop, Timeout, NextPass, UpdateComplete, WindowCloses, Restart, Jump, stored, transfer,
     AbortTransfer
<1>4. CASE confirm_startup \/ AppCycle \/ AppReset \/ Cuts
  BY <1>4 DEF confirm_startup, AppCycle, AppReset, Cuts, IdleCut, BootCut, EndCut, ConfirmCut, StartCut,
     DataCut, PowerCut, Restart, vars
<1>5. CASE GoQuiet \/ UNCHANGED vars
  BY <1>5 DEF GoQuiet, vars, stored, transfer
<1>6. QED
  BY <1>1, <1>2, <1>3, <1>4, <1>5 DEF Next

LEMMA TrialsStep ==
  ASSUME FramesPerPass = 1, ~FlashFaults, StartInv, [Next]_vars
  PROVE  TrialsCounted'
<1> USE DEF StartInv, Inv
<1>1. /\ meta # NoMeta => meta \in Meta /\ meta.boot_fail_count \in Nat
      /\ meta' # NoMeta => meta' \in Meta /\ meta'.boot_fail_count \in Nat
      /\ trials \in Nat /\ returned \in Nat
  <2>1. TypeOK'
    BY TypeStep
  <2>2. QED
    BY <2>1 DEF TypeOK, Meta
\* The counter never falls below the starts it stands for.
<1>2. OnTrial(meta) /\ OnTrial(meta') /\ meta'.active_slot = meta.active_slot
         => meta'.boot_fail_count >= meta.boot_fail_count
  BY <1>1, CounterStep DEF OnTrial, ChoiceStands, Chosen
<1>3. CASE WindowCloses
  <2>1. /\ meta' = meta /\ pc' = "app"
        /\ trials' \in {trials, trials + 1} /\ (~OnTrial(meta) => trials' = trials)
        /\ returned' = returned
        /\ (OnTrial(meta) => trials < meta.boot_fail_count + returned)
    BY <1>3 DEF WindowCloses, Jump, TrialsCounted
  <2>2. QED
    BY <1>1, <2>1 DEF TrialsCounted, OnTrial
<1>4. CASE OnTrial(meta) /\ Returns
  <2>1. meta'.boot_fail_count = 0 /\ pc' = "app"
    BY <1>4, RolledBackMeta DEF Returns, OnTrial
  <2>2. CASE OnTrial(RolledBack)
    BY <1>4, <2>1, <2>2 DEF Returns, TrialsCounted
  <2>3. CASE ~OnTrial(RolledBack)
    BY <1>4, <2>1, <2>3 DEF Returns, TrialsCounted, OnTrial
  <2>4. QED
    BY <2>2, <2>3
<1>5. CASE ~WindowCloses /\ ~(OnTrial(meta) /\ Returns)
  <2>1. /\ ~OnTrial(meta') => trials' = 0 /\ returned' = 0
        /\ OnTrial(meta') => trials' <= meta'.boot_fail_count + returned'
    <3>1. CASE UNCHANGED <<meta, history>>
      BY <3>1 DEF TrialsCounted, OnTrial, history
    <3>2. CASE Store(meta')
      <4>1. CASE SameTrial(meta')
        <5>1. /\ OnTrial(meta) /\ OnTrial(meta') /\ meta # NoMeta /\ meta' # NoMeta
              /\ trials' = trials /\ returned' = returned
          BY <3>2, <4>1 DEF Store, SameTrial, OnTrial
        <5>2. meta'.boot_fail_count >= meta.boot_fail_count
          BY <1>2, <4>1 DEF SameTrial
        <5>3. QED
          BY <1>1, <5>1, <5>2 DEF TrialsCounted
      <4>2. CASE ~SameTrial(meta')
        BY <1>1, <3>2, <4>2 DEF Store, OnTrial
      <4>3. QED
        BY <4>1, <4>2
    <3>3. QED
      BY <1>5, <3>1, <3>2, TrialsChange
  <2>2. ASSUME OnTrial(meta'), pc' = "listen", state' # "COMPLETE"
        PROVE  trials' < meta'.boot_fail_count + returned'
    <3>1. CASE BootTrial
      <4>1. /\ OnTrial(meta) /\ Store(Attempted)
            /\ Attempted.active_slot = meta.active_slot
            /\ Attempted.boot_fail_count = meta.boot_fail_count + 1
        BY <3>1, AttemptedMeta DEF BootTrial, StoreFails, OnTrial
      <4>2. QED
        BY <1>1, <2>2, <4>1 DEF Store, SameTrial, TrialsCounted, OnTrial
    <3>2. CASE pc = "listen" /\ state # "COMPLETE" /\ UNCHANGED <<meta, history>>
      BY <2>2, <3>2 DEF TrialsCounted, OnTrial, history
    <3>3. CASE pc = "listen" /\ state # "COMPLETE" /\ StartShape /\ Store(meta')
      <4>1. meta # NoMeta /\ Current = meta /\ ActiveSlot = meta.active_slot
        BY <3>3 DEF ChoiceStands, Chosen, Current, ActiveSlot
      <4>2. /\ meta'.active_slot = meta.active_slot
            /\ meta'.boot_fail_count = meta.boot_fail_count
            /\ meta'.slot[meta.active_slot] = meta.slot[meta.active_slot]
        BY <3>3, <4>1, StartedMeta DEF StartShape
      <4>3. OnTrial(meta) /\ trials' = trials /\ returned' = returned
        BY <2>2, <3>3, <4>1, <4>2 DEF Store, SameTrial, OnTrial
      <4>4. QED
        BY <3>3, <4>2, <4>3 DEF TrialsCounted
    <3>4. QED
      BY <2>2, <3>1, <3>2, <3>3, ListenStep
  <2>3. QED
    BY <2>1, <2>2 DEF TrialsCounted
<1>6. QED
  BY <1>3, <1>4, <1>5

-----------------------------------------------------------------------------
(* The theorems *)

LEMMA InitStart == Init => StartInv
<1> SUFFICES ASSUME Init PROVE StartInv
  OBVIOUS
<1>1. Inv
  BY InitType DEF Init, Inv, TransferInv, OutsideUpdate
<1>2. PassOver /\ ChoiceStands
  BY DEF Init, PassOver, ChoiceStands
<1>3. ASSUME NEW img \in Bootable \cap Healthy, NEW size \in Cells,
             meta = [ZeroMeta EXCEPT !.slot[0] =
                       [size |-> size, crc32 |-> img, state |-> "VALID"]],
             flash = [s \in Slot |-> IF s = 0 THEN ImageContents(img, size) ELSE Blank]
      PROVE  RecordHonest /\ ~OnTrial(meta)
  <2>1. /\ meta.active_slot = 0 /\ meta.slot[1] = EmptySlot
        /\ meta.slot[0] = [size |-> size, crc32 |-> img, state |-> "VALID"]
        /\ flash[0] = ImageContents(img, size)
    BY <1>3 DEF ZeroMeta, Slot
  <2>2. Holds(flash[0], meta.slot[0])
    <3>1. size \in 1..SlotCells /\ \A i \in 1..size : flash[0][i] = img
      BY <2>1, SlotsAssumption DEF ImageContents, Cells
    <3>2. QED
      BY <2>1, <3>1 DEF Holds
  <2>3. QED
    BY <2>1, <2>2 DEF RecordHonest, OnTrial, EmptySlot, Slot
<1>4. RecordHonest /\ ~OnTrial(meta)
  BY <1>3 DEF Init, RecordHonest, OnTrial
<1>5. QED
  BY <1>1, <1>2, <1>4 DEF StartInv, TrialsCounted, Init

LEMMA StartStep ==
  ASSUME FramesPerPass = 1, ~FlashFaults
  PROVE  StartInv /\ [Next]_vars => StartInv'
  BY InvStep, HonestStep, ChoiceStep, TrialsStep DEF StartInv

THEOREM StartInvariance ==
  ASSUME FramesPerPass = 1, ~FlashFaults
  PROVE  Spec => []StartInv
  BY InitStart, StartStep, PTL DEF Spec

\* PROTOCOL.md section 8, no lying state: what the record says of a slot that may be
\* started is what the slot holds.
THEOREM RecordHonestHolds ==
  ASSUME FramesPerPass = 1, ~FlashFaults
  PROVE  Spec => []RecordHonest
<1>1. StartInv => RecordHonest
  BY DEF StartInv
<1>2. QED
  BY <1>1, StartInvariance, PTL

\* The processor only ever runs a complete image.
THEOREM RunsIntactHolds ==
  ASSUME FramesPerPass = 1, ~FlashFaults
  PROVE  Spec => []RunsIntact
<1>1. StartInv => RunsIntact
  BY DEF StartInv, Inv, TypeOK, ChoiceStands, Chosen, RecordHonest, RunsIntact, Intact
<1>2. QED
  BY <1>1, StartInvariance, PTL

\* README.md:35, an image on trial is given up: whatever resets, power cuts and transfers
\* come in between, it is started MAX_BOOT_FAILURES times since it was installed, or once
\* more than that since a rollback started it again.
THEOREM TrialsBoundedHolds ==
  ASSUME FramesPerPass = 1, ~FlashFaults
  PROVE  Spec => []TrialsBounded
<1>1. StartInv => TrialsBounded
  BY SlotsAssumption DEF StartInv, Inv, TypeOK, Meta, OnTrial, TrialsCounted, TrialsBounded
<1>2. QED
  BY <1>1, StartInvariance, PTL

-----------------------------------------------------------------------------
(* The refinement of ABUpdate *)

\* While a transfer is open the record describes the image START announced.
Announced == state = "RECEIVING" =>
    meta.slot[target_slot] = [size |-> fw_size, crc32 |-> fw_crc32, state |-> "IN_PROGRESS"]

UpdateInv == StartInv /\ Announced

-----------------------------------------------------------------------------
(* The open transfer *)

LEMMA AnnouncedStep ==
  ASSUME ~FlashFaults, StartInv, Announced, [Next]_vars
  PROVE  Announced'
<1> USE DEF StartInv, Inv
<1> SUFFICES ASSUME state' = "RECEIVING"
             PROVE  meta'.slot[target_slot'] =
                      [size |-> fw_size', crc32 |-> fw_crc32', state |-> "IN_PROGRESS"]
  BY DEF Announced
<1>1. CASE \E size \in Sizes, slot \in Slot : on_start_update(size, slot)
  <2>1. PICK size \in Sizes, slot \in Slot : on_start_update(size, slot)
    BY <1>1
  <2>2. CASE UNCHANGED <<meta, transfer>>
    BY <2>2 DEF Announced, transfer
  <2>3. CASE Acceptable(size, slot) /\ \E seq \in Seq, img \in Image :
               Store(Started(size, img)) /\ target_slot' = slot /\ fw_size' = size /\ fw_crc32' = img
    <3>1. PICK img \in Image : meta' = Started(size, img) /\ target_slot' = slot
                               /\ fw_size' = size /\ fw_crc32' = img
      BY <2>3 DEF Store
    <3>2. size \in Cells /\ slot = Other(ActiveSlot)
      BY <2>3 DEF Acceptable
    <3>3. /\ [size |-> size, crc32 |-> img, state |-> "IN_PROGRESS"] \in SlotInfo
          /\ Current \in Meta /\ ActiveSlot \in Slot
      BY <3>1, <3>2, CurrentMeta, SlotsAssumption DEF SlotInfo, FwState, Cells
    <3>4. QED
      BY <3>1, <3>2, <3>3, OtherSlot, SetSlotMeta DEF Started
  <2>4. QED
    BY <2>1, <2>2, <2>3 DEF on_start_update, StoreFails
<1>2. CASE UNCHANGED <<meta, state, target_slot, fw_size, fw_crc32>>
  BY <1>2 DEF Announced
<1>3. CASE state' = "IDLE" \/ state' = "COMPLETE"
  BY <1>3
<1>4. CASE pc = "boot" \/ pc = "app"
  <2>1. state = "IDLE"
    BY <1>4 DEF OutsideUpdate
  <2>2. CASE Boot \/ confirm_startup \/ AppCycle \/ GoQuiet \/ UNCHANGED vars
    BY <2>1, <2>2 DEF Boot, BootNoMeta, BootValid, BootNothing, BootTrial, BootTesting, BootTrialInvalid,
       BootRollback, BootNoFallback, Listen, Park, Jump, confirm_startup, AppCycle, GoQuiet, vars,
       transfer
  <2>3. CASE Cuts \/ AppReset
    BY <2>3 DEF Cuts, IdleCut, BootCut, EndCut, ConfirmCut, StartCut, DataCut, AppReset, PowerCut,
       Restart, NoTransfer
  <2>4. CASE Frames \/ Loop
    BY <1>4, <2>4 DEF Frames, Loop, Updating, on_start_update, on_data, on_end_update, on_abort,
       on_get_info, Frame, Timeout, NextPass, UpdateComplete, WindowCloses
  <2>5. QED
    BY <2>2, <2>3, <2>4 DEF Next
<1>5. CASE \E seq \in Seq, len \in Lengths : on_data(seq, len)
  BY <1>2, <1>3, <1>5 DEF on_data, AbortTransfer, transfer
<1>6. CASE on_end_update \/ on_abort \/ on_get_info
  BY <1>2, <1>3, <1>6 DEF on_end_update, on_abort, on_get_info, AbortTransfer, transfer, stored
<1>7. CASE Loop
  BY <1>2, <1>3, <1>7 DEF Loop, Timeout, NextPass, UpdateComplete, WindowCloses, Jump, Restart,
     NoTransfer, AbortTransfer, transfer, stored
<1>8. CASE Cuts \/ AppReset
  BY <1>8 DEF Cuts, IdleCut, BootCut, EndCut, ConfirmCut, StartCut, DataCut, AppReset, PowerCut,
     Restart, NoTransfer
<1>9. CASE GoQuiet \/ UNCHANGED vars
  BY <1>2, <1>9 DEF GoQuiet, vars, stored, transfer
<1>10. CASE Boot \/ confirm_startup \/ AppCycle
  BY <1>4, <1>10 DEF Boot, BootNoMeta, BootValid, BootNothing, BootTrial, BootTesting, BootTrialInvalid,
     BootRollback, BootNoFallback, confirm_startup, AppCycle
<1>11. QED
  BY <1>1, <1>5, <1>6, <1>7, <1>8, <1>9, <1>10 DEF Next, Frames

-----------------------------------------------------------------------------
(* The mapping *)

\* A complete image is one of the images, never the zero description.
LEMMA ImageInType ==
  ASSUME TypeOK, NEW s \in Slot
  PROVE  ImageIn(s) \in Image \cup {NoImage}
  BY DEF ImageIn, TypeOK, Meta, SlotInfo

LEMMA HeldImage ==
  ASSUME TypeOK, meta # NoMeta, NEW s \in Slot, Holds(flash[s], meta.slot[s])
  PROVE  meta.slot[s].crc32 # NoImage
<1>1. meta.slot[s] \in SlotInfo /\ flash[s] \in Contents
  BY DEF TypeOK, Meta
<1>2. 1 \in 1..meta.slot[s].size /\ 1 \in Cells
  BY <1>1, SlotsAssumption DEF Holds, SlotInfo, Cells
<1>3. flash[s][1] = meta.slot[s].crc32 /\ flash[s][1] \in Cell
  BY <1>1, <1>2 DEF Holds, Contents
<1>4. QED
  BY <1>3, SlotsAssumption DEF Cell


-----------------------------------------------------------------------------
(* Each shape is a step of ABUpdate *)

\* The board before a step of any shape.
LEMMA Before ==
  ASSUME UpdateInv
  PROVE  /\ ActiveSlot \in Slot /\ Other(ActiveSlot) \in Slot
         /\ InstalledImage \in Image \cup {NoImage} /\ Spare \in Image \cup {NoImage}
         /\ meta # NoMeta => /\ meta \in Meta /\ meta.active_slot \in Slot
                             /\ Current = meta /\ ActiveSlot = meta.active_slot
<1>1. TypeOK
  BY DEF UpdateInv, StartInv, Inv
<1>2. ActiveSlot \in Slot /\ Other(ActiveSlot) \in Slot
  BY <1>1, CurrentMeta, OtherSlot
<1>3. QED
  BY <1>1, <1>2, ImageInType DEF InstalledImage, Spare, TypeOK, Meta, Current, ActiveSlot

LEMMA StartReceives ==
  ASSUME UpdateInv, StartShape, Spare' \in Image \cup {NoImage}
  PROVE  AB!Receive
<1> USE DEF UpdateInv, StartInv, Inv
<1>1. PICK size \in Cells, img \in Image : meta' = Started(size, img)
  BY DEF StartShape
<1>2. /\ meta' \in Meta /\ meta' # NoMeta /\ meta'.active_slot = ActiveSlot
      /\ meta'.boot_fail_count = Current.boot_fail_count
      /\ meta'.slot[ActiveSlot] = Current.slot[ActiveSlot]
      /\ flash' = flash
  BY <1>1, StartedMeta, NoMetaAssumption DEF StartShape
<1>3. ActiveSlot' = ActiveSlot /\ Attempts' = Attempts
  BY <1>2 DEF ActiveSlot, Current, Attempts
<1>4. CASE meta = NoMeta
  <2>1. meta'.slot[ActiveSlot] = EmptySlot /\ ActiveSlot = 0
    BY <1>2, <1>4 DEF Current, ZeroMeta, ActiveSlot, Slot
  <2>2. InstalledImage = NoImage /\ InstalledImage' = NoImage /\ Trial = FALSE /\ Trial' = FALSE
    BY <1>2, <1>3, <1>4, <2>1 DEF Trial, InstalledImage, ImageIn, OnTrial, EmptySlot
  <2>3. QED
    BY <1>3, <2>2 DEF AB!Receive
<1>5. CASE meta # NoMeta
  <2>1. InstalledImage' = InstalledImage
    BY <1>2, <1>3, <1>5, Before DEF InstalledImage, ImageIn, Holds
  <2>2. Trial' = Trial
    BY <1>2, <1>5, Before DEF Trial, OnTrial
  <2>3. QED
    BY <1>3, <2>1, <2>2 DEF AB!Receive
<1>6. QED
  BY <1>4, <1>5

LEMMA DataReceives ==
  ASSUME UpdateInv, DataShape, Spare' \in Image \cup {NoImage}
  PROVE  AB!Receive
<1> USE DEF UpdateInv, StartInv, Inv
<1>1. /\ meta' = meta /\ meta # NoMeta /\ target_slot = Other(meta.active_slot)
  BY DEF DataShape, TransferInv
<1>2. flash'[meta.active_slot] = flash[meta.active_slot]
  BY <1>1, Before, OtherSlot DEF DataShape, TargetBecomes, TypeOK
<1>3. InstalledImage' = InstalledImage
  BY <1>1, <1>2, Before DEF InstalledImage, ImageIn, ActiveSlot
<1>4. QED
  BY <1>1, <1>3 DEF AB!Receive, Attempts, Current, Trial

LEMMA InstallSwaps ==
  ASSUME UpdateInv, InstallShape
  PROVE  AB!Install
<1> USE DEF UpdateInv, StartInv, Inv
<1>1. /\ meta # NoMeta /\ target_slot = Other(meta.active_slot) /\ flash' = flash
      /\ meta.slot[target_slot] = [size |-> fw_size, crc32 |-> fw_crc32, state |-> "IN_PROGRESS"]
      /\ target_slot \in Slot /\ Other(target_slot) = meta.active_slot
  BY Before, OtherSlot DEF InstallShape, TransferInv, Announced
<1>2. /\ meta' # NoMeta /\ meta'.active_slot = target_slot /\ meta'.boot_fail_count = 0
      /\ meta'.slot[target_slot] = [size |-> fw_size, crc32 |-> fw_crc32, state |-> "TESTING"]
      /\ meta'.slot[meta.active_slot] = meta.slot[meta.active_slot]
  BY <1>1, InstalledMeta, NoMetaAssumption DEF InstallShape, Current
<1>3. Holds(flash[target_slot], meta.slot[target_slot])
  BY <1>1 DEF InstallShape, Received, Holds
<1>4. Spare = fw_crc32 /\ Spare # NoImage
  BY <1>1, <1>3, HeldImage DEF Spare, ImageIn, ActiveSlot
<1>5. ActiveSlot' = target_slot /\ Attempts' = 0 /\ Trial' = TRUE
  BY <1>2 DEF ActiveSlot, Attempts, Current, Trial, OnTrial
<1>6. InstalledImage' = fw_crc32
  BY <1>1, <1>2, <1>3, <1>5 DEF InstalledImage, ImageIn, Holds
<1>7. Spare' = InstalledImage
  BY <1>1, <1>2, <1>5 DEF InstalledImage, Spare, ImageIn, ActiveSlot
<1>8. QED
  BY <1>4, <1>5, <1>6, <1>7 DEF AB!Install

LEMMA AttemptTries ==
  ASSUME UpdateInv, AttemptShape
  PROVE  AB!Try
<1> USE DEF UpdateInv, StartInv, Inv
<1>1. /\ meta # NoMeta /\ flash' = flash
      /\ meta' # NoMeta /\ meta'.active_slot = meta.active_slot /\ meta'.slot = meta.slot
      /\ meta'.boot_fail_count = meta.boot_fail_count + 1
      /\ meta.boot_fail_count \in Nat
  BY AttemptedMeta, Before, NoMetaAssumption, SlotsAssumption DEF AttemptShape, OnTrial, Meta
<1>2. ActiveSlot' = ActiveSlot /\ Attempts' = Attempts + 1 /\ Attempts < MAX_BOOT_FAILURES
  BY <1>1, SlotsAssumption DEF ActiveSlot, Attempts, Current, AttemptShape, TrialOver
<1>3. InstalledImage' = InstalledImage /\ Spare' = Spare /\ Trial = TRUE /\ Trial' = TRUE
  BY <1>1, <1>2 DEF InstalledImage, Spare, ImageIn, Trial, OnTrial, AttemptShape
<1>4. QED
  BY <1>2, <1>3 DEF AB!Try

LEMMA RollbackReturns ==
  ASSUME UpdateInv, RollbackShape
  PROVE  AB!RollBack
<1> USE DEF UpdateInv, StartInv, Inv
<1> DEFINE old == meta.active_slot
           other == Other(meta.active_slot)
<1>1. /\ meta # NoMeta /\ flash' = flash /\ old \in Slot /\ other \in Slot /\ Other(other) = old
      /\ meta' # NoMeta /\ meta'.active_slot = other /\ meta'.boot_fail_count = 0
      /\ meta'.slot[old].state = "EMPTY" /\ meta'.slot[other] = meta.slot[other]
  BY RolledBackMeta, Before, OtherSlot, NoMetaAssumption DEF RollbackShape, OnTrial
<1>2. meta.slot[other].state # "EMPTY" /\ Holds(flash[other], meta.slot[other])
  BY DEF RollbackShape, FallbackUsable, Intact
<1>3. Spare = meta.slot[other].crc32 /\ Spare # NoImage
  BY <1>1, <1>2, HeldImage DEF Spare, ImageIn, ActiveSlot
<1>4. InstalledImage' = meta.slot[other].crc32 /\ Spare' = NoImage
  BY <1>1, <1>2 DEF InstalledImage, Spare, ImageIn, ActiveSlot
<1>5. Attempts = MAX_BOOT_FAILURES /\ Attempts' = 0
  BY <1>1, Before, SlotsAssumption DEF Attempts, Current, RollbackShape, TrialOver, Meta
<1>6. Trial /\ Trial' \in BOOLEAN
  BY DEF RollbackShape, Trial, OnTrial
<1>7. QED
  BY <1>3, <1>4, <1>5, <1>6 DEF AB!RollBack

LEMMA ConfirmConfirms ==
  ASSUME UpdateInv, ConfirmShape
  PROVE  AB!Confirm
<1> USE DEF UpdateInv, StartInv, Inv
<1>1. /\ meta # NoMeta /\ active = meta.active_slot /\ active \in Slot
      /\ meta.slot[active].state # "EMPTY"
  BY DEF ConfirmShape, ChoiceStands, Chosen, TypeOK
<1>2. /\ meta' # NoMeta /\ meta'.active_slot = active /\ meta'.boot_fail_count = 0
      /\ meta'.slot[active].state = "VALID" /\ flash' = flash
      /\ meta'.slot[active].size = meta.slot[active].size
      /\ meta'.slot[active].crc32 = meta.slot[active].crc32
      /\ meta'.slot[Other(active)] = meta.slot[Other(active)]
  BY <1>1, ConfirmedMeta, NoMetaAssumption DEF ConfirmShape
<1>3. Holds(flash[active], meta.slot[active])
  BY <1>1 DEF RecordHonest
<1>4. InstalledImage' = InstalledImage /\ InstalledImage # NoImage
  BY <1>1, <1>2, <1>3, HeldImage DEF InstalledImage, ImageIn, ActiveSlot, Holds
<1>5. Spare' = Spare
  BY <1>1, <1>2 DEF Spare, ImageIn, ActiveSlot
<1>6. Attempts' = 0 /\ Trial' = FALSE
  BY <1>2 DEF Attempts, Current, Trial, OnTrial
<1>7. QED
  BY <1>4, <1>5, <1>6 DEF AB!Confirm

LEMMA StepImplements ==
  ASSUME UpdateInv, UpdateInv', [Next]_vars
  PROVE  [AB!Next]_(AB!vars)
<1>1. Shape /\ Spare' \in Image \cup {NoImage}
  <2>1. Shape
    BY StepShape DEF UpdateInv, StartInv, Inv
  <2>2. TypeOK'
    BY DEF UpdateInv, StartInv, Inv
  <2>3. \A s \in Slot : ImageIn(s)' \in Image \cup {NoImage}
    BY <2>2 DEF ImageIn, TypeOK, Meta, SlotInfo
  <2>4. Other(ActiveSlot') \in Slot
    BY <2>2, ZeroMetaType DEF TypeOK, ActiveSlot, Meta, Slot, Other
  <2>5. QED
    BY <2>1, <2>3, <2>4 DEF Spare
<1>2. CASE Untouched
  BY <1>2 DEF Untouched, AB!vars, InstalledImage, Spare, ImageIn, ActiveSlot, Attempts, Current,
     Trial
<1>3. CASE StartShape \/ DataShape
  BY <1>1, <1>3, StartReceives, DataReceives DEF AB!Next
<1>4. CASE InstallShape
  BY <1>4, InstallSwaps DEF AB!Next
<1>5. CASE AttemptShape
  BY <1>5, AttemptTries DEF AB!Next
<1>6. CASE RollbackShape
  BY <1>6, RollbackReturns DEF AB!Next
<1>7. CASE ConfirmShape
  BY <1>7, ConfirmConfirms DEF AB!Next
<1>8. QED
  BY <1>1, <1>2, <1>3, <1>4, <1>5, <1>6, <1>7 DEF Shape

LEMMA InitImplements ==
  ASSUME Init
  PROVE  AB!Init
<1>1. UpdateInv
  BY InitStart DEF UpdateInv, Announced, Init
<1>2. Spare = NoImage /\ Attempts = 0 /\ Trial = FALSE
  BY DEF Init, Trial, Spare, ImageIn, ActiveSlot, Attempts, Current, OnTrial, ZeroMeta, EmptySlot, Slot,
     Other, Holds
<1>3. QED
  BY <1>1, <1>2, Before DEF AB!Init

\* Nothing a host, a reset or a power cut does is more than a step of an A/B update: the
\* image that is installed changes only with an installation or a rollback, and is
\* replaced by a complete one.
THEOREM ImplementsABHolds ==
  ASSUME FramesPerPass = 1, ~FlashFaults
  PROVE  Spec => ImplementsAB
<1>1. Init => UpdateInv
  BY InitStart DEF UpdateInv, Announced, Init
<1>2. UpdateInv /\ [Next]_vars => UpdateInv'
  BY StartStep, AnnouncedStep DEF UpdateInv
<1>3. Spec => []UpdateInv
  BY <1>1, <1>2, PTL DEF Spec
<1>4. QED
  BY <1>3, InitImplements, StepImplements, PTL DEF Spec, ImplementsAB, AB!Spec

-----------------------------------------------------------------------------
(* Requests *)

\* A request that is pending, or that this boot has not yet answered, was made since the
\* last long window.
Owed == /\ request => asked
        /\ pc = "boot" /\ ota_request => asked

RequestInv == RequestTypeOK /\ RequestSpent /\ Owed

-----------------------------------------------------------------------------
(* The board *)

LEMMA BoardStep == [RequestNext]_all => [Next]_vars
<1> SUFFICES ASSUME [RequestNext]_all PROVE [Next]_vars
  OBVIOUS
<1>1. CASE ReadRequest \/ UNCHANGED all
  BY <1>1 DEF ReadRequest, all
<1>2. CASE Decide \/ Leave \/ Installs
  BY <1>2 DEF Decide, Leave, Installs, Next, Loop
<1>3. CASE Ask \/ Crash \/ Cut
  BY <1>3 DEF Ask, Crash, Cut, Next
<1>4. CASE Elsewhere
  BY <1>4 DEF Elsewhere, Next, Loop
<1>5. QED
  BY <1>1, <1>2, <1>3, <1>4 DEF RequestNext

\* shared/boot_request.h: the request changes how long the board listens, and nothing of
\* what it decides, stores or starts.
THEOREM BoardUnchanged == RequestSpec => Spec
<1>1. RequestInit => Init
  BY DEF RequestInit
<1>2. QED
  BY <1>1, BoardStep, PTL DEF RequestSpec, Spec

\* However often updates are asked for, the active slot keeps its image.
THEOREM RequestsKeepImage == RequestSpec => ImageKept
  BY BoardUnchanged, ImageKeptHolds

\* Left alone with a request, the board goes where it goes without one: to the confirmation,
\* to the fallback, or back to the application that works.
THEOREM RequestsKeepCourse ==
  RequestSpec => RollbackCourse /\ TrialCourse /\ SettledCourse /\ []Begins
  BY BoardUnchanged, RollbackCourseHolds, TrialCourseHolds, SettledCourseHolds, BeginsHolds

\* However often updates are asked for, an image on trial is not started more often: the
\* long window's boot counts like any other.
THEOREM RequestsKeepBound ==
  ASSUME FramesPerPass = 1, ~FlashFaults
  PROVE  RequestSpec => []TrialsBounded
  BY BoardUnchanged, TrialsBoundedHolds, PTL

-----------------------------------------------------------------------------
(* The request *)

LEMMA CutRestarts == Cuts => pc' = "boot"
  BY DEF Cuts, IdleCut, BootCut, EndCut, ConfirmCut, StartCut, DataCut, PowerCut, Restart

LEMMA BootLeaves == Boot => pc = "boot" /\ pc' \in {"listen", "parked", "app"}
  BY DEF Boot, BootNoMeta, BootValid, BootNothing, BootTrial, BootTesting, BootTrialInvalid, BootRollback,
     BootNoFallback, Listen, Park, Jump

LEMMA ElsewhereStays == Elsewhere => pc' = pc
  BY DEF Elsewhere, Frames, on_start_update, on_data, on_end_update, on_abort, on_get_info, Frame,
     Timeout, NextPass, confirm_startup, AppCycle, GoQuiet, vars

LEMMA RequestStep == RequestInv /\ [RequestNext]_all => RequestInv'
<1> SUFFICES ASSUME RequestInv, [RequestNext]_all PROVE RequestInv'
  OBVIOUS
<1> USE DEF RequestInv, RequestTypeOK, RequestSpent, Owed
<1>1. CASE ReadRequest
  BY <1>1 DEF ReadRequest, Cleared, vars
<1>2. CASE Decide
  BY <1>2, BootLeaves DEF Decide
<1>3. CASE Leave
  BY <1>3 DEF Leave, WindowCloses, Jump, request_vars
<1>4. CASE Ask
  BY <1>4 DEF Ask, AppReset, Restart, Requested, Again
<1>5. CASE Crash
  BY <1>5 DEF Crash, AppReset, Restart, Again
<1>6. CASE Installs
  BY <1>6 DEF Installs, UpdateComplete, Restart, Again
<1>7. CASE Cut
  <2>1. pc' = "boot"
    BY <1>7, CutRestarts DEF Cut
  <2>2. CASE Again(request) /\ UNCHANGED asked
    BY <2>1, <2>2 DEF Again
  <2>3. CASE Again(FALSE) /\ UNCHANGED asked
    BY <2>1, <2>3 DEF Again
  <2>4. CASE Requested
    BY <2>1, <2>4 DEF Requested, Again
  <2>5. QED
    BY <1>7, <2>2, <2>3, <2>4 DEF Cut
<1>8. CASE Elsewhere
  BY <1>8, ElsewhereStays DEF Elsewhere, request_vars
<1>9. CASE UNCHANGED all
  BY <1>9 DEF all, vars, request_vars
<1>10. QED
  BY <1>1, <1>2, <1>3, <1>4, <1>5, <1>6, <1>7, <1>8, <1>9 DEF RequestNext

THEOREM RequestInvariance == RequestSpec => []RequestInv
<1>1. RequestInit => RequestInv
  BY DEF RequestInit, RequestInv, RequestTypeOK, RequestSpent, Owed
<1>2. QED
  BY <1>1, RequestStep, PTL DEF RequestSpec

\* bootloader/main.c:340-343: no reset ever finds a request that a boot has already read.
THEOREM RequestSpentHolds == RequestSpec => []RequestSpent
<1>1. RequestInv => RequestSpent
  BY DEF RequestInv
<1>2. QED
  BY <1>1, RequestInvariance, PTL

\* Each long window answers a request of its own.
THEOREM LongWindowAskedHolds == RequestSpec => LongWindowAsked
<1>1. RequestInv => (pc = "boot" /\ pc' = "listen" /\ ota_request => asked)
  BY DEF RequestInv, Owed
<1>2. QED
  BY <1>1, RequestInvariance, PTL DEF LongWindowAsked, RequestSpec
=============================================================================
