---------------------------- MODULE MCLibraries ----------------------------
(***************************************************************************)
(* Small instances of components that do not know of each other: the       *)
(* flash, the firmware update and the drivers of mongoose 7.12; the        *)
(* segment of the shared-memory FIFO; the memory tracker.  A behaviour is  *)
(* one of one of them, and keeps the variables of the others at Idle.      *)
(* What is proved of them is in LibrariesProofs.                           *)
(***************************************************************************)
EXTENDS Integers

CONSTANTS
  NONE, TORN,
  Keys, Units, Sector, MaxSaves,
  MaxSize, MaxUpdates, MaxLosses,
  Drivers, Count, Batch, Room, MaxIn, MaxOut,
  Procs, Creator, MaxSegs, NULL, BAD,
  Threads, Blocks, Sizes, MaxTotal, MaxMisuses

VARIABLES
  which,
  flash, ram, saves,
  bank, image, ota, stored, saving, sealed, updates, losses,
  driver, rxdesc, rxno, txdesc, txno, engine, irq, task, queue, seen,
  made, key, filled, m_shmHead, m_payload, pc, shmid, result, stale,
  Mode, sem_mutex, total, totalMallocSize, totalFreeSize, logs, heap, blocks, place, ptr, size,
  report, misuses, failed, freedTwice

-----------------------------------------------------------------------------
\* For TLC: objects of one, two, and so on units.
MCUnits == [k \in Keys |-> k]

Flash == INSTANCE MgFlash
Ota == INSTANCE MgOta WITH Small <- {}
Rings == INSTANCE MgDriver
Segment == INSTANCE ShmSegment
Gc == INSTANCE MemGc WITH held <- blocks, pc <- place

ASSUME LibrariesAssumption ==
  /\ Flash!MgFlashAssumption /\ Ota!MgOtaAssumption /\ Rings!MgDriverAssumption
  /\ Segment!ShmSegmentAssumption /\ Gc!MemGcAssumption

store == <<flash, ram, saves>>
firmware == <<bank, image, ota, stored, saving, sealed, updates, losses>>
rings == <<driver, rxdesc, rxno, txdesc, txno, engine, irq, task, queue, seen>>
segment == <<made, key, filled, m_shmHead, m_payload, pc, shmid, result, stale>>
gc == <<Mode, sem_mutex, total, totalMallocSize, totalFreeSize, logs, heap, blocks, place, ptr,
        size, report, misuses, failed, freedTwice>>

Idle == "idle"
StoreIdle == flash = Idle /\ ram = Idle /\ saves = Idle
FirmwareIdle == bank = Idle /\ image = Idle /\ ota = Idle /\ stored = Idle /\ saving = Idle
                  /\ sealed = Idle /\ updates = Idle /\ losses = Idle
RingsIdle == driver = Idle /\ rxdesc = Idle /\ rxno = Idle /\ txdesc = Idle /\ txno = Idle
               /\ engine = Idle /\ irq = Idle /\ task = Idle /\ queue = Idle /\ seen = Idle
SegmentIdle == made = Idle /\ key = Idle /\ filled = Idle /\ m_shmHead = Idle /\ m_payload = Idle
                 /\ pc = Idle /\ shmid = Idle /\ result = Idle /\ stale = Idle
GcIdle == Mode = Idle /\ sem_mutex = Idle /\ total = Idle /\ totalMallocSize = Idle
            /\ totalFreeSize = Idle /\ logs = Idle /\ heap = Idle /\ blocks = Idle /\ place = Idle
            /\ ptr = Idle /\ size = Idle /\ report = Idle /\ misuses = Idle /\ failed = Idle
            /\ freedTwice = Idle

Init ==
  /\ which \in {"flash", "ota", "rings", "segment", "gc"}
  /\ IF which = "flash" THEN Flash!Init ELSE StoreIdle
  /\ IF which = "ota" THEN Ota!Init ELSE FirmwareIdle
  /\ IF which = "rings" THEN Rings!Init ELSE RingsIdle
  /\ IF which = "segment" THEN Segment!Init ELSE SegmentIdle
  /\ IF which = "gc" THEN Gc!Init ELSE GcIdle

Next ==
  /\ UNCHANGED which
  /\ \/ /\ which = "flash" /\ Flash!Next
        /\ UNCHANGED <<firmware, rings, segment, gc>>
     \/ /\ which = "ota" /\ Ota!Next
        /\ UNCHANGED <<store, rings, segment, gc>>
     \/ /\ which = "rings" /\ Rings!Next
        /\ UNCHANGED <<store, firmware, segment, gc>>
     \/ /\ which = "segment" /\ Segment!Next
        /\ UNCHANGED <<store, firmware, rings, gc>>
     \/ /\ which = "gc" /\ Gc!Next
        /\ UNCHANGED <<store, firmware, rings, segment>>

Spec == Init /\ [][Next]_<<which, store, firmware, rings, segment, gc>>

-----------------------------------------------------------------------------
(* Properties: what the modules say of their parts *)

\* A process that has a segment has the current one, unless it was taken away,
\* and the payload lies in it.
SegmentsAreCurrent ==
  which = "segment" =>
    Segment!AttachedIsCurrent /\ Segment!PayloadHasHead /\ Segment!ConnectTrueMeansAttached

\* The tracker excludes threads from each other, its report and its files name
\* the blocks that leaked, and it catches a second free.
LeaksAreNamed ==
  which = "gc" => /\ Gc!ExclusiveUnlessMisused /\ Gc!SecondFreeIsCaught
                  /\ Gc!ReportNamesLeaks /\ Gc!FilesNameLeaks

\* Whenever the power goes, a complete firmware boots, and the one before it is
\* complete as long as it is on trial.
FirmwareBoots == which = "ota" => Ota!BootsIntact /\ Ota!RollbackIsPossible

\* The log of objects in the flash is a store of the newest values, a power
\* failure costs no more than it must, a call returns true when it has saved its
\* value, and one is refused only for want of room or for a failure.
FlashSurvivesPowerFailures ==
  /\ which = "flash" => Flash!Store!Init
  /\ [][which = "flash" =>
            /\ Flash!Store!Next \/ UNCHANGED Flash!Store!vars
            /\ Flash!AnswersTruly /\ Flash!RefusedWithReason]_store

\* Of the drivers: frames keep their order, none is lost between the engine and
\* the stack but for want of room, and none is left lying.
FramesGetThrough ==
  which = "rings" => Rings!FramesAreKept /\ Rings!NobodyIsForgotten

=============================================================================
