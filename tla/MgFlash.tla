------------------------------ MODULE MgFlash ------------------------------
(***************************************************************************)
(* mg_flash_save and mg_flash_load of mongoose 7.12 (src/device_flash.c)   *)
(* on one sector of the STM32 flash: objects are appended until the sector *)
(* is full; then it is read into RAM, erased and written again without the *)
(* older copies.  The flash takes one aligned unit at a time, and the      *)
(* power may go between any two of them.                                   *)
(***************************************************************************)
EXTENDS Naturals, FiniteSets, FiniteSetsExt

CONSTANTS
  Keys,
  Units,      \* Units[k]: what an object with key k takes, header and padding included
  Sector,     \* the sector, in units
  MaxSaves,   \* bound: the calls of mg_flash_save
  NONE, TORN

MgFlashAssumption == /\ IsFiniteSet(Keys) /\ Units \in [Keys -> Nat \ {0}]
                     /\ Sector \in Nat /\ MaxSaves \in Nat
                     /\ NONE \notin 1 .. MaxSaves \cup {TORN}
                     /\ NONE \notin [key : Keys, val : 1 .. MaxSaves \cup {TORN}]

VARIABLES
  flash,  \* flash[i]: NONE when erased, or part of an object
  ram,    \* the call at work: see Idle
  saves   \* the calls so far; each saves its own number

vars == <<flash, ram, saves>>

Versions == 1 .. MaxSaves

\* pc: "idle", "fit", "write", "erase", "restore" or "refit"; the object to
\* be saved, and where; io: the objects that cleanup has buffered and not yet
\* written back; ok: what the last call has returned.
Idle(ok) == [pc |-> "idle", key |-> NONE, val |-> NONE, at |-> 0, part |-> 1,
             io |-> {}, erased |-> TRUE, ok |-> ok]

Object(k, v) == [key |-> k, val |-> v]

Init == /\ flash = [i \in 1 .. Sector |-> NONE]
        /\ ram = Idle(TRUE)
        /\ saves = 0

-----------------------------------------------------------------------------
(* Reading *)

\* mg_flash_next: the units of the object at offset o, or 0.  The test for
\* space is strict: an object of one unit in the last unit is not seen.
FlashNext(s, o) ==
  LET left == Sector - o
  IN  IF left > 1 /\ s[o + 1] # NONE
        THEN IF Units[s[o + 1].key] <= left THEN Units[s[o + 1].key] ELSE 0
        ELSE 0

\* The offsets that the loops over mg_flash_next come to, one after the other,
\* and the one where they stop.
Walk(s) ==
  LET from[o \in 0 .. Sector] ==
        IF FlashNext(s, o) = 0 THEN {o} ELSE {o} \cup from[o + FlashNext(s, o)]
  IN  from[0]

Objects(s) == {o \in Walk(s) : FlashNext(s, o) # 0}
End(s) == CHOOSE o \in Walk(s) : FlashNext(s, o) = 0

\* The copies of an object.
Copies(s, k) == {o \in Objects(s) : s[o + 1].key = k}

\* The value at offset o: torn when a later unit is still erased.
ValueAt(s, o) ==
  IF \A i \in 1 .. Units[s[o + 1].key] : s[o + i] # NONE THEN s[o + 1].val ELSE TORN

Newest(s, k) == CHOOSE o \in Copies(s, k) : \A p \in Copies(s, k) : p <= o

\* Faulty form: the oldest copy is found.
LoadOldest(s, k) ==
  LET oldest == CHOOSE o \in Copies(s, k) : \A p \in Copies(s, k) : o <= p
  IN  IF Copies(s, k) = {} THEN NONE ELSE ValueAt(s, oldest)

\* mg_flash_load: the newest copy.
Load(s, k) == IF Copies(s, k) = {} THEN NONE ELSE ValueAt(s, Newest(s, k))

-----------------------------------------------------------------------------
(* Writing *)

\* mg_flash_write of one unit: at the start of the sector it erases first; a
\* unit that is not erased is refused by the hardware.
Program(o, unit) ==
  IF o = 0 THEN flash' = [i \in 1 .. Sector |-> IF i = 1 THEN unit ELSE NONE]
  ELSE flash' = [flash EXCEPT ![o + 1] = IF @ = NONE THEN unit ELSE @]

Refused(o) == o # 0 /\ flash[o + 1] # NONE

\* What cleanup buffers: the newest copy of each object, with where it was,
\* since they are written back in that order.  There is memory for them.
Buffered(s) == {[from |-> Newest(s, k), key |-> k, val |-> Load(s, k)] :
                  k \in {l \in Keys : Copies(s, l) # {}}}

FirstOf(io) == CHOOSE o \in io : \A p \in io : o.from <= p.from

SaveCall(k) ==
  /\ ram.pc = "idle" /\ saves < MaxSaves
  /\ saves' = saves + 1
  /\ ram' = [Idle(FALSE) EXCEPT !.pc = "fit", !.key = k, !.val = saves + 1]
  /\ UNCHANGED flash

\* mg_flash_save looks for the end of the list.
Fit ==
  /\ ram.pc = "fit"
  /\ ram' = IF End(flash) + Units[ram.key] > Sector
              THEN [ram EXCEPT !.pc = "erase", !.io = Buffered(flash)]
              ELSE [ram EXCEPT !.pc = "write", !.at = End(flash)]
  /\ UNCHANGED <<flash, saves>>

Refit ==
  /\ ram.pc = "refit"
  /\ ram' = IF End(flash) + Units[ram.key] > Sector
              THEN Idle(FALSE)
              ELSE [ram EXCEPT !.pc = "write", !.at = End(flash)]
  /\ UNCHANGED <<flash, saves>>

\* mg_flash_writev.
Write ==
  /\ ram.pc = "write"
  /\ Program(ram.at + ram.part - 1, Object(ram.key, ram.val))
  /\ ram' = IF Refused(ram.at + ram.part - 1) THEN Idle(FALSE)
            ELSE IF ram.part = Units[ram.key] THEN Idle(TRUE)
            ELSE [ram EXCEPT !.part = @ + 1]
  /\ UNCHANGED saves

\* mg_flash_sector_cleanup: the erasure, which may fail...
Erase ==
  /\ ram.pc = "erase"
  /\ \/ /\ flash' = [i \in 1 .. Sector |-> NONE]
        /\ ram' = [ram EXCEPT !.pc = "restore"]
     \/ /\ UNCHANGED flash
        /\ ram' = [ram EXCEPT !.pc = "refit", !.io = {}, !.erased = FALSE]
  /\ UNCHANGED saves

\* ... and mg_flash_save for each buffered object, unit by unit.  A torn
\* object is written again with what its erased units read as.
Restore ==
  /\ ram.pc = "restore"
  /\ IF ram.io = {}
       THEN ram' = [ram EXCEPT !.pc = "refit", !.at = 0] /\ UNCHANGED flash
       ELSE LET o == FirstOf(ram.io)
                at == IF ram.part = 1 THEN End(flash) ELSE ram.at
                end == ram.part = Units[o.key]
            IN  /\ Program(at + ram.part - 1, Object(o.key, o.val))
                /\ ram' = [ram EXCEPT !.at = at,
                                      !.io = IF end THEN @ \ {o} ELSE @,
                                      !.part = IF end THEN 1 ELSE @ + 1]
  /\ UNCHANGED saves

PowerLoss ==
  /\ ram.pc # "idle"
  /\ ram' = Idle(FALSE)
  /\ UNCHANGED <<flash, saves>>

Next == (\E k \in Keys : SaveCall(k)) \/ Fit \/ Write \/ Erase \/ Restore \/ Refit \/ PowerLoss

Spec == Init /\ [][Next]_vars

-----------------------------------------------------------------------------
(* Properties *)

Small == {k \in Keys : Units[k] = 1}

\* The flash up to an offset.
Cut(s, o) == [i \in 1 .. Sector |-> IF i > o THEN NONE ELSE s[i]]

\* While the sector is cleaned up its objects are in RAM, and an object that
\* is being written is not there yet.
Stored(k) ==
  CASE ram.pc = "write" -> Load(Cut(flash, ram.at), k)
    [] ram.pc = "restore" /\ (\E o \in ram.io : o.key = k) ->
         (CHOOSE o \in ram.io : o.key = k).val
    [] ram.pc = "restore" /\ (\A o \in ram.io : o.key # k) ->
         Load(IF ram.part > 1 THEN Cut(flash, ram.at) ELSE flash, k)
    [] ram.pc \notin {"write", "restore"} -> Load(flash, k)

Store == INSTANCE KeyStore WITH Values <- Versions,
           stored <- [k \in Keys |-> Stored(k)],
           saving <- IF ram.pc = "idle" THEN <<>> ELSE <<ram.key, ram.val>>

\* The log of objects is a store of the newest values: appending, cleaning up
\* and looking up agree, and a power failure costs no more than it must.
ImplementsStore == Store!Spec

\* The call that returns true has saved its object, and one that returns false
\* or is cut short has not.
AnswersTruly ==
  ram.pc # "idle" /\ ram'.pc = "idle" =>
    IF ram'.ok THEN Store!Save ELSE Store!Refuse \/ Store!PowerLoss

\* What the newest copies take.
Taken == [k \in Keys |-> IF Stored(k) = NONE THEN 0 ELSE Units[k]]
TotalOf(f) == MapThenSumSet(LAMBDA k : f[k], DOMAIN f)

\* A save is refused only when its object does not fit beside the newest copy
\* of every other, when the flash could not be erased, or when the power went;
\* or when an object of one unit, which nobody sees, is in the last unit.
RefusedWithReason ==
  ram.pc \in {"refit", "write"} /\ ram'.pc = "idle" /\ ~ram'.ok =>
    \/ PowerLoss
    \/ ~ram.erased
    \/ flash[Sector] # NONE /\ Units[flash[Sector].key] = 1
    \/ Units[ram.key] + TotalOf(Taken) > Sector

RoomIsFound == [][RefusedWithReason]_vars

=============================================================================
