------------------------------- MODULE MgOta -------------------------------
(***************************************************************************)
(* The firmware update of mongoose 7.12 (src/ota_flash.c) on a device with *)
(* two banks of flash, one of which boots.  Its records are kept in the    *)
(* store of device_flash.c (KeyStore), and the power may go at any moment. *)
(* Firmware is written chunk by chunk; what is told apart is the update    *)
(* from which the chunk in each place comes.                               *)
(***************************************************************************)
EXTENDS Naturals

CONSTANTS
  MaxSize,    \* the chunks of a bank before its last sector
  MaxUpdates, \* bound: the calls of mg_ota_begin that begin
  MaxLosses,  \* bound: the power failures
  Small, NONE, TORN

\* A bank has a sector for the firmware before the last one.
MgOtaAssumption == /\ MaxSize \in Nat /\ MaxSize >= 2
                   /\ MaxUpdates \in Nat /\ MaxLosses \in Nat
                   /\ {NONE, TORN} \cap {"first boot", "committed"} = {} /\ NONE # TORN

VARIABLES
  bank,    \* the bank that boots and runs
  image,   \* image[b][i]: the update from which chunk i comes
  ota,     \* the variables of ota_flash.c, and what this boot knows
  stored, saving,
  sealed,  \* sealed[b]: the update that was last written to b as a whole
  updates, losses

history == <<sealed, updates, losses>>
vars == <<bank, image, ota, stored, saving, history>>

Banks == {1, 2}
Statuses == {"first boot", "committed"}
Bad == MaxUpdates + 1

Store == INSTANCE KeyStore WITH Keys <- Banks, Values <- Statuses

Other(b) == 3 - b

\* pc: "idle", "end" or "commit" while mg_flash_save runs for mg_ota_end or
\* mg_ota_commit, "swap" before mg_flash_swap_bank.  crc: the chunks of this
\* update are summed up by their number.
Booted == [pc |-> "idle", s_size |-> 0, s_addr |-> 0, trusted |-> FALSE]

Init == /\ bank = 1
        /\ image = [b \in Banks |-> [i \in 1 .. MaxSize |-> IF b = 1 THEN 0 ELSE Bad]]
        /\ ota = Booted
        /\ Store!Init
        /\ sealed = [b \in Banks |-> [update |-> 0, size |-> IF b = 1 THEN MaxSize - 1 ELSE 0]]
        /\ updates = 0 /\ losses = 0

\* mg_otadata for the firmware that runs: the record of its bank.
Status == stored[bank]

-----------------------------------------------------------------------------
(* The calls *)

\* The application updates only a firmware that is not on trial: one that it
\* has committed, or of which no record says that it boots for the first time.
mg_ota_begin(n) ==
  /\ ota.pc = "idle" /\ ota.s_size = 0 /\ n < MaxSize
  /\ updates < MaxUpdates
  /\ ota.trusted \/ Status \notin {"first boot", TORN}
  /\ ota' = [ota EXCEPT !.s_size = n, !.s_addr = 0]
  /\ updates' = updates + 1
  /\ UNCHANGED <<bank, image, stored, saving, sealed, losses>>

\* A write that fails advances s_addr and the checksum all the same.  Nothing
\* keeps the application from writing more than it has announced: as far as
\* the last sector, which holds the records when bank 2 is written.
mg_ota_write ==
  /\ ota.pc = "idle" /\ ota.s_size # 0 /\ ota.s_addr <= MaxSize
  /\ ota' = [ota EXCEPT !.s_addr = @ + 1]
  /\ IF ota.s_addr < MaxSize
       THEN /\ \E chunk \in {updates, Bad} :
                 image' = [image EXCEPT ![Other(bank)][ota.s_addr + 1] = chunk]
            /\ UNCHANGED stored
       ELSE /\ stored' = [k \in Banks |-> IF bank = 1 THEN NONE ELSE stored[k]]
            /\ UNCHANGED image
  /\ UNCHANGED <<bank, saving, history>>

\* Faulty form: the checksum is compared with itself, and not with the flash.
ChecksTrue == ota.s_addr = ota.s_size

\* The size, and the checksum of the flash against that of what was passed.
Checks == /\ ota.s_addr = ota.s_size
          /\ \A i \in 1 .. ota.s_size : image[Other(bank)][i] = updates

\* mg_ota_end, up to its call of mg_flash_save.
mg_ota_end ==
  /\ ota.pc = "idle" /\ ota.s_size # 0
  /\ IF Checks
       THEN /\ Store!Begin(Other(bank), "first boot")
            /\ ota' = [ota EXCEPT !.pc = "end"]
            /\ sealed' = [sealed EXCEPT ![Other(bank)] =
                            [update |-> updates, size |-> ota.s_size]]
       ELSE /\ ota' = [ota EXCEPT !.s_size = 0]
            /\ UNCHANGED <<stored, saving, sealed>>
  /\ UNCHANGED <<bank, image, updates, losses>>

mg_ota_commit ==
  /\ ota.pc = "idle" /\ ~ota.trusted /\ ota.s_size = 0
  /\ Store!Begin(bank, "committed")
  /\ ota' = [ota EXCEPT !.pc = "commit"]
  /\ UNCHANGED <<bank, image, history>>

\* The application rolls back a firmware that is on trial.
mg_ota_rollback ==
  /\ ota.pc = "idle" /\ ~ota.trusted /\ Status = "first boot"
  /\ ota' = [ota EXCEPT !.pc = "swap"]
  /\ UNCHANGED <<bank, image, stored, saving, history>>

Saved ==
  /\ Store!Save
  /\ ota' = IF ota.pc = "end" THEN [ota EXCEPT !.pc = "swap", !.s_size = 0]
            ELSE [ota EXCEPT !.pc = "idle", !.trusted = TRUE]
  /\ UNCHANGED <<bank, image, history>>

NotSaved ==
  /\ Store!Refuse
  /\ ota' = [ota EXCEPT !.pc = "idle", !.s_size = 0]
  /\ UNCHANGED <<bank, image, history>>

\* mg_flash_swap_bank, and the reset that the application does next.
mg_flash_swap_bank ==
  /\ ota.pc = "swap"
  /\ bank' = Other(bank)
  /\ ota' = Booted
  /\ UNCHANGED <<image, stored, saving, history>>

PowerLoss ==
  /\ losses < MaxLosses /\ losses' = losses + 1
  /\ ota' = Booted
  /\ Store!PowerLoss \/ (saving = <<>> /\ UNCHANGED <<stored, saving>>)
  /\ UNCHANGED <<bank, image, sealed, updates>>

Next == \/ \E n \in 1 .. MaxSize : mg_ota_begin(n)
        \/ mg_ota_write \/ mg_ota_end \/ mg_ota_commit \/ mg_ota_rollback
        \/ Saved \/ NotSaved \/ mg_flash_swap_bank \/ PowerLoss

Spec == Init /\ [][Next]_vars

-----------------------------------------------------------------------------
(* Properties *)

Intact(b) == \A i \in 1 .. sealed[b].size : image[b][i] = sealed[b].update

\* Whenever the power goes, a complete firmware boots: the bank that boots
\* holds the chunks of one update, each as it was passed to mg_ota_write.
BootsIntact == Intact(bank)

\* As long as a firmware is on trial, the one before it is complete.
RollbackIsPossible ==
  Status = "first boot" /\ ~ota.trusted => Intact(Other(bank)) /\ sealed[Other(bank)].size > 0

=============================================================================
