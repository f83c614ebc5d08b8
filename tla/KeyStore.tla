------------------------------ MODULE KeyStore ------------------------------
(***************************************************************************)
(* What mg_flash_save and mg_flash_load of mongoose 7.12 promise, on a     *)
(* device that may lose its power at any moment: a value for each key.     *)
(***************************************************************************)
EXTENDS Naturals

CONSTANTS
  Keys, Values,
  Small,      \* the keys whose values take no more than one unit of the flash
  NONE, TORN  \* no value, and a value of which only a part was written

VARIABLES
  stored,  \* stored[k]: what mg_flash_load finds
  saving   \* <<k, v>> while mg_flash_save is at work, or <<>>

vars == <<stored, saving>>

Init == /\ stored = [k \in Keys |-> NONE]
        /\ saving = <<>>

Begin(k, v) == /\ saving = <<>>
               /\ saving' = <<k, v>>
               /\ UNCHANGED stored

\* mg_flash_save returns true.  A small value may yet be out of sight.
Save == /\ saving # <<>>
        /\ saving' = <<>>
        /\ \/ stored' = [stored EXCEPT ![saving[1]] = saving[2]]
           \/ saving[1] \in Small /\ UNCHANGED stored

\* It returns false.
Refuse == /\ saving # <<>>
          /\ saving' = <<>>
          /\ UNCHANGED stored

\* The power goes while the value is written.
Interrupt == /\ saving # <<>>
             /\ saving' = <<>>
             /\ \E s \in {stored[saving[1]], TORN} :
                  stored' = [stored EXCEPT ![saving[1]] = s]

\* The power goes while the sector is cleaned up: after it was erased, and
\* before every value is back.
Wipe == /\ saving # <<>>
        /\ saving' = <<>>
        /\ stored' \in [Keys -> Values \cup {NONE, TORN}]
        /\ \A k \in Keys : stored'[k] \in {stored[k], NONE, TORN}

PowerLoss == Interrupt \/ Wipe

Next == (\E k \in Keys, v \in Values : Begin(k, v)) \/ Save \/ Refuse \/ PowerLoss

Spec == Init /\ [][Next]_vars

=============================================================================
