-------------------------- MODULE LibrariesProofs --------------------------
(***************************************************************************)
(* What holds of some components of MCLibraries for every value of their   *)
(* constants: the segment of the shared-memory FIFO, the firmware update   *)
(* and the flash of mongoose, the memory tracker and the rings of          *)
(* mongoose's drivers.                                                     *)
(***************************************************************************)
EXTENDS MCLibraries, QueueLemmas, FiniteSetTheorems, WellFoundedInduction

-----------------------------------------------------------------------------
(* The segment *)

SegPlaces == {"idle", "i_find", "i_remove", "i_create", "i_attach", "i_fill",
              "c_find", "c_attach", "d_separate", "d_remove"}

SegResults == {"none", "Init true", "Init false", "Connect true", "Connect false",
               "Separate true", "Separate false", "Distory true"}

SegTypes == /\ made \in Nat
            /\ m_shmHead \in [Procs -> Segment!Segs \cup {NULL, BAD}]
            /\ m_payload \in [Procs -> Segment!Segs \cup {NULL, BAD}]
            /\ pc \in [Procs -> SegPlaces]
            /\ shmid \in [Procs -> Segment!Segs \cup {NULL}]
            /\ key \in Segment!Segs \cup {NULL}
            /\ filled \subseteq Segment!Segs
            /\ made <= MaxSegs
            /\ result \in [Procs -> SegResults]
            /\ stale \subseteq Procs

\* A process that is about to attach a segment attaches the current one, unless
\* it was taken away since it was found.
AboutToAttach ==
  \A p \in Procs :
    pc[p] = "c_attach" => shmid[p] \in Segment!Segs /\ (shmid[p] = key \/ p \in stale)

\* What Init has made is current, for only the creator changes the key.
InitHasTheKey ==
  /\ pc[Creator] = "i_attach" => shmid[Creator] = key /\ key \in Segment!Segs
  /\ pc[Creator] = "i_fill" => m_shmHead[Creator] \in Segment!Segs

\* Nobody that looks for a segment has one.
SeekersHaveNone ==
  /\ \A p \in Procs : pc[p] \in {"c_find", "c_attach"} => m_payload[p] = NULL
  /\ pc[Creator] \in {"i_find", "i_remove", "i_create", "i_attach", "i_fill"}
       => m_payload[Creator] = NULL

SegInv == /\ SegTypes
          /\ AboutToAttach /\ InitHasTheKey /\ SeekersHaveNone
          /\ Segment!AttachedIsCurrent
          /\ Segment!PayloadHasHead
          /\ Segment!ConnectTrueMeansAttached

LEMMA SegInitially == Segment!ShmSegmentAssumption /\ Segment!Init => SegInv
<1> SUFFICES ASSUME Segment!ShmSegmentAssumption, Segment!Init PROVE SegInv
  OBVIOUS
<1> USE DEF Segment!ShmSegmentAssumption, Segment!Init, Segment!Segs
<1>1. SegTypes
  BY DEF SegTypes, SegPlaces, SegResults
<1>2. AboutToAttach
  BY DEF AboutToAttach
<1>3. InitHasTheKey
  BY DEF InitHasTheKey
<1>4. SeekersHaveNone
  BY DEF SeekersHaveNone
<1>5. Segment!AttachedIsCurrent
  BY DEF Segment!AttachedIsCurrent
<1>6. Segment!PayloadHasHead
  BY DEF Segment!PayloadHasHead
<1>7. Segment!ConnectTrueMeansAttached
  BY DEF Segment!ConnectTrueMeansAttached
<1> QED BY <1>1, <1>2, <1>3, <1>4, <1>5, <1>6, <1>7 DEF SegInv

LEMMA SegStep ==
  ASSUME Segment!ShmSegmentAssumption, SegInv, Segment!Next
  PROVE  SegInv'
<1> SegTypes /\ AboutToAttach /\ InitHasTheKey /\ SeekersHaveNone /\ Segment!AttachedIsCurrent
      /\ Segment!PayloadHasHead /\ Segment!ConnectTrueMeansAttached
  BY DEF SegInv
<1> USE DEF Segment!ShmSegmentAssumption, Segment!Goto, Segment!Return, Segment!kernel
<1>1. ASSUME Segment!InitCall PROVE SegInv'
  <2>1. SegTypes'
    BY <1>1 DEF Segment!InitCall, SegTypes, SegPlaces, SegResults
  <2>2. AboutToAttach'
    BY <1>1 DEF Segment!InitCall, SegTypes, AboutToAttach
  <2>3. InitHasTheKey'
    BY <1>1 DEF Segment!InitCall, SegTypes, InitHasTheKey
  <2>4. SeekersHaveNone'
    BY <1>1 DEF Segment!InitCall, SegTypes, SeekersHaveNone, Segment!PayloadHasHead
  <2>5. Segment!AttachedIsCurrent'
    BY <1>1 DEF Segment!InitCall, SegTypes, Segment!AttachedIsCurrent, AboutToAttach, InitHasTheKey
  <2>6. Segment!PayloadHasHead'
    BY <1>1 DEF Segment!InitCall, SegTypes, Segment!PayloadHasHead, SeekersHaveNone
  <2>7. Segment!ConnectTrueMeansAttached'
    BY <1>1 DEF Segment!InitCall, SegTypes, Segment!ConnectTrueMeansAttached, AboutToAttach
  <2> QED BY <2>1, <2>2, <2>3, <2>4, <2>5, <2>6, <2>7 DEF SegInv
<1>2. ASSUME Segment!InitFind PROVE SegInv'
  <2>1. SegTypes'
    BY <1>2 DEF Segment!InitFind, SegTypes, SegPlaces, SegResults
  <2>2. AboutToAttach'
    BY <1>2 DEF Segment!InitFind, SegTypes, AboutToAttach
  <2>3. InitHasTheKey'
    BY <1>2 DEF Segment!InitFind, SegTypes, InitHasTheKey
  <2>4. SeekersHaveNone'
    BY <1>2 DEF Segment!InitFind, SegTypes, SeekersHaveNone, Segment!PayloadHasHead
  <2>5. Segment!AttachedIsCurrent'
    BY <1>2 DEF Segment!InitFind, SegTypes, Segment!AttachedIsCurrent, AboutToAttach, InitHasTheKey
  <2>6. Segment!PayloadHasHead'
    BY <1>2 DEF Segment!InitFind, SegTypes, Segment!PayloadHasHead, SeekersHaveNone
  <2>7. Segment!ConnectTrueMeansAttached'
    BY <1>2 DEF Segment!InitFind, SegTypes, Segment!ConnectTrueMeansAttached, AboutToAttach
  <2> QED BY <2>1, <2>2, <2>3, <2>4, <2>5, <2>6, <2>7 DEF SegInv
<1>3. ASSUME Segment!InitRemove PROVE SegInv'
  <2>1. SegTypes'
    BY <1>3 DEF Segment!InitRemove, Segment!Remove, Segment!Attached, SegTypes, SegPlaces, SegResults
  <2>2. AboutToAttach'
    BY <1>3 DEF Segment!InitRemove, Segment!Remove, Segment!Attached, SegTypes, AboutToAttach
  <2>3. InitHasTheKey'
    BY <1>3 DEF Segment!InitRemove, Segment!Remove, Segment!Attached, SegTypes, InitHasTheKey
  <2>4. SeekersHaveNone'
    BY <1>3 DEF Segment!InitRemove, Segment!Remove, Segment!Attached, SegTypes, SeekersHaveNone, Segment!PayloadHasHead
  <2>5. Segment!AttachedIsCurrent'
    BY <1>3 DEF Segment!InitRemove, Segment!Remove, Segment!Attached, SegTypes, Segment!AttachedIsCurrent, AboutToAttach, InitHasTheKey
  <2>6. Segment!PayloadHasHead'
    BY <1>3 DEF Segment!InitRemove, Segment!Remove, Segment!Attached, SegTypes, Segment!PayloadHasHead, SeekersHaveNone
  <2>7. Segment!ConnectTrueMeansAttached'
    BY <1>3 DEF Segment!InitRemove, Segment!Remove, Segment!Attached, SegTypes, Segment!ConnectTrueMeansAttached, AboutToAttach
  <2> QED BY <2>1, <2>2, <2>3, <2>4, <2>5, <2>6, <2>7 DEF SegInv
<1>4. ASSUME Segment!InitCreate PROVE SegInv'
  <2>1. SegTypes'
    <3>1. made' \in Segment!Segs /\ key' = made' /\ made' \in Nat /\ made' <= MaxSegs
      BY <1>4 DEF Segment!InitCreate, SegTypes, Segment!Segs
    <3> QED BY <1>4, <3>1 DEF Segment!InitCreate, SegTypes, SegPlaces, SegResults
  <2>2. AboutToAttach'
    BY <1>4 DEF Segment!InitCreate, SegTypes, AboutToAttach
  <2>3. InitHasTheKey'
    BY <1>4 DEF Segment!InitCreate, SegTypes, InitHasTheKey, Segment!Segs
  <2>4. SeekersHaveNone'
    BY <1>4 DEF Segment!InitCreate, SegTypes, SeekersHaveNone, Segment!PayloadHasHead
  <2>5. Segment!AttachedIsCurrent'
    BY <1>4 DEF Segment!InitCreate, SegTypes, Segment!AttachedIsCurrent, AboutToAttach, InitHasTheKey
  <2>6. Segment!PayloadHasHead'
    BY <1>4 DEF Segment!InitCreate, SegTypes, Segment!PayloadHasHead, SeekersHaveNone
  <2>7. Segment!ConnectTrueMeansAttached'
    BY <1>4 DEF Segment!InitCreate, SegTypes, Segment!ConnectTrueMeansAttached, AboutToAttach
  <2> QED BY <2>1, <2>2, <2>3, <2>4, <2>5, <2>6, <2>7 DEF SegInv
<1>5. ASSUME Segment!InitFails PROVE SegInv'
  <2>1. SegTypes'
    BY <1>5 DEF Segment!InitFails, SegTypes, SegPlaces, SegResults
  <2>2. AboutToAttach'
    BY <1>5 DEF Segment!InitFails, SegTypes, AboutToAttach
  <2>3. InitHasTheKey'
    BY <1>5 DEF Segment!InitFails, SegTypes, InitHasTheKey
  <2>4. SeekersHaveNone'
    BY <1>5 DEF Segment!InitFails, SegTypes, SeekersHaveNone, Segment!PayloadHasHead
  <2>5. Segment!AttachedIsCurrent'
    BY <1>5 DEF Segment!InitFails, SegTypes, Segment!AttachedIsCurrent, AboutToAttach, InitHasTheKey
  <2>6. Segment!PayloadHasHead'
    BY <1>5 DEF Segment!InitFails, SegTypes, Segment!PayloadHasHead, SeekersHaveNone
  <2>7. Segment!ConnectTrueMeansAttached'
    BY <1>5 DEF Segment!InitFails, SegTypes, Segment!ConnectTrueMeansAttached, AboutToAttach
  <2> QED BY <2>1, <2>2, <2>3, <2>4, <2>5, <2>6, <2>7 DEF SegInv
<1>6. ASSUME Segment!InitAttach PROVE SegInv'
  <2>1. SegTypes'
    BY <1>6 DEF Segment!InitAttach, SegTypes, SegPlaces, SegResults
  <2>2. AboutToAttach'
    BY <1>6 DEF Segment!InitAttach, SegTypes, AboutToAttach
  <2>3. InitHasTheKey'
    BY <1>6 DEF Segment!InitAttach, SegTypes, InitHasTheKey
  <2>4. SeekersHaveNone'
    BY <1>6 DEF Segment!InitAttach, SegTypes, SeekersHaveNone, Segment!PayloadHasHead
  <2>5. Segment!AttachedIsCurrent'
    BY <1>6 DEF Segment!InitAttach, SegTypes, Segment!AttachedIsCurrent, AboutToAttach, InitHasTheKey
  <2>6. Segment!PayloadHasHead'
    BY <1>6 DEF Segment!InitAttach, SegTypes, Segment!PayloadHasHead, SeekersHaveNone
  <2>7. Segment!ConnectTrueMeansAttached'
    BY <1>6 DEF Segment!InitAttach, SegTypes, Segment!ConnectTrueMeansAttached, AboutToAttach
  <2> QED BY <2>1, <2>2, <2>3, <2>4, <2>5, <2>6, <2>7 DEF SegInv
<1>7. ASSUME Segment!InitAttachFails PROVE SegInv'
  <2>1. SegTypes'
    BY <1>7 DEF Segment!InitAttachFails, SegTypes, SegPlaces, SegResults
  <2>2. AboutToAttach'
    BY <1>7 DEF Segment!InitAttachFails, SegTypes, AboutToAttach
  <2>3. InitHasTheKey'
    BY <1>7 DEF Segment!InitAttachFails, SegTypes, InitHasTheKey
  <2>4. SeekersHaveNone'
    BY <1>7 DEF Segment!InitAttachFails, SegTypes, SeekersHaveNone, Segment!PayloadHasHead
  <2>5. Segment!AttachedIsCurrent'
    BY <1>7 DEF Segment!InitAttachFails, SegTypes, Segment!AttachedIsCurrent, AboutToAttach, InitHasTheKey
  <2>6. Segment!PayloadHasHead'
    BY <1>7 DEF Segment!InitAttachFails, SegTypes, Segment!PayloadHasHead, SeekersHaveNone
  <2>7. Segment!ConnectTrueMeansAttached'
    BY <1>7 DEF Segment!InitAttachFails, SegTypes, Segment!ConnectTrueMeansAttached, AboutToAttach
  <2> QED BY <2>1, <2>2, <2>3, <2>4, <2>5, <2>6, <2>7 DEF SegInv
<1>8. ASSUME Segment!InitFill PROVE SegInv'
  <2>1. SegTypes'
    BY <1>8 DEF Segment!InitFill, SegTypes, SegPlaces, SegResults, InitHasTheKey
  <2>2. AboutToAttach'
    BY <1>8 DEF Segment!InitFill, SegTypes, AboutToAttach
  <2>3. InitHasTheKey'
    BY <1>8 DEF Segment!InitFill, SegTypes, InitHasTheKey
  <2>4. SeekersHaveNone'
    BY <1>8 DEF Segment!InitFill, SegTypes, SeekersHaveNone, Segment!PayloadHasHead
  <2>5. Segment!AttachedIsCurrent'
    BY <1>8 DEF Segment!InitFill, SegTypes, Segment!AttachedIsCurrent, AboutToAttach, InitHasTheKey
  <2>6. Segment!PayloadHasHead'
    BY <1>8 DEF Segment!InitFill, SegTypes, Segment!PayloadHasHead, SeekersHaveNone
  <2>7. Segment!ConnectTrueMeansAttached'
    BY <1>8 DEF Segment!InitFill, SegTypes, Segment!ConnectTrueMeansAttached, AboutToAttach
  <2> QED BY <2>1, <2>2, <2>3, <2>4, <2>5, <2>6, <2>7 DEF SegInv
<1>9. ASSUME NEW p \in Procs, Segment!ConnectAgain(p) PROVE SegInv'
  <2>1. SegTypes'
    BY <1>9 DEF Segment!ConnectAgain, SegTypes, SegPlaces, SegResults
  <2>2. AboutToAttach'
    BY <1>9 DEF Segment!ConnectAgain, SegTypes, AboutToAttach
  <2>3. InitHasTheKey'
    BY <1>9 DEF Segment!ConnectAgain, SegTypes, InitHasTheKey
  <2>4. SeekersHaveNone'
    BY <1>9 DEF Segment!ConnectAgain, SegTypes, SeekersHaveNone, Segment!PayloadHasHead
  <2>5. Segment!AttachedIsCurrent'
    BY <1>9 DEF Segment!ConnectAgain, SegTypes, Segment!AttachedIsCurrent, AboutToAttach, InitHasTheKey
  <2>6. Segment!PayloadHasHead'
    BY <1>9 DEF Segment!ConnectAgain, SegTypes, Segment!PayloadHasHead, SeekersHaveNone
  <2>7. Segment!ConnectTrueMeansAttached'
    BY <1>9 DEF Segment!ConnectAgain, SegTypes, Segment!ConnectTrueMeansAttached, AboutToAttach
  <2> QED BY <2>1, <2>2, <2>3, <2>4, <2>5, <2>6, <2>7 DEF SegInv
<1>10. ASSUME NEW p \in Procs, Segment!ConnectCall(p) PROVE SegInv'
  <2>1. SegTypes'
    BY <1>10 DEF Segment!ConnectCall, SegTypes, SegPlaces, SegResults
  <2>2. AboutToAttach'
    BY <1>10 DEF Segment!ConnectCall, SegTypes, AboutToAttach
  <2>3. InitHasTheKey'
    BY <1>10 DEF Segment!ConnectCall, SegTypes, InitHasTheKey
  <2>4. SeekersHaveNone'
    BY <1>10 DEF Segment!ConnectCall, SegTypes, SeekersHaveNone, Segment!PayloadHasHead
  <2>5. Segment!AttachedIsCurrent'
    BY <1>10 DEF Segment!ConnectCall, SegTypes, Segment!AttachedIsCurrent, AboutToAttach, InitHasTheKey
  <2>6. Segment!PayloadHasHead'
    BY <1>10 DEF Segment!ConnectCall, SegTypes, Segment!PayloadHasHead, SeekersHaveNone
  <2>7. Segment!ConnectTrueMeansAttached'
    BY <1>10 DEF Segment!ConnectCall, SegTypes, Segment!ConnectTrueMeansAttached, AboutToAttach
  <2> QED BY <2>1, <2>2, <2>3, <2>4, <2>5, <2>6, <2>7 DEF SegInv
<1>11. ASSUME NEW p \in Procs, Segment!ConnectFind(p) PROVE SegInv'
  <2>1. SegTypes'
    BY <1>11 DEF Segment!ConnectFind, SegTypes, SegPlaces, SegResults
  <2>2. AboutToAttach'
    BY <1>11 DEF Segment!ConnectFind, SegTypes, AboutToAttach
  <2>3. InitHasTheKey'
    BY <1>11 DEF Segment!ConnectFind, SegTypes, InitHasTheKey
  <2>4. SeekersHaveNone'
    BY <1>11 DEF Segment!ConnectFind, SegTypes, SeekersHaveNone, Segment!PayloadHasHead
  <2>5. Segment!AttachedIsCurrent'
    BY <1>11 DEF Segment!ConnectFind, SegTypes, Segment!AttachedIsCurrent, AboutToAttach, InitHasTheKey
  <2>6. Segment!PayloadHasHead'
    BY <1>11 DEF Segment!ConnectFind, SegTypes, Segment!PayloadHasHead, SeekersHaveNone
  <2>7. Segment!ConnectTrueMeansAttached'
    BY <1>11 DEF Segment!ConnectFind, SegTypes, Segment!ConnectTrueMeansAttached, AboutToAttach
  <2> QED BY <2>1, <2>2, <2>3, <2>4, <2>5, <2>6, <2>7 DEF SegInv
<1>12. ASSUME NEW p \in Procs, Segment!ConnectFindsNone(p) PROVE SegInv'
  <2>1. SegTypes'
    BY <1>12 DEF Segment!ConnectFindsNone, SegTypes, SegPlaces, SegResults
  <2>2. AboutToAttach'
    BY <1>12 DEF Segment!ConnectFindsNone, SegTypes, AboutToAttach
  <2>3. InitHasTheKey'
    BY <1>12 DEF Segment!ConnectFindsNone, SegTypes, InitHasTheKey
  <2>4. SeekersHaveNone'
    BY <1>12 DEF Segment!ConnectFindsNone, SegTypes, SeekersHaveNone, Segment!PayloadHasHead
  <2>5. Segment!AttachedIsCurrent'
    BY <1>12 DEF Segment!ConnectFindsNone, SegTypes, Segment!AttachedIsCurrent, AboutToAttach, InitHasTheKey
  <2>6. Segment!PayloadHasHead'
    BY <1>12 DEF Segment!ConnectFindsNone, SegTypes, Segment!PayloadHasHead, SeekersHaveNone
  <2>7. Segment!ConnectTrueMeansAttached'
    BY <1>12 DEF Segment!ConnectFindsNone, SegTypes, Segment!ConnectTrueMeansAttached, AboutToAttach
  <2> QED BY <2>1, <2>2, <2>3, <2>4, <2>5, <2>6, <2>7 DEF SegInv
<1>13. ASSUME NEW p \in Procs, Segment!ConnectAttach(p) PROVE SegInv'
  <2>1. SegTypes'
    BY <1>13 DEF Segment!ConnectAttach, SegTypes, SegPlaces, SegResults
  <2>2. AboutToAttach'
    BY <1>13 DEF Segment!ConnectAttach, SegTypes, AboutToAttach
  <2>3. InitHasTheKey'
    BY <1>13 DEF Segment!ConnectAttach, SegTypes, InitHasTheKey
  <2>4. SeekersHaveNone'
    BY <1>13 DEF Segment!ConnectAttach, SegTypes, SeekersHaveNone, Segment!PayloadHasHead
  <2>5. Segment!AttachedIsCurrent'
    BY <1>13 DEF Segment!ConnectAttach, SegTypes, Segment!AttachedIsCurrent, AboutToAttach, InitHasTheKey
  <2>6. Segment!PayloadHasHead'
    BY <1>13 DEF Segment!ConnectAttach, SegTypes, Segment!PayloadHasHead, SeekersHaveNone
  <2>7. Segment!ConnectTrueMeansAttached'
    BY <1>13 DEF Segment!ConnectAttach, SegTypes, Segment!ConnectTrueMeansAttached, AboutToAttach
  <2> QED BY <2>1, <2>2, <2>3, <2>4, <2>5, <2>6, <2>7 DEF SegInv
<1>14. ASSUME NEW p \in Procs, Segment!ConnectAttachFails(p) PROVE SegInv'
  <2>1. SegTypes'
    BY <1>14 DEF Segment!ConnectAttachFails, SegTypes, SegPlaces, SegResults
  <2>2. AboutToAttach'
    BY <1>14 DEF Segment!ConnectAttachFails, SegTypes, AboutToAttach
  <2>3. InitHasTheKey'
    BY <1>14 DEF Segment!ConnectAttachFails, SegTypes, InitHasTheKey
  <2>4. SeekersHaveNone'
    BY <1>14 DEF Segment!ConnectAttachFails, SegTypes, SeekersHaveNone, Segment!PayloadHasHead
  <2>5. Segment!AttachedIsCurrent'
    BY <1>14 DEF Segment!ConnectAttachFails, SegTypes, Segment!AttachedIsCurrent, AboutToAttach, InitHasTheKey
  <2>6. Segment!PayloadHasHead'
    BY <1>14 DEF Segment!ConnectAttachFails, SegTypes, Segment!PayloadHasHead, SeekersHaveNone
  <2>7. Segment!ConnectTrueMeansAttached'
    BY <1>14 DEF Segment!ConnectAttachFails, SegTypes, Segment!ConnectTrueMeansAttached, AboutToAttach
  <2> QED BY <2>1, <2>2, <2>3, <2>4, <2>5, <2>6, <2>7 DEF SegInv
<1>15. ASSUME NEW p \in Procs, Segment!Separate(p) PROVE SegInv'
  <2>1. SegTypes'
    BY <1>15 DEF Segment!Separate, SegTypes, SegPlaces, SegResults
  <2>2. AboutToAttach'
    BY <1>15 DEF Segment!Separate, SegTypes, AboutToAttach
  <2>3. InitHasTheKey'
    BY <1>15 DEF Segment!Separate, SegTypes, InitHasTheKey
  <2>4. SeekersHaveNone'
    BY <1>15 DEF Segment!Separate, SegTypes, SeekersHaveNone, Segment!PayloadHasHead
  <2>5. Segment!AttachedIsCurrent'
    BY <1>15 DEF Segment!Separate, SegTypes, Segment!AttachedIsCurrent, AboutToAttach, InitHasTheKey
  <2>6. Segment!PayloadHasHead'
    BY <1>15 DEF Segment!Separate, SegTypes, Segment!PayloadHasHead, SeekersHaveNone
  <2>7. Segment!ConnectTrueMeansAttached'
    BY <1>15 DEF Segment!Separate, SegTypes, Segment!ConnectTrueMeansAttached, AboutToAttach
  <2> QED BY <2>1, <2>2, <2>3, <2>4, <2>5, <2>6, <2>7 DEF SegInv
<1>16. ASSUME NEW p \in Procs, Segment!SeparateFails(p) PROVE SegInv'
  <2>1. SegTypes'
    BY <1>16 DEF Segment!SeparateFails, SegTypes, SegPlaces, SegResults
  <2>2. AboutToAttach'
    BY <1>16 DEF Segment!SeparateFails, SegTypes, AboutToAttach
  <2>3. InitHasTheKey'
    BY <1>16 DEF Segment!SeparateFails, SegTypes, InitHasTheKey
  <2>4. SeekersHaveNone'
    BY <1>16 DEF Segment!SeparateFails, SegTypes, SeekersHaveNone, Segment!PayloadHasHead
  <2>5. Segment!AttachedIsCurrent'
    BY <1>16 DEF Segment!SeparateFails, SegTypes, Segment!AttachedIsCurrent, AboutToAttach, InitHasTheKey
  <2>6. Segment!PayloadHasHead'
    BY <1>16 DEF Segment!SeparateFails, SegTypes, Segment!PayloadHasHead, SeekersHaveNone
  <2>7. Segment!ConnectTrueMeansAttached'
    BY <1>16 DEF Segment!SeparateFails, SegTypes, Segment!ConnectTrueMeansAttached, AboutToAttach
  <2> QED BY <2>1, <2>2, <2>3, <2>4, <2>5, <2>6, <2>7 DEF SegInv
<1>17. ASSUME NEW p \in Procs, Segment!Restart(p) PROVE SegInv'
  <2>1. SegTypes'
    BY <1>17 DEF Segment!Restart, SegTypes, SegPlaces, SegResults
  <2>2. AboutToAttach'
    BY <1>17 DEF Segment!Restart, SegTypes, AboutToAttach
  <2>3. InitHasTheKey'
    BY <1>17 DEF Segment!Restart, SegTypes, InitHasTheKey
  <2>4. SeekersHaveNone'
    BY <1>17 DEF Segment!Restart, SegTypes, SeekersHaveNone, Segment!PayloadHasHead
  <2>5. Segment!AttachedIsCurrent'
    BY <1>17 DEF Segment!Restart, SegTypes, Segment!AttachedIsCurrent, AboutToAttach, InitHasTheKey
  <2>6. Segment!PayloadHasHead'
    BY <1>17 DEF Segment!Restart, SegTypes, Segment!PayloadHasHead, SeekersHaveNone
  <2>7. Segment!ConnectTrueMeansAttached'
    BY <1>17 DEF Segment!Restart, SegTypes, Segment!ConnectTrueMeansAttached, AboutToAttach
  <2> QED BY <2>1, <2>2, <2>3, <2>4, <2>5, <2>6, <2>7 DEF SegInv
<1>18. ASSUME Segment!DistoryCall PROVE SegInv'
  <2>1. SegTypes'
    BY <1>18 DEF Segment!DistoryCall, SegTypes, SegPlaces, SegResults
  <2>2. AboutToAttach'
    BY <1>18 DEF Segment!DistoryCall, SegTypes, AboutToAttach
  <2>3. InitHasTheKey'
    BY <1>18 DEF Segment!DistoryCall, SegTypes, InitHasTheKey
  <2>4. SeekersHaveNone'
    BY <1>18 DEF Segment!DistoryCall, SegTypes, SeekersHaveNone, Segment!PayloadHasHead
  <2>5. Segment!AttachedIsCurrent'
    BY <1>18 DEF Segment!DistoryCall, SegTypes, Segment!AttachedIsCurrent, AboutToAttach, InitHasTheKey
  <2>6. Segment!PayloadHasHead'
    BY <1>18 DEF Segment!DistoryCall, SegTypes, Segment!PayloadHasHead, SeekersHaveNone
  <2>7. Segment!ConnectTrueMeansAttached'
    BY <1>18 DEF Segment!DistoryCall, SegTypes, Segment!ConnectTrueMeansAttached, AboutToAttach
  <2> QED BY <2>1, <2>2, <2>3, <2>4, <2>5, <2>6, <2>7 DEF SegInv
<1>19. ASSUME Segment!DistorySeparate PROVE SegInv'
  <2>1. SegTypes'
    BY <1>19 DEF Segment!DistorySeparate, SegTypes, SegPlaces, SegResults
  <2>2. AboutToAttach'
    BY <1>19 DEF Segment!DistorySeparate, SegTypes, AboutToAttach
  <2>3. InitHasTheKey'
    BY <1>19 DEF Segment!DistorySeparate, SegTypes, InitHasTheKey
  <2>4. SeekersHaveNone'
    BY <1>19 DEF Segment!DistorySeparate, SegTypes, SeekersHaveNone, Segment!PayloadHasHead
  <2>5. Segment!AttachedIsCurrent'
    BY <1>19 DEF Segment!DistorySeparate, SegTypes, Segment!AttachedIsCurrent, AboutToAttach, InitHasTheKey
  <2>6. Segment!PayloadHasHead'
    BY <1>19 DEF Segment!DistorySeparate, SegTypes, Segment!PayloadHasHead, SeekersHaveNone
  <2>7. Segment!ConnectTrueMeansAttached'
    BY <1>19 DEF Segment!DistorySeparate, SegTypes, Segment!ConnectTrueMeansAttached, AboutToAttach
  <2> QED BY <2>1, <2>2, <2>3, <2>4, <2>5, <2>6, <2>7 DEF SegInv
<1>20. ASSUME Segment!DistoryRemove PROVE SegInv'
  <2>1. SegTypes'
    BY <1>20 DEF Segment!DistoryRemove, Segment!Remove, Segment!Attached, SegTypes, SegPlaces, SegResults
  <2>2. AboutToAttach'
    BY <1>20 DEF Segment!DistoryRemove, Segment!Remove, Segment!Attached, SegTypes, AboutToAttach
  <2>3. InitHasTheKey'
    BY <1>20 DEF Segment!DistoryRemove, Segment!Remove, Segment!Attached, SegTypes, InitHasTheKey
  <2>4. SeekersHaveNone'
    BY <1>20 DEF Segment!DistoryRemove, Segment!Remove, Segment!Attached, SegTypes, SeekersHaveNone, Segment!PayloadHasHead
  <2>5. Segment!AttachedIsCurrent'
    BY <1>20 DEF Segment!DistoryRemove, Segment!Remove, Segment!Attached, SegTypes, Segment!AttachedIsCurrent, AboutToAttach, InitHasTheKey
  <2>6. Segment!PayloadHasHead'
    BY <1>20 DEF Segment!DistoryRemove, Segment!Remove, Segment!Attached, SegTypes, Segment!PayloadHasHead, SeekersHaveNone
  <2>7. Segment!ConnectTrueMeansAttached'
    BY <1>20 DEF Segment!DistoryRemove, Segment!Remove, Segment!Attached, SegTypes, Segment!ConnectTrueMeansAttached, AboutToAttach
  <2> QED BY <2>1, <2>2, <2>3, <2>4, <2>5, <2>6, <2>7 DEF SegInv
<1> QED
  BY <1>1, <1>2, <1>3, <1>4, <1>5, <1>6, <1>7, <1>8, <1>9, <1>10, <1>11, <1>12, <1>13, <1>14, <1>15, <1>16, <1>17, <1>18, <1>19, <1>20
  DEF Segment!Next, Segment!Initialise, Segment!Connect, Segment!Distory
-----------------------------------------------------------------------------
(* The firmware update *)

\* The record's fields, the flash, and its records.
OtaPlaces == {"idle", "end", "commit", "swap"}
OtaRecord == [pc : OtaPlaces, s_size : Nat, s_addr : Nat, trusted : BOOLEAN]
OtaFields == ota \in OtaRecord /\ ota.s_size < MaxSize
OtaBanks == /\ bank \in Ota!Banks
            /\ image \in [Ota!Banks -> [1 .. MaxSize -> Nat]]
            /\ sealed \in [Ota!Banks -> [update : Nat, size : Nat]]
            /\ \A b \in Ota!Banks : sealed[b].size < MaxSize
            /\ updates \in Nat
OtaRecords == stored \in [Ota!Banks -> Ota!Statuses \cup {NONE, TORN}]
OtaTypes == OtaFields /\ OtaBanks /\ OtaRecords

\* What is being saved is the record of the call at work, and the firmware that
\* is about to boot is complete.
OtaSaves ==
  /\ ota.pc \in {"idle", "swap"} => saving = <<>>
  /\ ota.pc = "commit" => saving = <<bank, "committed">> /\ ota.s_size = 0
  /\ ota.pc = "end" => saving = <<Ota!Other(bank), "first boot">>
  /\ ota.pc \in {"end", "swap"} =>
       Ota!Intact(Ota!Other(bank)) /\ sealed[Ota!Other(bank)].size > 0

\* No firmware on trial is updated: the other bank may have to boot again.
OtaTrial == /\ ota.s_size # 0 => stored[bank] # "first boot"
            /\ ota.trusted => stored[bank] # "first boot"

OtaInv == /\ OtaTypes /\ OtaSaves /\ OtaTrial
          /\ Ota!BootsIntact /\ sealed[bank].size > 0
          /\ Ota!RollbackIsPossible

\* The bank that does not run is the other one.
LEMMA TwoBanks ==
  ASSUME OtaTypes
  PROVE  /\ Ota!Other(bank) \in Ota!Banks /\ Ota!Other(bank) # bank
         /\ Ota!Other(Ota!Other(bank)) = bank
         /\ \A b \in Ota!Banks : b = bank \/ b = Ota!Other(bank)
BY DEF OtaTypes, OtaBanks, Ota!Banks, Ota!Other

LEMMA OtaFieldsSet ==
  ASSUME ota \in OtaRecord
  PROVE  /\ \A n \in Nat : /\ [ota EXCEPT !.s_size = n, !.s_addr = 0] \in OtaRecord
                          /\ [ota EXCEPT !.s_size = n, !.s_addr = 0].s_size = n
         /\ \A p \in OtaPlaces : /\ [ota EXCEPT !.pc = p, !.s_size = 0] \in OtaRecord
                                /\ [ota EXCEPT !.pc = p, !.s_size = 0].s_size = 0
<1> USE DEF OtaRecord
<1>1. ASSUME NEW n \in Nat
      PROVE  /\ [ota EXCEPT !.s_size = n, !.s_addr = 0] \in OtaRecord
             /\ [ota EXCEPT !.s_size = n, !.s_addr = 0].s_size = n
  OBVIOUS
<1>2. ASSUME NEW p \in OtaPlaces
      PROVE  /\ [ota EXCEPT !.pc = p, !.s_size = 0] \in OtaRecord
             /\ [ota EXCEPT !.pc = p, !.s_size = 0].s_size = 0
  OBVIOUS
<1> QED BY <1>1, <1>2

LEMMA OtaInitially == Ota!MgOtaAssumption /\ Ota!Init => OtaInv
<1> SUFFICES ASSUME Ota!MgOtaAssumption, Ota!Init PROVE OtaInv
  OBVIOUS
<1> USE DEF Ota!MgOtaAssumption, Ota!Init, Ota!Store!Init, Ota!Banks, Ota!Booted, OtaPlaces, OtaRecord
<1>1. OtaTypes
  BY DEF OtaTypes, OtaFields, OtaBanks, OtaRecords, Ota!Statuses, Ota!Bad
<1>2. OtaSaves /\ OtaTrial /\ Ota!RollbackIsPossible
  BY DEF OtaSaves, OtaTrial, Ota!RollbackIsPossible, Ota!Status
<1>3. Ota!BootsIntact /\ sealed[bank].size > 0
  BY DEF Ota!BootsIntact, Ota!Intact
<1> QED BY <1>1, <1>2, <1>3 DEF OtaInv

LEMMA OtaStep ==
  ASSUME Ota!MgOtaAssumption, OtaInv, Ota!Next
  PROVE  OtaInv'
<1> OtaTypes /\ OtaSaves /\ OtaTrial /\ Ota!BootsIntact /\ sealed[bank].size > 0
      /\ Ota!RollbackIsPossible
  BY DEF OtaInv
<1> USE DEF Ota!MgOtaAssumption, Ota!Banks, Ota!Other, Ota!history, OtaPlaces, OtaRecord
<1>1. ASSUME NEW n \in 1 .. MaxSize, Ota!mg_ota_begin(n) PROVE OtaInv'
  <2>1. /\ ota' = [ota EXCEPT !.s_size = n, !.s_addr = 0] /\ n < MaxSize
        /\ updates' = updates + 1
        /\ UNCHANGED <<bank, image, stored, saving, sealed>>
    BY <1>1 DEF Ota!mg_ota_begin
  <2>2. ota.pc = "idle" /\ (ota.trusted \/ Ota!Status \notin {"first boot", TORN})
    BY <1>1 DEF Ota!mg_ota_begin
  <2>3. OtaTypes'
    <3>1. OtaFields'
      <4> HIDE DEF OtaRecord, OtaPlaces, Ota!Banks
      <4>1. ota \in OtaRecord /\ n \in Nat
        BY DEF OtaTypes, OtaFields
      <4> QED BY <2>1, <4>1, OtaFieldsSet DEF OtaFields
    <3>2. OtaBanks' /\ OtaRecords'
      BY <2>1 DEF OtaTypes, OtaBanks, OtaRecords
    <3> QED BY <3>1, <3>2 DEF OtaTypes
  <2>4. OtaSaves'
    BY <2>1, <2>2 DEF OtaTypes, OtaFields, OtaSaves, Ota!Intact
  <2>5. OtaTrial'
    BY <2>1, <2>2 DEF OtaTypes, OtaFields, OtaTrial, Ota!Status
  <2>6. Ota!BootsIntact' /\ (sealed[bank].size > 0)' /\ Ota!RollbackIsPossible'
    BY <2>1 DEF OtaTypes, OtaFields, Ota!BootsIntact, Ota!Intact, Ota!RollbackIsPossible, Ota!Status
  <2> QED BY <2>3, <2>4, <2>5, <2>6 DEF OtaInv
<1>2. ASSUME Ota!mg_ota_write PROVE OtaInv'
  <2>1. /\ ota.pc = "idle" /\ ota.s_size # 0
        /\ ota' = [ota EXCEPT !.s_addr = @ + 1]
        /\ UNCHANGED <<bank, saving, sealed, updates>>
    BY <1>2 DEF Ota!mg_ota_write
  <2>2. /\ image' \in [Ota!Banks -> [1 .. MaxSize -> Nat]]
        /\ image'[bank] = image[bank]
    <3>1. CASE ota.s_addr < MaxSize
      <4>1. PICK chunk \in {updates, Ota!Bad} :
              image' = [image EXCEPT ![Ota!Other(bank)][ota.s_addr + 1] = chunk]
        BY <1>2, <3>1 DEF Ota!mg_ota_write
      <4>2. chunk \in Nat
        BY DEF OtaTypes, OtaBanks, Ota!Bad
      <4>3. Ota!Other(bank) \in Ota!Banks /\ Ota!Other(bank) # bank
        BY TwoBanks
      <4> HIDE DEF Ota!Other, Ota!Banks
      <4>4. image \in [Ota!Banks -> [1 .. MaxSize -> Nat]]
        BY DEF OtaTypes, OtaBanks
      <4>5. [image[Ota!Other(bank)] EXCEPT ![ota.s_addr + 1] = chunk] \in [1 .. MaxSize -> Nat]
        BY <4>2, <4>3, <4>4
      <4>6. image' = [image EXCEPT ![Ota!Other(bank)] =
                       [image[Ota!Other(bank)] EXCEPT ![ota.s_addr + 1] = chunk]]
        BY <4>1
      <4> QED BY <4>3, <4>4, <4>5, <4>6
    <3>2. CASE ~(ota.s_addr < MaxSize)
      BY <1>2, <3>2 DEF Ota!mg_ota_write, OtaTypes, OtaBanks
    <3> QED BY <3>1, <3>2
  <2>3. stored' = stored \/ stored' = [k \in Ota!Banks |-> IF bank = 1 THEN NONE ELSE stored[k]]
    BY <1>2 DEF Ota!mg_ota_write
  <2>4. OtaTypes'
    <3>1. OtaFields'
      BY <2>1 DEF OtaTypes, OtaFields
    <3>2. OtaBanks'
      BY <2>1, <2>2 DEF OtaTypes, OtaBanks
    <3>3. OtaRecords'
      BY <2>3 DEF OtaTypes, OtaRecords
    <3> QED BY <3>1, <3>2, <3>3 DEF OtaTypes
  <2>5. OtaSaves'
    BY <2>1 DEF OtaTypes, OtaFields, OtaSaves
  <2>6. OtaTrial'
    BY <2>1, <2>3 DEF OtaTypes, OtaFields, OtaBanks, OtaTrial
  <2>7. Ota!BootsIntact' /\ (sealed[bank].size > 0)'
    BY <2>1, <2>2 DEF Ota!BootsIntact, Ota!Intact
  <2>8. Ota!RollbackIsPossible'
    BY <2>1, <2>6 DEF OtaTypes, OtaFields, OtaTrial, Ota!RollbackIsPossible, Ota!Status
  <2> QED BY <2>4, <2>5, <2>6, <2>7, <2>8 DEF OtaInv
<1>3. ASSUME Ota!mg_ota_end PROVE OtaInv'
  <2>1. /\ ota.pc = "idle" /\ ota.s_size # 0 /\ saving = <<>>
        /\ UNCHANGED <<bank, image, updates, stored>>
    BY <1>3 DEF Ota!mg_ota_end, Ota!Store!Begin, OtaSaves
  <2>2. CASE Ota!Checks
    <3>1. /\ \A i \in 1 .. ota.s_size : image[Ota!Other(bank)][i] = updates
          /\ saving' = <<Ota!Other(bank), "first boot">>
          /\ ota' = [ota EXCEPT !.pc = "end"]
          /\ sealed' = [sealed EXCEPT ![Ota!Other(bank)] =
                          [update |-> updates, size |-> ota.s_size]]
      BY <1>3, <2>2 DEF Ota!mg_ota_end, Ota!Checks, Ota!Store!Begin
    <3>2. OtaFields'
      BY <3>1 DEF OtaTypes, OtaFields
    <3>3. OtaBanks' /\ sealed'[bank] = sealed[bank]
          /\ sealed'[Ota!Other(bank)] = [update |-> updates, size |-> ota.s_size]
      <4>1. Ota!Other(bank) \in Ota!Banks /\ Ota!Other(bank) # bank
        BY TwoBanks
      <4>2. ota.s_size \in Nat /\ ota.s_size < MaxSize
        BY DEF OtaTypes, OtaFields
      <4> HIDE DEF Ota!Other, Ota!Banks, OtaRecord, OtaPlaces
      <4> QED BY <2>1, <3>1, <4>1, <4>2 DEF OtaTypes, OtaBanks
    <3>4. OtaRecords'
      BY <2>1 DEF OtaTypes, OtaRecords
    <3>5. Ota!Intact(Ota!Other(bank))' /\ (sealed[Ota!Other(bank)].size > 0)'
      <4>1. ota.s_size \in Nat /\ ota.s_size > 0
        BY <2>1 DEF OtaTypes, OtaFields
      <4>2. sealed'[Ota!Other(bank)].size = ota.s_size /\ sealed'[Ota!Other(bank)].update = updates
        BY <3>3
      <4> HIDE DEF Ota!Other, Ota!Banks, OtaRecord, OtaPlaces
      <4> QED BY <2>1, <3>1, <4>1, <4>2 DEF Ota!Intact
    <3>6. OtaSaves'
      BY <2>1, <3>1, <3>5 DEF OtaTypes, OtaFields, OtaSaves
    <3>7. OtaTrial'
      BY <2>1, <3>1 DEF OtaTypes, OtaFields, OtaTrial
    <3>8. Ota!BootsIntact' /\ (sealed[bank].size > 0)'
      BY <2>1, <3>3 DEF Ota!BootsIntact, Ota!Intact
    <3>9. Ota!RollbackIsPossible'
      BY <2>1, <3>5 DEF Ota!RollbackIsPossible
    <3> QED BY <3>2, <3>3, <3>4, <3>6, <3>7, <3>8, <3>9 DEF OtaInv, OtaTypes
  <2>3. CASE ~Ota!Checks
    <3>1. /\ ota' = [ota EXCEPT !.s_size = 0]
          /\ UNCHANGED <<saving, sealed>>
      BY <1>3, <2>3 DEF Ota!mg_ota_end
    <3>2. OtaFields'
      BY <3>1 DEF OtaTypes, OtaFields
    <3>3. OtaBanks' /\ OtaRecords'
      BY <2>1, <3>1 DEF OtaTypes, OtaBanks, OtaRecords
    <3>4. OtaSaves' /\ OtaTrial'
      BY <2>1, <3>1 DEF OtaTypes, OtaFields, OtaSaves, OtaTrial
    <3>5. Ota!BootsIntact' /\ (sealed[bank].size > 0)' /\ Ota!RollbackIsPossible'
      BY <2>1, <3>1 DEF OtaTypes, OtaFields, Ota!BootsIntact, Ota!Intact, Ota!RollbackIsPossible,
                        Ota!Status
    <3> QED BY <3>2, <3>3, <3>4, <3>5 DEF OtaInv, OtaTypes
  <2> QED BY <2>2, <2>3
<1>4. ASSUME Ota!mg_ota_commit PROVE OtaInv'
  <2>1. OtaTypes'
    <3>1. OtaFields'
      BY <1>4 DEF Ota!mg_ota_commit, Ota!Store!Begin, OtaTypes, OtaFields
    <3>2. OtaBanks'
      BY <1>4 DEF Ota!mg_ota_commit, Ota!Store!Begin, OtaTypes, OtaBanks
    <3>3. OtaRecords'
      BY <1>4 DEF Ota!mg_ota_commit, Ota!Store!Begin, OtaTypes, OtaBanks, OtaRecords, OtaSaves, OtaFields, Ota!Statuses
    <3> QED BY <3>1, <3>2, <3>3 DEF OtaTypes
  <2>2. OtaSaves'
    BY <1>4 DEF Ota!mg_ota_commit, Ota!Store!Begin, OtaTypes, OtaFields, OtaBanks, OtaSaves, Ota!Intact,
                   Ota!RollbackIsPossible, Ota!Status
  <2>3. OtaTrial'
    BY <1>4 DEF Ota!mg_ota_commit, Ota!Store!Begin, OtaTypes, OtaFields, OtaBanks, OtaRecords, OtaSaves, OtaTrial, Ota!Status
  <2>4. Ota!BootsIntact' /\ (sealed[bank].size > 0)'
    BY <1>4 DEF Ota!mg_ota_commit, Ota!Store!Begin, OtaTypes, OtaFields, OtaBanks, OtaSaves, Ota!BootsIntact, Ota!Intact
  <2>5. Ota!RollbackIsPossible'
    BY <1>4 DEF Ota!mg_ota_commit, Ota!Store!Begin, OtaTypes, OtaFields, OtaBanks, OtaRecords, OtaSaves, OtaTrial,
                   Ota!BootsIntact, Ota!Intact, Ota!RollbackIsPossible, Ota!Status
  <2> QED BY <2>1, <2>2, <2>3, <2>4, <2>5 DEF OtaInv
<1>5. ASSUME Ota!mg_ota_rollback PROVE OtaInv'
  <2>1. OtaTypes'
    <3>1. OtaFields'
      BY <1>5 DEF Ota!mg_ota_rollback, Ota!Status, OtaTypes, OtaFields
    <3>2. OtaBanks'
      BY <1>5 DEF Ota!mg_ota_rollback, Ota!Status, OtaTypes, OtaBanks
    <3>3. OtaRecords'
      BY <1>5 DEF Ota!mg_ota_rollback, Ota!Status, OtaTypes, OtaBanks, OtaRecords, OtaSaves, OtaFields, Ota!Statuses
    <3> QED BY <3>1, <3>2, <3>3 DEF OtaTypes
  <2>2. OtaSaves'
    BY <1>5 DEF Ota!mg_ota_rollback, Ota!Status, OtaTypes, OtaFields, OtaBanks, OtaSaves, Ota!Intact,
                   Ota!RollbackIsPossible
  <2>3. OtaTrial'
    BY <1>5 DEF Ota!mg_ota_rollback, Ota!Status, OtaTypes, OtaFields, OtaBanks, OtaRecords, OtaSaves, OtaTrial
  <2>4. Ota!BootsIntact' /\ (sealed[bank].size > 0)'
    BY <1>5 DEF Ota!mg_ota_rollback, Ota!Status, OtaTypes, OtaFields, OtaBanks, OtaSaves, Ota!BootsIntact, Ota!Intact
  <2>5. Ota!RollbackIsPossible'
    BY <1>5 DEF Ota!mg_ota_rollback, Ota!Status, OtaTypes, OtaFields, OtaBanks, OtaRecords, OtaSaves, OtaTrial,
                   Ota!BootsIntact, Ota!Intact, Ota!RollbackIsPossible
  <2> QED BY <2>1, <2>2, <2>3, <2>4, <2>5 DEF OtaInv
<1>6. ASSUME Ota!Saved PROVE OtaInv'
  <2>1. /\ ota.pc \in {"end", "commit"}
        /\ saving' = <<>>
        /\ stored' = [stored EXCEPT ![saving[1]] = saving[2]]
        /\ UNCHANGED <<bank, image, sealed, updates>>
    BY <1>6 DEF Ota!Saved, Ota!Store!Save, OtaSaves, OtaTypes, OtaFields
  <2>2. OtaBanks'
    BY <2>1 DEF OtaTypes, OtaBanks
  <2>3. Ota!BootsIntact' /\ (sealed[bank].size > 0)'
    BY <2>1 DEF Ota!BootsIntact, Ota!Intact
  <2>4. CASE ota.pc = "end"
    <3>1. ota' = [ota EXCEPT !.pc = "swap", !.s_size = 0]
      BY <1>6, <2>4 DEF Ota!Saved
    <3>2. OtaFields'
      <4> HIDE DEF OtaRecord, Ota!Banks
      <4>1. ota \in OtaRecord /\ "swap" \in OtaPlaces /\ 0 < MaxSize
        BY DEF OtaTypes, OtaFields
      <4> HIDE DEF OtaPlaces
      <4> QED BY <3>1, <4>1, OtaFieldsSet DEF OtaFields
    <3>3. stored' = [stored EXCEPT ![Ota!Other(bank)] = "first boot"]
      <4>1. saving = <<Ota!Other(bank), "first boot">>
        BY <2>4 DEF OtaSaves
      <4>2. saving[1] = Ota!Other(bank) /\ saving[2] = "first boot"
        BY <4>1
      <4> QED BY <2>1, <4>2
    <3>4. OtaRecords' /\ stored'[bank] = stored[bank]
      <4>1. Ota!Other(bank) \in Ota!Banks /\ Ota!Other(bank) # bank
        BY TwoBanks
      <4> HIDE DEF Ota!Other
      <4> QED BY <3>3, <4>1 DEF OtaTypes, OtaBanks, OtaRecords, Ota!Statuses
    <3>5. OtaSaves' /\ OtaTrial'
      BY <2>1, <2>4, <3>1, <3>4 DEF OtaTypes, OtaFields, OtaSaves, OtaTrial, Ota!Intact
    <3>6. Ota!RollbackIsPossible'
      BY <2>1, <2>4 DEF OtaSaves, Ota!Intact, Ota!RollbackIsPossible
    <3> QED BY <2>2, <2>3, <3>2, <3>4, <3>5, <3>6 DEF OtaInv, OtaTypes
  <2>5. CASE ota.pc = "commit"
    <3>1. ota' = [ota EXCEPT !.pc = "idle", !.trusted = TRUE] /\ ota.s_size = 0
      BY <1>6, <2>5 DEF Ota!Saved, OtaSaves
    <3>2. OtaFields'
      BY <3>1 DEF OtaTypes, OtaFields
    <3>3. stored' = [stored EXCEPT ![bank] = "committed"]
      <4>1. saving = <<bank, "committed">>
        BY <2>5 DEF OtaSaves
      <4>2. saving[1] = bank /\ saving[2] = "committed"
        BY <4>1
      <4> QED BY <2>1, <4>2
    <3>4. OtaRecords' /\ stored'[bank] = "committed"
      BY <3>3 DEF OtaTypes, OtaBanks, OtaRecords, Ota!Statuses
    <3>5. OtaSaves' /\ OtaTrial'
      BY <2>1, <2>5, <3>1, <3>4 DEF OtaTypes, OtaFields, OtaSaves, OtaTrial, Ota!Intact
    <3>6. Ota!RollbackIsPossible'
      BY <2>1, <3>4 DEF Ota!RollbackIsPossible, Ota!Status
    <3> QED BY <2>2, <2>3, <3>2, <3>4, <3>5, <3>6 DEF OtaInv, OtaTypes
  <2> QED BY <2>1, <2>4, <2>5
<1>7. ASSUME Ota!NotSaved PROVE OtaInv'
  <2>1. OtaTypes'
    <3>1. OtaFields'
      <4> HIDE DEF OtaRecord, Ota!Banks
      <4>1. ota \in OtaRecord /\ "idle" \in OtaPlaces /\ 0 < MaxSize
        BY DEF OtaTypes, OtaFields
      <4>2. ota' = [ota EXCEPT !.pc = "idle", !.s_size = 0]
        BY <1>7 DEF Ota!NotSaved
      <4> HIDE DEF OtaPlaces
      <4> QED BY <4>1, <4>2, OtaFieldsSet DEF OtaFields
    <3>2. OtaBanks'
      BY <1>7 DEF Ota!NotSaved, Ota!Store!Refuse, OtaTypes, OtaBanks
    <3>3. OtaRecords'
      BY <1>7 DEF Ota!NotSaved, Ota!Store!Refuse, OtaTypes, OtaBanks, OtaRecords, OtaSaves, OtaFields, Ota!Statuses
    <3> QED BY <3>1, <3>2, <3>3 DEF OtaTypes
  <2>2. OtaSaves'
    BY <1>7 DEF Ota!NotSaved, Ota!Store!Refuse, OtaTypes, OtaFields, OtaBanks, OtaSaves, Ota!Intact,
                   Ota!RollbackIsPossible, Ota!Status
  <2>3. OtaTrial'
    BY <1>7 DEF Ota!NotSaved, Ota!Store!Refuse, OtaTypes, OtaFields, OtaBanks, OtaRecords, OtaSaves, OtaTrial, Ota!Status
  <2>4. Ota!BootsIntact' /\ (sealed[bank].size > 0)'
    BY <1>7 DEF Ota!NotSaved, Ota!Store!Refuse, OtaTypes, OtaFields, OtaBanks, OtaSaves, Ota!BootsIntact, Ota!Intact
  <2>5. Ota!RollbackIsPossible'
    BY <1>7 DEF Ota!NotSaved, Ota!Store!Refuse, OtaTypes, OtaFields, OtaBanks, OtaRecords, OtaSaves, OtaTrial,
                   Ota!BootsIntact, Ota!Intact, Ota!RollbackIsPossible, Ota!Status
  <2> QED BY <2>1, <2>2, <2>3, <2>4, <2>5 DEF OtaInv
<1>8. ASSUME Ota!mg_flash_swap_bank PROVE OtaInv'
  <2>1. OtaTypes'
    <3>1. OtaFields'
      BY <1>8 DEF Ota!mg_flash_swap_bank, Ota!Booted, OtaTypes, OtaFields
    <3>2. OtaBanks'
      BY SMTT(30), <1>8 DEF Ota!mg_flash_swap_bank, Ota!Booted, OtaTypes, OtaBanks
    <3>3. OtaRecords'
      BY <1>8 DEF Ota!mg_flash_swap_bank, Ota!Booted, OtaTypes, OtaBanks, OtaRecords, OtaSaves, OtaFields, Ota!Statuses
    <3> QED BY <3>1, <3>2, <3>3 DEF OtaTypes
  <2>2. OtaSaves'
    BY <1>8 DEF Ota!mg_flash_swap_bank, Ota!Booted, OtaTypes, OtaFields, OtaBanks, OtaSaves, Ota!Intact,
                   Ota!RollbackIsPossible, Ota!Status
  <2>3. OtaTrial'
    BY <1>8 DEF Ota!mg_flash_swap_bank, Ota!Booted, OtaTypes, OtaFields, OtaBanks, OtaRecords, OtaSaves, OtaTrial, Ota!Status
  <2>4. Ota!BootsIntact' /\ (sealed[bank].size > 0)'
    BY <1>8 DEF Ota!mg_flash_swap_bank, Ota!Booted, OtaTypes, OtaFields, OtaBanks, OtaSaves, Ota!BootsIntact, Ota!Intact
  <2>5. Ota!RollbackIsPossible'
    <3>1. bank' = Ota!Other(bank) /\ UNCHANGED <<image, sealed>>
      BY <1>8 DEF Ota!mg_flash_swap_bank
    <3>2. Ota!Other(bank') = bank
      BY <3>1 DEF OtaTypes, OtaBanks
    <3> QED BY <3>1, <3>2 DEF Ota!BootsIntact, Ota!Intact, Ota!RollbackIsPossible
  <2> QED BY <2>1, <2>2, <2>3, <2>4, <2>5 DEF OtaInv
<1>9. ASSUME Ota!PowerLoss PROVE OtaInv'
  <2>1. OtaTypes'
    <3>1. OtaFields'
      BY <1>9 DEF Ota!PowerLoss, Ota!Booted, Ota!Store!PowerLoss,
                   Ota!Store!Interrupt, Ota!Store!Wipe, OtaTypes, OtaFields
    <3>2. OtaBanks'
      BY <1>9 DEF Ota!PowerLoss, Ota!Booted, Ota!Store!PowerLoss,
                   Ota!Store!Interrupt, Ota!Store!Wipe, OtaTypes, OtaBanks
    <3>3. OtaRecords'
      BY <1>9 DEF Ota!PowerLoss, Ota!Booted, Ota!Store!PowerLoss,
                   Ota!Store!Interrupt, Ota!Store!Wipe, OtaTypes, OtaBanks, OtaRecords, OtaSaves, OtaFields, Ota!Statuses
    <3> QED BY <3>1, <3>2, <3>3 DEF OtaTypes
  <2>2. OtaSaves'
    BY <1>9 DEF Ota!PowerLoss, Ota!Booted, Ota!Store!PowerLoss,
                   Ota!Store!Interrupt, Ota!Store!Wipe, OtaTypes, OtaFields, OtaBanks, OtaSaves, Ota!Intact,
                   Ota!RollbackIsPossible, Ota!Status
  <2>3. OtaTrial'
    BY <1>9 DEF Ota!PowerLoss, Ota!Booted, Ota!Store!PowerLoss,
                   Ota!Store!Interrupt, Ota!Store!Wipe, OtaTypes, OtaFields, OtaBanks, OtaRecords, OtaSaves, OtaTrial, Ota!Status
  <2>4. Ota!BootsIntact' /\ (sealed[bank].size > 0)'
    BY <1>9 DEF Ota!PowerLoss, Ota!Booted, Ota!Store!PowerLoss,
                   Ota!Store!Interrupt, Ota!Store!Wipe, OtaTypes, OtaFields, OtaBanks, OtaSaves, Ota!BootsIntact, Ota!Intact
  <2>5. Ota!RollbackIsPossible'
    BY <1>9 DEF Ota!PowerLoss, Ota!Booted, Ota!Store!PowerLoss,
                   Ota!Store!Interrupt, Ota!Store!Wipe, OtaTypes, OtaFields, OtaBanks, OtaRecords, OtaSaves, OtaTrial,
                   Ota!BootsIntact, Ota!Intact, Ota!RollbackIsPossible, Ota!Status
  <2> QED BY <2>1, <2>2, <2>3, <2>4, <2>5 DEF OtaInv
<1> QED
  BY <1>1, <1>2, <1>3, <1>4, <1>5, <1>6, <1>7, <1>8, <1>9 DEF Ota!Next

-----------------------------------------------------------------------------
(* Sums over finite sets: what Gc!Bytes computes.  Induction goes by a     *)
(* smallest counterexample, which a well-founded order has.                *)

First(s) == CHOOSE x \in s : TRUE

\* g[s] is the sum of f over s, for every subset s of S: the sums as the folds
\* of the community modules take them, element after element.
Sums(g, f, S) ==
  g = [s \in SUBSET S |-> IF s = {} THEN 0 ELSE f[First(s)] + g[s \ {First(s)}]]

SumsOf(f, S) == CHOOSE g : Sums(g, f, S)

LEMMA BytesIsSum == \A map : Gc!Bytes(map) = SumsOf(map, DOMAIN map)[DOMAIN map]
BY DEF Gc!Bytes, Gc!MapThenSumSet, Gc!MapThenFoldSet, SumsOf, Sums, First

\* A set of finite sets has one of which it holds no proper subset.
LEMMA Smallest ==
  ASSUME NEW S, IsFiniteSet(S), NEW A \in SUBSET SUBSET S, A # {}
  PROVE  \E T \in A : \A U \in A : U \subseteq T => U = T
<1> DEFINE R == StrictSubsetOrdering(S)
<1>1. IsWellFoundedOn(R, FiniteSubsetsOf(S))
  BY FS_StrictSubsetOrderingWellFounded
<1>2. A \subseteq FiniteSubsetsOf(S)
  BY FS_Subset DEF FiniteSubsetsOf
<1>3. PICK T \in A : \A U \in A : <<U, T>> \notin R
  <2> HIDE DEF R
  <2> QED BY <1>1, <1>2, WFMin
<1> QED BY <1>3 DEF StrictSubsetOrdering

LEMMA SumsAgree ==
  ASSUME NEW S, IsFiniteSet(S), NEW T \in SUBSET S, NEW U \in SUBSET S,
         NEW f, NEW h, \A x \in T \cap U : f[x] = h[x],
         NEW g, Sums(g, f, T), NEW k, Sums(k, h, U)
  PROVE  \A s \in SUBSET (T \cap U) : g[s] = k[s]
<1> DEFINE A == {s \in SUBSET (T \cap U) : g[s] # k[s]}
<1> SUFFICES ASSUME A # {} PROVE FALSE
  OBVIOUS
<1>1. PICK s \in A : \A u \in A : u \subseteq s => u = s
  <2>1. A \in SUBSET SUBSET S
    OBVIOUS
  <2> HIDE DEF A
  <2> QED BY <2>1, Smallest
<1>2. s # {}
  BY DEF Sums
<1>3. First(s) \in s
  BY <1>2 DEF First
<1>4. s \ {First(s)} \notin A
  BY <1>1, <1>3
<1>5. g[s \ {First(s)}] = k[s \ {First(s)}]
  BY <1>4
<1>6. f[First(s)] = h[First(s)]
  BY <1>3
<1>7. g[s] = f[First(s)] + g[s \ {First(s)}]
  BY <1>2 DEF Sums
<1>8. k[s] = h[First(s)] + k[s \ {First(s)}]
  BY <1>2 DEF Sums
<1> QED BY <1>5, <1>6, <1>7, <1>8

LEMMA SumsExist ==
  ASSUME NEW S, IsFiniteSet(S), NEW f
  PROVE  Sums(SumsOf(f, S), f, S)
<1> DEFINE A == {T \in SUBSET S : ~ Sums(SumsOf(f, T), f, T)}
<1> SUFFICES ASSUME A # {} PROVE FALSE
  OBVIOUS
<1>1. PICK T \in A : \A U \in A : U \subseteq T => U = T
  <2> HIDE DEF A
  <2>1. A \in SUBSET SUBSET S
    BY DEF A
  <2> QED BY <2>1, Smallest
<1> DEFINE Val(u) == SumsOf(f, u)[u]
           g == [s \in SUBSET T |-> IF s = {} THEN 0 ELSE f[First(s)] + Val(s \ {First(s)})]
<1>2. \A s \in SUBSET T : s # {} => First(s) \in s
  BY DEF First
<1>3. \A u \in SUBSET T : u # T => Sums(SumsOf(f, u), f, u)
  BY <1>1
<1>4. ASSUME NEW s \in SUBSET T, s # T PROVE g[s] = Val(s)
  <2>1. Sums(SumsOf(f, s), f, s)
    BY <1>3, <1>4
  <2>2. CASE s = {}
    BY <2>1, <2>2 DEF Sums
  <2>3. CASE s # {}
    <3> DEFINE u == s \ {First(s)}
    <3>1. First(s) \in s /\ u \in SUBSET s /\ u # T
      BY <1>2, <2>3
    <3>2. Sums(SumsOf(f, u), f, u)
      BY <1>3, <3>1
    <3>3. SumsOf(f, u)[u] = SumsOf(f, s)[u]
      BY <2>1, <3>1, <3>2, SumsAgree
    <3>4. Val(s) = f[First(s)] + SumsOf(f, s)[u]
      BY <2>1, <2>3 DEF Sums
    <3> QED BY <2>3, <3>3, <3>4
  <2> QED BY <2>2, <2>3
<1>5. Sums(g, f, T)
  <2>1. ASSUME NEW s \in SUBSET T, s # {}
        PROVE  Val(s \ {First(s)}) = g[s \ {First(s)}]
    BY <1>2, <1>4, <2>1
  <2> QED BY <2>1 DEF Sums
<1>6. Sums(SumsOf(f, T), f, T)
  <2> HIDE DEF g
  <2> QED BY <1>5 DEF SumsOf
<1> QED BY <1>1, <1>6
\* It does not matter which element is taken first.
LEMMA SumsSplit ==
  ASSUME NEW S, IsFiniteSet(S), NEW f, \A x \in S : f[x] \in Int,
         NEW g, Sums(g, f, S)
  PROVE  /\ \A T \in SUBSET S : g[T] \in Int
         /\ \A T \in SUBSET S : \A x \in T : g[T] = f[x] + g[T \ {x}]
<1>0. ASSUME NEW T \in SUBSET S, T # {}
      PROVE  First(T) \in T /\ g[T] = f[First(T)] + g[T \ {First(T)}]
  BY <1>0 DEF Sums, First
<1>1. \A T \in SUBSET S : g[T] \in Int
  <2> DEFINE A == {T \in SUBSET S : g[T] \notin Int}
  <2> SUFFICES ASSUME A # {} PROVE FALSE
    OBVIOUS
  <2>1. PICK T \in A : \A U \in A : U \subseteq T => U = T
    <3>1. A \in SUBSET SUBSET S
      OBVIOUS
    <3> HIDE DEF A
    <3> QED BY <3>1, Smallest
  <2>2. T # {}
    BY DEF Sums
  <2>3. g[T \ {First(T)}] \in Int
    BY <1>0, <2>1, <2>2
  <2> QED BY <1>0, <2>2, <2>3
<1>2. \A T \in SUBSET S : \A x \in T : g[T] = f[x] + g[T \ {x}]
  <2> DEFINE A == {T \in SUBSET S : \E x \in T : g[T] # f[x] + g[T \ {x}]}
  <2> SUFFICES ASSUME A # {} PROVE FALSE
    OBVIOUS
  <2>1. PICK T \in A : \A U \in A : U \subseteq T => U = T
    <3>1. A \in SUBSET SUBSET S
      OBVIOUS
    <3> HIDE DEF A
    <3> QED BY <3>1, Smallest
  <2>2. PICK x \in T : g[T] # f[x] + g[T \ {x}]
    OBVIOUS
  <2> DEFINE y == First(T)
  <2>3. y \in T /\ g[T] = f[y] + g[T \ {y}]
    BY <1>0, <2>2
  <2> HIDE DEF y
  <2>4. x # y
    BY <2>2, <2>3
  <2>5. g[T \ {y}] = f[x] + g[(T \ {y}) \ {x}]
    BY <2>1, <2>3, <2>4
  <2>6. g[T \ {x}] = f[y] + g[(T \ {x}) \ {y}]
    BY <2>1, <2>3, <2>4
  <2>7. (T \ {y}) \ {x} = (T \ {x}) \ {y}
    OBVIOUS
  <2>8. f[x] \in Int /\ f[y] \in Int
    BY <2>3
  <2>9. PICK n \in Int : n = g[(T \ {x}) \ {y}]
    BY <1>1
  <2>10. g[T] = f[y] + (f[x] + n) /\ f[x] + g[T \ {x}] = f[x] + (f[y] + n)
    BY <2>3, <2>5, <2>6, <2>7, <2>9
  <2> QED BY <2>2, <2>8, <2>10
<1> QED BY <1>1, <1>2

\* A sum of naturals is one.
LEMMA SumsNatural ==
  ASSUME NEW S, IsFiniteSet(S), NEW f, \A x \in S : f[x] \in Nat, NEW g, Sums(g, f, S)
  PROVE  g[S] \in Nat
<1> DEFINE A == {T \in SUBSET S : g[T] \notin Nat}
<1> SUFFICES ASSUME A # {} PROVE FALSE
  OBVIOUS
<1>1. PICK T \in A : \A U \in A : U \subseteq T => U = T
  <2>1. A \in SUBSET SUBSET S
    OBVIOUS
  <2> HIDE DEF A
  <2> QED
    BY <2>1, Smallest
<1>2. T # {}
  BY DEF Sums
<1>3. First(T) \in T /\ g[T] = f[First(T)] + g[T \ {First(T)}]
  BY <1>2 DEF Sums, First
<1>4. g[T \ {First(T)}] \in Nat
  BY <1>1, <1>3
<1> QED
  BY <1>3, <1>4

\* The bytes of a map: nothing, one address more, and one less.
LEMMA BytesAdd ==
  ASSUME NEW map, IsFiniteSet(DOMAIN map), \A a \in DOMAIN map : map[a] \in Int
  PROVE  /\ Gc!Bytes(map) \in Int
         /\ DOMAIN map = {} => Gc!Bytes(map) = 0
         /\ \A other, a : /\ a \in DOMAIN map /\ DOMAIN other = DOMAIN map \ {a}
                          /\ \A b \in DOMAIN other : other[b] = map[b]
                          => Gc!Bytes(map) = Gc!Bytes(other) + map[a]
<1> DEFINE D == DOMAIN map
           g == SumsOf(map, D)
<1>1. Sums(g, map, D)
  BY SumsExist
<1>2. Gc!Bytes(map) = g[D]
  BY BytesIsSum
<1> HIDE DEF g
<1>3. /\ \A T \in SUBSET D : g[T] \in Int
      /\ \A T \in SUBSET D : \A a \in T : g[T] = map[a] + g[T \ {a}]
  <2> HIDE DEF D
  <2>1. IsFiniteSet(D) /\ \A a \in D : map[a] \in Int
    BY DEF D
  <2> QED BY <1>1, <2>1, SumsSplit
<1>4. D = {} => g[D] = 0
  BY <1>1 DEF Sums
<1>5. ASSUME NEW other, NEW a \in D, DOMAIN other = D \ {a},
             \A b \in DOMAIN other : other[b] = map[b]
      PROVE  Gc!Bytes(map) = Gc!Bytes(other) + map[a]
  <2> DEFINE U == DOMAIN other
             k == SumsOf(other, U)
  <2>1. IsFiniteSet(U) /\ U \in SUBSET D
    BY <1>5, FS_Subset
  <2>2. Sums(k, other, U)
    BY <2>1, SumsExist
  <2>3. Gc!Bytes(other) = k[U]
    BY BytesIsSum
  <2> HIDE DEF k
  <2>4. g[U] = k[U]
    <3>1. \A x \in D \cap U : map[x] = other[x]
      BY <1>5
    <3>2. IsFiniteSet(D) /\ D \in SUBSET D
      OBVIOUS
    <3>3. \A s \in SUBSET (D \cap U) : g[s] = k[s]
      <4> HIDE DEF D, U
      <4> QED BY <1>1, <2>1, <2>2, <3>1, <3>2, SumsAgree
    <3> QED BY <2>1, <3>3
  <2>5. g[D] = map[a] + g[U]
    BY <1>3, <1>5
  <2>6. k[U] \in Int /\ map[a] \in Int
    BY <1>3, <2>1, <2>4
  <2> HIDE DEF D, U
  <2> QED BY <1>2, <2>3, <2>4, <2>5, <2>6
<1> QED BY <1>2, <1>3, <1>4, <1>5
-----------------------------------------------------------------------------
(* The memory tracker *)

GcPlaces == {"idle", "m_wait", "m_alloc", "m_insert", "m_post",
             "f_wait", "f_find", "f_insert", "f_log", "f_post"}

GcMaps == /\ IsFiniteSet(DOMAIN heap) /\ DOMAIN heap \subseteq Blocks
          /\ \A a \in DOMAIN heap : heap[a] \in Nat
          /\ DOMAIN total \subseteq Gc!Addrs
          /\ \A a \in DOMAIN total : total[a] \in Nat
GcCalls == /\ place \in [Threads -> GcPlaces]
           /\ ptr \in [Threads -> Gc!Addrs]
           /\ size \in [Threads -> Nat]
           /\ blocks \subseteq Blocks
           /\ logs \in [Gc!Addrs -> {"none", "leak", "double"}]
           /\ misuses \in Nat /\ sem_mutex \in Nat
           /\ totalMallocSize \in Int /\ totalFreeSize \in Int
GcTypes == GcMaps /\ GcCalls

\* The report comes when everybody is done.
GcQuiet == report # NULL => \A t \in Threads : place[t] = "idle"

\* The block that a malloc_gc is about to enter into the map.
GcInserts == \A t \in Threads :
  place[t] = "m_insert" => ptr[t] = NULL \/ (ptr[t] \in DOMAIN heap /\ heap[ptr[t]] = size[t])

\* Every block of the C library is in the map, but for that one.
GcTracked == "total" \in Mode /\ report = NULL =>
  \A a \in DOMAIN heap : a \in DOMAIN total
                           \/ \E t \in Threads : place[t] = "m_insert" /\ ptr[t] = a

\* Who may lead the tracker to free a block: the calls, the program, which may
\* free what it holds, and the entries of the map for blocks that do not exist.
GcItems == {<<"call", t, ptr[t]>> : t \in {u \in Threads :
              place[u] \in {"m_insert", "m_post", "f_wait", "f_find", "f_insert"}
                /\ ptr[u] \in Blocks}}
             \cup {<<"held", a, a>> : a \in blocks}
             \cup {<<"ghost", a, a>> : a \in (DOMAIN total \cap Blocks) \ DOMAIN heap}

\* No two of them are about the same block, and the blocks exist.
Good(S, D) == /\ \A i \in S : i[3] \in D
              /\ \A i, j \in S : i[3] = j[3] => i = j

\* What is good of S, and what is but for one item, is so of T.
AsGood(S, D, T, E) == /\ Good(S, D) => Good(T, E)
                      /\ (\E x : Good(S \ {x}, D)) => \E x : Good(T \ {x}, E)

SameBlock(i, j) == i[3] = j[3]

\* That is so as long as the program frees only what it holds, and when it has
\* once freed something else there is one exception.
GcClaims == /\ misuses = 0 => Good(GcItems, DOMAIN heap)
            /\ misuses = 1 => \E x : Good(GcItems \ {x}, DOMAIN heap)

\* As long as the program frees only what it holds: one thread at most is inside,
\* and the block of a free_gc that has forgotten it is nobody else's.
GcExclusive == misuses = 0 =>
  \/ sem_mutex = 1 /\ \A t \in Threads : t \notin Gc!Inside
  \/ sem_mutex = 0 /\ \E t \in Threads : \A u \in Threads : u \in Gc!Inside <=> u = t
GcFrees == misuses = 0 => \A t \in Threads :
  /\ place[t] \in {"f_wait", "f_find", "f_log"} => ptr[t] \in Blocks
  /\ place[t] # "f_insert"
  /\ place[t] = "f_log" =>
       /\ ptr[t] \notin blocks
       /\ \A u \in Threads : place[u] \in {"m_insert", "m_post", "f_wait", "f_find", "f_log"}
                               /\ ptr[u] = ptr[t] => u = t

Clean == misuses = 0 /\ ~failed

GcAllocs == Clean => \A t \in Threads : place[t] \in {"m_insert", "m_post"} => ptr[t] \in Blocks

\* There is a file for each block that the program or a call has.
Owned == blocks \cup {ptr[t] : t \in {u \in Threads :
           place[u] \in {"m_insert", "m_post", "f_wait", "f_find", "f_log"}}}
GcFiles == Clean /\ "single" \in Mode =>
  \A a \in Gc!Addrs : logs[a] = IF a \in Owned THEN "leak" ELSE "none"

\* The map is the C library's, and the two sums differ by what it holds.
GcAccounts == Clean /\ "total" \in Mode /\ report = NULL =>
  /\ \A a \in DOMAIN total : a \in DOMAIN heap /\ total[a] = heap[a]
  /\ totalMallocSize - totalFreeSize = Gc!Bytes(heap)

GcInv == /\ GcTypes /\ GcQuiet /\ GcInserts /\ GcTracked /\ GcClaims
         /\ GcExclusive /\ GcFrees /\ GcAllocs /\ GcFiles /\ GcAccounts
         /\ Gc!ReportNamesLeaks /\ Gc!SecondFreeIsCaught

LEMMA GcCounts == \A S : /\ Gc!IsFiniteSet(S) <=> IsFiniteSet(S)
                        /\ Gc!Cardinality(S) = Cardinality(S)
<1>1. \A S : Gc!IsFiniteSet(S) <=> IsFiniteSet(S)
  BY DEF Gc!IsFiniteSet, IsFiniteSet
<1>2. \A S : Gc!Cardinality(S) = Cardinality(S)
  BY DEF Gc!Cardinality, Cardinality
<1> QED BY <1>1, <1>2

\* Two threads that are inside are one.
LEMMA GcAlone ==
  ASSUME Gc!MemGcAssumption, ~Gc!Overlap, NEW t \in Gc!Inside, NEW u \in Gc!Inside
  PROVE  t = u
<1> SUFFICES ASSUME t # u PROVE FALSE
  OBVIOUS
<1>1. IsFiniteSet(Gc!Inside) /\ Cardinality(Gc!Inside) \in Nat
  <2>1. Gc!Inside \subseteq Threads /\ IsFiniteSet(Threads)
    BY GcCounts DEF Gc!Inside, Gc!MemGcAssumption
  <2> QED BY <2>1, FS_Subset, FS_CardinalityType
<1>2. Cardinality({t, u}) = 2
  <2>1. IsFiniteSet({t}) /\ Cardinality({t}) = 1
    BY FS_Singleton
  <2>2. Cardinality({t} \cup {u}) = 2
    BY <2>1, FS_AddElement
  <2>3. {t, u} = {t} \cup {u}
    OBVIOUS
  <2> QED BY <2>2, <2>3
<1>3. Cardinality({t, u}) <= Cardinality(Gc!Inside)
  <2>1. {t, u} \subseteq Gc!Inside
    OBVIOUS
  <2> QED BY <1>1, <2>1, FS_Subset
<1> QED BY <1>1, <1>2, <1>3, GcCounts DEF Gc!Overlap

\* Good sets of items: a smaller one, one with an item more, one with an item
\* in the place of another about the same block, one with a new block, and one
\* that loses a block and an item about it.
LEMMA GoodSmaller ==
  ASSUME NEW S, NEW T \in SUBSET S, NEW D
  PROVE  AsGood(S, D, T, D)
<1>1. \A x : Good(S \ {x}, D) => Good(T \ {x}, D)
  BY DEF Good
<1> QED BY <1>1 DEF Good, AsGood

LEMMA GoodLarger ==
  ASSUME NEW S, NEW j, NEW T, T \subseteq S \cup {j}, NEW D, Good(S, D)
  PROVE  \E x : Good(T \ {x}, D)
<1>1. Good(T \ {j}, D)
  BY DEF Good
<1> QED BY <1>1

LEMMA GoodReplaced ==
  ASSUME NEW S, NEW i \in S, NEW j, SameBlock(i, j), NEW T, T \subseteq (S \ {i}) \cup {j}, NEW D
  PROVE  AsGood(S, D, T, D)
<1>1. Good(S, D) => Good(T, D)
  BY DEF Good, SameBlock
<1>2. ASSUME NEW x, Good(S \ {x}, D) PROVE \E y : Good(T \ {y}, D)
  <2>1. CASE x = i
    <3>1. Good(T \ {j}, D)
      BY <1>2, <2>1 DEF Good, SameBlock
    <3> QED BY <3>1
  <2>2. CASE x # i
    <3>1. Good(T \ {x}, D)
      BY <1>2, <2>2 DEF Good, SameBlock
    <3> QED BY <3>1
  <2> QED BY <2>1, <2>2
<1> QED BY <1>1, <1>2 DEF AsGood

LEMMA GoodFresh ==
  ASSUME NEW S, NEW D, NEW j, j[3] \notin D, NEW T, T \subseteq S \cup {j}
  PROVE  AsGood(S, D, T, D \cup {j[3]})
<1>1. Good(S, D) => Good(T, D \cup {j[3]})
  BY DEF Good
<1>2. ASSUME NEW x, Good(S \ {x}, D) PROVE Good(T \ {x}, D \cup {j[3]})
  BY <1>2 DEF Good
<1> QED BY <1>1, <1>2 DEF AsGood

LEMMA GoodFreed ==
  ASSUME NEW S, NEW D, NEW i \in S, NEW T, T \subseteq S \ {i}
  PROVE  AsGood(S, D, T, D \ {i[3]})
<1>1. Good(S, D) => Good(T, D \ {i[3]})
  BY DEF Good
<1>2. ASSUME NEW x, Good(S \ {x}, D) PROVE \E y : Good(T \ {y}, D \ {i[3]})
  <2>1. CASE x # i
    <3>1. Good(T \ {x}, D \ {i[3]})
      BY <1>2, <2>1 DEF Good
    <3> QED BY <3>1
  <2>2. CASE x = i
    <3>1. CASE \E j \in S \ {x} : j[3] = i[3]
      <4>1. PICK j \in S \ {x} : j[3] = i[3]
        BY <3>1
      <4>2. Good(T \ {j}, D \ {i[3]})
        BY <1>2, <2>2, <4>1 DEF Good
      <4> QED BY <4>2
    <3>2. CASE ~ \E j \in S \ {x} : j[3] = i[3]
      <4>1. Good(T \ {x}, D \ {i[3]})
        BY <1>2, <2>2, <3>2 DEF Good
      <4> QED BY <4>1
    <3> QED BY <3>1, <3>2
  <2> QED BY <2>1, <2>2
<1> QED BY <1>1, <1>2 DEF AsGood

LEMMA GcStep ==
  ASSUME Gc!MemGcAssumption, GcInv, Gc!Next
  PROVE  GcInv'
<1> /\ GcMaps /\ GcCalls /\ GcQuiet /\ GcInserts /\ GcTracked /\ GcClaims
    /\ GcExclusive /\ GcFrees /\ GcAllocs /\ GcFiles /\ GcAccounts
    /\ Gc!ReportNamesLeaks /\ Gc!SecondFreeIsCaught
  BY DEF GcInv, GcTypes
<1>1. ASSUME NEW t \in Threads, Gc!MallocCall(t) PROVE GcInv'
  <2>1. /\ ~Gc!Overlap /\ place[t] = "idle" /\ place' = [place EXCEPT ![t] = "m_wait"]
        /\ report = NULL
        /\ size' \in [Threads -> Nat]
        /\ \A u \in Threads \ {t} : size'[u] = size[u]
        /\ UNCHANGED <<Mode, sem_mutex, total, totalMallocSize, totalFreeSize, logs, heap, blocks, ptr, report, misuses, failed, freedTwice>>
    BY <1>1 DEF Gc!MallocCall, Gc!Goto, Gc!accounts, Gc!history, Gc!MemGcAssumption, GcCalls
  <2>3. GcMaps'
    BY <2>1 DEF GcMaps, GcCalls, Gc!Insert, Gc!Addrs
  <2>4. GcCalls'
    BY <2>1 DEF GcCalls, GcPlaces, Gc!Addrs
  <2>5. GcQuiet'
    BY <2>1 DEF GcQuiet, GcCalls
  <2>6. GcInserts'
    BY <2>1 DEF GcInserts, GcCalls
  <2>7. GcTracked'
    BY <2>1 DEF GcTracked, GcQuiet, GcCalls, Gc!Insert
  <2>8. GcClaims'
    <3>1. GcItems' \subseteq GcItems
      BY <2>1 DEF GcItems, GcCalls
    <3> QED BY <2>1, <3>1, GoodSmaller DEF GcClaims, AsGood
  <2>9. GcExclusive'
    BY <2>1 DEF GcExclusive, GcCalls, Gc!Inside
  <2>10. GcFrees'
    BY <2>1 DEF GcFrees, GcCalls
  <2>11. GcAllocs'
    BY <2>1 DEF GcAllocs, Clean, GcCalls
  <2>12. GcFiles'
    BY <2>1 DEF GcFiles, Clean, Owned, GcCalls
  <2>13. GcAccounts'
    BY <2>1 DEF GcAccounts, Clean, GcQuiet, GcCalls
  <2>14. Gc!ReportNamesLeaks'
    BY <2>1 DEF Gc!ReportNamesLeaks
  <2>15. Gc!SecondFreeIsCaught'
    BY <2>1 DEF Gc!SecondFreeIsCaught
  <2> QED BY <2>3, <2>4, <2>5, <2>6, <2>7, <2>8, <2>9, <2>10, <2>11, <2>12, <2>13, <2>14, <2>15 DEF GcInv, GcTypes
<1>2. ASSUME NEW t \in Threads, Gc!MallocWait(t) PROVE GcInv'
  <2>1. /\ ~Gc!Overlap /\ place[t] = "m_wait" /\ place' = [place EXCEPT ![t] = "m_alloc"]
        /\ sem_mutex > 0
        /\ sem_mutex' = sem_mutex - 1
        /\ UNCHANGED <<Mode, total, totalMallocSize, totalFreeSize, logs, heap, blocks, ptr, size, report, misuses, failed, freedTwice>>
    BY <1>2 DEF Gc!MallocWait, Gc!Goto, Gc!accounts, Gc!history, Gc!Wait
  <2>3. GcMaps'
    BY <2>1 DEF GcMaps, GcCalls, Gc!Insert, Gc!Addrs
  <2>4. GcCalls'
    BY <2>1 DEF GcCalls, GcPlaces, Gc!Addrs
  <2>5. GcQuiet'
    BY <2>1 DEF GcQuiet, GcCalls
  <2>6. GcInserts'
    BY <2>1 DEF GcInserts, GcCalls
  <2>7. GcTracked'
    BY <2>1 DEF GcTracked, GcQuiet, GcCalls, Gc!Insert
  <2>8. GcClaims'
    <3>1. GcItems' \subseteq GcItems
      BY <2>1 DEF GcItems, GcCalls
    <3> QED BY <2>1, <3>1, GoodSmaller DEF GcClaims, AsGood
  <2>9. GcExclusive'
    BY <2>1 DEF GcExclusive, GcCalls, Gc!Inside
  <2>10. GcFrees'
    BY <2>1 DEF GcFrees, GcCalls
  <2>11. GcAllocs'
    BY <2>1 DEF GcAllocs, Clean, GcCalls
  <2>12. GcFiles'
    BY <2>1 DEF GcFiles, Clean, Owned, GcCalls
  <2>13. GcAccounts'
    BY <2>1 DEF GcAccounts, Clean, GcQuiet, GcCalls
  <2>14. Gc!ReportNamesLeaks'
    BY <2>1 DEF Gc!ReportNamesLeaks
  <2>15. Gc!SecondFreeIsCaught'
    BY <2>1 DEF Gc!SecondFreeIsCaught
  <2> QED BY <2>3, <2>4, <2>5, <2>6, <2>7, <2>8, <2>9, <2>10, <2>11, <2>12, <2>13, <2>14, <2>15 DEF GcInv, GcTypes
<1>3. ASSUME NEW t \in Threads, Gc!MallocAlloc(t) PROVE GcInv'
  <2>1. ~Gc!Overlap /\ place[t] = "m_alloc" /\ place' = [place EXCEPT ![t] = "m_insert"]
    BY <1>3 DEF Gc!MallocAlloc, Gc!Goto
  <2>16. PICK p \in Gc!Addrs \ DOMAIN heap :
           /\ ptr' = [ptr EXCEPT ![t] = p]
           /\ heap' = IF p = NULL THEN heap ELSE Gc!Insert(heap, p, size[t])
           /\ failed' = (failed \/ p = NULL)
           /\ logs' = IF "single" \in Mode THEN [logs EXCEPT ![p] = "leak"] ELSE logs
    BY <1>3 DEF Gc!MallocAlloc
  <2>17. /\ totalMallocSize' = IF "total" \in Mode THEN totalMallocSize + size[t]
                               ELSE totalMallocSize
         /\ UNCHANGED <<Mode, sem_mutex, total, totalFreeSize, blocks, size, report, misuses,
                        freedTwice>>
    BY <1>3 DEF Gc!MallocAlloc
  <2>18. ~failed' => ~failed /\ p # NULL
    BY <2>16, Zenon
  <2>2. t \in Gc!Inside /\ \A u \in Gc!Inside : u = t
    <3>1. t \in Gc!Inside
      BY <2>1 DEF Gc!Inside
    <3> QED BY <2>1, <3>1, GcAlone
  <2>3. GcMaps'
    <3>1. DOMAIN heap' = IF p = NULL THEN DOMAIN heap ELSE DOMAIN heap \cup {p}
      BY <2>16 DEF Gc!Insert
    <3>2. IsFiniteSet(DOMAIN heap')
      BY <3>1, FS_AddElement DEF GcMaps
    <3>3. \A a \in DOMAIN heap' : heap'[a] \in Nat
      BY <2>16 DEF GcMaps, GcCalls, Gc!Insert
    <3>4. DOMAIN heap' \subseteq Blocks
      BY <2>16, <3>1 DEF GcMaps, Gc!Addrs
    <3> QED BY <2>17, <3>2, <3>3, <3>4 DEF GcMaps
  <2>4. GcCalls'
    BY <2>1, <2>16, <2>17, <2>2 DEF GcCalls, GcPlaces, Gc!Addrs
  <2>5. GcQuiet'
    BY <2>1, <2>16, <2>17, <2>2 DEF GcQuiet, GcCalls
  <2>6. GcInserts'
    <3>1. ptr'[t] = NULL \/ (ptr'[t] \in DOMAIN heap' /\ heap'[ptr'[t]] = size'[t])
      BY <2>16, <2>17 DEF GcCalls, Gc!Insert
    <3>2. \A u \in Threads : place'[u] = "m_insert" => u = t
      BY <2>1, <2>2 DEF GcCalls, Gc!Inside
    <3> QED BY <3>1, <3>2 DEF GcInserts
  <2>7. GcTracked'
    BY <2>1, <2>16, <2>17, <2>2 DEF GcTracked, GcQuiet, GcCalls, Gc!Insert
  <2>8. GcClaims'
    <3> DEFINE j == <<"call", t, p>>
    <3>1. CASE p = NULL
      <4>1. GcItems' \subseteq GcItems /\ heap' = heap
        BY <3>1, <2>1, <2>16, <2>17, <2>2 DEF GcItems, GcCalls, Gc!MemGcAssumption
      <4> QED BY <2>17, <4>1, GoodSmaller DEF GcClaims, AsGood
    <3>2. CASE p # NULL
      <4>1. GcItems' \subseteq GcItems \cup {j}
        BY <3>2, <2>1, <2>16, <2>17, <2>2 DEF GcItems, GcCalls, Gc!Insert
      <4>2. DOMAIN heap' = DOMAIN heap \cup {j[3]} /\ j[3] \notin DOMAIN heap
        BY <3>2, <2>16 DEF Gc!Insert
      <4> HIDE DEF j
      <4>5. AsGood(GcItems, DOMAIN heap, GcItems', DOMAIN heap \cup {j[3]})
        BY <4>1, <4>2, GoodFresh
      <4> QED BY <4>5, <2>17, <4>2 DEF GcClaims, AsGood
    <3> QED BY <3>1, <3>2
  <2>9. GcExclusive'
    BY <2>1, <2>16, <2>17, <2>2 DEF GcExclusive, GcCalls, Gc!Inside
  <2>10. GcFrees'
    <3>1. \A u \in Threads : place'[u] # "f_log" /\ place'[u] # "f_insert"
      BY <2>1, <2>2 DEF GcCalls, Gc!Inside
    <3>2. \A u \in Threads : place'[u] \in {"f_wait", "f_find"} => place[u] = place'[u] /\ ptr'[u] = ptr[u]
      BY <2>1, <2>16 DEF GcCalls
    <3> QED BY <2>17, <3>1, <3>2 DEF GcFrees
  <2>11. GcAllocs'
    <3>1. Clean' => Clean /\ p # NULL
      BY <2>17, <2>18 DEF Clean
    <3> QED BY <2>1, <2>16, <3>1 DEF GcAllocs, GcCalls, Gc!Addrs
  <2>12. GcFiles'
    <3>1. Clean' => Clean /\ p # NULL
      BY <2>17, <2>18 DEF Clean
    <3>2. Owned' = Owned \cup {p}
      BY <2>1, <2>16, <2>17, <2>2 DEF Owned, GcCalls
    <3>3. "single" \in Mode => logs' = [logs EXCEPT ![p] = "leak"]
      BY <2>16
    <3> QED BY <2>17, <3>1, <3>2, <3>3 DEF GcFiles, GcCalls
  <2>13. GcAccounts'
    <3> SUFFICES ASSUME Clean', "total" \in Mode, report = NULL
                 PROVE  /\ \A a \in DOMAIN total : a \in DOMAIN heap' /\ total[a] = heap'[a]
                        /\ totalMallocSize' - totalFreeSize = Gc!Bytes(heap')
      BY <2>17 DEF GcAccounts
    <3>1. Clean /\ p # NULL
      BY <2>17, <2>18 DEF Clean
    <3>2. /\ \A a \in DOMAIN total : a \in DOMAIN heap /\ total[a] = heap[a]
          /\ totalMallocSize - totalFreeSize = Gc!Bytes(heap)
      BY <3>1 DEF GcAccounts
    <3>3. /\ DOMAIN heap = DOMAIN heap' \ {p} /\ p \in DOMAIN heap'
          /\ \A a \in DOMAIN heap : heap[a] = heap'[a]
          /\ heap'[p] = size[t]
      BY <2>16, <3>1 DEF Gc!Insert
    <3>4. Gc!Bytes(heap') = Gc!Bytes(heap) + size[t] /\ Gc!Bytes(heap) \in Int
      <4>1. IsFiniteSet(DOMAIN heap') /\ \A a \in DOMAIN heap' : heap'[a] \in Int
        BY <2>3 DEF GcMaps
      <4>2. IsFiniteSet(DOMAIN heap) /\ \A a \in DOMAIN heap : heap[a] \in Int
        BY DEF GcMaps
      <4>3. Gc!Bytes(heap) \in Int
        BY <4>2, BytesAdd
      <4>4. Gc!Bytes(heap') = Gc!Bytes(heap) + heap'[p]
        BY <3>3, <4>1, BytesAdd
      <4> QED BY <3>3, <4>3, <4>4
    <3>5. totalMallocSize' = totalMallocSize + size[t] /\ size[t] \in Int
      BY <2>17 DEF GcCalls
    <3>6. totalMallocSize \in Int /\ totalFreeSize \in Int
      BY DEF GcCalls
    <3> QED BY <3>2, <3>3, <3>4, <3>5, <3>6
  <2>14. Gc!ReportNamesLeaks'
    <3>1. report = NULL
      BY <2>1 DEF GcQuiet
    <3> QED BY <2>17, <3>1 DEF Gc!ReportNamesLeaks
  <2>15. Gc!SecondFreeIsCaught'
    BY <2>1, <2>16, <2>17, <2>2 DEF Gc!SecondFreeIsCaught
  <2> QED BY <2>3, <2>4, <2>5, <2>6, <2>7, <2>8, <2>9, <2>10, <2>11, <2>12, <2>13, <2>14, <2>15 DEF GcInv, GcTypes
<1>4. ASSUME NEW t \in Threads, Gc!MallocInsert(t) PROVE GcInv'
  <2>1. /\ ~Gc!Overlap /\ place[t] = "m_insert" /\ place' = [place EXCEPT ![t] = "m_post"]
        /\ total' = IF "total" \in Mode THEN Gc!Insert(total, ptr[t], size[t]) ELSE total
        /\ UNCHANGED <<Mode, sem_mutex, totalMallocSize, totalFreeSize, logs, heap, blocks, ptr, size, report, misuses, failed, freedTwice>>
    BY <1>4 DEF Gc!MallocInsert, Gc!Goto, Gc!accounts, Gc!history
  <2>2. t \in Gc!Inside /\ \A u \in Gc!Inside : u = t
    <3>1. t \in Gc!Inside
      BY <2>1 DEF Gc!Inside
    <3> QED BY <2>1, <3>1, GcAlone
  <2>3. GcMaps'
    BY <2>1, <2>2 DEF GcMaps, GcCalls, Gc!Insert, Gc!Addrs
  <2>4. GcCalls'
    BY <2>1, <2>2 DEF GcCalls, GcPlaces, Gc!Addrs
  <2>5. GcQuiet'
    BY <2>1, <2>2 DEF GcQuiet, GcCalls
  <2>6. GcInserts'
    BY <2>1, <2>2 DEF GcInserts, GcCalls
  <2>7. GcTracked'
    BY <2>1, <2>2 DEF GcTracked, GcQuiet, GcCalls, Gc!Insert
  <2>8. GcClaims'
    <3>1. ptr[t] \in DOMAIN heap \/ ptr[t] \notin Blocks
      BY <2>1 DEF GcInserts, Gc!MemGcAssumption
    <3>2. GcItems' \subseteq GcItems
      BY <3>1, <2>1, <2>2 DEF GcItems, GcCalls, Gc!Insert
    <3> QED BY <2>1, <3>2, GoodSmaller DEF GcClaims, AsGood
  <2>9. GcExclusive'
    BY <2>1, <2>2 DEF GcExclusive, GcCalls, Gc!Inside
  <2>10. GcFrees'
    BY <2>1, <2>2 DEF GcFrees, GcCalls
  <2>11. GcAllocs'
    BY <2>1, <2>2 DEF GcAllocs, Clean, GcCalls
  <2>12. GcFiles'
    BY <2>1, <2>2 DEF GcFiles, Clean, Owned, GcCalls
  <2>13. GcAccounts'
    <3> SUFFICES ASSUME Clean, "total" \in Mode, report = NULL
                 PROVE  \A a \in DOMAIN total' : a \in DOMAIN heap /\ total'[a] = heap[a]
      BY <2>1 DEF GcAccounts, Clean
    <3>1. \A a \in DOMAIN total : a \in DOMAIN heap /\ total[a] = heap[a]
      BY DEF GcAccounts
    <3>2. ptr[t] \in DOMAIN heap /\ heap[ptr[t]] = size[t]
      BY <2>1 DEF GcAllocs, GcInserts, Gc!MemGcAssumption
    <3> QED BY <2>1, <3>1, <3>2 DEF Gc!Insert
  <2>14. Gc!ReportNamesLeaks'
    BY <2>1, <2>2 DEF Gc!ReportNamesLeaks
  <2>15. Gc!SecondFreeIsCaught'
    BY <2>1, <2>2 DEF Gc!SecondFreeIsCaught
  <2> QED BY <2>3, <2>4, <2>5, <2>6, <2>7, <2>8, <2>9, <2>10, <2>11, <2>12, <2>13, <2>14, <2>15 DEF GcInv, GcTypes
<1>5. ASSUME NEW t \in Threads, Gc!MallocPost(t) PROVE GcInv'
  <2>1. /\ ~Gc!Overlap /\ place[t] = "m_post" /\ place' = [place EXCEPT ![t] = "idle"]
        /\ sem_mutex' = sem_mutex + 1
        /\ blocks' = blocks \cup ({ptr[t]} \ {NULL})
        /\ ptr' = [ptr EXCEPT ![t] = NULL]
        /\ size' = [size EXCEPT ![t] = 0]
        /\ UNCHANGED <<Mode, total, totalMallocSize, totalFreeSize, logs, heap, report, misuses, failed, freedTwice>>
    BY <1>5 DEF Gc!MallocPost, Gc!Goto, Gc!accounts, Gc!history
  <2>2. t \in Gc!Inside /\ \A u \in Gc!Inside : u = t
    <3>1. t \in Gc!Inside
      BY <2>1 DEF Gc!Inside
    <3> QED BY <2>1, <3>1, GcAlone
  <2>3. GcMaps'
    BY <2>1, <2>2 DEF GcMaps, GcCalls, Gc!Insert, Gc!Addrs
  <2>4. GcCalls'
    BY <2>1, <2>2 DEF GcCalls, GcPlaces, Gc!Addrs
  <2>5. GcQuiet'
    BY <2>1, <2>2 DEF GcQuiet, GcCalls
  <2>6. GcInserts'
    BY <2>1, <2>2 DEF GcInserts, GcCalls
  <2>7. GcTracked'
    BY <2>1, <2>2 DEF GcTracked, GcQuiet, GcCalls, Gc!Insert
  <2>8. GcClaims'
    <3> DEFINE i == <<"call", t, ptr[t]>>
               j == <<"held", ptr[t], ptr[t]>>
    <3>1. CASE ptr[t] \in Blocks
      <4>1. i \in GcItems
        BY <3>1, <2>1 DEF GcItems
      <4>2. GcItems' \subseteq (GcItems \ {i}) \cup {j}
        BY <3>1, <2>1, <2>2 DEF GcItems, GcCalls, Gc!Insert
      <4>3. SameBlock(i, j)
        BY DEF SameBlock
      <4> HIDE DEF i, j
      <4>5. AsGood(GcItems, DOMAIN heap, GcItems', DOMAIN heap)
        BY <4>1, <4>2, <4>3, GoodReplaced
      <4> QED BY <4>5, <2>1 DEF GcClaims, AsGood
    <3>2. CASE ptr[t] \notin Blocks
      <4>1. GcItems' \subseteq GcItems
        BY <3>2, <2>1, <2>2 DEF GcItems, GcCalls, Gc!Addrs, Gc!Insert
      <4> QED BY <2>1, <4>1, GoodSmaller DEF GcClaims, AsGood
    <3> QED BY <3>1, <3>2
  <2>9. GcExclusive'
    BY <2>1, <2>2 DEF GcExclusive, GcCalls, Gc!Inside
  <2>10. GcFrees'
    BY <2>1, <2>2 DEF GcFrees, GcCalls
  <2>11. GcAllocs'
    BY <2>1, <2>2 DEF GcAllocs, Clean, GcCalls
  <2>12. GcFiles'
    <3>1. Clean => ptr[t] \in Blocks
      BY <2>1 DEF GcAllocs
    <3>2. ptr[t] \in Blocks => Owned' = Owned
      BY <2>1 DEF Owned, GcCalls, Gc!MemGcAssumption
    <3> QED BY <2>1, <3>1, <3>2 DEF GcFiles, Clean
  <2>13. GcAccounts'
    BY <2>1, <2>2 DEF GcAccounts, Clean, GcQuiet, GcCalls
  <2>14. Gc!ReportNamesLeaks'
    BY <2>1, <2>2 DEF Gc!ReportNamesLeaks
  <2>15. Gc!SecondFreeIsCaught'
    BY <2>1, <2>2 DEF Gc!SecondFreeIsCaught
  <2> QED BY <2>3, <2>4, <2>5, <2>6, <2>7, <2>8, <2>9, <2>10, <2>11, <2>12, <2>13, <2>14, <2>15 DEF GcInv, GcTypes
<1>6. ASSUME NEW t \in Threads, Gc!FreeCall(t) PROVE GcInv'
  <2>1. ~Gc!Overlap /\ place[t] = "idle" /\ place' = [place EXCEPT ![t] = "f_wait"]
          /\ report = NULL
    BY <1>6 DEF Gc!FreeCall, Gc!Goto
  <2>16. PICK p \in Gc!Addrs : /\ ptr' = [ptr EXCEPT ![t] = p]
                              /\ blocks' = blocks \ {p}
                              /\ misuses' = IF p \in blocks THEN misuses ELSE misuses + 1
    BY <1>6 DEF Gc!FreeCall
  <2>17. UNCHANGED <<Mode, sem_mutex, total, totalMallocSize, totalFreeSize, logs, heap, size,
                    report, failed, freedTwice>>
    BY <1>6 DEF Gc!FreeCall, Gc!accounts
  <2>18. misuses' = 0 => misuses = 0 /\ p \in blocks
    BY <2>16 DEF GcCalls
  <2>3. GcMaps'
    BY <2>1, <2>16, <2>17, <2>18 DEF GcMaps, GcCalls, Gc!Insert, Gc!Addrs
  <2>4. GcCalls'
    BY <2>1, <2>16, <2>17, <2>18 DEF GcCalls, GcPlaces, Gc!Addrs
  <2>5. GcQuiet'
    BY <2>1, <2>16, <2>17, <2>18 DEF GcQuiet, GcCalls
  <2>6. GcInserts'
    BY <2>1, <2>16, <2>17, <2>18 DEF GcInserts, GcCalls
  <2>7. GcTracked'
    BY <2>1, <2>16, <2>17, <2>18 DEF GcTracked, GcQuiet, GcCalls, Gc!Insert
  <2>8. GcClaims'
    <3> DEFINE i == <<"held", p, p>>
               j == <<"call", t, p>>
    <3>1. CASE p \in blocks
      <4>1. i \in GcItems
        BY <3>1 DEF GcItems
      <4>2. GcItems' \subseteq (GcItems \ {i}) \cup {j}
        BY <3>1, <2>1, <2>16, <2>17 DEF GcItems, GcCalls
      <4>3. SameBlock(i, j)
        BY DEF SameBlock
      <4> HIDE DEF i, j
      <4>5. AsGood(GcItems, DOMAIN heap, GcItems', DOMAIN heap)
        BY <4>1, <4>2, <4>3, GoodReplaced
      <4> QED BY <4>5, <2>16, <2>17, <3>1 DEF GcClaims, AsGood
    <3>2. CASE p \notin blocks
      <4>1. GcItems' \subseteq GcItems \cup {j}
        BY <3>2, <2>1, <2>16, <2>17 DEF GcItems, GcCalls
      <4>2. misuses' # 0 /\ (misuses' = 1 => misuses = 0)
        BY <2>16, <3>2 DEF GcCalls
      <4> HIDE DEF j
      <4> QED BY <2>17, <4>1, <4>2, GoodLarger DEF GcClaims
    <3> QED BY <3>1, <3>2
  <2>9. GcExclusive'
    BY <2>1, <2>16, <2>17, <2>18 DEF GcExclusive, GcCalls, Gc!Inside
  <2>10. GcFrees'
    <3> SUFFICES ASSUME misuses' = 0 PROVE GcFrees'
      BY DEF GcFrees
    <3>1. misuses = 0 /\ p \in blocks
      BY <2>18
    <3> QED BY <2>1, <2>16, <3>1 DEF GcFrees, GcCalls
  <2>11. GcAllocs'
    BY <2>1, <2>16, <2>17, <2>18 DEF GcAllocs, Clean, GcCalls
  <2>12. GcFiles'
    <3>1. Clean' => Clean /\ p \in blocks
      BY <2>17, <2>18 DEF Clean
    <3>2. p \in blocks => Owned' = Owned
      BY <2>1, <2>16 DEF Owned, GcCalls
    <3> QED BY <2>17, <3>1, <3>2 DEF GcFiles
  <2>13. GcAccounts'
    BY <2>1, <2>16, <2>17, <2>18 DEF GcAccounts, Clean, GcQuiet, GcCalls
  <2>14. Gc!ReportNamesLeaks'
    BY <2>1, <2>16, <2>17, <2>18 DEF Gc!ReportNamesLeaks
  <2>15. Gc!SecondFreeIsCaught'
    BY <2>16, <2>17 DEF Gc!SecondFreeIsCaught, GcCalls
  <2> QED BY <2>3, <2>4, <2>5, <2>6, <2>7, <2>8, <2>9, <2>10, <2>11, <2>12, <2>13, <2>14, <2>15 DEF GcInv, GcTypes
<1>7. ASSUME NEW t \in Threads, Gc!FreeWait(t) PROVE GcInv'
  <2>1. /\ ~Gc!Overlap /\ place[t] = "f_wait" /\ place' = [place EXCEPT ![t] = "f_find"]
        /\ sem_mutex > 0
        /\ sem_mutex' = sem_mutex - 1
        /\ UNCHANGED <<Mode, total, totalMallocSize, totalFreeSize, logs, heap, blocks, ptr, size, report, misuses, failed, freedTwice>>
    BY <1>7 DEF Gc!FreeWait, Gc!Goto, Gc!accounts, Gc!history, Gc!Wait
  <2>3. GcMaps'
    BY <2>1 DEF GcMaps, GcCalls, Gc!Insert, Gc!Addrs
  <2>4. GcCalls'
    BY <2>1 DEF GcCalls, GcPlaces, Gc!Addrs
  <2>5. GcQuiet'
    BY <2>1 DEF GcQuiet, GcCalls
  <2>6. GcInserts'
    BY <2>1 DEF GcInserts, GcCalls
  <2>7. GcTracked'
    BY <2>1 DEF GcTracked, GcQuiet, GcCalls, Gc!Insert
  <2>8. GcClaims'
    <3>1. GcItems' \subseteq GcItems
      BY <2>1 DEF GcItems, GcCalls
    <3> QED BY <2>1, <3>1, GoodSmaller DEF GcClaims, AsGood
  <2>9. GcExclusive'
    BY <2>1 DEF GcExclusive, GcCalls, Gc!Inside
  <2>10. GcFrees'
    BY <2>1 DEF GcFrees, GcCalls
  <2>11. GcAllocs'
    BY <2>1 DEF GcAllocs, Clean, GcCalls
  <2>12. GcFiles'
    BY <2>1 DEF GcFiles, Clean, Owned, GcCalls
  <2>13. GcAccounts'
    BY <2>1 DEF GcAccounts, Clean, GcQuiet, GcCalls
  <2>14. Gc!ReportNamesLeaks'
    BY <2>1 DEF Gc!ReportNamesLeaks
  <2>15. Gc!SecondFreeIsCaught'
    BY <2>1 DEF Gc!SecondFreeIsCaught
  <2> QED BY <2>3, <2>4, <2>5, <2>6, <2>7, <2>8, <2>9, <2>10, <2>11, <2>12, <2>13, <2>14, <2>15 DEF GcInv, GcTypes
<1>8. ASSUME NEW t \in Threads, Gc!FreeKnown(t) PROVE GcInv'
  <2>1. /\ ~Gc!Overlap /\ place[t] = "f_find" /\ place' = [place EXCEPT ![t] = "f_log"]
        /\ "total" \in Mode /\ ptr[t] \in DOMAIN total
    BY <1>8 DEF Gc!FreeKnown, Gc!Goto
  <2>16. /\ totalFreeSize' = totalFreeSize + total[ptr[t]]
         /\ total' = Gc!Without(total, ptr[t])
         /\ heap' = Gc!Without(heap, ptr[t])
         /\ UNCHANGED <<Mode, sem_mutex, totalMallocSize, logs, blocks, ptr, size, report,
                        misuses, failed>>
    BY <1>8 DEF Gc!FreeKnown
  <2>17. freedTwice' = (freedTwice \/ ptr[t] \in Blocks \ DOMAIN heap)
    BY <1>8 DEF Gc!FreeKnown
  <2>18. /\ DOMAIN total' = DOMAIN total \ {ptr[t]}
         /\ DOMAIN heap' = DOMAIN heap \ {ptr[t]}
         /\ \A a \in DOMAIN total' : total'[a] = total[a]
         /\ \A a \in DOMAIN heap' : heap'[a] = heap[a]
    BY <2>16 DEF Gc!Without, Gc!Restrict
  <2>2. t \in Gc!Inside /\ \A u \in Gc!Inside : u = t
    <3>1. t \in Gc!Inside
      BY <2>1 DEF Gc!Inside
    <3> QED BY <2>1, <3>1, GcAlone
  <2>3. GcMaps'
    <3>1. IsFiniteSet(DOMAIN heap')
      BY <2>18, FS_RemoveElement DEF GcMaps
    <3> QED BY <2>18, <3>1 DEF GcMaps
  <2>4. GcCalls'
    <3>1. totalFreeSize' \in Int
      BY <2>1, <2>16 DEF GcCalls, GcMaps
    <3> QED BY <2>1, <2>16, <3>1 DEF GcCalls, GcPlaces
  <2>5. GcQuiet'
    BY <2>1, <2>16, <2>18, <2>2 DEF GcQuiet, GcCalls
  <2>6. GcInserts'
    <3>1. \A u \in Threads : place'[u] # "m_insert"
      BY <2>1, <2>2 DEF GcCalls, Gc!Inside
    <3> QED BY <3>1 DEF GcInserts
  <2>7. GcTracked'
    BY <2>1, <2>16, <2>18, <2>2 DEF GcTracked, GcQuiet, GcCalls, Gc!Insert
  <2>8. GcClaims'
    <3> DEFINE i == <<"call", t, ptr[t]>>
    <3>1. CASE ptr[t] \in Blocks
      <4>1. i \in GcItems
        BY <3>1, <2>1 DEF GcItems
      <4>2. GcItems' \subseteq GcItems \ {i}
        BY <3>1, <2>1, <2>16, <2>18 DEF GcItems, GcCalls
      <4>3. DOMAIN heap' = DOMAIN heap \ {i[3]}
        BY <2>18
      <4> HIDE DEF i
      <4>5. AsGood(GcItems, DOMAIN heap, GcItems', DOMAIN heap \ {i[3]})
        BY <4>1, <4>2, GoodFreed
      <4> QED BY <4>5, <2>16, <4>3 DEF GcClaims, AsGood
    <3>2. CASE ptr[t] \notin Blocks
      <4>1. GcItems' \subseteq GcItems
        BY <3>2, <2>1, <2>16, <2>18 DEF GcItems, GcCalls
      <4>2. DOMAIN heap' = DOMAIN heap
        BY <2>18, <3>2 DEF GcMaps
      <4> QED BY <2>16, <4>1, <4>2, GoodSmaller DEF GcClaims, AsGood
    <3> QED BY <3>1, <3>2
  <2>9. GcExclusive'
    BY <2>1, <2>16, <2>18, <2>2 DEF GcExclusive, GcCalls, Gc!Inside
  <2>10. GcFrees'
    <3> SUFFICES ASSUME misuses = 0 PROVE GcFrees'
      BY <2>1, <2>16 DEF GcFrees
    <3>1. ptr[t] \in Blocks
      BY <2>1, <2>2 DEF GcFrees
    <3> DEFINE i == <<"call", t, ptr[t]>>
    <3>2. i \in GcItems /\ Good(GcItems, DOMAIN heap)
      BY <2>1, <3>1 DEF GcItems, GcClaims
    <3>3. ptr[t] \notin blocks
      <4>1. ASSUME ptr[t] \in blocks PROVE FALSE
        <5>1. <<"held", ptr[t], ptr[t]>> \in GcItems
          BY <4>1 DEF GcItems
        <5> QED BY <3>2, <5>1 DEF Good
      <4> QED BY <4>1
    <3>4. \A u \in Threads : place[u] \in {"m_insert", "m_post", "f_wait", "f_find"}
                               /\ ptr[u] = ptr[t] => u = t
      <4>1. ASSUME NEW u \in Threads, place[u] \in {"m_insert", "m_post", "f_wait", "f_find"},
                   ptr[u] = ptr[t]
            PROVE  u = t
        <5>1. <<"call", u, ptr[u]>> \in GcItems
          BY <3>1, <4>1 DEF GcItems
        <5> QED BY <3>2, <4>1, <5>1 DEF Good
      <4> QED BY <4>1
    <3>5. \A u \in Threads : place[u] = "f_log" => u = t
      BY <2>2 DEF Gc!Inside
    <3> QED BY <2>1, <2>16, <3>1, <3>3, <3>4, <3>5 DEF GcFrees, GcCalls
  <2>11. GcAllocs'
    BY <2>1, <2>16, <2>18, <2>2 DEF GcAllocs, Clean, GcCalls
  <2>12. GcFiles'
    BY <2>1, <2>16, <2>18, <2>2 DEF GcFiles, Clean, Owned, GcCalls
  <2>13. GcAccounts'
    <3> SUFFICES ASSUME Clean', "total" \in Mode, report = NULL
                 PROVE  /\ \A a \in DOMAIN total' : a \in DOMAIN heap' /\ total'[a] = heap'[a]
                        /\ totalMallocSize - totalFreeSize' = Gc!Bytes(heap')
      BY <2>16 DEF GcAccounts
    <3>1. Clean
      BY <2>16 DEF Clean
    <3>2. /\ \A a \in DOMAIN total : a \in DOMAIN heap /\ total[a] = heap[a]
          /\ totalMallocSize - totalFreeSize = Gc!Bytes(heap)
      BY <3>1 DEF GcAccounts
    <3>3. Gc!Bytes(heap) = Gc!Bytes(heap') + heap[ptr[t]]
      <4>1. IsFiniteSet(DOMAIN heap) /\ \A a \in DOMAIN heap : heap[a] \in Int
        BY DEF GcMaps
      <4>2. ptr[t] \in DOMAIN heap
        BY <2>1, <3>2
      <4> QED BY <2>18, <4>1, <4>2, BytesAdd
    <3>4. Gc!Bytes(heap') \in Int
      <4>1. IsFiniteSet(DOMAIN heap') /\ \A a \in DOMAIN heap' : heap'[a] \in Int
        BY <2>3 DEF GcMaps
      <4> QED BY <4>1, BytesAdd
    <3>5. totalMallocSize \in Int /\ totalFreeSize \in Int /\ total[ptr[t]] \in Int
      BY <2>1 DEF GcCalls, GcMaps
    <3>6. totalMallocSize - totalFreeSize' = Gc!Bytes(heap')
      BY <2>1, <2>16, <3>2, <3>3, <3>4, <3>5
    <3> QED BY <2>18, <3>2, <3>6
  <2>14. Gc!ReportNamesLeaks'
    <3>1. report = NULL
      BY <2>1 DEF GcQuiet
    <3> QED BY <2>16, <3>1 DEF Gc!ReportNamesLeaks
  <2>15. Gc!SecondFreeIsCaught'
    <3>1. CASE ptr[t] \in Blocks \ DOMAIN heap
      <4> DEFINE i == <<"call", t, ptr[t]>>
                 j == <<"ghost", ptr[t], ptr[t]>>
      <4>1. i \in GcItems /\ j \in GcItems
        BY <2>1, <3>1 DEF GcItems
      <4>2. i # j /\ i[3] \notin DOMAIN heap /\ j[3] \notin DOMAIN heap
        BY <3>1
      <4> HIDE DEF i, j
      <4>3. misuses # 0 /\ misuses # 1
        BY <4>1, <4>2 DEF GcClaims, Good
      <4>4. misuses' >= 2
        BY <2>16, <4>3 DEF GcCalls
      <4> QED BY <4>4 DEF Gc!SecondFreeIsCaught
    <3>2. CASE ptr[t] \notin Blocks \ DOMAIN heap
      <4>1. freedTwice' => freedTwice
        BY <2>17, <3>2, Zenon
      <4> QED BY <2>16, <4>1 DEF Gc!SecondFreeIsCaught
    <3> QED BY <3>1, <3>2
  <2> QED BY <2>3, <2>4, <2>5, <2>6, <2>7, <2>8, <2>9, <2>10, <2>11, <2>12, <2>13, <2>14, <2>15 DEF GcInv, GcTypes
<1>9. ASSUME NEW t \in Threads, Gc!FreeUnknown(t) PROVE GcInv'
  <2>1. /\ ~Gc!Overlap /\ place[t] = "f_find" /\ place' = [place EXCEPT ![t] = "f_insert"]
        /\ "total" \in Mode
        /\ ptr[t] \notin DOMAIN total
        /\ sem_mutex' = sem_mutex + 1
        /\ UNCHANGED <<Mode, total, totalMallocSize, totalFreeSize, logs, heap, blocks, ptr, size, report, misuses, failed, freedTwice>>
    BY <1>9 DEF Gc!FreeUnknown, Gc!Goto, Gc!accounts, Gc!history
  <2>2. t \in Gc!Inside /\ \A u \in Gc!Inside : u = t
    <3>1. t \in Gc!Inside
      BY <2>1 DEF Gc!Inside
    <3> QED BY <2>1, <3>1, GcAlone
  <2>3. GcMaps'
    BY <2>1, <2>2 DEF GcMaps, GcCalls, Gc!Insert, Gc!Addrs
  <2>4. GcCalls'
    BY <2>1, <2>2 DEF GcCalls, GcPlaces, Gc!Addrs
  <2>5. GcQuiet'
    BY <2>1, <2>2 DEF GcQuiet, GcCalls
  <2>6. GcInserts'
    BY <2>1, <2>2 DEF GcInserts, GcCalls
  <2>7. GcTracked'
    BY <2>1, <2>2 DEF GcTracked, GcQuiet, GcCalls, Gc!Insert
  <2>8. GcClaims'
    <3>1. GcItems' \subseteq GcItems
      BY <2>1, <2>2 DEF GcItems, GcCalls
    <3> QED BY <2>1, <2>2, <3>1, GoodSmaller DEF GcClaims, AsGood
  <2>9. GcExclusive'
    <3>1. ASSUME misuses = 0 PROVE FALSE
      <4>1. ptr[t] \in Blocks /\ report = NULL
        BY <2>1, <3>1 DEF GcFrees, GcQuiet
      <4>2. <<"call", t, ptr[t]>> \in GcItems /\ Good(GcItems, DOMAIN heap)
        BY <2>1, <3>1, <4>1 DEF GcItems, GcClaims
      <4>3. ptr[t] \in DOMAIN heap
        BY <4>2 DEF Good
      <4>4. \A u \in Threads : place[u] # "m_insert"
        BY <2>1, <2>2 DEF Gc!Inside
      <4> QED BY <2>1, <4>1, <4>3, <4>4 DEF GcTracked
    <3> QED BY <2>1, <3>1 DEF GcExclusive
  <2>10. GcFrees'
    <3>1. ASSUME misuses = 0 PROVE FALSE
      <4>1. ptr[t] \in Blocks /\ report = NULL
        BY <2>1, <3>1 DEF GcFrees, GcQuiet
      <4>2. <<"call", t, ptr[t]>> \in GcItems /\ Good(GcItems, DOMAIN heap)
        BY <2>1, <3>1, <4>1 DEF GcItems, GcClaims
      <4>3. ptr[t] \in DOMAIN heap
        BY <4>2 DEF Good
      <4>4. \A u \in Threads : place[u] # "m_insert"
        BY <2>1, <2>2 DEF Gc!Inside
      <4> QED BY <2>1, <4>1, <4>3, <4>4 DEF GcTracked
    <3> QED BY <2>1, <3>1 DEF GcFrees
  <2>11. GcAllocs'
    BY <2>1, <2>2 DEF GcAllocs, Clean, GcCalls
  <2>12. GcFiles'
    <3>1. misuses # 0
      BY <2>10, <2>1 DEF GcFrees, GcCalls
    <3> QED BY <2>1, <3>1 DEF GcFiles, Clean
  <2>13. GcAccounts'
    BY <2>1, <2>2 DEF GcAccounts, Clean, GcQuiet, GcCalls
  <2>14. Gc!ReportNamesLeaks'
    BY <2>1, <2>2 DEF Gc!ReportNamesLeaks
  <2>15. Gc!SecondFreeIsCaught'
    BY <2>1, <2>2 DEF Gc!SecondFreeIsCaught
  <2> QED BY <2>3, <2>4, <2>5, <2>6, <2>7, <2>8, <2>9, <2>10, <2>11, <2>12, <2>13, <2>14, <2>15 DEF GcInv, GcTypes
<1>10. ASSUME NEW t \in Threads, Gc!FreeInsert(t) PROVE GcInv'
  <2>1. /\ ~Gc!Overlap /\ place[t] = "f_insert" /\ place' = [place EXCEPT ![t] = "f_log"]
        /\ total' = Gc!Insert(total, ptr[t], 0)
        /\ UNCHANGED <<Mode, sem_mutex, totalMallocSize, totalFreeSize, logs, heap, blocks, ptr, size, report, misuses, failed, freedTwice>>
    BY <1>10 DEF Gc!FreeInsert, Gc!Goto, Gc!accounts, Gc!history
  <2>2. t \in Gc!Inside /\ \A u \in Gc!Inside : u = t
    <3>1. t \in Gc!Inside
      BY <2>1 DEF Gc!Inside
    <3> QED BY <2>1, <3>1, GcAlone
  <2>3. GcMaps'
    BY <2>1, <2>2 DEF GcMaps, GcCalls, Gc!Insert, Gc!Addrs
  <2>4. GcCalls'
    BY <2>1, <2>2 DEF GcCalls, GcPlaces, Gc!Addrs
  <2>5. GcQuiet'
    BY <2>1, <2>2 DEF GcQuiet, GcCalls
  <2>6. GcInserts'
    BY <2>1, <2>2 DEF GcInserts, GcCalls
  <2>7. GcTracked'
    BY <2>1, <2>2 DEF GcTracked, GcQuiet, GcCalls, Gc!Insert
  <2>8. GcClaims'
    <3> DEFINE i == <<"call", t, ptr[t]>>
               j == <<"ghost", ptr[t], ptr[t]>>
    <3>1. CASE ptr[t] \in Blocks
      <4>1. i \in GcItems
        BY <3>1, <2>1 DEF GcItems
      <4>2. GcItems' \subseteq (GcItems \ {i}) \cup {j}
        BY <3>1, <2>1, <2>2 DEF GcItems, GcCalls, Gc!Insert
      <4>3. SameBlock(i, j)
        BY DEF SameBlock
      <4> HIDE DEF i, j
      <4>5. AsGood(GcItems, DOMAIN heap, GcItems', DOMAIN heap)
        BY <4>1, <4>2, <4>3, GoodReplaced
      <4> QED BY <4>5, <2>1 DEF GcClaims, AsGood
    <3>2. CASE ptr[t] \notin Blocks
      <4>1. GcItems' \subseteq GcItems
        BY <3>2, <2>1, <2>2 DEF GcItems, GcCalls, Gc!Addrs, Gc!Insert
      <4> QED BY <2>1, <4>1, GoodSmaller DEF GcClaims, AsGood
    <3> QED BY <3>1, <3>2
  <2>9. GcExclusive'
    BY <2>1, <2>2 DEF GcExclusive, GcCalls, Gc!Inside
  <2>10. GcFrees'
    <3>1. misuses # 0
      BY <2>1 DEF GcFrees
    <3> QED BY <2>1, <3>1 DEF GcFrees
  <2>11. GcAllocs'
    BY <2>1, <2>2 DEF GcAllocs, Clean, GcCalls
  <2>12. GcFiles'
    <3>1. misuses # 0
      BY <2>1 DEF GcFrees
    <3> QED BY <2>1, <3>1 DEF GcFiles, Clean
  <2>13. GcAccounts'
    <3>1. misuses # 0
      BY <2>1 DEF GcFrees
    <3> QED BY <2>1, <3>1 DEF GcAccounts, Clean
  <2>14. Gc!ReportNamesLeaks'
    BY <2>1, <2>2 DEF Gc!ReportNamesLeaks
  <2>15. Gc!SecondFreeIsCaught'
    BY <2>1, <2>2 DEF Gc!SecondFreeIsCaught
  <2> QED BY <2>3, <2>4, <2>5, <2>6, <2>7, <2>8, <2>9, <2>10, <2>11, <2>12, <2>13, <2>14, <2>15 DEF GcInv, GcTypes
<1>11. ASSUME NEW t \in Threads, Gc!FreeUntracked(t) PROVE GcInv'
  <2>1. /\ ~Gc!Overlap /\ place[t] = "f_find" /\ place' = [place EXCEPT ![t] = "f_log"]
        /\ "total" \notin Mode
        /\ UNCHANGED <<Mode, sem_mutex, total, totalMallocSize, totalFreeSize, logs, heap, blocks, ptr, size, report, misuses, failed, freedTwice>>
    BY <1>11 DEF Gc!FreeUntracked, Gc!Goto, Gc!accounts, Gc!history
  <2>2. t \in Gc!Inside /\ \A u \in Gc!Inside : u = t
    <3>1. t \in Gc!Inside
      BY <2>1 DEF Gc!Inside
    <3> QED BY <2>1, <3>1, GcAlone
  <2>3. GcMaps'
    BY <2>1, <2>2 DEF GcMaps, GcCalls, Gc!Insert, Gc!Addrs
  <2>4. GcCalls'
    BY <2>1, <2>2 DEF GcCalls, GcPlaces, Gc!Addrs
  <2>5. GcQuiet'
    BY <2>1, <2>2 DEF GcQuiet, GcCalls
  <2>6. GcInserts'
    BY <2>1, <2>2 DEF GcInserts, GcCalls
  <2>7. GcTracked'
    BY <2>1, <2>2 DEF GcTracked, GcQuiet, GcCalls, Gc!Insert
  <2>8. GcClaims'
    <3>1. GcItems' \subseteq GcItems
      BY <2>1, <2>2 DEF GcItems, GcCalls
    <3> QED BY <2>1, <2>2, <3>1, GoodSmaller DEF GcClaims, AsGood
  <2>9. GcExclusive'
    BY <2>1, <2>2 DEF GcExclusive, GcCalls, Gc!Inside
  <2>10. GcFrees'
    <3> SUFFICES ASSUME misuses = 0 PROVE GcFrees'
      BY <2>1 DEF GcFrees
    <3>1. ptr[t] \in Blocks
      BY <2>1, <2>2 DEF GcFrees
    <3> DEFINE i == <<"call", t, ptr[t]>>
    <3>2. i \in GcItems /\ Good(GcItems, DOMAIN heap)
      BY <2>1, <3>1 DEF GcItems, GcClaims
    <3>3. ptr[t] \notin blocks
      <4>1. ASSUME ptr[t] \in blocks PROVE FALSE
        <5>1. <<"held", ptr[t], ptr[t]>> \in GcItems
          BY <4>1 DEF GcItems
        <5> QED BY <3>2, <5>1 DEF Good
      <4> QED BY <4>1
    <3>4. \A u \in Threads : place[u] \in {"m_insert", "m_post", "f_wait", "f_find"}
                               /\ ptr[u] = ptr[t] => u = t
      <4>1. ASSUME NEW u \in Threads, place[u] \in {"m_insert", "m_post", "f_wait", "f_find"},
                   ptr[u] = ptr[t]
            PROVE  u = t
        <5>1. <<"call", u, ptr[u]>> \in GcItems
          BY <3>1, <4>1 DEF GcItems
        <5> QED BY <3>2, <4>1, <5>1 DEF Good
      <4> QED BY <4>1
    <3>5. \A u \in Threads : place[u] = "f_log" => u = t
      BY <2>2 DEF Gc!Inside
    <3> QED BY <2>1, <3>1, <3>3, <3>4, <3>5 DEF GcFrees, GcCalls
  <2>11. GcAllocs'
    BY <2>1, <2>2 DEF GcAllocs, Clean, GcCalls
  <2>12. GcFiles'
    BY <2>1, <2>2 DEF GcFiles, Clean, Owned, GcCalls
  <2>13. GcAccounts'
    BY <2>1, <2>2 DEF GcAccounts, Clean, GcQuiet, GcCalls
  <2>14. Gc!ReportNamesLeaks'
    BY <2>1, <2>2 DEF Gc!ReportNamesLeaks
  <2>15. Gc!SecondFreeIsCaught'
    BY <2>1, <2>2 DEF Gc!SecondFreeIsCaught
  <2> QED BY <2>3, <2>4, <2>5, <2>6, <2>7, <2>8, <2>9, <2>10, <2>11, <2>12, <2>13, <2>14, <2>15 DEF GcInv, GcTypes
<1>12. ASSUME NEW t \in Threads, Gc!FreeLog(t) PROVE GcInv'
  <2>1. /\ ~Gc!Overlap /\ place[t] = "f_log" /\ place' = [place EXCEPT ![t] = "f_post"]
        /\ logs' = IF "single" \in Mode THEN [logs EXCEPT ![ptr[t]] = IF @ = "none" THEN "double" ELSE "none"] ELSE logs
        /\ UNCHANGED <<Mode, sem_mutex, total, totalMallocSize, totalFreeSize, heap, blocks, ptr, size, report, misuses, failed, freedTwice>>
    BY <1>12 DEF Gc!FreeLog, Gc!Goto, Gc!accounts, Gc!history
  <2>2. t \in Gc!Inside /\ \A u \in Gc!Inside : u = t
    <3>1. t \in Gc!Inside
      BY <2>1 DEF Gc!Inside
    <3> QED BY <2>1, <3>1, GcAlone
  <2>3. GcMaps'
    BY <2>1, <2>2 DEF GcMaps, GcCalls, Gc!Insert, Gc!Addrs
  <2>4. GcCalls'
    BY <2>1, <2>2 DEF GcCalls, GcPlaces, Gc!Addrs
  <2>5. GcQuiet'
    BY <2>1, <2>2 DEF GcQuiet, GcCalls
  <2>6. GcInserts'
    BY <2>1, <2>2 DEF GcInserts, GcCalls
  <2>7. GcTracked'
    BY <2>1, <2>2 DEF GcTracked, GcQuiet, GcCalls, Gc!Insert
  <2>8. GcClaims'
    <3>1. GcItems' \subseteq GcItems
      BY <2>1, <2>2 DEF GcItems, GcCalls
    <3> QED BY <2>1, <2>2, <3>1, GoodSmaller DEF GcClaims, AsGood
  <2>9. GcExclusive'
    BY <2>1, <2>2 DEF GcExclusive, GcCalls, Gc!Inside
  <2>10. GcFrees'
    BY <2>1, <2>2 DEF GcFrees, GcCalls
  <2>11. GcAllocs'
    BY <2>1, <2>2 DEF GcAllocs, Clean, GcCalls
  <2>12. GcFiles'
    <3> SUFFICES ASSUME Clean, "single" \in Mode, NEW a \in Gc!Addrs
                 PROVE  logs'[a] = IF a \in Owned' THEN "leak" ELSE "none"
      BY <2>1 DEF GcFiles, Clean
    <3>1. \A b \in Gc!Addrs : logs[b] = IF b \in Owned THEN "leak" ELSE "none"
      BY DEF GcFiles
    <3>2. Owned' = Owned \ {ptr[t]} /\ ptr[t] \in Owned
      BY <2>1 DEF Owned, GcCalls, GcFrees, Clean
    <3>3. logs' = [logs EXCEPT ![ptr[t]] = "none"]
      BY <2>1, <3>1, <3>2 DEF GcCalls
    <3> QED BY <3>1, <3>2, <3>3 DEF GcCalls
  <2>13. GcAccounts'
    BY <2>1, <2>2 DEF GcAccounts, Clean, GcQuiet, GcCalls
  <2>14. Gc!ReportNamesLeaks'
    BY <2>1, <2>2 DEF Gc!ReportNamesLeaks
  <2>15. Gc!SecondFreeIsCaught'
    BY <2>1, <2>2 DEF Gc!SecondFreeIsCaught
  <2> QED BY <2>3, <2>4, <2>5, <2>6, <2>7, <2>8, <2>9, <2>10, <2>11, <2>12, <2>13, <2>14, <2>15 DEF GcInv, GcTypes
<1>13. ASSUME NEW t \in Threads, Gc!FreePost(t) PROVE GcInv'
  <2>1. /\ ~Gc!Overlap /\ place[t] = "f_post" /\ place' = [place EXCEPT ![t] = "idle"]
        /\ sem_mutex' = sem_mutex + 1
        /\ ptr' = [ptr EXCEPT ![t] = NULL]
        /\ UNCHANGED <<Mode, total, totalMallocSize, totalFreeSize, logs, heap, blocks, size, report, misuses, failed, freedTwice>>
    BY <1>13 DEF Gc!FreePost, Gc!Goto, Gc!accounts, Gc!history
  <2>2. t \in Gc!Inside /\ \A u \in Gc!Inside : u = t
    <3>1. t \in Gc!Inside
      BY <2>1 DEF Gc!Inside
    <3> QED BY <2>1, <3>1, GcAlone
  <2>3. GcMaps'
    BY <2>1, <2>2 DEF GcMaps, GcCalls, Gc!Insert, Gc!Addrs
  <2>4. GcCalls'
    BY <2>1, <2>2 DEF GcCalls, GcPlaces, Gc!Addrs
  <2>5. GcQuiet'
    BY <2>1, <2>2 DEF GcQuiet, GcCalls
  <2>6. GcInserts'
    BY <2>1, <2>2 DEF GcInserts, GcCalls
  <2>7. GcTracked'
    BY <2>1, <2>2 DEF GcTracked, GcQuiet, GcCalls, Gc!Insert
  <2>8. GcClaims'
    <3>1. GcItems' \subseteq GcItems
      BY <2>1, <2>2 DEF GcItems, GcCalls
    <3> QED BY <2>1, <2>2, <3>1, GoodSmaller DEF GcClaims, AsGood
  <2>9. GcExclusive'
    BY <2>1, <2>2 DEF GcExclusive, GcCalls, Gc!Inside
  <2>10. GcFrees'
    BY <2>1, <2>2 DEF GcFrees, GcCalls
  <2>11. GcAllocs'
    BY <2>1, <2>2 DEF GcAllocs, Clean, GcCalls
  <2>12. GcFiles'
    BY <2>1, <2>2 DEF GcFiles, Clean, Owned, GcCalls
  <2>13. GcAccounts'
    BY <2>1, <2>2 DEF GcAccounts, Clean, GcQuiet, GcCalls
  <2>14. Gc!ReportNamesLeaks'
    BY <2>1, <2>2 DEF Gc!ReportNamesLeaks
  <2>15. Gc!SecondFreeIsCaught'
    BY <2>1, <2>2 DEF Gc!SecondFreeIsCaught
  <2> QED BY <2>3, <2>4, <2>5, <2>6, <2>7, <2>8, <2>9, <2>10, <2>11, <2>12, <2>13, <2>14, <2>15 DEF GcInv, GcTypes
<1>14. ASSUME Gc!total_gc PROVE GcInv'
  <2>1. /\ report = NULL /\ "total" \in Mode
        /\ \A t \in Threads : place[t] = "idle"
        /\ report' = [unfreed |-> totalMallocSize - totalFreeSize, entries |-> DOMAIN total]
        /\ total' = Gc!Empty
        /\ UNCHANGED <<Mode, sem_mutex, totalMallocSize, totalFreeSize, logs, heap, blocks, place,
                       ptr, size, misuses, failed, freedTwice>>
    BY <1>14 DEF Gc!total_gc, Gc!history
  <2>2. report' # NULL
    <3>1. totalMallocSize - totalFreeSize \in Int /\ DOMAIN total \in SUBSET Gc!Addrs
      BY DEF GcCalls, GcMaps
    <3>2. report' \in [unfreed : Int, entries : SUBSET Gc!Addrs]
      BY <2>1, <3>1
    <3> QED BY <3>2 DEF Gc!MemGcAssumption
  <2>3. DOMAIN total' = {}
    BY <2>1 DEF Gc!Empty
  <2>4. GcMaps' /\ GcCalls'
    BY <2>1, <2>3 DEF GcMaps, GcCalls
  <2>5. GcQuiet' /\ GcInserts' /\ GcTracked' /\ GcAccounts'
    BY <2>1, <2>2 DEF GcQuiet, GcInserts, GcTracked, GcAccounts
  <2>6. GcClaims'
    <3>1. GcItems' \subseteq GcItems
      BY <2>1, <2>3 DEF GcItems
    <3> QED BY <2>1, <3>1, GoodSmaller DEF GcClaims, AsGood
  <2>7. GcExclusive' /\ GcFrees' /\ GcAllocs'
    BY <2>1 DEF GcExclusive, GcFrees, GcAllocs, Clean, Gc!Inside
  <2>8. GcFiles'
    BY <2>1 DEF GcFiles, Clean, Owned
  <2>9. Gc!ReportNamesLeaks'
    <3> SUFFICES ASSUME Clean
                 PROVE  DOMAIN total = DOMAIN heap /\ totalMallocSize - totalFreeSize = Gc!Bytes(heap)
      BY <2>1 DEF Gc!ReportNamesLeaks, Clean
    <3>1. DOMAIN heap \subseteq DOMAIN total
      BY <2>1 DEF GcTracked
    <3> QED BY <2>1, <3>1 DEF GcAccounts
  <2>10. Gc!SecondFreeIsCaught'
    BY <2>1 DEF Gc!SecondFreeIsCaught
  <2> QED BY <2>4, <2>5, <2>6, <2>7, <2>8, <2>9, <2>10 DEF GcInv, GcTypes
<1> QED
  BY <1>1, <1>2, <1>3, <1>4, <1>5, <1>6, <1>7, <1>8, <1>9, <1>10, <1>11, <1>12, <1>13, <1>14
  DEF Gc!Next, Gc!Malloc, Gc!Free

LEMMA GcInitially == Gc!MemGcAssumption /\ Gc!Init => GcInv
<1> SUFFICES ASSUME Gc!MemGcAssumption, Gc!Init PROVE GcInv
  OBVIOUS
<1>1. DOMAIN heap = {} /\ DOMAIN total = {}
  BY DEF Gc!Init, Gc!Empty
<1>2. \A t \in Threads : place[t] = "idle" /\ ptr[t] = NULL
  BY DEF Gc!Init
<1>3. /\ blocks = {} /\ sem_mutex = 1 /\ report = NULL /\ misuses = 0
      /\ totalMallocSize = 0 /\ totalFreeSize = 0
      /\ \A a \in Gc!Addrs : logs[a] = "none"
  BY DEF Gc!Init
<1>4. GcMaps
  BY <1>1, FS_EmptySet DEF GcMaps
<1>5. GcCalls
  BY DEF GcCalls, GcPlaces, Gc!Init, Gc!Addrs
<1>6. GcQuiet /\ GcInserts /\ GcTracked
  BY <1>1, <1>2, <1>3 DEF GcQuiet, GcInserts, GcTracked
<1>7. GcItems = {}
  BY <1>1, <1>2, <1>3 DEF GcItems
<1>8. GcClaims
  BY <1>3, <1>7 DEF GcClaims, Good
<1>9. GcExclusive /\ GcFrees /\ GcAllocs
  BY <1>2, <1>3 DEF GcExclusive, GcFrees, GcAllocs, Gc!Inside
<1>10. GcFiles
  BY <1>2, <1>3 DEF GcFiles, Owned
<1>11. GcAccounts
  <2>1. Gc!Bytes(heap) = 0
    BY <1>1, <1>4, BytesAdd DEF GcMaps
  <2> QED BY <1>1, <1>3, <2>1 DEF GcAccounts
<1>12. Gc!ReportNamesLeaks
  BY <1>3 DEF Gc!ReportNamesLeaks
<1>13. Gc!SecondFreeIsCaught
  BY DEF Gc!Init, Gc!SecondFreeIsCaught
<1> QED BY <1>4, <1>5, <1>6, <1>8, <1>9, <1>10, <1>11, <1>12, <1>13 DEF GcInv, GcTypes

LEMMA GcTellsTheTruth ==
  ASSUME Gc!MemGcAssumption, GcInv
  PROVE  /\ Gc!ExclusiveUnlessMisused /\ Gc!SecondFreeIsCaught
         /\ Gc!ReportNamesLeaks /\ Gc!FilesNameLeaks
<1>1. Gc!ExclusiveUnlessMisused
  <2> SUFFICES ASSUME misuses = 0
               PROVE  ~Gc!Overlap /\ sem_mutex + Gc!Cardinality(Gc!Inside) = 1
    BY DEF Gc!ExclusiveUnlessMisused
  <2>1. CASE sem_mutex = 1 /\ \A t \in Threads : t \notin Gc!Inside
    <3>1. Gc!Inside = {}
      BY <2>1 DEF Gc!Inside
    <3>2. Gc!Cardinality(Gc!Inside) = 0
      BY <3>1, GcCounts, FS_EmptySet
    <3> QED BY <2>1, <3>2 DEF Gc!Overlap
  <2>2. CASE sem_mutex = 0 /\ \E t \in Threads : \A u \in Threads : u \in Gc!Inside <=> u = t
    <3>1. PICK t \in Threads : \A u \in Threads : u \in Gc!Inside <=> u = t
      BY <2>2
    <3>2. Gc!Inside = {t}
      <4>1. Gc!Inside \subseteq Threads
        BY DEF Gc!Inside
      <4> QED BY <3>1, <4>1
    <3>3. Gc!Cardinality(Gc!Inside) = 1
      BY <3>2, GcCounts, FS_Singleton
    <3> QED BY <2>2, <3>3 DEF Gc!Overlap
  <2> QED BY <2>1, <2>2 DEF GcInv, GcExclusive
<1>2. Gc!FilesNameLeaks
  <2> SUFFICES ASSUME Gc!Inside = {}, Clean, "single" \in Mode
               PROVE  {a \in Gc!Addrs : logs[a] # "none"} =
                        blocks \cup {ptr[t] : t \in {u \in Threads : place[u] = "f_wait"}}
    BY DEF Gc!FilesNameLeaks, Clean
  <2>1. \A a \in Gc!Addrs : logs[a] = IF a \in Owned THEN "leak" ELSE "none"
    BY DEF GcInv, GcFiles
  <2>2. \A t \in Threads : place[t] \in {"idle", "m_wait", "f_wait"}
    BY DEF Gc!Inside
  <2>3. Owned = blocks \cup {ptr[t] : t \in {u \in Threads : place[u] = "f_wait"}}
    BY <2>2 DEF Owned
  <2>4. Owned \subseteq Gc!Addrs
    BY DEF Owned, GcInv, GcTypes, GcCalls, Gc!Addrs
  <2> QED BY <2>1, <2>3, <2>4
<1> QED BY <1>1, <1>2 DEF GcInv

-----------------------------------------------------------------------------
(* The rings of the drivers.  A ring of Count slots, from slot a on: the n    *)
(* next slots are one side's, and e is the one behind them.                   *)

Run(a, e, n) == IF n < Count THEN Rings!Behind(a, e) = n ELSE e = a

LEMMA RingFacts ==
  ASSUME Rings!MgDriverAssumption
  PROVE  /\ Count \in Nat \ {0}
         /\ \A i \in Rings!Slots : i \in Nat /\ i < Count
         /\ \A i \in Rings!Slots : Rings!After(i) = (IF i + 1 = Count THEN 0 ELSE i + 1)
         /\ \A i \in Rings!Slots : Rings!After(i) \in Rings!Slots
         /\ \A a, i \in Rings!Slots : Rings!Behind(a, i) \in 0 .. Count - 1
         /\ \A a, i \in Rings!Slots : Rings!Behind(a, i) = 0 <=> i = a
<1>1. Count \in Nat \ {0}
  BY DEF Rings!MgDriverAssumption
<1>2. \A i \in Rings!Slots : i \in Nat /\ i < Count
  BY <1>1 DEF Rings!Slots
<1>3. \A i \in Rings!Slots : Rings!After(i) = (IF i + 1 = Count THEN 0 ELSE i + 1)
  BY <1>1, <1>2 DEF Rings!After
<1>4. \A i \in Rings!Slots : Rings!After(i) \in Rings!Slots
  BY <1>1, <1>2, <1>3 DEF Rings!Slots
<1>5. \A a, i \in Rings!Slots : Rings!Behind(a, i) \in 0 .. Count - 1
  BY <1>1, <1>2 DEF Rings!Behind
<1>6. \A a, i \in Rings!Slots : Rings!Behind(a, i) = 0 <=> i = a
  BY <1>1, <1>2 DEF Rings!Behind
<1> QED BY <1>1, <1>2, <1>3, <1>4, <1>5, <1>6

\* The side in question gets one slot more.
LEMMA RunGrows ==
  ASSUME Rings!MgDriverAssumption, NEW a \in Rings!Slots, NEW e \in Rings!Slots, NEW n \in Nat, n < Count,
         Run(a, e, n)
  PROVE  /\ Rings!Behind(a, e) = n
         /\ Run(a, Rings!After(e), n + 1)
         /\ \A i \in Rings!Slots : Rings!Behind(a, i) < n + 1 <=> Rings!Behind(a, i) < n \/ i = e
<1>1. Rings!Behind(a, e) = n
  BY DEF Run
<1>2. Run(a, Rings!After(e), n + 1)
  <2>1. CASE n + 1 < Count
    <3>1. Rings!Behind(a, Rings!After(e)) = n + 1
      BY <1>1, <2>1, RingFacts DEF Rings!Behind
    <3> QED BY <2>1, <3>1 DEF Run
  <2>2. CASE n + 1 = Count
    <3>1. Rings!After(e) = a
      BY <1>1, <2>2, RingFacts DEF Rings!Behind
    <3> QED BY <2>2, <3>1, RingFacts DEF Run
  <2> QED BY <2>1, <2>2, RingFacts
<1>3. \A i \in Rings!Slots : Rings!Behind(a, i) = n <=> i = e
  BY <1>1, RingFacts DEF Rings!Behind
<1>4. \A i \in Rings!Slots : Rings!Behind(a, i) \in Nat
  BY RingFacts
<1> QED BY <1>1, <1>2, <1>3, <1>4

\* It loses its first.
LEMMA RunShrinks ==
  ASSUME Rings!MgDriverAssumption, NEW a \in Rings!Slots, NEW e \in Rings!Slots, NEW n \in Nat,
         0 < n, n <= Count, Run(a, e, n)
  PROVE  /\ Run(Rings!After(a), e, n - 1)
         /\ \A i \in Rings!Slots : i # a => Rings!Behind(Rings!After(a), i) = Rings!Behind(a, i) - 1
         /\ \A i \in Rings!Slots : Rings!Behind(Rings!After(a), i) < n - 1 <=> Rings!Behind(a, i) < n /\ i # a
<1>1. \A i \in Rings!Slots : i # a => Rings!Behind(Rings!After(a), i) = Rings!Behind(a, i) - 1
  BY RingFacts DEF Rings!Behind
<1>2. Rings!Behind(Rings!After(a), a) = Count - 1
  BY RingFacts DEF Rings!Behind
<1>3. Run(Rings!After(a), e, n - 1)
  <2>1. n - 1 < Count
    BY RingFacts
  <2>2. CASE n < Count
    <3>1. Rings!Behind(a, e) = n
      BY <2>2 DEF Run
    <3>2. e # a
      BY <3>1, RingFacts
    <3> QED BY <1>1, <2>1, <3>1, <3>2 DEF Run
  <2>3. CASE n = Count
    <3>1. e = a
      BY <2>3, RingFacts DEF Run
    <3> QED BY <1>2, <2>1, <2>3, <3>1 DEF Run
  <2> QED BY <2>2, <2>3, RingFacts
<1>4. ASSUME NEW i \in Rings!Slots
      PROVE  Rings!Behind(Rings!After(a), i) < n - 1 <=> Rings!Behind(a, i) < n /\ i # a
  <2>1. Rings!Behind(a, i) \in 0 .. Count - 1 /\ Count \in Nat
    BY <1>4, RingFacts
  <2>2. CASE i = a
    BY <1>2, <2>1, <2>2
  <2>3. CASE i # a
    BY <1>1, <2>1, <2>3
  <2> QED BY <2>2, <2>3
<1> QED BY <1>1, <1>3, <1>4

Frames == [frame : Nat, whole : BOOLEAN]
RxDescs == [own : {"engine", "driver"}, f : Frames]
TxDescs == [own : {"engine", "driver"}, frame : Nat]
Engines(S) == [rx : S, rx_on : BOOLEAN, tx : S, tx_on : BOOLEAN]
Handlers == [pc : {"idle", "look", "give", "leave"}, i : Nat, rx : BOOLEAN, tx : BOOLEAN,
             rsr : BOOLEAN, saw : [rx : BOOLEAN, tx : BOOLEAN]]
HistoriesOf(N, P, Q) == [came : N, whole : P, dropped : P, taken : Q, sent : Q, out : Q]
Histories == HistoriesOf(Nat, SUBSET Nat, Seq(Nat))

RingTypes ==
  /\ rxdesc \in [Rings!Slots -> RxDescs] /\ rxno \in Rings!Slots
  /\ txdesc \in [Rings!Slots -> TxDescs] /\ txno \in Rings!Slots
  /\ engine \in Engines(Rings!Slots)
  /\ irq \in Handlers /\ task \in [pc : {"idle", "own", "next"}]
  /\ queue \in Seq(Nat) /\ seen \in Histories

\* The updates of the records.
LEMMA DescSet ==
  ASSUME NEW o \in {"engine", "driver"}
  PROVE  /\ \A d \in RxDescs : LET x == [d EXCEPT !.own = o]
                               IN  x \in RxDescs /\ x.own = o /\ x.f = d.f
         /\ \A d \in TxDescs : LET x == [d EXCEPT !.own = o]
                               IN  x \in TxDescs /\ x.own = o /\ x.frame = d.frame
         /\ \A d \in TxDescs : \A n \in Nat : LET x == [d EXCEPT !.frame = n]
                               IN  x \in TxDescs /\ x.own = d.own /\ x.frame = n
         /\ \A f \in Frames : LET x == [own |-> o, f |-> f]
                              IN  x \in RxDescs /\ x.own = o /\ x.f = f
BY DEF RxDescs, TxDescs

LEMMA EngineSet ==
  ASSUME NEW S, NEW g \in Engines(S), NEW i \in S, NEW b \in BOOLEAN
  PROVE  /\ LET x == [g EXCEPT !.rx = i]
            IN  x \in Engines(S) /\ x = [rx |-> i, rx_on |-> g.rx_on, tx |-> g.tx, tx_on |-> g.tx_on]
         /\ LET x == [g EXCEPT !.tx = i]
            IN  x \in Engines(S) /\ x = [rx |-> g.rx, rx_on |-> g.rx_on, tx |-> i, tx_on |-> g.tx_on]
         /\ LET x == [g EXCEPT !.rx_on = b]
            IN  x \in Engines(S) /\ x = [rx |-> g.rx, rx_on |-> b, tx |-> g.tx, tx_on |-> g.tx_on]
         /\ LET x == [g EXCEPT !.tx_on = b]
            IN  x \in Engines(S) /\ x = [rx |-> g.rx, rx_on |-> g.rx_on, tx |-> g.tx, tx_on |-> b]
BY DEF Engines

LEMMA HistorySet ==
  ASSUME NEW N, NEW P, NEW Q, NEW h \in HistoriesOf(N, P, Q),
         NEW n \in N, NEW A \in P, NEW q \in Q
  PROVE  /\ LET x == [h EXCEPT !.came = n]
            IN  /\ x \in HistoriesOf(N, P, Q)
                /\ x = [came |-> n, whole |-> h.whole, dropped |-> h.dropped,
                        taken |-> h.taken, sent |-> h.sent, out |-> h.out]
         /\ LET x == [h EXCEPT !.whole = A]
            IN  /\ x \in HistoriesOf(N, P, Q)
                /\ x = [came |-> h.came, whole |-> A, dropped |-> h.dropped,
                        taken |-> h.taken, sent |-> h.sent, out |-> h.out]
         /\ LET x == [h EXCEPT !.dropped = A]
            IN  /\ x \in HistoriesOf(N, P, Q)
                /\ x = [came |-> h.came, whole |-> h.whole, dropped |-> A,
                        taken |-> h.taken, sent |-> h.sent, out |-> h.out]
         /\ LET x == [h EXCEPT !.taken = q]
            IN  /\ x \in HistoriesOf(N, P, Q)
                /\ x = [came |-> h.came, whole |-> h.whole, dropped |-> h.dropped,
                        taken |-> q, sent |-> h.sent, out |-> h.out]
         /\ LET x == [h EXCEPT !.sent = q]
            IN  /\ x \in HistoriesOf(N, P, Q)
                /\ x = [came |-> h.came, whole |-> h.whole, dropped |-> h.dropped,
                        taken |-> h.taken, sent |-> q, out |-> h.out]
         /\ LET x == [h EXCEPT !.out = q]
            IN  /\ x \in HistoriesOf(N, P, Q)
                /\ x = [came |-> h.came, whole |-> h.whole, dropped |-> h.dropped,
                        taken |-> h.taken, sent |-> h.sent, out |-> q]
BY DEF HistoriesOf

LEMMA HistorySetTwice ==
  ASSUME NEW N, NEW P, NEW Q, NEW h \in HistoriesOf(N, P, Q), NEW n \in N, NEW A \in P
  PROVE  LET x == [h EXCEPT !.came = n, !.whole = A]
         IN  /\ x \in HistoriesOf(N, P, Q)
             /\ x = [came |-> n, whole |-> A, dropped |-> h.dropped,
                     taken |-> h.taken, sent |-> h.sent, out |-> h.out]
<1> DEFINE g == [h EXCEPT !.came = n]
<1>1. /\ g \in HistoriesOf(N, P, Q) /\ g.came = n /\ g.dropped = h.dropped
      /\ g.taken = h.taken /\ g.sent = h.sent /\ g.out = h.out
  BY DEF HistoriesOf
<1>2. [h EXCEPT !.came = n, !.whole = A] = [g EXCEPT !.whole = A]
  OBVIOUS
<1> HIDE DEF g
<1> QED BY <1>1, <1>2, HistorySet DEF HistoriesOf

LEMMA RingTypesKept ==
  ASSUME Rings!MgDriverAssumption, RingTypes, Rings!Next
  PROVE  RingTypes'
<1>0. \A i \in Rings!Slots : Rings!After(i) \in Rings!Slots
  BY RingFacts
<1>1. CASE Rings!Arrive
  <2>1. UNCHANGED <<rxno, txdesc, txno, task, queue>>
    BY <1>1 DEF Rings!Arrive
  <2>2. seen.came + 1 \in Nat /\ engine.rx \in Rings!Slots
    BY DEF RingTypes, Histories, HistoriesOf, Engines
  <2>3. PICK whole \in BOOLEAN :
          LET f == [frame |-> seen.came + 1, whole |-> whole]
          IN IF rxdesc[engine.rx].own = "engine" /\ engine.rx_on
             THEN /\ rxdesc' = [rxdesc EXCEPT ![engine.rx] = [own |-> "driver", f |-> f]]
                  /\ engine' = [engine EXCEPT !.rx = Rings!After(@)]
                  /\ irq' = [irq EXCEPT !.rx = TRUE, !.rsr = TRUE]
                  /\ seen' = [seen EXCEPT !.came = @ + 1,
                                !.whole = IF whole \/ driver = "same54"
                                          THEN @ \union {f.frame} ELSE @]
             ELSE /\ engine' = [engine EXCEPT !.rx_on = driver = "same54"]
                  /\ seen' = [seen EXCEPT !.came = @ + 1]
                  /\ UNCHANGED <<rxdesc, irq>>
    BY <1>1, Zenon DEF Rings!Arrive
  <2> DEFINE f == [frame |-> seen.came + 1, whole |-> whole]
             new == IF whole \/ driver = "same54" THEN seen.whole \cup {f.frame} ELSE seen.whole
  <2>4. CASE rxdesc[engine.rx].own = "engine" /\ engine.rx_on
    <3>1. /\ rxdesc' = [rxdesc EXCEPT ![engine.rx] = [own |-> "driver", f |-> f]]
          /\ engine' = [engine EXCEPT !.rx = Rings!After(engine.rx)]
          /\ irq' = [irq EXCEPT !.rx = TRUE, !.rsr = TRUE]
          /\ seen' = [seen EXCEPT !.came = seen.came + 1, !.whole = new]
      BY <2>3, <2>4
    <3>2. rxdesc' \in [Rings!Slots -> RxDescs]
      <4>1. [own |-> "driver", f |-> f] \in RxDescs
        BY <2>2 DEF RxDescs, Frames
      <4> QED BY <3>1, <4>1 DEF RingTypes
    <3>3. engine' \in Engines(Rings!Slots)
      BY <1>0, <2>2, <3>1, EngineSet DEF RingTypes
    <3>4. irq' \in Handlers
      BY <3>1 DEF RingTypes, Handlers
    <3>5. new \in SUBSET Nat
      BY <2>2 DEF RingTypes, Histories, HistoriesOf
    <3>6. seen' \in Histories
      <4> HIDE DEF new
      <4>1. seen \in HistoriesOf(Nat, SUBSET Nat, Seq(Nat))
        BY DEF RingTypes, Histories
      <4>2. [seen EXCEPT !.came = seen.came + 1, !.whole = new]
              \in HistoriesOf(Nat, SUBSET Nat, Seq(Nat))
        BY <2>2, <3>5, <4>1, HistorySetTwice
      <4> QED BY <3>1, <4>2 DEF Histories
    <3> QED BY <2>1, <3>2, <3>3, <3>4, <3>6 DEF RingTypes
  <2>5. CASE ~(rxdesc[engine.rx].own = "engine" /\ engine.rx_on)
    <3>1. /\ engine' = [engine EXCEPT !.rx_on = driver = "same54"]
          /\ seen' = [seen EXCEPT !.came = seen.came + 1]
          /\ UNCHANGED <<rxdesc, irq>>
      BY <2>3, <2>5
    <3>2. engine' \in Engines(Rings!Slots)
      <4>1. (driver = "same54") \in BOOLEAN
        OBVIOUS
      <4> QED BY <2>2, <3>1, <4>1, EngineSet DEF RingTypes
    <3>3. seen' \in Histories
      BY <2>2, <3>1, HistorySet, HistorySetTwice DEF RingTypes, Histories
    <3> QED BY <2>1, <3>1, <3>2, <3>3 DEF RingTypes
  <2> QED BY <2>4, <2>5
<1>2. CASE Rings!Depart
  <2>1. UNCHANGED <<rxdesc, rxno, txno, task, queue>>
    BY <1>2 DEF Rings!Depart
  <2>2. CASE txdesc[engine.tx].own = "engine"
    <3>0. engine.tx \in Rings!Slots
      BY DEF RingTypes, Engines
    <3>1. /\ txdesc' = [txdesc EXCEPT ![engine.tx].own = "driver"]
          /\ engine' = [engine EXCEPT !.tx = Rings!After(engine.tx)]
          /\ seen' = [seen EXCEPT !.out = Append(seen.out, txdesc[engine.tx].frame)]
          /\ irq' = [irq EXCEPT !.tx = driver = "same54"]
      BY <1>2, <2>2 DEF Rings!Depart
    <3>2. Append(seen.out, txdesc[engine.tx].frame) \in Seq(Nat)
      BY <3>0, AppendFacts DEF RingTypes, Histories, HistoriesOf, TxDescs
    <3>3. txdesc' \in [Rings!Slots -> TxDescs]
      BY <3>0, <3>1, DescSet DEF RingTypes
    <3>4. engine' \in Engines(Rings!Slots)
      BY <1>0, <3>0, <3>1, EngineSet DEF RingTypes
    <3>5. irq' \in Handlers
      <4>1. (driver = "same54") \in BOOLEAN
        OBVIOUS
      <4> QED BY <3>1, <4>1 DEF RingTypes, Handlers
    <3>6. seen' \in Histories
      <4>1. seen \in HistoriesOf(Nat, SUBSET Nat, Seq(Nat))
        BY DEF RingTypes, Histories
      <4>2. seen.came \in Nat /\ seen.whole \in SUBSET Nat
        BY <4>1 DEF HistoriesOf
      <4>3. [seen EXCEPT !.out = Append(seen.out, txdesc[engine.tx].frame)]
              \in HistoriesOf(Nat, SUBSET Nat, Seq(Nat))
        BY <3>2, <4>1, <4>2, HistorySet
      <4> QED BY <3>1, <4>3 DEF Histories
    <3> QED BY <2>1, <3>3, <3>4, <3>5, <3>6 DEF RingTypes
  <2>3. CASE txdesc[engine.tx].own # "engine"
    <3>1. engine' = [engine EXCEPT !.tx_on = FALSE] /\ UNCHANGED <<txdesc, seen, irq>>
      BY <1>2, <2>3 DEF Rings!Depart
    <3> QED BY <2>1, <3>1, EngineSet DEF RingTypes, Engines
  <2> QED BY <2>2, <2>3
<1>3. CASE Rings!Interrupt
  <2>1. UNCHANGED <<txno, task>>
    BY <1>3 DEF Rings!Interrupt
  <2>2. CASE Rings!Ack
    BY <2>1, <2>2 DEF Rings!Ack, RingTypes, Handlers
  <2>3. ASSUME NEW n, NEW d, Rings!Look(n, d) PROVE RingTypes'
    <3>1. UNCHANGED <<rxdesc, rxno, txdesc, engine>>
      BY <2>3 DEF Rings!Look
    <3>2. \/ irq' = [irq EXCEPT !.pc = "leave"] \/ irq' = [irq EXCEPT !.pc = "give"]
      BY <2>3 DEF Rings!Look
    <3>3. \/ UNCHANGED <<queue, seen>>
          \/ queue' = Append(queue, rxdesc[rxno].f.frame) /\ UNCHANGED seen
          \/ /\ seen' = [seen EXCEPT !.dropped = seen.dropped \cup {rxdesc[rxno].f.frame}]
             /\ UNCHANGED queue
      BY <2>3 DEF Rings!Look, Rings!mg_tcpip_qwrite
    <3>4. rxdesc[rxno].f.frame \in Nat
      BY DEF RingTypes, RxDescs, Frames
    <3>5. Append(queue, rxdesc[rxno].f.frame) \in Seq(Nat)
      BY <3>4, AppendFacts DEF RingTypes
    <3>6. queue' \in Seq(Nat)
      BY <3>3, <3>5 DEF RingTypes
    <3>7. seen' \in Histories
      <4>1. seen.dropped \cup {rxdesc[rxno].f.frame} \in SUBSET Nat
        BY <3>4 DEF RingTypes, Histories, HistoriesOf
      <4>2. CASE UNCHANGED seen
        BY <4>2 DEF RingTypes
      <4>3. CASE seen' = [seen EXCEPT !.dropped = seen.dropped \cup {rxdesc[rxno].f.frame}]
        BY <4>1, <4>3, HistorySet DEF RingTypes, Histories
      <4> QED BY <3>3, <4>2, <4>3
    <3>8. irq' \in Handlers
      BY <3>2 DEF RingTypes, Handlers
    <3> QED BY <2>1, <3>1, <3>6, <3>7, <3>8 DEF RingTypes
  <2>4. CASE Rings!Give
    <3>1. rxdesc' \in [Rings!Slots -> RxDescs]
      BY <2>4, DescSet DEF Rings!Give, RingTypes
    <3>2. irq' \in Handlers
      <4>1. irq.i + 1 \in Nat
        BY DEF RingTypes, Handlers
      <4>2. irq' = [irq EXCEPT !.pc = "look", !.i = irq.i + 1]
        BY <2>4 DEF Rings!Give
      <4> QED BY <4>1, <4>2 DEF RingTypes, Handlers
    <3> QED BY <1>0, <2>1, <2>4, <3>1, <3>2 DEF Rings!Give, RingTypes
  <2>5. CASE Rings!Resume
    <3>1. engine' \in Engines(Rings!Slots)
      BY <2>5, EngineSet DEF Rings!Resume, RingTypes, Engines
    <3>2. irq' \in Handlers
      BY <2>5 DEF Rings!Resume, RingTypes, Handlers
    <3> QED BY <2>1, <2>5, <3>1, <3>2 DEF Rings!Resume, RingTypes
  <2>6. CASE Rings!GMAC_Enter
    <3>1. irq' \in Handlers
      BY <2>6 DEF Rings!GMAC_Enter, RingTypes, Handlers
    <3> QED BY <2>1, <2>6, <3>1 DEF Rings!GMAC_Enter, RingTypes
  <2>7. CASE Rings!GMAC_Leave
    <3>1. txdesc' \in [Rings!Slots -> TxDescs]
      BY <2>7, DescSet DEF Rings!GMAC_Leave, RingTypes
    <3>2. irq' \in Handlers
      BY <2>7 DEF Rings!GMAC_Leave, RingTypes, Handlers
    <3> QED BY <2>1, <2>7, <3>1, <3>2 DEF Rings!GMAC_Leave, RingTypes
  <2> QED
    BY <1>3, <2>2, <2>3, <2>4, <2>5, <2>6, <2>7
    DEF Rings!Interrupt, Rings!ENET_IRQHandler, Rings!ETH_IRQHandler, Rings!ETH_IRQHandler_h,
        Rings!EMAC0_IRQHandler, Rings!GMAC_Handler, Rings!Handler
<1>4. CASE Rings!Send
  <2>1. UNCHANGED <<rxdesc, rxno, irq, queue>>
    BY <1>4 DEF Rings!Send
  <2>2. ASSUME NEW p \in BOOLEAN, Rings!Refuse(p) PROVE RingTypes'
    <3>1. (engine.tx_on \/ p) \in BOOLEAN
      OBVIOUS
    <3>2. engine' \in Engines(Rings!Slots)
      BY <2>2, <3>1, EngineSet DEF Rings!Refuse, RingTypes, Engines
    <3> QED BY <2>1, <2>2, <3>2 DEF Rings!Refuse, RingTypes
  <2>3. CASE Rings!Copy
    <3>1. Len(seen.sent) + 1 \in Nat
      BY EmptyFacts DEF RingTypes, Histories, HistoriesOf
    <3>2. txdesc' \in [Rings!Slots -> TxDescs]
      <4>1. txdesc' = [txdesc EXCEPT ![txno].frame = Len(seen.sent) + 1]
        BY <2>3 DEF Rings!Copy
      <4>2. txno \in Rings!Slots /\ txdesc \in [Rings!Slots -> TxDescs] /\ txdesc[txno] \in TxDescs
        BY DEF RingTypes
      <4>3. [txdesc[txno] EXCEPT !.frame = Len(seen.sent) + 1] \in TxDescs
        BY <3>1, <4>2, DescSet
      <4> QED BY <4>1, <4>2, <4>3
    <3> QED BY <2>1, <2>3, <3>2 DEF Rings!Copy, RingTypes
  <2>4. CASE Rings!Own
    <3>1. Append(seen.sent, txdesc[txno].frame) \in Seq(Nat)
      BY AppendFacts DEF RingTypes, Histories, HistoriesOf, TxDescs
    <3>2. txdesc' \in [Rings!Slots -> TxDescs]
      BY <2>4, DescSet DEF Rings!Own, RingTypes
    <3>3. seen' \in Histories
      BY <2>4, <3>1, HistorySet DEF Histories, Rings!Own, RingTypes
    <3> QED BY <2>1, <2>4, <3>2, <3>3 DEF Rings!Own, RingTypes
  <2>5. CASE Rings!Poke
    <3>1. engine' \in Engines(Rings!Slots)
      BY <2>5, EngineSet DEF Rings!Poke, RingTypes, Engines
    <3> QED BY <1>0, <2>1, <2>5, <3>1 DEF Rings!Poke, RingTypes
  <2> QED
    BY <1>4, <2>2, <2>3, <2>4, <2>5
    DEF Rings!Send, Rings!imxrt1020_tx, Rings!same54_tx, Rings!stm32_tx, Rings!stm32h_tx,
        Rings!tm4c_tx, Rings!Transmit
<1>5. CASE Rings!Take
  <2>1. Tail(queue) \in Seq(Nat) /\ Append(seen.taken, Head(queue)) \in Seq(Nat)
    BY <1>5, TailFacts, AppendFacts DEF Rings!Take, RingTypes, Histories, HistoriesOf
  <2>2. seen' \in Histories
    BY <1>5, <2>1, HistorySet DEF Histories, Rings!Take, RingTypes
  <2> QED BY <1>5, <2>1, <2>2 DEF Rings!Take, RingTypes
<1> QED BY <1>1, <1>2, <1>3, <1>4, <1>5 DEF Rings!Next

-----------------------------------------------------------------------------
(* What FramesComeThrough says, of any queue got, waiting slots W with their  *)
(* frames fr and their places pos, and the frames S that are to come through. *)

Kept(got, W, fr, pos, S) ==
  /\ \A k \in 1 .. Len(got) : got[k] \in S
  /\ \A i \in W : fr[i] \in S
  /\ \A x \in S : (\E k \in 1 .. Len(got) : got[k] = x) \/ (\E i \in W : fr[i] = x)
  /\ \A k, m \in 1 .. Len(got) : k < m => got[k] < got[m]
  /\ \A k \in 1 .. Len(got) : \A i \in W : got[k] < fr[i]
  /\ \A i, j \in W : pos[i] < pos[j] => fr[i] < fr[j]

\* A new frame gets the last place.
LEMMA KeptArrives ==
  ASSUME NEW got, NEW W, NEW S \in SUBSET Nat, NEW fr, NEW pos, NEW fr2, NEW e, NEW f \in Nat,
         Kept(got, W, fr, pos, S), e \notin W, fr2[e] = f, \A i \in W : fr2[i] = fr[i],
         \A x \in S : x < f, \A i \in W \cup {e} : pos[i] \in Nat,
         \A i \in W : pos[i] < pos[e]
  PROVE  Kept(got, W \cup {e}, fr2, pos, S \cup {f})
<1>1. \A k \in 1 .. Len(got) : got[k] \in S \cup {f}
  BY DEF Kept
<1>2. \A i \in W \cup {e} : fr2[i] \in S \cup {f}
  BY DEF Kept
<1>3. \A x \in S \cup {f} : (\E k \in 1 .. Len(got) : got[k] = x) \/ (\E i \in W \cup {e} : fr2[i] = x)
  BY DEF Kept
<1>4. \A k \in 1 .. Len(got) : \A i \in W \cup {e} : got[k] < fr2[i]
  BY DEF Kept
<1>5. \A i, j \in W \cup {e} : pos[i] < pos[j] => fr2[i] < fr2[j]
  <2> SUFFICES ASSUME NEW i \in W \cup {e}, NEW j \in W \cup {e}, pos[i] < pos[j]
               PROVE  fr2[i] < fr2[j]
    OBVIOUS
  <2>1. pos[i] \in Nat /\ pos[j] \in Nat /\ pos[e] \in Nat
    OBVIOUS
  <2>2. CASE i = e
    BY <2>1, <2>2
  <2>3. CASE i \in W /\ j = e
    BY <2>3 DEF Kept
  <2>4. CASE i \in W /\ j \in W
    BY <2>4 DEF Kept
  <2> QED BY <2>2, <2>3, <2>4
<1>6. \A k, m \in 1 .. Len(got) : k < m => got[k] < got[m]
  BY DEF Kept
<1> HIDE DEF Kept
<1> QED BY <1>1, <1>2, <1>3, <1>4, <1>5, <1>6 DEF Kept

\* The slots change, but not the waiting ones nor their order.
LEMMA KeptMoves ==
  ASSUME NEW got, NEW W, NEW S, NEW fr, NEW pos, NEW fr2, NEW pos2,
         Kept(got, W, fr, pos, S), \A i \in W : fr2[i] = fr[i],
         \A i, j \in W : pos2[i] < pos2[j] => pos[i] < pos[j]
  PROVE  Kept(got, W, fr2, pos2, S)
BY DEF Kept

\* The first that waits is copied into the queue.
LEMMA KeptGot ==
  ASSUME NEW got \in Seq(Nat), NEW W, NEW S \in SUBSET Nat, NEW fr, NEW pos, NEW i0 \in W,
         Kept(got, W, fr, pos, S), \A j \in W \ {i0} : pos[i0] < pos[j]
  PROVE  Kept(Append(got, fr[i0]), W \ {i0}, fr, pos, S)
<1> DEFINE g == Append(got, fr[i0])
           n == Len(got)
<1>1. fr[i0] \in Nat /\ fr[i0] \in S
  BY DEF Kept
<1>2. /\ n \in Nat /\ Len(g) = n + 1 /\ g[n + 1] = fr[i0]
      /\ \A k \in 1 .. n : g[k] = got[k]
  BY <1>1, AppendFacts, EmptyFacts
<1>3. \A k \in 1 .. n + 1 : k \in 1 .. n \/ k = n + 1
  BY <1>2
<1> HIDE DEF g, n
<1>4. /\ \A k \in 1 .. n : got[k] \in S
      /\ \A i \in W : fr[i] \in S
      /\ \A x \in S : (\E k \in 1 .. n : got[k] = x) \/ (\E i \in W : fr[i] = x)
      /\ \A k, m \in 1 .. n : k < m => got[k] < got[m]
      /\ \A k \in 1 .. n : \A i \in W : got[k] < fr[i]
      /\ \A i, j \in W : pos[i] < pos[j] => fr[i] < fr[j]
  BY DEF Kept, n
<1>5. \A k \in 1 .. n + 1 : g[k] \in S
  BY <1>1, <1>2, <1>3, <1>4
<1>6. \A x \in S : (\E k \in 1 .. n + 1 : g[k] = x) \/ (\E i \in W \ {i0} : fr[i] = x)
  <2> SUFFICES ASSUME NEW x \in S
               PROVE  (\E k \in 1 .. n + 1 : g[k] = x) \/ (\E i \in W \ {i0} : fr[i] = x)
    OBVIOUS
  <2>1. CASE x = fr[i0]
    <3>1. n + 1 \in 1 .. n + 1
      BY <1>2
    <3> QED BY <1>2, <2>1, <3>1
  <2>2. CASE x # fr[i0] /\ \E i \in W : fr[i] = x
    BY <2>2
  <2>3. CASE \E k \in 1 .. n : got[k] = x
    <3>1. PICK k \in 1 .. n : got[k] = x
      BY <2>3
    <3>2. k \in 1 .. n + 1 /\ g[k] = x
      BY <1>2, <3>1
    <3> QED BY <3>2
  <2> QED BY <1>4, <2>1, <2>2, <2>3
<1>7. \A k, m \in 1 .. n + 1 : k < m => g[k] < g[m]
  <2> SUFFICES ASSUME NEW k \in 1 .. n + 1, NEW m \in 1 .. n + 1, k < m PROVE g[k] < g[m]
    OBVIOUS
  <2>1. k \in 1 .. n
    BY <1>2
  <2>2. CASE m = n + 1
    BY <1>2, <1>4, <2>1, <2>2
  <2>3. CASE m \in 1 .. n
    BY <1>2, <1>4, <2>1, <2>3
  <2> QED BY <1>3, <2>2, <2>3
<1>8. \A k \in 1 .. n + 1 : \A i \in W \ {i0} : g[k] < fr[i]
  <2> SUFFICES ASSUME NEW k \in 1 .. n + 1, NEW i \in W \ {i0} PROVE g[k] < fr[i]
    OBVIOUS
  <2>1. CASE k = n + 1
    BY <1>2, <1>4, <2>1
  <2>2. CASE k \in 1 .. n
    BY <1>2, <1>4, <2>2
  <2> QED BY <1>3, <2>1, <2>2
<1>9. Len(g) = n + 1
  BY <1>2
<1>10. Kept(g, W \ {i0}, fr, pos, S)
  BY <1>4, <1>5, <1>6, <1>7, <1>8, <1>9 DEF Kept
<1> QED BY <1>10 DEF g

\* It is dropped.
LEMMA KeptDropped ==
  ASSUME NEW got, NEW W, NEW S \in SUBSET Nat, NEW fr, NEW pos, NEW i0 \in W,
         Kept(got, W, fr, pos, S), \A j \in W \ {i0} : pos[i0] < pos[j]
  PROVE  Kept(got, W \ {i0}, fr, pos, S \ {fr[i0]})
<1>1. \A k \in 1 .. Len(got) : got[k] \in S /\ got[k] \in Nat /\ got[k] < fr[i0]
  BY DEF Kept
<1>2. \A i \in W \ {i0} : fr[i] \in S /\ fr[i] \in Nat /\ fr[i0] < fr[i]
  BY DEF Kept
<1>3. fr[i0] \in Nat
  BY DEF Kept
<1>4. \A k \in 1 .. Len(got) : got[k] \in S \ {fr[i0]}
  BY <1>1, <1>3
<1>5. \A i \in W \ {i0} : fr[i] \in S \ {fr[i0]}
  BY <1>2, <1>3
<1> QED BY <1>4, <1>5 DEF Kept

-----------------------------------------------------------------------------
(* The receive ring *)

RxFrames == [i \in Rings!Slots |-> rxdesc[i].f.frame]
RxPlaces == [i \in Rings!Slots |-> Rings!Behind(rxno, i)]
RxKept == Kept(seen.taken \o queue, Rings!Waiting, RxFrames, RxPlaces, seen.whole \ seen.dropped)

\* The n slots from the handler's on are the driver's; in its loop over them the
\* handler has looked at no more than the ring has.
RxRun(n) ==
  /\ Run(rxno, engine.rx, n)
  /\ \A i \in Rings!Slots : rxdesc[i].own = "driver" <=> Rings!Behind(rxno, i) < n
  /\ irq.pc = "give" => n > 0
  /\ driver # "same54" /\ ~irq.rx =>
       /\ irq.pc \in {"look", "give"} => n + irq.i <= Count
       /\ irq.pc \in {"idle", "leave"} => n = 0

RxInv ==
  /\ \A x \in seen.whole \cup seen.dropped : x <= seen.came
  /\ driver # "same54" /\ irq.pc = "idle" /\ ~irq.rx => engine.rx_on
  /\ \E n \in 0 .. Count : RxRun(n)
  /\ RxKept

\* The order of the frames is that of the property.
LEMMA RxKeptIs == RingTypes => (RxKept <=> Rings!FramesComeThrough)
<1> SUFFICES ASSUME RingTypes PROVE RxKept <=> Rings!FramesComeThrough
  OBVIOUS
<1> DEFINE got == seen.taken \o queue
           W == Rings!Waiting
           S == seen.whole \ seen.dropped
<1>1. got \in Seq(Nat)
  BY ConcatProperties DEF RingTypes, Histories, HistoriesOf
<1>2. DOMAIN got = 1 .. Len(got)
  BY <1>1, LenProperties
<1>3. W \subseteq Rings!Slots
  BY DEF Rings!Waiting
<1>4. Rings!FramesComeThrough <=>
        /\ {got[k] : k \in DOMAIN got} \cup {rxdesc[i].f.frame : i \in W} = S
        /\ \A k \in DOMAIN got : \A m \in DOMAIN got : k < m => got[k] < got[m]
        /\ \A k \in DOMAIN got : \A i \in W : got[k] < rxdesc[i].f.frame
        /\ \A i, j \in W : Rings!Behind(rxno, i) < Rings!Behind(rxno, j)
                             => rxdesc[i].f.frame < rxdesc[j].f.frame
  BY DEF Rings!FramesComeThrough
<1>5. /\ \A i \in W : RxFrames[i] = rxdesc[i].f.frame
      /\ \A i \in W : RxPlaces[i] = Rings!Behind(rxno, i)
  BY <1>3 DEF RxFrames, RxPlaces
<1>6. RxKept <=> Kept(got, W, RxFrames, RxPlaces, S)
  BY DEF RxKept
<1> HIDE DEF got, W, S
<1>7. {got[k] : k \in DOMAIN got} \cup {rxdesc[i].f.frame : i \in W} = S
        <=> /\ \A k \in 1 .. Len(got) : got[k] \in S
            /\ \A i \in W : rxdesc[i].f.frame \in S
            /\ \A x \in S : (\E k \in 1 .. Len(got) : got[k] = x)
                              \/ (\E i \in W : rxdesc[i].f.frame = x)
  BY <1>2
<1> QED BY <1>2, <1>4, <1>5, <1>6, <1>7 DEF Kept

\* The receive ring's part of the state is what it was.
LEMMA RxStays ==
  ASSUME RxInv, UNCHANGED <<driver, rxdesc, rxno, queue>>,
         engine'.rx = engine.rx, engine'.rx_on = engine.rx_on,
         irq'.pc = irq.pc, irq'.i = irq.i, irq'.rx = irq.rx,
         seen'.came = seen.came, seen'.whole = seen.whole, seen'.dropped = seen.dropped,
         seen'.taken = seen.taken
  PROVE  RxInv'
<1>1. \A n \in 0 .. Count : RxRun(n) => RxRun(n)'
  BY DEF RxRun, Run, Rings!Slots, Rings!Behind
<1>2. Rings!Waiting' = Rings!Waiting /\ RxFrames' = RxFrames /\ RxPlaces' = RxPlaces
  BY DEF Rings!Waiting, RxFrames, RxPlaces, Rings!Slots, Rings!Behind
<1>3. RxKept'
  BY <1>2 DEF RxInv, RxKept
<1> QED BY <1>1, <1>3 DEF RxInv

\* The handler goes from one part to another, and the ring is what it was.
LEMMA RxTurns ==
  ASSUME RxInv, UNCHANGED <<driver, rxdesc, rxno, queue, seen>>, engine'.rx = engine.rx,
         irq.pc # "give", irq'.pc # "give",
         driver # "same54" /\ ~irq'.rx =>
           /\ irq'.pc = "idle" => engine'.rx_on
           /\ \A n \in 0 .. Count :
                RxRun(n) => /\ irq'.pc = "look" => n + irq'.i <= Count
                            /\ irq'.pc \in {"idle", "leave"} => n = 0
  PROVE  RxInv'
<1>1. \A n \in 0 .. Count : RxRun(n) => RxRun(n)'
  BY DEF RxRun, Run, Rings!Slots, Rings!Behind
<1>2. Rings!Waiting' = Rings!Waiting /\ RxFrames' = RxFrames /\ RxPlaces' = RxPlaces
  BY DEF Rings!Waiting, RxFrames, RxPlaces, Rings!Slots, Rings!Behind
<1>3. RxKept'
  BY <1>2 DEF RxInv, RxKept
<1> QED BY <1>1, <1>3 DEF RxInv

LEMMA RxArrive ==
  ASSUME Rings!MgDriverAssumption, RingTypes, RxInv, Rings!Arrive
  PROVE  RxInv'
<1> DEFINE e == engine.rx
           W == Rings!Waiting
           S == seen.whole \ seen.dropped
           got == seen.taken \o queue
<1>0. UNCHANGED <<driver, rxno, queue>>
  BY DEF Rings!Arrive
<1>1. /\ seen.came \in Nat /\ seen.whole \in SUBSET Nat /\ seen.dropped \in SUBSET Nat
      /\ e \in Rings!Slots /\ rxno \in Rings!Slots
      /\ \A i \in Rings!Slots : rxdesc[i].own \in {"engine", "driver"}
      /\ W \subseteq Rings!Slots
  BY DEF RingTypes, Histories, HistoriesOf, Engines, RxDescs, Rings!Waiting
<1>2. PICK n \in 0 .. Count : RxRun(n)
  BY DEF RxInv
<1>3. /\ Run(rxno, e, n)
      /\ \A i \in Rings!Slots : rxdesc[i].own = "driver" <=> Rings!Behind(rxno, i) < n
      /\ irq.pc = "give" => n > 0
  BY <1>2 DEF RxRun
<1>4. Count \in Nat \ {0} /\ \A i \in Rings!Slots : Rings!Behind(rxno, i) \in 0 .. Count - 1
  BY <1>1, RingFacts
<1>5. \A x \in S : x \in Nat /\ x < seen.came + 1
  BY <1>1 DEF RxInv
<1>6. PICK whole \in BOOLEAN :
          LET f == [frame |-> seen.came + 1, whole |-> whole]
          IN IF rxdesc[engine.rx].own = "engine" /\ engine.rx_on
             THEN /\ rxdesc' = [rxdesc EXCEPT ![engine.rx] = [own |-> "driver", f |-> f]]
                  /\ engine' = [engine EXCEPT !.rx = Rings!After(@)]
                  /\ irq' = [irq EXCEPT !.rx = TRUE, !.rsr = TRUE]
                  /\ seen' = [seen EXCEPT !.came = @ + 1,
                                !.whole = IF whole \/ driver = "same54"
                                          THEN @ \union {f.frame} ELSE @]
             ELSE /\ engine' = [engine EXCEPT !.rx_on = driver = "same54"]
                  /\ seen' = [seen EXCEPT !.came = @ + 1]
                  /\ UNCHANGED <<rxdesc, irq>>
  BY Zenon DEF Rings!Arrive
<1>7. CASE rxdesc[e].own = "engine" /\ engine.rx_on
  <2> DEFINE f == [frame |-> seen.came + 1, whole |-> whole]
             new == IF whole \/ driver = "same54" THEN seen.whole \cup {seen.came + 1} ELSE seen.whole
  <2>1. /\ rxdesc' = [rxdesc EXCEPT ![e] = [own |-> "driver", f |-> f]]
        /\ engine' = [engine EXCEPT !.rx = Rings!After(e)]
        /\ irq' = [irq EXCEPT !.rx = TRUE, !.rsr = TRUE]
        /\ seen' = [seen EXCEPT !.came = seen.came + 1, !.whole = new]
    BY <1>6, <1>7
  <2>2. /\ \A i \in Rings!Slots : i # e => rxdesc'[i] = rxdesc[i]
        /\ rxdesc'[e].own = "driver" /\ rxdesc'[e].f.frame = seen.came + 1
        /\ rxdesc'[e].f.whole = whole
    BY <1>1, <2>1 DEF RingTypes
  <2>3. engine'.rx = Rings!After(e) /\ engine'.rx_on = engine.rx_on
    BY <2>1 DEF RingTypes, Engines
  <2>4. irq'.rx /\ irq'.pc = irq.pc
    BY <2>1 DEF RingTypes, Handlers
  <2>5. /\ seen'.came = seen.came + 1 /\ seen'.whole = new
        /\ seen'.dropped = seen.dropped /\ seen'.taken = seen.taken
    BY <2>1 DEF RingTypes, Histories, HistoriesOf
  <2>6. n < Count
    <3>1. CASE n = Count
      BY <1>1, <1>3, <1>4, <1>7, <3>1
    <3> QED BY <1>4, <3>1
  <2>7. /\ Rings!Behind(rxno, e) = n /\ Run(rxno, Rings!After(e), n + 1)
        /\ \A i \in Rings!Slots :
             Rings!Behind(rxno, i) < n + 1 <=> Rings!Behind(rxno, i) < n \/ i = e
    BY <1>1, <1>3, <2>6, RunGrows
  <2>8. RxRun(n + 1)'
    <3>1. \A i \in Rings!Slots : rxdesc'[i].own = "driver" <=> Rings!Behind(rxno, i) < n + 1
      BY <1>3, <2>2, <2>7
    <3> QED BY <1>0, <2>3, <2>4, <2>7, <3>1 DEF RxRun, Run, Rings!Behind, Rings!Slots
  <2>9. n + 1 \in 0 .. Count
    BY <1>4, <2>6
  <2>10. \A x \in seen'.whole \cup seen'.dropped : x <= seen'.came
    BY <1>1, <2>5 DEF RxInv
  <2>11. e \notin W
    BY <1>7 DEF Rings!Waiting
  <2>12. ~(irq.pc = "give" /\ e = rxno)
    BY <1>1, <1>3, <1>4, <2>6, <2>7, RingFacts
  <2>13. \A i \in W : i # e /\ Rings!Behind(rxno, i) < n
    BY <1>3, <2>11 DEF Rings!Waiting
  <2>14. /\ \A i \in W : RxFrames'[i] = RxFrames[i]
         /\ RxFrames'[e] = seen.came + 1
    BY <1>1, <2>2, <2>13 DEF RxFrames, Rings!Slots
  <2>15. /\ RxPlaces' = RxPlaces /\ \A i \in W : RxPlaces[i] \in Nat /\ RxPlaces[i] < RxPlaces[e]
         /\ RxPlaces[e] \in Nat
    <3>1. RxPlaces' = RxPlaces
      BY <1>0 DEF RxPlaces, Rings!Behind, Rings!Slots
    <3>2. \A i \in W : RxPlaces[i] \in Nat /\ RxPlaces[i] < n
      BY <1>1, <1>4, <2>13 DEF RxPlaces
    <3>3. RxPlaces[e] = n
      BY <1>1, <2>7 DEF RxPlaces
    <3> QED BY <3>1, <3>2, <3>3
  <2>16. RxKept'
    <3>1. CASE whole \/ driver = "same54"
      <4>1. Rings!Waiting' = W \cup {e}
        BY <1>0, <1>1, <2>2, <2>4, <2>12, <3>1 DEF Rings!Waiting, Rings!Slots
      <4>2. seen'.whole \ seen'.dropped = S \cup {seen.came + 1}
        BY <1>1, <2>5, <3>1 DEF RxInv
      <4>3. Kept(got, W, RxFrames, RxPlaces, S)
        BY DEF RxInv, RxKept
      <4>4. S \in SUBSET Nat /\ seen.came + 1 \in Nat
        BY <1>1
      <4> HIDE DEF W, S, got, e
      <4>5. Kept(got, W \cup {e}, RxFrames', RxPlaces, S \cup {seen.came + 1})
        BY <1>5, <2>11, <2>14, <2>15, <4>3, <4>4, KeptArrives
      <4>6. seen'.taken \o queue' = got
        BY <1>0, <2>5 DEF got
      <4> QED BY <2>15, <4>1, <4>2, <4>5, <4>6 DEF RxKept
    <3>2. CASE ~(whole \/ driver = "same54")
      <4>1. Rings!Waiting' = W
        BY <1>0, <1>1, <2>2, <2>4, <2>11, <3>2 DEF Rings!Waiting, Rings!Slots
      <4>2. seen'.whole \ seen'.dropped = S
        BY <2>5, <3>2
      <4>3. Kept(got, W, RxFrames, RxPlaces, S)
        BY DEF RxInv, RxKept
      <4> HIDE DEF W, S, got, e
      <4>4. Kept(got, W, RxFrames', RxPlaces, S)
        BY <2>14, <4>3, KeptMoves
      <4>5. seen'.taken \o queue' = got
        BY <1>0, <2>5 DEF got
      <4> QED BY <2>15, <4>1, <4>2, <4>4, <4>5 DEF RxKept
    <3> QED BY <3>1, <3>2
  <2> QED BY <2>4, <2>8, <2>9, <2>10, <2>16 DEF RxInv
<1>8. CASE ~(rxdesc[e].own = "engine" /\ engine.rx_on)
  <2>1. /\ engine' = [engine EXCEPT !.rx_on = driver = "same54"]
        /\ seen' = [seen EXCEPT !.came = seen.came + 1]
        /\ UNCHANGED <<rxdesc, irq>>
    BY <1>6, <1>8
  <2>2. engine'.rx = e
    BY <2>1 DEF RingTypes, Engines
  <2>3. /\ seen'.came = seen.came + 1 /\ seen'.whole = seen.whole
        /\ seen'.dropped = seen.dropped /\ seen'.taken = seen.taken
    BY <2>1 DEF RingTypes, Histories, HistoriesOf
  <2>4. \A x \in seen'.whole \cup seen'.dropped : x <= seen'.came
    BY <1>1, <2>3 DEF RxInv
  <2>5. RxRun(n)'
    BY <1>0, <1>2, <2>1, <2>2 DEF RxRun, Run, Rings!Slots, Rings!Behind
  <2>6. ~(driver # "same54" /\ irq.pc = "idle" /\ ~irq.rx)
    <3> SUFFICES ASSUME driver # "same54", irq.pc = "idle", ~irq.rx PROVE FALSE
      OBVIOUS
    <3>1. n = 0 /\ engine.rx_on
      BY <1>2 DEF RxRun, RxInv
    <3>2. Rings!Behind(rxno, e) = 0
      BY <1>3, <1>4, <3>1 DEF Run
    <3> QED BY <1>1, <1>3, <1>8, <3>1, <3>2
  <2>7. Rings!Waiting' = W /\ RxFrames' = RxFrames /\ RxPlaces' = RxPlaces
    BY <1>0, <2>1 DEF Rings!Waiting, RxFrames, RxPlaces, Rings!Slots, Rings!Behind
  <2>8. RxKept'
    BY <1>0, <2>3, <2>7 DEF RxInv, RxKept
  <2> QED BY <1>0, <2>1, <2>4, <2>5, <2>6, <2>8 DEF RxInv
<1> QED BY <1>7, <1>8

\* The handler looks at a descriptor: one of the same54's copies what is damaged too.
LEMMA RxLook ==
  ASSUME Rings!MgDriverAssumption, RingTypes, RxInv, NEW b, NEW damagedToo \in BOOLEAN,
         Rings!Look(b, damagedToo), UNCHANGED driver,
         \/ driver = "same54" /\ damagedToo
         \/ driver # "same54" /\ ~damagedToo /\ b = Batch
  PROVE  RxInv'
<1> DEFINE d == rxdesc[rxno]
           W == Rings!Waiting
           S == seen.whole \ seen.dropped
           got == seen.taken \o queue
<1>0. UNCHANGED <<driver, rxdesc, rxno, engine>> /\ irq.pc = "look"
  BY DEF Rings!Look
<1>1. /\ seen.came \in Nat /\ seen.whole \in SUBSET Nat /\ seen.dropped \in SUBSET Nat
      /\ rxno \in Rings!Slots /\ d.own \in {"engine", "driver"} /\ d.f.frame \in Nat
      /\ d.f.whole \in BOOLEAN /\ irq.i \in Nat
      /\ seen.taken \in Seq(Nat) /\ queue \in Seq(Nat)
      /\ W \subseteq Rings!Slots
  BY DEF RingTypes, Histories, HistoriesOf, RxDescs, Frames, Handlers, Rings!Waiting
<1>2. PICK n \in 0 .. Count : RxRun(n)
  BY DEF RxInv
<1>3. d.own = "driver" <=> 0 < n
  <2>1. Rings!Behind(rxno, rxno) = 0
    BY <1>1, RingFacts
  <2> QED BY <1>1, <1>2, <2>1 DEF RxRun
<1>4. /\ Count \in Nat \ {0} /\ Batch \in Nat /\ Count <= Batch
      /\ \A i \in Rings!Slots : Rings!Behind(rxno, i) \in 0 .. Count - 1
      /\ \A i \in Rings!Slots : Rings!Behind(rxno, i) = 0 <=> i = rxno
  BY <1>1, RingFacts DEF Rings!MgDriverAssumption
<1>5. RxFrames' = RxFrames /\ RxPlaces' = RxPlaces
  BY <1>0 DEF RxFrames, RxPlaces, Rings!Slots, Rings!Behind
<1>6. CASE irq.i = b \/ d.own = "engine"
  <2>1. irq' = [irq EXCEPT !.pc = "leave"] /\ UNCHANGED <<queue, seen>>
    BY <1>6 DEF Rings!Look
  <2>2. irq'.pc = "leave" /\ irq'.rx = irq.rx /\ irq'.i = irq.i
    BY <2>1 DEF RingTypes, Handlers
  <2>3. driver # "same54" /\ ~irq.rx => n = 0
    BY <1>0, <1>1, <1>2, <1>3, <1>4, <1>6 DEF RxRun
  <2>4. RxRun(n)'
    BY <1>0, <1>2, <2>2, <2>3 DEF RxRun, Run, Rings!Slots, Rings!Behind
  <2>5. Rings!Waiting' = W
    BY <1>0, <2>2 DEF Rings!Waiting, Rings!Slots
  <2>6. RxKept'
    BY <1>5, <2>1, <2>5 DEF RxInv, RxKept
  <2> QED BY <1>0, <2>1, <2>2, <2>4, <2>6 DEF RxInv
<1>7. CASE ~(irq.i = b \/ d.own = "engine")
  <2> DEFINE f == d.f.frame
  <2>1. /\ irq' = [irq EXCEPT !.pc = "give"]
        /\ IF d.f.whole \/ damagedToo
           THEN IF Len(queue) < Room THEN queue' = Append(queue, f) /\ UNCHANGED seen
                ELSE seen' = [seen EXCEPT !.dropped = seen.dropped \cup {f}] /\ UNCHANGED queue
           ELSE UNCHANGED <<queue, seen>>
    BY <1>7 DEF Rings!Look, Rings!mg_tcpip_qwrite
  <2>2. irq'.pc = "give" /\ irq'.rx = irq.rx /\ irq'.i = irq.i
    BY <2>1 DEF RingTypes, Handlers
  <2>3. RxRun(n)'
    BY <1>0, <1>1, <1>2, <1>3, <1>7, <2>2 DEF RxRun, Run, Rings!Slots, Rings!Behind
  <2>4. Rings!Waiting' = W \ {rxno}
    BY <1>0, <1>1, <2>2 DEF Rings!Waiting, Rings!Slots
  <2>5. Kept(got, W, RxFrames, RxPlaces, S)
    BY DEF RxInv, RxKept
  <2>6. \A j \in W \ {rxno} : RxPlaces[rxno] < RxPlaces[j]
    BY <1>1, <1>4 DEF RxPlaces
  <2>7. RxFrames[rxno] = f
    BY <1>1 DEF RxFrames
  <2>8. S \in SUBSET Nat
    BY <1>1
  <2>9. got \in Seq(Nat)
    BY <1>1, ConcatProperties
  <2>10. rxno \in W <=> d.f.whole \/ damagedToo
    BY <1>0, <1>1, <1>7 DEF Rings!Waiting
  <2>11. CASE d.f.whole \/ damagedToo
    <3>1. rxno \in W
      BY <2>10, <2>11
    <3>2. CASE Len(queue) < Room
      <4>1. queue' = Append(queue, f) /\ seen' = seen
        BY <2>1, <2>11, <3>2
      <4>2. seen'.taken \o queue' = Append(got, f)
        <5>1. seen.taken \o Append(queue, f) = Append(seen.taken \o queue, f)
          <6> HIDE DEF f
          <6>1. f \in Nat
            BY <1>1 DEF f
          <6>2. seen.taken \in Seq(Nat) /\ queue \in Seq(Nat)
            BY <1>1
          <6>3. \A s, t \in Seq(Nat) : \A x \in Nat : s \o Append(t, x) = Append(s \o t, x)
            BY AppendBehind
          <6> QED BY <6>1, <6>2, <6>3, Zenon
        <5> QED BY <4>1, <5>1
      <4> HIDE DEF W, S, got
      <4>3. Kept(Append(got, f), W \ {rxno}, RxFrames, RxPlaces, S)
        BY <2>5, <2>6, <2>7, <2>8, <2>9, <3>1, KeptGot
      <4>4. RxKept'
        BY <1>5, <2>4, <4>1, <4>2, <4>3 DEF RxKept, S
      <4> QED BY <1>0, <2>2, <2>3, <4>1, <4>4 DEF RxInv
    <3>3. CASE ~(Len(queue) < Room)
      <4>1. seen' = [seen EXCEPT !.dropped = seen.dropped \cup {f}] /\ queue' = queue
        BY <2>1, <2>11, <3>3
      <4>2. /\ seen'.came = seen.came /\ seen'.whole = seen.whole
            /\ seen'.dropped = seen.dropped \cup {f} /\ seen'.taken = seen.taken
        BY <4>1 DEF RingTypes, Histories, HistoriesOf
      <4>3. seen'.whole \ seen'.dropped = S \ {f}
        BY <4>2
      <4>4. f \in S
        BY <2>5, <2>7, <3>1 DEF Kept
      <4>5. \A x \in seen'.whole \cup seen'.dropped : x <= seen'.came
        BY <4>2, <4>4 DEF RxInv
      <4> HIDE DEF W, S, got
      <4>6. Kept(got, W \ {rxno}, RxFrames, RxPlaces, S \ {f})
        BY <2>5, <2>6, <2>7, <2>8, <3>1, KeptDropped
      <4>7. RxKept'
        BY <1>5, <2>4, <4>1, <4>2, <4>3, <4>6 DEF RxKept, got
      <4> QED BY <1>0, <2>2, <2>3, <4>5, <4>7 DEF RxInv
    <3> QED BY <3>2, <3>3
  <2>12. CASE ~(d.f.whole \/ damagedToo)
    <3>1. UNCHANGED <<queue, seen>>
      BY <2>1, <2>12
    <3>2. W \ {rxno} = W
      BY <2>10, <2>12
    <3>3. RxKept'
      BY <1>5, <2>4, <2>5, <3>1, <3>2 DEF RxKept
    <3> QED BY <1>0, <2>2, <2>3, <3>1, <3>3 DEF RxInv
  <2> QED BY <2>11, <2>12
<1> QED BY <1>6, <1>7

\* It gives one back to the engine.
LEMMA RxGive ==
  ASSUME Rings!MgDriverAssumption, RingTypes, RxInv, Rings!Give, UNCHANGED driver
  PROVE  RxInv'
<1> DEFINE W == Rings!Waiting
           S == seen.whole \ seen.dropped
           got == seen.taken \o queue
<1>1. /\ rxno \in Rings!Slots /\ engine.rx \in Rings!Slots /\ irq.i \in Nat
      /\ \A i \in Rings!Slots : rxdesc[i].own \in {"engine", "driver"}
      /\ W \subseteq Rings!Slots
  BY DEF RingTypes, Engines, Handlers, RxDescs, Rings!Waiting
<1>2. /\ UNCHANGED <<driver, engine, queue, seen>> /\ irq.pc = "give"
      /\ rxno' = Rings!After(rxno)
      /\ irq'.pc = "look" /\ irq'.i = irq.i + 1 /\ irq'.rx = irq.rx
  BY DEF Rings!Give, RingTypes, Handlers
<1>3. /\ \A i \in Rings!Slots : i # rxno => rxdesc'[i] = rxdesc[i]
      /\ rxdesc'[rxno].own = "engine"
  BY <1>1 DEF Rings!Give, RingTypes, RxDescs
<1>4. PICK n \in 0 .. Count : RxRun(n)
  BY DEF RxInv
<1>5. /\ n \in Nat /\ 0 < n /\ n <= Count /\ Count \in Nat /\ Run(rxno, engine.rx, n)
      /\ \A i \in Rings!Slots : rxdesc[i].own = "driver" <=> Rings!Behind(rxno, i) < n
      /\ driver # "same54" /\ ~irq.rx => n + irq.i <= Count
  BY <1>2, <1>4, RingFacts DEF RxRun
<1>6. /\ Run(Rings!After(rxno), engine.rx, n - 1)
      /\ \A i \in Rings!Slots :
           i # rxno => Rings!Behind(Rings!After(rxno), i) = Rings!Behind(rxno, i) - 1
      /\ \A i \in Rings!Slots : Rings!Behind(Rings!After(rxno), i) < n - 1
                                  <=> Rings!Behind(rxno, i) < n /\ i # rxno
  BY <1>1, <1>5, RunShrinks
<1>7. RxRun(n - 1)'
  <2>1. Run(rxno, engine.rx, n - 1)'
    BY <1>2, <1>6 DEF Run, Rings!Behind
  <2>2. \A i \in Rings!Slots : rxdesc'[i].own = "driver" <=> Rings!Behind(rxno', i) < n - 1
    <3> TAKE i \in Rings!Slots
    <3>1. rxdesc'[i].own = "driver" <=> rxdesc[i].own = "driver" /\ i # rxno
      BY <1>3
    <3> QED BY <1>2, <1>5, <1>6, <3>1
  <2>3. driver' # "same54" /\ ~irq'.rx => (n - 1) + irq'.i <= Count
    BY <1>1, <1>2, <1>5
  <2> QED BY <1>2, <2>1, <2>2, <2>3 DEF RxRun, Rings!Slots, Rings!Behind
<1>8. n - 1 \in 0 .. Count
  BY <1>5
<1>9. Rings!Waiting' = W
  BY <1>1, <1>2, <1>3 DEF Rings!Waiting, Rings!Slots
<1>10. \A i \in W : i # rxno
  BY <1>2 DEF Rings!Waiting
<1>11. \A i \in W : RxFrames'[i] = RxFrames[i]
  BY <1>1, <1>3, <1>10 DEF RxFrames, Rings!Slots
<1>12. \A i \in W : RxPlaces'[i] = RxPlaces[i] - 1 /\ RxPlaces[i] \in Int
  <2>1. \A i \in W : Rings!Behind(rxno, i) \in Int
    BY <1>1, RingFacts
  <2> QED BY <1>1, <1>2, <1>6, <1>10, <2>1 DEF RxPlaces, Rings!Slots, Rings!Behind
<1>13. RxKept'
  <2>1. Kept(got, W, RxFrames, RxPlaces, S)
    BY DEF RxInv, RxKept
  <2>2. \A i, j \in W : RxPlaces'[i] < RxPlaces'[j] => RxPlaces[i] < RxPlaces[j]
    BY <1>12
  <2>3. seen'.taken \o queue' = got /\ seen'.whole \ seen'.dropped = S
    BY <1>2
  <2> HIDE DEF got, W, S
  <2>4. Kept(got, W, RxFrames', RxPlaces', S)
    BY <1>11, <2>1, <2>2, KeptMoves
  <2> QED BY <1>9, <2>3, <2>4 DEF RxKept
<1> QED BY <1>2, <1>7, <1>8, <1>13 DEF RxInv

\* The first of a queue goes to the end of another.
LEMMA HeadMoves ==
  ASSUME NEW T, NEW t \in Seq(T), NEW q \in Seq(T), q # <<>>
  PROVE  Append(t, Head(q)) \o Tail(q) = t \o q
<1>1. /\ Tail(q) \in Seq(T) /\ Len(Tail(q)) = Len(q) - 1 /\ Head(q) = q[1] /\ q[1] \in T
      /\ Len(q) \in Nat /\ Len(q) >= 1 /\ \A i \in 1 .. Len(Tail(q)) : Tail(q)[i] = q[i + 1]
  BY TailFacts
<1>2. /\ Append(t, Head(q)) \in Seq(T) /\ Len(Append(t, Head(q))) = Len(t) + 1
      /\ \A i \in 1 .. Len(t) : Append(t, Head(q))[i] = t[i]
      /\ Append(t, Head(q))[Len(t) + 1] = q[1] /\ Len(t) \in Nat
  BY <1>1, AppendFacts, EmptyFacts
<1> DEFINE a == Append(t, Head(q))
           b == Tail(q)
<1> HIDE DEF a, b
<1>3. /\ a \o b \in Seq(T) /\ Len(a \o b) = Len(a) + Len(b)
      /\ \A i \in 1 .. Len(a) + Len(b) : (a \o b)[i] = IF i <= Len(a) THEN a[i] ELSE b[i - Len(a)]
  BY <1>1, <1>2, ConcatProperties DEF a, b
<1>4. /\ t \o q \in Seq(T) /\ Len(t \o q) = Len(t) + Len(q)
      /\ \A i \in 1 .. Len(t) + Len(q) : (t \o q)[i] = IF i <= Len(t) THEN t[i] ELSE q[i - Len(t)]
  BY ConcatProperties
<1>5. Len(a) = Len(t) + 1 /\ Len(b) = Len(q) - 1
  BY <1>1, <1>2 DEF a, b
<1>6. /\ \A i \in 1 .. Len(t) : a[i] = t[i]
      /\ a[Len(t) + 1] = q[1]
      /\ \A i \in 1 .. Len(b) : b[i] = q[i + 1]
  BY <1>1, <1>2 DEF a, b
<1>7. \A i \in 1 .. Len(t) + Len(q) : (a \o b)[i] = (t \o q)[i]
  <2> TAKE i \in 1 .. Len(t) + Len(q)
  <2>1. CASE i <= Len(t)
    BY <1>1, <1>2, <1>3, <1>4, <1>5, <1>6, <2>1
  <2>2. CASE i = Len(t) + 1
    <3>1. (t \o q)[i] = q[i - Len(t)] /\ i - Len(t) = 1
      BY <1>1, <1>2, <1>4, <2>2
    <3>2. (a \o b)[i] = a[i]
      BY <1>1, <1>2, <1>3, <1>5, <2>2
    <3> QED BY <1>6, <2>2, <3>1, <3>2
  <2>3. CASE i > Len(t) + 1
    <3>1. (t \o q)[i] = q[i - Len(t)]
      BY <1>1, <1>2, <1>4, <2>3
    <3>2. (a \o b)[i] = b[i - Len(a)]
      BY <1>1, <1>2, <1>3, <1>5, <2>3
    <3>3. i - Len(a) \in 1 .. Len(b) /\ (i - Len(a)) + 1 = i - Len(t)
      BY <1>1, <1>2, <1>5, <2>3
    <3>4. b[i - Len(a)] = q[(i - Len(a)) + 1]
      BY <1>6, <3>3
    <3> QED BY <3>1, <3>2, <3>3, <3>4
  <2>4. i <= Len(t) \/ i = Len(t) + 1 \/ i > Len(t) + 1
    BY <1>1, <1>2
  <2> QED BY <2>1, <2>2, <2>3, <2>4
<1>8. Len(a \o b) = Len(t \o q) /\ Len(t \o q) = Len(t) + Len(q)
  BY <1>1, <1>2, <1>3, <1>4, <1>5
<1>9. a \o b = t \o q
  BY <1>3, <1>4, <1>7, <1>8, SeqEqual
<1> QED BY <1>9 DEF a, b

LEMMA RxTake ==
  ASSUME RingTypes, RxInv, Rings!Take
  PROVE  RxInv'
<1>1. /\ UNCHANGED <<driver, rxdesc, rxno, engine, irq>> /\ queue # <<>>
      /\ seen' = [seen EXCEPT !.taken = Append(seen.taken, Head(queue))] /\ queue' = Tail(queue)
  BY DEF Rings!Take
<1>2. /\ seen'.came = seen.came /\ seen'.whole = seen.whole /\ seen'.dropped = seen.dropped
      /\ seen'.taken = Append(seen.taken, Head(queue))
  BY <1>1 DEF RingTypes, Histories, HistoriesOf
<1>3. seen'.taken \o queue' = seen.taken \o queue
  <2>1. seen.taken \in Seq(Nat) /\ queue \in Seq(Nat)
    BY DEF RingTypes, Histories, HistoriesOf
  <2> QED BY <1>1, <1>2, <2>1, HeadMoves
<1>4. Rings!Waiting' = Rings!Waiting /\ RxFrames' = RxFrames /\ RxPlaces' = RxPlaces
  BY <1>1 DEF Rings!Waiting, RxFrames, RxPlaces, Rings!Slots, Rings!Behind
<1>5. RxKept'
  BY <1>2, <1>3, <1>4 DEF RxInv, RxKept
<1>6. \A n \in 0 .. Count : RxRun(n) => RxRun(n)'
  BY <1>1 DEF RxRun, Run, Rings!Slots, Rings!Behind
<1> QED BY <1>1, <1>2, <1>5, <1>6 DEF RxInv

LEMMA RxStep ==
  ASSUME Rings!MgDriverAssumption, RingTypes, RxInv, Rings!Next
  PROVE  RxInv'
<1>1. CASE Rings!Arrive
  BY <1>1, RxArrive
<1>2. CASE Rings!Depart
  <2>1. UNCHANGED <<driver, rxdesc, rxno, queue>>
    BY <1>2 DEF Rings!Depart
  <2>2. CASE txdesc[engine.tx].own = "engine"
    <3>1. /\ engine' = [engine EXCEPT !.tx = Rings!After(engine.tx)]
          /\ seen' = [seen EXCEPT !.out = Append(seen.out, txdesc[engine.tx].frame)]
          /\ irq' = [irq EXCEPT !.tx = driver = "same54"]
      BY <1>2, <2>2 DEF Rings!Depart
    <3>2. engine'.rx = engine.rx /\ engine'.rx_on = engine.rx_on
      BY <3>1 DEF RingTypes, Engines
    <3>3. irq'.pc = irq.pc /\ irq'.i = irq.i /\ irq'.rx = irq.rx
      BY <3>1 DEF RingTypes, Handlers
    <3>4. /\ seen'.came = seen.came /\ seen'.whole = seen.whole
          /\ seen'.dropped = seen.dropped /\ seen'.taken = seen.taken
      BY <3>1 DEF RingTypes, Histories, HistoriesOf
    <3> QED BY <2>1, <3>2, <3>3, <3>4, RxStays
  <2>3. CASE txdesc[engine.tx].own # "engine"
    <3>1. engine' = [engine EXCEPT !.tx_on = FALSE] /\ UNCHANGED <<seen, irq>>
      BY <1>2, <2>3 DEF Rings!Depart
    <3>2. engine'.rx = engine.rx /\ engine'.rx_on = engine.rx_on
      BY <3>1 DEF RingTypes, Engines
    <3> QED BY <2>1, <3>1, <3>2, RxStays
  <2> QED BY <2>2, <2>3
<1>3. CASE Rings!Interrupt
  <2>0. UNCHANGED driver
    BY <1>3 DEF Rings!Interrupt
  <2>1. CASE Rings!Handler /\ driver # "same54"
    <3>1. CASE Rings!Ack
      <4>1. /\ UNCHANGED <<rxdesc, rxno, engine, queue, seen>>
            /\ irq.pc = "idle" /\ irq'.pc = "look" /\ irq'.i = 0
        BY <3>1 DEF Rings!Ack, RingTypes, Handlers
      <4>2. \A n \in 0 .. Count : n + irq'.i <= Count
        BY <4>1, RingFacts
      <4> QED BY <2>0, <4>1, <4>2, RxTurns
    <3>2. CASE Rings!Look(Batch, FALSE)
      BY <2>0, <2>1, <3>2, RxLook
    <3>3. CASE Rings!Give
      BY <2>0, <3>3, RxGive
    <3>4. CASE Rings!Resume
      <4>1. /\ UNCHANGED <<rxdesc, rxno, queue, seen>> /\ engine'.rx = engine.rx
            /\ engine'.rx_on
        BY <3>4 DEF Rings!Resume, RingTypes, Engines
      <4>2. irq.pc = "leave" /\ irq'.pc = "idle" /\ irq'.rx = irq.rx
        BY <3>4 DEF Rings!Resume, RingTypes, Handlers
      <4>3. driver # "same54" /\ ~irq'.rx => \A n \in 0 .. Count : RxRun(n) => n = 0
        BY <4>2 DEF RxRun
      <4> QED BY <2>0, <4>1, <4>2, <4>3, RxTurns
    <3> QED
      BY <1>3, <2>1, <3>1, <3>2, <3>3, <3>4 DEF Rings!Handler
  <2>2. CASE driver = "same54" /\ Rings!GMAC_Handler
    <3>1. CASE Rings!GMAC_Enter
      <4>1. /\ UNCHANGED <<rxdesc, rxno, engine, queue, seen>>
            /\ irq.pc = "idle" /\ irq'.pc # "give"
        BY <3>1 DEF Rings!GMAC_Enter, RingTypes, Handlers
      <4> QED BY <2>0, <2>2, <4>1, RxTurns
    <3>2. CASE Rings!Look(Count, TRUE)
      BY <2>0, <2>2, <3>2, RxLook
    <3>3. CASE Rings!Give
      BY <2>0, <3>3, RxGive
    <3>4. CASE Rings!GMAC_Leave
      <4>1. /\ UNCHANGED <<rxdesc, rxno, engine, queue, seen>>
            /\ irq.pc = "leave" /\ irq'.pc = "idle"
        BY <3>4 DEF Rings!GMAC_Leave, RingTypes, Handlers
      <4> QED BY <2>0, <2>2, <4>1, RxTurns
    <3> QED
      BY <2>2, <3>1, <3>2, <3>3, <3>4 DEF Rings!GMAC_Handler
  <2> QED
    BY <1>3, <2>1, <2>2
    DEF Rings!Interrupt, Rings!ENET_IRQHandler, Rings!ETH_IRQHandler, Rings!ETH_IRQHandler_h,
        Rings!EMAC0_IRQHandler, Rings!GMAC_Handler
<1>4. CASE Rings!Send
  <2>1. UNCHANGED <<driver, rxdesc, rxno, irq, queue>>
    BY <1>4 DEF Rings!Send
  <2>2. engine'.rx = engine.rx /\ engine'.rx_on = engine.rx_on
    BY <1>4
    DEF RingTypes, Engines, Rings!Send, Rings!imxrt1020_tx, Rings!same54_tx, Rings!stm32_tx,
        Rings!stm32h_tx, Rings!tm4c_tx, Rings!Transmit, Rings!Refuse, Rings!Copy, Rings!Own,
        Rings!Poke
  <2>3. \/ seen' = seen
        \/ seen' = [seen EXCEPT !.sent = Append(seen.sent, txdesc[txno].frame)]
    BY <1>4
    DEF Rings!Send, Rings!imxrt1020_tx, Rings!same54_tx, Rings!stm32_tx,
        Rings!stm32h_tx, Rings!tm4c_tx, Rings!Transmit, Rings!Refuse, Rings!Copy, Rings!Own,
        Rings!Poke
  <2>4. /\ seen'.came = seen.came /\ seen'.whole = seen.whole
        /\ seen'.dropped = seen.dropped /\ seen'.taken = seen.taken
    BY <2>3 DEF RingTypes, Histories, HistoriesOf
  <2> QED BY <2>1, <2>2, <2>4, RxStays
<1>5. CASE Rings!Take
  BY <1>5, RxTake
<1> QED BY <1>1, <1>2, <1>3, <1>4, <1>5 DEF Rings!Next

-----------------------------------------------------------------------------
(* The transmit ring *)

Left == Len(seen.sent) - Len(seen.out)

\* What FramesGoOut says, of any ring.
GoOut(tx, desc, sent, out) ==
  /\ Len(sent) - Len(out) >= 0
  /\ \A k \in 1 .. Len(out) : out[k] = sent[k]
  /\ \A i \in Rings!Slots :
       desc[i].own = "engine" <=> Rings!Behind(tx, i) < Len(sent) - Len(out)
  /\ \A i \in Rings!Slots :
       desc[i].own = "engine" => desc[i].frame = sent[Len(out) + Rings!Behind(tx, i) + 1]

LEMMA GoOutNext ==
  Rings!FramesGoOut' <=> GoOut(engine'.tx, txdesc', seen'.sent, seen'.out)
BY DEF Rings!FramesGoOut, GoOut, Rings!Slots, Rings!Behind

\* The slots that the engine has still to send are its own, and the driver
\* goes on behind them.
TxInv ==
  driver # "same54" =>
    /\ Rings!FramesGoOut
    /\ Left <= Count
    /\ Run(engine.tx, IF task.pc = "next" THEN Rings!After(txno) ELSE txno, Left)
    /\ task.pc = "own" => txdesc[txno].own = "driver"
    /\ task.pc = "idle" => engine.tx_on \/ Left = 0

\* The transmit ring's part of the state is what it was, but that the engine
\* may have been told.
LEMMA TxStays ==
  ASSUME TxInv, UNCHANGED <<driver, txdesc, txno, task>>,
         engine'.tx = engine.tx, engine.tx_on => engine'.tx_on,
         seen'.sent = seen.sent, seen'.out = seen.out
  PROVE  TxInv'
<1> SUFFICES ASSUME driver # "same54"
             PROVE  /\ Rings!FramesGoOut'
                    /\ (Left <= Count)'
                    /\ Run(engine.tx, IF task.pc = "next" THEN Rings!After(txno) ELSE txno, Left)'
                    /\ task'.pc = "own" => txdesc'[txno'].own = "driver"
                    /\ task'.pc = "idle" => engine'.tx_on \/ Left' = 0
  BY DEF TxInv
<1>1. Rings!FramesGoOut'
  <2>1. Rings!FramesGoOut
    BY DEF TxInv
  <2>2. UNCHANGED <<txdesc, seen.sent, seen.out, engine.tx>>
    OBVIOUS
  <2>3. GoOut(engine'.tx, txdesc', seen'.sent, seen'.out)
    BY ZenonT(60), <2>1, <2>2 DEF Rings!FramesGoOut, GoOut
  <2> QED BY <2>3, GoOutNext
<1>2. Left' = Left
  BY DEF Left
<1>3. Run(engine.tx, IF task.pc = "next" THEN Rings!After(txno) ELSE txno, Left)'
  BY <1>2 DEF TxInv, Run, Rings!Behind, Rings!After
<1> QED BY <1>1, <1>2, <1>3 DEF TxInv

\* What the lemmas of the steps use.
LEMMA TxFacts ==
  ASSUME RingTypes, TxInv, driver # "same54"
  PROVE  /\ seen.sent \in Seq(Nat) /\ seen.out \in Seq(Nat)
         /\ Len(seen.sent) \in Nat /\ Len(seen.out) \in Nat
         /\ Left \in Nat /\ Left <= Count
         /\ engine.tx \in Rings!Slots /\ txno \in Rings!Slots
         /\ \A k \in 1 .. Len(seen.out) : seen.out[k] = seen.sent[k]
         /\ \A i \in Rings!Slots : txdesc[i].own \in {"engine", "driver"} /\ txdesc[i].frame \in Nat
         /\ \A i \in Rings!Slots :
              txdesc[i].own = "engine" <=> Rings!Behind(engine.tx, i) < Left
         /\ \A i \in Rings!Slots :
              txdesc[i].own = "engine" =>
                txdesc[i].frame = seen.sent[Len(seen.out) + Rings!Behind(engine.tx, i) + 1]
<1>1. seen.sent \in Seq(Nat) /\ seen.out \in Seq(Nat)
  BY DEF RingTypes, Histories, HistoriesOf
<1>2. Len(seen.sent) \in Nat /\ Len(seen.out) \in Nat
  BY <1>1, EmptyFacts
<1>3. Left \in Nat /\ Left <= Count
  <2>1. Rings!FramesGoOut /\ Left <= Count
    BY DEF TxInv
  <2>2. Len(seen.sent) - Len(seen.out) >= 0
    BY <2>1 DEF Rings!FramesGoOut
  <2>3. Left \in Nat
    BY <1>2, <2>2 DEF Left
  <2> QED BY <2>1, <2>3
<1>4. engine.tx \in Rings!Slots /\ txno \in Rings!Slots
  BY DEF RingTypes, Engines
<1>5. \A i \in Rings!Slots : txdesc[i].own \in {"engine", "driver"} /\ txdesc[i].frame \in Nat
  BY DEF RingTypes, TxDescs
<1> QED BY <1>1, <1>2, <1>3, <1>4, <1>5 DEF TxInv, Rings!FramesGoOut, Left

LEMMA TxDepart ==
  ASSUME Rings!MgDriverAssumption, RingTypes, TxInv, Rings!Depart
  PROVE  TxInv'
<1>0. UNCHANGED <<driver, txno, task>>
  BY DEF Rings!Depart
<1> SUFFICES ASSUME driver # "same54" PROVE TxInv'
  BY <1>0 DEF TxInv
<1> DEFINE e == engine.tx
           gone == Len(seen.out)
<1>1. /\ seen.sent \in Seq(Nat) /\ seen.out \in Seq(Nat)
      /\ Len(seen.sent) \in Nat /\ gone \in Nat /\ Left \in Nat /\ Left <= Count
      /\ e \in Rings!Slots /\ txno \in Rings!Slots
      /\ \A k \in 1 .. gone : seen.out[k] = seen.sent[k]
      /\ \A i \in Rings!Slots : txdesc[i].own \in {"engine", "driver"} /\ txdesc[i].frame \in Nat
      /\ \A i \in Rings!Slots : txdesc[i].own = "engine" <=> Rings!Behind(e, i) < Left
      /\ \A i \in Rings!Slots :
           txdesc[i].own = "engine" => txdesc[i].frame = seen.sent[gone + Rings!Behind(e, i) + 1]
  BY TxFacts
<1>2. Rings!Behind(e, e) = 0 /\ \A i \in Rings!Slots : Rings!Behind(e, i) \in Nat
  BY <1>1, RingFacts
<1> DEFINE next == IF task.pc = "next" THEN Rings!After(txno) ELSE txno
<1>3. next \in Rings!Slots /\ Run(e, next, Left)
  BY <1>1, RingFacts DEF TxInv
<1>4. CASE txdesc[e].own = "engine"
  <2>1. /\ txdesc' = [txdesc EXCEPT ![e].own = "driver"]
        /\ engine' = [engine EXCEPT !.tx = Rings!After(e)]
        /\ seen' = [seen EXCEPT !.out = Append(seen.out, txdesc[e].frame)]
        /\ engine.tx_on
    BY <1>4 DEF Rings!Depart
  <2>2. engine'.tx = Rings!After(e) /\ engine'.tx_on
    BY <2>1 DEF RingTypes, Engines
  <2>3. seen'.sent = seen.sent /\ seen'.out = Append(seen.out, txdesc[e].frame)
    BY <2>1 DEF RingTypes, Histories, HistoriesOf
  <2>4. /\ txdesc'[e].own = "driver"
        /\ \A i \in Rings!Slots : i # e => txdesc'[i] = txdesc[i]
    BY <1>1, <2>1 DEF RingTypes, TxDescs
  <2>5. 0 < Left
    BY <1>1, <1>2, <1>4
  <2>6. /\ Run(Rings!After(e), next, Left - 1)
        /\ \A i \in Rings!Slots : i # e => Rings!Behind(Rings!After(e), i) = Rings!Behind(e, i) - 1
        /\ \A i \in Rings!Slots :
             Rings!Behind(Rings!After(e), i) < Left - 1 <=> Rings!Behind(e, i) < Left /\ i # e
    BY <1>1, <1>3, <2>5, RunShrinks
  <2>7. /\ Len(seen'.out) = gone + 1 /\ seen'.out[gone + 1] = txdesc[e].frame
        /\ \A k \in 1 .. gone : seen'.out[k] = seen.out[k]
    BY <1>1, <2>3, AppendFacts
  <2>8. Left' = Left - 1
    BY <1>1, <2>3, <2>7 DEF Left
  <2>9. \A k \in 1 .. gone + 1 : seen'.out[k] = seen'.sent[k]
    <3> SUFFICES ASSUME NEW k \in 1 .. gone + 1 PROVE seen'.out[k] = seen'.sent[k]
      OBVIOUS
    <3>1. CASE k = gone + 1
      <4>1. txdesc[e].frame = seen.sent[gone + 0 + 1] /\ gone + 0 + 1 = gone + 1
        BY <1>1, <1>2, <1>4
      <4> QED BY <2>3, <2>7, <3>1, <4>1
    <3>2. CASE k \in 1 .. gone
      BY <1>1, <2>3, <2>7, <3>2
    <3>3. k = gone + 1 \/ k \in 1 .. gone
      BY <1>1
    <3> QED BY <3>1, <3>2, <3>3
  <2>10. \A i \in Rings!Slots :
           txdesc'[i].own = "engine" <=> Rings!Behind(Rings!After(e), i) < Left - 1
    <3> TAKE i \in Rings!Slots
    <3>1. CASE i = e
      BY <2>4, <2>6, <3>1
    <3>2. CASE i # e
      BY <1>1, <2>4, <2>6, <3>2
    <3> QED BY <3>1, <3>2
  <2>11. \A i \in Rings!Slots :
           txdesc'[i].own = "engine" =>
             txdesc'[i].frame = seen'.sent[(gone + 1) + Rings!Behind(Rings!After(e), i) + 1]
    <3> SUFFICES ASSUME NEW i \in Rings!Slots, txdesc'[i].own = "engine"
                 PROVE  txdesc'[i].frame
                          = seen'.sent[(gone + 1) + Rings!Behind(Rings!After(e), i) + 1]
      OBVIOUS
    <3>1. i # e /\ txdesc'[i] = txdesc[i]
      BY <2>4
    <3>2. (gone + 1) + Rings!Behind(Rings!After(e), i) + 1 = gone + Rings!Behind(e, i) + 1
      BY <1>1, <1>2, <2>6, <3>1
    <3> QED BY <1>1, <2>3, <3>1, <3>2
  <2>12. Rings!FramesGoOut'
    <3>1. Len(seen'.sent) - Len(seen'.out) = Left - 1 /\ Left - 1 >= 0
      <4>1. Left' = Len(seen'.sent) - Len(seen'.out)
        BY DEF Left
      <4>2. Left - 1 >= 0
        BY <1>1, <2>5
      <4> QED BY <2>8, <4>1, <4>2
    <3> QED BY <2>2, <2>7, <2>9, <2>10, <2>11, <3>1 DEF Rings!FramesGoOut, Rings!Slots, Rings!Behind
  <2>13. Run(engine.tx, IF task.pc = "next" THEN Rings!After(txno) ELSE txno, Left)'
    BY <1>0, <2>2, <2>6, <2>8 DEF Run, Rings!Behind, Rings!After
  <2>14. task'.pc = "own" => txdesc'[txno'].own = "driver"
    BY <1>0, <1>1, <2>4 DEF TxInv
  <2>15. (Left <= Count)'
    BY <1>1, <2>8, RingFacts
  <2> QED BY <2>2, <2>12, <2>13, <2>14, <2>15 DEF TxInv
<1>5. CASE txdesc[e].own # "engine"
  <2>1. engine' = [engine EXCEPT !.tx_on = FALSE] /\ UNCHANGED <<txdesc, seen>>
    BY <1>5 DEF Rings!Depart
  <2>2. engine'.tx = e
    BY <2>1 DEF RingTypes, Engines
  <2>3. Left = 0
    BY <1>1, <1>2, <1>5
  <2>4. Rings!FramesGoOut'
    BY <2>1, <2>2 DEF TxInv, Rings!FramesGoOut, Rings!Slots, Rings!Behind
  <2>5. Left' = Left
    BY <2>1 DEF Left
  <2>6. Run(engine.tx, IF task.pc = "next" THEN Rings!After(txno) ELSE txno, Left)'
    BY <1>0, <2>2, <2>5 DEF TxInv, Run, Rings!Behind, Rings!After
  <2> QED BY <1>0, <1>1, <2>1, <2>3, <2>4, <2>5, <2>6 DEF TxInv
<1> QED BY <1>4, <1>5

LEMMA TxSend ==
  ASSUME Rings!MgDriverAssumption, RingTypes, TxInv, Rings!Send
  PROVE  TxInv'
<1>0. UNCHANGED driver
  BY DEF Rings!Send
<1> SUFFICES ASSUME driver # "same54" PROVE TxInv'
  BY <1>0 DEF TxInv
<1> DEFINE e == engine.tx
           gone == Len(seen.out)
<1>1. /\ seen.sent \in Seq(Nat) /\ seen.out \in Seq(Nat)
      /\ Len(seen.sent) \in Nat /\ gone \in Nat /\ Left \in Nat /\ Left <= Count
      /\ e \in Rings!Slots /\ txno \in Rings!Slots
      /\ \A k \in 1 .. gone : seen.out[k] = seen.sent[k]
      /\ \A i \in Rings!Slots : txdesc[i].own \in {"engine", "driver"} /\ txdesc[i].frame \in Nat
      /\ \A i \in Rings!Slots : txdesc[i].own = "engine" <=> Rings!Behind(e, i) < Left
      /\ \A i \in Rings!Slots :
           txdesc[i].own = "engine" => txdesc[i].frame = seen.sent[gone + Rings!Behind(e, i) + 1]
  BY TxFacts
<1>2. /\ Count \in Nat \ {0} /\ Rings!Behind(e, e) = 0
      /\ \A i \in Rings!Slots : Rings!Behind(e, i) \in 0 .. Count - 1
  BY <1>1, RingFacts
<1>3. Left = Len(seen.sent) - gone
  BY DEF Left
<1>8. Len(seen.sent) \in Nat /\ gone \in Nat /\ Left \in Nat
  BY <1>1
<1>4. ASSUME NEW p \in BOOLEAN, Rings!Refuse(p) PROVE TxInv'
  <2>1. engine'.tx = e /\ (engine.tx_on => engine'.tx_on)
    BY <1>4 DEF Rings!Refuse, RingTypes, Engines
  <2>2. UNCHANGED <<txdesc, txno, task, seen>>
    BY <1>4 DEF Rings!Refuse
  <2> QED BY <1>0, <2>1, <2>2, TxStays
<1>5. CASE Rings!Copy
  <2>1. /\ UNCHANGED <<engine, txno, seen>> /\ task.pc = "idle" /\ task'.pc = "own"
        /\ txdesc[txno].own = "driver"
        /\ txdesc' = [txdesc EXCEPT ![txno].frame = Len(seen.sent) + 1]
    BY <1>5 DEF Rings!Copy
  <2>2. /\ \A i \in Rings!Slots : txdesc'[i].own = txdesc[i].own
        /\ \A i \in Rings!Slots : i # txno => txdesc'[i].frame = txdesc[i].frame
    BY <1>1, <2>1 DEF RingTypes, TxDescs
  <2>3. GoOut(e, txdesc', seen.sent, seen.out)
    <3>1. \A i \in Rings!Slots : txdesc'[i].own = "engine" <=> Rings!Behind(e, i) < Left
      BY <1>1, <2>2
    <3>2. \A i \in Rings!Slots :
            txdesc'[i].own = "engine" =>
              txdesc'[i].frame = seen.sent[gone + Rings!Behind(e, i) + 1]
      BY <1>1, <2>1, <2>2
    <3>3. Len(seen.sent) - gone >= 0
      BY <1>3, <1>8
    <3>4. \A k \in 1 .. gone : seen.out[k] = seen.sent[k]
      BY <1>1
    <3> QED BY <1>3, <3>1, <3>2, <3>3, <3>4 DEF GoOut
  <2>4. Rings!FramesGoOut'
    BY <2>1, <2>3, GoOutNext
  <2>5. Left' = Left
    BY <2>1 DEF Left
  <2>6. Run(engine.tx, IF task.pc = "next" THEN Rings!After(txno) ELSE txno, Left)'
    BY <2>1, <2>5 DEF TxInv, Run, Rings!Behind, Rings!After
  <2>7. txdesc'[txno'].own = "driver"
    BY <1>1, <2>1, <2>2
  <2> QED BY <1>1, <2>1, <2>4, <2>5, <2>6, <2>7 DEF TxInv
<1>6. CASE Rings!Own
  <2>1. /\ UNCHANGED <<engine, txno>> /\ task.pc = "own" /\ task'.pc = "next"
        /\ txdesc' = [txdesc EXCEPT ![txno].own = "engine"]
        /\ seen' = [seen EXCEPT !.sent = Append(seen.sent, txdesc[txno].frame)]
    BY <1>6 DEF Rings!Own
  <2>2. /\ txdesc'[txno].own = "engine" /\ txdesc'[txno].frame = txdesc[txno].frame
        /\ \A i \in Rings!Slots : i # txno => txdesc'[i] = txdesc[i]
    BY <1>1, <2>1 DEF RingTypes, TxDescs
  <2>3. seen'.out = seen.out /\ seen'.sent = Append(seen.sent, txdesc[txno].frame)
    BY <2>1 DEF RingTypes, Histories, HistoriesOf
  <2>4. /\ Len(seen'.sent) = Len(seen.sent) + 1
        /\ seen'.sent[Len(seen.sent) + 1] = txdesc[txno].frame
        /\ \A k \in 1 .. Len(seen.sent) : seen'.sent[k] = seen.sent[k]
    BY <1>1, <2>3, AppendFacts
  <2>5. txdesc[txno].own = "driver" /\ Run(e, txno, Left)
    BY <2>1 DEF TxInv
  <2>6. Left < Count
    <3>1. CASE Left = Count
      <4>1. e = txno
        BY <1>1, <1>2, <2>5, <3>1 DEF Run
      <4> QED BY <1>1, <1>2, <2>5, <3>1, <4>1
    <3> QED BY <1>1, <1>2, <3>1
  <2>7. /\ Rings!Behind(e, txno) = Left /\ Run(e, Rings!After(txno), Left + 1)
        /\ \A i \in Rings!Slots : Rings!Behind(e, i) < Left + 1 <=> Rings!Behind(e, i) < Left \/ i = txno
    BY <1>1, <2>5, <2>6, RunGrows
  <2>8. Left' = Left + 1 /\ Left' = Len(seen'.sent) - Len(seen'.out)
    <3>1. Left' = Len(seen'.sent) - Len(seen'.out)
      BY DEF Left
    <3> QED BY <1>1, <1>3, <2>3, <2>4, <3>1
  <2>9. \A k \in 1 .. gone : seen'.out[k] = seen'.sent[k]
    BY <1>1, <1>3, <2>3, <2>4
  <2>10. \A i \in Rings!Slots : txdesc'[i].own = "engine" <=> Rings!Behind(e, i) < Left + 1
    BY <1>1, <2>2, <2>7
  <2>11. \A i \in Rings!Slots :
           txdesc'[i].own = "engine" =>
             txdesc'[i].frame = seen'.sent[gone + Rings!Behind(e, i) + 1]
    <3> SUFFICES ASSUME NEW i \in Rings!Slots, txdesc'[i].own = "engine"
                 PROVE  txdesc'[i].frame = seen'.sent[gone + Rings!Behind(e, i) + 1]
      OBVIOUS
    <3>1. CASE i = txno
      <4>1. gone + Rings!Behind(e, i) + 1 = Len(seen.sent) + 1
        <5>1. Rings!Behind(e, i) = Left
          BY <2>7, <3>1
        <5>2. gone + Left + 1 = Len(seen.sent) + 1
          <6> HIDE DEF gone
          <6> QED BY <1>3, <1>8
        <5> QED BY <5>1, <5>2
      <4> QED BY <2>2, <2>4, <3>1, <4>1
    <3>2. CASE i # txno
      <4>1. txdesc'[i] = txdesc[i] /\ txdesc[i].own = "engine"
        BY <2>2, <3>2
      <4>2. gone + Rings!Behind(e, i) + 1 \in 1 .. Len(seen.sent)
        <5>1. Rings!Behind(e, i) < Left /\ Rings!Behind(e, i) \in Nat
          BY <1>1, <1>2, <4>1
        <5> HIDE DEF e, gone
        <5> QED BY <1>3, <1>8, <5>1
      <4> QED BY <1>1, <2>4, <4>1, <4>2
    <3> QED BY <3>1, <3>2
  <2>12. GoOut(e, txdesc', seen'.sent, seen'.out)
    <3>1. Len(seen'.sent) - Len(seen'.out) = Left + 1 /\ Left + 1 >= 0
      <4>1. Left + 1 >= 0
        BY <1>8
      <4> QED BY <2>8, <4>1
    <3> QED BY <2>3, <2>9, <2>10, <2>11, <3>1 DEF GoOut
  <2>13. Rings!FramesGoOut'
    BY <2>1, <2>12, GoOutNext
  <2>14. Run(engine.tx, IF task.pc = "next" THEN Rings!After(txno) ELSE txno, Left)'
    BY <2>1, <2>7, <2>8 DEF Run, Rings!Behind, Rings!After
  <2>15. (Left <= Count)'
    BY <1>1, <1>2, <2>6, <2>8
  <2> QED BY <2>1, <2>13, <2>14, <2>15 DEF TxInv
<1>7. CASE Rings!Poke
  <2>1. /\ UNCHANGED <<txdesc, seen>> /\ task.pc = "next" /\ task'.pc = "idle"
        /\ txno' = Rings!After(txno)
        /\ engine'.tx = e /\ engine'.tx_on
    BY <1>7 DEF Rings!Poke, RingTypes, Engines
  <2>2. GoOut(e, txdesc', seen'.sent, seen'.out)
    BY <2>1 DEF TxInv, Rings!FramesGoOut, GoOut
  <2>3. Rings!FramesGoOut'
    BY <2>1, <2>2, GoOutNext
  <2>4. Left' = Left
    BY <2>1 DEF Left
  <2>5. Run(e, Rings!After(txno), Left)
    BY <2>1 DEF TxInv
  <2>6. Run(engine.tx, IF task.pc = "next" THEN Rings!After(txno) ELSE txno, Left)'
    BY <2>1, <2>4, <2>5 DEF Run, Rings!Behind, Rings!After
  <2> QED BY <1>1, <2>1, <2>3, <2>4, <2>6 DEF TxInv
<1> QED
  BY <1>4, <1>5, <1>6, <1>7
  DEF Rings!Send, Rings!imxrt1020_tx, Rings!same54_tx, Rings!stm32_tx,
      Rings!stm32h_tx, Rings!tm4c_tx, Rings!Transmit

LEMMA TxStep ==
  ASSUME Rings!MgDriverAssumption, RingTypes, TxInv, Rings!Next
  PROVE  TxInv'
<1>1. CASE Rings!Arrive
  <2>1. UNCHANGED <<driver, txdesc, txno, task>>
    BY <1>1 DEF Rings!Arrive
  <2>2. \/ engine' = [engine EXCEPT !.rx = Rings!After(engine.rx)]
        \/ engine' = [engine EXCEPT !.rx_on = driver = "same54"]
    BY <1>1, Zenon DEF Rings!Arrive
  <2>3. engine'.tx = engine.tx /\ engine'.tx_on = engine.tx_on
    BY <2>2 DEF RingTypes, Engines
  <2>4. \E A : \/ seen' = [seen EXCEPT !.came = seen.came + 1, !.whole = A]
               \/ seen' = [seen EXCEPT !.came = seen.came + 1]
    BY <1>1, Zenon DEF Rings!Arrive
  <2>5. seen'.sent = seen.sent /\ seen'.out = seen.out
    BY <2>4 DEF RingTypes, Histories, HistoriesOf
  <2> QED BY <2>1, <2>3, <2>5, TxStays
<1>2. CASE Rings!Depart
  BY <1>2, TxDepart
<1>3. CASE Rings!Interrupt
  <2>1. UNCHANGED <<driver, txno, task>>
    BY <1>3 DEF Rings!Interrupt
  <2>2. CASE driver = "same54"
    BY <2>1, <2>2 DEF TxInv
  <2>3. CASE driver # "same54"
    <3>1. Rings!Handler
      BY <1>3, <2>3
      DEF Rings!Interrupt, Rings!ENET_IRQHandler, Rings!ETH_IRQHandler, Rings!ETH_IRQHandler_h,
          Rings!EMAC0_IRQHandler, Rings!GMAC_Handler
    <3>2. txdesc' = txdesc /\ engine'.tx = engine.tx /\ engine'.tx_on = engine.tx_on
      BY <3>1
      DEF Rings!Handler, Rings!Ack, Rings!Look, Rings!Give, Rings!Resume, RingTypes, Engines
    <3>3. seen' = seen \/ \E A : seen' = [seen EXCEPT !.dropped = A]
      BY <3>1
      DEF Rings!Handler, Rings!Ack, Rings!Look, Rings!Give, Rings!Resume, Rings!mg_tcpip_qwrite
    <3>4. seen'.sent = seen.sent /\ seen'.out = seen.out
      BY <3>3 DEF RingTypes, Histories, HistoriesOf
    <3> QED BY <2>1, <3>2, <3>4, TxStays
  <2> QED BY <2>2, <2>3
<1>4. CASE Rings!Send
  BY <1>4, TxSend
<1>5. CASE Rings!Take
  <2>1. UNCHANGED <<driver, txdesc, txno, engine, task>>
    BY <1>5 DEF Rings!Take
  <2>2. seen'.sent = seen.sent /\ seen'.out = seen.out
    BY <1>5 DEF Rings!Take, RingTypes, Histories, HistoriesOf
  <2> QED BY <2>1, <2>2, TxStays
<1> QED BY <1>1, <1>2, <1>3, <1>4, <1>5 DEF Rings!Next

-----------------------------------------------------------------------------
(* The rings together *)

RingInv == RingTypes /\ RxInv /\ TxInv

LEMMA RingInitially == Rings!MgDriverAssumption /\ Rings!Init => RingInv
<1> SUFFICES ASSUME Rings!MgDriverAssumption, Rings!Init PROVE RingInv
  OBVIOUS
<1>1. /\ rxdesc = [i \in Rings!Slots |-> [own |-> "engine", f |-> Rings!Nothing]] /\ rxno = 0
      /\ txdesc = [i \in Rings!Slots |-> [own |-> "driver", frame |-> 0]] /\ txno = 0
      /\ engine = [rx |-> 0, rx_on |-> TRUE, tx |-> 0, tx_on |-> FALSE]
      /\ irq = [pc |-> "idle", i |-> 0, rx |-> FALSE, tx |-> FALSE, rsr |-> FALSE,
                saw |-> [rx |-> FALSE, tx |-> FALSE]]
      /\ task = [pc |-> "idle"]
      /\ queue = <<>>
      /\ seen = [came |-> 0, whole |-> {}, dropped |-> {}, taken |-> <<>>,
                 sent |-> <<>>, out |-> <<>>]
  BY DEF Rings!Init
<1>2. 0 \in Rings!Slots /\ Count \in Nat \ {0}
  BY RingFacts DEF Rings!Slots
<1>3. RingTypes
  <2>1. Rings!Nothing \in Frames
    BY DEF Rings!Nothing, Frames
  <2>2. rxdesc \in [Rings!Slots -> RxDescs]
    <3>1. [own |-> "engine", f |-> Rings!Nothing] \in RxDescs
      BY <2>1 DEF RxDescs
    <3> QED BY <1>1, <3>1
  <2>3. txdesc \in [Rings!Slots -> TxDescs]
    BY <1>1 DEF TxDescs
  <2>4. engine \in Engines(Rings!Slots) /\ task \in [pc : {"idle", "own", "next"}]
    BY <1>1, <1>2 DEF Engines
  <2>5. irq \in Handlers
    BY <1>1 DEF Handlers
  <2>6. queue \in Seq(Nat)
    BY <1>1
  <2>7. seen \in Histories
    <3>1. <<>> \in Seq(Nat)
      OBVIOUS
    <3>2. \A Q : <<>> \in Q => seen \in HistoriesOf(Nat, SUBSET Nat, Q)
      BY <1>1 DEF HistoriesOf
    <3> QED BY <3>1, <3>2 DEF Histories
  <2> QED BY <1>1, <1>2, <2>2, <2>3, <2>4, <2>5, <2>6, <2>7 DEF RingTypes
<1>4. \A i \in Rings!Slots : Rings!Behind(0, i) \in Nat
  BY <1>2, RingFacts
<1>5. Rings!Behind(0, 0) = 0
  BY <1>2, RingFacts
<1>6. RxInv
  <2>1. \A i \in Rings!Slots : rxdesc[i].own = "engine"
    BY <1>1
  <2>2. RxRun(0)
    <3>1. Run(rxno, engine.rx, 0)
      BY <1>1, <1>2, <1>5 DEF Run
    <3>2. \A i \in Rings!Slots : rxdesc[i].own = "driver" <=> Rings!Behind(rxno, i) < 0
      BY <1>1, <1>4, <2>1
    <3> QED BY <1>1, <3>1, <3>2 DEF RxRun
  <2>3. Rings!Waiting = {}
    BY <2>1 DEF Rings!Waiting
  <2>4. RxKept
    <3>1. seen.taken \o queue = <<>> /\ Len(<<>>) = 0 /\ seen.whole \ seen.dropped = {}
      BY <1>1
    <3>2. \A k \in 1 .. 0 : FALSE
      OBVIOUS
    <3> QED BY <2>3, <3>1, <3>2 DEF RxKept, Kept
  <2>5. 0 \in 0 .. Count
    BY <1>2
  <2>6. \A x \in seen.whole \cup seen.dropped : x <= seen.came
    BY <1>1
  <2>7. engine.rx_on
    BY <1>1
  <2> QED BY <2>2, <2>4, <2>5, <2>6, <2>7 DEF RxInv
<1>7. TxInv
  <2>1. Len(seen.sent) = 0 /\ Len(seen.out) = 0
    BY <1>1
  <2>2. Left = 0
    BY <2>1 DEF Left
  <2>3. \A i \in Rings!Slots : txdesc[i].own = "driver"
    BY <1>1
  <2>4. Rings!FramesGoOut
    BY <1>1, <1>4, <2>1, <2>3 DEF Rings!FramesGoOut
  <2>5. Run(engine.tx, IF task.pc = "next" THEN Rings!After(txno) ELSE txno, Left)
    BY <1>1, <1>2, <1>5, <2>2 DEF Run
  <2> QED BY <1>1, <1>2, <2>2, <2>4, <2>5 DEF TxInv
<1> QED BY <1>3, <1>6, <1>7 DEF RingInv

LEMMA RingStep ==
  Rings!MgDriverAssumption /\ RingInv /\ (Rings!Next \/ UNCHANGED Rings!vars) => RingInv'
<1> SUFFICES ASSUME Rings!MgDriverAssumption, RingInv, Rings!Next \/ UNCHANGED Rings!vars
             PROVE  RingInv'
  OBVIOUS
<1>1. CASE Rings!Next
  BY <1>1, RingTypesKept, RxStep, TxStep DEF RingInv
<1>2. CASE UNCHANGED Rings!vars
  <2>1. UNCHANGED <<driver, rxdesc, rxno, txdesc, txno, engine, irq, task, queue, seen>>
    BY <1>2 DEF Rings!vars, Rings!cpu
  <2>2. RingTypes'
    BY <2>1 DEF RingInv, RingTypes, Rings!Slots
  <2>3. RxInv' /\ TxInv'
    BY <2>1, RxStays, TxStays DEF RingInv
  <2> QED BY <2>2, <2>3 DEF RingInv
<1> QED BY <1>1, <1>2

\* What the property says follows from the invariant.
LEMMA RingsGetThrough ==
  ASSUME Rings!MgDriverAssumption, RingInv
  PROVE  Rings!FramesAreKept /\ Rings!NobodyIsForgotten
<1>1. Rings!FramesAreKept
  BY RxKeptIs DEF RingInv, RxInv, TxInv, Rings!FramesAreKept
<1>2. Rings!NobodyIsForgotten
  <2> SUFFICES ASSUME driver # "same54"
               PROVE  /\ irq.pc = "idle" /\ ~irq.rx =>
                           engine.rx_on /\ \A i \in Rings!Slots : rxdesc[i].own = "engine"
                      /\ task.pc = "idle" =>
                           engine.tx_on \/ \A i \in Rings!Slots : txdesc[i].own = "driver"
    BY DEF Rings!NobodyIsForgotten
  <2>1. /\ rxno \in Rings!Slots /\ engine.tx \in Rings!Slots
        /\ \A i \in Rings!Slots : rxdesc[i].own \in {"engine", "driver"}
        /\ \A i \in Rings!Slots : txdesc[i].own \in {"engine", "driver"}
    BY DEF RingInv, RingTypes, Engines, RxDescs, TxDescs
  <2>2. ASSUME irq.pc = "idle", ~irq.rx
        PROVE  engine.rx_on /\ \A i \in Rings!Slots : rxdesc[i].own = "engine"
    <3>1. PICK n \in 0 .. Count : RxRun(n)
      BY DEF RingInv, RxInv
    <3>2. \A i \in Rings!Slots : ~(Rings!Behind(rxno, i) < 0)
      BY <2>1, RingFacts
    <3>3. \A i \in Rings!Slots : rxdesc[i].own = "driver" <=> Rings!Behind(rxno, i) < 0
      BY <2>2, <3>1 DEF RxRun
    <3>4. engine.rx_on
      BY <2>2 DEF RingInv, RxInv
    <3> QED BY <2>1, <3>2, <3>3, <3>4
  <2>3. ASSUME task.pc = "idle", ~engine.tx_on
        PROVE  \A i \in Rings!Slots : txdesc[i].own = "driver"
    <3>1. Left = 0
      BY <2>3 DEF RingInv, TxInv
    <3>2. \A i \in Rings!Slots : ~(Rings!Behind(engine.tx, i) < 0)
      BY <2>1, RingFacts
    <3>3. \A i \in Rings!Slots : txdesc[i].own = "engine" <=> Rings!Behind(engine.tx, i) < Left
      BY TxFacts DEF RingInv
    <3> QED BY <2>1, <3>1, <3>2, <3>3
  <2> QED BY <2>2, <2>3
<1> QED BY <1>1, <1>2

-----------------------------------------------------------------------------
(* The flash.  The offsets of Flash!Walk are what a recursive function     *)
(* comes to; that there is one, and what holds of its value, is shown from *)
(* the end of the sector to its start.                                     *)

Things == [key : Keys, val : Flash!Versions \cup {TORN}]

Flashes == [1 .. Sector -> Things \cup {NONE}]

\* What cleanup buffers.
Entries == [from : 0 .. Sector, key : Keys, val : Flash!Versions \cup {TORN}]

FlashPlaces == {"idle", "fit", "write", "erase", "restore", "refit"}

RamTypes == [pc : FlashPlaces, key : Keys \cup {NONE}, val : Flash!Versions \cup {NONE},
             at : 0 .. Sector, part : Nat \ {0}, io : SUBSET Entries, erased : BOOLEAN,
             ok : BOOLEAN]

FlashTypes ==
  /\ flash \in Flashes /\ saves \in 0 .. MaxSaves
  /\ ram \in RamTypes
  /\ ram.pc # "idle" => ram.key \in Keys /\ ram.val \in Flash!Versions
  /\ ram.pc \notin {"write", "restore"} => ram.part = 1
  /\ ram.pc \notin {"erase", "restore"} => ram.io = {}

\* Behind the last object there is nothing, but for an object of one unit in
\* the last unit, which nobody sees.
Unseen(s, e, i) == i = Sector /\ e = Sector - 1 /\ Units[s[i].key] = 1

EndsClean(s) == \A i \in Flash!End(s) + 1 .. Sector : s[i] # NONE => Unseen(s, Flash!End(s), i)

LogInv == ram.pc \in {"idle", "fit", "erase", "refit"} => EndsClean(flash)

\* Behind the offset e there are n units of an object, and nothing else.
Begun(e, n, thing) ==
  /\ Flash!End(Flash!Cut(flash, e)) = e
  /\ e + Units[thing.key] <= Sector /\ n < Units[thing.key]
  /\ \A i \in 1 .. n : flash[e + i] = thing

WriteInv ==
  ram.pc = "write" =>
    /\ Begun(ram.at, ram.part - 1, Flash!Object(ram.key, ram.val))
    /\ \A i \in ram.at + ram.part .. Sector :
         flash[i] # NONE => ram.part = 1 /\ Unseen(flash, ram.at, i)

\* The entries are of different objects, and from different places, all of
\* which were seen.
IoInv(io) ==
  /\ \A o \in io : o.from + Units[o.key] <= Sector /\ o.from + 1 < Sector
  /\ \A o, p \in io :
       o # p => /\ o.key # p.key
                /\ o.from + Units[o.key] <= p.from \/ p.from + Units[p.key] <= o.from

EraseInv == /\ ram.pc = "erase" => ram.io = Flash!Buffered(flash)
            /\ ram.pc \in {"fit", "erase"} => ram.erased

\* Where the next object goes, or has begun.
Base == IF ram.part = 1 THEN Flash!End(flash) ELSE ram.at

\* What the objects of a flash take, if there is one copy of each.
Weights(s) == [k \in Keys |-> IF Flash!Copies(s, k) = {} THEN 0 ELSE Units[k]]

\* What was written back takes no more than before, so that what was not will fit.
BaseInv ==
  /\ Flash!End(Flash!Cut(flash, Base)) = Base
  /\ Base <= Flash!TotalOf(Weights(Flash!Cut(flash, Base)))
  /\ \A o \in ram.io : Base <= o.from /\ Flash!Copies(Flash!Cut(flash, Base), o.key) = {}
  /\ \A i \in Base + ram.part .. Sector : flash[i] = NONE

NextBack == Flash!Object(Flash!FirstOf(ram.io).key, Flash!FirstOf(ram.io).val)

RestoreInv ==
  ram.pc = "restore" =>
    /\ ram.erased /\ IoInv(ram.io) /\ BaseInv
    /\ IF ram.io = {} THEN ram.part = 1 ELSE Begun(Base, ram.part - 1, NextBack)

RefitInv == ram.pc = "refit" /\ ram.erased => Flash!End(flash) <= Flash!TotalOf(Weights(flash))

FlashInv == FlashTypes /\ LogInv /\ WriteInv /\ EraseInv /\ RestoreInv /\ RefitInv

\* What stands in the flash.
LEMMA ThingFacts ==
  ASSUME Flash!MgFlashAssumption, NEW s \in Flashes, NEW i \in 1 .. Sector, s[i] # NONE
  PROVE  /\ s[i] \in Things /\ s[i].key \in Keys /\ s[i].val # NONE
         /\ s[i].val \in Flash!Versions \cup {TORN}
         /\ Units[s[i].key] \in Nat /\ Units[s[i].key] >= 1
<1>1. s[i] \in Things
  BY DEF Flashes
<1>2. s[i].key \in Keys /\ s[i].val \in Flash!Versions \cup {TORN}
  BY <1>1 DEF Things
<1> QED
  BY <1>1, <1>2 DEF Flash!MgFlashAssumption, Flash!Versions

\* What mg_flash_next returns.
LEMMA NextFacts ==
  ASSUME Flash!MgFlashAssumption, NEW s \in Flashes, NEW o \in 0 .. Sector
  PROVE  /\ Flash!FlashNext(s, o) \in Nat /\ o + Flash!FlashNext(s, o) \in 0 .. Sector
         /\ Flash!FlashNext(s, o) # 0 => /\ o + 1 < Sector /\ o + 1 \in 1 .. Sector
                                         /\ s[o + 1] # NONE
                                         /\ Flash!FlashNext(s, o) = Units[s[o + 1].key]
         /\ o + 1 < Sector /\ s[o + 1] # NONE /\ o + Units[s[o + 1].key] <= Sector =>
              Flash!FlashNext(s, o) = Units[s[o + 1].key] /\ Flash!FlashNext(s, o) >= 1
<1>1. Sector \in Nat
  BY DEF Flash!MgFlashAssumption
<1>2. CASE o + 1 < Sector /\ s[o + 1] # NONE
  <2>1. o + 1 \in 1 .. Sector
    BY <1>1, <1>2
  <2>2. Units[s[o + 1].key] \in Nat /\ Units[s[o + 1].key] >= 1
    BY <1>2, <2>1, ThingFacts
  <2> QED
    BY <1>1, <1>2, <2>1, <2>2 DEF Flash!FlashNext
<1>3. CASE ~(o + 1 < Sector /\ s[o + 1] # NONE)
  <2>1. Flash!FlashNext(s, o) = 0
    BY <1>1, <1>3 DEF Flash!FlashNext
  <2> QED
    BY <1>1, <1>3, <2>1
<1> QED
  BY <1>2, <1>3

\* What holds of the last offset, and of an offset when it holds of the next
\* one, holds of all.
LEMMA Downwards ==
  ASSUME NEW N \in Nat, NEW S, N \in S, \A n \in 0 .. N : n + 1 \in S /\ n < N => n \in S
  PROVE  \A n \in 0 .. N : n \in S
<1> SUFFICES ASSUME NEW m \in 0 .. N, m \notin S PROVE FALSE
  OBVIOUS
<1> DEFINE T == {n \in 0 .. N : n \notin S}
           B == {n .. N : n \in T}
<1>1. IsFiniteSet(0 .. N)
  BY FS_Interval
<1>2. B \in SUBSET SUBSET (0 .. N) /\ B # {}
  OBVIOUS
<1>3. PICK U \in B : \A V \in B : V \subseteq U => V = U
  <2> DEFINE D == 0 .. N
  <2>1. IsFiniteSet(D) /\ B \in SUBSET SUBSET D /\ B # {}
    BY <1>1, <1>2
  <2> HIDE DEF B, D
  <2> QED
    BY <2>1, Smallest
<1>4. PICK n \in T : U = n .. N
  OBVIOUS
<1>5. n < N
  BY <1>4
<1>6. n + 1 \in T
  BY <1>4, <1>5
<1>7. n + 1 .. N \in B
  BY <1>6
<1>8. n + 1 .. N \subseteq U /\ n \in U /\ n \notin n + 1 .. N
  BY <1>4, <1>5
<1> QED
  BY <1>3, <1>7, <1>8

\* The function of Walk, from n on.
Steps(f, s, n) ==
  f = [o \in n .. Sector |->
         IF Flash!FlashNext(s, o) = 0 THEN {o} ELSE {o} \cup f[o + Flash!FlashNext(s, o)]]

WalkOf(s) == CHOOSE f : Steps(f, s, 0)

LEMMA WalkIs == \A s : Flash!Walk(s) = WalkOf(s)[0]
BY DEF Flash!Walk, WalkOf, Steps

LEMMA StepsExist ==
  ASSUME Flash!MgFlashAssumption, NEW s \in Flashes
  PROVE  Steps(WalkOf(s), s, 0)
<1> DEFINE S == {n \in 0 .. Sector : \E f : Steps(f, s, n)}
<1>1. Sector \in Nat
  BY DEF Flash!MgFlashAssumption
<1>2. Sector \in S
  <2> DEFINE f == [o \in Sector .. Sector |-> {o}]
  <2>1. Flash!FlashNext(s, Sector) = 0
    BY <1>1 DEF Flash!FlashNext
  <2>2. Steps(f, s, Sector)
    BY <1>1, <2>1 DEF Steps
  <2> QED
    BY <1>1, <2>2
<1>3. ASSUME NEW n \in 0 .. Sector, n + 1 \in S, n < Sector PROVE n \in S
  <2>1. PICK f : Steps(f, s, n + 1)
    BY <1>3
  <2> DEFINE g == [o \in n .. Sector |->
                    IF o = n THEN IF Flash!FlashNext(s, n) = 0 THEN {n}
                                  ELSE {n} \cup f[n + Flash!FlashNext(s, n)]
                    ELSE f[o]]
  <2>2. ASSUME NEW o \in n .. Sector
        PROVE  g[o] = IF Flash!FlashNext(s, o) = 0 THEN {o} ELSE {o} \cup g[o + Flash!FlashNext(s, o)]
    <3>1. Flash!FlashNext(s, o) \in Nat /\ o + Flash!FlashNext(s, o) \in 0 .. Sector
      BY <1>1, NextFacts
    <3>2. Flash!FlashNext(s, o) # 0 => /\ o + Flash!FlashNext(s, o) \in n + 1 .. Sector
                                       /\ g[o + Flash!FlashNext(s, o)] = f[o + Flash!FlashNext(s, o)]
      BY <1>1, <3>1
    <3>3. CASE o = n
      BY <3>2, <3>3
    <3>4. CASE o # n
      <4>1. o \in n + 1 .. Sector
        BY <1>1, <3>4
      <4>2. f[o] = IF Flash!FlashNext(s, o) = 0 THEN {o} ELSE {o} \cup f[o + Flash!FlashNext(s, o)]
        BY <2>1, <4>1 DEF Steps
      <4> QED
        BY <3>2, <3>4, <4>2
    <3> QED
      BY <3>3, <3>4
  <2>3. Steps(g, s, n)
    BY <2>2 DEF Steps
  <2> QED
    BY <2>3
<1>4. 0 \in S
  <2> HIDE DEF S
  <2>1. \A n \in 0 .. Sector : n \in S
    BY <1>1, <1>2, <1>3, Downwards
  <2> QED
    BY <1>1, <2>1
<1> QED
  BY <1>4 DEF WalkOf

\* What Walk comes to.
Closed(s, S) == \A o \in S : Flash!FlashNext(s, o) # 0 => o + Flash!FlashNext(s, o) \in S

Apart(s, S) == \A p, q \in S : p < q => Flash!FlashNext(s, p) # 0 /\ p + Flash!FlashNext(s, p) <= q

LEMMA WalkIsAChain ==
  ASSUME Flash!MgFlashAssumption, NEW s \in Flashes
  PROVE  /\ 0 \in Flash!Walk(s) /\ Flash!Walk(s) \subseteq 0 .. Sector
         /\ Closed(s, Flash!Walk(s)) /\ Apart(s, Flash!Walk(s))
<1> DEFINE f == WalkOf(s)
           S == {n \in 0 .. Sector : \A o \in n .. Sector :
                   /\ o \in f[o] /\ f[o] \subseteq o .. Sector
                   /\ Closed(s, f[o]) /\ Apart(s, f[o])}
<1>1. Sector \in Nat
  BY DEF Flash!MgFlashAssumption
<1>2. \A o \in 0 .. Sector :
        /\ Flash!FlashNext(s, o) \in Nat /\ o + Flash!FlashNext(s, o) \in 0 .. Sector
        /\ f[o] = IF Flash!FlashNext(s, o) = 0 THEN {o} ELSE {o} \cup f[o + Flash!FlashNext(s, o)]
  BY StepsExist, NextFacts DEF Steps
<1> HIDE DEF f
<1>3. \A o \in 0 .. Sector : Flash!FlashNext(s, o) = 0 =>
        /\ o \in f[o] /\ f[o] \subseteq o .. Sector /\ Closed(s, f[o]) /\ Apart(s, f[o])
  <2> SUFFICES ASSUME NEW o \in 0 .. Sector, Flash!FlashNext(s, o) = 0
               PROVE  /\ o \in f[o] /\ f[o] \subseteq o .. Sector
                      /\ Closed(s, f[o]) /\ Apart(s, f[o])
    OBVIOUS
  <2>1. f[o] = {o}
    BY <1>2
  <2>2. o \in o .. Sector /\ ~(o < o)
    BY <1>1
  <2>3. Closed(s, {o}) /\ Apart(s, {o})
    BY <2>2 DEF Closed, Apart
  <2> QED
    BY <2>1, <2>2, <2>3
<1>4. Sector \in S
  <2>1. Flash!FlashNext(s, Sector) = 0
    BY <1>1 DEF Flash!FlashNext
  <2>2. \A o \in Sector .. Sector : o = Sector
    BY <1>1
  <2> QED
    BY <1>1, <1>3, <2>1, <2>2
<1>5. ASSUME NEW n \in 0 .. Sector, n + 1 \in S, n < Sector PROVE n \in S
  <2>1. ASSUME Flash!FlashNext(s, n) # 0
        PROVE  /\ n \in f[n] /\ f[n] \subseteq n .. Sector
               /\ Closed(s, f[n]) /\ Apart(s, f[n])
    <3> DEFINE m == n + Flash!FlashNext(s, n)
    <3>1. m \in n + 1 .. Sector /\ f[n] = {n} \cup f[m] /\ n < m
      <4>1. Flash!FlashNext(s, n) \in Nat /\ m \in 0 .. Sector
        BY NextFacts
      <4>2. m \in n + 1 .. Sector /\ n < m
        BY <1>1, <2>1, <4>1
      <4> QED
        BY <1>2, <2>1, <4>2
    <3>2. /\ m \in f[m] /\ f[m] \subseteq m .. Sector
          /\ Closed(s, f[m]) /\ Apart(s, f[m])
      BY <1>5, <3>1
    <3>3. Closed(s, f[n])
      BY <3>1, <3>2 DEF Closed
    <3>4. ASSUME NEW p \in f[n], NEW q \in f[n], p < q
          PROVE  Flash!FlashNext(s, p) # 0 /\ p + Flash!FlashNext(s, p) <= q
      <4> HIDE DEF m
      <4>1. CASE p = n
        <5>1. q \in f[m]
          BY <1>1, <3>1, <3>4, <4>1
        <5>2. m <= q
          BY <1>1, <3>2, <5>1
        <5> QED
          BY <2>1, <4>1, <5>2 DEF m
      <4>2. CASE p # n
        <5>1. p \in f[m] /\ m <= p
          BY <1>1, <3>1, <3>2, <4>2
        <5>2. q # n
          BY <1>1, <3>1, <3>2, <3>4, <5>1
        <5> QED
          BY <3>1, <3>2, <3>4, <5>1, <5>2 DEF Apart
      <4> QED
        BY <4>1, <4>2
    <3>5. Apart(s, f[n])
      BY <3>4 DEF Apart
    <3>6. f[n] \subseteq n .. Sector
      BY <1>1, <3>1, <3>2
    <3> QED
      BY <3>1, <3>3, <3>5, <3>6
  <2>2. \A o \in n .. Sector : o = n \/ o \in n + 1 .. Sector
    BY <1>1
  <2> QED
    BY <1>3, <1>5, <2>1, <2>2
<1>6. 0 \in S
  <2> HIDE DEF S
  <2>1. \A n \in 0 .. Sector : n \in S
    BY <1>1, <1>4, <1>5, Downwards
  <2> QED
    BY <1>1, <2>1
<1>7. Flash!Walk(s) = f[0]
  BY WalkIs DEF f
<1> QED
  BY <1>1, <1>6, <1>7

\* It comes to no more than it must.
LEMMA WalkIsLeast ==
  ASSUME Flash!MgFlashAssumption, NEW s \in Flashes, NEW T, 0 \in T, Closed(s, T)
  PROVE  Flash!Walk(s) \subseteq T
<1> DEFINE f == WalkOf(s)
           S == {n \in 0 .. Sector : \A o \in n .. Sector : o \in T => f[o] \subseteq T}
<1>1. Sector \in Nat
  BY DEF Flash!MgFlashAssumption
<1>2. \A o \in 0 .. Sector :
        /\ Flash!FlashNext(s, o) \in Nat /\ o + Flash!FlashNext(s, o) \in 0 .. Sector
        /\ f[o] = IF Flash!FlashNext(s, o) = 0 THEN {o} ELSE {o} \cup f[o + Flash!FlashNext(s, o)]
  BY StepsExist, NextFacts DEF Steps
<1> HIDE DEF f
<1>3. \A o \in 0 .. Sector : Flash!FlashNext(s, o) = 0 => (o \in T => f[o] \subseteq T)
  BY <1>2
<1>4. Sector \in S
  <2>1. Flash!FlashNext(s, Sector) = 0
    BY <1>1 DEF Flash!FlashNext
  <2>2. \A o \in Sector .. Sector : o = Sector
    BY <1>1
  <2> QED
    BY <1>1, <1>3, <2>1, <2>2
<1>5. ASSUME NEW n \in 0 .. Sector, n + 1 \in S, n < Sector PROVE n \in S
  <2>1. ASSUME Flash!FlashNext(s, n) # 0, n \in T PROVE f[n] \subseteq T
    <3>1. n + Flash!FlashNext(s, n) \in n + 1 .. Sector
      <4>1. Flash!FlashNext(s, n) \in Nat /\ n + Flash!FlashNext(s, n) \in 0 .. Sector
        BY NextFacts
      <4> QED
        BY <1>1, <2>1, <4>1
    <3>2. n + Flash!FlashNext(s, n) \in T
      BY <2>1 DEF Closed
    <3> QED
      BY <1>2, <1>5, <2>1, <3>1, <3>2
  <2>2. \A o \in n .. Sector : o = n \/ o \in n + 1 .. Sector
    BY <1>1
  <2> QED
    BY <1>3, <1>5, <2>1, <2>2
<1>6. 0 \in S
  <2> HIDE DEF S
  <2>1. \A n \in 0 .. Sector : n \in S
    BY <1>1, <1>4, <1>5, Downwards
  <2> QED
    BY <1>1, <2>1
<1>7. Flash!Walk(s) = f[0]
  BY WalkIs DEF f
<1> QED
  BY <1>1, <1>6, <1>7

\* The walk ends where there is no object.
LEMMA EndFacts ==
  ASSUME Flash!MgFlashAssumption, NEW s \in Flashes
  PROVE  /\ Flash!End(s) \in Flash!Walk(s) /\ Flash!End(s) \in 0 .. Sector /\ Flash!FlashNext(s, Flash!End(s)) = 0
         /\ \A p \in Flash!Walk(s) : /\ p \in 0 .. Sector /\ p <= Flash!End(s)
                                     /\ p # Flash!End(s) => Flash!FlashNext(s, p) # 0 /\ p < Flash!End(s)
         /\ Flash!Objects(s) = Flash!Walk(s) \ {Flash!End(s)}
<1>1. Sector \in Nat
  BY DEF Flash!MgFlashAssumption
<1>2. /\ 0 \in Flash!Walk(s) /\ Flash!Walk(s) \subseteq 0 .. Sector
      /\ Closed(s, Flash!Walk(s)) /\ Apart(s, Flash!Walk(s))
  BY WalkIsAChain
<1>3. \E o \in Flash!Walk(s) : Flash!FlashNext(s, o) = 0
  <2> SUFFICES ASSUME \A o \in Flash!Walk(s) : Flash!FlashNext(s, o) # 0 PROVE FALSE
    OBVIOUS
  <2> DEFINE S == {n \in 0 .. Sector : \E p \in Flash!Walk(s) : p >= Sector - n}
  <2>1. Sector \in S
    BY <1>1, <1>2
  <2>2. ASSUME NEW n \in 0 .. Sector, n + 1 \in S, n < Sector PROVE n \in S
    <3>1. PICK p \in Flash!Walk(s) : p >= Sector - (n + 1)
      BY <2>2
    <3>2. p + Flash!FlashNext(s, p) \in Flash!Walk(s) /\ p \in 0 .. Sector /\ Flash!FlashNext(s, p) # 0
      BY <1>2 DEF Closed
    <3>3. Flash!FlashNext(s, p) \in Nat
      BY <3>2, NextFacts
    <3>4. p + Flash!FlashNext(s, p) >= Sector - n
      BY <1>1, <3>1, <3>2, <3>3
    <3> QED
      BY <3>2, <3>4
  <2>3. 0 \in S
    <3> HIDE DEF S
    <3>1. \A n \in 0 .. Sector : n \in S
      BY <1>1, <2>1, <2>2, Downwards
    <3> QED
      BY <1>1, <3>1
  <2>4. PICK p \in Flash!Walk(s) : p >= Sector - 0
    BY <2>3
  <2>5. p = Sector
    BY <1>1, <1>2, <2>4
  <2>6. Flash!FlashNext(s, Sector) = 0
    BY <1>1 DEF Flash!FlashNext
  <2> QED
    BY <2>5, <2>6
<1>4. Flash!End(s) \in Flash!Walk(s) /\ Flash!FlashNext(s, Flash!End(s)) = 0
  BY <1>3 DEF Flash!End
<1>5. Flash!End(s) \in 0 .. Sector
  BY <1>2, <1>4
<1>6. ASSUME NEW p \in Flash!Walk(s)
      PROVE  /\ p \in 0 .. Sector /\ p <= Flash!End(s)
             /\ p # Flash!End(s) => Flash!FlashNext(s, p) # 0 /\ p < Flash!End(s)
  <2>1. p \in 0 .. Sector
    BY <1>2
  <2>2. ~(Flash!End(s) < p)
    BY <1>2, <1>4 DEF Apart
  <2>3. p < Flash!End(s) => Flash!FlashNext(s, p) # 0
    BY <1>2, <1>4 DEF Apart
  <2> QED
    BY <1>1, <1>5, <2>1, <2>2, <2>3
<1>7. Flash!Objects(s) = Flash!Walk(s) \ {Flash!End(s)}
  BY <1>4, <1>6 DEF Flash!Objects
<1> QED
  BY <1>4, <1>5, <1>6, <1>7

\* What is written behind an offset does not matter before it.
LEMMA NextSame ==
  ASSUME Flash!MgFlashAssumption, NEW s \in Flashes, NEW t \in Flashes, NEW e \in 0 .. Sector,
         \A i \in 1 .. e : s[i] = t[i], NEW o \in 0 .. Sector, o < e
  PROVE  Flash!FlashNext(s, o) = Flash!FlashNext(t, o)
<1>1. o + 1 \in 1 .. e
  BY DEF Flash!MgFlashAssumption
<1>2. s[o + 1] = t[o + 1]
  BY <1>1
<1> QED
  BY <1>2 DEF Flash!FlashNext

LEMMA WalkBefore ==
  ASSUME Flash!MgFlashAssumption, NEW s \in Flashes, NEW t \in Flashes, NEW e \in 0 .. Sector,
         \A i \in 1 .. e : s[i] = t[i]
  PROVE  \A o \in Flash!Walk(s) : o <= e => o \in Flash!Walk(t)
<1> DEFINE T == {o \in Flash!Walk(s) : o <= e => o \in Flash!Walk(t)}
<1>1. /\ 0 \in Flash!Walk(s) /\ Flash!Walk(s) \subseteq 0 .. Sector /\ Closed(s, Flash!Walk(s))
      /\ 0 \in Flash!Walk(t) /\ Closed(t, Flash!Walk(t))
  BY WalkIsAChain
<1>2. Closed(s, T)
  <2> SUFFICES ASSUME NEW o \in T, Flash!FlashNext(s, o) # 0, o + Flash!FlashNext(s, o) <= e
               PROVE  o + Flash!FlashNext(s, o) \in Flash!Walk(t)
    BY <1>1 DEF Closed
  <2>1. o \in 0 .. Sector /\ Flash!FlashNext(s, o) \in Nat
    BY <1>1, NextFacts
  <2>2. o < e
    BY <2>1
  <2>3. o \in Flash!Walk(t) /\ Flash!FlashNext(t, o) = Flash!FlashNext(s, o)
    BY <2>1, <2>2, NextSame
  <2> QED
    BY <1>1, <2>3 DEF Closed
<1>3. 0 \in T
  BY <1>1
<1>4. Flash!Walk(s) \subseteq T
  <2> HIDE DEF T
  <2> QED
    BY <1>2, <1>3, WalkIsLeast
<1> QED
  BY <1>4

\* So if there is nothing to be seen at the end of a flash, one that begins
\* in the same way and has nothing there either has the same objects.
LEMMA SameObjects ==
  ASSUME Flash!MgFlashAssumption, NEW s \in Flashes, NEW t \in Flashes, NEW e \in Flash!Walk(s),
         \A i \in 1 .. e : s[i] = t[i], Flash!FlashNext(t, e) = 0
  PROVE  /\ Flash!End(t) = e /\ e \in Flash!Walk(t)
         /\ Flash!Objects(t) = {o \in Flash!Objects(s) : o < e}
         /\ \A k : Flash!Copies(t, k) = {o \in Flash!Copies(s, k) : o < e}
         /\ e = Flash!End(s) => Flash!Objects(t) = Flash!Objects(s) /\ \A k : Flash!Copies(t, k) = Flash!Copies(s, k)
<1>1. Flash!Walk(s) \subseteq 0 .. Sector /\ Flash!Walk(t) \subseteq 0 .. Sector
  BY WalkIsAChain
<1>2. e \in 0 .. Sector /\ e \in Flash!Walk(t)
  BY <1>1, WalkBefore
<1>3. Flash!End(t) = e
  BY <1>2, EndFacts
<1>4. \A o : o \in Flash!Objects(t) <=> o \in Flash!Walk(t) /\ o < e
  BY <1>1, <1>2, <1>3, EndFacts
<1>5. \A o \in 0 .. Sector : o <= e => (o \in Flash!Walk(s) <=> o \in Flash!Walk(t))
  BY <1>2, WalkBefore
<1>6. \A o : o \in Flash!Objects(s) /\ o < e <=> o \in Flash!Walk(s) /\ o < e
  BY <1>1, <1>2, EndFacts
<1>7. \A o : o \in Flash!Objects(t) <=> o \in Flash!Objects(s) /\ o < e
  BY <1>1, <1>2, <1>4, <1>5, <1>6
<1>8. Flash!Objects(t) = {o \in Flash!Objects(s) : o < e}
  BY <1>7
<1>9. \A o \in Flash!Objects(t) : s[o + 1] = t[o + 1]
  <2> SUFFICES ASSUME NEW o \in Flash!Objects(t) PROVE o + 1 \in 1 .. e
    OBVIOUS
  <2>1. o \in 0 .. Sector /\ o < e
    BY <1>1, <1>4
  <2> QED
    BY <1>2, <2>1 DEF Flash!MgFlashAssumption
<1>10. \A k : Flash!Copies(t, k) = {o \in Flash!Copies(s, k) : o < e}
  BY <1>8, <1>9 DEF Flash!Copies
<1>11. e = Flash!End(s) => \A o \in Flash!Objects(s) : o < e
  BY <1>1, EndFacts
<1>12. e = Flash!End(s) => Flash!Objects(t) = Flash!Objects(s) /\ \A k : Flash!Copies(t, k) = Flash!Copies(s, k)
  BY <1>8, <1>10, <1>11 DEF Flash!Copies
<1> QED
  BY <1>2, <1>3, <1>8, <1>10, <1>12

\* A set of offsets has a largest and a smallest one.
LEMMA Extremes ==
  ASSUME NEW N \in Nat, NEW A \in SUBSET (0 .. N), A # {}
  PROVE  /\ \E m \in A : \A p \in A : p <= m
         /\ \E m \in A : \A p \in A : m <= p
<1> DEFINE D == 0 .. N
           Ups == {m .. N : m \in A}
           Downs == {0 .. m : m \in A}
<1>1. IsFiniteSet(D)
  BY FS_Interval
<1>2. Ups \in SUBSET SUBSET D /\ Ups # {} /\ Downs \in SUBSET SUBSET D /\ Downs # {}
  <2>1. \A m \in A : m .. N \subseteq D /\ 0 .. m \subseteq D
    OBVIOUS
  <2>2. Ups \in SUBSET SUBSET D /\ Downs \in SUBSET SUBSET D
    BY <2>1
  <2>3. Ups # {} /\ Downs # {}
    OBVIOUS
  <2> QED
    BY <2>2, <2>3
<1>3. PICK U \in Ups : \A V \in Ups : V \subseteq U => V = U
  <2> HIDE DEF Ups, D
  <2> QED
    BY <1>1, <1>2, Smallest
<1>4. PICK W \in Downs : \A V \in Downs : V \subseteq W => V = W
  <2> HIDE DEF Downs, D
  <2> QED
    BY <1>1, <1>2, Smallest
<1>5. PICK m \in A : U = m .. N
  OBVIOUS
<1>6. PICK n \in A : W = 0 .. n
  OBVIOUS
<1>7. ASSUME NEW p \in A PROVE p <= m
  <2> SUFFICES ASSUME m < p PROVE FALSE
    OBVIOUS
  <2>1. p .. N \in Ups /\ p .. N \subseteq U
    BY <1>5
  <2>2. m \in U /\ m \notin p .. N
    BY <1>5
  <2> QED
    BY <1>3, <2>1, <2>2
<1>8. ASSUME NEW p \in A PROVE n <= p
  <2> SUFFICES ASSUME p < n PROVE FALSE
    OBVIOUS
  <2>1. 0 .. p \in Downs /\ 0 .. p \subseteq W
    BY <1>6
  <2>2. n \in W /\ n \notin 0 .. p
    BY <1>6
  <2> QED
    BY <1>4, <2>1, <2>2
<1> QED
  BY <1>7, <1>8

\* Where the copies of an object are.
LEMMA CopyFacts ==
  ASSUME Flash!MgFlashAssumption, NEW s \in Flashes, NEW k, NEW o \in Flash!Copies(s, k)
  PROVE  /\ o \in Flash!Objects(s) /\ o \in Flash!Walk(s) /\ o \in 0 .. Sector /\ o + 1 \in 1 .. Sector
         /\ o + 1 < Sector
         /\ s[o + 1] \in Things /\ s[o + 1].key = k /\ k \in Keys
         /\ s[o + 1].val \in Flash!Versions \cup {TORN} /\ s[o + 1].val # NONE
         /\ Flash!FlashNext(s, o) = Units[k] /\ Units[k] \in Nat /\ Units[k] >= 1
         /\ o + Units[k] <= Flash!End(s) /\ Flash!End(s) \in 0 .. Sector
<1>1. o \in Flash!Objects(s) /\ s[o + 1].key = k
  BY DEF Flash!Copies
<1>2. o \in Flash!Walk(s) /\ Flash!FlashNext(s, o) # 0
  BY <1>1 DEF Flash!Objects
<1>3. o \in 0 .. Sector
  BY <1>2, EndFacts
<1>4. o + 1 < Sector /\ o + 1 \in 1 .. Sector /\ s[o + 1] # NONE /\ Flash!FlashNext(s, o) = Units[k]
  BY <1>1, <1>2, <1>3, NextFacts
<1>5. /\ s[o + 1] \in Things /\ k \in Keys
      /\ s[o + 1].val \in Flash!Versions \cup {TORN} /\ s[o + 1].val # NONE
      /\ Units[k] \in Nat /\ Units[k] >= 1
  BY <1>1, <1>4, ThingFacts
<1>6. o + Flash!FlashNext(s, o) \in Flash!Walk(s)
  BY <1>2, WalkIsAChain DEF Closed
<1>7. o + Flash!FlashNext(s, o) <= Flash!End(s) /\ Flash!End(s) \in 0 .. Sector
  BY <1>6, EndFacts
<1> QED
  BY <1>1, <1>2, <1>3, <1>4, <1>5, <1>7

LEMMA NewestFacts ==
  ASSUME Flash!MgFlashAssumption, NEW s \in Flashes, NEW k, Flash!Copies(s, k) # {}
  PROVE  /\ Flash!Newest(s, k) \in Flash!Copies(s, k)
         /\ \A p \in Flash!Copies(s, k) : p <= Flash!Newest(s, k)
<1>1. Flash!Copies(s, k) \in SUBSET (0 .. Sector)
  BY CopyFacts
<1>2. Sector \in Nat
  BY DEF Flash!MgFlashAssumption
<1>3. \E m \in Flash!Copies(s, k) : \A p \in Flash!Copies(s, k) : p <= m
  BY <1>1, <1>2, Extremes
<1> QED
  BY <1>3 DEF Flash!Newest

LEMMA LoadFacts ==
  ASSUME Flash!MgFlashAssumption, NEW s \in Flashes, NEW k
  PROVE  /\ Flash!Load(s, k) = NONE <=> Flash!Copies(s, k) = {}
         /\ Flash!Load(s, k) \in Flash!Versions \cup {TORN, NONE}
         /\ Flash!Copies(s, k) # {} => Flash!Load(s, k) \in Flash!Versions \cup {TORN}
<1>1. CASE Flash!Copies(s, k) = {}
  BY <1>1 DEF Flash!Load
<1>2. CASE Flash!Copies(s, k) # {}
  <2>1. s[Flash!Newest(s, k) + 1].val \in Flash!Versions \cup {TORN}
    BY <1>2, NewestFacts, CopyFacts
  <2>2. Flash!Load(s, k) \in Flash!Versions \cup {TORN}
    BY <1>2, <2>1 DEF Flash!Load, Flash!ValueAt
  <2>3. NONE \notin Flash!Versions \cup {TORN}
    BY DEF Flash!MgFlashAssumption, Flash!Versions
  <2> QED
    BY <1>2, <2>2, <2>3
<1> QED
  BY <1>1, <1>2

\* What the newest copies are found to be, where they are the same.
LEMMA SameValue ==
  ASSUME Flash!MgFlashAssumption, NEW s \in Flashes, NEW t \in Flashes, NEW k,
         NEW o \in Flash!Copies(s, k), NEW e \in 0 .. Sector, o + Units[k] <= e,
         \A i \in 1 .. e : s[i] = t[i]
  PROVE  Flash!ValueAt(s, o) = Flash!ValueAt(t, o)
<1>1. /\ o \in 0 .. Sector /\ Units[k] \in Nat /\ Units[k] >= 1 /\ s[o + 1].key = k
      /\ Sector \in Nat
  BY CopyFacts DEF Flash!MgFlashAssumption
<1>2. \A i \in 1 .. Units[k] : o + i \in 1 .. e
  BY <1>1
<1>3. s[o + 1] = t[o + 1]
  BY <1>1, <1>2
<1>4. \A i \in 1 .. Units[k] : s[o + i] = t[o + i]
  BY <1>2
<1> QED
  BY <1>1, <1>3, <1>4 DEF Flash!ValueAt

LEMMA SameLoad ==
  ASSUME Flash!MgFlashAssumption, NEW s \in Flashes, NEW t \in Flashes, NEW k,
         Flash!Copies(s, k) = Flash!Copies(t, k), \A i \in 1 .. Flash!End(s) : s[i] = t[i]
  PROVE  Flash!Load(s, k) = Flash!Load(t, k)
<1>1. CASE Flash!Copies(s, k) = {}
  BY <1>1 DEF Flash!Load
<1>2. CASE Flash!Copies(s, k) # {}
  <2>1. Flash!Newest(s, k) \in Flash!Copies(s, k) /\ Flash!Newest(s, k) = Flash!Newest(t, k)
    BY <1>2, NewestFacts DEF Flash!Newest
  <2>2. Flash!Newest(s, k) + Units[k] <= Flash!End(s) /\ Flash!End(s) \in 0 .. Sector
    BY <2>1, CopyFacts
  <2>3. Flash!ValueAt(s, Flash!Newest(s, k)) = Flash!ValueAt(t, Flash!Newest(s, k))
    BY <2>1, <2>2, SameValue
  <2> QED
    BY <1>2, <2>1, <2>3 DEF Flash!Load
<1> QED
  BY <1>1, <1>2

\* A flash as far as an offset.
LEMMA CutFacts ==
  ASSUME Flash!MgFlashAssumption, NEW s \in Flashes, NEW e \in 0 .. Sector
  PROVE  /\ Flash!Cut(s, e) \in Flashes
         /\ \A i \in 1 .. e : Flash!Cut(s, e)[i] = s[i]
         /\ \A i \in 1 .. Sector : i > e => Flash!Cut(s, e)[i] = NONE
         /\ Flash!FlashNext(Flash!Cut(s, e), e) = 0
<1>1. Sector \in Nat
  BY DEF Flash!MgFlashAssumption
<1>2. Flash!Cut(s, e) \in Flashes
  BY DEF Flashes, Flash!Cut
<1>3. \A i \in 1 .. e : Flash!Cut(s, e)[i] = s[i]
  BY <1>1 DEF Flash!Cut
<1>4. \A i \in 1 .. Sector : i > e => Flash!Cut(s, e)[i] = NONE
  BY DEF Flash!Cut
<1>5. Flash!FlashNext(Flash!Cut(s, e), e) = 0
  <2>1. e < Sector => Flash!Cut(s, e)[e + 1] = NONE
    BY <1>1, <1>4
  <2> QED
    BY <1>1, <2>1 DEF Flash!FlashNext
<1> QED
  BY <1>2, <1>3, <1>4, <1>5

LEMMA CutAtEnd ==
  ASSUME Flash!MgFlashAssumption, NEW s \in Flashes
  PROVE  /\ Flash!End(Flash!Cut(s, Flash!End(s))) = Flash!End(s)
         /\ \A k : Flash!Copies(Flash!Cut(s, Flash!End(s)), k) = Flash!Copies(s, k)
         /\ \A k : Flash!Load(Flash!Cut(s, Flash!End(s)), k) = Flash!Load(s, k)
<1> DEFINE e == Flash!End(s)
           t == Flash!Cut(s, e)
<1>1. e \in 0 .. Sector /\ e \in Flash!Walk(s)
  BY EndFacts
<1>2. t \in Flashes /\ (\A i \in 1 .. e : t[i] = s[i]) /\ Flash!FlashNext(t, e) = 0
  BY <1>1, CutFacts
<1>3. Flash!End(t) = e /\ \A k : Flash!Copies(t, k) = Flash!Copies(s, k)
  <2> HIDE DEF t
  <2> QED
    BY <1>1, <1>2, SameObjects
<1>4. \A k : Flash!Load(t, k) = Flash!Load(s, k)
  <2> HIDE DEF t
  <2> QED
    BY <1>2, <1>3, SameLoad
<1> QED
  BY <1>3, <1>4

\* One more object.
LEMMA Appended ==
  ASSUME Flash!MgFlashAssumption, NEW s \in Flashes, NEW t \in Flashes, NEW e, e = Flash!End(s),
         \A i \in 1 .. e : s[i] = t[i],
         NEW k \in Keys, e + 1 < Sector, t[e + 1] # NONE, t[e + 1].key = k,
         e + Units[k] <= Sector, Flash!FlashNext(t, e + Units[k]) = 0
  PROVE  /\ Flash!End(t) = e + Units[k]
         /\ Flash!Copies(t, k) = Flash!Copies(s, k) \cup {e}
         /\ Flash!Load(t, k) = Flash!ValueAt(t, e)
         /\ \A l : l # k => Flash!Copies(t, l) = Flash!Copies(s, l) /\ Flash!Load(t, l) = Flash!Load(s, l)
<1> DEFINE c == Flash!Cut(t, e)
           f == e + Units[k]
<1>1. /\ Sector \in Nat /\ Units[k] \in Nat /\ Units[k] >= 1
      /\ e \in 0 .. Sector /\ e \in Flash!Walk(s) /\ Flash!FlashNext(s, e) = 0
  BY EndFacts DEF Flash!MgFlashAssumption
<1>2. f \in 0 .. Sector
  BY <1>1
<1>3. e \in Flash!Walk(t) /\ Flash!FlashNext(t, e) = Units[k]
  <2>1. e \in Flash!Walk(t)
    BY <1>1, WalkBefore
  <2>2. Flash!FlashNext(t, e) = Units[k]
    BY <1>1, NextFacts
  <2> QED
    BY <2>1, <2>2
<1>4. f \in Flash!Walk(t)
  BY <1>1, <1>3, WalkIsAChain DEF Closed
<1>5. Flash!End(t) = f
  <2> HIDE DEF f
  <2> QED
    BY <1>4, EndFacts DEF f
<1>6. /\ c \in Flashes /\ Flash!FlashNext(c, e) = 0
      /\ \A i \in 1 .. e : s[i] = c[i] /\ t[i] = c[i]
  BY <1>1, CutFacts
<1> HIDE DEF c, f
<1>7. \A l : Flash!Copies(c, l) = Flash!Copies(s, l)
  BY <1>1, <1>6, SameObjects
<1>8. \A l : Flash!Copies(c, l) = {o \in Flash!Copies(t, l) : o < e}
  BY <1>3, <1>6, SameObjects
<1>9. e \in Flash!Objects(t)
  BY <1>1, <1>3 DEF Flash!Objects
<1>10. \A o \in Flash!Objects(t) : o < e \/ o = e
  <2> SUFFICES ASSUME NEW o \in Flash!Objects(t), ~(o < e), o # e PROVE FALSE
    OBVIOUS
  <2>1. o \in Flash!Walk(t) /\ o \in 0 .. Sector /\ o < f
    BY <1>5, EndFacts
  <2>2. e < o
    BY <1>1, <2>1
  <2>3. e + Flash!FlashNext(t, e) <= o
    BY <1>3, <2>1, <2>2, WalkIsAChain DEF Apart
  <2> QED
    BY <1>1, <1>2, <1>3, <2>1, <2>3 DEF f
<1>11. Flash!Copies(t, k) = Flash!Copies(s, k) \cup {e}
  BY <1>7, <1>8, <1>9, <1>10 DEF Flash!Copies
<1>12. \A l : l # k => Flash!Copies(t, l) = Flash!Copies(s, l)
  <2> SUFFICES ASSUME NEW l, l # k PROVE Flash!Copies(t, l) = {o \in Flash!Copies(t, l) : o < e}
    BY <1>7, <1>8
  <2>1. \A o \in Flash!Copies(t, l) : o # e
    BY DEF Flash!Copies
  <2> QED
    BY <1>10, <2>1 DEF Flash!Copies
<1>13. \A l : l # k => Flash!Load(t, l) = Flash!Load(s, l)
  BY <1>12, SameLoad
<1>14. Flash!Newest(t, k) = e
  <2>1. \A p \in Flash!Copies(t, k) : p <= e /\ p \in 0 .. Sector
    BY <1>1, <1>10, CopyFacts DEF Flash!Copies
  <2>2. e \in Flash!Copies(t, k)
    BY <1>11
  <2>3. Flash!Newest(t, k) \in Flash!Copies(t, k) /\ e <= Flash!Newest(t, k)
    BY <2>2, NewestFacts
  <2> QED
    BY <1>1, <2>1, <2>3
<1>15. Flash!Load(t, k) = Flash!ValueAt(t, e)
  BY <1>11, <1>14 DEF Flash!Load
<1> QED
  BY <1>5, <1>11, <1>12, <1>13, <1>15 DEF f

\* Nothing to be seen behind e.
LEMMA NothingBehind ==
  ASSUME Flash!MgFlashAssumption, NEW t \in Flashes, NEW e \in 0 .. Sector,
         Flash!End(Flash!Cut(t, e)) = e,
         \A i \in e + 1 .. Sector : t[i] # NONE => Unseen(t, e, i)
  PROVE  /\ Flash!End(t) = e /\ EndsClean(t)
         /\ \A k : Flash!Copies(t, k) = Flash!Copies(Flash!Cut(t, e), k) /\ Flash!Load(t, k) = Flash!Load(Flash!Cut(t, e), k)
<1> DEFINE c == Flash!Cut(t, e)
<1>1. Sector \in Nat
  BY DEF Flash!MgFlashAssumption
<1>2. c \in Flashes /\ (\A i \in 1 .. e : c[i] = t[i]) /\ Flash!End(c) = e
  BY CutFacts
<1> HIDE DEF c
<1>3. e \in Flash!Walk(t)
  BY <1>2, EndFacts, WalkBefore
<1>4. Flash!FlashNext(t, e) = 0
  <2>1. CASE e + 1 < Sector
    <3>1. e + 1 \in e + 1 .. Sector
      BY <1>1, <2>1
    <3>2. t[e + 1] = NONE
      BY <1>1, <2>1, <3>1 DEF Unseen
    <3> QED
      BY <3>2 DEF Flash!FlashNext
  <2>2. CASE ~(e + 1 < Sector)
    BY <1>1, <2>2 DEF Flash!FlashNext
  <2> QED
    BY <2>1, <2>2
<1>5. Flash!End(t) = e
  BY <1>3, <1>4, EndFacts
<1>6. EndsClean(t)
  BY <1>5 DEF EndsClean
<1> QED
  BY <1>5, <1>6, CutAtEnd DEF c

\* The first n units of an object behind e, and nothing behind them.
LEMMA BegunThere ==
  ASSUME Flash!MgFlashAssumption, NEW t \in Flashes, NEW e \in 0 .. Sector, NEW thing \in Things,
         NEW n \in Nat, n >= 1, n <= Units[thing.key], e + Units[thing.key] <= Sector,
         e + 1 < Sector, Flash!End(Flash!Cut(t, e)) = e,
         \A i \in 1 .. n : t[e + i] = thing,
         \A i \in e + n + 1 .. Sector : t[i] = NONE
  PROVE  /\ Flash!End(t) = e + Units[thing.key] /\ EndsClean(t)
         /\ e \in Flash!Copies(t, thing.key)
         /\ Flash!Load(t, thing.key) = IF n = Units[thing.key] THEN thing.val ELSE TORN
         /\ \A l : l # thing.key => /\ Flash!Copies(t, l) = Flash!Copies(Flash!Cut(t, e), l)
                                    /\ Flash!Load(t, l) = Flash!Load(Flash!Cut(t, e), l)
<1> DEFINE c == Flash!Cut(t, e)
           k == thing.key
           f == e + Units[k]
<1>1. Sector \in Nat /\ k \in Keys /\ Units[k] \in Nat /\ Units[k] >= 1
  BY DEF Flash!MgFlashAssumption, Things
<1>2. c \in Flashes /\ (\A i \in 1 .. e : c[i] = t[i]) /\ Flash!End(c) = e
  BY CutFacts
<1> HIDE DEF c
<1>3. t[e + 1] = thing /\ t[e + 1] # NONE
  <2>1. 1 \in 1 .. n
    OBVIOUS
  <2>2. thing # NONE
    BY DEF Flash!MgFlashAssumption, Things, Flash!Versions
  <2> QED
    BY <2>1, <2>2
<1>4. f \in 0 .. Sector /\ \A i \in f + 1 .. Sector : i \in e + n + 1 .. Sector
  BY <1>1
<1>5. Flash!FlashNext(t, f) = 0
  <2>1. f < Sector => f + 1 \in f + 1 .. Sector
    BY <1>1, <1>4
  <2>2. f < Sector => t[f + 1] = NONE
    BY <1>4, <2>1
  <2> QED
    BY <1>1, <1>4, <2>2 DEF Flash!FlashNext
<1>6. /\ Flash!End(t) = f
      /\ Flash!Copies(t, k) = Flash!Copies(c, k) \cup {e}
      /\ Flash!Load(t, k) = Flash!ValueAt(t, e)
      /\ \A l : l # k => Flash!Copies(t, l) = Flash!Copies(c, l) /\ Flash!Load(t, l) = Flash!Load(c, l)
  <2>1. t[e + 1].key = k
    BY <1>3
  <2> HIDE DEF k
  <2> QED
    BY <1>1, <1>2, <1>3, <1>4, <1>5, <2>1, Appended DEF f
<1>7. Flash!ValueAt(t, e) = IF n = Units[k] THEN thing.val ELSE TORN
  <2>1. CASE n = Units[k]
    <3>1. \A i \in 1 .. Units[k] : t[e + i] # NONE
      BY <1>3, <2>1
    <3> QED
      BY <1>3, <2>1, <3>1 DEF Flash!ValueAt
  <2>2. CASE n # Units[k]
    <3>1. n + 1 \in 1 .. Units[k] /\ e + (n + 1) \in e + n + 1 .. Sector
      BY <1>1, <2>2
    <3>2. t[e + (n + 1)] = NONE
      BY <3>1
    <3> QED
      BY <1>3, <2>2, <3>1, <3>2 DEF Flash!ValueAt
  <2> QED
    BY <2>1, <2>2
<1>8. EndsClean(t)
  BY <1>4, <1>6 DEF EndsClean
<1> QED
  BY <1>6, <1>7, <1>8 DEF c

\* One more unit.
LEMMA Programmed ==
  ASSUME Flash!MgFlashAssumption, flash \in Flashes, NEW e \in 0 .. Sector, NEW p \in Nat, p >= 1,
         e + p <= Sector, NEW thing \in Things, Flash!Program(e + p - 1, thing),
         e + p - 1 = 0 \/ flash[e + p] = NONE,
         \A i \in e + p + 1 .. Sector : flash[i] = NONE
  PROVE  /\ flash' \in Flashes /\ flash'[e + p] = thing
         /\ \A i \in 1 .. Sector : i # e + p => flash'[i] = flash[i]
         /\ Flash!Cut(flash', e) = Flash!Cut(flash, e)
<1>1. Sector \in Nat /\ e + p \in 1 .. Sector /\ (e + p - 1) + 1 = e + p
  BY DEF Flash!MgFlashAssumption
<1>2. CASE e + p - 1 = 0
  <2>1. e + p = 1
    BY <1>1, <1>2
  <2>2. flash' = [i \in 1 .. Sector |-> IF i = 1 THEN thing ELSE NONE]
    BY <1>2 DEF Flash!Program
  <2>3. \A i \in 1 .. Sector : i # 1 => flash[i] = NONE
    BY <1>1, <2>1
  <2> QED
    BY <1>1, <2>1, <2>2, <2>3 DEF Flashes, Flash!Cut
<1>3. CASE e + p - 1 # 0
  <2>1. flash[e + p] = NONE
    BY <1>3
  <2>2. flash' = [flash EXCEPT ![e + p] = thing]
    BY <1>1, <1>3, <2>1 DEF Flash!Program
  <2>3. /\ flash' \in Flashes /\ flash'[e + p] = thing
        /\ \A i \in 1 .. Sector : i # e + p => flash'[i] = flash[i]
    BY <1>1, <2>2 DEF Flashes
  <2>4. Flash!Cut(flash', e) = Flash!Cut(flash, e)
    BY <1>1, <2>3 DEF Flash!Cut
  <2> QED
    BY <2>3, <2>4
<1> QED
  BY <1>2, <1>3

LEMMA FlashFinite == \A S : Flash!IsFiniteSet(S) <=> IsFiniteSet(S)
BY DEF Flash!IsFiniteSet, IsFiniteSet

\* The units that objects take are summed up like the bytes of a map.
LEMMA TotalIsBytes == \A f : Flash!TotalOf(f) = Gc!Bytes(f)
BY DEF Flash!TotalOf, Flash!MapThenSumSet, Flash!MapThenFoldSet, Gc!Bytes, Gc!MapThenSumSet, Gc!MapThenFoldSet

\* What objects take, when one is added.
LEMMA WeightsGrow ==
  ASSUME Flash!MgFlashAssumption, NEW s, NEW t, NEW k \in Keys, Flash!Copies(s, k) = {}, Flash!Copies(t, k) # {},
         \A l : l # k => Flash!Copies(t, l) = Flash!Copies(s, l)
  PROVE  Flash!TotalOf(Weights(t)) = Flash!TotalOf(Weights(s)) + Units[k]
<1> DEFINE f == Weights(s)
           h == Weights(t)
           o == [l \in Keys \ {k} |-> f[l]]
<1>1. /\ DOMAIN f = Keys /\ DOMAIN h = Keys /\ DOMAIN o = Keys \ {k}
      /\ \A l \in Keys : f[l] \in Int /\ h[l] \in Int
      /\ f[k] = 0 /\ h[k] = Units[k] /\ Units[k] \in Int
      /\ \A l \in Keys \ {k} : o[l] = f[l] /\ o[l] = h[l] /\ o[l] \in Int
  BY DEF Weights, Flash!MgFlashAssumption
<1> HIDE DEF f, h, o
<1>2. IsFiniteSet(Keys) /\ IsFiniteSet(Keys \ {k})
  BY FlashFinite, FS_Subset DEF Flash!MgFlashAssumption
<1>3. Flash!TotalOf(f) = Flash!TotalOf(o) + f[k]
  BY <1>1, <1>2, BytesAdd, TotalIsBytes
<1>4. Flash!TotalOf(h) = Flash!TotalOf(o) + h[k]
  BY <1>1, <1>2, BytesAdd, TotalIsBytes
<1>5. Flash!TotalOf(o) \in Int
  BY <1>1, <1>2, BytesAdd, TotalIsBytes
<1>6. Flash!TotalOf(f) = Flash!TotalOf(o) /\ Flash!TotalOf(h) = Flash!TotalOf(f) + Units[k]
  BY <1>1, <1>3, <1>4, <1>5
<1> QED
  BY <1>6 DEF f, h

LEMMA WeightsNatural ==
  ASSUME Flash!MgFlashAssumption, NEW s
  PROVE  Flash!TotalOf(Weights(s)) \in Nat
<1> DEFINE f == Weights(s)
<1>1. DOMAIN f = Keys /\ (\A l \in Keys : f[l] \in Nat) /\ IsFiniteSet(Keys)
  BY FlashFinite DEF Weights, Flash!MgFlashAssumption
<1> HIDE DEF f
<1>2. Sums(SumsOf(f, Keys), f, Keys)
  BY <1>1, SumsExist
<1>3. SumsOf(f, Keys)[Keys] \in Nat
  BY <1>1, <1>2, SumsNatural
<1>4. Flash!TotalOf(f) = SumsOf(f, DOMAIN f)[DOMAIN f]
  BY BytesIsSum, TotalIsBytes
<1> QED
  BY <1>1, <1>3, <1>4 DEF f

\* Weights and loads tell apart the same keys.
LEMMA WeightsAreTaken ==
  ASSUME Flash!MgFlashAssumption, NEW s \in Flashes
  PROVE  Weights(s) = [k \in Keys |-> IF Flash!Load(s, k) = NONE THEN 0 ELSE Units[k]]
BY LoadFacts DEF Weights

-----------------------------------------------------------------------------
\* What Stored is, of a flash s and a call r.
StoredIn(s, r, k) ==
  CASE r.pc = "write" -> Flash!Load(Flash!Cut(s, r.at), k)
    [] r.pc = "restore" /\ (\E o \in r.io : o.key = k) -> (CHOOSE o \in r.io : o.key = k).val
    [] r.pc = "restore" /\ (\A o \in r.io : o.key # k) ->
         Flash!Load(IF r.part > 1 THEN Flash!Cut(s, r.at) ELSE s, k)
    [] r.pc \notin {"write", "restore"} -> Flash!Load(s, k)

LEMMA StoredIs == \A k : /\ Flash!Stored(k) = StoredIn(flash, ram, k)
                         /\ Flash!Stored(k)' = StoredIn(flash', ram', k)
BY DEF Flash!Stored, StoredIn

LEMMA StoredFacts ==
  ASSUME NEW s, NEW r, NEW k
  PROVE  /\ r.pc \notin {"write", "restore"} => StoredIn(s, r, k) = Flash!Load(s, k)
         /\ r.pc = "write" => StoredIn(s, r, k) = Flash!Load(Flash!Cut(s, r.at), k)
         /\ r.pc = "restore" /\ (\A o \in r.io : o.key # k) =>
              StoredIn(s, r, k) = Flash!Load(IF r.part > 1 THEN Flash!Cut(s, r.at) ELSE s, k)
         /\ \A q \in r.io : r.pc = "restore" /\ (\A o \in r.io : o.key = k => o = q) /\ q.key = k =>
              StoredIn(s, r, k) = q.val
<1>1. r.pc \notin {"write", "restore"} => StoredIn(s, r, k) = Flash!Load(s, k)
  BY DEF StoredIn
<1>2. r.pc = "write" => StoredIn(s, r, k) = Flash!Load(Flash!Cut(s, r.at), k)
  BY DEF StoredIn
<1>3. r.pc = "restore" /\ (\A o \in r.io : o.key # k) =>
        StoredIn(s, r, k) = Flash!Load(IF r.part > 1 THEN Flash!Cut(s, r.at) ELSE s, k)
  BY DEF StoredIn
<1>4. ASSUME NEW q \in r.io, r.pc = "restore", \A o \in r.io : o.key = k => o = q, q.key = k
      PROVE  StoredIn(s, r, k) = q.val
  <2>1. (CHOOSE o \in r.io : o.key = k) = q
    BY <1>4
  <2> QED
    BY <1>4, <2>1 DEF StoredIn
<1> QED
  BY <1>1, <1>2, <1>3, <1>4

LEMMA StoredOutside ==
  /\ ram.pc \notin {"write", "restore"} => \A k : Flash!Stored(k) = Flash!Load(flash, k)
  /\ ram'.pc \notin {"write", "restore"} => \A k : Flash!Stored(k)' = Flash!Load(flash', k)
BY StoredIs, StoredFacts

LEMMA StoredWriting ==
  /\ ram.pc = "write" => \A k : Flash!Stored(k) = Flash!Load(Flash!Cut(flash, ram.at), k)
  /\ ram'.pc = "write" => \A k : Flash!Stored(k)' = Flash!Load(Flash!Cut(flash', ram'.at), k)
BY StoredIs, StoredFacts

LEMMA StoredRestoring ==
  /\ ram.pc = "restore" => \A k : (\A o \in ram.io : o.key # k) =>
       Flash!Stored(k) = Flash!Load(IF ram.part > 1 THEN Flash!Cut(flash, ram.at) ELSE flash, k)
  /\ ram.pc = "restore" => \A k : \A q \in ram.io :
       (\A o \in ram.io : o.key = k => o = q) /\ q.key = k => Flash!Stored(k) = q.val
  /\ ram'.pc = "restore" => \A k : (\A o \in ram'.io : o.key # k) =>
       Flash!Stored(k)' = Flash!Load(IF ram'.part > 1 THEN Flash!Cut(flash', ram'.at) ELSE flash', k)
  /\ ram'.pc = "restore" => \A k : \A q \in ram'.io :
       (\A o \in ram'.io : o.key = k => o = q) /\ q.key = k => Flash!Stored(k)' = q.val
BY StoredIs, StoredFacts

\* The fields of a call.
LEMMA RamFacts ==
  ASSUME FlashTypes
  PROVE  /\ ram.pc \in FlashPlaces /\ ram.at \in 0 .. Sector /\ ram.part \in Nat /\ ram.part >= 1
         /\ ram.io \subseteq Entries /\ ram.erased \in BOOLEAN
         /\ ram.pc # "idle" => ram.key \in Keys /\ ram.val \in Flash!Versions
         /\ ram.pc # "idle" => Flash!Object(ram.key, ram.val) \in Things
<1>1. /\ ram.pc \in FlashPlaces /\ ram.at \in 0 .. Sector /\ ram.part \in Nat \ {0}
      /\ ram.io \subseteq Entries /\ ram.erased \in BOOLEAN
  BY DEF FlashTypes, RamTypes
<1>2. ram.pc # "idle" => ram.key \in Keys /\ ram.val \in Flash!Versions
  BY DEF FlashTypes
<1>3. ram.pc # "idle" => Flash!Object(ram.key, ram.val) \in Things
  BY <1>2 DEF Flash!Object, Things
<1> QED
  BY <1>1, <1>2, <1>3

\* The steps of a store.
StoreStep == (Flash!Store!Next \/ UNCHANGED Flash!Store!vars) /\ Flash!AnswersTruly

LEMMA StoreStays ==
  ASSUME \A k \in Keys : Flash!Stored(k)' = Flash!Stored(k), ram.pc # "idle", ram'.pc # "idle",
         ram'.key = ram.key, ram'.val = ram.val
  PROVE  StoreStep
BY DEF StoreStep, Flash!AnswersTruly, Flash!Store!vars

LEMMA StoreBegins ==
  ASSUME \A k \in Keys : Flash!Stored(k)' = Flash!Stored(k), ram.pc = "idle", ram'.pc # "idle",
         ram'.key \in Keys, ram'.val \in Flash!Versions
  PROVE  StoreStep
BY DEF StoreStep, Flash!AnswersTruly, Flash!Store!Next, Flash!Store!Begin

LEMMA StoreRefuses ==
  ASSUME \A k \in Keys : Flash!Stored(k)' = Flash!Stored(k), ram.pc # "idle", ram'.pc = "idle", ~ram'.ok
  PROVE  StoreStep
BY DEF StoreStep, Flash!AnswersTruly, Flash!Store!Next, Flash!Store!Refuse

LEMMA StoreSaves ==
  ASSUME ram.pc # "idle", ram'.pc = "idle", ram'.ok,
         \/ \A k \in Keys : Flash!Stored(k)' = IF k = ram.key THEN ram.val ELSE Flash!Stored(k)
         \/ ram.key \in Flash!Small /\ \A k \in Keys : Flash!Stored(k)' = Flash!Stored(k)
  PROVE  StoreStep
BY DEF StoreStep, Flash!AnswersTruly, Flash!Store!Next, Flash!Store!Save

LEMMA StoreTears ==
  ASSUME ram.pc # "idle", ram'.pc = "idle", ~ram'.ok,
         \A k \in Keys : Flash!Stored(k)' = IF k = ram.key THEN TORN ELSE Flash!Stored(k)
  PROVE  StoreStep
BY DEF StoreStep, Flash!AnswersTruly, Flash!Store!Next, Flash!Store!PowerLoss, Flash!Store!Interrupt

LEMMA StoreWiped ==
  ASSUME ram.pc # "idle", ram'.pc = "idle", ~ram'.ok,
         \A k \in Keys : /\ Flash!Stored(k)' \in Flash!Versions \cup {NONE, TORN}
                         /\ Flash!Stored(k)' \in {Flash!Stored(k), NONE, TORN}
  PROVE  StoreStep
BY DEF StoreStep, Flash!AnswersTruly, Flash!Store!Next, Flash!Store!PowerLoss, Flash!Store!Wipe

-----------------------------------------------------------------------------
\* What each action keeps and does.
StoreKept == FlashInv' /\ StoreStep /\ Flash!RefusedWithReason

LEMMA SaveCallKeeps ==
  ASSUME Flash!MgFlashAssumption, FlashInv, NEW k \in Keys, Flash!SaveCall(k)
  PROVE  StoreKept
<1>1. /\ ram.pc = "idle" /\ UNCHANGED flash /\ saves' = saves + 1 /\ saves < MaxSaves
      /\ ram' = [pc |-> "fit", key |-> k, val |-> saves + 1, at |-> 0, part |-> 1,
                 io |-> {}, erased |-> TRUE, ok |-> FALSE]
  BY DEF Flash!SaveCall, Flash!Idle
<1>2. saves \in 0 .. MaxSaves /\ MaxSaves \in Nat /\ Sector \in Nat
  BY DEF FlashInv, FlashTypes, Flash!MgFlashAssumption
<1>3. saves + 1 \in Flash!Versions
  BY <1>1, <1>2 DEF Flash!Versions
<1>4. FlashTypes'
  BY <1>1, <1>2, <1>3 DEF FlashInv, FlashTypes, RamTypes, FlashPlaces, Flash!Versions
<1>5. LogInv'
  BY <1>1 DEF FlashInv, LogInv, EndsClean, Unseen
<1>6. WriteInv' /\ EraseInv' /\ RestoreInv' /\ RefitInv'
  BY <1>1 DEF WriteInv, EraseInv, RestoreInv, RefitInv
<1>7. \A l \in Keys : Flash!Stored(l)' = Flash!Stored(l)
  BY <1>1, StoredOutside
<1>8. StoreStep
  <2>1. ram'.pc # "idle" /\ ram'.key \in Keys /\ ram'.val \in Flash!Versions
    BY <1>1, <1>3
  <2> QED
    BY <1>1, <1>7, <2>1, StoreBegins
<1>9. Flash!RefusedWithReason
  BY <1>1 DEF Flash!RefusedWithReason
<1> QED
  BY <1>4, <1>5, <1>6, <1>8, <1>9 DEF StoreKept, FlashInv

\* What cleanup buffers.
LEMMA BufferedFacts ==
  ASSUME Flash!MgFlashAssumption, NEW s \in Flashes
  PROVE  /\ Flash!Buffered(s) \subseteq Entries /\ IoInv(Flash!Buffered(s))
         /\ \A o \in Flash!Buffered(s) : o.val = Flash!Load(s, o.key) /\ Flash!Copies(s, o.key) # {}
         /\ \A k : Flash!Copies(s, k) # {} => \E o \in Flash!Buffered(s) : o.key = k
<1>1. ASSUME NEW o \in Flash!Buffered(s)
      PROVE  /\ o.key \in Keys /\ Flash!Copies(s, o.key) # {}
             /\ o = [from |-> Flash!Newest(s, o.key), key |-> o.key, val |-> Flash!Load(s, o.key)]
             /\ o.from = Flash!Newest(s, o.key) /\ o.val = Flash!Load(s, o.key)
             /\ o.from \in Flash!Copies(s, o.key)
             /\ o.from \in 0 .. Sector /\ o.from + Units[o.key] <= Sector /\ o.from + 1 < Sector
             /\ Flash!FlashNext(s, o.from) = Units[o.key] /\ o.from \in Flash!Walk(s) /\ Units[o.key] \in Nat
             /\ o \in Entries
  <2>1. PICK k \in Keys : /\ Flash!Copies(s, k) # {}
                          /\ o = [from |-> Flash!Newest(s, k), key |-> k, val |-> Flash!Load(s, k)]
    BY DEF Flash!Buffered
  <2>2. Flash!Newest(s, k) \in Flash!Copies(s, k)
    BY <2>1, NewestFacts
  <2>3. /\ Flash!Newest(s, k) \in 0 .. Sector /\ Flash!Newest(s, k) + Units[k] <= Flash!End(s)
        /\ Flash!Newest(s, k) + 1 < Sector /\ Flash!End(s) \in 0 .. Sector /\ Units[k] \in Nat
        /\ Flash!FlashNext(s, Flash!Newest(s, k)) = Units[k] /\ Flash!Newest(s, k) \in Flash!Walk(s)
    BY <2>2, CopyFacts
  <2>4. Flash!Newest(s, k) + Units[k] <= Sector
    BY <2>3 DEF Flash!MgFlashAssumption
  <2>5. o \in Entries
    BY <2>1, <2>3, LoadFacts DEF Entries
  <2>6. o.key = k /\ o.from = Flash!Newest(s, k) /\ o.val = Flash!Load(s, k)
    BY <2>1
  <2> QED
    BY <2>1, <2>2, <2>3, <2>4, <2>5, <2>6
<1>2. ASSUME NEW o \in Flash!Buffered(s), NEW p \in Flash!Buffered(s), o # p
      PROVE  /\ o.key # p.key
             /\ o.from + Units[o.key] <= p.from \/ p.from + Units[p.key] <= o.from
  <2>1. o.key # p.key
    BY <1>1, <1>2
  <2>2. o.from # p.from
    <3>1. s[o.from + 1].key = o.key /\ s[p.from + 1].key = p.key
      BY <1>1 DEF Flash!Copies
    <3> QED
      BY <2>1, <3>1
  <2>3. o.from < p.from => o.from + Units[o.key] <= p.from
    BY <1>1, WalkIsAChain DEF Apart
  <2>4. p.from < o.from => p.from + Units[p.key] <= o.from
    BY <1>1, WalkIsAChain DEF Apart
  <2>5. o.from \in 0 .. Sector /\ p.from \in 0 .. Sector
    BY <1>1
  <2>6. o.from < p.from \/ p.from < o.from
    BY <2>2, <2>5
  <2> QED
    BY <2>1, <2>3, <2>4, <2>6
<1>3. \A k : Flash!Copies(s, k) # {} => \E o \in Flash!Buffered(s) : o.key = k
  <2> SUFFICES ASSUME NEW k, Flash!Copies(s, k) # {} PROVE \E o \in Flash!Buffered(s) : o.key = k
    OBVIOUS
  <2>1. k \in Keys
    BY CopyFacts
  <2>2. [from |-> Flash!Newest(s, k), key |-> k, val |-> Flash!Load(s, k)] \in Flash!Buffered(s)
    BY <2>1 DEF Flash!Buffered
  <2> QED
    BY <2>2
<1> QED
  BY <1>1, <1>2, <1>3 DEF IoInv

\* The write that follows the search for the end.
LEMMA WriteFollows ==
  ASSUME Flash!MgFlashAssumption, FlashInv, ram.pc \in {"fit", "refit"}, UNCHANGED <<flash, saves>>,
         ~(Flash!End(flash) + Units[ram.key] > Sector),
         ram' = [ram EXCEPT !.pc = "write", !.at = Flash!End(flash)]
  PROVE  StoreKept
<1>1. /\ ram \in RamTypes /\ ram.part = 1 /\ ram.io = {} /\ ram.pc # "idle"
      /\ flash \in Flashes /\ ram.key \in Keys /\ ram.val \in Flash!Versions
      /\ EndsClean(flash)
  BY DEF FlashInv, FlashTypes, LogInv
<1>2. /\ Units[ram.key] \in Nat /\ Units[ram.key] >= 1 /\ Sector \in Nat
      /\ Flash!End(flash) \in 0 .. Sector
  BY <1>1, EndFacts DEF Flash!MgFlashAssumption
<1>3. /\ ram'.pc = "write" /\ ram'.at = Flash!End(flash) /\ ram'.part = 1 /\ ram'.io = {}
      /\ ram'.key = ram.key /\ ram'.val = ram.val /\ ram' \in RamTypes
  BY <1>1, <1>2 DEF RamTypes, FlashPlaces
<1>4. FlashTypes'
  BY <1>1, <1>3 DEF FlashInv, FlashTypes, RamTypes, Flashes
<1>5. LogInv' /\ EraseInv' /\ RestoreInv' /\ RefitInv'
  BY <1>3 DEF LogInv, EraseInv, RestoreInv, RefitInv
<1>6. WriteInv'
  <2>1. Flash!End(Flash!Cut(flash, Flash!End(flash))) = Flash!End(flash)
    BY <1>1, CutAtEnd
  <2>2. Flash!End(flash) + Units[ram.key] <= Sector /\ 0 < Units[ram.key]
    BY <1>2
  <2>3. Begun(ram.at, ram.part - 1, Flash!Object(ram.key, ram.val))'
    BY <1>3, <2>1, <2>2 DEF Begun, Flash!Object
  <2>4. \A i \in Flash!End(flash) + 1 .. Sector : flash[i] # NONE => Unseen(flash, Flash!End(flash), i)
    BY <1>1 DEF EndsClean
  <2> QED
    BY <1>3, <2>3, <2>4 DEF WriteInv, Unseen
<1>7. \A k \in Keys : Flash!Stored(k)' = Flash!Stored(k)
  <2>1. ram.pc \notin {"write", "restore"}
    OBVIOUS
  <2>2. \A k : Flash!Stored(k) = Flash!Load(flash, k) /\ Flash!Stored(k)' = Flash!Load(Flash!Cut(flash, Flash!End(flash)), k)
    BY <1>3, <2>1, StoredOutside, StoredWriting
  <2> QED
    BY <1>1, <2>2, CutAtEnd
<1>8. StoreStep
  BY <1>1, <1>3, <1>7, StoreStays
<1>9. Flash!RefusedWithReason
  BY <1>3 DEF Flash!RefusedWithReason
<1> QED
  BY <1>4, <1>5, <1>6, <1>8, <1>9 DEF StoreKept, FlashInv

LEMMA FitKeeps ==
  ASSUME Flash!MgFlashAssumption, FlashInv, Flash!Fit
  PROVE  StoreKept
<1>1. CASE ~(Flash!End(flash) + Units[ram.key] > Sector)
  BY <1>1, WriteFollows DEF Flash!Fit
<1>2. CASE Flash!End(flash) + Units[ram.key] > Sector
  <2>1. /\ ram.pc = "fit" /\ UNCHANGED <<flash, saves>>
        /\ ram' = [ram EXCEPT !.pc = "erase", !.io = Flash!Buffered(flash)]
    BY <1>2 DEF Flash!Fit
  <2>2. /\ ram \in RamTypes /\ ram.part = 1 /\ ram.erased /\ EndsClean(flash)
        /\ flash \in Flashes /\ ram.key \in Keys /\ ram.val \in Flash!Versions
    BY <2>1 DEF FlashInv, FlashTypes, LogInv, EraseInv
  <2>3. Flash!Buffered(flash) \subseteq Entries
    BY <2>2, BufferedFacts
  <2>4. /\ ram'.pc = "erase" /\ ram'.io = Flash!Buffered(flash) /\ ram'.part = 1
        /\ ram'.key = ram.key /\ ram'.val = ram.val /\ ram' \in RamTypes
    BY <2>1, <2>2, <2>3 DEF RamTypes, FlashPlaces
  <2>5. ram'.erased
    BY <2>1, <2>2 DEF RamTypes
  <2>6. FlashTypes'
    BY <2>1, <2>2, <2>4 DEF FlashInv, FlashTypes, RamTypes, Flashes
  <2>7. LogInv'
    BY <2>1, <2>2 DEF LogInv, EndsClean, Unseen
  <2>8. EraseInv'
    <3>1. Flash!Buffered(flash)' = Flash!Buffered(flash)
      BY <2>1
    <3> QED
      BY <2>4, <2>5, <3>1 DEF EraseInv
  <2>9. WriteInv' /\ RestoreInv' /\ RefitInv'
    BY <2>4 DEF WriteInv, RestoreInv, RefitInv
  <2>10. \A k \in Keys : Flash!Stored(k)' = Flash!Stored(k)
    BY <2>1, <2>4, StoredOutside
  <2>11. StoreStep
    BY <2>1, <2>4, <2>10, StoreStays
  <2>12. Flash!RefusedWithReason
    BY <2>4 DEF Flash!RefusedWithReason
  <2> QED
    BY <2>6, <2>7, <2>8, <2>9, <2>11, <2>12 DEF StoreKept, FlashInv
<1> QED
  BY <1>1, <1>2

LEMMA RefitKeeps ==
  ASSUME Flash!MgFlashAssumption, FlashInv, Flash!Refit
  PROVE  StoreKept
<1>1. CASE ~(Flash!End(flash) + Units[ram.key] > Sector)
  BY <1>1, WriteFollows DEF Flash!Refit
<1>2. CASE Flash!End(flash) + Units[ram.key] > Sector
  <2>1. /\ ram.pc = "refit" /\ UNCHANGED <<flash, saves>>
        /\ ram' = [pc |-> "idle", key |-> NONE, val |-> NONE, at |-> 0, part |-> 1,
                   io |-> {}, erased |-> TRUE, ok |-> FALSE]
    BY <1>2 DEF Flash!Refit, Flash!Idle
  <2>2. flash \in Flashes /\ saves \in 0 .. MaxSaves /\ EndsClean(flash) /\ Sector \in Nat
        /\ ram.key \in Keys /\ ram.erased \in BOOLEAN
    BY <2>1, RamFacts DEF FlashInv, FlashTypes, LogInv, Flash!MgFlashAssumption
  <2>3. ram'.pc = "idle" /\ ram' \in RamTypes /\ ram'.part = 1 /\ ram'.io = {} /\ ~ram'.ok
    BY <2>1, <2>2 DEF RamTypes, FlashPlaces
  <2>4. FlashTypes'
    BY <2>1, <2>2, <2>3 DEF FlashTypes, RamTypes, Flashes
  <2>5. LogInv'
    BY <2>1, <2>2 DEF LogInv, EndsClean, Unseen
  <2>6. WriteInv' /\ EraseInv' /\ RestoreInv' /\ RefitInv'
    BY <2>3 DEF WriteInv, EraseInv, RestoreInv, RefitInv
  <2>7. \A k \in Keys : Flash!Stored(k)' = Flash!Stored(k)
    BY <2>1, <2>3, StoredOutside
  <2>8. StoreStep
    BY <2>1, <2>3, <2>7, StoreRefuses
  <2>9. Flash!RefusedWithReason
    <3>1. CASE ~ram.erased
      BY <3>1 DEF Flash!RefusedWithReason
    <3>2. CASE ram.erased
      <4>1. \A k \in Keys : Flash!Stored(k) = Flash!Load(flash, k)
        BY <2>1, StoredOutside
      <4>2. Flash!Taken = Weights(flash)
        BY <2>2, <4>1, WeightsAreTaken DEF Flash!Taken
      <4>3. Flash!End(flash) <= Flash!TotalOf(Weights(flash))
        BY <2>1, <3>2 DEF FlashInv, RefitInv
      <4>4. Flash!End(flash) \in Nat /\ Flash!TotalOf(Weights(flash)) \in Nat /\ Units[ram.key] \in Nat
        BY <2>2, EndFacts, WeightsNatural DEF Flash!MgFlashAssumption
      <4>5. Units[ram.key] + Flash!TotalOf(Flash!Taken) > Sector
        BY <1>2, <2>2, <4>2, <4>3, <4>4
      <4> QED
        BY <4>5 DEF Flash!RefusedWithReason
    <3> QED
      BY <3>1, <3>2
  <2> QED
    BY <2>4, <2>5, <2>6, <2>8, <2>9 DEF StoreKept, FlashInv
<1> QED
  BY <1>1, <1>2

\* Nothing is in a flash that was erased.
LEMMA NothingErased ==
  ASSUME Flash!MgFlashAssumption, NEW s, s = [i \in 1 .. Sector |-> NONE], NEW e \in 0 .. Sector
  PROVE  /\ s \in Flashes /\ Flash!End(s) = 0 /\ \A k : Flash!Copies(s, k) = {} /\ Flash!Load(s, k) = NONE
         /\ Flash!Cut(s, e) = s
<1>1. s \in Flashes /\ Sector \in Nat
  BY DEF Flashes, Flash!MgFlashAssumption
<1>2. \A o \in 0 .. Sector : Flash!FlashNext(s, o) = 0
  <2>1. \A o \in 0 .. Sector : o + 1 < Sector => s[o + 1] = NONE
    BY <1>1
  <2> QED
    BY <1>1, <2>1 DEF Flash!FlashNext
<1>3. Flash!Walk(s) \subseteq 0 .. Sector /\ 0 \in Flash!Walk(s)
  BY <1>1, WalkIsAChain
<1>4. Flash!End(s) = 0 /\ Flash!Objects(s) = {}
  BY <1>1, <1>2, <1>3, EndFacts DEF Flash!Objects
<1>5. \A k : Flash!Copies(s, k) = {} /\ Flash!Load(s, k) = NONE
  BY <1>4 DEF Flash!Copies, Flash!Load
<1>6. Flash!Cut(s, e) = s
  BY DEF Flash!Cut
<1> QED
  BY <1>1, <1>4, <1>5, <1>6

\* The entry that is written back next.
LEMMA FirstOfFacts ==
  ASSUME Flash!MgFlashAssumption, NEW io \in SUBSET Entries, io # {}
  PROVE  /\ Flash!FirstOf(io) \in io
         /\ \A o \in io : Flash!FirstOf(io).from <= o.from
         /\ \A o \in io : /\ o.from \in 0 .. Sector /\ o.key \in Keys
                          /\ o.val \in Flash!Versions \cup {TORN}
                          /\ Flash!Object(o.key, o.val) \in Things
<1>1. \A o \in io : /\ o.from \in 0 .. Sector /\ o.key \in Keys
                    /\ o.val \in Flash!Versions \cup {TORN}
  BY DEF Entries
<1>2. \A o \in io : Flash!Object(o.key, o.val) \in Things
  BY <1>1 DEF Flash!Object, Things
<1> DEFINE A == {o.from : o \in io}
<1>3. A \in SUBSET (0 .. Sector) /\ A # {}
  BY <1>1
<1>4. Sector \in Nat
  BY DEF Flash!MgFlashAssumption
<1>5. \E m \in A : \A p \in A : m <= p
  <2> HIDE DEF A
  <2> QED
    BY <1>3, <1>4, Extremes
<1>6. \E o \in io : \A p \in io : o.from <= p.from
  BY <1>5
<1> QED
  BY <1>1, <1>2, <1>6 DEF Flash!FirstOf

LEMMA EraseKeeps ==
  ASSUME Flash!MgFlashAssumption, FlashInv, Flash!Erase
  PROVE  StoreKept
<1>1. /\ ram.pc = "erase" /\ ram.part = 1 /\ ram.io = Flash!Buffered(flash) /\ ram.erased
      /\ ram \in RamTypes /\ flash \in Flashes /\ EndsClean(flash)
      /\ saves \in 0 .. MaxSaves /\ ram.key \in Keys /\ ram.val \in Flash!Versions /\ UNCHANGED saves
  BY DEF Flash!Erase, FlashInv, FlashTypes, LogInv, EraseInv
<1>2. CASE UNCHANGED flash /\ ram' = [ram EXCEPT !.pc = "refit", !.io = {}, !.erased = FALSE]
  <2>1. /\ ram'.pc = "refit" /\ ram'.io = {} /\ ram'.part = 1
        /\ ram'.key = ram.key /\ ram'.val = ram.val /\ ram' \in RamTypes
    BY <1>1, <1>2 DEF RamTypes, FlashPlaces
  <2>2. ~ram'.erased
    BY <1>1, <1>2 DEF RamTypes
  <2>3. FlashTypes'
    BY <1>1, <1>2, <2>1 DEF FlashTypes, RamTypes, Flashes
  <2>4. LogInv'
    BY <1>1, <1>2 DEF LogInv, EndsClean, Unseen
  <2>5. WriteInv' /\ EraseInv' /\ RestoreInv'
    BY <2>1 DEF WriteInv, EraseInv, RestoreInv
  <2>6. RefitInv'
    BY <2>2 DEF RefitInv
  <2>7. \A k \in Keys : Flash!Stored(k)' = Flash!Stored(k)
    BY <1>1, <1>2, <2>1, StoredOutside
  <2>8. StoreStep
    BY <1>1, <2>1, <2>7, StoreStays
  <2>9. Flash!RefusedWithReason
    BY <1>1 DEF Flash!RefusedWithReason
  <2> QED
    BY <2>3, <2>4, <2>5, <2>6, <2>8, <2>9 DEF StoreKept, FlashInv
<1>3. CASE flash' = [i \in 1 .. Sector |-> NONE] /\ ram' = [ram EXCEPT !.pc = "restore"]
  <2>1. /\ ram'.pc = "restore" /\ ram'.io = Flash!Buffered(flash) /\ ram'.part = 1
        /\ ram'.key = ram.key /\ ram'.val = ram.val /\ ram' \in RamTypes
    BY <1>1, <1>3 DEF RamTypes, FlashPlaces
  <2>2. ram'.erased
    BY <1>1, <1>3 DEF RamTypes
  <2>3. /\ flash' \in Flashes /\ Flash!End(flash') = 0 /\ Flash!Cut(flash', 0) = flash'
        /\ \A k : Flash!Copies(flash', k) = {} /\ Flash!Load(flash', k) = NONE
    <3>1. 0 \in 0 .. Sector
      BY DEF Flash!MgFlashAssumption
    <3> QED
      BY <1>3, <3>1, NothingErased
  <2>4. FlashTypes'
    BY <1>1, <2>1, <2>3 DEF FlashTypes, RamTypes
  <2>5. LogInv' /\ WriteInv' /\ EraseInv' /\ RefitInv'
    BY <2>1 DEF LogInv, WriteInv, EraseInv, RefitInv
  <2>6. /\ Flash!Buffered(flash) \subseteq Entries /\ IoInv(Flash!Buffered(flash))
        /\ \A o \in Flash!Buffered(flash) : o.val = Flash!Load(flash, o.key) /\ Flash!Copies(flash, o.key) # {}
        /\ \A k : Flash!Copies(flash, k) # {} => \E o \in Flash!Buffered(flash) : o.key = k
    BY <1>1, BufferedFacts
  <2>7. RestoreInv'
    <3>1. Base' = 0
      BY <2>1, <2>3 DEF Base
    <3>2. BaseInv'
      <4>1. \A o \in ram'.io : 0 <= o.from /\ Flash!Copies(Flash!Cut(flash', 0), o.key) = {}
        <5>1. \A o \in Flash!Buffered(flash) : o.from \in 0 .. Sector
          BY <2>6 DEF Entries
        <5> QED
          BY <2>1, <2>3, <5>1 DEF Flash!MgFlashAssumption
      <4>2. 0 <= Flash!TotalOf(Weights(Flash!Cut(flash', 0)))
        BY <2>3, WeightsNatural
      <4>3. \A i \in 0 + ram'.part .. Sector : flash'[i] = NONE
        BY <1>3, <2>1
      <4> QED
        BY <2>3, <3>1, <4>1, <4>2, <4>3 DEF BaseInv
    <3>3. ASSUME ram'.io # {} PROVE Begun(Base, ram.part - 1, NextBack)'
      <4> DEFINE o == Flash!FirstOf(ram'.io)
      <4>1. o \in ram'.io
        BY <2>1, <2>6, <3>3, FirstOfFacts
      <4>2. /\ o.from \in 0 .. Sector /\ o.key \in Keys
            /\ o.from + Units[o.key] <= Sector
        BY <2>1, <2>6, <4>1, FirstOfFacts DEF IoInv
      <4>3. NextBack' = Flash!Object(o.key, o.val) /\ NextBack'.key = o.key
        BY DEF NextBack, Flash!Object
      <4> HIDE DEF o
      <4>4. 0 + Units[o.key] <= Sector /\ 1 - 1 < Units[o.key] /\ \A i \in 1 .. 1 - 1 : FALSE
        BY <4>2 DEF Flash!MgFlashAssumption
      <4> QED
        BY <2>1, <2>3, <3>1, <4>3, <4>4 DEF Begun
    <3>4. IoInv(ram.io)'
      BY <2>1, <2>6 DEF IoInv
    <3> QED
      BY <2>1, <2>2, <3>2, <3>3, <3>4 DEF RestoreInv
  <2>8. \A k \in Keys : Flash!Stored(k)' = Flash!Stored(k)
    <3> SUFFICES ASSUME NEW k \in Keys PROVE Flash!Stored(k)' = Flash!Load(flash, k)
      BY <1>1, StoredOutside
    <3>1. CASE \E o \in Flash!Buffered(flash) : o.key = k
      <4>1. PICK o \in Flash!Buffered(flash) : o.key = k
        BY <3>1
      <4>2. \A p \in ram'.io : p.key = k => p = o
        BY <2>1, <2>6, <4>1 DEF IoInv
      <4> QED
        BY <2>1, <2>6, <4>1, <4>2, StoredRestoring
    <3>2. CASE \A o \in Flash!Buffered(flash) : o.key # k
      <4>1. Flash!Load(flash, k) = NONE
        BY <1>1, <2>6, <3>2, LoadFacts
      <4>2. Flash!Stored(k)' = Flash!Load(flash', k)
        BY <2>1, <3>2, StoredRestoring
      <4> QED
        BY <2>3, <4>1, <4>2
    <3> QED
      BY <3>1, <3>2
  <2>9. StoreStep
    BY <1>1, <2>1, <2>8, StoreStays
  <2>10. Flash!RefusedWithReason
    BY <1>1 DEF Flash!RefusedWithReason
  <2> QED
    BY <2>4, <2>5, <2>7, <2>9, <2>10 DEF StoreKept, FlashInv
<1> QED
  BY <1>2, <1>3 DEF Flash!Erase

\* What holds while an object is written.
LEMMA WritingFacts ==
  ASSUME Flash!MgFlashAssumption, FlashInv, ram.pc = "write"
  PROVE  /\ flash \in Flashes /\ saves \in 0 .. MaxSaves /\ ram \in RamTypes /\ Sector \in Nat
         /\ ram.key \in Keys /\ ram.val \in Flash!Versions /\ ram.io = {}
         /\ ram.at \in 0 .. Sector /\ ram.part \in Nat /\ ram.part >= 1
         /\ Units[ram.key] \in Nat /\ Units[ram.key] >= 1
         /\ Flash!Object(ram.key, ram.val) \in Things
         /\ Flash!Object(ram.key, ram.val).key = ram.key /\ Flash!Object(ram.key, ram.val).val = ram.val
         /\ Flash!End(Flash!Cut(flash, ram.at)) = ram.at /\ ram.at + Units[ram.key] <= Sector
         /\ ram.part <= Units[ram.key] /\ ram.at + ram.part <= Sector
         /\ \A i \in 1 .. ram.part - 1 : flash[ram.at + i] = Flash!Object(ram.key, ram.val)
         /\ \A i \in ram.at + ram.part .. Sector :
              flash[i] # NONE => ram.part = 1 /\ Unseen(flash, ram.at, i)
<1>1. /\ ram.at \in 0 .. Sector /\ ram.part \in Nat /\ ram.part >= 1
      /\ ram.key \in Keys /\ ram.val \in Flash!Versions /\ Flash!Object(ram.key, ram.val) \in Things
  BY RamFacts DEF FlashInv
<1>2. Units[ram.key] \in Nat /\ Units[ram.key] >= 1 /\ Sector \in Nat
  BY <1>1 DEF Flash!MgFlashAssumption
<1>3. /\ Flash!Object(ram.key, ram.val).key = ram.key /\ Flash!Object(ram.key, ram.val).val = ram.val
  BY DEF Flash!Object
<1>4. /\ Begun(ram.at, ram.part - 1, Flash!Object(ram.key, ram.val))
      /\ \A i \in ram.at + ram.part .. Sector :
           flash[i] # NONE => ram.part = 1 /\ Unseen(flash, ram.at, i)
  BY DEF FlashInv, WriteInv
<1>5. /\ Flash!End(Flash!Cut(flash, ram.at)) = ram.at /\ ram.at + Units[ram.key] <= Sector
      /\ ram.part - 1 < Units[ram.key]
      /\ \A i \in 1 .. ram.part - 1 : flash[ram.at + i] = Flash!Object(ram.key, ram.val)
  BY <1>3, <1>4 DEF Begun
<1>6. ram.part <= Units[ram.key] /\ ram.at + ram.part <= Sector
  BY <1>1, <1>2, <1>5
<1>7. flash \in Flashes /\ saves \in 0 .. MaxSaves /\ ram \in RamTypes /\ ram.io = {}
  BY DEF FlashInv, FlashTypes
<1> QED
  BY <1>1, <1>2, <1>3, <1>4, <1>5, <1>6, <1>7

\* A call that has ended.
LEMMA EndsKeep ==
  ASSUME Flash!MgFlashAssumption, flash' \in Flashes, saves' \in 0 .. MaxSaves, EndsClean(flash'),
         NEW b \in BOOLEAN, ram' = Flash!Idle(b)
  PROVE  FlashInv' /\ ram'.pc = "idle" /\ ram'.ok = b /\ \A k : Flash!Stored(k)' = Flash!Load(flash', k)
<1>1. ram' = [pc |-> "idle", key |-> NONE, val |-> NONE, at |-> 0, part |-> 1,
              io |-> {}, erased |-> TRUE, ok |-> b]
  BY DEF Flash!Idle
<1>2. ram' \in RamTypes /\ ram'.pc = "idle" /\ ram'.part = 1 /\ ram'.io = {} /\ ram'.ok = b
  <2>1. 0 \in 0 .. Sector
    BY DEF Flash!MgFlashAssumption
  <2> QED
    BY <1>1, <2>1 DEF RamTypes, FlashPlaces
<1>3. FlashTypes'
  BY <1>2 DEF FlashTypes
<1>4. LogInv'
  BY DEF LogInv
<1>5. WriteInv' /\ EraseInv' /\ RestoreInv' /\ RefitInv'
  BY <1>2 DEF WriteInv, EraseInv, RestoreInv, RefitInv
<1>6. \A k : Flash!Stored(k)' = Flash!Load(flash', k)
  BY <1>2, StoredOutside
<1> QED
  BY <1>2, <1>3, <1>4, <1>5, <1>6 DEF FlashInv

LEMMA WriteKeeps ==
  ASSUME Flash!MgFlashAssumption, FlashInv, Flash!Write
  PROVE  StoreKept
<1> DEFINE e == ram.at
           p == ram.part
           u == Units[ram.key]
           thing == Flash!Object(ram.key, ram.val)
<1>0. ram.pc = "write"
  BY DEF Flash!Write
<1>1. /\ flash \in Flashes /\ saves \in 0 .. MaxSaves /\ ram \in RamTypes /\ Sector \in Nat
      /\ ram.key \in Keys /\ ram.val \in Flash!Versions /\ ram.io = {}
      /\ e \in 0 .. Sector /\ p \in Nat /\ p >= 1 /\ u \in Nat /\ u >= 1
      /\ thing \in Things /\ thing.key = ram.key /\ thing.val = ram.val
      /\ Flash!End(Flash!Cut(flash, e)) = e /\ e + u <= Sector /\ p <= u /\ e + p <= Sector
      /\ \A i \in 1 .. p - 1 : flash[e + i] = thing
      /\ \A i \in e + p .. Sector : flash[i] # NONE => p = 1 /\ Unseen(flash, e, i)
  BY <1>0, WritingFacts
<1>2. \A k : Flash!Stored(k) = Flash!Load(Flash!Cut(flash, e), k)
  BY <1>0, StoredWriting
<1>3. /\ Flash!Program(e + p - 1, thing) /\ UNCHANGED saves
      /\ ram' = IF Flash!Refused(e + p - 1) THEN Flash!Idle(FALSE)
                ELSE IF p = u THEN Flash!Idle(TRUE) ELSE [ram EXCEPT !.part = @ + 1]
  BY DEF Flash!Write
<1> HIDE DEF e, p, u, thing
<1>4. /\ (e + p - 1) + 1 = e + p /\ e + p \in 1 .. Sector /\ e + p \in e + p .. Sector
      /\ (p - 1) \in Nat /\ \A i \in e + p + 1 .. Sector : i \in e + p .. Sector /\ i # e + p
  BY <1>1
<1>5. CASE Flash!Refused(e + p - 1)
  <2>1. flash[e + p] # NONE /\ e + p - 1 # 0
    BY <1>4, <1>5 DEF Flash!Refused
  <2>2. p = 1 /\ Unseen(flash, e, e + p)
    BY <1>1, <1>4, <2>1
  <2>3. flash' = flash
    <3>1. flash' = [flash EXCEPT ![e + p] = flash[e + p]]
      BY <1>3, <1>4, <2>1 DEF Flash!Program
    <3> QED
      BY <1>1, <3>1 DEF Flashes
  <2>4. \A i \in e + 1 .. Sector : flash[i] # NONE => Unseen(flash, e, i)
    BY <1>1, <2>2
  <2>5. EndsClean(flash) /\ \A k : Flash!Load(flash, k) = Flash!Load(Flash!Cut(flash, e), k)
    BY <1>1, <2>4, NothingBehind
  <2>6. ram' = Flash!Idle(FALSE) /\ ~ram'.ok
    BY <1>3, <1>5 DEF Flash!Idle
  <2>7. FlashInv' /\ ram'.pc = "idle" /\ \A k : Flash!Stored(k)' = Flash!Load(flash', k)
    BY <1>1, <1>3, <2>3, <2>5, <2>6, EndsKeep
  <2>8. StoreStep
    BY <1>0, <1>2, <2>3, <2>5, <2>6, <2>7, StoreRefuses
  <2>9. Flash!RefusedWithReason
    <3>1. flash[Sector] # NONE /\ Units[flash[Sector].key] = 1
      BY <2>1, <2>2 DEF Unseen
    <3> QED
      BY <3>1 DEF Flash!RefusedWithReason
  <2> QED
    BY <2>7, <2>8, <2>9 DEF StoreKept
<1>6. CASE ~Flash!Refused(e + p - 1)
  <2>1. e + p - 1 = 0 \/ flash[e + p] = NONE
    BY <1>4, <1>6 DEF Flash!Refused
  <2>2. \A i \in e + p + 1 .. Sector : flash[i] = NONE
    <3> SUFFICES ASSUME NEW i \in e + p + 1 .. Sector, flash[i] # NONE PROVE FALSE
      OBVIOUS
    <3>1. p = 1 /\ Unseen(flash, e, i)
      BY <1>1, <1>4
    <3>2. i = Sector /\ e = Sector - 1
      BY <3>1 DEF Unseen
    <3> QED
      BY <1>1, <3>1, <3>2
  <2>3. /\ flash' \in Flashes /\ flash'[e + p] = thing
        /\ \A i \in 1 .. Sector : i # e + p => flash'[i] = flash[i]
        /\ Flash!Cut(flash', e) = Flash!Cut(flash, e)
    BY <1>1, <1>3, <2>1, <2>2, Programmed
  <2>4. \A i \in 1 .. p : flash'[e + i] = thing
    <3> SUFFICES ASSUME NEW i \in 1 .. p PROVE flash'[e + i] = thing
      OBVIOUS
    <3>1. i = p \/ (i \in 1 .. p - 1 /\ e + i \in 1 .. Sector /\ e + i # e + p)
      BY <1>1
    <3> QED
      BY <1>1, <2>3, <3>1
  <2>5. \A i \in e + p + 1 .. Sector : flash'[i] = NONE
    <3>1. \A i \in e + p + 1 .. Sector : i \in 1 .. Sector /\ i # e + p
      BY <1>1
    <3> QED
      BY <2>2, <2>3, <3>1
  <2>6. CASE p # u
    <3>1. ram' = [ram EXCEPT !.part = p + 1]
      BY <1>3, <1>6, <2>6 DEF p
    <3>2. /\ ram'.pc = "write" /\ ram'.at = e /\ ram'.part = p + 1 /\ ram'.io = {}
          /\ ram'.key = ram.key /\ ram'.val = ram.val /\ ram' \in RamTypes
      BY <1>0, <1>1, <3>1 DEF RamTypes, e
    <3>3. FlashTypes'
      BY <1>1, <1>3, <2>3, <3>2 DEF FlashTypes
    <3>4. LogInv' /\ EraseInv' /\ RestoreInv' /\ RefitInv'
      BY <3>2 DEF LogInv, EraseInv, RestoreInv, RefitInv
    <3>5. WriteInv'
      <4>1. /\ (p + 1) - 1 = p /\ p < u /\ e + (p + 1) = e + p + 1
        BY <1>1, <2>6
      <4>2. Flash!Object(ram.key, ram.val)' = thing
        BY <3>2 DEF thing
      <4>3. Begun(ram.at, ram.part - 1, Flash!Object(ram.key, ram.val))'
        BY <1>1, <2>3, <2>4, <3>2, <4>1, <4>2 DEF Begun, u
      <4> QED
        BY <2>5, <3>2, <4>1, <4>3 DEF WriteInv
    <3>6. \A k \in Keys : Flash!Stored(k)' = Flash!Stored(k)
      BY <1>2, <2>3, <3>2, StoredWriting
    <3>7. StoreStep
      BY <1>0, <3>2, <3>6, StoreStays
    <3>8. Flash!RefusedWithReason
      BY <3>2 DEF Flash!RefusedWithReason
    <3> QED
      BY <3>3, <3>4, <3>5, <3>7, <3>8 DEF StoreKept, FlashInv
  <2>7. CASE p = u
    <3>1. ram' = Flash!Idle(TRUE)
      BY <1>3, <1>6, <2>7
    <3>2. CASE e + 1 < Sector
      <4>1. /\ EndsClean(flash')
            /\ Flash!Load(flash', ram.key) = ram.val
            /\ \A l : l # ram.key => Flash!Load(flash', l) = Flash!Load(Flash!Cut(flash', e), l)
        <5>1. e + Units[thing.key] <= Sector /\ p = Units[thing.key] /\ p <= Units[thing.key]
          BY <1>1, <2>7 DEF u
        <5>2. Flash!End(Flash!Cut(flash', e)) = e
          BY <1>1, <2>3
        <5>3. /\ EndsClean(flash')
              /\ Flash!Load(flash', thing.key) = IF p = Units[thing.key] THEN thing.val ELSE TORN
              /\ \A l : l # thing.key => Flash!Load(flash', l) = Flash!Load(Flash!Cut(flash', e), l)
          <6>1. flash' \in Flashes /\ e \in 0 .. Sector /\ thing \in Things /\ p \in Nat /\ p >= 1
            BY <1>1, <2>3
          <6>2. EndsClean(flash')
            BY <2>4, <2>5, <3>2, <5>1, <5>2, <6>1, BegunThere
          <6>3. Flash!Load(flash', thing.key) = IF p = Units[thing.key] THEN thing.val ELSE TORN
            BY <2>4, <2>5, <3>2, <5>1, <5>2, <6>1, BegunThere
          <6>4. \A l : l # thing.key => /\ Flash!Copies(flash', l) = Flash!Copies(Flash!Cut(flash', e), l)
                                        /\ Flash!Load(flash', l) = Flash!Load(Flash!Cut(flash', e), l)
            BY <2>4, <2>5, <3>2, <5>1, <5>2, <6>1, BegunThere
          <6> QED
            BY <6>2, <6>3, <6>4
        <5> QED
          BY <1>1, <5>1, <5>3
      <4>2. FlashInv' /\ ram'.pc = "idle" /\ ram'.ok /\ \A k : Flash!Stored(k)' = Flash!Load(flash', k)
        BY <1>1, <1>3, <2>3, <3>1, <4>1, EndsKeep
      <4>3. \A k \in Keys : Flash!Stored(k)' = IF k = ram.key THEN ram.val ELSE Flash!Stored(k)
        BY <1>2, <2>3, <4>1, <4>2
      <4>4. StoreStep
        BY <1>0, <4>2, <4>3, StoreSaves
      <4> QED
        BY <4>2, <4>4 DEF StoreKept, Flash!RefusedWithReason
    <3>3. CASE ~(e + 1 < Sector)
      <4>1. e = Sector - 1 /\ u = 1 /\ p = 1
        BY <1>1, <2>7, <3>3
      <4>2. \A i \in e + 1 .. Sector : flash'[i] # NONE => Unseen(flash', e, i)
        <5>1. \A i \in e + 1 .. Sector : i = Sector /\ i = e + p
          BY <1>1, <4>1
        <5> QED
          BY <1>1, <2>3, <4>1, <5>1 DEF Unseen, u
      <4>3. EndsClean(flash') /\ \A k : Flash!Load(flash', k) = Flash!Load(Flash!Cut(flash', e), k)
        BY <1>1, <2>3, <4>2, NothingBehind
      <4>4. FlashInv' /\ ram'.pc = "idle" /\ ram'.ok /\ \A k : Flash!Stored(k)' = Flash!Load(flash', k)
        BY <1>1, <1>3, <2>3, <3>1, <4>3, EndsKeep
      <4>5. ram.key \in Flash!Small /\ \A k \in Keys : Flash!Stored(k)' = Flash!Stored(k)
        BY <1>1, <1>2, <2>3, <4>1, <4>3, <4>4 DEF Flash!Small, u
      <4>6. StoreStep
        BY <1>0, <4>4, <4>5, StoreSaves
      <4> QED
        BY <4>4, <4>6 DEF StoreKept, Flash!RefusedWithReason
    <3> QED
      BY <3>2, <3>3
  <2> QED
    BY <2>6, <2>7
<1> QED
  BY <1>5, <1>6

\* What holds while objects are written back.
LEMMA RestoringFacts ==
  ASSUME Flash!MgFlashAssumption, FlashInv, ram.pc = "restore"
  PROVE  /\ flash \in Flashes /\ saves \in 0 .. MaxSaves /\ ram \in RamTypes /\ Sector \in Nat
         /\ ram.key \in Keys /\ ram.val \in Flash!Versions /\ ram.erased
         /\ Base \in 0 .. Sector /\ ram.part \in Nat /\ ram.part >= 1
         /\ ram.io \subseteq Entries /\ IoInv(ram.io) /\ (ram.io = {} => ram.part = 1)
         /\ BaseInv
         /\ \A k : (\A o \in ram.io : o.key # k) => Flash!Stored(k) = Flash!Load(Flash!Cut(flash, Base), k)
         /\ \A o \in ram.io : /\ Flash!Stored(o.key) = o.val
                              /\ Flash!Load(Flash!Cut(flash, Base), o.key) = NONE
<1>1. /\ flash \in Flashes /\ saves \in 0 .. MaxSaves /\ ram \in RamTypes /\ Sector \in Nat
      /\ ram.key \in Keys /\ ram.val \in Flash!Versions
      /\ ram.at \in 0 .. Sector /\ ram.part \in Nat /\ ram.part >= 1 /\ ram.io \subseteq Entries
  BY RamFacts DEF FlashInv, FlashTypes, Flash!MgFlashAssumption
<1>2. ram.erased /\ IoInv(ram.io) /\ BaseInv /\ (ram.io = {} => ram.part = 1)
  BY DEF FlashInv, RestoreInv
<1>3. Base \in 0 .. Sector
  BY <1>1, EndFacts DEF Base
<1>4. ASSUME NEW k, \A o \in ram.io : o.key # k PROVE Flash!Stored(k) = Flash!Load(Flash!Cut(flash, Base), k)
  <2>1. Flash!Stored(k) = Flash!Load(IF ram.part > 1 THEN Flash!Cut(flash, ram.at) ELSE flash, k)
    BY <1>4, StoredRestoring
  <2>2. CASE ram.part = 1
    <3>1. Flash!Stored(k) = Flash!Load(flash, k) /\ Base = Flash!End(flash)
      BY <2>1, <2>2 DEF Base
    <3> QED
      BY <1>1, <3>1, CutAtEnd
  <2>3. CASE ram.part # 1
    <3>1. ram.part > 1 /\ Base = ram.at
      BY <1>1, <2>3 DEF Base
    <3> QED
      BY <2>1, <3>1
  <2> QED
    BY <2>2, <2>3
<1>5. ASSUME NEW o \in ram.io
      PROVE  Flash!Stored(o.key) = o.val /\ Flash!Load(Flash!Cut(flash, Base), o.key) = NONE
  <2>1. \A p \in ram.io : p.key = o.key => p = o
    BY <1>2 DEF IoInv
  <2>2. Flash!Stored(o.key) = o.val
    BY <2>1, StoredRestoring
  <2>3. Flash!Copies(Flash!Cut(flash, Base), o.key) = {}
    BY <1>2 DEF BaseInv
  <2> QED
    BY <2>2, <2>3 DEF Flash!Load
<1> QED
  BY <1>1, <1>2, <1>3, <1>4, <1>5

LEMMA NextBackFacts ==
  ASSUME Flash!MgFlashAssumption, FlashInv, ram.pc = "restore", ram.io # {}
  PROVE  /\ Flash!FirstOf(ram.io) \in ram.io
         /\ \A o \in ram.io : Flash!FirstOf(ram.io).from <= o.from
         /\ NextBack \in Things
         /\ NextBack.key = Flash!FirstOf(ram.io).key /\ NextBack.val = Flash!FirstOf(ram.io).val
         /\ Units[NextBack.key] \in Nat /\ Units[NextBack.key] >= 1
         /\ Flash!FirstOf(ram.io).from \in 0 .. Sector /\ Base <= Flash!FirstOf(ram.io).from
         /\ Base + 1 < Sector /\ Base + Units[NextBack.key] <= Sector
         /\ ram.part <= Units[NextBack.key] /\ Base + ram.part <= Sector
         /\ \A i \in 1 .. ram.part - 1 : flash[Base + i] = NextBack
<1> DEFINE o == Flash!FirstOf(ram.io)
<1>1. /\ Base \in 0 .. Sector /\ ram.part \in Nat /\ ram.part >= 1
      /\ ram.io \in SUBSET Entries /\ IoInv(ram.io) /\ BaseInv /\ Sector \in Nat
  BY RestoringFacts
<1>2. /\ o \in ram.io /\ o.from \in 0 .. Sector /\ o.key \in Keys
      /\ Flash!Object(o.key, o.val) \in Things
      /\ \A q \in ram.io : o.from <= q.from
  BY <1>1, FirstOfFacts
<1>3. NextBack = Flash!Object(o.key, o.val) /\ NextBack.key = o.key /\ NextBack.val = o.val
  BY DEF NextBack, Flash!Object
<1> HIDE DEF o
<1>4. Units[o.key] \in Nat /\ Units[o.key] >= 1
  BY <1>2 DEF Flash!MgFlashAssumption
<1>5. o.from + 1 < Sector /\ Base <= o.from
  BY <1>1, <1>2 DEF IoInv, BaseInv
<1>6. Base + 1 < Sector
  BY <1>1, <1>2, <1>5
<1>7. Begun(Base, ram.part - 1, NextBack)
  BY DEF FlashInv, RestoreInv
<1>8. /\ Base + Units[o.key] <= Sector /\ ram.part - 1 < Units[o.key]
      /\ \A i \in 1 .. ram.part - 1 : flash[Base + i] = NextBack
  BY <1>3, <1>7 DEF Begun
<1>9. ram.part <= Units[o.key] /\ Base + ram.part <= Sector
  BY <1>1, <1>4, <1>8
<1> QED
  BY <1>2, <1>3, <1>4, <1>5, <1>6, <1>8, <1>9 DEF o

LEMMA PowerLossKeeps ==
  ASSUME Flash!MgFlashAssumption, FlashInv, Flash!PowerLoss
  PROVE  StoreKept
<1>1. ram.pc # "idle" /\ ram' = Flash!Idle(FALSE) /\ ~ram'.ok /\ flash' = flash /\ saves' = saves
  BY DEF Flash!PowerLoss, Flash!Idle
<1>2. flash \in Flashes /\ saves \in 0 .. MaxSaves /\ ram.pc \in FlashPlaces
  BY RamFacts DEF FlashInv, FlashTypes
<1>3. Flash!RefusedWithReason
  BY DEF Flash!RefusedWithReason
<1>4. EndsClean(flash) => /\ FlashInv' /\ ram'.pc = "idle"
                          /\ \A k : Flash!Stored(k)' = Flash!Load(flash, k)
  BY <1>1, <1>2, EndsKeep
<1>5. CASE ram.pc \in {"fit", "erase", "refit"}
  <2>1. EndsClean(flash) /\ ram.pc \notin {"write", "restore"}
    BY <1>5 DEF FlashInv, LogInv
  <2>2. \A k \in Keys : Flash!Stored(k)' = Flash!Stored(k)
    BY <1>4, <2>1, StoredOutside
  <2>3. StoreStep
    BY <1>1, <1>4, <2>1, <2>2, StoreRefuses
  <2> QED
    BY <1>3, <1>4, <2>1, <2>3 DEF StoreKept
<1>6. CASE ram.pc = "write"
  <2> DEFINE e == ram.at
             n == ram.part - 1
             thing == Flash!Object(ram.key, ram.val)
  <2>1. /\ e \in 0 .. Sector /\ n \in Nat /\ ram.key \in Keys /\ Sector \in Nat
        /\ Units[thing.key] \in Nat /\ thing \in Things /\ thing.key = ram.key
        /\ Flash!End(Flash!Cut(flash, e)) = e /\ e + Units[thing.key] <= Sector /\ n < Units[thing.key]
        /\ \A i \in 1 .. n : flash[e + i] = thing
        /\ \A i \in e + n + 1 .. Sector : flash[i] # NONE => n = 0 /\ Unseen(flash, e, i)
    BY <1>6, WritingFacts
  <2>2. \A k : Flash!Stored(k) = Flash!Load(Flash!Cut(flash, e), k)
    BY <1>6, StoredWriting
  <2> HIDE DEF e, n, thing
  <2>3. CASE n = 0
    <3>1. \A i \in e + 1 .. Sector : flash[i] # NONE => Unseen(flash, e, i)
      BY <2>1, <2>3
    <3>2. EndsClean(flash) /\ \A k : Flash!Load(flash, k) = Flash!Load(Flash!Cut(flash, e), k)
      BY <1>2, <2>1, <3>1, NothingBehind
    <3>3. \A k \in Keys : Flash!Stored(k)' = Flash!Stored(k)
      BY <1>4, <2>2, <3>2
    <3>4. StoreStep
      BY <1>1, <1>4, <3>2, <3>3, StoreRefuses
    <3> QED
      BY <1>3, <1>4, <3>2, <3>4 DEF StoreKept
  <2>4. CASE n # 0
    <3>1. n >= 1 /\ n <= Units[thing.key] /\ n # Units[thing.key] /\ e + 1 < Sector
      BY <2>1, <2>4
    <3>2. \A i \in e + n + 1 .. Sector : flash[i] = NONE
      BY <2>1, <2>4
    <3>3. /\ EndsClean(flash)
          /\ Flash!Load(flash, thing.key) = IF n = Units[thing.key] THEN thing.val ELSE TORN
          /\ \A l : l # thing.key => /\ Flash!Copies(flash, l) = Flash!Copies(Flash!Cut(flash, e), l)
                                     /\ Flash!Load(flash, l) = Flash!Load(Flash!Cut(flash, e), l)
      BY <1>2, <2>1, <3>1, <3>2, BegunThere
    <3>4. \A k \in Keys : Flash!Stored(k)' = IF k = ram.key THEN TORN ELSE Flash!Stored(k)
      BY <1>4, <2>1, <2>2, <3>1, <3>3
    <3>5. StoreStep
      BY <1>1, <1>4, <3>3, <3>4, StoreTears
    <3> QED
      BY <1>3, <1>4, <3>3, <3>5 DEF StoreKept
  <2> QED
    BY <2>3, <2>4
<1>7. CASE ram.pc = "restore"
  <2> DEFINE e == Base
             n == ram.part - 1
  <2>1. /\ e \in 0 .. Sector /\ n \in Nat /\ Flash!End(Flash!Cut(flash, e)) = e /\ Sector \in Nat
        /\ \A i \in e + n + 1 .. Sector : flash[i] = NONE
        /\ n # 0 => ram.io # {}
        /\ \A k : (\A o \in ram.io : o.key # k) => Flash!Stored(k) = Flash!Load(Flash!Cut(flash, e), k)
        /\ \A o \in ram.io : Flash!Load(Flash!Cut(flash, e), o.key) = NONE
    BY <1>7, RestoringFacts DEF BaseInv
  <2>2. \A k : Flash!Load(Flash!Cut(flash, e), k) \in {Flash!Stored(k), NONE}
    BY <2>1
  <2> HIDE DEF e
  <2>3. EndsClean(flash) /\ \A k : Flash!Load(flash, k) \in {Flash!Stored(k), NONE, TORN}
    <3>1. CASE n = 0
      <4>1. \A i \in e + 1 .. Sector : flash[i] = NONE
        BY <2>1, <3>1
      <4> QED
        BY <1>2, <2>1, <2>2, <4>1, NothingBehind
    <3>2. CASE n # 0
      <4> DEFINE thing == NextBack
      <4>1. /\ thing \in Things /\ Units[thing.key] \in Nat
            /\ e + 1 < Sector /\ e + Units[thing.key] <= Sector
            /\ ram.part <= Units[thing.key] /\ \A i \in 1 .. n : flash[e + i] = thing
        BY <1>7, <2>1, <3>2, NextBackFacts DEF e
      <4> HIDE DEF thing, n
      <4>2. n >= 1 /\ n <= Units[thing.key] /\ n # Units[thing.key]
        BY <1>7, <2>1, <3>2, <4>1, RestoringFacts DEF n
      <4>3. /\ EndsClean(flash)
            /\ Flash!Load(flash, thing.key) = IF n = Units[thing.key] THEN thing.val ELSE TORN
            /\ \A l : l # thing.key => /\ Flash!Copies(flash, l) = Flash!Copies(Flash!Cut(flash, e), l)
                                       /\ Flash!Load(flash, l) = Flash!Load(Flash!Cut(flash, e), l)
        BY <1>2, <2>1, <4>1, <4>2, BegunThere
      <4> QED
        BY <2>2, <4>2, <4>3
    <3> QED
      BY <3>1, <3>2
  <2>4. \A k \in Keys : /\ Flash!Stored(k)' \in Flash!Versions \cup {NONE, TORN}
                        /\ Flash!Stored(k)' \in {Flash!Stored(k), NONE, TORN}
    BY <1>2, <1>4, <2>3, LoadFacts
  <2>5. StoreStep
    BY <1>1, <1>4, <2>3, <2>4, StoreWiped
  <2> QED
    BY <1>3, <1>4, <2>3, <2>5 DEF StoreKept
<1> QED
  BY <1>1, <1>2, <1>5, <1>6, <1>7 DEF FlashPlaces

LEMMA RestoreKeeps ==
  ASSUME Flash!MgFlashAssumption, FlashInv, Flash!Restore
  PROVE  StoreKept
<1> DEFINE e == Base
           p == ram.part
           io == ram.io
<1>0. ram.pc = "restore" /\ UNCHANGED saves
  BY DEF Flash!Restore
<1>1. /\ flash \in Flashes /\ saves \in 0 .. MaxSaves /\ ram \in RamTypes /\ Sector \in Nat
      /\ ram.key \in Keys /\ ram.val \in Flash!Versions /\ ram.erased
      /\ e \in 0 .. Sector /\ p \in Nat /\ p >= 1
      /\ io \in SUBSET Entries /\ IoInv(io) /\ (io = {} => p = 1)
      /\ Flash!End(Flash!Cut(flash, e)) = e /\ e <= Flash!TotalOf(Weights(Flash!Cut(flash, e)))
      /\ \A o \in io : e <= o.from /\ Flash!Copies(Flash!Cut(flash, e), o.key) = {}
      /\ \A i \in e + p .. Sector : flash[i] = NONE
      /\ Flash!Cut(flash, e) \in Flashes
  BY <1>0, RestoringFacts, CutFacts DEF BaseInv
<1>2. /\ \A k : (\A o \in io : o.key # k) => Flash!Stored(k) = Flash!Load(Flash!Cut(flash, e), k)
      /\ \A o \in io : Flash!Stored(o.key) = o.val
  BY <1>0, RestoringFacts
<1>3. Flash!RefusedWithReason
  BY <1>0 DEF Flash!RefusedWithReason
<1>4. CASE io = {}
  <2>1. ram' = [ram EXCEPT !.pc = "refit", !.at = 0] /\ UNCHANGED flash
    BY <1>4 DEF Flash!Restore
  <2>2. /\ ram'.pc = "refit" /\ ram'.io = {} /\ ram'.part = 1
        /\ ram'.key = ram.key /\ ram'.val = ram.val /\ ram' \in RamTypes
    <3>1. ram \in RamTypes /\ ram.io = {} /\ ram.part = 1 /\ 0 \in 0 .. Sector
      BY <1>1, <1>4
    <3> QED
      BY <2>1, <3>1 DEF RamTypes, FlashPlaces
  <2>3. FlashTypes'
    BY <1>0, <1>1, <2>1, <2>2 DEF FlashTypes, RamTypes, Flashes
  <2>4. e = Flash!End(flash)
    BY <1>1, <1>4 DEF Base
  <2>5. EndsClean(flash)
    BY <1>1, <1>4, <2>4 DEF EndsClean
  <2>6. LogInv'
    BY <2>1, <2>5 DEF LogInv, EndsClean, Unseen
  <2>7. WriteInv' /\ EraseInv' /\ RestoreInv'
    BY <2>2 DEF WriteInv, EraseInv, RestoreInv
  <2>8. RefitInv'
    <3>1. Weights(Flash!Cut(flash, e)) = Weights(flash)
      BY <1>1, <2>4, CutAtEnd DEF Weights
    <3>2. Flash!End(flash) <= Flash!TotalOf(Weights(flash))
      BY <1>1, <2>4, <3>1
    <3> QED
      BY <2>1, <3>2 DEF RefitInv, Weights, Flash!Copies
  <2>9. \A k \in Keys : Flash!Stored(k)' = Flash!Stored(k)
    BY <1>1, <1>2, <1>4, <2>1, <2>2, <2>4, StoredOutside, CutAtEnd
  <2>10. StoreStep
    BY <1>0, <2>2, <2>9, StoreStays
  <2> QED
    BY <1>3, <2>3, <2>6, <2>7, <2>8, <2>10 DEF StoreKept, FlashInv
<1>5. CASE io # {}
  <2> DEFINE o == Flash!FirstOf(io)
             thing == NextBack
             u == Units[thing.key]
  <2>1. /\ o \in io /\ \A q \in io : o.from <= q.from
        /\ thing \in Things /\ thing.key = o.key /\ thing.val = o.val
        /\ u \in Nat /\ u >= 1 /\ o.from \in 0 .. Sector /\ e <= o.from
        /\ e + 1 < Sector /\ e + u <= Sector /\ p <= u /\ e + p <= Sector
        /\ \A i \in 1 .. p - 1 : flash[e + i] = thing
    BY <1>0, <1>5, NextBackFacts
  <2>2. /\ Flash!Program(e + p - 1, thing)
        /\ ram' = [ram EXCEPT !.at = e, !.io = IF p = u THEN io \ {o} ELSE io,
                              !.part = IF p = u THEN 1 ELSE p + 1]
    <3>1. /\ Flash!Program(e + p - 1, Flash!Object(o.key, o.val))
          /\ ram' = [ram EXCEPT !.at = e, !.io = IF p = Units[o.key] THEN io \ {o} ELSE io,
                                !.part = IF p = Units[o.key] THEN 1 ELSE p + 1]
      BY <1>5 DEF Flash!Restore, Base
    <3>2. thing = Flash!Object(o.key, o.val) /\ u = Units[o.key]
      BY <2>1 DEF NextBack
    <3> QED
      BY <3>1, <3>2
  <2> HIDE DEF e, p, io, o, thing, u
  <2>3. /\ e + p \in 1 .. Sector /\ e + p \in e + p .. Sector
        /\ \A i \in e + p + 1 .. Sector : i \in e + p .. Sector /\ i \in 1 .. Sector /\ i # e + p
    BY <1>1, <2>1
  <2>4. flash[e + p] = NONE /\ \A i \in e + p + 1 .. Sector : flash[i] = NONE
    BY <1>1, <2>3
  <2>5. /\ flash' \in Flashes /\ flash'[e + p] = thing
        /\ \A i \in 1 .. Sector : i # e + p => flash'[i] = flash[i]
        /\ Flash!Cut(flash', e) = Flash!Cut(flash, e)
    BY <1>1, <2>1, <2>2, <2>4, Programmed
  <2>6. \A i \in 1 .. p : flash'[e + i] = thing
    <3> SUFFICES ASSUME NEW i \in 1 .. p PROVE flash'[e + i] = thing
      OBVIOUS
    <3>1. i = p \/ (i \in 1 .. p - 1 /\ e + i \in 1 .. Sector /\ e + i # e + p)
      BY <1>1, <2>1
    <3> QED
      BY <2>1, <2>5, <3>1
  <2>7. \A i \in e + p + 1 .. Sector : flash'[i] = NONE
    BY <2>3, <2>4, <2>5
  <2>8. CASE p # u
    <3>1. ram' = [ram EXCEPT !.at = e, !.io = io, !.part = p + 1]
      BY <2>2, <2>8
    <3>2. /\ ram'.pc = "restore" /\ ram'.at = e /\ ram'.part = p + 1 /\ ram'.io = io
          /\ ram'.key = ram.key /\ ram'.val = ram.val /\ ram' \in RamTypes
      <4>1. ram \in RamTypes /\ e \in 0 .. Sector /\ io \in SUBSET Entries /\ p + 1 \in Nat \ {0}
        BY <1>1
      <4> QED
        BY <1>0, <3>1, <4>1 DEF RamTypes
    <3>3. ram'.erased
      BY <1>1, <3>1 DEF RamTypes
    <3>4. FlashTypes'
      BY <1>0, <1>1, <2>5, <3>2 DEF FlashTypes
    <3>5. LogInv' /\ WriteInv' /\ EraseInv' /\ RefitInv'
      BY <3>2 DEF LogInv, WriteInv, EraseInv, RefitInv
    <3>6. Base' = e /\ p + 1 > 1 /\ (p + 1) - 1 = p /\ e + (p + 1) = e + p + 1 /\ p < u
      BY <1>1, <2>1, <2>8, <3>2 DEF Base
    <3>7. BaseInv'
      BY <1>1, <2>5, <2>7, <3>2, <3>6 DEF BaseInv
    <3>8. NextBack' = thing
      BY <3>2 DEF NextBack, thing, io
    <3>9. Begun(Base, ram.part - 1, NextBack)'
      BY <1>1, <2>1, <2>5, <2>6, <3>2, <3>6, <3>8 DEF Begun, u
    <3>10. RestoreInv'
      BY <1>1, <1>5, <3>2, <3>3, <3>7, <3>9 DEF RestoreInv, IoInv
    <3>11. \A k \in Keys : Flash!Stored(k)' = Flash!Stored(k)
      <4> SUFFICES ASSUME NEW k \in Keys PROVE Flash!Stored(k)' = Flash!Stored(k)
        OBVIOUS
      <4>1. CASE \A q \in io : q.key # k
        <5>1. Flash!Stored(k)' = Flash!Load(Flash!Cut(flash', e), k)
          BY <3>2, <3>6, <4>1, StoredRestoring
        <5> QED
          BY <1>2, <2>5, <4>1, <5>1
      <4>2. ASSUME NEW q \in io, q.key = k PROVE Flash!Stored(k)' = Flash!Stored(k)
        <5>1. \A r \in ram'.io : r.key = k => r = q
          BY <1>1, <3>2, <4>2 DEF IoInv
        <5>2. Flash!Stored(k)' = q.val
          BY <3>2, <4>2, <5>1, StoredRestoring
        <5> QED
          BY <1>2, <4>2, <5>2
      <4> QED
        BY <4>1, <4>2
    <3>12. StoreStep
      BY <1>0, <3>2, <3>11, StoreStays
    <3> QED
      BY <1>3, <3>4, <3>5, <3>10, <3>12 DEF StoreKept, FlashInv
  <2>9. CASE p = u
    <3>1. ram' = [ram EXCEPT !.at = e, !.io = io \ {o}, !.part = 1]
      BY <2>2, <2>9
    <3>2. /\ ram'.pc = "restore" /\ ram'.at = e /\ ram'.part = 1 /\ ram'.io = io \ {o}
          /\ ram'.key = ram.key /\ ram'.val = ram.val /\ ram' \in RamTypes
      <4>1. /\ ram \in RamTypes /\ e \in 0 .. Sector /\ 1 \in Nat \ {0}
            /\ io \ {o} \in SUBSET Entries
        BY <1>1
      <4> QED
        BY <1>0, <3>1, <4>1 DEF RamTypes
    <3>3. ram'.erased
      BY <1>1, <3>1 DEF RamTypes
    <3>4. FlashTypes'
      BY <1>0, <1>1, <2>5, <3>2 DEF FlashTypes
    <3>5. LogInv' /\ WriteInv' /\ EraseInv' /\ RefitInv'
      BY <3>2 DEF LogInv, WriteInv, EraseInv, RefitInv
    <3>6. /\ Flash!End(flash') = e + u
          /\ e \in Flash!Copies(flash', thing.key)
          /\ Flash!Load(flash', thing.key) = thing.val
          /\ \A l : l # thing.key => /\ Flash!Copies(flash', l) = Flash!Copies(Flash!Cut(flash, e), l)
                                     /\ Flash!Load(flash', l) = Flash!Load(Flash!Cut(flash, e), l)
      <4>1. /\ p <= Units[thing.key] /\ e + Units[thing.key] <= Sector
            /\ p = Units[thing.key] /\ u = Units[thing.key] /\ Flash!End(Flash!Cut(flash', e)) = e
        BY <1>1, <2>1, <2>5, <2>9 DEF u
      <4>2. /\ Flash!End(flash') = e + Units[thing.key]
            /\ e \in Flash!Copies(flash', thing.key)
            /\ Flash!Load(flash', thing.key) = IF p = Units[thing.key] THEN thing.val ELSE TORN
            /\ \A l : l # thing.key => /\ Flash!Copies(flash', l) = Flash!Copies(Flash!Cut(flash', e), l)
                                       /\ Flash!Load(flash', l) = Flash!Load(Flash!Cut(flash', e), l)
        <5>1. /\ flash' \in Flashes /\ e \in 0 .. Sector /\ thing \in Things /\ p \in Nat
              /\ p >= 1 /\ e + 1 < Sector
          BY <1>1, <2>1, <2>5
        <5>2. Flash!End(flash') = e + Units[thing.key]
          BY <2>6, <2>7, <4>1, <5>1, BegunThere, ZenonT(60)
        <5>3. e \in Flash!Copies(flash', thing.key)
          BY <2>6, <2>7, <4>1, <5>1, BegunThere, ZenonT(60)
        <5>4. Flash!Load(flash', thing.key) = IF p = Units[thing.key] THEN thing.val ELSE TORN
          BY <2>6, <2>7, <4>1, <5>1, BegunThere, ZenonT(60)
        <5>5. \A l : l # thing.key => /\ Flash!Copies(flash', l) = Flash!Copies(Flash!Cut(flash', e), l)
                                      /\ Flash!Load(flash', l) = Flash!Load(Flash!Cut(flash', e), l)
          BY <2>6, <2>7, <4>1, <5>1, BegunThere, ZenonT(60)
        <5> QED
          BY <5>2, <5>3, <5>4, <5>5
      <4> QED
        BY <2>5, <4>1, <4>2
    <3>7. Base' = e + u /\ e + u \in 0 .. Sector
      BY <1>1, <2>1, <3>2, <3>6 DEF Base
    <3>8. /\ Flash!End(Flash!Cut(flash', e + u)) = e + u
          /\ \A k : Flash!Copies(Flash!Cut(flash', e + u), k) = Flash!Copies(flash', k)
          /\ \A k : Flash!Load(Flash!Cut(flash', e + u), k) = Flash!Load(flash', k)
      BY <2>5, <3>6, CutAtEnd
    <3>9. ASSUME NEW q \in io \ {o}
          PROVE  /\ q.key # thing.key /\ e + u <= q.from
                 /\ Flash!Copies(Flash!Cut(flash', e + u), q.key) = {}
                 /\ e + u + Units[q.key] <= Sector /\ Units[q.key] \in Nat /\ Units[q.key] >= 1
      <4>1. q.key # o.key /\ (o.from + Units[o.key] <= q.from \/ q.from + Units[q.key] <= o.from)
        BY <1>1, <2>1 DEF IoInv
      <4>2. q.from \in 0 .. Sector /\ q.key \in Keys /\ o.from <= q.from
            /\ q.from + Units[q.key] <= Sector
        BY <1>1, <2>1 DEF IoInv, Entries
      <4>3. Units[q.key] \in Nat /\ Units[q.key] >= 1
        BY <4>2 DEF Flash!MgFlashAssumption
      <4>4. u = Units[o.key]
        BY <2>1 DEF u
      <4>5. e + u <= q.from
        BY <1>1, <2>1, <4>1, <4>2, <4>3, <4>4
      <4>6. e + u + Units[q.key] <= Sector
        BY <1>1, <2>1, <4>2, <4>3, <4>5
      <4>7. Flash!Copies(Flash!Cut(flash', e + u), q.key) = {}
        BY <1>1, <2>1, <3>6, <3>8, <4>1
      <4> QED
        BY <2>1, <4>1, <4>3, <4>5, <4>6, <4>7
    <3>10. BaseInv'
      <4>1. Flash!TotalOf(Weights(Flash!Cut(flash', e + u))) = Flash!TotalOf(Weights(Flash!Cut(flash, e))) + u
        <5>1. thing.key \in Keys /\ Flash!Copies(Flash!Cut(flash, e), thing.key) = {}
          BY <1>1, <2>1 DEF Things
        <5>2. Flash!Copies(Flash!Cut(flash', e + u), thing.key) # {}
          BY <3>6, <3>8
        <5>3. \A l : l # thing.key => Flash!Copies(Flash!Cut(flash', e + u), l) = Flash!Copies(Flash!Cut(flash, e), l)
          BY <3>6, <3>8
        <5> QED
          BY <5>1, <5>2, <5>3, WeightsGrow DEF u
      <4>2. e + u <= Flash!TotalOf(Weights(Flash!Cut(flash', e + u)))
        BY <1>1, <2>1, <4>1, WeightsNatural
      <4>3. \A i \in e + u + 1 .. Sector : flash'[i] = NONE
        BY <2>7, <2>9
      <4> QED
        BY <3>2, <3>7, <3>8, <3>9, <4>2, <4>3 DEF BaseInv
    <3>11. ASSUME ram'.io # {} PROVE Begun(Base, ram.part - 1, NextBack)'
      <4> DEFINE q == Flash!FirstOf(ram'.io)
      <4>1. q \in io \ {o}
        <5>1. ram'.io \in SUBSET Entries
          BY <1>1, <3>2
        <5> QED
          BY <3>2, <3>11, <5>1, FirstOfFacts
      <4>2. NextBack' = Flash!Object(q.key, q.val) /\ NextBack'.key = q.key
        BY DEF NextBack, Flash!Object
      <4> HIDE DEF q
      <4>3. /\ e + u + Units[q.key] <= Sector /\ 1 - 1 < Units[q.key]
            /\ \A i \in 1 .. 1 - 1 : FALSE
        BY <3>9, <4>1
      <4> QED
        BY <3>2, <3>7, <3>8, <4>2, <4>3 DEF Begun
    <3>12. RestoreInv'
      <4>1. IoInv(ram.io)'
        BY <1>1, <3>2 DEF IoInv
      <4> QED
        BY <3>2, <3>3, <3>10, <3>11, <4>1 DEF RestoreInv
    <3>13. \A k \in Keys : Flash!Stored(k)' = Flash!Stored(k)
      <4> SUFFICES ASSUME NEW k \in Keys PROVE Flash!Stored(k)' = Flash!Stored(k)
        OBVIOUS
      <4>1. CASE k = thing.key
        <5>1. \A q \in ram'.io : q.key # k
          BY <3>2, <3>9, <4>1
        <5>2. Flash!Stored(k)' = Flash!Load(flash', k)
          BY <3>2, <5>1, StoredRestoring
        <5> QED
          BY <1>2, <2>1, <3>6, <4>1, <5>2
      <4>2. CASE k # thing.key /\ \A q \in io : q.key # k
        <5>1. Flash!Stored(k)' = Flash!Load(flash', k)
          BY <3>2, <4>2, StoredRestoring
        <5> QED
          BY <1>2, <3>6, <4>2, <5>1
      <4>3. ASSUME NEW q \in io, q.key = k, k # thing.key PROVE Flash!Stored(k)' = Flash!Stored(k)
        <5>1. q \in ram'.io
          BY <2>1, <3>2, <4>3
        <5>2. \A r \in ram'.io : r.key = k => r = q
          BY <1>1, <3>2, <4>3 DEF IoInv
        <5>3. Flash!Stored(k)' = q.val
          BY <3>2, <4>3, <5>1, <5>2, StoredRestoring
        <5> QED
          BY <1>2, <4>3, <5>3
      <4> QED
        BY <4>1, <4>2, <4>3
    <3>14. StoreStep
      BY <1>0, <3>2, <3>13, StoreStays
    <3> QED
      BY <1>3, <3>4, <3>5, <3>12, <3>14 DEF StoreKept, FlashInv
  <2> QED
    BY <2>8, <2>9
<1> QED
  BY <1>4, <1>5

LEMMA FlashInitially ==
  ASSUME Flash!MgFlashAssumption, Flash!Init
  PROVE  FlashInv /\ Flash!Store!Init
<1>1. /\ flash = [i \in 1 .. Sector |-> NONE] /\ saves = 0
      /\ ram = [pc |-> "idle", key |-> NONE, val |-> NONE, at |-> 0, part |-> 1,
                io |-> {}, erased |-> TRUE, ok |-> TRUE]
  BY DEF Flash!Init, Flash!Idle
<1>2. 0 \in 0 .. Sector /\ saves \in 0 .. MaxSaves
  BY <1>1 DEF Flash!MgFlashAssumption
<1>3. /\ flash \in Flashes /\ Flash!End(flash) = 0
      /\ \A k : Flash!Copies(flash, k) = {} /\ Flash!Load(flash, k) = NONE
  BY <1>1, <1>2, NothingErased
<1>4. ram \in RamTypes
  BY <1>1, <1>2 DEF RamTypes, FlashPlaces
<1>5. FlashTypes
  BY <1>1, <1>2, <1>3, <1>4 DEF FlashTypes
<1>6. EndsClean(flash)
  BY <1>1, <1>3 DEF EndsClean
<1>7. LogInv /\ WriteInv /\ EraseInv /\ RestoreInv /\ RefitInv
  BY <1>1, <1>6 DEF LogInv, WriteInv, EraseInv, RestoreInv, RefitInv
<1>8. \A k \in Keys : Flash!Stored(k) = NONE
  BY <1>1, <1>3, StoredOutside
<1>9. Flash!Store!Init
  BY <1>1, <1>8 DEF Flash!Store!Init
<1> QED
  BY <1>5, <1>7, <1>9 DEF FlashInv

LEMMA FlashStep ==
  ASSUME Flash!MgFlashAssumption, FlashInv, Flash!Next \/ UNCHANGED Flash!vars
  PROVE  StoreKept
<1>1. CASE Flash!Next
  BY <1>1, SaveCallKeeps, FitKeeps, WriteKeeps, EraseKeeps, RestoreKeeps, RefitKeeps,
     PowerLossKeeps DEF Flash!Next
<1>2. CASE UNCHANGED Flash!vars
  <2>1. flash' = flash /\ ram' = ram /\ saves' = saves
    BY <1>2 DEF Flash!vars
  <2>2. FlashTypes'
    BY <2>1 DEF FlashInv, FlashTypes, RamTypes, Flashes
  <2>3. LogInv'
    BY <2>1 DEF FlashInv, LogInv, EndsClean, Unseen
  <2>4. WriteInv'
    BY <2>1 DEF FlashInv, WriteInv, Begun, Unseen
  <2>5. EraseInv'
    <3>1. Flash!Buffered(flash)' = Flash!Buffered(flash)
      BY <2>1
    <3> QED
      BY <2>1, <3>1 DEF FlashInv, EraseInv
  <2>6. RestoreInv'
    <3>1. Base' = Base /\ NextBack' = NextBack
      BY <2>1 DEF Base, NextBack
    <3>2. BaseInv => BaseInv'
      BY <2>1, <3>1 DEF BaseInv
    <3>3. Begun(Base, ram.part - 1, NextBack) => Begun(Base, ram.part - 1, NextBack)'
      BY <2>1, <3>1 DEF Begun
    <3>4. IoInv(ram.io) => IoInv(ram.io)'
      BY <2>1 DEF IoInv
    <3> QED
      BY <2>1, <3>2, <3>3, <3>4 DEF FlashInv, RestoreInv
  <2>7. RefitInv'
    BY <2>1 DEF FlashInv, RefitInv
  <2>8. StoreStep
    <3>1. \A k : Flash!Stored(k)' = Flash!Stored(k)
      BY <2>1, StoredIs
    <3> QED
      BY <2>1, <3>1 DEF StoreStep, Flash!AnswersTruly, Flash!Store!vars
  <2>9. Flash!RefusedWithReason
    BY <2>1 DEF Flash!RefusedWithReason
  <2> QED
    BY <2>2, <2>3, <2>4, <2>5, <2>6, <2>7, <2>8, <2>9 DEF StoreKept, FlashInv
<1> QED
  BY <1>1, <1>2

-----------------------------------------------------------------------------
(* The theorems *)

LibrariesInv == /\ which = "segment" => SegInv
                /\ which = "ota" => OtaInv
                /\ which = "gc" => GcInv
                /\ which = "rings" => RingInv
                /\ which = "flash" => FlashInv

LEMMA LibrariesInitially == Init => LibrariesInv
<1> SUFFICES ASSUME Init PROVE LibrariesInv
  OBVIOUS
<1>1. /\ Segment!ShmSegmentAssumption /\ Ota!MgOtaAssumption /\ Gc!MemGcAssumption
      /\ Rings!MgDriverAssumption /\ Flash!MgFlashAssumption
  BY LibrariesAssumption DEF LibrariesAssumption
<1>2. which = "segment" => Segment!Init
  BY DEF Init
<1>3. which = "ota" => Ota!Init
  BY DEF Init
<1>4. which = "gc" => Gc!Init
  BY DEF Init
<1>5. which = "rings" => Rings!Init
  BY DEF Init
<1>6. which = "flash" => Flash!Init
  BY DEF Init
<1>7. Flash!Init => FlashInv
  BY <1>1, FlashInitially
<1> QED
  BY <1>1, <1>2, <1>3, <1>4, <1>5, <1>6, <1>7, SegInitially, OtaInitially, GcInitially,
     RingInitially
  DEF LibrariesInv

\* The variables of a component change only by its own steps.
LEMMA LibrariesStep ==
  ASSUME LibrariesInv,
         [Next]_<<which, store, firmware, rings, segment, gc>>
  PROVE  LibrariesInv'
<1>1. /\ Segment!ShmSegmentAssumption /\ Ota!MgOtaAssumption /\ Gc!MemGcAssumption
      /\ Rings!MgDriverAssumption /\ Flash!MgFlashAssumption
  BY LibrariesAssumption DEF LibrariesAssumption
<1>2. which' = which
  BY DEF Next
<1>3. which = "segment" => Segment!Next \/ UNCHANGED segment
  BY DEF Next
<1>4. which = "ota" => Ota!Next \/ UNCHANGED firmware
  BY DEF Next
<1>5. which = "gc" => Gc!Next \/ UNCHANGED gc
  BY DEF Next
<1>6. SegInv /\ UNCHANGED segment => SegInv'
  BY DEF SegInv, SegTypes, AboutToAttach, InitHasTheKey, SeekersHaveNone, Segment!AttachedIsCurrent,
         Segment!PayloadHasHead, Segment!ConnectTrueMeansAttached, segment
<1>7. OtaInv /\ UNCHANGED firmware => OtaInv'
  <2> SUFFICES ASSUME OtaInv, UNCHANGED <<bank, image, ota, stored, saving, sealed, updates>>
               PROVE  OtaInv'
    BY DEF firmware
  <2>1. OtaTypes'
    BY DEF OtaInv, OtaTypes, OtaFields, OtaBanks, OtaRecords
  <2>2. OtaSaves'
    BY DEF OtaInv, OtaSaves, Ota!Intact, Ota!Other
  <2>3. OtaTrial' /\ sealed'[bank'].size > 0
    BY DEF OtaInv, OtaTrial
  <2>4. Ota!BootsIntact' /\ Ota!RollbackIsPossible'
    BY DEF OtaInv, Ota!BootsIntact, Ota!RollbackIsPossible, Ota!Intact, Ota!Status, Ota!Other
  <2> QED BY <2>1, <2>2, <2>3, <2>4 DEF OtaInv
<1>8. GcInv /\ UNCHANGED gc => GcInv'
  <2> SUFFICES ASSUME GcInv,
                      UNCHANGED <<Mode, sem_mutex, total, totalMallocSize, totalFreeSize, logs,
                                  heap, blocks, place, ptr, size, report, misuses, failed,
                                  freedTwice>>
               PROVE  GcInv'
    BY DEF gc
  <2>1. GcTypes'
    BY DEF GcInv, GcTypes, GcMaps, GcCalls
  <2>2. GcQuiet' /\ GcInserts' /\ GcTracked'
    BY DEF GcInv, GcQuiet, GcInserts, GcTracked
  <2>3. GcItems' = GcItems
    BY DEF GcItems
  <2>4. GcClaims'
    BY <2>3 DEF GcInv, GcClaims
  <2>5. GcExclusive'
    <3>1. Gc!Inside' = Gc!Inside
      BY DEF Gc!Inside
    <3> QED BY <3>1 DEF GcInv, GcExclusive
  <2>6. GcFrees' /\ GcAllocs'
    BY DEF GcInv, GcFrees, GcAllocs, Clean
  <2>7. GcFiles'
    <3>1. Owned' = Owned
      BY DEF Owned
    <3> QED BY <3>1 DEF GcInv, GcFiles, Clean
  <2>8. GcAccounts'
    BY DEF GcInv, GcAccounts, Clean
  <2>9. Gc!ReportNamesLeaks' /\ Gc!SecondFreeIsCaught'
    BY DEF GcInv, Gc!ReportNamesLeaks, Gc!SecondFreeIsCaught
  <2> QED BY <2>1, <2>2, <2>4, <2>5, <2>6, <2>7, <2>8, <2>9 DEF GcInv
<1>9. which = "segment" => SegInv'
  BY <1>1, <1>3, <1>6, SegStep DEF LibrariesInv
<1>10. which = "ota" => OtaInv'
  BY <1>1, <1>4, <1>7, OtaStep DEF LibrariesInv
<1>11. which = "gc" => GcInv'
  BY <1>1, <1>5, <1>8, GcStep DEF LibrariesInv
<1>12. which = "rings" => Rings!Next \/ UNCHANGED rings
  BY DEF Next
<1>13. UNCHANGED rings => UNCHANGED Rings!vars
  BY DEF rings, Rings!vars, Rings!cpu
<1>14. which = "rings" => RingInv'
  BY <1>1, <1>12, <1>13, RingStep DEF LibrariesInv
<1>15. which = "flash" => Flash!Next \/ UNCHANGED store
  BY DEF Next
<1>16. UNCHANGED store => UNCHANGED Flash!vars
  BY DEF store, Flash!vars
<1>17. which = "flash" => StoreKept
  BY <1>1, <1>15, <1>16, FlashStep DEF LibrariesInv
<1>18. which = "flash" => FlashInv'
  BY <1>17 DEF StoreKept
<1> QED BY <1>2, <1>9, <1>10, <1>11, <1>14, <1>18 DEF LibrariesInv

\* The invariants of the segment, the firmware update, the tracker, the rings
\* and the flash.
THEOREM LibrariesInvariant == Spec => []LibrariesInv
BY LibrariesInitially, LibrariesStep, PTL DEF Spec

\* A process of shmfifo.cpp that has a segment has the one the key names, unless
\* Init or Distory took it away; its payload lies in it; and Connect returns true
\* only with a segment or after a failed attach.
THEOREM SegmentsStayCurrent == Spec => []SegmentsAreCurrent
<1>1. LibrariesInv => SegmentsAreCurrent
  BY DEF LibrariesInv, SegInv, SegmentsAreCurrent
<1> QED BY <1>1, LibrariesInvariant, PTL

\* Whenever the power goes during an update of ota_flash.c, a complete firmware
\* boots, and the one before it is complete as long as it is on trial.
THEOREM FirmwareAlwaysBoots == Spec => []FirmwareBoots
<1>1. LibrariesInv => FirmwareBoots
  BY DEF LibrariesInv, OtaInv, FirmwareBoots
<1> QED BY <1>1, LibrariesInvariant, PTL

\* The tracker of mem.h excludes threads from each other, reports and files the
\* blocks that leaked, all and no others, and catches the second free of a block.
THEOREM LeaksAreAlwaysNamed == Spec => []LeaksAreNamed
<1>1. LibrariesInv => LeaksAreNamed
  <2>1. Gc!MemGcAssumption
    BY LibrariesAssumption DEF LibrariesAssumption
  <2> QED BY <2>1, GcTellsTheTruth DEF LibrariesInv, LeaksAreNamed
<1> QED BY <1>1, LibrariesInvariant, PTL

\* However the handler, the task and the engine of a driver interleave, every
\* whole frame that was stored comes to the stack once and in its turn or is
\* dropped for want of room, every frame accepted goes out once and in its turn,
\* and none is left lying; of the same54, only what comes in is kept so.
THEOREM FramesAlwaysGetThrough == Spec => []FramesGetThrough
<1>1. LibrariesInv => FramesGetThrough
  <2>1. Rings!MgDriverAssumption
    BY LibrariesAssumption DEF LibrariesAssumption
  <2> QED BY <2>1, RingsGetThrough DEF LibrariesInv, FramesGetThrough
<1> QED BY <1>1, LibrariesInvariant, PTL

\* The log of objects that device_flash.c keeps is a store of the newest values,
\* whatever the keys, the sizes of their objects and the sector: a power failure
\* costs the value being saved at most, or those that the cleanup has erased and
\* not yet written back; a call that returns true has saved its value; and one
\* is refused only for want of room, after a failed erasure, or for the unit that
\* nobody sees.
THEOREM FlashAlwaysSurvives == Spec => FlashSurvivesPowerFailures
<1>1. Init => (which = "flash" => Flash!Store!Init)
  <2> SUFFICES ASSUME Init, which = "flash" PROVE Flash!Store!Init
    OBVIOUS
  <2>1. Flash!MgFlashAssumption /\ Flash!Init
    BY LibrariesAssumption DEF LibrariesAssumption, Init
  <2> QED BY <2>1, FlashInitially
<1>2. LibrariesInv /\ [Next]_<<which, store, firmware, rings, segment, gc>> =>
        [which = "flash" => /\ Flash!Store!Next \/ UNCHANGED Flash!Store!vars
                            /\ Flash!AnswersTruly /\ Flash!RefusedWithReason]_store
  <2> SUFFICES ASSUME LibrariesInv, Next, which = "flash"
               PROVE  /\ Flash!Store!Next \/ UNCHANGED Flash!Store!vars
                      /\ Flash!AnswersTruly /\ Flash!RefusedWithReason
    BY DEF store
  <2>1. Flash!MgFlashAssumption /\ FlashInv /\ Flash!Next
    BY LibrariesAssumption DEF LibrariesAssumption, LibrariesInv, Next
  <2>2. StoreKept
    BY <2>1, FlashStep
  <2> QED BY <2>2 DEF StoreKept, StoreStep
<1> QED BY <1>1, <1>2, LibrariesInvariant, PTL DEF Spec, FlashSurvivesPowerFailures

============================================================================
