------------------------------ MODULE ShmSegment ------------------------------
(***************************************************************************)
(* The life of the segment behind shmfifo/shmfifo.cpp: Init, Connect,      *)
(* Separate and Distory, call by call to the kernel, in processes that     *)
(* share one key.  What happens inside a segment is ShmFifo.               *)
(*                                                                         *)
(* One process, the creator, calls Init and Distory, "once": it does not   *)
(* call Init while it has a segment.  Any process may be killed, which     *)
(* detaches it, and started again with an object of its own; an earlier    *)
(* run of the program may have left a segment behind.                      *)
(***************************************************************************)
EXTENDS Naturals

CONSTANTS
  Procs,
  Creator,
  MaxSegs,  \* bound: the segments the kernel makes
  NULL,
  BAD       \* (void *)-1, what a failed shmat returns

Segs == 1 .. MaxSegs

ShmSegmentAssumption == /\ Creator \in Procs
                        /\ MaxSegs \in Nat
                        /\ NULL \notin Segs /\ BAD \notin Segs /\ NULL # BAD

VARIABLES
  made,       \* the segments made so far are 1 .. made
  key,        \* the segment that the key names, or NULL
  filled,     \* the segments that Init has filled in
  m_shmHead, m_payload,
  pc, shmid,  \* where each process is, and its local variable
  result,     \* what the last call returned
  stale       \* history: the processes that had, or were getting, a segment
              \* when its key was taken away

kernel == <<made, key, filled>>
vars == <<kernel, m_shmHead, m_payload, pc, shmid, result, stale>>

Init == /\ made \in {0, 1} /\ made <= MaxSegs
        /\ key = IF made = 0 THEN NULL ELSE 1
        /\ filled = 1 .. made
        /\ m_shmHead = [p \in Procs |-> NULL]
        /\ m_payload = [p \in Procs |-> NULL]
        /\ pc = [p \in Procs |-> "idle"]
        /\ shmid = [p \in Procs |-> NULL]
        /\ result = [p \in Procs |-> "none"]
        /\ stale = {}

Goto(p, from, to) == pc[p] = from /\ pc' = [pc EXCEPT ![p] = to]
Return(p, from, value) == /\ Goto(p, from, "idle")
                          /\ result' = [result EXCEPT ![p] = value]
                          /\ shmid' = [shmid EXCEPT ![p] = NULL]

Attached(s) == {p \in Procs : m_shmHead[p] = s}
\* A segment without a key lives on while somebody is attached to it, and
\* can still be attached to by somebody who knows its id.
Exists(s) == s = key \/ Attached(s) # {}

\* shmctl(s, IPC_RMID)
Remove(s) == /\ key' = IF key = s THEN NULL ELSE key
             /\ stale' = stale \cup Attached(s)
                           \cup {p \in Procs : pc[p] \in {"c_attach"} /\ shmid[p] = s}

-----------------------------------------------------------------------------
(* CShmFIFO::Init *)

InitCall == /\ m_payload[Creator] = NULL
            /\ Goto(Creator, "idle", "i_find")
            /\ UNCHANGED <<kernel, m_shmHead, m_payload, shmid, result, stale>>

\* shmget(key, 0, IPC_EXCL)
InitFind == /\ Goto(Creator, "i_find", IF key = NULL THEN "i_create" ELSE "i_remove")
            /\ shmid' = [shmid EXCEPT ![Creator] = key]
            /\ UNCHANGED <<kernel, m_shmHead, m_payload, result, stale>>

InitRemove == /\ Goto(Creator, "i_remove", "i_create")
              /\ Remove(shmid[Creator])
              /\ UNCHANGED <<made, filled, m_shmHead, m_payload, shmid, result>>

InitCreate == /\ key = NULL /\ made < MaxSegs
              /\ Goto(Creator, "i_create", "i_attach")
              /\ made' = made + 1
              /\ key' = made + 1
              /\ shmid' = [shmid EXCEPT ![Creator] = made + 1]
              /\ UNCHANGED <<filled, m_shmHead, m_payload, result, stale>>

\* Either shmctl or shmget fails.
InitFails == /\ \E from \in {"i_remove", "i_create"} : Return(Creator, from, "Init false")
             /\ UNCHANGED <<kernel, m_shmHead, m_payload, stale>>

InitAttach == /\ Goto(Creator, "i_attach", "i_fill")
              /\ m_shmHead' = [m_shmHead EXCEPT ![Creator] = shmid[Creator]]
              /\ UNCHANGED <<kernel, m_payload, shmid, result, stale>>

InitAttachFails == /\ Return(Creator, "i_attach", "Init false")
                   /\ m_shmHead' = [m_shmHead EXCEPT ![Creator] = BAD]
                   /\ UNCHANGED <<kernel, m_payload, stale>>

\* memset and sem_init, which ShmFifo takes apart.
InitFill == /\ Return(Creator, "i_fill", "Init true")
            /\ filled' = filled \cup {m_shmHead[Creator]}
            /\ m_payload' = [m_payload EXCEPT ![Creator] = m_shmHead[Creator]]
            /\ UNCHANGED <<made, key, m_shmHead, stale>>

-----------------------------------------------------------------------------
(* CShmFIFO::Connect *)

\* if (m_shmHead != NULL) return true;
ConnectAgain(p) == /\ m_shmHead[p] # NULL
                   /\ Return(p, "idle", "Connect true")
                   /\ UNCHANGED <<kernel, m_shmHead, m_payload, stale>>

ConnectCall(p) == /\ m_shmHead[p] = NULL
                  /\ Goto(p, "idle", "c_find")
                  /\ UNCHANGED <<kernel, m_shmHead, m_payload, shmid, result, stale>>

\* Faulty form: the id is the one of the first segment, not looked up again.
ConnectRemembers(p) == /\ key # NULL
                       /\ Goto(p, "c_find", "c_attach")
                       /\ shmid' = [shmid EXCEPT ![p] = 1]
                       /\ UNCHANGED <<kernel, m_shmHead, m_payload, result, stale>>

ConnectFind(p) == /\ key # NULL
                  /\ Goto(p, "c_find", "c_attach")
                  /\ shmid' = [shmid EXCEPT ![p] = key]
                  /\ UNCHANGED <<kernel, m_shmHead, m_payload, result, stale>>

ConnectFindsNone(p) == /\ key = NULL
                       /\ Return(p, "c_find", "Connect false")
                       /\ UNCHANGED <<kernel, m_shmHead, m_payload, stale>>

ConnectAttach(p) == /\ Exists(shmid[p])
                    /\ Return(p, "c_attach", "Connect true")
                    /\ m_shmHead' = [m_shmHead EXCEPT ![p] = shmid[p]]
                    /\ m_payload' = [m_payload EXCEPT ![p] = shmid[p]]
                    /\ UNCHANGED <<kernel, stale>>

ConnectAttachFails(p) == /\ Return(p, "c_attach", "Connect false")
                         /\ m_shmHead' = [m_shmHead EXCEPT ![p] = BAD]
                         /\ UNCHANGED <<kernel, m_payload, stale>>

-----------------------------------------------------------------------------
(* CShmFIFO::Separate and Distory *)

Separate(p) == /\ m_shmHead[p] \in Segs
               /\ Return(p, "idle", "Separate true")
               /\ m_shmHead' = [m_shmHead EXCEPT ![p] = NULL]
               /\ m_payload' = [m_payload EXCEPT ![p] = NULL]
               /\ UNCHANGED kernel
               /\ stale' = stale \ {p}

SeparateFails(p) == /\ m_shmHead[p] \notin Segs
                    /\ Return(p, "idle", "Separate false")
                    /\ UNCHANGED <<kernel, m_shmHead, m_payload, stale>>

\* The shmid comes from the segment itself; the semaphores are destroyed.
DistoryCall == /\ m_shmHead[Creator] \in filled
               /\ Goto(Creator, "idle", "d_separate")
               /\ shmid' = [shmid EXCEPT ![Creator] = m_shmHead[Creator]]
               /\ UNCHANGED <<kernel, m_shmHead, m_payload, result, stale>>

DistorySeparate == /\ Goto(Creator, "d_separate", "d_remove")
                   /\ m_shmHead' = [m_shmHead EXCEPT ![Creator] = NULL]
                   /\ m_payload' = [m_payload EXCEPT ![Creator] = NULL]
                   /\ stale' = stale \ {Creator}
                   /\ UNCHANGED <<kernel, shmid, result>>

DistoryRemove == /\ Return(Creator, "d_remove", "Distory true")
                 /\ Remove(shmid[Creator])
                 /\ UNCHANGED <<made, filled, m_shmHead, m_payload>>

\* The process is killed, and started again.
Restart(p) == /\ m_shmHead' = [m_shmHead EXCEPT ![p] = NULL]
              /\ m_payload' = [m_payload EXCEPT ![p] = NULL]
              /\ pc' = [pc EXCEPT ![p] = "idle"]
              /\ shmid' = [shmid EXCEPT ![p] = NULL]
              /\ result' = [result EXCEPT ![p] = "none"]
              /\ stale' = stale \ {p}
              /\ UNCHANGED kernel

-----------------------------------------------------------------------------
Initialise == \/ InitCall \/ InitFind \/ InitRemove \/ InitCreate \/ InitFails
              \/ InitAttach \/ InitAttachFails \/ InitFill

Connect(p) == \/ ConnectAgain(p) \/ ConnectCall(p) \/ ConnectFind(p)
              \/ ConnectFindsNone(p) \/ ConnectAttach(p) \/ ConnectAttachFails(p)

Distory == DistoryCall \/ DistorySeparate \/ DistoryRemove

Next == \/ Initialise \/ Distory
        \/ \E p \in Procs : Connect(p) \/ Separate(p) \/ SeparateFails(p) \/ Restart(p)

Spec == Init /\ [][Next]_vars

-----------------------------------------------------------------------------
(* Properties *)

\* A process that has a segment has the one that the key names, and so the
\* same as every other, unless its segment was taken away from under it: by
\* an Init that found a segment in the way, or by Distory.
AttachedIsCurrent ==
  \A p \in Procs : m_shmHead[p] \in Segs => m_shmHead[p] = key \/ p \in stale

\* Where there is a payload there is the head of the same segment: Read and
\* Write work on one segment, and not on memory that was detached.
PayloadHasHead ==
  \A p \in Procs : m_payload[p] # NULL => m_payload[p] = m_shmHead[p]

\* A Connect that returns true has left the process with a segment, unless an
\* earlier attach failed: its (void *)-1 passes for a segment ever after.
ConnectTrueMeansAttached ==
  \A p \in Procs : result[p] = "Connect true" /\ pc[p] = "idle" =>
    m_shmHead[p] \in Segs \/ m_shmHead[p] = BAD

=============================================================================
