------------------------------- MODULE TaskFifo -------------------------------
(***************************************************************************)
(* What the task queue of ThreadPool2.0/task_queue.c promises the pool: a  *)
(* first-in first-out queue shared by several threads.  Each call of       *)
(* add_task or pop_task takes effect at one instant between its call and   *)
(* its return, and pop_task returns NULL only if the queue was empty at    *)
(* that instant.                                                           *)
(*                                                                         *)
(* The client's side of the contract is the guard of CallPut: the link of  *)
(* the queue lives inside the task, so a task that is in the queue, or in  *)
(* the hands of a call, is not offered again.                              *)
(***************************************************************************)
EXTENDS Sequences, Functions

CONSTANTS
  Threads,  \* the callers
  Tasks,    \* the addresses of task_t objects
  NULL

VARIABLES
  queue,  \* the tasks in the queue, oldest first
  call,   \* call[t]: "none", "put", "get", or "done" once it took effect
  val     \* val[t]: the task being put, or the result of the get

vars == <<queue, call, val>>

InUse == Range(queue) \cup {val[t] : t \in Threads}

Init == /\ queue = <<>>
        /\ call = [t \in Threads |-> "none"]
        /\ val = [t \in Threads |-> NULL]

CallPut(t, x) == /\ call[t] = "none"
                 /\ x \notin InUse
                 /\ call' = [call EXCEPT ![t] = "put"]
                 /\ val' = [val EXCEPT ![t] = x]
                 /\ UNCHANGED queue

Put(t) == /\ call[t] = "put"
          /\ queue' = Append(queue, val[t])
          /\ call' = [call EXCEPT ![t] = "done"]
          /\ val' = [val EXCEPT ![t] = NULL]

CallGet(t) == /\ call[t] = "none"
              /\ call' = [call EXCEPT ![t] = "get"]
              /\ UNCHANGED <<queue, val>>

Get(t) == /\ call[t] = "get"
          /\ queue # <<>>
          /\ queue' = Tail(queue)
          /\ call' = [call EXCEPT ![t] = "done"]
          /\ val' = [val EXCEPT ![t] = Head(queue)]

GetNothing(t) == /\ call[t] = "get"
                 /\ queue = <<>>
                 /\ call' = [call EXCEPT ![t] = "done"]
                 /\ UNCHANGED <<queue, val>>

Return(t) == /\ call[t] = "done"
             /\ call' = [call EXCEPT ![t] = "none"]
             /\ val' = [val EXCEPT ![t] = NULL]
             /\ UNCHANGED queue

Next == \E t \in Threads :
          \/ \E x \in Tasks : CallPut(t, x)
          \/ CallGet(t)
          \/ Put(t) \/ Get(t) \/ GetNothing(t) \/ Return(t)

Spec == Init /\ [][Next]_vars

=============================================================================
