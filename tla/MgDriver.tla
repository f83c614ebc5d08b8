------------------------------ MODULE MgDriver ------------------------------
(***************************************************************************)
(* The Ethernet drivers of mongoose 7.12 that work through descriptors in  *)
(* memory (src/drivers: rt1020, same54, stm32, stm32h, tm4c).  Three share *)
(* the two rings: the engine of the chip, the interrupt handler and the    *)
(* task that polls the stack, which the handler may interrupt between any  *)
(* two of its steps.  A frame is its number; what comes in may be damaged. *)
(*                                                                         *)
(* The engine is external, modelled from how the drivers use it: it takes  *)
(* descriptors in turn, stops at one that is not its own, and goes on when *)
(* a driver tells it to.                                                   *)
(***************************************************************************)
EXTENDS Integers, Sequences

CONSTANTS
  Drivers,  \* those in question
  Count,    \* ETH_DESC_CNT
  Batch,    \* the descriptors a handler looks at in one interrupt
  Room,     \* the frames for which the receive queue has room
  MaxIn,    \* bound: the frames that come in
  MaxOut    \* bound: the frames the stack sends

MgDriverAssumption ==
  /\ Drivers \subseteq {"imxrt1020", "same54", "stm32", "stm32h", "tm4c"}
  /\ {Count, Batch} \subseteq Nat \ {0} /\ Count <= Batch

VARIABLES
  driver,
  rxdesc, rxno,  \* s_rxdesc and s_rxno
  txdesc, txno,  \* s_txdesc and s_txno
  engine,        \* where it is in both rings, and whether it has stopped
  irq, task,     \* the handler, and mg_tcpip_driver_*_tx in the task
  queue,         \* recv_queue
  seen           \* what has come in, been dropped, taken, sent and gone out

cpu == <<irq, task>>
vars == <<driver, rxdesc, rxno, txdesc, txno, engine, cpu, queue, seen>>

Slots == 0 .. Count - 1
After(i) == (i + 1) % Count
Nothing == [frame |-> 0, whole |-> FALSE]

\* The receive descriptors are the engine's, the others the driver's.
Init ==
  /\ driver \in Drivers
  /\ rxdesc = [i \in Slots |-> [own |-> "engine", f |-> Nothing]] /\ rxno = 0
  /\ txdesc = [i \in Slots |-> [own |-> "driver", frame |-> 0]] /\ txno = 0
  /\ engine = [rx |-> 0, rx_on |-> TRUE, tx |-> 0, tx_on |-> FALSE]
  /\ irq = [pc |-> "idle", i |-> 0, rx |-> FALSE, tx |-> FALSE, rsr |-> FALSE,
            saw |-> [rx |-> FALSE, tx |-> FALSE]]
  /\ task = [pc |-> "idle"]
  /\ queue = <<>>
  /\ seen = [came |-> 0, whole |-> {}, dropped |-> {}, taken |-> <<>>,
             sent |-> <<>>, out |-> <<>>]

-----------------------------------------------------------------------------
(* The engine *)

\* A frame comes in: it goes to the next descriptor, and an interrupt is
\* raised; or there is none, and all but the engine of the same54 stop.
Arrive ==
  /\ seen.came < MaxIn
  /\ UNCHANGED <<driver, rxno, txdesc, txno, task, queue>>
  /\ \E whole \in BOOLEAN :
       LET f == [frame |-> seen.came + 1, whole |-> whole]
       IN IF rxdesc[engine.rx].own = "engine" /\ engine.rx_on
          THEN /\ rxdesc' = [rxdesc EXCEPT ![engine.rx] = [own |-> "driver", f |-> f]]
               /\ engine' = [engine EXCEPT !.rx = After(@)]
               /\ irq' = [irq EXCEPT !.rx = TRUE, !.rsr = TRUE]
               /\ seen' = [seen EXCEPT !.came = @ + 1,
                             !.whole = IF whole \/ driver = "same54"
                                       THEN @ \union {f.frame} ELSE @]
          ELSE /\ engine' = [engine EXCEPT !.rx_on = driver = "same54"]
               /\ seen' = [seen EXCEPT !.came = @ + 1]
               /\ UNCHANGED <<rxdesc, irq>>

\* The next frame is sent and its descriptor given back, or there is none.
Depart ==
  /\ engine.tx_on
  /\ LET d == txdesc[engine.tx]
     IN IF d.own = "engine"
        THEN /\ txdesc' = [txdesc EXCEPT ![engine.tx].own = "driver"]
             /\ engine' = [engine EXCEPT !.tx = After(@)]
             /\ seen' = [seen EXCEPT !.out = Append(@, d.frame)]
             /\ irq' = [irq EXCEPT !.tx = driver = "same54"]
        ELSE engine' = [engine EXCEPT !.tx_on = FALSE] /\ UNCHANGED <<txdesc, seen, irq>>
  /\ UNCHANGED <<driver, rxdesc, rxno, txno, task, queue>>

-----------------------------------------------------------------------------
(* The interrupt handlers *)

\* The flag is cleared before the ring is looked at.
Ack ==
  /\ irq.pc = "idle" /\ irq.rx
  /\ irq' = [irq EXCEPT !.pc = "look", !.i = 0, !.rx = FALSE]
  /\ UNCHANGED <<rxdesc, rxno, txdesc, engine, queue, seen>>

\* mg_tcpip_qwrite: a frame for which there is no room is dropped.
mg_tcpip_qwrite(f) ==
  IF Len(queue) < Room THEN queue' = Append(queue, f) /\ UNCHANGED seen
  ELSE seen' = [seen EXCEPT !.dropped = @ \union {f}] /\ UNCHANGED queue

\* The end of the ring is a descriptor that is the engine's.
Look(n, damagedToo) ==
  /\ irq.pc = "look"
  /\ LET d == rxdesc[rxno]
     IN IF irq.i = n \/ d.own = "engine"
        THEN irq' = [irq EXCEPT !.pc = "leave"] /\ UNCHANGED <<queue, seen>>
        ELSE /\ irq' = [irq EXCEPT !.pc = "give"]
             /\ IF d.f.whole \/ damagedToo THEN mg_tcpip_qwrite(d.f.frame)
                ELSE UNCHANGED <<queue, seen>>
  /\ UNCHANGED <<rxdesc, rxno, txdesc, engine>>

Give ==
  /\ irq.pc = "give"
  /\ rxdesc' = [rxdesc EXCEPT ![rxno].own = "engine"]
  /\ rxno' = After(rxno)
  /\ irq' = [irq EXCEPT !.pc = "look", !.i = @ + 1]
  /\ UNCHANGED <<txdesc, engine, queue, seen>>

\* A faulty form: the flag is cleared at the end.
ResumeAndAck ==
  /\ irq.pc = "leave"
  /\ engine' = [engine EXCEPT !.rx_on = TRUE]
  /\ irq' = [irq EXCEPT !.pc = "idle", !.i = 0, !.rx = FALSE]
  /\ UNCHANGED <<rxdesc, rxno, txdesc, queue, seen>>

Resume ==
  /\ irq.pc = "leave"
  /\ engine' = [engine EXCEPT !.rx_on = TRUE]
  /\ irq' = [irq EXCEPT !.pc = "idle", !.i = 0]
  /\ UNCHANGED <<rxdesc, rxno, txdesc, queue, seen>>

Handler == Ack \/ Look(Batch, FALSE) \/ Give \/ Resume

ENET_IRQHandler == driver = "imxrt1020" /\ Handler

ETH_IRQHandler == driver = "stm32" /\ Handler

ETH_IRQHandler_h == driver = "stm32h" /\ Handler

EMAC0_IRQHandler == driver = "tm4c" /\ Handler

\* That of the same54 reads and so clears the interrupt's cause first, but
\* writes back what the receiver and the transmitter said only at its end;
\* it also takes back the descriptor which the task uses next.
GMAC_Enter ==
  /\ irq.pc = "idle" /\ (irq.rx \/ irq.tx)
  /\ irq' = [irq EXCEPT !.pc = IF irq.rx /\ irq.rsr THEN "look" ELSE "leave",
               !.i = 0, !.rx = FALSE,
               !.saw = [rx |-> irq.rsr, tx |-> irq.tx \/ engine.tx_on]]
  /\ UNCHANGED <<rxdesc, rxno, txdesc, engine, queue, seen>>

GMAC_Leave ==
  /\ irq.pc = "leave"
  /\ txdesc' = IF irq.saw.tx THEN [txdesc EXCEPT ![txno].own = "driver"] ELSE txdesc
  /\ irq' = [irq EXCEPT !.pc = "idle", !.i = 0, !.rsr = @ /\ ~irq.saw.rx,
               !.tx = @ /\ ~irq.saw.tx, !.saw = [rx |-> FALSE, tx |-> FALSE]]
  /\ UNCHANGED <<rxdesc, rxno, engine, queue, seen>>

GMAC_Handler ==
  /\ driver = "same54"
  /\ GMAC_Enter \/ Look(Count, TRUE) \/ Give \/ GMAC_Leave

Interrupt ==
  /\ UNCHANGED <<driver, txno, task>>
  /\ \/ ENET_IRQHandler \/ ETH_IRQHandler \/ ETH_IRQHandler_h
     \/ EMAC0_IRQHandler \/ GMAC_Handler

-----------------------------------------------------------------------------
(* The task: it does not go on while the handler runs *)

\* A frame that is too big, or for which there is no descriptor, is refused.
Refuse(pokes) ==
  /\ task.pc = "idle"
  /\ engine' = [engine EXCEPT !.tx_on = @ \/ pokes]
  /\ UNCHANGED <<txdesc, txno, task, seen>>

Copy ==
  /\ task.pc = "idle" /\ Len(seen.sent) < MaxOut /\ txdesc[txno].own = "driver"
  /\ txdesc' = [txdesc EXCEPT ![txno].frame = Len(seen.sent) + 1]
  /\ task' = [pc |-> "own"]
  /\ UNCHANGED <<engine, txno, seen>>

Own ==
  /\ task.pc = "own"
  /\ txdesc' = [txdesc EXCEPT ![txno].own = "engine"]
  /\ seen' = [seen EXCEPT !.sent = Append(@, txdesc[txno].frame)]
  /\ task' = [pc |-> "next"]
  /\ UNCHANGED <<engine, txno>>

\* s_txno moves on, and the engine is told.
Poke ==
  /\ task.pc = "next"
  /\ txno' = After(txno)
  /\ engine' = [engine EXCEPT !.tx_on = TRUE]
  /\ task' = [pc |-> "idle"]
  /\ UNCHANGED <<txdesc, seen>>

Transmit == Copy \/ Own \/ Poke

imxrt1020_tx == driver = "imxrt1020" /\ (Refuse(FALSE) \/ Transmit)

same54_tx == driver = "same54" /\ (Refuse(TRUE) \/ Transmit)

stm32_tx == driver = "stm32" /\ (Refuse(TRUE) \/ Transmit)

stm32h_tx == driver = "stm32h" /\ (Refuse(TRUE) \/ Transmit)

tm4c_tx == driver = "tm4c" /\ (Refuse(TRUE) \/ Transmit)

Send ==
  /\ irq.pc = "idle"
  /\ imxrt1020_tx \/ same54_tx \/ stm32_tx \/ stm32h_tx \/ tm4c_tx
  /\ UNCHANGED <<driver, rxdesc, rxno, irq, queue>>

\* mg_tcpip_poll takes one frame out of the queue.
Take ==
  /\ irq.pc = "idle" /\ task.pc = "idle" /\ queue # <<>>
  /\ seen' = [seen EXCEPT !.taken = Append(@, Head(queue))]
  /\ queue' = Tail(queue)
  /\ UNCHANGED <<driver, rxdesc, rxno, txdesc, txno, engine, irq, task>>

Next == Arrive \/ Depart \/ Interrupt \/ Send \/ Take

Spec == Init /\ [][Next]_vars

-----------------------------------------------------------------------------
(* Properties *)

\* How far descriptor i lies behind descriptor a in a ring.
Behind(a, i) == IF i >= a THEN i - a ELSE i - a + Count

\* The descriptors with a frame that the handler has not yet copied.
Waiting == {i \in Slots : /\ rxdesc[i].own = "driver"
                          /\ rxdesc[i].f.whole \/ driver = "same54"
                          /\ ~(irq.pc = "give" /\ i = rxno)}

\* Every frame that the engine stored whole gets to the stack once, unless the
\* queue had no room for it, and in the order in which the frames came.
FramesComeThrough ==
  LET got == seen.taken \o queue
      frame(i) == rxdesc[i].f.frame
  IN  /\ {got[k] : k \in DOMAIN got} \cup {frame(i) : i \in Waiting} = seen.whole \ seen.dropped
      /\ \A k \in DOMAIN got : \A m \in DOMAIN got : k < m => got[k] < got[m]
      /\ \A k \in DOMAIN got : \A i \in Waiting : got[k] < frame(i)
      /\ \A i, j \in Waiting : Behind(rxno, i) < Behind(rxno, j) => frame(i) < frame(j)

\* Every frame that a driver accepted goes out once and in its turn: those that
\* have not gone yet are the engine's, from the next one on.  The same54's may
\* not: its handler takes back a descriptor that the engine still has to send.
FramesGoOut ==
  LET gone == Len(seen.out)
      left == Len(seen.sent) - gone
  IN  /\ left >= 0
      /\ \A k \in 1 .. gone : seen.out[k] = seen.sent[k]
      /\ \A i \in Slots : txdesc[i].own = "engine" <=> Behind(engine.tx, i) < left
      /\ \A i \in Slots :
           txdesc[i].own = "engine" =>
             txdesc[i].frame = seen.sent[gone + Behind(engine.tx, i) + 1]

FramesAreKept == FramesComeThrough /\ (driver # "same54" => FramesGoOut)

\* No frame is left lying for want of an interrupt or of a word to the engine:
\* not in the receive ring once the handler has come to its end with no new
\* interrupt, nor in the transmit ring when the task is done.  The same54's
\* may be: its handler wipes out what has come in while it ran.
NobodyIsForgotten ==
  driver # "same54" =>
    /\ irq.pc = "idle" /\ ~irq.rx =>
         engine.rx_on /\ \A i \in Slots : rxdesc[i].own = "engine"
    /\ task.pc = "idle" => engine.tx_on \/ \A i \in Slots : txdesc[i].own = "driver"

=============================================================================
