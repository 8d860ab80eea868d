--------------------------------- MODULE Uart ---------------------------------
(***************************************************************************)
(* Output to the UART, kernel/uart.c: writers in uartwrite send a byte     *)
(* each time the UART is not busy and sleep otherwise; uartputc_sync polls *)
(* the same device without a lock, for the echo of consoleintr and for     *)
(* printf; uartintr wakes the writers.  The PLIC hands the interrupt to    *)
(* one hart at a time (plic_claim, plic_complete), so there is one handler *)
(* at a time.  tx_lock is held for a whole section in one step.            *)
(***************************************************************************)
EXTENDS Integers, FiniteSets

CONSTANTS
  Writer,
  Sender,   \* callers of uartputc_sync that nothing serialises
  handler,  \* the sender that is the interrupt handler
  FIFO,     \* bytes the device can hold
  MaxN      \* bound on the count of a write

VARIABLES
  thr,      \* bytes in the device
  irq,      \* the interrupt is pending
  tx_busy,
  wait,     \* writers asleep on tx_chan
  left,     \* bytes that each writer has still to send
  echo      \* where each sender is

uartVars == <<thr, irq, tx_busy, wait, left, echo>>

Init ==
  /\ thr = 0 /\ irq = FALSE /\ tx_busy = FALSE
  /\ wait = {}
  /\ left = [p \in Writer |-> 0]
  /\ echo = [s \in Sender |-> "idle"]

\* LSR_TX_IDLE
TxIdle == thr = 0

\* consolewrite calls uartwrite with a batch of bytes.
Write(p, n) ==
  /\ left[p] = 0
  /\ left' = [left EXCEPT ![p] = n]
  /\ UNCHANGED <<thr, irq, tx_busy, wait, echo>>

\* The loop of uartwrite sends while this holds.
MaySend == ~tx_busy

\* A turn of the loop of uartwrite: sleep on tx_chan, or send.
Uartwrite(p) ==
  /\ left[p] > 0 /\ p \notin wait
  /\ IF MaySend
     THEN /\ thr' = thr + 1
          /\ irq' = FALSE     \* the device takes it back when THR is written
          /\ left' = [left EXCEPT ![p] = @ - 1]
          /\ tx_busy' = TRUE
          /\ UNCHANGED wait
     ELSE wait' = wait \cup {p} /\ UNCHANGED <<thr, irq, left, tx_busy>>
  /\ UNCHANGED echo

\* uartputc_sync waits for the device to be empty,
PutcPolls(s) ==
  /\ echo[s] = IF s = handler THEN "char" ELSE "idle"
  /\ TxIdle
  /\ echo' = [echo EXCEPT ![s] = "polled"]
  /\ UNCHANGED <<thr, irq, tx_busy, wait, left>>

\* and writes THR; the handler then goes on with the next character.
PutcSends(s) ==
  /\ echo[s] = "polled"
  /\ thr' = thr + 1
  /\ irq' = FALSE
  /\ echo' = [echo EXCEPT ![s] = IF s = handler THEN "getc" ELSE "idle"]
  /\ UNCHANGED <<tx_busy, wait, left>>

\* tx_busy after uartintr has looked at the device.
Finished == IF TxIdle THEN FALSE ELSE tx_busy

\* uartintr: acknowledge, and wake the writers when the device has sent.
Uartintr ==
  /\ irq /\ echo[handler] = "idle"
  /\ irq' = FALSE
  /\ tx_busy' = Finished
  /\ wait' = IF TxIdle THEN {} ELSE wait
  /\ echo' = [echo EXCEPT ![handler] = "getc"]
  /\ UNCHANGED <<thr, left>>

\* uartgetc: a character to handle and to echo, or the end of the handler.
Uartgetc ==
  /\ echo[handler] = "getc"
  /\ \E c \in {"char", "idle"} : echo' = [echo EXCEPT ![handler] = c]
  /\ UNCHANGED <<thr, irq, tx_busy, wait, left>>

\* The device sends a byte, or receives one: an interrupt when it has sent all.
Transmit ==
  /\ thr > 0
  /\ thr' = thr - 1
  /\ irq' = (irq \/ thr = 1)
  /\ UNCHANGED <<tx_busy, wait, left, echo>>

Receive == irq' = TRUE /\ UNCHANGED <<thr, tx_busy, wait, left, echo>>

Next ==
  \/ \E p \in Writer : Uartwrite(p) \/ \E n \in 1..MaxN : Write(p, n)
  \/ \E s \in Sender : PutcPolls(s) \/ PutcSends(s)
  \/ Uartintr \/ Uartgetc \/ Transmit \/ Receive

Spec == Init /\ [][Next]_uartVars

-----------------------------------------------------------------------------

\* No byte is lost: however the unsynchronised senders and a writer meet between
\* looking at the device and writing to it, it has room.
FifoNeverOverflows == thr <= FIFO

\* A writer that sleeps will be woken: the device is still sending, or its
\* interrupt is pending, or the echo of the handler will end in one.
WriterNotForgotten == wait # {} => tx_busy /\ (thr > 0 \/ irq)

\* The driver loses no byte and forgets no writer.
UartSound == FifoNeverOverflows /\ WriterNotForgotten
=============================================================================
