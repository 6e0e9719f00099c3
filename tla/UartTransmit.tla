---------------------------- MODULE UartTransmit ----------------------------
(***************************************************************************)
(* Writing characters: the interrupt driven UART driver (driver/uart.rs)   *)
(* on one side of the transmit buffer, send_data and the rest of the UART  *)
(* interrupt (trap/interrupts/service/uart_service.rs) on the other.       *)
(*                                                                         *)
(* The writer holds the lock of UART during write_str, so there is one     *)
(* writer; it runs with interrupts on, and the handler may come between    *)
(* any two accesses of a register, a lock or the buffer.  The handler runs *)
(* to its end: the writer moves only when there is none.                   *)
(*                                                                         *)
(* Characters are numbered in the order in which they are written.         *)
(***************************************************************************)
EXTENDS RingBuffer

CONSTANTS
    UART_FIFO_CAPACITY,
    MaxChars,       \* bound: characters written; Items is 1 .. MaxChars
    MaxReceived     \* bound: characters received

ASSUME TransmitAssumption ==
    /\ UART_FIFO_CAPACITY \in Nat \ {0}
    /\ MaxChars \in Nat /\ MaxReceived \in Nat
    /\ Items = 1 .. MaxChars

VARIABLES
    writer,         \* where the writer is in write_str
    current_ier,    \* its local variables: the register as it was read,
    res,            \* and the result of push
    written,        \* characters the transmit buffer has taken
    locked,         \* the lock of transmit_buffer
    ier,            \* interrupt enable register of the UART: "RX", "TX"
    fifo,           \* transmit FIFO of the UART, behind THR
    thr_ipending,   \* the UART has a transmitter-empty interrupt
    wire,           \* what it has sent
    rx, received,   \* characters in its receive FIFO, and received so far
    plic,           \* the controller's state for the UART
    handler,        \* where plic_handler is
    sent            \* turns of the loop of send_data

driver == <<writer, current_ier, res, written>>
device == <<fifo, thr_ipending, wire>>
receiver == <<rx, received>>
service == <<handler, sent>>
transmitVars == <<ringVars, driver, locked, ier, device, receiver, plic, service>>

TransmitInit ==
    /\ RingInit
    /\ writer = "init" /\ current_ier = {} /\ res = Ok /\ written = 0
    /\ locked = FALSE
    /\ ier = {}
    /\ fifo = << >> /\ thr_ipending = FALSE /\ wire = << >>
    /\ rx = 0 /\ received = 0
    /\ plic = "idle"
    /\ handler = "none" /\ sent = 0

----------------------------------------------------------------------------
(* The UART and the interrupt controller *)

cause ==
    IF rx > 0 /\ "RX" \in ier THEN "RX_AVAILABLE"
    ELSE IF thr_ipending /\ "TX" \in ier THEN "TX_EMPTY" ELSE "NONE"

(* The controller remembers a request until it is claimed, and looks again *)
(* after it is completed.                                                  *)
latch(state) == plic' = IF state = "idle" /\ cause' # "NONE" THEN "pending" ELSE state

(* Turning the transmit interrupt on with the FIFO empty requests one. *)
write_ier(value) ==
    /\ ier' = value
    /\ thr_ipending' = IF "TX" \in value
                       THEN thr_ipending \/ ("TX" \notin ier /\ fifo = << >>) ELSE FALSE
    /\ UNCHANGED <<fifo, wire>>

(* A character too many is lost. *)
write_thr(c) ==
    /\ fifo' = IF Len(fifo) < UART_FIFO_CAPACITY THEN Append(fifo, c) ELSE fifo
    /\ thr_ipending' = FALSE
    /\ UNCHANGED wire

transmit ==
    /\ fifo # << >>
    /\ wire' = Append(wire, Head(fifo))
    /\ fifo' = Tail(fifo)
    /\ thr_ipending' = (thr_ipending \/ Len(fifo) = 1)
    /\ UNCHANGED <<ringVars, driver, locked, ier, receiver, service>>
    /\ latch(plic)

receive ==
    /\ received < MaxReceived
    /\ rx' = rx + 1 /\ received' = received + 1
    /\ UNCHANGED <<ringVars, driver, locked, ier, device, service>>
    /\ latch(plic)

----------------------------------------------------------------------------
(* Uart *)

(* One step of the writer *)
goes(from, to) ==
    /\ handler = "none"
    /\ writer = from /\ writer' = to
    /\ UNCHANGED <<receiver, service>>

init ==
    /\ goes("init", "ready")
    /\ write_ier({"RX"})
    /\ UNCHANGED <<ringVars, current_ier, res, written, locked>>
    /\ latch(plic)

(* write_str: the next character, and the same again as long as putchar    *)
(* fails                                                                   *)
write_str ==
    /\ written < MaxChars
    /\ goes("ready", "disable") \/ goes("again", "disable")
    /\ current_ier' = ier
    /\ UNCHANGED <<ringVars, res, written, locked, ier, device>>
    /\ latch(plic)

(* disable_transmit_interrupt and enable_transmit_interrupt write the      *)
(* register which the step before has read.                                *)
disable_transmit_interrupt_bug_skipped ==
    /\ goes("disable", "lock")
    /\ UNCHANGED <<ringVars, current_ier, res, written, locked, ier, device>>
    /\ latch(plic)
disable_transmit_interrupt ==
    /\ goes("disable", "lock")
    /\ write_ier(current_ier \ {"TX"})
    /\ UNCHANGED <<ringVars, current_ier, res, written, locked>>
    /\ latch(plic)

putchar_lock ==
    /\ ~locked /\ locked' = TRUE
    /\ goes("lock", "push")
    /\ UNCHANGED <<ringVars, current_ier, res, written, ier, device>>
    /\ latch(plic)

putchar_push ==
    /\ goes("push", "unlock")
    /\ push(written + 1)
    /\ res' = out'
    /\ written' = IF res' = Ok THEN written + 1 ELSE written
    /\ UNCHANGED <<current_ier, locked, ier, device>>
    /\ latch(plic)

putchar_unlock ==
    /\ goes("unlock", "enable")
    /\ locked' = FALSE
    /\ current_ier' = ier
    /\ UNCHANGED <<ringVars, res, written, ier, device>>
    /\ latch(plic)

enable_transmit_interrupt ==
    /\ goes("enable", IF res = Ok THEN "ready" ELSE "again")
    /\ write_ier(current_ier \cup {"TX"})
    /\ UNCHANGED <<ringVars, current_ier, res, written, locked>>
    /\ latch(plic)

putchar == putchar_lock \/ putchar_push \/ putchar_unlock
           \/ disable_transmit_interrupt \/ enable_transmit_interrupt

----------------------------------------------------------------------------
(* plic_handler *)

claim ==
    /\ plic = "pending" /\ plic' = "claimed"
    /\ handler = "none" /\ handler' = "isr"
    /\ UNCHANGED <<ringVars, driver, locked, ier, device, receiver, sent>>

(* Reading ISR takes the transmitter's request away, if it is what the     *)
(* register shows; reading RHR a character.  (What becomes of it is in      *)
(* UartRead.)                                                              *)
uart_interrupt_handler ==
    /\ handler = "isr"
    /\ handler' = IF cause = "TX_EMPTY" THEN "lock" ELSE "complete"
    /\ thr_ipending' = (thr_ipending /\ cause # "TX_EMPTY")
    /\ rx' = IF cause = "RX_AVAILABLE" THEN rx - 1 ELSE rx
    /\ sent' = 0
    /\ UNCHANGED <<ringVars, driver, locked, ier, fifo, wire, received, plic>>

(* It spins for the lock: if the writer has it, for ever. *)
send_data_lock ==
    /\ handler = "lock" /\ handler' = "send"
    /\ ~locked /\ locked' = TRUE
    /\ UNCHANGED <<ringVars, driver, ier, device, receiver, plic, sent>>

turns_left_bug_one_more == sent <= UART_FIFO_CAPACITY
turns_left == sent < UART_FIFO_CAPACITY

send_data ==
    /\ handler = "send"
    /\ IF turns_left
       THEN /\ pop
            /\ IF out' = None
               THEN handler' = "check" /\ UNCHANGED <<device, sent>>
               ELSE write_thr(out') /\ sent' = sent + 1 /\ UNCHANGED handler
       ELSE handler' = "check" /\ UNCHANGED <<ringVars, device, sent>>
    /\ UNCHANGED <<driver, locked, ier, receiver, plic>>

send_data_end_bug_always_disables ==
    /\ handler = "check" /\ handler' = "complete"
    /\ write_ier(ier \ {"TX"})
    /\ locked' = FALSE
    /\ UNCHANGED <<ringVars, driver, receiver, plic, sent>>
(* An empty buffer turns the transmit interrupt off. *)
send_data_end ==
    /\ handler = "check" /\ handler' = "complete"
    /\ IF len = 0 THEN write_ier(ier \ {"TX"}) ELSE UNCHANGED <<ier, device>>
    /\ locked' = FALSE
    /\ UNCHANGED <<ringVars, driver, receiver, plic, sent>>

complete ==
    /\ handler = "complete" /\ handler' = "none"
    /\ UNCHANGED <<ringVars, driver, locked, ier, device, receiver, sent>>
    /\ latch("idle")

handling == uart_interrupt_handler \/ send_data_lock \/ send_data \/ send_data_end \/ complete

----------------------------------------------------------------------------
TransmitNext ==
    \/ init
    \/ write_str
    \/ putchar
    \/ claim
    \/ handling
    \/ transmit
    \/ receive

(* The hart runs on inside putchar and inside the handler, and the UART    *)
(* sends.  An interrupt that is pending is taken; and it is not always     *)
(* taken in the part of putchar where the transmit interrupt is off.       *)
TransmitFairness ==
    /\ WF_transmitVars(init \/ (writer = "again" /\ write_str) \/ putchar)
    /\ WF_transmitVars(claim)
    /\ SF_transmitVars(claim /\ cause = "TX_EMPTY")
    /\ WF_transmitVars(handling)
    /\ WF_transmitVars(transmit)

TransmitSpec == TransmitInit /\ [][TransmitNext]_transmitVars /\ TransmitFairness

----------------------------------------------------------------------------
(* Properties *)

(* Nothing is lost, repeated or overtaken between push and the wire: what  *)
(* has been sent, what is in the FIFO and what is in the buffer are the    *)
(* characters written so far, in their order, and the FIFO is never        *)
(* overrun.                                                                *)
OutputInOrder == wire \o fifo \o contents = [i \in 1 .. written |-> i]

(* No lost wakeup: outside putchar and the handler, characters in the      *)
(* buffer mean that the transmit interrupt is on and will come, because it *)
(* is pending or because the FIFO has yet to run empty.                    *)
TransmitterArmed ==
    len > 0 /\ writer \in {"ready", "again"} /\ handler = "none" =>
        /\ "TX" \in ier
        /\ plic = "pending" \/ fifo # << >>

(* write_str gets every character into the buffer, however often it is     *)
(* full, and every character of the buffer is sent; in particular the      *)
(* handler never waits for a lock of the code it has interrupted.          *)
AllSent ==
    /\ writer # "ready" ~> writer = "ready"
    /\ \A n \in Items : written >= n ~> Len(wire) >= n
=============================================================================
