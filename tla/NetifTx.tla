------------------------------- MODULE NetifTx -------------------------------
(* The sending half of lwip/port/src/netif.c: low_level_output waits for the  *)
(* next descriptor of the ring to be free, copies a frame into its buffer,    *)
(* gives it to the DMA of the Ethernet MAC and wakes it.  The wait is a loop  *)
(* without a limit in the main loop.                                         *)
(*                                                                           *)
(* Every frame fits one buffer, so it takes one descriptor.  A frame is its   *)
(* number modulo 2 * TX_DESCRIPTORS.  The DMA does not look at a descriptor   *)
(* before the tail pointer has moved past it, so giving a descriptor away is  *)
(* one step; it sends the descriptors it owns in their order, and stops at    *)
(* one it does not own.                                                      *)
EXTENDS Naturals

CONSTANTS
    TX_DESCRIPTORS, \* IFXGETH_MAX_TX_DESCRIPTORS
    BURST           \* the most frames sent on one occasion

ASSUME NetifTxAssumption ==
    /\ TX_DESCRIPTORS \in Nat \ {0}
    /\ BURST \in Nat \ {0}

VARIABLES
    txOwned,        \* the descriptors the DMA owns (OWN = 1)
    txBuffer,       \* channel0TxBuffer1: the number of the frame in each
    txDmaAt,        \* the descriptor the DMA sends next
    txDma,          \* "running" or "suspended"
    txDescr,        \* txDescrPtr
    txPc,           \* low_level_output: "idle", "wait" or "release"
    toSend,         \* frames still to send on this occasion
    written,        \* history: number of the frame low_level_output is called for
    due             \* history: number of the next frame on the wire

txVars == <<txOwned, txBuffer, txDmaAt, txDma, txDescr, txPc, toSend, written, due>>

TxSlots == 0 .. TX_DESCRIPTORS - 1
TxNumbers == 0 .. 2 * TX_DESCRIPTORS - 1

TxTypeOK ==
    /\ txOwned \subseteq TxSlots
    /\ txBuffer \in [TxSlots -> TxNumbers]
    /\ txDmaAt \in TxSlots
    /\ txDma \in {"running", "suspended"}
    /\ txDescr \in TxSlots
    /\ txPc \in {"idle", "wait", "release"}
    /\ toSend \in 0 .. BURST
    /\ written \in TxNumbers
    /\ due \in TxNumbers

-----------------------------------------------------------------------------

TxInit ==
    /\ txOwned = {}
    /\ txBuffer = [i \in TxSlots |-> 0]
    /\ txDmaAt = 0
    /\ txDma = "running"
    /\ txDescr = 0
    /\ txPc = "idle"
    /\ toSend = 0
    /\ written = 0
    /\ due = 0

TxAfter(slot) == IF slot = TX_DESCRIPTORS - 1 THEN 0 ELSE slot + 1
TxFollowing(number) == IF number = 2 * TX_DESCRIPTORS - 1 THEN 0 ELSE number + 1

\* n frames are to be sent one after the other (none, if n is 0).
StartSending(n) ==
    /\ txPc = "idle"
    /\ toSend' = n
    /\ txPc' = IF n = 0 THEN "idle" ELSE "wait"
    /\ UNCHANGED <<txOwned, txBuffer, txDmaAt, txDma, txDescr, written, due>>

\* A plausible slip: the driver does not wait.
WaitTransmitBuffer_Hasty ==
    /\ txPc = "wait"
    /\ txBuffer' = [txBuffer EXCEPT ![txDescr] = written]
    /\ txPc' = "release"
    /\ UNCHANGED <<txOwned, txDmaAt, txDma, txDescr, toSend, written, due>>

\* IfxGeth_Eth_waitTransmitBuffer, until getTransmitBuffer finds the descriptor
\* free, and the copy into its buffer.
WaitTransmitBuffer ==
    /\ txPc = "wait"
    /\ txDescr \notin txOwned
    /\ txBuffer' = [txBuffer EXCEPT ![txDescr] = written]
    /\ txPc' = "release"
    /\ UNCHANGED <<txOwned, txDmaAt, txDma, txDescr, toSend, written, due>>

\* A plausible slip: the transmitter is not woken.
SendTransmitBuffer_NoWake ==
    /\ txPc = "release"
    /\ txOwned' = txOwned \cup {txDescr}
    /\ txDescr' = TxAfter(txDescr)
    /\ written' = TxFollowing(written)
    /\ toSend' = toSend - 1
    /\ txPc' = IF toSend = 1 THEN "idle" ELSE "wait"
    /\ UNCHANGED <<txBuffer, txDmaAt, txDma, due>>

\* IfxGeth_Eth_sendTransmitBuffer: release, tail pointer, wake-up, next descriptor.
SendTransmitBuffer ==
    /\ txPc = "release"
    /\ txOwned' = txOwned \cup {txDescr}
    /\ txDma' = "running"
    /\ txDescr' = TxAfter(txDescr)
    /\ written' = TxFollowing(written)
    /\ toSend' = toSend - 1
    /\ txPc' = IF toSend = 1 THEN "idle" ELSE "wait"
    /\ UNCHANGED <<txBuffer, txDmaAt, due>>

\* low_level_output
low_level_output == WaitTransmitBuffer \/ SendTransmitBuffer

\* The DMA has sent the frame of a descriptor, and gives it back.
Transmit ==
    /\ txDma = "running"
    /\ txDmaAt \in txOwned
    /\ txOwned' = txOwned \ {txDmaAt}
    /\ txDmaAt' = TxAfter(txDmaAt)
    /\ due' = TxFollowing(due)
    /\ UNCHANGED <<txBuffer, txDma, txDescr, txPc, toSend, written>>

\* The DMA fetches the next descriptor and does not own it.
TxSuspend ==
    /\ txDma = "running"
    /\ txDmaAt \notin txOwned
    /\ txDma' = "suspended"
    /\ UNCHANGED <<txOwned, txBuffer, txDmaAt, txDescr, txPc, toSend, written, due>>

-----------------------------------------------------------------------------

\* What goes out is each frame once, in the order of the calls, as it was
\* copied: the driver has not written over a buffer the DMA still owned.
SentInOrder == txDmaAt \in txOwned => txBuffer[txDmaAt] = due

\* Every frame given to the DMA is sent, also if the DMA had stopped before.
EveryFrameSent == \A i \in TxSlots : i \in txOwned ~> i \notin txOwned

=============================================================================
