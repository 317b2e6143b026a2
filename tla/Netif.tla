-------------------------------- MODULE Netif --------------------------------
(* Both halves of lwip/port/src/netif.c in the one main loop: handling a     *)
(* received frame may send frames (replies, ARP, what waited for an          *)
(* address), and so may the loop between two polls (ARP and IGMP timers,     *)
(* offers; none of these has to wait for an address).  As sending waits for  *)
(* the DMA, reception stands still as long.  The two DMA channels run on     *)
(* their own.                                                                *)
EXTENDS NetifRx, NetifTx

both == <<vars, txVars>>

-----------------------------------------------------------------------------

BothInit == Init /\ TxInit

\* The poll of a frame up to the hand-over to lwIP, and what that then sends.
Receive ==
    /\ txPc = "idle"
    /\ \/ (Look \/ Copy) /\ UNCHANGED txVars
       \/ FreeReceiveBuffer /\ \E n \in 0 .. BURST : StartSending(n)
       \/ Input /\ UNCHANGED txVars

\* The loop sends between two polls.
SendOfItsOwn ==
    /\ pc = "look"
    /\ \E n \in 1 .. BURST : StartSending(n)
    /\ UNCHANGED vars

\* The loop calls the ARP timer, which asks again for what it still waits for.
Second == etharp_tmr /\ \E n \in 0 .. BURST : StartSending(n)

\* low_level_output goes on.
Send == low_level_output /\ UNCHANGED vars

Hardware ==
    \/ (\E kind \in Kinds, len \in LENGTHS : Store(kind, len)) /\ UNCHANGED txVars
    \/ (Suspend \/ Lose) /\ UNCHANGED txVars
    \/ (Transmit \/ TxSuspend) /\ UNCHANGED vars

BothNext == Receive \/ SendOfItsOwn \/ Second \/ Send \/ Hardware

BothSpec == BothInit /\ [][BothNext]_both

\* The main loop comes round to its poll again and again, whatever it sends in
\* between, and the DMA sends what it was given.  Nothing is asked of the network,
\* and nothing of the link.
FairBothSpec ==
    /\ BothSpec
    /\ SF_both(Receive)
    /\ WF_both(Send)
    /\ WF_both(Transmit /\ UNCHANGED vars)

-----------------------------------------------------------------------------

\* While a frame is blocked the ARP timer is called again and again, as it is
\* while the link is up.
LinkComesBack == WF_vars(etharp_tmr /\ Blocked)

\* A stored frame is taken out however many arrive, and even if it has to wait
\* for pbufs that ARP holds.
EveryFrameTaken == LinkComesBack => \A i \in Slots : i \in owned ~> i \notin owned

\* Nor does the DMA stay suspended: there is always a time when it runs and owns
\* the descriptor it is at, though the driver wakes it before the descriptor
\* is given back, and not while a frame is blocked.
ReceiverResumes == LinkComesBack => []<>(dma = "running" /\ dmaAt \notin owned)

=============================================================================
