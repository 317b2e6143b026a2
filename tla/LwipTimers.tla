----------------------------- MODULE LwipTimers -----------------------------
(* The timers of the lwIP port (lwip/port/src/Ifx_Lwip.c).  A 1 ms interrupt *)
(* counts four periods and sets a flag at the end of each; the main loop     *)
(* takes the flags with interrupts disabled, clears them and runs the service *)
(* of each.  The services of TCP and ARP run only with the link up; that of  *)
(* the link asks the PHY, which is also what sets the link up or down.       *)
(*                                                                           *)
(* The interrupt has the highest priority and runs to completion, so it is   *)
(* one step; the poll is one step per access to what the two share.          *)
EXTENDS Naturals

Timers == {"tcp_fast", "tcp_slow", "arp", "link"}

CONSTANTS
    PERIOD,     \* the period of each timer, in ticks of the interrupt
    MODES       \* what the PHY can have negotiated: speed and duplex

ASSUME TimersAssumption ==
    /\ PERIOD \in [Timers -> Nat \ {0}]
    /\ MODES # {}

VARIABLES
    timer,          \* lwip->timer
    timerFlags,     \* lwip->timerFlags, as a set
    enabled,        \* CPU interrupts enabled
    pc,             \* what the poll does next
    taken,          \* the poll's local timerFlags, less the services done
    mode,           \* the mode IfxGeth_Eth_Phy_Dp83825i_link_status has read
    linkUp,         \* NETIF_FLAG_LINK_UP
    macMode,        \* line speed and duplex of the MAC
    phy,            \* the PHY: link status and negotiated mode
    fresh,          \* history: periods that ended since the poll last looked
    due             \* history: those that ended before, not yet attended to

isrVars == <<timer, timerFlags, fresh, due>>
linkVars == <<mode, linkUp, macMode>>
vars == <<isrVars, enabled, pc, taken, linkVars, phy>>

Phy == [up : BOOLEAN, mode : MODES]

TypeOK ==
    /\ timer \in [Timers -> Nat]
    /\ \A t \in Timers : timer[t] < PERIOD[t]
    /\ timerFlags \subseteq Timers
    /\ enabled \in BOOLEAN
    /\ pc \in {"disable", "read", "clear", "restore", "status"} \cup Timers
    /\ taken \subseteq Timers
    /\ mode \in MODES
    /\ linkUp \in BOOLEAN
    /\ macMode \in MODES
    /\ phy \in Phy
    /\ fresh \subseteq Timers
    /\ due \subseteq Timers

-----------------------------------------------------------------------------

\* netif_add and netif_set_up done, the PHY restarted, nothing ended yet.
Init ==
    /\ timer = [t \in Timers |-> 0]
    /\ timerFlags = {}
    /\ enabled = TRUE
    /\ pc = "disable"
    /\ taken = {}
    /\ mode \in MODES
    /\ linkUp \in BOOLEAN
    /\ macMode \in MODES
    /\ phy \in Phy
    /\ fresh = {}
    /\ due = {}

\* Ifx_Lwip_timerIncr: the timers whose period this tick ends.
Ended == {t \in Timers : timer[t] + 1 >= PERIOD[t]}

\* updateLwIPStackISR: Ifx_Lwip_onTimerTick.
onTimerTick ==
    /\ enabled
    /\ timer' = [t \in Timers |-> IF t \in Ended THEN 0 ELSE timer[t] + 1]
    /\ timerFlags' = timerFlags \cup Ended
    /\ fresh' = fresh \cup Ended
    /\ UNCHANGED <<due, enabled, pc, taken, linkVars, phy>>

\* A plausible slip: the flags are taken with interrupts enabled.
DisableInterrupts_Not ==
    /\ pc = "disable"
    /\ pc' = "read"
    /\ UNCHANGED <<isrVars, enabled, taken, linkVars, phy>>

\* Ifx_Lwip_pollTimerFlags, lines 273 to 279: take the flags and clear them.
DisableInterrupts ==
    /\ pc = "disable"
    /\ enabled' = FALSE
    /\ pc' = "read"
    /\ UNCHANGED <<isrVars, taken, linkVars, phy>>

ReadFlags ==
    /\ pc = "read"
    /\ taken' = timerFlags
    /\ due' = due \cup fresh
    /\ fresh' = {}
    /\ pc' = "clear"
    /\ UNCHANGED <<timer, timerFlags, enabled, linkVars, phy>>

ClearFlags ==
    /\ pc = "clear"
    /\ timerFlags' = {}
    /\ pc' = "restore"
    /\ UNCHANGED <<timer, fresh, due, enabled, taken, linkVars, phy>>

RestoreInterrupts ==
    /\ pc = "restore"
    /\ enabled' = TRUE
    /\ pc' = "tcp_fast"
    /\ UNCHANGED <<isrVars, taken, linkVars, phy>>

\* The order of the tests, lines 297 to 344.
After(t) ==
    CASE t = "tcp_fast" -> "tcp_slow"
      [] t = "tcp_slow" -> "arp"
      [] t = "arp" -> "link"
      [] t = "link" -> "disable"

\* tcp_fasttmr, tcp_slowtmr and etharp_tmr: run with the link up, passed over
\* without.  Either way the period is attended to.
Serve(t) ==
    /\ pc = t
    /\ t # "link"
    /\ taken' = taken \ {t}
    /\ due' = IF t \in taken THEN due \ {t} ELSE due
    /\ pc' = After(t)
    /\ UNCHANGED <<timer, timerFlags, fresh, enabled, linkVars, phy>>

\* IfxGeth_Eth_Phy_Dp83825i_link_status reads the mode first ...
ReadPhyMode ==
    /\ pc = "link"
    /\ "link" \in taken
    /\ mode' = phy.mode
    /\ pc' = "status"
    /\ UNCHANGED <<isrVars, enabled, taken, linkUp, macMode, phy>>

\* A plausible slip: the mode is set only when the link comes up.
ApplyLinkStatus_Once ==
    /\ pc = "status"
    /\ linkUp' = phy.up
    /\ macMode' = IF phy.up /\ ~linkUp THEN mode ELSE macMode
    /\ taken' = taken \ {"link"}
    /\ due' = due \ {"link"}
    /\ pc' = After("link")
    /\ UNCHANGED <<timer, timerFlags, fresh, enabled, mode, phy>>

\* A plausible slip: it waits until the link is up.
ApplyLinkStatus_Waits ==
    /\ pc = "status"
    /\ phy.up
    /\ linkUp' = TRUE
    /\ macMode' = mode
    /\ taken' = taken \ {"link"}
    /\ due' = due \ {"link"}
    /\ pc' = After("link")
    /\ UNCHANGED <<timer, timerFlags, fresh, enabled, mode, phy>>

\* ... then the link, by which the netif goes down, or the MAC gets the mode
\* and the netif goes up.
ApplyLinkStatus ==
    /\ pc = "status"
    /\ linkUp' = phy.up
    /\ macMode' = IF phy.up THEN mode ELSE macMode
    /\ taken' = taken \ {"link"}
    /\ due' = due \ {"link"}
    /\ pc' = After("link")
    /\ UNCHANGED <<timer, timerFlags, fresh, enabled, mode, phy>>

NoLinkFlag ==
    /\ pc = "link"
    /\ "link" \notin taken
    /\ pc' = After("link")
    /\ UNCHANGED <<isrVars, enabled, taken, linkVars, phy>>

\* The cable, or the other end of it.
PhyChanges ==
    /\ phy' \in Phy \ {phy}
    /\ UNCHANGED <<isrVars, enabled, pc, taken, linkVars>>

Poll ==
    \/ DisableInterrupts
    \/ ReadFlags
    \/ ClearFlags
    \/ RestoreInterrupts
    \/ \E t \in Timers : Serve(t)
    \/ ReadPhyMode
    \/ ApplyLinkStatus
    \/ NoLinkFlag

Next == onTimerTick \/ Poll \/ PhyChanges

Spec == Init /\ [][Next]_vars

\* The loop goes on, and the interrupt, pending while interrupts are disabled
\* for three accesses, is taken in the end.
FairSpec == Spec /\ WF_vars(Poll) /\ SF_vars(onTimerTick)

-----------------------------------------------------------------------------
(* Properties.                                                               *)

\* No period that ended is forgotten and none is attended to without having
\* ended: those that ended since the poll last looked are the flags still set
\* (but for the moment between reading and clearing them), the earlier ones
\* those the poll has taken and not come to, wherever the interrupt falls
\* among the steps of the poll.
NoPeriodLost ==
    /\ fresh = IF pc = "clear" THEN {} ELSE timerFlags
    /\ due = taken

\* Every period that ended is attended to.
PeriodsAttended ==
    \A t \in Timers : (t \in fresh ~> t \in due) /\ (t \in due ~> t \notin due)

\* Once the PHY settles, the netif and the MAC settle on what it says, from
\* whatever the last status, read in two halves, had left.
LinkFollowsPhy ==
    /\ <>[](~phy.up) => <>[](~linkUp)
    /\ \A m \in MODES :
           <>[](phy = [up |-> TRUE, mode |-> m]) => <>[](linkUp /\ macMode = m)

=============================================================================
