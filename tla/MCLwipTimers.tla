---------------------------- MODULE MCLwipTimers ----------------------------
(* Instances of LwipTimers for TLC.                                          *)
EXTENDS LwipTimers

\* 250, 500, 1000 and 100 ms in the code: unequal, and one a multiple of another.
MCPeriod ==
    [t \in Timers |-> CASE t = "tcp_fast" -> 2
                        [] t = "tcp_slow" -> 4
                        [] t = "arp" -> 3
                        [] t = "link" -> 1]

=============================================================================
