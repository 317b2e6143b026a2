--------------------------------- MODULE Arp ---------------------------------
(* lwip/src/core/ipv4/etharp.c as the firmware configures it: which Ethernet  *)
(* address the board sends the replies of its services to.  A table keeps the *)
(* address of a few hosts; a packet for another one is held on an entry of    *)
(* its own until the host has answered, one packet per entry.                *)
(*                                                                           *)
(* A handler of the main loop runs to completion, so sending a packet,       *)
(* taking in an ARP packet and the timer are one step each.  The pbuf of a    *)
(* packet goes by reference: the sender frees its own at the end of the step. *)
(* Packets are those to one host: replies, and offers that answer a find.     *)
(* Broadcasts and multicasts, such as the periodic offers, do not come here.  *)
EXTENDS Naturals, FiniteSets

CONSTANTS
    ARP_TABLE_SIZE,
    ARP_MAXAGE,             \* seconds a known address lives
    ARP_MAXPENDING,         \* seconds one waits for an unknown address
    REREQUEST_UNICAST,      \* ARP_AGE_REREQUEST_USED_UNICAST
    REREQUEST_BROADCAST,    \* ARP_AGE_REREQUEST_USED_BROADCAST
    Hosts,                  \* next hops of packets: their IP addresses
    Macs,                   \* Ethernet addresses a host may have
    Pbufs,
    None

\* Between REREQUEST_UNICAST and the end, an address is asked for every 2 s.
ASKS == (ARP_MAXAGE - REREQUEST_UNICAST + 1) \div 2

ASSUME ArpAssumption ==
    /\ ARP_TABLE_SIZE \in Nat \ {0}
    /\ ARP_MAXAGE \in Nat /\ ARP_MAXPENDING \in Nat
    /\ REREQUEST_UNICAST \in Nat /\ REREQUEST_BROADCAST \in Nat
    /\ 2 <= ARP_MAXPENDING /\ ARP_MAXPENDING <= REREQUEST_UNICAST
    /\ REREQUEST_UNICAST < REREQUEST_BROADCAST /\ REREQUEST_BROADCAST < ARP_MAXAGE
    /\ None \notin Hosts \cup Macs \cup Pbufs
    /\ IsFiniteSet(Pbufs) /\ Cardinality(Pbufs) > ARP_TABLE_SIZE

VARIABLES
    table,      \* arp_table
    hint,       \* etharp_cached_entry
    refs,       \* references to each pbuf
    dest,       \* the next hop of what is in each pbuf, None if it is free
    linkUp,     \* NETIF_FLAG_LINK_UP
    wire,       \* the frames of the last step
    heard,      \* history: for hosts in the table, the address they used last
    late        \* history: use of and requests for addresses near their end

vars == <<table, hint, refs, dest, linkUp, wire, heard, late>>

Slots == 0 .. ARP_TABLE_SIZE - 1
Stable == {"stable", "rerequesting_1", "rerequesting_2"}

Entries == [state : {"empty", "pending"} \cup Stable, ip : Hosts \cup {None},
            mac : Macs \cup {None}, ctime : 0 .. ARP_MAXAGE - 1, q : Pbufs \cup {None}]

\* asks: requests sent since the host was heard; used: a packet was sent to it
\* in this second, with memory for a request; steady: one was in each second
\* since REREQUEST_UNICAST.
Uses == [asks : 0 .. ASKS, used : BOOLEAN, steady : BOOLEAN]
Unused == [asks |-> 0, used |-> FALSE, steady |-> TRUE]

TypeOK ==
    /\ table \in [Slots -> Entries]
    /\ hint \in Slots
    /\ refs \in [Pbufs -> 0 .. 2]
    /\ dest \in [Pbufs -> Hosts \cup {None}]
    /\ linkUp \in BOOLEAN
    /\ wire \subseteq [kind : {"ip", "request", "reply"}, to : Hosts, mac : Macs \cup {"broadcast"}]
    /\ heard \in [Hosts -> Macs \cup {None}]
    /\ late \in [Hosts -> Uses]

-----------------------------------------------------------------------------

\* etharp_free_entry leaves this of an entry (LWIP_DEBUG is defined).
EmptyEntry == [state |-> "empty", ip |-> None, mac |-> None, ctime |-> 0, q |-> None]

Init ==
    /\ table = [i \in Slots |-> EmptyEntry]
    /\ hint = 0
    /\ refs = [p \in Pbufs |-> 0]
    /\ dest = [p \in Pbufs |-> None]
    /\ linkUp \in BOOLEAN
    /\ wire = {}
    /\ heard = [h \in Hosts |-> None]
    /\ late = [h \in Hosts |-> Unused]

First(slots) == CHOOSE i \in slots : \A j \in slots : i <= j

\* The sweep of etharp_find_entry keeps the last of equal ages.
Oldest(slots) ==
    CHOOSE i \in slots : \A j \in slots :
        \/ table[j].ctime < table[i].ctime
        \/ table[j].ctime = table[i].ctime /\ j <= i

In(states) == {i \in Slots : table[i].state \in states}
Matching(h) == {i \in In({"pending"} \cup Stable) : table[i].ip = h}
Holding == {i \in Slots : table[i].q # None}

\* The entry etharp_find_entry makes room in for a new host.
Recycled ==
    IF In({"empty"}) # {} THEN First(In({"empty"}))
    ELSE IF In(Stable) # {} THEN Oldest(In(Stable))
    ELSE IF In({"pending"}) \ Holding # {} THEN Oldest(In({"pending"}) \ Holding)
    ELSE Oldest(Holding)

\* A plausible slip: the search ends at the first empty entry.
FindEntry_Short(h) ==
    IF \E i \in Matching(h) : \A j \in In({"empty"}) : i < j THEN First(Matching(h)) ELSE Recycled

\* etharp_find_entry with ETHARP_FLAG_TRY_HARD, which always finds one.
FindEntry(h) == IF Matching(h) # {} THEN First(Matching(h)) ELSE Recycled

\* The references once those of the pbufs in "dropped" are given up.
Freed(dropped) == [p \in Pbufs |-> IF p \in dropped THEN refs[p] - 1 ELSE refs[p]]

\* The references decide what else there is to tell of a pbuf and of a host.
Settle(destination, newHeard, newLate) ==
    /\ dest' = [p \in Pbufs |-> IF refs'[p] = 0 THEN None ELSE destination[p]]
    /\ LET known == {table'[i].ip : i \in Slots} IN
       /\ heard' = [h \in Hosts |-> IF h \in known THEN newHeard[h] ELSE None]
       /\ late' = [h \in Hosts |-> IF h \in known THEN newLate[h] ELSE Unused]

-----------------------------------------------------------------------------
(* ARP packets of other hosts.                                               *)

Reply(h, mac) == [kind |-> "reply", to |-> h, mac |-> mac]
Request(h, mac) == [kind |-> "request", to |-> h, mac |-> mac]
Ip(h, mac) == [kind |-> "ip", to |-> h, mac |-> mac]

\* A plausible slip: the packet that waited is sent and not freed.
UpdateArpEntry_Leaks(i, h, mac) ==
    /\ table' = [table EXCEPT ![i] =
           [state |-> "stable", ip |-> h, mac |-> mac, ctime |-> 0, q |-> None]]
    /\ refs' = Freed(IF table[i].ip = h THEN {} ELSE {table[i].q})

\* etharp_update_arp_entry in entry i, with what it frees there.
UpdateArpEntry(i, h, mac) ==
    /\ table' = [table EXCEPT ![i] =
           [state |-> "stable", ip |-> h, mac |-> mac, ctime |-> 0, q |-> None]]
    /\ refs' = Freed({table[i].q})

\* etharp_input: a packet of h, for the board or for another; a reply, or a
\* request there is memory to answer.
etharp_input(h, mac, forUs, isRequest) ==
    LET i == FindEntry(h)
        waiting == IF table[i].ip = h /\ table[i].q # None THEN {table[i].q} ELSE {}
    IN  /\ IF forUs \/ Matching(h) # {}
           THEN /\ UpdateArpEntry(i, h, mac)
                /\ Settle(dest, [heard EXCEPT ![h] = mac], [late EXCEPT ![h] = Unused])
           ELSE UNCHANGED <<table, refs, dest, heard, late>>
        /\ wire' = {Ip(dest[p], mac) : p \in waiting}
                       \cup (IF forUs /\ isRequest THEN {Reply(h, mac)} ELSE {})
        /\ UNCHANGED <<hint, linkUp>>

-----------------------------------------------------------------------------
(* Packets of the board.                                                     *)

\* The pbuf the sender has allocated; which one makes no difference.
Allocated == CHOOSE p \in Pbufs : refs[p] = 0

\* A plausible slip: the hint is trusted without a look at its address.
KnownAt_Hint(h) ==
    IF table[hint].state \in Stable THEN {hint} ELSE Matching(h) \cap In(Stable)

\* The stable entries etharp_output may use: the cached one goes first.
KnownAt(h) ==
    IF hint \in Matching(h) \cap In(Stable) THEN {hint} ELSE Matching(h) \cap In(Stable)

\* etharp_output_to_arp_index: an old address is asked for when it is used, if
\* it is not being asked for and memory is left for the request.
Ask(i, memory) ==
    /\ memory
    /\ table[i].state = "stable"
    /\ table[i].ctime >= REREQUEST_UNICAST

AskedAt(i) == IF table[i].ctime >= REREQUEST_BROADCAST THEN "broadcast" ELSE table[i].mac

UseOf(h, asked, memory) ==
    [late EXCEPT ![h] = [asks |-> IF asked /\ @.asks < ASKS THEN @.asks + 1 ELSE @.asks,
                         used |-> @.used \/ memory, steady |-> @.steady]]

\* etharp_output, the address is known: the packet is sent at once and freed.
OutputKnown(h, memory) ==
    /\ linkUp
    /\ KnownAt(h) # {}
    /\ LET i == First(KnownAt(h)) IN
       /\ hint' = i
       /\ table' = IF Ask(i, memory) THEN [table EXCEPT ![i].state = "rerequesting_1"] ELSE table
       /\ wire' = {Ip(h, table[i].mac)}
                      \cup (IF Ask(i, memory) THEN {Request(h, AskedAt(i))} ELSE {})
       /\ refs' = refs
       /\ Settle(dest, heard, UseOf(h, Ask(i, memory), memory))
    /\ UNCHANGED linkUp

\* A plausible slip: a new packet starts the wait anew.
Pending_Anew(h, p) ==
    [state |-> "pending", ip |-> h, mac |-> None, ctime |-> 0, q |-> p]

\* The entry of a host one waits for, holding p; what its age was stays.
Pending(h, p) ==
    [state |-> "pending", ip |-> h, mac |-> None, q |-> p,
     ctime |-> IF Matching(h) # {} THEN table[FindEntry(h)].ctime ELSE 0]

\* etharp_output, the address is not known: etharp_query holds the packet in
\* place of one that was held before, and asks for the address if that is new.
OutputUnknown(h, memory) ==
    /\ linkUp
    /\ KnownAt(h) = {}
    /\ LET i == FindEntry(h)
           p == Allocated
       IN  /\ table' = [table EXCEPT ![i] = Pending(h, p)]
           /\ refs' = [Freed({table[i].q}) EXCEPT ![p] = 1]
           /\ wire' = IF memory /\ Matching(h) = {} THEN {Request(h, "broadcast")} ELSE {}
           /\ Settle([dest EXCEPT ![p] = h], heard, late)
    /\ UNCHANGED <<hint, linkUp>>

-----------------------------------------------------------------------------
(* Time and link.                                                            *)

Expired(i) ==
    \/ table[i].ctime + 1 >= ARP_MAXAGE
    \/ table[i].state = "pending" /\ table[i].ctime + 1 >= ARP_MAXPENDING

\* A plausible slip: what is being asked for stays so.
AgedState_Once(state) ==
    CASE state = "rerequesting_1" -> "rerequesting_2"
      [] OTHER -> state

AgedState(state) ==
    CASE state = "rerequesting_1" -> "rerequesting_2"
      [] state = "rerequesting_2" -> "stable"
      [] OTHER -> state

Aged(i) ==
    IF table[i].state = "empty" THEN table[i]
    ELSE IF Expired(i) THEN EmptyEntry
    ELSE [table[i] EXCEPT !.ctime = @ + 1, !.state = AgedState(@)]

\* The use of a host in the second that ends.
SecondOver(h) ==
    [late[h] EXCEPT
        !.used = FALSE,
        !.steady = @ /\ \A i \in Matching(h) :
                           table[i].ctime >= REREQUEST_UNICAST => late[h].used]

\* etharp_tmr.  Ifx_Lwip_pollTimerFlags calls it every second while the link is up.
\* A request there is no memory for is left out.
etharp_tmr ==
    /\ linkUp
    /\ table' = [i \in Slots |-> Aged(i)]
    /\ refs' = Freed({table[i].q : i \in {j \in In({"pending"}) : Expired(j)}})
    /\ \E asked \in SUBSET {i \in In({"pending"}) : ~Expired(i)} :
           wire' = {Request(table[i].ip, "broadcast") : i \in asked}
    /\ Settle(dest, heard, [h \in Hosts |-> SecondOver(h)])
    /\ UNCHANGED <<hint, linkUp>>

\* Link supervision: the table outlives the link.  The announcement of the
\* board's own address at link up is of no effect here.
Link ==
    /\ linkUp' = ~linkUp
    /\ wire' = {}
    /\ UNCHANGED <<table, hint, refs, dest, heard, late>>

Next ==
    \/ \E h \in Hosts, mac \in Macs, forUs, isRequest \in BOOLEAN :
           etharp_input(h, mac, forUs, isRequest)
    \/ \E h \in Hosts, memory \in BOOLEAN : OutputKnown(h, memory) \/ OutputUnknown(h, memory)
    \/ etharp_tmr
    \/ Link

Spec == Init /\ [][Next]_vars

\* While the link is up, the timer is called every second.  No host needs to
\* answer.
FairSpec == Spec /\ WF_vars(etharp_tmr)

-----------------------------------------------------------------------------
(* Properties.                                                               *)

\* No host is in the table twice: one of two entries would keep an address
\* that no packet of the host corrects any more.
OneEntryPerHost == \A h \in Hosts : Cardinality(Matching(h)) <= 1

\* A pbuf is referred to exactly by the entries that hold it, so none is lost
\* or freed while it waits; and only pending entries hold any, as the code
\* asserts when it recycles a stable one.
HeldPbufsAccounted ==
    /\ \A p \in Pbufs : refs[p] = Cardinality({i \in Slots : table[i].q = p})
    /\ Holding \subseteq In({"pending"})

\* A packet goes to the address its host used last, at once or after it has
\* waited, however entries were recycled since and whatever the hint says.
SentToNewestAddress == \A frame \in wire : frame.kind = "ip" => frame.mac = heard[frame.to]

\* "Re-request a used ARP entry ... to prevent breaking a steadily used
\* connection" (line 64): an address in use up to its end is lost only if it
\* was asked for every other second, and none of the requests was answered.
UsedAddressIsAskedFor ==
    [][\A i \in Slots :
           etharp_tmr /\ table[i].state \in Stable /\ table'[i].state = "empty"
               => LET use == late[table[i].ip] IN
                  use.steady /\ use.used => use.asks = ASKS]_vars

\* Once the link stays up, waiting for an address ends, even if packets keep
\* coming for it and no host answers.
Waits(h) == \E i \in Matching(h) : table[i].state = "pending"
WaitEnds == <>[]linkUp => \A h \in Hosts : Waits(h) ~> ~Waits(h)

=============================================================================
