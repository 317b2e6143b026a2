-------------------------- MODULE AddressingProofs ---------------------------
(* How the board and its peers find each other: the addresses of Arp, for a   *)
(* table of any size, any hosts and addresses, any limits of age in the order *)
(* of the code's, and enough pbufs to hold one per entry and to send another; *)
(* and the datagrams of Discovery, for any period and time to live.           *)
EXTENDS Arp, Discovery, Integers, FiniteSetTheorems, WellFoundedInduction, TLAPS

\* An empty entry holds nothing; another is of a host; only a wait holds a
\* packet; and a known address is the one its host used last.
EntriesInv ==
    \A i \in Slots :
        /\ table[i].state = "empty" => table[i].ip = None /\ table[i].q = None
        /\ table[i].state # "empty" => table[i].ip \in Hosts
        /\ table[i].q # None => table[i].state = "pending"
        /\ table[i].state \in Stable
               => table[i].mac \in Macs /\ table[i].mac = heard[table[i].ip]

\* One entry per host, of whatever state.
Distinct == \A i, j \in Slots : table[i].ip = table[j].ip /\ table[i].ip \in Hosts => i = j

\* A pbuf is held once or free, and what is in it is for the host of the entry.
HeldInv ==
    /\ \A i, j \in Slots : table[i].q = table[j].q /\ table[i].q # None => i = j
    /\ \A p \in Pbufs : refs[p] = IF \E i \in Slots : table[i].q = p THEN 1 ELSE 0
    /\ \A i \in Slots : table[i].q # None => dest[table[i].q] = table[i].ip

IInv == TypeOK /\ EntriesInv /\ Distinct /\ HeldInv /\ SentToNewestAddress

-----------------------------------------------------------------------------
(* Choosing an entry.                                                        *)

Less == {pair \in Nat \X Nat : pair[1] < pair[2]}

LEMMA LessWellFounded == IsWellFoundedOn(Less, Nat)
  BY NatLessThanWellFounded, Zenon DEF OpToRel, Less

LEMMA Least ==
    ASSUME NEW S \in SUBSET Nat, S # {}
    PROVE  \E x \in S : \A y \in S : x <= y
<1>1. PICK x \in S : \A y \in S : ~ (<<y, x>> \in Less)
  BY LessWellFounded, WFMin, Zenon
<1>2. ASSUME NEW y \in S PROVE x <= y
  <2>1. x \in Nat /\ y \in Nat /\ <<y, x>> \in Nat \X Nat
    OBVIOUS
  <2>2. ~ (y < x)
    BY <1>1, <2>1, Zenon DEF Less
  <2> QED
    BY <2>1, <2>2
<1> QED
  BY <1>2

\* A bounded set has a greatest member: the least distance from the bound.
LEMMA Greatest ==
    ASSUME NEW bound \in Nat, NEW S \in SUBSET (0 .. bound), S # {}
    PROVE  \E x \in S : \A y \in S : y <= x
<1> DEFINE D == {bound - x : x \in S}
<1>1. D \in SUBSET Nat /\ D # {}
  <2>1. \A x \in S : bound - x \in Nat
    OBVIOUS
  <2> QED
    BY <2>1, Zenon
<1>2. PICK d \in D : \A e \in D : d <= e
  BY <1>1, Least
<1>3. PICK x \in S : d = bound - x
  BY <1>2, Zenon
<1>4. ASSUME NEW y \in S PROVE y <= x
  <2>1. bound - y \in D
    OBVIOUS
  <2>2. d <= bound - y
    BY <1>2, <2>1
  <2> HIDE DEF D
  <2> QED
    BY <1>3, <2>2
<1> QED
  BY <1>4

LEMMA FirstIn == ASSUME NEW S \in SUBSET Slots, S # {} PROVE First(S) \in S
<1>1. S \in SUBSET Nat
  BY ArpAssumption DEF Slots
<1>2. \E i \in S : \A j \in S : i <= j
  BY <1>1, Least
<1> QED
  BY <1>2 DEF First

\* The last of the oldest (etharp.c, line 303 on).
LEMMA OldestIn == ASSUME TypeOK, NEW S \in SUBSET Slots, S # {} PROVE Oldest(S) \in S
<1> DEFINE Age(i) == table[i].ctime
           Ages == {Age(i) : i \in S}
<1>1. \A i \in S : Age(i) \in 0 .. ARP_MAXAGE - 1
  BY DEF TypeOK, Entries
<1>2. Ages \in SUBSET (0 .. ARP_MAXAGE) /\ Ages # {}
  BY <1>1, ArpAssumption
<1>3. PICK age \in Ages : \A other \in Ages : other <= age
  BY <1>2, Greatest, ArpAssumption
<1> DEFINE Old == {i \in S : Age(i) = age}
<1>4. Old \in SUBSET (0 .. ARP_TABLE_SIZE) /\ Old # {}
  BY ArpAssumption DEF Slots
<1>5. PICK i \in Old : \A j \in Old : j <= i
  BY <1>4, Greatest, ArpAssumption
<1>6. ASSUME NEW j \in S PROVE Age(j) < Age(i) \/ (Age(j) = Age(i) /\ j <= i)
  <2>1. Age(j) <= Age(i)
    BY <1>3
  <2>2. CASE Age(j) = Age(i)
    BY <1>5, <2>2
  <2>3. CASE Age(j) # Age(i)
    BY <1>1, <2>1, <2>3
  <2> QED
    BY <2>2, <2>3
<1> QED
  BY <1>6 DEF Oldest

\* Among as many entries, of whatever states, there is one to recycle.
LEMMA RecycledIn == ASSUME TypeOK PROVE Recycled \in Slots
<1>1. CASE In({"empty"}) # {}
  BY <1>1, FirstIn DEF Recycled, In
<1>2. CASE In({"empty"}) = {} /\ In(Stable) # {}
  BY <1>2, OldestIn DEF Recycled, In
<1>3. CASE In({"empty"}) = {} /\ In(Stable) = {} /\ In({"pending"}) \ Holding # {}
  BY <1>3, OldestIn DEF Recycled, In
<1>4. CASE In({"empty"}) = {} /\ In(Stable) = {} /\ In({"pending"}) \ Holding = {}
  <2>1. 0 \in Slots
    BY ArpAssumption DEF Slots
  <2>2. 0 \in Holding
    BY <1>4, <2>1 DEF TypeOK, Entries, In
  <2> QED
    BY <1>4, <2>2, OldestIn DEF Recycled, Holding
<1> QED
  BY <1>1, <1>2, <1>3, <1>4

\* etharp_find_entry finds the entry of a host, if it has one.
LEMMA Found ==
    ASSUME IInv, NEW h \in Hosts
    PROVE  /\ FindEntry(h) \in Slots
           /\ \A i \in Slots : table[i].ip = h => i = FindEntry(h) /\ i \in Matching(h)
           /\ \A i \in Matching(h) : i \in Slots /\ table[i].ip = h
<1>1. \A i \in Slots : table[i].ip = h <=> i \in Matching(h)
  BY ArpAssumption DEF IInv, TypeOK, EntriesInv, Entries, Matching, In
<1>2. CASE Matching(h) = {}
  BY <1>1, <1>2, RecycledIn DEF FindEntry, IInv
<1>3. CASE Matching(h) # {}
  <2>1. Matching(h) \in SUBSET Slots
    BY DEF Matching, In
  <2>2. First(Matching(h)) \in Matching(h)
    BY <1>3, <2>1, FirstIn
  <2>3. FindEntry(h) \in Slots /\ table[FindEntry(h)].ip = h
    BY <1>1, <1>3, <2>1, <2>2 DEF FindEntry
  <2> QED
    BY <1>1, <2>1, <2>3 DEF IInv, Distinct
<1> QED
  BY <1>2, <1>3

\* Entries hold at most one pbuf each, so one is left for a sender.
LEMMA SomeFree == ASSUME IInv PROVE Allocated \in Pbufs /\ refs[Allocated] = 0
<1> SUFFICES ASSUME \A p \in Pbufs : refs[p] # 0 PROVE FALSE
  BY DEF Allocated
<1> DEFINE f == [p \in Pbufs |-> CHOOSE i \in Slots : table[i].q = p]
<1>1. \A p \in Pbufs : f[p] \in Slots /\ table[f[p]].q = p
  BY DEF IInv, HeldInv
<1>2. f \in [Pbufs -> Slots]
  BY <1>1
<1>3. IsFiniteSet(Slots) /\ Cardinality(Slots) = ARP_TABLE_SIZE
  BY FS_Interval, ArpAssumption DEF Slots
<1> HIDE DEF f
<1>4. \E p, q \in Pbufs : p # q /\ f[p] = f[q]
  BY <1>2, <1>3, FS_PigeonHole, ArpAssumption
<1> QED
  BY <1>1, <1>4

-----------------------------------------------------------------------------
(* The invariant.                                                            *)

LEMMA AsksNat == ASKS \in Nat
<1>1. ARP_MAXAGE - REREQUEST_UNICAST + 1 \in Nat
  BY ArpAssumption
<1> QED
  BY <1>1 DEF ASKS

LEMMA UnusedTyped == Unused \in Uses
  BY AsksNat DEF Unused, Uses

LEMMA EmptyTyped == EmptyEntry \in Entries
  BY ArpAssumption DEF EmptyEntry, Entries

LEMMA InitIInv == Init => IInv
<1> SUFFICES ASSUME Init PROVE IInv
  OBVIOUS
<1>1. 0 \in Slots
  BY ArpAssumption DEF Slots
<1>2. TypeOK
  BY <1>1, UnusedTyped, EmptyTyped DEF Init, TypeOK
<1>3. EntriesInv /\ Distinct
  BY ArpAssumption DEF Init, EmptyEntry, EntriesInv, Distinct, Stable
<1>4. HeldInv
  BY ArpAssumption DEF Init, EmptyEntry, HeldInv
<1> QED
  BY <1>2, <1>3, <1>4 DEF IInv, Init, SentToNewestAddress

\* What the entry of h holds is for h (etharp.c:486).
LEMMA InputIInv ==
    ASSUME IInv, NEW h \in Hosts, NEW mac \in Macs, NEW forUs \in BOOLEAN, NEW isRequest \in BOOLEAN,
           etharp_input(h, mac, forUs, isRequest)
    PROVE  IInv'
<1> DEFINE i == FindEntry(h)
           e == [state |-> "stable", ip |-> h, mac |-> mac, ctime |-> 0, q |-> None]
           waiting == IF table[i].ip = h /\ table[i].q # None THEN {table[i].q} ELSE {}
           ips == {Ip(dest[p], mac) : p \in waiting}
           replies == IF forUs /\ isRequest THEN {Reply(h, mac)} ELSE {}
<1>1. /\ i \in Slots
      /\ \A j \in Slots : table[j].ip = h => j = i /\ j \in Matching(h)
  BY Found
<1>2. wire' = ips \cup replies /\ hint' = hint /\ linkUp' = linkUp
  BY DEF etharp_input
<1>3. \A p \in waiting : p \in Pbufs /\ dest[p] = h
  BY <1>1 DEF IInv, TypeOK, Entries, HeldInv
<1>4. wire' \subseteq {Ip(h, mac), Reply(h, mac)}
  BY <1>2, <1>3
<1>5. wire' \subseteq [kind : {"ip", "request", "reply"}, to : Hosts, mac : Macs \cup {"broadcast"}]
  BY <1>4 DEF Ip, Reply
<1>6. CASE forUs \/ Matching(h) # {}
  <2>1. /\ table' = [table EXCEPT ![i] = e]
        /\ refs' = Freed({table[i].q})
        /\ Settle(dest, [heard EXCEPT ![h] = mac], [late EXCEPT ![h] = Unused])
    BY <1>6 DEF etharp_input, UpdateArpEntry
  <2>2. /\ e \in Entries
        /\ \A j \in Slots : table'[j] = IF j = i THEN e ELSE table[j]
        /\ table' \in [Slots -> Entries]
    BY <1>1, <2>1, ArpAssumption DEF IInv, TypeOK, Entries, Stable
  <2>3. /\ dest' \in [Pbufs -> Hosts \cup {None}]
        /\ heard' \in [Hosts -> Macs \cup {None}]
        /\ late' \in [Hosts -> Uses]
        /\ \A p \in Pbufs : refs'[p] # 0 => dest'[p] = dest[p]
        /\ \A j \in Slots : table'[j].ip \in Hosts
               => heard'[table'[j].ip] = [heard EXCEPT ![h] = mac][table'[j].ip]
    <3>1. /\ dest \in [Pbufs -> Hosts \cup {None}]
          /\ [heard EXCEPT ![h] = mac] \in [Hosts -> Macs \cup {None}]
          /\ [late EXCEPT ![h] = Unused] \in [Hosts -> Uses]
      BY UnusedTyped DEF IInv, TypeOK
    <3> HIDE DEF i, e
    <3>2. Settle(dest, [heard EXCEPT ![h] = mac], [late EXCEPT ![h] = Unused])
      BY <2>1
    <3> QED
      BY <3>1, <3>2, UnusedTyped DEF Settle
  <2>4. /\ refs' \in [Pbufs -> 0 .. 2]
        /\ \A p \in Pbufs : refs'[p] = IF p = table[i].q THEN 0 ELSE refs[p]
    BY <1>1, <2>1 DEF IInv, TypeOK, HeldInv, Freed
  <2> HIDE DEF i
  <2>5. heard'[h] = mac
    BY <1>1, <2>2, <2>3 DEF IInv, TypeOK
  <2>6. EntriesInv'
    <3> SUFFICES ASSUME NEW j \in Slots
                 PROVE  /\ table'[j].state = "empty" => table'[j].ip = None /\ table'[j].q = None
                        /\ table'[j].state # "empty" => table'[j].ip \in Hosts
                        /\ table'[j].q # None => table'[j].state = "pending"
                        /\ table'[j].state \in Stable
                               => /\ table'[j].mac \in Macs
                                  /\ table'[j].mac = heard'[table'[j].ip]
      BY DEF EntriesInv
    <3>1. CASE j = i
      BY <2>2, <2>5, <3>1
    <3>2. CASE j # i
      <4>1. table'[j] = table[j] /\ table[j].ip # h
        BY <1>1, <2>2, <3>2
      <4>2. table[j].ip \in Hosts => heard'[table[j].ip] = heard[table[j].ip]
        BY <2>3, <4>1 DEF IInv, TypeOK
      <4> QED
        BY <4>1, <4>2 DEF IInv, TypeOK, EntriesInv, Entries, Stable
    <3> QED
      BY <3>1, <3>2
  <2>7. Distinct'
    BY <1>1, <2>2 DEF IInv, Distinct
  <2>8. HeldInv'
    <3>1. \A j \in Slots : table'[j].q = IF j = i THEN None ELSE table[j].q
      BY <2>2
    <3>2. \A j \in Slots : table[j].q # None => table[j].q \in Pbufs
      BY DEF IInv, TypeOK, Entries
    <3>3. \A p \in Pbufs : refs'[p] = IF \E j \in Slots : table'[j].q = p THEN 1 ELSE 0
      <4> SUFFICES ASSUME NEW p \in Pbufs
                   PROVE  refs'[p] = IF \E j \in Slots : table'[j].q = p THEN 1 ELSE 0
        OBVIOUS
      <4>1. p # None
        BY ArpAssumption
      <4>2. CASE p = table[i].q
        BY <1>1, <2>4, <3>1, <4>1, <4>2 DEF IInv, HeldInv
      <4>3. CASE p # table[i].q
        BY <1>1, <2>4, <3>1, <4>1, <4>3 DEF IInv, HeldInv
      <4> QED
        BY <4>2, <4>3
    <3>4. \A j \in Slots : table'[j].q # None => dest'[table'[j].q] = table'[j].ip
      <4> SUFFICES ASSUME NEW j \in Slots, table'[j].q # None
                   PROVE  dest'[table'[j].q] = table'[j].ip
        OBVIOUS
      <4>1. j # i /\ table'[j] = table[j] /\ table[j].q \in Pbufs
        BY <2>2, <3>1, <3>2
      <4>2. refs'[table[j].q] = 1
        BY <3>3, <4>1
      <4> QED
        BY <2>3, <4>1, <4>2 DEF IInv, HeldInv
    <3>5. \A j, k \in Slots : table'[j].q = table'[k].q /\ table'[j].q # None => j = k
      BY <3>1 DEF IInv, HeldInv
    <3> QED
      BY <3>3, <3>4, <3>5 DEF HeldInv
  <2>9. SentToNewestAddress'
    BY <1>4, <2>5 DEF SentToNewestAddress, Ip, Reply
  <2>10. TypeOK'
    BY <1>2, <1>5, <2>2, <2>3, <2>4 DEF IInv, TypeOK
  <2> QED
    BY <2>6, <2>7, <2>8, <2>9, <2>10 DEF IInv
<1>7. CASE ~(forUs \/ Matching(h) # {})
  <2>1. UNCHANGED <<table, refs, dest, heard, late>>
    BY <1>7 DEF etharp_input
  <2>2. wire' = {}
    BY <1>1, <1>2, <1>7
  <2>3. TypeOK'
    BY <1>2, <2>1, <2>2 DEF IInv, TypeOK
  <2> QED
    BY <2>1, <2>2, <2>3 DEF IInv, EntriesInv, Distinct, HeldInv, SentToNewestAddress
<1> QED
  BY <1>6, <1>7

\* No entry changes its host, its address or its packet.
LEMMA OutputKnownIInv ==
    ASSUME IInv, NEW h \in Hosts, NEW memory \in BOOLEAN, OutputKnown(h, memory)
    PROVE  IInv'
<1> DEFINE i == First(KnownAt(h))
           requests == IF Ask(i, memory) THEN {Request(h, AskedAt(i))} ELSE {}
<1>1. i \in Slots /\ table[i].ip = h /\ table[i].state \in Stable
  <2>1. KnownAt(h) \in SUBSET Slots /\ KnownAt(h) # {}
    BY DEF KnownAt, Matching, In, IInv, TypeOK, OutputKnown
  <2>2. i \in KnownAt(h)
    BY <2>1, FirstIn
  <2> QED
    BY <2>1, <2>2, Found DEF KnownAt, In
<1>2. /\ hint' = i /\ linkUp' = linkUp /\ refs' = refs
      /\ table' = IF Ask(i, memory) THEN [table EXCEPT ![i].state = "rerequesting_1"] ELSE table
      /\ wire' = {Ip(h, table[i].mac)} \cup requests
      /\ Settle(dest, heard, UseOf(h, Ask(i, memory), memory))
  BY DEF OutputKnown
<1>3. UseOf(h, Ask(i, memory), memory) \in [Hosts -> Uses]
  BY AsksNat DEF IInv, TypeOK, Uses, UseOf, Ask
<1>4. /\ table[i].mac \in Macs /\ table[i].mac = heard[h]
      /\ AskedAt(i) \in Macs \cup {"broadcast"}
  BY <1>1 DEF IInv, EntriesInv, AskedAt
<1> HIDE DEF i
<1>5. /\ table' \in [Slots -> Entries]
      /\ \A j \in Slots : /\ table'[j].ip = table[j].ip /\ table'[j].mac = table[j].mac
                          /\ table'[j].q = table[j].q
                          /\ \/ table'[j].state = table[j].state
                             \/ {table[j].state, table'[j].state} \subseteq Stable
  <2>1. table[i] \in Entries /\ [table[i] EXCEPT !.state = "rerequesting_1"] \in Entries
    BY <1>1 DEF IInv, TypeOK, Entries, Stable
  <2>2. CASE Ask(i, memory)
    BY <1>1, <1>2, <2>1, <2>2 DEF IInv, TypeOK, Entries, Stable
  <2>3. CASE ~Ask(i, memory)
    BY <1>2, <2>3 DEF IInv, TypeOK
  <2> QED
    BY <2>2, <2>3
<1>6. /\ dest' \in [Pbufs -> Hosts \cup {None}]
      /\ heard' \in [Hosts -> Macs \cup {None}]
      /\ late' \in [Hosts -> Uses]
      /\ \A p \in Pbufs : refs'[p] # 0 => dest'[p] = dest[p]
      /\ \A j \in Slots : table'[j].ip \in Hosts => heard'[table'[j].ip] = heard[table'[j].ip]
  <2> DEFINE newLate == UseOf(h, Ask(i, memory), memory)
  <2>1. Settle(dest, heard, newLate) /\ newLate \in [Hosts -> Uses]
    BY <1>2, <1>3 DEF i
  <2> HIDE DEF newLate
  <2> QED
    BY <2>1, UnusedTyped DEF Settle, IInv, TypeOK
<1>7. /\ Ip(h, table[i].mac)
             \in [kind : {"ip", "request", "reply"}, to : Hosts, mac : Macs \cup {"broadcast"}]
      /\ Request(h, AskedAt(i))
             \in [kind : {"ip", "request", "reply"}, to : Hosts, mac : Macs \cup {"broadcast"}]
  BY <1>4 DEF Ip, Request
<1>8. TypeOK'
  BY <1>1, <1>2, <1>5, <1>6, <1>7 DEF IInv, TypeOK
<1>9. EntriesInv'
  BY <1>5, <1>6 DEF IInv, EntriesInv, Stable
<1>10. Distinct'
  BY <1>5 DEF IInv, Distinct
<1>11. HeldInv'
  <2>1. \A j \in Slots : table[j].q # None => table[j].q \in Pbufs /\ refs'[table[j].q] = 1
    BY <1>2 DEF IInv, TypeOK, Entries, HeldInv
  <2> QED
    BY <1>2, <1>5, <1>6, <2>1 DEF IInv, HeldInv
<1>12. SentToNewestAddress'
  <2>1. heard'[h] = heard[h]
    BY <1>1, <1>5, <1>6
  <2> QED
    BY <1>2, <1>4, <2>1 DEF SentToNewestAddress, Ip, Request
<1> QED
  BY <1>8, <1>9, <1>10, <1>11, <1>12 DEF IInv

\* The entry of h holds the new packet, and gives up what it held before.
LEMMA OutputUnknownIInv ==
    ASSUME IInv, NEW h \in Hosts, NEW memory \in BOOLEAN, OutputUnknown(h, memory)
    PROVE  IInv'
<1> DEFINE i == FindEntry(h)
           p == Allocated
           e == Pending(h, p)
<1>1. /\ i \in Slots
      /\ \A j \in Slots : table[j].ip = h => j = i
  BY Found
<1>2. p \in Pbufs /\ refs[p] = 0 /\ p # None
  BY SomeFree, ArpAssumption
<1>3. /\ table' = [table EXCEPT ![i] = e]
      /\ refs' = [Freed({table[i].q}) EXCEPT ![p] = 1]
      /\ wire' \subseteq {Request(h, "broadcast")}
      /\ Settle([dest EXCEPT ![p] = h], heard, late)
      /\ hint' = hint /\ linkUp' = linkUp
  BY DEF OutputUnknown
<1>4. e \in Entries /\ e.state = "pending" /\ e.ip = h /\ e.q = p
  <2>1. (IF Matching(h) # {} THEN table[i].ctime ELSE 0) \in 0 .. ARP_MAXAGE - 1
    BY <1>1, ArpAssumption DEF IInv, TypeOK, Entries
  <2> QED
    BY <1>2, <2>1 DEF Pending, Entries
<1> HIDE DEF i, p, e
<1>5. /\ table' \in [Slots -> Entries]
      /\ \A j \in Slots : table'[j] = IF j = i THEN e ELSE table[j]
  BY <1>1, <1>3, <1>4 DEF IInv, TypeOK
<1>6. /\ dest' \in [Pbufs -> Hosts \cup {None}]
      /\ heard' \in [Hosts -> Macs \cup {None}]
      /\ late' \in [Hosts -> Uses]
      /\ \A r \in Pbufs : refs'[r] # 0 => dest'[r] = IF r = p THEN h ELSE dest[r]
      /\ \A j \in Slots : table'[j].ip \in Hosts => heard'[table'[j].ip] = heard[table'[j].ip]
  <2> DEFINE destination == [dest EXCEPT ![p] = h]
  <2>1. /\ Settle(destination, heard, late)
        /\ destination \in [Pbufs -> Hosts \cup {None}]
        /\ \A r \in Pbufs : destination[r] = IF r = p THEN h ELSE dest[r]
    BY <1>2, <1>3 DEF IInv, TypeOK
  <2> HIDE DEF destination
  <2> QED
    BY <2>1, UnusedTyped DEF Settle, IInv, TypeOK
<1>7. /\ refs' \in [Pbufs -> 0 .. 2]
      /\ \A r \in Pbufs : refs'[r] = IF r = p THEN 1 ELSE IF r = table[i].q THEN 0 ELSE refs[r]
  BY <1>1, <1>2, <1>3 DEF IInv, TypeOK, HeldInv, Freed
<1>8. TypeOK'
  <2>1. Request(h, "broadcast")
            \in [kind : {"ip", "request", "reply"}, to : Hosts, mac : Macs \cup {"broadcast"}]
    BY DEF Request
  <2> QED
    BY <1>3, <1>5, <1>6, <1>7, <2>1 DEF IInv, TypeOK
<1>9. EntriesInv'
  BY <1>4, <1>5, <1>6 DEF IInv, EntriesInv, Stable
<1>10. Distinct'
  BY <1>1, <1>4, <1>5 DEF IInv, Distinct
<1>11. HeldInv'
  <2>1. \A j \in Slots : table'[j].q = IF j = i THEN p ELSE table[j].q
    BY <1>4, <1>5
  <2>2. \A j \in Slots : table[j].q # None => table[j].q \in Pbufs
    BY DEF IInv, TypeOK, Entries
  <2>3. \A j \in Slots : table[j].q # p
    BY <1>2 DEF IInv, HeldInv
  <2>4. \A r \in Pbufs : refs'[r] = IF \E j \in Slots : table'[j].q = r THEN 1 ELSE 0
    <3> SUFFICES ASSUME NEW r \in Pbufs
                 PROVE  refs'[r] = IF \E j \in Slots : table'[j].q = r THEN 1 ELSE 0
      OBVIOUS
    <3>1. r # None
      BY ArpAssumption
    <3>2. CASE r = p
      BY <1>1, <1>7, <2>1, <3>2
    <3>3. CASE r # p /\ r = table[i].q
      BY <1>1, <1>7, <2>1, <3>1, <3>3 DEF IInv, HeldInv
    <3>4. CASE r # p /\ r # table[i].q
      BY <1>1, <1>7, <2>1, <3>4 DEF IInv, HeldInv
    <3> QED
      BY <3>2, <3>3, <3>4
  <2>5. \A j \in Slots : table'[j].q # None => dest'[table'[j].q] = table'[j].ip
    <3> SUFFICES ASSUME NEW j \in Slots, table'[j].q # None
                 PROVE  dest'[table'[j].q] = table'[j].ip
      OBVIOUS
    <3>1. table'[j].q \in Pbufs
      BY <1>2, <2>1, <2>2
    <3>2. refs'[table'[j].q] = 1
      BY <2>4, <3>1
    <3>3. CASE j = i
      BY <1>4, <1>5, <1>6, <2>1, <3>1, <3>2, <3>3
    <3>4. CASE j # i
      BY <1>5, <1>6, <2>1, <2>3, <3>1, <3>2, <3>4 DEF IInv, HeldInv
    <3> QED
      BY <3>3, <3>4
  <2>6. \A j, k \in Slots : table'[j].q = table'[k].q /\ table'[j].q # None => j = k
    BY <2>1, <2>3 DEF IInv, HeldInv
  <2> QED
    BY <2>4, <2>5, <2>6 DEF HeldInv
<1>12. SentToNewestAddress'
  BY <1>3 DEF SentToNewestAddress, Request
<1> QED
  BY <1>8, <1>9, <1>10, <1>11, <1>12 DEF IInv

LEMMA SecondOverTyped == ASSUME IInv, NEW h \in Hosts PROVE SecondOver(h) \in Uses
<1>1. late[h] \in [asks : 0 .. ASKS, used : BOOLEAN, steady : BOOLEAN]
  BY DEF IInv, TypeOK, Uses
<1> DEFINE steady == late[h].steady /\ \A i \in Matching(h) :
                         table[i].ctime >= REREQUEST_UNICAST => late[h].used
<1>2. steady \in BOOLEAN
  OBVIOUS
<1>3. SecondOver(h) = [late[h] EXCEPT !.used = FALSE, !.steady = steady]
  BY Zenon DEF SecondOver
<1> HIDE DEF steady
<1> QED
  BY <1>1, <1>2, <1>3 DEF Uses

\* An entry that has expired is empty, and only those that waited held a packet.
LEMMA TmrIInv == IInv /\ etharp_tmr => IInv'
<1> SUFFICES ASSUME IInv, etharp_tmr PROVE IInv'
  OBVIOUS
<1> DEFINE gone == {j \in Slots : table[j].state # "empty" /\ Expired(j)}
<1>1. /\ table' \in [Slots -> Entries]
      /\ \A j \in Slots :
             IF j \in gone
             THEN table'[j] = EmptyEntry
             ELSE /\ table'[j].ip = table[j].ip /\ table'[j].mac = table[j].mac
                  /\ table'[j].q = table[j].q
                  /\ \/ table'[j].state = table[j].state
                     \/ {table[j].state, table'[j].state} \subseteq Stable
  <2>1. ASSUME NEW j \in Slots
        PROVE  /\ Aged(j) \in Entries
               /\ IF j \in gone
                  THEN Aged(j) = EmptyEntry
                  ELSE /\ Aged(j).ip = table[j].ip /\ Aged(j).mac = table[j].mac
                       /\ Aged(j).q = table[j].q
                       /\ \/ Aged(j).state = table[j].state
                          \/ {table[j].state, Aged(j).state} \subseteq Stable
    <3>1. table[j] \in Entries
      BY DEF IInv, TypeOK
    <3>2. CASE table[j].state = "empty"
      BY <3>1, <3>2 DEF Aged
    <3>3. CASE j \in gone
      BY <3>3, EmptyTyped DEF Aged
    <3>4. CASE table[j].state # "empty" /\ j \notin gone
      <4>1. Aged(j) = [table[j] EXCEPT !.ctime = @ + 1, !.state = AgedState(@)]
        BY <3>4 DEF Aged
      <4>2. table[j].ctime + 1 \in 0 .. ARP_MAXAGE - 1
        BY <3>1, <3>4, ArpAssumption DEF Expired, Entries
      <4>3. \/ AgedState(table[j].state) = table[j].state
            \/ {table[j].state, AgedState(table[j].state)} \subseteq Stable
        BY DEF AgedState, Stable
      <4> QED
        BY <3>1, <3>4, <4>1, <4>2, <4>3 DEF Entries, Stable
    <3> QED
      BY <3>2, <3>3, <3>4
  <2> QED
    BY <2>1 DEF etharp_tmr
<1>2. \A j \in Slots : table'[j].q = IF j \in gone THEN None ELSE table[j].q
  BY <1>1 DEF EmptyEntry
<1>3. \A j \in gone : table[j].q # None => j \in In({"pending"}) /\ Expired(j)
  BY DEF IInv, EntriesInv, In
<1>4. \A p \in Pbufs : refs'[p] = IF \E j \in gone : table[j].q = p THEN 0 ELSE refs[p]
  <2> DEFINE dropped == {table[i].q : i \in {j \in In({"pending"}) : Expired(j)}}
  <2>1. \A p \in Pbufs : p \in dropped <=> \E j \in gone : table[j].q = p
    BY <1>3, ArpAssumption DEF In
  <2>2. refs' = Freed(dropped)
    BY DEF etharp_tmr
  <2> HIDE DEF dropped, gone
  <2>3. \A p \in Pbufs : refs'[p] = IF p \in dropped THEN refs[p] - 1 ELSE refs[p]
    BY <2>2 DEF Freed
  <2>4. \A p \in Pbufs : p \in dropped => refs[p] = 1
    BY <2>1 DEF IInv, HeldInv, gone
  <2> QED
    BY <2>1, <2>3, <2>4
<1>5. /\ dest' \in [Pbufs -> Hosts \cup {None}]
      /\ heard' \in [Hosts -> Macs \cup {None}]
      /\ late' \in [Hosts -> Uses]
      /\ \A p \in Pbufs : refs'[p] # 0 => dest'[p] = dest[p]
      /\ \A j \in Slots : table'[j].ip \in Hosts => heard'[table'[j].ip] = heard[table'[j].ip]
  <2> DEFINE newLate == [h \in Hosts |-> SecondOver(h)]
  <2>1. newLate \in [Hosts -> Uses]
    BY SecondOverTyped
  <2>2. Settle(dest, heard, newLate)
    BY DEF etharp_tmr
  <2> HIDE DEF newLate
  <2> QED
    BY <2>1, <2>2, UnusedTyped DEF Settle, IInv, TypeOK
<1>6. /\ wire' \subseteq [kind : {"request"}, to : Hosts, mac : {"broadcast"}]
      /\ hint' = hint /\ linkUp' = linkUp
  <2>1. \A j \in In({"pending"}) : Request(table[j].ip, "broadcast")
                                       \in [kind : {"request"}, to : Hosts, mac : {"broadcast"}]
    BY DEF Request, In, IInv, EntriesInv
  <2> QED
    BY <2>1 DEF etharp_tmr
<1> HIDE DEF gone
<1>7. TypeOK'
  <2>1. refs' \in [Pbufs -> 0 .. 2]
    <3>1. refs' = [p \in Pbufs |-> refs'[p]]
      BY DEF etharp_tmr, Freed
    <3>2. \A p \in Pbufs : refs'[p] \in 0 .. 2
      BY <1>4 DEF IInv, TypeOK
    <3> HIDE DEF etharp_tmr
    <3> QED
      BY <3>1, <3>2, Zenon
  <2>2. wire' \subseteq [kind : {"ip", "request", "reply"}, to : Hosts,
                         mac : Macs \cup {"broadcast"}]
    BY <1>6
  <2> QED
    BY <1>1, <1>5, <1>6, <2>1, <2>2 DEF IInv, TypeOK
<1>8. EntriesInv'
  BY <1>1, <1>5, ArpAssumption DEF IInv, EntriesInv, EmptyEntry, Stable
<1>9. Distinct'
  BY <1>1, ArpAssumption DEF IInv, Distinct, EmptyEntry
<1>10. HeldInv'
  <2>1. \A p \in Pbufs : refs'[p] = IF \E j \in Slots : table'[j].q = p THEN 1 ELSE 0
    <3> SUFFICES ASSUME NEW p \in Pbufs
                 PROVE  refs'[p] = IF \E j \in Slots : table'[j].q = p THEN 1 ELSE 0
      OBVIOUS
    <3>1. p # None
      BY ArpAssumption
    <3>2. CASE \E j \in gone : table[j].q = p
      BY <1>2, <1>4, <3>1, <3>2 DEF IInv, HeldInv, gone
    <3>3. CASE ~ \E j \in gone : table[j].q = p
      BY <1>2, <1>4, <3>1, <3>3 DEF IInv, HeldInv
    <3> QED
      BY <3>2, <3>3
  <2>2. \A j \in Slots : table'[j].q # None => dest'[table'[j].q] = table'[j].ip
    <3> SUFFICES ASSUME NEW j \in Slots, table'[j].q # None
                 PROVE  dest'[table'[j].q] = table'[j].ip
      OBVIOUS
    <3>1. j \notin gone /\ table'[j].q = table[j].q /\ table'[j].ip = table[j].ip
      BY <1>1, <1>2
    <3>2. table'[j].q \in Pbufs
      BY <3>1 DEF IInv, TypeOK, Entries
    <3>3. refs'[table'[j].q] = 1
      BY <2>1, <3>2
    <3> QED
      BY <1>5, <3>1, <3>2, <3>3 DEF IInv, HeldInv
  <2>3. \A j, k \in Slots : table'[j].q = table'[k].q /\ table'[j].q # None => j = k
    BY <1>2 DEF IInv, HeldInv
  <2> QED
    BY <2>1, <2>2, <2>3 DEF HeldInv
<1>11. SentToNewestAddress'
  BY <1>6 DEF SentToNewestAddress
<1> QED
  BY <1>7, <1>8, <1>9, <1>10, <1>11 DEF IInv

LEMMA LinkIInv == IInv /\ (Link \/ UNCHANGED vars) => IInv'
<1> SUFFICES ASSUME IInv, Link \/ UNCHANGED vars PROVE IInv'
  OBVIOUS
<1>1. /\ UNCHANGED <<table, hint, refs, dest, heard, late>>
      /\ wire' = {} \/ wire' = wire
      /\ linkUp' \in BOOLEAN
  BY DEF Link, vars, IInv, TypeOK
<1>2. TypeOK'
  BY <1>1 DEF IInv, TypeOK
<1>3. EntriesInv' /\ Distinct'
  BY <1>1 DEF IInv, EntriesInv, Distinct
<1>4. HeldInv'
  BY <1>1 DEF IInv, HeldInv
<1>5. SentToNewestAddress'
  BY <1>1 DEF IInv, SentToNewestAddress
<1> QED
  BY <1>2, <1>3, <1>4, <1>5 DEF IInv

LEMMA Invariance == Spec => []IInv
<1>1. IInv /\ [Next]_vars => IInv'
  BY InputIInv, OutputKnownIInv, OutputUnknownIInv, TmrIInv, LinkIInv DEF Next
<1> QED
  BY <1>1, InitIInv, PTL DEF Spec

-----------------------------------------------------------------------------

\* The table and the pbufs keep their types (etharp.c).
THEOREM TypeCorrect == Spec => []TypeOK
<1>1. IInv => TypeOK
  BY DEF IInv
<1> QED
  BY <1>1, Invariance, PTL

\* etharp.c:354: however entries are recycled, no host is in the table twice.
THEOREM HostsOnce == Spec => []OneEntryPerHost
<1>1. IInv => OneEntryPerHost
  <2> SUFFICES ASSUME IInv, NEW h \in Hosts PROVE Cardinality(Matching(h)) <= 1
    BY DEF OneEntryPerHost
  <2>1. \A i \in Matching(h) : i = FindEntry(h)
    BY Found
  <2>2. Matching(h) = {} \/ Matching(h) = {FindEntry(h)}
    BY <2>1
  <2>3. Cardinality({}) = 0 /\ Cardinality({FindEntry(h)}) = 1
    BY FS_EmptySet, FS_Singleton
  <2> QED
    BY <2>2, <2>3
<1> QED
  BY <1>1, Invariance, PTL

\* etharp.c:1022 and 486: a packet that waits is held once, freed once, and only
\* while its entry waits.
THEOREM PacketsAccounted == Spec => []HeldPbufsAccounted
<1>1. IInv => HeldPbufsAccounted
  <2> SUFFICES ASSUME IInv PROVE HeldPbufsAccounted
    OBVIOUS
  <2>1. ASSUME NEW p \in Pbufs
        PROVE  refs[p] = Cardinality({i \in Slots : table[i].q = p})
    <3> DEFINE holders == {i \in Slots : table[i].q = p}
    <3>1. p # None
      BY ArpAssumption
    <3>2. CASE holders = {}
      <4>1. Cardinality(holders) = 0
        BY <3>2, FS_EmptySet
      <4>2. refs[p] = 0
        BY <3>2 DEF IInv, HeldInv
      <4> QED
        BY <4>1, <4>2
    <3>3. ASSUME NEW i \in holders PROVE refs[p] = Cardinality(holders)
      <4>1. holders = {i}
        BY <3>1, <3>3 DEF IInv, HeldInv
      <4>2. Cardinality(holders) = 1
        BY <4>1, FS_Singleton
      <4>3. refs[p] = 1
        BY <3>3 DEF IInv, HeldInv
      <4> QED
        BY <4>2, <4>3
    <3> QED
      BY <3>2, <3>3
  <2>2. Holding \subseteq In({"pending"})
    BY DEF IInv, EntriesInv, Holding, In
  <2> QED
    BY <2>1, <2>2 DEF HeldPbufsAccounted
<1> QED
  BY <1>1, Invariance, PTL

\* etharp.c:861: no packet goes to an address its host has left, as far as the
\* board was told.
THEOREM NewestAddress == Spec => []SentToNewestAddress
<1>1. IInv => SentToNewestAddress
  BY DEF IInv
<1> QED
  BY <1>1, Invariance, PTL

-----------------------------------------------------------------------------
(* Addresses in use.                                                         *)

\* All the requests there can be, or one for every two of so many seconds.
AskedEnough(use, seconds) == use.asks = ASKS \/ 2 * use.asks >= seconds

\* The requests made so far for an address used in every second since it grew
\* old: before the request of this second, after it, or in a second without.
AskedSoFar(entry, use) ==
    LET over == entry.ctime - REREQUEST_UNICAST IN
    IF over < 0 THEN entry.state = "stable"
    ELSE use.steady =>
             /\ entry.state = "stable" => ~use.used /\ AskedEnough(use, over)
             /\ entry.state = "rerequesting_1" => AskedEnough(use, over + 2)
             /\ entry.state = "rerequesting_2" => AskedEnough(use, over + 1)

UseInv == \A i \in Slots : table[i].state \in Stable => AskedSoFar(table[i], late[table[i].ip])

LEMMA InputUseInv ==
    ASSUME IInv, UseInv, NEW h \in Hosts, NEW mac \in Macs,
           NEW forUs \in BOOLEAN, NEW isRequest \in BOOLEAN, etharp_input(h, mac, forUs, isRequest)
    PROVE  UseInv'
<1> DEFINE i == FindEntry(h)
           e == [state |-> "stable", ip |-> h, mac |-> mac, ctime |-> 0, q |-> None]
<1>1. i \in Slots /\ \A j \in Slots : table[j].ip = h => j = i
  BY Found
<1>2. CASE forUs \/ Matching(h) # {}
  <2>1. /\ table' = [table EXCEPT ![i] = e]
        /\ Settle(dest, [heard EXCEPT ![h] = mac], [late EXCEPT ![h] = Unused])
    BY <1>2 DEF etharp_input, UpdateArpEntry
  <2> SUFFICES ASSUME NEW j \in Slots, table'[j].state \in Stable
               PROVE  AskedSoFar(table'[j], late'[table'[j].ip])
    BY DEF UseInv
  <2>2. CASE j = i
    BY <1>1, <2>1, <2>2, ArpAssumption DEF IInv, TypeOK, AskedSoFar
  <2>3. CASE j # i
    <3>1. table'[j] = table[j] /\ table[j].ip # h /\ table[j].ip \in Hosts
      BY <1>1, <2>1, <2>3 DEF IInv, TypeOK, EntriesInv, Stable
    <3>2. late'[table[j].ip] = late[table[j].ip]
      BY <2>1, <3>1 DEF IInv, TypeOK, Settle
    <3> QED
      BY <3>1, <3>2 DEF UseInv
  <2> QED
    BY <2>2, <2>3
<1>3. CASE ~(forUs \/ Matching(h) # {})
  BY <1>3 DEF etharp_input, UseInv
<1> QED
  BY <1>2, <1>3

\* A use of an old address that is not being asked for is a request, if there
\* is memory for it; and without memory it does not count as a use.
LEMMA OutputKnownUseInv ==
    ASSUME IInv, UseInv, NEW h \in Hosts, NEW memory \in BOOLEAN, OutputKnown(h, memory)
    PROVE  UseInv'
<1> DEFINE i == First(KnownAt(h))
           asked == Ask(i, memory)
<1>1. i \in Slots /\ table[i].ip = h /\ table[i].state \in Stable
  <2>1. KnownAt(h) \in SUBSET Slots /\ KnownAt(h) # {}
    BY DEF KnownAt, Matching, In, IInv, TypeOK, OutputKnown
  <2>2. i \in KnownAt(h)
    BY <2>1, FirstIn
  <2> QED
    BY <2>1, <2>2, Found DEF KnownAt, In
<1>2. /\ table' = IF asked THEN [table EXCEPT ![i].state = "rerequesting_1"] ELSE table
      /\ Settle(dest, heard, UseOf(h, asked, memory))
  BY DEF OutputKnown
<1>3. asked <=> memory /\ table[i].state = "stable" /\ table[i].ctime >= REREQUEST_UNICAST
  BY DEF Ask
<1> HIDE DEF i, asked
<1>4. \A j \in Slots : table'[j].ip = table[j].ip
  BY <1>1, <1>2 DEF IInv, TypeOK, Entries
<1> SUFFICES ASSUME NEW j \in Slots, table'[j].state \in Stable
             PROVE  AskedSoFar(table'[j], late'[table'[j].ip])
  BY DEF UseInv
<1>5. table[j].ip \in Hosts /\ table[j].state \in Stable
  BY <1>1, <1>2 DEF IInv, TypeOK, EntriesInv, Entries, Stable
<1>6. late'[table[j].ip] = UseOf(h, asked, memory)[table[j].ip]
  BY <1>2, <1>4, <1>5 DEF Settle
<1>7. CASE j # i
  <2>1. table'[j] = table[j] /\ table[j].ip # h
    BY <1>1, <1>2, <1>7 DEF IInv, TypeOK, Distinct
  <2>2. late'[table[j].ip] = late[table[j].ip]
    BY <1>5, <1>6, <2>1 DEF IInv, TypeOK, UseOf
  <2> QED
    BY <1>5, <2>1, <2>2 DEF UseInv
<1>8. CASE j = i
  <2> DEFINE use == late[h]
             next == late'[h]
             over == table[i].ctime - REREQUEST_UNICAST
  <2>1. /\ next.asks = IF asked /\ use.asks < ASKS THEN use.asks + 1 ELSE use.asks
        /\ next.used = (use.used \/ memory) /\ next.steady = use.steady
    BY <1>1, <1>6, <1>8 DEF IInv, TypeOK, Uses, UseOf
  <2>2. use.asks \in 0 .. ASKS /\ ASKS \in Nat
    BY AsksNat DEF IInv, TypeOK, Uses
  <2>3. /\ table'[i].ctime = table[i].ctime
        /\ table'[i].state = IF asked THEN "rerequesting_1" ELSE table[i].state
    BY <1>1, <1>2 DEF IInv, TypeOK, Entries
  <2>4. over \in Int /\ REREQUEST_UNICAST \in Nat /\ table[i].ctime \in Nat
    BY <1>1, ArpAssumption DEF IInv, TypeOK, Entries
  <2>5. AskedSoFar(table[i], use)
    BY <1>1 DEF UseInv
  <2> SUFFICES AskedSoFar(table'[i], next)
    BY <1>1, <1>4, <1>8
  <2> HIDE DEF use, next
  <2>6. CASE asked
    <3>1. over >= 0 /\ table[i].state = "stable"
      BY <1>3, <2>4, <2>6
    <3>2. use.steady => AskedEnough(use, over)
      BY <2>4, <2>5, <3>1 DEF AskedSoFar
    <3>3. AskedEnough(use, over) => AskedEnough(next, over + 2)
      BY <2>1, <2>2, <2>4, <2>6 DEF AskedEnough
    <3> QED
      BY <2>1, <2>3, <2>4, <2>6, <3>1, <3>2, <3>3 DEF AskedSoFar
  <2>7. CASE ~asked
    <3>1. next.asks = use.asks /\ table'[i].state = table[i].state
      BY <2>1, <2>3, <2>7
    <3>2. \A seconds : AskedEnough(next, seconds) <=> AskedEnough(use, seconds)
      BY <3>1 DEF AskedEnough
    <3>3. over < 0 \/ table[i].state # "stable" \/ ~memory
      BY <1>3, <2>4, <2>7
    <3> QED
      BY <2>1, <2>3, <2>4, <2>5, <3>1, <3>2, <3>3 DEF AskedSoFar
  <2> QED
    BY <2>6, <2>7
<1> QED
  BY <1>7, <1>8

\* What a wait takes the place of is no longer in the table.
LEMMA OutputUnknownUseInv ==
    ASSUME IInv, UseInv, NEW h \in Hosts, NEW memory \in BOOLEAN, OutputUnknown(h, memory)
    PROVE  UseInv'
<1> DEFINE i == FindEntry(h)
           p == Allocated
           e == Pending(h, p)
<1>1. /\ table' = [table EXCEPT ![i] = e] /\ e.state = "pending"
      /\ Settle([dest EXCEPT ![p] = h], heard, late)
  BY DEF OutputUnknown, Pending
<1> HIDE DEF i, p, e
<1> SUFFICES ASSUME NEW j \in Slots, table'[j].state \in Stable
             PROVE  AskedSoFar(table'[j], late'[table'[j].ip])
  BY DEF UseInv
<1>2. table'[j] = table[j]
  BY <1>1 DEF IInv, TypeOK, Stable
<1>3. table[j].ip \in Hosts
  BY <1>2 DEF IInv, EntriesInv, Stable
<1>4. late'[table[j].ip] = late[table[j].ip]
  BY <1>1, <1>2, <1>3 DEF Settle
<1> QED
  BY <1>2, <1>4 DEF UseInv

\* A second ends: one without a use ends the steady use, one with a use has had
\* its request or is between two.
LEMMA TmrUseInv == ASSUME IInv, UseInv, etharp_tmr PROVE UseInv'
<1> SUFFICES ASSUME NEW j \in Slots, table'[j].state \in Stable
             PROVE  AskedSoFar(table'[j], late'[table'[j].ip])
  BY DEF UseInv
<1> DEFINE h == table[j].ip
           use == late[h]
           next == late'[h]
           over == table[j].ctime - REREQUEST_UNICAST
<1>1. table[j] \in Entries /\ table'[j] = Aged(j)
  BY DEF IInv, TypeOK, etharp_tmr
<1>2. /\ table'[j] = [table[j] EXCEPT !.ctime = @ + 1, !.state = AgedState(@)]
      /\ table[j].state \in Stable
  BY <1>1 DEF Aged, AgedState, EmptyEntry, Stable, Entries
<1>3. /\ table'[j].ip = h /\ table'[j].ctime = table[j].ctime + 1
      /\ table'[j].state = IF table[j].state = "rerequesting_1" THEN "rerequesting_2" ELSE "stable"
  BY <1>1, <1>2 DEF Entries, AgedState, Stable
<1>4. h \in Hosts /\ j \in Matching(h)
  BY <1>2 DEF IInv, EntriesInv, Stable, Matching, In
<1>5. next = SecondOver(h)
  BY <1>3, <1>4 DEF etharp_tmr, Settle
<1>6. /\ next.asks = use.asks /\ next.used = FALSE
      /\ next.steady => use.steady /\ (table[j].ctime >= REREQUEST_UNICAST => use.used)
  BY <1>4, <1>5 DEF SecondOver, IInv, TypeOK, Uses
<1>7. over \in Int /\ REREQUEST_UNICAST \in Nat /\ table[j].ctime \in Nat /\ use.asks \in Nat
  BY <1>1, <1>4, AsksNat, ArpAssumption DEF IInv, TypeOK, Entries, Uses
<1>8. AskedSoFar(table[j], use)
  BY <1>2 DEF UseInv
<1>9. table'[j].ctime - REREQUEST_UNICAST = over + 1
  BY <1>3, <1>7
<1> SUFFICES AskedSoFar(table'[j], next)
  BY <1>3
<1> HIDE DEF h, use, next
<1>10. CASE over < 0
  <2>1. table'[j].state = "stable"
    BY <1>3, <1>8, <1>10 DEF AskedSoFar
  <2>2. over + 1 >= 0 => AskedEnough(next, over + 1)
    BY <1>6, <1>7, <1>10 DEF AskedEnough
  <2> QED
    BY <1>6, <1>7, <1>9, <2>1, <2>2 DEF AskedSoFar
<1>11. CASE over >= 0
  <2>1. \A seconds : AskedEnough(next, seconds) <=> AskedEnough(use, seconds)
    BY <1>6 DEF AskedEnough
  <2>2. next.steady => use.steady /\ use.used
    BY <1>6, <1>7, <1>11
  <2>3. next.steady =>
            /\ table[j].state # "stable"
            /\ table[j].state = "rerequesting_1" => AskedEnough(use, over + 2)
            /\ table[j].state = "rerequesting_2" => AskedEnough(use, over + 1)
    BY <1>7, <1>8, <1>11, <2>2 DEF AskedSoFar
  <2>4. (over + 1) + 1 = over + 2
    BY <1>7
  <2> QED
    BY <1>2, <1>3, <1>6, <1>7, <1>9, <1>11, <2>1, <2>3, <2>4 DEF AskedSoFar, Stable
<1> QED
  BY <1>7, <1>10, <1>11

LEMMA UseInvariance == Spec => [](IInv /\ UseInv)
<1>1. Init => UseInv
  BY DEF Init, EmptyEntry, UseInv, Stable
<1>2. IInv /\ UseInv /\ (Link \/ UNCHANGED vars) => UseInv'
  BY DEF Link, vars, UseInv
<1>3. IInv /\ UseInv /\ [Next]_vars => UseInv'
  BY <1>2, InputUseInv, OutputKnownUseInv, OutputUnknownUseInv, TmrUseInv DEF Next
<1> QED
  BY <1>1, <1>3, Invariance, PTL DEF Spec

\* etharp.c:64: a steadily used address is not lost unasked, however the seconds
\* of its last minutes fall and for any limits of age.
THEOREM UsedIsAskedFor == Spec => UsedAddressIsAskedFor
<1> DEFINE Asks ==
        \A i \in Slots :
            etharp_tmr /\ table[i].state \in Stable /\ table'[i].state = "empty"
                => LET use == late[table[i].ip] IN use.steady /\ use.used => use.asks = ASKS
<1>1. IInv /\ UseInv => Asks
  <2> SUFFICES ASSUME IInv, UseInv, NEW i \in Slots,
                      etharp_tmr, table[i].state \in Stable, table'[i].state = "empty",
                      late[table[i].ip].steady, late[table[i].ip].used
               PROVE  late[table[i].ip].asks = ASKS
    OBVIOUS
  <2> DEFINE use == late[table[i].ip]
             over == table[i].ctime - REREQUEST_UNICAST
  <2>1. table[i] \in Entries /\ table'[i] = Aged(i)
    BY DEF IInv, TypeOK, etharp_tmr
  <2>2. Expired(i)
    <3> SUFFICES ASSUME ~Expired(i) PROVE FALSE
      OBVIOUS
    <3>1. table'[i] = [table[i] EXCEPT !.ctime = @ + 1, !.state = AgedState(@)]
      BY <2>1 DEF Aged, Stable
    <3> QED
      BY <2>1, <3>1 DEF AgedState, Entries, Stable
  <2>3. over = ARP_MAXAGE - 1 - REREQUEST_UNICAST /\ over >= 0
    BY <2>1, <2>2, ArpAssumption DEF Expired, Entries, Stable
  <2>4. use.asks \in 0 .. ASKS /\ ASKS \in Nat
    BY AsksNat DEF IInv, TypeOK, EntriesInv, Uses, Stable
  <2>5. AskedSoFar(table[i], use)
    BY DEF UseInv
  <2> HIDE DEF use
  <2>6. AskedEnough(use, over + 1) \/ AskedEnough(use, over + 2)
    BY <2>1, <2>3, <2>5, ArpAssumption DEF AskedSoFar, Stable, use
  <2>7. 2 * use.asks >= over + 1 \/ use.asks = ASKS
    BY <2>3, <2>4, <2>6, ArpAssumption DEF AskedEnough
  <2>8. 2 * use.asks >= ARP_MAXAGE - REREQUEST_UNICAST => use.asks >= ASKS
    BY <2>4, ArpAssumption DEF ASKS
  <2> QED
    BY <2>3, <2>4, <2>7, <2>8, ArpAssumption DEF use
<1>2. [][Asks]_vars => UsedAddressIsAskedFor
  BY PTL DEF UsedAddressIsAskedFor
<1> QED
  BY <1>1, <1>2, UseInvariance, PTL

-----------------------------------------------------------------------------
(* Service discovery.                                                        *)

\* What the relay has repeated carries the address of its host.
RelayedFromPi == \A d \in net : d.relayed => d.src = PI

SdInv == SdTypeOK /\ RelayedFromPi /\ NothingRelayedTwice

LEMMA ZeroTimes == 0 \in 0 .. PERIOD + 1 /\ 0 \in 0 .. TTL
  BY PositiveTimes

LEMMA InitSdInv == SdInit => SdInv
  BY ZeroTimes, Zenon DEF SdInit, SdInv, SdTypeOK, RelayedFromPi, NothingRelayedTwice

\* What is sent is a datagram, and no one else's counts as repeated.
LEMMA SentTypes ==
    /\ \A src \in Addresses, kind \in Kinds, relayed \in BOOLEAN :
           Broadcast(src, kind, relayed) \subseteq Datagrams
    /\ \A kind \in Kinds, relayed \in BOOLEAN :
           \A d \in Broadcast(PI, kind, relayed) : d.src = PI
    /\ \A src \in Addresses, kind \in Kinds :
           \A d \in Broadcast(src, kind, FALSE) : ~d.relayed
    /\ \A host \in Addresses, kind \in Kinds :
           Unicast(host, kind) \subseteq Datagrams /\ \A d \in Unicast(host, kind) : ~d.relayed
    /\ \A kind \in Kinds :
           Multicast(kind) \subseteq Datagrams /\ \A d \in Multicast(kind) : ~d.relayed
  BY DEF Broadcast, BroadcastReceivers, Unicast, Multicast, Datagrams, Sockets, Addresses, Kinds,
         BOARD, PI

LEMMA PeriodicOfferSdInv ==
    ASSUME SdInv, NEW sent \in BOOLEAN, PeriodicOffer(sent) PROVE SdInv'
<1>1. net' \subseteq Datagrams /\ RelayedFromPi'
  BY SentTypes
  DEF SdInv, SdTypeOK, RelayedFromPi, PeriodicOffer, Send, Addresses, Kinds
<1> QED
  BY <1>1, ZeroTimes, Zenon DEF SdInv, SdTypeOK, NothingRelayedTwice, PeriodicOffer

LEMMA CallbackSdInv ==
    ASSUME SdInv, NEW d \in net, NEW sent \in BOOLEAN, SOMEIPSD_Recv_Callback(d, sent)
    PROVE  SdInv'
<1>1. d.src \in Addresses
  BY DEF SdInv, SdTypeOK, Datagrams
<1>2. \A kind \in Answers(d.kind) : kind \in Kinds
  BY DEF Answers, Kinds
<1> DEFINE answers == UNION {Unicast(d.src, kind) : kind \in Answers(d.kind)}
<1>3. answers \subseteq Datagrams /\ \A a \in answers : ~a.relayed
  BY <1>1, <1>2, SentTypes
<1>4. net' \subseteq net \cup answers
  BY DEF SOMEIPSD_Recv_Callback, Send
<1>5. net' \subseteq Datagrams /\ RelayedFromPi'
  BY <1>3, <1>4 DEF SdInv, SdTypeOK, RelayedFromPi
<1> QED
  BY <1>5 DEF SdInv, SdTypeOK, NothingRelayedTwice, SOMEIPSD_Recv_Callback

\* The relay drops what has its own address as the source, hence all that it
\* has repeated.
LEMMA RelaySdInv == ASSUME SdInv, NEW d \in net, Relay(d) PROVE SdInv'
<1>1. d.kind \in Kinds /\ d.relayed \in BOOLEAN
  BY DEF SdInv, SdTypeOK, Datagrams
<1>2. net' \subseteq net \cup Broadcast(PI, d.kind, TRUE)
  BY DEF Relay
<1>3. net' \subseteq Datagrams /\ RelayedFromPi'
  BY <1>1, <1>2, SentTypes DEF SdInv, SdTypeOK, RelayedFromPi, Addresses
<1>4. looped' \in BOOLEAN
  BY <1>1 DEF SdInv, SdTypeOK, Relay
<1>5. NothingRelayedTwice'
  <2> SUFFICES ASSUME LOCAL_IP = PI PROVE ~looped'
    BY DEF Relay, NothingRelayedTwice
  <2>1. d.src # LOCAL_IP => ~d.relayed
    BY DEF SdInv, RelayedFromPi
  <2> QED
    BY <2>1 DEF SdInv, NothingRelayedTwice, Relay
<1> QED
  BY <1>3, <1>4, <1>5 DEF SdInv, SdTypeOK, Relay

LEMMA RestSdInv ==
    ASSUME SdInv,
           \/ \E d \in net : Learn(d)
           \/ \E kind \in {"Find", "Subscribe"} : AskServices(kind)
           \/ PowerOff \/ PowerOn \/ Lose \/ Tick
    PROVE  SdInv'
<1> USE PositiveTimes DEF SdInv, SdTypeOK, RelayedFromPi, NothingRelayedTwice
<1>1. ASSUME NEW d \in net, Learn(d) PROVE SdInv'
  BY <1>1 DEF Learn, OfferTtl
<1>2. ASSUME NEW kind \in {"Find", "Subscribe"}, AskServices(kind) PROVE SdInv'
  BY <1>2, SentTypes DEF AskServices, Kinds
<1>3. CASE PowerOff
  BY <1>3 DEF PowerOff
<1>4. CASE PowerOn
  BY <1>4 DEF PowerOn
<1>5. CASE Lose
  BY <1>5 DEF Lose
<1>6. CASE Tick
  BY <1>6 DEF Tick, FOREVER
<1> QED
  BY <1>1, <1>2, <1>3, <1>4, <1>5, <1>6

LEMMA SdInvariance == SdSpec => []SdInv
<1>1. SdInv /\ [SdNext]_sdVars => SdInv'
  <2>1. SdInv /\ UNCHANGED sdVars => SdInv'
    BY DEF SdInv, SdTypeOK, RelayedFromPi, NothingRelayedTwice, sdVars
  <2> QED
    BY <2>1, PeriodicOfferSdInv, CallbackSdInv, RelaySdInv, RestSdInv DEF SdNext
<1> QED
  BY <1>1, InitSdInv, PTL DEF SdSpec

\* Only datagrams are on their way, and no time runs beyond its bound.
THEOREM SdTypeCorrect == SdSpec => []SdTypeOK
  BY SdInvariance, PTL DEF SdInv

\* A relay that knows its own address repeats nothing twice, however datagrams
\* are lost or overtake each other.
THEOREM RelayDoesNotLoop == SdSpec => []NothingRelayedTwice
  BY SdInvariance, PTL DEF SdInv

=============================================================================
