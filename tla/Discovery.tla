------------------------------ MODULE Discovery ------------------------------
(* How the Raspberry Pi learns of the board: the offers of someipsd.c and of  *)
(* the main loop, and the relay mcast_to_bcast.py.  The board joins no        *)
(* multicast group, so the relay repeats to everybody what the Pi multicasts. *)
(* What vsomeip and the sockets of the Pi do is external.                     *)
EXTENDS Naturals

CONSTANTS PERIOD,   \* Time between offers (10 s).
          TTL       \* How long an offer counts (10 s).
ASSUME PositiveTimes == PERIOD \in Nat \ {0} /\ TTL \in Nat \ {0}

VARIABLES on,       \* Is the board powered?
          since,    \* Time since pre_t, counted until an offer is due.
          left,     \* How long the client still counts the services available.
          net,      \* Datagrams on their way, one per receiver.
          LOCAL_IP, \* What the relay takes for its own address.
          looped    \* History: the relay has repeated what it had sent itself.
sdVars == <<on, since, left, net, LOCAL_IP, looped>>

BOARD == "192.168.2.20"
PI == "192.168.2.30"
UNUSED == "192.168.2.31"  \* What the relay is configured with; no host has it.
Addresses == {BOARD, PI}
Sockets == {"board", "relay", "client"}
Kinds == {"Find", "Offer", "Subscribe", "Ack"}
Datagrams == [to: Sockets, src: Addresses, kind: Kinds, relayed: BOOLEAN]

SdTypeOK == /\ on \in BOOLEAN
            /\ since \in 0 .. PERIOD + 1
            /\ left \in 0 .. TTL
            /\ net \subseteq Datagrams
            /\ LOCAL_IP \in {PI, UNUSED}
            /\ looped \in BOOLEAN

SdInit == /\ on = TRUE
          /\ since = 0
          /\ left = 0
          /\ net = {}
          /\ LOCAL_IP \in {PI, UNUSED}
          /\ looped = FALSE

-----------------------------------------------------------------------------
(* The network.                                                             *)

\* Who gets a broadcast: every socket of the Pi that is open to all, its
\* sender included, and the board unless it sent it.  vsomeip drops what comes
\* from its own address.
BroadcastReceivers(src) == IF src = BOARD THEN {"relay", "client"}
                                          ELSE {"relay", "board"}

Broadcast(src, kind, relayed) ==
    [to: BroadcastReceivers(src), src: {src}, kind: {kind}, relayed: {relayed}]

\* A datagram to one host: the port of the Pi belongs to vsomeip, whose socket
\* has the more specific address.
Unicast(host, kind) ==
    [to: {IF host = PI THEN "client" ELSE "board"}, src: {BOARD}, kind: {kind},
     relayed: {FALSE}]

\* A multicast reaches the sockets that joined the group, hence the relay.
Multicast(kind) == [to: {"relay"}, src: {PI}, kind: {kind}, relayed: {FALSE}]

Lose == /\ \E d \in net: net' = net \ {d}
        /\ UNCHANGED <<on, since, left, LOCAL_IP, looped>>

-----------------------------------------------------------------------------
(* The board.                                                               *)

\* No pbuf, or an error of udp_sendto: nothing is sent, and nobody is told.
Send(sent, datagrams) == IF sent THEN datagrams ELSE {}

\* A plausible slip: waits for the exact moment.
PeriodicOffer_Exactly(sent) ==
    /\ on
    /\ since = PERIOD
    /\ since' = 0
    /\ net' = net \cup Send(sent, Broadcast(BOARD, "Offer", FALSE))
    /\ UNCHANGED <<on, left, LOCAL_IP, looped>>

\* The main loop.  The offer counts as made even when it could not be sent.
PeriodicOffer(sent) ==
    /\ on
    /\ since > PERIOD
    /\ since' = 0
    /\ net' = net \cup Send(sent, Broadcast(BOARD, "Offer", FALSE))
    /\ UNCHANGED <<on, left, LOCAL_IP, looped>>

\* A plausible slip: takes the type of an offer for that of a find.
Answers_WrongType(kind) == IF kind = "Offer" THEN {"Offer"}
                           ELSE IF kind = "Subscribe" THEN {"Ack"} ELSE {}

\* What the board says to the sender of a datagram of this kind.
Answers(kind) == IF kind = "Find" THEN {"Offer"}
                 ELSE IF kind = "Subscribe" THEN {"Ack"} ELSE {}

SOMEIPSD_Recv_Callback(d, sent) ==
    /\ on
    /\ d \in net
    /\ d.to = "board"
    /\ net' = (net \ {d}) \cup
              Send(sent, UNION {Unicast(d.src, kind): kind \in Answers(d.kind)})
    /\ UNCHANGED <<on, since, left, LOCAL_IP, looped>>

PowerOff == /\ on
            /\ on' = FALSE
            /\ UNCHANGED <<since, left, net, LOCAL_IP, looped>>

\* The clock and pre_t both start from zero.
PowerOn == /\ ~on
           /\ on' = TRUE
           /\ since' = 0
           /\ UNCHANGED <<left, net, LOCAL_IP, looped>>

-----------------------------------------------------------------------------
(* The relay, and the client.                                               *)

\* A plausible slip: no protection against its own broadcasts.
Relay_Always(d) ==
    /\ d \in net
    /\ d.to = "relay"
    /\ net' = (net \ {d}) \cup Broadcast(PI, d.kind, TRUE)
    /\ looped' = (looped \/ d.relayed)
    /\ UNCHANGED <<on, since, left, LOCAL_IP>>

\* Repeats what others sent.  (No datagram has the broadcast address as its
\* source, so the second test never applies.)
Relay(d) ==
    /\ d \in net
    /\ d.to = "relay"
    /\ IF d.src = LOCAL_IP
       THEN net' = net \ {d} /\ UNCHANGED looped
       ELSE /\ net' = (net \ {d}) \cup Broadcast(PI, d.kind, TRUE)
            /\ looped' = (looped \/ d.relayed)
    /\ UNCHANGED <<on, since, left, LOCAL_IP>>

\* vsomeip looks for the services, or subscribes to their events, by multicast.
AskServices(kind) == /\ kind = "Find" => left = 0
                     /\ ~(Multicast(kind) \subseteq net)
                     /\ net' = net \cup Multicast(kind)
                     /\ UNCHANGED <<on, since, left, LOCAL_IP, looped>>

\* The value that stands for "until the next reboot".
FOREVER == TTL + 1

\* A plausible slip: never expires.
OfferTtl_Forever == FOREVER

\* How long the entries of an offer say it counts.
OfferTtl == TTL

\* vsomeip learns of the services, or of nothing new.
Learn(d) == /\ d \in net
            /\ d.to = "client"
            /\ net' = net \ {d}
            /\ left' = IF d.kind = "Offer" THEN OfferTtl ELSE left
            /\ UNCHANGED <<on, since, LOCAL_IP, looped>>

\* Time passes for both sides; what counts for ever is not counted down.
Tick == /\ since' = IF since > PERIOD THEN since ELSE since + 1
        /\ left' = IF left \in {0, FOREVER} THEN left ELSE left - 1
        /\ UNCHANGED <<on, net, LOCAL_IP, looped>>

-----------------------------------------------------------------------------
SdNext == \/ \E sent \in BOOLEAN: PeriodicOffer(sent)
          \/ \E d \in net, sent \in BOOLEAN: SOMEIPSD_Recv_Callback(d, sent)
          \/ \E d \in net: Relay(d) \/ Learn(d)
          \/ \E kind \in {"Find", "Subscribe"}: AskServices(kind)
          \/ PowerOff \/ PowerOn \/ Lose \/ Tick

SdSpec == SdInit /\ [][SdNext]_sdVars

RelayFind == \E d \in net: d.kind = "Find" /\ ~d.relayed /\ Relay(d)
AnswerFind == \E d \in net: d.kind = "Find" /\ SOMEIPSD_Recv_Callback(d, TRUE)
LearnOffer == \E d \in net: d.kind = "Offer" /\ Learn(d)

\* Time goes on, the loop comes round, and of what is tried again and again
\* not everything fails or gets lost.
SdFairSpec == /\ SdSpec
              /\ WF_sdVars(Tick)
              /\ WF_sdVars(\E sent \in BOOLEAN: PeriodicOffer(sent))
              /\ SF_sdVars(PeriodicOffer(TRUE))
              /\ SF_sdVars(RelayFind)
              /\ SF_sdVars(AnswerFind)
              /\ SF_sdVars(LearnOffer)

\* The client is on its way to get an answer of its own.
Answered == AnswerFind /\ Unicast(PI, "Offer") \subseteq net'

-----------------------------------------------------------------------------
\* A relay that knows its own address repeats nothing it sent itself, whatever
\* comes back to it, so that no datagram goes round for ever.
NothingRelayedTwice == LOCAL_IP = PI => ~looped

\* A relay that does not take the client on the same host for itself gets its
\* questions through: who keeps asking a board that stays on keeps being
\* answered.
FindsAreAnswered ==
    (LOCAL_IP # PI /\ <>[]on /\ []<><<AskServices("Find")>>_sdVars) => []<><<Answered>>_sdVars

\* A board that stays on is found, and found again, even if nobody asks and
\* whatever failed before.
KnownAgainAndAgain == <>[]on => []<>(left > 0)

\* A board that stays off is forgotten, whatever still goes round.
DeadBoardForgotten == <>[](~on) => <>[](left = 0)
=============================================================================
