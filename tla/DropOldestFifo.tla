--------------------------- MODULE DropOldestFifo ---------------------------
(* What the two event queues promise: a first-in first-out queue that keeps  *)
(* the newest CAPACITY - 1 events and drops the oldest to make room          *)
(* (byte_queue.c:25, "delete the oldest item").  Events are numbered as they *)
(* are put in.                                                               *)
EXTENDS Naturals, Sequences

CONSTANTS
    CAPACITY,       \* slots of the ring, one of which stays empty
    MAX_EVENTS      \* bound on the events put in

VARIABLES
    queue,      \* the events held, oldest first
    sent,       \* how many were put in
    got         \* the events taken out, in order

vars == <<queue, sent, got>>

Newest(s) ==
    IF Len(s) < CAPACITY THEN s ELSE SubSeq(s, Len(s) - CAPACITY + 2, Len(s))

Init ==
    /\ queue = <<>>
    /\ sent = 0
    /\ got = <<>>

Push ==
    /\ sent < MAX_EVENTS
    /\ sent' = sent + 1
    /\ queue' = Newest(Append(queue, sent'))
    /\ UNCHANGED got

Pop ==
    /\ queue # <<>>
    /\ got' = Append(got, Head(queue))
    /\ queue' = Tail(queue)
    /\ UNCHANGED sent

Next == Push \/ Pop

Spec == Init /\ [][Next]_vars

=============================================================================
