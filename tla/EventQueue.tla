----------------------------- MODULE EventQueue -----------------------------
(* Libraries/Utils/Queue: byte_queue.c and eru_event_queue.c, one ring each  *)
(* between an interrupt that pushes and the main loop that pops.             *)
(*                                                                           *)
(* A push runs in the interrupt and is one step.  A pop runs in the main     *)
(* loop with interrupts enabled and no lock, so it is one step per access to *)
(* shared memory, and a push may come between any two.  head and tail are    *)
(* not volatile: a build may keep the head it compared in a register, or     *)
(* load it again for the index and again for the increment.  The variable    *)
(* reload is that choice.  An event of eru_event_queue.c is copied in two    *)
(* words (the level and the time stamp), a byte in one.                      *)
(*                                                                           *)
(* Events are numbered as they are pushed; 0 is what a slot holds before.    *)
EXTENDS Naturals, Sequences

CONSTANTS
    CAPACITY,       \* capacity given to the Init function
    MAX_EVENTS,     \* bound on the events pushed
    WORDS,          \* words of an event: 1 or 2
    RELOADS         \* the builds considered, a subset of BOOLEAN

ASSUME QueueAssumption ==
    /\ CAPACITY \in Nat \ {0}
    /\ MAX_EVENTS \in Nat
    /\ WORDS \in {1, 2}
    /\ RELOADS \subseteq BOOLEAN

VARIABLES
    buffer,     \* buffer
    head,       \* head
    tail,       \* tail
    reload,     \* whether this build loads head again for each use
    pc,         \* where the pop is
    rd,         \* the pop's copy of head
    slot,       \* the element the pop copies
    val,        \* the words copied so far
    sent,       \* history: events pushed
    got,        \* history: events popped
    raced       \* history: a push has overflowed the ring in the middle of a pop

ring == <<buffer, head, tail>>
local == <<pc, rd, slot, val>>
vars == <<ring, local, reload, sent, got, raced>>

Slots == 0 .. CAPACITY - 1
Events == 0 .. MAX_EVENTS

TypeOK ==
    /\ buffer \in [Slots -> Events]
    /\ head \in Slots
    /\ tail \in Slots
    /\ reload \in RELOADS
    /\ pc \in {"idle", "check", "copy", "rest", "load", "store"}
    /\ rd \in Slots
    /\ slot \in Slots
    /\ val \in [1 .. WORDS -> Events]
    /\ sent \in Events
    /\ got \in Seq([1 .. WORDS -> Events])
    /\ raced \in BOOLEAN

-----------------------------------------------------------------------------

After(i) == (i + 1) % CAPACITY

\* ByteQueue_Init, EruEventQueue_Init, and a pop not begun.
Init ==
    /\ buffer = [i \in Slots |-> 0]
    /\ head = 0
    /\ tail = 0
    /\ reload \in RELOADS
    /\ pc = "idle"
    /\ rd = 0
    /\ slot = 0
    /\ val = [w \in 1 .. WORDS |-> 0]
    /\ sent = 0
    /\ got = <<>>
    /\ raced = FALSE

Full == After(tail) = head

\* A plausible slip: tail moves before the element is written.
Push_AfterMove ==
    /\ sent < MAX_EVENTS
    /\ sent' = sent + 1
    /\ tail' = After(tail)
    /\ buffer' = [buffer EXCEPT ![tail'] = sent']
    /\ head' = IF tail' = head THEN After(head) ELSE head
    /\ raced' = (raced \/ (Full /\ pc # "idle"))
    /\ UNCHANGED <<local, reload, got>>

\* ByteQueue_Push, EruEventQueue_Push, in the interrupt.
Push ==
    /\ sent < MAX_EVENTS
    /\ sent' = sent + 1
    /\ buffer' = [buffer EXCEPT ![tail] = sent']
    /\ tail' = After(tail)
    /\ head' = IF tail' = head THEN After(head) ELSE head
    /\ raced' = (raced \/ (Full /\ pc # "idle"))
    /\ UNCHANGED <<local, reload, got>>

\* ByteQueue_Pop, EruEventQueue_Pop: load head for the comparison ...
LoadHead ==
    /\ pc = "idle"
    /\ rd' = head
    /\ pc' = "check"
    /\ UNCHANGED <<ring, slot, val, reload, sent, got, raced>>

\* A plausible slip: the test forgets that tail wraps round.
CompareTail_Below ==
    /\ pc = "check"
    /\ pc' = IF rd >= tail THEN "idle" ELSE "copy"
    /\ UNCHANGED <<ring, rd, slot, val, reload, sent, got, raced>>

\* ... load tail and compare: equal means empty, return false ...
CompareTail ==
    /\ pc = "check"
    /\ pc' = IF rd = tail THEN "idle" ELSE "copy"
    /\ UNCHANGED <<ring, rd, slot, val, reload, sent, got, raced>>

\* ... copy the first word of the element at head ...
CopyFirst ==
    /\ pc = "copy"
    /\ slot' = IF reload THEN head ELSE rd
    /\ val' = [val EXCEPT ![1] = buffer[slot']]
    /\ pc' = IF WORDS = 1 THEN "load" ELSE "rest"
    /\ UNCHANGED <<ring, rd, reload, sent, got, raced>>

\* ... and the second, if it has one ...
CopyRest ==
    /\ pc = "rest"
    /\ val' = [val EXCEPT ![WORDS] = buffer[slot]]
    /\ pc' = "load"
    /\ UNCHANGED <<ring, rd, slot, reload, sent, got, raced>>

\* ... take head for the increment ...
LoadAgain ==
    /\ pc = "load"
    /\ rd' = IF reload THEN head ELSE rd
    /\ pc' = "store"
    /\ UNCHANGED <<ring, slot, val, reload, sent, got, raced>>

\* A plausible slip: head stays where it was.
StoreHead_Stay ==
    /\ pc = "store"
    /\ head' = rd
    /\ got' = Append(got, val)
    /\ pc' = "idle"
    /\ UNCHANGED <<buffer, tail, rd, slot, val, reload, sent, raced>>

\* ... and store it.
StoreHead ==
    /\ pc = "store"
    /\ head' = After(rd)
    /\ got' = Append(got, val)
    /\ pc' = "idle"
    /\ UNCHANGED <<buffer, tail, rd, slot, val, reload, sent, raced>>

Pop == LoadHead \/ CompareTail \/ CopyFirst \/ CopyRest \/ LoadAgain \/ StoreHead

Next == Push \/ Pop

Spec == Init /\ [][Next]_vars

\* The main loop comes round to the queue again and again.
FairSpec == Spec /\ WF_vars(Pop)

-----------------------------------------------------------------------------
(* Properties.                                                               *)

Length == (tail + CAPACITY - head) % CAPACITY

\* The events the ring holds, oldest first.
Contents == [i \in 1 .. Length |-> buffer[(head + i - 1) % CAPACITY]]

\* Only what was pushed is ever handed on, never what an element held before
\* the first push to it, however the pushes fall between the steps of a pop.
OnlyPushedEvents ==
    /\ \A i \in 1 .. Len(got) : \A w \in 1 .. WORDS : got[i][w] \in 1 .. sent
    /\ \A i \in 1 .. Length : Contents[i] \in 1 .. sent

\* byte_queue.c:25 and eru_event_queue.c:25, "delete the oldest item": of the
\* last CAPACITY - 1 events, each is still held or was handed on.
OnlyOldestDropped ==
    \A n \in Events \ {0} :
        n \in (sent + 2 - CAPACITY) .. sent =>
            \/ \E i \in 1 .. Length : Contents[i] = n
            \/ \E i \in 1 .. Len(got) : got[i][1] = n

\* The event whose words these are, 0 if they are of several pushes.
Event(words) == IF \A w \in 1 .. WORDS : words[w] = words[1] THEN words[1] ELSE 0

\* The queue the ring implements.
Fifo == INSTANCE DropOldestFifo WITH
            queue <- Contents,
            got <- [i \in 1 .. Len(got) |-> Event(got[i])]

\* Until a push overflows the ring inside a pop, every step is one of the
\* abstract queue, wherever the pushes fall: events come whole, in order, and
\* only the oldest are dropped.
ImplementsFifo == Fifo!Init /\ [][raced' \/ Fifo!Next]_<<Contents, sent, got>>

\* Once the interrupt stops pushing, the loop empties the ring and it stays
\* empty: no order of pushes and pops leaves head and tail in a state the pop
\* cannot leave.
Drains == <>[](head = tail)

=============================================================================
