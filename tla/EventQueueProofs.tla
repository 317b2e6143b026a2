-------------------------- MODULE EventQueueProofs --------------------------
(* Theorems about EventQueue, for a ring of any capacity and any number of    *)
(* events, of one word or of two, in builds that load head once or again.     *)
EXTENDS EventQueue, Integers, SequenceTheorems, TLAPS

-----------------------------------------------------------------------------
(* The ring as a sequence: what b holds from h up to t.                      *)

Count(h, t) == (t + CAPACITY - h) % CAPACITY
Held(b, h, t) == [i \in 1 .. Count(h, t) |-> b[(h + i - 1) % CAPACITY]]

\* So many places after h, around the end.
Place(h, k) == IF h + k < CAPACITY THEN h + k ELSE h + k - CAPACITY

LEMMA Around ==
    \A n \in Nat : n < CAPACITY + CAPACITY
        => n % CAPACITY = IF n < CAPACITY THEN n ELSE n - CAPACITY
<1> SUFFICES ASSUME NEW n \in Nat, n < CAPACITY + CAPACITY
             PROVE  n % CAPACITY = IF n < CAPACITY THEN n ELSE n - CAPACITY
  OBVIOUS
<1>1. CAPACITY \in Nat /\ CAPACITY > 0
  BY QueueAssumption
<1> QED
  BY <1>1, SMTT(30)

LEMMA AfterSlot ==
    ASSUME NEW i \in Slots
    PROVE  After(i) = (IF i = CAPACITY - 1 THEN 0 ELSE i + 1) /\ After(i) \in Slots
  BY Around, QueueAssumption DEF After, Slots

LEMMA CountIs ==
    ASSUME NEW h \in Slots, NEW t \in Slots
    PROVE  /\ Count(h, t) = IF h <= t THEN t - h ELSE t - h + CAPACITY
           /\ Count(h, t) \in 0 .. CAPACITY - 1
<1>1. /\ t + CAPACITY - h \in Nat /\ t + CAPACITY - h < CAPACITY + CAPACITY
      /\ h \in Nat /\ t \in Nat /\ CAPACITY \in Nat /\ h < CAPACITY /\ t < CAPACITY
  BY QueueAssumption DEF Slots
<1>2. Count(h, t) = IF t + CAPACITY - h < CAPACITY THEN t + CAPACITY - h
                    ELSE t + CAPACITY - h - CAPACITY
  BY <1>1, Around DEF Count
<1> QED
  BY <1>1, <1>2

LEMMA PlaceIs ==
    ASSUME NEW h \in Slots, NEW i \in 1 .. CAPACITY
    PROVE  (h + i - 1) % CAPACITY = Place(h, i - 1) /\ Place(h, i - 1) \in Slots
<1>1. /\ h + i - 1 \in Nat /\ h + i - 1 < CAPACITY + CAPACITY
      /\ h \in Nat /\ i \in Nat /\ CAPACITY \in Nat /\ h < CAPACITY /\ i >= 1 /\ i <= CAPACITY
  BY QueueAssumption DEF Slots
<1> QED
  BY <1>1, Around DEF Place, Slots

LEMMA HeldIs ==
    ASSUME NEW b \in [Slots -> Events], NEW h \in Slots, NEW t \in Slots
    PROVE  /\ Held(b, h, t) \in Seq(Events)
           /\ Len(Held(b, h, t)) = Count(h, t)
           /\ \A i \in 1 .. Count(h, t) : Held(b, h, t)[i] = b[Place(h, i - 1)]
<1>1. Count(h, t) \in Nat /\ 1 .. Count(h, t) \subseteq 1 .. CAPACITY
  BY CountIs, QueueAssumption
<1>2. \A i \in 1 .. Count(h, t) :
          (h + i - 1) % CAPACITY = Place(h, i - 1) /\ Place(h, i - 1) \in Slots
  BY <1>1, PlaceIs
<1>3. Held(b, h, t) \in [1 .. Count(h, t) -> Events]
  BY <1>2 DEF Held
<1>4. Held(b, h, t) \in Seq(Events)
  BY <1>1, <1>3, SeqDef
<1> QED
  BY <1>1, <1>2, <1>3, <1>4 DEF Held

\* A push that finds room (byte_queue.c:20).
LEMMA HeldPush ==
    ASSUME NEW b \in [Slots -> Events], NEW h \in Slots, NEW t \in Slots, NEW n \in Events,
           After(t) # h
    PROVE  /\ Held([b EXCEPT ![t] = n], h, After(t)) = Append(Held(b, h, t), n)
           /\ Count(h, t) + 1 < CAPACITY
<1> DEFINE c == [b EXCEPT ![t] = n]
           s == Held(c, h, After(t))
           u == Append(Held(b, h, t), n)
<1>1. CAPACITY \in Nat \ {0} /\ h \in 0 .. CAPACITY - 1 /\ t \in 0 .. CAPACITY - 1
  BY QueueAssumption DEF Slots
<1>2. After(t) \in Slots /\ After(t) = IF t = CAPACITY - 1 THEN 0 ELSE t + 1
  BY AfterSlot
<1>3. /\ Count(h, t) \in Nat
      /\ Count(h, t) + 1 < CAPACITY
      /\ Count(h, After(t)) = Count(h, t) + 1
      /\ Place(h, Count(h, t)) = t
      /\ \A k \in 0 .. Count(h, t) - 1 : Place(h, k) \in Slots /\ Place(h, k) # t
  <2>1. /\ Count(h, t) = IF h <= t THEN t - h ELSE t - h + CAPACITY
        /\ Count(h, After(t)) = IF h <= After(t) THEN After(t) - h
                                                ELSE After(t) - h + CAPACITY
    BY <1>2, CountIs
  <2>2. /\ Count(h, t) \in Nat /\ Count(h, t) + 1 < CAPACITY
        /\ Count(h, After(t)) = Count(h, t) + 1
    BY <1>1, <1>2, <2>1
  <2> QED
    BY <1>1, <2>1, <2>2 DEF Place, Slots
<1>4. /\ c \in [Slots -> Events] /\ c[t] = n
      /\ \A k \in 0 .. Count(h, t) - 1 : c[Place(h, k)] = b[Place(h, k)]
  BY <1>3
<1> HIDE DEF c
<1>5. /\ s \in Seq(Events) /\ Len(s) = Count(h, t) + 1
      /\ \A i \in 1 .. Count(h, t) + 1 : s[i] = c[Place(h, i - 1)]
  <2>1. /\ Held(c, h, After(t)) \in Seq(Events)
        /\ Len(Held(c, h, After(t))) = Count(h, After(t))
        /\ \A i \in 1 .. Count(h, After(t)) :
               Held(c, h, After(t))[i] = c[Place(h, i - 1)]
    BY <1>2, <1>4, HeldIs
  <2> QED
    BY <1>3, <2>1
<1>6. /\ u \in Seq(Events) /\ Len(u) = Count(h, t) + 1
      /\ \A i \in 1 .. Count(h, t) : u[i] = b[Place(h, i - 1)]
      /\ u[Count(h, t) + 1] = n
  BY HeldIs, AppendProperties
<1> HIDE DEF s, u
<1>7. ASSUME NEW i \in 1 .. Count(h, t) + 1 PROVE s[i] = u[i]
  <2>1. CASE i = Count(h, t) + 1
    <3>1. i - 1 = Count(h, t)
      BY <1>3, <2>1
    <3> QED
      BY <1>3, <1>4, <1>5, <1>6, <2>1, <3>1
  <2>2. CASE i # Count(h, t) + 1
    <3>1. i \in 1 .. Count(h, t) /\ i - 1 \in 0 .. Count(h, t) - 1
      BY <1>3, <2>2
    <3> QED
      BY <1>4, <1>5, <1>6, <3>1
  <2> QED
    BY <2>1, <2>2
<1>8. s = u
  BY <1>5, <1>6, <1>7, SeqEqual
<1> QED
  BY <1>3, <1>8 DEF s, u, c

\* A push that overflows gives up the oldest (byte_queue.c:23).
LEMMA HeldPushFull ==
    ASSUME NEW b \in [Slots -> Events], NEW h \in Slots, NEW t \in Slots, NEW n \in Events,
           After(t) = h
    PROVE  /\ Held([b EXCEPT ![t] = n], After(h), After(t))
                  = SubSeq(Append(Held(b, h, t), n), 2, CAPACITY)
           /\ Len(Append(Held(b, h, t), n)) = CAPACITY
<1> DEFINE c == [b EXCEPT ![t] = n]
           s == Held(c, After(h), After(t))
           u == Append(Held(b, h, t), n)
           v == SubSeq(u, 2, CAPACITY)
<1>1. CAPACITY \in Nat \ {0} /\ h \in 0 .. CAPACITY - 1 /\ t \in 0 .. CAPACITY - 1
  BY QueueAssumption DEF Slots
<1>2. /\ After(t) \in Slots /\ After(t) = IF t = CAPACITY - 1 THEN 0 ELSE t + 1
      /\ After(h) \in Slots /\ After(h) = IF h = CAPACITY - 1 THEN 0 ELSE h + 1
  BY AfterSlot
<1>3. /\ Count(h, t) = CAPACITY - 1
      /\ Count(After(h), After(t)) = CAPACITY - 1
      /\ Place(h, CAPACITY - 1) = t
      /\ \A k \in 0 .. CAPACITY - 2 : /\ Place(After(h), k) = Place(h, k + 1)
                                      /\ Place(h, k) \in Slots /\ Place(h, k) # t
  <2>1. /\ Count(h, t) = IF h <= t THEN t - h ELSE t - h + CAPACITY
        /\ Count(After(h), After(t)) = IF After(h) <= After(t) THEN After(t) - After(h)
                                       ELSE After(t) - After(h) + CAPACITY
    BY <1>2, CountIs
  <2>2. Count(h, t) = CAPACITY - 1 /\ Count(After(h), After(t)) = CAPACITY - 1
    BY <1>1, <1>2, <2>1
  <2> QED
    BY <1>1, <1>2, <2>2 DEF Place, Slots
<1>4. /\ c \in [Slots -> Events] /\ c[t] = n
      /\ \A k \in 0 .. CAPACITY - 2 : c[Place(h, k)] = b[Place(h, k)]
  BY <1>3
<1> HIDE DEF c
<1>5. /\ s \in Seq(Events) /\ Len(s) = CAPACITY - 1
      /\ \A i \in 1 .. CAPACITY - 1 : s[i] = c[Place(After(h), i - 1)]
  <2>1. /\ Held(c, After(h), After(t)) \in Seq(Events)
        /\ Len(Held(c, After(h), After(t))) = Count(After(h), After(t))
        /\ \A i \in 1 .. Count(After(h), After(t)) :
               Held(c, After(h), After(t))[i] = c[Place(After(h), i - 1)]
    BY <1>2, <1>4, HeldIs
  <2> QED
    BY <1>3, <2>1
<1>6. /\ u \in Seq(Events) /\ Len(u) = CAPACITY
      /\ \A i \in 1 .. CAPACITY - 1 : u[i] = b[Place(h, i - 1)]
      /\ u[CAPACITY] = n
  <2>1. /\ Held(b, h, t) \in Seq(Events) /\ Len(Held(b, h, t)) = CAPACITY - 1
        /\ \A i \in 1 .. CAPACITY - 1 : Held(b, h, t)[i] = b[Place(h, i - 1)]
    BY <1>3, HeldIs
  <2>2. CAPACITY - 1 + 1 = CAPACITY
    BY <1>1
  <2> QED
    BY <2>1, <2>2, AppendProperties
<1> HIDE DEF s, u
<1>7. /\ v \in Seq(Events) /\ Len(v) = CAPACITY - 1
      /\ \A i \in 1 .. CAPACITY - 1 : v[i] = u[i + 1]
  <2>1. \A i \in 2 .. CAPACITY : u[i] \in Events
    BY <1>1, <1>6, ElementOfSeq
  <2>2. /\ SubSeq(u, 2, CAPACITY) \in Seq(Events)
        /\ Len(SubSeq(u, 2, CAPACITY)) = IF 2 <= CAPACITY THEN CAPACITY - 2 + 1 ELSE 0
        /\ \A i \in 1 .. CAPACITY - 2 + 1 : SubSeq(u, 2, CAPACITY)[i] = u[2 + i - 1]
    BY <1>1, <2>1, SubSeqProperties
  <2>3. \A i \in 1 .. CAPACITY - 1 : i \in 1 .. CAPACITY - 2 + 1 /\ 2 + i - 1 = i + 1
    BY <1>1
  <2> QED
    BY <1>1, <2>2, <2>3
<1> HIDE DEF v
<1>8. ASSUME NEW i \in 1 .. CAPACITY - 1 PROVE s[i] = v[i]
  <2>1. /\ i - 1 \in 0 .. CAPACITY - 2 /\ i - 1 + 1 = i /\ i + 1 - 1 = i
        /\ s[i] = c[Place(h, i)]
    BY <1>1, <1>3, <1>5
  <2>2. CASE i = CAPACITY - 1
    <3>1. i + 1 = CAPACITY
      BY <1>1, <2>2
    <3> QED
      BY <1>3, <1>4, <1>6, <1>7, <2>1, <2>2, <3>1
  <2>3. CASE i # CAPACITY - 1
    <3>1. i \in 0 .. CAPACITY - 2 /\ i + 1 \in 1 .. CAPACITY - 1
      BY <1>1, <2>3
    <3> QED
      BY <1>4, <1>6, <1>7, <2>1, <3>1
  <2> QED
    BY <2>2, <2>3
<1>9. s = v
  BY <1>5, <1>7, <1>8, SeqEqual
<1> QED
  BY <1>6, <1>9 DEF s, u, v, c

\* A pop takes the oldest (byte_queue.c:36).
LEMMA HeldPop ==
    ASSUME NEW b \in [Slots -> Events], NEW h \in Slots, NEW t \in Slots, h # t
    PROVE  /\ Held(b, h, t) # <<>>
           /\ Head(Held(b, h, t)) = b[h]
           /\ Held(b, After(h), t) = Tail(Held(b, h, t))
<1> DEFINE s == Held(b, h, t)
           u == Held(b, After(h), t)
<1>1. CAPACITY \in Nat \ {0} /\ h \in 0 .. CAPACITY - 1 /\ t \in 0 .. CAPACITY - 1
  BY QueueAssumption DEF Slots
<1>2. After(h) \in Slots /\ After(h) = IF h = CAPACITY - 1 THEN 0 ELSE h + 1
  BY AfterSlot
<1>3. /\ Count(h, t) \in Nat /\ Count(h, t) > 0
      /\ Count(After(h), t) = Count(h, t) - 1
      /\ Place(h, 0) = h
      /\ \A k \in 0 .. Count(h, t) - 2 : Place(After(h), k) = Place(h, k + 1)
  <2>1. /\ Count(h, t) = IF h <= t THEN t - h ELSE t - h + CAPACITY
        /\ Count(After(h), t) = IF After(h) <= t THEN t - After(h) ELSE t - After(h) + CAPACITY
    BY <1>2, CountIs
  <2>2. /\ Count(h, t) \in Nat /\ Count(h, t) > 0
        /\ Count(After(h), t) = Count(h, t) - 1
    BY <1>1, <1>2, <2>1
  <2> QED
    BY <1>1, <1>2, <2>1, <2>2 DEF Place
<1>4. /\ s \in Seq(Events) /\ Len(s) = Count(h, t)
      /\ \A i \in 1 .. Count(h, t) : s[i] = b[Place(h, i - 1)]
  BY HeldIs
<1>5. /\ u \in Seq(Events) /\ Len(u) = Count(h, t) - 1
      /\ \A i \in 1 .. Count(h, t) - 1 : u[i] = b[Place(After(h), i - 1)]
  BY <1>2, <1>3, HeldIs
<1> HIDE DEF s, u
<1>6. s # <<>> /\ Head(s) = b[h]
  <2>1. s # <<>> /\ 1 \in 1 .. Count(h, t)
    BY <1>3, <1>4, EmptySeq
  <2> QED
    BY <1>3, <1>4, <2>1
<1>7. /\ Tail(s) \in Seq(Events) /\ Len(Tail(s)) = Count(h, t) - 1
      /\ \A i \in 1 .. Count(h, t) - 1 : Tail(s)[i] = s[i + 1]
  BY <1>4, <1>6, HeadTailProperties
<1>8. ASSUME NEW i \in 1 .. Count(h, t) - 1 PROVE u[i] = Tail(s)[i]
  <2>1. /\ i - 1 \in 0 .. Count(h, t) - 2 /\ i + 1 \in 1 .. Count(h, t)
        /\ i - 1 + 1 = i /\ i + 1 - 1 = i
    BY <1>3
  <2> QED
    BY <1>3, <1>4, <1>5, <1>7, <2>1
<1>9. u = Tail(s)
  BY <1>5, <1>7, <1>8, SeqEqual
<1> QED
  BY <1>6, <1>9 DEF s, u

-----------------------------------------------------------------------------
(* The invariant.                                                            *)

\* Until a push has overflowed the ring inside a pop, the pop is at the oldest
\* element, and has copied it as it is.
PopInv ==
    ~raced => /\ pc # "idle" => rd = head
              /\ pc \notin {"idle", "check"} => head # tail
              /\ pc \in {"rest", "load", "store"} => slot = head /\ val[1] = buffer[head]
              /\ pc \in {"load", "store"} => val[WORDS] = buffer[head]

AllWritten == \A i \in Slots : buffer[i] \in 1 .. sent

\* Before the ring has come round for the first time.
Young == ~raced /\ tail = sent /\ head <= tail /\ \A i \in 0 .. tail - 1 : buffer[i] \in 1 .. sent

\* What has been copied was pushed.
CopiedInv ==
    /\ pc \in {"rest", "load", "store"} => val[1] \in 1 .. sent
    /\ pc \in {"load", "store"} => val[WORDS] \in 1 .. sent
    /\ \A i \in 1 .. Len(got) : \A w \in 1 .. WORDS : got[i][w] \in 1 .. sent

IInv == TypeOK /\ PopInv /\ (AllWritten \/ Young) /\ CopiedInv

LEMMA InitIInv == Init => IInv
<1> SUFFICES ASSUME Init PROVE IInv
  OBVIOUS
<1>1. CAPACITY \in Nat \ {0} /\ 0 \in Slots /\ 0 \in Events /\ WORDS \in {1, 2}
  BY QueueAssumption DEF Slots, Events
<1>2. got \in Seq([1 .. WORDS -> Events]) /\ Len(got) = 0
  BY EmptySeq DEF Init
<1>3. TypeOK
  BY <1>1, <1>2 DEF Init, TypeOK
<1>4. Young
  BY <1>1 DEF Init, Young
<1> QED
  BY <1>2, <1>3, <1>4 DEF Init, IInv, PopInv, CopiedInv

LEMMA PushIInv == IInv /\ Push => IInv'
<1> SUFFICES ASSUME IInv, Push PROVE IInv'
  OBVIOUS
<1>1. /\ CAPACITY \in Nat \ {0} /\ WORDS \in {1, 2} /\ MAX_EVENTS \in Nat
      /\ head \in Slots /\ tail \in Slots /\ sent \in Nat /\ buffer \in [Slots -> Events]
  BY QueueAssumption DEF IInv, TypeOK, Events
<1>2. /\ sent < MAX_EVENTS /\ sent' = sent + 1 /\ sent' \in Events
      /\ buffer' = [buffer EXCEPT ![tail] = sent'] /\ tail' = After(tail)
      /\ raced' = (raced \/ (Full /\ pc # "idle"))
      /\ UNCHANGED <<pc, rd, slot, val, reload, got>>
  BY <1>1 DEF Push, local, Events
<1>3. /\ tail' \in Slots /\ tail' = IF tail = CAPACITY - 1 THEN 0 ELSE tail + 1
      /\ After(head) \in Slots
  BY <1>1, <1>2, AfterSlot
<1>4. head' = IF Full THEN After(head) ELSE head
  BY <1>2 DEF Push, Full
<1>5. TypeOK'
  <2>1. head' \in Slots /\ raced' \in BOOLEAN
    BY <1>1, <1>2, <1>3, <1>4 DEF IInv, TypeOK
  <2>2. buffer' \in [Slots -> Events]
    BY <1>1, <1>2
  <2> QED
    BY <1>2, <1>3, <2>1, <2>2 DEF IInv, TypeOK
<1>6. PopInv'
  <2> SUFFICES ASSUME ~raced'
               PROVE  /\ pc # "idle" => rd = head'
                      /\ pc \notin {"idle", "check"} => head' # tail'
                      /\ pc \in {"rest", "load", "store"} => slot = head' /\ val[1] = buffer'[head']
                      /\ pc \in {"load", "store"} => val[WORDS] = buffer'[head']
    BY <1>2 DEF PopInv
  <2>1. ~raced /\ (~Full \/ pc = "idle")
    BY <1>2
  <2>2. CASE pc = "idle"
    BY <2>2
  <2>3. CASE ~Full
    <3>1. head' = head /\ head # tail'
      BY <1>2, <1>4, <2>3 DEF Full
    <3>2. head # tail => buffer'[head] = buffer[head]
      BY <1>1, <1>2
    <3> QED
      BY <2>1, <3>1, <3>2 DEF IInv, PopInv
  <2> QED
    BY <2>1, <2>2, <2>3
<1>7. \A i \in Slots : buffer'[i] = IF i = tail THEN sent' ELSE buffer[i]
  BY <1>1, <1>2
<1>8. sent' \in 1 .. sent' /\ 1 .. sent \subseteq 1 .. sent'
  BY <1>1, <1>2
<1>9. AllWritten' \/ Young'
  <2>1. CASE AllWritten
    BY <1>7, <1>8, <2>1 DEF AllWritten
  <2>2. CASE Young
    <3>1. tail = sent /\ head <= tail /\ \A i \in 0 .. tail - 1 : buffer[i] \in 1 .. sent
      BY <2>2 DEF Young
    <3>2. \A i \in 0 .. tail : buffer'[i] \in 1 .. sent'
      <4> SUFFICES ASSUME NEW i \in 0 .. tail PROVE buffer'[i] \in 1 .. sent'
        OBVIOUS
      <4>1. i \in Slots
        BY <1>1 DEF Slots
      <4>2. CASE i = tail
        BY <1>7, <1>8, <4>1, <4>2
      <4>3. CASE i # tail
        <5>1. i \in 0 .. tail - 1
          BY <1>1, <4>3 DEF Slots
        <5> QED
          BY <1>7, <1>8, <3>1, <4>1, <4>3, <5>1
      <4> QED
        BY <4>2, <4>3
    <3>3. CASE tail = CAPACITY - 1
      <4>1. Slots = 0 .. tail
        BY <3>3 DEF Slots
      <4> QED
        BY <3>2, <4>1 DEF AllWritten
    <3>4. CASE tail # CAPACITY - 1
      <4>1. tail' = tail + 1 /\ tail' # head /\ tail' - 1 = tail
        BY <1>1, <1>3, <3>1, <3>4 DEF Slots
      <4>2. ~Full
        BY <1>2, <4>1 DEF Full
      <4>3. ~raced' /\ head' = head
        BY <1>2, <1>4, <2>2, <4>2 DEF Young
      <4>4. tail' = sent' /\ head' <= tail'
        BY <1>1, <1>2, <3>1, <4>1, <4>3 DEF Slots
      <4> QED
        BY <3>2, <4>1, <4>3, <4>4 DEF Young
    <3> QED
      BY <3>3, <3>4
  <2> QED
    BY <2>1, <2>2 DEF IInv
<1>10. CopiedInv'
  BY <1>2, <1>8 DEF IInv, CopiedInv
<1> QED
  BY <1>5, <1>6, <1>9, <1>10 DEF IInv

\* Wherever head is, the element the pop goes to has been written, unless the
\* ring is empty.
LEMMA CopyWritten ==
    ASSUME IInv, pc = "copy", NEW i \in Slots, i \in {rd, head}
    PROVE  buffer[i] \in 1 .. sent
<1>1. CASE AllWritten
  BY <1>1 DEF AllWritten
<1>2. CASE Young
  <2>1. i = head /\ head # tail /\ head <= tail
    BY <1>2 DEF Young, IInv, PopInv
  <2>2. i \in 0 .. tail - 1
    BY <2>1, QueueAssumption DEF IInv, TypeOK, Slots
  <2> QED
    BY <1>2, <2>2 DEF Young
<1> QED
  BY <1>1, <1>2 DEF IInv

\* The steps of the pop that only read.
LEMMA ReadIInv ==
    ASSUME IInv, LoadHead \/ CompareTail \/ CopyFirst \/ CopyRest \/ LoadAgain
    PROVE  IInv'
<1>1. /\ CAPACITY \in Nat \ {0} /\ WORDS \in {1, 2}
      /\ head \in Slots /\ tail \in Slots /\ rd \in Slots /\ slot \in Slots
      /\ buffer \in [Slots -> Events] /\ val \in [1 .. WORDS -> Events]
  BY QueueAssumption DEF IInv, TypeOK
<1>2. UNCHANGED <<buffer, head, tail, reload, sent, got, raced>>
  BY DEF LoadHead, CompareTail, CopyFirst, CopyRest, LoadAgain, ring
<1>3. AllWritten' \/ Young'
  BY <1>2 DEF IInv, AllWritten, Young
<1>4. CASE LoadHead \/ CompareTail
  <2>1. rd' \in Slots /\ UNCHANGED <<slot, val>> /\ pc' \in {"idle", "check", "copy"}
    BY <1>1, <1>4 DEF LoadHead, CompareTail
  <2>2. TypeOK'
    BY <1>2, <2>1 DEF IInv, TypeOK
  <2>3. PopInv'
    BY <1>2, <1>4 DEF IInv, PopInv, LoadHead, CompareTail
  <2>4. CopiedInv'
    BY <1>2, <2>1 DEF IInv, CopiedInv
  <2> QED
    BY <1>3, <2>2, <2>3, <2>4 DEF IInv
<1>5. CASE CopyFirst
  <2>1. /\ pc = "copy" /\ rd' = rd
        /\ slot' = IF reload THEN head ELSE rd
        /\ val' = [val EXCEPT ![1] = buffer[slot']]
        /\ pc' = IF WORDS = 1 THEN "load" ELSE "rest"
    BY <1>5 DEF CopyFirst
  <2>2. slot' \in Slots /\ buffer[slot'] \in 1 .. sent /\ buffer[slot'] \in Events
    BY <1>1, <2>1, CopyWritten
  <2>3. /\ val' \in [1 .. WORDS -> Events] /\ val'[1] = buffer[slot']
        /\ WORDS = 1 => val'[WORDS] = buffer[slot']
    BY <1>1, <2>1, <2>2
  <2>4. TypeOK'
    BY <1>2, <2>1, <2>2, <2>3 DEF IInv, TypeOK
  <2>5. PopInv'
    BY <1>2, <2>1, <2>3 DEF IInv, PopInv
  <2>6. CopiedInv'
    BY <1>2, <2>1, <2>2, <2>3 DEF IInv, CopiedInv
  <2> QED
    BY <1>3, <2>4, <2>5, <2>6 DEF IInv
<1>6. CASE CopyRest
  <2>1. /\ pc = "rest" /\ rd' = rd /\ slot' = slot /\ pc' = "load"
        /\ val' = [val EXCEPT ![WORDS] = buffer[slot]]
    BY <1>6 DEF CopyRest
  <2>2. /\ val' \in [1 .. WORDS -> Events] /\ val'[WORDS] = buffer[slot]
        /\ val'[1] \in {val[1], buffer[slot]}
    BY <1>1, <2>1
  <2>3. buffer[slot] \in 1 .. sent
    <3>1. CASE AllWritten
      BY <1>1, <3>1 DEF AllWritten
    <3>2. CASE Young
      <4>1. slot = head /\ val[1] = buffer[head]
        BY <2>1, <3>2 DEF Young, IInv, PopInv
      <4> QED
        BY <2>1, <4>1 DEF IInv, CopiedInv
    <3> QED
      BY <3>1, <3>2 DEF IInv
  <2>4. TypeOK'
    BY <1>2, <2>1, <2>2 DEF IInv, TypeOK
  <2>5. PopInv'
    BY <1>2, <2>1, <2>2 DEF IInv, PopInv
  <2>6. CopiedInv'
    BY <1>2, <2>1, <2>2, <2>3 DEF IInv, CopiedInv
  <2> QED
    BY <1>3, <2>4, <2>5, <2>6 DEF IInv
<1>7. CASE LoadAgain
  <2>1. pc = "load" /\ rd' = (IF reload THEN head ELSE rd) /\ pc' = "store" /\ UNCHANGED <<slot, val>>
    BY <1>7 DEF LoadAgain
  <2>2. TypeOK'
    BY <1>1, <1>2, <2>1 DEF IInv, TypeOK
  <2>3. PopInv'
    BY <1>2, <2>1 DEF IInv, PopInv
  <2>4. CopiedInv'
    BY <1>2, <2>1 DEF IInv, CopiedInv
  <2> QED
    BY <1>3, <2>2, <2>3, <2>4 DEF IInv
<1> QED
  BY <1>4, <1>5, <1>6, <1>7

LEMMA StoreIInv == IInv /\ StoreHead => IInv'
<1> SUFFICES ASSUME IInv, StoreHead PROVE IInv'
  OBVIOUS
<1>1. /\ WORDS \in {1, 2} /\ pc = "store" /\ pc' = "idle"
      /\ rd \in Slots /\ head' = After(rd) /\ head' \in Slots
      /\ val \in [1 .. WORDS -> Events] /\ got \in Seq([1 .. WORDS -> Events])
      /\ got' = Append(got, val)
      /\ UNCHANGED <<buffer, tail, rd, slot, val, reload, sent, raced>>
  BY QueueAssumption, AfterSlot DEF IInv, TypeOK, StoreHead
<1>2. /\ got' \in Seq([1 .. WORDS -> Events]) /\ Len(got') = Len(got) + 1 /\ Len(got) \in Nat
      /\ \A i \in 1 .. Len(got) : got'[i] = got[i]
      /\ got'[Len(got) + 1] = val
  BY <1>1, AppendProperties, LenProperties
<1>3. TypeOK'
  BY <1>1, <1>2 DEF IInv, TypeOK
<1>4. PopInv'
  BY <1>1 DEF PopInv
<1>5. CopiedInv'
  <2>1. \A w \in 1 .. WORDS : val[w] \in 1 .. sent
    <3>1. \A w \in 1 .. WORDS : w = 1 \/ w = WORDS
      BY <1>1
    <3> QED
      BY <1>1, <3>1 DEF IInv, CopiedInv
  <2>2. \A i \in 1 .. Len(got') : i \in 1 .. Len(got) \/ i = Len(got) + 1
    BY <1>2
  <2>3. \A i \in 1 .. Len(got') : \A w \in 1 .. WORDS : got'[i][w] \in 1 .. sent
    BY <1>2, <2>1, <2>2 DEF IInv, CopiedInv
  <2> QED
    BY <1>1, <2>3 DEF CopiedInv
<1>6. AllWritten' \/ Young'
  <2>1. CASE AllWritten
    BY <1>1, <2>1 DEF AllWritten
  <2>2. CASE Young
    <3>1. rd = head /\ head # tail /\ head <= tail
      BY <1>1, <2>2 DEF Young, IInv, PopInv
    <3>2. head' <= tail
      BY <1>1, <3>1, AfterSlot, QueueAssumption DEF IInv, TypeOK, Slots
    <3> QED
      BY <1>1, <2>2, <3>2 DEF Young
  <2> QED
    BY <2>1, <2>2 DEF IInv
<1> QED
  BY <1>3, <1>4, <1>5, <1>6 DEF IInv

LEMMA NextIInv == IInv /\ [Next]_vars => IInv'
<1> SUFFICES ASSUME IInv, [Next]_vars PROVE IInv'
  OBVIOUS
<1>1. CASE Next
  BY <1>1, PushIInv, ReadIInv, StoreIInv DEF Next, Pop
<1>2. CASE UNCHANGED vars
  BY <1>2 DEF vars, ring, local, IInv, TypeOK, PopInv, AllWritten, Young, CopiedInv
<1> QED
  BY <1>1, <1>2

LEMMA Invariance == Spec => []IInv
  BY InitIInv, NextIInv, PTL DEF Spec

-----------------------------------------------------------------------------
(* The theorems.                                                             *)

\* The ring, its indices and the registers of a pop stay in range.
THEOREM TypeCorrect == Spec => []TypeOK
<1>1. IInv => TypeOK
  BY DEF IInv
<1> QED
  BY <1>1, Invariance, PTL

LEMMA ContentsIs == Contents = Held(buffer, head, tail) /\ Length = Count(head, tail)
  BY DEF Contents, Length, Held, Count

\* byte_queue.c, eru_event_queue.c: a pop returns what a push has put in, and
\* the ring holds nothing else between head and tail, in every interleaving,
\* the ring overflowing inside a pop included.
THEOREM OnlyPushed == Spec => []OnlyPushedEvents
<1>1. ASSUME IInv PROVE OnlyPushedEvents
  <2>1. buffer \in [Slots -> Events] /\ head \in Slots /\ tail \in Slots
    BY <1>1 DEF IInv, TypeOK
  <2>2. \A i \in 1 .. Length : Contents[i] \in 1 .. sent
    <3> SUFFICES ASSUME NEW i \in 1 .. Count(head, tail)
                 PROVE  Held(buffer, head, tail)[i] \in 1 .. sent
      BY ContentsIs
    <3>1. /\ Held(buffer, head, tail)[i] = buffer[Place(head, i - 1)]
          /\ i \in 1 .. CAPACITY
          /\ Count(head, tail) = IF head <= tail THEN tail - head ELSE tail - head + CAPACITY
      BY <2>1, HeldIs, CountIs, QueueAssumption
    <3>2. Place(head, i - 1) \in Slots
      BY <2>1, <3>1, PlaceIs
    <3>3. CASE AllWritten
      BY <3>1, <3>2, <3>3 DEF AllWritten
    <3>4. CASE Young
      <4>1. Place(head, i - 1) \in 0 .. tail - 1
        BY <2>1, <3>1, <3>4, QueueAssumption DEF Young, Place, Slots
      <4> QED
        BY <3>1, <3>4, <4>1 DEF Young
    <3> QED
      BY <1>1, <3>3, <3>4 DEF IInv
  <2> QED
    BY <1>1, <2>2 DEF IInv, CopiedInv, OnlyPushedEvents
<1> QED
  BY <1>1, Invariance, PTL

\* What the words of an event stand for.
Whole(g) == [i \in 1 .. Len(g) |-> Event(g[i])]

LEMMA WholeAppend ==
    ASSUME NEW g \in Seq([1 .. WORDS -> Events]), NEW v \in [1 .. WORDS -> Events]
    PROVE  Whole(Append(g, v)) = Append(Whole(g), Event(v))
<1> DEFINE a == Append(g, v)
<1>1. /\ Len(g) \in Nat /\ a \in Seq([1 .. WORDS -> Events]) /\ Len(a) = Len(g) + 1
      /\ \A i \in 1 .. Len(g) : a[i] = g[i]
      /\ a[Len(g) + 1] = v
  BY AppendProperties, LenProperties
<1>2. \A u \in [1 .. WORDS -> Events] : Event(u) \in Events
  BY QueueAssumption DEF Event, Events
<1>3. \A i \in 1 .. Len(g) : g[i] \in [1 .. WORDS -> Events]
  BY ElementOfSeq
<1>4. Whole(g) \in Seq(Events) /\ Len(Whole(g)) = Len(g)
  <2>1. Whole(g) \in [1 .. Len(g) -> Events]
    BY <1>2, <1>3 DEF Whole
  <2> QED
    BY <1>1, <2>1, SeqDef DEF Whole
<1>5. \A i \in 1 .. Len(a) : a[i] \in [1 .. WORDS -> Events]
  BY <1>1, ElementOfSeq
<1> HIDE DEF a
<1>6. Whole(a) \in Seq(Events) /\ Len(Whole(a)) = Len(g) + 1
  <2>1. Whole(a) \in [1 .. Len(g) + 1 -> Events]
    BY <1>1, <1>2, <1>5 DEF Whole
  <2> QED
    BY <1>1, <2>1, SeqDef DEF Whole
<1>7. /\ Append(Whole(g), Event(v)) \in Seq(Events)
      /\ Len(Append(Whole(g), Event(v))) = Len(g) + 1
      /\ \A i \in 1 .. Len(g) : Append(Whole(g), Event(v))[i] = Whole(g)[i]
      /\ Append(Whole(g), Event(v))[Len(g) + 1] = Event(v)
  BY <1>2, <1>4, AppendProperties
<1>8. ASSUME NEW i \in 1 .. Len(g) + 1
      PROVE  Whole(a)[i] = Append(Whole(g), Event(v))[i]
  <2>1. Whole(a)[i] = Event(a[i])
    BY <1>1 DEF Whole
  <2>2. CASE i = Len(g) + 1
    BY <1>1, <1>7, <2>1, <2>2
  <2>3. CASE i # Len(g) + 1
    <3>1. i \in 1 .. Len(g)
      BY <1>1, <2>3
    <3>2. Whole(g)[i] = Event(g[i])
      BY <3>1 DEF Whole
    <3> QED
      BY <1>1, <1>7, <2>1, <3>1, <3>2
  <2> QED
    BY <2>2, <2>3
<1>9. Whole(a) = Append(Whole(g), Event(v))
  BY <1>6, <1>7, <1>8, SeqEqual
<1> QED
  BY <1>9 DEF a

LEMMA PushImplements ==
    ASSUME IInv, Push, ~raced'
    PROVE  Fifo!Push
<1>1. /\ CAPACITY \in Nat \ {0}
      /\ head \in Slots /\ tail \in Slots /\ sent \in Nat /\ buffer \in [Slots -> Events]
  BY QueueAssumption DEF IInv, TypeOK, Events
<1>2. /\ sent < MAX_EVENTS /\ sent' = sent + 1 /\ sent' \in Events /\ got' = got
      /\ buffer' = [buffer EXCEPT ![tail] = sent'] /\ tail' = After(tail)
      /\ head' = IF Full THEN After(head) ELSE head
  BY <1>1, QueueAssumption DEF Push, Full, Events
<1>3. Contents' = Held(buffer', head', tail')
  BY DEF Contents, Length, Held, Count
<1> DEFINE q == Append(Contents, sent')
<1>4. Contents' = Fifo!Newest(q)
  <2>1. CASE ~Full
    <3>1. /\ Held(buffer', head', tail') = q
          /\ Count(head, tail) + 1 < CAPACITY
      BY <1>1, <1>2, <2>1, HeldPush, ContentsIs DEF Full
    <3>2. Len(q) = Count(head, tail) + 1
      BY <1>1, <1>2, HeldIs, ContentsIs, AppendProperties
    <3> QED
      BY <1>3, <3>1, <3>2 DEF Fifo!Newest
  <2>2. CASE Full
    <3>1. /\ Held(buffer', head', tail') = SubSeq(q, 2, CAPACITY)
          /\ Len(q) = CAPACITY
      BY <1>1, <1>2, <2>2, HeldPushFull, ContentsIs DEF Full
    <3>2. ~(Len(q) < CAPACITY) /\ Len(q) - CAPACITY + 2 = 2
      BY <1>1, <3>1
    <3> QED
      BY <1>3, <3>1, <3>2 DEF Fifo!Newest
  <2> QED
    BY <2>1, <2>2
<1> QED
  BY <1>2, <1>4 DEF Fifo!Push

LEMMA StoreImplements ==
    ASSUME IInv, StoreHead, ~raced'
    PROVE  Fifo!Pop
<1>1. /\ WORDS \in {1, 2} /\ head \in Slots /\ tail \in Slots
      /\ buffer \in [Slots -> Events]
      /\ val \in [1 .. WORDS -> Events] /\ got \in Seq([1 .. WORDS -> Events])
  BY QueueAssumption DEF IInv, TypeOK
<1>2. /\ pc = "store" /\ got' = Append(got, val) /\ head' = After(rd)
      /\ UNCHANGED <<buffer, tail, sent, raced>>
  BY DEF StoreHead
<1>3. /\ rd = head /\ head # tail
      /\ val[1] = buffer[head] /\ val[WORDS] = buffer[head]
  BY <1>2 DEF IInv, PopInv
<1>4. Event(val) = buffer[head]
  <2>1. \A w \in 1 .. WORDS : w = 1 \/ w = WORDS
    BY <1>1
  <2> QED
    BY <1>3, <2>1 DEF Event
<1>5. Contents' = Held(buffer', head', tail')
  BY DEF Contents, Length, Held, Count
<1>6. /\ Contents # <<>> /\ Head(Contents) = buffer[head]
      /\ Contents' = Tail(Contents)
  BY <1>1, <1>2, <1>3, <1>5, HeldPop, ContentsIs
<1>7. Whole(got') = Append(Whole(got), Head(Contents))
  BY <1>1, <1>2, <1>4, <1>6, WholeAppend
<1> QED
  BY <1>2, <1>6, <1>7 DEF Fifo!Pop, Whole

\* byte_queue.c:25, eru_event_queue.c:25: until a push overflows the ring in
\* the middle of a pop, the ring with its lock-free pop is a queue that gives
\* up only its oldest event to make room.
THEOREM Implements == Spec => ImplementsFifo
<1>1. Init => Fifo!Init
  <2> SUFFICES ASSUME Init PROVE Fifo!Init
    OBVIOUS
  <2>1. head = 0 /\ tail = 0 /\ sent = 0 /\ got = <<>> /\ 0 \in Slots
    BY QueueAssumption DEF Init, Slots
  <2>2. Length = 0
    BY <2>1, CountIs, ContentsIs, QueueAssumption
  <2>3. Contents = <<>>
    BY <2>2 DEF Contents
  <2>4. Whole(got) = <<>>
    BY <2>1 DEF Whole
  <2> QED
    BY <2>1, <2>3, <2>4 DEF Fifo!Init, Whole
<1>2. ASSUME IInv, [Next]_vars
      PROVE  [raced' \/ Fifo!Next]_<<Contents, sent, got>>
  <2>1. CASE Push
    BY <1>2, <2>1, PushImplements DEF Fifo!Next
  <2>2. CASE StoreHead
    BY <1>2, <2>2, StoreImplements DEF Fifo!Next
  <2>3. CASE LoadHead \/ CompareTail \/ CopyFirst \/ CopyRest \/ LoadAgain \/ UNCHANGED vars
    <3>1. UNCHANGED <<buffer, head, tail, sent, got>>
      BY <2>3 DEF LoadHead, CompareTail, CopyFirst, CopyRest, LoadAgain, ring, vars
    <3> QED
      BY <3>1 DEF Contents, Length
  <2> QED
    BY <1>2, <2>1, <2>2, <2>3 DEF Next, Pop
<1> QED
  BY <1>1, <1>2, Invariance, PTL DEF Spec, ImplementsFifo

=============================================================================
