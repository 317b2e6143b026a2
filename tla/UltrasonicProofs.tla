-------------------------- MODULE UltrasonicProofs ---------------------------
(* Theorems about Ultrasonic, for any queue, any filter and any lateness of   *)
(* the interrupt.                                                            *)
EXTENDS Ultrasonic, SequenceTheorems, WellFoundedInduction, TLAPS

-----------------------------------------------------------------------------
(* Induction, and the sum of a sequence.                                     *)

LEMMA LeastNumber ==
    ASSUME NEW T, T \subseteq Nat, T # {}
    PROVE  \E n \in T : \A m \in T : n <= m
<1> DEFINE less == {pair \in Nat \X Nat : pair[1] < pair[2]}
<1>1. IsWellFoundedOn(less, Nat)
  BY NatLessThanWellFounded, Zenon DEF OpToRel
<1> HIDE DEF less
<1>2. PICK n \in T : \A m \in T : ~ (<<m, n>> \in less)
  BY <1>1, WFMin
<1>3. ASSUME NEW m \in T PROVE n <= m
  <2>1. ~ (<<m, n>> \in less) /\ m \in Nat /\ n \in Nat
    BY <1>2
  <2> QED
    BY <2>1 DEF less
<1> QED
  BY <1>3

\* What holds of 0 and of the successor of each number below n holds up to n.
LEMMA UpTo ==
    ASSUME NEW n \in Nat, NEW T, 0 \in T, \A i \in 0 .. n - 1 : i \in T => i + 1 \in T
    PROVE  \A i \in 0 .. n : i \in T
<1> DEFINE missing == {i \in 0 .. n : i \notin T}
<1> SUFFICES ASSUME missing # {} PROVE FALSE
  OBVIOUS
<1>1. PICK i \in missing : \A j \in missing : i <= j
  <2>1. missing \subseteq Nat
    OBVIOUS
  <2> HIDE DEF missing
  <2> QED
    BY <2>1, LeastNumber
<1>2. i \in 0 .. n /\ i \notin T
  OBVIOUS
<1>3. i # 0 /\ i - 1 \in 0 .. n - 1 /\ i - 1 \in 0 .. n /\ (i - 1) + 1 = i /\ ~(i <= i - 1)
  BY <1>2
<1>4. i - 1 \in T
  BY <1>1, <1>3
<1> QED
  BY <1>2, <1>3, <1>4

LEMMA SumsIs ==
    ASSUME NEW values \in Seq(Nat)
    PROVE  /\ Sums(values) \in [0 .. Len(values) -> Nat]
           /\ Sums(values)[0] = 0
           /\ \A i \in 1 .. Len(values) : Sums(values)[i] = Sums(values)[i - 1] + values[i]
<1> DEFINE n == Len(values)
           Step(f, i) == IF i = 0 THEN 0 ELSE f[i - 1] + values[i]
           T == {k \in 0 .. n : \E f \in [0 .. k -> Nat] : \A i \in 0 .. k : f[i] = Step(f, i)}
<1>1. n \in Nat /\ \A i \in 1 .. n : values[i] \in Nat
  BY ElementOfSeq
<1> HIDE DEF n
<1>2. 0 \in T
  <2> DEFINE f == [i \in 0 .. 0 |-> 0]
  <2>1. f \in [0 .. 0 -> Nat] /\ \A i \in 0 .. 0 : f[i] = Step(f, i)
    OBVIOUS
  <2> HIDE DEF f
  <2> QED
    BY <1>1, <2>1
<1>3. ASSUME NEW k \in 0 .. n - 1, k \in T PROVE k + 1 \in T
  <2>1. PICK f \in [0 .. k -> Nat] : \A i \in 0 .. k : f[i] = Step(f, i)
    BY <1>3
  <2> DEFINE g == [i \in 0 .. k + 1 |-> IF i = k + 1 THEN f[k] + values[k + 1] ELSE f[i]]
  <2>2. k \in Nat /\ k + 1 \in 1 .. n /\ k + 1 \in 0 .. n
    BY <1>1
  <2>3. g \in [0 .. k + 1 -> Nat]
    BY <1>1, <2>2
  <2>4. ASSUME NEW i \in 0 .. k + 1 PROVE g[i] = Step(g, i)
    <3>1. CASE i = k + 1
      BY <2>2, <3>1
    <3>2. CASE i # k + 1
      <4>1. i \in 0 .. k /\ (i # 0 => i - 1 \in 0 .. k)
        BY <2>2, <3>2
      <4>2. g[i] = f[i] /\ (i # 0 => g[i - 1] = f[i - 1])
        BY <2>2, <4>1
      <4> QED
        BY <2>1, <4>1, <4>2
    <3> QED
      BY <3>1, <3>2
  <2> QED
    BY <2>2, <2>3, <2>4
<1>4. n \in T
  <2> HIDE DEF T
  <2>1. \A i \in 0 .. n : i \in T
    BY <1>1, <1>2, <1>3, UpTo
  <2> QED
    BY <1>1, <2>1
<1>5. PICK f \in [0 .. n -> Nat] : \A i \in 0 .. n : f[i] = Step(f, i)
  BY <1>4
<1>6. f = [i \in 0 .. n |-> IF i = 0 THEN 0 ELSE f[i - 1] + values[i]]
  BY <1>5
<1>7. Sums(values) = [i \in 0 .. n |-> IF i = 0 THEN 0 ELSE Sums(values)[i - 1] + values[i]]
  BY <1>6 DEF Sums, n
<1> DEFINE sums == Sums(values)
<1> HIDE DEF sums
<1>8. sums = [i \in 0 .. n |-> IF i = 0 THEN 0 ELSE sums[i - 1] + values[i]]
  BY <1>7 DEF sums
<1>9. \A i \in 0 .. n : sums[i] = IF i = 0 THEN 0 ELSE sums[i - 1] + values[i]
  BY <1>8
<1> DEFINE N == {i \in 0 .. n : sums[i] \in Nat}
<1>10. \A i \in 0 .. n : i \in N
  <2>1. 0 \in N
    BY <1>1, <1>9
  <2>2. ASSUME NEW i \in 0 .. n - 1, i \in N PROVE i + 1 \in N
    <3>1. i + 1 \in 0 .. n /\ i + 1 \in 1 .. n /\ i + 1 # 0 /\ (i + 1) - 1 = i
      BY <1>1
    <3>2. sums[i + 1] = sums[i] + values[i + 1]
      BY <1>9, <3>1
    <3> QED
      BY <1>1, <2>2, <3>1, <3>2
  <2> HIDE DEF N
  <2> QED
    BY <1>1, <2>1, <2>2, UpTo
<1>11. sums \in [0 .. n -> Nat]
  BY <1>8, <1>10
<1>12. sums[0] = 0 /\ \A i \in 1 .. n : sums[i] = sums[i - 1] + values[i]
  BY <1>1, <1>9
<1> QED
  BY <1>11, <1>12 DEF sums, n

LEMMA TotalAppend ==
    ASSUME NEW values \in Seq(Nat), NEW v \in Nat
    PROVE  Total(Append(values, v)) = Total(values) + v
<1> DEFINE longer == Append(values, v)
           n == Len(values)
<1>1. /\ n \in Nat /\ longer \in Seq(Nat) /\ Len(longer) = n + 1
      /\ \A i \in 1 .. n : longer[i] = values[i]
      /\ longer[n + 1] = v
  BY AppendProperties
<1> HIDE DEF longer
<1> DEFINE a == Sums(values)
           b == Sums(longer)
           T == {i \in 0 .. n : b[i] = a[i]}
<1>2. /\ a[0] = 0 /\ \A i \in 1 .. n : a[i] = a[i - 1] + values[i]
      /\ b[0] = 0 /\ \A i \in 1 .. n + 1 : b[i] = b[i - 1] + longer[i]
  BY <1>1, SumsIs
<1> HIDE DEF a, b, n
<1>3. 0 \in T
  BY <1>1, <1>2
<1>4. ASSUME NEW i \in 0 .. n - 1, i \in T PROVE i + 1 \in T
  <2>1. /\ i + 1 \in 1 .. n /\ i + 1 \in 1 .. n + 1 /\ i + 1 \in 0 .. n /\ (i + 1) - 1 = i
    BY <1>1
  <2>2. a[i + 1] = a[i] + values[i + 1] /\ b[i + 1] = b[i] + longer[i + 1]
    BY <1>2, <2>1
  <2> QED
    BY <1>1, <1>4, <2>1, <2>2
<1>5. n \in T
  <2> HIDE DEF T
  <2>1. \A i \in 0 .. n : i \in T
    BY <1>1, <1>3, <1>4, UpTo
  <2> QED
    BY <1>1, <2>1
<1>6. b[n + 1] = a[n] + v
  <2>1. n + 1 \in 1 .. n + 1 /\ (n + 1) - 1 = n
    BY <1>1
  <2> QED
    BY <1>1, <1>2, <1>5, <2>1
<1> QED
  BY <1>1, <1>6 DEF Total, a, b, n, longer

LEMMA TotalTail ==
    ASSUME NEW values \in Seq(Nat), values # <<>>
    PROVE  Total(values) = values[1] + Total(Tail(values)) /\ Total(Tail(values)) \in Nat
<1> DEFINE rest == Tail(values)
           n == Len(rest)
<1>1. /\ rest \in Seq(Nat) /\ n \in Nat /\ Len(values) = n + 1
      /\ \A i \in 1 .. n : rest[i] = values[i + 1]
  BY HeadTailProperties, LenProperties
<1>2. values[1] \in Nat
  <2>1. 1 \in 1 .. Len(values)
    BY <1>1
  <2> QED
    BY <2>1, ElementOfSeq
<1> HIDE DEF rest
<1> DEFINE a == Sums(values)
           b == Sums(rest)
           T == {i \in 0 .. n : a[i + 1] = values[1] + b[i]}
<1>3. /\ a[0] = 0 /\ \A i \in 1 .. n + 1 : a[i] = a[i - 1] + values[i]
      /\ b[0] = 0 /\ \A i \in 1 .. n : b[i] = b[i - 1] + rest[i]
      /\ \A i \in 0 .. n : b[i] \in Nat
      /\ \A i \in 1 .. n : rest[i] \in Nat
  BY <1>1, SumsIs, ElementOfSeq
<1> HIDE DEF a, b, n
<1>4. 0 \in T
  <2>1. a[0 + 1] = values[1]
    BY <1>1, <1>2, <1>3
  <2> QED
    BY <1>1, <1>2, <1>3, <2>1
<1>5. ASSUME NEW i \in 0 .. n - 1, i \in T PROVE i + 1 \in T
  <2>1. /\ i \in 0 .. n /\ i + 1 \in 1 .. n /\ i + 1 \in 0 .. n /\ (i + 1) - 1 = i
        /\ (i + 1) + 1 \in 1 .. n + 1 /\ ((i + 1) + 1) - 1 = i + 1
    BY <1>1
  <2>2. /\ a[(i + 1) + 1] = a[i + 1] + values[(i + 1) + 1]
        /\ b[i + 1] = b[i] + rest[i + 1]
        /\ rest[i + 1] = values[(i + 1) + 1]
    BY <1>1, <1>3, <2>1
  <2> QED
    BY <1>2, <1>3, <1>5, <2>1, <2>2
<1>6. n \in T
  <2> HIDE DEF T
  <2>1. \A i \in 0 .. n : i \in T
    BY <1>1, <1>4, <1>5, UpTo
  <2> QED
    BY <1>1, <2>1
<1>7. a[n + 1] = values[1] + b[n] /\ b[n] \in Nat
  BY <1>1, <1>3, <1>6
<1> QED
  BY <1>1, <1>7 DEF Total, a, b, n, rest

\* The mean is not more than the greatest value.
LEMMA TotalBound ==
    ASSUME NEW bound \in Nat, NEW values \in Seq(0 .. bound)
    PROVE  Total(values) \in Nat /\ Total(values) <= Len(values) * bound
<1> DEFINE n == Len(values)
           a == Sums(values)
           T == {i \in 0 .. n : a[i] <= i * bound}
<1>1. values \in Seq(Nat) /\ n \in Nat /\ \A i \in 1 .. n : values[i] \in 0 .. bound
  BY SeqMonotonic, ElementOfSeq, LenProperties
<1>2. /\ a[0] = 0 /\ \A i \in 1 .. n : a[i] = a[i - 1] + values[i]
      /\ \A i \in 0 .. n : a[i] \in Nat
  BY <1>1, SumsIs
<1> HIDE DEF a, n
<1>3. 0 \in T
  BY <1>1, <1>2
<1>4. ASSUME NEW i \in 0 .. n - 1, i \in T PROVE i + 1 \in T
  <2>1. i \in 0 .. n /\ i + 1 \in 1 .. n /\ i + 1 \in 0 .. n /\ (i + 1) - 1 = i /\ i \in Nat
    BY <1>1
  <2>2. a[i + 1] = a[i] + values[i + 1] /\ a[i] <= i * bound /\ a[i] \in Nat
    BY <1>2, <1>4, <2>1
  <2>3. (i + 1) * bound = i * bound + bound /\ i * bound \in Nat
    BY <2>1, SMTT(30)
  <2>4. values[i + 1] \in 0 .. bound
    BY <1>1, <2>1
  <2>5. a[i + 1] <= (i + 1) * bound
    BY <2>2, <2>3, <2>4
  <2> QED
    BY <2>1, <2>5
<1>5. n \in T
  <2> HIDE DEF T
  <2>1. \A i \in 0 .. n : i \in T
    BY <1>1, <1>3, <1>4, UpTo
  <2> QED
    BY <1>1, <2>1
<1> QED
  BY <1>1, <1>2, <1>5 DEF Total, a, n

-----------------------------------------------------------------------------
(* The invariant.                                                            *)

RiseOf(p) == [pin_state |-> TRUE, pulse |-> p]
FallOf(p) == [pin_state |-> FALSE, pulse |-> p]

\* The event the interrupt pushes next, if it is in time.
Coming ==
    IF level THEN IF Served THEN FallOf(pulse) ELSE RiseOf(pulse)
             ELSE IF Served THEN RiseOf(Following(pulse)) ELSE FallOf(pulse)

\* The events in the queue, and the one to come behind them.
EventAt(i) == IF i <= Len(queue) THEN queue[i] ELSE Coming

\* Behind a rise comes the fall of its pulse, late interrupt or not; behind a fall,
\* if the interrupt is in time, the rise of the following pulse.
EventsInv ==
    /\ level /\ isr => ~pending
    /\ ~slow /\ isr => ~pending
    /\ \A i \in 1 .. Len(queue) :
           IF queue[i].pin_state
           THEN EventAt(i + 1) = FallOf(queue[i].pulse)
           ELSE ~slow => EventAt(i + 1) = RiseOf(Following(queue[i].pulse))

\* Unless the queue overflows, what the loop has taken goes on with the event due.
PairInv ==
    /\ last_rise_time # 0 => EventAt(1) = FallOf(last_rise_time)
    /\ latest_data.rise = latest_data.fall
    /\ ~slow /\ latest_data # NoSample =>
           IF last_rise_time = 0 THEN EventAt(1) = RiseOf(Following(latest_data.rise))
                                 ELSE last_rise_time = Following(latest_data.rise)

BootInv == pc = "boot" => last_rise_time = 0 /\ latest_data = NoSample

\* So many places on in the ring of the filter.
Around(index, n) == IF index + n < SIZE THEN index + n ELSE index + n - SIZE

\* The ring of the filter holds the last distances, the oldest where the next goes
\* once it is full.
FilterInv ==
    /\ filter.data_cnt = Len(recent)
    /\ filter.sum = Total(recent)
    /\ \A i \in 1 .. Len(recent) :
           filter.buffer[Around(filter.next_index, SIZE - Len(recent) + i - 1)] = recent[i]
    /\ recent # <<>> => latest_data.dist_filt_mm = Mean(filter)

IInv ==
    /\ TypeOK
    /\ EventsInv
    /\ ~late => PairInv
    /\ BootInv
    /\ FilterInv

Events == [pin_state : BOOLEAN, pulse : Pulses]

LEMMA Constants ==
    /\ CAPACITY \in Nat /\ CAPACITY > 1 /\ MAX_EVENTS \in Nat /\ MAX_EVENTS > 0
    /\ PULSES \in Nat /\ PULSES > 1 /\ SIZE \in Nat /\ SIZE > 0
    /\ \A p \in Pulses : p \in 1 .. PULSES /\ Following(p) \in Pulses /\ p # 0
    /\ 0 \in Distances /\ NoSample \in Samples
<1>1. /\ CAPACITY \in Nat /\ CAPACITY > 1 /\ MAX_EVENTS \in Nat /\ MAX_EVENTS > 0
      /\ PULSES \in Nat /\ PULSES > 1 /\ SIZE \in Nat /\ SIZE > 0
  BY UltrasonicAssumption, FilterAssumption
<1>2. \A p \in Pulses : p \in 1 .. PULSES /\ Following(p) \in Pulses /\ p # 0
  BY <1>1 DEF Pulses, Following
<1>3. 0 \in Distances /\ NoSample \in Samples
  BY <1>1 DEF Distances, NoSample, Samples
<1> QED
  BY <1>1, <1>2, <1>3

LEMMA EmptyTotal == Total(<<>>) = 0
<1>1. <<>> \in Seq(Nat) /\ Len(<<>>) = 0
  BY EmptySeq
<1> QED
  BY <1>1, SumsIs DEF Total

LEMMA InitIInv == Init => IInv
<1> SUFFICES ASSUME Init PROVE IInv
  OBVIOUS
<1>1. queue = <<>> /\ Len(queue) = 0 /\ queue \in Seq(Events)
      /\ recent = <<>> /\ Len(recent) = 0 /\ recent \in Seq(Distances)
  BY EmptySeq DEF Init
<1>2. filter \in Filters(Distances) /\ filter.data_cnt = 0 /\ filter.sum = 0
  BY Constants DEF Init, Filter_Init, Filters, Indices
<1>3. TypeOK
  <2>1. pulse \in Pulses /\ processed \in 0 .. MAX_EVENTS /\ last_rise_time \in 0 .. PULSES
    BY Constants DEF Init, Pulses
  <2>2. Len(queue) < CAPACITY /\ Len(recent) <= SIZE
    BY <1>1, Constants
  <2> QED
    BY <1>1, <1>2, <2>1, <2>2, Constants DEF Init, TypeOK, Events
<1>4. EventsInv /\ BootInv
  BY <1>1 DEF Init, EventsInv, BootInv
<1>5. PairInv
  BY DEF Init, PairInv, NoSample
<1>6. FilterInv
  BY <1>1, <1>2, EmptyTotal DEF FilterInv
<1> QED
  BY <1>3, <1>4, <1>5, <1>6 DEF IInv

-----------------------------------------------------------------------------
(* The sensor and the interrupt.                                             *)

\* Without an event in or out: the event to come stays the same, or is a rise that
\* a late interrupt will not see.
LEMMA SensorIInv ==
    ASSUME IInv, UNCHANGED <<queue, loop, late>>,
           pulse' \in Pulses, level' \in BOOLEAN, pending' \in BOOLEAN, isr' \in BOOLEAN,
           slow' \in BOOLEAN, slow => slow',
           level' /\ isr' => ~pending', ~slow' /\ isr' => ~pending',
           Coming' = Coming \/ (slow' /\ Coming.pin_state)
    PROVE  IInv'
<1>1. UNCHANGED <<queue, pc, processed, last_rise_time, filter, latest_data, data_ready, kept,
                  recent, late>>
  BY DEF loop, sample
<1>2. TypeOK /\ EventsInv /\ (~late => PairInv) /\ BootInv /\ FilterInv
  BY DEF IInv
<1>3. TypeOK' /\ BootInv' /\ FilterInv'
  BY <1>1, <1>2 DEF TypeOK, BootInv, FilterInv
<1>4. \A i : /\ EventAt(i)' = EventAt(i) \/ (slow' /\ EventAt(i).pin_state)
             /\ ~slow' => EventAt(i)' = EventAt(i)
  BY <1>1 DEF EventAt
<1>5. \A i, p : EventAt(i) = FallOf(p) => EventAt(i)' = FallOf(p)
  BY <1>4 DEF FallOf
<1>6. EventsInv'
  BY <1>1, <1>2, <1>4, <1>5 DEF EventsInv
<1>7. ~late' => PairInv'
  BY <1>1, <1>2, <1>4, <1>5 DEF PairInv
<1> QED
  BY <1>3, <1>6, <1>7 DEF IInv

LEMMA EchoIInv == ASSUME IInv, EchoRise \/ EchoFall \/ EnterHandler PROVE IInv'
<1>1. /\ pulse \in Pulses /\ level \in BOOLEAN /\ pending \in BOOLEAN /\ isr \in BOOLEAN
      /\ slow \in BOOLEAN /\ (level /\ isr => ~pending) /\ (~slow /\ isr => ~pending)
  BY DEF IInv, TypeOK, EventsInv
<1>2. Following(pulse) \in Pulses
  BY <1>1, Constants
<1>3. CASE EchoRise
  <2>1. /\ ~level /\ Served /\ level' = TRUE /\ pulse' = Following(pulse) /\ pending' = TRUE
        /\ UNCHANGED <<isr, queue, loop, slow, late>>
    BY <1>3 DEF EchoRise, timing
  <2>2. Coming' = Coming
    BY <2>1 DEF Coming, Served
  <2> QED
    BY <1>1, <1>2, <2>1, <2>2, SensorIInv DEF Served
<1>4. CASE EchoFall
  <2>1. /\ level /\ level' = FALSE /\ pending' = TRUE /\ slow' = (slow \/ ~Served)
        /\ UNCHANGED <<pulse, isr, queue, loop, late>>
    BY <1>4 DEF EchoFall
  <2>2. Coming' = Coming \/ (slow' /\ Coming.pin_state)
    BY <2>1 DEF Coming, Served, RiseOf
  <2>3. ~slow' => ~isr'
    BY <2>1 DEF Served
  <2> QED
    BY <1>1, <2>1, <2>2, <2>3, SensorIInv
<1>5. CASE EnterHandler
  <2>1. /\ pending /\ ~isr /\ pending' = FALSE /\ isr' = TRUE
        /\ UNCHANGED <<pulse, level, queue, loop, slow, late>>
    BY <1>5 DEF EnterHandler, sensor, timing
  <2>2. Coming' = Coming
    BY <2>1 DEF Coming, Served
  <2> QED
    BY <1>1, <2>1, <2>2, SensorIInv
<1> QED
  BY <1>3, <1>4, <1>5

\* The interrupt pushes the event that was to come.
LEMMA HandlerIInv == ASSUME IInv, Ultrasonic_EchoHandler PROVE IInv'
<1> DEFINE event == [pin_state |-> level, pulse |-> pulse]
           base == IF Full THEN Tail(queue) ELSE queue
<1>1. /\ isr /\ isr' = FALSE /\ queue' = Append(base, event)
      /\ late' = (late \/ (Full /\ pc # "boot"))
      /\ UNCHANGED <<pulse, level, pending, pc, processed, last_rise_time, filter, latest_data,
                     data_ready, kept, recent, slow>>
  BY DEF Ultrasonic_EchoHandler, sensor, loop, sample
<1>2. TypeOK /\ EventsInv /\ (~late => PairInv) /\ BootInv /\ FilterInv
  BY DEF IInv
<1>3. queue \in Seq(Events) /\ Len(queue) \in Nat /\ Len(queue) < CAPACITY /\ event \in Events
      /\ level \in BOOLEAN
  BY <1>2 DEF TypeOK, Events
<1>4. event = Coming
  BY <1>1, <1>3 DEF Coming, Served, RiseOf, FallOf
<1>5. IF level THEN Coming' = FallOf(pulse) ELSE ~slow => Coming' = RiseOf(Following(pulse))
  BY <1>1, <1>2 DEF Coming, Served, EventsInv
<1>6. /\ base \in Seq(Events) /\ Len(base) \in Nat /\ Len(base) + 1 < CAPACITY
      /\ \A i \in 1 .. Len(base) : base[i] = IF Full THEN queue[i + 1] ELSE queue[i]
      /\ Len(queue) = IF Full THEN Len(base) + 1 ELSE Len(base)
  <2>1. CASE Full
    <3>1. queue # <<>> /\ Len(queue) = CAPACITY - 1
      BY <1>3, <2>1, Constants, EmptySeq DEF Full
    <3>2. /\ Tail(queue) \in Seq(Events) /\ Len(Tail(queue)) = Len(queue) - 1
          /\ \A i \in 1 .. Len(Tail(queue)) : Tail(queue)[i] = queue[i + 1]
      BY <1>3, <3>1, HeadTailProperties
    <3> QED
      BY <1>3, <2>1, <3>1, <3>2, Constants
  <2>2. CASE ~Full
    BY <1>3, <2>2, Constants DEF Full
  <2> QED
    BY <2>1, <2>2
<1> HIDE DEF base
<1>7. /\ queue' \in Seq(Events) /\ Len(queue') = Len(base) + 1
      /\ \A i \in 1 .. Len(base) : queue'[i] = base[i]
      /\ queue'[Len(base) + 1] = event
  BY <1>1, <1>3, <1>6, AppendProperties
<1>8. TypeOK'
  <2>1. late' \in BOOLEAN
    BY <1>1, <1>2 DEF TypeOK
  <2> QED
    BY <1>1, <1>2, <1>6, <1>7, <2>1 DEF TypeOK, Events
<1>9. \A i \in 1 .. Len(base) + 1 :
          queue'[i] = IF Full THEN EventAt(i + 1) ELSE EventAt(i)
  <2> SUFFICES ASSUME NEW i \in 1 .. Len(base) + 1
               PROVE  queue'[i] = IF Full THEN EventAt(i + 1) ELSE EventAt(i)
    OBVIOUS
  <2>1. CASE i = Len(base) + 1
    BY <1>4, <1>6, <1>7, <2>1 DEF EventAt
  <2>2. CASE i # Len(base) + 1
    <3>1. i \in 1 .. Len(base)
      BY <1>6, <2>2
    <3> QED
      BY <1>6, <1>7, <3>1 DEF EventAt
  <2> QED
    BY <2>1, <2>2
<1>10. EventsInv'
  <2> DEFINE Goal(i) == IF queue'[i].pin_state
                        THEN EventAt(i + 1)' = FallOf(queue'[i].pulse)
                        ELSE ~slow' => EventAt(i + 1)' = RiseOf(Following(queue'[i].pulse))
  <2>1. ASSUME NEW i \in 1 .. Len(base) PROVE Goal(i)
    <3>1. i \in 1 .. Len(base) + 1 /\ i + 1 \in 1 .. Len(base) + 1
      BY <1>6
    <3>2. EventAt(i + 1)' = queue'[i + 1]
      BY <1>7, <3>1 DEF EventAt
    <3> DEFINE k == IF Full THEN i + 1 ELSE i
    <3>3. k \in 1 .. Len(queue) /\ queue'[i] = queue[k] /\ queue'[i + 1] = EventAt(k + 1)
      BY <1>6, <1>7, <1>9, <3>1
    <3> HIDE DEF k
    <3>4. IF queue[k].pin_state THEN EventAt(k + 1) = FallOf(queue[k].pulse)
                               ELSE ~slow => EventAt(k + 1) = RiseOf(Following(queue[k].pulse))
      BY <1>2, <3>3 DEF EventsInv
    <3> QED
      BY <1>1, <3>2, <3>3, <3>4
  <2>2. ASSUME NEW i, i = Len(base) + 1 PROVE Goal(i)
    <3>1. queue'[i] = event /\ ~(i + 1 <= Len(queue'))
      BY <1>6, <1>7, <2>2
    <3>2. EventAt(i + 1)' = Coming'
      BY <3>1 DEF EventAt
    <3>3. (queue'[i].pin_state <=> level) /\ queue'[i].pulse = pulse
      BY <3>1
    <3>4. CASE level
      BY <1>5, <3>2, <3>3, <3>4
    <3>5. CASE ~level
      BY <1>1, <1>5, <3>2, <3>3, <3>5
    <3> QED
      BY <3>4, <3>5
  <2>3. \A i \in 1 .. Len(queue') : i \in 1 .. Len(base) \/ i = Len(base) + 1
    BY <1>6, <1>7
  <2>4. \A i \in 1 .. Len(queue') : Goal(i)
    BY <2>1, <2>2, <2>3
  <2> QED
    BY <1>1, <2>4 DEF EventsInv
<1>11. ASSUME ~late' PROVE PairInv'
  <2>1. CASE Full
    BY <1>1, <1>2, <1>11, <2>1 DEF BootInv, PairInv, NoSample
  <2>2. CASE ~Full
    <3>1. 1 \in 1 .. Len(base) + 1 /\ 1 <= Len(queue')
      BY <1>6, <1>7
    <3>2. EventAt(1)' = EventAt(1)
      BY <1>9, <2>2, <3>1 DEF EventAt
    <3> QED
      BY <1>1, <1>2, <1>11, <3>2 DEF PairInv
  <2> QED
    BY <2>1, <2>2
<1>12. BootInv' /\ FilterInv'
  BY <1>1, <1>2 DEF BootInv, FilterInv
<1> QED
  BY <1>8, <1>10, <1>11, <1>12 DEF IInv

-----------------------------------------------------------------------------
(* The filter.                                                               *)

LEMMA AroundNext ==
    ASSUME NEW n \in Indices
    PROVE  /\ NextIndex(n) \in Indices
           /\ Around(n, 0) = n /\ Around(NextIndex(n), SIZE - 1) = n
           /\ \A d \in 1 .. SIZE - 1 : /\ Around(NextIndex(n), d - 1) = Around(n, d)
                                       /\ Around(n, d) \in Indices /\ Around(n, d) # n
<1>1. SIZE \in Nat /\ SIZE > 0 /\ n \in 0 .. SIZE - 1
  BY FilterAssumption DEF Indices
<1>2. NextIndex(n) = IF n = SIZE - 1 THEN 0 ELSE n + 1
  BY <1>1 DEF NextIndex
<1> QED
  BY <1>1, <1>2 DEF Around, Indices

\* The mean of values up to a bound is one of them.
LEMMA MeanBound ==
    ASSUME NEW n \in Nat, n > 0, NEW bound \in Nat, NEW total \in Nat, total <= n * bound
    PROVE  total \div n \in 0 .. bound
<1> DEFINE mean == total \div n
<1>1. mean \in Nat /\ n * mean <= total
  BY SMTT(30)
<1> HIDE DEF mean
<1>2. n * mean \in Nat /\ n * bound \in Nat /\ n * mean <= n * bound
  BY <1>1, SMTT(30)
<1>3. mean <= bound
  <2> SUFFICES ASSUME bound + 1 <= mean PROVE FALSE
    BY <1>1
  <2>1. n * (bound + 1) <= n * mean
    BY <1>1, SMTT(30)
  <2>2. n * (bound + 1) = n * bound + n
    BY SMTT(30)
  <2> QED
    BY <1>2, <2>1, <2>2
<1> QED
  BY <1>1, <1>3 DEF mean

LEMMA FilterUpdate ==
    ASSUME TypeOK, FilterInv, NEW dist \in Distances,
           filter' = Filter_Update(filter, dist),
           recent' = Append(IF Len(recent) = SIZE THEN Tail(recent) ELSE recent, dist)
    PROVE  /\ filter' \in Filters(Distances) /\ Mean(filter') \in Distances
           /\ recent' \in Seq(Distances) /\ Len(recent') <= SIZE
           /\ filter'.data_cnt = Len(recent') /\ filter'.sum = Total(recent')
           /\ \A i \in 1 .. Len(recent') :
                  filter'.buffer[Around(filter'.next_index, SIZE - Len(recent') + i - 1)] = recent'[i]
<1> DEFINE new == filter'
           last == recent'
<1>0. /\ new = Filter_Update(filter, dist)
      /\ last = Append(IF Len(recent) = SIZE THEN Tail(recent) ELSE recent, dist)
  OBVIOUS
<1> HIDE DEF new, last
<1> DEFINE base == IF Len(recent) = SIZE THEN Tail(recent) ELSE recent
           n == filter.next_index
           old == IF filter.data_cnt < SIZE THEN 0 ELSE filter.buffer[n]
<1>1. /\ SIZE \in Nat /\ SIZE > 0 /\ PULSES \in Nat
      /\ recent \in Seq(Distances) /\ Len(recent) \in Nat /\ Len(recent) <= SIZE
      /\ n \in Indices /\ filter.buffer \in [Indices -> Distances]
      /\ filter.data_cnt = Len(recent) /\ filter.sum = Total(recent)
      /\ dist \in Nat /\ Distances \subseteq Nat
  BY Constants, LenProperties DEF TypeOK, FilterInv, Filters, Distances
<1>2. /\ new.buffer = [filter.buffer EXCEPT ![n] = dist]
      /\ new.next_index = NextIndex(n)
      /\ new.data_cnt = IF Len(recent) < SIZE THEN Len(recent) + 1 ELSE SIZE
      /\ new.sum = filter.sum - old + dist
      /\ new = [buffer |-> new.buffer, next_index |-> new.next_index,
                data_cnt |-> new.data_cnt, sum |-> new.sum]
  BY <1>0, <1>1 DEF Filter_Update
<1>3. NextIndex(n) \in Indices /\ Around(n, 0) = n /\ Around(NextIndex(n), SIZE - 1) = n
  BY <1>1, AroundNext
<1>4. /\ base \in Seq(Distances) /\ Len(base) \in Nat
      /\ Len(base) = IF Len(recent) = SIZE THEN SIZE - 1 ELSE Len(recent)
      /\ \A i \in 1 .. Len(base) : base[i] = IF Len(recent) = SIZE THEN recent[i + 1] ELSE recent[i]
      /\ filter.sum - old = Total(base) /\ Total(base) \in Nat
  <2>1. recent \in Seq(Nat)
    BY <1>1, SeqMonotonic
  <2>2. CASE Len(recent) = SIZE
    <3>1. recent # <<>>
      BY <1>1, <2>2, EmptySeq
    <3>2. /\ Tail(recent) \in Seq(Distances) /\ Len(Tail(recent)) = SIZE - 1
          /\ \A i \in 1 .. Len(Tail(recent)) : Tail(recent)[i] = recent[i + 1]
      BY <1>1, <2>2, <3>1, HeadTailProperties
    <3>3. Total(recent) = recent[1] + Total(Tail(recent)) /\ Total(Tail(recent)) \in Nat
      BY <2>1, <3>1, TotalTail
    <3>4. old = recent[1] /\ recent[1] \in Nat
      <4>1. 1 \in 1 .. Len(recent) /\ SIZE - Len(recent) + 1 - 1 = 0
        BY <1>1, <2>2
      <4>2. filter.buffer[n] = recent[1] /\ recent[1] \in Distances
        BY <1>1, <1>3, <4>1, ElementOfSeq DEF FilterInv
      <4>3. ~(filter.data_cnt < SIZE)
        BY <1>1, <2>2
      <4>4. old = filter.buffer[n]
        BY <4>3
      <4> QED
        BY <1>1, <4>2, <4>4
    <3>5. filter.sum - old = Total(Tail(recent))
      BY <1>1, <3>3, <3>4
    <3> QED
      BY <1>1, <2>2, <3>2, <3>3, <3>5
  <2>3. CASE Len(recent) # SIZE
    <3>1. Len(recent) < SIZE /\ old = 0 /\ base = recent
      BY <1>1, <2>3
    <3>2. Total(recent) \in Nat
      BY <2>1, SumsIs, <1>1 DEF Total
    <3> QED
      BY <1>1, <3>1, <3>2
  <2> QED
    BY <2>2, <2>3
<1> HIDE DEF base, old, n
<1>5. /\ last \in Seq(Distances) /\ Len(last) = Len(base) + 1
      /\ \A i \in 1 .. Len(base) : last[i] = base[i]
      /\ last[Len(base) + 1] = dist
  BY <1>0, <1>4, AppendProperties DEF base
<1>6. Len(last) <= SIZE /\ last # <<>> /\ new.data_cnt = Len(last) /\ Len(last) \in 1 .. SIZE
  BY <1>1, <1>2, <1>4, <1>5, EmptySeq
<1>7. new.sum = Total(last) /\ Total(last) \in Nat
  <2>1. base \in Seq(Nat)
    BY <1>1, <1>4, SeqMonotonic
  <2>2. Total(last) = Total(base) + dist
    BY <1>0, <1>1, <2>1, TotalAppend DEF base
  <2> QED
    BY <1>1, <1>2, <1>4, <2>2
<1>8. Mean(new) \in Distances
  <2>1. PULSES + 1 \in Nat /\ last \in Seq(0 .. PULSES + 1)
    BY <1>1, <1>5 DEF Distances
  <2>2. Total(last) <= Len(last) * (PULSES + 1)
    BY <2>1, TotalBound
  <2> DEFINE bound == PULSES + 1
             total == Total(last)
             count == Len(last)
  <2>3. bound \in Nat /\ total \in Nat /\ count \in Nat /\ count > 0
    BY <1>1, <1>6, <1>7, <2>1
  <2>4. total <= count * bound
    BY ONLY <2>2
  <2> HIDE DEF bound, total, count
  <2>5. total \div count \in 0 .. bound
    BY <2>3, <2>4, MeanBound
  <2> QED
    BY <1>6, <1>7, <2>5 DEF Mean, Distances, bound, total, count
<1>9. new \in Filters(Distances)
  <2>1. new.buffer \in [Indices -> Distances]
    BY <1>1, <1>2
  <2>2. new.data_cnt \in 0 .. SIZE
    BY <1>1, <1>6
  <2> QED
    BY <1>2, <1>3, <1>7, <2>1, <2>2 DEF Filters
<1>10. ASSUME NEW i \in 1 .. Len(last)
       PROVE  new.buffer[Around(new.next_index, SIZE - Len(last) + i - 1)] = last[i]
  <2>1. CASE i = Len(last)
    <3>1. SIZE - Len(last) + i - 1 = SIZE - 1
      BY <1>1, <1>6, <2>1
    <3> QED
      BY <1>1, <1>2, <1>3, <1>5, <2>1, <3>1
  <2>2. CASE i # Len(last)
    <3> DEFINE j == IF Len(recent) = SIZE THEN i + 1 ELSE i
               d == SIZE - Len(recent) + j - 1
    <3>1. /\ i \in 1 .. Len(base) /\ j \in 1 .. Len(recent)
          /\ d \in 1 .. SIZE - 1 /\ SIZE - Len(last) + i - 1 = d - 1
      BY <1>1, <1>4, <1>5, <2>2
    <3>2. last[i] = recent[j]
      BY <1>4, <1>5, <3>1
    <3>3. filter.buffer[Around(n, d)] = recent[j]
      BY <3>1 DEF FilterInv, n
    <3> HIDE DEF j, d
    <3>4. /\ Around(NextIndex(n), d - 1) = Around(n, d)
          /\ Around(n, d) \in Indices /\ Around(n, d) # n
      BY <1>1, <3>1, AroundNext
    <3> QED
      BY <1>1, <1>2, <3>1, <3>2, <3>3, <3>4
  <2> QED
    BY <2>1, <2>2
<1> QED
  BY <1>5, <1>6, <1>7, <1>8, <1>9, <1>10 DEF new, last

-----------------------------------------------------------------------------
(* The loop.                                                                 *)

\* The event due is taken out of the queue.
LEMMA PopEvents ==
    ASSUME IInv, Pop
    PROVE  /\ queue' \in Seq(Events) /\ Len(queue') < CAPACITY
           /\ processed' \in 0 .. MAX_EVENTS
           /\ EventsInv'
           /\ Head(queue) = EventAt(1)
           /\ EventAt(1).pin_state \in BOOLEAN /\ EventAt(1).pulse \in Pulses
           /\ IF EventAt(1).pin_state
              THEN EventAt(1)' = FallOf(EventAt(1).pulse)
              ELSE ~slow => EventAt(1)' = RiseOf(Following(EventAt(1).pulse))
<1>1. /\ queue # <<>> /\ queue' = Tail(queue)
      /\ processed < MAX_EVENTS /\ processed' = processed + 1
      /\ UNCHANGED <<pulse, level, pending, isr, pc, kept, slow, late>>
  BY DEF Pop, sensor, interrupt, timing
<1>2. TypeOK /\ EventsInv
  BY DEF IInv
<1>3. /\ queue \in Seq(Events) /\ Len(queue) \in Nat \ {0} /\ Len(queue) < CAPACITY
      /\ processed' \in 0 .. MAX_EVENTS
  BY <1>1, <1>2, Constants, EmptySeq DEF TypeOK, Events
<1>4. /\ queue' \in Seq(Events) /\ Len(queue') = Len(queue) - 1
      /\ \A i \in 1 .. Len(queue') : queue'[i] = queue[i + 1]
  BY <1>1, <1>3, HeadTailProperties
<1>5. Coming' = Coming
  BY <1>1 DEF Coming, Served
<1>6. \A i \in Nat \ {0} : EventAt(i)' = EventAt(i + 1)
  BY <1>3, <1>4, <1>5 DEF EventAt
<1>7. 1 \in 1 .. Len(queue) /\ Head(queue) = queue[1] /\ EventAt(1) = queue[1]
  BY <1>1, <1>3 DEF EventAt
<1>8. EventsInv'
  <2> SUFFICES ASSUME NEW i \in 1 .. Len(queue')
               PROVE  IF queue'[i].pin_state
                      THEN EventAt(i + 1)' = FallOf(queue'[i].pulse)
                      ELSE ~slow => EventAt(i + 1)' = RiseOf(Following(queue'[i].pulse))
    BY <1>1, <1>2 DEF EventsInv
  <2>1. i + 1 \in 1 .. Len(queue) /\ queue'[i] = queue[i + 1] /\ i + 1 \in Nat \ {0}
    BY <1>3, <1>4
  <2>2. EventAt(i + 1)' = EventAt((i + 1) + 1)
    BY <1>6, <2>1
  <2> QED
    BY <1>2, <2>1, <2>2 DEF EventsInv
<1>9. EventAt(1).pin_state \in BOOLEAN /\ EventAt(1).pulse \in Pulses
  <2>1. queue[1] \in Events
    BY <1>3, <1>7, ElementOfSeq
  <2> QED
    BY <1>7, <2>1 DEF Events
<1>10. EventAt(1)' = EventAt(1 + 1)
  BY <1>6
<1>11. IF queue[1].pin_state THEN EventAt(1 + 1) = FallOf(queue[1].pulse)
                             ELSE ~slow => EventAt(1 + 1) = RiseOf(Following(queue[1].pulse))
  BY <1>2, <1>7 DEF EventsInv
<1>12. IF EventAt(1).pin_state
       THEN EventAt(1)' = FallOf(EventAt(1).pulse)
       ELSE ~slow => EventAt(1)' = RiseOf(Following(EventAt(1).pulse))
  BY <1>7, <1>10, <1>11
<1>13. Len(queue') < CAPACITY
  BY <1>3, <1>4, Constants
<1> QED
  BY <1>3, <1>4, <1>7, <1>8, <1>9, <1>12, <1>13

\* What every step that takes an event leaves to show.
LEMMA PopIInv ==
    ASSUME IInv, Pop, last_rise_time' \in 0 .. PULSES, filter' \in Filters(Distances),
           latest_data' \in Samples, data_ready' \in BOOLEAN,
           recent' \in Seq(Distances), Len(recent') <= SIZE,
           ~late => PairInv', FilterInv'
    PROVE  IInv'
<1>1. /\ pc = "pop"
      /\ UNCHANGED <<pulse, level, pending, isr, pc, kept, slow, late>>
  BY DEF Pop, sensor, interrupt, timing
<1>2. TypeOK'
  BY <1>1, PopEvents DEF IInv, TypeOK, Events
<1> QED
  BY <1>1, <1>2, PopEvents DEF IInv, BootInv

LEMMA RiseIInv == ASSUME IInv, Rise PROVE IInv'
<1>1. /\ Pop /\ Head(queue).pin_state /\ last_rise_time' = Head(queue).pulse
      /\ UNCHANGED <<filter, latest_data, data_ready, recent, slow, late>>
  BY DEF Rise, Pop, sample, timing
<1>2. TypeOK /\ (~late => PairInv) /\ FilterInv
  BY DEF IInv
<1>3. /\ EventAt(1).pin_state /\ last_rise_time' = EventAt(1).pulse
      /\ last_rise_time' \in Pulses
      /\ EventAt(1)' = FallOf(last_rise_time')
  BY <1>1, PopEvents
<1>4. last_rise_time' # 0 /\ last_rise_time' \in 0 .. PULSES
  BY <1>3, Constants
<1>5. ASSUME ~late PROVE PairInv'
  BY <1>1, <1>2, <1>3, <1>4, <1>5 DEF PairInv, FallOf, RiseOf
<1>6. FilterInv'
  BY <1>1, <1>2 DEF FilterInv
<1> QED
  BY <1>1, <1>2, <1>4, <1>5, <1>6, PopIInv DEF TypeOK

LEMMA LoneFallIInv == ASSUME IInv, LoneFall PROVE IInv'
<1>1. /\ Pop /\ ~Head(queue).pin_state /\ last_rise_time = 0
      /\ UNCHANGED <<last_rise_time, filter, latest_data, data_ready, recent, slow, late>>
  BY DEF LoneFall, Pop, sample, timing
<1>2. TypeOK /\ (~late => PairInv) /\ FilterInv
  BY DEF IInv
<1>3. ~EventAt(1).pin_state
  BY <1>1, PopEvents
<1>4. ASSUME ~late PROVE PairInv'
  BY <1>1, <1>2, <1>3, <1>4 DEF PairInv, RiseOf
<1>5. FilterInv'
  BY <1>1, <1>2 DEF FilterInv
<1> QED
  BY <1>1, <1>2, <1>4, <1>5, PopIInv DEF TypeOK

\* The fall is that of the rise, unless the queue has overflowed.
LEMMA FallTakes ==
    ASSUME IInv, Fall
    PROVE  /\ latest_data' \in Samples /\ latest_data'.rise = last_rise_time
           /\ latest_data'.rise # 0
           /\ ~late => latest_data'.fall = last_rise_time /\ Head(queue) = FallOf(last_rise_time)
           /\ filter' \in Filters(Distances) /\ recent' \in Seq(Distances) /\ Len(recent') <= SIZE
           /\ FilterInv'
<1> DEFINE fall == Head(queue).pulse
           dist == Distance(last_rise_time, fall)
<1>1. /\ Pop /\ last_rise_time # 0
      /\ filter' = Filter_Update(filter, dist)
      /\ latest_data' = [rise |-> last_rise_time, fall |-> fall,
                         dist_raw_mm |-> dist, dist_filt_mm |-> Mean(filter')]
      /\ recent' = Append(IF Len(recent) = SIZE THEN Tail(recent) ELSE recent, dist)
  BY DEF Fall
<1>2. TypeOK /\ (~late => PairInv) /\ FilterInv /\ last_rise_time \in 0 .. PULSES
  BY DEF IInv, TypeOK
<1>3. fall \in Pulses /\ Head(queue) = EventAt(1)
  BY <1>1, PopEvents
<1>4. dist \in Distances /\ fall \in 0 .. PULSES
  BY <1>2, <1>3, Constants DEF Distance, Distances, Pulses
<1> HIDE DEF dist
<1>5. /\ filter' \in Filters(Distances) /\ Mean(filter') \in Distances
      /\ recent' \in Seq(Distances) /\ Len(recent') <= SIZE
      /\ filter'.data_cnt = Len(recent') /\ filter'.sum = Total(recent')
      /\ \A i \in 1 .. Len(recent') :
             filter'.buffer[Around(filter'.next_index, SIZE - Len(recent') + i - 1)] = recent'[i]
  BY <1>1, <1>2, <1>4, FilterUpdate
<1>6. FilterInv'
  BY <1>1, <1>5 DEF FilterInv
<1>7. latest_data' \in Samples
  BY <1>1, <1>2, <1>4, <1>5 DEF Samples
<1>8. ~late => Head(queue) = FallOf(last_rise_time)
  BY <1>1, <1>2, <1>3 DEF PairInv
<1>9. ~late => fall = last_rise_time
  BY <1>8 DEF FallOf
<1> QED
  BY <1>1, <1>5, <1>6, <1>7, <1>8, <1>9

LEMMA FallIInv == ASSUME IInv, Fall PROVE IInv'
<1>1. /\ Pop /\ ~Head(queue).pin_state /\ last_rise_time' = 0 /\ data_ready' = TRUE
      /\ UNCHANGED <<slow, late>>
  BY DEF Fall, Pop, timing
<1>2. ASSUME ~late PROVE PairInv'
  <2>1. latest_data'.rise = last_rise_time /\ latest_data'.fall = last_rise_time
    BY <1>2, FallTakes
  <2>2. EventAt(1) = FallOf(last_rise_time)
    BY <1>1, <1>2, FallTakes, PopEvents
  <2>3. ~slow => EventAt(1)' = RiseOf(Following(last_rise_time))
    BY <1>1, <2>2, PopEvents DEF FallOf
  <2> QED
    BY <1>1, <2>1, <2>3 DEF PairInv
<1>3. last_rise_time' \in 0 .. PULSES
  BY <1>1, Constants
<1> QED
  BY <1>1, <1>2, <1>3, FallTakes, PopIInv

\* Steps that move no event.
LEMMA RestIInv ==
    ASSUME IInv, StartLoop \/ Enter \/ Leave \/ Service1_Ultrasonic \/ UNCHANGED vars
    PROVE  IInv'
<1> USE DEF IInv, TypeOK, EventsInv, EventAt, Coming, Served, PairInv, BootInv, FilterInv,
            sensor, interrupt, sample, timing
<1>1. CASE StartLoop
  BY <1>1 DEF StartLoop
<1>2. CASE Enter
  BY <1>2, Constants DEF Enter
<1>3. CASE Leave
  BY <1>3 DEF Leave
<1>4. CASE Service1_Ultrasonic
  BY <1>4 DEF Service1_Ultrasonic
<1>5. CASE UNCHANGED vars
  BY <1>5 DEF vars, loop
<1> QED
  BY <1>1, <1>2, <1>3, <1>4, <1>5

LEMMA Invariance == Spec => []IInv
<1>1. IInv /\ [Next]_vars => IInv'
  BY EchoIInv, HandlerIInv, RiseIInv, LoneFallIInv, FallIInv, RestIInv
  DEF Next, Ultrasonic_ProcessQueue
<1> QED
  BY InitIInv, <1>1, PTL DEF Spec

-----------------------------------------------------------------------------
(* The theorems.                                                             *)

\* Ultrasonic.c:69, avg_filter.c:22: the queue, the filter and the loop stay within
\* their bounds, and a filtered distance is one that can be measured.
THEOREM TypeCorrect == Spec => []TypeOK
  BY Invariance, PTL DEF IInv

\* Ultrasonic.c:84: however late the interrupt and whatever start-up left in the
\* queue, a fall is paired with the rise of its own pulse until the queue of a
\* running loop overflows.
THEOREM PairsCorrect == Spec => []DistanceOfOnePulse
<1>1. IInv => DistanceOfOnePulse
  BY DEF IInv, PairInv, DistanceOfOnePulse
<1> QED
  BY <1>1, Invariance, PTL

\* avg_filter.c:22: for any size of the filter the running sum never drifts from
\* the sum of the last distances.
THEOREM FilterCorrect == Spec => []FilteredIsMeanOfLast
<1>1. IInv => FilteredIsMeanOfLast
  BY DEF IInv, FilterInv, FilteredIsMeanOfLast, Mean
<1> QED
  BY <1>1, Invariance, PTL

\* Ultrasonic.c:78: neither the limit of events per call nor an empty queue between
\* a rise and its fall loses a pulse.
THEOREM NoPulseSkipped == Spec => EveryPulseFollows
<1>1. ASSUME IInv, [Next]_vars
      PROVE  [~late' /\ ~slow' /\ Fall /\ latest_data # NoSample =>
                  latest_data'.rise = Following(latest_data.rise)]_vars
  <2> SUFFICES ASSUME ~late', ~slow', Fall, latest_data # NoSample
               PROVE  latest_data'.rise = Following(latest_data.rise)
    OBVIOUS
  <2>1. ~late /\ ~slow /\ last_rise_time # 0
    BY DEF Fall, Pop, timing
  <2>2. last_rise_time = Following(latest_data.rise)
    BY <1>1, <2>1 DEF IInv, PairInv
  <2> QED
    BY <1>1, <2>2, FallTakes
<1> QED
  BY <1>1, Invariance, PTL DEF Spec, EveryPulseFollows

=============================================================================
