---------------------------- MODULE TimersProofs -----------------------------
(* What counts time on the board: the periods of the lwIP timers, none of     *)
(* which is lost for any periods and any PHY, and the read of the system      *)
(* timer, for every width of its halves.                                     *)
EXTENDS LwipTimers, StmClock, WellFoundedInduction, TLAPS

-----------------------------------------------------------------------------
(* The lwIP timers.                                                          *)

\* Interrupts are disabled exactly while the flags are exchanged.  This is what
\* keeps the interrupt out of the moment between reading and clearing.
Masked == enabled = (pc \notin {"read", "clear", "restore"})

\* The flags to be cleared are the ones that were read, and nothing is left
\* over from the last poll when the next one begins.
Exchange ==
    /\ pc = "clear" => timerFlags = taken
    /\ pc \in {"disable", "read"} => taken = {}
    /\ pc = "tcp_slow" => "tcp_fast" \notin taken
    /\ pc = "arp" => taken \subseteq {"arp", "link"}
    /\ pc \in {"link", "status"} => taken \subseteq {"link"}
    /\ pc = "status" => "link" \in taken

IInv == TypeOK /\ Masked /\ Exchange /\ NoPeriodLost

\* A tick of the interrupt, which only comes outside the exchange.
LEMMA TickKeeps == IInv /\ onTimerTick => IInv'
  <1> SUFFICES ASSUME IInv, onTimerTick PROVE IInv'
    OBVIOUS
  <1>1. Ended \subseteq Timers
    BY DEF Ended
  <1>2. pc \notin {"read", "clear", "restore"}
    BY DEF IInv, Masked, onTimerTick
  <1>3. timer' \in [Timers -> Nat] /\ \A t \in Timers : timer'[t] < PERIOD[t]
    BY TimersAssumption DEF onTimerTick, IInv, TypeOK, Ended
  <1>4. TypeOK'
    BY <1>1, <1>3 DEF onTimerTick, IInv, TypeOK, linkVars
  <1>5. Masked' /\ Exchange' /\ NoPeriodLost'
    BY <1>1, <1>2 DEF onTimerTick, IInv, Masked, Exchange, NoPeriodLost
  <1> QED  BY <1>4, <1>5 DEF IInv

\* The exchange of the flags.
LEMMA ExchangeKeeps ==
    IInv /\ (DisableInterrupts \/ ReadFlags \/ ClearFlags \/ RestoreInterrupts) => IInv'
  <1> SUFFICES ASSUME IInv,
                      DisableInterrupts \/ ReadFlags \/ ClearFlags \/ RestoreInterrupts
               PROVE  IInv'
    OBVIOUS
  <1> USE DEF IInv, TypeOK, Masked, Exchange, NoPeriodLost, isrVars, linkVars, Timers
  <1>1. CASE DisableInterrupts
    BY <1>1 DEF DisableInterrupts
  <1>2. CASE ReadFlags
    BY <1>2 DEF ReadFlags
  <1>3. CASE ClearFlags
    BY <1>3 DEF ClearFlags
  <1>4. CASE RestoreInterrupts
    BY <1>4 DEF RestoreInterrupts
  <1> QED  BY <1>1, <1>2, <1>3, <1>4

\* The services, in their order.
LEMMA ServicesKeep ==
    IInv /\ ((\E t \in Timers : Serve(t)) \/ ReadPhyMode \/ ApplyLinkStatus \/ NoLinkFlag)
        => IInv'
  <1> SUFFICES ASSUME IInv,
                      \/ \E t \in Timers : Serve(t)
                      \/ ReadPhyMode \/ ApplyLinkStatus \/ NoLinkFlag
               PROVE  IInv'
    OBVIOUS
  <1> USE DEF IInv, TypeOK, Masked, Exchange, NoPeriodLost, isrVars, linkVars, Timers
  <1>1. ASSUME NEW t \in Timers, Serve(t) PROVE IInv'
    <2>1. CASE t = "tcp_fast"
      BY <1>1, <2>1 DEF Serve, After
    <2>2. CASE t = "tcp_slow"
      BY <1>1, <2>2 DEF Serve, After
    <2>3. CASE t = "arp"
      BY <1>1, <2>3 DEF Serve, After
    <2> QED  BY <1>1, <2>1, <2>2, <2>3 DEF Serve
  <1>2. CASE ReadPhyMode
    BY <1>2 DEF ReadPhyMode, Phy
  <1>3. CASE ApplyLinkStatus
    BY <1>3 DEF ApplyLinkStatus, After, Phy
  <1>4. CASE NoLinkFlag
    BY <1>4 DEF NoLinkFlag, After
  <1> QED  BY <1>1, <1>2, <1>3, <1>4

\* The invariant is inductive.
THEOREM Inductive == Spec => []IInv
  <1>1. Init => IInv
    <2>1. Init => /\ timer \in [Timers -> Nat]
                  /\ \A t \in Timers : timer[t] < PERIOD[t]
      BY TimersAssumption DEF Init
    <2>2. Init => Masked /\ Exchange /\ NoPeriodLost
      BY DEF Init, Masked, Exchange, NoPeriodLost
    <2> QED  BY <2>1, <2>2 DEF Init, IInv, TypeOK
  <1>2. IInv /\ [Next]_vars => IInv'
    <2>1. IInv /\ PhyChanges => IInv'
      BY DEF PhyChanges, IInv, TypeOK, Masked, Exchange, NoPeriodLost, isrVars, linkVars
    <2>2. IInv /\ UNCHANGED vars => IInv'
      BY DEF vars, IInv, TypeOK, Masked, Exchange, NoPeriodLost, isrVars, linkVars
    <2> QED  BY <2>1, <2>2, TickKeeps, ExchangeKeeps, ServicesKeep DEF Next, Poll
  <1> QED  BY <1>1, <1>2, PTL DEF Spec

\* Every variable keeps its type; a counter stays below its period.
THEOREM TypeCorrect == Spec => []TypeOK
  <1>1. IInv => TypeOK
    BY DEF IInv
  <1> QED  BY <1>1, Inductive, PTL

\* No period that ended is forgotten, none is attended to twice.
THEOREM NothingLost == Spec => []NoPeriodLost
  <1>1. IInv => NoPeriodLost
    BY DEF IInv
  <1> QED  BY <1>1, Inductive, PTL

-----------------------------------------------------------------------------
(* The system timer.                                                         *)

\* The order of times is one: needed whenever the counter advances during or
\* after a call.
LEMMA NotAfterTransitive ==
    ASSUME NEW r \in Times, NEW s \in Times, NEW t \in Times,
           NotAfter(r, s), NotAfter(s, t)
    PROVE  NotAfter(r, t)
  BY DEF NotAfter, Times, Uppers, Lowers

LEMMA NotAfterReflexive ==
    ASSUME NEW t \in Times
    PROVE  NotAfter(t, t)
  BY DEF NotAfter, Times, Uppers, Lowers

-----------------------------------------------------------------------------

\* What a call under way has: the upper half it loaded lies between those at the
\* call and now; and if the counter still has that upper half, then the pair
\* loaded lies between the call and now.
InCall ==
    /\ load # "idle" => NotAfter(called, time)
    /\ load \in {"lower", "again"} => called.upper <= upper1 /\ upper1 <= time.upper
    /\ load = "again" /\ upper1 = time.upper =>
           /\ NotAfter(called, [upper |-> upper1, lower |-> lower])
           /\ NotAfter([upper |-> upper1, lower |-> lower], time)

ReadInv == StmTypeOK /\ InCall /\ ReadWithinCall

LEMMA InitReadInv == StmInit => ReadInv
  BY StmAssumption DEF StmInit, ReadInv, StmTypeOK, InCall, ReadWithinCall, NotAfter, Times, Uppers, Lowers

LEMMA AdvanceReadInv == ReadInv /\ Advance => ReadInv'
<1> SUFFICES ASSUME ReadInv, Advance PROVE ReadInv'
    OBVIOUS
<1> DEFINE pair == [upper |-> upper1, lower |-> lower]
<1>1. NotAfter(time, time') /\ time' \in Times
    BY DEF Advance
<1>2. UNCHANGED <<load, upper1, lower, result, called>>
    BY DEF Advance
<1>3. StmTypeOK'
    BY <1>1, <1>2 DEF ReadInv, StmTypeOK
<1>4. time \in Times /\ called \in Times /\ result \in Times /\ pair \in Times
    BY DEF ReadInv, StmTypeOK, Times
<1>5. time.upper <= time'.upper
    BY <1>1, <1>4 DEF NotAfter, Times, Uppers
<1>6. InCall'
  <2>1. (load # "idle" => NotAfter(called, time))'
      BY <1>1, <1>2, <1>4, NotAfterTransitive DEF ReadInv, InCall
  <2>2. (load \in {"lower", "again"} => called.upper <= upper1 /\ upper1 <= time.upper)'
      BY <1>1, <1>2, <1>4, <1>5 DEF ReadInv, InCall, StmTypeOK, Times, Uppers
  <2>3. ASSUME load' = "again", upper1' = time'.upper
        PROVE  NotAfter(called, pair) /\ NotAfter(pair, time')
    <3>1. upper1 = time.upper
        BY <2>3, <1>1, <1>2, <1>4, <1>5 DEF ReadInv, InCall, StmTypeOK, Times, Uppers
    <3>2. NotAfter(called, pair) /\ NotAfter(pair, time)
        BY <3>1, <2>3, <1>2 DEF ReadInv, InCall
    <3> QED
        BY <3>2, <1>1, <1>4, NotAfterTransitive
  <2> QED
      BY <2>1, <2>2, <2>3, <1>2 DEF InCall
<1>7. ReadWithinCall'
    BY <1>1, <1>2, <1>4, NotAfterTransitive DEF ReadInv, ReadWithinCall
<1> QED
    BY <1>3, <1>6, <1>7 DEF ReadInv

LEMMA CallReadInv == ReadInv /\ STM0_getTime10ns => ReadInv'
<1> SUFFICES ASSUME ReadInv, STM0_getTime10ns PROVE ReadInv'
    OBVIOUS
<1> USE DEF ReadInv, StmTypeOK, InCall, ReadWithinCall
<1>1. CASE Call
    BY <1>1, NotAfterReflexive DEF Call
<1>2. CASE LoadUpper
    BY <1>2 DEF LoadUpper, NotAfter, Times, Uppers, Lowers
<1>3. CASE LoadLower
    BY <1>3 DEF LoadLower, NotAfter, Times, Uppers, Lowers
<1>4. CASE Accept
    BY <1>4 DEF Accept, Times
<1>5. CASE Retry
    BY <1>5 DEF Retry
<1> QED
    BY <1>1, <1>2, <1>3, <1>4, <1>5 DEF STM0_getTime10ns

\* The registers of a read in progress bracket the counter at every point.
THEOREM ReadInvariance == StmSpec => []ReadInv
<1>1. ReadInv /\ UNCHANGED stmVars => ReadInv'
    BY DEF ReadInv, StmTypeOK, InCall, ReadWithinCall, stmVars
<1>2. ReadInv /\ [StmNext]_stmVars => ReadInv'
    BY <1>1, AdvanceReadInv, CallReadInv DEF StmNext
<1> QED
    BY InitReadInv, <1>2, PTL DEF StmSpec

\* STM0_getTime10ns never returns a torn pair, whatever the widths and however
\* far the counter runs between its loads.
THEOREM NoTornRead == StmSpec => []ReadWithinCall
  BY ReadInvariance, PTL DEF ReadInv

-----------------------------------------------------------------------------
(* Powers of two.                                                            *)

LEMMA LeastOf ==
    ASSUME NEW T, T \subseteq Nat, T # {}
    PROVE  \E n \in T : \A m \in T : n <= m
<1> DEFINE less == {pair \in Nat \X Nat : pair[1] < pair[2]}
<1>1. IsWellFoundedOn(less, Nat)
  BY NatLessThanWellFounded, Zenon DEF OpToRel
<1> HIDE DEF less
<1>2. PICK n \in T : \A m \in T : ~ (<<m, n>> \in less)
  BY <1>1, WFMin
<1>3. ASSUME NEW m \in T PROVE n <= m
  <2>1. ~ (<<m, n>> \in less) /\ m \in Nat /\ n \in Nat
    BY <1>2
  <2> QED
    BY <2>1 DEF less
<1> QED
  BY <1>3

\* Induction from a number on, over a set.
LEMMA From ==
    ASSUME NEW a \in Nat, NEW T, a \in T, \A i \in Nat : i >= a /\ i \in T => i + 1 \in T
    PROVE  \A i \in Nat : i >= a => i \in T
<1> DEFINE missing == {i \in Nat : i >= a /\ i \notin T}
<1> SUFFICES ASSUME missing # {} PROVE FALSE
  OBVIOUS
<1>1. PICK i \in missing : \A j \in missing : i <= j
  <2>1. missing \subseteq Nat
    OBVIOUS
  <2> HIDE DEF missing
  <2> QED
    BY <2>1, LeastOf
<1>2. i \in Nat /\ i >= a /\ i \notin T /\ i # a
  OBVIOUS
<1>3. i - 1 \in Nat /\ i - 1 >= a /\ (i - 1) + 1 = i /\ ~(i <= i - 1)
  BY <1>2
<1>4. i - 1 \in T
  BY <1>1, <1>3
<1> QED
  BY <1>2, <1>3, <1>4

\* The first powers, as a table.
Tables(k) == {f \in [0 .. k -> Nat] : \A e \in 0 .. k : f[e] = IF e = 0 THEN 1 ELSE 2 * f[e - 1]}

LEMMA TableStep ==
    ASSUME NEW k \in Nat, NEW f \in Tables(k)
    PROVE  /\ \A e \in 0 .. k : f[e] \in Nat
           /\ f[0] = 1 /\ \A e \in 0 .. k - 1 : f[e + 1] = 2 * f[e]
<1>1. \A e \in 0 .. k - 1 : e + 1 \in 0 .. k /\ e + 1 # 0 /\ (e + 1) - 1 = e
  OBVIOUS
<1> QED
  BY <1>1 DEF Tables

LEMMA TableExists == \A k \in Nat : Tables(k) # {}
<1> DEFINE T == {k \in Nat : Tables(k) # {}}
<1>1. 0 \in T
  <2> DEFINE f == [e \in 0 .. 0 |-> 1]
  <2>1. f \in Tables(0)
    BY DEF Tables
  <2> QED
    BY <2>1
<1>2. ASSUME NEW k \in Nat, k \in T PROVE k + 1 \in T
  <2>1. PICK f \in Tables(k) : TRUE
    BY <1>2
  <2> DEFINE g == [e \in 0 .. k + 1 |-> IF e = k + 1 THEN 2 * f[k] ELSE f[e]]
  <2>2. g \in [0 .. k + 1 -> Nat]
    BY TableStep
  <2>3. ASSUME NEW e \in 0 .. k + 1 PROVE g[e] = IF e = 0 THEN 1 ELSE 2 * g[e - 1]
    <3>1. CASE e = k + 1
      BY <3>1
    <3>2. CASE e # k + 1
      <4>1. e \in 0 .. k /\ (e # 0 => e - 1 \in 0 .. k)
        BY <3>2
      <4>2. f[e] = IF e = 0 THEN 1 ELSE 2 * f[e - 1]
        BY <2>1, <4>1 DEF Tables
      <4> QED
        BY <4>1, <4>2
    <3> QED
      BY <3>1, <3>2
  <2> HIDE DEF g
  <2>4. g \in Tables(k + 1)
    BY <2>2, <2>3 DEF Tables
  <2> QED
    BY <2>4
<1> HIDE DEF T
<1>3. \A k \in Nat : k \in T
  BY <1>1, <1>2, From
<1> QED
  BY <1>3 DEF T

LEMMA TablesAgree ==
    ASSUME NEW k \in Nat, NEW f \in Tables(k), NEW g \in Tables(k + 1)
    PROVE  f[k] = g[k]
<1> DEFINE Same == {e \in Nat : e <= k => f[e] = g[e]}
<1>1. 0 \in Same
  BY TableStep
<1>2. ASSUME NEW e \in Nat, e \in Same PROVE e + 1 \in Same
  <2> SUFFICES ASSUME e + 1 <= k PROVE f[e + 1] = g[e + 1]
    OBVIOUS
  <2>1. e \in 0 .. k - 1 /\ e \in 0 .. (k + 1) - 1
    OBVIOUS
  <2>2. f[e + 1] = 2 * f[e] /\ g[e + 1] = 2 * g[e]
    BY <2>1, TableStep
  <2> QED
    BY <1>2, <2>1, <2>2
<1> HIDE DEF Same
<1>3. \A e \in Nat : e >= 0 => e \in Same
  BY <1>1, <1>2, From
<1> QED
  BY <1>3 DEF Same

\* The recursive definition defines a function: its values are the last ones of
\* the tables.
LEMMA PowerIs ==
    /\ Power \in [Nat -> Nat]
    /\ Power[0] = 1
    /\ \A e \in Nat : Power[e + 1] = 2 * Power[e]
<1> DEFINE table(k) == CHOOSE f : f \in Tables(k)
           p == [k \in Nat |-> table(k)[k]]
<1>1. \A k \in Nat : table(k) \in Tables(k)
  BY TableExists
<1> HIDE DEF table
<1>2. table(0)[0] = 1
  BY <1>1, TableStep
<1>3. ASSUME NEW k \in Nat PROVE table(k + 1)[k + 1] = 2 * table(k)[k]
  <2>1. table(k) \in Tables(k) /\ table(k + 1) \in Tables(k + 1)
    BY <1>1
  <2>2. table(k)[k] = table(k + 1)[k]
    BY <2>1, TablesAgree
  <2>3. k \in 0 .. (k + 1) - 1
    OBVIOUS
  <2>4. table(k + 1)[k + 1] = 2 * table(k + 1)[k]
    BY <2>1, <2>3, TableStep
  <2> QED
    BY <2>2, <2>4
<1>4. ASSUME NEW e \in Nat PROVE p[e] = IF e = 0 THEN 1 ELSE 2 * p[e - 1]
  <2>1. CASE e = 0
    BY <1>2, <2>1
  <2>2. CASE e # 0
    <3>1. e - 1 \in Nat /\ (e - 1) + 1 = e
      BY <2>2
    <3>2. table(e)[e] = 2 * table(e - 1)[e - 1]
      BY <1>3, <3>1
    <3> QED
      BY <2>2, <3>1, <3>2
  <2> QED
    BY <2>1, <2>2
<1>5. p = [e \in Nat |-> IF e = 0 THEN 1 ELSE 2 * p[e - 1]]
  BY <1>4
<1> HIDE DEF p
<1>6. Power = [e \in Nat |-> IF e = 0 THEN 1 ELSE 2 * Power[e - 1]]
  BY <1>5 DEF Power
<1> DEFINE q == Power
<1> HIDE DEF q
<1>7. q = [e \in Nat |-> IF e = 0 THEN 1 ELSE 2 * q[e - 1]]
  BY <1>6 DEF q
<1>8. \A e \in Nat : q[e] = IF e = 0 THEN 1 ELSE 2 * q[e - 1]
  BY <1>7
<1>9. \A e \in Nat : e + 1 \in Nat /\ e + 1 # 0 /\ (e + 1) - 1 = e
  OBVIOUS
<1>10. q[0] = 1 /\ \A e \in Nat : q[e + 1] = 2 * q[e]
  BY <1>8, <1>9
<1>11. \A e \in Nat : q[e] \in Nat
  <2> DEFINE N == {e \in Nat : q[e] \in Nat}
  <2>1. 0 \in N /\ \A e \in Nat : e \in N => e + 1 \in N
    BY <1>10
  <2> HIDE DEF N
  <2>2. \A e \in Nat : e >= 0 => e \in N
    BY <2>1, From
  <2> QED
    BY <2>2 DEF N
<1>12. q \in [Nat -> Nat]
  BY <1>7, <1>11
<1> QED
  BY <1>10, <1>12 DEF q

LEMMA PowerAbove == \A e \in Nat : Power[e] \in Nat /\ Power[e] > e
<1> DEFINE T == {e \in Nat : Power[e] > e}
<1>1. 0 \in T
  BY PowerIs
<1>2. ASSUME NEW e \in Nat, e \in T PROVE e + 1 \in T
  <2>1. Power[e] \in Nat /\ Power[e] > e /\ Power[e + 1] = 2 * Power[e]
    BY <1>2, PowerIs
  <2> QED
    BY <2>1
<1> HIDE DEF T
<1>3. \A e \in Nat : e \in T
  BY <1>1, <1>2, From
<1> QED
  BY <1>3, PowerIs DEF T

LEMMA PowerGrows == ASSUME NEW e \in Nat, NEW f \in Nat, e <= f PROVE Power[e] <= Power[f]
<1> DEFINE T == {i \in Nat : Power[e] <= Power[i]}
<1>1. e \in T
  BY PowerAbove
<1>2. ASSUME NEW i \in Nat, i >= e, i \in T PROVE i + 1 \in T
  <2>1. Power[e] \in Nat /\ Power[i] \in Nat /\ Power[e] <= Power[i] /\ Power[i + 1] = 2 * Power[i]
    BY <1>2, PowerIs
  <2> QED
    BY <2>1
<1> HIDE DEF T
<1>3. \A i \in Nat : i >= e => i \in T
  BY <1>1, <1>2, From
<1> QED
  BY <1>3 DEF T

-----------------------------------------------------------------------------
(* Rounding.                                                                 *)

LEMMA Products ==
    ASSUME NEW a \in Nat, NEW b \in Nat, NEW c \in Nat, a <= b
    PROVE  a * c <= b * c /\ c * a <= c * b
  OBVIOUS

LEMMA Division ==
    ASSUME NEW a \in Nat, NEW b \in Nat \ {0}
    PROVE  a \div b \in Nat /\ a % b \in Nat /\ a = (a \div b) * b + (a % b)
  OBVIOUS

LEMMA NearestNat == ASSUME NEW a \in Nat, NEW b \in Nat \ {0} PROVE Nearest(a, b) \in Nat
  BY Division DEF Nearest

LEMMA NearestMonotone ==
    ASSUME NEW a \in Nat, NEW c \in Nat, NEW b \in Nat \ {0}, a <= c
    PROVE  Nearest(a, b) <= Nearest(c, b)
<1>1. a \div b <= c \div b
  OBVIOUS
<1>2. /\ a \div b \in Nat /\ a % b \in Nat /\ a = (a \div b) * b + (a % b)
      /\ c \div b \in Nat /\ c % b \in Nat /\ c = (c \div b) * b + (c % b)
  BY Division
<1>3. CASE a \div b < c \div b
  BY <1>2, <1>3 DEF Nearest
<1>4. CASE a \div b = c \div b
  <2>1. a % b <= c % b
    BY <1>2, <1>4
  <2> QED
    BY <1>2, <1>4, <2>1 DEF Nearest
<1> QED
  BY <1>1, <1>2, <1>3, <1>4

LEMMA NearestExact == ASSUME NEW k \in Nat, NEW b \in Nat \ {0} PROVE Nearest(k * b, b) = k
<1>1. (k * b) \div b = k /\ (k * b) % b = 0
  OBVIOUS
<1> QED
  BY <1>1 DEF Nearest

\* The exponent is that of the least power of two above the quotient.
LEMMA ExponentIs ==
    ASSUME NEW n \in Nat, NEW d \in Nat \ {0}
    PROVE  /\ Exponent(n, d) \in 0 .. n /\ Fits(n, d, Exponent(n, d))
           /\ \A f \in 0 .. Exponent(n, d) - 1 : ~Fits(n, d, f)
<1> DEFINE T == {e \in Nat : Fits(n, d, e)}
<1>1. n \in T
  <2>1. Power[n] \in Nat /\ n < Power[n]
    BY PowerAbove
  <2>2. Power[n] <= d * Power[n]
    BY <2>1
  <2> QED
    BY <2>1, <2>2 DEF Fits
<1>2. PICK e \in T : \A f \in T : e <= f
  <2>1. T \subseteq Nat /\ T # {}
    BY <1>1
  <2> HIDE DEF T
  <2> QED
    BY <2>1, LeastOf
<1>3. e \in 0 .. n /\ Fits(n, d, e)
  BY <1>1, <1>2
<1>4. \A f \in 0 .. e - 1 : ~Fits(n, d, f)
  <2> SUFFICES ASSUME NEW f \in 0 .. e - 1, Fits(n, d, f) PROVE FALSE
    OBVIOUS
  <2>1. f \in T /\ ~(e <= f)
    BY <1>3
  <2> QED
    BY <1>2, <2>1
<1> QED
  BY <1>3, <1>4 DEF Exponent

LEMMA UlpIs ==
    ASSUME NEW n \in Nat, NEW d \in Nat \ {0}
    PROVE  Ulp(n, d) \in Nat \ {0} /\ d * Ulp(n, d) \in Nat \ {0} /\ n < d * Ulp(n, d)
<1>1. Exponent(n, d) \in Nat /\ Fits(n, d, Exponent(n, d))
  BY ExponentIs
<1>2. Ulp(n, d) \in Nat \ {0}
  BY <1>1, PowerAbove DEF Ulp
<1>3. n < d * Ulp(n, d)
  BY <1>1 DEF Ulp, Fits
<1> QED
  BY <1>2, <1>3

\* A larger quotient has the same unit, or one at least twice as large; in the
\* latter case it is at least half of what the larger unit is for.
LEMMA UlpGrows ==
    ASSUME NEW n \in Nat, NEW m \in Nat, NEW d \in Nat \ {0}, n <= m
    PROVE  \/ Ulp(n, d) = Ulp(m, d)
           \/ 2 * Ulp(n, d) <= Ulp(m, d) /\ d * Ulp(m, d) <= 2 * m
<1> DEFINE e == Exponent(n, d)
           f == Exponent(m, d)
<1>1. /\ e \in Nat /\ Fits(n, d, e) /\ \A i \in 0 .. e - 1 : ~Fits(n, d, i)
      /\ f \in Nat /\ Fits(m, d, f) /\ \A i \in 0 .. f - 1 : ~Fits(m, d, i)
  BY ExponentIs
<1> HIDE DEF e, f
<1>2. e <= f
  <2>1. d * Power[f] \in Nat
    BY <1>1, PowerAbove
  <2>2. Fits(n, d, f)
    BY <1>1, <2>1 DEF Fits
  <2>3. ~(f \in 0 .. e - 1)
    BY <1>1, <2>2
  <2> QED
    BY <1>1, <2>3
<1>3. CASE e = f
  BY <1>3 DEF Ulp, e, f
<1>4. CASE e < f
  <2>1. f - 1 \in Nat /\ (f - 1) + 1 = f /\ f - 1 \in 0 .. f - 1 /\ e <= f - 1
    BY <1>1, <1>4
  <2> DEFINE u == Power[e]
             v == Power[f - 1]
             w == Power[f]
  <2>2. u \in Nat /\ v \in Nat /\ w = 2 * v /\ u <= v
    BY <1>1, <2>1, PowerIs, PowerGrows
  <2>3. ~(m < d * v)
    BY <1>1, <2>1 DEF Fits
  <2> HIDE DEF u, v, w
  <2>4. d * v \in Nat /\ d * w = 2 * (d * v)
    BY <2>2
  <2>5. 2 * u <= w /\ d * w <= 2 * m
    BY <2>2, <2>3, <2>4
  <2> QED
    BY <2>5 DEF Ulp, e, f, u, w
<1> QED
  BY <1>1, <1>2, <1>3, <1>4

\* Rounding keeps the order of quotients, also of those with different units.
LEMMA QuotientMonotone ==
    ASSUME NEW n \in Nat, NEW m \in Nat, NEW d \in Nat \ {0}, n <= m
    PROVE  Quotient(n, d) \in Nat /\ Quotient(n, d) <= Quotient(m, d)
<1> DEFINE S == Power[PRECISION]
           u == Ulp(n, d)
           v == Ulp(m, d)
           a == Nearest(n * S, d * u)
           b == Nearest(m * S, d * v)
<1>1. PICK H \in Nat : S = 2 * H
  <2>1. PRECISION - 1 \in Nat /\ (PRECISION - 1) + 1 = PRECISION
    BY StmAssumption
  <2>2. Power[PRECISION - 1] \in Nat /\ S = 2 * Power[PRECISION - 1]
    BY <2>1, PowerIs
  <2> QED
    BY <2>2
<1>2. /\ u \in Nat \ {0} /\ d * u \in Nat \ {0} /\ n < d * u
      /\ v \in Nat \ {0} /\ d * v \in Nat \ {0} /\ m < d * v
  BY UlpIs
<1>3. u = v \/ (2 * u <= v /\ d * v <= 2 * m)
  BY UlpGrows
<1>4. Quotient(n, d) = a * u /\ Quotient(m, d) = b * v
  BY DEF Quotient
<1> HIDE DEF S, u, v
<1>5. S \in Nat /\ n * S \in Nat /\ m * S \in Nat /\ n * S <= m * S
  BY <1>1, Products
<1>6. a \in Nat /\ b \in Nat
  BY <1>2, <1>5, NearestNat
<1>7. CASE u = v
  <2>1. a <= b
    BY <1>2, <1>5, <1>7, NearestMonotone
  <2> HIDE DEF a, b
  <2>2. a * u \in Nat /\ a * u <= b * u
    BY <1>2, <1>6, <2>1, Products
  <2> QED
    BY <1>4, <1>7, <2>2
<1>8. CASE 2 * u <= v /\ d * v <= 2 * m
  <2>1. a <= S
    <3>1. n * S <= S * (d * u) /\ S * (d * u) \in Nat
      BY <1>2, <1>5, Products
    <3> DEFINE unit == d * u
    <3>2. Nearest(n * S, unit) <= Nearest(S * unit, unit)
      BY <1>2, <1>5, <3>1, NearestMonotone
    <3>3. Nearest(S * unit, unit) = S
      BY <1>2, <1>5, NearestExact
    <3> QED
      BY <3>2, <3>3
  <2>2. H <= b
    <3> DEFINE unit == d * v
    <3>1. H * unit \in Nat /\ H * unit <= H * (2 * m)
      BY <1>2, <1>8, Products
    <3>2. H * (2 * m) = m * S
      BY <1>1
    <3>3. Nearest(H * unit, unit) <= Nearest(m * S, unit)
      BY <1>2, <1>5, <3>1, <3>2, NearestMonotone
    <3>4. Nearest(H * unit, unit) = H
      BY <1>2, NearestExact
    <3> QED
      BY <3>3, <3>4
  <2> HIDE DEF a, b
  <2>3. a * u \in Nat /\ a * u <= S * u
    BY <1>2, <1>5, <1>6, <2>1, Products
  <2>4. S * u = H * (2 * u)
    BY <1>1, <1>2
  <2>5. 2 * u \in Nat /\ H * (2 * u) \in Nat /\ H * v \in Nat /\ H * (2 * u) <= H * v
    BY <1>2, <1>8, Products
  <2>6. b * v \in Nat /\ H * v <= b * v
    BY <1>2, <1>6, <2>2, Products
  <2> QED
    BY <1>4, <2>3, <2>4, <2>5, <2>6
<1> QED
  BY <1>3, <1>7, <1>8

LEMMA WholeMonotone ==
    ASSUME NEW p \in Nat, NEW q \in Nat, p <= q
    PROVE  Whole(p) \in Nat /\ Whole(p) <= Whole(q)
<1>1. Power[PRECISION] \in Nat \ {0}
  BY PowerAbove, StmAssumption
<1> DEFINE S == Power[PRECISION]
<1> HIDE DEF S
<1>2. S \in Nat \ {0}
  BY <1>1 DEF S
<1>3. p \div S \in Nat /\ p \div S <= q \div S
  BY <1>2
<1> QED
  BY <1>3 DEF Whole, S

-----------------------------------------------------------------------------
(* The order of times, of their counts and of their microseconds.            *)

LEMMA TicksMonotone ==
    ASSUME NEW s \in Times, NEW t \in Times, NotAfter(s, t)
    PROVE  Ticks(s) \in Nat /\ Ticks(t) \in Nat /\ Ticks(s) <= Ticks(t)
<1>1. /\ s.upper \in Nat /\ s.lower \in 0 .. HALF - 1 /\ t.upper \in Nat /\ t.lower \in 0 .. HALF - 1
      /\ HALF \in Nat \ {0}
  BY StmAssumption DEF Times, Uppers, Lowers
<1>2. s.upper * HALF \in Nat /\ t.upper * HALF \in Nat
  BY <1>1
<1>3. CASE s.upper < t.upper
  <2>1. (s.upper + 1) * HALF <= t.upper * HALF
    BY <1>1, <1>3, Products
  <2>2. (s.upper + 1) * HALF = s.upper * HALF + HALF
    BY <1>1
  <2> QED
    BY <1>1, <1>2, <2>1, <2>2 DEF Ticks
<1>4. CASE s.upper = t.upper /\ s.lower <= t.lower
  BY <1>1, <1>2, <1>4 DEF Ticks
<1> QED
  BY <1>3, <1>4 DEF NotAfter

LEMMA TimeUsMonotone ==
    ASSUME NEW s \in Times, NEW t \in Times, NotAfter(s, t)
    PROVE  /\ STM0_getTimeUs(s) \in Nat /\ STM0_getTimeUs(t) \in Nat
           /\ STM0_getTimeUs(s) <= STM0_getTimeUs(t)
<1> DEFINE a == Whole(Quotient(Ticks(s), 1))
           b == Whole(Quotient(Ticks(t), 1))
<1>1. Ticks(s) \in Nat /\ Ticks(t) \in Nat /\ Ticks(s) <= Ticks(t)
  BY TicksMonotone
<1>2. a \in Nat /\ b \in Nat /\ a <= b
  <2>1. 1 \in Nat \ {0}
    OBVIOUS
  <2>2. /\ Quotient(Ticks(s), 1) \in Nat /\ Quotient(Ticks(t), 1) \in Nat
        /\ Quotient(Ticks(s), 1) <= Quotient(Ticks(t), 1)
    BY <1>1, <2>1, QuotientMonotone
  <2> QED
    BY <2>2, WholeMonotone
<1> HIDE DEF a, b
<1> DEFINE p == Quotient(a, TICKS_PER_US)
           q == Quotient(b, TICKS_PER_US)
<1>3. p \in Nat /\ q \in Nat /\ p <= q
  BY <1>2, QuotientMonotone, StmAssumption
<1> HIDE DEF p, q
<1>4. Whole(p) \in Nat /\ Whole(q) \in Nat /\ Whole(p) <= Whole(q)
  BY <1>3, WholeMonotone
<1> QED
  BY <1>4 DEF STM0_getTimeUs, a, b, p, q

\* A call under way began after the last one returned.
CallAfterResult == load # "idle" => NotAfter(result, called)

LEMMA OrderedCalls == StmSpec => [](ReadInv /\ CallAfterResult)
<1>1. StmInit => CallAfterResult
  BY DEF StmInit, CallAfterResult
<1>2. ReadInv /\ CallAfterResult /\ [StmNext]_stmVars => CallAfterResult'
  BY DEF ReadInv, ReadWithinCall, CallAfterResult, StmNext, stmVars, Advance, STM0_getTime10ns,
         Call, LoadUpper, LoadLower, Accept, Retry
<1> QED
  BY <1>1, <1>2, ReadInvariance, PTL DEF StmSpec

\* stm.c:32: dividing by a float and cutting does not turn the order of two
\* reads round, whatever the precision and the frequency.
THEOREM TimeNeverGoesBack == StmSpec => NeverGoesBack
<1> DEFINE Ordered == STM0_getTimeUs(result') >= STM0_getTimeUs(result)
<1>1. ReadInv /\ CallAfterResult /\ ReadInv' /\ [StmNext]_stmVars => Ordered
  <2> SUFFICES ASSUME ReadInv, CallAfterResult, ReadInv', [StmNext]_stmVars PROVE Ordered
    OBVIOUS
  <2>1. result \in Times /\ result' \in Times /\ called \in Times
    BY DEF ReadInv, StmTypeOK
  <2>2. CASE Accept
    <3>1. NotAfter(result, called)
      BY <2>2 DEF Accept, CallAfterResult
    <3>2. NotAfter(called, result')
      BY <2>2 DEF Accept, ReadInv, ReadWithinCall
    <3>3. NotAfter(result, result')
      BY <2>1, <3>1, <3>2, NotAfterTransitive
    <3> QED
      BY <2>1, <3>3, TimeUsMonotone
  <2>3. CASE result' = result
    BY <2>1, <2>3, NotAfterReflexive, TimeUsMonotone
  <2>4. Accept \/ result' = result
    BY DEF StmNext, stmVars, Advance, STM0_getTime10ns, Call, LoadUpper, LoadLower, Retry
  <2> QED
    BY <2>2, <2>3, <2>4
<1>2. [][Ordered]_stmVars => NeverGoesBack
  BY PTL DEF NeverGoesBack
<1> QED
  BY <1>1, <1>2, OrderedCalls, PTL DEF StmSpec

=============================================================================
