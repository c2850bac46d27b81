--------------------------- MODULE TimeoutProofs ----------------------------
(***************************************************************************)
(* Proofs about Timeout, for any number of timers, any period of the       *)
(* counter and any stalls, as long as the clock as a whole does not wrap.  *)
(***************************************************************************)
EXTENDS Timeout, QueueLemmas, FiniteSetTheorems

-----------------------------------------------------------------------------
(* The clock                                                               *)

\* The epoch advances at most once a tick: when the counter went backwards, it
\* had been seen above zero before.  (It goes back at every stop of the timer,
\* so that the clock can be ahead of the ticks by a period for each of them.)
Epoch == lazy \div Period
Low == lazy % Period
ClockBound ==
    /\ Epoch <= ticks
    /\ Low > 0 \/ cnr > 0 => Epoch < ticks
    /\ 0 < cnr /\ cnr < Low => Epoch + 1 < ticks

\* The run ends before the clock wraps, and before any timeout would be due
\* after that.
NoWrap ==
    /\ Horizon < Epochs
    /\ \A ms \in Delays : ms + Period * (Horizon + 1) < Wrap

LEMMA WrapFacts ==
    /\ Wrap \in Nat \ {0} /\ Period \in Nat \ {0} /\ Epochs \in Nat \ {0}
    /\ Times = 0..(Wrap - 1) /\ Times \subseteq Nat
<1> USE TimeoutAssumption DEF TimeoutAssumption
<1>1. Wrap \in Nat
  BY DEF Wrap
<1>2. Wrap # 0
  <2>1. Period * 0 = 0 /\ Period * 0 + Period <= Period * Epochs
    BY ProductGrows
  <2> QED
    BY <2>1 DEF Wrap
<1> QED
  BY <1>1, <1>2 DEF Times

LEMMA LowFacts ==
    ASSUME lazy \in Times
    PROVE  /\ Epoch \in Nat /\ Low \in 0..(Period - 1) /\ lazy \in Nat
           /\ lazy = Period * Epoch + Low
           /\ Period * Epoch \in Nat
<1>1. lazy \in Nat
  BY WrapFacts
<1>2. /\ Epoch \in Nat /\ Low \in 0..(Period - 1)
      /\ lazy = Period * Epoch + Low
  BY <1>1, WrapFacts, DivMod DEF Epoch, Low
<1> QED
  BY <1>1, <1>2, WrapFacts

\* What timeout_update_time computes.
LEMMA NowFacts ==
    ASSUME NoWrap, TypeOK, ClockBound
    PROVE  /\ Now \in Times /\ Now \in Nat
           /\ Now = IF Low > cnr THEN lazy - Low + cnr + Period
                                 ELSE lazy - Low + cnr
           /\ Now >= lazy /\ Now < Period * (Horizon + 1)
           /\ Now % Period = cnr
           /\ Now \div Period = IF Low > cnr THEN Epoch + 1 ELSE Epoch
<1> DEFINE q == IF Low > cnr THEN Epoch + 1 ELSE Epoch
           x == Period * q + cnr
<1>1. /\ lazy \in Times /\ cnr \in 0..(Period - 1) /\ ticks \in 0..Horizon
      /\ Horizon \in Nat /\ Period \in Nat \ {0} /\ Epochs \in Nat \ {0}
  BY TimeoutAssumption DEF TypeOK, TimeoutAssumption
<1>2. /\ Epoch \in Nat /\ Low \in 0..(Period - 1) /\ lazy \in Nat
      /\ lazy = Period * Epoch + Low /\ Period * Epoch \in Nat
  BY <1>1, LowFacts
<1>3. q \in Nat /\ q <= ticks /\ q <= Horizon
  BY <1>1, <1>2 DEF ClockBound
<1>4. Period * (Epoch + 1) = Period * Epoch + Period
  BY <1>1, <1>2
<1>5. x = IF Low > cnr THEN lazy - Low + cnr + Period ELSE lazy - Low + cnr
  BY <1>1, <1>2, <1>4
<1>6. x \in Nat /\ x >= lazy
  BY <1>1, <1>2, <1>5
<1> HIDE DEF q
<1>7. Period * q + Period <= Period * (Horizon + 1)
  BY <1>1, <1>3, ProductGrows
<1>8. x < Period * (Horizon + 1)
  BY <1>1, <1>3, <1>7
<1>9. Period * (Horizon + 1) <= Wrap
  <2>1. CASE Horizon + 1 = Epochs
    BY <2>1, WrapFacts DEF Wrap
  <2>2. CASE Horizon + 1 < Epochs
    BY <1>1, <2>2, ProductGrows DEF Wrap
  <2> QED
    BY <1>1, <2>1, <2>2 DEF NoWrap
<1>10. x % Period = cnr /\ x \div Period = q
  BY <1>1, <1>3, <1>6, DivModUnique
<1> HIDE DEF x
<1>11. Now = x
  <2>1. lazy - (lazy % Period) + cnr + (IF Low > cnr THEN Period ELSE 0) = x
    BY <1>1, <1>2, <1>5 DEF Low
  <2>2. Now = x % Wrap
    BY <2>1 DEF Now, Low
  <2>3. x < Wrap
    <3>1. Wrap \in Nat /\ Period * (Horizon + 1) \in Nat
      BY <1>1, WrapFacts
    <3> QED
      BY <1>6, <1>8, <1>9, <3>1
  <2> QED
    BY <1>6, <2>2, <2>3, WrapFacts, ModFacts
<1>12. x \in Times
  <2>1. Wrap \in Nat /\ Period * (Horizon + 1) \in Nat
    BY <1>1, WrapFacts
  <2> QED
    BY <1>6, <1>8, <1>9, <2>1 DEF Times
<1> QED
  BY <1>5, <1>6, <1>8, <1>10, <1>11, <1>12 DEF q

\* The three ways in which counter, clock and ticks change.
LEMMA ClockTick ==
    ASSUME TypeOK, ClockBound, Tick PROVE ClockBound'
<1>1. /\ lazy \in Times /\ cnr \in 0..(Period - 1) /\ ticks \in Nat
      /\ Period \in Nat \ {0}
  BY TimeoutAssumption DEF TypeOK, TimeoutAssumption
<1>2. Epoch \in Nat /\ Low \in 0..(Period - 1)
  BY <1>1, LowFacts
<1>3. ticks' = ticks + 1 /\ lazy' = lazy /\ cnr' = (cnr + 1) % Period
  BY DEF Tick, queueVars
<1>4. Epoch' = Epoch /\ Low' = Low
  BY <1>3 DEF Epoch, Low
<1>5. cnr' = cnr + 1 \/ cnr' = 0
  <2>1. CASE cnr + 1 < Period
    BY <1>1, <1>3, <2>1, ModFacts
  <2>2. CASE cnr + 1 = Period
    <3>1. cnr + 1 = Period * 1 + 0 /\ 0 \in 0..(Period - 1)
      BY <1>1, <2>2
    <3>2. (cnr + 1) % Period = 0
      BY <1>1, <3>1, DivModUnique
    <3> QED
      BY <1>3, <3>2
  <2> QED
    BY <1>1, <2>1, <2>2
<1> QED
  BY <1>1, <1>2, <1>3, <1>4, <1>5 DEF ClockBound

LEMMA ClockUpdate ==
    ASSUME NoWrap, TypeOK, ClockBound, UpdateTime, UNCHANGED <<ticks, cnr>>
    PROVE  ClockBound'
<1>1. lazy \in Times /\ cnr \in 0..(Period - 1) /\ ticks \in Nat
  BY DEF TypeOK
<1>2. /\ Low' = cnr /\ Epoch' = IF Low > cnr THEN Epoch + 1 ELSE Epoch
      /\ Epoch \in Nat /\ Low \in 0..(Period - 1)
  BY <1>1, NowFacts, LowFacts DEF UpdateTime, Low, Epoch
<1> QED
  BY <1>1, <1>2, WrapFacts DEF ClockBound

LEMMA ClockStop ==
    ASSUME TypeOK, ClockBound, UNCHANGED <<lazy, ticks>>,
           cnr' = cnr \/ cnr' = 0
    PROVE  ClockBound'
<1>1. Epoch' = Epoch /\ Low' = Low
  BY DEF Epoch, Low
<1> QED
  BY <1>1 DEF ClockBound

\* While the counter is not reset, the clock does not gain on the ticks.
LEMMA NoGain ==
    ASSUME NoWrap, TypeOK, ClockBound, cnr = (Low + (ticks - readAt)) % Period
    PROVE  Now + readAt <= ticks + lazy
<1> DEFINE x == Low + (ticks - readAt)
           d == x \div Period
<1>1. /\ lazy \in Times /\ cnr \in 0..(Period - 1) /\ Period \in Nat \ {0}
      /\ ticks \in Nat /\ readAt \in 0..ticks
  BY WrapFacts DEF TypeOK
<1>2. Low \in 0..(Period - 1) /\ lazy \in Nat
  BY <1>1, LowFacts
<1>3. x \in Nat
  BY <1>1, <1>2
<1>4. d \in Nat /\ x = Period * d + cnr
  BY <1>1, <1>3, DivMod
<1>5. Now = IF Low > cnr THEN lazy - Low + cnr + Period ELSE lazy - Low + cnr
  BY NowFacts
<1> HIDE DEF d
<1>6. Period * d \in Nat
  BY <1>1, <1>4
<1>7. CASE d = 0
  BY <1>1, <1>2, <1>4, <1>5, <1>7
<1>8. CASE d # 0
  <2>1. Period * 0 + Period <= Period * d /\ Period * 0 = 0
    BY <1>1, <1>4, <1>8, ProductGrows
  <2> HIDE DEF x
  <2>2. x >= Period + cnr /\ x = Low + (ticks - readAt)
    BY <1>1, <1>4, <1>6, <2>1 DEF x
  <2> QED
    BY <1>1, <1>2, <1>5, <2>2
<1> QED
  BY <1>7, <1>8

-----------------------------------------------------------------------------
(* The list                                                                *)

Sorted(q) ==
    /\ q \in Seq(Contexts)
    /\ \A i, j \in 1..Len(q) :
          i < j => due[q[i]] <= due[q[j]] /\ q[i] # q[j]

\* The overflow entry is due within a period: there is no second one needed.
WrapSoon(q) == Contains(q, Overflow) => due[Overflow] < lazy + Period

\* While a timeout is queued the clock keeps pace with the ticks, and there is
\* as much time to go as was asked for.
InTime(q) ==
    \A t \in Timers : Contains(q, t) =>
        /\ cnr = (Low + (ticks - readAt)) % Period
        /\ due[t] + readAt > asked[t] + lazy

ListInv(q) == Sorted(q) /\ WrapSoon(q) /\ InTime(q)
TimeoutInv == TypeOK /\ ClockBound /\ ListInv(queue)

LEMMA TimeoutInvImplies == TimeoutInv => TypeOK /\ QueueSorted
  BY DEF TimeoutInv, ListInv, Sorted, QueueSorted

LEMMA TimeoutInitInv == Init => TimeoutInv
<1> SUFFICES ASSUME Init PROVE TimeoutInv
  OBVIOUS
<1> USE TimeoutAssumption DEF TimeoutAssumption
<1>1. lazy = 0 /\ cnr = 0 /\ ticks = 0 /\ queue = <<>>
  BY DEF Init
<1>2. 0 \in Times /\ 0 \in 0..(Period - 1)
  BY WrapFacts
<1>3. TypeOK
  <2>1. /\ due \in [Contexts -> Times] /\ asked \in [Timers -> Nat]
        /\ queue \in Seq(Contexts)
    BY <1>2 DEF Init
  <2>2. /\ 0 \in 0..MaxRefs /\ 0 \in 0..MaxStall /\ 0 \in 0..Horizon
        /\ 0 \in 0..0
    OBVIOUS
  <2>3. pc \in Labels
    BY DEF Init, Labels
  <2>4. ten = FALSE /\ tcf = FALSE /\ latched = FALSE
    BY DEF Init
  <2>5. /\ lazy = 0 /\ refs = 0 /\ cnr = 0 /\ cmr = 0 /\ running = None
        /\ ticks = 0 /\ readAt = 0 /\ zero = 0 /\ stall = 0
    BY DEF Init
  <2>6. ten \in BOOLEAN /\ tcf \in BOOLEAN /\ latched \in BOOLEAN
    BY <2>4
  <2>7. /\ lazy \in Times /\ refs \in 0..MaxRefs /\ cnr \in 0..(Period - 1)
        /\ cmr \in 0..(Period - 1) /\ running \in Contexts \union {None}
        /\ ticks \in 0..Horizon /\ readAt \in 0..ticks /\ zero \in Int
        /\ stall \in 0..MaxStall
    BY <1>2, <2>2, <2>5
  <2> QED
    BY <2>1, <2>3, <2>6, <2>7 DEF TypeOK
<1>4. Low = 0 /\ Epoch = 0
  <2>1. 0 = Period * 0 + 0
    OBVIOUS
  <2> QED
    BY <1>1, <1>2, <2>1, DivModUnique DEF Low, Epoch
<1>5. ClockBound
  BY <1>1, <1>4 DEF ClockBound
<1>6. ListInv(queue)
  BY <1>1, EmptyQueue DEF ListInv, Sorted, WrapSoon, InTime
<1> QED
  BY <1>3, <1>5, <1>6 DEF TimeoutInv

LEMMA RemoveAtFacts ==
    ASSUME NEW S, NEW q \in Seq(S), NEW i \in 1..Len(q)
    PROVE  LET r == RemoveAt(q, i)
           IN /\ r \in Seq(S) /\ Len(r) = Len(q) - 1
              /\ \A k \in 1..Len(r) : r[k] = IF k < i THEN q[k] ELSE q[k + 1]
<1> DEFINE a == SubSeq(q, 1, i - 1)
           b == SubSeq(q, i + 1, Len(q))
<1>1. Len(q) \in Nat
  OBVIOUS
<1>2. /\ a \in Seq(S) /\ Len(a) = i - 1
      /\ \A k \in 1..(i - 1) : a[k] = q[k]
  BY <1>1
<1>3. /\ b \in Seq(S) /\ Len(b) = Len(q) - i
      /\ \A k \in 1..(Len(q) - i) : b[k] = q[i + k]
  BY <1>1
<1>4. RemoveAt(q, i) = a \o b
  BY DEF RemoveAt
<1> HIDE DEF a, b
<1>5. /\ a \o b \in Seq(S) /\ Len(a \o b) = Len(q) - 1
      /\ \A k \in 1..(Len(q) - 1) :
            (a \o b)[k] = IF k <= i - 1 THEN a[k] ELSE b[k - (i - 1)]
  <2>1. /\ a \o b \in Seq(S) /\ Len(a \o b) = Len(a) + Len(b)
        /\ \A k \in 1..(Len(a) + Len(b)) :
              (a \o b)[k] = IF k <= Len(a) THEN a[k] ELSE b[k - Len(a)]
    BY <1>2, <1>3, ConcatProperties
  <2>2. Len(a) + Len(b) = Len(q) - 1 /\ Len(a) = i - 1
    BY <1>1, <1>2, <1>3
  <2> QED
    BY <2>1, <2>2
<1>6. ASSUME NEW k \in 1..(Len(q) - 1)
      PROVE  (a \o b)[k] = IF k < i THEN q[k] ELSE q[k + 1]
  <2>1. CASE k < i
    BY <1>2, <1>5, <2>1
  <2>2. CASE ~(k < i)
    <3>1. k - (i - 1) \in 1..(Len(q) - i) /\ i + (k - (i - 1)) = k + 1
      BY <1>1, <2>2
    <3>2. (a \o b)[k] = b[k - (i - 1)]
      BY <1>5, <2>2
    <3> QED
      BY <1>3, <2>2, <3>1, <3>2
  <2> QED
    BY <2>1, <2>2
<1> QED
  BY <1>4, <1>5, <1>6

\* A list with one entry less.
LEMMA Thinner ==
    ASSUME NEW q, ListInv(q), NEW i \in 1..Len(q), NEW r \in Seq(Contexts),
           Len(r) = Len(q) - 1,
           \A k \in 1..Len(r) : r[k] = IF k < i THEN q[k] ELSE q[k + 1]
    PROVE  ListInv(r)
<1>1. q \in Seq(Contexts) /\ Len(q) \in Nat
  BY DEF ListInv, Sorted
<1>2. Sorted(r)
  <2> SUFFICES ASSUME NEW k \in 1..Len(r), NEW m \in 1..Len(r), k < m
               PROVE  due[r[k]] <= due[r[m]] /\ r[k] # r[m]
    BY DEF Sorted
  <2> DEFINE f(n) == IF n < i THEN n ELSE n + 1
  <2>1. f(k) \in 1..Len(q) /\ f(m) \in 1..Len(q) /\ f(k) < f(m)
    BY <1>1
  <2>2. r[k] = q[f(k)] /\ r[m] = q[f(m)]
    OBVIOUS
  <2> HIDE DEF f
  <2> QED
    BY <2>1, <2>2 DEF ListInv, Sorted
<1>3. ASSUME NEW x, Contains(r, x) PROVE Contains(q, x)
  <2>1. PICK k \in 1..Len(r) : r[k] = x
    BY <1>3 DEF Contains
  <2>2. k \in 1..Len(q) /\ k + 1 \in 1..Len(q)
    BY <1>1
  <2> QED
    BY <2>1, <2>2 DEF Contains
<1> QED
  BY <1>2, <1>3 DEF ListInv, WrapSoon, InTime

LEMMA TailThinner ==
    ASSUME NEW q, ListInv(q), q # <<>> PROVE ListInv(Tail(q))
<1>1. q \in Seq(Contexts) /\ Len(q) \in Nat /\ Len(q) > 0
  BY EmptySeq DEF ListInv, Sorted
<1>2. /\ Tail(q) \in Seq(Contexts) /\ Len(Tail(q)) = Len(q) - 1
      /\ \A k \in 1..Len(Tail(q)) : Tail(q)[k] = q[k + 1]
  BY <1>1, HeadTailProperties
<1>3. 1 \in 1..Len(q) /\ \A k \in 1..Len(Tail(q)) : ~(k < 1)
  BY <1>1
<1> QED
  BY <1>2, <1>3, Thinner

\* The entry before which t goes.
LEMMA InsertFacts ==
    ASSUME due \in [Contexts -> Times], NEW q \in Seq(Contexts),
           NEW t \in Contexts, NEW time \in Nat,
           \A i, j \in 1..Len(q) : i < j => due[q[i]] <= due[q[j]]
    PROVE  LET s == Insert(q, t, time)
           IN /\ s \in Seq(Contexts) /\ Len(s) = Len(q) + 1
              /\ \E k \in 1..(Len(q) + 1) :
                    /\ \A i \in 1..(Len(q) + 1) :
                          s[i] = IF i < k THEN q[i]
                                 ELSE IF i = k THEN t ELSE q[i - 1]
                    /\ \A i \in 1..(k - 1) : due[q[i]] <= time
                    /\ \A i \in k..Len(q) : due[q[i]] > time
<1> DEFINE later == {i \in 1..Len(q) : due[q[i]] > time}
           before == SelectInSeq(q, LAMBDA u : due[u] > time)
<1>1. Len(q) \in Nat /\ \A i \in 1..Len(q) : due[q[i]] \in Nat
  <2>1. \A i \in 1..Len(q) : q[i] \in Contexts
    OBVIOUS
  <2> QED
    BY <2>1, WrapFacts
<1>2. before = IF later # {} THEN Min(later) ELSE 0
  BY DEF SelectInSeq
<1>3. Insert(q, t, time) = IF before = 0 THEN Append(q, t)
                                         ELSE InsertAt(q, before, t)
  BY DEF Insert
<1> HIDE DEF before
<1>4. CASE later = {}
  <2>1. Insert(q, t, time) = Append(q, t)
    BY <1>2, <1>3, <1>4
  <2>2. \A i \in 1..Len(q) : due[q[i]] <= time
    BY <1>1, <1>4
  <2> DEFINE k == Len(q) + 1
  <2>3. /\ Append(q, t) \in Seq(Contexts) /\ Len(Append(q, t)) = Len(q) + 1
        /\ \A i \in 1..Len(q) : Append(q, t)[i] = q[i]
        /\ Append(q, t)[k] = t
    BY AppendProperties
  <2>4. /\ k \in 1..(Len(q) + 1)
        /\ \A i \in 1..(Len(q) + 1) : i < k \/ i = k
        /\ \A i \in 1..(Len(q) + 1) : i < k => i \in 1..Len(q)
        /\ \A i \in 1..(k - 1) : i \in 1..Len(q)
        /\ k..Len(q) = {}
    BY <1>1
  <2> HIDE DEF k
  <2> QED
    BY <2>1, <2>2, <2>3, <2>4
<1>5. CASE later # {}
  <2>1. later \subseteq Nat
    BY <1>1
  <2> HIDE DEF later
  <2>2. \E k \in later : \A m \in later : k <= m
    BY <1>5, <2>1, LeastNat
  <2>3. before = Min(later)
    BY <1>2, <1>5
  <2>4. before \in later /\ \A m \in later : before <= m
    BY <2>2, <2>3 DEF Min
  <2> DEFINE k == before
             a == SubSeq(q, 1, k - 1)
             b == SubSeq(q, k, Len(q))
  <2>5. k \in 1..Len(q) /\ due[q[k]] > time
    BY <2>4 DEF later
  <2>6. \A i \in 1..(k - 1) : due[q[i]] <= time
    <3> SUFFICES ASSUME NEW i \in 1..(k - 1), ~(due[q[i]] <= time) PROVE FALSE
      OBVIOUS
    <3>1. i \in 1..Len(q)
      BY <1>1, <2>5
    <3>2. i \in later
      BY <1>1, <3>1 DEF later
    <3> QED
      BY <2>4, <2>5, <3>1, <3>2
  <2>7. \A i \in k..Len(q) : due[q[i]] > time
    <3> SUFFICES ASSUME NEW i \in k..Len(q) PROVE due[q[i]] > time
      OBVIOUS
    <3>1. i \in 1..Len(q) /\ (i = k \/ k < i)
      BY <1>1, <2>5
    <3> QED
      BY <1>1, <2>5, <3>1
  <2>8. Insert(q, t, time) = a \o <<t>> \o b
    BY <1>3, <2>5 DEF InsertAt
  <2>9. /\ a \in Seq(Contexts) /\ Len(a) = k - 1
        /\ \A i \in 1..(k - 1) : a[i] = q[i]
    BY <1>1, <2>5
  <2>10. /\ b \in Seq(Contexts) /\ Len(b) = Len(q) - k + 1
         /\ \A i \in 1..(Len(q) - k + 1) : b[i] = q[k + i - 1]
    BY <1>1, <2>5
  <2> HIDE DEF a, b
  <2> DEFINE c == a \o <<t>>
  <2>11. /\ c \in Seq(Contexts) /\ Len(c) = k
         /\ \A i \in 1..k : c[i] = IF i < k THEN q[i] ELSE t
    <3>1. c = Append(a, t)
      BY <2>9
    <3>2. /\ Append(a, t) \in Seq(Contexts) /\ Len(Append(a, t)) = k
          /\ \A i \in 1..(k - 1) : Append(a, t)[i] = a[i]
          /\ Append(a, t)[k] = t
      BY <2>5, <2>9, AppendProperties
    <3> HIDE DEF c
    <3>3. \A i \in 1..k : i \in 1..(k - 1) \/ i = k
      BY <2>5
    <3> QED
      BY <2>5, <2>9, <3>1, <3>2, <3>3
  <2> HIDE DEF c
  <2>12. /\ c \o b \in Seq(Contexts) /\ Len(c \o b) = Len(q) + 1
         /\ \A i \in 1..(Len(q) + 1) :
               (c \o b)[i] = IF i <= k THEN c[i] ELSE b[i - k]
    <3>1. /\ c \o b \in Seq(Contexts) /\ Len(c \o b) = Len(c) + Len(b)
          /\ \A i \in 1..(Len(c) + Len(b)) :
                (c \o b)[i] = IF i <= Len(c) THEN c[i] ELSE b[i - Len(c)]
      BY <2>10, <2>11, ConcatProperties
    <3>2. Len(c) + Len(b) = Len(q) + 1 /\ Len(c) = k
      BY <1>1, <2>5, <2>10, <2>11
    <3> QED
      BY <3>1, <3>2
  <2>13. ASSUME NEW i \in 1..(Len(q) + 1)
         PROVE  (c \o b)[i] = IF i < k THEN q[i]
                              ELSE IF i = k THEN t ELSE q[i - 1]
    <3>1. CASE i <= k
      BY <2>5, <2>11, <2>12, <3>1
    <3>2. CASE ~(i <= k)
      <4>1. i - k \in 1..(Len(q) - k + 1) /\ k + (i - k) - 1 = i - 1
        BY <1>1, <2>5, <3>2
      <4>2. (c \o b)[i] = b[i - k]
        BY <2>12, <3>2
      <4> QED
        BY <2>5, <2>10, <3>2, <4>1, <4>2
    <3> QED
      BY <3>1, <3>2
  <2>14. Insert(q, t, time) = c \o b /\ k \in 1..(Len(q) + 1)
    BY <1>1, <2>5, <2>8 DEF c
  <2> HIDE DEF k
  <2> QED
    BY <2>6, <2>7, <2>12, <2>13, <2>14
<1> QED
  BY <1>4, <1>5

-----------------------------------------------------------------------------
(* timeout_reschedule                                                      *)

LEMMA ContextFacts ==
    /\ Overflow \in Contexts /\ Timers \subseteq Contexts
    /\ \A t \in Timers : t # Overflow /\ t # None
  BY TimeoutAssumption DEF TimeoutAssumption, Contexts

LEMMA SameList ==
    ASSUME NEW q, ListInv(q), queue' = q,
           UNCHANGED <<due, lazy, cnr, ticks, readAt, asked>>
    PROVE  ListInv(queue)'
<1>1. Sorted(queue)'
  BY DEF ListInv, Sorted
<1>2. WrapSoon(queue)'
  BY DEF ListInv, WrapSoon
<1>3. InTime(queue)'
  BY DEF ListInv, InTime, Low
<1> QED
  BY <1>1, <1>2, <1>3 DEF ListInv

\* The overflow entry belongs where timeout_schedule_wrap puts it, at the head,
\* and there is none yet.
LEMMA Wrapped ==
    ASSUME TypeOK, NEW q, ListInv(q), ScheduleWrap(q),
           q = <<>> \/ NeedsWrap(Head(q)),
           UNCHANGED <<lazy, cnr, ticks, readAt, asked>>
    PROVE  ListInv(queue)' /\ due' \in [Contexts -> Times]
<1>1. /\ q \in Seq(Contexts) /\ Len(q) \in Nat
      /\ due \in [Contexts -> Times] /\ lazy \in Times /\ lazy \in Nat
      /\ Period \in Nat \ {0} /\ Wrap \in Nat \ {0} /\ Times \subseteq Nat
  BY WrapFacts DEF ListInv, Sorted, TypeOK
<1>2. WrapTime \in Times /\ WrapTime < lazy + Period
  <2> DEFINE x == lazy + Period - 1
  <2>1. x \in Nat /\ lazy + Wrap - 1 + Period = Wrap + x /\ Wrap + x \in Nat
    BY <1>1
  <2>2. WrapTime = (Wrap + x) % Wrap
    BY <2>1 DEF WrapTime
  <2> HIDE DEF x
  <2>3. (Wrap + x) % Wrap <= x /\ (Wrap + x) % Wrap \in 0..(Wrap - 1)
    BY <1>1, <2>1, ModFacts, DivMod
  <2>4. WrapTime <= x /\ WrapTime \in Times
    BY <2>2, <2>3 DEF Times
  <2> QED
    BY <1>1, <2>4 DEF x
<1>3. ASSUME NEW i \in 1..Len(q)
      PROVE  due[q[i]] >= lazy + Period /\ q[i] \in Contexts
  <2>1. NeedsWrap(Head(q)) /\ Head(q) = q[1] /\ 1 \in 1..Len(q)
    BY <1>1, <1>3
  <2> DEFINE h == due[q[1]]
             d == h \div Period
             m == h % Period
  <2>2. q[1] \in Contexts /\ q[i] \in Contexts
    BY <1>1, <2>1
  <2>3. h \in Nat /\ due[q[i]] \in Nat
    BY <1>1, <2>2
  <2>4. d \in Nat /\ m \in 0..(Period - 1) /\ h = Period * d + m
    BY <1>1, <2>3, DivMod
  <2>5. m > Low /\ d > Epoch
    BY <2>1 DEF NeedsWrap, Low, Epoch
  <2> HIDE DEF d, m
  <2>6. Period * Epoch + Period <= Period * d /\ Epoch \in Nat
        /\ lazy = Period * Epoch + Low /\ Low \in 0..(Period - 1)
        /\ Period * Epoch \in Nat /\ Period * d \in Nat
    BY <1>1, <2>4, <2>5, LowFacts, ProductGrows
  <2>7. h >= lazy + Period
    BY <1>1, <2>4, <2>5, <2>6
  <2>8. h <= due[q[i]]
    <3>1. CASE i = 1
      BY <2>3, <3>1
    <3>2. CASE 1 < i
      BY <2>1, <3>2 DEF ListInv, Sorted
    <3> QED
      BY <3>1, <3>2
  <2> HIDE DEF h
  <2> QED
    BY <1>1, <2>2, <2>3, <2>7, <2>8
<1>4. ~Contains(q, Overflow)
  <2> SUFFICES ASSUME Contains(q, Overflow) PROVE FALSE
    OBVIOUS
  <2>1. PICK i \in 1..Len(q) : q[i] = Overflow
    BY DEF Contains
  <2>2. due[Overflow] >= lazy + Period /\ due[Overflow] < lazy + Period
    BY <1>3, <2>1 DEF ListInv, WrapSoon
  <2>3. due[Overflow] \in Nat
    BY <1>1, ContextFacts
  <2> QED
    BY <1>1, <2>2, <2>3
<1>5. /\ queue' \in Seq(Contexts) /\ Len(queue') = Len(q) + 1
      /\ \A i \in 1..(Len(q) + 1) :
            queue'[i] = IF i = 1 THEN Overflow ELSE q[i - 1]
  <2>1. queue' = <<Overflow>> \o q
    BY DEF ScheduleWrap
  <2>2. <<Overflow>> \in Seq(Contexts) /\ Len(<<Overflow>>) = 1
        /\ <<Overflow>>[1] = Overflow
    BY ContextFacts
  <2>3. /\ <<Overflow>> \o q \in Seq(Contexts)
        /\ Len(<<Overflow>> \o q) = 1 + Len(q)
        /\ \A i \in 1..(1 + Len(q)) :
              (<<Overflow>> \o q)[i] = IF i <= 1 THEN <<Overflow>>[i] ELSE q[i - 1]
    BY <1>1, <2>2, ConcatProperties
  <2> QED
    BY <1>1, <2>1, <2>2, <2>3
<1>6. /\ due'[Overflow] = WrapTime
      /\ \A t \in Contexts : t # Overflow => due'[t] = due[t]
      /\ due' \in [Contexts -> Times]
  BY <1>1, <1>2, ContextFacts DEF ScheduleWrap
<1>7. \A i \in 1..Len(q) : q[i] # Overflow
  BY <1>4 DEF Contains
<1>8. Sorted(queue)'
  <2> SUFFICES ASSUME NEW i \in 1..Len(queue'), NEW j \in 1..Len(queue'), i < j
               PROVE  due'[queue'[i]] <= due'[queue'[j]] /\ queue'[i] # queue'[j]
    BY <1>5 DEF Sorted
  <2>1. j - 1 \in 1..Len(q) /\ queue'[j] = q[j - 1]
    BY <1>1, <1>5
  <2>2. queue'[j] # Overflow /\ due'[queue'[j]] = due[q[j - 1]]
        /\ due[q[j - 1]] >= lazy + Period
    BY <1>3, <1>6, <1>7, <2>1
  <2>3. CASE i = 1
    <3>1. queue'[i] = Overflow
      BY <1>1, <1>5, <2>3
    <3>2. due[q[j - 1]] \in Nat
      BY <1>1, <1>3, <2>1
    <3> QED
      BY <1>1, <1>2, <1>6, <2>2, <3>1, <3>2
  <2>4. CASE i # 1
    <3>1. i - 1 \in 1..Len(q) /\ queue'[i] = q[i - 1] /\ i - 1 < j - 1
      BY <1>1, <1>5, <2>4
    <3>2. due'[queue'[i]] = due[q[i - 1]]
      BY <1>3, <1>6, <1>7, <3>1
    <3> QED
      BY <2>1, <2>2, <3>1, <3>2 DEF ListInv, Sorted
  <2> QED
    BY <2>3, <2>4
<1>9. WrapSoon(queue)'
  BY <1>2, <1>6 DEF WrapSoon
<1>10. InTime(queue)'
  <2> SUFFICES ASSUME NEW t \in Timers, Contains(queue', t)
               PROVE  /\ cnr' = (Low' + (ticks' - readAt')) % Period
                      /\ due'[t] + readAt' > asked'[t] + lazy'
    BY DEF InTime
  <2>1. t \in Contexts /\ t # Overflow
    BY ContextFacts
  <2>2. Contains(q, t)
    <3>1. PICK i \in 1..Len(queue') : queue'[i] = t
      BY DEF Contains
    <3>2. i - 1 \in 1..Len(q) /\ q[i - 1] = t
      BY <1>1, <1>5, <2>1, <3>1
    <3> QED
      BY <3>2 DEF Contains
  <2>3. Low' = Low /\ due'[t] = due[t]
    BY <1>6, <2>1 DEF Low
  <2> QED
    BY <2>2, <2>3 DEF ListInv, InTime
<1> QED
  BY <1>6, <1>8, <1>9, <1>10 DEF ListInv

\* Whatever the list its caller leaves, timeout_reschedule leaves a good one.
LEMMA RescheduleStep ==
    ASSUME TypeOK, ClockBound, NEW q, ListInv(q), Reschedule(q),
           UNCHANGED <<lazy, ticks, readAt, asked>>
    PROVE  /\ ListInv(queue)' /\ ClockBound'
           /\ due' \in [Contexts -> Times]
           /\ cnr' \in 0..(Period - 1) /\ cmr' \in 0..(Period - 1)
           /\ ten' \in BOOLEAN /\ tcf' \in BOOLEAN
<1>1. /\ due \in [Contexts -> Times] /\ cnr \in 0..(Period - 1)
      /\ cmr \in 0..(Period - 1) /\ ten \in BOOLEAN /\ tcf \in BOOLEAN
      /\ Period \in Nat \ {0}
  BY WrapFacts DEF TypeOK
<1>2. CASE Stop(q)
  <2>1. cnr' = 0 /\ cmr' = cmr /\ ten' = FALSE /\ tcf' = FALSE /\ due' = due
    BY <1>2 DEF Stop
  <2>2. ListInv(queue)'
    <3>1. queue' = <<>>
      BY <1>2 DEF Stop
    <3> QED
      BY <3>1, EmptyQueue DEF ListInv, Sorted, WrapSoon, InTime
  <2>3. ClockBound'
    BY <2>1, ClockStop
  <2>4. cnr' \in 0..(Period - 1)
    BY <1>1, <2>1
  <2>5. ten' \in BOOLEAN /\ tcf' \in BOOLEAN
    BY <2>1
  <2> QED
    BY <1>1, <2>1, <2>2, <2>3, <2>4, <2>5
<1>3. CASE KeepRunning(q)
  <2>1. q = <<>> /\ ScheduleWrap(q) /\ UNCHANGED <<cnr, cmr, ten, tcf>>
    BY <1>3 DEF KeepRunning, timerVars
  <2>2. ListInv(queue)' /\ due' \in [Contexts -> Times]
    BY <2>1, Wrapped
  <2>3. ClockBound'
    BY <2>1, ClockStop
  <2> QED
    BY <1>1, <2>1, <2>2, <2>3
<1>4. CASE Arm(q)
  <2>1. cnr' = cnr /\ ten' = TRUE /\ tcf' = FALSE /\ q # <<>>
    BY <1>4 DEF Arm
  <2>2. ListInv(queue)' /\ due' \in [Contexts -> Times] /\ queue' # <<>>
    <3>1. CASE NeedsWrap(Head(q))
      <4>1. ScheduleWrap(q)
        BY <1>4, <3>1 DEF Arm
      <4>2. queue' # <<>>
        <5>1. q \in Seq(Contexts) /\ <<Overflow>> \in Seq(Contexts)
          BY ContextFacts DEF ListInv, Sorted
        <5> QED
          BY <4>1, <5>1 DEF ScheduleWrap
      <4> QED
        BY <2>1, <3>1, <4>1, <4>2, Wrapped
    <3>2. CASE ~NeedsWrap(Head(q))
      <4>1. queue' = q /\ due' = due
        BY <1>4, <3>2 DEF Arm
      <4> QED
        BY <1>1, <2>1, <4>1, SameList
    <3> QED
      BY <3>1, <3>2
  <2>3. ClockBound'
    BY <2>1, ClockStop
  <2>4. cmr' \in 0..(Period - 1)
    <3>1. Head(queue') \in Contexts
      BY <2>2 DEF ListInv, Sorted
    <3>2. due'[Head(queue')] \in Nat
      BY <2>2, <3>1, WrapFacts
    <3>3. cmr' = due'[Head(queue')] % Period
      BY <1>4 DEF Arm
    <3> QED
      BY <1>1, <3>2, <3>3, DivMod
  <2>5. ten' \in BOOLEAN /\ tcf' \in BOOLEAN
    BY <2>1
  <2> QED
    BY <1>1, <2>1, <2>2, <2>3, <2>4, <2>5
<1> QED
  BY <1>2, <1>3, <1>4 DEF Reschedule

-----------------------------------------------------------------------------
(* The steps                                                               *)

LEMMA ModSucc ==
    ASSUME NEW P \in Nat \ {0}, NEW x \in Nat
    PROVE  ((x % P) + 1) % P = (x + 1) % P
<1> DEFINE d == x \div P
           m == x % P
<1>1. d \in Nat /\ m \in 0..(P - 1) /\ x = P * d + m
  BY DivMod
<1> HIDE DEF d, m
<1>2. P * d \in Nat /\ P * (d + 1) = P * d + P /\ d + 1 \in Nat
  BY <1>1
<1>3. CASE m + 1 < P
  <2> DEFINE n == m + 1
             y == x + 1
  <2>1. n \in 0..(P - 1) /\ n \in Nat /\ n < P /\ y = P * d + n /\ y \in Nat
    BY <1>1, <1>2, <1>3
  <2> HIDE DEF n, y
  <2>2. n % P = n
    BY <2>1, ModFacts
  <2>3. y % P = n
    BY <1>1, <2>1, DivModUnique
  <2>4. n % P = y % P
    BY <2>2, <2>3
  <2> QED
    BY <2>4 DEF m, n, y
<1>4. CASE m + 1 = P
  <2>1. m + 1 = P * 1 + 0 /\ 0 \in 0..(P - 1) /\ m + 1 \in Nat
    BY <1>1, <1>4
  <2>2. (m + 1) % P = 0
    BY <2>1, DivModUnique
  <2>3. x + 1 = P * (d + 1) + 0 /\ x + 1 \in Nat
    BY <1>1, <1>2, <1>4
  <2>4. (x + 1) % P = 0
    BY <1>2, <2>1, <2>3, DivModUnique
  <2> QED
    BY <2>2, <2>4 DEF m
<1> QED
  BY <1>1, <1>3, <1>4

LEMMA TickStep ==
    ASSUME TimeoutInv, Tick PROVE TimeoutInv'
<1>1. TypeOK /\ ClockBound /\ ListInv(queue)
  BY DEF TimeoutInv
<1>2. /\ UNCHANGED <<queue, due, lazy, refs, cmr, ten, pc, running, readAt,
                     zero, asked>>
      /\ ticks' = ticks + 1 /\ cnr' = (cnr + 1) % Period /\ ticks < Horizon
  BY DEF Tick, queueVars
<1>3. /\ cnr \in 0..(Period - 1) /\ ticks \in 0..Horizon /\ Horizon \in Nat
      /\ readAt \in 0..ticks /\ Period \in Nat \ {0} /\ lazy \in Times
      /\ stall \in 0..MaxStall /\ MaxStall \in Nat
  BY <1>1, TimeoutAssumption DEF TypeOK, TimeoutAssumption
<1>4. TypeOK'
  <2>1. cnr' \in 0..(Period - 1) /\ ticks' \in 0..Horizon /\ readAt' \in 0..ticks'
    BY <1>2, <1>3, DivMod
  <2>2. stall' \in 0..MaxStall
    BY <1>3 DEF Tick
  <2>3. tcf' \in BOOLEAN /\ latched' \in BOOLEAN
    BY <1>1 DEF Tick, TypeOK
  <2> QED
    BY <1>1, <1>2, <2>1, <2>2, <2>3 DEF TypeOK
<1>5. ClockBound'
  BY <1>1, ClockTick
<1>6. Sorted(queue)' /\ WrapSoon(queue)'
  BY <1>1, <1>2 DEF ListInv, Sorted, WrapSoon
<1>7. InTime(queue)'
  <2> SUFFICES ASSUME NEW t \in Timers, Contains(queue, t)
               PROVE  /\ cnr' = (Low' + (ticks' - readAt')) % Period
                      /\ due'[t] + readAt' > asked'[t] + lazy'
    BY <1>2 DEF InTime
  <2> DEFINE x == Low + (ticks - readAt)
  <2>1. cnr = x % Period /\ due[t] + readAt > asked[t] + lazy
    BY <1>1 DEF ListInv, InTime
  <2>2. Low \in 0..(Period - 1) /\ Low' = Low
    BY <1>2, <1>3, LowFacts DEF Low
  <2>3. x \in Nat /\ Low' + (ticks' - readAt') = x + 1
    BY <1>2, <1>3, <2>2
  <2> HIDE DEF x
  <2>4. cnr' = (x + 1) % Period
    BY <1>2, <1>3, <2>1, <2>3, ModSucc
  <2> QED
    BY <1>2, <2>1, <2>3, <2>4
<1> QED
  BY <1>4, <1>5, <1>6, <1>7 DEF TimeoutInv, ListInv

\* timeout_update_time: what is queued stays in time.
LEMMA UpdateTypes ==
    ASSUME NoWrap, TypeOK, ClockBound, UpdateTime, ticks' = ticks
    PROVE  lazy' \in Times /\ readAt' \in 0..ticks' /\ zero' \in Int
<1>1. ticks \in Nat /\ zero \in Int
  BY DEF TypeOK
<1> QED
  BY <1>1, NowFacts DEF UpdateTime

LEMMA UpdateInTime ==
    ASSUME NoWrap, TypeOK, ClockBound, UpdateTime, UNCHANGED <<ticks, cnr>>
    PROVE  /\ lazy' >= lazy /\ lazy \in Nat /\ lazy' \in Nat
           /\ cnr' = (Low' + (ticks' - readAt')) % Period
           /\ \A t \in Timers : \A q :
                 InTime(q) /\ Contains(q, t) => due[t] + readAt' > asked[t] + lazy'
<1>1. /\ lazy \in Times /\ cnr \in 0..(Period - 1) /\ Period \in Nat \ {0}
      /\ ticks \in Nat /\ readAt \in Nat /\ lazy \in Nat
      /\ due \in [Contexts -> Times] /\ asked \in [Timers -> Nat]
  BY WrapFacts DEF TypeOK
<1>2. lazy' = Now /\ readAt' = ticks /\ Now \in Nat /\ Now >= lazy /\ Low' = cnr
  BY NowFacts DEF UpdateTime, Low
<1>3. cnr' = (Low' + (ticks' - readAt')) % Period
  <2>1. Low' + (ticks' - readAt') = cnr
    BY <1>1, <1>2
  <2>2. cnr % Period = cnr
    BY <1>1, ModFacts
  <2> QED
    BY <2>1, <2>2
<1>4. ASSUME NEW t \in Timers, NEW q, InTime(q), Contains(q, t)
      PROVE  due[t] + readAt' > asked[t] + lazy'
  <2>1. /\ cnr = (Low + (ticks - readAt)) % Period
        /\ due[t] + readAt > asked[t] + lazy
    BY <1>4 DEF InTime
  <2>2. Now + readAt <= ticks + lazy
    BY <2>1, NoGain
  <2>3. due[t] \in Nat /\ asked[t] \in Nat
    BY <1>1, ContextFacts, WrapFacts
  <2> QED
    BY <1>1, <1>2, <2>1, <2>2, <2>3
<1> QED
  BY <1>1, <1>2, <1>3, <1>4

LEMMA UpdateList ==
    ASSUME NoWrap, TypeOK, ClockBound, NEW q, ListInv(q), UpdateTime,
           queue' = q, UNCHANGED <<due, cnr, ticks, asked>>
    PROVE  ListInv(queue)'
<1>1. Sorted(queue)'
  BY DEF ListInv, Sorted
<1>2. WrapSoon(queue)'
  <2> SUFFICES ASSUME Contains(q, Overflow)
               PROVE  due[Overflow] < lazy' + Period
    BY DEF WrapSoon
  <2>1. due[Overflow] < lazy + Period
    BY DEF ListInv, WrapSoon
  <2>2. due[Overflow] \in Nat
    BY ContextFacts, WrapFacts DEF TypeOK
  <2> QED
    BY <2>1, <2>2, UpdateInTime, WrapFacts
<1>3. InTime(queue)'
  BY UpdateInTime DEF ListInv, InTime
<1> QED
  BY <1>1, <1>2, <1>3 DEF ListInv

\* LPTMR0_Handler, or its loop after a callback: the head leaves, or the loop
\* ends.
LEMMA LoopStep ==
    ASSUME NoWrap, TimeoutInv, Loop, latched' \in BOOLEAN PROVE TimeoutInv'
<1>1. TypeOK /\ ClockBound /\ ListInv(queue)
  BY DEF TimeoutInv
<1>2. /\ UNCHANGED <<due, refs, cnr, cmr, ten, tcf, ticks, asked>>
      /\ UpdateTime /\ stall' = 0
  BY DEF Loop, timerVars
<1>3. ClockBound'
  BY <1>1, <1>2, ClockUpdate
<1>4. ListInv(queue)' /\ running' \in Contexts \union {None} /\ pc' \in Labels
  <2>1. CASE Expired(queue)
    <3>1. /\ queue # <<>> /\ queue' = Tail(queue)
          /\ running' = Head(queue) /\ pc' = "callback"
      BY <2>1 DEF Loop, Expired
    <3>2. Head(queue) \in Contexts
      BY <1>1, <3>1 DEF TypeOK
    <3>3. ListInv(Tail(queue))
      BY <1>1, <3>1, TailThinner
    <3>4. ListInv(queue)'
      BY <1>1, <1>2, <3>1, <3>3, UpdateList
    <3> QED
      BY <3>1, <3>2, <3>4 DEF Labels
  <2>2. CASE ~Expired(queue)
    <3>1. queue' = queue /\ running' = None /\ pc' = "endResched"
      BY <2>2 DEF Loop
    <3>2. ListInv(queue)'
      BY <1>1, <1>2, <3>1, UpdateList
    <3> QED
      BY <3>1, <3>2 DEF Labels
  <2> QED
    BY <2>1, <2>2
<1>5. TypeOK'
  <2>1. lazy' \in Times /\ readAt' \in 0..ticks' /\ zero' \in Int
    BY <1>1, <1>2, UpdateTypes
  <2>2. queue' \in Seq(Contexts)
    BY <1>4 DEF ListInv, Sorted
  <2>3. stall' \in 0..MaxStall
    BY <1>2, TimeoutAssumption DEF TimeoutAssumption
  <2> QED
    BY <1>1, <1>2, <1>4, <2>1, <2>2, <2>3 DEF TypeOK
<1> QED
  BY <1>3, <1>4, <1>5 DEF TimeoutInv

\* stall stays as it is or starts afresh.
LEMMA ResumeType == ASSUME TypeOK, Resume PROVE stall' \in 0..MaxStall
<1>1. stall \in 0..MaxStall /\ 0 \in 0..MaxStall
  BY TimeoutAssumption DEF TypeOK, TimeoutAssumption
<1> QED
  BY <1>1 DEF Resume

\* timeout_add: the entry gets its place, and its time does not wrap.
LEMMA AddFacts ==
    ASSUME NoWrap, TimeoutInv, NEW t \in Timers, NEW ms \in Delays,
           TimeoutAdd(t, ms)
    PROVE  /\ DueAt(ms) = ms + Now + 1 /\ DueAt(ms) \in Times /\ DueAt(ms) \in Nat
           /\ Now \in Nat
           /\ due'[t] = DueAt(ms) /\ due' \in [Contexts -> Times]
           /\ \A u \in Contexts : u # t => due'[u] = due[u]
           /\ queue' \in Seq(Contexts) /\ Len(queue') = Len(queue) + 1
           /\ \E k \in 1..(Len(queue) + 1) :
                 /\ \A i \in 1..(Len(queue) + 1) :
                       queue'[i] = IF i < k THEN queue[i]
                                   ELSE IF i = k THEN t ELSE queue[i - 1]
                 /\ \A i \in 1..(k - 1) : due[queue[i]] <= DueAt(ms)
                 /\ \A i \in k..Len(queue) : due[queue[i]] > DueAt(ms)
<1> DEFINE time == DueAt(ms)
<1>1. TypeOK /\ ClockBound /\ ListInv(queue)
  BY DEF TimeoutInv
<1>2. /\ UNCHANGED <<refs, cnr, cmr, ten, tcf, latched, running, ticks>>
      /\ UpdateTime /\ due' = [due EXCEPT ![t] = time]
      /\ queue' = Insert(queue, t, time)
      /\ asked' = [asked EXCEPT ![t] = ticks + ms]
      /\ ~Contains(queue, t) /\ Resume
  BY DEF TimeoutAdd, timerVars
<1>3. /\ due \in [Contexts -> Times] /\ asked \in [Timers -> Nat]
      /\ queue \in Seq(Contexts) /\ Len(queue) \in Nat
      /\ ticks \in Nat /\ Period \in Nat \ {0}
      /\ Wrap \in Nat \ {0} /\ Times = 0..(Wrap - 1) /\ Times \subseteq Nat
  BY <1>1, WrapFacts DEF TypeOK
<1>4. t \in Contexts /\ t # Overflow /\ ms \in Nat
  BY ContextFacts, TimeoutAssumption DEF TimeoutAssumption
<1>5. time = ms + Now + 1 /\ time \in Times /\ time \in Nat /\ Now \in Nat
  <2>1. Now \in Nat /\ Now < Period * (Horizon + 1)
    BY <1>1, NowFacts
  <2>2. Period * (Horizon + 1) \in Nat /\ ms + Period * (Horizon + 1) < Wrap
    <3>1. Horizon + 1 \in Nat
      BY TimeoutAssumption DEF TimeoutAssumption
    <3> QED
      BY <1>3, <3>1 DEF NoWrap
  <2> DEFINE x == ms + Now + 1
  <2>3. x \in Nat /\ x < Wrap
    BY <1>3, <1>4, <2>1, <2>2
  <2>4. time = x % Wrap
    BY DEF DueAt
  <2> HIDE DEF x, time
  <2>5. x % Wrap = x
    BY <1>3, <2>3, ModFacts
  <2> QED
    BY <1>3, <2>1, <2>3, <2>4, <2>5 DEF x
<1> HIDE DEF time
<1>6. /\ due'[t] = time /\ due' \in [Contexts -> Times]
      /\ \A u \in Contexts : u # t => due'[u] = due[u]
  BY <1>2, <1>3, <1>4, <1>5
<1>7. /\ asked'[t] = ticks + ms /\ asked' \in [Timers -> Nat]
      /\ \A u \in Timers : u # t => asked'[u] = asked[u]
  BY <1>2, <1>3, <1>4
<1>8. \A i, j \in 1..Len(queue) :
         i < j => due[queue[i]] <= due[queue[j]] /\ queue[i] # queue[j]
  BY <1>1 DEF ListInv, Sorted
<1>9. \A i \in 1..Len(queue) : queue[i] # t /\ queue[i] \in Contexts
  BY <1>2, <1>3 DEF Contains
<1>10. /\ queue' \in Seq(Contexts) /\ Len(queue') = Len(queue) + 1
       /\ \E k \in 1..(Len(queue) + 1) :
             /\ \A i \in 1..(Len(queue) + 1) :
                   queue'[i] = IF i < k THEN queue[i]
                               ELSE IF i = k THEN t ELSE queue[i - 1]
             /\ \A i \in 1..(k - 1) : due[queue[i]] <= time
             /\ \A i \in k..Len(queue) : due[queue[i]] > time
  <2> DEFINE s == Insert(queue, t, time)
  <2>1. \A i, j \in 1..Len(queue) : i < j => due[queue[i]] <= due[queue[j]]
    BY <1>8
  <2>2. /\ s \in Seq(Contexts) /\ Len(s) = Len(queue) + 1
        /\ \E k \in 1..(Len(queue) + 1) :
              /\ \A i \in 1..(Len(queue) + 1) :
                    s[i] = IF i < k THEN queue[i]
                           ELSE IF i = k THEN t ELSE queue[i - 1]
              /\ \A i \in 1..(k - 1) : due[queue[i]] <= time
              /\ \A i \in k..Len(queue) : due[queue[i]] > time
    <3>1. /\ due \in [Contexts -> Times] /\ queue \in Seq(Contexts)
          /\ t \in Contexts /\ time \in Nat
      BY <1>3, <1>4, <1>5
    <3> QED
      BY <2>1, <3>1, InsertFacts, Zenon
  <2>3. queue' = s
    BY <1>2
  <2> HIDE DEF s
  <2> QED
    BY <2>2, <2>3
<1> QED
  BY <1>5, <1>6, <1>10 DEF time

\* timeout_add keeps the list sorted.
LEMMA AddStep ==
    ASSUME NoWrap, TimeoutInv, NEW t \in Timers, NEW ms \in Delays,
           TimeoutAdd(t, ms)
    PROVE  TimeoutInv'
<1> DEFINE time == DueAt(ms)
<1>1. TypeOK /\ ClockBound /\ ListInv(queue)
  BY DEF TimeoutInv
<1>2. /\ UNCHANGED <<refs, cnr, cmr, ten, tcf, latched, running, ticks>>
      /\ UpdateTime /\ due' = [due EXCEPT ![t] = time]
      /\ queue' = Insert(queue, t, time)
      /\ asked' = [asked EXCEPT ![t] = ticks + ms]
      /\ ~Contains(queue, t) /\ Resume
  BY DEF TimeoutAdd, timerVars
<1>3. /\ due \in [Contexts -> Times] /\ asked \in [Timers -> Nat]
      /\ queue \in Seq(Contexts) /\ Len(queue) \in Nat
      /\ ticks \in Nat /\ Period \in Nat \ {0}
      /\ Wrap \in Nat \ {0} /\ Times = 0..(Wrap - 1) /\ Times \subseteq Nat
  BY <1>1, WrapFacts DEF TypeOK
<1>4. t \in Contexts /\ t # Overflow /\ ms \in Nat
  BY ContextFacts, TimeoutAssumption DEF TimeoutAssumption
<1>5. time = ms + Now + 1 /\ time \in Times /\ time \in Nat /\ Now \in Nat
  BY AddFacts
<1> HIDE DEF time
<1>6. /\ due'[t] = time /\ due' \in [Contexts -> Times]
      /\ \A u \in Contexts : u # t => due'[u] = due[u]
  BY AddFacts DEF time
<1>7. /\ asked'[t] = ticks + ms /\ asked' \in [Timers -> Nat]
      /\ \A u \in Timers : u # t => asked'[u] = asked[u]
  BY <1>2, <1>3, <1>4
<1>8. \A i, j \in 1..Len(queue) :
         i < j => due[queue[i]] <= due[queue[j]] /\ queue[i] # queue[j]
  BY <1>1 DEF ListInv, Sorted
<1>9. \A i \in 1..Len(queue) : queue[i] # t /\ queue[i] \in Contexts
  BY <1>2, <1>3 DEF Contains
<1>10. /\ queue' \in Seq(Contexts) /\ Len(queue') = Len(queue) + 1
       /\ \E k \in 1..(Len(queue) + 1) :
             /\ \A i \in 1..(Len(queue) + 1) :
                   queue'[i] = IF i < k THEN queue[i]
                               ELSE IF i = k THEN t ELSE queue[i - 1]
             /\ \A i \in 1..(k - 1) : due[queue[i]] <= time
             /\ \A i \in k..Len(queue) : due[queue[i]] > time
  BY AddFacts DEF time
<1>11. PICK k \in 1..(Len(queue) + 1) :
             /\ \A i \in 1..(Len(queue) + 1) :
                   queue'[i] = IF i < k THEN queue[i]
                               ELSE IF i = k THEN t ELSE queue[i - 1]
             /\ \A i \in 1..(k - 1) : due[queue[i]] <= time
             /\ \A i \in k..Len(queue) : due[queue[i]] > time
  BY <1>10
<1>12. ASSUME NEW i \in 1..Len(queue'), i # k
       PROVE  LET n == IF i < k THEN i ELSE i - 1
              IN n \in 1..Len(queue) /\ queue'[i] = queue[n]
  <2>1. i \in 1..(Len(queue) + 1)
    BY <1>10
  <2>2. CASE i < k
    BY <1>3, <1>11, <2>1, <2>2
  <2>3. CASE ~(i < k)
    BY <1>3, <1>11, <1>12, <2>1, <2>3
  <2> QED
    BY <2>2, <2>3
<1>13. Sorted(queue)'
  <2> SUFFICES ASSUME NEW i \in 1..Len(queue'), NEW j \in 1..Len(queue'), i < j
               PROVE  due'[queue'[i]] <= due'[queue'[j]] /\ queue'[i] # queue'[j]
    BY <1>10 DEF Sorted
  <2> DEFINE a == IF i < k THEN i ELSE i - 1
             b == IF j < k THEN j ELSE j - 1
  <2>1. i \in 1..(Len(queue) + 1) /\ j \in 1..(Len(queue) + 1) /\ k \in Nat
    BY <1>3, <1>10
  <2>2. CASE i = k
    <3>1. queue'[i] = t /\ j # k /\ ~(j < k)
      BY <1>11, <2>1, <2>2
    <3>2. b \in 1..Len(queue) /\ queue'[j] = queue[b] /\ b \in k..Len(queue)
      BY <1>3, <1>12, <2>1, <2>2, <3>1
    <3> HIDE DEF b
    <3>3. due[queue[b]] > time /\ queue[b] # t /\ queue[b] \in Contexts
      BY <1>9, <1>11, <3>2
    <3>4. due'[queue'[j]] > due'[queue'[i]]
      BY <1>6, <3>1, <3>2, <3>3
    <3>5. due'[queue'[j]] \in Nat /\ due'[queue'[i]] \in Nat
      BY <1>3, <1>4, <1>6, <3>1, <3>2, <3>3
    <3> QED
      BY <3>1, <3>2, <3>3, <3>4, <3>5
  <2>3. CASE j = k
    <3>1. queue'[j] = t /\ i # k /\ i < k
      BY <1>11, <2>1, <2>3
    <3>2. a \in 1..Len(queue) /\ queue'[i] = queue[a] /\ a \in 1..(k - 1)
      BY <1>3, <1>12, <2>1, <3>1
    <3> HIDE DEF a
    <3>3. due[queue[a]] <= time /\ queue[a] # t /\ queue[a] \in Contexts
      BY <1>9, <1>11, <3>2
    <3> QED
      BY <1>6, <3>1, <3>2, <3>3
  <2>4. CASE i # k /\ j # k
    <3>1. /\ a \in 1..Len(queue) /\ queue'[i] = queue[a]
          /\ b \in 1..Len(queue) /\ queue'[j] = queue[b]
      BY <1>12, <2>4
    <3>2. a < b
      BY <1>3, <2>1, <2>4
    <3> HIDE DEF a, b
    <3> QED
      BY <1>6, <1>8, <1>9, <3>1, <3>2
  <2> QED
    BY <2>2, <2>3, <2>4
<1>14. ASSUME NEW u, u # t, Contains(queue', u) PROVE Contains(queue, u)
  <2>1. PICK i \in 1..Len(queue') : queue'[i] = u
    BY <1>14 DEF Contains
  <2>2. i # k
    BY <1>10, <1>11, <1>14, <2>1
  <2>3. PICK n \in 1..Len(queue) : queue'[i] = queue[n]
    BY <1>12, <2>2
  <2> QED
    BY <2>1, <2>3 DEF Contains
<1>15. /\ lazy' >= lazy /\ lazy \in Nat /\ lazy' \in Nat
       /\ cnr' = (Low' + (ticks' - readAt')) % Period
       /\ \A u \in Timers : \A q :
             InTime(q) /\ Contains(q, u) => due[u] + readAt' > asked[u] + lazy'
  BY <1>1, <1>2, UpdateInTime
<1>16. WrapSoon(queue)'
  <2> SUFFICES ASSUME Contains(queue', Overflow)
               PROVE  due'[Overflow] < lazy' + Period
    BY DEF WrapSoon
  <2>1. Contains(queue, Overflow)
    BY <1>4, <1>14
  <2>2. due[Overflow] < lazy + Period
    BY <1>1, <2>1 DEF ListInv, WrapSoon
  <2>3. due'[Overflow] = due[Overflow] /\ due[Overflow] \in Nat
    BY <1>3, <1>4, <1>6, ContextFacts
  <2> QED
    BY <1>3, <1>15, <2>2, <2>3
<1>17. InTime(queue)'
  <2> SUFFICES ASSUME NEW u \in Timers, Contains(queue', u)
               PROVE  /\ cnr' = (Low' + (ticks' - readAt')) % Period
                      /\ due'[u] + readAt' > asked'[u] + lazy'
    BY DEF InTime
  <2>1. CASE u = t
    <3>1. lazy' = Now /\ readAt' = ticks
      BY <1>2 DEF UpdateTime
    <3>2. due'[u] = ms + Now + 1 /\ asked'[u] = ticks + ms
      BY <1>5, <1>6, <1>7, <2>1
    <3>3. due'[u] + readAt' > asked'[u] + lazy'
      BY <1>3, <1>4, <1>5, <3>1, <3>2
    <3> QED
      BY <1>15, <3>3
  <2>2. CASE u # t
    <3>1. due'[u] = due[u] /\ asked'[u] = asked[u]
      BY <1>6, <1>7, <2>2, ContextFacts
    <3>2. Contains(queue, u) /\ InTime(queue)
      BY <1>1, <1>14, <2>2 DEF ListInv
    <3>3. due[u] + readAt' > asked[u] + lazy'
      BY <1>15, <3>2
    <3> QED
      BY <1>15, <3>1, <3>3
  <2> QED
    BY <2>1, <2>2
<1>18. TypeOK'
  <2>1. lazy' \in Times /\ readAt' \in 0..ticks' /\ zero' \in Int
    BY <1>1, <1>2, UpdateTypes
  <2>2. pc' \in Labels
    BY DEF TimeoutAdd, CanCall, Resched, Labels
  <2>3. stall' \in 0..MaxStall
    BY <1>1, <1>2, ResumeType
  <2> QED
    BY <1>1, <1>2, <1>6, <1>7, <1>10, <2>1, <2>2, <2>3 DEF TypeOK
<1>19. ClockBound'
  BY <1>1, <1>2, ClockUpdate
<1> QED
  BY <1>13, <1>16, <1>17, <1>18, <1>19 DEF TimeoutInv, ListInv

\* The functions that end in timeout_reschedule, with what they leave alone.
LEMMA CallStep ==
    ASSUME TimeoutInv, NEW q, ListInv(q), Reschedule(q),
           UNCHANGED <<lazy, latched, running, history>>,
           refs' \in 0..MaxRefs, pc' \in Labels, stall' \in 0..MaxStall
    PROVE  TimeoutInv'
<1>1. TypeOK /\ ClockBound
  BY DEF TimeoutInv
<1>2. UNCHANGED <<lazy, ticks, readAt, asked, zero, latched, running>>
  BY DEF history
<1>3. /\ ListInv(queue)' /\ ClockBound'
      /\ due' \in [Contexts -> Times]
      /\ cnr' \in 0..(Period - 1) /\ cmr' \in 0..(Period - 1)
      /\ ten' \in BOOLEAN /\ tcf' \in BOOLEAN
  BY <1>1, <1>2, RescheduleStep
<1>4. queue' \in Seq(Contexts)
  BY <1>3 DEF ListInv, Sorted
<1>5. latched' \in BOOLEAN /\ ticks' \in 0..Horizon /\ readAt' \in 0..ticks'
  BY <1>1, <1>2 DEF TypeOK
<1>6. TypeOK'
  BY <1>1, <1>2, <1>3, <1>4, <1>5 DEF TypeOK
<1> QED
  BY <1>3, <1>6 DEF TimeoutInv

LEMMA CancelStep ==
    ASSUME TimeoutInv, NEW t \in Timers, TimeoutCancel(t) PROVE TimeoutInv'
<1>1. TypeOK /\ ClockBound /\ ListInv(queue)
  BY DEF TimeoutInv
<1>2. /\ UNCHANGED <<lazy, refs, latched, pc, running, history, stall>>
      /\ Contains(queue, t)
  BY DEF TimeoutCancel
<1>3. CASE Head(queue) = t
  <2>1. Reschedule(Tail(queue))
    BY <1>3 DEF TimeoutCancel
  <2>2. queue # <<>>
    BY <1>2, EmptyQueue
  <2>3. ListInv(Tail(queue))
    BY <1>1, <2>2, TailThinner
  <2>4. refs' \in 0..MaxRefs /\ pc' \in Labels /\ stall' \in 0..MaxStall
    BY <1>1, <1>2 DEF TypeOK
  <2> QED
    BY <1>2, <2>1, <2>3, <2>4, CallStep
<1>4. CASE Head(queue) # t
  <2>1. PICK i \in 1..Len(queue) : queue[i] = t /\ queue' = RemoveAt(queue, i)
    BY <1>4 DEF TimeoutCancel
  <2>2. UNCHANGED <<due, cnr, cmr, ten, tcf>>
    BY <1>4 DEF TimeoutCancel, timerVars
  <2>3. UNCHANGED <<ticks, readAt, zero, asked>>
    BY <1>2 DEF history
  <2>4. queue \in Seq(Contexts)
    BY <1>1 DEF TypeOK
  <2>5. /\ queue' \in Seq(Contexts) /\ Len(queue') = Len(queue) - 1
        /\ \A k \in 1..Len(queue') :
              queue'[k] = IF k < i THEN queue[k] ELSE queue[k + 1]
    BY <2>1, <2>4, RemoveAtFacts
  <2> DEFINE r == queue'
  <2>6. ListInv(r)
    BY <1>1, <2>5, Thinner
  <2>7. ListInv(queue)'
    BY <1>2, <2>2, <2>3, <2>6, SameList
  <2>8. ClockBound'
    BY <1>1, <1>2, <2>2, <2>3, ClockStop
  <2>9. TypeOK'
    BY <1>1, <1>2, <2>2, <2>3, <2>5 DEF TypeOK
  <2> QED
    BY <2>7, <2>8, <2>9 DEF TimeoutInv
<1> QED
  BY <1>3, <1>4

LEMMA RescheduleEnds ==
    ASSUME TimeoutInv, TimeoutReschedule PROVE TimeoutInv'
<1>1. TypeOK /\ ListInv(queue)
  BY DEF TimeoutInv
<1>2. /\ UNCHANGED <<lazy, refs, latched, running, history>>
      /\ Reschedule(queue) /\ Resume
  BY DEF TimeoutReschedule
<1>3. pc' \in Labels
  BY DEF TimeoutReschedule, Return, Labels
<1>4. refs' \in 0..MaxRefs
  BY <1>1, <1>2 DEF TypeOK
<1>5. stall' \in 0..MaxStall
  BY <1>1, <1>2, ResumeType
<1> QED
  BY <1>1, <1>2, <1>3, <1>4, <1>5, CallStep

LEMMA RefStep ==
    ASSUME TimeoutInv, TimeoutGetRef \/ TimeoutPutRef PROVE TimeoutInv'
<1>1. TypeOK /\ ListInv(queue)
  BY DEF TimeoutInv
<1>2. /\ UNCHANGED <<lazy, latched, pc, running, history, stall>>
      /\ Reschedule(queue)
  BY DEF TimeoutGetRef, TimeoutPutRef
<1>3. pc' \in Labels /\ stall' \in 0..MaxStall
  BY <1>1, <1>2 DEF TypeOK
<1>4. refs' \in 0..MaxRefs
  <2>1. refs \in 0..MaxRefs /\ MaxRefs \in Nat
    BY <1>1, TimeoutAssumption DEF TypeOK, TimeoutAssumption
  <2>2. (refs < MaxRefs /\ refs' = refs + 1) \/ (refs > 0 /\ refs' = refs - 1)
    BY DEF TimeoutGetRef, TimeoutPutRef
  <2> QED
    BY <2>1, <2>2
<1> QED
  BY <1>1, <1>2, <1>3, <1>4, CallStep

LEMMA GetTimeStep ==
    ASSUME NoWrap, TimeoutInv, TimeoutGetTime PROVE TimeoutInv'
<1>1. TypeOK /\ ClockBound /\ ListInv(queue)
  BY DEF TimeoutInv
<1>2. /\ UNCHANGED <<queue, due, refs, cnr, cmr, ten, tcf, latched, pc,
                     running, ticks, asked, stall>>
      /\ UpdateTime
  BY DEF TimeoutGetTime, timerVars
<1>3. ClockBound'
  BY <1>1, <1>2, ClockUpdate
<1>4. ListInv(queue)'
  BY <1>1, <1>2, UpdateList
<1>5. lazy' \in Times /\ readAt' \in 0..ticks' /\ zero' \in Int
  BY <1>1, <1>2, UpdateTypes
<1>6. TypeOK'
  BY <1>1, <1>2, <1>5 DEF TypeOK
<1> QED
  BY <1>3, <1>4, <1>6 DEF TimeoutInv

LEMMA TimeoutNextInv ==
    ASSUME NoWrap, TimeoutInv, [Next]_tvars PROVE TimeoutInv'
<1>1. CASE Tick
  BY <1>1, TickStep
<1>2. ASSUME NEW t \in Timers, NEW ms \in Delays, TimeoutAdd(t, ms)
      PROVE  TimeoutInv'
  BY <1>2, AddStep
<1>3. ASSUME NEW t \in Timers, TimeoutCancel(t) PROVE TimeoutInv'
  BY <1>3, CancelStep
<1>4. CASE TimeoutReschedule
  BY <1>4, RescheduleEnds
<1>5. CASE TimeoutGetRef \/ TimeoutPutRef
  BY <1>5, RefStep
<1>6. CASE TimeoutGetTime
  BY <1>6, GetTimeStep
<1>7. CASE LPTMR0_Handler
  <2>1. Loop /\ latched' = FALSE
    BY <1>7 DEF LPTMR0_Handler
  <2>2. latched' \in BOOLEAN
    BY <2>1
  <2> QED
    BY <2>1, <2>2, LoopStep
<1>8. CASE CallbackReturns
  <2>1. Loop /\ latched' = latched
    BY <1>8 DEF CallbackReturns
  <2>2. latched' \in BOOLEAN
    BY <2>1 DEF TimeoutInv, TypeOK
  <2> QED
    BY <2>1, <2>2, LoopStep
<1>9. CASE UNCHANGED tvars
  BY <1>9 DEF tvars, queueVars, timerVars, history, TimeoutInv, TypeOK,
              ClockBound, Epoch, Low, ListInv, Sorted, WrapSoon, InTime
<1> QED
  BY <1>1, <1>2, <1>3, <1>4, <1>5, <1>6, <1>7, <1>8, <1>9 DEF Next

LEMMA TimeoutInvHolds == ASSUME NoWrap PROVE Spec => []TimeoutInv
<1>1. Init => TimeoutInv
  BY TimeoutInitInv
<1>2. TimeoutInv /\ [Next]_tvars => TimeoutInv'
  BY TimeoutNextInv
<1> QED
  BY <1>1, <1>2, PTL DEF Spec

-----------------------------------------------------------------------------
(* Short timeouts: the clock is exact and nothing is late                  *)

\* What the code needs to keep time: no references (a timer that runs with an
\* empty list may stand still, TimebaseRuns), no piece of masked code longer
\* than a tick (timeout.c:115), and no timeout near the period of the counter
\* (the overflow entry comes a tick too late to save the period).
Short ==
    /\ NoWrap
    /\ MaxRefs = 0 /\ MaxStall <= 1
    /\ \A ms \in Delays \union {0} : ms + MaxStall + 2 < Period

\* The time it is, as the ticks have it.
Time == zero + ticks

\* The list holds what the program asked for, at the time it asked for, and
\* none of it as far away as a period.
AsAsked ==
    \A i \in 1..Len(queue) :
        /\ queue[i] \in Timers
        /\ due[queue[i]] = zero + asked[queue[i]] + 1
        /\ due[queue[i]] + MaxStall + 1 < lazy + Period

\* The counter shows the time; it runs while something is queued, except
\* between timeout_add and its call of timeout_reschedule, and only then or
\* until the handler ends.
Counting ==
    /\ ten \/ queue # <<>> => cnr = Time % Period
    /\ queue # <<>> /\ ~ten => pc \in {"mainResched", "callbackResched"}
    /\ pc = "main" /\ queue = <<>> => ~ten

\* Outside the handler the timer is armed for the head, which is still to come,
\* or its interrupt is pending.
Armed ==
    pc = "main" =>
        /\ tcf => latched
        /\ queue # <<>> =>
              IF latched THEN Time <= due[queue[1]] + 1 + stall
              ELSE cmr = due[queue[1]] % Period /\ Time <= due[queue[1]]

\* Masked code has read the clock at its beginning or later.  Where it is about
\* to arm the timer for good, the head was not due then; while a callback runs,
\* the callbacks of those before an entry, and the ones that have run, have
\* each a piece of masked code to themselves.
JustRead ==
    /\ pc # "main" => ticks <= readAt + stall
    /\ pc \in {"mainResched", "endResched"} /\ queue # <<>> =>
          lazy < due[queue[1]]
    /\ pc \in {"callback", "callbackResched"} =>
          \A i \in 1..Len(queue) :
              Time + MaxStall * i
                 <= due[queue[i]] + 1 + MaxStall * Cardinality(Timers) + stall

Pace == AsAsked /\ ClockExact /\ Counting /\ Armed /\ JustRead

\* Pieces of masked code, MaxStall is at most one.
LEMMA StallTimes ==
    ASSUME Short
    PROVE  /\ MaxStall \in {0, 1} /\ MaxStall + 2 < Period
           /\ \A k \in Nat : /\ MaxStall * k \in Nat
                             /\ MaxStall * (k + 1) = MaxStall * k + MaxStall
           /\ \A k, m \in Nat : k <= m => MaxStall * k <= MaxStall * m
<1>1. MaxStall \in Nat /\ MaxStall <= 1 /\ 0 + MaxStall + 2 < Period
  BY TimeoutAssumption DEF TimeoutAssumption, Short
<1>2. MaxStall \in {0, 1} /\ MaxStall + 2 < Period
  BY <1>1, WrapFacts
<1>3. CASE MaxStall = 0
  BY <1>2, <1>3
<1>4. CASE MaxStall = 1
  BY <1>2, <1>4
<1> QED
  BY <1>2, <1>3, <1>4

\* Two times within a period with the same value of the counter are the same.
LEMMA ModClose ==
    ASSUME NEW P \in Nat \ {0}, NEW x \in Nat, NEW y \in Nat,
           x % P = y % P, x < y + P, y < x + P
    PROVE  x = y
<1> DEFINE c == x \div P
           d == y \div P
           m == x % P
<1>1. c \in Nat /\ d \in Nat /\ m \in 0..(P - 1) /\ x = P * c + m /\ y = P * d + m
  BY DivMod
<1> HIDE DEF c, d, m
<1>2. P * c \in Nat /\ P * d \in Nat
  BY <1>1
<1>3. CASE c < d
  <2>1. P * c + P <= P * d
    BY <1>1, <1>3, ProductGrows
  <2> QED
    BY <1>1, <1>2, <2>1
<1>4. CASE d < c
  <2>1. P * d + P <= P * c
    BY <1>1, <1>4, ProductGrows
  <2> QED
    BY <1>1, <1>2, <2>1
<1>5. CASE c = d
  BY <1>1, <1>5
<1> QED
  BY <1>1, <1>3, <1>4, <1>5

\* As long as less than a period has passed since the clock was read, it is read
\* right.
LEMMA NowExact ==
    ASSUME NoWrap, TypeOK, ClockBound, ClockExact,
           cnr = Time % Period, ticks < readAt + Period
    PROVE  Now = Time /\ Time \in Nat
<1>1. /\ lazy \in Nat /\ ticks \in Nat /\ readAt \in Nat /\ readAt <= ticks
      /\ zero \in Int /\ Period \in Nat \ {0} /\ cnr \in 0..(Period - 1)
  BY WrapFacts DEF TypeOK
<1>2. lazy = zero + readAt
  BY DEF ClockExact
<1>3. Time \in Nat /\ lazy <= Time /\ Time < lazy + Period
  BY <1>1, <1>2 DEF Time
<1>4. Low \in 0..(Period - 1)
  BY LowFacts DEF TypeOK
<1>5. /\ Now \in Nat /\ Now >= lazy /\ Now % Period = cnr
      /\ Now = IF Low > cnr THEN lazy - Low + cnr + Period ELSE lazy - Low + cnr
  BY NowFacts
<1>6. Now < lazy + Period
  <2>1. CASE Low > cnr
    BY <1>1, <1>4, <1>5, <2>1
  <2>2. CASE ~(Low > cnr)
    BY <1>1, <1>4, <1>5, <2>2
  <2> QED
    BY <2>1, <2>2
<1>7. Now < Time + Period /\ Time < Now + Period
  BY <1>1, <1>3, <1>5, <1>6
<1> QED
  BY <1>1, <1>3, <1>5, <1>7, ModClose

\* Each timeout is on the list once.
LEMMA ListFits ==
    ASSUME TypeOK, Sorted(queue), AsAsked
    PROVE  /\ Len(queue) \in Nat /\ Len(queue) <= Cardinality(Timers)
           /\ Cardinality(Timers) \in Nat
<1>1. queue \in Seq(Contexts) /\ Len(queue) \in Nat
  BY DEF TypeOK
<1>2. IsFiniteSet(Timers)
  BY TimeoutAssumption DEF TimeoutAssumption
<1> DEFINE f == [i \in 1..Len(queue) |-> queue[i]]
<1>3. f \in [1..Len(queue) -> Timers]
  BY DEF AsAsked
<1>4. \A i, j \in 1..Len(queue) : queue[i] = queue[j] => i = j
  <2> SUFFICES ASSUME NEW i \in 1..Len(queue), NEW j \in 1..Len(queue),
                      queue[i] = queue[j], i # j
               PROVE  FALSE
    OBVIOUS
  <2>1. i < j \/ j < i
    BY <1>1
  <2> QED
    BY <2>1 DEF Sorted
<1>5. f \in Injection(1..Len(queue), Timers)
  BY <1>3, <1>4 DEF Injection, IsInjective
<1> HIDE DEF f
<1>6. Cardinality(1..Len(queue)) <= Cardinality(Timers)
  <2> DEFINE S == 1..Len(queue)
  <2>1. f \in Injection(S, Timers)
    BY <1>5
  <2> HIDE DEF S
  <2>2. Cardinality(S) <= Cardinality(Timers)
    BY <1>2, <2>1, FS_Injection, Zenon
  <2> QED
    BY <2>2 DEF S
<1>7. Cardinality(1..Len(queue)) = Len(queue)
  <2> DEFINE n == Len(queue)
  <2>1. n \in Nat /\ n \in Int /\ 1 \in Int
    BY <1>1
  <2> HIDE DEF n
  <2>2. Cardinality(1..n) = IF 1 > n THEN 0 ELSE n - 1 + 1
    BY <2>1, FS_Interval, Zenon
  <2>3. Cardinality(1..n) = n
    BY <2>1, <2>2
  <2> QED
    BY <2>3 DEF n
<1> QED
  BY <1>1, <1>2, <1>6, <1>7, FS_CardinalityType

\* No entry is due before the head.
LEMMA HeadFirst ==
    ASSUME TypeOK, Sorted(queue), NEW i \in 1..Len(queue)
    PROVE  /\ due[queue[1]] <= due[queue[i]]
           /\ due[queue[1]] \in Nat /\ due[queue[i]] \in Nat
           /\ 1 \in 1..Len(queue) /\ Len(queue) \in Nat
           /\ Head(queue) = queue[1] /\ queue # <<>>
<1>1. queue \in Seq(Contexts) /\ Len(queue) \in Nat /\ 1 \in 1..Len(queue)
  BY DEF TypeOK
<1>2. queue[1] \in Contexts /\ queue[i] \in Contexts
  BY <1>1
<1>3. due[queue[1]] \in Nat /\ due[queue[i]] \in Nat
  BY <1>2, WrapFacts DEF TypeOK
<1>4. Head(queue) = queue[1] /\ queue # <<>>
  BY <1>1
<1>5. CASE i = 1
  BY <1>1, <1>3, <1>4, <1>5
<1>6. CASE i # 1
  <2>1. 1 < i
    BY <1>1, <1>6
  <2> QED
    BY <1>1, <1>3, <1>4, <2>1 DEF Sorted
<1> QED
  BY <1>5, <1>6

\* No timeout is as far away as a period, so none needs an overflow entry.
LEMMA NeverWraps ==
    ASSUME TypeOK, NEW h \in Nat, h < lazy + Period
    PROVE  ~(h % Period > lazy % Period /\ h \div Period > lazy \div Period)
<1> SUFFICES ASSUME h % Period > Low, h \div Period > Epoch PROVE FALSE
  BY DEF Low, Epoch
<1> DEFINE d == h \div Period
           m == h % Period
<1>1. /\ Epoch \in Nat /\ Low \in 0..(Period - 1) /\ lazy = Period * Epoch + Low
      /\ Period * Epoch \in Nat /\ Period \in Nat \ {0}
  BY LowFacts, WrapFacts DEF TypeOK
<1>2. d \in Nat /\ m \in 0..(Period - 1) /\ h = Period * d + m
  BY <1>1, DivMod
<1>3. m > Low /\ Epoch < d
  BY <1>1, <1>2
<1> HIDE DEF d, m
<1>4. Period * Epoch + Period <= Period * d /\ Period * d \in Nat
  BY <1>1, <1>2, <1>3, ProductGrows
<1> QED
  BY <1>1, <1>2, <1>3, <1>4

\* While the timer runs the clock is read right.
LEMMA ReadsTime ==
    ASSUME Short, TimeoutInv, Pace, ten PROVE Now = Time /\ Time \in Nat
<1>1. /\ NoWrap /\ TypeOK /\ ClockBound /\ Sorted(queue) /\ ClockExact
      /\ cnr = Time % Period
  BY DEF Short, TimeoutInv, ListInv, Pace, Counting
<1>2. /\ ticks \in Nat /\ readAt \in Nat /\ stall \in Nat /\ stall <= MaxStall
      /\ Period \in Nat /\ zero \in Int /\ lazy = zero + readAt
      /\ MaxStall \in {0, 1} /\ MaxStall + 2 < Period
  BY <1>1, StallTimes, WrapFacts DEF TypeOK, ClockExact
<1>3. ticks < readAt + Period
  <2>1. CASE pc # "main"
    <3>1. ticks <= readAt + stall
      BY <2>1 DEF Pace, JustRead
    <3> QED
      BY <1>2, <3>1
  <2>2. CASE pc = "main"
    <3>1. queue # <<>>
      BY <2>2 DEF Pace, Counting
    <3>2. 1 \in 1..Len(queue)
      BY <1>1, <3>1, EmptySeq DEF TypeOK
    <3> DEFINE d == due[queue[1]]
    <3>3. d \in Nat
      BY <1>1, <3>2, HeadFirst
    <3>4. d + MaxStall + 1 < lazy + Period
      BY <3>2 DEF Pace, AsAsked
    <3>5. Time <= d + 1 + stall \/ Time <= d
      BY <2>2, <3>1 DEF Pace, Armed
    <3> HIDE DEF d
    <3> QED
      BY <1>2, <3>3, <3>4, <3>5 DEF Time
  <2> QED
    BY <2>1, <2>2
<1> QED
  BY <1>1, <1>3, NowExact

\* What timeout_update_time leaves, called outside timeout_reschedule.
LEMMA ReadPace ==
    ASSUME Short, TimeoutInv, Pace, UpdateTime, ticks' = ticks,
           pc \in {"main", "callback"}
    PROVE  /\ Time' = Now /\ lazy' = Now /\ readAt' = ticks /\ Now \in Nat
           /\ ClockExact'
           /\ lazy' >= lazy /\ lazy \in Nat
           /\ ten \/ queue # <<>> => zero' = zero /\ Now = Time
           /\ queue # <<>> => ten
<1>1. NoWrap /\ TypeOK /\ ClockBound
  BY DEF Short, TimeoutInv
<1>2. /\ lazy' = Now /\ readAt' = ticks
      /\ zero' = IF ten THEN zero ELSE Now - ticks
  BY DEF UpdateTime
<1>3. Now \in Nat /\ Now >= lazy /\ lazy \in Nat
  BY <1>1, NowFacts, WrapFacts DEF TypeOK
<1>4. ten \in BOOLEAN /\ ticks \in Nat /\ zero \in Int
  BY <1>1 DEF TypeOK
<1>5. queue # <<>> => ten
  BY DEF Pace, Counting
<1>6. ten => zero' = zero /\ Now = Time
  BY <1>2, ReadsTime
<1>7. Time' = Now
  <2>1. CASE ten
    BY <1>6, <2>1 DEF Time
  <2>2. CASE ~ten
    BY <1>2, <1>3, <1>4, <2>2 DEF Time
  <2> QED
    BY <2>1, <2>2
<1>8. ClockExact'
  BY <1>2, <1>7 DEF ClockExact, Time
<1> QED
  BY <1>2, <1>3, <1>5, <1>6, <1>7, <1>8

\* A tick brings the counter on with the time, and the interrupt when the time
\* of the head is over.
LEMMA TickPace == ASSUME Short, TimeoutInv, Pace, Tick PROVE Pace'
<1>1. TypeOK /\ Sorted(queue)
  BY DEF TimeoutInv, ListInv
<1>2. /\ UNCHANGED <<queue, due, lazy, refs, cmr, ten, pc, running, readAt,
                     zero, asked>>
      /\ ticks' = ticks + 1 /\ cnr' = (cnr + 1) % Period /\ ten
      /\ (pc # "main" \/ latched \/ tcf) => stall' = stall + 1
      /\ ~(pc # "main" \/ latched \/ tcf) => stall' = 0
      /\ tcf' = (tcf \/ cnr = cmr)
      /\ latched' = (latched \/ (cnr = cmr /\ ~tcf))
  BY DEF Tick, queueVars, Irq
<1>3. /\ ticks \in Nat /\ readAt \in Nat /\ stall \in Nat /\ zero \in Int
      /\ Period \in Nat \ {0} /\ lazy \in Nat
      /\ cnr \in 0..(Period - 1)
  BY <1>1, WrapFacts DEF TypeOK
<1>4. Time \in Nat /\ cnr = Time % Period /\ Time' = Time + 1
  <2>1. Time' = Time + 1
    BY <1>2, <1>3 DEF Time
  <2> QED
    BY <1>2, <2>1, ReadsTime DEF Pace, Counting
<1>5. AsAsked' /\ ClockExact'
  BY <1>2 DEF Pace, AsAsked, ClockExact
<1>6. Counting'
  <2>1. cnr' = Time' % Period
    BY <1>2, <1>3, <1>4, ModSucc
  <2>2. pc = "main" => queue # <<>>
    BY <1>2 DEF Pace, Counting
  <2> QED
    BY <1>2, <2>1, <2>2 DEF Counting
<1>7. Armed'
  <2> SUFFICES ASSUME pc = "main" PROVE Armed'
    BY <1>2 DEF Armed
  <2>1. tcf => latched
    BY DEF Pace, Armed
  <2>2. tcf' => latched'
    BY <1>2, <2>1
  <2>3. queue # <<>>
    BY <1>2 DEF Pace, Counting
  <2>4. 1 \in 1..Len(queue)
    BY <1>1, <2>3, EmptySeq DEF TypeOK
  <2> DEFINE d == due[queue[1]]
  <2>5. d \in Nat /\ d < lazy + Period
    <3>1. d + MaxStall + 1 < lazy + Period
      BY <2>4 DEF Pace, AsAsked
    <3>2. d \in Nat
      BY <1>1, <2>4, HeadFirst
    <3> QED
      BY <1>3, <3>1, <3>2, StallTimes
  <2>6. CASE latched
    <3>1. Time <= d + 1 + stall
      BY <2>3, <2>6 DEF Pace, Armed
    <3>2. latched' /\ stall' = stall + 1
      BY <1>2, <2>6
    <3>3. Time' <= d + 1 + stall'
      BY <1>3, <1>4, <2>5, <3>1, <3>2
    <3> QED
      BY <1>2, <2>2, <3>2, <3>3 DEF Armed
  <2>7. CASE ~latched
    <3>1. cmr = d % Period /\ Time <= d /\ ~tcf
      BY <2>1, <2>3, <2>7 DEF Pace, Armed
    <3>2. stall' = 0 /\ (latched' <=> cnr = cmr)
      BY <1>2, <2>7, <3>1
    <3>3. CASE cnr = cmr
      <4>1. Time' <= d + 1 + stall'
        BY <1>3, <1>4, <2>5, <3>1, <3>2
      <4> QED
        BY <1>2, <2>2, <3>2, <3>3, <4>1 DEF Armed
    <3>4. CASE cnr # cmr
      <4>1. Time # d
        BY <1>4, <3>1, <3>4
      <4>2. Time' <= d
        BY <1>4, <2>5, <3>1, <4>1
      <4> QED
        BY <1>2, <2>2, <3>1, <3>2, <3>4, <4>2 DEF Armed
    <3> QED
      BY <3>3, <3>4
  <2> QED
    BY <2>6, <2>7
<1>8. JustRead'
  <2> SUFFICES ASSUME pc # "main" PROVE JustRead'
    BY <1>2 DEF JustRead
  <2>1. stall' = stall + 1
    BY <1>2
  <2>2. ticks' <= readAt' + stall'
    BY <1>2, <1>3, <2>1 DEF Pace, JustRead
  <2>3. pc \in {"mainResched", "endResched"} /\ queue # <<>> => lazy < due[queue[1]]
    BY DEF Pace, JustRead
  <2>4. ASSUME pc \in {"callback", "callbackResched"}, NEW i \in 1..Len(queue)
        PROVE  Time' + MaxStall * i
                  <= due[queue[i]] + 1 + MaxStall * Cardinality(Timers) + stall'
    <3> DEFINE b == MaxStall * Cardinality(Timers)
               k == MaxStall * i
               d == due[queue[i]]
    <3>1. Time + k <= d + 1 + b + stall
      BY <2>4 DEF Pace, JustRead
    <3>2. b \in Nat /\ k \in Nat /\ d \in Nat
      BY <1>1, HeadFirst, ListFits, StallTimes DEF Pace
    <3> HIDE DEF b, k, d
    <3>3. Time' + k <= d + 1 + b + stall'
      BY <1>3, <1>4, <2>1, <3>1, <3>2
    <3> QED
      BY <3>3 DEF b, k, d
  <2> QED
    BY <1>2, <2>2, <2>3, <2>4 DEF JustRead
<1> QED
  BY <1>5, <1>6, <1>7, <1>8 DEF Pace

\* What timeout_reschedule programs while nobody holds a reference: the timer
\* stops with an empty list, and is armed for the head of any other.
LEMMA Rearm ==
    ASSUME Short, TimeoutInv, Pace, NEW q \in Seq(Contexts), Reschedule(q),
           refs' = refs,
           q # <<>> => \E j \in 1..Len(queue) : q[1] = queue[j]
    PROVE  /\ queue' = q /\ due' = due /\ tcf' = FALSE
           /\ q = <<>> => ten' = FALSE
           /\ q # <<>> => /\ ten' = TRUE /\ cnr' = cnr
                          /\ cmr' = due[q[1]] % Period
<1>1. TypeOK /\ Sorted(queue)
  BY DEF TimeoutInv, ListInv
<1>2. refs' = 0
  BY <1>1 DEF TypeOK, Short
<1>3. CASE Stop(q)
  BY <1>3 DEF Stop
<1>4. CASE KeepRunning(q)
  BY <1>2, <1>4 DEF KeepRunning
<1>5. CASE Arm(q)
  <2>1. q # <<>> /\ Head(q) = q[1]
    BY <1>5 DEF Arm
  <2>2. PICK j \in 1..Len(queue) : q[1] = queue[j]
    BY <2>1
  <2> DEFINE d == due[queue[j]]
  <2>3. d \in Nat
    BY <1>1, HeadFirst
  <2>4. d < lazy + Period
    <3>1. d + MaxStall + 1 < lazy + Period
      BY DEF Pace, AsAsked
    <3>2. lazy \in Nat /\ Period \in Nat /\ MaxStall \in Nat
      BY <1>1, WrapFacts, TimeoutAssumption DEF TypeOK, TimeoutAssumption
    <3> HIDE DEF d
    <3> QED
      BY <2>3, <3>1, <3>2
  <2>5. ~(d % Period > lazy % Period /\ d \div Period > lazy \div Period)
    BY <1>1, <2>3, <2>4, NeverWraps
  <2>6. ~NeedsWrap(Head(q))
    BY <2>1, <2>2, <2>5 DEF NeedsWrap
  <2> QED
    BY <1>5, <2>1, <2>6 DEF Arm
<1> QED
  BY <1>3, <1>4, <1>5 DEF Reschedule

\* A list with one entry less, read no earlier than before.
LEMMA FewerAsked ==
    ASSUME TypeOK, TypeOK', AsAsked, NEW i \in 1..Len(queue),
           Len(queue') = Len(queue) - 1,
           \A k \in 1..Len(queue') :
              queue'[k] = IF k < i THEN queue[k] ELSE queue[k + 1],
           UNCHANGED <<due, asked, zero>>, lazy' >= lazy
    PROVE  AsAsked'
<1> SUFFICES ASSUME NEW k \in 1..Len(queue')
             PROVE  /\ queue'[k] \in Timers
                    /\ due'[queue'[k]] = zero' + asked'[queue'[k]] + 1
                    /\ due'[queue'[k]] + MaxStall + 1 < lazy' + Period
  BY DEF AsAsked
<1>1. PICK n \in 1..Len(queue) : queue'[k] = queue[n]
  <2>1. Len(queue) \in Nat
    BY DEF TypeOK
  <2> QED
    BY <2>1
<1> DEFINE d == due[queue[n]]
<1>2. d + MaxStall + 1 < lazy + Period
  BY DEF AsAsked
<1>3. d \in Nat /\ lazy \in Nat /\ lazy' \in Nat /\ Period \in Nat /\ MaxStall \in Nat
  <2>1. queue[n] \in Contexts
    BY ElementOfSeq DEF TypeOK
  <2> QED
    BY <2>1, WrapFacts, TimeoutAssumption DEF TypeOK, TimeoutAssumption
<1> DEFINE later == lazy'
           m == MaxStall
           p == Period
<1>4. d \in Nat /\ lazy \in Nat /\ later \in Nat /\ p \in Nat /\ m \in Nat
  BY <1>3
<1>5. d + m + 1 < lazy + p /\ lazy <= later
  BY <1>2, <1>3
<1> HIDE DEF d, later, m, p
<1>6. d + m + 1 < later + p
  BY <1>4, <1>5
<1> QED
  BY <1>1, <1>6 DEF AsAsked, d, later, m, p

\* A call of timeout_update_time that leaves the list alone.
LEMMA ReadKeeps ==
    ASSUME Short, TimeoutInv, TimeoutInv', Pace, UpdateTime,
           UNCHANGED <<queue, due, asked, cnr, ticks>>,
           pc \in {"main", "callback"}
    PROVE  AsAsked' /\ cnr' = Time' % Period
<1>1. /\ Time' = Now /\ lazy' = Now /\ lazy' >= lazy
      /\ queue # <<>> => zero' = zero
  BY ReadPace
<1>2. cnr' = Time' % Period
  BY <1>1, NowFacts DEF Short, TimeoutInv
<1>3. TypeOK /\ TypeOK'
  BY DEF TimeoutInv
<1>4. AsAsked'
  <2> SUFFICES ASSUME NEW n \in 1..Len(queue)
               PROVE  /\ queue[n] \in Timers
                      /\ due[queue[n]] = zero' + asked[queue[n]] + 1
                      /\ due[queue[n]] + MaxStall + 1 < lazy' + Period
    BY DEF AsAsked
  <2> DEFINE d == due[queue[n]]
  <2>1. /\ queue[n] \in Timers /\ d = zero + asked[queue[n]] + 1
        /\ d + MaxStall + 1 < lazy + Period
    BY DEF Pace, AsAsked
  <2>2. zero' = zero
    <3>1. queue # <<>>
      OBVIOUS
    <3> QED
      BY <1>1, <3>1
  <2>3. d \in Nat /\ lazy \in Nat /\ lazy' \in Nat /\ Period \in Nat /\ MaxStall \in Nat
    <3>1. queue[n] \in Contexts
      BY <1>3 DEF TypeOK
    <3> QED
      BY <1>3, <3>1, WrapFacts, TimeoutAssumption DEF TypeOK, TimeoutAssumption
  <2> HIDE DEF d
  <2>4. d + MaxStall + 1 < lazy' + Period
    BY <1>1, <2>1, <2>3
  <2> QED
    BY <2>1, <2>2, <2>4 DEF d
<1> QED
  BY <1>2, <1>4

LEMMA GetTimePace ==
    ASSUME Short, TimeoutInv, TimeoutInv', Pace, TimeoutGetTime PROVE Pace'
<1>1. /\ UNCHANGED <<queue, due, cnr, cmr, ten, tcf, latched, pc, ticks, asked,
                     stall>>
      /\ UpdateTime /\ pc \in {"main", "callback"}
  BY DEF TimeoutGetTime, CanCall, timerVars
<1>2. /\ Time' = Now /\ readAt' = ticks /\ ClockExact'
      /\ ten \/ queue # <<>> => Now = Time
  BY <1>1, ReadPace
<1>3. AsAsked' /\ cnr' = Time' % Period
  BY <1>1, ReadKeeps
<1>4. Counting'
  BY <1>1, <1>3 DEF Pace, Counting
<1>5. Armed'
  BY <1>1, <1>2 DEF Pace, Armed
<1>6. JustRead'
  <2>1. ticks' <= readAt' + stall'
    BY <1>1, <1>2 DEF TimeoutInv, TypeOK
  <2>2. ASSUME pc = "callback", NEW i \in 1..Len(queue)
        PROVE  Time' + MaxStall * i
                  <= due[queue[i]] + 1 + MaxStall * Cardinality(Timers) + stall
    <3>1. Time' = Time
      BY <1>2, <2>2
    <3> QED
      BY <2>2, <3>1 DEF Pace, JustRead
  <2> QED
    BY <1>1, <2>1, <2>2 DEF JustRead
<1> QED
  BY <1>2, <1>3, <1>4, <1>5, <1>6 DEF Pace

\* The call of timeout_reschedule that ends timeout_add and the handler: nobody
\* is due yet, so that the compare value is still to come.
LEMMA ReschedulePace ==
    ASSUME Short, TimeoutInv, TimeoutInv', Pace, TimeoutReschedule PROVE Pace'
<1>1. TypeOK /\ Sorted(queue) /\ TypeOK'
  BY DEF TimeoutInv, ListInv
<1>2. /\ UNCHANGED <<lazy, refs, latched, ticks, readAt, zero, asked>>
      /\ Reschedule(queue) /\ Resume /\ pc' = Return
      /\ pc \in {"mainResched", "callbackResched", "endResched"}
  BY DEF TimeoutReschedule, history
<1>3. /\ queue' = queue /\ due' = due /\ tcf' = FALSE
      /\ queue = <<>> => ten' = FALSE
      /\ queue # <<>> => /\ ten' = TRUE /\ cnr' = cnr
                         /\ cmr' = due[queue[1]] % Period
  <2>1. queue \in Seq(Contexts)
    BY <1>1 DEF TypeOK
  <2>2. queue # <<>> => \E j \in 1..Len(queue) : queue[1] = queue[j]
    <3>1. queue # <<>> => 1 \in 1..Len(queue)
      BY <2>1, EmptySeq
    <3> QED
      BY <3>1
  <2> QED
    BY <1>2, <2>1, <2>2, Rearm
<1>4. /\ ticks \in Nat /\ readAt \in Nat /\ stall \in Nat /\ zero \in Int
      /\ stall' \in Nat /\ stall <= MaxStall /\ MaxStall \in {0, 1} /\ lazy \in Nat
      /\ lazy = zero + readAt
  BY <1>1, StallTimes, WrapFacts DEF TypeOK, Pace, ClockExact
<1>5. Time' = Time
  BY <1>2 DEF Time
<1>6. AsAsked' /\ ClockExact'
  BY <1>2, <1>3 DEF Pace, AsAsked, ClockExact
<1>7. Counting'
  <2>1. queue # <<>> => cnr = Time % Period
    BY DEF Pace, Counting
  <2> QED
    BY <1>3, <1>5, <2>1 DEF Counting
<1>8. ticks <= readAt + stall
  BY <1>2 DEF Pace, JustRead
<1>9. Armed'
  <2> SUFFICES ASSUME pc' = "main", queue # <<>>
               PROVE  /\ Time <= due[queue[1]]
                      /\ Time <= due[queue[1]] + 1 + stall'
    BY <1>2, <1>3, <1>5 DEF Armed
  <2>1. pc \in {"mainResched", "endResched"}
    BY <1>2 DEF Return
  <2> DEFINE d == due[queue[1]]
  <2>2. lazy < d
    BY <2>1 DEF Pace, JustRead
  <2>3. d \in Nat
    <3>1. queue \in Seq(Contexts)
      BY <1>1 DEF TypeOK
    <3>2. 1 \in 1..Len(queue)
      BY <3>1, EmptySeq
    <3> QED
      BY <1>1, <3>2, HeadFirst
  <2> DEFINE s == stall'
  <2>4. s \in Nat
    BY <1>4
  <2> HIDE DEF d, s
  <2>5. Time <= d /\ Time <= d + 1 + s
    BY <1>4, <1>8, <2>2, <2>3, <2>4 DEF Time
  <2> QED
    BY <2>5 DEF d, s
<1>10. JustRead'
  <2> SUFFICES ASSUME pc' # "main" PROVE JustRead'
    BY DEF JustRead
  <2>1. pc' = "callback" /\ pc = "callbackResched" /\ stall' = stall
    BY <1>2 DEF Return, Resume
  <2>2. ticks' <= readAt' + stall'
    BY <1>2, <1>8, <2>1
  <2>3. \A i \in 1..Len(queue) :
           Time + MaxStall * i
              <= due[queue[i]] + 1 + MaxStall * Cardinality(Timers) + stall
    BY <2>1 DEF Pace, JustRead
  <2> QED
    BY <1>3, <1>5, <2>1, <2>2, <2>3 DEF JustRead
<1> QED
  BY <1>6, <1>7, <1>9, <1>10 DEF Pace

\* timeout_cancel: the entries behind move up, and the next head is due no
\* earlier than the old one.
LEMMA CancelPace ==
    ASSUME Short, TimeoutInv, TimeoutInv', Pace, NEW t \in Timers,
           TimeoutCancel(t)
    PROVE  Pace'
<1>1. TypeOK /\ Sorted(queue) /\ TypeOK'
  BY DEF TimeoutInv, ListInv
<1>2. /\ UNCHANGED <<lazy, refs, latched, pc, ticks, readAt, zero, asked, stall>>
      /\ Contains(queue, t) /\ pc \in {"main", "callback"}
  BY DEF TimeoutCancel, CanCall, history
<1>3. queue \in Seq(Contexts) /\ Len(queue) \in Nat /\ queue # <<>>
  BY <1>1, <1>2, EmptyQueue DEF TypeOK
<1>4. ten /\ cnr = Time % Period /\ Time' = Time
  <2>1. Time' = Time
    BY <1>2 DEF Time
  <2> QED
    BY <1>2, <1>3, <2>1 DEF Pace, Counting
<1>5. PICK i \in 1..Len(queue) :
           /\ Len(queue') = Len(queue) - 1
           /\ \A k \in 1..Len(queue') :
                 queue'[k] = IF k < i THEN queue[k] ELSE queue[k + 1]
           /\ due' = due
           /\ queue' = <<>> => ten' = FALSE
           /\ queue' # <<>> => ten' = TRUE /\ cnr' = cnr
           /\ \/ tcf' = FALSE /\ (queue' # <<>> => cmr' = due[queue'[1]] % Period)
              \/ i > 1 /\ UNCHANGED <<tcf, cmr>>
  <2>1. CASE Head(queue) = t
    <3> DEFINE q == Tail(queue)
    <3>1. /\ q \in Seq(Contexts) /\ Len(q) = Len(queue) - 1
          /\ \A k \in 1..Len(q) : q[k] = queue[k + 1]
      BY <1>3, HeadTailProperties
    <3>2. 1 \in 1..Len(queue)
      BY <1>3, EmptySeq
    <3> HIDE DEF q
    <3>3. q # <<>> => \E j \in 1..Len(queue) : q[1] = queue[j]
      <4>1. q # <<>> => 1 \in 1..Len(q) /\ 2 \in 1..Len(queue)
        BY <1>3, <3>1, EmptySeq
      <4>2. q # <<>> => q[1] = queue[1 + 1]
        BY <3>1, <4>1
      <4> QED
        BY <4>1, <4>2
    <3>4. /\ queue' = q /\ due' = due /\ tcf' = FALSE
          /\ q = <<>> => ten' = FALSE
          /\ q # <<>> => /\ ten' = TRUE /\ cnr' = cnr
                         /\ cmr' = due[q[1]] % Period
      <4>1. Reschedule(q) /\ refs' = refs
        BY <2>1 DEF TimeoutCancel, q
      <4> QED
        BY <3>1, <3>3, <4>1, Rearm
    <3>5. \A k \in 1..Len(q) : ~(k < 1)
      BY <3>1
    <3> QED
      BY <3>1, <3>2, <3>4, <3>5
  <2>2. CASE Head(queue) # t
    <3>1. PICK i \in 1..Len(queue) : queue[i] = t /\ queue' = RemoveAt(queue, i)
      BY <2>2 DEF TimeoutCancel
    <3>2. UNCHANGED <<due, cnr, cmr, ten, tcf>>
      BY <2>2 DEF TimeoutCancel, timerVars
    <3>3. /\ queue' \in Seq(Contexts) /\ Len(queue') = Len(queue) - 1
          /\ \A k \in 1..Len(queue') :
                queue'[k] = IF k < i THEN queue[k] ELSE queue[k + 1]
      BY <1>3, <3>1, RemoveAtFacts
    <3>4. i > 1
      <4>1. i # 1
        BY <1>3, <2>2, <3>1
      <4> QED
        BY <1>3, <4>1
    <3>5. queue' # <<>>
      BY <1>3, <3>3, <3>4
    <3>6. ten' = TRUE
      BY <1>1, <1>4, <3>2 DEF TypeOK
    <3> QED
      BY <3>2, <3>3, <3>4, <3>5, <3>6
  <2> QED
    BY <2>1, <2>2
<1>6. ASSUME NEW k \in 1..Len(queue')
      PROVE  \E n \in 1..Len(queue) : queue'[k] = queue[n] /\ k <= n
  <2>1. k \in Nat /\ k \in 1..Len(queue) /\ k + 1 \in 1..Len(queue) /\ k <= k + 1
    BY <1>3, <1>5
  <2>2. CASE k < i
    BY <1>5, <2>1, <2>2
  <2>3. CASE ~(k < i)
    BY <1>5, <2>1, <2>3
  <2> QED
    BY <2>2, <2>3
<1>7. AsAsked' /\ ClockExact'
  <2>1. lazy' >= lazy
    BY <1>1, <1>2, WrapFacts DEF TypeOK
  <2>2. AsAsked'
    BY <1>1, <1>2, <1>5, <2>1, FewerAsked DEF Pace
  <2> QED
    BY <1>2, <2>2 DEF Pace, ClockExact
<1>8. Counting'
  BY <1>4, <1>5 DEF Counting
<1>9. Armed'
  <2> SUFFICES ASSUME pc = "main" PROVE Armed'
    BY <1>2 DEF Armed
  <2>1. /\ tcf => latched
        /\ IF latched THEN Time <= due[queue[1]] + 1 + stall
           ELSE cmr = due[queue[1]] % Period /\ Time <= due[queue[1]]
    BY <1>3 DEF Pace, Armed
  <2>2. tcf' => latched'
    BY <1>2, <1>5, <2>1
  <2>3. ASSUME queue' # <<>>
        PROVE  IF latched' THEN Time' <= due'[queue'[1]] + 1 + stall'
               ELSE cmr' = due'[queue'[1]] % Period /\ Time' <= due'[queue'[1]]
    <3> DEFINE c == due[queue[1]]
               d == due[queue'[1]]
    <3>1. 1 \in 1..Len(queue')
      <4>1. queue' \in Seq(Contexts)
        BY <1>1 DEF TypeOK
      <4> QED
        BY <2>3, <4>1, EmptySeq
    <3>2. PICK n \in 1..Len(queue) : queue'[1] = queue[n]
      BY <1>6, <3>1
    <3>3. c <= d /\ c \in Nat /\ d \in Nat
      BY <1>1, <3>2, HeadFirst
    <3>4. cmr' = d % Period \/ (cmr' = cmr /\ d = c)
      <4>1. CASE i > 1
        BY <1>5, <2>3, <3>1, <4>1
      <4>2. CASE ~(i > 1)
        BY <1>5, <2>3, <4>2
      <4> QED
        BY <4>1, <4>2
    <3>5. Time \in Int /\ stall \in Nat
      BY <1>1 DEF TypeOK, Time
    <3>6. /\ latched => Time <= c + 1 + stall
          /\ ~latched => cmr = c % Period /\ Time <= c
      BY <2>1
    <3> HIDE DEF c, d
    <3>7. /\ latched => Time <= d + 1 + stall
          /\ ~latched => cmr' = d % Period
      BY <3>3, <3>4, <3>5, <3>6
    <3>8. ~latched => Time <= d
      BY <3>3, <3>5, <3>6
    <3> QED
      BY <1>2, <1>4, <1>5, <3>7, <3>8 DEF d
  <2> QED
    BY <2>2, <2>3 DEF Armed
<1>10. JustRead'
  <2>1. pc # "main" => ticks' <= readAt' + stall'
    BY <1>2 DEF Pace, JustRead
  <2>2. ASSUME pc = "callback", NEW k \in 1..Len(queue')
        PROVE  Time' + MaxStall * k
                  <= due'[queue'[k]] + 1 + MaxStall * Cardinality(Timers) + stall'
    <3>1. PICK n \in 1..Len(queue) : queue'[k] = queue[n] /\ k <= n
      BY <1>6
    <3> DEFINE b == MaxStall * Cardinality(Timers)
               x == MaxStall * k
               y == MaxStall * n
               d == due[queue[n]]
    <3>2. Time + y <= d + 1 + b + stall
      BY <2>2 DEF Pace, JustRead
    <3>3. x \in Nat /\ y \in Nat /\ x <= y
      <4>1. k \in Nat /\ n \in Nat
        BY <1>3
      <4> QED
        BY <3>1, <4>1, StallTimes
    <3>4. b \in Nat /\ d \in Nat /\ Time \in Int /\ stall \in Nat
      <4>1. b \in Nat
        BY <1>1, ListFits, StallTimes DEF Pace
      <4>2. d \in Nat
        BY <1>1, HeadFirst
      <4> QED
        BY <1>1, <4>1, <4>2 DEF TypeOK, Time
    <3> HIDE DEF b, x, y, d
    <3>5. Time + x <= d + 1 + b + stall
      BY <3>2, <3>3, <3>4
    <3> QED
      BY <1>2, <1>4, <1>5, <3>1, <3>5 DEF b, x, d
  <2> QED
    BY <1>2, <2>1, <2>2 DEF JustRead
<1> QED
  BY <1>7, <1>8, <1>9, <1>10 DEF Pace

\* LPTMR0_Handler: whoever is first on the list is called while the others wait
\* for one piece of masked code more, or nobody is due.
LEMMA LoopPace ==
    ASSUME Short, TimeoutInv, TimeoutInv', Pace, Loop,
           pc = "callback" \/ (pc = "main" /\ latched)
    PROVE  Pace'
<1>1. TypeOK /\ Sorted(queue) /\ TypeOK' /\ AsAsked
  BY DEF TimeoutInv, ListInv, Pace
<1>2. /\ UNCHANGED <<due, refs, cnr, cmr, ten, tcf, ticks, asked>>
      /\ UpdateTime /\ stall' = 0
  BY DEF Loop, timerVars
<1>3. /\ Time' = Now /\ lazy' = Now /\ readAt' = ticks /\ ClockExact'
      /\ lazy' >= lazy /\ Now \in Nat
      /\ queue # <<>> => ten /\ zero' = zero /\ Now = Time
  BY <1>2, ReadPace
<1>4. cnr' = Time' % Period
  BY <1>2, <1>3, NowFacts DEF Short, TimeoutInv
<1>5. queue \in Seq(Contexts) /\ Len(queue) \in Nat
  BY <1>1 DEF TypeOK
<1>6. CASE Expired(queue)
  <2>1. /\ queue # <<>> /\ queue' = Tail(queue) /\ pc' = "callback"
    BY <1>6 DEF Loop, Expired
  <2>2. /\ Len(queue') = Len(queue) - 1 /\ 1 \in 1..Len(queue)
        /\ \A k \in 1..Len(queue') : queue'[k] = queue[k + 1]
    BY <1>5, <2>1, HeadTailProperties, EmptySeq
  <2>3. AsAsked'
    <3>1. \A k \in 1..Len(queue') :
             queue'[k] = IF k < 1 THEN queue[k] ELSE queue[k + 1]
      BY <1>5, <2>2
    <3> QED
      BY <1>1, <1>2, <1>3, <2>1, <2>2, <3>1, FewerAsked
  <2>4. Counting'
    BY <1>2, <1>3, <1>4, <2>1 DEF Counting
  <2>5. Armed'
    BY <2>1 DEF Armed
  <2>6. ticks' <= readAt' + stall'
    <3>1. ticks \in Nat
      BY <1>1 DEF TypeOK
    <3> QED
      BY <1>2, <1>3, <3>1
  <2>7. ASSUME NEW k \in 1..Len(queue')
        PROVE  Time' + MaxStall * k
                  <= due'[queue'[k]] + 1 + MaxStall * Cardinality(Timers) + stall'
    <3> DEFINE b == MaxStall * Cardinality(Timers)
               x == MaxStall * k
               y == MaxStall * (k + 1)
               c == due[queue[1]]
               d == due[queue[k + 1]]
    <3>1. k \in Nat /\ k + 1 \in Nat /\ k + 1 \in 1..Len(queue)
      BY <1>5, <2>2
    <3>2. x \in Nat /\ y \in Nat /\ y = x + MaxStall /\ MaxStall \in {0, 1}
      BY <3>1, StallTimes
    <3>3. b \in Nat /\ y <= b
      <4>1. Len(queue) <= Cardinality(Timers) /\ Cardinality(Timers) \in Nat
        BY <1>1, ListFits
      <4>2. k + 1 <= Cardinality(Timers)
        BY <1>5, <3>1, <4>1
      <4> QED
        BY <3>1, <4>1, <4>2, StallTimes
    <3>4. c \in Nat /\ d \in Nat /\ c <= d
      BY <1>1, <3>1, HeadFirst
    <3>5. Time \in Int /\ stall \in Nat /\ stall <= MaxStall
      BY <1>1 DEF TypeOK, Time
    <3>6. pc = "callback" => Time + y <= d + 1 + b + stall
      BY <3>1 DEF Pace, JustRead
    <3>7. pc = "main" => Time <= c + 1 + stall
      BY <2>1 DEF Pace, Armed
    <3> HIDE DEF b, x, y, c, d
    <3>8. Time + x <= d + 1 + b
      <4>1. CASE pc = "callback"
        BY <3>2, <3>3, <3>4, <3>5, <3>6, <4>1
      <4>2. CASE pc = "main"
        BY <3>2, <3>3, <3>4, <3>5, <3>7, <4>2
      <4> QED
        BY <4>1, <4>2
    <3>9. Time + x <= d + 1 + b + 0
      BY <3>3, <3>4, <3>8
    <3> QED
      BY <1>2, <1>3, <2>1, <2>2, <3>9 DEF b, x, d
  <2>8. JustRead'
    BY <2>1, <2>6, <2>7 DEF JustRead
  <2> QED
    BY <1>3, <2>3, <2>4, <2>5, <2>8 DEF Pace
<1>7. CASE ~Expired(queue)
  <2>1. queue' = queue /\ pc' = "endResched"
    BY <1>7 DEF Loop
  <2>2. AsAsked'
    BY <1>2, <2>1, ReadKeeps
  <2>3. Counting'
    BY <1>2, <1>3, <1>4, <2>1 DEF Counting
  <2>4. Armed'
    BY <2>1 DEF Armed
  <2>5. JustRead'
    <3>1. ticks' <= readAt' + stall'
      <4>1. ticks \in Nat
        BY <1>1 DEF TypeOK
      <4> QED
        BY <1>2, <1>3, <4>1
    <3>2. queue # <<>> => Now < due[queue[1]]
      <4> SUFFICES ASSUME queue # <<>> PROVE Now < due[queue[1]]
        OBVIOUS
      <4>1. 1 \in 1..Len(queue)
        BY <1>5, EmptySeq
      <4>2. Head(queue) = queue[1] /\ due[queue[1]] \in Nat
        BY <1>1, <4>1, HeadFirst
      <4>3. ~(due[queue[1]] <= Now)
        BY <1>7, <4>2 DEF Expired
      <4> QED
        BY <1>3, <4>2, <4>3
    <3> QED
      BY <1>2, <1>3, <2>1, <3>1, <3>2 DEF JustRead
  <2> QED
    BY <1>3, <2>2, <2>3, <2>4, <2>5 DEF Pace
<1> QED
  BY <1>6, <1>7

\* timeout_add: a new head waits for timeout_reschedule, behind another head
\* the timer stays armed.
LEMMA AddPace ==
    ASSUME Short, TimeoutInv, TimeoutInv', Pace,
           NEW t \in Timers, NEW ms \in Delays, TimeoutAdd(t, ms)
    PROVE  Pace'
<1> DEFINE time == DueAt(ms)
<1>1. TypeOK /\ Sorted(queue) /\ TypeOK' /\ Sorted(queue)' /\ AsAsked /\ NoWrap
  BY DEF TimeoutInv, ListInv, Pace, Short
<1>2. /\ UNCHANGED <<refs, cnr, cmr, ten, tcf, latched, running, ticks>>
      /\ UpdateTime /\ asked' = [asked EXCEPT ![t] = ticks + ms]
      /\ ~Contains(queue, t) /\ Resume
      /\ pc \in {"main", "callback"}
      /\ pc' = IF NewHead(t) THEN Resched ELSE pc
  BY DEF TimeoutAdd, CanCall, timerVars
<1>3. /\ Time' = Now /\ lazy' = Now /\ readAt' = ticks /\ ClockExact'
      /\ lazy' >= lazy /\ Now \in Nat /\ lazy \in Nat
      /\ ten \/ queue # <<>> => zero' = zero /\ Now = Time
      /\ queue # <<>> => ten
  BY <1>2, ReadPace
<1>4. cnr' = Time' % Period
  BY <1>2, <1>3, NowFacts DEF Short, TimeoutInv
<1>5. /\ queue \in Seq(Contexts) /\ Len(queue) \in Nat
      /\ queue' \in Seq(Contexts) /\ Len(queue') = Len(queue) + 1
  <2>1. queue \in Seq(Contexts) /\ Len(queue) \in Nat
    BY <1>1 DEF TypeOK
  <2>2. queue' \in Seq(Contexts) /\ Len(queue') = Len(queue) + 1
    BY <1>1, AddFacts
  <2> QED
    BY <2>1, <2>2
<1>6. /\ due'[t] = time
      /\ \A u \in Contexts : u # t => due'[u] = due[u]
  BY <1>1, AddFacts
<1>7. /\ time = ms + Now + 1 /\ time \in Nat /\ ms \in Nat
       /\ ms + MaxStall + 2 < Period /\ MaxStall \in Nat /\ Period \in Nat
       /\ Now \in Nat /\ lazy \in Nat /\ lazy <= Now
  BY <1>1, <1>3, AddFacts, TimeoutAssumption, WrapFacts
     DEF TimeoutAssumption, Short
<1>8. PICK k \in 1..(Len(queue) + 1) :
             /\ \A i \in 1..(Len(queue) + 1) :
                   queue'[i] = IF i < k THEN queue[i]
                               ELSE IF i = k THEN t ELSE queue[i - 1]
             /\ \A i \in 1..(k - 1) : due[queue[i]] <= time
             /\ \A i \in k..Len(queue) : due[queue[i]] > time
  BY <1>1, AddFacts
<1> HIDE DEF time
<1>9. /\ asked'[t] = ticks + ms
      /\ \A u \in Timers : u # t => asked'[u] = asked[u]
  BY <1>1, <1>2 DEF TypeOK
<1>10. \A i \in 1..Len(queue) : queue[i] # t /\ queue[i] \in Contexts
  BY <1>2, <1>5 DEF Contains
\* An entry other than the new one was there before.
<1>11. ASSUME NEW i \in 1..Len(queue'), i # k
       PROVE  \E n \in 1..Len(queue) :
                 /\ queue'[i] = queue[n]
                 /\ due'[queue'[i]] = due[queue[n]]
                 /\ i < k => n = i
                 /\ i > k => n \in k..Len(queue)
  <2> DEFINE n == IF i < k THEN i ELSE i - 1
  <2>1. n \in 1..Len(queue) /\ i \in 1..(Len(queue) + 1)
    BY <1>5, <1>11
  <2>2. queue'[i] = queue[n]
    <3>1. CASE i < k
      BY <1>8, <2>1, <3>1
    <3>2. CASE ~(i < k)
      BY <1>8, <1>11, <2>1, <3>2
    <3> QED
      BY <3>1, <3>2
  <2>3. (i < k => n = i) /\ (i > k => n \in k..Len(queue))
    BY <1>5, <2>1
  <2> HIDE DEF n
  <2>4. due'[queue'[i]] = due[queue[n]]
    BY <1>6, <1>10, <2>1, <2>2
  <2> QED
    BY <2>1, <2>2, <2>3, <2>4
<1>12. k \in 1..Len(queue') /\ queue'[k] = t
  BY <1>5, <1>8
<1>13. AsAsked'
  <2> SUFFICES ASSUME NEW i \in 1..Len(queue')
               PROVE  /\ queue'[i] \in Timers
                      /\ due'[queue'[i]] = zero' + asked'[queue'[i]] + 1
                      /\ due'[queue'[i]] + MaxStall + 1 < lazy' + Period
    BY DEF AsAsked
  <2>1. CASE i = k
    <3>1. zero' + (ticks + ms) + 1 = time
      <4>1. zero' + ticks = Now
        BY <1>2, <1>3 DEF Time
      <4> DEFINE z == zero'
      <4>2. z \in Int /\ ticks \in Nat /\ z + ticks = Now
        BY <1>1, <4>1 DEF TypeOK
      <4> HIDE DEF z
      <4>3. z + (ticks + ms) + 1 = time
        BY <1>7, <4>2
      <4> QED
        BY <4>3 DEF z
    <3>2. time + MaxStall + 1 < Now + Period
      BY <1>7
    <3> QED
      BY <1>3, <1>6, <1>9, <1>12, <2>1, <3>1, <3>2
  <2>2. CASE i # k
    <3>1. PICK n \in 1..Len(queue) :
                  queue'[i] = queue[n] /\ due'[queue'[i]] = due[queue[n]]
      BY <1>11, <2>2
    <3> DEFINE d == due[queue[n]]
    <3>2. queue[n] \in Timers /\ d = zero + asked[queue[n]] + 1
      BY DEF Pace, AsAsked
    <3>3. zero' = zero /\ asked'[queue[n]] = asked[queue[n]]
      <4>1. queue # <<>>
        BY <1>5
      <4> QED
        BY <1>3, <1>9, <1>10, <3>2, <4>1
    <3>4. d \in Nat /\ d + MaxStall + 1 < lazy + Period
      BY <1>1, HeadFirst DEF Pace, AsAsked
    <3> HIDE DEF d
    <3>5. d + MaxStall + 1 < Now + Period
      BY <1>7, <3>4
    <3> QED
      BY <1>3, <3>1, <3>2, <3>3, <3>5 DEF d
  <2> QED
    BY <2>1, <2>2
<1>14. queue' # <<>> /\ Head(queue') = queue'[1] /\ 1 \in 1..Len(queue')
  BY <1>5
<1>15. NewHead(t) => /\ queue'[1] = t /\ lazy' < due'[queue'[1]]
                     /\ pc' \in {"mainResched", "callbackResched"}
  <2> SUFFICES ASSUME NewHead(t)
               PROVE  /\ queue'[1] = t /\ lazy' < due'[queue'[1]]
                      /\ pc' \in {"mainResched", "callbackResched"}
    OBVIOUS
  <2>1. queue'[1] = t
    BY <1>14 DEF NewHead
  <2>2. Now < time
    BY <1>7
  <2> QED
    BY <1>2, <1>3, <1>6, <2>1, <2>2 DEF Resched
<1>16. ~NewHead(t) => /\ pc' = pc /\ queue # <<>> /\ queue'[1] = queue[1]
                      /\ due'[queue'[1]] = due[queue[1]]
  <2> SUFFICES ASSUME ~NewHead(t)
               PROVE  /\ pc' = pc /\ queue # <<>> /\ queue'[1] = queue[1]
                      /\ due'[queue'[1]] = due[queue[1]]
    OBVIOUS
  <2>1. 1 # k
    BY <1>12, <1>14 DEF NewHead
  <2>2. 1 < k
    BY <1>5, <2>1
  <2>3. PICK n \in 1..Len(queue) :
                queue'[1] = queue[n] /\ due'[queue'[1]] = due[queue[n]] /\ n = 1
    BY <1>11, <1>14, <2>1, <2>2
  <2>4. queue # <<>>
    BY <1>5, <2>3
  <2> QED
    BY <1>2, <2>3, <2>4
<1>17. Counting'
  <2>1. ~ten => queue = <<>>
    BY <1>3
  <2> QED
    BY <1>2, <1>4, <1>14, <1>15, <1>16, <2>1 DEF Counting
<1>18. Armed'
  <2> SUFFICES ASSUME pc' = "main" PROVE Armed'
    BY DEF Armed
  <2>1. pc = "main" /\ ~NewHead(t)
    BY <1>2, <1>15
  <2>2. /\ tcf => latched
        /\ IF latched THEN Time <= due[queue[1]] + 1 + stall
           ELSE cmr = due[queue[1]] % Period /\ Time <= due[queue[1]]
    BY <1>16, <2>1 DEF Pace, Armed
  <2>3. latched => stall' = stall
    BY <1>2 DEF Resume
  <2>4. Time' = Time
    BY <1>3, <1>16, <2>1
  <2> QED
    BY <1>2, <1>16, <2>1, <2>2, <2>3, <2>4 DEF Armed
<1>19. JustRead'
  <2>1. ticks' <= readAt' + stall'
    <3>1. \A x, y \in Nat : x <= x + y
      OBVIOUS
    <3>2. ticks \in Nat /\ stall' \in Nat
      BY <1>1 DEF TypeOK
    <3> QED
      BY <1>2, <1>3, <3>1, <3>2
  <2>2. pc' \in {"mainResched", "endResched"} => lazy' < due'[queue'[1]]
    BY <1>2, <1>15, <1>16
  <2>3. ASSUME pc' \in {"callback", "callbackResched"}, NEW i \in 1..Len(queue')
        PROVE  Time' + MaxStall * i
                  <= due'[queue'[i]] + 1 + MaxStall * Cardinality(Timers) + stall'
    <3> DEFINE b == MaxStall * Cardinality(Timers)
               x == MaxStall * i
               d == due'[queue'[i]]
    <3>1. pc = "callback" /\ stall' = stall
      BY <1>2, <2>3 DEF Resched, Resume
    <3>2. /\ i \in Nat /\ i <= Cardinality(Timers) /\ Cardinality(Timers) \in Nat
          /\ d \in Nat
      <4>1. /\ Len(queue') \in Nat /\ Len(queue') <= Cardinality(Timers)
            /\ Cardinality(Timers) \in Nat
        <5>1. (TypeOK /\ Sorted(queue) /\ AsAsked
                 => /\ Len(queue) \in Nat /\ Len(queue) <= Cardinality(Timers)
                    /\ Cardinality(Timers) \in Nat)'
          BY ListFits, PTL
        <5> QED
          BY <1>1, <1>13, <5>1
      <4>2. d \in Nat
        <5>1. queue'[i] \in Contexts
          BY <1>5, ElementOfSeq
        <5> QED
          BY <1>1, <5>1, WrapFacts DEF TypeOK
      <4> QED
        BY <4>1, <4>2
    <3>3. x \in Nat /\ b \in Nat /\ x <= b
      BY <3>2, StallTimes
    <3>4. stall \in Nat
      BY <1>1 DEF TypeOK
    <3>5. CASE i < k
      <4>1. PICK n \in 1..Len(queue) : d = due[queue[n]] /\ n = i
        BY <1>11, <3>2, <3>5
      <4>2. Time + MaxStall * n
               <= due[queue[n]] + 1 + MaxStall * Cardinality(Timers) + stall
        BY <3>1 DEF Pace, JustRead
      <4>3. Time' = Time
        <5>1. queue # <<>>
          BY <1>5, <4>1
        <5> QED
          BY <1>3, <5>1
      <4> QED
        BY <3>1, <4>1, <4>2, <4>3
    <3>6. CASE ~(i < k)
      <4>1. d >= time
        <5>1. CASE i = k
          BY <1>6, <1>12, <1>7, <5>1
        <5>2. CASE i # k
          <6>1. i > k
            BY <3>2, <3>6, <5>2
          <6>2. PICK n \in 1..Len(queue) : d = due[queue[n]] /\ n \in k..Len(queue)
            BY <1>11, <5>2, <6>1
          <6>3. d > time
            BY <1>8, <6>2
          <6> HIDE DEF d
          <6> QED
            BY <1>7, <3>2, <6>3
        <5> QED
          BY <5>1, <5>2
      <4> HIDE DEF b, x, d
      <4>2. Now + x <= d + 1 + b + stall
        BY <1>7, <3>2, <3>3, <3>4, <4>1
      <4> QED
        BY <1>3, <3>1, <4>2 DEF b, x, d
    <3> QED
      BY <3>5, <3>6
  <2> QED
    BY <1>14, <2>1, <2>2, <2>3 DEF JustRead
<1> QED
  BY <1>3, <1>13, <1>17, <1>18, <1>19 DEF Pace

LEMMA PaceInit == ASSUME Init PROVE Pace
<1>1. /\ queue = <<>> /\ lazy = 0 /\ ten = FALSE /\ tcf = FALSE /\ pc = "main"
      /\ readAt = 0 /\ zero = 0
  BY DEF Init
<1>2. 1..Len(queue) = {}
  BY <1>1
<1>3. AsAsked /\ ClockExact
  BY <1>1, <1>2 DEF AsAsked, ClockExact
<1>4. Counting /\ Armed /\ JustRead
  BY <1>1 DEF Counting, Armed, JustRead
<1> QED
  BY <1>3, <1>4 DEF Pace

LEMMA PaceNext ==
    ASSUME Short, TimeoutInv, TimeoutInv', Pace, [Next]_tvars PROVE Pace'
<1>1. CASE Tick
  BY <1>1, TickPace
<1>2. ASSUME NEW t \in Timers, NEW ms \in Delays, TimeoutAdd(t, ms)
      PROVE  Pace'
  BY <1>2, AddPace
<1>3. ASSUME NEW t \in Timers, TimeoutCancel(t) PROVE Pace'
  BY <1>3, CancelPace
<1>4. CASE TimeoutReschedule
  BY <1>4, ReschedulePace
<1>5. CASE TimeoutGetRef \/ TimeoutPutRef
  <2>1. refs = 0
    BY DEF TimeoutInv, TypeOK, Short
  <2>2. ~(refs < MaxRefs) /\ ~(refs > 0)
    BY <2>1 DEF Short
  <2> QED
    BY <1>5, <2>2 DEF TimeoutGetRef, TimeoutPutRef
<1>6. CASE TimeoutGetTime
  BY <1>6, GetTimePace
<1>7. CASE LPTMR0_Handler
  <2>1. pc = "main" /\ Loop /\ (latched \/ tcf)
    BY <1>7 DEF LPTMR0_Handler, Irq
  <2>2. latched
    BY <2>1 DEF Pace, Armed
  <2> QED
    BY <2>1, <2>2, LoopPace
<1>8. CASE CallbackReturns
  <2>1. pc = "callback" /\ Loop
    BY <1>8 DEF CallbackReturns
  <2> QED
    BY <2>1, LoopPace
<1>9. CASE UNCHANGED tvars
  <2>1. UNCHANGED <<queue, due, lazy, refs, cnr, cmr, ten, tcf, latched, pc,
                    ticks, readAt, zero, asked, stall>>
    BY <1>9 DEF tvars, queueVars, timerVars, history
  <2>2. AsAsked' /\ ClockExact' /\ Counting'
    BY <2>1 DEF Pace, AsAsked, ClockExact, Counting, Time
  <2>3. Armed' /\ JustRead'
    BY <2>1 DEF Pace, Armed, JustRead, Time
  <2> QED
    BY <2>2, <2>3 DEF Pace
<1> QED
  BY <1>1, <1>2, <1>3, <1>4, <1>5, <1>6, <1>7, <1>8, <1>9 DEF Next

LEMMA PaceHolds == ASSUME Short PROVE Spec => [](TimeoutInv /\ Pace)
<1>1. Init => Pace
  BY PaceInit
<1>2. TimeoutInv /\ TimeoutInv' /\ Pace /\ [Next]_tvars => Pace'
  BY PaceNext
<1>3. Spec => []TimeoutInv
  BY TimeoutInvHolds DEF Short
<1> QED
  BY <1>1, <1>2, <1>3, PTL DEF Spec

\* An entry that is queued waits for no more than the others.
LEMMA PaceOnTime == ASSUME Short, TimeoutInv, Pace PROVE OnTime
<1> SUFFICES ASSUME NEW t \in Timers, Contains(queue, t)
             PROVE  ticks <= asked[t] + 2 + MaxStall * Cardinality(Timers)
  BY DEF OnTime
<1>1. TypeOK /\ Sorted(queue) /\ AsAsked
  BY DEF TimeoutInv, ListInv, Pace
<1>2. PICK i \in 1..Len(queue) : queue[i] = t
  BY DEF Contains
<1> DEFINE N == Cardinality(Timers)
           b == MaxStall * N
           x == MaxStall * i
           c == due[queue[1]]
           d == due[queue[i]]
           a == asked[t]
<1>3. d = zero + a + 1
  BY <1>1, <1>2 DEF AsAsked
<1>4. c \in Nat /\ d \in Nat /\ c <= d /\ queue # <<>> /\ i \in Nat /\ 1 <= i
  <2>1. Len(queue) \in Nat
    BY <1>1 DEF TypeOK
  <2> QED
    BY <1>1, <2>1, HeadFirst
<1>5. i <= N /\ N \in Nat
  <2>1. Len(queue) <= N /\ N \in Nat /\ Len(queue) \in Nat
    BY <1>1, ListFits
  <2> HIDE DEF N
  <2> QED
    BY <1>4, <2>1
<1>6. b \in Nat /\ x \in Nat /\ x <= b /\ MaxStall <= x /\ MaxStall \in {0, 1}
  <2> HIDE DEF N
  <2>1. b \in Nat /\ x \in Nat /\ x <= b /\ MaxStall \in {0, 1}
    BY <1>4, <1>5, StallTimes
  <2>2. MaxStall * 1 <= x
    BY <1>4, StallTimes
  <2>3. MaxStall * 1 = MaxStall
    BY <2>1
  <2> QED
    BY <2>1, <2>2, <2>3
<1>7. /\ ticks \in Nat /\ readAt \in Nat /\ zero \in Int /\ a \in Nat
      /\ stall \in Nat /\ stall <= MaxStall /\ lazy = zero + readAt
  BY <1>1 DEF TypeOK, Pace, ClockExact
<1>8. Time <= d + 1 + b
  <2>1. CASE pc = "main"
    <3>1. Time <= c + 1 + stall \/ Time <= c
      BY <1>4, <2>1 DEF Pace, Armed
    <3> HIDE DEF N, b, x, c, d, a
    <3> QED
      BY <1>4, <1>6, <1>7, <3>1 DEF Time
  <2>2. CASE pc \in {"mainResched", "endResched"}
    <3>1. lazy < c /\ ticks <= readAt + stall
      BY <1>4, <2>2 DEF Pace, JustRead
    <3> HIDE DEF N, b, x, c, d, a
    <3> QED
      BY <1>4, <1>6, <1>7, <3>1 DEF Time
  <2>3. CASE pc \in {"callback", "callbackResched"}
    <3>1. Time + x <= d + 1 + b + stall
      BY <2>3 DEF Pace, JustRead
    <3> HIDE DEF N, b, x, c, d, a
    <3> QED
      BY <1>4, <1>6, <1>7, <3>1 DEF Time
  <2> QED
    BY <1>1, <2>1, <2>2, <2>3 DEF TypeOK, Labels
<1> HIDE DEF N, b, x, c, d, a
<1>9. ticks <= a + 2 + b
  BY <1>3, <1>6, <1>7, <1>8 DEF Time
<1> QED
  BY <1>9 DEF a, b, N

-----------------------------------------------------------------------------
(* The theorems                                                            *)

\* Every state of the timers is well-formed: no reference count below zero,
\* no time outside 32 bits, no context on the list that is not one.
THEOREM TimeoutTypeCorrect == ASSUME NoWrap PROVE Spec => []TypeOK
<1>1. TimeoutInv => TypeOK
  BY TimeoutInvImplies
<1> QED
  BY <1>1, TimeoutInvHolds, PTL

\* The list is sorted and holds no context twice, although
\* timeout_schedule_wrap puts its entry at the head without looking at what
\* is there: NeedsWrap and WrapSoon say that it belongs there.
THEOREM ListStaysSorted == ASSUME NoWrap PROVE Spec => []QueueSorted
<1>1. TimeoutInv => QueueSorted
  BY TimeoutInvImplies
<1> QED
  BY <1>1, TimeoutInvHolds, PTL

\* No callback runs early.
THEOREM NothingIsEarly == ASSUME NoWrap PROVE Spec => NeverEarly
<1>1. ASSUME TimeoutInv, NEW t \in Timers,
             LPTMR0_Handler \/ CallbackReturns, running' = t
      PROVE  ticks > asked[t]
  <2>1. TypeOK /\ ClockBound /\ ListInv(queue)
    BY <1>1 DEF TimeoutInv
  <2>2. /\ Loop /\ UpdateTime /\ UNCHANGED <<due, ticks, cnr>>
    BY <1>1 DEF LPTMR0_Handler, CallbackReturns, Loop, timerVars
  <2>3. t # None /\ t \in Contexts
    BY ContextFacts
  <2>4. queue # <<>> /\ due[Head(queue)] <= Now /\ Head(queue) = t
    BY <1>1, <2>2, <2>3 DEF Loop, Expired
  <2>5. Contains(queue, t)
    <3>1. queue \in Seq(Contexts)
      BY <2>1 DEF TypeOK
    <3>2. Head(queue) = queue[1] /\ 1 \in 1..Len(queue)
      BY <2>4, <3>1
    <3> QED
      BY <2>4, <3>2 DEF Contains
  <2>6. due[t] + readAt' > asked[t] + lazy'
    BY <2>1, <2>2, <2>5, UpdateInTime DEF ListInv
  <2>7. lazy' = Now /\ readAt' = ticks /\ Now \in Nat
    BY <2>1, <2>2, NowFacts DEF UpdateTime
  <2>8. due[t] \in Nat /\ asked[t] \in Nat /\ ticks \in Nat
    BY <2>1, <2>3, WrapFacts DEF TypeOK
  <2> QED
    BY <2>4, <2>6, <2>7, <2>8
<1>2. TimeoutInv => (\A t \in Timers :
         (LPTMR0_Handler \/ CallbackReturns) /\ running' = t
            => ticks > asked[t])
  BY <1>1
<1> QED
  BY <1>2, TimeoutInvHolds, PTL DEF NeverEarly

\* While the timer runs, or is armed again and again for short timeouts,
\* timeout_lazy_now is the number of ticks that have passed, whatever the
\* counter went through and wherever the calls and the interrupt fell.
THEOREM ClockIsExact == ASSUME Short PROVE Spec => []ClockExact
<1>1. Pace => ClockExact
  BY DEF Pace
<1> QED
  BY <1>1, PaceHolds, PTL

\* No compare value is programmed that the counter has left already, and no
\* timeout waits for more than the callbacks of the others.
THEOREM NothingIsLate == ASSUME Short PROVE Spec => []OnTime
<1>1. TimeoutInv /\ Pace => OnTime
  BY PaceOnTime
<1> QED
  BY <1>1, PaceHolds, PTL
=============================================================================
