---------------------------- MODULE QueueLemmas -----------------------------
(***************************************************************************)
(* Lemmas about the queue operators, proved for sequences of any length,   *)
(* and about quotients and remainders, proved for all naturals.            *)
(* The provers cannot instantiate an induction theorem that takes an       *)
(* operator, so induction over the length of a queue is done by minimal    *)
(* counterexample (LeastNat, from the well-foundedness of < on Nat).       *)
(***************************************************************************)
EXTENDS Integers, Queues, SequenceTheorems, WellFoundedInduction, TLAPS

\* Every nonempty set of naturals has a least element.
LEMMA LeastNat ==
    ASSUME NEW T, T \subseteq Nat, T # {}
    PROVE  \E x \in T : \A y \in T : x <= y
<1> DEFINE R == OpToRel(<, Nat)
<1>1. IsWellFoundedOn(R, Nat)
  BY NatLessThanWellFounded
<1>2. \A a, b \in Nat : a < b => <<a, b>> \in R
  BY DEF OpToRel
<1> HIDE DEF R
<1>3. PICK x \in T : \A y \in T : ~(<<y, x>> \in R)
  BY <1>1, WFMin
<1>4. ASSUME NEW y \in T PROVE x <= y
  <2>1. x \in Nat /\ y \in Nat
    OBVIOUS
  <2>2. ~(y < x)
    BY <1>2, <1>3, <2>1
  <2> QED
    BY <2>1, <2>2
<1> QED
  BY <1>4

-----------------------------------------------------------------------------
(* Membership and duplicates under the elementary operations               *)

\* Contains is existence of an index; appending adds exactly one element.
LEMMA AppendContains ==
    ASSUME NEW S, NEW s \in Seq(S), NEW e \in S, NEW x
    PROVE  Contains(Append(s, e), x) <=> (Contains(s, x) \/ x = e)
<1> DEFINE a == Append(s, e)
<1>1. /\ a \in Seq(S) /\ Len(a) = Len(s) + 1 /\ Len(s) \in Nat
      /\ \A i \in 1..Len(s) : a[i] = s[i]
      /\ a[Len(s) + 1] = e
  BY AppendProperties
<1> HIDE DEF a
<1>2. ASSUME Contains(a, x) PROVE Contains(s, x) \/ x = e
  <2>1. PICK i \in 1..Len(a) : a[i] = x
    BY <1>2 DEF Contains
  <2>2. CASE i = Len(s) + 1
    BY <1>1, <2>1, <2>2
  <2>3. CASE i # Len(s) + 1
    <3>1. i \in 1..Len(s)
      BY <1>1, <2>1, <2>3
    <3> QED
      BY <1>1, <2>1, <3>1 DEF Contains
  <2> QED
    BY <2>2, <2>3
<1>3. ASSUME Contains(s, x) PROVE Contains(a, x)
  <2>1. PICK i \in 1..Len(s) : s[i] = x
    BY <1>3 DEF Contains
  <2>2. i \in 1..Len(a) /\ a[i] = x
    BY <1>1, <2>1
  <2> QED
    BY <2>2 DEF Contains
<1>4. ASSUME x = e PROVE Contains(a, x)
  <2>1. Len(s) + 1 \in 1..Len(a)
    BY <1>1
  <2> QED
    BY <1>1, <1>4, <2>1 DEF Contains
<1> QED
  BY <1>2, <1>3, <1>4 DEF a

\* Appending a new element keeps a queue free of duplicates.
LEMMA AppendNoDuplicates ==
    ASSUME NEW S, NEW s \in Seq(S), NEW e \in S,
           NoDuplicates(s), ~Contains(s, e)
    PROVE  NoDuplicates(Append(s, e))
<1> DEFINE a == Append(s, e)
<1>1. /\ Len(a) = Len(s) + 1 /\ Len(s) \in Nat
      /\ \A i \in 1..Len(s) : a[i] = s[i]
      /\ a[Len(s) + 1] = e
  BY AppendProperties
<1> HIDE DEF a
<1>2. \A i \in 1..Len(s) : s[i] # e
  BY DEF Contains
<1>3. ASSUME NEW i \in 1..Len(a), NEW j \in 1..Len(a), a[i] = a[j]
      PROVE  i = j
  <2>1. (i \in 1..Len(s) \/ i = Len(s) + 1) /\ (j \in 1..Len(s) \/ j = Len(s) + 1)
    BY <1>1
  <2>2. CASE i \in 1..Len(s) /\ j \in 1..Len(s)
    BY <1>1, <1>3, <2>2 DEF NoDuplicates
  <2>3. CASE i \in 1..Len(s) /\ j = Len(s) + 1
    BY <1>1, <1>2, <1>3, <2>3
  <2>4. CASE j \in 1..Len(s) /\ i = Len(s) + 1
    BY <1>1, <1>2, <1>3, <2>4
  <2>5. CASE i = Len(s) + 1 /\ j = Len(s) + 1
    BY <2>5
  <2> QED
    BY <2>1, <2>2, <2>3, <2>4, <2>5
<1> QED
  BY <1>3 DEF NoDuplicates, a

\* The empty queue contains nothing and repeats nothing.
LEMMA EmptyQueue ==
    ASSUME NEW x
    PROVE  ~Contains(<<>>, x) /\ NoDuplicates(<<>>)
BY DEF Contains, NoDuplicates

\* Removing the head of a queue without duplicates removes it for good.
LEMMA TailFacts ==
    ASSUME NEW S, NEW s \in Seq(S), s # <<>>, NoDuplicates(s)
    PROVE  /\ NoDuplicates(Tail(s))
           /\ \A x : Contains(Tail(s), x) <=> (Contains(s, x) /\ x # Head(s))
           /\ Contains(s, Head(s))
<1> DEFINE t == Tail(s)
<1>1. /\ Len(t) = Len(s) - 1 /\ Len(s) \in Nat /\ Len(s) > 0
      /\ \A i \in 1..Len(t) : t[i] = s[i + 1]
  BY HeadTailProperties, EmptySeq
<1>2. Head(s) = s[1]
  OBVIOUS
<1> HIDE DEF t
<1>3. NoDuplicates(t)
  <2> SUFFICES ASSUME NEW i \in 1..Len(t), NEW j \in 1..Len(t), t[i] = t[j]
               PROVE  i = j
    BY DEF NoDuplicates
  <2>1. i + 1 \in 1..Len(s) /\ j + 1 \in 1..Len(s) /\ s[i + 1] = s[j + 1]
    BY <1>1
  <2>2. i + 1 = j + 1
    BY <2>1 DEF NoDuplicates
  <2> QED
    BY <2>2
<1>4. ASSUME NEW x, Contains(t, x) PROVE Contains(s, x) /\ x # s[1]
  <2>1. PICK i \in 1..Len(t) : t[i] = x
    BY <1>4 DEF Contains
  <2>2. i + 1 \in 1..Len(s) /\ s[i + 1] = x /\ 1 \in 1..Len(s) /\ i + 1 # 1
    BY <1>1, <2>1
  <2> QED
    BY <2>2 DEF Contains, NoDuplicates
<1>5. ASSUME NEW x, Contains(s, x), x # s[1] PROVE Contains(t, x)
  <2>1. PICK i \in 1..Len(s) : s[i] = x
    BY <1>5 DEF Contains
  <2>2. i # 1
    BY <1>5, <2>1
  <2>3. i - 1 \in 1..Len(t) /\ t[i - 1] = x
    BY <1>1, <2>1, <2>2
  <2> QED
    BY <2>3 DEF Contains
<1>6. Contains(s, s[1])
  <2>1. 1 \in 1..Len(s)
    BY <1>1
  <2> QED
    BY <2>1 DEF Contains
<1> QED
  BY <1>2, <1>3, <1>4, <1>5, <1>6 DEF t

\* A concatenation contains what its parts contain.
LEMMA ConcatContains ==
    ASSUME NEW S, NEW s \in Seq(S), NEW u \in Seq(S), NEW x
    PROVE  Contains(s \o u, x) <=> (Contains(s, x) \/ Contains(u, x))
<1> DEFINE c == s \o u
<1>1. /\ Len(c) = Len(s) + Len(u) /\ Len(s) \in Nat /\ Len(u) \in Nat
      /\ \A i \in 1..(Len(s) + Len(u)) :
            c[i] = IF i <= Len(s) THEN s[i] ELSE u[i - Len(s)]
  BY ConcatProperties, LenProperties
<1> HIDE DEF c
<1>2. ASSUME Contains(c, x) PROVE Contains(s, x) \/ Contains(u, x)
  <2>1. PICK i \in 1..Len(c) : c[i] = x
    BY <1>2 DEF Contains
  <2>2. CASE i <= Len(s)
    <3>1. i \in 1..Len(s) /\ s[i] = x
      BY <1>1, <2>1, <2>2
    <3> QED
      BY <3>1 DEF Contains
  <2>3. CASE ~(i <= Len(s))
    <3>1. i - Len(s) \in 1..Len(u) /\ u[i - Len(s)] = x
      BY <1>1, <2>1, <2>3
    <3> QED
      BY <3>1 DEF Contains
  <2> QED
    BY <2>2, <2>3
<1>3. ASSUME Contains(s, x) PROVE Contains(c, x)
  <2>1. PICK i \in 1..Len(s) : s[i] = x
    BY <1>3 DEF Contains
  <2>2. i \in 1..Len(c) /\ c[i] = x
    BY <1>1, <2>1
  <2> QED
    BY <2>2 DEF Contains
<1>4. ASSUME Contains(u, x) PROVE Contains(c, x)
  <2>1. PICK i \in 1..Len(u) : u[i] = x
    BY <1>4 DEF Contains
  <2>2. Len(s) + i \in 1..Len(c) /\ c[Len(s) + i] = x
    BY <1>1, <2>1
  <2> QED
    BY <2>2 DEF Contains
<1> QED
  BY <1>2, <1>3, <1>4 DEF c

\* Two disjoint queues without duplicates make one without.
LEMMA ConcatNoDuplicates ==
    ASSUME NEW S, NEW s \in Seq(S), NEW u \in Seq(S),
           NoDuplicates(s), NoDuplicates(u),
           \A x : ~(Contains(s, x) /\ Contains(u, x))
    PROVE  NoDuplicates(s \o u)
<1> DEFINE c == s \o u
<1>1. /\ Len(c) = Len(s) + Len(u) /\ Len(s) \in Nat /\ Len(u) \in Nat
      /\ \A i \in 1..(Len(s) + Len(u)) :
            c[i] = IF i <= Len(s) THEN s[i] ELSE u[i - Len(s)]
  BY ConcatProperties, LenProperties
<1> HIDE DEF c
<1>2. \A i \in 1..Len(s), j \in 1..Len(u) : s[i] # u[j]
  BY DEF Contains
<1> SUFFICES ASSUME NEW i \in 1..Len(c), NEW j \in 1..Len(c), c[i] = c[j]
             PROVE  i = j
  BY DEF NoDuplicates, c
<1>3. CASE i <= Len(s) /\ j <= Len(s)
  <2>1. i \in 1..Len(s) /\ j \in 1..Len(s) /\ s[i] = s[j]
    BY <1>1, <1>3
  <2> QED
    BY <2>1 DEF NoDuplicates
<1>4. CASE ~(i <= Len(s)) /\ ~(j <= Len(s))
  <2>1. i - Len(s) \in 1..Len(u) /\ j - Len(s) \in 1..Len(u)
    BY <1>1, <1>4
  <2>2. u[i - Len(s)] = u[j - Len(s)]
    BY <1>1, <1>4
  <2>3. i - Len(s) = j - Len(s)
    BY <2>1, <2>2 DEF NoDuplicates
  <2> QED
    BY <1>1, <2>3
<1>5. CASE i <= Len(s) /\ ~(j <= Len(s))
  <2>1. i \in 1..Len(s) /\ j - Len(s) \in 1..Len(u) /\ s[i] = u[j - Len(s)]
    BY <1>1, <1>5
  <2> QED
    BY <1>2, <2>1
<1>6. CASE ~(i <= Len(s)) /\ j <= Len(s)
  <2>1. j \in 1..Len(s) /\ i - Len(s) \in 1..Len(u) /\ s[j] = u[i - Len(s)]
    BY <1>1, <1>6
  <2> QED
    BY <1>2, <2>1
<1> QED
  BY <1>3, <1>4, <1>5, <1>6

\* Reversing a queue keeps its members, each of them as often.
LEMMA ReverseFacts ==
    ASSUME NEW S, NEW s \in Seq(S)
    PROVE  /\ Reverse(s) \in Seq(S)
           /\ \A x : Contains(Reverse(s), x) <=> Contains(s, x)
           /\ NoDuplicates(s) => NoDuplicates(Reverse(s))
<1> DEFINE r == Reverse(s)
<1>1. Len(s) \in Nat /\ \A i \in 1..Len(s) : (Len(s) - i) + 1 \in 1..Len(s)
  BY LenProperties
<1>2. r = [i \in 1..Len(s) |-> s[(Len(s) - i) + 1]]
  BY DEF Reverse
<1>3. r \in [1..Len(s) -> S]
  BY <1>1, <1>2, ElementOfSeq
<1>4. r \in Seq(S) /\ Len(r) = Len(s)
  BY <1>1, <1>3
<1>5. \A i \in 1..Len(s) : r[i] = s[(Len(s) - i) + 1]
  BY <1>2
<1>6. \A i \in 1..Len(s) : s[i] = r[(Len(s) - i) + 1]
  <2> TAKE i \in 1..Len(s)
  <2>1. (Len(s) - ((Len(s) - i) + 1)) + 1 = i
    BY <1>1
  <2> QED
    BY <1>1, <1>5, <2>1
<1> HIDE DEF r
<1>7. ASSUME NEW x PROVE Contains(r, x) <=> Contains(s, x)
  <2>1. ASSUME NEW i \in 1..Len(r), r[i] = x
        PROVE  \E j \in 1..Len(s) : s[j] = x
    <3>1. i \in 1..Len(s) /\ s[(Len(s) - i) + 1] = x
      BY <1>4, <1>5, <2>1
    <3> QED
      BY <1>1, <3>1
  <2>2. ASSUME NEW i \in 1..Len(s), s[i] = x
        PROVE  \E j \in 1..Len(r) : r[j] = x
    <3>1. r[(Len(s) - i) + 1] = x
      BY <1>6, <2>2
    <3> QED
      BY <1>1, <1>4, <3>1
  <2> QED
    BY <2>1, <2>2 DEF Contains
<1>8. ASSUME NoDuplicates(s), NEW i \in 1..Len(r), NEW j \in 1..Len(r),
             r[i] = r[j]
      PROVE  i = j
  <2>1. (Len(s) - i) + 1 = (Len(s) - j) + 1
    BY <1>1, <1>4, <1>5, <1>8 DEF NoDuplicates
  <2> QED
    BY <1>1, <1>4, <2>1
<1> QED
  BY <1>4, <1>7, <1>8 DEF NoDuplicates, r

-----------------------------------------------------------------------------
(* Keep                                                                    *)

\* The equation that defines KeptUpTo up to n.
KeepStep(q, W, f, n) ==
    f = [i \in 0..n |->
            IF i = 0 THEN <<>>
            ELSE IF q[i] \in W THEN Append(f[i - 1], q[i])
            ELSE f[i - 1]]

\* The recursive definition of KeptUpTo has a solution.
LEMMA KeepDefined ==
    ASSUME NEW S, NEW q \in Seq(S), NEW W
    PROVE  KeepStep(q, W, KeptUpTo(q, W), Len(q))
<1> DEFINE Bad == {n \in Nat : ~\E f : KeepStep(q, W, f, n)}
<1>1. Bad = {}
  <2>1. SUFFICES ASSUME Bad # {} PROVE FALSE
    OBVIOUS
  <2>2. PICK n \in Bad : \A m \in Bad : n <= m
    BY <2>1, LeastNat
  <2>3. CASE n = 0
    <3> DEFINE f == [i \in 0..0 |-> <<>>]
    <3>1. KeepStep(q, W, f, 0)
      BY DEF KeepStep
    <3> QED
      BY <2>2, <2>3, <3>1
  <2>4. CASE n # 0
    <3>1. n \in Nat /\ n - 1 \in Nat /\ n - 1 \notin Bad
      BY <2>2, <2>4
    <3>2. PICK f : KeepStep(q, W, f, n - 1)
      BY <3>1
    <3> DEFINE g == [i \in 0..n |->
                        IF i = n
                        THEN IF q[n] \in W THEN Append(f[n - 1], q[n])
                             ELSE f[n - 1]
                        ELSE f[i]]
    <3>3. \A i \in 0..(n - 1) : g[i] = f[i]
      BY <3>1
    <3>4. \A i \in 0..(n - 1) :
             f[i] = IF i = 0 THEN <<>>
                    ELSE IF q[i] \in W THEN Append(f[i - 1], q[i])
                    ELSE f[i - 1]
      BY <3>1, <3>2 DEF KeepStep
    <3>5. \A i \in 0..n :
             g[i] = IF i = 0 THEN <<>>
                    ELSE IF q[i] \in W THEN Append(g[i - 1], q[i])
                    ELSE g[i - 1]
      <4> TAKE i \in 0..n
      <4>1. CASE i = n
        BY <2>4, <3>1, <3>3, <4>1
      <4>2. CASE i # n
        <5>1. i \in 0..(n - 1) /\ (i # 0 => i - 1 \in 0..(n - 1))
          BY <3>1, <4>2
        <5> HIDE DEF g
        <5> QED
          BY <3>3, <3>4, <5>1
      <4> QED
        BY <4>1, <4>2
    <3>6. KeepStep(q, W, g, n)
      BY <3>5 DEF KeepStep
    <3> QED
      BY <2>2, <3>6
  <2> QED
    BY <2>3, <2>4
<1>2. Len(q) \in Nat
  BY LenProperties
<1>3. \E f : KeepStep(q, W, f, Len(q))
  BY <1>1, <1>2
<1> QED
  BY <1>3 DEF KeptUpTo, KeepStep

\* Keep returns a queue of the members of q that are in W, and no others.
LEMMA KeepFacts ==
    ASSUME NEW S, NEW q \in Seq(S), NEW W
    PROVE  /\ Keep(q, W) \in Seq(S)
           /\ \A x : Contains(Keep(q, W), x) <=> (Contains(q, x) /\ x \in W)
           /\ NoDuplicates(q) => NoDuplicates(Keep(q, W))
<1> DEFINE f == KeptUpTo(q, W)
           Good(n) ==
             /\ f[n] \in Seq(S)
             /\ \A x : Contains(f[n], x) <=>
                         \E i \in 1..n : q[i] = x /\ x \in W
             /\ NoDuplicates(q) => NoDuplicates(f[n])
           Bad == {n \in Nat : n <= Len(q) /\ ~Good(n)}
<1>1. Len(q) \in Nat
  BY LenProperties
<1>2. \A i \in 0..Len(q) :
         f[i] = IF i = 0 THEN <<>>
                ELSE IF q[i] \in W THEN Append(f[i - 1], q[i])
                ELSE f[i - 1]
  <2>1. KeepStep(q, W, f, Len(q))
    BY KeepDefined
  <2> HIDE DEF f
  <2> QED
    BY <1>1, <2>1 DEF KeepStep
<1> HIDE DEF f
<1>3. Good(0)
  <2>1. f[0] = <<>>
    BY <1>1, <1>2
  <2>2. <<>> \in Seq(S)
    OBVIOUS
  <2> QED
    BY <2>1, <2>2, EmptyQueue
<1>4. ASSUME NEW n \in Nat, n # 0, n <= Len(q), Good(n - 1)
      PROVE  Good(n)
  <2>1. n \in 0..Len(q) /\ n \in 1..Len(q) /\ q[n] \in S
    BY <1>1, <1>4, ElementOfSeq
  <2>2. CASE q[n] \notin W
    <3>1. f[n] = f[n - 1]
      BY <1>2, <1>4, <2>1, <2>2
    <3>2. ASSUME NEW x
          PROVE (\E i \in 1..n : q[i] = x /\ x \in W)
                <=> (\E i \in 1..(n - 1) : q[i] = x /\ x \in W)
      BY <2>1, <2>2
    <3> QED
      BY <1>4, <3>1, <3>2
  <2>3. CASE q[n] \in W
    <3>1. f[n] = Append(f[n - 1], q[n])
      BY <1>2, <1>4, <2>1, <2>3
    <3>2. f[n] \in Seq(S)
      BY <1>4, <2>1, <3>1, AppendProperties
    <3>3. ASSUME NEW x
          PROVE  Contains(f[n], x) <=> \E i \in 1..n : q[i] = x /\ x \in W
      <4>1. Contains(f[n], x) <=> (Contains(f[n - 1], x) \/ x = q[n])
        BY <1>4, <2>1, <3>1, AppendContains
      <4>2. (\E i \in 1..n : q[i] = x /\ x \in W)
            <=> ((\E i \in 1..(n - 1) : q[i] = x /\ x \in W) \/ x = q[n])
        BY <2>1, <2>3
      <4> QED
        BY <1>4, <4>1, <4>2
    <3>4. ASSUME NoDuplicates(q) PROVE NoDuplicates(f[n])
      <4>1. ~Contains(f[n - 1], q[n])
        <5>1. SUFFICES ASSUME Contains(f[n - 1], q[n]) PROVE FALSE
          OBVIOUS
        <5>2. PICK i \in 1..(n - 1) : q[i] = q[n]
          BY <1>4, <5>1
        <5>3. i \in 1..Len(q) /\ i # n
          BY <1>1, <2>1, <5>2
        <5> QED
          BY <2>1, <3>4, <5>2, <5>3 DEF NoDuplicates
      <4> QED
        BY <1>4, <2>1, <3>1, <3>4, <4>1, AppendNoDuplicates
    <3> QED
      BY <3>2, <3>3, <3>4
  <2> QED
    BY <2>2, <2>3
<1>5. Bad = {}
  <2>1. SUFFICES ASSUME Bad # {} PROVE FALSE
    OBVIOUS
  <2> HIDE DEF Good
  <2>2. PICK n \in Bad : \A m \in Bad : n <= m
    BY <2>1, LeastNat
  <2>3. n \in Nat /\ n <= Len(q) /\ ~Good(n) /\ n # 0
    BY <1>3, <2>2
  <2>4. n - 1 \in Nat /\ n - 1 <= Len(q) /\ n - 1 \notin Bad
    BY <1>1, <2>2, <2>3
  <2>5. Good(n - 1)
    BY <2>4
  <2> QED
    BY <1>4, <2>3, <2>5
<1>6. Good(Len(q))
  <2> HIDE DEF Good
  <2> QED
    BY <1>1, <1>5
<1>7. Keep(q, W) = f[Len(q)]
  BY DEF Keep, f
<1>8. \A x : (\E i \in 1..Len(q) : q[i] = x /\ x \in W)
             <=> (Contains(q, x) /\ x \in W)
  BY DEF Contains
<1> QED
  BY <1>6, <1>7, <1>8

-----------------------------------------------------------------------------
(* Quotients and remainders: what clocks that wrap, rings and running      *)
(* numbers need of div and mod.                                            *)

LEMMA DivMod ==
    ASSUME NEW P \in Nat \ {0}, NEW x \in Nat
    PROVE  /\ x \div P \in Nat /\ x % P \in 0..(P - 1)
           /\ x = P * (x \div P) + (x % P)
<1>1. x % P \in 0..(P - 1)
  OBVIOUS
<1>2. x \div P \in Int
  OBVIOUS
<1>3. x = P * (x \div P) + (x % P)
  OBVIOUS
<1>4. x \div P >= 0
  <2> DEFINE d == x \div P
             m == x % P
  <2>1. d \in Int /\ m \in 0..(P - 1) /\ x = P * d + m
    BY <1>1, <1>2, <1>3
  <2> HIDE DEF d, m
  <2>2. ASSUME d < 0 PROVE FALSE
    <3>1. PICK e \in Nat : d = -(e + 1)
      <4>1. -d - 1 \in Nat /\ d = -((-d - 1) + 1)
        BY <2>1, <2>2
      <4> QED
        BY <4>1
    <3>2. P * d = -(P * e) - P /\ P * e \in Nat
      BY <3>1
    <3> QED
      BY <2>1, <3>2
  <2>3. d >= 0
    BY <2>1, <2>2
  <2> QED
    BY <2>3 DEF d
<1> QED
  BY <1>1, <1>2, <1>3, <1>4

LEMMA ProductGrows ==
    ASSUME NEW P \in Nat \ {0}, NEW a \in Nat, NEW b \in Nat, a < b
    PROVE  /\ P * a \in Nat /\ P * b \in Nat
           /\ P * a + P <= P * b
<1>1. PICK c \in Nat : b = a + 1 + c
  <2>1. b - a - 1 \in Nat /\ b = a + 1 + (b - a - 1)
    OBVIOUS
  <2> QED
    BY <2>1
<1>2. P * b = P * a + P + P * c
  BY <1>1
<1>3. P * a \in Nat /\ P * c \in Nat /\ P * b \in Nat
  OBVIOUS
<1> QED
  BY <1>2, <1>3

\* Quotient and remainder are unique.
LEMMA DivModUnique ==
    ASSUME NEW P \in Nat \ {0}, NEW q \in Nat, NEW r \in 0..(P - 1),
           NEW x \in Nat, x = P * q + r
    PROVE  x \div P = q /\ x % P = r
<1> DEFINE d == x \div P
           m == x % P
<1>1. d \in Nat /\ m \in 0..(P - 1) /\ x = P * d + m
  BY DivMod
<1> HIDE DEF d, m
<1>2. P * d \in Nat /\ P * q \in Nat
  BY <1>1
<1>3. ~(d < q)
  <2> SUFFICES ASSUME d < q PROVE FALSE
    OBVIOUS
  <2>1. P * d + P <= P * q
    BY <1>1, ProductGrows
  <2> QED
    BY <1>1, <1>2, <2>1
<1>4. ~(q < d)
  <2> SUFFICES ASSUME q < d PROVE FALSE
    OBVIOUS
  <2>1. P * q + P <= P * d
    BY <1>1, ProductGrows
  <2> QED
    BY <1>1, <1>2, <2>1
<1>5. d = q
  BY <1>1, <1>3, <1>4
<1>6. m = r
  BY <1>1, <1>2, <1>5
<1> QED
  BY <1>5, <1>6 DEF d, m

\* What fits is not reduced, and a reduction never adds.
LEMMA ModFacts ==
    ASSUME NEW P \in Nat \ {0}, NEW x \in Nat
    PROVE  /\ x % P <= x
           /\ x < P => x % P = x
           /\ (P + x) % P <= x
<1>1. x % P <= x
  <2>1. P * (x \div P) \in Nat /\ x = P * (x \div P) + (x % P) /\ x % P \in Nat
    BY DivMod
  <2> QED
    BY <2>1
<1>2. ASSUME x < P PROVE x % P = x
  <2>1. x = P * 0 + x /\ x \in 0..(P - 1)
    BY <1>2
  <2> QED
    BY <2>1, DivModUnique
<1>3. (P + x) % P = x % P
  <2>1. /\ x \div P \in Nat /\ x % P \in 0..(P - 1)
        /\ x = P * (x \div P) + (x % P)
    BY DivMod
  <2> DEFINE d == x \div P
             m == x % P
  <2>2. d \in Nat /\ m \in 0..(P - 1) /\ x = P * d + m
    BY <2>1
  <2> HIDE DEF d, m
  <2>3. P * (d + 1) = P * d + P /\ P * d \in Nat
    BY <2>2
  <2>4. P + x = P * (d + 1) + m /\ P + x \in Nat /\ d + 1 \in Nat
    BY <2>2, <2>3
  <2>5. (P + x) % P = m
    BY <2>2, <2>4, DivModUnique
  <2> QED
    BY <2>5 DEF m
<1> QED
  BY <1>1, <1>2, <1>3

\* A reduction before an addition changes nothing.
LEMMA ModAdd ==
    ASSUME NEW P \in Nat \ {0}, NEW x \in Nat, NEW y \in Nat
    PROVE  ((x % P) + y) % P = (x + y) % P
<1>1. PICK d \in Nat, m \in 0..(P - 1) : x = P * d + m /\ x % P = m
  BY DivMod
<1>2. PICK e \in Nat, n \in 0..(P - 1) : m + y = P * e + n /\ (m + y) % P = n
  <2>1. m + y \in Nat
    BY <1>1
  <2> QED
    BY <2>1, DivMod
<1>3. P * (d + e) = P * d + P * e /\ P * d \in Nat /\ P * e \in Nat
  OBVIOUS
<1>4. x + y = P * (d + e) + n /\ d + e \in Nat /\ x + y \in Nat
  BY <1>1, <1>2, <1>3
<1>5. (x + y) % P = n
  <2>1. ASSUME NEW w \in Nat, NEW q \in Nat, w = P * q + n PROVE w % P = n
    BY <2>1, DivModUnique
  <2> QED
    BY <1>4, <2>1
<1> QED
  BY <1>1, <1>2, <1>5

LEMMA ModPeriod ==
    ASSUME NEW P \in Nat \ {0}, NEW x \in Nat
    PROVE  (x + P) % P = x % P
<1>1. PICK d \in Nat, m \in 0..(P - 1) : x = P * d + m /\ x % P = m
  BY DivMod
<1>2. P * (d + 1) = P * d + P /\ P * d \in Nat
  OBVIOUS
<1>3. x + P = P * (d + 1) + m /\ d + 1 \in Nat /\ x + P \in Nat
  BY <1>1, <1>2
<1>4. ASSUME NEW w \in Nat, NEW q \in Nat, w = P * q + m PROVE w % P = m
  BY <1>4, DivModUnique
<1> QED
  BY <1>1, <1>3, <1>4

\* Below twice the modulus a reduction is at most one subtraction.
LEMMA ModOnce ==
    ASSUME NEW P \in Nat \ {0}, NEW x \in Nat, x < 2 * P
    PROVE  x % P = IF x < P THEN x ELSE x - P
<1>1. CASE x < P
  BY <1>1, ModFacts
<1>2. CASE ~(x < P)
  <2>1. x = P * 1 + (x - P) /\ x - P \in 0..(P - 1)
    BY <1>2
  <2>2. x % P = x - P
    BY <2>1, DivModUnique
  <2> QED
    BY <1>2, <2>2
<1> QED
  BY <1>1, <1>2
=============================================================================
