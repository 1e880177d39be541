---------------------------- MODULE TimersProofs ----------------------------
(***************************************************************************)
(* Proofs about the timer package: the operations of timer.c keep the list *)
(* sorted and free of duplicates, and every test timer is scheduled, known *)
(* to its owner and cancelled exactly once, for every set of timers and    *)
(* streams and every setting of the test.                                  *)
(***************************************************************************)
EXTENDS Timers, TLAPS, WellFoundedInduction, SequenceTheorems

-----------------------------------------------------------------------------
(* Sequences *)

\* InsertAt shifts the tail by one place.
LEMMA InsertAtLemma ==
  ASSUME NEW S, NEW s \in Seq(S), NEW e \in S, NEW p \in 1..Len(s) + 1
  PROVE  /\ InsertAt(s, p, e) \in Seq(S)
         /\ Len(InsertAt(s, p, e)) = Len(s) + 1
         /\ \A i \in 1..Len(s) + 1 : InsertAt(s, p, e)[i] =
              IF i < p THEN s[i] ELSE IF i = p THEN e ELSE s[i - 1]
<1>0. Len(s) \in Nat
  BY LenProperties
<1> DEFINE a == SubSeq(s, 1, p - 1)
           b == SubSeq(s, p, Len(s))
<1>1. /\ a \in Seq(S) /\ Len(a) = p - 1
      /\ \A i \in 1..p - 1 : a[i] = s[i]
  <2>1. \A i \in 1..p - 1 : s[i] \in S
    BY ElementOfSeq
  <2> QED BY <2>1, SubSeqProperties
<1>2. /\ b \in Seq(S) /\ Len(b) = Len(s) - p + 1
      /\ \A i \in 1..Len(s) - p + 1 : b[i] = s[p + i - 1]
  BY ElementOfSeq, SubSeqProperties
<1>3. /\ <<e>> \in Seq(S) /\ Len(<<e>>) = 1 /\ <<e>>[1] = e
  OBVIOUS
<1> HIDE DEF a, b
<1>4. /\ a \o <<e>> \in Seq(S) /\ Len(a \o <<e>>) = p
      /\ \A i \in 1..p : (a \o <<e>>)[i] = IF i < p THEN s[i] ELSE e
  BY <1>1, <1>3, ConcatProperties
<1>5. /\ (a \o <<e>>) \o b \in Seq(S) /\ Len((a \o <<e>>) \o b) = Len(s) + 1
      /\ \A i \in 1..Len(s) + 1 : ((a \o <<e>>) \o b)[i] =
           IF i < p THEN s[i] ELSE IF i = p THEN e ELSE s[i - 1]
  <2> DEFINE c == a \o <<e>>
  <2>1. c \in Seq(S) /\ Len(c) = p /\ \A i \in 1..p : c[i] = IF i < p THEN s[i] ELSE e
    BY <1>4
  <2> HIDE DEF c
  <2>2. /\ c \o b \in Seq(S) /\ Len(c \o b) = Len(s) + 1
        /\ \A i \in 1..Len(c) + Len(b) : (c \o b)[i] = IF i <= Len(c) THEN c[i] ELSE b[i - Len(c)]
    BY <1>2, <2>1, ConcatProperties
  <2>3. ASSUME NEW i \in 1..Len(s) + 1
        PROVE  (c \o b)[i] = IF i < p THEN s[i] ELSE IF i = p THEN e ELSE s[i - 1]
    <3>1. CASE i <= p
      BY <1>2, <2>1, <2>2, <3>1
    <3>2. CASE i > p
      <4>1. b[i - p] = s[p + (i - p) - 1]
        BY <1>2, <3>2
      <4> QED BY <1>2, <2>1, <2>2, <3>2, <4>1
    <3>3. i <= p \/ i > p
      BY <1>0
    <3> QED BY <3>1, <3>2, <3>3
  <2> QED BY <2>2, <2>3 DEF c
<1> QED BY <1>5 DEF InsertAt, a, b

\* RemoveAt closes the gap.
LEMMA RemoveAtLemma ==
  ASSUME NEW S, NEW s \in Seq(S), NEW p \in 1..Len(s)
  PROVE  /\ RemoveAt(s, p) \in Seq(S)
         /\ Len(RemoveAt(s, p)) = Len(s) - 1
         /\ \A i \in 1..Len(s) - 1 : RemoveAt(s, p)[i] =
              IF i < p THEN s[i] ELSE s[i + 1]
<1>0. Len(s) \in Nat
  BY LenProperties
<1> DEFINE a == SubSeq(s, 1, p - 1)
           b == SubSeq(s, p + 1, Len(s))
<1>1. /\ a \in Seq(S) /\ Len(a) = p - 1
      /\ \A i \in 1..p - 1 : a[i] = s[i]
  BY ElementOfSeq, SubSeqProperties
<1>2. /\ b \in Seq(S) /\ Len(b) = Len(s) - p
      /\ \A i \in 1..Len(s) - p : b[i] = s[p + i]
  BY ElementOfSeq, SubSeqProperties
<1> HIDE DEF a, b
<1>3. /\ a \o b \in Seq(S) /\ Len(a \o b) = Len(s) - 1
      /\ \A i \in 1..Len(s) - 1 : (a \o b)[i] = IF i < p THEN s[i] ELSE s[i + 1]
  <2>1. /\ a \o b \in Seq(S) /\ Len(a \o b) = Len(a) + Len(b)
        /\ \A i \in 1..Len(a) + Len(b) : (a \o b)[i] = IF i <= Len(a) THEN a[i] ELSE b[i - Len(a)]
    BY <1>1, <1>2, ConcatProperties
  <2>2. ASSUME NEW i \in 1..Len(s) - 1
        PROVE  (a \o b)[i] = IF i < p THEN s[i] ELSE s[i + 1]
    <3>1. CASE i < p
      BY <1>1, <1>2, <2>1, <3>1
    <3>2. CASE i >= p
      <4>1. b[i - (p - 1)] = s[p + (i - (p - 1))]
        BY <1>2, <3>2
      <4> QED BY <1>1, <1>2, <2>1, <3>2, <4>1
    <3>3. i < p \/ i >= p
      BY <1>0
    <3> QED BY <3>1, <3>2, <3>3
  <2> QED BY <1>0, <1>1, <1>2, <2>1, <2>2
<1> QED BY <1>3 DEF RemoveAt, a, b

\* A non-empty set of naturals has a minimum, and Min is it.
LEMMA MinLemma ==
  ASSUME NEW T, T \subseteq Nat, T # {}
  PROVE  Min(T) \in T /\ \A y \in T : Min(T) <= y
<1> DEFINE R == OpToRel(<, Nat)
<1>1. IsWellFoundedOn(R, Nat)
  BY NatLessThanWellFounded
<1>2. ASSUME NEW x \in T, NEW y \in T PROVE y < x <=> <<y, x>> \in R
  BY DEF OpToRel
<1> HIDE DEF R
<1>3. PICK x \in T : \A y \in T : ~ (<<y, x>> \in R)
  BY <1>1, WFMin
<1>4. ASSUME NEW y \in T PROVE x <= y
  <2>1. ~ (y < x)
    BY <1>2, <1>3
  <2>2. x \in Nat /\ y \in Nat
    OBVIOUS
  <2> QED BY <2>1, <2>2
<1> QED BY <1>4 DEF Min

-----------------------------------------------------------------------------
(* The operations of timer.c *)

Good(qq) == qq \in Queues /\ Distinct(qq) /\ Sorted(qq)

\* The walk of list_add stops behind every timer that is not later, and in
\* front of one that is.
LEMMA InsertionPointLemma ==
  ASSUME NEW l \in Seq(Timer), NEW time \in [Timer -> Nat], NEW t \in Timer
  PROVE  /\ InsertionPoint(l, time, t) \in 1..Len(l) + 1
         /\ InsertionPoint(l, time, t) <= Len(l) =>
              time[t] < time[l[InsertionPoint(l, time, t)]]
         /\ \A i \in 1..Len(l) : i < InsertionPoint(l, time, t) =>
              time[l[i]] <= time[t]
<1> DEFINE T == {p \in 1..Len(l) + 1 : p = Len(l) + 1 \/ time[t] < time[l[p]]}
           m == Min(T)
<1>1. Len(l) \in Nat /\ \A i \in 1..Len(l) : l[i] \in Timer
  BY LenProperties, ElementOfSeq
<1>2. T \subseteq Nat /\ Len(l) + 1 \in T
  BY <1>1
<1>3. m \in T /\ \A y \in T : m <= y
  <2> HIDE DEF T
  <2> QED BY <1>2, MinLemma
<1>4. m = InsertionPoint(l, time, t)
  BY DEF InsertionPoint
<1> HIDE DEF m
<1>5. m \in 1..Len(l) + 1 /\ (m <= Len(l) => time[t] < time[l[m]])
  BY <1>1, <1>3
<1>6. ASSUME NEW i \in 1..Len(l), i < m PROVE time[l[i]] <= time[t]
  <2>1. i \notin T
    BY <1>1, <1>3, <1>5, <1>6
  <2>2. ~ (time[t] < time[l[i]])
    BY <1>1, <2>1
  <2>3. time[t] \in Nat /\ time[l[i]] \in Nat
    BY <1>1
  <2> QED BY <2>2, <2>3
<1> QED BY <1>4, <1>5, <1>6

\* list_add puts a timer that is on no list in its place.
LEMMA ListAddLemma ==
  ASSUME NEW qq, Good(qq), NEW t \in Timer, t \notin On(qq.list), t \notin On(qq.free)
  PROVE  /\ Good(list_add(qq, t))
         /\ On(list_add(qq, t).list) = On(qq.list) \cup {t}
         /\ list_add(qq, t) = [qq EXCEPT !.list = list_add(qq, t).list]
<1> DEFINE l == qq.list
           time == qq.time
           p == InsertionPoint(l, time, t)
           n == InsertAt(l, p, t)
<1>1. qq \in Queues /\ l \in Seq(Timer) /\ time \in [Timer -> Nat] /\ Len(l) \in Nat
  BY LenProperties DEF Good, Queues
<1>2. /\ p \in 1..Len(l) + 1
      /\ p <= Len(l) => time[t] < time[l[p]]
      /\ \A i \in 1..Len(l) : i < p => time[l[i]] <= time[t]
  BY <1>1, InsertionPointLemma
<1>3. list_add(qq, t) = [qq EXCEPT !.list = n]
  BY DEF list_add
<1> HIDE DEF p, l, time
<1>4. /\ n \in Seq(Timer) /\ Len(n) = Len(l) + 1
      /\ \A i \in 1..Len(l) + 1 : n[i] = IF i < p THEN l[i] ELSE IF i = p THEN t ELSE l[i - 1]
  BY <1>1, <1>2, InsertAtLemma
<1>5. DOMAIN l = 1..Len(l) /\ DOMAIN n = 1..Len(l) + 1
  <2>1. ASSUME NEW u \in Seq(Timer) PROVE DOMAIN u = 1..Len(u)
    OBVIOUS
  <2> HIDE DEF n, l
  <2> QED BY <1>1, <1>4, <2>1
<1> HIDE DEF n, l, time
<1>6. On(n) = On(l) \cup {t}
  <2>1. ASSUME NEW x \in On(n) PROVE x \in On(l) \cup {t}
    <3>1. PICK i \in 1..Len(l) + 1 : x = n[i]
      BY <1>5 DEF On
    <3>2. CASE i < p
      <4>1. i \in 1..Len(l) /\ n[i] = l[i]
        BY <1>1, <1>2, <1>4, <3>2
      <4> QED BY <1>5, <3>1, <4>1 DEF On
    <3>3. CASE i = p
      BY <1>4, <3>1, <3>3
    <3>4. CASE i > p
      <4>1. i - 1 \in 1..Len(l) /\ n[i] = l[i - 1]
        BY <1>1, <1>2, <1>4, <3>4
      <4> QED BY <1>5, <3>1, <4>1 DEF On
    <3>5. i < p \/ i = p \/ i > p
      BY <1>1, <1>2
    <3> QED BY <3>2, <3>3, <3>4, <3>5
  <2>2. ASSUME NEW i \in 1..Len(l) PROVE l[i] \in On(n)
    <3>1. CASE i < p
      <4>1. i \in 1..Len(l) + 1 /\ n[i] = l[i]
        BY <1>1, <1>2, <1>4, <3>1, SMTT(60)
      <4> QED BY <1>5, <4>1 DEF On
    <3>2. CASE i >= p
      <4>1. i + 1 \in 1..Len(l) + 1 /\ i + 1 > p
        BY <1>1, <1>2, <3>2
      <4>2. n[i + 1] = l[i]
        <5>1. n[i + 1] = IF i + 1 < p THEN l[i + 1] ELSE IF i + 1 = p THEN t ELSE l[i + 1 - 1]
          BY <1>4, <4>1
        <5>2. i + 1 \in Int /\ p \in Int /\ i + 1 - 1 = i
          BY <1>1, <1>2
        <5> QED BY <4>1, <5>1, <5>2
      <4> QED BY <1>5, <4>1, <4>2 DEF On
    <3>3. i < p \/ i >= p
      BY <1>1, <1>2
    <3> QED BY <3>1, <3>2, <3>3
  <2>3. t \in On(n)
    BY <1>2, <1>4, <1>5 DEF On
  <2> QED BY <1>5, <2>1, <2>2, <2>3 DEF On
<1>7. \A i \in 1..Len(l) : l[i] # t /\ l[i] \in Timer
  <2>1. t \notin On(l)
    BY DEF l
  <2> QED BY <1>1, <1>5, <2>1, ElementOfSeq DEF On
<1>8. /\ \A i, j \in 1..Len(l) : l[i] = l[j] => i = j
      /\ \A i, j \in 1..Len(l) : i <= j => time[l[i]] <= time[l[j]]
  BY <1>5 DEF Good, Distinct, Sorted, l, time
<1> DEFINE src(i) == IF i < p THEN i ELSE i - 1
<1>src. ASSUME NEW i \in 1..Len(l) + 1, i # p PROVE src(i) \in 1..Len(l) /\ n[i] = l[src(i)]
  BY <1>1, <1>2, <1>4, <1>src, SMTT(60)
<1>new. n[p] = t
  BY <1>2, <1>4
<1> HIDE DEF src
<1>9. ASSUME NEW i \in 1..Len(l) + 1, NEW j \in 1..Len(l) + 1, n[i] = n[j] PROVE i = j
  <2>1. CASE i = p \/ j = p
    BY <1>7, <1>9, <2>1, <1>src, <1>new
  <2>2. CASE i # p /\ j # p
    <3>1. src(i) = src(j)
      BY <1>8, <1>9, <1>src, <2>2
    <3> QED BY <1>1, <1>2, <2>2, <3>1 DEF src
  <2> QED BY <2>1, <2>2
<1>10. ASSUME NEW i \in 1..Len(l) + 1, NEW j \in 1..Len(l) + 1, i <= j
       PROVE  time[n[i]] <= time[n[j]]
  <2>0. \A k \in 1..Len(l) : l[k] \in Timer /\ time[l[k]] \in Nat
    BY <1>1, <1>7
  <2>1. CASE i = p /\ j = p
    BY <1>1, <1>new, <2>1
  <2>2. CASE i # p /\ j # p
    <3>1. src(i) <= src(j)
      BY <1>1, <1>2, <1>10, <2>2 DEF src
    <3> QED BY <1>8, <1>src, <2>2, <3>1
  <2>3. CASE i # p /\ j = p
    <3>1. i < p /\ src(i) = i
      BY <1>1, <1>2, <1>10, <2>3 DEF src
    <3> QED BY <1>2, <1>src, <1>new, <2>3, <3>1
  <2>4. CASE i = p /\ j # p
    <3>1. p <= src(j) /\ src(j) \in 1..Len(l) /\ p \in 1..Len(l)
      BY <1>1, <1>2, <1>10, <2>4 DEF src
    <3>2. time[t] < time[l[p]] /\ time[l[p]] <= time[l[src(j)]]
      BY <1>2, <1>8, <3>1
    <3>3. time[t] \in Nat /\ time[l[p]] \in Nat /\ time[l[src(j)]] \in Nat
      BY <1>1, <2>0, <3>1
    <3>4. time[t] <= time[l[src(j)]]
      BY <3>2, <3>3
    <3> QED BY <1>src, <1>new, <2>4, <3>4
  <2> QED BY <2>1, <2>2, <2>3, <2>4
<1>11. [qq EXCEPT !.list = n] \in Queues
  BY <1>1, <1>4 DEF Queues
<1>12. Distinct([qq EXCEPT !.list = n])
  BY <1>1, <1>5, <1>6, <1>9 DEF Distinct, Good, Queues, l
<1>13. Sorted([qq EXCEPT !.list = n])
  BY <1>1, <1>5, <1>10 DEF Sorted, Queues, time
<1> QED BY <1>1, <1>3, <1>6, <1>11, <1>12, <1>13 DEF Good, Queues, l

\* Sorted, t left aside.
SortedBut(qq, t) ==
  \A i, j \in DOMAIN qq.list :
    i <= j /\ qq.list[i] # t /\ qq.list[j] # t => qq.time[qq.list[i]] <= qq.time[qq.list[j]]

\* list_remove takes out its timer and no other, and the rest stays in order.
LEMMA ListRemoveLemma ==
  ASSUME NEW qq \in Queues, Distinct(qq), NEW t \in On(qq.list), SortedBut(qq, t)
  PROVE  /\ Good(list_remove(qq, t))
         /\ On(list_remove(qq, t).list) = On(qq.list) \ {t}
         /\ list_remove(qq, t) = [qq EXCEPT !.list = list_remove(qq, t).list]
<1> DEFINE l == qq.list
           time == qq.time
           p == CHOOSE i \in DOMAIN l : l[i] = t
           n == RemoveAt(l, p)
<1>1. l \in Seq(Timer) /\ time \in [Timer -> Nat]
  BY DEF Queues
<1>2. list_remove(qq, t) = [qq EXCEPT !.list = n]
  BY DEF list_remove
<1>3. p \in DOMAIN l /\ l[p] = t
  BY DEF On
<1> HIDE DEF p, l, time
<1>4. Len(l) \in Nat /\ DOMAIN l = 1..Len(l)
  BY <1>1, LenProperties
<1>5. /\ n \in Seq(Timer) /\ Len(n) = Len(l) - 1
      /\ \A i \in 1..Len(l) - 1 : n[i] = IF i < p THEN l[i] ELSE l[i + 1]
  BY <1>1, <1>3, <1>4, RemoveAtLemma
<1> HIDE DEF n
<1>6. DOMAIN n = 1..Len(l) - 1
  <2>1. ASSUME NEW u \in Seq(Timer) PROVE DOMAIN u = 1..Len(u)
    OBVIOUS
  <2> QED BY <1>5, <2>1
<1> DEFINE src(i) == IF i < p THEN i ELSE i + 1
<1>7. ASSUME NEW i \in 1..Len(l) - 1 PROVE src(i) \in 1..Len(l) /\ n[i] = l[src(i)] /\ src(i) # p
  BY <1>3, <1>4, <1>5
<1>8. ASSUME NEW i \in 1..Len(l) - 1, NEW j \in 1..Len(l) - 1
      PROVE  (i <= j <=> src(i) <= src(j)) /\ (src(i) = src(j) => i = j)
  BY <1>3, <1>4
<1>9. ASSUME NEW k \in 1..Len(l), k # p PROVE \E i \in 1..Len(l) - 1 : src(i) = k
  <2>1. CASE k < p
    <3>1. k \in 1..Len(l) - 1 /\ src(k) = k
      BY <1>3, <1>4, <2>1
    <3> QED BY <3>1
  <2>2. CASE k > p
    <3>1. k - 1 \in 1..Len(l) - 1 /\ src(k - 1) = k
      BY <1>3, <1>4, <2>2
    <3> QED BY <3>1
  <2>3. k < p \/ k > p
    BY <1>3, <1>4, <1>9
  <2> QED BY <2>1, <2>2, <2>3
<1> HIDE DEF src
<1>10. \A i, j \in 1..Len(l) : l[i] = l[j] => i = j
  BY <1>4 DEF Distinct, l
<1>11. \A i \in 1..Len(l) - 1 : n[i] # t
  BY <1>3, <1>4, <1>7, <1>10
<1>12. On(n) = On(l) \ {t}
  <2>1. ASSUME NEW x \in On(n) PROVE x \in On(l) /\ x # t
    BY <1>4, <1>6, <1>7, <1>11 DEF On
  <2>2. ASSUME NEW x \in On(l), x # t PROVE x \in On(n)
    <3>1. PICK k \in 1..Len(l) : x = l[k]
      BY <1>4 DEF On
    <3>2. k # p
      BY <1>3, <2>2, <3>1
    <3>3. PICK i \in 1..Len(l) - 1 : src(i) = k
      BY <1>9, <3>2
    <3>4. n[i] = x
      BY <1>7, <3>1, <3>3
    <3> QED BY <1>6, <3>4 DEF On
  <2> QED BY <2>1, <2>2
<1>13. ASSUME NEW i \in 1..Len(l) - 1, NEW j \in 1..Len(l) - 1, n[i] = n[j] PROVE i = j
  BY <1>7, <1>8, <1>10, <1>13
<1>14. ASSUME NEW i \in 1..Len(l) - 1, NEW j \in 1..Len(l) - 1, i <= j
       PROVE  time[n[i]] <= time[n[j]]
  <2>1. \A a, b \in 1..Len(l) : a <= b /\ l[a] # t /\ l[b] # t => time[l[a]] <= time[l[b]]
    BY <1>4 DEF SortedBut, l, time
  <2>2. src(i) <= src(j) /\ l[src(i)] # t /\ l[src(j)] # t
    BY <1>7, <1>8, <1>11, <1>14
  <2> QED BY <1>7, <2>1, <2>2
<1>15. [qq EXCEPT !.list = n] \in Queues
  BY <1>5 DEF Queues
<1>16. Distinct([qq EXCEPT !.list = n])
  BY <1>6, <1>12, <1>13 DEF Distinct, Queues, l
<1>17. Sorted([qq EXCEPT !.list = n])
  BY <1>6, <1>14 DEF Sorted, Queues, time
<1> QED BY <1>2, <1>12, <1>15, <1>16, <1>17 DEF Good, Queues, l

\* A sorted list is sorted without any one of its timers.
LEMMA GoodIsSortedBut ==
  ASSUME NEW qq, Good(qq), NEW t
  PROVE  SortedBut(qq, t)
  BY DEF Good, Sorted, SortedBut

\* What is still scheduled is as it was.
SameStructs(n, qq) ==
  /\ n.usecs = qq.usecs /\ n.periodic = qq.periodic /\ n.proc = qq.proc
  /\ On(n.list) \subseteq On(qq.list)

LEMMA SameStructsTransitive ==
  ASSUME NEW a, NEW b, NEW c, SameStructs(a, b), SameStructs(b, c)
  PROVE  SameStructs(a, c)
  BY DEF SameStructs

\* tmr_cancel moves its timer from the active to the free list.
LEMMA CancelLemma ==
  ASSUME NEW qq, Good(qq), NEW t \in On(qq.list)
  PROVE  /\ Good(tmr_cancel(qq, t))
         /\ On(tmr_cancel(qq, t).list) = On(qq.list) \ {t}
         /\ SameStructs(tmr_cancel(qq, t), qq)
         /\ tmr_cancel(qq, t).proc = qq.proc
         /\ tmr_cancel(qq, t).handle = qq.handle
<1> DEFINE rest == list_remove(qq, t)
           n == [rest EXCEPT !.free = <<t>> \o @]
<1>1. tmr_cancel(qq, t) = n
  BY DEF tmr_cancel
<1>2. qq \in Queues /\ Distinct(qq) /\ SortedBut(qq, t)
  BY GoodIsSortedBut DEF Good
<1>3. /\ Good(rest) /\ On(rest.list) = On(qq.list) \ {t}
      /\ rest = [qq EXCEPT !.list = rest.list]
  BY <1>2, ListRemoveLemma
<1>4. t \in Timer /\ t \notin On(qq.free)
  <2>1. t \in Timer
    BY <1>2, ElementOfSeq DEF On, Queues
  <2> QED BY <1>2, <2>1 DEF Distinct
<1> HIDE DEF rest
<1>5. /\ rest \in Queues /\ rest.free = qq.free /\ rest.proc = qq.proc /\ rest.handle = qq.handle
      /\ rest.usecs = qq.usecs /\ rest.periodic = qq.periodic
      /\ t \notin On(rest.list)
  BY <1>2, <1>3 DEF Good, Queues
<1> DEFINE f == rest.free
           g == <<t>> \o f
<1>6. f \in Seq(Timer) /\ Len(f) \in Nat
  BY <1>5, LenProperties DEF Queues
<1> HIDE DEF f
<1>7. /\ g \in Seq(Timer) /\ Len(g) = Len(f) + 1 /\ g[1] = t
      /\ \A i \in 2..Len(f) + 1 : g[i] = f[i - 1]
  <2>1. <<t>> \in Seq(Timer) /\ Len(<<t>>) = 1 /\ <<t>>[1] = t
    BY <1>4
  <2>2. /\ g \in Seq(Timer) /\ Len(g) = Len(f) + 1
        /\ \A i \in 1..1 + Len(f) : g[i] = IF i <= 1 THEN <<t>>[i] ELSE f[i - 1]
    BY <1>6, <2>1, ConcatProperties
  <2> QED BY <1>6, <2>1, <2>2
<1> HIDE DEF g
<1>8. DOMAIN f = 1..Len(f) /\ DOMAIN g = 1..Len(f) + 1
  <2>1. ASSUME NEW u \in Seq(Timer) PROVE DOMAIN u = 1..Len(u)
    OBVIOUS
  <2> QED BY <1>6, <1>7, <2>1
<1>9. \A x \in On(g) : x = t \/ x \in On(f)
  <2>1. ASSUME NEW i \in 2..Len(f) + 1 PROVE i - 1 \in DOMAIN f /\ g[i] = f[i - 1]
    BY <1>6, <1>7, <1>8
  <2>2. ASSUME NEW i \in 1..Len(f) + 1 PROVE i = 1 \/ i \in 2..Len(f) + 1
    BY <1>6
  <2> QED BY <1>7, <1>8, <2>1, <2>2 DEF On
<1>10. \A i, j \in DOMAIN f : f[i] = f[j] => i = j
  BY <1>2, <1>5 DEF Distinct, f
<1>11. \A i \in DOMAIN f : f[i] # t
  BY <1>4, <1>5 DEF On, f
<1>12. ASSUME NEW i \in DOMAIN g, NEW j \in DOMAIN g, g[i] = g[j] PROVE i = j
  <2>0. ASSUME NEW k \in DOMAIN g, k # 1
        PROVE  k - 1 \in DOMAIN f /\ g[k] = f[k - 1] /\ g[k] # t
    <3>1. k \in 2..Len(f) + 1 /\ k - 1 \in DOMAIN f
      BY <1>6, <1>8, <2>0
    <3>2. g[k] = f[k - 1]
      BY <1>7, <3>1
    <3> QED BY <1>11, <3>1, <3>2
  <2>1. CASE i = 1 \/ j = 1
    BY <1>7, <1>12, <2>0, <2>1
  <2>2. CASE i # 1 /\ j # 1
    <3>1. i - 1 \in DOMAIN f /\ j - 1 \in DOMAIN f /\ f[i - 1] = f[j - 1]
      BY <1>12, <2>0, <2>2
    <3>2. i - 1 = j - 1
      BY <1>10, <3>1
    <3> QED BY <1>6, <1>8, <3>2
  <2> QED BY <2>1, <2>2
<1>13. n = [rest EXCEPT !.free = g]
  BY DEF f, g
<1>14. n \in Queues
  BY <1>5, <1>7, <1>13 DEF Queues
<1>15. n.list = rest.list /\ n.free = g /\ n.time = rest.time
  BY <1>5, <1>13 DEF Queues
<1>16. Distinct(n)
  <2>1. On(rest.list) \cap On(f) = {}
    BY <1>3 DEF Good, Distinct, f
  <2>2. On(n.list) \cap On(n.free) = {}
    BY <1>5, <1>9, <1>15, <2>1
  <2>3. \A i, j \in DOMAIN n.list : n.list[i] = n.list[j] => i = j
    BY <1>3, <1>15 DEF Good, Distinct
  <2> QED BY <1>12, <1>15, <2>2, <2>3 DEF Distinct
<1>17. Sorted(n)
  BY <1>3, <1>15 DEF Good, Sorted
<1>18. n.proc = qq.proc /\ n.handle = qq.handle /\ On(n.list) = On(qq.list) \ {t}
  BY <1>3, <1>5, <1>13, <1>15 DEF Queues
<1>19. SameStructs(n, qq)
  <2>1. n.usecs = qq.usecs /\ n.periodic = qq.periodic
    BY <1>5, <1>13 DEF Queues
  <2> QED BY <1>18, <2>1 DEF SameStructs
<1> QED BY <1>1, <1>14, <1>16, <1>17, <1>18, <1>19 DEF Good

\* list_resort puts a timer whose time has changed back in its place.
LEMMA ResortLemma ==
  ASSUME NEW qq, Good(qq), NEW t \in On(qq.list), NEW v \in Nat
  PROVE  LET n == list_resort([qq EXCEPT !.time[t] = v], t) IN
         /\ Good(n) /\ On(n.list) = On(qq.list)
         /\ n.free = qq.free /\ n.proc = qq.proc /\ n.handle = qq.handle
         /\ SameStructs(n, qq)
<1> DEFINE q1 == [qq EXCEPT !.time[t] = v]
           q2 == list_remove(q1, t)
           n == list_add(q2, t)
<1>1. qq \in Queues /\ t \in Timer
  BY ElementOfSeq DEF Good, Queues, On
<1>2. /\ q1 \in Queues /\ q1.list = qq.list /\ q1.free = qq.free
      /\ q1.proc = qq.proc /\ q1.handle = qq.handle
      /\ q1.usecs = qq.usecs /\ q1.periodic = qq.periodic
  BY <1>1 DEF Queues
<1>3. \A x \in On(qq.list) : x # t => q1.time[x] = qq.time[x]
  BY <1>1, ElementOfSeq DEF Queues, On
<1> HIDE DEF q1
<1>4. SortedBut(q1, t)
  <2> SUFFICES ASSUME NEW i \in DOMAIN qq.list, NEW j \in DOMAIN qq.list, i <= j,
                      qq.list[i] # t, qq.list[j] # t
               PROVE  q1.time[qq.list[i]] <= q1.time[qq.list[j]]
    BY <1>2 DEF SortedBut
  <2>1. qq.list[i] \in On(qq.list) /\ qq.list[j] \in On(qq.list)
    BY DEF On
  <2>2. qq.time[qq.list[i]] <= qq.time[qq.list[j]]
    BY DEF Good, Sorted
  <2> QED BY <1>3, <2>1, <2>2
<1>5. Distinct(q1)
  BY <1>2 DEF Good, Distinct
<1>6. /\ Good(q2) /\ On(q2.list) = On(q1.list) \ {t}
      /\ q2 = [q1 EXCEPT !.list = q2.list]
  BY <1>2, <1>4, <1>5, ListRemoveLemma
<1> HIDE DEF q2
<1>7. /\ q2 \in Queues /\ q2.free = qq.free /\ q2.proc = qq.proc /\ q2.handle = qq.handle
      /\ q2.usecs = qq.usecs /\ q2.periodic = qq.periodic
  BY <1>2, <1>6 DEF Good, Queues
<1>8. t \notin On(q2.list) /\ t \notin On(q2.free)
  BY <1>6, <1>7 DEF Good, Distinct
<1>9. /\ Good(n) /\ On(n.list) = On(q2.list) \cup {t}
      /\ n = [q2 EXCEPT !.list = n.list]
  BY <1>1, <1>6, <1>8, ListAddLemma
<1> HIDE DEF n
<1>10. /\ n.free = qq.free /\ n.proc = qq.proc /\ n.handle = qq.handle
       /\ n.usecs = qq.usecs /\ n.periodic = qq.periodic
  BY <1>7, <1>9 DEF Queues
<1>11. On(n.list) = On(qq.list)
  BY <1>2, <1>6, <1>9
<1>12. SameStructs(n, qq)
  BY <1>10, <1>11 DEF SameStructs
<1> QED BY <1>9, <1>10, <1>11, <1>12 DEF list_resort, n, q2, q1

CanCreate(qq) == qq.free # <<>> \/ \E t \in Timer : t \notin On(qq.list)

\* tmr_create takes a struct that is on no active list, schedules it and hands
\* it to its owner.
LEMMA CreateLemma ==
  ASSUME NEW qq, Good(qq), CanCreate(qq),
         NEW at \in Nat, NEW r \in Role, NEW u \in Nat, NEW per \in BOOLEAN
  PROVE  LET n == tmr_create(qq, at, r, u, per)
             t == Fresh(qq)
         IN  /\ Good(n) /\ t \in Timer /\ t \notin On(qq.list)
             /\ On(n.list) = On(qq.list) \cup {t}
             /\ n.proc = [qq.proc EXCEPT ![t] = r]
             /\ n.handle = [qq.handle EXCEPT ![r] = t]
             /\ n.usecs = [qq.usecs EXCEPT ![t] = u]
             /\ n.periodic = [qq.periodic EXCEPT ![t] = per]
<1> DEFINE t == Fresh(qq)
           f == IF qq.free = <<>> THEN qq.free ELSE Tail(qq.free)
           q1 == [list |-> qq.list, free |-> f, time |-> [qq.time EXCEPT ![t] = at + u],
                  usecs |-> [qq.usecs EXCEPT ![t] = u],
                  periodic |-> [qq.periodic EXCEPT ![t] = per],
                  proc |-> [qq.proc EXCEPT ![t] = r], handle |-> [qq.handle EXCEPT ![r] = t]]
           n == list_add(q1, t)
<1>1. qq \in Queues /\ Distinct(qq) /\ Sorted(qq)
  BY DEF Good
<1>2. /\ t \in Timer /\ t \notin On(qq.list)
      /\ f \in Seq(Timer) /\ t \notin On(f) /\ On(f) \subseteq On(qq.free)
      /\ \A i, j \in DOMAIN f : f[i] = f[j] => i = j
  <2>1. CASE qq.free = <<>>
    <3>1. t \in Timer /\ t \notin On(qq.list)
      BY <2>1 DEF CanCreate, Fresh
    <3>2. f = <<>> /\ DOMAIN f = {}
      BY <2>1
    <3> QED BY <2>1, <3>1, <3>2 DEF On
  <2>2. CASE qq.free # <<>>
    <3> DEFINE g == qq.free
    <3>1. g \in Seq(Timer) /\ g # <<>>
      BY <1>1, <2>2 DEF Queues
    <3>2. t = Head(g) /\ f = Tail(g)
      BY <2>2 DEF Fresh
    <3> HIDE DEF g, f, t
    <3>3. Len(g) \in Nat \ {0} /\ DOMAIN g = 1..Len(g) /\ t = g[1]
      BY <3>1, <3>2, EmptySeq, LenProperties
    <3>4. /\ f \in Seq(Timer) /\ Len(f) = Len(g) - 1
          /\ \A i \in 1..Len(f) : f[i] = g[i + 1]
      BY <3>1, <3>2, HeadTailProperties
    <3>5. DOMAIN f = 1..Len(g) - 1
      BY <3>4, LenProperties
    <3>6. \A i \in DOMAIN f : i + 1 \in DOMAIN g /\ i + 1 # 1 /\ f[i] = g[i + 1]
      BY <3>3, <3>4, <3>5
    <3>7. \A i, j \in DOMAIN g : g[i] = g[j] => i = j
      BY <1>1 DEF Distinct, g
    <3>8. 1 \in DOMAIN g
      BY <3>3
    <3>9. ASSUME NEW i \in DOMAIN f, NEW j \in DOMAIN f, f[i] = f[j] PROVE i = j
      <4>1. i + 1 = j + 1
        BY <3>6, <3>7, <3>9
      <4> QED BY <3>3, <3>5, <4>1
    <3>10. \A i \in DOMAIN f : f[i] # t
      BY <3>3, <3>6, <3>7, <3>8
    <3>11. t \in On(g) /\ t \in Timer
      BY <3>1, <3>3, <3>8, ElementOfSeq DEF On
    <3>12. t \notin On(qq.list)
      BY <1>1, <3>11 DEF Distinct, g
    <3>13. t \notin On(f) /\ On(f) \subseteq On(g)
      BY <3>6, <3>10 DEF On
    <3> QED BY <3>4, <3>9, <3>11, <3>12, <3>13 DEF g
  <2> QED BY <2>1, <2>2
<1> HIDE DEF t, f
<1>3. q1 \in Queues
  <2>1. /\ [qq.time EXCEPT ![t] = at + u] \in [Timer -> Nat]
        /\ [qq.usecs EXCEPT ![t] = u] \in [Timer -> Nat]
        /\ [qq.periodic EXCEPT ![t] = per] \in [Timer -> BOOLEAN]
        /\ [qq.proc EXCEPT ![t] = r] \in [Timer -> Role]
        /\ [qq.handle EXCEPT ![r] = t] \in [Role -> Timer \cup {NoTimer}]
    BY <1>1, <1>2 DEF Queues
  <2>3. qq.list \in Seq(Timer)
    BY <1>1 DEF Queues
  <2> QED BY <1>2, <2>1, <2>3 DEF Queues
<1>4. /\ q1.list = qq.list /\ q1.free = f
      /\ q1.proc = [qq.proc EXCEPT ![t] = r] /\ q1.handle = [qq.handle EXCEPT ![r] = t]
      /\ q1.time = [qq.time EXCEPT ![t] = at + u]
      /\ q1.usecs = [qq.usecs EXCEPT ![t] = u]
      /\ q1.periodic = [qq.periodic EXCEPT ![t] = per]
  BY <1>1 DEF Queues
<1> HIDE DEF q1
<1>5. Distinct(q1)
  BY <1>1, <1>2, <1>4 DEF Distinct
<1>6. Sorted(q1)
  <2>1. \A x \in On(qq.list) : q1.time[x] = qq.time[x]
    BY <1>1, <1>2, <1>4, ElementOfSeq DEF Queues, On
  <2> QED BY <1>1, <1>4, <2>1 DEF Sorted, On
<1>7. /\ Good(n) /\ On(n.list) = On(q1.list) \cup {t}
      /\ n = [q1 EXCEPT !.list = n.list]
  <2>1. Good(q1) /\ t \in Timer /\ t \notin On(q1.list) /\ t \notin On(q1.free)
    BY <1>2, <1>3, <1>4, <1>5, <1>6 DEF Good
  <2> QED BY <2>1, ListAddLemma
<1>8. tmr_create(qq, at, r, u, per) = n
  BY DEF tmr_create, t, f, q1
<1> HIDE DEF n
<1>9. /\ n.proc = q1.proc /\ n.handle = q1.handle
      /\ n.usecs = q1.usecs /\ n.periodic = q1.periodic
  BY <1>3, <1>7 DEF Queues
<1> QED BY <1>2, <1>4, <1>7, <1>8, <1>9 DEF t

-----------------------------------------------------------------------------
(* The timers and the pointers to them *)

Core(qq, X) == Good(qq) /\ Linked(qq) /\ Owned(qq, X)

\* The pointers of the test are not those of its streams.
LEMMA RoleLemma ==
  /\ TestRole \subseteq Role /\ Stream \subseteq Role
  /\ \A s \in Stream : s \notin TestRole
  BY TimerAssumption DEF Role

\* if (x != NULL) { tmr_cancel(x); x = NULL; } loses no other timer.
LEMMA CancelHandleLemma ==
  ASSUME NEW qq, NEW X, Core(qq, X), NEW r \in Role, qq.handle[r] \notin X
  PROVE  /\ Core(CancelHandle(qq, r), X)
         /\ CancelHandle(qq, r).handle = [qq.handle EXCEPT ![r] = NoTimer]
         /\ CancelHandle(qq, r).proc = qq.proc
         /\ SameStructs(CancelHandle(qq, r), qq)
         /\ \A t \in On(qq.list) : t # qq.handle[r] => t \in On(CancelHandle(qq, r).list)
<1>1. Good(qq) /\ Linked(qq) /\ Owned(qq, X) /\ qq \in Queues
  BY DEF Core, Good
<1>2. qq.handle \in [Role -> Timer \cup {NoTimer}]
  BY <1>1 DEF Queues
<1>3. CASE qq.handle[r] = NoTimer
  <2>1. qq.handle = [qq.handle EXCEPT ![r] = NoTimer]
    BY <1>2, <1>3
  <2> QED BY <1>3, <2>1 DEF CancelHandle, SameStructs
<1>4. CASE qq.handle[r] # NoTimer
  <2> DEFINE t == qq.handle[r]
             c == tmr_cancel(qq, t)
             n == [c EXCEPT !.handle[r] = NoTimer]
  <2>1. CancelHandle(qq, r) = n
    BY <1>4 DEF CancelHandle
  <2>2. t \in On(qq.list) /\ qq.proc[t] = r
    BY <1>1, <1>4 DEF Linked
  <2>3. /\ Good(c) /\ On(c.list) = On(qq.list) \ {t}
        /\ c.proc = qq.proc /\ c.handle = qq.handle /\ SameStructs(c, qq)
    BY <1>1, <2>2, CancelLemma
  <2> HIDE DEF t, c
  <2>4. /\ n \in Queues /\ n.list = c.list /\ n.free = c.free /\ n.time = c.time
        /\ n.proc = qq.proc /\ n.handle = [qq.handle EXCEPT ![r] = NoTimer]
        /\ n.usecs = c.usecs /\ n.periodic = c.periodic
    BY <2>3 DEF Good, Queues
  <2> HIDE DEF n
  <2>5. Good(n)
    BY <2>3, <2>4 DEF Good, Distinct, Sorted
  <2>6. Linked(n)
    BY <1>1, <1>2, <2>2, <2>3, <2>4 DEF Linked
  <2>7. Owned(n, X)
    <3>1. ASSUME NEW x \in On(n.list) \ X PROVE n.handle[n.proc[x]] = x
      <4>1. x # t /\ qq.handle[qq.proc[x]] = x
        BY <1>1, <2>3, <2>4 DEF Owned
      <4>2. qq.proc[x] # r
        BY <4>1 DEF t
      <4> QED BY <1>2, <2>4, <4>1, <4>2
    <3> QED BY <3>1 DEF Owned
  <2>8. SameStructs(n, qq)
    BY <2>3, <2>4 DEF SameStructs
  <2> QED BY <2>1, <2>3, <2>4, <2>5, <2>6, <2>7, <2>8 DEF Core, t
<1> QED BY <1>3, <1>4

\* cleanup_server and iperf_reset_test leave only the streams' timers.
LEMMA CancelAllLemma ==
  ASSUME NEW qq, Core(qq, {})
  PROVE  /\ Core(CancelAll(qq), {})
         /\ \A r \in TestRole : CancelAll(qq).handle[r] = NoTimer
         /\ \A s \in Stream : CancelAll(qq).handle[s] = qq.handle[s]
         /\ SameStructs(CancelAll(qq), qq)
<1>c. ASSUME NEW x, Core(x, {}), NEW r \in Role
      PROVE  /\ Core(CancelHandle(x, r), {}) /\ SameStructs(CancelHandle(x, r), x)
             /\ CancelHandle(x, r).handle = [x.handle EXCEPT ![r] = NoTimer]
  BY <1>c, CancelHandleLemma
<1> DEFINE a == CancelHandle(qq, "stats")
           b == CancelHandle(a, "reporter")
           c == CancelHandle(b, "omit")
           d == CancelHandle(c, "timer")
<1>0. {"stats", "reporter", "omit", "timer"} \subseteq Role
  BY DEF Role, TestRole
<1>1. Core(a, {}) /\ a.handle = [qq.handle EXCEPT !["stats"] = NoTimer] /\ SameStructs(a, qq)
  BY <1>0, <1>c
<1> HIDE DEF a
<1>2. Core(b, {}) /\ b.handle = [a.handle EXCEPT !["reporter"] = NoTimer] /\ SameStructs(b, a)
  BY <1>0, <1>1, <1>c
<1> HIDE DEF b
<1>3. Core(c, {}) /\ c.handle = [b.handle EXCEPT !["omit"] = NoTimer] /\ SameStructs(c, b)
  BY <1>0, <1>2, <1>c
<1> HIDE DEF c
<1>4. Core(d, {}) /\ d.handle = [c.handle EXCEPT !["timer"] = NoTimer] /\ SameStructs(d, c)
  BY <1>0, <1>3, <1>c
<1> HIDE DEF d
<1>5. qq.handle \in [Role -> Timer \cup {NoTimer}]
  BY DEF Core, Good, Queues
<1>6. d.handle = [r \in Role |-> IF r \in TestRole THEN NoTimer ELSE qq.handle[r]]
  BY <1>0, <1>1, <1>2, <1>3, <1>4, <1>5 DEF TestRole
<1>7. d = CancelAll(qq)
  BY DEF CancelAll, a, b, c, d
<1>8. SameStructs(d, qq)
  BY <1>1, <1>2, <1>3, <1>4, SameStructsTransitive
<1> QED BY <1>4, <1>6, <1>7, <1>8, RoleLemma

\* tmr_run cancels the timer whose proc has cleared the pointer to it.
LEMMA ReleaseLemma ==
  ASSUME NEW qq, NEW t \in On(qq.list), Core(qq, {t}), \A r \in Role : qq.handle[r] # t
  PROVE  /\ Core(tmr_cancel(qq, t), {})
         /\ tmr_cancel(qq, t).handle = qq.handle
<1> DEFINE n == tmr_cancel(qq, t)
<1>1. Good(qq) /\ Linked(qq) /\ Owned(qq, {t})
  BY DEF Core
<1>2. /\ Good(n) /\ On(n.list) = On(qq.list) \ {t}
      /\ n.proc = qq.proc /\ n.handle = qq.handle
  BY <1>1, CancelLemma
<1> HIDE DEF n
<1>3. Linked(n)
  BY <1>1, <1>2 DEF Linked
<1>4. Owned(n, {})
  BY <1>1, <1>2 DEF Owned
<1> QED BY <1>2, <1>3, <1>4 DEF Core, n

\* tmr_reset moves a timer in the list and changes no pointer.
LEMMA ResetHandleLemma ==
  ASSUME NEW qq, NEW X, Core(qq, X), NEW at \in Nat, NEW r \in Role
  PROVE  LET n == ResetHandle(qq, at, r) IN
         /\ Core(n, X) /\ n.handle = qq.handle /\ On(n.list) = On(qq.list) /\ n.proc = qq.proc
         /\ SameStructs(n, qq)
<1>1. CASE qq.handle[r] = NoTimer
  BY <1>1 DEF ResetHandle, SameStructs
<1>2. CASE qq.handle[r] # NoTimer
  <2> DEFINE t == qq.handle[r]
             v == at + qq.usecs[t]
             n == list_resort([qq EXCEPT !.time[t] = v], t)
  <2>1. ResetHandle(qq, at, r) = n
    BY <1>2 DEF ResetHandle, tmr_reset
  <2>2. t \in On(qq.list) /\ qq \in Queues
    BY <1>2 DEF Core, Good, Linked
  <2>3. t \in Timer
    BY <1>2, <2>2 DEF Queues
  <2>4. v \in Nat
    BY <2>2, <2>3 DEF Queues
  <2> HIDE DEF v
  <2>5. /\ Good(n) /\ On(n.list) = On(qq.list)
        /\ n.proc = qq.proc /\ n.handle = qq.handle /\ SameStructs(n, qq)
    BY <2>2, <2>4, ResortLemma DEF Core
  <2> HIDE DEF n
  <2>6. Linked(n) /\ Owned(n, X)
    BY <2>5 DEF Core, Linked, Owned
  <2> QED BY <2>1, <2>5, <2>6 DEF Core
<1> QED BY <1>1, <1>2

\* A new timer is known to its owner, and to nobody else.
LEMMA CreateHandleLemma ==
  ASSUME NEW qq, Core(qq, {}), CanCreate(qq), NEW r \in Role, qq.handle[r] = NoTimer,
         NEW at \in Nat, NEW u \in Nat, NEW per \in BOOLEAN
  PROVE  LET n == tmr_create(qq, at, r, u, per) IN
         /\ Core(n, {}) /\ n.handle = [qq.handle EXCEPT ![r] = Fresh(qq)]
         /\ KindsFit(qq) /\ u = Usecs(r) /\ per = Periodic(r) => KindsFit(n)
<1> DEFINE n == tmr_create(qq, at, r, u, per)
           t == Fresh(qq)
<1>1. Good(qq) /\ Linked(qq) /\ Owned(qq, {}) /\ qq \in Queues
  BY DEF Core, Good
<1>2. /\ Good(n) /\ t \in Timer /\ t \notin On(qq.list)
      /\ On(n.list) = On(qq.list) \cup {t}
      /\ n.proc = [qq.proc EXCEPT ![t] = r]
      /\ n.handle = [qq.handle EXCEPT ![r] = t]
      /\ n.usecs = [qq.usecs EXCEPT ![t] = u] /\ n.periodic = [qq.periodic EXCEPT ![t] = per]
  BY <1>1, CreateLemma, SMTT(30)
<1> HIDE DEF n, t
<1>3. qq.handle \in [Role -> Timer \cup {NoTimer}] /\ qq.proc \in [Timer -> Role]
  BY <1>1 DEF Queues
<1>4. On(qq.list) \subseteq Timer
  BY <1>1, ElementOfSeq DEF On, Queues
<1>5. Linked(n)
  BY <1>1, <1>2, <1>3, <1>4 DEF Linked
<1>6. Owned(n, {})
  <2>1. ASSUME NEW x \in On(n.list) PROVE n.handle[n.proc[x]] = x
    <3>1. CASE x = t
      BY <1>2, <1>3, <3>1
    <3>2. CASE x # t
      <4>1. x \in On(qq.list) /\ n.proc[x] = qq.proc[x] /\ qq.handle[qq.proc[x]] = x
        BY <1>1, <1>2, <1>3, <1>4, <3>2 DEF Owned
      <4>2. qq.proc[x] # r /\ qq.proc[x] \in Role
        BY <1>3, <1>4, <4>1, TimerAssumption
      <4> QED BY <1>2, <1>3, <4>1, <4>2
    <3> QED BY <3>1, <3>2
  <2> QED BY <2>1 DEF Owned
<1>7. ASSUME KindsFit(qq), u = Usecs(r), per = Periodic(r) PROVE KindsFit(n)
  <2>0. qq.usecs \in [Timer -> Nat] /\ qq.periodic \in [Timer -> BOOLEAN]
    BY <1>1 DEF Queues
  <2>1. n.proc[t] = r /\ n.usecs[t] = u /\ n.periodic[t] = per
    BY <1>2, <1>3, <2>0
  <2>2. ASSUME NEW x \in On(qq.list)
        PROVE  /\ n.proc[x] = qq.proc[x] /\ n.usecs[x] = qq.usecs[x]
               /\ n.periodic[x] = qq.periodic[x]
    BY <1>2, <1>3, <1>4, <2>0
  <2> QED BY <1>2, <1>7, <2>1, <2>2 DEF KindsFit
<1> QED BY <1>2, <1>5, <1>6, <1>7 DEF Core, n, t

-----------------------------------------------------------------------------
(* The invariant *)

\* The pointers of the timers that are still to be created are NULL.
NotYetCreated ==
  /\ pc = "timer" => \A r \in TestRole : q.handle[r] = NoTimer
  /\ pc = "stats" => \A r \in {"stats", "reporter", "omit"} : q.handle[r] = NoTimer
  /\ pc = "reporter" => \A r \in {"reporter", "omit"} : q.handle[r] = NoTimer
  /\ pc = "omit" => q.handle["omit"] = NoTimer

\* While server_timer_proc frees the streams, its own timer is scheduled and
\* nobody points to it.
TimerIsRunning ==
  pc = "freeing" =>
    /\ cur \in On(q.list) /\ q.proc[cur] = "timer"
    /\ q.handle["timer"] = NoTimer

IInv ==
  /\ Typed /\ ListIsSorted /\ HandlesAreScheduled
  /\ NothingScheduledBetweenTests /\ NotYetCreated /\ TimerIsRunning

Excepted == IF pc = "freeing" THEN {cur} ELSE {}

\* The invariant in the form the lemmas on timer.c are stated in ...
LEMMA IInvIsCore ==
  IInv => Core(q, Excepted)
  BY DEF IInv, Typed, ListIsSorted, HandlesAreScheduled, Core, Good, Excepted

\* ... and back.
LEMMA CoreIsIInv ==
  ASSUME Typed', Core(q', Excepted'), NothingScheduledBetweenTests', NotYetCreated',
         TimerIsRunning'
  PROVE  IInv'
  BY DEF IInv, ListIsSorted, HandlesAreScheduled, Core, Good, Excepted

\* Intervals are natural numbers.
LEMMA UsecsLemma ==
  \A r \in Role : Usecs(r) \in Nat /\ Periodic(r) \in BOOLEAN
  BY SettingsAssumption, SideAssumption DEF Usecs, Periodic

\* t->next is a timer or NULL.
LEMMA NextOfLemma ==
  ASSUME NEW qq \in Queues, NEW t \in On(qq.list)
  PROVE  NextOf(qq, t) \in Timer \cup {NoTimer}
<1> DEFINE l == qq.list
           i == CHOOSE i \in DOMAIN l : l[i] = t
<1>1. l \in Seq(Timer) /\ i \in DOMAIN l
  BY DEF Queues, On
<1>2. NextOf(qq, t) = IF i = Len(l) THEN NoTimer ELSE l[i + 1]
  BY DEF NextOf
<1> HIDE DEF i, l
<1>3. Len(l) \in Nat /\ i \in 1..Len(l)
  BY <1>1, LenProperties
<1>4. i # Len(l) => i + 1 \in 1..Len(l)
  BY <1>3
<1> QED BY <1>1, <1>2, <1>4, ElementOfSeq

\* With no pointer left, nothing is scheduled.
LEMMA EmptyLemma ==
  ASSUME NEW qq, Core(qq, {}), \A r \in Role : qq.handle[r] = NoTimer
  PROVE  qq.list = <<>>
<1>1. qq.list \in Seq(Timer) /\ qq.proc \in [Timer -> Role]
  BY DEF Core, Good, Queues
<1>2. On(qq.list) = {}
  <2>1. ASSUME NEW t \in On(qq.list) PROVE FALSE
    <3>1. t \in Timer
      BY <1>1, ElementOfSeq DEF On
    <3>2. qq.handle[qq.proc[t]] = t
      BY DEF Core, Owned
    <3> QED BY <1>1, <3>1, <3>2, TimerAssumption
  <2> QED BY <2>1
<1>3. Len(qq.list) = 0
  <2>1. ASSUME Len(qq.list) # 0 PROVE FALSE
    <3>1. 1 \in DOMAIN qq.list
      BY <1>1, <2>1, LenProperties
    <3> QED BY <1>2, <3>1 DEF On
  <2> QED BY <2>1
<1> QED BY <1>1, <1>3, EmptySeq

\* A proc that clears the pointer to its own timer.
LEMMA ClearHandleLemma ==
  ASSUME IInv, NEW r \in TestRole, NEW t \in On(q.list), q.proc[t] = r, pc = "run"
  PROVE  LET q1 == [q EXCEPT !.handle[r] = NoTimer] IN
         /\ Core(q1, {t}) /\ On(q1.list) = On(q.list) /\ q1.proc = q.proc
         /\ q1.handle = [q.handle EXCEPT ![r] = NoTimer]
         /\ \A x \in Role : q1.handle[x] # t
<1>c. Core(q, Excepted)
  BY IInvIsCore
<1>t. Typed /\ q \in Queues
  BY DEF IInv, Typed
<1>h. q.handle \in [Role -> Timer \cup {NoTimer}] /\ q.proc \in [Timer -> Role] /\ On(q.list) \subseteq Timer
  BY <1>t, ElementOfSeq DEF Queues, On
<1> DEFINE q1 == [q EXCEPT !.handle[r] = NoTimer]
<1>1. /\ q1 \in Queues /\ q1.list = q.list /\ q1.free = q.free /\ q1.time = q.time
      /\ q1.proc = q.proc /\ q1.handle = [q.handle EXCEPT ![r] = NoTimer]
  BY <1>t, <1>h DEF Queues
<1> HIDE DEF q1
<1>2. Core(q, {}) /\ r \in Role
  BY <1>c, RoleLemma DEF Excepted
<1>3. q.handle[r] = t
  BY <1>2 DEF Core, Owned
<1>4. \A x \in Role : q1.handle[x] # t
  BY <1>h, <1>1, <1>2, TimerAssumption DEF Core, Linked
<1>5. Good(q1)
  BY <1>1, <1>2 DEF Core, Good, Distinct, Sorted
<1>6. Linked(q1)
  BY <1>h, <1>1, <1>2 DEF Core, Linked
<1>7. Owned(q1, {t})
  BY <1>h, <1>1, <1>2, <1>3 DEF Core, Owned
<1> QED BY <1>1, <1>4, <1>5, <1>6, <1>7 DEF Core, q1

\* A process starts with empty lists and NULL pointers, which is as the
\* invariant says.
THEOREM InitIInv ==
  Init => IInv
<1> SUFFICES ASSUME Init PROVE IInv
  OBVIOUS
<1>1. "timer" \in Role
  BY DEF Role, TestRole
<1>2. Typed
  <2>1. /\ <<>> \in Seq(Timer) /\ [t \in Timer |-> 0] \in [Timer -> Nat]
        /\ [t \in Timer |-> FALSE] \in [Timer -> BOOLEAN]
        /\ [t \in Timer |-> "timer"] \in [Timer -> Role]
        /\ [r \in Role |-> NoTimer] \in [Role -> Timer \cup {NoTimer}]
    BY <1>1
  <2>2. q \in Queues
    BY <2>1 DEF Init, Queues
  <2> QED BY <2>2 DEF Init, Typed
<1>3. q.list = <<>> /\ q.free = <<>> /\ \A r \in Role : q.handle[r] = NoTimer
  BY DEF Init
<1>4. Distinct(q) /\ Sorted(q) /\ Linked(q) /\ \A X : Owned(q, X)
  BY <1>3 DEF Distinct, Sorted, Linked, Owned, On
<1> QED BY <1>2, <1>3, <1>4 DEF Init, IInv, ListIsSorted, HandlesAreScheduled,
        NothingScheduledBetweenTests, NotYetCreated, TimerIsRunning

\* Every timer operation, callback, test end and reset preserves the invariant.
THEOREM NextIInv ==
  IInv /\ [Next]_vars => IInv'
<1> SUFFICES ASSUME IInv, [Next]_vars PROVE IInv'
  OBVIOUS
<1>c. Core(q, Excepted)
  BY IInvIsCore
<1>t. Typed /\ q \in Queues
  BY DEF IInv, Typed
<1>r. TestRole \subseteq Role /\ Stream \subseteq Role /\ \A s \in Stream : s \notin TestRole
  BY RoleLemma
<1>h. q.handle \in [Role -> Timer \cup {NoTimer}] /\ q.proc \in [Timer -> Role] /\ On(q.list) \subseteq Timer
  BY <1>t, ElementOfSeq DEF Queues, On
<1>1. CASE CreateTimers
  <2>1. q.list = <<>> /\ Excepted = {} /\ Excepted' = {}
    BY <1>1 DEF CreateTimers, IInv, NothingScheduledBetweenTests, Excepted
  <2>2. /\ q' \in Queues /\ q'.list = q.list /\ q'.free = q.free /\ q'.time = q.time
        /\ \A r \in Role : q'.handle[r] \in {NoTimer, q.handle[r]}
    BY <1>1, <1>t, <1>h DEF CreateTimers, Queues
  <2>3. \A r \in Role : q.handle[r] = NoTimer
    BY <1>c, <2>1 DEF Core, Linked, On
  <2>4. \A r \in Role : q'.handle[r] = NoTimer
    BY <2>2, <2>3
  <2>5. Core(q', {})
    BY <1>c, <2>1, <2>2, <2>4 DEF Core, Good, Distinct, Sorted, Linked, Owned, On
  <2>6. Typed'
    BY <1>1, <1>t, <2>2 DEF CreateTimers, Typed, TestRole
  <2> QED BY <1>1, <1>r, <2>1, <2>4, <2>5, <2>6, CoreIsIInv DEF CreateTimers, TestRole,
          NothingScheduledBetweenTests, NotYetCreated, TimerIsRunning
<1>2. ASSUME NEW r \in TestRole, CreateTimer(r) PROVE IInv'
  <2>1. pc = r /\ pc' = After[r] /\ Excepted = {}
    BY <1>2 DEF CreateTimer, Excepted, TestRole
  <2>2. Excepted' = {}
    BY <2>1 DEF Excepted, After, TestRole
  <2>3. r \in Role /\ q.handle[r] = NoTimer
    BY <1>r, <2>1 DEF IInv, NotYetCreated, TestRole
  <2>4. /\ Core(q', {})
        /\ \A x \in Role : x # r => q'.handle[x] = q.handle[x]
    <3>1. CASE Wanted(r)
      <4> DEFINE at == IF r = "omit" THEN clock ELSE now
      <4>1. CanCreate(q) /\ q' = tmr_create(q, at, r, Usecs(r), Periodic(r))
        BY <1>2, <3>1 DEF CreateTimer, CanCreate
      <4>2. at \in Nat /\ Usecs(r) \in Nat /\ Periodic(r) \in BOOLEAN
        BY <1>t, <2>3, UsecsLemma DEF Typed
      <4> HIDE DEF at
      <4>3. Core(q', {}) /\ q'.handle = [q.handle EXCEPT ![r] = Fresh(q)]
        BY <1>c, <2>1, <2>3, <4>1, <4>2, CreateHandleLemma
      <4> QED BY <1>h, <4>3
    <3>2. CASE ~ Wanted(r)
      <4>1. q' = [q EXCEPT !.handle[r] = NoTimer]
        BY <1>2, <3>2 DEF CreateTimer
      <4>2. q' = q
        BY <1>t, <1>h, <2>3, <4>1 DEF Queues
      <4> QED BY <1>c, <2>1, <4>2
    <3> QED BY <3>1, <3>2
  <2>5. Typed'
    <3>1. q' \in Queues
      BY <2>4 DEF Core, Good
    <3>2. Wanted(r) \in BOOLEAN
      BY DEF Wanted
    <3>3. omitting' \in BOOLEAN /\ UNCHANGED <<clock, cur, nxt, now, done>>
      BY <1>2, <1>t, <3>2 DEF CreateTimer, Typed
    <3>4. pc' \in {"stats", "reporter", "omit", "send"}
      BY <2>1 DEF After, TestRole
    <3> QED BY <1>t, <3>1, <3>3, <3>4 DEF Typed, TestRole
  <2>6. NotYetCreated'
    <3>1. pc' = After[pc] /\ pc \in TestRole
      BY <2>1
    <3>2. \A x \in TestRole : x # pc => q'.handle[x] = q.handle[x]
      BY <1>r, <2>1, <2>4
    <3> QED BY <3>1, <3>2 DEF IInv, NotYetCreated, After, TestRole
  <2> QED BY <2>1, <2>2, <2>4, <2>5, <2>6, CoreIsIInv
          DEF After, TestRole, NothingScheduledBetweenTests, TimerIsRunning
<1>3. ASSUME NEW s \in Stream, CreateSendTimer(s) PROVE IInv'
  <2>1. /\ pc = "send" /\ UNCHANGED <<clock, pc, cur, nxt, now, done, omitting>>
        /\ q.handle[s] = NoTimer /\ CanCreate(q) /\ Excepted = {} /\ Excepted' = {}
        /\ q' = tmr_create(q, clock, s, Usecs(s), Periodic(s))
    BY <1>3 DEF CreateSendTimer, CanCreate, Excepted
  <2>2. s \in Role /\ clock \in Nat /\ Usecs(s) \in Nat /\ Periodic(s) \in BOOLEAN
    BY <1>t, <1>r, UsecsLemma DEF Typed
  <2>3. Core(q', {})
    BY <1>c, <2>1, <2>2, CreateHandleLemma
  <2>4. Typed'
    BY <1>t, <2>1, <2>3 DEF Typed, Core, Good
  <2> QED BY <2>1, <2>3, <2>4, CoreIsIInv
          DEF NothingScheduledBetweenTests, NotYetCreated, TimerIsRunning
<1>4. CASE CreateFails \/ StartLoop \/ TestOver \/ Tick
  <2>1. /\ q' = q /\ cur' = cur
        /\ pc' \in {pc, "exit", "fail", "loop"}
    BY <1>4 DEF CreateFails, StartLoop, TestOver, Tick
  <2>2. pc = "freeing" => pc' = pc
    BY <1>4 DEF CreateFails, StartLoop, TestOver, Tick, TestRole
  <2>3. Excepted' = Excepted
    BY <2>1, <2>2 DEF Excepted
  <2>4. Typed'
    <3>1. /\ clock' \in Nat /\ done' \in BOOLEAN /\ omitting' \in BOOLEAN
          /\ UNCHANGED <<nxt, now>>
      <4>1. CASE CreateFails
        BY <1>t, <4>1 DEF CreateFails, Typed
      <4>2. CASE StartLoop
        BY <1>t, <4>2 DEF StartLoop, Typed
      <4>3. CASE TestOver
        BY <1>t, <4>3 DEF TestOver, Typed
      <4>4. CASE Tick
        BY <1>t, <4>4 DEF Tick, Typed
      <4> QED BY <1>4, <4>1, <4>2, <4>3, <4>4
    <3>2. pc' \in {pc, "exit", "fail", "loop"} /\ q' = q /\ cur' = cur
      BY <2>1
    <3> QED BY <1>t, <3>1, <3>2 DEF Typed
  <2>5. NothingScheduledBetweenTests' /\ NotYetCreated' /\ TimerIsRunning'
    BY <2>1 DEF IInv, NothingScheduledBetweenTests, NotYetCreated, TimerIsRunning
  <2> QED BY <1>c, <2>1, <2>3, <2>4, <2>5, CoreIsIInv
<1>5. CASE RunBegin \/ RunEnd \/ RunCancelled
  <2>1. /\ q' = q /\ pc \in {"loop", "run"} /\ pc' \in {"loop", "run", "undefined"}
    BY <1>5 DEF RunBegin, RunEnd, RunCancelled, Due
  <2>2. cur' \in Timer \cup {NoTimer}
    <3>1. q.list # <<>> => Head(q.list) \in Timer
      BY <1>t, HeadTailProperties DEF Queues
    <3> QED BY <1>5, <1>t, <3>1 DEF RunBegin, RunEnd, RunCancelled, Typed
  <2>3. Typed'
    BY <1>5, <1>t, <2>1, <2>2 DEF RunBegin, RunEnd, RunCancelled, Typed
  <2> QED BY <1>c, <2>1, <2>3, CoreIsIInv
          DEF Excepted, NothingScheduledBetweenTests, NotYetCreated, TimerIsRunning
<1>6. CASE RunPeriodic
  <2>1. /\ pc = "run" /\ cur \in On(q.list) /\ Excepted = {} /\ Excepted' = {}
        /\ UNCHANGED <<clock, pc, nxt, now, done, omitting>> /\ cur' = NextOf(q, cur)
        /\ q' = list_resort([q EXCEPT !.time[cur] = q.time[cur] + q.usecs[cur]], cur)
    BY <1>6 DEF RunPeriodic, Due, Excepted
  <2>2. q.time[cur] + q.usecs[cur] \in Nat
    BY <1>t, <1>h, <2>1 DEF Queues
  <2>3. /\ Good(q') /\ On(q'.list) = On(q.list)
        /\ q'.proc = q.proc /\ q'.handle = q.handle
    BY <1>c, <2>1, <2>2, ResortLemma DEF Core
  <2>4. Core(q', {})
    BY <1>c, <2>1, <2>3 DEF Core, Linked, Owned
  <2>5. Typed'
    BY <1>t, <2>1, <2>3, NextOfLemma DEF Typed, Good
  <2> QED BY <2>1, <2>4, <2>5, CoreIsIInv
          DEF NothingScheduledBetweenTests, NotYetCreated, TimerIsRunning
<1>d. ASSUME NEW r \in TestRole, NEW t \in On(q.list), q.proc[t] = r, pc = "run"
      PROVE  LET q1 == [q EXCEPT !.handle[r] = NoTimer] IN
             /\ Core(q1, {t}) /\ On(q1.list) = On(q.list) /\ q1.proc = q.proc
             /\ q1.handle = [q.handle EXCEPT ![r] = NoTimer]
             /\ \A x \in Role : q1.handle[x] # t
  BY <1>d, ClearHandleLemma
<1>7. CASE RunOmit
  <2> DEFINE q1 == [q EXCEPT !.handle["omit"] = NoTimer]
             q2 == ResetHandle(q1, now, "stats")
             q3 == ResetHandle(q2, now, "reporter")
  <2>1. /\ pc = "run" /\ cur \in On(q.list) /\ q.proc[cur] = "omit"
        /\ UNCHANGED <<clock, pc, nxt, now, done>> /\ omitting' = FALSE
        /\ cur' = NextOf(q, cur) /\ q' = tmr_cancel(q3, cur)
    BY <1>7 DEF RunOmit, Due
  <2>2. "omit" \in TestRole /\ "stats" \in Role /\ "reporter" \in Role /\ now \in Nat
    BY <1>t DEF TestRole, Role, Typed
  <2>3. Core(q1, {cur}) /\ On(q1.list) = On(q.list) /\ \A x \in Role : q1.handle[x] # cur
    BY <1>d, <2>1, <2>2
  <2> HIDE DEF q1
  <2>4. Core(q2, {cur}) /\ On(q2.list) = On(q1.list) /\ q2.handle = q1.handle
    BY <2>2, <2>3, ResetHandleLemma
  <2> HIDE DEF q2
  <2>5. Core(q3, {cur}) /\ On(q3.list) = On(q2.list) /\ q3.handle = q2.handle
    BY <2>2, <2>4, ResetHandleLemma
  <2> HIDE DEF q3
  <2>6. Core(q', {})
    BY <2>1, <2>3, <2>4, <2>5, ReleaseLemma
  <2>7. Typed'
    BY <1>t, <2>1, <2>6, NextOfLemma DEF Typed, Core, Good
  <2>8. Excepted' = {}
    BY <2>1 DEF Excepted
  <2> QED BY <2>1, <2>6, <2>7, <2>8, CoreIsIInv
          DEF NothingScheduledBetweenTests, NotYetCreated, TimerIsRunning
<1>8. CASE RunTestTimer
  <2> DEFINE q1 == [q EXCEPT !.handle["timer"] = NoTimer]
  <2>1. /\ pc = "run" /\ cur \in On(q.list) /\ q.proc[cur] = "timer"
        /\ UNCHANGED <<clock, pc, nxt, now, omitting>> /\ done' = TRUE
        /\ cur' = NextOf(q, cur) /\ q' = tmr_cancel(q1, cur)
    BY <1>8 DEF RunTestTimer, Due
  <2>2. "timer" \in TestRole
    BY DEF TestRole
  <2>3. Core(q1, {cur}) /\ On(q1.list) = On(q.list) /\ \A x \in Role : q1.handle[x] # cur
    BY <1>d, <2>1, <2>2
  <2> HIDE DEF q1
  <2>4. Core(q', {})
    BY <2>1, <2>3, ReleaseLemma
  <2>5. Typed'
    BY <1>t, <2>1, <2>4, NextOfLemma DEF Typed, Core, Good
  <2>6. Excepted' = {}
    BY <2>1 DEF Excepted
  <2> QED BY <2>1, <2>4, <2>5, <2>6, CoreIsIInv
          DEF NothingScheduledBetweenTests, NotYetCreated, TimerIsRunning
<1>9. CASE RunServerTimer
  <2>1. /\ pc = "run" /\ cur \in On(q.list) /\ q.proc[cur] = "timer" /\ cur' = cur
        /\ UNCHANGED <<clock, now, omitting>> /\ done' = TRUE
        /\ pc' = "freeing" /\ nxt' = NextOf(q, cur)
        /\ q' = [q EXCEPT !.handle["timer"] = NoTimer]
    BY <1>9 DEF RunServerTimer, Due
  <2>2. "timer" \in TestRole /\ "timer" \in Role
    BY DEF TestRole, Role
  <2>3. /\ Core(q', {cur}) /\ On(q'.list) = On(q.list) /\ q'.proc = q.proc
        /\ q'.handle = [q.handle EXCEPT !["timer"] = NoTimer]
    BY <1>d, <2>1, <2>2
  <2>4. q'.handle["timer"] = NoTimer
    BY <1>h, <2>2, <2>3
  <2>5. Typed'
    BY <1>t, <2>1, <2>3, NextOfLemma DEF Typed, Core, Good
  <2>6. Excepted' = {cur}
    BY <2>1 DEF Excepted
  <2> QED BY <2>1, <2>3, <2>4, <2>5, <2>6, CoreIsIInv
          DEF NothingScheduledBetweenTests, NotYetCreated, TimerIsRunning
<1>10. ASSUME NEW s \in Stream, FreeStream(s) PROVE IInv'
  <2>1. /\ pc \in {"freeing", "cleanup"} /\ q' = CancelHandle(q, s)
        /\ UNCHANGED <<clock, pc, cur, nxt, now, done, omitting>>
    BY <1>10 DEF FreeStream
  <2>2. s \in Role /\ s # "timer" /\ Excepted' = Excepted
    BY <1>r, <2>1 DEF Excepted, TestRole
  <2>3. q.handle[s] \notin Excepted
    BY <1>c, <1>10, <2>1, <2>2 DEF FreeStream, Excepted, IInv, TimerIsRunning, Core, Linked
  <2>4. /\ Core(q', Excepted) /\ q'.handle = [q.handle EXCEPT ![s] = NoTimer]
        /\ q'.proc = q.proc
        /\ \A t \in On(q.list) : t # q.handle[s] => t \in On(q'.list)
    BY <1>c, <2>1, <2>2, <2>3, CancelHandleLemma
  <2>5. Typed'
    BY <1>t, <2>1, <2>4 DEF Typed, Core, Good
  <2>6. TimerIsRunning'
    <3>1. ASSUME pc = "freeing" PROVE cur \in On(q'.list) /\ q'.proc[cur] = "timer" /\ q'.handle["timer"] = NoTimer
      <4>1. cur \in On(q.list) /\ q.proc[cur] = "timer" /\ q.handle["timer"] = NoTimer
        BY <3>1 DEF IInv, TimerIsRunning
      <4>2. cur # q.handle[s]
        BY <2>3, <3>1 DEF Excepted
      <4>3. q'.handle["timer"] = NoTimer
        BY <1>h, <1>r, <2>2, <2>4, <4>1 DEF TestRole
      <4> QED BY <2>4, <4>1, <4>2, <4>3
    <3> QED BY <2>1, <3>1 DEF TimerIsRunning
  <2> QED BY <2>1, <2>2, <2>4, <2>5, <2>6, CoreIsIInv
          DEF NothingScheduledBetweenTests, NotYetCreated
<1>11. CASE ServerTimerReturn
  <2>1. /\ pc = "freeing" /\ pc' = "run" /\ q' = tmr_cancel(q, cur) /\ cur' = nxt
        /\ nxt' = NoTimer /\ UNCHANGED <<clock, now, done, omitting>>
        /\ \A s \in Stream : q.handle[s] = NoTimer
    BY <1>11 DEF ServerTimerReturn
  <2>2. /\ cur \in On(q.list) /\ q.proc[cur] = "timer" /\ q.handle["timer"] = NoTimer
        /\ Excepted = {cur} /\ Excepted' = {}
    BY <2>1 DEF IInv, TimerIsRunning, Excepted
  <2>3. \A r \in Role : q.handle[r] # cur
    BY <1>c, <1>h, <2>2, TimerAssumption DEF Core, Linked
  <2>4. Core(q', {})
    BY <1>c, <2>1, <2>2, <2>3, ReleaseLemma
  <2>5. Typed'
    BY <1>t, <2>1, <2>4 DEF Typed, Core, Good
  <2> QED BY <2>1, <2>2, <2>4, <2>5, CoreIsIInv
          DEF NothingScheduledBetweenTests, NotYetCreated, TimerIsRunning
<1>12. CASE EndTest
  <2>1. /\ pc \in {"loop", "fail"} /\ pc' = "cleanup" /\ q' \in {q, CancelAll(q)}
        /\ UNCHANGED <<clock, cur, nxt, now, done, omitting>>
    BY <1>12 DEF EndTest
  <2>2. Excepted = {} /\ Excepted' = {}
    BY <2>1 DEF Excepted
  <2>3. Core(q', {})
    BY <1>c, <2>1, <2>2, CancelAllLemma
  <2>4. Typed'
    BY <1>t, <2>1, <2>3 DEF Typed, Core, Good
  <2> QED BY <2>1, <2>2, <2>3, <2>4, CoreIsIInv
          DEF NothingScheduledBetweenTests, NotYetCreated, TimerIsRunning
<1>13. CASE ResetTest
  <2>1. /\ pc = "cleanup" /\ pc' \in {"idle", "freed"} /\ q' = CancelAll(q) /\ done' = FALSE
        /\ UNCHANGED <<clock, cur, nxt, now, omitting>>
        /\ \A s \in Stream : q.handle[s] = NoTimer
    BY <1>13 DEF ResetTest
  <2>2. Excepted = {} /\ Excepted' = {}
    BY <2>1 DEF Excepted
  <2>3. /\ Core(q', {}) /\ \A r \in TestRole : q'.handle[r] = NoTimer
        /\ \A s \in Stream : q'.handle[s] = q.handle[s]
    BY <1>c, <2>1, <2>2, CancelAllLemma
  <2>4. q'.list = <<>>
    BY <2>1, <2>3, EmptyLemma DEF Role
  <2>5. Typed'
    BY <1>t, <2>1, <2>3 DEF Typed, Core, Good
  <2> QED BY <2>1, <2>2, <2>3, <2>4, <2>5, CoreIsIInv
          DEF NothingScheduledBetweenTests, NotYetCreated, TimerIsRunning
<1>14. CASE UNCHANGED vars
  BY <1>14 DEF vars, IInv, Typed, ListIsSorted, HandlesAreScheduled,
     NothingScheduledBetweenTests, NotYetCreated, TimerIsRunning
<1> QED
  BY <1>1, <1>2, <1>3, <1>4, <1>5, <1>6, <1>7, <1>8, <1>9, <1>10, <1>11, <1>12, <1>13, <1>14
  DEF Next, Run

-----------------------------------------------------------------------------
(* The structs *)

LEMMA SameStructsFit ==
  ASSUME NEW n, NEW qq, KindsFit(qq), SameStructs(n, qq)
  PROVE  KindsFit(n)
  BY DEF KindsFit, SameStructs

\* Every step leaves each scheduled timer the interval and the periodicity of
\* its proc, whatever its struct was last used for.
LEMMA NextFits ==
  ASSUME IInv, KindsFit(q), [Next]_vars
  PROVE  KindsFit(q')
<1>c. Core(q, Excepted) /\ Good(q)
  BY IInvIsCore DEF Core
<1>t. Typed /\ q \in Queues
  BY DEF IInv, Typed
<1>h. q.proc \in [Timer -> Role] /\ On(q.list) \subseteq Timer
  BY <1>t, ElementOfSeq DEF Queues, On
<1>p. ASSUME NEW f PROVE SameStructs([q EXCEPT !.handle = f], q)
  BY <1>t DEF Queues, SameStructs
<1>1. CASE CreateTimers
  BY <1>1, <1>p, SameStructsFit DEF CreateTimers
<1>2. ASSUME NEW r \in TestRole, CreateTimer(r) PROVE KindsFit(q')
  <2>1. pc = r /\ Excepted = {} /\ r \in Role
    BY <1>2, RoleLemma DEF CreateTimer, Excepted, TestRole
  <2>2. q.handle[r] = NoTimer
    BY <2>1 DEF IInv, NotYetCreated, TestRole
  <2>3. CASE Wanted(r)
    <3> DEFINE at == IF r = "omit" THEN clock ELSE now
    <3>1. CanCreate(q) /\ q' = tmr_create(q, at, r, Usecs(r), Periodic(r))
      BY <1>2, <2>3 DEF CreateTimer, CanCreate
    <3>2. at \in Nat /\ Usecs(r) \in Nat /\ Periodic(r) \in BOOLEAN
      BY <1>t, <2>1, UsecsLemma DEF Typed
    <3> HIDE DEF at
    <3> QED BY <1>c, <2>1, <2>2, <3>1, <3>2, CreateHandleLemma
  <2>4. CASE ~ Wanted(r)
    <3>1. q' = [q EXCEPT !.handle = [q.handle EXCEPT ![r] = NoTimer]]
      BY <1>2, <2>4 DEF CreateTimer
    <3> QED BY <1>p, <3>1, SameStructsFit
  <2> QED BY <2>3, <2>4
<1>3. ASSUME NEW s \in Stream, CreateSendTimer(s) PROVE KindsFit(q')
  <2>1. /\ q.handle[s] = NoTimer /\ CanCreate(q) /\ Excepted = {}
        /\ q' = tmr_create(q, clock, s, Usecs(s), Periodic(s))
    BY <1>3 DEF CreateSendTimer, CanCreate, Excepted
  <2>2. s \in Role /\ clock \in Nat /\ Usecs(s) \in Nat /\ Periodic(s) \in BOOLEAN
    BY <1>t, RoleLemma, UsecsLemma DEF Typed
  <2> QED BY <1>c, <2>1, <2>2, CreateHandleLemma
<1>4. CASE UNCHANGED q
  BY <1>4
<1>5. CASE RunPeriodic
  <2>1. /\ cur \in On(q.list)
        /\ q' = list_resort([q EXCEPT !.time[cur] = q.time[cur] + q.usecs[cur]], cur)
    BY <1>5 DEF RunPeriodic
  <2>2. q.time[cur] + q.usecs[cur] \in Nat
    BY <1>t, <1>h, <2>1 DEF Queues
  <2> QED BY <1>c, <2>1, <2>2, ResortLemma, SameStructsFit
<1>d. ASSUME NEW r \in TestRole, NEW t \in On(q.list), q.proc[t] = r, pc = "run"
      PROVE  LET q1 == [q EXCEPT !.handle[r] = NoTimer] IN
             Core(q1, {t}) /\ On(q1.list) = On(q.list)
  BY <1>d, ClearHandleLemma
<1>6. CASE RunOmit
  <2> DEFINE q1 == [q EXCEPT !.handle["omit"] = NoTimer]
             q2 == ResetHandle(q1, now, "stats")
             q3 == ResetHandle(q2, now, "reporter")
  <2>1. /\ pc = "run" /\ cur \in On(q.list) /\ q.proc[cur] = "omit" /\ q' = tmr_cancel(q3, cur)
    BY <1>6 DEF RunOmit, Due
  <2>2. "omit" \in TestRole /\ "stats" \in Role /\ "reporter" \in Role /\ now \in Nat
    BY <1>t DEF TestRole, Role, Typed
  <2>3. Core(q1, {cur}) /\ On(q1.list) = On(q.list)
    BY <1>d, <2>1, <2>2
  <2>4. SameStructs(q1, q)
    BY <1>p
  <2> HIDE DEF q1
  <2>5. Core(q2, {cur}) /\ On(q2.list) = On(q1.list) /\ SameStructs(q2, q1)
    BY <2>2, <2>3, ResetHandleLemma
  <2> HIDE DEF q2
  <2>6. Core(q3, {cur}) /\ On(q3.list) = On(q2.list) /\ SameStructs(q3, q2)
    BY <2>2, <2>5, ResetHandleLemma
  <2> HIDE DEF q3
  <2>7. SameStructs(q', q3)
    BY <2>1, <2>3, <2>5, <2>6, CancelLemma DEF Core
  <2> QED BY <2>4, <2>5, <2>6, <2>7, SameStructsFit
<1>7. CASE RunTestTimer
  <2> DEFINE q1 == [q EXCEPT !.handle["timer"] = NoTimer]
  <2>1. pc = "run" /\ cur \in On(q.list) /\ q.proc[cur] = "timer" /\ q' = tmr_cancel(q1, cur)
    BY <1>7 DEF RunTestTimer, Due
  <2>2. Core(q1, {cur}) /\ On(q1.list) = On(q.list)
    BY <1>d, <2>1 DEF TestRole
  <2>3. SameStructs(q1, q)
    BY <1>p
  <2> HIDE DEF q1
  <2>4. SameStructs(q', q1)
    BY <2>1, <2>2, CancelLemma DEF Core
  <2> QED BY <2>3, <2>4, SameStructsFit
<1>8. CASE RunServerTimer
  <2>1. q' = [q EXCEPT !.handle = [q.handle EXCEPT !["timer"] = NoTimer]]
    BY <1>8 DEF RunServerTimer
  <2> QED BY <1>p, <2>1, SameStructsFit
<1>9. ASSUME NEW s \in Stream, FreeStream(s) PROVE KindsFit(q')
  <2>1. pc \in {"freeing", "cleanup"} /\ q.handle[s] # NoTimer /\ q' = CancelHandle(q, s)
    BY <1>9 DEF FreeStream
  <2>2. s \in Role /\ s # "timer"
    BY RoleLemma DEF TestRole
  <2>3. q.handle[s] \notin Excepted
    BY <1>c, <2>1, <2>2 DEF Excepted, IInv, TimerIsRunning, Core, Linked
  <2> QED BY <1>c, <2>1, <2>2, <2>3, CancelHandleLemma, SameStructsFit
<1>10. CASE ServerTimerReturn
  <2>1. pc = "freeing" /\ q' = tmr_cancel(q, cur)
    BY <1>10 DEF ServerTimerReturn
  <2>2. cur \in On(q.list)
    BY <2>1 DEF IInv, TimerIsRunning
  <2> QED BY <1>c, <2>1, <2>2, CancelLemma, SameStructsFit
<1>11. CASE EndTest \/ ResetTest
  <2>1. q' \in {q, CancelAll(q)} /\ Excepted = {}
    BY <1>11 DEF EndTest, ResetTest, Excepted
  <2> QED BY <1>c, <2>1, CancelAllLemma, SameStructsFit
<1> QED
  BY <1>1, <1>2, <1>3, <1>4, <1>5, <1>6, <1>7, <1>8, <1>9, <1>10, <1>11
  DEF Next, Run, CreateFails, StartLoop, TestOver, Tick, RunBegin, RunEnd, RunCancelled, vars

\* Every state of the timers is well typed, and every scheduled timer has the
\* interval and the periodicity of its proc, for any timers, intervals and
\* streams.
THEOREM TypeCorrect == Spec => []TypeOK
<1>1. Init => KindsFit(q)
  BY DEF Init, KindsFit, On
<1>2. IInv /\ KindsFit(q) /\ [Next]_vars => KindsFit(q)'
  BY NextFits
<1>3. IInv /\ KindsFit(q) => TypeOK
  BY DEF IInv, TypeOK
<1> QED BY <1>1, <1>2, <1>3, InitIInv, NextIInv, PTL DEF Spec

\* The list that tmr_timeout and tmr_run read is sorted at every step, for any
\* timers, intervals and streams.
THEOREM TimerListSorted == Spec => []ListIsSorted
<1>1. IInv => ListIsSorted
  BY DEF IInv
<1> QED BY <1>1, InitIInv, NextIInv, PTL DEF Spec

\* tmr_timeout never lets select() sleep past the deadline of a timer.
THEOREM TimeoutIsInTime == Spec => []SelectWakesInTime
<1>1. IInv => SelectWakesInTime
  <2> SUFFICES ASSUME IInv, q.list # <<>>, NEW t \in On(q.list)
               PROVE  /\ tmr_timeout(q, clock) >= 0
                      /\ q.time[t] <= clock => tmr_timeout(q, clock) = 0
                      /\ q.time[t] > clock => clock + tmr_timeout(q, clock) <= q.time[t]
    BY DEF SelectWakesInTime
  <2>1. q.list \in Seq(Timer) /\ q.time \in [Timer -> Nat] /\ clock \in Nat
    BY DEF IInv, Typed, Queues
  <2>2. PICK i \in DOMAIN q.list : t = q.list[i]
    BY DEF On
  <2>3. Head(q.list) = q.list[1] /\ 1 \in DOMAIN q.list /\ 1 <= i /\ i \in Nat
    BY <2>1, <2>2
  <2>4. q.time[q.list[1]] <= q.time[t]
    BY <2>2, <2>3 DEF IInv, ListIsSorted, Sorted
  <2>5. q.time[q.list[1]] \in Nat /\ q.time[t] \in Nat
    BY <2>1, <2>2, <2>3
  <2> DEFINE first == q.time[q.list[1]]
  <2>6. tmr_timeout(q, clock) = IF first <= clock THEN 0 ELSE first - clock
    BY <2>3 DEF tmr_timeout
  <2> HIDE DEF first
  <2> QED
    BY <2>1, <2>4, <2>5, <2>6, SMTT(60) DEF first
<1> QED BY <1>1, InitIInv, NextIInv, PTL DEF Spec

\* No Timer pointer of a test or of a stream dangles and no scheduled timer is
\* lost, whatever the order of timers, frees, cancels and resets.
THEOREM TimerHandlesScheduled == Spec => []HandlesAreScheduled
<1>1. IInv => HandlesAreScheduled
  BY DEF IInv
<1> QED BY <1>1, InitIInv, NextIInv, PTL DEF Spec

\* After iperf_reset_test, and after iperf_free_test, no timer is scheduled.
THEOREM TimersCancelledAfterTest == Spec => []NothingScheduledBetweenTests
<1>1. IInv => NothingScheduledBetweenTests
  BY DEF IInv
<1> QED BY <1>1, InitIInv, NextIInv, PTL DEF Spec

-----------------------------------------------------------------------------
(* Timers cancelled while tmr_run is at work *)

\* A server whose test has sending streams is the only process in which
\* tmr_run can find a cancelled timer: server_timer_proc frees those streams.
NoStreamIsFreed == Side = "c" \/ Stream = {}

\* The timer tmr_run looks at, and the one it goes on with after
\* server_timer_proc, are scheduled.
WalkIsScheduled ==
  /\ pc # "undefined"
  /\ pc = "run" /\ cur # NoTimer => cur \in On(q.list)
  /\ pc = "freeing" => Stream = {} /\ (nxt # NoTimer => nxt \in On(q.list) \ {cur})

\* t->next is NULL or another scheduled timer.
LEMMA NextIsOtherLemma ==
  ASSUME NEW qq, Good(qq), NEW t \in On(qq.list)
  PROVE  NextOf(qq, t) # NoTimer => NextOf(qq, t) \in On(qq.list) \ {t}
<1> DEFINE l == qq.list
           i == CHOOSE i \in DOMAIN l : l[i] = t
<1>1. l \in Seq(Timer) /\ i \in DOMAIN l /\ l[i] = t
  BY DEF Good, Queues, On
<1>2. NextOf(qq, t) = IF i = Len(l) THEN NoTimer ELSE l[i + 1]
  BY DEF NextOf
<1>3. \A a, b \in DOMAIN l : l[a] = l[b] => a = b
  BY DEF Good, Distinct
<1>o. On(qq.list) = {l[k] : k \in DOMAIN l}
  BY DEF On
<1> HIDE DEF i, l
<1>4. Len(l) \in Nat /\ DOMAIN l = 1..Len(l)
  BY <1>1, LenProperties
<1>5. i # Len(l) => i + 1 \in DOMAIN l /\ i + 1 # i
  BY <1>1, <1>4
<1> QED BY <1>1, <1>2, <1>3, <1>5, <1>o

\* RunOmit and RunTestTimer take the timer tmr_run is at off the list, and no
\* other: the next one stays.
LEMMA NextStaysLemma ==
  ASSUME NEW qq, Good(qq), NEW t \in On(qq.list), NEW n, On(n) = On(qq.list) \ {t}
  PROVE  NextOf(qq, t) # NoTimer => NextOf(qq, t) \in On(n)
  BY NextIsOtherLemma

\* Every step of a process that frees no stream inside tmr_run leaves tmr_run
\* with a scheduled timer.
LEMMA NextWalk ==
  ASSUME NoStreamIsFreed, IInv, WalkIsScheduled, [Next]_vars
  PROVE  WalkIsScheduled'
<1>c. Core(q, Excepted) /\ Good(q)
  BY IInvIsCore DEF Core
<1>t. Typed /\ q \in Queues
  BY DEF IInv, Typed
<1>h. q.handle \in [Role -> Timer \cup {NoTimer}] /\ q.proc \in [Timer -> Role] /\ On(q.list) \subseteq Timer
  BY <1>t, ElementOfSeq DEF Queues, On
<1>d. ASSUME NEW r \in TestRole, NEW t \in On(q.list), q.proc[t] = r, pc = "run"
      PROVE  LET q1 == [q EXCEPT !.handle[r] = NoTimer] IN
             Core(q1, {t}) /\ On(q1.list) = On(q.list)
  BY <1>d, ClearHandleLemma
<1>1. CASE CreateTimers
  BY <1>1 DEF CreateTimers, WalkIsScheduled
<1>2. ASSUME NEW r \in TestRole, CreateTimer(r) PROVE WalkIsScheduled'
  <2>1. pc' \in {"stats", "reporter", "omit", "send"}
    BY <1>2 DEF CreateTimer, After, TestRole
  <2> QED BY <2>1 DEF WalkIsScheduled
<1>3. ASSUME NEW s \in Stream, CreateSendTimer(s) PROVE WalkIsScheduled'
  BY <1>3 DEF CreateSendTimer, WalkIsScheduled
<1>4. ASSUME NEW s \in Stream, FreeStream(s) PROVE WalkIsScheduled'
  BY <1>4 DEF FreeStream, WalkIsScheduled
<1>5. CASE CreateFails \/ StartLoop \/ EndTest \/ ResetTest
  <2>1. pc' \in {"exit", "fail", "loop", "cleanup", "idle", "freed"}
    BY <1>5 DEF CreateFails, StartLoop, EndTest, ResetTest
  <2> QED BY <2>1 DEF WalkIsScheduled
<1>6. CASE TestOver \/ Tick \/ UNCHANGED vars
  <2>1. UNCHANGED <<q, pc, cur, nxt>>
    BY <1>6 DEF TestOver, Tick, vars
  <2> QED BY <2>1 DEF WalkIsScheduled
<1>7. CASE RunBegin
  <2>1. /\ pc' = "run" /\ q' = q
        /\ cur' = IF q.list = <<>> THEN NoTimer ELSE Head(q.list)
    BY <1>7 DEF RunBegin
  <2>2. ASSUME q.list # <<>> PROVE Head(q.list) \in On(q.list)
    <3>1. q.list \in Seq(Timer)
      BY <1>t DEF Queues
    <3>2. Head(q.list) = q.list[1] /\ 1 \in DOMAIN q.list
      BY <2>2, <3>1
    <3> QED BY <3>2 DEF On
  <2> QED BY <2>1, <2>2 DEF WalkIsScheduled
<1>8. CASE RunEnd
  BY <1>8 DEF RunEnd, WalkIsScheduled
<1>9. CASE RunPeriodic
  <2>1. /\ pc = "run" /\ pc' = "run" /\ cur \in On(q.list) /\ cur' = NextOf(q, cur)
        /\ q' = list_resort([q EXCEPT !.time[cur] = q.time[cur] + q.usecs[cur]], cur)
    BY <1>9 DEF RunPeriodic, Due
  <2>2. q.time[cur] + q.usecs[cur] \in Nat
    BY <1>t, <1>h, <2>1 DEF Queues
  <2>3. On(q'.list) = On(q.list)
    BY <1>c, <2>1, <2>2, ResortLemma
  <2> QED BY <1>c, <2>1, <2>3, NextIsOtherLemma DEF WalkIsScheduled
<1>10. CASE RunOmit
  <2> DEFINE q1 == [q EXCEPT !.handle["omit"] = NoTimer]
             q2 == ResetHandle(q1, now, "stats")
             q3 == ResetHandle(q2, now, "reporter")
  <2>1. /\ pc = "run" /\ pc' = "run" /\ cur \in On(q.list) /\ q.proc[cur] = "omit"
        /\ cur' = NextOf(q, cur) /\ q' = tmr_cancel(q3, cur)
    BY <1>10 DEF RunOmit, Due
  <2>2. "omit" \in TestRole /\ "stats" \in Role /\ "reporter" \in Role /\ now \in Nat
    BY <1>t DEF TestRole, Role, Typed
  <2>3. Core(q1, {cur}) /\ On(q1.list) = On(q.list)
    BY <1>d, <2>1, <2>2
  <2> HIDE DEF q1
  <2>4. Core(q2, {cur}) /\ On(q2.list) = On(q1.list)
    BY <2>2, <2>3, ResetHandleLemma
  <2> HIDE DEF q2
  <2>5. Core(q3, {cur}) /\ On(q3.list) = On(q2.list)
    BY <2>2, <2>4, ResetHandleLemma
  <2> HIDE DEF q3
  <2>6. On(q'.list) = On(q.list) \ {cur}
    BY <2>1, <2>3, <2>4, <2>5, CancelLemma DEF Core
  <2> QED BY <1>c, <2>1, <2>6, NextStaysLemma DEF WalkIsScheduled
<1>11. CASE RunTestTimer
  <2> DEFINE q1 == [q EXCEPT !.handle["timer"] = NoTimer]
  <2>1. /\ pc = "run" /\ pc' = "run" /\ cur \in On(q.list) /\ q.proc[cur] = "timer"
        /\ cur' = NextOf(q, cur) /\ q' = tmr_cancel(q1, cur)
    BY <1>11 DEF RunTestTimer, Due
  <2>2. Core(q1, {cur}) /\ On(q1.list) = On(q.list)
    BY <1>d, <2>1 DEF TestRole
  <2> HIDE DEF q1
  <2>3. On(q'.list) = On(q.list) \ {cur}
    BY <2>1, <2>2, CancelLemma DEF Core
  <2> QED BY <1>c, <2>1, <2>3, NextStaysLemma DEF WalkIsScheduled
<1>12. CASE RunServerTimer
  <2>1. /\ cur \in On(q.list) /\ cur' = cur /\ pc' = "freeing" /\ nxt' = NextOf(q, cur)
        /\ Side = "s" /\ q' = [q EXCEPT !.handle["timer"] = NoTimer]
    BY <1>12 DEF RunServerTimer, Due
  <2>2. q'.list = q.list
    BY <1>t, <2>1 DEF Queues
  <2>3. Stream = {}
    BY <2>1 DEF NoStreamIsFreed
  <2> QED BY <1>c, <2>1, <2>2, <2>3, NextIsOtherLemma DEF WalkIsScheduled
<1>13. CASE ServerTimerReturn
  <2>1. pc = "freeing" /\ pc' = "run" /\ q' = tmr_cancel(q, cur) /\ cur' = nxt
    BY <1>13 DEF ServerTimerReturn
  <2>2. cur \in On(q.list)
    BY <2>1 DEF IInv, TimerIsRunning
  <2>3. On(q'.list) = On(q.list) \ {cur}
    BY <1>c, <2>1, <2>2, CancelLemma
  <2> QED BY <2>1, <2>3 DEF WalkIsScheduled
<1>14. CASE RunCancelled
  BY <1>14 DEF RunCancelled, Due, WalkIsScheduled
<1> QED
  BY <1>1, <1>2, <1>3, <1>4, <1>5, <1>6, <1>7, <1>8, <1>9, <1>10, <1>11, <1>12, <1>13, <1>14
  DEF Next, Run

\* In a client, and in a server whose test has no stream of its own to free, a
\* timer that is cancelled while tmr_run walks the list is not run.
THEOREM CancelledTimersDoNotRunHere ==
  ASSUME NoStreamIsFreed
  PROVE  Spec => []CancelledTimersDoNotRun
<1>1. Init => WalkIsScheduled
  BY DEF Init, WalkIsScheduled
<1>2. IInv /\ WalkIsScheduled /\ [Next]_vars => WalkIsScheduled'
  BY NextWalk
<1>3. WalkIsScheduled => CancelledTimersDoNotRun
  BY DEF WalkIsScheduled, CancelledTimersDoNotRun
<1> QED BY <1>1, <1>2, <1>3, InitIInv, NextIInv, PTL DEF Spec

=============================================================================
