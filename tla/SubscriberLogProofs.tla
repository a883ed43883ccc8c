------------------------ MODULE SubscriberLogProofs -------------------------
(***************************************************************************)
(* Proofs about SubscriberLog: no thread follows a pointer to a recycled   *)
(* block, every application thread delivers its stride of the log in order *)
(* and without gaps, what is delivered has enough copies, and no entry     *)
(* that has enough copies is lost.                                         *)
(***************************************************************************)
EXTENDS SubscriberLog, WellFoundedInduction, SequenceTheorems, FiniteSetTheorems, TLAPS

-----------------------------------------------------------------------------
(* Facts about natural numbers.                                            *)

(* A set of natural numbers that is not empty has a least element.         *)
LEMMA LeastNat ==
  ASSUME NEW S, S \subseteq Nat, S # {}
  PROVE  \E k \in S : \A m \in S : k <= m
<1> DEFINE Less == {p \in Nat \X Nat : p[1] < p[2]}
<1>1. IsWellFoundedOn(Less, Nat)
  BY NatLessThanWellFounded, Zenon DEF OpToRel
<1>2. PICK k \in S : \A m \in S : ~ (<<m, k>> \in Less)
  <2> HIDE DEF Less
  <2> QED BY <1>1, WFMin
<1>3. \A m \in S : ~ (m < k)
  BY <1>2
<1>4. QED
  BY <1>3

(* A remainder is below its divisor.                                       *)
LEMMA ModRange ==
  ASSUME NEW g \in Nat, NEW n \in Nat \ {0}
  PROVE  g % n \in 0 .. n - 1
OBVIOUS

(* A number is made up of its quotient and its remainder.                  *)
LEMMA DivMod ==
  ASSUME NEW g \in Nat, NEW n \in Nat \ {0}
  PROVE  g \div n \in Nat /\ g = n * (g \div n) + (g % n)
OBVIOUS

(* Numbers with the same quotient and the same remainder are equal.        *)
LEMMA DivModEqual ==
  ASSUME NEW g \in Nat, NEW h \in Nat, NEW n \in Nat \ {0},
         g \div n = h \div n, g % n = h % n
  PROVE  g = h
<1>1. g = n * (g \div n) + (g % n) /\ h = n * (h \div n) + (h % n)
  BY DivMod
<1>2. QED
  BY <1>1, Zenon

(* The product with a fixed factor grows with the other one.               *)
LEMMA TimesMonotone ==
  ASSUME NEW n \in Nat \ {0}, NEW c \in Nat, NEW d \in Nat, c + 1 <= d
  PROVE  n * c + n <= n * d
<1>1. PICK e \in Nat : d = c + 1 + e
  <2>1. d - c - 1 \in Nat /\ d = c + 1 + (d - c - 1)
    OBVIOUS
  <2>2. QED
    BY <2>1
<1>2. n * (c + 1 + e) = n * c + n + n * e
  OBVIOUS
<1>3. n * e \in Nat /\ n * c \in Nat
  OBVIOUS
<1>4. QED
  BY <1>1, <1>2, <1>3

(* Quotients grow with the dividend.                                       *)
LEMMA DivMonotone ==
  ASSUME NEW g \in Nat, NEW h \in Nat, NEW n \in Nat \ {0}, g <= h
  PROVE  g \div n <= h \div n
<1> DEFINE c == g \div n
           d == h \div n
<1>1. /\ c \in Nat /\ d \in Nat
      /\ g = n * c + (g % n) /\ h = n * d + (h % n)
      /\ g % n \in 0 .. n - 1 /\ h % n \in 0 .. n - 1
  BY DivMod, ModRange
<1>2. ASSUME d + 1 <= c PROVE FALSE
  <2> HIDE DEF c, d
  <2>1. n * d + n <= n * c
    BY <1>1, <1>2, TimesMonotone
  <2>2. n * d \in Nat /\ n * c \in Nat
    BY <1>1
  <2>3. QED
    BY <1>1, <2>1, <2>2
<1> HIDE DEF c, d
<1>3. c <= d
  BY <1>1, <1>2
<1>4. QED
  BY <1>3 DEF c, d

-----------------------------------------------------------------------------
(* The strides of the application threads.                                 *)

(* The k-th entry (from 0) of application thread a.                        *)
Nth(a, k) == a + k * Apps

(* The entries of an application thread are a stride apart.                *)
LEMMA NthSteps ==
  ASSUME NEW a \in App, NEW k \in Nat
  PROVE  /\ Nth(a, k) \in Nat /\ Nth(a, 0) = a
         /\ Nth(a, k + 1) = Nth(a, k) + Apps
<1>1. a \in Nat /\ Apps \in Nat
  BY ThreadsAssumption DEF App
<1>2. k * Apps \in Nat /\ (k + 1) * Apps = k * Apps + Apps /\ 0 * Apps = 0
  BY <1>1
<1>3. QED
  BY <1>1, <1>2 DEF Nth

(* Every entry belongs to the thread of its remainder, and the entries of  *)
(* a thread below its n-th are the ones with a smaller number.             *)
LEMMA NthCovers ==
  ASSUME NEW g \in Nat, NEW n \in Nat, g < Nth(g % Apps, n)
  PROVE  \E k \in 0 .. n - 1 : g = Nth(g % Apps, k)
<1> DEFINE a == g % Apps
           c == g \div Apps
<1>1. /\ c \in Nat /\ a \in 0 .. Apps - 1 /\ Apps \in Nat \ {0}
      /\ g = Apps * c + a
  BY DivMod, ModRange, ThreadsAssumption
<1>2. g = Nth(a, c)
  <2> HIDE DEF a, c
  <2>1. Apps * c = c * Apps
    BY <1>1
  <2>2. QED
    BY <1>1, <2>1 DEF Nth
<1>3. c < n
  <2> SUFFICES ASSUME n <= c PROVE FALSE
    BY <1>1
  <2>1. g < a + n * Apps
    BY DEF Nth
  <2> HIDE DEF a, c
  <2>2. CASE n = c
    BY <1>1, <1>2, <2>1, <2>2 DEF Nth
  <2>3. CASE n # c
    <3>1. Apps * n + Apps <= Apps * c
      BY <1>1, <2>3, TimesMonotone
    <3>2. Apps * n = n * Apps /\ n * Apps \in Nat /\ Apps * c \in Nat
      BY <1>1
    <3>3. QED
      BY <1>1, <2>1, <3>1, <3>2
  <2>4. QED
    BY <2>2, <2>3
<1>4. c \in 0 .. n - 1
  BY <1>1, <1>3
<1>5. QED
  BY <1>2, <1>4

-----------------------------------------------------------------------------
(* The polling threads.                                                    *)

(* The polling thread and the sender of an entry.                          *)
Queue(h) == h % Pollers
Origin(h) == h % Senders

(* The replicas whose copy of an entry has been received.                  *)
Copies(h) == {r \in Replicas : got[Queue(h)][r][Origin(h)] > h}

(* The entry has been handed to position::insert, and has been stored.     *)
Reached(h) == latest[Queue(h)][Origin(h)] >= h
Stored(h) == Reached(h) /\ inserting[Queue(h)] # h

PollTypes ==
  /\ got \in [Poller -> [Replicas -> [Sender -> Nat]]]
  /\ latest \in [Poller -> [Sender -> Gsn \cup {None}]]
  /\ acks \in [Poller -> [Gsn -> Nat]]
  /\ inserting \in [Poller -> Gsn \cup {None}]

(* The entries with enough copies are the reached ones; the copies of the  *)
(* others are what num_acks counts.                                        *)
CountedAt(h) ==
  IF Reached(h) THEN Cardinality(Copies(h)) > Failures
  ELSE /\ Cardinality(Copies(h)) <= Failures
       /\ acks[Queue(h)][h] = Cardinality(Copies(h))

(* A polling thread inserts an entry of its own that it has counted.       *)
InsertingAt(q) ==
  inserting[q] # None => Queue(inserting[q]) = q /\ Reached(inserting[q])

PollInv ==
  /\ PollTypes
  /\ \A h \in Gsn : CountedAt(h)
  /\ \A q \in Poller : InsertingAt(q)

(* GSNs are numbers, and each has a polling thread and a sender.           *)
LEMMA GsnFacts ==
  ASSUME NEW h \in Gsn
  PROVE  h \in Nat /\ h # None /\ Queue(h) \in Poller /\ Origin(h) \in Sender
<1>1. h \in Nat
  BY OptionsAssumption DEF Gsn
<1>2. Queue(h) \in Poller /\ Origin(h) \in Sender
  BY <1>1, ModRange, ThreadsAssumption DEF Queue, Origin, Poller, Sender
<1>3. QED
  BY <1>1, <1>2 DEF None

(* The copies of an entry are finitely many.                               *)
LEMMA CopiesFinite ==
  ASSUME NEW h
  PROVE  /\ IsFiniteSet(Copies(h)) /\ Cardinality(Copies(h)) \in Nat
         /\ IsFiniteSet(Copies(h)') /\ Cardinality(Copies(h)') \in Nat
<1>1. Copies(h) \subseteq Replicas /\ Copies(h)' \subseteq Replicas
  BY DEF Copies
<1>2. QED
  BY <1>1, ReplicasAssumption, FS_Subset, FS_CardinalityType

(* Initially nothing has been received.                                    *)
LEMMA InitPoll == Init => PollInv
<1> SUFFICES ASSUME Init PROVE PollInv
  OBVIOUS
<1>1. PollTypes
  BY OptionsAssumption DEF Init, PollTypes, Gsn
<1>2. ASSUME NEW h \in Gsn PROVE CountedAt(h)
  <2>1. h \in Nat /\ Queue(h) \in Poller /\ Origin(h) \in Sender
    BY GsnFacts
  <2>2. ~ Reached(h)
    BY <2>1 DEF Init, Reached, None
  <2>3. \A r \in Replicas : got[Queue(h)][r][Origin(h)] = 0
    BY <2>1 DEF Init
  <2>4. Copies(h) = {}
    BY <2>1, <2>3 DEF Copies
  <2>5. Cardinality(Copies(h)) = 0
    BY <2>4, FS_EmptySet
  <2>6. acks[Queue(h)][h] = 0
    BY <2>1 DEF Init
  <2>7. QED
    BY <2>2, <2>5, <2>6, ReplicasAssumption DEF CountedAt
<1>3. \A q \in Poller : InsertingAt(q)
  BY DEF Init, InsertingAt
<1>4. QED
  BY <1>1, <1>2, <1>3 DEF PollInv

(* Entry g is the first of its stream that replica r has not sent yet.     *)
FirstOf(q, r, s, g) ==
  /\ Queue(g) = q /\ Origin(g) = s /\ g >= got[q][r][s]
  /\ \A h \in Gsn : Queue(h) = q /\ Origin(h) = s /\ h >= got[q][r][s] => g <= h

(* Receive takes the first entry of its stream that this replica has not   *)
(* sent yet: its copies become one more, those of all others stay.         *)
LEMMA ReceiveCopies ==
  ASSUME PollTypes, NEW q \in Poller, NEW r \in Replicas, NEW s \in Sender,
         NEW g \in Gsn, FirstOf(q, r, s, g),
         got' = [got EXCEPT ![q][r][s] = g + 1]
  PROVE  /\ got' \in [Poller -> [Replicas -> [Sender -> Nat]]]
         /\ r \notin Copies(g)
         /\ Copies(g)' = Copies(g) \cup {r}
         /\ \A h \in Gsn : h # g => Copies(h)' = Copies(h)
         /\ \A h \in Gsn : Queue(h) = q /\ Origin(h) = s /\ h < g =>
              r \in Copies(h) /\ Copies(g) \subseteq Copies(h)
<1>0. /\ Queue(g) = q /\ Origin(g) = s /\ g >= got[q][r][s]
      /\ \A h \in Gsn :
           Queue(h) = q /\ Origin(h) = s /\ h >= got[q][r][s] => g <= h
  BY DEF FirstOf
<1>1. g \in Nat /\ g + 1 \in Nat /\ got[q][r][s] \in Nat
  BY GsnFacts DEF PollTypes
<1>2. got' \in [Poller -> [Replicas -> [Sender -> Nat]]]
  BY <1>1 DEF PollTypes
<1>3. \A p \in Poller, c \in Replicas, t \in Sender :
        /\ got[p][c][t] \in Nat
        /\ got'[p][c][t] = IF p = q /\ c = r /\ t = s THEN g + 1 ELSE got[p][c][t]
  BY DEF PollTypes
<1>4. r \notin Copies(g)
  BY <1>0, <1>1 DEF Copies
<1>5. Copies(g)' = Copies(g) \cup {r}
  <2>1. \A c \in Replicas : got'[q][c][s] > g <=> got[q][c][s] > g \/ c = r
    BY <1>0, <1>1, <1>3
  <2>2. Copies(g) = {c \in Replicas : got[q][c][s] > g}
    BY <1>0, Zenon DEF Copies
  <2>3. Copies(g)' = {c \in Replicas : got'[q][c][s] > g}
    BY <1>0, Zenon DEF Copies
  <2>4. QED
    BY <2>1, <2>2, <2>3
<1>6. ASSUME NEW h \in Gsn, h # g PROVE Copies(h)' = Copies(h)
  <2>1. h \in Nat /\ Queue(h) \in Poller /\ Origin(h) \in Sender
    BY GsnFacts
  <2>2. ASSUME NEW c \in Replicas
        PROVE  got'[Queue(h)][c][Origin(h)] > h <=> got[Queue(h)][c][Origin(h)] > h
    <3>1. CASE Queue(h) = q /\ c = r /\ Origin(h) = s
      <4>1. got'[Queue(h)][c][Origin(h)] = g + 1
        BY <1>3, <3>1
      <4>2. h >= got[q][r][s] => g <= h
        BY <1>0, <3>1
      <4>3. QED
        BY <1>0, <1>1, <2>1, <1>6, <3>1, <4>1, <4>2
    <3>2. CASE ~ (Queue(h) = q /\ c = r /\ Origin(h) = s)
      BY <1>3, <2>1, <3>2
    <3>3. QED
      BY <3>1, <3>2
  <2>3. QED
    BY <2>2 DEF Copies
<1>7. ASSUME NEW h \in Gsn, Queue(h) = q, Origin(h) = s, h < g
      PROVE  r \in Copies(h) /\ Copies(g) \subseteq Copies(h)
  <2>1. h \in Nat
    BY GsnFacts
  <2>2. got[q][r][s] > h
    BY <1>0, <1>1, <1>7, <2>1
  <2>3. \A c \in Replicas : got[q][c][s] > g => got[q][c][s] > h
    BY <1>1, <1>3, <1>7, <2>1
  <2>4. QED
    BY <1>0, <1>7, <2>2, <2>3 DEF Copies
<1>8. QED
  BY <1>2, <1>4, <1>5, <1>6, <1>7

(* What the counting part of Receive does with entry g.                    *)
CountCopy(q, s, g) ==
  IF latest[q][s] # None /\ g <= latest[q][s]
  THEN UNCHANGED <<latest, acks, inserting>>
  ELSE IF Enough(acks[q][g] + 1)
  THEN /\ latest' = [latest EXCEPT ![q][s] = g]
       /\ inserting' = [inserting EXCEPT ![q] = g]
       /\ acks' = [acks EXCEPT ![q][g] = 0]
  ELSE /\ acks' = [acks EXCEPT ![q][g] = @ + 1]
       /\ UNCHANGED <<latest, inserting>>

(* Receive in terms of the entry it takes.                                 *)
LEMMA ReceiveEntry ==
  ASSUME PollTypes, NEW q \in Poller, NEW r \in Replicas, NEW s \in Sender,
         Receive(q, r, s)
  PROVE  \E g \in Gsn :
           /\ FirstOf(q, r, s, g)
           /\ got' = [got EXCEPT ![q][r][s] = g + 1]
           /\ inserting[q] = None
           /\ CountCopy(q, s, g)
<1> DEFINE rest == {g \in Stream(s, q) : g >= got[q][r][s]}
           e == CHOOSE g \in rest : \A h \in rest : g <= h
<1>1. \A h \in Gsn : h \in Stream(s, q) <=> Queue(h) = q /\ Origin(h) = s
  BY DEF Stream, Queue, Origin
<1>2. rest \subseteq Nat /\ rest \subseteq Gsn
  BY GsnFacts DEF Stream
<1>3. rest # {} /\ inserting[q] = None
  BY DEF Receive
<1>4. \E k \in rest : \A m \in rest : k <= m
  <2> HIDE DEF rest
  <2> QED BY <1>2, <1>3, LeastNat
<1>5. e \in rest /\ \A m \in rest : e <= m
  <2> HIDE DEF rest
  <2> QED BY <1>4
<1>6. got' = [got EXCEPT ![q][r][s] = e + 1] /\ CountCopy(q, s, e)
  BY DEF Receive, CountCopy
<1> HIDE DEF e
<1>7. e \in Gsn /\ Queue(e) = q /\ Origin(e) = s /\ e >= got[q][r][s]
  BY <1>1, <1>2, <1>5
<1>8. \A h \in Gsn : Queue(h) = q /\ Origin(h) = s /\ h >= got[q][r][s] => e <= h
  BY <1>1, <1>5
<1>9. QED
  BY <1>3, <1>6, <1>7, <1>8 DEF FirstOf

(* Receive keeps the polling threads' invariant, and stores nothing.       *)
LEMMA ReceivePoll ==
  ASSUME PollInv, NEW q \in Poller, NEW r \in Replicas, NEW s \in Sender,
         Receive(q, r, s)
  PROVE  PollInv' /\ \A h \in Gsn : Stored(h)' <=> Stored(h)
<1>0. PollTypes /\ (\A h \in Gsn : CountedAt(h)) /\ (\A p \in Poller : InsertingAt(p))
  BY DEF PollInv
<1>1. PICK g \in Gsn :
        /\ FirstOf(q, r, s, g)
        /\ got' = [got EXCEPT ![q][r][s] = g + 1]
        /\ inserting[q] = None
        /\ CountCopy(q, s, g)
  BY <1>0, ReceiveEntry
<1>a. Queue(g) = q /\ Origin(g) = s
  BY <1>1 DEF FirstOf
<1>2. /\ got' \in [Poller -> [Replicas -> [Sender -> Nat]]]
      /\ r \notin Copies(g)
      /\ Copies(g)' = Copies(g) \cup {r}
      /\ \A h \in Gsn : h # g => Copies(h)' = Copies(h)
      /\ \A h \in Gsn : Queue(h) = q /\ Origin(h) = s /\ h < g =>
           r \in Copies(h) /\ Copies(g) \subseteq Copies(h)
  BY <1>0, <1>1, ReceiveCopies, Zenon
<1>3. Cardinality(Copies(g)') = Cardinality(Copies(g)) + 1
  BY <1>2, CopiesFinite, FS_AddElement
<1>4. \A h \in Gsn : h # g => Cardinality(Copies(h)') = Cardinality(Copies(h))
  BY <1>2
<1>5. /\ g \in Nat /\ g # None /\ latest[q][s] \in Gsn \cup {None}
      /\ acks[q][g] \in Nat /\ Failures \in Nat
      /\ Cardinality(Copies(g)) \in Nat
  BY <1>0, GsnFacts, CopiesFinite, ReplicasAssumption DEF PollTypes
<1>6. latest[q][s] \in Int /\ (latest[q][s] = None <=> ~ (latest[q][s] >= 0))
  BY <1>5, OptionsAssumption DEF None, Gsn
<1>7. Reached(g) <=> latest[q][s] # None /\ g <= latest[q][s]
  BY <1>1, <1>a, <1>5, <1>6 DEF Reached
<1>8. CASE Reached(g)
  <2>1. UNCHANGED <<latest, acks, inserting>>
    BY <1>1, <1>a, <1>7, <1>8 DEF CountCopy
  <2>2. \A h : /\ Reached(h)' <=> Reached(h)
               /\ Stored(h)' <=> Stored(h)
    BY <2>1 DEF Reached, Stored
  <2>3. PollTypes'
    BY <1>0, <1>2, <2>1 DEF PollTypes
  <2>4. ASSUME NEW h \in Gsn PROVE CountedAt(h)'
    <3>1. CountedAt(h) /\ CountedAt(g)
      BY <1>0
    <3>2. CASE h = g
      <4>1. Cardinality(Copies(g)) > Failures
        BY <1>8, <3>1 DEF CountedAt
      <4>2. Cardinality(Copies(g)') > Failures
        BY <1>3, <1>5, <4>1
      <4>3. Reached(g)'
        BY <1>8, <2>2
      <4>4. QED
        BY <3>2, <4>2, <4>3 DEF CountedAt
    <3>3. CASE h # g
      <4>1. Copies(h)' = Copies(h) /\ (Reached(h)' <=> Reached(h))
        BY <1>2, <2>2, <3>3
      <4>2. acks' = acks
        BY <2>1
      <4>3. QED
        BY <3>1, <4>1, <4>2, Zenon DEF CountedAt
    <3>4. QED
      BY <3>2, <3>3
  <2>5. \A p \in Poller : InsertingAt(p)'
    BY <1>0, <2>1, <2>2 DEF InsertingAt
  <2>6. QED
    BY <2>2, <2>3, <2>4, <2>5 DEF PollInv
<1>9. CASE ~ Reached(g)
  <2>0. /\ CountedAt(g)
        /\ Cardinality(Copies(g)) <= Failures
        /\ acks[q][g] = Cardinality(Copies(g))
    BY <1>0, <1>1, <1>a, <1>9 DEF CountedAt
  <2>1. CASE Enough(acks[q][g] + 1)
    <3>1. /\ latest' = [latest EXCEPT ![q][s] = g]
          /\ inserting' = [inserting EXCEPT ![q] = g]
          /\ acks' = [acks EXCEPT ![q][g] = 0]
      BY <1>1, <1>a, <1>7, <1>9, <2>1 DEF CountCopy
    <3>2. Cardinality(Copies(g)') > Failures
      BY <1>3, <2>0, <2>1 DEF Enough
    <3>3. PollTypes'
      BY <1>0, <1>2, <3>1 DEF PollTypes
    <3>4. \A p \in Poller, t \in Sender :
            latest'[p][t] = IF p = q /\ t = s THEN g ELSE latest[p][t]
      BY <1>0, <3>1 DEF PollTypes
    <3>5. \A p \in Poller : inserting'[p] = IF p = q THEN g ELSE inserting[p]
      BY <1>0, <3>1 DEF PollTypes
    <3>6. ASSUME NEW h \in Gsn PROVE Reached(h)' <=> Reached(h) \/ h = g
      <4>1. h \in Nat /\ Queue(h) \in Poller /\ Origin(h) \in Sender
        BY GsnFacts
      <4>2. CASE Queue(h) = q /\ Origin(h) = s
        <5>1. Reached(h)' <=> g >= h
          BY <3>4, <4>1, <4>2 DEF Reached
        <5>2. Reached(h) => h <= g
          BY <1>5, <1>6, <1>7, <1>9, <4>1, <4>2, <1>a DEF Reached
        <5>3. ASSUME h < g, ~ Reached(h) PROVE FALSE
          <6>1. Copies(g) \cup {r} \subseteq Copies(h)
            BY <1>2, <4>2, <5>3
          <6>2. Cardinality(Copies(g) \cup {r}) <= Cardinality(Copies(h))
            BY <6>1, CopiesFinite, FS_Subset
          <6>3. Cardinality(Copies(g) \cup {r}) > Failures
            BY <1>2, <3>2, Zenon
          <6>4. Cardinality(Copies(h)) <= Failures
            BY <1>0, <5>3 DEF CountedAt
          <6>5. Cardinality(Copies(g) \cup {r}) \in Nat /\ Cardinality(Copies(h)) \in Nat
            BY <1>2, CopiesFinite
          <6>6. QED
            BY <1>5, <6>2, <6>3, <6>4, <6>5
        <5>4. QED
          BY <1>5, <4>1, <5>1, <5>2, <5>3
      <4>3. CASE ~ (Queue(h) = q /\ Origin(h) = s)
        BY <1>1, <1>a, <3>4, <4>1, <4>3 DEF Reached
      <4>4. QED
        BY <4>2, <4>3
    <3>7. ASSUME NEW h \in Gsn PROVE CountedAt(h)'
      <4>1. CASE h = g
        <5>1. Reached(g)'
          BY <3>6
        <5>2. QED
          BY <3>2, <4>1, <5>1 DEF CountedAt
      <4>2. CASE h # g
        <5>1. Copies(h)' = Copies(h) /\ (Reached(h)' <=> Reached(h))
          BY <1>2, <3>6, <4>2
        <5>2. acks'[Queue(h)][h] = acks[Queue(h)][h]
          BY <1>0, <3>1, <4>2, GsnFacts DEF PollTypes
        <5>3. CountedAt(h)
          BY <1>0
        <5>4. QED
          BY <5>1, <5>2, <5>3, Zenon DEF CountedAt
      <4>3. QED
        BY <4>1, <4>2
    <3>8. ASSUME NEW p \in Poller PROVE InsertingAt(p)'
      <4>1. CASE p = q
        <5>1. inserting'[p] = g
          BY <3>5, <4>1
        <5>2. Reached(g)'
          BY <3>6
        <5>3. QED
          BY <1>1, <1>a, <4>1, <5>1, <5>2 DEF InsertingAt, Reached
      <4>2. CASE p # q
        <5>1. inserting'[p] = inserting[p] /\ inserting[p] \in Gsn \cup {None}
          BY <1>0, <3>5, <4>2 DEF PollTypes
        <5>2. InsertingAt(p)
          BY <1>0
        <5>3. inserting[p] # None => Reached(inserting[p])'
          <6>1. inserting[p] # None => inserting[p] \in Gsn /\ Reached(inserting[p])
            BY <5>1, <5>2 DEF InsertingAt
          <6>2. ASSUME NEW h \in Gsn, inserting'[p] = h, Reached(h)
                PROVE  Reached(inserting[p])'
            <7>1. Reached(h)'
              BY <3>6, <6>2
            <7>2. QED
              BY <6>2, <7>1 DEF Reached
          <6>3. QED
            BY <5>1, <6>1, <6>2
        <5>4. QED
          BY <5>1, <5>2, <5>3 DEF InsertingAt, Reached
      <4>3. QED
        BY <4>1, <4>2
    <3>9. ASSUME NEW h \in Gsn PROVE Stored(h)' <=> Stored(h)
      <4>1. Queue(h) \in Poller /\ h # None
        BY GsnFacts
      <4>2. CASE h = g
        <5>1. inserting'[Queue(g)] = g
          BY <1>1, <1>a, <3>5
        <5>2. QED
          BY <1>9, <4>2, <5>1 DEF Stored
      <4>3. CASE h # g
        <5>1. Reached(h)' <=> Reached(h)
          BY <3>6, <4>3
        <5>2. inserting'[Queue(h)] = h <=> inserting[Queue(h)] = h
          BY <1>1, <1>a, <3>5, <4>1, <4>3
        <5>3. QED
          BY <5>1, <5>2 DEF Stored
      <4>4. QED
        BY <4>2, <4>3
    <3>10. QED
      BY <3>3, <3>7, <3>8, <3>9 DEF PollInv
  <2>2. CASE ~ Enough(acks[q][g] + 1)
    <3>1. /\ acks' = [acks EXCEPT ![q][g] = acks[q][g] + 1]
          /\ UNCHANGED <<latest, inserting>>
      BY <1>1, <1>a, <1>7, <1>9, <2>2 DEF CountCopy
    <3>2. \A h : /\ Reached(h)' <=> Reached(h)
                 /\ Stored(h)' <=> Stored(h)
      BY <3>1 DEF Reached, Stored
    <3>3. PollTypes'
      BY <1>0, <1>2, <1>5, <3>1 DEF PollTypes
    <3>4. ASSUME NEW h \in Gsn PROVE CountedAt(h)'
      <4>1. CASE h = g
        <5>1. acks'[q][g] = acks[q][g] + 1
          BY <1>0, <3>1 DEF PollTypes
        <5>2. /\ Cardinality(Copies(g)') <= Failures
              /\ acks'[q][g] = Cardinality(Copies(g)')
          BY <1>3, <1>5, <2>0, <2>2, <5>1 DEF Enough
        <5>3. ~ Reached(g)'
          BY <1>9, <3>2
        <5>4. QED
          BY <1>1, <1>a, <4>1, <5>2, <5>3 DEF CountedAt
      <4>2. CASE h # g
        <5>1. Copies(h)' = Copies(h) /\ (Reached(h)' <=> Reached(h))
          BY <1>2, <3>2, <4>2
        <5>2. acks'[Queue(h)][h] = acks[Queue(h)][h]
          BY <1>0, <3>1, <4>2, GsnFacts DEF PollTypes
        <5>3. CountedAt(h)
          BY <1>0
        <5>4. QED
          BY <5>1, <5>2, <5>3, Zenon DEF CountedAt
      <4>3. QED
        BY <4>1, <4>2
    <3>5. \A p \in Poller : InsertingAt(p)'
      BY <1>0, <3>1, <3>2 DEF InsertingAt
    <3>6. QED
      BY <3>2, <3>3, <3>4, <3>5 DEF PollInv
  <2>3. QED
    BY <2>1, <2>2
<1>10. QED
  BY <1>8, <1>9

(* Insert keeps the polling threads' invariant; it stores the entry, which *)
(* was not stored before, and no other.                                    *)
LEMMA InsertPoll ==
  ASSUME PollInv, NEW q \in Poller, Insert(q)
  PROVE  /\ PollInv'
         /\ inserting[q] \in Gsn /\ ~ Stored(inserting[q])
         /\ \A h \in Gsn : Stored(h)' <=> Stored(h) \/ h = inserting[q]
<1>0. PollTypes /\ (\A h \in Gsn : CountedAt(h)) /\ (\A p \in Poller : InsertingAt(p))
  BY DEF PollInv
<1>1. /\ inserting[q] # None
      /\ inserting' = [inserting EXCEPT ![q] = None]
      /\ UNCHANGED <<got, latest, acks>>
  BY DEF Insert
<1>2. PICK g \in Gsn : g = inserting[q]
  BY <1>0, <1>1 DEF PollTypes
<1>3. Queue(g) = q /\ Reached(g)
  BY <1>0, <1>1, <1>2 DEF InsertingAt
<1>4. \A h : (Reached(h)' <=> Reached(h)) /\ (CountedAt(h)' <=> CountedAt(h))
  <2>1. \A h : Copies(h)' = Copies(h) /\ (Reached(h)' <=> Reached(h))
    BY <1>1 DEF Copies, Reached
  <2>2. acks' = acks
    BY <1>1
  <2>3. QED
    BY <2>1, <2>2, Zenon DEF CountedAt
<1>5. \A p \in Poller : inserting'[p] = IF p = q THEN None ELSE inserting[p]
  BY <1>0, <1>1 DEF PollTypes
<1>6. PollTypes'
  BY <1>0, <1>1 DEF PollTypes
<1>7. \A p \in Poller : InsertingAt(p)'
  BY <1>0, <1>1, <1>5 DEF InsertingAt, Reached
<1>8. ~ Stored(g)
  BY <1>2, <1>3 DEF Stored
<1>9. ASSUME NEW h \in Gsn PROVE Stored(h)' <=> Stored(h) \/ h = g
  <2>1. Queue(h) \in Poller /\ h # None
    BY GsnFacts
  <2>2. CASE h = g
    BY <1>3, <1>4, <1>5, <2>1, <2>2 DEF Stored
  <2>3. CASE h # g
    <3>1. inserting'[Queue(h)] = h <=> inserting[Queue(h)] = h
      BY <1>2, <1>5, <2>1, <2>3
    <3>2. QED
      BY <1>4, <2>3, <3>1 DEF Stored
  <2>4. QED
    BY <2>2, <2>3
<1>10. PollInv'
  BY <1>0, <1>4, <1>6, <1>7 DEF PollInv
<1>11. QED
  BY <1>2, <1>8, <1>9, <1>10

(* The other actions do not touch what the polling threads have counted.   *)
LEMMA PollUnchanged ==
  ASSUME PollInv, UNCHANGED <<got, latest, acks, inserting>>
  PROVE  PollInv' /\ \A h \in Gsn : Stored(h)' <=> Stored(h)
<1>1. \A h : Copies(h)' = Copies(h) /\ (Reached(h)' <=> Reached(h))
  BY DEF Copies, Reached
<1>2. acks' = acks /\ inserting' = inserting
  OBVIOUS
<1>3. \A h : CountedAt(h)' <=> CountedAt(h)
  BY <1>1, <1>2, Zenon DEF CountedAt
<1>4. \A p : InsertingAt(p)' <=> InsertingAt(p)
  BY <1>2 DEF InsertingAt, Reached
<1>5. \A h : Stored(h)' <=> Stored(h)
  BY <1>1, <1>2, Zenon DEF Stored
<1>6. PollTypes'
  BY DEF PollInv, PollTypes
<1>7. QED
  BY <1>3, <1>4, <1>5, <1>6 DEF PollInv

-----------------------------------------------------------------------------
(* The log and its iterators.                                              *)

LogTypes ==
  /\ posBlocks \in [Poller -> [Sender -> Nat]]
  /\ mem \in [Physical -> [0 .. BlockSize - 1 -> Gsn \cup {None}]]
  /\ blocks \in Seq(Physical \cup {None})
  /\ counters \in Seq(Nat)
  /\ first \in Nat \ {0} /\ numBlocks = first + 1
  /\ Len(blocks) = first + 1 /\ Len(counters) = first + 1
  /\ iter \in [App -> [index : Nat, block : Nat, known : Nat,
                       entry : {<< >>} \cup (Physical \X (0 .. BlockSize - 1))]]
  /\ delivered \in [App -> Seq(Gsn)]

(* The last two blocks of the log are the two blocks of memory.            *)
TwoBlocks ==
  /\ blocks[first] \in Physical /\ blocks[first + 1] \in Physical
  /\ blocks[first] # blocks[first + 1]

(* The iterators that have gone over block b - 1 of the log.               *)
Beyond(b) == {a \in App : iter[a].block >= b}
CountersOK == \A b \in 1 .. first + 1 : counters[b] = Cardinality(Beyond(b))

PositionsOK == \A q \in Poller, s \in Sender : posBlocks[q][s] <= numBlocks

(* How many entries iterator a has obtained.                               *)
Obtained(a) == Len(delivered[a]) + (IF iter[a].entry = << >> THEN 0 ELSE 1)

(* The iterator is at its next entry, in one of the two blocks; its block  *)
(* is that of the entry obtained last, to which it points until delivery.  *)
IteratorAt(a) ==
  /\ iter[a].index = Nth(a, Obtained(a))
  /\ iter[a].block \in {first - 1, first}
  /\ Obtained(a) = 0 => iter[a].block = 0
  /\ Obtained(a) # 0 => iter[a].block = BlockOf(iter[a].index - Apps)
  /\ iter[a].known <= numBlocks
  /\ iter[a].entry # << >> =>
       iter[a].entry = <<blocks[iter[a].block + 1], (iter[a].index - Apps) % BlockSize>>

(* What has been delivered is the beginning of the stride, all stored.     *)
HistoryAt(a) ==
  \A k \in 1 .. Len(delivered[a]) :
    delivered[a][k] = Nth(a, k - 1) /\ Stored(Nth(a, k - 1))

(* Place k of memory block p is the one of entry h.                        *)
InPlace(h, p, k) ==
  h % BlockSize = k /\ BlockOf(h) \in {first - 1, first} /\ blocks[BlockOf(h) + 1] = p

(* What is in memory has been stored, and is at its place.                 *)
MemoryAt(p, k) == \A h \in Gsn : mem[p][k] = h => InPlace(h, p, k) /\ Stored(h)

(* What has been stored has been delivered or is at its place in memory.   *)
KeptAt(g) ==
  Stored(g) => \/ Delivered(g)
               \/ \E p \in Physical : InPlace(g, p, g % BlockSize)
                                      /\ mem[p][g % BlockSize] = g

LogInv ==
  /\ LogTypes /\ TwoBlocks /\ CountersOK /\ PositionsOK
  /\ \A a \in App : IteratorAt(a) /\ HistoryAt(a)
  /\ \A p \in Physical, k \in 0 .. BlockSize - 1 : MemoryAt(p, k)
  /\ \A g \in Gsn : KeptAt(g)
  /\ ~ crashed

(* The number of threads and the size of a block are positive.             *)
LEMMA Sizes ==
  BlockSize \in Nat \ {0} /\ Apps \in Nat \ {0} /\ Apps <= BlockSize
BY BlockSizeAssumption, ThreadsAssumption

(* Application threads are numbers.                                        *)
LEMMA AppFacts == ASSUME NEW a \in App PROVE a \in Nat
BY Sizes DEF App

(* An entry has a block, a place in it and an application thread.          *)
LEMMA BlockFacts ==
  ASSUME NEW g \in Nat
  PROVE  BlockOf(g) \in Nat /\ g % BlockSize \in 0 .. BlockSize - 1 /\ g % Apps \in App
<1>1. BlockOf(g) \in Nat
  BY Sizes, DivMod DEF BlockOf
<1>2. g % BlockSize \in 0 .. BlockSize - 1 /\ g % Apps \in 0 .. Apps - 1
  BY Sizes, ModRange
<1>3. QED
  BY <1>1, <1>2 DEF App

(* Later entries are not in earlier blocks.                                *)
LEMMA BlockMonotone ==
  ASSUME NEW g \in Nat, NEW h \in Nat, g <= h
  PROVE  BlockOf(g) <= BlockOf(h)
BY Sizes, DivMonotone DEF BlockOf

(* There are Apps application threads.                                     *)
LEMMA AppsCounted == IsFiniteSet(App) /\ Cardinality(App) = Apps
<1>1. Apps - 1 \in Int /\ 0 \in Int /\ Apps \in Nat \ {0}
  BY ThreadsAssumption
<1>2. QED
  BY <1>1, FS_Interval DEF App

(* A pair is not the empty tuple.                                          *)
LEMMA PairNotEmpty ==
  ASSUME NEW x, NEW y PROVE <<x, y>> # << >>
OBVIOUS

(* The numbers of an iterator: the index of its next entry is not before   *)
(* its block, and with an entry obtained the last index is a stride back.  *)
LEMMA IteratorFacts ==
  ASSUME LogTypes, NEW a \in App, IteratorAt(a)
  PROVE  /\ Len(delivered[a]) \in Nat /\ Obtained(a) \in Nat
         /\ iter[a].index \in Nat /\ iter[a].block \in Nat
         /\ Obtained(a) # 0 => iter[a].index - Apps = Nth(a, Obtained(a) - 1)
                               /\ iter[a].index - Apps \in Nat
         /\ iter[a].block <= NextBlock(a) /\ NextBlock(a) \in Nat
<1>1. Len(delivered[a]) \in Nat /\ Obtained(a) \in Nat
  BY DEF LogTypes, Obtained
<1>2. iter[a].index \in Nat /\ iter[a].block \in Nat
  BY DEF LogTypes
<1>3. ASSUME Obtained(a) # 0
      PROVE  iter[a].index - Apps = Nth(a, Obtained(a) - 1) /\ iter[a].index - Apps \in Nat
  <2>1. PICK n \in Nat : Obtained(a) = n + 1
    BY <1>1, <1>3
  <2>2. Nth(a, n + 1) = Nth(a, n) + Apps /\ Nth(a, n) \in Nat
    BY NthSteps
  <2>3. iter[a].index = Nth(a, n + 1) /\ Obtained(a) - 1 = n
    BY <2>1 DEF IteratorAt
  <2>4. iter[a].index - Apps = Nth(a, n)
    BY <2>2, <2>3, Sizes
  <2>5. QED
    BY <2>2, <2>3, <2>4
<1>4. NextBlock(a) \in Nat
  BY <1>2, BlockFacts DEF NextBlock
<1>5. iter[a].block <= NextBlock(a)
  <2>1. CASE Obtained(a) = 0
    BY <1>4, <2>1 DEF IteratorAt
  <2>2. CASE Obtained(a) # 0
    <3>1. PICK i \in Nat : i = iter[a].index - Apps
      BY <1>3, <2>2
    <3>2. iter[a].block = BlockOf(i) /\ i <= iter[a].index
      BY <1>2, <2>2, <3>1, Sizes DEF IteratorAt
    <3>3. BlockOf(i) <= BlockOf(iter[a].index)
      BY <1>2, <3>2, BlockMonotone
    <3>4. QED
      BY <3>2, <3>3 DEF NextBlock
  <2>3. QED
    BY <2>1, <2>2
<1>6. QED
  BY <1>1, <1>2, <1>3, <1>4, <1>5

(* An entry of a block that its application thread has left is delivered.  *)
LEMMA Passed ==
  ASSUME LogInv, NEW g \in Gsn, BlockOf(g) < iter[g % Apps].block
  PROVE  Delivered(g) /\ Stored(g)
<1> DEFINE a == g % Apps
<1>1. g \in Nat /\ a \in App
  BY GsnFacts, BlockFacts
<1> HIDE DEF a
<1>2. LogTypes /\ IteratorAt(a) /\ HistoryAt(a)
  BY <1>1 DEF LogInv
<1>3. BlockOf(g) \in Nat /\ BlockOf(g) < iter[a].block
  BY <1>1, BlockFacts DEF a
<1>4. /\ Len(delivered[a]) \in Nat /\ Obtained(a) \in Nat /\ Obtained(a) # 0
      /\ iter[a].index - Apps = Nth(a, Obtained(a) - 1)
      /\ iter[a].index - Apps \in Nat
  <2>1. Obtained(a) # 0
    BY <1>2, <1>3 DEF IteratorAt
  <2>2. QED
    BY <1>1, <1>2, <2>1, IteratorFacts
<1>5. PICK i \in Nat : i = iter[a].index - Apps
  BY <1>4
<1>6. g < i
  <2>1. iter[a].block = BlockOf(i) /\ BlockOf(i) \in Nat
    BY <1>2, <1>4, <1>5, BlockFacts DEF IteratorAt
  <2>2. i <= g => BlockOf(i) <= BlockOf(g)
    BY <1>1, BlockMonotone
  <2>3. QED
    BY <1>1, <1>3, <2>1, <2>2
<1>7. PICK n \in Nat : n = Obtained(a) - 1
  BY <1>4
<1>8. g < Nth(a, n) /\ n <= Len(delivered[a])
  <2>1. n <= Len(delivered[a])
    BY <1>4, <1>7 DEF Obtained
  <2>2. QED
    BY <1>4, <1>5, <1>6, <1>7, <2>1
<1>9. PICK k \in 0 .. n - 1 : g = Nth(a, k)
  <2>1. g < Nth(g % Apps, n)
    BY <1>8 DEF a
  <2>2. \E k \in 0 .. n - 1 : g = Nth(g % Apps, k)
    BY <1>1, <2>1, NthCovers
  <2>3. QED
    BY <2>2 DEF a
<1>10. k + 1 \in 1 .. Len(delivered[a]) /\ (k + 1) - 1 = k
  BY <1>4, <1>7, <1>8
<1>11. delivered[a][k + 1] = g /\ Stored(g)
  <2>1. delivered[a][k + 1] = Nth(a, (k + 1) - 1) /\ Stored(Nth(a, (k + 1) - 1))
    BY <1>2, <1>10, Zenon DEF HistoryAt
  <2>2. QED
    BY <1>9, <1>10, <2>1
<1>12. k + 1 \in DOMAIN delivered[a]
  <2>1. delivered[a] \in Seq(Gsn)
    BY <1>1, <1>2 DEF LogTypes
  <2>2. QED
    BY <1>10, <2>1
<1>13. QED
  BY <1>1, <1>11, <1>12 DEF Delivered

(* A place of memory belongs to one entry.                                 *)
LEMMA OnePlace ==
  ASSUME LogTypes, TwoBlocks, NEW g \in Nat, NEW h \in Nat, NEW p, NEW k,
         InPlace(g, p, k), InPlace(h, p, k)
  PROVE  g = h
<1>1. BlockOf(g) \in Nat /\ BlockOf(h) \in Nat
  BY BlockFacts
<1>2. BlockOf(g) = BlockOf(h)
  BY <1>1, SMTT(30) DEF InPlace, TwoBlocks, LogTypes
<1>3. g % BlockSize = h % BlockSize
  BY DEF InPlace
<1>4. QED
  BY <1>2, <1>3, Sizes, DivModEqual DEF BlockOf

(* What the initial values of the constants must be for the iterators: a   *)
(* sequential subscriber has one application thread (the index that its    *)
(* iterators start from is 0), and current_blocks_ of an iterator, which   *)
(* nothing initialises, does not exceed the number of blocks.              *)
GoodStart == (Sequential => Apps = 1) /\ InitialBlocks \subseteq 0 .. 2

(* The log starts with two empty blocks and all iterators at their first   *)
(* entries.                                                                *)
LEMMA InitLog == GoodStart /\ Init => LogInv
<1> SUFFICES ASSUME GoodStart, Init PROVE LogInv
  OBVIOUS
<1>0. /\ posBlocks = [q \in Poller |-> [s \in Sender |-> 0]]
      /\ mem = [b \in Physical |-> [k \in 0 .. BlockSize - 1 |-> None]]
      /\ blocks = <<1, 2>> /\ counters = <<0, 0>>
      /\ first = 1 /\ numBlocks = 2
      /\ iter \in [App -> [index : 0 .. Apps - 1, block : {0}, known : InitialBlocks,
                           entry : {<< >>}]]
      /\ \A a \in App : iter[a].index = IF Sequential THEN 0 ELSE a
      /\ delivered = [a \in App |-> << >>]
      /\ crashed = FALSE
  BY DEF Init
<1>1. ASSUME NEW a \in App
      PROVE  /\ iter[a].index = a /\ iter[a].block = 0 /\ iter[a].known \in 0 .. 2
             /\ iter[a].entry = << >> /\ delivered[a] = << >>
             /\ iter[a].index \in Nat /\ iter[a].known \in Nat
  <2>1. Sequential => a = 0
    BY ThreadsAssumption DEF GoodStart, App
  <2>2. iter[a] \in [index : 0 .. Apps - 1, block : {0}, known : InitialBlocks,
                     entry : {<< >>}]
    BY <1>0
  <2>3. iter[a].block = 0 /\ iter[a].known \in 0 .. 2
    BY <2>2 DEF GoodStart
  <2>4. iter[a].entry = << >>
    BY <2>2
  <2>5. iter[a].index = a /\ a \in Nat
    BY <1>0, <2>1, AppFacts
  <2>6. delivered[a] = << >>
    BY <1>0
  <2>7. QED
    BY <2>3, <2>4, <2>5, <2>6
<1>2. LogTypes
  <2>1. iter \in [App -> [index : Nat, block : Nat, known : Nat,
                          entry : {<< >>} \cup (Physical \X (0 .. BlockSize - 1))]]
    <3> DEFINE E == {<< >>}
               F == {<< >>} \cup (Physical \X (0 .. BlockSize - 1))
    <3>1. InitialBlocks \subseteq Nat /\ 0 .. Apps - 1 \subseteq Nat /\ {0} \subseteq Nat
      BY InitialBlocksAssumption, Sizes
    <3>2. E \subseteq F
      OBVIOUS
    <3>3. iter \in [App -> [index : 0 .. Apps - 1, block : {0}, known : InitialBlocks,
                            entry : E]]
      BY <1>0
    <3>4. iter \in [App -> [index : Nat, block : Nat, known : Nat, entry : F]]
      <4> HIDE DEF E, F
      <4> QED BY <3>1, <3>2, <3>3
    <3>5. QED
      BY <3>4
  <2>2. delivered \in [App -> Seq(Gsn)]
    <3>1. << >> \in Seq(Gsn)
      OBVIOUS
    <3>2. QED
      BY <1>0, <3>1
  <2>3. /\ blocks \in Seq(Physical \cup {None}) /\ counters \in Seq(Nat)
        /\ Len(blocks) = 2 /\ Len(counters) = 2
    BY <1>0 DEF Physical
  <2>4. /\ posBlocks \in [Poller -> [Sender -> Nat]]
        /\ mem \in [Physical -> [0 .. BlockSize - 1 -> Gsn \cup {None}]]
    BY <1>0
  <2>5. QED
    BY <1>0, <2>1, <2>2, <2>3, <2>4 DEF LogTypes
<1>3. TwoBlocks
  BY <1>0 DEF TwoBlocks, Physical
<1>4. CountersOK
  <2> SUFFICES ASSUME NEW b \in 1 .. 2 PROVE counters[b] = Cardinality(Beyond(b))
    BY <1>0 DEF CountersOK
  <2>1. Beyond(b) = {}
    BY <1>1 DEF Beyond
  <2>2. counters[b] = 0
    BY <1>0
  <2>3. QED
    BY <2>1, <2>2, FS_EmptySet
<1>5. PositionsOK
  BY <1>0 DEF PositionsOK
<1>6. ASSUME NEW a \in App PROVE IteratorAt(a) /\ HistoryAt(a)
  <2>0. iter[a].entry = << >> /\ delivered[a] = << >>
    BY <1>1
  <2>1. Len(delivered[a]) = 0 /\ Obtained(a) = 0
    BY <2>0 DEF Obtained
  <2>2. Nth(a, 0) = a
    BY NthSteps
  <2>3. IteratorAt(a)
    <3>1. iter[a].index = Nth(a, Obtained(a))
      BY <1>1, <2>1, <2>2
    <3>2. iter[a].block = 0 /\ iter[a].known \in 0 .. 2 /\ first = 1 /\ numBlocks = 2
      BY <1>0, <1>1, Zenon
    <3>3. iter[a].block \in {first - 1, first} /\ iter[a].known <= numBlocks
      BY <3>2
    <3>4. QED
      BY <2>0, <2>1, <3>1, <3>2, <3>3, Zenon DEF IteratorAt
  <2>4. HistoryAt(a)
    BY <2>1 DEF HistoryAt
  <2>5. QED
    BY <2>3, <2>4
<1>7. ASSUME NEW p \in Physical, NEW k \in 0 .. BlockSize - 1 PROVE MemoryAt(p, k)
  <2>1. mem[p][k] = None
    BY <1>0
  <2>2. QED
    BY <2>1, GsnFacts DEF MemoryAt
<1>8. ASSUME NEW g \in Gsn PROVE KeptAt(g)
  <2>1. g \in Nat /\ Queue(g) \in Poller /\ Origin(g) \in Sender
    BY GsnFacts
  <2>2. ~ Stored(g)
    BY <2>1 DEF Init, Stored, Reached, None
  <2>3. QED
    BY <2>2 DEF KeptAt
<1>9. QED
  BY <1>0, <1>2, <1>3, <1>4, <1>5, <1>6, <1>7, <1>8 DEF LogInv

(* What a thread has delivered stays its history while nothing stored is   *)
(* forgotten.                                                              *)
LEMMA HistoryKept ==
  ASSUME LogTypes, NEW a \in App, HistoryAt(a), delivered'[a] = delivered[a],
         \A h \in Gsn : Stored(h) => Stored(h)'
  PROVE  HistoryAt(a)'
<1> SUFFICES ASSUME NEW k \in 1 .. Len(delivered[a])
             PROVE  delivered'[a][k] = Nth(a, k - 1) /\ Stored(Nth(a, k - 1))'
  BY DEF HistoryAt
<1>1. delivered[a][k] = Nth(a, k - 1) /\ Stored(Nth(a, k - 1))
  BY DEF HistoryAt
<1>2. Nth(a, k - 1) \in Gsn
  <2>1. delivered[a] \in Seq(Gsn)
    BY DEF LogTypes
  <2>2. delivered[a][k] \in Gsn
    BY <2>1
  <2>3. QED
    BY <1>1, <2>2
<1>3. QED
  BY <1>1, <1>2

(* An action that touches neither the log nor the iterators, and stores    *)
(* nothing, keeps the invariant.                                           *)
LEMMA LogUnchanged ==
  ASSUME LogInv, \A h \in Gsn : Stored(h)' <=> Stored(h),
         UNCHANGED <<posBlocks, logVars, iter, delivered, crashed>>
  PROVE  LogInv'
<1>1. /\ posBlocks' = posBlocks /\ mem' = mem /\ blocks' = blocks
      /\ counters' = counters /\ first' = first /\ numBlocks' = numBlocks
      /\ iter' = iter /\ delivered' = delivered /\ crashed' = crashed
  BY DEF logVars
<1>2. LogTypes' /\ TwoBlocks' /\ PositionsOK'
  BY <1>1 DEF LogInv, LogTypes, TwoBlocks, PositionsOK
<1>3. CountersOK'
  <2>1. \A b : Beyond(b)' = Beyond(b)
    BY <1>1 DEF Beyond
  <2>2. QED
    BY <1>1, <2>1, Zenon DEF LogInv, CountersOK
<1>4. ASSUME NEW a \in App PROVE IteratorAt(a)' /\ HistoryAt(a)'
  <2>1. IteratorAt(a) /\ HistoryAt(a) /\ LogTypes
    BY DEF LogInv
  <2>2. IteratorAt(a)'
    BY <1>1, <2>1 DEF IteratorAt, Obtained
  <2>3. HistoryAt(a)'
    BY <1>1, <2>1, HistoryKept
  <2>4. QED
    BY <2>2, <2>3
<1>5. \A h, p, k : InPlace(h, p, k)' <=> InPlace(h, p, k)
  BY <1>1, Zenon DEF InPlace
<1>6. ASSUME NEW p \in Physical, NEW k \in 0 .. BlockSize - 1 PROVE MemoryAt(p, k)'
  BY <1>1, <1>5 DEF LogInv, MemoryAt
<1>7. ASSUME NEW g \in Gsn PROVE KeptAt(g)'
  <2>1. Delivered(g)' <=> Delivered(g)
    BY <1>1 DEF Delivered
  <2>2. QED
    BY <1>1, <1>5, <2>1 DEF LogInv, KeptAt
<1>8. QED
  BY <1>1, <1>2, <1>3, <1>4, <1>6, <1>7 DEF LogInv

(* The last two blocks of the log are where MemoryOf finds them.           *)
LEMMA LastBlocks ==
  ASSUME LogTypes, TwoBlocks, NEW b \in {first - 1, first}
  PROVE  /\ b \in Nat /\ b + 1 \in DOMAIN blocks
         /\ MemoryOf(b) = blocks[b + 1]
         /\ MemoryOf(b) \in Physical /\ MemoryOf(b) # None
<1>1. first \in Nat \ {0} /\ DOMAIN blocks = 1 .. first + 1
  BY DEF LogTypes
<1>2. b \in Nat /\ b + 1 \in 1 .. first + 1 /\ (b + 1 = first \/ b + 1 = first + 1)
  BY <1>1
<1>3. blocks[b + 1] \in Physical
  BY <1>2 DEF TwoBlocks
<1>4. QED
  BY <1>1, <1>2, <1>3 DEF MemoryOf, Physical, None

(* Insert keeps the log's invariant: had the entry's block been recycled,  *)
(* the entry would have been delivered, hence stored, before.              *)
LEMMA InsertLog ==
  ASSUME PollInv, LogInv, NEW q \in Poller, Insert(q)
  PROVE  LogInv'
<1>0. /\ LogTypes /\ TwoBlocks /\ CountersOK /\ PositionsOK
      /\ \A a \in App : IteratorAt(a) /\ HistoryAt(a)
      /\ \A p \in Physical, k \in 0 .. BlockSize - 1 : MemoryAt(p, k)
      /\ \A g \in Gsn : KeptAt(g)
      /\ ~ crashed
  BY DEF LogInv
<1>1. PICK g \in Gsn : g = inserting[q]
  BY InsertPoll
<1>2. ~ Stored(g) /\ \A h \in Gsn : Stored(h)' <=> Stored(h) \/ h = g
  BY <1>1, InsertPoll
<1>3. /\ g \in Nat /\ g # None /\ BlockOf(g) \in Nat /\ Origin(g) \in Sender
      /\ g % BlockSize \in 0 .. BlockSize - 1 /\ g % Apps \in App
  BY GsnFacts, BlockFacts
<1>4. /\ BlockOf(g) < posBlocks[q][Origin(g)] \/ BlockOf(g) < numBlocks
      /\ posBlocks' = [posBlocks EXCEPT ![q][Origin(g)] =
                         IF BlockOf(g) < posBlocks[q][Origin(g)]
                         THEN posBlocks[q][Origin(g)] ELSE numBlocks]
      /\ StoreEntry(q, g)
      /\ UNCHANGED <<blocks, counters, first, numBlocks, iter, delivered>>
  BY <1>1 DEF Insert, Origin
<1>5. /\ blocks' = blocks /\ counters' = counters /\ first' = first
      /\ numBlocks' = numBlocks /\ iter' = iter /\ delivered' = delivered
  BY <1>4
<1>6. BlockOf(g) \in {first - 1, first}
  <2>1. posBlocks[q][Origin(g)] \in Nat /\ posBlocks[q][Origin(g)] <= numBlocks
    BY <1>0, <1>3 DEF LogTypes, PositionsOK
  <2>2. first \in Nat \ {0} /\ numBlocks = first + 1
    BY <1>0 DEF LogTypes
  <2>3. BlockOf(g) <= first
    BY <1>3, <1>4, <2>1, <2>2
  <2>4. ~ (BlockOf(g) < iter[g % Apps].block)
    BY <1>2, Passed
  <2>5. iter[g % Apps].block \in {first - 1, first}
    BY <1>0, <1>3 DEF IteratorAt
  <2>6. QED
    BY <1>3, <2>2, <2>3, <2>4, <2>5
<1>7. PICK p \in Physical : p = MemoryOf(BlockOf(g)) /\ p = blocks[BlockOf(g) + 1]
  BY <1>0, <1>6, LastBlocks
<1>8. PICK k \in 0 .. BlockSize - 1 : k = g % BlockSize
  BY <1>3
<1>9. mem' = [mem EXCEPT ![p][k] = g] /\ crashed' = crashed
  BY <1>0, <1>4, <1>6, <1>7, <1>8, LastBlocks DEF StoreEntry
<1>10. \A c \in Physical, j \in 0 .. BlockSize - 1 :
         mem'[c][j] = IF c = p /\ j = k THEN g ELSE mem[c][j]
  BY <1>0, <1>9 DEF LogTypes
<1>11. \A h, c, j : InPlace(h, c, j)' <=> InPlace(h, c, j)
  BY <1>5, Zenon DEF InPlace
<1>12. InPlace(g, p, k)
  BY <1>6, <1>7, <1>8 DEF InPlace
<1>13. LogTypes'
  <2>1. mem' \in [Physical -> [0 .. BlockSize - 1 -> Gsn \cup {None}]]
    BY <1>0, <1>9 DEF LogTypes
  <2>2. posBlocks' \in [Poller -> [Sender -> Nat]]
    BY <1>0, <1>3, <1>4 DEF LogTypes
  <2>3. QED
    BY <1>0, <1>5, <2>1, <2>2 DEF LogTypes
<1>14. TwoBlocks'
  BY <1>0, <1>5 DEF TwoBlocks
<1>15. CountersOK'
  <2>1. \A b : Beyond(b)' = Beyond(b)
    BY <1>5 DEF Beyond
  <2>2. QED
    BY <1>0, <1>5, <2>1, Zenon DEF CountersOK
<1>16. PositionsOK'
  <2>1. first \in Nat \ {0} /\ numBlocks = first + 1
    BY <1>0 DEF LogTypes
  <2>2. \A t \in Poller, s \in Sender :
          posBlocks'[t][s] = posBlocks[t][s] \/ posBlocks'[t][s] = numBlocks
    BY <1>0, <1>3, <1>4 DEF LogTypes
  <2>3. QED
    BY <1>0, <1>5, <2>1, <2>2 DEF PositionsOK
<1>17. ASSUME NEW a \in App PROVE IteratorAt(a)' /\ HistoryAt(a)'
  <2>1. IteratorAt(a) /\ HistoryAt(a)
    BY <1>0
  <2>2. IteratorAt(a)'
    BY <1>5, <2>1 DEF IteratorAt, Obtained
  <2>3. HistoryAt(a)'
    BY <1>0, <1>2, <1>5, <2>1, HistoryKept
  <2>4. QED
    BY <2>2, <2>3
<1>18. ASSUME NEW c \in Physical, NEW j \in 0 .. BlockSize - 1 PROVE MemoryAt(c, j)'
  <2> SUFFICES ASSUME NEW h \in Gsn, mem'[c][j] = h
               PROVE  InPlace(h, c, j)' /\ Stored(h)'
    BY DEF MemoryAt
  <2>1. CASE c = p /\ j = k
    <3>1. h = g
      BY <1>10, <2>1
    <3>2. QED
      BY <1>2, <1>11, <1>12, <2>1, <3>1
  <2>2. CASE ~ (c = p /\ j = k)
    <3>1. mem[c][j] = h
      BY <1>10, <2>2
    <3>2. QED
      BY <1>0, <1>2, <1>11, <3>1 DEF MemoryAt
  <2>3. QED
    BY <2>1, <2>2
<1>19. ASSUME NEW h \in Gsn PROVE KeptAt(h)'
  <2>0. Delivered(h)' <=> Delivered(h)
    BY <1>5 DEF Delivered
  <2>1. CASE h = g
    <3>1. mem'[p][g % BlockSize] = g
      BY <1>8, <1>10
    <3>2. InPlace(g, p, g % BlockSize)'
      BY <1>8, <1>11, <1>12
    <3>3. QED
      BY <2>1, <3>1, <3>2 DEF KeptAt
  <2>2. CASE h # g
    <3> SUFFICES ASSUME Stored(h), ~ Delivered(h)
                 PROVE  \E c \in Physical : InPlace(h, c, h % BlockSize)'
                                            /\ mem'[c][h % BlockSize] = h
      BY <1>2, <2>0, <2>2 DEF KeptAt
    <3>1. PICK c \in Physical : InPlace(h, c, h % BlockSize) /\ mem[c][h % BlockSize] = h
      BY <1>0 DEF KeptAt
    <3>2. h \in Nat /\ h % BlockSize \in 0 .. BlockSize - 1
      BY GsnFacts, BlockFacts
    <3>3. ~ (c = p /\ h % BlockSize = k)
      <4> SUFFICES ASSUME c = p, h % BlockSize = k PROVE FALSE
        OBVIOUS
      <4>1. InPlace(h, p, k)
        BY <3>1
      <4>2. h = g
        BY <1>0, <1>3, <1>12, <3>2, <4>1, OnePlace
      <4>3. QED
        BY <2>2, <4>2
    <3>4. mem'[c][h % BlockSize] = h
      BY <1>10, <3>1, <3>2, <3>3
    <3>5. QED
      BY <1>11, <3>1, <3>4
  <2>3. QED
    BY <2>1, <2>2
<1>20. QED
  BY <1>0, <1>9, <1>13, <1>14, <1>15, <1>16, <1>17, <1>18, <1>19 DEF LogInv

(* The effect of recycle_blocks on a sequence of blocks.                   *)
LEMMA RecycledBlocks ==
  ASSUME NEW S, NEW B \in Seq(S), NEW f \in Nat \ {0}, Len(B) = f + 1,
         NEW x \in S, NEW y \in S, NEW C, C = Append([B EXCEPT ![f] = x], y)
  PROVE  /\ C \in Seq(S) /\ Len(C) = f + 2
         /\ C[f + 1] = B[f + 1] /\ C[f + 2] = y
<1> DEFINE D == [B EXCEPT ![f] = x]
<1>1. D \in Seq(S) /\ Len(D) = f + 1 /\ D[f + 1] = B[f + 1]
  OBVIOUS
<1> HIDE DEF D
<1>2. C = Append(D, y)
  BY DEF D
<1>3. QED
  BY <1>1, <1>2

(* The counters after recycle_blocks.                                      *)
LEMMA RecycledCounters ==
  ASSUME NEW B \in Seq(Nat), NEW f \in Nat \ {0}, Len(B) = f + 1,
         NEW C, C = Append(B, 0)
  PROVE  /\ C \in Seq(Nat) /\ Len(C) = f + 2 /\ C[f + 2] = 0
         /\ \A b \in 1 .. f + 1 : C[b] = B[b]
OBVIOUS

(* Recycle keeps the log's invariant: all iterators have left the block,   *)
(* so all of its entries have been delivered.                              *)
LEMMA RecycleLog ==
  ASSUME LogInv, Recycle, \A h \in Gsn : Stored(h)' <=> Stored(h)
  PROVE  LogInv'
<1>0. /\ LogTypes /\ TwoBlocks /\ CountersOK /\ PositionsOK
      /\ \A a \in App : IteratorAt(a) /\ HistoryAt(a)
      /\ \A p \in Physical, k \in 0 .. BlockSize - 1 : MemoryAt(p, k)
      /\ \A g \in Gsn : KeptAt(g)
      /\ ~ crashed
  BY DEF LogInv
<1>1. /\ GoneOver
      /\ mem' = [mem EXCEPT ![blocks[first]] = [k \in 0 .. BlockSize - 1 |-> None]]
      /\ blocks' = Append([blocks EXCEPT ![first] = None], blocks[first])
      /\ counters' = Append(counters, 0)
      /\ numBlocks' = numBlocks + 1 /\ first' = first + 1
      /\ posBlocks' = posBlocks /\ iter' = iter /\ delivered' = delivered
      /\ crashed' = crashed
  BY DEF Recycle, Clear, pollVars
<1>2. first \in Nat \ {0} /\ numBlocks = first + 1
  BY <1>0 DEF LogTypes
<1>3. PICK p \in Physical, n \in Physical :
        p = blocks[first] /\ n = blocks[first + 1] /\ p # n
  BY <1>0 DEF TwoBlocks
<1>4. \A c \in Physical : c = p \/ c = n
  BY <1>3 DEF Physical
<1>5. /\ blocks' \in Seq(Physical \cup {None}) /\ Len(blocks') = first + 2
      /\ blocks'[first + 1] = n /\ blocks'[first + 2] = p
  <2>1. /\ blocks \in Seq(Physical \cup {None}) /\ Len(blocks) = first + 1
        /\ None \in Physical \cup {None} /\ p \in Physical \cup {None}
    BY <1>0 DEF LogTypes
  <2>2. blocks' = Append([blocks EXCEPT ![first] = None], p)
    BY <1>1, <1>3
  <2>3. QED
    BY <1>2, <1>3, <2>1, <2>2, RecycledBlocks
<1>6. /\ counters' \in Seq(Nat) /\ Len(counters') = first + 2
      /\ counters'[first + 2] = 0
      /\ \A b \in 1 .. first + 1 : counters'[b] = counters[b]
  BY <1>0, <1>1, <1>2, RecycledCounters DEF LogTypes
<1>7. ASSUME NEW a \in App PROVE iter[a].block = first
  <2>1. counters[first] = Apps /\ first \in 1 .. first + 1
    BY <1>1, <1>2 DEF GoneOver
  <2>2. Cardinality(Beyond(first)) = Cardinality(App)
    BY <1>0, <2>1, AppsCounted DEF CountersOK
  <2>3. Beyond(first) \subseteq App
    BY DEF Beyond
  <2>4. Beyond(first) = App
    BY <2>2, <2>3, AppsCounted, FS_Subset
  <2>5. iter[a].block >= first /\ iter[a].block \in {first - 1, first}
    BY <1>0, <2>4 DEF Beyond, IteratorAt
  <2>6. QED
    BY <1>2, <2>5
<1>8. ASSUME NEW g \in Gsn, BlockOf(g) = first - 1 PROVE Delivered(g)
  <2>1. g % Apps \in App
    BY GsnFacts, BlockFacts
  <2>2. BlockOf(g) < iter[g % Apps].block
    BY <1>2, <1>7, <1>8, <2>1
  <2>3. QED
    BY <2>2, Passed
<1>9. \A c \in Physical, j \in 0 .. BlockSize - 1 :
        mem'[c][j] = IF c = p THEN None ELSE mem[c][j]
  BY <1>0, <1>1, <1>3 DEF LogTypes
<1>10. LogTypes'
  <2>1. mem' \in [Physical -> [0 .. BlockSize - 1 -> Gsn \cup {None}]]
    BY <1>0, <1>1, <1>3 DEF LogTypes
  <2>2. first' \in Nat \ {0} /\ numBlocks' = first' + 1 /\ first' + 1 = first + 2
    BY <1>1, <1>2
  <2>3. QED
    BY <1>0, <1>1, <1>5, <1>6, <2>1, <2>2 DEF LogTypes
<1>11. TwoBlocks'
  <2>1. blocks'[first'] = n /\ blocks'[first' + 1] = p
    <3>1. first' = first + 1 /\ first' + 1 = first + 2
      BY <1>1, <1>2
    <3>2. QED
      BY <1>5, <3>1
  <2>2. QED
    BY <1>3, <2>1 DEF TwoBlocks
<1>12. CountersOK'
  <2>0. \A b : Beyond(b)' = Beyond(b)
    BY <1>1 DEF Beyond
  <2> SUFFICES ASSUME NEW b \in 1 .. first + 2
               PROVE  counters'[b] = Cardinality(Beyond(b))
    <3>1. first' + 1 = first + 2
      BY <1>1, <1>2
    <3>2. QED
      BY <2>0, <3>1 DEF CountersOK
  <2>1. CASE b = first + 2
    <3>1. Beyond(b) = {}
      BY <1>2, <1>7, <2>1 DEF Beyond
    <3>2. QED
      BY <1>6, <2>1, <3>1, FS_EmptySet
  <2>2. CASE b \in 1 .. first + 1
    BY <1>0, <1>6, <2>2 DEF CountersOK
  <2>3. QED
    BY <1>2, <2>1, <2>2
<1>13. PositionsOK'
  BY <1>0, <1>1, <1>2 DEF PositionsOK, LogTypes
<1>14. ASSUME NEW a \in App PROVE IteratorAt(a)' /\ HistoryAt(a)'
  <2>1. IteratorAt(a) /\ HistoryAt(a) /\ iter[a].block = first
    BY <1>0, <1>7
  <2>2. Obtained(a)' = Obtained(a)
    BY <1>1 DEF Obtained
  <2>3. iter[a].block \in {first' - 1, first'}
    BY <1>1, <1>2, <2>1
  <2>4. iter[a].known <= numBlocks'
    BY <1>0, <1>1, <1>2, <2>1 DEF IteratorAt, LogTypes
  <2>5. blocks'[iter[a].block + 1] = blocks[iter[a].block + 1]
    BY <1>3, <1>5, <2>1
  <2>6. IteratorAt(a)'
    BY <1>1, <2>1, <2>2, <2>3, <2>4, <2>5, Zenon DEF IteratorAt
  <2>7. HistoryAt(a)'
    BY <1>0, <1>1, <2>1, HistoryKept
  <2>8. QED
    BY <2>6, <2>7
<1>15. ASSUME NEW h \in Gsn, NEW k, InPlace(h, n, k) PROVE InPlace(h, n, k)'
  <2>1. BlockOf(h) \in Nat
    BY GsnFacts, BlockFacts
  <2>2. BlockOf(h) = first
    BY <1>2, <1>3, <1>15, <2>1 DEF InPlace
  <2>3. BlockOf(h) \in {first' - 1, first'} /\ blocks'[BlockOf(h) + 1] = n
    BY <1>1, <1>2, <1>5, <2>2
  <2>4. QED
    BY <1>15, <2>3 DEF InPlace
<1>16. ASSUME NEW c \in Physical, NEW j \in 0 .. BlockSize - 1 PROVE MemoryAt(c, j)'
  <2> SUFFICES ASSUME NEW h \in Gsn, mem'[c][j] = h
               PROVE  InPlace(h, c, j)' /\ Stored(h)'
    BY DEF MemoryAt
  <2>1. c # p /\ mem[c][j] = h
    BY <1>9, GsnFacts
  <2>2. c = n /\ InPlace(h, c, j) /\ Stored(h)
    BY <1>0, <1>4, <2>1 DEF MemoryAt
  <2>3. QED
    BY <1>15, <2>2
<1>17. ASSUME NEW g \in Gsn PROVE KeptAt(g)'
  <2>0. Delivered(g)' <=> Delivered(g)
    BY <1>1 DEF Delivered
  <2> SUFFICES ASSUME Stored(g), ~ Delivered(g)
               PROVE  InPlace(g, n, g % BlockSize)' /\ mem'[n][g % BlockSize] = g
    BY <1>3, <2>0 DEF KeptAt
  <2>1. PICK c \in Physical : InPlace(g, c, g % BlockSize) /\ mem[c][g % BlockSize] = g
    BY <1>0 DEF KeptAt
  <2>2. g \in Nat /\ g % BlockSize \in 0 .. BlockSize - 1 /\ BlockOf(g) \in Nat
    BY GsnFacts, BlockFacts
  <2>3. c = n
    <3>1. BlockOf(g) = first
      BY <1>8, <2>1 DEF InPlace
    <3>2. QED
      BY <1>3, <2>1, <3>1 DEF InPlace
  <2>4. InPlace(g, n, g % BlockSize)'
    BY <1>15, <2>1, <2>3
  <2>5. mem'[n][g % BlockSize] = g
    BY <1>3, <1>9, <2>1, <2>2, <2>3
  <2>6. QED
    BY <2>4, <2>5
<1>18. QED
  BY <1>0, <1>1, <1>10, <1>11, <1>12, <1>13, <1>14, <1>16, <1>17 DEF LogInv

(* Deliver keeps the log's invariant: what the iterator points to is the   *)
(* entry obtained last, although the memory may have held others.          *)
LEMMA DeliverLog ==
  ASSUME LogInv, NEW a \in App, Deliver(a), \A h \in Gsn : Stored(h)' <=> Stored(h)
  PROVE  LogInv'
<1>0. /\ LogTypes /\ TwoBlocks /\ CountersOK /\ PositionsOK
      /\ \A b \in App : IteratorAt(b) /\ HistoryAt(b)
      /\ \A p \in Physical, k \in 0 .. BlockSize - 1 : MemoryAt(p, k)
      /\ \A g \in Gsn : KeptAt(g)
      /\ ~ crashed
  BY DEF LogInv
<1>1. /\ iter[a].entry # << >> /\ Entry(a) # None
      /\ delivered' = [delivered EXCEPT ![a] = Append(@, Entry(a))]
      /\ iter' = [iter EXCEPT ![a].entry = << >>]
      /\ mem' = mem /\ blocks' = blocks /\ counters' = counters
      /\ first' = first /\ numBlocks' = numBlocks /\ posBlocks' = posBlocks
      /\ crashed' = crashed
  BY DEF Deliver, logVars, pollVars
<1>2. IteratorAt(a) /\ HistoryAt(a)
  BY <1>0
<1>3. PICK n \in Nat : n = Len(delivered[a]) /\ Obtained(a) = n + 1
  <2>1. Obtained(a) = Len(delivered[a]) + 1
    BY <1>1, Zenon DEF Obtained
  <2>2. Len(delivered[a]) \in Nat
    BY <1>0, <1>2, IteratorFacts
  <2>3. QED
    BY <2>1, <2>2
<1>4. PICK i \in Nat : i = iter[a].index - Apps /\ i = Nth(a, n)
  <2>1. Obtained(a) # 0 /\ Obtained(a) - 1 = n
    BY <1>3
  <2>2. iter[a].index - Apps = Nth(a, Obtained(a) - 1) /\ iter[a].index - Apps \in Nat
    BY <1>0, <1>2, <2>1, IteratorFacts
  <2>3. QED
    BY <2>1, <2>2
<1>5. iter[a].block = BlockOf(i) /\ iter[a].block \in {first - 1, first}
  BY <1>2, <1>3, <1>4 DEF IteratorAt
<1>6. PICK p \in Physical : p = blocks[BlockOf(i) + 1]
  BY <1>0, <1>5, LastBlocks
<1>7. PICK k \in 0 .. BlockSize - 1 : k = i % BlockSize
  BY BlockFacts
<1>8. iter[a].entry[1] = p /\ iter[a].entry[2] = k
  <2>1. iter[a].entry = <<blocks[iter[a].block + 1], (iter[a].index - Apps) % BlockSize>>
    BY <1>1, <1>2 DEF IteratorAt
  <2>2. iter[a].entry = <<p, k>>
    BY <1>4, <1>5, <1>6, <1>7, <2>1
  <2>3. QED
    BY <2>2
<1>9. PICK g \in Gsn : g = Entry(a) /\ g = mem[p][k]
  <2>1. Entry(a) = mem[p][k] /\ Entry(a) # None
    BY <1>1, <1>8, Zenon DEF Entry
  <2>2. mem[p][k] \in Gsn \cup {None}
    <3>1. mem \in [Physical -> [0 .. BlockSize - 1 -> Gsn \cup {None}]]
      BY <1>0, Zenon DEF LogTypes
    <3>2. QED
      BY <3>1
  <2>3. QED
    BY <2>1, <2>2
<1>10. InPlace(g, p, k) /\ Stored(g)
  BY <1>0, <1>9 DEF MemoryAt
<1>11. g = i
  <2>1. InPlace(i, p, k)
    BY <1>5, <1>6, <1>7 DEF InPlace
  <2>2. g \in Nat
    BY GsnFacts
  <2>3. QED
    BY <1>0, <1>10, <2>1, <2>2, OnePlace
<1>12. /\ delivered' = [delivered EXCEPT ![a] = Append(delivered[a], g)]
       /\ delivered'[a] = Append(delivered[a], g)
       /\ \A b \in App : b # a => delivered'[b] = delivered[b]
       /\ delivered' \in [App -> Seq(Gsn)]
  BY <1>0, <1>1, <1>9 DEF LogTypes
<1>13. \A b \in App : /\ iter'[b].index = iter[b].index /\ iter'[b].block = iter[b].block
                      /\ iter'[b].known = iter[b].known
                      /\ b # a => iter'[b] = iter[b]
  BY <1>0, <1>1 DEF LogTypes
<1>14. iter'[a].entry = << >>
  BY <1>0, <1>1 DEF LogTypes
<1>15. LogTypes'
  <2> DEFINE E == {<< >>} \cup (Physical \X (0 .. BlockSize - 1))
  <2>1. << >> \in E /\ iter \in [App -> [index : Nat, block : Nat, known : Nat, entry : E]]
    BY <1>0 DEF LogTypes
  <2>2. iter' \in [App -> [index : Nat, block : Nat, known : Nat, entry : E]]
    <3> HIDE DEF E
    <3> QED BY <1>1, <2>1
  <2>3. QED
    BY <1>0, <1>1, <1>12, <2>2 DEF LogTypes
<1>16. CountersOK'
  <2>1. \A b : Beyond(b)' = Beyond(b)
    BY <1>13 DEF Beyond
  <2>2. QED
    BY <1>0, <1>1, <2>1, Zenon DEF CountersOK
<1>17. TwoBlocks' /\ PositionsOK'
  BY <1>0, <1>1 DEF TwoBlocks, PositionsOK
<1>18. ASSUME NEW b \in App, b # a PROVE IteratorAt(b)' /\ HistoryAt(b)'
  <2>1. IteratorAt(b) /\ HistoryAt(b) /\ iter'[b] = iter[b] /\ delivered'[b] = delivered[b]
    BY <1>0, <1>12, <1>13, <1>18
  <2>2. IteratorAt(b)'
    BY <1>1, <2>1 DEF IteratorAt, Obtained
  <2>3. HistoryAt(b)'
    BY <1>0, <2>1, HistoryKept
  <2>4. QED
    BY <2>2, <2>3
<1>19. Len(delivered'[a]) = n + 1 /\ delivered'[a][n + 1] = g
       /\ \A j \in 1 .. n : delivered'[a][j] = delivered[a][j]
  <2>1. delivered[a] \in Seq(Gsn)
    BY <1>0 DEF LogTypes
  <2>2. QED
    BY <1>3, <1>12, <2>1
<1>20. IteratorAt(a)'
  <2>1. Obtained(a)' = Obtained(a)
    <3>1. Obtained(a)' = Len(delivered'[a]) + 0
      BY <1>14, Zenon DEF Obtained
    <3>2. QED
      BY <1>3, <1>19, <3>1
  <2>2. QED
    BY <1>1, <1>2, <1>13, <1>14, <2>1, Zenon DEF IteratorAt
<1>21. HistoryAt(a)'
  <2> SUFFICES ASSUME NEW j \in 1 .. n + 1
               PROVE  delivered'[a][j] = Nth(a, j - 1) /\ Stored(Nth(a, j - 1))'
    BY <1>19 DEF HistoryAt
  <2>1. CASE j = n + 1
    <3>1. j - 1 = n /\ delivered'[a][j] = g /\ Nth(a, n) = g
      BY <1>4, <1>11, <1>19, <2>1
    <3>2. QED
      BY <1>10, <3>1
  <2>2. CASE j \in 1 .. n
    <3>1. delivered[a][j] = Nth(a, j - 1) /\ Stored(Nth(a, j - 1))
      BY <1>2, <1>3, <2>2 DEF HistoryAt
    <3>2. delivered[a] \in Seq(Gsn)
      BY <1>0 DEF LogTypes
    <3>3. delivered[a][j] \in Gsn
      BY <1>3, <2>2, <3>2
    <3>4. QED
      BY <1>19, <2>2, <3>1, <3>3
  <2>3. QED
    BY <2>1, <2>2
<1>22. \A h, c, j : InPlace(h, c, j)' <=> InPlace(h, c, j)
  BY <1>1, Zenon DEF InPlace
<1>23. ASSUME NEW c \in Physical, NEW j \in 0 .. BlockSize - 1 PROVE MemoryAt(c, j)'
  BY <1>0, <1>1, <1>22 DEF MemoryAt
<1>24. ASSUME NEW h \in Gsn PROVE KeptAt(h)'
  <2>1. Delivered(h) => Delivered(h)'
    <3> SUFFICES ASSUME NEW b \in App, NEW j \in DOMAIN delivered[b], delivered[b][j] = h
                 PROVE  j \in DOMAIN delivered'[b] /\ delivered'[b][j] = h
      BY DEF Delivered
    <3>1. CASE b = a
      <4>1. DOMAIN delivered[a] = 1 .. n /\ DOMAIN delivered'[a] = 1 .. n + 1
        BY <1>0, <1>3, <1>12, <1>19 DEF LogTypes
      <4>2. QED
        BY <1>19, <3>1, <4>1
    <3>2. CASE b # a
      BY <1>12, <3>2
    <3>3. QED
      BY <3>1, <3>2
  <2>2. QED
    BY <1>0, <1>1, <1>22, <2>1 DEF KeptAt
<1>25. QED
  BY <1>0, <1>1, <1>15, <1>16, <1>17, <1>18, <1>20, <1>21, <1>23, <1>24 DEF LogInv

(* Obtain keeps the log's invariant: the block of the next entry is one of *)
(* the last two, and the counters of the blocks left behind are raised.    *)
LEMMA ObtainLog ==
  ASSUME LogInv, NEW a \in App, Obtain(a), \A h \in Gsn : Stored(h)' <=> Stored(h)
  PROVE  LogInv'
<1>0. /\ LogTypes /\ TwoBlocks /\ CountersOK /\ PositionsOK
      /\ \A b \in App : IteratorAt(b) /\ HistoryAt(b)
      /\ \A p \in Physical, k \in 0 .. BlockSize - 1 : MemoryAt(p, k)
      /\ \A g \in Gsn : KeptAt(g)
      /\ ~ crashed
  BY DEF LogInv
<1> DEFINE B == NextBlock(a)
<1>1. /\ iter[a].entry = << >> /\ BlockKnown(a) /\ Count(a)
      /\ iter' = [iter EXCEPT ![a] =
           [index |-> iter[a].index + Apps,
            block |-> B,
            known |-> IF B < iter[a].known THEN iter[a].known ELSE numBlocks,
            entry |-> <<MemoryOf(B), iter[a].index % BlockSize>>]]
      /\ crashed' = (MemoryOf(B) = None)
      /\ mem' = mem /\ blocks' = blocks /\ first' = first /\ numBlocks' = numBlocks
      /\ posBlocks' = posBlocks /\ delivered' = delivered
  BY DEF Obtain, pollVars
<1>2. IteratorAt(a) /\ HistoryAt(a)
  BY <1>0
<1>3. /\ iter[a].index \in Nat /\ iter[a].block \in Nat /\ iter[a].known \in Nat
      /\ B \in Nat /\ iter[a].block <= B
  <2>1. iter[a].known \in Nat
    BY <1>0 DEF LogTypes
  <2>2. QED
    BY <1>0, <1>2, <2>1, IteratorFacts
<1>4. first \in Nat \ {0} /\ numBlocks = first + 1
  BY <1>0 DEF LogTypes
<1>5. B \in {first - 1, first}
  <2>1. B < numBlocks
    BY <1>1, <1>2, <1>3, <1>4 DEF BlockKnown, IteratorAt
  <2>2. iter[a].block \in {first - 1, first}
    BY <1>2 DEF IteratorAt
  <2>3. QED
    BY <1>3, <1>4, <2>1, <2>2
<1>6. PICK p \in Physical : p = MemoryOf(B) /\ p = blocks[B + 1] /\ p # None
  BY <1>0, <1>5, LastBlocks
<1>7. PICK k \in 0 .. BlockSize - 1 : k = iter[a].index % BlockSize
  BY <1>3, BlockFacts
<1>8. PICK v \in Nat : /\ v = IF B < iter[a].known THEN iter[a].known ELSE numBlocks
                       /\ v <= numBlocks
  <2>1. iter[a].known <= numBlocks
    BY <1>2 DEF IteratorAt
  <2>2. QED
    BY <1>3, <1>4, <2>1
<1>9. PICK x \in Nat : x = iter[a].index + Apps /\ x - Apps = iter[a].index
  BY <1>3, Sizes
<1>10. iter' = [iter EXCEPT ![a] =
                  [index |-> x, block |-> B, known |-> v, entry |-> <<p, k>>]]
  BY <1>1, <1>6, <1>7, <1>8, <1>9
<1>11. /\ iter'[a].index = x /\ iter'[a].block = B /\ iter'[a].known = v
       /\ iter'[a].entry = <<p, k>>
       /\ \A b \in App : b # a => iter'[b] = iter[b]
  <2>1. iter'[a] = [index |-> x, block |-> B, known |-> v, entry |-> <<p, k>>]
    BY <1>0, <1>10 DEF LogTypes
  <2>2. \A b \in App : b # a => iter'[b] = iter[b]
    BY <1>0, <1>10 DEF LogTypes
  <2>3. QED
    BY <2>1, <2>2
<1>12. BlockOf(x - Apps) = B
  BY <1>9 DEF NextBlock
<1>13. crashed' = FALSE
  BY <1>1, <1>6
<1> HIDE DEF B
<1>14. /\ counters' = [b \in DOMAIN counters |->
                         IF b - 1 >= iter[a].block /\ b - 1 < B
                         THEN counters[b] + 1 ELSE counters[b]]
  BY <1>1, Zenon DEF Count, B
<1>15. /\ counters' \in Seq(Nat) /\ Len(counters') = first + 1
       /\ \A b \in 1 .. first + 1 :
            counters'[b] = IF b - 1 >= iter[a].block /\ b - 1 < B
                           THEN counters[b] + 1 ELSE counters[b]
  <2>1. counters \in Seq(Nat) /\ Len(counters) = first + 1
    BY <1>0 DEF LogTypes
  <2>2. DOMAIN counters = 1 .. first + 1 /\ \A b \in 1 .. first + 1 : counters[b] \in Nat
    BY <2>1
  <2>3. counters' \in [1 .. first + 1 -> Nat]
    BY <1>14, <2>2
  <2>4. counters' \in Seq(Nat) /\ Len(counters') = first + 1
    BY <1>4, <2>3
  <2>5. QED
    BY <1>14, <2>2, <2>4
<1>16. LogTypes'
  <2> DEFINE E == {<< >>} \cup (Physical \X (0 .. BlockSize - 1))
  <2>1. iter \in [App -> [index : Nat, block : Nat, known : Nat, entry : E]]
    BY <1>0 DEF LogTypes
  <2>2. <<p, k>> \in E
    OBVIOUS
  <2>3. iter' \in [App -> [index : Nat, block : Nat, known : Nat, entry : E]]
    <3> HIDE DEF E
    <3>1. [index |-> x, block |-> B, known |-> v, entry |-> <<p, k>>]
            \in [index : Nat, block : Nat, known : Nat, entry : E]
      BY <1>3, <2>2
    <3>2. QED
      BY <1>10, <2>1, <3>1
  <2>4. QED
    BY <1>0, <1>1, <1>15, <2>3 DEF LogTypes
<1>17. TwoBlocks' /\ PositionsOK'
  BY <1>0, <1>1 DEF TwoBlocks, PositionsOK
<1>18. CountersOK'
  <2> SUFFICES ASSUME NEW b \in 1 .. first + 1
               PROVE  counters'[b] = Cardinality(Beyond(b)')
    BY <1>1 DEF CountersOK
  <2>1. b \in Nat /\ counters[b] = Cardinality(Beyond(b))
    BY <1>0, <1>4 DEF CountersOK
  <2>2. IsFiniteSet(Beyond(b)) /\ Cardinality(Beyond(b)) \in Nat
    <3>1. Beyond(b) \subseteq App
      BY DEF Beyond
    <3>2. QED
      BY <3>1, AppsCounted, FS_Subset, FS_CardinalityType
  <2>3. CASE b - 1 >= iter[a].block /\ b - 1 < B
    <3>1. a \notin Beyond(b)
      BY <1>3, <2>1, <2>3 DEF Beyond
    <3>2. Beyond(b)' = Beyond(b) \cup {a}
      <4>1. iter'[a].block >= b
        BY <1>3, <1>11, <2>1, <2>3
      <4>2. QED
        BY <1>11, <4>1 DEF Beyond
    <3>3. Cardinality(Beyond(b)') = Cardinality(Beyond(b)) + 1
      BY <2>2, <3>1, <3>2, FS_AddElement
    <3>4. counters'[b] = counters[b] + 1
      BY <1>15, <2>3
    <3>5. QED
      BY <2>1, <3>3, <3>4
  <2>4. CASE ~ (b - 1 >= iter[a].block /\ b - 1 < B)
    <3>1. iter'[a].block >= b <=> iter[a].block >= b
      BY <1>3, <1>11, <2>1, <2>4
    <3>2. Beyond(b)' = Beyond(b)
      BY <1>11, <3>1 DEF Beyond
    <3>3. counters'[b] = counters[b]
      BY <1>15, <2>4
    <3>4. QED
      BY <2>1, <3>2, <3>3
  <2>5. QED
    BY <2>3, <2>4
<1>19. ASSUME NEW b \in App, b # a PROVE IteratorAt(b)'
  <2>1. IteratorAt(b) /\ iter'[b] = iter[b]
    BY <1>0, <1>11, <1>19
  <2>2. QED
    BY <1>1, <2>1 DEF IteratorAt, Obtained
<1>20. IteratorAt(a)'
  <2>1. PICK n \in Nat : n = Len(delivered[a])
    BY <1>0, <1>2, IteratorFacts
  <2>2. Obtained(a) = n + 0
    BY <1>1, <2>1, Zenon DEF Obtained
  <2>3. Obtained(a)' = n + 1
    <3>1. iter'[a].entry # << >>
      BY <1>11, PairNotEmpty, Zenon
    <3>2. QED
      BY <1>1, <2>1, <3>1, Zenon DEF Obtained
  <2>4. x = Nth(a, n + 1)
    <3>1. iter[a].index = Nth(a, n)
      BY <1>2, <2>2 DEF IteratorAt
    <3>2. Nth(a, n + 1) = Nth(a, n) + Apps
      BY NthSteps
    <3>3. QED
      BY <1>9, <3>1, <3>2
  <2>5. iter'[a].index = Nth(a, Obtained(a)')
    BY <1>11, <2>3, <2>4
  <2>6. iter'[a].block \in {first' - 1, first'} /\ iter'[a].known <= numBlocks'
    BY <1>1, <1>5, <1>8, <1>11
  <2>7. iter'[a].block = BlockOf(iter'[a].index - Apps)
    BY <1>11, <1>12
  <2>8. iter'[a].entry = <<blocks'[iter'[a].block + 1], (iter'[a].index - Apps) % BlockSize>>
    <3>1. p = blocks'[iter'[a].block + 1]
      BY <1>1, <1>6, <1>11
    <3>2. k = (iter'[a].index - Apps) % BlockSize
      BY <1>7, <1>9, <1>11
    <3>3. QED
      BY <1>11, <3>1, <3>2, Zenon
  <2>9. Obtained(a)' # 0
    BY <2>3
  <2>10. QED
    BY <2>5, <2>6, <2>7, <2>8, <2>9, Zenon DEF IteratorAt
<1>21. ASSUME NEW b \in App PROVE HistoryAt(b)'
  BY <1>0, <1>1, HistoryKept
<1>22. \A h, c, j : InPlace(h, c, j)' <=> InPlace(h, c, j)
  BY <1>1, Zenon DEF InPlace
<1>23. ASSUME NEW c \in Physical, NEW j \in 0 .. BlockSize - 1 PROVE MemoryAt(c, j)'
  BY <1>0, <1>1, <1>22 DEF MemoryAt
<1>24. ASSUME NEW h \in Gsn PROVE KeptAt(h)'
  <2>1. Delivered(h)' <=> Delivered(h)
    BY <1>1 DEF Delivered
  <2>2. QED
    BY <1>0, <1>1, <1>22, <2>1 DEF KeptAt
<1>25. QED
  BY <1>13, <1>16, <1>17, <1>18, <1>19, <1>20, <1>21, <1>23, <1>24 DEF LogInv

-----------------------------------------------------------------------------
(* The theorems.                                                           *)

(* Every step keeps both invariants.                                       *)
LEMMA NextKeeps ==
  ASSUME PollInv, LogInv, [Next]_vars
  PROVE  PollInv' /\ LogInv'
<1>1. CASE UNCHANGED vars
  BY <1>1, PollUnchanged, LogUnchanged DEF vars, pollVars
<1>2. ASSUME NEW q \in Poller, NEW r \in Replicas, NEW s \in Sender, Receive(q, r, s)
      PROVE  PollInv' /\ LogInv'
  <2>1. UNCHANGED <<posBlocks, logVars, iter, delivered, crashed>>
    BY <1>2 DEF Receive
  <2>2. QED
    BY <1>2, <2>1, ReceivePoll, LogUnchanged
<1>3. ASSUME NEW q \in Poller, Insert(q) PROVE PollInv' /\ LogInv'
  BY <1>3, InsertPoll, InsertLog
<1>4. ASSUME NEW q \in Poller, PollEnd(q) PROVE PollInv' /\ LogInv'
  BY <1>4, PollUnchanged, LogUnchanged DEF PollEnd, pollVars
<1>5. CASE Recycle
  <2>1. UNCHANGED <<got, latest, acks, inserting>>
    BY <1>5 DEF Recycle, pollVars
  <2>2. QED
    BY <1>5, <2>1, PollUnchanged, RecycleLog
<1>6. CASE Stop
  BY <1>6, PollUnchanged, LogUnchanged DEF Stop, pollVars
<1>7. ASSUME NEW a \in App, Obtain(a) PROVE PollInv' /\ LogInv'
  <2>1. UNCHANGED <<got, latest, acks, inserting>>
    BY <1>7 DEF Obtain, pollVars
  <2>2. QED
    BY <1>7, <2>1, PollUnchanged, ObtainLog
<1>8. ASSUME NEW a \in App, Deliver(a) PROVE PollInv' /\ LogInv'
  <2>1. UNCHANGED <<got, latest, acks, inserting>>
    BY <1>8 DEF Deliver, pollVars
  <2>2. QED
    BY <1>8, <2>1, PollUnchanged, DeliverLog
<1>9. ASSUME NEW a \in App, ProcessEnd(a) PROVE PollInv' /\ LogInv'
  BY <1>9, PollUnchanged, LogUnchanged DEF ProcessEnd, pollVars
<1>10. QED
  BY <1>1, <1>2, <1>3, <1>4, <1>5, <1>6, <1>7, <1>8, <1>9, Zenon
  DEF Next, Poll, Process

(* The inductive invariant: what the polling threads have counted, and     *)
(* where the log, its memory and its iterators stand.                      *)
THEOREM SubscriberInvariant == GoodStart => (Spec => [](PollInv /\ LogInv))
<1> SUFFICES ASSUME GoodStart PROVE Spec => [](PollInv /\ LogInv)
  OBVIOUS
<1>1. Init => PollInv /\ LogInv
  BY InitPoll, InitLog
<1>2. PollInv /\ LogInv /\ [Next]_vars => (PollInv /\ LogInv)'
  BY NextKeeps
<1>3. QED
  BY <1>1, <1>2, PTL DEF Spec

(* No thread follows a pointer to a block that has been recycled or does   *)
(* not exist (position::insert and iterator::next_entry index blocks_      *)
(* without a test).                                                        *)
THEOREM NoThreadCrashes == GoodStart => (Spec => []NoCrash)
<1> SUFFICES ASSUME GoodStart PROVE Spec => []NoCrash
  OBVIOUS
<1>1. PollInv /\ LogInv => NoCrash
  BY DEF LogInv, NoCrash
<1>2. QED
  BY <1>1, SubscriberInvariant, PTL

(* Every application thread hands exactly the entries of its stride to the *)
(* callback, in order, without gaps or repetitions, although the control   *)
(* thread reuses the memory of the blocks.                                 *)
THEOREM DeliveryInOrder == GoodStart => (Spec => []DeliveredInOrder)
<1> SUFFICES ASSUME GoodStart PROVE Spec => []DeliveredInOrder
  OBVIOUS
<1>1. ASSUME PollInv, LogInv PROVE DeliveredInOrder
  <2> SUFFICES ASSUME NEW a \in App, NEW k \in DOMAIN delivered[a]
               PROVE  delivered[a][k] = a + (k - 1) * Apps
    BY DEF DeliveredInOrder
  <2>1. LogTypes /\ HistoryAt(a)
    BY <1>1 DEF LogInv
  <2>2. delivered[a] \in Seq(Gsn)
    BY <2>1 DEF LogTypes
  <2>3. k \in 1 .. Len(delivered[a])
    BY <2>2
  <2>4. delivered[a][k] = Nth(a, k - 1)
    BY <2>1, <2>3 DEF HistoryAt
  <2>5. QED
    BY <2>4, Zenon DEF Nth
<1>2. QED
  BY <1>1, SubscriberInvariant, PTL

(* What has been delivered has been stored.                                *)
LEMMA DeliveredIsStored ==
  ASSUME LogInv, NEW g \in Gsn, Delivered(g)
  PROVE  Stored(g)
<1>1. PICK a \in App : \E k \in DOMAIN delivered[a] : delivered[a][k] = g
  BY DEF Delivered
<1>2. PICK k \in DOMAIN delivered[a] : delivered[a][k] = g
  BY <1>1
<1>3. LogTypes /\ HistoryAt(a)
  BY DEF LogInv
<1>4. delivered[a] \in Seq(Gsn)
  BY <1>3 DEF LogTypes
<1>5. k \in 1 .. Len(delivered[a])
  BY <1>4
<1>6. QED
  BY <1>2, <1>3, <1>5 DEF HistoryAt

(* An entry is delivered only after copies of it from more than Failures   *)
(* replicas (subscriber::poll counts them one by one).                     *)
THEOREM DeliveryIsReplicated == GoodStart => (Spec => []DeliveredIsReplicated)
<1> SUFFICES ASSUME GoodStart PROVE Spec => []DeliveredIsReplicated
  OBVIOUS
<1>1. ASSUME PollInv, LogInv PROVE DeliveredIsReplicated
  <2> SUFFICES ASSUME NEW g \in Gsn, Delivered(g)
               PROVE  Cardinality({r \in Replicas :
                        got[g % Pollers][r][g % Senders] > g}) > Failures
    BY DEF DeliveredIsReplicated
  <2>1. Reached(g) /\ CountedAt(g)
    BY <1>1, DeliveredIsStored DEF Stored, PollInv
  <2>2. Cardinality(Copies(g)) > Failures
    BY <2>1 DEF CountedAt
  <2>3. QED
    BY <2>2, Zenon DEF Copies, Queue, Origin
<1>2. QED
  BY <1>1, SubscriberInvariant, PTL

(* An entry with enough copies is being inserted, is at its place in the   *)
(* log or has been delivered: recycle_blocks loses none.                   *)
THEOREM NoEntryLost == GoodStart => (Spec => []StoredOrDelivered)
<1> SUFFICES ASSUME GoodStart PROVE Spec => []StoredOrDelivered
  OBVIOUS
<1>1. ASSUME PollInv, LogInv PROVE StoredOrDelivered
  <2> SUFFICES ASSUME NEW g \in Gsn, latest[g % Pollers][g % Senders] >= g,
                      inserting[g % Pollers] # g, ~ Delivered(g)
               PROVE  /\ MemoryOf(BlockOf(g)) # None
                      /\ mem[MemoryOf(BlockOf(g))][g % BlockSize] = g
    BY Zenon DEF StoredOrDelivered
  <2>1. Stored(g)
    BY Zenon DEF Stored, Reached, Queue, Origin
  <2>2. LogTypes /\ TwoBlocks /\ KeptAt(g)
    BY <1>1 DEF LogInv
  <2>3. PICK p \in Physical : InPlace(g, p, g % BlockSize) /\ mem[p][g % BlockSize] = g
    BY <2>1, <2>2 DEF KeptAt
  <2>4. BlockOf(g) \in {first - 1, first} /\ blocks[BlockOf(g) + 1] = p
    BY <2>3, Zenon DEF InPlace
  <2>5. MemoryOf(BlockOf(g)) = p /\ MemoryOf(BlockOf(g)) # None
    BY <2>2, <2>4, LastBlocks
  <2>6. QED
    BY <2>3, <2>5
<1>2. QED
  BY <1>1, SubscriberInvariant, PTL
=============================================================================
