--------------------------- MODULE OrderingProofs ---------------------------
(***************************************************************************)
(* Proofs about the two sides of the ordering service.                     *)
(*                                                                         *)
(* SlotAllocation, for any clients, shards, rates and number of epochs:    *)
(* the error-diffusion loop of log::add_entries gives every client its     *)
(* share, and the GSNs of the servers stay in step with the ordering       *)
(* service's gsn_base_.                                                    *)
(*                                                                         *)
(* Sessions, for any servers, subscriber threads and numbers of runs: a    *)
(* client or subscriber whose stop has returned is forgotten everywhere.   *)
(***************************************************************************)
EXTENDS SlotAllocation, Sessions, WellFoundedInduction, SequenceTheorems, FiniteSetTheorems, TLAPS

-----------------------------------------------------------------------------
(* Facts about natural numbers.  Induction is over sets: a set of naturals *)
(* that is not empty has a least element, so a claim that holds at the     *)
(* start and is handed on from one number to the next has no least         *)
(* counterexample.                                                         *)

(* A set of natural numbers that is not empty has a least element.         *)
LEMMA LeastNat ==
  ASSUME NEW S, S \subseteq Nat, S # {}
  PROVE  \E k \in S : \A m \in S : k <= m
<1> DEFINE Less == {p \in Nat \X Nat : p[1] < p[2]}
<1>1. IsWellFoundedOn(Less, Nat)
  BY NatLessThanWellFounded, Zenon DEF OpToRel
<1>2. PICK k \in S : \A m \in S : ~ (<<m, k>> \in Less)
  <2> HIDE DEF Less
  <2> QED BY <1>1, WFMin
<1>3. \A m \in S : ~ (m < k)
  BY <1>2
<1>4. QED
  BY <1>3

(* A set that contains a and, with any n below b, also n + 1, contains all *)
(* of a .. b.                                                              *)
LEMMA SetInduction ==
  ASSUME NEW a \in Nat, NEW b \in Nat, NEW S,
         a \in S, \A n \in a .. b : n # b /\ n \in S => n + 1 \in S
  PROVE  \A n \in a .. b : n \in S
<1> DEFINE T == {n \in a .. b : n \notin S}
<1> SUFFICES ASSUME T # {} PROVE FALSE
  OBVIOUS
<1>1. PICK k \in T : \A m \in T : k <= m
  <2>1. T \subseteq Nat
    OBVIOUS
  <2>2. QED
    BY <2>1, LeastNat
<1>2. k # a /\ k - 1 \in a .. b /\ k - 1 # b
  BY <1>1
<1>3. k - 1 \in S
  BY <1>1, <1>2
<1>4. QED
  BY <1>1, <1>2, <1>3

(* f is the function of partial sums of the numbers of slots in a.         *)
PartialSums(f, a) ==
  /\ f \in [0 .. Len(a) -> Nat]
  /\ f[0] = 0
  /\ \A n \in 1 .. Len(a) : f[n] = f[n - 1] + a[n].num

(* The assignments of a message: the first one is the largest.             *)
FirstIsLargest(a) == \A k \in 1 .. Len(a) : a[k].num <= a[1].num

(* The first GSN that follows the n-th message of the inbox.               *)
StartAfter(n) == IF n = Len(inbox) THEN gsnBase ELSE inbox[n + 1].start

(* Messages on their way follow each other without gap or overlap.         *)
Chained ==
  \A n \in 1 .. Len(inbox) :
    /\ FirstIsLargest(inbox[n].assign)
    /\ \E f \in [0 .. Len(inbox[n].assign) -> Nat] :
         /\ PartialSums(f, inbox[n].assign)
         /\ inbox[n].start + f[Len(inbox[n].assign)] = StartAfter(n)

(* Turns of the outer loop that assignment k has had.                      *)
Turns(k) == IF k < j THEN i ELSE i - 1

(* The running loop: the error of assignment k is what it started with,    *)
(* plus the slots it got, minus its share of the turns, in units of        *)
(* 1 / Num(1), and stays below one slot.                                   *)
Diffused ==
  msg # << >> =>
    /\ FirstIsLargest(msg)
    /\ Len(errors) = Len(msg) /\ Len(yielded) = Len(msg)
    /\ i <= Num(1) /\ j \in 2 .. Len(msg) + 1
    /\ yielded[1] = i
    /\ \A k \in 2 .. Len(msg) :
         /\ 0 <= errors[k] /\ errors[k] < Num(1)
         /\ errors[k] = Initial(msg) + yielded[k] * Num(1) - Turns(k) * Num(k)

(* f is the function of partial sums of the slots still to be yielded.     *)
Remaining(f) ==
  /\ f \in [0 .. Len(msg) -> Int]
  /\ f[0] = 0
  /\ \A n \in 1 .. Len(msg) : f[n] = f[n - 1] + Num(n) - yielded[n]

(* With the slots still to be yielded, the server is where the next        *)
(* message begins.                                                         *)
InStep ==
  \E f \in [0 .. Len(msg) -> Int] :
    Remaining(f) /\ startGsn + f[Len(msg)] = StartAfter(0)

IInv == TypeOK /\ Chained /\ Diffused /\ InStep /\ startGsn = count

-----------------------------------------------------------------------------
(* The rate of a client is a positive multiple of MIN_SLOTS.               *)
LEMMA AlignPositive ==
  ASSUME NEW x \in Nat \ {0}
  PROVE  Align(MinSlots, x) \in Nat \ {0}
<1>1. MinSlots \in Nat /\ MinSlots > 0
  BY MinSlotsAssumption
<1> DEFINE q == (x + MinSlots - 1) \div MinSlots
<1>2. q \in Int /\ q >= 1
  BY <1>1
<1> HIDE DEF q
<1>3. MinSlots * q \in Int /\ MinSlots * q >= 1
  BY <1>1, <1>2
<1>4. QED
  BY <1>3 DEF Align, q

(* The error an assignment starts with: less than one slot, if there is    *)
(* more than one assignment.                                               *)
LEMMA InitialError ==
  ASSUME NEW a \in Seq(Assignment), a # << >>
  PROVE  /\ Initial(a) \in Nat
         /\ Len(a) >= 2 => Initial(a) < a[1].num
<1>1. Len(a) \in Nat /\ Len(a) >= 1
  BY LenProperties, EmptySeq
<1>2. a[1] \in Assignment
  BY <1>1, ElementOfSeq
<1>3. a[1].num \in Nat /\ a[1].num >= 1
  BY <1>2 DEF Assignment
<1> DEFINE N == a[1].num
           L == Len(a)
           q == N \div L
<1>4. q \in Int /\ L * q <= N /\ N < L * q + L
  BY <1>1, <1>3
<1> HIDE DEF N, L, q
<1>5. q >= 0
  BY <1>1, <1>3, <1>4 DEF N, L
<1>6. ASSUME L >= 2 PROVE q < N
  BY <1>1, <1>3, <1>4, <1>5, <1>6 DEF N, L
<1>7. QED
  BY <1>4, <1>5, <1>6 DEF Initial, q, N, L

(* Arithmetic of one turn.                                                 *)
LEMMA Diffuse ==
  ASSUME NEW y \in Int, NEW t \in Int, NEW n \in Nat, NEW m \in Nat
  PROVE  /\ (y + 1) * n = y * n + n
         /\ (t + 1) * m = t * m + m
         /\ (t - 1 + 1) * m = t * m
         /\ y * n \in Int /\ t * m \in Int
OBVIOUS

(* At the end of the loop an assignment has got its number of slots.       *)
LEMMA ExactShare ==
  ASSUME NEW y \in Nat, NEW n \in Nat \ {0}, NEW m \in Nat,
         y * n - n * m < n, n * m - y * n < n
  PROVE  y = m
<1>1. CASE y >= m + 1
  <2>1. y * n >= (m + 1) * n
    BY <1>1
  <2>2. QED
    BY <2>1
<1>2. CASE m >= y + 1
  <2>1. m * n >= (y + 1) * n
    BY <1>2
  <2>2. QED
    BY <2>1
<1>3. QED
  BY <1>1, <1>2

-----------------------------------------------------------------------------
(* total_slots is the last partial sum: the recursive function in          *)
(* TotalSlots exists and satisfies its equations.                          *)
LEMMA TotalIsSum ==
  ASSUME NEW s \in Seq(Clients), rate \in [Clients -> Nat \ {0}]
  PROVE  \E f \in [0 .. Len(s) -> Nat] :
           /\ f[0] = 0
           /\ \A n \in 1 .. Len(s) : f[n] = f[n - 1] + rate[s[n]]
           /\ TotalSlots(s) = f[Len(s)]
<1> DEFINE L == Len(s)
           Sum(f, m) == /\ f \in [0 .. m -> Nat] /\ f[0] = 0
                        /\ \A n \in 1 .. m : f[n] = f[n - 1] + rate[s[n]]
           S == {m \in Nat : \E f \in [0 .. m -> Nat] : Sum(f, m)}
           Step(f) == [n \in 0 .. L |-> IF n = 0 THEN 0 ELSE f[n - 1] + rate[s[n]]]
<1>1. L \in Nat /\ \A n \in 1 .. L : rate[s[n]] \in Nat
  BY LenProperties, ElementOfSeq
<1>2. 0 \in S
  <2> DEFINE f == [n \in 0 .. 0 |-> 0]
  <2>1. f \in [0 .. 0 -> Nat] /\ f[0] = 0
    OBVIOUS
  <2> HIDE DEF f
  <2>2. QED
    BY <2>1
<1>3. ASSUME NEW m \in 0 .. L, m # L, m \in S PROVE m + 1 \in S
  <2>1. PICK f \in [0 .. m -> Nat] : Sum(f, m)
    BY <1>3
  <2> DEFINE g == [n \in 0 .. m + 1 |-> IF n = m + 1 THEN f[m] + rate[s[m + 1]] ELSE f[n]]
  <2>2. m \in Nat /\ m + 1 \in 1 .. L
    BY <1>1, <1>3
  <2>3. rate[s[m + 1]] \in Nat /\ f[m] \in Nat
    BY <1>1, <2>2
  <2>4. /\ g \in [0 .. m + 1 -> Nat]
        /\ g[m + 1] = f[m] + rate[s[m + 1]]
        /\ \A n \in 0 .. m : g[n] = f[n]
    BY <2>2, <2>3
  <2> HIDE DEF g
  <2>5. g[0] = 0
    BY <2>1, <2>2, <2>4
  <2>6. ASSUME NEW n \in 1 .. m + 1 PROVE g[n] = g[n - 1] + rate[s[n]]
    <3>1. CASE n = m + 1
      <4>1. n - 1 = m /\ m \in 0 .. m
        BY <2>2, <3>1
      <4>2. QED
        BY <2>4, <3>1, <4>1
    <3>2. CASE n \in 1 .. m
      <4>1. n \in 0 .. m /\ n - 1 \in 0 .. m
        BY <3>2
      <4>2. QED
        BY <2>1, <2>4, <3>2, <4>1
    <3>3. QED
      BY <2>2, <3>1, <3>2
  <2>7. Sum(g, m + 1)
    BY <2>4, <2>5, <2>6
  <2> HIDE DEF Sum
  <2>8. \E e \in [0 .. m + 1 -> Nat] : Sum(e, m + 1)
    BY <2>4, <2>7
  <2>9. QED
    BY <2>2, <2>8
<1> HIDE DEF S
<1>4. L \in S
  <2>1. \A n \in 0 .. L : n # L /\ n \in S => n + 1 \in S
    BY <1>3
  <2>2. \A n \in 0 .. L : n \in S
    BY <1>1, <1>2, <2>1, SetInduction
  <2>3. QED
    BY <1>1, <2>2
<1>5. PICK f \in [0 .. L -> Nat] : Sum(f, L)
  BY <1>4 DEF S
<1>6. f = Step(f)
  <2>1. \A n \in 0 .. L : f[n] = IF n = 0 THEN 0 ELSE f[n - 1] + rate[s[n]]
    BY <1>1, <1>5
  <2>2. QED
    BY <2>1
<1> DEFINE g == CHOOSE e : e = Step(e)
<1>7. g = Step(g)
  <2> HIDE DEF Step
  <2> QED BY <1>6
<1>8. g[0] = 0 /\ \A n \in 1 .. L : g[n] = g[n - 1] + rate[s[n]]
  <2> HIDE DEF g
  <2>1. \A n \in 0 .. L : g[n] = IF n = 0 THEN 0 ELSE g[n - 1] + rate[s[n]]
    BY <1>7
  <2>2. QED
    BY <1>1, <2>1
<1>9. g \in [0 .. L -> Nat]
  <2> DEFINE T == {n \in Nat : g[n] \in Nat}
  <2> HIDE DEF g
  <2>1. 0 \in T /\ \A n \in 0 .. L : n # L /\ n \in T => n + 1 \in T
    <3>1. 0 \in T
      BY <1>8
    <3>2. ASSUME NEW n \in 0 .. L, n # L, n \in T PROVE n + 1 \in T
      <4>1. n + 1 \in 1 .. L /\ n + 1 - 1 = n
        BY <1>1, <3>2
      <4>2. QED
        BY <1>1, <1>8, <3>2, <4>1, SMTT(30)
    <3>3. QED
      BY <3>1, <3>2
  <2> HIDE DEF T
  <2>2. \A n \in 0 .. L : n \in T
    BY <1>1, <2>1, SetInduction
  <2>3. g = [n \in 0 .. L |-> g[n]]
    BY <1>7
  <2>4. QED
    BY <2>2, <2>3 DEF T
<1>10. TotalSlots(s) = g[L]
  BY DEF TotalSlots
<1> HIDE DEF g
<1>11. QED
  BY <1>8, <1>9, <1>10

-----------------------------------------------------------------------------
(* Nothing has been sent or yielded at the start.                          *)
LEMMA InitIInv == Init => IInv
<1> SUFFICES ASSUME Init PROVE IInv
  OBVIOUS
<1>1. TypeOK
  BY MinSlotsAssumption DEF Init, TypeOK
<1>2. Len(inbox) = 0 /\ Len(msg) = 0 /\ startGsn = 0 /\ gsnBase = 0 /\ count = 0
  BY DEF Init
<1>3. Chained
  BY <1>2 DEF Chained
<1>4. Diffused
  BY DEF Init, Diffused
<1>5. InStep
  <2> DEFINE f == [n \in 0 .. 0 |-> 0]
  <2>1. f \in [0 .. 0 -> Int] /\ f[0] = 0
    OBVIOUS
  <2> HIDE DEF f
  <2>2. Remaining(f)
    BY <1>2, <2>1 DEF Remaining
  <2>3. QED
    BY <1>2, <2>1, <2>2 DEF InStep, StartAfter
<1>6. QED
  BY <1>1, <1>2, <1>3, <1>4, <1>5 DEF IInv

(* A step that changes neither the inbox nor the server's state.           *)
LEMMA ClientsStep ==
  ASSUME IInv, TypeOK', UNCHANGED <<gsnBase, inbox, serverVars>>
  PROVE  IInv'
BY DEF IInv, serverVars, Chained, Diffused, InStep, Remaining, StartAfter, Turns, Num

(* Clients come, leave and change their rates.                             *)
LEMMA RateSteps ==
  ASSUME IInv, NEW c \in Clients, NEW n \in Nat,
         (n # 0 /\ AddClient(c, n)) \/ DropClient(c) \/ ClientRate(c, n)
  PROVE  IInv'
<1>1. UNCHANGED <<gsnBase, epochs, inbox, serverVars>>
  BY DEF AddClient, DropClient, ClientRate
<1>2. /\ Align(MinSlots, IF n = 0 THEN 1 ELSE n) \in Nat \ {0}
      /\ n # 0 => Align(MinSlots, n) \in Nat \ {0}
  BY AlignPositive
<1>3. TypeOK'
  <2>1. active' \subseteq Clients
    BY DEF IInv, TypeOK, AddClient, DropClient, ClientRate
  <2>2. rate' \in [Clients -> Nat \ {0}]
    BY <1>2, MinSlotsAssumption DEF IInv, TypeOK, AddClient, DropClient, ClientRate
  <2>3. QED
    BY <1>1, <2>1, <2>2 DEF IInv, TypeOK, serverVars
<1>4. QED
  BY <1>1, <1>3, ClientsStep

(* The epoch timer: the message begins where the last one ended, its       *)
(* assignments are sorted, and gsn_base_ moves by their sum.               *)
LEMMA EpochStep ==
  ASSUME IInv, Epoch
  PROVE  IInv'
<1>1. TypeOK
  BY DEF IInv
<1>2. PICK s \in SortedSlots :
        /\ inbox' = Append(inbox,
             [start |-> gsnBase,
              assign |-> [k \in DOMAIN s |-> [client |-> s[k], num |-> rate[s[k]]]]])
        /\ gsnBase' = gsnBase + TotalSlots(s)
  BY DEF Epoch
<1>3. /\ epochs' = epochs + 1 /\ UNCHANGED <<active, rate>>
      /\ msg' = msg /\ i' = i /\ j' = j /\ errors' = errors /\ startGsn' = startGsn
      /\ yielded' = yielded /\ count' = count
  BY DEF Epoch, serverVars
<1>4. PICK C \in Nat : C = Cardinality(active)
  BY <1>1, ClientsAssumption, FS_Subset, FS_CardinalityType DEF TypeOK
<1>5. s \in [1 .. C -> Clients]
  BY <1>1, <1>2, <1>4 DEF SortedSlots, TypeOK
<1>6. s \in Seq(Clients) /\ Len(s) = C /\ DOMAIN s = 1 .. C
  BY <1>5
<1>7. \A k \in 1 .. C : rate[s[k]] \in Nat \ {0} /\ rate[s[k]] <= rate[s[1]]
  <2>1. \A k \in 1 .. C : rate[s[k]] \in Nat \ {0}
    BY <1>1, <1>5 DEF TypeOK
  <2>2. \A k \in 1 .. C : k # 1 => Greater(s[1], s[k])
    <3>1. \A k, l \in 1 .. C : k < l => Greater(s[k], s[l])
      BY <1>2, <1>6 DEF SortedSlots
    <3>2. ASSUME NEW k \in 1 .. C, k # 1 PROVE 1 \in 1 .. C /\ 1 < k
      BY <3>2
    <3>3. QED
      BY <3>1, <3>2
  <2>3. QED
    BY <2>1, <2>2 DEF Greater
<1> DEFINE a == [k \in DOMAIN s |-> [client |-> s[k], num |-> rate[s[k]]]]
           m == [start |-> gsnBase, assign |-> a]
<1>8. a \in Seq(Assignment) /\ Len(a) = C /\ \A k \in 1 .. C : a[k].num = rate[s[k]]
  <2>1. a \in [1 .. C -> Assignment]
    BY <1>5, <1>6, <1>7 DEF Assignment
  <2>2. QED
    BY <1>6, <2>1
<1>9. FirstIsLargest(a)
  BY <1>7, <1>8 DEF FirstIsLargest
<1>10. PICK f \in [0 .. C -> Nat] :
         PartialSums(f, a) /\ TotalSlots(s) = f[C]
  BY <1>1, <1>6, <1>8, TotalIsSum DEF PartialSums, TypeOK
<1>11. m \in Message /\ m.start = gsnBase /\ m.assign = a
  BY <1>1, <1>8 DEF Message, TypeOK
<1>12. inbox' = Append(inbox, m)
  BY <1>2
<1> HIDE DEF a, m
<1>13. PICK L \in Nat : L = Len(inbox) /\ inbox \in Seq(Message)
  BY <1>1, LenProperties DEF TypeOK
<1>14. /\ inbox' \in Seq(Message) /\ Len(inbox') = L + 1
       /\ inbox'[L + 1] = m /\ \A n \in 1 .. L : inbox'[n] = inbox[n]
  BY <1>11, <1>12, <1>13, AppendProperties
<1>15. gsnBase \in Nat /\ gsnBase' = gsnBase + f[C] /\ f[C] \in Nat
  BY <1>1, <1>2, <1>10 DEF TypeOK
<1>16. TypeOK'
  BY <1>1, <1>3, <1>14, <1>15, SMTT(30) DEF TypeOK
<1>17. \A n \in 0 .. L : StartAfter(n)' = StartAfter(n)
  <2> SUFFICES ASSUME NEW n \in 0 .. L PROVE StartAfter(n)' = StartAfter(n)
    OBVIOUS
  <2>1. CASE n = L
    BY <1>11, <1>13, <1>14, <2>1 DEF StartAfter
  <2>2. CASE n # L
    <3>1. n + 1 \in 1 .. L /\ n # L + 1
      BY <2>2
    <3>2. inbox'[n + 1] = inbox[n + 1]
      BY <1>14, <3>1
    <3>3. QED
      BY <1>13, <1>14, <2>2, <3>1, <3>2 DEF StartAfter
  <2>3. QED
    BY <2>1, <2>2
<1>18. Chained'
  <2> SUFFICES ASSUME NEW n \in 1 .. L + 1
               PROVE  /\ FirstIsLargest(inbox'[n].assign)
                      /\ \E e \in [0 .. Len(inbox'[n].assign) -> Nat] :
                           /\ PartialSums(e, inbox'[n].assign)
                           /\ inbox'[n].start + e[Len(inbox'[n].assign)] = StartAfter(n)'
    BY <1>14, Zenon DEF Chained
  <2>1. CASE n \in 1 .. L
    <3>1. inbox'[n] = inbox[n] /\ StartAfter(n)' = StartAfter(n)
      BY <1>14, <1>17, <2>1
    <3>2. QED
      BY <1>13, <2>1, <3>1 DEF IInv, Chained
  <2>2. CASE n = L + 1
    <3>1. inbox'[n].assign = a /\ inbox'[n].start = gsnBase
      BY <1>11, <1>14, <2>2
    <3>2. StartAfter(n)' = gsnBase + f[C]
      BY <1>14, <1>15, <2>2 DEF StartAfter
    <3>3. QED
      BY <1>8, <1>9, <1>10, <3>1, <3>2
  <2>3. QED
    BY <1>13, <2>1, <2>2
<1>19. Diffused'
  BY <1>3 DEF IInv, Diffused, Turns, Num
<1>20. InStep'
  <2>1. StartAfter(0)' = StartAfter(0)
    BY <1>17
  <2>2. \A e : Remaining(e)' <=> Remaining(e)
    BY <1>3 DEF Remaining, Num
  <2>3. QED
    BY <1>3, <2>1, <2>2 DEF IInv, InStep
<1>21. QED
  BY <1>3, <1>16, <1>18, <1>19, <1>20 DEF IInv

(* STORAGE_SLOTS: the loop begins with the message that follows.           *)
LEMMA ReceiveStep ==
  ASSUME IInv, ReceiveSlots
  PROVE  IInv'
<1> DEFINE a == Head(inbox).assign
           g == Head(inbox).start
<1>1. TypeOK /\ Chained /\ InStep /\ startGsn = count
  BY DEF IInv
<1>2. /\ msg = << >> /\ inbox # << >> /\ inbox' = Tail(inbox)
      /\ UNCHANGED <<active, rate, gsnBase, epochs>>
  BY DEF ReceiveSlots, orderVars
<1>3. PICK L \in Nat : L = Len(inbox) /\ inbox \in Seq(Message) /\ L >= 1
  BY <1>1, <1>2, LenProperties, EmptySeq DEF TypeOK
<1>4. /\ inbox' \in Seq(Message) /\ Len(inbox') = L - 1
      /\ \A n \in 1 .. L - 1 : inbox'[n] = inbox[n + 1]
      /\ Head(inbox) = inbox[1]
  BY <1>2, <1>3, HeadTailProperties
<1>5. inbox[1] \in Message
  BY <1>3, ElementOfSeq
<1>6. a \in Seq(Assignment) /\ g \in Nat /\ a = inbox[1].assign /\ g = inbox[1].start
  BY <1>4, <1>5 DEF Message
<1>7. ASSUME NEW n \in 0 .. L - 1 PROVE StartAfter(n)' = StartAfter(n + 1)
  <2>1. CASE n = L - 1
    BY <1>2, <1>3, <1>4, <2>1 DEF StartAfter
  <2>2. CASE n # L - 1
    <3>1. n + 1 \in 1 .. L - 1 /\ n + 1 # L
      BY <1>3, <2>2
    <3>2. inbox'[n + 1] = inbox[n + 2]
      BY <1>4, <3>1
    <3>3. QED
      BY <1>3, <1>4, <2>2, <3>1, <3>2 DEF StartAfter
  <2>3. QED
    BY <2>1, <2>2
<1>8. Chained'
  <2> SUFFICES ASSUME NEW n \in 1 .. L - 1
               PROVE  /\ FirstIsLargest(inbox'[n].assign)
                      /\ \E e \in [0 .. Len(inbox'[n].assign) -> Nat] :
                           /\ PartialSums(e, inbox'[n].assign)
                           /\ inbox'[n].start + e[Len(inbox'[n].assign)] = StartAfter(n)'
    BY <1>4, Zenon DEF Chained
  <2>1. inbox'[n] = inbox[n + 1] /\ n + 1 \in 1 .. Len(inbox)
    BY <1>3, <1>4
  <2>2. StartAfter(n)' = StartAfter(n + 1)
    BY <1>3, <1>7
  <2>3. QED
    BY <1>1, <2>1, <2>2 DEF Chained
<1>9. PICK f \in [0 .. Len(a) -> Nat] : PartialSums(f, a) /\ g + f[Len(a)] = StartAfter(0)'
  <2>1. 1 \in 1 .. Len(inbox) /\ StartAfter(0)' = StartAfter(1)
    BY <1>3, <1>7
  <2>2. QED
    BY <1>1, <1>6, <2>1 DEF Chained
<1>10. FirstIsLargest(a)
  <2>1. 1 \in 1 .. Len(inbox)
    BY <1>3
  <2>2. QED
    BY <1>1, <1>6, <2>1 DEF Chained
<1>11. startGsn = g
  <2>1. PICK e \in [0 .. Len(msg) -> Int] : Remaining(e) /\ startGsn + e[Len(msg)] = StartAfter(0)
    BY <1>1 DEF InStep
  <2>2. Len(msg) = 0
    BY <1>2
  <2>3. startGsn + e[0] = StartAfter(0) /\ e[0] = 0 /\ startGsn \in Nat
    BY <1>1, <2>1, <2>2 DEF Remaining, TypeOK
  <2>4. StartAfter(0) = inbox[1].start
    BY <1>3 DEF StartAfter
  <2>5. QED
    BY <1>6, <2>3, <2>4
<1> HIDE DEF a, g
<1>12. CASE a = << >>
  <2>1. UNCHANGED serverVars
    BY <1>12 DEF ReceiveSlots, a
  <2>2. /\ msg' = msg /\ i' = i /\ j' = j /\ errors' = errors /\ startGsn' = startGsn
        /\ yielded' = yielded /\ count' = count
    BY <2>1 DEF serverVars
  <2>3. TypeOK'
    BY <1>1, <1>2, <1>4, <2>2 DEF TypeOK
  <2>4. Diffused'
    BY <2>2 DEF IInv, Diffused, Turns, Num
  <2>5. InStep'
    <3>1. Len(a) = 0 /\ f[0] = 0 /\ g \in Nat
      BY <1>6, <1>9, <1>12 DEF PartialSums
    <3>2. g = StartAfter(0)'
      BY <1>9, <3>1
    <3>3. PICK e \in [0 .. Len(msg) -> Int] : Remaining(e)
      BY <1>1 DEF InStep
    <3>4. Len(msg) = 0 /\ Len(msg') = 0 /\ e[0] = 0
      BY <1>2, <2>2, <3>3 DEF Remaining
    <3>5. Remaining(e)'
      BY <2>2, <3>3 DEF Remaining, Num
    <3>6. QED
      BY <1>6, <1>11, <2>2, <3>2, <3>4, <3>5 DEF InStep
  <2>6. QED
    BY <1>1, <1>8, <2>2, <2>3, <2>4, <2>5 DEF IInv
<1>13. CASE a # << >>
  <2>1. /\ msg' = a /\ i' = 0 /\ j' = Len(a) + 1
        /\ errors' = [k \in 1 .. Len(a) |-> Initial(a)]
        /\ yielded' = [k \in 1 .. Len(a) |-> 0]
        /\ startGsn' = g /\ count' = count
    BY <1>13 DEF ReceiveSlots, a, g
  <2>2. PICK N \in Nat : N = Len(a) /\ N >= 1
    BY <1>6, <1>13, LenProperties, EmptySeq
  <2>3. \A k \in 1 .. N : a[k].num \in Nat
    <3>1. \A k \in 1 .. N : a[k] \in Assignment
      BY <1>6, <2>2, ElementOfSeq
    <3>2. QED
      BY <3>1 DEF Assignment
  <2>4. Initial(a) \in Nat /\ (N >= 2 => Initial(a) < a[1].num)
    BY <1>6, <1>13, <2>2, InitialError
  <2>5. errors' \in Seq(Int) /\ Len(errors') = N /\ yielded' \in Seq(Nat) /\ Len(yielded') = N
    BY <2>1, <2>2, <2>4
  <2>6. TypeOK'
    BY <1>1, <1>2, <1>4, <1>6, <2>1, <2>2, <2>5 DEF TypeOK
  <2>7. Diffused'
    <3>1. ASSUME NEW k \in 2 .. N
          PROVE  /\ 0 <= errors'[k] /\ errors'[k] < a[1].num
                 /\ errors'[k] = Initial(a) + yielded'[k] * a[1].num - Turns(k)' * a[k].num
      <4>1. k \in 1 .. N /\ N >= 2 /\ 1 \in 1 .. N
        BY <2>2
      <4>2. errors'[k] = Initial(a) /\ yielded'[k] = 0 /\ Turns(k)' = 0
        BY <2>1, <2>2, <4>1 DEF Turns
      <4>3. 0 * a[1].num = 0 /\ 0 * a[k].num = 0
        BY <2>3, <4>1
      <4>4. QED
        BY <2>4, <4>1, <4>2, <4>3
    <3>2. yielded'[1] = 0 /\ 0 <= a[1].num /\ N + 1 \in 2 .. N + 1
      BY <2>1, <2>2, <2>3
    <3>3. \A k : Num(k)' = a[k].num
      BY <2>1 DEF Num
    <3>4. FirstIsLargest(msg)' /\ Initial(msg)' = Initial(a)
      BY <1>10, <2>1 DEF FirstIsLargest, Initial
    <3>5. QED
      BY <2>1, <2>2, <2>5, <3>1, <3>2, <3>3, <3>4 DEF Diffused
  <2>8. InStep'
    <3>1. \A k \in 1 .. N : yielded'[k] = 0
      BY <2>1, <2>2
    <3>2. f \in [0 .. N -> Int] /\ f[0] = 0 /\ f[N] \in Int
          /\ \A n \in 1 .. N : f[n] = f[n - 1] + a[n].num - yielded'[n]
      <4>1. f \in [0 .. N -> Nat] /\ f[0] = 0
        BY <1>9, <2>2 DEF PartialSums
      <4>2. ASSUME NEW n \in 1 .. N PROVE f[n] = f[n - 1] + a[n].num - yielded'[n]
        <5>1. f[n - 1] \in Nat /\ f[n] = f[n - 1] + a[n].num
          BY <1>9, <2>2, <4>1 DEF PartialSums
        <5>2. QED
          BY <2>3, <3>1, <5>1
      <4>3. QED
        BY <2>2, <4>1, <4>2
    <3>3. Remaining(f)'
      BY <2>1, <2>2, <3>2 DEF Remaining, Num
    <3>4. startGsn' + f[N] = StartAfter(0)'
      BY <1>9, <2>1, <2>2
    <3>5. QED
      BY <2>1, <2>2, <3>2, <3>3, <3>4 DEF InStep
  <2>9. QED
    BY <1>1, <1>8, <1>11, <2>1, <2>6, <2>7, <2>8 DEF IInv
<1>14. QED
  BY <1>12, <1>13

(* The fields of the running message.                                      *)
LEMMA RunningMessage ==
  ASSUME TypeOK, Diffused, msg # << >>
  PROVE  /\ Len(msg) \in Nat /\ Len(msg) >= 1
         /\ \A k \in 1 .. Len(msg) : Num(k) \in Nat \ {0} /\ Num(k) <= Num(1)
         /\ \A k \in 1 .. Len(msg) : errors[k] \in Int /\ yielded[k] \in Nat
         /\ Initial(msg) \in Nat
<1>1. Len(msg) \in Nat /\ Len(msg) >= 1 /\ msg \in Seq(Assignment)
  BY LenProperties, EmptySeq DEF TypeOK
<1>2. \A k \in 1 .. Len(msg) : msg[k] \in Assignment
  BY <1>1, ElementOfSeq
<1>3. \A k \in 1 .. Len(msg) : Num(k) \in Nat \ {0} /\ Num(k) <= Num(1)
  BY <1>2 DEF Assignment, Num, Diffused, FirstIsLargest
<1>4. \A k \in 1 .. Len(msg) : errors[k] \in Int
  BY ElementOfSeq DEF TypeOK, Diffused
<1>5. \A k \in 1 .. Len(msg) : yielded[k] \in Nat
  BY ElementOfSeq DEF TypeOK, Diffused
<1>6. QED
  BY <1>1, <1>3, <1>4, <1>5, InitialError

(* Arithmetic of one slot less.                                            *)
LEMMA OneLess ==
  ASSUME NEW x \in Int, NEW y \in Int, NEW a \in Nat, NEW b \in Nat, x = y + a - b
  PROVE  x - 1 = y + a - (b + 1) /\ x - 1 = y - 1 + a - b
OBVIOUS

(* The lambda yield: one slot less remains, and the GSN moves by one.      *)
LEMMA YieldKeepsStep ==
  ASSUME IInv, msg # << >>, NEW k \in 1 .. Len(msg), YieldSlot(k),
         msg' = msg, inbox' = inbox, gsnBase' = gsnBase
  PROVE  /\ InStep' /\ startGsn' = count'
         /\ yielded' \in Seq(Nat) /\ Len(yielded') = Len(msg)
         /\ yielded'[k] = yielded[k] + 1
         /\ \A n \in 1 .. Len(msg) : n # k => yielded'[n] = yielded[n]
         /\ startGsn' \in Nat /\ count' \in Nat
<1>1. TypeOK /\ Diffused /\ InStep
  BY DEF IInv
<1>2. PICK L \in Nat : L = Len(msg)
  BY <1>1, LenProperties DEF TypeOK
<1>3. yielded \in Seq(Nat) /\ Len(yielded) = L /\ yielded[k] \in Nat
  BY <1>1, <1>2, RunningMessage DEF TypeOK, Diffused
<1>4. yielded' = [yielded EXCEPT ![k] = yielded[k] + 1]
  BY DEF YieldSlot
<1>5. /\ yielded' \in Seq(Nat) /\ Len(yielded') = L
      /\ yielded'[k] = yielded[k] + 1
      /\ \A n \in 1 .. L : n # k => yielded'[n] = yielded[n]
  <2>1. yielded \in [1 .. L -> Nat]
    BY <1>3, LenProperties, SeqDef
  <2>2. yielded' \in [1 .. L -> Nat]
    BY <1>2, <1>3, <1>4, <2>1
  <2>3. yielded' \in Seq(Nat) /\ Len(yielded') = L
    BY <2>2
  <2>4. QED
    BY <1>2, <1>4, <2>1, <2>3
<1>6. PICK f \in [0 .. L -> Int] : Remaining(f) /\ startGsn + f[L] = StartAfter(0)
  BY <1>1, <1>2 DEF InStep
<1>7. startGsn \in Nat /\ startGsn' = startGsn + 1 /\ startGsn' = count' /\ count' \in Nat
  BY <1>1 DEF YieldSlot, IInv, TypeOK
<1> DEFINE e == [n \in 0 .. L |-> IF n < k THEN f[n] ELSE f[n] - 1]
<1>8. \A n \in 1 .. L : Num(n) \in Nat /\ yielded[n] \in Nat
  BY <1>1, <1>2, RunningMessage
<1>9. PICK d \in [0 .. L -> Int] : \A n \in 0 .. L : d[n] = IF n < k THEN f[n] ELSE f[n] - 1
  <2>1. e \in [0 .. L -> Int] /\ \A n \in 0 .. L : e[n] = IF n < k THEN f[n] ELSE f[n] - 1
    OBVIOUS
  <2> HIDE DEF e
  <2>2. QED
    BY <2>1
<1>10. d[0] = 0 /\ d[L] = f[L] - 1 /\ f[L] \in Int
  <2>1. 0 < k /\ ~(L < k) /\ 0 \in 0 .. L /\ L \in 0 .. L
    BY <1>2
  <2>2. QED
    BY <1>6, <1>9, <2>1 DEF Remaining
<1>11. ASSUME NEW n \in 1 .. L PROVE d[n] = d[n - 1] + Num(n) - yielded'[n]
  <2>1. n \in 0 .. L /\ n - 1 \in 0 .. L /\ f[n] \in Int /\ f[n - 1] \in Int
    BY <1>2, SMTT(30)
  <2>2. f[n] = f[n - 1] + Num(n) - yielded[n]
    BY <1>2, <1>6 DEF Remaining
  <2>3. yielded'[n] = IF n = k THEN yielded[n] + 1 ELSE yielded[n]
    BY <1>5
  <2>4. d[n] = (IF n < k THEN f[n] ELSE f[n] - 1) /\ d[n - 1] = (IF n - 1 < k THEN f[n - 1] ELSE f[n - 1] - 1)
    BY <1>9, <2>1
  <2>5. Num(n) \in Nat /\ yielded[n] \in Nat /\ k \in Nat /\ n \in Nat
    BY <1>2, <1>8
  <2>6. CASE n < k
    BY <2>1, <2>2, <2>3, <2>4, <2>5, <2>6
  <2>7. CASE n = k
    <3>1. d[n] = f[n] - 1 /\ d[n - 1] = f[n - 1] /\ yielded'[n] = yielded[n] + 1
      BY <2>3, <2>4, <2>5, <2>7
    <3>2. f[n] - 1 = f[n - 1] + Num(n) - (yielded[n] + 1)
      BY <2>1, <2>2, <2>5, OneLess, SMTT(30)
    <3>3. QED
      BY <3>1, <3>2, Zenon
  <2>8. CASE n > k
    <3>1. d[n] = f[n] - 1 /\ d[n - 1] = f[n - 1] - 1 /\ yielded'[n] = yielded[n]
      BY <2>3, <2>4, <2>5, <2>8
    <3>2. f[n] - 1 = f[n - 1] - 1 + Num(n) - yielded[n]
      BY <2>1, <2>2, <2>5, OneLess, ZenonT(30)
    <3>3. QED
      BY <3>1, <3>2, Zenon
  <2>9. QED
    BY <2>5, <2>6, <2>7, <2>8
<1>12. Remaining(d)'
  BY <1>2, <1>10, <1>11 DEF Remaining, Num
<1>13. StartAfter(0)' = StartAfter(0)
  BY DEF StartAfter
<1>14. startGsn' + d[L] = StartAfter(0)'
  <2>1. startGsn' + d[L] = startGsn + f[L]
    BY <1>7, <1>10
  <2>2. QED
    BY <1>6, <1>13, <2>1
<1>15. InStep'
  BY <1>2, <1>12, <1>14 DEF InStep
<1>16. QED
  BY <1>2, <1>5, <1>7, <1>15

(* A turn of the outer loop.                                               *)
LEMMA PrimaryStep ==
  ASSUME IInv, YieldPrimary
  PROVE  IInv'
<1>1. TypeOK /\ Diffused /\ msg # << >>
  BY DEF IInv, YieldPrimary
<1>2. PICK L \in Nat : L = Len(msg) /\ L >= 1
  BY <1>1, RunningMessage
<1>3. /\ j = L + 1 /\ i < Num(1) /\ i' = i + 1 /\ j' = 2 /\ YieldSlot(1)
      /\ msg' = msg /\ inbox' = inbox /\ gsnBase' = gsnBase /\ errors' = errors
      /\ active' = active /\ rate' = rate /\ epochs' = epochs
  BY <1>2 DEF YieldPrimary, orderVars
<1>4. 1 \in 1 .. Len(msg)
  BY <1>2
<1>5. /\ InStep' /\ startGsn' = count'
      /\ yielded' \in Seq(Nat) /\ Len(yielded') = Len(msg)
      /\ yielded'[1] = yielded[1] + 1
      /\ \A n \in 1 .. Len(msg) : n # 1 => yielded'[n] = yielded[n]
      /\ startGsn' \in Nat /\ count' \in Nat
  BY <1>1, <1>3, <1>4, YieldKeepsStep
<1>6. i \in Nat /\ Num(1) \in Nat /\ \A k : Num(k)' = Num(k)
  BY <1>1, <1>3, <1>4, RunningMessage DEF TypeOK, Num
<1>7. TypeOK'
  BY <1>1, <1>3, <1>5, <1>6 DEF TypeOK
<1>8. \A k \in 2 .. L : Turns(k)' = Turns(k) /\ yielded'[k] = yielded[k] /\ k \in 1 .. L
  BY <1>2, <1>3, <1>5, <1>6 DEF Turns
<1>9. Diffused'
  <2>1. /\ FirstIsLargest(msg)' /\ Initial(msg)' = Initial(msg)
        /\ Len(errors') = L /\ Len(yielded') = L
        /\ i' <= Num(1) /\ j' \in 2 .. L + 1
        /\ yielded'[1] = i'
    BY <1>1, <1>2, <1>3, <1>5, <1>6 DEF Diffused, FirstIsLargest, Initial
  <2>2. QED
    BY <1>1, <1>2, <1>3, <1>6, <1>8, <2>1 DEF Diffused
<1>10. Chained'
  BY <1>3 DEF IInv, Chained, StartAfter
<1>11. QED
  BY <1>5, <1>7, <1>9, <1>10 DEF IInv

(* Arithmetic of one turn of the inner loop: e is the error, x and y the   *)
(* products it is made of.                                                 *)
LEMMA OneTurn ==
  ASSUME NEW e \in Int, NEW z \in Int, NEW x \in Int, NEW y \in Int,
         NEW n \in Nat, NEW m \in Nat, 1 <= m, m <= n, 0 <= e, e < n, e = z + x - y
  PROVE  /\ e - m < 0 => /\ 0 <= e - m + n /\ e - m + n < n
                         /\ e - m + n = z + (x + n) - (y + m)
         /\ ~(e - m < 0) => /\ 0 <= e - m /\ e - m < n
                            /\ e - m = z + x - (y + m)
OBVIOUS

(* A turn of the inner loop: the error of assignment j is diffused, with   *)
(* or without a slot for it.                                               *)
LEMMA SecondaryStep ==
  ASSUME IInv, YieldSecondary
  PROVE  IInv'
<1>1. TypeOK /\ Diffused /\ msg # << >>
  BY DEF IInv, YieldSecondary
<1>2. PICK L \in Nat : L = Len(msg) /\ L >= 1
  BY <1>1, RunningMessage
<1>3. PICK k \in 2 .. L : k = j
  BY <1>1, <1>2 DEF YieldSecondary, Diffused
<1>4. /\ j' = k + 1 /\ i' = i
      /\ msg' = msg /\ inbox' = inbox /\ gsnBase' = gsnBase
      /\ active' = active /\ rate' = rate /\ epochs' = epochs
  BY <1>3 DEF YieldSecondary, orderVars
<1>5. /\ k \in 1 .. L /\ errors[k] \in Int /\ Num(k) \in Nat /\ Num(1) \in Nat
      /\ Num(k) >= 1 /\ Num(k) <= Num(1) /\ yielded[k] \in Nat /\ i \in Nat
      /\ Initial(msg) \in Nat /\ \A n : Num(n)' = Num(n)
  BY <1>1, <1>2, <1>3, <1>4, RunningMessage DEF TypeOK, Num
<1>6. /\ 0 <= errors[k] /\ errors[k] < Num(1)
      /\ errors[k] = Initial(msg) + yielded[k] * Num(1) - Turns(k) * Num(k)
      /\ Turns(k) = i - 1
  BY <1>1, <1>2, <1>3 DEF Diffused, Turns
<1>7. /\ Turns(k)' = i
      /\ \A n \in 2 .. L : n # k => Turns(n)' = Turns(n)
  BY <1>3, <1>4, <1>5 DEF Turns
<1>8. (i - 1) * Num(k) + Num(k) = i * Num(k) /\ i * Num(k) \in Int
      /\ (yielded[k] + 1) * Num(1) = yielded[k] * Num(1) + Num(1) /\ yielded[k] * Num(1) \in Int
      /\ (i - 1) * Num(k) \in Int
  BY <1>5
<1>9. /\ errors[k] - Num(k) < 0 =>
           /\ 0 <= errors[k] - Num(k) + Num(1) /\ errors[k] - Num(k) + Num(1) < Num(1)
           /\ errors[k] - Num(k) + Num(1) =
                Initial(msg) + (yielded[k] * Num(1) + Num(1)) - ((i - 1) * Num(k) + Num(k))
      /\ ~(errors[k] - Num(k) < 0) =>
           /\ 0 <= errors[k] - Num(k) /\ errors[k] - Num(k) < Num(1)
           /\ errors[k] - Num(k) =
                Initial(msg) + yielded[k] * Num(1) - ((i - 1) * Num(k) + Num(k))
  <2>1. errors[k] = Initial(msg) + yielded[k] * Num(1) - (i - 1) * Num(k)
    BY <1>6
  <2> DEFINE x == yielded[k] * Num(1)
             y == (i - 1) * Num(k)
  <2>2. x \in Int /\ y \in Int /\ errors[k] = Initial(msg) + x - y
    BY <1>8, <2>1
  <2> HIDE DEF x, y
  <2>3. 0 <= errors[k] /\ errors[k] < Num(1)
    BY <1>6
  <2>4. QED
    BY <1>5, <2>2, <2>3, OneTurn DEF x, y
<1>10. errors \in Seq(Int) /\ Len(errors) = L /\ yielded \in Seq(Nat) /\ Len(yielded) = L
  BY <1>1, <1>2 DEF TypeOK, Diffused
<1>11. ASSUME NEW x \in Int, errors' = [errors EXCEPT ![k] = x]
       PROVE  /\ errors' \in Seq(Int) /\ Len(errors') = L /\ errors'[k] = x
              /\ \A n \in 1 .. L : n # k => errors'[n] = errors[n]
  BY <1>5, <1>10, <1>11, ExceptSeq
<1>12. /\ InStep' /\ startGsn' = count'
       /\ startGsn' \in Nat /\ count' \in Nat
       /\ yielded' \in Seq(Nat) /\ Len(yielded') = L
       /\ errors' \in Seq(Int) /\ Len(errors') = L
       /\ \A n \in 1 .. L : n # k => yielded'[n] = yielded[n] /\ errors'[n] = errors[n]
       /\ 0 <= errors'[k] /\ errors'[k] < Num(1)
       /\ errors'[k] = Initial(msg) + yielded'[k] * Num(1) - i * Num(k)
  <2>1. CASE errors[k] - Num(k) < 0
    <3>1. YieldSlot(k) /\ errors' = [errors EXCEPT ![k] = errors[k] - Num(k) + Num(1)]
      BY <1>3, <2>1 DEF YieldSecondary
    <3>2. /\ InStep' /\ startGsn' = count'
          /\ startGsn' \in Nat /\ count' \in Nat
          /\ yielded' \in Seq(Nat) /\ Len(yielded') = L
          /\ \A n \in 1 .. L : n # k => yielded'[n] = yielded[n]
          /\ yielded'[k] = yielded[k] + 1
      BY <1>1, <1>2, <1>4, <1>5, <3>1, YieldKeepsStep
    <3>3. errors[k] - Num(k) + Num(1) \in Int
      BY <1>5
    <3>4. /\ errors' \in Seq(Int) /\ Len(errors') = L
          /\ errors'[k] = errors[k] - Num(k) + Num(1)
          /\ \A n \in 1 .. L : n # k => errors'[n] = errors[n]
      BY <1>11, <3>1, <3>3
    <3>5. 0 <= errors'[k] /\ errors'[k] < Num(1)
      BY <1>9, <2>1, <3>4
    <3>6. errors'[k] = Initial(msg) + yielded'[k] * Num(1) - i * Num(k)
      BY <1>8, <1>9, <2>1, <3>2, <3>4, Zenon
    <3>7. QED
      BY <3>2, <3>4, <3>5, <3>6
  <2>2. CASE ~(errors[k] - Num(k) < 0)
    <3>1. /\ errors' = [errors EXCEPT ![k] = errors[k] - Num(k)]
          /\ yielded' = yielded /\ count' = count /\ startGsn' = startGsn
      BY <1>3, <2>2 DEF YieldSecondary
    <3>2. errors[k] - Num(k) \in Int
      BY <1>5
    <3>3. /\ errors' \in Seq(Int) /\ Len(errors') = L
          /\ errors'[k] = errors[k] - Num(k)
          /\ \A n \in 1 .. L : n # k => errors'[n] = errors[n]
      BY <1>11, <3>1, <3>2
    <3>4. 0 <= errors'[k] /\ errors'[k] < Num(1)
      BY <1>9, <2>2, <3>3, Zenon
    <3>5. errors'[k] = Initial(msg) + yielded'[k] * Num(1) - i * Num(k)
      BY <1>8, <1>9, <2>2, <3>1, <3>3, Zenon
    <3>6. InStep'
      BY <1>4, <3>1 DEF IInv, InStep, Remaining, Num, StartAfter
    <3>7. QED
      BY <1>1, <1>10, <3>1, <3>3, <3>4, <3>5, <3>6 DEF IInv, TypeOK
  <2>3. QED
    BY <2>1, <2>2
<1>13. TypeOK'
  <2>1. startGsn' \in Nat /\ count' \in Nat /\ yielded' \in Seq(Nat) /\ errors' \in Seq(Int)
    BY <1>12
  <2>2. j' \in Nat /\ i' \in Nat
    BY <1>3, <1>4, <1>5
  <2>3. QED
    BY <1>1, <1>4, <2>1, <2>2 DEF TypeOK
<1>14. Diffused'
  <2>1. /\ FirstIsLargest(msg)' /\ Initial(msg)' = Initial(msg)
        /\ i' <= Num(1) /\ j' \in 2 .. L + 1
        /\ yielded'[1] = i'
    <3>1. 1 \in 1 .. L /\ k # 1
      BY <1>2, <1>3
    <3>2. QED
      BY <1>1, <1>2, <1>3, <1>4, <1>12, <3>1 DEF Diffused, FirstIsLargest, Initial
  <2>2. ASSUME NEW n \in 2 .. L
        PROVE  /\ 0 <= errors'[n] /\ errors'[n] < Num(1)
               /\ errors'[n] = Initial(msg) + yielded'[n] * Num(1) - Turns(n)' * Num(n)
    <3>1. CASE n = k
      BY <1>7, <1>12, <3>1
    <3>2. CASE n # k
      <4>1. n \in 1 .. L
        OBVIOUS
      <4>2. QED
        BY <1>1, <1>2, <1>7, <1>12, <3>2, <4>1 DEF Diffused
    <3>3. QED
      BY <3>1, <3>2
  <2>3. QED
    BY <1>2, <1>4, <1>5, <1>12, <2>1, <2>2 DEF Diffused
<1>15. Chained'
  BY <1>4 DEF IInv, Chained, StartAfter
<1>16. QED
  BY <1>12, <1>13, <1>14, <1>15 DEF IInv

(* At the end of the loop every assignment has its slots: none remains.    *)
LEMMA AllYielded ==
  ASSUME IInv, Done
  PROVE  startGsn = StartAfter(0)
<1>1. TypeOK /\ Diffused /\ msg # << >>
  BY DEF IInv, Done
<1>2. PICK L \in Nat : L = Len(msg) /\ L >= 1
  BY <1>1, RunningMessage
<1>3. \A n \in 1 .. L : Num(n) \in Nat \ {0} /\ yielded[n] \in Nat /\ errors[n] \in Int
  BY <1>1, <1>2, RunningMessage
<1>4. ASSUME NEW n \in 1 .. L PROVE yielded[n] = Num(n)
  <2>1. CASE n = 1
    BY <1>1, <2>1 DEF Diffused, Done
  <2>2. CASE n # 1
    <3>1. n \in 2 .. L /\ L >= 2
      BY <1>2, <2>2
    <3>2. Turns(n) = Num(1)
      BY <1>2, <3>1 DEF Done, Turns
    <3>3. /\ 0 <= errors[n] /\ errors[n] < Num(1)
          /\ errors[n] = Initial(msg) + yielded[n] * Num(1) - Num(1) * Num(n)
      BY <1>1, <1>2, <3>1, <3>2 DEF Diffused
    <3>4. Initial(msg) \in Nat /\ Initial(msg) < Num(1)
      BY <1>1, <1>2, <3>1, InitialError DEF TypeOK, Num
    <3>5. Num(1) \in Nat \ {0} /\ Num(n) \in Nat /\ yielded[n] \in Nat /\ errors[n] \in Int
      BY <1>2, <1>3
    <3>6. yielded[n] * Num(1) \in Int /\ Num(1) * Num(n) \in Int
      BY <3>5
    <3>7. yielded[n] * Num(1) - Num(1) * Num(n) < Num(1) /\ Num(1) * Num(n) - yielded[n] * Num(1) < Num(1)
      BY <3>3, <3>4, <3>5, <3>6
    <3>8. QED
      BY <3>5, <3>7, ExactShare
  <2>3. QED
    BY <2>1, <2>2
<1>5. PICK f \in [0 .. L -> Int] : Remaining(f) /\ startGsn + f[L] = StartAfter(0)
  BY <1>2 DEF IInv, InStep
<1> DEFINE S == {n \in 0 .. L : f[n] = 0}
<1>6. 0 \in S
  BY <1>5 DEF Remaining
<1>7. ASSUME NEW n \in 0 .. L, n # L, n \in S PROVE n + 1 \in S
  <2>1. n + 1 \in 1 .. L /\ n + 1 \in 0 .. L /\ n + 1 - 1 = n
    BY <1>7
  <2>2. f[n + 1] = f[n] + Num(n + 1) - yielded[n + 1]
    BY <1>2, <1>5, <2>1 DEF Remaining
  <2>3. yielded[n + 1] = Num(n + 1) /\ Num(n + 1) \in Nat /\ f[n] = 0
    BY <1>3, <1>4, <1>7, <2>1
  <2>4. f[n + 1] = 0
    BY <2>2, <2>3
  <2>5. QED
    BY <2>1, <2>4
<1> HIDE DEF S
<1>8. L \in S
  <2>1. \A n \in 0 .. L : n # L /\ n \in S => n + 1 \in S
    BY <1>7
  <2>2. \A n \in 0 .. L : n \in S
    BY <1>6, <2>1, SetInduction
  <2>3. QED
    BY <1>2, <2>2
<1>9. f[L] = 0 /\ startGsn \in Nat
  BY <1>1, <1>8 DEF S, TypeOK
<1>10. QED
  BY <1>5, <1>9

(* add_entries returns.                                                    *)
LEMMA FinishStep ==
  ASSUME IInv, FinishSlots
  PROVE  IInv'
<1>1. TypeOK
  BY DEF IInv
<1>2. /\ msg' = << >> /\ i' = 0 /\ j' = 1 /\ errors' = << >> /\ yielded' = << >>
      /\ inbox' = inbox /\ startGsn' = startGsn /\ count' = count /\ gsnBase' = gsnBase
      /\ active' = active /\ rate' = rate /\ epochs' = epochs
  BY DEF FinishSlots, orderVars
<1>3. TypeOK'
  BY <1>1, <1>2 DEF TypeOK
<1>4. Chained'
  BY <1>2 DEF IInv, Chained, StartAfter
<1>5. Diffused'
  BY <1>2 DEF Diffused
<1>6. InStep'
  <2>1. startGsn = StartAfter(0) /\ startGsn \in Nat
    BY <1>1, AllYielded DEF FinishSlots, TypeOK
  <2> DEFINE f == [n \in 0 .. 0 |-> 0]
  <2>2. f \in [0 .. 0 -> Int] /\ f[0] = 0
    OBVIOUS
  <2> HIDE DEF f
  <2>3. Len(msg') = 0 /\ StartAfter(0)' = StartAfter(0)
    BY <1>2 DEF StartAfter
  <2>4. PICK e \in [0 .. 0 -> Int] : e[0] = 0
    BY <2>2
  <2>5. Remaining(e)'
    BY <2>3, <2>4 DEF Remaining
  <2>6. QED
    BY <1>2, <2>1, <2>3, <2>4, <2>5 DEF InStep
<1>7. QED
  BY <1>2, <1>3, <1>4, <1>5, <1>6 DEF IInv

-----------------------------------------------------------------------------
(* The invariant holds in every reachable state.                           *)
THEOREM Invariance == Spec => []IInv
<1>1. IInv /\ [Next]_vars => IInv'
  <2> SUFFICES ASSUME IInv, [Next]_vars PROVE IInv'
    OBVIOUS
  <2>1. CASE UNCHANGED vars
    <3>1. UNCHANGED <<gsnBase, inbox, serverVars>> /\ TypeOK'
      BY <2>1 DEF vars, orderVars, serverVars, IInv, TypeOK
    <3>2. QED
      BY <3>1, ClientsStep
  <2>2. CASE Order
    <3>1. CASE Epoch
      BY <3>1, EpochStep
    <3>2. CASE \E c \in Clients, n \in 1 .. MaxRate : AddClient(c, n)
      BY <3>2, RateSteps, BoundsAssumption
    <3>3. CASE \E c \in Clients : DropClient(c)
      <4>1. PICK c \in Clients : DropClient(c)
        BY <3>3
      <4>2. 0 \in Nat
        OBVIOUS
      <4>3. QED
        BY <4>1, <4>2, RateSteps
    <3>4. CASE \E c \in Clients, n \in 0 .. MaxRate : ClientRate(c, n)
      BY <3>4, RateSteps, BoundsAssumption
    <3>5. QED
      BY <2>2, <3>1, <3>2, <3>3, <3>4 DEF Order
  <2>3. CASE Server
    BY <2>3, ReceiveStep, PrimaryStep, SecondaryStep, FinishStep DEF Server
  <2>4. QED
    BY <2>1, <2>2, <2>3 DEF Next
<1>2. QED
  BY <1>1, InitIInv, PTL DEF Spec

(* All variables keep their types; in particular no rate becomes zero, on  *)
(* which the ordering service and the servers rely.                        *)
THEOREM TypeCorrect == Spec => []TypeOK
<1>1. IInv => TypeOK
  BY DEF IInv
<1>2. QED
  BY <1>1, Invariance, PTL

(* At any turn of the loop a client has its share of the slots, to within  *)
(* one slot, for any rates and any number of clients.                      *)
THEOREM SharesAreProportional == Spec => []ProportionalShare
<1>1. IInv => ProportionalShare
  <2> SUFFICES ASSUME IInv, msg # << >>, NEW k \in 2 .. Len(msg)
               PROVE  /\ yielded[k] * Num(1) - Turns(k) * Num(k) < Num(1)
                      /\ Turns(k) * Num(k) - yielded[k] * Num(1) < Num(1)
    BY DEF ProportionalShare, Turns
  <2>1. TypeOK /\ Diffused
    BY DEF IInv
  <2>2. PICK L \in Nat : L = Len(msg)
    BY <2>1, RunningMessage
  <2>3. k \in 1 .. L /\ 1 \in 1 .. L /\ L >= 2
    BY <2>2
  <2>4. yielded[k] \in Nat /\ Num(1) \in Nat /\ Num(k) \in Nat /\ errors[k] \in Int
    BY <2>1, <2>2, <2>3, RunningMessage
  <2>5. Turns(k) \in Int
    BY <2>1 DEF Turns, TypeOK
  <2>6. Initial(msg) \in Nat /\ Initial(msg) < Num(1)
    BY <2>1, <2>2, <2>3, InitialError DEF TypeOK, Num
  <2>7. /\ 0 <= errors[k] /\ errors[k] < Num(1)
        /\ errors[k] = Initial(msg) + yielded[k] * Num(1) - Turns(k) * Num(k)
    BY <2>1 DEF Diffused
  <2>8. yielded[k] * Num(1) \in Int /\ Turns(k) * Num(k) \in Int
    BY <2>4, <2>5
  <2>9. QED
    BY <2>4, <2>6, <2>7, <2>8, SMTT(30)
<1>2. QED
  BY <1>1, Invariance, PTL

(* The n-th slot that a server yields has GSN n, and a server that has     *)
(* caught up stands at gsn_base_: the GSNs of all servers agree, although  *)
(* only their arithmetic keeps them together.                              *)
THEOREM ServersStayInStep == Spec => []InStepWithOrder
<1>1. IInv => InStepWithOrder
  <2> SUFFICES ASSUME IInv, msg = << >>, inbox = << >> PROVE startGsn = gsnBase
    BY DEF IInv, InStepWithOrder
  <2>1. PICK f \in [0 .. Len(msg) -> Int] : Remaining(f) /\ startGsn + f[Len(msg)] = StartAfter(0)
    BY DEF IInv, InStep
  <2>2. Len(msg) = 0 /\ Len(inbox) = 0
    OBVIOUS
  <2>3. f[0] = 0 /\ startGsn + f[0] = gsnBase /\ startGsn \in Nat
    BY <2>1, <2>2 DEF Remaining, StartAfter, IInv, TypeOK
  <2>4. QED
    BY <2>3
<1>2. QED
  BY <1>1, Invariance, PTL

-----------------------------------------------------------------------------
(* Sessions.  What the module assumes of its constants is the hypothesis   *)
(* Setting of the lemmas.                                                  *)

-----------------------------------------------------------------------------
(* Types, and what happens to the messages.                                *)

Ports == Peers \cup Nodes
Msgs == {"info", "freeze", "cut", "finalize", "bye", "order_finished", "storage_finished"}
Mailboxes == [Ports \X Ports -> Seq(Msgs)]
Places == {"off", "loop", "connecting", "ended", "crashed"}
Objects == {"null"} \cup Waiters
Work == [op : Msgs \cup {"idle", "client", "subscriber", "failure"}, obj : Objects,
         asleep : BOOLEAN]
Standing == [connected : BOOLEAN, disconnected : BOOLEAN, closed : BOOLEAN]

OrderTypes ==
  /\ starting \subseteq Servers /\ storageAddresses \subseteq Servers
  /\ orderMain \in {"none", "client", "subscriber"}
  /\ clientState \in {"none", "active", "failed"} /\ subscriberQueue \in BOOLEAN
StorageTypes ==
  /\ thread \in [Servers -> [Waiters -> Work]] /\ location \in [Servers -> Objects]
  /\ state \in [Servers -> [Waiters -> Standing]]
SubscriberTypes ==
  /\ subscribers \in [Servers -> BOOLEAN] /\ changes \in [Servers -> Seq({"add", "remove"})]
  /\ polled \in [Servers -> [Threads -> Nat]] /\ queue \in [Servers -> [Threads -> BOOLEAN]]
PeerTypes ==
  /\ pc \in [Peers -> Places] /\ todo \in [Peers -> SUBSET Servers]
  /\ queues \in [Peers -> SUBSET Servers]
  /\ finished \in [Servers -> Nat] /\ orderFinished \in BOOLEAN

Types == OrderTypes /\ StorageTypes /\ SubscriberTypes /\ PeerTypes /\ net \in Mailboxes

(* Names of processes are apart.                                           *)
LEMMA Names ==
  ASSUME Setting
  PROVE  /\ \A s \in Servers : /\ s # "client" /\ s # "subscriber" /\ s # "order"
                               /\ s \in Ports /\ s \in Nodes
         /\ {"client", "subscriber", "order"} \subseteq Ports
         /\ IsFiniteSet(Threads) /\ Threads # {}
<1>1. Servers \cap {"client", "subscriber", "order"} = {}
  BY DEF Setting
<1>2. \A s \in Servers : s # "client" /\ s # "subscriber" /\ s # "order"
  BY <1>1
<1>3. \A s \in Servers : s \in Ports /\ s \in Nodes
  BY DEF Ports, Nodes
<1>4. {"client", "subscriber", "order"} \subseteq Ports
  BY DEF Ports, Peers, Nodes
<1>5. IsFiniteSet(Threads) /\ Threads # {}
  BY DEF Setting
<1>6. QED
  BY <1>2, <1>3, <1>4, <1>5

(* Taking a message off a channel changes this channel alone.              *)
LEMMA TakenMail ==
  ASSUME net \in Mailboxes, NEW a \in Ports, NEW b \in Ports, net[<<a, b>>] # << >>
  PROVE  /\ Taken(a, b) \in Mailboxes
         /\ Taken(a, b)[<<a, b>>] = Tail(net[<<a, b>>])
         /\ \A x, y \in Ports : x # a \/ y # b => Taken(a, b)[<<x, y>>] = net[<<x, y>>]
<1>1. net[<<a, b>>] \in Seq(Msgs)
  BY DEF Mailboxes
<1>2. Tail(net[<<a, b>>]) \in Seq(Msgs)
  BY <1>1
<1>3. Taken(a, b) = [net EXCEPT ![<<a, b>>] = Tail(net[<<a, b>>])]
  BY DEF Taken
<1>4. QED
  BY <1>2, <1>3 DEF Mailboxes

(* Sending a message adds it to the channels named.                        *)
LEMMA WithMail ==
  ASSUME NEW n \in Mailboxes, NEW C, NEW m \in Msgs
  PROVE  /\ With(n, C, m) \in Mailboxes
         /\ \A x, y \in Ports : /\ <<x, y>> \in C =>
                                     With(n, C, m)[<<x, y>>] = Append(n[<<x, y>>], m)
                                /\ <<x, y>> \notin C => With(n, C, m)[<<x, y>>] = n[<<x, y>>]
<1>1. DOMAIN n = Ports \X Ports
  BY DEF Mailboxes
<1>2. \A c \in Ports \X Ports : n[c] \in Seq(Msgs) /\ Append(n[c], m) \in Seq(Msgs)
  BY DEF Mailboxes
<1>3. With(n, C, m) = [c \in Ports \X Ports |-> IF c \in C THEN Append(n[c], m) ELSE n[c]]
  BY <1>1 DEF With
<1>4. With(n, C, m) \in Mailboxes
  BY <1>2, <1>3 DEF Mailboxes
<1>5. QED
  BY <1>3, <1>4

(* The channels that the invariants are about.                             *)
Watched ==
  (Servers \X Peers)
    \cup {<<"order", "client">>, <<"order", "subscriber">>, <<"client", "order">>}

Unposted(n, o) == n \in Mailboxes /\ \A c \in Watched : n[c] = o[c]

Posted(n, o, d, v) == n \in Mailboxes /\ \A c \in Watched : n[c] = IF c = d THEN v ELSE o[c]

(* A channel that is not watched.                                          *)
LEMMA TakenElsewhere ==
  ASSUME net \in Mailboxes, NEW a \in Ports, NEW b \in Ports, net[<<a, b>>] # << >>,
         <<a, b>> \notin Watched, Setting
  PROVE  Unposted(Taken(a, b), net)
<1>1. /\ Taken(a, b) \in Mailboxes
      /\ \A x, y \in Ports : x # a \/ y # b => Taken(a, b)[<<x, y>>] = net[<<x, y>>]
  BY TakenMail
<1>2. ASSUME NEW c \in Watched PROVE Taken(a, b)[c] = net[c]
  <2>1. PICK x \in Ports, y \in Ports : c = <<x, y>>
    BY Names DEF Watched, Ports
  <2>2. x # a \/ y # b
    BY <2>1, <1>2
  <2>3. QED
    BY <1>1, <2>1, <2>2
<1>3. QED
  BY <1>1, <1>2 DEF Unposted

(* A watched channel: the other watched ones stay as they are.             *)
LEMMA TakenHere ==
  ASSUME net \in Mailboxes, NEW a \in Ports, NEW b \in Ports, net[<<a, b>>] # << >>, Setting
  PROVE  Posted(Taken(a, b), net, <<a, b>>, Tail(net[<<a, b>>]))
<1>1. /\ Taken(a, b) \in Mailboxes /\ Taken(a, b)[<<a, b>>] = Tail(net[<<a, b>>])
      /\ \A x, y \in Ports : x # a \/ y # b => Taken(a, b)[<<x, y>>] = net[<<x, y>>]
  BY TakenMail
<1>2. ASSUME NEW c \in Watched
      PROVE  Taken(a, b)[c] = IF c = <<a, b>> THEN Tail(net[<<a, b>>]) ELSE net[c]
  <2>1. PICK x \in Ports, y \in Ports : c = <<x, y>>
    BY Names DEF Watched, Ports
  <2>2. QED
    BY <1>1, <2>1
<1>3. QED
  BY <1>1, <1>2 DEF Posted

(* Messages on channels that are not watched.                              *)
LEMMA WithElsewhere ==
  ASSUME Setting, NEW n \in Mailboxes, NEW C, NEW m \in Msgs, C \cap Watched = {}
  PROVE  Unposted(With(n, C, m), n)
<1>1. /\ With(n, C, m) \in Mailboxes
      /\ \A x, y \in Ports : <<x, y>> \notin C => With(n, C, m)[<<x, y>>] = n[<<x, y>>]
  BY WithMail
<1>2. ASSUME NEW c \in Watched PROVE With(n, C, m)[c] = n[c]
  <2>1. PICK x \in Ports, y \in Ports : c = <<x, y>>
    BY Names DEF Watched, Ports
  <2>2. <<x, y>> \notin C
    BY <2>1, <1>2
  <2>3. QED
    BY <1>1, <2>1, <2>2
<1>3. QED
  BY <1>1, <1>2 DEF Unposted

(* A message on one channel.                                               *)
LEMMA WithHere ==
  ASSUME Setting, NEW n \in Mailboxes, NEW d, NEW m \in Msgs
  PROVE  Posted(With(n, {d}, m), n, d, Append(n[d], m))
<1>1. /\ With(n, {d}, m) \in Mailboxes
      /\ \A x, y \in Ports : /\ <<x, y>> \in {d} =>
                                  With(n, {d}, m)[<<x, y>>] = Append(n[<<x, y>>], m)
                             /\ <<x, y>> \notin {d} => With(n, {d}, m)[<<x, y>>] = n[<<x, y>>]
  BY WithMail, SMTT(30)
<1>2. ASSUME NEW c \in Watched
      PROVE  With(n, {d}, m)[c] = IF c = d THEN Append(n[d], m) ELSE n[c]
  <2>1. PICK x \in Ports, y \in Ports : c = <<x, y>>
    BY Names DEF Watched, Ports
  <2>2. QED
    BY <1>1, <2>1
<1>3. QED
  BY <1>1, <1>2 DEF Posted

(* What the ordering service sends to the servers is not watched.          *)
LEMMA ToStorageElsewhere ==
  ASSUME Setting, storageAddresses \subseteq Servers
  PROVE  ToStorage \cap Watched = {}
BY Names DEF ToStorage, Watched, Peers

(* Steps that leave the watched channels alone, one after the other.       *)
LEMMA NothingPosted ==
  ASSUME NEW n \in Mailboxes
  PROVE  Unposted(n, n)
BY DEF Unposted

(* Quiet twice is quiet.                                                   *)
LEMMA UnpostedTwice ==
  ASSUME NEW n, NEW o, NEW q, Unposted(n, o), Unposted(o, q)
  PROVE  Unposted(n, q)
BY DEF Unposted

(* A message, then nothing that is watched.                                *)
LEMMA PostedThenNot ==
  ASSUME NEW n, NEW o, NEW q, NEW d, NEW v, Unposted(n, o), Posted(o, q, d, v)
  PROVE  Posted(n, q, d, v)
BY DEF Unposted, Posted

(* The ordering service tells the servers of a failure or of the end.      *)
LEMMA FailedMail ==
  ASSUME Setting, OrderTypes, NEW n \in Mailboxes, Failed(n)
  PROVE  Unposted(net', n)
<1>1. Unposted(With(n, ToStorage, "freeze"), n)
  BY WithElsewhere, ToStorageElsewhere DEF OrderTypes, Msgs
<1>2. QED
  BY <1>1, NothingPosted DEF Failed

(* ... and of the end of the client.                                       *)
LEMMA FinalizedMail ==
  ASSUME Setting, OrderTypes, NEW n \in Mailboxes, Finalized(n)
  PROVE  Unposted(net', n)
<1>1. Unposted(With(n, ToStorage, "finalize"), n)
  BY WithElsewhere, ToStorageElsewhere DEF OrderTypes, Msgs
<1>2. QED
  BY <1>1 DEF Finalized

(* Channels that are not watched.                                          *)
LEMMA Unwatched ==
  ASSUME Setting, NEW s \in Servers
  PROVE  /\ <<s, "order">> \notin Watched /\ <<"order", s>> \notin Watched
         /\ <<"client", s>> \notin Watched /\ <<"subscriber", s>> \notin Watched
         /\ <<"subscriber", "order">> \notin Watched
BY Names DEF Watched, Peers

(* Steps whose messages nobody below waits for.                            *)
LEMMA QuietSteps ==
  ASSUME Setting, Types,
         \/ OrderFailureEvent
         \/ \E s \in Servers :
              \/ OrderClientFreeze(s) \/ OrderClientCut(s) \/ TakeFromOrder(s)
              \/ TakeFromClient(s) \/ Disconnect(s) \/ StorageSubscriberFinished(s)
         \/ \E p \in Peers : SendBye(p)
  PROVE  Unposted(net', net)
<1>0. net \in Mailboxes /\ OrderTypes
  BY DEF Types
<1>1. CASE OrderFailureEvent
  BY <1>0, <1>1, FailedMail DEF OrderFailureEvent
<1>2. ASSUME NEW s \in Servers, OrderClientFreeze(s) PROVE Unposted(net', net)
  <2>1. Unposted(Taken(s, "order"), net)
    BY <1>0, <1>2, TakenElsewhere, Unwatched, Names DEF OrderClientFreeze, Arrived
  <2>2. Unposted(net', Taken(s, "order"))
    BY <1>0, <1>2, <2>1, FailedMail DEF OrderClientFreeze, Unposted
  <2>3. QED
    BY <2>1, <2>2, UnpostedTwice
<1>3. ASSUME NEW s \in Servers, OrderClientCut(s) PROVE Unposted(net', net)
  <2>1. Unposted(Taken(s, "order"), net)
    BY <1>0, <1>3, TakenElsewhere, Unwatched, Names DEF OrderClientCut, Arrived
  <2>2. net' = Taken(s, "order") \/ Finalized(Taken(s, "order"))
    BY <1>3 DEF OrderClientCut
  <2>3. CASE net' = Taken(s, "order")
    BY <2>1, <2>3
  <2>4. CASE Finalized(Taken(s, "order"))
    <3>1. Unposted(net', Taken(s, "order"))
      BY <1>0, <2>1, <2>4, FinalizedMail DEF Unposted
    <3>2. QED
      BY <2>1, <3>1, UnpostedTwice
  <2>5. QED
    BY <2>2, <2>3, <2>4
<1>4. ASSUME NEW s \in Servers, TakeFromOrder(s) PROVE Unposted(net', net)
  BY <1>0, <1>4, TakenElsewhere, Unwatched, Names DEF TakeFromOrder
<1>5. ASSUME NEW s \in Servers, TakeFromClient(s) PROVE Unposted(net', net)
  BY <1>0, <1>5, TakenElsewhere, Unwatched, Names DEF TakeFromClient
<1>6. ASSUME NEW s \in Servers, StorageSubscriberFinished(s) PROVE Unposted(net', net)
  BY <1>0, <1>6, TakenElsewhere, Unwatched, Names DEF StorageSubscriberFinished, Arrived
<1>7. ASSUME NEW s \in Servers, Disconnect(s) PROVE Unposted(net', net)
  <2>1. PICK m \in {"freeze", "cut"} : net' = With(net, {<<s, "order">>}, m)
    BY <1>7 DEF Disconnect
  <2>2. m \in Msgs /\ {<<s, "order">>} \cap Watched = {}
    BY <2>1, Unwatched DEF Msgs
  <2>3. QED
    BY <1>0, <2>1, <2>2, WithElsewhere
<1>8. ASSUME NEW p \in Peers, SendBye(p) PROVE Unposted(net', net)
  <2> DEFINE C == {p} \X (queues[p] \union (IF p = "subscriber" THEN {"order"} ELSE {}))
  <2>1. net' = With(net, C, "bye")
    BY <1>8 DEF SendBye
  <2>2. queues[p] \subseteq Servers
    BY <1>8 DEF Types, PeerTypes
  <2>3. C \cap Watched = {}
    BY <2>2, Names, Unwatched DEF Peers, Watched
  <2>4. QED
    BY <1>0, <2>1, <2>3, WithElsewhere DEF Msgs
<1>9. QED
  BY <1>1, <1>2, <1>3, <1>4, <1>5, <1>6, <1>7, <1>8

(* What the other steps do to a watched channel.                           *)
LEMMA OrderAddClientMail ==
  ASSUME Setting, Types, OrderAddClient, clientState = "none"
  PROVE  Posted(net', net, <<"order", "client">>, Append(net[<<"order", "client">>], "info"))
BY WithHere DEF OrderAddClient, Types, Msgs

(* The main thread tells the subscriber of the servers.                    *)
LEMMA OrderAddSubscriberMail ==
  ASSUME Setting, Types, OrderAddSubscriber, ~ subscriberQueue
  PROVE  Posted(net', net, <<"order", "subscriber">>,
                Append(net[<<"order", "subscriber">>], "info"))
BY WithHere DEF OrderAddSubscriber, Types, Msgs

(* The loop answers the farewell of a subscriber that it has.              *)
LEMMA OrderSubscriberFinishedMail ==
  ASSUME Setting, Types, OrderSubscriberFinished
  PROVE  IF subscriberQueue
           THEN Posted(net', net, <<"order", "subscriber">>,
                       Append(net[<<"order", "subscriber">>], "order_finished"))
           ELSE Unposted(net', net)
<1>1. PICK n : n = Taken("subscriber", "order")
  OBVIOUS
<1>2. Unposted(n, net)
  BY <1>1, TakenElsewhere, Unwatched, Names DEF Setting, OrderSubscriberFinished,
    Arrived, Types
<1>3. n[<<"order", "subscriber">>] = net[<<"order", "subscriber">>] /\ n \in Mailboxes
  BY <1>2 DEF Unposted, Watched
<1>4. Posted(With(n, {<<"order", "subscriber">>}, "order_finished"), n, <<"order", "subscriber">>,
             Append(n[<<"order", "subscriber">>], "order_finished"))
  BY <1>3, WithHere DEF Msgs
<1>5. QED
  BY <1>1, <1>2, <1>3, <1>4 DEF OrderSubscriberFinished, Posted, Unposted

(* The info is taken.                                                      *)
LEMMA StorageInfoMail ==
  ASSUME Setting, Types, NEW p \in Peers, StorageInfo(p)
  PROVE  Posted(net', net, <<"order", p>>, Tail(net[<<"order", p>>]))
BY TakenHere, Names DEF StorageInfo, Arrived, Types, Ports, Peers

(* The answer of the ordering service is taken by the client, ...          *)
LEMMA ClientOrderFinishedMail ==
  ASSUME Setting, Types, ClientOrderFinished
  PROVE  Posted(net', net, <<"order", "client">>, Tail(net[<<"order", "client">>]))
BY TakenHere, Names DEF ClientOrderFinished, Arrived, Types, Ports, Peers

(* ... or by the subscriber.                                               *)
LEMMA SubscriberOrderFinishedMail ==
  ASSUME Setting, Types, SubscriberOrderFinished
  PROVE  Posted(net', net, <<"order", "subscriber">>, Tail(net[<<"order", "subscriber">>]))
BY TakenHere, Names DEF SubscriberOrderFinished, Arrived, Types, Ports, Peers

(* The subscriber takes the farewell of a subscriber thread.               *)
LEMMA SubscriberStorageFinishedMail ==
  ASSUME Setting, Types, NEW s \in Servers, SubscriberStorageFinished(s)
  PROVE  Posted(net', net, <<s, "subscriber">>, Tail(net[<<s, "subscriber">>]))
BY TakenHere, Names DEF SubscriberStorageFinished, Arrived, Types, Ports, Peers

(* A subscriber thread that is to remove the queue says farewell.          *)
LEMMA GetChangeMail ==
  ASSUME Setting, Types, NEW s \in Servers, NEW k \in Threads, GetChange(s, k)
  PROVE  IF NextChange(s, k) = "add" THEN Unposted(net', net)
         ELSE Posted(net', net, <<s, "subscriber">>,
                     Append(net[<<s, "subscriber">>], "storage_finished"))
BY WithHere, NothingPosted DEF GetChange, Types, Msgs

(* The client thread answers the client at most once.                      *)
LEMMA StorageClientFinishedMail ==
  ASSUME Setting, Types, NEW s \in Servers, StorageClientFinished(s)
  PROVE  \/ Unposted(net', net)
         \/ Posted(net', net, <<s, "client">>, Append(net[<<s, "client">>], "storage_finished"))
BY WithHere, NothingPosted DEF StorageClientFinished, Types, Msgs

(* Two channels.                                                           *)
LEMMA OrderClientFinishedMail ==
  ASSUME Setting, Types, OrderClientFinished
  PROVE  /\ net' \in Mailboxes
         /\ \A c \in Watched \ {<<"client", "order">>, <<"order", "client">>} : net'[c] = net[c]
         /\ net'[<<"client", "order">>] = Tail(net[<<"client", "order">>])
         /\ net'[<<"order", "client">>] =
              IF clientState = "none" THEN net[<<"order", "client">>]
              ELSE Append(net[<<"order", "client">>], "order_finished")
<1>1. PICK n : n = Taken("client", "order")
  OBVIOUS
<1>2. Posted(n, net, <<"client", "order">>, Tail(net[<<"client", "order">>]))
  BY <1>1, TakenHere, Names DEF Setting, OrderClientFinished, Arrived, Types
<1>3. n[<<"order", "client">>] = net[<<"order", "client">>] /\ n \in Mailboxes
  BY <1>2 DEF Posted, Watched
<1>4. CASE clientState = "none"
  BY <1>1, <1>2, <1>3, <1>4 DEF OrderClientFinished, Posted, Watched
<1>5. CASE clientState # "none"
  <2>1. PICK q : q = With(n, {<<"order", "client">>}, "order_finished")
    OBVIOUS
  <2>2. Posted(q, n, <<"order", "client">>, Append(n[<<"order", "client">>], "order_finished"))
    BY <1>3, <2>1, WithHere DEF Msgs
  <2>3. Finalized(q)
    BY <1>1, <1>5, <2>1 DEF OrderClientFinished
  <2>4. Unposted(net', q)
    BY <2>2, <2>3, FinalizedMail DEF Posted, Types
  <2>5. QED
    BY <1>2, <1>3, <1>5, <2>2, <2>4 DEF Posted, Unposted, Watched
<1>6. QED
  BY <1>4, <1>5

(* The client takes the answer of a server; with the last one it goes on   *)
(* to the ordering service.                                                *)
LEMMA ClientStorageFinishedMail ==
  ASSUME Setting, Types, NEW s \in Servers, ClientStorageFinished(s)
  PROVE  /\ net' \in Mailboxes
         /\ \A c \in Watched \ {<<s, "client">>, <<"client", "order">>} : net'[c] = net[c]
         /\ net'[<<s, "client">>] = Tail(net[<<s, "client">>])
         /\ net'[<<"client", "order">>] =
              IF queues["client"] = {s} THEN Append(net[<<"client", "order">>], "bye")
              ELSE net[<<"client", "order">>]
<1>1. PICK n : n = Taken(s, "client")
  OBVIOUS
<1>2. Posted(n, net, <<s, "client">>, Tail(net[<<s, "client">>]))
  BY <1>1, TakenHere, Names DEF Setting, ClientStorageFinished, Arrived, Types
<1>3. n[<<"client", "order">>] = net[<<"client", "order">>] /\ n \in Mailboxes
  BY <1>2, Names DEF Posted, Watched
<1>4. <<s, "client">> \in Watched /\ <<"client", "order">> \in Watched
      /\ <<s, "client">> # <<"client", "order">>
  BY Names DEF Watched, Peers
<1>5. CASE queues["client"] # {s}
  BY <1>1, <1>2, <1>3, <1>4, <1>5 DEF ClientStorageFinished, Posted
<1>6. CASE queues["client"] = {s}
  <2>1. net' = With(n, {<<"client", "order">>}, "bye")
    BY <1>1, <1>6 DEF ClientStorageFinished
  <2>2. Posted(net', n, <<"client", "order">>, Append(n[<<"client", "order">>], "bye"))
    BY <1>3, <2>1, WithHere DEF Msgs
  <2>3. QED
    BY <1>2, <1>3, <1>4, <1>6, <2>2 DEF Posted
<1>7. QED
  BY <1>5, <1>6

-----------------------------------------------------------------------------
(* The threads of a server, and the objects they share.                    *)

(* Records with one field changed.                                         *)
LEMMA WorkFields ==
  ASSUME NEW r \in Work, NEW v
  PROVE  /\ [r EXCEPT !.op = v] = [op |-> v, obj |-> r.obj, asleep |-> r.asleep]
         /\ [r EXCEPT !.obj = v] = [op |-> r.op, obj |-> v, asleep |-> r.asleep]
         /\ [r EXCEPT !.asleep = v] = [op |-> r.op, obj |-> r.obj, asleep |-> v]
BY DEF Work

(* The same for the state of the client.                                   *)
LEMMA StandingFields ==
  ASSUME NEW r \in Standing, NEW v
  PROVE  /\ [r EXCEPT !.connected = v] =
              [connected |-> v, disconnected |-> r.disconnected, closed |-> r.closed]
         /\ [r EXCEPT !.disconnected = v] =
              [connected |-> r.connected, disconnected |-> v, closed |-> r.closed]
         /\ [r EXCEPT !.closed = v] =
              [connected |-> r.connected, disconnected |-> r.disconnected, closed |-> v]
BY DEF Standing

(* Thread t of s has come to w; the others go on with what they were at.   *)
Works(th, s, t, w) ==
  /\ th \in [Servers -> [Waiters -> Work]] /\ th[s][t] = w
  /\ \A x \in Servers, y \in Waiters : x # s \/ y # t =>
       th[x][y].op = thread[x][y].op /\ th[x][y].obj = thread[x][y].obj

(* One thread goes on.                                                     *)
LEMMA SetThread ==
  ASSUME StorageTypes, NEW s \in Servers, NEW t \in Waiters, NEW w \in Work
  PROVE  Works([thread EXCEPT ![s][t] = w], s, t, w)
BY DEF StorageTypes, Works

(* What thread t of s is at.                                               *)
LEMMA ThreadTypes ==
  ASSUME StorageTypes, NEW s \in Servers, NEW t \in Waiters
  PROVE  /\ thread[s][t] \in Work /\ thread[s][t].obj \in Objects
         /\ thread[s][t] = [op |-> thread[s][t].op, obj |-> thread[s][t].obj,
                            asleep |-> thread[s][t].asleep]
BY DEF StorageTypes, Work

(* The state of the clients may be marked, never unmarked.                 *)
Marked(st) ==
  /\ st \in [Servers -> [Waiters -> Standing]]
  /\ \A x \in Servers, y \in Waiters : state[x][y].disconnected => st[x][y].disconnected

(* One object is marked.                                                   *)
LEMMA SetState ==
  ASSUME StorageTypes, NEW s \in Servers, NEW t \in Waiters, NEW v \in Standing,
         state[s][t].disconnected => v.disconnected
  PROVE  /\ Marked([state EXCEPT ![s][t] = v])
         /\ [state EXCEPT ![s][t] = v][s][t] = v
BY DEF StorageTypes, Marked

(* ... as connected, closed or disconnected.                               *)
LEMMA MarkState ==
  ASSUME StorageTypes, NEW s \in Servers, NEW o \in Waiters
  PROVE  /\ Marked([state EXCEPT ![s][o].connected = TRUE])
         /\ Marked([state EXCEPT ![s][o].closed = TRUE])
         /\ Marked([state EXCEPT ![s][o].disconnected = TRUE])
         /\ [state EXCEPT ![s][o].disconnected = TRUE][s][o].disconnected
<1>1. PICK r \in Standing : r = state[s][o]
  BY DEF StorageTypes
<1>2. \A v \in BOOLEAN : /\ [r EXCEPT !.connected = v] \in Standing
                         /\ [r EXCEPT !.disconnected = v] \in Standing
                         /\ [r EXCEPT !.closed = v] \in Standing
  BY StandingFields DEF Standing
<1>3. /\ [r EXCEPT !.connected = TRUE].disconnected = r.disconnected
      /\ [r EXCEPT !.closed = TRUE].disconnected = r.disconnected
      /\ [r EXCEPT !.disconnected = TRUE].disconnected = TRUE
  BY StandingFields
<1>4. /\ [state EXCEPT ![s][o].connected = TRUE] =
           [state EXCEPT ![s][o] = [r EXCEPT !.connected = TRUE]]
      /\ [state EXCEPT ![s][o].closed = TRUE] =
           [state EXCEPT ![s][o] = [r EXCEPT !.closed = TRUE]]
      /\ [state EXCEPT ![s][o].disconnected = TRUE] =
           [state EXCEPT ![s][o] = [r EXCEPT !.disconnected = TRUE]]
  BY <1>1
<1>5. Marked([state EXCEPT ![s][o].connected = TRUE])
  BY <1>1, <1>2, <1>3, <1>4, SetState
<1>6. Marked([state EXCEPT ![s][o].closed = TRUE])
  BY <1>1, <1>2, <1>3, <1>4, SetState
<1>7. /\ Marked([state EXCEPT ![s][o].disconnected = TRUE])
      /\ [state EXCEPT ![s][o].disconnected = TRUE][s][o].disconnected
  <2>1. PICK v \in Standing : v = [r EXCEPT !.disconnected = TRUE]
    BY <1>2
  <2>2. v.disconnected
    BY <1>3, <2>1
  <2>3. Marked([state EXCEPT ![s][o] = v]) /\ [state EXCEPT ![s][o] = v][s][o] = v
    BY <2>2, SetState
  <2>4. [state EXCEPT ![s][o].disconnected = TRUE] = [state EXCEPT ![s][o] = v]
    BY <1>4, <2>1
  <2>5. QED
    BY <2>2, <2>3, <2>4
<1>8. QED
  BY <1>5, <1>6, <1>7

(* A thread may be idle.                                                   *)
LEMMA IdleWork == Idle \in Work
BY DEF Idle, Work, Objects

(* What each step of a server does to its threads and its objects.         *)
LEMMA ConnectStorageThreads ==
  ASSUME Types, NEW p \in Peers, NEW s \in Servers, ConnectStorage(p, s)
  PROVE  /\ Works(thread', s, "main", [op |-> p, obj |-> "null", asleep |-> FALSE])
         /\ thread[s]["main"] = Idle
<1>1. [op |-> p, obj |-> "null", asleep |-> FALSE] \in Work
  BY DEF Work, Objects, Peers
<1>2. thread' = [thread EXCEPT ![s]["main"] = [op |-> p, obj |-> "null", asleep |-> FALSE]]
  <2>1. thread' = [thread EXCEPT ![s]["main"] = [thread[s]["main"] EXCEPT !.op = p]]
    BY DEF ConnectStorage, Types, StorageTypes, Waiters
  <2>2. [thread[s]["main"] EXCEPT !.op = p] = [op |-> p, obj |-> "null", asleep |-> FALSE]
    <3>1. thread[s]["main"] = Idle
      BY DEF ConnectStorage
    <3>2. [Idle EXCEPT !.op = p] = [op |-> p, obj |-> Idle.obj, asleep |-> Idle.asleep]
      BY IdleWork, WorkFields
    <3>3. QED
      BY <3>1, <3>2 DEF Idle
  <2>3. QED
    BY <2>1, <2>2
<1>3. QED
  BY <1>1, <1>2, SetThread DEF Types, Waiters, ConnectStorage

(* A thread gets the object in place, or puts its own there.               *)
LEMMA GetClientStateThreads ==
  ASSUME Types, NEW s \in Servers, NEW t \in Waiters, GetClientState(s, t)
  PROVE  /\ \E w \in Work : /\ Works(thread', s, t, w) /\ w.op = thread[s][t].op
                            /\ w.obj = location'[s]
         /\ location' = [location EXCEPT ![s] = IF location[s] = "null" THEN t ELSE location[s]]
         /\ location' \in [Servers -> Objects]
<1>1. /\ location' = [location EXCEPT ![s] = IF location[s] = "null" THEN t ELSE location[s]]
      /\ location' \in [Servers -> Objects] /\ location'[s] \in Objects
  BY DEF GetClientState, Exchange, Types, StorageTypes, Objects
<1>2. PICK v \in Objects : v = location'[s]
  BY <1>1
<1>3. PICK w : w = [op |-> thread[s][t].op, obj |-> v, asleep |-> thread[s][t].asleep]
  OBVIOUS
<1>4. w \in Work /\ w.op = thread[s][t].op /\ w.obj = v
  BY <1>2, <1>3, ThreadTypes DEF Work, Types
<1>5. thread' = [thread EXCEPT ![s][t] = w]
  <2>1. thread' = [thread EXCEPT ![s][t] = [thread[s][t] EXCEPT !.obj = v]]
    BY <1>2 DEF GetClientState, Types, StorageTypes
  <2>2. [thread[s][t] EXCEPT !.obj = v] = w
    BY <1>3, ThreadTypes, WorkFields DEF Types
  <2>3. QED
    BY <2>1, <2>2
<1>6. Works(thread', s, t, w)
  BY <1>4, <1>5, SetThread DEF Types
<1>7. QED
  BY <1>1, <1>2, <1>4, <1>6

(* A thread goes to sleep with what it has.                                *)
LEMMA SleepThreads ==
  ASSUME Types, NEW s \in Servers, NEW t \in Waiters, Sleep(s, t)
  PROVE  \E w \in Work : /\ Works(thread', s, t, w) /\ w.op = thread[s][t].op
                         /\ w.obj = thread[s][t].obj
<1>1. PICK w : w = [op |-> thread[s][t].op, obj |-> thread[s][t].obj, asleep |-> TRUE]
  OBVIOUS
<1>2. w \in Work /\ w.op = thread[s][t].op /\ w.obj = thread[s][t].obj
  BY <1>1, ThreadTypes DEF Work, Types
<1>3. thread' = [thread EXCEPT ![s][t] = w]
  <2>1. thread' = [thread EXCEPT ![s][t] = [thread[s][t] EXCEPT !.asleep = TRUE]]
    BY DEF Sleep, Types, StorageTypes
  <2>2. [thread[s][t] EXCEPT !.asleep = TRUE] = w
    BY <1>1, ThreadTypes, WorkFields DEF Types
  <2>3. QED
    BY <2>1, <2>2
<1>4. QED
  BY <1>2, <1>3, SetThread DEF Types

(* The control and the client thread take up something to do.              *)
LEMMA BusyThreads ==
  ASSUME Types, NEW s \in Servers, NEW t \in Waiters,
         NEW a \in Msgs \cup {"failure"}, thread' = Busy(t, s, a)
  PROVE  Works(thread', s, t, [op |-> a, obj |-> location[s], asleep |-> FALSE])
<1>1. [op |-> a, obj |-> location[s], asleep |-> FALSE] \in Work
  BY DEF Work, Types, StorageTypes
<1>2. QED
  BY <1>1, SetThread DEF Busy, Types

(* A thread is done.                                                       *)
LEMMA IdleThreads ==
  ASSUME Types, NEW s \in Servers, NEW t \in Waiters, thread' = [thread EXCEPT ![s][t] = Idle]
  PROVE  Works(thread', s, t, Idle)
BY SetThread, IdleWork DEF Types

(* The main thread is done, and may have woken another.                    *)
LEMMA AddClientThreads ==
  ASSUME Types, NEW s \in Servers, StorageAddClient(s)
  PROVE  Works(thread', s, "main", Idle) /\ Marked(state')
<1> USE DEF Types
<1>1. "main" \in Waiters
  BY DEF Waiters
<1>2. PICK o : o = thread[s]["main"].obj
  OBVIOUS
<1>3. o \in Waiters
  BY <1>1, <1>2, ThreadTypes DEF StorageAddClient, Has, Objects
<1>4. CASE state[s][o].connected
  BY <1>1, <1>2, <1>4, IdleThreads DEF StorageAddClient, Marked, StorageTypes
<1>5. CASE ~ state[s][o].connected
  <2>1. PICK t \in Waiters :
          thread' = [thread EXCEPT ![s][t].asleep = FALSE, ![s]["main"] = Idle]
    BY <1>1, <1>2, <1>5 DEF StorageAddClient, Asleep
  <2>2. PICK w : w = [op |-> thread[s][t].op, obj |-> thread[s][t].obj, asleep |-> FALSE]
    OBVIOUS
  <2>3. w \in Work /\ w.op = thread[s][t].op /\ w.obj = thread[s][t].obj
    BY <2>2, ThreadTypes DEF Work
  <2>4. [thread[s][t] EXCEPT !.asleep = FALSE] = w
    BY <2>2, ThreadTypes, WorkFields
  <2>5. [thread EXCEPT ![s][t].asleep = FALSE] = [thread EXCEPT ![s][t] = w]
    BY <2>4
  <2>6. PICK th : th = [thread EXCEPT ![s][t] = w]
    OBVIOUS
  <2>7. Works(th, s, t, w)
    BY <2>3, <2>6, SetThread
  <2>8. thread' = [th EXCEPT ![s]["main"] = Idle]
    BY <2>1, <2>5, <2>6
  <2>9. Works(thread', s, "main", Idle)
    BY <1>1, <2>3, <2>7, <2>8, IdleWork DEF Works
  <2>10. Marked(state')
    BY <1>2, <1>3, <1>5, MarkState, ZenonT(30) DEF StorageAddClient
  <2>11. QED
    BY <2>9, <2>10
<1>6. QED
  BY <1>4, <1>5

(* The control thread has disconnected the client.                         *)
LEMMA DisconnectThreads ==
  ASSUME Types, NEW s \in Servers, Disconnect(s)
  PROVE  Works(thread', s, "control", Idle) /\ Marked(state')
<1>1. thread[s]["control"].obj \in Waiters
  BY ThreadTypes DEF Disconnect, Has, Objects, Types, Waiters
<1>2. QED
  BY <1>1, MarkState, IdleThreads DEF Disconnect, Types, Waiters

(* The control thread has closed its position.                             *)
LEMMA FinalizeThreads ==
  ASSUME Types, NEW s \in Servers, Finalize(s)
  PROVE  Works(thread', s, "control", Idle) /\ Marked(state')
<1>1. thread[s]["control"].obj \in Waiters
  BY ThreadTypes DEF Finalize, Has, Objects, Types, Waiters
<1>2. QED
  BY <1>1, MarkState, IdleThreads DEF Finalize, Types, Waiters

(* The client thread has disconnected it.                                  *)
LEMMA StorageClientFinishedThreads ==
  ASSUME Types, NEW s \in Servers, StorageClientFinished(s)
  PROVE  /\ Works(thread', s, "client", Idle) /\ Marked(state')
         /\ thread[s]["client"].obj \in Waiters
         /\ state'[s][thread[s]["client"].obj].disconnected
<1>1. thread[s]["client"].obj \in Waiters
  BY ThreadTypes DEF StorageClientFinished, Has, Objects, Types, Waiters
<1>2. PICK o \in Waiters : o = thread[s]["client"].obj
  BY <1>1
<1>3. state' = [state EXCEPT ![s][o].disconnected = TRUE]
  BY <1>2 DEF StorageClientFinished
<1>4. Marked(state') /\ state'[s][o].disconnected
  BY <1>3, MarkState DEF Types
<1>5. QED
  BY <1>1, <1>2, <1>4, IdleThreads DEF StorageClientFinished, Waiters

(* The control thread takes a failure event, ...                           *)
LEMMA TakeFailureThreads ==
  ASSUME Types, NEW s \in Servers, TakeFailure(s)
  PROVE  Works(thread', s, "control", [op |-> "failure", obj |-> location[s], asleep |-> FALSE])
BY BusyThreads DEF TakeFailure, Waiters

(* ... or a message of the ordering service.                               *)
LEMMA TakeFromOrderThreads ==
  ASSUME Setting, Types, NEW s \in Servers, TakeFromOrder(s)
  PROVE  \E a \in Msgs :
           Works(thread', s, "control", [op |-> a, obj |-> location[s], asleep |-> FALSE])
<1>1. net[<<"order", s>>] \in Seq(Msgs) /\ net[<<"order", s>>] # << >>
  BY Names DEF Types, Mailboxes, TakeFromOrder
<1>2. Head(net[<<"order", s>>]) \in Msgs
  BY <1>1
<1>3. QED
  BY <1>2, BusyThreads DEF TakeFromOrder, Waiters

(* The client thread takes a message of the client.                        *)
LEMMA TakeFromClientThreads ==
  ASSUME Setting, Types, NEW s \in Servers, TakeFromClient(s)
  PROVE  \E a \in Msgs :
           Works(thread', s, "client", [op |-> a, obj |-> location[s], asleep |-> FALSE])
<1>1. net[<<"client", s>>] \in Seq(Msgs) /\ net[<<"client", s>>] # << >>
  BY Names DEF Types, Mailboxes, TakeFromClient
<1>2. Head(net[<<"client", s>>]) \in Msgs
  BY <1>1
<1>3. QED
  BY <1>2, BusyThreads DEF TakeFromClient, Waiters

(* The main thread has added the subscriber.                               *)
LEMMA StorageAddSubscriberThreads ==
  ASSUME Types, NEW s \in Servers, StorageAddSubscriber(s)
  PROVE  Works(thread', s, "main", Idle)
BY IdleThreads DEF StorageAddSubscriber, Waiters

(* The steps of the threads, one by one.                                   *)
LEMMA NextTypes ==
  ASSUME Setting, Types, [SessionsNext]_sessionVars
  PROVE  Types'
<1> USE DEF Types
<1>1. ASSUME NEW s \in Servers, AddStorage(s) PROVE Types'
  <2>1. net' \in Mailboxes
    BY <1>1 DEF AddStorage
  <2>2. OrderTypes'
    BY <1>1 DEF AddStorage, OrderTypes, orderingVars, Failed, Finalized, Peers
  <2>3. StorageTypes'
    BY <1>1 DEF AddStorage, StorageTypes, clientVars
  <2>4. SubscriberTypes'
    BY <1>1 DEF AddStorage, SubscriberTypes, subscriberVars
  <2>5. PeerTypes'
    BY <1>1 DEF AddStorage, PeerTypes, peerVars, Places, Peers, AllFinished
  <2>6. QED
    BY <2>1, <2>2, <2>3, <2>4, <2>5
<1>2. CASE OrderAddClient
  <2>1. net' \in Mailboxes
    BY <1>2, OrderAddClientMail DEF OrderAddClient, Unposted, Posted
  <2>2. OrderTypes'
    BY <1>2 DEF OrderAddClient, OrderTypes, orderingVars, Failed, Finalized, Peers
  <2>3. StorageTypes'
    BY <1>2 DEF OrderAddClient, StorageTypes, clientVars
  <2>4. SubscriberTypes'
    BY <1>2 DEF OrderAddClient, SubscriberTypes, subscriberVars
  <2>5. PeerTypes'
    BY <1>2 DEF OrderAddClient, PeerTypes, peerVars, Places, Peers, AllFinished
  <2>6. QED
    BY <2>1, <2>2, <2>3, <2>4, <2>5
<1>3. CASE OrderAddSubscriber
  <2>1. net' \in Mailboxes
    BY <1>3, OrderAddSubscriberMail DEF OrderAddSubscriber, Unposted, Posted
  <2>2. OrderTypes'
    BY <1>3 DEF OrderAddSubscriber, OrderTypes, orderingVars, Failed, Finalized,
      Peers
  <2>3. StorageTypes'
    BY <1>3 DEF OrderAddSubscriber, StorageTypes, clientVars
  <2>4. SubscriberTypes'
    BY <1>3 DEF OrderAddSubscriber, SubscriberTypes, subscriberVars
  <2>5. PeerTypes'
    BY <1>3 DEF OrderAddSubscriber, PeerTypes, peerVars, Places, Peers, AllFinished
  <2>6. QED
    BY <2>1, <2>2, <2>3, <2>4, <2>5
<1>4. CASE OrderFailureEvent
  <2>1. net' \in Mailboxes
    BY <1>4, QuietSteps DEF OrderFailureEvent, Unposted, Posted
  <2>2. OrderTypes'
    BY <1>4 DEF OrderFailureEvent, OrderTypes, orderingVars, Failed, Finalized,
      Peers
  <2>3. StorageTypes'
    BY <1>4 DEF OrderFailureEvent, StorageTypes, clientVars
  <2>4. SubscriberTypes'
    BY <1>4 DEF OrderFailureEvent, SubscriberTypes, subscriberVars
  <2>5. PeerTypes'
    BY <1>4 DEF OrderFailureEvent, PeerTypes, peerVars, Places, Peers, AllFinished
  <2>6. QED
    BY <2>1, <2>2, <2>3, <2>4, <2>5
<1>5. ASSUME NEW s \in Servers, OrderClientFreeze(s) PROVE Types'
  <2>1. net' \in Mailboxes
    BY <1>5, QuietSteps DEF OrderClientFreeze, Unposted, Posted
  <2>2. OrderTypes'
    BY <1>5 DEF OrderClientFreeze, OrderTypes, orderingVars, Failed, Finalized,
      Peers
  <2>3. StorageTypes'
    BY <1>5 DEF OrderClientFreeze, StorageTypes, clientVars
  <2>4. SubscriberTypes'
    BY <1>5 DEF OrderClientFreeze, SubscriberTypes, subscriberVars
  <2>5. PeerTypes'
    BY <1>5 DEF OrderClientFreeze, PeerTypes, peerVars, Places, Peers, AllFinished
  <2>6. QED
    BY <2>1, <2>2, <2>3, <2>4, <2>5
<1>6. ASSUME NEW s \in Servers, OrderClientCut(s) PROVE Types'
  <2>1. net' \in Mailboxes
    BY <1>6, QuietSteps DEF OrderClientCut, Unposted, Posted
  <2>2. OrderTypes'
    BY <1>6 DEF OrderClientCut, OrderTypes, orderingVars, Failed, Finalized, Peers
  <2>3. StorageTypes'
    BY <1>6 DEF OrderClientCut, StorageTypes, clientVars
  <2>4. SubscriberTypes'
    BY <1>6 DEF OrderClientCut, SubscriberTypes, subscriberVars
  <2>5. PeerTypes'
    BY <1>6 DEF OrderClientCut, PeerTypes, peerVars, Places, Peers, AllFinished
  <2>6. QED
    BY <2>1, <2>2, <2>3, <2>4, <2>5
<1>7. CASE OrderClientFinished
  <2>1. net' \in Mailboxes
    BY <1>7, OrderClientFinishedMail DEF OrderClientFinished, Unposted, Posted
  <2>2. OrderTypes'
    BY <1>7 DEF OrderClientFinished, OrderTypes, orderingVars, Failed, Finalized,
      Peers
  <2>3. StorageTypes'
    BY <1>7 DEF OrderClientFinished, StorageTypes, clientVars
  <2>4. SubscriberTypes'
    BY <1>7 DEF OrderClientFinished, SubscriberTypes, subscriberVars
  <2>5. PeerTypes'
    BY <1>7 DEF OrderClientFinished, PeerTypes, peerVars, Places, Peers, AllFinished
  <2>6. QED
    BY <2>1, <2>2, <2>3, <2>4, <2>5
<1>8. CASE OrderSubscriberFinished
  <2>1. net' \in Mailboxes
    BY <1>8, OrderSubscriberFinishedMail DEF OrderSubscriberFinished, Unposted, Posted
  <2>2. OrderTypes'
    BY <1>8 DEF OrderSubscriberFinished, OrderTypes, orderingVars, Failed, Finalized,
      Peers
  <2>3. StorageTypes'
    BY <1>8 DEF OrderSubscriberFinished, StorageTypes, clientVars
  <2>4. SubscriberTypes'
    BY <1>8 DEF OrderSubscriberFinished, SubscriberTypes, subscriberVars
  <2>5. PeerTypes'
    BY <1>8 DEF OrderSubscriberFinished, PeerTypes, peerVars, Places, Peers,
      AllFinished
  <2>6. QED
    BY <2>1, <2>2, <2>3, <2>4, <2>5
<1>9. ASSUME NEW p \in Peers, Start(p) PROVE Types'
  <2>1. net' \in Mailboxes
    BY <1>9 DEF Start
  <2>2. OrderTypes'
    BY <1>9 DEF Start, OrderTypes, orderingVars, Failed, Finalized, Peers
  <2>3. StorageTypes'
    BY <1>9 DEF Start, StorageTypes, clientVars
  <2>4. SubscriberTypes'
    BY <1>9 DEF Start, SubscriberTypes, subscriberVars
  <2>5. PeerTypes'
    BY <1>9 DEF Start, PeerTypes, peerVars, Places, Peers, AllFinished
  <2>6. QED
    BY <2>1, <2>2, <2>3, <2>4, <2>5
<1>10. ASSUME NEW p \in Peers, StorageInfo(p) PROVE Types'
  <2>1. net' \in Mailboxes
    BY <1>10, StorageInfoMail DEF StorageInfo, Unposted, Posted
  <2>2. OrderTypes'
    BY <1>10 DEF StorageInfo, OrderTypes, orderingVars, Failed, Finalized, Peers
  <2>3. StorageTypes'
    BY <1>10 DEF StorageInfo, StorageTypes, clientVars
  <2>4. SubscriberTypes'
    BY <1>10 DEF StorageInfo, SubscriberTypes, subscriberVars
  <2>5. PeerTypes'
    BY <1>10 DEF StorageInfo, PeerTypes, peerVars, Places, Peers, AllFinished,
      OrderTypes
  <2>6. QED
    BY <2>1, <2>2, <2>3, <2>4, <2>5
<1>11. ASSUME NEW p \in Peers, NEW s \in Servers, ConnectStorage(p, s) PROVE Types'
  <2>1. net' \in Mailboxes
    BY <1>11 DEF ConnectStorage
  <2>2. OrderTypes'
    BY <1>11 DEF ConnectStorage, OrderTypes, orderingVars, Failed, Finalized, Peers
  <2>3. StorageTypes'
    BY <1>11, ConnectStorageThreads DEF ConnectStorage, StorageTypes, Works, Marked
  <2>4. SubscriberTypes'
    BY <1>11 DEF ConnectStorage, SubscriberTypes, subscriberVars
  <2>5. PeerTypes'
    BY <1>11 DEF ConnectStorage, PeerTypes, peerVars, Places, Peers, AllFinished
  <2>6. QED
    BY <2>1, <2>2, <2>3, <2>4, <2>5
<1>12. ASSUME NEW p \in Peers, Stop(p) PROVE Types'
  <2>1. net' \in Mailboxes
    BY <1>12 DEF Stop
  <2>2. OrderTypes'
    BY <1>12 DEF Stop, OrderTypes, orderingVars, Failed, Finalized, Peers
  <2>3. StorageTypes'
    BY <1>12 DEF Stop, StorageTypes, clientVars
  <2>4. SubscriberTypes'
    BY <1>12 DEF Stop, SubscriberTypes, subscriberVars
  <2>5. PeerTypes'
    BY <1>12 DEF Stop, PeerTypes, peerVars, Places, Peers, AllFinished
  <2>6. QED
    BY <2>1, <2>2, <2>3, <2>4, <2>5
<1>13. ASSUME NEW p \in Peers, SendBye(p) PROVE Types'
  <2>1. net' \in Mailboxes
    BY <1>13, QuietSteps DEF SendBye, Unposted, Posted
  <2>2. OrderTypes'
    BY <1>13 DEF SendBye, OrderTypes, orderingVars, Failed, Finalized, Peers
  <2>3. StorageTypes'
    BY <1>13 DEF SendBye, StorageTypes, clientVars
  <2>4. SubscriberTypes'
    BY <1>13 DEF SendBye, SubscriberTypes, subscriberVars
  <2>5. PeerTypes'
    BY <1>13 DEF SendBye, PeerTypes, peerVars, Places, Peers, AllFinished
  <2>6. QED
    BY <2>1, <2>2, <2>3, <2>4, <2>5
<1>14. ASSUME NEW s \in Servers, ClientStorageFinished(s) PROVE Types'
  <2>1. net' \in Mailboxes
    BY <1>14, ClientStorageFinishedMail DEF ClientStorageFinished, Unposted, Posted
  <2>2. OrderTypes'
    BY <1>14 DEF ClientStorageFinished, OrderTypes, orderingVars, Failed, Finalized,
      Peers
  <2>3. StorageTypes'
    BY <1>14 DEF ClientStorageFinished, StorageTypes, clientVars
  <2>4. SubscriberTypes'
    BY <1>14 DEF ClientStorageFinished, SubscriberTypes, subscriberVars
  <2>5. PeerTypes'
    BY <1>14 DEF ClientStorageFinished, PeerTypes, peerVars, Places, Peers,
      AllFinished
  <2>6. QED
    BY <2>1, <2>2, <2>3, <2>4, <2>5
<1>15. CASE ClientOrderFinished
  <2>1. net' \in Mailboxes
    BY <1>15, ClientOrderFinishedMail DEF ClientOrderFinished, Unposted, Posted
  <2>2. OrderTypes'
    BY <1>15 DEF ClientOrderFinished, OrderTypes, orderingVars, Failed, Finalized,
      Peers
  <2>3. StorageTypes'
    BY <1>15 DEF ClientOrderFinished, StorageTypes, clientVars
  <2>4. SubscriberTypes'
    BY <1>15 DEF ClientOrderFinished, SubscriberTypes, subscriberVars
  <2>5. PeerTypes'
    BY <1>15 DEF ClientOrderFinished, PeerTypes, peerVars, Places, Peers,
      AllFinished
  <2>6. QED
    BY <2>1, <2>2, <2>3, <2>4, <2>5
<1>16. ASSUME NEW s \in Servers, SubscriberStorageFinished(s) PROVE Types'
  <2>1. net' \in Mailboxes
    BY <1>16, SubscriberStorageFinishedMail DEF SubscriberStorageFinished, Unposted, Posted
  <2>2. OrderTypes'
    BY <1>16 DEF SubscriberStorageFinished, OrderTypes, orderingVars, Failed,
      Finalized, Peers
  <2>3. StorageTypes'
    BY <1>16 DEF SubscriberStorageFinished, StorageTypes, clientVars
  <2>4. SubscriberTypes'
    BY <1>16 DEF SubscriberStorageFinished, SubscriberTypes, subscriberVars
  <2>5. PeerTypes'
    BY <1>16 DEF SubscriberStorageFinished, PeerTypes, peerVars, Places, Peers,
      AllFinished
  <2>6. QED
    BY <2>1, <2>2, <2>3, <2>4, <2>5
<1>17. CASE SubscriberOrderFinished
  <2>1. net' \in Mailboxes
    BY <1>17, SubscriberOrderFinishedMail DEF SubscriberOrderFinished, Unposted, Posted
  <2>2. OrderTypes'
    BY <1>17 DEF SubscriberOrderFinished, OrderTypes, orderingVars, Failed,
      Finalized, Peers
  <2>3. StorageTypes'
    BY <1>17 DEF SubscriberOrderFinished, StorageTypes, clientVars
  <2>4. SubscriberTypes'
    BY <1>17 DEF SubscriberOrderFinished, SubscriberTypes, subscriberVars
  <2>5. PeerTypes'
    BY <1>17 DEF SubscriberOrderFinished, PeerTypes, peerVars, Places, Peers,
      AllFinished
  <2>6. QED
    BY <2>1, <2>2, <2>3, <2>4, <2>5
<1>18. CASE Crash
  <2>1. net' \in Mailboxes
    BY <1>18 DEF Crash
  <2>2. OrderTypes'
    BY <1>18 DEF Crash, OrderTypes, orderingVars, Failed, Finalized, Peers
  <2>3. StorageTypes'
    BY <1>18 DEF Crash, StorageTypes, clientVars
  <2>4. SubscriberTypes'
    BY <1>18 DEF Crash, SubscriberTypes, subscriberVars
  <2>5. PeerTypes'
    BY <1>18 DEF Crash, PeerTypes, peerVars, Places, Peers, AllFinished
  <2>6. QED
    BY <2>1, <2>2, <2>3, <2>4, <2>5
<1>19. ASSUME NEW m \in Nodes, RaiseEvent(m) PROVE Types'
  <2>1. net' \in Mailboxes
    BY <1>19 DEF RaiseEvent
  <2>2. OrderTypes'
    BY <1>19 DEF RaiseEvent, OrderTypes, orderingVars, Failed, Finalized, Peers
  <2>3. StorageTypes'
    BY <1>19 DEF RaiseEvent, StorageTypes, clientVars
  <2>4. SubscriberTypes'
    BY <1>19 DEF RaiseEvent, SubscriberTypes, subscriberVars
  <2>5. PeerTypes'
    BY <1>19 DEF RaiseEvent, PeerTypes, peerVars, Places, Peers, AllFinished
  <2>6. QED
    BY <2>1, <2>2, <2>3, <2>4, <2>5
<1>20. ASSUME NEW m \in Nodes, PollEvents(m) PROVE Types'
  <2>1. net' \in Mailboxes
    BY <1>20 DEF PollEvents
  <2>2. OrderTypes'
    BY <1>20 DEF PollEvents, OrderTypes, orderingVars, Failed, Finalized, Peers
  <2>3. StorageTypes'
    BY <1>20 DEF PollEvents, StorageTypes, clientVars
  <2>4. SubscriberTypes'
    BY <1>20 DEF PollEvents, SubscriberTypes, subscriberVars
  <2>5. PeerTypes'
    BY <1>20 DEF PollEvents, PeerTypes, peerVars, Places, Peers, AllFinished
  <2>6. QED
    BY <2>1, <2>2, <2>3, <2>4, <2>5
<1>21. ASSUME NEW s \in Servers, NEW t \in Waiters, GetClientState(s, t) PROVE Types'
  <2>1. net' \in Mailboxes
    BY <1>21 DEF GetClientState
  <2>2. OrderTypes'
    BY <1>21 DEF GetClientState, OrderTypes, orderingVars, Failed, Finalized, Peers
  <2>3. StorageTypes'
    BY <1>21, GetClientStateThreads DEF GetClientState, StorageTypes, Works, Marked
  <2>4. SubscriberTypes'
    BY <1>21 DEF GetClientState, SubscriberTypes, subscriberVars
  <2>5. PeerTypes'
    BY <1>21 DEF GetClientState, PeerTypes, peerVars, Places, Peers, AllFinished
  <2>6. QED
    BY <2>1, <2>2, <2>3, <2>4, <2>5
<1>22. ASSUME NEW s \in Servers, StorageAddClient(s) PROVE Types'
  <2>1. net' \in Mailboxes
    BY <1>22 DEF StorageAddClient
  <2>2. OrderTypes'
    BY <1>22 DEF StorageAddClient, OrderTypes, orderingVars, Failed, Finalized, Peers
  <2>3. StorageTypes'
    BY <1>22, AddClientThreads DEF StorageAddClient, StorageTypes, Works, Marked
  <2>4. SubscriberTypes'
    BY <1>22 DEF StorageAddClient, SubscriberTypes, subscriberVars
  <2>5. PeerTypes'
    BY <1>22 DEF StorageAddClient, PeerTypes, peerVars, Places, Peers, AllFinished
  <2>6. QED
    BY <2>1, <2>2, <2>3, <2>4, <2>5
<1>23. ASSUME NEW s \in Servers, NEW t \in Waiters, Sleep(s, t) PROVE Types'
  <2>1. net' \in Mailboxes
    BY <1>23 DEF Sleep
  <2>2. OrderTypes'
    BY <1>23 DEF Sleep, OrderTypes, orderingVars, Failed, Finalized, Peers
  <2>3. StorageTypes'
    BY <1>23, SleepThreads DEF Sleep, StorageTypes, Works, Marked
  <2>4. SubscriberTypes'
    BY <1>23 DEF Sleep, SubscriberTypes, subscriberVars
  <2>5. PeerTypes'
    BY <1>23 DEF Sleep, PeerTypes, peerVars, Places, Peers, AllFinished
  <2>6. QED
    BY <2>1, <2>2, <2>3, <2>4, <2>5
<1>24. ASSUME NEW s \in Servers, TakeFailure(s) PROVE Types'
  <2>1. net' \in Mailboxes
    BY <1>24 DEF TakeFailure
  <2>2. OrderTypes'
    BY <1>24 DEF TakeFailure, OrderTypes, orderingVars, Failed, Finalized, Peers
  <2>3. StorageTypes'
    BY <1>24, TakeFailureThreads DEF TakeFailure, StorageTypes, Works, Marked
  <2>4. SubscriberTypes'
    BY <1>24 DEF TakeFailure, SubscriberTypes, subscriberVars
  <2>5. PeerTypes'
    BY <1>24 DEF TakeFailure, PeerTypes, peerVars, Places, Peers, AllFinished
  <2>6. QED
    BY <2>1, <2>2, <2>3, <2>4, <2>5
<1>25. ASSUME NEW s \in Servers, TakeFromOrder(s) PROVE Types'
  <2>1. net' \in Mailboxes
    BY <1>25, QuietSteps DEF TakeFromOrder, Unposted, Posted
  <2>2. OrderTypes'
    BY <1>25 DEF TakeFromOrder, OrderTypes, orderingVars, Failed, Finalized, Peers
  <2>3. StorageTypes'
    BY <1>25, TakeFromOrderThreads DEF TakeFromOrder, StorageTypes, Works, Marked
  <2>4. SubscriberTypes'
    BY <1>25 DEF TakeFromOrder, SubscriberTypes, subscriberVars
  <2>5. PeerTypes'
    BY <1>25 DEF TakeFromOrder, PeerTypes, peerVars, Places, Peers, AllFinished
  <2>6. QED
    BY <2>1, <2>2, <2>3, <2>4, <2>5
<1>26. ASSUME NEW s \in Servers, Disconnect(s) PROVE Types'
  <2>1. net' \in Mailboxes
    BY <1>26, QuietSteps DEF Disconnect, Unposted, Posted
  <2>2. OrderTypes'
    BY <1>26 DEF Disconnect, OrderTypes, orderingVars, Failed, Finalized, Peers
  <2>3. StorageTypes'
    BY <1>26, DisconnectThreads DEF Disconnect, StorageTypes, Works, Marked
  <2>4. SubscriberTypes'
    BY <1>26 DEF Disconnect, SubscriberTypes, subscriberVars
  <2>5. PeerTypes'
    BY <1>26 DEF Disconnect, PeerTypes, peerVars, Places, Peers, AllFinished
  <2>6. QED
    BY <2>1, <2>2, <2>3, <2>4, <2>5
<1>27. ASSUME NEW s \in Servers, Finalize(s) PROVE Types'
  <2>1. net' \in Mailboxes
    BY <1>27 DEF Finalize
  <2>2. OrderTypes'
    BY <1>27 DEF Finalize, OrderTypes, orderingVars, Failed, Finalized, Peers
  <2>3. StorageTypes'
    BY <1>27, FinalizeThreads DEF Finalize, StorageTypes, Works, Marked
  <2>4. SubscriberTypes'
    BY <1>27 DEF Finalize, SubscriberTypes, subscriberVars
  <2>5. PeerTypes'
    BY <1>27 DEF Finalize, PeerTypes, peerVars, Places, Peers, AllFinished
  <2>6. QED
    BY <2>1, <2>2, <2>3, <2>4, <2>5
<1>28. ASSUME NEW s \in Servers, TakeFromClient(s) PROVE Types'
  <2>1. net' \in Mailboxes
    BY <1>28, QuietSteps DEF TakeFromClient, Unposted, Posted
  <2>2. OrderTypes'
    BY <1>28 DEF TakeFromClient, OrderTypes, orderingVars, Failed, Finalized, Peers
  <2>3. StorageTypes'
    BY <1>28, TakeFromClientThreads DEF TakeFromClient, StorageTypes, Works, Marked
  <2>4. SubscriberTypes'
    BY <1>28 DEF TakeFromClient, SubscriberTypes, subscriberVars
  <2>5. PeerTypes'
    BY <1>28 DEF TakeFromClient, PeerTypes, peerVars, Places, Peers, AllFinished
  <2>6. QED
    BY <2>1, <2>2, <2>3, <2>4, <2>5
<1>29. ASSUME NEW s \in Servers, StorageClientFinished(s) PROVE Types'
  <2>1. net' \in Mailboxes
    BY <1>29, StorageClientFinishedMail DEF StorageClientFinished, Unposted, Posted
  <2>2. OrderTypes'
    BY <1>29 DEF StorageClientFinished, OrderTypes, orderingVars, Failed, Finalized,
      Peers
  <2>3. StorageTypes'
    BY <1>29, StorageClientFinishedThreads DEF StorageClientFinished, StorageTypes, Works,
      Marked
  <2>4. SubscriberTypes'
    BY <1>29 DEF StorageClientFinished, SubscriberTypes, subscriberVars
  <2>5. PeerTypes'
    BY <1>29 DEF StorageClientFinished, PeerTypes, peerVars, Places, Peers,
      AllFinished
  <2>6. QED
    BY <2>1, <2>2, <2>3, <2>4, <2>5
<1>30. ASSUME NEW s \in Servers, StorageAddSubscriber(s) PROVE Types'
  <2>1. net' \in Mailboxes
    BY <1>30 DEF StorageAddSubscriber
  <2>2. OrderTypes'
    BY <1>30 DEF StorageAddSubscriber, OrderTypes, orderingVars, Failed, Finalized,
      Peers
  <2>3. StorageTypes'
    BY <1>30, StorageAddSubscriberThreads DEF StorageAddSubscriber, StorageTypes, Works, Marked
  <2>4. SubscriberTypes'
    <3>1. changes[s] \in Seq({"add", "remove"})
      BY DEF SubscriberTypes
    <3>2. Append(changes[s], "add") \in Seq({"add", "remove"})
      BY <3>1
    <3>3. QED
      BY <1>30, <3>2 DEF StorageAddSubscriber, SubscriberTypes
  <2>5. PeerTypes'
    BY <1>30 DEF StorageAddSubscriber, PeerTypes, peerVars, Places, Peers,
      AllFinished
  <2>6. QED
    BY <2>1, <2>2, <2>3, <2>4, <2>5
<1>31. ASSUME NEW s \in Servers, StorageSubscriberFinished(s) PROVE Types'
  <2>1. net' \in Mailboxes
    BY <1>31, QuietSteps DEF StorageSubscriberFinished, Unposted, Posted
  <2>2. OrderTypes'
    BY <1>31 DEF StorageSubscriberFinished, OrderTypes, orderingVars, Failed,
      Finalized, Peers
  <2>3. StorageTypes'
    BY <1>31 DEF StorageSubscriberFinished, StorageTypes, clientVars
  <2>4. SubscriberTypes'
    <3>1. changes[s] \in Seq({"add", "remove"})
      BY DEF SubscriberTypes
    <3>2. Append(changes[s], "remove") \in Seq({"add", "remove"})
      BY <3>1
    <3>3. QED
      BY <1>31, <3>2 DEF StorageSubscriberFinished, SubscriberTypes
  <2>5. PeerTypes'
    BY <1>31 DEF StorageSubscriberFinished, PeerTypes, peerVars, Places, Peers,
      AllFinished
  <2>6. QED
    BY <2>1, <2>2, <2>3, <2>4, <2>5
<1>32. ASSUME NEW s \in Servers, NEW k \in Threads, GetChange(s, k) PROVE Types'
  <2>1. net' \in Mailboxes
    BY <1>32, GetChangeMail DEF GetChange, Unposted, Posted
  <2>2. OrderTypes'
    BY <1>32 DEF GetChange, OrderTypes, orderingVars, Failed, Finalized, Peers
  <2>3. StorageTypes'
    BY <1>32 DEF GetChange, StorageTypes, clientVars
  <2>4. SubscriberTypes'
    BY <1>32 DEF GetChange, SubscriberTypes, subscriberVars
  <2>5. PeerTypes'
    BY <1>32 DEF GetChange, PeerTypes, peerVars, Places, Peers, AllFinished
  <2>6. QED
    BY <2>1, <2>2, <2>3, <2>4, <2>5
<1>33. CASE UNCHANGED sessionVars
  BY <1>33 DEF sessionVars, OrderTypes, StorageTypes, SubscriberTypes, PeerTypes, orderingVars,
    clientVars, subscriberVars, peerVars
<1>34. QED
  BY <1>1, <1>2, <1>3, <1>4, <1>5, <1>6, <1>7, <1>8, <1>9, <1>10, <1>11, <1>12, <1>13, <1>14,
    <1>15, <1>16, <1>17, <1>18, <1>19, <1>20, <1>21, <1>22, <1>23, <1>24, <1>25, <1>26, <1>27,
    <1>28, <1>29, <1>30, <1>31, <1>32, <1>33 DEF SessionsNext, OrderMain, OrderLoop,
    ClientLoop, SubscriberControl, PeerLoop,
    Main, Control, ClientThread, Peers, Waiters

-----------------------------------------------------------------------------
(* The invariant: the server and the subscriber.                           *)

(* After n changes, is the subscriber among those to be served?            *)
On(c, n) == n > 0 /\ c[n] = "add"

Alternates(c) == \A n \in 1 .. Len(c) : (c[n] = "add") <=> ~ On(c, n - 1)

(* The subscriber threads of s are at most n changes behind.               *)
Slack(s, n) ==
  \A k \in Threads : polled[s][k] <= Len(changes[s]) /\ Len(changes[s]) <= polled[s][k] + n

(* Farewells of s under way to the subscriber, and handled by it.          *)
Farewells(s) == finished[s] + Len(net[<<s, "subscriber">>])

CaughtUp(s) == {k \in Threads : polled[s][k] = Len(changes[s])}

Unknown(s) == ~ subscribers[s] /\ Slack(s, 0) /\ Farewells(s) = 0

Joining(s) == thread[s]["main"].op = "subscriber"

(* Where s and the subscriber are: strangers, being introduced, acquainted *)
(* or taking leave.                                                        *)
Strangers(s) == s \notin queues["subscriber"] /\ ~ Joining(s) /\ Unknown(s)
Introduced(s) == s \in queues["subscriber"] /\ Joining(s) /\ Unknown(s)
Acquainted(s) ==
  /\ s \in queues["subscriber"] /\ ~ Joining(s) /\ subscribers[s]
  /\ Slack(s, 1) /\ Farewells(s) = 0
Leaving(s) ==
  /\ s \in queues["subscriber"] /\ ~ Joining(s) /\ ~ subscribers[s]
  /\ Slack(s, 2) /\ Farewells(s) = Cardinality(CaughtUp(s))
  /\ finished[s] < Cardinality(Threads)

Served(s) ==
  /\ Alternates(changes[s]) /\ (subscribers[s] <=> On(changes[s], Len(changes[s])))
  /\ \A k \in Threads : queue[s][k] <=> On(changes[s], polled[s][k])

Terms(s) == Served(s) /\ (Strangers(s) \/ Introduced(s) \/ Acquainted(s) \/ Leaving(s))

ServedInv == \A s \in Servers : Terms(s)

(* The ordering service has yet to tell the subscriber of the servers.     *)
Untold(main, mail) == main = "subscriber" \/ mail \in {<<"info">>, <<"info", "order_finished">>}

MeetingInv ==
  /\ \/ Untold(orderMain, net[<<"order", "subscriber">>])
     \/ pc["subscriber"] \in {"off", "ended"}
     => queues["subscriber"] = {}
  /\ pc["subscriber"] = "connecting" => todo["subscriber"] \cap queues["subscriber"] = {}

(* The subscriber and the client at the ordering service: by the peer that *)
(* is accepted, what the service knows, and what is under way.             *)
SubscriberToken(main, sq, of, mail, at) ==
  \/ main # "subscriber" /\ ~ sq /\ ~ of /\ mail = << >> /\ at = "off"
  \/ main = "subscriber" /\ ~ sq /\ ~ of /\ mail = << >> /\ at = "loop"
  \/ main # "subscriber" /\ sq /\ ~ of /\ mail = <<"info">> /\ at = "loop"
  \/ main # "subscriber" /\ sq /\ ~ of /\ mail = << >> /\ at \in {"loop", "connecting"}
  \/ main # "subscriber" /\ ~ sq /\ ~ of /\ mail = <<"info", "order_finished">> /\ at = "loop"
  \/ /\ main # "subscriber" /\ ~ sq /\ ~ of /\ mail = <<"order_finished">>
     /\ at \in {"loop", "connecting"}
  \/ main # "subscriber" /\ ~ sq /\ of /\ mail = << >> /\ at \in {"loop", "ended"}

Welcome == {<< >>, <<"info">>}
Farewell == {<<"order_finished">>, <<"info", "order_finished">>}

ClientToken(main, cs, mail, at) ==
  \/ main # "client" /\ cs = "none" /\ mail = << >> /\ at \in {"off", "ended"}
  \/ main = "client" /\ cs = "none" /\ mail = << >> /\ at \notin {"off", "ended"}
  \/ main # "client" /\ mail \in Welcome /\ at \notin {"off", "ended"}
  \/ main # "client" /\ cs = "none" /\ mail \in Farewell /\ at \notin {"off", "ended"}

TokenInv ==
  /\ SubscriberToken(orderMain, subscriberQueue, orderFinished, net[<<"order", "subscriber">>],
                     pc["subscriber"])
  /\ ClientToken(orderMain, clientState, net[<<"order", "client">>], pc["client"])

Gone == \A s \in storageAddresses : Disconnected(s)

(* The threads of a server work with one and the same object.              *)
ObjInv == \A s \in Servers, t \in Waiters : thread[s][t].obj \in {"null", location[s]}

(* The client: before it takes its leave of the ordering service, every    *)
(* server has disconnected it.                                             *)
ClientInv ==
  /\ \/ net[<<"client", "order">>] # << >> \/ net[<<"order", "client">>] \in Farewell
     \/ pc["client"] = "ended"
     => Gone
  /\ \A s \in Servers : net[<<s, "client">>] # << >> => Disconnected(s)
  /\ pc["client"] = "loop" /\ queues["client"] # {} =>
       \A s \in storageAddresses : s \in queues["client"] \/ Disconnected(s)
  /\ pc["client"] = "connecting" =>
       \A s \in storageAddresses : s \in todo["client"] \/ s \in queues["client"] \/ Disconnected(s)
  /\ pc["client"] = "off" => queues["client"] = {} /\ net[<<"client", "order">>] = << >>
  /\ pc["client"] # "off" => starting = {}

SInv == Types /\ ServedInv /\ MeetingInv /\ TokenInv /\ ObjInv /\ ClientInv

-----------------------------------------------------------------------------
(* The servers and the subscriber *)

(* Neither the threads of the servers nor the subscriber do anything that  *)
(* concerns the other.                                                     *)
Apart(s) ==
  /\ subscribers'[s] = subscribers[s] /\ changes'[s] = changes[s]
  /\ polled'[s] = polled[s] /\ queue'[s] = queue[s] /\ finished'[s] = finished[s]
  /\ (s \in queues'["subscriber"] <=> s \in queues["subscriber"])
  /\ net'[<<s, "subscriber">>] = net[<<s, "subscriber">>]
  /\ (thread'[s]["main"].op = "subscriber" <=> thread[s]["main"].op = "subscriber")

(* Then they stay on the same terms.                                       *)
LEMMA ApartServed ==
  ASSUME NEW s, Apart(s), Terms(s)
  PROVE  Terms(s)'
<1>1. Served(s)'
  BY DEF Served, Apart, Terms
<1>2. \A n : Slack(s, n) => Slack(s, n)'
  BY DEF Slack, Apart
<1>3. Farewells(s)' = Farewells(s) /\ CaughtUp(s)' = CaughtUp(s)
  BY DEF Farewells, CaughtUp, Apart
<1>4. Joining(s)' <=> Joining(s)
  BY DEF Joining, Apart
<1>5. Unknown(s) => Unknown(s)'
  BY <1>2, <1>3 DEF Unknown, Apart
<1>6. QED
  BY <1>1, <1>2, <1>3, <1>4, <1>5 DEF Terms, Strangers, Introduced, Acquainted, Leaving, Apart

(* The types of what a server keeps about the subscriber.                  *)
LEMMA ServerTypes ==
  ASSUME Setting, Types, NEW s \in Servers
  PROVE  /\ changes[s] \in Seq({"add", "remove"}) /\ Len(changes[s]) \in Nat
         /\ subscribers[s] \in BOOLEAN /\ finished[s] \in Nat
         /\ \A k \in Threads : polled[s][k] \in Nat /\ queue[s][k] \in BOOLEAN
         /\ net[<<s, "subscriber">>] \in Seq(Msgs) /\ Len(net[<<s, "subscriber">>]) \in Nat
<1>1. changes[s] \in Seq({"add", "remove"}) /\ net[<<s, "subscriber">>] \in Seq(Msgs)
  BY Names DEF Types, SubscriberTypes, Mailboxes
<1>2. Len(changes[s]) \in Nat /\ Len(net[<<s, "subscriber">>]) \in Nat
  BY <1>1
<1>3. QED
  BY <1>1, <1>2 DEF Types, SubscriberTypes, PeerTypes

(* One more change, the opposite of the last.                              *)
LEMMA OneMoreChange ==
  ASSUME NEW c \in Seq({"add", "remove"}), NEW v \in {"add", "remove"}, Alternates(c),
         v = "add" <=> ~ On(c, Len(c))
  PROVE  /\ Alternates(Append(c, v)) /\ Len(Append(c, v)) = Len(c) + 1
         /\ On(Append(c, v), Len(c) + 1) <=> v = "add"
         /\ \A n \in 0 .. Len(c) : On(Append(c, v), n) <=> On(c, n)
<1>1. PICK z \in Nat : z = Len(c)
  OBVIOUS
<1>2. PICK d : d = Append(c, v)
  OBVIOUS
<1>3. Len(d) = z + 1 /\ d[z + 1] = v /\ \A n \in 1 .. z : d[n] = c[n]
  BY <1>1, <1>2
<1>4. \A n \in 0 .. z : On(d, n) <=> On(c, n)
  BY <1>1, <1>3 DEF On
<1>5. On(d, z + 1) <=> v = "add"
  BY <1>1, <1>3 DEF On
<1>6. ASSUME NEW n \in 1 .. Len(d) PROVE (d[n] = "add") <=> ~ On(d, n - 1)
  <2>1. CASE n \in 1 .. z
    <3>1. n - 1 \in 0 .. z
      BY <1>1, <2>1
    <3>2. (c[n] = "add") <=> ~ On(c, n - 1)
      BY <1>1, <2>1 DEF Alternates
    <3>3. QED
      BY <1>3, <1>4, <2>1, <3>1, <3>2
  <2>2. CASE n = z + 1
    <3>1. n - 1 = z /\ z \in 0 .. z
      BY <1>1, <2>2
    <3>2. On(d, n - 1) <=> On(c, z)
      BY <1>4, <3>1
    <3>3. QED
      BY <1>1, <1>3, <2>2, <3>2
  <2>3. n \in 1 .. z \/ n = z + 1
    BY <1>1, <1>3
  <2>4. QED
    BY <2>1, <2>2, <2>3
<1>7. QED
  BY <1>1, <1>2, <1>3, <1>4, <1>5, <1>6 DEF Alternates

(* A subscriber thread that is not behind by more than the changes made.   *)
LEMMA ServedMore ==
  ASSUME Setting, Types, NEW s \in Servers, Served(s), Slack(s, 2), NEW v \in {"add", "remove"},
         v = "add" <=> ~ subscribers[s], changes'[s] = Append(changes[s], v),
         subscribers'[s] <=> v = "add", polled'[s] = polled[s], queue'[s] = queue[s]
  PROVE  Served(s)'
<1>1. PICK c \in Seq({"add", "remove"}) : c = changes[s]
  BY ServerTypes
<1>2. Alternates(c) /\ (v = "add" <=> ~ On(c, Len(c)))
  BY <1>1 DEF Served
<1>3. /\ Alternates(Append(c, v)) /\ Len(Append(c, v)) = Len(c) + 1
      /\ On(Append(c, v), Len(c) + 1) <=> v = "add"
      /\ \A n \in 0 .. Len(c) : On(Append(c, v), n) <=> On(c, n)
  BY <1>2, OneMoreChange
<1>4. /\ Alternates(changes'[s]) /\ Len(changes'[s]) = Len(changes[s]) + 1
      /\ On(changes'[s], Len(changes[s]) + 1) <=> v = "add"
      /\ \A n \in 0 .. Len(changes[s]) : On(changes'[s], n) <=> On(changes[s], n)
  BY <1>1, <1>3
<1>5. Len(changes[s]) \in Nat /\ \A k \in Threads : polled[s][k] \in Nat
  BY ServerTypes
<1>6. \A k \in Threads : polled[s][k] \in 0 .. Len(changes[s])
  BY <1>5 DEF Slack
<1>7. \A k \in Threads : queue'[s][k] <=> On(changes'[s], polled'[s][k])
  BY <1>4, <1>6 DEF Served
<1>8. QED
  BY <1>4, <1>7 DEF Served

(* The subscriber connects: it and the server were strangers.              *)
LEMMA ConnectStorageServed ==
  ASSUME Setting, Types, NEW s \in Servers, ConnectStorage("subscriber", s), Terms(s),
         s \notin queues["subscriber"]
  PROVE  Terms(s)'
<1>0. Len(changes[s]) \in Nat /\ \A k \in Threads : polled[s][k] \in Nat
  BY ServerTypes
<1>1. thread'[s]["main"].op = "subscriber"
  BY ConnectStorageThreads DEF Works, Peers
<1>2. s \in queues'["subscriber"]
  BY DEF ConnectStorage, Types, PeerTypes, Peers
<1>3. Strangers(s)
  BY DEF Terms, Introduced, Acquainted, Leaving
<1>4. UNCHANGED <<subscribers, changes, polled, queue, finished, net>>
  BY DEF ConnectStorage, subscriberVars
<1>5. Unknown(s)' /\ Served(s)'
  BY <1>3, <1>4 DEF Strangers, Unknown, Slack, Farewells, Terms, Served
<1>6. QED
  BY <1>1, <1>2, <1>5 DEF Terms, Introduced, Joining

(* The server adds it.                                                     *)
LEMMA StorageAddSubscriberServed ==
  ASSUME Setting, Types, NEW s \in Servers, StorageAddSubscriber(s), Terms(s)
  PROVE  Terms(s)'
<1>0. Len(changes[s]) \in Nat /\ \A k \in Threads : polled[s][k] \in Nat
  BY ServerTypes
<1>1. Introduced(s)
  BY DEF Terms, Strangers, Acquainted, Leaving, Joining, StorageAddSubscriber
<1>2. thread'[s]["main"].op # "subscriber"
  BY StorageAddSubscriberThreads DEF Works, Idle
<1>3. /\ ~ subscribers[s] /\ subscribers'[s] /\ changes'[s] = Append(changes[s], "add")
      /\ UNCHANGED <<polled, queue, finished, net, queues>>
  BY <1>1 DEF StorageAddSubscriber, Introduced, Unknown, Types, SubscriberTypes, peerVars
<1>4. Slack(s, 2)
  BY <1>0, <1>1 DEF Introduced, Unknown, Slack
<1>5. Served(s)'
  BY <1>3, <1>4, ServedMore DEF Terms
<1>6. Len(changes'[s]) = Len(changes[s]) + 1
  BY <1>3, ServerTypes
<1>7. Slack(s, 1)'
  BY <1>0, <1>1, <1>3, <1>6 DEF Introduced, Unknown, Slack
<1>8. Farewells(s)' = 0
  BY <1>1, <1>3 DEF Introduced, Unknown, Farewells
<1>9. QED
  BY <1>1, <1>2, <1>3, <1>5, <1>7, <1>8 DEF Terms, Introduced, Acquainted, Joining

(* The server takes its farewell.                                          *)
LEMMA StorageSubscriberFinishedServed ==
  ASSUME Setting, Types, NEW s \in Servers, StorageSubscriberFinished(s), Terms(s)
  PROVE  Terms(s)'
<1>0. Len(changes[s]) \in Nat /\ \A k \in Threads : polled[s][k] \in Nat
  BY ServerTypes
<1>1. net'[<<s, "subscriber">>] = net[<<s, "subscriber">>]
  BY QuietSteps DEF Unposted, Watched, Peers
<1>2. UNCHANGED <<thread, polled, queue, finished, queues>>
  BY DEF StorageSubscriberFinished, clientVars, peerVars
<1>3. CASE ~ subscribers[s]
  <2>1. Apart(s)
    BY <1>1, <1>2, <1>3 DEF Apart, StorageSubscriberFinished
  <2>2. QED
    BY <2>1, ApartServed
<1>4. CASE subscribers[s]
  <2>1. Acquainted(s)
    BY <1>4 DEF Terms, Strangers, Introduced, Leaving, Unknown
  <2>2. ~ subscribers'[s] /\ changes'[s] = Append(changes[s], "remove")
    BY <1>4 DEF StorageSubscriberFinished, Types, SubscriberTypes
  <2>3. Len(changes'[s]) = Len(changes[s]) + 1
    BY <2>2, ServerTypes
  <2>4. Slack(s, 2)
    BY <1>0, <2>1 DEF Acquainted, Slack
  <2>5. Served(s)'
    BY <1>2, <1>4, <2>2, <2>4, ServedMore DEF Terms
  <2>6. Slack(s, 2)'
    BY <1>0, <1>2, <2>1, <2>3 DEF Acquainted, Slack
  <2>7. CaughtUp(s)' = {}
    BY <1>0, <1>2, <2>1, <2>3 DEF Acquainted, Slack, CaughtUp
  <2>8. Farewells(s)' = 0 /\ finished[s] = 0
    BY <1>1, <1>2, <2>1, ServerTypes DEF Acquainted, Farewells
  <2>9. Cardinality(Threads) \in Nat /\ Cardinality(Threads) # 0
    BY Names, FS_CardinalityType, FS_EmptySet
  <2>10. Farewells(s)' = Cardinality(CaughtUp(s)')
    BY <2>7, <2>8, FS_EmptySet
  <2>11. QED
    BY <1>2, <2>1, <2>2, <2>5, <2>6, <2>8, <2>9, <2>10 DEF Terms, Acquainted, Leaving, Joining
<1>5. QED
  BY <1>3, <1>4

(* A subscriber thread reads its next change.                              *)
LEMMA GetChangeServed ==
  ASSUME Setting, Types, NEW s \in Servers, NEW k \in Threads, GetChange(s, k), Terms(s)
  PROVE  Terms(s)'
<1>1. PICK c \in Seq({"add", "remove"}) : c = changes[s]
  BY ServerTypes
<1>2. PICK z \in Nat : z = Len(c)
  BY <1>1
<1>3. PICK a \in Nat : a = polled[s][k]
  BY ServerTypes
<1>4. a < z /\ a + 1 \in 1 .. z
  BY <1>1, <1>2, <1>3 DEF GetChange, HasChange
<1>5. /\ polled'[s][k] = a + 1 /\ \A h \in Threads \ {k} : polled'[s][h] = polled[s][h]
      /\ queue'[s][k] = (c[a + 1] = "add") /\ \A h \in Threads \ {k} : queue'[s][h] = queue[s][h]
  BY <1>1, <1>3 DEF GetChange, NextChange, Types, SubscriberTypes
<1>6. UNCHANGED <<subscribers, changes, thread, finished, queues>>
  BY DEF GetChange, clientVars, peerVars
<1>7. \A h \in Threads : polled[s][h] \in Nat
  BY ServerTypes
<1>8. On(c, a + 1) <=> c[a + 1] = "add"
  BY DEF On
<1>9. Served(s)'
  <2>1. \A h \in Threads : queue'[s][h] <=> On(changes'[s], polled'[s][h])
    BY <1>1, <1>5, <1>6, <1>8 DEF Terms, Served
  <2>2. QED
    BY <1>6, <2>1 DEF Terms, Served
<1>10. \A n \in Nat : Slack(s, n) => z <= a + n /\ Slack(s, n)'
  BY <1>1, <1>2, <1>3, <1>4, <1>5, <1>6, <1>7, SMTT(30) DEF Slack
<1>11. Acquainted(s) \/ Leaving(s)
  BY <1>4, <1>10 DEF Terms, Strangers, Introduced, Unknown
<1>12. NextChange(s, k) = c[a + 1]
  BY <1>1, <1>3 DEF NextChange
<1>13. /\ c[a + 1] = "add" => net'[<<s, "subscriber">>] = net[<<s, "subscriber">>]
       /\ c[a + 1] # "add" => net'[<<s, "subscriber">>] =
                                Append(net[<<s, "subscriber">>], "storage_finished")
  BY <1>12, GetChangeMail DEF Posted, Unposted, Watched, Peers
<1>14. Joining(s)' <=> Joining(s)
  BY <1>6 DEF Joining
<1>15. subscribers[s] <=> On(c, z)
  BY <1>1, <1>2 DEF Terms, Served
<1>16. CASE Acquainted(s)
  <2>1. a + 1 = z
    BY <1>4, <1>10, <1>16 DEF Acquainted
  <2>2. c[a + 1] = "add"
    BY <1>15, <1>16, <2>1 DEF Acquainted, On
  <2>3. Farewells(s)' = 0
    BY <1>6, <1>13, <1>16, <2>2 DEF Acquainted, Farewells
  <2>4. Acquainted(s)'
    BY <1>6, <1>10, <1>14, <1>16, <2>3 DEF Acquainted
  <2>5. QED
    BY <1>9, <2>4 DEF Terms
<1>17. CASE Leaving(s)
  <2>1. z <= a + 2
    BY <1>10, <1>17 DEF Leaving
  <2>2. c[z] # "add"
    BY <1>4, <1>15, <1>17 DEF Leaving, On
  <2>3. CASE c[a + 1] = "add"
    <3>1. a + 1 # z
      BY <2>2, <2>3
    <3>2. CaughtUp(s)' = CaughtUp(s)
      BY <1>1, <1>2, <1>3, <1>4, <1>5, <1>6, <1>7, <3>1 DEF CaughtUp
    <3>3. Farewells(s)' = Farewells(s)
      BY <1>6, <1>13, <2>3 DEF Farewells
    <3>4. Leaving(s)'
      BY <1>6, <1>10, <1>14, <1>17, <3>2, <3>3 DEF Leaving
    <3>5. QED
      BY <1>9, <3>4 DEF Terms
  <2>4. CASE c[a + 1] # "add"
    <3>1. a + 1 = z
      <4>1. SUFFICES ASSUME z = a + 2 PROVE FALSE
        BY <1>4, <2>1
      <4>2. z \in 1 .. Len(c) /\ z - 1 = a + 1
        BY <1>2, <4>1
      <4>3. (c[z] = "add") <=> ~ On(c, a + 1)
        BY <1>1, <4>2 DEF Terms, Served, Alternates
      <4>4. QED
        BY <1>8, <2>2, <2>4, <4>3
    <3>2. CaughtUp(s)' = CaughtUp(s) \cup {k} /\ k \notin CaughtUp(s)
      BY <1>1, <1>2, <1>3, <1>4, <1>5, <1>6, <1>7, <3>1 DEF CaughtUp
    <3>3. IsFiniteSet(CaughtUp(s))
      BY Names, FS_Subset DEF CaughtUp
    <3>4. Cardinality(CaughtUp(s) \cup {k}) = Cardinality(CaughtUp(s)) + 1
      BY <3>2, <3>3, FS_AddElement
    <3>5. Farewells(s)' = Farewells(s) + 1
      <4>1. Len(net'[<<s, "subscriber">>]) = Len(net[<<s, "subscriber">>]) + 1
        BY <1>13, <2>4, ServerTypes
      <4>2. finished[s] \in Nat /\ Len(net[<<s, "subscriber">>]) \in Nat
        BY ServerTypes
      <4>3. Farewells(s)' = finished[s] + Len(net'[<<s, "subscriber">>])
        BY <1>6 DEF Farewells
      <4>4. Farewells(s) = finished[s] + Len(net[<<s, "subscriber">>])
        BY DEF Farewells
      <4>5. QED
        BY <4>1, <4>2, <4>3, <4>4, SMTT(30)
    <3>6. Farewells(s)' = Cardinality(CaughtUp(s)')
      BY <1>17, <3>2, <3>4, <3>5 DEF Leaving
    <3>7. Leaving(s)'
      BY <1>6, <1>10, <1>14, <1>17, <3>6 DEF Leaving
    <3>8. QED
      BY <1>9, <3>7 DEF Terms
  <2>5. QED
    BY <2>3, <2>4
<1>18. QED
  BY <1>11, <1>16, <1>17

(* The subscriber handles a farewell: the last one ends the round.         *)
LEMMA SubscriberStorageFinishedServed ==
  ASSUME Setting, Types, NEW s \in Servers, SubscriberStorageFinished(s), Terms(s)
  PROVE  Terms(s)'
<1>1. PICK u \in Seq(Msgs) : u = net[<<s, "subscriber">>]
  BY ServerTypes
<1>2. u # << >> /\ net'[<<s, "subscriber">>] = Tail(u)
  BY <1>1, SubscriberStorageFinishedMail
  DEF Posted, Watched, Peers, SubscriberStorageFinished, Arrived
<1>3. Len(u) \in Nat \ {0} /\ Len(Tail(u)) = Len(u) - 1
  BY <1>1, <1>2
<1>4. PICK a \in Nat : a = finished[s]
  BY ServerTypes
<1>5. Farewells(s) = a + Len(u)
  BY <1>1, <1>4 DEF Farewells
<1>6. Leaving(s)
  BY <1>3, <1>5 DEF Terms, Strangers, Introduced, Acquainted, Unknown
<1>7. UNCHANGED <<subscribers, changes, polled, queue, thread>>
  BY DEF SubscriberStorageFinished, clientVars, subscriberVars
<1>8. Served(s)'
  BY <1>7 DEF Terms, Served
<1>9. CaughtUp(s)' = CaughtUp(s) /\ (Joining(s)' <=> Joining(s)) /\ (Slack(s, 2) => Slack(s, 2)')
  BY <1>7 DEF CaughtUp, Joining, Slack
<1>10. PICK g \in Nat : g = Cardinality(Threads)
  BY Names, FS_CardinalityType
<1>11. /\ finished'[s] = IF a + 1 = g THEN 0 ELSE a + 1
       /\ s \in queues'["subscriber"] <=> a + 1 # g
  <2>1. s \in queues["subscriber"]
    BY <1>6 DEF Leaving
  <2>2. finished'[s] = IF a + 1 = g THEN 0 ELSE a + 1
    BY <1>4, <1>10, <2>1 DEF SubscriberStorageFinished, AllFinished, Types, PeerTypes
  <2>3. queues'["subscriber"] = IF a + 1 = g THEN queues["subscriber"] \ {s}
                                ELSE queues["subscriber"]
    BY <1>4, <1>10, <2>1 DEF SubscriberStorageFinished, AllFinished, Types, PeerTypes,
      Peers
  <2>4. QED
    BY <2>1, <2>2, <2>3
<1>12. a < g
  BY <1>4, <1>6, <1>10 DEF Leaving
<1>13. CASE a + 1 # g
  <2>1. Farewells(s)' = Farewells(s)
    BY <1>2, <1>3, <1>5, <1>11, <1>13 DEF Farewells
  <2>2. Leaving(s)'
    BY <1>6, <1>7, <1>9, <1>10, <1>11, <1>12, <1>13, <2>1 DEF Leaving
  <2>3. QED
    BY <1>8, <2>2 DEF Terms
<1>14. CASE a + 1 = g
  <2>1. Cardinality(CaughtUp(s)) = a + Len(u)
    BY <1>5, <1>6 DEF Leaving
  <2>2. IsFiniteSet(CaughtUp(s)) /\ CaughtUp(s) \subseteq Threads
    BY Names, FS_Subset DEF CaughtUp
  <2>3. Cardinality(CaughtUp(s)) <= g
    BY <1>10, <2>2, Names, FS_Subset
  <2>4. Cardinality(CaughtUp(s)) = g /\ Len(u) = 1
    BY <1>3, <1>14, <2>1, <2>3
  <2>5. CaughtUp(s) = Threads
    BY <1>10, <2>2, <2>4, Names, FS_Subset
  <2>6. \A k \in Threads : polled[s][k] = Len(changes[s])
    BY <2>5 DEF CaughtUp
  <2>7. Len(changes[s]) \in Nat
    BY ServerTypes
  <2>8. Slack(s, 0)'
    BY <1>7, <2>6, <2>7 DEF Slack
  <2>9. Farewells(s)' = 0
    BY <1>2, <1>3, <1>11, <1>14, <2>4 DEF Farewells
  <2>10. Strangers(s)'
    BY <1>6, <1>7, <1>9, <1>11, <1>14, <2>8, <2>9 DEF Leaving, Strangers, Unknown
  <2>11. QED
    BY <1>8, <2>10 DEF Terms
<1>15. QED
  BY <1>13, <1>14

(* Every other step leaves server and subscriber apart.                    *)
ServedFrame == \A s \in Servers : Apart(s)

(* They keep the invariant.                                               *)
LEMMA FrameServed ==
  ASSUME ServedInv, ServedFrame
  PROVE  ServedInv'
BY ApartServed DEF ServedInv, ServedFrame

(* A step of server s alone.                                               *)
LEMMA OneServed ==
  ASSUME ServedInv, NEW s \in Servers, Terms(s)', \A x \in Servers \ {s} : Apart(x)
  PROVE  ServedInv'
BY ApartServed DEF ServedInv

(* Steps that keep their hands off the subscriber's registration.          *)
LEMMA ThreadsApart ==
  ASSUME NEW s \in Servers, NEW t \in Waiters, NEW w, Works(thread', s, t, w),
         t # "main" \/ (w.op = "subscriber" <=> thread[s]["main"].op = "subscriber")
  PROVE  \A x \in Servers :
           thread'[x]["main"].op = "subscriber" <=> thread[x]["main"].op = "subscriber"
BY DEF Works, Waiters

(* Every step keeps the servers and the subscriber on one of these terms.  *)
LEMMA NextServed ==
  ASSUME Setting, SInv, [SessionsNext]_sessionVars
  PROVE  ServedInv'
<1>0. Types /\ ServedInv /\ MeetingInv
  BY DEF SInv
<1>1. ASSUME NEW s \in Servers, AddStorage(s) PROVE ServedInv'
  <2>1. \A x \in Servers : net'[<<x, "subscriber">>] = net[<<x, "subscriber">>]
    BY <1>1 DEF AddStorage
  <2>2. \A x \in Servers : thread'[x]["main"].op = "subscriber"
                          <=> thread[x]["main"].op = "subscriber"
    BY <1>1 DEF AddStorage, clientVars
  <2>3. \A x \in Servers : Apart(x)
    BY <1>0, <1>1, <2>1, <2>2 DEF AddStorage, Apart, Types, PeerTypes, Peers,
      subscriberVars, peerVars
  <2>4. QED
    BY <1>0, <2>3, FrameServed DEF ServedFrame
<1>2. CASE OrderAddClient
  <2>1. \A x \in Servers : net'[<<x, "subscriber">>] = net[<<x, "subscriber">>]
    BY <1>0, <1>2, OrderAddClientMail, Names DEF OrderAddClient, Unposted, Posted, Watched,
      Peers
  <2>2. \A x \in Servers : thread'[x]["main"].op = "subscriber"
                          <=> thread[x]["main"].op = "subscriber"
    BY <1>2 DEF OrderAddClient, clientVars
  <2>3. \A x \in Servers : Apart(x)
    BY <1>0, <1>2, <2>1, <2>2 DEF OrderAddClient, Apart, Types, PeerTypes, Peers,
      subscriberVars, peerVars
  <2>4. QED
    BY <1>0, <2>3, FrameServed DEF ServedFrame
<1>3. CASE OrderAddSubscriber
  <2>1. \A x \in Servers : net'[<<x, "subscriber">>] = net[<<x, "subscriber">>]
    BY <1>0, <1>3, OrderAddSubscriberMail, Names DEF OrderAddSubscriber, Unposted, Posted,
      Watched, Peers
  <2>2. \A x \in Servers : thread'[x]["main"].op = "subscriber"
                          <=> thread[x]["main"].op = "subscriber"
    BY <1>3 DEF OrderAddSubscriber, clientVars
  <2>3. \A x \in Servers : Apart(x)
    BY <1>0, <1>3, <2>1, <2>2 DEF OrderAddSubscriber, Apart, Types, PeerTypes, Peers,
      subscriberVars, peerVars
  <2>4. QED
    BY <1>0, <2>3, FrameServed DEF ServedFrame
<1>4. CASE OrderFailureEvent
  <2>1. \A x \in Servers : net'[<<x, "subscriber">>] = net[<<x, "subscriber">>]
    BY <1>0, <1>4, QuietSteps DEF Unposted, Watched, Peers
  <2>2. \A x \in Servers : thread'[x]["main"].op = "subscriber"
                          <=> thread[x]["main"].op = "subscriber"
    BY <1>4 DEF OrderFailureEvent, clientVars
  <2>3. \A x \in Servers : Apart(x)
    BY <1>0, <1>4, <2>1, <2>2 DEF OrderFailureEvent, Apart, Types, PeerTypes, Peers,
      subscriberVars, peerVars
  <2>4. QED
    BY <1>0, <2>3, FrameServed DEF ServedFrame
<1>5. ASSUME NEW s \in Servers, OrderClientFreeze(s) PROVE ServedInv'
  <2>1. \A x \in Servers : net'[<<x, "subscriber">>] = net[<<x, "subscriber">>]
    BY <1>0, <1>5, QuietSteps DEF Unposted, Watched, Peers
  <2>2. \A x \in Servers : thread'[x]["main"].op = "subscriber"
                          <=> thread[x]["main"].op = "subscriber"
    BY <1>5 DEF OrderClientFreeze, clientVars
  <2>3. \A x \in Servers : Apart(x)
    BY <1>0, <1>5, <2>1, <2>2 DEF OrderClientFreeze, Apart, Types, PeerTypes, Peers,
      subscriberVars, peerVars
  <2>4. QED
    BY <1>0, <2>3, FrameServed DEF ServedFrame
<1>6. ASSUME NEW s \in Servers, OrderClientCut(s) PROVE ServedInv'
  <2>1. \A x \in Servers : net'[<<x, "subscriber">>] = net[<<x, "subscriber">>]
    BY <1>0, <1>6, QuietSteps DEF Unposted, Watched, Peers
  <2>2. \A x \in Servers : thread'[x]["main"].op = "subscriber"
                          <=> thread[x]["main"].op = "subscriber"
    BY <1>6 DEF OrderClientCut, clientVars
  <2>3. \A x \in Servers : Apart(x)
    BY <1>0, <1>6, <2>1, <2>2 DEF OrderClientCut, Apart, Types, PeerTypes, Peers,
      subscriberVars, peerVars
  <2>4. QED
    BY <1>0, <2>3, FrameServed DEF ServedFrame
<1>7. CASE OrderClientFinished
  <2>1. \A x \in Servers : net'[<<x, "subscriber">>] = net[<<x, "subscriber">>]
    BY <1>0, <1>7, OrderClientFinishedMail, Names DEF Watched, Peers
  <2>2. \A x \in Servers : thread'[x]["main"].op = "subscriber"
                          <=> thread[x]["main"].op = "subscriber"
    BY <1>7 DEF OrderClientFinished, clientVars
  <2>3. \A x \in Servers : Apart(x)
    BY <1>0, <1>7, <2>1, <2>2 DEF OrderClientFinished, Apart, Types, PeerTypes, Peers,
      subscriberVars, peerVars
  <2>4. QED
    BY <1>0, <2>3, FrameServed DEF ServedFrame
<1>8. CASE OrderSubscriberFinished
  <2>1. \A x \in Servers : net'[<<x, "subscriber">>] = net[<<x, "subscriber">>]
    BY <1>0, <1>8, OrderSubscriberFinishedMail, Names DEF OrderSubscriberFinished, Unposted,
      Posted, Watched, Peers
  <2>2. \A x \in Servers : thread'[x]["main"].op = "subscriber"
                          <=> thread[x]["main"].op = "subscriber"
    BY <1>8 DEF OrderSubscriberFinished, clientVars
  <2>3. \A x \in Servers : Apart(x)
    BY <1>0, <1>8, <2>1, <2>2 DEF OrderSubscriberFinished, Apart, Types, PeerTypes, Peers,
      subscriberVars, peerVars
  <2>4. QED
    BY <1>0, <2>3, FrameServed DEF ServedFrame
<1>9. ASSUME NEW p \in Peers, Start(p) PROVE ServedInv'
  <2>1. \A x \in Servers : net'[<<x, "subscriber">>] = net[<<x, "subscriber">>]
    BY <1>9 DEF Start
  <2>2. \A x \in Servers : thread'[x]["main"].op = "subscriber"
                          <=> thread[x]["main"].op = "subscriber"
    BY <1>9 DEF Start, clientVars
  <2>3. \A x \in Servers : Apart(x)
    BY <1>0, <1>9, <2>1, <2>2 DEF Start, Apart, Types, PeerTypes, Peers,
      subscriberVars, peerVars
  <2>4. QED
    BY <1>0, <2>3, FrameServed DEF ServedFrame
<1>10. ASSUME NEW p \in Peers, StorageInfo(p) PROVE ServedInv'
  <2>1. \A x \in Servers : net'[<<x, "subscriber">>] = net[<<x, "subscriber">>]
    BY <1>0, <1>10, StorageInfoMail, Names DEF StorageInfo, Unposted, Posted, Watched, Peers
  <2>2. \A x \in Servers : thread'[x]["main"].op = "subscriber"
                          <=> thread[x]["main"].op = "subscriber"
    BY <1>10 DEF StorageInfo, clientVars
  <2>3. \A x \in Servers : Apart(x)
    BY <1>0, <1>10, <2>1, <2>2 DEF StorageInfo, Apart, Types, PeerTypes, Peers,
      subscriberVars, peerVars
  <2>4. QED
    BY <1>0, <2>3, FrameServed DEF ServedFrame
<1>11. ASSUME NEW p \in Peers, NEW s \in Servers, ConnectStorage(p, s) PROVE ServedInv'
  <2>1. \A x \in Servers \ {s} : thread'[x]["main"].op = thread[x]["main"].op
    BY <1>0, <1>11, ConnectStorageThreads DEF Works, Waiters
  <2>2. \A x \in Servers \ {s} : Apart(x)
    BY <1>0, <1>11, <2>1 DEF ConnectStorage, Apart, Types, PeerTypes, Peers,
      subscriberVars
  <2>3. CASE p = "subscriber"
    <3>1. s \notin queues["subscriber"]
      BY <1>0, <1>11, <2>3 DEF MeetingInv, ConnectStorage
    <3>2. Terms(s)'
      BY <1>0, <1>11, <2>3, <3>1, ConnectStorageServed DEF ServedInv
    <3>3. QED
      BY <1>0, <2>2, <3>2, OneServed
  <2>4. CASE p = "client"
    <3>1. thread'[s]["main"].op # "subscriber" /\ thread[s]["main"].op # "subscriber"
      <4>1. thread'[s]["main"] = [op |-> p, obj |-> "null", asleep |-> FALSE]
            /\ thread[s]["main"] = Idle
        BY <1>0, <1>11, ConnectStorageThreads DEF Works
      <4>2. QED
        BY <2>4, <4>1 DEF Idle
    <3>2. Apart(s)
      BY <1>0, <1>11, <2>4, <3>1 DEF ConnectStorage, Apart, Types, PeerTypes, Peers,
        subscriberVars
    <3>3. QED
      BY <1>0, <2>2, <3>2, FrameServed DEF ServedFrame
  <2>5. QED
    BY <2>3, <2>4 DEF Peers
<1>12. ASSUME NEW p \in Peers, Stop(p) PROVE ServedInv'
  <2>1. \A x \in Servers : net'[<<x, "subscriber">>] = net[<<x, "subscriber">>]
    BY <1>12 DEF Stop
  <2>2. \A x \in Servers : thread'[x]["main"].op = "subscriber"
                          <=> thread[x]["main"].op = "subscriber"
    BY <1>12 DEF Stop, clientVars
  <2>3. \A x \in Servers : Apart(x)
    BY <1>0, <1>12, <2>1, <2>2 DEF Stop, Apart, Types, PeerTypes, Peers,
      subscriberVars, peerVars
  <2>4. QED
    BY <1>0, <2>3, FrameServed DEF ServedFrame
<1>13. ASSUME NEW p \in Peers, SendBye(p) PROVE ServedInv'
  <2>1. \A x \in Servers : net'[<<x, "subscriber">>] = net[<<x, "subscriber">>]
    BY <1>0, <1>13, QuietSteps DEF Unposted, Watched, Peers
  <2>2. \A x \in Servers : thread'[x]["main"].op = "subscriber"
                          <=> thread[x]["main"].op = "subscriber"
    BY <1>13 DEF SendBye, clientVars
  <2>3. \A x \in Servers : Apart(x)
    BY <1>0, <1>13, <2>1, <2>2 DEF SendBye, Apart, Types, PeerTypes, Peers,
      subscriberVars, peerVars
  <2>4. QED
    BY <1>0, <2>3, FrameServed DEF ServedFrame
<1>14. ASSUME NEW s \in Servers, ClientStorageFinished(s) PROVE ServedInv'
  <2>1. \A x \in Servers : net'[<<x, "subscriber">>] = net[<<x, "subscriber">>]
    BY <1>0, <1>14, ClientStorageFinishedMail, Names DEF Watched, Peers
  <2>2. \A x \in Servers : thread'[x]["main"].op = "subscriber"
                          <=> thread[x]["main"].op = "subscriber"
    BY <1>14 DEF ClientStorageFinished, clientVars
  <2>3. \A x \in Servers : Apart(x)
    BY <1>0, <1>14, <2>1, <2>2 DEF ClientStorageFinished, Apart, Types, PeerTypes, Peers,
      subscriberVars, peerVars
  <2>4. QED
    BY <1>0, <2>3, FrameServed DEF ServedFrame
<1>15. CASE ClientOrderFinished
  <2>1. \A x \in Servers : net'[<<x, "subscriber">>] = net[<<x, "subscriber">>]
    BY <1>0, <1>15, ClientOrderFinishedMail, Names DEF ClientOrderFinished, Unposted, Posted,
      Watched, Peers
  <2>2. \A x \in Servers : thread'[x]["main"].op = "subscriber"
                          <=> thread[x]["main"].op = "subscriber"
    BY <1>15 DEF ClientOrderFinished, clientVars
  <2>3. \A x \in Servers : Apart(x)
    BY <1>0, <1>15, <2>1, <2>2 DEF ClientOrderFinished, Apart, Types, PeerTypes, Peers,
      subscriberVars, peerVars
  <2>4. QED
    BY <1>0, <2>3, FrameServed DEF ServedFrame
<1>16. ASSUME NEW s \in Servers, SubscriberStorageFinished(s) PROVE ServedInv'
  <2>1. Terms(s)'
    BY <1>0, <1>16, SubscriberStorageFinishedServed DEF ServedInv
  <2>2. \A x \in Servers \ {s} : net'[<<x, "subscriber">>] = net[<<x, "subscriber">>]
    BY <1>0, <1>16, SubscriberStorageFinishedMail DEF Unposted, Posted, Watched, Peers
  <2>3. \A x \in Servers \ {s} : thread'[x]["main"].op = thread[x]["main"].op
    BY <1>16 DEF SubscriberStorageFinished, clientVars
  <2>4. \A x \in Servers \ {s} : Apart(x)
    <3>1. UNCHANGED <<subscribers, changes, polled, queue>>
      BY <1>16 DEF SubscriberStorageFinished, subscriberVars
    <3>2. \A x \in Servers \ {s} : finished'[x] = finished[x]
                                  /\ (x \in queues'["subscriber"] <=> x \in queues["subscriber"])
      <4>1. CASE s \notin queues["subscriber"]
        BY <1>16, <4>1 DEF SubscriberStorageFinished
      <4>2. CASE s \in queues["subscriber"]
        <5>1. \A x \in Servers \ {s} : finished'[x] = finished[x]
          BY <1>0, <1>16, <4>2 DEF SubscriberStorageFinished, Types, PeerTypes
        <5>2. queues'["subscriber"] \in {queues["subscriber"], queues["subscriber"] \ {s}}
          BY <1>0, <1>16, <4>2 DEF SubscriberStorageFinished, Types, PeerTypes, Peers
        <5>3. QED
          BY <5>1, <5>2
      <4>3. QED
        BY <4>1, <4>2
    <3>3. QED
      BY <2>2, <2>3, <3>1, <3>2 DEF Apart
  <2>5. QED
    BY <1>0, <2>1, <2>4, OneServed
<1>17. CASE SubscriberOrderFinished
  <2>1. \A x \in Servers : net'[<<x, "subscriber">>] = net[<<x, "subscriber">>]
    BY <1>0, <1>17, SubscriberOrderFinishedMail, Names DEF SubscriberOrderFinished, Unposted,
      Posted, Watched, Peers
  <2>2. \A x \in Servers : thread'[x]["main"].op = "subscriber"
                          <=> thread[x]["main"].op = "subscriber"
    BY <1>17 DEF SubscriberOrderFinished, clientVars
  <2>3. \A x \in Servers : Apart(x)
    BY <1>0, <1>17, <2>1, <2>2 DEF SubscriberOrderFinished, Apart, Types, PeerTypes,
      Peers, subscriberVars, peerVars
  <2>4. QED
    BY <1>0, <2>3, FrameServed DEF ServedFrame
<1>18. CASE Crash
  <2>1. \A x \in Servers : net'[<<x, "subscriber">>] = net[<<x, "subscriber">>]
    BY <1>18 DEF Crash
  <2>2. \A x \in Servers : thread'[x]["main"].op = "subscriber"
                          <=> thread[x]["main"].op = "subscriber"
    BY <1>18 DEF Crash, clientVars
  <2>3. \A x \in Servers : Apart(x)
    BY <1>0, <1>18, <2>1, <2>2 DEF Crash, Apart, Types, PeerTypes, Peers,
      subscriberVars, peerVars
  <2>4. QED
    BY <1>0, <2>3, FrameServed DEF ServedFrame
<1>19. ASSUME NEW m \in Nodes, RaiseEvent(m) PROVE ServedInv'
  <2>1. \A x \in Servers : net'[<<x, "subscriber">>] = net[<<x, "subscriber">>]
    BY <1>19 DEF RaiseEvent
  <2>2. \A x \in Servers : thread'[x]["main"].op = "subscriber"
                          <=> thread[x]["main"].op = "subscriber"
    BY <1>19 DEF RaiseEvent, clientVars
  <2>3. \A x \in Servers : Apart(x)
    BY <1>0, <1>19, <2>1, <2>2 DEF RaiseEvent, Apart, Types, PeerTypes, Peers,
      subscriberVars, peerVars
  <2>4. QED
    BY <1>0, <2>3, FrameServed DEF ServedFrame
<1>20. ASSUME NEW m \in Nodes, PollEvents(m) PROVE ServedInv'
  <2>1. \A x \in Servers : net'[<<x, "subscriber">>] = net[<<x, "subscriber">>]
    BY <1>20 DEF PollEvents
  <2>2. \A x \in Servers : thread'[x]["main"].op = "subscriber"
                          <=> thread[x]["main"].op = "subscriber"
    BY <1>20 DEF PollEvents, clientVars
  <2>3. \A x \in Servers : Apart(x)
    BY <1>0, <1>20, <2>1, <2>2 DEF PollEvents, Apart, Types, PeerTypes, Peers,
      subscriberVars, peerVars
  <2>4. QED
    BY <1>0, <2>3, FrameServed DEF ServedFrame
<1>21. ASSUME NEW s \in Servers, NEW t \in Waiters, GetClientState(s, t) PROVE ServedInv'
  <2>1. \A x \in Servers : net'[<<x, "subscriber">>] = net[<<x, "subscriber">>]
    BY <1>21 DEF GetClientState
  <2>2. \A x \in Servers : thread'[x]["main"].op = "subscriber"
                          <=> thread[x]["main"].op = "subscriber"
    BY <1>0, <1>21, GetClientStateThreads, ThreadsApart DEF GetClientState, Idle,
      Waiters, Has
  <2>3. \A x \in Servers : Apart(x)
    BY <1>0, <1>21, <2>1, <2>2 DEF GetClientState, Apart, Types, PeerTypes, Peers,
      subscriberVars, peerVars
  <2>4. QED
    BY <1>0, <2>3, FrameServed DEF ServedFrame
<1>22. ASSUME NEW s \in Servers, StorageAddClient(s) PROVE ServedInv'
  <2>1. \A x \in Servers : net'[<<x, "subscriber">>] = net[<<x, "subscriber">>]
    BY <1>22 DEF StorageAddClient
  <2>2. \A x \in Servers : thread'[x]["main"].op = "subscriber"
                          <=> thread[x]["main"].op = "subscriber"
    BY <1>0, <1>22, AddClientThreads, ThreadsApart DEF StorageAddClient, Idle, Waiters, Has
  <2>3. \A x \in Servers : Apart(x)
    BY <1>0, <1>22, <2>1, <2>2 DEF StorageAddClient, Apart, Types, PeerTypes, Peers,
      subscriberVars, peerVars
  <2>4. QED
    BY <1>0, <2>3, FrameServed DEF ServedFrame
<1>23. ASSUME NEW s \in Servers, NEW t \in Waiters, Sleep(s, t) PROVE ServedInv'
  <2>1. \A x \in Servers : net'[<<x, "subscriber">>] = net[<<x, "subscriber">>]
    BY <1>23 DEF Sleep
  <2>2. \A x \in Servers : thread'[x]["main"].op = "subscriber"
                          <=> thread[x]["main"].op = "subscriber"
    BY <1>0, <1>23, SleepThreads, ThreadsApart DEF Sleep, Idle, Waiters, Has
  <2>3. \A x \in Servers : Apart(x)
    BY <1>0, <1>23, <2>1, <2>2 DEF Sleep, Apart, Types, PeerTypes, Peers,
      subscriberVars, peerVars
  <2>4. QED
    BY <1>0, <2>3, FrameServed DEF ServedFrame
<1>24. ASSUME NEW s \in Servers, TakeFailure(s) PROVE ServedInv'
  <2>1. \A x \in Servers : net'[<<x, "subscriber">>] = net[<<x, "subscriber">>]
    BY <1>24 DEF TakeFailure
  <2>2. \A x \in Servers : thread'[x]["main"].op = "subscriber"
                          <=> thread[x]["main"].op = "subscriber"
    BY <1>0, <1>24, TakeFailureThreads, ThreadsApart DEF TakeFailure, Idle, Waiters,
      Has
  <2>3. \A x \in Servers : Apart(x)
    BY <1>0, <1>24, <2>1, <2>2 DEF TakeFailure, Apart, Types, PeerTypes, Peers,
      subscriberVars, peerVars
  <2>4. QED
    BY <1>0, <2>3, FrameServed DEF ServedFrame
<1>25. ASSUME NEW s \in Servers, TakeFromOrder(s) PROVE ServedInv'
  <2>1. \A x \in Servers : net'[<<x, "subscriber">>] = net[<<x, "subscriber">>]
    BY <1>0, <1>25, QuietSteps DEF Unposted, Watched, Peers
  <2>2. \A x \in Servers : thread'[x]["main"].op = "subscriber"
                          <=> thread[x]["main"].op = "subscriber"
    BY <1>0, <1>25, TakeFromOrderThreads, ThreadsApart DEF TakeFromOrder, Idle,
      Waiters, Has
  <2>3. \A x \in Servers : Apart(x)
    BY <1>0, <1>25, <2>1, <2>2 DEF TakeFromOrder, Apart, Types, PeerTypes, Peers,
      subscriberVars, peerVars
  <2>4. QED
    BY <1>0, <2>3, FrameServed DEF ServedFrame
<1>26. ASSUME NEW s \in Servers, Disconnect(s) PROVE ServedInv'
  <2>1. \A x \in Servers : net'[<<x, "subscriber">>] = net[<<x, "subscriber">>]
    BY <1>0, <1>26, QuietSteps DEF Unposted, Watched, Peers
  <2>2. \A x \in Servers : thread'[x]["main"].op = "subscriber"
                          <=> thread[x]["main"].op = "subscriber"
    BY <1>0, <1>26, DisconnectThreads, ThreadsApart DEF Disconnect, Idle, Waiters,
      Has
  <2>3. \A x \in Servers : Apart(x)
    BY <1>0, <1>26, <2>1, <2>2 DEF Disconnect, Apart, Types, PeerTypes, Peers,
      subscriberVars, peerVars
  <2>4. QED
    BY <1>0, <2>3, FrameServed DEF ServedFrame
<1>27. ASSUME NEW s \in Servers, Finalize(s) PROVE ServedInv'
  <2>1. \A x \in Servers : net'[<<x, "subscriber">>] = net[<<x, "subscriber">>]
    BY <1>27 DEF Finalize
  <2>2. \A x \in Servers : thread'[x]["main"].op = "subscriber"
                          <=> thread[x]["main"].op = "subscriber"
    BY <1>0, <1>27, FinalizeThreads, ThreadsApart DEF Finalize, Idle, Waiters, Has
  <2>3. \A x \in Servers : Apart(x)
    BY <1>0, <1>27, <2>1, <2>2 DEF Finalize, Apart, Types, PeerTypes, Peers,
      subscriberVars, peerVars
  <2>4. QED
    BY <1>0, <2>3, FrameServed DEF ServedFrame
<1>28. ASSUME NEW s \in Servers, TakeFromClient(s) PROVE ServedInv'
  <2>1. \A x \in Servers : net'[<<x, "subscriber">>] = net[<<x, "subscriber">>]
    BY <1>0, <1>28, QuietSteps DEF Unposted, Watched, Peers
  <2>2. \A x \in Servers : thread'[x]["main"].op = "subscriber"
                          <=> thread[x]["main"].op = "subscriber"
    BY <1>0, <1>28, TakeFromClientThreads, ThreadsApart DEF TakeFromClient, Idle,
      Waiters, Has
  <2>3. \A x \in Servers : Apart(x)
    BY <1>0, <1>28, <2>1, <2>2 DEF TakeFromClient, Apart, Types, PeerTypes, Peers,
      subscriberVars, peerVars
  <2>4. QED
    BY <1>0, <2>3, FrameServed DEF ServedFrame
<1>29. ASSUME NEW s \in Servers, StorageClientFinished(s) PROVE ServedInv'
  <2>1. \A x \in Servers : net'[<<x, "subscriber">>] = net[<<x, "subscriber">>]
    BY <1>0, <1>29, StorageClientFinishedMail, Names DEF StorageClientFinished, Unposted,
      Posted, Watched, Peers
  <2>2. \A x \in Servers : thread'[x]["main"].op = "subscriber"
                          <=> thread[x]["main"].op = "subscriber"
    BY <1>0, <1>29, StorageClientFinishedThreads, ThreadsApart
      DEF StorageClientFinished, Idle, Waiters, Has
  <2>3. \A x \in Servers : Apart(x)
    BY <1>0, <1>29, <2>1, <2>2 DEF StorageClientFinished, Apart, Types, PeerTypes, Peers,
      subscriberVars, peerVars
  <2>4. QED
    BY <1>0, <2>3, FrameServed DEF ServedFrame
<1>30. ASSUME NEW s \in Servers, StorageAddSubscriber(s) PROVE ServedInv'
  <2>1. Terms(s)'
    BY <1>0, <1>30, StorageAddSubscriberServed DEF ServedInv
  <2>2. \A x \in Servers : net'[<<x, "subscriber">>] = net[<<x, "subscriber">>]
    BY <1>30 DEF StorageAddSubscriber
  <2>3. \A x \in Servers \ {s} : thread'[x]["main"].op = thread[x]["main"].op
    BY <1>0, <1>30, StorageAddSubscriberThreads DEF Works, Waiters
  <2>4. \A x \in Servers \ {s} : Apart(x)
    BY <1>0, <1>30, <2>2, <2>3 DEF StorageAddSubscriber, Apart, Types, PeerTypes,
      SubscriberTypes, Peers,
      subscriberVars, peerVars
  <2>5. QED
    BY <1>0, <2>1, <2>4, OneServed
<1>31. ASSUME NEW s \in Servers, StorageSubscriberFinished(s) PROVE ServedInv'
  <2>1. Terms(s)'
    BY <1>0, <1>31, StorageSubscriberFinishedServed DEF ServedInv
  <2>2. \A x \in Servers : net'[<<x, "subscriber">>] = net[<<x, "subscriber">>]
    BY <1>0, <1>31, QuietSteps DEF Unposted, Watched, Peers
  <2>3. \A x \in Servers \ {s} : thread'[x]["main"].op = thread[x]["main"].op
    BY <1>31 DEF StorageSubscriberFinished, clientVars
  <2>4. \A x \in Servers \ {s} : Apart(x)
    BY <1>0, <1>31, <2>2, <2>3 DEF StorageSubscriberFinished, Apart, Types, PeerTypes,
      SubscriberTypes, Peers,
      subscriberVars, peerVars
  <2>5. QED
    BY <1>0, <2>1, <2>4, OneServed
<1>32. ASSUME NEW s \in Servers, NEW k \in Threads, GetChange(s, k) PROVE ServedInv'
  <2>1. Terms(s)'
    BY <1>0, <1>32, GetChangeServed DEF ServedInv
  <2>2. \A x \in Servers \ {s} : net'[<<x, "subscriber">>] = net[<<x, "subscriber">>]
    BY <1>0, <1>32, GetChangeMail DEF Unposted, Posted, Watched, Peers
  <2>3. \A x \in Servers \ {s} : thread'[x]["main"].op = thread[x]["main"].op
    BY <1>32 DEF GetChange, clientVars
  <2>4. \A x \in Servers \ {s} : Apart(x)
    BY <1>0, <1>32, <2>2, <2>3 DEF GetChange, Apart, Types, PeerTypes, SubscriberTypes,
      Peers,
      subscriberVars, peerVars
  <2>5. QED
    BY <1>0, <2>1, <2>4, OneServed
<1>33. CASE UNCHANGED sessionVars
  BY <1>0, <1>33, FrameServed DEF sessionVars, ServedFrame, Apart, clientVars,
    subscriberVars, peerVars
<1>34. QED
  BY <1>1, <1>2, <1>3, <1>4, <1>5, <1>6, <1>7, <1>8, <1>9, <1>10, <1>11, <1>12, <1>13, <1>14,
    <1>15, <1>16, <1>17, <1>18, <1>19, <1>20, <1>21, <1>22, <1>23, <1>24, <1>25, <1>26, <1>27,
    <1>28, <1>29, <1>30, <1>31, <1>32, <1>33 DEF SessionsNext, OrderMain, OrderLoop,
    ClientLoop, SubscriberControl, PeerLoop,
    Main, Control, ClientThread, Peers, Waiters

-----------------------------------------------------------------------------
(* The ordering service *)

(* What it has under way to a client or subscriber.                        *)
LEMMA Letters ==
  /\ Append(<< >>, "info") = <<"info">> /\ Append(<< >>, "order_finished") = <<"order_finished">>
  /\ Append(<<"info">>, "order_finished") = <<"info", "order_finished">>
  /\ Tail(<<"info">>) = << >> /\ Tail(<<"order_finished">>) = << >>
  /\ Tail(<<"info", "order_finished">>) = <<"order_finished">>
  /\ Head(<<"info">>) = "info" /\ Head(<<"order_finished">>) = "order_finished"
  /\ Head(<<"info", "order_finished">>) = "info"
  /\ << >> # <<"info">> /\ << >> # <<"order_finished">> /\ << >> # <<"info", "order_finished">>
  /\ <<"info">> # <<"order_finished">> /\ <<"info">> # <<"info", "order_finished">>
  /\ <<"order_finished">> # <<"info", "order_finished">>
<1>1. /\ Append(<< >>, "info") = <<"info">> /\ Append(<< >>, "order_finished") = <<"order_finished">>
      /\ Tail(<<"info">>) = << >> /\ Tail(<<"order_finished">>) = << >>
  OBVIOUS
<1>2. Append(<<"info">>, "order_finished") = <<"info", "order_finished">>
  <2> DEFINE W == {"info", "order_finished"}
             u == Append(<<"info">>, "order_finished")
             v == <<"info", "order_finished">>
  <2>1. <<"info">> \in Seq(W) /\ v \in Seq(W) /\ Len(<<"info">>) = 1 /\ Len(v) = 2
        /\ v[1] = "info" /\ v[2] = "order_finished" /\ <<"info">>[1] = "info"
    OBVIOUS
  <2>2. u \in Seq(W) /\ Len(u) = 2 /\ u[1] = "info" /\ u[2] = "order_finished"
    BY <2>1, AppendProperties
  <2>3. \A n \in 1 .. Len(u) : u[n] = v[n]
    BY <2>1, <2>2
  <2> HIDE DEF W, u, v
  <2>4. u = v
    BY <2>1, <2>2, <2>3, SeqEqual
  <2>5. QED
    BY <2>4 DEF u, v
<1>3. Tail(<<"info", "order_finished">>) = <<"order_finished">>
  OBVIOUS
<1>4. /\ Head(<<"info">>) = "info" /\ Head(<<"order_finished">>) = "order_finished"
      /\ Head(<<"info", "order_finished">>) = "info"
  OBVIOUS
<1>5. /\ Len(<< >>) = 0 /\ Len(<<"info">>) = 1 /\ Len(<<"order_finished">>) = 1
      /\ Len(<<"info", "order_finished">>) = 2 /\ <<"info">>[1] # <<"order_finished">>[1]
  OBVIOUS
<1>6. QED
  BY <1>1, <1>2, <1>3, <1>4, <1>5

(* Steps that change none of it.                                           *)
TokenFrame ==
  /\ UNCHANGED <<orderMain, subscriberQueue, orderFinished, clientState>>
  /\ pc'["subscriber"] = pc["subscriber"] /\ pc'["client"] = pc["client"]
  /\ queues'["subscriber"] = queues["subscriber"] /\ todo'["subscriber"] = todo["subscriber"]
  /\ net'[<<"order", "subscriber">>] = net[<<"order", "subscriber">>]
  /\ net'[<<"order", "client">>] = net[<<"order", "client">>]

(* They keep the tokens.                                                   *)
LEMMA FrameTokens ==
  ASSUME TokenInv, MeetingInv, TokenFrame
  PROVE  TokenInv' /\ MeetingInv'
BY DEF TokenInv, MeetingInv, TokenFrame

(* A subscriber that has yet to hear of the servers is in its loop.        *)
LEMMA UntoldInLoop ==
  ASSUME TokenInv, Untold(orderMain, net[<<"order", "subscriber">>])
  PROVE  pc["subscriber"] = "loop"
BY Letters DEF TokenInv, SubscriberToken, Untold

(* The main thread of the service adds the client or the subscriber.       *)
LEMMA OrderAddClientTokens ==
  ASSUME Setting, Types, OrderAddClient, TokenInv, MeetingInv
  PROVE  TokenInv' /\ MeetingInv'
<1>1. clientState = "none" /\ net[<<"order", "client">>] = << >>
      /\ pc["client"] \notin {"off", "ended"}
  BY DEF OrderAddClient, TokenInv, ClientToken
<1>2. /\ net'[<<"order", "client">>] = <<"info">>
      /\ net'[<<"order", "subscriber">>] = net[<<"order", "subscriber">>]
  BY <1>1, OrderAddClientMail, Letters DEF Posted, Watched
<1>3. /\ orderMain = "client" /\ orderMain' = "none"
      /\ UNCHANGED <<subscriberQueue, orderFinished, pc, queues, todo>>
  BY DEF OrderAddClient, peerVars
<1>4. ClientToken(orderMain', clientState', net'[<<"order", "client">>], pc'["client"])
  BY <1>1, <1>2, <1>3 DEF ClientToken, Welcome
<1>5. SubscriberToken(orderMain', subscriberQueue', orderFinished', net'[<<"order", "subscriber">>],
                      pc'["subscriber"])
  BY <1>2, <1>3 DEF SubscriberToken, TokenInv
<1>6. MeetingInv'
  BY <1>2, <1>3 DEF MeetingInv, Untold
<1>7. QED
  BY <1>4, <1>5, <1>6 DEF TokenInv

(* The same for the subscriber.                                            *)
LEMMA OrderAddSubscriberTokens ==
  ASSUME Setting, Types, OrderAddSubscriber, TokenInv, MeetingInv
  PROVE  TokenInv' /\ MeetingInv'
<1>1. /\ ~ subscriberQueue /\ ~ orderFinished /\ net[<<"order", "subscriber">>] = << >>
      /\ pc["subscriber"] = "loop"
  BY DEF OrderAddSubscriber, TokenInv, SubscriberToken
<1>2. /\ net'[<<"order", "subscriber">>] = <<"info">>
      /\ net'[<<"order", "client">>] = net[<<"order", "client">>]
  BY <1>1, OrderAddSubscriberMail, Letters DEF Posted, Watched
<1>3. /\ orderMain = "subscriber" /\ orderMain' = "none" /\ subscriberQueue'
      /\ UNCHANGED <<clientState, orderFinished, pc, queues, todo>>
  BY <1>1 DEF OrderAddSubscriber, peerVars
<1>4. ClientToken(orderMain', clientState', net'[<<"order", "client">>], pc'["client"])
  BY <1>2, <1>3 DEF ClientToken, TokenInv
<1>5. SubscriberToken(orderMain', subscriberQueue', orderFinished', net'[<<"order", "subscriber">>],
                      pc'["subscriber"])
  BY <1>1, <1>2, <1>3 DEF SubscriberToken
<1>6. MeetingInv'
  BY <1>1, <1>2, <1>3 DEF MeetingInv, Untold
<1>7. QED
  BY <1>4, <1>5, <1>6 DEF TokenInv

(* The client has failed, or all cuts have come: the token stays.          *)
LEMMA QuietTokens ==
  ASSUME Setting, Types, TokenInv, MeetingInv,
         OrderFailureEvent \/ \E s \in Servers : OrderClientFreeze(s) \/ OrderClientCut(s)
  PROVE  TokenInv' /\ MeetingInv'
<1>1. /\ net'[<<"order", "subscriber">>] = net[<<"order", "subscriber">>]
      /\ net'[<<"order", "client">>] = net[<<"order", "client">>]
  BY QuietSteps DEF Unposted, Watched
<1>2. UNCHANGED <<orderMain, subscriberQueue, orderFinished, pc, queues, todo>>
  BY DEF OrderFailureEvent, OrderClientFreeze, OrderClientCut, peerVars
<1>3. clientState' = clientState \/ clientState \in {"active", "failed"}
  BY DEF OrderFailureEvent, OrderClientFreeze, OrderClientCut, Failed, Finalized
<1>4. ClientToken(orderMain', clientState', net'[<<"order", "client">>], pc'["client"])
  BY <1>1, <1>2, <1>3 DEF ClientToken, TokenInv
<1>5. SubscriberToken(orderMain', subscriberQueue', orderFinished', net'[<<"order", "subscriber">>],
                      pc'["subscriber"])
  BY <1>1, <1>2 DEF SubscriberToken, TokenInv
<1>6. MeetingInv'
  BY <1>1, <1>2 DEF MeetingInv
<1>7. QED
  BY <1>4, <1>5, <1>6 DEF TokenInv

(* The loop of the service takes a farewell.                               *)
LEMMA OrderClientFinishedTokens ==
  ASSUME Setting, Types, OrderClientFinished, TokenInv, MeetingInv
  PROVE  TokenInv' /\ MeetingInv'
<1>1. /\ net'[<<"order", "subscriber">>] = net[<<"order", "subscriber">>]
      /\ net'[<<"order", "client">>] = IF clientState = "none" THEN net[<<"order", "client">>]
                                       ELSE Append(net[<<"order", "client">>], "order_finished")
  BY OrderClientFinishedMail DEF Watched
<1>2. /\ UNCHANGED <<orderMain, subscriberQueue, orderFinished, pc, queues, todo>>
      /\ clientState' = "none"
  BY DEF OrderClientFinished, Finalized, peerVars
<1>3. ClientToken(orderMain', clientState', net'[<<"order", "client">>], pc'["client"])
  <2>1. CASE clientState = "none"
    BY <1>1, <1>2, <2>1 DEF ClientToken, TokenInv
  <2>2. CASE clientState # "none"
    <3>1. /\ orderMain # "client" /\ net[<<"order", "client">>] \in Welcome
          /\ pc["client"] \notin {"off", "ended"}
      BY <2>2 DEF ClientToken, TokenInv
    <3>2. net'[<<"order", "client">>] \in Farewell
      BY <1>1, <2>2, <3>1, Letters DEF Welcome, Farewell
    <3>3. QED
      BY <1>2, <3>1, <3>2 DEF ClientToken
  <2>3. QED
    BY <2>1, <2>2
<1>4. SubscriberToken(orderMain', subscriberQueue', orderFinished', net'[<<"order", "subscriber">>],
                      pc'["subscriber"])
  BY <1>1, <1>2 DEF SubscriberToken, TokenInv
<1>5. MeetingInv'
  BY <1>1, <1>2 DEF MeetingInv
<1>6. QED
  BY <1>3, <1>4, <1>5 DEF TokenInv

(* The farewell of the subscriber, which the service may not have.         *)
LEMMA OrderSubscriberFinishedTokens ==
  ASSUME Setting, Types, OrderSubscriberFinished, TokenInv, MeetingInv
  PROVE  TokenInv' /\ MeetingInv'
<1>1. /\ net'[<<"order", "client">>] = net[<<"order", "client">>]
      /\ net'[<<"order", "subscriber">>] =
           IF subscriberQueue THEN Append(net[<<"order", "subscriber">>], "order_finished")
           ELSE net[<<"order", "subscriber">>]
  BY OrderSubscriberFinishedMail DEF Posted, Unposted, Watched
<1>2. UNCHANGED <<orderMain, clientState, orderFinished, pc, queues, todo>> /\ subscriberQueue' = FALSE
  BY DEF OrderSubscriberFinished, peerVars
<1>3. ClientToken(orderMain', clientState', net'[<<"order", "client">>], pc'["client"])
  BY <1>1, <1>2 DEF ClientToken, TokenInv
<1>4. CASE ~ subscriberQueue
  <2>1. subscriberQueue = FALSE
    BY <1>4 DEF Types, OrderTypes
  <2>2. TokenFrame
    BY <1>1, <1>2, <1>4, <2>1 DEF TokenFrame
  <2>3. QED
    BY <2>2, FrameTokens
<1>5. CASE subscriberQueue
  <2>1. /\ orderMain # "subscriber" /\ ~ orderFinished
        /\ \/ net[<<"order", "subscriber">>] = <<"info">> /\ pc["subscriber"] = "loop"
           \/ net[<<"order", "subscriber">>] = << >> /\ pc["subscriber"] \in {"loop", "connecting"}
    BY <1>5 DEF SubscriberToken, TokenInv
  <2>2. CASE net[<<"order", "subscriber">>] = <<"info">>
    <3>1. net'[<<"order", "subscriber">>] = <<"info", "order_finished">> /\ pc["subscriber"] = "loop"
      BY <1>1, <1>5, <2>1, <2>2, Letters
    <3>2. SubscriberToken(orderMain', subscriberQueue', orderFinished',
                          net'[<<"order", "subscriber">>], pc'["subscriber"])
      BY <1>2, <2>1, <3>1 DEF SubscriberToken
    <3>3. MeetingInv'
      BY <1>2, <2>1, <2>2, <3>1 DEF MeetingInv, Untold
    <3>4. QED
      BY <1>3, <3>2, <3>3 DEF TokenInv
  <2>3. CASE net[<<"order", "subscriber">>] = << >>
    <3>1. net'[<<"order", "subscriber">>] = <<"order_finished">>
          /\ pc["subscriber"] \in {"loop", "connecting"}
      BY <1>1, <1>5, <2>1, <2>3, Letters
    <3>2. SubscriberToken(orderMain', subscriberQueue', orderFinished',
                          net'[<<"order", "subscriber">>], pc'["subscriber"])
      BY <1>2, <2>1, <3>1 DEF SubscriberToken
    <3>3. MeetingInv'
      BY <1>2, <2>1, <3>1, Letters DEF MeetingInv, Untold
    <3>4. QED
      BY <1>3, <3>2, <3>3 DEF TokenInv
  <2>4. QED
    BY <2>1, <2>2, <2>3
<1>6. QED
  BY <1>4, <1>5

(* A client or a subscriber starts, off or ended as it is.                 *)
LEMMA StartTokens ==
  ASSUME Setting, Types, NEW p \in Peers, Start(p), TokenInv, MeetingInv
  PROVE  TokenInv' /\ MeetingInv'
<1>1. /\ orderMain = "none" /\ orderMain' = p /\ pc[p] \in {"off", "ended"}
      /\ UNCHANGED <<subscriberQueue, clientState, queues, todo, net>>
      /\ orderFinished' = (orderFinished /\ p = "client")
  BY DEF Start
<1>2. pc'[p] = "loop" /\ \A h \in Peers \ {p} : pc'[h] = pc[h]
  BY DEF Start, Types, PeerTypes
<1>3. CASE p = "client"
  <2>1. pc["client"] \in {"off", "ended"} /\ pc'["client"] = "loop"
        /\ pc'["subscriber"] = pc["subscriber"]
    BY <1>1, <1>2, <1>3 DEF Peers
  <2>2. orderFinished' = orderFinished
    BY <1>1, <1>3 DEF Types, PeerTypes
  <2>3. ClientToken(orderMain', clientState', net'[<<"order", "client">>], pc'["client"])
    BY <1>1, <1>3, <2>1 DEF ClientToken, TokenInv
  <2>4. SubscriberToken(orderMain', subscriberQueue', orderFinished',
                        net'[<<"order", "subscriber">>], pc'["subscriber"])
    BY <1>1, <1>3, <2>1, <2>2 DEF SubscriberToken, TokenInv
  <2>5. MeetingInv'
    BY <1>1, <1>3, <2>1 DEF MeetingInv, Untold
  <2>6. QED
    BY <2>3, <2>4, <2>5 DEF TokenInv
<1>4. CASE p = "subscriber"
  <2>1. pc["subscriber"] \in {"off", "ended"} /\ pc'["subscriber"] = "loop"
        /\ pc'["client"] = pc["client"]
    BY <1>1, <1>2, <1>4 DEF Peers
  <2>2. ~ orderFinished'
    BY <1>1, <1>4
  <2>3. ~ subscriberQueue /\ net[<<"order", "subscriber">>] = << >>
    BY <2>1 DEF SubscriberToken, TokenInv
  <2>4. ClientToken(orderMain', clientState', net'[<<"order", "client">>], pc'["client"])
    BY <1>1, <1>4, <2>1 DEF ClientToken, TokenInv
  <2>5. SubscriberToken(orderMain', subscriberQueue', orderFinished',
                        net'[<<"order", "subscriber">>], pc'["subscriber"])
    BY <1>1, <1>4, <2>1, <2>2, <2>3 DEF SubscriberToken
  <2>6. MeetingInv'
    BY <1>1, <2>1 DEF MeetingInv
  <2>7. QED
    BY <2>4, <2>5, <2>6 DEF TokenInv
<1>5. QED
  BY <1>3, <1>4 DEF Peers

(* The info of the servers comes, ...                                      *)
LEMMA StorageInfoTokens ==
  ASSUME Setting, Types, NEW p \in Peers, StorageInfo(p), TokenInv, MeetingInv
  PROVE  TokenInv' /\ MeetingInv'
<1>1. /\ pc[p] = "loop" /\ net[<<"order", p>>] # << >> /\ Head(net[<<"order", p>>]) = "info"
      /\ UNCHANGED <<orderMain, subscriberQueue, clientState, queues, orderFinished>>
  BY DEF StorageInfo, Arrived, orderingVars
<1>2. pc'[p] = "connecting" /\ \A h \in Peers \ {p} : pc'[h] = pc[h] /\ todo'[h] = todo[h]
  BY DEF StorageInfo, Types, PeerTypes
<1>3. Posted(net', net, <<"order", p>>, Tail(net[<<"order", p>>]))
  BY StorageInfoMail
<1>4. CASE p = "client"
  <2>1. /\ pc["client"] = "loop" /\ pc'["client"] = "connecting"
        /\ pc'["subscriber"] = pc["subscriber"] /\ todo'["subscriber"] = todo["subscriber"]
        /\ net[<<"order", "client">>] # << >> /\ Head(net[<<"order", "client">>]) = "info"
    BY <1>1, <1>2, <1>4 DEF Peers
  <2>2. /\ net'[<<"order", "client">>] = Tail(net[<<"order", "client">>])
        /\ net'[<<"order", "subscriber">>] = net[<<"order", "subscriber">>]
    BY <1>3, <1>4 DEF Posted, Watched
  <2>3. ClientToken(orderMain', clientState', net'[<<"order", "client">>], pc'["client"])
    BY <1>1, <2>1, <2>2, Letters DEF ClientToken, TokenInv, Welcome, Farewell
  <2>4. SubscriberToken(orderMain', subscriberQueue', orderFinished',
                        net'[<<"order", "subscriber">>], pc'["subscriber"])
    BY <1>1, <2>1, <2>2 DEF SubscriberToken, TokenInv
  <2>5. MeetingInv'
    BY <1>1, <2>1, <2>2 DEF MeetingInv
  <2>6. QED
    BY <2>3, <2>4, <2>5 DEF TokenInv
<1>5. CASE p = "subscriber"
  <2>1. /\ pc["subscriber"] = "loop" /\ pc'["subscriber"] = "connecting"
        /\ pc'["client"] = pc["client"]
        /\ net[<<"order", "subscriber">>] # << >> /\ Head(net[<<"order", "subscriber">>]) = "info"
    BY <1>1, <1>2, <1>5 DEF Peers
  <2>2. /\ net'[<<"order", "subscriber">>] = Tail(net[<<"order", "subscriber">>])
        /\ net'[<<"order", "client">>] = net[<<"order", "client">>]
    BY <1>3, <1>5 DEF Posted, Watched
  <2>3. ClientToken(orderMain', clientState', net'[<<"order", "client">>], pc'["client"])
    BY <1>1, <2>1, <2>2 DEF ClientToken, TokenInv
  <2>4. /\ orderMain # "subscriber" /\ ~ orderFinished
        /\ \/ subscriberQueue /\ net[<<"order", "subscriber">>] = <<"info">>
           \/ ~ subscriberQueue /\ net[<<"order", "subscriber">>] = <<"info", "order_finished">>
    BY <2>1, Letters DEF SubscriberToken, TokenInv
  <2>5. SubscriberToken(orderMain', subscriberQueue', orderFinished',
                        net'[<<"order", "subscriber">>], pc'["subscriber"])
    BY <1>1, <2>1, <2>2, <2>4, Letters DEF SubscriberToken
  <2>6. queues["subscriber"] = {}
    BY <2>4 DEF MeetingInv, Untold
  <2>7. MeetingInv'
    BY <1>1, <2>6 DEF MeetingInv
  <2>8. QED
    BY <2>3, <2>5, <2>7 DEF TokenInv
<1>6. QED
  BY <1>4, <1>5 DEF Peers

(* ... and they are connected to.                                          *)
LEMMA ConnectStorageTokens ==
  ASSUME Setting, Types, NEW p \in Peers, NEW s \in Servers, ConnectStorage(p, s),
         TokenInv, MeetingInv
  PROVE  TokenInv' /\ MeetingInv'
<1>1. /\ pc[p] = "connecting" /\ s \in todo[p]
      /\ UNCHANGED <<orderMain, subscriberQueue, clientState, orderFinished, net>>
  BY DEF ConnectStorage, orderingVars
<1>2. /\ pc'[p] \in {"loop", "connecting"} /\ todo'[p] = todo[p] \ {s}
      /\ queues'[p] = queues[p] \cup {s}
      /\ \A h \in Peers \ {p} : pc'[h] = pc[h] /\ todo'[h] = todo[h] /\ queues'[h] = queues[h]
  BY <1>1 DEF ConnectStorage, Types, PeerTypes
<1>3. CASE p = "client"
  <2>1. /\ pc["client"] = "connecting" /\ pc'["client"] \in {"loop", "connecting"}
        /\ pc'["subscriber"] = pc["subscriber"] /\ todo'["subscriber"] = todo["subscriber"]
        /\ queues'["subscriber"] = queues["subscriber"]
    BY <1>1, <1>2, <1>3 DEF Peers
  <2>2. ClientToken(orderMain', clientState', net'[<<"order", "client">>], pc'["client"])
    BY <1>1, <2>1 DEF ClientToken, TokenInv
  <2>3. SubscriberToken(orderMain', subscriberQueue', orderFinished',
                        net'[<<"order", "subscriber">>], pc'["subscriber"])
    BY <1>1, <2>1 DEF SubscriberToken, TokenInv
  <2>4. MeetingInv'
    BY <1>1, <2>1 DEF MeetingInv
  <2>5. QED
    BY <2>2, <2>3, <2>4 DEF TokenInv
<1>4. CASE p = "subscriber"
  <2>1. /\ pc["subscriber"] = "connecting" /\ pc'["subscriber"] \in {"loop", "connecting"}
        /\ pc'["client"] = pc["client"]
    BY <1>1, <1>2, <1>4 DEF Peers
  <2>2. ClientToken(orderMain', clientState', net'[<<"order", "client">>], pc'["client"])
    BY <1>1, <2>1 DEF ClientToken, TokenInv
  <2>3. SubscriberToken(orderMain', subscriberQueue', orderFinished',
                        net'[<<"order", "subscriber">>], pc'["subscriber"])
    BY <1>1, <2>1 DEF SubscriberToken, TokenInv
  <2>4. ~ Untold(orderMain, net[<<"order", "subscriber">>])
    BY <2>1, UntoldInLoop
  <2>5. todo'["subscriber"] \cap queues'["subscriber"] = {}
    BY <1>2, <1>4, <2>1 DEF MeetingInv
  <2>6. MeetingInv'
    BY <1>1, <2>1, <2>4, <2>5 DEF MeetingInv
  <2>7. QED
    BY <2>2, <2>3, <2>6 DEF TokenInv
<1>5. QED
  BY <1>3, <1>4 DEF Peers

(* The answer of the service comes.                                        *)
LEMMA ClientOrderFinishedTokens ==
  ASSUME Setting, Types, ClientOrderFinished, TokenInv, MeetingInv
  PROVE  TokenInv' /\ MeetingInv'
<1>1. /\ pc["client"] = "loop" /\ net[<<"order", "client">>] # << >>
      /\ Head(net[<<"order", "client">>]) = "order_finished"
      /\ UNCHANGED <<orderMain, subscriberQueue, clientState, queues, todo, orderFinished>>
  BY DEF ClientOrderFinished, Arrived, orderingVars
<1>2. pc'["client"] = "ended" /\ pc'["subscriber"] = pc["subscriber"]
  BY DEF ClientOrderFinished, Types, PeerTypes, Peers
<1>3. /\ net'[<<"order", "client">>] = Tail(net[<<"order", "client">>])
      /\ net'[<<"order", "subscriber">>] = net[<<"order", "subscriber">>]
  BY ClientOrderFinishedMail DEF Posted, Watched
<1>4. ClientToken(orderMain', clientState', net'[<<"order", "client">>], pc'["client"])
  BY <1>1, <1>2, <1>3, Letters DEF ClientToken, TokenInv, Welcome, Farewell
<1>5. SubscriberToken(orderMain', subscriberQueue', orderFinished',
                      net'[<<"order", "subscriber">>], pc'["subscriber"])
  BY <1>1, <1>2, <1>3 DEF SubscriberToken, TokenInv
<1>6. MeetingInv'
  BY <1>1, <1>2, <1>3 DEF MeetingInv
<1>7. QED
  BY <1>4, <1>5, <1>6 DEF TokenInv

(* It may end the subscriber, if no server is left.                        *)
LEMMA SubscriberOrderFinishedTokens ==
  ASSUME Setting, Types, SubscriberOrderFinished, TokenInv, MeetingInv
  PROVE  TokenInv' /\ MeetingInv'
<1>1. /\ pc["subscriber"] = "loop" /\ net[<<"order", "subscriber">>] # << >>
      /\ Head(net[<<"order", "subscriber">>]) = "order_finished" /\ orderFinished'
      /\ UNCHANGED <<orderMain, subscriberQueue, clientState, queues, todo>>
  BY DEF SubscriberOrderFinished, Arrived, orderingVars
<1>2. /\ pc'["client"] = pc["client"]
      /\ pc'["subscriber"] = IF queues["subscriber"] = {} THEN "ended" ELSE "loop"
  BY <1>1 DEF SubscriberOrderFinished, Types, PeerTypes, Peers
<1>3. /\ net'[<<"order", "subscriber">>] = Tail(net[<<"order", "subscriber">>])
      /\ net'[<<"order", "client">>] = net[<<"order", "client">>]
  BY SubscriberOrderFinishedMail DEF Posted, Watched
<1>4. ClientToken(orderMain', clientState', net'[<<"order", "client">>], pc'["client"])
  BY <1>1, <1>2, <1>3 DEF ClientToken, TokenInv
<1>5. /\ orderMain # "subscriber" /\ ~ subscriberQueue
      /\ net[<<"order", "subscriber">>] = <<"order_finished">>
  BY <1>1, Letters DEF SubscriberToken, TokenInv
<1>6. net'[<<"order", "subscriber">>] = << >>
  BY <1>3, <1>5, Letters
<1>7. SubscriberToken(orderMain', subscriberQueue', orderFinished',
                      net'[<<"order", "subscriber">>], pc'["subscriber"])
  BY <1>1, <1>2, <1>5, <1>6 DEF SubscriberToken
<1>8. MeetingInv'
  BY <1>1, <1>2, <1>5, <1>6, Letters DEF MeetingInv, Untold
<1>9. QED
  BY <1>4, <1>7, <1>8 DEF TokenInv

(* A farewell of a server may end the subscriber.                          *)
LEMMA SubscriberStorageFinishedTokens ==
  ASSUME Setting, Types, NEW s \in Servers, SubscriberStorageFinished(s), TokenInv, MeetingInv
  PROVE  TokenInv' /\ MeetingInv'
<1>1. /\ pc["subscriber"] = "loop"
      /\ UNCHANGED <<orderMain, subscriberQueue, clientState, orderFinished, todo>>
  BY DEF SubscriberStorageFinished, orderingVars
<1>2. /\ net'[<<"order", "subscriber">>] = net[<<"order", "subscriber">>]
      /\ net'[<<"order", "client">>] = net[<<"order", "client">>]
  BY SubscriberStorageFinishedMail, Names DEF Posted, Watched
<1>3. /\ pc'["client"] = pc["client"] /\ queues'["subscriber"] \subseteq queues["subscriber"]
      /\ \/ pc'["subscriber"] = "loop"
         \/ pc'["subscriber"] = "ended" /\ orderFinished /\ queues'["subscriber"] = {}
  BY <1>1 DEF SubscriberStorageFinished, Types, PeerTypes, Peers
<1>4. ClientToken(orderMain', clientState', net'[<<"order", "client">>], pc'["client"])
  BY <1>1, <1>2, <1>3 DEF ClientToken, TokenInv
<1>5. SubscriberToken(orderMain', subscriberQueue', orderFinished',
                      net'[<<"order", "subscriber">>], pc'["subscriber"])
  BY <1>1, <1>2, <1>3 DEF SubscriberToken, TokenInv
<1>6. MeetingInv'
  BY <1>1, <1>2, <1>3 DEF MeetingInv
<1>7. QED
  BY <1>4, <1>5, <1>6 DEF TokenInv

(* A client that crashes has started and has not ended.                    *)
LEMMA CrashTokens ==
  ASSUME Setting, Types, Crash, TokenInv, MeetingInv
  PROVE  TokenInv' /\ MeetingInv'
<1>1. /\ pc["client"] \in {"loop", "connecting"}
      /\ UNCHANGED <<orderMain, subscriberQueue, clientState, orderFinished, queues, todo, net>>
  BY DEF Crash, orderingVars
<1>2. pc'["client"] = "crashed" /\ pc'["subscriber"] = pc["subscriber"]
  BY DEF Crash, Types, PeerTypes, Peers
<1>3. ClientToken(orderMain', clientState', net'[<<"order", "client">>], pc'["client"])
  BY <1>1, <1>2 DEF ClientToken, TokenInv
<1>4. SubscriberToken(orderMain', subscriberQueue', orderFinished',
                      net'[<<"order", "subscriber">>], pc'["subscriber"])
  BY <1>1, <1>2 DEF SubscriberToken, TokenInv
<1>5. MeetingInv'
  BY <1>1, <1>2 DEF MeetingInv
<1>6. QED
  BY <1>3, <1>4, <1>5 DEF TokenInv

(* Every step keeps the tokens.                                            *)
LEMMA NextTokens ==
  ASSUME Setting, SInv, [SessionsNext]_sessionVars
  PROVE  TokenInv' /\ MeetingInv'
<1>0. Types /\ TokenInv /\ MeetingInv
  BY DEF SInv
<1>1. ASSUME NEW s \in Servers, AddStorage(s) PROVE TokenInv' /\ MeetingInv'
  <2>1. /\ net'[<<"order", "subscriber">>] = net[<<"order", "subscriber">>]
        /\ net'[<<"order", "client">>] = net[<<"order", "client">>]
    BY <1>1 DEF AddStorage
  <2>2. TokenFrame
    BY <1>0, <1>1, <2>1 DEF AddStorage, TokenFrame, Types, PeerTypes, Peers,
      orderingVars, peerVars
  <2>3. QED
    BY <1>0, <2>2, FrameTokens
<1>2. CASE OrderAddClient
  BY <1>0, <1>2, OrderAddClientTokens
<1>3. CASE OrderAddSubscriber
  BY <1>0, <1>3, OrderAddSubscriberTokens
<1>4. CASE OrderFailureEvent
  BY <1>0, <1>4, QuietTokens
<1>5. ASSUME NEW s \in Servers, OrderClientFreeze(s) PROVE TokenInv' /\ MeetingInv'
  BY <1>0, <1>5, QuietTokens
<1>6. ASSUME NEW s \in Servers, OrderClientCut(s) PROVE TokenInv' /\ MeetingInv'
  BY <1>0, <1>6, QuietTokens
<1>7. CASE OrderClientFinished
  BY <1>0, <1>7, OrderClientFinishedTokens
<1>8. CASE OrderSubscriberFinished
  BY <1>0, <1>8, OrderSubscriberFinishedTokens
<1>9. ASSUME NEW p \in Peers, Start(p) PROVE TokenInv' /\ MeetingInv'
  BY <1>0, <1>9, StartTokens
<1>10. ASSUME NEW p \in Peers, StorageInfo(p) PROVE TokenInv' /\ MeetingInv'
  BY <1>0, <1>10, StorageInfoTokens
<1>11. ASSUME NEW p \in Peers, NEW s \in Servers, ConnectStorage(p, s) PROVE TokenInv' /\ MeetingInv'
  BY <1>0, <1>11, ConnectStorageTokens
<1>12. ASSUME NEW p \in Peers, Stop(p) PROVE TokenInv' /\ MeetingInv'
  <2>1. /\ net'[<<"order", "subscriber">>] = net[<<"order", "subscriber">>]
        /\ net'[<<"order", "client">>] = net[<<"order", "client">>]
    BY <1>12 DEF Stop
  <2>2. TokenFrame
    BY <1>0, <1>12, <2>1 DEF Stop, TokenFrame, Types, PeerTypes, Peers, orderingVars,
      peerVars
  <2>3. QED
    BY <1>0, <2>2, FrameTokens
<1>13. ASSUME NEW p \in Peers, SendBye(p) PROVE TokenInv' /\ MeetingInv'
  <2>1. /\ net'[<<"order", "subscriber">>] = net[<<"order", "subscriber">>]
        /\ net'[<<"order", "client">>] = net[<<"order", "client">>]
    BY <1>0, <1>13, QuietSteps, Names DEF Posted, Unposted, Watched
  <2>2. TokenFrame
    BY <1>0, <1>13, <2>1 DEF SendBye, TokenFrame, Types, PeerTypes, Peers, orderingVars,
      peerVars
  <2>3. QED
    BY <1>0, <2>2, FrameTokens
<1>14. ASSUME NEW s \in Servers, ClientStorageFinished(s) PROVE TokenInv' /\ MeetingInv'
  <2>1. /\ net'[<<"order", "subscriber">>] = net[<<"order", "subscriber">>]
        /\ net'[<<"order", "client">>] = net[<<"order", "client">>]
    BY <1>0, <1>14, ClientStorageFinishedMail, Names DEF Posted, Unposted, Watched
  <2>2. TokenFrame
    BY <1>0, <1>14, <2>1 DEF ClientStorageFinished, TokenFrame, Types, PeerTypes, Peers,
      orderingVars, peerVars
  <2>3. QED
    BY <1>0, <2>2, FrameTokens
<1>15. CASE ClientOrderFinished
  BY <1>0, <1>15, ClientOrderFinishedTokens
<1>16. ASSUME NEW s \in Servers, SubscriberStorageFinished(s) PROVE TokenInv' /\ MeetingInv'
  BY <1>0, <1>16, SubscriberStorageFinishedTokens
<1>17. CASE SubscriberOrderFinished
  BY <1>0, <1>17, SubscriberOrderFinishedTokens
<1>18. CASE Crash
  BY <1>0, <1>18, CrashTokens
<1>19. ASSUME NEW m \in Nodes, RaiseEvent(m) PROVE TokenInv' /\ MeetingInv'
  <2>1. /\ net'[<<"order", "subscriber">>] = net[<<"order", "subscriber">>]
        /\ net'[<<"order", "client">>] = net[<<"order", "client">>]
    BY <1>19 DEF RaiseEvent
  <2>2. TokenFrame
    BY <1>0, <1>19, <2>1 DEF RaiseEvent, TokenFrame, Types, PeerTypes, Peers,
      orderingVars, peerVars
  <2>3. QED
    BY <1>0, <2>2, FrameTokens
<1>20. ASSUME NEW m \in Nodes, PollEvents(m) PROVE TokenInv' /\ MeetingInv'
  <2>1. /\ net'[<<"order", "subscriber">>] = net[<<"order", "subscriber">>]
        /\ net'[<<"order", "client">>] = net[<<"order", "client">>]
    BY <1>20 DEF PollEvents
  <2>2. TokenFrame
    BY <1>0, <1>20, <2>1 DEF PollEvents, TokenFrame, Types, PeerTypes, Peers,
      orderingVars, peerVars
  <2>3. QED
    BY <1>0, <2>2, FrameTokens
<1>21. ASSUME NEW s \in Servers, NEW t \in Waiters, GetClientState(s, t) PROVE TokenInv' /\ MeetingInv'
  <2>1. /\ net'[<<"order", "subscriber">>] = net[<<"order", "subscriber">>]
        /\ net'[<<"order", "client">>] = net[<<"order", "client">>]
    BY <1>21 DEF GetClientState
  <2>2. TokenFrame
    BY <1>0, <1>21, <2>1 DEF GetClientState, TokenFrame, Types, PeerTypes, Peers,
      orderingVars, peerVars
  <2>3. QED
    BY <1>0, <2>2, FrameTokens
<1>22. ASSUME NEW s \in Servers, StorageAddClient(s) PROVE TokenInv' /\ MeetingInv'
  <2>1. /\ net'[<<"order", "subscriber">>] = net[<<"order", "subscriber">>]
        /\ net'[<<"order", "client">>] = net[<<"order", "client">>]
    BY <1>22 DEF StorageAddClient
  <2>2. TokenFrame
    BY <1>0, <1>22, <2>1 DEF StorageAddClient, TokenFrame, Types, PeerTypes, Peers,
      orderingVars, peerVars
  <2>3. QED
    BY <1>0, <2>2, FrameTokens
<1>23. ASSUME NEW s \in Servers, NEW t \in Waiters, Sleep(s, t) PROVE TokenInv' /\ MeetingInv'
  <2>1. /\ net'[<<"order", "subscriber">>] = net[<<"order", "subscriber">>]
        /\ net'[<<"order", "client">>] = net[<<"order", "client">>]
    BY <1>23 DEF Sleep
  <2>2. TokenFrame
    BY <1>0, <1>23, <2>1 DEF Sleep, TokenFrame, Types, PeerTypes, Peers, orderingVars,
      peerVars
  <2>3. QED
    BY <1>0, <2>2, FrameTokens
<1>24. ASSUME NEW s \in Servers, TakeFailure(s) PROVE TokenInv' /\ MeetingInv'
  <2>1. /\ net'[<<"order", "subscriber">>] = net[<<"order", "subscriber">>]
        /\ net'[<<"order", "client">>] = net[<<"order", "client">>]
    BY <1>24 DEF TakeFailure
  <2>2. TokenFrame
    BY <1>0, <1>24, <2>1 DEF TakeFailure, TokenFrame, Types, PeerTypes, Peers,
      orderingVars, peerVars
  <2>3. QED
    BY <1>0, <2>2, FrameTokens
<1>25. ASSUME NEW s \in Servers, TakeFromOrder(s) PROVE TokenInv' /\ MeetingInv'
  <2>1. /\ net'[<<"order", "subscriber">>] = net[<<"order", "subscriber">>]
        /\ net'[<<"order", "client">>] = net[<<"order", "client">>]
    BY <1>0, <1>25, QuietSteps, Names DEF Posted, Unposted, Watched
  <2>2. TokenFrame
    BY <1>0, <1>25, <2>1 DEF TakeFromOrder, TokenFrame, Types, PeerTypes, Peers,
      orderingVars, peerVars
  <2>3. QED
    BY <1>0, <2>2, FrameTokens
<1>26. ASSUME NEW s \in Servers, Disconnect(s) PROVE TokenInv' /\ MeetingInv'
  <2>1. /\ net'[<<"order", "subscriber">>] = net[<<"order", "subscriber">>]
        /\ net'[<<"order", "client">>] = net[<<"order", "client">>]
    BY <1>0, <1>26, QuietSteps, Names DEF Posted, Unposted, Watched
  <2>2. TokenFrame
    BY <1>0, <1>26, <2>1 DEF Disconnect, TokenFrame, Types, PeerTypes, Peers,
      orderingVars, peerVars
  <2>3. QED
    BY <1>0, <2>2, FrameTokens
<1>27. ASSUME NEW s \in Servers, Finalize(s) PROVE TokenInv' /\ MeetingInv'
  <2>1. /\ net'[<<"order", "subscriber">>] = net[<<"order", "subscriber">>]
        /\ net'[<<"order", "client">>] = net[<<"order", "client">>]
    BY <1>27 DEF Finalize
  <2>2. TokenFrame
    BY <1>0, <1>27, <2>1 DEF Finalize, TokenFrame, Types, PeerTypes, Peers, orderingVars,
      peerVars
  <2>3. QED
    BY <1>0, <2>2, FrameTokens
<1>28. ASSUME NEW s \in Servers, TakeFromClient(s) PROVE TokenInv' /\ MeetingInv'
  <2>1. /\ net'[<<"order", "subscriber">>] = net[<<"order", "subscriber">>]
        /\ net'[<<"order", "client">>] = net[<<"order", "client">>]
    BY <1>0, <1>28, QuietSteps, Names DEF Posted, Unposted, Watched
  <2>2. TokenFrame
    BY <1>0, <1>28, <2>1 DEF TakeFromClient, TokenFrame, Types, PeerTypes, Peers,
      orderingVars, peerVars
  <2>3. QED
    BY <1>0, <2>2, FrameTokens
<1>29. ASSUME NEW s \in Servers, StorageClientFinished(s) PROVE TokenInv' /\ MeetingInv'
  <2>1. /\ net'[<<"order", "subscriber">>] = net[<<"order", "subscriber">>]
        /\ net'[<<"order", "client">>] = net[<<"order", "client">>]
    BY <1>0, <1>29, StorageClientFinishedMail, Names DEF Posted, Unposted, Watched
  <2>2. TokenFrame
    BY <1>0, <1>29, <2>1 DEF StorageClientFinished, TokenFrame, Types, PeerTypes, Peers,
      orderingVars, peerVars
  <2>3. QED
    BY <1>0, <2>2, FrameTokens
<1>30. ASSUME NEW s \in Servers, StorageAddSubscriber(s) PROVE TokenInv' /\ MeetingInv'
  <2>1. /\ net'[<<"order", "subscriber">>] = net[<<"order", "subscriber">>]
        /\ net'[<<"order", "client">>] = net[<<"order", "client">>]
    BY <1>30 DEF StorageAddSubscriber
  <2>2. TokenFrame
    BY <1>0, <1>30, <2>1 DEF StorageAddSubscriber, TokenFrame, Types, PeerTypes, Peers,
      orderingVars, peerVars
  <2>3. QED
    BY <1>0, <2>2, FrameTokens
<1>31. ASSUME NEW s \in Servers, StorageSubscriberFinished(s) PROVE TokenInv' /\ MeetingInv'
  <2>1. /\ net'[<<"order", "subscriber">>] = net[<<"order", "subscriber">>]
        /\ net'[<<"order", "client">>] = net[<<"order", "client">>]
    BY <1>0, <1>31, QuietSteps, Names DEF Posted, Unposted, Watched
  <2>2. TokenFrame
    BY <1>0, <1>31, <2>1 DEF StorageSubscriberFinished, TokenFrame, Types, PeerTypes,
      Peers, orderingVars, peerVars
  <2>3. QED
    BY <1>0, <2>2, FrameTokens
<1>32. ASSUME NEW s \in Servers, NEW k \in Threads, GetChange(s, k) PROVE TokenInv' /\ MeetingInv'
  <2>1. /\ net'[<<"order", "subscriber">>] = net[<<"order", "subscriber">>]
        /\ net'[<<"order", "client">>] = net[<<"order", "client">>]
    BY <1>0, <1>32, GetChangeMail, Names DEF Posted, Unposted, Watched
  <2>2. TokenFrame
    BY <1>0, <1>32, <2>1 DEF GetChange, TokenFrame, Types, PeerTypes, Peers,
      orderingVars, peerVars
  <2>3. QED
    BY <1>0, <2>2, FrameTokens
<1>33. CASE UNCHANGED sessionVars
  BY <1>0, <1>33, FrameTokens DEF sessionVars, TokenFrame, orderingVars, peerVars
<1>34. QED
  BY <1>1, <1>2, <1>3, <1>4, <1>5, <1>6, <1>7, <1>8, <1>9, <1>10, <1>11, <1>12, <1>13, <1>14,
    <1>15, <1>16, <1>17, <1>18, <1>19, <1>20, <1>21, <1>22, <1>23, <1>24, <1>25, <1>26, <1>27,
    <1>28, <1>29, <1>30, <1>31, <1>32, <1>33 DEF SessionsNext, OrderMain, OrderLoop,
    ClientLoop, SubscriberControl, PeerLoop,
    Main, Control, ClientThread, Peers, Waiters

-----------------------------------------------------------------------------
(* The client *)

(* A client that a server has disconnected stays so.                       *)
Kept == \A x \in Servers : Disconnected(x) => Disconnected(x)'

(* Marks are never taken back, and an object in place stays in place.      *)
LEMMA MarkedKept ==
  ASSUME Types, UNCHANGED location, Marked(state')
  PROVE  Kept
BY DEF Kept, Marked, Disconnected, Types, StorageTypes, Objects

(* An object is put in place where there was none.                         *)
LEMMA GetClientStateKept ==
  ASSUME Types, NEW s \in Servers, NEW t \in Waiters, GetClientState(s, t)
  PROVE  Kept
<1>1. /\ location' = [location EXCEPT ![s] = IF location[s] = "null" THEN t ELSE location[s]]
      /\ UNCHANGED state
  BY GetClientStateThreads DEF GetClientState
<1>2. \A x \in Servers : location[x] # "null" => location'[x] = location[x]
  BY <1>1 DEF Types, StorageTypes
<1>3. QED
  BY <1>1, <1>2 DEF Kept, Disconnected

(* A thread that has an object has the one in place.                       *)
LEMMA WorksObj ==
  ASSUME ObjInv, NEW s \in Servers, NEW t \in Waiters, NEW w, Works(thread', s, t, w),
         UNCHANGED location, w.obj \in {"null", location[s]}
  PROVE  ObjInv'
BY DEF ObjInv, Works

(* The thread has it then, and no other had one.                           *)
LEMMA GetClientStateObj ==
  ASSUME Types, ObjInv, NEW s \in Servers, NEW t \in Waiters, GetClientState(s, t)
  PROVE  ObjInv'
<1>1. PICK w \in Work : Works(thread', s, t, w) /\ w.obj = location'[s]
  BY GetClientStateThreads
<1>2. \A x \in Servers : location[x] # "null" => location'[x] = location[x]
  BY GetClientStateThreads DEF Types, StorageTypes
<1>3. \A x \in Servers, y \in Waiters : x # s \/ y # t => thread'[x][y].obj = thread[x][y].obj
  BY <1>1 DEF Works
<1>4. thread'[s][t].obj = location'[s]
  BY <1>1 DEF Works
<1>5. QED
  BY <1>2, <1>3, <1>4 DEF ObjInv

(* Steps that change nothing of what the client waits for.                 *)
ClientFrame ==
  /\ pc'["client"] = pc["client"] /\ queues'["client"] = queues["client"]
  /\ todo'["client"] = todo["client"] /\ UNCHANGED <<starting, storageAddresses>>
  /\ net'[<<"client", "order">>] = net[<<"client", "order">>]
  /\ net'[<<"order", "client">>] = net[<<"order", "client">>]
  /\ \A s \in Servers : net'[<<s, "client">>] = net[<<s, "client">>]

(* They keep the invariant of the client.                                  *)
LEMMA FrameClient ==
  ASSUME Types, ClientInv, ClientFrame, Kept
  PROVE  ClientInv'
<1>1. storageAddresses \subseteq Servers
  BY DEF Types, OrderTypes
<1>2. Gone => Gone'
  BY <1>1 DEF Gone, Kept, ClientFrame
<1>3. (net[<<"client", "order">>] # << >> \/ net[<<"order", "client">>] \in Farewell
       \/ pc["client"] = "ended" => Gone)'
  BY <1>2 DEF ClientInv, ClientFrame
<1>4. \A s \in Servers : net'[<<s, "client">>] # << >> => Disconnected(s)'
  BY DEF ClientInv, ClientFrame, Kept
<1>5. pc'["client"] = "loop" /\ queues'["client"] # {} =>
        \A s \in storageAddresses' : s \in queues'["client"] \/ Disconnected(s)'
  BY <1>1 DEF ClientInv, ClientFrame, Kept
<1>6. pc'["client"] = "connecting" =>
        \A s \in storageAddresses' : s \in todo'["client"] \/ s \in queues'["client"]
                                     \/ Disconnected(s)'
  BY <1>1 DEF ClientInv, ClientFrame, Kept
<1>7. /\ pc'["client"] = "off" => queues'["client"] = {} /\ net'[<<"client", "order">>] = << >>
      /\ pc'["client"] # "off" => starting' = {}
  BY DEF ClientInv, ClientFrame
<1>8. QED
  BY <1>3, <1>4, <1>5, <1>6, <1>7 DEF ClientInv

(* A server joins: no client has been started yet.                         *)
LEMMA AddStorageClient ==
  ASSUME Setting, SInv, NEW s \in Servers, AddStorage(s)
  PROVE  ClientInv'
<1>1. pc["client"] = "off"
  BY DEF SInv, ClientInv, AddStorage
<1>2. UNCHANGED <<pc, queues, todo, net, location, state>>
  BY DEF AddStorage, clientVars, peerVars
<1>3. net[<<"order", "client">>] = << >>
  BY <1>1 DEF SInv, TokenInv, ClientToken
<1>4. net[<<"order", "client">>] \notin Farewell
  BY <1>3, Letters DEF Farewell
<1>5. \A x \in Servers : Disconnected(x)' <=> Disconnected(x)
  BY <1>2 DEF Disconnected
<1>6. QED
  BY <1>1, <1>2, <1>4, <1>5 DEF SInv, ClientInv

(* The service adds the client.                                            *)
LEMMA OrderAddClientClient ==
  ASSUME Setting, SInv, OrderAddClient
  PROVE  ClientInv'
<1>0. Types
  BY DEF SInv
<1>1. clientState = "none" /\ net[<<"order", "client">>] = << >>
  BY DEF OrderAddClient, SInv, TokenInv, ClientToken
<1>2. /\ net'[<<"order", "client">>] = <<"info">>
      /\ net'[<<"client", "order">>] = net[<<"client", "order">>]
      /\ \A s \in Servers : net'[<<s, "client">>] = net[<<s, "client">>]
  BY <1>0, <1>1, OrderAddClientMail, Letters, Names DEF Posted, Watched, Peers
<1>3. UNCHANGED <<pc, queues, todo, location, state, storageAddresses, starting>>
  BY DEF OrderAddClient, clientVars, peerVars
<1>4. \A x : Disconnected(x)' <=> Disconnected(x)
  BY <1>3 DEF Disconnected
<1>5. Gone' <=> Gone
  BY <1>3, <1>4 DEF Gone
<1>6. net'[<<"order", "client">>] \notin Farewell
  BY <1>2, Letters DEF Farewell
<1>7. QED
  BY <1>2, <1>3, <1>4, <1>5, <1>6 DEF SInv, ClientInv

(* The ordering service takes the farewell, which was sent when every      *)
(* server had disconnected the client.                                     *)
LEMMA OrderClientFinishedClient ==
  ASSUME Setting, SInv, OrderClientFinished
  PROVE  ClientInv'
<1>0. Types
  BY DEF SInv
<1>1. Gone
  BY DEF SInv, ClientInv, OrderClientFinished, Arrived
<1>2. \A s \in Servers : net'[<<s, "client">>] = net[<<s, "client">>]
  BY <1>0, OrderClientFinishedMail, Names DEF Watched, Peers
<1>3. UNCHANGED <<pc, queues, todo, location, state, storageAddresses, starting>>
  BY DEF OrderClientFinished, clientVars, peerVars
<1>4. \A x : Disconnected(x)' <=> Disconnected(x)
  BY <1>3 DEF Disconnected
<1>5. Gone'
  BY <1>1, <1>3, <1>4 DEF Gone
<1>6. pc["client"] # "off"
  BY DEF SInv, ClientInv, OrderClientFinished, Arrived
<1>7. QED
  BY <1>2, <1>3, <1>4, <1>5, <1>6 DEF SInv, ClientInv

(* The client starts anew: the servers have disconnected the former one.   *)
LEMMA StartClient ==
  ASSUME Setting, SInv, NEW p \in Peers, Start(p)
  PROVE  ClientInv'
<1>0. Types
  BY DEF SInv
<1>1. UNCHANGED <<queues, todo, net, location, state, storageAddresses, starting>>
  BY DEF Start, clientVars
<1>2. \A x : Disconnected(x)' <=> Disconnected(x)
  BY <1>1 DEF Disconnected
<1>3. Gone' <=> Gone
  BY <1>1, <1>2 DEF Gone
<1>4. CASE p = "subscriber"
  <2>1. pc'["client"] = pc["client"]
    BY <1>0, <1>4 DEF Start, Types, PeerTypes, Peers
  <2>2. QED
    BY <1>1, <1>2, <1>3, <2>1 DEF SInv, ClientInv
<1>5. CASE p = "client"
  <2>1. pc["client"] \in {"off", "ended"} /\ pc'["client"] = "loop" /\ starting = {}
    BY <1>0, <1>5 DEF Start, Types, PeerTypes, Peers
  <2>2. queues["client"] = {} \/ Gone
    BY <2>1 DEF SInv, ClientInv
  <2>3. (net[<<"client", "order">>] # << >> \/ net[<<"order", "client">>] \in Farewell) => Gone
    BY DEF SInv, ClientInv
  <2>4. \A s \in Servers : net[<<s, "client">>] # << >> => Disconnected(s)
    BY DEF SInv, ClientInv
  <2>5. QED
    BY <1>1, <1>2, <1>3, <2>1, <2>2, <2>3, <2>4 DEF ClientInv, Gone
<1>6. QED
  BY <1>4, <1>5 DEF Peers

(* The client is told of the servers, and connects to them.                *)
LEMMA StorageInfoClient ==
  ASSUME Setting, SInv, NEW p \in Peers, StorageInfo(p)
  PROVE  ClientInv'
<1>0. Types
  BY DEF SInv
<1>1. UNCHANGED <<queues, location, state, storageAddresses, starting>>
  BY DEF StorageInfo, clientVars, orderingVars
<1>2. \A x : Disconnected(x)' <=> Disconnected(x)
  BY <1>1 DEF Disconnected
<1>3. Gone' <=> Gone
  BY <1>1, <1>2 DEF Gone
<1>4. Posted(net', net, <<"order", p>>, Tail(net[<<"order", p>>]))
  BY <1>0, StorageInfoMail
<1>5. /\ net'[<<"client", "order">>] = net[<<"client", "order">>]
      /\ \A s \in Servers : net'[<<s, "client">>] = net[<<s, "client">>]
  BY <1>4, Names DEF Posted, Watched, Peers
<1>6. CASE p = "subscriber"
  <2>1. net'[<<"order", "client">>] = net[<<"order", "client">>]
    BY <1>4, <1>6 DEF Posted, Watched
  <2>2. pc'["client"] = pc["client"] /\ todo'["client"] = todo["client"]
    BY <1>0, <1>6 DEF StorageInfo, Types, PeerTypes, Peers
  <2>3. QED
    BY <1>1, <1>2, <1>3, <1>5, <2>1, <2>2 DEF SInv, ClientInv
<1>7. CASE p = "client"
  <2>1. /\ pc["client"] = "loop" /\ pc'["client"] = "connecting"
        /\ todo'["client"] = storageAddresses
        /\ net[<<"order", "client">>] # << >> /\ Head(net[<<"order", "client">>]) = "info"
    BY <1>0, <1>7 DEF StorageInfo, Types, PeerTypes, Peers, Arrived
  <2>2. net'[<<"order", "client">>] = Tail(net[<<"order", "client">>])
    BY <1>4, <1>7 DEF Posted, Watched
  <2>3. net[<<"order", "client">>] \in Welcome \cup Farewell
    BY Letters DEF SInv, TokenInv, ClientToken, Welcome
  <2>4. net'[<<"order", "client">>] \in Farewell => net[<<"order", "client">>] \in Farewell
    BY <2>1, <2>2, <2>3, Letters DEF Welcome, Farewell
  <2>5. net'[<<"order", "client">>] \in Farewell \/ net'[<<"client", "order">>] # << >> => Gone'
    BY <1>3, <1>5, <2>4 DEF SInv, ClientInv
  <2>6. starting' = {}
    BY <1>1, <2>1 DEF SInv, ClientInv
  <2>7. \A s \in Servers : net'[<<s, "client">>] # << >> => Disconnected(s)'
    BY <1>2, <1>5 DEF SInv, ClientInv
  <2>8. QED
    BY <1>1, <2>1, <2>5, <2>6, <2>7 DEF ClientInv
<1>8. QED
  BY <1>6, <1>7 DEF Peers

(* One server after the other.                                             *)
LEMMA ConnectStorageClient ==
  ASSUME Setting, SInv, NEW p \in Peers, NEW s \in Servers, ConnectStorage(p, s)
  PROVE  ClientInv'
<1>0. Types
  BY DEF SInv
<1>1. UNCHANGED <<net, location, state, storageAddresses, starting>>
  BY DEF ConnectStorage, orderingVars
<1>2. \A x : Disconnected(x)' <=> Disconnected(x)
  BY <1>1 DEF Disconnected
<1>3. Gone' <=> Gone
  BY <1>1, <1>2 DEF Gone
<1>4. CASE p = "subscriber"
  <2>1. /\ pc'["client"] = pc["client"] /\ todo'["client"] = todo["client"]
        /\ queues'["client"] = queues["client"]
    BY <1>0, <1>4 DEF ConnectStorage, Types, PeerTypes, Peers
  <2>2. QED
    BY <1>1, <1>2, <1>3, <2>1 DEF SInv, ClientInv
<1>5. CASE p = "client"
  <2>1. /\ pc["client"] = "connecting" /\ todo'["client"] = todo["client"] \ {s}
        /\ queues'["client"] = queues["client"] \cup {s}
        /\ pc'["client"] = IF todo["client"] = {s} THEN "loop" ELSE "connecting"
    BY <1>0, <1>5 DEF ConnectStorage, Types, PeerTypes, Peers
  <2>2. \A x \in storageAddresses :
          x \in todo["client"] \/ x \in queues["client"] \/ Disconnected(x)
    BY <2>1 DEF SInv, ClientInv
  <2>3. \A x \in storageAddresses' :
          x \in todo'["client"] \/ x \in queues'["client"] \/ Disconnected(x)'
    BY <1>1, <1>2, <2>1, <2>2
  <2>4. pc'["client"] = "loop" =>
          \A x \in storageAddresses' : x \in queues'["client"] \/ Disconnected(x)'
    BY <2>1, <2>3
  <2>5. net'[<<"order", "client">>] \in Farewell \/ net'[<<"client", "order">>] # << >> => Gone'
    BY <1>1, <1>3 DEF SInv, ClientInv
  <2>6. starting' = {}
    BY <1>1, <2>1 DEF SInv, ClientInv
  <2>7. \A x \in Servers : net'[<<x, "client">>] # << >> => Disconnected(x)'
    BY <1>1, <1>2 DEF SInv, ClientInv
  <2>8. QED
    BY <2>1, <2>3, <2>4, <2>5, <2>6, <2>7 DEF ClientInv
<1>6. QED
  BY <1>4, <1>5 DEF Peers

(* The last farewell of the servers makes the client send its own to the   *)
(* ordering service.                                                       *)
LEMMA ClientStorageFinishedClient ==
  ASSUME Setting, SInv, NEW s \in Servers, ClientStorageFinished(s)
  PROVE  ClientInv'
<1>0. Types
  BY DEF SInv
<1>1. UNCHANGED <<pc, todo, location, state, storageAddresses, starting>>
  BY DEF ClientStorageFinished, clientVars, orderingVars
<1>2. \A x : Disconnected(x)' <=> Disconnected(x)
  BY <1>1 DEF Disconnected
<1>3. Gone' <=> Gone
  BY <1>1, <1>2 DEF Gone
<1>4. /\ pc["client"] = "loop" /\ queues'["client"] = queues["client"] \ {s}
      /\ net[<<s, "client">>] # << >>
  BY <1>0 DEF ClientStorageFinished, Arrived, Types, PeerTypes, Peers
<1>5. Disconnected(s)
  BY <1>4 DEF SInv, ClientInv
<1>6. /\ \A x \in Servers \ {s} : net'[<<x, "client">>] = net[<<x, "client">>]
      /\ net'[<<"order", "client">>] = net[<<"order", "client">>]
      /\ net'[<<"client", "order">>] = IF queues["client"] = {s}
           THEN Append(net[<<"client", "order">>], "bye") ELSE net[<<"client", "order">>]
  BY <1>0, ClientStorageFinishedMail, Names DEF Watched, Peers
<1>7. net'[<<"client", "order">>] # << >> => Gone'
  <2>1. CASE queues["client"] = {s}
    BY <1>3, <1>4, <1>5, <2>1 DEF SInv, ClientInv, Gone
  <2>2. CASE queues["client"] # {s}
    BY <1>3, <1>6, <2>2 DEF SInv, ClientInv
  <2>3. QED
    BY <2>1, <2>2
<1>8. net'[<<"order", "client">>] \in Farewell => Gone'
  BY <1>3, <1>6 DEF SInv, ClientInv
<1>9. \A x \in Servers : net'[<<x, "client">>] # << >> => Disconnected(x)'
  BY <1>2, <1>5, <1>6 DEF SInv, ClientInv
<1>10. queues'["client"] # {} =>
         \A x \in storageAddresses' : x \in queues'["client"] \/ Disconnected(x)'
  <2>1. SUFFICES ASSUME queues'["client"] # {}, NEW x \in storageAddresses'
                 PROVE  x \in queues'["client"] \/ Disconnected(x)'
    OBVIOUS
  <2>2. x \in storageAddresses /\ queues["client"] # {}
    BY <1>1, <1>4, <2>1
  <2>3. x \in queues["client"] \/ Disconnected(x)
    BY <1>4, <2>2 DEF SInv, ClientInv
  <2>4. QED
    BY <1>2, <1>4, <1>5, <2>3
<1>11. starting' = {}
  BY <1>1, <1>4 DEF SInv, ClientInv
<1>12. QED
  BY <1>1, <1>4, <1>7, <1>8, <1>9, <1>10, <1>11 DEF ClientInv

(* The client ends.                                                        *)
LEMMA ClientOrderFinishedClient ==
  ASSUME Setting, SInv, ClientOrderFinished
  PROVE  ClientInv'
<1>0. Types
  BY DEF SInv
<1>1. UNCHANGED <<queues, todo, location, state, storageAddresses, starting>>
  BY DEF ClientOrderFinished, clientVars, orderingVars
<1>2. \A x : Disconnected(x)' <=> Disconnected(x)
  BY <1>1 DEF Disconnected
<1>3. /\ pc["client"] = "loop" /\ pc'["client"] = "ended"
      /\ net[<<"order", "client">>] # << >>
      /\ Head(net[<<"order", "client">>]) = "order_finished"
  BY <1>0 DEF ClientOrderFinished, Arrived, Types, PeerTypes, Peers
<1>4. net[<<"order", "client">>] \in Farewell
  BY <1>3, Letters DEF SInv, TokenInv, ClientToken, Welcome, Farewell
<1>5. Gone'
  BY <1>1, <1>2, <1>4 DEF SInv, ClientInv, Gone
<1>6. \A x \in Servers : net'[<<x, "client">>] = net[<<x, "client">>]
  BY <1>0, ClientOrderFinishedMail, Names DEF Posted, Watched, Peers
<1>7. \A x \in Servers : net'[<<x, "client">>] # << >> => Disconnected(x)'
  BY <1>2, <1>6 DEF SInv, ClientInv
<1>8. starting' = {}
  BY <1>1, <1>3 DEF SInv, ClientInv
<1>9. QED
  BY <1>3, <1>5, <1>7, <1>8 DEF ClientInv

(* The client crashes.                                                     *)
LEMMA CrashClient ==
  ASSUME Setting, SInv, Crash
  PROVE  ClientInv'
<1>1. UNCHANGED <<queues, todo, location, state, storageAddresses, starting, net>>
  BY DEF Crash, clientVars, orderingVars
<1>2. \A x : Disconnected(x)' <=> Disconnected(x)
  BY <1>1 DEF Disconnected
<1>3. Gone' <=> Gone
  BY <1>1, <1>2 DEF Gone
<1>4. pc["client"] \in {"loop", "connecting"} /\ pc'["client"] = "crashed"
  BY DEF Crash, SInv, Types, PeerTypes, Peers
<1>5. QED
  BY <1>1, <1>2, <1>3, <1>4 DEF SInv, ClientInv

(* A server answers the client once it has disconnected it.                *)
LEMMA StorageClientFinishedClient ==
  ASSUME Setting, SInv, NEW s \in Servers, StorageClientFinished(s)
  PROVE  ClientInv'
<1>0. Types /\ ObjInv
  BY DEF SInv
<1>1. /\ UNCHANGED <<pc, queues, todo, location, storageAddresses, starting>>
      /\ thread[s]["client"].obj # "null"
  BY DEF StorageClientFinished, Has, orderingVars, peerVars
<1>2. Marked(state') /\ state'[s][thread[s]["client"].obj].disconnected
  BY <1>0, StorageClientFinishedThreads
<1>3. Kept
  BY <1>0, <1>1, <1>2, MarkedKept
<1>4. thread[s]["client"].obj = location[s]
  BY <1>0, <1>1 DEF ObjInv, Waiters
<1>5. Disconnected(s)'
  BY <1>1, <1>2, <1>4 DEF Disconnected
<1>6. /\ net'[<<"client", "order">>] = net[<<"client", "order">>]
      /\ net'[<<"order", "client">>] = net[<<"order", "client">>]
      /\ \A x \in Servers \ {s} : net'[<<x, "client">>] = net[<<x, "client">>]
  BY <1>0, StorageClientFinishedMail, Names DEF Posted, Unposted, Watched, Peers
<1>7. storageAddresses \subseteq Servers
  BY <1>0 DEF Types, OrderTypes
<1>8. Gone => Gone'
  BY <1>1, <1>3, <1>7 DEF Gone, Kept
<1>9. \A x \in Servers : net'[<<x, "client">>] # << >> => Disconnected(x)'
  BY <1>3, <1>5, <1>6 DEF SInv, ClientInv, Kept
<1>10. pc'["client"] = "loop" /\ queues'["client"] # {} =>
         \A x \in storageAddresses' : x \in queues'["client"] \/ Disconnected(x)'
  BY <1>1, <1>3, <1>7 DEF SInv, ClientInv, Kept
<1>11. pc'["client"] = "connecting" =>
         \A x \in storageAddresses' :
           x \in todo'["client"] \/ x \in queues'["client"] \/ Disconnected(x)'
  BY <1>1, <1>3, <1>7 DEF SInv, ClientInv, Kept
<1>12. QED
  BY <1>1, <1>6, <1>8, <1>9, <1>10, <1>11 DEF SInv, ClientInv

(* Every step keeps the invariant of the client.                           *)
LEMMA NextClient ==
  ASSUME Setting, SInv, [SessionsNext]_sessionVars
  PROVE  ObjInv' /\ ClientInv'
<1>0. Types /\ ObjInv /\ ClientInv
  BY DEF SInv
<1> USE DEF Idle, Waiters
<1>1. ASSUME NEW s \in Servers, AddStorage(s) PROVE ObjInv' /\ ClientInv'
  <2>1. ObjInv'
    BY <1>0, <1>1 DEF AddStorage, ObjInv, clientVars
  <2>2. ClientInv'
    BY <1>1, AddStorageClient
  <2>3. QED
    BY <2>1, <2>2
<1>2. CASE OrderAddClient
  <2>1. ObjInv'
    BY <1>0, <1>2 DEF OrderAddClient, ObjInv, clientVars
  <2>2. ClientInv'
    BY <1>2, OrderAddClientClient
  <2>3. QED
    BY <2>1, <2>2
<1>3. CASE OrderAddSubscriber
  <2>1. ObjInv'
    BY <1>0, <1>3 DEF OrderAddSubscriber, ObjInv, clientVars
  <2>2. Kept
    BY <1>3 DEF OrderAddSubscriber, Kept, Disconnected, clientVars
  <2>3. /\ net'[<<"client", "order">>] = net[<<"client", "order">>]
        /\ net'[<<"order", "client">>] = net[<<"order", "client">>]
        /\ \A x \in Servers : net'[<<x, "client">>] = net[<<x, "client">>]
    BY <1>0, <1>3, OrderAddSubscriberMail, Names DEF OrderAddSubscriber, Posted, Unposted,
      Watched, Peers
  <2>4. ClientFrame
    BY <1>0, <1>3, <2>3 DEF OrderAddSubscriber, ClientFrame, Types, PeerTypes, Peers,
      orderingVars, peerVars
  <2>5. QED
    BY <1>0, <2>1, <2>2, <2>4, FrameClient
<1>4. CASE OrderFailureEvent
  <2>1. ObjInv'
    BY <1>0, <1>4 DEF OrderFailureEvent, ObjInv, clientVars
  <2>2. Kept
    BY <1>4 DEF OrderFailureEvent, Kept, Disconnected, clientVars
  <2>3. /\ net'[<<"client", "order">>] = net[<<"client", "order">>]
        /\ net'[<<"order", "client">>] = net[<<"order", "client">>]
        /\ \A x \in Servers : net'[<<x, "client">>] = net[<<x, "client">>]
    BY <1>0, <1>4, QuietSteps, Names DEF OrderFailureEvent, Posted, Unposted, Watched, Peers
  <2>4. ClientFrame
    BY <1>0, <1>4, <2>3 DEF OrderFailureEvent, ClientFrame, Types, PeerTypes, Peers,
      orderingVars, peerVars
  <2>5. QED
    BY <1>0, <2>1, <2>2, <2>4, FrameClient
<1>5. ASSUME NEW s \in Servers, OrderClientFreeze(s) PROVE ObjInv' /\ ClientInv'
  <2>1. ObjInv'
    BY <1>0, <1>5 DEF OrderClientFreeze, ObjInv, clientVars
  <2>2. Kept
    BY <1>5 DEF OrderClientFreeze, Kept, Disconnected, clientVars
  <2>3. /\ net'[<<"client", "order">>] = net[<<"client", "order">>]
        /\ net'[<<"order", "client">>] = net[<<"order", "client">>]
        /\ \A x \in Servers : net'[<<x, "client">>] = net[<<x, "client">>]
    BY <1>0, <1>5, QuietSteps, Names DEF OrderClientFreeze, Posted, Unposted, Watched, Peers
  <2>4. ClientFrame
    BY <1>0, <1>5, <2>3 DEF OrderClientFreeze, ClientFrame, Types, PeerTypes, Peers,
      orderingVars, peerVars
  <2>5. QED
    BY <1>0, <2>1, <2>2, <2>4, FrameClient
<1>6. ASSUME NEW s \in Servers, OrderClientCut(s) PROVE ObjInv' /\ ClientInv'
  <2>1. ObjInv'
    BY <1>0, <1>6 DEF OrderClientCut, ObjInv, clientVars
  <2>2. Kept
    BY <1>6 DEF OrderClientCut, Kept, Disconnected, clientVars
  <2>3. /\ net'[<<"client", "order">>] = net[<<"client", "order">>]
        /\ net'[<<"order", "client">>] = net[<<"order", "client">>]
        /\ \A x \in Servers : net'[<<x, "client">>] = net[<<x, "client">>]
    BY <1>0, <1>6, QuietSteps, Names DEF OrderClientCut, Posted, Unposted, Watched, Peers
  <2>4. ClientFrame
    BY <1>0, <1>6, <2>3 DEF OrderClientCut, ClientFrame, Types, PeerTypes, Peers,
      orderingVars, peerVars
  <2>5. QED
    BY <1>0, <2>1, <2>2, <2>4, FrameClient
<1>7. CASE OrderClientFinished
  <2>1. ObjInv'
    BY <1>0, <1>7 DEF OrderClientFinished, ObjInv, clientVars
  <2>2. ClientInv'
    BY <1>7, OrderClientFinishedClient
  <2>3. QED
    BY <2>1, <2>2
<1>8. CASE OrderSubscriberFinished
  <2>1. ObjInv'
    BY <1>0, <1>8 DEF OrderSubscriberFinished, ObjInv, clientVars
  <2>2. Kept
    BY <1>8 DEF OrderSubscriberFinished, Kept, Disconnected, clientVars
  <2>3. /\ net'[<<"client", "order">>] = net[<<"client", "order">>]
        /\ net'[<<"order", "client">>] = net[<<"order", "client">>]
        /\ \A x \in Servers : net'[<<x, "client">>] = net[<<x, "client">>]
    BY <1>0, <1>8, OrderSubscriberFinishedMail, Names DEF OrderSubscriberFinished, Posted,
      Unposted, Watched, Peers
  <2>4. ClientFrame
    BY <1>0, <1>8, <2>3 DEF OrderSubscriberFinished, ClientFrame, Types, PeerTypes, Peers,
      orderingVars, peerVars
  <2>5. QED
    BY <1>0, <2>1, <2>2, <2>4, FrameClient
<1>9. ASSUME NEW p \in Peers, Start(p) PROVE ObjInv' /\ ClientInv'
  <2>1. ObjInv'
    BY <1>0, <1>9 DEF Start, ObjInv, clientVars
  <2>2. ClientInv'
    BY <1>9, StartClient
  <2>3. QED
    BY <2>1, <2>2
<1>10. ASSUME NEW p \in Peers, StorageInfo(p) PROVE ObjInv' /\ ClientInv'
  <2>1. ObjInv'
    BY <1>0, <1>10 DEF StorageInfo, ObjInv, clientVars
  <2>2. ClientInv'
    BY <1>10, StorageInfoClient
  <2>3. QED
    BY <2>1, <2>2
<1>11. ASSUME NEW p \in Peers, NEW s \in Servers, ConnectStorage(p, s) PROVE ObjInv' /\ ClientInv'
  <2>1. ObjInv'
    BY <1>0, <1>11, ConnectStorageThreads, WorksObj DEF ConnectStorage, ObjInv, clientVars
  <2>2. ClientInv'
    BY <1>11, ConnectStorageClient
  <2>3. QED
    BY <2>1, <2>2
<1>12. ASSUME NEW p \in Peers, Stop(p) PROVE ObjInv' /\ ClientInv'
  <2>1. ObjInv'
    BY <1>0, <1>12 DEF Stop, ObjInv, clientVars
  <2>2. Kept
    BY <1>12 DEF Stop, Kept, Disconnected, clientVars
  <2>3. /\ net'[<<"client", "order">>] = net[<<"client", "order">>]
        /\ net'[<<"order", "client">>] = net[<<"order", "client">>]
        /\ \A x \in Servers : net'[<<x, "client">>] = net[<<x, "client">>]
    BY <1>12 DEF Stop
  <2>4. ClientFrame
    BY <1>0, <1>12, <2>3 DEF Stop, ClientFrame, Types, PeerTypes, Peers, orderingVars,
      peerVars
  <2>5. QED
    BY <1>0, <2>1, <2>2, <2>4, FrameClient
<1>13. ASSUME NEW p \in Peers, SendBye(p) PROVE ObjInv' /\ ClientInv'
  <2>1. ObjInv'
    BY <1>0, <1>13 DEF SendBye, ObjInv, clientVars
  <2>2. Kept
    BY <1>13 DEF SendBye, Kept, Disconnected, clientVars
  <2>3. /\ net'[<<"client", "order">>] = net[<<"client", "order">>]
        /\ net'[<<"order", "client">>] = net[<<"order", "client">>]
        /\ \A x \in Servers : net'[<<x, "client">>] = net[<<x, "client">>]
    BY <1>0, <1>13, QuietSteps, Names DEF SendBye, Posted, Unposted, Watched, Peers
  <2>4. ClientFrame
    BY <1>0, <1>13, <2>3 DEF SendBye, ClientFrame, Types, PeerTypes, Peers, orderingVars,
      peerVars
  <2>5. QED
    BY <1>0, <2>1, <2>2, <2>4, FrameClient
<1>14. ASSUME NEW s \in Servers, ClientStorageFinished(s) PROVE ObjInv' /\ ClientInv'
  <2>1. ObjInv'
    BY <1>0, <1>14 DEF ClientStorageFinished, ObjInv, clientVars
  <2>2. ClientInv'
    BY <1>14, ClientStorageFinishedClient
  <2>3. QED
    BY <2>1, <2>2
<1>15. CASE ClientOrderFinished
  <2>1. ObjInv'
    BY <1>0, <1>15 DEF ClientOrderFinished, ObjInv, clientVars
  <2>2. ClientInv'
    BY <1>15, ClientOrderFinishedClient
  <2>3. QED
    BY <2>1, <2>2
<1>16. ASSUME NEW s \in Servers, SubscriberStorageFinished(s) PROVE ObjInv' /\ ClientInv'
  <2>1. ObjInv'
    BY <1>0, <1>16 DEF SubscriberStorageFinished, ObjInv, clientVars
  <2>2. Kept
    BY <1>16 DEF SubscriberStorageFinished, Kept, Disconnected, clientVars
  <2>3. /\ net'[<<"client", "order">>] = net[<<"client", "order">>]
        /\ net'[<<"order", "client">>] = net[<<"order", "client">>]
        /\ \A x \in Servers : net'[<<x, "client">>] = net[<<x, "client">>]
    BY <1>0, <1>16, SubscriberStorageFinishedMail, Names DEF SubscriberStorageFinished,
      Posted, Unposted, Watched, Peers
  <2>4. ClientFrame
    BY <1>0, <1>16, <2>3 DEF SubscriberStorageFinished, ClientFrame, Types, PeerTypes,
      Peers, orderingVars, peerVars
  <2>5. QED
    BY <1>0, <2>1, <2>2, <2>4, FrameClient
<1>17. CASE SubscriberOrderFinished
  <2>1. ObjInv'
    BY <1>0, <1>17 DEF SubscriberOrderFinished, ObjInv, clientVars
  <2>2. Kept
    BY <1>17 DEF SubscriberOrderFinished, Kept, Disconnected, clientVars
  <2>3. /\ net'[<<"client", "order">>] = net[<<"client", "order">>]
        /\ net'[<<"order", "client">>] = net[<<"order", "client">>]
        /\ \A x \in Servers : net'[<<x, "client">>] = net[<<x, "client">>]
    BY <1>0, <1>17, SubscriberOrderFinishedMail, Names DEF SubscriberOrderFinished, Posted,
      Unposted, Watched, Peers
  <2>4. ClientFrame
    BY <1>0, <1>17, <2>3 DEF SubscriberOrderFinished, ClientFrame, Types, PeerTypes,
      Peers, orderingVars, peerVars
  <2>5. QED
    BY <1>0, <2>1, <2>2, <2>4, FrameClient
<1>18. CASE Crash
  <2>1. ObjInv'
    BY <1>0, <1>18 DEF Crash, ObjInv, clientVars
  <2>2. ClientInv'
    BY <1>18, CrashClient
  <2>3. QED
    BY <2>1, <2>2
<1>19. ASSUME NEW m \in Nodes, RaiseEvent(m) PROVE ObjInv' /\ ClientInv'
  <2>1. ObjInv'
    BY <1>0, <1>19 DEF RaiseEvent, ObjInv, clientVars
  <2>2. Kept
    BY <1>19 DEF RaiseEvent, Kept, Disconnected, clientVars
  <2>3. /\ net'[<<"client", "order">>] = net[<<"client", "order">>]
        /\ net'[<<"order", "client">>] = net[<<"order", "client">>]
        /\ \A x \in Servers : net'[<<x, "client">>] = net[<<x, "client">>]
    BY <1>19 DEF RaiseEvent
  <2>4. ClientFrame
    BY <1>0, <1>19, <2>3 DEF RaiseEvent, ClientFrame, Types, PeerTypes, Peers,
      orderingVars, peerVars
  <2>5. QED
    BY <1>0, <2>1, <2>2, <2>4, FrameClient
<1>20. ASSUME NEW m \in Nodes, PollEvents(m) PROVE ObjInv' /\ ClientInv'
  <2>1. ObjInv'
    BY <1>0, <1>20 DEF PollEvents, ObjInv, clientVars
  <2>2. Kept
    BY <1>20 DEF PollEvents, Kept, Disconnected, clientVars
  <2>3. /\ net'[<<"client", "order">>] = net[<<"client", "order">>]
        /\ net'[<<"order", "client">>] = net[<<"order", "client">>]
        /\ \A x \in Servers : net'[<<x, "client">>] = net[<<x, "client">>]
    BY <1>20 DEF PollEvents
  <2>4. ClientFrame
    BY <1>0, <1>20, <2>3 DEF PollEvents, ClientFrame, Types, PeerTypes, Peers,
      orderingVars, peerVars
  <2>5. QED
    BY <1>0, <2>1, <2>2, <2>4, FrameClient
<1>21. ASSUME NEW s \in Servers, NEW t \in Waiters, GetClientState(s, t) PROVE ObjInv' /\ ClientInv'
  <2>1. ObjInv'
    BY <1>0, <1>21, GetClientStateObj
  <2>2. Kept
    BY <1>0, <1>21, GetClientStateKept
  <2>3. /\ net'[<<"client", "order">>] = net[<<"client", "order">>]
        /\ net'[<<"order", "client">>] = net[<<"order", "client">>]
        /\ \A x \in Servers : net'[<<x, "client">>] = net[<<x, "client">>]
    BY <1>21 DEF GetClientState
  <2>4. ClientFrame
    BY <1>0, <1>21, <2>3 DEF GetClientState, ClientFrame, Types, PeerTypes, Peers,
      orderingVars, peerVars
  <2>5. QED
    BY <1>0, <2>1, <2>2, <2>4, FrameClient
<1>22. ASSUME NEW s \in Servers, StorageAddClient(s) PROVE ObjInv' /\ ClientInv'
  <2>1. ObjInv'
    BY <1>0, <1>22, AddClientThreads, WorksObj DEF StorageAddClient, ObjInv, clientVars
  <2>2. Kept
    BY <1>0, <1>22, AddClientThreads, MarkedKept DEF StorageAddClient
  <2>3. /\ net'[<<"client", "order">>] = net[<<"client", "order">>]
        /\ net'[<<"order", "client">>] = net[<<"order", "client">>]
        /\ \A x \in Servers : net'[<<x, "client">>] = net[<<x, "client">>]
    BY <1>22 DEF StorageAddClient
  <2>4. ClientFrame
    BY <1>0, <1>22, <2>3 DEF StorageAddClient, ClientFrame, Types, PeerTypes, Peers,
      orderingVars, peerVars
  <2>5. QED
    BY <1>0, <2>1, <2>2, <2>4, FrameClient
<1>23. ASSUME NEW s \in Servers, NEW t \in Waiters, Sleep(s, t) PROVE ObjInv' /\ ClientInv'
  <2>1. ObjInv'
    <3>1. PICK w : Works(thread', s, t, w) /\ w.obj = thread[s][t].obj
      BY <1>0, <1>23, SleepThreads
    <3>2. UNCHANGED location /\ w.obj \in {"null", location[s]}
      BY <1>0, <1>23, <3>1 DEF Sleep, ObjInv, clientVars
    <3>3. QED
      BY <1>0, <3>1, <3>2, WorksObj
  <2>2. Kept
    BY <1>23 DEF Sleep, Kept, Disconnected, clientVars
  <2>3. /\ net'[<<"client", "order">>] = net[<<"client", "order">>]
        /\ net'[<<"order", "client">>] = net[<<"order", "client">>]
        /\ \A x \in Servers : net'[<<x, "client">>] = net[<<x, "client">>]
    BY <1>23 DEF Sleep
  <2>4. ClientFrame
    BY <1>0, <1>23, <2>3 DEF Sleep, ClientFrame, Types, PeerTypes, Peers, orderingVars,
      peerVars
  <2>5. QED
    BY <1>0, <2>1, <2>2, <2>4, FrameClient
<1>24. ASSUME NEW s \in Servers, TakeFailure(s) PROVE ObjInv' /\ ClientInv'
  <2>1. ObjInv'
    BY <1>0, <1>24, TakeFailureThreads, WorksObj DEF TakeFailure, ObjInv, clientVars
  <2>2. Kept
    BY <1>24 DEF TakeFailure, Kept, Disconnected, clientVars
  <2>3. /\ net'[<<"client", "order">>] = net[<<"client", "order">>]
        /\ net'[<<"order", "client">>] = net[<<"order", "client">>]
        /\ \A x \in Servers : net'[<<x, "client">>] = net[<<x, "client">>]
    BY <1>24 DEF TakeFailure
  <2>4. ClientFrame
    BY <1>0, <1>24, <2>3 DEF TakeFailure, ClientFrame, Types, PeerTypes, Peers,
      orderingVars, peerVars
  <2>5. QED
    BY <1>0, <2>1, <2>2, <2>4, FrameClient
<1>25. ASSUME NEW s \in Servers, TakeFromOrder(s) PROVE ObjInv' /\ ClientInv'
  <2>1. ObjInv'
    BY <1>0, <1>25, TakeFromOrderThreads, WorksObj DEF TakeFromOrder, ObjInv, clientVars
  <2>2. Kept
    BY <1>25 DEF TakeFromOrder, Kept, Disconnected, clientVars
  <2>3. /\ net'[<<"client", "order">>] = net[<<"client", "order">>]
        /\ net'[<<"order", "client">>] = net[<<"order", "client">>]
        /\ \A x \in Servers : net'[<<x, "client">>] = net[<<x, "client">>]
    BY <1>0, <1>25, QuietSteps, Names DEF TakeFromOrder, Posted, Unposted, Watched, Peers
  <2>4. ClientFrame
    BY <1>0, <1>25, <2>3 DEF TakeFromOrder, ClientFrame, Types, PeerTypes, Peers,
      orderingVars, peerVars
  <2>5. QED
    BY <1>0, <2>1, <2>2, <2>4, FrameClient
<1>26. ASSUME NEW s \in Servers, Disconnect(s) PROVE ObjInv' /\ ClientInv'
  <2>1. ObjInv'
    BY <1>0, <1>26, DisconnectThreads, WorksObj DEF Disconnect, ObjInv, clientVars
  <2>2. Kept
    BY <1>0, <1>26, DisconnectThreads, MarkedKept DEF Disconnect
  <2>3. /\ net'[<<"client", "order">>] = net[<<"client", "order">>]
        /\ net'[<<"order", "client">>] = net[<<"order", "client">>]
        /\ \A x \in Servers : net'[<<x, "client">>] = net[<<x, "client">>]
    BY <1>0, <1>26, QuietSteps, Names DEF Disconnect, Posted, Unposted, Watched, Peers
  <2>4. ClientFrame
    BY <1>0, <1>26, <2>3 DEF Disconnect, ClientFrame, Types, PeerTypes, Peers,
      orderingVars, peerVars
  <2>5. QED
    BY <1>0, <2>1, <2>2, <2>4, FrameClient
<1>27. ASSUME NEW s \in Servers, Finalize(s) PROVE ObjInv' /\ ClientInv'
  <2>1. ObjInv'
    BY <1>0, <1>27, FinalizeThreads, WorksObj DEF Finalize, ObjInv, clientVars
  <2>2. Kept
    BY <1>0, <1>27, FinalizeThreads, MarkedKept DEF Finalize
  <2>3. /\ net'[<<"client", "order">>] = net[<<"client", "order">>]
        /\ net'[<<"order", "client">>] = net[<<"order", "client">>]
        /\ \A x \in Servers : net'[<<x, "client">>] = net[<<x, "client">>]
    BY <1>27 DEF Finalize
  <2>4. ClientFrame
    BY <1>0, <1>27, <2>3 DEF Finalize, ClientFrame, Types, PeerTypes, Peers,
      orderingVars, peerVars
  <2>5. QED
    BY <1>0, <2>1, <2>2, <2>4, FrameClient
<1>28. ASSUME NEW s \in Servers, TakeFromClient(s) PROVE ObjInv' /\ ClientInv'
  <2>1. ObjInv'
    BY <1>0, <1>28, TakeFromClientThreads, WorksObj DEF TakeFromClient, ObjInv, clientVars
  <2>2. Kept
    BY <1>28 DEF TakeFromClient, Kept, Disconnected, clientVars
  <2>3. /\ net'[<<"client", "order">>] = net[<<"client", "order">>]
        /\ net'[<<"order", "client">>] = net[<<"order", "client">>]
        /\ \A x \in Servers : net'[<<x, "client">>] = net[<<x, "client">>]
    BY <1>0, <1>28, QuietSteps, Names DEF TakeFromClient, Posted, Unposted, Watched, Peers
  <2>4. ClientFrame
    BY <1>0, <1>28, <2>3 DEF TakeFromClient, ClientFrame, Types, PeerTypes, Peers,
      orderingVars, peerVars
  <2>5. QED
    BY <1>0, <2>1, <2>2, <2>4, FrameClient
<1>29. ASSUME NEW s \in Servers, StorageClientFinished(s) PROVE ObjInv' /\ ClientInv'
  <2>1. ObjInv'
    BY <1>0, <1>29, StorageClientFinishedThreads, WorksObj DEF StorageClientFinished, ObjInv,
      clientVars
  <2>2. ClientInv'
    BY <1>29, StorageClientFinishedClient
  <2>3. QED
    BY <2>1, <2>2
<1>30. ASSUME NEW s \in Servers, StorageAddSubscriber(s) PROVE ObjInv' /\ ClientInv'
  <2>1. ObjInv'
    BY <1>0, <1>30, StorageAddSubscriberThreads, WorksObj DEF StorageAddSubscriber, ObjInv,
      clientVars
  <2>2. Kept
    BY <1>30 DEF StorageAddSubscriber, Kept, Disconnected, clientVars
  <2>3. /\ net'[<<"client", "order">>] = net[<<"client", "order">>]
        /\ net'[<<"order", "client">>] = net[<<"order", "client">>]
        /\ \A x \in Servers : net'[<<x, "client">>] = net[<<x, "client">>]
    BY <1>30 DEF StorageAddSubscriber
  <2>4. ClientFrame
    BY <1>0, <1>30, <2>3 DEF StorageAddSubscriber, ClientFrame, Types, PeerTypes, Peers,
      orderingVars, peerVars
  <2>5. QED
    BY <1>0, <2>1, <2>2, <2>4, FrameClient
<1>31. ASSUME NEW s \in Servers, StorageSubscriberFinished(s) PROVE ObjInv' /\ ClientInv'
  <2>1. ObjInv'
    BY <1>0, <1>31 DEF StorageSubscriberFinished, ObjInv, clientVars
  <2>2. Kept
    BY <1>31 DEF StorageSubscriberFinished, Kept, Disconnected, clientVars
  <2>3. /\ net'[<<"client", "order">>] = net[<<"client", "order">>]
        /\ net'[<<"order", "client">>] = net[<<"order", "client">>]
        /\ \A x \in Servers : net'[<<x, "client">>] = net[<<x, "client">>]
    BY <1>0, <1>31, QuietSteps, Names DEF StorageSubscriberFinished, Posted, Unposted,
      Watched, Peers
  <2>4. ClientFrame
    BY <1>0, <1>31, <2>3 DEF StorageSubscriberFinished, ClientFrame, Types, PeerTypes,
      Peers, orderingVars, peerVars
  <2>5. QED
    BY <1>0, <2>1, <2>2, <2>4, FrameClient
<1>32. ASSUME NEW s \in Servers, NEW k \in Threads, GetChange(s, k) PROVE ObjInv' /\ ClientInv'
  <2>1. ObjInv'
    BY <1>0, <1>32 DEF GetChange, ObjInv, clientVars
  <2>2. Kept
    BY <1>32 DEF GetChange, Kept, Disconnected, clientVars
  <2>3. /\ net'[<<"client", "order">>] = net[<<"client", "order">>]
        /\ net'[<<"order", "client">>] = net[<<"order", "client">>]
        /\ \A x \in Servers : net'[<<x, "client">>] = net[<<x, "client">>]
    BY <1>0, <1>32, GetChangeMail, Names DEF GetChange, Posted, Unposted, Watched, Peers
  <2>4. ClientFrame
    BY <1>0, <1>32, <2>3 DEF GetChange, ClientFrame, Types, PeerTypes, Peers,
      orderingVars, peerVars
  <2>5. QED
    BY <1>0, <2>1, <2>2, <2>4, FrameClient
<1>33. CASE UNCHANGED sessionVars
  <2>1. ClientFrame /\ Kept /\ ObjInv'
    BY <1>0, <1>33 DEF sessionVars, ClientFrame, Kept, Disconnected, ObjInv, orderingVars,
      clientVars, peerVars
  <2>2. QED
    BY <1>0, <2>1, FrameClient
<1>34. QED
  BY <1>1, <1>2, <1>3, <1>4, <1>5, <1>6, <1>7, <1>8, <1>9, <1>10, <1>11, <1>12, <1>13, <1>14,
    <1>15, <1>16, <1>17, <1>18, <1>19, <1>20, <1>21, <1>22, <1>23, <1>24, <1>25, <1>26, <1>27,
    <1>28, <1>29, <1>30, <1>31, <1>32, <1>33 DEF SessionsNext, OrderMain, OrderLoop,
    ClientLoop, SubscriberControl, PeerLoop,
    Main, Control, ClientThread, Peers

-----------------------------------------------------------------------------
(* The theorem *)

(* The invariant holds at the start ...                                    *)
LEMMA InitSessions ==
  ASSUME Setting, SessionsInit
  PROVE  SInv
<1>1. PICK d \in Deployments : starting = d.servers
  BY DEF SessionsInit
<1>2. d.servers \subseteq Servers
  BY <1>1 DEF Setting
<1>3. net = [c \in Ports \X Ports |-> << >>]
  BY DEF SessionsInit, Ports
<1>4. net \in Mailboxes
  BY <1>3 DEF Mailboxes
<1>5. \A x, y \in Ports : net[<<x, y>>] = << >>
  BY <1>3
<1>6. /\ net[<<"order", "subscriber">>] = << >> /\ net[<<"order", "client">>] = << >>
      /\ net[<<"client", "order">>] = << >>
      /\ \A s \in Servers : net[<<s, "client">>] = << >> /\ net[<<s, "subscriber">>] = << >>
  BY <1>5, Names
<1>7. OrderTypes
  BY <1>1, <1>2 DEF SessionsInit, OrderTypes
<1>8. StorageTypes
  BY IdleWork DEF SessionsInit, StorageTypes, NewState, Standing, Objects
<1>9. SubscriberTypes
  BY DEF SessionsInit, SubscriberTypes
<1>10. PeerTypes
  BY DEF SessionsInit, PeerTypes, Places
<1>11. Types
  BY <1>4, <1>7, <1>8, <1>9, <1>10 DEF Types
<1>12. ASSUME NEW s \in Servers PROVE Terms(s)
  <2>1. /\ changes[s] = << >> /\ ~ subscribers[s] /\ finished[s] = 0
        /\ \A k \in Threads : polled[s][k] = 0 /\ ~ queue[s][k]
    BY DEF SessionsInit
  <2>2. s \notin queues["subscriber"] /\ thread[s]["main"].op = "idle"
    BY DEF SessionsInit, Peers, Waiters, Idle
  <2>3. Len(<< >>) = 0
    OBVIOUS
  <2>4. Served(s)
    BY <2>1, <2>3 DEF Served, Alternates, On
  <2>5. Unknown(s)
    <3>1. Slack(s, 0)
      BY <2>1, <2>3 DEF Slack
    <3>2. Farewells(s) = 0
      <4>1. Len(net[<<s, "subscriber">>]) = 0
        BY <1>6, <2>3
      <4>2. QED
        BY <2>1, <4>1 DEF Farewells
    <3>3. QED
      BY <2>1, <3>1, <3>2 DEF Unknown
  <2>6. QED
    BY <2>2, <2>4, <2>5 DEF Terms, Strangers, Joining
<1>13. /\ pc["subscriber"] = "off" /\ pc["client"] = "off" /\ queues["subscriber"] = {}
       /\ queues["client"] = {} /\ orderMain = "none" /\ clientState = "none"
       /\ ~ subscriberQueue /\ ~ orderFinished
  BY DEF SessionsInit, Peers
<1>14. TokenInv
  BY <1>6, <1>13 DEF TokenInv, SubscriberToken, ClientToken
<1>15. MeetingInv
  BY <1>13 DEF MeetingInv
<1>16. ObjInv
  BY DEF SessionsInit, ObjInv, Idle
<1>17. ClientInv
  BY <1>6, <1>13, Letters DEF ClientInv, Farewell
<1>18. QED
  BY <1>11, <1>12, <1>14, <1>15, <1>16, <1>17 DEF SInv, ServedInv

(* ... and every step keeps it.                                            *)
LEMMA NextSessions ==
  ASSUME Setting, SInv, [SessionsNext]_sessionVars
  PROVE  SInv'
BY NextTypes, NextServed, NextTokens, NextClient DEF SInv

(* Why who has ended is forgotten.                                         *)
LEMMA SessionsForget ==
  ASSUME Setting, SInv
  PROVE  EndedIsForgotten
<1>0. Types
  BY DEF SInv
<1>1. ASSUME NEW s \in Servers, NEW k \in Threads, HasChange(s, k)
      PROVE  NextChange(s, k) = "remove" <=> queue[s][k]
  <2>1. PICK c \in Seq({"add", "remove"}) : c = changes[s]
    BY <1>0, ServerTypes
  <2>2. PICK a \in Nat : a = polled[s][k]
    BY <1>0, ServerTypes
  <2>3. Served(s)
    BY DEF SInv, ServedInv, Terms
  <2>4. a + 1 \in 1 .. Len(c) /\ (a + 1) - 1 = a
    BY <1>1, <2>1, <2>2 DEF HasChange
  <2>5. (c[a + 1] = "add") <=> ~ On(c, a)
    BY <2>1, <2>3, <2>4 DEF Served, Alternates
  <2>6. queue[s][k] <=> On(c, a)
    BY <2>1, <2>2, <2>3 DEF Served
  <2>7. c[a + 1] \in {"add", "remove"}
    BY <2>1, <2>4, ElementOfSeq
  <2>8. QED
    BY <2>1, <2>2, <2>5, <2>6, <2>7 DEF NextChange
<1>2. ASSUME pc["subscriber"] = "ended"
      PROVE  /\ ~ subscriberQueue
             /\ \A s \in Servers, k \in Threads : ~ queue[s][k] /\ ~ HasChange(s, k)
  <2>1. ~ subscriberQueue
    BY <1>2 DEF SInv, TokenInv, SubscriberToken
  <2>2. ASSUME NEW s \in Servers, NEW k \in Threads PROVE ~ queue[s][k] /\ ~ HasChange(s, k)
    <3>1. s \notin queues["subscriber"]
      BY <1>2 DEF SInv, MeetingInv
    <3>2. Unknown(s) /\ Served(s)
      BY <3>1 DEF SInv, ServedInv, Terms, Strangers, Introduced, Acquainted, Leaving
    <3>3. Len(changes[s]) \in Nat /\ polled[s][k] \in Nat
      BY <1>0, ServerTypes
    <3>4. polled[s][k] = Len(changes[s])
      BY <3>2, <3>3 DEF Unknown, Slack
    <3>5. QED
      BY <3>2, <3>3, <3>4 DEF Unknown, Served, HasChange
  <2>3. QED
    BY <2>1, <2>2
<1>3. ASSUME pc["client"] = "ended"
      PROVE  clientState = "none" /\ \A s \in storageAddresses : Disconnected(s)
  BY <1>3 DEF SInv, TokenInv, ClientToken, ClientInv, Gone
<1>4. QED
  BY <1>1, <1>2, <1>3 DEF EndedIsForgotten

(* Sessions: whatever the number of servers, of subscriber threads and of  *)
(* runs, and however early a process is stopped, crashes or is suspected,  *)
(* a client or subscriber whose stop has returned is forgotten by the      *)
(* ordering service and by every thread of every server, and no subscriber *)
(* thread is told to add a queue that it has or to remove one that it does *)
(* not have.                                                               *)
THEOREM EndedIsForgottenEverywhere == SessionsSpec => []EndedIsForgotten
<1>1. SessionsInit => SInv
  BY SessionsAssumption, InitSessions
<1>2. SInv /\ [SessionsNext]_sessionVars => SInv'
  BY SessionsAssumption, NextSessions
<1>3. SInv => EndedIsForgotten
  BY SessionsAssumption, SessionsForget
<1>4. QED
  BY <1>1, <1>2, <1>3, PTL DEF SessionsSpec

=============================================================================
