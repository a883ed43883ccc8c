------------------------- MODULE ClientPacingProofs -------------------------
(***************************************************************************)
(* Proofs about ClientPacing, for any rates, pauses and loads.             *)
(*                                                                         *)
(* A client never uses a slot that one of its servers does not have yet,   *)
(* provided that the messages of the ordering service are handled within   *)
(* an epoch, less what the client's clock is ahead.                        *)
(*                                                                         *)
(* A request is not overwritten before as many servers have got it as have *)
(* to answer: the proof keeps a ledger of the sendings, and bounds how far *)
(* they are ahead of the answers.                                          *)
(*                                                                         *)
(* Slots are used in time, provided that twice the delay of a message and  *)
(* the longest pause of a client fit into an epoch.                        *)
(***************************************************************************)
EXTENDS ClientPacing, SequenceTheorems, FiniteSetTheorems, TLAPS

-----------------------------------------------------------------------------
(* Facts about natural numbers.                                            *)

(* A remainder is below its divisor.                                       *)
LEMMA ModRange ==
  ASSUME NEW g \in Nat, NEW n \in Nat \ {0}
  PROVE  g % n \in 0 .. n - 1
OBVIOUS

(* A number is made up of its quotient and its remainder.                  *)
LEMMA DivMod ==
  ASSUME NEW g \in Nat, NEW n \in Nat \ {0}
  PROVE  g \div n \in Nat /\ g = n * (g \div n) + (g % n)
OBVIOUS

(* The product with a fixed factor grows with the other one.               *)
LEMMA TimesMonotone ==
  ASSUME NEW n \in Nat \ {0}, NEW c \in Nat, NEW d \in Nat, c + 1 <= d
  PROVE  n * c + n <= n * d
<1>1. PICK e \in Nat : d = c + 1 + e
  <2>1. d - c - 1 \in Nat /\ d = c + 1 + (d - c - 1)
    OBVIOUS
  <2>2. QED
    BY <2>1
<1>2. n * (c + 1 + e) = n * c + n + n * e
  OBVIOUS
<1>3. n * e \in Nat /\ n * c \in Nat
  OBVIOUS
<1>4. QED
  BY <1>1, <1>2, <1>3

(* The share of w that falls to a part t of a duration D.                  *)
LEMMA ShareOfTime ==
  ASSUME NEW w \in Nat, NEW t \in Nat, NEW D \in Nat \ {0}, t <= D
  PROVE  (w * t) \div D \in 0 .. w /\ (t = 0 => (w * t) \div D = 0)
<1> DEFINE q == (w * t) \div D
<1>1. w * t \in Nat /\ w * D \in Nat /\ D * w = w * D
  OBVIOUS
<1>2. PICK p \in Nat : p = w * t
  BY <1>1
<1>3. q \in Nat /\ p = D * q + (p % D) /\ p % D \in 0 .. D - 1
  BY <1>2, DivMod, ModRange
<1>4. p <= w * D
  <2>1. PICK e \in Nat : D = t + e
    <3>1. D - t \in Nat /\ D = t + (D - t)
      OBVIOUS
    <3>2. QED
      BY <3>1
  <2>2. w * (t + e) = w * t + w * e /\ w * e \in Nat
    OBVIOUS
  <2>3. QED
    BY <1>2, <2>1, <2>2
<1> HIDE DEF q
<1>5. q <= w
  <2> SUFFICES ASSUME w + 1 <= q PROVE FALSE
    BY <1>3
  <2>1. D * w + D <= D * q
    BY <1>3, TimesMonotone
  <2>2. D * q \in Nat
    BY <1>3
  <2>3. QED
    BY <1>1, <1>3, <1>4, <2>1, <2>2
<1>6. t = 0 => q = 0
  <2> SUFFICES ASSUME t = 0, 0 + 1 <= q PROVE FALSE
    BY <1>3
  <2>1. D * 0 + D <= D * q
    BY <1>3, TimesMonotone
  <2>2. w * 0 = 0 /\ D * 0 = 0 /\ D * q \in Nat
    BY <1>3
  <2>3. p = 0
    BY <1>2, <2>2
  <2>4. PICK r \in Nat : p = D * q + r
    BY <1>3
  <2>5. PICK x \in Nat : x = D * q
    BY <2>2
  <2>6. D <= x /\ x + r = 0
    BY <2>1, <2>2, <2>3, <2>4, <2>5
  <2>7. QED
    BY <2>6
<1>7. QED
  BY <1>3, <1>5, <1>6 DEF q

(* The condition on delays and clocks under which slots are on time.       *)
InTime == OrderDelay + Skew <= Duration

-----------------------------------------------------------------------------
(* The ledger: when each epoch was announced, and how many slots there     *)
(* were by then.  It is a ghost; no process keeps it.                      *)

Announcement == [at : Nat, last : Nat]

(* The slots of the first j announcements.                                 *)
Total(G, j) == IF j = 0 THEN 0 ELSE G[j].last

Rising(G) ==
  \A j, k \in 1 .. Len(G) : j < k => G[j].at < G[k].at /\ G[j].last <= G[k].last

(* q holds the messages of the last announcements; the slots of those      *)
(* before come to n.                                                       *)
Backlog(G, q, n) ==
  /\ Len(q) <= Len(G) /\ n = Total(G, Len(G) - Len(q))
  /\ \A i \in 1 .. Len(q) :
       /\ q[i].num = Total(G, Len(G) - Len(q) + i) - Total(G, Len(G) - Len(q) + i - 1)
       /\ q[i].due = G[Len(G) - Len(q) + i].at + OrderDelay

(* The same for what epoch messages say of the beginning.                  *)
BeginsLater(G, q) ==
  \A i \in 1 .. Len(q) : q[i].begin = G[Len(G) - Len(q) + i].at + Duration

(* H has one announcement more than G, of n slots at time t.               *)
Extends(G, H, t, n) ==
  /\ Len(H) = Len(G) + 1
  /\ \A j \in 1 .. Len(G) : H[j] = G[j]
  /\ \A j \in 0 .. Len(G) : Total(H, j) = Total(G, j)
  /\ H[Len(H)].at = t /\ Total(H, Len(H)) = Total(G, Len(G)) + n

(* All announcements were made before time t.                              *)
AllBefore(G, t) == \A j \in 1 .. Len(G) : G[j].at < t

(* e is the epoch of one of the announcements.                             *)
IsEpoch(G, e) ==
  \E j \in 1 .. Len(G) : /\ e.begin = G[j].at + Duration
                         /\ e.first = Total(G, j - 1) /\ e.last = Total(G, j)

Types ==
  /\ now \in Nat /\ epoch \in Int /\ numSlots \in Nat
  /\ assigned \in Nat /\ consumed \in Nat /\ known \in [Servers -> Nat]
  /\ rateMsgs \in Seq([num : Nat])
  /\ epochMsgs \in Seq([begin : Nat, num : Nat, due : Nat])
  /\ slotsMsgs \in [Servers -> Seq([num : Nat, due : Nat])]
  /\ epochs \in Seq([begin : Nat, first : Nat, last : Nat])

(* The ledger explains the state of the ordering service, the client and   *)
(* the servers.  What a server has not handled is not overdue.             *)
Explains(G) ==
  /\ G \in Seq(Announcement) /\ Rising(G)
  /\ \A j \in 1 .. Len(G) : G[j].at <= epoch
  /\ Backlog(G, epochMsgs, assigned) /\ BeginsLater(G, epochMsgs)
  /\ \A s \in Servers :
       /\ Backlog(G, slotsMsgs[s], known[s])
       /\ \A i \in 1 .. Len(slotsMsgs[s]) : slotsMsgs[s][i].due >= now
  /\ \A i \in 1 .. Len(epochs) : IsEpoch(G, epochs[i])
  /\ current = FirstEpoch \/ (IsEpoch(G, current) /\ current.begin <= clock)

PacingInv == Types /\ (\E G : Explains(G)) /\ SlotsInPlace

(* What the assumption says of single constants.                           *)
LEMMA ConstantTypes ==
  /\ OrderDelay \in Nat /\ Skew \in Nat /\ Duration \in Nat \ {0} /\ MinSlots \in Nat \ {0}
  /\ Rates \subseteq Nat
BY PacingAssumption

(* The constants are natural numbers.                                      *)
LEMMA LimitTypes ==
  /\ Delay \in Nat /\ MaxPause \in Nat /\ Failures \in Nat
  /\ MaxOutstanding \in Nat /\ Burst \in Nat /\ Burst <= MaxOutstanding
BY PacingAssumption

(* Taking the first of a queue.                                            *)
LEMMA FirstTaken ==
  ASSUME NEW S, NEW q \in Seq(S), q # << >>
  PROVE  /\ Head(q) \in S /\ Head(q) = q[1]
         /\ Tail(q) \in Seq(S) /\ Len(Tail(q)) = Len(q) - 1 /\ Len(q) \in Nat \ {0}
         /\ \A i \in 1 .. Len(Tail(q)) : Tail(q)[i] = q[i + 1]
OBVIOUS

(* Slots add up along the ledger.                                          *)
LEMMA TotalMonotone ==
  ASSUME NEW G \in Seq(Announcement), Rising(G),
         NEW j \in 0 .. Len(G), NEW k \in 0 .. Len(G), j <= k
  PROVE  Total(G, j) \in Nat /\ Total(G, k) \in Nat /\ Total(G, j) <= Total(G, k)
<1>0. \A i \in 1 .. Len(G) : G[i] \in Announcement
  OBVIOUS
<1>1. \A i \in 1 .. Len(G) : G[i].last \in Nat
  BY <1>0 DEF Announcement
<1>2. Total(G, j) \in Nat /\ Total(G, k) \in Nat
  BY <1>1 DEF Total
<1>3. CASE j = 0 \/ j = k
  BY <1>2, <1>3 DEF Total
<1>4. CASE j # 0 /\ j < k
  <2>1. j \in 1 .. Len(G) /\ k \in 1 .. Len(G) /\ k # 0
    BY <1>4
  <2>2. G[j].last <= G[k].last
    BY <1>4, <2>1 DEF Rising
  <2>3. QED
    BY <1>2, <1>4, <2>1, <2>2 DEF Total
<1>5. QED
  BY <1>3, <1>4

(* A new announcement of n slots at time t.                                *)
LEMMA LedgerGrows ==
  ASSUME NEW G \in Seq(Announcement), Rising(G), NEW t \in Nat, NEW n \in Nat,
         AllBefore(G, t)
  PROVE  \E H \in Seq(Announcement) : Rising(H) /\ Extends(G, H, t, n)
<1>0. PICK H : H = Append(G, [at |-> t, last |-> Total(G, Len(G)) + n])
  OBVIOUS
<1> DEFINE x == [at |-> t, last |-> Total(G, Len(G)) + n]
<1>1. Total(G, Len(G)) \in Nat /\ Len(G) \in Nat
  BY TotalMonotone
<1>2. x \in Announcement /\ x.at = t /\ x.last = Total(G, Len(G)) + n
  BY <1>1 DEF Announcement
<1> HIDE DEF x
<1>3. /\ H \in Seq(Announcement) /\ Len(H) = Len(G) + 1
      /\ \A j \in 1 .. Len(G) : H[j] = G[j]
      /\ H[Len(G) + 1] = x
  BY <1>0, <1>2 DEF x
<1>4. \A j \in 0 .. Len(G) : Total(H, j) = Total(G, j)
  BY <1>3 DEF Total
<1>5. H[Len(H)].at = t /\ H[Len(H)].last = Total(G, Len(G)) + n
  BY <1>2, <1>3
<1>6. Total(H, Len(H)) = Total(G, Len(G)) + n
  BY <1>1, <1>3, <1>5 DEF Total
<1>7. Rising(H)
  <2> SUFFICES ASSUME NEW j \in 1 .. Len(H), NEW k \in 1 .. Len(H), j < k
               PROVE  H[j].at < H[k].at /\ H[j].last <= H[k].last
    BY DEF Rising
  <2>1. CASE k \in 1 .. Len(G)
    <3>1. j \in 1 .. Len(G)
      BY <1>1, <2>1
    <3>2. QED
      BY <1>3, <2>1, <3>1 DEF Rising
  <2>2. CASE k = Len(G) + 1
    <3>1. j \in 1 .. Len(G) /\ j # 0
      BY <1>1, <2>2
    <3>2. H[j] = G[j] /\ H[k] = x /\ G[j].at < t
      BY <1>3, <2>2, <3>1 DEF AllBefore
    <3>3. G[j].last <= Total(G, Len(G)) /\ G[j].last \in Nat
      <4>1. Total(G, j) <= Total(G, Len(G)) /\ Total(G, j) \in Nat
        BY <1>1, <3>1, TotalMonotone
      <4>2. Total(G, j) = G[j].last
        BY <3>1 DEF Total
      <4>3. QED
        BY <4>1, <4>2
    <3>4. QED
      BY <1>1, <1>2, <3>2, <3>3
  <2>3. QED
    BY <1>1, <1>3, <2>1, <2>2
<1>8. Extends(G, H, t, n)
  BY <1>3, <1>4, <1>5, <1>6 DEF Extends
<1>9. QED
  BY <1>3, <1>7, <1>8

(* Handling the first message adds its slots.                              *)
LEMMA BacklogTakes ==
  ASSUME NEW G \in Seq(Announcement), Rising(G), NEW S, NEW q \in Seq(S), q # << >>,
         NEW n, Backlog(G, q, n), NEW p, p = Tail(q), NEW v, v = n + Head(q).num
  PROVE  /\ Backlog(G, p, v) /\ Len(p) = Len(q) - 1 /\ v \in Nat
         /\ \A i \in 1 .. Len(p) : p[i] = q[i + 1]
<1>1. /\ p \in Seq(S) /\ Len(p) = Len(q) - 1 /\ Len(q) \in Nat \ {0}
      /\ \A i \in 1 .. Len(p) : p[i] = q[i + 1]
      /\ Head(q) = q[1]
  OBVIOUS
<1>2. PICK b \in Nat : b = Len(G) - Len(q) /\ Len(G) - Len(p) = b + 1 /\ b + 1 <= Len(G)
  <2>1. Len(q) <= Len(G) /\ Len(G) \in Nat
    BY DEF Backlog
  <2>2. Len(p) = Len(q) - 1 /\ Len(q) \in Nat \ {0}
    BY <1>1
  <2>3. QED
    BY <2>1, <2>2
<1>3. /\ n = Total(G, b)
      /\ \A i \in 1 .. Len(q) : /\ q[i].num = Total(G, b + i) - Total(G, b + i - 1)
                                /\ q[i].due = G[b + i].at + OrderDelay
  BY <1>2 DEF Backlog
<1>4. Total(G, b) \in Nat /\ Total(G, b + 1) \in Nat
  <2>1. b \in 0 .. Len(G) /\ b + 1 \in 0 .. Len(G)
    BY <1>2
  <2>2. QED
    BY <2>1, TotalMonotone
<1>5. v = Total(G, b + 1)
  <2>1. q[1].num = Total(G, b + 1) - Total(G, b)
    <3>1. 1 \in 1 .. Len(q) /\ b + 1 - 1 = b
      BY <1>1
    <3>2. QED
      BY <1>3, <3>1
  <2>2. QED
    BY <1>1, <1>3, <1>4, <2>1
<1>6. ASSUME NEW i \in 1 .. Len(p)
      PROVE  /\ p[i].num = Total(G, b + 1 + i) - Total(G, b + 1 + i - 1)
             /\ p[i].due = G[b + 1 + i].at + OrderDelay
  <2>1. i + 1 \in 1 .. Len(q) /\ b + (i + 1) = b + 1 + i /\ b + (i + 1) - 1 = b + 1 + i - 1
    BY <1>1
  <2>2. p[i] = q[i + 1]
    BY <1>1
  <2>3. /\ q[i + 1].num = Total(G, b + (i + 1)) - Total(G, b + (i + 1) - 1)
        /\ q[i + 1].due = G[b + (i + 1)].at + OrderDelay
    BY <1>3, <2>1, Zenon
  <2>4. QED
    BY <2>1, <2>2, <2>3
<1>7. Backlog(G, p, v)
  <2>1. Len(p) <= Len(G)
    BY <1>1, <1>2
  <2>2. QED
    BY <1>2, <1>5, <1>6, <2>1 DEF Backlog
<1>8. QED
  BY <1>1, <1>4, <1>5, <1>7

(* A message about the new announcement is put at the end.                 *)
LEMMA BacklogGrows ==
  ASSUME NEW G \in Seq(Announcement), Rising(G), NEW t \in Nat, NEW k \in Nat,
         NEW H, Extends(G, H, t, k),
         NEW S, NEW q \in Seq(S), NEW n, Backlog(G, q, n),
         NEW m \in S, m.num = k, m.due = t + OrderDelay, NEW p, p = Append(q, m)
  PROVE  Backlog(H, p, n)
<1> USE DEF Extends
<1>1. /\ p \in Seq(S) /\ Len(p) = Len(q) + 1 /\ Len(q) \in Nat /\ Len(G) \in Nat
      /\ \A i \in 1 .. Len(q) : p[i] = q[i]
      /\ p[Len(q) + 1] = m
  OBVIOUS
<1>2. PICK b \in Nat : b = Len(G) - Len(q) /\ Len(H) - Len(p) = b /\ b <= Len(G)
                       /\ Len(G) = b + Len(q)
  BY <1>1 DEF Backlog
<1>3. /\ n = Total(G, b)
      /\ \A i \in 1 .. Len(q) : /\ q[i].num = Total(G, b + i) - Total(G, b + i - 1)
                                /\ q[i].due = G[b + i].at + OrderDelay
  BY <1>2 DEF Backlog
<1>4. n = Total(H, b)
  BY <1>2, <1>3
<1>5. ASSUME NEW i \in 1 .. Len(p)
      PROVE  /\ p[i].num = Total(H, b + i) - Total(H, b + i - 1)
             /\ p[i].due = H[b + i].at + OrderDelay
  <2>1. CASE i \in 1 .. Len(q)
    <3>1. b + i \in 1 .. Len(G) /\ b + i \in 0 .. Len(G) /\ b + i - 1 \in 0 .. Len(G)
      BY <1>1, <1>2, <2>1
    <3>2. /\ H[b + i] = G[b + i] /\ Total(H, b + i) = Total(G, b + i)
          /\ Total(H, b + i - 1) = Total(G, b + i - 1)
      BY <3>1
    <3>3. p[i] = q[i]
      BY <1>1, <2>1
    <3>4. QED
      BY <1>3, <2>1, <3>2, <3>3
  <2>2. CASE i = Len(q) + 1
    <3>1. b + i = Len(H) /\ b + i - 1 = Len(G) /\ Len(G) \in 0 .. Len(G) /\ p[i] = m
      BY <1>1, <1>2, <2>2
    <3>2. Total(H, Len(G)) = Total(G, Len(G)) /\ Total(G, Len(G)) \in Nat
      BY <3>1, TotalMonotone
    <3>3. k = Total(H, Len(H)) - Total(H, Len(G))
      BY <3>2
    <3>4. QED
      BY <3>1, <3>3
  <2>3. QED
    BY <1>1, <2>1, <2>2
<1>6. Len(p) <= Len(H) /\ p[Len(p)] = m
  BY <1>1, <1>2
<1>7. Backlog(H, p, n)
  BY <1>2, <1>4, <1>5, <1>6 DEF Backlog
<1>8. QED
  BY <1>7

(* Epochs of a ledger are epochs of the longer one.                        *)
LEMMA EpochGrows ==
  ASSUME NEW G \in Seq(Announcement), NEW H, NEW t, NEW n, Extends(G, H, t, n),
         NEW e, IsEpoch(G, e)
  PROVE  IsEpoch(H, e)
<1> USE DEF Extends
<1>1. PICK j \in 1 .. Len(G) : /\ e.begin = G[j].at + Duration
                               /\ e.first = Total(G, j - 1) /\ e.last = Total(G, j)
  BY DEF IsEpoch
<1>2. j \in 1 .. Len(H) /\ j \in 0 .. Len(G) /\ j - 1 \in 0 .. Len(G)
  OBVIOUS
<1>3. H[j] = G[j] /\ Total(H, j - 1) = Total(G, j - 1) /\ Total(H, j) = Total(G, j)
  BY <1>2
<1>4. QED
  BY <1>1, <1>2, <1>3 DEF IsEpoch

(* A server has handled what was announced more than OrderDelay ago.       *)
LEMMA Handled ==
  ASSUME Types, NEW G, Explains(G), NEW s \in Servers, NEW j \in 1 .. Len(G),
         now > G[j].at + OrderDelay
  PROVE  Total(G, j) <= known[s]
<1>1. /\ G \in Seq(Announcement) /\ Rising(G) /\ Backlog(G, slotsMsgs[s], known[s])
      /\ \A i \in 1 .. Len(slotsMsgs[s]) : slotsMsgs[s][i].due >= now
  BY DEF Explains
<1>2. slotsMsgs[s] \in Seq([num : Nat, due : Nat])
  BY DEF Types
<1>3. PICK l \in Nat : l = Len(slotsMsgs[s])
  BY <1>2
<1>4. PICK g \in Nat : g = Len(G)
  BY <1>1
<1>5. PICK b \in Nat : b = g - l /\ g = b + l /\ known[s] = Total(G, b)
  BY <1>1, <1>3, <1>4 DEF Backlog
<1>6. j <= b
  <2> SUFFICES ASSUME b < j PROVE FALSE
    BY <1>4, <1>5
  <2>1. j - b \in 1 .. l /\ b + (j - b) = j
    BY <1>4, <1>5
  <2>2. slotsMsgs[s][j - b].due = G[b + (j - b)].at + OrderDelay
    BY <1>1, <1>3, <1>4, <1>5, <2>1 DEF Backlog
  <2>3. slotsMsgs[s][j - b].due >= now
    BY <1>1, <1>3, <2>1
  <2>4. G[j].at \in Nat
    <3>1. G[j] \in Announcement
      BY <1>1
    <3>2. QED
      BY <3>1 DEF Announcement
  <2>5. now \in Nat
    BY DEF Types
  <2>6. QED
    BY <2>1, <2>2, <2>3, <2>4, <2>5, ConstantTypes
<1>7. j \in 0 .. Len(G) /\ b \in 0 .. Len(G)
  BY <1>4, <1>5
<1>8. QED
  BY <1>1, <1>5, <1>6, <1>7, TotalMonotone

(* Within an epoch that has begun, the slots up to the ideal place of the  *)
(* client are at all servers: at the moment it begins those of the epochs  *)
(* before, later its own.                                                  *)
LEMMA IdealInPlace ==
  ASSUME InTime, Types, NEW G, Explains(G), NEW e, IsEpoch(G, e),
         e.begin <= clock, InEpoch(e)
  PROVE  Ideal(e) \in Nat /\ \A s \in Servers : Ideal(e) <= known[s]
<1>0. G \in Seq(Announcement) /\ Rising(G) /\ now \in Nat /\ known \in [Servers -> Nat]
  BY DEF Explains, Types
<1>1. PICK j \in 1 .. Len(G) : /\ e.begin = G[j].at + Duration
                               /\ e.first = Total(G, j - 1) /\ e.last = Total(G, j)
  BY DEF IsEpoch
<1>2. \A i \in 1 .. Len(G) : G[i].at \in Nat
  <2>1. \A i \in 1 .. Len(G) : G[i] \in Announcement
    BY <1>0
  <2>2. QED
    BY <2>1 DEF Announcement
<1>3. /\ e.first \in Nat /\ e.last \in Nat /\ e.first <= e.last
  <2>1. j - 1 \in 0 .. Len(G) /\ j \in 0 .. Len(G) /\ j - 1 <= j
    BY <1>0
  <2>2. QED
    BY <1>0, <1>1, <2>1, TotalMonotone
<1>4. PICK w \in Nat : w = e.last - e.first
  BY <1>3
<1>5. PICK t \in Nat : t = clock - e.begin /\ t <= Duration
                       /\ now + Skew = G[j].at + Duration + t
  BY <1>0, <1>1, <1>2, ConstantTypes DEF InEpoch, clock
<1>a. (w * t) \div Duration \in 0 .. w /\ (t = 0 => (w * t) \div Duration = 0)
  BY <1>5, ShareOfTime, ConstantTypes, Zenon
<1>b. PICK x : x = (w * t) \div Duration
  OBVIOUS
<1>6. x \in 0 .. w /\ (t = 0 => x = 0)
  BY <1>a, <1>b, Zenon
<1>7. Ideal(e) = e.first + x
  BY <1>4, <1>5, <1>b, Zenon DEF Ideal
<1>8. Ideal(e) \in Nat /\ Ideal(e) <= e.last
  BY <1>3, <1>4, <1>6, <1>7
<1>9. ASSUME NEW s \in Servers PROVE Ideal(e) <= known[s]
  <2>0. known[s] \in Nat
    BY <1>0
  <2>1. CASE t # 0
    <3>1. now > G[j].at + OrderDelay
      <4>1. PICK u \in Nat : u = G[j].at
        BY <1>2
      <4>2. now \in Nat /\ now + Skew = u + Duration + t
        BY <1>0, <1>5, <4>1
      <4>3. OrderDelay + Skew <= Duration
        BY DEF InTime
      <4>4. now > u + OrderDelay
        BY <2>1, <4>2, <4>3, ConstantTypes
      <4>5. QED
        BY <4>1, <4>4
    <3>2. Total(G, j) <= known[s]
      BY <3>1, Handled
    <3>3. QED
      BY <1>1, <1>3, <1>8, <2>0, <3>2
  <2>2. CASE t = 0 /\ j = 1
    <3>1. e.first = 0
      BY <1>1, <2>2 DEF Total
    <3>2. QED
      BY <1>6, <1>7, <2>0, <2>2, <3>1
  <2>3. CASE t = 0 /\ j # 1
    <3>1. j - 1 \in 1 .. Len(G) /\ j - 1 < j
      BY <1>0, <2>3
    <3>2. G[j - 1].at < G[j].at
      BY <1>0, <3>1 DEF Rising
    <3>3. now > G[j - 1].at + OrderDelay
      <4>1. PICK u \in Nat, v \in Nat : u = G[j - 1].at /\ v = G[j].at
        BY <1>2, <3>1
      <4>2. now \in Nat /\ now + Skew = v + Duration + t /\ t = 0 /\ u < v
        BY <1>0, <1>5, <2>3, <3>2, <4>1, Zenon
      <4>3. OrderDelay + Skew <= Duration
        BY DEF InTime
      <4>4. now > u + OrderDelay
        BY <4>2, <4>3, ConstantTypes
      <4>5. QED
        BY <4>1, <4>4
    <3>4. Total(G, j - 1) <= known[s]
      BY <3>1, <3>3, Handled
    <3>5. QED
      BY <1>1, <1>3, <1>6, <1>7, <2>3, <3>4
  <2>4. QED
    BY <2>1, <2>2, <2>3
<1>10. QED
  BY <1>8, <1>9

-----------------------------------------------------------------------------
(* The steps.                                                              *)

(* Initially nothing has been announced.                                   *)
LEMMA InitPacing == Init => PacingInv
<1> SUFFICES ASSUME Init PROVE PacingInv
  OBVIOUS
<1>1. Types
  <2>1. numSlots \in Nat
    BY ConstantTypes DEF Init, Intro
  <2>2. /\ << >> \in Seq([num : Nat]) /\ << >> \in Seq([num : Nat, due : Nat])
        /\ << >> \in Seq([begin : Nat, num : Nat, due : Nat])
        /\ << >> \in Seq([begin : Nat, first : Nat, last : Nat])
    OBVIOUS
  <2>3. /\ rateMsgs = << >> /\ epochMsgs = << >> /\ epochs = << >>
        /\ slotsMsgs = [s \in Servers |-> << >>] /\ known = [s \in Servers |-> 0]
    BY DEF Init
  <2>4. /\ rateMsgs \in Seq([num : Nat])
        /\ epochMsgs \in Seq([begin : Nat, num : Nat, due : Nat])
        /\ epochs \in Seq([begin : Nat, first : Nat, last : Nat])
    BY <2>2, <2>3, Zenon
  <2>5. slotsMsgs \in [Servers -> Seq([num : Nat, due : Nat])]
    BY <2>2, <2>3
  <2>6. known \in [Servers -> Nat]
    BY <2>3
  <2>7. now \in Nat /\ epoch \in Int /\ assigned \in Nat /\ consumed \in Nat
    BY DEF Init
  <2>8. QED
    BY <2>1, <2>4, <2>5, <2>6, <2>7 DEF Types
<1>a. << >> \in Seq(Announcement)
  OBVIOUS
<1>2. PICK G \in Seq(Announcement) : G = << >>
  BY <1>a, Zenon
<1>3. Len(G) = 0 /\ Total(G, 0) = 0
  BY <1>2 DEF Total
<1>4. Rising(G)
  BY <1>3 DEF Rising
<1>5. Len(epochMsgs) = 0 /\ Len(epochs) = 0 /\ \A s \in Servers : Len(slotsMsgs[s]) = 0
  BY DEF Init
<1>6. assigned = 0 /\ \A s \in Servers : known[s] = 0
  BY DEF Init
<1>7. Backlog(G, epochMsgs, assigned) /\ BeginsLater(G, epochMsgs)
  BY <1>3, <1>5, <1>6 DEF Backlog, BeginsLater
<1>8. \A s \in Servers : Backlog(G, slotsMsgs[s], known[s])
  BY <1>3, <1>5, <1>6 DEF Backlog
<1>9. current = FirstEpoch
  BY DEF Init
<1>10. Explains(G)
  BY <1>2, <1>3, <1>4, <1>5, <1>7, <1>8, <1>9 DEF Explains
<1>11. SlotsInPlace
  BY <1>6 DEF SlotsInPlace, Init
<1>12. QED
  BY <1>1, <1>10, <1>11 DEF PacingInv

(* The epoch timer: the ledger gets an announcement.                       *)
LEMMA EpochPacing ==
  ASSUME PacingInv, Epoch
  PROVE  PacingInv'
<1>0. Types /\ SlotsInPlace
  BY DEF PacingInv
<1>1. PICK G : Explains(G)
  BY DEF PacingInv
<1> DEFINE E == [begin : Nat, num : Nat, due : Nat]
           M == [num : Nat, due : Nat]
           em == [begin |-> now + Duration, num |-> numSlots, due |-> now + OrderDelay]
           sm == [num |-> numSlots, due |-> now + OrderDelay]
<1>2. /\ now > epoch /\ epoch' = now + Duration
      /\ epochMsgs' = Append(epochMsgs, em)
      /\ slotsMsgs' = [s \in Servers |-> Append(slotsMsgs[s], sm)]
      /\ now' = now /\ numSlots' = numSlots /\ rateMsgs' = rateMsgs /\ epochs' = epochs
      /\ current' = current /\ assigned' = assigned /\ consumed' = consumed
      /\ known' = known
  BY DEF Epoch, EpochBegin, paceVars, serverVars
<1>3. now \in Nat /\ epoch \in Int /\ numSlots \in Nat /\ epochMsgs \in Seq(E)
      /\ \A s \in Servers : slotsMsgs[s] \in Seq(M)
  BY <1>0 DEF Types
<1>4. em \in E /\ em.num = numSlots /\ em.due = now + OrderDelay /\ em.begin = now + Duration
  BY <1>3, ConstantTypes
<1>5. sm \in M /\ sm.num = numSlots /\ sm.due = now + OrderDelay
  BY <1>3, ConstantTypes
<1> HIDE DEF E, M, em, sm
<1>6. /\ G \in Seq(Announcement) /\ Rising(G)
      /\ \A j \in 1 .. Len(G) : G[j].at <= epoch
      /\ Backlog(G, epochMsgs, assigned) /\ BeginsLater(G, epochMsgs)
      /\ \A s \in Servers :
           /\ Backlog(G, slotsMsgs[s], known[s])
           /\ \A i \in 1 .. Len(slotsMsgs[s]) : slotsMsgs[s][i].due >= now
      /\ \A i \in 1 .. Len(epochs) : IsEpoch(G, epochs[i])
      /\ current = FirstEpoch \/ (IsEpoch(G, current) /\ current.begin <= clock)
  BY <1>1 DEF Explains
<1>7. \A j \in 1 .. Len(G) : G[j].at \in Nat /\ G[j].at < now
  <2>1. \A j \in 1 .. Len(G) : G[j] \in Announcement
    BY <1>6
  <2>2. \A j \in 1 .. Len(G) : G[j].at \in Nat
    BY <2>1 DEF Announcement
  <2>3. QED
    BY <1>2, <1>3, <1>6, <2>2
<1>a. AllBefore(G, now)
  BY <1>7 DEF AllBefore
<1>8. PICK H \in Seq(Announcement) : Rising(H) /\ Extends(G, H, now, numSlots)
  BY <1>3, <1>6, <1>a, LedgerGrows, Zenon
<1>9. /\ H \in Seq(Announcement) /\ Rising(H) /\ Len(H) = Len(G) + 1
      /\ \A j \in 1 .. Len(G) : H[j] = G[j]
      /\ H[Len(H)].at = now
  BY <1>8 DEF Extends
<1>10. \A j \in 1 .. Len(H) : H[j].at <= epoch'
  <2>1. Len(G) \in Nat
    BY <1>6
  <2>2. \A j \in 1 .. Len(G) : H[j].at <= now
    BY <1>3, <1>7, <1>9
  <2>3. \A j \in 1 .. Len(H) : H[j].at <= now /\ H[j].at \in Nat
    BY <1>3, <1>7, <1>9, <2>1, <2>2
  <2>4. QED
    BY <1>2, <1>3, <2>3, ConstantTypes
<1>b. Backlog(H, epochMsgs', assigned)
  BY <1>2, <1>3, <1>4, <1>6, <1>8, BacklogGrows, Zenon
<1>11. /\ Len(epochMsgs') = Len(epochMsgs) + 1
       /\ epochMsgs'[Len(epochMsgs')] = em
       /\ Len(H) - Len(epochMsgs') = Len(G) - Len(epochMsgs)
       /\ \A i \in 1 .. Len(epochMsgs) : epochMsgs'[i] = epochMsgs[i]
  BY <1>2, <1>3, <1>4, <1>9
<1>12. BeginsLater(H, epochMsgs')
  <2> SUFFICES ASSUME NEW i \in 1 .. Len(epochMsgs')
               PROVE  epochMsgs'[i].begin = H[Len(H) - Len(epochMsgs') + i].at + Duration
    BY DEF BeginsLater
  <2>1. Len(epochMsgs) \in Nat /\ Len(G) \in Nat /\ Len(epochMsgs) <= Len(G)
    BY <1>3, <1>6 DEF Backlog
  <2>b. Len(G) - Len(epochMsgs) \in Nat
    BY <2>1
  <2>a. PICK b \in Nat : b = Len(G) - Len(epochMsgs)
    BY <2>b, Zenon
  <2>2. b = Len(G) - Len(epochMsgs) /\ b = Len(H) - Len(epochMsgs')
    BY <1>11, <2>a, Zenon
  <2>3. CASE i \in 1 .. Len(epochMsgs)
    <3>1. epochMsgs[i].begin = G[b + i].at + Duration /\ epochMsgs'[i] = epochMsgs[i]
      BY <1>6, <1>11, <2>2, <2>3 DEF BeginsLater
    <3>2. b + i \in 1 .. Len(G)
      BY <2>1, <2>2, <2>3
    <3>3. H[b + i] = G[b + i]
      BY <1>9, <3>2
    <3>4. QED
      BY <2>2, <3>1, <3>3
  <2>4. CASE i = Len(epochMsgs')
    <3>1. b + i = Len(H)
      BY <1>9, <1>11, <2>1, <2>2, <2>4
    <3>2. QED
      BY <1>4, <1>9, <1>11, <2>2, <2>4, <3>1
  <2>5. QED
    BY <1>11, <2>1, <2>3, <2>4
<1>13. ASSUME NEW s \in Servers
       PROVE  /\ Backlog(H, slotsMsgs'[s], known[s])
              /\ \A i \in 1 .. Len(slotsMsgs'[s]) : slotsMsgs'[s][i].due >= now
  <2>1. slotsMsgs'[s] = Append(slotsMsgs[s], sm)
    BY <1>2
  <2>a. Backlog(H, slotsMsgs'[s], known[s])
    BY <1>3, <1>5, <1>6, <1>8, <2>1, BacklogGrows, Zenon
  <2>2. /\ Len(slotsMsgs'[s]) = Len(slotsMsgs[s]) + 1
        /\ slotsMsgs'[s][Len(slotsMsgs'[s])] = sm
        /\ \A i \in 1 .. Len(slotsMsgs[s]) : slotsMsgs'[s][i] = slotsMsgs[s][i]
    BY <1>3, <1>5, <2>1
  <2>3. sm.due >= now
    BY <1>3, <1>5, ConstantTypes
  <2>4. Len(slotsMsgs[s]) \in Nat
    BY <1>3
  <2>5. ASSUME NEW i \in 1 .. Len(slotsMsgs'[s]) PROVE slotsMsgs'[s][i].due >= now
    <3>1. CASE i \in 1 .. Len(slotsMsgs[s])
      BY <1>6, <2>2, <3>1
    <3>2. CASE i = Len(slotsMsgs'[s])
      BY <2>2, <2>3, <3>2
    <3>3. QED
      BY <2>2, <2>4, <3>1, <3>2
  <2>6. QED
    BY <2>a, <2>5
<1>14. \A e : IsEpoch(G, e) => IsEpoch(H, e)
  BY <1>6, <1>8, EpochGrows, Zenon
<1>15. clock' = clock
  BY <1>2 DEF clock
<1>16. Explains(H)'
  <2>1. \A i \in 1 .. Len(epochs') : IsEpoch(H, epochs'[i])
    BY <1>2, <1>6, <1>14
  <2>2. current' = FirstEpoch \/ (IsEpoch(H, current') /\ current'.begin <= clock')
    BY <1>2, <1>6, <1>14, <1>15
  <2>3. Backlog(H, epochMsgs', assigned')
    BY <1>2, <1>b
  <2>4. \A s \in Servers : /\ Backlog(H, slotsMsgs'[s], known'[s])
                           /\ \A i \in 1 .. Len(slotsMsgs'[s]) : slotsMsgs'[s][i].due >= now'
    BY <1>2, <1>13
  <2>5. QED
    BY <1>9, <1>10, <1>12, <2>1, <2>2, <2>3, <2>4 DEF Explains
<1>17. Types'
  <2>1. epochMsgs' \in Seq(E)
    BY <1>2, <1>3, <1>4
  <2>2. slotsMsgs' \in [Servers -> Seq(M)]
    BY <1>2, <1>3, <1>5
  <2>3. epoch' \in Int
    BY <1>2, <1>3, ConstantTypes
  <2>4. QED
    BY <1>0, <1>2, <2>1, <2>2, <2>3 DEF Types, E, M
<1>18. SlotsInPlace'
  BY <1>0, <1>2 DEF SlotsInPlace
<1>19. QED
  BY <1>16, <1>17, <1>18 DEF PacingInv

(* Steps that change nothing the ledger is about but perhaps the rate.     *)
LEMMA RatePacing ==
  ASSUME PacingInv, numSlots' \in Nat, rateMsgs' \in Seq([num : Nat]),
         UNCHANGED <<now, epoch, epochs, current, assigned, consumed, known, epochMsgs,
                     slotsMsgs>>
  PROVE  PacingInv'
<1>1. PICK G : Explains(G)
  BY DEF PacingInv
<1>2. clock' = clock
  BY DEF clock
<1>3. Explains(G)'
  BY <1>1, <1>2 DEF Explains
<1>4. Types' /\ SlotsInPlace'
  BY DEF PacingInv, Types, SlotsInPlace
<1>5. QED
  BY <1>3, <1>4 DEF PacingInv

(* Rounded up to a multiple of MinSlots, a rate is a natural number.       *)
LEMMA ClientRatePacing ==
  ASSUME PacingInv, ClientRate
  PROVE  PacingInv'
<1>1. rateMsgs \in Seq([num : Nat]) /\ rateMsgs # << >> /\ rateMsgs' = Tail(rateMsgs)
  BY DEF PacingInv, Types, ClientRate
<1>2. rateMsgs' \in Seq([num : Nat]) /\ Head(rateMsgs) \in [num : Nat]
  BY <1>1, FirstTaken, Zenon
<1>3. PICK n \in Nat : n = Head(rateMsgs).num
  BY <1>2
<1>4. PICK k \in Nat : k = (IF n > 1 THEN n ELSE 1)
  OBVIOUS
<1>5. numSlots' = Align(k)
  BY <1>3, <1>4 DEF ClientRate
<1>6. k + MinSlots - 1 \in Nat
  BY ConstantTypes
<1>7. PICK d \in Nat : d = (k + MinSlots - 1) \div MinSlots
  BY <1>6, ConstantTypes, DivMod
<1>8. Align(k) = d * MinSlots
  BY <1>7 DEF Align
<1>9. numSlots' \in Nat
  BY <1>5, <1>8, ConstantTypes
<1>10. UNCHANGED <<now, epoch, epochs, current, assigned, consumed, known, epochMsgs,
                   slotsMsgs>>
  BY DEF ClientRate, paceVars, serverVars
<1>11. QED
  BY <1>2, <1>9, <1>10, RatePacing

(* The client stores an epoch of the ledger.                               *)
LEMMA NewEpochPacing ==
  ASSUME PacingInv, ClientNewEpoch
  PROVE  PacingInv'
<1>0. Types /\ SlotsInPlace
  BY DEF PacingInv
<1>1. PICK G : Explains(G)
  BY DEF PacingInv
<1> DEFINE E == [begin : Nat, num : Nat, due : Nat]
           P == [begin : Nat, first : Nat, last : Nat]
           m == Head(epochMsgs)
           e == [begin |-> m.begin, first |-> assigned, last |-> assigned + m.num]
<1>2. /\ epochMsgs # << >> /\ epochMsgs' = Tail(epochMsgs)
      /\ epochs' = Append(epochs, e) /\ assigned' = assigned + m.num
      /\ now' = now /\ epoch' = epoch /\ numSlots' = numSlots /\ rateMsgs' = rateMsgs
      /\ current' = current /\ consumed' = consumed /\ known' = known
      /\ slotsMsgs' = slotsMsgs
  BY DEF ClientNewEpoch, orderVars, serverVars
<1>3. /\ G \in Seq(Announcement) /\ Rising(G)
      /\ Backlog(G, epochMsgs, assigned) /\ BeginsLater(G, epochMsgs)
      /\ \A i \in 1 .. Len(epochs) : IsEpoch(G, epochs[i])
  BY <1>1 DEF Explains
<1>4. epochMsgs \in Seq(E) /\ assigned \in Nat /\ epochs \in Seq(P)
  BY <1>0 DEF Types
<1>5. m \in E /\ epochMsgs' \in Seq(E) /\ m = epochMsgs[1]
  <2> HIDE DEF E
  <2>1. QED
    BY <1>2, <1>4, FirstTaken, Zenon
<1>6. m.begin \in Nat /\ m.num \in Nat
  BY <1>5
<1>7. e \in P /\ e.begin = m.begin /\ e.first = assigned /\ e.last = assigned + m.num
  BY <1>4, <1>6
<1> HIDE DEF E, P, e, m
<1>8. /\ Backlog(G, epochMsgs', assigned') /\ Len(epochMsgs') = Len(epochMsgs) - 1
      /\ assigned' \in Nat
      /\ \A i \in 1 .. Len(epochMsgs') : epochMsgs'[i] = epochMsgs[i + 1]
  <2>1. epochMsgs' = Tail(epochMsgs) /\ assigned' = assigned + Head(epochMsgs).num
        /\ epochMsgs # << >>
    BY <1>2 DEF m
  <2>2. Backlog(G, epochMsgs', assigned') /\ assigned' \in Nat
    BY <1>3, <1>4, <2>1, BacklogTakes, Zenon
  <2>3. Len(epochMsgs') = Len(epochMsgs) - 1
        /\ \A i \in 1 .. Len(epochMsgs') : epochMsgs'[i] = epochMsgs[i + 1]
    BY <1>4, <2>1, FirstTaken, Zenon
  <2>4. QED
    BY <2>2, <2>3
<1>9. Len(epochMsgs) \in Nat \ {0} /\ Len(G) \in Nat /\ Len(epochMsgs) <= Len(G)
  BY <1>2, <1>3, <1>4 DEF Backlog
<1>a. Len(G) - Len(epochMsgs) \in Nat
  BY <1>9
<1>b. PICK b \in Nat : b = Len(G) - Len(epochMsgs)
  BY <1>a, Zenon
<1>10. BeginsLater(G, epochMsgs')
  <2> SUFFICES ASSUME NEW i \in 1 .. Len(epochMsgs')
               PROVE  epochMsgs'[i].begin = G[Len(G) - Len(epochMsgs') + i].at + Duration
    BY DEF BeginsLater
  <2>1. i + 1 \in 1 .. Len(epochMsgs) /\ b + (i + 1) = Len(G) - Len(epochMsgs') + i
    BY <1>8, <1>9, <1>b
  <2>2. epochMsgs[i + 1].begin = G[b + (i + 1)].at + Duration
    BY <1>3, <1>b, <2>1, Zenon DEF BeginsLater
  <2>3. epochMsgs'[i] = epochMsgs[i + 1]
    BY <1>8
  <2>4. QED
    BY <2>1, <2>2, <2>3
<1>11. IsEpoch(G, e)
  <2>1. 1 \in 1 .. Len(epochMsgs) /\ b + 1 \in 1 .. Len(G) /\ b + 1 - 1 = b
        /\ b \in 0 .. Len(G) /\ b + 1 \in 0 .. Len(G)
    BY <1>9, <1>b
  <2>2. epochMsgs[1].begin = G[b + 1].at + Duration
    BY <1>3, <1>b, <2>1, Zenon DEF BeginsLater
  <2>3. assigned = Total(G, b)
    BY <1>3, <1>b, Zenon DEF Backlog
  <2>4. epochMsgs[1].num = Total(G, b + 1) - Total(G, b + 1 - 1)
    BY <1>3, <1>b, <2>1, Zenon DEF Backlog
  <2>5. Total(G, b) \in Nat /\ Total(G, b + 1) \in Nat
    BY <1>3, <2>1, TotalMonotone
  <2>6. e.last = Total(G, b + 1)
    BY <1>5, <1>7, <2>1, <2>3, <2>4, <2>5
  <2>7. e.begin = G[b + 1].at + Duration /\ e.first = Total(G, b + 1 - 1)
    BY <1>5, <1>7, <2>1, <2>2, <2>3
  <2>8. QED
    BY <2>1, <2>6, <2>7 DEF IsEpoch
<1>12. epochs' \in Seq(P) /\ \A i \in 1 .. Len(epochs') : IsEpoch(G, epochs'[i])
  <2>1. /\ epochs' \in Seq(P) /\ Len(epochs') = Len(epochs) + 1 /\ Len(epochs) \in Nat
        /\ epochs'[Len(epochs) + 1] = e
        /\ \A i \in 1 .. Len(epochs) : epochs'[i] = epochs[i]
    BY <1>2, <1>4, <1>7
  <2>2. ASSUME NEW i \in 1 .. Len(epochs') PROVE IsEpoch(G, epochs'[i])
    <3>1. CASE i \in 1 .. Len(epochs)
      BY <1>3, <2>1, <3>1
    <3>2. CASE i = Len(epochs) + 1
      BY <1>11, <2>1, <3>2
    <3>3. QED
      BY <2>1, <3>1, <3>2
  <2>3. QED
    BY <2>1, <2>2
<1>13. clock' = clock
  BY <1>2 DEF clock
<1>14. Explains(G)'
  BY <1>1, <1>2, <1>8, <1>10, <1>12, <1>13 DEF Explains
<1>15. Types'
  BY <1>0, <1>2, <1>5, <1>8, <1>12 DEF Types, E, P
<1>16. SlotsInPlace'
  BY <1>0, <1>2 DEF SlotsInPlace
<1>17. QED
  BY <1>14, <1>15, <1>16 DEF PacingInv

(* What a turn of the client's loop may do to the slots used.              *)
LEMMA TurnUses ==
  ASSUME NEW e, SendRequest(e) \/ SendNop(e) \/ SendNothing(e), consumed \in Nat
  PROVE  consumed' = consumed \/ (MaySend(e) /\ consumed' = consumed + (Ideal(e) - consumed))
BY DEF SendRequest, SendNop, SendNothing, Send

(* A turn of the client's loop.                                            *)
LEMMA TurnPacing ==
  ASSUME InTime, PacingInv, Turn
  PROVE  PacingInv'
<1>0. Types /\ SlotsInPlace
  BY DEF PacingInv
<1>1. PICK G : Explains(G)
  BY DEF PacingInv
<1> DEFINE P == [begin : Nat, first : Nat, last : Nat]
           e == IF Begins THEN Head(epochs) ELSE current
<1>2. /\ EstimateRate /\ SwitchEpoch /\ (SendRequest(e) \/ SendNop(e) \/ SendNothing(e))
      /\ now' = now /\ epoch' = epoch /\ numSlots' = numSlots /\ assigned' = assigned
      /\ known' = known /\ epochMsgs' = epochMsgs /\ slotsMsgs' = slotsMsgs
  BY DEF Turn, orderVars, serverVars
<1>3. /\ G \in Seq(Announcement)
      /\ \A i \in 1 .. Len(epochs) : IsEpoch(G, epochs[i])
      /\ current = FirstEpoch \/ (IsEpoch(G, current) /\ current.begin <= clock)
  BY <1>1 DEF Explains
<1>4. epochs \in Seq(P) /\ consumed \in Nat /\ known \in [Servers -> Nat]
      /\ rateMsgs \in Seq([num : Nat])
  BY <1>0 DEF Types
<1> HIDE DEF P
<1>5. rateMsgs' \in Seq([num : Nat])
  <2>1. PICK r \in IF Begins /\ estimate /\ current # FirstEpoch THEN Rates ELSE {rate} :
          rateMsgs' = IF r = rate THEN rateMsgs ELSE Append(rateMsgs, [num |-> r])
    BY <1>2 DEF EstimateRate
  <2>2. CASE r = rate
    BY <1>4, <2>1, <2>2
  <2>3. CASE r # rate
    <3>1. r \in Nat
      BY <2>1, <2>3, ConstantTypes
    <3>2. [num |-> r] \in [num : Nat]
      BY <3>1
    <3>3. QED
      BY <1>4, <2>1, <2>3, <3>2
  <2>4. QED
    BY <2>2, <2>3
<1>6. e = FirstEpoch \/ (IsEpoch(G, e) /\ e.begin <= clock)
  <2>1. CASE Begins
    <3>1. epochs # << >> /\ Head(epochs).begin <= clock /\ e = Head(epochs)
      BY <2>1 DEF Begins
    <3>2. Head(epochs) = epochs[1] /\ Len(epochs) \in Nat \ {0}
      BY <1>4, <3>1, FirstTaken, Zenon
    <3>3. 1 \in 1 .. Len(epochs)
      BY <3>2
    <3>4. IsEpoch(G, epochs[1])
      BY <1>3, <3>3
    <3>5. QED
      BY <3>1, <3>2, <3>4, Zenon
  <2>2. CASE ~ Begins
    BY <1>3, <2>2
  <2>3. QED
    BY <2>1, <2>2
<1>7. /\ current' = e /\ epochs' \in Seq(P)
      /\ \A i \in 1 .. Len(epochs') : IsEpoch(G, epochs'[i])
  <2>1. CASE Begins
    <3>1. epochs # << >> /\ current' = e /\ epochs' = Tail(epochs)
      BY <1>2, <2>1 DEF Begins, SwitchEpoch
    <3>2. /\ epochs' \in Seq(P) /\ Len(epochs') = Len(epochs) - 1 /\ Len(epochs) \in Nat \ {0}
          /\ \A i \in 1 .. Len(epochs') : epochs'[i] = epochs[i + 1]
      BY <1>4, <3>1, FirstTaken, Zenon
    <3>3. \A i \in 1 .. Len(epochs') : i + 1 \in 1 .. Len(epochs)
      BY <3>2
    <3>4. QED
      BY <1>3, <3>1, <3>2, <3>3, Zenon
  <2>2. CASE ~ Begins
    <3>1. current' = e /\ epochs' = epochs
      BY <1>2, <2>2 DEF SwitchEpoch
    <3>2. QED
      BY <1>3, <1>4, <3>1
  <2>3. QED
    BY <2>1, <2>2
<1> HIDE DEF e
<1>8. consumed' \in Nat /\ \A s \in Servers : consumed' <= known[s]
  <2>1. \A s \in Servers : consumed <= known[s]
    BY <1>0 DEF SlotsInPlace
  <2>2. CASE consumed' = consumed
    BY <1>4, <2>1, <2>2
  <2>3. CASE MaySend(e) /\ consumed' = consumed + (Ideal(e) - consumed)
    <3>1. consumed < Ideal(e) /\ InEpoch(e)
      BY <2>3 DEF MaySend
    <3>2. CASE e = FirstEpoch
      <4>1. PICK t \in Int : t = clock - FirstEpoch.begin
        BY <1>0, ConstantTypes DEF clock, FirstEpoch, Types
      <4>2. Ideal(e) = 0 + ((0 - 0) * t) \div Duration
        BY <3>2, <4>1 DEF Ideal, FirstEpoch
      <4>3. (0 - 0) * t = 0 * Duration
        BY <4>1, ConstantTypes
      <4>4. 0 \div Duration = 0
        BY ConstantTypes
      <4>5. Ideal(e) = 0
        BY <4>2, <4>3, <4>4, ConstantTypes
      <4>6. QED
        BY <1>4, <3>1, <4>5
    <3>3. CASE IsEpoch(G, e) /\ e.begin <= clock
      <4>1. Ideal(e) \in Nat /\ \A s \in Servers : Ideal(e) <= known[s]
        BY <1>0, <1>1, <3>1, <3>3, IdealInPlace, Zenon
      <4>2. consumed' = Ideal(e)
        BY <1>4, <2>3, <4>1
      <4>3. QED
        BY <4>1, <4>2
    <3>4. QED
      BY <1>6, <3>2, <3>3
  <2>4. QED
    BY <1>2, <1>4, <2>2, <2>3, TurnUses, Zenon
<1>9. clock' = clock
  BY <1>2 DEF clock
<1>10. Explains(G)'
  <2>1. current' = FirstEpoch \/ (IsEpoch(G, current') /\ current'.begin <= clock')
    BY <1>6, <1>7, <1>9, Zenon
  <2>2. QED
    BY <1>1, <1>2, <1>7, <2>1 DEF Explains
<1>11. Types'
  BY <1>0, <1>2, <1>5, <1>7, <1>8 DEF Types, P
<1>12. SlotsInPlace'
  BY <1>2, <1>8 DEF SlotsInPlace
<1>13. QED
  BY <1>10, <1>11, <1>12 DEF PacingInv

(* A server handles the slots of an announcement.                          *)
LEMMA StorageSlotsPacing ==
  ASSUME PacingInv, NEW s \in Servers, StorageSlots(s)
  PROVE  PacingInv'
<1>0. Types /\ SlotsInPlace
  BY DEF PacingInv
<1>1. PICK G : Explains(G)
  BY DEF PacingInv
<1> DEFINE M == [num : Nat, due : Nat]
<1>2. /\ slotsMsgs[s] # << >>
      /\ known' = [known EXCEPT ![s] = known[s] + Head(slotsMsgs[s]).num]
      /\ slotsMsgs' = [slotsMsgs EXCEPT ![s] = Tail(slotsMsgs[s])]
      /\ now' = now /\ epoch' = epoch /\ numSlots' = numSlots /\ assigned' = assigned
      /\ epochs' = epochs /\ current' = current /\ consumed' = consumed
      /\ rateMsgs' = rateMsgs /\ epochMsgs' = epochMsgs
  BY DEF StorageSlots, orderVars, paceVars
<1>3. /\ G \in Seq(Announcement) /\ Rising(G)
      /\ \A r \in Servers :
           /\ Backlog(G, slotsMsgs[r], known[r])
           /\ \A i \in 1 .. Len(slotsMsgs[r]) : slotsMsgs[r][i].due >= now
  BY <1>1 DEF Explains
<1>4. slotsMsgs \in [Servers -> Seq(M)] /\ known \in [Servers -> Nat] /\ consumed \in Nat
  BY <1>0 DEF Types
<1>5. Head(slotsMsgs[s]) \in M
  <2> HIDE DEF M
  <2>1. QED
    BY <1>2, <1>4, FirstTaken, Zenon
<1>6. Head(slotsMsgs[s]).num \in Nat
  BY <1>5
<1> HIDE DEF M
<1>7. /\ slotsMsgs'[s] = Tail(slotsMsgs[s]) /\ known'[s] = known[s] + Head(slotsMsgs[s]).num
      /\ \A r \in Servers : r # s => slotsMsgs'[r] = slotsMsgs[r] /\ known'[r] = known[r]
  BY <1>2, <1>4
<1>8. /\ slotsMsgs'[s] \in Seq(M) /\ Len(slotsMsgs'[s]) = Len(slotsMsgs[s]) - 1
      /\ Len(slotsMsgs[s]) \in Nat \ {0}
      /\ \A i \in 1 .. Len(slotsMsgs'[s]) : slotsMsgs'[s][i] = slotsMsgs[s][i + 1]
  <2>1. slotsMsgs[s] \in Seq(M)
    BY <1>4
  <2>2. PICK q \in Seq(M) : q = slotsMsgs[s]
    BY <2>1, Zenon
  <2>3. q # << >> /\ slotsMsgs'[s] = Tail(q)
    BY <1>2, <1>7, <2>2, Zenon
  <2>4. QED
    BY <2>2, <2>3, FirstTaken
<1>9. Backlog(G, slotsMsgs'[s], known'[s])
  BY <1>2, <1>3, <1>4, <1>7, BacklogTakes, Zenon
<1>10. \A i \in 1 .. Len(slotsMsgs'[s]) : slotsMsgs'[s][i].due >= now
  <2>1. \A i \in 1 .. Len(slotsMsgs'[s]) : i + 1 \in 1 .. Len(slotsMsgs[s])
    BY <1>8
  <2>2. QED
    BY <1>3, <1>8, <2>1, Zenon
<1>11. \A r \in Servers :
         /\ Backlog(G, slotsMsgs'[r], known'[r])
         /\ \A i \in 1 .. Len(slotsMsgs'[r]) : slotsMsgs'[r][i].due >= now
  BY <1>3, <1>7, <1>9, <1>10, Zenon
<1>12. clock' = clock
  BY <1>2 DEF clock
<1>13. Explains(G)'
  BY <1>1, <1>2, <1>11, <1>12 DEF Explains
<1>14. Types'
  <2>1. known' \in [Servers -> Nat]
    BY <1>2, <1>4, <1>6
  <2>2. slotsMsgs' \in [Servers -> Seq(M)]
    BY <1>2, <1>4, <1>7, <1>8
  <2>3. QED
    BY <1>0, <1>2, <2>1, <2>2 DEF Types, M
<1>15. SlotsInPlace'
  <2>1. \A r \in Servers : consumed <= known[r] /\ known[r] \in Nat
    BY <1>0, <1>4 DEF SlotsInPlace
  <2>2. consumed <= known[s] + Head(slotsMsgs[s]).num
    BY <1>4, <1>6, <2>1
  <2>3. \A r \in Servers : consumed <= known'[r]
    BY <1>7, <2>1, <2>2, Zenon
  <2>4. QED
    BY <1>2, <2>3 DEF SlotsInPlace
<1>16. QED
  BY <1>13, <1>14, <1>15 DEF PacingInv

(* The first message of a queue is the first to be due.                    *)
LEMMA NoneIsDue ==
  ASSUME NEW G \in Seq(Announcement), Rising(G), NEW S, NEW q \in Seq(S), q # << >>,
         NEW n, Backlog(G, q, n), NEW t \in Nat, ~ (Head(q).due <= t)
  PROVE  \A i \in 1 .. Len(q) : q[i].due >= t + 1
<1> TAKE i \in 1 .. Len(q)
<1>1. Head(q) = q[1] /\ Len(q) \in Nat \ {0}
  BY FirstTaken, Zenon
<1>2. PICK g \in Nat : g = Len(G)
  OBVIOUS
<1>3. PICK l \in Nat \ {0} : l = Len(q)
  BY <1>1, Zenon
<1>4. l <= g
  BY <1>2, <1>3 DEF Backlog
<1>5. PICK b \in Nat : b = g - l
  BY <1>4
<1>6. /\ 1 \in 1 .. l /\ b + 1 \in 1 .. g /\ b + i \in 1 .. g /\ i \in 1 .. l
      /\ (i = 1 \/ b + 1 < b + i)
  BY <1>3, <1>4, <1>5
<1>7. /\ q[1].due = G[b + 1].at + OrderDelay
      /\ q[i].due = G[b + i].at + OrderDelay
  BY <1>2, <1>3, <1>5, <1>6, Zenon DEF Backlog
<1>8. i = 1 \/ G[b + 1].at < G[b + i].at
  BY <1>2, <1>6 DEF Rising
<1>9. G[b + 1] \in Announcement /\ G[b + i] \in Announcement
  BY <1>2, <1>6
<1>10. PICK x \in Nat, y \in Nat : x = G[b + 1].at /\ y = G[b + i].at
  BY <1>9 DEF Announcement
<1>11. x <= y
  BY <1>8, <1>10
<1>12. x + OrderDelay > t
  <2>1. ~ (x + OrderDelay <= t)
    BY <1>1, <1>7, <1>10
  <2>2. QED
    BY <2>1, ConstantTypes
<1>13. y + OrderDelay >= t + 1
  BY <1>11, <1>12, ConstantTypes
<1>14. QED
  BY <1>7, <1>10, <1>13

(* Time passes.                                                            *)
LEMMA TickPacing ==
  ASSUME PacingInv, Tick
  PROVE  PacingInv'
<1>0. Types /\ SlotsInPlace
  BY DEF PacingInv
<1>1. PICK G : Explains(G)
  BY DEF PacingInv
<1> DEFINE M == [num : Nat, due : Nat]
<1>2. /\ \A s \in Servers : ~ Due(slotsMsgs[s])
      /\ now' = now + 1 /\ epoch' = epoch /\ numSlots' = numSlots /\ assigned' = assigned
      /\ epochs' = epochs /\ current' = current /\ consumed' = consumed /\ known' = known
      /\ rateMsgs' = rateMsgs /\ epochMsgs' = epochMsgs /\ slotsMsgs' = slotsMsgs
  BY DEF Tick, orderVars, paceVars, serverVars, msgVars
<1>3. /\ G \in Seq(Announcement) /\ Rising(G)
      /\ \A s \in Servers : Backlog(G, slotsMsgs[s], known[s])
      /\ current = FirstEpoch \/ (IsEpoch(G, current) /\ current.begin <= clock)
  BY <1>1 DEF Explains
<1>4. slotsMsgs \in [Servers -> Seq(M)] /\ now \in Nat
  BY <1>0 DEF Types
<1> HIDE DEF M
<1>5. \A j \in 1 .. Len(G) : G[j].at \in Nat
  <2>1. \A j \in 1 .. Len(G) : G[j] \in Announcement
    BY <1>3
  <2>2. QED
    BY <2>1 DEF Announcement
<1>6. ASSUME NEW s \in Servers, NEW i \in 1 .. Len(slotsMsgs[s])
      PROVE  slotsMsgs[s][i].due >= now + 1
  <2>1. slotsMsgs[s] \in Seq(M) /\ slotsMsgs[s] # << >>
    BY <1>4
  <2>2. ~ (Head(slotsMsgs[s]).due <= now)
    BY <1>2, <2>1 DEF Due
  <2>3. QED
    BY <1>3, <1>4, <2>1, <2>2, NoneIsDue, Zenon
<1>7. current = FirstEpoch \/ (IsEpoch(G, current) /\ current.begin <= clock')
  <2>1. CASE current = FirstEpoch
    BY <2>1
  <2>2. CASE IsEpoch(G, current) /\ current.begin <= clock
    <3>1. PICK j \in 1 .. Len(G) : current.begin = G[j].at + Duration
      BY <2>2 DEF IsEpoch
    <3>2. current.begin \in Nat
      BY <1>5, <3>1, ConstantTypes
    <3>3. clock \in Nat /\ clock' = clock + 1
      BY <1>2, <1>4, ConstantTypes DEF clock
    <3>4. QED
      BY <2>2, <3>2, <3>3
  <2>3. QED
    BY <1>3, <2>1, <2>2
<1>8. Explains(G)'
  BY <1>1, <1>2, <1>6, <1>7 DEF Explains
<1>9. Types'
  BY <1>0, <1>2 DEF Types
<1>10. SlotsInPlace'
  BY <1>0, <1>2 DEF SlotsInPlace
<1>11. QED
  BY <1>8, <1>9, <1>10 DEF PacingInv

(* Every step keeps the invariant.                                         *)
LEMMA NextPacing ==
  ASSUME InTime, PacingInv, [Next]_vars
  PROVE  PacingInv'
<1> DEFINE same == UNCHANGED <<now, epoch, numSlots, rateMsgs, epochs, current, assigned,
                               consumed, known, epochMsgs, slotsMsgs>>
<1>1. same => PacingInv'
  <2>1. numSlots \in Nat /\ rateMsgs \in Seq([num : Nat])
    BY DEF PacingInv, Types
  <2>2. QED
    BY <2>1, RatePacing
<1>2. ASSUME NEW s \in Servers, InsertAck(s) PROVE same
  BY <1>2 DEF InsertAck, orderVars, paceVars, serverVars
<1>3. ASSUME NEW s \in Servers, StorageInsert(s) PROVE same
  BY <1>3 DEF StorageInsert, orderVars, paceVars
<1>4. ASSUME Generate PROVE same
  BY <1>4 DEF Generate, orderVars, paceVars, serverVars, msgVars
<1>5. ASSUME UNCHANGED vars PROVE same
  BY <1>5 DEF vars, orderVars, paceVars, serverVars, msgVars
<1> HIDE DEF same
<1>6. CASE Order
  BY <1>6, EpochPacing, ClientRatePacing DEF Order
<1>7. CASE Client
  BY <1>1, <1>2, <1>7, NewEpochPacing, TurnPacing, Zenon DEF Client
<1>8. CASE Storage
  BY <1>1, <1>3, <1>8, StorageSlotsPacing, Zenon DEF Storage
<1>9. CASE Generate
  BY <1>1, <1>4, <1>9
<1>10. CASE Tick
  BY <1>10, TickPacing
<1>11. CASE UNCHANGED vars
  BY <1>1, <1>5, <1>11
<1>12. QED
  BY <1>6, <1>7, <1>8, <1>9, <1>10, <1>11, Zenon DEF Next

(* With messages of the ordering service handled within an epoch, less     *)
(* what the client's clock is ahead, a client never uses a slot that one   *)
(* of its servers does not have (client.cpp:280): whatever the rates that  *)
(* it asks for, its pauses, and the pace of servers and application.       *)
THEOREM SlotsAreInPlace == InTime => (Spec => []SlotsInPlace)
<1> SUFFICES ASSUME InTime PROVE Spec => []SlotsInPlace
  OBVIOUS
<1>1. Init => PacingInv
  BY InitPacing
<1>2. PacingInv /\ [Next]_vars => PacingInv'
  BY NextPacing
<1>3. PacingInv => SlotsInPlace
  BY DEF PacingInv
<1>4. QED
  BY <1>1, <1>2, <1>3, PTL DEF Spec

-----------------------------------------------------------------------------
(* Types of the pacing state, whatever the delays.                         *)

EpochSet == [begin : Nat, first : Nat, last : Nat]

PaceTypes == Types /\ current \in EpochSet

(* The place of the client in an epoch is a number.                        *)
LEMMA IdealType ==
  ASSUME now \in Nat, NEW e \in EpochSet
  PROVE  Ideal(e) \in Int
<1>1. PICK w \in Int : w = e.last - e.first
  BY DEF EpochSet
<1>2. PICK t \in Int : t = clock - e.begin
  BY ConstantTypes DEF clock, EpochSet
<1>3. PICK x \in Int : x = w * t
  OBVIOUS
<1>4. x \div Duration \in Int
  BY ConstantTypes
<1>5. e.first \in Nat
  BY DEF EpochSet
<1>6. Ideal(e) = e.first + (x \div Duration)
  BY <1>1, <1>2, <1>3, Zenon DEF Ideal
<1>7. QED
  BY <1>4, <1>5, <1>6

(* The epoch of a turn.                                                    *)
LEMMA TurnEpoch ==
  ASSUME PaceTypes, SwitchEpoch
  PROVE  /\ (IF Begins THEN Head(epochs) ELSE current) \in EpochSet
         /\ current' = IF Begins THEN Head(epochs) ELSE current
         /\ epochs' \in Seq(EpochSet)
<1>1. epochs \in Seq(EpochSet) /\ current \in EpochSet
  BY DEF PaceTypes, Types, EpochSet
<1>2. CASE Begins
  <2>1. epochs # << >> /\ current' = Head(epochs) /\ epochs' = Tail(epochs)
    BY <1>2 DEF Begins, SwitchEpoch
  <2>2. Head(epochs) \in EpochSet /\ Tail(epochs) \in Seq(EpochSet)
    BY <1>1, <2>1, FirstTaken, Zenon
  <2>3. QED
    BY <1>2, <2>1, <2>2
<1>3. CASE ~ Begins
  BY <1>1, <1>3 DEF SwitchEpoch
<1>4. QED
  BY <1>2, <1>3

(* Every step keeps the types.                                             *)
LEMMA NextTypes ==
  ASSUME PaceTypes, [Next]_vars
  PROVE  PaceTypes'
<1> USE DEF PaceTypes
<1> DEFINE same == UNCHANGED <<now, epoch, numSlots, rateMsgs, epochs, current, assigned,
                               consumed, known, epochMsgs, slotsMsgs>>
<1>1. same => PaceTypes'
  BY DEF Types
<1>2. ASSUME NEW s \in Servers, InsertAck(s) PROVE same
  BY <1>2 DEF InsertAck, orderVars, paceVars, serverVars
<1>3. ASSUME NEW s \in Servers, StorageInsert(s) PROVE same
  BY <1>3 DEF StorageInsert, orderVars, paceVars
<1>4. ASSUME Generate PROVE same
  BY <1>4 DEF Generate, orderVars, paceVars, serverVars, msgVars
<1>5. ASSUME UNCHANGED vars PROVE same
  BY <1>5 DEF vars, orderVars, paceVars, serverVars, msgVars
<1> HIDE DEF same
<1>6. CASE Epoch
  <2>1. [begin |-> EpochBegin, num |-> numSlots, due |-> now + OrderDelay]
          \in [begin : Nat, num : Nat, due : Nat]
    BY ConstantTypes DEF Types, EpochBegin
  <2>2. [num |-> numSlots, due |-> now + OrderDelay] \in [num : Nat, due : Nat]
    BY ConstantTypes DEF Types
  <2>3. epochMsgs' \in Seq([begin : Nat, num : Nat, due : Nat])
    BY <1>6, <2>1 DEF Epoch, Types
  <2>4. slotsMsgs' \in [Servers -> Seq([num : Nat, due : Nat])]
    BY <1>6, <2>2 DEF Epoch, Types
  <2>5. epoch' \in Int
    BY <1>6, ConstantTypes DEF Epoch, Types
  <2>6. QED
    BY <1>6, <2>3, <2>4, <2>5 DEF Epoch, Types, paceVars, serverVars
<1>7. CASE ClientRate
  <2>1. rateMsgs \in Seq([num : Nat]) /\ rateMsgs # << >> /\ rateMsgs' = Tail(rateMsgs)
    BY <1>7 DEF Types, ClientRate
  <2>2. rateMsgs' \in Seq([num : Nat]) /\ Head(rateMsgs) \in [num : Nat]
    BY <2>1, FirstTaken, Zenon
  <2>3. PICK n \in Nat : n = Head(rateMsgs).num
    BY <2>2
  <2>4. PICK k \in Nat : k = (IF n > 1 THEN n ELSE 1)
    OBVIOUS
  <2>5. numSlots' = Align(k)
    BY <1>7, <2>3, <2>4 DEF ClientRate
  <2>6. k + MinSlots - 1 \in Nat
    BY ConstantTypes
  <2>7. PICK d \in Nat : d = (k + MinSlots - 1) \div MinSlots
    BY <2>6, ConstantTypes, DivMod
  <2>8. numSlots' \in Nat
    BY <2>5, <2>7, ConstantTypes DEF Align
  <2>9. QED
    BY <1>7, <2>2, <2>8 DEF ClientRate, Types, paceVars, serverVars
<1>8. CASE ClientNewEpoch
  <2>1. /\ Head(epochMsgs) \in [begin : Nat, num : Nat, due : Nat]
        /\ Tail(epochMsgs) \in Seq([begin : Nat, num : Nat, due : Nat])
    <3>1. epochMsgs \in Seq([begin : Nat, num : Nat, due : Nat]) /\ epochMsgs # << >>
      BY <1>8 DEF ClientNewEpoch, Types
    <3>2. QED
      BY <3>1, FirstTaken, Zenon
  <2>2. PICK m : m = Head(epochMsgs)
    OBVIOUS
  <2>3. m.begin \in Nat /\ m.num \in Nat /\ assigned + m.num \in Nat
    BY <2>1, <2>2 DEF Types
  <2>4. [begin |-> m.begin, first |-> assigned, last |-> assigned + m.num]
          \in [begin : Nat, first : Nat, last : Nat]
    BY <2>3 DEF Types
  <2>5. /\ epochs' = Append(epochs, [begin |-> m.begin, first |-> assigned,
                                     last |-> assigned + m.num])
        /\ assigned' = assigned + m.num /\ epochMsgs' = Tail(epochMsgs)
    BY <1>8, <2>2 DEF ClientNewEpoch
  <2>6. epochs' \in Seq([begin : Nat, first : Nat, last : Nat])
    BY <2>4, <2>5 DEF Types
  <2>7. QED
    BY <1>8, <2>1, <2>3, <2>5, <2>6 DEF ClientNewEpoch, Types, orderVars, serverVars
<1>9. CASE Turn
  <2> DEFINE e == IF Begins THEN Head(epochs) ELSE current
  <2>1. EstimateRate /\ SwitchEpoch /\ (SendRequest(e) \/ SendNop(e) \/ SendNothing(e))
    BY <1>9 DEF Turn
  <2>2. e \in EpochSet /\ current' = e /\ epochs' \in Seq(EpochSet)
    BY <2>1, TurnEpoch
  <2> HIDE DEF e
  <2>3. rateMsgs' \in Seq([num : Nat])
    <3>1. PICK r \in IF Begins /\ estimate /\ current # FirstEpoch THEN Rates ELSE {rate} :
            rateMsgs' = IF r = rate THEN rateMsgs ELSE Append(rateMsgs, [num |-> r])
      BY <2>1 DEF EstimateRate
    <3>2. rateMsgs \in Seq([num : Nat])
      BY DEF Types
    <3>3. CASE r = rate
      BY <3>1, <3>2, <3>3
    <3>4. CASE r # rate
      <4>1. [num |-> r] \in [num : Nat]
        BY <3>1, <3>4, ConstantTypes
      <4>2. QED
        BY <3>1, <3>2, <3>4, <4>1
    <3>5. QED
      BY <3>3, <3>4
  <2>4. consumed' \in Nat
    <3>1. consumed \in Nat /\ Ideal(e) \in Int
      BY <2>2, IdealType DEF Types
    <3>2. CASE consumed' = consumed
      BY <3>1, <3>2
    <3>3. CASE MaySend(e) /\ consumed' = consumed + (Ideal(e) - consumed)
      BY <3>1, <3>3 DEF MaySend
    <3>4. QED
      BY <2>1, <3>1, <3>2, <3>3, TurnUses, Zenon
  <2>5. QED
    BY <1>9, <2>2, <2>3, <2>4 DEF Turn, Types, orderVars, serverVars, EpochSet
<1>10. ASSUME NEW s \in Servers, StorageSlots(s) PROVE PaceTypes'
  <2>1. /\ Head(slotsMsgs[s]) \in [num : Nat, due : Nat]
        /\ Tail(slotsMsgs[s]) \in Seq([num : Nat, due : Nat])
    <3>1. slotsMsgs[s] \in Seq([num : Nat, due : Nat]) /\ slotsMsgs[s] # << >>
      BY <1>10 DEF StorageSlots, Types
    <3>2. QED
      BY <3>1, FirstTaken, Zenon
  <2>2. Head(slotsMsgs[s]).num \in Nat
    BY <2>1
  <2>3. QED
    BY <1>10, <2>1, <2>2, SMTT(30) DEF StorageSlots, Types, orderVars, paceVars
<1>11. CASE Tick
  BY <1>11 DEF Tick, Types, orderVars, paceVars, serverVars, msgVars
<1>12. QED
  BY <1>1, <1>2, <1>3, <1>4, <1>5, <1>6, <1>7, <1>8, <1>9, <1>10, <1>11, Zenon
  DEF Next, Order, Client, Storage

-----------------------------------------------------------------------------
(* Requests under way: the ledger H of all that the client has sent, each  *)
(* with the GSN that the servers will acknowledge it with, and for every   *)
(* server the number a[s] of its acknowledgements that the client has      *)
(* handled.  Both are ghosts.                                              *)

Sending == [req : Nat, gsn : Nat \ {0}]
Insert == [req : Nat, num : Nat, due : Nat]
Ack == [gsn : Nat, due : Nat]
Pending == [req : Nat, gsn : Nat, acks : Nat]

(* The slots used up to the j-th sending.                                  *)
Mark(H, j) == IF j = 0 THEN 0 ELSE H[j].gsn

(* GSNs rise, and so do the requests, of which n have been sent.           *)
Numbered(H, n) ==
  /\ \A j, k \in 1 .. Len(H) : j < k => H[j].gsn < H[k].gsn
  /\ \A j, k \in 1 .. Len(H) :
       j < k /\ H[j].req # NoOp /\ H[k].req # NoOp => H[j].req < H[k].req
  /\ \A j \in 1 .. Len(H) : H[j].req <= n

(* A server: n acknowledgements handled by the client, the next ones in    *)
(* the queue acks, and all later sendings in the queue ins.                *)
Served(H, n, acks, ins, u) ==
  /\ Len(H) = n + Len(acks) + Len(ins)
  /\ u = Mark(H, n + Len(acks))
  /\ \A i \in 1 .. Len(acks) : acks[i].gsn = H[n + i].gsn
  /\ \A i \in 1 .. Len(ins) :
       /\ ins[i].req = H[n + Len(acks) + i].req
       /\ ins[i].num = Mark(H, n + Len(acks) + i) - Mark(H, n + Len(acks) + i - 1)

(* The servers that have acknowledged the j-th sending.                    *)
Ackers(a, j) == {s \in Servers : a[s] >= j}

(* The client: the first d sendings are settled, out holds the others.     *)
Settled(H, a, d, out, last, resp) ==
  /\ Len(H) = d + Len(out) /\ last = Mark(H, d)
  /\ \A i \in 1 .. Len(out) :
       /\ out[i].req = H[d + i].req
       /\ out[i].acks = Cardinality(Ackers(a, d + i))
       /\ out[i].gsn = IF Ackers(a, d + i) = {} THEN NoGsn ELSE H[d + i].gsn
  /\ d > 0 => Cardinality(Ackers(a, d)) > Failures
  /\ Cardinality(Ackers(a, d + 1)) <= Failures
  /\ \A r \in resp : r # NoOp /\ \E j \in 1 .. d : H[j].req = r

(* The application: requests wait in order, and the one that is generated  *)
(* a burst later shows that the response has come.                         *)
Queued(g, reqs, resp) ==
  /\ Len(reqs) <= g
  /\ \A i \in 1 .. Len(reqs) : reqs[i] = g - Len(reqs) + i
  /\ g > Burst => g - Burst \in resp

FlightTypes ==
  /\ PaceTypes
  /\ generated \in Nat /\ requests \in Seq(Nat) /\ responses \subseteq Nat
  /\ latest \in Nat /\ outstanding \in Seq(Pending)
  /\ used \in [Servers -> Nat]
  /\ insertMsgs \in [Servers -> Seq(Insert)] /\ ackMsgs \in [Servers -> Seq(Ack)]

Flight(H, a, d) ==
  /\ H \in Seq(Sending) /\ a \in [Servers -> Nat] /\ d \in Nat
  /\ Numbered(H, generated - Len(requests)) /\ consumed = Mark(H, Len(H))
  /\ \A s \in Servers : Served(H, a[s], ackMsgs[s], insertMsgs[s], used[s])
  /\ Settled(H, a, d, outstanding, latest, responses)

FlightInv ==
  /\ FlightTypes /\ Queued(generated, requests, responses)
  /\ \E H, a, d : Flight(H, a, d)

(* Marks rise.                                                             *)
LEMMA MarkRises ==
  ASSUME NEW H \in Seq(Sending), NEW n, Numbered(H, n),
         NEW j \in 0 .. Len(H), NEW k \in 0 .. Len(H)
  PROVE  /\ Mark(H, j) \in Nat /\ (j > 0 => Mark(H, j) > 0 /\ Mark(H, j) = H[j].gsn)
         /\ (j < k => Mark(H, j) < Mark(H, k))
<1>1. \A i \in 1 .. Len(H) : H[i].gsn \in Nat \ {0}
  <2>1. \A i \in 1 .. Len(H) : H[i] \in Sending
    OBVIOUS
  <2>2. QED
    BY <2>1 DEF Sending
<1>2. \A i, l \in 1 .. Len(H) : i < l => H[i].gsn < H[l].gsn
  BY DEF Numbered
<1>3. QED
  BY <1>1, <1>2 DEF Mark

(* A sending more.                                                         *)
LEMMA LedgerExtended ==
  ASSUME NEW H \in Seq(Sending), NEW m \in Sending
  PROVE  /\ Append(H, m) \in Seq(Sending) /\ Len(Append(H, m)) = Len(H) + 1
         /\ Len(H) \in Nat /\ Append(H, m)[Len(H) + 1] = m
         /\ \A j \in 1 .. Len(H) : Append(H, m)[j] = H[j]
         /\ \A j \in 0 .. Len(H) : Mark(Append(H, m), j) = Mark(H, j)
         /\ Mark(Append(H, m), Len(H) + 1) = m.gsn
<1>1. /\ Append(H, m) \in Seq(Sending) /\ Len(Append(H, m)) = Len(H) + 1
      /\ Len(H) \in Nat /\ Append(H, m)[Len(H) + 1] = m
      /\ \A j \in 1 .. Len(H) : Append(H, m)[j] = H[j]
  BY AppendProperties
<1>2. QED
  BY <1>1 DEF Mark

(* For a server, a sending more is one that it has yet to get.             *)
LEMMA ServedMore ==
  ASSUME NEW H \in Seq(Sending), NEW m \in Sending, NEW n \in Nat,
         NEW acks \in Seq(Ack), NEW ins \in Seq(Insert), NEW u,
         NEW x \in Insert, x.req = m.req, x.num = m.gsn - Mark(H, Len(H)),
         Served(H, n, acks, ins, u)
  PROVE  Served(Append(H, m), n, acks, Append(ins, x), u)
<1> DEFINE K == Append(H, m)
           ins2 == Append(ins, x)
<1>1. /\ Len(K) = Len(H) + 1 /\ Len(H) \in Nat /\ K[Len(H) + 1] = m
      /\ \A j \in 1 .. Len(H) : K[j] = H[j]
      /\ \A j \in 0 .. Len(H) : Mark(K, j) = Mark(H, j)
      /\ Mark(K, Len(H) + 1) = m.gsn
  BY LedgerExtended
<1>2. /\ Len(ins2) = Len(ins) + 1 /\ Len(ins) \in Nat /\ ins2[Len(ins) + 1] = x
      /\ \A i \in 1 .. Len(ins) : ins2[i] = ins[i]
  BY AppendProperties
<1> HIDE DEF K, ins2
<1>3. PICK h \in Nat : h = n + Len(acks)
  OBVIOUS
<1>4. Len(H) = h + Len(ins) /\ h \in 0 .. Len(H) /\ u = Mark(H, h)
  BY <1>1, <1>2, <1>3 DEF Served
<1>5. \A i \in 1 .. Len(acks) : n + i \in 1 .. Len(H) /\ acks[i].gsn = H[n + i].gsn
  BY <1>1, <1>2, <1>3, <1>4 DEF Served
<1>6. ASSUME NEW i \in 1 .. Len(ins2)
      PROVE  ins2[i].req = K[h + i].req /\ ins2[i].num = Mark(K, h + i) - Mark(K, h + i - 1)
  <2>1. CASE i \in 1 .. Len(ins)
    <3>1. h + i \in 1 .. Len(H) /\ h + i \in 0 .. Len(H) /\ h + i - 1 \in 0 .. Len(H)
      BY <1>1, <1>2, <1>4, <2>1, SMTT(30)
    <3>2. ins[i].req = H[h + i].req /\ ins[i].num = Mark(H, h + i) - Mark(H, h + i - 1)
      BY <1>3, <2>1 DEF Served
    <3>3. QED
      BY <1>1, <1>2, <2>1, <3>1, <3>2
  <2>2. CASE i = Len(ins) + 1
    <3>1. h + i = Len(H) + 1 /\ h + i - 1 = Len(H) /\ Len(H) \in 0 .. Len(H)
      BY <1>1, <1>2, <1>4, <2>2
    <3>2. QED
      BY <1>1, <1>2, <2>2, <3>1
  <2>3. QED
    BY <1>2, <2>1, <2>2
<1>7. Served(K, n, acks, ins2, u)
  <2>1. Len(K) = n + Len(acks) + Len(ins2) /\ u = Mark(K, n + Len(acks))
    BY <1>1, <1>2, <1>3, <1>4
  <2>2. \A i \in 1 .. Len(acks) : acks[i].gsn = K[n + i].gsn
    BY <1>1, <1>5
  <2>3. QED
    BY <1>3, <1>6, <2>1, <2>2 DEF Served
<1>8. QED
  BY <1>7 DEF K, ins2

(* A server gets the next sending and acknowledges it with its GSN.        *)
LEMMA ServedNext ==
  ASSUME NEW H \in Seq(Sending), NEW l, Numbered(H, l), NEW n \in Nat,
         NEW acks \in Seq(Ack), NEW ins \in Seq(Insert), ins # << >>, NEW u,
         Served(H, n, acks, ins, u), NEW x \in Ack, x.gsn = u + Head(ins).num
  PROVE  Served(H, n, Append(acks, x), Tail(ins), u + Head(ins).num)
<1> DEFINE acks2 == Append(acks, x)
           ins2 == Tail(ins)
<1>1. /\ Len(acks2) = Len(acks) + 1 /\ Len(acks) \in Nat /\ acks2[Len(acks) + 1] = x
      /\ \A i \in 1 .. Len(acks) : acks2[i] = acks[i]
  BY AppendProperties
<1>2. /\ Head(ins) = ins[1] /\ Len(ins2) = Len(ins) - 1 /\ Len(ins) \in Nat \ {0}
      /\ \A i \in 1 .. Len(ins2) : ins2[i] = ins[i + 1]
  BY FirstTaken, Zenon
<1> HIDE DEF acks2, ins2
<1>3. PICK h \in Nat : h = n + Len(acks)
  BY <1>1
<1>4. /\ Len(H) = h + Len(ins) /\ u = Mark(H, h) /\ Len(H) \in Nat
      /\ h \in 0 .. Len(H) /\ h + 1 \in 1 .. Len(H) /\ h + 1 \in 0 .. Len(H)
  <2>1. Len(H) = h + Len(ins) /\ u = Mark(H, h)
    BY <1>3 DEF Served
  <2>2. QED
    BY <1>2, <2>1
<1>5. u + Head(ins).num = Mark(H, h + 1) /\ Mark(H, h + 1) = H[h + 1].gsn
  <2>1. ins[1].num = Mark(H, h + 1) - Mark(H, h + 1 - 1)
    BY <1>2, <1>3 DEF Served
  <2>2. h + 1 - 1 = h
    OBVIOUS
  <2>3. Mark(H, h + 1) \in Nat /\ Mark(H, h) \in Nat /\ Mark(H, h + 1) = H[h + 1].gsn
    <3>1. h + 1 > 0
      OBVIOUS
    <3>2. Mark(H, h) \in Nat
      BY <1>4, MarkRises, Zenon
    <3>3. Mark(H, h + 1) \in Nat /\ (h + 1 > 0 => Mark(H, h + 1) = H[h + 1].gsn)
      BY <1>4, MarkRises, Zenon
    <3>4. QED
      BY <3>1, <3>2, <3>3
  <2>4. QED
    BY <1>2, <1>4, <2>1, <2>2, <2>3
<1>6. ASSUME NEW i \in 1 .. Len(acks2) PROVE acks2[i].gsn = H[n + i].gsn
  <2>1. CASE i \in 1 .. Len(acks)
    <3>1. acks[i].gsn = H[n + i].gsn
      BY <2>1 DEF Served
    <3>2. QED
      BY <1>1, <2>1, <3>1
  <2>2. CASE i = Len(acks) + 1
    <3>1. n + i = h + 1
      BY <1>1, <1>3, <2>2
    <3>2. acks2[i] = x
      BY <1>1, <2>2
    <3>3. QED
      BY <1>5, <3>1, <3>2
  <2>3. QED
    BY <1>1, <2>1, <2>2
<1>7. n + Len(acks2) = h + 1
  BY <1>1, <1>3
<1>8. ASSUME NEW i \in 1 .. Len(ins2)
      PROVE  /\ ins2[i].req = H[h + 1 + i].req
             /\ ins2[i].num = Mark(H, h + 1 + i) - Mark(H, h + 1 + i - 1)
  <2>1. i + 1 \in 1 .. Len(ins) /\ h + (i + 1) = h + 1 + i
    BY <1>2
  <2>2. /\ ins[i + 1].req = H[h + (i + 1)].req
        /\ ins[i + 1].num = Mark(H, h + (i + 1)) - Mark(H, h + (i + 1) - 1)
    BY <1>3, <2>1 DEF Served
  <2>3. QED
    BY <1>2, <2>1, <2>2
<1>9. Len(H) = n + Len(acks2) + Len(ins2)
  <2>1. PICK k \in Nat : k = Len(ins2) /\ Len(ins) = k + 1
    BY <1>2
  <2>2. Len(H) = (h + 1) + k
    BY <1>4, <2>1
  <2>3. QED
    BY <1>7, <2>1, <2>2
<1>10. Served(H, n, acks2, ins2, u + Head(ins).num)
  BY <1>5, <1>6, <1>7, <1>8, <1>9 DEF Served
<1>11. QED
  BY <1>10 DEF acks2, ins2

(* The client handles the next acknowledgement of a server.                *)
LEMMA ServedAcked ==
  ASSUME NEW H \in Seq(Sending), NEW n \in Nat,
         NEW acks \in Seq(Ack), NEW ins \in Seq(Insert), acks # << >>, NEW u,
         Served(H, n, acks, ins, u)
  PROVE  /\ Served(H, n + 1, Tail(acks), ins, u)
         /\ n + 1 \in 1 .. Len(H) /\ Head(acks).gsn = H[n + 1].gsn
<1> DEFINE acks2 == Tail(acks)
<1>1. /\ Head(acks) = acks[1] /\ Len(acks2) = Len(acks) - 1 /\ Len(acks) \in Nat \ {0}
      /\ \A i \in 1 .. Len(acks2) : acks2[i] = acks[i + 1]
  BY FirstTaken, Zenon
<1> HIDE DEF acks2
<1>2. /\ n + 1 + Len(acks2) = n + Len(acks) /\ Len(ins) \in Nat
      /\ Len(H) = n + Len(acks) + Len(ins)
  BY <1>1 DEF Served
<1>3. ASSUME NEW i \in 1 .. Len(acks2) PROVE acks2[i].gsn = H[n + 1 + i].gsn
  <2>1. i + 1 \in 1 .. Len(acks) /\ n + (i + 1) = n + 1 + i
    BY <1>1
  <2>2. acks[i + 1].gsn = H[n + (i + 1)].gsn
    BY <2>1 DEF Served
  <2>3. QED
    BY <1>1, <2>1, <2>2
<1>4. Served(H, n + 1, acks2, ins, u)
  BY <1>2, <1>3 DEF Served
<1>5. n + 1 \in 1 .. Len(H)
  BY <1>1, <1>2
<1>6. Head(acks).gsn = H[n + 1].gsn
  BY <1>1 DEF Served
<1>7. QED
  BY <1>4, <1>5, <1>6 DEF acks2

(* The servers that have acknowledged a sending are finitely many.         *)
LEMMA AckersFinite ==
  ASSUME NEW a \in [Servers -> Nat], NEW j \in Nat
  PROVE  /\ Ackers(a, j) \in SUBSET Servers /\ IsFiniteSet(Ackers(a, j))
         /\ Cardinality(Ackers(a, j)) \in Nat
<1>1. Ackers(a, j) \in SUBSET Servers
  BY DEF Ackers
<1>2. IsFiniteSet(Servers)
  BY PacingAssumption
<1>3. IsFiniteSet(Ackers(a, j))
  BY <1>1, <1>2, FS_Subset
<1>4. QED
  BY <1>1, <1>3, FS_CardinalityType

(* Who has acknowledged a sending has acknowledged the ones before it.     *)
LEMMA AckersFewer ==
  ASSUME NEW a \in [Servers -> Nat], NEW b \in [Servers -> Nat],
         NEW j \in Nat, NEW k \in Nat,
         \A s \in Servers : b[s] >= k => a[s] >= j
  PROVE  Cardinality(Ackers(b, k)) <= Cardinality(Ackers(a, j))
<1>1. Ackers(b, k) \in SUBSET Ackers(a, j)
  BY DEF Ackers
<1>2. QED
  BY <1>1, AckersFinite, FS_Subset

(* A sending more is not settled.                                          *)
LEMMA SettledMore ==
  ASSUME NEW H \in Seq(Sending), NEW m \in Sending, NEW a \in [Servers -> Nat],
         \A s \in Servers : a[s] <= Len(H), NEW d \in Nat, NEW out \in Seq(Pending),
         NEW last, NEW resp, Settled(H, a, d, out, last, resp)
  PROVE  Settled(Append(H, m), a, d,
                 Append(out, [req |-> m.req, gsn |-> NoGsn, acks |-> 0]), last, resp)
<1> DEFINE K == Append(H, m)
           x == [req |-> m.req, gsn |-> NoGsn, acks |-> 0]
           out2 == Append(out, x)
<1>0. x \in Pending
  BY DEF Pending, Sending, NoGsn
<1>1. /\ Len(K) = Len(H) + 1 /\ Len(H) \in Nat /\ K[Len(H) + 1] = m
      /\ \A j \in 1 .. Len(H) : K[j] = H[j]
      /\ \A j \in 0 .. Len(H) : Mark(K, j) = Mark(H, j)
  BY LedgerExtended
<1>2. /\ Len(out2) = Len(out) + 1 /\ Len(out) \in Nat /\ out2[Len(out) + 1] = x
      /\ \A i \in 1 .. Len(out) : out2[i] = out[i]
  BY <1>0, AppendProperties
<1>a. x.req = m.req /\ x.gsn = NoGsn /\ x.acks = 0
  OBVIOUS
<1> HIDE DEF K, out2, x
<1>3. /\ Len(H) = d + Len(out) /\ d \in 0 .. Len(H) /\ last = Mark(H, d)
  <2>1. Len(H) = d + Len(out) /\ last = Mark(H, d)
    BY DEF Settled
  <2>2. QED
    BY <1>1, <1>2, <2>1
<1>4. ASSUME NEW i \in 1 .. Len(out2)
      PROVE  /\ out2[i].req = K[d + i].req
             /\ out2[i].acks = Cardinality(Ackers(a, d + i))
             /\ out2[i].gsn = IF Ackers(a, d + i) = {} THEN NoGsn ELSE K[d + i].gsn
  <2>1. CASE i \in 1 .. Len(out)
    <3>1. d + i \in 1 .. Len(H)
      BY <1>2, <1>3, <2>1
    <3>2. /\ out[i].req = H[d + i].req
          /\ out[i].acks = Cardinality(Ackers(a, d + i))
          /\ out[i].gsn = IF Ackers(a, d + i) = {} THEN NoGsn ELSE H[d + i].gsn
      BY <2>1 DEF Settled
    <3>3. QED
      BY <1>1, <1>2, <2>1, <3>1, <3>2
  <2>2. CASE i = Len(out) + 1
    <3>1. d + i = Len(H) + 1
      BY <1>2, <1>3, <2>2
    <3>2. Ackers(a, d + i) = {}
      BY <1>1, <3>1 DEF Ackers
    <3>3. Cardinality(Ackers(a, d + i)) = 0
      BY <3>2, FS_EmptySet
    <3>4. out2[i] = x /\ K[d + i] = m
      BY <1>1, <1>2, <2>2, <3>1
    <3>5. QED
      BY <1>a, <3>2, <3>3, <3>4
  <2>3. QED
    BY <1>2, <2>1, <2>2
<1>5. Len(K) = d + Len(out2) /\ last = Mark(K, d)
  BY <1>1, <1>2, <1>3
<1>6. \A r \in resp : r # NoOp /\ \E j \in 1 .. d : K[j].req = r
  <2>1. \A r \in resp : r # NoOp /\ \E j \in 1 .. d : H[j].req = r
    BY DEF Settled
  <2>2. \A j \in 1 .. d : j \in 1 .. Len(H)
    BY <1>3
  <2>3. QED
    BY <1>1, <2>1, <2>2
<1>7. /\ d > 0 => Cardinality(Ackers(a, d)) > Failures
      /\ Cardinality(Ackers(a, d + 1)) <= Failures
  BY DEF Settled
<1>8. Settled(K, a, d, out2, last, resp)
  BY <1>4, <1>5, <1>6, <1>7 DEF Settled
<1>9. QED
  BY <1>8 DEF K, out2, x

(* b is a with one more acknowledgement of server s.                       *)
Counted(a, b, s) ==
  b \in [Servers -> Nat] /\ b[s] = a[s] + 1 /\ \A t \in Servers : t # s => b[t] = a[t]

(* One acknowledgement more counts for one sending only.                   *)
LEMMA OneMoreAcker ==
  ASSUME NEW a \in [Servers -> Nat], NEW s \in Servers,
         NEW b, Counted(a, b, s)
  PROVE  /\ b \in [Servers -> Nat]
         /\ \A j \in Nat : j # a[s] + 1 => Ackers(b, j) = Ackers(a, j)
         /\ Ackers(b, a[s] + 1) = Ackers(a, a[s] + 1) \cup {s}
         /\ Cardinality(Ackers(b, a[s] + 1)) = Cardinality(Ackers(a, a[s] + 1)) + 1
<1>1. b \in [Servers -> Nat] /\ b[s] = a[s] + 1 /\ \A t \in Servers : t # s => b[t] = a[t]
  BY DEF Counted
<1>2. ASSUME NEW j \in Nat, j # a[s] + 1 PROVE Ackers(b, j) = Ackers(a, j)
  <2>1. \A t \in Servers : b[t] >= j <=> a[t] >= j
    BY <1>1, <1>2
  <2>2. QED
    BY <2>1 DEF Ackers
<1>3. Ackers(b, a[s] + 1) = Ackers(a, a[s] + 1) \cup {s}
  <2>1. \A t \in Servers : b[t] >= a[s] + 1 <=> (a[t] >= a[s] + 1 \/ t = s)
    BY <1>1
  <2>2. QED
    BY <2>1 DEF Ackers
<1>4. s \notin Ackers(a, a[s] + 1) /\ a[s] + 1 \in Nat
  BY DEF Ackers
<1>5. IsFiniteSet(Ackers(a, a[s] + 1))
  BY <1>4, AckersFinite
<1>6. Cardinality(Ackers(a, a[s] + 1) \cup {s}) = Cardinality(Ackers(a, a[s] + 1)) + 1
  BY <1>4, <1>5, FS_AddElement
<1>7. QED
  BY <1>1, <1>2, <1>3, <1>6

(* An acknowledgement that comes late, for a sending that is settled.      *)
LEMMA SettledLate ==
  ASSUME NEW H \in Seq(Sending), NEW a \in [Servers -> Nat], NEW s \in Servers,
         NEW b, Counted(a, b, s),
         NEW d \in Nat, a[s] + 1 <= d, NEW out \in Seq(Pending),
         NEW last, NEW resp, Settled(H, a, d, out, last, resp)
  PROVE  Settled(H, b, d, out, last, resp)
<1>1. /\ b \in [Servers -> Nat]
      /\ \A j \in Nat : j # a[s] + 1 => Ackers(b, j) = Ackers(a, j)
      /\ Ackers(b, a[s] + 1) = Ackers(a, a[s] + 1) \cup {s}
      /\ Cardinality(Ackers(b, a[s] + 1)) = Cardinality(Ackers(a, a[s] + 1)) + 1
  BY OneMoreAcker, Zenon
<1>2. \A i \in 1 .. Len(out) : Ackers(b, d + i) = Ackers(a, d + i)
  <2>1. \A i \in 1 .. Len(out) : d + i \in Nat /\ d + i # a[s] + 1
    OBVIOUS
  <2>2. QED
    BY <1>1, <2>1
<1>3. Ackers(b, d + 1) = Ackers(a, d + 1)
  <2>1. d + 1 \in Nat /\ d + 1 # a[s] + 1
    OBVIOUS
  <2>2. QED
    BY <1>1, <2>1
<1>4. d > 0 => Cardinality(Ackers(b, d)) > Failures
  <2>1. \A t \in Servers : a[t] >= d => b[t] >= d
    BY DEF Counted
  <2>2. Cardinality(Ackers(a, d)) <= Cardinality(Ackers(b, d))
    BY <1>1, <2>1, AckersFewer
  <2>3. Cardinality(Ackers(a, d)) \in Nat /\ Cardinality(Ackers(b, d)) \in Nat
    BY <1>1, AckersFinite
  <2>4. d > 0 => Cardinality(Ackers(a, d)) > Failures
    BY DEF Settled
  <2>5. QED
    BY <2>2, <2>3, <2>4, LimitTypes
<1>5. /\ Len(H) = d + Len(out) /\ last = Mark(H, d)
      /\ \A i \in 1 .. Len(out) :
           /\ out[i].req = H[d + i].req
           /\ out[i].acks = Cardinality(Ackers(b, d + i))
           /\ out[i].gsn = IF Ackers(b, d + i) = {} THEN NoGsn ELSE H[d + i].gsn
      /\ \A r \in resp : r # NoOp /\ \E j \in 1 .. d : H[j].req = r
  BY <1>2 DEF Settled
<1>6. Cardinality(Ackers(b, d + 1)) <= Failures
  BY <1>3 DEF Settled
<1>7. QED
  BY <1>4, <1>5, <1>6 DEF Settled

(* An acknowledgement for a sending that is not settled finds it: the      *)
(* ones before it have their GSN already, from the same server.            *)
LEMMA FirstMatch ==
  ASSUME NEW H \in Seq(Sending), NEW l, Numbered(H, l), NEW a \in [Servers -> Nat],
         NEW s \in Servers, a[s] + 1 \in 1 .. Len(H),
         NEW d \in Nat, d < a[s] + 1, NEW out \in Seq(Pending),
         NEW last, NEW resp, Settled(H, a, d, out, last, resp)
  PROVE  /\ a[s] + 1 - d \in 1 .. Len(out)
         /\ out[a[s] + 1 - d].gsn \in {NoGsn, H[a[s] + 1].gsn}
         /\ \A k \in 1 .. Len(out) :
              out[k].gsn \in {NoGsn, H[a[s] + 1].gsn} => a[s] + 1 - d <= k
         /\ ~ (H[a[s] + 1].gsn <= last)
<1>1. PICK j \in 1 .. Len(H) : j = a[s] + 1
  OBVIOUS
<1>2. Len(H) = d + Len(out) /\ last = Mark(H, d) /\ Len(out) \in Nat /\ Len(H) \in Nat
  BY DEF Settled
<1>3. PICK i \in 1 .. Len(out) : i = j - d /\ d + i = j
  <2>1. j - d \in 1 .. Len(out) /\ d + (j - d) = j
    BY <1>1, <1>2
  <2>2. QED
    BY <2>1
<1>4. d \in 0 .. Len(H) /\ j \in 0 .. Len(H) /\ d < j /\ j > 0
  BY <1>1, <1>2
<1>5. last < H[j].gsn /\ last \in Nat /\ H[j].gsn \in Nat
  <2>1. Mark(H, d) \in Nat /\ Mark(H, d) < Mark(H, j)
    BY <1>4, MarkRises, Zenon
  <2>2. Mark(H, j) \in Nat /\ Mark(H, j) = H[j].gsn
    BY <1>4, MarkRises, Zenon
  <2>3. QED
    BY <1>2, <2>1, <2>2
<1>6. out[i].gsn \in {NoGsn, H[j].gsn}
  BY <1>3 DEF Settled
<1>7. ASSUME NEW k \in 1 .. Len(out), k < i PROVE out[k].gsn \notin {NoGsn, H[j].gsn}
  <2>1. d + k \in 1 .. Len(H) /\ d + k < j /\ a[s] >= d + k
    BY <1>1, <1>2, <1>3, <1>7
  <2>2. s \in Ackers(a, d + k)
    BY <2>1 DEF Ackers
  <2>3. out[k].gsn = H[d + k].gsn
    BY <2>2 DEF Settled
  <2>4. H[d + k].gsn < H[j].gsn
    BY <1>1, <2>1 DEF Numbered
  <2>5. H[d + k] \in Sending
    BY <2>1
  <2>6. H[d + k].gsn \in Nat \ {0}
    BY <2>5 DEF Sending
  <2>7. QED
    BY <1>5, <2>3, <2>4, <2>6 DEF NoGsn
<1>8. \A k \in 1 .. Len(out) : out[k].gsn \in {NoGsn, H[j].gsn} => i <= k
  <2> TAKE k \in 1 .. Len(out)
  <2> HAVE out[k].gsn \in {NoGsn, H[j].gsn}
  <2>1. ~(k < i)
    BY <1>7
  <2>2. QED
    BY <1>2, <2>1
<1>9. ~ (H[j].gsn <= last)
  BY <1>5
<1>10. QED
  BY <1>1, <1>3, <1>6, <1>8, <1>9, SMTT(30)

(* An acknowledgement that is not yet enough.                              *)
LEMMA SettledCounts ==
  ASSUME NEW H \in Seq(Sending), NEW l, Numbered(H, l), NEW a \in [Servers -> Nat],
         NEW s \in Servers, a[s] + 1 \in 1 .. Len(H),
         NEW b, Counted(a, b, s),
         NEW d \in Nat, NEW out \in Seq(Pending),
         NEW last, NEW resp, Settled(H, a, d, out, last, resp),
         NEW i \in 1 .. Len(out), d + i = a[s] + 1, NEW x \in Pending,
         x.req = out[i].req, x.gsn = H[a[s] + 1].gsn, x.acks = out[i].acks + 1,
         ~ Enough(x.acks)
  PROVE  Settled(H, b, d, [out EXCEPT ![i] = x], last, resp)
<1> DEFINE out2 == [out EXCEPT ![i] = x]
<1>1. /\ b \in [Servers -> Nat]
      /\ \A j \in Nat : j # a[s] + 1 => Ackers(b, j) = Ackers(a, j)
      /\ Ackers(b, a[s] + 1) = Ackers(a, a[s] + 1) \cup {s}
      /\ Cardinality(Ackers(b, a[s] + 1)) = Cardinality(Ackers(a, a[s] + 1)) + 1
  BY OneMoreAcker, Zenon
<1>2. /\ Len(out2) = Len(out) /\ Len(out) \in Nat /\ out2[i] = x
      /\ \A k \in 1 .. Len(out) : k # i => out2[k] = out[k]
  OBVIOUS
<1> HIDE DEF out2
<1>3. PICK j \in Nat : j = a[s] + 1 /\ d + i = j
  OBVIOUS
<1>4. /\ Len(H) = d + Len(out) /\ last = Mark(H, d)
      /\ \A r \in resp : r # NoOp /\ \E k \in 1 .. d : H[k].req = r
  BY DEF Settled
<1>5. ASSUME NEW k \in 1 .. Len(out2)
      PROVE  /\ out2[k].req = H[d + k].req
             /\ out2[k].acks = Cardinality(Ackers(b, d + k))
             /\ out2[k].gsn = IF Ackers(b, d + k) = {} THEN NoGsn ELSE H[d + k].gsn
  <2>1. /\ k \in 1 .. Len(out) /\ out[k].req = H[d + k].req
        /\ out[k].acks = Cardinality(Ackers(a, d + k))
        /\ out[k].gsn = IF Ackers(a, d + k) = {} THEN NoGsn ELSE H[d + k].gsn
    BY <1>2 DEF Settled
  <2>2. CASE k = i
    <3>1. Ackers(b, d + k) # {}
      BY <1>1, <1>3, <2>2
    <3>2. QED
      BY <1>1, <1>2, <1>3, <2>1, <2>2, <3>1
  <2>3. CASE k # i
    <3>1. d + k \in Nat /\ d + k # a[s] + 1
      BY <1>3, <2>1, <2>3, SMTT(30)
    <3>2. Ackers(b, d + k) = Ackers(a, d + k)
      BY <1>1, <3>1
    <3>3. QED
      BY <1>2, <2>1, <2>3, <3>2
  <2>4. QED
    BY <2>2, <2>3
<1>6. Cardinality(Ackers(b, d + 1)) <= Failures
  <2>1. CASE i = 1
    <3>1. Cardinality(Ackers(b, d + 1)) = x.acks /\ x.acks \in Nat
      BY <1>2, <1>5, <2>1 DEF Pending
    <3>2. QED
      BY <3>1, LimitTypes DEF Enough
  <2>2. CASE i # 1
    <3>1. d + 1 \in Nat /\ d + 1 # a[s] + 1
      BY <1>3, <2>2
    <3>2. Ackers(b, d + 1) = Ackers(a, d + 1)
      BY <1>1, <3>1
    <3>3. QED
      BY <3>2 DEF Settled
  <2>3. QED
    BY <2>1, <2>2
<1>7. d > 0 => Cardinality(Ackers(b, d)) > Failures
  <2>1. d \in Nat /\ d # a[s] + 1
    BY <1>3
  <2>2. Ackers(b, d) = Ackers(a, d)
    BY <1>1, <2>1
  <2>3. QED
    BY <2>2 DEF Settled
<1>8. Settled(H, b, d, out2, last, resp)
  BY <1>2, <1>4, <1>5, <1>6, <1>7 DEF Settled
<1>9. QED
  BY <1>8 DEF out2

(* The sequence without its i-th element.                                  *)
Without(out, i) == [k \in 1 .. (Len(out) - 1) |-> out[IF k < i THEN k ELSE k + 1]]

(* An acknowledgement that is enough settles the first sending that is     *)
(* not settled: had it been a later one, all who acknowledged that would   *)
(* have acknowledged the first one before.                                 *)
LEMMA SettledEnough ==
  ASSUME NEW H \in Seq(Sending), NEW l, Numbered(H, l), NEW a \in [Servers -> Nat],
         NEW s \in Servers, a[s] + 1 \in 1 .. Len(H),
         NEW b, Counted(a, b, s),
         NEW d \in Nat, NEW out \in Seq(Pending),
         NEW last, NEW resp, Settled(H, a, d, out, last, resp),
         NEW i \in 1 .. Len(out), d + i = a[s] + 1,
         Enough(out[i].acks + 1)
  PROVE  Settled(H, b, d + 1, Without(out, i), H[a[s] + 1].gsn,
                 resp \cup ({out[i].req} \ {NoOp}))
<1>1. /\ b \in [Servers -> Nat]
      /\ \A j \in Nat : j # a[s] + 1 => Ackers(b, j) = Ackers(a, j)
      /\ Ackers(b, a[s] + 1) = Ackers(a, a[s] + 1) \cup {s}
      /\ Cardinality(Ackers(b, a[s] + 1)) = Cardinality(Ackers(a, a[s] + 1)) + 1
  BY OneMoreAcker, Zenon
<1>2. PICK j \in Nat : j = a[s] + 1 /\ d + i = j
  OBVIOUS
<1>3. /\ Len(H) = d + Len(out) /\ Len(out) \in Nat
      /\ \A r \in resp : r # NoOp /\ \E k \in 1 .. d : H[k].req = r
      /\ Cardinality(Ackers(a, d + 1)) <= Failures
      /\ out[i].acks = Cardinality(Ackers(a, d + i)) /\ out[i].req = H[d + i].req
  BY SMTT(30) DEF Settled
<1>4. Cardinality(Ackers(b, j)) > Failures
  BY <1>1, <1>2, <1>3 DEF Enough
<1>5. Cardinality(Ackers(a, d + 1)) \in Nat
  <2>1. d + 1 \in Nat
    OBVIOUS
  <2>2. QED
    BY <2>1, AckersFinite, Zenon
<1>6. i = 1
  <2> SUFFICES ASSUME i # 1 PROVE FALSE
    OBVIOUS
  <2>1. \A t \in Servers : t # s => b[t] = a[t]
    BY DEF Counted
  <2>2. a[s] >= d + 1
    BY <1>2
  <2>3. \A t \in Servers : b[t] >= j => a[t] >= d + 1
    BY <1>2, <2>1, <2>2
  <2>4. Cardinality(Ackers(b, j)) <= Cardinality(Ackers(a, d + 1))
    <3>1. d + 1 \in Nat
      OBVIOUS
    <3>2. QED
      BY <1>1, <2>3, <3>1, AckersFewer, Zenon
  <2>5. Cardinality(Ackers(b, j)) \in Nat
    BY <1>1, <1>2, AckersFinite, Zenon
  <2>6. QED
    BY <1>3, <1>4, <1>5, <2>4, <2>5, LimitTypes
<1> DEFINE out2 == [k \in 1 .. (Len(out) - 1) |-> out[IF k < i THEN k ELSE k + 1]]
<1>7. /\ Len(out2) = Len(out) - 1
      /\ \A k \in 1 .. Len(out2) : out2[k] = out[k + 1] /\ k + 1 \in 1 .. Len(out)
  BY <1>3, <1>6
<1> HIDE DEF out2
<1>8. ASSUME NEW k \in 1 .. Len(out2)
      PROVE  /\ out2[k].req = H[d + 1 + k].req
             /\ out2[k].acks = Cardinality(Ackers(b, d + 1 + k))
             /\ out2[k].gsn = IF Ackers(b, d + 1 + k) = {} THEN NoGsn ELSE H[d + 1 + k].gsn
  <2>1. d + (k + 1) = d + 1 + k /\ k + 1 \in 1 .. Len(out)
    BY <1>7
  <2>2. /\ out[k + 1].req = H[d + (k + 1)].req
        /\ out[k + 1].acks = Cardinality(Ackers(a, d + (k + 1)))
        /\ out[k + 1].gsn = IF Ackers(a, d + (k + 1)) = {} THEN NoGsn ELSE H[d + (k + 1)].gsn
    BY <2>1 DEF Settled
  <2>3. d + 1 + k \in Nat /\ d + 1 + k # a[s] + 1
    BY <1>2, <1>6
  <2>4. Ackers(b, d + 1 + k) = Ackers(a, d + 1 + k)
    BY <1>1, <2>3
  <2>5. QED
    BY <1>7, <2>1, <2>2, <2>4
<1>9. Cardinality(Ackers(b, d + 1 + 1)) <= Failures
  <2>1. d + 1 + 1 \in Nat /\ d + 1 + 1 # a[s] + 1 /\ d + 1 \in Nat
    BY <1>2, <1>6
  <2>2. Ackers(b, d + 1 + 1) = Ackers(a, d + 1 + 1)
    BY <1>1, <2>1
  <2>3. \A t \in Servers : a[t] >= d + 1 + 1 => a[t] >= d + 1
    OBVIOUS
  <2>4. Cardinality(Ackers(a, d + 1 + 1)) <= Cardinality(Ackers(a, d + 1))
    BY <2>1, <2>3, AckersFewer, Zenon
  <2>5. Cardinality(Ackers(a, d + 1 + 1)) \in Nat
    BY <2>1, AckersFinite, Zenon
  <2>6. QED
    BY <1>3, <1>5, <2>2, <2>4, <2>5, LimitTypes
<1>10. Cardinality(Ackers(b, d + 1)) > Failures
  BY <1>2, <1>4, <1>6
<1>11. H[a[s] + 1].gsn = Mark(H, d + 1)
  BY <1>2, <1>6 DEF Mark
<1>12. Len(H) = d + 1 + Len(out2)
  BY <1>3, <1>7
<1>13. \A r \in resp \cup ({out[i].req} \ {NoOp}) :
         r # NoOp /\ \E k \in 1 .. (d + 1) : H[k].req = r
  <2>1. d + 1 \in 1 .. (d + 1) /\ out[i].req = H[d + 1].req
    BY <1>3, <1>6
  <2>2. \A k \in 1 .. d : k \in 1 .. (d + 1)
    OBVIOUS
  <2>3. QED
    BY <1>3, <2>1, <2>2
<1>14. Settled(H, b, d + 1, out2, H[a[s] + 1].gsn, resp \cup ({out[i].req} \ {NoOp}))
  BY <1>8, <1>9, <1>10, <1>11, <1>12, <1>13 DEF Settled
<1>15. QED
  BY <1>6, <1>14 DEF out2, Without

(* A sending more has the next GSN, and is a no-op or the next request.    *)
LEMMA NumberedMore ==
  ASSUME NEW H \in Seq(Sending), NEW n \in Nat, Numbered(H, n), NEW m \in Sending,
         Mark(H, Len(H)) < m.gsn, NEW k \in Nat,
         (m.req = NoOp /\ k = n) \/ (m.req = n + 1 /\ k = n + 1)
  PROVE  Numbered(Append(H, m), k)
<1> DEFINE K == Append(H, m)
<1>1. /\ Len(K) = Len(H) + 1 /\ Len(H) \in Nat /\ K[Len(H) + 1] = m
      /\ \A j \in 1 .. Len(H) : K[j] = H[j]
  BY LedgerExtended
<1> HIDE DEF K
<1>2. ASSUME NEW j \in 1 .. Len(H) PROVE H[j].gsn < m.gsn
  <2>1. j \in 0 .. Len(H) /\ Len(H) \in 0 .. Len(H) /\ j > 0
    BY <1>1
  <2>2. /\ Mark(H, j) \in Nat /\ (j > 0 => Mark(H, j) = H[j].gsn)
        /\ (j < Len(H) => Mark(H, j) < Mark(H, Len(H)))
    BY <2>1, MarkRises, Zenon
  <2>3. Mark(H, Len(H)) \in Nat
    BY <2>1, MarkRises, Zenon
  <2>4. m.gsn \in Nat
    BY DEF Sending
  <2>5. QED
    BY <1>1, <2>1, <2>2, <2>3, <2>4
<1>3. \A j \in 1 .. Len(H) : H[j].req \in Nat /\ H[j].req <= n
  <2>1. \A j \in 1 .. Len(H) : H[j] \in Sending
    OBVIOUS
  <2>2. QED
    BY <2>1 DEF Sending, Numbered
<1>4. \A j \in 1 .. Len(K) : j \in 1 .. Len(H) \/ j = Len(H) + 1
  BY <1>1
<1>5. ASSUME NEW i \in 1 .. Len(K), NEW j \in 1 .. Len(K), i < j
      PROVE  /\ K[i].gsn < K[j].gsn
             /\ K[i].req # NoOp /\ K[j].req # NoOp => K[i].req < K[j].req
  <2>1. i \in 1 .. Len(H)
    BY <1>1, <1>4, <1>5
  <2>2. CASE j \in 1 .. Len(H)
    <3>1. /\ H[i].gsn < H[j].gsn
          /\ H[i].req # NoOp /\ H[j].req # NoOp => H[i].req < H[j].req
      BY <1>5, <2>1, <2>2 DEF Numbered
    <3>2. QED
      BY <1>1, <2>1, <2>2, <3>1
  <2>3. CASE j = Len(H) + 1
    <3>1. K[i] = H[i] /\ K[j] = m
      BY <1>1, <2>1, <2>3
    <3>2. m.req # NoOp => H[i].req < m.req
      BY <1>3, <2>1
    <3>3. QED
      BY <1>2, <2>1, <3>1, <3>2
  <2>4. QED
    BY <1>4, <2>2, <2>3
<1>6. ASSUME NEW j \in 1 .. Len(K) PROVE K[j].req <= k
  <2>1. CASE j \in 1 .. Len(H)
    BY <1>1, <1>3, <2>1
  <2>2. CASE j = Len(H) + 1
    BY <1>1, <2>2 DEF NoOp
  <2>3. QED
    BY <1>4, <2>1, <2>2
<1>7. Numbered(K, k)
  BY <1>5, <1>6 DEF Numbered
<1>8. QED
  BY <1>7 DEF K

(* At the start nothing has been sent.                                     *)
LEMMA InitFlight == Init => FlightInv
<1> SUFFICES ASSUME Init PROVE FlightInv
  OBVIOUS
<1>1. PaceTypes
  <2>1. Types
    BY InitPacing DEF PacingInv
  <2>2. QED
    BY <2>1 DEF PaceTypes, Init, FirstEpoch, EpochSet
<1>2. FlightTypes
  BY <1>1 DEF FlightTypes, Init, NoGsn
<1>3. Queued(generated, requests, responses)
  BY LimitTypes DEF Queued, Init
<1> DEFINE a == [s \in Servers |-> 0]
<1>4. Flight(<< >>, a, 0)
  <2>1. << >> \in Seq(Sending) /\ a \in [Servers -> Nat] /\ Len(<< >>) = 0
    OBVIOUS
  <2>2. Numbered(<< >>, generated - Len(requests)) /\ consumed = Mark(<< >>, Len(<< >>))
    BY <2>1 DEF Numbered, Mark, Init
  <2>3. ASSUME NEW s \in Servers
        PROVE  Served(<< >>, a[s], ackMsgs[s], insertMsgs[s], used[s])
    <3>1. a[s] = 0 /\ ackMsgs[s] = << >> /\ insertMsgs[s] = << >> /\ used[s] = 0
      BY DEF Init
    <3>2. Served(<< >>, 0, << >>, << >>, 0)
      BY DEF Served, Mark
    <3>3. QED
      BY <3>1, <3>2
  <2>4. Settled(<< >>, a, 0, outstanding, latest, responses)
    <3>1. Ackers(a, 0 + 1) = {}
      BY DEF Ackers
    <3>2. Cardinality(Ackers(a, 0 + 1)) = 0
      BY <3>1, FS_EmptySet
    <3>3. outstanding = << >> /\ latest = 0 /\ responses = {}
      BY DEF Init, NoGsn
    <3> HIDE DEF a
    <3>4. QED
      BY <3>2, <3>3, LimitTypes DEF Settled, Mark
  <2>5. QED
    BY <2>1, <2>2, <2>3, <2>4 DEF Flight
<1>5. QED
  BY <1>2, <1>3, <1>4 DEF FlightInv

(* Steps that are not about requests.                                      *)
LEMMA ElsewhereFlight ==
  ASSUME FlightInv, PaceTypes',
         UNCHANGED <<consumed, generated, requests, responses, latest, outstanding, used,
                     insertMsgs, ackMsgs>>
  PROVE  FlightInv'
<1>1. PICK H, a, d : Flight(H, a, d)
  BY DEF FlightInv
<1>2. Flight(H, a, d)'
  BY <1>1 DEF Flight
<1>3. FlightTypes' /\ Queued(generated, requests, responses)'
  BY DEF FlightInv, FlightTypes
<1>4. QED
  BY <1>2, <1>3 DEF FlightInv

(* The application generates a request.                                    *)
LEMMA GenerateFlight ==
  ASSUME FlightInv, PaceTypes', Generate
  PROVE  FlightInv'
<1>1. PICK H, a, d : Flight(H, a, d)
  BY DEF FlightInv
<1>2. /\ requests \in Seq(Nat) /\ generated \in Nat
      /\ generated' = generated + 1 /\ requests' = Append(requests, generated + 1)
      /\ generated < Burst \/ generated - Burst + 1 \in responses
      /\ UNCHANGED <<consumed, responses, latest, outstanding, used, insertMsgs, ackMsgs>>
  BY DEF FlightInv, FlightTypes, Generate, paceVars, ackVars, serverVars, msgVars
<1>3. /\ requests' \in Seq(Nat) /\ Len(requests') = Len(requests) + 1
      /\ Len(requests) \in Nat /\ requests'[Len(requests) + 1] = generated + 1
      /\ \A i \in 1 .. Len(requests) : requests'[i] = requests[i]
  BY <1>2, AppendProperties
<1>4. generated' - Len(requests') = generated - Len(requests)
  BY <1>2, <1>3
<1>5. Flight(H, a, d)'
  BY <1>1, <1>2, <1>4 DEF Flight
<1>6. Queued(generated', requests', responses')
  <2>1. /\ Len(requests) <= generated
        /\ \A i \in 1 .. Len(requests) : requests[i] = generated - Len(requests) + i
    BY DEF FlightInv, Queued
  <2>2. Len(requests') <= generated'
    BY <1>2, <1>3, <2>1
  <2>3. ASSUME NEW i \in 1 .. Len(requests')
        PROVE  requests'[i] = generated' - Len(requests') + i
    <3>1. CASE i \in 1 .. Len(requests)
      BY <1>3, <1>4, <2>1, <3>1
    <3>2. CASE i = Len(requests) + 1
      BY <1>2, <1>3, <3>2
    <3>3. QED
      BY <1>3, <3>1, <3>2
  <2>4. generated' > Burst => generated' - Burst \in responses'
    <3>1. generated + 1 - Burst = generated - Burst + 1
      BY <1>2, LimitTypes
    <3>2. QED
      BY <1>2, <3>1, LimitTypes
  <2>5. QED
    BY <2>2, <2>3, <2>4 DEF Queued
<1>7. FlightTypes'
  BY <1>2, <1>3 DEF FlightInv, FlightTypes
<1>8. QED
  BY <1>5, <1>6, <1>7 DEF FlightInv

(* A server handles an insert request.                                     *)
LEMMA InsertFlight ==
  ASSUME FlightInv, PaceTypes', NEW s \in Servers, StorageInsert(s)
  PROVE  FlightInv'
<1>1. PICK H, a, d : Flight(H, a, d)
  BY DEF FlightInv
<1>2. FlightTypes /\ now \in Nat
  BY DEF FlightInv, FlightTypes, PaceTypes, Types
<1>3. /\ insertMsgs[s] \in Seq(Insert) /\ insertMsgs[s] # << >>
      /\ ackMsgs[s] \in Seq(Ack) /\ used[s] \in Nat /\ a[s] \in Nat
      /\ H \in Seq(Sending) /\ Numbered(H, generated - Len(requests))
      /\ \A t \in Servers : Served(H, a[t], ackMsgs[t], insertMsgs[t], used[t])
  BY <1>1, <1>2 DEF FlightTypes, StorageInsert, Flight
<1>4. Head(insertMsgs[s]) \in Insert /\ Tail(insertMsgs[s]) \in Seq(Insert)
  BY <1>3, FirstTaken, Zenon
<1>5. PICK u \in Nat : u = used[s] + Head(insertMsgs[s]).num
  BY <1>3, <1>4 DEF Insert
<1> DEFINE x == [gsn |-> u, due |-> now + Delay]
<1>6. x \in Ack /\ x.gsn = u
  BY <1>2, LimitTypes DEF Ack
<1>7. /\ used' = [used EXCEPT ![s] = u]
      /\ ackMsgs' = [ackMsgs EXCEPT ![s] = Append(ackMsgs[s], x)]
      /\ insertMsgs' = [insertMsgs EXCEPT ![s] = Tail(insertMsgs[s])]
      /\ UNCHANGED <<consumed, generated, requests, responses, latest, outstanding>>
  <2>1. used' = [used EXCEPT ![s] = u]
    BY <1>5 DEF StorageInsert
  <2>2. used'[s] = u
    BY <1>2, <2>1 DEF FlightTypes
  <2>3. QED
    BY <2>1, <2>2 DEF StorageInsert, paceVars, ackVars, appVars
<1> HIDE DEF x
<1>8. Append(ackMsgs[s], x) \in Seq(Ack)
  BY <1>3, <1>6
<1>9. FlightTypes'
  BY <1>2, <1>4, <1>7, <1>8 DEF FlightTypes
<1>10. Served(H, a[s], Append(ackMsgs[s], x), Tail(insertMsgs[s]), u)
  BY <1>3, <1>5, <1>6, ServedNext, Zenon
<1>11. ASSUME NEW t \in Servers
       PROVE  Served(H, a[t], ackMsgs'[t], insertMsgs'[t], used'[t])
  <2>1. CASE t = s
    <3>1. /\ ackMsgs'[t] = Append(ackMsgs[s], x) /\ insertMsgs'[t] = Tail(insertMsgs[s])
          /\ used'[t] = u
      BY <1>2, <1>7, <2>1 DEF FlightTypes
    <3>2. QED
      BY <1>10, <2>1, <3>1
  <2>2. CASE t # s
    <3>1. ackMsgs'[t] = ackMsgs[t] /\ insertMsgs'[t] = insertMsgs[t] /\ used'[t] = used[t]
      BY <1>2, <1>7, <2>2 DEF FlightTypes
    <3>2. QED
      BY <1>3, <3>1
  <2>3. QED
    BY <2>1, <2>2
<1>12. Flight(H, a, d)'
  BY <1>1, <1>7, <1>11 DEF Flight
<1>13. Queued(generated, requests, responses)'
  BY <1>7 DEF FlightInv
<1>14. QED
  BY <1>9, <1>12, <1>13 DEF FlightInv

(* The client handles an acknowledgement: it counts for the sending it is  *)
(* about, or is too late.                                                  *)
LEMMA AckFlight ==
  ASSUME FlightInv, PaceTypes', NEW s \in Servers, InsertAck(s)
  PROVE  FlightInv'
<1>1. PICK H, a, d : Flight(H, a, d)
  BY DEF FlightInv
<1>2. /\ H \in Seq(Sending) /\ a \in [Servers -> Nat] /\ d \in Nat
      /\ Numbered(H, generated - Len(requests))
      /\ \A t \in Servers : Served(H, a[t], ackMsgs[t], insertMsgs[t], used[t])
      /\ Settled(H, a, d, outstanding, latest, responses)
  BY <1>1 DEF Flight
<1>3. FlightTypes
  BY DEF FlightInv
<1>4. /\ ackMsgs[s] \in Seq(Ack) /\ ackMsgs[s] # << >> /\ insertMsgs[s] \in Seq(Insert)
      /\ outstanding \in Seq(Pending) /\ a[s] \in Nat /\ latest \in Nat
  BY <1>2, <1>3 DEF FlightTypes, InsertAck
<1>5. Head(ackMsgs[s]) \in Ack /\ Tail(ackMsgs[s]) \in Seq(Ack)
  BY <1>4, FirstTaken, Zenon
<1>6. /\ Served(H, a[s] + 1, Tail(ackMsgs[s]), insertMsgs[s], used[s])
      /\ a[s] + 1 \in 1 .. Len(H) /\ Head(ackMsgs[s]).gsn = H[a[s] + 1].gsn
  BY <1>2, <1>4, ServedAcked, Zenon
<1>7. PICK g \in Nat : g = Head(ackMsgs[s]).gsn /\ g = H[a[s] + 1].gsn
  BY <1>5, <1>6 DEF Ack
<1> DEFINE matching == {i \in DOMAIN outstanding : outstanding[i].gsn \in {NoGsn, g}}
           it == CHOOSE i \in matching : \A j \in matching : i <= j
           o == [outstanding[it] EXCEPT !.gsn = g, !.acks = @ + 1]
<1>8. IF g <= latest \/ matching = {}
        THEN UNCHANGED ackVars
      ELSE IF ~ Enough(o.acks)
        THEN outstanding' = [outstanding EXCEPT ![it] = o] /\ UNCHANGED <<latest, responses>>
        ELSE /\ outstanding' = [i \in 1..(Len(outstanding) - 1) |->
                                  outstanding[IF i < it THEN i ELSE i + 1]]
             /\ latest' = g
             /\ responses' = responses \union ({o.req} \ {NoOp})
  BY <1>7 DEF InsertAck
<1> HIDE DEF o, it
<1>9. /\ ackMsgs' = [ackMsgs EXCEPT ![s] = Tail(ackMsgs[s])]
      /\ UNCHANGED <<consumed, generated, requests, used, insertMsgs>>
  BY DEF InsertAck, paceVars, appVars, serverVars
<1> DEFINE b == [a EXCEPT ![s] = a[s] + 1]
<1>10. Counted(a, b, s)
  BY <1>2 DEF Counted
<1>11. b \in [Servers -> Nat] /\ b[s] = a[s] + 1 /\ \A t \in Servers : t # s => b[t] = a[t]
  BY <1>10 DEF Counted
<1> HIDE DEF b
<1>12. ASSUME NEW t \in Servers
       PROVE  Served(H, b[t], ackMsgs'[t], insertMsgs'[t], used'[t])
  <2>1. CASE t = s
    <3>1. ackMsgs'[t] = Tail(ackMsgs[s])
      BY <1>3, <1>9, <2>1 DEF FlightTypes
    <3>2. QED
      BY <1>6, <1>9, <1>11, <2>1, <3>1
  <2>2. CASE t # s
    <3>1. ackMsgs'[t] = ackMsgs[t]
      BY <1>3, <1>9, <2>2 DEF FlightTypes
    <3>2. QED
      BY <1>2, <1>9, <1>11, <2>2, <3>1
  <2>3. QED
    BY <2>1, <2>2
<1>13. ASSUME NEW k \in Nat, Settled(H, b, k, outstanding', latest', responses'),
              outstanding' \in Seq(Pending), latest' \in Nat, responses' \subseteq Nat,
              responses \subseteq responses'
       PROVE  FlightInv'
  <2>1. Flight(H, b, k)'
    BY <1>1, <1>9, <1>11, <1>12, <1>13 DEF Flight
  <2>2. Queued(generated, requests, responses)'
    BY <1>9, <1>13 DEF FlightInv, Queued
  <2>3. ackMsgs' \in [Servers -> Seq(Ack)]
    BY <1>3, <1>5, <1>9 DEF FlightTypes
  <2>4. FlightTypes'
    BY <1>3, <1>9, <1>13, <2>3 DEF FlightTypes
  <2>5. QED
    BY <2>1, <2>2, <2>4 DEF FlightInv
<1>14. CASE a[s] + 1 <= d
  <2>1. d \in 0 .. Len(H) /\ a[s] + 1 \in 0 .. Len(H)
    <3>1. Len(H) = d + Len(outstanding)
      BY <1>2 DEF Settled
    <3>2. QED
      BY <1>2, <1>4, <1>6, <3>1
  <2>2. Mark(H, a[s] + 1) = g
    BY <1>4, <1>7 DEF Mark
  <2>3. a[s] + 1 < d => Mark(H, a[s] + 1) < Mark(H, d)
    BY <1>2, <2>1, MarkRises, Zenon
  <2>4. g <= latest
    <3>1. latest = Mark(H, d)
      BY <1>2 DEF Settled
    <3>2. a[s] + 1 = d \/ a[s] + 1 < d
      BY <1>2, <1>4, <1>14
    <3>3. QED
      BY <1>4, <2>2, <2>3, <3>1, <3>2
  <2>5. UNCHANGED <<outstanding, latest, responses>>
    BY <1>8, <2>4 DEF ackVars
  <2>6. Settled(H, b, d, outstanding, latest, responses)
    BY <1>2, <1>4, <1>10, <1>14, SettledLate, Zenon
  <2>7. responses \subseteq Nat
    BY <1>3 DEF FlightTypes
  <2>8. QED
    BY <1>2, <1>4, <1>13, <2>5, <2>6, <2>7
<1>15. CASE d < a[s] + 1
  <2>1. /\ a[s] + 1 - d \in 1 .. Len(outstanding)
        /\ outstanding[a[s] + 1 - d].gsn \in {NoGsn, H[a[s] + 1].gsn}
        /\ \A k \in 1 .. Len(outstanding) :
             outstanding[k].gsn \in {NoGsn, H[a[s] + 1].gsn} => a[s] + 1 - d <= k
        /\ ~ (H[a[s] + 1].gsn <= latest)
    BY <1>2, <1>4, <1>6, <1>15, FirstMatch, Zenon
  <2>2. PICK i \in 1 .. Len(outstanding) : i = a[s] + 1 - d /\ d + i = a[s] + 1
    <3>1. d + (a[s] + 1 - d) = a[s] + 1
      BY <1>2, <1>4
    <3>2. QED
      BY <2>1, <3>1
  <2>3. i \in matching /\ \A j \in matching : i <= j
    <3>1. DOMAIN outstanding = 1 .. Len(outstanding)
      BY <1>4
    <3>2. QED
      BY <1>7, <2>1, <2>2, <3>1
  <2>4. it = i
    <3>1. it \in matching /\ \A j \in matching : it <= j
      <4> HIDE DEF matching
      <4>1. QED
        BY <2>3, Zenon DEF it
    <3>2. it <= i /\ i <= it
      BY <2>3, <3>1
    <3>3. it \in Nat /\ i \in Nat
      BY <1>4, <2>3, <3>1
    <3>4. QED
      BY <3>2, <3>3
  <2>5. /\ ~ (g <= latest) /\ matching # {}
    BY <1>7, <2>1, <2>3
  <2>6. PICK y \in Pending : y = outstanding[i]
    BY <1>4
  <2>7. o = [req |-> y.req, gsn |-> g, acks |-> y.acks + 1]
    <3>1. o = [y EXCEPT !.gsn = g, !.acks = @ + 1]
      BY <2>4, <2>6 DEF o
    <3>2. y = [req |-> y.req, gsn |-> y.gsn, acks |-> y.acks]
      BY <2>6 DEF Pending
    <3>3. QED
      BY <3>1, <3>2
  <2>8. /\ o \in Pending /\ o.req = outstanding[i].req /\ o.gsn = H[a[s] + 1].gsn
        /\ o.acks = outstanding[i].acks + 1 /\ o.acks \in Nat /\ o.req \in Nat
    BY <1>7, <2>6, <2>7 DEF Pending
  <2> HIDE DEF matching
  <2>9. CASE ~ Enough(o.acks)
    <3>1. outstanding' = [outstanding EXCEPT ![i] = o] /\ UNCHANGED <<latest, responses>>
      BY <1>8, <2>4, <2>5, <2>9
    <3>2. Settled(H, b, d, [outstanding EXCEPT ![i] = o], latest, responses)
      BY <1>2, <1>4, <1>6, <1>10, <2>2, <2>8, <2>9, SettledCounts, Zenon
    <3>3. outstanding' \in Seq(Pending)
      BY <1>4, <2>8, <3>1
    <3>4. responses \subseteq Nat
      BY <1>3 DEF FlightTypes
    <3>5. QED
      BY <1>2, <1>4, <1>13, <3>1, <3>2, <3>3, <3>4
  <2>10. CASE Enough(o.acks)
    <3>1. /\ outstanding' = Without(outstanding, i)
          /\ latest' = g
          /\ responses' = responses \union ({outstanding[i].req} \ {NoOp})
      BY <1>8, <2>4, <2>5, <2>8, <2>10 DEF Without
    <3>2. Settled(H, b, d + 1, Without(outstanding, i), H[a[s] + 1].gsn,
                   responses \cup ({outstanding[i].req} \ {NoOp}))
      <4>1. Enough(outstanding[i].acks + 1)
        BY <2>8, <2>10
      <4>2. QED
        BY <1>2, <1>4, <1>6, <1>10, <2>2, <4>1, SettledEnough, Zenon
    <3>3. outstanding' \in Seq(Pending)
      <4>1. PICK n \in Nat : n = Len(outstanding) - 1 /\ Len(outstanding) = n + 1
        BY <1>4, <2>2
      <4>2. \A k \in 1 .. n : (IF k < i THEN k ELSE k + 1) \in 1 .. Len(outstanding)
        BY <4>1
      <4>3. \A k \in 1 .. Len(outstanding) : outstanding[k] \in Pending
        BY <1>4
      <4>4. outstanding' \in [1 .. n -> Pending]
        BY <3>1, <4>1, <4>2, <4>3 DEF Without
      <4>5. QED
        BY <4>1, <4>4
    <3>4. responses' \subseteq Nat /\ responses \subseteq responses'
      BY <1>3, <2>8, <3>1 DEF FlightTypes
    <3>5. Settled(H, b, d + 1, outstanding', latest', responses')
      BY <1>7, <3>1, <3>2
    <3>6. d + 1 \in Nat /\ latest' \in Nat
      BY <1>2, <1>7, <3>1
    <3>7. QED
      BY <1>13, <3>3, <3>4, <3>5, <3>6
  <2>11. QED
    BY <2>9, <2>10
<1>16. QED
  BY <1>2, <1>4, <1>14, <1>15

(* A turn of the client's loop sends a request, a no-op or nothing.        *)
LEMMA TurnFlight ==
  ASSUME FlightInv, PaceTypes', Turn
  PROVE  FlightInv'
<1>1. PICK H, a, d : Flight(H, a, d)
  BY DEF FlightInv
<1>2. /\ H \in Seq(Sending) /\ a \in [Servers -> Nat] /\ d \in Nat
      /\ Numbered(H, generated - Len(requests)) /\ consumed = Mark(H, Len(H))
      /\ \A t \in Servers : Served(H, a[t], ackMsgs[t], insertMsgs[t], used[t])
      /\ Settled(H, a, d, outstanding, latest, responses)
  BY <1>1 DEF Flight
<1>3. /\ FlightTypes /\ PaceTypes /\ now \in Nat /\ consumed \in Nat
      /\ requests \in Seq(Nat) /\ generated \in Nat /\ outstanding \in Seq(Pending)
  BY DEF FlightInv, FlightTypes, PaceTypes, Types
<1>4. /\ Len(requests) <= generated /\ Len(requests) \in Nat
      /\ \A i \in 1 .. Len(requests) : requests[i] = generated - Len(requests) + i
  BY <1>3 DEF FlightInv, Queued
<1> DEFINE e == IF Begins THEN Head(epochs) ELSE current
<1>5. /\ SwitchEpoch /\ (SendRequest(e) \/ SendNop(e) \/ SendNothing(e))
      /\ UNCHANGED <<latest, responses, generated, used, ackMsgs>>
  BY DEF Turn, serverVars
<1>6. e \in EpochSet
  BY <1>3, <1>5, TurnEpoch
<1> HIDE DEF e
<1>7. Ideal(e) \in Int
  BY <1>3, <1>6, IdealType
<1>8. PICK n \in Nat : n = generated - Len(requests)
  <2>1. generated - Len(requests) \in Nat
    BY <1>3, <1>4
  <2>2. QED
    BY <2>1
<1>9. ASSUME NEW r \in Nat, Send(e, r), MaySend(e), NEW k \in Nat,
             (r = NoOp /\ k = n) \/ (r = n + 1 /\ k = n + 1),
             k = generated - Len(requests'), requests' \in Seq(Nat),
             Queued(generated, requests', responses)
      PROVE  FlightInv'
  <2>1. consumed < Ideal(e)
    BY <1>9 DEF MaySend
  <2>2. PICK m \in Sending : m.req = r /\ m.gsn = Ideal(e)
    <3>1. [req |-> r, gsn |-> Ideal(e)] \in Sending
      BY <1>3, <1>7, <2>1 DEF Sending
    <3>2. QED
      BY <3>1
  <2>3. PICK x \in Insert : /\ x = [req |-> r, num |-> Ideal(e) - consumed, due |-> now + Delay]
                            /\ x.req = m.req /\ x.num = m.gsn - Mark(H, Len(H))
    <3>1. [req |-> r, num |-> Ideal(e) - consumed, due |-> now + Delay] \in Insert
      BY <1>2, <1>3, <1>7, <2>1, LimitTypes DEF Insert
    <3>2. QED
      BY <1>2, <2>2, <3>1
  <2>5. PICK z \in Pending : z = [req |-> m.req, gsn |-> NoGsn, acks |-> 0]
    BY <2>2 DEF Pending, NoGsn
  <2>4. /\ consumed' = Ideal(e) /\ outstanding' = Append(outstanding, z)
        /\ insertMsgs' = [t \in Servers |-> Append(insertMsgs[t], x)]
    BY <1>3, <1>7, <1>9, <2>2, <2>3, <2>5 DEF Send
  <2>6. /\ Append(H, m) \in Seq(Sending) /\ Len(Append(H, m)) = Len(H) + 1
        /\ Mark(Append(H, m), Len(H) + 1) = m.gsn /\ Len(H) \in Nat
    BY <1>2, <2>2, LedgerExtended
  <2>7. Numbered(Append(H, m), k)
    <3>1. Numbered(H, n) /\ Mark(H, Len(H)) < m.gsn
      BY <1>2, <1>8, <2>1, <2>2
    <3>2. (m.req = NoOp /\ k = n) \/ (m.req = n + 1 /\ k = n + 1)
      BY <1>9, <2>2
    <3>3. QED
      BY <1>2, <2>2, <3>1, <3>2, NumberedMore, Zenon
  <2>8. ASSUME NEW t \in Servers
        PROVE  Served(Append(H, m), a[t], ackMsgs[t], Append(insertMsgs[t], x), used[t])
    <3>1. ackMsgs[t] \in Seq(Ack) /\ insertMsgs[t] \in Seq(Insert) /\ a[t] \in Nat
      BY <1>2, <1>3 DEF FlightTypes
    <3>2. Served(H, a[t], ackMsgs[t], insertMsgs[t], used[t])
      BY <1>2
    <3>3. QED
      BY <1>2, <2>2, <2>3, <3>1, <3>2, ServedMore, Zenon
  <2>9. \A t \in Servers : a[t] <= Len(H)
    <3> TAKE t \in Servers
    <3>1. ackMsgs[t] \in Seq(Ack) /\ insertMsgs[t] \in Seq(Insert) /\ a[t] \in Nat
      BY <1>2, <1>3 DEF FlightTypes
    <3>2. Len(H) = a[t] + Len(ackMsgs[t]) + Len(insertMsgs[t])
      BY <1>2 DEF Served
    <3>3. QED
      BY <3>1, <3>2
  <2>10. Settled(Append(H, m), a, d, Append(outstanding, z), latest, responses)
    <3>1. Settled(Append(H, m), a, d,
             Append(outstanding, [req |-> m.req, gsn |-> NoGsn, acks |-> 0]), latest, responses)
      BY <1>2, <1>3, <2>2, <2>9, SettledMore, Zenon
    <3>2. QED
      BY <2>5, <3>1
  <2>11. \A t \in Servers : insertMsgs'[t] = Append(insertMsgs[t], x)
    BY <2>4
  <2>12. Flight(Append(H, m), a, d)'
    <3>1. \A t \in Servers :
            Served(Append(H, m), a[t], ackMsgs'[t], insertMsgs'[t], used'[t])
      BY <1>5, <2>8, <2>11
    <3>2. consumed' = Mark(Append(H, m), Len(Append(H, m)))
      BY <2>2, <2>4, <2>6
    <3>3. Numbered(Append(H, m), generated' - Len(requests'))
      BY <1>5, <1>9, <2>7
    <3>4. QED
      BY <1>2, <1>5, <2>4, <2>6, <2>10, <3>1, <3>2, <3>3 DEF Flight
  <2>13. FlightTypes'
    <3>1. outstanding' \in Seq(Pending)
      BY <1>3, <2>4, <2>5
    <3>2. insertMsgs' \in [Servers -> Seq(Insert)]
      <4>1. \A t \in Servers : Append(insertMsgs[t], x) \in Seq(Insert)
        BY <1>3, <2>3 DEF FlightTypes
      <4>2. QED
        BY <2>4, <4>1
    <3>3. QED
      BY <1>3, <1>5, <1>9, <3>1, <3>2 DEF FlightTypes
  <2>14. Queued(generated, requests, responses)'
    BY <1>5, <1>9
  <2>15. QED
    BY <2>12, <2>13, <2>14 DEF FlightInv
<1>10. CASE SendRequest(e)
  <2>1. /\ MaySend(e) /\ requests # << >> /\ Send(e, Head(requests))
        /\ requests' = Tail(requests)
    BY <1>10 DEF SendRequest
  <2>2. /\ Head(requests) \in Nat /\ Head(requests) = requests[1]
        /\ requests' \in Seq(Nat) /\ Len(requests') = Len(requests) - 1
        /\ Len(requests) \in Nat \ {0}
        /\ \A i \in 1 .. Len(requests') : requests'[i] = requests[i + 1]
    BY <1>3, <2>1, FirstTaken, Zenon
  <2>3. Head(requests) = n + 1
    BY <1>4, <1>8, <2>2
  <2>4. n + 1 = generated - Len(requests')
    BY <1>3, <1>8, <2>2
  <2>5. Queued(generated, requests', responses)
    <3>1. \A i \in 1 .. Len(requests') : requests'[i] = generated - Len(requests') + i
      <4> TAKE i \in 1 .. Len(requests')
      <4>1. i + 1 \in 1 .. Len(requests)
        BY <2>2
      <4>2. requests'[i] = generated - Len(requests) + (i + 1)
        BY <1>4, <2>2, <4>1
      <4>3. QED
        BY <1>3, <2>2, <4>2
    <3>2. Len(requests') <= generated
      BY <1>3, <1>4, <2>2
    <3>3. generated > Burst => generated - Burst \in responses
      BY DEF FlightInv, Queued
    <3>4. QED
      BY <3>1, <3>2, <3>3 DEF Queued
  <2>6. n + 1 \in Nat
    OBVIOUS
  <2>7. QED
    BY <1>9, <2>1, <2>2, <2>3, <2>4, <2>5, <2>6
<1>11. CASE SendNop(e)
  <2>1. MaySend(e) /\ Send(e, NoOp) /\ requests' = requests /\ NoOp \in Nat
    BY <1>11 DEF SendNop, NoOp
  <2>2. Queued(generated, requests', responses)
    BY <2>1 DEF FlightInv
  <2>3. QED
    BY <1>3, <1>8, <1>9, <2>1, <2>2
<1>12. CASE SendNothing(e)
  <2>1. UNCHANGED <<consumed, generated, requests, responses, latest, outstanding, used,
                    insertMsgs, ackMsgs>>
    BY <1>5, <1>12 DEF SendNothing
  <2>2. QED
    BY <2>1, ElsewhereFlight
<1>13. QED
  BY <1>5, <1>10, <1>11, <1>12

(* Every step keeps the ledger of the requests.                            *)
LEMMA NextFlight ==
  ASSUME FlightInv, [Next]_vars
  PROVE  FlightInv'
<1>1. PaceTypes'
  BY NextTypes DEF FlightInv, FlightTypes
<1> DEFINE same == UNCHANGED <<consumed, generated, requests, responses, latest, outstanding,
                               used, insertMsgs, ackMsgs>>
<1>2. same => FlightInv'
  BY <1>1, ElsewhereFlight
<1>3. ASSUME Epoch PROVE same
  BY <1>3 DEF Epoch, paceVars, ackVars, appVars, serverVars
<1>4. ASSUME ClientRate PROVE same
  BY <1>4 DEF ClientRate, paceVars, ackVars, appVars, serverVars
<1>5. ASSUME ClientNewEpoch PROVE same
  BY <1>5 DEF ClientNewEpoch, ackVars, appVars, serverVars
<1>6. ASSUME NEW s \in Servers, StorageSlots(s) PROVE same
  BY <1>6 DEF StorageSlots, paceVars, ackVars, appVars
<1>7. ASSUME Tick PROVE same
  BY <1>7 DEF Tick, paceVars, ackVars, appVars, serverVars, msgVars
<1>8. ASSUME UNCHANGED vars PROVE same
  BY <1>8 DEF vars, paceVars, ackVars, appVars, serverVars, msgVars
<1> HIDE DEF same
<1>9. CASE Order
  BY <1>2, <1>3, <1>4, <1>9 DEF Order
<1>10. CASE Client
  BY <1>1, <1>2, <1>5, <1>10, TurnFlight, AckFlight, Zenon DEF Client
<1>11. CASE Storage
  BY <1>1, <1>2, <1>6, <1>11, InsertFlight, Zenon DEF Storage
<1>12. CASE Generate
  BY <1>1, <1>12, GenerateFlight
<1>13. CASE Tick
  BY <1>2, <1>7, <1>13
<1>14. CASE UNCHANGED vars
  BY <1>2, <1>8, <1>14
<1>15. QED
  BY <1>9, <1>10, <1>11, <1>12, <1>13, <1>14, Zenon DEF Next

(* A buffer comes round again after MAX_OUTSTANDING_REQUESTS + 1 requests. *)
LEMMA BufferApart ==
  ASSUME NEW n \in Nat \ {0}, NEW m \in Nat \ {0}, n < m, Buffer(m) = Buffer(n)
  PROVE  n + MaxOutstanding + 1 <= m
<1>1. PICK N \in Nat \ {0} : N = MaxOutstanding + 1
  BY LimitTypes
<1>2. n - 1 \in Nat /\ m - 1 \in Nat
  OBVIOUS
<1>3. PICK p \in Nat, q \in Nat, x \in Nat :
        p = (n - 1) \div N /\ q = (m - 1) \div N /\ x = (n - 1) % N
  <2>1. (n - 1) \div N \in Nat /\ (m - 1) \div N \in Nat
    BY <1>2, DivMod
  <2>2. (n - 1) % N \in Nat
    BY <1>2, ModRange
  <2>3. QED
    BY <2>1, <2>2, Zenon
<1>4. x = (m - 1) % N
  BY <1>1, <1>3 DEF Buffer
<1>5. n - 1 = N * p + x /\ m - 1 = N * q + x
  BY <1>2, <1>3, <1>4, DivMod
<1>6. PICK y \in Nat, z \in Nat : y = N * p /\ z = N * q
  OBVIOUS
<1>7. p < q
  <2> SUFFICES ASSUME q <= p PROVE FALSE
    BY <1>3
  <2>1. CASE q = p
    BY <1>5, <2>1
  <2>2. CASE q + 1 <= p
    BY <1>5, <1>6, <2>2, TimesMonotone
  <2>3. QED
    BY <2>1, <2>2
<1>8. y + N <= z
  BY <1>6, <1>7, TimesMonotone
<1>9. QED
  BY <1>1, <1>5, <1>6, <1>8, LimitTypes

(* A request that comes after all that have their response keeps its       *)
(* buffer: the application is at most a burst ahead of the responses.      *)
LEMMA LateIsIntact ==
  ASSUME FlightInv, NEW n \in Nat \ {0}, \A r \in responses : r < n
  PROVE  ~ Overwritten(n)
<1> SUFFICES ASSUME NEW m \in (n + 1) .. generated, Buffer(m) = Buffer(n) PROVE FALSE
  BY DEF Overwritten
<1>1. generated \in Nat /\ m \in Nat \ {0} /\ n < m /\ m <= generated
  BY DEF FlightInv, FlightTypes
<1>2. n + MaxOutstanding + 1 <= m
  BY <1>1, BufferApart
<1>3. generated > Burst /\ generated - Burst > n
  BY <1>1, <1>2, LimitTypes
<1>4. generated - Burst \in responses
  BY <1>3 DEF FlightInv, Queued
<1>5. generated - Burst < n
  BY <1>4
<1>6. QED
  BY <1>1, <1>3, <1>5, LimitTypes

(* A buffer that is filled again held a request up to one that has its     *)
(* response: enough servers have acknowledged that one, and they got all   *)
(* earlier ones before it.                                                 *)
LEMMA FlightIntact ==
  ASSUME FlightInv
  PROVE  RequestIntact
<1> SUFFICES ASSUME NEW n \in 1 .. generated, Overwritten(n)
             PROVE  Cardinality({s \in Servers : Got(s, n)}) > Failures
  BY DEF RequestIntact
<1>1. PICK H, a, d : Flight(H, a, d)
  BY DEF FlightInv
<1>2. /\ H \in Seq(Sending) /\ a \in [Servers -> Nat] /\ d \in Nat
      /\ Numbered(H, generated - Len(requests))
      /\ \A t \in Servers : Served(H, a[t], ackMsgs[t], insertMsgs[t], used[t])
      /\ Settled(H, a, d, outstanding, latest, responses)
  BY <1>1 DEF Flight
<1>3. /\ requests \in Seq(Nat) /\ generated \in Nat /\ responses \subseteq Nat
      /\ insertMsgs \in [Servers -> Seq(Insert)] /\ ackMsgs \in [Servers -> Seq(Ack)]
      /\ outstanding \in Seq(Pending)
  BY DEF FlightInv, FlightTypes
<1>4. d \in 0 .. Len(H) /\ Len(H) \in Nat
  <2>1. Len(H) = d + Len(outstanding)
    BY <1>2 DEF Settled
  <2>2. QED
    BY <1>2, <1>3, <2>1
<1>5. \A j \in 1 .. Len(H) : H[j].req \in Nat
  <2>1. \A j \in 1 .. Len(H) : H[j] \in Sending
    BY <1>2
  <2>2. QED
    BY <2>1 DEF Sending
<1>6. n \in Nat \ {0}
  BY <1>3
<1>7. PICK r \in responses : ~ (r < n)
  BY <1>6, LateIsIntact
<1>8. PICK j \in 1 .. d : H[j].req = r /\ r # NoOp
  BY <1>2, <1>7 DEF Settled
<1>9. j \in 1 .. Len(H) /\ j <= d /\ d > 0 /\ r \in Nat /\ n <= r
  BY <1>3, <1>4, <1>6, <1>7, <1>8
<1>10. ASSUME NEW i \in DOMAIN requests PROVE requests[i] # n
  <2>1. PICK l \in Nat : l = Len(requests) /\ i \in 1 .. l /\ l <= generated
    <3>1. Len(requests) \in Nat /\ i \in 1 .. Len(requests)
      BY <1>3, <1>10
    <3>2. Len(requests) <= generated
      BY DEF FlightInv, Queued
    <3>3. QED
      BY <3>1, <3>2, Zenon
  <2>2. requests[i] = generated - l + i
    BY <2>1 DEF FlightInv, Queued
  <2>3. r <= generated - l
    BY <1>2, <1>5, <1>8, <1>9, <2>1 DEF Numbered
  <2>4. QED
    BY <1>3, <1>6, <1>9, <2>1, <2>2, <2>3
<1>11. ASSUME NEW s \in Servers, a[s] >= d, NEW i \in DOMAIN insertMsgs[s]
       PROVE  insertMsgs[s][i].req # n
  <2>1. /\ a[s] \in Nat /\ Len(ackMsgs[s]) \in Nat /\ Len(insertMsgs[s]) \in Nat
        /\ i \in 1 .. Len(insertMsgs[s])
    BY <1>2, <1>3, <1>11
  <2>2. PICK h \in Nat : h = a[s] + Len(ackMsgs[s]) + i
    BY <2>1
  <2>3. /\ Len(H) = a[s] + Len(ackMsgs[s]) + Len(insertMsgs[s])
        /\ insertMsgs[s][i].req = H[h].req
    BY <1>2, <2>1, <2>2 DEF Served
  <2>4. h \in 1 .. Len(H) /\ a[s] < h
    BY <2>1, <2>2, <2>3
  <2>5. j < h
    BY <1>2, <1>4, <1>9, <1>11, <2>1, <2>2, <2>4
  <2>6. CASE H[h].req = NoOp
    BY <1>6, <2>3, <2>6 DEF NoOp
  <2>7. CASE H[h].req # NoOp
    <3>1. r < H[h].req
      BY <1>2, <1>8, <1>9, <2>4, <2>5, <2>7 DEF Numbered
    <3>2. QED
      BY <1>5, <1>6, <1>9, <2>3, <2>4, <3>1
  <2>8. QED
    BY <2>6, <2>7
<1> DEFINE G == {s \in Servers : Got(s, n)}
<1>12. Ackers(a, d) \subseteq G
  BY <1>10, <1>11 DEF Ackers, Got
<1>13. IsFiniteSet(G)
  <2>1. IsFiniteSet(Servers) /\ G \subseteq Servers
    BY PacingAssumption
  <2>2. QED
    BY <2>1, FS_Subset, Zenon
<1> HIDE DEF G
<1>14. Cardinality(Ackers(a, d)) > Failures /\ Cardinality(Ackers(a, d)) \in Nat
  <2>1. Cardinality(Ackers(a, d)) > Failures
    BY <1>2, <1>9 DEF Settled
  <2>2. Cardinality(Ackers(a, d)) \in Nat
    BY <1>2, AckersFinite, Zenon
  <2>3. QED
    BY <2>1, <2>2
<1>15. Cardinality(Ackers(a, d)) <= Cardinality(G) /\ Cardinality(G) \in Nat
  BY <1>12, <1>13, FS_Subset, FS_CardinalityType, Zenon
<1>16. Cardinality(G) > Failures
  BY <1>14, <1>15, LimitTypes
<1>17. QED
  BY <1>16 DEF G

(* When a client fills a request's buffer again, more than Failures of its *)
(* servers have got the request, however many there are and whichever of   *)
(* them answer late (client/main.cpp:78, client.cpp:338): whatever the     *)
(* delays, the pauses and the rates.                                       *)
THEOREM RequestsStayIntact == Spec => []RequestIntact
<1>1. Init => FlightInv
  BY InitFlight
<1>2. FlightInv /\ [Next]_vars => FlightInv'
  BY NextFlight
<1>3. FlightInv => RequestIntact
  BY FlightIntact
<1>4. QED
  BY <1>1, <1>2, <1>3, PTL DEF Spec

-----------------------------------------------------------------------------
(* When slots are used: what the client waits for comes within two delays, *)
(* so that it uses the slots of earlier epochs soon after an epoch begins. *)

(* Epochs, announced or begun, lie more than a duration apart.             *)
Spaced(q) == \A i, k \in 1 .. Len(q) : i < k => q[i].begin + Duration < q[k].begin
Follows(b, q) == \A k \in 1 .. Len(q) : b + Duration < q[k].begin

(* Announcements are not overdue, and an epoch that is queued does not     *)
(* begin before the loop's last turn.                                      *)
Announced(q) ==
  /\ Spaced(q)
  /\ \A i \in 1 .. Len(q) : /\ q[i].due + Duration = q[i].begin + OrderDelay
                            /\ q[i].due >= now /\ q[i].begin <= epoch

Awaited(q, t) ==
  /\ Spaced(q)
  /\ \A i \in 1 .. Len(q) : /\ t + Skew <= q[i].begin /\ q[i].first <= q[i].last
                            /\ q[i].begin <= epoch /\ Follows(q[i].begin, epochMsgs)

(* Messages between the client and a server at time t.                     *)
Timely(q, t) ==
  /\ \A i \in 1 .. Len(q) : t <= q[i].due /\ q[i].due <= t + Delay
  /\ \A i, k \in 1 .. Len(q) : i < k => q[i].due <= q[k].due

Within(q, b) == \A i \in 1 .. Len(q) : q[i].due <= b

Latest(e, c) == IF c < e.first THEN e.begin - Skew - 1 ELSE e.begin + Duration - Skew

Idle ==
  /\ current = FirstEpoch /\ consumed = 0
  /\ \A s \in Servers : insertMsgs[s] = << >> /\ ackMsgs[s] = << >>

Running(e, c) ==
  /\ e.begin <= clock /\ e.first <= e.last /\ e.begin <= epoch
  /\ Follows(e.begin, epochs) /\ Follows(e.begin, epochMsgs)
  /\ c < e.first => turned + Skew + 1 <= e.begin + 2 * Delay
  /\ \A s \in Servers : /\ Within(insertMsgs[s], Latest(e, c) + Delay)
                        /\ Within(ackMsgs[s], Latest(e, c) + 2 * Delay)

TimedInv ==
  /\ turned \in Nat /\ turned <= now /\ now <= turned + MaxPause
  /\ Announced(epochMsgs) /\ Awaited(epochs, turned)
  /\ \A s \in Servers : Timely(insertMsgs[s], now) /\ Timely(ackMsgs[s], now)
  /\ Idle \/ Running(current, consumed)

(* An epoch lasts for a message, its acknowledgement and a turn.           *)
Paced == InTime /\ 2 * Delay + MaxPause <= Duration

(* Slots that begin an epoch apart: one more at the end, ...               *)
LEMMA SpacedMore ==
  ASSUME NEW S, NEW q \in Seq(S), NEW x \in S, \A y \in S : y.begin \in Nat, Spaced(q),
         \A i \in 1 .. Len(q) : q[i].begin + Duration < x.begin
  PROVE  Spaced(Append(q, x))
<1>1. /\ Len(Append(q, x)) = Len(q) + 1 /\ Len(q) \in Nat /\ Append(q, x)[Len(q) + 1] = x
      /\ \A i \in 1 .. Len(q) : Append(q, x)[i] = q[i]
  BY AppendProperties
<1>2. QED
  BY <1>1, SMTT(30) DEF Spaced

(* ... or one less at the front.                                           *)
LEMMA SpacedFewer ==
  ASSUME NEW S, NEW q \in Seq(S), q # << >>, Spaced(q)
  PROVE  Spaced(Tail(q)) /\ Follows(Head(q).begin, Tail(q))
<1>1. /\ Head(q) = q[1] /\ Len(Tail(q)) = Len(q) - 1 /\ Len(q) \in Nat \ {0}
      /\ \A i \in 1 .. Len(Tail(q)) : Tail(q)[i] = q[i + 1]
  BY FirstTaken, Zenon
<1>2. \A i \in 1 .. Len(Tail(q)) : i + 1 \in 1 .. Len(q)
  BY <1>1
<1>3. QED
  BY <1>1, <1>2 DEF Spaced, Follows

(* Slots that begin an epoch after b or later: one more, ...               *)
LEMMA FollowsMore ==
  ASSUME NEW S, NEW q \in Seq(S), NEW x \in S, NEW b, Follows(b, q), b + Duration < x.begin
  PROVE  Follows(b, Append(q, x))
<1>1. /\ Len(Append(q, x)) = Len(q) + 1 /\ Len(q) \in Nat /\ Append(q, x)[Len(q) + 1] = x
      /\ \A i \in 1 .. Len(q) : Append(q, x)[i] = q[i]
  BY AppendProperties
<1>2. QED
  BY <1>1 DEF Follows

(* ... or one less.                                                        *)
LEMMA FollowsFewer ==
  ASSUME NEW S, NEW q \in Seq(S), q # << >>, NEW b, Follows(b, q)
  PROVE  Follows(b, Tail(q)) /\ b + Duration < Head(q).begin
<1>1. /\ Head(q) = q[1] /\ Len(Tail(q)) = Len(q) - 1 /\ Len(q) \in Nat \ {0}
      /\ \A i \in 1 .. Len(Tail(q)) : Tail(q)[i] = q[i + 1]
  BY FirstTaken, Zenon
<1>2. \A i \in 1 .. Len(Tail(q)) : i + 1 \in 1 .. Len(q)
  BY <1>1
<1>3. QED
  BY <1>1, <1>2 DEF Follows

(* Messages sent now are the last ones due.                                *)
LEMMA TimelyMore ==
  ASSUME NEW S, NEW q \in Seq(S), NEW x \in S, NEW t \in Nat, x.due = t + Delay, Timely(q, t)
  PROVE  Timely(Append(q, x), t)
<1>1. /\ Len(Append(q, x)) = Len(q) + 1 /\ Len(q) \in Nat /\ Append(q, x)[Len(q) + 1] = x
      /\ \A i \in 1 .. Len(q) : Append(q, x)[i] = q[i]
  BY AppendProperties
<1>2. t <= x.due /\ x.due <= t + Delay
  BY LimitTypes
<1>3. QED
  BY <1>1, <1>2 DEF Timely

(* Slots that are handled in time: one less.                               *)
LEMMA TimelyFewer ==
  ASSUME NEW S, NEW q \in Seq(S), q # << >>, NEW t, Timely(q, t)
  PROVE  Timely(Tail(q), t) /\ t <= Head(q).due
<1>1. /\ Head(q) = q[1] /\ Len(Tail(q)) = Len(q) - 1 /\ Len(q) \in Nat \ {0}
      /\ \A i \in 1 .. Len(Tail(q)) : Tail(q)[i] = q[i + 1]
  BY FirstTaken, Zenon
<1>2. \A i \in 1 .. Len(Tail(q)) : i + 1 \in 1 .. Len(q)
  BY <1>1
<1>3. QED
  BY <1>1, <1>2 DEF Timely

(* A tick leaves a queue timely when its first message is not due.         *)
LEMMA TimelyTick ==
  ASSUME NEW S, NEW q \in Seq(S), \A y \in S : y.due \in Nat, NEW t \in Nat, Timely(q, t),
         ~ (q # << >> /\ Head(q).due <= t)
  PROVE  Timely(q, t + 1)
<1>1. ASSUME NEW i \in 1 .. Len(q) PROVE t + 1 <= q[i].due /\ q[i].due <= t + 1 + Delay
  <2>1. q # << >> /\ Head(q) = q[1] /\ 1 \in 1 .. Len(q)
    OBVIOUS
  <2>2. q[1].due \in Nat /\ q[i].due \in Nat
    <3>1. q[1] \in S /\ q[i] \in S
      BY <2>1
    <3>2. QED
      BY <3>1
  <2>3. q[1].due <= q[i].due /\ q[i].due <= t + Delay
    BY <2>1, <2>2 DEF Timely
  <2>4. QED
    BY <2>1, <2>2, <2>3, LimitTypes
<1>2. QED
  BY <1>1 DEF Timely

(* Messages due by b: one more, ...                                        *)
LEMMA WithinMore ==
  ASSUME NEW S, NEW q \in Seq(S), NEW x \in S, NEW b, x.due <= b, Within(q, b)
  PROVE  Within(Append(q, x), b)
<1>1. /\ Len(Append(q, x)) = Len(q) + 1 /\ Len(q) \in Nat /\ Append(q, x)[Len(q) + 1] = x
      /\ \A i \in 1 .. Len(q) : Append(q, x)[i] = q[i]
  BY AppendProperties
<1>2. QED
  BY <1>1 DEF Within

(* ... one less, ...                                                       *)
LEMMA WithinFewer ==
  ASSUME NEW S, NEW q \in Seq(S), q # << >>, NEW b, Within(q, b)
  PROVE  Within(Tail(q), b) /\ Head(q).due <= b
<1>1. /\ Head(q) = q[1] /\ Len(Tail(q)) = Len(q) - 1 /\ Len(q) \in Nat \ {0}
      /\ \A i \in 1 .. Len(Tail(q)) : Tail(q)[i] = q[i + 1]
  BY FirstTaken, Zenon
<1>2. \A i \in 1 .. Len(Tail(q)) : i + 1 \in 1 .. Len(q)
  BY <1>1
<1>3. QED
  BY <1>1, <1>2 DEF Within

(* ... or a later b.                                                       *)
LEMMA WithinLater ==
  ASSUME NEW S, NEW q \in Seq(S), \A y \in S : y.due \in Nat,
         NEW b \in Int, NEW c \in Int, b <= c, Within(q, b)
  PROVE  Within(q, c)
<1>1. \A i \in 1 .. Len(q) : q[i].due \in Nat
  <2>1. \A i \in 1 .. Len(q) : q[i] \in S
    OBVIOUS
  <2>2. QED
    BY <2>1
<1>2. QED
  BY <1>1 DEF Within

(* Someone has yet to send or the client to handle an acknowledgement      *)
(* while a request is outstanding.                                         *)
LEMMA OutstandingPending ==
  ASSUME FlightInv, outstanding # << >>
  PROVE  \E s \in Servers : insertMsgs[s] # << >> \/ ackMsgs[s] # << >>
<1>1. PICK H, a, d : Flight(H, a, d)
  BY DEF FlightInv
<1>2. /\ H \in Seq(Sending) /\ a \in [Servers -> Nat] /\ d \in Nat
      /\ \A t \in Servers : Served(H, a[t], ackMsgs[t], insertMsgs[t], used[t])
      /\ Settled(H, a, d, outstanding, latest, responses)
  BY <1>1 DEF Flight
<1>3. /\ insertMsgs \in [Servers -> Seq(Insert)] /\ ackMsgs \in [Servers -> Seq(Ack)]
      /\ outstanding \in Seq(Pending)
  BY DEF FlightInv, FlightTypes
<1>4. Len(H) >= d + 1 /\ Cardinality(Ackers(a, d + 1)) <= Failures /\ d + 1 \in Nat
  <2>1. Len(H) = d + Len(outstanding) /\ Cardinality(Ackers(a, d + 1)) <= Failures
    BY <1>2 DEF Settled
  <2>2. QED
    BY <1>2, <1>3, <2>1
<1>5. Cardinality(Ackers(a, d + 1)) \in Nat
  BY <1>2, <1>4, AckersFinite, Zenon
<1>6. Ackers(a, d + 1) # Servers
  BY <1>4, <1>5, PacingAssumption, LimitTypes
<1>7. PICK s \in Servers : ~ (a[s] >= d + 1)
  BY <1>6 DEF Ackers
<1>8. Len(H) = a[s] + Len(ackMsgs[s]) + Len(insertMsgs[s])
  BY <1>2 DEF Served
<1>9. insertMsgs[s] # << >> \/ ackMsgs[s] # << >>
  <2> SUFFICES ASSUME insertMsgs[s] = << >>, ackMsgs[s] = << >> PROVE FALSE
    OBVIOUS
  <2>1. Len(insertMsgs[s]) = 0 /\ Len(ackMsgs[s]) = 0 /\ a[s] \in Nat
    BY <1>2
  <2>2. QED
    BY <1>2, <1>4, <1>7, <1>8, <2>1
<1>10. QED
  BY <1>9

Notice == [begin : Nat, num : Nat, due : Nat]

(* The times of the slots are natural numbers.                             *)
LEMMA TimedTypes ==
  ASSUME FlightInv
  PROVE  /\ now \in Nat /\ epoch \in Int /\ consumed \in Nat /\ assigned \in Nat
         /\ current \in EpochSet /\ epochs \in Seq(EpochSet) /\ epochMsgs \in Seq(Notice)
         /\ insertMsgs \in [Servers -> Seq(Insert)] /\ ackMsgs \in [Servers -> Seq(Ack)]
         /\ current.begin \in Nat /\ current.first \in Nat /\ current.last \in Nat
         /\ numSlots \in Nat
<1>1. /\ now \in Nat /\ epoch \in Int /\ consumed \in Nat /\ assigned \in Nat /\ numSlots \in Nat
      /\ current \in EpochSet /\ epochs \in Seq(EpochSet) /\ epochMsgs \in Seq(Notice)
      /\ insertMsgs \in [Servers -> Seq(Insert)] /\ ackMsgs \in [Servers -> Seq(Ack)]
  BY DEF FlightInv, FlightTypes, PaceTypes, Types, EpochSet, Notice
<1>2. QED
  BY <1>1 DEF EpochSet

(* Fields of what the queues hold.                                         *)
LEMMA QueuedTypes ==
  /\ \A y \in Notice : y.begin \in Nat /\ y.num \in Nat /\ y.due \in Nat
  /\ \A y \in EpochSet : y.begin \in Nat /\ y.first \in Nat /\ y.last \in Nat
  /\ \A y \in Insert : y.due \in Nat
  /\ \A y \in Ack : y.due \in Nat
BY DEF Notice, EpochSet, Insert, Ack

(* The times hold at the start.                                            *)
LEMMA InitTimed == Init => TimedInv
<1> SUFFICES ASSUME Init PROVE TimedInv
  OBVIOUS
<1>1. /\ epochMsgs = << >> /\ epochs = << >> /\ turned = 0 /\ now = 0
      /\ current = FirstEpoch /\ consumed = 0
      /\ \A s \in Servers : insertMsgs[s] = << >> /\ ackMsgs[s] = << >>
  BY DEF Init
<1>2. Announced(epochMsgs) /\ Awaited(epochs, turned)
  BY <1>1 DEF Announced, Awaited, Spaced
<1>3. \A s \in Servers : Timely(insertMsgs[s], now) /\ Timely(ackMsgs[s], now)
  BY <1>1 DEF Timely
<1>4. Idle
  BY <1>1 DEF Idle
<1>5. QED
  BY <1>1, <1>2, <1>3, <1>4, LimitTypes DEF TimedInv

(* What does not touch the client's queues.                                *)
LEMMA ElsewhereTimed ==
  ASSUME TimedInv,
         UNCHANGED <<now, epoch, turned, epochs, current, consumed, epochMsgs, insertMsgs, ackMsgs>>
  PROVE  TimedInv'
<1>1. Announced(epochMsgs)' /\ Awaited(epochs, turned)'
  BY DEF TimedInv, Announced, Awaited
<1>2. Idle' \/ Running(current, consumed)'
  BY DEF TimedInv, Idle, Running, clock
<1>3. QED
  BY <1>1, <1>2 DEF TimedInv

(* A new epoch is announced more than a duration after the last one.       *)
LEMMA EpochTimed ==
  ASSUME FlightInv, TimedInv, Epoch
  PROVE  TimedInv'
<1>1. PICK x \in Notice : x = [begin |-> now + Duration, num |-> numSlots, due |-> now + OrderDelay]
  <2>1. [begin |-> now + Duration, num |-> numSlots, due |-> now + OrderDelay] \in Notice
    BY TimedTypes, ConstantTypes, SMTT(30) DEF Notice
  <2>2. QED
    BY <2>1
<1>2. /\ epochMsgs' = Append(epochMsgs, x) /\ epoch' = now + Duration /\ now > epoch
      /\ UNCHANGED <<now, turned, epochs, current, consumed, insertMsgs, ackMsgs>>
  BY <1>1 DEF Epoch, EpochBegin, paceVars
<1>3. /\ x.begin = now + Duration /\ x.due = now + OrderDelay
      /\ epoch < now /\ epoch <= epoch' /\ now \in Nat /\ epoch \in Int
  BY <1>1, <1>2, TimedTypes, ConstantTypes
<1>4. epochMsgs \in Seq(Notice) /\ epochs \in Seq(EpochSet)
  BY TimedTypes
<1>5. \A i \in 1 .. Len(epochMsgs) : epochMsgs[i] \in Notice
  BY <1>4
<1>6. \A i \in 1 .. Len(epochs) : epochs[i] \in EpochSet
  BY <1>4
<1>7. /\ Len(Append(epochMsgs, x)) = Len(epochMsgs) + 1 /\ Len(epochMsgs) \in Nat
      /\ Append(epochMsgs, x)[Len(epochMsgs) + 1] = x
      /\ \A i \in 1 .. Len(epochMsgs) : Append(epochMsgs, x)[i] = epochMsgs[i]
  BY <1>1, <1>4, AppendProperties
<1>8. ASSUME NEW i \in 1 .. Len(epochMsgs)
      PROVE  /\ epochMsgs[i].begin + Duration < x.begin /\ epochMsgs[i].begin <= epoch'
             /\ epochMsgs[i].due + Duration = epochMsgs[i].begin + OrderDelay
             /\ epochMsgs[i].due >= now
  <2>1. epochMsgs[i].begin \in Nat
    BY <1>5, QueuedTypes
  <2>2. /\ epochMsgs[i].begin <= epoch /\ epochMsgs[i].due >= now
        /\ epochMsgs[i].due + Duration = epochMsgs[i].begin + OrderDelay
    BY DEF TimedInv, Announced
  <2>3. QED
    BY <1>2, <1>3, <2>1, <2>2, ConstantTypes
<1>9. Spaced(Append(epochMsgs, x))
  <2>1. \A y \in Notice : y.begin \in Nat
    BY QueuedTypes
  <2>2. Spaced(epochMsgs)
    BY DEF TimedInv, Announced
  <2>3. QED
    BY <1>1, <1>4, <1>8, <2>1, <2>2, SpacedMore, Zenon
<1>10. Announced(epochMsgs)'
  <2>1. ASSUME NEW i \in 1 .. Len(epochMsgs')
        PROVE  /\ epochMsgs'[i].due + Duration = epochMsgs'[i].begin + OrderDelay
               /\ epochMsgs'[i].due >= now' /\ epochMsgs'[i].begin <= epoch'
    <3>1. CASE i \in 1 .. Len(epochMsgs)
      BY <1>2, <1>7, <1>8, <3>1
    <3>2. CASE i = Len(epochMsgs) + 1
      BY <1>2, <1>3, <1>7, <3>2, ConstantTypes
    <3>3. QED
      BY <1>2, <1>7, <3>1, <3>2
  <2>2. QED
    BY <1>2, <1>9, <2>1 DEF Announced
<1>11. ASSUME NEW i \in 1 .. Len(epochs)
       PROVE  epochs[i].begin <= epoch' /\ Follows(epochs[i].begin, epochMsgs')
  <2>1. epochs[i].begin <= epoch /\ Follows(epochs[i].begin, epochMsgs)
    BY DEF TimedInv, Awaited
  <2>2. epochs[i].begin \in Nat
    BY <1>6, QueuedTypes
  <2>3. epochs[i].begin <= epoch' /\ epochs[i].begin + Duration < x.begin
    BY <1>2, <1>3, <2>1, <2>2, ConstantTypes
  <2>4. Follows(epochs[i].begin, Append(epochMsgs, x))
    BY <1>1, <1>4, <2>1, <2>3, FollowsMore, Zenon
  <2>5. QED
    BY <1>2, <2>3, <2>4
<1>12. Awaited(epochs, turned)'
  BY <1>2, <1>11 DEF TimedInv, Awaited
<1>13. ASSUME Running(current, consumed)
       PROVE  Running(current, consumed)'
  <2>1. current.begin <= epoch /\ Follows(current.begin, epochMsgs)
    BY <1>13 DEF Running
  <2>2. current.begin <= epoch' /\ current.begin + Duration < x.begin
    BY <1>2, <1>3, <2>1, TimedTypes, ConstantTypes
  <2>3. Follows(current.begin, Append(epochMsgs, x))
    BY <1>1, <1>4, <2>1, <2>2, FollowsMore, Zenon
  <2>4. QED
    BY <1>2, <1>13, <2>2, <2>3 DEF Running, clock
<1>14. Idle => Idle'
  BY <1>2 DEF Idle
<1>15. QED
  BY <1>2, <1>10, <1>12, <1>13, <1>14 DEF TimedInv

(* The client gets to know an epoch before it begins.                      *)
LEMMA NewEpochTimed ==
  ASSUME Paced, FlightInv, TimedInv, ClientNewEpoch
  PROVE  TimedInv'
<1>1. /\ epochMsgs \in Seq(Notice) /\ epochs \in Seq(EpochSet) /\ epochMsgs # << >>
      /\ assigned \in Nat /\ now \in Nat
  BY TimedTypes DEF ClientNewEpoch
<1>2. /\ Head(epochMsgs) \in Notice /\ Head(epochMsgs) = epochMsgs[1]
      /\ Tail(epochMsgs) \in Seq(Notice) /\ Len(Tail(epochMsgs)) = Len(epochMsgs) - 1
      /\ Len(epochMsgs) \in Nat \ {0}
      /\ \A i \in 1 .. Len(Tail(epochMsgs)) : Tail(epochMsgs)[i] = epochMsgs[i + 1]
  BY <1>1, FirstTaken, Zenon
<1>3. PICK m \in Notice : m = Head(epochMsgs)
  BY <1>2
<1>4. m.begin \in Nat /\ m.num \in Nat /\ m.due \in Nat
  BY <1>3, QueuedTypes
<1>5. PICK x \in EpochSet : x = [begin |-> m.begin, first |-> assigned, last |-> assigned + m.num]
  <2>1. [begin |-> m.begin, first |-> assigned, last |-> assigned + m.num] \in EpochSet
    BY <1>1, <1>4 DEF EpochSet
  <2>2. QED
    BY <2>1
<1>6. /\ epochs' = Append(epochs, x) /\ epochMsgs' = Tail(epochMsgs)
      /\ UNCHANGED <<now, epoch, turned, current, consumed, insertMsgs, ackMsgs>>
  BY <1>3, <1>5 DEF ClientNewEpoch, orderVars
<1>7. /\ Len(Append(epochs, x)) = Len(epochs) + 1 /\ Len(epochs) \in Nat
      /\ Append(epochs, x)[Len(epochs) + 1] = x
      /\ \A i \in 1 .. Len(epochs) : Append(epochs, x)[i] = epochs[i]
  BY <1>1, <1>5, AppendProperties
<1>8. Spaced(Tail(epochMsgs)) /\ Follows(m.begin, Tail(epochMsgs))
  <2>1. Spaced(epochMsgs)
    BY DEF TimedInv, Announced
  <2>2. Spaced(Tail(epochMsgs)) /\ Follows(Head(epochMsgs).begin, Tail(epochMsgs))
    BY <1>1, <2>1, SpacedFewer, Zenon
  <2>3. QED
    BY <1>3, <2>2
<1>9. Announced(epochMsgs)'
  <2>1. \A i \in 1 .. Len(Tail(epochMsgs)) : i + 1 \in 1 .. Len(epochMsgs)
    BY <1>2
  <2>2. \A i \in 1 .. Len(epochMsgs) :
          /\ epochMsgs[i].due + Duration = epochMsgs[i].begin + OrderDelay
          /\ epochMsgs[i].due >= now /\ epochMsgs[i].begin <= epoch
    BY DEF TimedInv, Announced
  <2>3. QED
    BY <1>2, <1>6, <1>8, <2>1, <2>2 DEF Announced
<1>10. m.due + Duration = m.begin + OrderDelay /\ m.due >= now /\ m.begin <= epoch
  <2>1. 1 \in 1 .. Len(epochMsgs)
    BY <1>2
  <2>2. QED
    BY <1>2, <1>3, <2>1 DEF TimedInv, Announced
<1>11. /\ turned + Skew <= x.begin /\ x.begin = m.begin /\ x.first <= x.last
       /\ x.begin <= epoch /\ Follows(x.begin, Tail(epochMsgs))
  <2>1. turned \in Nat /\ turned <= now
    BY DEF TimedInv
  <2>2. turned + Skew <= m.begin
    BY <1>1, <1>4, <1>10, <2>1, ConstantTypes DEF Paced, InTime
  <2>3. QED
    BY <1>1, <1>4, <1>5, <1>8, <1>10, <2>2
<1>12. ASSUME NEW i \in 1 .. Len(epochs)
       PROVE  epochs[i].begin + Duration < x.begin /\ Follows(epochs[i].begin, Tail(epochMsgs))
  <2>1. Follows(epochs[i].begin, epochMsgs)
    BY DEF TimedInv, Awaited
  <2>2. /\ Follows(epochs[i].begin, Tail(epochMsgs))
        /\ epochs[i].begin + Duration < Head(epochMsgs).begin
    BY <1>1, <2>1, FollowsFewer, Zenon
  <2>3. QED
    BY <1>3, <1>11, <2>2
<1>13. Awaited(epochs, turned)'
  <2>1. Spaced(Append(epochs, x))
    <3>1. \A y \in EpochSet : y.begin \in Nat
      BY QueuedTypes
    <3>2. Spaced(epochs)
      BY DEF TimedInv, Awaited
    <3>3. QED
      BY <1>1, <1>5, <1>12, <3>1, <3>2, SpacedMore, Zenon
  <2>2. ASSUME NEW i \in 1 .. Len(epochs')
        PROVE  /\ turned' + Skew <= epochs'[i].begin /\ epochs'[i].first <= epochs'[i].last
               /\ epochs'[i].begin <= epoch' /\ Follows(epochs'[i].begin, epochMsgs')
    <3>1. CASE i \in 1 .. Len(epochs)
      BY <1>6, <1>7, <1>12, <3>1 DEF TimedInv, Awaited
    <3>2. CASE i = Len(epochs) + 1
      BY <1>6, <1>7, <1>11, <3>2
    <3>3. QED
      BY <1>6, <1>7, <3>1, <3>2
  <2>3. QED
    BY <1>6, <2>1, <2>2 DEF Awaited
<1>14. ASSUME Running(current, consumed)
       PROVE  Running(current, consumed)'
  <2>1. Follows(current.begin, epochs) /\ Follows(current.begin, epochMsgs)
    BY <1>14 DEF Running
  <2>2. /\ Follows(current.begin, Tail(epochMsgs))
        /\ current.begin + Duration < Head(epochMsgs).begin
    BY <1>1, <2>1, FollowsFewer, Zenon
  <2>3. current.begin + Duration < x.begin
    BY <1>3, <1>11, <2>2
  <2>4. Follows(current.begin, Append(epochs, x))
    BY <1>1, <1>5, <2>1, <2>3, FollowsMore, Zenon
  <2>5. QED
    BY <1>6, <1>14, <2>2, <2>4 DEF Running, clock
<1>15. Idle => Idle'
  BY <1>6 DEF Idle
<1>16. QED
  BY <1>6, <1>9, <1>13, <1>14, <1>15 DEF TimedInv

(* A tick passes only when no message is due and the loop has had its turn.*)
LEMMA TickTimed ==
  ASSUME FlightInv, TimedInv, Tick
  PROVE  TimedInv'
<1>1. /\ now' = now + 1 /\ now - turned < MaxPause
      /\ ~ Due(epochMsgs) /\ \A s \in Servers : ~ Due(insertMsgs[s]) /\ ~ Due(ackMsgs[s])
      /\ UNCHANGED <<epoch, turned, epochs, current, consumed, epochMsgs, insertMsgs, ackMsgs>>
  BY DEF Tick, orderVars, paceVars, msgVars
<1>2. now \in Nat /\ turned \in Nat /\ turned <= now /\ epochMsgs \in Seq(Notice)
  BY TimedTypes DEF TimedInv
<1>3. turned' \in Nat /\ turned' <= now' /\ now' <= turned' + MaxPause
  BY <1>1, <1>2, LimitTypes
<1>4. ASSUME NEW s \in Servers
      PROVE  Timely(insertMsgs[s], now + 1) /\ Timely(ackMsgs[s], now + 1)
  <2>1. insertMsgs[s] \in Seq(Insert) /\ ackMsgs[s] \in Seq(Ack)
    BY TimedTypes
  <2>2. /\ ~ (insertMsgs[s] # << >> /\ Head(insertMsgs[s]).due <= now)
        /\ ~ (ackMsgs[s] # << >> /\ Head(ackMsgs[s]).due <= now)
    BY <1>1 DEF Due
  <2>3. Timely(insertMsgs[s], now) /\ Timely(ackMsgs[s], now)
    BY DEF TimedInv
  <2>4. (\A y \in Insert : y.due \in Nat) /\ (\A y \in Ack : y.due \in Nat)
    BY QueuedTypes
  <2>5. Timely(insertMsgs[s], now + 1)
    BY <1>2, <2>1, <2>2, <2>3, <2>4, TimelyTick, Zenon
  <2>6. Timely(ackMsgs[s], now + 1)
    BY <1>2, <2>1, <2>2, <2>3, <2>4, TimelyTick, Zenon
  <2>7. QED
    BY <2>5, <2>6
<1>5. Announced(epochMsgs)'
  <2>1. ASSUME NEW i \in 1 .. Len(epochMsgs) PROVE epochMsgs[i].due >= now + 1
    <3>1. epochMsgs # << >> /\ Head(epochMsgs) = epochMsgs[1] /\ 1 \in 1 .. Len(epochMsgs)
      BY <1>2
    <3>2. epochMsgs[1] \in Notice /\ epochMsgs[i] \in Notice
      BY <1>2, <3>1
    <3>3. /\ epochMsgs[1].due \in Nat /\ epochMsgs[1].begin \in Nat
          /\ epochMsgs[i].due \in Nat /\ epochMsgs[i].begin \in Nat
      BY <3>2, QueuedTypes
    <3>4. ~ (epochMsgs[1].due <= now)
      BY <1>1, <3>1 DEF Due
    <3>5. /\ epochMsgs[1].due + Duration = epochMsgs[1].begin + OrderDelay
          /\ epochMsgs[i].due + Duration = epochMsgs[i].begin + OrderDelay
      BY <3>1 DEF TimedInv, Announced
    <3>6. i = 1 \/ epochMsgs[1].begin + Duration < epochMsgs[i].begin
      BY <3>1 DEF TimedInv, Announced, Spaced
    <3>7. CASE i = 1
      BY <1>2, <3>3, <3>4, <3>7
    <3>8. CASE epochMsgs[1].begin + Duration < epochMsgs[i].begin
      <4>1. PICK t \in Nat, u \in Nat, v \in Nat, w \in Nat :
              /\ t = epochMsgs[1].due /\ u = epochMsgs[1].begin
              /\ v = epochMsgs[i].due /\ w = epochMsgs[i].begin
        BY <3>3, Zenon
      <4>2. t + Duration = u + OrderDelay /\ v + Duration = w + OrderDelay
            /\ u + Duration < w /\ ~ (t <= now)
        BY <3>4, <3>5, <3>8, <4>1
      <4>3. v >= now + 1
        BY <1>2, <4>2, ConstantTypes
      <4>4. QED
        BY <4>1, <4>3
    <3>9. QED
      BY <3>6, <3>7, <3>8
  <2>2. QED
    BY <1>1, <2>1 DEF TimedInv, Announced
<1>6. Awaited(epochs, turned)'
  BY <1>1 DEF TimedInv, Awaited
<1>7. ASSUME Running(current, consumed)
      PROVE  Running(current, consumed)'
  <2>1. current.begin <= now' + Skew
    <3>1. current.begin <= now + Skew
      BY <1>7 DEF Running, clock
    <3>2. QED
      BY <1>1, <1>2, <3>1, TimedTypes, ConstantTypes
  <2>2. QED
    BY <1>1, <1>7, <2>1 DEF Running, clock
<1>8. Idle => Idle'
  BY <1>1 DEF Idle
<1>9. QED
  BY <1>1, <1>3, <1>4, <1>5, <1>6, <1>7, <1>8 DEF TimedInv

(* When messages between the client and its servers change, and no more.   *)
LEMMA MailTimed ==
  ASSUME TimedInv, ~ Idle,
         UNCHANGED <<now, epoch, turned, epochs, current, consumed, epochMsgs>>,
         \A s \in Servers :
           /\ Timely(insertMsgs'[s], now) /\ Timely(ackMsgs'[s], now)
           /\ Within(insertMsgs'[s], Latest(current, consumed) + Delay)
           /\ Within(ackMsgs'[s], Latest(current, consumed) + 2 * Delay)
  PROVE  TimedInv'
<1>1. Announced(epochMsgs)' /\ Awaited(epochs, turned)'
  BY DEF TimedInv, Announced, Awaited
<1>2. Running(current, consumed)
  BY DEF TimedInv
<1>3. Running(current, consumed)'
  BY <1>2 DEF Running, clock
<1>4. QED
  BY <1>1, <1>3 DEF TimedInv

(* The client handles an acknowledgement.                                  *)
LEMMA AckTimed ==
  ASSUME FlightInv, TimedInv, NEW s \in Servers, InsertAck(s)
  PROVE  TimedInv'
<1>1. /\ ackMsgs[s] # << >> /\ ackMsgs' = [ackMsgs EXCEPT ![s] = Tail(ackMsgs[s])]
      /\ UNCHANGED <<now, epoch, turned, epochs, current, consumed, epochMsgs, insertMsgs>>
  BY DEF InsertAck, orderVars, paceVars
<1>2. ~ Idle
  BY <1>1 DEF Idle
<1>3. PICK b : b = Latest(current, consumed)
  OBVIOUS
<1>4. \A t \in Servers : /\ Timely(insertMsgs[t], now) /\ Timely(ackMsgs[t], now)
                         /\ Within(insertMsgs[t], b + Delay) /\ Within(ackMsgs[t], b + 2 * Delay)
  BY <1>2, <1>3 DEF TimedInv, Running
<1>5. ackMsgs \in [Servers -> Seq(Ack)]
  BY TimedTypes
<1>6. Timely(Tail(ackMsgs[s]), now) /\ now <= Head(ackMsgs[s]).due
  BY <1>1, <1>4, <1>5, TimelyFewer, Zenon
<1>7. Within(Tail(ackMsgs[s]), b + 2 * Delay) /\ Head(ackMsgs[s]).due <= b + 2 * Delay
  BY <1>1, <1>4, <1>5, WithinFewer, Zenon
<1>8. \A t \in Servers : ackMsgs'[t] = IF t = s THEN Tail(ackMsgs[s]) ELSE ackMsgs[t]
  BY <1>1, <1>5
<1>9. \A t \in Servers :
        /\ Timely(insertMsgs'[t], now) /\ Timely(ackMsgs'[t], now)
        /\ Within(insertMsgs'[t], b + Delay) /\ Within(ackMsgs'[t], b + 2 * Delay)
  BY <1>1, <1>4, <1>6, <1>7, <1>8
<1>10. QED
  BY <1>1, <1>2, <1>3, <1>9, MailTimed

(* A server acknowledges no later than a delay after the message was due.  *)
LEMMA InsertTimed ==
  ASSUME FlightInv, TimedInv, NEW s \in Servers, StorageInsert(s)
  PROVE  TimedInv'
<1>1. /\ insertMsgs[s] # << >> /\ insertMsgs' = [insertMsgs EXCEPT ![s] = Tail(insertMsgs[s])]
      /\ ackMsgs' = [ackMsgs EXCEPT ![s] =
                       Append(ackMsgs[s], [gsn |-> used'[s], due |-> now + Delay])]
      /\ used' = [used EXCEPT ![s] = used[s] + Head(insertMsgs[s]).num]
      /\ UNCHANGED <<now, epoch, turned, epochs, current, consumed, epochMsgs>>
  BY DEF StorageInsert, orderVars, paceVars
<1>2. ~ Idle
  BY <1>1 DEF Idle
<1>3. insertMsgs \in [Servers -> Seq(Insert)] /\ ackMsgs \in [Servers -> Seq(Ack)] /\ now \in Nat
  BY TimedTypes
<1>4. PICK x \in Ack : x = [gsn |-> used'[s], due |-> now + Delay]
  <2>1. Head(insertMsgs[s]) \in Insert
    BY <1>1, <1>3, FirstTaken, Zenon
  <2>2. used \in [Servers -> Nat] /\ Head(insertMsgs[s]).num \in Nat
    BY <2>1 DEF FlightInv, FlightTypes, Insert
  <2>3. used'[s] \in Nat
    BY <1>1, <2>2
  <2>4. [gsn |-> used'[s], due |-> now + Delay] \in Ack
    BY <1>3, <2>3, LimitTypes DEF Ack
  <2>5. QED
    BY <2>4
<1>5. x.due = now + Delay
  BY <1>4
<1>6. PICK b \in Int : b = Latest(current, consumed)
  <2>1. Latest(current, consumed) \in Int
    BY TimedTypes, ConstantTypes, SMTT(30) DEF Latest
  <2>2. QED
    BY <2>1
<1>7. \A t \in Servers : /\ Timely(insertMsgs[t], now) /\ Timely(ackMsgs[t], now)
                         /\ Within(insertMsgs[t], b + Delay) /\ Within(ackMsgs[t], b + 2 * Delay)
  BY <1>2, <1>6 DEF TimedInv, Running
<1>8. Timely(Tail(insertMsgs[s]), now) /\ now <= Head(insertMsgs[s]).due
  BY <1>1, <1>3, <1>7, TimelyFewer, Zenon
<1>9. Within(Tail(insertMsgs[s]), b + Delay) /\ Head(insertMsgs[s]).due <= b + Delay
  BY <1>1, <1>3, <1>7, WithinFewer, Zenon
<1>10. x.due <= b + 2 * Delay
  <2>1. Head(insertMsgs[s]).due \in Nat
    <3>1. Head(insertMsgs[s]) \in Insert
      BY <1>1, <1>3, FirstTaken, Zenon
    <3>2. QED
      BY <3>1, QueuedTypes
  <2>2. QED
    BY <1>3, <1>5, <1>6, <1>8, <1>9, <2>1, LimitTypes
<1>11. Timely(Append(ackMsgs[s], x), now)
  BY <1>3, <1>4, <1>5, <1>7, TimelyMore, Zenon
<1>12. Within(Append(ackMsgs[s], x), b + 2 * Delay)
  BY <1>3, <1>4, <1>7, <1>10, WithinMore, Zenon
<1>13. \A t \in Servers :
         /\ insertMsgs'[t] = IF t = s THEN Tail(insertMsgs[s]) ELSE insertMsgs[t]
         /\ ackMsgs'[t] = IF t = s THEN Append(ackMsgs[s], x) ELSE ackMsgs[t]
  BY <1>1, <1>3, <1>4
<1>14. \A t \in Servers :
         /\ Timely(insertMsgs'[t], now) /\ Timely(ackMsgs'[t], now)
         /\ Within(insertMsgs'[t], b + Delay) /\ Within(ackMsgs'[t], b + 2 * Delay)
  BY <1>7, <1>8, <1>9, <1>11, <1>12, <1>13
<1>15. QED
  BY <1>1, <1>2, <1>6, <1>14, MailTimed

(* In an epoch the client should be past the slots of earlier ones.        *)
LEMMA IdealReached ==
  ASSUME now \in Nat, NEW e \in EpochSet, e.first <= e.last, e.begin <= clock, InEpoch(e)
  PROVE  Ideal(e) \in Nat /\ Ideal(e) >= e.first
<1>1. e.first \in Nat /\ e.last \in Nat /\ e.begin \in Nat /\ clock \in Nat
  BY ConstantTypes DEF EpochSet, clock
<1>2. e.last - e.first \in Nat /\ clock - e.begin \in Nat /\ clock - e.begin <= Duration
  BY <1>1 DEF InEpoch
<1>3. PICK w \in Nat, t \in Nat : w = e.last - e.first /\ t = clock - e.begin
  BY <1>2, Zenon
<1>4. t <= Duration /\ Duration \in Nat \ {0}
  BY <1>2, <1>3, ConstantTypes
<1>5. (w * t) \div Duration \in 0 .. w
  BY <1>4, ShareOfTime
<1>6. Ideal(e) = e.first + ((w * t) \div Duration)
  BY <1>3, Zenon DEF Ideal
<1>7. QED
  BY <1>1, <1>5, <1>6

(* A turn in an epoch that has begun.  When it sends nothing although it   *)
(* is behind, the client waits for an acknowledgement.                     *)
LEMMA TurnSends ==
  ASSUME FlightInv, NEW e \in EpochSet, e.first <= e.last, e.begin <= clock,
         SendRequest(e) \/ SendNop(e) \/ SendNothing(e)
  PROVE  \/ /\ InEpoch(e) /\ consumed' >= e.first
            /\ \E x \in Insert : /\ x.due = now + Delay
                                 /\ \A t \in Servers : insertMsgs'[t] = Append(insertMsgs[t], x)
         \/ /\ consumed' = consumed /\ insertMsgs' = insertMsgs
            /\ consumed < e.first /\ InEpoch(e) => outstanding # << >>
<1>1. now \in Nat /\ consumed \in Nat /\ e.first \in Nat /\ requests \in Seq(Nat)
  BY TimedTypes, QueuedTypes DEF FlightInv, FlightTypes
<1>2. ASSUME NEW r \in Nat, MaySend(e), Send(e, r)
      PROVE  /\ InEpoch(e) /\ consumed' >= e.first
             /\ \E x \in Insert : /\ x.due = now + Delay
                                  /\ \A t \in Servers : insertMsgs'[t] = Append(insertMsgs[t], x)
  <2>1. InEpoch(e) /\ consumed < Ideal(e)
    BY <1>2 DEF MaySend
  <2>2. Ideal(e) \in Nat /\ Ideal(e) >= e.first
    BY <1>1, <2>1, IdealReached
  <2>3. consumed' = consumed + (Ideal(e) - consumed)
    BY <1>2 DEF Send
  <2>4. consumed' >= e.first
    BY <1>1, <2>2, <2>3
  <2>5. [req |-> r, num |-> Ideal(e) - consumed, due |-> now + Delay] \in Insert
    BY <1>1, <2>1, <2>2, LimitTypes DEF Insert
  <2>6. PICK x \in Insert : x = [req |-> r, num |-> Ideal(e) - consumed, due |-> now + Delay]
    BY <2>5
  <2>7. x.due = now + Delay /\ \A t \in Servers : insertMsgs'[t] = Append(insertMsgs[t], x)
    BY <1>2, <2>6 DEF Send
  <2>8. QED
    BY <2>1, <2>4, <2>7
<1>3. CASE SendRequest(e)
  <2>1. MaySend(e) /\ Send(e, Head(requests)) /\ Head(requests) \in Nat
    BY <1>1, <1>3 DEF SendRequest
  <2>2. QED
    BY <1>2, <2>1
<1>4. CASE SendNop(e)
  <2>1. MaySend(e) /\ Send(e, NoOp) /\ NoOp \in Nat
    BY <1>4 DEF SendNop, NoOp
  <2>2. QED
    BY <1>2, <2>1
<1>5. CASE SendNothing(e)
  <2>1. consumed' = consumed /\ insertMsgs' = insertMsgs
    BY <1>5 DEF SendNothing
  <2>2. ASSUME consumed < e.first, InEpoch(e), outstanding = << >>
        PROVE  FALSE
    <3>1. Ideal(e) \in Nat /\ Ideal(e) >= e.first
      BY <1>1, <2>2, IdealReached
    <3>2. consumed < Ideal(e)
      BY <1>1, <2>2, <3>1
    <3>3. Len(outstanding) <= MaxOutstanding
      BY <2>2, LimitTypes
    <3>4. MaySend(e) /\ NopAllowed
      BY <2>2, <3>2, <3>3 DEF MaySend, NopAllowed
    <3>5. QED
      BY <1>5, <3>4 DEF SendNothing
  <2>3. QED
    BY <2>1, <2>2
<1>6. QED
  BY <1>3, <1>4, <1>5

(* A turn is soon enough for the next epoch, and for all after it.         *)
LEMMA TurnCalendar ==
  ASSUME Paced, FlightInv, TimedInv, SwitchEpoch, UNCHANGED <<epoch, epochMsgs>>, turned' = now
  PROVE  /\ Awaited(epochs, turned)'
         /\ Begins => LET e == Head(epochs) IN
              /\ e.begin <= clock /\ e.first <= e.last /\ e.begin <= epoch
              /\ Follows(e.begin, epochs') /\ Follows(e.begin, epochMsgs)
              /\ turned + Skew <= e.begin
              /\ Running(current, consumed) => current.begin + Duration < e.begin
         /\ ~ Begins => epochs' = epochs
<1>1. epochs \in Seq(EpochSet) /\ now \in Nat /\ turned \in Nat /\ now <= turned + MaxPause
  BY TimedTypes DEF TimedInv
<1>2. Spaced(epochs)
  BY DEF TimedInv, Awaited
<1>3. \A i \in 1 .. Len(epochs) :
        /\ turned + Skew <= epochs[i].begin /\ epochs[i].first <= epochs[i].last
        /\ epochs[i].begin <= epoch /\ Follows(epochs[i].begin, epochMsgs)
  BY DEF TimedInv, Awaited
<1>4. \A i \in 1 .. Len(epochs) : epochs[i].begin \in Nat
  <2>1. \A i \in 1 .. Len(epochs) : epochs[i] \in EpochSet
    BY <1>1
  <2>2. QED
    BY <2>1, QueuedTypes
<1>5. Duration \in Nat /\ Skew \in Nat /\ MaxPause \in Nat /\ MaxPause <= Duration
  BY ConstantTypes, LimitTypes DEF Paced
<1>6. CASE Begins
  <2>1. epochs # << >> /\ Head(epochs).begin <= clock /\ epochs' = Tail(epochs)
    BY <1>6 DEF Begins, SwitchEpoch
  <2>2. /\ Head(epochs) \in EpochSet /\ Head(epochs) = epochs[1]
        /\ Tail(epochs) \in Seq(EpochSet) /\ Len(Tail(epochs)) = Len(epochs) - 1
        /\ Len(epochs) \in Nat \ {0}
        /\ \A i \in 1 .. Len(Tail(epochs)) : Tail(epochs)[i] = epochs[i + 1]
    BY <1>1, <2>1, FirstTaken, Zenon
  <2>3. Spaced(Tail(epochs)) /\ Follows(Head(epochs).begin, Tail(epochs))
    BY <1>1, <1>2, <2>1, SpacedFewer, Zenon
  <2>4. 1 \in 1 .. Len(epochs) /\ \A i \in 1 .. Len(Tail(epochs)) : i + 1 \in 1 .. Len(epochs)
    BY <2>2
  <2>5. ASSUME NEW i \in 1 .. Len(Tail(epochs))
        PROVE  /\ now + Skew <= Tail(epochs)[i].begin
               /\ Tail(epochs)[i].first <= Tail(epochs)[i].last
               /\ Tail(epochs)[i].begin <= epoch /\ Follows(Tail(epochs)[i].begin, epochMsgs)
    <3>1. epochs[1].begin + Duration < epochs[i + 1].begin
      BY <2>2, <2>3 DEF Follows
    <3>2. turned + Skew <= epochs[1].begin
      BY <1>3, <2>4
    <3>3. PICK u \in Nat, v \in Nat : u = epochs[1].begin /\ v = epochs[i + 1].begin
      BY <1>4, <2>4, Zenon
    <3>4. now + Skew <= v
      BY <1>1, <1>5, <3>1, <3>2, <3>3
    <3>5. QED
      BY <1>3, <2>2, <2>4, <3>3, <3>4
  <2>6. Awaited(epochs, turned)'
    BY <2>1, <2>3, <2>5 DEF Awaited
  <2>7. ASSUME Running(current, consumed) PROVE current.begin + Duration < Head(epochs).begin
    <3>1. Follows(current.begin, epochs)
      BY <2>7 DEF Running
    <3>2. Follows(current.begin, Tail(epochs)) /\ current.begin + Duration < Head(epochs).begin
      BY <1>1, <2>1, <3>1, FollowsFewer, Zenon
    <3>3. QED
      BY <3>2
  <2>8. QED
    BY <1>3, <1>6, <2>1, <2>2, <2>3, <2>4, <2>6, <2>7
<1>7. CASE ~ Begins
  <2>1. epochs' = epochs
    BY <1>7 DEF SwitchEpoch
  <2>2. ASSUME NEW i \in 1 .. Len(epochs) PROVE now + Skew <= epochs[i].begin
    <3>1. epochs # << >> /\ Head(epochs) = epochs[1] /\ 1 \in 1 .. Len(epochs)
      BY <1>1
    <3>2. PICK u \in Nat, v \in Nat : u = epochs[1].begin /\ v = epochs[i].begin
      BY <1>4, <3>1, Zenon
    <3>3. ~ (u <= now + Skew)
      BY <1>7, <3>1, <3>2 DEF Begins, clock
    <3>4. i = 1 \/ u + Duration < v
      BY <1>2, <3>1, <3>2 DEF Spaced
    <3>5. now + Skew <= v
      BY <1>1, <1>5, <3>2, <3>3, <3>4
    <3>6. QED
      BY <3>2, <3>5
  <2>3. Awaited(epochs, turned)'
    BY <1>2, <1>3, <2>1, <2>2 DEF Awaited
  <2>4. QED
    BY <1>7, <2>1, <2>3
<1>8. QED
  BY <1>6, <1>7

(* What the client waits for is not overdue.                               *)
LEMMA WaitingTimed ==
  ASSUME FlightInv, TimedInv, outstanding # << >>, NEW p \in Int,
         \A s \in Servers : Within(insertMsgs[s], p + Delay) /\ Within(ackMsgs[s], p + 2 * Delay)
  PROVE  now <= p + 2 * Delay
<1>1. PICK s \in Servers : insertMsgs[s] # << >> \/ ackMsgs[s] # << >>
  BY OutstandingPending
<1>2. insertMsgs[s] \in Seq(Insert) /\ ackMsgs[s] \in Seq(Ack) /\ now \in Nat
  BY TimedTypes
<1>3. Timely(insertMsgs[s], now) /\ Timely(ackMsgs[s], now)
  BY DEF TimedInv
<1>4. CASE insertMsgs[s] # << >>
  <2>1. 1 \in 1 .. Len(insertMsgs[s]) /\ insertMsgs[s][1] \in Insert
    BY <1>2, <1>4
  <2>2. PICK x \in Nat : x = insertMsgs[s][1].due
    BY <2>1, QueuedTypes
  <2>3. now <= x /\ x <= p + Delay
    BY <1>3, <2>1, <2>2 DEF Timely, Within
  <2>4. QED
    BY <1>2, <2>3, LimitTypes
<1>5. CASE ackMsgs[s] # << >>
  <2>1. 1 \in 1 .. Len(ackMsgs[s]) /\ ackMsgs[s][1] \in Ack
    BY <1>2, <1>5
  <2>2. PICK x \in Nat : x = ackMsgs[s][1].due
    BY <2>1, QueuedTypes
  <2>3. now <= x /\ x <= p + 2 * Delay
    BY <1>3, <2>1, <2>2 DEF Timely, Within
  <2>4. QED
    BY <1>2, <2>3, LimitTypes
<1>6. QED
  BY <1>1, <1>4, <1>5

(* A later bound for all the messages.                                     *)
LEMMA MailWithin ==
  ASSUME FlightInv, NEW b \in Int, NEW c \in Int, b <= c, NEW s \in Servers,
         Within(insertMsgs[s], b + Delay), Within(ackMsgs[s], b + 2 * Delay)
  PROVE  Within(insertMsgs[s], c + Delay) /\ Within(ackMsgs[s], c + 2 * Delay)
<1>1. insertMsgs[s] \in Seq(Insert) /\ ackMsgs[s] \in Seq(Ack)
  BY TimedTypes
<1>2. (\A y \in Insert : y.due \in Nat) /\ (\A y \in Ack : y.due \in Nat)
  BY QueuedTypes
<1>3. /\ b + Delay \in Int /\ c + Delay \in Int /\ b + Delay <= c + Delay
      /\ b + 2 * Delay \in Int /\ c + 2 * Delay \in Int /\ b + 2 * Delay <= c + 2 * Delay
  BY LimitTypes
<1>4. Within(insertMsgs[s], c + Delay)
  BY <1>1, <1>2, <1>3, WithinLater, Zenon
<1>5. Within(ackMsgs[s], c + 2 * Delay)
  BY <1>1, <1>2, <1>3, WithinLater, Zenon
<1>6. QED
  BY <1>4, <1>5

(* A turn in an epoch that has begun by then: a client that is behind has  *)
(* only to wait for what it sent before the epoch began, so that it sends  *)
(* while the epoch lasts.                                                  *)
LEMMA RunningTurn ==
  ASSUME Paced, FlightInv, TimedInv, NEW e \in EpochSet,
         SendRequest(e) \/ SendNop(e) \/ SendNothing(e),
         turned' = now, UNCHANGED <<now, epoch, epochMsgs, ackMsgs>>,
         e.begin <= clock, e.first <= e.last, e.begin <= epoch,
         Follows(e.begin, epochs'), Follows(e.begin, epochMsgs),
         consumed < e.first => InEpoch(e),
         NEW p \in Int, p = e.begin - Skew - 1, NEW l \in Int, l = e.begin + Duration - Skew,
         \A s \in Servers : Within(insertMsgs[s], l + Delay) /\ Within(ackMsgs[s], l + 2 * Delay),
         consumed < e.first => \A s \in Servers :
           Within(insertMsgs[s], p + Delay) /\ Within(ackMsgs[s], p + 2 * Delay),
         current' = e
  PROVE  /\ Running(current, consumed)'
         /\ \A s \in Servers : Timely(insertMsgs'[s], now)
<1>1. /\ now \in Nat /\ e.begin \in Nat /\ e.first \in Nat /\ consumed \in Nat
      /\ insertMsgs \in [Servers -> Seq(Insert)]
  BY TimedTypes, QueuedTypes
<1>2. ASSUME NEW n, n = consumed', NEW q, q = Latest(e, n),
             n < e.first => now + Skew + 1 <= e.begin + 2 * Delay,
             \A s \in Servers : /\ Within(insertMsgs'[s], q + Delay)
                                /\ Within(ackMsgs[s], q + 2 * Delay)
      PROVE  Running(current, consumed)'
  BY <1>2 DEF Running, clock, Latest
<1>3. CASE /\ InEpoch(e) /\ consumed' >= e.first
           /\ \E x \in Insert : /\ x.due = now + Delay
                                /\ \A t \in Servers : insertMsgs'[t] = Append(insertMsgs[t], x)
  <2>1. PICK x \in Insert : /\ x.due = now + Delay
                            /\ \A t \in Servers : insertMsgs'[t] = Append(insertMsgs[t], x)
    BY <1>3
  <2>2. x.due <= l + Delay
    <3>1. (now + Skew) - e.begin <= Duration
      BY <1>3 DEF InEpoch, clock
    <3>2. QED
      BY <1>1, <2>1, <3>1, ConstantTypes, LimitTypes, SMTT(30)
  <2>3. ASSUME NEW s \in Servers
        PROVE  Within(insertMsgs'[s], l + Delay) /\ Timely(insertMsgs'[s], now)
    <3>1. insertMsgs[s] \in Seq(Insert) /\ Timely(insertMsgs[s], now)
      BY <1>1 DEF TimedInv
    <3>2. Within(Append(insertMsgs[s], x), l + Delay)
      BY <2>2, <3>1, WithinMore, Zenon
    <3>3. Timely(Append(insertMsgs[s], x), now)
      BY <1>1, <2>1, <3>1, TimelyMore, Zenon
    <3>4. QED
      BY <2>1, <3>2, <3>3
  <2>4. consumed' \in Nat
    <3>1. InEpoch(e) /\ Ideal(e) \in Nat
      BY <1>1, <1>3, IdealReached
    <3>2. consumed' = consumed \/ consumed' = consumed + (Ideal(e) - consumed)
      BY <1>1, TurnUses, Zenon
    <3>3. QED
      BY <1>1, <3>1, <3>2
  <2>5. ~ (consumed' < e.first)
    BY <1>1, <1>3, <2>4
  <2>6. Latest(e, consumed') = l
    BY <2>5 DEF Latest
  <2>7. QED
    BY <1>2, <2>3, <2>5, <2>6
<1>4. CASE /\ consumed' = consumed /\ insertMsgs' = insertMsgs
           /\ consumed < e.first /\ InEpoch(e) => outstanding # << >>
  <2>1. \A s \in Servers : Timely(insertMsgs'[s], now)
    BY <1>4 DEF TimedInv
  <2>2. CASE consumed < e.first
    <3>1. outstanding # << >>
      BY <1>4, <2>2
    <3>2. now <= p + 2 * Delay
      BY <2>2, <3>1, WaitingTimed
    <3>3. now + Skew + 1 <= e.begin + 2 * Delay
      BY <1>1, <3>2, ConstantTypes, LimitTypes, SMTT(30)
    <3>4. Latest(e, consumed') = p
      BY <1>4, <2>2 DEF Latest
    <3>5. QED
      BY <1>2, <1>4, <2>1, <2>2, <3>3, <3>4
  <2>3. CASE ~ (consumed < e.first)
    <3>1. Latest(e, consumed') = l
      BY <1>4, <2>3 DEF Latest
    <3>2. QED
      BY <1>2, <1>4, <2>1, <2>3, <3>1
  <2>4. QED
    BY <2>2, <2>3
<1>5. QED
  BY <1>3, <1>4, TurnSends, Zenon

(* A turn of the client's loop.                                            *)
LEMMA TurnTimed ==
  ASSUME Paced, FlightInv, TimedInv, Turn
  PROVE  TimedInv'
<1>1. PICK e : e = IF Begins THEN Head(epochs) ELSE current
  OBVIOUS
<1>2. /\ SwitchEpoch /\ (SendRequest(e) \/ SendNop(e) \/ SendNothing(e)) /\ turned' = now
      /\ UNCHANGED <<now, epoch, epochMsgs, ackMsgs>>
  BY <1>1 DEF Turn, orderVars
<1>3. e \in EpochSet /\ current' = e
  BY <1>1, <1>2, TurnEpoch DEF FlightInv, FlightTypes
<1>4. /\ Awaited(epochs, turned)'
      /\ Begins => /\ e.begin <= clock /\ e.first <= e.last /\ e.begin <= epoch
                   /\ Follows(e.begin, epochs') /\ Follows(e.begin, epochMsgs)
                   /\ turned + Skew <= e.begin
                   /\ Running(current, consumed) => current.begin + Duration < e.begin
      /\ ~ Begins => epochs' = epochs
  BY <1>1, <1>2, TurnCalendar
<1>5. /\ now \in Nat /\ e.begin \in Nat /\ e.first \in Nat /\ consumed \in Nat
      /\ current.begin \in Nat /\ turned \in Nat /\ now <= turned + MaxPause
  BY <1>3, TimedTypes, QueuedTypes DEF TimedInv
<1>6. /\ Duration \in Nat /\ Skew \in Nat /\ MaxPause \in Nat /\ Delay \in Nat
      /\ 2 * Delay + MaxPause <= Duration
  BY ConstantTypes, LimitTypes DEF Paced
<1>7. Announced(epochMsgs)'
  BY <1>2 DEF TimedInv, Announced
<1>8. turned' \in Nat /\ turned' <= now' /\ now' <= turned' + MaxPause
  BY <1>2, <1>5, <1>6
<1>9. \A s \in Servers : Timely(ackMsgs'[s], now')
  BY <1>2 DEF TimedInv
<1>10. CASE Idle /\ ~ Begins
  <2>1. e = FirstEpoch /\ consumed = 0
    BY <1>1, <1>10 DEF Idle
  <2>2. ~ MaySend(e)
    <3>1. PICK t \in Int : t = clock - e.begin
      BY <1>5, <1>6 DEF clock
    <3>2. e.first = 0 /\ e.last - e.first = 0
      BY <2>1 DEF FirstEpoch
    <3>3. 0 * t = 0 /\ 0 \div Duration = 0
      BY <3>1, ConstantTypes
    <3>4. Ideal(e) = 0
      BY <3>1, <3>2, <3>3 DEF Ideal
    <3>5. QED
      BY <2>1, <3>4 DEF MaySend
  <2>3. UNCHANGED <<consumed, insertMsgs>>
    BY <1>2, <2>2 DEF SendRequest, SendNop, SendNothing
  <2>4. Idle'
    BY <1>2, <1>3, <1>10, <2>1, <2>3 DEF Idle
  <2>5. \A s \in Servers : Timely(insertMsgs'[s], now')
    BY <1>2, <2>3 DEF TimedInv
  <2>6. QED
    BY <1>4, <1>7, <1>8, <1>9, <2>4, <2>5 DEF TimedInv
<1>11. CASE ~ Idle \/ Begins
  <2>1. PICK p \in Int, l \in Int : p = e.begin - Skew - 1 /\ l = e.begin + Duration - Skew
    BY <1>5, <1>6
  <2>2. p <= l /\ p + 1 <= l
    BY <1>5, <1>6, <2>1
  <2>3. /\ e.begin <= clock /\ e.first <= e.last /\ e.begin <= epoch
        /\ Follows(e.begin, epochs') /\ Follows(e.begin, epochMsgs)
    <3>1. CASE Begins
      BY <1>4, <3>1
    <3>2. CASE ~ Begins
      BY <1>1, <1>4, <1>11, <3>2 DEF TimedInv, Running
    <3>3. QED
      BY <3>1, <3>2
  <2>4. consumed < e.first => InEpoch(e)
    <3> SUFFICES ASSUME consumed < e.first PROVE (now + Skew) - e.begin <= Duration
      BY DEF InEpoch, clock
    <3>1. CASE Begins
      BY <1>4, <1>5, <1>6, <3>1
    <3>2. CASE ~ Begins
      <4>1. turned + Skew + 1 <= e.begin + 2 * Delay
        BY <1>1, <1>11, <3>2 DEF TimedInv, Running
      <4>2. QED
        BY <1>5, <1>6, <4>1
    <3>3. QED
      BY <3>1, <3>2
  <2>5. ASSUME NEW s \in Servers, Begins
        PROVE  Within(insertMsgs[s], p + Delay) /\ Within(ackMsgs[s], p + 2 * Delay)
    <3>1. CASE Idle
      BY <3>1 DEF Idle, Within
    <3>2. CASE Running(current, consumed)
      <4>1. current.begin + Duration < e.begin
        BY <1>4, <2>5, <3>2
      <4>2. PICK b \in Int : b = Latest(current, consumed) /\ b <= p
        <5>1. Latest(current, consumed) \in Int /\ Latest(current, consumed) <= p
          BY <1>5, <1>6, <2>1, <4>1 DEF Latest
        <5>2. QED
          BY <5>1
      <4>3. Within(insertMsgs[s], b + Delay) /\ Within(ackMsgs[s], b + 2 * Delay)
        BY <3>2, <4>2 DEF Running
      <4>4. QED
        BY <4>2, <4>3, MailWithin, Zenon
    <3>3. QED
      BY <3>1, <3>2 DEF TimedInv
  <2>6. ASSUME NEW s \in Servers
        PROVE  /\ Within(insertMsgs[s], l + Delay) /\ Within(ackMsgs[s], l + 2 * Delay)
               /\ consumed < e.first =>
                    Within(insertMsgs[s], p + Delay) /\ Within(ackMsgs[s], p + 2 * Delay)
    <3>1. CASE Begins
      <4>1. Within(insertMsgs[s], l + Delay) /\ Within(ackMsgs[s], l + 2 * Delay)
        BY <2>2, <2>5, <3>1, MailWithin, Zenon
      <4>2. QED
        BY <2>5, <3>1, <4>1
    <3>2. CASE ~ Begins
      <4>1. Running(e, consumed)
        BY <1>1, <1>11, <3>2 DEF TimedInv
      <4>2. /\ Within(insertMsgs[s], Latest(e, consumed) + Delay)
            /\ Within(ackMsgs[s], Latest(e, consumed) + 2 * Delay)
        BY <4>1 DEF Running
      <4>3. CASE consumed < e.first
        <5>1. Within(insertMsgs[s], p + Delay) /\ Within(ackMsgs[s], p + 2 * Delay)
          BY <2>1, <4>2, <4>3 DEF Latest
        <5>2. Within(insertMsgs[s], l + Delay) /\ Within(ackMsgs[s], l + 2 * Delay)
          BY <2>2, <5>1, MailWithin, Zenon
        <5>3. QED
          BY <5>1, <5>2
      <4>4. CASE ~ (consumed < e.first)
        BY <2>1, <4>2, <4>4 DEF Latest
      <4>5. QED
        BY <4>3, <4>4
    <3>3. QED
      BY <3>1, <3>2
  <2>7. Running(current, consumed)' /\ \A s \in Servers : Timely(insertMsgs'[s], now)
    BY <1>2, <1>3, <2>1, <2>3, <2>4, <2>6, RunningTurn, Zenon
  <2>8. QED
    BY <1>2, <1>4, <1>7, <1>8, <1>9, <2>7 DEF TimedInv
<1>12. QED
  BY <1>10, <1>11

(* Every step keeps them, if messages and pauses fit into an epoch.        *)
LEMMA NextTimed ==
  ASSUME Paced, FlightInv, TimedInv, [Next]_vars
  PROVE  TimedInv'
<1> DEFINE same == UNCHANGED <<now, epoch, turned, epochs, current, consumed, epochMsgs,
                               insertMsgs, ackMsgs>>
<1>1. same => TimedInv'
  BY ElsewhereTimed
<1>2. ASSUME ClientRate PROVE same
  BY <1>2 DEF ClientRate, paceVars
<1>3. ASSUME NEW s \in Servers, StorageSlots(s) PROVE same
  BY <1>3 DEF StorageSlots, orderVars, paceVars
<1>4. ASSUME Generate PROVE same
  BY <1>4 DEF Generate, orderVars, paceVars, msgVars
<1>5. ASSUME UNCHANGED vars PROVE same
  BY <1>5 DEF vars, orderVars, paceVars, msgVars
<1> HIDE DEF same
<1>6. CASE Order
  BY <1>1, <1>2, <1>6, EpochTimed DEF Order
<1>7. CASE Client
  BY <1>7, NewEpochTimed, TurnTimed, AckTimed, Zenon DEF Client
<1>8. CASE Storage
  BY <1>1, <1>3, <1>8, InsertTimed, Zenon DEF Storage
<1>9. CASE Generate
  BY <1>1, <1>4, <1>9
<1>10. CASE Tick
  BY <1>10, TickTimed
<1>11. CASE UNCHANGED vars
  BY <1>1, <1>5, <1>11
<1>12. QED
  BY <1>6, <1>7, <1>8, <1>9, <1>10, <1>11, Zenon DEF Next

(* While the client is behind, the end of the epoch is ahead.              *)
LEMMA TimedTimely ==
  ASSUME Paced, FlightInv, TimedInv
  PROVE  TimelyUse
<1>1. /\ now \in Nat /\ consumed \in Nat /\ current.begin \in Nat /\ current.first \in Nat
      /\ turned \in Nat /\ now <= turned + MaxPause
  BY TimedTypes DEF TimedInv
<1>2. /\ Duration \in Nat /\ Skew \in Nat /\ MaxPause \in Nat /\ Delay \in Nat
      /\ 2 * Delay + MaxPause <= Duration
  BY ConstantTypes, LimitTypes DEF Paced
<1>3. CASE Idle
  <2>1. current.first = 0
    BY <1>3 DEF Idle, FirstEpoch
  <2>2. QED
    BY <1>1, <2>1 DEF TimelyUse
<1>4. CASE Running(current, consumed)
  <2>1. consumed < current.first => turned + Skew + 1 <= current.begin + 2 * Delay
    BY <1>4 DEF Running
  <2>2. consumed < current.first => ~ ((now + Skew) - current.begin >= Duration)
    BY <1>1, <1>2, <2>1
  <2>3. QED
    BY <1>1, <2>2 DEF TimelyUse, clock
<1>5. QED
  BY <1>3, <1>4 DEF TimedInv

(* By the end of an epoch the client has used every slot of the epochs     *)
(* before it, so that servers never wait for it longer than that           *)
(* (client.cpp:286): provided that an epoch lasts for a message to a       *)
(* server, its acknowledgement and a pause of the client's loop, and that  *)
(* the epoch is announced in time.                                         *)
THEOREM SlotsUsedInTime == Paced => (Spec => []TimelyUse)
<1> SUFFICES ASSUME Paced PROVE Spec => []TimelyUse
  OBVIOUS
<1> DEFINE Inv == FlightInv /\ TimedInv
<1>1. Init => Inv
  BY InitFlight, InitTimed
<1>2. Inv /\ [Next]_vars => Inv'
  BY NextFlight, NextTimed
<1>3. Inv => TimelyUse
  BY TimedTimely
<1>4. QED
  BY <1>1, <1>2, <1>3, PTL DEF Spec
=============================================================================
