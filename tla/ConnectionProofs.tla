-------------------------- MODULE ConnectionProofs --------------------------
(***************************************************************************)
(* Proofs about Connection: the two ends of a connection agree.            *)
(*                                                                         *)
(* The ends take turns: a peer that has sent something waits for the       *)
(* answer, so at most one message is under way between it and the server,  *)
(* and what it is follows from the step the peer is in.  The number of     *)
(* queues is computed twice, once at each end, from the same two numbers.  *)
(***************************************************************************)
EXTENDS Connection, WellFoundedInduction, SequenceTheorems, FiniteSetTheorems, TLAPS

-----------------------------------------------------------------------------
(* Facts about natural numbers.  Induction is over sets: a set of naturals *)
(* that is not empty has a least element, so a claim that holds at the     *)
(* start and is handed on from one number to the next has no least         *)
(* counterexample.                                                         *)

(* A set of natural numbers that is not empty has a least element.         *)
LEMMA LeastNat ==
  ASSUME NEW S, S \subseteq Nat, S # {}
  PROVE  \E k \in S : \A m \in S : k <= m
<1> DEFINE Less == {p \in Nat \X Nat : p[1] < p[2]}
<1>1. IsWellFoundedOn(Less, Nat)
  BY NatLessThanWellFounded, Zenon DEF OpToRel
<1>2. PICK k \in S : \A m \in S : ~ (<<m, k>> \in Less)
  <2> HIDE DEF Less
  <2> QED BY <1>1, WFMin
<1>3. \A m \in S : ~ (m < k)
  BY <1>2
<1>4. QED
  BY <1>3

(* A set that contains a and, with any n below b, also n + 1, contains all *)
(* of a .. b.                                                              *)
LEMMA SetInduction ==
  ASSUME NEW a \in Nat, NEW b \in Nat, NEW S,
         a \in S, \A n \in a .. b : n # b /\ n \in S => n + 1 \in S
  PROVE  \A n \in a .. b : n \in S
<1> DEFINE T == {n \in a .. b : n \notin S}
<1> SUFFICES ASSUME T # {} PROVE FALSE
  OBVIOUS
<1>1. PICK k \in T : \A m \in T : k <= m
  <2>1. T \subseteq Nat
    OBVIOUS
  <2>2. QED
    BY <2>1, LeastNat
<1>2. k # a /\ k - 1 \in a .. b /\ k - 1 # b
  BY <1>1
<1>3. k - 1 \in S
  BY <1>1, <1>2
<1>4. QED
  BY <1>1, <1>2, <1>3

(* The elements of S up to k.                                              *)
UpTo(S, k) == {m \in S : m <= k}

(* A finite set of naturals has an n-th smallest element, for every n up   *)
(* to its cardinality.                                                     *)
LEMMA NthSmallest ==
  ASSUME NEW S, S \subseteq Nat, IsFiniteSet(S), NEW n \in 1 .. Cardinality(S)
  PROVE  \E k \in S : Cardinality(UpTo(S, k)) = n
<1> DEFINE T == {e \in Nat : \E k \in S : Cardinality(UpTo(S, k)) = e}
<1>0. PICK C \in Nat : C = Cardinality(S)
  BY FS_CardinalityType
<1>1. C = Cardinality(S) /\ C >= 1
  BY <1>0
<1>2. 1 \in T
  <2>1. S # {}
    BY <1>1, FS_EmptySet
  <2>2. PICK k \in S : \A m \in S : k <= m
    BY <2>1, LeastNat
  <2>3. UpTo(S, k) = {k}
    <3>1. \A m \in S : m \in Nat
      OBVIOUS
    <3>2. \A m \in S : m <= k <=> m = k
      BY <2>2, <3>1
    <3>3. QED
      BY <3>2 DEF UpTo
  <2>4. QED
    BY <2>3, FS_Singleton
<1>3. ASSUME NEW e \in 1 .. C, e # C, e \in T PROVE e + 1 \in T
  <2>1. PICK k \in S : Cardinality(UpTo(S, k)) = e
    BY <1>3
  <2> DEFINE U == UpTo(S, k)
             R == S \ U
  <2>2. U \in SUBSET S /\ IsFiniteSet(U)
    BY FS_Subset DEF UpTo
  <2>3. R # {} /\ R \subseteq Nat
    <3>1. S # U
      BY <1>1, <1>3, <2>1
    <3>2. QED
      BY <2>2, <3>1
  <2>4. PICK j \in R : \A m \in R : j <= m
    BY <2>3, LeastNat
  <2>5. UpTo(S, j) = U \cup {j}
    <3>1. \A m \in S : m \in U <=> m <= k
      BY DEF UpTo
    <3>2. j \in S /\ ~(j <= k) /\ j \in Nat /\ k \in Nat
      BY <2>4, <3>1
    <3> HIDE DEF U
    <3>3. ASSUME NEW m \in S, m <= j PROVE m \in U \cup {j}
      <4>1. CASE m \in U
        BY <4>1
      <4>2. CASE m \notin U
        BY <2>4, <3>2, <3>3, <4>2
      <4>3. QED
        BY <4>1, <4>2
    <3>4. ASSUME NEW m \in U \cup {j} PROVE m \in S /\ m <= j
      <4>1. CASE m = j
        BY <3>2, <4>1
      <4>2. CASE m # j
        BY <2>2, <3>1, <3>2, <3>4, <4>2
      <4>3. QED
        BY <4>1, <4>2
    <3>5. QED
      BY <3>3, <3>4 DEF UpTo
  <2>6. Cardinality(U \cup {j}) = e + 1
    BY <2>1, <2>2, <2>4, FS_AddElement
  <2>7. QED
    BY <1>3, <2>4, <2>5, <2>6
<1> HIDE DEF T
<1>4. \A e \in 1 .. C : e \in T
  <2>1. \A e \in 1 .. C : e # C /\ e \in T => e + 1 \in T
    BY <1>3
  <2>2. QED
    BY <1>1, <1>2, <2>1, SetInduction
<1>5. QED
  BY <1>1, <1>4 DEF T

(* Of two elements of a finite set of naturals, the larger one has more    *)
(* elements up to it.                                                      *)
LEMMA UpToGrows ==
  ASSUME NEW S, S \subseteq Nat, IsFiniteSet(S), NEW j \in Nat, NEW k \in S, j < k
  PROVE  /\ Cardinality(UpTo(S, j)) \in Nat /\ Cardinality(UpTo(S, k)) \in Nat
         /\ Cardinality(UpTo(S, j)) < Cardinality(UpTo(S, k))
         /\ Cardinality(UpTo(S, k)) <= Cardinality(S)
<1>1. UpTo(S, k) \in SUBSET S /\ UpTo(S, j) \in SUBSET UpTo(S, k)
  <2>1. \A m \in S : m \in Nat /\ k \in Nat
    OBVIOUS
  <2>2. \A m \in S : m <= j => m <= k
    BY <2>1
  <2>3. QED
    BY <2>2 DEF UpTo
<1>2. k \in UpTo(S, k) /\ k \notin UpTo(S, j)
  BY DEF UpTo
<1>3. IsFiniteSet(UpTo(S, k)) /\ Cardinality(UpTo(S, k)) <= Cardinality(S)
  BY <1>1, FS_Subset
<1>4. /\ IsFiniteSet(UpTo(S, j))
      /\ Cardinality(UpTo(S, j)) <= Cardinality(UpTo(S, k))
  BY <1>1, <1>3, FS_Subset
<1>5. Cardinality(UpTo(S, k)) = Cardinality(UpTo(S, j)) => UpTo(S, k) = UpTo(S, j)
  BY <1>1, <1>3, FS_Subset
<1>6. Cardinality(UpTo(S, k)) # Cardinality(UpTo(S, j))
  BY <1>2, <1>5, Zenon
<1>7. Cardinality(UpTo(S, j)) \in Nat /\ Cardinality(UpTo(S, k)) \in Nat
  BY <1>3, <1>4, FS_CardinalityType
<1>8. QED
  BY <1>3, <1>4, <1>6, <1>7

-----------------------------------------------------------------------------
(* Numbers of queues and receive buffers.                                  *)

(* The greater of two numbers, and the lesser.                             *)
LEMMA MaxMin ==
  ASSUME NEW a \in Nat, NEW b \in Nat
  PROVE  Max({a, b}) \in {a, b} /\ Min({a, b}) \in {a, b}
<1>1. \E x \in {a, b} : \A y \in {a, b} : x >= y
  <2>1. CASE a >= b
    BY <2>1
  <2>2. CASE ~(a >= b)
    BY <2>2
  <2>3. QED
    BY <2>1, <2>2
<1>2. \E x \in {a, b} : \A y \in {a, b} : x <= y
  <2>1. CASE a <= b
    BY <2>1
  <2>2. CASE ~(a <= b)
    BY <2>2
  <2>3. QED
    BY <2>1, <2>2
<1>3. Max({a, b}) \in {a, b}
  BY <1>1, Zenon DEF Max
<1>4. Min({a, b}) \in {a, b}
  BY <1>2, Zenon DEF Min
<1>5. QED
  BY <1>3, <1>4

(* Both ends compute the same number of queues: it does not matter which   *)
(* of the two numbers is one's own.                                        *)
LEMMA NumQueuesAgree ==
  ASSUME NEW a \in Nat, NEW b \in Nat
  PROVE  NumQueues(a, b) \in Nat /\ NumQueues(a, b) = NumQueues(b, a)
<1>1. {a, b} = {b, a}
  OBVIOUS
<1>2. Max({a, b}) = Max({b, a}) /\ Min({a, b}) = Min({b, a})
  BY <1>1
<1>3. Max({a, b}) \in Nat /\ Min({a, b}) \in Nat
  BY MaxMin
<1>4. QED
  BY <1>2, <1>3 DEF NumQueues

(* The n lowest indices of a set that has as many.                         *)
LEMMA LowestType ==
  ASSUME NEW f, f \subseteq Nat, IsFiniteSet(f), NEW n \in Nat, n <= Cardinality(f)
  PROVE  /\ Lowest(f, n) \in [1 .. n -> f]
         /\ Lowest(f, n) \in Seq(f) /\ Len(Lowest(f, n)) = n
<1> DEFINE C == Cardinality(f)
           s == [i \in 1 .. n |-> CHOOSE k \in f : Cardinality(UpTo(f, k)) = i]
           Good(t) == /\ \A i, j \in 1 .. n : i < j => t[i] < t[j]
                      /\ \A b \in f : \A i \in 1 .. n :
                           b < t[i] => \E j \in 1 .. n : t[j] = b
<1>1. C \in Nat /\ \A i \in 1 .. n : i \in 1 .. C
  BY FS_CardinalityType
<1>2. \A i \in 1 .. n : s[i] \in f /\ Cardinality(UpTo(f, s[i])) = i
  <2>1. \A i \in 1 .. n : \E k \in f : Cardinality(UpTo(f, k)) = i
    BY <1>1, NthSmallest
  <2>2. QED
    BY <2>1
<1>3. s \in [1 .. n -> f]
  BY <1>2
<1> HIDE DEF s, C
<1>4. \A b \in f : \A i \in 1 .. n :
        b < s[i] => Cardinality(UpTo(f, b)) \in Nat /\ Cardinality(UpTo(f, b)) < i
  BY <1>2, UpToGrows
<1>5. ASSUME NEW i \in 1 .. n, NEW j \in 1 .. n, i < j PROVE s[i] < s[j]
  <2>1. s[i] \in Nat /\ s[j] \in Nat
    BY <1>2
  <2>2. CASE s[i] = s[j]
    BY <1>2, <1>5, <2>2
  <2>3. CASE s[j] < s[i]
    <3>1. Cardinality(UpTo(f, s[j])) < i
      BY <1>2, <1>4, <2>3
    <3>2. QED
      BY <1>2, <1>5, <3>1
  <2>4. QED
    BY <2>1, <2>2, <2>3
<1>6. ASSUME NEW b \in f, NEW i \in 1 .. n, b < s[i]
      PROVE  \E j \in 1 .. n : s[j] = b
  <2>1. b \in UpTo(f, b) /\ UpTo(f, b) \in SUBSET f
    <3>1. b \in Nat
      OBVIOUS
    <3>2. QED
      BY <3>1 DEF UpTo
  <2>2. IsFiniteSet(UpTo(f, b))
    BY <2>1, FS_Subset
  <2>3. Cardinality(UpTo(f, b)) # 0
    BY <2>1, <2>2, FS_EmptySet
  <2>4. PICK j \in 1 .. n : j = Cardinality(UpTo(f, b))
    BY <1>4, <1>6, <2>3
  <2>5. s[j] \in f /\ Cardinality(UpTo(f, s[j])) = j /\ s[j] \in Nat /\ b \in Nat
    BY <1>2
  <2>6. CASE s[j] < b
    <3>1. Cardinality(UpTo(f, s[j])) < Cardinality(UpTo(f, b))
      BY <2>5, <2>6, UpToGrows
    <3>2. QED
      BY <2>4, <2>5, <3>1
  <2>7. CASE b < s[j]
    <3>1. Cardinality(UpTo(f, b)) < Cardinality(UpTo(f, s[j]))
      BY <2>5, <2>7, UpToGrows
    <3>2. QED
      BY <2>4, <2>5, <3>1
  <2>8. QED
    BY <2>5, <2>6, <2>7
<1>7. \E t \in [1 .. n -> f] : Good(t)
  BY <1>3, <1>5, <1>6
<1>8. Lowest(f, n) = CHOOSE t \in [1 .. n -> f] : Good(t)
  BY DEF Lowest
<1> HIDE DEF Good
<1>9. Lowest(f, n) \in [1 .. n -> f]
  BY <1>7, <1>8, Zenon
<1>10. QED
  BY <1>9

-----------------------------------------------------------------------------
(* Types.                                                                  *)

Message == Nat \cup {"size"} \cup Seq(Buffers)
Connections == [peer : Peers, rings : Seq(Buffers), index : Seq(Buffers)]

Types ==
  /\ pc \in [Peers -> {"idle", "send num", "num", "send size", "size", "send data",
                       "data", "open", "dead"}]
  /\ asked \in [Peers -> Nat]
  /\ up \in [Peers -> Seq(Message)] /\ down \in [Peers -> Seq(Message)]
  /\ ended \in [Peers -> {"no", "closed", "reset"}]
  /\ mine \in [Peers -> Seq(Buffers)]
  /\ theirs \in [Peers -> Message]
  /\ serving \in Peers \cup {None}
  /\ free \subseteq Buffers
  /\ rings \in Seq(Buffers)
  /\ conns \subseteq Connections

(* What is under way to the server from peer p fits the step of accept,    *)
(* also when the peer is dead.                                             *)
Waiting(p) == p \in backlog \/ (serving = p /\ step = "num")
At(p, s) == serving = p /\ step = s
Away(p) == p \notin backlog /\ serving # p

Sent(p) ==
  /\ serving = p => p \notin backlog /\ step \in {"num", "size", "data"}
  /\ Waiting(p) => up[p] = << >> \/ up[p] = <<asked[p]>>
  /\ At(p, "size") => up[p] = << >> \/ up[p] = <<"size">>
  /\ At(p, "data") => up[p] = << >> \/ up[p] = <<mine[p]>>

(* The server has the connection of peer p whose send queues write into    *)
(* the server's buffers r.                                                 *)
Match(p, r) ==
  \E k \in conns : /\ k.peer = p /\ k.index = mine[p] /\ k.rings = r
                   /\ Len(k.index) = Len(r)

Quiet(p) == up[p] = << >> /\ down[p] = << >>

(* Peer p in every step of connect.                                        *)
Num(p) ==
  \/ Waiting(p) /\ up[p] = <<asked[p]>> /\ down[p] = << >>
  \/ /\ At(p, "size") /\ up[p] = << >> /\ down[p] = <<ServerQueues>>
     /\ Len(rings) = NumQueues(ServerQueues, asked[p])

Size(p) ==
  /\ Len(mine[p]) = Len(rings)
  /\ \/ At(p, "size") /\ up[p] = <<"size">> /\ down[p] = << >>
     \/ At(p, "data") /\ up[p] = << >> /\ down[p] = <<"size">>

Data(p) ==
  \/ /\ At(p, "data") /\ up[p] = <<mine[p]>> /\ down[p] = << >>
     /\ Len(mine[p]) = Len(rings)
  \/ /\ Away(p) /\ up[p] = << >> /\ Len(down[p]) = 1 /\ Match(p, down[p][1])

Stage(p) ==
  /\ pc[p] # "dead" => ended[p] = "no"
  /\ pc[p] = "idle" => Away(p) /\ Quiet(p)
  /\ pc[p] = "send num" => Waiting(p) /\ Quiet(p)
  /\ pc[p] = "num" => Num(p)
  /\ pc[p] = "send size" => At(p, "size") /\ Quiet(p) /\ Len(mine[p]) = Len(rings)
  /\ pc[p] = "size" => Size(p)
  /\ pc[p] = "send data" => At(p, "data") /\ Quiet(p) /\ Len(mine[p]) = Len(rings)
  /\ pc[p] = "data" => Data(p)
  /\ pc[p] = "open" => Away(p) /\ Quiet(p) /\ Match(p, theirs[p])

(* The inductive invariant.                                                *)
Turns == Types /\ \A p \in Peers : Sent(p) /\ Stage(p)

(* A socket with nothing on it.                                            *)
LEMMA NothingSent ==
  << >> \in Seq(Message) /\ << >> \in Seq(Buffers) /\ << >> \in Message
BY DEF Message

(* A socket when its only message is taken.                                *)
LEMMA LastTaken ==
  ASSUME NEW s \in Seq(Message), Len(s) = 1
  PROVE  Tail(s) = << >> /\ Head(s) = s[1]
<1>1. Tail(s) \in Seq(Message) /\ Len(Tail(s)) = 0
  OBVIOUS
<1>2. Tail(s) = << >>
  BY <1>1, EmptySeq
<1>3. QED
  BY <1>2

(* A step that concerns another peer leaves everything about p as it was.  *)
LEMMA Frame ==
  ASSUME NEW p \in Peers, Sent(p), Stage(p),
         pc'[p] = pc[p], asked'[p] = asked[p], up'[p] = up[p], down'[p] = down[p],
         ended'[p] = ended[p], mine'[p] = mine[p], theirs'[p] = theirs[p],
         p \in backlog' <=> p \in backlog, serving' = p <=> serving = p,
         serving = p => step' = step /\ rings' = rings,
         \A k \in conns : k.peer = p => k \in conns'
  PROVE  Sent(p)' /\ Stage(p)'
<1>1. Waiting(p)' = Waiting(p) /\ Away(p)' = Away(p) /\ Quiet(p)' = Quiet(p)
  BY DEF Waiting, Away, Quiet
<1>2. \A s : (serving' = p /\ step' = s) <=> (serving = p /\ step = s)
  OBVIOUS
<1>3. At(p, "size")' = At(p, "size") /\ At(p, "data")' = At(p, "data")
  BY <1>2 DEF At
<1>4. Sent(p)'
  BY <1>1, <1>3 DEF Sent
<1>5. ASSUME NEW r, Match(p, r)
      PROVE  \E k \in conns' : /\ k.peer = p /\ k.index = mine'[p] /\ k.rings = r
                               /\ Len(k.index) = Len(r)
  BY <1>5 DEF Match
<1>6. Match(p, theirs[p]) => Match(p, theirs[p])'
  BY <1>5 DEF Match
<1>7. Match(p, down[p][1]) => Match(p, down[p][1])'
  BY <1>5 DEF Match
<1>8. serving = p => rings' = rings
  OBVIOUS
<1>9. Num(p) => Num(p)'
  BY <1>1, <1>3, <1>8 DEF Num, At
<1>10. Size(p) => Size(p)'
  BY <1>1, <1>3, <1>8 DEF Size, At
<1>11. Data(p) => Data(p)'
  BY <1>1, <1>3, <1>7, <1>8 DEF Data, At
<1>12. Stage(p)'
  BY <1>1, <1>3, <1>6, <1>8, <1>9, <1>10, <1>11 DEF Stage, At
<1>13. QED
  BY <1>4, <1>12

(* The start.                                                              *)
LEMMA InitTurns == Init => Turns
<1> SUFFICES ASSUME Init PROVE Turns
  OBVIOUS
<1>1. Types
  BY BuffersAssumption, NothingSent DEF Init, Types
<1>2. ASSUME NEW p \in Peers PROVE Sent(p) /\ Stage(p)
  <2>1. Away(p) /\ Quiet(p) /\ pc[p] = "idle" /\ ended[p] = "no"
    BY NoneAssumption DEF Init, Away, Quiet
  <2>2. QED
    BY <2>1 DEF Sent, Stage, Waiting, At, Away, Quiet
<1>3. QED
  BY <1>1, <1>2 DEF Turns

(* A peer opens its socket.                                                *)
LEMMA TurnsConnect ==
  ASSUME NEW q \in Peers, NEW n \in PeerQueues, Turns, Connect(q, n)
  PROVE  Turns'
<1> USE DEF Turns
<1>1. Types'
  BY QueuesAssumption DEF Connect, Types
<1>2. ASSUME NEW p \in Peers, p # q PROVE Sent(p)' /\ Stage(p)'
  <2>1. /\ pc'[p] = pc[p] /\ asked'[p] = asked[p] /\ up'[p] = up[p]
        /\ down'[p] = down[p] /\ ended'[p] = ended[p] /\ mine'[p] = mine[p]
        /\ theirs'[p] = theirs[p]
        /\ p \in backlog' <=> p \in backlog
        /\ serving' = p <=> serving = p
        /\ serving = p => step' = step /\ rings' = rings
        /\ \A k \in conns : k.peer = p => k \in conns'
    BY <1>2 DEF Connect, Types
  <2>2. QED
    BY <2>1, Frame
<1>3. Sent(q)' /\ Stage(q)'
  <2>1. pc[q] = "idle" /\ Away(q) /\ Quiet(q) /\ ended[q] = "no"
    BY DEF Connect, Stage
  <2>2. /\ pc'[q] = "send num" /\ Quiet(q)' /\ ended'[q] = "no" /\ Waiting(q)'
        /\ serving' # q
    BY <2>1 DEF Connect, Types, Quiet, Waiting, Away
  <2>3. QED
    BY <2>2 DEF Sent, Stage, At, Quiet
<1>4. QED
  BY <1>1, <1>2, <1>3

(* A peer sends.                                                           *)
LEMMA TurnsConnectSend ==
  ASSUME NEW q \in Peers, Turns, ConnectSend(q)
  PROVE  Turns'
<1> USE DEF Turns
<1>0. /\ asked[q] \in Message /\ "size" \in Message /\ mine[q] \in Message
      /\ mine[q] \in Seq(Buffers) /\ up[q] \in Seq(Message)
  BY DEF Types, Message
<1>1. Types'
  <2>1. \A m \in Message : Append(up[q], m) \in Seq(Message)
    BY <1>0
  <2>2. up' \in [Peers -> Seq(Message)]
    <3>1. PICK m \in Message : up' = [up EXCEPT ![q] = Append(up[q], m)]
      BY <1>0 DEF ConnectSend, Put
    <3>2. QED
      BY <2>1, <3>1 DEF Types
  <2>3. QED
    BY <2>2 DEF ConnectSend, Types, serverVars
<1>2. ASSUME NEW p \in Peers, p # q PROVE Sent(p)' /\ Stage(p)'
  <2>1. /\ pc'[p] = pc[p] /\ asked'[p] = asked[p] /\ up'[p] = up[p]
        /\ down'[p] = down[p] /\ ended'[p] = ended[p] /\ mine'[p] = mine[p]
        /\ theirs'[p] = theirs[p]
        /\ p \in backlog' <=> p \in backlog
        /\ serving' = p <=> serving = p
        /\ serving = p => step' = step /\ rings' = rings
        /\ \A k \in conns : k.peer = p => k \in conns'
    BY <1>2 DEF ConnectSend, Types, serverVars, Put
  <2>2. QED
    BY <2>1, Frame
<1>3. Sent(q)' /\ Stage(q)'
  <2>0. /\ Waiting(q)' = Waiting(q) /\ At(q, "size")' = At(q, "size")
        /\ At(q, "data")' = At(q, "data") /\ mine' = mine /\ asked' = asked
        /\ down' = down /\ rings' = rings /\ ended' = ended
        /\ serving' = serving /\ backlog' = backlog /\ step' = step
    BY DEF ConnectSend, serverVars, Waiting, At
  <2>1. \A m \in Message : Append(<< >>, m) = <<m>>
    OBVIOUS
  <2>2. CASE pc[q] = "send num"
    <3>1. Waiting(q) /\ Quiet(q) /\ ended[q] = "no"
      BY <2>2 DEF Stage
    <3>2. pc'[q] = "num" /\ up'[q] = <<asked[q]>> /\ down'[q] = << >>
      BY <1>0, <2>0, <2>1, <2>2, <3>1 DEF ConnectSend, Types, Put, Quiet
    <3>3. Num(q)'
      BY <2>0, <3>1, <3>2 DEF Num
    <3>4. ~ At(q, "size") /\ ~ At(q, "data")
      BY <3>1 DEF Waiting, At, Sent
    <3>5. QED
      BY <2>0, <3>1, <3>2, <3>3, <3>4 DEF Stage, Sent
  <2>3. CASE pc[q] = "send size"
    <3>1. At(q, "size") /\ Quiet(q) /\ ended[q] = "no" /\ Len(mine[q]) = Len(rings)
      BY <2>3 DEF Stage
    <3>2. pc'[q] = "size" /\ up'[q] = <<"size">> /\ down'[q] = << >>
      BY <1>0, <2>0, <2>1, <2>3, <3>1 DEF ConnectSend, Types, Put, Quiet
    <3>3. Size(q)'
      BY <2>0, <3>1, <3>2 DEF Size
    <3>4. ~ Waiting(q) /\ ~ At(q, "data")
      BY <3>1 DEF Waiting, At, Sent
    <3>5. QED
      BY <2>0, <3>1, <3>2, <3>3, <3>4 DEF Stage, Sent
  <2>4. CASE pc[q] = "send data"
    <3>1. At(q, "data") /\ Quiet(q) /\ ended[q] = "no" /\ Len(mine[q]) = Len(rings)
      BY <2>4 DEF Stage
    <3>2. pc'[q] = "data" /\ up'[q] = <<mine[q]>> /\ down'[q] = << >>
      BY <1>0, <2>0, <2>1, <2>4, <3>1 DEF ConnectSend, Types, Put, Quiet
    <3>3. Data(q)'
      BY <2>0, <3>1, <3>2 DEF Data
    <3>4. ~ Waiting(q) /\ ~ At(q, "size")
      BY <3>1 DEF Waiting, At, Sent
    <3>5. QED
      BY <2>0, <3>1, <3>2, <3>3, <3>4 DEF Stage, Sent
  <2>5. QED
    BY <2>2, <2>3, <2>4 DEF ConnectSend
<1>4. QED
  BY <1>1, <1>2, <1>3

(* A peer takes the number of queues: what comes is the server's number,   *)
(* so it sets aside as many buffers as the server has.                     *)
LEMMA TurnsConnectNum ==
  ASSUME NEW q \in Peers, Turns, ConnectNum(q)
  PROVE  Turns'
<1> USE DEF Turns
<1>1. pc[q] = "num" /\ Num(q) /\ ended[q] = "no" /\ down[q] # << >>
  BY DEF ConnectNum, Stage
<1>2. /\ At(q, "size") /\ up[q] = << >> /\ down[q] = <<ServerQueues>>
      /\ Len(rings) = NumQueues(ServerQueues, asked[q])
  BY <1>1 DEF Num
<1>3. PICK n \in Nat : n = NumQueues(asked[q], ServerQueues) /\ n = Len(rings)
  <2>1. asked[q] \in Nat
    BY DEF Types
  <2>2. QED
    BY <1>2, <2>1, NumQueuesAgree, QueuesAssumption
<1>4. /\ Cardinality(Buffers) >= n /\ mine' = [mine EXCEPT ![q] = Lowest(Buffers, n)]
      /\ down' = [down EXCEPT ![q] = << >>]
  <2>1. Head(down[q]) = ServerQueues /\ Tail(down[q]) = << >>
    BY <1>2, QueuesAssumption
  <2>2. QED
    BY <1>3, <2>1 DEF ConnectNum, Take
<1>5. Lowest(Buffers, n) \in Seq(Buffers) /\ Len(Lowest(Buffers, n)) = n
  <2>1. n <= Cardinality(Buffers)
    BY <1>4, FS_CardinalityType, BuffersAssumption
  <2>2. QED
    BY <2>1, LowestType, BuffersAssumption
<1>6. Types'
  BY <1>4, <1>5, NothingSent, ZenonT(30) DEF ConnectNum, Types, serverVars
<1>7. ASSUME NEW p \in Peers, p # q PROVE Sent(p)' /\ Stage(p)'
  <2>1. /\ pc'[p] = pc[p] /\ asked'[p] = asked[p] /\ up'[p] = up[p]
        /\ down'[p] = down[p] /\ ended'[p] = ended[p] /\ mine'[p] = mine[p]
        /\ theirs'[p] = theirs[p]
        /\ p \in backlog' <=> p \in backlog
        /\ serving' = p <=> serving = p
        /\ serving = p => step' = step /\ rings' = rings
        /\ \A k \in conns : k.peer = p => k \in conns'
    BY <1>4, <1>7 DEF ConnectNum, Types, serverVars
  <2>2. QED
    BY <2>1, Frame
<1>8. Sent(q)' /\ Stage(q)'
  <2>1. /\ pc'[q] = "send size" /\ up'[q] = << >> /\ down'[q] = << >>
        /\ At(q, "size")' /\ ended'[q] = "no" /\ Len(mine'[q]) = Len(rings')
        /\ serving' = serving /\ backlog' = backlog /\ step' = step
    BY <1>1, <1>2, <1>3, <1>4, <1>5 DEF ConnectNum, Types, serverVars, At
  <2>2. QED
    BY <2>1 DEF Sent, Stage, At, Quiet, Waiting
<1>9. QED
  BY <1>6, <1>7, <1>8

(* A peer takes the size.                                                  *)
LEMMA TurnsConnectSize ==
  ASSUME NEW q \in Peers, Turns, ConnectSize(q)
  PROVE  Turns'
<1> USE DEF Turns
<1>1. pc[q] = "size" /\ Size(q) /\ ended[q] = "no" /\ down[q] # << >>
  BY DEF ConnectSize, Stage
<1>2. /\ At(q, "data") /\ up[q] = << >> /\ down[q] = <<"size">>
      /\ Len(mine[q]) = Len(rings)
  BY <1>1 DEF Size
<1>3. down' = [down EXCEPT ![q] = << >>]
  <2>1. Tail(down[q]) = << >>
    BY <1>2
  <2>2. QED
    BY <2>1 DEF ConnectSize, Take
<1>4. Types'
  BY <1>3, NothingSent DEF ConnectSize, Types, serverVars
<1>5. ASSUME NEW p \in Peers, p # q PROVE Sent(p)' /\ Stage(p)'
  <2>1. /\ pc'[p] = pc[p] /\ asked'[p] = asked[p] /\ up'[p] = up[p]
        /\ down'[p] = down[p] /\ ended'[p] = ended[p] /\ mine'[p] = mine[p]
        /\ theirs'[p] = theirs[p]
        /\ p \in backlog' <=> p \in backlog
        /\ serving' = p <=> serving = p
        /\ serving = p => step' = step /\ rings' = rings
        /\ \A k \in conns : k.peer = p => k \in conns'
    BY <1>3, <1>5 DEF ConnectSize, Types, serverVars
  <2>2. QED
    BY <2>1, Frame
<1>6. Sent(q)' /\ Stage(q)'
  <2>1. /\ pc'[q] = "send data" /\ up'[q] = << >> /\ down'[q] = << >>
        /\ At(q, "data")' /\ ended'[q] = "no" /\ Len(mine'[q]) = Len(rings')
        /\ serving' = serving /\ backlog' = backlog /\ step' = step
    BY <1>1, <1>2, <1>3 DEF ConnectSize, Types, serverVars, At
  <2>2. QED
    BY <2>1 DEF Sent, Stage, At, Quiet, Waiting
<1>7. QED
  BY <1>4, <1>5, <1>6

(* A peer takes the server's indices: they are those of a connection that  *)
(* the server has, and nobody has ended it while the peer waited.          *)
LEMMA TurnsConnectData ==
  ASSUME NEW q \in Peers, Turns, ConnectData(q)
  PROVE  Turns'
<1> USE DEF Turns
<1>1. pc[q] = "data" /\ Data(q) /\ ended[q] = "no" /\ down[q] # << >>
  BY DEF ConnectData, Stage
<1>2. Away(q) /\ up[q] = << >> /\ Len(down[q]) = 1 /\ Match(q, down[q][1])
  BY <1>1 DEF Data
<1>3. /\ down' = [down EXCEPT ![q] = << >>]
      /\ theirs' = [theirs EXCEPT ![q] = down[q][1]]
  <2>1. down[q] \in Seq(Message)
    BY DEF Types
  <2>2. Tail(down[q]) = << >> /\ Head(down[q]) = down[q][1]
    BY <1>2, <2>1, LastTaken
  <2>3. QED
    BY <2>2 DEF ConnectData, Take
<1>4. Types'
  <2>1. down[q] \in Seq(Message)
    BY DEF Types
  <2>2. down[q][1] \in Message
    BY <1>2, <2>1
  <2>3. QED
    BY <1>3, <2>2, NothingSent, ZenonT(30) DEF ConnectData, Types, serverVars
<1>5. ASSUME NEW p \in Peers, p # q PROVE Sent(p)' /\ Stage(p)'
  <2>1. /\ pc'[p] = pc[p] /\ asked'[p] = asked[p] /\ up'[p] = up[p]
        /\ down'[p] = down[p] /\ ended'[p] = ended[p] /\ mine'[p] = mine[p]
        /\ theirs'[p] = theirs[p]
        /\ p \in backlog' <=> p \in backlog
        /\ serving' = p <=> serving = p
        /\ serving = p => step' = step /\ rings' = rings
        /\ \A k \in conns : k.peer = p => k \in conns'
    BY <1>3, <1>5 DEF ConnectData, Types, serverVars
  <2>2. QED
    BY <2>1, Frame
<1>6. Sent(q)' /\ Stage(q)'
  <2>1. /\ pc'[q] = "open" /\ up'[q] = << >> /\ down'[q] = << >>
        /\ ended'[q] = "no" /\ theirs'[q] = down[q][1]
        /\ serving' = serving /\ backlog' = backlog /\ conns' = conns /\ mine' = mine
    BY <1>1, <1>2, <1>3 DEF ConnectData, Types, serverVars
  <2>2. Match(q, theirs[q])'
    BY <1>2, <2>1 DEF Match
  <2>3. QED
    BY <1>2, <2>1, <2>2 DEF Sent, Stage, At, Away, Quiet, Waiting
<1>7. QED
  BY <1>4, <1>5, <1>6

(* A peer dies: what it has sent stays where it is.                        *)
LEMMA TurnsDie ==
  ASSUME NEW q \in Peers, Turns, Die(q)
  PROVE  Turns'
<1> USE DEF Turns
<1>1. Types'
  BY EndsAssumption DEF Die, Types, serverVars
<1>2. ASSUME NEW p \in Peers, p # q PROVE Sent(p)' /\ Stage(p)'
  <2>1. /\ pc'[p] = pc[p] /\ asked'[p] = asked[p] /\ up'[p] = up[p]
        /\ down'[p] = down[p] /\ ended'[p] = ended[p] /\ mine'[p] = mine[p]
        /\ theirs'[p] = theirs[p]
        /\ p \in backlog' <=> p \in backlog
        /\ serving' = p <=> serving = p
        /\ serving = p => step' = step /\ rings' = rings
        /\ \A k \in conns : k.peer = p => k \in conns'
    BY <1>2 DEF Die, Types, serverVars
  <2>2. QED
    BY <2>1, Frame
<1>3. Sent(q)' /\ Stage(q)'
  <2>1. pc'[q] = "dead" /\ Sent(q)
    BY DEF Die, Types
  <2>2. Sent(q)'
    BY <2>1 DEF Die, Sent, Waiting, At, serverVars
  <2>3. QED
    BY <2>1, <2>2 DEF Stage
<1>4. QED
  BY <1>1, <1>2, <1>3

(* A peer is started again, with a new socket.                             *)
LEMMA TurnsRestart ==
  ASSUME NEW q \in Peers, Turns, Restart(q)
  PROVE  Turns'
<1> USE DEF Turns
<1>1. Types'
  BY NothingSent DEF Restart, Types, serverVars
<1>2. ASSUME NEW p \in Peers, p # q PROVE Sent(p)' /\ Stage(p)'
  <2>1. /\ pc'[p] = pc[p] /\ asked'[p] = asked[p] /\ up'[p] = up[p]
        /\ down'[p] = down[p] /\ ended'[p] = ended[p] /\ mine'[p] = mine[p]
        /\ theirs'[p] = theirs[p]
        /\ p \in backlog' <=> p \in backlog
        /\ serving' = p <=> serving = p
        /\ serving = p => step' = step /\ rings' = rings
        /\ \A k \in conns : k.peer = p => k \in conns'
    BY <1>2 DEF Restart, Types, serverVars
  <2>2. QED
    BY <2>1, Frame
<1>3. Sent(q)' /\ Stage(q)'
  <2>1. pc'[q] = "idle" /\ Away(q)' /\ Quiet(q)' /\ ended'[q] = "no"
    BY DEF Restart, Types, serverVars, Away, Quiet
  <2>2. QED
    BY <2>1 DEF Sent, Stage, Waiting, At, Away, Quiet
<1>4. QED
  BY <1>1, <1>2, <1>3

(* The server takes a connection off the socket.                           *)
LEMMA TurnsAccept ==
  ASSUME NEW q \in Peers, Turns, Accept(q)
  PROVE  Turns'
<1> USE DEF Turns
<1>1. Types'
  BY DEF Accept, Types, peerVars
<1>2. ASSUME NEW p \in Peers, p # q PROVE Sent(p)' /\ Stage(p)'
  <2>1. /\ pc'[p] = pc[p] /\ asked'[p] = asked[p] /\ up'[p] = up[p]
        /\ down'[p] = down[p] /\ ended'[p] = ended[p] /\ mine'[p] = mine[p]
        /\ theirs'[p] = theirs[p]
        /\ p \in backlog' <=> p \in backlog
        /\ serving' = p <=> serving = p
        /\ serving = p => step' = step /\ rings' = rings
        /\ \A k \in conns : k.peer = p => k \in conns'
    BY <1>2, NoneAssumption DEF Accept, peerVars
  <2>2. QED
    BY <2>1, Frame
<1>3. Sent(q)' /\ Stage(q)'
  <2>1. /\ Waiting(q) /\ q \in backlog /\ serving # q /\ Sent(q) /\ Stage(q)
        /\ q \notin backlog' /\ serving' = q /\ step' = "num"
        /\ UNCHANGED <<pc, asked, up, down, ended, mine, theirs>>
    BY NoneAssumption DEF Accept, Waiting, peerVars
  <2>2. /\ Waiting(q)' /\ ~ At(q, "size")' /\ ~ At(q, "data")'
        /\ ~ At(q, "size") /\ ~ At(q, "data") /\ ~ Away(q)
    BY <2>1 DEF Waiting, At, Away
  <2>3. Quiet(q)' = Quiet(q)
    BY <2>1 DEF Quiet
  <2>4. Num(q) => Num(q)'
    BY <2>1, <2>2 DEF Num
  <2>5. ~ Size(q) /\ ~ Data(q)
    BY <2>2 DEF Size, Data
  <2>6. Sent(q)'
    BY <2>1, <2>2 DEF Sent
  <2>7. Stage(q)'
    BY <2>1, <2>2, <2>3, <2>4, <2>5 DEF Stage
  <2>8. QED
    BY <2>6, <2>7
<1>4. QED
  BY <1>1, <1>2, <1>3

(* What is taken in a step of accept is the one message that is there, and *)
(* the answer follows it.                                                  *)
LEMMA TakenAndAnswered ==
  ASSUME NEW q \in Peers, NEW m, NEW a \in Message, Types,
         up[q] = <<m>>, up' = Take(up, q), Answer(q, a)
  PROVE  /\ up' = [up EXCEPT ![q] = << >>] /\ Head(up[q]) = m
         /\ up' \in [Peers -> Seq(Message)] /\ down' \in [Peers -> Seq(Message)]
         /\ ended' \in [Peers -> {"no", "closed", "reset"}]
         /\ down' = [down EXCEPT ![q] = Append(down[q], a)]
         /\ down[q] = << >> => down'[q] = <<a>>
         /\ ended[q] = "no" => ended' = ended
         /\ \A p \in Peers : p # q => ended'[p] = ended[p]
<1>1. Tail(up[q]) = << >> /\ Head(up[q]) = m
  OBVIOUS
<1>2. up' = [up EXCEPT ![q] = << >>]
  BY <1>1 DEF Take
<1>3. Append(down[q], a) \in Seq(Message) /\ Append(<< >>, a) = <<a>>
  <2>1. down[q] \in Seq(Message)
    BY DEF Types
  <2>2. QED
    BY <2>1, AppendProperties
<1>4. /\ down' = [down EXCEPT ![q] = Append(down[q], a)]
      /\ ended' = ended
  BY DEF Answer
<1>5. QED
  BY <1>1, <1>2, <1>3, <1>4, NothingSent DEF Types

(* The server takes the number of queues and sets buffers aside.           *)
LEMMA TurnsAcceptNum ==
  ASSUME Turns, AcceptNum
  PROVE  Turns'
<1> USE DEF Turns
<1>1. PICK q \in Peers : q = serving
  BY DEF AcceptNum, Arrived, Types
<1>2. /\ step = "num" /\ up[q] = <<asked[q]>> /\ Head(up[q]) = asked[q]
      /\ asked[q] \in Nat /\ q \notin backlog /\ Waiting(q)
      /\ ~ At(q, "size") /\ ~ At(q, "data") /\ ~ Away(q)
  <2>1. step = "num" /\ up[q] # << >> /\ serving = q /\ asked[q] \in Nat
    BY <1>1 DEF AcceptNum, Arrived, Types
  <2>2. up[q] = <<asked[q]>> /\ q \notin backlog
    BY <2>1 DEF Sent, Waiting
  <2>3. QED
    BY <2>1, <2>2 DEF Waiting, At, Away
<1>3. PICK n \in Nat : n = NumQueues(ServerQueues, asked[q])
  BY <1>2, NumQueuesAgree, QueuesAssumption
<1>4. /\ Cardinality(free) >= n /\ rings' = Lowest(free, n)
      /\ free' \subseteq free
  BY <1>1, <1>2, <1>3 DEF AcceptNum
<1>5. IsFiniteSet(free) /\ free \subseteq Nat /\ free \in SUBSET Buffers
  <2>1. free \in SUBSET Buffers
    BY DEF Types
  <2>2. QED
    BY <2>1, BuffersAssumption, FS_Subset
<1>6. rings' \in [1 .. n -> free] /\ Len(rings') = n
  <2>1. n <= Cardinality(free)
    BY <1>4, <1>5, FS_CardinalityType
  <2>2. QED
    BY <1>4, <1>5, <2>1, LowestType
<1>7. rings' \in Seq(Buffers)
  <2>1. rings' \in [1 .. n -> Buffers]
    BY <1>5, <1>6
  <2>2. QED
    BY <2>1
<1>8. /\ up' = [up EXCEPT ![q] = << >>]
      /\ up' \in [Peers -> Seq(Message)] /\ down' \in [Peers -> Seq(Message)]
      /\ ended' \in [Peers -> {"no", "closed", "reset"}]
      /\ down' = [down EXCEPT ![q] = Append(down[q], ServerQueues)]
      /\ down[q] = << >> => down'[q] = <<ServerQueues>>
      /\ ended[q] = "no" => ended' = ended
      /\ \A p \in Peers : p # q => ended'[p] = ended[p]
  <2>1. ServerQueues \in Message
    BY QueuesAssumption DEF Message
  <2>2. up' = Take(up, q) /\ Answer(q, ServerQueues)
    BY <1>1 DEF AcceptNum
  <2>3. QED
    BY <1>2, <2>1, <2>2, TakenAndAnswered
<1>9. Types'
  BY <1>4, <1>5, <1>7, <1>8 DEF AcceptNum, Types, peerVars
<1>10. ASSUME NEW p \in Peers, p # q PROVE Sent(p)' /\ Stage(p)'
  <2>1. /\ pc'[p] = pc[p] /\ asked'[p] = asked[p] /\ up'[p] = up[p]
        /\ down'[p] = down[p] /\ ended'[p] = ended[p] /\ mine'[p] = mine[p]
        /\ theirs'[p] = theirs[p]
        /\ p \in backlog' <=> p \in backlog
        /\ serving' = p <=> serving = p
        /\ serving = p => step' = step /\ rings' = rings
        /\ \A k \in conns : k.peer = p => k \in conns'
    BY <1>1, <1>8, <1>10 DEF AcceptNum, peerVars, Types
  <2>2. QED
    BY <2>1, Frame
<1>11. Sent(q)' /\ Stage(q)'
  <2>1. /\ serving' = q /\ step' = "size" /\ backlog' = backlog /\ pc' = pc
        /\ asked' = asked /\ up'[q] = << >>
    BY <1>1, <1>8 DEF AcceptNum, peerVars, Types
  <2>2. At(q, "size")' /\ ~ At(q, "data")' /\ ~ Waiting(q)'
    BY <1>2, <2>1 DEF At, Waiting
  <2>3. Sent(q)'
    BY <1>2, <2>1, <2>2 DEF Sent
  <2>4. pc[q] \in {"num", "dead"}
    <3>1. ~ Quiet(q) /\ ~ Size(q) /\ ~ Data(q)
      BY <1>2 DEF Quiet, Size, Data
    <3>2. QED
      BY <1>2, <3>1 DEF Stage, Types
  <2>5. CASE pc[q] = "num"
    <3>1. down[q] = << >> /\ ended[q] = "no"
      BY <1>2, <2>5 DEF Stage, Num
    <3>2. down'[q] = <<ServerQueues>> /\ ended'[q] = "no"
      BY <1>8, <3>1 DEF Types
    <3>3. Num(q)'
      BY <1>3, <1>6, <2>1, <2>2, <3>2 DEF Num
    <3>4. QED
      BY <2>1, <2>3, <2>5, <3>2, <3>3 DEF Stage
  <2>6. CASE pc[q] = "dead"
    BY <2>1, <2>3, <2>6 DEF Stage
  <2>7. QED
    BY <2>4, <2>5, <2>6
<1>12. QED
  BY <1>9, <1>10, <1>11

(* The server takes the size.                                              *)
LEMMA TurnsAcceptSize ==
  ASSUME Turns, AcceptSize
  PROVE  Turns'
<1> USE DEF Turns
<1>1. PICK q \in Peers : q = serving
  BY DEF AcceptSize, Arrived, Types
<1>2. /\ step = "size" /\ up[q] = <<"size">>
      /\ q \notin backlog /\ At(q, "size")
      /\ ~ Waiting(q) /\ ~ At(q, "data") /\ ~ Away(q)
  BY <1>1 DEF AcceptSize, Arrived, Sent, Waiting, At, Away, Types
<1>3. /\ up' = [up EXCEPT ![q] = << >>]
      /\ up' \in [Peers -> Seq(Message)] /\ down' \in [Peers -> Seq(Message)]
      /\ ended' \in [Peers -> {"no", "closed", "reset"}]
      /\ down' = [down EXCEPT ![q] = Append(down[q], "size")]
      /\ down[q] = << >> => down'[q] = <<"size">>
      /\ ended[q] = "no" => ended' = ended
      /\ \A p \in Peers : p # q => ended'[p] = ended[p]
  <2>1. "size" \in Message
    BY DEF Message
  <2>2. up' = Take(up, q) /\ Answer(q, "size")
    BY <1>1 DEF AcceptSize
  <2>3. QED
    BY <1>2, <2>1, <2>2, TakenAndAnswered
<1>4. Types'
  BY <1>3 DEF AcceptSize, Types, peerVars
<1>5. ASSUME NEW p \in Peers, p # q PROVE Sent(p)' /\ Stage(p)'
  <2>1. /\ pc'[p] = pc[p] /\ asked'[p] = asked[p] /\ up'[p] = up[p]
        /\ down'[p] = down[p] /\ ended'[p] = ended[p] /\ mine'[p] = mine[p]
        /\ theirs'[p] = theirs[p]
        /\ p \in backlog' <=> p \in backlog
        /\ serving' = p <=> serving = p
        /\ serving = p => step' = step /\ rings' = rings
        /\ \A k \in conns : k.peer = p => k \in conns'
    BY <1>1, <1>3, <1>5 DEF AcceptSize, peerVars, Types
  <2>2. QED
    BY <2>1, Frame
<1>6. Sent(q)' /\ Stage(q)'
  <2>1. /\ serving' = q /\ step' = "data" /\ backlog' = backlog /\ pc' = pc
        /\ mine' = mine /\ rings' = rings /\ up'[q] = << >>
    BY <1>1, <1>3 DEF AcceptSize, peerVars, Types
  <2>2. At(q, "data")' /\ ~ At(q, "size")' /\ ~ Waiting(q)'
    BY <1>2, <2>1 DEF At, Waiting
  <2>3. Sent(q)'
    BY <1>2, <2>1, <2>2 DEF Sent
  <2>4. pc[q] \in {"size", "dead"}
    <3>1. ~ Quiet(q) /\ ~ Num(q) /\ ~ Data(q)
      BY <1>2 DEF Quiet, Num, Data
    <3>2. QED
      BY <1>2, <3>1 DEF Stage, Types
  <2>5. CASE pc[q] = "size"
    <3>1. down[q] = << >> /\ ended[q] = "no" /\ Len(mine[q]) = Len(rings)
      BY <1>2, <2>5 DEF Stage, Size
    <3>2. down'[q] = <<"size">> /\ ended'[q] = "no"
      BY <1>3, <3>1 DEF Types
    <3>3. Size(q)'
      BY <2>1, <2>2, <3>1, <3>2 DEF Size
    <3>4. QED
      BY <2>1, <2>3, <2>5, <3>2, <3>3 DEF Stage
  <2>6. CASE pc[q] = "dead"
    BY <2>1, <2>3, <2>6 DEF Stage
  <2>7. QED
    BY <2>4, <2>5, <2>6
<1>7. QED
  BY <1>4, <1>5, <1>6

(* The server takes the peer's indices and has the connection.             *)
LEMMA TurnsAcceptData ==
  ASSUME Turns, AcceptData
  PROVE  Turns'
<1> USE DEF Turns
<1>1. PICK q \in Peers : q = serving
  BY DEF AcceptData, Arrived, Types
<1>2. /\ step = "data" /\ up[q] = <<mine[q]>> /\ mine[q] \in Seq(Buffers)
      /\ q \notin backlog /\ At(q, "data")
      /\ ~ Waiting(q) /\ ~ At(q, "size") /\ ~ Away(q)
  <2>1. step = "data" /\ up[q] # << >> /\ serving = q /\ mine[q] \in Seq(Buffers)
    BY <1>1 DEF AcceptData, Arrived, Types
  <2>2. up[q] = <<mine[q]>> /\ q \notin backlog
    BY <2>1 DEF Sent, At
  <2>3. QED
    BY <2>1, <2>2 DEF Waiting, At, Away
<1>3. /\ up' = [up EXCEPT ![q] = << >>] /\ Head(up[q]) = mine[q]
      /\ up' \in [Peers -> Seq(Message)] /\ down' \in [Peers -> Seq(Message)]
      /\ ended' \in [Peers -> {"no", "closed", "reset"}]
      /\ down' = [down EXCEPT ![q] = Append(down[q], rings)]
      /\ down[q] = << >> => down'[q] = <<rings>>
      /\ ended[q] = "no" => ended' = ended
      /\ \A p \in Peers : p # q => ended'[p] = ended[p]
  <2>1. rings \in Message
    BY DEF Message, Types
  <2>2. up' = Take(up, q) /\ Answer(q, rings)
    BY <1>1 DEF AcceptData
  <2>3. QED
    BY <1>2, <2>1, <2>2, TakenAndAnswered
<1> DEFINE k == [peer |-> q, rings |-> rings, index |-> mine[q]]
<1>4. conns' = conns \cup {k}
  BY <1>1, <1>3 DEF AcceptData
<1>5. k \in Connections
  BY <1>2 DEF Connections, Types
<1>6. Types'
  <2>1. conns' \subseteq Connections
    BY <1>4, <1>5 DEF Types
  <2>2. QED
    BY <1>3, <2>1, NothingSent DEF AcceptData, Types, peerVars
<1>7. ASSUME NEW p \in Peers, p # q PROVE Sent(p)' /\ Stage(p)'
  <2>1. /\ pc'[p] = pc[p] /\ asked'[p] = asked[p] /\ up'[p] = up[p]
        /\ down'[p] = down[p] /\ ended'[p] = ended[p] /\ mine'[p] = mine[p]
        /\ theirs'[p] = theirs[p]
        /\ p \in backlog' <=> p \in backlog
        /\ serving' = p <=> serving = p
        /\ serving = p => step' = step /\ rings' = rings
    BY <1>1, <1>3, <1>7, NoneAssumption DEF AcceptData, peerVars, Types
  <2>2. \A j \in conns : j \in conns'
    BY <1>4
  <2>3. QED
    BY <2>1, <2>2, Frame
<1>8. Sent(q)' /\ Stage(q)'
  <2>1. /\ serving' # q /\ backlog' = backlog /\ pc' = pc
        /\ mine' = mine /\ up'[q] = << >>
    BY <1>1, <1>3, NoneAssumption DEF AcceptData, peerVars, Types
  <2>2. Away(q)' /\ ~ At(q, "data")' /\ ~ At(q, "size")' /\ ~ Waiting(q)'
    BY <1>2, <2>1 DEF At, Waiting, Away
  <2>3. Sent(q)'
    BY <2>1, <2>2 DEF Sent
  <2>4. pc[q] \in {"data", "dead"}
    <3>1. ~ Quiet(q) /\ ~ Num(q) /\ ~ Size(q)
      BY <1>2 DEF Quiet, Num, Size
    <3>2. QED
      BY <1>2, <3>1 DEF Stage, Types
  <2>5. CASE pc[q] = "data"
    <3>1. down[q] = << >> /\ ended[q] = "no" /\ Len(mine[q]) = Len(rings)
      BY <1>2, <2>5 DEF Stage, Data
    <3>2. Len(down'[q]) = 1 /\ down'[q][1] = rings /\ ended'[q] = "no"
      BY <1>3, <3>1
    <3>3. k \in conns' /\ k.peer = q /\ k.index = mine'[q] /\ k.rings = rings
      BY <1>4, <2>1
    <3>4. Match(q, down[q][1])'
      BY <2>1, <3>1, <3>2, <3>3 DEF Match
    <3>5. Data(q)'
      BY <2>1, <2>2, <3>2, <3>4 DEF Data
    <3>6. QED
      BY <2>1, <2>3, <2>5, <3>2, <3>5 DEF Stage
  <2>6. CASE pc[q] = "dead"
    BY <2>1, <2>3, <2>6 DEF Stage
  <2>7. QED
    BY <2>4, <2>5, <2>6
<1>9. QED
  BY <1>6, <1>7, <1>8

(* The server gives up a connection: its peer is dead.                     *)
LEMMA TurnsAcceptFails ==
  ASSUME Turns, AcceptFails
  PROVE  Turns'
<1> USE DEF Turns
<1>1. PICK q \in Peers : q = serving
  BY DEF AcceptFails, Types
<1>2. pc[q] = "dead"
  BY <1>1 DEF AcceptFails, Stage
<1>3. Types'
  BY NothingSent DEF AcceptFails, Types, peerVars
<1>4. ASSUME NEW p \in Peers, p # q PROVE Sent(p)' /\ Stage(p)'
  <2>1. /\ pc'[p] = pc[p] /\ asked'[p] = asked[p] /\ up'[p] = up[p]
        /\ down'[p] = down[p] /\ ended'[p] = ended[p] /\ mine'[p] = mine[p]
        /\ theirs'[p] = theirs[p]
        /\ p \in backlog' <=> p \in backlog
        /\ serving' = p <=> serving = p
        /\ serving = p => step' = step /\ rings' = rings
        /\ \A k \in conns : k.peer = p => k \in conns'
    BY <1>1, <1>4, NoneAssumption DEF AcceptFails, peerVars
  <2>2. QED
    BY <2>1, Frame
<1>5. Sent(q)' /\ Stage(q)'
  <2>1. pc'[q] = "dead" /\ serving' # q /\ q \notin backlog'
    BY <1>1, <1>2, NoneAssumption DEF AcceptFails, peerVars, Sent
  <2>2. QED
    BY <2>1 DEF Sent, Stage, Waiting, At
<1>6. QED
  BY <1>3, <1>4, <1>5

(* A connection ends: its peer has died or leaves with it, or it is one    *)
(* left over from an earlier life of the peer.                             *)
LEMMA TurnsDestroy ==
  ASSUME NEW k \in conns, Turns, Destroy(k)
  PROVE  Turns'
<1> USE DEF Turns
<1>1. PICK q \in Peers : q = k.peer
  BY DEF Types, Connections
<1>2. k.index \in Seq(Buffers)
  BY DEF Types, Connections
<1>3. Types'
  <2>1. {k.index[i] : i \in DOMAIN k.index} \subseteq Buffers
    BY <1>2
  <2>2. free' \subseteq Buffers /\ conns' \subseteq Connections
    BY <2>1 DEF Destroy, Types
  <2>3. pc' = [pc EXCEPT ![q] = IF pc[q] = "open" /\ theirs[q] = k.rings
                                THEN "dead" ELSE pc[q]]
    BY <1>1 DEF Destroy
  <2>4. QED
    BY <2>2, <2>3 DEF Destroy, Types
<1>4. ASSUME NEW p \in Peers, p # q PROVE Sent(p)' /\ Stage(p)'
  <2>1. /\ pc'[p] = pc[p] /\ asked'[p] = asked[p] /\ up'[p] = up[p]
        /\ down'[p] = down[p] /\ ended'[p] = ended[p] /\ mine'[p] = mine[p]
        /\ theirs'[p] = theirs[p]
        /\ p \in backlog' <=> p \in backlog
        /\ serving' = p <=> serving = p
        /\ serving = p => step' = step /\ rings' = rings
        /\ \A j \in conns : j.peer = p => j \in conns'
    BY <1>1, <1>4 DEF Destroy, Types
  <2>2. QED
    BY <2>1, Frame
<1>5. Sent(q)' /\ Stage(q)'
  <2>1. /\ UNCHANGED <<asked, up, down, ended, mine, theirs, backlog, serving, step, rings>>
        /\ conns' = conns \ {k} /\ pc[q] # "data"
        /\ pc'[q] = IF pc[q] = "open" /\ theirs[q] = k.rings THEN "dead" ELSE pc[q]
    BY <1>1 DEF Destroy, Types
  <2>2. /\ Waiting(q)' = Waiting(q) /\ Away(q)' = Away(q) /\ Quiet(q)' = Quiet(q)
        /\ At(q, "size")' = At(q, "size") /\ At(q, "data")' = At(q, "data")
    BY <2>1 DEF Waiting, Away, Quiet, At
  <2>3. Sent(q)'
    BY <2>1, <2>2 DEF Sent
  <2>4. CASE pc'[q] = "dead"
    BY <2>3, <2>4 DEF Stage
  <2>5. CASE pc'[q] # "dead"
    <3>1. pc'[q] = pc[q] /\ ended'[q] = "no"
      BY <2>1, <2>5 DEF Stage
    <3>2. pc[q] = "open" => Match(q, theirs[q])'
      BY <2>1, <2>5 DEF Stage, Match
    <3>3. (Num(q) => Num(q)') /\ (Size(q) => Size(q)')
      BY <2>1, <2>2 DEF Num, Size
    <3>4. Stage(q)'
      BY <2>1, <2>2, <3>1, <3>2, <3>3 DEF Stage
    <3>5. QED
      BY <2>3, <3>4
  <2>6. QED
    BY <2>4, <2>5
<1>6. QED
  BY <1>3, <1>4, <1>5

-----------------------------------------------------------------------------
(* A peer waits for what it has asked for, and at most one message is      *)
(* under way between it and the server, in every step of the handshake.    *)
THEOREM TurnsInvariant == Spec => []Turns
<1>1. Init => Turns
  BY InitTurns
<1>2. Turns /\ [Next]_vars => Turns'
  <2> SUFFICES ASSUME Turns, [Next]_vars PROVE Turns'
    OBVIOUS
  <2>1. CASE UNCHANGED vars
    <3>1. Types'
      BY <2>1 DEF Turns, Types, vars, peerVars, serverVars
    <3>2. ASSUME NEW p \in Peers PROVE Sent(p)' /\ Stage(p)'
      <4>1. /\ pc'[p] = pc[p] /\ asked'[p] = asked[p] /\ up'[p] = up[p]
            /\ down'[p] = down[p] /\ ended'[p] = ended[p] /\ mine'[p] = mine[p]
            /\ theirs'[p] = theirs[p]
            /\ p \in backlog' <=> p \in backlog
            /\ serving' = p <=> serving = p
            /\ serving = p => step' = step /\ rings' = rings
            /\ \A k \in conns : k.peer = p => k \in conns'
        BY <2>1 DEF vars, peerVars, serverVars
      <4>2. QED
        BY <4>1, Frame DEF Turns
    <3>3. QED
      BY <3>1, <3>2 DEF Turns
  <2>2. ASSUME NEW p \in Peers, NEW n \in PeerQueues, Connect(p, n) PROVE Turns'
    BY <2>2, TurnsConnect
  <2>3. ASSUME NEW p \in Peers, Peer(p) PROVE Turns'
    BY <2>3, TurnsConnectSend, TurnsConnectNum, TurnsConnectSize, TurnsConnectData
    DEF Peer
  <2>4. ASSUME NEW p \in Peers, Die(p) \/ Restart(p) PROVE Turns'
    BY <2>4, TurnsDie, TurnsRestart
  <2>5. CASE Server
    BY <2>5, TurnsAccept, TurnsAcceptNum, TurnsAcceptSize, TurnsAcceptData,
       TurnsAcceptFails DEF Server, AcceptStep
  <2>6. ASSUME NEW k \in conns, Destroy(k) PROVE Turns'
    BY <2>6, TurnsDestroy
  <2>7. QED
    BY <2>1, <2>2, <2>3, <2>4, <2>5, <2>6, Zenon DEF Next
<1>3. QED
  BY <1>1, <1>2, PTL DEF Spec

(* EndsMatch for any number of peers, of buffers and of queues, with       *)
(* deaths, restarts and departures at any moment: when both ends of a      *)
(* connection are up, each send queue writes into the receive buffer that  *)
(* the other end set aside for it.                                         *)
THEOREM ConnectionEndsMatch == Spec => []EndsMatch
<1>1. Turns => EndsMatch
  <2> SUFFICES ASSUME Turns, NEW p \in Peers, pc[p] = "open"
               PROVE  \E k \in conns : /\ k.peer = p /\ k.index = mine[p]
                                       /\ theirs[p] = k.rings
                                       /\ Len(k.index) = Len(k.rings)
    BY DEF EndsMatch
  <2>1. PICK k \in conns : /\ k.peer = p /\ k.index = mine[p] /\ k.rings = theirs[p]
                           /\ Len(k.index) = Len(theirs[p])
    BY DEF Turns, Stage, Match
  <2>2. Len(k.index) = Len(k.rings)
    BY <2>1
  <2>3. QED
    BY <2>1, <2>2
<1>2. QED
  BY <1>1, TurnsInvariant, PTL
=============================================================================
