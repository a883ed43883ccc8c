-------------------------- MODULE ReplicationProofs -------------------------
(***************************************************************************)
(* Proofs about Replication.  First the types of all its state, what holds *)
(* of every log on its own, and the recovery of a client; then the logs of *)
(* the servers compared with one another and with what the clients are     *)
(* told.                                                                   *)
(*                                                                         *)
(* The invariants of the second part name values that no process of the    *)
(* system keeps: the sequence G of the owners of all slots handed out so   *)
(* far; for every client the position of each of its requests in the log,  *)
(* the same on every server that has it; for every server and client the   *)
(* number of requests accepted; for every client the number of requests    *)
(* answered.  Each of them says that such values exist.                    *)
(***************************************************************************)
EXTENDS Replication, WellFoundedInduction, SequenceTheorems, FiniteSetTheorems, TLAPS

-----------------------------------------------------------------------------
(* Facts about natural numbers.  Induction is over sets: a set of naturals *)
(* that is not empty has a least element, so a claim that holds at the     *)
(* start and is handed on from one number to the next has no least         *)
(* counterexample.                                                         *)

(* A set of natural numbers that is not empty has a least element.         *)
LEMMA LeastNat ==
  ASSUME NEW S, S \subseteq Nat, S # {}
  PROVE  \E k \in S : \A m \in S : k <= m
<1> DEFINE Less == {p \in Nat \X Nat : p[1] < p[2]}
<1>1. IsWellFoundedOn(Less, Nat)
  BY NatLessThanWellFounded, Zenon DEF OpToRel
<1>2. PICK k \in S : \A m \in S : ~ (<<m, k>> \in Less)
  <2> HIDE DEF Less
  <2> QED BY <1>1, WFMin
<1>3. \A m \in S : ~ (m < k)
  BY <1>2
<1>4. QED
  BY <1>3

(* A set that contains a and, with any n below b, also n + 1, contains all *)
(* of a .. b.                                                              *)
LEMMA SetInduction ==
  ASSUME NEW a \in Nat, NEW b \in Nat, NEW S,
         a \in S, \A n \in a .. b : n # b /\ n \in S => n + 1 \in S
  PROVE  \A n \in a .. b : n \in S
<1> DEFINE T == {n \in a .. b : n \notin S}
<1> SUFFICES ASSUME T # {} PROVE FALSE
  OBVIOUS
<1>1. PICK k \in T : \A m \in T : k <= m
  <2>1. T \subseteq Nat
    OBVIOUS
  <2>2. QED
    BY <2>1, LeastNat
<1>2. k # a /\ k - 1 \in a .. b /\ k - 1 # b
  BY <1>1
<1>3. k - 1 \in S
  BY <1>1, <1>2
<1>4. QED
  BY <1>1, <1>2, <1>3

(* The elements of S up to k.                                              *)
UpTo(S, k) == {m \in S : m <= k}

(* A finite set of naturals has an n-th smallest element, for every n up   *)
(* to its cardinality.                                                     *)
LEMMA NthSmallest ==
  ASSUME NEW S, S \subseteq Nat, IsFiniteSet(S), NEW n \in 1 .. Cardinality(S)
  PROVE  \E k \in S : Cardinality(UpTo(S, k)) = n
<1> DEFINE T == {e \in Nat : \E k \in S : Cardinality(UpTo(S, k)) = e}
<1>0. PICK C \in Nat : C = Cardinality(S)
  BY FS_CardinalityType
<1>1. C = Cardinality(S) /\ C >= 1
  BY <1>0
<1>2. 1 \in T
  <2>1. S # {}
    BY <1>1, FS_EmptySet
  <2>2. PICK k \in S : \A m \in S : k <= m
    BY <2>1, LeastNat
  <2>3. UpTo(S, k) = {k}
    <3>1. \A m \in S : m \in Nat
      OBVIOUS
    <3>2. \A m \in S : m <= k <=> m = k
      BY <2>2, <3>1
    <3>3. QED
      BY <3>2 DEF UpTo
  <2>4. QED
    BY <2>3, FS_Singleton
<1>3. ASSUME NEW e \in 1 .. C, e # C, e \in T PROVE e + 1 \in T
  <2>1. PICK k \in S : Cardinality(UpTo(S, k)) = e
    BY <1>3
  <2> DEFINE U == UpTo(S, k)
             R == S \ U
  <2>2. U \in SUBSET S /\ IsFiniteSet(U)
    BY FS_Subset DEF UpTo
  <2>3. R # {} /\ R \subseteq Nat
    <3>1. S # U
      BY <1>1, <1>3, <2>1
    <3>2. QED
      BY <2>2, <3>1
  <2>4. PICK j \in R : \A m \in R : j <= m
    BY <2>3, LeastNat
  <2>5. UpTo(S, j) = U \cup {j}
    <3>1. \A m \in S : m \in U <=> m <= k
      BY DEF UpTo
    <3>2. j \in S /\ ~(j <= k) /\ j \in Nat /\ k \in Nat
      BY <2>4, <3>1
    <3> HIDE DEF U
    <3>3. ASSUME NEW m \in S, m <= j PROVE m \in U \cup {j}
      <4>1. CASE m \in U
        BY <4>1
      <4>2. CASE m \notin U
        BY <2>4, <3>2, <3>3, <4>2
      <4>3. QED
        BY <4>1, <4>2
    <3>4. ASSUME NEW m \in U \cup {j} PROVE m \in S /\ m <= j
      <4>1. CASE m = j
        BY <3>2, <4>1
      <4>2. CASE m # j
        BY <2>2, <3>1, <3>2, <3>4, <4>2
      <4>3. QED
        BY <4>1, <4>2
    <3>5. QED
      BY <3>3, <3>4 DEF UpTo
  <2>6. Cardinality(U \cup {j}) = e + 1
    BY <2>1, <2>2, <2>4, FS_AddElement
  <2>7. QED
    BY <1>3, <2>4, <2>5, <2>6
<1> HIDE DEF T
<1>4. \A e \in 1 .. C : e \in T
  <2>1. \A e \in 1 .. C : e # C /\ e \in T => e + 1 \in T
    BY <1>3
  <2>2. QED
    BY <1>1, <1>2, <2>1, SetInduction
<1>5. QED
  BY <1>1, <1>4 DEF T

(* Of two elements of a finite set of naturals, the larger one has more    *)
(* elements up to it.                                                      *)
LEMMA UpToGrows ==
  ASSUME NEW S, S \subseteq Nat, IsFiniteSet(S), NEW j \in Nat, NEW k \in S, j < k
  PROVE  /\ Cardinality(UpTo(S, j)) \in Nat /\ Cardinality(UpTo(S, k)) \in Nat
         /\ Cardinality(UpTo(S, j)) < Cardinality(UpTo(S, k))
         /\ Cardinality(UpTo(S, k)) <= Cardinality(S)
<1>1. UpTo(S, k) \in SUBSET S /\ UpTo(S, j) \in SUBSET UpTo(S, k)
  <2>1. \A m \in S : m \in Nat /\ k \in Nat
    OBVIOUS
  <2>2. \A m \in S : m <= j => m <= k
    BY <2>1
  <2>3. QED
    BY <2>2 DEF UpTo
<1>2. k \in UpTo(S, k) /\ k \notin UpTo(S, j)
  BY DEF UpTo
<1>3. IsFiniteSet(UpTo(S, k)) /\ Cardinality(UpTo(S, k)) <= Cardinality(S)
  BY <1>1, FS_Subset
<1>4. /\ IsFiniteSet(UpTo(S, j))
      /\ Cardinality(UpTo(S, j)) <= Cardinality(UpTo(S, k))
  BY <1>1, <1>3, FS_Subset
<1>5. Cardinality(UpTo(S, k)) = Cardinality(UpTo(S, j)) => UpTo(S, k) = UpTo(S, j)
  BY <1>1, <1>3, FS_Subset
<1>6. Cardinality(UpTo(S, k)) # Cardinality(UpTo(S, j))
  BY <1>2, <1>5, Zenon
<1>7. Cardinality(UpTo(S, j)) \in Nat /\ Cardinality(UpTo(S, k)) \in Nat
  BY <1>3, <1>4, FS_CardinalityType
<1>8. QED
  BY <1>3, <1>4, <1>6, <1>7

(* A finite set of naturals that is not empty has a greatest element.      *)
LEMMA GreatestNat ==
  ASSUME NEW S, S \subseteq Nat, IsFiniteSet(S), S # {}
  PROVE  \E k \in S : \A m \in S : m <= k
<1>1. Cardinality(S) \in Nat /\ Cardinality(S) # 0
  BY FS_CardinalityType, FS_EmptySet
<1>2. PICK k \in S : Cardinality(UpTo(S, k)) = Cardinality(S)
  <2>1. Cardinality(S) \in 1 .. Cardinality(S)
    BY <1>1
  <2>2. QED
    BY <2>1, NthSmallest, Zenon
<1>3. UpTo(S, k) \in SUBSET S
  BY DEF UpTo
<1>4. S = UpTo(S, k)
  BY <1>2, <1>3, FS_Subset
<1>5. QED
  BY <1>4 DEF UpTo

(* A finite set of naturals can be listed in increasing order, ...         *)
LEMMA Increasing ==
  ASSUME NEW S, S \subseteq Nat, IsFiniteSet(S)
  PROVE  \E s \in [1 .. Cardinality(S) -> S] :
           \A k, m \in DOMAIN s : k < m => s[k] < s[m]
<1> DEFINE C == Cardinality(S)
           s == [n \in 1 .. C |-> CHOOSE k \in S : Cardinality(UpTo(S, k)) = n]
<1>1. C \in Nat
  BY FS_CardinalityType
<1>2. \A n \in 1 .. C : s[n] \in S /\ Cardinality(UpTo(S, s[n])) = n
  BY <1>1, NthSmallest
<1>3. s \in [1 .. C -> S]
  BY <1>2
<1> HIDE DEF s
<1>4. ASSUME NEW k \in 1 .. C, NEW m \in 1 .. C, k < m PROVE s[k] < s[m]
  <2>1. s[k] \in Nat /\ s[m] \in Nat /\ s[k] \in S
    BY <1>2
  <2>2. CASE s[k] = s[m]
    BY <1>2, <1>4, <2>2
  <2>3. CASE s[m] < s[k]
    <3>1. Cardinality(UpTo(S, s[m])) < Cardinality(UpTo(S, s[k]))
      BY <2>1, <2>3, UpToGrows
    <3>2. QED
      BY <1>2, <1>4, <3>1
  <2>4. QED
    BY <2>1, <2>2, <2>3
<1>5. DOMAIN s = 1 .. C
  BY <1>3
<1>6. QED
  BY <1>3, <1>4, <1>5

(* ... and in decreasing order.                                            *)
LEMMA Decreasing ==
  ASSUME NEW S, S \subseteq Nat, IsFiniteSet(S)
  PROVE  \E s \in [1 .. Cardinality(S) -> S] :
           \A k, m \in DOMAIN s : k < m => s[k] > s[m]
<1>1. PICK C \in Nat : C = Cardinality(S)
  BY FS_CardinalityType
<1>2. PICK t \in [1 .. C -> S] : \A k, m \in DOMAIN t : k < m => t[k] < t[m]
  BY <1>1, Increasing
<1> DEFINE s == [n \in 1 .. C |-> t[C + 1 - n]]
<1>3. \A n \in 1 .. C : C + 1 - n \in 1 .. C /\ s[n] = t[C + 1 - n]
  OBVIOUS
<1>4. s \in [1 .. C -> S]
  BY <1>3
<1> HIDE DEF s
<1>5. ASSUME NEW k \in 1 .. C, NEW m \in 1 .. C, k < m PROVE s[k] > s[m]
  <2>1. C + 1 - m < C + 1 - k /\ C + 1 - m \in DOMAIN t /\ C + 1 - k \in DOMAIN t
    BY <1>2, <1>3, <1>5
  <2>2. t[C + 1 - m] < t[C + 1 - k]
    BY <1>2, <2>1
  <2>3. t[C + 1 - m] \in Nat /\ t[C + 1 - k] \in Nat
    BY <1>3
  <2>4. QED
    BY <1>3, <2>2, <2>3
<1>6. QED
  BY <1>1, <1>4, <1>5

-----------------------------------------------------------------------------
(* Operations on one log.                                                  *)

(* The entries of a client after a position are finitely many positions.   *)
LEMMA AfterType ==
  ASSUME NEW L \in Seq(Entry), NEW c, NEW i \in Nat
  PROVE  /\ After(L, c, i) \subseteq 1 .. Len(L)
         /\ After(L, c, i) \subseteq Nat
         /\ IsFiniteSet(After(L, c, i))
         /\ Cardinality(After(L, c, i)) \in Nat
         /\ \A k : k \in After(L, c, i) <=>
                     k \in 1 .. Len(L) /\ k > i /\ L[k].client = c
<1>1. DOMAIN L = 1 .. Len(L) /\ Len(L) \in Nat
  OBVIOUS
<1>2. \A k : k \in After(L, c, i) <=> k \in 1 .. Len(L) /\ k > i /\ L[k].client = c
  BY <1>1 DEF After
<1>3. After(L, c, i) \in SUBSET (1 .. Len(L))
  BY <1>2
<1>4. IsFiniteSet(1 .. Len(L))
  BY <1>1, FS_Interval
<1>5. IsFiniteSet(After(L, c, i))
  BY <1>3, <1>4, FS_Subset
<1>6. QED
  BY <1>1, <1>2, <1>3, <1>5, FS_CardinalityType

(* Where an insert goes: to the n-th slot of the client after its current  *)
(* entry, if there is one.                                                 *)
LEMMA NthAfterFound ==
  ASSUME NEW L \in Seq(Entry), NEW c, NEW i \in Nat, NEW n \in Nat
  PROVE  /\ NthAfter(L, c, i, n) \in Nat
         /\ NthAfter(L, c, i, n) # 0 =>
              /\ NthAfter(L, c, i, n) \in After(L, c, i)
              /\ Cardinality(UpTo(After(L, c, i), NthAfter(L, c, i, n))) = n
         /\ NthAfter(L, c, i, n) = 0 => n = 0 \/ Cardinality(After(L, c, i)) < n
<1>1. /\ After(L, c, i) \subseteq Nat /\ IsFiniteSet(After(L, c, i))
      /\ Cardinality(After(L, c, i)) \in Nat
      /\ After(L, c, i) \subseteq 1 .. Len(L)
  BY AfterType
<1>2. CASE n = 0 \/ Cardinality(After(L, c, i)) < n
  BY <1>2 DEF NthAfter
<1>3. CASE ~(n = 0 \/ Cardinality(After(L, c, i)) < n)
  <2>1. n \in 1 .. Cardinality(After(L, c, i))
    BY <1>1, <1>3
  <2>2. \E k \in After(L, c, i) : Cardinality(UpTo(After(L, c, i), k)) = n
    BY <1>1, <2>1, NthSmallest
  <2>3. NthAfter(L, c, i, n) =
          CHOOSE k \in After(L, c, i) : Cardinality(UpTo(After(L, c, i), k)) = n
    BY <1>3, Zenon DEF NthAfter, UpTo
  <2>4. /\ NthAfter(L, c, i, n) \in After(L, c, i)
        /\ Cardinality(UpTo(After(L, c, i), NthAfter(L, c, i, n))) = n
    BY <2>2, <2>3
  <2>5. QED
    BY <1>1, <2>4
<1>4. QED
  BY <1>2, <1>3

(* close leaves the position at the last entry of the client.              *)
LEMMA LastOfFound ==
  ASSUME NEW L \in Seq(Entry), NEW c, NEW i \in Nat
  PROVE  /\ LastOf(L, c, i) \in Nat /\ LastOf(L, c, i) >= i
         /\ LastOf(L, c, i) = i \/ LastOf(L, c, i) \in 1 .. Len(L)
         /\ \A k \in After(L, c, i) : k <= LastOf(L, c, i)
<1>1. /\ After(L, c, i) \subseteq Nat /\ IsFiniteSet(After(L, c, i))
      /\ \A k : k \in After(L, c, i) => k \in 1 .. Len(L) /\ k > i
  BY AfterType
<1>2. CASE After(L, c, i) = {}
  BY <1>2 DEF LastOf
<1>3. CASE After(L, c, i) # {}
  <2>1. \E k \in After(L, c, i) : \A m \in After(L, c, i) : m <= k
    BY <1>1, <1>3, GreatestNat
  <2>2. LastOf(L, c, i) =
          CHOOSE k \in After(L, c, i) : \A m \in After(L, c, i) : m <= k
    BY <1>3, Zenon DEF LastOf
  <2>3. /\ LastOf(L, c, i) \in After(L, c, i)
        /\ \A m \in After(L, c, i) : m <= LastOf(L, c, i)
    BY <2>1, <2>2
  <2>4. QED
    BY <1>1, <2>3
<1>4. QED
  BY <1>2, <1>3

(* An entry that is set, written as a record.                              *)
LEMMA SetEntry ==
  ASSUME NEW e \in Entry, e.set
  PROVE  e = [gsn |-> e.gsn, client |-> e.client, set |-> TRUE, data |-> e.data]
<1>1. e = [gsn |-> e.gsn, client |-> e.client, set |-> e.set, data |-> e.data]
  BY DEF Entry
<1>2. e.set \in BOOLEAN
  BY DEF Entry
<1>3. e.set = TRUE
  BY <1>2, Zenon
<1>4. QED
  BY <1>1, <1>3, Zenon

(* Closing an entry and writing a payload into it.                         *)
LEMMA EntryUpdates ==
  ASSUME NEW e \in Entry, NEW d \in Payloads \cup {NoOp}
  PROVE  /\ [e EXCEPT !.set = TRUE, !.data = d] =
              [gsn |-> e.gsn, client |-> e.client, set |-> TRUE, data |-> d]
         /\ [e EXCEPT !.set = TRUE] =
              [gsn |-> e.gsn, client |-> e.client, set |-> TRUE, data |-> e.data]
         /\ [e EXCEPT !.set = TRUE, !.data = d] \in Entry
         /\ [e EXCEPT !.set = TRUE] \in Entry
<1>1. ASSUME NEW f, f = [e EXCEPT !.set = TRUE]
      PROVE  /\ f \in Entry
             /\ f = [gsn |-> e.gsn, client |-> e.client, set |-> TRUE, data |-> e.data]
  <2>1. /\ f \in Entry
        /\ f.gsn = e.gsn /\ f.client = e.client /\ f.data = e.data
    BY <1>1 DEF Entry
  <2>2. f.set
    BY <1>1 DEF Entry
  <2>3. f = [gsn |-> f.gsn, client |-> f.client, set |-> TRUE, data |-> f.data]
    BY <2>1, <2>2, SetEntry
  <2>4. QED
    BY <2>1, <2>3, Zenon
<1>2. ASSUME NEW f, f = [e EXCEPT !.set = TRUE, !.data = d]
      PROVE  /\ f \in Entry
             /\ f = [gsn |-> e.gsn, client |-> e.client, set |-> TRUE, data |-> d]
  <2>1. /\ f \in Entry
        /\ f.gsn = e.gsn /\ f.client = e.client /\ f.data = d
    BY <1>2 DEF Entry
  <2>2. f.set
    BY <1>2 DEF Entry
  <2>3. f = [gsn |-> f.gsn, client |-> f.client, set |-> TRUE, data |-> f.data]
    BY <2>1, <2>2, SetEntry
  <2>4. QED
    BY <2>1, <2>3, Zenon
<1>3. QED
  BY <1>1, <1>2, Zenon

(* What changes when slots of client c after position i are closed and     *)
(* payload d goes to the slot at k: nothing but set and data, nothing up   *)
(* to i, nothing of other clients, ...                                     *)
Inserted(L, J, c, i, k, d) ==
  /\ Len(J) = Len(L)
  /\ \A m \in 1 .. Len(L) : J[m].client = L[m].client /\ J[m].gsn = L[m].gsn
  /\ \A m \in 1 .. Len(L) : m <= i \/ m > k \/ L[m].client # c => J[m] = L[m]
  /\ \A m \in 1 .. Len(L) : m > i /\ m < k /\ L[m].client = c =>
       J[m] = [gsn |-> L[m].gsn, client |-> c, set |-> TRUE, data |-> L[m].data]
  /\ J[k] = [gsn |-> L[k].gsn, client |-> c, set |-> TRUE, data |-> d]

(* position::insert skips the slots before the k-th entry and fills that   *)
(* entry; the result is a log again.                                       *)
LEMMA InsertAtEffect ==
  ASSUME NEW L \in Seq(Entry), NEW c, NEW i \in Nat,
         NEW k \in After(L, c, i), NEW d \in Payloads \cup {NoOp}
  PROVE  /\ InsertAt(L, c, i, k, d) \in Seq(Entry)
         /\ Inserted(L, InsertAt(L, c, i, k, d), c, i, k, d)
<1> DEFINE J == InsertAt(L, c, i, k, d)
<1>1. DOMAIN L = 1 .. Len(L) /\ Len(L) \in Nat /\ \A m \in 1 .. Len(L) : L[m] \in Entry
  OBVIOUS
<1>2. \A m : m \in After(L, c, i) <=> m \in 1 .. Len(L) /\ m > i /\ L[m].client = c
  BY AfterType
<1>3. k \in 1 .. Len(L) /\ k > i /\ L[k].client = c
  BY <1>2
<1>4. J = [m \in 1 .. Len(L) |->
             IF m = k THEN [L[m] EXCEPT !.set = TRUE, !.data = d]
             ELSE IF m \in After(L, c, i) /\ m < k THEN [L[m] EXCEPT !.set = TRUE]
             ELSE L[m]]
  BY <1>1 DEF InsertAt
<1> HIDE DEF J
<1>5. \A m \in 1 .. Len(L) :
             /\ [L[m] EXCEPT !.set = TRUE, !.data = d] =
                  [gsn |-> L[m].gsn, client |-> L[m].client, set |-> TRUE, data |-> d]
             /\ [L[m] EXCEPT !.set = TRUE] =
                  [gsn |-> L[m].gsn, client |-> L[m].client, set |-> TRUE,
                   data |-> L[m].data]
             /\ [L[m] EXCEPT !.set = TRUE, !.data = d] \in Entry
             /\ [L[m] EXCEPT !.set = TRUE] \in Entry
  BY <1>1, EntryUpdates, Zenon
<1>6. \A m \in 1 .. Len(L) : J[m] \in Entry
  <2>1. ASSUME NEW m \in 1 .. Len(L) PROVE J[m] \in Entry
    <3>1. \/ J[m] = [L[m] EXCEPT !.set = TRUE, !.data = d]
          \/ J[m] = [L[m] EXCEPT !.set = TRUE]
          \/ J[m] = L[m]
      BY <1>4, Zenon
    <3>2. QED
      BY <1>1, <1>5, <3>1, Zenon
  <2>2. QED
    BY <2>1
<1>7. J \in Seq(Entry) /\ Len(J) = Len(L)
  <2>1. J \in [1 .. Len(L) -> Entry]
    BY <1>4, <1>6
  <2>2. QED
    BY <1>1, <2>1
<1>8. J[k] = [gsn |-> L[k].gsn, client |-> c, set |-> TRUE, data |-> d]
  BY <1>3, <1>4, <1>5
<1>9. ASSUME NEW m \in 1 .. Len(L)
      PROVE  J[m].client = L[m].client /\ J[m].gsn = L[m].gsn
  <2>1. CASE m = k
    BY <1>3, <1>8, <2>1
  <2>2. CASE m # k /\ m \in After(L, c, i) /\ m < k
    <3>1. J[m] = [L[m] EXCEPT !.set = TRUE]
      BY <1>4, <2>2
    <3>2. QED
      BY <1>5, <3>1
  <2>3. CASE m # k /\ ~(m \in After(L, c, i) /\ m < k)
    BY <1>4, <2>3
  <2>4. QED
    BY <2>1, <2>2, <2>3
<1>10. ASSUME NEW m \in 1 .. Len(L), m <= i \/ m > k \/ L[m].client # c
       PROVE  J[m] = L[m]
  <2>1. m # k /\ ~(m \in After(L, c, i) /\ m < k)
    BY <1>2, <1>3, <1>10
  <2>2. QED
    BY <1>4, <2>1
<1>11. ASSUME NEW m \in 1 .. Len(L), m > i, m < k, L[m].client = c
       PROVE  J[m] = [gsn |-> L[m].gsn, client |-> c, set |-> TRUE, data |-> L[m].data]
  <2>1. m \in After(L, c, i) /\ m # k
    BY <1>2, <1>3, <1>11
  <2>2. J[m] = [L[m] EXCEPT !.set = TRUE]
    BY <1>4, <1>11, <2>1
  <2>3. QED
    BY <1>5, <1>11, <2>2
<1>12. QED
  BY <1>7, <1>8, <1>9, <1>10, <1>11, Zenon DEF J, Inserted

(* ... and likewise when all slots after position i are closed.            *)
LEMMA CloseAfterEffect ==
  ASSUME NEW L \in Seq(Entry), NEW c, NEW i \in Nat
  PROVE  /\ CloseAfter(L, c, i) \in Seq(Entry)
         /\ Len(CloseAfter(L, c, i)) = Len(L)
         /\ \A m \in 1 .. Len(L) :
              /\ CloseAfter(L, c, i)[m].client = L[m].client
              /\ CloseAfter(L, c, i)[m].gsn = L[m].gsn
              /\ CloseAfter(L, c, i)[m].data = L[m].data
              /\ m \in After(L, c, i) => CloseAfter(L, c, i)[m].set
              /\ m \notin After(L, c, i) => CloseAfter(L, c, i)[m] = L[m]
<1> DEFINE J == CloseAfter(L, c, i)
<1>1. DOMAIN L = 1 .. Len(L) /\ Len(L) \in Nat /\ \A m \in 1 .. Len(L) : L[m] \in Entry
  OBVIOUS
<1>2. J = [m \in 1 .. Len(L) |->
             IF m \in After(L, c, i) THEN [L[m] EXCEPT !.set = TRUE] ELSE L[m]]
  BY <1>1 DEF CloseAfter
<1> HIDE DEF J
<1>3. ASSUME NEW m \in 1 .. Len(L)
      PROVE  /\ J[m] \in Entry
             /\ J[m].client = L[m].client /\ J[m].gsn = L[m].gsn /\ J[m].data = L[m].data
             /\ m \in After(L, c, i) => J[m].set
             /\ m \notin After(L, c, i) => J[m] = L[m]
  <2>1. L[m] \in Entry
    BY <1>1
  <2>2. CASE m \in After(L, c, i)
    <3>1. J[m] = [L[m] EXCEPT !.set = TRUE]
      BY <1>2, <2>2
    <3>2. J[m] = [gsn |-> L[m].gsn, client |-> L[m].client, set |-> TRUE,
                  data |-> L[m].data]
      BY <2>1, <3>1 DEF Entry
    <3>3. QED
      BY <2>1, <2>2, <3>2 DEF Entry
  <2>3. CASE m \notin After(L, c, i)
    BY <1>2, <2>1, <2>3
  <2>4. QED
    BY <2>2, <2>3
<1>4. J \in Seq(Entry) /\ Len(J) = Len(L)
  BY <1>1, <1>2, <1>3
<1>5. QED
  BY <1>3, <1>4 DEF J

(* New slots at the end of a log.                                          *)
NewSlots(m) == [k \in DOMAIN m.owners |-> NewEntry(m.start + k - 1, m.owners[k])]

(* New slots leave the entries before them alone and are numbered from     *)
(* the start that the message gives.                                       *)
LEMMA NewSlotsEffect ==
  ASSUME NEW L \in Seq(Entry), NEW m, m.start \in Nat, m.owners \in Seq(Clients)
  PROVE  /\ L \o NewSlots(m) \in Seq(Entry)
         /\ Len(L \o NewSlots(m)) = Len(L) + Len(m.owners)
         /\ \A k \in 1 .. Len(L) : (L \o NewSlots(m))[k] = L[k]
         /\ \A k \in 1 .. Len(m.owners) :
              (L \o NewSlots(m))[Len(L) + k] = NewEntry(m.start + k - 1, m.owners[k])
<1> DEFINE N == NewSlots(m)
<1>1. DOMAIN m.owners = 1 .. Len(m.owners) /\ Len(m.owners) \in Nat
  OBVIOUS
<1>2. N = [k \in 1 .. Len(m.owners) |-> NewEntry(m.start + k - 1, m.owners[k])]
  BY <1>1 DEF NewSlots
<1>3. \A k \in 1 .. Len(m.owners) : NewEntry(m.start + k - 1, m.owners[k]) \in Entry
  BY <1>1 DEF NewEntry, Entry
<1> HIDE DEF N
<1>4. N \in Seq(Entry) /\ Len(N) = Len(m.owners)
  BY <1>1, <1>2, <1>3
<1>5. /\ L \o N \in Seq(Entry) /\ Len(L \o N) = Len(L) + Len(N)
      /\ \A i \in 1 .. Len(L) + Len(N) :
           (L \o N)[i] = IF i <= Len(L) THEN L[i] ELSE N[i - Len(L)]
  BY <1>4, ConcatProperties
<1>6. Len(L) \in Nat
  OBVIOUS
<1>7. \A k \in 1 .. Len(L) : (L \o N)[k] = L[k]
  BY <1>1, <1>4, <1>5, <1>6
<1>8. ASSUME NEW k \in 1 .. Len(m.owners)
      PROVE  (L \o N)[Len(L) + k] = NewEntry(m.start + k - 1, m.owners[k])
  <2>1. Len(L) + k \in 1 .. Len(L) + Len(N) /\ ~(Len(L) + k <= Len(L))
        /\ (Len(L) + k) - Len(L) = k
    BY <1>1, <1>4, <1>6
  <2>2. (L \o N)[Len(L) + k] = N[k]
    BY <1>5, <2>1
  <2>3. QED
    BY <1>2, <2>2
<1>9. QED
  BY <1>4, <1>5, <1>7, <1>8 DEF N

-----------------------------------------------------------------------------
(* Types.                                                                  *)

(* The messages of the ordering service about client c after its recovery. *)
PatchOrders(c) == [type : {"patch"}, client : {c}, gsn : Nat, data : Payloads]
FinalOrders(c) == PatchOrders(c) \cup [type : {"finalize"}, client : {c}]

(* All messages of the ordering service to a server, ...                   *)
Orders ==
  [type : {"slots"}, start : Nat, owners : Seq(Clients)]
  \cup [type : {"freeze", "finalize"}, client : Clients]
  \cup [type : {"cut"}, client : Clients, begin : Nat]
  \cup [type : {"patch"}, client : Clients, gsn : Nat, data : Payloads]

(* ... and of a server to the ordering service.  A data message without a  *)
(* GSN ends the data.                                                      *)
Reports ==
  [type : {"freeze"}, client : Clients]
  \cup [type : {"cut"}, client : Clients, gsn : Nat]
  \cup [type : {"data"}, client : Clients, gsn : Nat, data : Payloads]
  \cup [type : {"data"}, client : Clients, gsn : {NoGsn}, data : {NoOp}]

(* The parts of the type invariant, with the messages of the channels      *)
(* between ordering service and servers.                                   *)
OrderTypes ==
  /\ gsnBase \in Nat /\ epochs \in Nat
  /\ phase \in [Clients -> {"active", "failed", "requested", "gone"}]
  /\ flushed \in [Clients -> SUBSET Replicas]
  /\ DOMAIN cuts = Clients /\ DOMAIN data = Clients
  /\ \A c \in Clients :
       /\ DOMAIN cuts[c] \subseteq Replicas
       /\ \A r \in DOMAIN cuts[c] : cuts[c][r] \in Nat
       /\ DOMAIN data[c] \subseteq Nat /\ IsFiniteSet(DOMAIN data[c])
       /\ \A g \in DOMAIN data[c] : data[c][g] \in Payloads

ToStorageType == toStorage \in [Replicas -> Seq(Orders)]
ToOrderType == toOrder \in [Replicas -> Seq(Reports)]
AcksType == acks \in [Clients -> [Replicas -> Seq(Nat)]]
ByesType == byes \in [Clients -> SUBSET Replicas]

Outstanding == [req : Nat, gsn : Nat, acks : Nat]

ClientTypes ==
  /\ alive \in [Clients -> BOOLEAN]
  /\ assigned \in [Clients -> Nat] /\ consumed \in [Clients -> Nat]
  /\ reqs \in [Clients -> Seq(CMessage)]
  /\ reach \in [Clients -> [Replicas -> Nat]]
  /\ out \in [Clients -> Seq(Outstanding)]
  /\ latest \in [Clients -> Nat]
  /\ left \in [Clients -> {"no", "sent"}]
  /\ DOMAIN response = Clients
  /\ \A c \in Clients : \A q \in DOMAIN response[c] : response[c][q] \in Nat

LogTypes ==
  /\ log \in [Replicas -> Seq(Entry)]
  /\ cur \in [Replicas -> [Clients -> Nat]]
  /\ latestGsn \in [Replicas -> [Clients -> Nat]]
  /\ aborted \subseteq Replicas

ServerTypes ==
  /\ disc \in [Replicas -> SUBSET Clients] /\ suspect \in [Replicas -> SUBSET Clients]
  /\ got \in [Replicas -> [Clients -> Nat]]

Types ==
  /\ OrderTypes /\ ToStorageType /\ ToOrderType /\ AcksType /\ ByesType
  /\ ClientTypes /\ LogTypes /\ ServerTypes

(* The types hold initially.                                               *)
LEMMA InitTypes == Init => Types
<1> SUFFICES ASSUME Init PROVE Types
  OBVIOUS
<1> USE NoGsnAssumption, BoundsAssumption
<1>1. OrderTypes
  <2>1. IsFiniteSet({})
    BY FS_EmptySet
  <2>2. DOMAIN EmptyMap = {}
    BY DEF EmptyMap
  <2>3. \A c \in Clients : cuts[c] = EmptyMap /\ data[c] = EmptyMap
    BY DEF Init
  <2>4. QED
    BY <2>1, <2>2, <2>3 DEF Init, OrderTypes
<1>2. ToStorageType /\ ToOrderType /\ AcksType /\ ByesType
  BY DEF Init, ToStorageType, ToOrderType, AcksType, ByesType
<1>3. ClientTypes
  <2>1. DOMAIN EmptyMap = {}
    BY DEF EmptyMap
  <2>2. \A c \in Clients : response[c] = EmptyMap
    BY DEF Init
  <2>3. DOMAIN response = Clients /\ latest \in [Clients -> Nat]
        /\ assigned \in [Clients -> Nat] /\ consumed \in [Clients -> Nat]
        /\ reqs \in [Clients -> Seq(CMessage)]
        /\ reach \in [Clients -> [Replicas -> Nat]]
        /\ out \in [Clients -> Seq(Outstanding)]
        /\ left \in [Clients -> {"no", "sent"}]
    BY DEF Init
  <2>4. alive \in [Clients -> BOOLEAN]
    BY DEF Init
  <2>5. QED
    BY <2>1, <2>2, <2>3, <2>4 DEF ClientTypes
<1>4. LogTypes /\ ServerTypes
  BY DEF Init, LogTypes, ServerTypes
<1>5. QED
  BY <1>1, <1>2, <1>3, <1>4 DEF Types

(* A broadcast appends its messages to every channel.                      *)
LEMMA BroadcastType ==
  ASSUME ToStorageType, NEW ms \in Seq(Orders), Broadcast(ms)
  PROVE  ToStorageType'
<1>1. \A r \in Replicas : toStorage[r] \o ms \in Seq(Orders)
  BY ConcatProperties DEF ToStorageType
<1>2. QED
  BY <1>1 DEF Broadcast, ToStorageType

(* The patches of a client, in the order of GSNs, are sent as messages.    *)
LEMMA PatchesType ==
  ASSUME NEW c, NEW d, DOMAIN d \subseteq Nat, IsFiniteSet(DOMAIN d),
         \A g \in DOMAIN d : d[g] \in Payloads
  PROVE  Patches(c, d) \in Seq(PatchOrders(c))
<1> DEFINE Listed(s) == \A k, m \in DOMAIN s : k < m => s[k] < s[m]
           gsns == CHOOSE s \in [1 .. Cardinality(DOMAIN d) -> DOMAIN d] : Listed(s)
<1>1. \E s \in [1 .. Cardinality(DOMAIN d) -> DOMAIN d] : Listed(s)
  BY Increasing, Zenon
<1>2. gsns \in [1 .. Cardinality(DOMAIN d) -> DOMAIN d]
  <2> HIDE DEF Listed
  <2> QED BY <1>1
<1>3. Cardinality(DOMAIN d) \in Nat
  BY FS_CardinalityType
<1>4. Patches(c, d) = [k \in DOMAIN gsns |->
        [type |-> "patch", client |-> c, gsn |-> gsns[k], data |-> d[gsns[k]]]]
  BY Zenon DEF Patches
<1> HIDE DEF gsns
<1>5. \A k \in 1 .. Cardinality(DOMAIN d) :
        [type |-> "patch", client |-> c, gsn |-> gsns[k], data |-> d[gsns[k]]]
          \in PatchOrders(c)
  BY <1>2 DEF PatchOrders
<1>6. Patches(c, d) \in [1 .. Cardinality(DOMAIN d) -> PatchOrders(c)]
  BY <1>2, <1>4, <1>5
<1>7. QED
  BY <1>3, <1>6

(* The messages that a server gets when a client is forgotten: patches of  *)
(* its data, if any was requested, and its finalization.                   *)
FinalMessages(c) ==
  (IF phase[c] = "requested" THEN Patches(c, data[c]) ELSE << >>)
     \o <<[type |-> "finalize", client |-> c]>>

(* What the ordering service sends at the end of a recovery: orders about  *)
(* this client, all patches before the finalize.                           *)
LEMMA FinalMessagesType ==
  ASSUME OrderTypes, NEW c \in Clients
  PROVE  FinalMessages(c) \in Seq(FinalOrders(c)) /\ FinalMessages(c) \in Seq(Orders)
<1> DEFINE p == IF phase[c] = "requested" THEN Patches(c, data[c]) ELSE << >>
           f == <<[type |-> "finalize", client |-> c]>>
<1>1. Patches(c, data[c]) \in Seq(PatchOrders(c))
  BY PatchesType DEF OrderTypes
<1>2. Patches(c, data[c]) \in Seq(FinalOrders(c))
  BY <1>1, SeqMonotonic, Zenon DEF FinalOrders
<1>3. p \in Seq(FinalOrders(c))
  BY <1>2
<1>4. f \in Seq(FinalOrders(c))
  BY DEF FinalOrders
<1> HIDE DEF p, f
<1>5. p \o f \in Seq(FinalOrders(c))
  BY <1>3, <1>4, ConcatProperties
<1>6. FinalOrders(c) \subseteq Orders
  BY DEF FinalOrders, PatchOrders, Orders
<1>7. p \o f \in Seq(Orders)
  BY <1>5, <1>6, SeqMonotonic
<1>8. QED
  BY <1>5, <1>7 DEF FinalMessages, p, f

(* The ordering service begins an epoch.                                   *)
LEMMA EpochTypes ==
  ASSUME Types, Epoch
  PROVE  Types'
<1> DEFINE active == {c \in Clients : phase[c] = "active"}
<1>1. PICK owners \in Seq(Clients) : owners = Layout[active]
  BY LayoutAssumption
<1>2. /\ epochs' = epochs + 1 /\ gsnBase' = gsnBase + Len(owners)
      /\ Broadcast(<<[type |-> "slots", start |-> gsnBase, owners |-> owners]>>)
      /\ assigned' = [c \in Clients |->
           IF alive[c]
           THEN assigned[c] + Cardinality({k \in DOMAIN owners : owners[k] = c})
           ELSE 0]
  BY <1>1, Zenon DEF Epoch
<1>3. UNCHANGED <<phase, cuts, flushed, data, toOrder, acks, byes, alive, consumed,
                  reqs, reach, out, latest, response, left, log, cur, latestGsn, disc,
                  suspect, got, aborted>>
  BY DEF Epoch, storageVars
<1>4. OrderTypes'
  BY <1>2, <1>3 DEF Types, OrderTypes
<1>5. ToStorageType'
  <2>1. <<[type |-> "slots", start |-> gsnBase, owners |-> owners]>> \in Seq(Orders)
    BY DEF Types, OrderTypes, Orders
  <2>2. QED
    BY <1>2, <2>1, BroadcastType DEF Types
<1>6. ToOrderType' /\ AcksType' /\ ByesType'
  BY <1>3 DEF Types, ToOrderType, AcksType, ByesType
<1>7. ClientTypes'
  <2>1. ASSUME NEW c \in Clients
        PROVE  Cardinality({k \in DOMAIN owners : owners[k] = c}) \in Nat
    <3>1. IsFiniteSet(1 .. Len(owners)) /\ DOMAIN owners = 1 .. Len(owners)
      BY FS_Interval
    <3>2. {k \in DOMAIN owners : owners[k] = c} \in SUBSET (1 .. Len(owners))
      BY <3>1
    <3>3. IsFiniteSet({k \in DOMAIN owners : owners[k] = c})
      BY <3>1, <3>2, FS_Subset
    <3>4. QED
      BY <3>3, FS_CardinalityType
  <2>2. assigned' \in [Clients -> Nat]
    <3>1. assigned \in [Clients -> Nat]
      BY DEF Types, ClientTypes
    <3>2. \A c \in Clients :
            assigned[c] + Cardinality({k \in DOMAIN owners : owners[k] = c}) \in Nat
      BY <2>1, <3>1
    <3>3. 0 \in Nat
      OBVIOUS
    <3>4. \A c \in Clients :
            (IF alive[c]
             THEN assigned[c] + Cardinality({k \in DOMAIN owners : owners[k] = c})
             ELSE 0) \in Nat
      BY <3>2, <3>3, Zenon
    <3>5. QED
      BY <1>2, <3>4, Zenon
  <2>3. QED
    BY <1>3, <2>2 DEF Types, ClientTypes
<1>8. LogTypes' /\ ServerTypes'
  BY <1>3 DEF Types, LogTypes, ServerTypes
<1>9. QED
  BY <1>4, <1>5, <1>6, <1>7, <1>8 DEF Types

(* The lambdas failed and finalized of the ordering service.               *)
LEMMA FailedTypes ==
  ASSUME Types, NEW c \in Clients, Failed(c)
  PROVE  ToStorageType' /\ phase' \in [Clients -> {"active", "failed", "requested", "gone"}]
<1>1. <<[type |-> "freeze", client |-> c]>> \in Seq(Orders)
  BY DEF Orders
<1>2. ToStorageType'
  BY <1>1, BroadcastType DEF Failed, Types
<1>3. QED
  BY <1>2 DEF Failed, Types, OrderTypes

(* The end of a recovery keeps the types.                                  *)
LEMMA FinalizedTypes ==
  ASSUME Types, NEW c \in Clients, Finalized(c)
  PROVE  ToStorageType' /\ phase' \in [Clients -> {"active", "failed", "requested", "gone"}]
<1>1. Broadcast(FinalMessages(c))
  BY DEF Finalized, FinalMessages
<1>2. FinalMessages(c) \in Seq(Orders)
  BY FinalMessagesType DEF Types
<1>3. ToStorageType'
  BY <1>1, <1>2, BroadcastType DEF Types
<1>4. QED
  BY <1>3 DEF Finalized, Types, OrderTypes

(* Failure events and farewells at the ordering service.                   *)
LEMMA OrderEventTypes ==
  ASSUME Types, NEW c \in Clients, OrderFailureEvent(c) \/ OrderClientFinished(c)
  PROVE  Types'
<1>1. UNCHANGED <<gsnBase, epochs, cuts, flushed, data, toOrder, acks, byes, alive,
                  assigned, consumed, reqs, reach, out, latest, response, left, log, cur,
                  latestGsn, disc, suspect, got, aborted>>
  BY DEF OrderFailureEvent, OrderClientFinished, clientVars, storageVars
<1>2. ToStorageType' /\ phase' \in [Clients -> {"active", "failed", "requested", "gone"}]
  BY FailedTypes, FinalizedTypes DEF OrderFailureEvent, OrderClientFinished
<1>3. OrderTypes'
  BY <1>1, <1>2 DEF Types, OrderTypes
<1>4. ToOrderType' /\ AcksType' /\ ByesType' /\ LogTypes' /\ ServerTypes' /\ ClientTypes'
  BY <1>1 DEF Types, ToOrderType, AcksType, ByesType, LogTypes, ServerTypes, ClientTypes
<1>5. QED
  BY <1>2, <1>3, <1>4 DEF Types

(* The ordering service takes a message from a server.                     *)
LEMMA FromStorageTypes ==
  ASSUME Types, NEW r \in Replicas, NEW type, FromStorage(r, type)
  PROVE  /\ Head(toOrder[r]) \in Reports /\ Head(toOrder[r]).type = type
         /\ Head(toOrder[r]).client \in Clients
         /\ ToOrderType'
<1>1. toOrder[r] \in Seq(Reports) /\ toOrder[r] # << >>
  BY DEF Types, ToOrderType, FromStorage
<1>2. Head(toOrder[r]) \in Reports /\ Tail(toOrder[r]) \in Seq(Reports)
  BY <1>1, HeadTailProperties
<1>3. Head(toOrder[r]).client \in Clients
  BY <1>2 DEF Reports
<1>4. ToOrderType'
  BY <1>2 DEF FromStorage, Types, ToOrderType
<1>5. QED
  BY <1>2, <1>3, <1>4 DEF FromStorage

(* A freeze that a server reports keeps the types.                         *)
LEMMA OrderClientFreezeTypes ==
  ASSUME Types, NEW r \in Replicas, OrderClientFreeze(r)
  PROVE  Types'
<1>1. UNCHANGED <<gsnBase, epochs, cuts, flushed, data, acks, byes, alive,
                  assigned, consumed, reqs, reach, out, latest, response, left, log, cur,
                  latestGsn, disc, suspect, got, aborted>>
  BY DEF OrderClientFreeze, clientVars, storageVars
<1>2. ToOrderType' /\ Head(toOrder[r]).client \in Clients
  BY FromStorageTypes DEF OrderClientFreeze
<1>3. ToStorageType' /\ phase' \in [Clients -> {"active", "failed", "requested", "gone"}]
  <2>1. CASE Failed(Head(toOrder[r]).client)
    BY <1>2, <2>1, FailedTypes
  <2>2. CASE UNCHANGED <<phase, toStorage>>
    BY <2>2 DEF Types, OrderTypes, ToStorageType
  <2>3. QED
    BY <2>1, <2>2 DEF OrderClientFreeze
<1>4. OrderTypes'
  BY <1>1, <1>3 DEF Types, OrderTypes
<1>5. AcksType' /\ ByesType' /\ LogTypes' /\ ServerTypes' /\ ClientTypes'
  BY <1>1 DEF Types, AcksType, ByesType, LogTypes, ServerTypes, ClientTypes
<1>6. QED
  BY <1>2, <1>3, <1>4, <1>5 DEF Types

(* The cut of the lowest replica exists when all replicas have sent theirs.*)
LEMMA MinCutType ==
  ASSUME NEW ct, DOMAIN ct = Replicas, \A r \in Replicas : ct[r] \in Nat
  PROVE  Lowest(DOMAIN ct) \in Replicas /\ MinCut(ct) \in Nat
<1>1. \E r \in Replicas : \A s \in Replicas : r <= s
  BY ReplicasAssumption, LeastNat
<1>2. Lowest(Replicas) \in Replicas
  BY <1>1 DEF Lowest
<1>3. QED
  BY <1>2 DEF MinCut

(* A cut that a server reports keeps the types.                            *)
LEMMA OrderClientCutTypes ==
  ASSUME Types, NEW r \in Replicas, OrderClientCut(r)
  PROVE  Types'
<1>1. UNCHANGED <<gsnBase, epochs, flushed, data, acks, byes, alive,
                  assigned, consumed, reqs, reach, out, latest, response, left, log, cur,
                  latestGsn, disc, suspect, got, aborted>>
  BY DEF OrderClientCut, clientVars, storageVars
<1>2. /\ ToOrderType' /\ Head(toOrder[r]).client \in Clients
      /\ Head(toOrder[r]) \in Reports /\ Head(toOrder[r]).type = "cut"
  BY FromStorageTypes DEF OrderClientCut
<1>3. Head(toOrder[r]).gsn \in Nat
  BY <1>2 DEF Reports
<1> DEFINE m == Head(toOrder[r])
           c == m.client
           ct == [s \in DOMAIN cuts[c] \cup {r} |-> IF s = r THEN m.gsn ELSE cuts[c][s]]
<1>4. /\ DOMAIN ct \subseteq Replicas
      /\ \A s \in DOMAIN ct : ct[s] \in Nat
  BY <1>2, <1>3 DEF Types, OrderTypes
<1>5. CASE UNCHANGED <<phase, cuts, toStorage>>
  <2>1. OrderTypes' /\ ToStorageType'
    BY <1>1, <1>5 DEF Types, OrderTypes, ToStorageType
  <2>2. AcksType' /\ ByesType' /\ LogTypes' /\ ServerTypes' /\ ClientTypes'
    BY <1>1 DEF Types, AcksType, ByesType, LogTypes, ServerTypes, ClientTypes
  <2>3. QED
    BY <1>2, <2>1, <2>2 DEF Types
<1>6. CASE /\ cuts' = [cuts EXCEPT ![c] = ct]
           /\ IF phase[c] = "failed" /\ DOMAIN ct = Replicas
              THEN IF MinCut(ct) = MaxCut(ct) THEN Finalized(c)
                   ELSE Requested(c, MinCut(ct))
              ELSE UNCHANGED <<phase, toStorage>>
  <2> HIDE DEF ct
  <2>1. ToStorageType' /\ phase' \in [Clients -> {"active", "failed", "requested", "gone"}]
    <3>1. CASE Finalized(c)
      BY <1>2, <3>1, FinalizedTypes
    <3>2. CASE DOMAIN ct = Replicas /\ Requested(c, MinCut(ct))
      <4>1. MinCut(ct) \in Nat
        BY <1>4, <3>2, MinCutType
      <4>2. <<[type |-> "cut", client |-> c, begin |-> MinCut(ct)]>> \in Seq(Orders)
        BY <1>2, <4>1 DEF Orders
      <4>3. ToStorageType'
        BY <3>2, <4>2, BroadcastType DEF Requested, Types
      <4>4. QED
        BY <1>2, <3>2, <4>3 DEF Requested, Types, OrderTypes
    <3>3. CASE UNCHANGED <<phase, toStorage>>
      BY <3>3 DEF Types, OrderTypes, ToStorageType
    <3>4. QED
      BY <1>6, <3>1, <3>2, <3>3
  <2>2. /\ DOMAIN cuts' = Clients
        /\ \A x \in Clients : cuts'[x] = IF x = c THEN ct ELSE cuts[x]
    BY <1>6 DEF Types, OrderTypes
  <2>3. OrderTypes'
    BY <1>1, <1>4, <2>1, <2>2 DEF Types, OrderTypes
  <2>4. AcksType' /\ ByesType' /\ LogTypes' /\ ServerTypes' /\ ClientTypes'
    BY <1>1 DEF Types, AcksType, ByesType, LogTypes, ServerTypes, ClientTypes
  <2>5. QED
    BY <1>2, <2>1, <2>3, <2>4 DEF Types
<1>7. QED
  BY <1>5, <1>6, Zenon DEF OrderClientCut

(* Data that a server reports keep the types.                              *)
LEMMA OrderClientDataTypes ==
  ASSUME Types, NEW r \in Replicas, OrderClientData(r)
  PROVE  Types'
<1>1. UNCHANGED <<gsnBase, epochs, cuts, acks, byes, alive,
                  assigned, consumed, reqs, reach, out, latest, response, left, log, cur,
                  latestGsn, disc, suspect, got, aborted>>
  BY DEF OrderClientData, clientVars, storageVars
<1>2. /\ ToOrderType' /\ Head(toOrder[r]).client \in Clients
      /\ Head(toOrder[r]) \in Reports /\ Head(toOrder[r]).type = "data"
  BY FromStorageTypes DEF OrderClientData
<1> DEFINE m == Head(toOrder[r])
           c == m.client
<1>3. AcksType' /\ ByesType' /\ LogTypes' /\ ServerTypes' /\ ClientTypes'
  BY <1>1 DEF Types, AcksType, ByesType, LogTypes, ServerTypes, ClientTypes
<1>4. CASE UNCHANGED <<phase, flushed, data, toStorage>>
  <2>1. OrderTypes' /\ ToStorageType'
    BY <1>1, <1>4 DEF Types, OrderTypes, ToStorageType
  <2>2. QED
    BY <1>2, <1>3, <2>1 DEF Types
<1>5. CASE /\ flushed' = [flushed EXCEPT ![c] = @ \cup {r}]
           /\ IF flushed'[c] = Replicas THEN Finalized(c)
              ELSE UNCHANGED <<phase, toStorage>>
           /\ UNCHANGED data
  <2>1. ToStorageType' /\ phase' \in [Clients -> {"active", "failed", "requested", "gone"}]
    <3>1. CASE Finalized(c)
      BY <1>2, <3>1, FinalizedTypes
    <3>2. CASE UNCHANGED <<phase, toStorage>>
      BY <3>2 DEF Types, OrderTypes, ToStorageType
    <3>3. QED
      BY <1>5, <3>1, <3>2
  <2>2. flushed' \in [Clients -> SUBSET Replicas]
    BY <1>2, <1>5 DEF Types, OrderTypes
  <2>3. OrderTypes'
    BY <1>1, <1>5, <2>1, <2>2 DEF Types, OrderTypes
  <2>4. QED
    BY <1>2, <1>3, <2>1, <2>3 DEF Types
<1>6. CASE /\ m.gsn # NoGsn
           /\ data' = [data EXCEPT ![c] =
                [g \in DOMAIN @ \cup {m.gsn} |-> IF g \in DOMAIN @ THEN @[g] ELSE m.data]]
           /\ UNCHANGED <<phase, flushed, toStorage>>
  <2>1. m.gsn \in Nat /\ m.data \in Payloads
    BY <1>2, <1>6 DEF Reports
  <2> DEFINE d == [g \in DOMAIN data[c] \cup {m.gsn} |->
                     IF g \in DOMAIN data[c] THEN data[c][g] ELSE m.data]
  <2>2. DOMAIN data[c] \subseteq Nat /\ IsFiniteSet(DOMAIN data[c])
        /\ \A g \in DOMAIN data[c] : data[c][g] \in Payloads
    BY <1>2 DEF Types, OrderTypes
  <2>3. IsFiniteSet(DOMAIN data[c] \cup {m.gsn})
    BY <2>2, FS_AddElement
  <2>4. /\ DOMAIN d \subseteq Nat /\ IsFiniteSet(DOMAIN d)
        /\ \A g \in DOMAIN d : d[g] \in Payloads
    BY <2>1, <2>2, <2>3
  <2>5. data' = [data EXCEPT ![c] = d]
    BY <1>6
  <2> HIDE DEF d
  <2>6. /\ DOMAIN data' = Clients
        /\ \A x \in Clients : data'[x] = IF x = c THEN d ELSE data[x]
    BY <2>5 DEF Types, OrderTypes
  <2>7. OrderTypes'
    BY <1>1, <1>6, <2>4, <2>6 DEF Types, OrderTypes
  <2>8. ToStorageType'
    BY <1>6 DEF Types, ToStorageType
  <2>9. QED
    BY <1>2, <1>3, <2>7, <2>8 DEF Types
<1>7. QED
  BY <1>4, <1>5, <1>6, Zenon DEF OrderClientData

-----------------------------------------------------------------------------
(* Types: steps of clients.                                                *)

(* Sending a request or a no-op keeps the types.                           *)
LEMMA SendRequestTypes ==
  ASSUME Types, NEW c \in Clients, NEW d \in Submitted(c) \cup {NoOp},
         NEW n \in 1 .. MaxSlots, SendRequest(c, d, n)
  PROVE  Types'
<1>1. UNCHANGED <<gsnBase, epochs, phase, cuts, flushed, data, toStorage, toOrder, acks,
                  byes, alive, assigned, reach, latest, response, left, log, cur,
                  latestGsn, disc, suspect, got, aborted>>
  BY DEF SendRequest, orderVars, channelVars, storageVars
<1>2. [type |-> "insert", data |-> d, num |-> n] \in CMessage
  BY BoundsAssumption DEF CMessage, Submitted
<1>3. reqs' \in [Clients -> Seq(CMessage)]
  <2>1. Append(reqs[c], [type |-> "insert", data |-> d, num |-> n]) \in Seq(CMessage)
    BY <1>2, AppendProperties DEF Types, ClientTypes
  <2>2. QED
    BY <2>1 DEF SendRequest, Types, ClientTypes
<1>4. consumed' \in [Clients -> Nat]
  BY BoundsAssumption DEF SendRequest, Consume, Types, ClientTypes
<1>5. out' \in [Clients -> Seq(Outstanding)]
  <2>1. [req |-> Len(reqs[c]) + 1, gsn |-> NoGsn, acks |-> 0] \in Outstanding
    <3>1. Len(reqs[c]) \in Nat
      BY DEF Types, ClientTypes
    <3>2. QED
      BY <3>1, NoGsnAssumption DEF Outstanding
  <2>2. Append(out[c], [req |-> Len(reqs[c]) + 1, gsn |-> NoGsn, acks |-> 0])
          \in Seq(Outstanding)
    BY <2>1, AppendProperties DEF Types, ClientTypes
  <2>3. QED
    BY <2>2 DEF SendRequest, Types, ClientTypes
<1>6. ClientTypes'
  BY <1>1, <1>3, <1>4, <1>5 DEF Types, ClientTypes
<1>7. /\ OrderTypes' /\ ToStorageType' /\ ToOrderType' /\ AcksType' /\ ByesType'
      /\ LogTypes' /\ ServerTypes'
  BY <1>1 DEF Types, OrderTypes, ToStorageType, ToOrderType, AcksType, ByesType,
              LogTypes, ServerTypes
<1>8. QED
  BY <1>6, <1>7 DEF Types

(* The farewells of a client keep the types.                               *)
LEMMA SendByeTypes ==
  ASSUME Types, NEW c \in Clients, SendBye(c) \/ AllStorageFinished(c)
  PROVE  Types'
<1>1. UNCHANGED <<gsnBase, epochs, phase, cuts, flushed, data, toStorage, toOrder, acks,
                  byes, alive, assigned, consumed, reach, out, latest, response, log,
                  cur, latestGsn, disc, suspect, got, aborted>>
  BY DEF SendBye, AllStorageFinished, orderVars, channelVars, storageVars
<1>2. reqs' \in [Clients -> Seq(CMessage)] /\ left' \in [Clients -> {"no", "sent"}]
  <2>1. CASE SendBye(c)
    <3>1. [type |-> "bye"] \in CMessage
      BY DEF CMessage
    <3>2. Append(reqs[c], [type |-> "bye"]) \in Seq(CMessage)
      BY <3>1, AppendProperties DEF Types, ClientTypes
    <3>3. QED
      BY <2>1, <3>2 DEF SendBye, Types, ClientTypes
  <2>2. CASE AllStorageFinished(c)
    BY <2>2 DEF AllStorageFinished, Types, ClientTypes
  <2>3. QED
    BY <2>1, <2>2
<1>3. ClientTypes'
  BY <1>1, <1>2 DEF Types, ClientTypes
<1>4. /\ OrderTypes' /\ ToStorageType' /\ ToOrderType' /\ AcksType' /\ ByesType'
      /\ LogTypes' /\ ServerTypes'
  BY <1>1 DEF Types, OrderTypes, ToStorageType, ToOrderType, AcksType, ByesType,
              LogTypes, ServerTypes
<1>5. QED
  BY <1>3, <1>4 DEF Types

(* The search finds a request when one matches.                            *)
LEMMA AckedFound ==
  ASSUME ClientTypes, NEW c \in Clients, NEW g, Matching(c, g) # {}
  PROVE  /\ Acked(c, g) \in 1 .. Len(out[c])
         /\ out[c][Acked(c, g)].gsn \in {NoGsn, g}
         /\ \A m \in 1 .. Len(out[c]) :
              out[c][m].gsn \in {NoGsn, g} => Acked(c, g) <= m
<1>1. DOMAIN out[c] = 1 .. Len(out[c])
  BY DEF ClientTypes
<1>2. Matching(c, g) \subseteq Nat
  BY <1>1 DEF Matching
<1>3. \E k \in Matching(c, g) : \A m \in Matching(c, g) : k <= m
  BY <1>2, LeastNat
<1>4. /\ Acked(c, g) \in Matching(c, g)
      /\ \A m \in Matching(c, g) : Acked(c, g) <= m
  BY <1>3 DEF Acked
<1>5. QED
  BY <1>1, <1>4 DEF Matching

(* One more acknowledgement of an outstanding request.                     *)
LEMMA OutstandingUpdate ==
  ASSUME NEW e \in Outstanding, NEW g \in Nat
  PROVE  /\ [e EXCEPT !.gsn = g, !.acks = @ + 1] =
              [req |-> e.req, gsn |-> g, acks |-> e.acks + 1]
         /\ [e EXCEPT !.gsn = g, !.acks = @ + 1] \in Outstanding
<1>1. ASSUME NEW f, f = [e EXCEPT !.gsn = g, !.acks = @ + 1]
      PROVE  f \in Outstanding /\ f = [req |-> e.req, gsn |-> g, acks |-> e.acks + 1]
  <2>1. /\ f.req = e.req /\ f.gsn = g /\ f.acks = e.acks + 1
        /\ DOMAIN f = {"req", "gsn", "acks"} /\ f = [x \in DOMAIN f |-> f[x]]
    BY <1>1 DEF Outstanding
  <2>2. e.req \in Nat /\ e.acks + 1 \in Nat
    BY DEF Outstanding
  <2>3. f \in Outstanding
    BY <2>1, <2>2 DEF Outstanding
  <2>4. f = [req |-> f.req, gsn |-> f.gsn, acks |-> f.acks]
    BY <2>3 DEF Outstanding
  <2>5. QED
    BY <2>1, <2>3, <2>4, Zenon
<1>2. QED
  BY <1>1, Zenon

(* An acknowledgement keeps the types, whether or not it makes the         *)
(* response complete.                                                      *)
LEMMA InsertAckTypes ==
  ASSUME Types, NEW c \in Clients, NEW r \in Replicas, InsertAck(c, r)
  PROVE  Types'
<1> DEFINE g == Head(acks[c][r])
           k == Acked(c, g)
<1>1. UNCHANGED <<gsnBase, epochs, phase, cuts, flushed, data, toStorage, toOrder, byes,
                  alive, assigned, consumed, reqs, reach, left, log, cur, latestGsn, disc,
                  suspect, got, aborted>>
  BY DEF InsertAck, orderVars, storageVars
<1>2. acks[c][r] \in Seq(Nat) /\ acks[c][r] # << >>
  BY DEF Types, AcksType, InsertAck
<1>3. g \in Nat /\ Tail(acks[c][r]) \in Seq(Nat)
  BY <1>2, HeadTailProperties
<1>4. AcksType'
  BY <1>3 DEF Types, AcksType, InsertAck
<1>5. ClientTypes'
  <2> HIDE DEF g, k
  <2>1. CASE UNCHANGED <<out, latest, response>>
    BY <1>1, <2>1 DEF Types, ClientTypes
  <2>2. CASE /\ Matching(c, g) # {}
             /\ response' = [response EXCEPT ![c] =
                  [q \in DOMAIN @ \cup {out[c][k].req} |->
                     IF q = out[c][k].req THEN g ELSE @[q]]]
             /\ latest' = [latest EXCEPT ![c] = g]
             /\ out' = [out EXCEPT ![c] =
                  SubSeq(@, 1, k - 1) \o SubSeq(@, k + 1, Len(@))]
    <3>1. k \in 1 .. Len(out[c]) /\ out[c] \in Seq(Outstanding) /\ Len(out[c]) \in Nat
      BY <2>2, AckedFound DEF k, Types, ClientTypes
    <3>2. \A i \in 1 .. Len(out[c]) : out[c][i] \in Outstanding
      BY <3>1
    <3>3. SubSeq(out[c], 1, k - 1) \in Seq(Outstanding)
      BY <3>1, <3>2, SubSeqProperties
    <3>4. SubSeq(out[c], k + 1, Len(out[c])) \in Seq(Outstanding)
      BY <3>1, <3>2, SubSeqProperties
    <3>5. SubSeq(out[c], 1, k - 1) \o SubSeq(out[c], k + 1, Len(out[c]))
            \in Seq(Outstanding)
      BY <3>3, <3>4, ConcatProperties
    <3>6. out' \in [Clients -> Seq(Outstanding)]
      BY <2>2, <3>5 DEF Types, ClientTypes
    <3>7. latest' \in [Clients -> Nat]
      BY <1>3, <2>2 DEF g, Types, ClientTypes
    <3> DEFINE rs == [q \in DOMAIN response[c] \cup {out[c][k].req} |->
                        IF q = out[c][k].req THEN g ELSE response[c][q]]
    <3>8. \A q \in DOMAIN rs : rs[q] \in Nat
      BY <1>3 DEF g, Types, ClientTypes
    <3>9. response' = [response EXCEPT ![c] = rs]
      BY <2>2
    <3> HIDE DEF rs
    <3>10. /\ DOMAIN response' = Clients
           /\ \A x \in Clients : \A q \in DOMAIN response'[x] : response'[x][q] \in Nat
      BY <3>8, <3>9 DEF Types, ClientTypes
    <3>11. QED
      BY <1>1, <3>6, <3>7, <3>10 DEF Types, ClientTypes
  <2>3. CASE /\ Matching(c, g) # {}
             /\ out' = [out EXCEPT ![c][k].gsn = g, ![c][k].acks = @ + 1]
             /\ UNCHANGED <<latest, response>>
    <3>1. k \in 1 .. Len(out[c]) /\ out[c] \in Seq(Outstanding)
      BY <2>3, AckedFound DEF k, Types, ClientTypes
    <3>2. out[c][k] \in Outstanding
      BY <3>1
    <3> DEFINE o == [out[c][k] EXCEPT !.gsn = g, !.acks = @ + 1]
    <3>3. o \in Outstanding
      BY <1>3, <3>2, OutstandingUpdate DEF g
    <3>4. out' = [out EXCEPT ![c] = [@ EXCEPT ![k] = o]]
      BY <2>3, <3>1, <3>2 DEF Types, ClientTypes
    <3> HIDE DEF o
    <3>5. [out[c] EXCEPT ![k] = o] \in Seq(Outstanding)
      BY <3>1, <3>3, ExceptSeq
    <3>6. out' \in [Clients -> Seq(Outstanding)]
      BY <3>4, <3>5 DEF Types, ClientTypes
    <3>7. QED
      BY <1>1, <2>3, <3>6 DEF Types, ClientTypes
  <2>4. QED
    BY <2>1, <2>2, <2>3, Zenon DEF InsertAck, g, k
<1>6. /\ OrderTypes' /\ ToStorageType' /\ ToOrderType' /\ ByesType'
      /\ LogTypes' /\ ServerTypes'
  BY <1>1 DEF Types, OrderTypes, ToStorageType, ToOrderType, ByesType,
              LogTypes, ServerTypes
<1>7. QED
  BY <1>4, <1>5, <1>6 DEF Types

(* A crash of a client keeps the types.                                    *)
LEMMA CrashTypes ==
  ASSUME Types, NEW c \in Clients, Crash(c)
  PROVE  Types'
<1>1. UNCHANGED <<gsnBase, epochs, phase, cuts, flushed, data, toStorage, toOrder, byes,
                  reqs, response, left, log, cur, latestGsn, disc, suspect, got, aborted>>
  BY DEF Crash, orderVars, storageVars
<1>2. AcksType'
  BY DEF Crash, Types, AcksType
<1>3. PICK last \in [Replicas -> 0 .. Len(reqs[c])] : reach' = [reach EXCEPT ![c] = last]
  BY DEF Crash
<1>4. reach' \in [Clients -> [Replicas -> Nat]]
  <2>1. last \in [Replicas -> Nat]
    BY DEF Types, ClientTypes
  <2>2. QED
    BY <1>3, <2>1 DEF Types, ClientTypes
<1>5. /\ out' \in [Clients -> Seq(Outstanding)]
      /\ latest' \in [Clients -> Nat]
      /\ assigned' \in [Clients -> Nat] /\ consumed' \in [Clients -> Nat]
  BY NoGsnAssumption DEF Crash, Types, ClientTypes
<1>6. alive' \in [Clients -> BOOLEAN]
  BY DEF Crash, Types, ClientTypes
<1>7. ClientTypes'
  BY <1>1, <1>4, <1>5, <1>6 DEF Types, ClientTypes
<1>8. /\ OrderTypes' /\ ToStorageType' /\ ToOrderType' /\ ByesType'
      /\ LogTypes' /\ ServerTypes'
  BY <1>1 DEF Types, OrderTypes, ToStorageType, ToOrderType, ByesType,
              LogTypes, ServerTypes
<1>9. QED
  BY <1>2, <1>7, <1>8 DEF Types

-----------------------------------------------------------------------------
(* Types: steps of servers.                                                *)

(* A server takes a message from the ordering service.                     *)
LEMMA FromOrderTypes ==
  ASSUME Types, NEW r \in Replicas, NEW type, FromOrder(r, type)
  PROVE  /\ toStorage[r] \in Seq(Orders) /\ toStorage[r] # << >>
         /\ Head(toStorage[r]) \in Orders /\ Head(toStorage[r]).type = type
         /\ type # "slots" => Head(toStorage[r]).client \in Clients
         /\ ToStorageType'
<1>1. toStorage[r] \in Seq(Orders) /\ toStorage[r] # << >>
  BY DEF Types, ToStorageType, FromOrder
<1>2. Head(toStorage[r]) \in Orders /\ Tail(toStorage[r]) \in Seq(Orders)
  BY <1>1, HeadTailProperties
<1>3. Head(toStorage[r]).type = type
  BY DEF FromOrder
<1>4. type # "slots" => Head(toStorage[r]).client \in Clients
  BY <1>2, <1>3 DEF Orders
<1>5. ToStorageType'
  BY <1>2 DEF FromOrder, Types, ToStorageType
<1>6. QED
  BY <1>1, <1>2, <1>3, <1>4, <1>5

(* A server sends messages to the ordering service.                        *)
LEMMA SendOrderType ==
  ASSUME Types, NEW r \in Replicas, NEW ms \in Seq(Reports), SendOrder(r, ms)
  PROVE  ToOrderType'
<1>1. toOrder[r] \o ms \in Seq(Reports)
  BY ConcatProperties DEF Types, ToOrderType
<1>2. QED
  BY <1>1 DEF SendOrder, Types, ToOrderType

(* New slots at a server keep the types.                                   *)
LEMMA StorageSlotsTypes ==
  ASSUME Types, NEW r \in Replicas, StorageSlots(r)
  PROVE  Types'
<1>1. UNCHANGED <<gsnBase, epochs, phase, cuts, flushed, data, toOrder, acks, byes, alive,
                  assigned, consumed, reqs, reach, out, latest, response, left, cur,
                  latestGsn, disc, suspect, got, aborted>>
  BY DEF StorageSlots, orderVars, clientVars
<1>2. /\ ToStorageType'
      /\ Head(toStorage[r]) \in Orders /\ Head(toStorage[r]).type = "slots"
  BY FromOrderTypes DEF StorageSlots
<1>3. Head(toStorage[r]).start \in Nat /\ Head(toStorage[r]).owners \in Seq(Clients)
  BY <1>2 DEF Orders
<1>4. log' = [log EXCEPT ![r] = @ \o NewSlots(Head(toStorage[r]))]
  BY Zenon DEF StorageSlots, NewSlots
<1>5. log[r] \o NewSlots(Head(toStorage[r])) \in Seq(Entry)
  BY <1>3, NewSlotsEffect DEF Types, LogTypes
<1>6. LogTypes'
  BY <1>1, <1>4, <1>5 DEF Types, LogTypes
<1>7. OrderTypes' /\ ToOrderType' /\ AcksType' /\ ByesType' /\ ClientTypes' /\ ServerTypes'
  BY <1>1 DEF Types, OrderTypes, ToOrderType, AcksType, ByesType, ClientTypes, ServerTypes
<1>8. QED
  BY <1>2, <1>6, <1>7 DEF Types

(* Freezing a client, by order or on a failure event, keeps the types.     *)
LEMMA StorageFreezeTypes ==
  ASSUME Types, NEW r \in Replicas,
         StorageClientFreeze(r) \/ \E c \in Clients : StorageFailureEvent(r, c)
  PROVE  Types'
<1>1. UNCHANGED <<gsnBase, epochs, phase, cuts, flushed, data, acks, byes, alive,
                  assigned, consumed, reqs, reach, out, latest, response, left, log, cur,
                  latestGsn, got, aborted>>
  BY DEF StorageClientFreeze, StorageFailureEvent, orderVars, clientVars
<1>2. ToStorageType' /\ ToOrderType' /\ ServerTypes'
  <2>1. CASE StorageClientFreeze(r)
    <3> DEFINE c == Head(toStorage[r]).client
    <3>1. ToStorageType' /\ c \in Clients
      BY <2>1, FromOrderTypes DEF StorageClientFreeze
    <3>2. latestGsn[r][c] \in Nat
      BY <3>1 DEF Types, LogTypes
    <3>3. <<[type |-> "cut", client |-> c, gsn |-> latestGsn[r][c]]>> \in Seq(Reports)
      BY <3>1, <3>2 DEF Reports
    <3>4. ToOrderType'
      BY <2>1, <3>3, SendOrderType DEF StorageClientFreeze
    <3>5. ServerTypes'
      BY <1>1, <2>1, <3>1 DEF StorageClientFreeze, Types, ServerTypes
    <3>6. QED
      BY <3>1, <3>4, <3>5
  <2>2. ASSUME NEW c \in Clients, StorageFailureEvent(r, c)
        PROVE  ToStorageType' /\ ToOrderType' /\ ServerTypes'
    <3>1. <<[type |-> "freeze", client |-> c]>> \in Seq(Reports)
      BY DEF Reports
    <3>2. ToOrderType'
      BY <2>2, <3>1, SendOrderType DEF StorageFailureEvent
    <3>3. ToStorageType' /\ ServerTypes'
      BY <1>1, <2>2 DEF StorageFailureEvent, Types, ServerTypes, ToStorageType
    <3>4. QED
      BY <3>2, <3>3
  <2>3. QED
    BY <2>1, <2>2
<1>3. OrderTypes' /\ AcksType' /\ ByesType' /\ ClientTypes' /\ LogTypes'
  BY <1>1 DEF Types, OrderTypes, AcksType, ByesType, ClientTypes, LogTypes
<1>4. QED
  BY <1>2, <1>3 DEF Types

(* The positions that a server reports for a requested cut, and the        *)
(* messages it sends.                                                      *)
Reported(r) ==
  LET c == Head(toStorage[r]).client IN
  IF latestGsn[r][c] = NoGsn THEN {}
  ELSE {k \in Suffix(log[r], c, cur[r][c], Head(toStorage[r]).begin, NoGsn) :
          HasData(log[r][k])}

(* An entry that is reported is one of the client, up to its current entry,*)
(* with a payload.                                                         *)
LEMMA ReportedEntries ==
  ASSUME Types, NEW r \in Replicas, NEW k \in Reported(r)
  PROVE  /\ k \in 1 .. Len(log[r]) /\ k <= cur[r][Head(toStorage[r]).client]
         /\ log[r][k] \in Entry
         /\ log[r][k].client = Head(toStorage[r]).client
         /\ log[r][k].gsn \in Nat /\ log[r][k].data \in Payloads
<1>1. log[r] \in Seq(Entry)
  BY DEF Types, LogTypes
<1>2. /\ k \in DOMAIN log[r] /\ k <= cur[r][Head(toStorage[r]).client]
      /\ log[r][k].client = Head(toStorage[r]).client
      /\ HasData(log[r][k])
  BY DEF Reported, Suffix
<1>3. k \in 1 .. Len(log[r]) /\ log[r][k] \in Entry
  BY <1>1, <1>2
<1>4. QED
  BY <1>2, <1>3 DEF Entry, HasData

(* A requested cut is answered by one message per reported entry, and the  *)
(* end of the data.                                                        *)
LEMMA StorageClientCutEffect ==
  ASSUME Types, NEW r \in Replicas, StorageClientCut(r)
  PROVE  LET c == Head(toStorage[r]).client IN
         \E ms \in Seq({EntryData(r, c, k) : k \in Reported(r)}
                         \cup {DataMessage(c, NoGsn, NoOp)}) :
           SendOrder(r, ms)
<1> DEFINE c == Head(toStorage[r]).client
           ks == Reported(r)
           Listed(s) == \A k, m \in DOMAIN s : k < m => s[k] > s[m]
           s0 == CHOOSE s \in [1 .. Cardinality(ks) -> ks] : Listed(s)
           S == {EntryData(r, c, k) : k \in ks} \cup {DataMessage(c, NoGsn, NoOp)}
           m1 == [n \in DOMAIN s0 |-> EntryData(r, c, s0[n])]
           m2 == <<DataMessage(c, NoGsn, NoOp)>>
<1>1. SendOrder(r, m1 \o m2)
  BY Zenon DEF StorageClientCut, Reported
<1>2. ks \subseteq Nat /\ IsFiniteSet(ks)
  <2>1. Len(log[r]) \in Nat
    BY DEF Types, LogTypes
  <2>2. ks \in SUBSET (1 .. Len(log[r]))
    BY ReportedEntries
  <2>3. IsFiniteSet(1 .. Len(log[r]))
    BY <2>1, FS_Interval
  <2>4. IsFiniteSet(ks)
    BY <2>2, <2>3, FS_Subset
  <2>5. QED
    BY <2>1, <2>2, <2>4
<1> HIDE DEF ks
<1>3. s0 \in [1 .. Cardinality(ks) -> ks]
  <2>1. \E s \in [1 .. Cardinality(ks) -> ks] : Listed(s)
    BY <1>2, Decreasing, Zenon
  <2> HIDE DEF Listed
  <2>2. QED
    BY <2>1
<1>4. Cardinality(ks) \in Nat
  BY <1>2, FS_CardinalityType
<1> HIDE DEF s0
<1>5. m1 \in Seq(S)
  <2>1. \A n \in 1 .. Cardinality(ks) : EntryData(r, c, s0[n]) \in S
    BY <1>3
  <2> HIDE DEF S
  <2>2. m1 \in [1 .. Cardinality(ks) -> S]
    BY <1>3, <2>1
  <2>3. QED
    BY <1>4, <2>2
<1>6. m2 \in Seq(S)
  OBVIOUS
<1> HIDE DEF m1, m2, S
<1>7. m1 \o m2 \in Seq(S)
  BY <1>5, <1>6, ConcatProperties
<1>8. QED
  BY <1>1, <1>7, Zenon DEF S, ks

(* The report of the entries above a cut keeps the types.                  *)
LEMMA StorageClientCutTypes ==
  ASSUME Types, NEW r \in Replicas, StorageClientCut(r)
  PROVE  Types'
<1>1. UNCHANGED <<gsnBase, epochs, phase, cuts, flushed, data, acks, byes, alive,
                  assigned, consumed, reqs, reach, out, latest, response, left, log, cur,
                  latestGsn, disc, suspect, got, aborted>>
  BY DEF StorageClientCut, orderVars, clientVars, storageVars
<1> DEFINE c == Head(toStorage[r]).client
           S == {EntryData(r, c, k) : k \in Reported(r)} \cup {DataMessage(c, NoGsn, NoOp)}
<1>2. ToStorageType' /\ c \in Clients
  <2>1. FromOrder(r, "cut") /\ "cut" # "slots"
    BY Zenon DEF StorageClientCut
  <2>2. QED
    BY <2>1, FromOrderTypes
<1>3. S \subseteq Reports
  <2>1. ASSUME NEW k \in Reported(r) PROVE EntryData(r, c, k) \in Reports
    <3>1. log[r][k].gsn \in Nat /\ log[r][k].data \in Payloads
      BY ReportedEntries
    <3>2. QED
      BY <1>2, <3>1 DEF EntryData, DataMessage, Reports
  <2>2. DataMessage(c, NoGsn, NoOp) \in Reports
    BY <1>2 DEF DataMessage, Reports
  <2>3. QED
    BY <2>1, <2>2
<1>4. ToOrderType'
  <2>1. PICK ms \in Seq(S) : SendOrder(r, ms)
    BY StorageClientCutEffect, Zenon
  <2> HIDE DEF S
  <2>2. ms \in Seq(Reports)
    BY <1>3, <2>1, SeqMonotonic
  <2>3. QED
    BY <2>1, <2>2, SendOrderType
<1>5. OrderTypes' /\ AcksType' /\ ByesType' /\ ClientTypes' /\ LogTypes' /\ ServerTypes'
  BY <1>1 DEF Types, OrderTypes, AcksType, ByesType, ClientTypes, LogTypes, ServerTypes
<1>6. QED
  BY <1>2, <1>4, <1>5 DEF Types

(* position::insert either finds its slot, or the process aborts.          *)
LEMMA PositionInsertEffect ==
  ASSUME LogTypes, NEW r \in Replicas, NEW c \in Clients,
         NEW d \in Payloads \cup {NoOp}, NEW n \in Nat, PositionInsert(r, c, d, n)
  PROVE  \/ /\ aborted' = aborted \cup {r} /\ UNCHANGED <<log, cur>>
            /\ n = 0 \/ Cardinality(After(log[r], c, cur[r][c])) < n
         \/ /\ UNCHANGED aborted
            /\ \E k \in After(log[r], c, cur[r][c]) :
                 /\ Cardinality(UpTo(After(log[r], c, cur[r][c]), k)) = n
                 /\ log' = [log EXCEPT ![r] = InsertAt(@, c, cur[r][c], k, d)]
                 /\ cur' = [cur EXCEPT ![r][c] = k]
<1> DEFINE k == NthAfter(log[r], c, cur[r][c], n)
<1>1. log[r] \in Seq(Entry) /\ cur[r][c] \in Nat
  BY DEF LogTypes
<1>2. /\ k # 0 => /\ k \in After(log[r], c, cur[r][c])
                  /\ Cardinality(UpTo(After(log[r], c, cur[r][c]), k)) = n
      /\ k = 0 => n = 0 \/ Cardinality(After(log[r], c, cur[r][c])) < n
  BY <1>1, NthAfterFound
<1>3. IF k = 0
      THEN /\ aborted' = aborted \cup {r}
           /\ UNCHANGED <<log, cur>>
      ELSE /\ log' = [log EXCEPT ![r] = InsertAt(@, c, cur[r][c], k, d)]
           /\ cur' = [cur EXCEPT ![r][c] = k]
           /\ UNCHANGED aborted
  BY Zenon DEF PositionInsert
<1> HIDE DEF k
<1>4. QED
  BY <1>2, <1>3, Zenon

(* position::insert keeps the types of the logs and of the cursors, and    *)
(* at most marks the server as aborted.                                    *)
LEMMA PositionInsertTypes ==
  ASSUME LogTypes, NEW r \in Replicas, NEW c \in Clients,
         NEW d \in Payloads \cup {NoOp}, NEW n \in Nat, PositionInsert(r, c, d, n)
  PROVE  /\ log' \in [Replicas -> Seq(Entry)]
         /\ cur' \in [Replicas -> [Clients -> Nat]]
         /\ aborted' \subseteq Replicas
<1>1. log[r] \in Seq(Entry) /\ cur[r][c] \in Nat
  BY DEF LogTypes
<1>2. CASE aborted' = aborted \cup {r} /\ UNCHANGED <<log, cur>>
  BY <1>2 DEF LogTypes
<1>3. ASSUME NEW k \in After(log[r], c, cur[r][c]), UNCHANGED aborted,
             log' = [log EXCEPT ![r] = InsertAt(@, c, cur[r][c], k, d)],
             cur' = [cur EXCEPT ![r][c] = k]
      PROVE  /\ log' \in [Replicas -> Seq(Entry)]
             /\ cur' \in [Replicas -> [Clients -> Nat]]
             /\ aborted' \subseteq Replicas
  <2>1. InsertAt(log[r], c, cur[r][c], k, d) \in Seq(Entry)
    BY <1>1, InsertAtEffect
  <2>2. k \in Nat
    BY <1>1, AfterType
  <2>3. log' \in [Replicas -> Seq(Entry)]
    BY <1>3, <2>1 DEF LogTypes
  <2>4. cur' \in [Replicas -> [Clients -> Nat]]
    BY <1>3, <2>2 DEF LogTypes
  <2>5. QED
    BY <1>3, <2>3, <2>4 DEF LogTypes
<1>4. QED
  BY <1>2, <1>3, PositionInsertEffect

(* A patch at a server keeps the types.                                    *)
LEMMA StorageClientPatchTypes ==
  ASSUME Types, NEW r \in Replicas, StorageClientPatch(r)
  PROVE  Types'
<1>1. UNCHANGED <<gsnBase, epochs, phase, cuts, flushed, data, toOrder, acks, byes, alive,
                  assigned, consumed, reqs, reach, out, latest, response, left, latestGsn,
                  disc, suspect, got>>
  BY DEF StorageClientPatch, orderVars, clientVars
<1> DEFINE m == Head(toStorage[r])
<1>2. ToStorageType' /\ m \in Orders /\ m.type = "patch" /\ m.client \in Clients
  BY FromOrderTypes DEF StorageClientPatch
<1>3. m.gsn \in Nat /\ m.data \in Payloads \cup {NoOp}
  BY <1>2 DEF Orders
<1>4. /\ log' \in [Replicas -> Seq(Entry)]
      /\ cur' \in [Replicas -> [Clients -> Nat]]
      /\ aborted' \subseteq Replicas
  <2>1. CASE PositionInsert(r, m.client, m.data, m.gsn)
    BY <1>2, <1>3, <2>1, PositionInsertTypes DEF Types
  <2>2. CASE UNCHANGED <<log, cur, aborted>>
    BY <2>2 DEF Types, LogTypes
  <2>3. QED
    BY <2>1, <2>2 DEF StorageClientPatch
<1>5. LogTypes'
  BY <1>1, <1>4 DEF Types, LogTypes
<1>6. OrderTypes' /\ ToOrderType' /\ AcksType' /\ ByesType' /\ ClientTypes' /\ ServerTypes'
  BY <1>1 DEF Types, OrderTypes, ToOrderType, AcksType, ByesType, ClientTypes, ServerTypes
<1>7. QED
  BY <1>2, <1>5, <1>6 DEF Types

(* Closing the slots of a client that is gone keeps the types.             *)
LEMMA StorageClientFinalizeTypes ==
  ASSUME Types, NEW r \in Replicas, StorageClientFinalize(r)
  PROVE  Types'
<1>1. UNCHANGED <<gsnBase, epochs, phase, cuts, flushed, data, toOrder, acks, byes, alive,
                  assigned, consumed, reqs, reach, out, latest, response, left, latestGsn,
                  disc, suspect, got, aborted>>
  BY DEF StorageClientFinalize, orderVars, clientVars
<1> DEFINE c == Head(toStorage[r]).client
<1>2. ToStorageType' /\ c \in Clients
  BY FromOrderTypes DEF StorageClientFinalize
<1>3. log[r] \in Seq(Entry) /\ cur[r][c] \in Nat
  BY <1>2 DEF Types, LogTypes
<1>4. CloseAfter(log[r], c, cur[r][c]) \in Seq(Entry)
  BY <1>3, CloseAfterEffect
<1>5. LastOf(log[r], c, cur[r][c]) \in Nat
  BY <1>3, LastOfFound
<1>6. LogTypes'
  <2>1. log' \in [Replicas -> Seq(Entry)]
    BY <1>4 DEF StorageClientFinalize, Types, LogTypes
  <2>2. cur' \in [Replicas -> [Clients -> Nat]]
    BY <1>2, <1>5 DEF StorageClientFinalize, Types, LogTypes
  <2>3. QED
    BY <1>1, <2>1, <2>2 DEF Types, LogTypes
<1>7. OrderTypes' /\ ToOrderType' /\ AcksType' /\ ByesType' /\ ClientTypes' /\ ServerTypes'
  BY <1>1 DEF Types, OrderTypes, ToOrderType, AcksType, ByesType, ClientTypes, ServerTypes
<1>8. QED
  BY <1>2, <1>6, <1>7 DEF Types

(* A server takes a message from a client.                                 *)
LEMMA FromClientTypes ==
  ASSUME Types, NEW r \in Replicas, NEW c \in Clients, NEW type, FromClient(r, c, type)
  PROVE  /\ r \notin aborted
         /\ got[r][c] + 1 \in 1 .. Len(reqs[c])
         /\ reqs[c][got[r][c] + 1] \in CMessage
         /\ reqs[c][got[r][c] + 1].type = type
         /\ got' \in [Replicas -> [Clients -> Nat]]
<1>1. reqs[c] \in Seq(CMessage) /\ got[r][c] \in Nat
  BY DEF Types, ClientTypes, ServerTypes
<1>2. got[r][c] + 1 \in 1 .. Len(reqs[c])
  BY <1>1 DEF FromClient
<1>3. got' \in [Replicas -> [Clients -> Nat]]
  BY <1>1 DEF FromClient, Types, ServerTypes
<1>4. QED
  BY <1>1, <1>2, <1>3 DEF FromClient

(* The outcomes of STORAGE_INSERT: the request is dropped, the process     *)
(* aborts, or the payload is stored and acknowledged.                      *)
LEMMA StorageInsertEffect ==
  ASSUME Types, NEW r \in Replicas, NEW c \in Clients, StorageInsert(r, c)
  PROVE  LET m == reqs[c][got[r][c] + 1] IN
         /\ m.data \in Payloads \cup {NoOp} /\ m.num \in Nat \ {0}
         /\ \/ c \in disc[r] /\ UNCHANGED <<log, cur, latestGsn, aborted, acks>>
            \/ /\ c \notin disc[r] /\ aborted' = aborted \cup {r}
               /\ Cardinality(After(log[r], c, cur[r][c])) < m.num
               /\ UNCHANGED <<log, cur, latestGsn, acks>>
            \/ /\ c \notin disc[r] /\ UNCHANGED aborted
               /\ \E k \in After(log[r], c, cur[r][c]) :
                    /\ Cardinality(UpTo(After(log[r], c, cur[r][c]), k)) = m.num
                    /\ log' = [log EXCEPT ![r] = InsertAt(@, c, cur[r][c], k, m.data)]
                    /\ cur' = [cur EXCEPT ![r][c] = k]
                    /\ latestGsn' = [latestGsn EXCEPT ![r][c] = log[r][k].gsn]
                    /\ acks' = IF alive[c]
                               THEN [acks EXCEPT ![c][r] = Append(@, log[r][k].gsn)]
                               ELSE acks
<1> DEFINE m == reqs[c][got[r][c] + 1]
<1>1. FromClient(r, c, "insert")
  BY DEF StorageInsert
<1>2. m \in CMessage /\ m.type = "insert" /\ r \notin aborted
  BY <1>1, FromClientTypes
<1>3. m.data \in Payloads \cup {NoOp} /\ m.num \in Nat \ {0}
  BY <1>2 DEF CMessage
<1>4. CASE c \in disc[r]
  <2>1. UNCHANGED <<log, cur, latestGsn, aborted, acks>>
    BY <1>4, Zenon DEF StorageInsert, Accepts
  <2>2. QED
    BY <1>3, <1>4, <2>1
<1>5. CASE c \notin disc[r]
  <2>1. /\ PositionInsert(r, c, m.data, m.num)
        /\ r \in aborted' => UNCHANGED <<latestGsn, acks>>
        /\ r \notin aborted' =>
             /\ latestGsn' = [latestGsn EXCEPT ![r][c] = log[r][cur'[r][c]].gsn]
             /\ acks' = IF alive[c]
                        THEN [acks EXCEPT ![c][r] = Append(@, log[r][cur'[r][c]].gsn)]
                        ELSE acks
    BY <1>5, Zenon DEF StorageInsert, Accepts
  <2> HIDE DEF m
  <2>2. CASE /\ aborted' = aborted \cup {r} /\ UNCHANGED <<log, cur>>
             /\ m.num = 0 \/ Cardinality(After(log[r], c, cur[r][c])) < m.num
    <3>1. r \in aborted' /\ m.num # 0
      BY <1>3, <2>2
    <3>2. QED
      BY <1>3, <1>5, <2>1, <2>2, <3>1, Zenon DEF m
  <2>3. ASSUME UNCHANGED aborted, NEW k \in After(log[r], c, cur[r][c]),
               Cardinality(UpTo(After(log[r], c, cur[r][c]), k)) = m.num,
               log' = [log EXCEPT ![r] = InsertAt(@, c, cur[r][c], k, m.data)],
               cur' = [cur EXCEPT ![r][c] = k]
        PROVE  /\ latestGsn' = [latestGsn EXCEPT ![r][c] = log[r][k].gsn]
               /\ acks' = IF alive[c]
                          THEN [acks EXCEPT ![c][r] = Append(@, log[r][k].gsn)]
                          ELSE acks
    <3>1. r \notin aborted'
      BY <1>2, <2>3
    <3>2. cur'[r][c] = k
      BY <2>3 DEF Types, LogTypes
    <3>3. QED
      BY <2>1, <3>1, <3>2, Zenon
  <2>4. \/ /\ aborted' = aborted \cup {r} /\ UNCHANGED <<log, cur>>
           /\ m.num = 0 \/ Cardinality(After(log[r], c, cur[r][c])) < m.num
        \/ /\ UNCHANGED aborted
           /\ \E k \in After(log[r], c, cur[r][c]) :
                /\ Cardinality(UpTo(After(log[r], c, cur[r][c]), k)) = m.num
                /\ log' = [log EXCEPT ![r] = InsertAt(@, c, cur[r][c], k, m.data)]
                /\ cur' = [cur EXCEPT ![r][c] = k]
    <3>1. LogTypes
      BY DEF Types
    <3>2. PICK d \in Payloads \cup {NoOp}, n \in Nat : d = m.data /\ n = m.num
      BY <1>3
    <3>3. PositionInsert(r, c, d, n)
      BY <2>1, <3>2
    <3>4. QED
      BY <3>1, <3>2, <3>3, PositionInsertEffect
  <2>5. QED
    BY <1>3, <1>5, <2>2, <2>3, <2>4, Zenon DEF m
<1>6. QED
  BY <1>4, <1>5

(* An insert at a server keeps the types.                                  *)
LEMMA StorageInsertTypes ==
  ASSUME Types, NEW r \in Replicas, NEW c \in Clients, StorageInsert(r, c)
  PROVE  Types'
<1>1. UNCHANGED <<gsnBase, epochs, phase, cuts, flushed, data, toStorage, toOrder, byes,
                  alive, assigned, consumed, reqs, reach, out, latest, response, left,
                  disc, suspect>>
  BY DEF StorageInsert, orderVars, clientVars
<1> DEFINE m == reqs[c][got[r][c] + 1]
<1>2. FromClient(r, c, "insert")
  BY DEF StorageInsert
<1>3. ServerTypes'
  BY <1>1, <1>2, FromClientTypes DEF Types, ServerTypes
<1>4. m.data \in Payloads \cup {NoOp} /\ m.num \in Nat
  BY StorageInsertEffect
<1>5. LogTypes' /\ AcksType'
  <2>1. CASE UNCHANGED <<log, cur, latestGsn, acks>> /\ aborted' \in {aborted, aborted \cup {r}}
    BY <2>1 DEF Types, LogTypes, AcksType
  <2>2. ASSUME UNCHANGED aborted, NEW k \in After(log[r], c, cur[r][c]),
               log' = [log EXCEPT ![r] = InsertAt(@, c, cur[r][c], k, m.data)],
               cur' = [cur EXCEPT ![r][c] = k],
               latestGsn' = [latestGsn EXCEPT ![r][c] = log[r][k].gsn],
               acks' = IF alive[c] THEN [acks EXCEPT ![c][r] = Append(@, log[r][k].gsn)]
                       ELSE acks
        PROVE  LogTypes' /\ AcksType'
    <3>1. log[r] \in Seq(Entry) /\ cur[r][c] \in Nat
      BY DEF Types, LogTypes
    <3>2. k \in 1 .. Len(log[r]) /\ k \in Nat
      BY <3>1, AfterType
    <3>3. log[r][k] \in Entry
      BY <3>1, <3>2
    <3>4. log[r][k].gsn \in Nat
      BY <3>3 DEF Entry
    <3>5. InsertAt(log[r], c, cur[r][c], k, m.data) \in Seq(Entry)
      BY <1>4, <3>1, InsertAtEffect
    <3>6. log' \in [Replicas -> Seq(Entry)]
      BY <2>2, <3>5 DEF Types, LogTypes
    <3>7. cur' \in [Replicas -> [Clients -> Nat]]
      BY <2>2, <3>2 DEF Types, LogTypes
    <3>8. latestGsn' \in [Replicas -> [Clients -> Nat]]
      BY <2>2, <3>4 DEF Types, LogTypes
    <3>9. Append(acks[c][r], log[r][k].gsn) \in Seq(Nat)
      BY <3>4, AppendProperties DEF Types, AcksType
    <3>10. [acks EXCEPT ![c][r] = Append(@, log[r][k].gsn)]
             \in [Clients -> [Replicas -> Seq(Nat)]]
      BY <3>9 DEF Types, AcksType
    <3>11. AcksType'
      <4>1. CASE alive[c]
        BY <2>2, <3>10, <4>1, Zenon DEF AcksType
      <4>2. CASE ~alive[c]
        BY <2>2, <4>2, Zenon DEF Types, AcksType
      <4>3. QED
        BY <4>1, <4>2
    <3>12. QED
      BY <2>2, <3>6, <3>7, <3>8, <3>11 DEF Types, LogTypes
  <2>3. \/ UNCHANGED <<log, cur, latestGsn, aborted, acks>>
        \/ aborted' = aborted \cup {r} /\ UNCHANGED <<log, cur, latestGsn, acks>>
        \/ /\ UNCHANGED aborted
           /\ \E k \in After(log[r], c, cur[r][c]) :
                /\ log' = [log EXCEPT ![r] = InsertAt(@, c, cur[r][c], k, m.data)]
                /\ cur' = [cur EXCEPT ![r][c] = k]
                /\ latestGsn' = [latestGsn EXCEPT ![r][c] = log[r][k].gsn]
                /\ acks' = IF alive[c]
                           THEN [acks EXCEPT ![c][r] = Append(@, log[r][k].gsn)]
                           ELSE acks
    BY StorageInsertEffect
  <2> HIDE DEF m
  <2>4. QED
    BY <2>1, <2>2, <2>3, Zenon
<1>6. OrderTypes' /\ ToStorageType' /\ ToOrderType' /\ ByesType' /\ ClientTypes'
  BY <1>1 DEF Types, OrderTypes, ToStorageType, ToOrderType, ByesType, ClientTypes
<1>7. QED
  BY <1>3, <1>5, <1>6 DEF Types

(* A farewell at a server keeps the types.                                 *)
LEMMA StorageClientFinishedTypes ==
  ASSUME Types, NEW r \in Replicas, NEW c \in Clients, StorageClientFinished(r, c)
  PROVE  Types'
<1>1. UNCHANGED <<gsnBase, epochs, phase, cuts, flushed, data, toStorage, toOrder, acks,
                  alive, assigned, consumed, reqs, reach, out, latest, response, left,
                  log, cur, latestGsn, suspect, aborted>>
  BY DEF StorageClientFinished, orderVars, clientVars
<1>2. got' \in [Replicas -> [Clients -> Nat]]
  BY FromClientTypes DEF StorageClientFinished
<1>3. ServerTypes' /\ ByesType'
  <2>1. CASE UNCHANGED <<disc, byes>>
    BY <1>1, <1>2, <2>1 DEF Types, ServerTypes, ByesType
  <2>2. CASE /\ disc' = [disc EXCEPT ![r] = @ \cup {c}]
             /\ byes' = [byes EXCEPT ![c] = @ \cup {r}]
    BY <1>1, <1>2, <2>2 DEF Types, ServerTypes, ByesType
  <2>3. QED
    BY <2>1, <2>2 DEF StorageClientFinished
<1>4. /\ OrderTypes' /\ ToStorageType' /\ ToOrderType' /\ AcksType' /\ ClientTypes'
      /\ LogTypes'
  BY <1>1 DEF Types, OrderTypes, ToStorageType, ToOrderType, AcksType, ClientTypes, LogTypes
<1>5. QED
  BY <1>3, <1>4 DEF Types

(* Every step keeps the types.                                             *)
LEMMA NextTypes ==
  ASSUME Types, [Next]_vars
  PROVE  Types'
<1>1. CASE UNCHANGED vars
  BY <1>1 DEF vars, orderVars, channelVars, clientVars, storageVars, Types, OrderTypes,
              ToStorageType, ToOrderType, AcksType, ByesType, ClientTypes, LogTypes,
              ServerTypes
<1>2. CASE Epoch
  BY <1>2, EpochTypes
<1>3. ASSUME NEW c \in Clients, OrderFailureEvent(c) \/ OrderClientFinished(c) \/ Client(c)
      PROVE  Types'
  <2>1. CASE OrderFailureEvent(c) \/ OrderClientFinished(c)
    BY <2>1, OrderEventTypes
  <2>2. CASE Client(c)
    <3>1. ASSUME NEW d \in Submitted(c) \cup {NoOp}, NEW n \in 1 .. MaxSlots,
                 SendRequest(c, d, n)
          PROVE  Types'
      BY <3>1, SendRequestTypes
    <3>2. CASE SendBye(c) \/ AllStorageFinished(c)
      BY <3>2, SendByeTypes
    <3>3. ASSUME NEW r \in Replicas, InsertAck(c, r) PROVE Types'
      BY <3>3, InsertAckTypes
    <3>4. CASE Crash(c)
      BY <3>4, CrashTypes
    <3>5. QED
      BY <2>2, <3>1, <3>2, <3>3, <3>4, Zenon DEF Client
  <2>3. QED
    BY <1>3, <2>1, <2>2
<1>4. ASSUME NEW r \in Replicas, OrderFromStorage(r) \/ ControlThread(r)
      PROVE  Types'
  <2>1. CASE OrderFromStorage(r)
    BY <2>1, OrderClientFreezeTypes, OrderClientCutTypes, OrderClientDataTypes
       DEF OrderFromStorage
  <2>2. CASE ControlThread(r)
    BY <2>2, StorageSlotsTypes, StorageFreezeTypes, StorageClientCutTypes,
       StorageClientPatchTypes, StorageClientFinalizeTypes DEF ControlThread
  <2>3. QED
    BY <1>4, <2>1, <2>2
<1>5. ASSUME NEW r \in Replicas, NEW c \in Clients,
             StorageFailureEvent(r, c) \/ ClientThread(r, c)
      PROVE  Types'
  <2>1. CASE StorageFailureEvent(r, c)
    BY <2>1, StorageFreezeTypes
  <2>2. CASE StorageInsert(r, c)
    BY <2>2, StorageInsertTypes
  <2>3. CASE StorageClientFinished(r, c)
    BY <2>3, StorageClientFinishedTypes
  <2>4. QED
    BY <1>5, <2>1, <2>2, <2>3 DEF ClientThread
<1>6. QED
  BY <1>1, <1>2, <1>3, <1>4, <1>5 DEF Next

(* All variables have their detailed types throughout, the messages in     *)
(* the channels included.                                                  *)
THEOREM TypesInvariant == Spec => []Types
<1>1. Types /\ [Next]_vars => Types'
  BY NextTypes
<1>2. QED
  BY <1>1, InitTypes, PTL DEF Spec

(* All variables have their types: no step of a client, a server or the    *)
(* ordering service applies a handler to a message it cannot read.         *)
THEOREM TypeCorrect == Spec => []TypeOK
<1>1. Types => TypeOK
  BY DEF Types, OrderTypes, ToStorageType, ToOrderType, AcksType, ByesType, ClientTypes,
         LogTypes, ServerTypes, TypeOK, Gsn, Outstanding
<1>2. QED
  BY <1>1, TypesInvariant, PTL

-----------------------------------------------------------------------------
(* Every log on its own: the entries of a client up to its current entry   *)
(* are set, the ones after it have no payload yet.                         *)
LogOK(L, cu) ==
  \A c \in Clients :
    /\ cu[c] <= Len(L)
    /\ \A k \in 1 .. Len(L) : L[k].client = c =>
         /\ k <= cu[c] => L[k].set
         /\ k > cu[c] => L[k].data = NoOp

(* What a step may do to a log L with the current entries cu: it may grow, *)
(* the current entries may move on, and the owners and GSNs of the slots,  *)
(* and all entries up to the current ones, stay as they are.               *)
Kept(L, cu, L2, cu2) ==
  /\ Len(L) <= Len(L2)
  /\ \A c \in Clients : cu[c] <= cu2[c]
  /\ \A k \in 1 .. Len(L) :
       /\ L2[k].client = L[k].client /\ L2[k].gsn = L[k].gsn
       /\ k <= cu[L[k].client] => L2[k] = L[k]

LogInv == \A r \in Replicas : LogOK(log[r], cur[r])

KeptAll == \A r \in Replicas : Kept(log[r], cur[r], log'[r], cur'[r])

(* Slots are appended.                                                     *)
LEMMA AppendKeeps ==
  ASSUME NEW L \in Seq(Entry), NEW cu \in [Clients -> Nat], LogOK(L, cu),
         NEW m, m.start \in Nat, m.owners \in Seq(Clients)
  PROVE  LogOK(L \o NewSlots(m), cu) /\ Kept(L, cu, L \o NewSlots(m), cu)
<1>1. PICK J \in Seq(Entry) : J = L \o NewSlots(m)
  BY NewSlotsEffect
<1>2. /\ Len(J) = Len(L) + Len(m.owners)
      /\ \A k \in 1 .. Len(L) : J[k] = L[k]
      /\ \A k \in 1 .. Len(m.owners) : J[Len(L) + k].data = NoOp
  <2>1. /\ Len(J) = Len(L) + Len(m.owners)
        /\ \A k \in 1 .. Len(L) : J[k] = L[k]
        /\ \A k \in 1 .. Len(m.owners) :
             J[Len(L) + k] = NewEntry(m.start + k - 1, m.owners[k])
    BY <1>1, NewSlotsEffect, SMTT(30)
  <2>2. \A g, c : NewEntry(g, c).data = NoOp
    BY DEF NewEntry
  <2>3. QED
    BY <2>1, <2>2
<1>3. Len(L) \in Nat /\ Len(m.owners) \in Nat
  OBVIOUS
<1>4. LogOK(J, cu)
  <2> SUFFICES ASSUME NEW c \in Clients
               PROVE  /\ cu[c] <= Len(J)
                      /\ \A k \in 1 .. Len(J) : J[k].client = c =>
                           /\ k <= cu[c] => J[k].set
                           /\ k > cu[c] => J[k].data = NoOp
    BY DEF LogOK
  <2>1. cu[c] <= Len(L) /\ cu[c] \in Nat
    BY DEF LogOK
  <2>2. ASSUME NEW k \in 1 .. Len(J), J[k].client = c
        PROVE  /\ k <= cu[c] => J[k].set
               /\ k > cu[c] => J[k].data = NoOp
    <3>1. CASE k <= Len(L)
      <4>1. k \in 1 .. Len(L)
        BY <1>3, <3>1
      <4>2. J[k] = L[k]
        BY <1>2, <4>1
      <4>3. QED
        BY <2>2, <4>1, <4>2 DEF LogOK
    <3>2. CASE k > Len(L)
      <4>1. k - Len(L) \in 1 .. Len(m.owners) /\ k = Len(L) + (k - Len(L))
        BY <1>2, <1>3, <3>2
      <4>2. J[k].data = NoOp
        BY <1>2, <4>1
      <4>3. ~(k <= cu[c])
        BY <1>3, <2>1, <3>2
      <4>4. QED
        BY <4>2, <4>3
    <3>3. QED
      BY <1>3, <3>1, <3>2
  <2>3. QED
    BY <1>2, <1>3, <2>1, <2>2
<1>5. Kept(L, cu, J, cu)
  BY <1>2, <1>3 DEF Kept
<1>6. QED
  BY <1>1, <1>4, <1>5

(* A payload is inserted.                                                  *)
LEMMA InsertKeeps ==
  ASSUME NEW L \in Seq(Entry), NEW cu \in [Clients -> Nat], LogOK(L, cu),
         NEW c \in Clients, NEW k \in After(L, c, cu[c]), NEW d \in Payloads \cup {NoOp}
  PROVE  /\ LogOK(InsertAt(L, c, cu[c], k, d), [cu EXCEPT ![c] = k])
         /\ Kept(L, cu, InsertAt(L, c, cu[c], k, d), [cu EXCEPT ![c] = k])
<1>1. PICK i \in Nat : i = cu[c]
  OBVIOUS
<1>2. PICK J \in Seq(Entry) : J = InsertAt(L, c, i, k, d)
  BY <1>1, InsertAtEffect
<1>3. PICK cu2 \in [Clients -> Nat] :
        /\ cu2 = [cu EXCEPT ![c] = k]
        /\ cu2[c] = k /\ \A x \in Clients : x # c => cu2[x] = cu[x]
  <2>1. k \in Nat
    BY AfterType
  <2>2. /\ [cu EXCEPT ![c] = k] \in [Clients -> Nat]
        /\ [cu EXCEPT ![c] = k][c] = k
        /\ \A x \in Clients : x # c => [cu EXCEPT ![c] = k][x] = cu[x]
    BY <2>1
  <2>3. QED
    BY <2>2, Zenon
<1>4. k \in 1 .. Len(L) /\ k > i /\ L[k].client = c
  BY <1>1, AfterType
<1>0. Inserted(L, J, c, i, k, d)
  BY <1>1, <1>2, InsertAtEffect
<1>5. /\ Len(J) = Len(L)
      /\ \A m \in 1 .. Len(L) : J[m].client = L[m].client /\ J[m].gsn = L[m].gsn
      /\ \A m \in 1 .. Len(L) : m <= i \/ m > k \/ L[m].client # c => J[m] = L[m]
  BY <1>0, Zenon DEF Inserted
<1>6. /\ Len(L) \in Nat
      /\ \A m \in 1 .. Len(L) : m > i /\ m < k /\ L[m].client = c =>
           J[m] = [gsn |-> L[m].gsn, client |-> c, set |-> TRUE, data |-> L[m].data]
      /\ J[k] = [gsn |-> L[k].gsn, client |-> c, set |-> TRUE, data |-> d]
  BY <1>0 DEF Inserted
<1>7. LogOK(J, cu2)
  <2> SUFFICES ASSUME NEW x \in Clients
               PROVE  /\ cu2[x] <= Len(J)
                      /\ \A m \in 1 .. Len(J) : J[m].client = x =>
                           /\ m <= cu2[x] => J[m].set
                           /\ m > cu2[x] => J[m].data = NoOp
    BY DEF LogOK
  <2>1. CASE x # c
    <3>1. /\ cu[x] <= Len(L) /\ cu2[x] = cu[x]
          /\ \A m \in 1 .. Len(L) : L[m].client = x =>
               /\ m <= cu[x] => L[m].set
               /\ m > cu[x] => L[m].data = NoOp
      BY <1>3, <2>1 DEF LogOK
    <3>2. \A m \in 1 .. Len(L) : J[m].client = x => J[m] = L[m] /\ L[m].client = x
      BY <1>5, <2>1
    <3>3. QED
      BY <1>5, <3>1, <3>2
  <2>2. CASE x = c
    <3>1. /\ cu2[x] = k /\ i <= Len(L)
          /\ \A m \in 1 .. Len(L) : L[m].client = c =>
               /\ m <= i => L[m].set
               /\ m > i => L[m].data = NoOp
      BY <1>1, <1>3, <2>2 DEF LogOK
    <3>2. ASSUME NEW m \in 1 .. Len(L), J[m].client = c
          PROVE  /\ m <= k => J[m].set
                 /\ m > k => J[m].data = NoOp
      <4>1. L[m].client = c
        BY <1>5, <3>2
      <4>2. CASE m <= i
        <5>1. J[m] = L[m] /\ ~(m > k)
          BY <1>4, <1>5, <4>2
        <5>2. L[m].set
          BY <3>1, <4>1, <4>2
        <5>3. QED
          BY <5>1, <5>2
      <4>3. CASE m > i /\ m < k
        <5>2. J[m] = [gsn |-> L[m].gsn, client |-> c, set |-> TRUE, data |-> L[m].data]
          BY <1>6, <4>1, <4>3, Zenon
        <5>3. J[m].set
          BY <5>2
        <5>4. ~(m > k)
          BY <1>4, <4>3
        <5>5. QED
          BY <5>3, <5>4
      <4>4. CASE m = k
        <5>1. J[m].set
          BY <1>6, <4>4
        <5>2. ~(m > k)
          BY <1>4, <4>4
        <5>3. QED
          BY <5>1, <5>2
      <4>5. CASE m > k
        <5>1. J[m] = L[m] /\ m > i /\ ~(m <= k)
          BY <1>4, <1>5, <4>5
        <5>2. L[m].data = NoOp
          BY <3>1, <4>1, <5>1
        <5>3. QED
          BY <5>1, <5>2
      <4>6. QED
        BY <1>4, <4>2, <4>3, <4>4, <4>5
    <3>3. k <= Len(J)
      BY <1>4, <1>5
    <3>4. QED
      BY <1>5, <2>2, <3>1, <3>2, <3>3
  <2>3. QED
    BY <2>1, <2>2
<1>8. Kept(L, cu, J, cu2)
  <2>1. \A x \in Clients : cu[x] <= cu2[x]
    BY <1>1, <1>3, <1>4
  <2>2. ASSUME NEW m \in 1 .. Len(L), m <= cu[L[m].client] PROVE J[m] = L[m]
    <3>1. CASE L[m].client = c
      BY <1>1, <1>5, <2>2, <3>1
    <3>2. CASE L[m].client # c
      BY <1>5, <3>2
    <3>3. QED
      BY <3>1, <3>2
  <2>3. QED
    BY <1>5, <1>6, <2>1, <2>2 DEF Kept
<1>9. QED
  BY <1>1, <1>2, <1>3, <1>7, <1>8

(* The slots of a client are closed.                                       *)
LEMMA CloseKeeps ==
  ASSUME NEW L \in Seq(Entry), NEW cu \in [Clients -> Nat], LogOK(L, cu),
         NEW c \in Clients
  PROVE  /\ LogOK(CloseAfter(L, c, cu[c]), [cu EXCEPT ![c] = LastOf(L, c, @)])
         /\ Kept(L, cu, CloseAfter(L, c, cu[c]), [cu EXCEPT ![c] = LastOf(L, c, @)])
<1>1. PICK i \in Nat : i = cu[c]
  OBVIOUS
<1>2. PICK J \in Seq(Entry) : J = CloseAfter(L, c, i)
  BY <1>1, CloseAfterEffect
<1>3. PICK k \in Nat : k = LastOf(L, c, i)
  BY <1>1, LastOfFound
<1>4. k >= i /\ (k = i \/ k \in 1 .. Len(L)) /\ \A m \in After(L, c, i) : m <= k
  BY <1>1, <1>3, LastOfFound
<1>5. PICK cu2 \in [Clients -> Nat] :
        /\ cu2 = [cu EXCEPT ![c] = k]
        /\ cu2[c] = k /\ \A x \in Clients : x # c => cu2[x] = cu[x]
  <2>1. /\ [cu EXCEPT ![c] = k] \in [Clients -> Nat]
        /\ [cu EXCEPT ![c] = k][c] = k
        /\ \A x \in Clients : x # c => [cu EXCEPT ![c] = k][x] = cu[x]
    OBVIOUS
  <2>2. QED
    BY <2>1, Zenon
<1>6. /\ Len(J) = Len(L)
      /\ \A m \in 1 .. Len(L) :
           /\ J[m].client = L[m].client /\ J[m].gsn = L[m].gsn /\ J[m].data = L[m].data
           /\ m \in After(L, c, i) => J[m].set
           /\ m \notin After(L, c, i) => J[m] = L[m]
  BY <1>1, <1>2, CloseAfterEffect
<1>7. \A m : m \in After(L, c, i) <=> m \in 1 .. Len(L) /\ m > i /\ L[m].client = c
  BY <1>1, AfterType
<1>8. LogOK(J, cu2)
  <2> SUFFICES ASSUME NEW x \in Clients
               PROVE  /\ cu2[x] <= Len(J)
                      /\ \A m \in 1 .. Len(J) : J[m].client = x =>
                           /\ m <= cu2[x] => J[m].set
                           /\ m > cu2[x] => J[m].data = NoOp
    BY DEF LogOK
  <2>1. CASE x # c
    <3>1. /\ cu[x] <= Len(L) /\ cu2[x] = cu[x]
          /\ \A m \in 1 .. Len(L) : L[m].client = x =>
               /\ m <= cu[x] => L[m].set
               /\ m > cu[x] => L[m].data = NoOp
      BY <1>5, <2>1 DEF LogOK
    <3>2. \A m \in 1 .. Len(L) : J[m].client = x => J[m] = L[m] /\ L[m].client = x
      BY <1>6, <1>7, <2>1
    <3>3. QED
      BY <1>6, <3>1, <3>2
  <2>2. CASE x = c
    <3>1. /\ cu2[x] = k /\ i <= Len(L)
          /\ \A m \in 1 .. Len(L) : L[m].client = c =>
               /\ m <= i => L[m].set
               /\ m > i => L[m].data = NoOp
      BY <1>1, <1>5, <2>2 DEF LogOK
    <3>2. ASSUME NEW m \in 1 .. Len(L), J[m].client = c
          PROVE  /\ m <= k => J[m].set
                 /\ m > k => J[m].data = NoOp
      <4>1. L[m].client = c
        BY <1>6, <3>2
      <4>2. CASE m <= i
        <5>1. m \notin After(L, c, i)
          BY <1>7, <4>2
        <5>2. J[m] = L[m] /\ L[m].set /\ ~(m > k)
          BY <1>4, <1>6, <3>1, <4>1, <4>2, <5>1
        <5>3. QED
          BY <5>2
      <4>3. CASE m > i
        <5>1. m \in After(L, c, i)
          BY <1>7, <4>1, <4>3
        <5>2. J[m].set /\ m <= k
          BY <1>4, <1>6, <5>1
        <5>3. QED
          BY <5>2
      <4>4. QED
        BY <4>2, <4>3
    <3>3. k <= Len(J)
      BY <1>4, <1>6, <3>1
    <3>4. QED
      BY <1>6, <2>2, <3>1, <3>2, <3>3
  <2>3. QED
    BY <2>1, <2>2
<1>9. Kept(L, cu, J, cu2)
  <2>1. \A x \in Clients : cu[x] <= cu2[x]
    BY <1>1, <1>4, <1>5
  <2>2. ASSUME NEW m \in 1 .. Len(L), m <= cu[L[m].client] PROVE J[m] = L[m]
    <3>1. m \notin After(L, c, i)
      BY <1>1, <1>7, <2>2
    <3>2. QED
      BY <1>6, <3>1
  <2>3. QED
    BY <1>6, <2>1, <2>2 DEF Kept
<1>10. QED
  BY <1>1, <1>2, <1>3, <1>5, <1>8, <1>9

(* A step that leaves the logs alone, and one that changes a single log.   *)
LEMMA LogsUnchanged ==
  ASSUME Types, LogInv, UNCHANGED <<log, cur>>
  PROVE  LogInv' /\ KeptAll
<1>1. \A r \in Replicas : /\ log[r] \in Seq(Entry) /\ cur[r] \in [Clients -> Nat]
                          /\ LogOK(log[r], cur[r])
                          /\ log'[r] = log[r] /\ cur'[r] = cur[r]
  BY DEF Types, LogTypes, LogInv
<1>2. ASSUME NEW L \in Seq(Entry), NEW cu \in [Clients -> Nat] PROVE Kept(L, cu, L, cu)
  BY DEF Kept
<1>3. QED
  BY <1>1, <1>2, Zenon DEF LogInv, KeptAll

(* When one server changes its log soundly, all logs stay sound and keep   *)
(* what was final in them.                                                 *)
LEMMA OneLogChanged ==
  ASSUME Types, LogInv, NEW r \in Replicas, NEW L, NEW cu,
         log' = [log EXCEPT ![r] = L], cur' = [cur EXCEPT ![r] = cu],
         LogOK(L, cu), Kept(log[r], cur[r], L, cu)
  PROVE  LogInv' /\ KeptAll
<1>1. \A s \in Replicas : /\ log[s] \in Seq(Entry) /\ cur[s] \in [Clients -> Nat]
                          /\ LogOK(log[s], cur[s])
  BY DEF Types, LogTypes, LogInv
<1>2. ASSUME NEW M \in Seq(Entry), NEW v \in [Clients -> Nat] PROVE Kept(M, v, M, v)
  BY DEF Kept
<1>3. \A s \in Replicas : IF s = r THEN log'[s] = L /\ cur'[s] = cu
                          ELSE log'[s] = log[s] /\ cur'[s] = cur[s]
  BY DEF Types, LogTypes
<1>4. ASSUME NEW s \in Replicas
      PROVE  LogOK(log'[s], cur'[s]) /\ Kept(log[s], cur[s], log'[s], cur'[s])
  <2>1. CASE s = r
    BY <1>3, <2>1, Zenon
  <2>2. CASE s # r
    <3>1. Kept(log[s], cur[s], log[s], cur[s])
      BY <1>1, <1>2
    <3>2. QED
      BY <1>1, <1>3, <2>2, <3>1, Zenon
  <2>3. QED
    BY <2>1, <2>2
<1>5. QED
  BY <1>4, Zenon DEF LogInv, KeptAll

(* The steps that change a log.                                            *)
LogStep(r) ==
  \/ StorageSlots(r) \/ StorageClientPatch(r) \/ StorageClientFinalize(r)
  \/ \E c \in Clients : StorageInsert(r, c)

(* The logs change only by the four handlers that LogStep lists, at one    *)
(* server at a time.                                                       *)
LEMMA LogActions ==
  ASSUME [Next]_vars
  PROVE  UNCHANGED <<log, cur>> \/ \E r \in Replicas : LogStep(r)
<1>1. CASE UNCHANGED vars
  BY <1>1 DEF vars, storageVars
<1>2. CASE Epoch
  BY <1>2 DEF Epoch, storageVars
<1>3. ASSUME NEW c \in Clients, OrderFailureEvent(c) \/ OrderClientFinished(c) \/ Client(c)
      PROVE  UNCHANGED <<log, cur>>
  BY <1>3 DEF OrderFailureEvent, OrderClientFinished, Client, SendRequest, SendBye,
              InsertAck, AllStorageFinished, Crash, storageVars
<1>4. ASSUME NEW r \in Replicas, OrderFromStorage(r)
      PROVE  UNCHANGED <<log, cur>>
  BY <1>4 DEF OrderFromStorage, OrderClientFreeze, OrderClientCut, OrderClientData,
              storageVars
<1>5. ASSUME NEW r \in Replicas, StorageClientFreeze(r) \/ StorageClientCut(r)
      PROVE  UNCHANGED <<log, cur>>
  BY <1>5 DEF StorageClientFreeze, StorageClientCut, storageVars
<1>6. ASSUME NEW r \in Replicas, NEW c \in Clients,
             StorageFailureEvent(r, c) \/ StorageClientFinished(r, c)
      PROVE  UNCHANGED <<log, cur>>
  BY <1>6 DEF StorageFailureEvent, StorageClientFinished
<1>7. QED
  BY <1>1, <1>2, <1>3, <1>4, <1>5, <1>6, Zenon
     DEF Next, ControlThread, ClientThread, LogStep

(* Every step keeps the invariant of the logs and what is settled in them. *)
LEMMA LogStepKeeps ==
  ASSUME Types, LogInv, NEW r \in Replicas, LogStep(r)
  PROVE  LogInv' /\ KeptAll
<1>1. log[r] \in Seq(Entry) /\ cur[r] \in [Clients -> Nat] /\ LogOK(log[r], cur[r])
  BY DEF Types, LogTypes, LogInv
<1>2. CASE StorageSlots(r)
  <2> DEFINE m == Head(toStorage[r])
  <2>1. m \in Orders /\ m.type = "slots"
    BY <1>2, FromOrderTypes DEF StorageSlots
  <2>2. m.start \in Nat /\ m.owners \in Seq(Clients)
    BY <2>1 DEF Orders
  <2>3. log' = [log EXCEPT ![r] = log[r] \o NewSlots(m)]
    BY <1>2, Zenon DEF StorageSlots, NewSlots
  <2>4. cur' = [cur EXCEPT ![r] = cur[r]]
    BY <1>2 DEF StorageSlots, Types, LogTypes
  <2> HIDE DEF m
  <2>5. /\ LogOK(log[r] \o NewSlots(m), cur[r])
        /\ Kept(log[r], cur[r], log[r] \o NewSlots(m), cur[r])
    BY <1>1, <2>2, AppendKeeps
  <2>6. QED
    BY <2>3, <2>4, <2>5, OneLogChanged
<1>3. ASSUME NEW c \in Clients, NEW d \in Payloads \cup {NoOp},
             NEW k \in After(log[r], c, cur[r][c]),
             log' = [log EXCEPT ![r] = InsertAt(@, c, cur[r][c], k, d)],
             cur' = [cur EXCEPT ![r][c] = k]
      PROVE  LogInv' /\ KeptAll
  <2>1. /\ LogOK(InsertAt(log[r], c, cur[r][c], k, d), [cur[r] EXCEPT ![c] = k])
        /\ Kept(log[r], cur[r], InsertAt(log[r], c, cur[r][c], k, d),
                [cur[r] EXCEPT ![c] = k])
    BY <1>1, InsertKeeps
  <2>2. /\ log' = [log EXCEPT ![r] = InsertAt(log[r], c, cur[r][c], k, d)]
        /\ cur' = [cur EXCEPT ![r] = [cur[r] EXCEPT ![c] = k]]
    BY <1>3
  <2>3. QED
    BY <2>1, <2>2, OneLogChanged
<1>4. CASE StorageClientPatch(r)
  <2> DEFINE m == Head(toStorage[r])
  <2>1. m \in Orders /\ m.type = "patch" /\ m.client \in Clients
    BY <1>4, FromOrderTypes DEF StorageClientPatch
  <2>2. m.gsn \in Nat /\ m.data \in Payloads \cup {NoOp}
    BY <2>1 DEF Orders
  <2>3. CASE PositionInsert(r, m.client, m.data, m.gsn)
    <3> HIDE DEF m
    <3>1. LogTypes
      BY DEF Types
    <3>2. PICK c \in Clients, d \in Payloads \cup {NoOp}, n \in Nat :
            c = m.client /\ d = m.data /\ n = m.gsn
      BY <2>1, <2>2
    <3>3. PositionInsert(r, c, d, n)
      BY <2>3, <3>2
    <3>4. \/ UNCHANGED <<log, cur>>
          \/ \E k \in After(log[r], c, cur[r][c]) :
               /\ log' = [log EXCEPT ![r] = InsertAt(@, c, cur[r][c], k, d)]
               /\ cur' = [cur EXCEPT ![r][c] = k]
      BY <3>1, <3>3, PositionInsertEffect
    <3>5. QED
      BY <1>3, <3>4, LogsUnchanged
  <2>4. CASE UNCHANGED <<log, cur>>
    BY <2>4, LogsUnchanged
  <2>5. QED
    BY <1>4, <2>3, <2>4 DEF StorageClientPatch
<1>5. CASE StorageClientFinalize(r)
  <2> DEFINE c == Head(toStorage[r]).client
  <2>1. c \in Clients
    BY <1>5, FromOrderTypes DEF StorageClientFinalize
  <2>2. /\ log' = [log EXCEPT ![r] = CloseAfter(log[r], c, cur[r][c])]
        /\ cur' = [cur EXCEPT ![r] = [cur[r] EXCEPT ![c] = LastOf(log[r], c, @)]]
    BY <1>5 DEF StorageClientFinalize
  <2> HIDE DEF c
  <2>3. /\ LogOK(CloseAfter(log[r], c, cur[r][c]),
                 [cur[r] EXCEPT ![c] = LastOf(log[r], c, @)])
        /\ Kept(log[r], cur[r], CloseAfter(log[r], c, cur[r][c]),
                [cur[r] EXCEPT ![c] = LastOf(log[r], c, @)])
    BY <1>1, <2>1, CloseKeeps
  <2>4. QED
    BY <2>2, <2>3, OneLogChanged
<1>6. ASSUME NEW c \in Clients, StorageInsert(r, c)
      PROVE  LogInv' /\ KeptAll
  <2> DEFINE m == reqs[c][got[r][c] + 1]
  <2>1. /\ m.data \in Payloads \cup {NoOp}
        /\ \/ UNCHANGED <<log, cur>>
           \/ \E k \in After(log[r], c, cur[r][c]) :
                /\ log' = [log EXCEPT ![r] = InsertAt(@, c, cur[r][c], k, m.data)]
                /\ cur' = [cur EXCEPT ![r][c] = k]
    BY <1>6, StorageInsertEffect
  <2> HIDE DEF m
  <2>2. QED
    BY <1>3, <2>1, LogsUnchanged
<1>7. QED
  BY <1>2, <1>4, <1>5, <1>6 DEF LogStep

(* Every step keeps the logs sound and what is final in them.              *)
LEMMA NextKeeps ==
  ASSUME Types, LogInv, [Next]_vars
  PROVE  LogInv' /\ KeptAll
BY LogActions, LogsUnchanged, LogStepKeeps

(* Initially the logs are empty.                                           *)
LEMMA InitLogInv == Init => LogInv
<1> SUFFICES ASSUME Init, NEW r \in Replicas PROVE LogOK(log[r], cur[r])
  BY DEF LogInv
<1>1. log[r] = << >> /\ cur[r] = [c \in Clients |-> 0]
  BY DEF Init
<1>2. QED
  BY <1>1 DEF LogOK

-----------------------------------------------------------------------------
(* The recovery of a client.                                               *)

(* Replica r holds the payload for good: in an entry that the client has   *)
(* passed.                                                                 *)
Written(r, c, g, d) ==
  \E k \in 1 .. Len(log[r]) :
    k <= cur[r][c] /\ log[r][k] = [gsn |-> g, client |-> c, set |-> TRUE, data |-> d]

(* What a step never takes back: what is settled in the logs, that a       *)
(* server has disconnected a client, and the latest GSN of a client that   *)
(* is disconnected.                                                        *)
Settled ==
  /\ KeptAll
  /\ \A r \in Replicas : \A c \in disc[r] :
       c \in disc'[r] /\ latestGsn'[r][c] = latestGsn[r][c]

(* What a server has settled about a client it has disconnected stays as   *)
(* it is.                                                                  *)
LEMMA NextSettled ==
  ASSUME Types, LogInv, [Next]_vars
  PROVE  Settled
<1>1. KeptAll
  BY NextKeeps
<1> DEFINE P == \A r \in Replicas : \A c \in disc[r] :
                  c \in disc'[r] /\ latestGsn'[r][c] = latestGsn[r][c]
<1> SUFFICES P
  BY <1>1 DEF Settled
<1>2. CASE UNCHANGED <<disc, latestGsn>>
  BY <1>2
<1>3. ASSUME NEW r \in Replicas, NEW c \in Clients, UNCHANGED latestGsn,
             disc' = [disc EXCEPT ![r] = @ \cup {c}]
      PROVE  P
  BY <1>3 DEF Types, ServerTypes
<1>4. ASSUME NEW r \in Replicas, StorageClientFreeze(r)
      PROVE  P
  <2>1. Head(toStorage[r]).client \in Clients
    BY <1>4, FromOrderTypes DEF StorageClientFreeze
  <2>2. /\ UNCHANGED latestGsn
        /\ disc' = [disc EXCEPT ![r] = @ \cup {Head(toStorage[r]).client}]
    BY <1>4 DEF StorageClientFreeze
  <2>3. QED
    BY <1>3, <2>1, <2>2
<1>5. ASSUME NEW r \in Replicas, NEW c \in Clients, StorageInsert(r, c)
      PROVE  P
  <2>1. UNCHANGED disc
    BY <1>5 DEF StorageInsert
  <2>2. \/ UNCHANGED latestGsn
        \/ c \notin disc[r] /\ \E g : latestGsn' = [latestGsn EXCEPT ![r][c] = g]
    BY <1>5, StorageInsertEffect, SMTT(30)
  <2>3. CASE UNCHANGED latestGsn
    BY <1>2, <2>1, <2>3
  <2>4. ASSUME NEW g, latestGsn' = [latestGsn EXCEPT ![r][c] = g], c \notin disc[r]
        PROVE  P
    BY <2>1, <2>4 DEF Types, LogTypes, ServerTypes
  <2>5. QED
    BY <2>2, <2>3, <2>4
<1>6. CASE UNCHANGED vars
  BY <1>2, <1>6 DEF vars, storageVars
<1>7. CASE Epoch
  BY <1>2, <1>7 DEF Epoch, storageVars
<1>8. ASSUME NEW c \in Clients, OrderFailureEvent(c) \/ OrderClientFinished(c) \/ Client(c)
      PROVE  UNCHANGED <<disc, latestGsn>>
  BY <1>8 DEF OrderFailureEvent, OrderClientFinished, Client, SendRequest, SendBye,
              InsertAck, AllStorageFinished, Crash, storageVars
<1>9. ASSUME NEW r \in Replicas, OrderFromStorage(r)
      PROVE  UNCHANGED <<disc, latestGsn>>
  BY <1>9 DEF OrderFromStorage, OrderClientFreeze, OrderClientCut, OrderClientData,
              storageVars
<1>10. ASSUME NEW r \in Replicas,
              \/ StorageSlots(r) \/ StorageClientCut(r) \/ StorageClientPatch(r)
              \/ StorageClientFinalize(r)
       PROVE  UNCHANGED <<disc, latestGsn>>
  BY <1>10 DEF StorageSlots, StorageClientCut, StorageClientPatch, StorageClientFinalize,
               storageVars
<1>11. ASSUME NEW r \in Replicas, NEW c \in Clients, StorageFailureEvent(r, c)
       PROVE  P
  BY <1>3, <1>11 DEF StorageFailureEvent
<1>12. ASSUME NEW r \in Replicas, NEW c \in Clients, StorageClientFinished(r, c)
       PROVE  P
  <2>1. UNCHANGED latestGsn
    BY <1>12 DEF StorageClientFinished
  <2>2. UNCHANGED disc \/ disc' = [disc EXCEPT ![r] = @ \cup {c}]
    BY <1>12 DEF StorageClientFinished
  <2>3. QED
    BY <1>2, <1>3, <2>1, <2>2
<1> HIDE DEF P
<1>13. QED
  BY <1>2, <1>4, <1>5, <1>6, <1>7, <1>8, <1>9, <1>10, <1>11, <1>12, Zenon
     DEF Next, ControlThread, ClientThread

(* What is written for good stays written.                                 *)
LEMMA WrittenStays ==
  ASSUME Types, Types', Settled, NEW r \in Replicas, NEW c \in Clients, NEW g, NEW d,
         Written(r, c, g, d)
  PROVE  Written(r, c, g, d)'
<1>1. PICK k \in 1 .. Len(log[r]) :
        /\ k <= cur[r][c]
        /\ log[r][k] = [gsn |-> g, client |-> c, set |-> TRUE, data |-> d]
  BY DEF Written
<1>2. /\ Len(log[r]) <= Len(log'[r]) /\ cur[r][c] <= cur'[r][c]
      /\ k <= cur[r][log[r][k].client] => log'[r][k] = log[r][k]
  BY DEF Settled, KeptAll, Kept
<1>3. log[r][k].client = c
  BY <1>1
<1>4. log'[r][k] = [gsn |-> g, client |-> c, set |-> TRUE, data |-> d]
  BY <1>1, <1>2, <1>3, Zenon
<1>5. log'[r] \in Seq(Entry) /\ log[r] \in Seq(Entry)
      /\ cur[r][c] \in Nat /\ cur'[r][c] \in Nat
  BY DEF Types, LogTypes
<1>6. QED
  BY <1>1, <1>2, <1>4, <1>5 DEF Written

(* The messages of replica r that the ordering service may rely on: a cut  *)
(* is final, and data is written at its GSN.                               *)
Sound(r) ==
  {m \in Reports :
     /\ m.type = "cut" => m.client \in disc[r] /\ m.gsn = latestGsn[r][m.client]
     /\ m.type = "data" /\ m.gsn # NoGsn => Written(r, m.client, m.gsn, m.data)}

(* The messages to replica r that it may get about a client: everything    *)
(* after the freeze comes when it has disconnected the client.             *)
Directed(r) ==
  {m \in Orders : m.type \in {"cut", "patch", "finalize"} => m.client \in disc[r]}

ReportsSound == \A r \in Replicas : toOrder[r] \in Seq(Sound(r))
OrdersDirected == \A r \in Replicas : toStorage[r] \in Seq(Directed(r))

(* The cuts of all servers are known before data is requested.             *)
RequestedAfterCuts ==
  \A c \in Clients : phase[c] = "requested" => DOMAIN cuts[c] = Replicas

(* A client says farewell to the ordering service when all servers have    *)
(* disconnected it.                                                        *)
FarewellsOrdered ==
  \A c \in Clients :
    /\ \A r \in byes[c] : c \in disc[r]
    /\ left[c] = "sent" => byes[c] = Replicas

DataWritten ==
  \A c \in Clients : \A g \in DOMAIN data[c] :
    \E r \in Replicas : Written(r, c, g, data[c][g])

RecoveryInv ==
  /\ LogInv /\ ReportsSound /\ OrdersDirected /\ CutIsFinal /\ FrozenBeforeGone
  /\ RequestedAfterCuts /\ FarewellsOrdered /\ DataWritten

(* What is sound or directed stays so.                                     *)
LEMMA SoundStays ==
  ASSUME Types, Types', Settled, NEW r \in Replicas
  PROVE  Sound(r) \subseteq Sound(r)' /\ Directed(r) \subseteq Directed(r)'
<1>1. ASSUME NEW m \in Sound(r) PROVE m \in Sound(r)'
  <2>1. m \in Reports /\ m.client \in Clients
    BY DEF Sound, Reports
  <2>2. m.type = "cut" => m.client \in disc'[r] /\ m.gsn = latestGsn'[r][m.client]
    BY DEF Sound, Settled
  <2>3. ASSUME m.type = "data", m.gsn # NoGsn
        PROVE  Written(r, m.client, m.gsn, m.data)'
    <3>1. Written(r, m.client, m.gsn, m.data)
      BY <2>3 DEF Sound
    <3>2. QED
      BY <2>1, <3>1, WrittenStays
  <2>4. QED
    BY <2>1, <2>2, <2>3 DEF Sound
<1>2. ASSUME NEW m \in Directed(r) PROVE m \in Directed(r)'
  BY <1>2 DEF Directed, Settled
<1>3. QED
  BY <1>1, <1>2

(* Initially no client is being recovered.                                 *)
LEMMA InitRecovery == Init => RecoveryInv
<1> SUFFICES ASSUME Init PROVE RecoveryInv
  OBVIOUS
<1>1. ReportsSound /\ OrdersDirected
  BY DEF Init, ReportsSound, OrdersDirected
<1>2. \A c \in Clients : cuts[c] = EmptyMap /\ data[c] = EmptyMap /\ phase[c] = "active"
                         /\ byes[c] = {} /\ left[c] = "no"
  BY DEF Init
<1>3. DOMAIN EmptyMap = {}
  BY DEF EmptyMap
<1>4. CutIsFinal /\ FrozenBeforeGone /\ RequestedAfterCuts /\ FarewellsOrdered /\ DataWritten
  BY <1>2, <1>3 DEF CutIsFinal, FrozenBeforeGone, RequestedAfterCuts, FarewellsOrdered,
                    DataWritten
<1>5. QED
  BY <1>1, <1>4, InitLogInv DEF RecoveryInv

(* The channels to the ordering service.                                   *)
LEMMA NextReportsSound ==
  ASSUME Types, Types', Settled, ReportsSound, LogInv, [Next]_vars
  PROVE  ReportsSound'
<1>1. \A r \in Replicas : toOrder[r] \in Seq(Sound(r)')
  BY SoundStays, SeqMonotonic DEF ReportsSound
<1>2. CASE UNCHANGED toOrder
  BY <1>1, <1>2 DEF ReportsSound
<1>3. ASSUME NEW r \in Replicas, NEW ms \in Seq(Sound(r)'), SendOrder(r, ms)
      PROVE  ReportsSound'
  <2>1. toOrder[r] \o ms \in Seq(Sound(r)')
    BY <1>1, ConcatProperties
  <2>2. \A s \in Replicas : toOrder'[s] = IF s = r THEN toOrder[r] \o ms ELSE toOrder[s]
    BY <1>3 DEF SendOrder, Types, ToOrderType
  <2>3. QED
    BY <1>1, <2>1, <2>2 DEF ReportsSound
<1>4. ASSUME NEW r \in Replicas, NEW type, FromStorage(r, type)
      PROVE  ReportsSound'
  <2>1. Tail(toOrder[r]) \in Seq(Sound(r)')
    BY <1>1, <1>4, HeadTailProperties DEF FromStorage
  <2>2. \A s \in Replicas : toOrder'[s] = IF s = r THEN Tail(toOrder[r]) ELSE toOrder[s]
    BY <1>4 DEF FromStorage, Types, ToOrderType
  <2>3. QED
    BY <1>1, <2>1, <2>2 DEF ReportsSound
<1>5. ASSUME NEW r \in Replicas, OrderFromStorage(r) PROVE ReportsSound'
  BY <1>4, <1>5 DEF OrderFromStorage, OrderClientFreeze, OrderClientCut, OrderClientData
<1>6. ASSUME NEW r \in Replicas, NEW c \in Clients, StorageFailureEvent(r, c)
      PROVE  ReportsSound'
  <2>1. <<[type |-> "freeze", client |-> c]>> \in Seq(Sound(r)')
    <3>1. [type |-> "freeze", client |-> c] \in Reports
      BY DEF Reports
    <3>2. [type |-> "freeze", client |-> c] \in Sound(r)'
      BY <3>1 DEF Sound
    <3>3. QED
      BY <3>2
  <2>2. QED
    BY <1>3, <1>6, <2>1 DEF StorageFailureEvent
<1>7. ASSUME NEW r \in Replicas, StorageClientFreeze(r)
      PROVE  ReportsSound'
  <2>1. PICK c \in Clients : c = Head(toStorage[r]).client
    BY <1>7, FromOrderTypes DEF StorageClientFreeze
  <2>2. PICK g \in Nat : g = latestGsn[r][c]
    BY DEF Types, LogTypes
  <2>3. /\ c \in disc'[r] /\ g = latestGsn'[r][c]
        /\ SendOrder(r, <<[type |-> "cut", client |-> c, gsn |-> g]>>)
    BY <1>7, <2>1, <2>2 DEF StorageClientFreeze, Types, ServerTypes
  <2>4. <<[type |-> "cut", client |-> c, gsn |-> g]>> \in Seq(Sound(r)')
    <3>1. [type |-> "cut", client |-> c, gsn |-> g] \in Reports
      BY DEF Reports
    <3>2. [type |-> "cut", client |-> c, gsn |-> g] \in Sound(r)'
      BY <2>3, <3>1 DEF Sound
    <3>3. QED
      BY <3>2
  <2>5. QED
    BY <1>3, <2>3, <2>4
<1>8. ASSUME NEW r \in Replicas, StorageClientCut(r)
      PROVE  ReportsSound'
  <2>1. FromOrder(r, "cut") /\ "cut" # "slots"
    BY <1>8, Zenon DEF StorageClientCut
  <2>2. PICK c \in Clients : c = Head(toStorage[r]).client
    BY <2>1, FromOrderTypes
  <2> DEFINE S == {EntryData(r, c, k) : k \in Reported(r)} \cup {DataMessage(c, NoGsn, NoOp)}
  <2>3. PICK ms \in Seq(S) : SendOrder(r, ms)
    BY <1>8, <2>2, StorageClientCutEffect, Zenon
  <2>4. S \subseteq Sound(r)'
    <3>1. ASSUME NEW k \in Reported(r) PROVE EntryData(r, c, k) \in Sound(r)
      <4>1. PICK e \in Entry : e = log[r][k]
        BY ReportedEntries
      <4>2. /\ k \in 1 .. Len(log[r]) /\ k <= cur[r][c]
            /\ e.client = c /\ e.gsn \in Nat /\ e.data \in Payloads
        BY <2>2, <4>1, ReportedEntries
      <4>3. e.set
        BY <4>1, <4>2 DEF LogInv, LogOK
      <4>4. e = [gsn |-> e.gsn, client |-> e.client, set |-> TRUE, data |-> e.data]
        BY <4>3, SetEntry
      <4>5. log[r][k] = [gsn |-> e.gsn, client |-> c, set |-> TRUE, data |-> e.data]
        BY <4>1, <4>2, <4>4, Zenon
      <4>6. Written(r, c, e.gsn, e.data)
        BY <4>2, <4>5, Zenon DEF Written
      <4>7. EntryData(r, c, k) =
              [type |-> "data", client |-> c, gsn |-> e.gsn, data |-> e.data]
        BY <4>1, Zenon DEF EntryData, DataMessage
      <4>8. [type |-> "data", client |-> c, gsn |-> e.gsn, data |-> e.data] \in Reports
        BY <4>2 DEF Reports
      <4>9. [type |-> "data", client |-> c, gsn |-> e.gsn, data |-> e.data] \in Sound(r)
        BY <4>6, <4>8 DEF Sound
      <4>10. QED
        BY <4>7, <4>9, Zenon
    <3>2. DataMessage(c, NoGsn, NoOp) \in Sound(r)
      <4>1. DataMessage(c, NoGsn, NoOp) \in Reports
        BY DEF DataMessage, Reports
      <4>2. QED
        BY <4>1 DEF DataMessage, Sound
    <3>3. QED
      BY <3>1, <3>2, SoundStays
  <2> HIDE DEF S
  <2>5. ms \in Seq(Sound(r)')
    BY <2>3, <2>4, SeqMonotonic
  <2>6. QED
    BY <1>3, <2>3, <2>5
<1>9. CASE UNCHANGED vars
  BY <1>2, <1>9 DEF vars, channelVars
<1>10. CASE Epoch
  BY <1>2, <1>10 DEF Epoch
<1>11. ASSUME NEW c \in Clients, OrderFailureEvent(c) \/ OrderClientFinished(c) \/ Client(c)
       PROVE  UNCHANGED toOrder
  BY <1>11 DEF OrderFailureEvent, OrderClientFinished, Client, SendRequest, SendBye,
               InsertAck, AllStorageFinished, Crash, channelVars
<1>12. ASSUME NEW r \in Replicas,
              StorageSlots(r) \/ StorageClientPatch(r) \/ StorageClientFinalize(r)
       PROVE  UNCHANGED toOrder
  BY <1>12 DEF StorageSlots, StorageClientPatch, StorageClientFinalize
<1>13. ASSUME NEW r \in Replicas, NEW c \in Clients, ClientThread(r, c)
       PROVE  UNCHANGED toOrder
  BY <1>13 DEF ClientThread, StorageInsert, StorageClientFinished
<1>14. QED
  BY <1>2, <1>5, <1>6, <1>7, <1>8, <1>9, <1>10, <1>11, <1>12, <1>13, Zenon
     DEF Next, ControlThread

(* The channels to the servers: a broadcast, and the lambdas.              *)
LEMMA BroadcastDirected ==
  ASSUME Types, Types', Settled, OrdersDirected, NEW ms, Broadcast(ms),
         \A r \in Replicas : ms \in Seq(Directed(r)')
  PROVE  OrdersDirected'
<1>1. ASSUME NEW r \in Replicas PROVE toStorage[r] \o ms \in Seq(Directed(r)')
  <2>1. toStorage[r] \in Seq(Directed(r)')
    BY SoundStays, SeqMonotonic DEF OrdersDirected
  <2>2. QED
    BY <2>1, ConcatProperties
<1>2. QED
  BY <1>1 DEF Broadcast, OrdersDirected

(* The freezes that the ordering service sends out may go to any server.   *)
LEMMA FailedDirected ==
  ASSUME Types, Types', Settled, OrdersDirected, NEW c \in Clients, Failed(c)
  PROVE  OrdersDirected'
<1>1. [type |-> "freeze", client |-> c] \in Orders
  BY DEF Orders
<1>2. \A r \in Replicas : <<[type |-> "freeze", client |-> c]>> \in Seq(Directed(r)')
  BY <1>1 DEF Directed
<1>3. QED
  BY <1>2, BroadcastDirected DEF Failed

(* Patches and finalize go out when all servers have disconnected the      *)
(* client, so that they are well directed.                                 *)
LEMMA FinalizedDirected ==
  ASSUME Types, Types', Settled, OrdersDirected, NEW c \in Clients, Finalized(c),
         \A r \in Replicas : c \in disc[r]
  PROVE  OrdersDirected'
<1>1. FinalMessages(c) \in Seq(FinalOrders(c))
  BY FinalMessagesType DEF Types
<1>2. ASSUME NEW r \in Replicas PROVE FinalMessages(c) \in Seq(Directed(r)')
  <2>1. FinalOrders(c) \subseteq Directed(r)
    BY DEF FinalOrders, PatchOrders, Directed, Orders
  <2>2. FinalOrders(c) \subseteq Directed(r)'
    BY <2>1, SoundStays
  <2>3. QED
    BY <1>1, <2>2, SeqMonotonic
<1>3. Broadcast(FinalMessages(c))
  BY DEF Finalized, FinalMessages
<1>4. QED
  BY <1>2, <1>3, BroadcastDirected

(* Steps that leave the state of the ordering service alone.               *)
LEMMA OrderUnchanged ==
  ASSUME Types, Types', Settled, RecoveryInv, UNCHANGED <<phase, cuts, data>>
  PROVE  CutIsFinal' /\ FrozenBeforeGone' /\ RequestedAfterCuts' /\ DataWritten'
<1>1. CutIsFinal' /\ FrozenBeforeGone' /\ RequestedAfterCuts'
  BY DEF RecoveryInv, CutIsFinal, FrozenBeforeGone, RequestedAfterCuts, Settled,
         Types, OrderTypes
<1>2. DataWritten'
  <2> SUFFICES ASSUME NEW c \in Clients, NEW g \in DOMAIN data[c]
               PROVE  \E r \in Replicas : Written(r, c, g, data[c][g])'
    BY Zenon DEF DataWritten
  <2>1. PICK r \in Replicas : Written(r, c, g, data[c][g])
    BY DEF RecoveryInv, DataWritten
  <2>2. Written(r, c, g, data[c][g])'
    BY <2>1, WrittenStays
  <2>3. QED
    BY <2>2
<1>3. QED
  BY <1>1, <1>2

(* The ordering service gives up on a client that it has not forgotten, or *)
(* forgets a client that all servers have disconnected.                    *)
LEMMA PhaseStep ==
  ASSUME Types, Types', Settled, RecoveryInv, NEW c \in Clients,
         UNCHANGED <<cuts, data>>,
         \/ phase[c] = "active" /\ Failed(c)
         \/ Finalized(c) /\ \A r \in Replicas : c \in disc[r]
         \/ UNCHANGED <<phase, toStorage>>
  PROVE  /\ OrdersDirected' /\ CutIsFinal' /\ FrozenBeforeGone' /\ RequestedAfterCuts'
         /\ DataWritten'
<1>1. OrdersDirected'
  <2>1. CASE Failed(c)
    BY <2>1, FailedDirected DEF RecoveryInv
  <2>2. CASE Finalized(c) /\ \A r \in Replicas : c \in disc[r]
    BY <2>2, FinalizedDirected DEF RecoveryInv
  <2>3. CASE UNCHANGED toStorage
    <3>1. \A r \in Replicas : toStorage[r] \in Seq(Directed(r)')
      BY SoundStays, SeqMonotonic DEF RecoveryInv, OrdersDirected
    <3>2. QED
      BY <2>3, <3>1 DEF OrdersDirected
  <2>4. QED
    BY <2>1, <2>2, <2>3
<1>2. CutIsFinal'
  BY DEF RecoveryInv, CutIsFinal, Settled, Types, OrderTypes
<1>3. DataWritten'
  <2> SUFFICES ASSUME NEW x \in Clients, NEW g \in DOMAIN data[x]
               PROVE  \E r \in Replicas : Written(r, x, g, data[x][g])'
    BY Zenon DEF DataWritten
  <2>1. PICK r \in Replicas : Written(r, x, g, data[x][g])
    BY DEF RecoveryInv, DataWritten
  <2>2. Written(r, x, g, data[x][g])'
    BY <2>1, WrittenStays
  <2>3. QED
    BY <2>2
<1>4. \A x \in Clients :
        /\ phase'[x] = "requested" => phase[x] = "requested"
        /\ phase'[x] = "gone" => phase[x] = "gone" \/ \A r \in Replicas : x \in disc[r]
  BY DEF Failed, Finalized, Types, OrderTypes
<1>5. FrozenBeforeGone' /\ RequestedAfterCuts'
  BY <1>4 DEF RecoveryInv, FrozenBeforeGone, RequestedAfterCuts, Settled
<1>6. QED
  BY <1>1, <1>2, <1>3, <1>5

(* ORDER_CLIENT_CUT.                                                       *)
LEMMA OrderClientCutStep ==
  ASSUME Types, Types', Settled, RecoveryInv, NEW r \in Replicas, OrderClientCut(r)
  PROVE  /\ OrdersDirected' /\ CutIsFinal' /\ FrozenBeforeGone' /\ RequestedAfterCuts'
         /\ DataWritten'
<1>1. PICK m \in Sound(r) : m = Head(toOrder[r]) /\ m.type = "cut"
  BY HeadTailProperties DEF OrderClientCut, FromStorage, RecoveryInv, ReportsSound
<1>2. PICK c \in Clients : c = m.client
  BY <1>1 DEF Sound, Reports
<1>3. c \in disc[r] /\ m.gsn = latestGsn[r][c]
  BY <1>1, <1>2 DEF Sound
<1>4. UNCHANGED data
  BY DEF OrderClientCut
<1>5. PICK ct : ct = [s \in DOMAIN cuts[c] \cup {r} |-> IF s = r THEN m.gsn ELSE cuts[c][s]]
  OBVIOUS
<1>6. \A s \in DOMAIN ct : s \in Replicas /\ ct[s] = latestGsn[s][c] /\ c \in disc[s]
  BY <1>3, <1>5 DEF RecoveryInv, CutIsFinal, Types, OrderTypes
<1>7. CASE UNCHANGED <<phase, cuts, toStorage>>
  BY <1>4, <1>7, PhaseStep
<1>8. CASE /\ phase[c] \notin {"active", "gone"} /\ r \notin DOMAIN cuts[c]
           /\ cuts' = [cuts EXCEPT ![c] = ct]
           /\ IF phase[c] = "failed" /\ DOMAIN ct = Replicas
              THEN IF MinCut(ct) = MaxCut(ct) THEN Finalized(c)
                   ELSE Requested(c, MinCut(ct))
              ELSE UNCHANGED <<phase, toStorage>>
  <2>1. /\ DOMAIN cuts' = Clients
        /\ \A x \in Clients : cuts'[x] = IF x = c THEN ct ELSE cuts[x]
    BY <1>8 DEF Types, OrderTypes
  <2>2. CutIsFinal'
    BY <1>6, <2>1 DEF RecoveryInv, CutIsFinal, Settled, Types, OrderTypes
  <2>3. DataWritten'
    <3> SUFFICES ASSUME NEW x \in Clients, NEW g \in DOMAIN data[x]
                 PROVE  \E s \in Replicas : Written(s, x, g, data[x][g])'
      BY <1>4, Zenon DEF DataWritten
    <3>1. PICK s \in Replicas : Written(s, x, g, data[x][g])
      BY DEF RecoveryInv, DataWritten
    <3>2. Written(s, x, g, data[x][g])'
      BY <1>4, <3>1, WrittenStays
    <3>3. QED
      BY <3>2
  <2>4. DOMAIN ct = Replicas => \A s \in Replicas : c \in disc[s]
    BY <1>6
  <2>5. CASE DOMAIN ct = Replicas /\ Finalized(c)
    <3>1. OrdersDirected'
      BY <2>4, <2>5, FinalizedDirected DEF RecoveryInv
    <3>2. phase' = [phase EXCEPT ![c] = "gone"]
      BY <2>5 DEF Finalized
    <3>3. FrozenBeforeGone' /\ RequestedAfterCuts'
      BY <2>1, <2>4, <2>5, <3>2
         DEF RecoveryInv, FrozenBeforeGone, RequestedAfterCuts, Settled, Types, OrderTypes
    <3>4. QED
      BY <2>2, <2>3, <3>1, <3>3
  <2>6. CASE DOMAIN ct = Replicas /\ Requested(c, MinCut(ct))
    <3>1. PICK b \in Nat : b = MinCut(ct)
      <4>1. \A s \in Replicas : ct[s] \in Nat
        BY <1>6, <2>6 DEF Types, LogTypes
      <4>2. QED
        BY <2>6, <4>1, MinCutType
    <3>2. OrdersDirected'
      <4>1. [type |-> "cut", client |-> c, begin |-> b] \in Orders
        BY DEF Orders
      <4>2. ASSUME NEW s \in Replicas
            PROVE  <<[type |-> "cut", client |-> c, begin |-> b]>> \in Seq(Directed(s)')
        <5>1. [type |-> "cut", client |-> c, begin |-> b] \in Directed(s)
          BY <2>4, <2>6, <4>1 DEF Directed
        <5>2. [type |-> "cut", client |-> c, begin |-> b] \in Directed(s)'
          BY <5>1, SoundStays
        <5>3. QED
          BY <5>2
      <4>3. Broadcast(<<[type |-> "cut", client |-> c, begin |-> b]>>)
        BY <2>6, <3>1 DEF Requested
      <4>4. OrdersDirected
        BY DEF RecoveryInv
      <4>5. QED
        BY <4>2, <4>3, <4>4, BroadcastDirected
    <3>3. phase' = [phase EXCEPT ![c] = "requested"]
      BY <2>6 DEF Requested
    <3>4. FrozenBeforeGone' /\ RequestedAfterCuts'
      BY <2>1, <2>6, <3>3
         DEF RecoveryInv, FrozenBeforeGone, RequestedAfterCuts, Settled, Types, OrderTypes
    <3>5. QED
      BY <2>2, <2>3, <3>2, <3>4
  <2>7. CASE UNCHANGED <<phase, toStorage>>
    <3>1. OrdersDirected'
      <4>1. \A s \in Replicas : toStorage[s] \in Seq(Directed(s)')
        BY SoundStays, SeqMonotonic DEF RecoveryInv, OrdersDirected
      <4>2. QED
        BY <2>7, <4>1 DEF OrdersDirected
    <3>2. phase[c] = "requested" => r \in DOMAIN cuts[c]
      BY DEF RecoveryInv, RequestedAfterCuts
    <3>3. FrozenBeforeGone' /\ RequestedAfterCuts'
      BY <1>8, <2>1, <2>7, <3>2
         DEF RecoveryInv, FrozenBeforeGone, RequestedAfterCuts, Settled
    <3>4. QED
      BY <2>2, <2>3, <3>1, <3>3
  <2>8. QED
    BY <1>8, <2>5, <2>6, <2>7
<1>9. QED
  BY <1>1, <1>2, <1>5, <1>7, <1>8, Zenon DEF OrderClientCut

(* ORDER_CLIENT_DATA.                                                      *)
LEMMA OrderClientDataStep ==
  ASSUME Types, Types', Settled, RecoveryInv, NEW r \in Replicas, OrderClientData(r)
  PROVE  /\ OrdersDirected' /\ CutIsFinal' /\ FrozenBeforeGone' /\ RequestedAfterCuts'
         /\ DataWritten'
<1>1. PICK m \in Sound(r) : m = Head(toOrder[r]) /\ m.type = "data"
  BY HeadTailProperties DEF OrderClientData, FromStorage, RecoveryInv, ReportsSound
<1>2. PICK c \in Clients : c = m.client
  BY <1>1 DEF Sound, Reports
<1>3. UNCHANGED cuts
  BY DEF OrderClientData
<1>4. CASE UNCHANGED <<phase, data, toStorage>>
  BY <1>3, <1>4, PhaseStep
<1>5. CASE phase[c] = "requested" /\ Finalized(c) /\ UNCHANGED data
  <2>1. \A s \in Replicas : c \in disc[s]
    BY <1>5 DEF RecoveryInv, RequestedAfterCuts, CutIsFinal
  <2>2. QED
    BY <1>3, <1>5, <2>1, PhaseStep
<1>6. CASE /\ m.gsn # NoGsn
           /\ data' = [data EXCEPT ![c] =
                [g \in DOMAIN @ \cup {m.gsn} |-> IF g \in DOMAIN @ THEN @[g] ELSE m.data]]
           /\ UNCHANGED <<phase, toStorage>>
  <2>1. Written(r, c, m.gsn, m.data)
    BY <1>1, <1>2, <1>6 DEF Sound
  <2>2. OrdersDirected'
    <3>1. \A s \in Replicas : toStorage[s] \in Seq(Directed(s)')
      BY SoundStays, SeqMonotonic DEF RecoveryInv, OrdersDirected
    <3>2. QED
      BY <1>6, <3>1 DEF OrdersDirected
  <2>3. CutIsFinal' /\ FrozenBeforeGone' /\ RequestedAfterCuts'
    BY <1>3, <1>6 DEF RecoveryInv, CutIsFinal, FrozenBeforeGone, RequestedAfterCuts,
                      Settled, Types, OrderTypes
  <2>4. ASSUME NEW x \in Clients, NEW g \in DOMAIN data'[x]
        PROVE  \E s \in Replicas : Written(s, x, g, data'[x][g])
    <3>1. CASE x # c
      <4>1. data'[x] = data[x]
        BY <1>6, <3>1 DEF Types, OrderTypes
      <4>2. QED
        BY <2>4, <4>1 DEF RecoveryInv, DataWritten
    <3>2. CASE x = c /\ g \in DOMAIN data[c]
      <4>1. data'[x][g] = data[c][g]
        BY <1>6, <3>2 DEF Types, OrderTypes
      <4>2. QED
        BY <3>2, <4>1 DEF RecoveryInv, DataWritten
    <3>3. CASE x = c /\ g \notin DOMAIN data[c]
      <4>1. g = m.gsn /\ data'[x][g] = m.data
        BY <1>6, <2>4, <3>3 DEF Types, OrderTypes
      <4>2. QED
        BY <2>1, <3>3, <4>1
    <3>4. QED
      BY <3>1, <3>2, <3>3
  <2>5. DataWritten'
    <3> SUFFICES ASSUME NEW x \in Clients, NEW g \in DOMAIN data'[x]
                 PROVE  \E s \in Replicas : Written(s, x, g, data[x][g])'
      BY Zenon DEF DataWritten
    <3>1. PICK s \in Replicas : Written(s, x, g, data'[x][g])
      BY <2>4
    <3>2. PICK d : d = data'[x][g]
      OBVIOUS
    <3>3. Written(s, x, g, d)'
      BY <3>1, <3>2, WrittenStays
    <3>4. Written(s, x, g, data[x][g])'
      BY <3>2, <3>3, Zenon DEF Written
    <3>5. QED
      BY <3>4
  <2>6. QED
    BY <2>2, <2>3, <2>5
<1>7. QED
  BY <1>1, <1>2, <1>4, <1>5, <1>6, Zenon DEF OrderClientData

(* The farewells of clients.                                               *)
LEMMA NextFarewells ==
  ASSUME Types, Types', Settled, FarewellsOrdered, [Next]_vars
  PROVE  FarewellsOrdered'
<1>1. CASE UNCHANGED <<byes, left>>
  BY <1>1 DEF FarewellsOrdered, Settled, Types, ByesType
<1>2. ASSUME NEW c \in Clients, AllStorageFinished(c) PROVE FarewellsOrdered'
  BY <1>2 DEF AllStorageFinished, FarewellsOrdered, Settled, Types, ByesType, ClientTypes,
              channelVars
<1>3. ASSUME NEW r \in Replicas, NEW c \in Clients, StorageClientFinished(r, c)
      PROVE  FarewellsOrdered'
  <2>1. UNCHANGED left
    BY <1>3 DEF StorageClientFinished, clientVars
  <2>2. CASE UNCHANGED byes
    BY <1>1, <2>1, <2>2
  <2>3. CASE /\ disc' = [disc EXCEPT ![r] = @ \cup {c}]
             /\ byes' = [byes EXCEPT ![c] = @ \cup {r}]
    <3>1. c \in disc'[r]
      BY <2>3 DEF Types, ServerTypes
    <3>2. \A x \in Clients : byes'[x] = IF x = c THEN byes[c] \cup {r} ELSE byes[x]
      BY <2>3 DEF Types, ByesType
    <3>3. byes[c] \subseteq Replicas
      BY DEF Types, ByesType
    <3>4. ASSUME NEW x \in Clients
          PROVE  /\ \A s \in byes'[x] : x \in disc'[s]
                 /\ left'[x] = "sent" => byes'[x] = Replicas
      <4>1. CASE x # c
        <5>1. byes'[x] = byes[x]
          BY <3>2, <4>1
        <5>2. byes[x] \subseteq Replicas
          BY DEF Types, ByesType
        <5>3. QED
          BY <2>1, <5>1, <5>2 DEF FarewellsOrdered, Settled
      <4>2. CASE x = c
        <5>1. byes'[x] = byes[c] \cup {r}
          BY <3>2, <4>2
        <5>2. \A s \in byes[c] : c \in disc'[s]
          BY <3>3 DEF FarewellsOrdered, Settled
        <5>3. left[c] = "sent" => byes[c] = Replicas
          BY DEF FarewellsOrdered
        <5>4. QED
          BY <2>1, <3>1, <4>2, <5>1, <5>2, <5>3
      <4>3. QED
        BY <4>1, <4>2
    <3>5. QED
      BY <3>4, Zenon DEF FarewellsOrdered
  <2>4. QED
    BY <1>3, <2>2, <2>3 DEF StorageClientFinished
<1>4. CASE UNCHANGED vars
  BY <1>1, <1>4 DEF vars, channelVars, clientVars
<1>5. CASE Epoch
  BY <1>1, <1>5 DEF Epoch
<1>6. ASSUME NEW c \in Clients, OrderFailureEvent(c) \/ OrderClientFinished(c)
      PROVE  UNCHANGED <<byes, left>>
  BY <1>6 DEF OrderFailureEvent, OrderClientFinished, clientVars
<1>7. ASSUME NEW c \in Clients, Client(c), ~AllStorageFinished(c)
      PROVE  UNCHANGED <<byes, left>>
  BY <1>7 DEF Client, SendRequest, SendBye, InsertAck, Crash, channelVars
<1>8. ASSUME NEW r \in Replicas, OrderFromStorage(r)
      PROVE  UNCHANGED <<byes, left>>
  BY <1>8 DEF OrderFromStorage, OrderClientFreeze, OrderClientCut, OrderClientData, clientVars
<1>9. ASSUME NEW r \in Replicas, ControlThread(r)
      PROVE  UNCHANGED <<byes, left>>
  BY <1>9 DEF ControlThread, StorageSlots, StorageClientFreeze, StorageClientCut,
              StorageClientPatch, StorageClientFinalize, clientVars
<1>10. ASSUME NEW r \in Replicas, NEW c \in Clients,
              StorageFailureEvent(r, c) \/ StorageInsert(r, c)
       PROVE  UNCHANGED <<byes, left>>
  BY <1>10 DEF StorageFailureEvent, StorageInsert, clientVars
<1>11. QED
  BY <1>1, <1>2, <1>3, <1>4, <1>5, <1>6, <1>7, <1>8, <1>9, <1>10, Zenon
     DEF Next, ClientThread

(* A server takes a message off its channel.                               *)
LEMMA FromOrderDirected ==
  ASSUME Types, Types', Settled, OrdersDirected, NEW r \in Replicas, NEW type,
         FromOrder(r, type)
  PROVE  OrdersDirected' /\ Head(toStorage[r]) \in Directed(r)
<1>1. \A s \in Replicas : toStorage[s] \in Seq(Directed(s)')
  BY SoundStays, SeqMonotonic DEF OrdersDirected
<1>2. Tail(toStorage[r]) \in Seq(Directed(r)')
  BY <1>1, HeadTailProperties DEF FromOrder
<1>3. \A s \in Replicas : toStorage'[s] = IF s = r THEN Tail(toStorage[r]) ELSE toStorage[s]
  BY DEF FromOrder, Types, ToStorageType
<1>4. Head(toStorage[r]) \in Directed(r)
  BY HeadTailProperties DEF FromOrder, OrdersDirected
<1>5. QED
  BY <1>1, <1>2, <1>3, <1>4 DEF OrdersDirected

(* The state of the ordering service and the channels to the servers.      *)
LEMMA NextOrder ==
  ASSUME Types, Types', Settled, RecoveryInv, [Next]_vars
  PROVE  /\ OrdersDirected' /\ CutIsFinal' /\ FrozenBeforeGone' /\ RequestedAfterCuts'
         /\ DataWritten'
<1> DEFINE Q == /\ OrdersDirected' /\ CutIsFinal' /\ FrozenBeforeGone'
                /\ RequestedAfterCuts' /\ DataWritten'
<1>1. CASE UNCHANGED <<phase, cuts, data, toStorage>>
  <2>1. OrdersDirected'
    <3>1. \A s \in Replicas : toStorage[s] \in Seq(Directed(s)')
      BY SoundStays, SeqMonotonic DEF RecoveryInv, OrdersDirected
    <3>2. QED
      BY <1>1, <3>1 DEF OrdersDirected
  <2>2. QED
    BY <1>1, <2>1, OrderUnchanged
<1>2. CASE Epoch
  <2>1. UNCHANGED <<phase, cuts, data>>
    BY <1>2 DEF Epoch
  <2>2. PICK owners \in Seq(Clients) : owners = Layout[{c \in Clients : phase[c] = "active"}]
    BY LayoutAssumption
  <2>3. Broadcast(<<[type |-> "slots", start |-> gsnBase, owners |-> owners]>>)
    BY <1>2, <2>2, Zenon DEF Epoch
  <2>4. [type |-> "slots", start |-> gsnBase, owners |-> owners] \in Orders
    BY DEF Types, OrderTypes, Orders
  <2>5. \A r \in Replicas :
          <<[type |-> "slots", start |-> gsnBase, owners |-> owners]>> \in Seq(Directed(r)')
    BY <2>4 DEF Directed
  <2>6. OrdersDirected'
    BY <2>3, <2>5, BroadcastDirected DEF RecoveryInv
  <2>7. QED
    BY <2>1, <2>6, OrderUnchanged
<1>3. ASSUME NEW c \in Clients, OrderFailureEvent(c) PROVE Q
  BY <1>3, PhaseStep DEF OrderFailureEvent
<1>4. ASSUME NEW c \in Clients, OrderClientFinished(c) PROVE Q
  <2>1. \A r \in Replicas : c \in disc[r]
    BY <1>4 DEF OrderClientFinished, RecoveryInv, FarewellsOrdered
  <2>2. QED
    BY <1>4, <2>1, PhaseStep DEF OrderClientFinished
<1>5. ASSUME NEW r \in Replicas, OrderClientFreeze(r) PROVE Q
  <2>1. PICK c \in Clients : c = Head(toOrder[r]).client
    BY <1>5, FromStorageTypes DEF OrderClientFreeze
  <2>2. UNCHANGED <<cuts, data>>
    BY <1>5 DEF OrderClientFreeze
  <2>3. (phase[c] = "active" /\ Failed(c)) \/ UNCHANGED <<phase, toStorage>>
    BY <1>5, <2>1, Zenon DEF OrderClientFreeze
  <2>4. QED
    BY <2>2, <2>3, PhaseStep
<1>6. ASSUME NEW r \in Replicas, OrderFromStorage(r) PROVE Q
  BY <1>5, <1>6, OrderClientCutStep, OrderClientDataStep DEF OrderFromStorage
<1>7. ASSUME NEW r \in Replicas, ControlThread(r) PROVE Q
  <2>1. UNCHANGED <<phase, cuts, data>>
    BY <1>7 DEF ControlThread, StorageSlots, StorageClientFreeze, StorageClientCut,
                StorageClientPatch, StorageClientFinalize, orderVars
  <2>2. \E type : FromOrder(r, type)
    BY <1>7, Zenon DEF ControlThread, StorageSlots, StorageClientFreeze, StorageClientCut,
                       StorageClientPatch, StorageClientFinalize
  <2>3. OrdersDirected'
    BY <2>2, FromOrderDirected DEF RecoveryInv
  <2>4. QED
    BY <2>1, <2>3, OrderUnchanged
<1>8. CASE UNCHANGED vars
  BY <1>1, <1>8 DEF vars, channelVars, orderVars
<1>9. ASSUME NEW c \in Clients, Client(c)
      PROVE  UNCHANGED <<phase, cuts, data, toStorage>>
  BY <1>9 DEF Client, SendRequest, SendBye, InsertAck, AllStorageFinished, Crash,
              channelVars, orderVars
<1>10. ASSUME NEW r \in Replicas, NEW c \in Clients,
              StorageFailureEvent(r, c) \/ ClientThread(r, c)
       PROVE  UNCHANGED <<phase, cuts, data, toStorage>>
  BY <1>10 DEF StorageFailureEvent, ClientThread, StorageInsert, StorageClientFinished,
               orderVars
<1> HIDE DEF Q
<1>11. Q
  BY <1>1, <1>2, <1>3, <1>4, <1>6, <1>7, <1>8, <1>9, <1>10, Zenon DEF Next, Q
<1>12. QED
  BY <1>11 DEF Q

(* Every step keeps the invariant of the recovery protocol.                *)
LEMMA NextRecovery ==
  ASSUME Types, RecoveryInv, [Next]_vars
  PROVE  RecoveryInv'
<1>1. Types'
  BY NextTypes
<1>2. LogInv' /\ Settled
  BY NextKeeps, NextSettled DEF RecoveryInv
<1>3. ReportsSound'
  BY <1>1, <1>2, NextReportsSound DEF RecoveryInv
<1>4. FarewellsOrdered'
  BY <1>1, <1>2, NextFarewells DEF RecoveryInv
<1>5. QED
  BY <1>1, <1>2, <1>3, <1>4, NextOrder DEF RecoveryInv

(* The inductive invariant of the recovery protocol: the logs are sound,   *)
(* reports tell what the servers hold for good, and orders go to servers   *)
(* that have disconnected the client.                                      *)
THEOREM RecoveryInvariant == Spec => []RecoveryInv
<1>1. Types /\ RecoveryInv /\ [Next]_vars => RecoveryInv'
  BY NextRecovery
<1>2. QED
  BY <1>1, InitRecovery, TypesInvariant, PTL DEF Spec

(* A cut that the ordering service compares is still the latest GSN of the *)
(* server, and the server has disconnected the client: freezing precedes   *)
(* the report of the cut, for any number of servers and clients, crashes   *)
(* and suspicions.                                                         *)
THEOREM CutsAreFinal == Spec => []CutIsFinal
BY RecoveryInvariant, PTL DEF RecoveryInv

(* A client is forgotten by the ordering service only when every server    *)
(* has disconnected it, whichever of the three ways it was forgotten:      *)
(* farewell, equal cuts, or recovered data.                                *)
THEOREM GoneIsFrozen == Spec => []FrozenBeforeGone
BY RecoveryInvariant, PTL DEF RecoveryInv

(* What the ordering service rolls forward is held by some server in an    *)
(* entry of that client with that GSN and payload.                         *)
THEOREM RecoveredDataIsReal == Spec => []RecoveredIsWritten
<1>1. Types /\ RecoveryInv => RecoveredIsWritten
  <2> SUFFICES ASSUME Types, RecoveryInv, NEW c \in Clients, NEW g \in DOMAIN data[c]
               PROVE  \E r \in Replicas : Holds(r, c, g, data[c][g])
    BY DEF RecoveredIsWritten
  <2>1. PICK r \in Replicas : Written(r, c, g, data[c][g])
    BY DEF RecoveryInv, DataWritten
  <2>2. DOMAIN log[r] = 1 .. Len(log[r])
    BY DEF Types, LogTypes
  <2>3. QED
    BY <2>1, <2>2, Zenon DEF Written, Holds
<1>2. QED
  BY <1>1, RecoveryInvariant, TypesInvariant, PTL
-----------------------------------------------------------------------------
(* Slots: the logs of the servers are prefixes of one sequence of slots.   *)

(* The slots messages of a channel q continue a log of n slots up to the   *)
(* last slot of G: e[i] slots are there when i messages are handled.       *)
Chain(e, q, n, G) ==
  /\ e \in [0 .. Len(q) -> 0 .. Len(G)]
  /\ e[0] = n /\ e[Len(q)] = Len(G)
  /\ \A i \in 1 .. Len(q) :
       /\ q[i].type # "slots" => e[i] = e[i - 1]
       /\ q[i].type = "slots" =>
            /\ q[i].start = e[i - 1] /\ e[i] = e[i - 1] + Len(q[i].owners)
            /\ \A k \in 1 .. Len(q[i].owners) : q[i].owners[k] = G[e[i - 1] + k]

Pending(q, n, G) == \E e : Chain(e, q, n, G)

(* The slots of the log L are the first ones of G, numbered from 0.        *)
Outline(L, G) ==
  /\ Len(L) <= Len(G)
  /\ \A k \in 1 .. Len(L) : L[k].client = G[k] /\ L[k].gsn = k - 1

(* G are the owners of the slots handed out so far.                        *)
Laid(G) ==
  /\ G \in Seq(Clients) /\ Len(G) = gsnBase
  /\ \A r \in Replicas :
       Outline(log[r], G) /\ Pending(toStorage[r], Len(log[r]), G)

(* Few enough slots are handed out for NoGsn to be none of their GSNs.     *)
FewSlots ==
  /\ epochs <= MaxEpochs /\ (epochs = 0 => gsnBase = 0)
  /\ gsnBase * MaxEpochs <= epochs * (NoGsn - 1)

SlotsInv == FewSlots /\ \E G : Laid(G)

(* Two logs have the same slots as far as both go, and the GSN of a slot   *)
(* tells its place in the log.                                             *)
SameSlots ==
  /\ gsnBase < NoGsn
  /\ \A r \in Replicas :
       /\ Len(log[r]) <= gsnBase
       /\ \A k \in 1 .. Len(log[r]) : log[r][k].gsn = k - 1
  /\ \A r, s \in Replicas : \A k \in 1 .. Len(log[r]) :
       k <= Len(log[s]) => log[s][k].client = log[r][k].client

(* The first message of a channel is taken.                                *)
LEMMA PendingTail ==
  ASSUME NEW q \in Seq(Orders), q # << >>, NEW n \in Nat, NEW G \in Seq(Clients),
         Pending(q, n, G)
  PROVE  /\ Head(q).type # "slots" => Pending(Tail(q), n, G)
         /\ Head(q).type = "slots" =>
              /\ Head(q).start = n
              /\ n + Len(Head(q).owners) <= Len(G)
              /\ \A k \in 1 .. Len(Head(q).owners) : Head(q).owners[k] = G[n + k]
              /\ Pending(Tail(q), n + Len(Head(q).owners), G)
<1>1. PICK e : Chain(e, q, n, G)
  BY DEF Pending
<1>2. Len(q) \in Nat /\ Len(q) >= 1 /\ Head(q) = q[1] /\ Len(G) \in Nat
  OBVIOUS
<1>3. Tail(q) \in Seq(Orders) /\ Len(Tail(q)) = Len(q) - 1
      /\ \A i \in 1 .. Len(Tail(q)) : Tail(q)[i] = q[i + 1]
  BY HeadTailProperties
<1> DEFINE f == [i \in 0 .. Len(q) - 1 |-> e[i + 1]]
<1>4. f \in [0 .. Len(Tail(q)) -> 0 .. Len(G)]
  BY <1>1, <1>2, <1>3 DEF Chain
<1>5. f[0] = e[1] /\ f[Len(Tail(q))] = Len(G)
  BY <1>1, <1>2, <1>3 DEF Chain
<1>6. ASSUME NEW i \in 1 .. Len(Tail(q))
      PROVE  /\ Tail(q)[i].type # "slots" => f[i] = f[i - 1]
             /\ Tail(q)[i].type = "slots" =>
                  /\ Tail(q)[i].start = f[i - 1]
                  /\ f[i] = f[i - 1] + Len(Tail(q)[i].owners)
                  /\ \A k \in 1 .. Len(Tail(q)[i].owners) :
                       Tail(q)[i].owners[k] = G[f[i - 1] + k]
  <2>1. f[i] = e[i + 1] /\ f[i - 1] = e[i] /\ i + 1 \in 1 .. Len(q) /\ (i + 1) - 1 = i
    BY <1>2, <1>3
  <2>2. Tail(q)[i] = q[i + 1]
    BY <1>3
  <2> HIDE DEF f
  <2>3. QED
    BY <1>1, <2>1, <2>2 DEF Chain
<1>7. Chain(f, Tail(q), e[1], G)
  <2> HIDE DEF f
  <2> QED BY <1>4, <1>5, <1>6 DEF Chain
<1>8. Pending(Tail(q), e[1], G)
  BY <1>7 DEF Pending
<1>9. /\ q[1].type # "slots" => e[1] = n
      /\ q[1].type = "slots" =>
           /\ q[1].start = n /\ e[1] = n + Len(q[1].owners)
           /\ \A k \in 1 .. Len(q[1].owners) : q[1].owners[k] = G[n + k]
  <2>1. 1 \in 1 .. Len(q) /\ 1 - 1 = 0
    BY <1>2
  <2>2. QED
    BY <1>1, <2>1 DEF Chain
<1>10. e[1] \in 0 .. Len(G)
  BY <1>1, <1>2 DEF Chain
<1>11. q[1].type = "slots" =>
         n + Len(q[1].owners) <= Len(G) /\ Pending(Tail(q), n + Len(q[1].owners), G)
  <2>1. SUFFICES ASSUME q[1].type = "slots"
                 PROVE  /\ n + Len(q[1].owners) <= Len(G)
                        /\ Pending(Tail(q), n + Len(q[1].owners), G)
    OBVIOUS
  <2>2. e[1] = n + Len(q[1].owners)
    BY <1>9, <2>1
  <2>3. QED
    BY <1>8, <1>10, <2>2
<1>12. q[1].type # "slots" => Pending(Tail(q), n, G)
  BY <1>8, <1>9
<1>13. QED
  BY <1>2, <1>9, <1>11, <1>12

(* Other messages are sent.                                                *)
LEMMA PendingOthers ==
  ASSUME NEW q \in Seq(Orders), NEW S, \A m \in S : m.type # "slots",
         NEW ms \in Seq(S), NEW n \in Nat, NEW G \in Seq(Clients), Pending(q, n, G)
  PROVE  Pending(q \o ms, n, G)
<1>1. PICK e : Chain(e, q, n, G)
  BY DEF Pending
<1>2. Len(q) \in Nat /\ Len(ms) \in Nat /\ Len(G) \in Nat
  OBVIOUS
<1>3. /\ Len(q \o ms) = Len(q) + Len(ms)
      /\ \A i \in 1 .. Len(q) : (q \o ms)[i] = q[i]
      /\ \A i \in 1 .. Len(ms) : (q \o ms)[Len(q) + i] = ms[i]
  OBVIOUS
<1> DEFINE f == [i \in 0 .. Len(q) + Len(ms) |-> IF i <= Len(q) THEN e[i] ELSE Len(G)]
<1>4. /\ f \in [0 .. Len(q \o ms) -> 0 .. Len(G)]
      /\ f[0] = n /\ f[Len(q \o ms)] = Len(G)
      /\ \A i \in 0 .. Len(q) : f[i] = e[i]
      /\ \A i \in Len(q) .. Len(q) + Len(ms) : f[i] = Len(G)
  BY <1>1, <1>2, <1>3 DEF Chain
<1>5. ASSUME NEW i \in 1 .. Len(q \o ms)
      PROVE  /\ (q \o ms)[i].type # "slots" => f[i] = f[i - 1]
             /\ (q \o ms)[i].type = "slots" =>
                  /\ (q \o ms)[i].start = f[i - 1]
                  /\ f[i] = f[i - 1] + Len((q \o ms)[i].owners)
                  /\ \A k \in 1 .. Len((q \o ms)[i].owners) :
                       (q \o ms)[i].owners[k] = G[f[i - 1] + k]
  <2> HIDE DEF f
  <2>1. CASE i <= Len(q)
    <3>1. (q \o ms)[i] = q[i] /\ f[i] = e[i] /\ f[i - 1] = e[i - 1] /\ i \in 1 .. Len(q)
      <4>1. i \in 1 .. Len(q) /\ i \in 0 .. Len(q) /\ i - 1 \in 0 .. Len(q)
        BY <1>2, <1>3, <2>1
      <4>2. QED
        BY <1>3, <1>4, <4>1, Zenon
    <3>2. QED
      BY <1>1, <3>1 DEF Chain
  <2>2. CASE i > Len(q)
    <3>1. i - Len(q) \in 1 .. Len(ms) /\ Len(q) + (i - Len(q)) = i
      BY <1>2, <1>3, <2>2
    <3>2. (q \o ms)[i] = ms[i - Len(q)]
      BY <1>3, <3>1
    <3>3. ms[i - Len(q)].type # "slots"
      BY <3>1
    <3>4. f[i] = Len(G) /\ f[i - 1] = Len(G)
      <4>1. i \in Len(q) .. Len(q) + Len(ms) /\ i - 1 \in Len(q) .. Len(q) + Len(ms)
        BY <1>2, <1>3, <2>2
      <4>2. QED
        BY <1>4, <4>1
    <3>5. QED
      BY <3>2, <3>3, <3>4
  <2>3. QED
    BY <1>2, <1>3, <2>1, <2>2
<1>6. Chain(f, q \o ms, n, G)
  <2> HIDE DEF f
  <2> QED BY <1>4, <1>5 DEF Chain
<1>7. QED
  BY <1>6 DEF Pending

(* The slots of an epoch are sent.                                         *)
LEMMA PendingSlots ==
  ASSUME NEW q \in Seq(Orders), NEW n \in Nat, NEW G \in Seq(Clients),
         NEW ow \in Seq(Clients), NEW m \in Orders, m.type = "slots",
         m.start = Len(G), m.owners = ow, Pending(q, n, G)
  PROVE  Pending(q \o <<m>>, n, G \o ow)
<1>1. PICK e : Chain(e, q, n, G)
  BY DEF Pending
<1>2. Len(q) \in Nat /\ Len(G) \in Nat /\ Len(ow) \in Nat
  OBVIOUS
<1>3. /\ Len(q \o <<m>>) = Len(q) + 1
      /\ \A i \in 1 .. Len(q) : (q \o <<m>>)[i] = q[i]
      /\ (q \o <<m>>)[Len(q) + 1] = m
  OBVIOUS
<1>4. /\ G \o ow \in Seq(Clients)
      /\ Len(G \o ow) = Len(G) + Len(ow)
      /\ \A k \in 1 .. Len(G) : (G \o ow)[k] = G[k]
      /\ \A k \in 1 .. Len(ow) : (G \o ow)[Len(G) + k] = ow[k]
  OBVIOUS
<1>5. PICK H : H = G \o ow
  OBVIOUS
<1> DEFINE f == [i \in 0 .. Len(q) + 1 |-> IF i <= Len(q) THEN e[i] ELSE Len(G) + Len(ow)]
<1>6. /\ f \in [0 .. Len(q \o <<m>>) -> 0 .. Len(H)]
      /\ f[0] = n /\ f[Len(q \o <<m>>)] = Len(H)
      /\ \A i \in 0 .. Len(q) : f[i] = e[i]
      /\ f[Len(q) + 1] = Len(G) + Len(ow)
      /\ f[Len(q)] = Len(G)
  BY <1>1, <1>2, <1>3, <1>4, <1>5 DEF Chain
<1>7. ASSUME NEW i \in 1 .. Len(q \o <<m>>)
      PROVE  /\ (q \o <<m>>)[i].type # "slots" => f[i] = f[i - 1]
             /\ (q \o <<m>>)[i].type = "slots" =>
                  /\ (q \o <<m>>)[i].start = f[i - 1]
                  /\ f[i] = f[i - 1] + Len((q \o <<m>>)[i].owners)
                  /\ \A k \in 1 .. Len((q \o <<m>>)[i].owners) :
                       (q \o <<m>>)[i].owners[k] = H[f[i - 1] + k]
  <2> HIDE DEF f
  <2>1. CASE i <= Len(q)
    <3>1. (q \o <<m>>)[i] = q[i] /\ f[i] = e[i] /\ f[i - 1] = e[i - 1]
          /\ i \in 1 .. Len(q) /\ i - 1 \in 0 .. Len(q)
      BY <1>2, <1>3, <1>6, <2>1
    <3>2. /\ q[i].type # "slots" => e[i] = e[i - 1]
          /\ q[i].type = "slots" =>
               /\ q[i].start = e[i - 1] /\ e[i] = e[i - 1] + Len(q[i].owners)
               /\ \A k \in 1 .. Len(q[i].owners) : q[i].owners[k] = G[e[i - 1] + k]
      BY <1>1, <3>1 DEF Chain
    <3>3. e[i] \in 0 .. Len(G) /\ e[i - 1] \in 0 .. Len(G)
      BY <1>1, <3>1 DEF Chain
    <3>4. q[i].type = "slots" => Len(q[i].owners) \in Nat
      <4>1. q[i] \in Orders
        BY <3>1
      <4>2. QED
        BY <4>1 DEF Orders
    <3>5. q[i].type = "slots" =>
            \A k \in 1 .. Len(q[i].owners) : H[e[i - 1] + k] = G[e[i - 1] + k]
      <4> SUFFICES ASSUME q[i].type = "slots", NEW k \in 1 .. Len(q[i].owners)
                   PROVE  H[e[i - 1] + k] = G[e[i - 1] + k]
        OBVIOUS
      <4>0. PICK l \in Nat : l = Len(q[i].owners)
        BY <3>4
      <4>1. e[i - 1] + k \in 1 .. Len(G)
        <5>1. e[i] = e[i - 1] + l /\ k \in 1 .. l
          BY <3>2, <4>0
        <5>2. PICK a \in Nat : a = e[i - 1]
          BY <3>3
        <5>3. a + l <= Len(G)
          BY <3>3, <5>1, <5>2
        <5>4. a + k \in 1 .. Len(G)
          BY <1>2, <5>1, <5>3
        <5>5. QED
          BY <5>2, <5>4
      <4>2. QED
        BY <1>4, <1>5, <4>1
    <3>6. QED
      BY <3>1, <3>2, <3>5
  <2>2. CASE i = Len(q) + 1
    <3>1. (q \o <<m>>)[i] = m /\ f[i] = Len(G) + Len(ow) /\ f[i - 1] = Len(G)
      BY <1>2, <1>3, <1>6, <2>2
    <3>2. /\ m.start = f[i - 1] /\ f[i] = f[i - 1] + Len(m.owners)
          /\ \A k \in 1 .. Len(m.owners) : m.owners[k] = H[f[i - 1] + k]
      BY <1>4, <1>5, <3>1
    <3>3. QED
      BY <3>1, <3>2
  <2>3. i <= Len(q) \/ i = Len(q) + 1
    BY <1>2, <1>3
  <2>4. QED
    BY <2>1, <2>2, <2>3, Zenon
<1>8. Chain(f, q \o <<m>>, n, H)
  <2> HIDE DEF f
  <2> QED BY <1>6, <1>7 DEF Chain
<1>9. QED
  BY <1>5, <1>8 DEF Pending

(* A bound on all slots from the bound on those of one epoch.              *)
LEMMA SlotsArithmetic ==
  ASSUME NEW g \in Nat, NEW e \in Nat, NEW l \in Nat, NEW M \in Nat, NEW N \in Nat,
         e < M, M * l < N, g * M <= e * (N - 1)
  PROVE  (g + l) * M <= (e + 1) * (N - 1)
<1>1. (g + l) * M = g * M + M * l
  OBVIOUS
<1>2. (e + 1) * (N - 1) = e * (N - 1) + (N - 1)
  OBVIOUS
<1>3. g * M \in Int /\ M * l \in Int /\ e * (N - 1) \in Int
  OBVIOUS
<1>4. PICK a \in Int, b \in Int, d \in Int : a = g * M /\ b = M * l /\ d = e * (N - 1)
  BY <1>3
<1>5. a + b <= d + (N - 1)
  BY <1>4
<1>6. QED
  BY <1>1, <1>2, <1>4, <1>5

(* The slots handed out in e epochs of at most M, e shares of N - 1 in     *)
(* all, number less than N: no GSN reaches NoGsn.                          *)
LEMMA SlotsBelow ==
  ASSUME NEW g \in Nat, NEW e \in Nat, NEW M \in Nat, NEW N \in Nat,
         N > 0, e <= M, e = 0 => g = 0, g * M <= e * (N - 1)
  PROVE  g < N
<1>1. CASE e = 0
  BY <1>1
<1>2. CASE e # 0
  <2>1. M > 0
    BY <1>2
  <2>2. e * (N - 1) <= M * (N - 1)
    <3>1. PICK z \in Nat : z = N - 1
      OBVIOUS
    <3>2. PICK y \in Nat : M = e + y
      BY SMT
    <3>3. y * z >= 0 /\ M * z = e * z + y * z
      BY <3>2
    <3>4. QED
      BY <3>1, <3>3
  <2>3. g * M <= (N - 1) * M
    BY <2>2
  <2>4. SUFFICES ASSUME g >= N PROVE FALSE
    OBVIOUS
  <2>5. PICK y \in Nat : g = (N - 1) + 1 + y
    BY <2>4
  <2>6. g * M = (N - 1) * M + M + y * M
    BY <2>5
  <2>7. y * M >= 0
    OBVIOUS
  <2>8. QED
    BY <2>1, <2>3, <2>6, <2>7
<1>3. QED
  BY <1>1, <1>2

(* What the invariant says of the logs.                                    *)
LEMMA SlotsAgree ==
  ASSUME Types, SlotsInv
  PROVE  SameSlots
<1>1. PICK G : Laid(G)
  BY DEF SlotsInv
<1>2. gsnBase \in Nat /\ epochs \in Nat
  BY DEF Types, OrderTypes
<1>3. NoGsn > 0
  <2>1. Len(Layout[{}]) \in Nat /\ MaxEpochs * Len(Layout[{}]) < NoGsn
    BY LayoutAssumption, NoGsnAssumption
  <2>2. PICK l \in Nat : l = Len(Layout[{}])
    BY <2>1
  <2>3. MaxEpochs * l >= 0
    BY BoundsAssumption
  <2>4. QED
    BY <2>1, <2>2, <2>3, NoGsnAssumption, BoundsAssumption
<1>4. gsnBase < NoGsn
  BY <1>2, <1>3, SlotsBelow, NoGsnAssumption, BoundsAssumption DEF SlotsInv, FewSlots
<1>5. \A r \in Replicas : log[r] \in Seq(Entry)
  BY DEF Types, LogTypes
<1>6. QED
  BY <1>1, <1>4, <1>5 DEF SameSlots, Laid, Outline

(* A step that keeps the number, the owners and the GSNs of all slots.     *)
SameShape ==
  \A r \in Replicas :
    /\ Len(log'[r]) = Len(log[r])
    /\ \A k \in 1 .. Len(log[r]) :
         log'[r][k].client = log[r][k].client /\ log'[r][k].gsn = log[r][k].gsn

(* An insert keeps the slots, ...                                          *)
LEMMA InsertShape ==
  ASSUME Types, NEW r \in Replicas, NEW c \in Clients, NEW k \in After(log[r], c, cur[r][c]),
         NEW d \in Payloads \cup {NoOp},
         log' = [log EXCEPT ![r] = InsertAt(@, c, cur[r][c], k, d)]
  PROVE  SameShape
<1>1. log[r] \in Seq(Entry) /\ cur[r][c] \in Nat
  BY DEF Types, LogTypes
<1>2. Inserted(log[r], InsertAt(log[r], c, cur[r][c], k, d), c, cur[r][c], k, d)
  BY <1>1, InsertAtEffect
<1>3. log'[r] = InsertAt(log[r], c, cur[r][c], k, d)
  BY DEF Types, LogTypes
<1>4. \A s \in Replicas : s # r => log'[s] = log[s]
  BY DEF Types, LogTypes
<1>5. /\ Len(log'[r]) = Len(log[r])
      /\ \A m \in 1 .. Len(log[r]) :
           log'[r][m].client = log[r][m].client /\ log'[r][m].gsn = log[r][m].gsn
  BY <1>2, <1>3 DEF Inserted
<1>6. QED
  BY <1>4, <1>5 DEF SameShape

(* ... and so does every other operation on a log but that of new slots.   *)
LEMMA ShapeKept ==
  ASSUME Types, NEW r \in Replicas,
         \/ StorageClientPatch(r) \/ StorageClientFinalize(r)
         \/ \E c \in Clients : StorageInsert(r, c)
         \/ UNCHANGED log
  PROVE  SameShape
<1>1. CASE UNCHANGED log
  BY <1>1 DEF SameShape
<1>2. CASE StorageClientPatch(r)
  <2>1. FromOrder(r, "patch")
    BY <1>2 DEF StorageClientPatch
  <2>2. Head(toStorage[r]) \in Orders /\ Head(toStorage[r]).type = "patch"
    BY <2>1, FromOrderTypes
  <2>3. PICK c \in Clients, d \in Payloads, g \in Nat :
          c = Head(toStorage[r]).client /\ d = Head(toStorage[r]).data
            /\ g = Head(toStorage[r]).gsn
    BY <2>2 DEF Orders
  <2>4. PositionInsert(r, c, d, g) \/ UNCHANGED log
    BY <1>2, <2>3 DEF StorageClientPatch
  <2>5. CASE PositionInsert(r, c, d, g)
    <3>1. \/ UNCHANGED log
          \/ \E k \in After(log[r], c, cur[r][c]) :
               log' = [log EXCEPT ![r] = InsertAt(@, c, cur[r][c], k, d)]
      BY <2>5, PositionInsertEffect DEF Types
    <3>2. QED
      BY <1>1, <3>1, InsertShape
  <2>6. QED
    BY <1>1, <2>4, <2>5
<1>3. CASE StorageClientFinalize(r)
  <2>1. FromOrder(r, "finalize")
    BY <1>3 DEF StorageClientFinalize
  <2>2. PICK c \in Clients : c = Head(toStorage[r]).client
    BY <2>1, FromOrderTypes
  <2>3. log[r] \in Seq(Entry) /\ cur[r][c] \in Nat
    BY DEF Types, LogTypes
  <2>4. log' = [log EXCEPT ![r] = CloseAfter(@, c, cur[r][c])]
    BY <1>3, <2>2 DEF StorageClientFinalize
  <2>5. log'[r] = CloseAfter(log[r], c, cur[r][c])
    BY <2>4 DEF Types, LogTypes
  <2>6. \A s \in Replicas : s # r => log'[s] = log[s]
    BY <2>4 DEF Types, LogTypes
  <2>7. QED
    BY <2>3, <2>5, <2>6, CloseAfterEffect DEF SameShape
<1>4. ASSUME NEW c \in Clients, StorageInsert(r, c) PROVE SameShape
  <2>1. PICK d \in Payloads \cup {NoOp} : d = reqs[c][got[r][c] + 1].data
    BY <1>4, StorageInsertEffect
  <2>2. \/ UNCHANGED log
        \/ \E k \in After(log[r], c, cur[r][c]) :
             log' = [log EXCEPT ![r] = InsertAt(@, c, cur[r][c], k, d)]
    BY <1>4, <2>1, StorageInsertEffect
  <2>3. QED
    BY <1>1, <2>2, InsertShape
<1>5. QED
  BY <1>1, <1>2, <1>3, <1>4

(* What the steps do to the channels from the ordering service.            *)
ChannelStep ==
  \/ Epoch
  \/ /\ UNCHANGED <<log, gsnBase, epochs>>
     /\ \E S : (\A m \in S : m.type # "slots") /\ \E ms \in Seq(S) : Broadcast(ms)
  \/ \E r \in Replicas : StorageSlots(r)
  \/ /\ UNCHANGED <<gsnBase, epochs>> /\ SameShape
     /\ \E r \in Replicas : \E type \in {"freeze", "cut", "patch", "finalize"} :
          FromOrder(r, type)
  \/ UNCHANGED <<toStorage, gsnBase, epochs>> /\ SameShape

(* A message about a client is sent to all servers.                        *)
LEMMA OthersSent ==
  ASSUME Types, NEW c \in Clients, NEW b, Failed(c) \/ Requested(c, b) \/ Finalized(c)
  PROVE  \E S : (\A m \in S : m.type # "slots") /\ \E ms \in Seq(S) : Broadcast(ms)
<1>1. ASSUME NEW m, m.type # "slots", Broadcast(<<m>>)
      PROVE  \E S : (\A x \in S : x.type # "slots") /\ \E ms \in Seq(S) : Broadcast(ms)
  <2>1. <<m>> \in Seq({m})
    OBVIOUS
  <2>2. \A x \in {m} : x.type # "slots"
    BY <1>1
  <2>3. QED
    BY <1>1, <2>1, <2>2, Zenon
<1>2. CASE Failed(c)
  BY <1>1, <1>2 DEF Failed
<1>3. CASE Requested(c, b)
  BY <1>1, <1>3 DEF Requested
<1>4. CASE Finalized(c)
  <2>1. FinalMessages(c) \in Seq(FinalOrders(c))
    BY FinalMessagesType DEF Types
  <2>2. \A m \in FinalOrders(c) : m.type # "slots"
    BY DEF FinalOrders, PatchOrders
  <2>3. Broadcast(FinalMessages(c))
    BY <1>4 DEF Finalized, FinalMessages
  <2>4. QED
    BY <2>1, <2>2, <2>3, Zenon
<1>5. QED
  BY <1>2, <1>3, <1>4

(* Every step changes the channels to the storage servers, the numbering   *)
(* of slots and the logs in one of the ways that ChannelStep lists.        *)
LEMMA ChannelActions ==
  ASSUME Types, [Next]_vars
  PROVE  ChannelStep
<1>1. CASE UNCHANGED <<toStorage, gsnBase, epochs, log>>
  BY <1>1, ShapeKept, ReplicasAssumption DEF ChannelStep
<1>2. ASSUME NEW c \in Clients, NEW b, Failed(c) \/ Requested(c, b) \/ Finalized(c),
             UNCHANGED <<log, gsnBase, epochs>>
      PROVE  ChannelStep
  BY <1>2, OthersSent, Zenon DEF ChannelStep
<1>3. CASE UNCHANGED vars
  BY <1>1, <1>3 DEF vars, orderVars, channelVars, storageVars
<1>4. CASE Epoch
  BY <1>4 DEF ChannelStep
<1>5. ASSUME NEW c \in Clients, OrderFailureEvent(c) \/ OrderClientFinished(c)
      PROVE  ChannelStep
  <2>1. Failed(c) \/ Finalized(c)
    BY <1>5 DEF OrderFailureEvent, OrderClientFinished
  <2>2. UNCHANGED <<log, gsnBase, epochs>>
    BY <1>5 DEF OrderFailureEvent, OrderClientFinished, storageVars
  <2>3. QED
    BY <1>2, <2>1, <2>2
<1>6. ASSUME NEW c \in Clients, Client(c) PROVE ChannelStep
  <2>1. UNCHANGED <<toStorage, gsnBase, epochs, log>>
    BY <1>6 DEF Client, SendRequest, SendBye, InsertAck, AllStorageFinished, Crash,
                orderVars, channelVars, storageVars
  <2>2. QED
    BY <1>1, <2>1
<1>7. ASSUME NEW r \in Replicas, OrderFromStorage(r) PROVE ChannelStep
  <2>1. UNCHANGED <<log, gsnBase, epochs>>
    BY <1>7 DEF OrderFromStorage, OrderClientFreeze, OrderClientCut, OrderClientData,
                storageVars
  <2>2. Head(toOrder[r]).client \in Clients
    BY <1>7, FromStorageTypes DEF OrderFromStorage, OrderClientFreeze, OrderClientCut,
                                  OrderClientData
  <2>3. PICK c \in Clients : c = Head(toOrder[r]).client
    BY <2>2
  <2>4. \/ UNCHANGED toStorage
        \/ \E b : Failed(c) \/ Requested(c, b) \/ Finalized(c)
    <3>1. CASE OrderClientFreeze(r)
      BY <2>3, <3>1 DEF OrderClientFreeze
    <3>2. CASE OrderClientCut(r)
      BY <2>3, <3>2 DEF OrderClientCut
    <3>3. CASE OrderClientData(r)
      BY <2>3, <3>3 DEF OrderClientData
    <3>4. QED
      BY <1>7, <3>1, <3>2, <3>3 DEF OrderFromStorage
  <2>5. QED
    BY <1>1, <1>2, <2>1, <2>4
<1>8. ASSUME NEW r \in Replicas, ControlThread(r) PROVE ChannelStep
  <2>1. CASE StorageSlots(r)
    BY <2>1 DEF ChannelStep
  <2>2. CASE StorageClientFreeze(r) \/ StorageClientCut(r)
    <3>1. UNCHANGED <<gsnBase, epochs, log>>
      BY <2>2 DEF StorageClientFreeze, StorageClientCut, orderVars, storageVars
    <3>2. FromOrder(r, "freeze") \/ FromOrder(r, "cut")
      BY <2>2 DEF StorageClientFreeze, StorageClientCut
    <3>3. SameShape
      BY <3>1, ShapeKept
    <3>4. QED
      BY <3>1, <3>2, <3>3 DEF ChannelStep
  <2>3. CASE StorageClientPatch(r) \/ StorageClientFinalize(r)
    <3>1. UNCHANGED <<gsnBase, epochs>>
      BY <2>3 DEF StorageClientPatch, StorageClientFinalize, orderVars
    <3>2. FromOrder(r, "patch") \/ FromOrder(r, "finalize")
      BY <2>3 DEF StorageClientPatch, StorageClientFinalize
    <3>3. SameShape
      BY <2>3, ShapeKept
    <3>4. QED
      BY <3>1, <3>2, <3>3 DEF ChannelStep
  <2>4. QED
    BY <1>8, <2>1, <2>2, <2>3 DEF ControlThread
<1>9. ASSUME NEW r \in Replicas, NEW c \in Clients,
             StorageFailureEvent(r, c) \/ ClientThread(r, c)
      PROVE  ChannelStep
  <2>1. UNCHANGED <<toStorage, gsnBase, epochs>>
    BY <1>9 DEF StorageFailureEvent, ClientThread, StorageInsert, StorageClientFinished,
                orderVars
  <2>2. StorageInsert(r, c) \/ UNCHANGED log
    BY <1>9 DEF StorageFailureEvent, ClientThread, StorageClientFinished
  <2>3. SameShape
    BY <2>2, ShapeKept
  <2>4. QED
    BY <2>1, <2>3 DEF ChannelStep
<1>10. QED
  BY <1>3, <1>4, <1>5, <1>6, <1>7, <1>8, <1>9, Zenon DEF Next

(* The slots stay laid out when no log gets new ones.                      *)
LEMMA LaidStays ==
  ASSUME Types, NEW G, Laid(G), SameShape, UNCHANGED gsnBase,
         \A r \in Replicas : Pending(toStorage'[r], Len(log[r]), G)
  PROVE  Laid(G)'
BY DEF Laid, SameShape, Outline

(* The slots of an epoch.                                                  *)
LEMMA EpochLays ==
  ASSUME Types, SlotsInv, Epoch
  PROVE  SlotsInv'
<1>1. PICK G : Laid(G)
  BY DEF SlotsInv
<1>2. PICK A \in SUBSET Clients : A = {c \in Clients : phase[c] = "active"}
  OBVIOUS
<1>3. PICK ow \in Seq(Clients) : ow = Layout[A]
  BY LayoutAssumption
<1>4. PICK m : m = [type |-> "slots", start |-> gsnBase, owners |-> ow]
  OBVIOUS
<1>5. /\ epochs < MaxEpochs /\ epochs' = epochs + 1 /\ Broadcast(<<m>>)
      /\ gsnBase' = gsnBase + Len(ow) /\ UNCHANGED log
  BY <1>2, <1>3, <1>4 DEF Epoch, storageVars
<1>6. gsnBase \in Nat /\ epochs \in Nat /\ Len(ow) \in Nat
  BY DEF Types, OrderTypes
<1>7. FewSlots'
  <2>1. MaxEpochs * Len(ow) < NoGsn
    BY <1>3, NoGsnAssumption
  <2>2. (gsnBase + Len(ow)) * MaxEpochs <= (epochs + 1) * (NoGsn - 1)
    BY <1>5, <1>6, <2>1, SlotsArithmetic, NoGsnAssumption, BoundsAssumption
       DEF SlotsInv, FewSlots
  <2>3. QED
    BY <1>5, <1>6, <2>2, BoundsAssumption DEF FewSlots
<1>8. m \in Orders /\ m.type = "slots" /\ m.start = Len(G) /\ m.owners = ow
  BY <1>1, <1>4, <1>6 DEF Orders, Laid
<1>9. /\ G \o ow \in Seq(Clients) /\ Len(G \o ow) = Len(G) + Len(ow)
      /\ \A k \in 1 .. Len(G) : (G \o ow)[k] = G[k]
  BY <1>1 DEF Laid
<1>10. ASSUME NEW r \in Replicas
       PROVE  Outline(log'[r], G \o ow) /\ Pending(toStorage'[r], Len(log'[r]), G \o ow)
  <2>1. log'[r] = log[r] /\ log[r] \in Seq(Entry) /\ toStorage'[r] = toStorage[r] \o <<m>>
    BY <1>5 DEF Broadcast, Types, LogTypes
  <2>2. Outline(log[r], G \o ow)
    <3>1. Outline(log[r], G) /\ Len(G) \in Nat /\ Len(log[r]) \in Nat
      BY <1>1, <2>1 DEF Laid
    <3>2. \A k \in 1 .. Len(log[r]) : k \in 1 .. Len(G)
      BY <3>1 DEF Outline
    <3>3. QED
      BY <1>6, <1>9, <3>1, <3>2 DEF Outline
  <2>3. Pending(toStorage[r] \o <<m>>, Len(log[r]), G \o ow)
    <3>1. toStorage[r] \in Seq(Orders) /\ Len(log[r]) \in Nat /\ G \in Seq(Clients)
      BY <1>1, <2>1 DEF Types, ToStorageType, Laid
    <3>2. Pending(toStorage[r], Len(log[r]), G)
      BY <1>1 DEF Laid
    <3>3. PICK q \in Seq(Orders), n \in Nat : q = toStorage[r] /\ n = Len(log[r])
      BY <3>1
    <3>4. Pending(q \o <<m>>, n, G \o ow)
      BY <1>8, <3>1, <3>2, <3>3, PendingSlots
    <3>5. QED
      BY <3>3, <3>4
  <2>4. QED
    BY <2>1, <2>2, <2>3
<1>11. PICK H : H = G \o ow
  OBVIOUS
<1>12. Laid(H)'
  BY <1>1, <1>5, <1>9, <1>10, <1>11 DEF Laid
<1>13. QED
  BY <1>7, <1>12 DEF SlotsInv

(* A server adds the slots of an epoch to its log.                         *)
LEMMA SlotsAdded ==
  ASSUME Types, NEW G, Laid(G), NEW r \in Replicas, StorageSlots(r)
  PROVE  Laid(G)'
<1>1. FromOrder(r, "slots")
  BY DEF StorageSlots
<1>2. /\ toStorage[r] \in Seq(Orders) /\ toStorage[r] # << >>
      /\ Head(toStorage[r]) \in Orders /\ Head(toStorage[r]).type = "slots"
  BY <1>1, FromOrderTypes
<1>3. PICK m : m = Head(toStorage[r])
  OBVIOUS
<1>4. m.start \in Nat /\ m.owners \in Seq(Clients)
  BY <1>2, <1>3 DEF Orders
<1>5. PICK L \in Seq(Entry), q \in Seq(Orders) : L = log[r] /\ q = toStorage[r]
  BY <1>2 DEF Types, LogTypes
<1>6. G \in Seq(Clients) /\ Outline(L, G) /\ Pending(q, Len(L), G)
  BY <1>5 DEF Laid
<1>7. /\ m.start = Len(L) /\ Len(L) + Len(m.owners) <= Len(G)
      /\ \A k \in 1 .. Len(m.owners) : m.owners[k] = G[Len(L) + k]
      /\ Pending(Tail(q), Len(L) + Len(m.owners), G)
  <2>1. PICK n \in Nat : n = Len(L)
    OBVIOUS
  <2>2. q # << >> /\ Pending(q, n, G) /\ Head(q) = m /\ m.type = "slots"
    BY <1>2, <1>3, <1>5, <1>6, <2>1
  <2>3. /\ Head(q).start = n
        /\ n + Len(Head(q).owners) <= Len(G)
        /\ \A k \in 1 .. Len(Head(q).owners) : Head(q).owners[k] = G[n + k]
        /\ Pending(Tail(q), n + Len(Head(q).owners), G)
    BY <1>6, <2>2, PendingTail
  <2>4. QED
    BY <2>1, <2>2, <2>3
<1>8. log' = [log EXCEPT ![r] = @ \o NewSlots(m)]
  BY <1>3 DEF StorageSlots, NewSlots
<1>9. log'[r] = L \o NewSlots(m)
  BY <1>5, <1>8 DEF Types, LogTypes
<1>10. toStorage'[r] = Tail(q)
  BY <1>1, <1>5 DEF FromOrder, Types, ToStorageType
<1>11. /\ Len(L \o NewSlots(m)) = Len(L) + Len(m.owners)
       /\ \A k \in 1 .. Len(L) : (L \o NewSlots(m))[k] = L[k]
       /\ \A k \in 1 .. Len(m.owners) :
            (L \o NewSlots(m))[Len(L) + k] = NewEntry(m.start + k - 1, m.owners[k])
  BY <1>4, NewSlotsEffect
<1>12a. PICK J : J = L \o NewSlots(m)
  OBVIOUS
<1>12b. PICK l \in Nat, n \in Nat : l = Len(m.owners) /\ n = Len(L)
  BY <1>4
<1>12. J = L \o NewSlots(m) /\ l = Len(m.owners) /\ n = Len(L)
  BY <1>12a, <1>12b
<1>13. ASSUME NEW k \in 1 .. Len(J) PROVE J[k].client = G[k] /\ J[k].gsn = k - 1
  <2>1. CASE k <= n
    BY <1>6, <1>11, <1>12, <2>1 DEF Outline
  <2>2. CASE k > n
    <3>1. k - n \in 1 .. l /\ n + (k - n) = k
      BY <1>11, <1>12, <2>2
    <3>2. J[k] = NewEntry(m.start + (k - n) - 1, m.owners[k - n])
      BY <1>11, <1>12, <3>1
    <3>3. J[k].client = m.owners[k - n] /\ J[k].gsn = m.start + (k - n) - 1
      BY <3>2 DEF NewEntry
    <3>4. m.start = n /\ m.owners[k - n] = G[n + (k - n)]
      BY <1>7, <1>12, <3>1
    <3>5. QED
      BY <3>1, <3>3, <3>4
  <2>3. QED
    BY <1>11, <1>12, <2>1, <2>2
<1>14. Outline(J, G) /\ Pending(Tail(q), Len(J), G)
  BY <1>7, <1>11, <1>12, <1>13 DEF Outline
<1>15. Outline(log'[r], G) /\ Pending(toStorage'[r], Len(log'[r]), G)
  BY <1>9, <1>10, <1>12, <1>14
<1>16. \A s \in Replicas : s # r => log'[s] = log[s] /\ toStorage'[s] = toStorage[s]
  BY <1>1, <1>8 DEF FromOrder, Types, ToStorageType, LogTypes
<1>17. gsnBase' = gsnBase
  BY DEF StorageSlots, orderVars
<1>18. QED
  BY <1>15, <1>16, <1>17 DEF Laid

(* Every step keeps SlotsInv; the ghost list of slots grows with an epoch  *)
(* and stays otherwise.                                                    *)
LEMMA NextSlots ==
  ASSUME Types, SlotsInv, [Next]_vars
  PROVE  SlotsInv'
<1>1. PICK G : Laid(G)
  BY DEF SlotsInv
<1>2. G \in Seq(Clients) /\ \A r \in Replicas : toStorage[r] \in Seq(Orders)
  BY <1>1 DEF Laid, Types, ToStorageType
<1>3. \A r \in Replicas : Len(log[r]) \in Nat /\ Pending(toStorage[r], Len(log[r]), G)
  BY <1>1 DEF Laid, Types, LogTypes
<1>4. ASSUME Laid(G)', UNCHANGED <<gsnBase, epochs>> PROVE SlotsInv'
  BY <1>4 DEF SlotsInv, FewSlots
<1>5. CASE Epoch
  BY <1>5, EpochLays
<1>6. ASSUME NEW S, \A m \in S : m.type # "slots", NEW ms \in Seq(S), Broadcast(ms),
             UNCHANGED <<log, gsnBase, epochs>>
      PROVE  SlotsInv'
  <2>1. ASSUME NEW r \in Replicas PROVE Pending(toStorage'[r], Len(log[r]), G)
    <3>1. PICK q \in Seq(Orders), n \in Nat : q = toStorage[r] /\ n = Len(log[r])
      BY <1>2, <1>3
    <3>2. Pending(q \o ms, n, G)
      BY <1>2, <1>3, <1>6, <3>1, PendingOthers
    <3>3. toStorage'[r] = q \o ms
      BY <1>6, <3>1 DEF Broadcast
    <3>4. QED
      BY <3>1, <3>2, <3>3
  <2>2. SameShape
    BY <1>6 DEF SameShape
  <2>3. QED
    BY <1>1, <1>4, <1>6, <2>1, <2>2, LaidStays
<1>7. ASSUME NEW r \in Replicas, StorageSlots(r) PROVE SlotsInv'
  <2>1. UNCHANGED <<gsnBase, epochs>>
    BY <1>7 DEF StorageSlots, orderVars
  <2>2. QED
    BY <1>1, <1>4, <1>7, <2>1, SlotsAdded
<1>8. ASSUME UNCHANGED <<gsnBase, epochs>>, SameShape, NEW r \in Replicas,
             NEW type \in {"freeze", "cut", "patch", "finalize"}, FromOrder(r, type)
      PROVE  SlotsInv'
  <2>1. toStorage[r] # << >> /\ Head(toStorage[r]).type # "slots"
    BY <1>8 DEF FromOrder
  <2>2. PICK q \in Seq(Orders), n \in Nat : q = toStorage[r] /\ n = Len(log[r])
    BY <1>2, <1>3
  <2>3. Pending(Tail(q), n, G)
    BY <1>2, <1>3, <2>1, <2>2, PendingTail
  <2>4. toStorage'[r] = Tail(q) /\ \A s \in Replicas : s # r => toStorage'[s] = toStorage[s]
    BY <1>8, <2>2 DEF FromOrder, Types, ToStorageType
  <2>5. \A s \in Replicas : Pending(toStorage'[s], Len(log[s]), G)
    BY <1>3, <2>2, <2>3, <2>4
  <2>6. QED
    BY <1>1, <1>4, <1>8, <2>5, LaidStays
<1>9. CASE UNCHANGED <<toStorage, gsnBase, epochs>> /\ SameShape
  <2>1. \A s \in Replicas : Pending(toStorage'[s], Len(log[s]), G)
    BY <1>3, <1>9
  <2>2. QED
    BY <1>1, <1>4, <1>9, <2>1, LaidStays
<1>10. QED
  BY <1>5, <1>6, <1>7, <1>8, <1>9, ChannelActions, Zenon DEF ChannelStep

(* Initially no slots have been announced: the ghost list is empty.        *)
LEMMA InitSlots == Init => SlotsInv
<1> SUFFICES ASSUME Init PROVE SlotsInv
  OBVIOUS
<1>1. FewSlots
  BY BoundsAssumption, NoGsnAssumption DEF Init, FewSlots
<1>2. PICK G \in Seq(Clients) : G = << >>
  BY EmptySeq, Zenon
<1>3. PICK e : e = [i \in 0 .. 0 |-> 0]
  OBVIOUS
<1>4. Chain(e, << >>, 0, G)
  BY <1>2, <1>3 DEF Chain
<1>5. Pending(<< >>, 0, G)
  BY <1>4 DEF Pending
<1>6. \A r \in Replicas : log[r] = << >> /\ toStorage[r] = << >>
  BY DEF Init
<1>7. Laid(G)
  BY <1>2, <1>5, <1>6 DEF Laid, Outline, Init
<1>8. QED
  BY <1>1, <1>7 DEF SlotsInv

(* The slots of all logs are prefixes of one sequence of slots, and the    *)
(* rest of that sequence is on its way.                                    *)
THEOREM SlotsInvariant == Spec => []SlotsInv
<1>1. Init => SlotsInv
  BY InitSlots
<1>2. Types /\ SlotsInv /\ [Next]_vars => SlotsInv'
  BY NextSlots
<1>3. QED
  BY <1>1, <1>2, TypesInvariant, PTL DEF Spec

-----------------------------------------------------------------------------
(* Requests: a request is at the same place of all logs that have it.      *)

(* The request m of client c is at position k of the log L, and has used   *)
(* up the slots after position i, that of the request before.              *)
PlacedAt(L, c, m, i, k) ==
  /\ m.type = "insert"
  /\ k \in 1 .. Len(L) /\ L[k].client = c /\ i < k
  /\ Cardinality(UpTo(After(L, c, i), k)) = m.num
  /\ \A x \in 1 .. Len(L) : i < x /\ x <= k /\ L[x].client = c =>
       L[x].set /\ L[x].data = IF x = k THEN m.data ELSE NoOp

(* The places of the requests of a client, by number; 0 stands for the     *)
(* place before the log.                                                   *)
IsPlaces(pl) == pl \in [Nat -> Nat]

(* The places of the first a requests are in order.                        *)
Ascending(pl, a) == \A p, q \in 0 .. a : p < q => pl[p] < pl[q]

(* Replica r has accepted the first a requests of client c, and they are   *)
(* where pl says.  A server that still accepts requests has accepted all   *)
(* that it got, and is at the last one.                                    *)
Account(r, c, pl, a) ==
  /\ a <= got[r][c] /\ got[r][c] <= Len(reqs[c])
  /\ Ascending(pl, a)
  /\ \A q \in 1 .. a : PlacedAt(log[r], c, reqs[c][q], pl[q - 1], pl[q])
  /\ pl[a] <= cur[r][c]
  /\ c \notin disc[r] /\ r \notin aborted => got[r][c] = a /\ cur[r][c] = pl[a]
  /\ latestGsn[r][c] = IF a = 0 THEN NoGsn ELSE pl[a] - 1

Accounts(place, acc) ==
  /\ DOMAIN place = Clients /\ acc \in [Replicas -> [Clients -> Nat]]
  /\ \A c \in Clients : IsPlaces(place[c]) /\ place[c][0] = 0
  /\ \A r \in Replicas, c \in Clients : Account(r, c, place[c], acc[r][c])

PlacesInv == \E place, acc : Accounts(place, acc)

(* The slots of a client up to a position are the same in logs that have   *)
(* the same slots up to there.                                             *)
LEMMA SameUpTo ==
  ASSUME NEW L \in Seq(Entry), NEW J \in Seq(Entry), NEW c, NEW i \in Nat,
         NEW k \in Nat, k <= Len(L), k <= Len(J),
         \A m \in 1 .. k : J[m].client = L[m].client
  PROVE  UpTo(After(J, c, i), k) = UpTo(After(L, c, i), k)
<1>1. /\ \A m : m \in After(L, c, i) <=> m \in 1 .. Len(L) /\ m > i /\ L[m].client = c
      /\ \A m : m \in After(J, c, i) <=> m \in 1 .. Len(J) /\ m > i /\ J[m].client = c
  BY AfterType
<1>2. Len(L) \in Nat /\ Len(J) \in Nat
  OBVIOUS
<1>3. ASSUME NEW m PROVE m \in UpTo(After(J, c, i), k) <=> m \in UpTo(After(L, c, i), k)
  <2>1. m \in UpTo(After(J, c, i), k) <=> m \in 1 .. k /\ m > i /\ J[m].client = c
    BY <1>1, <1>2 DEF UpTo
  <2>2. m \in UpTo(After(L, c, i), k) <=> m \in 1 .. k /\ m > i /\ L[m].client = c
    BY <1>1, <1>2 DEF UpTo
  <2>3. QED
    BY <2>1, <2>2
<1>4. QED
  BY <1>3

(* More slots are used up to a later place, also in another log.           *)
LEMMA LaterPlace ==
  ASSUME NEW L \in Seq(Entry), NEW J \in Seq(Entry), NEW c, NEW i \in Nat,
         NEW k \in After(L, c, i), NEW m \in After(J, c, i), k < m,
         \A x \in 1 .. Len(L) : x <= Len(J) => J[x].client = L[x].client
  PROVE  /\ Cardinality(UpTo(After(L, c, i), k)) \in Nat
         /\ Cardinality(UpTo(After(J, c, i), m)) \in Nat
         /\ Cardinality(UpTo(After(L, c, i), k)) < Cardinality(UpTo(After(J, c, i), m))
<1>1. /\ k \in Nat /\ m \in Nat /\ k \in 1 .. Len(L) /\ m \in 1 .. Len(J)
      /\ Len(L) \in Nat /\ Len(J) \in Nat
  BY AfterType
<1>2. k <= Len(L) /\ k <= Len(J) /\ \A x \in 1 .. k : J[x].client = L[x].client
  BY <1>1
<1>3. UpTo(After(J, c, i), k) = UpTo(After(L, c, i), k)
  BY <1>1, <1>2, SameUpTo
<1>4. After(J, c, i) \subseteq Nat /\ IsFiniteSet(After(J, c, i))
  BY AfterType
<1>5. QED
  BY <1>1, <1>3, <1>4, UpToGrows

(* Two servers that put a request after the same place put it in the same  *)
(* place.                                                                  *)
LEMMA SamePlace ==
  ASSUME NEW L \in Seq(Entry), NEW J \in Seq(Entry), NEW c, NEW i \in Nat,
         NEW k \in After(L, c, i), NEW m \in After(J, c, i),
         Cardinality(UpTo(After(L, c, i), k)) = Cardinality(UpTo(After(J, c, i), m)),
         \A x \in 1 .. Len(L) : x <= Len(J) => J[x].client = L[x].client
  PROVE  k = m
<1>1. k \in Nat /\ m \in Nat /\ Len(L) \in Nat /\ Len(J) \in Nat
  BY AfterType
<1>2. \A x \in 1 .. Len(J) : x <= Len(L) => L[x].client = J[x].client
  BY <1>1
<1>3. CASE k < m
  BY <1>3, LaterPlace
<1>4. CASE m < k
  BY <1>2, <1>4, LaterPlace
<1>5. QED
  BY <1>1, <1>3, <1>4

(* A request stays where it is.                                            *)
LEMMA PlacedStays ==
  ASSUME NEW L \in Seq(Entry), NEW J \in Seq(Entry), NEW cu \in [Clients -> Nat],
         NEW cv, Kept(L, cu, J, cv), NEW c \in Clients,
         NEW m, NEW i \in Nat, NEW k \in Nat, k <= cu[c], PlacedAt(L, c, m, i, k)
  PROVE  PlacedAt(J, c, m, i, k)
<1>1. /\ Len(L) \in Nat /\ Len(J) \in Nat /\ Len(L) <= Len(J) /\ k \in 1 .. Len(L)
      /\ k \in 1 .. Len(J) /\ L[k].client = c /\ i < k
  BY DEF Kept, PlacedAt
<1>2. \A x \in 1 .. k : J[x].client = L[x].client
  BY <1>1 DEF Kept
<1>3. \A x \in 1 .. k : L[x].client = c => J[x] = L[x]
  <2> SUFFICES ASSUME NEW x \in 1 .. k, L[x].client = c PROVE J[x] = L[x]
    OBVIOUS
  <2>1. x \in 1 .. Len(L) /\ x <= cu[c]
    BY <1>1
  <2>2. QED
    BY <2>1 DEF Kept
<1>4. UpTo(After(J, c, i), k) = UpTo(After(L, c, i), k)
  BY <1>1, <1>2, SameUpTo
<1>5. ASSUME NEW x \in 1 .. Len(J), i < x, x <= k, J[x].client = c
      PROVE  J[x].set /\ J[x].data = IF x = k THEN m.data ELSE NoOp
  <2>1. x \in 1 .. k /\ x \in 1 .. Len(L)
    BY <1>1, <1>5
  <2>2. L[x].client = c /\ J[x] = L[x]
    BY <1>2, <1>3, <1>5, <2>1
  <2>3. L[x].set /\ L[x].data = IF x = k THEN m.data ELSE NoOp
    BY <1>5, <2>1, <2>2 DEF PlacedAt
  <2>4. QED
    BY <2>2, <2>3
<1>6. J[k].client = c
  BY <1>1, <1>2
<1>7. QED
  BY <1>1, <1>4, <1>5, <1>6 DEF PlacedAt

(* The fields of an entry that is set.                                     *)
LEMMA SetFields ==
  ASSUME NEW e, NEW g, NEW c, NEW d,
         e = [gsn |-> g, client |-> c, set |-> TRUE, data |-> d]
  PROVE  e.set /\ e.data = d
<1>1. e.set = TRUE
  OBVIOUS
<1>2. e.data = d
  OBVIOUS
<1>3. QED
  BY <1>1, <1>2, Zenon

(* A request that a server inserts is placed.                              *)
LEMMA InsertPlaces ==
  ASSUME NEW L \in Seq(Entry), NEW cu \in [Clients -> Nat], LogOK(L, cu),
         NEW c \in Clients, NEW m, m.type = "insert", m.data \in Payloads \cup {NoOp},
         NEW i \in Nat, i = cu[c], NEW k \in After(L, c, i),
         Cardinality(UpTo(After(L, c, i), k)) = m.num
  PROVE  PlacedAt(InsertAt(L, c, i, k, m.data), c, m, i, k)
<1>1. PICK d \in Payloads \cup {NoOp} : d = m.data
  OBVIOUS
<1>2. PICK J : J = InsertAt(L, c, i, k, d)
  OBVIOUS
<1>3. J \in Seq(Entry) /\ Inserted(L, J, c, i, k, d)
  BY <1>2, InsertAtEffect
<1>4. k \in Nat /\ k \in 1 .. Len(L) /\ k > i /\ L[k].client = c /\ Len(L) \in Nat
  BY AfterType
<1>5. Len(J) = Len(L) /\ \A x \in 1 .. Len(L) : J[x].client = L[x].client
  BY <1>3 DEF Inserted
<1>6. UpTo(After(J, c, i), k) = UpTo(After(L, c, i), k)
  <2>1. k <= Len(L) /\ k <= Len(J) /\ \A x \in 1 .. k : J[x].client = L[x].client
    BY <1>4, <1>5
  <2>2. QED
    BY <1>3, <1>4, <2>1, SameUpTo
<1>7. ASSUME NEW x \in 1 .. Len(J), i < x, x <= k, J[x].client = c
      PROVE  J[x].set /\ J[x].data = IF x = k THEN d ELSE NoOp
  <2>1. x \in 1 .. Len(L) /\ L[x].client = c
    BY <1>5, <1>7
  <2>2. CASE x = k
    <3>1. J[k] = [gsn |-> L[k].gsn, client |-> c, set |-> TRUE, data |-> d]
      BY <1>3 DEF Inserted
    <3>2. J[k].set /\ J[k].data = d
      BY <3>1, SetFields
    <3>3. QED
      BY <2>2, <3>2
  <2>3. CASE x < k
    <3>1. J[x] = [gsn |-> L[x].gsn, client |-> c, set |-> TRUE, data |-> L[x].data]
      BY <1>3, <1>7, <2>1, <2>3 DEF Inserted
    <3>2. J[x].set /\ J[x].data = L[x].data
      BY <3>1, SetFields
    <3>3. L[x].data = NoOp
      BY <1>7, <2>1 DEF LogOK
    <3>4. x # k
      BY <1>4, <2>3
    <3>5. QED
      BY <3>2, <3>3, <3>4
  <2>4. QED
    BY <1>4, <1>7, <2>2, <2>3
<1>8. PlacedAt(J, c, m, i, k)
  BY <1>1, <1>4, <1>5, <1>6, <1>7 DEF PlacedAt
<1>9. QED
  BY <1>1, <1>2, <1>8

(* The requests of client c stay, and there may be more of them.           *)
Extended(c) ==
  /\ Len(reqs[c]) <= Len(reqs'[c])
  /\ \A q \in 1 .. Len(reqs[c]) : reqs'[c][q] = reqs[c][q]

(* A step in which replica r accepts nothing from client c.                *)
QuietAt(r, c) ==
  /\ got[r][c] <= got'[r][c]
  /\ got[r][c] <= Len(reqs[c]) => got'[r][c] <= Len(reqs'[c])
  /\ latestGsn'[r][c] = latestGsn[r][c]
  /\ c \notin disc'[r] /\ r \notin aborted' =>
       /\ c \notin disc[r] /\ r \notin aborted
       /\ got'[r][c] = got[r][c] /\ cur'[r][c] = cur[r][c]

(* A step in which replica r accepts the next request of client c, into    *)
(* position k.                                                             *)
AcceptedAt(r, c, k) ==
  LET m == reqs[c][got[r][c] + 1] IN
  /\ r \notin aborted /\ c \notin disc[r] /\ got[r][c] + 1 \in 1 .. Len(reqs[c])
  /\ m.type = "insert" /\ m.data \in Payloads \cup {NoOp} /\ m.num \in Nat
  /\ k \in After(log[r], c, cur[r][c])
  /\ Cardinality(UpTo(After(log[r], c, cur[r][c]), k)) = m.num
  /\ log' = [log EXCEPT ![r] = InsertAt(@, c, cur[r][c], k, m.data)]
  /\ cur' = [cur EXCEPT ![r][c] = k]
  /\ latestGsn' = [latestGsn EXCEPT ![r][c] = log[r][k].gsn]
  /\ acks' = IF alive[c] THEN [acks EXCEPT ![c][r] = Append(@, log[r][k].gsn)] ELSE acks
  /\ got' = [got EXCEPT ![r][c] = @ + 1]
  /\ UNCHANGED <<disc, aborted, clientVars>>

(* Requests are never taken back.                                          *)
LEMMA RequestsKept ==
  ASSUME Types, [Next]_vars, NEW x \in Clients
  PROVE  Extended(x)
<1>1. reqs[x] \in Seq(CMessage)
  BY DEF Types, ClientTypes
<1>2. CASE UNCHANGED reqs
  BY <1>1, <1>2 DEF Extended
<1>3. ASSUME NEW c \in Clients, NEW m, reqs' = [reqs EXCEPT ![c] = Append(@, m)]
      PROVE  Extended(x)
  <2>1. CASE x # c
    <3>1. reqs'[x] = reqs[x]
      BY <1>3, <2>1 DEF Types, ClientTypes
    <3>2. QED
      BY <1>1, <3>1 DEF Extended
  <2>2. CASE x = c
    <3>1. reqs'[x] = Append(reqs[x], m)
      BY <1>3, <2>2 DEF Types, ClientTypes
    <3>2. QED
      BY <1>1, <3>1 DEF Extended
  <2>3. QED
    BY <2>1, <2>2
<1>4. CASE UNCHANGED vars
  BY <1>2, <1>4 DEF vars, clientVars
<1>5. CASE Epoch
  BY <1>2, <1>5 DEF Epoch
<1>6. ASSUME NEW c \in Clients, OrderFailureEvent(c) \/ OrderClientFinished(c)
      PROVE  Extended(x)
  BY <1>2, <1>6 DEF OrderFailureEvent, OrderClientFinished, clientVars
<1>7. ASSUME NEW c \in Clients, Client(c) PROVE Extended(x)
  <2>1. ASSUME NEW d, NEW n, SendRequest(c, d, n) PROVE Extended(x)
    BY <1>3, <2>1 DEF SendRequest
  <2>2. CASE SendBye(c)
    BY <1>3, <2>2 DEF SendBye
  <2>3. CASE (\E r \in Replicas : InsertAck(c, r)) \/ AllStorageFinished(c) \/ Crash(c)
    BY <1>2, <2>3 DEF InsertAck, AllStorageFinished, Crash
  <2>4. QED
    BY <1>7, <2>1, <2>2, <2>3 DEF Client
<1>8. ASSUME NEW r \in Replicas, OrderFromStorage(r) PROVE Extended(x)
  BY <1>2, <1>8 DEF OrderFromStorage, OrderClientFreeze, OrderClientCut, OrderClientData,
                    clientVars
<1>9. ASSUME NEW r \in Replicas, ControlThread(r) PROVE Extended(x)
  BY <1>2, <1>9 DEF ControlThread, StorageSlots, StorageClientFreeze, StorageClientCut,
                    StorageClientPatch, StorageClientFinalize, clientVars
<1>10. ASSUME NEW r \in Replicas, NEW c \in Clients,
             StorageFailureEvent(r, c) \/ ClientThread(r, c)
      PROVE  Extended(x)
  BY <1>2, <1>10 DEF StorageFailureEvent, ClientThread, StorageInsert,
                     StorageClientFinished, clientVars
<1>11. QED
  BY <1>4, <1>5, <1>6, <1>7, <1>8, <1>9, <1>10, Zenon DEF Next

Quiet == \A r \in Replicas, c \in Clients : QuietAt(r, c)

(* Replica r takes a message of client c without accepting a request.      *)
LEMMA TakenQuiet ==
  ASSUME Types, Types', NEW r \in Replicas, NEW c \in Clients, NEW type,
         FromClient(r, c, type), UNCHANGED <<cur, latestGsn, reqs>>,
         \A s \in Replicas : disc[s] \subseteq disc'[s], aborted \subseteq aborted',
         c \in disc'[r] \/ r \in aborted'
  PROVE  Quiet
<1> SUFFICES ASSUME NEW s \in Replicas, NEW x \in Clients PROVE QuietAt(s, x)
  BY DEF Quiet
<1>1. got[s][x] \in Nat /\ got[r][c] + 1 \in 1 .. Len(reqs[c])
  BY FromClientTypes DEF Types, ServerTypes
<1>2. got' = [got EXCEPT ![r][c] = @ + 1]
  BY DEF FromClient
<1>3. CASE s = r /\ x = c
  <2>1. got'[s][x] = got[s][x] + 1
    BY <1>2, <1>3 DEF Types, ServerTypes
  <2>2. QED
    BY <1>1, <1>3, <2>1 DEF QuietAt
<1>4. CASE s # r \/ x # c
  <2>1. got'[s][x] = got[s][x]
    BY <1>2, <1>4 DEF Types, ServerTypes
  <2>2. QED
    BY <1>1, <2>1 DEF QuietAt
<1>5. QED
  BY <1>3, <1>4

(* Replica r works on the log of a client that it has disconnected.        *)
LEMMA RecoveryQuiet ==
  ASSUME Types, Types', NEW r \in Replicas, NEW c \in Clients, c \in disc[r],
         UNCHANGED <<got, latestGsn, disc, reqs>>, aborted \subseteq aborted',
         \/ UNCHANGED cur
         \/ \E k : cur' = [cur EXCEPT ![r][c] = k]
  PROVE  Quiet
<1> SUFFICES ASSUME NEW s \in Replicas, NEW x \in Clients PROVE QuietAt(s, x)
  BY DEF Quiet
<1>1. got[s][x] \in Nat
  BY DEF Types, ServerTypes
<1>2. CASE s = r /\ x = c
  BY <1>1, <1>2 DEF QuietAt
<1>3. CASE s # r \/ x # c
  <2>1. cur'[s][x] = cur[s][x]
    BY <1>3, SMTT(30) DEF Types, LogTypes
  <2>2. QED
    BY <1>1, <2>1 DEF QuietAt
<1>4. QED
  BY <1>2, <1>3

(* A client's request is dropped, without an acknowledgement, or accepted. *)
LEMMA InsertOutcome ==
  ASSUME Types, Types', NEW r \in Replicas, NEW c \in Clients, StorageInsert(r, c)
  PROVE  (Quiet /\ UNCHANGED acks) \/ \E k : AcceptedAt(r, c, k)
<1>1. FromClient(r, c, "insert") /\ UNCHANGED <<disc, clientVars>>
  BY DEF StorageInsert
<1>2. UNCHANGED reqs
  BY <1>1 DEF clientVars
<1>3. PICK m : m = reqs[c][got[r][c] + 1]
  OBVIOUS
<1>4. m.data \in Payloads \cup {NoOp} /\ m.num \in Nat
  BY <1>3, StorageInsertEffect
<1>5. CASE c \in disc[r] /\ UNCHANGED <<log, cur, latestGsn, aborted, acks>>
  BY <1>1, <1>2, <1>5, TakenQuiet
<1>6. CASE aborted' = aborted \cup {r} /\ UNCHANGED <<cur, latestGsn, acks>>
  BY <1>1, <1>2, <1>6, TakenQuiet
<1>7. ASSUME c \notin disc[r], UNCHANGED aborted,
             NEW k \in After(log[r], c, cur[r][c]),
             Cardinality(UpTo(After(log[r], c, cur[r][c]), k)) = m.num,
             log' = [log EXCEPT ![r] = InsertAt(@, c, cur[r][c], k, m.data)],
             cur' = [cur EXCEPT ![r][c] = k],
             latestGsn' = [latestGsn EXCEPT ![r][c] = log[r][k].gsn],
             acks' = IF alive[c] THEN [acks EXCEPT ![c][r] = Append(@, log[r][k].gsn)]
                     ELSE acks
      PROVE  AcceptedAt(r, c, k)
  <2>1. r \notin aborted /\ got[r][c] + 1 \in 1 .. Len(reqs[c]) /\ m.type = "insert"
    BY <1>1, <1>3, FromClientTypes
  <2>2. got' = [got EXCEPT ![r][c] = @ + 1]
    BY <1>1 DEF FromClient
  <2>3. QED
    BY <1>1, <1>3, <1>4, <1>7, <2>1, <2>2, Zenon DEF AcceptedAt
<1>8. QED
  BY <1>3, <1>5, <1>6, <1>7, StorageInsertEffect

(* In a step nothing is accepted, or one request is.                       *)
LEMMA ServerActions ==
  ASSUME Types, Types', OrdersDirected, [Next]_vars
  PROVE  Quiet \/ \E r \in Replicas, c \in Clients : \E k : AcceptedAt(r, c, k)
<1>0. \A r \in Replicas, c \in Clients : got[r][c] \in Nat
  BY DEF Types, ServerTypes
<1>1. ASSUME UNCHANGED <<got, latestGsn, cur, aborted>>,
             \A s \in Replicas : disc[s] \subseteq disc'[s]
      PROVE  Quiet
  <2> SUFFICES ASSUME NEW s \in Replicas, NEW x \in Clients PROVE QuietAt(s, x)
    BY DEF Quiet
  <2>1. Len(reqs[x]) <= Len(reqs'[x]) /\ Len(reqs[x]) \in Nat /\ Len(reqs'[x]) \in Nat
    BY RequestsKept, SMTT(30) DEF Extended, Types, ClientTypes
  <2>2. QED
    BY <1>0, <1>1, <2>1 DEF QuietAt
<1>2. ASSUME UNCHANGED storageVars PROVE Quiet
  BY <1>1, <1>2 DEF storageVars
<1>3. CASE UNCHANGED vars
  BY <1>2, <1>3 DEF vars
<1>4. CASE Epoch
  BY <1>2, <1>4 DEF Epoch, storageVars
<1>5. ASSUME NEW c \in Clients, OrderFailureEvent(c) \/ OrderClientFinished(c)
      PROVE  Quiet
  BY <1>2, <1>5 DEF OrderFailureEvent, OrderClientFinished, storageVars
<1>6. ASSUME NEW c \in Clients, Client(c) PROVE Quiet
  BY <1>2, <1>6 DEF Client, SendRequest, SendBye, InsertAck, AllStorageFinished, Crash,
                    storageVars
<1>7. ASSUME NEW r \in Replicas, OrderFromStorage(r) PROVE Quiet
  BY <1>2, <1>7 DEF OrderFromStorage, OrderClientFreeze, OrderClientCut, OrderClientData,
                    storageVars
<1>8. ASSUME NEW r \in Replicas, ControlThread(r) PROVE Quiet
  <2>1. CASE StorageSlots(r)
    BY <1>1, <2>1 DEF StorageSlots
  <2>2. CASE StorageClientFreeze(r)
    <3>1. UNCHANGED <<got, latestGsn, cur, aborted>>
      BY <2>2 DEF StorageClientFreeze
    <3>2. disc' = [disc EXCEPT ![r] = @ \cup {Head(toStorage[r]).client}]
      BY <2>2 DEF StorageClientFreeze
    <3>3. \A s \in Replicas : disc[s] \subseteq disc'[s]
      BY <3>2 DEF Types, ServerTypes
    <3>4. QED
      BY <1>1, <3>1, <3>3
  <2>3. CASE StorageClientCut(r)
    BY <1>2, <2>3 DEF StorageClientCut, storageVars
  <2>4. CASE StorageClientPatch(r)
    <3>1. FromOrder(r, "patch")
      BY <2>4 DEF StorageClientPatch
    <3>2. /\ Head(toStorage[r]) \in Orders /\ Head(toStorage[r]).type = "patch"
          /\ toStorage[r] # << >>
      BY <3>1, FromOrderTypes
    <3>3. Head(toStorage[r]) \in Directed(r)
      BY <3>2 DEF OrdersDirected
    <3>4. PICK c \in Clients, d \in Payloads, g \in Nat :
            c = Head(toStorage[r]).client /\ d = Head(toStorage[r]).data
              /\ g = Head(toStorage[r]).gsn
      BY <3>2 DEF Orders
    <3>5. c \in disc[r]
      BY <3>2, <3>3, <3>4 DEF Directed
    <3>6. PositionInsert(r, c, d, g) \/ UNCHANGED <<cur, aborted>>
      BY <2>4, <3>4 DEF StorageClientPatch
    <3>7. /\ aborted \subseteq aborted'
          /\ UNCHANGED cur \/ \E k : cur' = [cur EXCEPT ![r][c] = k]
      BY <3>6 DEF PositionInsert
    <3>8. UNCHANGED <<got, latestGsn, disc, reqs>>
      BY <2>4 DEF StorageClientPatch, clientVars
    <3>9. QED
      BY <3>5, <3>7, <3>8, RecoveryQuiet
  <2>5. CASE StorageClientFinalize(r)
    <3>1. FromOrder(r, "finalize")
      BY <2>5 DEF StorageClientFinalize
    <3>2. /\ Head(toStorage[r]) \in Orders /\ Head(toStorage[r]).type = "finalize"
          /\ toStorage[r] # << >>
      BY <3>1, FromOrderTypes
    <3>3. Head(toStorage[r]) \in Directed(r)
      BY <3>2 DEF OrdersDirected
    <3>4. PICK c \in Clients : c = Head(toStorage[r]).client
      BY <3>1, FromOrderTypes
    <3>5. c \in disc[r]
      BY <3>2, <3>3, <3>4 DEF Directed
    <3>6. cur' = [cur EXCEPT ![r][c] = LastOf(log[r], c, @)]
      BY <2>5, <3>4 DEF StorageClientFinalize
    <3>7. \E k : cur' = [cur EXCEPT ![r][c] = k]
      BY <3>6
    <3>8. UNCHANGED <<got, latestGsn, disc, reqs, aborted>>
      BY <2>5 DEF StorageClientFinalize, clientVars
    <3>9. QED
      BY <3>5, <3>7, <3>8, RecoveryQuiet
  <2>6. QED
    BY <1>8, <2>1, <2>2, <2>3, <2>4, <2>5 DEF ControlThread
<1>9. ASSUME NEW r \in Replicas, NEW c \in Clients, StorageFailureEvent(r, c)
      PROVE  Quiet
  <2>1. disc' = [disc EXCEPT ![r] = @ \cup {c}]
    BY <1>9 DEF StorageFailureEvent
  <2>2. \A s \in Replicas : disc[s] \subseteq disc'[s]
    BY <2>1 DEF Types, ServerTypes
  <2>3. QED
    BY <1>1, <1>9, <2>2 DEF StorageFailureEvent
<1>10. ASSUME NEW r \in Replicas, NEW c \in Clients, StorageClientFinished(r, c)
       PROVE  Quiet
  <2>1. FromClient(r, c, "bye") /\ UNCHANGED <<cur, latestGsn, reqs, aborted>>
    BY <1>10 DEF StorageClientFinished, clientVars
  <2>2. c \in disc'[r] /\ \A s \in Replicas : disc[s] \subseteq disc'[s]
    BY <1>10 DEF StorageClientFinished, Types, ServerTypes
  <2>3. QED
    BY <2>1, <2>2, TakenQuiet
<1>11. ASSUME NEW r \in Replicas, NEW c \in Clients, StorageInsert(r, c)
       PROVE  Quiet \/ \E k : AcceptedAt(r, c, k)
  BY <1>11, InsertOutcome
<1>12. QED
  BY <1>3, <1>4, <1>5, <1>6, <1>7, <1>8, <1>9, <1>10, <1>11, Zenon DEF Next, ClientThread

(* The places pl and pm are the same for the first a requests.             *)
SamePlaces(pl, pm, a) == \A p \in 0 .. a : pm[p] = pl[p]

(* Types of the state of one server and one client, before a step ...      *)
LEMMA StateTypes ==
  ASSUME Types, NEW r \in Replicas, NEW c \in Clients
  PROVE  /\ got[r][c] \in Nat /\ cur[r][c] \in Nat /\ cur[r] \in [Clients -> Nat]
         /\ reqs[c] \in Seq(CMessage) /\ Len(reqs[c]) \in Nat /\ log[r] \in Seq(Entry)
         /\ acks[c][r] \in Seq(Nat) /\ out[c] \in Seq(Outstanding) /\ latest[c] \in Nat
<1>1. got[r][c] \in Nat /\ cur[r][c] \in Nat /\ cur[r] \in [Clients -> Nat]
  BY DEF Types, ServerTypes, LogTypes
<1>2. reqs[c] \in Seq(CMessage) /\ out[c] \in Seq(Outstanding) /\ latest[c] \in Nat
  BY DEF Types, ClientTypes
<1>3. Len(reqs[c]) \in Nat
  BY <1>2
<1>4. log[r] \in Seq(Entry) /\ acks[c][r] \in Seq(Nat)
  BY DEF Types, LogTypes, AcksType
<1>5. QED
  BY <1>1, <1>2, <1>3, <1>4

(* ... and after it.                                                       *)
LEMMA StateTypesNext ==
  ASSUME Types', NEW r \in Replicas, NEW c \in Clients
  PROVE  /\ got'[r][c] \in Nat /\ cur'[r][c] \in Nat /\ cur'[r] \in [Clients -> Nat]
         /\ reqs'[c] \in Seq(CMessage) /\ Len(reqs'[c]) \in Nat /\ log'[r] \in Seq(Entry)
         /\ acks'[c][r] \in Seq(Nat) /\ out'[c] \in Seq(Outstanding) /\ latest'[c] \in Nat
<1>1. got'[r][c] \in Nat /\ cur'[r][c] \in Nat /\ cur'[r] \in [Clients -> Nat]
  BY DEF Types, ServerTypes, LogTypes
<1>2. reqs'[c] \in Seq(CMessage) /\ out'[c] \in Seq(Outstanding) /\ latest'[c] \in Nat
  BY DEF Types, ClientTypes
<1>3. Len(reqs'[c]) \in Nat
  BY <1>2
<1>4. log'[r] \in Seq(Entry) /\ acks'[c][r] \in Seq(Nat)
  BY DEF Types, LogTypes, AcksType
<1>5. QED
  BY <1>1, <1>2, <1>3, <1>4

(* Places are natural numbers.                                             *)
LEMMA PlaceType ==
  ASSUME NEW pl, IsPlaces(pl), NEW q \in Nat
  PROVE  pl[q] \in Nat
BY DEF IsPlaces

(* The place of one more request.                                          *)
LEMMA PlaceAdded ==
  ASSUME NEW pl, IsPlaces(pl), NEW q \in Nat, NEW k \in Nat
  PROVE  /\ IsPlaces([pl EXCEPT ![q] = k])
         /\ [pl EXCEPT ![q] = k][q] = k
         /\ \A p \in Nat : p # q => [pl EXCEPT ![q] = k][p] = pl[p]
BY DEF IsPlaces

(* A step in which nothing is accepted.                                    *)
LEMMA AccountStays ==
  ASSUME Types, Types', KeptAll, NEW r \in Replicas, NEW c \in Clients, QuietAt(r, c),
         Extended(c), NEW pl, IsPlaces(pl), NEW pm, NEW a \in Nat,
         Account(r, c, pl, a), SamePlaces(pl, pm, a)
  PROVE  Account(r, c, pm, a)'
<1>1. /\ got[r][c] \in Nat /\ got'[r][c] \in Nat /\ cur[r][c] \in Nat /\ cur'[r][c] \in Nat
      /\ Len(reqs[c]) \in Nat /\ Len(reqs'[c]) \in Nat
      /\ log[r] \in Seq(Entry) /\ log'[r] \in Seq(Entry) /\ cur[r] \in [Clients -> Nat]
  BY StateTypes, StateTypesNext
<1>2. /\ a <= got[r][c] /\ got[r][c] <= Len(reqs[c]) /\ Ascending(pl, a)
      /\ \A q \in 1 .. a : PlacedAt(log[r], c, reqs[c][q], pl[q - 1], pl[q])
      /\ pl[a] <= cur[r][c]
      /\ c \notin disc[r] /\ r \notin aborted => got[r][c] = a /\ cur[r][c] = pl[a]
      /\ latestGsn[r][c] = IF a = 0 THEN NoGsn ELSE pl[a] - 1
  BY DEF Account
<1>3. pm[a] = pl[a] /\ pl[a] \in Nat
  BY PlaceType DEF SamePlaces
<1>4. a <= got'[r][c] /\ got'[r][c] <= Len(reqs'[c])
  BY <1>1, <1>2 DEF QuietAt
<1>5. Ascending(pm, a)
  BY <1>2 DEF SamePlaces, Ascending
<1>6. Kept(log[r], cur[r], log'[r], cur'[r])
  BY DEF KeptAll
<1>7. cur[r][c] <= cur'[r][c]
  BY <1>6 DEF Kept
<1>8. pm[a] <= cur'[r][c]
  BY <1>1, <1>2, <1>3, <1>7
<1>9. c \notin disc'[r] /\ r \notin aborted' => got'[r][c] = a /\ cur'[r][c] = pm[a]
  BY <1>2, <1>3 DEF QuietAt
<1>10. latestGsn'[r][c] = IF a = 0 THEN NoGsn ELSE pm[a] - 1
  BY <1>2, <1>3 DEF QuietAt
<1>11. ASSUME NEW q \in 1 .. a
       PROVE  PlacedAt(log'[r], c, reqs'[c][q], pm[q - 1], pm[q])
  <2>1. q \in 0 .. a /\ q - 1 \in 0 .. a /\ q \in Nat /\ q - 1 \in Nat /\ a \in 0 .. a
    OBVIOUS
  <2>2. pm[q] = pl[q] /\ pm[q - 1] = pl[q - 1]
    BY <2>1 DEF SamePlaces
  <2>3. PICK k \in Nat, i \in Nat : k = pl[q] /\ i = pl[q - 1]
    BY <2>1, PlaceType
  <2>4. k <= pl[a]
    <3>1. CASE q = a
      BY <1>3, <2>3, <3>1
    <3>2. CASE q < a
      <4>1. pl[q] < pl[a]
        BY <1>2, <2>1, <3>2 DEF Ascending
      <4>2. QED
        BY <1>3, <2>3, <4>1
    <3>3. QED
      BY <3>1, <3>2
  <2>5. k <= cur[r][c]
    BY <1>1, <1>2, <1>3, <2>4
  <2>6. reqs'[c][q] = reqs[c][q]
    <3>1. q \in 1 .. Len(reqs[c])
      BY <1>1, <1>2
    <3>2. QED
      BY <3>1 DEF Extended
  <2>7. PICK m : m = reqs[c][q]
    OBVIOUS
  <2>8. PlacedAt(log[r], c, m, i, k)
    BY <1>2, <2>3, <2>7
  <2>9. PICK L \in Seq(Entry), J \in Seq(Entry), cu \in [Clients -> Nat] :
          L = log[r] /\ J = log'[r] /\ cu = cur[r]
    BY <1>1
  <2>10. PICK cv : cv = cur'[r]
    OBVIOUS
  <2>11. Kept(L, cu, J, cv) /\ k <= cu[c] /\ PlacedAt(L, c, m, i, k)
    BY <1>6, <2>5, <2>8, <2>9, <2>10
  <2>12. PlacedAt(J, c, m, i, k)
    BY <2>11, PlacedStays
  <2>13. QED
    BY <2>2, <2>3, <2>6, <2>7, <2>9, <2>12
<1>12. QED
  BY <1>4, <1>5, <1>8, <1>9, <1>10, <1>11 DEF Account

(* A step that accepts the request after the first a ones.                 *)
LEMMA AccountGrows ==
  ASSUME Types, Types', LogInv, SameSlots, KeptAll, NEW r \in Replicas, NEW c \in Clients,
         NEW k, AcceptedAt(r, c, k), NEW pl, IsPlaces(pl), NEW pm, NEW a \in Nat, Account(r, c, pl, a), SamePlaces(pl, pm, a), pm[a + 1] = k
  PROVE  Account(r, c, pm, a + 1)'
<1>1. /\ got[r][c] \in Nat /\ cur[r][c] \in Nat /\ Len(reqs[c]) \in Nat
      /\ log[r] \in Seq(Entry) /\ log'[r] \in Seq(Entry) /\ cur[r] \in [Clients -> Nat]
  BY StateTypes, StateTypesNext
<1>2. /\ r \notin aborted /\ c \notin disc[r] /\ got[r][c] + 1 \in 1 .. Len(reqs[c])
      /\ k \in After(log[r], c, cur[r][c])
      /\ log' = [log EXCEPT ![r] =
                   InsertAt(@, c, cur[r][c], k, reqs[c][got[r][c] + 1].data)]
      /\ cur' = [cur EXCEPT ![r][c] = k]
      /\ latestGsn' = [latestGsn EXCEPT ![r][c] = log[r][k].gsn]
      /\ got' = [got EXCEPT ![r][c] = @ + 1]
      /\ reqs' = reqs /\ disc' = disc /\ aborted' = aborted
  BY DEF AcceptedAt, clientVars
<1>3. /\ got[r][c] = a /\ cur[r][c] = pl[a] /\ Ascending(pl, a)
      /\ \A q \in 1 .. a : PlacedAt(log[r], c, reqs[c][q], pl[q - 1], pl[q])
  BY <1>2 DEF Account
<1>4. PICK i \in Nat : i = cur[r][c]
  BY <1>1
<1>5. PICK m : m = reqs[c][a + 1]
  OBVIOUS
<1>6. /\ m.type = "insert" /\ m.data \in Payloads \cup {NoOp}
      /\ Cardinality(UpTo(After(log[r], c, i), k)) = m.num
  BY <1>3, <1>4, <1>5 DEF AcceptedAt
<1>7. PICK L \in Seq(Entry), cu \in [Clients -> Nat] : L = log[r] /\ cu = cur[r]
  BY <1>1
<1>8. k \in After(L, c, i) /\ cu[c] = i /\ LogOK(L, cu)
  BY <1>2, <1>4, <1>7 DEF LogInv
<1>9. k \in Nat /\ k \in 1 .. Len(L) /\ k > i
  BY <1>8, AfterType
<1>10. log'[r] = InsertAt(L, c, i, k, m.data)
  BY <1>2, <1>3, <1>4, <1>5, <1>7 DEF Types, LogTypes
<1>11. PlacedAt(log'[r], c, m, i, k)
  <2>1. PlacedAt(InsertAt(L, c, i, k, m.data), c, m, i, k)
    BY <1>6, <1>7, <1>8, InsertPlaces
  <2>2. QED
    BY <1>10, <2>1
<1>12. got'[r][c] = a + 1 /\ cur'[r][c] = k /\ latestGsn'[r][c] = k - 1
  <2>1. got'[r][c] = a + 1 /\ cur'[r][c] = k /\ latestGsn'[r][c] = log[r][k].gsn
    BY <1>2, <1>3 DEF Types, ServerTypes, LogTypes
  <2>2. log[r][k].gsn = k - 1
    BY <1>7, <1>9 DEF SameSlots
  <2>3. QED
    BY <2>1, <2>2
<1>13. pm[a] = i
  BY <1>3, <1>4 DEF SamePlaces
<1>14. Ascending(pm, a + 1)
  <2> SUFFICES ASSUME NEW p \in 0 .. a + 1, NEW q \in 0 .. a + 1, p < q
               PROVE  pm[p] < pm[q]
    BY DEF Ascending
  <2>1. p \in 0 .. a /\ p \in Nat
    OBVIOUS
  <2>2. CASE q \in 0 .. a
    BY <1>3, <2>1, <2>2 DEF Ascending, SamePlaces
  <2>3. CASE q = a + 1
    <3>1. CASE p = a
      BY <1>9, <1>13, <2>3, <3>1
    <3>2. CASE p < a
      <4>1. pl[p] < pl[a] /\ pm[p] = pl[p]
        BY <1>3, <2>1, <3>2 DEF Ascending, SamePlaces
      <4>2. PICK y \in Nat : y = pl[p]
        BY <2>1, PlaceType
      <4>3. y < i
        BY <1>3, <1>4, <4>1, <4>2
      <4>4. y < k
        BY <1>9, <4>3
      <4>5. QED
        BY <2>3, <4>1, <4>2, <4>4
    <3>3. QED
      BY <2>1, <3>1, <3>2
  <2>4. QED
    BY <2>2, <2>3
<1>15. ASSUME NEW q \in 1 .. a + 1
       PROVE  PlacedAt(log'[r], c, reqs'[c][q], pm[q - 1], pm[q])
  <2>1. CASE q = a + 1
    <3>1. q - 1 = a /\ reqs'[c][q] = m
      BY <1>2, <1>5, <2>1
    <3>2. QED
      BY <1>11, <1>13, <2>1, <3>1
  <2>2. CASE q \in 1 .. a
    <3>1. q \in 0 .. a /\ q - 1 \in 0 .. a /\ q \in Nat /\ q - 1 \in Nat /\ a \in 0 .. a
      BY <2>2
    <3>2. pm[q] = pl[q] /\ pm[q - 1] = pl[q - 1]
      BY <3>1 DEF SamePlaces
    <3>3. PICK x \in Nat, j \in Nat : x = pl[q] /\ j = pl[q - 1]
      BY <3>1, PlaceType
    <3>4. x <= i
      <4>1. CASE q = a
        BY <1>3, <1>4, <3>3, <4>1
      <4>2. CASE q < a
        <5>1. pl[q] < pl[a]
          BY <1>3, <3>1, <4>2 DEF Ascending
        <5>2. QED
          BY <1>3, <1>4, <3>3, <5>1
      <4>3. QED
        BY <2>2, <4>1, <4>2
    <3>5. PICK y : y = reqs[c][q]
      OBVIOUS
    <3>6. PICK J \in Seq(Entry) : J = log'[r]
      BY <1>1
    <3>7. PICK cv : cv = cur'[r]
      OBVIOUS
    <3>8. Kept(L, cu, J, cv) /\ x <= cu[c] /\ PlacedAt(L, c, y, j, x)
      BY <1>3, <1>7, <1>8, <2>2, <3>3, <3>4, <3>5, <3>6, <3>7 DEF KeptAll
    <3>9. PlacedAt(J, c, y, j, x)
      BY <3>8, PlacedStays
    <3>10. QED
      BY <1>2, <3>2, <3>3, <3>5, <3>6, <3>9
  <2>3. QED
    BY <2>1, <2>2
<1>16. /\ a + 1 <= got'[r][c] /\ got'[r][c] <= Len(reqs'[c])
       /\ pm[a + 1] <= cur'[r][c]
       /\ got'[r][c] = a + 1 /\ cur'[r][c] = pm[a + 1]
       /\ latestGsn'[r][c] = IF a + 1 = 0 THEN NoGsn ELSE pm[a + 1] - 1
  BY <1>1, <1>2, <1>3, <1>9, <1>12
<1>17. QED
  BY <1>14, <1>15, <1>16 DEF Account

(* A request that some server has already is put in the same place.        *)
LEMMA AgreedPlace ==
  ASSUME Types, SameSlots, NEW r \in Replicas, NEW s \in Replicas, NEW c \in Clients,
         NEW k, AcceptedAt(r, c, k), NEW pl, IsPlaces(pl), NEW a \in Nat, NEW b \in Nat,
         Account(r, c, pl, a), Account(s, c, pl, b), b >= a + 1
  PROVE  pl[a + 1] = k
<1>1. r \notin aborted /\ c \notin disc[r] /\ k \in After(log[r], c, cur[r][c])
  BY DEF AcceptedAt
<1>2. got[r][c] = a /\ cur[r][c] = pl[a]
  BY <1>1 DEF Account
<1>3. PICK i \in Nat, x \in Nat : i = pl[a] /\ x = pl[a + 1]
  <2>1. a + 1 \in Nat
    OBVIOUS
  <2>2. QED
    BY <2>1, PlaceType
<1>4. PICK m : m = reqs[c][a + 1]
  OBVIOUS
<1>5. PlacedAt(log[s], c, m, i, x)
  <2>1. a + 1 \in 1 .. b /\ (a + 1) - 1 = a
    OBVIOUS
  <2>2. PlacedAt(log[s], c, reqs[c][a + 1], pl[(a + 1) - 1], pl[a + 1])
    BY <2>1 DEF Account
  <2>3. QED
    BY <1>3, <1>4, <2>1, <2>2
<1>6. PICK L \in Seq(Entry), J \in Seq(Entry) : L = log[r] /\ J = log[s]
  BY DEF Types, LogTypes
<1>7. k \in After(L, c, i) /\ Cardinality(UpTo(After(L, c, i), k)) = m.num
  BY <1>1, <1>2, <1>3, <1>4, <1>6 DEF AcceptedAt
<1>8. x \in After(J, c, i) /\ Cardinality(UpTo(After(J, c, i), x)) = m.num
  BY <1>5, <1>6, AfterType DEF PlacedAt
<1>9. \A y \in 1 .. Len(L) : y <= Len(J) => J[y].client = L[y].client
  BY <1>6 DEF SameSlots
<1>10. k = x
  BY <1>7, <1>8, <1>9, SamePlace
<1>11. QED
  BY <1>3, <1>10

(* Nothing is accepted: all accounts stay.                                 *)
LEMMA QuietAccounts ==
  ASSUME Types, Types', KeptAll, Quiet, \A x \in Clients : Extended(x),
         NEW place, NEW acc, Accounts(place, acc)
  PROVE  Accounts(place, acc)'
<1>1. ASSUME NEW s \in Replicas, NEW x \in Clients
      PROVE  Account(s, x, place[x], acc[s][x])'
  <2>a. PICK pl : pl = place[x]
    OBVIOUS
  <2>b. PICK a \in Nat : a = acc[s][x]
    BY DEF Accounts
  <2>1. pl = place[x] /\ a = acc[s][x]
    BY <2>a, <2>b
  <2>2. IsPlaces(pl) /\ Account(s, x, pl, a) /\ SamePlaces(pl, pl, a)
    BY <2>1 DEF Accounts, SamePlaces
  <2>3. QuietAt(s, x) /\ Extended(x)
    BY DEF Quiet
  <2>4. Account(s, x, pl, a)'
    BY <2>2, <2>3, AccountStays
  <2>5. QED
    BY <2>1, <2>4
<1>2. QED
  BY <1>1 DEF Accounts

(* A server that accepts a request accepts nothing else in that step.      *)
LEMMA AcceptedQuiet ==
  ASSUME Types, NEW r \in Replicas, NEW c \in Clients, NEW k, AcceptedAt(r, c, k),
         NEW s \in Replicas, NEW x \in Clients, s # r \/ x # c
  PROVE  QuietAt(s, x)
<1>1. /\ cur' = [cur EXCEPT ![r][c] = k] /\ got' = [got EXCEPT ![r][c] = @ + 1]
      /\ latestGsn' = [latestGsn EXCEPT ![r][c] = log[r][k].gsn]
      /\ UNCHANGED <<disc, aborted, reqs>>
  BY DEF AcceptedAt, clientVars
<1>2. /\ cur'[s][x] = cur[s][x] /\ got'[s][x] = got[s][x]
      /\ latestGsn'[s][x] = latestGsn[s][x]
  BY <1>1 DEF Types, LogTypes, ServerTypes
<1>3. got[s][x] \in Nat
  BY StateTypes
<1>4. QED
  BY <1>1, <1>2, <1>3 DEF QuietAt

(* The numbers of accepted requests when r accepts one more of c.          *)
OneMore(acc, r, c) == [acc EXCEPT ![r][c] = @ + 1]

(* The places pm agree with place for all requests that some server has    *)
(* accepted.                                                               *)
Agree(place, pm, acc) ==
  \A s \in Replicas, x \in Clients : SamePlaces(place[x], pm[x], acc[s][x])

(* One more request is accepted: there are places of which all accounts    *)
(* are right, the new one included.                                        *)
LEMMA AcceptedAccounts ==
  ASSUME Types, Types', LogInv, SameSlots, KeptAll, \A x \in Clients : Extended(x),
         NEW place, NEW acc, Accounts(place, acc),
         NEW r \in Replicas, NEW c \in Clients, NEW k, AcceptedAt(r, c, k)
  PROVE  \E pm : /\ Agree(place, pm, acc) /\ pm[c][acc[r][c] + 1] = k
                 /\ Accounts(pm, OneMore(acc, r, c))'
<1>1. PICK a \in Nat : a = acc[r][c]
  BY DEF Accounts
<1>2. k \in Nat
  <2>1. PICK L \in Seq(Entry), i \in Nat : L = log[r] /\ i = cur[r][c]
    BY StateTypes
  <2>2. k \in After(L, c, i)
    BY <2>1 DEF AcceptedAt
  <2>3. QED
    BY <2>2, AfterType
<1>3. \E pm : /\ DOMAIN pm = Clients /\ pm[c][a + 1] = k
              /\ \A x \in Clients : IsPlaces(pm[x]) /\ pm[x][0] = 0
              /\ Agree(place, pm, acc)
  <2>1. CASE \E s \in Replicas : acc[s][c] >= a + 1
    <3>1. PICK s \in Replicas : acc[s][c] >= a + 1
      BY <2>1
    <3>a. PICK pl : pl = place[c]
      OBVIOUS
    <3>b. PICK b \in Nat : b = acc[s][c]
      BY DEF Accounts
    <3>2. pl = place[c] /\ b = acc[s][c]
      BY <3>a, <3>b
    <3>3. IsPlaces(pl) /\ Account(r, c, pl, a) /\ Account(s, c, pl, b) /\ b >= a + 1
      BY <1>1, <3>1, <3>2 DEF Accounts
    <3>4. pl[a + 1] = k
      BY <3>3, AgreedPlace
    <3>5. Agree(place, place, acc)
      BY DEF Agree, SamePlaces
    <3>6. QED
      BY <3>2, <3>4, <3>5 DEF Accounts
  <2>2. CASE \A s \in Replicas : ~ (acc[s][c] >= a + 1)
    <3>1. PICK pl : pl = [place[c] EXCEPT ![a + 1] = k]
      OBVIOUS
    <3>2. a + 1 \in Nat /\ 0 \in Nat /\ 0 # a + 1
      OBVIOUS
    <3>3. IsPlaces(place[c])
      BY DEF Accounts
    <3>4. /\ IsPlaces(pl) /\ pl[a + 1] = k
          /\ \A p \in Nat : p # a + 1 => pl[p] = place[c][p]
      BY <1>2, <3>1, <3>2, <3>3, PlaceAdded
    <3>5. PICK pm : pm = [place EXCEPT ![c] = pl]
      OBVIOUS
    <3>6. /\ DOMAIN pm = Clients /\ pm[c] = pl
          /\ \A x \in Clients : x # c => pm[x] = place[x]
      BY <3>5 DEF Accounts
    <3>7. \A x \in Clients : IsPlaces(pm[x]) /\ pm[x][0] = 0
      BY <3>2, <3>4, <3>6 DEF Accounts
    <3>8. ASSUME NEW s \in Replicas, NEW x \in Clients
          PROVE  SamePlaces(place[x], pm[x], acc[s][x])
      <4>1. CASE x # c
        BY <3>6, <4>1 DEF SamePlaces
      <4>2. CASE x = c
        <5>1. PICK b \in Nat : b = acc[s][c]
          BY DEF Accounts
        <5>2. ~ (b >= a + 1)
          BY <2>2, <5>1
        <5>3. \A p \in 0 .. b : p \in Nat /\ p # a + 1
          BY <5>2
        <5>4. QED
          BY <3>4, <3>6, <4>2, <5>1, <5>3 DEF SamePlaces
      <4>3. QED
        BY <4>1, <4>2
    <3>9. Agree(place, pm, acc)
      BY <3>8 DEF Agree
    <3>10. QED
      BY <3>4, <3>6, <3>7, <3>9
  <2>3. QED
    BY <2>1, <2>2
<1>4. PICK pm : /\ DOMAIN pm = Clients /\ pm[c][a + 1] = k
                /\ \A x \in Clients : IsPlaces(pm[x]) /\ pm[x][0] = 0
                /\ Agree(place, pm, acc)
  BY <1>3
<1>5. PICK bcc : bcc = OneMore(acc, r, c)
  OBVIOUS
<1>6. /\ bcc \in [Replicas -> [Clients -> Nat]] /\ bcc[r][c] = a + 1
      /\ \A s \in Replicas, x \in Clients : s # r \/ x # c => bcc[s][x] = acc[s][x]
  BY <1>1, <1>5 DEF OneMore, Accounts
<1>7. ASSUME NEW s \in Replicas, NEW x \in Clients
      PROVE  Account(s, x, pm[x], bcc[s][x])'
  <2>a. PICK pl, ql : pl = place[x] /\ ql = pm[x]
    OBVIOUS
  <2>b. PICK b \in Nat : b = acc[s][x]
    BY DEF Accounts
  <2>1. pl = place[x] /\ ql = pm[x] /\ b = acc[s][x]
    BY <2>a, <2>b
  <2>2. IsPlaces(pl) /\ Account(s, x, pl, b) /\ SamePlaces(pl, ql, b)
    BY <1>4, <2>1 DEF Accounts, Agree
  <2>3. CASE s # r \/ x # c
    <3>1. QuietAt(s, x)
      BY <2>3, AcceptedQuiet
    <3>2. Account(s, x, ql, b)'
      BY <2>2, <3>1, AccountStays
    <3>3. QED
      BY <1>6, <2>1, <2>3, <3>2
  <2>4. CASE s = r /\ x = c
    <3>1. b = a /\ ql[b + 1] = k
      BY <1>1, <1>4, <2>1, <2>4
    <3>2. Account(r, c, pl, b) /\ SamePlaces(pl, ql, b)
      BY <2>2, <2>4
    <3>3. Account(r, c, ql, b + 1)'
      BY <2>2, <3>1, <3>2, AccountGrows
    <3>4. bcc[s][x] = b + 1
      BY <1>6, <2>4, <3>1
    <3>5. QED
      BY <2>1, <2>4, <3>3, <3>4
  <2>5. QED
    BY <2>3, <2>4
<1>8. Accounts(pm, bcc)'
  BY <1>4, <1>6, <1>7 DEF Accounts
<1>9. Agree(place, pm, acc) /\ pm[c][acc[r][c] + 1] = k
  BY <1>1, <1>4
<1>10. Accounts(pm, OneMore(acc, r, c))'
  BY <1>5, <1>8
<1>11. QED
  BY <1>9, <1>10

(* Every step keeps PlacesInv; the ghost places are extended where a       *)
(* server is the first to accept a request, and stay otherwise.            *)
LEMMA NextPlaces ==
  ASSUME Types, Types', RecoveryInv, SlotsInv, PlacesInv, [Next]_vars
  PROVE  PlacesInv'
<1>1. PICK place, acc : Accounts(place, acc)
  BY DEF PlacesInv
<1>2. LogInv /\ OrdersDirected
  BY DEF RecoveryInv
<1>3. KeptAll /\ SameSlots /\ \A x \in Clients : Extended(x)
  BY <1>2, NextKeeps, SlotsAgree, RequestsKept
<1>4. CASE Quiet
  BY <1>1, <1>3, <1>4, QuietAccounts DEF PlacesInv
<1>5. ASSUME NEW r \in Replicas, NEW c \in Clients, NEW k, AcceptedAt(r, c, k)
      PROVE  PlacesInv'
  BY <1>1, <1>2, <1>3, <1>5, AcceptedAccounts, SMTT(30) DEF PlacesInv
<1>6. QED
  BY <1>2, <1>4, <1>5, ServerActions

(* Initially no request has been placed and no server has accepted any.    *)
LEMMA InitPlaces == Init => PlacesInv
<1> SUFFICES ASSUME Init PROVE PlacesInv
  OBVIOUS
<1>1. PICK pl : pl = [q \in Nat |-> 0]
  OBVIOUS
<1>2. IsPlaces(pl) /\ pl[0] = 0
  BY <1>1 DEF IsPlaces
<1>3. PICK place, acc : place = [c \in Clients |-> pl]
                        /\ acc = [r \in Replicas |-> [c \in Clients |-> 0]]
  OBVIOUS
<1>4. /\ DOMAIN place = Clients /\ acc \in [Replicas -> [Clients -> Nat]]
      /\ \A c \in Clients : place[c] = pl
      /\ \A r \in Replicas, c \in Clients : acc[r][c] = 0
  BY <1>3
<1>5. ASSUME NEW r \in Replicas, NEW c \in Clients PROVE Account(r, c, pl, 0)
  <2>1. /\ got[r][c] = 0 /\ reqs[c] = << >> /\ cur[r][c] = 0 /\ latestGsn[r][c] = NoGsn
    BY DEF Init
  <2>2. Ascending(pl, 0)
    BY DEF Ascending
  <2>3. QED
    BY <1>2, <2>1, <2>2 DEF Account
<1>6. Accounts(place, acc)
  BY <1>2, <1>4, <1>5 DEF Accounts
<1>7. QED
  BY <1>6 DEF PlacesInv

(* Every server has an account of the requests of every client, with one   *)
(* place for each request for all servers.                                 *)
THEOREM PlacesInvariant == Spec => []PlacesInv
<1>1. Init => PlacesInv
  BY InitPlaces
<1>2. Types /\ Types' /\ RecoveryInv /\ SlotsInv /\ PlacesInv /\ [Next]_vars => PlacesInv'
  BY NextPlaces
<1>3. QED
  BY <1>1, <1>2, TypesInvariant, RecoveryInvariant, SlotsInvariant, PTL DEF Spec

(* The request that a slot up to the last accepted one belongs to.         *)
LEMMA CoveringRequest ==
  ASSUME NEW pl, IsPlaces(pl), pl[0] = 0, NEW a \in Nat, NEW k \in Nat,
         1 <= k, k <= pl[a]
  PROVE  /\ a >= 1
         /\ \E q \in 1 .. a : /\ pl[q - 1] < k /\ k <= pl[q]
                              /\ \A p \in 1 .. a : k <= pl[p] => q <= p
<1>1. a >= 1
  BY SMT
<1> DEFINE S == {q \in 1 .. a : k <= pl[q]}
<1>2. S \subseteq Nat /\ a \in S
  BY <1>1
<1>3. PICK q \in S : \A p \in S : q <= p
  BY <1>2, LeastNat
<1>4. q \in 1 .. a /\ k <= pl[q] /\ \A p \in 1 .. a : k <= pl[p] => q <= p
  BY <1>3
<1> HIDE DEF S
<1>5. pl[q - 1] < k
  <2>1. CASE q = 1
    <3>1. q - 1 = 0
      BY <2>1
    <3>2. QED
      BY <3>1
  <2>2. CASE q > 1
    <3>1. q - 1 \in 1 .. a /\ ~ (q <= q - 1) /\ q - 1 \in Nat
      BY <1>4, <2>2
    <3>2. ~ (k <= pl[q - 1])
      BY <1>4, <3>1
    <3>3. pl[q - 1] \in Nat
      BY <3>1, PlaceType
    <3>4. QED
      BY <3>2, <3>3
  <2>3. QED
    BY <1>4, <2>1, <2>2
<1>6. QED
  BY <1>1, <1>4, <1>5

(* Where two servers have accepted requests, their entries are the same.   *)
LEMMA SameEntries ==
  ASSUME Types, SameSlots, NEW r \in Replicas, NEW s \in Replicas, NEW c \in Clients,
         NEW pl, IsPlaces(pl), pl[0] = 0, NEW a \in Nat, NEW b \in Nat,
         Account(r, c, pl, a), Account(s, c, pl, b),
         NEW k \in 1 .. Len(log[r]), log[r][k].client = c, k <= pl[a], k <= pl[b]
  PROVE  k \in 1 .. Len(log[s]) /\ log[s][k] = log[r][k]
<1>1. PICK L \in Seq(Entry), J \in Seq(Entry) : L = log[r] /\ J = log[s]
  BY DEF Types, LogTypes
<1>2. k \in Nat /\ 1 <= k /\ k \in 1 .. Len(L) /\ Len(L) \in Nat /\ Len(J) \in Nat
  BY <1>1
<1>3. PICK q \in 1 .. a : /\ pl[q - 1] < k /\ k <= pl[q]
                          /\ \A p \in 1 .. a : k <= pl[p] => q <= p
  BY <1>2, CoveringRequest
<1>4. b >= 1
  BY <1>2, CoveringRequest
<1>5. q \in 1 .. b
  <2>1. CASE b \in 1 .. a
    BY <1>3, <2>1
  <2>2. CASE b > a
    BY <2>2
  <2>3. QED
    BY <1>4, <2>1, <2>2
<1>6. PICK i \in Nat, x \in Nat : i = pl[q - 1] /\ x = pl[q]
  <2>1. q \in Nat /\ q - 1 \in Nat
    OBVIOUS
  <2>2. QED
    BY <2>1, PlaceType
<1>7. PICK m : m = reqs[c][q]
  OBVIOUS
<1>8. PlacedAt(L, c, m, i, x) /\ PlacedAt(J, c, m, i, x)
  BY <1>1, <1>5, <1>6, <1>7 DEF Account
<1>9. i < k /\ k <= x
  BY <1>3, <1>6
<1>10. k \in 1 .. Len(J)
  <2>1. x \in 1 .. Len(J)
    BY <1>8 DEF PlacedAt
  <2>2. QED
    BY <1>2, <1>9, <2>1
<1>11. /\ L[k].gsn = k - 1 /\ J[k].gsn = k - 1 /\ L[k].client = c /\ J[k].client = c
  BY <1>1, <1>2, <1>10, SMTT(30) DEF SameSlots
<1>12. PICK d : d = IF k = x THEN m.data ELSE NoOp
  OBVIOUS
<1>13. L[k].set /\ L[k].data = d
  BY <1>2, <1>8, <1>9, <1>11, <1>12 DEF PlacedAt
<1>14. J[k].set /\ J[k].data = d
  BY <1>8, <1>9, <1>10, <1>11, <1>12 DEF PlacedAt
<1>15. L[k] \in Entry /\ J[k] \in Entry
  BY <1>2, <1>10
<1>16. L[k] = [gsn |-> L[k].gsn, client |-> L[k].client, set |-> TRUE, data |-> L[k].data]
  BY <1>13, <1>15, SetEntry
<1>17. J[k] = [gsn |-> J[k].gsn, client |-> J[k].client, set |-> TRUE, data |-> J[k].data]
  BY <1>14, <1>15, SetEntry
<1>18. J[k] = L[k]
  BY <1>11, <1>13, <1>14, <1>16, <1>17, Zenon
<1>19. QED
  BY <1>1, <1>10, <1>18

(* The logs agree.                                                         *)
LEMMA AccountsAgree ==
  ASSUME Types, SlotsInv, PlacesInv
  PROVE  PrefixAgreement
<1>1. PICK place, acc : Accounts(place, acc)
  BY DEF PlacesInv
<1>2. SameSlots
  BY SlotsAgree
<1> SUFFICES ASSUME NEW r \in Replicas, NEW s \in Replicas, NEW c \in Clients,
                    latestGsn[r][c] # NoGsn, latestGsn[s][c] # NoGsn,
                    NEW k \in DOMAIN log[r], log[r][k].client = c,
                    log[r][k].gsn <= latestGsn[r][c], log[r][k].gsn <= latestGsn[s][c]
             PROVE  k \in DOMAIN log[s] /\ log[s][k] = log[r][k]
  BY DEF PrefixAgreement
<1>3. PICK a \in Nat, b \in Nat : a = acc[r][c] /\ b = acc[s][c]
  BY <1>1 DEF Accounts
<1>4. PICK pl : pl = place[c]
  OBVIOUS
<1>5. IsPlaces(pl) /\ pl[0] = 0 /\ Account(r, c, pl, a) /\ Account(s, c, pl, b)
  BY <1>1, <1>3, <1>4 DEF Accounts
<1>6. latestGsn[r][c] = pl[a] - 1 /\ latestGsn[s][c] = pl[b] - 1
  BY <1>5 DEF Account
<1>7. pl[a] \in Nat /\ pl[b] \in Nat
  BY <1>5, PlaceType
<1>8. log[r] \in Seq(Entry) /\ log[s] \in Seq(Entry)
  BY StateTypes
<1>9. k \in 1 .. Len(log[r]) /\ DOMAIN log[s] = 1 .. Len(log[s])
  BY <1>8
<1>10. log[r][k].gsn = k - 1
  BY <1>2, <1>9 DEF SameSlots
<1>11. k <= pl[a] /\ k <= pl[b]
  <2>1. k \in Nat
    BY <1>9
  <2>2. k - 1 <= pl[a] - 1 /\ k - 1 <= pl[b] - 1
    BY <1>6, <1>10
  <2>3. QED
    BY <1>7, <2>1, <2>2
<1>12. k \in 1 .. Len(log[s]) /\ log[s][k] = log[r][k]
  BY <1>2, <1>5, <1>9, <1>11, SameEntries
<1>13. QED
  BY <1>9, <1>12

(* The servers of a shard have the same entries for a client up to the     *)
(* smaller of their latest GSNs for it: an entry that both have accepted   *)
(* is the same on both, whatever was lost, dropped or recovered, for any   *)
(* number of servers, clients, epochs and requests.                        *)
THEOREM LogsAgree == Spec => []PrefixAgreement
<1>1. Types /\ SlotsInv /\ PlacesInv => PrefixAgreement
  BY AccountsAgree
<1>2. QED
  BY <1>1, TypesInvariant, SlotsInvariant, PlacesInvariant, PTL

-----------------------------------------------------------------------------
(* Answers: what the clients are told is what the servers have.            *)
(*                                                                         *)
(* In what follows ac[s] is the number of requests of one client that      *)
(* server s has accepted, pl are their places and A[s] the acknowledgements*)
(* of s on their way; R are the requests of the client, O those that are   *)
(* outstanding, and n the number of those that are answered.               *)

(* The servers that have accepted request q, ...                           *)
Having(ac, q) == {s \in Replicas : ac[s] >= q}

(* ... and those whose acknowledgement of it the client has handled.       *)
Handled(A, ac, q) == {s \in Replicas : ac[s] - Len(A[s]) >= q}

(* The first n requests are answered, with the GSN of their place, when    *)
(* enough servers have them.                                               *)
Told(resp, ac, pl, n) ==
  /\ DOMAIN resp = 1 .. n
  /\ \A q \in 1 .. n : resp[q] = pl[q] - 1 /\ Cardinality(Having(ac, q)) > Failures

(* The acknowledgements on their way are those of the requests last        *)
(* accepted, in order.                                                     *)
AcksOK(A, ac, pl) ==
  \A s \in Replicas :
    /\ A[s] \in Seq(Nat) /\ Len(A[s]) <= ac[s]
    /\ \A i \in 1 .. Len(A[s]) : A[s][i] = pl[(ac[s] - Len(A[s])) + i] - 1

(* The outstanding requests are those after the first n, in order, and     *)
(* each knows its acknowledgements.                                        *)
OutOK(O, A, ac, pl, n) ==
  \A k \in 1 .. Len(O) :
    /\ O[k].req = n + k
    /\ O[k].acks = Cardinality(Handled(A, ac, n + k)) /\ O[k].acks <= Failures
    /\ Handled(A, ac, n + k) = {} => O[k].gsn = NoGsn
    /\ Handled(A, ac, n + k) # {} => O[k].gsn = pl[n + k] - 1

(* Every request is answered or outstanding.                               *)
ReqsOK(R, O, n) ==
  /\ n + Len(O) <= Len(R)
  /\ \A q \in 1 .. Len(R) : R[q].type = "insert" <=> q <= n + Len(O)

LatestOK(l, pl, n) == l = IF n = 0 THEN NoGsn ELSE pl[n] - 1

Waiting(A, O, R, l, ac, pl, n) ==
  AcksOK(A, ac, pl) /\ OutOK(O, A, ac, pl, n) /\ ReqsOK(R, O, n) /\ LatestOK(l, pl, n)

(* What the accounts say of the requests of one client.                    *)
Fine(R, ac, pl) ==
  \A s \in Replicas :
    /\ ac[s] \in Nat /\ ac[s] <= Len(R) /\ Ascending(pl, ac[s])
    /\ \A q \in 1 .. ac[s] : R[q].type = "insert" /\ pl[q] \in 1 .. NoGsn

(* Sets of servers have a size.                                            *)
LEMMA ServersFinite ==
  ASSUME NEW S, S \subseteq Replicas
  PROVE  IsFiniteSet(S) /\ Cardinality(S) \in Nat /\ (Cardinality(S) = 0 <=> S = {})
<1>1. IsFiniteSet(S)
  BY ReplicasAssumption, FS_Subset
<1>2. QED
  BY <1>1, FS_CardinalityType, FS_EmptySet

(* A larger set of servers is not smaller.                                 *)
LEMMA MoreServers ==
  ASSUME NEW S, NEW T, T \subseteq Replicas, S \subseteq T
  PROVE  Cardinality(S) \in Nat /\ Cardinality(T) \in Nat /\ Cardinality(S) <= Cardinality(T)
<1>1. IsFiniteSet(T) /\ Cardinality(T) \in Nat
  BY ServersFinite
<1>2. Cardinality(S) <= Cardinality(T)
  BY <1>1, FS_Subset
<1>3. QED
  BY <1>1, <1>2, ServersFinite

(* What is answered is accepted by some server.                            *)
LEMMA AnsweredIsAccepted ==
  ASSUME NEW resp, NEW ac, NEW pl, NEW n \in Nat, Told(resp, ac, pl, n), NEW q \in 1 .. n
  PROVE  \E s \in Replicas : ac[s] >= q
<1>1. Cardinality(Having(ac, q)) > Failures
  BY DEF Told
<1>2. Having(ac, q) \subseteq Replicas
  BY DEF Having
<1>3. Having(ac, q) # {}
  BY <1>1, <1>2, ServersFinite, FailuresAssumption
<1>4. QED
  BY <1>3 DEF Having

(* Responses stay right when servers accept more and the places agree.     *)
LEMMA ToldKept ==
  ASSUME NEW resp, NEW ac \in [Replicas -> Nat], NEW bc \in [Replicas -> Nat],
         NEW pl, NEW pm, NEW n \in Nat, Told(resp, ac, pl, n),
         \A s \in Replicas : ac[s] <= bc[s],
         \A s \in Replicas : SamePlaces(pl, pm, ac[s])
  PROVE  Told(resp, bc, pm, n)
<1>1. ASSUME NEW q \in 1 .. n
      PROVE  resp[q] = pm[q] - 1 /\ Cardinality(Having(bc, q)) > Failures
  <2>1. PICK s \in Replicas : ac[s] >= q
    BY AnsweredIsAccepted
  <2>2. pm[q] = pl[q]
    <3>1. q \in 0 .. ac[s]
      BY <2>1
    <3>2. QED
      BY <3>1 DEF SamePlaces
  <2>3. Having(ac, q) \subseteq Having(bc, q) /\ Having(bc, q) \subseteq Replicas
    BY DEF Having
  <2>4. /\ Cardinality(Having(ac, q)) \in Nat /\ Cardinality(Having(bc, q)) \in Nat
        /\ Cardinality(Having(ac, q)) <= Cardinality(Having(bc, q))
    BY <2>3, MoreServers
  <2>5. resp[q] = pl[q] - 1 /\ Cardinality(Having(ac, q)) > Failures
    BY DEF Told
  <2>6. QED
    BY <2>2, <2>4, <2>5, FailuresAssumption
<1>2. QED
  BY <1>1 DEF Told

(* What a client waits for is the same when it has handled the same        *)
(* acknowledgements and the places agree.                                  *)
LEMMA WaitingKept ==
  ASSUME NEW A, NEW B, NEW O \in Seq(Outstanding), NEW R, NEW l,
         NEW ac \in [Replicas -> Nat], NEW bc \in [Replicas -> Nat],
         NEW pl, NEW pm, NEW n \in Nat, NEW resp, Told(resp, ac, pl, n),
         Waiting(A, O, R, l, ac, pl, n), AcksOK(B, bc, pm),
         \A s \in Replicas : bc[s] - Len(B[s]) = ac[s] - Len(A[s]),
         \A s \in Replicas : SamePlaces(pl, pm, ac[s])
  PROVE  Waiting(B, O, R, l, bc, pm, n)
<1>1. \A q : Handled(B, bc, q) = Handled(A, ac, q)
  BY DEF Handled
<1>2. ASSUME NEW q \in Nat, q >= 1, Handled(A, ac, q) # {} PROVE pm[q] = pl[q]
  <2>1. PICK s \in Replicas : ac[s] - Len(A[s]) >= q
    BY <1>2 DEF Handled
  <2>2. A[s] \in Seq(Nat) /\ ac[s] \in Nat
    BY DEF Waiting, AcksOK
  <2>3. q \in 0 .. ac[s]
    BY <2>1, <2>2
  <2>4. QED
    BY <2>3 DEF SamePlaces
<1>3. OutOK(O, B, bc, pm, n)
  <2> SUFFICES ASSUME NEW k \in 1 .. Len(O)
               PROVE  /\ O[k].req = n + k
                      /\ O[k].acks = Cardinality(Handled(B, bc, n + k))
                      /\ O[k].acks <= Failures
                      /\ Handled(B, bc, n + k) = {} => O[k].gsn = NoGsn
                      /\ Handled(B, bc, n + k) # {} => O[k].gsn = pm[n + k] - 1
    BY DEF OutOK
  <2>1. n + k \in Nat /\ n + k >= 1
    OBVIOUS
  <2>2. Handled(B, bc, n + k) = Handled(A, ac, n + k)
    BY <1>1
  <2>3. QED
    BY <1>2, <2>1, <2>2 DEF Waiting, OutOK
<1>4. LatestOK(l, pm, n)
  <2>1. CASE n = 0
    BY <2>1 DEF Waiting, LatestOK
  <2>2. CASE n # 0
    <3>1. n \in 1 .. n
      BY <2>2
    <3>2. PICK s \in Replicas : ac[s] >= n
      BY <3>1, AnsweredIsAccepted
    <3>3. n \in 0 .. ac[s]
      BY <3>2
    <3>4. pm[n] = pl[n]
      BY <3>3 DEF SamePlaces
    <3>5. QED
      BY <3>4 DEF Waiting, LatestOK
  <2>3. QED
    BY <2>1, <2>2
<1>5. QED
  BY <1>3, <1>4 DEF Waiting

(* A server accepts one more request and acknowledges it.                  *)
LEMMA AcksGrow ==
  ASSUME NEW A \in [Replicas -> Seq(Nat)], NEW ac \in [Replicas -> Nat], NEW pl, NEW pm,
         AcksOK(A, ac, pl), \A s \in Replicas : SamePlaces(pl, pm, ac[s]),
         NEW r \in Replicas, NEW k \in Nat, k >= 1, pm[ac[r] + 1] = k,
         NEW B, B = [A EXCEPT ![r] = Append(@, k - 1)],
         NEW bc, bc = [ac EXCEPT ![r] = @ + 1]
  PROVE  AcksOK(B, bc, pm) /\ \A s \in Replicas : bc[s] - Len(B[s]) = ac[s] - Len(A[s])
<1>1. /\ \A s \in Replicas : s # r => B[s] = A[s] /\ bc[s] = ac[s]
      /\ B[r] = Append(A[r], k - 1) /\ bc[r] = ac[r] + 1
  OBVIOUS
<1>2. ASSUME NEW s \in Replicas
      PROVE  /\ B[s] \in Seq(Nat) /\ Len(B[s]) <= bc[s]
             /\ \A i \in 1 .. Len(B[s]) : B[s][i] = pm[(bc[s] - Len(B[s])) + i] - 1
             /\ bc[s] - Len(B[s]) = ac[s] - Len(A[s])
  <2>1. PICK a \in Nat, l \in Nat : a = ac[s] /\ l = Len(A[s])
    OBVIOUS
  <2>2. A[s] \in Seq(Nat) /\ l <= a
        /\ \A i \in 1 .. l : A[s][i] = pl[(a - l) + i] - 1
    BY <2>1 DEF AcksOK
  <2>3. \A i \in 1 .. l : (a - l) + i \in 0 .. a
    BY <2>2
  <2>4. \A i \in 1 .. l : A[s][i] = pm[(a - l) + i] - 1
    BY <2>1, <2>2, <2>3 DEF SamePlaces
  <2>5. CASE s # r
    BY <1>1, <2>1, <2>2, <2>4, <2>5
  <2>6. CASE s = r
    <3>1. PICK C : C = B[s]
      OBVIOUS
    <3>2. C = Append(A[s], k - 1) /\ bc[s] = a + 1 /\ k - 1 \in Nat
      BY <1>1, <2>1, <2>6, <3>1
    <3>3. C \in Seq(Nat) /\ Len(C) = l + 1 /\ C[l + 1] = k - 1
          /\ \A i \in 1 .. l : C[i] = A[s][i]
      BY <2>1, <2>2, <3>2
    <3>4. (a + 1) - (l + 1) = a - l
      OBVIOUS
    <3>5. ASSUME NEW i \in 1 .. l + 1 PROVE C[i] = pm[(a - l) + i] - 1
      <4>1. CASE i \in 1 .. l
        BY <2>4, <3>3, <4>1
      <4>2. CASE i = l + 1
        <5>1. (a - l) + i = a + 1
          BY <4>2
        <5>2. pm[a + 1] = k
          BY <2>1, <2>6
        <5>3. QED
          BY <3>3, <4>2, <5>1, <5>2
      <4>3. QED
        BY <4>1, <4>2
    <3>a. B[s] \in Seq(Nat) /\ Len(B[s]) = l + 1 /\ bc[s] = a + 1
      BY <3>1, <3>2, <3>3, Zenon
    <3>b. l + 1 <= a + 1
      BY <2>2
    <3>6. /\ B[s] \in Seq(Nat) /\ Len(B[s]) <= bc[s]
          /\ bc[s] - Len(B[s]) = a - l /\ Len(B[s]) = l + 1
      BY <3>4, <3>a, <3>b, Zenon
    <3>7. QED
      BY <2>1, <3>1, <3>5, <3>6, ZenonT(30)
  <2>7. QED
    BY <2>5, <2>6
<1>3. QED
  BY <1>2 DEF AcksOK

(* A request is sent.                                                      *)
LEMMA SendWaits ==
  ASSUME NEW A, NEW O \in Seq(Outstanding), NEW R \in Seq(CMessage), NEW l,
         NEW ac \in [Replicas -> Nat], NEW pl, NEW n \in Nat,
         Waiting(A, O, R, l, ac, pl, n), Fine(R, ac, pl),
         \A q \in 1 .. Len(R) : R[q].type # "bye", NEW m, m.type = "insert",
         NEW o \in Outstanding, o.req = Len(R) + 1, o.gsn = NoGsn, o.acks = 0
  PROVE  Waiting(A, Append(O, o), Append(R, m), l, ac, pl, n)
<1>1. Len(O) \in Nat /\ Len(R) \in Nat /\ n + Len(O) <= Len(R)
  BY DEF Waiting, ReqsOK
<1>2. Len(R) = n + Len(O)
  <2>1. SUFFICES ASSUME n + Len(O) < Len(R) PROVE FALSE
    BY <1>1
  <2>2. Len(R) \in 1 .. Len(R) /\ ~ (Len(R) <= n + Len(O))
    BY <1>1, <2>1
  <2>3. R[Len(R)].type # "insert"
    BY <2>2 DEF Waiting, ReqsOK
  <2>4. R[Len(R)] \in CMessage
    BY <2>2
  <2>5. R[Len(R)].type \in {"insert", "bye"}
    BY <2>4 DEF CMessage
  <2>6. QED
    BY <2>2, <2>3, <2>5
<1>3. PICK P, Q : P = Append(O, o) /\ Q = Append(R, m)
  OBVIOUS
<1>4. /\ Len(P) = Len(O) + 1 /\ P[Len(O) + 1] = o
      /\ \A k \in 1 .. Len(O) : P[k] = O[k]
      /\ Len(Q) = Len(R) + 1 /\ Q[Len(R) + 1] = m
      /\ \A k \in 1 .. Len(R) : Q[k] = R[k]
  BY <1>3
<1>5. ReqsOK(Q, P, n)
  <2> SUFFICES ASSUME NEW q \in 1 .. Len(Q)
               PROVE  Q[q].type = "insert" /\ q <= n + Len(P)
    BY <1>1, <1>2, <1>4 DEF ReqsOK
  <2>1. q <= n + Len(P)
    BY <1>1, <1>2, <1>4
  <2>2. CASE q = Len(R) + 1
    BY <1>4, <2>1, <2>2
  <2>3. CASE q \in 1 .. Len(R)
    BY <1>1, <1>2, <1>4, <2>1, <2>3 DEF Waiting, ReqsOK
  <2>4. QED
    BY <1>1, <1>4, <2>2, <2>3
<1>6. Handled(A, ac, n + (Len(O) + 1)) = {}
  <2>1. ASSUME NEW s \in Replicas PROVE ~ (ac[s] - Len(A[s]) >= n + (Len(O) + 1))
    <3>1. ac[s] \in Nat /\ ac[s] <= Len(R) /\ Len(A[s]) \in Nat
      BY DEF Fine, Waiting, AcksOK
    <3>2. QED
      BY <1>1, <1>2, <3>1
  <2>2. QED
    BY <2>1 DEF Handled
<1>7. Cardinality(Handled(A, ac, n + (Len(O) + 1))) = 0
  BY <1>6, FS_EmptySet
<1>8. OutOK(P, A, ac, pl, n)
  <2> SUFFICES ASSUME NEW k \in 1 .. Len(P)
               PROVE  /\ P[k].req = n + k
                      /\ P[k].acks = Cardinality(Handled(A, ac, n + k))
                      /\ P[k].acks <= Failures
                      /\ Handled(A, ac, n + k) = {} => P[k].gsn = NoGsn
                      /\ Handled(A, ac, n + k) # {} => P[k].gsn = pl[n + k] - 1
    BY DEF OutOK
  <2>1. CASE k \in 1 .. Len(O)
    BY <1>4, <2>1 DEF Waiting, OutOK
  <2>2. CASE k = Len(O) + 1
    <3>1. P[k].req = n + k
      BY <1>1, <1>2, <1>4, <2>2
    <3>2. P[k].acks = 0 /\ P[k].gsn = NoGsn
      BY <1>4, <2>2
    <3>3. QED
      BY <1>6, <1>7, <2>2, <3>1, <3>2, FailuresAssumption
  <2>3. QED
    BY <1>1, <1>4, <2>1, <2>2
<1>9. Waiting(A, P, Q, l, ac, pl, n)
  BY <1>5, <1>8 DEF Waiting
<1>10. QED
  BY <1>3, <1>9

(* The farewell is sent.                                                   *)
LEMMA ByeWaits ==
  ASSUME NEW A, NEW O \in Seq(Outstanding), NEW R \in Seq(CMessage), NEW l, NEW ac, NEW pl,
         NEW n \in Nat, Waiting(A, O, R, l, ac, pl, n), NEW m, m.type = "bye"
  PROVE  Waiting(A, O, Append(R, m), l, ac, pl, n)
<1>1. Len(O) \in Nat /\ Len(R) \in Nat /\ n + Len(O) <= Len(R)
  BY DEF Waiting, ReqsOK
<1>2. PICK Q : Q = Append(R, m)
  OBVIOUS
<1>3. /\ Len(Q) = Len(R) + 1 /\ Q[Len(R) + 1] = m
      /\ \A k \in 1 .. Len(R) : Q[k] = R[k]
  BY <1>2
<1>4. ReqsOK(Q, O, n)
  <2>1. ASSUME NEW q \in 1 .. Len(Q) PROVE Q[q].type = "insert" <=> q <= n + Len(O)
    <3>1. CASE q = Len(R) + 1
      BY <1>1, <1>3, <3>1
    <3>2. CASE q \in 1 .. Len(R)
      BY <1>3, <3>2 DEF Waiting, ReqsOK
    <3>3. QED
      BY <1>1, <1>3, <3>1, <3>2
  <2>2. QED
    BY <1>1, <1>3, <2>1 DEF ReqsOK
<1>5. QED
  BY <1>2, <1>4 DEF Waiting

(* The acknowledgements A become B when the client handles that of server  *)
(* r for request p.                                                        *)
Taken(A, B, ac, pl, r, p) ==
  /\ AcksOK(B, ac, pl)
  /\ r \notin Handled(A, ac, p) /\ r \in Handled(B, ac, p)
  /\ \A q \in Nat : q < p => r \in Handled(A, ac, q)
  /\ \A q \in Nat : q # p => Handled(B, ac, q) = Handled(A, ac, q)
  /\ Handled(B, ac, p) = Handled(A, ac, p) \cup {r}

(* The client takes the next acknowledgement of server r.                  *)
LEMMA AckTaken ==
  ASSUME NEW A \in [Replicas -> Seq(Nat)], NEW ac \in [Replicas -> Nat], NEW pl,
         AcksOK(A, ac, pl), NEW r \in Replicas, A[r] # << >>,
         NEW p, p = (ac[r] - Len(A[r])) + 1,
         NEW B, B = [A EXCEPT ![r] = Tail(@)]
  PROVE  p \in 1 .. ac[r] /\ Taken(A, B, ac, pl, r, p)
<1>1. B[r] = Tail(A[r]) /\ \A s \in Replicas : s # r => B[s] = A[s]
  OBVIOUS
<1>2. PICK a \in Nat, l \in Nat : a = ac[r] /\ l = Len(A[r])
  OBVIOUS
<1>3. /\ A[r] \in Seq(Nat) /\ l <= a /\ l >= 1
      /\ \A i \in 1 .. l : A[r][i] = pl[(a - l) + i] - 1
  BY <1>2, SMTT(30) DEF AcksOK
<1>4. p = (a - l) + 1 /\ p \in 1 .. a
  BY <1>2, <1>3
<1>6. PICK C : C = Tail(A[r])
  OBVIOUS
<1>7. C \in Seq(Nat) /\ Len(C) = l - 1 /\ \A i \in 1 .. l - 1 : C[i] = A[r][i + 1]
  BY <1>2, <1>3, <1>6, HeadTailProperties
<1>8. AcksOK(B, ac, pl)
  <2> SUFFICES ASSUME NEW s \in Replicas
               PROVE  /\ B[s] \in Seq(Nat) /\ Len(B[s]) <= ac[s]
                      /\ \A i \in 1 .. Len(B[s]) : B[s][i] = pl[(ac[s] - Len(B[s])) + i] - 1
    BY DEF AcksOK
  <2>1. CASE s # r
    BY <1>1, <2>1 DEF AcksOK
  <2>2. CASE s = r
    <3>1. \A i \in 1 .. l - 1 : i + 1 \in 1 .. l /\ (a - l) + (i + 1) = (a - (l - 1)) + i
      BY <1>3
    <3>2. \A i \in 1 .. l - 1 : C[i] = pl[(a - (l - 1)) + i] - 1
      BY <1>3, <1>7, <3>1
    <3>3. B[s] = C /\ ac[s] = a /\ Len(C) = l - 1 /\ l - 1 <= a
      BY <1>1, <1>2, <1>3, <1>6, <1>7, <2>2
    <3>4. QED
      BY <1>7, <3>2, <3>3
  <2>3. QED
    BY <2>1, <2>2
<1>9. /\ ac[r] - Len(A[r]) = p - 1 /\ ac[r] - Len(B[r]) = p
  BY <1>1, <1>2, <1>4, <1>6, <1>7
<1>10. r \notin Handled(A, ac, p) /\ r \in Handled(B, ac, p)
  BY <1>4, <1>9, SMTT(30) DEF Handled
<1>11. \A q \in Nat : q < p => r \in Handled(A, ac, q)
  BY <1>4, <1>9 DEF Handled
<1>12. ASSUME NEW q \in Nat, NEW s \in Replicas, s # r \/ q # p
       PROVE  s \in Handled(B, ac, q) <=> s \in Handled(A, ac, q)
  <2>1. CASE s # r
    BY <1>1, <2>1 DEF Handled
  <2>2. CASE s = r /\ q # p
    <3>1. p >= q <=> p - 1 >= q
      BY <1>4, <2>2, SMTT(30)
    <3>2. QED
      BY <1>9, <2>2, <3>1 DEF Handled
  <2>3. QED
    BY <1>12, <2>1, <2>2
<1>13. \A q : Handled(A, ac, q) \subseteq Replicas /\ Handled(B, ac, q) \subseteq Replicas
  BY DEF Handled
<1>14. \A q \in Nat : q # p => Handled(B, ac, q) = Handled(A, ac, q)
  BY <1>12, <1>13
<1>15. Handled(B, ac, p) = Handled(A, ac, p) \cup {r}
  <2>1. p \in Nat
    BY <1>4
  <2>2. \A s \in Replicas : s # r => (s \in Handled(B, ac, p) <=> s \in Handled(A, ac, p))
    BY <1>12, <2>1
  <2>3. QED
    BY <1>10, <1>13, <2>2, Zenon
<1>16. Taken(A, B, ac, pl, r, p)
  BY <1>8, <1>10, <1>11, <1>14, <1>15 DEF Taken
<1>17. QED
  BY <1>2, <1>4, <1>16

(* An acknowledgement is for an answered request if and only if its GSN is *)
(* not above the latest.                                                   *)
LEMMA AckIsOld ==
  ASSUME NEW resp, NEW R, NEW l, NEW ac \in [Replicas -> Nat], NEW pl, NEW n \in Nat,
         Told(resp, ac, pl, n), Fine(R, ac, pl), LatestOK(l, pl, n),
         NEW r \in Replicas, NEW p \in 1 .. ac[r]
  PROVE  p <= n <=> (l # NoGsn /\ pl[p] - 1 <= l)
<1>1. pl[p] \in 1 .. NoGsn /\ NoGsn \in Nat
  BY NoGsnAssumption DEF Fine
<1>2. CASE p <= n
  <2>1. n \in 1 .. n /\ n # 0
    BY <1>2
  <2>2. PICK s \in Replicas : ac[s] >= n
    BY <2>1, AnsweredIsAccepted
  <2>3. n \in 1 .. ac[s] /\ n \in 0 .. ac[s] /\ p \in 0 .. ac[s]
    BY <1>2, <2>1, <2>2
  <2>4. pl[n] \in 1 .. NoGsn /\ (p < n => pl[p] < pl[n])
    BY <2>3 DEF Fine, Ascending
  <2>5. l = pl[n] - 1
    BY <2>1 DEF LatestOK
  <2>6. pl[p] <= pl[n]
    <3>1. CASE p = n
      BY <1>1, <3>1
    <3>2. CASE p < n
      BY <1>1, <2>4, <3>2
    <3>3. QED
      BY <1>2, <3>1, <3>2
  <2>7. QED
    BY <1>1, <1>2, <2>4, <2>5, <2>6
<1>3. CASE p > n /\ n = 0
  BY <1>3 DEF LatestOK
<1>4. CASE p > n /\ n # 0
  <2>1. n \in 1 .. ac[r] /\ n \in 0 .. ac[r] /\ p \in 0 .. ac[r]
    BY <1>4
  <2>2. pl[n] \in 1 .. NoGsn /\ pl[n] < pl[p]
    BY <1>4, <2>1 DEF Fine, Ascending
  <2>3. l = pl[n] - 1
    BY <1>4 DEF LatestOK
  <2>4. QED
    BY <1>1, <1>4, <2>2, <2>3
<1>5. QED
  BY <1>2, <1>3, <1>4

(* An acknowledgement of an answered request changes nothing.              *)
LEMMA OldAckWaits ==
  ASSUME NEW A, NEW B, NEW O \in Seq(Outstanding), NEW R, NEW l, NEW ac, NEW pl,
         NEW n \in Nat, Waiting(A, O, R, l, ac, pl, n), NEW r, NEW p \in Nat,
         Taken(A, B, ac, pl, r, p), p <= n
  PROVE  Waiting(B, O, R, l, ac, pl, n)
<1>1. \A k \in 1 .. Len(O) : n + k \in Nat /\ n + k # p
  OBVIOUS
<1>2. \A k \in 1 .. Len(O) : Handled(B, ac, n + k) = Handled(A, ac, n + k)
  BY <1>1 DEF Taken
<1>3. OutOK(O, B, ac, pl, n)
  BY <1>2 DEF Waiting, OutOK
<1>4. QED
  BY <1>3 DEF Waiting, Taken

(* Any other acknowledgement is for the first outstanding request that it  *)
(* can be for.                                                             *)
LEMMA AckMatches ==
  ASSUME NEW A, NEW B, NEW O \in Seq(Outstanding), NEW R \in Seq(CMessage), NEW l,
         NEW ac \in [Replicas -> Nat], NEW pl, NEW n \in Nat,
         Waiting(A, O, R, l, ac, pl, n), Fine(R, ac, pl), NEW r \in Replicas,
         NEW p \in 1 .. ac[r], Taken(A, B, ac, pl, r, p), p > n
  PROVE  /\ p - n \in 1 .. Len(O)
         /\ O[p - n].gsn \in {NoGsn, pl[p] - 1}
         /\ \A j \in 1 .. Len(O) : j < p - n => O[j].gsn \notin {NoGsn, pl[p] - 1}
<1>1. PICK a \in Nat : a = ac[r]
  OBVIOUS
<1>2. p \in 1 .. a /\ a <= Len(R) /\ Len(R) \in Nat /\ Len(O) \in Nat
  BY <1>1 DEF Fine
<1>3. p \in 1 .. Len(R) /\ R[p].type = "insert"
  BY <1>2 DEF Fine
<1>4. p <= n + Len(O)
  BY <1>3 DEF Waiting, ReqsOK
<1>5. p - n \in 1 .. Len(O) /\ n + (p - n) = p
  BY <1>2, <1>4
<1>6. O[p - n].gsn \in {NoGsn, pl[p] - 1}
  <2>1. /\ Handled(A, ac, n + (p - n)) = {} => O[p - n].gsn = NoGsn
        /\ Handled(A, ac, n + (p - n)) # {} => O[p - n].gsn = pl[n + (p - n)] - 1
    BY <1>5 DEF Waiting, OutOK
  <2>2. QED
    BY <1>5, <2>1
<1>7. ASSUME NEW j \in 1 .. Len(O), j < p - n
      PROVE  O[j].gsn \notin {NoGsn, pl[p] - 1}
  <2>1. n + j \in Nat /\ n + j < p /\ n + j \in 1 .. a /\ n + j \in 0 .. a /\ p \in 0 .. a
    BY <1>2, <1>7
  <2>2. Handled(A, ac, n + j) # {}
    BY <2>1 DEF Taken
  <2>3. O[j].gsn = pl[n + j] - 1
    BY <2>2 DEF Waiting, OutOK
  <2>4. pl[n + j] \in 1 .. NoGsn /\ pl[p] \in 1 .. NoGsn /\ pl[n + j] < pl[p]
    BY <1>1, <1>2, <2>1 DEF Fine, Ascending
  <2>5. QED
    BY <2>3, <2>4, NoGsnAssumption
<1>8. QED
  BY <1>5, <1>6, <1>7

(* The request counts one acknowledgement more.                            *)
LEMMA AckCounts ==
  ASSUME NEW A, NEW B, NEW ac, NEW pl, NEW r \in Replicas, NEW p, Taken(A, B, ac, pl, r, p)
  PROVE  /\ Cardinality(Handled(A, ac, p)) \in Nat
         /\ Cardinality(Handled(B, ac, p)) = Cardinality(Handled(A, ac, p)) + 1
<1>1. Handled(A, ac, p) \subseteq Replicas
  BY DEF Handled
<1>2. IsFiniteSet(Handled(A, ac, p)) /\ Cardinality(Handled(A, ac, p)) \in Nat
  BY <1>1, ServersFinite
<1>3. r \notin Handled(A, ac, p) /\ Handled(B, ac, p) = Handled(A, ac, p) \cup {r}
  BY DEF Taken
<1>4. QED
  BY <1>2, <1>3, FS_AddElement

(* An acknowledgement that is not yet enough.                              *)
LEMMA AckWaits ==
  ASSUME NEW A, NEW B, NEW O \in Seq(Outstanding), NEW R, NEW l, NEW ac, NEW pl,
         NEW n \in Nat, Waiting(A, O, R, l, ac, pl, n), NEW r \in Replicas,
         NEW p \in Nat, Taken(A, B, ac, pl, r, p), NEW k \in 1 .. Len(O), n + k = p,
         O[k].acks + 1 <= Failures, NEW o, o.req = O[k].req, o.gsn = pl[p] - 1,
         o.acks = O[k].acks + 1
  PROVE  Waiting(B, [O EXCEPT ![k] = o], R, l, ac, pl, n)
<1>1. PICK P : P = [O EXCEPT ![k] = o]
  OBVIOUS
<1>2. Len(P) = Len(O) /\ P[k] = o /\ \A j \in 1 .. Len(O) : j # k => P[j] = O[j]
  BY <1>1
<1>3. OutOK(P, B, ac, pl, n)
  <2> SUFFICES ASSUME NEW j \in 1 .. Len(O)
               PROVE  /\ P[j].req = n + j
                      /\ P[j].acks = Cardinality(Handled(B, ac, n + j))
                      /\ P[j].acks <= Failures
                      /\ Handled(B, ac, n + j) = {} => P[j].gsn = NoGsn
                      /\ Handled(B, ac, n + j) # {} => P[j].gsn = pl[n + j] - 1
    BY <1>2 DEF OutOK
  <2>1. CASE j # k
    <3>1. n + j \in Nat /\ n + j # p
      BY <2>1
    <3>2. Handled(B, ac, n + j) = Handled(A, ac, n + j)
      BY <3>1 DEF Taken
    <3>3. QED
      BY <1>2, <2>1, <3>2 DEF Waiting, OutOK
  <2>2. CASE j = k
    <3>1. /\ O[k].req = n + k /\ O[k].acks = Cardinality(Handled(A, ac, n + k))
      BY DEF Waiting, OutOK
    <3>2. Cardinality(Handled(B, ac, p)) = Cardinality(Handled(A, ac, p)) + 1
      BY AckCounts
    <3>3. Handled(B, ac, p) # {}
      BY DEF Taken
    <3>4. QED
      BY <1>2, <2>2, <3>1, <3>2, <3>3
  <2>3. QED
    BY <2>1, <2>2
<1>4. ReqsOK(R, P, n)
  BY <1>2 DEF Waiting, ReqsOK
<1>5. Waiting(B, P, R, l, ac, pl, n)
  BY <1>3, <1>4 DEF Waiting, Taken
<1>6. QED
  BY <1>1, <1>5

(* The acknowledgement that is enough is for the oldest request.           *)
LEMMA OldestCompletes ==
  ASSUME NEW A, NEW B, NEW O \in Seq(Outstanding), NEW R, NEW l,
         NEW ac \in [Replicas -> Nat], NEW pl,
         NEW n \in Nat, Waiting(A, O, R, l, ac, pl, n), NEW r \in Replicas,
         NEW p \in Nat, Taken(A, B, ac, pl, r, p), NEW k \in 1 .. Len(O), n + k = p,
         O[k].acks + 1 > Failures
  PROVE  k = 1 /\ O[k].req = p /\ Cardinality(Having(ac, p)) > Failures
<1>1. O[k].req = p /\ O[k].acks = Cardinality(Handled(A, ac, p))
  BY DEF Waiting, OutOK
<1>2. /\ Cardinality(Handled(A, ac, p)) \in Nat
      /\ Cardinality(Handled(B, ac, p)) = Cardinality(Handled(A, ac, p)) + 1
  BY AckCounts
<1>3. Cardinality(Handled(B, ac, p)) > Failures
  BY <1>1, <1>2
<1>4. Handled(B, ac, p) \subseteq Having(ac, p) /\ Having(ac, p) \subseteq Replicas
  <2>1. \A s \in Replicas : Len(B[s]) \in Nat
    BY DEF Taken, AcksOK
  <2>2. QED
    BY <2>1 DEF Handled, Having
<1>5. Cardinality(Having(ac, p)) > Failures
  <2>1. /\ Cardinality(Handled(B, ac, p)) \in Nat /\ Cardinality(Having(ac, p)) \in Nat
        /\ Cardinality(Handled(B, ac, p)) <= Cardinality(Having(ac, p))
    BY <1>4, MoreServers
  <2>2. QED
    BY <1>3, <2>1, FailuresAssumption
<1>6. k = 1
  <2>1. SUFFICES ASSUME k # 1 PROVE FALSE
    OBVIOUS
  <2>2. 1 \in 1 .. Len(O) /\ n + 1 \in Nat /\ n + 1 < p
    BY <2>1
  <2>3. r \in Handled(A, ac, n + 1)
    BY <2>2 DEF Taken
  <2>4. Handled(A, ac, p) \subseteq Handled(A, ac, n + 1)
    <3>1. \A s \in Replicas : Len(A[s]) \in Nat
      BY DEF Waiting, AcksOK
    <3>2. QED
      BY <2>2, <3>1 DEF Handled
  <2>5. Handled(B, ac, p) \subseteq Handled(A, ac, n + 1)
    BY <2>3, <2>4 DEF Taken
  <2>6. Handled(A, ac, n + 1) \subseteq Replicas
    BY DEF Handled
  <2>7. /\ Cardinality(Handled(B, ac, p)) \in Nat /\ Cardinality(Handled(A, ac, n + 1)) \in Nat
        /\ Cardinality(Handled(B, ac, p)) <= Cardinality(Handled(A, ac, n + 1))
    BY <2>5, <2>6, MoreServers
  <2>8. Cardinality(Handled(A, ac, n + 1)) <= Failures
    BY <2>2 DEF Waiting, OutOK
  <2>9. QED
    BY <1>3, <2>7, <2>8, FailuresAssumption
<1>7. QED
  BY <1>1, <1>5, <1>6

(* The oldest request is answered.                                         *)
LEMMA AnswerWaits ==
  ASSUME NEW A, NEW B, NEW O \in Seq(Outstanding), NEW R, NEW l, NEW ac, NEW pl,
         NEW n \in Nat, Waiting(A, O, R, l, ac, pl, n), NEW r, Len(O) >= 1,
         Taken(A, B, ac, pl, r, n + 1)
  PROVE  Waiting(B, SubSeq(O, 1, 1 - 1) \o SubSeq(O, 1 + 1, Len(O)), R, pl[n + 1] - 1,
                 ac, pl, n + 1)
<1>1. PICK P : P = SubSeq(O, 1, 1 - 1) \o SubSeq(O, 1 + 1, Len(O))
  OBVIOUS
<1>2. Len(P) = Len(O) - 1 /\ (\A j \in 1 .. Len(O) - 1 : P[j] = O[j + 1]) /\ Len(O) \in Nat
  <2>1. Len(O) \in Nat /\ 1 - 1 = 0 /\ 1 + 1 = 2
    OBVIOUS
  <2>2. SubSeq(O, 1, 1 - 1) = << >>
    BY <2>1
  <2>3. PICK T : T = SubSeq(O, 1 + 1, Len(O))
    OBVIOUS
  <2>4. T = Tail(O)
    BY <2>1, <2>3, O # << >>
  <2>5. T \in Seq(Outstanding) /\ Len(T) = Len(O) - 1
        /\ \A j \in 1 .. Len(O) - 1 : T[j] = O[j + 1]
    BY <2>4, O # << >>
  <2>6. P = << >> \o T
    BY <1>1, <2>2, <2>3
  <2>7. P = T
    BY <2>5, <2>6
  <2>8. QED
    BY <2>1, <2>5, <2>7
<1>3. OutOK(P, B, ac, pl, n + 1)
  <2> SUFFICES ASSUME NEW j \in 1 .. Len(O) - 1
               PROVE  /\ P[j].req = (n + 1) + j
                      /\ P[j].acks = Cardinality(Handled(B, ac, (n + 1) + j))
                      /\ P[j].acks <= Failures
                      /\ Handled(B, ac, (n + 1) + j) = {} => P[j].gsn = NoGsn
                      /\ Handled(B, ac, (n + 1) + j) # {} => P[j].gsn = pl[(n + 1) + j] - 1
    BY <1>2 DEF OutOK
  <2>1. j + 1 \in 1 .. Len(O) /\ (n + 1) + j = n + (j + 1) /\ (n + 1) + j \in Nat
        /\ (n + 1) + j # n + 1
    BY <1>2
  <2>2. Handled(B, ac, (n + 1) + j) = Handled(A, ac, n + (j + 1))
    BY <2>1 DEF Taken
  <2>3. P[j] = O[j + 1]
    BY <1>2
  <2>4. QED
    BY <2>1, <2>2, <2>3 DEF Waiting, OutOK
<1>4. ReqsOK(R, P, n + 1)
  <2>1. (n + 1) + Len(P) = n + Len(O)
    BY <1>2
  <2>2. QED
    BY <2>1 DEF Waiting, ReqsOK
<1>5. LatestOK(pl[n + 1] - 1, pl, n + 1)
  BY DEF LatestOK
<1>6. Waiting(B, P, R, pl[n + 1] - 1, ac, pl, n + 1)
  BY <1>3, <1>4, <1>5 DEF Waiting, Taken
<1>7. QED
  BY <1>1, <1>6

(* One more response.                                                      *)
LEMMA ToldMore ==
  ASSUME NEW resp, NEW ac, NEW pl, NEW n \in Nat, Told(resp, ac, pl, n),
         Cardinality(Having(ac, n + 1)) > Failures, NEW g, g = pl[n + 1] - 1
  PROVE  Told([q \in DOMAIN resp \cup {n + 1} |-> IF q = n + 1 THEN g ELSE resp[q]],
              ac, pl, n + 1)
<1>1. DOMAIN resp \cup {n + 1} = 1 .. n + 1
  BY DEF Told
<1>2. PICK f : f = [q \in DOMAIN resp \cup {n + 1} |-> IF q = n + 1 THEN g ELSE resp[q]]
  OBVIOUS
<1>3. DOMAIN f = 1 .. n + 1 /\ f[n + 1] = g /\ \A q \in 1 .. n : f[q] = resp[q]
  BY <1>1, <1>2
<1>4. \A q \in 1 .. n + 1 : q = n + 1 \/ q \in 1 .. n
  OBVIOUS
<1>5. Told(f, ac, pl, n + 1)
  BY <1>3, <1>4 DEF Told
<1>6. QED
  BY <1>2, <1>5

(* The number of requests of client c that each server has accepted.       *)
Row(acc, c) == [s \in Replicas |-> acc[s][c]]

(* Client c knows of n answers, and waits for the others while it runs.    *)
Knows(c, ac, pl, n) ==
  /\ Told(response[c], ac, pl, n)
  /\ alive[c] => Waiting(acks[c], out[c], reqs[c], latest[c], ac, pl, n)

AllKnow(place, acc, dn) ==
  /\ dn \in [Clients -> Nat]
  /\ \A c \in Clients : Knows(c, Row(acc, c), place[c], dn[c])

AnswersInv == \E place, acc, dn : Accounts(place, acc) /\ AllKnow(place, acc, dn)

(* The accounts of a client say what its answers need.                     *)
LEMMA RowFine ==
  ASSUME Types, SameSlots, NEW place, NEW acc, Accounts(place, acc), NEW c \in Clients
  PROVE  Row(acc, c) \in [Replicas -> Nat] /\ Fine(reqs[c], Row(acc, c), place[c])
<1>1. Row(acc, c) \in [Replicas -> Nat] /\ \A s \in Replicas : Row(acc, c)[s] = acc[s][c]
  BY DEF Row, Accounts
<1>2. ASSUME NEW s \in Replicas, NEW a \in Nat, a = acc[s][c], NEW pl, pl = place[c]
      PROVE  /\ a <= Len(reqs[c]) /\ Ascending(pl, a)
             /\ \A q \in 1 .. a : reqs[c][q].type = "insert" /\ pl[q] \in 1 .. NoGsn
  <2>1. Account(s, c, pl, a)
    BY <1>2 DEF Accounts
  <2>2. a <= Len(reqs[c])
    BY <2>1, StateTypes DEF Account
  <2>3. Len(log[s]) \in Nat /\ Len(log[s]) <= gsnBase /\ gsnBase < NoGsn /\ gsnBase \in Nat
    BY StateTypes DEF SameSlots, Types, OrderTypes
  <2>4. ASSUME NEW q \in 1 .. a
        PROVE  reqs[c][q].type = "insert" /\ pl[q] \in 1 .. NoGsn
    <3>1. reqs[c][q].type = "insert" /\ pl[q] \in 1 .. Len(log[s])
      BY <2>1 DEF Account, PlacedAt
    <3>2. QED
      BY <2>3, <3>1, NoGsnAssumption
  <2>5. QED
    BY <2>1, <2>2, <2>4 DEF Account
<1>3. ASSUME NEW s \in Replicas
      PROVE  /\ Row(acc, c)[s] \in Nat /\ Row(acc, c)[s] <= Len(reqs[c])
             /\ Ascending(place[c], Row(acc, c)[s])
             /\ \A q \in 1 .. Row(acc, c)[s] :
                  reqs[c][q].type = "insert" /\ place[c][q] \in 1 .. NoGsn
  <2>1. PICK a \in Nat : a = acc[s][c]
    BY DEF Accounts
  <2>2. Row(acc, c)[s] = a
    BY <1>1, <2>1
  <2>3. QED
    BY <1>2, <2>1, <2>2
<1>4. QED
  BY <1>1, <1>3 DEF Fine

(* Nothing changes for client x.                                           *)
ClientSame(x) ==
  /\ acks'[x] = acks[x] /\ out'[x] = out[x] /\ reqs'[x] = reqs[x]
  /\ latest'[x] = latest[x] /\ response'[x] = response[x] /\ alive'[x] = alive[x]

(* What client x knows stays while nothing changes for it.                 *)
LEMMA KnowsSame ==
  ASSUME NEW x \in Clients, ClientSame(x), NEW ac, NEW pl, NEW n, Knows(x, ac, pl, n)
  PROVE  Knows(x, ac, pl, n)'
BY DEF ClientSame, Knows

(* Client c sends a request.                                               *)
LEMMA SendRequestKnows ==
  ASSUME Types, NEW c \in Clients, NEW d, NEW m, SendRequest(c, d, m),
         NEW ac \in [Replicas -> Nat], NEW pl, NEW n \in Nat, Knows(c, ac, pl, n),
         Fine(reqs[c], ac, pl)
  PROVE  Knows(c, ac, pl, n)'
<1>1. /\ alive[c] /\ UNCHANGED <<acks, alive, latest, response>>
      /\ \A k \in DOMAIN reqs[c] : reqs[c][k].type # "bye"
  BY DEF SendRequest, channelVars
<1>2. PICK o, e : o = [req |-> Len(reqs[c]) + 1, gsn |-> NoGsn, acks |-> 0]
                  /\ e = [type |-> "insert", data |-> d, num |-> m]
  OBVIOUS
<1>3. reqs[c] \in Seq(CMessage) /\ out[c] \in Seq(Outstanding) /\ Len(reqs[c]) \in Nat
  BY DEF Types, ClientTypes
<1>4. o \in Outstanding /\ o.req = Len(reqs[c]) + 1 /\ o.gsn = NoGsn /\ o.acks = 0
      /\ e.type = "insert"
  BY <1>2, <1>3, NoGsnAssumption DEF Outstanding
<1>5. reqs'[c] = Append(reqs[c], e) /\ out'[c] = Append(out[c], o)
  BY <1>2 DEF SendRequest, Types, ClientTypes
<1>6. Waiting(acks[c], out[c], reqs[c], latest[c], ac, pl, n)
  BY <1>1 DEF Knows
<1>7. \A q \in 1 .. Len(reqs[c]) : reqs[c][q].type # "bye"
  BY <1>1, <1>3
<1>8. PICK A, O, R, l : A = acks[c] /\ O = out[c] /\ R = reqs[c] /\ l = latest[c]
  OBVIOUS
<1>9. Waiting(A, Append(O, o), Append(R, e), l, ac, pl, n)
  BY <1>3, <1>4, <1>6, <1>7, <1>8, SendWaits
<1>10. Waiting(acks'[c], out'[c], reqs'[c], latest'[c], ac, pl, n)
  BY <1>1, <1>5, <1>8, <1>9
<1>11. QED
  BY <1>1, <1>10 DEF Knows

(* Client c says that it leaves.                                           *)
LEMMA SendByeKnows ==
  ASSUME Types, NEW c \in Clients, SendBye(c),
         NEW ac, NEW pl, NEW n \in Nat, Knows(c, ac, pl, n)
  PROVE  Knows(c, ac, pl, n)'
<1>1. alive[c] /\ UNCHANGED <<acks, alive, latest, response, out>>
  BY DEF SendBye, channelVars
<1>2. PICK e : e = [type |-> "bye"]
  OBVIOUS
<1>3. e.type = "bye" /\ reqs'[c] = Append(reqs[c], e)
  BY <1>2 DEF SendBye, Types, ClientTypes
<1>4. reqs[c] \in Seq(CMessage) /\ out[c] \in Seq(Outstanding)
  BY DEF Types, ClientTypes
<1>5. Waiting(acks[c], out[c], reqs[c], latest[c], ac, pl, n)
  BY <1>1 DEF Knows
<1>6. PICK A, O, R, l : A = acks[c] /\ O = out[c] /\ R = reqs[c] /\ l = latest[c]
  OBVIOUS
<1>7. Waiting(A, O, Append(R, e), l, ac, pl, n)
  BY <1>3, <1>4, <1>5, <1>6, ByeWaits
<1>8. Waiting(acks'[c], out'[c], reqs'[c], latest'[c], ac, pl, n)
  BY <1>1, <1>3, <1>6, <1>7
<1>9. QED
  BY <1>1, <1>8 DEF Knows

(* An acknowledgement is an old one, one more for an outstanding request,  *)
(* or the one that completes the oldest request.                           *)
LEMMA InsertAckKnows ==
  ASSUME Types, NEW c \in Clients, NEW r \in Replicas, InsertAck(c, r),
         NEW ac \in [Replicas -> Nat], NEW pl, NEW n \in Nat, Knows(c, ac, pl, n),
         Fine(reqs[c], ac, pl)
  PROVE  \E m \in Nat : Knows(c, ac, pl, m)'
<1>1. /\ alive[c] /\ acks[c][r] # << >> /\ UNCHANGED <<alive, reqs>>
      /\ acks' = [acks EXCEPT ![c][r] = Tail(@)]
  BY DEF InsertAck
<1>2. /\ reqs[c] \in Seq(CMessage) /\ out[c] \in Seq(Outstanding) /\ latest[c] \in Nat
      /\ acks[c] \in [Replicas -> Seq(Nat)] /\ acks[c][r] \in Seq(Nat)
  BY DEF Types, ClientTypes, AcksType
<1>3. PICK A, O, R, l, resp : /\ A = acks[c] /\ O = out[c] /\ R = reqs[c] /\ l = latest[c]
                              /\ resp = response[c]
  OBVIOUS
<1>4. PICK B : B = [A EXCEPT ![r] = Tail(@)]
  OBVIOUS
<1>5. acks'[c] = B
  BY <1>1, <1>2, <1>3, <1>4 DEF Types, AcksType
<1>6. PICK p : p = (ac[r] - Len(A[r])) + 1
  OBVIOUS
<1>7. Waiting(A, O, R, l, ac, pl, n) /\ Told(resp, ac, pl, n)
  BY <1>1, <1>3 DEF Knows
<1>8. p \in 1 .. ac[r] /\ Head(A[r]) = pl[p] - 1 /\ Taken(A, B, ac, pl, r, p)
  <2>1. A \in [Replicas -> Seq(Nat)] /\ A[r] # << >> /\ AcksOK(A, ac, pl)
    BY <1>1, <1>2, <1>3, <1>7 DEF Waiting
  <2>2. p \in 1 .. ac[r] /\ Taken(A, B, ac, pl, r, p)
    BY <1>4, <1>6, <2>1, AckTaken
  <2>3. A[r][1] = pl[p] - 1
    <3>1. Len(A[r]) \in Nat /\ Len(A[r]) >= 1 /\ ac[r] \in Nat
      BY <2>1
    <3>2. 1 \in 1 .. Len(A[r]) /\ p = (ac[r] - Len(A[r])) + 1
      BY <1>6, <3>1
    <3>3. QED
      BY <2>1, <3>2 DEF AcksOK
  <2>4. A[r] \in Seq(Nat)
    BY <2>1
  <2>5. Head(A[r]) = A[r][1]
    BY <2>1, <2>4
  <2>6. QED
    BY <2>2, <2>3, <2>5
<1>9. p \in Nat /\ p >= 1
  BY <1>8
<1>10. PICK g : g = Head(acks[c][r])
  OBVIOUS
<1>11. g = pl[p] - 1 /\ g \in Nat
  BY <1>1, <1>2, <1>3, <1>8, <1>10
<1>12. p <= n <=> (l # NoGsn /\ g <= l)
  BY <1>3, <1>7, <1>8, <1>11, AckIsOld DEF Waiting
<1>13. ASSUME p > n PROVE Matching(c, g) # {} /\ Acked(c, g) = p - n /\ p - n \in 1 .. Len(O)
  <2>1. /\ p - n \in 1 .. Len(O) /\ O[p - n].gsn \in {NoGsn, pl[p] - 1}
        /\ \A j \in 1 .. Len(O) : j < p - n => O[j].gsn \notin {NoGsn, pl[p] - 1}
    <3>1. O \in Seq(Outstanding) /\ R \in Seq(CMessage) /\ Fine(R, ac, pl)
      BY <1>2, <1>3
    <3>2. QED
      BY <1>7, <1>8, <1>13, <3>1, AckMatches, ZenonT(30)
  <2>2. Matching(c, g) # {}
    BY <1>2, <1>3, <1>11, <2>1 DEF Matching
  <2>3. /\ Acked(c, g) \in 1 .. Len(out[c]) /\ out[c][Acked(c, g)].gsn \in {NoGsn, g}
        /\ \A m \in 1 .. Len(out[c]) : out[c][m].gsn \in {NoGsn, g} => Acked(c, g) <= m
    BY <2>2, AckedFound DEF Types
  <2>4. PICK k \in 1 .. Len(O) : k = Acked(c, g)
    BY <1>3, <2>3
  <2>5. k <= p - n /\ ~ (k < p - n)
    BY <1>3, <1>11, <2>1, <2>3, <2>4
  <2>6. k = p - n
    BY <1>2, <1>3, <2>1, <2>4, <2>5
  <2>7. QED
    BY <2>1, <2>2, <2>4, <2>6
<1>14. CASE p <= n
  <2>1. latest[c] # NoGsn /\ g <= latest[c]
    BY <1>3, <1>12, <1>14
  <2>2. UNCHANGED <<out, latest, response>>
    BY <1>10, <2>1 DEF InsertAck
  <2>3. Waiting(B, O, R, l, ac, pl, n)
    BY <1>2, <1>3, <1>7, <1>8, <1>9, <1>14, OldAckWaits
  <2>4. Waiting(acks'[c], out'[c], reqs'[c], latest'[c], ac, pl, n)
    BY <1>1, <1>3, <1>5, <2>2, <2>3
  <2>5. Knows(c, ac, pl, n)'
    BY <1>3, <1>7, <2>2, <2>4 DEF Knows
  <2>6. QED
    BY <2>5
<1>15. CASE p > n
  <2>1. PICK k \in 1 .. Len(O) : k = p - n
    BY <1>13, <1>15
  <2>2. Matching(c, g) # {} /\ Acked(c, g) = k /\ n + k = p /\ k \in Nat
    BY <1>9, <1>13, <1>15, <2>1
  <2>3. ~ (latest[c] # NoGsn /\ g <= latest[c])
    BY <1>3, <1>9, <1>12, <1>15
  <2>4. O[k] \in Outstanding
    BY <1>2, <1>3
  <2>5. CASE Enough(out[c][k].acks + 1)
    <3>1. /\ response' = [response EXCEPT ![c] =
               [q \in DOMAIN @ \cup {out[c][k].req} |->
                  IF q = out[c][k].req THEN g ELSE @[q]]]
          /\ latest' = [latest EXCEPT ![c] = g]
          /\ out' = [out EXCEPT ![c] =
               SubSeq(@, 1, k - 1) \o SubSeq(@, k + 1, Len(@))]
      BY <1>10, <2>2, <2>3, <2>5, Zenon DEF InsertAck
    <3>2. O[k].acks + 1 > Failures
      BY <1>3, <2>5 DEF Enough
    <3>3. k = 1 /\ O[k].req = p /\ Cardinality(Having(ac, p)) > Failures
      BY <1>2, <1>3, <1>7, <1>8, <1>9, <2>2, <3>2, OldestCompletes
    <3>4. p = n + 1 /\ Len(O) >= 1
      BY <1>2, <1>3, <2>2, <3>3
    <3>5. PICK P : P = SubSeq(O, 1, 1 - 1) \o SubSeq(O, 1 + 1, Len(O))
      OBVIOUS
    <3>6. Waiting(B, P, R, pl[n + 1] - 1, ac, pl, n + 1)
      BY <1>2, <1>3, <1>7, <1>8, <3>4, <3>5, AnswerWaits
    <3>7. PICK f : f = [q \in DOMAIN resp \cup {n + 1} |-> IF q = n + 1 THEN g ELSE resp[q]]
      OBVIOUS
    <3>8. Told(f, ac, pl, n + 1)
      <4>1. g = pl[n + 1] - 1 /\ Cardinality(Having(ac, n + 1)) > Failures
        BY <1>11, <3>3, <3>4
      <4>2. Told([q \in DOMAIN resp \cup {n + 1} |-> IF q = n + 1 THEN g ELSE resp[q]],
                 ac, pl, n + 1)
        BY <1>7, <4>1, ToldMore
      <4>3. QED
        BY <3>7, <4>2
    <3>9. out'[c] = P /\ latest'[c] = pl[n + 1] - 1
      BY <1>3, <1>11, <3>1, <3>3, <3>4, <3>5 DEF Types, ClientTypes
    <3>10. response'[c] = f
      <4>1. response'[c] = [q \in DOMAIN response[c] \cup {out[c][k].req} |->
                              IF q = out[c][k].req THEN g ELSE response[c][q]]
        BY <3>1 DEF Types, ClientTypes
      <4>2. out[c][k].req = n + 1
        BY <1>3, <3>3, <3>4
      <4>3. QED
        BY <1>3, <3>7, <4>1, <4>2, SMTT(30)
    <3>11. Waiting(acks'[c], out'[c], reqs'[c], latest'[c], ac, pl, n + 1)
      BY <1>1, <1>3, <1>5, <3>6, <3>9
    <3>12. Knows(c, ac, pl, n + 1)'
      BY <3>8, <3>10, <3>11 DEF Knows
    <3>13. QED
      BY <3>12
  <2>6. CASE ~ Enough(out[c][k].acks + 1)
    <3>1. /\ out' = [out EXCEPT ![c][k].gsn = g, ![c][k].acks = @ + 1]
          /\ UNCHANGED <<latest, response>>
      BY <1>10, <2>2, <2>3, <2>6, Zenon DEF InsertAck
    <3>2. O[k].acks + 1 <= Failures
      BY <1>3, <2>4, <2>6, FailuresAssumption DEF Enough, Outstanding
    <3>3. PICK o : o = [O[k] EXCEPT !.gsn = g, !.acks = @ + 1]
      OBVIOUS
    <3>4. o = [req |-> O[k].req, gsn |-> g, acks |-> O[k].acks + 1]
      BY <1>11, <2>4, <3>3, OutstandingUpdate
    <3>5. o.req = O[k].req /\ o.gsn = pl[p] - 1 /\ o.acks = O[k].acks + 1
      BY <1>11, <3>4
    <3>6. Waiting(B, [O EXCEPT ![k] = o], R, l, ac, pl, n)
      BY <1>2, <1>3, <1>7, <1>8, <1>9, <2>2, <3>2, <3>5, AckWaits
    <3>7. out'[c] = [O EXCEPT ![k] = o]
      BY <1>2, <1>3, <2>4, <3>1, <3>3 DEF Types, ClientTypes
    <3>8. Waiting(acks'[c], out'[c], reqs'[c], latest'[c], ac, pl, n)
      BY <1>1, <1>3, <1>5, <3>1, <3>6, <3>7
    <3>9. Knows(c, ac, pl, n)'
      BY <1>3, <1>7, <3>1, <3>8 DEF Knows
    <3>10. QED
      BY <3>9
  <2>7. QED
    BY <2>5, <2>6
<1>16. QED
  BY <1>9, <1>14, <1>15

(* The clients that a step is not about.                                   *)
LEMMA OtherClients ==
  ASSUME Types, NEW c \in Clients, Client(c), NEW x \in Clients, x # c
  PROVE  ClientSame(x)
<1>1. ASSUME NEW d, NEW n, SendRequest(c, d, n) PROVE ClientSame(x)
  BY <1>1 DEF SendRequest, channelVars, ClientSame, Types, ClientTypes
<1>2. CASE SendBye(c)
  BY <1>2 DEF SendBye, channelVars, ClientSame, Types, ClientTypes
<1>3. ASSUME NEW r \in Replicas, InsertAck(c, r) PROVE ClientSame(x)
  <2>1. UNCHANGED <<reqs, alive>> /\ acks' = [acks EXCEPT ![c][r] = Tail(@)]
    BY <1>3 DEF InsertAck
  <2>2. acks'[x] = acks[x]
    BY <2>1 DEF Types, AcksType
  <2>3. out'[x] = out[x] /\ latest'[x] = latest[x] /\ response'[x] = response[x]
    BY <1>3 DEF InsertAck, Types, ClientTypes
  <2>4. QED
    BY <2>1, <2>2, <2>3 DEF ClientSame
<1>4. CASE AllStorageFinished(c)
  BY <1>4 DEF AllStorageFinished, channelVars, ClientSame
<1>5. CASE Crash(c)
  BY <1>5 DEF Crash, ClientSame, Types, ClientTypes, AcksType
<1>6. QED
  BY <1>1, <1>2, <1>3, <1>4, <1>5, Zenon DEF Client

(* A step of client c.                                                     *)
LEMMA ClientKnows ==
  ASSUME Types, NEW c \in Clients, Client(c),
         NEW ac \in [Replicas -> Nat], NEW pl, NEW n \in Nat, Knows(c, ac, pl, n),
         Fine(reqs[c], ac, pl)
  PROVE  \E m \in Nat : Knows(c, ac, pl, m)'
<1>1. ASSUME NEW d, NEW m, SendRequest(c, d, m) PROVE Knows(c, ac, pl, n)'
  BY <1>1, SendRequestKnows
<1>2. ASSUME SendBye(c) PROVE Knows(c, ac, pl, n)'
  BY <1>2, SendByeKnows
<1>3. ASSUME NEW r \in Replicas, InsertAck(c, r)
      PROVE  \E m \in Nat : Knows(c, ac, pl, m)'
  BY <1>3, InsertAckKnows
<1>4. ASSUME AllStorageFinished(c) PROVE Knows(c, ac, pl, n)'
  BY <1>4 DEF AllStorageFinished, channelVars, Knows
<1>5. ASSUME Crash(c) PROVE Knows(c, ac, pl, n)'
  <2>1. UNCHANGED response /\ alive' = [alive EXCEPT ![c] = FALSE]
    BY <1>5 DEF Crash
  <2>2. ~ alive'[c]
    BY <2>1 DEF Types, ClientTypes
  <2>3. QED
    BY <2>1, <2>2 DEF Knows
<1>6. QED
  BY <1>1, <1>2, <1>3, <1>4, <1>5, Zenon DEF Client

(* The acknowledgements of the requests that servers have accepted before  *)
(* stay right when the places agree.                                       *)
LEMMA AcksKept ==
  ASSUME NEW A, NEW ac \in [Replicas -> Nat], NEW pl, NEW pm, AcksOK(A, ac, pl),
         \A s \in Replicas : SamePlaces(pl, pm, ac[s])
  PROVE  AcksOK(A, ac, pm)
<1> SUFFICES ASSUME NEW s \in Replicas
             PROVE  /\ A[s] \in Seq(Nat) /\ Len(A[s]) <= ac[s]
                    /\ \A i \in 1 .. Len(A[s]) : A[s][i] = pm[(ac[s] - Len(A[s])) + i] - 1
  BY DEF AcksOK
<1>1. PICK a \in Nat : a = ac[s]
  OBVIOUS
<1>2. A[s] \in Seq(Nat) /\ Len(A[s]) <= a
      /\ \A i \in 1 .. Len(A[s]) : A[s][i] = pl[(a - Len(A[s])) + i] - 1
  BY <1>1 DEF AcksOK
<1>3. PICK l \in Nat : l = Len(A[s])
  BY <1>2
<1>4. \A i \in 1 .. l : (a - l) + i \in 0 .. a
  BY <1>2, <1>3
<1>5. \A i \in 1 .. l : pm[(a - l) + i] = pl[(a - l) + i]
  BY <1>1, <1>4 DEF SamePlaces
<1>6. QED
  BY <1>1, <1>2, <1>3, <1>5

(* A server accepts a request: all clients go on waiting for the same.     *)
LEMMA AcceptedKnows ==
  ASSUME Types, SameSlots, NEW place, NEW acc, Accounts(place, acc), NEW pm,
         NEW r \in Replicas, NEW c \in Clients, NEW k, AcceptedAt(r, c, k),
         Agree(place, pm, acc), pm[c][acc[r][c] + 1] = k, NEW dn, AllKnow(place, acc, dn)
  PROVE  AllKnow(pm, OneMore(acc, r, c), dn)'
<1>1. /\ UNCHANGED <<alive, reqs, out, latest, response>>
      /\ acks' = IF alive[c] THEN [acks EXCEPT ![c][r] = Append(@, log[r][k].gsn)] ELSE acks
  BY DEF AcceptedAt, clientVars
<1>2. k \in Nat /\ k >= 1 /\ log[r][k].gsn = k - 1
  <2>1. PICK L \in Seq(Entry), i \in Nat : L = log[r] /\ i = cur[r][c]
    BY StateTypes
  <2>2. k \in After(L, c, i)
    BY <2>1 DEF AcceptedAt
  <2>3. k \in 1 .. Len(L) /\ Len(L) \in Nat
    BY <2>2, AfterType
  <2>4. QED
    BY <2>1, <2>3 DEF SameSlots
<1>3. acc \in [Replicas -> [Clients -> Nat]]
  BY DEF Accounts
<1>4. PICK bcc : bcc = OneMore(acc, r, c)
  OBVIOUS
<1>5. /\ bcc \in [Replicas -> [Clients -> Nat]] /\ bcc[r][c] = acc[r][c] + 1
      /\ \A s \in Replicas, x \in Clients : s # r \/ x # c => bcc[s][x] = acc[s][x]
  BY <1>3, <1>4 DEF OneMore
<1>6. ASSUME NEW x \in Clients PROVE Knows(x, Row(bcc, x), pm[x], dn[x])'
  <2>1. PICK ac, bc, pl, pn, n : /\ ac = Row(acc, x) /\ bc = Row(bcc, x) /\ pl = place[x]
                                 /\ pn = pm[x] /\ n = dn[x]
    OBVIOUS
  <2>2. /\ ac \in [Replicas -> Nat] /\ bc \in [Replicas -> Nat] /\ n \in Nat
        /\ \A s \in Replicas : ac[s] = acc[s][x] /\ bc[s] = bcc[s][x]
    BY <1>3, <1>5, <2>1 DEF Row, AllKnow
  <2>3. \A s \in Replicas : SamePlaces(pl, pn, ac[s])
    BY <2>1, <2>2 DEF Agree
  <2>4. Told(response[x], ac, pl, n)
        /\ (alive[x] => Waiting(acks[x], out[x], reqs[x], latest[x], ac, pl, n))
    BY <2>1 DEF AllKnow, Knows
  <2>5. \A s \in Replicas : ac[s] <= bc[s]
    <3>1. \A s \in Replicas : bcc[s][x] = acc[s][x] \/ bcc[s][x] = acc[s][x] + 1
      BY <1>5
    <3>2. QED
      BY <2>2, <3>1
  <2>6. Told(response[x], bc, pn, n)
    BY <2>2, <2>3, <2>4, <2>5, ToldKept
  <2>7. ASSUME alive[x]
        PROVE  Waiting(acks'[x], out[x], reqs[x], latest[x], bc, pn, n)
    <3>1. PICK A, O, R, l, resp : /\ A = acks[x] /\ O = out[x] /\ R = reqs[x]
                                  /\ l = latest[x] /\ resp = response[x]
      OBVIOUS
    <3>2. /\ A \in [Replicas -> Seq(Nat)] /\ O \in Seq(Outstanding)
          /\ Waiting(A, O, R, l, ac, pl, n) /\ Told(resp, ac, pl, n)
      BY <2>4, <2>7, <3>1 DEF Types, AcksType, ClientTypes
    <3>3. AcksOK(A, ac, pl)
      BY <3>2 DEF Waiting
    <3>4. PICK B : B = acks'[x]
      OBVIOUS
    <3>5. AcksOK(B, bc, pn) /\ \A s \in Replicas : bc[s] - Len(B[s]) = ac[s] - Len(A[s])
      <4>1. CASE x # c
        <5>1. B = A
          BY <1>1, <3>1, <3>4, <4>1 DEF Types, AcksType
        <5>2. bc = ac
          BY <1>5, <2>2, <4>1
        <5>3. AcksOK(A, ac, pn)
          BY <2>2, <2>3, <3>3, AcksKept
        <5>4. QED
          BY <5>1, <5>2, <5>3
      <4>2. CASE x = c
        <5>1. B = [A EXCEPT ![r] = Append(@, k - 1)]
          BY <1>1, <1>2, <2>7, <3>1, <3>4, <4>2 DEF Types, AcksType
        <5>2. bc = [ac EXCEPT ![r] = @ + 1]
          BY <1>5, <2>2, <4>2
        <5>3. pn[ac[r] + 1] = k
          BY <2>1, <2>2, <4>2
        <5>4. AcksOK(B, bc, pn)
          BY <1>2, <2>2, <2>3, <3>2, <3>3, <5>1, <5>2, <5>3, AcksGrow
        <5>5. \A s \in Replicas : bc[s] - Len(B[s]) = ac[s] - Len(A[s])
          BY <1>2, <2>2, <2>3, <3>2, <3>3, <5>1, <5>2, <5>3, AcksGrow
        <5>6. QED
          BY <5>4, <5>5
      <4>3. QED
        BY <4>1, <4>2
    <3>6. Waiting(B, O, R, l, bc, pn, n)
      BY <2>2, <2>3, <3>2, <3>5, WaitingKept
    <3>7. QED
      BY <3>1, <3>4, <3>6
  <2>8. Knows(x, bc, pn, n)'
    BY <1>1, <2>6, <2>7 DEF Knows
  <2>9. QED
    BY <2>1, <2>8
<1>7. dn \in [Clients -> Nat]
  BY DEF AllKnow
<1>8. AllKnow(pm, bcc, dn)'
  BY <1>6, <1>7 DEF AllKnow
<1>9. QED
  BY <1>4, <1>8

(* In a step one client moves, one request is accepted, or nothing changes *)
(* for any client.                                                         *)
LEMMA KnowledgeActions ==
  ASSUME Types, Types', [Next]_vars
  PROVE  \/ \A x \in Clients : ClientSame(x)
         \/ \E c \in Clients : Client(c)
         \/ \E r \in Replicas, c \in Clients : \E k : AcceptedAt(r, c, k)
<1>1. ASSUME UNCHANGED <<acks, alive, reqs, out, latest, response>>
      PROVE  \A x \in Clients : ClientSame(x)
  BY <1>1 DEF ClientSame
<1>2. CASE UNCHANGED vars
  BY <1>1, <1>2 DEF vars, channelVars, clientVars
<1>3. CASE Epoch
  BY <1>1, <1>3 DEF Epoch
<1>4. ASSUME NEW c \in Clients, OrderFailureEvent(c) \/ OrderClientFinished(c)
      PROVE  \A x \in Clients : ClientSame(x)
  BY <1>1, <1>4 DEF OrderFailureEvent, OrderClientFinished, clientVars
<1>5. ASSUME NEW r \in Replicas, OrderFromStorage(r)
      PROVE  \A x \in Clients : ClientSame(x)
  BY <1>1, <1>5 DEF OrderFromStorage, OrderClientFreeze, OrderClientCut, OrderClientData,
                    clientVars
<1>6. ASSUME NEW r \in Replicas, ControlThread(r)
      PROVE  \A x \in Clients : ClientSame(x)
  BY <1>1, <1>6 DEF ControlThread, StorageSlots, StorageClientFreeze, StorageClientCut,
                    StorageClientPatch, StorageClientFinalize, clientVars
<1>7. ASSUME NEW r \in Replicas, NEW c \in Clients,
             StorageFailureEvent(r, c) \/ StorageClientFinished(r, c)
      PROVE  \A x \in Clients : ClientSame(x)
  BY <1>1, <1>7 DEF StorageFailureEvent, StorageClientFinished, clientVars
<1>8. ASSUME NEW r \in Replicas, NEW c \in Clients, StorageInsert(r, c)
      PROVE  (\A x \in Clients : ClientSame(x)) \/ \E k : AcceptedAt(r, c, k)
  <2>1. UNCHANGED <<alive, reqs, out, latest, response>>
    BY <1>8 DEF StorageInsert, clientVars
  <2>2. UNCHANGED acks \/ \E k : AcceptedAt(r, c, k)
    BY <1>8, InsertOutcome
  <2>3. QED
    BY <1>1, <2>1, <2>2
<1>9. QED
  BY <1>2, <1>3, <1>4, <1>5, <1>6, <1>7, <1>8, Zenon DEF Next, ClientThread

(* Nothing changes for any client.                                         *)
LEMMA AllKnowSame ==
  ASSUME \A x \in Clients : ClientSame(x), NEW place, NEW acc, NEW dn,
         AllKnow(place, acc, dn)
  PROVE  AllKnow(place, acc, dn)'
<1>1. ASSUME NEW x \in Clients PROVE Knows(x, Row(acc, x), place[x], dn[x])'
  <2>1. PICK ac, pl, n : ac = Row(acc, x) /\ pl = place[x] /\ n = dn[x]
    OBVIOUS
  <2>2. Knows(x, ac, pl, n) /\ ClientSame(x)
    BY <2>1 DEF AllKnow
  <2>3. Knows(x, ac, pl, n)'
    BY <2>2, KnowsSame
  <2>4. QED
    BY <2>1, <2>3
<1>2. QED
  BY <1>1 DEF AllKnow

(* One client moves.                                                       *)
LEMMA AllKnowClient ==
  ASSUME Types, SameSlots, NEW c \in Clients, Client(c), NEW place, NEW acc,
         Accounts(place, acc), NEW dn, AllKnow(place, acc, dn)
  PROVE  \E dm : AllKnow(place, acc, dm)'
<1>1. PICK ac, pl, n : ac = Row(acc, c) /\ pl = place[c] /\ n = dn[c]
  OBVIOUS
<1>2. /\ ac \in [Replicas -> Nat] /\ Fine(reqs[c], ac, pl) /\ n \in Nat
      /\ Knows(c, ac, pl, n)
  BY <1>1, RowFine DEF AllKnow
<1>3. PICK m \in Nat : Knows(c, ac, pl, m)'
  BY <1>2, ClientKnows
<1>4. PICK dm : dm = [dn EXCEPT ![c] = m]
  OBVIOUS
<1>5. dm \in [Clients -> Nat] /\ dm[c] = m /\ \A x \in Clients : x # c => dm[x] = dn[x]
  BY <1>4 DEF AllKnow
<1>6. ASSUME NEW x \in Clients PROVE Knows(x, Row(acc, x), place[x], dm[x])'
  <2>1. CASE x = c
    BY <1>1, <1>3, <1>5, <2>1
  <2>2. CASE x # c
    <3>1. PICK bc, pm, k : bc = Row(acc, x) /\ pm = place[x] /\ k = dn[x]
      OBVIOUS
    <3>2. Knows(x, bc, pm, k) /\ ClientSame(x)
      BY <2>2, <3>1, OtherClients DEF AllKnow
    <3>3. Knows(x, bc, pm, k)'
      BY <3>2, KnowsSame
    <3>4. QED
      BY <1>5, <2>2, <3>1, <3>3
  <2>3. QED
    BY <2>1, <2>2
<1>7. AllKnow(place, acc, dm)'
  BY <1>5, <1>6 DEF AllKnow
<1>8. QED
  BY <1>7

(* Every step keeps what the clients know right.                           *)
LEMMA NextAnswers ==
  ASSUME Types, Types', RecoveryInv, SlotsInv, AnswersInv, [Next]_vars
  PROVE  AnswersInv'
<1>1. PICK place, acc, dn : Accounts(place, acc) /\ AllKnow(place, acc, dn)
  BY DEF AnswersInv
<1>2. LogInv /\ OrdersDirected
  BY DEF RecoveryInv
<1>3. KeptAll /\ SameSlots /\ \A x \in Clients : Extended(x)
  BY <1>2, NextKeeps, SlotsAgree, RequestsKept
<1>4. ASSUME NEW r \in Replicas, NEW c \in Clients, NEW k, AcceptedAt(r, c, k)
      PROVE  AnswersInv'
  <2>1. PICK pm : /\ Agree(place, pm, acc) /\ pm[c][acc[r][c] + 1] = k
                  /\ Accounts(pm, OneMore(acc, r, c))'
    BY <1>1, <1>2, <1>3, <1>4, AcceptedAccounts, Zenon
  <2>2. AllKnow(pm, OneMore(acc, r, c), dn)'
    BY <1>1, <1>3, <1>4, <2>1, AcceptedKnows
  <2>3. PICK bcc : bcc = OneMore(acc, r, c)
    OBVIOUS
  <2>4. Accounts(pm, bcc)' /\ AllKnow(pm, bcc, dn)'
    BY <2>1, <2>2, <2>3
  <2>5. QED
    BY <2>4 DEF AnswersInv
<1>5. ASSUME Quiet PROVE Accounts(place, acc)'
  BY <1>1, <1>3, <1>5, QuietAccounts
<1>6. ASSUME Quiet, \A x \in Clients : ClientSame(x) PROVE AnswersInv'
  <2>1. AllKnow(place, acc, dn)'
    BY <1>1, <1>6, AllKnowSame
  <2>2. QED
    BY <1>5, <1>6, <2>1 DEF AnswersInv
<1>7. ASSUME Quiet, NEW c \in Clients, Client(c) PROVE AnswersInv'
  <2>1. PICK dm : AllKnow(place, acc, dm)'
    BY <1>1, <1>3, <1>7, AllKnowClient
  <2>2. QED
    BY <1>5, <1>7, <2>1 DEF AnswersInv
<1>8. QED
  BY <1>2, <1>4, <1>6, <1>7, ServerActions, KnowledgeActions

(* Initially nothing is sent, accepted or answered.                        *)
LEMMA InitAnswers == Init => AnswersInv
<1> SUFFICES ASSUME Init PROVE AnswersInv
  OBVIOUS
<1>1. PICK place, acc : Accounts(place, acc)
  BY InitPlaces DEF PlacesInv
<1>2. PICK dn : dn = [c \in Clients |-> 0]
  OBVIOUS
<1>3. dn \in [Clients -> Nat] /\ \A c \in Clients : dn[c] = 0
  BY <1>2
<1>4. ASSUME NEW c \in Clients PROVE Knows(c, Row(acc, c), place[c], 0)
  <2>1. PICK ac, pl : ac = Row(acc, c) /\ pl = place[c]
    OBVIOUS
  <2>2. \A s \in Replicas : ac[s] \in Nat
    BY <1>1, <2>1 DEF Accounts, Row
  <2>3. /\ response[c] = EmptyMap /\ latest[c] = NoGsn /\ out[c] = << >> /\ reqs[c] = << >>
        /\ \A s \in Replicas : acks[c][s] = << >>
    BY DEF Init
  <2>4. DOMAIN EmptyMap = {}
    BY DEF EmptyMap
  <2>5. Told(response[c], ac, pl, 0)
    BY <2>3, <2>4 DEF Told
  <2>6. AcksOK(acks[c], ac, pl)
    <3>1. \A s \in Replicas : acks[c][s] \in Seq(Nat) /\ Len(acks[c][s]) = 0
      <4>1. << >> \in Seq(Nat) /\ Len(<< >>) = 0
        OBVIOUS
      <4>2. QED
        BY <2>3, <4>1, Zenon
    <3>2. QED
      BY <2>2, <3>1 DEF AcksOK
  <2>7. OutOK(out[c], acks[c], ac, pl, 0) /\ ReqsOK(reqs[c], out[c], 0)
        /\ LatestOK(latest[c], pl, 0)
    <3>1. Len(out[c]) = 0 /\ Len(reqs[c]) = 0
      BY <2>3
    <3>2. OutOK(out[c], acks[c], ac, pl, 0)
      BY <3>1 DEF OutOK
    <3>3. ReqsOK(reqs[c], out[c], 0)
      BY <3>1 DEF ReqsOK
    <3>4. QED
      BY <2>3, <3>2, <3>3 DEF LatestOK
  <2>8. QED
    BY <2>1, <2>5, <2>6, <2>7 DEF Knows, Waiting
<1>5. AllKnow(place, acc, dn)
  BY <1>3, <1>4 DEF AllKnow
<1>6. QED
  BY <1>1, <1>5 DEF AnswersInv

(* What every client is told and waits for is right about the servers.     *)
THEOREM AnswersInvariant == Spec => []AnswersInv
<1>1. Init => AnswersInv
  BY InitAnswers
<1>2. Types /\ Types' /\ RecoveryInv /\ SlotsInv /\ AnswersInv /\ [Next]_vars => AnswersInv'
  BY NextAnswers
<1>3. QED
  BY <1>1, <1>2, TypesInvariant, RecoveryInvariant, SlotsInvariant, PTL DEF Spec

(* A server that has accepted a request holds it at its place.             *)
LEMMA AcceptedIsHeld ==
  ASSUME Types, SameSlots, NEW place, NEW acc, Accounts(place, acc),
         NEW c \in Clients, NEW s \in Replicas, NEW q \in 1 .. acc[s][c]
  PROVE  Holds(s, c, place[c][q] - 1, reqs[c][q].data)
<1>1. PICK pl, a, k : pl = place[c] /\ a = acc[s][c] /\ k = place[c][q]
  OBVIOUS
<1>2. q \in 1 .. a /\ a \in Nat /\ k = pl[q] /\ Account(s, c, pl, a)
  BY <1>1 DEF Accounts
<1>3. PlacedAt(log[s], c, reqs[c][q], pl[q - 1], k)
  BY <1>2 DEF Account
<1>4. PICK L \in Seq(Entry) : L = log[s]
  BY StateTypes
<1>5. PICK e \in Entry : e = L[k]
  BY <1>3, <1>4 DEF PlacedAt
<1>6. k \in 1 .. Len(L) /\ e.client = c /\ e.set /\ e.data = reqs[c][q].data
  <2>1. k \in 1 .. Len(L) /\ Len(L) \in Nat /\ L[k].client = c /\ pl[q - 1] < k
    BY <1>3, <1>4 DEF PlacedAt
  <2>2. k <= k
    BY <2>1
  <2>3. L[k].set /\ L[k].data = reqs[c][q].data
    BY <1>3, <1>4, <2>1, <2>2, Zenon DEF PlacedAt
  <2>4. QED
    BY <1>5, <2>1, <2>3
<1>7. e.gsn = k - 1
  BY <1>4, <1>5, <1>6 DEF SameSlots
<1>8. e = [gsn |-> e.gsn, client |-> e.client, set |-> TRUE, data |-> e.data]
  BY <1>6, SetEntry
<1>9. log[s][k] = [gsn |-> k - 1, client |-> c, set |-> TRUE, data |-> reqs[c][q].data]
  BY <1>4, <1>5, <1>6, <1>7, <1>8, Zenon
<1>10. k \in DOMAIN log[s]
  BY <1>4, <1>6
<1>11. QED
  BY <1>1, <1>9, <1>10 DEF Holds

(* A response is given for a request only when more than Failures servers  *)
(* hold the payload at the GSN of the response: the acknowledgements that  *)
(* a client counts come from different servers, and are all for the same   *)
(* request, although they carry nothing but a GSN.                         *)
THEOREM AnswersAreDurable == Spec => []AckedIsDurable
<1>1. ASSUME Types, SlotsInv, AnswersInv PROVE AckedIsDurable
  <2> SUFFICES ASSUME NEW c \in Clients, NEW q \in DOMAIN response[c]
               PROVE  Cardinality({r \in Replicas :
                        Holds(r, c, response[c][q], reqs[c][q].data)}) > Failures
    BY DEF AckedIsDurable
  <2>1. PICK place, acc, dn : Accounts(place, acc) /\ AllKnow(place, acc, dn)
    BY <1>1 DEF AnswersInv
  <2>2. SameSlots
    BY <1>1, SlotsAgree
  <2>3. PICK n, pl : n = dn[c] /\ pl = place[c]
    OBVIOUS
  <2>4. n \in Nat /\ Told(response[c], Row(acc, c), pl, n)
    BY <2>1, <2>3 DEF AllKnow, Knows
  <2>5. q \in 1 .. n /\ response[c][q] = pl[q] - 1
        /\ Cardinality(Having(Row(acc, c), q)) > Failures
    BY <2>4 DEF Told
  <2>6. PICK S : S = {r \in Replicas : Holds(r, c, response[c][q], reqs[c][q].data)}
    OBVIOUS
  <2>7. ASSUME NEW s \in Having(Row(acc, c), q) PROVE s \in S
    <3>1. s \in Replicas /\ acc[s][c] >= q /\ acc[s][c] \in Nat
      BY <2>1, <2>7 DEF Having, Row, Accounts
    <3>2. q \in 1 .. acc[s][c]
      BY <2>4, <2>5, <3>1
    <3>3. Holds(s, c, place[c][q] - 1, reqs[c][q].data)
      BY <1>1, <2>1, <2>2, <3>1, <3>2, AcceptedIsHeld
    <3>4. QED
      BY <2>3, <2>5, <2>6, <3>1, <3>3
  <2>8. Having(Row(acc, c), q) \subseteq S /\ S \subseteq Replicas
    BY <2>6, <2>7
  <2>9. /\ Cardinality(S) \in Nat /\ Cardinality(Having(Row(acc, c), q)) \in Nat
        /\ Cardinality(Having(Row(acc, c), q)) <= Cardinality(S)
    BY <2>8, MoreServers
  <2>10. Cardinality(S) > Failures
    BY <2>5, <2>9, FailuresAssumption
  <2>11. QED
    BY <2>6, <2>10
<1>2. QED
  BY <1>1, TypesInvariant, SlotsInvariant, AnswersInvariant, PTL

(* The requests of a client are answered with increasing GSNs, in the      *)
(* order in which they were sent, whatever the order in which the servers  *)
(* acknowledge them.                                                       *)
THEOREM AnswersInOrder == Spec => []ResponsesInOrder
<1>1. ASSUME Types, SlotsInv, AnswersInv PROVE ResponsesInOrder
  <2> SUFFICES ASSUME NEW c \in Clients, NEW p \in DOMAIN response[c],
                      NEW q \in DOMAIN response[c], p < q
               PROVE  response[c][p] < response[c][q]
    BY DEF ResponsesInOrder
  <2>1. PICK place, acc, dn : Accounts(place, acc) /\ AllKnow(place, acc, dn)
    BY <1>1 DEF AnswersInv
  <2>2. SameSlots
    BY <1>1, SlotsAgree
  <2>3. PICK n, pl, ac : n = dn[c] /\ pl = place[c] /\ ac = Row(acc, c)
    OBVIOUS
  <2>4. /\ n \in Nat /\ Told(response[c], ac, pl, n)
        /\ ac \in [Replicas -> Nat] /\ Fine(reqs[c], ac, pl)
    BY <1>1, <2>1, <2>2, <2>3, RowFine DEF AllKnow, Knows
  <2>5. /\ p \in 1 .. n /\ response[c][p] = pl[p] - 1
        /\ q \in 1 .. n /\ response[c][q] = pl[q] - 1
    BY <2>4 DEF Told
  <2>6. PICK s \in Replicas : ac[s] >= q
    BY <2>4, <2>5, AnsweredIsAccepted
  <2>7. PICK a \in Nat : a = ac[s]
    BY <2>4
  <2>8. p \in 1 .. a /\ q \in 1 .. a /\ p \in 0 .. a /\ q \in 0 .. a
    BY <2>4, <2>5, <2>6, <2>7
  <2>9. pl[p] < pl[q] /\ pl[p] \in Nat /\ pl[q] \in Nat
    BY <2>4, <2>7, <2>8, NoGsnAssumption DEF Fine, Ascending
  <2>10. QED
    BY <2>5, <2>9
<1>2. QED
  BY <1>1, TypesInvariant, SlotsInvariant, AnswersInvariant, PTL

-----------------------------------------------------------------------------
(* Slots: a request finds the slots that its client was promised.          *)

(* tot[q] is the number of slots that the first q messages R use up.       *)
Totals(R, tot) ==
  /\ IsPlaces(tot) /\ tot[0] = 0
  /\ \A q \in 1 .. Len(R) :
       tot[q] = tot[q - 1] + (IF R[q].type = "insert" THEN R[q].num ELSE 0)

(* What client c has sent does not use up more slots than any server has   *)
(* for it, and is what it counts while it runs.                            *)
Promised(c, tot) ==
  /\ Totals(reqs[c], tot)
  /\ alive[c] => consumed[c] = tot[Len(reqs[c])]
  /\ \A r \in Replicas : tot[Len(reqs[c])] <= SlotsOf(r, c)

PromiseInv == \A c \in Clients : \E tot : Promised(c, tot)

(* The slots of a client up to a place and after it.                       *)
LEMMA SlotsSplit ==
  ASSUME NEW L \in Seq(Entry), NEW c, NEW i \in Nat
  PROVE  /\ Cardinality(UpTo(After(L, c, 0), i)) \in Nat
         /\ Cardinality(After(L, c, 0)) =
              Cardinality(UpTo(After(L, c, 0), i)) + Cardinality(After(L, c, i))
<1>1. PICK S, T, U : S = After(L, c, 0) /\ T = UpTo(After(L, c, 0), i) /\ U = After(L, c, i)
  OBVIOUS
<1>2. /\ IsFiniteSet(S) /\ IsFiniteSet(U) /\ S \subseteq Nat
      /\ \A k : k \in S <=> k \in 1 .. Len(L) /\ k > 0 /\ L[k].client = c
      /\ \A k : k \in U <=> k \in 1 .. Len(L) /\ k > i /\ L[k].client = c
  BY <1>1, AfterType
<1>3. \A k : k \in T <=> k \in S /\ k <= i
  BY <1>1 DEF UpTo
<1>4. T \subseteq S /\ T \cup U = S /\ T \cap U = {}
  <2>1. ASSUME NEW k PROVE /\ k \in S <=> k \in T \/ k \in U
                           /\ ~ (k \in T /\ k \in U)
    BY <1>2, <1>3
  <2>2. QED
    BY <1>3, <2>1
<1>5. IsFiniteSet(T)
  BY <1>2, <1>4, FS_Subset
<1>6. Cardinality(T \cup U) = Cardinality(T) + Cardinality(U) - Cardinality(T \cap U)
      /\ Cardinality(T) \in Nat /\ Cardinality(U) \in Nat
  BY <1>2, <1>5, FS_Union, FS_CardinalityType
<1>7. Cardinality({}) = 0
  BY FS_EmptySet
<1>8. Cardinality(T \cup U) = Cardinality(S) /\ Cardinality(T \cap U) = 0
  BY <1>4, <1>7, Zenon
<1>9. Cardinality(T) \in Nat /\ Cardinality(S) = Cardinality(T) + Cardinality(U)
  BY <1>6, <1>8
<1>10. QED
  BY <1>1, <1>9

(* The slots up to a place, and those from there up to a later one.        *)
LEMMA UsedSplit ==
  ASSUME NEW L \in Seq(Entry), NEW c, NEW i \in Nat, NEW k \in Nat, i < k
  PROVE  Cardinality(UpTo(After(L, c, 0), k)) =
           Cardinality(UpTo(After(L, c, 0), i)) + Cardinality(UpTo(After(L, c, i), k))
<1>1. PICK S, T, U : /\ S = UpTo(After(L, c, 0), k) /\ T = UpTo(After(L, c, 0), i)
                     /\ U = UpTo(After(L, c, i), k)
  OBVIOUS
<1>2. /\ IsFiniteSet(After(L, c, 0))
      /\ \A m : m \in After(L, c, 0) <=> m \in 1 .. Len(L) /\ m > 0 /\ L[m].client = c
      /\ \A m : m \in After(L, c, i) <=> m \in 1 .. Len(L) /\ m > i /\ L[m].client = c
  BY AfterType
<1>3. /\ \A m : m \in S <=> m \in 1 .. Len(L) /\ m > 0 /\ m <= k /\ L[m].client = c
      /\ \A m : m \in T <=> m \in 1 .. Len(L) /\ m > 0 /\ m <= i /\ L[m].client = c
      /\ \A m : m \in U <=> m \in 1 .. Len(L) /\ m > i /\ m <= k /\ L[m].client = c
  BY <1>1, <1>2 DEF UpTo
<1>4. T \subseteq S /\ U \subseteq S /\ T \cup U = S /\ T \cap U = {}
  <2>1. ASSUME NEW m PROVE /\ m \in S <=> m \in T \/ m \in U
                           /\ ~ (m \in T /\ m \in U)
    BY <1>3
  <2>2. QED
    BY <2>1
<1>5. S \subseteq After(L, c, 0)
  BY <1>1 DEF UpTo
<1>6. IsFiniteSet(S) /\ IsFiniteSet(T) /\ IsFiniteSet(U)
  BY <1>2, <1>4, <1>5, FS_Subset
<1>7. Cardinality(T \cup U) = Cardinality(T) + Cardinality(U) - Cardinality(T \cap U)
      /\ Cardinality(T) \in Nat /\ Cardinality(U) \in Nat
  BY <1>6, FS_Union, FS_CardinalityType
<1>8. Cardinality({}) = 0
  BY FS_EmptySet
<1>9. Cardinality(T \cup U) = Cardinality(S) /\ Cardinality(T \cap U) = 0
  BY <1>4, <1>8, Zenon
<1>10. Cardinality(S) = Cardinality(T) + Cardinality(U)
  BY <1>7, <1>9
<1>11. QED
  BY <1>1, <1>10

(* More messages use up more slots.                                        *)
LEMMA TotalsGrow ==
  ASSUME NEW R \in Seq(CMessage), NEW tot, Totals(R, tot), NEW p \in 0 .. Len(R)
  PROVE  /\ tot[p] \in Nat /\ tot[Len(R)] \in Nat /\ tot[p] <= tot[Len(R)]
<1>0. Len(R) \in Nat
  OBVIOUS
<1> DEFINE S == {q \in p .. Len(R) : tot[p] <= tot[q]}
<1>1. \A q \in 0 .. Len(R) : tot[q] \in Nat
  BY <1>0, PlaceType DEF Totals
<1>2. p \in S
  BY <1>0, <1>1
<1>3. ASSUME NEW q \in p .. Len(R), q # Len(R), q \in S PROVE q + 1 \in S
  <2>1. q + 1 \in 1 .. Len(R) /\ (q + 1) - 1 = q /\ q \in 0 .. Len(R)
    BY <1>0, <1>3
  <2>2. tot[q + 1] = tot[q] + (IF R[q + 1].type = "insert" THEN R[q + 1].num ELSE 0)
    BY <2>1 DEF Totals
  <2>3. R[q + 1].type = "insert" => R[q + 1].num \in Nat
    <3>1. R[q + 1] \in CMessage
      BY <2>1
    <3>2. QED
      BY <3>1 DEF CMessage
  <2>4. tot[q] <= tot[q + 1]
    BY <1>1, <2>1, <2>2, <2>3
  <2>5. QED
    BY <1>0, <1>1, <1>3, <2>1, <2>4
<1> HIDE DEF S
<1>4. \A q \in p .. Len(R) : q \in S
  <2>1. p \in Nat /\ \A q \in p .. Len(R) : q # Len(R) /\ q \in S => q + 1 \in S
    BY <1>3
  <2>2. QED
    BY <1>0, <1>2, <2>1, SetInduction
<1>5. QED
  BY <1>0, <1>1, <1>4 DEF S

(* The accepted requests have used up their slots and no other ones.       *)
LEMMA UsedUp ==
  ASSUME NEW L \in Seq(Entry), NEW c, NEW R \in Seq(CMessage), NEW pl, IsPlaces(pl),
         pl[0] = 0, NEW a \in Nat, a <= Len(R),
         \A q \in 1 .. a : PlacedAt(L, c, R[q], pl[q - 1], pl[q]),
         NEW tot, Totals(R, tot)
  PROVE  Cardinality(UpTo(After(L, c, 0), pl[a])) = tot[a]
<1> DEFINE Used(q) == Cardinality(UpTo(After(L, c, 0), pl[q]))
           S == {q \in 0 .. a : Used(q) = tot[q]}
<1>0. Len(R) \in Nat
  OBVIOUS
<1>1. 0 \in S
  <2>1. UpTo(After(L, c, 0), 0) = {}
    <3>1. \A m \in After(L, c, 0) : m \in 1 .. Len(L)
      BY AfterType
    <3>2. QED
      BY <3>1 DEF UpTo
  <2>2. Used(0) = 0
    BY <2>1, FS_EmptySet
  <2>3. QED
    BY <2>2 DEF Totals
<1>2. ASSUME NEW q \in 0 .. a, q # a, q \in S PROVE q + 1 \in S
  <2>1. q + 1 \in 1 .. a /\ (q + 1) - 1 = q /\ q \in Nat /\ q + 1 \in Nat
        /\ q + 1 \in 1 .. Len(R)
    BY <1>0, <1>2
  <2>2. PICK i \in Nat, k \in Nat : i = pl[q] /\ k = pl[q + 1]
    BY <2>1, PlaceType
  <2>3. PlacedAt(L, c, R[q + 1], i, k)
    BY <2>1, <2>2
  <2>4. /\ i < k /\ R[q + 1].type = "insert"
        /\ Cardinality(UpTo(After(L, c, i), k)) = R[q + 1].num
    BY <2>3 DEF PlacedAt
  <2>5. Cardinality(UpTo(After(L, c, 0), k)) =
          Cardinality(UpTo(After(L, c, 0), i)) + Cardinality(UpTo(After(L, c, i), k))
    BY <2>4, UsedSplit
  <2>6. Cardinality(UpTo(After(L, c, 0), i)) = tot[q]
    BY <1>2, <2>2
  <2>7. tot[q + 1] = tot[q] + R[q + 1].num
    BY <2>1, <2>4 DEF Totals
  <2>8. Used(q + 1) = tot[q + 1]
    BY <2>2, <2>4, <2>5, <2>6, <2>7
  <2>9. QED
    BY <2>1, <2>8
<1> HIDE DEF S
<1>3. \A q \in 0 .. a : q \in S
  BY <1>1, <1>2, SetInduction
<1>4. a \in S
  BY <1>3
<1>5. QED
  BY <1>4 DEF S

(* One more message, that uses up v slots.                                 *)
LEMMA TotalsMore ==
  ASSUME NEW R \in Seq(CMessage), NEW tot, Totals(R, tot), NEW m, NEW v \in Nat,
         v = IF m.type = "insert" THEN m.num ELSE 0
  PROVE  \E tou : /\ Totals(Append(R, m), tou)
                  /\ tou[Len(R) + 1] = tot[Len(R)] + v
<1>0. PICK l \in Nat : l = Len(R)
  OBVIOUS
<1>1. PICK Q : l = Len(R) /\ Q = Append(R, m)
  BY <1>0
<1>2. Len(Q) = l + 1 /\ Q[l + 1] = m /\ \A q \in 1 .. l : Q[q] = R[q]
  BY <1>1
<1>3. PICK k \in Nat : k = tot[l] + v
  BY PlaceType DEF Totals
<1>4. PICK tou : tou = [tot EXCEPT ![l + 1] = k]
  OBVIOUS
<1>5. /\ IsPlaces(tou) /\ tou[l + 1] = k
      /\ \A p \in Nat : p # l + 1 => tou[p] = tot[p]
  <2>1. l + 1 \in Nat /\ IsPlaces(tot)
    BY DEF Totals
  <2>2. QED
    BY <1>4, <2>1, PlaceAdded, SMTT(30)
<1>6. \A p \in 0 .. l : tou[p] = tot[p]
  BY <1>5
<1>7. ASSUME NEW q \in 1 .. l + 1
      PROVE  tou[q] = tou[q - 1] + (IF Q[q].type = "insert" THEN Q[q].num ELSE 0)
  <2>1. CASE q \in 1 .. l
    <3>1. q \in 0 .. l /\ q - 1 \in 0 .. l
      BY <2>1
    <3>2. tot[q] = tot[q - 1] + (IF R[q].type = "insert" THEN R[q].num ELSE 0)
      BY <1>1, <2>1 DEF Totals
    <3>3. QED
      BY <1>2, <1>6, <2>1, <3>1, <3>2
  <2>2. CASE q = l + 1
    <3>1. q - 1 = l /\ l \in 0 .. l
      BY <2>2
    <3>2. tou[q - 1] = tot[l] /\ tou[q] = tot[l] + v
      BY <1>3, <1>5, <1>6, <2>2, <3>1
    <3>3. QED
      BY <1>2, <2>2, <3>2
  <2>3. QED
    BY <2>1, <2>2
<1>8. tou[0] = 0
  BY <1>6 DEF Totals
<1>9. Totals(Q, tou)
  BY <1>2, <1>5, <1>7, <1>8 DEF Totals
<1>10. QED
  BY <1>1, <1>3, <1>5, <1>9

(* A server does not lose slots.                                           *)
LEMMA SlotsGrow ==
  ASSUME Types, Types', KeptAll, NEW r \in Replicas, NEW c \in Clients
  PROVE  SlotsOf(r, c) \in Nat /\ SlotsOf(r, c)' \in Nat /\ SlotsOf(r, c) <= SlotsOf(r, c)'
<1>1. PICK L \in Seq(Entry), J \in Seq(Entry) : L = log[r] /\ J = log'[r]
  BY StateTypes, StateTypesNext
<1>2. Len(L) <= Len(J) /\ \A k \in 1 .. Len(L) : J[k].client = L[k].client
  BY <1>1 DEF KeptAll, Kept
<1>3. /\ \A k : k \in After(L, c, 0) <=> k \in 1 .. Len(L) /\ k > 0 /\ L[k].client = c
      /\ \A k : k \in After(J, c, 0) <=> k \in 1 .. Len(J) /\ k > 0 /\ J[k].client = c
      /\ IsFiniteSet(After(J, c, 0))
      /\ Cardinality(After(J, c, 0)) \in Nat /\ Cardinality(After(L, c, 0)) \in Nat
  BY AfterType
<1>4. After(L, c, 0) \subseteq After(J, c, 0)
  BY <1>2, <1>3
<1>5. Cardinality(After(L, c, 0)) <= Cardinality(After(J, c, 0))
  BY <1>3, <1>4, FS_Subset
<1>6. QED
  BY <1>1, <1>3, <1>5 DEF SlotsOf

(* A client that sends nothing.                                            *)
LEMMA PromiseKept ==
  ASSUME Types, Types', KeptAll, NEW x \in Clients, NEW tot, Promised(x, tot),
         reqs'[x] = reqs[x], alive'[x] => alive[x] /\ consumed'[x] = consumed[x]
  PROVE  Promised(x, tot)'
<1>1. tot[Len(reqs[x])] \in Nat
  BY PlaceType DEF Promised, Totals, Types, ClientTypes
<1>2. ASSUME NEW r \in Replicas PROVE tot[Len(reqs'[x])] <= SlotsOf(r, x)'
  <2>1. PICK u \in Nat, v \in Nat : u = SlotsOf(r, x) /\ v = SlotsOf(r, x)' /\ u <= v
    BY SlotsGrow
  <2>2. tot[Len(reqs[x])] <= u
    BY <2>1 DEF Promised
  <2>3. QED
    BY <1>1, <2>1, <2>2
<1>3. QED
  BY <1>2 DEF Promised

(* A client that sends a message for whose slots there is room.            *)
LEMMA PromiseMore ==
  ASSUME Types, Types', KeptAll, NEW x \in Clients, NEW tot, Promised(x, tot), alive[x],
         NEW m, NEW v \in Nat, v = IF m.type = "insert" THEN m.num ELSE 0,
         reqs'[x] = Append(reqs[x], m), consumed'[x] = consumed[x] + v,
         \A r \in Replicas : consumed[x] + v <= SlotsOf(r, x)
  PROVE  \E tou : Promised(x, tou)'
<1>1. PICK R \in Seq(CMessage), l \in Nat : R = reqs[x] /\ l = Len(R)
  BY DEF Types, ClientTypes
<1>2. Totals(R, tot) /\ consumed[x] = tot[l] /\ tot[l] \in Nat
  BY <1>1, PlaceType DEF Promised, Totals
<1>3. PICK tou : Totals(Append(R, m), tou) /\ tou[Len(R) + 1] = tot[Len(R)] + v
  BY <1>2, TotalsMore
<1>4. Len(reqs'[x]) = l + 1
  BY <1>1
<1>5. tou[Len(reqs'[x])] = consumed[x] + v /\ consumed[x] + v \in Nat
  BY <1>1, <1>2, <1>3, <1>4
<1>6. ASSUME NEW r \in Replicas PROVE tou[Len(reqs'[x])] <= SlotsOf(r, x)'
  <2>1. PICK u \in Nat, w \in Nat : u = SlotsOf(r, x) /\ w = SlotsOf(r, x)' /\ u <= w
    BY SlotsGrow
  <2>2. consumed[x] + v <= u
    BY <2>1
  <2>3. QED
    BY <1>5, <2>1, <2>2
<1>7. Promised(x, tou)'
  BY <1>1, <1>3, <1>5, <1>6 DEF Promised
<1>8. QED
  BY <1>7

(* A step of client c.                                                     *)
LEMMA ClientPromise ==
  ASSUME SlotsOnTime, Types, Types', KeptAll, NEW c \in Clients, Client(c),
         NEW tot, Promised(c, tot)
  PROVE  \E tou : Promised(c, tou)'
<1>1. ASSUME NEW d, NEW n \in 1 .. MaxSlots, SendRequest(c, d, n)
      PROVE  \E tou : Promised(c, tou)'
  <2>1. PICK m : m = [type |-> "insert", data |-> d, num |-> n]
    OBVIOUS
  <2>2. m.type = "insert" /\ m.num = n /\ n \in Nat
    BY <2>1
  <2>3. alive[c] /\ reqs'[c] = Append(reqs[c], m) /\ consumed'[c] = consumed[c] + n
    BY <1>1, <2>1 DEF SendRequest, Consume, Types, ClientTypes
  <2>4. \A r \in Replicas : consumed[c] + n <= SlotsOf(r, c)
    BY <1>1 DEF SendRequest
  <2>5. QED
    BY <2>2, <2>3, <2>4, PromiseMore
<1>2. ASSUME SendBye(c) PROVE \E tou : Promised(c, tou)'
  <2>1. PICK m : m = [type |-> "bye"]
    OBVIOUS
  <2>2. m.type # "insert"
    BY <2>1
  <2>3. alive[c] /\ reqs'[c] = Append(reqs[c], m) /\ UNCHANGED consumed
    BY <1>2, <2>1 DEF SendBye, Types, ClientTypes
  <2>4. consumed[c] \in Nat /\ consumed[c] + 0 = consumed[c]
    BY DEF Types, ClientTypes
  <2>5. \A r \in Replicas : consumed[c] + 0 <= SlotsOf(r, c)
    BY <2>3, <2>4 DEF Promised
  <2>6. 0 = (IF m.type = "insert" THEN m.num ELSE 0) /\ consumed'[c] = consumed[c] + 0
    BY <2>2, <2>3, <2>4
  <2>7. QED
    BY <2>3, <2>5, <2>6, PromiseMore
<1>3. ASSUME (\E r \in Replicas : InsertAck(c, r)) \/ AllStorageFinished(c)
      PROVE  Promised(c, tot)'
  <2>1. UNCHANGED <<reqs, alive, consumed>>
    BY <1>3 DEF InsertAck, AllStorageFinished
  <2>2. QED
    BY <2>1, PromiseKept
<1>4. ASSUME Crash(c) PROVE Promised(c, tot)'
  <2>1. UNCHANGED reqs /\ ~ alive'[c]
    BY <1>4 DEF Crash, Types, ClientTypes
  <2>2. QED
    BY <2>1, PromiseKept
<1>5. QED
  BY <1>1, <1>2, <1>3, <1>4, Zenon DEF Client

(* A client that a step is not about.                                      *)
LEMMA OthersPromise ==
  ASSUME Types, Types', [Next]_vars, NEW x \in Clients, ~ Client(x)
  PROVE  reqs'[x] = reqs[x] /\ alive'[x] = alive[x] /\ consumed'[x] = consumed[x]
<1>1. ASSUME UNCHANGED <<reqs, alive, consumed>>
      PROVE  reqs'[x] = reqs[x] /\ alive'[x] = alive[x] /\ consumed'[x] = consumed[x]
  BY <1>1
<1>2. CASE UNCHANGED vars
  BY <1>1, <1>2 DEF vars, clientVars
<1>3. CASE Epoch
  BY <1>1, <1>3 DEF Epoch
<1>4. CASE \E c \in Clients : OrderFailureEvent(c) \/ OrderClientFinished(c)
  BY <1>1, <1>4 DEF OrderFailureEvent, OrderClientFinished, clientVars
<1>5. CASE \E r \in Replicas : OrderFromStorage(r)
  BY <1>1, <1>5 DEF OrderFromStorage, OrderClientFreeze, OrderClientCut, OrderClientData,
                    clientVars
<1>6. CASE \E r \in Replicas : ControlThread(r)
  BY <1>1, <1>6 DEF ControlThread, StorageSlots, StorageClientFreeze, StorageClientCut,
                    StorageClientPatch, StorageClientFinalize, clientVars
<1>7. CASE \E r \in Replicas, c \in Clients : StorageFailureEvent(r, c) \/ ClientThread(r, c)
  BY <1>1, <1>7 DEF StorageFailureEvent, ClientThread, StorageInsert,
                    StorageClientFinished, clientVars
<1>8. ASSUME NEW c \in Clients, Client(c)
      PROVE  reqs'[x] = reqs[x] /\ alive'[x] = alive[x] /\ consumed'[x] = consumed[x]
  <2>1. x # c
    BY <1>8
  <2>2. ASSUME NEW d, NEW n, SendRequest(c, d, n)
        PROVE  reqs'[x] = reqs[x] /\ alive'[x] = alive[x] /\ consumed'[x] = consumed[x]
    BY <2>1, <2>2 DEF SendRequest, Consume, Types, ClientTypes
  <2>3. CASE SendBye(c)
    BY <2>1, <2>3 DEF SendBye, Types, ClientTypes
  <2>4. CASE (\E r \in Replicas : InsertAck(c, r)) \/ AllStorageFinished(c)
    BY <2>4 DEF InsertAck, AllStorageFinished
  <2>5. CASE Crash(c)
    BY <2>1, <2>5 DEF Crash, Types, ClientTypes
  <2>6. QED
    BY <1>8, <2>2, <2>3, <2>4, <2>5, Zenon DEF Client
<1>9. QED
  BY <1>2, <1>3, <1>4, <1>5, <1>6, <1>7, <1>8, Zenon DEF Next

(* With the slots on the servers in time, no client uses up more slots     *)
(* than any of them has for it.                                            *)
THEOREM PromiseInvariant == SlotsOnTime => (Spec => []PromiseInv)
<1> SUFFICES ASSUME SlotsOnTime PROVE Spec => []PromiseInv
  OBVIOUS
<1>1. Init => PromiseInv
  <2> SUFFICES ASSUME Init, NEW c \in Clients PROVE \E tot : Promised(c, tot)
    BY DEF PromiseInv
  <2>1. PICK tot : tot = [q \in Nat |-> 0]
    OBVIOUS
  <2>2. IsPlaces(tot) /\ tot[0] = 0
    BY <2>1 DEF IsPlaces
  <2>3. reqs[c] = << >> /\ consumed[c] = 0 /\ Len(reqs[c]) = 0
    BY DEF Init
  <2>4. Totals(reqs[c], tot)
    BY <2>2, <2>3 DEF Totals
  <2>5. \A r \in Replicas : SlotsOf(r, c) \in Nat
    <3>1. \A r \in Replicas : log[r] \in Seq(Entry)
      BY DEF Init
    <3>2. QED
      BY <3>1, AfterType DEF SlotsOf
  <2>6. Promised(c, tot)
    BY <2>2, <2>3, <2>4, <2>5 DEF Promised
  <2>7. QED
    BY <2>6
<1>2. Types /\ Types' /\ RecoveryInv /\ PromiseInv /\ [Next]_vars => PromiseInv'
  <2> SUFFICES ASSUME Types, Types', RecoveryInv, PromiseInv, [Next]_vars,
                      NEW c \in Clients
               PROVE  \E tot : Promised(c, tot)'
    BY DEF PromiseInv
  <2>1. PICK tot : Promised(c, tot)
    BY DEF PromiseInv
  <2>2. KeptAll
    BY NextKeeps DEF RecoveryInv
  <2>3. CASE Client(c)
    BY <2>1, <2>2, <2>3, ClientPromise
  <2>4. CASE ~ Client(c)
    <3>1. reqs'[c] = reqs[c] /\ alive'[c] = alive[c] /\ consumed'[c] = consumed[c]
      BY <2>4, OthersPromise
    <3>2. Promised(c, tot)'
      BY <2>1, <2>2, <3>1, PromiseKept
    <3>3. QED
      BY <3>2
  <2>5. QED
    BY <2>3, <2>4
<1>3. QED
  BY <1>1, <1>2, TypesInvariant, RecoveryInvariant, PTL DEF Spec

(* With the slots on the servers in time, an insert always finds the slots *)
(* that the client was promised: the assertion of position::insert does    *)
(* not fail for the request of a client, whatever the other clients do and *)
(* whoever has crashed.                                                    *)
THEOREM InsertsFindSlots == SlotsOnTime => (Spec => InsertFindsSlot)
<1> SUFFICES ASSUME SlotsOnTime PROVE Spec => InsertFindsSlot
  OBVIOUS
<1>1. ASSUME Types, PlacesInv, PromiseInv, NEW r \in Replicas, NEW c \in Clients,
             StorageInsert(r, c)
      PROVE  aborted' = aborted
  <2>1. PICK place, acc : Accounts(place, acc)
    BY <1>1 DEF PlacesInv
  <2>2. PICK tot : Promised(c, tot)
    BY <1>1 DEF PromiseInv
  <2>3. PICK pl, a : pl = place[c] /\ a = acc[r][c]
    OBVIOUS
  <2>4. a \in Nat /\ IsPlaces(pl) /\ pl[0] = 0 /\ Account(r, c, pl, a)
    BY <2>1, <2>3 DEF Accounts
  <2>5. PICK m : m = reqs[c][got[r][c] + 1]
    OBVIOUS
  <2>6. FromClient(r, c, "insert")
    BY <1>1 DEF StorageInsert
  <2>7. r \notin aborted /\ got[r][c] + 1 \in 1 .. Len(reqs[c]) /\ m.type = "insert"
    BY <1>1, <2>5, <2>6, FromClientTypes
  <2>8. SUFFICES ASSUME c \notin disc[r], Cardinality(After(log[r], c, cur[r][c])) < m.num
                 PROVE  FALSE
    BY <1>1, <2>5, StorageInsertEffect
  <2>9. got[r][c] = a /\ cur[r][c] = pl[a]
    BY <2>4, <2>7, <2>8 DEF Account
  <2>10. PICK L \in Seq(Entry) : L = log[r]
    BY <1>1, StateTypes
  <2>11. PICK R \in Seq(CMessage) : R = reqs[c]
    BY <1>1, StateTypes
  <2>12. PICK k \in Nat : k = pl[a]
    BY <2>4, PlaceType
  <2>13. Totals(R, tot) /\ tot[Len(R)] <= Cardinality(After(L, c, 0))
    BY <2>2, <2>10, <2>11 DEF Promised, SlotsOf
  <2>14. a + 1 \in 1 .. Len(R) /\ R[a + 1] = m /\ a \in 0 .. Len(R) /\ (a + 1) - 1 = a
         /\ a + 1 \in 0 .. Len(R) /\ a <= Len(R)
    BY <2>4, <2>5, <2>7, <2>9, <2>11
  <2>15. Cardinality(UpTo(After(L, c, 0), k)) = tot[a]
    <3>1. \A q \in 1 .. a : PlacedAt(L, c, R[q], pl[q - 1], pl[q])
      BY <2>4, <2>10, <2>11 DEF Account
    <3>2. Cardinality(UpTo(After(L, c, 0), pl[a])) = tot[a]
      BY <2>4, <2>13, <2>14, <3>1, UsedUp
    <3>3. QED
      BY <2>12, <3>2
  <2>16. Cardinality(After(L, c, 0)) =
           Cardinality(UpTo(After(L, c, 0), k)) + Cardinality(After(L, c, k))
    BY SlotsSplit
  <2>17. tot[a + 1] = tot[a] + m.num
    BY <2>7, <2>13, <2>14 DEF Totals
  <2>18. /\ tot[a] \in Nat /\ tot[a + 1] \in Nat /\ tot[Len(R)] \in Nat
         /\ tot[a + 1] <= tot[Len(R)]
    BY <2>13, <2>14, TotalsGrow
  <2>19. Cardinality(After(L, c, k)) \in Nat /\ m.num \in Nat
    BY <1>1, <2>5, AfterType, StorageInsertEffect
  <2>20. Cardinality(After(L, c, k)) < m.num
    BY <2>8, <2>9, <2>10, <2>12
  <2>21. QED
    BY <2>13, <2>15, <2>16, <2>17, <2>18, <2>19, <2>20
<1>2. Types /\ PlacesInv /\ PromiseInv =>
        \A r \in Replicas, c \in Clients : StorageInsert(r, c) => aborted' = aborted
  BY <1>1
<1>3. QED
  BY <1>2, TypesInvariant, PlacesInvariant, PromiseInvariant, PTL DEF InsertFindsSlot
=============================================================================
