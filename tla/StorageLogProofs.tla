--------------------------- MODULE StorageLogProofs -------------------------
(***************************************************************************)
(* Proofs about StorageLog, for any set of clients and payloads, any epoch *)
(* layouts, any number of subscriber threads and any bounds.               *)
(***************************************************************************)
EXTENDS StorageLog, WellFoundedInduction, SequenceTheorems, TLAPS

(* A set of natural numbers that is not empty has a least element.         *)
LEMMA LeastNat ==
  ASSUME NEW S, S \subseteq Nat, S # {}
  PROVE  \E k \in S : \A m \in S : k <= m
<1> DEFINE Less == {p \in Nat \X Nat : p[1] < p[2]}
<1>1. IsWellFoundedOn(Less, Nat)
  BY NatLessThanWellFounded, Zenon DEF OpToRel
<1>2. PICK k \in S : \A m \in S : ~ (<<m, k>> \in Less)
  <2> HIDE DEF Less
  <2> QED BY <1>1, WFMin
<1>3. \A m \in S : ~ (m < k)
  BY <1>2
<1>4. QED
  BY <1>3

(* NextOf is the first entry of the client after the given position, and   *)
(* null exactly when there is none (entry::next of storage/log.h).         *)
LEMMA NextOfIsFirst ==
  ASSUME NEW l \in Seq(Entry), NEW c \in Clients, NEW i \in Nat
  PROVE  /\ NextOf(l, c, i) = 0 =>
              \A m \in DOMAIN l : l[m].client = c => m <= i
         /\ NextOf(l, c, i) # 0 =>
              /\ NextOf(l, c, i) \in DOMAIN l
              /\ NextOf(l, c, i) > i
              /\ l[NextOf(l, c, i)].client = c
              /\ \A m \in DOMAIN l : m > i /\ l[m].client = c => NextOf(l, c, i) <= m
<1>1. DOMAIN l \subseteq Nat \ {0}
  OBVIOUS
<1>2. CASE After(l, c, i) = {}
  BY <1>1, <1>2 DEF NextOf, After
<1>3. CASE After(l, c, i) # {}
  <2>1. After(l, c, i) \subseteq Nat
    BY <1>1 DEF After
  <2>2. \E k \in After(l, c, i) : \A m \in After(l, c, i) : k <= m
    BY <1>3, <2>1, LeastNat
  <2>3. /\ NextOf(l, c, i) \in After(l, c, i)
        /\ \A m \in After(l, c, i) : NextOf(l, c, i) <= m
    BY <1>3, <2>2 DEF NextOf
  <2>4. QED
    BY <1>1, <2>3 DEF After
<1>4. QED
  BY <1>2, <1>3

-----------------------------------------------------------------------------
(* Steps change the log in only three ways.  They release an entry, ...    *)
Released(l, n, k) ==
  /\ n \in Seq(Entry)
  /\ Len(n) = Len(l) /\ DOMAIN n = DOMAIN l
  /\ n[k].set
  /\ \A i \in DOMAIN l :
       /\ n[i].gsn = l[i].gsn /\ n[i].client = l[i].client
       /\ n[i].data = l[i].data
       /\ i # k => n[i] = l[i]

(* ... store a payload, ...                                                *)
Stored(l, n, k, d) ==
  /\ n \in Seq(Entry)
  /\ Len(n) = Len(l) /\ DOMAIN n = DOMAIN l
  /\ n[k].data = d
  /\ \A i \in DOMAIN l :
       /\ n[i].gsn = l[i].gsn /\ n[i].client = l[i].client
       /\ n[i].set = l[i].set
       /\ i # k => n[i] = l[i]

(* ... or append an empty entry.                                           *)
Appended(l, n, g, c) ==
  /\ n \in Seq(Entry)
  /\ Len(n) = Len(l) + 1 /\ DOMAIN n = 1 .. Len(l) + 1
  /\ n[Len(l) + 1].gsn = g /\ n[Len(l) + 1].client = c
  /\ ~n[Len(l) + 1].set /\ n[Len(l) + 1].data = NoOp
  /\ \A i \in DOMAIN l : n[i] = l[i]

(* The entries of a log have the fields of log::entry.                     *)
LEMMA EntryFields ==
  ASSUME NEW l \in Seq(Entry)
  PROVE  /\ Len(l) \in Nat /\ DOMAIN l = 1 .. Len(l)
         /\ \A i \in DOMAIN l :
              /\ l[i].gsn \in Nat /\ l[i].client \in Clients
              /\ l[i].data \in Payloads \cup {NoOp}
<1>1. Len(l) \in Nat /\ DOMAIN l = 1 .. Len(l)
  BY LenProperties
<1>2. \A i \in DOMAIN l : l[i] \in Entry
  BY <1>1, ElementOfSeq
<1>3. QED
  BY <1>1, <1>2 DEF Entry

(* An entry of the log is replaced.                                        *)
LEMMA ReplaceEntry ==
  ASSUME NEW l \in Seq(Entry), NEW k \in DOMAIN l, NEW e \in Entry
  PROVE  LET n == [l EXCEPT ![k] = e] IN
         /\ n \in Seq(Entry)
         /\ Len(n) = Len(l) /\ DOMAIN n = DOMAIN l
         /\ n[k] = e
         /\ \A i \in DOMAIN l : i # k => n[i] = l[i]
<1>1. DOMAIN l = 1 .. Len(l)
  BY LenProperties
<1>2. QED
  BY <1>1, ExceptSeq

(* What releasing an entry (its set flag) does to the log.                 *)
LEMMA ReleaseEntry ==
  ASSUME NEW l \in Seq(Entry), NEW k \in DOMAIN l
  PROVE  Released(l, [l EXCEPT ![k].set = TRUE], k)
<1> DEFINE e == [l[k] EXCEPT !.set = TRUE]
           n == [l EXCEPT ![k] = e]
<1>1. l[k] \in Entry
  BY ElementOfSeq, LenProperties
<1>2. /\ e \in Entry
      /\ e.gsn = l[k].gsn /\ e.client = l[k].client /\ e.data = l[k].data
  BY <1>1 DEF Entry
<1>3. e.set
  BY <1>1 DEF Entry
<1> HIDE DEF e
<1>4. /\ n \in Seq(Entry) /\ Len(n) = Len(l) /\ DOMAIN n = DOMAIN l
      /\ n[k] = e
      /\ \A i \in DOMAIN l : i # k => n[i] = l[i]
  BY <1>2, ReplaceEntry, Zenon
<1> HIDE DEF n
<1>5. n[k].set
  BY <1>3, <1>4, Zenon
<1>6. \A i \in DOMAIN l :
         /\ n[i].gsn = l[i].gsn /\ n[i].client = l[i].client
         /\ n[i].data = l[i].data
         /\ i # k => n[i] = l[i]
  BY <1>2, <1>4, Zenon
<1>7. QED
  BY <1>4, <1>5, <1>6, Zenon DEF n, e, Released

(* What storing a payload into an open entry does to the log.              *)
LEMMA StorePayload ==
  ASSUME NEW l \in Seq(Entry), NEW k \in DOMAIN l, NEW d \in Payloads \cup {NoOp}
  PROVE  Stored(l, [l EXCEPT ![k].data = d], k, d)
<1> DEFINE e == [l[k] EXCEPT !.data = d]
           n == [l EXCEPT ![k] = e]
<1>1. l[k] \in Entry
  BY ElementOfSeq, LenProperties
<1>2. /\ e \in Entry /\ e.data = d
      /\ e.gsn = l[k].gsn /\ e.client = l[k].client /\ e.set = l[k].set
  BY <1>1 DEF Entry
<1> HIDE DEF e
<1>3. /\ n \in Seq(Entry) /\ Len(n) = Len(l) /\ DOMAIN n = DOMAIN l
      /\ n[k] = e
      /\ \A i \in DOMAIN l : i # k => n[i] = l[i]
  BY <1>2, ReplaceEntry
<1> HIDE DEF n
<1>4. \A i \in DOMAIN l :
         /\ n[i].gsn = l[i].gsn /\ n[i].client = l[i].client
         /\ n[i].set = l[i].set
         /\ i # k => n[i] = l[i]
  BY <1>2, <1>3, Zenon
<1>5. QED
  BY <1>2, <1>3, <1>4, Zenon DEF n, e, Stored

(* What log::add_entries does to the log for each slot it yields.          *)
LEMMA AppendEntry ==
  ASSUME NEW l \in Seq(Entry), NEW g \in Nat, NEW c \in Clients
  PROVE  Appended(l, Append(l, NewEntry(g, c)), g, c)
<1> DEFINE n == Append(l, NewEntry(g, c))
<1>1. NewEntry(g, c) \in Entry
  BY DEF NewEntry, Entry
<1>2. /\ n \in Seq(Entry) /\ Len(n) = Len(l) + 1
      /\ \A i \in 1 .. Len(l) : n[i] = l[i]
      /\ n[Len(l) + 1] = NewEntry(g, c)
  BY <1>1, AppendProperties
<1> HIDE DEF n
<1>3. Appended(l, n, g, c)
  BY <1>2, LenProperties DEF NewEntry, Appended
<1>4. QED
  BY <1>3 DEF n

-----------------------------------------------------------------------------
(* The inductive invariant.                                                *)

(* A client's position is one of its own entries, or before the first.     *)
CurOK ==
  \A c \in Clients :
    /\ cur[c] <= Len(log)
    /\ cur[c] # 0 => log[cur[c]].client = c

(* What an operation on a position relies on while it runs.                *)
OpOK ==
  \A c \in Clients :
    /\ op[c].kind \in {"insert", "publish"} => cur[c] # 0 /\ mode[c] = "open"
    /\ op[c].kind = "insert" => op[c].close > 0
    /\ op[c].kind = "finalize" => mode[c] = "final"

(* A finalized client gets no more entries, and close has left none of its *)
(* entries ahead of the position.                                          *)
FinalOK ==
  /\ ~adding => pending = << >>
  /\ \A c \in Clients :
       mode[c] = "final" =>
         /\ \A i \in DOMAIN pending : pending[i] # c
         /\ op[c].kind = "idle" =>
              \A i \in DOMAIN log : log[i].client = c => i <= cur[c]

(* Iterators stay within what is published, and remember where they are.   *)
IterOK ==
  /\ numEntries <= Len(log)
  /\ \A t \in Threads :
       /\ sub[t].cached <= numEntries
       /\ sub[t].pc # "seek" => /\ sub[t].at \in 1 .. numEntries
                                /\ sub[t].at + NumThreads = sub[t].index + 1
       /\ sub[t].pc = "send" => log[sub[t].at].set

(* GSNs grow.                                                              *)
GsnOK == \A i \in DOMAIN log : log[i].gsn < startGsn

IInv ==
  TypeOK /\ CurOK /\ OpOK /\ FinalOK /\ IterOK /\ GsnOK /\ ClientPrefix

(* The strengthened invariant holds in the initial states.                 *)
LEMMA InitIInv == Init => IInv
<1> SUFFICES ASSUME Init PROVE IInv
  OBVIOUS
<1>1. TypeOK
  <2>1. /\ log \in Seq(Entry) /\ pending \in Seq(Clients \cup {Other})
        /\ numEntries \in Nat /\ startGsn \in Nat
    BY DEF Init
  <2>2. adding \in BOOLEAN /\ aborted \in BOOLEAN
    BY DEF Init
  <2>3. /\ mode \in [Clients -> {"open", "frozen", "final"}]
        /\ cur \in [Clients -> Nat] /\ op \in [Clients -> Ops]
    BY DEF Init, Idle, Op, Ops
  <2>4. sub \in [Threads -> [pc : {"seek", "wait", "send"}, index : Nat,
                             cached : Nat, at : Nat]]
    BY NumThreadsPositive DEF Init, Threads
  <2>5. delivered \in [Threads -> Seq([gsn : Nat, client : Clients,
                                        val : Payloads \cup {NoOp}])]
    BY DEF Init
  <2>6. QED
    BY <2>1, <2>2, <2>3, <2>4, <2>5 DEF TypeOK
<1>2. CurOK /\ OpOK /\ FinalOK /\ GsnOK /\ ClientPrefix
  BY DEF Init, CurOK, OpOK, FinalOK, GsnOK, ClientPrefix, Idle, Op
<1>3. IterOK
  BY DEF Init, IterOK, Threads
<1>4. QED
  BY <1>1, <1>2, <1>3 DEF IInv

-----------------------------------------------------------------------------
(* Steps that leave the log alone preserve the invariant.                  *)

(* A slots message for the control thread (log::add_entries).              *)
LEMMA StorageSlotsStep ==
  ASSUME IInv, NEW owners \in Schedules, StorageSlots(owners)
  PROVE  IInv'
<1> USE DEF StorageSlots
<1>1. TypeOK'
  <2>1. pending' \in Seq(Clients \cup {Other})
    BY SchedulesType
  <2>2. adding' \in BOOLEAN
    OBVIOUS
  <2>3. QED
    BY <2>1, <2>2 DEF IInv, TypeOK
<1>2. CurOK' /\ OpOK' /\ GsnOK' /\ ClientPrefix'
  BY DEF IInv, CurOK, OpOK, GsnOK, ClientPrefix
<1>3. IterOK'
  BY DEF IInv, IterOK
<1>4. FinalOK'
  <2>1. \A c \in Clients : mode[c] = "final" => \A i \in DOMAIN owners : owners[i] # c
    OBVIOUS
  <2>2. QED
    BY <2>1 DEF IInv, FinalOK
<1>5. QED
  BY <1>1, <1>2, <1>3, <1>4 DEF IInv

(* The store of the number of entries at the end of add_entries.           *)
LEMMA PublishStep ==
  ASSUME IInv, Publish
  PROVE  IInv'
<1> USE DEF Publish
<1>1. TypeOK'
  <2>1. numEntries' \in Nat
    BY LenProperties DEF IInv, TypeOK
  <2>2. adding' \in BOOLEAN
    OBVIOUS
  <2>3. QED
    BY <2>1, <2>2 DEF IInv, TypeOK
<1>2. CurOK' /\ OpOK' /\ GsnOK' /\ ClientPrefix' /\ FinalOK'
  BY DEF IInv, CurOK, OpOK, GsnOK, ClientPrefix, FinalOK
<1>3. IterOK'
  <2>1. numEntries <= numEntries' /\ numEntries \in Nat /\ numEntries' \in Nat
    BY LenProperties DEF IInv, IterOK, TypeOK
  <2>2. \A t \in Threads : sub[t].cached \in Nat
    BY DEF IInv, TypeOK
  <2>3. QED
    BY <2>1, <2>2 DEF IInv, IterOK
<1>5. QED
  BY <1>1, <1>2, <1>3 DEF IInv

(* The freeze of a client (storage_client_freeze).                         *)
LEMMA FreezeStep ==
  ASSUME IInv, NEW c \in Clients, Freeze(c)
  PROVE  IInv'
<1> USE DEF Freeze
<1>1. TypeOK'
  <2>1. mode' \in [Clients -> {"open", "frozen", "final"}]
    BY DEF IInv, TypeOK
  <2>2. QED
    BY <2>1 DEF IInv, TypeOK
<1>2. CurOK' /\ GsnOK' /\ ClientPrefix' /\ IterOK'
  BY DEF IInv, CurOK, GsnOK, ClientPrefix, IterOK
<1>3. OpOK' /\ FinalOK'
  BY DEF IInv, OpOK, FinalOK, TypeOK
<1>4. QED
  BY <1>1, <1>2, <1>3 DEF IInv

(* The start of position::close.                                           *)
LEMMA FinalizeBeginStep ==
  ASSUME IInv, NEW c \in Clients, FinalizeBegin(c)
  PROVE  IInv'
<1> USE DEF FinalizeBegin, Finalizing, Op
<1>1. TypeOK'
  <2>1. /\ mode' \in [Clients -> {"open", "frozen", "final"}]
        /\ op' \in [Clients -> Ops]
    BY DEF IInv, TypeOK, Ops
  <2>2. QED
    BY <2>1 DEF IInv, TypeOK
<1>2. CurOK' /\ GsnOK' /\ IterOK'
  BY DEF IInv, CurOK, GsnOK, IterOK
<1>3. \A d \in Clients :
         /\ d = c => op'[d].kind = "finalize" /\ mode'[d] = "final"
         /\ d # c => op'[d] = op[d] /\ mode'[d] = mode[d]
  BY DEF IInv, TypeOK
<1>4. OpOK'
  BY <1>3 DEF IInv, OpOK
<1>5. FinalOK'
  BY <1>3 DEF IInv, FinalOK, ControlIdle
<1>6. ClientPrefix'
  <2>1. \A i \in DOMAIN log : log[i].client \in Clients
    BY EntryFields DEF IInv, TypeOK
  <2>2. QED
    BY <1>3, <2>1 DEF IInv, ClientPrefix
<1>7. QED
  BY <1>1, <1>2, <1>4, <1>5, <1>6 DEF IInv

(* The end of position::close.                                             *)
LEMMA FinalizeEndStep ==
  ASSUME IInv, NEW c \in Clients, FinalizeEnd(c)
  PROVE  IInv'
<1> USE DEF FinalizeEnd, Idle, Op
<1>1. TypeOK'
  <2>1. op' \in [Clients -> Ops]
    BY DEF IInv, TypeOK, Ops
  <2>2. QED
    BY <2>1 DEF IInv, TypeOK
<1>2. CurOK' /\ GsnOK' /\ IterOK'
  BY DEF IInv, CurOK, GsnOK, IterOK
<1>3. \A d \in Clients :
         /\ d = c => op'[d].kind = "idle"
         /\ d # c => op'[d] = op[d]
  BY DEF IInv, TypeOK
<1>4. OpOK'
  BY <1>3 DEF IInv, OpOK
<1>5. \A i \in DOMAIN log : log[i].client = c => i <= cur[c]
  BY NextOfIsFirst DEF IInv, TypeOK
<1>6. FinalOK'
  BY <1>3, <1>5 DEF IInv, FinalOK
<1>7. ClientPrefix'
  <2>1. \A i \in DOMAIN log : log[i].client \in Clients
    BY EntryFields DEF IInv, TypeOK
  <2>2. QED
    BY <1>3, <2>1 DEF IInv, ClientPrefix
<1>8. QED
  BY <1>1, <1>2, <1>4, <1>6, <1>7 DEF IInv

(* The start of position::insert.                                          *)
LEMMA InsertBeginStep ==
  ASSUME IInv, NEW c \in Clients, NEW d \in Payloads \cup {NoOp},
         NEW n \in 1 .. MaxSlots, InsertBegin(c, d, n)
  PROVE  IInv'
<1> DEFINE next == NextOf(log, c, cur[c])
<1>1. /\ next \in DOMAIN log /\ next > cur[c] /\ log[next].client = c
      /\ \A m \in DOMAIN log : m > cur[c] /\ log[m].client = c => next <= m
  BY NextOfIsFirst DEF InsertBegin, Advance, IInv, TypeOK
<1>2. /\ cur' = [cur EXCEPT ![c] = next]
      /\ op' = [op EXCEPT ![c] = Op("insert", d, n)]
      /\ mode[c] = "open" /\ op[c].kind = "idle"
      /\ UNCHANGED <<log, numEntries, pending, adding, startGsn, mode, sub,
                     delivered, aborted>>
  BY DEF InsertBegin, Advance
<1> HIDE DEF next
<1>3. DOMAIN log = 1 .. Len(log) /\ Len(log) \in Nat
  BY LenProperties DEF IInv, TypeOK
<1>4. n \in Nat /\ n > 0
  BY BoundsType
<1>5. TypeOK'
  <2>1. cur' \in [Clients -> Nat] /\ op' \in [Clients -> Ops]
    BY <1>1, <1>2, <1>3, <1>4 DEF IInv, TypeOK, Ops, Op
  <2>2. QED
    BY <1>2, <2>1 DEF IInv, TypeOK
<1>6. \A b \in Clients :
         /\ b = c => cur'[b] = next /\ op'[b].kind = "insert" /\ op'[b].close = n
         /\ b # c => cur'[b] = cur[b] /\ op'[b] = op[b]
  BY <1>2 DEF IInv, TypeOK, Op
<1>7. CurOK'
  BY <1>1, <1>2, <1>3, <1>6 DEF IInv, CurOK
<1>8. OpOK'
  BY <1>1, <1>2, <1>3, <1>4, <1>6 DEF IInv, OpOK
<1>9. FinalOK'
  BY <1>2, <1>6 DEF IInv, FinalOK
<1>10. GsnOK' /\ IterOK'
  BY <1>2 DEF IInv, GsnOK, IterOK
<1>11. ClientPrefix'
  <2>1. \A i \in DOMAIN log : log[i].client \in Clients
    BY EntryFields DEF IInv, TypeOK
  <2>2. cur[c] \in Nat
    BY DEF IInv, TypeOK
  <2>3. QED
    BY <1>1, <1>2, <1>3, <1>6, <2>1, <2>2 DEF IInv, ClientPrefix
<1>12. QED
  BY <1>5, <1>7, <1>8, <1>9, <1>10, <1>11 DEF IInv

-----------------------------------------------------------------------------
(* Steps that release an entry preserve the invariant.                     *)

(* What the release of one entry leaves alone.                             *)
LEMMA ReleasedFrame ==
  ASSUME IInv, NEW k \in DOMAIN log, Released(log, log', k),
         UNCHANGED <<numEntries, startGsn, sub>>
  PROVE  IterOK' /\ GsnOK'
<1>1. GsnOK'
  BY DEF IInv, GsnOK, Released
<1>2. \A i \in DOMAIN log : log[i].set => log'[i].set
  BY Zenon DEF Released
<1>3. \A t \in Threads : sub[t].pc = "send" => sub[t].at \in DOMAIN log
  <2>1. DOMAIN log = 1 .. Len(log) /\ Len(log) \in Nat /\ numEntries \in Nat
    BY EntryFields DEF IInv, TypeOK
  <2>2. QED
    BY <2>1 DEF IInv, IterOK
<1>4. IterOK'
  BY <1>2, <1>3 DEF IInv, IterOK, Released
<1>5. QED
  BY <1>1, <1>4

(* One entry closed by position::close.                                    *)
LEMMA FinalizeStepStep ==
  ASSUME IInv, NEW c \in Clients, FinalizeStep(c)
  PROVE  IInv'
<1> DEFINE next == NextOf(log, c, cur[c])
<1>1. /\ next \in DOMAIN log /\ next > cur[c] /\ log[next].client = c
      /\ \A m \in DOMAIN log : m > cur[c] /\ log[m].client = c => next <= m
  BY NextOfIsFirst DEF FinalizeStep, IInv, TypeOK
<1>2. /\ cur' = [cur EXCEPT ![c] = next]
      /\ op[c].kind = "finalize"
      /\ UNCHANGED <<numEntries, pending, adding, startGsn, mode, op, sub,
                     delivered, aborted>>
  BY DEF FinalizeStep
<1>12. log' = [log EXCEPT ![next].set = TRUE] /\ log \in Seq(Entry)
  BY DEF FinalizeStep, IInv, TypeOK
<1> HIDE DEF next
<1>3. Released(log, log', next)
  BY <1>1, <1>12, ReleaseEntry, Zenon
<1>4. /\ DOMAIN log = 1 .. Len(log) /\ Len(log) \in Nat /\ cur[c] \in Nat
      /\ \A i \in DOMAIN log : log[i].client \in Clients
  BY EntryFields DEF IInv, TypeOK
<1>5. TypeOK'
  <2>1. cur' \in [Clients -> Nat]
    BY <1>1, <1>2, <1>4 DEF IInv, TypeOK
  <2>2. QED
    BY <1>2, <1>3, <2>1 DEF IInv, TypeOK, Released
<1>6. \A b \in Clients : cur'[b] = IF b = c THEN next ELSE cur[b]
  BY <1>2 DEF IInv, TypeOK
<1>7. CurOK'
  <2>1. \A b \in Clients : cur[b] \in Nat
    BY DEF IInv, TypeOK
  <2>2. QED
    BY <1>1, <1>3, <1>4, <1>6, <2>1 DEF IInv, CurOK, Released
<1>8. OpOK' /\ FinalOK'
  BY <1>1, <1>2, <1>3, <1>4, <1>6 DEF IInv, OpOK, FinalOK, Released
<1>9. GsnOK' /\ IterOK'
  BY <1>1, <1>2, <1>3, ReleasedFrame
<1>10. ClientPrefix'
  BY <1>1, <1>2, <1>3, <1>4, <1>6 DEF IInv, ClientPrefix, Released
<1>11. QED
  BY <1>5, <1>7, <1>8, <1>9, <1>10 DEF IInv

(* One skipped entry closed by position::insert.                           *)
LEMMA InsertCloseStep ==
  ASSUME IInv, NEW c \in Clients, InsertClose(c)
  PROVE  IInv'
<1> DEFINE next == NextOf(log, c, cur[c])
<1>1. /\ next \in DOMAIN log /\ next > cur[c] /\ log[next].client = c
      /\ \A m \in DOMAIN log : m > cur[c] /\ log[m].client = c => next <= m
  BY NextOfIsFirst DEF InsertClose, Advance, IInv, TypeOK
<1>2. /\ cur' = [cur EXCEPT ![c] = next]
      /\ op' = [op EXCEPT ![c].close = @ - 1]
      /\ op[c].kind = "insert" /\ op[c].close > 1
      /\ UNCHANGED <<numEntries, pending, adding, startGsn, mode, sub,
                     delivered, aborted>>
  BY DEF InsertClose, Advance
<1>3. /\ DOMAIN log = 1 .. Len(log) /\ Len(log) \in Nat
      /\ \A i \in DOMAIN log : log[i].client \in Clients
  BY EntryFields DEF IInv, TypeOK
<1>4. cur[c] \in DOMAIN log /\ cur[c] \in Nat /\ log[cur[c]].client = c
  BY <1>2, <1>3 DEF IInv, OpOK, CurOK, TypeOK
<1>5. Released(log, log', cur[c])
  BY <1>4, ReleaseEntry, Zenon DEF InsertClose, IInv, TypeOK
<1> HIDE DEF next
<1>6. /\ op' \in [Clients -> Ops]
      /\ \A b \in Clients :
           /\ b = c => op'[b].kind = "insert" /\ op'[b].close > 0
           /\ b # c => op'[b] = op[b]
  <2> DEFINE o == [op[c] EXCEPT !.close = @ - 1]
  <2>4. op[c] \in Ops
    BY DEF IInv, TypeOK
  <2>1. o \in Ops /\ o.kind = "insert" /\ o.close > 0
    BY <1>2, <2>4 DEF Ops
  <2>2. op' = [op EXCEPT ![c] = o]
    BY <1>2
  <2>3. QED
    <3> HIDE DEF o
    <3> QED BY <2>1, <2>2 DEF IInv, TypeOK
<1>7. TypeOK'
  <2>1. cur' \in [Clients -> Nat]
    BY <1>1, <1>2, <1>3 DEF IInv, TypeOK
  <2>2. QED
    BY <1>2, <1>5, <1>6, <2>1 DEF IInv, TypeOK, Released
<1>8. \A b \in Clients : cur'[b] = IF b = c THEN next ELSE cur[b]
  BY <1>2 DEF IInv, TypeOK
<1>9. CurOK'
  <2>1. \A b \in Clients : cur[b] \in Nat
    BY DEF IInv, TypeOK
  <2>2. QED
    BY <1>1, <1>3, <1>5, <1>8, <2>1 DEF IInv, CurOK, Released
<1>10. OpOK' /\ FinalOK'
  <2>1. mode[c] = "open"
    BY <1>2 DEF IInv, OpOK
  <2>2. QED
    BY <1>1, <1>2, <1>3, <1>5, <1>6, <1>8, <2>1 DEF IInv, OpOK, FinalOK, Released
<1>11. GsnOK' /\ IterOK'
  BY <1>2, <1>4, <1>5, ReleasedFrame
<1>12. ClientPrefix'
  BY <1>1, <1>2, <1>3, <1>4, <1>5, <1>6, <1>8 DEF IInv, ClientPrefix, Released
<1>13. QED
  BY <1>7, <1>9, <1>10, <1>11, <1>12 DEF IInv

(* The entry of the payload released by position::insert.                  *)
LEMMA InsertSetStep ==
  ASSUME IInv, NEW c \in Clients, InsertSet(c)
  PROVE  IInv'
<1>1. /\ op' = [op EXCEPT ![c] = Idle]
      /\ op[c].kind = "publish"
      /\ UNCHANGED <<numEntries, pending, adding, startGsn, mode, cur, sub,
                     delivered, aborted>>
  BY DEF InsertSet
<1>2. /\ DOMAIN log = 1 .. Len(log) /\ Len(log) \in Nat
      /\ \A i \in DOMAIN log : log[i].client \in Clients
  BY EntryFields DEF IInv, TypeOK
<1>3. cur[c] \in DOMAIN log /\ log[cur[c]].client = c
  BY <1>1, <1>2 DEF IInv, OpOK, CurOK, TypeOK
<1>4. Released(log, log', cur[c])
  BY <1>3, ReleaseEntry, Zenon DEF InsertSet, IInv, TypeOK
<1>5. /\ op' \in [Clients -> Ops]
      /\ \A b \in Clients :
           /\ b = c => op'[b].kind = "idle"
           /\ b # c => op'[b] = op[b]
  BY <1>1 DEF IInv, TypeOK, Ops, Idle, Op
<1>6. TypeOK'
  BY <1>1, <1>4, <1>5 DEF IInv, TypeOK, Released
<1>7. CurOK'
  <2>1. \A b \in Clients : cur[b] \in Nat
    BY DEF IInv, TypeOK
  <2>2. QED
    BY <1>1, <1>2, <1>4, <2>1 DEF IInv, CurOK, Released
<1>8. OpOK' /\ FinalOK'
  <2>1. mode[c] = "open"
    BY <1>1 DEF IInv, OpOK
  <2>2. QED
    BY <1>1, <1>2, <1>4, <1>5, <2>1 DEF IInv, OpOK, FinalOK, Released
<1>9. GsnOK' /\ IterOK'
  BY <1>1, <1>3, <1>4, ReleasedFrame
<1>10. ClientPrefix'
  BY <1>1, <1>2, <1>3, <1>4, <1>5 DEF IInv, ClientPrefix, Released
<1>11. QED
  BY <1>6, <1>7, <1>8, <1>9, <1>10 DEF IInv

-----------------------------------------------------------------------------
(* The step that stores a payload preserves the invariant.                 *)
LEMMA InsertDataStep ==
  ASSUME IInv, NEW c \in Clients, InsertData(c)
  PROVE  IInv'
<1>1. /\ op' = [op EXCEPT ![c] = Publishing]
      /\ op[c].kind = "insert"
      /\ log' = [log EXCEPT ![cur[c]].data = op[c].data]
      /\ UNCHANGED <<numEntries, pending, adding, startGsn, mode, cur, sub,
                     delivered, aborted>>
  BY DEF InsertData
<1>2. /\ log \in Seq(Entry)
      /\ DOMAIN log = 1 .. Len(log) /\ Len(log) \in Nat
      /\ \A i \in DOMAIN log : log[i].client \in Clients
  BY EntryFields DEF IInv, TypeOK
<1>3. cur[c] \in DOMAIN log /\ log[cur[c]].client = c
  BY <1>1, <1>2 DEF IInv, OpOK, CurOK, TypeOK
<1>4. op[c].data \in Payloads \cup {NoOp}
  BY DEF IInv, TypeOK, Ops
<1>5. /\ log' \in Seq(Entry)
      /\ Len(log') = Len(log) /\ DOMAIN log' = DOMAIN log
      /\ \A i \in DOMAIN log :
           /\ log'[i].gsn = log[i].gsn /\ log'[i].client = log[i].client
           /\ log'[i].set = log[i].set
           /\ i # cur[c] => log'[i] = log[i]
  <2>1. Stored(log, log', cur[c], op[c].data)
    BY <1>1, <1>2, <1>3, <1>4, StorePayload, Zenon
  <2>2. QED
    BY <2>1, Zenon DEF Stored
<1>6. /\ op' \in [Clients -> Ops]
      /\ \A b \in Clients :
           /\ b = c => op'[b].kind = "publish"
           /\ b # c => op'[b] = op[b]
  BY <1>1 DEF IInv, TypeOK, Ops, Publishing, Op
<1>7. TypeOK'
  BY <1>1, <1>5, <1>6 DEF IInv, TypeOK
<1>8. CurOK'
  <2>1. \A b \in Clients : cur[b] \in Nat
    BY DEF IInv, TypeOK
  <2>2. QED
    BY <1>1, <1>2, <1>5, <2>1 DEF IInv, CurOK
<1>9. OpOK' /\ FinalOK'
  <2>1. mode[c] = "open" /\ cur[c] # 0
    BY <1>1 DEF IInv, OpOK
  <2>2. QED
    BY <1>1, <1>2, <1>5, <1>6, <2>1 DEF IInv, OpOK, FinalOK
<1>10. GsnOK'
  BY <1>1, <1>5 DEF IInv, GsnOK
<1>11. \A i \in DOMAIN log : log'[i].set <=> log[i].set
  BY <1>5, Zenon
<1>12. IterOK'
  <2>1. \A t \in Threads : sub[t].pc = "send" => sub[t].at \in DOMAIN log
    BY <1>2 DEF IInv, IterOK, TypeOK
  <2>2. QED
    BY <1>1, <1>5, <1>11, <2>1 DEF IInv, IterOK
<1>13. ClientPrefix'
  <2>1. SUFFICES ASSUME NEW i \in DOMAIN log
        PROVE  LET b == log[i].client IN
               /\ i < cur[b] => log'[i].set
               /\ i > cur[b] => ~log'[i].set /\ log'[i].data = NoOp
               /\ i = cur[b] => (log'[i].set <=> op'[b].kind \notin {"insert", "publish"})
    BY <1>1, <1>5 DEF ClientPrefix
  <2>2. log[i].client \in Clients /\ cur[log[i].client] \in Nat /\ i \in Nat
    BY <1>2 DEF IInv, TypeOK
  <2>3. CASE i = cur[c]
    BY <1>1, <1>3, <1>6, <1>11, <2>2, <2>3, ZenonT(30) DEF IInv, ClientPrefix
  <2>4. CASE i # cur[c]
    BY <1>1, <1>3, <1>5, <1>6, <2>2, <2>4 DEF IInv, ClientPrefix
  <2>5. QED
    BY <2>3, <2>4
<1>14. QED
  BY <1>7, <1>8, <1>9, <1>10, <1>12, <1>13 DEF IInv

(* The step that adds an entry preserves the invariant.                    *)
LEMMA YieldStep ==
  ASSUME IInv, Yield
  PROVE  IInv'
<1>1. /\ pending \in Seq(Clients \cup {Other}) /\ pending # << >>
      /\ pending' = Tail(pending) /\ startGsn' = startGsn + 1
      /\ startGsn \in Nat /\ startGsn' \in Nat
      /\ UNCHANGED <<numEntries, adding, mode, cur, op, sub, delivered, aborted>>
  BY DEF Yield, IInv, TypeOK
<1>2. /\ pending' \in Seq(Clients \cup {Other})
      /\ Head(pending) \in Clients \cup {Other}
      /\ 1 \in DOMAIN pending /\ Head(pending) = pending[1]
      /\ \A i \in DOMAIN pending' : i + 1 \in DOMAIN pending /\ pending'[i] = pending[i + 1]
  BY <1>1, HeadTailProperties, LenProperties
<1>3. /\ log \in Seq(Entry)
      /\ DOMAIN log = 1 .. Len(log) /\ Len(log) \in Nat
      /\ \A i \in DOMAIN log : log[i].client \in Clients /\ log[i].gsn \in Nat
  BY EntryFields DEF IInv, TypeOK
<1>4. \A c \in Clients : mode[c] = "final" => \A i \in DOMAIN pending' : pending'[i] # c
  BY <1>2 DEF IInv, FinalOK
<1>8. ~adding' => pending' = << >>
  BY DEF Yield
<1>5. CASE Head(pending) = Other
  <2>1. log' = log
    BY <1>5 DEF Yield
  <2>2. TypeOK'
    BY <1>1, <1>2, <2>1 DEF IInv, TypeOK
  <2>3. CurOK' /\ OpOK' /\ IterOK' /\ ClientPrefix'
    BY <1>1, <2>1 DEF IInv, CurOK, OpOK, IterOK, ClientPrefix
  <2>4. GsnOK'
    BY <1>1, <1>3, <2>1 DEF IInv, GsnOK
  <2>5. FinalOK'
    BY <1>1, <1>4, <1>8, <2>1 DEF IInv, FinalOK
  <2>6. QED
    BY <2>2, <2>3, <2>4, <2>5 DEF IInv
<1>6. CASE Head(pending) # Other
  <2> DEFINE c == Head(pending)
  <2>1. c \in Clients /\ log' = Append(log, NewEntry(startGsn, c))
    BY <1>2, <1>6 DEF Yield
  <2>2. mode[c] # "final"
    BY <1>2, <2>1 DEF IInv, FinalOK
  <2> HIDE DEF c
  <2>3. Appended(log, log', startGsn, c)
    BY <1>1, <1>3, <2>1, AppendEntry, Zenon
  <2>4. \A b \in Clients : cur[b] \in Nat /\ cur[b] <= Len(log)
    BY DEF IInv, TypeOK, CurOK
  <2>5. TypeOK'
    BY <1>1, <1>2, <2>3 DEF Appended, IInv, TypeOK
  <2>6. CurOK'
    BY <1>1, <1>3, <2>3, <2>4 DEF Appended, IInv, CurOK
  <2>7. OpOK'
    BY <1>1 DEF IInv, OpOK
  <2>8. FinalOK'
    <3>1. \A b \in Clients : mode[b] = "final" /\ op[b].kind = "idle" =>
            \A i \in DOMAIN log' : log'[i].client = b => i <= cur[b]
      BY <1>3, <2>2, <2>3 DEF Appended, IInv, FinalOK
    <3>2. QED
      BY <1>1, <1>4, <1>8, <3>1 DEF FinalOK
  <2>9. GsnOK'
    BY <1>1, <1>3, <2>3 DEF Appended, IInv, GsnOK
  <2>10. IterOK'
    <3>1. \A t \in Threads : sub[t].pc = "send" => sub[t].at \in DOMAIN log
      BY <1>3 DEF IInv, IterOK, TypeOK
    <3>2. numEntries <= Len(log')
      BY <1>3, <2>3 DEF Appended, IInv, IterOK, TypeOK
    <3>3. QED
      BY <1>1, <2>3, <3>1, <3>2 DEF Appended, IInv, IterOK
  <2>11. ClientPrefix'
    BY <1>1, <1>3, <2>1, <2>3, <2>4 DEF Appended, IInv, ClientPrefix
  <2>12. QED
    BY <2>5, <2>6, <2>7, <2>8, <2>9, <2>10, <2>11 DEF IInv
<1>7. QED
  BY <1>5, <1>6

-----------------------------------------------------------------------------
(* Steps of the subscriber threads preserve the invariant.                 *)
LEMMA SubscriberFrame ==
  ASSUME IInv, NEW t \in Threads, NEW it,
         it \in [pc : {"seek", "wait", "send"}, index : Nat, cached : Nat, at : Nat],
         it.cached <= numEntries,
         it.pc # "seek" => it.at \in 1 .. numEntries /\ it.at + NumThreads = it.index + 1,
         it.pc = "send" => log[it.at].set,
         sub' = [sub EXCEPT ![t] = it],
         delivered' \in [Threads -> Seq([gsn : Nat, client : Clients,
                                         val : Payloads \cup {NoOp}])],
         UNCHANGED <<log, numEntries, pending, adding, startGsn, mode, cur, op, aborted>>
  PROVE  IInv'
<1>1. TypeOK'
  <2>1. sub' \in [Threads -> [pc : {"seek", "wait", "send"}, index : Nat,
                              cached : Nat, at : Nat]]
    BY DEF IInv, TypeOK
  <2>2. QED
    BY <2>1 DEF IInv, TypeOK
<1>2. CurOK' /\ OpOK' /\ FinalOK' /\ GsnOK' /\ ClientPrefix'
  BY DEF IInv, CurOK, OpOK, FinalOK, GsnOK, ClientPrefix
<1>3. IterOK'
  <2>1. \A u \in Threads : sub'[u] = IF u = t THEN it ELSE sub[u]
    BY DEF IInv, TypeOK
  <2>2. QED
    BY <2>1 DEF IInv, IterOK
<1>4. QED
  BY <1>1, <1>2, <1>3 DEF IInv

(* One step of iterator::next_entry or of the send that follows.           *)
LEMMA SubscriberStep ==
  ASSUME IInv, NEW t \in Threads, SubscriberThread(t)
  PROVE  IInv'
<1>1. /\ sub[t] \in [pc : {"seek", "wait", "send"}, index : Nat, cached : Nat, at : Nat]
      /\ sub[t].cached <= numEntries
      /\ sub[t].pc # "seek" => /\ sub[t].at \in 1 .. numEntries
                               /\ sub[t].at + NumThreads = sub[t].index + 1
      /\ numEntries \in Nat /\ NumThreads \in Nat
  BY NumThreadsPositive DEF IInv, TypeOK, IterOK
<1>7. delivered \in [Threads -> Seq([gsn : Nat, client : Clients,
                                     val : Payloads \cup {NoOp}])]
  BY DEF IInv, TypeOK
<1>2. CASE LoadNumEntries(t)
  <2> DEFINE it == [sub[t] EXCEPT !.cached = numEntries]
  <2>1. /\ it \in [pc : {"seek", "wait", "send"}, index : Nat, cached : Nat, at : Nat]
        /\ it.pc = "seek" /\ it.cached <= numEntries
    <3>1. sub[t].pc = "seek"
      BY <1>2 DEF LoadNumEntries
    <3>2. QED
      BY <1>1, <3>1
  <2>2. sub' = [sub EXCEPT ![t] = it]
    BY <1>2 DEF LoadNumEntries
  <2> HIDE DEF it
  <2>3. QED
    BY <1>1, <1>2, <1>7, <2>1, <2>2, SubscriberFrame DEF LoadNumEntries
<1>3. CASE Seek(t)
  <2> DEFINE it == [pc |-> "wait", index |-> sub[t].index + NumThreads,
                    cached |-> sub[t].cached, at |-> sub[t].index + 1]
  <2>1. /\ it \in [pc : {"seek", "wait", "send"}, index : Nat, cached : Nat, at : Nat]
        /\ it.pc = "wait" /\ it.cached <= numEntries
        /\ it.at \in 1 .. numEntries /\ it.at + NumThreads = it.index + 1
    <3>1. sub[t].pc = "seek" /\ sub[t].index < sub[t].cached
      BY <1>3 DEF Seek
    <3>2. sub[t].index \in Nat /\ sub[t].cached \in Nat
      BY <1>1
    <3>3. QED
      BY <1>1, <3>1, <3>2
  <2>2. sub' = [sub EXCEPT ![t] = it]
    BY <1>3 DEF Seek
  <2> HIDE DEF it
  <2>3. QED
    BY <1>1, <1>3, <1>7, <2>1, <2>2, SubscriberFrame DEF Seek
<1>4. CASE PollSet(t)
  <2> DEFINE it == [sub[t] EXCEPT !.pc = "send"]
  <2>1. /\ it \in [pc : {"seek", "wait", "send"}, index : Nat, cached : Nat, at : Nat]
        /\ it.pc = "send" /\ it.cached <= numEntries
        /\ it.at \in 1 .. numEntries /\ it.at + NumThreads = it.index + 1
        /\ it.at = sub[t].at
    <3>1. sub[t].pc = "wait"
      BY <1>4 DEF PollSet
    <3>2. QED
      BY <1>1, <3>1
  <2>2. sub' = [sub EXCEPT ![t] = it] /\ log[sub[t].at].set
    BY <1>4 DEF PollSet
  <2> HIDE DEF it
  <2>3. log[it.at].set
    BY <2>1, <2>2, Zenon
  <2>4. QED
    BY <1>1, <1>4, <1>7, <2>1, <2>2, <2>3, SubscriberFrame DEF PollSet
<1>5. CASE Send(t)
  <2> DEFINE it == [sub[t] EXCEPT !.pc = "seek"]
             e == log[sub[t].at]
             s == [gsn |-> e.gsn, client |-> e.client, val |-> e.data]
  <2>1. /\ it \in [pc : {"seek", "wait", "send"}, index : Nat, cached : Nat, at : Nat]
        /\ it.pc = "seek" /\ it.cached <= numEntries
    BY <1>1, <1>5 DEF Send
  <2>2. sub' = [sub EXCEPT ![t] = it] /\ delivered' = [delivered EXCEPT ![t] = Append(@, s)]
    BY <1>5 DEF Send
  <2>3. s \in [gsn : Nat, client : Clients, val : Payloads \cup {NoOp}]
    <3>1. sub[t].at \in DOMAIN log
      BY <1>1, <1>5, EntryFields DEF Send, IInv, IterOK, TypeOK
    <3>2. QED
      BY <3>1, EntryFields DEF IInv, TypeOK
  <2> HIDE DEF it, s
  <2>4. delivered' \in [Threads -> Seq([gsn : Nat, client : Clients,
                                       val : Payloads \cup {NoOp}])]
    BY <1>7, <2>2, <2>3, AppendProperties
  <2>5. QED
    BY <1>1, <1>5, <2>1, <2>2, <2>4, SubscriberFrame DEF Send
<1>6. QED
  BY <1>2, <1>3, <1>4, <1>5 DEF SubscriberThread

-----------------------------------------------------------------------------
(* The invariant is inductive.                                             *)
LEMMA NextIInv == IInv /\ [Next]_vars => IInv'
<1> SUFFICES ASSUME IInv, [Next]_vars PROVE IInv'
  OBVIOUS
<1>1. CASE Control
  BY <1>1, StorageSlotsStep, YieldStep, PublishStep, FinalizeBeginStep,
     FinalizeStepStep, FinalizeEndStep DEF Control
<1>2. ASSUME NEW c \in Clients, ClientThread(c) PROVE IInv'
  <2>1. CASE InsertAssertFails(c)
    <3>1. TypeOK'
      <4>1. aborted' \in BOOLEAN
        BY <2>1 DEF InsertAssertFails
      <4>2. QED
        BY <2>1, <4>1 DEF InsertAssertFails, IInv, TypeOK
    <3>2. CurOK' /\ OpOK' /\ FinalOK' /\ IterOK' /\ GsnOK' /\ ClientPrefix'
      BY <2>1 DEF InsertAssertFails, IInv, CurOK, OpOK, FinalOK, IterOK, GsnOK,
                  ClientPrefix
    <3>3. QED
      BY <3>1, <3>2 DEF IInv
  <2>2. QED
    BY <1>2, <2>1, FreezeStep, InsertBeginStep, InsertCloseStep, InsertDataStep,
       InsertSetStep DEF ClientThread
<1>3. ASSUME NEW t \in Threads, SubscriberThread(t) PROVE IInv'
  BY <1>3, SubscriberStep
<1>4. CASE UNCHANGED vars
  <2>1. TypeOK'
    BY <1>4 DEF vars, IInv, TypeOK
  <2>2. CurOK' /\ OpOK' /\ FinalOK' /\ IterOK' /\ GsnOK' /\ ClientPrefix'
    BY <1>4 DEF vars, IInv, CurOK, OpOK, FinalOK, IterOK, GsnOK, ClientPrefix
  <2>3. QED
    BY <2>1, <2>2 DEF IInv
<1>5. QED
  BY <1>1, <1>2, <1>3, <1>4 DEF Next

(* The strengthened invariant holds in every reachable state.              *)
THEOREM Invariance == Spec => []IInv
BY InitIInv, NextIInv, PTL DEF Spec

(* Types of the storage server's log and of the threads that share it.     *)
THEOREM TypeCorrect == Spec => []TypeOK
<1>1. IInv => TypeOK
  BY DEF IInv
<1>2. QED
  BY <1>1, Invariance, PTL

(* position::insert and position::close use up a client's entries in       *)
(* order, without holes, whatever the other threads do.                    *)
THEOREM PrefixHolds == Spec => []ClientPrefix
<1>1. IInv => ClientPrefix
  BY DEF IInv
<1>2. QED
  BY <1>1, Invariance, PTL

(* After position::close none of the client's entries is left open.        *)
THEOREM FinalizedFull == Spec => []FinalizedIsFull
<1>1. IInv => FinalizedIsFull
  <2> SUFFICES ASSUME IInv, NEW i \in DOMAIN log,
                      mode[log[i].client] = "final", op[log[i].client].kind = "idle"
               PROVE  log[i].set
    BY DEF FinalizedIsFull
  <2>1. log[i].client \in Clients /\ i \in Nat
    BY EntryFields DEF IInv, TypeOK
  <2>2. i <= cur[log[i].client] /\ cur[log[i].client] \in Nat
    BY <2>1 DEF IInv, FinalOK, TypeOK
  <2>3. CASE i < cur[log[i].client]
    BY <2>3 DEF IInv, ClientPrefix
  <2>4. CASE i = cur[log[i].client]
    BY <2>4 DEF IInv, ClientPrefix
  <2>5. QED
    BY <2>1, <2>2, <2>3, <2>4
<1>2. QED
  BY <1>1, Invariance, PTL

(* An iterator of a subscriber thread only follows published entries, and  *)
(* copies only entries that have been released.                            *)
THEOREM IteratorsInBounds == Spec => []IteratorInBounds
<1>1. IInv => IteratorInBounds
  BY DEF IInv, IterOK, IteratorInBounds
<1>2. QED
  BY <1>1, Invariance, PTL

-----------------------------------------------------------------------------
(* What a step does to the log.                                            *)

(* The log is unchanged, or one entry that is not yet set is released or   *)
(* gets its payload, or an empty entry is added.                           *)
LogStep ==
  \/ UNCHANGED log
  \/ \E k \in DOMAIN log : ~log[k].set /\ Released(log, log', k)
  \/ \E k \in DOMAIN log : ~log[k].set /\ \E d : Stored(log, log', k, d)
  \/ \E c \in Clients : Appended(log, log', startGsn, c)

(* An operation in progress works on an entry that is not released.        *)
LEMMA BusyEntry ==
  ASSUME IInv, NEW c \in Clients, op[c].kind \in {"insert", "publish"}
  PROVE  cur[c] \in DOMAIN log /\ ~log[cur[c]].set
<1>1. cur[c] \in DOMAIN log /\ log[cur[c]].client = c
  BY EntryFields DEF IInv, OpOK, CurOK, TypeOK
<1>2. QED
  BY <1>1 DEF IInv, ClientPrefix

(* The next entry of a client that an operation will work on.              *)
LEMMA NextEntry ==
  ASSUME IInv, NEW c \in Clients, NextOf(log, c, cur[c]) # 0
  PROVE  NextOf(log, c, cur[c]) \in DOMAIN log /\ ~log[NextOf(log, c, cur[c])].set
<1> DEFINE next == NextOf(log, c, cur[c])
<1>1. next \in DOMAIN log /\ next > cur[c] /\ log[next].client = c
  BY NextOfIsFirst DEF IInv, TypeOK
<1> HIDE DEF next
<1>2. ~log[next].set
  BY <1>1 DEF IInv, ClientPrefix
<1>3. QED
  BY <1>1, <1>2 DEF next

(* Each action on the log is one of these.                                 *)
LEMMA StepLog ==
  ASSUME IInv, Next
  PROVE  LogStep
<1>1. log \in Seq(Entry) /\ startGsn \in Nat
  BY DEF IInv, TypeOK
<1>2. CASE Yield
  <2>1. CASE Head(pending) = Other
    BY <1>2, <2>1 DEF Yield, LogStep
  <2>2. CASE Head(pending) # Other
    <3>1. Head(pending) \in Clients
      BY <1>2, <2>2, HeadTailProperties DEF Yield, IInv, TypeOK
    <3>2. log' = Append(log, NewEntry(startGsn, Head(pending)))
      BY <1>2, <2>2 DEF Yield
    <3>3. Appended(log, log', startGsn, Head(pending))
      BY <1>1, <3>1, <3>2, AppendEntry, Zenon
    <3>4. QED
      BY <3>1, <3>3 DEF LogStep
  <2>3. QED
    BY <2>1, <2>2
<1>3. ASSUME NEW c \in Clients, FinalizeStep(c) PROVE LogStep
  <2> DEFINE next == NextOf(log, c, cur[c])
  <2>1. log' = [log EXCEPT ![next].set = TRUE] /\ next # 0
    BY <1>3 DEF FinalizeStep
  <2>2. next \in DOMAIN log /\ ~log[next].set
    BY <2>1, NextEntry
  <2> HIDE DEF next
  <2>3. Released(log, log', next)
    BY <1>1, <2>1, <2>2, ReleaseEntry, Zenon
  <2>4. QED
    BY <2>2, <2>3 DEF LogStep
<1>4. ASSUME NEW c \in Clients, InsertClose(c) \/ InsertSet(c) PROVE LogStep
  <2>1. /\ log' = [log EXCEPT ![cur[c]].set = TRUE]
        /\ op[c].kind \in {"insert", "publish"}
    BY <1>4 DEF InsertClose, InsertSet
  <2>2. cur[c] \in DOMAIN log /\ ~log[cur[c]].set
    BY <2>1, BusyEntry
  <2>3. Released(log, log', cur[c])
    BY <1>1, <2>1, <2>2, ReleaseEntry, Zenon
  <2>4. QED
    BY <2>2, <2>3 DEF LogStep
<1>5. ASSUME NEW c \in Clients, InsertData(c) PROVE LogStep
  <2>1. log' = [log EXCEPT ![cur[c]].data = op[c].data] /\ op[c].kind = "insert"
    BY <1>5 DEF InsertData
  <2>2. cur[c] \in DOMAIN log /\ ~log[cur[c]].set
    BY <2>1, BusyEntry
  <2>3. op[c].data \in Payloads \cup {NoOp}
    BY DEF IInv, TypeOK, Ops
  <2>4. Stored(log, log', cur[c], op[c].data)
    BY <1>1, <2>1, <2>2, <2>3, StorePayload, Zenon
  <2>5. QED
    BY <2>2, <2>4 DEF LogStep
<1>6. CASE UNCHANGED log
  BY <1>6 DEF LogStep
<1>7. QED
  BY <1>2, <1>3, <1>4, <1>5, <1>6
     DEF Next, Control, ClientThread, SubscriberThread, StorageSlots, Publish,
         FinalizeBegin, FinalizeEnd, Freeze, InsertBegin, InsertAssertFails,
         LoadNumEntries, Seek, PollSet, Send

(* Released entries never change again and no entry is lost or renumbered. *)
THEOREM ReleasedStaysFinal == Spec => ReleasedIsFinal
<1> DEFINE Keeps == \A i \in DOMAIN log :
                      /\ i \in DOMAIN log'
                      /\ log'[i].gsn = log[i].gsn /\ log'[i].client = log[i].client
                      /\ log[i].set => log'[i] = log[i]
<1>1. IInv /\ [Next]_vars => Keeps
  <2> SUFFICES ASSUME IInv, [Next]_vars PROVE Keeps
    OBVIOUS
  <2>1. CASE LogStep
    <3>1. CASE UNCHANGED log
      BY <3>1
    <3>2. CASE \E k \in DOMAIN log : ~log[k].set /\ Released(log, log', k)
      BY <3>2, Zenon DEF Released
    <3>3. CASE \E k \in DOMAIN log : ~log[k].set /\ \E d : Stored(log, log', k, d)
      BY <3>3, Zenon DEF Stored
    <3>4. CASE \E c \in Clients : Appended(log, log', startGsn, c)
      <4>1. DOMAIN log \subseteq DOMAIN log'
        BY <3>4, EntryFields DEF Appended, IInv, TypeOK
      <4>2. QED
        BY <3>4, <4>1 DEF Appended
    <3>5. QED
      BY <2>1, <3>1, <3>2, <3>3, <3>4 DEF LogStep
  <2>2. CASE UNCHANGED vars
    BY <2>2 DEF vars
  <2>3. QED
    BY <2>1, <2>2, StepLog
<1>2. QED
  BY <1>1, Invariance, PTL DEF Spec, ReleasedIsFinal

-----------------------------------------------------------------------------
(* The threads implement the write-once log.                               *)

(* The abstract slots of a log.                                            *)
LEMMA SlotsType ==
  ASSUME NEW l \in Seq(Entry)
  PROVE  /\ SlotsOf(l) \in Seq(Abstract!Slot)
         /\ Len(SlotsOf(l)) = Len(l) /\ DOMAIN SlotsOf(l) = DOMAIN l
         /\ \A i \in DOMAIN l :
              /\ SlotsOf(l)[i].gsn = l[i].gsn
              /\ SlotsOf(l)[i].client = l[i].client
              /\ l[i].set => SlotsOf(l)[i].val = l[i].data
              /\ ~l[i].set => SlotsOf(l)[i].val = Other
<1>1. /\ Len(l) \in Nat /\ DOMAIN l = 1 .. Len(l)
      /\ \A i \in DOMAIN l :
           /\ l[i].gsn \in Nat /\ l[i].client \in Clients
           /\ l[i].data \in Payloads \cup {NoOp}
  BY EntryFields
<1>2. SlotsOf(l) \in [1 .. Len(l) -> Abstract!Slot]
  BY <1>1 DEF SlotsOf, Abstract!Slot
<1>3. SlotsOf(l) \in Seq(Abstract!Slot) /\ Len(SlotsOf(l)) = Len(l)
  BY <1>1, <1>2, LenProperties, SeqDef
<1>4. QED
  BY <1>3 DEF SlotsOf

(* Releasing an entry fills a slot, ...                                    *)
LEMMA SlotsReleased ==
  ASSUME NEW l \in Seq(Entry), NEW n, NEW k \in DOMAIN l, ~l[k].set, Released(l, n, k)
  PROVE  /\ l[k].data \in Payloads \cup {NoOp} /\ k \in 1 .. Len(SlotsOf(l))
         /\ SlotsOf(l)[k].val = Other
         /\ SlotsOf(n) = [SlotsOf(l) EXCEPT ![k].val = l[k].data]
<1>1. l[k].data \in Payloads \cup {NoOp} /\ k \in 1 .. Len(SlotsOf(l))
  BY EntryFields, SlotsType
<1>2. SlotsOf(l)[k].val = Other
  BY SlotsType
<1>3. SlotsOf(n) = [SlotsOf(l) EXCEPT ![k].val = l[k].data]
  BY DEF SlotsOf, Released
<1>4. QED
  BY <1>1, <1>2, <1>3

(* ... storing a payload changes nothing, as the entry is not yet set, ... *)
LEMMA SlotsStored ==
  ASSUME NEW l \in Seq(Entry), NEW n, NEW k \in DOMAIN l, NEW d, ~l[k].set,
         Stored(l, n, k, d)
  PROVE  SlotsOf(n) = SlotsOf(l)
<1>1. ~n[k].set
  BY Zenon DEF Stored
<1>2. QED
  BY <1>1 DEF SlotsOf, Stored

(* ... and an appended entry is a new empty slot.                          *)
LEMMA SlotsAppended ==
  ASSUME NEW l \in Seq(Entry), NEW n, NEW c \in Clients, NEW g \in Nat,
         Appended(l, n, g, c), \A i \in DOMAIN l : l[i].gsn < g
  PROVE  LET new == SlotsOf(n)[Len(SlotsOf(l)) + 1] IN
         /\ Len(SlotsOf(n)) = Len(SlotsOf(l)) + 1
         /\ SlotsOf(n) = Append(SlotsOf(l), new)
         /\ new \in Abstract!Slot /\ new.val = Other
         /\ \A i \in 1 .. Len(SlotsOf(l)) : SlotsOf(l)[i].gsn < new.gsn
<1> DEFINE m == Len(l)
           new == SlotsOf(n)[m + 1]
<1>1. /\ m \in Nat /\ DOMAIN l = 1 .. m /\ DOMAIN n = 1 .. m + 1
      /\ Len(SlotsOf(l)) = m /\ Len(SlotsOf(n)) = m + 1
      /\ SlotsOf(l) \in Seq(Abstract!Slot) /\ SlotsOf(n) \in Seq(Abstract!Slot)
  BY EntryFields, SlotsType DEF Appended
<1>2. \A i \in 1 .. m : SlotsOf(n)[i] = SlotsOf(l)[i]
  BY <1>1 DEF Appended, SlotsOf
<1>3. new \in Abstract!Slot
  BY <1>1, ElementOfSeq
<1>4. new.val = Other /\ new.gsn = g
  BY <1>1 DEF Appended, SlotsOf
<1>5. \A i \in 1 .. m : SlotsOf(l)[i].gsn < g
  BY <1>1, SlotsType
<1>6. SlotsOf(n) = Append(SlotsOf(l), new)
  BY <1>1, <1>2, <1>3, AppendProperties, SeqEqual
<1>7. QED
  BY <1>1, <1>3, <1>4, <1>5, <1>6

(* The empty log is the empty write-once log.                              *)
LEMMA InitRefines == Init => Abstract!Init
<1> SUFFICES ASSUME Init PROVE Abstract!Init
  OBVIOUS
<1>1. SlotsOf(log) = << >>
  BY DEF Init, SlotsOf
<1>2. AbstractCursor = [t \in Threads |-> t] /\ delivered = [t \in Threads |-> << >>]
  BY DEF Init, AbstractCursor
<1>3. QED
  BY <1>1, <1>2 DEF Abstract!Init, Abstract!Threads, Threads

(* A step that is not the subscribers' extends the log or fills a slot, or *)
(* is a stutter of the write-once log.                                     *)
LEMMA LogStepRefines ==
  ASSUME IInv, LogStep, UNCHANGED <<sub, delivered>>
  PROVE  [Abstract!Next]_(Abstract!vars)
<1>1. UNCHANGED AbstractCursor /\ UNCHANGED delivered
  BY DEF AbstractCursor
<1>2. log \in Seq(Entry) /\ startGsn \in Nat /\ \A i \in DOMAIN log : log[i].gsn < startGsn
  BY DEF IInv, TypeOK, GsnOK
<1>3. CASE UNCHANGED log
  BY <1>1, <1>3 DEF Abstract!vars
<1>4. ASSUME NEW k \in DOMAIN log, ~log[k].set, Released(log, log', k)
      PROVE  Abstract!Fill
  <2>1. /\ log[k].data \in Payloads \cup {NoOp} /\ k \in 1 .. Len(SlotsOf(log))
        /\ SlotsOf(log)[k].val = Other
        /\ SlotsOf(log') = [SlotsOf(log) EXCEPT ![k].val = log[k].data]
    BY <1>2, <1>4, SlotsReleased
  <2>2. QED
    BY <1>1, <2>1 DEF Abstract!Fill
<1>5. ASSUME NEW k \in DOMAIN log, NEW d, ~log[k].set, Stored(log, log', k, d)
      PROVE  UNCHANGED Abstract!vars
  BY <1>1, <1>2, <1>5, SlotsStored DEF Abstract!vars
<1>6. ASSUME NEW c \in Clients, Appended(log, log', startGsn, c)
      PROVE  Abstract!Grow
  BY <1>1, <1>2, <1>6, SlotsAppended DEF Abstract!Grow
<1>7. QED
  BY <1>3, <1>4, <1>5, <1>6 DEF LogStep, Abstract!Next

(* A step of a subscriber thread delivers a slot or stutters.              *)
LEMMA SubscriberRefines ==
  ASSUME IInv, NEW t \in Threads, SubscriberThread(t)
  PROVE  [Abstract!Next]_(Abstract!vars)
<1>1. /\ sub \in [Threads -> [pc : {"seek", "wait", "send"}, index : Nat,
                              cached : Nat, at : Nat]]
      /\ NumThreads \in Nat
  BY NumThreadsPositive DEF IInv, TypeOK
<1>2. CASE LoadNumEntries(t)
  <2>1. UNCHANGED AbstractCursor
    BY <1>1, <1>2 DEF LoadNumEntries, AbstractCursor
  <2>2. QED
    BY <1>2, <2>1 DEF LoadNumEntries, Abstract!vars
<1>3. CASE Seek(t)
  <2>1. UNCHANGED AbstractCursor
    BY <1>1, <1>3 DEF Seek, AbstractCursor
  <2>2. QED
    BY <1>3, <2>1 DEF Seek, Abstract!vars
<1>4. CASE PollSet(t)
  <2>1. UNCHANGED AbstractCursor
    BY <1>1, <1>4 DEF PollSet, AbstractCursor
  <2>2. QED
    BY <1>4, <2>1 DEF PollSet, Abstract!vars
<1>5. CASE Send(t)
  <2> DEFINE at == sub[t].at
             slot == [gsn |-> log[at].gsn, client |-> log[at].client,
                      val |-> log[at].data]
  <2>1. /\ log \in Seq(Entry) /\ numEntries \in Nat /\ numEntries <= Len(log)
        /\ at \in 1 .. numEntries /\ at + NumThreads = sub[t].index + 1
    BY <1>5 DEF Send, IInv, TypeOK, IterOK
  <2>2. at \in DOMAIN log /\ log[at].data \in Payloads \cup {NoOp}
    BY <2>1, EntryFields
  <2>3. log[at].set
    BY <1>5 DEF Send, IInv, IterOK
  <2>4. SlotsOf(log)[at] = slot
    BY <2>2, <2>3 DEF SlotsOf
  <2>5. slot.val # Other
    BY <2>2, OtherIsFresh
  <2>6. AbstractCursor[t] = at - 1 /\ AbstractCursor[t] < Len(SlotsOf(log))
    BY <1>1, <1>5, <2>1, SlotsType DEF Send, AbstractCursor
  <2>7. AbstractCursor' = [AbstractCursor EXCEPT ![t] = @ + NumThreads]
    <3>1. \A u \in Threads : /\ u # t => sub'[u] = sub[u]
                             /\ u = t => sub'[u].pc = "seek" /\ sub'[u].index = sub[u].index
      BY <1>1, <1>5 DEF Send
    <3>2. sub[t].pc = "send" /\ sub[t].index \in Nat
      BY <1>1, <1>5 DEF Send
    <3>3. /\ AbstractCursor[t] = sub[t].index - NumThreads
          /\ AbstractCursor'[t] = sub[t].index
      BY <3>1, <3>2 DEF AbstractCursor
    <3>4. AbstractCursor'[t] = AbstractCursor[t] + NumThreads
      BY <1>1, <3>2, <3>3
    <3>5. \A u \in Threads : u # t => AbstractCursor'[u] = AbstractCursor[u]
      BY <3>1 DEF AbstractCursor
    <3>6. /\ AbstractCursor = [u \in Threads |-> AbstractCursor[u]]
          /\ AbstractCursor' = [u \in Threads |-> AbstractCursor'[u]]
      BY DEF AbstractCursor
    <3>7. QED
      BY <3>4, <3>5, <3>6
  <2>8. delivered' = [delivered EXCEPT ![t] = Append(@, slot)] /\ UNCHANGED log
    BY <1>5 DEF Send
  <2>9. AbstractCursor[t] + 1 = at
    BY <2>1, <2>6
  <2> HIDE DEF at, slot
  <2>10. Abstract!Deliver(t)
    BY <2>4, <2>5, <2>6, <2>7, <2>8, <2>9 DEF Abstract!Deliver
  <2>11. QED
    BY <2>10 DEF Abstract!Next, Abstract!Threads, Threads
<1>6. QED
  BY <1>2, <1>3, <1>4, <1>5 DEF SubscriberThread

(* What subscribers are sent by the threads of the storage server is what  *)
(* the write-once log delivers.                                            *)
THEOREM Refinement == Spec => ImplementsWriteOnceLog
<1>1. IInv /\ [Next]_vars => [Abstract!Next]_(Abstract!vars)
  <2> SUFFICES ASSUME IInv, [Next]_vars PROVE [Abstract!Next]_(Abstract!vars)
    OBVIOUS
  <2>1. ASSUME NEW t \in Threads, SubscriberThread(t)
        PROVE  [Abstract!Next]_(Abstract!vars)
    BY <2>1, SubscriberRefines
  <2>2. CASE Next /\ UNCHANGED <<sub, delivered>>
    BY <2>2, StepLog, LogStepRefines
  <2>3. CASE UNCHANGED vars
    BY <2>3 DEF vars, Abstract!vars, AbstractCursor
  <2>4. Control \/ (\E c \in Clients : ClientThread(c)) => UNCHANGED <<sub, delivered>>
    BY DEF Control, ClientThread, StorageSlots, Yield, Publish,
         FinalizeBegin, FinalizeStep, FinalizeEnd, Freeze, InsertBegin, InsertClose,
         InsertData, InsertSet, InsertAssertFails
  <2>5. QED
    BY <2>1, <2>2, <2>3, <2>4 DEF Next
<1>2. QED
  BY <1>1, InitRefines, Invariance, PTL DEF Spec, ImplementsWriteOnceLog, Abstract!Spec
=============================================================================
