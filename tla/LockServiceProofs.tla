-------------------------- MODULE LockServiceProofs -------------------------
(***************************************************************************)
(* Proofs about LockService, for any processes, keys and assignment of     *)
(* keys to workers, any number of requests, and whether or not the flags   *)
(* of acquire and of release share an address.                             *)
(*                                                                         *)
(* The argument: lock_queue_ is a function of the log alone.  The queues   *)
(* after each entry of the log, past and still undelivered, are a history  *)
(* h of which every process sees one element, h[pos[p]].  Whether a worker *)
(* is where it is allowed to be is then a statement about the part of the  *)
(* history from its own position to the end of the log.                    *)
(***************************************************************************)
EXTENDS LockService, SequenceTheorems, TLAPS

Queues == [Keys -> Seq(LockRequest)]

(* Client p has a request in the queue of its key, and the first one.      *)
In(qs, p) == \E i \in 1 .. Len(qs[KeyOf[p]]) : qs[KeyOf[p]][i].client = p
First(qs, p) == qs[KeyOf[p]] # << >> /\ qs[KeyOf[p]][1].client = p

(* A client is in the queue of its own key only, and at most once.         *)
Fit(qs) ==
  \A k \in Keys : \A i \in 1 .. Len(qs[k]) :
    /\ KeyOf[qs[k][i].client] = k
    /\ \A j \in 1 .. Len(qs[k]) : qs[k][i].client = qs[k][j].client => i = j

(* A request that meets the assertions of callback, and a lock request     *)
(* whose client does not wait already.                                     *)
Valid(qs, r) ==
  /\ r.key = KeyOf[r.client]
  /\ r.action = "lock" => ~In(qs, r.client)
  /\ r.action = "unlock" => First(qs, r.client)

(* What callback does to the queues.                                       *)
Apply(qs, r) ==
  [qs EXCEPT ![r.key] = IF r.action = "lock" THEN Append(@, r) ELSE Tail(@)]

(* h is the history of the queues along log l.                             *)
History(h, l) ==
  /\ h \in [Nat -> Queues]
  /\ h[0] = [k \in Keys |-> << >>]
  /\ \A m \in 0 .. Len(l) : Fit(h[m])
  /\ \A n \in 1 .. Len(l) : Valid(h[n - 1], l[n]) /\ h[n] = Apply(h[n - 1], l[n])
  /\ \A p \in Procs : \A m \in 0 .. Len(l) : \A n \in m .. Len(l) :
       /\ First(h[m], p)
       /\ \A j \in m + 1 .. n : l[j].client # p
       => First(h[n], p)

-----------------------------------------------------------------------------
(* From p's position to the end of the log: no request of p, p in no       *)
(* queue, p first all along.                                               *)
NoOwn(l, p) == \A j \in pos[p] + 1 .. Len(l) : l[j].client # p
Out(h, l, p) == \A m \in pos[p] .. Len(l) : ~In(h[m], p)
Holds(h, l, p) == \A m \in pos[p] .. Len(l) : First(h[m], p)

OwnRequest(p, a) == [action |-> a, client |-> p, key |-> KeyOf[p], done |-> Address(a)]

(* Where worker p may be, given its program counter.                       *)
WhenIdle(h, p) == pending[p] = None /\ NoOwn(log, p) /\ Out(h, log, p)

WhenHeld(h, p) == pending[p] = None /\ NoOwn(log, p) /\ Holds(h, log, p)

WhenAcquiring(h, p) ==
  /\ pending[p] # None =>
       /\ pending[p] = OwnRequest(p, "lock")
       /\ NoOwn(log, p) /\ Out(h, log, p)
       /\ ~done[p][Address("lock")]
  /\ pending[p] = None =>
       /\ \A j \in pos[p] + 1 .. Len(log) : log[j].client = p =>
            /\ log[j].action = "lock"
            /\ \A m \in pos[p] .. j - 1 : ~In(h[m], p)
       /\ done[p][Address("lock")] => NoOwn(log, p) /\ Holds(h, log, p)

WhenReleasing(h, p) ==
  /\ pending[p] # None =>
       /\ pending[p] = OwnRequest(p, "unlock")
       /\ NoOwn(log, p) /\ Holds(h, log, p)
       /\ ~done[p][Address("unlock")]
  /\ pending[p] = None =>
       /\ \A j \in pos[p] + 1 .. Len(log) : log[j].client = p =>
            /\ log[j].action = "unlock"
            /\ \A m \in pos[p] .. j - 1 : First(h[m], p)
            /\ \A m \in j .. Len(log) : ~In(h[m], p)
       /\ NoOwn(log, p) => Out(h, log, p)
       /\ done[p][Address("unlock")] => NoOwn(log, p)

Worked(h, p) ==
  /\ pc[p] = "idle" => WhenIdle(h, p)
  /\ pc[p] = "acquiring" => WhenAcquiring(h, p)
  /\ pc[p] = "held" => WhenHeld(h, p)
  /\ pc[p] = "releasing" => WhenReleasing(h, p)

Inv(h) ==
  /\ History(h, log)
  /\ \A p \in Procs : queue[p] = h[pos[p]] /\ Worked(h, p)
  /\ aborted = {}

IInv == TypeOK /\ \E h \in [Nat -> Queues] : Inv(h)

-----------------------------------------------------------------------------
(* The first in the queue is in the queue.                                 *)
LEMMA FirstIsIn ==
  ASSUME NEW qs \in Queues, NEW p \in Procs, First(qs, p)
  PROVE  In(qs, p)
<1>1. qs[KeyOf[p]] \in Seq(LockRequest)
  BY KeyOfAssumption DEF Queues
<1>2. Len(qs[KeyOf[p]]) \in Nat /\ Len(qs[KeyOf[p]]) # 0
  BY <1>1, EmptySeq, LenProperties DEF First
<1>3. 1 \in 1 .. Len(qs[KeyOf[p]])
  BY <1>2
<1>4. QED
  BY <1>3 DEF In, First

(* What a valid request does to the queues: they stay well formed, its     *)
(* client enters or leaves, and nobody else does.                          *)
LEMMA ApplyValid ==
  ASSUME NEW qs \in Queues, NEW r \in LockRequest, Fit(qs), Valid(qs, r)
  PROVE  /\ Apply(qs, r) \in Queues
         /\ Fit(Apply(qs, r))
         /\ \A p \in Procs : p # r.client =>
              /\ In(Apply(qs, r), p) <=> In(qs, p)
              /\ First(qs, p) => First(Apply(qs, r), p)
         /\ r.action = "lock" => In(Apply(qs, r), r.client)
         /\ r.action = "unlock" => ~In(Apply(qs, r), r.client)
<1> DEFINE k == r.key
           q == qs[k]
           t == Apply(qs, r)
<1>1. k \in Keys /\ r.client \in Procs /\ KeyOf[r.client] = k /\ r.action \in Actions
  BY DEF LockRequest, Valid
<1>2. q \in Seq(LockRequest) /\ Len(q) \in Nat
  BY <1>1, LenProperties DEF Queues
<1>3. \A p \in Procs : KeyOf[p] \in Keys
  BY KeyOfAssumption
<1>4. \A e \in Keys : e # k => t[e] = qs[e]
  BY DEF Apply, Queues
<1>5. CASE r.action = "lock"
  <2>1. t[k] = Append(q, r) /\ t \in Queues
    <3>1. t = [qs EXCEPT ![k] = Append(q, r)]
      BY <1>5 DEF Apply
    <3>2. Append(q, r) \in Seq(LockRequest)
      BY <1>2, AppendProperties
    <3>3. QED
      BY <1>1, <3>1, <3>2 DEF Queues
  <2>2. /\ Len(t[k]) = Len(q) + 1
        /\ \A i \in 1 .. Len(q) : t[k][i] = q[i]
        /\ t[k][Len(q) + 1] = r
    BY <1>2, <2>1, AppendProperties
  <2>3. \A i \in 1 .. Len(q) : q[i].client # r.client
    BY <1>1, <1>5 DEF Valid, In
  <2> HIDE DEF t
  <2>4. Fit(t)
    <3> SUFFICES ASSUME NEW e \in Keys, NEW i \in 1 .. Len(t[e]), NEW j \in 1 .. Len(t[e])
                 PROVE  /\ KeyOf[t[e][i].client] = e
                        /\ t[e][i].client = t[e][j].client => i = j
      BY DEF Fit
    <3>1. CASE e # k
      BY <1>4, <3>1 DEF Fit
    <3>2. CASE e = k
      <4>1. \A n \in 1 .. Len(q) : KeyOf[q[n].client] = k
        BY <1>1 DEF Fit
      <4>2. \A n, m \in 1 .. Len(q) : q[n].client = q[m].client => n = m
        BY <1>1 DEF Fit
      <4>3. i \in 1 .. Len(q) \/ i = Len(q) + 1
        BY <1>2, <2>2, <3>2
      <4>4. j \in 1 .. Len(q) \/ j = Len(q) + 1
        BY <1>2, <2>2, <3>2
      <4> HIDE DEF k, q
      <4>5. QED
        BY <1>1, <2>2, <2>3, <3>2, <4>1, <4>2, <4>3, <4>4
    <3>3. QED
      BY <3>1, <3>2
  <2>5. ASSUME NEW p \in Procs, p # r.client
        PROVE  /\ In(t, p) <=> In(qs, p)
               /\ First(qs, p) => First(t, p)
    <3>1. CASE KeyOf[p] # k
      BY <1>3, <1>4, <3>1 DEF In, First
    <3>2. CASE KeyOf[p] = k
      <4>1. In(t, p) <=> In(qs, p)
        BY <1>2, <2>2, <2>5, <3>2, SMTT(30) DEF In
      <4>2. ASSUME First(qs, p) PROVE First(t, p)
        <5>1. Len(q) # 0 /\ q[1].client = p
          BY <1>2, <3>2, <4>2, EmptySeq DEF First
        <5>2. t[k][1].client = p
          BY <1>2, <2>2, <5>1
        <5>3. t[k] # << >>
          BY <1>2, <2>2
        <5>4. QED
          BY <3>2, <5>2, <5>3 DEF First
      <4>3. QED
        BY <4>1, <4>2
    <3>3. QED
      BY <3>1, <3>2
  <2>6. In(t, r.client)
    BY <1>1, <1>2, <2>2 DEF In
  <2>7. QED
    BY <1>5, <2>1, <2>4, <2>5, <2>6 DEF t
<1>6. CASE r.action = "unlock"
  <2>1. q # << >> /\ q[1].client = r.client
    BY <1>1, <1>6 DEF Valid, First
  <2>2. t[k] = Tail(q) /\ t \in Queues
    <3>1. t = [qs EXCEPT ![k] = Tail(q)]
      BY <1>6 DEF Apply
    <3>2. Tail(q) \in Seq(LockRequest)
      BY <1>2, <2>1, HeadTailProperties
    <3>3. QED
      BY <1>1, <3>1, <3>2 DEF Queues
  <2>3. /\ Len(t[k]) = Len(q) - 1 /\ Len(q) >= 1
        /\ \A i \in 1 .. Len(q) - 1 : t[k][i] = q[i + 1]
    <3>1. Len(Tail(q)) = Len(q) - 1 /\ \A i \in 1 .. Len(Tail(q)) : Tail(q)[i] = q[i + 1]
      BY <1>2, <2>1, HeadTailProperties
    <3>2. Len(q) # 0
      BY <1>2, <2>1, EmptySeq
    <3>3. QED
      BY <1>2, <2>2, <3>1, <3>2
  <2>4. \A n, m \in 1 .. Len(q) : q[n].client = q[m].client => n = m
    BY <1>1 DEF Fit
  <2>5. \A n \in 1 .. Len(q) : KeyOf[q[n].client] = k
    BY <1>1 DEF Fit
  <2> HIDE DEF t
  <2>6. Fit(t)
    <3> SUFFICES ASSUME NEW e \in Keys, NEW i \in 1 .. Len(t[e]), NEW j \in 1 .. Len(t[e])
                 PROVE  /\ KeyOf[t[e][i].client] = e
                        /\ t[e][i].client = t[e][j].client => i = j
      BY DEF Fit
    <3>1. CASE e # k
      BY <1>4, <3>1 DEF Fit
    <3>2. CASE e = k
      <4>1. i + 1 \in 1 .. Len(q) /\ j + 1 \in 1 .. Len(q)
        BY <1>2, <2>3, <3>2
      <4>2. t[k][i] = q[i + 1] /\ t[k][j] = q[j + 1]
        BY <1>2, <2>3, <3>2
      <4> HIDE DEF k, q
      <4>3. QED
        BY <2>4, <2>5, <3>2, <4>1, <4>2
    <3>3. QED
      BY <3>1, <3>2
  <2>7. ASSUME NEW p \in Procs, p # r.client
        PROVE  /\ In(t, p) <=> In(qs, p)
               /\ First(qs, p) => First(t, p)
    <3>1. CASE KeyOf[p] # k
      BY <1>3, <1>4, <3>1 DEF In, First
    <3>2. CASE KeyOf[p] = k
      <4>1. In(qs, p) => In(t, p)
        <5> SUFFICES ASSUME NEW i \in 1 .. Len(q), q[i].client = p
                     PROVE  In(t, p)
          BY <3>2 DEF In
        <5>1. i # 1
          BY <2>1, <2>7
        <5>2. i - 1 \in 1 .. Len(t[k]) /\ t[k][i - 1] = q[i]
          BY <1>2, <2>3, <5>1
        <5>3. QED
          BY <3>2, <5>2 DEF In
      <4>2. In(t, p) => In(qs, p)
        BY <1>2, <2>3, <3>2, SMTT(30) DEF In
      <4>3. ~First(qs, p)
        BY <2>1, <2>7, <3>2 DEF First
      <4>4. QED
        BY <4>1, <4>2, <4>3
    <3>3. QED
      BY <3>1, <3>2
  <2>8. ~In(t, r.client)
    <3> SUFFICES ASSUME NEW i \in 1 .. Len(t[k]), t[k][i].client = r.client
                 PROVE  FALSE
      BY <1>1 DEF In
    <3>1. i + 1 \in 1 .. Len(q) /\ q[i + 1].client = r.client /\ 1 \in 1 .. Len(q)
      BY <1>2, <2>3
    <3>2. QED
      BY <2>1, <2>4, <3>1
  <2>9. QED
    BY <1>6, <2>2, <2>6, <2>7, <2>8 DEF t
<1>7. QED
  BY <1>1, <1>5, <1>6 DEF Actions

-----------------------------------------------------------------------------
(* A valid request at the end of the log extends the history.              *)
LEMMA ExtendHistory ==
  ASSUME NEW l \in Seq(LockRequest), NEW h \in [Nat -> Queues], History(h, l),
         NEW r \in LockRequest, Valid(h[Len(l)], r)
  PROVE  \E h2 \in [Nat -> Queues] :
         /\ \A m \in 0 .. Len(l) : h2[m] = h[m]
         /\ h2[Len(l) + 1] = Apply(h[Len(l)], r)
         /\ History(h2, Append(l, r))
<1> DEFINE L == Len(l)
           l2 == Append(l, r)
           h2 == [h EXCEPT ![L + 1] = Apply(h[L], r)]
<1>1. L \in Nat
  BY LenProperties
<1>2. Len(l2) = L + 1 /\ l2[L + 1] = r /\ \A n \in 1 .. L : l2[n] = l[n]
  BY AppendProperties
<1>3. h[L] \in Queues /\ Fit(h[L])
  BY <1>1 DEF History
<1>4. /\ Apply(h[L], r) \in Queues /\ Fit(Apply(h[L], r))
      /\ \A p \in Procs : p # r.client => (First(h[L], p) => First(Apply(h[L], r), p))
  BY <1>3, ApplyValid
<1>5. h2 \in [Nat -> Queues] /\ h2[L + 1] = Apply(h[L], r) /\ \A m \in 0 .. L : h2[m] = h[m]
  BY <1>1, <1>4
<1> HIDE DEF h2, l2, L
<1>6. h2[0] = [k \in Keys |-> << >>]
  BY <1>1, <1>5 DEF History
<1>7. \A m \in 0 .. L + 1 : Fit(h2[m])
  <2> SUFFICES ASSUME NEW m \in 0 .. L + 1 PROVE Fit(h2[m])
    OBVIOUS
  <2>1. CASE m = L + 1
    BY <1>4, <1>5, <2>1
  <2>2. CASE m \in 0 .. L
    BY <1>5, <2>2 DEF History, L
  <2>3. QED
    BY <1>1, <2>1, <2>2
<1>8. ASSUME NEW n \in 1 .. L + 1
      PROVE  Valid(h2[n - 1], l2[n]) /\ h2[n] = Apply(h2[n - 1], l2[n])
  <2>1. CASE n = L + 1
    <3>1. n - 1 = L /\ h2[n - 1] = h[L] /\ l2[n] = r
      BY <1>1, <1>2, <1>5, <2>1
    <3>2. QED
      BY <1>5, <2>1, <3>1 DEF L
  <2>2. CASE n \in 1 .. L
    <3>1. h2[n - 1] = h[n - 1] /\ h2[n] = h[n] /\ l2[n] = l[n]
      BY <1>1, <1>2, <1>5, <2>2
    <3>2. QED
      BY <2>2, <3>1 DEF History, L
  <2>3. QED
    BY <1>1, <2>1, <2>2
<1>9. ASSUME NEW p \in Procs, NEW m \in 0 .. L + 1, NEW n \in m .. L + 1,
             First(h2[m], p), \A j \in m + 1 .. n : l2[j].client # p
      PROVE  First(h2[n], p)
  <2>1. CASE m = L + 1
    BY <1>1, <1>9, <2>1
  <2>2. CASE m \in 0 .. L /\ n \in m .. L
    <3>1. \A j \in m + 1 .. n : l[j].client # p
      BY <1>1, <1>2, <1>9, <2>2
    <3>2. First(h[m], p)
      BY <1>5, <1>9, <2>2
    <3>3. First(h[n], p)
      BY <2>2, <3>1, <3>2 DEF History, L
    <3>4. QED
      BY <1>1, <1>5, <2>2, <3>3
  <2>3. CASE m \in 0 .. L /\ n = L + 1
    <3>1. \A j \in m + 1 .. L : l[j].client # p
      BY <1>1, <1>2, <1>9, <2>3
    <3>2. First(h[m], p) /\ L \in m .. L
      BY <1>1, <1>5, <1>9, <2>3
    <3>3. First(h[L], p)
      BY <2>3, <3>1, <3>2 DEF History, L
    <3>4. r.client # p
      BY <1>1, <1>2, <1>9, <2>3
    <3>5. QED
      BY <1>4, <1>5, <2>3, <3>3, <3>4
  <2>4. QED
    BY <1>1, <2>1, <2>2, <2>3
<1>10. History(h2, l2)
  BY <1>2, <1>5, <1>6, <1>7, <1>8, <1>9 DEF History
<1>11. QED
  BY <1>5, <1>10 DEF l2, L

-----------------------------------------------------------------------------
(* Initially all queues are empty and no worker has a request.             *)
LEMMA InitIInv == Init => IInv
<1> SUFFICES ASSUME Init PROVE IInv
  OBVIOUS
<1>1. TypeOK
  BY MaxOpsAssumption, KeyOfAssumption DEF Init, TypeOK
<1> DEFINE h == [n \in Nat |-> [k \in Keys |-> << >>]]
<1>2. h \in [Nat -> Queues]
  BY DEF Queues
<1>3. \A n \in Nat : h[n] = [k \in Keys |-> << >>]
  OBVIOUS
<1>4. Len(log) = 0 /\ \A p \in Procs : pos[p] = 0 /\ pc[p] = "idle" /\ pending[p] = None
  BY DEF Init
<1> HIDE DEF h
<1>5. \A n \in Nat : Fit(h[n]) /\ \A p \in Procs : ~First(h[n], p) /\ ~In(h[n], p)
  BY <1>3, KeyOfAssumption DEF Fit, First, In
<1>6. History(h, log)
  BY <1>2, <1>3, <1>4, <1>5 DEF History
<1>7. \A p \in Procs : WhenIdle(h, p)
  BY <1>4, <1>5 DEF WhenIdle, NoOwn, Out
<1>8. \A p \in Procs : queue[p] = h[pos[p]]
  BY <1>3, <1>4 DEF Init
<1>9. Inv(h)
  BY <1>4, <1>6, <1>7, <1>8 DEF Inv, Worked, Init
<1>10. QED
  BY <1>1, <1>2, <1>9 DEF IInv

(* The addresses of the flags, and a request of one's own.                 *)
LEMMA OwnRequestType ==
  ASSUME NEW p \in Procs, NEW a \in Actions
  PROVE  /\ Address(a) \in Addresses
         /\ OwnRequest(p, a) \in LockRequest
         /\ OwnRequest(p, a) # None
         /\ OwnRequest(p, a).client = p /\ OwnRequest(p, a).action = a
         /\ OwnRequest(p, a).key = KeyOf[p]
<1>1. Address(a) \in Addresses
  BY DEF Addresses
<1>2. OwnRequest(p, a) \in LockRequest
  BY <1>1, KeyOfAssumption DEF OwnRequest, LockRequest
<1>3. QED
  BY <1>1, <1>2, NoneAssumption DEF OwnRequest

(* What request does, up to the wait.                                      *)
LEMMA RequestStep ==
  ASSUME TypeOK, NEW p \in Procs, NEW a \in Actions, Request(p, a)
  PROVE  /\ pending' \in [Procs -> LockRequest \cup {None}]
         /\ pending'[p] = OwnRequest(p, a)
         /\ done' \in [Procs -> [Addresses -> BOOLEAN]]
         /\ ~done'[p][Address(a)]
         /\ \A q \in Procs : q # p => pending'[q] = pending[q] /\ done'[q] = done[q]
         /\ ops' \in [Procs -> 0 .. MaxOps]
<1>1. Address(a) \in Addresses /\ OwnRequest(p, a) \in LockRequest
  BY OwnRequestType
<1>2. pending' = [pending EXCEPT ![p] = OwnRequest(p, a)]
  BY DEF Request, OwnRequest
<1>3. done' = [done EXCEPT ![p] = [done[p] EXCEPT ![Address(a)] = FALSE]]
  BY DEF Request
<1>4. done[p] \in [Addresses -> BOOLEAN]
  BY DEF TypeOK
<1>5. [done[p] EXCEPT ![Address(a)] = FALSE] \in [Addresses -> BOOLEAN]
  BY <1>1, <1>4
<1>6. done' \in [Procs -> [Addresses -> BOOLEAN]]
  BY <1>3, <1>5, Zenon DEF TypeOK
<1>7. done'[p] = [done[p] EXCEPT ![Address(a)] = FALSE]
  BY <1>3, Zenon DEF TypeOK
<1>8. ~done'[p][Address(a)]
  BY <1>1, <1>4, <1>7
<1>9. \A q \in Procs : q # p => done'[q] = done[q]
  BY <1>3, Zenon DEF TypeOK
<1>10. ops' \in [Procs -> 0 .. MaxOps]
  BY MaxOpsAssumption DEF Request, TypeOK
<1>11. QED
  BY <1>1, <1>2, <1>6, <1>8, <1>9, <1>10 DEF TypeOK

(* A worker whose own state a step leaves alone is where it was, as long   *)
(* as the log and its position are.                                        *)
LEMMA WorkedUnchanged ==
  ASSUME NEW h, NEW p \in Procs, Worked(h, p),
         pc'[p] = pc[p], pending'[p] = pending[p], done'[p] = done[p],
         pos'[p] = pos[p], log' = log
  PROVE  Worked(h, p)'
BY DEF Worked, WhenIdle, WhenHeld, WhenAcquiring, WhenReleasing, NoOwn, Out, Holds

(* acquire, up to the wait.                                                *)
LEMMA AcquireStep ==
  ASSUME IInv, NEW p \in Procs, Acquire(p)
  PROVE  IInv'
<1>1. TypeOK /\ Request(p, "lock") /\ pc[p] = "idle" /\ pc' = [pc EXCEPT ![p] = "acquiring"]
  BY DEF IInv, Acquire
<1>2. /\ pending' \in [Procs -> LockRequest \cup {None}]
      /\ pending'[p] = OwnRequest(p, "lock")
      /\ done' \in [Procs -> [Addresses -> BOOLEAN]]
      /\ ~done'[p][Address("lock")]
      /\ \A q \in Procs : q # p => pending'[q] = pending[q] /\ done'[q] = done[q]
      /\ ops' \in [Procs -> 0 .. MaxOps]
  BY <1>1, RequestStep DEF Actions
<1>3. log' = log /\ pos' = pos /\ queue' = queue /\ aborted' = aborted
  BY <1>1 DEF Request
<1>4. TypeOK'
  BY <1>1, <1>2, <1>3 DEF TypeOK
<1>5. PICK h \in [Nat -> Queues] : Inv(h)
  BY DEF IInv
<1>6. ASSUME NEW q \in Procs PROVE Worked(h, q)'
  <2>1. CASE q = p
    <3>1. pc'[p] = "acquiring"
      BY <1>1 DEF TypeOK
    <3>2. NoOwn(log, p) /\ Out(h, log, p)
      BY <1>1, <1>5 DEF Inv, Worked, WhenIdle
    <3>3. OwnRequest(p, "lock") # None
      BY OwnRequestType DEF Actions
    <3>4. WhenAcquiring(h, p)'
      BY <1>2, <1>3, <3>2, <3>3 DEF WhenAcquiring, NoOwn, Out, OwnRequest, Address
    <3>5. QED
      BY <2>1, <3>1, <3>4 DEF Worked
  <2>2. CASE q # p
    <3>1. pc'[q] = pc[q]
      BY <1>1, <2>2 DEF TypeOK
    <3>2. QED
      BY <1>2, <1>3, <1>5, <2>2, <3>1, WorkedUnchanged DEF Inv
  <2>3. QED
    BY <2>1, <2>2
<1>7. Inv(h)'
  BY <1>3, <1>5, <1>6 DEF Inv
<1>8. QED
  BY <1>4, <1>7 DEF IInv

(* release, up to the wait.                                                *)
LEMMA ReleaseStep ==
  ASSUME IInv, NEW p \in Procs, Release(p)
  PROVE  IInv'
<1>1. TypeOK /\ Request(p, "unlock") /\ pc[p] = "held" /\ pc' = [pc EXCEPT ![p] = "releasing"]
  BY DEF IInv, Release
<1>2. /\ pending' \in [Procs -> LockRequest \cup {None}]
      /\ pending'[p] = OwnRequest(p, "unlock")
      /\ done' \in [Procs -> [Addresses -> BOOLEAN]]
      /\ ~done'[p][Address("unlock")]
      /\ \A q \in Procs : q # p => pending'[q] = pending[q] /\ done'[q] = done[q]
      /\ ops' \in [Procs -> 0 .. MaxOps]
  BY <1>1, RequestStep DEF Actions
<1>3. log' = log /\ pos' = pos /\ queue' = queue /\ aborted' = aborted
  BY <1>1 DEF Request
<1>4. TypeOK'
  BY <1>1, <1>2, <1>3 DEF TypeOK
<1>5. PICK h \in [Nat -> Queues] : Inv(h)
  BY DEF IInv
<1>6. ASSUME NEW q \in Procs PROVE Worked(h, q)'
  <2>1. CASE q = p
    <3>1. pc'[p] = "releasing"
      BY <1>1 DEF TypeOK
    <3>2. NoOwn(log, p) /\ Holds(h, log, p)
      BY <1>1, <1>5 DEF Inv, Worked, WhenHeld
    <3>3. OwnRequest(p, "unlock") # None
      BY OwnRequestType DEF Actions
    <3>4. WhenReleasing(h, p)'
      BY <1>2, <1>3, <3>2, <3>3 DEF WhenReleasing, NoOwn, Holds, OwnRequest, Address
    <3>5. QED
      BY <2>1, <3>1, <3>4 DEF Worked
  <2>2. CASE q # p
    <3>1. pc'[q] = pc[q]
      BY <1>1, <2>2 DEF TypeOK
    <3>2. QED
      BY <1>2, <1>3, <1>5, <2>2, <3>1, WorkedUnchanged DEF Inv
  <2>3. QED
    BY <2>1, <2>2
<1>7. Inv(h)'
  BY <1>3, <1>5, <1>6 DEF Inv
<1>8. QED
  BY <1>4, <1>7 DEF IInv

(* The wait ends only when the flag says so: after a lock request the      *)
(* worker is first in every queue to come, after an unlock in none.        *)
LEMMA ReturnStep ==
  ASSUME IInv, NEW p \in Procs, Return(p)
  PROVE  IInv'
<1>1. TypeOK
  BY DEF IInv
<1>2. /\ done' = done /\ pending' = pending /\ log' = log /\ pos' = pos
      /\ queue' = queue /\ aborted' = aborted /\ ops' = ops
  BY DEF Return
<1>3. TypeOK'
  BY <1>1, <1>2 DEF Return, TypeOK
<1>4. PICK h \in [Nat -> Queues] : Inv(h)
  BY DEF IInv
<1>5. ASSUME NEW q \in Procs PROVE Worked(h, q)'
  <2>1. CASE q = p /\ pc[p] = "acquiring"
    <3>1. pc'[p] = "held" /\ done[p][Address("lock")]
      BY <1>1, <2>1 DEF Return, TypeOK
    <3>2. WhenHeld(h, p)
      BY <1>4, <2>1, <3>1 DEF Inv, Worked, WhenAcquiring, WhenHeld
    <3>3. QED
      BY <1>2, <2>1, <3>1, <3>2 DEF Worked, WhenHeld, NoOwn, Holds
  <2>2. CASE q = p /\ pc[p] # "acquiring"
    <3>1. pc[p] = "releasing" /\ pc'[p] = "idle" /\ done[p][Address("unlock")]
      BY <1>1, <2>2 DEF Return, TypeOK
    <3>2. WhenIdle(h, p)
      BY <1>4, <3>1 DEF Inv, Worked, WhenReleasing, WhenIdle
    <3>3. QED
      BY <1>2, <2>2, <3>1, <3>2 DEF Worked, WhenIdle, NoOwn, Out
  <2>3. CASE q # p
    <3>1. pc'[q] = pc[q]
      BY <1>1, <2>3 DEF Return, TypeOK
    <3>2. QED
      BY <1>2, <1>4, <2>3, <3>1, WorkedUnchanged DEF Inv
  <2>4. QED
    BY <2>1, <2>2, <2>3
<1>6. Inv(h)'
  BY <1>2, <1>4, <1>5 DEF Inv
<1>7. QED
  BY <1>3, <1>6 DEF IInv

(* The log takes a request: it is valid, because its client is in no queue *)
(* or first in its queue at the end of the log, and it extends the history *)
(* for everybody else without changing their places.                       *)
LEMMA InsertStep ==
  ASSUME IInv, NEW p \in Procs, Insert(p)
  PROVE  IInv'
<1> DEFINE r == pending[p]
<1>1. TypeOK
  BY DEF IInv
<1>2. /\ pc' = pc /\ ops' = ops /\ done' = done /\ pos' = pos
      /\ queue' = queue /\ aborted' = aborted
      /\ log' = Append(log, r) /\ pending' = [pending EXCEPT ![p] = None] /\ r # None
  BY DEF Insert
<1>3. PICK h \in [Nat -> Queues] : Inv(h)
  BY DEF IInv
<1>4. PICK L \in Nat : r \in LockRequest /\ log \in Seq(LockRequest) /\ L = Len(log)
  BY <1>1, <1>2, LenProperties DEF TypeOK
<1>5. Len(log') = L + 1 /\ log'[L + 1] = r /\ (\A n \in 1 .. L : log'[n] = log[n])
      /\ log' \in Seq(LockRequest)
  BY <1>2, <1>4, AppendProperties
<1>6. \A q \in Procs : pos[q] \in 0 .. L /\ pos'[q] = pos[q] /\ done'[q] = done[q] /\ pc'[q] = pc[q]
  BY <1>4, <1>1, <1>2 DEF TypeOK
<1>7. pending'[p] = None /\ \A q \in Procs : q # p => pending'[q] = pending[q]
  BY <1>1, <1>2 DEF TypeOK
<1>8. TypeOK'
  <2>1. pos \in [Procs -> 0 .. L + 1]
    BY <1>1, <1>4 DEF TypeOK
  <2>2. pending' \in [Procs -> LockRequest \cup {None}]
    BY <1>1, <1>2 DEF TypeOK
  <2>3. QED
    BY <1>1, <1>2, <1>5, <2>1, <2>2 DEF TypeOK
<1>9. Worked(h, p) /\ History(h, log)
  BY <1>3 DEF Inv
<1>10. \/ /\ pc[p] = "acquiring" /\ r = OwnRequest(p, "lock")
          /\ NoOwn(log, p) /\ Out(h, log, p) /\ ~done[p][Address("lock")]
       \/ /\ pc[p] = "releasing" /\ r = OwnRequest(p, "unlock")
          /\ NoOwn(log, p) /\ Holds(h, log, p) /\ ~done[p][Address("unlock")]
  <2>1. pc[p] \in {"idle", "acquiring", "held", "releasing"}
    BY <1>1 DEF TypeOK
  <2>2. QED
    BY <1>2, <1>9, <2>1 DEF Worked, WhenIdle, WhenHeld, WhenAcquiring, WhenReleasing
<1>11. r.client = p /\ r.key = KeyOf[p]
  BY <1>10, OwnRequestType DEF Actions
<1>12. Valid(h[L], r)
  <2>1. L \in pos[p] .. L
    BY <1>4, <1>6
  <2>2. CASE r = OwnRequest(p, "lock") /\ Out(h, log, p)
    BY <1>4, <1>11, <2>1, <2>2, OwnRequestType DEF Valid, Out, Actions
  <2>3. CASE r = OwnRequest(p, "unlock") /\ Holds(h, log, p)
    BY <1>4, <1>11, <2>1, <2>3, OwnRequestType DEF Valid, Holds, Actions
  <2>4. QED
    BY <1>10, <2>2, <2>3
<1>13. PICK h2 \in [Nat -> Queues] :
       /\ History(h2, log')
       /\ \A m \in 0 .. L : h2[m] = h[m]
       /\ h2[L + 1] = Apply(h[L], r)
  <2>1. Valid(h[Len(log)], r)
    BY <1>4, <1>12
  <2>2. \E e \in [Nat -> Queues] :
          /\ \A m \in 0 .. Len(log) : e[m] = h[m]
          /\ e[Len(log) + 1] = Apply(h[Len(log)], r)
          /\ History(e, Append(log, r))
    <3> HIDE DEF r
    <3> QED BY <1>4, <1>9, <2>1, ExtendHistory
  <2>3. QED
    BY <1>2, <1>4, <2>2
<1>14. /\ \A q \in Procs : q # p =>
              /\ In(h2[L + 1], q) <=> In(h2[L], q)
              /\ First(h2[L], q) => First(h2[L + 1], q)
       /\ r.action = "unlock" => ~In(h2[L + 1], p)
  <2>1. h[L] \in Queues /\ Fit(h[L]) /\ h2[L] = h[L]
    BY <1>4, <1>9, <1>13 DEF History
  <2>2. QED
    BY <1>4, <1>11, <1>12, <1>13, <2>1, ApplyValid
<1>15. ASSUME NEW q \in Procs, q # p PROVE Worked(h2, q)'
  <2>1. \A j \in pos[q] + 1 .. L + 1 : log'[j].client = q => j \in pos[q] + 1 .. L /\ log'[j] = log[j]
    BY <1>4, <1>5, <1>6, <1>11, <1>15
  <2>2. \A j \in pos[q] + 1 .. L : log'[j] = log[j]
    BY <1>4, <1>5, <1>6
  <2>3. NoOwn(log, q)' <=> NoOwn(log, q)
    BY <1>4, <1>5, <1>6, <2>1, <2>2 DEF NoOwn
  <2>4. \A m \in pos[q] .. L : h2[m] = h[m]
    BY <1>4, <1>6, <1>13
  <2>5. \A j \in pos[q] .. L :
          (\A m \in j .. L : ~In(h[m], q)) => (\A m \in j .. L + 1 : ~In(h2[m], q))
    <3> SUFFICES ASSUME NEW j \in pos[q] .. L, \A m \in j .. L : ~In(h[m], q),
                        NEW m \in j .. L + 1
                 PROVE  ~In(h2[m], q)
      OBVIOUS
    <3>1. \A n \in j .. L : n \in pos[q] .. L
      BY <1>4, <1>6
    <3>2. \A n \in j .. L : ~In(h2[n], q)
      BY <2>4, <3>1
    <3>3. L \in j .. L /\ (m \in j .. L \/ m = L + 1)
      BY <1>4, <1>6
    <3>4. QED
      BY <1>14, <1>15, <3>2, <3>3
  <2>6. (\A m \in pos[q] .. L : First(h[m], q)) => (\A m \in pos[q] .. L + 1 : First(h2[m], q))
    <3> SUFFICES ASSUME \A m \in pos[q] .. L : First(h[m], q), NEW m \in pos[q] .. L + 1
                 PROVE  First(h2[m], q)
      OBVIOUS
    <3>1. \A n \in pos[q] .. L : First(h2[n], q)
      BY <2>4
    <3>2. L \in pos[q] .. L /\ (m \in pos[q] .. L \/ m = L + 1)
      BY <1>4, <1>6
    <3>3. QED
      BY <1>14, <1>15, <3>1, <3>2
  <2>7. Out(h, log, q) => Out(h2, log, q)'
    <3> SUFFICES ASSUME Out(h, log, q) PROVE Out(h2, log, q)'
      OBVIOUS
    <3>1. pos[q] \in pos[q] .. L /\ \A m \in pos[q] .. L : ~In(h[m], q)
      BY <1>4, <1>6 DEF Out
    <3>2. \A m \in pos[q] .. L + 1 : ~In(h2[m], q)
      BY <2>5, <3>1, Zenon
    <3>3. QED
      BY <1>5, <1>6, <3>2 DEF Out
  <2>8. Holds(h, log, q) => Holds(h2, log, q)'
    BY <1>4, <1>5, <1>6, <2>6 DEF Holds
  <2>9. Worked(h, q)
    BY <1>3 DEF Inv
  <2>10. pending'[q] = pending[q]
    BY <1>7, <1>15
  <2>11. WhenIdle(h, q) => WhenIdle(h2, q)'
    BY <2>3, <2>7, <2>10 DEF WhenIdle
  <2>12. WhenHeld(h, q) => WhenHeld(h2, q)'
    BY <2>3, <2>8, <2>10 DEF WhenHeld
  <2>13. WhenAcquiring(h, q) => WhenAcquiring(h2, q)'
    <3> SUFFICES ASSUME WhenAcquiring(h, q) PROVE WhenAcquiring(h2, q)'
      OBVIOUS
    <3>1. ASSUME pending[q] # None
          PROVE  /\ pending'[q] = OwnRequest(q, "lock")
                 /\ NoOwn(log, q)' /\ Out(h2, log, q)' /\ ~done'[q][Address("lock")]
      BY <1>6, <2>3, <2>7, <2>10, <3>1 DEF WhenAcquiring
    <3>2. ASSUME pending[q] = None, NEW j \in pos[q] + 1 .. L + 1, log'[j].client = q
          PROVE  /\ log'[j].action = "lock"
                 /\ \A m \in pos[q] .. j - 1 : ~In(h2[m], q)
      BY <1>4, <1>6, <2>1, <2>4, <3>2 DEF WhenAcquiring
    <3>3. ASSUME pending[q] = None, done'[q][Address("lock")]
          PROVE  NoOwn(log, q)' /\ Holds(h2, log, q)'
      BY <1>6, <2>3, <2>8, <3>3 DEF WhenAcquiring
    <3>4. QED
      BY <1>5, <1>6, <2>10, <3>1, <3>2, <3>3 DEF WhenAcquiring, OwnRequest, Address
  <2>14. WhenReleasing(h, q) => WhenReleasing(h2, q)'
    <3> SUFFICES ASSUME WhenReleasing(h, q) PROVE WhenReleasing(h2, q)'
      OBVIOUS
    <3>1. ASSUME pending[q] # None
          PROVE  /\ pending'[q] = OwnRequest(q, "unlock")
                 /\ NoOwn(log, q)' /\ Holds(h2, log, q)' /\ ~done'[q][Address("unlock")]
      BY <1>6, <2>3, <2>8, <2>10, <3>1 DEF WhenReleasing
    <3>2. ASSUME pending[q] = None, NEW j \in pos[q] + 1 .. L + 1, log'[j].client = q
          PROVE  /\ log'[j].action = "unlock"
                 /\ \A m \in pos[q] .. j - 1 : First(h2[m], q)
                 /\ \A m \in j .. L + 1 : ~In(h2[m], q)
      <4>1. j \in pos[q] + 1 .. L /\ log'[j] = log[j]
        BY <2>1, <3>2
      <4>2. /\ log[j].action = "unlock"
            /\ \A m \in pos[q] .. j - 1 : First(h[m], q)
            /\ \A m \in j .. L : ~In(h[m], q)
        BY <1>4, <3>2, <4>1 DEF WhenReleasing
      <4>3. j \in pos[q] .. L
        BY <1>4, <1>6, <4>1
      <4>4. \A m \in pos[q] .. j - 1 : First(h2[m], q)
        BY <1>4, <1>6, <2>4, <4>1, <4>2
      <4>5. \A m \in j .. L + 1 : ~In(h2[m], q)
        BY <2>5, <4>2, <4>3
      <4>6. QED
        BY <4>1, <4>2, <4>4, <4>5
    <3>3. ASSUME pending[q] = None
          PROVE  /\ NoOwn(log, q)' => Out(h2, log, q)'
                 /\ done'[q][Address("unlock")] => NoOwn(log, q)'
      BY <1>6, <2>3, <2>7, <3>3 DEF WhenReleasing
    <3>4. QED
      BY <1>5, <1>6, <2>10, <3>1, <3>2, <3>3 DEF WhenReleasing, OwnRequest, Address
  <2>15. QED
    BY <1>6, <2>9, <2>11, <2>12, <2>13, <2>14 DEF Worked
<1>16. Worked(h2, p)'
  <2>1. ASSUME NEW j \in pos[p] + 1 .. L + 1, log'[j].client = p, NoOwn(log, p)
        PROVE  j = L + 1 /\ log'[j] = r
    BY <1>4, <1>5, <1>6, <2>1 DEF NoOwn
  <2>2. CASE pc[p] = "acquiring"
    <3>1. r.action = "lock" /\ NoOwn(log, p) /\ Out(h, log, p) /\ ~done[p][Address("lock")]
      BY <1>10, <2>2, OwnRequestType DEF Actions
    <3>2. ASSUME NEW j \in pos[p] + 1 .. L + 1, log'[j].client = p
          PROVE  log'[j].action = "lock" /\ \A m \in pos[p] .. j - 1 : ~In(h2[m], p)
      <4>1. j = L + 1 /\ log'[j] = r
        BY <2>1, <3>1, <3>2
      <4>2. \A m \in pos[p] .. j - 1 : m \in 0 .. L /\ m \in pos[p] .. L
        BY <1>4, <1>6, <4>1
      <4>3. QED
        BY <1>4, <1>13, <3>1, <4>1, <4>2 DEF Out
    <3>3. WhenAcquiring(h2, p)'
      BY <1>5, <1>6, <1>7, <3>1, <3>2 DEF WhenAcquiring, Address
    <3>4. QED
      BY <1>6, <2>2, <3>3 DEF Worked
  <2>3. CASE pc[p] = "releasing"
    <3>1. r.action = "unlock" /\ NoOwn(log, p) /\ Holds(h, log, p) /\ ~done[p][Address("unlock")]
      BY <1>10, <2>3, OwnRequestType DEF Actions
    <3>2. ASSUME NEW j \in pos[p] + 1 .. L + 1, log'[j].client = p
          PROVE  /\ log'[j].action = "unlock"
                 /\ \A m \in pos[p] .. j - 1 : First(h2[m], p)
                 /\ \A m \in j .. L + 1 : ~In(h2[m], p)
      <4>1. j = L + 1 /\ log'[j] = r
        BY <2>1, <3>1, <3>2
      <4>2. \A m \in pos[p] .. j - 1 : m \in 0 .. L /\ m \in pos[p] .. L
        BY <1>4, <1>6, <4>1
      <4>3. \A m \in pos[p] .. j - 1 : First(h2[m], p)
        BY <1>4, <1>13, <3>1, <4>2 DEF Holds
      <4>4. \A m \in j .. L + 1 : ~In(h2[m], p)
        BY <1>4, <1>14, <3>1, <4>1
      <4>5. QED
        BY <3>1, <4>1, <4>3, <4>4
    <3>3. ~NoOwn(log, p)'
      <4>1. L + 1 \in pos[p] + 1 .. L + 1
        BY <1>4, <1>6
      <4>2. QED
        BY <1>5, <1>6, <1>11, <4>1 DEF NoOwn
    <3>4. WhenReleasing(h2, p)'
      BY <1>5, <1>6, <1>7, <3>1, <3>2, <3>3 DEF WhenReleasing, Address
    <3>5. QED
      BY <1>6, <2>3, <3>4 DEF Worked
  <2>4. QED
    BY <1>10, <2>2, <2>3
<1>17. ASSUME NEW q \in Procs PROVE queue'[q] = h2[pos'[q]]
  BY <1>2, <1>3, <1>6, <1>13 DEF Inv
<1>18. Inv(h2)'
  <2>1. \A q \in Procs : queue'[q] = h2[pos'[q]] /\ Worked(h2, q)'
    BY <1>15, <1>16, <1>17
  <2>2. aborted' = {}
    BY <1>2, <1>3 DEF Inv
  <2>3. QED
    BY <1>13, <2>1, <2>2 DEF Inv
<1>19. QED
  BY <1>8, <1>13, <1>18 DEF IInv

(* What Signal does to the flags: nothing to those of other processes, and *)
(* at most one flag of p, that of p's own request.                         *)
LEMMA SignalEffect ==
  ASSUME NEW p \in Procs, NEW d \in [Procs -> [Addresses -> BOOLEAN]], NEW r \in LockRequest
  PROVE  /\ Signal(p, d, r) \in [Procs -> [Addresses -> BOOLEAN]]
         /\ \A q \in Procs : q # p => Signal(p, d, r)[q] = d[q]
         /\ r.client # p => Signal(p, d, r) = d
<1>1. CASE r.client # p
  BY <1>1 DEF Signal
<1>2. CASE r.client = p
  <2>1. r.done \in Addresses /\ d[p] \in [Addresses -> BOOLEAN]
    BY DEF LockRequest
  <2>2. [d[p] EXCEPT ![r.done] = TRUE] \in [Addresses -> BOOLEAN]
    BY <2>1
  <2>3. Signal(p, d, r) = [d EXCEPT ![p] = [d[p] EXCEPT ![r.done] = TRUE]]
    BY <1>2 DEF Signal
  <2>4. QED
    BY <1>2, <2>2, <2>3, Zenon
<1>3. QED
  BY <1>1, <1>2

(* What callback does on a valid request: it applies it to the queues, and *)
(* sets a flag of p only if p becomes the first in its queue or takes its  *)
(* own request off it.  No assertion fails.                                *)
LEMMA CallbackEffect ==
  ASSUME TypeOK, NEW h \in [Nat -> Queues], Inv(h), NEW p \in Procs, Callback(p)
  PROVE  LET r == log[pos[p] + 1] IN
         /\ r \in LockRequest
         /\ aborted' = aborted
         /\ queue' = [queue EXCEPT ![p] = h[pos[p] + 1]]
         /\ done' \in [Procs -> [Addresses -> BOOLEAN]]
         /\ \A q \in Procs : q # p => done'[q] = done[q]
         /\ \/ done'[p] = done[p]
            \/ First(h[pos[p] + 1], p) /\ ~First(h[pos[p]], p)
            \/ r.client = p /\ r.action = "unlock"
<1> DEFINE r == log[pos[p] + 1]
           qs == h[pos[p]]
           q == qs[r.key]
           t == h[pos[p] + 1]
<1>1. pos[p] \in 0 .. Len(log) /\ pos[p] < Len(log) /\ Len(log) \in Nat
      /\ log \in Seq(LockRequest)
  BY LenProperties DEF TypeOK, Callback
<1>2. pos[p] + 1 \in 1 .. Len(log)
  BY <1>1
<1>3. r \in LockRequest
  BY <1>1, <1>2, ElementOfSeq
<1>4. r.key \in Keys /\ r.client \in Procs /\ r.action \in Actions
  BY <1>3 DEF LockRequest
<1>5. Valid(qs, r) /\ t = Apply(qs, r) /\ Fit(qs) /\ qs \in Queues /\ queue[p] = qs
  <2>1. pos[p] + 1 - 1 = pos[p] /\ pos[p] \in Nat
    BY <1>1
  <2>2. QED
    BY <1>1, <1>2, <2>1 DEF Inv, History
<1>6. q \in Seq(LockRequest) /\ KeyOf[r.client] = r.key
  BY <1>4, <1>5 DEF Queues, Valid
<1>7. queue \in [Procs -> Queues] /\ done \in [Procs -> [Addresses -> BOOLEAN]]
  BY DEF TypeOK, Queues
<1> HIDE DEF r, qs, q, t
<1>8. CASE r.action = "lock"
  <2>1. Lock(p, r)
    BY <1>8 DEF Callback, r
  <2>2. queue' = [queue EXCEPT ![p] = t] /\ aborted' = aborted
    BY <1>5, <1>7, <1>8, <2>1 DEF Lock, Push, Apply
  <2>3. CASE q # << >> \/ r.client # p
    <3>1. done' = done
      BY <1>3, <1>5, <1>7, <2>1, <2>3, SignalEffect DEF Lock, q
    <3>2. QED
      BY <1>3, <1>7, <2>2, <3>1 DEF r, t
  <2>4. CASE q = << >> /\ r.client = p
    <3>1. done' = Signal(p, done, r)
      BY <1>5, <2>1, <2>4 DEF Lock, q
    <3>2. ~First(qs, p)
      BY <1>6, <2>4 DEF First, q
    <3>3. t[r.key] = Append(q, r)
      BY <1>4, <1>5, <1>8 DEF Apply, Queues, q
    <3>4. First(t, p)
      <4>1. Len(q) = 0 /\ KeyOf[p] = r.key /\ r.client = p
        BY <1>6, <2>4
      <4>2. Append(q, r)[Len(q) + 1] = r /\ Append(q, r) # << >>
        BY <1>3, <1>6, AppendProperties
      <4>3. QED
        BY <3>3, <4>1, <4>2 DEF First
    <3>5. QED
      BY <1>3, <1>7, <2>2, <3>1, <3>2, <3>4, SignalEffect DEF r, t, qs
  <2>5. QED
    BY <2>3, <2>4
<1>9. CASE r.action = "unlock"
  <2>1. Unlock(p, r)
    BY <1>9 DEF Callback, r
  <2>2. q # << >> /\ q[1].client = r.client /\ Head(q) = q[1] /\ Head(q) \in LockRequest
    BY <1>5, <1>6, <1>9, HeadTailProperties DEF Valid, First, q
  <2>3. queue[p][r.key] = q
    BY <1>5 DEF q
  <2>4. /\ queue' = [queue EXCEPT ![p][r.key] = Tail(q)]
        /\ done' = IF Tail(q) = << >> THEN Signal(p, done, Head(q))
                   ELSE Signal(p, Signal(p, done, Head(q)), Head(Tail(q)))
        /\ aborted' = aborted
    BY <2>1, <2>2, <2>3 DEF Unlock
  <2>5. queue' = [queue EXCEPT ![p] = t]
    BY <1>5, <1>7, <1>9, <2>3, <2>4 DEF Apply
  <2>6. Tail(q) \in Seq(LockRequest) /\ Len(Tail(q)) = Len(q) - 1
        /\ \A i \in 1 .. Len(Tail(q)) : Tail(q)[i] = q[i + 1]
    BY <1>6, <2>2, HeadTailProperties
  <2> DEFINE d == Signal(p, done, Head(q))
  <2>7. /\ d \in [Procs -> [Addresses -> BOOLEAN]]
        /\ \A e \in Procs : e # p => d[e] = done[e]
        /\ r.client # p => d = done
    BY <1>7, <2>2, SignalEffect
  <2> HIDE DEF d
  <2>8. CASE Tail(q) = << >>
    <3>1. done' = d
      BY <2>4, <2>8 DEF d
    <3>2. QED
      BY <1>3, <1>7, <1>9, <2>4, <2>5, <2>7, <3>1 DEF r, t
  <2>9. CASE Tail(q) # << >>
    <3> DEFINE s == Head(Tail(q))
    <3>1. s \in LockRequest /\ s = Tail(q)[1] /\ Len(Tail(q)) \in Nat /\ Len(Tail(q)) # 0
      BY <2>6, <2>9, HeadTailProperties, LenProperties, EmptySeq
    <3>2. s = q[2] /\ 2 \in 1 .. Len(q)
      <4>1. Len(q) \in Nat
        BY <1>6, LenProperties
      <4>2. QED
        BY <2>6, <3>1, <4>1
    <3> HIDE DEF s
    <3>3. done' = Signal(p, d, s)
      BY <2>4, <2>9 DEF d, s
    <3>4. /\ done' \in [Procs -> [Addresses -> BOOLEAN]]
          /\ \A e \in Procs : e # p => done'[e] = done[e]
          /\ s.client # p => done' = d
      <4>1. /\ Signal(p, d, s) \in [Procs -> [Addresses -> BOOLEAN]]
            /\ \A e \in Procs : e # p => Signal(p, d, s)[e] = d[e]
            /\ s.client # p => Signal(p, d, s) = d
        BY <2>7, <3>1, SignalEffect, ZenonT(30)
      <4>2. QED
        BY <2>7, <3>3, <4>1
    <3>5. CASE s.client = p /\ r.client # p
      <4>1. KeyOf[p] = r.key
        BY <1>4, <1>5, <3>2, <3>5 DEF Fit, q
      <4>2. ~First(qs, p)
        BY <2>2, <3>5, <4>1 DEF First, q
      <4>3. t[r.key] = Tail(q)
        BY <1>4, <1>5, <1>9 DEF Apply, Queues, q
      <4>4. First(t, p)
        BY <2>9, <3>1, <3>5, <4>1, <4>3 DEF First
      <4>5. QED
        BY <1>3, <2>4, <2>5, <3>4, <4>2, <4>4 DEF r, t, qs
    <3>6. CASE s.client # p /\ r.client # p
      BY <1>3, <2>4, <2>5, <2>7, <3>4, <3>6 DEF r, t
    <3>7. CASE r.client = p
      BY <1>3, <1>9, <2>4, <2>5, <3>4, <3>7 DEF r, t
    <3>8. QED
      BY <3>5, <3>6, <3>7
  <2>10. QED
    BY <2>8, <2>9
<1>10. QED
  BY <1>4, <1>8, <1>9 DEF Actions

(* The application thread of p delivers one entry.                         *)
LEMMA CallbackStep ==
  ASSUME IInv, NEW p \in Procs, Callback(p)
  PROVE  IInv'
<1> DEFINE r == log[pos[p] + 1]
<1>1. TypeOK
  BY DEF IInv
<1>2. PICK h \in [Nat -> Queues] : Inv(h)
  BY DEF IInv
<1>3. PICK L \in Nat : L = Len(log) /\ log \in Seq(LockRequest)
  BY <1>1, LenProperties DEF TypeOK
<1>4. PICK n \in Nat : n = pos[p] /\ n < L
  BY <1>1, <1>3 DEF TypeOK, Callback
<1>5. /\ pc' = pc /\ ops' = ops /\ pending' = pending /\ log' = log
      /\ pos' = [pos EXCEPT ![p] = @ + 1]
  BY DEF Callback
<1>6. pos'[p] = n + 1 /\ \A q \in Procs : q # p => pos'[q] = pos[q]
  BY <1>1, <1>4, <1>5 DEF TypeOK
<1>7. /\ r \in LockRequest
      /\ aborted' = aborted
      /\ queue' = [queue EXCEPT ![p] = h[n + 1]]
      /\ done' \in [Procs -> [Addresses -> BOOLEAN]]
      /\ \A q \in Procs : q # p => done'[q] = done[q]
      /\ \/ done'[p] = done[p]
         \/ First(h[n + 1], p) /\ ~First(h[n], p)
         \/ r.client = p /\ r.action = "unlock"
  BY <1>1, <1>2, <1>4, CallbackEffect
<1>8. r = log[n + 1] /\ n + 1 \in n + 1 .. L /\ n \in n .. L /\ n + 1 \in n .. L
  BY <1>4
<1>9. TypeOK'
  <2>1. pos' \in [Procs -> 0 .. L]
    BY <1>1, <1>3, <1>4, <1>5 DEF TypeOK
  <2>2. queue' \in [Procs -> [Keys -> Seq(LockRequest)]]
    <3>1. queue \in [Procs -> Queues] /\ h[n + 1] \in Queues
      BY <1>1 DEF TypeOK, Queues
    <3>2. queue' \in [Procs -> Queues]
      BY <1>7, <3>1
    <3>3. QED
      BY <3>2 DEF Queues
  <2>3. QED
    BY <1>1, <1>3, <1>5, <1>7, <2>1, <2>2 DEF TypeOK
<1> HIDE DEF r
<1>10. ASSUME NEW q \in Procs, q # p PROVE Worked(h, q)'
  BY <1>2, <1>5, <1>6, <1>7, <1>10, WorkedUnchanged DEF Inv
<1>11. /\ History(h, log) /\ Worked(h, p) /\ Fit(h[n]) /\ Fit(h[n + 1])
       /\ h[n] \in Queues /\ h[n + 1] \in Queues
  BY <1>2, <1>3, <1>4 DEF Inv, History
<1>12. (First(h[n], p) => In(h[n], p)) /\ (First(h[n + 1], p) => In(h[n + 1], p))
  BY <1>11, FirstIsIn
<1>13. \A j \in n + 2 .. L : j \in n + 1 .. L
  BY <1>4
<1>14. \A m \in n + 1 .. L : m \in n .. L
  BY <1>4
<1>15. NoOwn(log, p)' <=> \A j \in n + 2 .. L : log[j].client # p
  <2>1. n + 1 + 1 = n + 2
    OBVIOUS
  <2>2. QED
    BY <1>3, <1>5, <1>6, <2>1 DEF NoOwn
<1>16. NoOwn(log, p) <=> \A j \in n + 1 .. L : log[j].client # p
  BY <1>3, <1>4 DEF NoOwn
<1>17. /\ NoOwn(log, p) => NoOwn(log, p)'
       /\ Out(h, log, p) => Out(h, log, p)'
       /\ Holds(h, log, p) => Holds(h, log, p)'
  BY <1>3, <1>4, <1>5, <1>6, <1>13, <1>14, <1>15, <1>16 DEF Out, Holds
<1>18. Out(h, log, p) => ~First(h[n + 1], p)
  BY <1>3, <1>4, <1>8, <1>12 DEF Out
<1>19. Holds(h, log, p) => First(h[n], p)
  BY <1>3, <1>4, <1>8 DEF Holds
<1>20. NoOwn(log, p) => r.client # p
  BY <1>8, <1>16
<1>21. WhenIdle(h, p) => WhenIdle(h, p)'
  BY <1>5, <1>17 DEF WhenIdle
<1>22. WhenHeld(h, p) => WhenHeld(h, p)'
  BY <1>5, <1>17 DEF WhenHeld
<1>23. WhenAcquiring(h, p) => WhenAcquiring(h, p)'
  <2> SUFFICES ASSUME WhenAcquiring(h, p) PROVE WhenAcquiring(h, p)'
    OBVIOUS
  <2>1. ASSUME pending[p] # None
        PROVE  /\ pending[p] = OwnRequest(p, "lock")
               /\ NoOwn(log, p)' /\ Out(h, log, p)' /\ ~done'[p][Address("lock")]
    BY <1>7, <1>17, <1>18, <1>20, <2>1 DEF WhenAcquiring
  <2>2. ASSUME pending[p] = None, NEW j \in n + 1 .. L, log[j].client = p
        PROVE  log[j].action = "lock" /\ \A m \in n .. j - 1 : ~In(h[m], p)
    BY <1>3, <1>4, <2>2 DEF WhenAcquiring
  <2>3. ASSUME pending[p] = None, NEW j \in n + 2 .. L, log[j].client = p
        PROVE  log[j].action = "lock" /\ (\A m \in n + 1 .. j - 1 : ~In(h[m], p))
               /\ ~First(h[n + 1], p)
    <3>1. j \in n + 1 .. L /\ n + 1 \in n .. j - 1 /\ \A m \in n + 1 .. j - 1 : m \in n .. j - 1
      BY <1>4
    <3>2. QED
      BY <1>12, <2>2, <2>3, <3>1
  <2>4. ASSUME pending[p] = None, done'[p][Address("lock")]
        PROVE  NoOwn(log, p)' /\ Holds(h, log, p)'
    <3>1. CASE done'[p] = done[p]
      BY <1>17, <2>4, <3>1 DEF WhenAcquiring
    <3>2. CASE First(h[n + 1], p)
      <4>1. NoOwn(log, p)'
        BY <1>15, <2>3, <2>4, <3>2
      <4>2. ASSUME NEW m \in n + 1 .. L PROVE First(h[m], p)
        <5>1. \A j \in n + 1 + 1 .. m : log[j].client # p
          BY <1>4, <1>15, <4>1
        <5>2. n + 1 \in 0 .. L /\ m \in n + 1 .. L
          BY <1>4
        <5>3. QED
          BY <1>3, <1>11, <3>2, <5>1, <5>2 DEF History
      <4>3. QED
        BY <1>3, <1>5, <1>6, <4>1, <4>2 DEF Holds
    <3>3. CASE r.client = p /\ r.action = "unlock"
      BY <1>8, <2>2, <2>4, <3>3
    <3>4. QED
      BY <1>7, <3>1, <3>2, <3>3
  <2>5. n + 1 + 1 = n + 2 /\ pending'[p] = pending[p] /\ Len(log') = L
    BY <1>3, <1>5
  <2>6. QED
    BY <1>5, <1>6, <2>1, <2>3, <2>4, <2>5 DEF WhenAcquiring, OwnRequest, Address
<1>24. WhenReleasing(h, p) => WhenReleasing(h, p)'
  <2> SUFFICES ASSUME WhenReleasing(h, p) PROVE WhenReleasing(h, p)'
    OBVIOUS
  <2>1. ASSUME pending[p] # None
        PROVE  /\ pending[p] = OwnRequest(p, "unlock")
               /\ NoOwn(log, p)' /\ Holds(h, log, p)' /\ ~done'[p][Address("unlock")]
    BY <1>7, <1>17, <1>19, <1>20, <2>1 DEF WhenReleasing
  <2>2. ASSUME pending[p] = None, NEW j \in n + 1 .. L, log[j].client = p
        PROVE  /\ log[j].action = "unlock"
               /\ \A m \in n .. j - 1 : First(h[m], p)
               /\ \A m \in j .. L : ~In(h[m], p)
    BY <1>3, <1>4, <2>2 DEF WhenReleasing
  <2>3. ASSUME pending[p] = None, NEW j \in n + 2 .. L, log[j].client = p
        PROVE  /\ log[j].action = "unlock"
               /\ \A m \in n + 1 .. j - 1 : First(h[m], p)
               /\ \A m \in j .. L : ~In(h[m], p)
               /\ First(h[n], p) /\ First(h[n + 1], p)
    <3>1. j \in n + 1 .. L /\ n \in n .. j - 1 /\ n + 1 \in n .. j - 1
          /\ \A m \in n + 1 .. j - 1 : m \in n .. j - 1
      BY <1>4
    <3>2. QED
      BY <2>2, <2>3, <3>1
  <2>4. ASSUME pending[p] = None, r.client = p
        PROVE  NoOwn(log, p)' /\ Out(h, log, p)'
    <3>1. \A m \in n + 1 .. L : ~In(h[m], p)
      BY <1>8, <2>2, <2>4
    <3>2. ~First(h[n + 1], p)
      BY <1>8, <1>12, <3>1
    <3>3. NoOwn(log, p)'
      BY <1>15, <2>3, <2>4, <3>2
    <3>4. QED
      BY <1>3, <1>5, <1>6, <3>1, <3>3 DEF Out
  <2>5. ASSUME pending[p] = None, r.client # p
        PROVE  NoOwn(log, p)' <=> NoOwn(log, p)
    <3>1. \A j \in n + 1 .. L : j = n + 1 \/ j \in n + 2 .. L
      BY <1>4
    <3>2. QED
      BY <1>8, <1>13, <1>15, <1>16, <2>5, <3>1
  <2>6. ASSUME pending[p] = None PROVE NoOwn(log, p)' => Out(h, log, p)'
    BY <1>17, <2>4, <2>5, <2>6 DEF WhenReleasing
  <2>7. ASSUME pending[p] = None, done'[p][Address("unlock")] PROVE NoOwn(log, p)'
    <3>1. CASE done'[p] = done[p]
      BY <1>17, <2>7, <3>1 DEF WhenReleasing
    <3>2. CASE First(h[n + 1], p) /\ ~First(h[n], p)
      BY <1>15, <2>3, <2>7, <3>2
    <3>3. CASE r.client = p /\ r.action = "unlock"
      BY <2>4, <2>7, <3>3
    <3>4. QED
      BY <1>7, <3>1, <3>2, <3>3
  <2>8. n + 1 + 1 = n + 2 /\ pending'[p] = pending[p] /\ Len(log') = L
    BY <1>3, <1>5
  <2>9. QED
    BY <1>5, <1>6, <2>1, <2>3, <2>6, <2>7, <2>8 DEF WhenReleasing, OwnRequest, Address
<1>25. Worked(h, p)'
  BY <1>5, <1>11, <1>21, <1>22, <1>23, <1>24 DEF Worked
<1>26. \A q \in Procs : queue'[q] = h[pos'[q]]
  BY <1>1, <1>2, <1>6, <1>7 DEF TypeOK, Inv
<1>27. Inv(h)'
  <2>1. \A q \in Procs : queue'[q] = h[pos'[q]] /\ Worked(h, q)'
    BY <1>10, <1>25, <1>26
  <2>2. aborted' = {} /\ History(h, log)'
    BY <1>2, <1>5, <1>7, <1>11 DEF Inv
  <2>3. QED
    BY <2>1, <2>2 DEF Inv
<1>28. QED
  BY <1>9, <1>27 DEF IInv

-----------------------------------------------------------------------------
(* The invariant holds in every reachable state.                           *)
THEOREM Invariance == Spec => []IInv
<1>1. IInv /\ [Next]_vars => IInv'
  <2> SUFFICES ASSUME IInv, [Next]_vars PROVE IInv'
    OBVIOUS
  <2>1. CASE UNCHANGED vars
    <3>1. ASSUME NEW h \in [Nat -> Queues], Inv(h) PROVE Inv(h)'
      BY <2>1, <3>1 DEF vars, Inv, Worked, WhenIdle, WhenHeld, WhenAcquiring,
         WhenReleasing, NoOwn, Out, Holds
    <3>2. TypeOK'
      BY <2>1 DEF IInv, TypeOK, vars
    <3>3. QED
      BY <3>1, <3>2 DEF IInv
  <2>2. CASE Next
    <3>1. PICK p \in Procs :
            Acquire(p) \/ Release(p) \/ Return(p) \/ Insert(p) \/ Callback(p)
      BY <2>2 DEF Next, Worker
    <3>2. QED
      BY <3>1, AcquireStep, ReleaseStep, ReturnStep, InsertStep, CallbackStep
  <2>3. QED
    BY <2>1, <2>2
<1>2. QED
  BY <1>1, InitIInv, PTL DEF Spec

(* All variables keep their types.                                         *)
THEOREM TypeCorrect == Spec => []TypeOK
<1>1. IInv => TypeOK
  BY DEF IInv
<1>2. QED
  BY <1>1, Invariance, PTL

(* No two workers hold the same lock, whatever the order in which the log  *)
(* takes the requests and however far the subscribers have come.           *)
THEOREM LockIsExclusive == Spec => []MutualExclusion
<1>1. IInv => MutualExclusion
  <2> SUFFICES ASSUME IInv, NEW p \in Procs, NEW q \in Procs, p # q, KeyOf[p] = KeyOf[q],
                      pc[p] = "held", pc[q] = "held"
               PROVE  FALSE
    BY DEF MutualExclusion
  <2>1. PICK h \in [Nat -> Queues] : Inv(h)
    BY DEF IInv
  <2>2. Holds(h, log, p) /\ Holds(h, log, q)
    BY <2>1 DEF Inv, Worked, WhenHeld
  <2>3. Len(log) \in pos[p] .. Len(log) /\ Len(log) \in pos[q] .. Len(log)
    BY LenProperties DEF IInv, TypeOK
  <2>4. First(h[Len(log)], p) /\ First(h[Len(log)], q)
    BY <2>2, <2>3 DEF Holds
  <2>5. QED
    BY <2>4 DEF First
<1>2. QED
  BY <1>1, Invariance, PTL

(* The holder of a lock is first in the queue of every subscriber that has *)
(* delivered the whole log, and the assertions of callback never fail.     *)
THEOREM HolderLeadsQueue == Spec => []HolderIsFirst
<1>1. IInv => HolderIsFirst
  <2> SUFFICES ASSUME IInv PROVE HolderIsFirst
    OBVIOUS
  <2>1. PICK h \in [Nat -> Queues] : Inv(h)
    BY DEF IInv
  <2>2. ASSUME NEW p \in Procs, NEW q \in Procs, pc[p] = "held", pos[q] = Len(log)
        PROVE  queue[q][KeyOf[p]] # << >> /\ Head(queue[q][KeyOf[p]]).client = p
    <3>1. Holds(h, log, p)
      BY <2>1, <2>2 DEF Inv, Worked, WhenHeld
    <3>2. Len(log) \in pos[p] .. Len(log)
      BY LenProperties DEF IInv, TypeOK
    <3>3. First(queue[q], p)
      BY <2>1, <2>2, <3>1, <3>2 DEF Holds, Inv
    <3>4. queue[q][KeyOf[p]] \in Seq(LockRequest)
      BY KeyOfAssumption DEF IInv, TypeOK
    <3>5. QED
      BY <3>3, <3>4, HeadTailProperties DEF First
  <2>3. QED
    BY <2>1, <2>2 DEF HolderIsFirst, Inv
<1>2. QED
  BY <1>1, Invariance, PTL
=============================================================================
