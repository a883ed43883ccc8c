----------------------------- MODULE LockService ----------------------------
(***************************************************************************)
(* The lock service on top of the log (lock_service/lock_service.cpp,      *)
(* lock_service/main.cpp).  Every process has a worker thread that         *)
(* acquires and releases its lock through the log, and an application      *)
(* thread of the subscriber that runs callback on the entries of the log   *)
(* in order.  The response of the client is stored and never looked at.    *)
(*                                                                         *)
(* A request carries the address of an atomic `done` on the stack of the   *)
(* worker, which spins until callback has set it.  The unlock branch sets  *)
(* the flag of the request it takes off the queue, i.e. that of acquire;   *)
(* SameFrame says whether the build gives the flags of acquire and of      *)
(* release the same address.  The queue's node is read after it has been   *)
(* freed, which the allocator leaves as it was.                            *)
(***************************************************************************)
EXTENDS Integers, Sequences, FiniteSets

CONSTANTS
  Procs,      \* processes, by their client ID
  Keys,       \* lock keys
  KeyOf,      \* the key that the worker of each process uses
  SameFrame,  \* do the flags of acquire and release share an address?
  None,       \* no request
  MaxOps      \* bound: calls of request per process

ASSUME KeyOfAssumption == KeyOf \in [Procs -> Keys]
ASSUME SameFrameAssumption == SameFrame \in BOOLEAN
ASSUME MaxOpsAssumption == MaxOps \in Nat

VARIABLES
  pc,       \* worker: "idle", "acquiring", "held", "releasing"
  ops,      \* per process: calls of request
  done,     \* per process: the flag at each address
  pending,  \* per process: the request on its way to the log, or None
  log,      \* the log, as every subscriber delivers it
  pos,      \* per process: entries delivered
  queue,    \* per process: lock_queue_
  aborted   \* processes that failed an assertion

vars == <<pc, ops, done, pending, log, pos, queue, aborted>>

Actions == {"lock", "unlock"}

(* The address of the flag of a request for action a.                      *)
Address(a) == IF SameFrame THEN "frame" ELSE a
Addresses == {Address(a) : a \in Actions}

LockRequest == [action : Actions, client : Procs, key : Keys, done : Addresses]

ASSUME NoneAssumption == None \notin LockRequest

Init ==
  /\ pc = [p \in Procs |-> "idle"]
  /\ ops = [p \in Procs |-> 0]
  /\ done = [p \in Procs |-> [a \in Addresses |-> FALSE]]
  /\ pending = [p \in Procs |-> None]
  /\ log = << >>
  /\ pos = [p \in Procs |-> 0]
  /\ queue = [p \in Procs |-> [k \in Keys |-> << >>]]
  /\ aborted = {}

-----------------------------------------------------------------------------
(* request, up to the wait.                                                *)
Request(p, a) ==
  /\ p \notin aborted /\ ops[p] < MaxOps
  /\ ops' = [ops EXCEPT ![p] = @ + 1]
  /\ done' = [done EXCEPT ![p][Address(a)] = FALSE]
  /\ pending' = [pending EXCEPT ![p] =
       [action |-> a, client |-> p, key |-> KeyOf[p], done |-> Address(a)]]
  /\ UNCHANGED <<log, pos, queue, aborted>>

Acquire(p) ==
  /\ pc[p] = "idle"
  /\ Request(p, "lock")
  /\ pc' = [pc EXCEPT ![p] = "acquiring"]

Release(p) ==
  /\ pc[p] = "held"
  /\ Request(p, "unlock")
  /\ pc' = [pc EXCEPT ![p] = "releasing"]

(* The wait is over: request returns.                                      *)
Return(p) ==
  /\ p \notin aborted
  /\ \/ /\ pc[p] = "acquiring" /\ done[p][Address("lock")]
        /\ pc' = [pc EXCEPT ![p] = "held"]
     \/ /\ pc[p] = "releasing" /\ done[p][Address("unlock")]
        /\ pc' = [pc EXCEPT ![p] = "idle"]
  /\ UNCHANGED <<ops, done, pending, log, pos, queue, aborted>>

(* The log takes the request.                                              *)
Insert(p) ==
  /\ pending[p] # None
  /\ log' = Append(log, pending[p])
  /\ pending' = [pending EXCEPT ![p] = None]
  /\ UNCHANGED <<pc, ops, done, pos, queue, aborted>>

-----------------------------------------------------------------------------
(* callback, for request r at process p.                                   *)

(* The flags d of all processes, with that of r set if r is p's own.       *)
Signal(p, d, r) == IF r.client = p THEN [d EXCEPT ![p][r.done] = TRUE] ELSE d

(* Mutation: the queue keeps the client only.                              *)
MutPush(q, r) == Append(q, r.client)

Push(q, r) == Append(q, r)

(* Mutation: the lock is granted while others wait for it.                 *)
MutLock(p, r) ==
  /\ done' = Signal(p, done, r)
  /\ queue' = [queue EXCEPT ![p][r.key] = Push(@, r)]
  /\ UNCHANGED aborted

Lock(p, r) ==
  /\ done' = IF queue[p][r.key] = << >> THEN Signal(p, done, r) ELSE done
  /\ queue' = [queue EXCEPT ![p][r.key] = Push(@, r)]
  /\ UNCHANGED aborted

(* Mutation: the next one in the queue is not told.                        *)
MutUnlock(p, r) ==
  LET q == queue[p][r.key] IN
  IF q = << >> \/ Head(q).client # r.client
  THEN /\ aborted' = aborted \cup {p}
       /\ UNCHANGED <<done, queue>>
  ELSE /\ queue' = [queue EXCEPT ![p][r.key] = Tail(q)]
       /\ done' = Signal(p, done, Head(q))
       /\ UNCHANGED aborted

(* Mutation: the last request leaves the queue.                            *)
MutUnlockLast(p, r) ==
  LET q == queue[p][r.key]
      first == Signal(p, done, Head(q)) IN
  IF q = << >> \/ Head(q).client # r.client
  THEN /\ aborted' = aborted \cup {p}
       /\ UNCHANGED <<done, queue>>
  ELSE /\ queue' = [queue EXCEPT ![p][r.key] = SubSeq(q, 1, Len(q) - 1)]
       /\ done' = IF Tail(q) = << >> THEN first ELSE Signal(p, first, Head(Tail(q)))
       /\ UNCHANGED aborted

(* The assertions; then the flags of the request that leaves the queue and *)
(* of the one that is now first.                                           *)
Unlock(p, r) ==
  LET q == queue[p][r.key]
      first == Signal(p, done, Head(q)) IN
  IF q = << >> \/ Head(q).client # r.client
  THEN /\ aborted' = aborted \cup {p}
       /\ UNCHANGED <<done, queue>>
  ELSE /\ queue' = [queue EXCEPT ![p][r.key] = Tail(q)]
       /\ done' = IF Tail(q) = << >> THEN first ELSE Signal(p, first, Head(Tail(q)))
       /\ UNCHANGED aborted

Callback(p) ==
  /\ p \notin aborted /\ pos[p] < Len(log)
  /\ pos' = [pos EXCEPT ![p] = @ + 1]
  /\ LET r == log[pos[p] + 1] IN
       IF r.action = "lock" THEN Lock(p, r) ELSE Unlock(p, r)
  /\ UNCHANGED <<pc, ops, pending, log>>

-----------------------------------------------------------------------------
(* The worker acquires and releases its lock in turn.                      *)
Worker(p) == Acquire(p) \/ Release(p) \/ Return(p)

Next == \E p \in Procs : Worker(p) \/ Insert(p) \/ Callback(p)

Spec == Init /\ [][Next]_vars

(* The log delivers every request, the threads run, and a worker releases  *)
(* what it has acquired.                                                   *)
FairSpec ==
  /\ Spec
  /\ \A p \in Procs :
       WF_vars(Release(p)) /\ WF_vars(Return(p)) /\ WF_vars(Insert(p)) /\ WF_vars(Callback(p))

-----------------------------------------------------------------------------
(* Types of all variables.                                                 *)
TypeOK ==
  /\ pc \in [Procs -> {"idle", "acquiring", "held", "releasing"}]
  /\ ops \in [Procs -> 0 .. MaxOps]
  /\ done \in [Procs -> [Addresses -> BOOLEAN]]
  /\ pending \in [Procs -> LockRequest \cup {None}]
  /\ log \in Seq(LockRequest) /\ pos \in [Procs -> 0 .. Len(log)]
  /\ queue \in [Procs -> [Keys -> Seq(LockRequest)]]
  /\ aborted \subseteq Procs

(* Two workers never hold the same lock, however far the application       *)
(* threads of their processes are apart in the log.                        *)
MutualExclusion ==
  \A p, q \in Procs : p # q /\ KeyOf[p] = KeyOf[q] => ~(pc[p] = "held" /\ pc[q] = "held")

(* The holder of a lock is the first in the queue of every process that    *)
(* has delivered all requests, and no process fails an assertion.          *)
HolderIsFirst ==
  /\ aborted = {}
  /\ \A p, q \in Procs : pc[p] = "held" /\ pos[q] = Len(log) =>
       queue[q][KeyOf[p]] # << >> /\ Head(queue[q][KeyOf[p]]).client = p

(* Every acquire and every release returns.                                *)
EveryRequestReturns ==
  \A p \in Procs :
    pc[p] \in {"acquiring", "releasing"} ~> pc[p] \in {"idle", "held"}
=============================================================================
