------------------------------ MODULE StorageLog ----------------------------
(***************************************************************************)
(* The log of one storage server and the threads that share it             *)
(* (storage/log.cpp, and the handlers of storage/storage.cpp around it):   *)
(*   - the control thread adds the slots of each epoch and closes the      *)
(*     slots of a finalized client;                                        *)
(*   - the client threads insert requests at a client's position;          *)
(*   - the subscriber threads iterate over the log with a stride.          *)
(* One action per atomic memory access the threads share.  A client's      *)
(* position is protected by its state's lock: a busy op[c] is that lock.   *)
(***************************************************************************)
EXTENDS LogOps

CONSTANTS Other,       \* an assignment to a client of another shard (-1)
          Schedules,   \* the slot sequences an epoch may carry, by owner
          NumThreads,  \* subscriber_threads_
          MaxGsn,      \* bound on the GSNs handed out
          MaxSlots     \* bound on the slots one request uses up

ASSUME OtherIsFresh == Other \notin Clients \cup Payloads \cup {NoOp}
ASSUME SchedulesType == Schedules \subseteq Seq(Clients \cup {Other})
ASSUME NumThreadsPositive == NumThreads \in Nat \ {0}
ASSUME BoundsType == MaxGsn \in Nat /\ MaxSlots \in Nat

VARIABLES
  log,        \* blocks_: the entries
  numEntries, \* num_entries_: what the subscriber threads may look at
  pending,    \* slots that the running add_entries has still to yield
  adding,     \* the control thread is inside add_entries
  startGsn,   \* slots.start_gsn
  mode,       \* per client: "open", "frozen" (disconnected) or "final"
  cur,        \* per client: position's current_entry_
  op,         \* per client: the operation that holds the client's lock
  sub,        \* per subscriber thread: its iterator
  delivered,  \* per subscriber thread: the entries it has sent
  aborted     \* a ZIP_ASSERT failed: the process is gone

vars == <<log, numEntries, pending, adding, startGsn, mode, cur, op, sub,
          delivered, aborted>>

Threads == 0 .. NumThreads - 1

(* What holds a client's lock: nothing, an insert of `data` that has still *)
(* to use up `close` slots, the release of its last slot, or close().      *)
Op(kind, d, n) == [kind |-> kind, data |-> d, close |-> n]
Idle == Op("idle", NoOp, 0)
Publishing == Op("publish", NoOp, 0)
Finalizing == Op("finalize", NoOp, 0)

Ops == [kind : {"idle", "insert", "publish", "finalize"},
        data : Payloads \cup {NoOp}, close : Nat]

Init ==
  /\ log = << >>
  /\ numEntries = 0
  /\ pending = << >>
  /\ adding = FALSE
  /\ startGsn = 0
  /\ mode = [c \in Clients |-> "open"]
  /\ cur = [c \in Clients |-> 0]
  /\ op = [c \in Clients |-> Idle]
  /\ sub = [t \in Threads |-> [pc |-> "seek", index |-> t, cached |-> 0, at |-> 0]]
  /\ delivered = [t \in Threads |-> << >>]
  /\ aborted = FALSE

-----------------------------------------------------------------------------
(* The control thread.                                                     *)

ControlIdle == ~adding /\ \A c \in Clients : op[c].kind # "finalize"

(* STORAGE_SLOTS: enter add_entries, with gsn_base_ as start_gsn.  That    *)
(* owners are not finalized is not checked here: it is what the ordering   *)
(* service, which forgets a client when it finalizes it, sends             *)
(* (order.cpp:383), on one connection, in order.                           *)
StorageSlots(owners) ==
  /\ ControlIdle
  /\ owners # << >>
  /\ startGsn + Len(owners) <= MaxGsn
  /\ \A i \in DOMAIN owners : owners[i] \in Clients => mode[owners[i]] # "final"
  /\ pending' = owners
  /\ adding' = TRUE
  /\ UNCHANGED <<log, numEntries, startGsn, mode, cur, op, sub, delivered, aborted>>

(* The lambda yield: an entry for a client of this shard is initialised    *)
(* and linked behind the client's last entry; the GSN always advances.     *)
Yield ==
  /\ adding /\ pending # << >>
  /\ log' = IF Head(pending) = Other THEN log
            ELSE Append(log, NewEntry(startGsn, Head(pending)))
  /\ startGsn' = startGsn + 1
  /\ pending' = Tail(pending)
  /\ UNCHANGED <<numEntries, adding, mode, cur, op, sub, delivered, aborted>>

(* The end of add_entries: the new entries become visible to iterators.    *)
Publish ==
  /\ adding /\ pending = << >>
  /\ numEntries' = Len(log)
  /\ adding' = FALSE
  /\ UNCHANGED <<log, pending, startGsn, mode, cur, op, sub, delivered, aborted>>

(* The client is disconnected: a failure event, a freeze request or the    *)
(* client's own CLIENT_FINISHED.                                           *)
Freeze(c) ==
  /\ mode[c] = "open" /\ op[c].kind = "idle"
  /\ mode' = [mode EXCEPT ![c] = "frozen"]
  /\ UNCHANGED <<log, numEntries, pending, adding, startGsn, cur, op, sub,
                 delivered, aborted>>

(* Mutation: close returns at once for a client without a current entry.   *)
MutFinalizeBegin(c) ==
  /\ ControlIdle
  /\ mode[c] = "frozen" /\ op[c].kind = "idle"
  /\ mode' = [mode EXCEPT ![c] = "final"]
  /\ op' = IF cur[c] = 0 THEN op ELSE [op EXCEPT ![c] = Finalizing]
  /\ UNCHANGED <<log, numEntries, pending, adding, startGsn, cur, sub,
                 delivered, aborted>>

(* STORAGE_CLIENT_FINALIZE enters position::close: a client without a      *)
(* current entry starts by closing its first one.                          *)
FinalizeBegin(c) ==
  /\ ControlIdle
  /\ mode[c] = "frozen" /\ op[c].kind = "idle"
  /\ mode' = [mode EXCEPT ![c] = "final"]
  /\ op' = [op EXCEPT ![c] = Finalizing]
  /\ UNCHANGED <<log, numEntries, pending, adding, startGsn, cur, sub,
                 delivered, aborted>>

(* One turn of the loop of close: set the next entry and move on to it.    *)
FinalizeStep(c) ==
  LET next == NextOf(log, c, cur[c]) IN
  /\ op[c].kind = "finalize"
  /\ next # 0
  /\ log' = [log EXCEPT ![next].set = TRUE]
  /\ cur' = [cur EXCEPT ![c] = next]
  /\ UNCHANGED <<numEntries, pending, adding, startGsn, mode, op, sub,
                 delivered, aborted>>

(* Mutation: close stops before it has reached the client's last entry.    *)
MutFinalizeEnd(c) ==
  /\ op[c].kind = "finalize"
  /\ op' = [op EXCEPT ![c] = Idle]
  /\ UNCHANGED <<log, numEntries, pending, adding, startGsn, mode, cur, sub,
                 delivered, aborted>>

(* The loop of close ends at the client's last entry.                      *)
FinalizeEnd(c) ==
  /\ op[c].kind = "finalize"
  /\ NextOf(log, c, cur[c]) = 0
  /\ op' = [op EXCEPT ![c] = Idle]
  /\ UNCHANGED <<log, numEntries, pending, adding, startGsn, mode, cur, sub,
                 delivered, aborted>>

-----------------------------------------------------------------------------
(* A client thread.                                                        *)

(* current_entry_ moves to the client's next entry, if there is one.       *)
Advance(c) ==
  /\ NextOf(log, c, cur[c]) # 0
  /\ cur' = [cur EXCEPT ![c] = NextOf(log, c, cur[c])]

(* ZIP_ASSERT_NOT_NULL: insert finds no further slot and the process ends. *)
InsertAssertFails(c) ==
  /\ \/ mode[c] = "open" /\ op[c].kind = "idle"
     \/ op[c].kind = "insert" /\ op[c].close > 1
  /\ NextOf(log, c, cur[c]) = 0
  /\ aborted' = TRUE
  /\ UNCHANGED <<log, numEntries, pending, adding, startGsn, mode, cur, op, sub,
                 delivered>>

(* Mutation: only the first insert moves on to the next entry.             *)
MutInsertBegin(c, d, n) ==
  /\ mode[c] = "open" /\ op[c].kind = "idle"
  /\ op' = [op EXCEPT ![c] = Op("insert", d, n)]
  /\ IF cur[c] = 0 THEN Advance(c) ELSE UNCHANGED cur
  /\ UNCHANGED <<log, numEntries, pending, adding, startGsn, mode, sub, delivered,
                 aborted>>

(* STORAGE_INSERT of a connected client: position::insert of payload d     *)
(* that uses up n slots of the client.                                     *)
InsertBegin(c, d, n) ==
  /\ mode[c] = "open" /\ op[c].kind = "idle"
  /\ op' = [op EXCEPT ![c] = Op("insert", d, n)]
  /\ Advance(c)
  /\ UNCHANGED <<log, numEntries, pending, adding, startGsn, mode, sub, delivered,
                 aborted>>

(* Mutation: while (close--), the counter wraps around.                    *)
MutInsertCloseWraps(c) ==
  /\ op[c].kind = "insert"
  /\ log' = [log EXCEPT ![cur[c]].set = TRUE]
  /\ op' = [op EXCEPT ![c].close = @ - 1]
  /\ Advance(c)
  /\ UNCHANGED <<numEntries, pending, adding, startGsn, mode, sub, delivered,
                 aborted>>

(* Mutation: the skipped slot is not released.                             *)
MutInsertCloseSkips(c) ==
  /\ op[c].kind = "insert" /\ op[c].close > 1
  /\ op' = [op EXCEPT ![c].close = @ - 1]
  /\ Advance(c)
  /\ UNCHANGED <<log, numEntries, pending, adding, startGsn, mode, sub, delivered,
                 aborted>>

(* while (--close): the current slot becomes a no-op.                      *)
InsertClose(c) ==
  /\ op[c].kind = "insert" /\ op[c].close > 1
  /\ log' = [log EXCEPT ![cur[c]].set = TRUE]
  /\ op' = [op EXCEPT ![c].close = @ - 1]
  /\ Advance(c)
  /\ UNCHANGED <<numEntries, pending, adding, startGsn, mode, sub, delivered,
                 aborted>>

(* The payload is stored before ...                                        *)
InsertData(c) ==
  /\ op[c].kind = "insert" /\ op[c].close = 1
  /\ log' = [log EXCEPT ![cur[c]].data = op[c].data]
  /\ op' = [op EXCEPT ![c] = Publishing]
  /\ UNCHANGED <<numEntries, pending, adding, startGsn, mode, cur, sub,
                 delivered, aborted>>

(* ... the entry is released to the subscriber threads.                    *)
InsertSet(c) ==
  /\ op[c].kind = "publish"
  /\ log' = [log EXCEPT ![cur[c]].set = TRUE]
  /\ op' = [op EXCEPT ![c] = Idle]
  /\ UNCHANGED <<numEntries, pending, adding, startGsn, mode, cur, sub,
                 delivered, aborted>>

-----------------------------------------------------------------------------
(* A subscriber thread: iterator::next_entry, and the copy into a message. *)

(* Mutation: the length of the list is read, not what is published.        *)
MutLoadNumEntries(t) ==
  /\ sub[t].pc = "seek" /\ sub[t].index >= sub[t].cached
  /\ sub' = [sub EXCEPT ![t].cached = Len(log)]
  /\ UNCHANGED <<log, numEntries, pending, adding, startGsn, mode, cur, op,
                 delivered, aborted>>

(* Refresh current_entries_ when the iterator has reached it.              *)
LoadNumEntries(t) ==
  /\ sub[t].pc = "seek" /\ sub[t].index >= sub[t].cached
  /\ sub' = [sub EXCEPT ![t].cached = numEntries]
  /\ UNCHANGED <<log, numEntries, pending, adding, startGsn, mode, cur, op,
                 delivered, aborted>>

(* Mutation: the iterator ignores its stride.                              *)
MutSeek(t) ==
  /\ sub[t].pc = "seek" /\ sub[t].index < sub[t].cached
  /\ sub' = [sub EXCEPT ![t] = [pc |-> "wait", index |-> @.index + 1,
                                cached |-> @.cached, at |-> @.index + 1]]
  /\ UNCHANGED <<log, numEntries, pending, adding, startGsn, mode, cur, op,
                 delivered, aborted>>

(* Move on by the stride; the entry to wait for is the one moved over.     *)
Seek(t) ==
  /\ sub[t].pc = "seek" /\ sub[t].index < sub[t].cached
  /\ sub' = [sub EXCEPT ![t] = [pc |-> "wait", index |-> @.index + NumThreads,
                                cached |-> @.cached, at |-> @.index + 1]]
  /\ UNCHANGED <<log, numEntries, pending, adding, startGsn, mode, cur, op,
                 delivered, aborted>>

(* Spin until the entry is set.                                            *)
PollSet(t) ==
  /\ sub[t].pc = "wait" /\ log[sub[t].at].set
  /\ sub' = [sub EXCEPT ![t].pc = "send"]
  /\ UNCHANGED <<log, numEntries, pending, adding, startGsn, mode, cur, op,
                 delivered, aborted>>

(* The entry is copied into a message to the subscriber.                   *)
Send(t) ==
  /\ sub[t].pc = "send"
  /\ LET e == log[sub[t].at] IN
       delivered' = [delivered EXCEPT ![t] =
                       Append(@, [gsn |-> e.gsn, client |-> e.client, val |-> e.data])]
  /\ sub' = [sub EXCEPT ![t].pc = "seek"]
  /\ UNCHANGED <<log, numEntries, pending, adding, startGsn, mode, cur, op, aborted>>

-----------------------------------------------------------------------------
(* Patches, which the control thread inserts for a frozen client, are left *)
(* to Replication.                                                         *)
Control ==
  \/ \E owners \in Schedules : StorageSlots(owners)
  \/ Yield
  \/ Publish
  \/ \E c \in Clients : FinalizeBegin(c) \/ FinalizeStep(c) \/ FinalizeEnd(c)

ClientThread(c) ==
  \/ Freeze(c)
  \/ \E d \in Payloads \cup {NoOp}, n \in 1 .. MaxSlots : InsertBegin(c, d, n)
  \/ InsertClose(c)
  \/ InsertData(c)
  \/ InsertSet(c)
  \/ InsertAssertFails(c)

SubscriberThread(t) ==
  LoadNumEntries(t) \/ Seek(t) \/ PollSet(t) \/ Send(t)

Next ==
  /\ ~aborted
  /\ \/ Control
     \/ \E c \in Clients : ClientThread(c)
     \/ \E t \in Threads : SubscriberThread(t)

Spec == Init /\ [][Next]_vars

(* Every thread of the server runs its polling loop for ever, and a client *)
(* that has been frozen is eventually finalized by the ordering service.   *)
(* Nothing forces clients to insert or to leave, or epochs to come.        *)
FairSpec ==
  /\ Spec
  /\ WF_vars(~aborted /\ Yield)
  /\ WF_vars(~aborted /\ Publish)
  /\ \A c \in Clients :
       /\ WF_vars(~aborted /\ FinalizeBegin(c))
       /\ WF_vars(~aborted /\ (FinalizeStep(c) \/ FinalizeEnd(c)))
       /\ WF_vars(~aborted /\ (InsertClose(c) \/ InsertData(c) \/ InsertSet(c)))
  /\ \A t \in Threads : WF_vars(~aborted /\ SubscriberThread(t))

-----------------------------------------------------------------------------
(* Types of all variables.                                                 *)
TypeOK ==
  /\ log \in Seq(Entry)
  /\ numEntries \in Nat
  /\ pending \in Seq(Clients \cup {Other})
  /\ adding \in BOOLEAN
  /\ startGsn \in Nat
  /\ mode \in [Clients -> {"open", "frozen", "final"}]
  /\ cur \in [Clients -> Nat]
  /\ op \in [Clients -> Ops]
  /\ sub \in [Threads -> [pc : {"seek", "wait", "send"}, index : Nat,
                          cached : Nat, at : Nat]]
  /\ delivered \in [Threads -> Seq([gsn : Nat, client : Clients,
                                    val : Payloads \cup {NoOp}])]
  /\ aborted \in BOOLEAN

(* A client's slots are used up in order and without holes: everything     *)
(* behind its position is set, everything ahead of it is untouched, and    *)
(* the slot at the position is set unless an insert is still busy with it. *)
ClientPrefix ==
  \A i \in DOMAIN log :
    LET c == log[i].client IN
    /\ i < cur[c] => log[i].set
    /\ i > cur[c] => ~log[i].set /\ log[i].data = NoOp
    /\ i = cur[c] => (log[i].set <=> op[c].kind \notin {"insert", "publish"})

(* Once close has run for a finalized client none of its slots is left     *)
(* open: no subscriber thread waits for a slot that nobody will fill.      *)
FinalizedIsFull ==
  \A i \in DOMAIN log :
    mode[log[i].client] = "final" /\ op[log[i].client].kind = "idle" => log[i].set

(* A subscriber thread never looks beyond the published entries, and it    *)
(* copies only entries that have been released to it.                      *)
IteratorInBounds ==
  \A t \in Threads :
    /\ sub[t].cached <= numEntries
    /\ sub[t].pc # "seek" => sub[t].at \in 1 .. numEntries
    /\ sub[t].pc = "send" => log[sub[t].at].set

(* The content of a slot that has been released never changes, and the     *)
(* log never loses or renumbers a slot.                                    *)
ReleasedIsFinal ==
  [][\A i \in DOMAIN log :
       /\ i \in DOMAIN log'
       /\ log'[i].gsn = log[i].gsn /\ log'[i].client = log[i].client
       /\ log[i].set => log'[i] = log[i]]_vars

(* The server as a write-once log: a slot is empty until it is set, and a  *)
(* thread has moved on once it has sent what it waited for.                *)
SlotsOf(l) ==
  [i \in DOMAIN l |->
     [gsn |-> l[i].gsn, client |-> l[i].client,
      val |-> IF l[i].set THEN l[i].data ELSE Other]]

AbstractCursor ==
  [t \in Threads |->
     IF sub[t].pc = "seek" THEN sub[t].index ELSE sub[t].index - NumThreads]

Abstract == INSTANCE WriteOnceLog WITH
  Owners <- Clients,
  Values <- Payloads \cup {NoOp},
  Empty <- Other,
  slots <- SlotsOf(log),
  cursor <- AbstractCursor

(* Every behaviour of the threads is one of the write-once log.            *)
ImplementsWriteOnceLog == Abstract!Spec

(* When every client has left (or was suspected), every slot of the log is *)
(* eventually delivered, the unused ones as no-ops, unless the process has *)
(* failed an assertion.                                                    *)
EverySlotDelivered ==
  \A g \in 0 .. MaxGsn - 1 :
    /\ \E i \in DOMAIN log : log[i].gsn = g
    /\ \A c \in Clients : mode[c] # "open"
    ~> aborted \/ \E t \in Threads : \E k \in DOMAIN delivered[t] :
                     delivered[t][k].gsn = g
=============================================================================
