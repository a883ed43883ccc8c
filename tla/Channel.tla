------------------------------- MODULE Channel ------------------------------
(***************************************************************************)
(* One direction of a connection: a send queue and the receive queues of   *)
(* its destination (network/send_queue.cpp, network/recv_queue.cpp).       *)
(*                                                                         *)
(* A message is written by RDMA into a circular buffer at the destination, *)
(* at an offset that the sender picks alone, and announced by a completion *)
(* that carries the offset.  Nothing tells the sender how far the receiver *)
(* has read: the only brake is the number of receive requests, of which    *)
(* every message uses one up.                                              *)
(***************************************************************************)
EXTENDS Integers, Sequences, FiniteSets

CONSTANTS
  RingSize,        \* RECEIVE_BUFFER_SIZE
  MaxLength,       \* SEND_BUFFER_SIZE
  MaxInline,       \* MAX_INLINE_DATA
  Alignment,       \* MESSAGE_ALIGNMENT
  Lengths,         \* lengths of the messages sent
  MaxOutstanding,  \* max_outstanding_ of the send queue
  SendRequests,    \* MAX_OUTSTANDING_REQUESTS, max_send_wr of the queue pair
  NumBuffers,      \* send buffers that the sender uses in turn
  NumQueues,       \* xrc_queue_nums_.size()
  RecvRequests,    \* MAX_RECEIVE_REQUESTS
  BatchSize,       \* RECEIVE_BATCH_SIZE
  QueuePairs,      \* MAX_QUEUE_PAIRS
  ImmValues,       \* 2^32
  RingIndex,       \* index_ of this connection's receive buffer
  EarlyWrite,      \* may the device write a payload before it has a receive request?
  MaxMessages      \* bound

ASSUME SizesAssumption ==
  /\ {RingSize, MaxLength, Alignment, SendRequests, NumBuffers, NumQueues, RecvRequests,
      BatchSize, QueuePairs, ImmValues} \subseteq Nat \ {0}
  /\ {MaxInline, MaxMessages} \subseteq Nat
ASSUME LengthsAssumption == Lengths \subseteq 1 .. MaxLength
ASSUME OutstandingAssumption == MaxOutstanding \in 1 .. SendRequests
(* A sender takes one buffer more than messages may be outstanding; the    *)
(* lock service takes fewer, and its requests are sent inline.             *)
ASSUME BuffersAssumption ==
  NumBuffers > MaxOutstanding \/ \A len \in Lengths : len <= MaxInline
ASSUME RecvRequestsAssert == RecvRequests * MaxLength <= RingSize
ASSUME QueuePairsAssert == QueuePairs * RingSize <= ImmValues
ASSUME IndexAssumption == RingIndex \in 0 .. QueuePairs - 1
ASSUME EarlyAssumption == EarlyWrite \in BOOLEAN

VARIABLES
  pc,         \* sender: "fill", "send", "sync"
  msg,        \* number of the message being sent, or of the last one sent
  req,        \* its length, destination, and whether to synchronize
  sent,       \* sent_messages_
  offset,     \* offset_
  bufs,       \* message in each send buffer
  wire,       \* requests posted and not yet executed
  placed,     \* is the payload of the first of them in the ring?
  sendCq,     \* completion queue of the sender
  reaped,     \* last message whose completion the sender has seen
  ring,       \* message in each byte of the circular buffer
  free,       \* per receive queue: receive requests at the device
  numPosted,  \* per receive queue: num_posted_
  recvCq,     \* per receive queue: its completion queue
  batch,      \* per receive queue: messages polled, not yet processed
  done        \* messages processed

sendVars == <<pc, msg, req, sent, offset, bufs, reaped>>
recvVars == <<numPosted, batch, done>>
vars == <<sendVars, recvVars, wire, placed, sendCq, ring, free, recvCq>>

Queues == 0 .. NumQueues - 1

Init ==
  /\ pc = "fill" /\ msg = 0 /\ sent = 0 /\ offset = 0 /\ reaped = 0
  /\ req = [len |-> 1, dest |-> 0, sync |-> FALSE]
  /\ bufs = [b \in 0 .. NumBuffers - 1 |-> 0]
  /\ wire = << >> /\ placed = FALSE /\ sendCq = << >>
  /\ ring = [b \in 0 .. RingSize - 1 |-> 0]
  /\ free = [q \in Queues |-> RecvRequests]
  /\ numPosted = [q \in Queues |-> RecvRequests]
  /\ recvCq = [q \in Queues |-> << >>]
  /\ batch = [q \in Queues |-> << >>]
  /\ done = {}

-----------------------------------------------------------------------------
(* Sender.                                                                 *)

(* Mutation: one buffer fewer.                                             *)
MutBufferOf(m) == m % (NumBuffers - 1)

(* wraparound_iterator: the buffer that message m is put in.               *)
BufferOf(m) == m % NumBuffers

(* The receive queue that message m is for: the queues take turns.         *)
Destination(m) == m % NumQueues

(* Take the next buffer and fill it; then call send.                       *)
Fill(len, sync) ==
  /\ pc = "fill" /\ msg < MaxMessages
  /\ msg' = msg + 1
  /\ req' = [len |-> len, dest |-> Destination(msg + 1), sync |-> sync]
  /\ bufs' = [bufs EXCEPT ![BufferOf(msg + 1)] = msg + 1]
  /\ pc' = "send"
  /\ UNCHANGED <<sent, offset, reaped, recvVars, wire, placed, sendCq, ring, free, recvCq>>

(* detail::poll: wait for one completion of the send queue.                *)
PollSendCq ==
  /\ sendCq # << >>
  /\ reaped' = Head(sendCq)
  /\ sendCq' = Tail(sendCq)

(* Mutation: one message more.                                             *)
MutFull == sent > MaxOutstanding

(* As many messages are outstanding as may be.                             *)
Full == sent >= MaxOutstanding

(* At the start of send, wait for the outstanding messages.                *)
Synchronize ==
  /\ pc = "send" /\ Full
  /\ PollSendCq
  /\ sent' = 0
  /\ UNCHANGED <<pc, msg, req, offset, bufs, recvVars, wire, placed, ring, free, recvCq>>

(* Where a message of this length goes.                                    *)
Place(len) == IF offset + len <= RingSize THEN offset ELSE 0

(* Mutation: align to the boundary below.                                  *)
MutAlign(n) == (n \div Alignment) * Alignment

Align(n) == ((n + Alignment - 1) \div Alignment) * Alignment

(* The immediate data; the index is below QueuePairs, a power of two.      *)
Immediate(off) == (RingIndex + off * QueuePairs) % ImmValues

(* Does the request ask for a completion?                                  *)
Signaled == req.sync \/ sent + 1 >= MaxOutstanding

(* The rest of send, up to the wait of a synchronous one.                  *)
Post ==
  LET off == Place(req.len) IN
  /\ pc = "send" /\ ~Full
  /\ sent' = IF req.sync THEN sent ELSE sent + 1
  /\ wire' = Append(wire, [id |-> msg, inline |-> req.len <= MaxInline, at |-> off,
       imm |-> Immediate(off), len |-> req.len, dest |-> req.dest, signaled |-> Signaled])
  /\ offset' = Align(off + req.len)
  /\ pc' = IF req.sync THEN "sync" ELSE "fill"
  /\ UNCHANGED <<msg, req, bufs, reaped, recvVars, placed, sendCq, ring, free, recvCq>>

(* The wait of a synchronous send.                                         *)
WaitSync ==
  /\ pc = "sync"
  /\ PollSendCq
  /\ sent' = 0
  /\ pc' = "fill"
  /\ UNCHANGED <<msg, req, offset, bufs, recvVars, wire, placed, ring, free, recvCq>>

-----------------------------------------------------------------------------
(* The network devices.  Requests of a queue pair are executed in order;   *)
(* the payload is in memory before the completion and, with EarlyWrite,    *)
(* while the device still waits for a receive request (RNR_RETRY: retries  *)
(* are without limit).                                                     *)

WritePayload ==
  LET wr == Head(wire)
      payload == IF wr.inline THEN wr.id ELSE bufs[BufferOf(wr.id)] IN
  /\ wire # << >> /\ ~placed
  /\ EarlyWrite \/ free[wr.dest] > 0
  /\ ring' = [b \in DOMAIN ring |->
       IF b \in wr.at .. wr.at + wr.len - 1 THEN payload ELSE ring[b]]
  /\ placed' = TRUE
  /\ UNCHANGED <<sendVars, recvVars, wire, sendCq, free, recvCq>>

Complete ==
  LET wr == Head(wire) IN
  /\ wire # << >> /\ placed /\ free[wr.dest] > 0
  /\ free' = [free EXCEPT ![wr.dest] = @ - 1]
  /\ recvCq' = [recvCq EXCEPT ![wr.dest] =
       Append(@, [id |-> wr.id, imm |-> wr.imm, len |-> wr.len])]
  /\ sendCq' = IF wr.signaled THEN Append(sendCq, wr.id) ELSE sendCq
  /\ wire' = Tail(wire)
  /\ placed' = FALSE
  /\ UNCHANGED <<sendVars, recvVars, ring>>

-----------------------------------------------------------------------------
(* Receiver.                                                               *)

(* The position in the ring that a completion announces.                   *)
IndexOf(imm) == imm % QueuePairs
OffsetOf(imm) == imm \div QueuePairs

(* recv: poll the completion queue.                                        *)
Recv(q) ==
  LET n == IF Len(recvCq[q]) < BatchSize THEN Len(recvCq[q]) ELSE BatchSize IN
  /\ batch[q] = << >> /\ recvCq[q] # << >>
  /\ batch' = [batch EXCEPT ![q] = SubSeq(recvCq[q], 1, n)]
  /\ recvCq' = [recvCq EXCEPT ![q] = SubSeq(@, n + 1, Len(@))]
  /\ numPosted' = [numPosted EXCEPT ![q] = @ - n]
  /\ UNCHANGED <<sendVars, done, wire, placed, sendCq, ring, free>>

(* Receive requests after the check at the end of recv, with n before it.  *)
Armed(n) == IF n < RecvRequests \div 2 THEN RecvRequests ELSE n

(* Mutation: only the first message of a batch is processed.               *)
MutProcessFirst(q) ==
  LET posted == Armed(numPosted[q]) IN
  /\ batch[q] # << >>
  /\ batch' = [batch EXCEPT ![q] = << >>]
  /\ done' = done \cup {Head(batch[q]).id}
  /\ numPosted' = [numPosted EXCEPT ![q] = posted]
  /\ free' = [free EXCEPT ![q] = @ + posted - numPosted[q]]
  /\ UNCHANGED <<sendVars, wire, placed, sendCq, ring, recvCq>>

(* The callback on one message; after the last one, arm.                   *)
Process(q) ==
  LET posted == IF Len(batch[q]) = 1 THEN Armed(numPosted[q]) ELSE numPosted[q] IN
  /\ batch[q] # << >>
  /\ batch' = [batch EXCEPT ![q] = Tail(@)]
  /\ done' = done \cup {Head(batch[q]).id}
  /\ numPosted' = [numPosted EXCEPT ![q] = posted]
  /\ free' = [free EXCEPT ![q] = @ + posted - numPosted[q]]
  /\ UNCHANGED <<sendVars, wire, placed, sendCq, ring, recvCq>>

-----------------------------------------------------------------------------
Sending == Synchronize \/ Post \/ WaitSync
Device == WritePayload \/ Complete
Receiving(q) == Recv(q) \/ Process(q)

(* The sender has no more messages.                                        *)
Finished ==
  /\ msg = MaxMessages /\ pc = "fill"
  /\ UNCHANGED vars

Next ==
  \/ \E len \in Lengths, sync \in BOOLEAN : Fill(len, sync)
  \/ Sending
  \/ Device
  \/ \E q \in Queues : Receiving(q)
  \/ Finished

Spec == Init /\ [][Next]_vars

(* send spins until it has its completion, the devices are reliable, and   *)
(* the polling loops of the receiver run for ever.                         *)
FairSpec ==
  /\ Spec
  /\ WF_vars(Sending) /\ WF_vars(Device)
  /\ \A q \in Queues : WF_vars(Receiving(q))

-----------------------------------------------------------------------------
(* Messages announced to queue q whose callback has not returned.          *)
Unread(q) ==
  {recvCq[q][k] : k \in DOMAIN recvCq[q]} \cup {batch[q][k] : k \in DOMAIN batch[q]}

(* Until its callback has returned, a message is in the ring where its     *)
(* completion says, untouched by later messages.  This needs room in the   *)
(* ring for a message more than there are receive requests, at the worst   *)
(* alignment, and for the bytes that a wrap leaves at the end: more than   *)
(* storage::add_subscriber asks for, which compares only the number of the *)
(* longest messages that fit into the ring with the receive requests       *)
(* (storage.cpp:165).                                                      *)
UnreadIntact ==
  \A q \in Queues : \A m \in Unread(q) :
    /\ IndexOf(m.imm) = RingIndex
    /\ \A b \in OffsetOf(m.imm) .. OffsetOf(m.imm) + m.len - 1 :
         b \in DOMAIN ring /\ ring[b] = m.id

(* A send buffer is not filled again before the device has read it.        *)
BufferUntilSent ==
  \A k \in DOMAIN wire : wire[k].inline \/ bufs[BufferOf(wire[k].id)] = wire[k].id

(* Neither the send queue, of SendRequests entries that are freed when a   *)
(* completion is polled, nor the completion queue, of one entry, overflow. *)
SendQueueFits ==
  /\ (IF pc = "send" THEN msg - 1 ELSE msg) - reaped <= SendRequests
  /\ Len(sendCq) <= 1

(* Every message is processed in the end.                                  *)
EveryMessageProcessed == \A m \in 1 .. MaxMessages : msg >= m ~> m \in done
=============================================================================
