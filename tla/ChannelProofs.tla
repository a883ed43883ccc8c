---------------------------- MODULE ChannelProofs ---------------------------
(***************************************************************************)
(* Proofs about Channel: the send queue does not overflow, a send buffer   *)
(* is not filled again before the device has read it and, if the ring has  *)
(* room for what the receive requests let through, a message is intact     *)
(* until its callback has returned.                                        *)
(***************************************************************************)
EXTENDS Channel, SequenceTheorems, FiniteSetTheorems, TLAPS

-----------------------------------------------------------------------------
(* Facts about natural numbers.                                            *)

(* A remainder is below its divisor.                                       *)
LEMMA ModRange ==
  ASSUME NEW g \in Nat, NEW n \in Nat \ {0}
  PROVE  g % n \in 0 .. n - 1
OBVIOUS

(* A number is made up of its quotient and its remainder.                  *)
LEMMA DivMod ==
  ASSUME NEW g \in Nat, NEW n \in Nat \ {0}
  PROVE  g \div n \in Nat /\ g = n * (g \div n) + (g % n)
OBVIOUS

(* The product with a fixed factor grows with the other one.               *)
LEMMA TimesMonotone ==
  ASSUME NEW n \in Nat \ {0}, NEW c \in Nat, NEW d \in Nat, c + 1 <= d
  PROVE  n * c + n <= n * d
<1>1. PICK e \in Nat : d = c + 1 + e
  <2>1. d - c - 1 \in Nat /\ d = c + 1 + (d - c - 1)
    OBVIOUS
  <2>2. QED
    BY <2>1
<1>2. n * (c + 1 + e) = n * c + n + n * e
  OBVIOUS
<1>3. n * e \in Nat /\ n * c \in Nat
  OBVIOUS
<1>4. QED
  BY <1>1, <1>2, <1>3

(* Quotients grow with the dividend.                                       *)
LEMMA DivMonotone ==
  ASSUME NEW g \in Nat, NEW h \in Nat, NEW n \in Nat \ {0}, g <= h
  PROVE  g \div n <= h \div n
<1> DEFINE c == g \div n
           d == h \div n
<1>1. /\ c \in Nat /\ d \in Nat
      /\ g = n * c + (g % n) /\ h = n * d + (h % n)
      /\ g % n \in 0 .. n - 1 /\ h % n \in 0 .. n - 1
  BY DivMod, ModRange
<1>2. ASSUME d + 1 <= c PROVE FALSE
  <2> HIDE DEF c, d
  <2>1. n * d + n <= n * c
    BY <1>1, <1>2, TimesMonotone
  <2>2. n * d \in Nat /\ n * c \in Nat
    BY <1>1
  <2>3. QED
    BY <1>1, <2>1, <2>2
<1> HIDE DEF c, d
<1>3. c <= d
  BY <1>1, <1>2
<1>4. QED
  BY <1>3 DEF c, d

Request == [id : Nat, inline : BOOLEAN, at : Nat, imm : Nat, len : 1 .. MaxLength,
            dest : Queues, signaled : BOOLEAN]

Announcement == [id : Nat, imm : Nat, len : 1 .. MaxLength]

(* The last message that was given to the device, and the last one that    *)
(* the device has executed.                                                *)
Posted == IF pc = "send" THEN msg - 1 ELSE msg

Executed == Posted - Len(wire)

-----------------------------------------------------------------------------
(* Types, and the books of a receive queue: a request that num_posted_     *)
(* counts is at the device or used up by a message still to be polled, and *)
(* those of the batch are not posted again before it is processed.         *)
Types ==
  /\ pc \in {"fill", "send", "sync"} /\ msg \in Nat
  /\ req \in [len : 1 .. MaxLength, dest : Queues, sync : BOOLEAN]
  /\ sent \in Nat /\ offset \in Nat /\ reaped \in Nat
  /\ bufs \in [0 .. NumBuffers - 1 -> Nat]
  /\ wire \in Seq(Request) /\ placed \in BOOLEAN /\ sendCq \in Seq(Nat)
  /\ ring \in [0 .. RingSize - 1 -> Nat]
  /\ free \in [Queues -> Nat] /\ numPosted \in [Queues -> Nat]
  /\ recvCq \in [Queues -> Seq(Announcement)]
  /\ batch \in [Queues -> Seq(Announcement)]

Credits ==
  \A q \in Queues :
    /\ numPosted[q] = free[q] + Len(recvCq[q])
    /\ numPosted[q] + Len(batch[q]) <= RecvRequests

TypeInv == Types /\ Credits

(* A completion was asked for that the sender has not polled.              *)
Pending == pc = "sync" \/ sent = MaxOutstanding

(* The books of the send queue: sent_messages_ counts the messages whose   *)
(* completion the sender has not seen, except a synchronous one; only the  *)
(* last of them asks for a completion, and only if the sender will wait    *)
(* for it before it posts another.                                         *)
SenderBooks ==
  /\ pc = "send" => msg \in Nat \ {0} /\ req.dest = Destination(msg) /\ req.len \in Lengths
  /\ Posted - reaped = sent + (IF pc = "sync" THEN 1 ELSE 0)
  /\ sent <= MaxOutstanding
  /\ pc = "sync" => sent < MaxOutstanding

WireBooks ==
  /\ Len(wire) <= Posted - reaped
  /\ \A k \in 1 .. Len(wire) :
       /\ wire[k].id = Executed + k
       /\ wire[k].dest = Destination(wire[k].id)
       /\ wire[k].signaled <=> (k = Len(wire) /\ Pending)
       /\ wire[k].inline \/ \E len \in Lengths : len > MaxInline

CqBooks == sendCq = IF Pending /\ wire = << >> THEN << Posted >> ELSE << >>

SendInv == SenderBooks /\ WireBooks /\ CqBooks

(* The last messages are in their buffers.                                 *)
BufInv == \A m \in 1 .. msg : m + NumBuffers > msg => bufs[BufferOf(m)] = m

-----------------------------------------------------------------------------
(* When message c was the last one, e, behind which r messages were        *)
(* announced to queue q, is where it should be: queue q gets every         *)
(* NumQueues-th message.                                                   *)
Late(c, q, e, r) ==
  /\ e.id % NumQueues = q
  /\ e.id + r * NumQueues \in c - NumQueues + 1 .. c

LateInv ==
  \A q \in Queues :
    /\ \A k \in 1 .. Len(recvCq[q]) : Late(Executed, q, recvCq[q][k], Len(recvCq[q]) - k)
    /\ \A k \in 1 .. Len(batch[q]) :
         Late(Executed, q, batch[q][k], Len(batch[q]) - k + Len(recvCq[q]))

(* How far apart an unread message and one being written may be.           *)
Window == NumQueues * RecvRequests - (IF EarlyWrite THEN 0 ELSE 1)

(* The ring holds a window of the longest messages, and the gap that is    *)
(* left at its end.                                                        *)
Room == (Window + 1) * Align(MaxLength) + MaxLength - 1 <= RingSize

(* The places in the ring of the messages posted and not yet processed.    *)
Spot == [id : Nat, at : Nat, len : 1 .. MaxLength]

RequestSpot(w) == [id |-> w.id, at |-> w.at, len |-> w.len]

EntrySpot(e) == [id |-> e.id, at |-> OffsetOf(e.imm), len |-> e.len]

Sent == {RequestSpot(wire[k]) : k \in 1 .. Len(wire)}

Received == UNION {{EntrySpot(e) : e \in Unread(q)} : q \in Queues}

Live == Sent \cup Received

(* Where the next message would go, seen from place x: after it, or on the *)
(* next lap before it.                                                     *)
Follows(x, off, next) ==
  next - x.id <= Window + 1 =>
    \/ /\ x.at + x.len <= off
       /\ off - x.at <= (next - x.id) * Align(MaxLength)
    \/ off + RingSize - MaxLength + 1 - x.at <= (next - x.id) * Align(MaxLength)

Fits(x, last) == x \in Spot /\ x.id \in 1 .. last /\ x.at + x.len <= RingSize

Apart(x, y) == x.at + x.len <= y.at \/ y.at + y.len <= x.at

(* The immediate data tells the place.                                     *)
ImmInv ==
  /\ \A k \in 1 .. Len(wire) : wire[k].imm = Immediate(wire[k].at)
  /\ \A q \in Queues : \A e \in Unread(q) : IndexOf(e.imm) = RingIndex

(* The places fit the ring, and those of two messages that may be there at *)
(* the same time do not overlap.                                           *)
SpotInv ==
  /\ \A x \in Live : Fits(x, Posted) /\ Follows(x, offset, Posted + 1)
  /\ \A x, y \in Live : x.id < y.id /\ y.id - x.id <= Window => Apart(x, y)

PlaceInv == offset % Alignment = 0 /\ ImmInv /\ SpotInv

(* A message is in the ring at its place.                                  *)
Holds(x) == \A b \in x.at .. x.at + x.len - 1 : ring[b] = x.id

RingInv ==
  /\ placed => wire # << >> /\ Holds(RequestSpot(wire[1]))
  /\ \A x \in Received : Holds(x)

-----------------------------------------------------------------------------
(* What the assumptions say of the types of the constants.                 *)
LEMMA ConstantTypes ==
  /\ RingSize \in Nat \ {0} /\ MaxLength \in Nat \ {0} /\ Alignment \in Nat \ {0}
  /\ SendRequests \in Nat \ {0} /\ NumBuffers \in Nat \ {0} /\ NumQueues \in Nat \ {0}
  /\ RecvRequests \in Nat \ {0} /\ BatchSize \in Nat \ {0} /\ QueuePairs \in Nat \ {0}
  /\ ImmValues \in Nat \ {0} /\ MaxInline \in Nat /\ MaxMessages \in Nat
  /\ MaxOutstanding \in Nat \ {0} /\ MaxOutstanding <= SendRequests
  /\ RingIndex \in 0 .. QueuePairs - 1 /\ Lengths \subseteq 1 .. MaxLength
  /\ EarlyWrite \in BOOLEAN
BY SizesAssumption, OutstandingAssumption, IndexAssumption, LengthsAssumption, EarlyAssumption

(* The parts of a sequence without its first element.                      *)
LEMMA FirstTaken ==
  ASSUME NEW S, NEW q \in Seq(S), q # << >>
  PROVE  /\ Head(q) \in S /\ Head(q) = q[1]
         /\ Tail(q) \in Seq(S) /\ Len(Tail(q)) = Len(q) - 1 /\ Len(q) \in Nat \ {0}
         /\ \A i \in 1 .. Len(Tail(q)) : Tail(q)[i] = q[i + 1]
OBVIOUS

(* The parts of a sequence with one element more.                          *)
LEMMA LastAdded ==
  ASSUME NEW S, NEW q \in Seq(S), NEW e \in S
  PROVE  /\ Append(q, e) \in Seq(S) /\ Len(Append(q, e)) = Len(q) + 1 /\ Len(q) \in Nat
         /\ \A i \in 1 .. Len(q) : Append(q, e)[i] = q[i]
         /\ Append(q, e)[Len(q) + 1] = e /\ Append(q, e) # << >>
OBVIOUS

(* A sequence cut in two.                                                  *)
LEMMA CutInTwo ==
  ASSUME NEW S, NEW q \in Seq(S), NEW n \in 0 .. Len(q)
  PROVE  /\ SubSeq(q, 1, n) \in Seq(S) /\ Len(SubSeq(q, 1, n)) = n
         /\ SubSeq(q, n + 1, Len(q)) \in Seq(S) /\ Len(SubSeq(q, n + 1, Len(q))) = Len(q) - n
         /\ \A i \in 1 .. n : SubSeq(q, 1, n)[i] = q[i]
         /\ \A i \in 1 .. Len(q) - n : SubSeq(q, n + 1, Len(q))[i] = q[n + i]
<1>1. Len(q) \in Nat /\ \A i \in 1 .. Len(q) : q[i] \in S
  OBVIOUS
<1>2. SubSeq(q, 1, n) \in Seq(S) /\ Len(SubSeq(q, 1, n)) = n
      /\ \A i \in 1 .. n : SubSeq(q, 1, n)[i] = q[i]
  BY <1>1, SubSeqProperties
<1>3. SubSeq(q, n + 1, Len(q)) \in Seq(S) /\ Len(SubSeq(q, n + 1, Len(q))) = Len(q) - n
      /\ \A i \in 1 .. Len(q) - n : SubSeq(q, n + 1, Len(q))[i] = q[n + i]
  BY <1>1, SubSeqProperties
<1>4. QED
  BY <1>2, <1>3

(* Only an empty sequence has no elements.                                 *)
LEMMA EmptyLen ==
  ASSUME NEW S, NEW q \in Seq(S)
  PROVE  Len(q) \in Nat /\ (q = << >> <=> Len(q) = 0)
OBVIOUS

(* Every operation on the ring's offsets stays within the natural numbers. *)
LEMMA AlignType ==
  ASSUME NEW n \in Nat
  PROVE  Align(n) \in Nat
<1>1. PICK d \in Nat : d = (n + Alignment - 1) \div Alignment
  BY ConstantTypes, DivMod
<1>2. QED
  BY <1>1, ConstantTypes DEF Align

(* The immediate of a message is a natural number.                         *)
LEMMA ImmediateType ==
  ASSUME NEW off \in Nat
  PROVE  Immediate(off) \in Nat
<1>1. PICK o \in Nat : o = off * QueuePairs
  BY ConstantTypes
<1>2. RingIndex + o \in Nat
  BY ConstantTypes
<1>3. QED
  BY <1>1, <1>2, ConstantTypes DEF Immediate

(* Where a message is put, and where the next one starts.                  *)
LEMMA PlaceType ==
  ASSUME offset \in Nat, NEW len
  PROVE  Place(len) \in Nat
BY DEF Place

(* The numbers of receive requests after recv has armed.                   *)
LEMMA ArmedType ==
  ASSUME NEW n \in Nat, n <= RecvRequests
  PROVE  Armed(n) \in Nat /\ n <= Armed(n) /\ Armed(n) <= RecvRequests
BY ConstantTypes DEF Armed

(* The values of a receive queue.                                          *)
LEMMA QueueTypes ==
  ASSUME TypeInv, NEW q \in Queues
  PROVE  /\ free[q] \in Nat /\ numPosted[q] \in Nat
         /\ recvCq[q] \in Seq(Announcement) /\ Len(recvCq[q]) \in Nat
         /\ batch[q] \in Seq(Announcement) /\ Len(batch[q]) \in Nat
         /\ numPosted[q] = free[q] + Len(recvCq[q])
         /\ numPosted[q] + Len(batch[q]) <= RecvRequests
<1>1. /\ free[q] \in Nat /\ numPosted[q] \in Nat
      /\ recvCq[q] \in Seq(Announcement) /\ batch[q] \in Seq(Announcement)
  BY DEF TypeInv, Types
<1>2. Len(recvCq[q]) \in Nat /\ Len(batch[q]) \in Nat
  BY <1>1
<1>3. QED
  BY <1>1, <1>2, Zenon DEF TypeInv, Credits

(* The types hold at the start.                                            *)
LEMMA TypeInit == Init => TypeInv
<1> SUFFICES ASSUME Init PROVE TypeInv
  OBVIOUS
<1>1. Queues \subseteq Nat /\ 0 \in Queues
  BY ConstantTypes DEF Queues
<1>2. << >> \in Seq(Request) /\ << >> \in Seq(Announcement) /\ << >> \in Seq(Nat)
  OBVIOUS
<1>3. Types
  <2>1. pc \in {"fill", "send", "sync"} /\ req \in [len : 1 .. MaxLength, dest : Queues, sync : BOOLEAN]
    BY <1>1, ConstantTypes DEF Init
  <2>2. bufs \in [0 .. NumBuffers - 1 -> Nat] /\ ring \in [0 .. RingSize - 1 -> Nat]
    BY DEF Init
  <2>3. free \in [Queues -> Nat] /\ numPosted \in [Queues -> Nat]
    BY ConstantTypes DEF Init
  <2>4. recvCq \in [Queues -> Seq(Announcement)] /\ batch \in [Queues -> Seq(Announcement)]
    BY <1>2 DEF Init
  <2>5. msg \in Nat /\ sent \in Nat /\ offset \in Nat /\ reaped \in Nat /\ placed \in BOOLEAN
        /\ wire \in Seq(Request) /\ sendCq \in Seq(Nat)
    BY <1>2 DEF Init
  <2>6. QED
    BY <2>1, <2>2, <2>3, <2>4, <2>5, Zenon DEF Types
<1>4. Credits
  BY <1>1, <1>2, ConstantTypes DEF Init, Credits
<1>5. QED
  BY <1>3, <1>4 DEF TypeInv

(* ... after a buffer has been filled,                                     *)
LEMMA TypeFill ==
  ASSUME TypeInv, NEW len \in Lengths, NEW sync \in BOOLEAN, Fill(len, sync)
  PROVE  TypeInv'
<1> USE DEF TypeInv
<1>0. msg + 1 \in Nat
  BY DEF Types
<1>1. Destination(msg + 1) \in Queues
  BY <1>0, ConstantTypes, ModRange DEF Destination, Queues
<1>2. req' \in [len : 1 .. MaxLength, dest : Queues, sync : BOOLEAN]
  <2>1. len \in 1 .. MaxLength
    BY LengthsAssumption
  <2>2. QED
    BY <1>1, <2>1 DEF Fill
<1>3. bufs' \in [0 .. NumBuffers - 1 -> Nat]
  BY <1>0 DEF Types, Fill
<1>4. Types'
  BY <1>0, <1>2, <1>3 DEF Types, Fill, recvVars
<1>5. Credits'
  BY DEF Credits, Fill, recvVars
<1>6. QED
  BY <1>4, <1>5

(* ... after a look at the completion queue,                               *)
LEMMA TypePoll ==
  ASSUME TypeInv, PollSendCq
  PROVE  reaped' \in Nat /\ sendCq' \in Seq(Nat)
BY DEF TypeInv, Types, PollSendCq

(* ... after a wait has begun,                                             *)
LEMMA TypeSynchronize ==
  ASSUME TypeInv, Synchronize
  PROVE  TypeInv'
<1> USE DEF TypeInv
<1>1. Types'
  BY TypePoll DEF Types, Synchronize, recvVars
<1>2. Credits'
  BY DEF Credits, Synchronize, recvVars
<1>3. QED
  BY <1>1, <1>2

(* ... and after it has ended;                                             *)
LEMMA TypeWaitSync ==
  ASSUME TypeInv, WaitSync
  PROVE  TypeInv'
<1> USE DEF TypeInv
<1>1. Types'
  BY TypePoll DEF Types, WaitSync, recvVars
<1>2. Credits'
  BY DEF Credits, WaitSync, recvVars
<1>3. QED
  BY <1>1, <1>2

(* The request that send posts.                                            *)
Posting == [id |-> msg, inline |-> req.len <= MaxInline, at |-> Place(req.len),
            imm |-> Immediate(Place(req.len)), len |-> req.len, dest |-> req.dest,
            signaled |-> Signaled]

(* what is about to be posted is a message;                                *)
LEMMA PostingType ==
  ASSUME TypeInv
  PROVE  Posting \in Request
<1>1. req.len \in 1 .. MaxLength /\ req.dest \in Queues /\ msg \in Nat /\ offset \in Nat
  BY DEF TypeInv, Types
<1>2. Place(req.len) \in Nat
  BY <1>1, PlaceType
<1>3. Immediate(Place(req.len)) \in Nat
  BY <1>2, ImmediateType
<1>4. Signaled \in BOOLEAN /\ (req.len <= MaxInline) \in BOOLEAN
  BY DEF Signaled, TypeInv, Types
<1>5. QED
  BY <1>1, <1>2, <1>3, <1>4 DEF Posting, Request

(* ... after it has been posted,                                           *)
LEMMA TypePost ==
  ASSUME TypeInv, Post
  PROVE  TypeInv'
<1> USE DEF TypeInv
<1>1. wire' = Append(wire, Posting)
  BY DEF Post, Posting
<1>2. wire' \in Seq(Request)
  BY <1>1, PostingType, LastAdded, Zenon DEF Types
<1>3. req.len \in 1 .. MaxLength /\ offset \in Nat
  BY DEF Types
<1>4. Place(req.len) + req.len \in Nat
  BY <1>3, PlaceType
<1>5. offset' \in Nat
  BY <1>4, AlignType DEF Post
<1>6. Types'
  BY <1>2, <1>5 DEF Types, Post, recvVars
<1>7. Credits'
  BY DEF Credits, Post, recvVars
<1>8. QED
  BY <1>6, <1>7

(* ... after the device has written the payload,                           *)
LEMMA TypeWrite ==
  ASSUME TypeInv, WritePayload
  PROVE  TypeInv'
<1> USE DEF TypeInv
<1>1. Head(wire) \in Request
  BY FirstTaken, Zenon DEF Types, WritePayload
<1>2. Head(wire).id \in Nat
  BY <1>1 DEF Request
<1>3. bufs[BufferOf(Head(wire).id)] \in Nat
  <2>1. BufferOf(Head(wire).id) \in 0 .. NumBuffers - 1
    BY <1>2, ConstantTypes, ModRange DEF BufferOf
  <2>2. QED
    BY <2>1 DEF Types
<1>4. ring' \in [0 .. RingSize - 1 -> Nat]
  BY <1>2, <1>3 DEF Types, WritePayload
<1>5. Types'
  BY <1>4 DEF Types, WritePayload, sendVars, recvVars
<1>6. Credits'
  BY DEF Credits, WritePayload, sendVars, recvVars
<1>7. QED
  BY <1>5, <1>6

(* The completion that the device of the receiver queues.                  *)
Announced == [id |-> Head(wire).id, imm |-> Head(wire).imm, len |-> Head(wire).len]

(* What the device does when a message has arrived.                        *)
LEMMA CompleteFacts ==
  ASSUME TypeInv, Complete
  PROVE  /\ Head(wire) \in Request /\ Head(wire) = wire[1] /\ wire # << >>
         /\ Len(wire) \in Nat \ {0} /\ Len(Tail(wire)) = Len(wire) - 1
         /\ Tail(wire) \in Seq(Request)
         /\ \A k \in 1 .. Len(Tail(wire)) : Tail(wire)[k] = wire[k + 1]
         /\ Announced \in Announcement /\ Head(wire).dest \in Queues
         /\ recvCq' = [recvCq EXCEPT ![Head(wire).dest] = Append(@, Announced)]
<1>1. wire # << >> /\ wire \in Seq(Request)
  BY DEF Complete, TypeInv, Types
<1>2. /\ Head(wire) \in Request /\ Head(wire) = wire[1]
      /\ Len(wire) \in Nat \ {0} /\ Len(Tail(wire)) = Len(wire) - 1
      /\ Tail(wire) \in Seq(Request)
      /\ \A k \in 1 .. Len(Tail(wire)) : Tail(wire)[k] = wire[k + 1]
  BY <1>1, FirstTaken, Zenon
<1>3. Announced \in Announcement /\ Head(wire).dest \in Queues
  BY <1>2 DEF Announced, Announcement, Request
<1>4. recvCq' = [recvCq EXCEPT ![Head(wire).dest] = Append(@, Announced)]
  BY DEF Complete, Announced
<1>5. QED
  BY <1>1, <1>2, <1>3, <1>4, Zenon

(* ... after a message has arrived,                                        *)
LEMMA TypeComplete ==
  ASSUME TypeInv, Complete
  PROVE  TypeInv'
<1>0. PICK d : d = Head(wire).dest
  OBVIOUS
<1>1. d \in Queues /\ Announced \in Announcement /\ Tail(wire) \in Seq(Request)
      /\ Head(wire) \in Request
      /\ recvCq' = [recvCq EXCEPT ![d] = Append(@, Announced)]
  BY <1>0, CompleteFacts, Zenon
<1>2. recvCq[d] \in Seq(Announcement) /\ free[d] \in Nat /\ free[d] > 0
  BY <1>0, <1>1, QueueTypes DEF Complete
<1>3. /\ Append(recvCq[d], Announced) \in Seq(Announcement)
      /\ Len(Append(recvCq[d], Announced)) = Len(recvCq[d]) + 1
  BY <1>1, <1>2, LastAdded, SMTT(30)
<1>4. Head(wire).id \in Nat
  BY <1>1 DEF Request
<1>5. sendCq' \in Seq(Nat)
  BY <1>4 DEF TypeInv, Types, Complete
<1>6. recvCq' \in [Queues -> Seq(Announcement)]
  BY <1>1, <1>3 DEF TypeInv, Types
<1>7. free' = [free EXCEPT ![d] = free[d] - 1] /\ free' \in [Queues -> Nat]
  <2>1. free' = [free EXCEPT ![d] = free[d] - 1]
    BY <1>0 DEF Complete
  <2>2. free[d] - 1 \in Nat /\ free \in [Queues -> Nat]
    BY <1>2 DEF TypeInv, Types
  <2>3. QED
    BY <2>1, <2>2
<1>8. Types'
  BY <1>1, <1>5, <1>6, <1>7 DEF TypeInv, Types, Complete, sendVars, recvVars
<1>9. Credits'
  <2> SUFFICES ASSUME NEW q \in Queues
               PROVE  /\ numPosted'[q] = free'[q] + Len(recvCq'[q])
                      /\ numPosted'[q] + Len(batch'[q]) <= RecvRequests
    BY DEF Credits
  <2>1. numPosted' = numPosted /\ batch' = batch
    BY DEF Complete, recvVars
  <2>2. DOMAIN free = Queues /\ DOMAIN recvCq = Queues
    BY DEF TypeInv, Types
  <2>3. CASE q = d
    BY <1>1, <1>2, <1>3, <1>7, <2>1, <2>2, <2>3, QueueTypes
  <2>4. CASE q # d
    BY <1>1, <1>7, <2>1, <2>2, <2>4, QueueTypes
  <2>5. QED
    BY <2>3, <2>4
<1>10. QED
  BY <1>8, <1>9 DEF TypeInv

(* What recv does to the queues.                                           *)
LEMMA RecvFacts ==
  ASSUME TypeInv, NEW q \in Queues, Recv(q)
  PROVE  \E n \in 0 .. Len(recvCq[q]) :
           /\ batch[q] = << >> /\ Len(batch[q]) = 0
           /\ batch' = [batch EXCEPT ![q] = SubSeq(recvCq[q], 1, n)]
           /\ recvCq' = [recvCq EXCEPT ![q] = SubSeq(recvCq[q], n + 1, Len(recvCq[q]))]
           /\ numPosted' = [numPosted EXCEPT ![q] = @ - n]
<1> DEFINE n == IF Len(recvCq[q]) < BatchSize THEN Len(recvCq[q]) ELSE BatchSize
<1>1. n \in 0 .. Len(recvCq[q])
  BY QueueTypes, ConstantTypes
<1>2. batch[q] = << >> /\ Len(batch[q]) = 0
  BY DEF Recv
<1>3. QED
  BY <1>1, <1>2 DEF Recv

(* ... after a completion has been polled,                                 *)
LEMMA TypeRecv ==
  ASSUME TypeInv, NEW q \in Queues, Recv(q)
  PROVE  TypeInv'
<1>0. PICK n \in 0 .. Len(recvCq[q]) :
           /\ batch[q] = << >> /\ Len(batch[q]) = 0
           /\ batch' = [batch EXCEPT ![q] = SubSeq(recvCq[q], 1, n)]
           /\ recvCq' = [recvCq EXCEPT ![q] = SubSeq(recvCq[q], n + 1, Len(recvCq[q]))]
           /\ numPosted' = [numPosted EXCEPT ![q] = @ - n]
  BY RecvFacts, Zenon
<1>1. recvCq[q] \in Seq(Announcement) /\ Len(recvCq[q]) \in Nat
  BY QueueTypes
<1>2. /\ SubSeq(recvCq[q], 1, n) \in Seq(Announcement)
      /\ SubSeq(recvCq[q], n + 1, Len(recvCq[q])) \in Seq(Announcement)
      /\ Len(SubSeq(recvCq[q], 1, n)) = n
      /\ Len(SubSeq(recvCq[q], n + 1, Len(recvCq[q]))) = Len(recvCq[q]) - n
  BY <1>1, CutInTwo, SMTT(30)
<1>3. numPosted[q] - n \in Nat
  BY QueueTypes
<1>4. /\ batch' \in [Queues -> Seq(Announcement)] /\ recvCq' \in [Queues -> Seq(Announcement)]
      /\ numPosted' \in [Queues -> Nat]
  BY <1>0, <1>2, <1>3 DEF TypeInv, Types
<1>5. Types'
  BY <1>4 DEF TypeInv, Types, Recv, sendVars
<1>6. Credits'
  <2> SUFFICES ASSUME NEW p \in Queues
               PROVE  /\ numPosted'[p] = free'[p] + Len(recvCq'[p])
                      /\ numPosted'[p] + Len(batch'[p]) <= RecvRequests
    BY DEF Credits
  <2>1. free' = free
    BY DEF Recv
  <2>2. DOMAIN numPosted = Queues /\ DOMAIN recvCq = Queues /\ DOMAIN batch = Queues
    BY DEF TypeInv, Types
  <2>3. CASE p = q
    <3>1. numPosted'[q] = numPosted[q] - n /\ Len(recvCq'[q]) = Len(recvCq[q]) - n
          /\ Len(batch'[q]) = n
      BY <1>0, <1>2, <2>2
    <3>2. /\ numPosted[q] = free[q] + Len(recvCq[q]) /\ numPosted[q] + Len(batch[q]) <= RecvRequests
          /\ free[q] \in Nat /\ numPosted[q] \in Nat /\ Len(batch[q]) = 0
      BY <1>0, QueueTypes
    <3>3. QED
      BY <1>1, <2>1, <2>3, <3>1, <3>2, SMTT(30)
  <2>4. CASE p # q
    BY <1>0, <2>1, <2>2, <2>4, QueueTypes
  <2>5. QED
    BY <2>3, <2>4
<1>7. QED
  BY <1>5, <1>6 DEF TypeInv

(* ... and after its callback has returned.                                *)
LEMMA TypeProcess ==
  ASSUME TypeInv, NEW q \in Queues, Process(q)
  PROVE  TypeInv'
<1> DEFINE posted == IF Len(batch[q]) = 1 THEN Armed(numPosted[q]) ELSE numPosted[q]
<1>1. batch[q] \in Seq(Announcement) /\ batch[q] # << >> /\ numPosted[q] \in Nat
      /\ free[q] \in Nat /\ Len(recvCq[q]) \in Nat
  BY QueueTypes DEF Process
<1>2. Tail(batch[q]) \in Seq(Announcement) /\ Len(Tail(batch[q])) = Len(batch[q]) - 1
      /\ Len(batch[q]) \in Nat \ {0}
  BY <1>1, FirstTaken, Zenon
<1>3. posted \in Nat /\ numPosted[q] <= posted /\ posted + Len(batch[q]) - 1 <= RecvRequests
  <2>1. numPosted[q] + Len(batch[q]) <= RecvRequests /\ RecvRequests \in Nat
    BY QueueTypes, ConstantTypes
  <2>2. numPosted[q] <= RecvRequests
    BY <1>1, <1>2, <2>1
  <2>3. Armed(numPosted[q]) \in Nat /\ numPosted[q] <= Armed(numPosted[q])
        /\ Armed(numPosted[q]) <= RecvRequests
    BY <1>1, <2>2, ArmedType
  <2>4. CASE Len(batch[q]) = 1
    <3>1. posted = Armed(numPosted[q])
      BY <2>4
    <3> HIDE DEF posted
    <3>2. QED
      BY <2>1, <2>3, <2>4, <3>1
  <2>5. CASE Len(batch[q]) # 1
    <3>1. posted = numPosted[q]
      BY <2>5
    <3> HIDE DEF posted
    <3>2. QED
      BY <1>1, <1>2, <2>1, <3>1
  <2>6. QED
    BY <2>4, <2>5
<1>4. /\ batch' = [batch EXCEPT ![q] = Tail(batch[q])]
      /\ numPosted' = [numPosted EXCEPT ![q] = posted]
      /\ free' = [free EXCEPT ![q] = free[q] + posted - numPosted[q]]
      /\ recvCq' = recvCq
  BY DEF Process
<1> HIDE DEF posted
<1>5. /\ batch' \in [Queues -> Seq(Announcement)] /\ free' \in [Queues -> Nat]
      /\ numPosted' \in [Queues -> Nat]
  <2>1. /\ batch \in [Queues -> Seq(Announcement)] /\ free \in [Queues -> Nat]
        /\ numPosted \in [Queues -> Nat]
    BY DEF TypeInv, Types
  <2>2. /\ Tail(batch[q]) \in Seq(Announcement) /\ posted \in Nat
        /\ free[q] + posted - numPosted[q] \in Nat
    BY <1>1, <1>2, <1>3, <2>1
  <2>3. PICK b, f : b = Tail(batch[q]) /\ f = free[q] + posted - numPosted[q]
    OBVIOUS
  <2>4. batch' = [batch EXCEPT ![q] = b] /\ b \in Seq(Announcement)
    BY <1>4, <2>2, <2>3, Zenon
  <2>5. free' = [free EXCEPT ![q] = f] /\ f \in Nat
    BY <1>4, <2>2, <2>3, Zenon
  <2>6. QED
    BY <1>4, <2>1, <2>2, <2>4, <2>5
<1>6. Types'
  BY <1>5 DEF TypeInv, Types, Process, sendVars
<1>7. Credits'
  <2> SUFFICES ASSUME NEW p \in Queues
               PROVE  /\ numPosted'[p] = free'[p] + Len(recvCq'[p])
                      /\ numPosted'[p] + Len(batch'[p]) <= RecvRequests
    BY DEF Credits
  <2>2. DOMAIN numPosted = Queues /\ DOMAIN free = Queues /\ DOMAIN batch = Queues
    BY DEF TypeInv, Types
  <2>3. CASE p = q
    BY <1>1, <1>2, <1>3, <1>4, <2>2, <2>3, QueueTypes, SMTT(30)
  <2>4. CASE p # q
    BY <1>4, <2>2, <2>4, QueueTypes
  <2>5. QED
    BY <2>3, <2>4
<1>8. QED
  BY <1>6, <1>7 DEF TypeInv

(* Every step keeps the types.                                             *)
LEMMA TypeStep ==
  ASSUME TypeInv, [Next]_vars
  PROVE  TypeInv'
<1>1. ASSUME UNCHANGED vars PROVE TypeInv'
  BY <1>1 DEF TypeInv, Types, Credits, vars, sendVars, recvVars
<1>2. QED
  BY <1>1, TypeFill, TypeSynchronize, TypePost, TypeWaitSync, TypeWrite, TypeComplete, TypeRecv,
     TypeProcess, Zenon DEF Next, Sending, Device, Receiving, Finished

-----------------------------------------------------------------------------
(* The numbers of the sender.                                              *)
LEMMA SendTypes ==
  ASSUME TypeInv
  PROVE  /\ msg \in Nat /\ sent \in Nat /\ reaped \in Nat /\ Len(wire) \in Nat
         /\ Posted \in Int /\ Executed \in Int /\ (wire = << >> <=> Len(wire) = 0)
         /\ pc \in {"fill", "send", "sync"} /\ MaxOutstanding \in Nat \ {0}
<1>1. /\ msg \in Nat /\ sent \in Nat /\ reaped \in Nat /\ wire \in Seq(Request)
      /\ pc \in {"fill", "send", "sync"}
  BY DEF TypeInv, Types
<1>2. Len(wire) \in Nat /\ (wire = << >> <=> Len(wire) = 0)
  BY <1>1
<1>3. QED
  BY <1>1, <1>2, ConstantTypes DEF Posted, Executed

(* The queue is empty at the start.                                        *)
LEMMA SendInit == Init => SendInv
<1> SUFFICES ASSUME Init PROVE SendInv
  OBVIOUS
<1>1. pc = "fill" /\ msg = 0 /\ sent = 0 /\ reaped = 0 /\ wire = << >> /\ sendCq = << >>
      /\ Len(wire) = 0 /\ Posted = 0
  BY DEF Init, Posted
<1>2. MaxOutstanding \in Nat \ {0}
  BY ConstantTypes
<1>3. QED
  BY <1>1, <1>2 DEF SendInv, SenderBooks, WireBooks, CqBooks, Pending

(* A message is prepared: nothing is posted yet.                           *)
LEMMA SendFill ==
  ASSUME TypeInv, SendInv, NEW len \in Lengths, NEW sync \in BOOLEAN, Fill(len, sync)
  PROVE  SendInv'
<1>1. /\ pc = "fill" /\ pc' = "send" /\ msg' = msg + 1 /\ sent' = sent /\ reaped' = reaped
      /\ wire' = wire /\ sendCq' = sendCq /\ req'.dest = Destination(msg + 1) /\ req'.len = len
  BY DEF Fill
<1>2. Posted' = Posted
  BY <1>1, SendTypes DEF Posted
<1>3. Executed' = Executed /\ Pending' = Pending
  BY <1>1, <1>2 DEF Executed, Pending
<1>4. SenderBooks'
  BY <1>1, <1>2, SendTypes DEF SendInv, SenderBooks, Destination
<1>5. WireBooks'
  BY <1>1, <1>2, <1>3 DEF SendInv, WireBooks, Destination
<1>6. CqBooks'
  BY <1>1, <1>2, <1>3 DEF SendInv, CqBooks
<1>7. QED
  BY <1>4, <1>5, <1>6 DEF SendInv

(* When there is a completion to poll, all messages were executed.         *)
LEMMA Polled ==
  ASSUME TypeInv, SendInv, PollSendCq
  PROVE  Pending /\ wire = << >> /\ reaped' = Posted /\ sendCq' = << >>
<1>1. sendCq # << >>
  BY DEF PollSendCq
<1>2. Pending /\ wire = << >> /\ sendCq = << Posted >>
  BY <1>1 DEF SendInv, CqBooks
<1>3. QED
  BY <1>2 DEF PollSendCq

(* Both ways to wait for a completion leave nothing outstanding.           *)
LEMMA NothingOutstanding ==
  ASSUME TypeInv, SendInv, PollSendCq, sent' = 0, wire' = wire, msg' = msg, req' = req,
         Posted' = Posted, pc' # "sync", pc' = "send" => pc = "send"
  PROVE  SendInv'
<1>1. Pending /\ wire = << >> /\ reaped' = Posted /\ sendCq' = << >>
  BY Polled
<1>2. wire' = << >> /\ Len(wire') = 0 /\ ~ Pending'
  BY <1>1, SendTypes DEF Pending
<1>3. SenderBooks'
  BY <1>1, SendTypes DEF SendInv, SenderBooks, Destination
<1>4. WireBooks'
  BY <1>1, <1>2, SendTypes DEF WireBooks
<1>5. CqBooks'
  BY <1>1, <1>2 DEF CqBooks
<1>6. QED
  BY <1>3, <1>4, <1>5 DEF SendInv

(* Who finds the queue full waits.                                         *)
LEMMA SendSynchronize ==
  ASSUME TypeInv, SendInv, Synchronize
  PROVE  SendInv'
<1>1. /\ PollSendCq /\ sent' = 0 /\ wire' = wire /\ msg' = msg /\ req' = req
      /\ pc' = "send" /\ pc = "send"
  BY DEF Synchronize
<1>2. Posted' = Posted
  BY <1>1 DEF Posted
<1>3. QED
  BY <1>1, <1>2, NothingOutstanding

(* A signalled completion frees what was posted before it.                 *)
LEMMA SendWaitSync ==
  ASSUME TypeInv, SendInv, WaitSync
  PROVE  SendInv'
<1>1. /\ PollSendCq /\ sent' = 0 /\ wire' = wire /\ msg' = msg /\ req' = req
      /\ pc' = "fill" /\ pc = "sync"
  BY DEF WaitSync
<1>2. Posted' = Posted
  BY <1>1 DEF Posted
<1>3. QED
  BY <1>1, <1>2, NothingOutstanding

(* The wire with one request more.                                         *)
LEMMA PostFacts ==
  ASSUME TypeInv, SendInv, Post
  PROVE  /\ Posting \in Request /\ Posting.id = Posted + 1 /\ msg = Posted + 1
         /\ wire' = Append(wire, Posting) /\ Len(wire') = Len(wire) + 1 /\ wire' # << >>
         /\ \A k \in 1 .. Len(wire) : wire'[k] = wire[k]
         /\ wire'[Len(wire) + 1] = Posting
         /\ Posted' = Posted + 1 /\ Executed' = Executed
         /\ sent < MaxOutstanding /\ pc = "send" /\ ~ Pending
<1>1. pc = "send" /\ sent < MaxOutstanding /\ wire' = Append(wire, Posting) /\ msg' = msg
      /\ pc' \in {"sync", "fill"}
  BY SendTypes DEF Post, Full, Posting
<1>2. Posting \in Request
  BY PostingType
<1>3. /\ Len(wire') = Len(wire) + 1 /\ wire' # << >>
      /\ \A k \in 1 .. Len(wire) : wire'[k] = wire[k]
      /\ wire'[Len(wire) + 1] = Posting
  <2>1. wire \in Seq(Request)
    BY DEF TypeInv, Types
  <2>2. PICK w, x : w = wire /\ x = Posting /\ wire' = Append(w, x)
    BY <1>1
  <2>3. /\ Len(Append(w, x)) = Len(w) + 1 /\ Append(w, x) # << >>
        /\ \A k \in 1 .. Len(w) : Append(w, x)[k] = w[k]
        /\ Append(w, x)[Len(w) + 1] = x
    BY <1>2, <2>1, <2>2, LastAdded
  <2>4. QED
    BY <2>2, <2>3, Zenon
<1>4. msg = Posted + 1 /\ Posted' = Posted + 1 /\ ~ Pending
  BY <1>1, SendTypes DEF Posted, Pending
<1>5. Posting.id = Posted + 1
  BY <1>4 DEF Posting
<1>6. Executed' = Executed
  BY <1>3, <1>4, SendTypes DEF Executed
<1>7. QED
  BY <1>1, <1>2, <1>3, <1>4, <1>5, <1>6, Zenon

(* One more is posted, if there was room.                                  *)
LEMMA SendPost ==
  ASSUME TypeInv, SendInv, Post
  PROVE  SendInv'
<1>1. /\ Posting.id = Posted + 1 /\ msg = Posted + 1
      /\ Len(wire') = Len(wire) + 1 /\ wire' # << >>
      /\ \A k \in 1 .. Len(wire) : wire'[k] = wire[k]
      /\ wire'[Len(wire) + 1] = Posting
      /\ Posted' = Posted + 1 /\ Executed' = Executed
      /\ sent < MaxOutstanding /\ pc = "send" /\ ~ Pending
  BY PostFacts, Zenon
<1>2. /\ sent' = (IF req.sync THEN sent ELSE sent + 1) /\ pc' = (IF req.sync THEN "sync" ELSE "fill")
      /\ reaped' = reaped /\ sendCq' = sendCq /\ msg' = msg /\ req' = req
  BY DEF Post
<1>3. Posted - reaped = sent
  BY <1>1, SendTypes DEF SendInv, SenderBooks
<1>4. Pending' <=> Signaled
  BY <1>1, <1>2, SendTypes DEF Pending, Signaled
<1>5. SenderBooks'
  BY <1>1, <1>2, <1>3, SendTypes DEF SenderBooks
<1>6. WireBooks'
  <2>1. Len(wire') <= Posted' - reaped'
    BY <1>1, <1>2, SendTypes DEF SendInv, WireBooks
  <2>2. ASSUME NEW k \in 1 .. Len(wire')
        PROVE  /\ wire'[k].id = Executed' + k
               /\ wire'[k].dest = Destination(wire'[k].id)
               /\ wire'[k].signaled <=> (k = Len(wire') /\ Pending')
               /\ wire'[k].inline \/ \E len \in Lengths : len > MaxInline
    <3>1. CASE k = Len(wire) + 1
      <4>1. wire'[k] = Posting /\ k = Len(wire')
        BY <1>1, <3>1
      <4>2. Posting.id = Executed + k
        BY <1>1, <3>1, SendTypes DEF Executed
      <4>3. Posting.id = msg /\ Posting.dest = req.dest /\ Posting.signaled = Signaled
            /\ Posting.inline = (req.len <= MaxInline)
        BY DEF Posting
      <4>4. req.dest = Destination(msg) /\ req.len \in Lengths
        BY <1>1 DEF SendInv, SenderBooks
      <4>5. req.len \in Nat
        BY DEF TypeInv, Types
      <4>6. Posting.inline \/ \E len \in Lengths : len > MaxInline
        <5>1. req.len <= MaxInline \/ req.len > MaxInline
          BY <4>5, ConstantTypes
        <5>2. QED
          BY <4>3, <4>4, <5>1, Zenon
      <4>7. QED
        BY <1>1, <1>4, <4>1, <4>2, <4>3, <4>4, <4>6
    <3>2. CASE k # Len(wire) + 1
      <4>1. k \in 1 .. Len(wire) /\ k # Len(wire')
        BY <1>1, <3>2, SendTypes
      <4>2. wire'[k] = wire[k]
        BY <1>1, <4>1
      <4>3. QED
        BY <1>1, <4>1, <4>2 DEF SendInv, WireBooks
    <3>3. QED
      BY <3>1, <3>2
  <2>3. QED
    BY <2>1, <2>2 DEF WireBooks, Destination
<1>7. CqBooks'
  BY <1>1, <1>2 DEF SendInv, CqBooks
<1>8. QED
  BY <1>5, <1>6, <1>7 DEF SendInv

(* One that has arrived stays counted until its completion is polled.      *)
LEMMA SendComplete ==
  ASSUME TypeInv, SendInv, Complete
  PROVE  SendInv'
<1>1. /\ Head(wire) = wire[1] /\ Len(wire) \in Nat \ {0} /\ Len(wire') = Len(wire) - 1
      /\ \A k \in 1 .. Len(wire') : wire'[k] = wire[k + 1]
      /\ wire' \in Seq(Request)
  <2>1. wire' = Tail(wire)
    BY DEF Complete
  <2>2. QED
    BY <2>1, CompleteFacts, Zenon
<1>2. pc' = pc /\ sent' = sent /\ reaped' = reaped /\ msg' = msg /\ req' = req
      /\ sendCq' = IF wire[1].signaled THEN Append(sendCq, wire[1].id) ELSE sendCq
  BY <1>1 DEF Complete, sendVars
<1>3. Posted' = Posted /\ Pending' = Pending
  BY <1>2 DEF Posted, Pending
<1>4. Executed' = Executed + 1
  BY <1>1, <1>3, SendTypes DEF Executed
<1>5. SenderBooks'
  BY <1>2, <1>3 DEF SendInv, SenderBooks, Destination
<1>6. WireBooks'
  <2>1. Len(wire') <= Posted' - reaped'
    BY <1>1, <1>2, <1>3, SendTypes DEF SendInv, WireBooks
  <2>2. ASSUME NEW k \in 1 .. Len(wire')
        PROVE  /\ wire'[k].id = Executed' + k
               /\ wire'[k].dest = Destination(wire'[k].id)
               /\ wire'[k].signaled <=> (k = Len(wire') /\ Pending')
               /\ wire'[k].inline \/ \E len \in Lengths : len > MaxInline
    <3>1. k + 1 \in 1 .. Len(wire) /\ wire'[k] = wire[k + 1] /\ (k = Len(wire') <=> k + 1 = Len(wire))
      BY <1>1
    <3>2. Executed + (k + 1) = Executed' + k
      BY <1>4, SendTypes
    <3>3. QED
      BY <1>3, <3>1, <3>2 DEF SendInv, WireBooks
  <2>3. QED
    BY <2>1, <2>2 DEF WireBooks, Destination
<1>7. CqBooks'
  <2>1. wire # << >> /\ sendCq = << >>
    BY <1>1, SendTypes DEF SendInv, CqBooks
  <2>2. 1 \in 1 .. Len(wire)
    BY <1>1
  <2>3. wire[1].id = Executed + 1 /\ (wire[1].signaled <=> (1 = Len(wire) /\ Pending))
    BY <2>2 DEF SendInv, WireBooks
  <2>4. wire' = << >> <=> Len(wire) = 1
    BY <1>1
  <2>5. Len(wire) = 1 => wire[1].id = Posted
    BY <2>3, SendTypes DEF Executed
  <2>6. CASE wire[1].signaled
    BY <1>2, <1>3, <2>1, <2>3, <2>4, <2>5, <2>6 DEF CqBooks
  <2>7. CASE ~ wire[1].signaled
    BY <1>2, <1>3, <2>1, <2>3, <2>4, <2>7 DEF CqBooks
  <2>8. QED
    BY <2>6, <2>7
<1>8. QED
  BY <1>5, <1>6, <1>7 DEF SendInv

(* The other steps leave the sender alone.                                 *)
LEMMA SendUnchanged ==
  ASSUME SendInv, UNCHANGED <<sendVars, wire, sendCq>>
  PROVE  SendInv'
<1>1. Posted' = Posted /\ Executed' = Executed /\ Pending' = Pending
  BY DEF Posted, Executed, Pending, sendVars
<1>2. SenderBooks' /\ WireBooks' /\ CqBooks'
  BY <1>1 DEF SendInv, SenderBooks, WireBooks, CqBooks, Destination, sendVars
<1>3. QED
  BY <1>2 DEF SendInv

(* Every step keeps the counts of the send queue.                          *)
LEMMA SendStep ==
  ASSUME TypeInv, SendInv, [Next]_vars
  PROVE  SendInv'
<1>1. ASSUME UNCHANGED vars \/ WritePayload \/ \E q \in Queues : Recv(q) \/ Process(q)
      PROVE  SendInv'
  <2>1. UNCHANGED <<sendVars, wire, sendCq>>
    BY <1>1 DEF vars, WritePayload, Recv, Process, sendVars, recvVars
  <2>2. QED
    BY <2>1, SendUnchanged
<1>2. QED
  BY <1>1, SendFill, SendSynchronize, SendPost, SendWaitSync, SendComplete, Zenon
     DEF Next, Sending, Device, Receiving, Finished

-----------------------------------------------------------------------------
(* Multiples of a positive number are ordered as their factors.            *)
LEMMA TimesReflects ==
  ASSUME NEW n \in Nat \ {0}, NEW a \in Int, NEW b \in Int, n * a < n * b
  PROVE  a < b
<1> SUFFICES ASSUME a >= b PROVE FALSE
  OBVIOUS
<1>1. PICK d \in Nat : a = b + d
  <2>1. a - b \in Nat
    OBVIOUS
  <2>2. a = b + (a - b)
    OBVIOUS
  <2>3. QED
    BY <2>1, <2>2
<1>2. n * a = n * b + n * d
  BY <1>1
<1>3. n * d \in Nat
  OBVIOUS
<1>4. QED
  BY <1>2, <1>3

(* The numbers of buffers differ for messages that are close.              *)
LEMMA BufferApart ==
  ASSUME NEW m \in Nat, NEW k \in Nat, m < k, k < m + NumBuffers
  PROVE  BufferOf(m) # BufferOf(k)
<1> SUFFICES ASSUME m % NumBuffers = k % NumBuffers PROVE FALSE
  BY DEF BufferOf
<1>1. NumBuffers \in Nat \ {0}
  BY ConstantTypes
<1>2. PICK c \in Nat, d \in Nat : c = m \div NumBuffers /\ d = k \div NumBuffers
  BY <1>1, DivMod
<1>3. m = NumBuffers * c + (m % NumBuffers) /\ k = NumBuffers * d + (k % NumBuffers)
  BY <1>1, <1>2, DivMod
<1>4. PICK r \in Nat : r = m % NumBuffers
  BY <1>1, ModRange
<1>5. m = NumBuffers * c + r /\ k = NumBuffers * d + r
  BY <1>3, <1>4
<1>6. NumBuffers * c < NumBuffers * d /\ NumBuffers * d < NumBuffers * c + NumBuffers
  BY <1>1, <1>5
<1>7. NumBuffers * (c + 1) = NumBuffers * c + NumBuffers
  BY <1>1
<1>8. c < d /\ d < c + 1
  BY <1>1, <1>6, <1>7, TimesReflects
<1>9. QED
  BY <1>8

(* No buffer is in use at the start.                                       *)
LEMMA BufInit == Init => BufInv
BY DEF Init, BufInv

(* The buffer that is filled is one the device is done with.               *)
LEMMA BufFill ==
  ASSUME TypeInv, BufInv, NEW len \in Lengths, NEW sync \in BOOLEAN, Fill(len, sync)
  PROVE  BufInv'
<1>1. msg \in Nat /\ bufs \in [0 .. NumBuffers - 1 -> Nat] /\ NumBuffers \in Nat \ {0}
  BY ConstantTypes DEF TypeInv, Types
<1>2. msg' = msg + 1 /\ bufs' = [bufs EXCEPT ![BufferOf(msg + 1)] = msg + 1]
  BY DEF Fill
<1> SUFFICES ASSUME NEW m \in 1 .. msg', m + NumBuffers > msg'
             PROVE  bufs'[BufferOf(m)] = m
  BY DEF BufInv, BufferOf
<1>3. m \in Nat /\ BufferOf(m) \in 0 .. NumBuffers - 1
  <2>1. m \in Nat
    BY <1>1, <1>2
  <2>2. QED
    BY <1>1, <2>1, ModRange DEF BufferOf
<1>4. CASE m = msg + 1
  BY <1>1, <1>2, <1>3, <1>4
<1>5. CASE m # msg + 1
  <2>1. m \in 1 .. msg /\ m + NumBuffers > msg /\ m < msg + 1 /\ msg + 1 < m + NumBuffers
    BY <1>1, <1>2, <1>5
  <2>2. bufs[BufferOf(m)] = m
    BY <2>1 DEF BufInv
  <2>3. BufferOf(m) # BufferOf(msg + 1)
    BY <1>1, <1>3, <2>1, BufferApart
  <2>4. QED
    BY <1>1, <1>2, <1>3, <2>2, <2>3
<1>6. QED
  BY <1>4, <1>5

(* Every step keeps the buffers apart.                                     *)
LEMMA BufStep ==
  ASSUME TypeInv, BufInv, [Next]_vars
  PROVE  BufInv'
<1>1. ASSUME UNCHANGED <<msg, bufs>> PROVE BufInv'
  BY <1>1 DEF BufInv, BufferOf
<1>2. ASSUME ~ \E len \in Lengths, sync \in BOOLEAN : Fill(len, sync)
      PROVE  UNCHANGED <<msg, bufs>>
  BY <1>2 DEF Next, Sending, Device, Receiving, Finished, vars, sendVars, recvVars, Synchronize,
     Post, WaitSync, WritePayload, Complete, Recv, Process
<1>3. QED
  BY <1>1, <1>2, BufFill, Zenon

(* A message that the device has yet to read is one of the last, and still *)
(* in its buffer.                                                          *)
LEMMA BufferKept ==
  ASSUME TypeInv, SendInv, BufInv, NEW k \in 1 .. Len(wire)
  PROVE  wire[k].inline \/ bufs[BufferOf(wire[k].id)] = wire[k].id
<1> SUFFICES ASSUME ~ wire[k].inline PROVE bufs[BufferOf(wire[k].id)] = wire[k].id
  OBVIOUS
<1>1. wire[k].id = Executed + k /\ \E len \in Lengths : len > MaxInline
  BY DEF SendInv, WireBooks
<1>2. NumBuffers > MaxOutstanding
  <2>1. PICK len \in Lengths : len > MaxInline
    BY <1>1
  <2>2. ~ (len <= MaxInline)
    BY <2>1, LengthsAssumption, ConstantTypes
  <2>3. QED
    BY <2>2, BuffersAssumption, Zenon
<1>3. /\ Len(wire) <= Posted - reaped /\ sent <= MaxOutstanding
      /\ Posted - reaped = sent + (IF pc = "sync" THEN 1 ELSE 0)
      /\ pc = "sync" => sent < MaxOutstanding
      /\ pc = "send" => msg \in Nat \ {0}
  BY DEF SendInv, SenderBooks, WireBooks
<1>4. Executed = Posted - Len(wire) /\ Posted = IF pc = "send" THEN msg - 1 ELSE msg
  BY DEF Executed, Posted
<1>5. wire[k].id \in 1 .. msg /\ wire[k].id + NumBuffers > msg
  <2>1. Posted - reaped <= MaxOutstanding
    BY <1>3, SendTypes
  <2>2. wire[k].id >= reaped + 1 /\ wire[k].id <= Posted /\ wire[k].id \in Int
    <3>1. PICK w \in Nat : w = Len(wire)
      BY SendTypes
    <3>2. k \in 1 .. w /\ wire[k].id = (Posted - w) + k /\ w <= Posted - reaped
      BY <1>1, <1>3, <1>4, <3>1
    <3>3. QED
      BY <3>1, <3>2, SendTypes
  <2>3. pc = "send" => Posted = msg - 1
    BY <1>4
  <2>4. pc # "send" => Posted = msg
    BY <1>4
  <2>5. msg - reaped <= MaxOutstanding + 1 /\ Posted <= msg
    BY <2>1, <2>3, <2>4, SendTypes
  <2>6. QED
    BY <1>2, <2>2, <2>5, SendTypes, ConstantTypes
<1>6. QED
  BY <1>5 DEF BufInv

-----------------------------------------------------------------------------
(* detail::poll and the counter sent_messages_ keep the send queue and its *)
(* completion queue from overflowing.                                      *)
THEOREM SendQueueNeverOverflows == Spec => []SendQueueFits
<1>1. Init => TypeInv /\ SendInv
  BY TypeInit, SendInit
<1>2. TypeInv /\ SendInv /\ [Next]_vars => (TypeInv /\ SendInv)'
  BY TypeStep, SendStep
<1>3. TypeInv /\ SendInv => SendQueueFits
  <2> SUFFICES ASSUME TypeInv, SendInv PROVE SendQueueFits
    OBVIOUS
  <2>1. /\ Posted - reaped = sent + (IF pc = "sync" THEN 1 ELSE 0)
        /\ sent <= MaxOutstanding /\ (pc = "sync" => sent < MaxOutstanding)
    BY DEF SendInv, SenderBooks
  <2>2. Posted - reaped <= SendRequests
    BY <2>1, SendTypes, ConstantTypes
  <2>3. Len(sendCq) <= 1
    <3>1. CASE sendCq = << >>
      BY <3>1
    <3>2. CASE sendCq = << Posted >>
      BY <3>2
    <3>3. QED
      BY <3>1, <3>2 DEF SendInv, CqBooks
  <2>4. QED
    BY <2>2, <2>3 DEF SendQueueFits, Posted
<1>4. QED
  BY <1>1, <1>2, <1>3, PTL DEF Spec

(* A sender with one buffer more than messages may be outstanding never    *)
(* fills a buffer that the device has yet to read.                         *)
THEOREM BufferNeverOverwritten == Spec => []BufferUntilSent
<1>1. Init => TypeInv /\ SendInv /\ BufInv
  BY TypeInit, SendInit, BufInit
<1>2. TypeInv /\ SendInv /\ BufInv /\ [Next]_vars => (TypeInv /\ SendInv /\ BufInv)'
  BY TypeStep, SendStep, BufStep
<1>3. TypeInv /\ SendInv /\ BufInv => BufferUntilSent
  <2> SUFFICES ASSUME TypeInv, SendInv, BufInv, NEW k \in DOMAIN wire
               PROVE  wire[k].inline \/ bufs[BufferOf(wire[k].id)] = wire[k].id
    BY DEF BufferUntilSent
  <2>1. k \in 1 .. Len(wire)
    BY DEF TypeInv, Types
  <2>2. QED
    BY <2>1, BufferKept
<1>4. QED
  BY <1>1, <1>2, <1>3, PTL DEF Spec

-----------------------------------------------------------------------------
(* A number has one quotient and one remainder.                            *)
LEMMA OneRemainder ==
  ASSUME NEW n \in Nat \ {0}, NEW a \in Nat, NEW b \in Nat,
         NEW r \in 0 .. n - 1, NEW s \in 0 .. n - 1, n * a + r = n * b + s
  PROVE  r = s /\ a = b
<1>1. PICK x \in Nat, y \in Nat : x = n * a /\ y = n * b
  OBVIOUS
<1>2. x + r = y + s
  BY <1>1
<1>3. x < y + n /\ y < x + n
  BY <1>1, <1>2
<1>4. n * (b + 1) = y + n /\ n * (a + 1) = x + n
  BY <1>1
<1>5. n * a < n * (b + 1) /\ n * b < n * (a + 1)
  BY <1>1, <1>3, <1>4
<1>6. a < b + 1 /\ b < a + 1
  BY <1>5, TimesReflects
<1>7. a = b
  BY <1>6
<1>8. x = y
  BY <1>1, <1>7
<1>9. QED
  BY <1>2, <1>7, <1>8

(* Adding a multiple of n leaves the remainder alone.                      *)
LEMMA SameRemainder ==
  ASSUME NEW n \in Nat \ {0}, NEW g \in Nat, NEW r \in Nat
  PROVE  (g + r * n) % n = g % n
<1>1. PICK h \in Nat : h = g + r * n
  OBVIOUS
<1>2. PICK a \in Nat, b \in Nat : a = g \div n /\ b = h \div n
  BY DivMod
<1>3. PICK x \in 0 .. n - 1, y \in 0 .. n - 1 : x = g % n /\ y = h % n
  BY ModRange
<1>4. g = n * a + x /\ h = n * b + y
  BY <1>2, <1>3, DivMod
<1>5. n * (a + r) = n * a + r * n /\ a + r \in Nat
  OBVIOUS
<1>6. n * (a + r) + x = n * b + y
  <2>1. PICK u \in Nat, v \in Nat, w \in Nat : u = n * a /\ v = r * n /\ w = n * b
    OBVIOUS
  <2>2. n * (a + r) = u + v /\ g = u + x /\ h = w + y /\ h = g + v
    BY <1>1, <1>4, <1>5, <2>1
  <2>3. QED
    BY <2>1, <2>2
<1>7. x = y
  BY <1>5, <1>6, OneRemainder
<1>8. QED
  BY <1>1, <1>3, <1>7

(* The queues take turns: a message of the round before, for the same      *)
(* queue, is NumQueues messages back.                                      *)
LEMMA NextTurn ==
  ASSUME NEW n \in Nat \ {0}, NEW z \in Nat, NEW c \in Nat, z \in c - n .. c - 1
  PROVE  z % n = c % n <=> z + n = c
<1>1. ASSUME z + n = c PROVE z % n = c % n
  <2>1. (z + 1 * n) % n = z % n
    BY SameRemainder
  <2>2. z + 1 * n = c
    BY <1>1
  <2>3. QED
    BY <2>1, <2>2
<1>2. ASSUME z % n = c % n PROVE z + n = c
  <2>1. PICK a \in Nat, b \in Nat : a = z \div n /\ b = c \div n
    BY DivMod
  <2>2. PICK r \in 0 .. n - 1 : r = z % n
    BY ModRange
  <2>3. z = n * a + r /\ c = n * b + r
    BY <1>2, <2>1, <2>2, DivMod
  <2>4. PICK x \in Nat, y \in Nat : x = n * a /\ y = n * b
    OBVIOUS
  <2>5. z = x + r /\ c = y + r
    BY <2>3, <2>4
  <2>6. x < y /\ y <= x + n
    BY <2>5
  <2>7. n * (a + 2) = x + n + n
    BY <2>4
  <2>8. n * a < n * b /\ n * b < n * (a + 2)
    BY <2>4, <2>6, <2>7
  <2>9. a < b /\ b < a + 2
    BY <2>8, TimesReflects
  <2>10. b = a + 1
    BY <2>9
  <2>11. y = x + n
    BY <2>4, <2>10
  <2>12. QED
    BY <2>5, <2>11
<1>3. QED
  BY <1>1, <1>2

-----------------------------------------------------------------------------
(* The values of an announcement in a receive queue.                       *)
LEMMA EntryTypes ==
  ASSUME TypeInv, NEW q \in Queues
  PROVE  /\ \A k \in 1 .. Len(recvCq[q]) : recvCq[q][k] \in Announcement /\ recvCq[q][k].id \in Nat
         /\ \A k \in 1 .. Len(batch[q]) : batch[q][k] \in Announcement /\ batch[q][k].id \in Nat
<1>1. recvCq[q] \in Seq(Announcement) /\ batch[q] \in Seq(Announcement)
  BY QueueTypes
<1>2. /\ \A k \in 1 .. Len(recvCq[q]) : recvCq[q][k] \in Announcement
      /\ \A k \in 1 .. Len(batch[q]) : batch[q][k] \in Announcement
  BY <1>1
<1>3. QED
  BY <1>2 DEF Announcement

(* The first request on the wire.                                          *)
LEMMA WireHead ==
  ASSUME TypeInv, SendInv, wire # << >>
  PROVE  /\ Head(wire) = wire[1] /\ wire[1] \in Request /\ wire[1].id \in Nat
         /\ wire[1].id = Executed + 1 /\ wire[1].dest = wire[1].id % NumQueues
         /\ wire[1].dest \in Queues
         /\ wire[1].inline \/ bufs[BufferOf(wire[1].id)] = wire[1].id \/ ~ BufInv
<1>1. wire \in Seq(Request)
  BY DEF TypeInv, Types
<1>2. Head(wire) = wire[1] /\ Head(wire) \in Request /\ Len(wire) \in Nat \ {0}
  BY <1>1, FirstTaken, Zenon
<1>3. wire[1].id \in Nat /\ wire[1].dest \in Queues
  BY <1>2 DEF Request
<1>4. 1 \in 1 .. Len(wire)
  BY <1>2
<1>5. wire[1].id = Executed + 1 /\ wire[1].dest = wire[1].id % NumQueues
  BY <1>4 DEF SendInv, WireBooks, Destination
<1>6. wire[1].inline \/ bufs[BufferOf(wire[1].id)] = wire[1].id \/ ~ BufInv
  BY <1>4, BufferKept
<1>7. QED
  BY <1>2, <1>3, <1>5, <1>6

(* Nobody is late at the start.                                            *)
LEMMA LateInit == Init => LateInv
<1> SUFFICES ASSUME Init PROVE LateInv
  OBVIOUS
<1>1. \A q \in Queues : Len(recvCq[q]) = 0 /\ Len(batch[q]) = 0
  BY DEF Init
<1>2. \A q \in Queues : 1 .. Len(recvCq[q]) = {} /\ 1 .. Len(batch[q]) = {}
  BY <1>1
<1>3. QED
  BY <1>2 DEF LateInv

(* An entry is as late as before when another queue gets a message, and    *)
(* one round later when its own does.                                      *)
LEMMA LateNext ==
  ASSUME NEW c \in Nat, NEW b \in Int, c = b + 1, NEW q \in Queues, NEW e \in Announcement,
         NEW r \in Nat, Late(b, q, e, r)
  PROVE  /\ q = c % NumQueues => Late(c, q, e, r + 1)
         /\ q # c % NumQueues => Late(c, q, e, r)
<1>1. PICK n \in Nat \ {0}, x \in Nat : n = NumQueues /\ x = e.id
  BY ConstantTypes DEF Announcement
<1>2. x % n = q /\ x + r * n \in b - n + 1 .. b
  BY <1>1, Zenon DEF Late
<1>3. PICK z \in Nat : z = x + r * n
  OBVIOUS
<1>4. z \in c - n .. c - 1
  BY <1>2, <1>3
<1>5. z % n = x % n
  BY <1>3, SameRemainder
<1>6. z % n = c % n <=> z + n = c
  BY <1>4, NextTurn
<1>7. ASSUME q = c % NumQueues PROVE Late(c, q, e, r + 1)
  <2>1. z + n = c
    BY <1>1, <1>2, <1>5, <1>6, <1>7, Zenon
  <2>2. x + (r + 1) * n = c
    BY <1>3, <2>1
  <2>3. c \in c - n + 1 .. c
    OBVIOUS
  <2>4. QED
    BY <1>1, <1>2, <2>2, <2>3, Zenon DEF Late
<1>8. ASSUME q # c % NumQueues PROVE Late(c, q, e, r)
  <2>1. z + n # c
    BY <1>1, <1>2, <1>5, <1>6, <1>8, Zenon
  <2>2. z \in c - n + 1 .. c
    BY <1>4, <2>1
  <2>3. QED
    BY <1>1, <1>2, <1>3, <2>2, Zenon DEF Late
<1>9. QED
  BY <1>7, <1>8

(* A message arrives at a receive request that was posted.                 *)
LEMMA LateComplete ==
  ASSUME TypeInv, SendInv, LateInv, Complete
  PROVE  LateInv'
<1>0. PICK d : d = wire[1].dest
  OBVIOUS
<1>1. /\ d \in Queues /\ wire # << >> /\ Announced \in Announcement
      /\ recvCq' = [recvCq EXCEPT ![d] = Append(recvCq[d], Announced)]
      /\ wire' = Tail(wire) /\ Len(Tail(wire)) = Len(wire) - 1 /\ Announced.id = wire[1].id
  <2>1. Head(wire) = wire[1] /\ wire # << >> /\ Announced \in Announcement
        /\ Head(wire).dest \in Queues
        /\ recvCq' = [recvCq EXCEPT ![Head(wire).dest] = Append(@, Announced)]
        /\ Len(Tail(wire)) = Len(wire) - 1
    BY CompleteFacts, Zenon
  <2>2. QED
    BY <1>0, <2>1 DEF Complete, Announced
<1>2. batch' = batch /\ Posted' = Posted
  BY DEF Complete, recvVars, sendVars, Posted
<1>3. Executed' = Executed + 1
  BY <1>1, <1>2, SendTypes DEF Executed
<1>4. wire[1].id = Executed + 1 /\ wire[1].dest = wire[1].id % NumQueues /\ wire[1].id \in Nat
  BY <1>1, WireHead
<1>11. PICK c \in Nat, b \in Int : c = Executed' /\ b = Executed /\ c = b + 1 /\ d = c % NumQueues
  BY <1>0, <1>3, <1>4, SendTypes
<1> SUFFICES ASSUME NEW q \in Queues
             PROVE  /\ \A k \in 1 .. Len(recvCq'[q]) : Late(Executed', q, recvCq'[q][k], Len(recvCq'[q]) - k)
                    /\ \A k \in 1 .. Len(batch'[q]) :
                         Late(Executed', q, batch'[q][k], Len(batch'[q]) - k + Len(recvCq'[q]))
  BY DEF LateInv
<1>5. DOMAIN recvCq = Queues
  BY DEF TypeInv, Types
<1>6. PICK L \in Nat, B \in Nat : L = Len(recvCq[q]) /\ B = Len(batch[q])
  BY QueueTypes
<1>7. /\ \A k \in 1 .. L : recvCq[q][k] \in Announcement /\ Late(b, q, recvCq[q][k], L - k)
      /\ \A k \in 1 .. B : batch[q][k] \in Announcement /\ Late(b, q, batch[q][k], B - k + L)
  BY <1>6, <1>11, EntryTypes DEF LateInv
<1>8. CASE q # d
  <2>1. recvCq'[q] = recvCq[q] /\ batch'[q] = batch[q]
    BY <1>1, <1>2, <1>5, <1>8
  <2>2. ASSUME NEW k \in 1 .. L PROVE Late(c, q, recvCq[q][k], L - k)
    <3>1. L - k \in Nat
      OBVIOUS
    <3>2. QED
      BY <1>7, <1>8, <1>11, <3>1, LateNext
  <2>3. ASSUME NEW k \in 1 .. B PROVE Late(c, q, batch[q][k], B - k + L)
    <3>1. B - k + L \in Nat
      OBVIOUS
    <3>2. QED
      BY <1>7, <1>8, <1>11, <3>1, LateNext
  <2>4. QED
    BY <1>6, <1>11, <2>1, <2>2, <2>3
<1>9. CASE q = d
  <2>1. recvCq'[q] = Append(recvCq[q], Announced) /\ batch'[q] = batch[q]
    BY <1>1, <1>2, <1>5, <1>9
  <2>2. recvCq[q] \in Seq(Announcement)
    BY QueueTypes
  <2>3. /\ Len(recvCq'[q]) = L + 1
        /\ \A k \in 1 .. L : recvCq'[q][k] = recvCq[q][k]
        /\ recvCq'[q][L + 1] = Announced
    BY <1>1, <1>6, <2>1, <2>2, LastAdded
  <2>4. ASSUME NEW k \in 1 .. L PROVE Late(c, q, recvCq[q][k], L + 1 - k)
    <3>1. L - k \in Nat /\ L - k + 1 = L + 1 - k
      OBVIOUS
    <3>2. Late(c, q, recvCq[q][k], L - k + 1)
      BY <1>7, <1>9, <1>11, <3>1, LateNext
    <3>3. QED
      BY <3>1, <3>2
  <2>5. ASSUME NEW k \in 1 .. B PROVE Late(c, q, batch[q][k], B - k + (L + 1))
    <3>1. B - k + L \in Nat /\ B - k + L + 1 = B - k + (L + 1)
      OBVIOUS
    <3>2. Late(c, q, batch[q][k], B - k + L + 1)
      BY <1>7, <1>9, <1>11, <3>1, LateNext
    <3>3. QED
      BY <3>1, <3>2
  <2>6. Late(c, q, Announced, 0)
    <3>1. Announced.id % NumQueues = q
      BY <1>0, <1>1, <1>4, <1>9
    <3>2. Announced.id + 0 * NumQueues = c
      BY <1>1, <1>3, <1>4, <1>11, ConstantTypes
    <3>3. c \in c - NumQueues + 1 .. c
      BY ConstantTypes
    <3>4. QED
      BY <3>1, <3>2, <3>3 DEF Late
  <2>7. ASSUME NEW k \in 1 .. L + 1 PROVE Late(c, q, recvCq'[q][k], L + 1 - k)
    <3>1. CASE k = L + 1
      BY <2>3, <2>6, <3>1
    <3>2. CASE k # L + 1
      BY <2>3, <2>4, <3>2
    <3>3. QED
      BY <3>1, <3>2
  <2>8. \A k \in 1 .. Len(recvCq'[q]) : Late(Executed', q, recvCq'[q][k], Len(recvCq'[q]) - k)
    BY <1>11, <2>3, <2>7
  <2>9. \A k \in 1 .. Len(batch'[q]) :
          Late(Executed', q, batch'[q][k], Len(batch'[q]) - k + Len(recvCq'[q]))
    BY <1>6, <1>11, <2>1, <2>3, <2>5, Zenon
  <2>10. QED
    BY <2>8, <2>9, Zenon
<1>10. QED
  BY <1>8, <1>9

(* The receiver polls it.                                                  *)
LEMMA LateRecv ==
  ASSUME TypeInv, LateInv, NEW p \in Queues, Recv(p)
  PROVE  LateInv'
<1>1. PICK n \in 0 .. Len(recvCq[p]) :
           /\ batch[p] = << >> /\ Len(batch[p]) = 0
           /\ batch' = [batch EXCEPT ![p] = SubSeq(recvCq[p], 1, n)]
           /\ recvCq' = [recvCq EXCEPT ![p] = SubSeq(recvCq[p], n + 1, Len(recvCq[p]))]
           /\ numPosted' = [numPosted EXCEPT ![p] = @ - n]
  BY RecvFacts, Zenon
<1>2. Executed' = Executed
  BY DEF Recv, sendVars, Executed, Posted
<1>3. DOMAIN recvCq = Queues /\ DOMAIN batch = Queues
  BY DEF TypeInv, Types
<1> SUFFICES ASSUME NEW q \in Queues
             PROVE  /\ \A k \in 1 .. Len(recvCq'[q]) :
                         Late(Executed', q, recvCq'[q][k], Len(recvCq'[q]) - k)
                    /\ \A k \in 1 .. Len(batch'[q]) :
                         Late(Executed', q, batch'[q][k], Len(batch'[q]) - k + Len(recvCq'[q]))
  BY DEF LateInv
<1>4. CASE q # p
  BY <1>1, <1>2, <1>3, <1>4 DEF LateInv
<1>5. CASE q = p
  <2>1. recvCq[p] \in Seq(Announcement)
    BY QueueTypes
  <2>2. PICK L \in Nat : L = Len(recvCq[p])
    BY QueueTypes
  <2>3. /\ Len(SubSeq(recvCq[p], 1, n)) = n
        /\ Len(SubSeq(recvCq[p], n + 1, L)) = L - n
        /\ \A i \in 1 .. n : SubSeq(recvCq[p], 1, n)[i] = recvCq[p][i]
        /\ \A i \in 1 .. L - n : SubSeq(recvCq[p], n + 1, L)[i] = recvCq[p][n + i]
    BY <2>1, <2>2, CutInTwo, ZenonT(30)
  <2>4. /\ Len(batch'[q]) = n /\ Len(recvCq'[q]) = L - n
        /\ \A i \in 1 .. n : batch'[q][i] = recvCq[p][i]
        /\ \A i \in 1 .. L - n : recvCq'[q][i] = recvCq[p][n + i]
    BY <1>1, <1>3, <1>5, <2>2, <2>3
  <2>5. \A k \in 1 .. L : Late(Executed, q, recvCq[p][k], L - k)
    BY <1>5, <2>2 DEF LateInv
  <2>6. n \in 0 .. L
    BY <2>2
  <2>7. ASSUME NEW k \in 1 .. L - n PROVE Late(Executed, q, recvCq'[q][k], (L - n) - k)
    <3>1. n + k \in 1 .. L /\ L - (n + k) = (L - n) - k
      BY <2>6
    <3>2. Late(Executed, q, recvCq[p][n + k], L - (n + k))
      BY <2>5, <3>1
    <3>3. QED
      BY <2>4, <3>1, <3>2
  <2>8. ASSUME NEW k \in 1 .. n PROVE Late(Executed, q, batch'[q][k], n - k + (L - n))
    <3>1. k \in 1 .. L /\ L - k = n - k + (L - n)
      BY <2>6
    <3>2. QED
      BY <2>4, <2>5, <3>1
  <2>9. QED
    BY <1>2, <2>4, <2>7, <2>8, Zenon
<1>6. QED
  BY <1>4, <1>5

(* The receiver is done with it and posts a request again.                 *)
LEMMA LateProcess ==
  ASSUME TypeInv, LateInv, NEW p \in Queues, Process(p)
  PROVE  LateInv'
<1>1. batch' = [batch EXCEPT ![p] = Tail(batch[p])] /\ recvCq' = recvCq /\ batch[p] # << >>
  BY DEF Process
<1>2. Executed' = Executed
  BY DEF Process, sendVars, Executed, Posted
<1>3. DOMAIN batch = Queues
  BY DEF TypeInv, Types
<1> SUFFICES ASSUME NEW q \in Queues
             PROVE  /\ \A k \in 1 .. Len(recvCq'[q]) :
                         Late(Executed', q, recvCq'[q][k], Len(recvCq'[q]) - k)
                    /\ \A k \in 1 .. Len(batch'[q]) :
                         Late(Executed', q, batch'[q][k], Len(batch'[q]) - k + Len(recvCq'[q]))
  BY DEF LateInv
<1>4. CASE q # p
  BY <1>1, <1>2, <1>3, <1>4 DEF LateInv
<1>5. CASE q = p
  <2>1. batch[p] \in Seq(Announcement)
    BY QueueTypes
  <2>2. PICK B \in Nat, L \in Nat : B = Len(batch[p]) /\ L = Len(recvCq[p])
    BY QueueTypes
  <2>3. /\ Len(Tail(batch[p])) = B - 1
        /\ \A i \in 1 .. Len(Tail(batch[p])) : Tail(batch[p])[i] = batch[p][i + 1]
    BY <1>1, <2>1, <2>2, FirstTaken, Zenon
  <2>4. Len(batch'[q]) = B - 1 /\ \A i \in 1 .. B - 1 : batch'[q][i] = batch[p][i + 1]
    BY <1>1, <1>3, <1>5, <2>3
  <2>5. /\ \A k \in 1 .. B : Late(Executed, q, batch[p][k], B - k + L)
        /\ \A k \in 1 .. Len(recvCq[q]) : Late(Executed, q, recvCq[q][k], Len(recvCq[q]) - k)
    BY <1>5, <2>2 DEF LateInv
  <2>6. ASSUME NEW k \in 1 .. B - 1 PROVE Late(Executed, q, batch'[q][k], (B - 1) - k + L)
    <3>1. k + 1 \in 1 .. B /\ B - (k + 1) + L = (B - 1) - k + L
      OBVIOUS
    <3>2. Late(Executed, q, batch[p][k + 1], B - (k + 1) + L)
      BY <2>5, <3>1
    <3>3. QED
      BY <2>4, <3>1, <3>2
  <2>7. QED
    BY <1>1, <1>2, <1>5, <2>2, <2>4, <2>5, <2>6, Zenon
<1>6. QED
  BY <1>4, <1>5

(* Every step keeps the receive requests in number.                        *)
LEMMA LateStep ==
  ASSUME TypeInv, SendInv, LateInv, [Next]_vars
  PROVE  LateInv'
<1>1. ASSUME UNCHANGED <<recvCq, batch>>, Executed' = Executed PROVE LateInv'
  BY <1>1 DEF LateInv
<1>2. ASSUME Synchronize \/ WaitSync \/ WritePayload \/ Finished \/ UNCHANGED vars
      PROVE  UNCHANGED <<recvCq, batch>> /\ Executed' = Executed
  BY <1>2 DEF Synchronize, WaitSync, WritePayload, Finished, vars, sendVars, recvVars, Executed, Posted
<1>3. ASSUME Post PROVE UNCHANGED <<recvCq, batch>> /\ Executed' = Executed
  BY <1>3, PostFacts DEF Post, recvVars
<1>4. ASSUME NEW len \in Lengths, NEW sync \in BOOLEAN, Fill(len, sync)
      PROVE  UNCHANGED <<recvCq, batch>> /\ Executed' = Executed
  BY <1>4, SendTypes DEF Fill, recvVars, Executed, Posted
<1>5. QED
  BY <1>1, <1>2, <1>3, <1>4, LateComplete, LateRecv, LateProcess, Zenon
     DEF Next, Sending, Device, Receiving

-----------------------------------------------------------------------------
(* An unread message and the one being written are within the window: the  *)
(* receive requests of a queue bound the unread messages for it.           *)
LEMMA LateWindow ==
  ASSUME TypeInv, SendInv, wire # << >>, EarlyWrite \/ free[wire[1].dest] > 0,
         NEW q \in Queues, NEW e \in Announcement, NEW r \in Nat, Late(Executed, q, e, r),
         r + 1 + free[q] <= RecvRequests
  PROVE  wire[1].id - e.id <= Window /\ e.id < wire[1].id
<1>1. PICK n \in Nat \ {0}, x \in Nat, R \in Nat \ {0} :
        n = NumQueues /\ x = e.id /\ R = RecvRequests
  BY ConstantTypes DEF Announcement
<1>2. PICK c \in Nat : c = wire[1].id /\ c = Executed + 1 /\ wire[1].dest = c % NumQueues
  BY WireHead
<1>3. x % n = q /\ x + r * n \in (c - 1) - n + 1 .. c - 1
  <2>1. Executed = c - 1
    BY <1>2, SendTypes
  <2>2. QED
    BY <1>1, <2>1, Zenon DEF Late
<1>4. PICK rn \in Nat, Rn \in Nat : rn = r * n /\ Rn = R * n
  OBVIOUS
<1>5. PICK z \in Nat : z = x + rn
  OBVIOUS
<1>6. z \in c - n .. c - 1
  BY <1>3, <1>4, <1>5
<1>7. z % n = c % n <=> z + n = c
  BY <1>6, NextTurn
<1>8. z % n = x % n
  BY <1>4, <1>5, SameRemainder
<1>9. PICK f \in Nat : f = free[q]
  BY QueueTypes
<1>10. r + 1 + f <= R
  BY <1>1, <1>9
<1>11. rn + n <= Rn
  <2>1. PICK g \in Nat : R = r + 1 + g
    <3>1. R - (r + 1) \in Nat /\ R = r + 1 + (R - (r + 1))
      BY <1>10
    <3>2. QED
      BY <3>1
  <2>2. (r + 1 + g) * n = r * n + n + g * n /\ g * n \in Nat
    OBVIOUS
  <2>3. QED
    BY <1>4, <2>1, <2>2
<1>12. f > 0 => rn + n + n <= Rn
  <2> SUFFICES ASSUME f > 0 PROVE rn + n + n <= Rn
    OBVIOUS
  <2>1. PICK g \in Nat : R = r + 2 + g
    <3>1. R - (r + 2) \in Nat /\ R = r + 2 + (R - (r + 2))
      BY <1>10
    <3>2. QED
      BY <3>1
  <2>2. (r + 2 + g) * n = r * n + n + n + g * n /\ g * n \in Nat
    OBVIOUS
  <2>3. QED
    BY <1>4, <2>1, <2>2
<1>13. x < c /\ c - x <= Rn
  BY <1>5, <1>6, <1>11
<1>14. ASSUME ~ EarlyWrite PROVE c - x <= Rn - 1
  <2>1. CASE q = wire[1].dest
    <3>1. f > 0
      BY <1>9, <1>14, <2>1
    <3>2. QED
      BY <1>5, <1>6, <1>12, <3>1
  <2>2. CASE q # wire[1].dest
    <3>1. z + n # c
      BY <1>1, <1>2, <1>3, <1>7, <1>8, <2>2, Zenon
    <3>2. QED
      BY <1>5, <1>6, <1>11, <3>1
  <2>3. QED
    BY <2>1, <2>2
<1>15. NumQueues * RecvRequests = Rn
  BY <1>1, <1>4
<1>16. Window = IF EarlyWrite THEN Rn ELSE Rn - 1
  BY <1>15, ConstantTypes DEF Window
<1>17. QED
  BY <1>1, <1>2, <1>13, <1>14, <1>16, ConstantTypes

(* An unread message is typed, and one of the last of its queue.           *)
LEMMA UnreadLate ==
  ASSUME TypeInv, LateInv, NEW q \in Queues, NEW e \in Unread(q)
  PROVE  e \in Announcement
         /\ \E r \in Nat : Late(Executed, q, e, r) /\ r + 1 + free[q] <= RecvRequests
<1>1. PICK L \in Nat, B \in Nat, f \in Nat, R \in Nat :
        /\ L = Len(recvCq[q]) /\ B = Len(batch[q]) /\ f = free[q] /\ R = RecvRequests
        /\ f + L + B <= R
  BY QueueTypes, ConstantTypes
<1>2. DOMAIN recvCq[q] = 1 .. L /\ DOMAIN batch[q] = 1 .. B
  BY <1>1, QueueTypes
<1>3. /\ \A k \in 1 .. L : recvCq[q][k] \in Announcement /\ Late(Executed, q, recvCq[q][k], L - k)
      /\ \A k \in 1 .. B : batch[q][k] \in Announcement /\ Late(Executed, q, batch[q][k], B - k + L)
  BY <1>1, EntryTypes DEF LateInv
<1>4. ASSUME NEW k \in 1 .. L, e = recvCq[q][k]
      PROVE  e \in Announcement
             /\ \E r \in Nat : Late(Executed, q, e, r) /\ r + 1 + free[q] <= RecvRequests
  <2>0. f + L + B <= R
    BY <1>1
  <2>1. L - k \in Nat /\ (L - k) + 1 + f <= R
    BY <2>0
  <2>2. QED
    BY <1>1, <1>3, <1>4, <2>1, Zenon
<1>5. ASSUME NEW k \in 1 .. B, e = batch[q][k]
      PROVE  e \in Announcement
             /\ \E r \in Nat : Late(Executed, q, e, r) /\ r + 1 + free[q] <= RecvRequests
  <2>0. f + L + B <= R
    BY <1>1
  <2>1. B - k + L \in Nat /\ (B - k + L) + 1 + f <= R
    BY <2>0
  <2>2. QED
    BY <1>1, <1>3, <1>5, <2>1, Zenon
<1>6. QED
  BY <1>2, <1>4, <1>5, Zenon DEF Unread

(* When the device may write, what is unread fits the receive requests.    *)
LEMMA UnreadWindow ==
  ASSUME TypeInv, SendInv, LateInv, wire # << >>, EarlyWrite \/ free[wire[1].dest] > 0,
         NEW x \in Received
  PROVE  wire[1].id - x.id <= Window /\ x.id < wire[1].id
<1>0. PICK q \in Queues : \E e \in Unread(q) : x = EntrySpot(e)
  BY Zenon DEF Received
<1>1. PICK e \in Unread(q) : x = EntrySpot(e)
  BY <1>0
<1>2. PICK r \in Nat : Late(Executed, q, e, r) /\ r + 1 + free[q] <= RecvRequests
  BY UnreadLate, Zenon
<1>3. e \in Announcement
  BY UnreadLate, Zenon
<1>4. wire[1].id - e.id <= Window /\ e.id < wire[1].id
  BY <1>2, <1>3, LateWindow, Zenon
<1>5. x.id = e.id
  BY <1>1 DEF EntrySpot
<1>6. QED
  BY <1>4, <1>5

-----------------------------------------------------------------------------
(* Rounding up.                                                            *)
LEMMA AlignUp ==
  ASSUME NEW a \in Nat, a % Alignment = 0, NEW len \in 1 .. MaxLength
  PROVE  /\ a + len <= Align(a + len) /\ Align(a + len) <= a + Align(MaxLength)
         /\ Align(a + len) % Alignment = 0 /\ MaxLength <= Align(MaxLength)
         /\ Align(a + len) \in Nat /\ Align(MaxLength) \in Nat
<1>1. PICK n \in Nat \ {0}, M \in Nat \ {0} : n = Alignment /\ M = MaxLength
  BY ConstantTypes
<1>2. PICK u \in Nat : a = n * u
  <2>1. PICK v \in Nat : v = a \div n
    BY DivMod
  <2>2. a = n * v + (a % n)
    BY <2>1, DivMod
  <2>3. n * v \in Nat
    OBVIOUS
  <2>4. a = n * v
    BY <1>1, <2>2, <2>3
  <2>5. QED
    BY <2>4
<1>3. PICK g \in Nat, h \in Nat, t \in Nat :
        g = len + n - 1 /\ h = M + n - 1 /\ t = a + len + n - 1
  <2>1. len + n - 1 \in Nat /\ M + n - 1 \in Nat /\ a + len + n - 1 \in Nat
    BY <1>1
  <2>2. QED
    BY <2>1, Zenon
<1>4. PICK c \in Nat, d \in Nat, e \in Nat : c = g \div n /\ d = h \div n /\ e = t \div n
  BY DivMod
<1>5. PICK r \in 0 .. n - 1, s \in 0 .. n - 1, w \in 0 .. n - 1 : r = g % n /\ s = h % n /\ w = t % n
  BY ModRange
<1>6. g = n * c + r /\ h = n * d + s /\ t = n * e + w
  BY <1>4, <1>5, DivMod
<1>7. e = u + c
  <2>1. PICK nu \in Nat, nc \in Nat, ne \in Nat : nu = n * u /\ nc = n * c /\ ne = n * e
    OBVIOUS
  <2>2. n * (u + c) = nu + nc /\ u + c \in Nat
    BY <2>1
  <2>3. a = nu /\ g = nc + r /\ t = ne + w
    BY <1>2, <1>6, <2>1
  <2>4. t = a + g
    BY <1>1, <1>3
  <2>5. n * e + w = n * (u + c) + r
    BY <2>1, <2>2, <2>3, <2>4
  <2>6. QED
    BY <2>2, <2>5, OneRemainder
<1>8. c <= d
  <2>1. g <= h
    BY <1>1, <1>3
  <2>2. QED
    BY <1>4, <2>1, DivMonotone
<1>9. Align(a + len) = e * n /\ Align(MaxLength) = d * n
  BY <1>1, <1>3, <1>4 DEF Align
<1>10. PICK nu \in Nat, nc \in Nat, nd \in Nat : nu = n * u /\ nc = n * c /\ nd = n * d
  OBVIOUS
<1>11. e * n = nu + nc /\ d * n = nd
  BY <1>7, <1>10
<1>12. nc <= nd
  <2>1. PICK k \in Nat : d = c + k
    <3>1. d - c \in Nat /\ d = c + (d - c)
      BY <1>8
    <3>2. QED
      BY <3>1
  <2>2. n * (c + k) = n * c + n * k /\ n * k \in Nat
    OBVIOUS
  <2>3. QED
    BY <1>10, <2>1, <2>2
<1>13. len <= nc /\ M <= nd
  BY <1>3, <1>6, <1>10
<1>14. (e * n) % n = 0
  <2>1. (0 + e * n) % n = 0 % n
    BY SameRemainder
  <2>2. 0 % n = 0
    <3>1. PICK z \in Nat, y \in 0 .. n - 1 : z = 0 \div n /\ y = 0 % n
      BY DivMod, ModRange
    <3>2. n * z + y = n * 0 + 0
      BY <3>1, DivMod
    <3>3. QED
      BY <3>1, <3>2, OneRemainder
  <2>3. QED
    BY <2>1, <2>2
<1>15. QED
  BY <1>1, <1>2, <1>9, <1>10, <1>11, <1>12, <1>13, <1>14

(* A place can be read from the immediate data: it is neither cut off nor  *)
(* mixed up with the index of the ring.                                    *)
LEMMA Decoded ==
  ASSUME NEW at \in Nat, at < RingSize
  PROVE  IndexOf(Immediate(at)) = RingIndex /\ OffsetOf(Immediate(at)) = at
<1>1. PICK n \in Nat \ {0}, i \in Nat, V \in Nat \ {0}, R \in Nat \ {0} :
        n = QueuePairs /\ i = RingIndex /\ V = ImmValues /\ R = RingSize
  BY ConstantTypes
<1>2. i \in 0 .. n - 1
  BY <1>1, ConstantTypes
<1>3. PICK z \in Nat : z = i + at * n
  OBVIOUS
<1>4. z < V
  <2>1. PICK g \in Nat : R = at + 1 + g
    <3>1. R - (at + 1) \in Nat /\ R = at + 1 + (R - (at + 1))
      BY <1>1
    <3>2. QED
      BY <3>1
  <2>2. n * (at + 1 + g) = at * n + n + n * g /\ n * g \in Nat
    OBVIOUS
  <2>3. n * R <= V
    BY <1>1, QueuePairsAssert
  <2>4. PICK an \in Nat : an = at * n
    OBVIOUS
  <2>5. z = i + an /\ an + n <= n * R /\ n * R \in Nat
    BY <1>3, <2>1, <2>2, <2>4
  <2>6. QED
    BY <1>2, <2>3, <2>5
<1>5. z % V = z
  <2>1. PICK d \in Nat, y \in 0 .. V - 1 : d = z \div V /\ y = z % V
    BY DivMod, ModRange
  <2>2. z = V * d + y
    BY <2>1, DivMod
  <2>3. V * d + y = V * 0 + z /\ z \in 0 .. V - 1
    BY <1>4, <2>2
  <2>4. y = z
    BY <2>3, OneRemainder
  <2>5. QED
    BY <2>1, <2>4
<1>6. Immediate(at) = z
  BY <1>1, <1>3, <1>5 DEF Immediate
<1>7. PICK d \in Nat, y \in 0 .. n - 1 : d = z \div n /\ y = z % n
  BY DivMod, ModRange
<1>8. z = n * d + y
  BY <1>7, DivMod
<1>9. n * d + y = n * at + i
  BY <1>3, <1>8
<1>10. y = i /\ d = at
  BY <1>2, <1>9, OneRemainder
<1>11. QED
  BY <1>1, <1>6, <1>7, <1>10 DEF IndexOf, OffsetOf

-----------------------------------------------------------------------------
(* One message of length l more, in a ring of size R: x is a place before, *)
(* where the next one would start at o.  A is the room that the longest    *)
(* message takes, M its length, and dA that of all messages since x.       *)
LEMMA OneMorePlace ==
  ASSUME NEW R \in Nat, NEW M \in Nat, NEW A \in Nat, NEW dA \in Nat, M <= A,
         dA + A + M - 1 <= R,
         NEW xat \in Nat, NEW xlen \in Nat \ {0}, xat + xlen <= R,
         NEW o \in Nat, NEW l \in 1 .. M, NEW p \in Nat, p = (IF o + l <= R THEN o ELSE 0),
         NEW o2 \in Nat, p + l <= o2, o2 <= p + A,
         \/ xat + xlen <= o /\ o - xat <= dA
         \/ o + R - M + 1 - xat <= dA
  PROVE  /\ xat + xlen <= p \/ p + l <= xat
         /\ \/ xat + xlen <= o2 /\ o2 - xat <= dA + A
            \/ o2 + R - M + 1 - xat <= dA + A
<1>1. CASE o + l <= R
  BY <1>1
<1>2. CASE ~ (o + l <= R)
  BY <1>2
<1>3. QED
  BY <1>1, <1>2

(* The window as a number.                                                 *)
LEMMA WindowType ==
  ASSUME Room
  PROVE  /\ Window \in Nat /\ Align(MaxLength) \in Nat /\ MaxLength <= Align(MaxLength)
         /\ (Window + 1) * Align(MaxLength) + MaxLength - 1 <= RingSize
<1>1. NumQueues * RecvRequests \in Nat \ {0}
  <2>1. PICK n \in Nat, m \in Nat : NumQueues = n + 1 /\ RecvRequests = m + 1
    <3>1. NumQueues - 1 \in Nat /\ RecvRequests - 1 \in Nat
          /\ NumQueues = (NumQueues - 1) + 1 /\ RecvRequests = (RecvRequests - 1) + 1
      BY ConstantTypes
    <3>2. QED
      BY <3>1, Zenon
  <2>2. (n + 1) * (m + 1) = n * m + n + m + 1 /\ n * m \in Nat
    OBVIOUS
  <2>3. QED
    BY <2>1, <2>2
<1>2. Window \in Nat
  BY <1>1, ConstantTypes DEF Window
<1>3. 0 % Alignment = 0
  BY ConstantTypes
<1>4. Align(MaxLength) \in Nat /\ MaxLength <= Align(MaxLength)
  <2>1. MaxLength \in 1 .. MaxLength /\ 0 \in Nat
    BY ConstantTypes
  <2>2. QED
    BY <1>3, <2>1, AlignUp
<1>5. QED
  BY <1>2, <1>4 DEF Room

(* Places that are only left alone or freed.                               *)
LEMMA FewerSpots ==
  ASSUME SpotInv, Live' \subseteq Live, offset' = offset, Posted' = Posted
  PROVE  SpotInv'
<1>1. \A x : Fits(x, Posted) = Fits(x, Posted')
  OBVIOUS
<1>2. \A x \in Live : Fits(x, Posted') /\ Follows(x, offset', Posted' + 1)
  BY Zenon DEF SpotInv
<1>3. \A x, y \in Live : x.id < y.id /\ y.id - x.id <= Window => Apart(x, y)
  BY DEF SpotInv
<1>4. QED
  BY <1>2, <1>3, Zenon DEF SpotInv

(* The entries of a queue in the next state.                               *)
LEMMA UnreadNext ==
  ASSUME TypeInv', NEW q \in Queues, NEW e \in Unread(q)'
  PROVE  \/ \E k \in 1 .. Len(recvCq'[q]) : e = recvCq'[q][k]
         \/ \E k \in 1 .. Len(batch'[q]) : e = batch'[q][k]
<1>1. recvCq'[q] \in Seq(Announcement) /\ batch'[q] \in Seq(Announcement)
  BY DEF TypeInv, Types
<1>2. DOMAIN recvCq'[q] = 1 .. Len(recvCq'[q]) /\ DOMAIN batch'[q] = 1 .. Len(batch'[q])
  BY <1>1
<1>3. QED
  BY <1>2, Zenon DEF Unread

(* The entries of a queue in this state.                                   *)
LEMMA UnreadNow ==
  ASSUME TypeInv, NEW q \in Queues
  PROVE  /\ \A k \in 1 .. Len(recvCq[q]) : recvCq[q][k] \in Unread(q)
         /\ \A k \in 1 .. Len(batch[q]) : batch[q][k] \in Unread(q)
<1>1. recvCq[q] \in Seq(Announcement) /\ batch[q] \in Seq(Announcement)
  BY QueueTypes
<1>2. DOMAIN recvCq[q] = 1 .. Len(recvCq[q]) /\ DOMAIN batch[q] = 1 .. Len(batch[q])
  BY <1>1
<1>3. QED
  BY <1>2, Zenon DEF Unread

(* Polling leaves what is unread as it is.                                 *)
LEMMA UnreadRecv ==
  ASSUME TypeInv, TypeInv', NEW p \in Queues, Recv(p), NEW q \in Queues
  PROVE  Unread(q)' \subseteq Unread(q)
<1> SUFFICES ASSUME NEW e \in Unread(q)' PROVE e \in Unread(q)
  OBVIOUS
<1>1. PICK n \in 0 .. Len(recvCq[p]) :
           /\ batch[p] = << >> /\ Len(batch[p]) = 0
           /\ batch' = [batch EXCEPT ![p] = SubSeq(recvCq[p], 1, n)]
           /\ recvCq' = [recvCq EXCEPT ![p] = SubSeq(recvCq[p], n + 1, Len(recvCq[p]))]
           /\ numPosted' = [numPosted EXCEPT ![p] = @ - n]
  BY RecvFacts, Zenon
<1>2. DOMAIN recvCq = Queues /\ DOMAIN batch = Queues
  BY DEF TypeInv, Types
<1>3. CASE q # p
  BY <1>1, <1>2, <1>3 DEF Unread
<1>4. CASE q = p
  <2>1. recvCq[p] \in Seq(Announcement)
    BY QueueTypes
  <2>2. PICK L \in Nat : L = Len(recvCq[p])
    BY QueueTypes
  <2>3. /\ Len(SubSeq(recvCq[p], 1, n)) = n
        /\ Len(SubSeq(recvCq[p], n + 1, L)) = L - n
        /\ \A i \in 1 .. n : SubSeq(recvCq[p], 1, n)[i] = recvCq[p][i]
        /\ \A i \in 1 .. L - n : SubSeq(recvCq[p], n + 1, L)[i] = recvCq[p][n + i]
    BY <2>1, <2>2, CutInTwo, SMTT(30)
  <2>4. /\ Len(batch'[q]) = n /\ Len(recvCq'[q]) = L - n
        /\ \A i \in 1 .. n : batch'[q][i] = recvCq[q][i]
        /\ \A i \in 1 .. L - n : recvCq'[q][i] = recvCq[q][n + i]
    BY <1>1, <1>2, <1>4, <2>2, <2>3
  <2>5. \A k \in 1 .. L : recvCq[q][k] \in Unread(q)
    BY <1>4, <2>2, UnreadNow
  <2>6. n \in 0 .. L
    BY <2>2
  <2>7. ASSUME NEW k \in 1 .. L - n PROVE recvCq'[q][k] \in Unread(q)
    <3>1. n + k \in 1 .. L
      BY <2>6
    <3>2. QED
      BY <2>4, <2>5, <3>1
  <2>8. ASSUME NEW k \in 1 .. n PROVE batch'[q][k] \in Unread(q)
    <3>1. k \in 1 .. L
      BY <2>6
    <3>2. QED
      BY <2>4, <2>5, <3>1
  <2>9. /\ \A k \in 1 .. Len(recvCq'[q]) : recvCq'[q][k] \in Unread(q)
        /\ \A k \in 1 .. Len(batch'[q]) : batch'[q][k] \in Unread(q)
    BY <2>4, <2>7, <2>8
  <2>10. \/ \E k \in 1 .. Len(recvCq'[q]) : e = recvCq'[q][k]
         \/ \E k \in 1 .. Len(batch'[q]) : e = batch'[q][k]
    BY UnreadNext, Zenon
  <2>11. QED
    BY <2>9, <2>10, Zenon
<1>5. QED
  BY <1>3, <1>4

(* A callback that returns takes one away.                                 *)
LEMMA UnreadProcess ==
  ASSUME TypeInv, TypeInv', NEW p \in Queues, Process(p), NEW q \in Queues
  PROVE  Unread(q)' \subseteq Unread(q)
<1> SUFFICES ASSUME NEW e \in Unread(q)' PROVE e \in Unread(q)
  OBVIOUS
<1>1. batch' = [batch EXCEPT ![p] = Tail(batch[p])] /\ recvCq' = recvCq /\ batch[p] # << >>
  BY DEF Process
<1>2. DOMAIN batch = Queues
  BY DEF TypeInv, Types
<1>3. CASE q # p
  BY <1>1, <1>2, <1>3 DEF Unread
<1>4. CASE q = p
  <2>1. batch[p] \in Seq(Announcement)
    BY QueueTypes
  <2>2. PICK B \in Nat : B = Len(batch[p])
    BY QueueTypes
  <2>3. /\ Len(Tail(batch[p])) = B - 1
        /\ \A i \in 1 .. Len(Tail(batch[p])) : Tail(batch[p])[i] = batch[p][i + 1]
    BY <1>1, <2>1, <2>2, FirstTaken, Zenon
  <2>4. Len(batch'[q]) = B - 1 /\ \A i \in 1 .. B - 1 : batch'[q][i] = batch[q][i + 1]
    BY <1>1, <1>2, <1>4, <2>3
  <2>5. \A k \in 1 .. B : batch[q][k] \in Unread(q)
    BY <1>4, <2>2, UnreadNow
  <2>6. ASSUME NEW k \in 1 .. B - 1 PROVE batch'[q][k] \in Unread(q)
    <3>1. k + 1 \in 1 .. B
      OBVIOUS
    <3>2. QED
      BY <2>4, <2>5, <3>1
  <2>7. \A k \in 1 .. Len(recvCq'[q]) : recvCq'[q][k] \in Unread(q)
    BY <1>1, UnreadNow
  <2>8. QED
    BY <2>4, <2>6, <2>7, UnreadNext, SMTT(30)
<1>5. QED
  BY <1>3, <1>4

(* An arrival adds one.                                                    *)
LEMMA UnreadComplete ==
  ASSUME TypeInv, TypeInv', Complete, NEW q \in Queues
  PROVE  Unread(q)' \subseteq Unread(q) \cup {Announced}
<1> SUFFICES ASSUME NEW e \in Unread(q)' PROVE e \in Unread(q) \cup {Announced}
  OBVIOUS
<1>0. PICK d : d = Head(wire).dest
  OBVIOUS
<1>1. /\ Announced \in Announcement /\ d \in Queues
      /\ recvCq' = [recvCq EXCEPT ![d] = Append(recvCq[d], Announced)] /\ batch' = batch
  <2>1. Announced \in Announcement /\ Head(wire).dest \in Queues
        /\ recvCq' = [recvCq EXCEPT ![Head(wire).dest] = Append(@, Announced)]
    BY CompleteFacts, Zenon
  <2>2. QED
    BY <1>0, <2>1 DEF Complete, recvVars
<1>2. DOMAIN recvCq = Queues
  BY DEF TypeInv, Types
<1>3. CASE q # d
  BY <1>1, <1>2, <1>3 DEF Unread
<1>4. CASE q = d
  <2>1. recvCq[q] \in Seq(Announcement) /\ recvCq'[q] = Append(recvCq[q], Announced)
    BY <1>1, <1>2, <1>4, QueueTypes
  <2>2. PICK L \in Nat : L = Len(recvCq[q])
    BY QueueTypes
  <2>3. /\ Len(recvCq'[q]) = L + 1 /\ recvCq'[q][L + 1] = Announced
        /\ \A k \in 1 .. L : recvCq'[q][k] = recvCq[q][k]
    BY <1>1, <2>1, <2>2, LastAdded
  <2>4. ASSUME NEW k \in 1 .. L + 1 PROVE recvCq'[q][k] \in Unread(q) \cup {Announced}
    <3>1. CASE k = L + 1
      BY <2>3, <3>1
    <3>2. CASE k # L + 1
      <4>1. k \in 1 .. L
        BY <3>2
      <4>2. QED
        BY <2>2, <2>3, <4>1, UnreadNow
    <3>3. QED
      BY <3>1, <3>2
  <2>5. \A k \in 1 .. Len(batch'[q]) : batch'[q][k] \in Unread(q)
    BY <1>1, UnreadNow
  <2>6. \A k \in 1 .. Len(recvCq'[q]) : recvCq'[q][k] \in Unread(q) \cup {Announced}
    BY <2>3, <2>4
  <2>7. \/ \E k \in 1 .. Len(recvCq'[q]) : e = recvCq'[q][k]
        \/ \E k \in 1 .. Len(batch'[q]) : e = batch'[q][k]
    BY UnreadNext, Zenon
  <2>8. QED
    BY <2>5, <2>6, <2>7, Zenon
<1>5. QED
  BY <1>3, <1>4

-----------------------------------------------------------------------------
(* How the places of the messages change.                                  *)
LEMMA InReceived ==
  ASSUME NEW q \in Queues, NEW e \in Unread(q)
  PROVE  EntrySpot(e) \in Received
BY DEF Received

(* With fewer unread messages in the queues there are fewer in all.        *)
LEMMA ReceivedFewer ==
  ASSUME \A q \in Queues : Unread(q)' \subseteq Unread(q)
  PROVE  Received' \subseteq Received
<1> SUFFICES ASSUME NEW x \in Received' PROVE x \in Received
  OBVIOUS
<1>1. PICK q \in Queues : \E e \in Unread(q)' : x = EntrySpot(e)
  BY Zenon DEF Received, EntrySpot
<1>2. PICK e \in Unread(q) : x = EntrySpot(e)
  BY <1>1
<1>3. QED
  BY <1>2, InReceived

(* An arrival moves a message from the wire to the unread ones.            *)
LEMMA ReceivedComplete ==
  ASSUME TypeInv, TypeInv', Complete
  PROVE  Received' \subseteq Received \cup {EntrySpot(Announced)}
<1> SUFFICES ASSUME NEW x \in Received' PROVE x \in Received \cup {EntrySpot(Announced)}
  OBVIOUS
<1>1. PICK q \in Queues : \E e \in Unread(q)' : x = EntrySpot(e)
  BY Zenon DEF Received, EntrySpot
<1>2. PICK e \in Unread(q)' : x = EntrySpot(e)
  BY <1>1
<1>3. e \in Unread(q) \cup {Announced}
  BY UnreadComplete, Zenon
<1>4. QED
  BY <1>2, <1>3, InReceived

(* What is announced is the place of the request.                          *)
LEMMA AnnouncedSpot ==
  ASSUME TypeInv, ImmInv, SpotInv, wire # << >>
  PROVE  /\ EntrySpot(Announced) = RequestSpot(wire[1]) /\ RequestSpot(wire[1]) \in Sent
         /\ IndexOf(Announced.imm) = RingIndex /\ Fits(RequestSpot(wire[1]), Posted)
<1>1. wire \in Seq(Request) /\ Head(wire) = wire[1] /\ 1 \in 1 .. Len(wire) /\ wire[1] \in Request
  BY DEF TypeInv, Types
<1>2. RequestSpot(wire[1]) \in Sent
  BY <1>1, Zenon DEF Sent
<1>3. Fits(RequestSpot(wire[1]), Posted)
  BY <1>2 DEF SpotInv, Live
<1>4. PICK a \in Nat, l \in 1 .. MaxLength : a = wire[1].at /\ l = wire[1].len
  BY <1>1 DEF Request
<1>5. RequestSpot(wire[1]).at = a /\ RequestSpot(wire[1]).len = l
  BY <1>4 DEF RequestSpot
<1>6. a < RingSize
  BY <1>3, <1>5, ConstantTypes DEF Fits
<1>7. wire[1].imm = Immediate(a)
  BY <1>1, <1>4 DEF ImmInv
<1>8. IndexOf(wire[1].imm) = RingIndex /\ OffsetOf(wire[1].imm) = a
  BY <1>6, <1>7, Decoded
<1>9. Announced.id = wire[1].id /\ Announced.imm = wire[1].imm /\ Announced.len = wire[1].len
  BY <1>1 DEF Announced
<1>10. EntrySpot(Announced) = RequestSpot(wire[1])
  BY <1>4, <1>8, <1>9 DEF EntrySpot, RequestSpot
<1>11. QED
  BY <1>2, <1>3, <1>8, <1>9, <1>10

(* An arrival leaves the places of the messages as they are.               *)
LEMMA PlaceComplete ==
  ASSUME TypeInv, TypeInv', PlaceInv, Complete
  PROVE  PlaceInv'
<1>1. /\ wire # << >> /\ wire' = Tail(wire) /\ Len(wire) \in Nat \ {0} /\ Len(wire') = Len(wire) - 1
      /\ \A k \in 1 .. Len(wire') : wire'[k] = wire[k + 1]
  <2>1. wire' = Tail(wire)
    BY DEF Complete
  <2>2. QED
    BY <2>1, CompleteFacts, Zenon
<1>2. offset' = offset /\ Posted' = Posted
  BY DEF Complete, sendVars, Posted
<1>3. ImmInv /\ SpotInv
  BY DEF PlaceInv
<1>4. /\ EntrySpot(Announced) = RequestSpot(wire[1]) /\ RequestSpot(wire[1]) \in Sent
      /\ IndexOf(Announced.imm) = RingIndex
  BY <1>1, <1>3, AnnouncedSpot
<1>5. Sent' \subseteq Sent
  <2> SUFFICES ASSUME NEW x \in Sent' PROVE x \in Sent
    OBVIOUS
  <2>1. PICK k \in 1 .. Len(wire') : x = RequestSpot(wire'[k])
    BY DEF Sent, RequestSpot
  <2>2. k + 1 \in 1 .. Len(wire) /\ wire'[k] = wire[k + 1]
    BY <1>1
  <2>3. QED
    BY <2>1, <2>2 DEF Sent
<1>6. Received' \subseteq Received \cup {EntrySpot(Announced)}
  BY ReceivedComplete
<1>7. Live' \subseteq Live
  BY <1>4, <1>5, <1>6 DEF Live
<1>8. SpotInv'
  BY <1>2, <1>3, <1>7, FewerSpots
<1>9. ImmInv'
  <2>1. ASSUME NEW k \in 1 .. Len(wire') PROVE wire'[k].imm = Immediate(wire'[k].at)
    <3>1. k + 1 \in 1 .. Len(wire) /\ wire'[k] = wire[k + 1]
      BY <1>1
    <3>2. QED
      BY <1>3, <3>1 DEF ImmInv
  <2>2. ASSUME NEW q \in Queues, NEW e \in Unread(q)' PROVE IndexOf(e.imm) = RingIndex
    <3>1. e \in Unread(q) \cup {Announced}
      BY UnreadComplete, Zenon
    <3>2. QED
      BY <1>3, <1>4, <3>1 DEF ImmInv
  <2>3. QED
    BY <2>1, <2>2, Zenon DEF ImmInv, Immediate, IndexOf
<1>10. QED
  BY <1>2, <1>8, <1>9 DEF PlaceInv

(* So does the receiver.                                                   *)
LEMMA PlaceReceive ==
  ASSUME PlaceInv, \A q \in Queues : Unread(q)' \subseteq Unread(q),
         wire' = wire, offset' = offset, Posted' = Posted
  PROVE  PlaceInv'
<1>1. Received' \subseteq Received
  BY ReceivedFewer
<1>2. Sent' = Sent
  BY DEF Sent, RequestSpot
<1>3. Live' \subseteq Live
  BY <1>1, <1>2 DEF Live
<1>4. SpotInv'
  BY <1>3, FewerSpots DEF PlaceInv
<1>5. ImmInv'
  BY DEF PlaceInv, ImmInv, Immediate, IndexOf
<1>6. QED
  BY <1>4, <1>5 DEF PlaceInv

(* The place of a request that send posts.                                 *)
LEMMA PlaceOfPost ==
  ASSUME Room, TypeInv, PlaceInv, SendInv, Post
  PROVE  /\ Fits(RequestSpot(Posting), Posted + 1)
         /\ Follows(RequestSpot(Posting), offset', Posted + 2)
         /\ offset' % Alignment = 0
         /\ \A x \in Live : /\ Follows(x, offset', Posted + 2)
                            /\ (Posted + 1) - x.id <= Window => Apart(x, RequestSpot(Posting))
<1>1. PICK R \in Nat, M \in Nat, A \in Nat, W \in Nat :
        /\ R = RingSize /\ M = MaxLength /\ A = Align(MaxLength) /\ W = Window
        /\ M <= A /\ (W + 1) * A + M - 1 <= R
  BY WindowType, ConstantTypes
<1>2. PICK l \in 1 .. M, o \in Nat : l = req.len /\ o = offset
  BY <1>1 DEF TypeInv, Types
<1>3. PICK p \in Nat : p = Place(l) /\ p = IF o + l <= R THEN o ELSE 0
  BY <1>1, <1>2 DEF Place
<1>4. p % Alignment = 0
  <2>1. 0 % Alignment = 0
    BY ConstantTypes
  <2>2. o % Alignment = 0
    BY <1>2 DEF PlaceInv
  <2>3. QED
    BY <1>3, <2>1, <2>2
<1>5. offset' = Align(p + l)
  BY <1>2, <1>3 DEF Post
<1>6. PICK o2 \in Nat : o2 = offset' /\ p + l <= o2 /\ o2 <= p + A /\ o2 % Alignment = 0
  BY <1>1, <1>4, <1>5, AlignUp
<1>7. PICK n \in Int : n = Posted + 1 /\ Posted + 2 = n + 1 /\ msg = n /\ n \in Nat
  BY PostFacts, SendTypes
<1>8. RequestSpot(Posting) = [id |-> n, at |-> p, len |-> l]
  BY <1>2, <1>3, <1>7 DEF RequestSpot, Posting
<1>9. Fits(RequestSpot(Posting), Posted + 1)
  <2>1. p + l <= R
    <3>1. l <= R
      <4>1. PICK r \in Nat : RecvRequests = r + 1
        <5>1. RecvRequests - 1 \in Nat /\ RecvRequests = (RecvRequests - 1) + 1
          BY ConstantTypes
        <5>2. QED
          BY <5>1
      <4>2. (r + 1) * M = r * M + M /\ r * M \in Nat
        OBVIOUS
      <4>3. M <= R
        BY <1>1, <4>1, <4>2, RecvRequestsAssert
      <4>4. QED
        BY <4>3
    <3>2. QED
      BY <1>3, <3>1
  <2>2. [id |-> n, at |-> p, len |-> l] \in Spot
    BY <1>1, <1>7 DEF Spot
  <2>3. n \in 1 .. n
    <3>1. n # 0
      BY <1>7, PostFacts DEF SendInv, SenderBooks
    <3>2. QED
      BY <1>7, <3>1
  <2>4. QED
    BY <1>1, <1>7, <1>8, <2>1, <2>2, <2>3 DEF Fits
<1>10. Follows(RequestSpot(Posting), offset', Posted + 2)
  <2>1. (n + 1) - n = 1 /\ 1 * A = A
    BY <1>7
  <2>2. p + l <= o2 /\ o2 - p <= A
    <3>1. p + l <= o2 /\ o2 <= p + A
      BY <1>6
    <3>2. QED
      BY <3>1
  <2>3. QED
    BY <1>1, <1>6, <1>7, <1>8, <2>1, <2>2 DEF Follows
<1>11. ASSUME NEW x \in Live
       PROVE  /\ Follows(x, offset', Posted + 2)
              /\ (Posted + 1) - x.id <= Window => Apart(x, RequestSpot(Posting))
  <2>1. Fits(x, Posted) /\ Follows(x, offset, Posted + 1)
    BY DEF PlaceInv, SpotInv
  <2>2. PICK i \in Nat, a \in Nat, k \in Nat \ {0} :
          i = x.id /\ a = x.at /\ k = x.len /\ a + k <= R /\ i <= n - 1
    <3>1. x \in Spot /\ x.id \in 1 .. Posted /\ x.at + x.len <= RingSize
      BY <2>1 DEF Fits
    <3>2. x.id \in Nat /\ x.at \in Nat /\ x.len \in Nat \ {0}
      BY <3>1, ConstantTypes DEF Spot
    <3>3. Posted = n - 1
      BY <1>7, SendTypes
    <3>4. x.id <= n - 1
      BY <3>1, <3>3
    <3>5. QED
      BY <1>1, <3>1, <3>2, <3>4, Zenon
  <2> SUFFICES ASSUME n - i <= W
               PROVE  Follows(x, offset', Posted + 2) /\ Apart(x, RequestSpot(Posting))
    <3>2. Posted + 2 - x.id > Window + 1 => Follows(x, offset', Posted + 2)
      BY <1>1, <1>7, <2>2 DEF Follows
    <3>3. Posted + 2 = n + 1 /\ Posted + 1 = n /\ x.id = i /\ W = Window
      BY <1>1, <1>7, <2>2
    <3>4. ASSUME ~ (n - i <= W)
          PROVE  Follows(x, offset', Posted + 2) /\ ~ ((Posted + 1) - x.id <= Window)
      <4>1. (n + 1) - i > W + 1
        BY <1>7, <3>4
      <4>2. Posted + 2 - x.id > Window + 1
        BY <3>3, <4>1, SendTypes
      <4>3. QED
        BY <3>2, <3>3, <3>4, <4>2
    <3>5. QED
      BY <3>4, Zenon
  <2>3. PICK d \in Nat, dA \in Nat : d = n - i /\ dA = d * A
    <3>1. n - i \in Nat /\ (n - i) * A \in Nat
      BY <1>7, <2>2
    <3>2. QED
      BY <3>1, Zenon
  <2>4. \/ a + k <= o /\ o - a <= dA
        \/ o + R - M + 1 - a <= dA
    <3>1. n - i <= W + 1
      BY <2>3
    <3>2. QED
      BY <1>1, <1>2, <1>7, <2>1, <2>2, <2>3, <3>1 DEF Follows
  <2>5. dA + A + M - 1 <= R
    <3>1. PICK g \in Nat : W = d + g
      <4>1. W - d \in Nat /\ W = d + (W - d)
        BY <2>3
      <4>2. QED
        BY <4>1
    <3>2. (d + g + 1) * A = d * A + A + g * A /\ g * A \in Nat
      OBVIOUS
    <3>3. QED
      BY <1>1, <2>3, <3>1, <3>2
  <2>6. /\ a + k <= p \/ p + l <= a
        /\ \/ a + k <= o2 /\ o2 - a <= dA + A
           \/ o2 + R - M + 1 - a <= dA + A
    BY <1>1, <1>3, <1>6, <2>2, <2>4, <2>5, OneMorePlace
  <2>7. ((n + 1) - i) * A = dA + A
    <3>1. (n + 1) - i = d + 1
      BY <1>7, <2>3
    <3>2. (d + 1) * A = dA + A
      BY <2>3
    <3>3. QED
      BY <3>1, <3>2
  <2>8. Follows(x, offset', Posted + 2)
    BY <1>1, <1>6, <1>7, <2>2, <2>6, <2>7 DEF Follows
  <2>9. Apart(x, RequestSpot(Posting))
    BY <1>8, <2>2, <2>6 DEF Apart
  <2>10. QED
    BY <2>8, <2>9
<1>12. QED
  BY <1>6, <1>9, <1>10, <1>11, Zenon

(* A message that is posted lies behind the ones before it.                *)
LEMMA PlacePost ==
  ASSUME Room, TypeInv, PlaceInv, SendInv, Post
  PROVE  PlaceInv'
<1>1. PICK y : y = RequestSpot(Posting)
  OBVIOUS
<1>2. /\ Fits(y, Posted + 1) /\ Follows(y, offset', Posted + 2) /\ offset' % Alignment = 0
      /\ \A x \in Live : /\ Follows(x, offset', Posted + 2)
                         /\ (Posted + 1) - x.id <= Window => Apart(x, y)
  BY <1>1, PlaceOfPost, Zenon
<1>3. /\ Len(wire') = Len(wire) + 1 /\ Posted' = Posted + 1
      /\ \A k \in 1 .. Len(wire) : wire'[k] = wire[k]
      /\ wire'[Len(wire) + 1] = Posting /\ Posting.id = Posted + 1
  BY PostFacts, Zenon
<1>4. recvCq' = recvCq /\ batch' = batch
  BY DEF Post, recvVars
<1>5. \A q \in Queues : Unread(q)' = Unread(q)
  BY <1>4 DEF Unread
<1>6. Received' \subseteq Received
  BY <1>5, ReceivedFewer
<1>7. Sent' \subseteq Sent \cup {y}
  <2> SUFFICES ASSUME NEW x \in Sent' PROVE x \in Sent \cup {y}
    OBVIOUS
  <2>1. PICK k \in 1 .. Len(wire') : x = RequestSpot(wire'[k])
    BY DEF Sent, RequestSpot
  <2>2. CASE k = Len(wire) + 1
    BY <1>1, <1>3, <2>1, <2>2
  <2>3. CASE k # Len(wire) + 1
    <3>1. k \in 1 .. Len(wire)
      BY <1>3, <2>3, SendTypes
    <3>2. QED
      BY <1>3, <2>1, <3>1 DEF Sent
  <2>4. QED
    BY <2>2, <2>3
<1>8. Live' \subseteq Live \cup {y}
  BY <1>6, <1>7 DEF Live
<1>9. /\ \A x \in Live : Fits(x, Posted)
      /\ \A x, z \in Live : x.id < z.id /\ z.id - x.id <= Window => Apart(x, z)
  BY DEF PlaceInv, SpotInv
<1>10. PICK n \in Int : n = Posted /\ Posted' = n + 1 /\ Posted' + 1 = n + 2 /\ y.id = n + 1
  BY <1>1, <1>3, SendTypes DEF RequestSpot
<1>11. \A x \in Live : x.id \in Nat /\ x.id <= n /\ Fits(x, n + 1)
  <2> SUFFICES ASSUME NEW x \in Live PROVE x.id \in Nat /\ x.id <= n /\ Fits(x, n + 1)
    OBVIOUS
  <2>1. x \in Spot /\ x.id \in 1 .. n /\ x.at + x.len <= RingSize
    BY <1>9, <1>10, Zenon DEF Fits
  <2>2. x.id \in 1 .. n + 1
    BY <2>1
  <2>3. QED
    BY <2>1, <2>2 DEF Fits
<1>12. \A x \in Live' : Fits(x, Posted') /\ Follows(x, offset', Posted' + 1)
  <2>1. Posted + 1 = n + 1 /\ Posted + 2 = n + 2
    BY <1>10
  <2>2. \A x \in Live \cup {y} : Fits(x, n + 1) /\ Follows(x, offset', n + 2)
    BY <1>2, <1>11, <2>1
  <2>3. QED
    BY <1>8, <1>10, <2>2, Zenon
<1>13. ASSUME NEW x \in Live', NEW z \in Live', x.id < z.id, z.id - x.id <= Window PROVE Apart(x, z)
  <2>1. x \in Live \cup {y} /\ z \in Live \cup {y}
    BY <1>8
  <2>2. x # y
    <3> SUFFICES ASSUME x = y PROVE FALSE
      OBVIOUS
    <3>1. n + 1 < z.id
      BY <1>10, <1>13
    <3>2. z \in Live \/ z.id = n + 1
      BY <1>10, <2>1
    <3>3. QED
      BY <1>11, <3>1, <3>2
  <2>3. x \in Live
    BY <2>1, <2>2
  <2>4. CASE z \in Live
    BY <1>9, <1>13, <2>3, <2>4
  <2>5. CASE z = y
    <3>1. (Posted + 1) - x.id <= Window
      BY <1>10, <1>13, <2>5
    <3>2. QED
      BY <1>2, <2>3, <2>5, <3>1
  <2>6. QED
    BY <2>1, <2>4, <2>5
<1>14. SpotInv'
  <2>1. \A x, z \in Live' : x.id < z.id /\ z.id - x.id <= Window => Apart(x, z)
    BY <1>13
  <2>2. QED
    BY <1>12, <2>1, Zenon DEF SpotInv
<1>15. ImmInv'
  <2>1. ASSUME NEW k \in 1 .. Len(wire') PROVE wire'[k].imm = Immediate(wire'[k].at)
    <3>1. CASE k = Len(wire) + 1
      BY <1>3, <3>1 DEF Posting
    <3>2. CASE k # Len(wire) + 1
      <4>1. k \in 1 .. Len(wire)
        BY <1>3, <3>2, SendTypes
      <4>2. QED
        BY <1>3, <4>1 DEF PlaceInv, ImmInv
    <3>3. QED
      BY <3>1, <3>2
  <2>2. \A q \in Queues : \A e \in Unread(q)' : IndexOf(e.imm) = RingIndex
    BY <1>5 DEF PlaceInv, ImmInv
  <2>3. QED
    BY <2>1, <2>2, Zenon DEF ImmInv, Immediate, IndexOf
<1>16. QED
  BY <1>2, <1>14, <1>15 DEF PlaceInv

(* There are no messages at the start.                                     *)
LEMMA PlaceInit == Init => PlaceInv
<1> SUFFICES ASSUME Init PROVE PlaceInv
  OBVIOUS
<1>1. offset = 0 /\ Len(wire) = 0
  BY DEF Init
<1>2. \A q \in Queues : Unread(q) = {}
  BY DEF Init, Unread
<1>3. Live = {}
  BY <1>1, <1>2 DEF Live, Sent, Received
<1>4. 0 % Alignment = 0
  BY ConstantTypes
<1>5. SpotInv
  BY <1>3 DEF SpotInv
<1>6. ImmInv
  BY <1>1, <1>2 DEF ImmInv
<1>7. QED
  BY <1>1, <1>4, <1>5, <1>6 DEF PlaceInv

(* Every step keeps the messages in their places.                          *)
LEMMA PlaceStep ==
  ASSUME Room, TypeInv, TypeInv', SendInv, PlaceInv, [Next]_vars
  PROVE  PlaceInv'
<1>1. ASSUME UNCHANGED <<recvCq, batch, wire, offset>>, Posted' = Posted PROVE PlaceInv'
  <2>1. \A q \in Queues : Unread(q)' \subseteq Unread(q)
    BY <1>1 DEF Unread
  <2>2. QED
    BY <1>1, <2>1, PlaceReceive
<1>2. ASSUME Synchronize \/ WaitSync \/ WritePayload \/ Finished \/ UNCHANGED vars
      PROVE  UNCHANGED <<recvCq, batch, wire, offset>> /\ Posted' = Posted
  BY <1>2 DEF Synchronize, WaitSync, WritePayload, Finished, vars, sendVars, recvVars, Posted
<1>3. ASSUME NEW len \in Lengths, NEW sync \in BOOLEAN, Fill(len, sync)
      PROVE  UNCHANGED <<recvCq, batch, wire, offset>> /\ Posted' = Posted
  BY <1>3, SendTypes DEF Fill, recvVars, Posted
<1>4. ASSUME NEW p \in Queues, Recv(p) \/ Process(p) PROVE PlaceInv'
  <2>1. \A q \in Queues : Unread(q)' \subseteq Unread(q)
    BY <1>4, UnreadRecv, UnreadProcess
  <2>2. wire' = wire /\ offset' = offset /\ Posted' = Posted
    BY <1>4 DEF Recv, Process, sendVars, Posted
  <2>3. QED
    BY <2>1, <2>2, PlaceReceive
<1>5. QED
  BY <1>1, <1>2, <1>3, <1>4, PlacePost, PlaceComplete, Zenon
     DEF Next, Sending, Device, Receiving

-----------------------------------------------------------------------------
(* Nothing is in the ring at the start.                                    *)
LEMMA RingInit == Init => RingInv
<1> SUFFICES ASSUME Init PROVE RingInv
  OBVIOUS
<1>1. placed = FALSE
  BY DEF Init
<1>2. \A q \in Queues : Unread(q) = {}
  BY DEF Init, Unread
<1>3. Received = {}
  BY <1>2 DEF Received
<1>4. QED
  BY <1>1, <1>3 DEF RingInv

(* What the device writes is the message, and nothing unread is where it   *)
(* writes it.                                                              *)
LEMMA RingWrite ==
  ASSUME Room, TypeInv, SendInv, BufInv, LateInv, PlaceInv, RingInv, WritePayload
  PROVE  RingInv'
<1>1. wire # << >> /\ wire' = wire /\ (EarlyWrite \/ free[wire[1].dest] > 0)
  BY WireHead DEF WritePayload
<1>2. PICK y : y = RequestSpot(wire[1])
  OBVIOUS
<1>3. y.id = wire[1].id /\ y.at = wire[1].at /\ y.len = wire[1].len
  BY <1>2 DEF RequestSpot
<1>4. y \in Sent /\ y \in Live /\ Fits(y, Posted)
  BY <1>1, <1>2, AnnouncedSpot DEF PlaceInv, Live
<1>5. PICK i \in Nat, a \in Nat, l \in Nat \ {0} : i = y.id /\ a = y.at /\ l = y.len
  <2>1. y \in Spot
    BY <1>4 DEF Fits
  <2>2. QED
    BY <2>1, ConstantTypes DEF Spot
<1>6. a + l <= RingSize
  BY <1>4, <1>5 DEF Fits
<1>7. ring' = [b \in 0 .. RingSize - 1 |-> IF b \in a .. a + l - 1 THEN i ELSE ring[b]]
  <2>1. Head(wire) = wire[1] /\ (wire[1].inline \/ bufs[BufferOf(wire[1].id)] = wire[1].id)
    BY <1>1, WireHead
  <2>2. (IF wire[1].inline THEN wire[1].id ELSE bufs[BufferOf(wire[1].id)]) = i
    BY <1>3, <1>5, <2>1
  <2>3. DOMAIN ring = 0 .. RingSize - 1
    BY DEF TypeInv, Types
  <2>4. ring' = [b \in DOMAIN ring |->
          IF b \in wire[1].at .. wire[1].at + wire[1].len - 1
            THEN (IF wire[1].inline THEN wire[1].id ELSE bufs[BufferOf(wire[1].id)])
            ELSE ring[b]]
    BY <2>1 DEF WritePayload
  <2>5. QED
    BY <1>3, <1>5, <2>2, <2>3, <2>4
<1>8. \A b \in a .. a + l - 1 : ring'[b] = i
  BY <1>6, <1>7, ConstantTypes
<1>9. ASSUME NEW x \in Received, NEW b \in x.at .. x.at + x.len - 1 PROVE ring'[b] = x.id
  <2>1. wire[1].id - x.id <= Window /\ x.id < wire[1].id
    BY <1>1, UnreadWindow
  <2>2. x \in Live
    BY DEF Live
  <2>3. Fits(x, Posted) /\ Apart(x, y)
    BY <1>3, <1>4, <2>1, <2>2 DEF PlaceInv, SpotInv
  <2>4. PICK c \in Nat, k \in Nat \ {0} : c = x.at /\ k = x.len
    <3>1. x \in Spot
      BY <2>3 DEF Fits
    <3>2. QED
      BY <3>1, ConstantTypes DEF Spot
  <2>5. c + k <= RingSize /\ (c + k <= a \/ a + l <= c)
    BY <1>5, <2>3, <2>4 DEF Fits, Apart
  <2>6. b \in c .. c + k - 1
    BY <2>4
  <2>7. b \in 0 .. RingSize - 1 /\ b \notin a .. a + l - 1
    BY <2>5, <2>6, ConstantTypes
  <2>8. ring[b] = x.id
    BY DEF RingInv, Holds
  <2>9. QED
    BY <1>7, <2>7, <2>8
<1>10. Received' = Received
  <2>1. recvCq' = recvCq /\ batch' = batch
    BY DEF WritePayload, recvVars
  <2>2. \A q \in Queues : Unread(q)' = Unread(q)
    BY <2>1 DEF Unread
  <2>3. QED
    BY <2>2 DEF Received, EntrySpot
<1>11. \A x \in Received' : Holds(x)'
  BY <1>9, <1>10 DEF Holds
<1>12. \A b \in y.at .. y.at + y.len - 1 : ring'[b] = y.id
  BY <1>5, <1>8
<1>13. wire' # << >> /\ Holds(RequestSpot(wire[1]))'
  BY <1>1, <1>2, <1>12 DEF Holds, RequestSpot
<1>14. QED
  BY <1>11, <1>13 DEF RingInv, Holds

(* A message that arrives is in the ring.                                  *)
LEMMA RingComplete ==
  ASSUME TypeInv, TypeInv', PlaceInv, RingInv, Complete
  PROVE  RingInv'
<1>1. placed /\ placed' = FALSE /\ ring' = ring
  BY DEF Complete
<1>2. wire # << >> /\ Holds(RequestSpot(wire[1]))
  BY <1>1 DEF RingInv
<1>3. EntrySpot(Announced) = RequestSpot(wire[1])
  BY <1>2, AnnouncedSpot DEF PlaceInv
<1>4. \A x \in Received \cup {EntrySpot(Announced)} : Holds(x)
  BY <1>2, <1>3 DEF RingInv
<1>5. \A x \in Received' : Holds(x)
  BY <1>4, ReceivedComplete
<1>6. QED
  BY <1>1, <1>5 DEF RingInv, Holds

(* The steps that neither write to the ring nor announce a message.        *)
LEMMA RingOther ==
  ASSUME TypeInv, RingInv, \A q \in Queues : Unread(q)' \subseteq Unread(q),
         ring' = ring, placed' = placed, wire # << >> => wire' # << >> /\ wire'[1] = wire[1]
  PROVE  RingInv'
<1>1. Received' \subseteq Received
  BY ReceivedFewer
<1>2. \A x \in Received' : Holds(x)
  BY <1>1 DEF RingInv
<1>3. placed' => wire' # << >> /\ Holds(RequestSpot(wire'[1]))
  BY DEF RingInv
<1>4. QED
  BY <1>2, <1>3 DEF RingInv, Holds, RequestSpot

(* Every step keeps the unread messages intact.                            *)
LEMMA RingStep ==
  ASSUME Room, TypeInv, TypeInv', SendInv, BufInv, LateInv, PlaceInv, RingInv, [Next]_vars
  PROVE  RingInv'
<1>1. ASSUME UNCHANGED <<recvCq, batch, wire, ring, placed>> PROVE RingInv'
  <2>1. \A q \in Queues : Unread(q)' \subseteq Unread(q)
    BY <1>1 DEF Unread
  <2>2. QED
    BY <1>1, <2>1, RingOther
<1>2. ASSUME \/ Synchronize \/ WaitSync \/ Finished \/ UNCHANGED vars
             \/ \E len \in Lengths, sync \in BOOLEAN : Fill(len, sync)
      PROVE  UNCHANGED <<recvCq, batch, wire, ring, placed>>
  BY <1>2 DEF Synchronize, WaitSync, Fill, Finished, vars, sendVars, recvVars
<1>3. ASSUME Post PROVE RingInv'
  <2>1. recvCq' = recvCq /\ batch' = batch /\ ring' = ring /\ placed' = placed
    BY <1>3 DEF Post, recvVars
  <2>2. \A q \in Queues : Unread(q)' \subseteq Unread(q)
    BY <2>1 DEF Unread
  <2>3. wire' # << >> /\ \A k \in 1 .. Len(wire) : wire'[k] = wire[k]
    BY <1>3, PostFacts, Zenon
  <2>4. wire # << >> => 1 \in 1 .. Len(wire)
    BY SendTypes
  <2>5. QED
    BY <2>1, <2>2, <2>3, <2>4, RingOther
<1>4. ASSUME NEW p \in Queues, Recv(p) \/ Process(p) PROVE RingInv'
  <2>1. \A q \in Queues : Unread(q)' \subseteq Unread(q)
    BY <1>4, UnreadRecv, UnreadProcess
  <2>2. wire' = wire /\ ring' = ring /\ placed' = placed
    BY <1>4 DEF Recv, Process
  <2>3. QED
    BY <2>1, <2>2, RingOther
<1>5. QED
  BY <1>1, <1>2, <1>3, <1>4, RingWrite, RingComplete, Zenon DEF Next, Sending, Device, Receiving

-----------------------------------------------------------------------------
(* If the ring has room for as many of the longest messages as there are   *)
(* receive requests in all queues, for the one that the device may have    *)
(* written early, and for the gap at the end, then no message overwrites   *)
(* another before its callback has returned; the sender is not told.       *)
THEOREM UnreadNeverOverwritten ==
  ASSUME Room
  PROVE  Spec => []UnreadIntact
<1> DEFINE Inv == TypeInv /\ SendInv /\ BufInv /\ LateInv /\ PlaceInv /\ RingInv
<1>1. Init => Inv
  BY TypeInit, SendInit, BufInit, LateInit, PlaceInit, RingInit
<1>2. Inv /\ [Next]_vars => Inv'
  <2> SUFFICES ASSUME Inv, [Next]_vars PROVE Inv'
    OBVIOUS
  <2>1. TypeInv' /\ SendInv' /\ BufInv' /\ LateInv'
    BY TypeStep, SendStep, BufStep, LateStep
  <2>2. PlaceInv' /\ RingInv'
    BY <2>1, PlaceStep, RingStep
  <2>3. QED
    BY <2>1, <2>2
<1>3. Inv => UnreadIntact
  <2> SUFFICES ASSUME Inv, NEW q \in Queues, NEW m \in Unread(q)
               PROVE  /\ IndexOf(m.imm) = RingIndex
                      /\ \A b \in OffsetOf(m.imm) .. OffsetOf(m.imm) + m.len - 1 :
                           b \in DOMAIN ring /\ ring[b] = m.id
    BY DEF UnreadIntact
  <2>1. IndexOf(m.imm) = RingIndex
    BY DEF PlaceInv, ImmInv
  <2>2. PICK x : x = EntrySpot(m) /\ x \in Received /\ x \in Live
    BY InReceived DEF Live
  <2>3. x.id = m.id /\ x.at = OffsetOf(m.imm) /\ x.len = m.len
    BY <2>2 DEF EntrySpot
  <2>4. x \in Spot /\ x.at + x.len <= RingSize
    BY <2>2 DEF PlaceInv, SpotInv, Fits
  <2>5. PICK a \in Nat, l \in Nat : a = x.at /\ l = x.len /\ a + l <= RingSize
    BY <2>4, ConstantTypes DEF Spot
  <2>6. DOMAIN ring = 0 .. RingSize - 1
    BY DEF TypeInv, Types
  <2>7. \A b \in a .. a + l - 1 : b \in 0 .. RingSize - 1
    BY <2>5, ConstantTypes
  <2>8. \A b \in x.at .. x.at + x.len - 1 : ring[b] = x.id
    BY <2>2 DEF RingInv, Holds
  <2>9. QED
    BY <2>1, <2>3, <2>5, <2>6, <2>7, <2>8
<1>4. QED
  BY <1>1, <1>2, <1>3, PTL DEF Spec
=============================================================================
