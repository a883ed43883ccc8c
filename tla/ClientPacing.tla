------------------------------ MODULE ClientPacing ------------------------------
(***************************************************************************)
(* When a client uses its slots: the clock, the epochs that the ordering   *)
(* service announces one EPOCH_DURATION ahead, the loop of client.cpp that *)
(* spreads requests and no-ops over the epoch, the storage servers as far  *)
(* as they acknowledge, and the application of client/main.cpp, which      *)
(* keeps a burst of requests under way and reuses a ring of buffers.       *)
(*                                                                         *)
(* There is one client, so that the GSN of a slot is its rank among the    *)
(* client's slots.  Time is counted in ticks; delays are bounded, and the  *)
(* bounds are parameters.  Heartbeats are left out: they carry nothing     *)
(* and only take a turn of the ordering service's loop.                    *)
(***************************************************************************)
EXTENDS Integers, Sequences, FiniteSets

CONSTANTS
  Servers,         \* replicas of the client's shard, all of them connected
  Failures,        \* failures_
  MaxOutstanding,  \* MAX_OUTSTANDING_REQUESTS
  Burst,           \* requests the application keeps under way
  Duration,        \* EPOCH_DURATION, in ticks
  MinSlots,        \* MIN_SLOTS
  Rates,           \* slots per epoch that the rate estimation may ask for
  OrderDelay,      \* ticks within which the ordering service's messages are handled
  Delay,           \* the same for messages between the client and a server
  MaxPause,        \* ticks between two turns of a loop, the client's or the order's
  Skew,            \* how far the client's clock is ahead of the ordering service's
  MaxTime, MaxRequests  \* bounds

ASSUME PacingAssumption ==
  /\ IsFiniteSet(Servers) /\ Cardinality(Servers) > Failures
  /\ Burst \in 1..MaxOutstanding
  /\ {Failures, MaxOutstanding, OrderDelay, Delay, MaxTime, MaxRequests, Skew} \subseteq Nat
  /\ {Duration, MinSlots, MaxPause} \subseteq Nat \ {0}
  /\ \A r \in Rates : r \in Nat \ {0} /\ r % MinSlots = 0

VARIABLES
  now,          \* the clock of the ordering service
  \* ordering service
  epoch,        \* time of the epoch timer
  numSlots,     \* num_slots of the client's state
  \* client
  epochs,       \* epochs announced and not begun
  current,      \* the current epoch
  assigned, consumed,  \* slots assigned and used
  estimate,     \* estimate_: is the rate estimated, or fixed?
  rate,         \* req.num_slots: the rate asked for last
  outstanding,  \* requests without enough acknowledgements
  latest,       \* latest_gsn, 0 when there is none
  turned,       \* when the loop last began a turn
  \* application
  generated,    \* requests generated so far
  requests,     \* requests_: generated and not sent
  responses,    \* requests whose response has been stored
  \* storage servers, per server
  known, used,  \* slots of the client, and those that it has used
  \* messages that have not been handled, each with the time it is due
  rateMsgs, epochMsgs, slotsMsgs, insertMsgs, ackMsgs

orderVars == <<epoch, numSlots>>
paceVars == <<epochs, current, assigned, consumed, estimate, rate, turned>>
ackVars == <<outstanding, latest, responses>>
appVars == <<generated, requests>>
serverVars == <<known, used>>
msgVars == <<rateMsgs, epochMsgs, slotsMsgs, insertMsgs, ackMsgs>>
vars == <<now, orderVars, paceVars, ackVars, appVars, serverVars, msgVars>>

NoGsn == 0
FirstEpoch == [begin |-> 0, first |-> 0, last |-> 0]

(* A client with a fixed rate asks for its slots when it connects, one     *)
(* that estimates its rate for MIN_SLOTS.                                  *)
Intro == estimate \in BOOLEAN /\ numSlots \in IF estimate THEN {MinSlots} ELSE Rates

(* The order's timer starts before all times.                              *)
Init ==
  /\ now = 0 /\ epoch = -1 /\ Intro
  /\ epochs = << >> /\ current = FirstEpoch /\ assigned = 0 /\ consumed = 0
  /\ rate = MinSlots /\ turned = 0
  /\ outstanding = << >> /\ latest = NoGsn /\ responses = {}
  /\ generated = 0 /\ requests = << >>
  /\ known = [s \in Servers |-> 0] /\ used = [s \in Servers |-> 0]
  /\ rateMsgs = << >> /\ epochMsgs = << >>
  /\ slotsMsgs = [s \in Servers |-> << >>]
  /\ insertMsgs = [s \in Servers |-> << >>] /\ ackMsgs = [s \in Servers |-> << >>]

-----------------------------------------------------------------------------
(* Ordering service *)

(* The epoch is announced to the client and to its servers a whole         *)
(* duration before it begins.                                              *)
EpochBegin == now + Duration

Epoch ==
  /\ now > epoch
  /\ epochMsgs' =
       Append(epochMsgs, [begin |-> EpochBegin, num |-> numSlots, due |-> now + OrderDelay])
  /\ slotsMsgs' =
       [s \in Servers |-> Append(slotsMsgs[s], [num |-> numSlots, due |-> now + OrderDelay])]
  /\ epoch' = now + Duration
  /\ UNCHANGED <<now, numSlots, paceVars, ackVars, appVars, serverVars, rateMsgs,
                 insertMsgs, ackMsgs>>

Align(n) == ((n + MinSlots - 1) \div MinSlots) * MinSlots

ClientRate ==
  /\ rateMsgs # << >>
  /\ LET n == Head(rateMsgs).num IN numSlots' = Align(IF n > 1 THEN n ELSE 1)
  /\ rateMsgs' = Tail(rateMsgs)
  /\ UNCHANGED <<now, epoch, paceVars, ackVars, appVars, serverVars, epochMsgs,
                 slotsMsgs, insertMsgs, ackMsgs>>

-----------------------------------------------------------------------------
(* Client *)

clock == now + Skew

ClientNewEpoch ==
  /\ epochMsgs # << >>
  /\ LET m == Head(epochMsgs) IN
       /\ epochs' = Append(epochs,
            [begin |-> m.begin, first |-> assigned, last |-> assigned + m.num])
       /\ assigned' = assigned + m.num
  /\ epochMsgs' = Tail(epochMsgs)
  /\ UNCHANGED <<now, orderVars, current, consumed, estimate, rate, turned, ackVars, appVars,
                 serverVars, rateMsgs, slotsMsgs, insertMsgs, ackMsgs>>

(* At most one epoch is begun per turn.                                    *)
Begins == epochs # << >> /\ Head(epochs).begin <= clock

(* What the estimation makes of the use of an epoch is floating-point      *)
(* arithmetic: here it may come to any of the rates.  Only a change is     *)
(* sent.                                                                   *)
EstimateRate ==
  \E r \in IF Begins /\ estimate /\ current # FirstEpoch THEN Rates ELSE {rate} :
    /\ rate' = r
    /\ rateMsgs' = IF r = rate THEN rateMsgs ELSE Append(rateMsgs, [num |-> r])

SwitchEpoch ==
  IF Begins THEN current' = Head(epochs) /\ epochs' = Tail(epochs)
            ELSE UNCHANGED <<current, epochs>>

(* Where the client should be at this time of epoch e.                     *)
Ideal(e) == e.first + ((e.last - e.first) * (clock - e.begin)) \div Duration

MutInEpoch(e) == TRUE

InEpoch(e) == clock - e.begin <= Duration

(* All servers are connected, so that there are more than Failures of      *)
(* them.  A send that has to wait for completions of earlier ones (Channel)*)
(* is a pause of the loop.                                                 *)
MaySend(e) ==
  /\ consumed < Ideal(e)
  /\ Len(outstanding) <= MaxOutstanding
  /\ InEpoch(e)

(* A request or no-op uses all the slots by which the client is behind,    *)
(* those of earlier epochs included, and goes to every server.             *)
Send(e, r) ==
  LET advanced == Ideal(e) - consumed IN
  /\ consumed' = consumed + advanced
  /\ outstanding' = Append(outstanding, [req |-> r, gsn |-> NoGsn, acks |-> 0])
  /\ insertMsgs' = [s \in Servers |->
       Append(insertMsgs[s], [req |-> r, num |-> advanced, due |-> now + Delay])]

NoOp == 0

SendRequest(e) ==
  /\ MaySend(e) /\ requests # << >>
  /\ Send(e, Head(requests))
  /\ requests' = Tail(requests)

MutNopAllowed == FALSE

NopAllowed == outstanding = << >>

SendNop(e) ==
  /\ MaySend(e) /\ requests = << >> /\ NopAllowed
  /\ Send(e, NoOp)
  /\ UNCHANGED requests

SendNothing(e) ==
  /\ ~ (MaySend(e) /\ (requests # << >> \/ NopAllowed))
  /\ UNCHANGED <<consumed, outstanding, insertMsgs, requests>>

Turn ==
  LET e == IF Begins THEN Head(epochs) ELSE current IN
  /\ EstimateRate
  /\ SwitchEpoch
  /\ SendRequest(e) \/ SendNop(e) \/ SendNothing(e)
  /\ turned' = now
  /\ UNCHANGED <<now, orderVars, assigned, estimate, latest, responses, generated, serverVars,
                 epochMsgs, slotsMsgs, ackMsgs>>

MutEnough(acks) == acks >= Failures

Enough(acks) == acks > Failures

(* An acknowledgement counts for the first request that has its GSN or     *)
(* none yet; with enough of them the response is stored.                   *)
InsertAck(s) ==
  /\ ackMsgs[s] # << >>
  /\ LET gsn == Head(ackMsgs[s]).gsn
         matching == {i \in DOMAIN outstanding : outstanding[i].gsn \in {NoGsn, gsn}}
         it == CHOOSE i \in matching : \A j \in matching : i <= j
         o == [outstanding[it] EXCEPT !.gsn = gsn, !.acks = @ + 1]
     IN  IF gsn <= latest \/ matching = {}
           THEN UNCHANGED ackVars
         ELSE IF ~ Enough(o.acks)
           THEN outstanding' = [outstanding EXCEPT ![it] = o] /\ UNCHANGED <<latest, responses>>
           ELSE /\ outstanding' = [i \in 1..(Len(outstanding) - 1) |->
                                     outstanding[IF i < it THEN i ELSE i + 1]]
                /\ latest' = gsn
                /\ responses' = responses \union ({o.req} \ {NoOp})
  /\ ackMsgs' = [ackMsgs EXCEPT ![s] = Tail(@)]
  /\ UNCHANGED <<now, orderVars, paceVars, appVars, serverVars, rateMsgs, epochMsgs,
                 slotsMsgs, insertMsgs>>

-----------------------------------------------------------------------------
(* Application: a burst of requests, then one for each response, in order. *)

Generate ==
  /\ generated < MaxRequests
  /\ generated < Burst \/ generated - Burst + 1 \in responses
  /\ generated' = generated + 1
  /\ requests' = Append(requests, generated + 1)
  /\ UNCHANGED <<now, orderVars, paceVars, ackVars, serverVars, msgVars>>

(* The buffer of the n-th request.                                         *)
Buffer(n) == (n - 1) % (MaxOutstanding + 1)

Overwritten(n) == \E m \in (n + 1)..generated : Buffer(m) = Buffer(n)

-----------------------------------------------------------------------------
(* Storage servers *)

StorageSlots(s) ==
  /\ slotsMsgs[s] # << >>
  /\ known' = [known EXCEPT ![s] = @ + Head(slotsMsgs[s]).num]
  /\ slotsMsgs' = [slotsMsgs EXCEPT ![s] = Tail(@)]
  /\ UNCHANGED <<now, orderVars, paceVars, ackVars, appVars, used, rateMsgs, epochMsgs,
                 insertMsgs, ackMsgs>>

StorageInsert(s) ==
  /\ insertMsgs[s] # << >>
  /\ used' = [used EXCEPT ![s] = @ + Head(insertMsgs[s]).num]
  /\ ackMsgs' = [ackMsgs EXCEPT ![s] = Append(@, [gsn |-> used'[s], due |-> now + Delay])]
  /\ insertMsgs' = [insertMsgs EXCEPT ![s] = Tail(@)]
  /\ UNCHANGED <<now, orderVars, paceVars, ackVars, appVars, known, rateMsgs, epochMsgs,
                 slotsMsgs>>

-----------------------------------------------------------------------------
(* Time passes when nothing is due that must be handled first.             *)

Due(msgs) == msgs # << >> /\ Head(msgs).due <= now

Tick ==
  /\ now < MaxTime
  /\ ~ Due(epochMsgs)
  /\ \A s \in Servers : ~ Due(slotsMsgs[s]) /\ ~ Due(insertMsgs[s]) /\ ~ Due(ackMsgs[s])
  /\ now - turned < MaxPause /\ now - epoch <= MaxPause
  /\ now' = now + 1
  /\ UNCHANGED <<orderVars, paceVars, ackVars, appVars, serverVars, msgVars>>

Order == Epoch \/ ClientRate

Client == ClientNewEpoch \/ Turn \/ \E s \in Servers : InsertAck(s)

Storage == \E s \in Servers : StorageSlots(s) \/ StorageInsert(s)

Next == Order \/ Client \/ Generate \/ Storage \/ Tick

Spec == Init /\ [][Next]_vars

-----------------------------------------------------------------------------
(* Every server has handled the slots for all that the client has used, so *)
(* that position::insert finds them (client.cpp:280, order.cpp:390).  This *)
(* is what Replication takes as its parameter SlotsOnTime.                 *)
SlotsInPlace == \A s \in Servers : consumed <= known[s]

(* Storage servers cannot close what a client leaves open: at the end of   *)
(* an epoch the client has used every slot of the epochs before it, by     *)
(* requests or by no-ops, whatever its application and its servers do      *)
(* (client.cpp:286).                                                       *)
TimelyUse == clock - current.begin >= Duration => consumed >= current.first

(* Server s has got request n: it waits neither in the client's queue nor  *)
(* on its way to the server.                                               *)
Got(s, n) ==
  /\ \A i \in DOMAIN requests : requests[i] # n
  /\ \A i \in DOMAIN insertMsgs[s] : insertMsgs[s][i].req # n

(* The application fills a buffer again when it has counted a response,    *)
(* which waits for Failures + 1 servers and not for the slowest: by then   *)
(* that many servers have got what was in the buffer, so that they hold    *)
(* the request as it was written, however late acknowledgements of others  *)
(* are and whichever request they are counted for (client/main.cpp:78,     *)
(* client.cpp:338).  A server beyond these may find the next request in    *)
(* the buffer if the payload is too long to be sent inline.                *)
RequestIntact ==
  \A n \in 1 .. generated :
    Overwritten(n) => Cardinality({s \in Servers : Got(s, n)}) > Failures

=============================================================================
