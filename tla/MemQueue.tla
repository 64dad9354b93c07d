------------------------------ MODULE MemQueue ------------------------------
(***************************************************************************)
(* The in-memory queue of the publisher pipeline (publisher/queue/memqueue)*)
(* with its producers and the output workers that consume it.              *)
(*                                                                         *)
(* Producers (internal_api.go): an ackProducer or a forgetfulProducer runs *)
(* Publish / TryPublish as the two nested selects of openState.publish and *)
(* openState.tryPublish: hand a pushRequest to the buffered pushChan, then *)
(* wait for the entry id on the request's own resp channel or for the      *)
(* queue's closing signal.  Close closes the producer's done channel, and  *)
(* may run concurrently with a Publish of the same producer.               *)
(*                                                                         *)
(* Broker (spec 4.1, its code is not in this repository): one loop that    *)
(* inserts push requests while the ring has room, answers get requests    *)
(* (holding one open under a flush timer), and on every batch Done moves   *)
(* the acked cursor over the contiguous acknowledged prefix, calling every *)
(* ack producer's callback once with the growth of its highest acked       *)
(* producerID.                                                             *)
(*                                                                         *)
(* Consumers: the output-worker loop of queuetest multiConsumer:           *)
(* Get(batchSize), then batch.Done(), until Get fails on a closed queue.   *)
(***************************************************************************)
EXTENDS Naturals, Sequences, FiniteSets, FiniteSetsExt

CONSTANTS
  Producers,      \* producer handles obtained from Queue.Producer
  AckProducers,   \* those created with an ACK callback (ackProducer)
  Consumers,      \* output workers calling Get / batch.Done
  Events,         \* ring capacity: settings.Events
  ChanSize,       \* buffer of pushChan
  BatchSizes,     \* entryCount values a consumer may ask Get for
  FlushTimeout,   \* TRUE iff flush.timeout > 0: a short get waits for a timer
  MaxCalls,       \* bound: Publish / TryPublish calls per producer
  NoProducer,     \* the nil producer of a forgetfulProducer's request
  NoConsumer      \* no get request is held open by the broker

ASSUME /\ AckProducers \subseteq Producers
       /\ Events \in Nat \ {0}
       /\ ChanSize \in Nat \ {0}
       /\ BatchSizes \subseteq Nat \ {0}
       /\ FlushTimeout \in BOOLEAN
       /\ MaxCalls \in Nat

VARIABLES
  \* producer side (ackProducer / forgetfulProducer / openState)
  pc,             \* "idle", "send" (outer select), "resp" (inner select)
  mode,           \* the running call: "publish" or "try"
  req,            \* the pushRequest of the running call
  producedCount,  \* ackProducer.producedCount
  calls,          \* calls started so far (bounded by MaxCalls)
  eventsNil,      \* openState.events has been set to nil
  doneClosed,     \* openState.done has been closed by Close
  resp,           \* the value in the running request's resp channel
  okCount,        \* history: calls that returned (id, true)
  \* broker side
  pushChan,       \* buffered producer -> broker channel
  entries,        \* every entry ever inserted, index = entry id (1-based)
  consumed,       \* entries 1..consumed have been handed to a batch
  acked,          \* entries 1..acked have been acknowledged
  doneIds,        \* entries whose batch has reported Done
  pendingGet,     \* consumer whose get request waits on the flush timer
  closing,        \* closingChan is closed
  done,           \* Queue.Done channel is closed
  lastACK,        \* produceState.lastACK per ack producer
  ackCount,       \* sum of the counts passed to each ACK callback
  \* consumer side
  cpc,            \* "idle", "get" (inside Get), "hold" (holds a batch), "exit"
  want,           \* entryCount of the consumer's get request
  batch,          \* [start, count] of the batch the consumer holds
  ackChan         \* batch Done messages on their way to the broker

producerVars == <<pc, mode, req, producedCount, calls, eventsNil, doneClosed,
                  resp, okCount>>
brokerVars   == <<pushChan, entries, consumed, acked, doneIds, pendingGet,
                  closing, done, lastACK, ackCount>>
consumerVars == <<cpc, want, batch, ackChan>>
vars == <<producerVars, brokerVars, consumerVars>>

NoResp == [call |-> 0, id |-> 0]

\* pushRequest: the event's producer (nil for a forgetfulProducer), its
\* producerID, and the resp channel, identified by its owner and the call
\* that made it.
Request == [producer : AckProducers \cup {NoProducer}, producerID : Nat,
            from : Producers, call : Nat]

\* A queue entry keeps the request's producer and producerID.
Entry == [producer : AckProducers \cup {NoProducer}, producerID : Nat]

Available == Len(entries) - consumed

\* The request slot of a producer that is not inside a call.
IdleRequest(p) == [producer |-> NoProducer, producerID |-> 0, from |-> p, call |-> 0]

-----------------------------------------------------------------------------
(* Producers *)

\* Mutant: the event is tagged with producedCount, not producedCount + 1.
MakePushRequestNoIncrement(p) ==
  IF p \in AckProducers
  THEN [producer |-> p, producerID |-> producedCount[p],
        from |-> p, call |-> calls[p] + 1]
  ELSE [producer |-> NoProducer, producerID |-> 0,
        from |-> p, call |-> calls[p] + 1]

\* makePushRequest: an ackProducer tags the event with producedCount + 1,
\* so that lastACK = 0 means nothing acknowledged; a forgetfulProducer
\* sends neither producer nor producerID.
MakePushRequest(p) ==
  IF p \in AckProducers
  THEN [producer |-> p, producerID |-> producedCount[p] + 1,
        from |-> p, call |-> calls[p] + 1]
  ELSE [producer |-> NoProducer, producerID |-> 0,
        from |-> p, call |-> calls[p] + 1]

\* Publish / TryPublish: build the request, enter the outer select.
\* (Encoding the entry, when an encoder is set, changes only the payload.)
StartCall(p, m) ==
  /\ pc[p] = "idle"
  /\ calls[p] < MaxCalls
  /\ pc' = [pc EXCEPT ![p] = "send"]
  /\ mode' = [mode EXCEPT ![p] = m]
  /\ req' = [req EXCEPT ![p] = MakePushRequest(p)]
  /\ calls' = [calls EXCEPT ![p] = @ + 1]
  /\ resp' = [resp EXCEPT ![p] = NoResp]
  /\ UNCHANGED <<producedCount, eventsNil, doneClosed, okCount,
                 brokerVars, consumerVars>>

\* The call returns (id, ok); ackProducer.Publish / TryPublish then count
\* a published event in producedCount.
\* Fault variant: producedCount bumped whether or not the call published.
ReturnCountsFailures(p, ok) ==
  /\ pc' = [pc EXCEPT ![p] = "idle"]
  /\ mode' = [mode EXCEPT ![p] = "publish"]
  /\ req' = [req EXCEPT ![p] = IdleRequest(p)]
  /\ resp' = [resp EXCEPT ![p] = NoResp]
  /\ okCount' = IF ok THEN [okCount EXCEPT ![p] = @ + 1] ELSE okCount
  /\ producedCount' = IF p \in AckProducers
                      THEN [producedCount EXCEPT ![p] = @ + 1]
                      ELSE producedCount

\* (mode, req and resp of a finished call are dead and are reset.)
Return(p, ok) ==
  /\ pc' = [pc EXCEPT ![p] = "idle"]
  /\ mode' = [mode EXCEPT ![p] = "publish"]
  /\ req' = [req EXCEPT ![p] = IdleRequest(p)]
  /\ resp' = [resp EXCEPT ![p] = NoResp]
  /\ okCount' = IF ok THEN [okCount EXCEPT ![p] = @ + 1] ELSE okCount
  /\ producedCount' = IF ok /\ p \in AckProducers
                      THEN [producedCount EXCEPT ![p] = @ + 1]
                      ELSE producedCount

\* Fault variant: the send case ignores the channel's capacity.
SendRequestUnbounded(p) ==
  /\ pc[p] = "send"
  /\ ~eventsNil[p]
  /\ pushChan' = Append(pushChan, req[p])
  /\ pc' = [pc EXCEPT ![p] = "resp"]
  /\ UNCHANGED <<mode, req, producedCount, calls, eventsNil, doneClosed,
                 resp, okCount, entries, consumed, acked, doneIds, pendingGet,
                 closing, done, lastACK, ackCount, consumerVars>>

\* Outer select, case `st.events <- req`: room in the buffered pushChan
\* (a nil events channel is never ready).
SendRequest(p) ==
  /\ pc[p] = "send"
  /\ ~eventsNil[p]
  /\ Len(pushChan) < ChanSize
  /\ pushChan' = Append(pushChan, req[p])
  /\ pc' = [pc EXCEPT ![p] = "resp"]
  /\ UNCHANGED <<mode, req, producedCount, calls, eventsNil, doneClosed,
                 resp, okCount, entries, consumed, acked, doneIds, pendingGet,
                 closing, done, lastACK, ackCount, consumerVars>>

\* Outer select, case `<-st.done` (both publish and tryPublish).
CancelledBeforeSend(p) ==
  /\ pc[p] = "send"
  /\ doneClosed[p]
  /\ eventsNil' = [eventsNil EXCEPT ![p] = TRUE]
  /\ Return(p, FALSE)
  /\ UNCHANGED <<calls, doneClosed, brokerVars, consumerVars>>

\* Outer select of publish, case `<-st.queueClosing`.
ClosingBeforeSend(p) ==
  /\ pc[p] = "send"
  /\ mode[p] = "publish"
  /\ closing
  /\ eventsNil' = [eventsNil EXCEPT ![p] = TRUE]
  /\ Return(p, FALSE)
  /\ UNCHANGED <<calls, doneClosed, brokerVars, consumerVars>>

\* Outer select of tryPublish, `default`: no case is ready, the event is
\* dropped.  events stays as it is.
DropEvent(p) ==
  /\ pc[p] = "send"
  /\ mode[p] = "try"
  /\ ~(~eventsNil[p] /\ Len(pushChan) < ChanSize)
  /\ ~doneClosed[p]
  /\ Return(p, FALSE)
  /\ UNCHANGED <<calls, eventsNil, doneClosed, brokerVars,
                 consumerVars>>

\* Inner select, case `resp := <-req.resp`.
ReceiveResp(p) ==
  /\ pc[p] = "resp"
  /\ resp[p].call = req[p].call
  /\ Return(p, TRUE)
  /\ UNCHANGED <<calls, eventsNil, doneClosed, brokerVars,
                 consumerVars>>

\* Inner select, case `<-st.queueClosing`: the request is abandoned even if
\* the broker has already answered it.
ClosingAfterSend(p) ==
  /\ pc[p] = "resp"
  /\ closing
  /\ eventsNil' = [eventsNil EXCEPT ![p] = TRUE]
  /\ Return(p, FALSE)
  /\ UNCHANGED <<calls, doneClosed, brokerVars, consumerVars>>

\* Producer.Close -> openState.Close: close(st.done).  Callers close a
\* producer once; it may happen while a Publish of it is running.
ProducerClose(p) ==
  /\ ~doneClosed[p]
  /\ doneClosed' = [doneClosed EXCEPT ![p] = TRUE]
  /\ UNCHANGED <<pc, mode, req, producedCount, calls, eventsNil, resp,
                 okCount, brokerVars, consumerVars>>

-----------------------------------------------------------------------------
(* Broker (spec 4.1) *)

\* Fault variant: the read cursor is not advanced past the batch.
ReplyKeepsCursor(c, ents) ==
  LET n == Min({want[c], Len(ents) - consumed})
  IN /\ batch' = [batch EXCEPT ![c] = [start |-> consumed, count |-> n]]
     /\ consumed' = consumed
     /\ cpc' = [cpc EXCEPT ![c] = "hold"]

\* Fault variant: the batch is cut at the size asked for, not at what is
\* available.
ReplyOverrun(c, ents) ==
  /\ batch' = [batch EXCEPT ![c] = [start |-> consumed, count |-> want[c]]]
  /\ consumed' = consumed + want[c]
  /\ cpc' = [cpc EXCEPT ![c] = "hold"]

\* Hand consumer c the next min(want, available) entries.
Reply(c, ents) ==
  LET n == Min({want[c], Len(ents) - consumed})
  IN /\ batch' = [batch EXCEPT ![c] = [start |-> consumed, count |-> n]]
     /\ consumed' = consumed + n
     /\ cpc' = [cpc EXCEPT ![c] = "hold"]

\* Fault variant: off-by-one capacity check.
BrokerInsertOverfill ==
  /\ pushChan # <<>>
  /\ ~closing
  /\ Len(entries) - acked <= Events
  /\ LET r    == Head(pushChan)
         ents == Append(entries, [producer |-> r.producer,
                                  producerID |-> r.producerID])
     IN /\ entries' = ents
        /\ pushChan' = Tail(pushChan)
        /\ resp' = [resp EXCEPT ![r.from] = [call |-> r.call, id |-> Len(ents)]]
        /\ IF pendingGet # NoConsumer /\ Len(ents) - consumed >= want[pendingGet]
           THEN /\ Reply(pendingGet, ents)
                /\ pendingGet' = NoConsumer
           ELSE UNCHANGED <<batch, consumed, cpc, pendingGet>>
  /\ UNCHANGED <<pc, mode, req, producedCount, calls, eventsNil, doneClosed,
                 okCount, acked, doneIds, closing, done, lastACK, ackCount,
                 want, ackChan>>

\* Fault variant: the entry is inserted but its id is never sent back.
BrokerInsertNoReply ==
  /\ pushChan # <<>>
  /\ ~closing
  /\ Len(entries) - acked < Events
  /\ LET r    == Head(pushChan)
         ents == Append(entries, [producer |-> r.producer,
                                  producerID |-> r.producerID])
     IN /\ entries' = ents
        /\ pushChan' = Tail(pushChan)
        /\ IF pendingGet # NoConsumer /\ Len(ents) - consumed >= want[pendingGet]
           THEN /\ Reply(pendingGet, ents)
                /\ pendingGet' = NoConsumer
           ELSE UNCHANGED <<batch, consumed, cpc, pendingGet>>
  /\ UNCHANGED <<pc, mode, req, producedCount, calls, eventsNil, doneClosed,
                 okCount, resp, acked, doneIds, closing, done, lastACK, ackCount,
                 want, ackChan>>

\* Insert the oldest push request while the ring has room, answer it on its
\* resp channel, and serve a held get request that now has enough entries.
\* Once the queue is closing no new entry is accepted.
BrokerInsert ==
  /\ pushChan # <<>>
  /\ ~closing
  /\ Len(entries) - acked < Events
  /\ LET r    == Head(pushChan)
         ents == Append(entries, [producer |-> r.producer,
                                  producerID |-> r.producerID])
     IN /\ entries' = ents
        /\ pushChan' = Tail(pushChan)
        /\ resp' = [resp EXCEPT ![r.from] = [call |-> r.call, id |-> Len(ents)]]
        /\ IF pendingGet # NoConsumer /\ Len(ents) - consumed >= want[pendingGet]
           THEN /\ Reply(pendingGet, ents)
                /\ pendingGet' = NoConsumer
           ELSE UNCHANGED <<batch, consumed, cpc, pendingGet>>
  /\ UNCHANGED <<pc, mode, req, producedCount, calls, eventsNil, doneClosed,
                 okCount, acked, doneIds, closing, done, lastACK, ackCount,
                 want, ackChan>>

\* Receive a get request (only while some entry is unread): answer at once,
\* or hold it under the flush timer when it asks for more than is there.
BrokerGet(c) ==
  /\ cpc[c] = "get"
  /\ pendingGet = NoConsumer
  /\ Available > 0
  /\ IF ~FlushTimeout \/ Available >= want[c]
     THEN Reply(c, entries) /\ UNCHANGED pendingGet
     ELSE pendingGet' = c /\ UNCHANGED <<batch, consumed, cpc>>
  /\ UNCHANGED <<producerVars, pushChan, entries, acked, doneIds, closing,
                 done, lastACK, ackCount, want, ackChan>>

\* The flush timer expires: answer the held request with what is there.
BrokerTimeout ==
  /\ pendingGet # NoConsumer
  /\ Reply(pendingGet, entries)
  /\ pendingGet' = NoConsumer
  /\ UNCHANGED <<producerVars, pushChan, entries, acked, doneIds, closing,
                 done, lastACK, ackCount, want, ackChan>>

\* The largest k >= a such that entries a+1..k are all done.
RECURSIVE AckedPrefix(_, _)
AckedPrefix(d, a) == IF a + 1 \in d THEN AckedPrefix(d, a + 1) ELSE a

\* Receive a batch Done: mark its entries, advance acked over the
\* contiguous done prefix, and call each ack producer's callback once with
\* the growth of its highest acked producerID.
BrokerAck ==
  /\ ackChan # <<>>
  /\ LET b    == Head(ackChan)
         d    == doneIds \cup {b.start + i : i \in 1..b.count}
         newA == AckedPrefix(d, acked)
         ids(p) == {entries[i].producerID : i \in {j \in acked+1..newA :
                                                entries[j].producer = p}}
         top(p) == IF ids(p) = {} THEN lastACK[p] ELSE Max(ids(p))
     IN /\ ackChan' = Tail(ackChan)
        /\ doneIds' = d \ (1..newA)
        /\ acked' = newA
        /\ ackCount' = [p \in Producers |-> ackCount[p] + (top(p) - lastACK[p])]
        /\ lastACK' = [p \in Producers |-> top(p)]
  /\ UNCHANGED <<producerVars, pushChan, entries, consumed, pendingGet,
                 closing, done, cpc, want, batch>>

\* Queue.Close: the broker closes closingChan; a held get request is
\* answered at once.
QueueClose ==
  /\ ~closing
  /\ closing' = TRUE
  /\ IF pendingGet # NoConsumer
     THEN Reply(pendingGet, entries) /\ pendingGet' = NoConsumer
     ELSE UNCHANGED <<batch, consumed, cpc, pendingGet>>
  /\ UNCHANGED <<producerVars, pushChan, entries, acked, doneIds, done,
                 lastACK, ackCount, want, ackChan>>

\* Every delivered entry acknowledged after Close: the Done channel closes.
QueueShutdown ==
  /\ closing
  /\ ~done
  /\ acked = Len(entries)
  /\ done' = TRUE
  /\ UNCHANGED <<producerVars, pushChan, entries, consumed, acked, doneIds,
                 pendingGet, closing, lastACK, ackCount, consumerVars>>

-----------------------------------------------------------------------------
(* Consumers: the output-worker loop of multiConsumer *)

\* batch, err := b.Get(batchSize)
ConsumerGet(c, n) ==
  /\ cpc[c] = "idle"
  /\ cpc' = [cpc EXCEPT ![c] = "get"]
  /\ want' = [want EXCEPT ![c] = n]
  /\ UNCHANGED <<producerVars, brokerVars, batch, ackChan>>

\* Get fails once the queue is closing and has nothing left to hand out:
\* the worker returns.
ConsumerExit(c) ==
  /\ cpc[c] = "get"
  /\ pendingGet # c
  /\ closing
  /\ Available = 0
  /\ cpc' = [cpc EXCEPT ![c] = "exit"]
  /\ UNCHANGED <<producerVars, brokerVars, want, batch, ackChan>>

\* batch.Done(): never blocks, the message is queued for the broker.
ConsumerDone(c) ==
  /\ cpc[c] = "hold"
  /\ ackChan' = Append(ackChan, batch[c])
  /\ cpc' = [cpc EXCEPT ![c] = "idle"]
  /\ batch' = [batch EXCEPT ![c] = [start |-> 0, count |-> 0]]
  /\ want' = [want EXCEPT ![c] = Min(BatchSizes)]
  /\ UNCHANGED <<producerVars, brokerVars>>

-----------------------------------------------------------------------------

Init ==
  /\ pc = [p \in Producers |-> "idle"]
  /\ mode = [p \in Producers |-> "publish"]
  /\ req = [p \in Producers |-> IdleRequest(p)]
  /\ producedCount = [p \in Producers |-> 0]
  /\ calls = [p \in Producers |-> 0]
  /\ eventsNil = [p \in Producers |-> FALSE]
  /\ doneClosed = [p \in Producers |-> FALSE]
  /\ resp = [p \in Producers |-> NoResp]
  /\ okCount = [p \in Producers |-> 0]
  /\ pushChan = <<>>
  /\ entries = <<>>
  /\ consumed = 0
  /\ acked = 0
  /\ doneIds = {}
  /\ pendingGet = NoConsumer
  /\ closing = FALSE
  /\ done = FALSE
  /\ lastACK = [p \in Producers |-> 0]
  /\ ackCount = [p \in Producers |-> 0]
  /\ cpc = [c \in Consumers |-> "idle"]
  /\ want = [c \in Consumers |-> Min(BatchSizes)]
  /\ batch = [c \in Consumers |-> [start |-> 0, count |-> 0]]
  /\ ackChan = <<>>

ProducerStep(p) ==
  \/ SendRequest(p)
  \/ CancelledBeforeSend(p)
  \/ ClosingBeforeSend(p)
  \/ DropEvent(p)
  \/ ReceiveResp(p)
  \/ ClosingAfterSend(p)

BrokerStep ==
  \/ BrokerInsert
  \/ \E c \in Consumers : BrokerGet(c)
  \/ BrokerTimeout
  \/ BrokerAck
  \/ QueueShutdown

ConsumerStep(c) ==
  \/ \E n \in BatchSizes : ConsumerGet(c, n)
  \/ ConsumerExit(c)
  \/ ConsumerDone(c)

Next ==
  \/ \E p \in Producers : \E m \in {"publish", "try"} : StartCall(p, m)
  \/ \E p \in Producers : ProducerStep(p)
  \/ \E p \in Producers : ProducerClose(p)
  \/ BrokerStep
  \/ \E c \in Consumers : ConsumerStep(c)
  \/ QueueClose

\* Goroutines that are running keep running: a producer inside a call,
\* the broker loop, and the output workers.  Starting a call, closing a
\* producer and closing the queue are the caller's choice: no fairness.
Fairness ==
  /\ \A p \in Producers : WF_vars(ProducerStep(p))
  /\ WF_vars(BrokerStep)
  /\ \A c \in Consumers : WF_vars(ConsumerStep(c))

Spec == Init /\ [][Next]_vars /\ Fairness

\* The same system with the outputs down: the workers may stop forever.
OutputDownSpec ==
  Init /\ [][Next]_vars
       /\ \A p \in Producers : WF_vars(ProducerStep(p))
       /\ WF_vars(BrokerStep)

-----------------------------------------------------------------------------
(* Properties *)

TypeOK ==
  /\ pc \in [Producers -> {"idle", "send", "resp"}]
  /\ mode \in [Producers -> {"publish", "try"}]
  /\ req \in [Producers -> Request]
  /\ producedCount \in [Producers -> Nat]
  /\ calls \in [Producers -> 0..MaxCalls]
  /\ eventsNil \in [Producers -> BOOLEAN]
  /\ doneClosed \in [Producers -> BOOLEAN]
  /\ resp \in [Producers -> [call : Nat, id : Nat]]
  /\ okCount \in [Producers -> Nat]
  /\ pushChan \in Seq(Request) /\ Len(pushChan) <= ChanSize
  /\ entries \in Seq(Entry)
  /\ consumed \in Nat /\ acked \in Nat
  /\ doneIds \in SUBSET (acked+1..Len(entries))
  /\ pendingGet \in Consumers \cup {NoConsumer}
  /\ closing \in BOOLEAN /\ done \in BOOLEAN
  /\ lastACK \in [Producers -> Nat] /\ ackCount \in [Producers -> Nat]
  /\ cpc \in [Consumers -> {"idle", "get", "hold", "exit"}]
  /\ want \in [Consumers -> BatchSizes]
  /\ batch \in [Consumers -> [start : Nat, count : Nat]]
  /\ ackChan \in Seq([start : Nat, count : Nat])

\* Spec 4.1: the ring cursors stay ordered, acked <= consumed <= head, and
\* no more than Events entries are held (head - acked), whatever the sizes
\* consumers ask for and however the flush timer and Close cut batches.
CursorOrder ==
  /\ acked <= consumed
  /\ consumed <= Len(entries)
  /\ Len(entries) - acked <= Events

\* ACK coalescing (spec 4.1, 4.3): for every ack producer, the counts its
\* callback has received sum to exactly the number of its entries below the
\* acked cursor, and those entries carry producerIDs 1..lastACK.  This ties
\* the producer-side producerID numbering (producedCount + 1, bumped only on
\* success) to the broker's coalescing over batches acked out of order by
\* several workers.
AckAccounting ==
  \A p \in AckProducers :
    LET mine == {i \in 1..acked : entries[i].producer = p}
    IN /\ ackCount[p] = Cardinality(mine)
       /\ {entries[i].producerID : i \in mine} = 1..lastACK[p]

\* Spec 4.3 (the per-producer counter): the entries of an ack producer, in
\* the order the broker inserted them, carry the producerIDs 1, 2, ..., k
\* with no gap or repeat, and k is producedCount or, while the entry of a
\* call not yet counted is in the ring, producedCount + 1.  The id is
\* computed on the producer's goroutine before the send and the counter
\* bumped after the answer, with the broker and other producers running in
\* between; coalescing trusts this numbering.
ProducerIDsInOrder ==
  \A p \in AckProducers :
    LET mine == SelectSeq(entries, LAMBDA e : e.producer = p)
    IN /\ \A i \in 1..Len(mine) : mine[i].producerID = i
       /\ Len(mine) - producedCount[p] \in {0, 1}

\* Spec 8: every entry handed to a batch was accepted and is handed out in
\* no other batch: the batches held or reported Done but not yet acked
\* cover disjoint ranges of accepted entries.
NoDuplicateDelivery ==
  LET held   == {batch[c] : c \in {x \in Consumers : cpc[x] = "hold"}}
      inAck  == {ackChan[i] : i \in 1..Len(ackChan)}
      ranges == held \cup inAck
      ids(b) == {b.start + i : i \in 1..b.count}
  IN /\ \A b \in ranges : ids(b) \subseteq 1..consumed
     /\ \A b1, b2 \in ranges : b1 # b2 => ids(b1) \cap ids(b2) = {}
     /\ \A b \in inAck : ids(b) \cap (doneIds \cup 1..acked) = {}

\* Spec 4.1 / 5: a running Publish or TryPublish call eventually returns
\* while the workers keep consuming: a Publish whose request waits for room
\* in a full ring returns once the output acknowledges, and a call made
\* after an earlier one set the producer's events channel to nil (queue
\* closing or producer closed) returns without ever sending.
CallsReturn ==
  \A p \in Producers : (pc[p] # "idle") ~> (pc[p] = "idle")

\* The queue as spec 4.1 and 8 describe it: the ring is the log, its read
\* and acked cursors the delivery and acknowledgement cursors, and each ack
\* producer's callback total the abstract notification.
AcceptedItem == [producer : AckProducers \cup {NoProducer}, producerID : 0..MaxCalls]

QS == INSTANCE QueueSpec WITH
        Items <- AcceptedItem, Notified <- AckProducers, Capacity <- Events,
        log <- entries, delivered <- consumed, ackd <- acked,
        notified <- [p \in AckProducers |-> ackCount[p]],
        closed <- closing, down <- done

\* MemQueue implements QueueSpec: every step of producers, broker and
\* workers is a step of the abstract queue (FIFO hand-out within the
\* capacity, acknowledgement of a delivered prefix with exact callback
\* counts, nothing accepted after Close), and with the workers running
\* every accepted entry is delivered and acknowledged.
ImplementsQueueSpec == QS!QSpec

\* Spec 8: once the queue is shut down and a producer is not inside a call,
\* its ACK callback has been told of exactly the events its Publish /
\* TryPublish calls reported accepted.
AckMatchesPublishResult ==
  \A p \in AckProducers :
    (done /\ pc[p] = "idle") => ackCount[p] = okCount[p]

\* Spec 5: closing a producer's cancellation signal unblocks its in-flight
\* Publish, which returns failure, even when no output is consuming.
CancelUnblocksPublish ==
  \A p \in Producers :
    (doneClosed[p] /\ pc[p] # "idle") ~> (pc[p] = "idle")

=============================================================================
