-------------------------- MODULE LogWriterProofs --------------------------
(***************************************************************************)
(* What holds of the log writer for any number of requests and subscribers *)
(* and for every queue capacity, batch size and channel capacity: no       *)
(* wake-up is lost, nothing is sent on a closed channel, nothing that was  *)
(* submitted before Close is left behind, and every record is stored once  *)
(* and in order or counted as lost, as LogPipeline has it.                 *)
(***************************************************************************)
EXTENDS LogWriter, SequenceTheorems, FiniteSetTheorems, TLAPS

LEMMA OverflowType ==
  ASSUME TypeOK
  PROVE  Overflow \in 0..Len(buffer)
<1>1. Len(buffer) \in Nat
  BY LenProperties DEF TypeOK
<1> QED
  BY <1>1, WriterAssumption DEF Overflow

(* The elements of a sequence of numbers are numbers.                      *)
LEMMA ToSetType ==
  ASSUME NEW s \in Seq(Nat)
  PROVE  ToSet(s) \subseteq Nat
BY LenProperties DEF ToSet

(* What Enqueue makes of the queue, and what it drops, are records.        *)
LEMMA EnqueueType ==
  ASSUME TypeOK, NEW rec \in Nat
  PROVE  /\ Append(Kept, rec) \in Seq(Nat)
         /\ ToSet(buffer) \ ToSet(Kept) \subseteq Nat
<1>1. /\ buffer \in Seq(Nat)
      /\ Len(buffer) \in Nat
      /\ Overflow \in 0..Len(buffer)
      /\ \A i \in 1..Len(buffer) : buffer[i] \in Nat
  BY OverflowType, LenProperties DEF TypeOK
<1>2. Kept \in Seq(Nat)
  BY <1>1, SubSeqProperties DEF Kept
<1> QED
  BY <1>1, <1>2, AppendProperties, ToSetType

(* A copy for a channel with room, and a receive, keep within the bound.   *)
LEMMA ChannelType ==
  ASSUME NEW c \in Seq(Nat), Len(c) <= SubBuffer
  PROVE  /\ \A r \in Nat : Len(c) < SubBuffer =>
              Append(c, r) \in Seq(Nat) /\ Len(Append(c, r)) <= SubBuffer
         /\ c # <<>> => Tail(c) \in Seq(Nat) /\ Len(Tail(c)) <= SubBuffer
<1>1. Len(c) \in Nat
  BY LenProperties
<1>2. ASSUME NEW r \in Nat
      PROVE  Append(c, r) \in Seq(Nat) /\ Len(Append(c, r)) = Len(c) + 1
  BY AppendProperties
<1>3. ASSUME c # <<>>
      PROVE  Tail(c) \in Seq(Nat) /\ Len(Tail(c)) = Len(c) - 1
  BY <1>3, HeadTailProperties
<1> QED
  BY <1>1, <1>2, <1>3, WriterAssumption
-----------------------------------------------------------------------------
LEMMA InitType == Init => TypeOK
<1>1. <<>> \in Seq(Nat) /\ Len(<<>>) = 0
  BY EmptySeq
<1> SUFFICES ASSUME Init PROVE TypeOK
  OBVIOUS
<1>2. req \in [Requests -> RequestState]
  BY DEF Init, IdleRequest, RequestState
<1>3. /\ channel \in [Subscribers -> Seq(Nat)]
      /\ \A s \in Subscribers : Len(channel[s]) <= SubBuffer
  BY <1>1, WriterAssumption DEF Init
<1>4. hist \in History
  BY <1>1 DEF Init, History
<1>5. flusher \in FlusherState
  BY <1>1 DEF Init, FlusherState
<1> QED
  BY <1>1, <1>2, <1>3, <1>4, <1>5, WriterAssumption DEF Init, TypeOK

(* A step of a request that changes only the request, and leaves a         *)
(* well-formed one.                                                        *)
LEMMA OnlyRequest ==
  ASSUME TypeOK, req' \in [Requests -> RequestState],
         UNCHANGED <<srv, queueVars, flusher, subVars, hist>>, flushCh' \in BOOLEAN
  PROVE  TypeOK'
BY DEF TypeOK, queueVars, subVars

(* A step of the flusher that leaves the requests and the channels alone.  *)
LEMMA OnlyFlusher ==
  ASSUME TypeOK, flusher' \in FlusherState, hist' \in History,
         buffer' \in Seq(Nat), droppedCount' \in Nat, flushCh' \in BOOLEAN,
         UNCHANGED <<srv, req, queueCapacity, subVars>>
  PROVE  TypeOK'
BY DEF TypeOK, subVars

LEMMA RequestStep ==
  ASSUME TypeOK, NEW p \in Requests,
         StartRequest(p) \/ BeginBroadcast(p) \/ EndBroadcast(p) \/ Signal(p)
  PROVE  TypeOK'
<1>1. req \in [Requests -> RequestState] /\ subscribers \in SUBSET Subscribers
      /\ flushCh \in BOOLEAN
  BY DEF TypeOK
<1>2. req[p] \in RequestState
  BY <1>1
<1>3. CASE StartRequest(p)
  <2>1. [req[p] EXCEPT !.pc = "serving"] \in RequestState
    BY <1>2 DEF RequestState
  <2>2. req' \in [Requests -> RequestState]
    BY <1>1, <1>3, <2>1 DEF StartRequest
  <2> QED
    BY <1>1, <1>3, <2>2, OnlyRequest DEF StartRequest
<1>4. CASE BeginBroadcast(p)
  <2>1. [req[p] EXCEPT !.pc = "broadcast", !.todo = subscribers] \in RequestState
    BY <1>1, <1>2 DEF RequestState
  <2>2. req' = [req EXCEPT ![p] = [req[p] EXCEPT !.pc = "broadcast",
                                                 !.todo = subscribers]]
    BY <1>1, <1>2, <1>4 DEF BeginBroadcast, RequestState
  <2>3. req' \in [Requests -> RequestState]
    BY <1>1, <2>1, <2>2
  <2> QED
    BY <1>1, <1>4, <2>3, OnlyRequest DEF BeginBroadcast
<1>5. CASE EndBroadcast(p)
  <2>1. [req[p] EXCEPT !.pc = "signal"] \in RequestState
    BY <1>2 DEF RequestState
  <2>2. req' \in [Requests -> RequestState]
    BY <1>1, <1>5, <2>1 DEF EndBroadcast
  <2> QED
    BY <1>1, <1>5, <2>2, OnlyRequest DEF EndBroadcast
<1>6. CASE Signal(p)
  <2>1. IdleRequest \in RequestState
    BY DEF IdleRequest, RequestState
  <2>2. req' \in [Requests -> RequestState]
    BY <1>1, <1>6, <2>1 DEF Signal
  <2>3. req[p].needFlush \in BOOLEAN
    BY <1>2 DEF RequestState
  <2>4. flushCh' \in BOOLEAN
    BY <1>1, <1>6, <2>3 DEF Signal
  <2> QED
    BY <1>6, <2>2, <2>4, OnlyRequest DEF Signal
<1> QED
  BY <1>3, <1>4, <1>5, <1>6

LEMMA EnqueueStep ==
  ASSUME TypeOK, NEW p \in Requests, Enqueue(p)
  PROVE  TypeOK'
<1> DEFINE rec == hist.written + 1
<1>1. rec \in Nat /\ hist \in History /\ hist.dropped \in SUBSET Nat
  BY DEF TypeOK, History
<1>2. /\ buffer' \in Seq(Nat)
      /\ ToSet(buffer) \ ToSet(Kept) \subseteq Nat
  BY <1>1, EnqueueType DEF Enqueue
<1>3. droppedCount' \in Nat
  <2>1. Overflow \in Nat
    BY OverflowType, LenProperties DEF TypeOK
  <2> QED
    BY <2>1 DEF Enqueue, TypeOK
<1>4. [pc |-> "appended", rec |-> rec, needFlush |-> BatchFull(buffer'), todo |-> {}]
        \in RequestState
  BY <1>1 DEF BatchFull, RequestState
<1>5. req' \in [Requests -> RequestState]
  BY <1>4 DEF Enqueue, TypeOK
<1>6. hist' \in History
  <2>1. hist.dropped \cup (ToSet(buffer) \ ToSet(Kept)) \in SUBSET Nat
    BY <1>1, <1>2
  <2>2. hist' = [hist EXCEPT !.written = rec,
                    !.dropped = hist.dropped \cup (ToSet(buffer) \ ToSet(Kept))]
    BY DEF Enqueue
  <2> HIDE DEF rec
  <2> QED
    BY <1>1, <2>1, <2>2 DEF History
<1>7. UNCHANGED <<srv, queueCapacity, flushCh, flusher, subVars>>
  BY DEF Enqueue
<1> QED
  BY <1>2, <1>3, <1>5, <1>6, <1>7 DEF TypeOK, subVars

LEMMA OfferStep ==
  ASSUME TypeOK, NEW p \in Requests, NEW s \in Subscribers, Offer(p, s)
  PROVE  TypeOK'
<1>1. /\ req \in [Requests -> RequestState]
      /\ channel \in [Subscribers -> Seq(Nat)]
      /\ \A t \in Subscribers : Len(channel[t]) <= SubBuffer
  BY DEF TypeOK
<1>2. req[p] \in RequestState /\ req[p].rec \in Nat
  BY <1>1 DEF RequestState
<1>3. [req[p] EXCEPT !.todo = @ \ {s}] \in RequestState
  BY <1>2 DEF RequestState
<1>4. req' \in [Requests -> RequestState]
  BY <1>1, <1>3 DEF Offer
<1>5. CASE HasRoom(s)
  <2>1. /\ Append(channel[s], req[p].rec) \in Seq(Nat)
        /\ Len(Append(channel[s], req[p].rec)) <= SubBuffer
    BY <1>1, <1>2, <1>5, ChannelType DEF HasRoom
  <2>2. channel' = [channel EXCEPT ![s] = Append(channel[s], req[p].rec)]
    BY <1>5 DEF Offer
  <2>3. /\ channel' \in [Subscribers -> Seq(Nat)]
        /\ \A t \in Subscribers : Len(channel'[t]) <= SubBuffer
    BY <1>1, <2>1, <2>2
  <2> QED
    BY <1>4, <2>3 DEF Offer, TypeOK, queueVars
<1>6. CASE ~HasRoom(s)
  <2>1. channel' = channel
    BY <1>6 DEF Offer
  <2> QED
    BY <1>4, <2>1 DEF Offer, TypeOK, queueVars
<1> QED
  BY <1>5, <1>6

LEMMA FlusherStep ==
  ASSUME TypeOK,
         SelectTick \/ SelectFlush \/ SelectDone \/ Swap \/ InsertOk \/ InsertFail
  PROVE  TypeOK'
<1>1. /\ flusher \in FlusherState
      /\ flusher.batch \in Seq(Nat)
      /\ hist \in History
      /\ hist.warned \in Nat
      /\ hist.stored \in Seq(Nat)
      /\ hist.failed \in SUBSET Nat
      /\ buffer \in Seq(Nat)
      /\ droppedCount \in Nat
      /\ flushCh \in BOOLEAN
  BY DEF TypeOK, FlusherState, History
<1>2. <<>> \in Seq(Nat) /\ AfterFlush \in {"select", "exited"}
  BY EmptySeq DEF AfterFlush
<1>3. CASE SelectTick \/ SelectFlush
  <2>1. flusher' = [flusher EXCEPT !.pc = "flush"]
    BY <1>3 DEF SelectTick, SelectFlush
  <2>2. flusher' \in FlusherState
    BY <1>1, <2>1 DEF FlusherState
  <2>3. flushCh' \in BOOLEAN /\ UNCHANGED <<srv, req, queueVars, subVars, hist>>
    BY <1>1, <1>3 DEF SelectTick, SelectFlush
  <2> QED
    BY <1>1, <2>2, <2>3, OnlyFlusher DEF queueVars
<1>4. CASE SelectDone
  <2>1. flusher' \in FlusherState
    BY <1>1, <1>4 DEF SelectDone, FlusherState
  <2> QED
    BY <1>1, <1>4, <2>1, OnlyFlusher DEF SelectDone, queueVars
<1>5. CASE Swap
  <2>1. flusher' \in FlusherState
    BY <1>1, <1>2, <1>5 DEF Swap, FlusherState
  <2>2. hist.warned + droppedCount \in Nat
    BY <1>1
  <2>3. hist' = [hist EXCEPT !.warned = hist.warned + droppedCount]
    BY <1>5 DEF Swap
  <2>4. hist' \in History
    BY <1>1, <2>2, <2>3 DEF History
  <2> QED
    BY <1>1, <1>2, <1>5, <2>1, <2>4, OnlyFlusher DEF Swap
<1>6. CASE InsertOk \/ InsertFail
  <2>1. flusher' = [flusher EXCEPT !.pc = AfterFlush, !.batch = <<>>]
    BY <1>6 DEF InsertOk, InsertFail
  <2>2. flusher' \in FlusherState
    BY <1>1, <1>2, <2>1 DEF FlusherState
  <2>3. hist.stored \o flusher.batch \in Seq(Nat)
    BY <1>1, ConcatProperties
  <2>4. hist.failed \cup ToSet(flusher.batch) \in SUBSET Nat
    BY <1>1, ToSetType
  <2>5. hist' \in History
    BY <1>1, <1>6, <2>3, <2>4 DEF InsertOk, InsertFail, History
  <2>6. UNCHANGED <<srv, req, queueVars, flushCh, subVars>>
    BY <1>6 DEF InsertOk, InsertFail
  <2> QED
    BY <1>1, <2>2, <2>5, <2>6, OnlyFlusher DEF queueVars
<1> QED
  BY <1>3, <1>4, <1>5, <1>6

LEMMA SubscriberStep ==
  ASSUME TypeOK, NEW s \in Subscribers, Subscribe(s) \/ Receive(s) \/ Cancel(s)
  PROVE  TypeOK'
<1>1. /\ channel \in [Subscribers -> Seq(Nat)]
      /\ \A t \in Subscribers : Len(channel[t]) <= SubBuffer
      /\ hist \in History
      /\ hist.closedCh \in SUBSET Subscribers
  BY DEF TypeOK, History
<1>2. CASE Subscribe(s)
  BY <1>2 DEF Subscribe, TypeOK, queueVars
<1>3. CASE Receive(s)
  <2>1. Tail(channel[s]) \in Seq(Nat) /\ Len(Tail(channel[s])) <= SubBuffer
    BY <1>1, <1>3, ChannelType DEF Receive
  <2>2. channel' = [channel EXCEPT ![s] = Tail(channel[s])]
    BY <1>3 DEF Receive
  <2>3. /\ channel' \in [Subscribers -> Seq(Nat)]
        /\ \A t \in Subscribers : Len(channel'[t]) <= SubBuffer
    BY <1>1, <2>1, <2>2
  <2> QED
    BY <1>3, <2>3 DEF Receive, TypeOK, queueVars
<1>4. CASE Cancel(s)
  <2>1. <<>> \in Seq(Nat) /\ Len(<<>>) = 0
    BY EmptySeq
  <2>2. channel' = [channel EXCEPT ![s] = <<>>]
    BY <1>4 DEF Cancel
  <2>3. /\ channel' \in [Subscribers -> Seq(Nat)]
        /\ \A t \in Subscribers : Len(channel'[t]) <= SubBuffer
    BY <1>1, <2>1, <2>2, WriterAssumption
  <2>4. hist' \in History
    <3>1. hist.closedCh \cup {s} \in SUBSET Subscribers
      BY <1>1
    <3>2. hist' = [hist EXCEPT !.closedCh = hist.closedCh \cup {s}]
      BY <1>4 DEF Cancel
    <3> QED
      BY <1>1, <3>1, <3>2 DEF History
  <2>5. subscribers' \subseteq Subscribers
    BY <1>4 DEF Cancel, TypeOK
  <2> QED
    BY <1>4, <2>3, <2>4, <2>5 DEF Cancel, TypeOK, queueVars
<1> QED
  BY <1>2, <1>3, <1>4

LEMMA ShutdownStep ==
  ASSUME TypeOK, BeginShutdown \/ CloseDone \/ CloseReturn
  PROVE  TypeOK'
<1>1. hist \in History /\ hist.written \in Nat
  BY DEF TypeOK, History
<1>2. hist' \in History
  BY <1>1 DEF BeginShutdown, CloseDone, CloseReturn, History
<1>3. /\ srv' \in {"draining", "closing", "closed"}
      /\ UNCHANGED <<req, queueVars, flushCh, flusher, subVars>>
  BY DEF BeginShutdown, CloseDone, CloseReturn
<1> QED
  BY <1>2, <1>3 DEF TypeOK, queueVars, subVars

LEMMA NextType == TypeOK /\ [Next]_vars => TypeOK'
<1> SUFFICES ASSUME TypeOK, [Next]_vars
             PROVE  TypeOK'
  OBVIOUS
<1>1. ASSUME NEW p \in Requests,
             StartRequest(p) \/ BeginBroadcast(p) \/ EndBroadcast(p) \/ Signal(p)
      PROVE  TypeOK'
  BY <1>1, RequestStep
<1>2. ASSUME NEW p \in Requests, Enqueue(p)
      PROVE  TypeOK'
  BY <1>2, EnqueueStep
<1>3. ASSUME NEW p \in Requests, NEW s \in Subscribers, Offer(p, s)
      PROVE  TypeOK'
  BY <1>3, OfferStep
<1>4. CASE SelectTick \/ SelectFlush \/ SelectDone \/ Swap \/ InsertOk \/ InsertFail
  BY <1>4, FlusherStep
<1>5. ASSUME NEW s \in Subscribers, Subscribe(s) \/ Receive(s) \/ Cancel(s)
      PROVE  TypeOK'
  BY <1>5, SubscriberStep
<1>6. CASE BeginShutdown \/ CloseDone \/ CloseReturn
  BY <1>6, ShutdownStep
<1>7. CASE UNCHANGED vars
  BY <1>7 DEF vars, TypeOK
<1> QED
  BY <1>1, <1>2, <1>3, <1>4, <1>5, <1>6, <1>7 DEF Next

(* The state of the writer is well-formed: in particular no subscriber's   *)
(* channel holds more than its capacity.                                   *)
THEOREM TypeCorrect == Spec => []TypeOK
BY InitType, NextType, PTL DEF Spec
-----------------------------------------------------------------------------
LEMMA InitWakeup == Init => NoLostWakeup
<1>1. Len(<<>>) = 0
  BY EmptySeq
<1> QED
  BY <1>1, WriterAssumption DEF Init, NoLostWakeup

(* Whoever is on the way to the flusher with a wake-up.                    *)
Carries(p) == req[p].pc \in {"appended", "broadcast", "signal"} /\ req[p].needFlush

(* Each step keeps the wake-up it finds, hands it on, or empties the       *)
(* buffer.                                                                 *)
LEMMA NextWakeup == TypeOK /\ NoLostWakeup /\ [Next]_vars => NoLostWakeup'
<1> SUFFICES ASSUME TypeOK, NoLostWakeup, [Next]_vars,
                    Len(buffer') >= FlushBatch, flusher'.pc # "exited"
             PROVE  flushCh' \/ flusher'.pc = "flush" \/ \E p \in Requests : Carries(p)'
  BY DEF NoLostWakeup, Carries
<1>a. \/ ~(Len(buffer) >= FlushBatch) \/ flusher.pc = "exited"
      \/ flushCh \/ flusher.pc = "flush" \/ \E p \in Requests : Carries(p)
  BY DEF NoLostWakeup, Carries
<1> USE DEF queueVars, subVars
<1>1. ASSUME NEW p \in Requests, StartRequest(p)
      PROVE  flushCh' \/ flusher'.pc = "flush" \/ \E q \in Requests : Carries(q)'
  BY <1>1, <1>a DEF StartRequest, Carries, TypeOK, RequestState
<1>2. ASSUME NEW p \in Requests, Enqueue(p)
      PROVE  Carries(p)'
  BY <1>2 DEF Enqueue, Carries, BatchFull, TypeOK, RequestState
<1>3. ASSUME NEW p \in Requests, BeginBroadcast(p)
      PROVE  flushCh' \/ flusher'.pc = "flush" \/ \E q \in Requests : Carries(q)'
  BY <1>3, <1>a DEF BeginBroadcast, Carries, TypeOK, RequestState
<1>4. ASSUME NEW p \in Requests, NEW s \in Subscribers, Offer(p, s)
      PROVE  flushCh' \/ flusher'.pc = "flush" \/ \E q \in Requests : Carries(q)'
  BY <1>4, <1>a DEF Offer, Carries, TypeOK, RequestState
<1>5. ASSUME NEW p \in Requests, EndBroadcast(p)
      PROVE  flushCh' \/ flusher'.pc = "flush" \/ \E q \in Requests : Carries(q)'
  BY <1>5, <1>a DEF EndBroadcast, Carries, TypeOK, RequestState
<1>6. ASSUME NEW p \in Requests, Signal(p)
      PROVE  flushCh' \/ flusher'.pc = "flush" \/ \E q \in Requests : Carries(q)'
  BY <1>6, <1>a DEF Signal, Carries, TypeOK, RequestState
<1>7. CASE SelectTick \/ SelectFlush \/ SelectDone
  <2>1. flusher \in FlusherState
    BY DEF TypeOK
  <2>2. flusher'.pc = "flush"
    BY <1>7, <2>1 DEF SelectTick, SelectFlush, SelectDone, FlusherState
  <2> QED
    BY <2>2
<1>8. CASE Swap
  <2>1. Len(buffer') = 0
    BY <1>8, EmptySeq DEF Swap
  <2> QED
    BY <2>1, WriterAssumption
<1>9. CASE InsertOk \/ InsertFail
  <2>1. flusher.pc = "insert" /\ UNCHANGED <<req, buffer, flushCh>>
    BY <1>9 DEF InsertOk, InsertFail
  <2> QED
    BY <2>1, <1>a DEF Carries
<1>10. ASSUME NEW s \in Subscribers, Subscribe(s) \/ Receive(s) \/ Cancel(s)
       PROVE  flushCh' \/ flusher'.pc = "flush" \/ \E q \in Requests : Carries(q)'
  BY <1>10, <1>a DEF Subscribe, Receive, Cancel, Carries
<1>11. CASE BeginShutdown \/ CloseDone \/ CloseReturn
  BY <1>11, <1>a DEF BeginShutdown, CloseDone, CloseReturn, Carries
<1>12. CASE UNCHANGED vars
  BY <1>12, <1>a DEF vars, Carries
<1> QED
  BY <1>1, <1>2, <1>3, <1>4, <1>5, <1>6, <1>7, <1>8, <1>9, <1>10, <1>11, <1>12 DEF Next

(* No wake-up is lost: while a full batch is in the buffer, the flusher is *)
(* awake or a wake-up is in the channel or on its way (Write, flush, run). *)
THEOREM WakeupsAreKept == Spec => []NoLostWakeup
BY InitType, NextType, InitWakeup, NextWakeup, PTL DEF Spec
-----------------------------------------------------------------------------
(* Why nothing is sent on a closed channel: a broadcast holds the read     *)
(* lock over its whole loop, so that what it has still to do was           *)
(* subscribed when it began and has not been cancelled since; outside the  *)
(* loop there is nothing to do.                                            *)
SendSafe ==
  /\ NoSendOnClosed
  /\ subscribers \cap hist.closedCh = {}
  /\ \A p \in Requests : req[p].pc # "broadcast" => req[p].todo = {}

LEMMA SafeKept ==
  ASSUME SendSafe, UNCHANGED <<req, subscribers>>, hist'.closedCh = hist.closedCh
  PROVE  SendSafe'
BY DEF SendSafe, NoSendOnClosed

(* A step of request p, which leaves it nothing to send, or a part of what *)
(* it had to send and is still within its loop.                            *)
LEMMA SafeRequest ==
  ASSUME SendSafe, NEW p \in Requests,
         UNCHANGED subscribers, hist'.closedCh = hist.closedCh,
         \A q \in Requests \ {p} : req'[q] = req[q],
         req'[p].todo \subseteq req[p].todo,
         req'[p].pc # "broadcast" => req'[p].todo = {}
  PROVE  SendSafe'
BY DEF SendSafe, NoSendOnClosed

LEMMA NextSafe == TypeOK /\ SendSafe /\ [Next]_vars => SendSafe'
<1> SUFFICES ASSUME TypeOK, SendSafe, [Next]_vars
             PROVE  SendSafe'
  OBVIOUS
<1>a. /\ req \in [Requests -> RequestState]
      /\ \A p \in Requests : req[p] \in RequestState
      /\ hist \in History
      /\ hist.closedCh \in SUBSET Subscribers
  BY DEF TypeOK, History
<1>1. ASSUME NEW p \in Requests, StartRequest(p) \/ EndBroadcast(p)
      PROVE  SendSafe'
  <2>1. \/ req' = [req EXCEPT ![p].pc = "serving"]
        \/ req' = [req EXCEPT ![p].pc = "signal"] /\ req[p].todo = {}
    BY <1>1 DEF StartRequest, EndBroadcast
  <2>2. /\ \A q \in Requests \ {p} : req'[q] = req[q]
        /\ req'[p].todo = req[p].todo
        /\ req'[p].pc # "broadcast"
    BY <1>a, <2>1 DEF RequestState
  <2>3. req[p].todo = {}
    BY <1>1 DEF StartRequest, EndBroadcast, SendSafe
  <2>4. subscribers' = subscribers /\ hist' = hist
    BY <1>1 DEF StartRequest, EndBroadcast, subVars
  <2> QED
    BY <2>2, <2>3, <2>4, SafeRequest
<1>2. ASSUME NEW p \in Requests, Enqueue(p)
      PROVE  SendSafe'
  <2>1. hist'.closedCh = hist.closedCh
    BY <1>a, <1>2 DEF Enqueue, History
  <2>2. /\ \A q \in Requests \ {p} : req'[q] = req[q]
        /\ req'[p].todo = {}
    BY <1>a, <1>2 DEF Enqueue
  <2> QED
    BY <1>2, <2>1, <2>2, SafeRequest DEF Enqueue, subVars
<1>3. ASSUME NEW p \in Requests, BeginBroadcast(p)
      PROVE  SendSafe'
  <2>1. /\ \A q \in Requests \ {p} : req'[q] = req[q]
        /\ req'[p].todo = subscribers
        /\ req'[p].pc = "broadcast"
    BY <1>a, <1>3 DEF BeginBroadcast, RequestState
  <2>2. subscribers' = subscribers /\ hist' = hist
    BY <1>3 DEF BeginBroadcast, subVars
  <2> QED
    BY <2>1, <2>2 DEF SendSafe, NoSendOnClosed
<1>4. ASSUME NEW p \in Requests, NEW s \in Subscribers, Offer(p, s)
      PROVE  SendSafe'
  <2>1. /\ \A q \in Requests \ {p} : req'[q] = req[q]
        /\ req'[p].todo = req[p].todo \ {s}
        /\ req'[p].pc = "broadcast"
    BY <1>a, <1>4 DEF Offer, RequestState
  <2> QED
    BY <1>4, <2>1, SafeRequest DEF Offer
<1>5. ASSUME NEW p \in Requests, Signal(p)
      PROVE  SendSafe'
  <2>1. req' = [req EXCEPT ![p] = IdleRequest]
    BY <1>5 DEF Signal
  <2>2. /\ \A q \in Requests \ {p} : req'[q] = req[q]
        /\ req'[p].todo = {}
    BY <1>a, <2>1 DEF IdleRequest
  <2> QED
    BY <1>5, <2>2, SafeRequest DEF Signal, subVars
<1>6. CASE SelectTick \/ SelectFlush \/ SelectDone
  BY <1>6, SafeKept DEF SelectTick, SelectFlush, SelectDone, subVars
<1>7. CASE Swap \/ InsertOk \/ InsertFail
  <2>1. hist'.closedCh = hist.closedCh
    BY <1>a, <1>7 DEF Swap, InsertOk, InsertFail, History
  <2> QED
    BY <1>7, <2>1, SafeKept DEF Swap, InsertOk, InsertFail, subVars
<1>8. ASSUME NEW s \in Subscribers, Subscribe(s)
      PROVE  SendSafe'
  BY <1>8 DEF Subscribe, SendSafe, NoSendOnClosed
<1>9. ASSUME NEW s \in Subscribers, Receive(s)
      PROVE  SendSafe'
  BY <1>9, SafeKept DEF Receive
<1>10. ASSUME NEW s \in Subscribers, Cancel(s)
       PROVE  SendSafe'
  <2>1. hist'.closedCh = hist.closedCh \cup {s}
    BY <1>a, <1>10 DEF Cancel, History
  <2>2. \A p \in Requests : req[p].todo = {}
    BY <1>10 DEF Cancel, NoBroadcast, SendSafe
  <2> QED
    BY <1>10, <2>1, <2>2 DEF Cancel, SendSafe, NoSendOnClosed
<1>11. CASE BeginShutdown \/ CloseDone \/ CloseReturn
  <2>1. hist'.closedCh = hist.closedCh
    BY <1>a, <1>11 DEF BeginShutdown, CloseDone, CloseReturn, History
  <2> QED
    BY <1>11, <2>1, SafeKept DEF BeginShutdown, CloseDone, CloseReturn, subVars
<1>12. CASE UNCHANGED vars
  BY <1>12, SafeKept DEF vars
<1> QED
  BY <1>1, <1>2, <1>3, <1>4, <1>5, <1>6, <1>7, <1>8, <1>9, <1>10, <1>11, <1>12 DEF Next

(* No broadcast sends on a channel that a cancel has closed (broadcast and *)
(* the function Subscribe returns).                                        *)
THEOREM ClosedChannelsAreSafe == Spec => []NoSendOnClosed
<1>1. Init => SendSafe
  BY DEF Init, SendSafe, NoSendOnClosed, IdleRequest
<1>2. SendSafe => NoSendOnClosed
  BY DEF SendSafe
<1> QED
  BY InitType, NextType, <1>1, NextSafe, <1>2, PTL DEF Spec
-----------------------------------------------------------------------------
(* Where the records are.  The flusher's batch is older than the buffer,   *)
(* and what the queue dropped is older than the buffer too; within each,   *)
(* records are in order of submission.                                     *)
Increasing(s) == \A i, j \in 1..Len(s) : i < j => s[i] < s[j]
Before(S, s) == \A r \in S : \A i \in 1..Len(s) : r < s[i]

Records ==
  /\ \A i \in 1..Len(buffer) : buffer[i] <= hist.written
  /\ \A r \in ToSet(flusher.batch) \cup hist.dropped : r <= hist.written
  /\ Increasing(buffer)
  /\ Increasing(flusher.batch)
  /\ Before(ToSet(flusher.batch), buffer)
  /\ Before(hist.dropped, buffer)
  /\ flusher.pc # "insert" => flusher.batch = <<>>

(* What the queue gave up is counted, and it keeps within its capacity.    *)
Counted ==
  /\ queueCapacity > 0 => Len(buffer) <= queueCapacity
  /\ IsFiniteSet(hist.dropped)
  /\ hist.warned + droppedCount = Cardinality(hist.dropped)

(* The final flush comes after Close, and what it leaves came later still. *)
Closing ==
  /\ hist.beforeClose <= hist.written
  /\ flusher.final => srv \in {"closing", "closed"}
  /\ flusher.pc = "exited" => flusher.final
  /\ srv = "closed" => flusher.pc = "exited"
  /\ flusher.final /\ flusher.pc \in {"insert", "exited"} =>
       \A i \in 1..Len(buffer) : buffer[i] > hist.beforeClose

(* Every element of a sequence has a place, and every place an element.    *)
LEMMA Elements ==
  ASSUME NEW s \in Seq(Nat)
  PROVE  /\ ToSet(s) = {s[i] : i \in 1..Len(s)}
         /\ \A i \in 1..Len(s) : s[i] \in Nat
         /\ Len(s) \in Nat
  BY LenProperties DEF ToSet

LEMMA NoElements == ToSet(<<>>) = {} /\ Len(<<>>) = 0
<1>1. <<>> \in Seq(Nat) /\ Len(<<>>) = 0
  BY EmptySeq
<1>2. ToSet(<<>>) = {<<>>[i] : i \in 1..Len(<<>>)}
  BY <1>1, Elements
<1>. QED BY <1>1, <1>2

(* The n oldest records of a queue.                                        *)
LEMMA Oldest ==
  ASSUME NEW s \in Seq(Nat), NEW n \in 0..Len(s), Increasing(s)
  PROVE  /\ ToSet(SubSeq(s, 1, n)) = {s[i] : i \in 1..n}
         /\ IsFiniteSet({s[i] : i \in 1..n})
         /\ Cardinality({s[i] : i \in 1..n}) = n
<1>. DEFINE T == {s[i] : i \in 1..n}
            f == [i \in 1..n |-> s[i]]
<1>1. Len(s) \in Nat /\ \A i \in 1..Len(s) : s[i] \in Nat
  BY Elements
<1>2. /\ SubSeq(s, 1, n) \in Seq(Nat)
      /\ Len(SubSeq(s, 1, n)) = n
      /\ \A i \in 1..n : SubSeq(s, 1, n)[i] = s[i]
  <2>1. \A i \in 1..n : s[i] \in Nat
    BY <1>1
  <2>2. /\ SubSeq(s, 1, n) \in Seq(Nat)
        /\ Len(SubSeq(s, 1, n)) = IF 1 <= n THEN n - 1 + 1 ELSE 0
        /\ \A i \in 1..n - 1 + 1 : SubSeq(s, 1, n)[i] = s[1 + i - 1]
    BY <1>1, <2>1, SubSeqProperties
  <2>. QED BY <1>1, <2>2
<1>3. ToSet(SubSeq(s, 1, n)) = T
  <2>. DEFINE u == SubSeq(s, 1, n)
  <2>1. ToSet(u) = {u[i] : i \in 1..Len(u)}
    BY <1>2, Elements
  <2>2. Len(u) = n /\ \A i \in 1..n : u[i] = s[i]
    BY <1>2
  <2>. HIDE DEF u
  <2>3. {u[i] : i \in 1..Len(u)} = T
    BY <2>2
  <2>. QED BY <2>1, <2>3 DEF u
<1>4. f \in Bijection(1..n, T)
  <2>1. f \in [1..n -> T] /\ \A t \in T : \E i \in 1..n : f[i] = t
    OBVIOUS
  <2>2. \A i, j \in 1..n : f[i] = f[j] => i = j
    <3>1. ASSUME NEW i \in 1..n, NEW j \in 1..n, i < j PROVE f[i] < f[j]
      BY <1>1, <3>1 DEF Increasing
    <3>. QED BY <1>1, <3>1
  <2>. QED BY <2>1, <2>2 DEF Bijection, Injection, Surjection, IsInjective
<1>5. IsFiniteSet(1..n) /\ Cardinality(1..n) = n
  BY <1>1, FS_Interval
<1>6. IsFiniteSet(T) /\ Cardinality(T) = n
  BY <1>4, <1>5, FS_Bijection DEF ExistsBijection
<1>. QED BY <1>3, <1>6

(* What is left of a queue without its n oldest records, with a new one.   *)
LEMMA Newest ==
  ASSUME NEW s \in Seq(Nat), NEW n \in 0..Len(s), NEW rec \in Nat,
         NEW t, t = Append(SubSeq(s, n + 1, Len(s)), rec)
  PROVE  /\ t \in Seq(Nat) /\ Len(t) = Len(s) - n + 1
         /\ \A i \in 1..Len(s) - n : t[i] = s[n + i]
         /\ t[Len(s) - n + 1] = rec
<1>1. Len(s) \in Nat /\ \A i \in 1..Len(s) : s[i] \in Nat
  BY Elements
<1>. DEFINE u == SubSeq(s, n + 1, Len(s))
<1>2. u \in Seq(Nat) /\ Len(u) = Len(s) - n /\ \A i \in 1..Len(s) - n : u[i] = s[n + i]
  <2>1. n + 1 \in Int /\ \A i \in n + 1..Len(s) : s[i] \in Nat
    BY <1>1
  <2>2. /\ u \in Seq(Nat)
        /\ Len(u) = IF n + 1 <= Len(s) THEN Len(s) - (n + 1) + 1 ELSE 0
        /\ \A i \in 1..Len(s) - (n + 1) + 1 : u[i] = s[(n + 1) + i - 1]
    BY <1>1, <2>1, SubSeqProperties
  <2>. QED BY <1>1, <2>2
<1>. HIDE DEF u
<1>3. /\ Append(u, rec) \in Seq(Nat) /\ Len(Append(u, rec)) = Len(u) + 1
      /\ \A i \in 1..Len(u) : Append(u, rec)[i] = u[i]
      /\ Append(u, rec)[Len(u) + 1] = rec
  <2>1. u \in Seq(Nat) /\ rec \in Nat
    BY <1>2
  <2>. QED BY <2>1, AppendProperties
<1>. QED BY <1>1, <1>2, <1>3 DEF u

(* What a queue without its n oldest records has no longer.                *)
LEMMA Withdrawn ==
  ASSUME NEW s \in Seq(Nat), Increasing(s), NEW n \in 0..Len(s)
  PROVE  ToSet(s) \ ToSet(SubSeq(s, n + 1, Len(s))) = {s[i] : i \in 1..n}
<1>1. Len(s) \in Nat /\ \A i \in 1..Len(s) : s[i] \in Nat
  BY Elements
<1>. DEFINE u == SubSeq(s, n + 1, Len(s))
<1>2. u \in Seq(Nat) /\ Len(u) = Len(s) - n /\ \A i \in 1..Len(s) - n : u[i] = s[n + i]
  <2>1. n + 1 \in Int /\ \A i \in n + 1..Len(s) : s[i] \in Nat
    BY <1>1
  <2>2. /\ u \in Seq(Nat)
        /\ Len(u) = IF n + 1 <= Len(s) THEN Len(s) - (n + 1) + 1 ELSE 0
        /\ \A i \in 1..Len(s) - (n + 1) + 1 : u[i] = s[(n + 1) + i - 1]
    BY <1>1, <2>1, SubSeqProperties
  <2>. QED BY <1>1, <2>2
<1>. HIDE DEF u
<1>3. ToSet(u) = {s[i] : i \in n + 1..Len(s)}
  <2>1. ToSet(u) = {u[i] : i \in 1..Len(u)}
    BY <1>2, Elements
  <2>2. \A i \in n + 1..Len(s) : i - n \in 1..Len(s) - n /\ u[i - n] = s[i]
    BY <1>1, <1>2
  <2>3. \A i \in 1..Len(u) : n + i \in n + 1..Len(s) /\ u[i] = s[n + i]
    BY <1>1, <1>2
  <2>4. \A i \in n + 1..Len(s) : i - n \in 1..Len(u)
    BY <1>1, <1>2
  <2>5. ASSUME NEW x \in {u[i] : i \in 1..Len(u)} PROVE x \in {s[i] : i \in n + 1..Len(s)}
    BY <2>3
  <2>6. ASSUME NEW x \in {s[i] : i \in n + 1..Len(s)} PROVE x \in {u[i] : i \in 1..Len(u)}
    <3>1. PICK i \in n + 1..Len(s) : x = s[i]
      OBVIOUS
    <3>. QED BY <3>1, <2>2, <2>4
  <2>. QED BY <2>1, <2>5, <2>6
<1>4. ToSet(s) = {s[i] : i \in 1..Len(s)}
  BY Elements
<1>5. \A i \in 1..n, j \in n + 1..Len(s) : s[i] # s[j]
  <2>1. ASSUME NEW i \in 1..n, NEW j \in n + 1..Len(s) PROVE s[i] < s[j]
    BY <1>1 DEF Increasing
  <2>. QED BY <1>1, <2>1
<1>6. \A i \in 1..Len(s) : i \in 1..n \/ i \in n + 1..Len(s)
  BY <1>1
<1>7. \A i \in 1..n : i \in 1..Len(s)
  BY <1>1
<1>8. ToSet(s) \ ToSet(u) = {s[i] : i \in 1..n}
  BY <1>3, <1>4, <1>5, <1>6, <1>7, Zenon
<1>. QED BY <1>8 DEF u

(* What Enqueue makes of the queue.                                        *)
LEMMA EnqueueEffect ==
  ASSUME TypeOK, Records, NEW p \in Requests, Enqueue(p)
  PROVE  /\ Overflow \in 0..Len(buffer) /\ Len(buffer) \in Nat /\ hist.written \in Nat
         /\ \A i \in 1..Len(buffer) : buffer[i] \in Nat
         /\ buffer' \in Seq(Nat) /\ Len(buffer') = Len(buffer) - Overflow + 1
         /\ \A i \in 1..Len(buffer) - Overflow : buffer'[i] = buffer[Overflow + i]
         /\ buffer'[Len(buffer) - Overflow + 1] = hist.written + 1
         /\ hist'.written = hist.written + 1
         /\ hist'.dropped = hist.dropped \cup {buffer[i] : i \in 1..Overflow}
         /\ UNCHANGED <<srv, flusher, hist.warned, hist.stored, hist.failed, hist.beforeClose>>
<1>1. /\ buffer \in Seq(Nat) /\ Overflow \in 0..Len(buffer)
      /\ hist \in History /\ hist.written \in Nat /\ hist.written + 1 \in Nat
      /\ Increasing(buffer)
  BY OverflowType DEF TypeOK, History, Records
<1>2. Len(buffer) \in Nat /\ \A i \in 1..Len(buffer) : buffer[i] \in Nat
  BY <1>1, Elements
<1>3. ToSet(buffer) \ ToSet(Kept) = {buffer[i] : i \in 1..Overflow}
  BY <1>1, Withdrawn DEF Kept
<1>4. buffer' = Append(SubSeq(buffer, Overflow + 1, Len(buffer)), hist.written + 1)
  BY DEF Enqueue, Kept
<1>5. /\ buffer' \in Seq(Nat) /\ Len(buffer') = Len(buffer) - Overflow + 1
      /\ \A i \in 1..Len(buffer) - Overflow : buffer'[i] = buffer[Overflow + i]
      /\ buffer'[Len(buffer) - Overflow + 1] = hist.written + 1
  BY <1>1, <1>4, Newest
<1>6. hist' = [hist EXCEPT !.written = hist.written + 1,
                 !.dropped = hist.dropped \cup (ToSet(buffer) \ ToSet(Kept))]
  BY DEF Enqueue
<1>7. /\ hist'.written = hist.written + 1
      /\ hist'.dropped = hist.dropped \cup (ToSet(buffer) \ ToSet(Kept))
      /\ UNCHANGED <<hist.warned, hist.stored, hist.failed, hist.beforeClose>>
  BY <1>1, <1>6 DEF History
<1>. QED
  BY <1>1, <1>2, <1>3, <1>5, <1>7 DEF Enqueue

(* The steps that move no record.                                          *)
Elsewhere ==
  \/ \E p \in Requests : \/ StartRequest(p) \/ BeginBroadcast(p)
                         \/ \E s \in Subscribers : Offer(p, s)
                         \/ EndBroadcast(p) \/ Signal(p)
  \/ SelectTick \/ SelectFlush \/ SelectDone
  \/ \E s \in Subscribers : Subscribe(s) \/ Receive(s) \/ Cancel(s)
  \/ BeginShutdown \/ CloseDone \/ CloseReturn
  \/ UNCHANGED vars

LEMMA ElsewhereEffect ==
  ASSUME TypeOK, Elsewhere
  PROVE  /\ UNCHANGED <<buffer, droppedCount, queueCapacity, flusher.batch>>
         /\ UNCHANGED <<hist.written, hist.stored, hist.failed, hist.dropped, hist.warned>>
         /\ flusher'.pc = "insert" <=> flusher.pc = "insert"
<1>1. hist \in History /\ flusher \in FlusherState
  BY DEF TypeOK
<1>2. CASE SelectTick \/ SelectFlush \/ SelectDone
  BY <1>1, <1>2 DEF SelectTick, SelectFlush, SelectDone, queueVars, FlusherState
<1>3. CASE \E s \in Subscribers : Subscribe(s) \/ Receive(s) \/ Cancel(s)
  BY <1>1, <1>3 DEF Subscribe, Receive, Cancel, queueVars, History
<1>4. CASE BeginShutdown \/ CloseDone \/ CloseReturn
  BY <1>1, <1>4 DEF BeginShutdown, CloseDone, CloseReturn, queueVars, History
<1>5. CASE \/ \E p \in Requests : \/ StartRequest(p) \/ BeginBroadcast(p)
                                  \/ \E s \in Subscribers : Offer(p, s)
                                  \/ EndBroadcast(p) \/ Signal(p)
           \/ UNCHANGED vars
  BY <1>5 DEF StartRequest, BeginBroadcast, Offer, EndBroadcast, Signal, queueVars, vars
<1>. QED
  BY <1>2, <1>3, <1>4, <1>5 DEF Elsewhere

LEMMA NextCases ==
  ASSUME [Next]_vars
  PROVE  Elsewhere \/ (\E p \in Requests : Enqueue(p)) \/ Swap \/ InsertOk \/ InsertFail
  BY DEF Next, Elsewhere

(* What a flush does to the records.                                       *)
LEMMA FlushEffect ==
  ASSUME TypeOK, Swap \/ InsertOk \/ InsertFail
  PROVE  /\ Swap => /\ flusher'.batch = buffer /\ buffer' = <<>> /\ droppedCount' = 0
                    /\ flusher'.pc = IF buffer = <<>> THEN AfterFlush ELSE "insert"
                    /\ UNCHANGED <<hist.stored, hist.failed>>
                    /\ hist'.warned = hist.warned + droppedCount
         /\ ~Swap => /\ flusher'.batch = <<>> /\ flusher'.pc = AfterFlush
                     /\ UNCHANGED <<buffer, droppedCount, hist.warned>>
         /\ InsertOk => /\ hist'.stored = hist.stored \o flusher.batch
                        /\ UNCHANGED hist.failed
         /\ InsertFail => /\ hist'.failed = hist.failed \cup ToSet(flusher.batch)
                          /\ UNCHANGED hist.stored
         /\ flusher'.final = flusher.final
         /\ UNCHANGED <<srv, queueCapacity, hist.written, hist.dropped, hist.beforeClose>>
<1>1. hist \in History /\ flusher \in FlusherState
  BY DEF TypeOK
<1>2. CASE Swap
  BY <1>1, <1>2 DEF Swap, InsertOk, InsertFail, FlusherState, History
<1>3. CASE InsertOk
  BY <1>1, <1>3 DEF Swap, InsertOk, InsertFail, FlusherState, History, queueVars
<1>4. CASE InsertFail
  <2>1. flusher.pc = "insert" /\ ~Swap
    BY <1>4 DEF InsertFail, Swap
  <2>2. flusher'.batch = <<>> /\ flusher'.pc = AfterFlush /\ flusher'.final = flusher.final
    BY <1>1, <1>4 DEF InsertFail, FlusherState
  <2>3. /\ hist'.failed = hist.failed \cup ToSet(flusher.batch)
        /\ UNCHANGED <<hist.stored, hist.written, hist.dropped, hist.beforeClose, hist.warned>>
    BY <1>1, <1>4 DEF InsertFail, History
  <2>4. InsertOk => hist'.stored = hist.stored \o flusher.batch /\ hist'.failed = hist.failed
    BY <1>1 DEF InsertOk, History
  <2>. QED BY <1>4, <2>1, <2>2, <2>3, <2>4 DEF InsertFail, queueVars
<1>. QED BY <1>2, <1>3, <1>4
-----------------------------------------------------------------------------
LEMMA EnqueueRecords ==
  ASSUME TypeOK, Records, NEW p \in Requests, Enqueue(p)
  PROVE  Records'
<1>. DEFINE n == Overflow
            w == hist.written
<1>1. /\ n \in 0..Len(buffer) /\ Len(buffer) \in Nat /\ w \in Nat
      /\ \A i \in 1..Len(buffer) : buffer[i] \in Nat /\ buffer[i] <= w
      /\ Len(buffer') = Len(buffer) - n + 1
      /\ \A i \in 1..Len(buffer) - n : buffer'[i] = buffer[n + i]
      /\ buffer'[Len(buffer) - n + 1] = w + 1
      /\ hist'.written = w + 1
      /\ hist'.dropped = hist.dropped \cup {buffer[i] : i \in 1..n}
      /\ flusher' = flusher
  BY EnqueueEffect DEF Records
<1>. HIDE DEF n, w
<1>2. \A i \in 1..Len(buffer') :
        \/ i \in 1..Len(buffer) - n /\ n + i \in 1..Len(buffer) /\ buffer'[i] = buffer[n + i]
        \/ i = Len(buffer) - n + 1 /\ buffer'[i] = w + 1
  BY <1>1
<1>3. \A i \in 1..Len(buffer') : buffer'[i] <= w + 1
  BY <1>1, <1>2, SMTT(30)
<1>4. Increasing(buffer')
  <2>1. ASSUME NEW i \in 1..Len(buffer'), NEW j \in 1..Len(buffer'), i < j
        PROVE  buffer'[i] < buffer'[j]
    <3>1. i \in 1..Len(buffer) - n /\ n + i \in 1..Len(buffer) /\ buffer'[i] = buffer[n + i]
      BY <1>1, <2>1, SMTT(30)
    <3>2. CASE j = Len(buffer) - n + 1
      BY <1>1, <3>1, <3>2
    <3>3. CASE j \in 1..Len(buffer) - n
      <4>1. n + j \in 1..Len(buffer) /\ n + i < n + j /\ buffer'[j] = buffer[n + j]
        BY <1>1, <2>1, <3>3
      <4>2. Increasing(buffer)
        BY DEF Records
      <4>3. buffer[n + i] < buffer[n + j]
        BY <3>1, <4>1, <4>2 DEF Increasing
      <4>. QED BY <3>1, <4>1, <4>3
    <3>4. j \in 1..Len(buffer) - n \/ j = Len(buffer) - n + 1
      BY <1>1
    <3>. QED BY <3>2, <3>3, <3>4
  <2>. QED BY <2>1 DEF Increasing
<1>5. ASSUME NEW S \in SUBSET Nat, Before(S, buffer), \A r \in S : r <= w
      PROVE  Before(S, buffer') /\ \A r \in S : r <= w + 1
  <2>1. ASSUME NEW r \in S, NEW i \in 1..Len(buffer') PROVE r < buffer'[i]
    <3>1. r \in Nat /\ r <= w /\ \A j \in 1..Len(buffer) : r < buffer[j]
      BY <1>5 DEF Before
    <3>. QED BY <1>1, <1>2, <3>1
  <2>2. \A r \in S : r <= w + 1
    BY <1>1, <1>5
  <2>. QED BY <2>1, <2>2 DEF Before
<1>6. /\ ToSet(flusher.batch) \in SUBSET Nat /\ Before(ToSet(flusher.batch), buffer)
      /\ \A r \in ToSet(flusher.batch) : r <= w
  BY ToSetType DEF TypeOK, FlusherState, Records, w
<1>7. /\ hist.dropped \in SUBSET Nat /\ Before(hist.dropped, buffer)
      /\ \A r \in hist.dropped : r <= w
  BY DEF TypeOK, History, Records, w
<1>8. /\ Before({buffer[i] : i \in 1..n}, buffer')
      /\ \A i \in 1..n : buffer[i] <= w + 1
  <2>1. ASSUME NEW i \in 1..n, NEW j \in 1..Len(buffer') PROVE buffer[i] < buffer'[j]
    <3>1. i \in 1..Len(buffer) /\ buffer[i] \in Nat /\ buffer[i] <= w
      BY <1>1
    <3>2. CASE j \in 1..Len(buffer) - n /\ n + j \in 1..Len(buffer) /\ buffer'[j] = buffer[n + j]
      <4>1. i < n + j
        BY <1>1, <3>2
      <4>. QED BY <3>1, <3>2, <4>1 DEF Records, Increasing
    <3>3. CASE buffer'[j] = w + 1
      BY <1>1, <3>1, <3>3
    <3>. QED BY <1>2, <3>2, <3>3
  <2>. QED BY <1>1, <2>1 DEF Before
<1>9. Before(hist'.dropped, buffer') /\ \A r \in hist'.dropped : r <= w + 1
  <2>1. Before(hist.dropped, buffer') /\ \A r \in hist.dropped : r <= w + 1
    BY <1>5, <1>7
  <2>2. hist'.dropped = hist.dropped \cup {buffer[i] : i \in 1..n}
    BY <1>1
  <2>. QED BY <1>8, <2>1, <2>2 DEF Before
<1>10. Before(ToSet(flusher'.batch), buffer') /\ \A r \in ToSet(flusher'.batch) : r <= w + 1
  BY <1>1, <1>5, <1>6
<1>. QED
  BY <1>1, <1>3, <1>4, <1>9, <1>10 DEF Records

LEMMA RecordsStep ==
  ASSUME TypeOK, Records, [Next]_vars
  PROVE  Records'
<1>1. CASE Elsewhere
  BY <1>1, ElsewhereEffect DEF Records
<1>2. ASSUME NEW p \in Requests, Enqueue(p) PROVE Records'
  BY <1>2, EnqueueRecords
<1>3. CASE Swap
  <2>1. /\ flusher'.batch = buffer /\ buffer' = <<>>
        /\ hist'.written = hist.written /\ hist'.dropped = hist.dropped
        /\ flusher'.pc = IF buffer = <<>> THEN AfterFlush ELSE "insert"
    BY <1>3, FlushEffect
  <2>2. ToSet(buffer) = {buffer[i] : i \in 1..Len(buffer)}
    BY Elements DEF TypeOK
  <2>3. \A r \in ToSet(flusher'.batch) \cup hist'.dropped : r <= hist'.written
    BY <2>1, <2>2 DEF Records
  <2>4. Len(buffer') = 0
    BY <2>1, NoElements
  <2>5. Increasing(buffer') /\ \A S : Before(S, buffer')
    BY <2>4 DEF Increasing, Before
  <2>6. \A i \in 1..Len(buffer') : buffer'[i] <= hist'.written
    BY <2>4
  <2>. QED BY <2>1, <2>3, <2>5, <2>6 DEF Records
<1>4. CASE InsertOk \/ InsertFail
  <2>1. /\ flusher'.batch = <<>> /\ buffer' = buffer
        /\ hist'.written = hist.written /\ hist'.dropped = hist.dropped
    BY <1>4, FlushEffect DEF Swap, InsertOk, InsertFail
  <2>2. ToSet(flusher'.batch) = {} /\ Len(flusher'.batch) = 0
    BY <2>1, NoElements
  <2>. QED BY <2>1, <2>2 DEF Records, Increasing, Before
<1>. QED
  BY <1>1, <1>2, <1>3, <1>4, NextCases

LEMMA InitRecords == Init => Records /\ Counted /\ Closing
<1>. SUFFICES ASSUME Init PROVE Records /\ Counted /\ Closing
  OBVIOUS
<1>1. Len(buffer) = 0 /\ Len(flusher.batch) = 0 /\ ToSet(flusher.batch) = {}
  BY NoElements DEF Init
<1>2. Records
  BY <1>1 DEF Init, Records, Increasing, Before
<1>3. Counted
  BY <1>1, FS_EmptySet, WriterAssumption DEF Init, Counted
<1>4. Closing
  BY DEF Init, Closing
<1>. QED BY <1>2, <1>3, <1>4

(* A full queue gives up its oldest records, and counts them.              *)
LEMMA CountedStep ==
  ASSUME TypeOK, Records, Counted, [Next]_vars
  PROVE  Counted'
<1>1. CASE Elsewhere
  BY <1>1, ElsewhereEffect DEF Counted
<1>2. ASSUME NEW p \in Requests, Enqueue(p) PROVE Counted'
  <2> DEFINE gone == {buffer[i] : i \in 1..Overflow}
  <2>1. /\ Overflow \in 0..Len(buffer) /\ Len(buffer) \in Nat
        /\ Len(buffer') = Len(buffer) - Overflow + 1
        /\ hist'.dropped = hist.dropped \cup gone
        /\ hist'.warned = hist.warned
        /\ \A i \in 1..Len(buffer) : buffer[i] \in Nat
    BY <1>2, EnqueueEffect
  <2>2. droppedCount' = droppedCount + Overflow /\ queueCapacity' = queueCapacity
    BY <1>2 DEF Enqueue
  <2>3. IsFiniteSet(gone) /\ Cardinality(gone) = Overflow
    BY <2>1, Oldest DEF TypeOK, Records
  <2>4. hist.dropped \cap gone = {}
    <3>1. ASSUME NEW r \in hist.dropped, NEW i \in 1..Overflow PROVE r # buffer[i]
      <4>1. i \in 1..Len(buffer) /\ r \in Nat
        BY <2>1 DEF TypeOK, History
      <4>. QED BY <2>1, <4>1 DEF Records, Before
    <3>. QED BY <3>1
  <2>. HIDE DEF gone
  <2>5. /\ IsFiniteSet(hist.dropped \cup gone)
        /\ Cardinality(hist.dropped \cup gone) = Cardinality(hist.dropped) + Overflow
    <3>1. IsFiniteSet(hist.dropped) /\ Cardinality(hist.dropped) \in Nat
      BY FS_CardinalityType DEF Counted
    <3>2. Cardinality(hist.dropped \cup gone)
            = Cardinality(hist.dropped) + Cardinality(gone) - Cardinality({})
      BY <2>3, <2>4, <3>1, FS_Union
    <3>3. IsFiniteSet(hist.dropped \cup gone)
      BY <2>3, <3>1, FS_Union
    <3>. QED BY <2>1, <2>3, <3>1, <3>2, <3>3, FS_EmptySet
  <2>6. queueCapacity > 0 => Len(buffer') <= queueCapacity
    BY <2>1, <2>2, WriterAssumption DEF TypeOK, Counted, Overflow
  <2>7. hist.warned \in Nat /\ droppedCount \in Nat
    BY DEF TypeOK, History
  <2>. QED BY <2>1, <2>2, <2>5, <2>6, <2>7 DEF Counted
<1>3. CASE Swap
  <2>1. /\ Len(buffer') = 0 /\ droppedCount' = 0 /\ hist'.dropped = hist.dropped
        /\ queueCapacity' = queueCapacity /\ hist'.warned = hist.warned + droppedCount
    BY <1>3, FlushEffect, NoElements
  <2>2. hist.warned \in Nat /\ droppedCount \in Nat /\ queueCapacity \in Nat
    BY DEF TypeOK, History
  <2>. QED BY <2>1, <2>2 DEF Counted
<1>4. CASE InsertOk \/ InsertFail
  BY <1>4, FlushEffect DEF Swap, InsertOk, InsertFail, Counted
<1>. QED
  BY <1>1, <1>2, <1>3, <1>4, NextCases

(* The queue drops its oldest records only, within its capacity, and every *)
(* record it drops is counted until a flush warns about it (Write, flush). *)
THEOREM QueueDropsOldest == Spec => []DropsOldest
<1>1. TypeOK /\ Records /\ Counted => DropsOldest
  BY DEF Records, Before, Counted, DropsOldest
<1>. QED
  BY InitType, NextType, InitRecords, RecordsStep, CountedStep, <1>1, PTL DEF Spec
-----------------------------------------------------------------------------
(* Close happens before the final flush, which empties the buffer.         *)
LEMMA ClosingStep ==
  ASSUME TypeOK, Records, Closing, [Next]_vars
  PROVE  Closing'
<1>0. /\ hist \in History /\ flusher \in FlusherState /\ hist.written \in Nat
      /\ hist.beforeClose \in Nat
  BY DEF TypeOK, History
<1>1. ASSUME NEW p \in Requests, Enqueue(p) PROVE Closing'
  <2>1. /\ Overflow \in 0..Len(buffer) /\ Len(buffer) \in Nat
        /\ Len(buffer') = Len(buffer) - Overflow + 1
        /\ \A i \in 1..Len(buffer) - Overflow : buffer'[i] = buffer[Overflow + i]
        /\ buffer'[Len(buffer) - Overflow + 1] = hist.written + 1
        /\ hist'.written = hist.written + 1 /\ hist'.beforeClose = hist.beforeClose
        /\ flusher' = flusher /\ srv' = srv
    BY <1>1, EnqueueEffect
  <2>2. \A i \in 1..Len(buffer') :
          \/ i \in 1..Len(buffer) - Overflow /\ Overflow + i \in 1..Len(buffer)
               /\ buffer'[i] = buffer[Overflow + i]
          \/ i = Len(buffer) - Overflow + 1 /\ buffer'[i] = hist.written + 1
    BY <2>1
  <2>3. ASSUME flusher.final, flusher.pc \in {"insert", "exited"}, NEW i \in 1..Len(buffer')
        PROVE  buffer'[i] > hist.beforeClose
    <3>1. CASE i \in 1..Len(buffer) - Overflow /\ Overflow + i \in 1..Len(buffer)
                 /\ buffer'[i] = buffer[Overflow + i]
      BY <2>3, <3>1 DEF Closing
    <3>2. CASE buffer'[i] = hist.written + 1
      BY <1>0, <3>2 DEF Closing
    <3>. QED BY <2>2, <3>1, <3>2
  <2>. QED BY <1>0, <2>1, <2>3 DEF Closing
<1>2. CASE SelectTick \/ SelectFlush \/ SelectDone
  <2>1. /\ flusher.pc = "select" /\ flusher'.pc = "flush"
        /\ flusher'.final => flusher.final \/ srv = "closing"
        /\ UNCHANGED <<srv, buffer, hist>>
    BY <1>0, <1>2 DEF SelectTick, SelectFlush, SelectDone, queueVars, FlusherState
  <2>. QED BY <2>1 DEF Closing
<1>3. CASE Swap
  BY <1>0, <1>3, FlushEffect, NoElements DEF Swap, Closing, AfterFlush
<1>4. CASE InsertOk \/ InsertFail
  BY <1>0, <1>4, FlushEffect DEF Swap, InsertOk, InsertFail, Closing, AfterFlush
<1>5. CASE BeginShutdown \/ CloseReturn
  BY <1>5 DEF BeginShutdown, CloseReturn, queueVars, Closing
<1>6. CASE CloseDone
  BY <1>0, <1>6 DEF CloseDone, queueVars, History, Closing
<1>7. CASE \E s \in Subscribers : Subscribe(s) \/ Receive(s) \/ Cancel(s)
  BY <1>0, <1>7 DEF Subscribe, Receive, Cancel, queueVars, History, Closing
<1>8. CASE \/ \E p \in Requests : \/ StartRequest(p) \/ BeginBroadcast(p)
                                  \/ \E s \in Subscribers : Offer(p, s)
                                  \/ EndBroadcast(p) \/ Signal(p)
           \/ UNCHANGED vars
  BY <1>8 DEF StartRequest, BeginBroadcast, Offer, EndBroadcast, Signal, queueVars, vars, Closing
<1>. QED
  BY <1>1, <1>2, <1>3, <1>4, <1>5, <1>6, <1>7, <1>8 DEF Next

(* When Close has returned, nothing that was submitted before it was       *)
(* called is left in memory (Close, run).                                  *)
THEOREM CloseLeavesNothing == Spec => []NothingLeftBehind
<1>1. TypeOK /\ Records /\ Closing => NothingLeftBehind
  BY DEF Records, Closing, NothingLeftBehind
<1>. QED
  BY InitType, NextType, InitRecords, RecordsStep, ClosingStep, <1>1, PTL DEF Spec
-----------------------------------------------------------------------------
(* The refinement of LogPipeline, step by step.                            *)

LEMMA EnqueueSubmits ==
  ASSUME TypeOK, Records, NEW p \in Requests, Enqueue(p)
  PROVE  LP!Next
<1>. DEFINE gone == {buffer[i] : i \in 1..Overflow}
            older == ToSet(buffer) \cup ToSet(flusher.batch)
<1>1. /\ Overflow \in 0..Len(buffer) /\ Len(buffer) \in Nat /\ buffer \in Seq(Nat)
      /\ \A i \in 1..Len(buffer) : buffer[i] \in Nat
      /\ buffer' \in Seq(Nat) /\ Len(buffer') = Len(buffer) - Overflow + 1
      /\ \A i \in 1..Len(buffer) - Overflow : buffer'[i] = buffer[Overflow + i]
      /\ buffer'[Len(buffer) - Overflow + 1] = hist.written + 1
      /\ hist'.written = hist.written + 1
      /\ hist'.dropped = hist.dropped \cup gone
      /\ UNCHANGED <<flusher, hist.stored, hist.failed>>
  BY EnqueueEffect DEF TypeOK
<1>2. gone \subseteq ToSet(buffer)
  BY <1>1, Elements
<1>3. ToSet(buffer') = (ToSet(buffer) \ gone) \cup {hist.written + 1}
  <2>1. ToSet(buffer') = {buffer'[i] : i \in 1..Len(buffer) - Overflow + 1}
    BY <1>1, Elements
  <2>2. ToSet(buffer') = {buffer[i] : i \in Overflow + 1..Len(buffer)} \cup {hist.written + 1}
    <3>1. ASSUME NEW i \in 1..Len(buffer) - Overflow + 1
          PROVE  buffer'[i] \in {buffer[j] : j \in Overflow + 1..Len(buffer)}
                                  \cup {hist.written + 1}
      <4>1. CASE i \in 1..Len(buffer) - Overflow
        <5>1. Overflow + i \in Overflow + 1..Len(buffer) /\ buffer'[i] = buffer[Overflow + i]
          BY <1>1, <4>1, SMTT(30)
        <5>. QED BY <5>1
      <4>2. CASE i = Len(buffer) - Overflow + 1
        BY <1>1, <4>2
      <4>. QED BY <1>1, <4>1, <4>2
    <3>2. ASSUME NEW j \in Overflow + 1..Len(buffer)
          PROVE  buffer[j] \in {buffer'[i] : i \in 1..Len(buffer) - Overflow + 1}
      <4>1. /\ j - Overflow \in 1..Len(buffer) - Overflow
            /\ j - Overflow \in 1..Len(buffer) - Overflow + 1
            /\ Overflow + (j - Overflow) = j
        BY <1>1
      <4>2. buffer'[j - Overflow] = buffer[j]
        BY <1>1, <4>1
      <4>. QED BY <4>1, <4>2
    <3>3. hist.written + 1 \in {buffer'[i] : i \in 1..Len(buffer) - Overflow + 1}
      <4>1. Len(buffer) - Overflow + 1 \in 1..Len(buffer) - Overflow + 1
        BY <1>1
      <4>. QED BY <1>1, <4>1
    <3>. QED BY <2>1, <3>1, <3>2, <3>3
  <2>3. {buffer[i] : i \in Overflow + 1..Len(buffer)} = ToSet(buffer) \ gone
    <3>1. \A i \in 1..Overflow, j \in Overflow + 1..Len(buffer) : buffer[i] # buffer[j]
      <4>1. Increasing(buffer)
        BY DEF Records
      <4>2. ASSUME NEW i \in 1..Overflow, NEW j \in Overflow + 1..Len(buffer)
            PROVE  buffer[i] < buffer[j]
        <5>1. i \in 1..Len(buffer) /\ j \in 1..Len(buffer) /\ i < j
          BY <1>1
        <5>. QED BY <4>1, <5>1 DEF Increasing
      <4>3. \A i \in 1..Overflow, j \in Overflow + 1..Len(buffer) :
              buffer[i] \in Nat /\ buffer[j] \in Nat
        BY <1>1
      <4>. QED BY <4>2, <4>3
    <3>2. 1..Len(buffer) = 1..Overflow \cup Overflow + 1..Len(buffer)
      BY <1>1
    <3>3. ToSet(buffer) = {buffer[i] : i \in 1..Len(buffer)}
      BY <1>1, Elements
    <3>. QED BY <3>1, <3>2, <3>3
  <2>. QED BY <2>2, <2>3
<1>4. gone \cap ToSet(flusher.batch) = {}
  <2>1. ASSUME NEW i \in 1..Overflow, NEW r \in ToSet(flusher.batch) PROVE r # buffer[i]
    <3>1. i \in 1..Len(buffer) /\ r \in Nat
      BY <1>1, ToSetType DEF TypeOK, FlusherState
    <3>2. r < buffer[i] /\ buffer[i] \in Nat
      BY <1>1, <3>1 DEF Records, Before
    <3>. QED BY <3>1, <3>2
  <2>. QED BY <2>1
<1>. HIDE DEF gone
<1>5. ToSet(buffer') \cup ToSet(flusher'.batch) = (older \ gone) \cup {hist'.written}
  BY <1>1, <1>3, <1>4
<1>6. LP!Submit(gone)
  BY <1>1, <1>5 DEF LP!Submit
<1>7. gone \in SUBSET older
  BY <1>2
<1>. QED BY <1>6, <1>7 DEF LP!Next

(* What is appended to the stored records is found again at their end.     *)
LEMMA AppendedAtEnd ==
  ASSUME NEW s \in Seq(Nat), NEW t \in Seq(Nat)
  PROVE  SubSeq(s \o t, Len(s) + 1, Len(s \o t)) = t
<1>. DEFINE u == SubSeq(s \o t, Len(s) + 1, Len(s \o t))
<1>1. /\ s \o t \in Seq(Nat) /\ Len(s \o t) = Len(s) + Len(t)
      /\ \A i \in 1..Len(s) + Len(t) : (s \o t)[i] = IF i <= Len(s) THEN s[i]
                                                                 ELSE t[i - Len(s)]
  BY ConcatProperties
<1>2. Len(s) \in Nat /\ Len(t) \in Nat /\ \A i \in 1..Len(s \o t) : (s \o t)[i] \in Nat
  BY <1>1, Elements
<1>3. /\ u \in Seq(Nat)
      /\ Len(u) = IF Len(s) + 1 <= Len(s \o t) THEN Len(s \o t) - (Len(s) + 1) + 1 ELSE 0
      /\ \A i \in 1..Len(s \o t) - (Len(s) + 1) + 1 : u[i] = (s \o t)[(Len(s) + 1) + i - 1]
  <2>1. /\ Len(s) + 1 \in Int /\ Len(s \o t) \in Int
        /\ \A i \in Len(s) + 1..Len(s \o t) : (s \o t)[i] \in Nat
    BY <1>1, <1>2
  <2>. QED BY <2>1, SubSeqProperties
<1>. HIDE DEF u
<1>4. Len(u) = Len(t)
  BY <1>1, <1>2, <1>3
<1>5. \A i \in 1..Len(u) : u[i] = t[i]
  <2>1. ASSUME NEW i \in 1..Len(t) PROVE u[i] = t[i]
    <3>1. /\ Len(s) + i \in 1..Len(s) + Len(t) /\ ~(Len(s) + i <= Len(s))
          /\ (Len(s) + 1) + i - 1 = Len(s) + i /\ (Len(s) + i) - Len(s) = i
          /\ i \in 1..Len(s \o t) - (Len(s) + 1) + 1
      BY <1>1, <1>2
    <3>. QED BY <1>1, <1>3, <3>1
  <2>. QED BY <1>4, <2>1
<1>6. u = t
  BY <1>3, <1>4, <1>5, SeqEqual
<1>. QED BY <1>6 DEF u

LEMMA InsertStores ==
  ASSUME TypeOK, Records, InsertOk \/ InsertFail
  PROVE  LP!Next
<1>. DEFINE batch == ToSet(flusher.batch)
            older == ToSet(buffer) \cup batch
<1>1. /\ flusher'.batch = <<>> /\ buffer' = buffer
      /\ InsertOk => hist'.stored = hist.stored \o flusher.batch /\ hist'.failed = hist.failed
      /\ InsertFail => hist'.failed = hist.failed \cup batch /\ hist'.stored = hist.stored
      /\ hist'.written = hist.written /\ hist'.dropped = hist.dropped
  BY FlushEffect DEF Swap, InsertOk, InsertFail
<1>2. hist.stored \in Seq(Nat) /\ flusher.batch \in Seq(Nat) /\ buffer \in Seq(Nat)
  BY DEF TypeOK, History, FlusherState
<1>3. ASSUME NEW r \in batch, NEW o \in ToSet(buffer) PROVE r \in Nat /\ o \in Nat /\ r < o
  <2>1. PICK i \in 1..Len(buffer) : o = buffer[i]
    BY <1>2, Elements
  <2>. QED BY <1>2, <2>1, ToSetType DEF Records, Before
<1>4. ToSet(buffer) \cap batch = {}
  <2>1. \A r \in batch, o \in ToSet(buffer) : r # o
    BY <1>3
  <2>. QED BY <2>1
<1>5. ToSet(flusher'.batch) = {}
  BY <1>1, NoElements
<1>6. ToSet(buffer') \cup ToSet(flusher'.batch) = older \ batch
  BY <1>1, <1>4, <1>5
<1>7. batch \in SUBSET older
  OBVIOUS
<1>8. CASE InsertOk
  <2>1. LP!Added = flusher.batch
    BY <1>1, <1>2, <1>8, AppendedAtEnd DEF LP!Added
  <2>2. LP!InOrder(flusher.batch, batch)
    <3>1. DOMAIN flusher.batch = 1..Len(flusher.batch)
      BY <1>2, LenProperties
    <3>2. Increasing(flusher.batch)
      BY DEF Records
    <3>3. \A i, j \in DOMAIN flusher.batch : i < j => flusher.batch[i] < flusher.batch[j]
      BY <3>1, <3>2 DEF Increasing
    <3>. QED BY <3>3 DEF LP!InOrder, LP!ToSet, ToSet
  <2>3. \A r \in batch, o \in older \ batch : r < o
    BY <1>3
  <2>4. hist'.stored = hist.stored \o LP!Added /\ LP!InOrder(LP!Added, batch)
    BY <1>1, <1>8, <2>1, <2>2
  <2>5. UNCHANGED <<hist.written, hist.failed \cup hist.dropped>>
    BY <1>1, <1>8
  <2>6. LP!Store(batch)
    BY <1>6, <2>3, <2>4, <2>5 DEF LP!Store
  <2>. QED BY <1>7, <2>6 DEF LP!Next
<1>9. CASE InsertFail
  <2>1. (hist.failed \cup hist.dropped)' = (hist.failed \cup hist.dropped) \cup batch
    BY <1>1, <1>9
  <2>2. UNCHANGED <<hist.written, hist.stored>>
    BY <1>1, <1>9
  <2>3. LP!GiveUp(batch)
    BY <1>6, <2>1, <2>2 DEF LP!GiveUp
  <2>. QED BY <1>7, <2>3 DEF LP!Next
<1>. QED BY <1>8, <1>9

LEMMA SwapStutters ==
  ASSUME TypeOK, Records, Swap
  PROVE  UNCHANGED LP!lpVars
<1>1. /\ flusher'.batch = buffer /\ buffer' = <<>> /\ flusher.batch = <<>>
      /\ UNCHANGED <<hist.written, hist.stored, hist.failed, hist.dropped>>
  BY FlushEffect DEF Swap, Records
<1>2. ToSet(<<>>) = {}
  BY NoElements
<1>3. ToSet(buffer') \cup ToSet(flusher'.batch) = ToSet(buffer) \cup ToSet(flusher.batch)
  BY <1>1, <1>2
<1>. QED BY <1>1, <1>3 DEF LP!lpVars

(* The log writer implements the abstract pipeline: records are stored at  *)
(* most once and in order of submission, and one that is not stored is     *)
(* pending, or lost and counted as lost; every step of the writer is a     *)
(* step of the pipeline or moves no record.                                *)
THEOREM WriterImplementsPipeline == Spec => ImplementsLogPipeline
<1>1. Init => LP!Init
  <2>. SUFFICES ASSUME Init PROVE LP!Init
    OBVIOUS
  <2>1. ToSet(buffer) = {} /\ ToSet(flusher.batch) = {}
    BY NoElements DEF Init
  <2>. QED BY <2>1 DEF Init, LP!Init
<1>2. TypeOK /\ Records /\ [Next]_vars => [LP!Next]_(LP!lpVars)
  <2>. SUFFICES ASSUME TypeOK, Records, [Next]_vars
                PROVE  LP!Next \/ UNCHANGED LP!lpVars
    OBVIOUS
  <2>1. CASE Elsewhere
    BY <2>1, ElsewhereEffect DEF LP!lpVars
  <2>. QED
    BY <2>1, EnqueueSubmits, SwapStutters, InsertStores, NextCases
<1>. QED
  BY <1>1, <1>2, InitType, NextType, InitRecords, RecordsStep, PTL
     DEF Spec, ImplementsLogPipeline, LP!Spec
=============================================================================
