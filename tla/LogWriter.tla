----------------------------- MODULE LogWriter -----------------------------
(***************************************************************************)
(* The asynchronous log writer (internal/logger): request goroutines       *)
(* submit records, one flusher goroutine writes them to the database in    *)
(* batches, live-log subscribers get copies, and the shutdown sequence of  *)
(* the program closes the writer while requests may still be in flight.    *)
(*                                                                         *)
(* A record is the number of its submission; its fields, sampling and      *)
(* masking, which happen before it reaches the queue, are left out.        *)
(***************************************************************************)
EXTENDS Integers, Sequences, FiniteSets, SequencesExt

CONSTANTS
  Requests,        \* proxied requests in flight at the same time
  Subscribers,     \* live-log streams
  QueueCapacities, \* what queueCapacity may be (0 = unlimited)
  FlushBatch,      \* flushBatch
  SubBuffer,       \* subBuffer: the capacity of a subscriber's channel
  MaxRecords       \* bound: records submitted in a behaviour

ASSUME WriterAssumption ==
  /\ QueueCapacities \subseteq Nat
  /\ FlushBatch \in Nat \ {0}
  /\ SubBuffer \in Nat
  /\ MaxRecords \in Nat

VARIABLES
  srv,          \* main: "serving", "draining" (Shutdown), "closing" (Close), "closed"
  req,          \* each request: where it is, its record, its needFlush, and
                \* the subscribers its broadcast has still to offer it to
  buffer,       \* Writer.buffer
  droppedCount, \* Writer.droppedCount
  queueCapacity, \* Writer.queueCapacity, which NewWriter sets
  flushCh,      \* a wake-up is in the channel of capacity one
  flusher,      \* the goroutine run: where it is, its batch, the final flush
  subscribers,  \* Writer.subscribers
  channel,      \* what is buffered in each subscriber's channel
  hist          \* history: what became of the records

vars == <<srv, req, buffer, droppedCount, queueCapacity, flushCh, flusher,
          subscribers, channel, hist>>

queueVars == <<buffer, droppedCount, queueCapacity>>
subVars == <<subscribers, channel>>

IdleRequest == [pc |-> "idle", rec |-> 0, needFlush |-> FALSE, todo |-> {}]

Init ==
  /\ srv = "serving"
  /\ req = [p \in Requests |-> IdleRequest]
  /\ buffer = <<>>
  /\ droppedCount = 0
  /\ queueCapacity \in QueueCapacities
  /\ flushCh = FALSE
  /\ flusher = [pc |-> "select", batch |-> <<>>, final |-> FALSE]
  /\ subscribers = {}
  /\ channel = [s \in Subscribers |-> <<>>]
  /\ hist = [written |-> 0, stored |-> <<>>, failed |-> {}, dropped |-> {},
             warned |-> 0, beforeClose |-> 0, closedCh |-> {}]
-----------------------------------------------------------------------------
(* A request and Writer.Write, which it calls at its end.                  *)

StartRequest(p) ==
  /\ srv = "serving"
  /\ req[p].pc = "idle"
  /\ req' = [req EXCEPT ![p].pc = "serving"]
  /\ UNCHANGED <<srv, queueVars, flushCh, flusher, subVars, hist>>

OverflowUnbounded ==
  IF queueCapacity > 0 /\ Len(buffer) >= queueCapacity THEN FlushBatch ELSE 0

(* How many of the oldest records a full queue gives up.                   *)
Overflow ==
  IF queueCapacity > 0 /\ Len(buffer) >= queueCapacity
  THEN IF FlushBatch > Len(buffer) THEN Len(buffer) ELSE FlushBatch
  ELSE 0

KeptOldest == SubSeq(buffer, 1, Len(buffer) - Overflow)

(* What a record finds in the queue once there is room for it.             *)
Kept == SubSeq(buffer, Overflow + 1, Len(buffer))

BatchFullLate(queue) == Len(queue) > FlushBatch
BatchFull(queue) == Len(queue) >= FlushBatch

(* The critical section: make room, append, see whether a batch is full.   *)
Enqueue(p) ==
  LET rec == hist.written + 1 IN
  /\ req[p].pc = "serving"
  /\ hist.written < MaxRecords
  /\ buffer' = Append(Kept, rec)
  /\ droppedCount' = droppedCount + Overflow
  /\ req' = [req EXCEPT ![p] = [pc |-> "appended", rec |-> rec,
                                needFlush |-> BatchFull(buffer'),
                                todo |-> {}]]
  /\ hist' = [hist EXCEPT !.written = rec,
                          !.dropped = @ \cup (ToSet(buffer) \ ToSet(Kept))]
  /\ UNCHANGED <<srv, queueCapacity, flushCh, flusher, subVars>>

(* broadcast takes the read lock and goes over the subscribers it finds.   *)
BeginBroadcast(p) ==
  /\ req[p].pc = "appended"
  /\ req' = [req EXCEPT ![p].pc = "broadcast", ![p].todo = subscribers]
  /\ UNCHANGED <<srv, queueVars, flushCh, flusher, subVars, hist>>

HasRoomForOneMore(s) == Len(channel[s]) <= SubBuffer
HasRoom(s) == Len(channel[s]) < SubBuffer

(* One subscriber's channel, in any order; a full channel misses the copy. *)
Offer(p, s) ==
  /\ req[p].pc = "broadcast"
  /\ s \in req[p].todo
  /\ req' = [req EXCEPT ![p].todo = @ \ {s}]
  /\ channel' = IF HasRoom(s)
                THEN [channel EXCEPT ![s] = Append(@, req[p].rec)]
                ELSE channel
  /\ UNCHANGED <<srv, queueVars, flushCh, flusher, subscribers, hist>>

EndBroadcast(p) ==
  /\ req[p].pc = "broadcast"
  /\ req[p].todo = {}
  /\ req' = [req EXCEPT ![p].pc = "signal"]
  /\ UNCHANGED <<srv, queueVars, flushCh, flusher, subVars, hist>>

(* The wake-up never blocks: one that is already in the channel will do.   *)
Signal(p) ==
  /\ req[p].pc = "signal"
  /\ flushCh' = (flushCh \/ req[p].needFlush)
  /\ req' = [req EXCEPT ![p] = IdleRequest]
  /\ UNCHANGED <<srv, queueVars, flusher, subVars, hist>>
-----------------------------------------------------------------------------
(* The flusher goroutine.                                                  *)

SelectTickWhenFull ==
  /\ flusher.pc = "select"
  /\ BatchFull(buffer)
  /\ flusher' = [flusher EXCEPT !.pc = "flush"]
  /\ UNCHANGED <<srv, req, queueVars, flushCh, subVars, hist>>

(* A tick may be waiting in ticker.C whenever the goroutine selects.       *)
SelectTick ==
  /\ flusher.pc = "select"
  /\ flusher' = [flusher EXCEPT !.pc = "flush"]
  /\ UNCHANGED <<srv, req, queueVars, flushCh, subVars, hist>>

SelectFlush ==
  /\ flusher.pc = "select"
  /\ flushCh
  /\ flushCh' = FALSE
  /\ flusher' = [flusher EXCEPT !.pc = "flush"]
  /\ UNCHANGED <<srv, req, queueVars, subVars, hist>>

SelectDoneAtOnce ==
  /\ flusher.pc = "select"
  /\ srv = "closing"
  /\ flusher' = [flusher EXCEPT !.pc = "exited", !.final = TRUE]
  /\ UNCHANGED <<srv, req, queueVars, flushCh, subVars, hist>>

SelectDone ==
  /\ flusher.pc = "select"
  /\ srv = "closing"
  /\ flusher' = [flusher EXCEPT !.pc = "flush", !.final = TRUE]
  /\ UNCHANGED <<srv, req, queueVars, flushCh, subVars, hist>>

AfterAnyFlush == "select"
AfterFlush == IF flusher.final THEN "exited" ELSE "select"

SwapKeeps ==
  /\ flusher.pc = "flush"
  /\ flusher' = [flusher EXCEPT !.pc = IF buffer = <<>> THEN AfterFlush ELSE "insert",
                                !.batch = buffer]
  /\ droppedCount' = 0
  /\ hist' = [hist EXCEPT !.warned = @ + droppedCount]
  /\ UNCHANGED <<srv, req, buffer, queueCapacity, flushCh, subVars>>

(* flush under the mutex: report what was dropped, take the whole buffer.  *)
Swap ==
  /\ flusher.pc = "flush"
  /\ flusher' = [flusher EXCEPT !.pc = IF buffer = <<>> THEN AfterFlush ELSE "insert",
                                !.batch = buffer]
  /\ buffer' = <<>>
  /\ droppedCount' = 0
  /\ hist' = [hist EXCEPT !.warned = @ + droppedCount]
  /\ UNCHANGED <<srv, req, queueCapacity, flushCh, subVars>>

(* InsertLogs commits the batch, or rolls it back and it is given up.      *)
InsertOk ==
  /\ flusher.pc = "insert"
  /\ flusher' = [flusher EXCEPT !.pc = AfterFlush, !.batch = <<>>]
  /\ hist' = [hist EXCEPT !.stored = @ \o flusher.batch]
  /\ UNCHANGED <<srv, req, queueVars, flushCh, subVars>>

InsertFail ==
  /\ flusher.pc = "insert"
  /\ flusher' = [flusher EXCEPT !.pc = AfterFlush, !.batch = <<>>]
  /\ hist' = [hist EXCEPT !.failed = @ \cup ToSet(flusher.batch)]
  /\ UNCHANGED <<srv, req, queueVars, flushCh, subVars>>
-----------------------------------------------------------------------------
(* Live-log streams.  Subscribe and its cancel function take the write     *)
(* lock: no broadcast is in the middle of its loop.                        *)

AnyTime == TRUE
NoBroadcast == \A p \in Requests : req[p].pc # "broadcast"

Subscribe(s) ==
  /\ s \notin subscribers \cup hist.closedCh
  /\ NoBroadcast
  /\ subscribers' = subscribers \cup {s}
  /\ UNCHANGED <<srv, req, queueVars, flushCh, flusher, channel, hist>>

Receive(s) ==
  /\ channel[s] # <<>>
  /\ channel' = [channel EXCEPT ![s] = Tail(@)]
  /\ UNCHANGED <<srv, req, queueVars, flushCh, flusher, subscribers, hist>>

Cancel(s) ==
  /\ s \in subscribers
  /\ NoBroadcast
  /\ subscribers' = subscribers \ {s}
  /\ channel' = [channel EXCEPT ![s] = <<>>]
  /\ hist' = [hist EXCEPT !.closedCh = @ \cup {s}]
  /\ UNCHANGED <<srv, req, queueVars, flushCh, flusher>>
-----------------------------------------------------------------------------
(* main: Shutdown closes the listener and waits for the requests, but no   *)
(* longer than ten seconds; then the deferred Close runs, and requests may *)
(* still be in flight.                                                     *)

BeginShutdown ==
  /\ srv = "serving"
  /\ srv' = "draining"
  /\ UNCHANGED <<req, queueVars, flushCh, flusher, subVars, hist>>

CloseDone ==
  /\ srv = "draining"
  /\ srv' = "closing"
  /\ hist' = [hist EXCEPT !.beforeClose = hist.written]
  /\ UNCHANGED <<req, queueVars, flushCh, flusher, subVars>>

CloseReturn ==
  /\ srv = "closing"
  /\ flusher.pc = "exited"
  /\ srv' = "closed"
  /\ UNCHANGED <<req, queueVars, flushCh, flusher, subVars, hist>>

Next ==
  \/ \E p \in Requests : \/ StartRequest(p)
                         \/ Enqueue(p)
                         \/ BeginBroadcast(p)
                         \/ \E s \in Subscribers : Offer(p, s)
                         \/ EndBroadcast(p)
                         \/ Signal(p)
  \/ SelectTick \/ SelectFlush \/ SelectDone
  \/ Swap
  \/ InsertOk \/ InsertFail
  \/ \E s \in Subscribers : Subscribe(s) \/ Receive(s) \/ Cancel(s)
  \/ BeginShutdown \/ CloseDone \/ CloseReturn

(* The ticker ticks, the goroutines run, a statement of InsertLogs ends    *)
(* within its 10 second context, and select picks among its ready cases at *)
(* random, so that none of them is passed over for ever.                   *)
Fairness ==
  /\ SF_vars(SelectTick)
  /\ SF_vars(SelectDone)
  /\ WF_vars(Swap)
  /\ WF_vars(InsertOk \/ InsertFail)
  /\ WF_vars(CloseReturn)

Spec == Init /\ [][Next]_vars /\ Fairness
-----------------------------------------------------------------------------
RequestState ==
  [pc : {"idle", "serving", "appended", "broadcast", "signal"},
   rec : Nat, needFlush : BOOLEAN, todo : SUBSET Subscribers]

FlusherState ==
  [pc : {"select", "flush", "insert", "exited"}, batch : Seq(Nat), final : BOOLEAN]

History ==
  [written : Nat, stored : Seq(Nat), failed : SUBSET Nat, dropped : SUBSET Nat,
   warned : Nat, beforeClose : Nat, closedCh : SUBSET Subscribers]

TypeOK ==
  /\ srv \in {"serving", "draining", "closing", "closed"}
  /\ req \in [Requests -> RequestState]
  /\ buffer \in Seq(Nat)
  /\ droppedCount \in Nat
  /\ queueCapacity \in Nat
  /\ flushCh \in BOOLEAN
  /\ flusher \in FlusherState
  /\ subscribers \subseteq Subscribers
  /\ channel \in [Subscribers -> Seq(Nat)]
  /\ \A s \in Subscribers : Len(channel[s]) <= SubBuffer
  /\ hist \in History

(* Every record goes through the queue like through LogPipeline: stored at *)
(* most once and in order of submission, or accounted for as lost; no step *)
(* of the writer loses, duplicates or reorders a record in any other way.  *)
LP == INSTANCE LogPipeline WITH
  submitted <- hist.written,
  pending <- ToSet(buffer) \cup ToSet(flusher.batch),
  stored <- hist.stored,
  lost <- hist.failed \cup hist.dropped

ImplementsLogPipeline == LP!Spec

(* A full batch never waits for the ticker: while a batch is in the        *)
(* buffer, a wake-up is in the channel, or on its way, or being served     *)
(* (Write's non-blocking send on a channel of capacity one loses no        *)
(* wake-up).                                                               *)
NoLostWakeup ==
  Len(buffer) >= FlushBatch /\ flusher.pc # "exited" =>
    \/ flushCh
    \/ flusher.pc = "flush"
    \/ \E p \in Requests : req[p].pc \in {"appended", "broadcast", "signal"}
                             /\ req[p].needFlush

(* No broadcast ever sends on a channel that a cancel has closed, which    *)
(* would crash the process (subMu; Subscribe's cancel function).           *)
NoSendOnClosed ==
  \A p \in Requests : req[p].todo \cap hist.closedCh = {}

(* The queue drops only its oldest records, keeps within its capacity, and *)
(* every record it drops is counted until the next flush warns about it    *)
(* (Write's comment: drop the oldest batch, keep the newer records).       *)
DropsOldest ==
  /\ queueCapacity > 0 => Len(buffer) <= queueCapacity
  /\ \A d \in hist.dropped : \A i \in 1..Len(buffer) : d < buffer[i]
  /\ hist.warned + droppedCount = Cardinality(hist.dropped)

(* Once Close has returned, no record that was submitted before Close was  *)
(* called is left in memory (Close's comment: flush the remaining records).*)
NothingLeftBehind ==
  srv = "closed" =>
    /\ flusher.batch = <<>>
    /\ \A i \in 1..Len(buffer) : buffer[i] > hist.beforeClose

(* A record in the buffer before the writer is closed leaves it: it is     *)
(* stored, or lost and accounted for.                                      *)
EventuallyFlushed ==
  \A r \in 1..MaxRecords :
    (r \in ToSet(buffer) /\ srv \in {"serving", "draining"})
      ~> (r \in ToSet(hist.stored) \cup hist.failed \cup hist.dropped)

(* Close returns.                                                          *)
CloseReturns == srv = "closing" ~> srv = "closed"
=============================================================================
