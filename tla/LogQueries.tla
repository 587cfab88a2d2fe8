----------------------------- MODULE LogQueries -----------------------------
(***************************************************************************)
(* Answers of the panel that are put together from several SELECTs         *)
(* (api/logs.go listLogs and exportCSV, storage/logs.go, storage/stats.go, *)
(* stats/trend.go), each of which sees the proxy_logs table as it is at    *)
(* that moment: between two of them the flusher commits records, and the   *)
(* retention or a purge deletes those of requests that started long ago.   *)
(*                                                                         *)
(* A row is its id, which follows the order in which the requests ended;   *)
(* at, its created_at, which is when its request started; and its kind:    *)
(* whether the filter of the reader matches it, its status class, duration *)
(* and the time bucket it falls in.                                        *)
(***************************************************************************)
EXTENDS Integers, FiniteSets, Sequences, SequencesExt, FiniteSetsExt

CONSTANTS
  Kinds,        \* the rows there may be, without ids and times:
                \* [match, class, dur, bucket]
  DefaultSize,  \* the page size that replaces one out of bounds: 50
  MaxSize,      \* the largest page size ListLogs accepts: 200
  ExportSize,   \* the page size exportCSV asks for: 10000
  MaxId,        \* bound: rows inserted in a behaviour
  MaxPages,     \* bound: pages a client asks for
  Span,         \* how far back a trend goes: ParseWindow
  MaxTime       \* bound: the clock

QueryAssumption ==
  /\ {DefaultSize, MaxSize, ExportSize, MaxId, MaxPages, Span, MaxTime} \subseteq Nat
  /\ 0 < DefaultSize /\ DefaultSize <= MaxSize /\ MaxSize < ExportSize
  /\ \A k \in Kinds : k.dur \in Nat

VARIABLES
  table,   \* the rows
  nextId,  \* AUTOINCREMENT
  now,     \* the clock
  reader,  \* the handler or client at work: see Idle
  hist     \* what was written since it began: see Unread

vars == <<table, nextId, now, reader, hist>>

(* op: the answer being made; step: the next SELECT; until: the end of the *)
(* window it asks about; got: what the SELECTs so far returned.            *)
Idle == [op |-> "none", step |-> 0, until |-> 0, got |-> <<>>]

(* was: the rows that were in the table at any time since the reader       *)
(* began; first: the first id given since then; failed: whether the SELECT *)
(* of a percentile failed.                                                 *)
Unread == [was |-> {}, first |-> 0, failed |-> FALSE]

Init == table = {} /\ nextId = 1 /\ now = 0 /\ reader = Idle /\ hist = Unread

Reading == reader.op # "none"
-----------------------------------------------------------------------------
(* The writers and the clock.                                              *)

(* InsertLogs commits a record, of a request that started at any time.     *)
Insert(k) ==
  /\ nextId <= MaxId
  /\ \E at \in 0..now :
       LET row == [id |-> nextId, at |-> at, kind |-> k] IN
         /\ table' = table \cup {row}
         /\ hist' = [hist EXCEPT !.was = IF Reading THEN @ \cup {row} ELSE @]
  /\ nextId' = nextId + 1
  /\ UNCHANGED <<now, reader>>

(* DeleteLogsBefore: the rows of requests that started before the limit.   *)
DeleteBefore(limit) ==
  /\ limit <= now
  /\ table' = {r \in table : r.at >= limit}
  /\ UNCHANGED <<nextId, now, reader, hist>>

Tick == now < MaxTime /\ now' = now + 1 /\ UNCHANGED <<table, nextId, reader, hist>>
-----------------------------------------------------------------------------
(* ORDER BY: the n-th row has n - 1 rows before it.  An order is the pairs *)
(* whose first row comes before the second.                                *)
Ordered(rows, order) ==
  [n \in 1..Cardinality(rows) |->
     CHOOSE r \in rows : Cardinality({q \in rows : <<q, r>> \in order}) = n - 1]

(* ListLogs: newest first, one page.                                       *)

OffsetFromZero(page, size) == page * size
Offset(page, size) == (page - 1) * size

Size(asked) == IF asked < 1 \/ asked > MaxSize THEN DefaultSize ELSE asked

OldestFirst(rows) == {p \in rows \X rows : p[1].id < p[2].id}
NewestFirst(rows) == {p \in rows \X rows : p[1].id > p[2].id}

Matched(rows) == {r \in rows : r.kind.match}

Matching == Matched(table)

ListLogs(page, asked) ==
  LET all == Ordered(Matching, NewestFirst(Matching))
      from == Offset(IF page < 1 THEN 1 ELSE page, Size(asked))
  IN  SubSeq(all, from + 1, Min({from + Size(asked), Len(all)}))

Begin(op) ==
  /\ ~Reading
  /\ reader' = [Idle EXCEPT !.op = op, !.step = 1, !.until = now]
  /\ hist' = [Unread EXCEPT !.was = table, !.first = nextId]
  /\ UNCHANGED <<table, nextId, now>>

Got(x, more) ==
  /\ reader' = [reader EXCEPT !.step = IF more THEN @ + 1 ELSE 0,
                              !.got = Append(@, x)]
  /\ UNCHANGED <<table, nextId, now>>

At(op, step) == reader.op = op /\ reader.step = step

Done(op) == reader.op = op /\ reader.step = 0

(* A client that asks for page after page until one is not full; the size  *)
(* is 1, so that neighbouring pages touch each other's rows.               *)
NextPage ==
  /\ reader.op = "walk" /\ reader.step > 0
  /\ LET rows == ListLogs(reader.step, 1) IN
       Got(rows, Len(rows) = 1 /\ reader.step < MaxPages)
  /\ UNCHANGED hist

(* listLogs: the total, then the page.                                     *)
ListCount == At("list", 1) /\ Got(Cardinality(Matching), TRUE) /\ UNCHANGED hist
ListRows ==
  /\ At("list", 2)
  /\ \E page \in 0..2, asked \in 0..MaxSize + 1 :
       Got([page |-> page, asked |-> asked, rows |-> ListLogs(page, asked)], FALSE)
  /\ UNCHANGED hist

Export == At("export", 1) /\ Got(ListLogs(1, ExportSize), FALSE) /\ UNCHANGED hist
-----------------------------------------------------------------------------
(* GetRealtimeStats: the total and the errors of today, and the average    *)
(* and the last minute, which depend on nothing before them.               *)

Errors(rows) == {r \in rows : r.kind.class = "5xx"}

RealtimeTotal ==
  At("realtime", 1) /\ Got(Cardinality(table), TRUE) /\ UNCHANGED hist
RealtimeErrors ==
  At("realtime", 2) /\ Got(Cardinality(Errors(table)), FALSE) /\ UNCHANGED hist

(* error_rate in per cent.                                                 *)
ErrorRate ==
  IF reader.got[1] = 0 THEN 0 ELSE (reader.got[2] * 100) \div reader.got[1]
-----------------------------------------------------------------------------
(* TrendService.Get: the points, the percentiles, the classes, all of them *)
(* for the rows created in the span of time that ends when it began.       *)

InWindow(rows) == {r \in rows : reader.until - Span <= r.at /\ r.at <= reader.until}

Window == InWindow(table)

Total(counts) == FoldFunction(LAMBDA a, b : a + b, 0, counts)

GetTrend ==
  [b \in {r.kind.bucket : r \in Window} |-> Cardinality({r \in Window : r.kind.bucket = b})]

GetStatusDistribution ==
  [c \in {r.kind.class : r \in Window} |-> Cardinality({r \in Window : r.kind.class = c})]

RankFromOne(n, p) == (n * p) \div 100
Rank(n, p) == ((n - 1) * p) \div 100

ShorterFirst(rows) ==
  {p \in rows \X rows : LET a == p[1].kind.dur
                            b == p[2].kind.dur
                        IN  a < b \/ (a = b /\ p[1].id < p[2].id)}

(* LIMIT 1 OFFSET of the duration at a percentile, or 0 if there is none.  *)
Pick(n, p) ==
  LET sorted == Ordered(Window, ShorterFirst(Window))
  IN  IF Rank(n, p) < Len(sorted) THEN sorted[Rank(n, p) + 1].kind.dur ELSE 0

TrendPoints == At("trend", 1) /\ Got(GetTrend, TRUE) /\ UNCHANGED hist
TrendTotal == At("trend", 2) /\ Got(Cardinality(Window), TRUE) /\ UNCHANGED hist

(* The percentiles, of which there are none if the total is 0.  If the     *)
(* SELECT of one fails, its error is dropped and it is 0.                  *)
Percents == <<50, 90, 99>>

TrendPick ==
  \E i \in 1..3 :
    /\ At("trend", 2 + i)
    /\ \/ /\ Got(IF reader.got[2] = 0 THEN 0 ELSE Pick(reader.got[2], Percents[i]), TRUE)
          /\ UNCHANGED hist
       \/ /\ reader.got[2] > 0 /\ Got(0, TRUE)
          /\ hist' = [hist EXCEPT !.failed = TRUE]

TrendClasses == At("trend", 6) /\ Got(GetStatusDistribution, FALSE) /\ UNCHANGED hist

(* The answer is sent.                                                     *)
Answer ==
  /\ Reading /\ reader.step = 0
  /\ reader' = Idle /\ hist' = Unread
  /\ UNCHANGED <<table, nextId, now>>

(* Any other SELECT fails: there is no answer, but an error.               *)
Refuse ==
  /\ Reading /\ reader.step > 0
  /\ reader' = Idle /\ hist' = Unread
  /\ UNCHANGED <<table, nextId, now>>

Next ==
  \/ \E k \in Kinds : Insert(k)
  \/ \E limit \in 1..MaxTime : DeleteBefore(limit)
  \/ Tick
  \/ \E op \in {"walk", "list", "export", "realtime", "trend"} : Begin(op)
  \/ NextPage \/ ListCount \/ ListRows \/ Export
  \/ RealtimeTotal \/ RealtimeErrors
  \/ TrendPoints \/ TrendTotal \/ TrendPick \/ TrendClasses
  \/ Answer \/ Refuse

Spec == Init /\ [][Next]_vars
-----------------------------------------------------------------------------
(* The rows that were there when the reader began and still are.           *)
Stayed == {r \in hist.was \cap table : r.id < hist.first}

(* A client has gone over the pages up to the end.                         *)
Walked == Done("walk") /\ Len(reader.got[Len(reader.got)]) = 0

Missed == Matched(Stayed) \ UNION {ToSet(reader.got[i]) : i \in DOMAIN reader.got}

(* A client that goes over the pages, newest first, misses a matching row  *)
(* that was there all the time only where rows above it in the list were   *)
(* deleted meanwhile, and never because rows were inserted (ListLogs       *)
(* orders by id and pages by offset, DeleteLogsBefore goes by created_at). *)
MissesOnlyBelowDeleted ==
  Walked => \A r \in Missed : \E g \in Matched(hist.was) \ table : g.id > r.id

(* It misses no more rows than were deleted meanwhile.                     *)
MissesNoMoreThanDeleted ==
  Walked => Cardinality(Missed) <= Cardinality(Matched(hist.was) \ table)

(* n is the number of the rows at some moment since the reader began: no   *)
(* fewer than stayed all the time, no more than were ever there.           *)
Fits(n, rows) == Cardinality(rows \cap Stayed) <= n /\ n <= Cardinality(rows)

(* A list: the total; the page has the rows that its size leaves of them,  *)
(* each of them at its place, newest first.                                *)
PageFitsTotal ==
  LET total == reader.got[1]
      a == reader.got[2]
      ever == Matched(hist.was)
      size == Size(a.asked)
      before == ((IF a.page = 0 THEN 1 ELSE a.page) - 1) * size
      Left(n) == Max({0, Min({size, n - before})})
  IN  /\ Fits(total, ever)
      /\ Left(Cardinality(ever \cap Stayed)) <= Len(a.rows)
      /\ Len(a.rows) <= Left(Cardinality(ever))
      /\ \A i \in DOMAIN a.rows :
           /\ a.rows[i] \in ever
           /\ Fits(before + i - 1, {r \in ever : r.id > a.rows[i].id})
           /\ \A j \in DOMAIN a.rows : i < j => a.rows[i].id > a.rows[j].id

(* A percentile of n durations: at most that share of them is below it,    *)
(* and more than that share is not above it, unless its SELECT failed or   *)
(* rows were deleted since n was told; then it may be 0.                   *)
IsPercentile(d, n, p, ever) ==
  LET shorter == {r \in ever : r.kind.dur < d}
      notLonger == {r \in ever : r.kind.dur <= d}
  IN  /\ n = 0 => d = 0
      /\ n > 0 =>
           /\ 100 * Cardinality(shorter \cap Stayed) <= (n - 1) * p
           /\ \/ /\ (n - 1) * p < 100 * Cardinality(notLonger)
                 /\ \E r \in ever : r.kind.dur = d
              \/ d = 0 /\ (hist.failed \/ ever \ table # {})

(* A trend: the points and the classes each add up to a total of the rows, *)
(* and the percentiles are those of its durations.                         *)
TrendAddsUp ==
  LET n == reader.got[2]
      ever == InWindow(hist.was)
  IN  /\ Fits(Total(reader.got[1]), ever)
      /\ Fits(n, ever)
      /\ \A i \in 1..3 : IsPercentile(reader.got[2 + i], n, Percents[i], ever)
      /\ Fits(Total(reader.got[6]), ever)

(* The parts of one answer differ by no more than was written between its  *)
(* SELECTs: each of them tells of the rows that stayed all the time, and   *)
(* of none that was not there at some time since it began (listLogs,       *)
(* TrendService.Get).                                                      *)
PartsAgree ==
  /\ Done("list") => PageFitsTotal
  /\ Done("trend") => TrendAddsUp
-----------------------------------------------------------------------------
(* What the documentation says and the code does not do.                   *)

(* RealtimeStats: error_rate is the share of 5xx.                          *)
RateIsShare == Done("realtime") => ErrorRate \in 0..100

(* exportCSV and README: an export has the matching rows, up to its limit. *)
ExportComplete ==
  Done("export") /\ hist.was \subseteq Stayed =>
    Len(reader.got[1]) = Min({ExportSize, Cardinality(Matching)})
=============================================================================
