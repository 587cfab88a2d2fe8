---------------------------- MODULE MCLogWriter ----------------------------
EXTENDS LogWriter, TLC

CONSTANTS p1, p2, s1,
  FewRecords  \* bound: records submitted to a queue of no more than a batch

(* A queue of one batch has a live stream, the others have none; only a    *)
(* queue that is larger than a batch, of which the drop of a batch leaves  *)
(* something, has more records.                                            *)
Bounded ==
  /\ queueCapacity # FlushBatch => subscribers' = {}
  /\ queueCapacity <= FlushBatch => hist'.written <= FewRecords

MCSpec == Init /\ [][Next /\ Bounded]_vars /\ Fairness
=============================================================================
