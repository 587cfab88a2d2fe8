---------------------------- MODULE LogPipeline ----------------------------
(***************************************************************************)
(* What the asynchronous log writer promises: every record submitted is    *)
(* stored at most once, records are stored in the order they were          *)
(* submitted, and a record that is not stored is either still pending or   *)
(* counted as lost.  Nothing else can happen to a record.                  *)
(***************************************************************************)
EXTENDS Integers, Sequences, SequencesExt

VARIABLES submitted,  \* how many records have been submitted: 1..submitted
          pending,    \* the records that are neither stored nor lost
          stored,     \* the records of the database, in the order of insertion
          lost        \* the records that will never be stored

lpVars == <<submitted, pending, stored, lost>>

Init ==
  /\ submitted = 0
  /\ pending = {}
  /\ stored = <<>>
  /\ lost = {}

(* A full queue may lose older records at the moment it accepts a new one. *)
Submit(gone) ==
  /\ submitted' = submitted + 1
  /\ pending' = (pending \ gone) \cup {submitted'}
  /\ lost' = lost \cup gone
  /\ UNCHANGED stored

(* A sequence holds the records of a batch, oldest first and each once.    *)
InOrder(s, batch) ==
  /\ ToSet(s) = batch
  /\ \A i, j \in DOMAIN s : i < j => s[i] < s[j]

Added == SubSeq(stored', Len(stored) + 1, Len(stored'))

(* A transaction stores a batch of the oldest records pending, in order.   *)
Store(batch) ==
  /\ \A r \in batch, o \in pending \ batch : r < o
  /\ pending' = pending \ batch
  /\ stored' = stored \o Added
  /\ InOrder(Added, batch)
  /\ UNCHANGED <<submitted, lost>>

(* A batch that cannot be stored is given up as a whole.                   *)
GiveUp(batch) ==
  /\ pending' = pending \ batch
  /\ lost' = lost \cup batch
  /\ UNCHANGED <<submitted, stored>>

Next ==
  \/ \E gone \in SUBSET pending : Submit(gone)
  \/ \E batch \in SUBSET pending : Store(batch) \/ GiveUp(batch)

Spec == Init /\ [][Next]_lpVars
=============================================================================
