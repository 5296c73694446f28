----------------------------- MODULE WriteQueue -----------------------------
(***************************************************************************)
(* What the batch writer promises its producers, with no goroutine, no     *)
(* channel and no transaction in sight: one FIFO queue of items, numbered  *)
(* in the order in which they were accepted.  The queue shrinks from its   *)
(* front by at most a batch at a time, and a batch goes to the table as a  *)
(* whole or is rejected as a whole.                                        *)
(***************************************************************************)
EXTENDS Integers, Sequences

CONSTANTS Kinds,         \* the kinds an item can have
          MaxBatchSize   \* the largest number of items resolved in one step

VARIABLES queue,      \* accepted items nothing has been decided about
          table,      \* items in the database, in the order of insertion
          rejected    \* items of failed batches, in the order of failure

wqVars == <<queue, table, rejected>>

Item == [id : Nat, kind : Kinds]

NextId == Len(queue) + Len(table) + Len(rejected) + 1

Init ==
  /\ queue = <<>>
  /\ table = <<>>
  /\ rejected = <<>>

Accept(k) ==
  /\ queue' = Append(queue, [id |-> NextId, kind |-> k])
  /\ UNCHANGED <<table, rejected>>

\* The first n items leave the queue together, for the table or for the
\* rejects.
Resolve(n) ==
  /\ queue' = SubSeq(queue, n + 1, Len(queue))
  /\ \/ /\ table' = table \o SubSeq(queue, 1, n)
        /\ UNCHANGED rejected
     \/ /\ rejected' = rejected \o SubSeq(queue, 1, n)
        /\ UNCHANGED table

Next ==
  \/ \E k \in Kinds : Accept(k)
  \/ \E n \in 1..Len(queue) : n <= MaxBatchSize /\ Resolve(n)

Spec == Init /\ [][Next]_wqVars
=============================================================================
