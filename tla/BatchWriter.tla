----------------------------- MODULE BatchWriter -----------------------------
(***************************************************************************)
(* internal/batchwriter/batch_writer.go together with the flush hooks that *)
(* internal/storage/sqlite_batch_operations.go installs on it.             *)
(*                                                                         *)
(* Producer goroutines send items into one buffered channel; a single run  *)
(* loop moves them to a buffer and flushes the buffer in a database        *)
(* transaction when it is full, on a tick of the timer, when Flush asks    *)
(* for it and when the channel is closed.                                  *)
(*                                                                         *)
(* An item is its kind and the position in which the channel accepted it.  *)
(* Storage errors are nondeterministic.  The hooks are always installed,   *)
(* as registerSQLCOperations does before any producer exists.              *)
(*                                                                         *)
(* Definitions marked (variant) are wrong on purpose: no specification     *)
(* uses them, and each breaks a property when put in the place of the      *)
(* definition that follows it.                                             *)
(***************************************************************************)
EXTENDS Integers, Sequences, FiniteSets

CONSTANTS Producers,     \* goroutines calling Add
          Flushers,      \* goroutines calling Flush, once each
          Kinds,         \* kinds of items
          Registered,    \* the kinds Register was called for
          MaxBatchSize,  \* items buffered before a flush
          InputCap,      \* capacity of the input channel
          Ticker,        \* whether flushInterval > 0
          Faulty,        \* whether the database may return errors
          MaxItems       \* bound of the model: items ever sent

ASSUME BatchWriterAssumption ==
  /\ IsFiniteSet(Producers)
  /\ Registered \subseteq Kinds
  /\ MaxBatchSize \in Nat \ {0}
  /\ InputCap \in Nat \ {0}
  /\ Ticker \in BOOLEAN
  /\ Faulty \in BOOLEAN
  /\ MaxItems \in Nat

VARIABLES
  chan,      \* w.in: items sent and not yet received by the run loop
  closed,    \* close(w.in) has happened
  ctxDone,   \* w.ctx is cancelled
  ppc,       \* producer -> "idle", "sent" (counter not yet raised), "done"
  fpc,       \* flusher -> "idle", "asking", "waiting" (for flushAck), "done"
  mark,      \* flusher -> number of items accepted when it called Flush
  loop,      \* where the run loop is, or returns to when the flush is over
  stage,     \* how far the flush is: "none", "begin", "ops" or "record"
  buf,       \* w.buf
  batch,     \* flushLocked's snapshot of the buffer
  tx,        \* rows written in the open transaction
  flushErr,  \* an error was met in this flush
  table,     \* rows committed, in commit order
  lost,      \* items failFlush recorded, in order
  stats,     \* successCount, failureCount, flushCount
  kindStats, \* successes and failures by kind
  accepted,  \* items ever received by the channel
  totalQueued

clientVars == <<ppc, fpc, mark>>
loopVars   == <<loop, stage, buf, batch>>
flushVars  == <<tx, flushErr, table>>
statVars   == <<lost, stats, kindStats>>
vars == <<chan, closed, ctxDone, clientVars, loopVars, flushVars, statVars,
          accepted, totalQueued>>

Item == [id : Nat, kind : Kinds]

-----------------------------------------------------------------------------
Init ==
  /\ chan = <<>>
  /\ closed = FALSE
  /\ ctxDone = FALSE
  /\ ppc = [p \in Producers |-> "idle"]
  /\ fpc = [f \in Flushers |-> "idle"]
  /\ mark = [f \in Flushers |-> 0]
  /\ loop = "select"
  /\ stage = "none"
  /\ buf = <<>>
  /\ batch = <<>>
  /\ tx = <<>>
  /\ flushErr = FALSE
  /\ table = <<>>
  /\ lost = <<>>
  /\ stats = [successful |-> 0, failed |-> 0, flushes |-> 0]
  /\ kindStats = [k \in Kinds |-> [successful |-> 0, failed |-> 0]]
  /\ accepted = 0
  /\ totalQueued = 0

-----------------------------------------------------------------------------
(* The callers.                                                            *)

\* Add sends first ...
AddSend(p, k) ==
  /\ ppc[p] = "idle"
  /\ accepted < MaxItems
  /\ ~closed
  /\ Len(chan) < InputCap
  /\ chan' = Append(chan, [id |-> accepted + 1, kind |-> k])
  /\ accepted' = accepted + 1
  /\ ppc' = [ppc EXCEPT ![p] = "sent"]
  /\ UNCHANGED <<closed, ctxDone, fpc, mark, loopVars, flushVars, statVars,
                 totalQueued>>

\* ... and raises the counter afterwards.
AddCount(p) ==
  /\ ppc[p] = "sent"
  /\ totalQueued' = totalQueued + 1
  /\ ppc' = [ppc EXCEPT ![p] = "idle"]
  /\ UNCHANGED <<chan, closed, ctxDone, fpc, mark, loopVars, flushVars,
                 statVars, accepted>>

ProducerDone(p) ==
  /\ ppc[p] = "idle"
  /\ ppc' = [ppc EXCEPT ![p] = "done"]
  /\ UNCHANGED <<chan, closed, ctxDone, fpc, mark, loopVars, flushVars,
                 statVars, accepted, totalQueued>>

\* Flush enters its select; the items it is answerable for are those already
\* accepted.
FlushCall(f) ==
  /\ fpc[f] = "idle"
  /\ fpc' = [fpc EXCEPT ![f] = "asking"]
  /\ mark' = [mark EXCEPT ![f] = accepted]
  /\ UNCHANGED <<chan, closed, ctxDone, ppc, loopVars, flushVars, statVars,
                 accepted, totalQueued>>

\* (variant) no case for the context
FlushAbandonedNever(f) == FALSE

\* The ctx.Done case of Flush's select.
FlushAbandoned(f) ==
  /\ fpc[f] = "asking"
  /\ ctxDone
  /\ fpc' = [fpc EXCEPT ![f] = "done"]
  /\ UNCHANGED <<chan, closed, ctxDone, ppc, mark, loopVars, flushVars,
                 statVars, accepted, totalQueued>>

\* Close requires that every producer has stopped.
CloseCall ==
  /\ \A p \in Producers : ppc[p] = "done"
  /\ ~closed
  /\ closed' = TRUE
  /\ UNCHANGED <<chan, ctxDone, clientVars, loopVars, flushVars, statVars,
                 accepted, totalQueued>>

\* (variant) the context is cancelled before the run loop has ended
CloseReturnEarly ==
  /\ closed
  /\ ~ctxDone
  /\ ctxDone' = TRUE
  /\ UNCHANGED <<chan, closed, clientVars, loopVars, flushVars, statVars,
                 accepted, totalQueued>>

\* wg.Wait returns once the run loop has; only then is the context cancelled.
CloseReturn ==
  /\ closed
  /\ ~ctxDone
  /\ loop = "exit" /\ stage = "none"
  /\ ctxDone' = TRUE
  /\ UNCHANGED <<chan, closed, clientVars, loopVars, flushVars, statVars,
                 accepted, totalQueued>>

-----------------------------------------------------------------------------
(* The run loop.                                                           *)

\* Snapshot and reset the buffer; nothing happens when it is empty.
flushLocked(b) ==
  /\ batch' = b
  /\ buf' = <<>>
  /\ stage' = IF b = <<>> THEN "none" ELSE "begin"

Buffer(b) ==
  IF Len(b) >= MaxBatchSize
  THEN flushLocked(b)
  ELSE buf' = b /\ UNCHANGED <<batch, stage>>

\* The same receive stands in the select and in the drain of a Flush.
Receive ==
  /\ loop \in {"select", "drain"} /\ stage = "none"
  /\ chan # <<>>
  /\ chan' = Tail(chan)
  /\ Buffer(Append(buf, Head(chan)))
  /\ UNCHANGED <<closed, ctxDone, clientVars, loop, flushVars, statVars,
                 accepted, totalQueued>>

\* (variant) the timer is never served
TickNever == FALSE

\* A ticker that finds the buffer empty changes nothing.
Tick ==
  /\ Ticker
  /\ loop = "select" /\ stage = "none"
  /\ buf # <<>>
  /\ flushLocked(buf)
  /\ UNCHANGED <<chan, closed, ctxDone, clientVars, loop, flushVars, statVars,
                 accepted, totalQueued>>

FlushRequest(f) ==
  /\ loop = "select" /\ stage = "none"
  /\ fpc[f] = "asking"
  /\ fpc' = [fpc EXCEPT ![f] = "waiting"]
  /\ loop' = "drain"
  /\ UNCHANGED <<chan, closed, ctxDone, ppc, mark, stage, buf, batch,
                 flushVars, statVars, accepted, totalQueued>>

\* (variant) the channel is not drained first
DrainDoneNoDrain ==
  /\ loop = "drain" /\ stage = "none"
  /\ flushLocked(buf)
  /\ loop' = "ack"
  /\ UNCHANGED <<chan, closed, ctxDone, clientVars, flushVars, statVars,
                 accepted, totalQueued>>

\* The channel has nothing to offer, closed or not.
DrainDone ==
  /\ loop = "drain" /\ stage = "none"
  /\ chan = <<>>
  /\ flushLocked(buf)
  /\ loop' = "ack"
  /\ UNCHANGED <<chan, closed, ctxDone, clientVars, flushVars, statVars,
                 accepted, totalQueued>>

\* The rendezvous on flushAck.
FlushAck(f) ==
  /\ loop = "ack" /\ stage = "none"
  /\ fpc[f] = "waiting"
  /\ fpc' = [fpc EXCEPT ![f] = "done"]
  /\ loop' = "select"
  /\ UNCHANGED <<chan, closed, ctxDone, ppc, mark, stage, buf, batch,
                 flushVars, statVars, accepted, totalQueued>>

\* A receive on the closed and empty channel: final flush, then return.
InputClosed ==
  /\ loop = "select" /\ stage = "none"
  /\ closed /\ chan = <<>>
  /\ flushLocked(buf)
  /\ loop' = "exit"
  /\ UNCHANGED <<chan, closed, ctxDone, clientVars, flushVars, statVars,
                 accepted, totalQueued>>

-----------------------------------------------------------------------------
(* One flush: the Before hook, the operations, the After hook, the books.  *)

BeginTx ==
  /\ stage = "begin"
  /\ \/ /\ stage' = "ops"
        /\ UNCHANGED flushErr
     \/ /\ Faulty
        /\ stage' = "record"
        /\ flushErr' = TRUE
  /\ UNCHANGED <<chan, closed, ctxDone, clientVars, loop, buf, batch, tx,
                 table, statVars, accepted, totalQueued>>

\* One item of the batch: its operation writes a row of the transaction,
\* fails, or does not exist.
ExecItem ==
  /\ stage = "ops" /\ ~flushErr
  /\ Len(tx) < Len(batch)
  /\ LET it == batch[Len(tx) + 1] IN
       \/ /\ it.kind \in Registered
          /\ tx' = Append(tx, it)
          /\ UNCHANGED flushErr
       \/ /\ it.kind \notin Registered \/ Faulty
          /\ flushErr' = TRUE
          /\ UNCHANGED tx
  /\ UNCHANGED <<chan, closed, ctxDone, clientVars, loopVars, table, statVars,
                 accepted, totalQueued>>

\* (variant) the rows of a failed batch stay
RollbackLeavesRows ==
  /\ stage = "ops" /\ flushErr
  /\ table' = table \o tx
  /\ tx' = <<>>
  /\ stage' = "record"
  /\ UNCHANGED <<chan, closed, ctxDone, clientVars, loop, buf, batch,
                 flushErr, statVars, accepted, totalQueued>>

\* The After hook of a flush that met an error.
Rollback ==
  /\ stage = "ops" /\ flushErr
  /\ tx' = <<>>
  /\ stage' = "record"
  /\ UNCHANGED <<chan, closed, ctxDone, clientVars, loop, buf, batch,
                 flushErr, table, statVars, accepted, totalQueued>>

\* The After hook of a flush that met none; the commit itself may fail.
Commit ==
  /\ stage = "ops" /\ ~flushErr
  /\ Len(tx) = Len(batch)
  /\ tx' = <<>>
  /\ stage' = "record"
  /\ \/ /\ table' = table \o tx
        /\ UNCHANGED flushErr
     \/ /\ Faulty
        /\ flushErr' = TRUE
        /\ UNCHANGED table
  /\ UNCHANGED <<chan, closed, ctxDone, clientVars, loop, buf, batch,
                 statVars, accepted, totalQueued>>

CountOfKind(s, k) == Cardinality({i \in DOMAIN s : s[i].kind = k})

\* (variant) a failed batch counts once
bumpPerBatch(ok, n) ==
  stats' = [successful |-> stats.successful + IF ok THEN n ELSE 0,
            failed     |-> stats.failed + IF ok THEN 0 ELSE 1,
            flushes    |-> stats.flushes + 1]

bump(ok, n) ==
  stats' = [successful |-> stats.successful + IF ok THEN n ELSE 0,
            failed     |-> stats.failed + IF ok THEN 0 ELSE n,
            flushes    |-> stats.flushes + 1]

\* (variant) every item counts as a success
bumpKindNoFailures(ok) ==
  kindStats' = [k \in Kinds |->
    [kindStats[k] EXCEPT !.successful = @ + CountOfKind(batch, k)]]

bumpKind(ok) ==
  kindStats' = [k \in Kinds |->
    IF ok THEN [kindStats[k] EXCEPT !.successful = @ + CountOfKind(batch, k)]
          ELSE [kindStats[k] EXCEPT !.failed = @ + CountOfKind(batch, k)]]

\* The end of flushLocked, failFlush included.  The kind counters are read
\* only after the run loop has ended, so they move with the totals.
Record ==
  /\ stage = "record"
  /\ bump(~flushErr, Len(batch))
  /\ bumpKind(~flushErr)
  /\ lost' = IF flushErr THEN lost \o batch ELSE lost
  /\ batch' = <<>>
  /\ flushErr' = FALSE
  /\ stage' = "none"
  /\ UNCHANGED <<chan, closed, ctxDone, clientVars, loop, buf, tx, table,
                 accepted, totalQueued>>

\* Everybody has returned: the only state in which nothing is left to do.
Terminated ==
  /\ ctxDone
  /\ \A f \in Flushers : fpc[f] = "done"
  /\ UNCHANGED vars

-----------------------------------------------------------------------------
Flush == BeginTx \/ ExecItem \/ Rollback \/ Commit \/ Record

RunLoop ==
  \/ Receive \/ Tick \/ DrainDone \/ InputClosed
  \/ \E f \in Flushers : FlushRequest(f) \/ FlushAck(f)
  \/ Flush

Producer(p) ==
  \/ \E k \in Kinds : AddSend(p, k)
  \/ AddCount(p)
  \/ ProducerDone(p)

Next ==
  \/ \E p \in Producers : Producer(p)
  \/ \E f \in Flushers : FlushCall(f) \/ FlushAbandoned(f)
  \/ CloseCall \/ CloseReturn
  \/ RunLoop
  \/ Terminated

Spec == Init /\ [][Next]_vars

(***************************************************************************)
(* The Go scheduler runs every goroutine that can take a step, the select  *)
(* of the run loop picks among its ready cases at random, and the timer    *)
(* keeps ticking.  Nothing obliges a producer to send, to stop, or anybody *)
(* to call Flush or Close.                                                 *)
(***************************************************************************)
Fairness ==
  /\ WF_vars(Receive) /\ WF_vars(Tick) /\ WF_vars(DrainDone)
  /\ WF_vars(InputClosed) /\ WF_vars(Flush) /\ WF_vars(CloseReturn)
  /\ \A f \in Flushers :
       /\ SF_vars(FlushRequest(f))
       /\ WF_vars(FlushAck(f))
       /\ WF_vars(FlushAbandoned(f))

FairSpec == Spec /\ Fairness

-----------------------------------------------------------------------------
(* Properties.                                                             *)

\* The flush is over for the items of a batch that has been committed.
Unresolved == IF stage = "record" /\ ~flushErr THEN <<>> ELSE batch

Pending == Unresolved \o buf \o chan

\* Every variable holds values of its type, the channel never holds more than
\* its capacity, and between flushes the buffer stays below the batch size:
\* the eager flush at the head of run's loop never finds anything to do.
TypeOK ==
  /\ chan \in Seq(Item) /\ Len(chan) <= InputCap
  /\ closed \in BOOLEAN /\ ctxDone \in BOOLEAN
  /\ ppc \in [Producers -> {"idle", "sent", "done"}]
  /\ fpc \in [Flushers -> {"idle", "asking", "waiting", "done"}]
  /\ mark \in [Flushers -> Nat]
  /\ loop \in {"select", "drain", "ack", "exit"}
  /\ stage \in {"none", "begin", "ops", "record"}
  /\ buf \in Seq(Item) /\ Len(buf) < MaxBatchSize
  /\ batch \in Seq(Item) /\ Len(batch) <= MaxBatchSize
  /\ tx \in Seq(Item) /\ flushErr \in BOOLEAN
  /\ table \in Seq(Item) /\ lost \in Seq(Item)
  /\ stats \in [successful : Nat, failed : Nat, flushes : Nat]
  /\ kindStats \in [Kinds -> [successful : Nat, failed : Nat]]
  /\ accepted \in Nat /\ totalQueued \in Nat

\* Whatever the producers, the timer, Flush, Close and the database do, the
\* writer is a FIFO queue whose batches are stored whole or rejected whole, in
\* the order in which the channel accepted them, each item once.
WQ == INSTANCE WriteQueue WITH queue <- Pending, rejected <- lost
ImplementsWriteQueue == WQ!Spec

Resolved == stats.successful + stats.failed

\* The counters GetStats returns say what became of the items: whatever left
\* the queue is counted once the flush is over, successes are the rows of the
\* table and failures the items lost.
StatsMatchTable ==
  /\ stage # "record" => stats.successful = Len(table)
  /\ stats.failed = Len(lost)
  /\ Resolved + Len(batch) + Len(buf) + Len(chan) = accepted

\* GetKindStats agrees with GetStats item by item.
KindStatsMatchTable ==
  stage # "record" => \A k \in Kinds :
    /\ kindStats[k].successful = CountOfKind(table, k)
    /\ kindStats[k].failed = CountOfKind(lost, k)

\* Flush is synchronous: when it returns, every item accepted before the call
\* has been committed or recorded as failed, even if it returned because
\* the writer was closed meanwhile.
FlushIsSynchronous ==
  \A f \in Flushers : fpc[f] = "done" => Resolved >= mark[f]

\* Close drains: once it has returned, no item is left anywhere and every one
\* that was ever counted by Add is in the table or among the failures.
CloseDrains ==
  ctxDone => /\ chan = <<>> /\ buf = <<>> /\ batch = <<>>
             /\ Resolved = accepted
             /\ totalQueued = accepted

FlushReturns ==
  \A f \in Flushers : fpc[f] = "asking" ~> fpc[f] = "done"

CloseCompletes == closed ~> ctxDone

\* Neither waits for ever: a Flush returns, whether it races other calls of
\* Flush, producers or Close, and so does Close.
CallsReturn == FlushReturns /\ CloseCompletes

\* With a ticker no accepted item waits for ever, full batch or not.
EveryItemResolved ==
  \A n \in 1..MaxItems : (accepted >= n) ~> (Resolved >= n)
=============================================================================
