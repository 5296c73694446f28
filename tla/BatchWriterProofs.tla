--------------------------- MODULE BatchWriterProofs ---------------------------
(***************************************************************************)
(* What holds of the batch writer for every number of producers and        *)
(* callers of Flush, every batch size, channel capacity and set of kinds.  *)
(***************************************************************************)
EXTENDS BatchWriter, FiniteSetTheorems, TLAPS

LEMMA BufferType ==
  ASSUME NEW b \in Seq(Item), Len(b) <= MaxBatchSize,
         buf \in Seq(Item), batch \in Seq(Item), Len(batch) <= MaxBatchSize,
         stage \in {"none", "begin", "ops", "record"},
         Buffer(b)
  PROVE  /\ buf' \in Seq(Item) /\ Len(buf') < MaxBatchSize
         /\ batch' \in Seq(Item) /\ Len(batch') <= MaxBatchSize
         /\ stage' \in {"none", "begin", "ops", "record"}
<1>1. CASE Len(b) >= MaxBatchSize
  BY <1>1, BatchWriterAssumption DEF Buffer, flushLocked
<1>2. CASE ~(Len(b) >= MaxBatchSize)
  <2>1. buf' = b /\ batch' = batch /\ stage' = stage
    BY <1>2 DEF Buffer
  <2>. QED
    BY <2>1, <1>2, BatchWriterAssumption
<1>. QED
  BY <1>1, <1>2

LEMMA CountOfKindType ==
  ASSUME NEW s \in Seq(Item), NEW k
  PROVE  CountOfKind(s, k) \in Nat
<1>1. IsFiniteSet(1..Len(s))
  BY FS_Interval
<1>2. {i \in DOMAIN s : s[i].kind = k} \subseteq 1..Len(s)
  OBVIOUS
<1>. QED
  BY <1>1, <1>2, FS_Subset, FS_CardinalityType DEF CountOfKind

LEMMA ClientTypeOK ==
  ASSUME TypeOK,
         \/ \E p \in Producers : Producer(p)
         \/ \E f \in Flushers : FlushCall(f) \/ FlushAbandoned(f)
         \/ CloseCall \/ CloseReturn
  PROVE  TypeOK'
<1>. USE BatchWriterAssumption DEF TypeOK, loopVars, flushVars, statVars
<1>1. ASSUME NEW p \in Producers, NEW k \in Kinds, AddSend(p, k)
      PROVE  TypeOK'
  <2>1. [id |-> accepted + 1, kind |-> k] \in Item
    BY DEF Item
  <2>2. chan' \in Seq(Item) /\ Len(chan') <= InputCap
    BY <1>1, <2>1 DEF AddSend
  <2>. QED
    BY <1>1, <2>2 DEF AddSend
<1>2. ASSUME NEW p \in Producers, AddCount(p) \/ ProducerDone(p)
      PROVE  TypeOK'
  <2>1. CASE AddCount(p)
    <3>1. ppc' \in [Producers -> {"idle", "sent", "done"}] /\ totalQueued' \in Nat
      BY <2>1 DEF AddCount
    <3>. QED
      BY <2>1, <3>1 DEF AddCount
  <2>2. CASE ProducerDone(p)
    BY <2>2 DEF ProducerDone
  <2>. QED
    BY <1>2, <2>1, <2>2
<1>3. ASSUME NEW f \in Flushers, FlushCall(f) \/ FlushAbandoned(f)
      PROVE  TypeOK'
  BY <1>3 DEF FlushCall, FlushAbandoned
<1>4. CASE CloseCall \/ CloseReturn
  BY <1>4 DEF CloseCall, CloseReturn, clientVars
<1>. QED
  BY <1>1, <1>2, <1>3, <1>4 DEF Producer

LEMMA LoopTypeOK ==
  ASSUME TypeOK,
         \/ Receive \/ Tick \/ DrainDone \/ InputClosed
         \/ \E f \in Flushers : FlushRequest(f) \/ FlushAck(f)
  PROVE  TypeOK'
<1>. USE BatchWriterAssumption DEF TypeOK
<1>1. CASE Receive
  <2>1. /\ chan' \in Seq(Item) /\ Len(chan') <= InputCap
        /\ Append(buf, Head(chan)) \in Seq(Item)
        /\ Len(Append(buf, Head(chan))) <= MaxBatchSize
    BY <1>1 DEF Receive
  <2>2. /\ buf' \in Seq(Item) /\ Len(buf') < MaxBatchSize
        /\ batch' \in Seq(Item) /\ Len(batch') <= MaxBatchSize
        /\ stage' \in {"none", "begin", "ops", "record"}
    BY <1>1, <2>1, BufferType DEF Receive
  <2>. QED
    BY <1>1, <2>1, <2>2 DEF Receive, clientVars, flushVars, statVars
<1>2. CASE Tick
  BY <1>2 DEF Tick, flushLocked, clientVars, flushVars, statVars
<1>3. CASE DrainDone
  BY <1>3 DEF DrainDone, flushLocked, clientVars, flushVars, statVars
<1>4. CASE InputClosed
  BY <1>4 DEF InputClosed, flushLocked, clientVars, flushVars, statVars
<1>5. ASSUME NEW f \in Flushers, FlushRequest(f) \/ FlushAck(f)
      PROVE  TypeOK'
  BY <1>5 DEF FlushRequest, FlushAck, flushVars, statVars
<1>. QED
  BY <1>1, <1>2, <1>3, <1>4, <1>5

\* The two kinds of step the books of a flush take.
LEMMA RaisedCounts ==
  ASSUME NEW r \in [successful : Nat, failed : Nat], NEW n \in Nat
  PROVE  /\ [r EXCEPT !.successful = @ + n] \in [successful : Nat, failed : Nat]
         /\ [r EXCEPT !.failed = @ + n] \in [successful : Nat, failed : Nat]
OBVIOUS

LEMMA EmptyIsSeq == <<>> \in Seq(Item) /\ Len(<<>>) = 0
OBVIOUS

LEMMA JoinedSeq ==
  ASSUME NEW s \in Seq(Item), NEW t \in Seq(Item)
  PROVE  s \o t \in Seq(Item)
OBVIOUS

LEMMA RecordTypeOK ==
  ASSUME TypeOK, Record
  PROVE  TypeOK'
<1>1. batch \in Seq(Item) /\ lost \in Seq(Item)
  BY DEF TypeOK
<1>2. Len(batch) \in Nat
  BY <1>1
<1>3. stats' \in [successful : Nat, failed : Nat, flushes : Nat]
  <2>1. stats \in [successful : Nat, failed : Nat, flushes : Nat]
    BY DEF TypeOK
  <2>. QED
    BY <1>2, <2>1 DEF Record, bump
<1>4. kindStats' \in [Kinds -> [successful : Nat, failed : Nat]]
  <2>1. kindStats \in [Kinds -> [successful : Nat, failed : Nat]]
    BY DEF TypeOK
  <2>2. \A k \in Kinds : CountOfKind(batch, k) \in Nat
    BY <1>1, CountOfKindType
  <2>3. ASSUME NEW k \in Kinds
        PROVE  /\ [kindStats[k] EXCEPT !.successful = @ + CountOfKind(batch, k)]
                    \in [successful : Nat, failed : Nat]
               /\ [kindStats[k] EXCEPT !.failed = @ + CountOfKind(batch, k)]
                    \in [successful : Nat, failed : Nat]
    <3>1. kindStats[k] \in [successful : Nat, failed : Nat]
      BY <2>1
    <3>2. CountOfKind(batch, k) \in Nat
      BY <2>2
    <3>. QED
      BY <3>1, <3>2, RaisedCounts
  <2>. QED
    BY <2>3 DEF Record, bumpKind
<1>5. lost' \in Seq(Item)
  BY <1>1, JoinedSeq DEF Record
<1>6. batch' \in Seq(Item) /\ Len(batch') <= MaxBatchSize
  BY EmptyIsSeq, BatchWriterAssumption DEF Record
<1>7. stage' = "none" /\ flushErr' = FALSE
  BY DEF Record
<1>8. UNCHANGED <<chan, closed, ctxDone, ppc, fpc, mark, loop, buf, tx, table,
                  accepted, totalQueued>>
  BY DEF Record, clientVars
<1>. QED
  BY <1>3, <1>4, <1>5, <1>6, <1>7, <1>8, Zenon DEF TypeOK

LEMMA FlushTypeOK ==
  ASSUME TypeOK, Flush
  PROVE  TypeOK'
<1>1. /\ tx \in Seq(Item) /\ table \in Seq(Item) /\ batch \in Seq(Item)
      /\ flushErr \in BOOLEAN
  BY DEF TypeOK
<1>2. CASE BeginTx
  BY <1>2 DEF TypeOK, BeginTx, clientVars, statVars
<1>3. CASE ExecItem
  <2>1. Len(tx) + 1 \in 1..Len(batch)
    BY <1>1, <1>3 DEF ExecItem
  <2>2. batch[Len(tx) + 1] \in Item
    BY <1>1, <2>1
  <2>3. Append(tx, batch[Len(tx) + 1]) \in Seq(Item)
    BY <1>1, <2>2
  <2>4. tx' \in Seq(Item) /\ flushErr' \in BOOLEAN
    BY <1>1, <1>3, <2>3 DEF ExecItem
  <2>5. UNCHANGED <<chan, closed, ctxDone, ppc, fpc, mark, loop, stage, buf,
                    batch, table, lost, stats, kindStats, accepted,
                    totalQueued>>
    BY <1>3 DEF ExecItem, clientVars, loopVars, statVars
  <2>. QED
    BY <2>4, <2>5, SMTT(30) DEF TypeOK
<1>4. CASE Rollback
  <2>1. tx' \in Seq(Item)
    BY <1>4, EmptyIsSeq DEF Rollback
  <2>. QED
    BY <1>4, <2>1 DEF TypeOK, Rollback, clientVars, statVars
<1>5. CASE Commit
  <2>1. table \o tx \in Seq(Item)
    BY <1>1, JoinedSeq
  <2>2. /\ table' \in Seq(Item) /\ tx' \in Seq(Item) /\ flushErr' \in BOOLEAN
        /\ stage' = "record"
    BY <1>1, <1>5, <2>1, EmptyIsSeq DEF Commit
  <2>3. UNCHANGED <<chan, closed, ctxDone, ppc, fpc, mark, loop, buf, batch,
                    lost, stats, kindStats, accepted, totalQueued>>
    BY <1>5 DEF Commit, clientVars, statVars
  <2>. QED
    BY <2>2, <2>3, SMTT(30) DEF TypeOK
<1>. QED
  BY <1>2, <1>3, <1>4, <1>5, RecordTypeOK DEF Flush

LEMMA TypeOKNext == TypeOK /\ [Next]_vars => TypeOK'
<1>. SUFFICES ASSUME TypeOK, [Next]_vars PROVE TypeOK'
  OBVIOUS
<1>1. CASE UNCHANGED vars
  BY <1>1 DEF TypeOK, vars, clientVars, loopVars, flushVars, statVars
<1>. QED
  BY <1>1, ClientTypeOK, LoopTypeOK, FlushTypeOK DEF Next, RunLoop, Terminated

LEMMA TypeOKInit == Init => TypeOK
<1>. SUFFICES ASSUME Init PROVE TypeOK
  OBVIOUS
<1>1. /\ ppc \in [Producers -> {"idle", "sent", "done"}]
      /\ fpc \in [Flushers -> {"idle", "asking", "waiting", "done"}]
      /\ mark \in [Flushers -> Nat]
  BY DEF Init
<1>2. /\ stats \in [successful : Nat, failed : Nat, flushes : Nat]
      /\ kindStats \in [Kinds -> [successful : Nat, failed : Nat]]
  BY DEF Init
<1>3. /\ chan \in Seq(Item) /\ buf \in Seq(Item) /\ batch \in Seq(Item)
      /\ tx \in Seq(Item) /\ table \in Seq(Item) /\ lost \in Seq(Item)
      /\ Len(chan) <= InputCap /\ Len(buf) < MaxBatchSize
      /\ Len(batch) <= MaxBatchSize
  BY EmptyIsSeq, BatchWriterAssumption DEF Init
<1>4. /\ closed = FALSE /\ ctxDone = FALSE /\ flushErr = FALSE
      /\ loop = "select" /\ stage = "none"
      /\ accepted \in Nat /\ totalQueued \in Nat
  BY DEF Init
<1>. QED
  BY <1>1, <1>2, <1>3, <1>4, Zenon DEF TypeOK

\* Type correctness: in particular the channel never exceeds its capacity, and
\* the buffer is below the batch size whenever the run loop comes back to its
\* select, so that the eager flush at the head of run is never needed.
THEOREM TypeCorrect == Spec => []TypeOK
<1>. QED
  BY TypeOKInit, TypeOKNext, PTL DEF Spec

-----------------------------------------------------------------------------
(* The books of the writer.                                                *)

\* Where the stages of a flush find the batch, the transaction and the error.
FlushShape ==
  /\ stage = "none" => batch = <<>>
  /\ stage # "ops" => tx = <<>>
  /\ stage \in {"none", "begin"} => flushErr = FALSE
  /\ stage = "ops" => Len(tx) <= Len(batch)

\* StatsMatchTable with the equation that holds while a flush is being
\* recorded.
Books ==
  /\ stats.failed = Len(lost)
  /\ stage # "record" \/ flushErr = TRUE => stats.successful = Len(table)
  /\ stage = "record" /\ flushErr = FALSE
       => stats.successful + Len(batch) = Len(table)
  /\ Resolved + Len(batch) + Len(buf) + Len(chan) = accepted

\* The part of TypeOK the books are about, without its records and functions.
LEMMA SequenceTypes ==
  ASSUME TypeOK
  PROVE  /\ chan \in Seq(Item) /\ buf \in Seq(Item) /\ batch \in Seq(Item)
         /\ tx \in Seq(Item) /\ table \in Seq(Item) /\ lost \in Seq(Item)
         /\ stats.successful \in Nat /\ stats.failed \in Nat
         /\ accepted \in Nat /\ flushErr \in BOOLEAN
         /\ stage \in {"none", "begin", "ops", "record"}
BY DEF TypeOK

LEMMA Lengths ==
  ASSUME TypeOK
  PROVE  /\ Len(chan) \in Nat /\ Len(buf) \in Nat /\ Len(batch) \in Nat
         /\ Len(tx) \in Nat /\ Len(table) \in Nat /\ Len(lost) \in Nat
         /\ stats.successful \in Nat /\ stats.failed \in Nat
         /\ Resolved \in Nat /\ accepted \in Nat
BY SequenceTypes DEF Resolved

LEMMA JoinedLength ==
  ASSUME NEW s \in Seq(Item), NEW t \in Seq(Item)
  PROVE  Len(s \o t) = Len(s) + Len(t)
OBVIOUS

\* A step that touches no sequence, no counter and no stage.
LEMMA BooksUntouched ==
  ASSUME FlushShape, Books,
         UNCHANGED <<chan, loopVars, flushVars, statVars, accepted>>
  PROVE  FlushShape' /\ Books'
BY DEF FlushShape, Books, Resolved, loopVars, flushVars, statVars

\* The run loop hands a buffer over to flushLocked, or keeps it.
LEMMA BooksHandover ==
  ASSUME TypeOK, FlushShape, Books, stage = "none",
         NEW b \in Seq(Item), flushLocked(b) \/ Buffer(b),
         chan' \in Seq(Item),
         Len(b) + Len(chan') = Len(buf) + Len(chan),
         UNCHANGED <<flushVars, statVars, accepted>>
  PROVE  FlushShape' /\ Books'
<1>1. batch = <<>> /\ tx = <<>> /\ flushErr = FALSE
  BY DEF FlushShape
<1>2. /\ UNCHANGED <<tx, flushErr, table, lost, stats, accepted>>
  BY DEF flushVars, statVars
<1>3. CASE flushLocked(b)
  <2>1. batch' = b /\ buf' = <<>>
    BY <1>3 DEF flushLocked
  <2>2. stage' \in {"none", "begin"} /\ (stage' = "none" => b = <<>>)
    BY <1>3 DEF flushLocked
  <2>3. Len(batch') + Len(buf') = Len(b)
    BY <2>1
  <2>4. FlushShape'
    BY <1>1, <1>2, <2>1, <2>2 DEF FlushShape
  <2>5. Len(batch) = 0
    BY <1>1
  <2>. QED
    <3>1. stage # "record" /\ stage' # "record"
      BY <2>2
    <3>2. /\ Len(chan') \in Nat /\ Len(b) \in Nat
          /\ Len(batch') = Len(b) /\ Len(buf') = 0
      BY <2>1
    <3>3. stats.successful = Len(table) /\ stats.failed = Len(lost)
      BY <3>1 DEF Books
    <3>4. Resolved + Len(b) + Len(chan') = accepted
      <4>1. Resolved + Len(batch) + Len(buf) + Len(chan) = accepted
        BY DEF Books
      <4>2. Resolved \in Nat /\ Len(buf) \in Nat /\ Len(chan) \in Nat
        BY Lengths
      <4>. QED
        BY <2>5, <3>2, <4>1, <4>2
    <3>5. Resolved' + Len(batch') + Len(buf') + Len(chan') = accepted'
      <4>1. Resolved' = Resolved
        BY <1>2 DEF Resolved
      <4>. QED
        BY <1>2, <3>2, <3>4, <4>1, Lengths
    <3>. QED
      BY <1>2, <2>4, <3>1, <3>3, <3>5 DEF Books
<1>4. CASE buf' = b /\ UNCHANGED <<batch, stage>>
  <2>1. FlushShape'
    BY <1>1, <1>2, <1>4 DEF FlushShape
  <2>2. Len(chan') \in Nat /\ Len(b) \in Nat /\ Len(buf') = Len(b)
    BY <1>4
  <2>3. stats.successful = Len(table) /\ stats.failed = Len(lost)
    BY DEF Books
  <2>5. Resolved + Len(batch) + Len(b) + Len(chan') = accepted
    <3>1. Resolved + Len(batch) + Len(buf) + Len(chan) = accepted
      BY DEF Books
    <3>2. /\ Resolved \in Nat /\ Len(batch) \in Nat /\ Len(buf) \in Nat
          /\ Len(chan) \in Nat
      BY Lengths
    <3>. QED
      BY <2>2, <3>1, <3>2
  <2>4. stats'.successful = Len(table') /\ stats'.failed = Len(lost')
        /\ Resolved' + Len(batch') + Len(buf') + Len(chan') = accepted'
    BY <1>2, <1>4, <2>2, <2>3, <2>5 DEF Resolved
  <2>. QED
    BY <1>4, <2>1, <2>4 DEF Books
<1>. QED
  BY <1>3, <1>4 DEF Buffer

LEMMA BooksLoop ==
  ASSUME TypeOK, FlushShape, Books,
         Receive \/ Tick \/ DrainDone \/ InputClosed
  PROVE  FlushShape' /\ Books'
<1>1. CASE Receive
  <2>1. stage = "none" /\ chan # <<>> /\ chan' = Tail(chan)
        /\ UNCHANGED <<flushVars, statVars, accepted>>
    BY <1>1 DEF Receive
  <2>2. Append(buf, Head(chan)) \in Seq(Item) /\ chan' \in Seq(Item)
    BY <2>1, SequenceTypes
  <2>3. Len(Append(buf, Head(chan))) + Len(chan') = Len(buf) + Len(chan)
    BY <2>1, SequenceTypes
  <2>4. Buffer(Append(buf, Head(chan)))
    BY <1>1 DEF Receive
  <2>. QED
    BY <2>1, <2>2, <2>3, <2>4, BooksHandover
<1>2. CASE Tick \/ DrainDone \/ InputClosed
  <2>1. stage = "none" /\ flushLocked(buf)
        /\ UNCHANGED <<chan, flushVars, statVars, accepted>>
    BY <1>2 DEF Tick, DrainDone, InputClosed
  <2>2. buf \in Seq(Item) /\ chan' \in Seq(Item) /\ chan' = chan
    BY <2>1, SequenceTypes
  <2>. QED
    BY <2>1, <2>2, BooksHandover
<1>. QED
  BY <1>1, <1>2

LEMMA BooksFlush ==
  ASSUME TypeOK, FlushShape, Books, Flush
  PROVE  FlushShape' /\ Books'
<1>1. CASE BeginTx
  <2>1. /\ stage = "begin" /\ tx = <<>>
        /\ UNCHANGED <<chan, buf, batch, tx, table, lost, stats, accepted>>
    BY <1>1 DEF BeginTx, statVars, FlushShape
  <2>2. \/ stage' = "ops" /\ UNCHANGED flushErr
        \/ stage' = "record" /\ flushErr' = TRUE
    BY <1>1 DEF BeginTx
  <2>3. Len(tx) = 0
    BY <2>1
  <2>4. stats.successful = Len(table)
    BY <2>1 DEF Books
  <2>5. FlushShape'
    BY <2>1, <2>2, <2>3, Lengths DEF FlushShape
  <2>6. Books'
    BY <2>1, <2>2, <2>4 DEF Books, Resolved
  <2>. QED
    BY <2>5, <2>6
<1>2. CASE ExecItem
  <2>1. /\ stage = "ops" /\ Len(tx) < Len(batch)
        /\ UNCHANGED <<chan, stage, buf, batch, table, lost, stats, accepted>>
    BY <1>2 DEF ExecItem, loopVars, statVars
  <2>2. Len(tx') <= Len(batch)
    BY <1>2, SequenceTypes DEF ExecItem
  <2>. QED
    BY <2>1, <2>2 DEF FlushShape, Books, Resolved
<1>3. CASE Rollback
  <2>1. /\ stage = "ops" /\ stage' = "record" /\ flushErr = TRUE /\ tx' = <<>>
        /\ UNCHANGED <<chan, buf, batch, flushErr, table, lost, stats, accepted>>
    BY <1>3, SequenceTypes DEF Rollback, statVars
  <2>. QED
    BY <2>1 DEF FlushShape, Books, Resolved
<1>4. CASE Commit
  <2>1. /\ stage = "ops" /\ stage' = "record" /\ flushErr = FALSE /\ tx' = <<>>
        /\ Len(tx) = Len(batch)
        /\ UNCHANGED <<chan, buf, batch, lost, stats, accepted>>
    BY <1>4, SequenceTypes DEF Commit, statVars
  <2>2. FlushShape'
    BY <2>1 DEF FlushShape
  <2>3. CASE table' = table \o tx /\ UNCHANGED flushErr
    <3>1. Len(table') = Len(table) + Len(batch)
      BY <2>1, <2>3, SequenceTypes, JoinedLength
    <3>. QED
      BY <2>1, <2>2, <2>3, <3>1, Lengths DEF Books, Resolved
  <2>4. CASE flushErr' = TRUE /\ UNCHANGED table
    BY <2>1, <2>2, <2>4, Lengths DEF Books, Resolved
  <2>. QED
    BY <1>4, <2>3, <2>4 DEF Commit
<1>5. CASE Record
  <2>1. /\ stage = "record" /\ tx = <<>>
        /\ batch' = <<>> /\ flushErr' = FALSE /\ stage' = "none"
        /\ UNCHANGED <<chan, buf, tx, table, accepted>>
    BY <1>5 DEF Record, FlushShape
  <2>2. FlushShape'
    BY <2>1 DEF FlushShape
  <2>3. Len(batch') = 0 /\ Len(batch) \in Nat
    BY <2>1, SequenceTypes
  <2>4. CASE flushErr
    <3>1. /\ stats'.successful = stats.successful
          /\ stats'.failed = stats.failed + Len(batch)
      BY <1>5, <2>4, SequenceTypes DEF Record, bump
    <3>2. lost' = lost \o batch
      BY <1>5, <2>4 DEF Record
    <3>3. Len(lost') = Len(lost) + Len(batch)
      BY <3>2, SequenceTypes, JoinedLength
    <3>. QED
      BY <2>1, <2>2, <2>3, <2>4, <3>1, <3>3, Lengths DEF Books, Resolved
  <2>5. CASE ~flushErr
    <3>1. /\ stats'.successful = stats.successful + Len(batch)
          /\ stats'.failed = stats.failed
          /\ lost' = lost
      BY <1>5, <2>3, <2>5, SequenceTypes DEF Record, bump
    <3>. QED
      BY <2>1, <2>2, <2>3, <2>5, <3>1, Lengths DEF Books, Resolved
  <2>. QED
    BY <2>4, <2>5
<1>. QED
  BY <1>1, <1>2, <1>3, <1>4, <1>5 DEF Flush

LEMMA BooksNext ==
  TypeOK /\ FlushShape /\ Books /\ [Next]_vars => FlushShape' /\ Books'
<1>. SUFFICES ASSUME TypeOK, FlushShape, Books, [Next]_vars
              PROVE  FlushShape' /\ Books'
  OBVIOUS
<1>1. ASSUME NEW p \in Producers, NEW k \in Kinds, AddSend(p, k)
      PROVE  FlushShape' /\ Books'
  <2>1. /\ chan' = Append(chan, [id |-> accepted + 1, kind |-> k])
        /\ accepted' = accepted + 1
        /\ UNCHANGED <<stage, buf, batch, tx, flushErr, table, lost, stats>>
    BY <1>1 DEF AddSend, loopVars, flushVars, statVars
  <2>2. Len(chan') = Len(chan) + 1
    BY <2>1, SequenceTypes
  <2>3. FlushShape'
    BY <2>1 DEF FlushShape
  <2>4. Resolved' + Len(batch') + Len(buf') + Len(chan') = accepted'
    <3>1. Resolved + Len(batch) + Len(buf) + Len(chan) = accepted
      BY DEF Books
    <3>2. Resolved' = Resolved
      BY <2>1 DEF Resolved
    <3>. QED
      BY <2>1, <2>2, <3>1, <3>2, Lengths
  <2>. QED
    BY <2>1, <2>3, <2>4 DEF Books
<1>2. ASSUME NEW p \in Producers, AddCount(p) \/ ProducerDone(p)
      PROVE  FlushShape' /\ Books'
  BY <1>2, BooksUntouched DEF AddCount, ProducerDone
<1>3. ASSUME NEW f \in Flushers,
             \/ FlushCall(f) \/ FlushAbandoned(f)
             \/ FlushRequest(f) \/ FlushAck(f)
      PROVE  FlushShape' /\ Books'
  <2>1. UNCHANGED <<chan, stage, buf, batch, tx, flushErr, table, lost, stats,
                    accepted>>
    BY <1>3 DEF FlushCall, FlushAbandoned, FlushRequest, FlushAck, loopVars,
                flushVars, statVars
  <2>. QED
    BY <2>1 DEF FlushShape, Books, Resolved
<1>4. CASE CloseCall \/ CloseReturn \/ UNCHANGED vars
  BY <1>4, BooksUntouched DEF CloseCall, CloseReturn, vars, loopVars,
                              flushVars, statVars
<1>5. CASE Receive \/ Tick \/ DrainDone \/ InputClosed
  BY <1>5, BooksLoop
<1>6. CASE Flush
  BY <1>6, BooksFlush
<1>. QED
  BY <1>1, <1>2, <1>3, <1>4, <1>5, <1>6 DEF Next, RunLoop, Producer, Terminated

LEMMA BooksInit == Init => FlushShape /\ Books
<1>. SUFFICES ASSUME Init PROVE FlushShape /\ Books
  OBVIOUS
<1>1. stats.successful = 0 /\ stats.failed = 0
  BY DEF Init
<1>. QED
  BY <1>1 DEF Init, FlushShape, Books, Resolved

LEMMA BooksAlways == Spec => [](TypeOK /\ FlushShape /\ Books)
<1>1. Init => TypeOK /\ FlushShape /\ Books
  BY TypeOKInit, BooksInit
<1>2. TypeOK /\ FlushShape /\ Books /\ [Next]_vars
        => (TypeOK /\ FlushShape /\ Books)'
  BY TypeOKNext, BooksNext
<1>. QED
  BY <1>1, <1>2, PTL DEF Spec

\* What GetStats reports is what happened: for any number of producers, any
\* batch size and any errors of the database, every accepted item is in the
\* channel, the buffer or the batch, or counted; successes are the rows
\* committed and failures the items recorded as lost.
THEOREM BooksBalance == Spec => []StatsMatchTable
<1>1. TypeOK /\ FlushShape /\ Books => StatsMatchTable
  BY SequenceTypes DEF Books, StatsMatchTable
<1>. QED
  BY <1>1, BooksAlways, PTL

-----------------------------------------------------------------------------
(* Close.                                                                  *)

Sent == {p \in Producers : ppc[p] = "sent"}

\* Add counts an item after sending it: the counter lags by the producers in
\* between.
Counting == totalQueued + Cardinality(Sent) = accepted

\* Close comes after the producers, the run loop ends with nothing left to
\* receive, and the context is cancelled after the run loop.
Closing ==
  /\ closed => \A p \in Producers : ppc[p] = "done"
  /\ loop = "exit" => closed /\ chan = <<>> /\ buf = <<>>
  /\ ctxDone => loop = "exit" /\ stage = "none"

LEMMA SentFinite ==
  /\ IsFiniteSet(Sent)
  /\ Cardinality(Sent) \in Nat
<1>1. IsFiniteSet(Sent)
  BY BatchWriterAssumption, FS_Subset DEF Sent
<1>. QED
  BY <1>1, FS_CardinalityType

LEMMA CountingNext == TypeOK /\ Counting /\ [Next]_vars => Counting'
<1>. SUFFICES ASSUME TypeOK, Counting, [Next]_vars PROVE Counting'
  OBVIOUS
<1>0. /\ ppc \in [Producers -> {"idle", "sent", "done"}]
      /\ totalQueued \in Nat /\ accepted \in Nat
  BY DEF TypeOK
<1>1. ASSUME NEW p \in Producers, NEW k \in Kinds, AddSend(p, k)
      PROVE  Counting'
  <2>1. Sent' = Sent \cup {p} /\ p \notin Sent
    BY <1>0, <1>1 DEF AddSend, Sent
  <2>2. Cardinality(Sent') = Cardinality(Sent) + 1
    BY <2>1, SentFinite, FS_AddElement
  <2>3. totalQueued' = totalQueued /\ accepted' = accepted + 1
    BY <1>1 DEF AddSend
  <2>. QED
    BY <1>0, <2>2, <2>3, SentFinite DEF Counting
<1>2. ASSUME NEW p \in Producers, AddCount(p)
      PROVE  Counting'
  <2>1. Sent' = Sent \ {p} /\ p \in Sent
    BY <1>0, <1>2 DEF AddCount, Sent
  <2>2. Cardinality(Sent') = Cardinality(Sent) - 1
    BY <2>1, SentFinite, FS_RemoveElement
  <2>3. totalQueued' = totalQueued + 1 /\ accepted' = accepted
    BY <1>2 DEF AddCount
  <2>. QED
    BY <1>0, <2>2, <2>3, SentFinite DEF Counting
<1>3. ASSUME NEW p \in Producers, ProducerDone(p)
      PROVE  Counting'
  <2>1. Sent' = Sent
    BY <1>0, <1>3 DEF ProducerDone, Sent
  <2>. QED
    BY <1>3, <2>1 DEF ProducerDone, Counting
<1>4. ASSUME UNCHANGED <<ppc, accepted, totalQueued>>
      PROVE  Counting'
  BY <1>4 DEF Counting, Sent
<1>5. CASE \E f \in Flushers : FlushCall(f) \/ FlushAbandoned(f)
                                \/ FlushRequest(f) \/ FlushAck(f)
  BY <1>4, <1>5 DEF FlushCall, FlushAbandoned, FlushRequest, FlushAck
<1>6. CASE CloseCall \/ CloseReturn \/ UNCHANGED vars
  BY <1>4, <1>6 DEF CloseCall, CloseReturn, vars, clientVars
<1>7. CASE Receive \/ Tick \/ DrainDone \/ InputClosed
  BY <1>4, <1>7 DEF Receive, Tick, DrainDone, InputClosed, clientVars
<1>8. CASE Flush
  BY <1>4, <1>8 DEF Flush, BeginTx, ExecItem, Rollback, Commit, Record,
                    clientVars
<1>. QED
  BY <1>1, <1>2, <1>3, <1>5, <1>6, <1>7, <1>8
     DEF Next, RunLoop, Producer, Terminated

LEMMA ClosingNext == TypeOK /\ Closing /\ [Next]_vars => Closing'
<1>. SUFFICES ASSUME TypeOK, Closing, [Next]_vars PROVE Closing'
  OBVIOUS
<1>0. ppc \in [Producers -> {"idle", "sent", "done"}]
  BY DEF TypeOK
<1>1. ASSUME NEW p \in Producers, NEW k \in Kinds, AddSend(p, k)
      PROVE  Closing'
  <2>1. ~closed /\ ppc[p] = "idle"
    BY <1>1 DEF AddSend
  <2>2. UNCHANGED <<closed, ctxDone, loop, stage, buf>>
    BY <1>1 DEF AddSend, loopVars
  <2>. QED
    BY <2>1, <2>2 DEF Closing
<1>2. ASSUME NEW p \in Producers, AddCount(p) \/ ProducerDone(p)
      PROVE  Closing'
  <2>1. ppc[p] # "done"
    BY <1>2 DEF AddCount, ProducerDone
  <2>2. UNCHANGED <<chan, closed, ctxDone, loop, stage, buf>>
    BY <1>2 DEF AddCount, ProducerDone, loopVars
  <2>. QED
    BY <2>1, <2>2 DEF Closing
<1>3. ASSUME NEW f \in Flushers, \/ FlushCall(f) \/ FlushAbandoned(f)
                                 \/ FlushRequest(f) \/ FlushAck(f)
      PROVE  Closing'
  BY <1>3 DEF FlushCall, FlushAbandoned, FlushRequest, FlushAck, loopVars,
              Closing
<1>4. CASE CloseCall
  BY <1>4 DEF CloseCall, clientVars, loopVars, Closing
<1>5. CASE CloseReturn
  BY <1>5 DEF CloseReturn, clientVars, loopVars, Closing
<1>6. CASE Receive
  <2>1. loop \in {"select", "drain"} /\ loop' = loop /\ ctxDone' = ctxDone
        /\ closed' = closed /\ ppc' = ppc
    BY <1>6 DEF Receive, clientVars
  <2>. QED
    BY <2>1 DEF Closing
<1>7. CASE Tick \/ DrainDone
  <2>1. loop \in {"select", "drain"} /\ loop' # "exit" /\ ctxDone' = ctxDone
        /\ closed' = closed /\ ppc' = ppc
    BY <1>7 DEF Tick, DrainDone, clientVars
  <2>. QED
    BY <2>1 DEF Closing
<1>8. CASE InputClosed
  <2>1. loop = "select" /\ closed /\ chan = <<>> /\ buf' = <<>>
        /\ UNCHANGED <<chan, closed, ctxDone, ppc>>
    BY <1>8 DEF InputClosed, flushLocked, clientVars
  <2>. QED
    BY <2>1 DEF Closing
<1>9. CASE Flush
  <2>1. stage # "none" /\ UNCHANGED <<chan, closed, ctxDone, ppc, loop, buf>>
    BY <1>9 DEF Flush, BeginTx, ExecItem, Rollback, Commit, Record,
                clientVars, loopVars
  <2>. QED
    BY <2>1 DEF Closing
<1>10. CASE UNCHANGED vars
  BY <1>10 DEF vars, clientVars, loopVars, Closing
<1>. QED
  BY <1>1, <1>2, <1>3, <1>4, <1>5, <1>6, <1>7, <1>8, <1>9, <1>10
     DEF Next, RunLoop, Producer, Terminated

LEMMA ClosingInit == Init => Counting /\ Closing
<1>. SUFFICES ASSUME Init PROVE Counting /\ Closing
  OBVIOUS
<1>1. Sent = {}
  BY DEF Init, Sent
<1>2. Cardinality(Sent) = 0
  BY <1>1, FS_EmptySet
<1>. QED
  BY <1>2 DEF Init, Counting, Closing

WriterInv == TypeOK /\ FlushShape /\ Books /\ Counting /\ Closing

LEMMA WriterInvAlways == Spec => []WriterInv
<1>1. Init => WriterInv
  BY TypeOKInit, BooksInit, ClosingInit DEF WriterInv
<1>2. WriterInv /\ [Next]_vars => WriterInv'
  BY TypeOKNext, BooksNext, CountingNext, ClosingNext DEF WriterInv
<1>. QED
  BY <1>1, <1>2, PTL DEF Spec

LEMMA WriterClosed ==
  ASSUME WriterInv, ctxDone
  PROVE  /\ chan = <<>> /\ buf = <<>> /\ batch = <<>>
         /\ Resolved = accepted /\ totalQueued = accepted
<1>1. chan = <<>> /\ buf = <<>> /\ batch = <<>>
  BY DEF WriterInv, Closing, FlushShape
<1>2. Resolved = accepted
  <2>1. Resolved + Len(batch) + Len(buf) + Len(chan) = accepted
    BY DEF WriterInv, Books
  <2>2. Resolved \in Nat
    BY Lengths DEF WriterInv
  <2>3. Len(batch) = 0 /\ Len(buf) = 0 /\ Len(chan) = 0
    BY <1>1
  <2>. QED
    BY <2>1, <2>2, <2>3
<1>3. totalQueued = accepted
  <2>1. Sent = {}
    BY DEF WriterInv, Closing, Sent
  <2>2. Cardinality(Sent) = 0
    BY <2>1, FS_EmptySet
  <2>. QED
    BY <2>2 DEF WriterInv, Counting, TypeOK
<1>. QED
  BY <1>1, <1>2, <1>3

\* When Close has returned nothing is left in the channel, the buffer or a
\* batch, and what Add ever counted is in the table or among the failures.
THEOREM CloseDrained == Spec => []CloseDrains
<1>1. WriterInv => CloseDrains
  BY WriterClosed DEF CloseDrains
<1>. QED
  BY <1>1, WriterInvAlways, PTL

-----------------------------------------------------------------------------
(* Flush.                                                                  *)

\* What the run loop owes a caller of Flush: once the channel has been drained
\* for it, the items it waits for are counted or in the batch.
Owed(f) ==
  /\ mark[f] <= accepted
  /\ fpc[f] = "waiting" => loop \in {"drain", "ack"}
  /\ fpc[f] = "waiting" /\ loop = "ack" => Resolved + Len(batch) >= mark[f]
  /\ fpc[f] = "done" => Resolved >= mark[f]

\* The run loop serves one caller at a time.
OneServed ==
  \A f, g \in Flushers : fpc[f] = "waiting" /\ fpc[g] = "waiting" => f = g

Acks == OneServed /\ \A f \in Flushers : Owed(f)

LEMMA NumberTypes ==
  ASSUME WriterInv
  PROVE  /\ Resolved \in Nat /\ Len(batch) \in Nat /\ accepted \in Nat
         /\ \A f \in Flushers : mark[f] \in Nat
<1>1. TypeOK
  BY DEF WriterInv
<1>. QED
  BY <1>1, Lengths DEF TypeOK

\* A flush adds its batch to the totals when it ends, and not before.
LEMMA FlushResolves ==
  ASSUME WriterInv, Flush
  PROVE  /\ Resolved' \in Nat /\ Len(batch') \in Nat
         /\ Resolved' >= Resolved
         /\ Resolved' + Len(batch') = Resolved + Len(batch)
<1>0. /\ Resolved \in Nat /\ Len(batch) \in Nat
      /\ stats.successful \in Nat /\ stats.failed \in Nat
  BY Lengths DEF WriterInv
<1>1. CASE BeginTx \/ ExecItem \/ Rollback \/ Commit
  <2>1. UNCHANGED <<batch, stats>>
    BY <1>1 DEF BeginTx, ExecItem, Rollback, Commit, loopVars, statVars
  <2>2. Resolved' = Resolved
    BY <2>1 DEF Resolved
  <2>. QED
    BY <1>0, <2>1, <2>2
<1>2. CASE Record
  <2>1. Len(batch') = 0
    BY <1>2, EmptyIsSeq DEF Record
  <2>2. \/ /\ stats'.successful = stats.successful + Len(batch)
           /\ stats'.failed = stats.failed
        \/ /\ stats'.successful = stats.successful
           /\ stats'.failed = stats.failed + Len(batch)
    BY <1>0, <1>2 DEF Record, bump
  <2>3. Resolved' = Resolved + Len(batch)
    BY <1>0, <2>2 DEF Resolved
  <2>. QED
    BY <1>0, <2>1, <2>3
<1>. QED
  BY <1>1, <1>2 DEF Flush

\* A step that leaves the caller alone and lets no item be forgotten.
LEMMA OwedKept ==
  ASSUME WriterInv, NEW f \in Flushers, Owed(f),
         UNCHANGED <<fpc, mark, loop, Resolved, batch>>,
         accepted' \in Nat, accepted' >= accepted
  PROVE  Owed(f)'
<1>1. mark[f] \in Nat /\ accepted \in Nat
  BY NumberTypes
<1>2. mark'[f] <= accepted'
  BY <1>1 DEF Owed
<1>. QED
  BY <1>2 DEF Owed

LEMMA OwedByCallers ==
  ASSUME WriterInv, OneServed, NEW f \in Flushers, Owed(f), NEW g \in Flushers,
         FlushCall(g) \/ FlushAbandoned(g) \/ FlushRequest(g) \/ FlushAck(g)
  PROVE  Owed(f)'
<1>0. /\ Resolved \in Nat /\ accepted \in Nat /\ Len(batch) \in Nat
      /\ \A h \in Flushers : mark[h] \in Nat
  BY NumberTypes
<1>1. fpc \in [Flushers -> {"idle", "asking", "waiting", "done"}]
      /\ mark \in [Flushers -> Nat]
  BY DEF WriterInv, TypeOK
<1>2. Resolved' = Resolved /\ batch' = batch /\ accepted' = accepted
  BY DEF FlushCall, FlushAbandoned, FlushRequest, FlushAck, loopVars,
         statVars, Resolved
<1>3. CASE FlushCall(g)
  <2>1. /\ mark' = [mark EXCEPT ![g] = accepted]
        /\ fpc' = [fpc EXCEPT ![g] = "asking"] /\ loop' = loop
    BY <1>3 DEF FlushCall, loopVars
  <2>2. CASE f = g
    <3>1. mark'[f] = accepted /\ fpc'[f] = "asking"
      BY <1>1, <2>1, <2>2
    <3>. QED
      BY <1>0, <1>2, <3>1 DEF Owed
  <2>3. CASE f # g
    <3>1. mark'[f] = mark[f] /\ fpc'[f] = fpc[f]
      BY <1>1, <2>1, <2>3
    <3>. QED
      BY <1>2, <2>1, <3>1 DEF Owed
  <2>. QED
    BY <2>2, <2>3
<1>4. CASE FlushAbandoned(g)
  <2>1. ctxDone /\ fpc' = [fpc EXCEPT ![g] = "done"] /\ UNCHANGED <<mark, loop>>
    BY <1>4 DEF FlushAbandoned, loopVars
  <2>2. Resolved = accepted
    BY <2>1, WriterClosed
  <2>3. fpc'[f] \in {fpc[f], "done"}
    BY <1>1, <2>1
  <2>4. Resolved >= mark[f]
    BY <1>0, <2>2 DEF Owed
  <2>. QED
    BY <1>2, <2>1, <2>3, <2>4 DEF Owed
<1>5. CASE FlushRequest(g)
  <2>1. /\ fpc' = [fpc EXCEPT ![g] = "waiting"] /\ loop' = "drain"
        /\ mark' = mark
    BY <1>5 DEF FlushRequest
  <2>2. fpc'[f] \in {fpc[f], "waiting"}
    BY <1>1, <2>1
  <2>. QED
    BY <1>2, <2>1, <2>2 DEF Owed
<1>6. CASE FlushAck(g)
  <2>1. /\ fpc[g] = "waiting" /\ fpc' = [fpc EXCEPT ![g] = "done"]
        /\ loop = "ack" /\ loop' = "select" /\ stage = "none" /\ mark' = mark
    BY <1>6 DEF FlushAck
  <2>2. Len(batch) = 0
    BY <2>1, EmptyIsSeq DEF WriterInv, FlushShape
  <2>3. fpc[f] = "waiting" => Resolved >= mark[f]
    BY <1>0, <2>1, <2>2 DEF Owed
  <2>4. CASE f = g
    <3>1. fpc'[f] = "done"
      BY <1>1, <2>1, <2>4
    <3>. QED
      BY <1>2, <2>1, <2>3, <2>4, <3>1 DEF Owed
  <2>5. CASE f # g
    <3>1. fpc'[f] = fpc[f] /\ fpc[f] # "waiting"
      BY <1>1, <2>1, <2>5 DEF OneServed
    <3>. QED
      BY <1>2, <2>1, <2>3, <2>5, <3>1 DEF Owed
  <2>. QED
    BY <2>4, <2>5
<1>. QED
  BY <1>3, <1>4, <1>5, <1>6

LEMMA OneServedKept ==
  ASSUME WriterInv, Acks, [Next]_vars
  PROVE  OneServed'
<1>0. fpc \in [Flushers -> {"idle", "asking", "waiting", "done"}]
  BY DEF WriterInv, TypeOK
<1>1. ASSUME fpc' = fpc
      PROVE  OneServed'
  BY <1>1 DEF Acks, OneServed
<1>2. ASSUME NEW g \in Flushers, NEW to \in {"asking", "done"},
             fpc' = [fpc EXCEPT ![g] = to]
      PROVE  OneServed'
  <2>1. \A f \in Flushers : fpc'[f] = "waiting" => fpc[f] = "waiting"
    BY <1>0, <1>2
  <2>. QED
    BY <2>1 DEF Acks, OneServed
<1>3. ASSUME NEW g \in Flushers, FlushRequest(g)
      PROVE  OneServed'
  <2>1. \A f \in Flushers : fpc[f] # "waiting"
    BY <1>3 DEF FlushRequest, Acks, Owed
  <2>2. \A f \in Flushers : fpc'[f] = "waiting" => f = g
    BY <1>0, <1>3, <2>1 DEF FlushRequest
  <2>. QED
    BY <2>2 DEF OneServed
<1>4. CASE \E p \in Producers : Producer(p)
  BY <1>1, <1>4 DEF Producer, AddSend, AddCount, ProducerDone
<1>5. ASSUME NEW g \in Flushers, FlushCall(g) \/ FlushAbandoned(g) \/ FlushAck(g)
      PROVE  OneServed'
  BY <1>2, <1>5 DEF FlushCall, FlushAbandoned, FlushAck
<1>6. CASE CloseCall \/ CloseReturn \/ UNCHANGED vars
  BY <1>1, <1>6 DEF CloseCall, CloseReturn, vars, clientVars
<1>7. CASE Receive \/ Tick \/ DrainDone \/ InputClosed
  BY <1>1, <1>7 DEF Receive, Tick, DrainDone, InputClosed, clientVars
<1>8. CASE Flush
  BY <1>1, <1>8 DEF Flush, BeginTx, ExecItem, Rollback, Commit, Record,
                    clientVars
<1>. QED
  BY <1>3, <1>4, <1>5, <1>6, <1>7, <1>8 DEF Next, RunLoop, Terminated

LEMMA OwedNext ==
  ASSUME WriterInv, Acks, [Next]_vars, NEW f \in Flushers
  PROVE  Owed(f)'
<1>0. Owed(f) /\ OneServed
  BY DEF Acks
<1>. USE <1>0
<1>1. /\ Resolved \in Nat /\ accepted \in Nat /\ Len(batch) \in Nat
      /\ \A h \in Flushers : mark[h] \in Nat
  BY NumberTypes
<1>2. ASSUME NEW p \in Producers, NEW k \in Kinds, AddSend(p, k)
      PROVE  Owed(f)'
  <2>1. UNCHANGED <<fpc, mark, loop, Resolved, batch>>
    BY <1>2 DEF AddSend, loopVars, statVars, Resolved
  <2>2. accepted' = accepted + 1
    BY <1>2 DEF AddSend
  <2>. QED
    BY <1>1, <2>1, <2>2, OwedKept
<1>3. ASSUME NEW p \in Producers, AddCount(p) \/ ProducerDone(p)
      PROVE  Owed(f)'
  <2>1. UNCHANGED <<fpc, mark, loop, Resolved, batch, accepted>>
    BY <1>3 DEF AddCount, ProducerDone, loopVars, statVars, Resolved
  <2>. QED
    BY <1>1, <2>1, OwedKept
<1>4. CASE CloseCall \/ CloseReturn \/ UNCHANGED vars
  <2>1. UNCHANGED <<fpc, mark, loop, Resolved, batch, accepted>>
    BY <1>4 DEF CloseCall, CloseReturn, vars, clientVars, loopVars, statVars,
                Resolved
  <2>. QED
    BY <1>1, <2>1, OwedKept
<1>5. CASE \E g \in Flushers : FlushCall(g) \/ FlushAbandoned(g)
                                \/ FlushRequest(g) \/ FlushAck(g)
  BY <1>5, OwedByCallers
<1>6. CASE Receive \/ Tick \/ InputClosed
  <2>1. loop \in {"select", "drain"} /\ loop' \in {loop, "exit"}
        /\ (loop' = "exit" => loop = "select")
        /\ UNCHANGED <<fpc, mark, Resolved, accepted>>
    BY <1>6 DEF Receive, Tick, InputClosed, clientVars, statVars, Resolved
  <2>. QED
    BY <2>1 DEF Owed
<1>7. CASE DrainDone
  <2>1. /\ loop' = "ack" /\ stage = "none" /\ chan = <<>> /\ batch' = buf
        /\ UNCHANGED <<fpc, mark, Resolved, accepted>>
    BY <1>7 DEF DrainDone, flushLocked, clientVars, statVars, Resolved
  <2>2. Resolved + Len(batch) + Len(buf) + Len(chan) = accepted
    BY DEF WriterInv, Books
  <2>3. Len(batch) = 0 /\ Len(chan) = 0
    BY <2>1, EmptyIsSeq DEF WriterInv, FlushShape
  <2>4. Len(buf) \in Nat
    BY Lengths DEF WriterInv
  <2>5. Resolved' + Len(batch') = accepted
    BY <1>1, <2>1, <2>2, <2>3, <2>4
  <2>. QED
    BY <2>1, <2>5 DEF Owed
<1>8. CASE Flush
  <2>1. UNCHANGED <<fpc, mark, loop, accepted>>
    BY <1>8 DEF Flush, BeginTx, ExecItem, Rollback, Commit, Record,
                clientVars, loopVars
  <2>2. /\ Resolved' \in Nat /\ Resolved' >= Resolved
        /\ Resolved' + Len(batch') = Resolved + Len(batch)
    BY <1>8, FlushResolves
  <2>. QED
    BY <1>1, <2>1, <2>2 DEF Owed
<1>. QED
  BY <1>2, <1>3, <1>4, <1>5, <1>6, <1>7, <1>8
     DEF Next, RunLoop, Producer, Terminated

LEMMA AcksInit == Init => Acks
BY DEF Init, Acks, OneServed, Owed

LEMMA AcksAlways == Spec => [](WriterInv /\ Acks)
<1>1. WriterInv /\ Acks /\ [Next]_vars => Acks'
  BY OneServedKept, OwedNext DEF Acks
<1>. QED
  BY <1>1, AcksInit, WriterInvAlways, PTL DEF Spec

\* A call of Flush that has returned, for whichever reason, has seen every item
\* accepted before it committed or recorded as failed.
THEOREM FlushSynchronous == Spec => []FlushIsSynchronous
<1>1. Acks => FlushIsSynchronous
  BY DEF Acks, Owed, FlushIsSynchronous
<1>. QED
  BY <1>1, AcksAlways, PTL

-----------------------------------------------------------------------------
(* Nobody waits for ever for somebody who waits: while anything is queued or *)
(* anybody is in Flush or Close, the run loop or the one it has answered has *)
(* a step that nothing holds up.  The guards are those of the actions.       *)

Busy ==
  \/ chan # <<>> \/ batch # <<>>
  \/ closed /\ ~ctxDone
  \/ \E f \in Flushers : fpc[f] \in {"asking", "waiting"}

SelectCanMove ==
  \/ chan # <<>>
  \/ Ticker /\ buf # <<>>
  \/ \E f \in Flushers : fpc[f] = "asking"
  \/ closed

FlushCanMove ==
  \/ stage \in {"begin", "record"}
  \/ stage = "ops" /\ (flushErr \/ Len(tx) <= Len(batch))

RunLoopCanMove ==
  \/ FlushCanMove
  \/ /\ stage = "none"
     /\ \/ loop = "select" /\ SelectCanMove
        \/ loop = "drain"
        \/ loop = "ack" /\ \E f \in Flushers : fpc[f] = "waiting"

CallerCanMove ==
  \/ closed /\ ~ctxDone /\ loop = "exit" /\ stage = "none"
  \/ ctxDone /\ \E f \in Flushers : fpc[f] = "asking"

NeverStuck == Busy => RunLoopCanMove \/ CallerCanMove

\* The acknowledgement is never sent to nobody.
Served == loop \in {"drain", "ack"} => \E f \in Flushers : fpc[f] = "waiting"

LEMMA ServedNext == TypeOK /\ Served /\ [Next]_vars => Served'
<1>. SUFFICES ASSUME TypeOK, Served, [Next]_vars PROVE Served'
  OBVIOUS
<1>1. fpc \in [Flushers -> {"idle", "asking", "waiting", "done"}]
  BY DEF TypeOK
<1>2. ASSUME NEW f \in Flushers, FlushCall(f) \/ FlushAbandoned(f)
      PROVE  Served'
  <2>1. /\ fpc[f] \in {"idle", "asking"} /\ loop' = loop
        /\ \E v : fpc' = [fpc EXCEPT ![f] = v]
    BY <1>2 DEF FlushCall, FlushAbandoned, loopVars
  <2>2. \A g \in Flushers : fpc[g] = "waiting" => fpc'[g] = "waiting"
    BY <1>1, <2>1
  <2>. QED
    BY <2>1, <2>2 DEF Served
<1>3. ASSUME NEW f \in Flushers, FlushRequest(f) PROVE Served'
  BY <1>1, <1>3 DEF Served, FlushRequest
<1>4. ASSUME NEW f \in Flushers, FlushAck(f) PROVE Served'
  BY <1>4 DEF Served, FlushAck
<1>5. CASE DrainDone
  BY <1>5 DEF Served, DrainDone, clientVars
<1>6. CASE InputClosed
  BY <1>6 DEF Served, InputClosed
<1>7. CASE Receive \/ Tick \/ Flush
  <2>1. UNCHANGED <<loop, fpc>>
    BY <1>7 DEF Receive, Tick, Flush, BeginTx, ExecItem, Rollback, Commit,
                Record, clientVars, loopVars
  <2>. QED
    BY <2>1 DEF Served
<1>8. CASE (\E p \in Producers : Producer(p)) \/ CloseCall \/ CloseReturn
           \/ UNCHANGED vars
  <2>1. UNCHANGED <<loop, fpc>>
    BY <1>8 DEF Producer, AddSend, AddCount, ProducerDone, CloseCall,
                CloseReturn, vars, clientVars, loopVars
  <2>. QED
    BY <2>1 DEF Served
<1>. QED
  BY <1>2, <1>3, <1>4, <1>5, <1>6, <1>7, <1>8 DEF Next, RunLoop, Terminated

\* Flush, Close and the run loop never wait in a circle, however many call
\* Flush, whatever the channel holds and whatever the database answers.
THEOREM NobodyStuck == Spec => []NeverStuck
<1>1. WriterInv /\ Acks /\ Served => NeverStuck
  <2>. SUFFICES ASSUME WriterInv, Acks, Served, Busy, ~RunLoopCanMove
                PROVE  CallerCanMove
    BY DEF NeverStuck
  <2>1. /\ loop \in {"select", "drain", "ack", "exit"}
        /\ stage \in {"none", "begin", "ops", "record"}
    BY DEF WriterInv, TypeOK
  <2>2. stage = "none" /\ batch = <<>>
    BY <2>1 DEF RunLoopCanMove, FlushCanMove, WriterInv, FlushShape
  <2>3. loop \notin {"drain", "ack"}
    BY <2>2 DEF RunLoopCanMove, Served
  <2>4. CASE loop = "select"
    <3>1. ~SelectCanMove
      BY <2>2, <2>4 DEF RunLoopCanMove
    <3>2. PICK f \in Flushers : fpc[f] = "waiting"
      BY <2>2, <3>1 DEF Busy, SelectCanMove
    <3>. QED
      BY <2>4, <3>2 DEF Acks, Owed
  <2>5. CASE loop = "exit"
    <3>1. closed /\ chan = <<>>
      BY <2>5 DEF WriterInv, Closing
    <3>2. \A f \in Flushers : fpc[f] # "waiting"
      BY <2>5 DEF Acks, Owed
    <3>. QED
      BY <2>2, <2>5, <3>1, <3>2 DEF Busy, CallerCanMove
  <2>. QED
    BY <2>1, <2>3, <2>4, <2>5
<1>2. Init => Served
  BY DEF Init, Served
<1>3. WriterInv /\ Served /\ [Next]_vars => Served'
  BY ServedNext DEF WriterInv
<1>. QED
  BY <1>1, <1>2, <1>3, AcksAlways, PTL DEF Spec
=============================================================================
