------------------------ MODULE BatchWriterQueueProofs ------------------------
(***************************************************************************)
(* The batch writer is the FIFO queue of module WriteQueue, for every      *)
(* number of producers and callers of Flush, every batch size, channel     *)
(* capacity and set of kinds; and its counters by kind are right.          *)
(***************************************************************************)
EXTENDS BatchWriterProofs, SequenceTheorems, FunctionTheorems

\* A flush under way has a batch, of which the open transaction holds the
\* first items in their order.
BatchShape ==
  /\ stage # "none" => batch # <<>>
  /\ stage = "ops" => tx = SubSeq(batch, 1, Len(tx))

LEMMA BatchShapeHandover ==
  ASSUME NEW b, flushLocked(b) \/ Buffer(b), stage = "none"
  PROVE  BatchShape'
<1>1. CASE flushLocked(b)
  BY <1>1 DEF flushLocked, BatchShape
<1>2. CASE buf' = b /\ UNCHANGED <<batch, stage>>
  BY <1>2 DEF BatchShape
<1>. QED
  BY <1>1, <1>2 DEF Buffer

LEMMA BatchShapeNext ==
  TypeOK /\ FlushShape /\ BatchShape /\ [Next]_vars => BatchShape'
<1>. SUFFICES ASSUME TypeOK, FlushShape, BatchShape, [Next]_vars
              PROVE  BatchShape'
  OBVIOUS
<1>1. CASE UNCHANGED <<stage, batch, tx>>
  BY <1>1 DEF BatchShape
<1>2. CASE Receive \/ Tick \/ DrainDone \/ InputClosed
  BY <1>2, BatchShapeHandover DEF Receive, Tick, DrainDone, InputClosed
<1>3. CASE BeginTx
  <2>1. /\ stage = "begin" /\ UNCHANGED <<batch, tx>>
        /\ batch # <<>> /\ tx = <<>>
    BY <1>3 DEF BeginTx, BatchShape, FlushShape
  <2>2. SubSeq(batch, 1, 0) = <<>> /\ Len(<<>>) = 0
    BY SubSeqEmpty
  <2>. QED
    BY <2>1, <2>2 DEF BatchShape
<1>4. CASE ExecItem
  <2>1. /\ stage = "ops" /\ Len(tx) < Len(batch)
        /\ UNCHANGED <<stage, batch>>
        /\ tx' \in {tx, Append(tx, batch[Len(tx) + 1])}
        /\ batch # <<>> /\ tx = SubSeq(batch, 1, Len(tx))
    BY <1>4 DEF ExecItem, loopVars, BatchShape
  <2>2. CASE tx' = Append(tx, batch[Len(tx) + 1])
    <3>1. /\ Len(tx) + 1 \in 1..Len(batch) /\ batch[Len(tx) + 1] \in Item
          /\ Len(tx') = Len(tx) + 1
      BY <2>1, <2>2, SequenceTypes
    <3>2. tx' = SubSeq(batch, 1, Len(tx) + 1)
      BY <2>1, <2>2, <3>1, SequenceTypes, SubSeqRecursiveSecond, AppendIsConcat
    <3>. QED
      BY <2>1, <3>1, <3>2 DEF BatchShape
  <2>. QED
    BY <2>1, <2>2 DEF BatchShape
<1>5. CASE Rollback \/ Commit
  BY <1>5 DEF Rollback, Commit, BatchShape
<1>6. CASE Record
  BY <1>6 DEF Record, BatchShape
<1>. QED
  BY <1>1, <1>2, <1>3, <1>4, <1>5, <1>6
     DEF Next, RunLoop, Flush, Producer, Terminated, AddSend, AddCount,
         ProducerDone, FlushCall, FlushAbandoned, CloseCall, CloseReturn,
         FlushRequest, FlushAck, vars, loopVars, flushVars

-----------------------------------------------------------------------------
(* The refinement.  A step of the writer that decides nothing keeps the    *)
(* queue; a send appends to it, a commit or the record of a failed batch   *)
(* takes the batch from its front.                                         *)

QueueInv == TypeOK /\ FlushShape /\ Books /\ BatchShape

LEMMA QueueTypes ==
  ASSUME QueueInv
  PROVE  /\ chan \in Seq(Item) /\ buf \in Seq(Item) /\ batch \in Seq(Item)
         /\ Unresolved \in Seq(Item) /\ Pending \in Seq(Item)
         /\ buf \o chan \in Seq(Item)
         /\ Pending = Unresolved \o (buf \o chan)
<1>1. /\ chan \in Seq(Item) /\ buf \in Seq(Item) /\ batch \in Seq(Item)
      /\ Unresolved \in Seq(Item)
  BY SequenceTypes, EmptyIsSeq DEF QueueInv, Unresolved
<1>. QED
  BY <1>1, JoinedSeq, ConcatAssociative DEF Pending

\* What is resolved, in doubt and waiting is what was accepted, in the middle of
\* a flush too: the queue numbers its items as the channel does.
LEMMA NextIdIsAccepted ==
  ASSUME QueueInv
  PROVE  WQ!NextId = accepted + 1
<1>1. Len(Pending) = Len(Unresolved) + Len(buf) + Len(chan)
  BY QueueTypes, JoinedLength
<1>2. /\ Resolved = stats.successful + stats.failed
      /\ stats.failed = Len(lost)
      /\ Resolved + Len(batch) + Len(buf) + Len(chan) = accepted
  BY DEF QueueInv, Books, Resolved
<1>3. stats.successful + Len(batch) = Len(table) + Len(Unresolved)
  <2>1. CASE stage = "record" /\ ~flushErr
    <3>1. Unresolved = <<>> /\ flushErr = FALSE
      BY <2>1, SequenceTypes DEF Unresolved, QueueInv
    <3>. QED
      BY <2>1, <3>1, Lengths DEF QueueInv, Books
  <2>2. CASE ~(stage = "record" /\ ~flushErr)
    <3>1. Unresolved = batch /\ (stage # "record" \/ flushErr = TRUE)
      BY <2>2, SequenceTypes DEF Unresolved, QueueInv
    <3>. QED
      BY <3>1, Lengths DEF QueueInv, Books
  <2>. QED
    BY <2>1, <2>2
<1>4. Len(Unresolved) \in Nat
  BY QueueTypes
<1>5. /\ Len(batch) \in Nat /\ Len(buf) \in Nat /\ Len(chan) \in Nat
      /\ Len(table) \in Nat /\ Len(lost) \in Nat /\ accepted \in Nat
      /\ stats.successful \in Nat /\ stats.failed \in Nat
  BY Lengths DEF QueueInv
<1>6. WQ!NextId = Len(Pending) + Len(table) + Len(lost) + 1
  BY DEF WQ!NextId
<1>7. stats.successful + stats.failed + Len(batch) + Len(buf) + Len(chan)
        = accepted
  BY <1>2
<1>8. Len(Pending) + Len(table) + Len(lost) = accepted
  <2>. DEFINE waiting == Len(batch) + Len(buf) + Len(chan)
  <2>1. waiting \in Nat /\ Len(Pending) \in Nat
    BY <1>5, QueueTypes
  <2>2. Len(Pending) + Len(table) = stats.successful + waiting
    BY <1>1, <1>3, <1>4, <1>5
  <2>3. stats.successful + Len(lost) + waiting = accepted
    BY <1>2, <1>5, <1>7
  <2>. HIDE DEF waiting
  <2>4. /\ Len(table) \in Nat /\ Len(lost) \in Nat
        /\ stats.successful \in Nat
    BY <1>5
  <2>5. Len(Pending) + Len(table) + Len(lost)
          = (stats.successful + waiting) + Len(lost)
    BY <2>2
  <2>6. (stats.successful + waiting) + Len(lost)
          = stats.successful + Len(lost) + waiting
    BY <2>1, <2>4
  <2>. QED
    BY <2>3, <2>5, <2>6
<1>. QED
  BY <1>5, <1>6, <1>8

LEMMA SendAppends ==
  ASSUME QueueInv, NEW p \in Producers, NEW k \in Kinds, AddSend(p, k)
  PROVE  WQ!Accept(k)
<1>. DEFINE it == [id |-> accepted + 1, kind |-> k]
<1>1. it \in Item
  BY SequenceTypes DEF QueueInv, Item
<1>2. /\ chan' = Append(chan, it)
      /\ UNCHANGED <<stage, buf, batch, flushErr, table, lost>>
  BY DEF AddSend, loopVars, flushVars, statVars
<1>3. Pending' = (Unresolved \o buf) \o Append(chan, it)
  BY <1>2 DEF Pending, Unresolved
<1>4. Pending' = Append(Pending, it)
  <2>1. Unresolved \o buf \in Seq(Item) /\ chan \in Seq(Item)
        /\ <<it>> \in Seq(Item)
    BY <1>1, QueueTypes, JoinedSeq
  <2>2. Append(chan, it) = chan \o <<it>>
        /\ Append(Pending, it) = Pending \o <<it>>
    BY <1>1, QueueTypes, AppendIsConcat, Zenon
  <2>3. ((Unresolved \o buf) \o chan) \o <<it>>
          = (Unresolved \o buf) \o (chan \o <<it>>)
    BY <2>1, ConcatAssociative
  <2>. QED
    BY <1>3, <2>2, <2>3, Zenon DEF Pending
<1>. QED
  BY <1>2, <1>4, NextIdIsAccepted DEF WQ!Accept

\* The loop moves items from the channel to the buffer and from there to the
\* batch: the same queue.
LEMMA HandoverKeepsQueue ==
  ASSUME QueueInv, stage = "none",
         NEW b \in Seq(Item), flushLocked(b) \/ Buffer(b),
         chan' \in Seq(Item), b \o chan' = buf \o chan,
         UNCHANGED <<flushErr, table, lost>>
  PROVE  UNCHANGED <<Pending, table, lost>>
<1>1. batch = <<>> /\ Unresolved = <<>>
  BY DEF QueueInv, FlushShape, Unresolved
<1>2. Pending = buf \o chan
  BY <1>1, QueueTypes, ConcatEmptySeq
<1>3. CASE flushLocked(b)
  <2>1. stage' # "record" /\ batch' = b /\ buf' = <<>>
    BY <1>3 DEF flushLocked
  <2>2. Pending' = (b \o <<>>) \o chan'
    BY <2>1 DEF Pending, Unresolved
  <2>. QED
    BY <1>2, <2>2, ConcatEmptySeq
<1>4. CASE buf' = b /\ UNCHANGED <<batch, stage>>
  <2>1. Pending' = (<<>> \o b) \o chan'
    BY <1>1, <1>4 DEF Pending, Unresolved
  <2>. QED
    BY <1>2, <2>1, ConcatEmptySeq
<1>. QED
  BY <1>3, <1>4 DEF Buffer

LEMMA HeadMoves ==
  ASSUME NEW s \in Seq(Item), NEW t \in Seq(Item), t # <<>>
  PROVE  Append(s, Head(t)) \o Tail(t) = s \o t
<1>1. /\ Head(t) \in Item /\ Tail(t) \in Seq(Item)
      /\ <<Head(t)>> \in Seq(Item)
  OBVIOUS
<1>2. t = <<Head(t)>> \o Tail(t)
  OBVIOUS
<1>3. Append(s, Head(t)) = s \o <<Head(t)>>
  BY <1>1, AppendIsConcat
<1>4. \A u \in Seq(Item) : (s \o u) \o Tail(t) = s \o (u \o Tail(t))
  BY <1>1, ConcatAssociative
<1>. QED
  BY <1>1, <1>2, <1>3, <1>4, Zenon

LEMMA LoopKeepsQueue ==
  ASSUME QueueInv, Receive \/ Tick \/ DrainDone \/ InputClosed
  PROVE  UNCHANGED <<Pending, table, lost>>
<1>1. CASE Receive
  <2>1. /\ chan # <<>> /\ chan' = Tail(chan) /\ stage = "none"
        /\ UNCHANGED <<flushErr, table, lost>>
        /\ Buffer(Append(buf, Head(chan)))
    BY <1>1 DEF Receive, flushVars, statVars
  <2>2. /\ Head(chan) \in Item /\ Tail(chan) \in Seq(Item)
        /\ Append(buf, Head(chan)) \in Seq(Item)
    BY <2>1, QueueTypes
  <2>3. Append(buf, Head(chan)) \o Tail(chan) = buf \o chan
    BY <2>1, QueueTypes, HeadMoves
  <2>. QED
    BY <2>1, <2>2, <2>3, HandoverKeepsQueue
<1>2. CASE Tick \/ DrainDone \/ InputClosed
  <2>1. /\ stage = "none" /\ flushLocked(buf) /\ chan' = chan
        /\ UNCHANGED <<flushErr, table, lost>>
    BY <1>2 DEF Tick, DrainDone, InputClosed, flushVars, statVars
  <2>. QED
    BY <2>1, QueueTypes, HandoverKeepsQueue
<1>. QED
  BY <1>1, <1>2

\* A batch that leaves the front of the queue leaves the rest behind.
LEMMA FrontLeaves ==
  ASSUME QueueInv, stage # "none", Unresolved = batch,
         Unresolved' = <<>>, UNCHANGED <<buf, chan>>
  PROVE  /\ Len(batch) \in 1..Len(Pending) /\ Len(batch) <= MaxBatchSize
         /\ SubSeq(Pending, 1, Len(batch)) = batch
         /\ Pending' = SubSeq(Pending, Len(batch) + 1, Len(Pending))
<1>. DEFINE rest == buf \o chan
<1>1. batch # <<>> /\ batch \in Seq(Item) /\ Len(batch) <= MaxBatchSize
  BY DEF QueueInv, BatchShape, TypeOK
<1>2. rest \in Seq(Item) /\ Pending = batch \o rest /\ Pending \in Seq(Item)
  BY QueueTypes
<1>3. Len(Pending) = Len(batch) + Len(rest) /\ Len(batch) \in Nat \ {0}
      /\ Len(rest) \in Nat
  BY <1>1, <1>2, JoinedLength
<1>4. SubSeq(Pending, 1, Len(batch)) = batch
  BY <1>1, <1>2, <1>3, SubSeqOfConcat1, SubSeqFull
<1>5. Pending' = rest
  <2>1. Pending' = (<<>> \o buf) \o chan
    BY DEF Pending
  <2>. QED
    BY <2>1, QueueTypes, ConcatEmptySeq
<1>6. SubSeq(Pending, Len(batch) + 1, Len(Pending)) = rest
  <2>1. CASE rest = <<>>
    BY <1>3, <2>1, SubSeqEmpty
  <2>2. CASE rest # <<>>
    <3>1. Len(rest) \in Nat \ {0}
      BY <1>2, <2>2
    <3>2. SubSeq(batch \o rest, Len(batch) + 1, Len(batch) + Len(rest))
            = SubSeq(rest, 1, Len(rest))
      <4>1. /\ Len(batch) + 1 \in Len(batch)+1 .. Len(batch)+Len(rest)
            /\ Len(batch) + Len(rest) \in Len(batch)+1 .. Len(batch)+Len(rest)
            /\ Len(batch) + 1 - Len(batch) = 1
            /\ Len(batch) + Len(rest) - Len(batch) = Len(rest)
        BY <1>3, <3>1
      <4>2. SubSeq(batch \o rest, Len(batch) + 1, Len(batch) + Len(rest))
              = SubSeq(rest, Len(batch) + 1 - Len(batch),
                       Len(batch) + Len(rest) - Len(batch))
        BY <1>1, <1>2, <4>1, SubSeqOfConcat2
      <4>. QED
        BY <4>1, <4>2
    <3>. QED
      BY <1>2, <1>3, <3>2, SubSeqFull
  <2>. QED
    BY <2>1, <2>2
<1>7. Len(batch) \in 1..Len(Pending)
  BY <1>3
<1>. QED
  BY <1>1, <1>4, <1>5, <1>6, <1>7, Zenon

\* A step that touches nothing of the queue.
LEMMA OthersKeepQueue ==
  ASSUME UNCHANGED <<stage, flushErr, buf, batch, chan, table, lost>>
  PROVE  UNCHANGED <<Pending, table, lost>>
BY DEF Pending, Unresolved

LEMMA FlushResolvesFront ==
  ASSUME QueueInv, Flush
  PROVE  [WQ!Next]_<<Pending, table, lost>>
<1>1. CASE BeginTx \/ ExecItem \/ Rollback
  <2>1. /\ stage \in {"begin", "ops"}
        /\ stage' = "record" => flushErr'
        /\ UNCHANGED <<buf, batch, chan, table, lost>>
    BY <1>1 DEF BeginTx, ExecItem, Rollback, loopVars, statVars
  <2>2. Unresolved = batch /\ Unresolved' = batch
    BY <2>1 DEF Unresolved
  <2>3. Pending' = Pending
    BY <2>1, <2>2 DEF Pending
  <2>. QED
    BY <2>1, <2>3
<1>2. CASE Commit
  <2>1. /\ stage = "ops" /\ stage' = "record" /\ ~flushErr
        /\ Len(tx) = Len(batch)
        /\ UNCHANGED <<buf, batch, chan, lost>>
    BY <1>2 DEF Commit, statVars
  <2>2. Unresolved = batch
    BY <2>1 DEF Unresolved
  <2>3. CASE table' = table \o tx /\ UNCHANGED flushErr
    <3>1. tx = batch
      <4>1. batch \in Seq(Item) /\ tx = SubSeq(batch, 1, Len(batch))
        BY <2>1 DEF QueueInv, BatchShape, TypeOK
      <4>. QED
        BY <4>1, SubSeqFull
    <3>2. Unresolved' = <<>>
      BY <2>1, <2>3 DEF Unresolved
    <3>3. WQ!Resolve(Len(batch))
      BY <2>1, <2>2, <2>3, <3>1, <3>2, FrontLeaves DEF WQ!Resolve
    <3>. QED
      BY <2>1, <2>2, <3>2, <3>3, FrontLeaves DEF WQ!Next
  <2>4. CASE flushErr' = TRUE /\ UNCHANGED table
    <3>1. Unresolved' = batch
      BY <2>1, <2>4 DEF Unresolved
    <3>. QED
      BY <2>1, <2>2, <2>4, <3>1 DEF Pending
  <2>. QED
    BY <1>2, <2>3, <2>4 DEF Commit
<1>3. CASE Record
  <2>1. /\ stage = "record" /\ stage' = "none" /\ batch' = <<>>
        /\ lost' = IF flushErr THEN lost \o batch ELSE lost
        /\ UNCHANGED <<buf, chan, table>>
    BY <1>3 DEF Record
  <2>2. Unresolved' = <<>>
    BY <2>1 DEF Unresolved
  <2>3. CASE flushErr
    <3>1. Unresolved = batch
      BY <2>3 DEF Unresolved
    <3>2. WQ!Resolve(Len(batch))
      BY <2>1, <2>2, <2>3, <3>1, FrontLeaves DEF WQ!Resolve
    <3>. QED
      BY <2>1, <2>2, <3>1, <3>2, FrontLeaves DEF WQ!Next
  <2>4. CASE ~flushErr
    <3>1. Unresolved = <<>>
      BY <2>1, <2>4 DEF Unresolved
    <3>. QED
      BY <2>1, <2>2, <2>4, <3>1 DEF Pending
  <2>. QED
    BY <2>3, <2>4
<1>. QED
  BY <1>1, <1>2, <1>3 DEF Flush

LEMMA QueueStep ==
  ASSUME QueueInv, [Next]_vars
  PROVE  [WQ!Next]_<<Pending, table, lost>>
<1>1. ASSUME NEW p \in Producers, NEW k \in Kinds, AddSend(p, k)
      PROVE  WQ!Next
  BY <1>1, SendAppends DEF WQ!Next
<1>2. CASE Receive \/ Tick \/ DrainDone \/ InputClosed
  BY <1>2, LoopKeepsQueue
<1>3. CASE Flush
  BY <1>3, FlushResolvesFront
<1>4. CASE \/ \E p \in Producers : AddCount(p) \/ ProducerDone(p)
           \/ \E f \in Flushers : \/ FlushCall(f) \/ FlushAbandoned(f)
                                  \/ FlushRequest(f) \/ FlushAck(f)
           \/ CloseCall \/ CloseReturn \/ UNCHANGED vars
  <2>1. UNCHANGED <<stage, flushErr, buf, batch, chan, table, lost>>
    BY <1>4 DEF AddCount, ProducerDone, FlushCall, FlushAbandoned, FlushRequest,
                FlushAck, CloseCall, CloseReturn, vars, loopVars, flushVars,
                statVars
  <2>. QED
    BY <2>1, OthersKeepQueue
<1>. QED
  BY <1>1, <1>2, <1>3, <1>4 DEF Next, RunLoop, Producer, Terminated

LEMMA QueueInvAlways == Spec => []QueueInv
<1>1. Init => BatchShape
  BY DEF Init, BatchShape
<1>2. TypeOK /\ FlushShape /\ Books /\ BatchShape /\ [Next]_vars => BatchShape'
  BY BatchShapeNext
<1>. QED
  BY <1>1, <1>2, BooksAlways, PTL DEF Spec, QueueInv

\* The writer implements the queue: whatever the producers, the timer, Flush,
\* Close and the database do, items leave in the order in which the channel
\* accepted them, at most a batch at a time, each batch stored whole or
\* recorded as failed whole.
THEOREM WriterImplementsQueue == Spec => ImplementsWriteQueue
<1>1. Init => WQ!Init
  <2>. SUFFICES ASSUME Init PROVE WQ!Init
    OBVIOUS
  <2>1. /\ chan = <<>> /\ buf = <<>> /\ batch = <<>> /\ stage = "none"
        /\ table = <<>> /\ lost = <<>>
    BY DEF Init
  <2>2. Pending = (<<>> \o <<>>) \o <<>>
    BY <2>1 DEF Pending, Unresolved
  <2>. QED
    BY <2>1, <2>2, EmptyIsSeq, ConcatEmptySeq DEF WQ!Init
<1>2. QueueInv /\ [Next]_vars => [WQ!Next]_<<Pending, table, lost>>
  BY QueueStep
<1>. QED
  BY <1>1, <1>2, QueueInvAlways, PTL
     DEF Spec, ImplementsWriteQueue, WQ!Spec, WQ!wqVars

-----------------------------------------------------------------------------
(* The counters by kind.                                                   *)

Places(s, k) == {i \in 1..Len(s) : s[i].kind = k}

LEMMA PlacesFinite ==
  ASSUME NEW s \in Seq(Item), NEW k
  PROVE  /\ IsFiniteSet(Places(s, k)) /\ Cardinality(Places(s, k)) \in Nat
         /\ CountOfKind(s, k) = Cardinality(Places(s, k))
<1>1. Len(s) \in Nat /\ DOMAIN s = 1..Len(s)
  OBVIOUS
<1>2. IsFiniteSet(1..Len(s)) /\ Places(s, k) \subseteq 1..Len(s)
  BY <1>1, FS_Interval DEF Places
<1>3. IsFiniteSet(Places(s, k))
  BY <1>2, FS_Subset
<1>. QED
  BY <1>1, <1>3, FS_CardinalityType DEF Places, CountOfKind

\* A sequence joined to another has the items of both: those of the second
\* are found further back.
LEMMA CountOfJoined ==
  ASSUME NEW s \in Seq(Item), NEW t \in Seq(Item), NEW k
  PROVE  CountOfKind(s \o t, k) = CountOfKind(s, k) + CountOfKind(t, k)
<1>. DEFINE n == Len(s)
            front == Places(s, k)
            back == Places(t, k)
            moved == {i \in n+1 .. n+Len(t) : t[i - n].kind = k}
            shift == [i \in back |-> i + n]
<1>1. /\ n \in Nat /\ Len(t) \in Nat /\ s \o t \in Seq(Item)
      /\ Len(s \o t) = n + Len(t)
  BY JoinedSeq, JoinedLength
<1>2. /\ IsFiniteSet(front) /\ IsFiniteSet(back)
      /\ CountOfKind(s, k) = Cardinality(front)
      /\ CountOfKind(t, k) = Cardinality(back)
      /\ CountOfKind(s \o t, k) = Cardinality(Places(s \o t, k))
      /\ Cardinality(front) \in Nat /\ Cardinality(back) \in Nat
  BY <1>1, PlacesFinite
<1>3. shift \in Bijection(back, moved)
  <2>1. \A i \in back : i \in 1..Len(t) /\ shift[i] = i + n /\ t[i].kind = k
    BY DEF Places
  <2>2. shift \in [back -> moved]
    <3>1. ASSUME NEW i \in back PROVE i + n \in moved
      <4>1. i \in 1..Len(t) /\ t[i].kind = k /\ (i + n) - n = i
        BY <1>1, <2>1
      <4>2. i + n \in n+1 .. n+Len(t)
        BY <1>1, <4>1
      <4>. QED
        BY <4>1, <4>2
    <3>. QED
      BY <3>1
  <2>3. \A i, j \in back : shift[i] = shift[j] => i = j
    BY <1>1, <2>1
  <2>4. \A m \in moved : \E i \in back : shift[i] = m
    <3>1. ASSUME NEW m \in moved
          PROVE  m - n \in back /\ (m - n) + n = m
      BY <1>1 DEF Places
    <3>. QED
      BY <3>1
  <2>. QED
    BY <2>2, <2>3, <2>4, Fun_IsBij
<1>4. IsFiniteSet(moved) /\ Cardinality(moved) = Cardinality(back)
  BY <1>2, <1>3, FS_Bijection DEF ExistsBijection
<1>5. Places(s \o t, k) = front \cup moved
  <2>1. \A i \in 1..n : (s \o t)[i] = s[i]
    BY <1>1, ConcatProperties
  <2>2. \A i \in n+1 .. n+Len(t) : (s \o t)[i] = t[i - n]
    BY <1>1, ConcatProperties
  <2>3. 1..Len(s \o t) = (1..n) \cup (n+1 .. n+Len(t))
    BY <1>1
  <2>. QED
    BY <2>1, <2>2, <2>3 DEF Places
<1>6. front \cap moved = {}
  BY <1>1 DEF Places
<1>7. Cardinality(front \cup moved)
        = Cardinality(front) + Cardinality(moved) - Cardinality({})
  BY <1>2, <1>4, <1>6, FS_Union
<1>8. Cardinality({}) = 0
  BY FS_EmptySet
<1>. HIDE DEF n, front, back, moved, shift
<1>. QED
  BY <1>2, <1>4, <1>5, <1>7, <1>8

\* KindStatsMatchTable with the equation that holds between a commit and its
\* record.
KindBooks ==
  \A k \in Kinds :
    /\ kindStats[k].failed = CountOfKind(lost, k)
    /\ stage # "record" \/ flushErr = TRUE =>
         kindStats[k].successful = CountOfKind(table, k)
    /\ stage = "record" /\ flushErr = FALSE =>
         kindStats[k].successful + CountOfKind(batch, k)
           = CountOfKind(table, k)

\* The books of one kind when a flush is recorded.
LEMMA KindRecorded ==
  ASSUME QueueInv, Record, NEW k \in Kinds
  PROVE  kindStats'[k] =
           IF flushErr
           THEN [kindStats[k] EXCEPT !.failed = @ + CountOfKind(batch, k)]
           ELSE [kindStats[k] EXCEPT !.successful = @ + CountOfKind(batch, k)]
BY SequenceTypes DEF Record, bumpKind, QueueInv

LEMMA KindTypes ==
  ASSUME QueueInv, NEW k \in Kinds
  PROVE  /\ kindStats[k] \in [successful : Nat, failed : Nat]
         /\ kindStats[k].successful \in Nat /\ kindStats[k].failed \in Nat
         /\ CountOfKind(lost, k) \in Nat /\ CountOfKind(table, k) \in Nat
         /\ CountOfKind(batch, k) \in Nat
<1>1. /\ lost \in Seq(Item) /\ table \in Seq(Item) /\ batch \in Seq(Item)
      /\ kindStats[k] \in [successful : Nat, failed : Nat]
  BY DEF QueueInv, TypeOK
<1>. QED
  BY <1>1, CountOfKindType

LEMMA KindBooksRecord ==
  ASSUME QueueInv, KindBooks, Record
  PROVE  KindBooks'
<1>1. /\ stage = "record" /\ stage' = "none" /\ table' = table
      /\ lost' = IF flushErr THEN lost \o batch ELSE lost
  BY DEF Record
<1>2. flushErr \in BOOLEAN /\ lost \in Seq(Item) /\ batch \in Seq(Item)
  BY SequenceTypes DEF QueueInv
<1>3. ASSUME NEW k \in Kinds
      PROVE  /\ kindStats'[k].failed = CountOfKind(lost', k)
             /\ kindStats'[k].successful = CountOfKind(table', k)
  <2>1. CASE flushErr
    <3>1. /\ kindStats'[k].failed = kindStats[k].failed + CountOfKind(batch, k)
          /\ kindStats'[k].successful = kindStats[k].successful
      BY <2>1, KindRecorded, KindTypes
    <3>2. CountOfKind(lost', k) = CountOfKind(lost, k) + CountOfKind(batch, k)
      BY <1>1, <1>2, <2>1, CountOfJoined
    <3>. QED
      BY <1>1, <1>2, <2>1, <3>1, <3>2 DEF KindBooks
  <2>2. CASE ~flushErr
    <3>1. /\ kindStats'[k].successful
               = kindStats[k].successful + CountOfKind(batch, k)
          /\ kindStats'[k].failed = kindStats[k].failed
      BY <2>2, KindRecorded, KindTypes
    <3>. QED
      BY <1>1, <1>2, <2>2, <3>1 DEF KindBooks
  <2>. QED
    BY <2>1, <2>2
<1>. QED
  BY <1>1, <1>3 DEF KindBooks

LEMMA KindBooksNext ==
  ASSUME QueueInv, KindBooks, [Next]_vars
  PROVE  KindBooks'
<1>1. CASE Record
  BY <1>1, KindBooksRecord
<1>2. CASE Commit
  <2>1. /\ stage = "ops" /\ stage' = "record" /\ flushErr = FALSE
        /\ Len(tx) = Len(batch)
        /\ UNCHANGED <<batch, lost, kindStats>>
    BY <1>2, SequenceTypes DEF Commit, statVars, QueueInv
  <2>2. CASE table' = table \o tx /\ UNCHANGED flushErr
    <3>1. /\ table \in Seq(Item) /\ batch \in Seq(Item)
          /\ tx = SubSeq(batch, 1, Len(batch))
      BY <2>1 DEF QueueInv, BatchShape, TypeOK
    <3>2. tx = batch
      BY <3>1, SubSeqFull
    <3>3. \A k \in Kinds : CountOfKind(table', k)
                             = CountOfKind(table, k) + CountOfKind(batch, k)
      <4>1. table' = table \o batch
        BY <2>2, <3>2
      <4>2. \A k \in Kinds : CountOfKind(table \o batch, k)
                               = CountOfKind(table, k) + CountOfKind(batch, k)
        BY <3>1, CountOfJoined
      <4>. QED
        BY <4>1, <4>2
    <3>. QED
      BY <2>1, <2>2, <3>3 DEF KindBooks
  <2>3. CASE flushErr' = TRUE /\ UNCHANGED table
    BY <2>1, <2>3 DEF KindBooks
  <2>. QED
    BY <1>2, <2>2, <2>3 DEF Commit
<1>3. CASE BeginTx \/ ExecItem \/ Rollback
  <2>1. /\ stage \in {"begin", "ops"}
        /\ stage' = "record" => flushErr' = TRUE
        /\ UNCHANGED <<table, lost, kindStats>>
    BY <1>3, SequenceTypes
       DEF BeginTx, ExecItem, Rollback, loopVars, statVars, QueueInv
  <2>. QED
    BY <2>1 DEF KindBooks
<1>4. CASE Receive \/ Tick \/ DrainDone \/ InputClosed
  <2>1. /\ stage = "none" /\ stage' \in {"none", "begin"}
        /\ UNCHANGED <<table, lost, kindStats>>
    BY <1>4 DEF Receive, Tick, DrainDone, InputClosed, Buffer, flushLocked,
                flushVars, statVars
  <2>. QED
    BY <2>1 DEF KindBooks
<1>5. CASE UNCHANGED <<stage, flushErr, batch, table, lost, kindStats>>
  BY <1>5 DEF KindBooks
<1>. QED
  BY <1>1, <1>2, <1>3, <1>4, <1>5
     DEF Next, RunLoop, Flush, Producer, Terminated, AddSend, AddCount,
         ProducerDone, FlushCall, FlushAbandoned, CloseCall, CloseReturn,
         FlushRequest, FlushAck, vars, loopVars, flushVars, statVars

\* What GetKindStats reports is what happened to the items of each kind, in
\* agreement with GetStats: for any kinds, registered or not, any batches and
\* any errors of the database.
THEOREM KindBooksBalance == Spec => []KindStatsMatchTable
<1>1. Init => KindBooks
  <2>. SUFFICES ASSUME Init PROVE KindBooks
    OBVIOUS
  <2>1. ASSUME NEW k \in Kinds PROVE CountOfKind(<<>>, k) = 0
    <3>1. {i \in DOMAIN <<>> : <<>>[i].kind = k} = {}
      OBVIOUS
    <3>. QED
      BY <3>1, FS_EmptySet, Zenon DEF CountOfKind
  <2>2. \A k \in Kinds : kindStats[k].successful = 0 /\ kindStats[k].failed = 0
    BY DEF Init
  <2>. QED
    BY <2>1, <2>2 DEF Init, KindBooks
<1>2. QueueInv /\ KindBooks /\ [Next]_vars => KindBooks'
  BY KindBooksNext
<1>3. QueueInv /\ KindBooks => KindStatsMatchTable
  BY SequenceTypes DEF QueueInv, KindBooks, KindStatsMatchTable
<1>. QED
  BY <1>1, <1>2, <1>3, QueueInvAlways, PTL DEF Spec
=============================================================================
