-------------------------- MODULE RunLifecycleProofs --------------------------
(***************************************************************************)
(* What holds of the runs of the program for any number of processors,     *)
(* rows, signals and runs, any batches and any point at which a run ends.  *)
(***************************************************************************)
EXTENDS RunLifecycle, TLAPS

\* From the insertion of the status row to the rename of the file.
Filling == {"health", "loop", "process", "final", "mark", "archive", "remove",
            "rename"}

\* Nobody has called the writer yet, or nobody is left to.
Quiet == {"open", "init", "health", "remove", "rename", "exited"}

TypeInv == TypeOK /\ (pc = "process" => next < Processors)

\* A run adds rows only to a database it has marked as its own, and accounts
\* for those it gave to the writer until the file is renamed.
RowsInv ==
  /\ status = "absent" => table = <<>> /\ queue = <<>>
  /\ pc \in Quiet => queue = <<>>
  /\ pc \in {"open", "init"} => accepted = 0 /\ rejected = <<>>
  /\ pc = "init" => base = Len(table)
  /\ pc \in Filling =>
       /\ status # "absent" /\ base = 0
       /\ Len(table) + Len(rejected) + Len(queue) = accepted
  /\ accepted > 0 => base = 0

\* Only an interrupt lets main leave the loop early.
EndInv ==
  /\ truncated = "interrupted" => ctxDone
  /\ pc = "final" => next = Processors \/ ctxDone
  /\ pc \in {"mark", "archive", "remove", "rename"} =>
       next = Processors /\ truncated # "interrupted"

Inv == TypeInv /\ RowsInv /\ EndInv

-----------------------------------------------------------------------------
\* An accepted row joins the queue, a resolved batch leaves it for the table or
\* for the rejects: none is lost on the way.
LEMMA WriterTypes ==
  ASSUME queue \in Seq(WQ!Item), table \in Seq(WQ!Item),
         rejected \in Seq(WQ!Item),
         \/ \E k \in Kinds : WQ!Accept(k)
         \/ \E n \in 1..Len(queue) : WQ!Resolve(n)
  PROVE  /\ queue' \in Seq(WQ!Item) /\ table' \in Seq(WQ!Item)
         /\ rejected' \in Seq(WQ!Item)
<1>1. ASSUME NEW k \in Kinds, WQ!Accept(k)
      PROVE  /\ queue' \in Seq(WQ!Item) /\ table' = table
             /\ rejected' = rejected
  <2>1. [id |-> WQ!NextId, kind |-> k] \in WQ!Item
    BY DEF WQ!NextId, WQ!Item
  <2>. QED
    BY <1>1, <2>1 DEF WQ!Accept
<1>2. ASSUME NEW n \in 1..Len(queue), WQ!Resolve(n)
      PROVE  /\ queue' \in Seq(WQ!Item) /\ table' \in Seq(WQ!Item)
             /\ rejected' \in Seq(WQ!Item)
  <2>1. SubSeq(queue, 1, n) \in Seq(WQ!Item)
        /\ SubSeq(queue, n + 1, Len(queue)) \in Seq(WQ!Item)
    OBVIOUS
  <2>2. /\ table \o SubSeq(queue, 1, n) \in Seq(WQ!Item)
        /\ rejected \o SubSeq(queue, 1, n) \in Seq(WQ!Item)
    BY <2>1
  <2>3. queue' = SubSeq(queue, n + 1, Len(queue))
    BY <1>2 DEF WQ!Resolve
  <2>4. \/ table' = table \o SubSeq(queue, 1, n) /\ rejected' = rejected
        \/ rejected' = rejected \o SubSeq(queue, 1, n) /\ table' = table
    BY <1>2 DEF WQ!Resolve
  <2>. QED
    BY <2>1, <2>2, <2>3, <2>4
<1>. QED
  BY <1>1, <1>2

LEMMA ResolveKeepsRows ==
  ASSUME queue \in Seq(WQ!Item), table \in Seq(WQ!Item),
         rejected \in Seq(WQ!Item),
         NEW n \in 1..Len(queue), WQ!Resolve(n)
  PROVE  Len(table') + Len(rejected') + Len(queue')
           = Len(table) + Len(rejected) + Len(queue)
<1>1. SubSeq(queue, 1, n) \in Seq(WQ!Item) /\ Len(SubSeq(queue, 1, n)) = n
  OBVIOUS
<1>2. Len(SubSeq(queue, n + 1, Len(queue))) = Len(queue) - n
  OBVIOUS
<1>3. Len(table \o SubSeq(queue, 1, n)) = Len(table) + n
      /\ Len(rejected \o SubSeq(queue, 1, n)) = Len(rejected) + n
  BY <1>1
<1>4. Len(queue') = Len(queue) - n
  BY <1>2 DEF WQ!Resolve
<1>5. \/ Len(table') = Len(table) + n /\ rejected' = rejected
      \/ Len(rejected') = Len(rejected) + n /\ table' = table
  BY <1>3 DEF WQ!Resolve
<1>. QED
  BY <1>4, <1>5

-----------------------------------------------------------------------------
LEMMA InvInit == Init => Inv
<1>. SUFFICES ASSUME Init PROVE Inv
  OBVIOUS
<1>1. TypeInv
  <2>1. <<>> \in Seq(WQ!Item)
    OBVIOUS
  <2>2. archive \in [status : {"absent", "false", "true"}, rows : Seq(WQ!Item)]
    BY <2>1 DEF Init, NoArchive
  <2>. QED
    <3>1. queue \in Seq(WQ!Item) /\ table \in Seq(WQ!Item)
          /\ rejected \in Seq(WQ!Item)
      BY <2>1 DEF Init
    <3>2. next \in 0..Processors /\ signals \in 0..MaxSignals
          /\ accepted \in 0..MaxItems /\ sigCh \in {0, 1}
      BY RunLifecycleAssumption DEF Init
    <3>3. ctxDone \in BOOLEAN /\ notified \in BOOLEAN
      BY DEF Init
    <3>. QED
      BY <2>2, <3>1, <3>2, <3>3 DEF Init, TypeInv, TypeOK
<1>2. RowsInv /\ EndInv
  BY DEF Init, RowsInv, EndInv, Quiet, Filling
<1>. QED
  BY <1>1, <1>2 DEF Inv

\* Signals do not touch rows; the end of the process empties the queue.
LEMMA SignalsInv ==
  ASSUME Inv, Signal \/ Signals \/ Crash
  PROVE  Inv'
<1>. USE RunLifecycleAssumption
     DEF Inv, TypeInv, TypeOK, writerVars, bookVars, fileVars, signalVars
<1>1. CASE Signal
  BY <1>1 DEF Signal, RowsInv, EndInv
<1>2. CASE ContextCancelled
  BY <1>2 DEF ContextCancelled, RowsInv, EndInv
<1>3. CASE HandlerTakesSignal \/ HandlerSeesContext \/ HandlerStops
  <2>1. CASE HandlerTakesSignal
    BY <2>1 DEF HandlerTakesSignal, RowsInv, EndInv
  <2>2. CASE HandlerSeesContext
    BY <2>2 DEF HandlerSeesContext, RowsInv, EndInv
  <2>3. CASE HandlerStops
    <3>1. TypeInv'
      BY <2>3 DEF HandlerStops
    <3>2. RowsInv'
      BY <2>3 DEF HandlerStops, RowsInv
    <3>3. EndInv'
      BY <2>3 DEF HandlerStops, EndInv
    <3>. QED
      BY <3>1, <3>2, <3>3
  <2>. QED
    BY <1>3, <2>1, <2>2, <2>3
<1>4. CASE ForceQuit \/ Crash
  <2>1. Dies
    BY <1>4 DEF ForceQuit, Crash
  <2>2. TypeInv'
    BY <2>1 DEF Dies
  <2>3. RowsInv'
    BY <2>1 DEF Dies, RowsInv, Quiet, Filling
  <2>4. EndInv'
    BY <2>1 DEF Dies, EndInv
  <2>. QED
    BY <2>2, <2>3, <2>4
<1>. QED
  BY <1>1, <1>2, <1>3, <1>4 DEF Signals

LEMMA StartInv ==
  ASSUME Inv, OpenStorage \/ InitializeRunStatus \/ Health \/ Restart
  PROVE  Inv'
<1>. USE RunLifecycleAssumption
     DEF Inv, TypeInv, TypeOK, writerVars, bookVars, fileVars, signalVars, Step
<1>1. CASE OpenStorage
  BY <1>1 DEF OpenStorage, RowsInv, EndInv, Quiet, Filling
<1>2. CASE InitializeRunStatus
  <2>1. TypeInv'
    BY <1>2 DEF InitializeRunStatus
  <2>2. RowsInv'
    <3>1. /\ queue = <<>> /\ accepted = 0 /\ rejected = <<>>
          /\ UNCHANGED <<queue, table, rejected, accepted, base>>
      BY <1>2 DEF InitializeRunStatus, RowsInv, Quiet
    <3>2. CASE pc' = "health"
      <4>1. status' = "false" /\ table = <<>> /\ base = 0
        BY <1>2, <3>2 DEF InitializeRunStatus, RowsInv
      <4>. QED
        BY <3>1, <3>2, <4>1 DEF RowsInv, Quiet, Filling
    <3>3. CASE pc' = "exited"
      BY <1>2, <3>1, <3>3 DEF InitializeRunStatus, RowsInv, Quiet, Filling
    <3>. QED
      BY <1>2, <3>2, <3>3 DEF InitializeRunStatus
  <2>3. EndInv'
    BY <1>2 DEF InitializeRunStatus, EndInv
  <2>. QED
    BY <2>1, <2>2, <2>3
<1>3. CASE Health
  BY <1>3 DEF Health, RowsInv, EndInv, Quiet, Filling
<1>4. CASE Restart
  <2>1. TypeInv'
    <3>1. next' \in 0..Processors /\ signals' \in 0..MaxSignals
          /\ accepted' \in 0..MaxItems /\ runs' \in Nat /\ rejected' = <<>>
      BY <1>4 DEF Restart
    <3>2. ctxDone' \in BOOLEAN /\ notified' \in BOOLEAN
      BY <1>4 DEF Restart
    <3>. QED
      BY <1>4, <3>1, <3>2 DEF Restart
  <2>2. RowsInv'
    <3>1. queue = <<>> /\ pc' = "open" /\ accepted' = 0 /\ base' = 0
          /\ rejected' = <<>> /\ UNCHANGED <<queue, table, status>>
      BY <1>4 DEF Restart, RowsInv, Quiet, Filling
    <3>. QED
      BY <3>1 DEF RowsInv, Quiet, Filling
  <2>3. EndInv'
    BY <1>4 DEF Restart, EndInv
  <2>. QED
    BY <2>1, <2>2, <2>3
<1>. QED
  BY <1>1, <1>2, <1>3, <1>4

LEMMA LoopInv ==
  ASSUME Inv, NextProcessor \/ ProcessorReturns \/ Finalize
  PROVE  Inv'
<1>. USE RunLifecycleAssumption
     DEF Inv, TypeInv, TypeOK, writerVars, bookVars, fileVars, signalVars, Step
<1>1. CASE NextProcessor
  BY <1>1 DEF NextProcessor, RowsInv, EndInv, Quiet, Filling
<1>2. CASE ProcessorReturns
  BY <1>2 DEF ProcessorReturns, RowsInv, EndInv, Quiet, Filling
<1>3. CASE Finalize
  BY <1>3 DEF Finalize, RowsInv, EndInv, Quiet, Filling
<1>. QED
  BY <1>1, <1>2, <1>3

LEMMA FinalInv ==
  ASSUME Inv,
         \/ MarkRunCompleted \/ CloseForArchive \/ RemoveArchive
         \/ RenameToArchive \/ CloseStorage
  PROVE  Inv'
<1>. USE RunLifecycleAssumption
     DEF Inv, TypeInv, TypeOK, writerVars, bookVars, fileVars, signalVars, Step
<1>1. CASE MarkRunCompleted
  BY <1>1 DEF MarkRunCompleted, RowsInv, EndInv, Quiet, Filling
<1>2. CASE CloseForArchive
  <2>1. TypeInv'
    BY <1>2 DEF CloseForArchive
  <2>2. RowsInv'
    BY <1>2 DEF CloseForArchive, RowsInv, Quiet, Filling
  <2>3. EndInv'
    BY <1>2 DEF CloseForArchive, EndInv
  <2>. QED
    BY <2>1, <2>2, <2>3
<1>5. CASE CloseStorage
  <2>1. TypeInv'
    BY <1>5 DEF CloseStorage
  <2>2. RowsInv'
    BY <1>5 DEF CloseStorage, RowsInv, Quiet, Filling
  <2>3. EndInv'
    BY <1>5 DEF CloseStorage, EndInv
  <2>. QED
    BY <2>1, <2>2, <2>3
<1>3. CASE RemoveArchive
  BY <1>3 DEF RemoveArchive, NoArchive, RowsInv, EndInv, Quiet, Filling
<1>4. CASE RenameToArchive
  BY <1>4 DEF RenameToArchive, RowsInv, EndInv, Quiet, Filling
<1>. QED
  BY <1>1, <1>2, <1>3, <1>4, <1>5

LEMMA WriterInv ==
  ASSUME Inv, (\E k \in Kinds : ProcessorWrites(k)) \/ Writer
  PROVE  Inv'
<1>1. ASSUME NEW k \in Kinds, ProcessorWrites(k) PROVE Inv'
  <2>1. WQ!Accept(k) /\ accepted' = accepted + 1 /\ accepted < MaxItems
        /\ pc = "process"
        /\ UNCHANGED <<pc, next, signalVars, truncated, base, fileVars, runs>>
    BY <1>1 DEF ProcessorWrites
  <2>2. queue' \in Seq(WQ!Item) /\ table' \in Seq(WQ!Item)
        /\ rejected' \in Seq(WQ!Item)
    BY <2>1, WriterTypes DEF Inv, TypeInv, TypeOK
  <2>3. Len(queue') = Len(queue) + 1 /\ table' = table /\ rejected' = rejected
    BY <2>1 DEF WQ!Accept, Inv, TypeInv, TypeOK
  <2>4. TypeInv'
    BY <2>1, <2>2, RunLifecycleAssumption
    DEF Inv, TypeInv, TypeOK, signalVars, fileVars
  <2>5. RowsInv'
    <3>1. pc \in Filling /\ pc \notin Quiet /\ pc \notin {"open", "init"}
      BY <2>1 DEF Filling, Quiet
    <3>2. status # "absent" /\ base = 0
          /\ Len(table) + Len(rejected) + Len(queue) = accepted
      BY <3>1 DEF Inv, RowsInv
    <3>3. Len(table') + Len(rejected') + Len(queue') = accepted'
      <4>1. Len(table) \in Nat /\ Len(rejected) \in Nat /\ Len(queue) \in Nat
        BY DEF Inv, TypeInv, TypeOK
      <4>. QED
        BY <2>1, <2>3, <3>2, <4>1
    <3>. QED
      BY <2>1, <3>1, <3>2, <3>3 DEF RowsInv, fileVars
  <2>6. EndInv'
    BY <2>1 DEF Inv, EndInv, signalVars
  <2>. QED
    BY <2>4, <2>5, <2>6 DEF Inv
<1>2. ASSUME NEW n \in 1..Len(queue), Write(n) PROVE Inv'
  <2>1. WQ!Resolve(n) /\ Running
        /\ UNCHANGED <<pc, next, signalVars, bookVars, fileVars, runs>>
    BY <1>2 DEF Write
  <2>2. queue' \in Seq(WQ!Item) /\ table' \in Seq(WQ!Item)
        /\ rejected' \in Seq(WQ!Item)
    BY <2>1, WriterTypes DEF Inv, TypeInv, TypeOK
  <2>3. Len(table') + Len(rejected') + Len(queue')
          = Len(table) + Len(rejected) + Len(queue)
    BY <2>1, ResolveKeepsRows DEF Inv, TypeInv, TypeOK
  <2>4. queue # <<>>
    BY DEF Inv, TypeInv, TypeOK
  <2>5. TypeInv'
    BY <2>1, <2>2 DEF Inv, TypeInv, TypeOK, signalVars, bookVars, fileVars
  <2>6. RowsInv'
    BY <2>1, <2>3, <2>4
    DEF Inv, RowsInv, Quiet, Filling, fileVars, bookVars
  <2>7. EndInv'
    BY <2>1 DEF Inv, EndInv, signalVars, bookVars
  <2>. QED
    BY <2>5, <2>6, <2>7 DEF Inv
<1>. QED
  BY <1>1, <1>2 DEF Writer

LEMMA InvStep == Inv /\ [Next]_vars => Inv'
<1>. SUFFICES ASSUME Inv, [Next]_vars PROVE Inv'
  OBVIOUS
<1>1. CASE AllOver \/ UNCHANGED vars
  <2>1. UNCHANGED vars
    BY <1>1 DEF AllOver
  <2>. USE <2>1 DEF vars, signalVars, writerVars, bookVars, fileVars, Inv
  <2>2. TypeInv'
    BY DEF TypeInv, TypeOK
  <2>3. RowsInv'
    BY DEF RowsInv, Quiet, Filling
  <2>4. EndInv'
    BY DEF EndInv
  <2>. QED
    BY <2>2, <2>3, <2>4
<1>. QED
  BY <1>1, SignalsInv, StartInv, LoopInv, FinalInv, WriterInv DEF Next, Main

LEMMA InvAlways == Spec => []Inv
  BY InvInit, InvStep, PTL DEF Spec

-----------------------------------------------------------------------------
\* Every variable keeps its type: no processor of the list is run twice.
THEOREM TypeCorrect == Spec => []TypeOK
<1>1. Inv => TypeOK
  BY DEF Inv, TypeInv
<1>. QED
  BY <1>1, InvAlways, PTL

\* No run adds to the rows of an earlier one, wherever that one ended and
\* whatever SPRAWLER_DB_RECREATE says: the code has no incremental run, although
\* docs/ARCHITECTURE.md and registerBatchOperations provide for one.
THEOREM NoRunIsIncremental == Spec => []NoIncrementalRun
<1>1. Inv => NoIncrementalRun
  BY DEF Inv, RowsInv, NoIncrementalRun
<1>. QED
  BY <1>1, InvAlways, PTL

\* Only the two steps of ArchiveDatabase touch the archive.
LEMMA ArchiveSteps ==
  ASSUME Inv, [Next]_vars, archive' # archive
  PROVE  pc \in {"remove", "rename"}
<1>. USE DEF writerVars, bookVars, fileVars, signalVars, vars
<1>1. CASE Signal \/ Signals \/ Crash
  BY <1>1 DEF Signal, Signals, ContextCancelled, HandlerTakesSignal,
              HandlerSeesContext, HandlerStops, ForceQuit, Crash, Dies
<1>2. CASE Main
  BY <1>2 DEF Main, OpenStorage, InitializeRunStatus, Health, NextProcessor,
              ProcessorReturns, Finalize, MarkRunCompleted, CloseForArchive,
              RemoveArchive, RenameToArchive, CloseStorage, Step
<1>3. CASE (\E k \in Kinds : ProcessorWrites(k)) \/ Writer
  BY <1>3 DEF ProcessorWrites, Writer, Write
<1>. QED
  BY <1>1, <1>2, <1>3 DEF Next, Restart, AllOver

\* Whenever an archive is removed or replaced, the database holds every row of
\* the run, for any batches and any errors.
THEOREM ArchiveDrained == Spec => ArchiveIsDrained
<1>1. Inv /\ [Next]_vars =>
        [archive' # archive =>
           queue = <<>> /\ Len(table) + Len(rejected) = base + accepted]_vars
  <2>. SUFFICES ASSUME Inv, [Next]_vars, archive' # archive
                PROVE  /\ queue = <<>>
                       /\ Len(table) + Len(rejected) = base + accepted
    OBVIOUS
  <2>1. pc \in {"remove", "rename"}
    BY ArchiveSteps
  <2>2. queue = <<>> /\ base = 0
        /\ Len(table) + Len(rejected) + Len(queue) = accepted
    BY <2>1 DEF Inv, RowsInv, Quiet, Filling
  <2>3. Len(table) \in Nat /\ Len(rejected) \in Nat /\ Len(queue) = 0
    BY <2>2 DEF Inv, TypeInv, TypeOK
  <2>4. Len(table) + Len(rejected) = base + accepted
    BY <2>2, <2>3
  <2>. QED
    BY <2>2, <2>4
<1>. QED
  BY <1>1, InvAlways, PTL DEF Spec, ArchiveIsDrained

\* A run that is marked completed, or that touches the archive, has gone
\* through all its processors without an interrupt.
THEOREM FinalizedComplete == Spec => FinalizedAfterAllProcessors
<1>. DEFINE Finalizes ==
       (status' = "true" /\ status # "true") \/ archive' # archive
<1>1. Inv /\ [Next]_vars =>
        [Finalizes => next = Processors /\ truncated # "interrupted"]_vars
  <2>. SUFFICES ASSUME Inv, [Next]_vars, Finalizes
                PROVE  next = Processors /\ truncated # "interrupted"
    OBVIOUS
  <2>1. CASE archive' # archive
    BY <2>1, ArchiveSteps DEF Inv, EndInv
  <2>2. CASE status' = "true" /\ status # "true"
    <3>1. pc = "mark"
      <4>. USE <2>2 DEF writerVars, bookVars, fileVars, signalVars, vars
      <4>1. CASE Signal \/ Signals \/ Crash
        BY <4>1 DEF Signal, Signals, ContextCancelled, HandlerTakesSignal,
                    HandlerSeesContext, HandlerStops, ForceQuit, Crash, Dies
      <4>2. CASE Main
        BY <4>2 DEF Main, OpenStorage, InitializeRunStatus, Health,
                    NextProcessor, ProcessorReturns, Finalize,
                    MarkRunCompleted, CloseForArchive, RemoveArchive,
                    RenameToArchive, CloseStorage, Step
      <4>3. CASE (\E k \in Kinds : ProcessorWrites(k)) \/ Writer
        BY <4>3 DEF ProcessorWrites, Writer, Write
      <4>. QED
        BY <4>1, <4>2, <4>3 DEF Next, Restart, AllOver
    <3>. QED
      BY <3>1 DEF Inv, EndInv
  <2>. QED
    BY <2>1, <2>2
<1>. QED
  BY <1>1, InvAlways, PTL DEF Spec, FinalizedAfterAllProcessors
=============================================================================
