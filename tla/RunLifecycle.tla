----------------------------- MODULE RunLifecycle -----------------------------
(***************************************************************************)
(* cmd/sprawler/main.go and the life of the database in internal/storage/  *)
(* sqlite_storage.go: one run of the program after another on the same     *)
(* data directory, with interrupts, fatal errors and crashes.              *)
(*                                                                         *)
(* A processor is reduced to the rows it gives to the batch writer and to  *)
(* whether its enumeration reached the end; the batch writer is the queue  *)
(* of module WriteQueue, which module BatchWriter implements.  The rows of *)
(* the database file are the table of that queue.                          *)
(*                                                                         *)
(* Definitions marked (variant) are wrong on purpose: no specification     *)
(* uses them, and each breaks a property when put in the place of the      *)
(* definition that follows it.                                             *)
(***************************************************************************)
EXTENDS Integers, Sequences

CONSTANTS Kinds,         \* kinds of rows
          MaxBatchSize,
          Processors,    \* how many processors the list has
          RecreateSettings, \* values of SPRAWLER_DB_RECREATE runs start with
          Faulty,        \* storage and API calls outside the writer may fail
          MaxItems,      \* bound of the model: rows of one run
          MaxSignals,    \* bound of the model: signals to one run
          MaxRuns        \* bound of the model: runs of the program

ASSUME RunLifecycleAssumption ==
  /\ MaxBatchSize \in Nat \ {0}
  /\ Processors \in Nat
  /\ RecreateSettings \subseteq BOOLEAN
  /\ Faulty \in BOOLEAN
  /\ MaxItems \in Nat /\ MaxSignals \in Nat /\ MaxRuns \in Nat

VARIABLES
  pc,        \* where main is
  next,      \* processors that have returned
  ctxDone,   \* the signal context is cancelled
  sigCh,     \* signals in sigCh, a channel of one
  notified,  \* the context still listens for signals
  handler,   \* signal goroutine: "select", "stop", "second" or "gone"
  signals,   \* signals this run has received
  queue,     \* rows the batch writer has accepted and not resolved
  table,     \* rows of the database file
  rejected,  \* rows of failed batches of this run
  status,    \* full_export_completed: "absent", "false" or "true"
  truncated, \* why an enumeration of this run fell short: "no", "failed" or
             \* "interrupted"
  accepted,  \* rows this run has given to the writer
  base,      \* rows the database file held when this run opened it
  archive,   \* what the archive file holds
  runs

signalVars == <<ctxDone, sigCh, notified, handler, signals>>
writerVars == <<queue, table, rejected>>
bookVars   == <<truncated, accepted, base>>
fileVars   == <<status, archive>>
vars == <<pc, next, signalVars, writerVars, bookVars, fileVars, runs>>

WQ == INSTANCE WriteQueue

NoArchive == [status |-> "absent", rows |-> <<>>]

Init ==
  /\ pc = "open"
  /\ next = 0
  /\ ctxDone = FALSE
  /\ sigCh = 0
  /\ notified = TRUE
  /\ handler = "select"
  /\ signals = 0
  /\ queue = <<>>
  /\ table = <<>>
  /\ rejected = <<>>
  /\ status = "absent"
  /\ truncated = "no"
  /\ accepted = 0
  /\ base = 0
  /\ archive = NoArchive
  /\ runs = 1

Running == pc # "exited"

-----------------------------------------------------------------------------
(* Signals: two listeners, the context and the goroutine behind sigCh.     *)

\* The send to sigCh does not wait for room.
Signal ==
  /\ Running
  /\ signals < MaxSignals
  /\ signals' = signals + 1
  /\ sigCh' = 1
  /\ UNCHANGED <<pc, next, ctxDone, notified, handler, writerVars, bookVars,
                 fileVars, runs>>

\* The goroutine of signal.NotifyContext.
ContextCancelled ==
  /\ Running
  /\ notified /\ signals > 0 /\ ~ctxDone
  /\ ctxDone' = TRUE
  /\ UNCHANGED <<pc, next, sigCh, notified, handler, signals, writerVars,
                 bookVars, fileVars, runs>>

\* The select of the goroutine in main.
HandlerTakesSignal ==
  /\ Running
  /\ handler = "select"
  /\ sigCh = 1
  /\ sigCh' = 0
  /\ handler' = "stop"
  /\ UNCHANGED <<pc, next, ctxDone, notified, signals, writerVars, bookVars,
                 fileVars, runs>>

HandlerSeesContext ==
  /\ Running
  /\ handler = "select"
  /\ ctxDone
  /\ handler' = "gone"
  /\ UNCHANGED <<pc, next, ctxDone, sigCh, notified, signals, writerVars,
                 bookVars, fileVars, runs>>

HandlerStops ==
  /\ Running
  /\ handler = "stop"
  /\ ctxDone' = TRUE
  /\ notified' = FALSE
  /\ handler' = "second"
  /\ UNCHANGED <<pc, next, sigCh, signals, writerVars, bookVars, fileVars,
                 runs>>

\* The end of the process, whatever main was doing: what the writer had not
\* committed is gone.
Dies ==
  /\ pc' = "exited"
  /\ queue' = <<>>
  /\ UNCHANGED <<next, signalVars, table, rejected, bookVars, fileVars, runs>>

ForceQuit ==
  /\ Running
  /\ handler = "second"
  /\ sigCh = 1
  /\ Dies

Crash == Running /\ Dies

-----------------------------------------------------------------------------
(* main.                                                                   *)

Step(from, to) == pc = from /\ pc' = to

\* NewStorage removes the file of an earlier run or opens it; then come the
\* API clients.  Any error is fatal.
OpenStorage ==
  /\ \E recreate \in RecreateSettings :
       \/ /\ IF recreate
             THEN table' = <<>> /\ status' = "absent"
             ELSE UNCHANGED <<table, status>>
          /\ \/ Step("open", "init") /\ base' = Len(table')
             \/ Faulty /\ Step("open", "exited") /\ UNCHANGED base
       \/ /\ recreate /\ Faulty   \* the old file cannot be removed
          /\ Step("open", "exited")
          /\ UNCHANGED <<table, status, base>>
  /\ UNCHANGED <<next, signalVars, queue, rejected, truncated, accepted,
                 archive, runs>>

\* A plain INSERT of the row with id 1; main does not go on without it.
InitializeRunStatus ==
  /\ \/ /\ status = "absent" /\ ~ctxDone
        /\ Step("init", "health")
        /\ status' = "false"
     \/ /\ Faulty \/ status # "absent" \/ ctxDone
        /\ Step("init", "exited")
        /\ UNCHANGED status
  /\ UNCHANGED <<next, signalVars, writerVars, bookVars, archive, runs>>

Health ==
  /\ \/ Step("health", "loop")
     \/ (Faulty \/ ctxDone) /\ Step("health", "exited")
  /\ UNCHANGED <<next, signalVars, writerVars, bookVars, fileVars, runs>>

\* The head of the loop over the processors.
NextProcessor ==
  /\ IF next < Processors /\ ~ctxDone
     THEN Step("loop", "process")
     ELSE Step("loop", "final")
  /\ UNCHANGED <<next, signalVars, writerVars, bookVars, fileVars, runs>>

ProcessorWrites(k) ==
  /\ pc = "process"
  /\ accepted < MaxItems
  /\ accepted' = accepted + 1
  /\ WQ!Accept(k)
  /\ UNCHANGED <<pc, next, signalVars, truncated, base, fileVars, runs>>

\* An enumeration that fails or is interrupted is only logged.
ProcessorReturns ==
  /\ Step("process", "loop")
  /\ next' = next + 1
  /\ \/ UNCHANGED truncated
     \/ Faulty /\ truncated = "no" /\ truncated' = "failed"
     \/ ctxDone /\ truncated' = "interrupted"
  /\ UNCHANGED <<signalVars, writerVars, accepted, base, fileVars, runs>>

\* (variant) an interrupted run is finalized like any other
FinalizeAlways ==
  /\ Step("final", "mark")
  /\ UNCHANGED <<next, signalVars, writerVars, bookVars, fileVars, runs>>

Finalize ==
  /\ Step("final", IF ctxDone THEN "close" ELSE "mark")
  /\ UNCHANGED <<next, signalVars, writerVars, bookVars, fileVars, runs>>

\* (variant) tried until it succeeds
MarkRunCompletedRetried ==
  /\ Step("mark", "archive")
  /\ ~ctxDone /\ status' = "true"
  /\ UNCHANGED <<next, signalVars, writerVars, bookVars, archive, runs>>

\* An error is only logged.
MarkRunCompleted ==
  /\ Step("mark", "archive")
  /\ \/ ~ctxDone /\ status' = "true"
     \/ (Faulty \/ ctxDone) /\ UNCHANGED status
  /\ UNCHANGED <<next, signalVars, writerVars, bookVars, archive, runs>>

\* (variant) the database is closed without the writer
CloseForArchiveUndrained ==
  /\ \/ Step("archive", "remove")
     \/ Faulty /\ Step("archive", "close")
  /\ UNCHANGED <<next, signalVars, writerVars, bookVars, fileVars, runs>>

\* ArchiveDatabase closes the writer, which drains, and the database; an error
\* of the latter, or in one of the two steps below, ends it.
CloseForArchive ==
  /\ queue = <<>>
  /\ \/ Step("archive", "remove")
     \/ Faulty /\ Step("archive", "close")
  /\ UNCHANGED <<next, signalVars, writerVars, bookVars, fileVars, runs>>

RemoveArchive ==
  /\ \/ Step("remove", "rename") /\ archive' = NoArchive
     \/ Faulty /\ Step("remove", "close") /\ UNCHANGED archive
  /\ UNCHANGED <<next, signalVars, writerVars, bookVars, status, runs>>

RenameToArchive ==
  /\ \/ /\ Step("rename", "close")
        /\ archive' = [status |-> status, rows |-> table]
        /\ table' = <<>>
        /\ status' = "absent"
     \/ /\ Faulty
        /\ Step("rename", "close")
        /\ UNCHANGED <<archive, table, status>>
  /\ UNCHANGED <<next, signalVars, queue, rejected, bookVars, runs>>

\* Close, explicit or deferred, happens once: here for an interrupted run.
CloseStorage ==
  /\ queue = <<>>
  /\ Step("close", "exited")
  /\ UNCHANGED <<next, signalVars, writerVars, bookVars, fileVars, runs>>

\* The run loop of the batch writer, until its storage is closed.
Write(n) ==
  /\ Running
  /\ n <= MaxBatchSize
  /\ WQ!Resolve(n)
  /\ UNCHANGED <<pc, next, signalVars, bookVars, fileVars, runs>>

\* The user starts the program again: a new process, the same files.
Restart ==
  /\ pc = "exited"
  /\ runs < MaxRuns
  /\ runs' = runs + 1
  /\ pc' = "open"
  /\ next' = 0
  /\ ctxDone' = FALSE
  /\ sigCh' = 0
  /\ notified' = TRUE
  /\ handler' = "select"
  /\ signals' = 0
  /\ rejected' = <<>>
  /\ truncated' = "no"
  /\ accepted' = 0
  /\ base' = 0
  /\ UNCHANGED <<queue, table, status, archive>>

AllOver == pc = "exited" /\ UNCHANGED vars

-----------------------------------------------------------------------------
Signals ==
  \/ ContextCancelled
  \/ HandlerTakesSignal \/ HandlerSeesContext \/ HandlerStops \/ ForceQuit

Main ==
  \/ OpenStorage \/ InitializeRunStatus \/ Health
  \/ NextProcessor \/ ProcessorReturns
  \/ Finalize \/ MarkRunCompleted
  \/ CloseForArchive \/ RemoveArchive \/ RenameToArchive \/ CloseStorage

Writer == \E n \in 1..Len(queue) : Write(n)

Next ==
  \/ Signal \/ Signals
  \/ Main
  \/ \E k \in Kinds : ProcessorWrites(k)
  \/ Writer
  \/ Crash \/ Restart \/ AllOver

Spec == Init /\ [][Next]_vars

(***************************************************************************)
(* The goroutines of a live process run and the writer resolves what it    *)
(* has accepted (module BatchWriter).  That a processor returns is an      *)
(* assumption: the modules of the pipelines show it when every query for a *)
(* page is answered and no Release stays blocked for ever.  Nobody has to  *)
(* send a signal or start a run.                                           *)
(***************************************************************************)
Fairness ==
  /\ WF_vars(ContextCancelled)
  /\ WF_vars(HandlerTakesSignal \/ HandlerSeesContext \/ HandlerStops)
  /\ WF_vars(ForceQuit)
  /\ WF_vars(Main) /\ WF_vars(Writer)

FairSpec == Spec /\ Fairness

-----------------------------------------------------------------------------
(* Properties.                                                             *)

\* Types: no step of main is taken out of order, and no processor of the list
\* is run twice.
TypeOK ==
  /\ pc \in {"open", "init", "health", "loop", "process", "final", "mark",
             "archive", "remove", "rename", "close", "exited"}
  /\ next \in 0..Processors
  /\ ctxDone \in BOOLEAN /\ notified \in BOOLEAN
  /\ sigCh \in {0, 1}
  /\ handler \in {"select", "stop", "second", "gone"}
  /\ signals \in 0..MaxSignals
  /\ queue \in Seq(WQ!Item) /\ table \in Seq(WQ!Item)
  /\ rejected \in Seq(WQ!Item)
  /\ status \in {"absent", "false", "true"}
  /\ truncated \in {"no", "failed", "interrupted"}
  /\ accepted \in 0..MaxItems /\ base \in Nat
  /\ archive \in [status : {"absent", "false", "true"}, rows : Seq(WQ!Item)]
  /\ runs \in Nat

\* No run adds to the rows of an earlier one: a database that kept its rows kept
\* its row of run_status too, and InitializeRunStatus fails on it.  The documents
\* say otherwise: docs/ARCHITECTURE.md has UPSERTs "for incremental runs".
NoIncrementalRun == accepted > 0 => base = 0

\* The old archive is given up, and a new one made, only when the database holds
\* every row the run has given to the writer but for those of batches that
\* failed: a crash between the two steps loses none of them.
ArchiveIsDrained ==
  [][archive' # archive =>
       queue = <<>> /\ Len(table) + Len(rejected) = base + accepted]_vars

\* A run is marked completed, and an archive touched, only after every processor
\* has returned and by a run nobody had interrupted before its last processor
\* did.
FinalizedAfterAllProcessors ==
  [][(status' = "true" /\ status # "true") \/ archive' # archive
     => next = Processors /\ truncated # "interrupted"]_vars

\* However the runs are cut short, the program ends by itself after a signal.
SignalEnds == (ctxDone /\ Running) ~> ~Running

\* README.md: run_status "tracks whether the export completed successfully".
CompletedMeansExported ==
  status = "true" /\ Running =>
    truncated = "no" /\ queue = <<>> /\ rejected = <<>>

\* cmd/sprawler/main.go: "Second signal: force quit": after the first one the
\* goroutine that waits for the second is there.
SecondSignalHeard == Running /\ ctxDone => handler # "gone"
=============================================================================
