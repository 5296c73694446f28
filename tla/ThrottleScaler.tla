---------------------------- MODULE ThrottleScaler ----------------------------
(***************************************************************************)
(* internal/throttle/throttle_scaler.go: a semaphore of tokens shared by   *)
(* the workers of a pipeline, and a monitor goroutine that removes tokens  *)
(* when a backpressure signal fires and puts them back, one at a time,     *)
(* after a quiet cooldown.                                                 *)
(*                                                                         *)
(* Tokens are counted in three places that no lock ties together: the      *)
(* semaphore, the workers, and the atomic liveTokens.  Every load, store,  *)
(* compare-and-swap and channel operation is a step of its own.            *)
(*                                                                         *)
(* Time is counted in check intervals.  The few instructions of a Release  *)
(* may overlap a tick, at any point of it, but are never spread over two.  *)
(*                                                                         *)
(* Definitions marked (variant) are wrong on purpose: no specification     *)
(* uses them, and each breaks a property when put in the place of the      *)
(* definition that follows it.                                             *)
(***************************************************************************)
EXTENDS Integers, FiniteSets

CONSTANTS Workers,    \* goroutines calling Acquire and Release
          Signals,    \* the backpressure signals
          Action,     \* signal -> "ScaleHalve" or "ScaleReduceOne"
          Cooldown,   \* signal -> cooldown in check intervals
          maxWorkers,
          MaxFirings  \* bound of the model: rises of a signal's count

ASSUME ThrottleScalerAssumption ==
  /\ IsFiniteSet(Workers)
  /\ Action \in [Signals -> {"ScaleHalve", "ScaleReduceOne"}]
  /\ Cooldown \in [Signals -> Nat]
  /\ maxWorkers \in Nat \ {0}
  /\ MaxFirings \in Nat

VARIABLES
  sem,       \* tokens in the semaphore's channel
  live,      \* liveTokens
  limit,     \* currentLimit
  wpc,       \* worker -> where it is
  seenLive,  \* worker -> liveTokens as loaded by its Release
  old,       \* workers that were in Release when the last tick ended
  monitor,   \* where the monitor is: between ticks or within one
  due,       \* the check interval has elapsed
  toDrain,   \* iterations left in scaleDown
  delta,     \* signal -> its count has risen since the last tick
  age,       \* signal -> intervals since lastSeen
  waited,    \* history: intervals since the last tick that fired or scaled up
  minLimit,
  reduced,   \* reducedSince is set
  firings

workerVars == <<wpc, seenLive, old>>
clockVars  == <<due, delta, age, waited, firings>>
statVars   == <<minLimit, reduced>>
vars == <<sem, live, limit, workerVars, monitor, toDrain, clockVars, statVars>>

Never == -1    \* lastSeen is the zero time

\* A worker has a token from its Acquire to the last instruction of Release.
InRelease == {"load", "compare", "swap", "put"}
Holding   == {"working"} \cup InRelease

Init ==
  /\ sem = maxWorkers
  /\ live = maxWorkers
  /\ limit = maxWorkers
  /\ wpc = [w \in Workers |-> "idle"]
  /\ seenLive = [w \in Workers |-> 0]
  /\ old = {}
  /\ monitor = "idle"
  /\ due = FALSE
  /\ toDrain = 0
  /\ delta = [s \in Signals |-> FALSE]
  /\ age = [s \in Signals |-> Never]
  /\ waited = 0
  /\ minLimit = maxWorkers
  /\ reduced = FALSE
  /\ firings = 0

-----------------------------------------------------------------------------
(* The workers.                                                            *)

Goto(w, from, to) ==
  /\ wpc[w] = from
  /\ wpc' = [wpc EXCEPT ![w] = to]

\* A worker receives a site and calls Acquire, or finds its channel closed.
StartSite(w) ==
  /\ Goto(w, "idle", "acquiring")
  /\ UNCHANGED <<sem, live, limit, seenLive, old, monitor, toDrain, clockVars,
                 statVars>>

Finish(w) ==
  /\ Goto(w, "idle", "done")
  /\ UNCHANGED <<sem, live, limit, seenLive, old, monitor, toDrain, clockVars,
                 statVars>>

\* Workers acquire under a context that is never cancelled.
Acquire(w) ==
  /\ sem > 0
  /\ sem' = sem - 1
  /\ Goto(w, "acquiring", "working")
  /\ UNCHANGED <<live, limit, seenLive, old, monitor, toDrain, clockVars,
                 statVars>>

SiteDone(w) ==
  /\ Goto(w, "working", "load")
  /\ UNCHANGED <<sem, live, limit, seenLive, old, monitor, toDrain, clockVars,
                 statVars>>

ReleaseLoadLive(w) ==
  /\ Goto(w, "load", "compare")
  /\ seenLive' = [seenLive EXCEPT ![w] = live]
  /\ UNCHANGED <<sem, live, limit, old, monitor, toDrain, clockVars, statVars>>

ReleaseCompare(w) ==
  /\ Goto(w, "compare", IF seenLive[w] > limit THEN "swap" ELSE "put")
  /\ UNCHANGED <<sem, live, limit, seenLive, old, monitor, toDrain, clockVars,
                 statVars>>

\* The local variables of Release are gone.
ReleaseEnds(w) ==
  /\ seenLive' = [seenLive EXCEPT ![w] = 0]
  /\ old' = old \ {w}

\* (variant) a plain store instead of the compare-and-swap
ReleaseSwallowUnchecked(w) ==
  /\ Goto(w, "swap", "idle")
  /\ live' = seenLive[w] - 1
  /\ ReleaseEnds(w)
  /\ UNCHANGED <<sem, limit, monitor, toDrain, clockVars, statVars>>

\* The compare-and-swap succeeds and the token is gone ...
ReleaseSwallow(w) ==
  /\ live = seenLive[w]
  /\ Goto(w, "swap", "idle")
  /\ live' = live - 1
  /\ ReleaseEnds(w)
  /\ UNCHANGED <<sem, limit, monitor, toDrain, clockVars, statVars>>

\* ... or somebody else has changed liveTokens.
ReleaseRetry(w) ==
  /\ live # seenLive[w]
  /\ Goto(w, "swap", "load")
  /\ UNCHANGED <<sem, live, limit, seenLive, old, monitor, toDrain, clockVars,
                 statVars>>

\* The channel holds at most maxWorkers tokens.
ReleaseReturn(w) ==
  /\ sem < maxWorkers
  /\ Goto(w, "put", "idle")
  /\ sem' = sem + 1
  /\ ReleaseEnds(w)
  /\ UNCHANGED <<live, limit, monitor, toDrain, clockVars, statVars>>

-----------------------------------------------------------------------------
(* The signals and the clock.                                              *)

\* Whatever GetCount counts happens once more.
Fire(s) ==
  /\ firings < MaxFirings
  /\ firings' = firings + 1
  /\ delta' = [delta EXCEPT ![s] = TRUE]
  /\ UNCHANGED <<sem, live, limit, workerVars, monitor, toDrain, due, age,
                 waited, statVars>>

Blocked(w) == wpc[w] = "put" /\ sem = maxWorkers

\* A check interval passes.  Releases that overlapped the last tick have ended
\* or are blocked on the channel.
Wait ==
  /\ monitor = "idle"
  /\ ~due
  /\ \A w \in old : Blocked(w)
  /\ due' = TRUE
  /\ age' = [s \in Signals |->
               IF age[s] = Never \/ age[s] >= Cooldown[s]
               THEN age[s] ELSE age[s] + 1]
  /\ waited' = IF \E s \in Signals : waited < Cooldown[s]
               THEN waited + 1 ELSE waited
  /\ UNCHANGED <<sem, live, limit, workerVars, monitor, toDrain, delta,
                 firings, statVars>>

-----------------------------------------------------------------------------
(* The monitor.                                                            *)

TickEnds ==
  /\ monitor' = "idle"
  /\ old' = {w \in Workers : wpc[w] \in InRelease}

Fired == {s \in Signals : delta[s]}
Seen  == {s \in Signals : age[s] # Never}

\* The most aggressive action of the signals that fired, at least one worker.
ReducedLimit ==
  LET cut == IF \E s \in Fired : Action[s] = "ScaleHalve"
             THEN limit \div 2 ELSE limit - 1
  IN  IF cut < 1 THEN 1 ELSE cut

TickFired ==
  /\ monitor = "idle" /\ due
  /\ Fired # {}
  /\ due' = FALSE
  /\ age' = [s \in Signals |-> IF delta[s] THEN 0 ELSE age[s]]
  /\ waited' = 0
  /\ delta' = [s \in Signals |-> FALSE]
  /\ limit' = ReducedLimit
  /\ toDrain' = limit - ReducedLimit
  /\ IF ReducedLimit < limit
     THEN monitor' = "drain" /\ UNCHANGED old
     ELSE TickEnds
  /\ UNCHANGED <<sem, live, wpc, seenLive, firings, statVars>>

\* scaleDown takes an idle token out of the semaphore ...
DrainToken ==
  /\ monitor = "drain" /\ toDrain > 0
  /\ sem > 0
  /\ sem' = sem - 1
  /\ monitor' = "drained"
  /\ UNCHANGED <<live, limit, workerVars, toDrain, clockVars, statVars>>

\* ... and lowers liveTokens in a second step.
DrainCount ==
  /\ monitor = "drained"
  /\ live' = live - 1
  /\ toDrain' = toDrain - 1
  /\ monitor' = "drain"
  /\ UNCHANGED <<sem, limit, workerVars, clockVars, statVars>>

\* No idle token: a Release is expected to swallow one later.
DrainMiss ==
  /\ monitor = "drain" /\ toDrain > 0
  /\ sem = 0
  /\ toDrain' = toDrain - 1
  /\ UNCHANGED <<sem, live, limit, workerVars, monitor, clockVars, statVars>>

ScaledDown ==
  /\ monitor = "drain" /\ toDrain = 0
  /\ minLimit' = IF limit < minLimit THEN limit ELSE minLimit
  /\ reduced' = TRUE
  /\ TickEnds
  /\ UNCHANGED <<sem, live, limit, wpc, seenLive, toDrain, clockVars>>

AllQuiet ==
  \A s \in Seen : age[s] >= Cooldown[s]

\* (variant) the last worker is never restored
TickQuietOffByOne ==
  /\ monitor = "idle" /\ due
  /\ Fired = {}
  /\ due' = FALSE
  /\ IF limit + 1 < maxWorkers /\ AllQuiet /\ Seen # {}
     THEN limit' = limit + 1 /\ monitor' = "add" /\ UNCHANGED old
     ELSE TickEnds /\ UNCHANGED limit
  /\ UNCHANGED <<sem, live, wpc, seenLive, toDrain, delta, age, waited,
                 firings, statVars>>

\* (variant) neither the early return at the maximum nor the clamp
TickQuietUncapped ==
  /\ monitor = "idle" /\ due
  /\ Fired = {}
  /\ due' = FALSE
  /\ IF AllQuiet /\ Seen # {}
     THEN limit' = limit + 1 /\ monitor' = "add" /\ UNCHANGED old
     ELSE TickEnds /\ UNCHANGED limit
  /\ UNCHANGED <<sem, live, wpc, seenLive, toDrain, delta, age, waited,
                 firings, statVars>>

\* Nothing fired: scale up by one if the limit is reduced, some signal has
\* ever fired and all of those have been quiet for their cooldown.
TickQuiet ==
  /\ monitor = "idle" /\ due
  /\ Fired = {}
  /\ due' = FALSE
  /\ IF limit < maxWorkers /\ AllQuiet /\ Seen # {}
     THEN limit' = limit + 1 /\ monitor' = "add" /\ UNCHANGED old
     ELSE TickEnds /\ UNCHANGED limit
  /\ UNCHANGED <<sem, live, wpc, seenLive, toDrain, delta, age, waited,
                 firings, statVars>>

\* (variant) the timers keep running
ScaledUpKeepsTimers ==
  /\ reduced' = (reduced /\ limit < maxWorkers)
  /\ UNCHANGED age
  /\ waited' = 0
  /\ TickEnds

\* (variant) any scale-up ends the reduction
ScaledUpEndsReduction ==
  /\ reduced' = FALSE
  /\ age' = [s \in Signals |-> IF age[s] = Never THEN Never ELSE 0]
  /\ waited' = 0
  /\ TickEnds

\* What a scale-up ends with; the timers of the signals start again.
ScaledUp ==
  /\ reduced' = (reduced /\ limit < maxWorkers)
  /\ age' = [s \in Signals |-> IF age[s] = Never THEN Never ELSE 0]
  /\ waited' = 0
  /\ TickEnds

AddToken ==
  /\ monitor = "add"
  /\ sem < maxWorkers
  /\ sem' = sem + 1
  /\ monitor' = "added"
  /\ UNCHANGED <<live, limit, workerVars, toDrain, clockVars, statVars>>

AddCount ==
  /\ monitor = "added"
  /\ live' = live + 1
  /\ ScaledUp
  /\ UNCHANGED <<sem, limit, wpc, seenLive, toDrain, due, delta, firings,
                 minLimit>>

\* (variant) the channel takes a token only when a worker is waiting for it
AddMissAlways ==
  /\ monitor = "add"
  /\ ScaledUp
  /\ UNCHANGED <<sem, live, limit, wpc, seenLive, toDrain, due, delta,
                 firings, minLimit>>

\* The channel is full already.
AddMiss ==
  /\ monitor = "add"
  /\ sem = maxWorkers
  /\ ScaledUp
  /\ UNCHANGED <<sem, live, limit, wpc, seenLive, toDrain, due, delta,
                 firings, minLimit>>

\* Process stops the scaler when its workers are done.
Stop ==
  /\ monitor = "idle"
  /\ \A w \in Workers : wpc[w] = "done"
  /\ monitor' = "stopped"
  /\ UNCHANGED <<sem, live, limit, workerVars, toDrain, clockVars, statVars>>

Stopped == monitor = "stopped" /\ UNCHANGED vars

-----------------------------------------------------------------------------
Release(w) ==
  \/ ReleaseLoadLive(w) \/ ReleaseCompare(w)
  \/ ReleaseSwallow(w) \/ ReleaseRetry(w) \/ ReleaseReturn(w)

Worker(w) ==
  StartSite(w) \/ Finish(w) \/ Acquire(w) \/ SiteDone(w) \/ Release(w)

Monitor ==
  \/ TickFired \/ DrainToken \/ DrainCount \/ DrainMiss \/ ScaledDown
  \/ TickQuiet \/ AddToken \/ AddCount \/ AddMiss

Next ==
  \/ \E w \in Workers : Worker(w)
  \/ \E s \in Signals : Fire(s)
  \/ Wait \/ Monitor \/ Stop \/ Stopped

Spec == Init /\ [][Next]_vars

(***************************************************************************)
(* Sites end (every request has a timeout), goroutines that can run do,    *)
(* the ticker ticks, and the channel serves the workers waiting in Acquire *)
(* in their order of arrival.                                              *)
(***************************************************************************)
Fairness ==
  /\ \A w \in Workers :
       WF_vars(SiteDone(w)) /\ WF_vars(Release(w)) /\ SF_vars(Acquire(w))
  /\ WF_vars(Wait) /\ WF_vars(Monitor)

FairSpec == Spec /\ Fairness

-----------------------------------------------------------------------------
(* Properties.                                                             *)

Holders == {w \in Workers : wpc[w] \in Holding}

\* Types, the semaphore within its channel, and the limit between 1 and
\* maxWorkers whatever actions of the signals are combined.
TypeOK ==
  /\ sem \in 0..maxWorkers
  /\ live \in Int
  /\ limit \in 1..maxWorkers
  /\ wpc \in [Workers -> {"idle", "acquiring", "done"} \cup Holding]
  /\ seenLive \in [Workers -> Int] /\ old \in SUBSET Workers
  /\ monitor \in {"idle", "drain", "drained", "add", "added", "stopped"}
  /\ due \in BOOLEAN
  /\ toDrain \in Nat
  /\ delta \in [Signals -> BOOLEAN]
  /\ age \in [Signals -> Nat \cup {Never}]
  /\ waited \in Nat
  /\ minLimit \in 1..maxWorkers
  /\ reduced \in BOOLEAN
  /\ firings \in Nat

\* No token is created or forgotten: liveTokens is the number of tokens in the
\* semaphore and with the workers, but for the one the monitor has moved and
\* not yet counted.
TokensConserved ==
  live = sem + Cardinality(Holders)
         + (IF monitor = "drained" THEN 1 ELSE 0)
         - (IF monitor = "added" THEN 1 ELSE 0)

\* At full limit the pipeline is never left without any token.
TokenLeftAtFullLimit ==
  monitor = "idle" /\ limit = maxWorkers => live >= 1

\* Between ticks the reduction being timed is a reduction in force, and the
\* minimum reported is one the limit really reached or exceeded.
ReducedIffBelowMax ==
  monitor = "idle" => /\ reduced <=> limit < maxWorkers
                      /\ minLimit <= limit

\* A worker is given back only after the whole cooldown of a signal that had
\* fired, in which nothing fired and no other worker was given back.
RiseTakesCooldown ==
  [][limit' > limit => \E s \in Seen : waited >= Cooldown[s]]_vars

\* Once the signals are quiet the limit climbs back to the maximum, unless
\* the pipeline has finished.
LimitRecovers ==
  <>[](limit = maxWorkers \/ \A w \in Workers : wpc[w] = "done")

\* Every worker that calls Acquire gets a token, even when the drain and the
\* releases together have removed all of them.
AcquireReturns ==
  \A w \in Workers : wpc[w] = "acquiring" ~> wpc[w] = "working"

\* Release gives the token back or swallows it; it does not keep the worker.
ReleaseReturns ==
  \A w \in Workers : wpc[w] \in InRelease ~> wpc[w] = "idle"

\* docs/performance-tuning.md: the recovery math ends at "full capacity".
FullCapacityRestored ==
  monitor = "idle" /\ limit = maxWorkers => live >= maxWorkers
=============================================================================
