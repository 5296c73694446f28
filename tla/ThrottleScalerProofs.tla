------------------------- MODULE ThrottleScalerProofs -------------------------
(***************************************************************************)
(* What holds of the scaler for every number of workers and tokens, every  *)
(* set of signals and every cooldown.                                      *)
(***************************************************************************)
EXTENDS ThrottleScaler, FiniteSetTheorems, TLAPS

(* TypeOK by itself is not inductive: the monitor lowers toDrain after it  *)
(* has taken a token, so it must still have an iteration to count.         *)
TypeInv == TypeOK /\ (monitor = "drained" => toDrain > 0)

LEMMA ReducedLimitType ==
  ASSUME TypeOK
  PROVE  /\ ReducedLimit \in 1..maxWorkers
         /\ ReducedLimit <= limit
<1>1. limit \in Nat /\ limit >= 1 /\ limit <= maxWorkers /\ maxWorkers \in Nat
  BY ThrottleScalerAssumption DEF TypeOK
<1>2. limit \div 2 \in Nat /\ limit \div 2 <= limit
  BY <1>1
<1>. QED
  BY <1>1, <1>2 DEF ReducedLimit

LEMMA WorkerTypeInv ==
  ASSUME TypeInv, NEW w \in Workers, Worker(w)
  PROVE  TypeInv'
<1>. USE ThrottleScalerAssumption DEF TypeInv, TypeOK
<1>1. CASE StartSite(w)
  BY <1>1 DEF StartSite, Goto, clockVars, statVars
<1>2. CASE Finish(w)
  BY <1>2 DEF Finish, Goto, clockVars, statVars
<1>3. CASE Acquire(w)
  BY <1>3 DEF Acquire, Goto, Holding, clockVars, statVars
<1>4. CASE SiteDone(w)
  BY <1>4 DEF SiteDone, Goto, Holding, InRelease, clockVars, statVars
<1>5. CASE ReleaseLoadLive(w)
  BY <1>5 DEF ReleaseLoadLive, Goto, Holding, InRelease, clockVars, statVars
<1>6. CASE ReleaseCompare(w)
  BY <1>6 DEF ReleaseCompare, Goto, Holding, InRelease, clockVars, statVars
<1>7. CASE ReleaseSwallow(w)
  BY <1>7 DEF ReleaseSwallow, ReleaseEnds, Goto, clockVars, statVars
<1>8. CASE ReleaseRetry(w)
  BY <1>8 DEF ReleaseRetry, Goto, Holding, InRelease, clockVars, statVars
<1>9. CASE ReleaseReturn(w)
  BY <1>9, ThrottleScalerAssumption
     DEF ReleaseReturn, ReleaseEnds, Goto, clockVars, statVars
<1>. QED
  BY <1>1, <1>2, <1>3, <1>4, <1>5, <1>6, <1>7, <1>8, <1>9 DEF Worker, Release

LEMMA MonitorTypeInv ==
  ASSUME TypeInv, Monitor
  PROVE  TypeInv'
<1>. USE ThrottleScalerAssumption DEF TypeInv, TypeOK
<1>1. CASE TickFired
  <2>1. ReducedLimit \in 1..maxWorkers /\ ReducedLimit <= limit
    BY ReducedLimitType
  <2>2. limit' \in 1..maxWorkers /\ toDrain' \in Nat
    BY <1>1, <2>1 DEF TickFired
  <2>3. /\ monitor' \in {"idle", "drain"}
        /\ old' \in SUBSET Workers
    BY <1>1 DEF TickFired, TickEnds
  <2>4. age' \in [Signals -> Nat \cup {Never}] /\ delta' \in [Signals -> BOOLEAN]
    BY <1>1 DEF TickFired
  <2>. QED
    BY <1>1, <2>2, <2>3, <2>4 DEF TickFired, statVars
<1>2. CASE DrainToken
  BY <1>2 DEF DrainToken, workerVars, clockVars, statVars
<1>3. CASE DrainCount
  BY <1>3 DEF DrainCount, workerVars, clockVars, statVars
<1>4. CASE DrainMiss
  BY <1>4 DEF DrainMiss, workerVars, clockVars, statVars
<1>5. CASE ScaledDown
  BY <1>5 DEF ScaledDown, TickEnds, clockVars
<1>6. CASE TickQuiet
  <2>. DEFINE Rise == limit < maxWorkers /\ AllQuiet /\ Seen # {}
  <2>1. CASE Rise
    <3>1. /\ limit' = limit + 1 /\ limit < maxWorkers
          /\ monitor' = "add" /\ old' = old
      BY <1>6, <2>1 DEF TickQuiet
    <3>2. limit' \in 1..maxWorkers
      BY <3>1
    <3>3. /\ due' = FALSE
          /\ UNCHANGED <<sem, live, wpc, seenLive, toDrain, delta, age, waited,
                         firings, minLimit, reduced>>
      BY <1>6 DEF TickQuiet, statVars
    <3>. QED
      BY <3>1, <3>2, <3>3
  <2>2. CASE ~Rise
    <3>1. limit' = limit /\ TickEnds
      BY <1>6, <2>2 DEF TickQuiet
    <3>2. /\ due' = FALSE
          /\ UNCHANGED <<sem, live, wpc, seenLive, toDrain, delta, age, waited,
                         firings, minLimit, reduced>>
      BY <1>6 DEF TickQuiet, statVars
    <3>. QED
      BY <3>1, <3>2 DEF TickEnds
  <2>. QED
    BY <2>1, <2>2
<1>7. CASE AddToken
  BY <1>7 DEF AddToken, workerVars, clockVars, statVars
<1>8. CASE AddCount
  BY <1>8 DEF AddCount, ScaledUp, TickEnds, Never
<1>9. CASE AddMiss
  BY <1>9 DEF AddMiss, ScaledUp, TickEnds, Never
<1>. QED
  BY <1>1, <1>2, <1>3, <1>4, <1>5, <1>6, <1>7, <1>8, <1>9 DEF Monitor

LEMMA TypeInvInit == Init => TypeInv
<1>. SUFFICES ASSUME Init PROVE TypeInv
  OBVIOUS
<1>1. /\ sem \in 0..maxWorkers /\ live \in Int /\ limit \in 1..maxWorkers
      /\ minLimit \in 1..maxWorkers /\ toDrain \in Nat /\ firings \in Nat
      /\ waited \in Nat
  BY ThrottleScalerAssumption DEF Init
<1>2. /\ wpc \in [Workers -> {"idle", "acquiring", "done"} \cup Holding]
      /\ seenLive \in [Workers -> Int] /\ old \in SUBSET Workers
  BY DEF Init
<1>3. /\ delta \in [Signals -> BOOLEAN]
      /\ age \in [Signals -> Nat \cup {Never}]
  BY DEF Init
<1>. QED
  BY <1>1, <1>2, <1>3 DEF Init, TypeInv, TypeOK

LEMMA TypeInvNext == TypeInv /\ [Next]_vars => TypeInv'
<1>. SUFFICES ASSUME TypeInv, [Next]_vars PROVE TypeInv'
  OBVIOUS
<1>1. CASE \E w \in Workers : Worker(w)
  BY <1>1, WorkerTypeInv
<1>2. ASSUME NEW s \in Signals, Fire(s) PROVE TypeInv'
  BY <1>2 DEF Fire, workerVars, statVars, TypeInv, TypeOK
<1>3. CASE Wait
  BY <1>3 DEF Wait, workerVars, statVars, TypeInv, TypeOK, Never
<1>4. CASE Monitor
  BY <1>4, MonitorTypeInv
<1>5. CASE Stop
  BY <1>5 DEF Stop, workerVars, clockVars, statVars, TypeInv, TypeOK
<1>6. CASE UNCHANGED vars
  BY <1>6 DEF vars, workerVars, clockVars, statVars, TypeInv, TypeOK
<1>. QED
  BY <1>1, <1>2, <1>3, <1>4, <1>5, <1>6 DEF Next, Stopped

LEMMA TypeInvAlways == Spec => []TypeInv
BY TypeInvInit, TypeInvNext, PTL DEF Spec

\* Every variable keeps its type: in particular the limit stays between 1 and
\* maxWorkers and the semaphore within its capacity, whatever the signals,
\* the workers and the interleaving of their atomic steps.
THEOREM TypeCorrect == Spec => []TypeOK
<1>1. TypeInv => TypeOK
  BY DEF TypeInv
<1>. QED
  BY <1>1, TypeInvAlways, PTL

-----------------------------------------------------------------------------
(* The set of workers with a token after a step of one worker.             *)

LEMMA HoldersFinite ==
  /\ IsFiniteSet(Holders)
  /\ Cardinality(Holders) \in Nat
<1>1. IsFiniteSet(Holders)
  BY ThrottleScalerAssumption, FS_Subset DEF Holders
<1>. QED
  BY <1>1, FS_CardinalityType

LEMMA HoldersGain ==
  ASSUME TypeInv, NEW w \in Workers, NEW from, NEW to,
         Goto(w, from, to), from \notin Holding, to \in Holding
  PROVE  Cardinality(Holders') = Cardinality(Holders) + 1
<1>1. Holders' = Holders \cup {w} /\ w \notin Holders
  BY DEF Goto, Holders, TypeInv, TypeOK
<1>. QED
  BY <1>1, HoldersFinite, FS_AddElement

LEMMA HoldersLoss ==
  ASSUME TypeInv, NEW w \in Workers, NEW from, NEW to,
         Goto(w, from, to), from \in Holding, to \notin Holding
  PROVE  Cardinality(Holders') = Cardinality(Holders) - 1
<1>1. Holders' = Holders \ {w} /\ w \in Holders
  BY DEF Goto, Holders, TypeInv, TypeOK
<1>. QED
  BY <1>1, HoldersFinite, FS_RemoveElement

LEMMA HoldersSame ==
  ASSUME TypeInv, NEW w \in Workers, NEW from, NEW to,
         Goto(w, from, to), from \in Holding <=> to \in Holding
  PROVE  Holders' = Holders
BY DEF Goto, Holders, TypeInv, TypeOK

LEMMA WorkerTokens ==
  ASSUME TypeInv, TokensConserved, NEW w \in Workers, Worker(w)
  PROVE  TokensConserved'
<1>. DEFINE held == Cardinality(Holders)
<1>0. held \in Nat /\ sem \in Int /\ live \in Int
  BY HoldersFinite, ThrottleScalerAssumption DEF TypeInv, TypeOK
<1>. USE <1>0 DEF TokensConserved
<1>1. CASE StartSite(w)
  <2>1. Holders' = Holders
    BY <1>1, HoldersSame DEF StartSite, Holding, InRelease
  <2>. QED
    BY <1>1, <2>1 DEF StartSite
<1>2. CASE Finish(w)
  <2>1. Holders' = Holders
    BY <1>2, HoldersSame DEF Finish, Holding, InRelease
  <2>. QED
    BY <1>2, <2>1 DEF Finish
<1>3. CASE Acquire(w)
  <2>1. Cardinality(Holders') = held + 1
    BY <1>3, HoldersGain DEF Acquire, Holding, InRelease
  <2>. QED
    BY <1>3, <2>1 DEF Acquire
<1>4. CASE SiteDone(w)
  <2>1. Holders' = Holders
    BY <1>4, HoldersSame DEF SiteDone, Holding, InRelease
  <2>. QED
    BY <1>4, <2>1 DEF SiteDone
<1>5. CASE ReleaseLoadLive(w)
  <2>1. Holders' = Holders
    BY <1>5, HoldersSame DEF ReleaseLoadLive, Holding, InRelease
  <2>. QED
    BY <1>5, <2>1 DEF ReleaseLoadLive
<1>6. CASE ReleaseCompare(w)
  <2>1. Holders' = Holders
    BY <1>6, HoldersSame DEF ReleaseCompare, Holding, InRelease
  <2>. QED
    BY <1>6, <2>1 DEF ReleaseCompare
<1>7. CASE ReleaseSwallow(w)
  <2>1. Cardinality(Holders') = held - 1
    BY <1>7, HoldersLoss DEF ReleaseSwallow, Holding, InRelease
  <2>. QED
    BY <1>7, <2>1 DEF ReleaseSwallow
<1>8. CASE ReleaseRetry(w)
  <2>1. Holders' = Holders
    BY <1>8, HoldersSame DEF ReleaseRetry, Holding, InRelease
  <2>. QED
    BY <1>8, <2>1 DEF ReleaseRetry
<1>9. CASE ReleaseReturn(w)
  <2>1. Cardinality(Holders') = held - 1
    BY <1>9, HoldersLoss DEF ReleaseReturn, Holding, InRelease
  <2>. QED
    BY <1>9, <2>1 DEF ReleaseReturn
<1>. QED
  BY <1>1, <1>2, <1>3, <1>4, <1>5, <1>6, <1>7, <1>8, <1>9 DEF Worker, Release

LEMMA MonitorTokens ==
  ASSUME TypeInv, TokensConserved, Monitor
  PROVE  TokensConserved'
<1>0. Cardinality(Holders) \in Nat /\ sem \in Int /\ live \in Int
  BY HoldersFinite, ThrottleScalerAssumption DEF TypeInv, TypeOK
<1>1. Holders' = Holders
  BY DEF Monitor, TickFired, DrainToken, DrainCount, DrainMiss, ScaledDown,
         TickQuiet, AddToken, AddCount, AddMiss, workerVars, Holders
<1>. USE <1>0, <1>1 DEF TokensConserved
<1>2. CASE TickFired
  BY <1>2 DEF TickFired, TickEnds
<1>3. CASE DrainToken
  BY <1>3 DEF DrainToken
<1>4. CASE DrainCount
  BY <1>4 DEF DrainCount
<1>5. CASE DrainMiss
  BY <1>5 DEF DrainMiss
<1>6. CASE ScaledDown
  BY <1>6 DEF ScaledDown, TickEnds
<1>7. CASE TickQuiet
  BY <1>7 DEF TickQuiet, TickEnds
<1>8. CASE AddToken
  BY <1>8 DEF AddToken
<1>9. CASE AddCount
  BY <1>9 DEF AddCount, ScaledUp, TickEnds
<1>10. CASE AddMiss
  BY <1>10 DEF AddMiss, ScaledUp, TickEnds
<1>. QED
  BY <1>2, <1>3, <1>4, <1>5, <1>6, <1>7, <1>8, <1>9, <1>10 DEF Monitor

LEMMA TokensInit == Init => TokensConserved
<1>. SUFFICES ASSUME Init PROVE TokensConserved
  OBVIOUS
<1>1. Holders = {}
  BY DEF Init, Holders, Holding, InRelease
<1>2. Cardinality(Holders) = 0
  BY <1>1, FS_EmptySet
<1>. QED
  BY <1>2, ThrottleScalerAssumption DEF Init, TokensConserved

LEMMA TokensNext == TypeInv /\ TokensConserved /\ [Next]_vars => TokensConserved'
<1>. SUFFICES ASSUME TypeInv, TokensConserved, [Next]_vars
              PROVE  TokensConserved'
  OBVIOUS
<1>1. CASE \E w \in Workers : Worker(w)
  BY <1>1, WorkerTokens
<1>2. CASE Monitor
  BY <1>2, MonitorTokens
<1>3. ASSUME NEW s \in Signals, Fire(s) PROVE TokensConserved'
  BY <1>3 DEF Fire, workerVars, TokensConserved, Holders
<1>4. CASE Wait
  BY <1>4 DEF Wait, workerVars, TokensConserved, Holders
<1>5. CASE Stop
  BY <1>5 DEF Stop, workerVars, TokensConserved, Holders
<1>6. CASE UNCHANGED vars
  BY <1>6 DEF vars, workerVars, TokensConserved, Holders
<1>. QED
  BY <1>1, <1>2, <1>3, <1>4, <1>5, <1>6 DEF Next, Stopped

\* liveTokens counts the tokens of the semaphore and of the workers, whatever
\* releases, compare-and-swaps, drains and additions overlap.
THEOREM TokenConservation == Spec => []TokensConserved
BY TypeInvAlways, TokensInit, TokensNext, PTL DEF Spec

-----------------------------------------------------------------------------
(* The reduction being timed.  While the monitor is inside scaleDown the   *)
(* limit is already reduced and the books are not yet; inside scaleUp the  *)
(* limit has already risen and the books still say reduced.                *)

BooksInv ==
  /\ monitor \in {"drain", "drained"} => limit < maxWorkers
  /\ monitor \in {"add", "added"} => reduced
  /\ monitor \in {"idle", "stopped"} => (reduced <=> limit < maxWorkers)
  /\ monitor \notin {"drain", "drained"} => minLimit <= limit

LEMMA BooksNext == TypeInv /\ BooksInv /\ [Next]_vars => BooksInv'
<1>. SUFFICES ASSUME TypeInv, BooksInv, [Next]_vars PROVE BooksInv'
  OBVIOUS
<1>0. /\ limit \in Int /\ maxWorkers \in Int /\ minLimit \in Int
      /\ limit <= maxWorkers /\ reduced \in BOOLEAN
  BY ThrottleScalerAssumption DEF TypeInv, TypeOK
<1>. USE <1>0 DEF BooksInv
<1>1. CASE UNCHANGED <<monitor, limit, reduced, minLimit>>
  BY <1>1
<1>2. CASE TickFired
  <2>1. ReducedLimit \in Int /\ ReducedLimit <= limit
    BY ReducedLimitType, ThrottleScalerAssumption DEF TypeInv
  <2>2. CASE ReducedLimit < limit
    BY <1>2, <2>1, <2>2 DEF TickFired, statVars
  <2>3. CASE ReducedLimit = limit
    BY <1>2, <2>1, <2>3 DEF TickFired, TickEnds, statVars
  <2>. QED
    BY <2>1, <2>2, <2>3
<1>3. CASE DrainToken
  BY <1>3 DEF DrainToken, statVars
<1>4. CASE DrainCount
  BY <1>4 DEF DrainCount, statVars
<1>5. CASE ScaledDown
  BY <1>5 DEF ScaledDown, TickEnds
<1>6. CASE TickQuiet
  <2>1. CASE limit < maxWorkers /\ AllQuiet /\ Seen # {}
    BY <1>6, <2>1 DEF TickQuiet, statVars
  <2>2. CASE ~(limit < maxWorkers /\ AllQuiet /\ Seen # {})
    BY <1>6, <2>2 DEF TickQuiet, TickEnds, statVars
  <2>. QED
    BY <2>1, <2>2
<1>7. CASE AddToken
  BY <1>7 DEF AddToken, statVars
<1>8. CASE AddCount
  BY <1>8 DEF AddCount, ScaledUp, TickEnds
<1>9. CASE AddMiss
  BY <1>9 DEF AddMiss, ScaledUp, TickEnds
<1>10. CASE Stop
  BY <1>10 DEF Stop, statVars
<1>11. \/ UNCHANGED <<monitor, limit, reduced, minLimit>>
       \/ TickFired \/ DrainToken \/ DrainCount \/ ScaledDown \/ TickQuiet
       \/ AddToken \/ AddCount \/ AddMiss \/ Stop
  BY DEF Next, Worker, Release, StartSite, Finish, Acquire, SiteDone,
         ReleaseLoadLive, ReleaseCompare, ReleaseSwallow, ReleaseRetry,
         ReleaseReturn, Fire, Wait, Monitor, DrainMiss, Stopped, vars, statVars
<1>. QED
  BY <1>1, <1>2, <1>3, <1>4, <1>5, <1>6, <1>7, <1>8, <1>9, <1>10, <1>11

\* Between ticks the reported reduction is the one in force and the reported
\* minimum bounds the limit, for every history of cuts and restorations.
THEOREM ReductionBooks == Spec => []ReducedIffBelowMax
<1>1. Init => BooksInv
  BY ThrottleScalerAssumption DEF Init, BooksInv
<1>2. BooksInv => ReducedIffBelowMax
  BY DEF BooksInv, ReducedIffBelowMax
<1>. QED
  BY <1>1, <1>2, TypeInvAlways, BooksNext, PTL DEF Spec

-----------------------------------------------------------------------------
(* The cooldown.  The monitor looks only at the age of each signal; the    *)
(* link to the time really waited is the signal that fired last, whose age *)
(* is never ahead of it.                                                   *)

TimerInv == Seen # {} => \E s \in Seen : age[s] <= waited

LEMMA TimerNext == TypeInv /\ TimerInv /\ [Next]_vars => TimerInv'
<1>. SUFFICES ASSUME TypeInv, TimerInv, [Next]_vars PROVE TimerInv'
  OBVIOUS
<1>0. /\ age \in [Signals -> Nat \cup {Never}] /\ waited \in Nat
      /\ Cooldown \in [Signals -> Nat]
  BY ThrottleScalerAssumption DEF TypeInv, TypeOK
<1>1. CASE UNCHANGED <<age, waited>>
  BY <1>1 DEF TimerInv, Seen
<1>2. CASE TickFired
  <2>1. PICK s \in Signals : delta[s]
    BY <1>2 DEF TickFired, Fired
  <2>2. age'[s] = 0 /\ waited' = 0
    BY <1>2, <2>1 DEF TickFired
  <2>. QED
    BY <2>2 DEF TimerInv, Seen, Never
<1>3. CASE Wait
  <2>. SUFFICES ASSUME Seen' # {} PROVE \E s \in Seen' : age'[s] <= waited'
    BY DEF TimerInv
  <2>1. \A s \in Signals : age'[s] # Never <=> age[s] # Never
    BY <1>0, <1>3 DEF Wait, Never
  <2>2. PICK s \in Signals : age[s] # Never /\ age[s] <= waited
    BY <2>1 DEF TimerInv, Seen
  <2>3. CASE age[s] >= Cooldown[s]
    <3>1. age'[s] = age[s] /\ (waited' = waited \/ waited' = waited + 1)
      BY <1>3, <2>3 DEF Wait
    <3>. QED
      BY <1>0, <2>1, <2>2, <3>1 DEF Seen, Never
  <2>4. CASE age[s] < Cooldown[s]
    <3>1. age'[s] = age[s] + 1
      BY <1>0, <1>3, <2>2, <2>4 DEF Wait, Never
    <3>2. CASE \E r \in Signals : waited < Cooldown[r]
      <4>1. waited' = waited + 1
        BY <1>3, <3>2 DEF Wait
      <4>. QED
        BY <1>0, <2>1, <2>2, <3>1, <4>1 DEF Seen, Never
    <3>3. CASE ~ \E r \in Signals : waited < Cooldown[r]
      <4>1. waited' = waited /\ waited >= Cooldown[s]
        BY <1>0, <1>3, <3>3 DEF Wait
      <4>. QED
        BY <1>0, <2>1, <2>2, <2>4, <3>1, <4>1 DEF Seen, Never
    <3>. QED
      BY <3>2, <3>3
  <2>. QED
    BY <1>0, <2>2, <2>3, <2>4 DEF Never
<1>4. CASE AddCount \/ AddMiss
  <2>1. waited' = 0 /\ Seen' = Seen /\ \A s \in Seen : age'[s] = 0
    BY <1>0, <1>4 DEF AddCount, AddMiss, ScaledUp, Seen, Never
  <2>. QED
    BY <2>1 DEF TimerInv
<1>5. \/ UNCHANGED <<age, waited>>
      \/ TickFired \/ Wait \/ AddCount \/ AddMiss
  BY DEF Next, Worker, Release, StartSite, Finish, Acquire, SiteDone,
         ReleaseLoadLive, ReleaseCompare, ReleaseSwallow, ReleaseRetry,
         ReleaseReturn, Fire, Monitor, DrainToken, DrainCount, DrainMiss,
         ScaledDown, TickQuiet, AddToken, Stop, Stopped, vars, clockVars
<1>. QED
  BY <1>1, <1>2, <1>3, <1>4, <1>5

LEMMA RiseStep ==
  ASSUME TypeInv, TimerInv, [Next]_vars, limit' > limit
  PROVE  \E s \in Seen : waited >= Cooldown[s]
<1>0. /\ limit \in Int /\ age \in [Signals -> Nat \cup {Never}] /\ waited \in Nat
      /\ Cooldown \in [Signals -> Nat]
  BY ThrottleScalerAssumption DEF TypeInv, TypeOK
<1>1. CASE TickFired
  <2>1. limit' <= limit
    BY <1>1, ReducedLimitType DEF TickFired, TypeInv
  <2>2. limit' \in Int
    BY <1>1, ReducedLimitType, ThrottleScalerAssumption DEF TickFired, TypeInv
  <2>. QED
    BY <1>0, <2>1, <2>2
<1>2. CASE TickQuiet
  <2>1. AllQuiet /\ Seen # {}
    BY <1>0, <1>2 DEF TickQuiet
  <2>2. PICK s \in Seen : age[s] <= waited
    BY <2>1 DEF TimerInv
  <2>3. s \in Signals /\ age[s] \in Nat /\ age[s] >= Cooldown[s]
    BY <1>0, <2>1 DEF AllQuiet, Seen, Never
  <2>. QED
    BY <1>0, <2>2, <2>3
<1>3. limit' = limit \/ TickFired \/ TickQuiet
  BY DEF Next, Worker, Release, StartSite, Finish, Acquire, SiteDone,
         ReleaseLoadLive, ReleaseCompare, ReleaseSwallow, ReleaseRetry,
         ReleaseReturn, Fire, Wait, Monitor, DrainToken, DrainCount,
         DrainMiss, ScaledDown, AddToken, AddCount, AddMiss, Stop, Stopped,
         vars
<1>. QED
  BY <1>0, <1>1, <1>2, <1>3

\* No worker is given back before a whole cooldown without signals and without
\* another worker given back.
THEOREM CooldownRespected == Spec => RiseTakesCooldown
<1>1. Init => TimerInv
  BY DEF Init, TimerInv, Seen
<1>2. TypeInv /\ TimerInv /\ [Next]_vars
        => [limit' > limit => \E s \in Seen : waited >= Cooldown[s]]_vars
  BY RiseStep
<1>. QED
  BY <1>1, <1>2, TypeInvAlways, TimerNext, PTL DEF Spec, RiseTakesCooldown

-----------------------------------------------------------------------------
(* The last token.  A Release swallows a token only when it has seen more  *)
(* of them than the limit, so never the last one; a drain may take it, but *)
(* leaves the limit reduced; and the way back to the full limit adds one.  *)

LeftInv ==
  /\ \A w \in Workers : wpc[w] = "swap" => seenLive[w] >= 2
  /\ monitor \in {"drain", "drained"} => limit < maxWorkers
  /\ monitor = "added" => live >= 0
  /\ monitor = "idle" /\ limit = maxWorkers => live >= 1

LEMMA WorkerLeft ==
  ASSUME TypeInv, LeftInv, NEW w \in Workers, Worker(w)
  PROVE  LeftInv'
<1>1. /\ wpc \in [Workers -> {"idle", "acquiring", "done"} \cup Holding]
      /\ seenLive \in [Workers -> Int] /\ live \in Int /\ limit \in Int
      /\ limit >= 1
  BY ThrottleScalerAssumption DEF TypeInv, TypeOK
<1>2. UNCHANGED <<monitor, limit>>
  BY DEF Worker, Release, StartSite, Finish, Acquire, SiteDone,
         ReleaseLoadLive, ReleaseCompare, ReleaseSwallow, ReleaseRetry,
         ReleaseReturn
<1>3. CASE ReleaseCompare(w)
  <2>1. UNCHANGED <<live, seenLive>>
    BY <1>3 DEF ReleaseCompare
  <2>2. wpc'[w] = "swap" => seenLive[w] >= 2
    BY <1>1, <1>3 DEF ReleaseCompare, Goto
  <2>3. \A v \in Workers : v # w => wpc'[v] = wpc[v]
    BY <1>1, <1>3 DEF ReleaseCompare, Goto
  <2>. QED
    BY <1>2, <2>1, <2>2, <2>3 DEF LeftInv
<1>4. CASE ReleaseSwallow(w)
  <2>1. wpc[w] = "swap" /\ live = seenLive[w] /\ live' = live - 1
    BY <1>4 DEF ReleaseSwallow, Goto
  <2>2. seenLive[w] >= 2
    BY <2>1 DEF LeftInv
  <2>3. live' >= 1 /\ live' >= 0
    BY <1>1, <2>1, <2>2
  <2>4. \A v \in Workers : wpc'[v] = "swap" =>
            wpc[v] = "swap" /\ seenLive'[v] = seenLive[v]
    BY <1>1, <1>4 DEF ReleaseSwallow, Goto, ReleaseEnds
  <2>. QED
    BY <1>2, <2>3, <2>4 DEF LeftInv
<1>5. CASE \/ StartSite(w) \/ Finish(w) \/ Acquire(w) \/ SiteDone(w)
           \/ ReleaseLoadLive(w) \/ ReleaseRetry(w) \/ ReleaseReturn(w)
  <2>1. live' = live
    BY <1>5 DEF StartSite, Finish, Acquire, SiteDone, ReleaseLoadLive,
                ReleaseRetry, ReleaseReturn
  <2>2. \A v \in Workers : wpc'[v] = "swap" =>
            wpc[v] = "swap" /\ seenLive'[v] = seenLive[v]
    BY <1>1, <1>5
       DEF StartSite, Finish, Acquire, SiteDone, ReleaseLoadLive,
           ReleaseRetry, ReleaseReturn, Goto, ReleaseEnds
  <2>. QED
    BY <1>2, <2>1, <2>2 DEF LeftInv
<1>. QED
  BY <1>3, <1>4, <1>5 DEF Worker, Release

LEMMA MonitorLeft ==
  ASSUME TypeInv, TokensConserved, LeftInv, Monitor
  PROVE  LeftInv'
<1>1. /\ live \in Int /\ limit \in Int /\ sem \in Nat /\ maxWorkers \in Nat
      /\ maxWorkers >= 1 /\ limit <= maxWorkers
  BY ThrottleScalerAssumption DEF TypeInv, TypeOK
<1>2. UNCHANGED <<wpc, seenLive>>
  BY DEF Monitor, TickFired, DrainToken, DrainCount, DrainMiss, ScaledDown,
         TickQuiet, AddToken, AddCount, AddMiss, workerVars
<1>3. monitor = "add" => live >= sem
  BY <1>1, HoldersFinite DEF TokensConserved
<1>4. CASE TickFired
  <2>1. ReducedLimit \in Int /\ ReducedLimit <= limit
    BY ReducedLimitType, ThrottleScalerAssumption DEF TypeInv
  <2>2. monitor = "idle" /\ limit' = ReducedLimit /\ live' = live
    BY <1>4 DEF TickFired
  <2>3. CASE ReducedLimit < limit
    BY <1>1, <1>2, <1>4, <2>1, <2>2, <2>3 DEF TickFired, LeftInv
  <2>4. CASE ReducedLimit = limit
    BY <1>1, <1>2, <1>4, <2>1, <2>2, <2>4 DEF TickFired, TickEnds, LeftInv
  <2>. QED
    BY <1>1, <2>1, <2>3, <2>4
<1>5. CASE DrainToken \/ DrainCount \/ DrainMiss
  BY <1>2, <1>5 DEF DrainToken, DrainCount, DrainMiss, LeftInv
<1>6. CASE ScaledDown
  BY <1>1, <1>2, <1>6 DEF ScaledDown, TickEnds, LeftInv
<1>7. CASE TickQuiet
  <2>1. /\ monitor = "idle" /\ live' = live
        /\ monitor' = "add" \/ (monitor' = "idle" /\ limit' = limit)
    BY <1>7 DEF TickQuiet, TickEnds
  <2>. QED
    BY <1>2, <2>1 DEF LeftInv
<1>8. CASE AddToken
  BY <1>1, <1>2, <1>3, <1>8 DEF AddToken, LeftInv
<1>9. CASE AddCount
  BY <1>1, <1>2, <1>9 DEF AddCount, ScaledUp, TickEnds, LeftInv
<1>10. CASE AddMiss
  BY <1>1, <1>2, <1>3, <1>10 DEF AddMiss, ScaledUp, TickEnds, LeftInv
<1>. QED
  BY <1>4, <1>5, <1>6, <1>7, <1>8, <1>9, <1>10 DEF Monitor

LEMMA LeftNext ==
  TypeInv /\ TokensConserved /\ LeftInv /\ [Next]_vars => LeftInv'
<1>. SUFFICES ASSUME TypeInv, TokensConserved, LeftInv, [Next]_vars
              PROVE  LeftInv'
  OBVIOUS
<1>1. CASE \E w \in Workers : Worker(w)
  BY <1>1, WorkerLeft
<1>2. CASE Monitor
  BY <1>2, MonitorLeft
<1>3. CASE Stop
  BY <1>3 DEF Stop, workerVars, LeftInv
<1>4. CASE Wait \/ Stopped \/ (\E s \in Signals : Fire(s)) \/ UNCHANGED vars
  BY <1>4 DEF Wait, Stopped, Fire, vars, workerVars, LeftInv
<1>. QED
  BY <1>1, <1>2, <1>3, <1>4 DEF Next

\* Whatever drains and releases have removed, a pipeline at the full limit has
\* a token to work with, for any number of workers and any signals.
THEOREM TokenLeft == Spec => []TokenLeftAtFullLimit
<1>1. Init => LeftInv
  BY ThrottleScalerAssumption DEF Init, LeftInv
<1>2. LeftInv => TokenLeftAtFullLimit
  BY DEF LeftInv, TokenLeftAtFullLimit
<1>. QED
  BY <1>1, <1>2, TypeInvAlways, TokensInit, TokensNext, LeftNext, PTL DEF Spec
=============================================================================
