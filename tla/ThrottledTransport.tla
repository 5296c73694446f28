-------------------------- MODULE ThrottledTransport --------------------------
(***************************************************************************)
(* ThrottledTransport in internal/api/client.go: concurrent calls of       *)
(* RoundTrip behind one shared backoff window.                             *)
(*                                                                         *)
(* Time is relative: a window or a timer is the number of units it has     *)
(* left, and Tick lets a unit pass for all of them, so the clock itself    *)
(* needs no bound.  A timer that has run out may be acted upon late.       *)
(*                                                                         *)
(* Definitions marked (variant) are wrong on purpose: no specification     *)
(* uses them, and each breaks a property when put in the place of the      *)
(* definition that follows it.                                             *)
(***************************************************************************)
EXTENDS Integers, Sequences

CONSTANTS Requests,      \* calls of RoundTrip
          Idempotent,    \* those with method GET, HEAD or OPTIONS
          maxRetries,
          retryBackoffs, \* units, one per retry, used in turn
          throttlePause, \* units when a reply names no usable time
          RetryAfter     \* units a Retry-After header may name

ASSUME ThrottledTransportAssumption ==
  /\ Idempotent \subseteq Requests
  /\ maxRetries \in Nat
  /\ retryBackoffs \in Seq(Nat) /\ retryBackoffs # <<>>
  /\ throttlePause \in Nat \ {0}
  /\ RetryAfter \subseteq Nat \ {0}

VARIABLES
  pauseUntil,       \* units until the window ends, 0 for none
  rpc,              \* request -> where its RoundTrip is
  timer,            \* request -> units of the wait it is in
  attempt,          \* request -> attempts made
  retryAfter,       \* request -> pause its 429 or 503 asks for
  cancelled,        \* requests whose context has ended
  gateActivations,
  transportRetries,
  promised,         \* history: units until the last window anyone was told of
  owed              \* history: request -> units of promised when it read the
                    \* gate

stats   == <<gateActivations, transportRetries>>
history == <<promised, owed>>
vars == <<pauseUntil, rpc, timer, attempt, retryAfter, cancelled, stats,
          history>>

Init ==
  /\ pauseUntil = 0
  /\ rpc = [r \in Requests |-> "idle"]
  /\ timer = [r \in Requests |-> 0]
  /\ attempt = [r \in Requests |-> 0]
  /\ retryAfter = [r \in Requests |-> 0]
  /\ cancelled = {}
  /\ gateActivations = 0
  /\ transportRetries = 0
  /\ promised = 0
  /\ owed = [r \in Requests |-> 0]

Active(r) == rpc[r] \notin {"idle", "done"}

Goto(r, from, to) ==
  /\ rpc[r] = from
  /\ rpc' = [rpc EXCEPT ![r] = to]

-----------------------------------------------------------------------------
(* Time and contexts.                                                      *)

Passed(n) == IF n > 0 THEN n - 1 ELSE 0

Tick ==
  /\ pauseUntil > 0 \/ \E r \in Requests : timer[r] > 0
  /\ pauseUntil' = Passed(pauseUntil)
  /\ timer' = [r \in Requests |-> Passed(timer[r])]
  /\ promised' = Passed(promised)
  /\ owed' = [r \in Requests |-> Passed(owed[r])]
  /\ UNCHANGED <<rpc, attempt, retryAfter, cancelled, stats>>

\* One context may be that of several requests, begun or not.
Cancel(R) ==
  /\ R # {} /\ R \cap cancelled = {}
  /\ \A r \in R : rpc[r] # "done"
  /\ cancelled' = cancelled \cup R
  /\ UNCHANGED <<pauseUntil, rpc, timer, attempt, retryAfter, stats, history>>

-----------------------------------------------------------------------------
(* The gate.                                                               *)

\* The window is read once, under the lock.
ReadGate(r) ==
  /\ Goto(r, "idle", IF pauseUntil > 0 THEN "wait" ELSE "send")
  /\ timer' = [timer EXCEPT ![r] = pauseUntil]
  /\ owed' = [owed EXCEPT ![r] = promised]
  /\ UNCHANGED <<pauseUntil, attempt, retryAfter, cancelled, stats, promised>>

\* (variant) a loop around the wait that never reads the window again
GateOpensAgain(r) ==
  /\ timer[r] = 0
  /\ Goto(r, "wait", "wait")
  /\ timer' = [timer EXCEPT ![r] = throttlePause]
  /\ UNCHANGED <<pauseUntil, attempt, retryAfter, cancelled, stats, history>>

GateOpens(r) ==
  /\ timer[r] = 0
  /\ Goto(r, "wait", "send")
  /\ UNCHANGED <<pauseUntil, timer, attempt, retryAfter, cancelled, stats,
                 history>>

\* The other case of the select, of the gate and of the backoff alike.
WaitCancelled(r) ==
  /\ r \in cancelled
  /\ Goto(r, "wait", "done") \/ Goto(r, "backoff", "done")
  /\ timer' = [timer EXCEPT ![r] = 0]
  /\ UNCHANGED <<pauseUntil, attempt, retryAfter, cancelled, stats, history>>

-----------------------------------------------------------------------------
(* The attempts.                                                           *)

Send(r) ==
  /\ Goto(r, "send", "flight")
  /\ attempt' = [attempt EXCEPT ![r] = @ + 1]
  /\ owed' = [owed EXCEPT ![r] = 0]
  /\ UNCHANGED <<pauseUntil, timer, retryAfter, cancelled, stats, promised>>

\* A reply that is neither 429 nor 503.
Reply(r) ==
  /\ Goto(r, "flight", "done")
  /\ UNCHANGED <<pauseUntil, timer, attempt, retryAfter, cancelled, stats,
                 history>>

\* (variant) a header that names no positive number is believed
ThrottledUnchecked(r) ==
  /\ Goto(r, "flight", "update")
  /\ \E pause \in RetryAfter \cup {-1, throttlePause} :
       retryAfter' = [retryAfter EXCEPT ![r] = pause]
  /\ UNCHANGED <<pauseUntil, timer, attempt, cancelled, stats, history>>

\* A 429 or 503.  The default pause stands for a header that is missing, not a
\* number of seconds, or not positive.
Throttled(r) ==
  /\ Goto(r, "flight", "update")
  /\ \E pause \in RetryAfter \cup {throttlePause} :
       retryAfter' = [retryAfter EXCEPT ![r] = pause]
  /\ UNCHANGED <<pauseUntil, timer, attempt, cancelled, stats, history>>

\* (variant) one retry too many
MayRetryOffByOne(r) == r \in Idempotent /\ attempt[r] <= maxRetries + 1

MayRetry(r) == r \in Idempotent /\ attempt[r] <= maxRetries

Backoff(n) == retryBackoffs[1 + (n % Len(retryBackoffs))]

\* A transient network error of a request that may be sent again.
RetryLater(r) ==
  /\ MayRetry(r)
  /\ r \notin cancelled
  /\ Goto(r, "flight", "backoff")
  /\ transportRetries' = transportRetries + 1
  /\ timer' = [timer EXCEPT ![r] = Backoff(attempt[r] - 1)]
  /\ UNCHANGED <<pauseUntil, attempt, retryAfter, cancelled, gateActivations,
                 history>>

\* A lasting error, also the one of an ended context, or a transient one that
\* is not followed by another attempt.
Fails(r) ==
  /\ Goto(r, "flight", "done")
  /\ UNCHANGED <<pauseUntil, timer, attempt, retryAfter, cancelled, stats,
                 history>>

Retry(r) ==
  /\ timer[r] = 0
  /\ Goto(r, "backoff", "send")
  /\ UNCHANGED <<pauseUntil, timer, attempt, retryAfter, cancelled, stats,
                 history>>

\* (variant) the last reply decides, also when its window is the shorter one
UpdateGateLastWins(r) ==
  /\ Goto(r, "update", "done")
  /\ pauseUntil' = retryAfter[r]
  /\ gateActivations' = gateActivations + 1
  /\ promised' = IF retryAfter[r] > promised THEN retryAfter[r] ELSE promised
  /\ retryAfter' = [retryAfter EXCEPT ![r] = 0]
  /\ UNCHANGED <<timer, attempt, cancelled, transportRetries, owed>>

\* Under the lock: the window grows or stays as it is.
UpdateGate(r) ==
  /\ Goto(r, "update", "done")
  /\ \/ /\ retryAfter[r] > pauseUntil
        /\ pauseUntil' = retryAfter[r]
        /\ gateActivations' = gateActivations + 1
     \/ /\ retryAfter[r] <= pauseUntil
        /\ UNCHANGED <<pauseUntil, gateActivations>>
  /\ promised' = IF retryAfter[r] > promised THEN retryAfter[r] ELSE promised
  /\ retryAfter' = [retryAfter EXCEPT ![r] = 0]
  /\ UNCHANGED <<timer, attempt, cancelled, transportRetries, owed>>

AllDone == (\A r \in Requests : ~Active(r)) /\ UNCHANGED vars

-----------------------------------------------------------------------------
RoundTrip(r) ==
  \/ GateOpens(r) \/ WaitCancelled(r)
  \/ Send(r) \/ Reply(r) \/ Throttled(r) \/ RetryLater(r) \/ Fails(r)
  \/ Retry(r) \/ UpdateGate(r)

Next ==
  \/ Tick
  \/ \E R \in SUBSET Requests : Cancel(R)
  \/ \E r \in Requests : ReadGate(r) \/ RoundTrip(r)
  \/ AllDone

Spec == Init /\ [][Next]_vars

-----------------------------------------------------------------------------
(* Properties.                                                             *)

\* Every variable holds values of its type; only a request that waits has a
\* timer.
TypeOK ==
  /\ pauseUntil \in Nat
  /\ rpc \in [Requests -> {"idle", "wait", "send", "flight", "update",
                           "backoff", "done"}]
  /\ timer \in [Requests -> Nat]
  /\ \A r \in Requests : timer[r] > 0 => rpc[r] \in {"wait", "backoff"}
  /\ attempt \in [Requests -> Nat]
  /\ retryAfter \in [Requests -> Nat]
  /\ cancelled \subseteq Requests
  /\ gateActivations \in Nat /\ transportRetries \in Nat
  /\ promised \in Nat /\ owed \in [Requests -> Nat]

\* No request is sent for the first time before the end of every window the
\* service had asked for, by whichever reply, when it came to the gate.
GateRespected ==
  \A r \in Requests : rpc[r] = "send" /\ attempt[r] = 0 => owed[r] = 0

\* A request that is not idempotent is sent at most once, any other at most
\* maxRetries times again, whatever the errors of its attempts.
RetriesBounded ==
  \A r \in Requests :
    attempt[r] <= (IF r \in Idempotent THEN maxRetries + 1 ELSE 1)
=============================================================================
