----------------------- MODULE ThrottledTransportProofs -----------------------
(***************************************************************************)
(* Proofs about module ThrottledTransport, for any requests, pauses and    *)
(* backoffs.                                                               *)
(***************************************************************************)
EXTENDS ThrottledTransport, TLAPS

\* The window never falls short of what a reply has asked for, so that what a
\* request owes when it reads the gate is what it waits; a request in its
\* backoff has been sent before and is past the gate.
GateInv ==
  /\ promised = pauseUntil
  /\ \A r \in Requests :
       /\ rpc[r] \in {"idle", "wait"} => attempt[r] = 0
       /\ rpc[r] \in {"flight", "backoff"} => attempt[r] > 0
       /\ rpc[r] = "wait" => owed[r] <= timer[r]
       /\ rpc[r] = "send" /\ attempt[r] = 0 => owed[r] = 0

Most(r) == IF r \in Idempotent THEN maxRetries + 1 ELSE 1

\* An attempt is left to whoever is about to make one.
AttemptsInv ==
  \A r \in Requests :
    /\ attempt[r] <= Most(r)
    /\ rpc[r] \in {"idle", "wait"} => attempt[r] = 0
    /\ rpc[r] \in {"send", "backoff"} => attempt[r] < Most(r)

-----------------------------------------------------------------------------
\* The types hold whatever the requests and the clock do.
THEOREM TypeCorrect == Spec => []TypeOK
<1>1. Init => TypeOK
  BY DEF Init, TypeOK
<1>2. TypeOK /\ [Next]_vars => TypeOK'
  <2> SUFFICES ASSUME TypeOK, [Next]_vars PROVE TypeOK'
    OBVIOUS
  <2> USE ThrottledTransportAssumption
  <2>1. CASE Tick
    <3>1. \A n \in Nat : Passed(n) \in Nat /\ (Passed(n) > 0 => n > 0)
      BY DEF Passed
    <3>2. timer' \in [Requests -> Nat] /\ owed' \in [Requests -> Nat]
      BY <2>1, <3>1 DEF Tick, TypeOK
    <3>3. \A r \in Requests : timer'[r] > 0 => timer[r] > 0
      BY <2>1, <3>1 DEF Tick, TypeOK
    <3> QED BY <2>1, <3>1, <3>2, <3>3 DEF Tick, TypeOK, stats
  <2>2. ASSUME NEW R \in SUBSET Requests, Cancel(R) PROVE TypeOK'
    BY <2>2 DEF Cancel, TypeOK, stats, history
  <2>3. ASSUME NEW r \in Requests, ReadGate(r) PROVE TypeOK'
    BY <2>3 DEF ReadGate, Goto, TypeOK, stats
  <2>4. ASSUME NEW r \in Requests, RoundTrip(r) PROVE TypeOK'
    <3>1. CASE GateOpens(r)
      BY <3>1 DEF GateOpens, Goto, TypeOK, stats, history
    <3>2. CASE WaitCancelled(r)
      <4>1. CASE Goto(r, "wait", "done")
        BY <3>2, <4>1 DEF WaitCancelled, Goto, TypeOK, stats, history
      <4>2. CASE Goto(r, "backoff", "done")
        BY <3>2, <4>2 DEF WaitCancelled, Goto, TypeOK, stats, history
      <4> QED BY <3>2, <4>1, <4>2 DEF WaitCancelled
    <3>3. CASE Send(r)
      BY <3>3 DEF Send, Goto, TypeOK, stats, history
    <3>4. CASE Reply(r)
      BY <3>4 DEF Reply, Goto, TypeOK, stats, history
    <3>5. CASE Throttled(r)
      BY <3>5 DEF Throttled, Goto, TypeOK, stats, history
    <3>6. CASE RetryLater(r)
      <4>1. rpc[r] = "flight" /\ attempt[r] \in Nat
        BY <3>6 DEF RetryLater, Goto, TypeOK
      <4>2. PICK n \in Int : n = attempt[r] - 1
        BY <4>1
      <4>3. n % Len(retryBackoffs) \in 0..(Len(retryBackoffs) - 1)
        BY <4>2
      <4>4. Backoff(n) \in Nat
        BY <4>3 DEF Backoff
      <4> QED BY <3>6, <4>2, <4>4 DEF RetryLater, Goto, TypeOK, history
    <3>7. CASE Fails(r)
      BY <3>7 DEF Fails, Goto, TypeOK, stats, history
    <3>8. CASE Retry(r)
      BY <3>8 DEF Retry, Goto, TypeOK, stats, history
    <3>9. CASE UpdateGate(r)
      <4>1. retryAfter[r] \in Nat
        BY DEF TypeOK
      <4>2. /\ pauseUntil' \in Nat /\ gateActivations' \in Nat
            /\ promised' \in Nat /\ retryAfter' \in [Requests -> Nat]
        BY <3>9, <4>1 DEF UpdateGate, TypeOK
      <4>3. /\ rpc' = [rpc EXCEPT ![r] = "done"] /\ rpc[r] = "update"
            /\ UNCHANGED <<timer, attempt, cancelled, transportRetries, owed>>
        BY <3>9 DEF UpdateGate, Goto
      <4> QED BY <4>2, <4>3 DEF TypeOK
    <3> QED BY <2>4, <3>1, <3>2, <3>3, <3>4, <3>5, <3>6, <3>7, <3>8, <3>9
            DEF RoundTrip
  <2>5. CASE UNCHANGED vars
    BY <2>5 DEF vars, stats, history, TypeOK
  <2> QED BY <2>1, <2>2, <2>3, <2>4, <2>5 DEF Next, AllDone
<1> QED BY <1>1, <1>2, PTL DEF Spec

-----------------------------------------------------------------------------
\* The gate: no first attempt before the end of a window that some reply had
\* asked for when the request came to the gate.
THEOREM GateRespectedAlways == Spec => []GateRespected
<1>1. Init => GateInv
  BY DEF Init, GateInv
<1>2. TypeOK /\ GateInv /\ [Next]_vars => GateInv'
  <2> SUFFICES ASSUME TypeOK, GateInv, [Next]_vars PROVE GateInv'
    OBVIOUS
  <2>1. CASE Tick
    <3>1. \A m, n \in Nat : m <= n => Passed(m) <= Passed(n)
      BY DEF Passed
    <3>2. Passed(0) = 0
      BY DEF Passed
    <3>3. \A r \in Requests : /\ timer'[r] = Passed(timer[r])
                              /\ owed'[r] = Passed(owed[r])
      BY <2>1 DEF Tick
    <3>4. UNCHANGED <<rpc, attempt>> /\ promised' = pauseUntil'
      BY <2>1 DEF Tick, GateInv
    <3> QED BY <3>1, <3>2, <3>3, <3>4 DEF GateInv, TypeOK
  <2>2. ASSUME NEW R \in SUBSET Requests, Cancel(R) PROVE GateInv'
    BY <2>2 DEF Cancel, GateInv, history
  <2>3. ASSUME NEW r \in Requests, ReadGate(r) PROVE GateInv'
    BY <2>3 DEF ReadGate, Goto, GateInv, TypeOK
  <2>4. ASSUME NEW r \in Requests, RoundTrip(r) PROVE GateInv'
    <3>1. CASE GateOpens(r)
      BY <3>1 DEF GateOpens, Goto, GateInv, TypeOK, history
    <3>2. CASE WaitCancelled(r)
      BY <3>2 DEF WaitCancelled, Goto, GateInv, TypeOK, history
    <3>3. CASE Send(r)
      BY <3>3 DEF Send, Goto, GateInv, TypeOK, history
    <3>4. CASE Reply(r) \/ Fails(r)
      BY <3>4 DEF Reply, Fails, Goto, GateInv, TypeOK, history
    <3>5. CASE Throttled(r)
      BY <3>5 DEF Throttled, Goto, GateInv, TypeOK, history
    <3>6. CASE RetryLater(r)
      <4>1. /\ rpc' = [rpc EXCEPT ![r] = "backoff"]
            /\ \A q \in Requests \ {r} : timer'[q] = timer[q]
            /\ UNCHANGED <<pauseUntil, attempt, promised, owed>>
            /\ attempt[r] > 0
        BY <3>6 DEF RetryLater, Goto, GateInv, TypeOK, history
      <4> QED BY <4>1 DEF GateInv, TypeOK
    <3>7. CASE Retry(r)
      BY <3>7 DEF Retry, Goto, GateInv, TypeOK, history
    <3>8. CASE UpdateGate(r)
      BY <3>8 DEF UpdateGate, Goto, GateInv, TypeOK
    <3> QED BY <2>4, <3>1, <3>2, <3>3, <3>4, <3>5, <3>6, <3>7, <3>8
            DEF RoundTrip
  <2>5. CASE UNCHANGED vars
    BY <2>5 DEF vars, history, GateInv
  <2> QED BY <2>1, <2>2, <2>3, <2>4, <2>5 DEF Next, AllDone
<1>3. GateInv => GateRespected
  BY DEF GateInv, GateRespected
<1> QED BY <1>1, <1>2, <1>3, TypeCorrect, PTL DEF Spec

-----------------------------------------------------------------------------
\* Retries: what must not be sent twice is not, and the number of attempts of
\* anything else is bounded.
THEOREM RetriesBoundedAlways == Spec => []RetriesBounded
<1>0. \A r \in Requests : Most(r) \in Nat \ {0}
  BY ThrottledTransportAssumption DEF Most
<1>1. Init => AttemptsInv
  <2> SUFFICES ASSUME Init, NEW r \in Requests
               PROVE  0 <= Most(r) /\ rpc[r] = "idle" /\ attempt[r] = 0
    BY DEF AttemptsInv
  <2> QED BY <1>0 DEF Init
<1>2. TypeOK /\ AttemptsInv /\ [Next]_vars => AttemptsInv'
  <2> SUFFICES ASSUME TypeOK, AttemptsInv, [Next]_vars PROVE AttemptsInv'
    OBVIOUS
  <2>1. CASE Tick
    BY <2>1 DEF Tick, AttemptsInv
  <2>2. ASSUME NEW R \in SUBSET Requests, Cancel(R) PROVE AttemptsInv'
    BY <2>2 DEF Cancel, AttemptsInv
  <2>3. ASSUME NEW r \in Requests, ReadGate(r) PROVE AttemptsInv'
    BY <1>0, <2>3 DEF ReadGate, Goto, AttemptsInv, TypeOK
  <2>4. ASSUME NEW r \in Requests, RoundTrip(r) PROVE AttemptsInv'
    <3>1. CASE GateOpens(r)
      BY <1>0, <3>1 DEF GateOpens, Goto, AttemptsInv, TypeOK
    <3>2. CASE Send(r)
      BY <1>0, <3>2 DEF Send, Goto, AttemptsInv, TypeOK
    <3>3. CASE WaitCancelled(r) \/ Reply(r) \/ Fails(r)
      BY <3>3 DEF WaitCancelled, Reply, Fails, Goto, AttemptsInv, TypeOK
    <3>4. CASE Throttled(r)
      BY <3>4 DEF Throttled, Goto, AttemptsInv, TypeOK
    <3>5. CASE RetryLater(r)
      <4>1. attempt[r] < Most(r)
        BY <3>5, ThrottledTransportAssumption
        DEF RetryLater, MayRetry, Most, TypeOK
      <4> QED BY <3>5, <4>1 DEF RetryLater, Goto, AttemptsInv, TypeOK
    <3>6. CASE Retry(r)
      BY <3>6 DEF Retry, Goto, AttemptsInv, TypeOK
    <3>7. CASE UpdateGate(r)
      BY <3>7 DEF UpdateGate, Goto, AttemptsInv, TypeOK
    <3> QED BY <2>4, <3>1, <3>2, <3>3, <3>4, <3>5, <3>6, <3>7 DEF RoundTrip
  <2>5. CASE UNCHANGED vars
    BY <2>5 DEF vars, AttemptsInv
  <2> QED BY <2>1, <2>2, <2>3, <2>4, <2>5 DEF Next, AllDone
<1>3. AttemptsInv => RetriesBounded
  BY DEF AttemptsInv, RetriesBounded, Most
<1> QED BY <1>1, <1>2, <1>3, TypeCorrect, PTL DEF Spec
=============================================================================
