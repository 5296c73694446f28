--------------------------- MODULE ApiClientProofs ---------------------------
(***************************************************************************)
(* What holds of the hooks and their counters for any calls, codes and     *)
(* retry policies.                                                         *)
(***************************************************************************)
EXTENDS ApiClient, ThrottledTransportProofs, FiniteSetTheorems

Hooks   == {"onResponse", "onError", "onRetry"}
Records == {"lookup", "create", "add"}
Running == Records \cup {"raise"}

First(c)  == hooks[c] = HooksOf(c, result[c])
Second(c) == hooks[c] = Tail(HooksOf(c, result[c])) /\ hooks[c] # <<>>

(***************************************************************************)
(* Why the types hold.  A retry is announced only when the policy has one  *)
(* left; a code is looked up for the first hook of a reply alone; and no   *)
(* code ever has a second counter, whoever creates the first.              *)
(***************************************************************************)
ClientTypeInv ==
  /\ ClientTypeOK
  /\ \A c \in Calls :
       /\ cpc[c] = "again" => TriedAgain(c, result[c])
       /\ cpc[c] \in Running => /\ result[c] \in Codes \cup Errors
                                /\ First(c) \/ (cpc[c] = "raise" /\ Second(c))
       /\ cpc[c] \in Records => result[c] \in Codes /\ First(c)
  /\ \A code \in Codes : Len(counters[code]) \in {0, 1}

\* An attempt of a call is a request of the transport.
LEMMA AttemptIsRequest ==
  ASSUME ClientTypeOK, NEW c \in Calls
  PROVE  Attempt(c) \in Requests
  BY ApiClientAssumption DEF Attempt, ClientTypeOK

-----------------------------------------------------------------------------
(* The hooks.                                                              *)

\* The hooks of a call that returns with res.
LEMMA HooksOfCases ==
  ASSUME NEW c \in Calls, NEW res \in Codes \cup Errors
  PROVE  /\ res \in Success => HooksOf(c, res) = <<"onResponse">>
         /\ res \in Errors => HooksOf(c, res) = <<"onError">>
         /\ res \in Codes \ Success /\ ~TriedAgain(c, res) =>
              HooksOf(c, res) = <<"onError", "onResponse">>
         /\ TriedAgain(c, res) /\ res = "429" =>
              HooksOf(c, res) = <<"onError", "onRetry">>
         /\ TriedAgain(c, res) /\ res # "429" =>
              HooksOf(c, res) = <<"onRetry">>
<1>1. Success \subseteq Codes /\ Errors \cap Codes = {}
  BY ApiClientAssumption
<1>2. TriedAgain(c, res) => res \in Codes \ Success
  BY DEF TriedAgain
<1>3. ASSUME res \in Success PROVE HooksOf(c, res) = <<"onResponse">>
  BY <1>1, <1>2, <1>3 DEF HooksOf
<1>4. ASSUME res \in Errors PROVE HooksOf(c, res) = <<"onError">>
  BY <1>1, <1>2, <1>4 DEF HooksOf
<1>5. ASSUME res \in Codes \ Success, ~TriedAgain(c, res)
      PROVE  HooksOf(c, res) = <<"onError", "onResponse">>
  BY <1>1, <1>5 DEF HooksOf
<1>6. ASSUME TriedAgain(c, res)
      PROVE  HooksOf(c, res) = IF res = "429" THEN <<"onError", "onRetry">>
                               ELSE <<"onRetry">>
  BY <1>1, <1>2, <1>6 DEF HooksOf
<1>. QED
  BY <1>3, <1>4, <1>5, <1>6

LEMMA OneHook ==
  ASSUME NEW S, NEW a \in S
  PROVE  /\ <<a>> \in Seq(S) /\ <<a>> # <<>>
         /\ Head(<<a>>) = a /\ Tail(<<a>>) = <<>>
  OBVIOUS

LEMMA TwoHooks ==
  ASSUME NEW S, NEW a \in S, NEW b \in S
  PROVE  /\ <<a, b>> \in Seq(S) /\ <<a, b>> # <<>>
         /\ Head(<<a, b>>) = a /\ Tail(<<a, b>>) = <<b>>
<1>1. <<a, b>> \in Seq(S) /\ Len(<<a, b>>) = 2
  OBVIOUS
<1>2. /\ Tail(<<a, b>>) \in Seq(S) /\ Len(Tail(<<a, b>>)) = 1
      /\ Tail(<<a, b>>)[1] = b
  BY <1>1
<1>3. Len(<<b>>) = 1 /\ <<b>> \in Seq(S) /\ <<b>>[1] = b
  OBVIOUS
<1>4. Tail(<<a, b>>) = <<b>>
  BY <1>2, <1>3
<1>. QED
  BY <1>1, <1>4

\* The first hook of a reply or an error raises all that it is worth; the second,
\* when there is one, is the last and raises nothing more.
LEMMA FirstHookCounts ==
  ASSUME NEW c \in Calls, NEW res \in Codes \cup Errors
  PROVE  LET hs == HooksOf(c, res)
         IN  /\ hs \in Seq(Hooks) /\ hs # <<>> /\ Tail(hs) \in Seq(Hooks)
             /\ Raised(Head(hs), res) = onError(res)
             /\ Tail(hs) # <<>> => /\ Tail(Tail(hs)) = <<>>
                                   /\ Raised(Head(Tail(hs)), res) = {}
             /\ Tail(hs) # hs
<1>. DEFINE hs == HooksOf(c, res)
<1>0. /\ "onResponse" \in Hooks /\ "onError" \in Hooks /\ "onRetry" \in Hooks
      /\ <<>> \in Seq(Hooks)
  BY DEF Hooks
<1>1. /\ Success \subseteq Codes /\ Success \cap Throttling = {}
      /\ "429" \in Throttling /\ "503" \in Throttling
      /\ Throttling \subseteq Codes
      /\ "transient" \notin Codes
      /\ \A t \in Throttling : t = "429" \/ t = "503"
  BY ApiClientAssumption DEF Errors, Throttling
<1>2. /\ Raised("onResponse", res) = onResponse(res)
      /\ Raised("onError", res) = onError(res)
      /\ Raised("onRetry", res) = onRetry(res)
  BY DEF Raised
<1>3. CASE res \in Success
  <2>1. hs = <<"onResponse">>
    BY <1>3, HooksOfCases
  <2>2. onResponse(res) = onError(res)
    BY <1>1, <1>3 DEF onResponse, onError
  <2>. QED
    BY <1>0, <1>2, <2>1, <2>2, OneHook
<1>4. CASE res \in Errors
  <2>1. hs = <<"onError">>
    BY <1>4, HooksOfCases
  <2>. QED
    BY <1>0, <1>2, <2>1, OneHook
<1>5. CASE res \in Codes \ Success /\ ~TriedAgain(c, res)
  <2>1. hs = <<"onError", "onResponse">>
    BY <1>5, HooksOfCases
  <2>2. onResponse(res) = {}
    BY <1>5 DEF onResponse
  <2>. QED
    BY <1>0, <1>2, <2>1, <2>2, OneHook, TwoHooks
<1>6. CASE res \in Codes \ Success /\ TriedAgain(c, res) /\ res = "429"
  <2>1. hs = <<"onError", "onRetry">>
    BY <1>6, HooksOfCases
  <2>2. onRetry(res) = {}
    BY <1>6 DEF onRetry
  <2>. QED
    BY <1>0, <1>2, <2>1, <2>2, OneHook, TwoHooks
<1>7. CASE res \in Codes \ Success /\ TriedAgain(c, res) /\ res # "429"
  <2>1. hs = <<"onRetry">>
    BY <1>7, HooksOfCases
  <2>2. onRetry(res) = onError(res)
    BY <1>1, <1>7 DEF onRetry, onError
  <2>. QED
    BY <1>0, <1>2, <2>1, <2>2, OneHook
<1>. QED
  BY <1>3, <1>4, <1>5, <1>6, <1>7

LEMMA WhatIsRaised ==
  ASSUME NEW res \in Codes \cup Errors
  PROVE  /\ "statusCodes" \in onError(res) <=> res \in Codes
         /\ "throttlingCount" \in onError(res) <=> res \in Throttling
         /\ "networkErrors" \in onError(res) <=> res = "transient"
  BY DEF onError

-----------------------------------------------------------------------------
(* The steps of the client, those of the transport left out.               *)

ClientStep(c) ==
  \/ FirstAttempt(c) \/ NextAttempt(c)
  \/ Lookup(c) \/ Create(c) \/ Add(c) \/ Raise(c)

Replied(c, res) == cpc[c] = "trip" /\ Returns(c, res)

LEMMA ClientSteps ==
  ASSUME [ClientNext]_allVars
  PROVE  \/ UNCHANGED clientVars
         \/ \E c \in Calls : ClientStep(c)
         \/ \E c \in Calls, res \in Codes \cup Errors : Replied(c, res)
<1>1. ASSUME NEW c \in Calls, Trip(c)
      PROVE  \/ UNCHANGED clientVars
             \/ \E res \in Codes \cup Errors : Replied(c, res)
  <2>1. "lasting" \in Errors /\ "transient" \in Errors
    BY DEF Errors
  <2>2. Throttling \subseteq Codes
    BY ApiClientAssumption
  <2>. QED
    BY <1>1, <2>1, <2>2 DEF Trip, Replied
<1>2. CASE TimePasses \/ AllReturned \/ UNCHANGED allVars
  BY <1>2 DEF TimePasses, AllReturned, allVars
<1>3. ASSUME NEW c \in Calls, EndContext(c)
      PROVE  UNCHANGED clientVars
  BY <1>3 DEF EndContext
<1>. QED
  BY <1>1, <1>2, <1>3 DEF ClientNext, Execute, ClientStep

\* What the hooks of a call are depends on nothing that others change.
LEMMA HooksStable ==
  ASSUME NEW c \in Calls, retries'[c] = retries[c], result'[c] = result[c]
  PROVE  /\ HooksOf(c, result[c])' = HooksOf(c, result[c])
         /\ TriedAgain(c, result[c])' <=> TriedAgain(c, result[c])
  BY DEF HooksOf, TriedAgain, Policy

\* A step of another call leaves what is known of this one alone.
LEMMA OthersStable ==
  ASSUME NEW c \in Calls, retries'[c] = retries[c], result'[c] = result[c],
         hooks'[c] = hooks[c]
  PROVE  /\ First(c)' <=> First(c)
         /\ Second(c)' <=> Second(c)
         /\ TriedAgain(c, result[c])' <=> TriedAgain(c, result[c])
  BY HooksStable DEF First, Second

-----------------------------------------------------------------------------
LEMMA ClientTypeInit == ClientInit => ClientTypeInv
<1>. SUFFICES ASSUME ClientInit PROVE ClientTypeInv
  OBVIOUS
<1>1. MaxAttempt \in Nat /\ IsFiniteSet(Calls)
  BY ApiClientAssumption
<1>. QED
  BY <1>1 DEF ClientInit, ClientTypeInv, ClientTypeOK, Running, Records

LEMMA AttemptTypeInv ==
  ASSUME ClientTypeInv, NEW c \in Calls, FirstAttempt(c) \/ NextAttempt(c)
  PROVE  ClientTypeInv'
<1>1. CASE FirstAttempt(c)
  <2>1. \A d \in Calls : /\ First(d)' <=> First(d)
                         /\ Second(d)' <=> Second(d)
                         /\ TriedAgain(d, result[d])' <=> TriedAgain(d, result[d])
    BY <1>1, OthersStable DEF FirstAttempt
  <2>2. ClientTypeOK'
    BY <1>1 DEF FirstAttempt, onRequest, ClientTypeInv, ClientTypeOK
  <2>. QED
    BY <1>1, <2>1, <2>2
    DEF FirstAttempt, ClientTypeInv, ClientTypeOK, Running, Records
<1>2. CASE NextAttempt(c)
  <2>1. \A d \in Calls \ {c} :
          /\ First(d)' <=> First(d)
          /\ Second(d)' <=> Second(d)
          /\ TriedAgain(d, result[d])' <=> TriedAgain(d, result[d])
    BY <1>2, OthersStable DEF NextAttempt, ClientTypeInv, ClientTypeOK
  <2>2. retries[c] + 1 \in 0..MaxAttempt
    <3>1. TriedAgain(c, result[c]) /\ retries[c] \in 0..MaxAttempt
      BY <1>2 DEF NextAttempt, ClientTypeInv, ClientTypeOK
    <3>2. Policy(c)[result[c]] \in 0..MaxAttempt
      BY <3>1, ApiClientAssumption DEF TriedAgain, Policy
    <3>. QED
      BY <3>1, <3>2, ApiClientAssumption DEF TriedAgain
  <2>3. ClientTypeOK'
    BY <1>2, <2>2 DEF NextAttempt, onRequest, ClientTypeInv, ClientTypeOK
  <2>. QED
    BY <1>2, <2>1, <2>3
    DEF NextAttempt, ClientTypeInv, ClientTypeOK, Running, Records
<1>. QED
  BY <1>1, <1>2

LEMMA ReturnsTypeInv ==
  ASSUME ClientTypeInv, NEW c \in Calls, NEW res \in Codes \cup Errors,
         Replied(c, res)
  PROVE  ClientTypeInv' /\ First(c)'
<1>1. \A d \in Calls \ {c} :
        /\ First(d)' <=> First(d)
        /\ Second(d)' <=> Second(d)
        /\ TriedAgain(d, result[d])' <=> TriedAgain(d, result[d])
  BY OthersStable DEF Replied, Returns, ClientTypeInv, ClientTypeOK
<1>2. result'[c] = res /\ hooks'[c] = HooksOf(c, res)
  BY DEF Replied, Returns, ClientTypeInv, ClientTypeOK
<1>3. First(c)'
  BY <1>2 DEF Replied, Returns, First, HooksOf, TriedAgain, Policy
<1>4. cpc'[c] = IF res \in Codes THEN "lookup" ELSE "raise"
  BY FirstHookCounts, WhatIsRaised
  DEF Replied, Returns, Enter, ClientTypeInv, ClientTypeOK
<1>5. HooksOf(c, res) \in Seq(Hooks)
  BY FirstHookCounts
<1>6. replies' \in [Codes -> Nat]
  BY DEF Replied, Returns, ClientTypeInv, ClientTypeOK
<1>7. ClientTypeOK'
  BY <1>2, <1>4, <1>5, <1>6
  DEF Replied, Returns, metrics, ClientTypeInv, ClientTypeOK, Hooks
<1>. QED
  BY <1>1, <1>2, <1>3, <1>4, <1>7
  DEF Replied, Returns, metrics, ClientTypeInv, ClientTypeOK, Running, Records

\* counterMap.Add: at most one counter for a code, and the one that a call
\* holds stays there.
LEMMA CounterTypeInv ==
  ASSUME ClientTypeInv, NEW c \in Calls, Lookup(c) \/ Create(c) \/ Add(c)
  PROVE  ClientTypeInv'
<1>1. \A d \in Calls :
        /\ First(d)' <=> First(d)
        /\ Second(d)' <=> Second(d)
        /\ TriedAgain(d, result[d])' <=> TriedAgain(d, result[d])
  BY OthersStable DEF Lookup, Create, Add
<1>2. /\ cpc[c] \in Records /\ result[c] \in Codes /\ First(c)
      /\ counters \in [Codes -> Seq(Nat)]
      /\ counters[result[c]] \in Seq(Nat)
      /\ Len(counters[result[c]]) \in {0, 1}
  BY DEF Lookup, Create, Add, ClientTypeInv, ClientTypeOK, Records
<1>3. CASE Lookup(c)
  <2>1. ClientTypeOK'
    BY <1>2, <1>3 DEF Lookup, metrics, ClientTypeInv, ClientTypeOK
  <2>. QED
    BY <1>1, <1>2, <1>3, <2>1
    DEF Lookup, metrics, ClientTypeInv, ClientTypeOK, Running, Records
<1>4. CASE Create(c)
  <2>. DEFINE new == IF counters[result[c]] = <<>>
                     THEN Append(counters[result[c]], 0)
                     ELSE counters[result[c]]
  <2>1. new \in Seq(Nat) /\ Len(new) = 1
    BY <1>2
  <2>2. counters' = [counters EXCEPT ![result[c]] = new]
    BY <1>4 DEF Create
  <2>. HIDE DEF new
  <2>3. /\ counters' \in [Codes -> Seq(Nat)]
        /\ counters'[result[c]] = new
        /\ \A code \in Codes : /\ Len(counters'[code]) \in {0, 1}
                                /\ Len(counters[code]) <= Len(counters'[code])
    BY <1>2, <2>1, <2>2 DEF ClientTypeInv
  <2>4. ref' = [ref EXCEPT ![c] = 1]
    BY <1>4, <2>1, <2>3 DEF Create
  <2>5. ClientTypeOK'
    BY <1>2, <1>4, <2>1, <2>3, <2>4
    DEF Create, ClientTypeInv, ClientTypeOK, Records, Running
  <2>. QED
    BY <1>1, <1>2, <1>4, <2>3, <2>5
    DEF Create, ClientTypeInv, ClientTypeOK, Running, Records
<1>5. CASE Add(c)
  <2>. DEFINE old == counters[result[c]]
              new == [old EXCEPT ![ref[c]] = @ + 1]
  <2>1. ref[c] \in 1..Len(old)
    BY <1>5 DEF Add, ClientTypeInv, ClientTypeOK
  <2>2. new \in Seq(Nat) /\ Len(new) = Len(old)
    BY <1>2, <2>1
  <2>3. counters' = [counters EXCEPT ![result[c]] = new]
    BY <1>5 DEF Add
  <2>. HIDE DEF new
  <2>4. /\ counters' \in [Codes -> Seq(Nat)]
        /\ \A code \in Codes : Len(counters'[code]) = Len(counters[code])
    BY <1>2, <2>2, <2>3
  <2>5. ClientTypeOK'
    BY <1>2, <1>5, <2>4 DEF Add, ClientTypeInv, ClientTypeOK, Records, Running
  <2>. QED
    BY <1>1, <1>2, <1>5, <2>4, <2>5
    DEF Add, ClientTypeInv, ClientTypeOK, Running, Records
<1>. QED
  BY <1>3, <1>4, <1>5

\* The end of a hook: of the first one, with all that was to be raised, or of
\* the second, with nothing.
LEMMA RaiseEffect ==
  ASSUME ClientTypeInv, NEW c \in Calls, Raise(c)
  PROVE  /\ result[c] \in Codes \cup Errors
         /\ \/ First(c) /\ Raised(Head(hooks[c]), result[c]) = onError(result[c])
            \/ Second(c) /\ ~First(c) /\ Raised(Head(hooks[c]), result[c]) = {}
         /\ Tail(hooks[c]) \in Seq(Hooks)
         /\ \/ Tail(hooks[c]) = <<>>
            \/ /\ Tail(hooks[c]) = Tail(HooksOf(c, result[c])) /\ First(c)
               /\ Raised(Head(Tail(hooks[c])), result[c]) = {}
<1>. DEFINE res == result[c]
            hs == HooksOf(c, res)
<1>1. cpc[c] = "raise" /\ res \in Codes \cup Errors /\ (First(c) \/ Second(c))
  BY DEF Raise, ClientTypeInv, Running
<1>2. /\ Tail(hs) \in Seq(Hooks)
      /\ Raised(Head(hs), res) = onError(res)
      /\ Tail(hs) # <<>> => /\ Tail(Tail(hs)) = <<>>
                            /\ Raised(Head(Tail(hs)), res) = {}
      /\ Tail(hs) # hs
  BY <1>1, FirstHookCounts
<1>3. <<>> \in Seq(Hooks)
  OBVIOUS
<1>. QED
  BY <1>1, <1>2, <1>3 DEF First, Second

LEMMA RaiseTypeInv ==
  ASSUME ClientTypeInv, NEW c \in Calls, Raise(c)
  PROVE  ClientTypeInv'
<1>1. \A d \in Calls \ {c} :
        /\ First(d)' <=> First(d)
        /\ Second(d)' <=> Second(d)
        /\ TriedAgain(d, result[d])' <=> TriedAgain(d, result[d])
  BY OthersStable DEF Raise, ClientTypeInv, ClientTypeOK
<1>2. /\ HooksOf(c, result[c])' = HooksOf(c, result[c])
      /\ TriedAgain(c, result[c])' <=> TriedAgain(c, result[c])
  BY HooksStable DEF Raise
<1>3. hooks' = [hooks EXCEPT ![c] = Tail(hooks[c])]
  BY DEF Raise
<1>4. /\ Tail(hooks[c]) \in Seq(Hooks)
      /\ \/ Tail(hooks[c]) = <<>>
         \/ Tail(hooks[c]) = Tail(HooksOf(c, result[c]))
            /\ Raised(Head(Tail(hooks[c])), result[c]) = {}
      /\ result[c] \in Codes \cup Errors
  BY RaiseEffect
<1>5. cpc' = [cpc EXCEPT ![c] = cpc'[c]]
      /\ cpc'[c] = IF Tail(hooks[c]) # <<>> THEN "raise"
                   ELSE IF TriedAgain(c, result[c]) THEN "again" ELSE "done"
  BY <1>4 DEF Raise, Enter, ClientTypeInv, ClientTypeOK
<1>6. hooks' \in [Calls -> Seq(Hooks)] /\ hooks'[c] = Tail(hooks[c])
  BY <1>3, <1>4 DEF ClientTypeInv, ClientTypeOK, Hooks
<1>7. throttlingCount' \in Nat /\ networkErrors' \in Nat
  BY DEF Raise, ClientTypeInv, ClientTypeOK
<1>8. ClientTypeOK'
  <2>1. cpc' \in [Calls -> {"idle", "trip", "lookup", "create", "add", "raise",
                            "again", "done"}]
    BY <1>5 DEF ClientTypeInv, ClientTypeOK
  <2>2. UNCHANGED <<retries, result, ref, counters, requestCount, replies>>
    BY DEF Raise
  <2>3. \A d \in Calls : cpc'[d] = "add" => cpc[d] = "add"
    BY <1>5 DEF ClientTypeInv, ClientTypeOK
  <2>. QED
    BY <1>6, <1>7, <2>1, <2>2, <2>3 DEF ClientTypeInv, ClientTypeOK, Hooks
<1>9. Tail(hooks[c]) # <<>> => Second(c)'
  BY <1>2, <1>4, <1>6 DEF Second
<1>10. UNCHANGED <<result, counters>>
  BY DEF Raise
<1>. QED
  BY <1>1, <1>2, <1>4, <1>5, <1>8, <1>9, <1>10
  DEF ClientTypeInv, ClientTypeOK, Running, Records

LEMMA ClientTypeStep ==
  ASSUME ClientTypeInv, [ClientNext]_allVars
  PROVE  ClientTypeInv'
<1>1. CASE UNCHANGED clientVars
  <2>1. UNCHANGED <<cpc, retries, result, hooks, ref, counters, requestCount,
                    throttlingCount, networkErrors, replies>>
    BY <1>1 DEF clientVars, calls, metrics
  <2>2. \A d \in Calls :
          /\ First(d)' <=> First(d)
          /\ Second(d)' <=> Second(d)
          /\ TriedAgain(d, result[d])' <=> TriedAgain(d, result[d])
    BY <2>1, OthersStable
  <2>. QED
    BY <2>1, <2>2 DEF ClientTypeInv, ClientTypeOK
<1>2. ASSUME NEW c \in Calls, ClientStep(c) PROVE ClientTypeInv'
  BY <1>2, AttemptTypeInv, CounterTypeInv, RaiseTypeInv DEF ClientStep
<1>3. ASSUME NEW c \in Calls, NEW res \in Codes \cup Errors, Replied(c, res)
      PROVE  ClientTypeInv'
  BY <1>3, ReturnsTypeInv
<1>. QED
  BY <1>1, <1>2, <1>3, ClientSteps

\* No call is tried again more often than the policy allows, and none counts
\* without a counter.
LEMMA ClientTypeCorrect == ClientSpec => []ClientTypeOK
<1>1. ClientSpec => []ClientTypeInv
  BY ClientTypeInit, ClientTypeStep, PTL DEF ClientSpec
<1>2. ClientTypeInv => ClientTypeOK
  BY DEF ClientTypeInv
<1>. QED
  BY <1>1, <1>2, PTL

-----------------------------------------------------------------------------
(* The transport below.                                                    *)

\* A step of the client is a step of the transport or none: whatever gosip
\* does with its replies, what holds of the transport alone holds of it here.
THEOREM ClientImplementsTransport == ClientSpec => Spec
<1>1. ClientInit => Init
  BY DEF ClientInit
<1>2. ClientTypeInv /\ [ClientNext]_allVars => [Next]_vars
  <2>. SUFFICES ASSUME ClientTypeInv, [ClientNext]_allVars PROVE [Next]_vars
    OBVIOUS
  <2>1. CASE TimePasses
    BY <2>1 DEF TimePasses, Next
  <2>2. ASSUME NEW c \in Calls, FirstAttempt(c) PROVE UNCHANGED vars
    BY <2>2 DEF FirstAttempt
  <2>3. ASSUME NEW c \in Calls, EndContext(c) PROVE Next
    BY <2>3 DEF EndContext, Next
  <2>4. ASSUME NEW c \in Calls, Execute(c) PROVE [Next]_vars
    <3>1. CASE Trip(c)
      <4>1. Attempt(c) \in Requests
        BY AttemptIsRequest DEF ClientTypeInv
      <4>2. ReadGate(Attempt(c)) \/ RoundTrip(Attempt(c))
        BY <3>1 DEF Trip, RoundTrip
      <4>. QED
        BY <4>1, <4>2 DEF Next
    <3>2. CASE NextAttempt(c) \/ Lookup(c) \/ Create(c) \/ Add(c) \/ Raise(c)
      BY <3>2 DEF NextAttempt, Lookup, Create, Add, Raise
    <3>. QED
      BY <2>4, <3>1, <3>2 DEF Execute
  <2>5. CASE AllReturned \/ UNCHANGED allVars
    BY <2>5 DEF AllReturned, allVars
  <2>. QED
    BY <2>1, <2>2, <2>3, <2>4, <2>5 DEF ClientNext
<1>3. ClientSpec => []ClientTypeInv
  BY ClientTypeInit, ClientTypeStep, PTL DEF ClientSpec
<1>. QED
  BY <1>1, <1>2, <1>3, PTL DEF ClientSpec, Spec

\* The types hold for any calls, any policies and any pauses.
THEOREM AllTypesCorrect == ClientSpec => []AllTypesOK
<1>1. ClientSpec => []TypeOK
  BY ClientImplementsTransport, TypeCorrect, PTL
<1>2. TypeOK /\ ClientTypeOK => AllTypesOK
  BY DEF AllTypesOK
<1>. QED
  BY <1>1, <1>2, ClientTypeCorrect, PTL

\* The gate and the bound on attempts, for all the attempts of all the calls.
THEOREM ClientGateRespected == ClientSpec => [](GateRespected /\ RetriesBounded)
  BY ClientImplementsTransport, GateRespectedAlways, RetriesBoundedAlways, PTL

-----------------------------------------------------------------------------
(* The counts of the status codes.                                         *)

\* Replies that are not in the counts yet.
Unrecorded(code) == {c \in Calls : cpc[c] \in Records /\ result[c] = code}

RecordedInv ==
  \A code \in Codes :
    Snapshot(code) + Cardinality(Unrecorded(code)) = replies[code]

\* Adding a call to a set of calls, or taking it away.
LEMMA CountCalls ==
  ASSUME NEW S \in SUBSET Calls, NEW c
  PROVE  /\ Cardinality(S) \in Nat
         /\ c \notin S => Cardinality(S \cup {c}) = Cardinality(S) + 1
         /\ c \in S => Cardinality(S \ {c}) = Cardinality(S) - 1
<1>1. IsFiniteSet(S)
  BY ApiClientAssumption, FS_Subset
<1>. QED
  BY <1>1, FS_CardinalityType, FS_AddElement, FS_RemoveElement

LEMMA SnapshotType ==
  ASSUME ClientTypeInv, NEW code \in Codes
  PROVE  Snapshot(code) \in Nat
  BY DEF ClientTypeInv, ClientTypeOK, Snapshot

\* What a step does to the counts that a snapshot shows.
LEMMA SnapshotStep ==
  ASSUME ClientTypeInv, NEW c \in Calls, ClientStep(c), NEW code \in Codes
  PROVE  Snapshot(code)' =
           IF Add(c) /\ result[c] = code THEN Snapshot(code) + 1
           ELSE Snapshot(code)
<1>1. /\ counters \in [Codes -> Seq(Nat)]
      /\ counters[code] \in Seq(Nat) /\ Len(counters[code]) \in {0, 1}
  BY DEF ClientTypeInv, ClientTypeOK
<1>2. CASE FirstAttempt(c) \/ NextAttempt(c) \/ Lookup(c) \/ Raise(c)
  <2>1. counters' = counters /\ ~Add(c)
    BY <1>2
    DEF FirstAttempt, NextAttempt, Lookup, Raise, Add, metrics
  <2>. QED
    BY <2>1 DEF Snapshot
<1>3. CASE Create(c)
  <2>1. ~Add(c)
    BY <1>3 DEF Create, Add
  <2>2. /\ counters[code] # <<>> => counters'[code] = counters[code]
        /\ counters[code] = <<>> =>
             counters'[code] = <<>> \/ counters'[code] = Append(<<>>, 0)
    BY <1>1, <1>3 DEF Create
  <2>3. Append(<<>>, 0) # <<>> /\ Len(Append(<<>>, 0)) = 1
        /\ Append(<<>>, 0)[1] = 0
    OBVIOUS
  <2>. QED
    BY <2>1, <2>2, <2>3 DEF Snapshot
<1>4. CASE Add(c)
  <2>1. result[c] \in Codes /\ ref[c] \in 1..Len(counters[result[c]])
        /\ Len(counters[result[c]]) \in {0, 1}
    BY <1>4 DEF Add, ClientTypeInv, ClientTypeOK, Records
  <2>2. ref[c] = 1 /\ Len(counters[result[c]]) = 1
    <3>1. \A n \in {0, 1} : \A k \in 1..n : k = 1 /\ n = 1
      OBVIOUS
    <3>. QED
      BY <2>1, <3>1
  <2>3. counters' = [counters EXCEPT ![result[c]][1] = @ + 1]
    BY <1>4, <2>2 DEF Add
  <2>4. CASE result[c] = code
    <3>. DEFINE old == counters[code]
    <3>1. counters'[code] = [old EXCEPT ![1] = @ + 1]
      BY <1>1, <2>3, <2>4
    <3>2. old \in Seq(Nat) /\ Len(old) = 1
      BY <1>1, <2>2, <2>4
    <3>. HIDE DEF old
    <3>. DEFINE new == [old EXCEPT ![1] = @ + 1]
    <3>3. new \in Seq(Nat) /\ Len(new) = Len(old)
      BY <3>2
    <3>4. new[1] = old[1] + 1
      BY <3>2
    <3>5. new # <<>> /\ old # <<>> /\ Len(new) = 1
      BY <3>2, <3>3
    <3>. USE DEF old
    <3>. QED
      BY <1>4, <2>4, <3>1, <3>2, <3>4, <3>5 DEF Snapshot
  <2>5. CASE result[c] # code
    BY <1>1, <2>3, <2>5 DEF Snapshot
  <2>. QED
    BY <2>4, <2>5
<1>. QED
  BY <1>2, <1>3, <1>4 DEF ClientStep

LEMMA RecordedStep ==
  ASSUME ClientTypeInv, RecordedInv, [ClientNext]_allVars
  PROVE  RecordedInv'
<1>. SUFFICES ASSUME NEW code \in Codes
              PROVE  (Snapshot(code) + Cardinality(Unrecorded(code))
                        = replies[code])'
  BY DEF RecordedInv
<1>0. /\ Snapshot(code) + Cardinality(Unrecorded(code)) = replies[code]
      /\ Snapshot(code) \in Nat
      /\ Unrecorded(code) \in SUBSET Calls
      /\ Cardinality(Unrecorded(code)) \in Nat
  BY SnapshotType, CountCalls DEF RecordedInv, Unrecorded
<1>1. CASE UNCHANGED clientVars
  BY <1>0, <1>1
  DEF clientVars, calls, metrics, Snapshot, Unrecorded
<1>2. ASSUME NEW c \in Calls, ClientStep(c), ~Add(c)
      PROVE  (Snapshot(code) + Cardinality(Unrecorded(code)) = replies[code])'
  <2>1. Snapshot(code)' = Snapshot(code)
    BY <1>2, SnapshotStep
  <2>2. replies' = replies
    BY <1>2
    DEF ClientStep, FirstAttempt, NextAttempt, Lookup, Create, Raise
  <2>3. \A d \in Calls : /\ cpc'[d] \in Records <=> cpc[d] \in Records
                         /\ cpc[d] \in Records => result'[d] = result[d]
    <3>1. CASE FirstAttempt(c) \/ NextAttempt(c) \/ Lookup(c) \/ Create(c)
      BY <1>2, <3>1
      DEF FirstAttempt, NextAttempt, Lookup, Create, Records, ClientTypeInv,
          ClientTypeOK
    <3>2. CASE Raise(c)
      <4>1. cpc' = [cpc EXCEPT ![c] = cpc'[c]]
            /\ cpc'[c] \in {"raise", "again", "done"}
        BY <3>2, RaiseEffect DEF Raise, Enter, ClientTypeInv, ClientTypeOK
      <4>. QED
        BY <3>2, <4>1 DEF Raise, Records, ClientTypeInv, ClientTypeOK
    <3>. QED
      BY <1>2, <3>1, <3>2 DEF ClientStep
  <2>4. Unrecorded(code)' = Unrecorded(code)
    BY <2>3 DEF Unrecorded
  <2>. QED
    BY <1>0, <2>1, <2>2, <2>4
<1>3. ASSUME NEW c \in Calls, Add(c)
      PROVE  (Snapshot(code) + Cardinality(Unrecorded(code)) = replies[code])'
  <2>1. Snapshot(code)' = IF result[c] = code THEN Snapshot(code) + 1
                          ELSE Snapshot(code)
    BY <1>3, SnapshotStep DEF ClientStep
  <2>2. /\ UNCHANGED <<replies, result>>
        /\ cpc[c] = "add" /\ cpc' = [cpc EXCEPT ![c] = "raise"]
    BY <1>3 DEF Add
  <2>3. CASE result[c] = code
    <3>1. c \in Unrecorded(code)
          /\ Unrecorded(code)' = Unrecorded(code) \ {c}
      BY <2>2, <2>3 DEF Unrecorded, Records, ClientTypeInv, ClientTypeOK
    <3>. QED
      BY <1>0, <2>1, <2>2, <2>3, <3>1, CountCalls
  <2>4. CASE result[c] # code
    <3>1. Unrecorded(code)' = Unrecorded(code)
      BY <2>2, <2>4 DEF Unrecorded, Records, ClientTypeInv, ClientTypeOK
    <3>. QED
      BY <1>0, <2>1, <2>2, <2>4, <3>1
  <2>. QED
    BY <2>3, <2>4
<1>4. ASSUME NEW c \in Calls, NEW res \in Codes \cup Errors, Replied(c, res)
      PROVE  (Snapshot(code) + Cardinality(Unrecorded(code)) = replies[code])'
  <2>1. Snapshot(code)' = Snapshot(code)
    BY <1>4 DEF Replied, Returns, metrics, Snapshot
  <2>2. /\ cpc[c] = "trip" /\ result' = [result EXCEPT ![c] = res]
        /\ replies'[code] = replies[code] + IF code = res THEN 1 ELSE 0
        /\ cpc' = [cpc EXCEPT ![c] = Enter(HooksOf(c, res), res)]
    BY <1>4 DEF Replied, Returns
  <2>3. Enter(HooksOf(c, res), res) =
          IF res \in Codes THEN "lookup" ELSE "raise"
    BY FirstHookCounts, WhatIsRaised DEF Enter
  <2>4. replies[code] \in Nat
    BY DEF ClientTypeInv, ClientTypeOK
  <2>5. CASE res = code
    <3>1. c \notin Unrecorded(code)
          /\ Unrecorded(code)' = Unrecorded(code) \cup {c}
      BY <2>2, <2>3, <2>5 DEF Unrecorded, Records, ClientTypeInv, ClientTypeOK
    <3>. QED
      BY <1>0, <2>1, <2>2, <2>4, <2>5, <3>1, CountCalls
  <2>6. CASE res # code
    <3>1. Unrecorded(code)' = Unrecorded(code)
      BY <2>2, <2>3, <2>6 DEF Unrecorded, Records, ClientTypeInv, ClientTypeOK
    <3>. QED
      BY <1>0, <2>1, <2>2, <2>4, <2>6, <3>1
  <2>. QED
    BY <2>5, <2>6
<1>. QED
  BY <1>1, <1>2, <1>3, <1>4, ClientSteps

\* Each reply is in the counts exactly once when no hook is running, whatever
\* hooks it has gone through and whoever has met the same code with it.
THEOREM StatusesRecordedOnceAlways == ClientSpec => []StatusesRecordedOnce
<1>1. ClientInit => RecordedInv
  <2>. SUFFICES ASSUME ClientInit, NEW code \in Codes
                PROVE  Snapshot(code) + Cardinality(Unrecorded(code))
                         = replies[code]
    BY DEF RecordedInv
  <2>1. Unrecorded(code) = {}
    BY DEF ClientInit, Unrecorded, Records
  <2>. QED
    BY <2>1, FS_EmptySet DEF ClientInit, Snapshot
<1>2. RecordedInv /\ ClientTypeInv => StatusesRecordedOnce
  <2>. SUFFICES ASSUME RecordedInv, ClientTypeInv, NoHookRuns,
                       NEW code \in Codes
                PROVE  Snapshot(code) = replies[code]
    BY DEF StatusesRecordedOnce
  <2>1. Unrecorded(code) = {}
    BY DEF Unrecorded, NoHookRuns, Records
  <2>. QED
    BY <2>1, FS_EmptySet, SnapshotType DEF RecordedInv
<1>. QED
  BY <1>1, <1>2, ClientTypeInit, ClientTypeStep, RecordedStep, PTL
  DEF ClientSpec

\* A count, as it is reported, never falls: no step of any call lowers it.
THEOREM NoCountFallsAlways == ClientSpec => NoCountFalls
<1>1. ClientTypeInv /\ [ClientNext]_allVars =>
        [\A code \in Codes : Snapshot(code) <= Snapshot(code)']_allVars
  <2>. SUFFICES ASSUME ClientTypeInv, [ClientNext]_allVars, NEW code \in Codes
                PROVE  Snapshot(code) <= Snapshot(code)'
    OBVIOUS
  <2>0. Snapshot(code) \in Nat
    BY SnapshotType
  <2>1. CASE UNCHANGED clientVars
    BY <2>0, <2>1 DEF clientVars, metrics, Snapshot
  <2>2. ASSUME NEW c \in Calls, ClientStep(c)
        PROVE  Snapshot(code) <= Snapshot(code)'
    BY <2>0, <2>2, SnapshotStep
  <2>3. ASSUME NEW c \in Calls, NEW res \in Codes \cup Errors, Replied(c, res)
        PROVE  Snapshot(code) <= Snapshot(code)'
    BY <2>0, <2>3 DEF Replied, Returns, metrics, Snapshot
  <2>. QED
    BY <2>1, <2>2, <2>3, ClientSteps
<1>. QED
  BY <1>1, ClientTypeInit, ClientTypeStep, PTL DEF ClientSpec, NoCountFalls

-----------------------------------------------------------------------------
(* The signals.                                                            *)

\* Throttled replies that the scaler cannot see yet.
Unsignalled ==
  {c \in Calls : cpc[c] \in Running /\ result[c] \in Throttling /\ First(c)}

NetworkEnded == {c \in Calls : GaveUp(c, "transient")}

(***************************************************************************)
(* A throttled reply is counted at the end of its first hook, a network    *)
(* error in the step that ends its call; and the gate is closed by throt-  *)
(* tled replies alone.                                                     *)
(***************************************************************************)
SignalInv ==
  /\ throttlingCount + Cardinality(Unsignalled) = replies["429"] + replies["503"]
  /\ networkErrors = Cardinality(NetworkEnded)
  /\ gateActivations <= replies["429"] + replies["503"]

LEMMA CodesOfThrottling ==
  /\ "429" \in Codes /\ "503" \in Codes /\ "transient" \notin Codes
  /\ \A res : res \in Throttling <=> res = "429" \/ res = "503"
  BY ApiClientAssumption DEF Throttling, Errors

LEMMA SignalTypes ==
  ASSUME ClientTypeInv
  PROVE  /\ Unsignalled \in SUBSET Calls /\ NetworkEnded \in SUBSET Calls
         /\ Cardinality(Unsignalled) \in Nat /\ Cardinality(NetworkEnded) \in Nat
         /\ throttlingCount \in Nat /\ networkErrors \in Nat
         /\ replies["429"] \in Nat /\ replies["503"] \in Nat
  BY CountCalls, CodesOfThrottling
  DEF Unsignalled, NetworkEnded, ClientTypeInv, ClientTypeOK

\* Only a throttled reply moves the gate.
LEMMA GateStep ==
  ASSUME ClientTypeInv, TypeOK, [ClientNext]_allVars
  PROVE  \/ gateActivations' = gateActivations
         \/ /\ gateActivations' = gateActivations + 1
            /\ \E c \in Calls, res \in Throttling : Replied(c, res)
<1>1. ASSUME NEW c \in Calls, Trip(c)
      PROVE  \/ gateActivations' = gateActivations
             \/ /\ gateActivations' = gateActivations + 1
                /\ \E res \in Throttling : Replied(c, res)
  <2>. DEFINE r == Attempt(c)
  <2>1. CASE ReadGate(r) \/ GateOpens(r) \/ Send(r) \/ Throttled(r)
             \/ RetryLater(r) \/ Retry(r) \/ WaitCancelled(r) \/ Reply(r)
             \/ Fails(r)
    BY <2>1
    DEF ReadGate, GateOpens, Send, Throttled, RetryLater, Retry,
        WaitCancelled, Reply, Fails, stats
  <2>2. CASE UpdateGate(r) /\ \E code \in Throttling : Returns(c, code)
    BY <1>1, <2>2 DEF UpdateGate, Trip, Replied
  <2>. QED
    BY <1>1, <2>1, <2>2 DEF Trip
<1>2. ASSUME NEW c \in Calls,
             FirstAttempt(c) \/ NextAttempt(c) \/ EndContext(c) \/ Lookup(c)
               \/ Create(c) \/ Add(c) \/ Raise(c)
      PROVE  gateActivations' = gateActivations
  BY <1>2
  DEF FirstAttempt, NextAttempt, EndContext, Cancel, Lookup, Create, Add,
      Raise, vars, stats
<1>3. CASE TimePasses \/ AllReturned \/ UNCHANGED allVars
  BY <1>3 DEF TimePasses, Tick, AllReturned, allVars, vars, stats
<1>. QED
  BY <1>1, <1>2, <1>3 DEF ClientNext, Execute

\* Steps that neither bring a reply nor end a hook.
LEMMA QuietStep ==
  ASSUME ClientTypeInv, NEW c \in Calls,
         FirstAttempt(c) \/ NextAttempt(c) \/ Lookup(c) \/ Create(c) \/ Add(c)
  PROVE  /\ Unsignalled' = Unsignalled /\ NetworkEnded' = NetworkEnded
         /\ UNCHANGED <<throttlingCount, networkErrors, replies>>
<1>1. UNCHANGED <<throttlingCount, networkErrors, replies>>
  BY DEF FirstAttempt, NextAttempt, Lookup, Create, Add, metrics
<1>2. /\ cpc[c] \notin {"raise", "done"}
      /\ cpc' = [cpc EXCEPT ![c] = cpc'[c]]
      /\ cpc'[c] # "done"
      /\ cpc'[c] \in Running <=> cpc[c] \in Running
      /\ \A d \in Calls \ {c} : result'[d] = result[d]
      /\ cpc[c] \in Running => result'[c] = result[c]
      /\ hooks' = hooks
      /\ \A d \in Calls \ {c} : retries'[d] = retries[d]
      /\ cpc[c] \in Running => retries'[c] = retries[c]
  BY DEF FirstAttempt, NextAttempt, Lookup, Create, Add, Running, Records,
         metrics, ClientTypeInv, ClientTypeOK
<1>3. \A d \in Calls : cpc[d] \in Running => (First(d)' <=> First(d))
  BY <1>2, OthersStable
<1>4. \A d \in Calls : cpc'[d] \in Running <=> cpc[d] \in Running
  BY <1>2 DEF ClientTypeInv, ClientTypeOK
<1>5. Unsignalled' = Unsignalled
  BY <1>2, <1>3, <1>4 DEF Unsignalled
<1>6. NetworkEnded' = NetworkEnded
  BY <1>2 DEF NetworkEnded, GaveUp, ClientTypeInv, ClientTypeOK
<1>. QED
  BY <1>1, <1>5, <1>6

LEMMA ReplySum ==
  ASSUME ClientTypeInv, NEW c \in Calls, NEW res \in Codes \cup Errors,
         Replied(c, res)
  PROVE  replies'["429"] + replies'["503"] =
           replies["429"] + replies["503"] + IF res \in Throttling THEN 1 ELSE 0
<1>1. /\ replies'["429"] = replies["429"] + IF "429" = res THEN 1 ELSE 0
      /\ replies'["503"] = replies["503"] + IF "503" = res THEN 1 ELSE 0
  BY CodesOfThrottling DEF Replied, Returns
<1>. QED
  BY <1>1, CodesOfThrottling, SignalTypes

LEMMA ReplyStep ==
  ASSUME ClientTypeInv, NEW c \in Calls, NEW res \in Codes \cup Errors,
         Replied(c, res)
  PROVE  /\ UNCHANGED <<throttlingCount, networkErrors>>
         /\ NetworkEnded' = NetworkEnded
         /\ Cardinality(Unsignalled') =
              Cardinality(Unsignalled) + IF res \in Throttling THEN 1 ELSE 0
<1>1. /\ UNCHANGED <<throttlingCount, networkErrors, retries>>
      /\ cpc[c] = "trip" /\ result' = [result EXCEPT ![c] = res]
      /\ cpc' = [cpc EXCEPT ![c] = Enter(HooksOf(c, res), res)]
      /\ \A d \in Calls \ {c} : hooks'[d] = hooks[d]
  BY DEF Replied, Returns, metrics, ClientTypeInv, ClientTypeOK
<1>2. Enter(HooksOf(c, res), res) \in Running \ {"done"}
  BY DEF Enter, Running, Records
<1>3. First(c)'
  BY ReturnsTypeInv
<1>4. \A d \in Calls \ {c} : First(d)' <=> First(d)
  BY <1>1, OthersStable DEF ClientTypeInv, ClientTypeOK
<1>5. /\ cpc'[c] \in Running /\ cpc'[c] # "done" /\ result'[c] = res
      /\ \A d \in Calls \ {c} : cpc'[d] = cpc[d] /\ result'[d] = result[d]
  BY <1>1, <1>2 DEF ClientTypeInv, ClientTypeOK
<1>6. c \notin Unsignalled
  BY <1>1 DEF Unsignalled, Running, Records
<1>7. NetworkEnded' = NetworkEnded
  BY <1>1, <1>5 DEF NetworkEnded, GaveUp
<1>8. CASE res \in Throttling
  <2>1. Unsignalled' = Unsignalled \cup {c}
    BY <1>3, <1>4, <1>5, <1>8 DEF Unsignalled
  <2>. QED
    BY <1>1, <1>6, <1>7, <1>8, <2>1, SignalTypes, CountCalls
<1>9. CASE res \notin Throttling
  <2>1. Unsignalled' = Unsignalled
    BY <1>4, <1>5, <1>6, <1>9 DEF Unsignalled
  <2>. QED
    BY <1>1, <1>7, <1>9, <2>1, SignalTypes
<1>. QED
  BY <1>8, <1>9

LEMMA RaiseStep ==
  ASSUME ClientTypeInv, NEW c \in Calls, Raise(c)
  PROVE  /\ throttlingCount' + Cardinality(Unsignalled') =
              throttlingCount + Cardinality(Unsignalled)
         /\ networkErrors' - Cardinality(NetworkEnded') =
              networkErrors - Cardinality(NetworkEnded)
         /\ replies' = replies
<1>. DEFINE res == result[c]
            raised == Raised(Head(hooks[c]), res)
<1>1. /\ cpc[c] = "raise" /\ res \in Codes \cup Errors
      /\ UNCHANGED <<retries, result, replies>>
      /\ hooks' = [hooks EXCEPT ![c] = Tail(hooks[c])]
      /\ throttlingCount' = throttlingCount
           + IF "throttlingCount" \in raised THEN 1 ELSE 0
      /\ networkErrors' = networkErrors
           + IF "networkErrors" \in raised THEN 1 ELSE 0
  BY RaiseEffect DEF Raise
<1>2. \A d \in Calls \ {c} : First(d)' <=> First(d)
  BY <1>1, OthersStable DEF ClientTypeInv, ClientTypeOK
<1>3. ~First(c)'
  <2>1. hooks'[c] = Tail(hooks[c])
    BY <1>1 DEF ClientTypeInv, ClientTypeOK
  <2>2. Tail(hooks[c]) # HooksOf(c, res)
    BY <1>1, RaiseEffect, FirstHookCounts
  <2>3. HooksOf(c, result[c])' = HooksOf(c, res)
    BY <1>1, HooksStable
  <2>. QED
    BY <2>1, <2>2, <2>3 DEF First
<1>4. /\ \A d \in Calls \ {c} : cpc'[d] = cpc[d]
      /\ cpc'[c] = IF Tail(hooks[c]) # <<>> THEN "raise"
                   ELSE IF TriedAgain(c, res) THEN "again" ELSE "done"
  BY RaiseEffect DEF Raise, Enter, ClientTypeInv, ClientTypeOK
<1>5. Unsignalled' = Unsignalled \ {c}
  BY <1>1, <1>2, <1>3, <1>4 DEF Unsignalled
<1>6. throttlingCount' + Cardinality(Unsignalled') =
        throttlingCount + Cardinality(Unsignalled)
  <2>1. c \in Unsignalled <=> res \in Throttling /\ First(c)
    BY <1>1 DEF Unsignalled, Running
  <2>2. "throttlingCount" \in raised <=> res \in Throttling /\ First(c)
    BY <1>1, RaiseEffect, WhatIsRaised
  <2>3. CASE c \in Unsignalled
    <3>1. Cardinality(Unsignalled') = Cardinality(Unsignalled) - 1
      BY <1>5, <2>3, SignalTypes, CountCalls
    <3>2. throttlingCount' = throttlingCount + 1
      BY <1>1, <2>1, <2>2, <2>3
    <3>. QED
      BY <3>1, <3>2, SignalTypes
  <2>4. CASE c \notin Unsignalled
    <3>1. Unsignalled' = Unsignalled
      BY <1>5, <2>4
    <3>2. throttlingCount' = throttlingCount
      BY <1>1, <2>1, <2>2, <2>4, SignalTypes
    <3>. QED
      BY <3>1, <3>2
  <2>. QED
    BY <2>3, <2>4
<1>7. networkErrors' - Cardinality(NetworkEnded') =
        networkErrors - Cardinality(NetworkEnded)
  <2>1. c \notin NetworkEnded
    BY <1>1 DEF NetworkEnded, GaveUp
  <2>2. CASE res = "transient"
    <3>1. res \in Errors /\ ~TriedAgain(c, res)
      BY <1>1, <2>2, CodesOfThrottling DEF Errors, TriedAgain
    <3>2. Tail(HooksOf(c, res)) = <<>>
      BY <3>1, HooksOfCases, OneHook
    <3>3. First(c) /\ raised = onError(res) /\ Tail(hooks[c]) = <<>>
      BY <3>2, RaiseEffect DEF Second
    <3>4. "networkErrors" \in raised /\ cpc'[c] = "done"
      BY <1>1, <1>4, <2>2, <3>1, <3>3, WhatIsRaised
    <3>5. NetworkEnded' = NetworkEnded \cup {c}
      BY <1>1, <1>4, <2>2, <3>4 DEF NetworkEnded, GaveUp
    <3>6. Cardinality(NetworkEnded') = Cardinality(NetworkEnded) + 1
      BY <2>1, <3>5, SignalTypes, CountCalls
    <3>7. networkErrors' = networkErrors + 1
      BY <1>1, <3>4
    <3>. QED
      BY <3>6, <3>7, SignalTypes
  <2>3. CASE res # "transient"
    <3>1. "networkErrors" \notin raised
      BY <1>1, <2>3, RaiseEffect, WhatIsRaised
    <3>2. NetworkEnded' = NetworkEnded
      BY <1>1, <1>4, <2>1, <2>3 DEF NetworkEnded, GaveUp
    <3>. QED
      BY <1>1, <3>1, <3>2, SignalTypes
  <2>. QED
    BY <2>2, <2>3
<1>. QED
  BY <1>1, <1>6, <1>7

LEMMA SignalStep ==
  ASSUME ClientTypeInv, TypeOK, SignalInv, [ClientNext]_allVars
  PROVE  SignalInv'
<1>. DEFINE throttled == replies["429"] + replies["503"]
<1>0. throttled \in Nat /\ gateActivations \in Nat
  BY SignalTypes DEF TypeOK
<1>1. CASE UNCHANGED clientVars
  <2>1. UNCHANGED <<cpc, retries, result, hooks, throttlingCount,
                    networkErrors, replies>>
    BY <1>1 DEF clientVars, calls, metrics
  <2>2. \A d \in Calls : First(d)' <=> First(d)
    BY <2>1, OthersStable
  <2>3. Unsignalled' = Unsignalled /\ NetworkEnded' = NetworkEnded
    BY <2>1, <2>2 DEF Unsignalled, NetworkEnded, GaveUp
  <2>4. gateActivations' = gateActivations
    <3>1. ~ \E c \in Calls, res \in Throttling : Replied(c, res)
      BY <2>1, FirstHookCounts, CodesOfThrottling
      DEF Replied, Returns, Enter, ClientTypeInv, ClientTypeOK
    <3>. QED
      BY <3>1, GateStep
  <2>. QED
    BY <2>1, <2>3, <2>4 DEF SignalInv
<1>2. ASSUME NEW c \in Calls, ClientStep(c) PROVE SignalInv'
  <2>1. /\ throttlingCount' + Cardinality(Unsignalled') =
             throttlingCount + Cardinality(Unsignalled)
        /\ networkErrors' - Cardinality(NetworkEnded') =
             networkErrors - Cardinality(NetworkEnded)
        /\ replies' = replies
    BY <1>2, QuietStep, RaiseStep DEF ClientStep
  <2>2. /\ networkErrors' \in Nat /\ NetworkEnded' \in SUBSET Calls
        /\ Cardinality(NetworkEnded') \in Nat
    BY ClientTypeStep, CountCalls
    DEF NetworkEnded, ClientTypeInv, ClientTypeOK
  <2>3. networkErrors' = Cardinality(NetworkEnded')
    <3>1. /\ networkErrors = Cardinality(NetworkEnded)
          /\ networkErrors \in Nat /\ Cardinality(NetworkEnded) \in Nat
      BY SignalTypes DEF SignalInv
    <3>2. \A m, n \in Nat : m - n = 0 => m = n
      OBVIOUS
    <3>3. networkErrors' - Cardinality(NetworkEnded') = 0
      BY <2>1, <3>1
    <3>. QED
      BY <2>2, <3>2, <3>3
  <2>4. gateActivations' = gateActivations
    <3>1. ~ \E d \in Calls, res \in Throttling : Replied(d, res)
      BY <2>1, ReplySum, <1>0, CodesOfThrottling
    <3>. QED
      BY <3>1, GateStep
  <2>. QED
    BY <2>1, <2>3, <2>4 DEF SignalInv
<1>3. ASSUME NEW c \in Calls, NEW res \in Codes \cup Errors, Replied(c, res)
      PROVE  SignalInv'
  <2>1. replies'["429"] + replies'["503"] =
          throttled + IF res \in Throttling THEN 1 ELSE 0
    BY <1>3, ReplySum
  <2>2. /\ UNCHANGED <<throttlingCount, networkErrors>>
        /\ NetworkEnded' = NetworkEnded
        /\ Cardinality(Unsignalled') =
             Cardinality(Unsignalled) + IF res \in Throttling THEN 1 ELSE 0
    BY <1>3, ReplyStep
  <2>3. gateActivations' <= replies'["429"] + replies'["503"]
    <3>1. CASE gateActivations' = gateActivations
      BY <1>0, <2>1, <3>1 DEF SignalInv
    <3>2. ASSUME gateActivations' = gateActivations + 1,
                 NEW d \in Calls, NEW code \in Throttling, Replied(d, code)
          PROVE  gateActivations' <= replies'["429"] + replies'["503"]
      <4>1. code \in Codes \cup Errors
        BY CodesOfThrottling
      <4>2. replies'["429"] + replies'["503"] = throttled + 1
        BY <3>2, <4>1, ReplySum
      <4>. QED
        BY <1>0, <3>2, <4>2 DEF SignalInv
    <3>. QED
      BY <3>1, <3>2, GateStep
  <2>. QED
    BY <1>0, <2>1, <2>2, <2>3, SignalTypes DEF SignalInv
<1>. QED
  BY <1>1, <1>2, <1>3, ClientSteps

LEMMA SignalInvHolds == ClientSpec => [](ClientTypeInv /\ SignalInv)
<1>1. ClientInit => SignalInv
  <2>. SUFFICES ASSUME ClientInit PROVE SignalInv
    OBVIOUS
  <2>1. Unsignalled = {} /\ NetworkEnded = {}
    BY DEF ClientInit, Unsignalled, NetworkEnded, GaveUp, Running, Records
  <2>2. /\ replies["429"] = 0 /\ replies["503"] = 0
        /\ gateActivations = 0 /\ throttlingCount = 0 /\ networkErrors = 0
    BY CodesOfThrottling DEF ClientInit, Init
  <2>. QED
    BY <2>1, <2>2, FS_EmptySet DEF SignalInv
<1>. QED
  BY <1>1, ClientTypeInit, ClientTypeStep, SignalStep, TypeCorrect,
     ClientImplementsTransport, PTL
  DEF ClientSpec

LEMMA NothingUnsignalled ==
  ASSUME ClientTypeInv, SignalInv, NoHookRuns
  PROVE  throttlingCount = replies["429"] + replies["503"]
<1>1. Unsignalled = {}
  BY DEF Unsignalled, NoHookRuns, Running, Records
<1>. QED
  BY <1>1, FS_EmptySet, SignalTypes DEF SignalInv

\* What the throttle scaler reads are the throttled replies and the calls that
\* a network error has ended, each exactly once.
THEOREM SignalsTruthfulAlways == ClientSpec => []SignalsTruthful
<1>1. ClientTypeInv /\ SignalInv => SignalsTruthful
  BY NothingUnsignalled DEF SignalsTruthful, SignalInv, NetworkEnded
<1>. QED
  BY <1>1, SignalInvHolds, PTL

\* The transport never closes its gate behind the back of the scaler.
THEOREM GateIsSignalledAlways == ClientSpec => []GateIsSignalled
<1>1. ClientTypeInv /\ SignalInv => GateIsSignalled
  BY NothingUnsignalled DEF GateIsSignalled, SignalInv
<1>. QED
  BY <1>1, SignalInvHolds, PTL

-----------------------------------------------------------------------------
(* The attempts.                                                           *)

\* The replies that came back, as RecordedReplies has those recorded.
AllReplies == UNION {{code} \X (1..replies[code]) : code \in Codes}

\* Calls that are in an attempt, or whose last one has ended with an error.
Unanswered == {c \in Calls : cpc[c] = "trip" \/ result[c] \in Errors}

(***************************************************************************)
(* An attempt is counted when it begins; it becomes a reply when it comes  *)
(* back, or stays with its call for good when it comes back with an error, *)
(* because no error is tried again.                                        *)
(***************************************************************************)
AttemptInv ==
  /\ IsFiniteSet(AllReplies)
  /\ requestCount = Cardinality(AllReplies) + Cardinality(Unanswered)
  /\ \A c \in Calls : cpc[c] = "idle" => result[c] = "none"

LEMMA UnansweredTypes ==
  ASSUME ClientTypeInv
  PROVE  /\ Unanswered \in SUBSET Calls
         /\ Cardinality(Unanswered) \in Nat /\ requestCount \in Nat
         /\ \A code \in Codes : replies[code] \in Nat
  BY CountCalls DEF Unanswered, ClientTypeInv, ClientTypeOK

\* A reply is one more pair, an error none.
LEMMA AllRepliesStep ==
  ASSUME ClientTypeInv, AttemptInv, NEW c \in Calls,
         NEW res \in Codes \cup Errors, Replied(c, res)
  PROVE  /\ IsFiniteSet(AllReplies')
         /\ Cardinality(AllReplies') =
              Cardinality(AllReplies) + IF res \in Codes THEN 1 ELSE 0
<1>1. \A code \in Codes :
        replies'[code] = replies[code] + IF code = res THEN 1 ELSE 0
  BY DEF Replied, Returns
<1>2. IsFiniteSet(AllReplies) /\ Cardinality(AllReplies) \in Nat
  BY FS_CardinalityType DEF AttemptInv
<1>3. CASE res \notin Codes
  <2>1. \A code \in Codes : replies'[code] = replies[code]
    BY <1>1, <1>3, UnansweredTypes
  <2>2. AllReplies' = AllReplies
    BY <2>1 DEF AllReplies
  <2>. QED
    BY <1>2, <1>3, <2>2
<1>4. CASE res \in Codes
  <2>. DEFINE n == replies[res]
              k == <<res, n + 1>>
  <2>1. /\ n \in Nat /\ replies'[res] = n + 1
        /\ \A code \in Codes \ {res} : replies'[code] = replies[code]
    BY <1>1, <1>4, UnansweredTypes
  <2>2. \A x : x \in AllReplies <=>
          \E code \in Codes : x \in {code} \X (1..replies[code])
    BY DEF AllReplies
  <2>3. \A x : x \in AllReplies' <=>
          \E code \in Codes : x \in {code} \X (1..replies'[code])
    BY DEF AllReplies
  <2>4. ASSUME NEW x, x \in AllReplies' PROVE x \in AllReplies \cup {k}
    <3>1. PICK code \in Codes : x \in {code} \X (1..replies'[code])
      BY <2>3, <2>4
    <3>2. CASE code = res
      BY <1>4, <2>1, <2>2, <3>1, <3>2
    <3>3. CASE code # res
      BY <2>1, <2>2, <3>1, <3>3
    <3>. QED
      BY <3>2, <3>3
  <2>5. ASSUME NEW x, x \in AllReplies PROVE x \in AllReplies'
    <3>1. PICK code \in Codes : x \in {code} \X (1..replies[code])
      BY <2>2, <2>5
    <3>2. CASE code = res
      BY <1>4, <2>1, <2>3, <3>1, <3>2
    <3>3. CASE code # res
      BY <2>1, <2>3, <3>1, <3>3
    <3>. QED
      BY <3>2, <3>3
  <2>6. k \in AllReplies'
    BY <1>4, <2>1, <2>3
  <2>7. k \notin AllReplies
    BY <2>1, <2>2
  <2>8. AllReplies' = AllReplies \cup {k}
    BY <2>4, <2>5, <2>6
  <2>. QED
    BY <1>2, <1>4, <2>7, <2>8, FS_AddElement
<1>. QED
  BY <1>3, <1>4

\* A reply ends an attempt; an error is one that its call keeps.
LEMMA UnansweredReply ==
  ASSUME ClientTypeInv, NEW c \in Calls, NEW res \in Codes \cup Errors,
         Replied(c, res)
  PROVE  /\ Cardinality(Unanswered) =
              Cardinality(Unanswered') + IF res \in Codes THEN 1 ELSE 0
         /\ cpc'[c] # "idle"
         /\ \A d \in Calls \ {c} : cpc'[d] = cpc[d] /\ result'[d] = result[d]
         /\ requestCount' = requestCount
<1>1. /\ cpc[c] = "trip" /\ requestCount' = requestCount
      /\ result' = [result EXCEPT ![c] = res]
      /\ cpc' = [cpc EXCEPT ![c] = Enter(HooksOf(c, res), res)]
  BY DEF Replied, Returns, metrics
<1>2. Enter(HooksOf(c, res), res) \in {"lookup", "raise"}
  BY DEF Enter
<1>3. /\ cpc'[c] \in {"lookup", "raise"} /\ result'[c] = res
      /\ \A d \in Calls \ {c} : cpc'[d] = cpc[d] /\ result'[d] = result[d]
  BY <1>1, <1>2 DEF ClientTypeInv, ClientTypeOK
<1>4. c \in Unanswered
  BY <1>1 DEF Unanswered
<1>5. Codes \cap Errors = {}
  BY ApiClientAssumption
<1>6. CASE res \in Codes
  <2>1. Unanswered' = Unanswered \ {c}
    BY <1>3, <1>5, <1>6 DEF Unanswered
  <2>2. Cardinality(Unanswered') = Cardinality(Unanswered) - 1
    BY <1>4, <2>1, UnansweredTypes, CountCalls
  <2>. QED
    BY <1>1, <1>3, <1>6, <2>2, UnansweredTypes
<1>7. CASE res \notin Codes
  <2>1. Unanswered' = Unanswered
    BY <1>3, <1>4, <1>7 DEF Unanswered
  <2>. QED
    BY <1>1, <1>3, <1>7, <2>1, UnansweredTypes
<1>. QED
  BY <1>6, <1>7

\* An attempt begins, counted, with a call that has none and no error.
LEMMA AttemptBegins ==
  ASSUME ClientTypeInv, AttemptInv, NEW c \in Calls,
         FirstAttempt(c) \/ NextAttempt(c)
  PROVE  AttemptInv'
<1>1. /\ cpc[c] \in {"idle", "again"} /\ cpc' = [cpc EXCEPT ![c] = "trip"]
      /\ requestCount' = requestCount + 1 /\ replies' = replies
      /\ \A d \in Calls \ {c} : result'[d] = result[d]
  BY DEF FirstAttempt, NextAttempt, onRequest, ClientTypeInv, ClientTypeOK
<1>2. c \notin Unanswered
  <2>1. CASE cpc[c] = "idle"
    BY <2>1 DEF AttemptInv, Unanswered, Errors
  <2>2. CASE cpc[c] = "again"
    <3>1. result[c] \in Codes
      BY <2>2 DEF ClientTypeInv, TriedAgain
    <3>. QED
      BY <2>2, <3>1, ApiClientAssumption DEF Unanswered
  <2>. QED
    BY <1>1, <2>1, <2>2
<1>3. /\ cpc'[c] = "trip"
      /\ \A d \in Calls \ {c} : cpc'[d] = cpc[d]
  BY <1>1 DEF ClientTypeInv, ClientTypeOK
<1>4. Unanswered' = Unanswered \cup {c}
  BY <1>1, <1>3 DEF Unanswered
<1>5. Cardinality(Unanswered') = Cardinality(Unanswered) + 1
  BY <1>2, <1>4, UnansweredTypes, CountCalls
<1>6. AllReplies' = AllReplies
  BY <1>1 DEF AllReplies
<1>7. Cardinality(AllReplies) \in Nat
  BY FS_CardinalityType DEF AttemptInv
<1>8. requestCount' = Cardinality(AllReplies') + Cardinality(Unanswered')
  BY <1>1, <1>5, <1>6, <1>7, UnansweredTypes DEF AttemptInv
<1>9. \A d \in Calls : cpc'[d] = "idle" => result'[d] = "none"
  BY <1>1, <1>3 DEF AttemptInv
<1>. QED
  BY <1>6, <1>8, <1>9 DEF AttemptInv

\* Hooks neither begin an attempt nor end one.
LEMMA HooksKeepAttempts ==
  ASSUME ClientTypeInv, AttemptInv, NEW c \in Calls,
         Lookup(c) \/ Create(c) \/ Add(c) \/ Raise(c)
  PROVE  AttemptInv'
<1>1. UNCHANGED <<result, replies, requestCount>>
  BY DEF Lookup, Create, Add, Raise, metrics
<1>2. /\ cpc[c] \notin {"idle", "trip"} /\ cpc'[c] \notin {"idle", "trip"}
      /\ \A d \in Calls \ {c} : cpc'[d] = cpc[d]
  <2>1. CASE Lookup(c) \/ Create(c) \/ Add(c)
    BY <2>1 DEF Lookup, Create, Add, ClientTypeInv, ClientTypeOK
  <2>2. CASE Raise(c)
    BY <2>2 DEF Raise, Enter, ClientTypeInv, ClientTypeOK
  <2>. QED
    BY <2>1, <2>2
<1>3. Unanswered' = Unanswered
  BY <1>1, <1>2 DEF Unanswered
<1>4. AllReplies' = AllReplies
  BY <1>1 DEF AllReplies
<1>5. \A d \in Calls : cpc'[d] = "idle" => result'[d] = "none"
  BY <1>1, <1>2 DEF AttemptInv
<1>. QED
  BY <1>1, <1>3, <1>4, <1>5 DEF AttemptInv

LEMMA AttemptStep ==
  ASSUME ClientTypeInv, AttemptInv, [ClientNext]_allVars
  PROVE  AttemptInv'
<1>1. CASE UNCHANGED clientVars
  BY <1>1
  DEF AttemptInv, AllReplies, Unanswered, clientVars, calls, metrics
<1>2. ASSUME NEW c \in Calls, ClientStep(c) PROVE AttemptInv'
  BY <1>2, AttemptBegins, HooksKeepAttempts DEF ClientStep
<1>3. ASSUME NEW c \in Calls, NEW res \in Codes \cup Errors, Replied(c, res)
      PROVE  AttemptInv'
  <2>. DEFINE r == Cardinality(AllReplies)
              u == Cardinality(Unanswered')
  <2>1. r \in Nat /\ u \in Nat
    <3>1. Unanswered' \in SUBSET Calls
      BY DEF Unanswered
    <3>. QED
      BY <3>1, CountCalls, FS_CardinalityType DEF AttemptInv
  <2>2. /\ IsFiniteSet(AllReplies')
        /\ Cardinality(AllReplies') = r + IF res \in Codes THEN 1 ELSE 0
    BY <1>3, AllRepliesStep
  <2>3. /\ Cardinality(Unanswered) = u + IF res \in Codes THEN 1 ELSE 0
        /\ requestCount' = requestCount /\ cpc'[c] # "idle"
        /\ \A d \in Calls \ {c} : cpc'[d] = cpc[d] /\ result'[d] = result[d]
    BY <1>3, UnansweredReply
  <2>4. requestCount = r + Cardinality(Unanswered)
    BY DEF AttemptInv
  <2>5. \A d \in Calls : cpc'[d] = "idle" => result'[d] = "none"
    BY <2>3 DEF AttemptInv
  <2>. HIDE DEF r, u
  <2>6. requestCount' = Cardinality(AllReplies') + u
    BY <2>1, <2>2, <2>3, <2>4
  <2>. QED
    BY <2>2, <2>5, <2>6 DEF AttemptInv, u
<1>. QED
  BY <1>1, <1>2, <1>3, ClientSteps

\* Between the attempts, all that is unanswered has given up.
LEMMA AccountsBetweenAttempts ==
  ASSUME ClientTypeInv, AttemptInv, StatusesRecordedOnce
  PROVE  AttemptsAccounted
<1>. SUFFICES ASSUME \A c \in Calls : cpc[c] \in {"idle", "again", "done"}
              PROVE  requestCount =
                       Cardinality(RecordedReplies)
                         + Cardinality({c \in Calls :
                                          \E res \in Errors : GaveUp(c, res)})
  BY DEF AttemptsAccounted
<1>1. RecordedReplies = AllReplies
  BY DEF RecordedReplies, AllReplies, StatusesRecordedOnce, NoHookRuns
<1>2. ASSUME NEW c \in Calls
      PROVE  c \in Unanswered <=> \E res \in Errors : GaveUp(c, res)
  <2>1. cpc[c] = "idle" => result[c] \notin Errors
    BY DEF AttemptInv, Errors
  <2>2. cpc[c] = "again" => result[c] \notin Errors
    BY ApiClientAssumption DEF ClientTypeInv, TriedAgain
  <2>. QED
    BY <2>1, <2>2 DEF Unanswered, GaveUp
<1>3. Unanswered = {c \in Calls : \E res \in Errors : GaveUp(c, res)}
  BY <1>2 DEF Unanswered
<1>. QED
  BY <1>1, <1>3 DEF AttemptInv

\* Every attempt ever begun is a reply in the counts or an error that its call
\* has returned, whatever is tried again and whoever counts at the same time.
THEOREM AttemptsAccountedAlways == ClientSpec => []AttemptsAccounted
<1>1. ClientInit => AttemptInv
  <2>. SUFFICES ASSUME ClientInit PROVE AttemptInv
    OBVIOUS
  <2>1. Unanswered = {}
    BY DEF ClientInit, Unanswered, Errors
  <2>2. AllReplies = {}
    <3>1. \A code \in Codes : replies[code] = 0
      BY DEF ClientInit
    <3>2. \A code \in Codes : {code} \X (1..replies[code]) = {}
      BY <3>1
    <3>. QED
      BY <3>2 DEF AllReplies
  <2>. QED
    BY <2>1, <2>2, FS_EmptySet DEF ClientInit, AttemptInv
<1>2. ClientSpec => []ClientTypeInv
  BY ClientTypeInit, ClientTypeStep, PTL DEF ClientSpec
<1>. QED
  BY <1>1, <1>2, AttemptStep, StatusesRecordedOnceAlways,
     AccountsBetweenAttempts, PTL
  DEF ClientSpec
=============================================================================
