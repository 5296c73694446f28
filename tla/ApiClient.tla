------------------------------ MODULE ApiClient ------------------------------
(***************************************************************************)
(* Client in internal/api/client.go on top of ThrottledTransport: calls of *)
(* gosip's Execute, each a series of attempts that go through the shared   *)
(* transport one after the other, and the hooks that count what came of    *)
(* them.  The counters of the hooks are the signals of the throttle        *)
(* scaler.                                                                 *)
(*                                                                         *)
(* gosip itself is not part of the repository: which hooks it calls, and   *)
(* when it tries again, is modelled after the comment on setupHooks and    *)
(* the tests that run it.                                                  *)
(*                                                                         *)
(* A request of the transport is an attempt <<call, retries before it>>.   *)
(* Definitions marked (variant) are wrong on purpose, see                  *)
(* ThrottledTransport.                                                     *)
(***************************************************************************)
EXTENDS ThrottledTransport, FiniteSets

CONSTANTS Calls,        \* calls of Execute
          SiteCalls,    \* those made by a client from newSiteClient
          Codes,        \* status codes, as counted
          Success,      \* those from 200 to 299
          RetryPolicy,  \* status code -> retries configured
          GosipPolicy,  \* status code -> retries when none are configured
          MaxAttempt    \* the highest number of retries of either policy

Throttling == {"429", "503"}
Errors     == {"transient", "lasting"}

ASSUME ApiClientAssumption ==
  /\ IsFiniteSet(Calls) /\ SiteCalls \subseteq Calls
  /\ Throttling \subseteq Codes /\ IsFiniteSet(Codes)
  /\ Success \subseteq Codes \ Throttling
  /\ (Errors \cup {"none"}) \cap Codes = {}
  /\ MaxAttempt \in Nat
  /\ RetryPolicy \in [Codes -> 0..MaxAttempt]
  /\ GosipPolicy \in [Codes -> 0..MaxAttempt]
  /\ Requests = Calls \X (0..MaxAttempt)

VARIABLES
  cpc,             \* call -> where its Execute is
  retries,         \* call -> retries made
  result,          \* call -> what its last RoundTrip returned
  hooks,           \* call -> hooks still to run for it, the current one first
  ref,             \* call -> the counter that counterMap.Add holds, 0 for none
  counters,        \* code -> the counters ever installed under it, the last
                   \* one in force
  requestCount,
  throttlingCount,
  networkErrors,
  replies          \* history: code -> replies with it

calls   == <<cpc, retries, result, hooks, ref>>
metrics == <<counters, requestCount, throttlingCount, networkErrors>>
clientVars == <<calls, metrics, replies>>
allVars == <<vars, clientVars>>

ClientInit ==
  /\ Init
  /\ cpc = [c \in Calls |-> "idle"]
  /\ retries = [c \in Calls |-> 0]
  /\ result = [c \in Calls |-> "none"]
  /\ hooks = [c \in Calls |-> <<>>]
  /\ ref = [c \in Calls |-> 0]
  /\ counters = [code \in Codes |-> <<>>]
  /\ requestCount = 0
  /\ throttlingCount = 0
  /\ networkErrors = 0
  /\ replies = [code \in Codes |-> 0]

Attempt(c) == <<c, retries[c]>>

-----------------------------------------------------------------------------
(* gosip.                                                                  *)

\* Only the clients of newSiteClient are given the configured policy.
Policy(c) == IF c \in SiteCalls THEN RetryPolicy ELSE GosipPolicy

TriedAgain(c, res) ==
  /\ res \in Codes \ Success
  /\ retries[c] < Policy(c)[res]

HooksOf(c, res) ==
  IF res \in Errors THEN <<"onError">>
  ELSE IF res \in Success THEN <<"onResponse">>
  ELSE IF ~TriedAgain(c, res) THEN <<"onError", "onResponse">>
  ELSE IF res = "429" THEN <<"onError", "onRetry">>
  ELSE <<"onRetry">>

-----------------------------------------------------------------------------
(* The hooks: the counters each of them raises.                            *)

\* (variant) every final reply is recorded, as onError has done already
onResponseRecordsAll(res) == {"statusCodes"}

onResponse(res) == IF res \in Success THEN {"statusCodes"} ELSE {}

onError(res) ==
  (IF res \in Codes THEN {"statusCodes"} ELSE {})
    \cup (IF res \in Throttling THEN {"throttlingCount"} ELSE {})
    \cup (IF res = "transient" THEN {"networkErrors"} ELSE {})

\* (variant) the 429 that onError has counted is counted again
onRetryCounts429(res) ==
  (IF res = "429" THEN {} ELSE {"statusCodes"})
    \cup (IF res \in Throttling THEN {"throttlingCount"} ELSE {})

\* (variant) only 429 is throttling
onRetryMisses503(res) == IF res = "429" THEN {} ELSE {"statusCodes"}

onRetry(res) ==
  IF res = "429" THEN {}
  ELSE {"statusCodes"} \cup (IF res = "503" THEN {"throttlingCount"} ELSE {})

Raised(hook, res) ==
  IF hook = "onResponse" THEN onResponse(res)
  ELSE IF hook = "onError" THEN onError(res)
  ELSE onRetry(res)

\* A hook records the status code first.
Enter(hs, res) ==
  IF "statusCodes" \in Raised(Head(hs), res) THEN "lookup" ELSE "raise"

-----------------------------------------------------------------------------
(* A call.                                                                 *)

\* (variant) a retry is not counted
OnRequestOnce(again) == requestCount' = requestCount + IF again THEN 0 ELSE 1

\* The hook runs for every attempt.
onRequest(again) == requestCount' = requestCount + 1

FirstAttempt(c) ==
  /\ cpc[c] = "idle"
  /\ cpc' = [cpc EXCEPT ![c] = "trip"]
  /\ onRequest(FALSE)
  /\ UNCHANGED <<vars, retries, result, hooks, ref, counters,
                 throttlingCount, networkErrors, replies>>

NextAttempt(c) ==
  /\ cpc[c] = "again"
  /\ cpc' = [cpc EXCEPT ![c] = "trip"]
  /\ retries' = [retries EXCEPT ![c] = @ + 1]
  /\ result' = [result EXCEPT ![c] = "none"]
  /\ onRequest(TRUE)
  /\ UNCHANGED <<vars, hooks, ref, counters, throttlingCount, networkErrors,
                 replies>>

\* The context of a call is that of all its attempts.
EndContext(c) ==
  /\ cpc[c] \notin {"idle", "done"}
  /\ Cancel({r \in Requests : r[1] = c /\ rpc[r] # "done"})
  /\ UNCHANGED clientVars

Returns(c, res) ==
  /\ result' = [result EXCEPT ![c] = res]
  /\ hooks' = [hooks EXCEPT ![c] = HooksOf(c, res)]
  /\ cpc' = [cpc EXCEPT ![c] = Enter(HooksOf(c, res), res)]
  /\ replies' = [code \in Codes |->
                   replies[code] + IF code = res THEN 1 ELSE 0]
  /\ UNCHANGED <<retries, ref, metrics>>

\* A transient error comes back only from an attempt that is the last one.
Trip(c) ==
  LET r == Attempt(c) IN
  /\ cpc[c] = "trip"
  /\ \/ /\ \/ ReadGate(r) \/ GateOpens(r) \/ Send(r)
           \/ Throttled(r) \/ RetryLater(r) \/ Retry(r)
        /\ UNCHANGED clientVars
     \/ WaitCancelled(r) /\ Returns(c, "lasting")
     \/ Reply(r) /\ \E code \in Codes \ Throttling : Returns(c, code)
     \/ UpdateGate(r) /\ \E code \in Throttling : Returns(c, code)
     \/ Fails(r) /\ Returns(c, "lasting")
     \/ ~MayRetry(r) /\ Fails(r) /\ Returns(c, "transient")

-----------------------------------------------------------------------------
(* counterMap.Add for the code of the reply.                               *)

\* Under the read lock.
Lookup(c) ==
  /\ cpc[c] = "lookup"
  /\ ref' = [ref EXCEPT ![c] = Len(counters[result[c]])]
  /\ cpc' = [cpc EXCEPT ![c] = IF ref'[c] > 0 THEN "add" ELSE "create"]
  /\ UNCHANGED <<vars, retries, result, hooks, metrics, replies>>

\* (variant) the write lock is taken, but nobody looks again
CreateUnchecked(c) ==
  /\ cpc[c] = "create"
  /\ counters' = [counters EXCEPT ![result[c]] = Append(@, 0)]
  /\ ref' = [ref EXCEPT ![c] = Len(counters'[result[c]])]
  /\ cpc' = [cpc EXCEPT ![c] = "add"]
  /\ UNCHANGED <<vars, retries, result, hooks, requestCount, throttlingCount,
                 networkErrors, replies>>

\* Under the write lock: another call may have been first.
Create(c) ==
  /\ cpc[c] = "create"
  /\ counters' = [counters EXCEPT ![result[c]] =
                    IF @ = <<>> THEN Append(@, 0) ELSE @]
  /\ ref' = [ref EXCEPT ![c] = Len(counters'[result[c]])]
  /\ cpc' = [cpc EXCEPT ![c] = "add"]
  /\ UNCHANGED <<vars, retries, result, hooks, requestCount, throttlingCount,
                 networkErrors, replies>>

\* After either lock has been released.
Add(c) ==
  /\ cpc[c] = "add"
  /\ counters' = [counters EXCEPT ![result[c]][ref[c]] = @ + 1]
  /\ ref' = [ref EXCEPT ![c] = 0]
  /\ cpc' = [cpc EXCEPT ![c] = "raise"]
  /\ UNCHANGED <<vars, retries, result, hooks, requestCount, throttlingCount,
                 networkErrors, replies>>

-----------------------------------------------------------------------------
\* The rest of a hook; after the last one gosip tries again or returns.
Raise(c) ==
  /\ cpc[c] = "raise"
  /\ LET raised == Raised(Head(hooks[c]), result[c])
         left   == Tail(hooks[c])
     IN /\ throttlingCount' = throttlingCount
             + IF "throttlingCount" \in raised THEN 1 ELSE 0
        /\ networkErrors' = networkErrors
             + IF "networkErrors" \in raised THEN 1 ELSE 0
        /\ hooks' = [hooks EXCEPT ![c] = left]
        /\ cpc' = [cpc EXCEPT ![c] =
             IF left # <<>> THEN Enter(left, result[c])
             ELSE IF TriedAgain(c, result[c]) THEN "again" ELSE "done"]
  /\ UNCHANGED <<vars, retries, result, ref, counters, requestCount, replies>>

AllReturned ==
  /\ \A c \in Calls : cpc[c] \in {"idle", "done"}
  /\ UNCHANGED allVars

-----------------------------------------------------------------------------
Execute(c) ==
  NextAttempt(c) \/ Trip(c) \/ Lookup(c) \/ Create(c) \/ Add(c) \/ Raise(c)

TimePasses == Tick /\ UNCHANGED clientVars

ClientNext ==
  \/ TimePasses
  \/ \E c \in Calls : FirstAttempt(c) \/ EndContext(c) \/ Execute(c)
  \/ AllReturned

ClientSpec == ClientInit /\ [][ClientNext]_allVars

\* Time passes and a goroutine that can run does.  That a request that has been
\* sent ends, with a reply, an error or its context, is assumed of the network:
\* not every caller sets a deadline.  Nobody has to begin a call or end its
\* context.
ClientFairness ==
  WF_allVars(TimePasses) /\ \A c \in Calls : WF_allVars(Execute(c))

ClientFairSpec == ClientSpec /\ ClientFairness

-----------------------------------------------------------------------------
(* Properties.                                                             *)

\* The variables of the client; a call that is about to count holds a counter.
ClientTypeOK ==
  /\ cpc \in [Calls -> {"idle", "trip", "lookup", "create", "add", "raise",
                        "again", "done"}]
  /\ retries \in [Calls -> 0..MaxAttempt]
  /\ result \in [Calls -> Codes \cup Errors \cup {"none"}]
  /\ hooks \in [Calls -> Seq({"onResponse", "onError", "onRetry"})]
  /\ ref \in [Calls -> Nat]
  /\ \A c \in Calls : cpc[c] = "add" => ref[c] \in 1..Len(counters[result[c]])
  /\ counters \in [Codes -> Seq(Nat)]
  /\ requestCount \in Nat /\ throttlingCount \in Nat /\ networkErrors \in Nat
  /\ replies \in [Codes -> Nat]

\* Every variable holds values of its type: no window is negative, whatever a
\* Retry-After header names, and no call counts without a counter.
AllTypesOK == TypeOK /\ ClientTypeOK

\* What counterMap.Snapshot returns for a code.
Snapshot(code) ==
  IF counters[code] = <<>> THEN 0 ELSE counters[code][Len(counters[code])]

NoHookRuns == \A c \in Calls : cpc[c] \in {"idle", "trip", "again", "done"}

\* Each reply is recorded exactly once, whichever hooks it goes through,
\* retried or final, and whoever else meets the same code at the same time.
StatusesRecordedOnce ==
  NoHookRuns => \A code \in Codes : Snapshot(code) = replies[code]

\* The count of a code, as reported, never falls.
NoCountFalls ==
  [][\A code \in Codes : Snapshot(code) <= Snapshot(code)']_allVars

GaveUp(c, res) == cpc[c] = "done" /\ result[c] = res

\* The signals of the throttle scaler: one for each throttled reply, final or
\* tried again, and one for each call that a network error has ended.
SignalsTruthful ==
  NoHookRuns =>
    /\ throttlingCount = replies["429"] + replies["503"]
    /\ networkErrors = Cardinality({c \in Calls : GaveUp(c, "transient")})

\* Whenever the transport has closed its gate, the scaler is told.
GateIsSignalled == NoHookRuns => gateActivations <= throttlingCount

\* The replies recorded, each as its code and its number among those with it.
RecordedReplies == UNION {{code} \X (1..Snapshot(code)) : code \in Codes}

\* Every attempt begun has come to a recorded reply or to an error.
AttemptsAccounted ==
  (\A c \in Calls : cpc[c] \in {"idle", "again", "done"}) =>
    requestCount =
      Cardinality(RecordedReplies)
        + Cardinality({c \in Calls : \E res \in Errors : GaveUp(c, res)})

\* Every call returns: the attempts are bounded, and so is each of them.
ExecuteReturns == \A c \in Calls : cpc[c] # "idle" ~> cpc[c] = "done"

\* What docs/ARCHITECTURE.md says of the retry policies: a call gives up on a
\* reply only after the retries configured for its code.
ConfiguredRetriesMade ==
  \A c \in Calls, code \in Codes \ Success :
    GaveUp(c, code) => retries[c] >= RetryPolicy[code]
==============================================================================
